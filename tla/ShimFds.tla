------------------------------ MODULE ShimFds -------------------------------
(***************************************************************************)
(* The descriptor tables of moonlight/socket_shim.c: lwIP owns the virtual *)
(* descriptors 128..191, the shim keeps the descriptor flags and the       *)
(* socket type of each beside it, without a lock.  The type is what makes  *)
(* __wrap_setsockopt refuse SO_RCVTIMEO on UDP sockets.                    *)
(*                                                                         *)
(* Every other wrapper passes the call on: to lwIP when the descriptor is  *)
(* in the shim's range, else to the Vita's own stack.                      *)
(*                                                                         *)
(* A call into a stack is atomic (it locks its own table); every access to *)
(* g_virtual_fd_flags and g_virtual_socket_types is a step of its own.     *)
(***************************************************************************)
EXTENDS Naturals

CONSTANTS
    Threads,                                      \* application threads
    TSVITA_LWIP_FD_FIRST, TSVITA_LWIP_FD_LAST,    \* the shim's range
    LWIP_SOCKET_OFFSET, MEMP_NUM_NETCONN,         \* lwipopts.h
    RealFds    \* what the Vita hands out, with fewer than 128 files open

\* The descriptors lwIP hands out.
Fds == LWIP_SOCKET_OFFSET..(LWIP_SOCKET_OFFSET + MEMP_NUM_NETCONN - 1)

ASSUME FdsAssumption ==
    /\ {LWIP_SOCKET_OFFSET, TSVITA_LWIP_FD_FIRST, TSVITA_LWIP_FD_LAST}
          \subseteq Nat
    /\ MEMP_NUM_NETCONN \in Nat \ {0}
    /\ RealFds \subseteq Nat /\ RealFds \cap Fds = {}

Types == {"stream", "dgram"}

VARIABLES
    lwip,                    \* external: lwIP's table, "free" or a type
    vita,                    \* external: descriptors open on the Vita's stack
    g_virtual_fd_flags,      \* 0 or 1 (FD_CLOEXEC)
    g_virtual_socket_types,  \* "zero" or a type
    pc, fd, type,            \* each thread: location, descriptor, argument
    held,                    \* descriptors the application has been given
    cloexec,                 \* history: F_SETFD accepted on a held descriptor
    timeouts,                \* history: held descriptors whose SO_RCVTIMEO
                             \* reached lwIP
    refused,                 \* history: held descriptors for which the shim
                             \* reported ENOPROTOOPT
    strayed                  \* history: descriptors a call on which went to
                             \* the stack that does not have it

tables == <<lwip, vita, g_virtual_fd_flags, g_virtual_socket_types>>
asked == <<cloexec, timeouts, refused>>
history == <<held, asked, strayed>>
vars == <<tables, pc, fd, type, history>>

\* Both tables hold values the code writes; histories are of open sockets.
TypeOK ==
    /\ lwip \in [Fds -> Types \cup {"free"}]
    /\ vita \subseteq RealFds
    /\ g_virtual_fd_flags \in [Fds -> {0, 1}]
    /\ g_virtual_socket_types \in [Fds -> Types \cup {"zero"}]
    /\ pc \in [Threads -> {"idle", "socket_flags", "socket_type",
                           "close_flags", "close_type"}]
    /\ fd \in [Threads -> Fds] /\ type \in [Threads -> Types]
    /\ held \subseteq Fds \cup RealFds /\ cloexec \subseteq held
    /\ timeouts \subseteq held /\ refused \subseteq held
    /\ strayed \subseteq Fds \cup RealFds

Init ==
    /\ lwip = [f \in Fds |-> "free"] /\ vita = {}
    /\ g_virtual_fd_flags = [f \in Fds |-> 0]
    /\ g_virtual_socket_types = [f \in Fds |-> "zero"]
    /\ pc = [t \in Threads |-> "idle"]
    /\ fd = [t \in Threads |-> LWIP_SOCKET_OFFSET]
    /\ type = [t \in Threads |-> "stream"]
    /\ held = {} /\ cloexec = {} /\ timeouts = {} /\ refused = {} /\ strayed = {}

Goto(t, label) == pc' = [pc EXCEPT ![t] = label]

-----------------------------------------------------------------------------
is_virtual_socket(f) ==
    TSVITA_LWIP_FD_FIRST <= f /\ f <= TSVITA_LWIP_FD_LAST

\* A call on f goes to the stack that is_virtual_socket names.
Route(f) ==
    strayed' = IF is_virtual_socket(f) = (f \in Fds) THEN strayed
               ELSE strayed \cup {f}

\* External: a stack hands out a descriptor that is free.
Allocate(f, ty) ==
    /\ lwip[f] = "free"
    /\ lwip' = [lwip EXCEPT ![f] = ty] /\ UNCHANGED vita

AllocateReal(f) == f \notin vita /\ vita' = vita \cup {f} /\ UNCHANGED lwip

\* __wrap_socket once the tunnel is online: lwip_socket, and for a virtual
\* descriptor the flags and the type.
LwipSocket(t, f, ty) ==
    /\ pc[t] = "idle"
    /\ Allocate(f, ty)
    /\ fd' = [fd EXCEPT ![t] = f] /\ type' = [type EXCEPT ![t] = ty]
    /\ IF is_virtual_socket(f)
       THEN Goto(t, "socket_flags") /\ UNCHANGED held
       ELSE held' = held \cup {f} /\ UNCHANGED pc
    /\ UNCHANGED <<g_virtual_fd_flags, g_virtual_socket_types, asked, strayed>>

\* __wrap_socket for another domain, or without a tunnel.
RealSocket(t, f) ==
    /\ pc[t] = "idle"
    /\ AllocateReal(f)
    /\ held' = held \cup {f}
    /\ UNCHANGED <<g_virtual_fd_flags, g_virtual_socket_types, pc, fd, type,
                   asked, strayed>>

SocketFlags(t) ==
    /\ pc[t] = "socket_flags"
    /\ g_virtual_fd_flags' = [g_virtual_fd_flags EXCEPT ![fd[t]] = 0]
    /\ Goto(t, "socket_type")
    /\ UNCHANGED <<lwip, vita, g_virtual_socket_types, fd, type, history>>

SocketType(t) ==
    /\ pc[t] = "socket_type"
    /\ g_virtual_socket_types' =
          [g_virtual_socket_types EXCEPT ![fd[t]] = type[t]]
    /\ held' = held \cup {fd[t]}
    /\ Goto(t, "idle")
    /\ UNCHANGED <<lwip, vita, g_virtual_fd_flags, fd, type, asked, strayed>>

\* __wrap_accept on a listening socket g passes through: the tables are not
\* touched.
Accept(t, g, f) ==
    /\ pc[t] = "idle" /\ g \in held /\ Route(g)
    /\ \/ g \in Fds /\ lwip[g] = "stream" /\ f \in Fds /\ Allocate(f, "stream")
       \/ g \in vita /\ f \in RealFds /\ AllocateReal(f)
    /\ held' = held \cup {f}
    /\ UNCHANGED <<g_virtual_fd_flags, g_virtual_socket_types, pc, fd, type,
                   asked>>

\* The wrappers without a table: bind, listen, send, recv, sendto, recvfrom,
\* shutdown, read, write, getsockopt, getsockname, getpeername, and fcntl
\* and setsockopt for what the shim does not answer itself.
PassThrough(t, f) ==
    /\ pc[t] = "idle" /\ f \in held /\ Route(f)
    /\ UNCHANGED <<tables, pc, fd, type, held, asked>>

Forget(f) ==
    /\ held' = held \ {f} /\ cloexec' = cloexec \ {f}
    /\ timeouts' = timeouts \ {f} /\ refused' = refused \ {f}

\* __wrap_close: lwip_close frees the descriptor, then the tables are reset.
\* (When it fails nothing changes.)
LwipClose(t, f) ==
    /\ pc[t] = "idle" /\ f \in held \cap Fds /\ is_virtual_socket(f)
    /\ lwip' = [lwip EXCEPT ![f] = "free"]
    /\ Forget(f)
    /\ fd' = [fd EXCEPT ![t] = f]
    /\ Goto(t, "close_flags")
    /\ UNCHANGED <<vita, g_virtual_fd_flags, g_virtual_socket_types, type,
                   strayed>>

RealClose(t, f) ==
    /\ pc[t] = "idle" /\ f \in held \cap vita /\ ~is_virtual_socket(f)
    /\ vita' = vita \ {f}
    /\ Forget(f)
    /\ UNCHANGED <<lwip, g_virtual_fd_flags, g_virtual_socket_types, pc, fd,
                   type, strayed>>

CloseFlags(t) ==
    /\ pc[t] = "close_flags"
    /\ g_virtual_fd_flags' = [g_virtual_fd_flags EXCEPT ![fd[t]] = 0]
    /\ Goto(t, "close_type")
    /\ UNCHANGED <<lwip, vita, g_virtual_socket_types, fd, type, history>>

\* Mutant of CloseType: a closed descriptor keeps its type.
CloseTypeForgotten(t) ==
    /\ pc[t] = "close_type"
    /\ Goto(t, "idle")
    /\ UNCHANGED <<tables, fd, type, history>>

CloseType(t) ==
    /\ pc[t] = "close_type"
    /\ g_virtual_socket_types' =
          [g_virtual_socket_types EXCEPT ![fd[t]] = "zero"]
    /\ Goto(t, "idle")
    /\ UNCHANGED <<lwip, vita, g_virtual_fd_flags, fd, type, history>>

\* __wrap_fcntl(F_SETFD) with a legal value, FD_CLOEXEC or 0.
SetFd(t, f, value) ==
    /\ pc[t] = "idle" /\ f \in held \cap Fds /\ is_virtual_socket(f)
    /\ g_virtual_fd_flags' = [g_virtual_fd_flags EXCEPT ![f] = value]
    /\ cloexec' = IF value = 1 THEN cloexec \cup {f} ELSE cloexec \ {f}
    /\ UNCHANGED <<lwip, vita, g_virtual_socket_types, pc, fd, type, held,
                   timeouts, refused, strayed>>

\* __wrap_setsockopt(SO_RCVTIMEO): the type decides between the refusal and
\* lwIP.
SetRcvTimeo(t, f) ==
    /\ pc[t] = "idle" /\ f \in held \cap Fds /\ is_virtual_socket(f)
    /\ IF g_virtual_socket_types[f] = "dgram"
       THEN refused' = refused \cup {f} /\ UNCHANGED timeouts
       ELSE timeouts' = timeouts \cup {f} /\ UNCHANGED refused
    /\ UNCHANGED <<tables, pc, fd, type, held, cloexec, strayed>>

-----------------------------------------------------------------------------
Finish(t) ==
    SocketFlags(t) \/ SocketType(t) \/ CloseFlags(t) \/ CloseType(t)

Next ==
    \E t \in Threads :
        \/ Finish(t)
        \/ \E f \in Fds :
              \/ \E ty \in Types : LwipSocket(t, f, ty)
              \/ LwipClose(t, f) \/ SetRcvTimeo(t, f)
              \/ \E value \in {0, 1} : SetFd(t, f, value)
        \/ \E f \in RealFds : RealSocket(t, f) \/ RealClose(t, f)
        \/ \E f \in held : PassThrough(t, f)
        \/ \E g \in held, f \in Fds \cup RealFds : Accept(t, g, f)

Spec == Init /\ [][Next]_vars

-----------------------------------------------------------------------------
\* The comment in __wrap_setsockopt: "Reporting SO_RCVTIMEO as unsupported
\* is an intentional API contract" for UDP sockets, whatever descriptor the
\* socket got and whoever used that descriptor before.
UdpTimeoutRefused == \A f \in timeouts : lwip[f] /= "dgram"

TcpTimeoutAllowed == \A f \in refused : lwip[f] /= "stream"

FdFlagsBelongToSocket ==
    \A f \in held \cap Fds : g_virtual_fd_flags[f] = IF f \in cloexec THEN 1 ELSE 0

CallsReachOwner == strayed = {}

\* Both tables describe the socket that has the descriptor now, whoever had
\* it before: a UDP socket is refused its timeout and a TCP socket is not
\* (accept records no type of its own), and F_GETFD reports what was asked
\* for with F_SETFD on this very socket.  And every call on a socket, of
\* lwIP's or of the Vita's at the ends of the range, goes to its own stack:
\* the limits in socket_shim.c and in lwipopts.h agree.
TablesDescribeSocket ==
    /\ UdpTimeoutRefused /\ TcpTimeoutAllowed /\ FdFlagsBelongToSocket
    /\ CallsReachOwner
=============================================================================
