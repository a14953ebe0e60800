--------------------------- MODULE ShimFdsProofs ----------------------------
(***************************************************************************)
(* TLAPS proofs about ShimFds, for any number of threads and descriptors.  *)
(* The tables are kept without a lock; the proofs say what that costs: the *)
(* only thing that can spoil them is a descriptor that lwIP hands out      *)
(* again before the close that freed it has reset its entries.             *)
(***************************************************************************)
EXTENDS ShimFds, TLAPS

\* The limits in socket_shim.c are those lwipopts.h gives to lwIP: 128 and
\* 191, with LWIP_SOCKET_OFFSET 128 and MEMP_NUM_NETCONN 64.
RangesAgree ==
    /\ TSVITA_LWIP_FD_FIRST = LWIP_SOCKET_OFFSET
    /\ TSVITA_LWIP_FD_LAST = LWIP_SOCKET_OFFSET + MEMP_NUM_NETCONN - 1

\* lwIP does not hand out a descriptor whose close is still under way.
ClosedBeforeReuse ==
    \A f \in Fds, t \in Threads :
        (/\ lwip[f] = "free" /\ lwip'[f] /= "free"
         /\ pc[t] \in {"close_flags", "close_type"}) => fd[t] /= f

Opening(t) == pc[t] \in {"socket_flags", "socket_type"}

Closing(t) == pc[t] \in {"close_flags", "close_type"}

\* A descriptor between lwip_socket or lwip_close and the end of the wrapper
\* belongs to one thread.
OneOwner ==
    \A s, t \in Threads :
        (pc[s] /= "idle" /\ pc[t] /= "idle" /\ fd[s] = fd[t]) => s = t

\* While a socket is being opened nobody else has it and its entries are
\* still clean; while one is being closed lwIP has already freed it.
OpeningAlone ==
    \A t \in Threads : Opening(t) =>
        /\ lwip[fd[t]] = type[t] /\ fd[t] \notin held
        /\ g_virtual_fd_flags[fd[t]] = 0
        /\ g_virtual_socket_types[fd[t]] = "zero"

ClosingFreed ==
    \A t \in Threads :
        /\ Closing(t) => lwip[fd[t]] = "free"
        /\ pc[t] = "close_type" => g_virtual_fd_flags[fd[t]] = 0

\* A free descriptor that no close is working on has clean entries.
FreeIsClean ==
    \A f \in Fds : lwip[f] = "free" =>
        /\ f \notin held
        /\ \/ \E t \in Threads : Closing(t) /\ fd[t] = f
           \/ /\ g_virtual_fd_flags[f] = 0
              /\ g_virtual_socket_types[f] = "zero"

\* The entries of a descriptor the application has are those of its socket.
HeldIsDescribed ==
    /\ FdFlagsBelongToSocket
    /\ \A f \in held \cap Fds :
          lwip[f] = "dgram" <=> g_virtual_socket_types[f] = "dgram"

TimeoutsOfLwip ==
    /\ timeouts \cup refused \subseteq Fds
    /\ UdpTimeoutRefused /\ TcpTimeoutAllowed

FdsInv ==
    /\ TypeOK /\ CallsReachOwner /\ OneOwner /\ OpeningAlone /\ ClosingFreed
    /\ FreeIsClean /\ HeldIsDescribed /\ TimeoutsOfLwip

-----------------------------------------------------------------------------
(* Types and routing, for any number of threads.                           *)

\* The first descriptor of the range is in it, and no real one is.
LEMMA FdFacts ==
    /\ LWIP_SOCKET_OFFSET \in Fds /\ Fds \subseteq Nat
    /\ RealFds \subseteq Nat /\ RealFds \cap Fds = {}
BY FdsAssumption DEF Fds

\* With the limits in agreement is_virtual_socket tells the stacks apart.
LEMMA RangeIsExact ==
    ASSUME RangesAgree
    PROVE  \A f \in Fds \cup RealFds : is_virtual_socket(f) <=> f \in Fds
BY FdsAssumption, FdFacts DEF RangesAgree, is_virtual_socket, Fds

\* Every step keeps the types.
LEMMA TypeStep == ASSUME TypeOK, Next PROVE TypeOK'
<1> USE FdFacts DEF TypeOK, tables, asked, history, Goto
<1>1. PICK t \in Threads :
        \/ Finish(t)
        \/ \E f \in Fds :
              \/ \E ty \in Types : LwipSocket(t, f, ty)
              \/ LwipClose(t, f) \/ SetRcvTimeo(t, f)
              \/ \E value \in {0, 1} : SetFd(t, f, value)
        \/ \E f \in RealFds : RealSocket(t, f) \/ RealClose(t, f)
        \/ \E f \in held : PassThrough(t, f)
        \/ \E g \in held, f \in Fds \cup RealFds : Accept(t, g, f)
  BY DEF Next
<1>2. CASE Finish(t)
  <2>1. fd[t] \in Fds /\ type[t] \in Types
    OBVIOUS
  <2>2. CASE SocketFlags(t) \/ CloseFlags(t)
    BY <2>1, <2>2 DEF SocketFlags, CloseFlags
  <2>3. CASE SocketType(t)
    BY <2>1, <2>3 DEF SocketType
  <2>4. CASE CloseType(t)
    BY <2>1, <2>4 DEF CloseType
  <2> QED BY <1>2, <2>2, <2>3, <2>4 DEF Finish
<1>3. ASSUME NEW f \in Fds, NEW ty \in Types, LwipSocket(t, f, ty)
      PROVE  TypeOK'
  BY <1>3 DEF LwipSocket, Allocate
<1>4. ASSUME NEW f \in Fds, LwipClose(t, f) PROVE TypeOK'
  BY <1>4 DEF LwipClose, Forget
<1>5. ASSUME NEW f \in Fds, SetRcvTimeo(t, f) PROVE TypeOK'
  BY <1>5 DEF SetRcvTimeo
<1>6. ASSUME NEW f \in Fds, NEW value \in {0, 1}, SetFd(t, f, value)
      PROVE  TypeOK'
  BY <1>6 DEF SetFd
<1>7. ASSUME NEW f \in RealFds, RealSocket(t, f) \/ RealClose(t, f)
      PROVE  TypeOK'
  BY <1>7 DEF RealSocket, AllocateReal, RealClose, Forget
<1>8. ASSUME NEW f \in held, PassThrough(t, f) PROVE TypeOK'
  BY <1>8 DEF PassThrough, Route
<1>9. ASSUME NEW g \in held, NEW f \in Fds \cup RealFds, Accept(t, g, f)
      PROVE  TypeOK'
  <2>1. CASE f \in Fds /\ Allocate(f, "stream")
    BY <1>9, <2>1 DEF Accept, Route, Allocate, Types
  <2>2. CASE f \in RealFds /\ AllocateReal(f)
    BY <1>9, <2>2 DEF Accept, Route, AllocateReal
  <2> QED BY <1>9, <2>1, <2>2 DEF Accept
<1> QED BY <1>1, <1>2, <1>3, <1>4, <1>5, <1>6, <1>7, <1>8, <1>9

\* A call never goes to the wrong stack.
LEMMA RouteStep ==
    ASSUME RangesAgree, TypeOK, CallsReachOwner, Next
    PROVE  CallsReachOwner'
<1> USE DEF CallsReachOwner, history
<1>1. \A f \in held : Route(f) => strayed' = strayed
  <2> TAKE f \in held
  <2>1. is_virtual_socket(f) = (f \in Fds)
    BY RangeIsExact DEF TypeOK, is_virtual_socket
  <2> QED BY <2>1 DEF Route
<1> QED BY <1>1 DEF Next, Finish, SocketFlags, SocketType, CloseFlags,
        CloseType, LwipSocket, LwipClose, SetRcvTimeo, SetFd, RealSocket,
        RealClose, PassThrough, Accept

-----------------------------------------------------------------------------
(* The tables, as long as no descriptor is reused before its close ends.   *)

\* What a step on the other stack, or on a history, leaves alone.
LEMMA TablesKept ==
    ASSUME FdsInv,
           UNCHANGED <<lwip, g_virtual_fd_flags, g_virtual_socket_types, pc,
                       fd, type>>,
           held' \cap Fds = held \cap Fds, cloexec' \cap Fds = cloexec \cap Fds
    PROVE  /\ OneOwner' /\ OpeningAlone' /\ ClosingFreed' /\ FreeIsClean'
           /\ HeldIsDescribed'
<1> USE DEF FdsInv, TypeOK, Opening, Closing
<1>1. OneOwner' /\ OpeningAlone' /\ ClosingFreed'
  BY DEF OneOwner, OpeningAlone, ClosingFreed
<1>2. FreeIsClean'
  BY DEF FreeIsClean
<1>3. HeldIsDescribed'
  BY DEF HeldIsDescribed, FdFlagsBelongToSocket
<1> QED BY <1>1, <1>2, <1>3

\* A descriptor lwIP hands out is clean and nobody works on it.
LEMMA FreshIsClean ==
    ASSUME FdsInv, ClosedBeforeReuse, NEW f \in Fds, NEW ty \in Types,
           Allocate(f, ty)
    PROVE  /\ f \notin held /\ lwip' = [lwip EXCEPT ![f] = ty]
           /\ g_virtual_fd_flags[f] = 0 /\ g_virtual_socket_types[f] = "zero"
           /\ \A t \in Threads : pc[t] /= "idle" => fd[t] /= f
<1>1. lwip[f] = "free" /\ lwip'[f] = ty /\ lwip' = [lwip EXCEPT ![f] = ty]
  BY DEF Allocate, FdsInv, TypeOK
<1>2. \A t \in Threads : Closing(t) => fd[t] /= f
  BY <1>1 DEF ClosedBeforeReuse, Closing, Types
<1>3. \A t \in Threads : Opening(t) => fd[t] /= f
  BY <1>1 DEF FdsInv, OpeningAlone, TypeOK, Types
<1>4. \A t \in Threads : pc[t] /= "idle" => Opening(t) \/ Closing(t)
  BY DEF FdsInv, TypeOK, Opening, Closing
<1>5. /\ f \notin held
      /\ g_virtual_fd_flags[f] = 0 /\ g_virtual_socket_types[f] = "zero"
  BY <1>1, <1>2 DEF FdsInv, FreeIsClean
<1> QED BY <1>1, <1>2, <1>3, <1>4, <1>5

\* The table writes of __wrap_socket and __wrap_close.
LEMMA FinishKeeps ==
    ASSUME FdsInv, TypeOK', CallsReachOwner', NEW t \in Threads, Finish(t)
    PROVE  FdsInv'
<1> USE DEF FdsInv, TypeOK, Opening, Closing, Goto, history, asked, Types
<1>1. /\ UNCHANGED <<fd, type, cloexec, timeouts, refused, lwip>>
      /\ \A s \in Threads : s /= t => pc'[s] = pc[s]
      /\ \A s \in Threads :
            s /= t /\ pc[s] /= "idle" /\ pc[t] /= "idle" => fd[s] /= fd[t]
  BY DEF Finish, SocketFlags, SocketType, CloseFlags, CloseType, OneOwner
<1>2. CASE SocketFlags(t) \/ CloseFlags(t)
  <2> USE <1>2 DEF SocketFlags, CloseFlags
  <2>1. OneOwner' /\ OpeningAlone' /\ ClosingFreed'
    BY <1>1 DEF OneOwner, OpeningAlone, ClosingFreed
  <2>2. FreeIsClean'
    BY <1>1 DEF FreeIsClean
  <2>3. HeldIsDescribed'
    BY <1>1 DEF HeldIsDescribed, FdFlagsBelongToSocket, OpeningAlone,
                ClosingFreed, FreeIsClean
  <2>4. TimeoutsOfLwip'
    BY <1>1 DEF TimeoutsOfLwip, UdpTimeoutRefused, TcpTimeoutAllowed
  <2> QED BY <2>1, <2>2, <2>3, <2>4
<1>3. CASE SocketType(t)
  <2> USE <1>3 DEF SocketType
  <2>1. OneOwner' /\ OpeningAlone' /\ ClosingFreed'
    BY <1>1 DEF OneOwner, OpeningAlone, ClosingFreed
  <2>2. FreeIsClean'
    BY <1>1 DEF FreeIsClean, OpeningAlone
  <2>3. HeldIsDescribed'
    BY <1>1 DEF HeldIsDescribed, FdFlagsBelongToSocket, OpeningAlone
  <2>4. TimeoutsOfLwip'
    BY <1>1 DEF TimeoutsOfLwip, UdpTimeoutRefused, TcpTimeoutAllowed
  <2> QED BY <2>1, <2>2, <2>3, <2>4
<1>4. CASE CloseType(t)
  <2> USE <1>4 DEF CloseType
  <2>1. OneOwner' /\ OpeningAlone' /\ ClosingFreed'
    BY <1>1 DEF OneOwner, OpeningAlone, ClosingFreed
  <2>2. FreeIsClean'
    BY <1>1 DEF FreeIsClean, ClosingFreed
  <2>3. HeldIsDescribed'
    BY <1>1 DEF HeldIsDescribed, FdFlagsBelongToSocket, ClosingFreed,
                FreeIsClean
  <2>4. TimeoutsOfLwip'
    BY <1>1 DEF TimeoutsOfLwip, UdpTimeoutRefused, TcpTimeoutAllowed
  <2> QED BY <2>1, <2>2, <2>3, <2>4
<1> QED BY <1>2, <1>3, <1>4 DEF Finish

\* __wrap_socket: lwIP hands out a descriptor to this thread alone.
LEMMA LwipSocketKeeps ==
    ASSUME RangesAgree, FdsInv, TypeOK', CallsReachOwner',
           ClosedBeforeReuse, NEW t \in Threads, NEW f \in Fds,
           NEW ty \in Types, LwipSocket(t, f, ty)
    PROVE  FdsInv'
<1> USE DEF FdsInv, TypeOK, Opening, Closing, Goto, asked, Types
<1>1. is_virtual_socket(f)
  BY RangeIsExact
<1>2. /\ pc[t] = "idle" /\ pc' = [pc EXCEPT ![t] = "socket_flags"]
      /\ fd' = [fd EXCEPT ![t] = f] /\ type' = [type EXCEPT ![t] = ty]
      /\ UNCHANGED <<held, g_virtual_fd_flags, g_virtual_socket_types,
                     cloexec, timeouts, refused>>
  BY <1>1 DEF LwipSocket
<1>3. /\ f \notin held /\ lwip' = [lwip EXCEPT ![f] = ty]
      /\ g_virtual_fd_flags[f] = 0 /\ g_virtual_socket_types[f] = "zero"
      /\ \A s \in Threads : pc[s] /= "idle" => fd[s] /= f
  BY FreshIsClean DEF LwipSocket
<1>4. OneOwner'
  BY <1>2, <1>3 DEF OneOwner
<1>5. OpeningAlone' /\ ClosingFreed'
  BY <1>2, <1>3 DEF OpeningAlone, ClosingFreed
<1>6. FreeIsClean'
  BY <1>2, <1>3 DEF FreeIsClean
<1>7. HeldIsDescribed'
  BY <1>2, <1>3 DEF HeldIsDescribed, FdFlagsBelongToSocket
<1>8. TimeoutsOfLwip'
  BY <1>2, <1>3 DEF TimeoutsOfLwip, UdpTimeoutRefused, TcpTimeoutAllowed
<1> QED BY <1>4, <1>5, <1>6, <1>7, <1>8

\* __wrap_accept: the new descriptor's clean entries describe a TCP socket.
LEMMA AcceptKeeps ==
    ASSUME FdsInv, TypeOK', CallsReachOwner', ClosedBeforeReuse,
           NEW t \in Threads, NEW g \in held, NEW f \in Fds \cup RealFds,
           Accept(t, g, f)
    PROVE  FdsInv'
<1> USE DEF FdsInv, asked
<1>1. /\ held' = held \cup {f}
      /\ UNCHANGED <<g_virtual_fd_flags, g_virtual_socket_types, pc, fd,
                     type, cloexec, timeouts, refused>>
  BY DEF Accept
<1>2. CASE f \in Fds /\ Allocate(f, "stream")
  <2> USE DEF TypeOK, Opening, Closing, Types
  <2>1. /\ f \notin held /\ lwip' = [lwip EXCEPT ![f] = "stream"]
        /\ g_virtual_fd_flags[f] = 0 /\ g_virtual_socket_types[f] = "zero"
        /\ \A s \in Threads : pc[s] /= "idle" => fd[s] /= f
    BY <1>2, FreshIsClean
  <2>2. OneOwner' /\ OpeningAlone' /\ ClosingFreed'
    BY <1>1, <2>1 DEF OneOwner, OpeningAlone, ClosingFreed
  <2>3. FreeIsClean'
    BY <1>1, <2>1 DEF FreeIsClean
  <2>4. HeldIsDescribed'
    BY <1>1, <2>1 DEF HeldIsDescribed, FdFlagsBelongToSocket
  <2>5. TimeoutsOfLwip'
    BY <1>1, <2>1 DEF TimeoutsOfLwip, UdpTimeoutRefused, TcpTimeoutAllowed
  <2> QED BY <2>2, <2>3, <2>4, <2>5
<1>3. CASE f \in RealFds /\ AllocateReal(f)
  <2>1. UNCHANGED lwip /\ held' \cap Fds = held \cap Fds
    BY <1>1, <1>3, FdFacts DEF AllocateReal
  <2>2. TimeoutsOfLwip'
    BY <1>1, <2>1 DEF TimeoutsOfLwip, UdpTimeoutRefused, TcpTimeoutAllowed
  <2> QED BY <1>1, <2>1, <2>2, TablesKept
<1> QED BY <1>2, <1>3 DEF Accept

\* __wrap_close: the descriptor is the closing thread's alone, and forgotten.
LEMMA LwipCloseKeeps ==
    ASSUME FdsInv, TypeOK', CallsReachOwner', NEW t \in Threads,
           NEW f \in Fds, LwipClose(t, f)
    PROVE  FdsInv'
<1> USE DEF FdsInv, TypeOK, Opening, Closing, Goto, Forget
<1>1. /\ pc[t] = "idle" /\ pc' = [pc EXCEPT ![t] = "close_flags"]
      /\ f \in held /\ fd' = [fd EXCEPT ![t] = f]
      /\ lwip' = [lwip EXCEPT ![f] = "free"] /\ held' = held \ {f}
      /\ cloexec' = cloexec \ {f} /\ timeouts' = timeouts \ {f}
      /\ refused' = refused \ {f}
      /\ UNCHANGED <<g_virtual_fd_flags, g_virtual_socket_types, type>>
  BY DEF LwipClose
<1>2. \A s \in Threads : pc[s] /= "idle" => fd[s] /= f
  <2>1. \A s \in Threads : Opening(s) => fd[s] /= f
    BY <1>1 DEF OpeningAlone
  <2>2. \A s \in Threads : Closing(s) => fd[s] /= f
    BY <1>1 DEF ClosingFreed, FreeIsClean
  <2> QED BY <2>1, <2>2
<1>3. OneOwner'
  BY <1>1, <1>2 DEF OneOwner
<1>4. OpeningAlone' /\ ClosingFreed'
  BY <1>1, <1>2 DEF OpeningAlone, ClosingFreed
<1>5. FreeIsClean'
  BY <1>1, <1>2 DEF FreeIsClean
<1>6. HeldIsDescribed'
  BY <1>1 DEF HeldIsDescribed, FdFlagsBelongToSocket
<1>7. TimeoutsOfLwip'
  BY <1>1 DEF TimeoutsOfLwip, UdpTimeoutRefused, TcpTimeoutAllowed
<1> QED BY <1>3, <1>4, <1>5, <1>6, <1>7

\* __wrap_fcntl and __wrap_setsockopt on a socket that is open.
LEMMA OptionKeeps ==
    ASSUME FdsInv, TypeOK', CallsReachOwner', NEW t \in Threads,
           NEW f \in Fds,
           SetRcvTimeo(t, f) \/ \E value \in {0, 1} : SetFd(t, f, value)
    PROVE  FdsInv'
<1> USE DEF FdsInv
<1>1. CASE SetRcvTimeo(t, f)
  <2> USE <1>1 DEF SetRcvTimeo, tables
  <2>1. TimeoutsOfLwip'
    BY DEF TimeoutsOfLwip, UdpTimeoutRefused, TcpTimeoutAllowed,
           HeldIsDescribed
  <2> QED BY <2>1, TablesKept
<1>2. ASSUME NEW value \in {0, 1}, SetFd(t, f, value) PROVE FdsInv'
  <2> USE <1>2 DEF SetFd, TypeOK, Opening, Closing
  <2>1. OneOwner' /\ OpeningAlone'
    BY DEF OneOwner, OpeningAlone
  <2>2. ClosingFreed'
    BY DEF ClosingFreed, FreeIsClean
  <2>3. FreeIsClean'
    BY DEF FreeIsClean
  <2>4. HeldIsDescribed'
    BY DEF HeldIsDescribed, FdFlagsBelongToSocket
  <2>5. TimeoutsOfLwip'
    BY DEF TimeoutsOfLwip, UdpTimeoutRefused, TcpTimeoutAllowed
  <2> QED BY <2>1, <2>2, <2>3, <2>4, <2>5
<1> QED BY <1>1, <1>2

\* The wrappers on the Vita's own sockets, and those without a table.
LEMMA ElsewhereKeeps ==
    ASSUME FdsInv, TypeOK', CallsReachOwner', NEW t \in Threads,
           \/ \E f \in RealFds : RealSocket(t, f) \/ RealClose(t, f)
           \/ \E f \in held : PassThrough(t, f)
    PROVE  FdsInv'
<1> USE DEF FdsInv
<1>1. ASSUME NEW f \in RealFds, RealSocket(t, f) \/ RealClose(t, f)
      PROVE  FdsInv'
  <2>1. /\ UNCHANGED <<lwip, g_virtual_fd_flags, g_virtual_socket_types, pc,
                       fd, type>>
        /\ held' \in {held \cup {f}, held \ {f}}
        /\ cloexec' \in {cloexec, cloexec \ {f}}
        /\ timeouts' \in {timeouts, timeouts \ {f}}
        /\ refused' \in {refused, refused \ {f}}
    BY <1>1 DEF RealSocket, AllocateReal, RealClose, Forget, asked
  <2>2. held' \cap Fds = held \cap Fds /\ cloexec' \cap Fds = cloexec \cap Fds
    BY <2>1, FdFacts
  <2>3. TimeoutsOfLwip'
    BY <2>1 DEF TimeoutsOfLwip, UdpTimeoutRefused, TcpTimeoutAllowed
  <2> QED BY <2>1, <2>2, <2>3, TablesKept
<1>2. ASSUME NEW f \in held, PassThrough(t, f) PROVE FdsInv'
  <2> USE <1>2 DEF PassThrough, tables, asked
  <2>1. TimeoutsOfLwip'
    BY DEF TimeoutsOfLwip, UdpTimeoutRefused, TcpTimeoutAllowed
  <2> QED BY <2>1, TablesKept
<1> QED BY <1>1, <1>2

-----------------------------------------------------------------------------
\* Type correctness of the descriptor tables of socket_shim.c.
THEOREM FdsTypeCorrect == Spec => []TypeOK
<1>1. Init => TypeOK
  BY FdFacts DEF Init, TypeOK, Types
<1>2. TypeOK /\ [Next]_vars => TypeOK'
  <2>1. ASSUME TypeOK, UNCHANGED vars PROVE TypeOK'
    BY <2>1 DEF vars, tables, history, asked, TypeOK
  <2> QED BY <2>1, TypeStep
<1> QED BY <1>1, <1>2, PTL DEF Spec

\* With the limits of socket_shim.c and lwipopts.h in agreement every call
\* reaches the stack that has the socket, for any number of threads.
THEOREM CallsAlwaysReachOwner ==
    ASSUME RangesAgree PROVE Spec => []CallsReachOwner
<1>1. Init => CallsReachOwner
  BY DEF Init, CallsReachOwner
<1>2. TypeOK /\ CallsReachOwner /\ [Next]_vars => CallsReachOwner'
  <2>1. ASSUME CallsReachOwner, UNCHANGED vars PROVE CallsReachOwner'
    BY <2>1 DEF vars, history, CallsReachOwner
  <2> QED BY <2>1, RouteStep
<1> QED BY <1>1, <1>2, FdsTypeCorrect, PTL DEF Spec

\* For any number of threads, the tables of socket_shim.c describe the
\* sockets that have the descriptors as long as lwIP hands out no descriptor
\* before the __wrap_close that freed it has reset its entries: the race of
\* that close with a socket of another thread is the only one.
THEOREM TablesTrueWithoutReuse ==
    ASSUME RangesAgree
    PROVE  Spec /\ [][ClosedBeforeReuse]_vars => []TablesDescribeSocket
<1>1. Init => FdsInv
  <2> SUFFICES ASSUME Init PROVE FdsInv
    OBVIOUS
  <2>1. TypeOK /\ CallsReachOwner
    BY FdFacts DEF Init, TypeOK, Types, CallsReachOwner
  <2>2. OneOwner /\ OpeningAlone /\ ClosingFreed /\ FreeIsClean
    BY DEF Init, OneOwner, OpeningAlone, ClosingFreed, FreeIsClean, Opening,
           Closing
  <2>3. HeldIsDescribed /\ TimeoutsOfLwip
    BY DEF Init, HeldIsDescribed, FdFlagsBelongToSocket, TimeoutsOfLwip,
           UdpTimeoutRefused, TcpTimeoutAllowed
  <2> QED BY <2>1, <2>2, <2>3 DEF FdsInv
<1>2. FdsInv /\ [Next]_vars /\ [ClosedBeforeReuse]_vars => FdsInv'
  <2> SUFFICES ASSUME FdsInv, [Next]_vars, [ClosedBeforeReuse]_vars
               PROVE  FdsInv'
    OBVIOUS
  <2>1. CASE UNCHANGED vars
    <3>1. TypeOK' /\ CallsReachOwner' /\ TimeoutsOfLwip'
      BY <2>1 DEF vars, tables, history, asked, FdsInv, TypeOK,
         CallsReachOwner, TimeoutsOfLwip, UdpTimeoutRefused, TcpTimeoutAllowed
    <3>2. UNCHANGED <<lwip, g_virtual_fd_flags, g_virtual_socket_types, pc,
                      fd, type, held, cloexec>>
      BY <2>1 DEF vars, tables, history, asked
    <3> QED BY <3>1, <3>2, TablesKept DEF FdsInv
  <2>2. CASE Next /\ ClosedBeforeReuse
    <3>1. TypeOK' /\ CallsReachOwner'
      BY <2>2, TypeStep, RouteStep DEF FdsInv
    <3> QED BY <2>2, <3>1, FinishKeeps, LwipSocketKeeps, AcceptKeeps,
            LwipCloseKeeps, OptionKeeps, ElsewhereKeeps DEF Next
  <2> QED BY <2>1, <2>2
<1>3. FdsInv => TablesDescribeSocket
  BY DEF FdsInv, TablesDescribeSocket, HeldIsDescribed, TimeoutsOfLwip
<1> QED BY <1>1, <1>2, <1>3, PTL DEF Spec

\* An application that makes its socket calls from one thread never meets
\* that race: the tables always describe its sockets.
THEOREM OneThreadTablesTrue ==
    ASSUME RangesAgree, \A s, t \in Threads : s = t
    PROVE  Spec => []TablesDescribeSocket
<1>1. TypeOK /\ [Next]_vars => [ClosedBeforeReuse]_vars
  <2> SUFFICES ASSUME TypeOK, Next, NEW f \in Fds, NEW t \in Threads,
                      lwip[f] = "free", lwip'[f] /= "free"
               PROVE  pc[t] \notin {"close_flags", "close_type"}
    BY DEF ClosedBeforeReuse
  <2>1. PICK s \in Threads :
          \/ Finish(s)
          \/ \E g \in Fds :
                \/ \E ty \in Types : LwipSocket(s, g, ty)
                \/ LwipClose(s, g) \/ SetRcvTimeo(s, g)
                \/ \E value \in {0, 1} : SetFd(s, g, value)
          \/ \E g \in RealFds : RealSocket(s, g) \/ RealClose(s, g)
          \/ \E g \in held : PassThrough(s, g)
          \/ \E g \in held, h \in Fds \cup RealFds : Accept(s, g, h)
    BY DEF Next
  <2>2. s = t
    OBVIOUS
  <2>3. ~Finish(s)
    BY DEF Finish, SocketFlags, SocketType, CloseFlags, CloseType
  <2>4. pc[s] = "idle"
    BY <2>1, <2>3 DEF LwipSocket, LwipClose, SetRcvTimeo, SetFd, RealSocket,
                      RealClose, PassThrough, Accept
  <2> QED BY <2>2, <2>4
<1> QED BY <1>1, FdsTypeCorrect, TablesTrueWithoutReuse, PTL DEF Spec
=============================================================================
