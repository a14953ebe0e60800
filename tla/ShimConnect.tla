---------------------------- MODULE ShimConnect -----------------------------
(***************************************************************************)
(* __wrap_connect of moonlight/socket_shim.c on a virtual TCP socket: it   *)
(* reads the file flags, clears O_NONBLOCK, connects, puts the flags back, *)
(* and waits when lwip_connect still answered EINPROGRESS.  Every lwIP     *)
(* call is a step and may fail; another thread may change the mode of the  *)
(* socket or close it in between.                                          *)
(***************************************************************************)
EXTENDS Naturals

VARIABLES
    mode,       \* external: the socket's O_NONBLOCK
    conn,       \* external: lwIP's connection, "closed" when the fd is
    at,
    socket_flags,          \* what F_GETFL returned, "error" if it failed
    restore_nonblocking,
    result,     \* 0, or -1 with its errno, as one value
    entry,      \* history: the mode when the call was made
    meddled     \* history: another thread chose a mode during the call

connectVars == <<mode, conn, at, socket_flags, restore_nonblocking, result,
                 entry, meddled>>

Modes == {"blocking", "nonblocking"}

Errors == {"EINPROGRESS", "EALREADY", "EISCONN", "ETIMEDOUT", "ECONNREFUSED",
           "EBADF", "ENOSYS", "ENOMEM", "stale"}

\* The call reports 0 or an errno and is at one of its steps.
ConnectTypeOK ==
    /\ mode \in Modes /\ entry \in Modes
    /\ conn \in {"new", "syn", "connected", "refused", "closed"}
    /\ at \in {"idle", "getfl", "setfl", "connect", "connecting", "restore",
               "poll", "so_error", "return"}
    /\ socket_flags \in Modes \cup {"error"}
    /\ restore_nonblocking \in BOOLEAN /\ meddled \in BOOLEAN
    /\ result \in Errors \cup {"0"}

ConnectInit ==
    /\ mode \in Modes /\ entry = mode
    /\ conn = "new" /\ at = "idle"
    /\ socket_flags = "error" /\ restore_nonblocking = FALSE
    /\ result = "0" /\ meddled = FALSE

lwip == <<mode, conn>>
history == <<entry, meddled>>

-----------------------------------------------------------------------------
(* External: lwIP's side of the calls.                                     *)

\* lwip_fcntl(F_SETFL): EBADF on a closed descriptor, ENOSYS for flags it
\* does not know.
SetFlags(m, failure) ==
    IF failure = "none" THEN conn /= "closed" /\ mode' = m
    ELSE /\ failure = "EBADF" => conn = "closed"
         /\ UNCHANGED mode

Failures == {"none", "EBADF", "ENOSYS"}

\* What lwip_connect answers at once.
AtOnce ==
    CASE conn = "closed"    -> "EBADF"
      [] conn = "connected" -> "EISCONN"
      [] conn = "syn"       -> "EALREADY"
      [] OTHER              -> "EINPROGRESS"

\* SO_ERROR of a socket whose connect is over.
SoError == IF conn = "refused" THEN "ECONNREFUSED" ELSE "0"

-----------------------------------------------------------------------------
(* __wrap_connect                                                          *)

Call ==
    /\ at = "idle" /\ conn /= "closed"
    /\ at' = "getfl" /\ entry' = mode /\ meddled' = FALSE
    /\ UNCHANGED <<lwip, socket_flags, restore_nonblocking, result>>

GetFlags ==
    /\ at = "getfl"
    /\ socket_flags' = IF conn = "closed" THEN "error" ELSE mode
    /\ restore_nonblocking' = (socket_flags' = "nonblocking")
    /\ at' = IF restore_nonblocking' THEN "setfl" ELSE "connect"
    /\ UNCHANGED <<lwip, result, history>>

\* A failure leaves the socket nonblocking and nothing to restore.
ClearNonblock(failure) ==
    /\ at = "setfl"
    /\ SetFlags("blocking", failure)
    /\ restore_nonblocking' = (failure = "none")
    /\ at' = "connect"
    /\ UNCHANGED <<conn, socket_flags, result, history>>

\* lwip_connect: a blocking socket waits, any other answer is immediate.
LwipConnect ==
    /\ at = "connect"
    /\ conn' = IF AtOnce = "EINPROGRESS" THEN "syn" ELSE conn
    /\ IF AtOnce = "EINPROGRESS" /\ mode = "blocking"
       THEN at' = "connecting" /\ UNCHANGED result
       ELSE at' = "restore" /\ result' = AtOnce
    /\ UNCHANGED <<mode, socket_flags, restore_nonblocking, history>>

\* Mutant of Connected: a refusal does not wake the caller.
ConnectedOnSuccessOnly ==
    /\ at = "connecting" /\ conn = "connected"
    /\ result' = "0"
    /\ at' = "restore"
    /\ UNCHANGED <<lwip, socket_flags, restore_nonblocking, history>>

Connected ==
    /\ at = "connecting" /\ conn /= "syn"
    /\ result' = IF conn = "closed" THEN "EBADF" ELSE SoError
    /\ at' = "restore"
    /\ UNCHANGED <<lwip, socket_flags, restore_nonblocking, history>>

\* Mutant of RestoreFlags: a failed restore is not reported.
RestoreFlagsUnchecked(failure) ==
    /\ at = "restore"
    /\ IF restore_nonblocking THEN SetFlags(socket_flags, failure)
                              ELSE failure = "none" /\ UNCHANGED mode
    /\ at' = IF result = "EINPROGRESS" THEN "poll" ELSE "return"
    /\ UNCHANGED <<conn, socket_flags, restore_nonblocking, result, history>>

\* The flags read at the start go back; a failure spoils a success.
RestoreFlags(failure) ==
    /\ at = "restore"
    /\ IF restore_nonblocking THEN SetFlags(socket_flags, failure)
                              ELSE failure = "none" /\ UNCHANGED mode
    /\ result' = IF result = "0" /\ failure /= "none" THEN failure ELSE result
    /\ at' = IF result' = "EINPROGRESS" THEN "poll" ELSE "return"
    /\ UNCHANGED <<conn, socket_flags, restore_nonblocking, history>>

\* Mutant of PollConnect: a timeout is not translated.
PollConnectKeepsErrno ==
    /\ at = "poll"
    /\ \/ conn /= "syn" /\ at' = "so_error" /\ UNCHANGED result
       \/ at' = "return" /\ UNCHANGED result
    /\ UNCHANGED <<lwip, socket_flags, restore_nonblocking, history>>

\* lwip_poll for TSVITA_CONNECT_WAIT_MS: an event, the timeout (the Vita
\* port may miss the event), or no memory.
PollConnect ==
    /\ at = "poll"
    /\ \/ conn /= "syn" /\ at' = "so_error" /\ UNCHANGED result
       \/ result' = "ETIMEDOUT" /\ at' = "return"
       \/ result' = "ENOMEM" /\ at' = "return"
    /\ UNCHANGED <<lwip, socket_flags, restore_nonblocking, history>>

\* Mutant of ReadSoError: any event counts as connected.
ReadSoErrorIgnored ==
    /\ at = "so_error"
    /\ IF conn = "closed" THEN result' \in {"EINPROGRESS", "stale"}
                          ELSE result' = "0"
    /\ at' = "return"
    /\ UNCHANGED <<lwip, socket_flags, restore_nonblocking, history>>

\* getsockopt(SO_ERROR).  If that fails the errno reported is the one lwip_poll
\* left, and a poll that succeeded left what was there before.
ReadSoError ==
    /\ at = "so_error"
    /\ IF conn = "closed" THEN result' \in {"EINPROGRESS", "stale"}
                          ELSE result' = SoError
    /\ at' = "return"
    /\ UNCHANGED <<lwip, socket_flags, restore_nonblocking, history>>

ReturnToCaller ==
    /\ at = "return"
    /\ at' = "idle"
    /\ UNCHANGED <<lwip, socket_flags, restore_nonblocking, result, history>>

-----------------------------------------------------------------------------
(* External: the network and the other threads.                            *)

\* A SYN-ACK; or a reset, or lwIP gives up on its SYN.
Network ==
    /\ conn = "syn"
    /\ conn' \in {"connected", "refused"}
    /\ UNCHANGED <<mode, at, socket_flags, restore_nonblocking, result,
                   history>>

\* __wrap_fcntl(F_SETFL) or __wrap_setsockopt(SO_NONBLOCK).
ChooseMode(m) ==
    /\ conn /= "closed" /\ m /= mode
    /\ mode' = m
    /\ meddled' = (meddled \/ at /= "idle")
    /\ UNCHANGED <<conn, at, socket_flags, restore_nonblocking, result, entry>>

Close ==
    /\ conn /= "closed"
    /\ conn' = "closed"
    /\ UNCHANGED <<mode, at, socket_flags, restore_nonblocking, result,
                   history>>

-----------------------------------------------------------------------------
ConnectStep ==
    \/ GetFlags \/ LwipConnect \/ Connected \/ PollConnect \/ ReadSoError
    \/ ReturnToCaller
    \/ \E failure \in Failures : ClearNonblock(failure) \/ RestoreFlags(failure)

ConnectNext ==
    ConnectStep \/ Call \/ Network \/ Close \/ \E m \in Modes : ChooseMode(m)

ConnectSpec == ConnectInit /\ [][ConnectNext]_connectVars

\* The thread is scheduled; lwIP's SYN retransmissions are bounded.
ConnectFairSpec ==
    ConnectSpec /\ WF_connectVars(ConnectStep) /\ WF_connectVars(Network)

-----------------------------------------------------------------------------
\* Success is reported only for a connection lwIP has established: not for
\* one still in progress, not for one that was refused while poll waited.
SuccessMeansConnected ==
    (at = "return" /\ result = "0") => conn \in {"connected", "closed"}

\* "then restore O_NONBLOCK before returning the connected socket to cURL":
\* a connected socket has the mode it had when connect was called, whichever
\* of the fcntl calls failed, unless another thread changed it meanwhile.
ConnectedKeepsMode ==
    (at = "return" /\ result = "0" /\ ~meddled /\ conn /= "closed") =>
        mode = entry

\* "Finish the asynchronous lwIP connect before returning": the caller sees
\* EINPROGRESS only if the socket was closed under the call.
InProgressIsFinished ==
    (at = "return" /\ result = "EINPROGRESS") => conn = "closed"

\* Every connect returns, in whatever order the network's answer, a close by
\* another thread and the failures of the fcntl calls come.
ConnectReturns == at /= "idle" ~> at = "idle"
=============================================================================
