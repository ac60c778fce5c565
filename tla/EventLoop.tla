----------------------------- MODULE EventLoop -----------------------------
(***************************************************************************)
(* The single-threaded poll loop of gpu-proxy (event_loop.cpp) and the     *)
(* connections it owns (connection.cpp).  One pass of EventLoop::run is    *)
(*                                                                         *)
(*    poll  -->  dispatch  -->  accept  -->  reconnect  -->  poll ...      *)
(*                                                                         *)
(* "dispatch" handles the descriptors poll() reported, one after another,  *)
(* and ends with cleanup_closed(); "accept" and "reconnect" are            *)
(* check_timeouts(): the recurring accept timer is pushed at start-up, so  *)
(* it precedes the one-shot reconnect timers in timeouts_.                 *)
(*                                                                         *)
(* The module defines the state and the steps the loop takes by itself.    *)
(* What a callback does is defined by PoolManager and WorkerManager, which *)
(* extend this module.                                                     *)
(***************************************************************************)
EXTENDS Integers

CONSTANT MaxFd      \* descriptors 1..MaxFd: the process's limit on open files

ASSUME MaxFdAssumption == MaxFd \in Nat \ {0}

Fds  == 1..MaxFd
NoFd == 0           \* the -1 of pool_fd_

ConnType  == {"NONE", "POOL", "WORKER"}
ConnState == {"DISCONNECTED", "CONNECTING", "CONNECTED", "ERROR"}
Conn      == [type : ConnType, state : ConnState, closing : BOOLEAN]
NoConn    == [type |-> "NONE", state |-> "DISCONNECTED", closing |-> FALSE]

Phases    == {"poll", "dispatch", "accept", "reconnect", "exited"}

VARIABLES
  conns,      \* connections_: the connection that owns each descriptor
  timers,     \* how many one-shot reconnect timers are in timeouts_
  listening,  \* the recurring accept timer is in timeouts_
  phase,      \* where EventLoop::run is
  ready,      \* dispatch: the pollfds with revents still to be handled
  cur         \* dispatch: the descriptor whose handler has begun, or NoFd

loopVars == <<conns, timers, listening, phase, ready, cur>>

LoopTypeOK ==
  /\ conns \in [Fds -> Conn]
  /\ timers \in Nat
  /\ listening \in BOOLEAN
  /\ phase \in Phases
  /\ ready \in SUBSET Fds
  /\ cur \in Fds \cup {NoFd}

-----------------------------------------------------------------------------
(* The connections as a function cs \in [Fds -> Conn]; handlers compute     *)
(* the new function from the old with these operators.                     *)

OpenFds(cs)      == {fd \in Fds : cs[fd].type # "NONE"}
ConnFds(cs, t)   == {fd \in Fds : cs[fd].type = t}
ClosingFds(cs)   == {fd \in Fds : cs[fd].closing}

\* socket() and accept() return the lowest descriptor that is not open.
IsLowestFree(cs, fd) ==
  /\ fd \in Fds \ OpenFds(cs)
  /\ \A g \in Fds \ OpenFds(cs) : fd <= g

AddConnection(cs, fd, t, s) ==
  [cs EXCEPT ![fd] = [type |-> t, state |-> s, closing |-> FALSE]]

SetState(cs, fd, s) == [cs EXCEPT ![fd].state = s]

MarkForClosing(cs, F) ==
  [fd \in Fds |-> IF fd \in F THEN [cs[fd] EXCEPT !.closing = TRUE] ELSE cs[fd]]

\* One-shot timers differ only in when they are due.
set_timeout == timers' = timers + 1

\* Destroying the Connection closes its descriptor.
EraseClosed(cs) == [fd \in Fds |-> IF cs[fd].closing THEN NoConn ELSE cs[fd]]

-----------------------------------------------------------------------------
(* Steps of poll_and_process.                                              *)

\* poll() reports events on S.  S = {} is a timeout, a signal (EINTR), or the
\* usleep of a loop without connections: the pass then skips the dispatch and
\* also cleanup_closed().
Poll(S) ==
  /\ phase = "poll"
  /\ S \subseteq OpenFds(conns)
  /\ phase' = IF S = {} THEN "accept" ELSE "dispatch"
  /\ ready' = S
  /\ UNCHANGED <<conns, timers, listening, cur>>

\* The handler of fd may run now: either it begins, or it goes on.
InHandler(fd) ==
  /\ phase = "dispatch"
  /\ fd \in ready
  /\ cur \in {NoFd, fd}

\* The handler of fd ran a callback and may find more lines in the buffer, or
\* go from the write event to the read event.
StayIn(fd) == cur' = fd /\ UNCHANGED <<phase, ready, listening>>

LeaveHandler(fd) ==
  /\ cur' = NoFd
  /\ ready' = ready \ {fd}
  /\ UNCHANGED <<phase, listening>>

\* revents has POLLERR or POLLHUP: the connection is marked, nothing else of
\* it is handled, and no state callback runs.
Hangup(fd) ==
  /\ InHandler(fd)
  /\ cur = NoFd
  /\ conns' = MarkForClosing(conns, {fd})
  /\ LeaveHandler(fd)
  /\ UNCHANGED timers

\* read_data() meets the end of the stream or an error; a TLS connection is
\* read only after its handshake.  No state callback here either.
ReadFails(fd) ==
  /\ InHandler(fd)
  /\ conns[fd].state = "CONNECTED"
  /\ conns' = MarkForClosing(conns, {fd})
  /\ LeaveHandler(fd)
  /\ UNCHANGED timers

\* No (more) complete line, or a handshake that wants another round trip.
HandlerDone(fd) ==
  /\ InHandler(fd)
  /\ LeaveHandler(fd)
  /\ UNCHANGED <<conns, timers>>

CleanupClosed ==
  /\ phase = "dispatch"
  /\ ready = {}
  /\ conns' = EraseClosed(conns)
  /\ phase' = "accept"
  /\ UNCHANGED <<timers, listening, ready, cur>>

-----------------------------------------------------------------------------
(* Steps of check_timeouts and the loop condition of run().                *)

\* The accept timer is not due, nobody waits in the backlog, or accept() fails.
NoAccept ==
  /\ phase = "accept"
  /\ phase' = "reconnect"
  /\ UNCHANGED <<conns, timers, listening, ready, cur>>

\* Every due timer has fired.  The loop ends when nothing is left to wait for.
TimeoutsDone ==
  /\ phase = "reconnect"
  /\ phase' = IF OpenFds(conns) = {} /\ timers = 0 /\ ~listening
                THEN "exited" ELSE "poll"
  /\ UNCHANGED <<conns, timers, listening, ready, cur>>

=============================================================================
