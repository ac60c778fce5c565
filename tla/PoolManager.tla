---------------------------- MODULE PoolManager ----------------------------
(***************************************************************************)
(* The upstream side of gpu-proxy (pool_manager.cpp): connecting to a list *)
(* of pools, logging in, taking jobs, forwarding shares, and reconnecting. *)
(*                                                                         *)
(* Part of the program:  the handlers of PoolManager, and the steps of     *)
(* EventLoop that call them.  Environment: the pools, which complete or    *)
(* break handshakes, close connections, push jobs and answer each request  *)
(* at most once; and the worker side of the proxy, of which this module    *)
(* knows only what it does to the shared loop: worker connections open and *)
(* close, and workers submit shares.                                       *)
(***************************************************************************)
EXTENDS EventLoop, Stratum

CONSTANTS
  NumPools,     \* pools_.size()
  MaxAttempts,  \* MAX_RECONNECT_ATTEMPTS
  MaxId         \* bound: no request id above MaxId is handed out

ASSUME PoolAssumption ==
  /\ NumPools \in Nat \ {0}
  /\ MaxAttempts \in Nat
  /\ MaxId \in Nat

PoolIndex == 0..(NumPools - 1)

VARIABLES
  current_pool_index,
  pool_fd,
  contacted,         \* observation: the pools the last try_connect_pool contacted
  connected,
  authenticated,
  has_job,
  current_job,
  reconnect_attempts,
  share_to_worker,   \* the map as a set of pairs <<id, worker>>
  next_id,
  login_due,         \* environment: connections whose pool owes a login reply
  share_due          \* environment: <<fd, id, worker>>, share replies owed on fd

sessionVars == <<connected, authenticated, has_job, reconnect_attempts>>
targetVars  == <<current_pool_index, pool_fd, contacted>>
requestVars == <<share_to_worker, next_id, login_due, share_due>>
poolVars    == <<targetVars, sessionVars, current_job, requestVars>>
vars        == <<loopVars, poolVars>>

PoolTypeOK ==
  /\ LoopTypeOK
  /\ current_pool_index \in PoolIndex
  /\ pool_fd \in Fds \cup {NoFd}
  /\ contacted \in SUBSET PoolIndex
  /\ connected \in BOOLEAN
  /\ authenticated \in BOOLEAN
  /\ has_job \in BOOLEAN
  /\ current_job \in Job
  /\ reconnect_attempts \in 0..MaxAttempts
  /\ share_to_worker \in SUBSET (Nat \X Workers)
  /\ next_id \in Nat
  /\ login_due \in SUBSET Fds
  /\ share_due \in SUBSET (Fds \X Nat \X Workers)

-----------------------------------------------------------------------------
(* Helpers.  cs is the connection table as the handler has changed it so   *)
(* far; each helper that may change it further determines conns'.          *)

\* Mutant of TryConnectPool: the old pool connection is removed first.
TryConnectPool_RemovesOld(i, cs) ==
  LET left == [fd \in Fds |-> IF fd = pool_fd THEN NoConn ELSE cs[fd]] IN
  \E k \in i..(NumPools - 1), fd \in Fds :
    /\ IsLowestFree(left, fd)
    /\ conns' = AddConnection(left, fd, "POOL", "CONNECTING")
    /\ current_pool_index' = k
    /\ contacted' = i..k
    /\ pool_fd' = fd

\* Mutant of TryConnectPool: pool_fd_ is set the first time only.
TryConnectPool_KeepsFd(i, cs) ==
  \E k \in i..(NumPools - 1), fd \in Fds :
    /\ IsLowestFree(cs, fd)
    /\ conns' = AddConnection(cs, fd, "POOL", "CONNECTING")
    /\ current_pool_index' = k
    /\ contacted' = i..k
    /\ UNCHANGED pool_fd

\* connect_to_pool fails (socket, DNS, connect, TLS set-up) for the pools
\* i..k-1 and succeeds for k, or it fails to the end of the list: then no
\* connection is opened and no timer is set.
TryConnectPool(i, cs) ==
  \/ \E k \in i..(NumPools - 1), fd \in Fds :
       /\ IsLowestFree(cs, fd)
       /\ conns' = AddConnection(cs, fd, "POOL", "CONNECTING")
       /\ current_pool_index' = k
       /\ contacted' = i..k
       /\ pool_fd' = fd
  \/ /\ conns' = cs
     /\ current_pool_index' = NumPools - 1
     /\ contacted' = i..(NumPools - 1)
     /\ UNCHANGED pool_fd

\* Mutants of OnPoolError: attempts compared with <=; attempts not counted;
\* the same pool again when attempts run out.
OnPoolError_OneMore(cs) ==
  /\ connected' = FALSE /\ authenticated' = FALSE /\ has_job' = FALSE
  /\ \/ /\ reconnect_attempts <= MaxAttempts
        /\ reconnect_attempts' = reconnect_attempts + 1
        /\ set_timeout
        /\ conns' = cs
        /\ UNCHANGED targetVars
     \/ /\ reconnect_attempts > MaxAttempts
        /\ reconnect_attempts' = 0
        /\ TryConnectPool((current_pool_index + 1) % NumPools, cs)
        /\ UNCHANGED timers

OnPoolError_Uncounted(cs) ==
  /\ connected' = FALSE /\ authenticated' = FALSE /\ has_job' = FALSE
  /\ set_timeout
  /\ conns' = cs
  /\ UNCHANGED <<targetVars, reconnect_attempts>>

OnPoolError_SamePool(cs) ==
  /\ connected' = FALSE /\ authenticated' = FALSE /\ has_job' = FALSE
  /\ \/ /\ reconnect_attempts < MaxAttempts
        /\ reconnect_attempts' = reconnect_attempts + 1
        /\ set_timeout
        /\ conns' = cs
        /\ UNCHANGED targetVars
     \/ /\ reconnect_attempts >= MaxAttempts
        /\ reconnect_attempts' = 0
        /\ TryConnectPool(current_pool_index, cs)
        /\ UNCHANGED timers

\* on_pool_state for ERROR, which falls through to DISCONNECTED.
OnPoolError(cs) ==
  /\ connected' = FALSE
  /\ authenticated' = FALSE
  /\ has_job' = FALSE
  /\ \/ /\ reconnect_attempts < MaxAttempts
        /\ reconnect_attempts' = reconnect_attempts + 1
        /\ set_timeout
        /\ conns' = cs
        /\ UNCHANGED targetVars
     \/ /\ reconnect_attempts >= MaxAttempts
        /\ reconnect_attempts' = 0
        /\ TryConnectPool((current_pool_index + 1) % NumPools, cs)
        /\ UNCHANGED timers

\* Mutant of Target: a request goes to whatever pool is connected.
Target_AnyPool(cs) ==
  {fd \in ConnFds(cs, "POOL") : cs[fd].state \in {"CONNECTED", "ERROR"}}

\* get_connection(pool_fd_): whatever connection has that descriptor now.
\* send_line refuses one that is not connected.
Target(cs) ==
  {fd \in OpenFds(cs) : fd = pool_fd /\ cs[fd].state \in {"CONNECTED", "ERROR"}}

\* send_line: all of the line is written; or it is lost (SSL_write wants a
\* retry that never comes, a short write, no connection); or the write fails
\* and the connection is marked.
SendOutcome == {"sent", "lost", "failed"}
MaySend(cs, out) == out = "lost" \/ Target(cs) # {}
AfterSend(cs, out) ==
  IF out = "failed" THEN MarkForClosing(cs, Target(cs)) ELSE cs

-----------------------------------------------------------------------------
(* TLS handshake of a pool connection (handle_write_event,                 *)
(* handle_read_event, perform_tls_handshake).                              *)

\* Handshake complete: set_state(CONNECTED), on_pool_state, send_login.
HandshakeDone(fd, out) ==
  LET cs == SetState(conns, fd, "CONNECTED") IN
  /\ InHandler(fd)
  /\ conns[fd].type = "POOL"
  /\ conns[fd].state = "CONNECTING"
  /\ next_id <= MaxId
  /\ MaySend(cs, out)
  /\ conns' = AfterSend(cs, out)
  /\ next_id' = next_id + 1
  /\ login_due' = IF out = "sent" THEN login_due \cup Target(cs) ELSE login_due
  /\ StayIn(fd)
  /\ UNCHANGED <<timers, targetVars, sessionVars, current_job,
                 share_to_worker, share_due>>

\* Mutant of HandshakeFails: set_state calls back for the same state again.
HandshakeFails_EachTime(fd) ==
  /\ InHandler(fd)
  /\ conns[fd].type = "POOL"
  /\ conns[fd].state \in {"CONNECTING", "ERROR"}
  /\ OnPoolError(MarkForClosing(SetState(conns, fd, "ERROR"), {fd}))
  /\ StayIn(fd)
  /\ UNCHANGED <<current_job, requestVars>>

\* Handshake failed.  The write event and the read event of one dispatch may
\* both get here; set_state calls back only when the state changes.
HandshakeFails(fd) ==
  LET cs == MarkForClosing(SetState(conns, fd, "ERROR"), {fd}) IN
  /\ InHandler(fd)
  /\ conns[fd].type = "POOL"
  /\ conns[fd].state \in {"CONNECTING", "ERROR"}
  /\ \/ /\ conns[fd].state = "CONNECTING"
        /\ OnPoolError(cs)
     \/ /\ conns[fd].state = "ERROR"
        /\ conns' = cs
        /\ UNCHANGED <<timers, targetVars, sessionVars>>
  /\ StayIn(fd)
  /\ UNCHANGED <<current_job, requestVars>>

-----------------------------------------------------------------------------
(* Lines from a pool (on_pool_message).  Every pool connection still open  *)
(* is listened to, also one whose login was rejected.  F: the connections  *)
(* whose write fails while a job is passed on to the workers.  WorkerInfo   *)
(* may hold a pointer to a Connection that was destroyed, so they need not  *)
(* be connections of workers.                                              *)

PoolLine(fd) ==
  /\ InHandler(fd)
  /\ conns[fd].type = "POOL"
  /\ conns[fd].state = "CONNECTED"
  /\ StayIn(fd)

PassJobOn(F) ==
  /\ F \subseteq OpenFds(conns)
  /\ conns' = MarkForClosing(conns, F)

\* A job in the reply logs in at once.  The fields are copied one by one: a
\* missing target or a height of the wrong type throws between two copies, after
\* the flags were set.
LoginWithJob(r, j, F) ==
  /\ connected' = TRUE
  /\ authenticated' = TRUE
  /\ current_job' =
       CASE r = "job"           -> FullJob(j)
         [] r \in {"job_no_height", "job_bad_height"}
                                -> [current_job EXCEPT !.job_id = j, !.target = j]
         [] r = "job_no_target" -> [current_job EXCEPT !.job_id = j]
         [] r = "job_no_id"     -> current_job
  /\ \/ /\ r \in {"job", "job_no_height"}
        /\ has_job' = TRUE
        /\ reconnect_attempts' = 0
        /\ PassJobOn(F)
     \/ /\ r \in {"job_no_target", "job_bad_height", "job_no_id"}
        /\ F = {}
        /\ UNCHANGED <<has_job, reconnect_attempts, conns>>
  /\ UNCHANGED <<timers, targetVars>>

LoginStatusOk ==
  /\ connected' = TRUE
  /\ authenticated' = TRUE
  /\ reconnect_attempts' = 0
  /\ UNCHANGED <<conns, timers, targetVars, has_job, current_job>>

\* Mutant of HandleResponse: a bad status always means a rejected login.
HandleResponse_AnyStatus(id, r, j, F) ==
  \/ /\ ~authenticated /\ r \in JobReply
     /\ LoginWithJob(r, j, F)
     /\ UNCHANGED share_to_worker
  \/ /\ r = "status_bad" /\ F = {}
     /\ OnPoolError(conns)
     /\ UNCHANGED <<current_job, share_to_worker>>
  \/ /\ r # "status_bad" /\ F = {}
     /\ UNCHANGED <<conns, timers, targetVars, sessionVars, current_job,
                    share_to_worker>>

\* handle_response for the reply r to request id.
HandleResponse(id, r, j, F) ==
  \/ /\ ~authenticated /\ r \in JobReply
     /\ LoginWithJob(r, j, F)
     /\ UNCHANGED share_to_worker
  \/ /\ ~authenticated /\ r = "status_ok" /\ F = {}
     /\ LoginStatusOk
     /\ UNCHANGED share_to_worker
  \/ /\ ~authenticated /\ r = "status_bad" /\ F = {}
     /\ OnPoolError(conns)
     /\ UNCHANGED <<current_job, share_to_worker>>
  \/ /\ authenticated /\ r # "scalar" /\ F = {}
     /\ share_to_worker' = {e \in share_to_worker : e[1] # id}
     /\ UNCHANGED <<conns, timers, targetVars, sessionVars, current_job>>
  \/ /\ r = "scalar" /\ F = {}
     /\ UNCHANGED <<conns, timers, targetVars, sessionVars, current_job,
                    share_to_worker>>

\* Id 0 stands for the login's: share ids are never that one.
LoginReply(fd, r, j, F) ==
  /\ PoolLine(fd)
  /\ fd \in login_due
  /\ login_due' = login_due \ {fd}
  /\ HandleResponse(0, r, j, F)
  /\ UNCHANGED <<next_id, share_due>>

\* resp.id has no initial value: of a reply without an id it may be any.
IdSeen(id) == {id} \cup 0..MaxId

ShareReply(fd, id, w, r) ==
  /\ PoolLine(fd)
  /\ <<fd, id, w>> \in share_due
  /\ share_due' = share_due \ {<<fd, id, w>>}
  /\ r \in {"scalar", "status_ok", "status_bad"}
  /\ \E seen \in IdSeen(id) : HandleResponse(seen, r, NoJob, {})
  /\ UNCHANGED <<next_id, login_due>>

\* handle_notification: "job", or "mining.notify" with a numeric id.  A notify
\* with too few params replaces the job by an empty one (j = NoJob).
JobPushed(fd, j, F) ==
  /\ PoolLine(fd)
  /\ current_job' = FullJob(j)
  /\ has_job' = TRUE
  /\ PassJobOn(F)
  /\ UNCHANGED <<timers, targetVars, connected, authenticated,
                 reconnect_attempts, requestVars>>

\* A "job" whose target (or height) has the wrong type: the conversion throws
\* after the fields before it were copied.  A missing one is looked up in a const
\* object, which is undefined: it ends like a wrong type, or the process dies.
JobCutShort(fd, j) ==
  /\ PoolLine(fd)
  /\ \/ current_job' = [current_job EXCEPT !.job_id = j]
     \/ current_job' = [current_job EXCEPT !.job_id = j, !.target = j]
  /\ UNCHANGED <<conns, timers, targetVars, sessionVars, requestVars>>

\* A line that changes nothing: no JSON, an unknown method, "job" without
\* job_id or blob, "mining.notify" with the id null of a notification (parse
\* turns that into UNKNOWN).
PoolLineIgnored(fd) ==
  /\ PoolLine(fd)
  /\ UNCHANGED <<conns, timers, poolVars>>

-----------------------------------------------------------------------------
(* submit_share, and what else the worker side does to the loop.           *)

\* Mutant of SubmitShare: the request id is used again.
SubmitShare_SameId(w, out, cs) ==
  /\ connected /\ has_job
  /\ MaySend(cs, out)
  /\ conns' = AfterSend(cs, out)
  /\ share_to_worker' =
       {e \in share_to_worker : e[1] # next_id} \cup {<<next_id, w>>}
  /\ share_due' = IF out = "sent"
                    THEN share_due \cup {<<fd, next_id, w>> : fd \in Target(cs)}
                    ELSE share_due
  /\ UNCHANGED <<targetVars, sessionVars, current_job, login_due, next_id>>

\* out is what becomes of the write; cs is the table before it.
SubmitShare(w, out, cs) ==
  \/ /\ connected /\ has_job
     /\ next_id <= MaxId
     /\ MaySend(cs, out)
     /\ conns' = AfterSend(cs, out)
     /\ next_id' = next_id + 1
     /\ share_to_worker' =
          {e \in share_to_worker : e[1] # next_id} \cup {<<next_id, w>>}
     /\ share_due' = IF out = "sent"
                       THEN share_due \cup {<<fd, next_id, w>> : fd \in Target(cs)}
                       ELSE share_due
     /\ UNCHANGED <<targetVars, sessionVars, current_job, login_due>>
  \/ /\ ~(connected /\ has_job)
     /\ out = "lost"
     /\ conns' = cs
     /\ UNCHANGED poolVars

WorkerAccepted(fd, F) ==
  /\ phase = "accept" /\ listening
  /\ IsLowestFree(conns, fd)
  /\ F \subseteq OpenFds(conns) \cup {fd}
  /\ conns' = MarkForClosing(AddConnection(conns, fd, "WORKER", "CONNECTED"), F)
  /\ phase' = "reconnect"
  /\ UNCHANGED <<timers, listening, ready, cur, poolVars>>

WorkerLine(fd) ==
  /\ InHandler(fd)
  /\ conns[fd].type = "WORKER"
  /\ StayIn(fd)

\* Any other request of a worker, answered with writes that may fail.
WorkerTalks(fd, F) ==
  /\ WorkerLine(fd)
  /\ F \subseteq OpenFds(conns)
  /\ conns' = MarkForClosing(conns, F)
  /\ UNCHANGED <<timers, poolVars>>

\* The acknowledgment is written to fd first; then the share is forwarded.
WorkerSubmits(fd, w, F, out) ==
  /\ WorkerLine(fd)
  /\ F \subseteq {fd}
  /\ SubmitShare(w, out, MarkForClosing(conns, F))
  /\ UNCHANGED timers

-----------------------------------------------------------------------------
(* The loop steps, with their effect on what pools owe.                    *)

LoopStep ==
  \/ \E S \in SUBSET OpenFds(conns) : Poll(S)
  \/ \E fd \in Fds : Hangup(fd) \/ ReadFails(fd) \/ HandlerDone(fd)
  \/ NoAccept
  \/ TimeoutsDone

\* No answer arrives on a connection that is closed.
PoolCleanup ==
  /\ CleanupClosed
  /\ login_due' = login_due \ ClosingFds(conns)
  /\ share_due' = {s \in share_due : s[1] \notin ClosingFds(conns)}
  /\ UNCHANGED <<targetVars, sessionVars, current_job, share_to_worker, next_id>>

\* A reconnect timer fires: its callback runs, then it is removed.
Reconnect ==
  /\ phase = "reconnect"
  /\ timers > 0
  /\ timers' = timers - 1
  /\ TryConnectPool(current_pool_index, conns)
  /\ UNCHANGED <<listening, phase, ready, cur,
                 sessionVars, current_job, requestVars>>

\* WorkerManager::start: the recurring accept timer is set when the port could be
\* bound; when it could not, the process goes on without workers.
StartListening == listening \in BOOLEAN

\* The state when GPUProxy::start has returned and the loop begins.
PoolInit ==
  /\ \/ \E k \in PoolIndex :
          /\ conns = [fd \in Fds |-> IF fd = 1
                        THEN [type |-> "POOL", state |-> "CONNECTING",
                              closing |-> FALSE]
                        ELSE NoConn]
          /\ current_pool_index = k
          /\ contacted = 0..k
          /\ pool_fd = 1
     \/ /\ conns = [fd \in Fds |-> NoConn]
        /\ current_pool_index = NumPools - 1
        /\ contacted = PoolIndex
        /\ pool_fd = NoFd
  /\ timers = 0
  /\ StartListening
  /\ phase = "poll" /\ ready = {} /\ cur = NoFd
  /\ connected = FALSE /\ authenticated = FALSE
  /\ has_job = FALSE /\ current_job = FullJob(NoJob)
  /\ reconnect_attempts = 0
  /\ share_to_worker = {} /\ next_id = 1
  /\ login_due = {} /\ share_due = {}

PoolStep ==
  \/ LoopStep /\ UNCHANGED poolVars
  \/ PoolCleanup
  \/ Reconnect
  \/ \E fd \in Fds : \E out \in SendOutcome : HandshakeDone(fd, out)
  \/ \E fd \in Fds : HandshakeFails(fd)
  \/ \E fd \in login_due, r \in Reply, j \in Jobs, F \in SUBSET Fds :
       LoginReply(fd, r, j, F)
  \/ \E s \in share_due, r \in Reply : ShareReply(s[1], s[2], s[3], r)
  \/ \E fd \in ready, j \in JobField, F \in SUBSET Fds : JobPushed(fd, j, F)
  \/ \E fd \in Fds, j \in Jobs : JobCutShort(fd, j)
  \/ \E fd \in Fds : PoolLineIgnored(fd)

WorkerSideStep ==
  \/ \E fd \in Fds, F \in SUBSET Fds : WorkerAccepted(fd, F)
  \/ \E fd \in ready, F \in SUBSET Fds : WorkerTalks(fd, F)
  \/ \E fd \in ready, w \in Workers, F \in SUBSET Fds, out \in SendOutcome :
       WorkerSubmits(fd, w, F, out)

\* run() has returned and the process ends.
Exited == phase = "exited" /\ UNCHANGED vars

PoolNext == PoolStep \/ WorkerSideStep \/ Exited

PoolSpec == PoolInit /\ [][PoolNext]_vars
-----------------------------------------------------------------------------
(* Fairness: the loop never stops turning while it runs, a handler reads a  *)
(* finite buffer and returns, and check_timeouts fires a timer on the first *)
(* pass after it is due: 5 seconds of passes cannot all come too early.     *)

LoopFairness ==
  /\ WF_vars((\E S \in SUBSET OpenFds(conns) : Poll(S)) /\ UNCHANGED poolVars)
  /\ WF_vars((\E fd \in Fds : HandlerDone(fd)) /\ UNCHANGED poolVars)
  /\ WF_vars(PoolCleanup)
  /\ WF_vars(NoAccept /\ UNCHANGED poolVars)
  /\ WF_vars(TimeoutsDone /\ UNCHANGED poolVars)
  /\ SF_vars(Reconnect)

FairPoolSpec == PoolSpec /\ LoopFairness

-----------------------------------------------------------------------------
(* Properties.                                                             *)

\* A login is under way on fd: TCP or TLS is being set up, or the pool has
\* been sent the login and has not answered.
Attempting(fd) ==
  /\ conns[fd].type = "POOL"
  /\ conns[fd].state = "CONNECTING" \/ fd \in login_due

\* At most one of: a pending reconnect timer, one connection attempt (always
\* the one pool_fd_ names), a session.  Nothing cancels a timer or an attempt
\* in pool_manager.cpp, so a second one would fight the first for pool_fd_.
SingleAttempt ==
  /\ timers <= 1
  /\ timers = 1 => ~authenticated
  /\ \A fd \in Fds : Attempting(fd) => fd = pool_fd /\ ~authenticated /\ timers = 0

\* send_login looks its connection up by pool_fd_, a descriptor that the kernel
\* may have given away: the login still goes to a pool, whose handshake is done.
LoginsGoToPools ==
  \A fd \in login_due : conns[fd].type = "POOL" /\ conns[fd].state = "CONNECTED"

\* What makes SingleAttempt and SessionKept inductive: logins are owed only on
\* connected pool connections, share replies only to a logged-in session, and
\* the two session flags change together.
SessionCoherent ==
  /\ LoginsGoToPools
  /\ share_due # {} => authenticated
  /\ connected = authenticated

\* Once logged in, PoolManager never leaves the session again: none of its
\* handlers clears authenticated_, connected_ or retargets pool_fd_, whatever
\* late replies and failures of older connections still arrive.
SessionKept ==
  [][authenticated => authenticated' /\ connected' /\ UNCHANGED targetVars]_vars

\* A share whose reply a pool still owes is mapped by share_to_worker_ to the
\* worker that submitted it and to no other, or, when a reply without an id has
\* erased its entry, to nobody.
ShareAttribution ==
  \A s \in share_due : {e \in share_to_worker : e[1] = s[2]} \subseteq {<<s[2], s[3]>>}

\* While poll_and_process walks its pollfd array, a descriptor in it keeps the
\* connection that was polled, and its mark for closing: nothing erases a
\* connection or reuses its descriptor before cleanup_closed.
StaysPut(fd) ==
  /\ conns'[fd].type = conns[fd].type
  /\ conns[fd].closing => conns'[fd].closing

PolledStaysPut ==
  [][phase = "dispatch" /\ phase' = "dispatch"
       => \A fd \in OpenFds(conns) : StaysPut(fd)]_vars

\* While the proxy is logged in, no connection to a pool is opened: a second one
\* would log in beside the session and, by pool_fd_, take its shares.
NoPoolOpensOnline ==
  [][authenticated => ConnFds(conns', "POOL") \subseteq ConnFds(conns, "POOL")]_vars

\* Replies to shares are owed by the connection of the session and by no other:
\* no share of an earlier pool is outstanding when pool_fd_ is set anew.
SharesOwedBySession == \A s \in share_due : s[1] = pool_fd

\* Each descriptor's connection lives the life that Connection gives it: no owner
\* and no handler skips a state, takes a mark back, or destroys what is not marked.
Life(fd) == INSTANCE ConnLife
              WITH type <- conns[fd].type, state <- conns[fd].state,
                   closing <- conns[fd].closing

LivesBegin == \A fd \in Fds : Life(fd)!Init
LivesGoOn  == \A fd \in Fds : Life(fd)!Next \/ UNCHANGED Life(fd)!vars

ConnectionsLive == LivesBegin /\ [][LivesGoOn]_vars

\* If reconnects are scheduled for ever, every pool of the list is contacted
\* again and again: MaxAttempts reconnects at one pool, then the next one.
PoolRotation ==
  []<>(timers = 1) => \A p \in PoolIndex : []<>(p \in contacted)

\* The session as PoolSession sees it.
Session ==
  CASE authenticated -> "online"
    [] ~authenticated /\ timers > 0 -> "backoff"
    [] ~authenticated /\ timers = 0 /\ (\E fd \in Fds : Attempting(fd)) -> "attempting"
    [] OTHER -> "stalled"

Abstract == INSTANCE PoolSession
              WITH session <- Session, tries <- reconnect_attempts,
                   MaxTries <- MaxAttempts

\* PoolManager, its event loop and every worker-side step implement
\* PoolSession: each step is one of its steps or leaves the session alone, and
\* a scheduled retry is eventually made.
ImplementsPoolSession == Abstract!Spec

\* The lost session of a pool connection is noticed: a list of pools "with
\* failover" (modules/gpu-proxy-cpp.nix).
FailoverAfterLoss ==
  (authenticated /\ pool_fd \notin ConnFds(conns, "POOL"))
    ~> (timers > 0 \/ \E fd \in Fds : Attempting(fd))

=============================================================================
