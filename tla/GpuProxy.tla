------------------------------ MODULE GpuProxy ------------------------------
(***************************************************************************)
(* The gpu-proxy process (main.cpp): PoolManager and WorkerManager on one  *)
(* event loop, wired by callbacks.  A job that PoolManager receives goes   *)
(* to WorkerManager::send_job, a share that a worker submits goes to       *)
(* PoolManager::submit_share, each within the handler that received it.    *)
(***************************************************************************)
EXTENDS PoolManager, WorkerManager

proxyVars == <<vars, workerVars>>

ProxyTypeOK == PoolTypeOK /\ WorkerTypeOK

ProxyInit == PoolInit /\ WorkerInit

-----------------------------------------------------------------------------
(* The job callback, within the two handlers that receive a job.           *)

PushJob(fd, j, F) ==
  /\ JobPushed(fd, j, F)
  /\ SendJob(FullJob(j), F)

\* Mutant of AnswerLogin: a job is passed on whether or not it is complete.
AnswerLogin_Anyway(fd, r, j, F) ==
  /\ LoginReply(fd, r, j, F)
  /\ IF ~authenticated /\ r \in JobReply
       THEN SendJob(current_job', F)
       ELSE UNCHANGED workerVars

\* A login reply passes its job on when it was copied to the end.
AnswerLogin(fd, r, j, F) ==
  /\ LoginReply(fd, r, j, F)
  /\ IF ~authenticated /\ r \in {"job", "job_no_height"}
       THEN SendJob(current_job', F)
       ELSE UNCHANGED workerVars

\* The share callback: the acknowledgment is written first.
Submit(fd, w, F, out) ==
  /\ Request(fd, "submit")
  /\ F \subseteq {fd}
  /\ SubmitShare(w, out, MarkForClosing(conns, F))
  /\ UNCHANGED workerVars

\* cleanup_closed destroys connections; WorkerManager is not told.
Cleanup ==
  /\ PoolCleanup
  /\ offered' = offered \ ClosingFds(conns)
  /\ passed_over' = passed_over \ ClosingFds(conns)
  /\ admitted' = admitted \ ClosingFds(conns)
  /\ UNCHANGED <<tableVars, w_current_job, w_has_job, ended>>

-----------------------------------------------------------------------------
(* The process, from the start of the event loop.                          *)

LoopTurns == LoopStep /\ UNCHANGED <<poolVars, workerVars>>

PoolHandler ==
  \/ Reconnect /\ UNCHANGED workerVars
  \/ \E fd \in Fds, out \in SendOutcome : HandshakeDone(fd, out) /\ UNCHANGED workerVars
  \/ \E fd \in Fds : HandshakeFails(fd) /\ UNCHANGED workerVars
  \/ \E fd \in login_due, r \in Reply, j \in Jobs, F \in SUBSET Fds : AnswerLogin(fd, r, j, F)
  \/ \E s \in share_due, r \in Reply :
       ShareReply(s[1], s[2], s[3], r) /\ UNCHANGED workerVars
  \/ \E fd \in ready, j \in JobField, F \in SUBSET Fds : PushJob(fd, j, F)
  \/ \E fd \in Fds, j \in Jobs : JobCutShort(fd, j) /\ UNCHANGED workerVars
  \/ \E fd \in Fds : PoolLineIgnored(fd) /\ UNCHANGED workerVars

WorkerHandler ==
  \/ \E fd \in Fds, F \in SUBSET Fds :
       AcceptWorker(fd, F) /\ UNCHANGED poolVars
  \/ \E fd \in ready, F \in SUBSET Fds :
       Subscribe(fd, F) /\ UNCHANGED poolVars
  \/ \E fd \in ready, w \in Workers, F \in SUBSET Fds :
       /\ Authorize(fd, w, F) \/ Login(fd, w, F)
       /\ UNCHANGED poolVars
  \/ \E fd \in ready, w \in Workers, F \in SUBSET Fds, out \in SendOutcome :
       Submit(fd, w, F, out)
  \/ \E fd \in Fds : WorkerLineIgnored(fd) /\ UNCHANGED poolVars

\* run() has returned, or the process is dead.  Death by a signal that is left
\* to its default action (SIGPIPE, when the peer of a write is gone) needs no
\* step of its own: it is a behaviour that goes no further.
Alive == ended = "no" /\ phase # "exited"

ProxyNext ==
  \/ Alive /\ (LoopTurns \/ Cleanup \/ PoolHandler \/ WorkerHandler)
  \/ ~Alive /\ UNCHANGED proxyVars

ProxySpec == ProxyInit /\ [][ProxyNext]_proxyVars

-----------------------------------------------------------------------------
(* Properties.                                                             *)

\* Every open worker connection has its WorkerInfo, and one that is authorized
\* has itself shown an allowed id, not its predecessor on the descriptor; if
\* the last id it showed is not allowed, it is about to be closed.
AdmittedWorkers ==
  \A fd \in ConnFds(conns, "WORKER") :
    /\ fd \in registered
    /\ fd \in authorized =>
         /\ fd \in admitted
         /\ is_worker_allowed(worker_id[fd]) \/ conns[fd].closing

\* The job given to workers has its blob and its target from the same pool
\* message, although PoolManager's own copy may be torn by a line that fails
\* half-way.
JobCopyWhole == w_current_job.job_id = w_current_job.target

\* Whoever may mine has been sent the job there is, at whatever moment it came,
\* unless authorize was the last it needed: at log-in, at a subscription that
\* comes second and with every new job, no miner is left out, whatever
\* connections closed and whatever descriptors were used again in between.
JobsReachMiners ==
  \A fd \in ConnFds(conns, "WORKER") \cap Recipients(subscribed, authorized) :
    w_has_job => fd \in offered \cup passed_over

\* The same without the exception, as worker_manager.cpp says of the calls that
\* send the job to a new worker: "Send job if available".
MinersHaveTheJob ==
  \A fd \in ConnFds(conns, "WORKER") \cap Recipients(subscribed, authorized) :
    w_has_job => fd \in offered

\* A dangling pointer is used only to pass a job on, to the entry of a worker that
\* could mine and is gone: a reply is written to a connection that is there, and
\* the entries of those that never could mine are never used again.
Dangling == (subscribed \cap authorized) \ ConnFds(conns, "WORKER")

OnlyJobsDangle ==
  [][ended = "no" /\ ended' = "use_after_free" => Dangling # {}]_proxyVars

\* What a step that marks fd for closing was about: fd's own events, a job that is
\* passed on to it, or a login or share that is sent to it.
OwnHandler(fd) == cur' = fd \/ fd \in ready \ ready'
GivenAJob(fd)  ==
  fd \in ConnFds(conns, "WORKER") \cap subscribed \cap authorized /\ w_has_job'
Requested(fd)  == fd = pool_fd /\ next_id' # next_id

\* Within one handler of the loop the pool side may write to workers and the worker
\* side to the pool.  Where no pointer dangles, a handler marks another's connection
\* for closing only by a write that fails: of a job, to a worker that could mine, or
\* of a login or share, to what pool_fd_ names.  No other pool's connection, and no
\* worker that still waits for its authorization, is closed by what the other side
\* does.
NoForeignMark ==
  [][Dangling = {} => \A fd \in Fds : ~conns[fd].closing /\ conns'[fd].closing
                        => OwnHandler(fd) \/ GivenAJob(fd) \/ Requested(fd)]_proxyVars

\* Seen from PoolManager, WorkerManager is the worker side it was proved to
\* work with.
RefinesPoolManager == PoolSpec

\* The event loop destroys connections and WorkerManager drops its reference
\* (worker_manager.cpp), so no handler uses one that is dangling.
NoUseAfterFree == ended # "use_after_free"

=============================================================================
