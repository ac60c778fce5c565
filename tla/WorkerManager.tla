--------------------------- MODULE WorkerManager ---------------------------
(***************************************************************************)
(* The downstream side of gpu-proxy (worker_manager.cpp): workers connect, *)
(* subscribe and authorize (or log in), are given every new job, and       *)
(* submit shares.  WorkerManager keeps a WorkerInfo per descriptor with a  *)
(* non-owning pointer to the Connection; the Connection belongs to the     *)
(* event loop, which destroys it without telling WorkerManager.            *)
(*                                                                         *)
(* The share callback is left to GpuProxy, which wires it to PoolManager.  *)
(***************************************************************************)
EXTENDS EventLoop, Stratum

CONSTANTS
  NoWorker,    \* the worker_id of a WorkerInfo before any was given
  Whitelist,   \* the ids of worker_configs_; none means that all are allowed
  Methods      \* the requests workers send

ASSUME WorkerAssumption ==
  /\ Whitelist \subseteq Workers
  /\ NoWorker \notin Workers
  /\ Methods \subseteq {"subscribe", "authorize", "login", "submit"}

VARIABLES
  registered,     \* the keys of workers_
  subscribed,     \* those whose WorkerInfo has the flag
  authorized,     \* likewise
  worker_id,      \* by key
  w_current_job,  \* WorkerManager's copy of the job
  w_has_job,
  ended,          \* the process: "no", or what killed it
  offered,        \* observation: the open connections that were sent w_current_job
  passed_over,    \* observation: those that came to mine when it was there, without
  admitted        \* observation: the open connections that passed the whitelist

tableVars  == <<registered, subscribed, authorized, worker_id>>
jobVars    == <<w_current_job, w_has_job, offered, passed_over>>
workerVars == <<tableVars, jobVars, ended, admitted>>

WorkerTypeOK ==
  /\ registered \in SUBSET Fds
  /\ subscribed \in SUBSET registered
  /\ authorized \in SUBSET registered
  /\ worker_id \in [Fds -> Workers \cup {NoWorker}]
  /\ w_current_job \in Job
  /\ w_has_job \in BOOLEAN
  /\ ended \in {"no", "use_after_free"}
  /\ offered \in SUBSET Fds /\ passed_over \in SUBSET Fds
  /\ admitted \in SUBSET Fds

WorkerInit ==
  /\ registered = {} /\ subscribed = {} /\ authorized = {}
  /\ worker_id = [fd \in Fds |-> NoWorker]
  /\ w_current_job = FullJob(NoJob) /\ w_has_job = FALSE
  /\ ended = "no" /\ offered = {} /\ passed_over = {} /\ admitted = {}

-----------------------------------------------------------------------------
(* Helpers.                                                                *)

is_worker_allowed(w) == Whitelist = {} \/ w \in Whitelist

\* A handler calls send_line through the pointers of the keys R, cs being the
\* connections so far.  A write that fails (F) marks its connection.  Through a
\* destroyed Connection anything may happen: the process dies, or the line is
\* lost, or it goes to another connection that now has the memory.
SendLines(cs, R, F) ==
  LET stale == R \ ConnFds(cs, "WORKER") IN
  /\ F \subseteq IF stale = {} THEN R ELSE OpenFds(cs)
  /\ conns' = MarkForClosing(cs, F)
  /\ ended' \in IF stale = {} THEN {ended} ELSE {ended, "use_after_free"}

\* Mutant of Recipients: who has subscribed is sent the jobs.
Recipients_Subscribed(sub, auth) == sub

\* The keys that send_job writes to.
Recipients(sub, auth) == sub \cap auth

\* send_job(current_job_), of the keys R.
SendAgain(R) ==
  /\ offered' = offered \cup (R \cap ConnFds(conns, "WORKER"))
  /\ passed_over' = passed_over \ R

-----------------------------------------------------------------------------
(* send_job, called with a new job.                                        *)

SendJob(j, F) ==
  LET R == Recipients(subscribed, authorized) IN
  /\ w_current_job' = j
  /\ w_has_job' = TRUE
  /\ SendLines(conns, R, F)
  /\ offered' = R \cap ConnFds(conns, "WORKER")
  /\ passed_over' = {}
  /\ UNCHANGED <<tableVars, admitted>>

-----------------------------------------------------------------------------
(* accept_worker and the requests of a worker.  send_job(current_job_) at   *)
(* the end of two of them goes to all workers again, not just to this one. *)

\* Mutant of AcceptWorker: workers_ keeps an entry it already has for fd.
AcceptWorker_KeepsEntry(fd, F) ==
  /\ phase = "accept" /\ listening
  /\ IsLowestFree(conns, fd)
  /\ SendLines(AddConnection(conns, fd, "WORKER", "CONNECTED"), {}, F)
  /\ registered' = registered \cup {fd}
  /\ phase' = "reconnect"
  /\ UNCHANGED <<timers, listening, ready, cur, subscribed, authorized, worker_id,
                 jobVars, admitted>>

AcceptWorker(fd, F) ==
  LET R == IF w_has_job
             THEN Recipients(subscribed \ {fd}, authorized \ {fd}) ELSE {} IN
  /\ phase = "accept" /\ listening
  /\ IsLowestFree(conns, fd)
  /\ SendLines(AddConnection(conns, fd, "WORKER", "CONNECTED"), R, F)
  /\ registered' = registered \cup {fd}
  /\ subscribed' = subscribed \ {fd}
  /\ authorized' = authorized \ {fd}
  /\ worker_id' = [worker_id EXCEPT ![fd] = NoWorker]
  /\ SendAgain(R)
  /\ phase' = "reconnect"
  /\ UNCHANGED <<timers, listening, ready, cur, w_current_job, w_has_job, admitted>>

\* A request of the given method arrives in the handler of fd.
Request(fd, method) ==
  /\ method \in Methods
  /\ InHandler(fd)
  /\ conns[fd].type = "WORKER"
  /\ fd \in registered
  /\ StayIn(fd)
  /\ UNCHANGED timers

Subscribe(fd, F) ==
  LET R == IF w_has_job
             THEN Recipients(subscribed \cup {fd}, authorized) ELSE {} IN
  /\ Request(fd, "subscribe")
  /\ SendLines(conns, {fd} \cup R, F)
  /\ subscribed' = subscribed \cup {fd}
  /\ SendAgain(R)
  /\ UNCHANGED <<registered, authorized, worker_id, w_current_job, w_has_job, admitted>>

\* The one reply to fd, and the verdict on w: flags set, or connection closed.
Admit(fd, w, F) ==
  \/ /\ is_worker_allowed(w)
     /\ SendLines(conns, {fd}, F)
     /\ authorized' = authorized \cup {fd}
     /\ admitted' = admitted \cup {fd}
  \/ /\ ~is_worker_allowed(w)
     /\ SendLines(MarkForClosing(conns, {fd}), {fd}, F)
     /\ UNCHANGED <<authorized, admitted>>

\* The flag is set and nothing else: no job is sent.
Authorize(fd, w, F) ==
  /\ Request(fd, "authorize")
  /\ worker_id' = [worker_id EXCEPT ![fd] = w]
  /\ Admit(fd, w, F)
  /\ passed_over' = IF w_has_job /\ is_worker_allowed(w)
                      THEN passed_over \cup ({fd} \cap (subscribed \ offered)) ELSE passed_over
  /\ UNCHANGED <<registered, subscribed, w_current_job, w_has_job, offered>>

\* Mutant of Login: the reply never has a job.
Login_WithoutJob(fd, w, F) ==
  /\ Request(fd, "login")
  /\ worker_id' = [worker_id EXCEPT ![fd] = w]
  /\ Admit(fd, w, F)
  /\ subscribed' = IF is_worker_allowed(w) THEN subscribed \cup {fd} ELSE subscribed
  /\ UNCHANGED <<registered, jobVars>>

\* The reply has the current job in it, and status OK whatever the verdict is.
Login(fd, w, F) ==
  /\ Request(fd, "login")
  /\ worker_id' = [worker_id EXCEPT ![fd] = w]
  /\ Admit(fd, w, F)
  /\ subscribed' = IF is_worker_allowed(w) THEN subscribed \cup {fd} ELSE subscribed
  /\ offered' = IF w_has_job THEN offered \cup {fd} ELSE offered
  /\ passed_over' = passed_over \ {fd}
  /\ UNCHANGED <<registered, w_current_job, w_has_job>>

\* No JSON, an unknown method, or params of the wrong type.
WorkerLineIgnored(fd) ==
  /\ InHandler(fd)
  /\ conns[fd].type = "WORKER"
  /\ StayIn(fd)
  /\ UNCHANGED <<conns, timers, workerVars>>

=============================================================================
