-------------------------- MODULE GpuProxy_proofs --------------------------
(***************************************************************************)
(* The proxy implements PoolManager: WorkerManager is one of the worker    *)
(* sides that PoolManager's theorems allow for, so they hold of the whole  *)
(* process, for every whitelist, set of workers and method of logging in.  *)
(***************************************************************************)
EXTENDS GpuProxy, PoolManager_proofs

LEMMA MarkTwice ==
  ASSUME NEW F, NEW G
  PROVE  MarkForClosing(MarkForClosing(conns, F), G) = MarkForClosing(conns, F \cup G)
BY DEF MarkForClosing

LEMMA MarkNone ==
  ASSUME conns \in [Fds -> Conn]
  PROVE  MarkForClosing(conns, {}) = conns
BY DEF MarkForClosing

\* The lines of a handler are written to open connections.
LEMMA SentToOpen ==
  ASSUME NEW cs, NEW R, NEW F, SendLines(cs, R, F)
  PROVE  F \subseteq OpenFds(cs) /\ conns' = MarkForClosing(cs, F)
<1>1. ConnFds(cs, "WORKER") \subseteq OpenFds(cs)
  BY DEF ConnFds, OpenFds
<1> QED
  BY <1>1 DEF SendLines

LEMMA AcceptIsAccepted ==
  ASSUME conns \in [Fds -> Conn], NEW fd \in Fds, NEW F, AcceptWorker(fd, F),
         UNCHANGED poolVars
  PROVE  WorkerAccepted(fd, F)
<1> DEFINE cs == AddConnection(conns, fd, "WORKER", "CONNECTED")
<1>1. PICK R : SendLines(cs, R, F)
  BY DEF AcceptWorker
<1>2. OpenFds(cs) \subseteq OpenFds(conns) \cup {fd}
  BY DEF OpenFds, AddConnection
<1>3. F \subseteq OpenFds(conns) \cup {fd} /\ conns' = MarkForClosing(cs, F)
  BY <1>1, <1>2, SentToOpen
<1> QED
  BY <1>3 DEF AcceptWorker, WorkerAccepted

LEMMA RequestTalks ==
  ASSUME NEW fd \in Fds, NEW method, Request(fd, method), UNCHANGED poolVars,
         NEW F, F \subseteq OpenFds(conns), conns' = MarkForClosing(conns, F)
  PROVE  WorkerTalks(fd, F)
BY DEF Request, WorkerTalks, WorkerLine

LEMMA AdmitMarks ==
  ASSUME conns \in [Fds -> Conn], NEW fd \in OpenFds(conns), NEW w, NEW F,
         Admit(fd, w, F)
  PROVE  \E G \in SUBSET OpenFds(conns) : conns' = MarkForClosing(conns, G)
<1>1. CASE SendLines(conns, {fd}, F)
  BY <1>1, SentToOpen
<1>2. CASE SendLines(MarkForClosing(conns, {fd}), {fd}, F)
  <2>1. F \subseteq OpenFds(MarkForClosing(conns, {fd}))
        /\ conns' = MarkForClosing(MarkForClosing(conns, {fd}), F)
    BY <1>2, SentToOpen
  <2>2. OpenFds(MarkForClosing(conns, {fd})) = OpenFds(conns)
    BY TableFields DEF OpenFds
  <2>3. conns' = MarkForClosing(conns, {fd} \cup F)
    BY <2>1, MarkTwice
  <2> QED
    BY <2>1, <2>2, <2>3
<1> QED
  BY <1>1, <1>2 DEF Admit

LEMMA ProxyStep == PoolTypeOK /\ [ProxyNext]_proxyVars => [PoolNext]_vars
<1> SUFFICES ASSUME PoolTypeOK, [ProxyNext]_proxyVars PROVE [PoolNext]_vars
  OBVIOUS
<1>d. ready \in SUBSET Fds /\ login_due \in SUBSET Fds
  BY DEF PoolTypeOK, LoopTypeOK
<1>t. conns \in [Fds -> Conn]
  BY DEF PoolTypeOK, LoopTypeOK
<1>1. CASE LoopTurns
  BY <1>1 DEF LoopTurns, PoolNext, PoolStep
<1>2. CASE Cleanup
  BY <1>2 DEF Cleanup, PoolNext, PoolStep
<1>3. CASE PoolHandler
  BY <1>3, <1>d DEF PoolHandler, AnswerLogin, PushJob, PoolNext, PoolStep
<1>4. CASE WorkerHandler
  <2>s. ASSUME NEW fd \in Fds, NEW G \in SUBSET Fds, WorkerTalks(fd, G)
        PROVE  PoolNext
    BY <2>s DEF PoolNext, WorkerSideStep, WorkerTalks, WorkerLine, InHandler
  <2>o. \A fd \in Fds : conns[fd].type = "WORKER" => fd \in OpenFds(conns)
    BY DEF OpenFds
  <2>f. OpenFds(conns) \subseteq Fds
    BY DEF OpenFds
  <2>1. ASSUME NEW fd \in Fds, NEW F \in SUBSET Fds, AcceptWorker(fd, F),
               UNCHANGED poolVars
        PROVE  PoolNext
    BY <1>t, <2>1, AcceptIsAccepted DEF PoolNext, WorkerSideStep
  <2>2. ASSUME NEW fd \in Fds, NEW F \in SUBSET Fds, Subscribe(fd, F),
               UNCHANGED poolVars
        PROVE  PoolNext
    <3>1. PICK R : SendLines(conns, R, F)
      BY <2>2 DEF Subscribe
    <3>2. WorkerTalks(fd, F)
      BY <2>2, <3>1, SentToOpen, RequestTalks DEF Subscribe
    <3> QED
      BY <2>s, <3>2
  <2>3. ASSUME NEW fd \in Fds, NEW w, NEW F, NEW method,
               Request(fd, method), Admit(fd, w, F), UNCHANGED poolVars
        PROVE  PoolNext
    <3>1. fd \in OpenFds(conns)
      BY <2>3, <2>o DEF Request
    <3>2. PICK G \in SUBSET OpenFds(conns) : conns' = MarkForClosing(conns, G)
      BY <1>t, <2>3, <3>1, AdmitMarks
    <3>3. WorkerTalks(fd, G)
      BY <2>3, <3>2, RequestTalks
    <3> QED
      BY <2>f, <2>s, <3>2, <3>3
  <2>4. ASSUME NEW fd \in Fds, NEW w \in Workers, NEW F \in SUBSET Fds,
               NEW out \in SendOutcome, Submit(fd, w, F, out)
        PROVE  PoolNext
    <3>1. WorkerSubmits(fd, w, F, out)
      BY <2>4 DEF Submit, Request, WorkerSubmits, WorkerLine
    <3>2. fd \in ready
      BY <3>1 DEF WorkerSubmits, WorkerLine, InHandler
    <3> QED
      BY <3>1, <3>2 DEF PoolNext, WorkerSideStep
  <2>5. ASSUME NEW fd \in Fds, WorkerLineIgnored(fd), UNCHANGED poolVars
        PROVE  PoolNext
    <3>1. WorkerTalks(fd, {})
      BY <1>t, <2>5, MarkNone DEF WorkerLineIgnored, WorkerTalks, WorkerLine
    <3> QED
      BY <2>s, <3>1
  <2> QED
    BY <1>4, <1>d, <2>1, <2>2, <2>3, <2>4, <2>5 DEF WorkerHandler, Authorize, Login
<1>5. CASE UNCHANGED proxyVars
  BY <1>5 DEF proxyVars
<1> QED
  BY <1>1, <1>2, <1>3, <1>4, <1>5 DEF ProxyNext

\* Every behaviour of the proxy is, for PoolManager's variables, a behaviour of
\* PoolManager with the worker side that it assumes.
THEOREM ProxyRefinesPoolManager == ProxySpec => RefinesPoolManager
<1>1. ProxyInit => PoolInit
  BY DEF ProxyInit
<1>2. IInv /\ [ProxyNext]_proxyVars => [PoolNext]_vars
  BY ProxyStep DEF IInv
<1>3. IInv /\ [PoolNext]_vars => IInv'
  BY TypeStep, InvStep DEF IInv
<1>4. PoolInit => IInv
  BY TypeInit, InvInit DEF IInv
<1> QED
  BY <1>1, <1>2, <1>3, <1>4, PTL DEF ProxySpec, PoolSpec, RefinesPoolManager

\* So what is proved of PoolManager holds in the running proxy: one attempt at a
\* time, sessions kept, shares owed by the session's pool and credited to the
\* worker that sent them ...
THEOREM ProxyKeepsSessions ==
  ProxySpec => /\ []SingleAttempt /\ []ShareAttribution /\ []SharesOwedBySession
               /\ SessionKept /\ NoPoolOpensOnline /\ Abstract!SafeSpec
BY ProxyRefinesPoolManager, SingleAttemptCorrect, ShareAttributionCorrect,
   SharesOwedBySessionCorrect, SessionKeptCorrect, NoPoolOpensOnlineCorrect,
   ImplementsSession, PTL DEF RefinesPoolManager

\* ... the loop's walk over its descriptors is undisturbed, and every connection, a
\* worker's too, lives the life that Connection gives it ...
THEOREM ProxyKeepsLoop ==
  ProxySpec => PolledStaysPut /\ ConnectionsLive
BY ProxyRefinesPoolManager, PolledStaysPutCorrect, ConnectionsLiveCorrect,
   PTL DEF RefinesPoolManager

\* ... and no worker that comes or goes ends a stall, or a loss, of the pool.
THEOREM ProxyStaysStuck ==
  ProxySpec => /\ [](Lost => [](Lost /\ Waiting)) /\ [](Stalled => []Stalled)
BY ProxyRefinesPoolManager, LossIsFinal, StallIsFinal, PTL DEF RefinesPoolManager

-----------------------------------------------------------------------------
(* Admission.  Outside accept and cleanup no worker connection appears, and  *)
(* a mark for closing is never taken back.                                  *)

WorkersKept(cs, ds) ==
  \A g \in Fds : ds[g].type = "WORKER" =>
    cs[g].type = "WORKER" /\ (cs[g].closing => ds[g].closing)

\* The operators on connection tables keep worker connections.
LEMMA TableKeeps ==
  ASSUME NEW cs \in [Fds -> Conn]
  PROVE  /\ \A F : WorkersKept(cs, MarkForClosing(cs, F))
         /\ \A fd \in Fds : \A s : WorkersKept(cs, SetState(cs, fd, s))
         /\ \A fd \in Fds : \A s : WorkersKept(cs, AddConnection(cs, fd, "POOL", s))
  BY DEF WorkersKept, MarkForClosing, SetState, AddConnection, Conn

LEMMA WorkersKeptTransitive ==
  ASSUME NEW cs, NEW ds, NEW es, WorkersKept(cs, ds), WorkersKept(ds, es)
  PROVE  WorkersKept(cs, es)
  BY DEF WorkersKept

LEMMA PoolErrorKeepsWorkers ==
  ASSUME NEW cs \in [Fds -> Conn], OnPoolError(cs)
  PROVE  WorkersKept(cs, conns')
<1>1. CASE conns' = cs
  BY <1>1 DEF WorkersKept
<1>2. ASSUME NEW i, TryConnectPool(i, cs)
      PROVE  WorkersKept(cs, conns')
  <2>1. CASE conns' = cs
    BY <2>1 DEF WorkersKept
  <2>2. CASE \E fd \in Fds : conns' = AddConnection(cs, fd, "POOL", "CONNECTING")
    BY <2>2, TableKeeps
  <2> QED
    BY <1>2, <2>1, <2>2 DEF TryConnectPool
<1> QED
  BY <1>1, <1>2 DEF OnPoolError, set_timeout

LEMMA PoolHandlerKeepsWorkers ==
  ASSUME conns \in [Fds -> Conn], ready \in SUBSET Fds, login_due \in SUBSET Fds,
         PoolHandler
  PROVE  WorkersKept(conns, conns')
<1>s. ASSUME UNCHANGED conns PROVE WorkersKept(conns, conns')
  BY <1>s DEF WorkersKept
<1>1. CASE Reconnect
  <2>1. CASE \E fd \in Fds : conns' = AddConnection(conns, fd, "POOL", "CONNECTING")
    BY <2>1, TableKeeps
  <2> QED
    BY <1>1, <1>s, <2>1 DEF Reconnect, TryConnectPool
<1>2. ASSUME NEW fd \in Fds, NEW out, HandshakeDone(fd, out)
      PROVE  WorkersKept(conns, conns')
  <2> DEFINE cs == SetState(conns, fd, "CONNECTED")
  <2>1. conns' = cs \/ conns' = MarkForClosing(cs, Target(cs))
    BY <1>2 DEF HandshakeDone, AfterSend
  <2>2. cs \in [Fds -> Conn] /\ WorkersKept(conns, cs)
    BY TableTypes, TableKeeps DEF ConnState
  <2> HIDE DEF cs
  <2>3. \A F : WorkersKept(cs, MarkForClosing(cs, F))
    BY <2>2, TableKeeps
  <2> QED
    BY <2>1, <2>2, <2>3, WorkersKeptTransitive
<1>3. ASSUME NEW fd \in Fds, HandshakeFails(fd)
      PROVE  WorkersKept(conns, conns')
  <2> DEFINE c0 == SetState(conns, fd, "ERROR")
             cs == MarkForClosing(c0, {fd})
  <2>1. conns' = cs \/ OnPoolError(cs)
    BY <1>3 DEF HandshakeFails
  <2>2. c0 \in [Fds -> Conn] /\ WorkersKept(conns, c0)
    BY TableTypes, TableKeeps DEF ConnState
  <2> HIDE DEF c0
  <2>3. cs \in [Fds -> Conn] /\ WorkersKept(c0, cs)
    BY <2>2, TableTypes, TableKeeps
  <2> HIDE DEF cs
  <2>4. WorkersKept(conns, cs)
    BY <2>2, <2>3, WorkersKeptTransitive
  <2>5. CASE OnPoolError(cs)
    BY <2>3, <2>4, <2>5, PoolErrorKeepsWorkers, WorkersKeptTransitive
  <2> QED
    BY <2>1, <2>4, <2>5
<1>4. ASSUME NEW id, NEW r, NEW j, NEW F, HandleResponse(id, r, j, F)
      PROVE  WorkersKept(conns, conns')
  <2>1. CASE OnPoolError(conns)
    BY <2>1, PoolErrorKeepsWorkers
  <2>2. CASE UNCHANGED conns \/ PassJobOn(F)
    BY <1>s, <2>2, TableKeeps DEF PassJobOn
  <2> QED
    BY <1>4, <2>1, <2>2 DEF HandleResponse, LoginWithJob, LoginStatusOk
<1>5. ASSUME NEW fd \in Fds, NEW j, NEW F,
             \/ JobPushed(fd, j, F) \/ JobCutShort(fd, j) \/ PoolLineIgnored(fd)
      PROVE  WorkersKept(conns, conns')
  BY <1>5, <1>s, TableKeeps DEF JobPushed, JobCutShort, PoolLineIgnored, PassJobOn
<1> QED
  BY <1>1, <1>2, <1>3, <1>4, <1>5
     DEF PoolHandler, AnswerLogin, PushJob, LoginReply, ShareReply

\* AdmittedWorkers is inductive once the worker ids are typed.
AdmissionInv == worker_id \in [Fds -> Workers \cup {NoWorker}] /\ AdmittedWorkers

LEMMA AdmissionKept ==
  ASSUME AdmissionInv, WorkersKept(conns, conns'),
         UNCHANGED <<registered, authorized, worker_id>>, UNCHANGED admitted
  PROVE  AdmissionInv'
BY DEF AdmissionInv, AdmittedWorkers, WorkersKept, ConnFds

LEMMA VerdictKeepsAdmission ==
  ASSUME conns \in [Fds -> Conn], AdmissionInv, NEW fd \in Fds, NEW w \in Workers,
         NEW F, NEW method, Request(fd, method), Admit(fd, w, F),
         worker_id' = [worker_id EXCEPT ![fd] = w], UNCHANGED registered
  PROVE  AdmissionInv'
<1>1. fd \in registered
  BY DEF Request
<1>2. worker_id' \in [Fds -> Workers \cup {NoWorker}]
  BY DEF AdmissionInv
<1>3. CASE is_worker_allowed(w) /\ conns' = MarkForClosing(conns, F)
           /\ authorized' = authorized \cup {fd} /\ admitted' = admitted \cup {fd}
  <2>1. WorkersKept(conns, conns')
    BY <1>3, TableKeeps
  <2> QED
    BY <1>1, <1>2, <1>3, <2>1
       DEF AdmissionInv, AdmittedWorkers, WorkersKept, ConnFds, is_worker_allowed
<1>4. CASE conns' = MarkForClosing(MarkForClosing(conns, {fd}), F)
           /\ UNCHANGED <<authorized, admitted>>
  <2>1. conns' = MarkForClosing(conns, {fd} \cup F)
    BY <1>4, MarkTwice
  <2>2. WorkersKept(conns, conns') /\ conns'[fd].closing
    BY <2>1, TableKeeps DEF MarkForClosing, Conn
  <2> QED
    BY <1>1, <1>2, <1>4, <2>2
       DEF AdmissionInv, AdmittedWorkers, WorkersKept, ConnFds, is_worker_allowed
<1> QED
  BY <1>3, <1>4 DEF Admit, SendLines

LEMMA AcceptKeepsAdmission ==
  ASSUME conns \in [Fds -> Conn], AdmissionInv, NEW fd \in Fds, NEW F,
         AcceptWorker(fd, F)
  PROVE  AdmissionInv'
<1> DEFINE cs == AddConnection(conns, fd, "WORKER", "CONNECTED")
<1>1. conns' = MarkForClosing(cs, F)
  BY DEF AcceptWorker, SendLines
<1>t. "WORKER" \in ConnType /\ "CONNECTED" \in ConnState
  BY DEF ConnType, ConnState
<1>2. cs \in [Fds -> Conn] /\ \A g \in Fds \ {fd} : cs[g] = conns[g]
  <2>1. cs \in [Fds -> Conn]
    BY <1>t, TableTypes
  <2>2. \A g \in Fds \ {fd} : cs[g] = conns[g]
    BY DEF AddConnection
  <2> QED
    BY <2>1, <2>2
<1> HIDE DEF cs
<1>3. WorkersKept(cs, conns')
  BY <1>1, <1>2, TableKeeps
<1>4. worker_id' \in [Fds -> Workers \cup {NoWorker}]
      /\ \A g \in Fds \ {fd} : worker_id'[g] = worker_id[g]
  BY DEF AcceptWorker, AdmissionInv
<1>5. registered' = registered \cup {fd} /\ authorized' = authorized \ {fd}
      /\ admitted' = admitted
  BY DEF AcceptWorker
<1>6. ASSUME NEW g \in Fds \ {fd}, conns'[g].type = "WORKER"
      PROVE  /\ g \in registered
             /\ g \in authorized =>
                  /\ g \in admitted
                  /\ is_worker_allowed(worker_id[g]) \/ conns'[g].closing
  <2>1. conns[g].type = "WORKER" /\ (conns[g].closing => conns'[g].closing)
    BY <1>2, <1>3, <1>6 DEF WorkersKept
  <2> QED
    BY <2>1 DEF AdmissionInv, AdmittedWorkers, ConnFds
<1>7. AdmittedWorkers'
  <2> SUFFICES ASSUME NEW g \in Fds, conns'[g].type = "WORKER"
               PROVE  /\ g \in registered'
                      /\ g \in authorized' =>
                           /\ g \in admitted'
                           /\ is_worker_allowed(worker_id'[g]) \/ conns'[g].closing
    BY DEF AdmittedWorkers, ConnFds, is_worker_allowed
  <2>1. CASE g = fd
    BY <1>5, <2>1
  <2>2. CASE g # fd
    <3>1. /\ g \in registered
          /\ g \in authorized =>
               /\ g \in admitted
               /\ is_worker_allowed(worker_id[g]) \/ conns'[g].closing
      BY <1>6, <2>2
    <3>2. worker_id'[g] = worker_id[g]
      BY <1>4, <2>2
    <3>3. g \in registered'
      BY <1>5, <3>1
    <3>4. g \in authorized' => g \in authorized
      BY <1>5
    <3>5. g \in admitted => g \in admitted'
      BY <1>5
    <3>6. is_worker_allowed(worker_id[g]) => is_worker_allowed(worker_id'[g])
      BY <3>2 DEF is_worker_allowed
    <3>7. ASSUME g \in authorized' PROVE g \in admitted'
      BY <3>1, <3>4, <3>5, <3>7
    <3>8. ASSUME g \in authorized'
          PROVE  is_worker_allowed(worker_id'[g]) \/ conns'[g].closing
      BY <3>1, <3>4, <3>6, <3>8
    <3> QED
      BY <3>3, <3>7, <3>8
  <2> QED
    BY <2>1, <2>2
<1> QED
  BY <1>4, <1>7 DEF AdmissionInv

LEMMA AdmissionStep == PoolTypeOK /\ AdmissionInv /\ [ProxyNext]_proxyVars => AdmissionInv'
<1> SUFFICES ASSUME PoolTypeOK, AdmissionInv, [ProxyNext]_proxyVars PROVE AdmissionInv'
  OBVIOUS
<1>d. ready \in SUBSET Fds /\ login_due \in SUBSET Fds
  BY DEF PoolTypeOK, LoopTypeOK
<1>t. conns \in [Fds -> Conn]
  BY DEF PoolTypeOK, LoopTypeOK
<1>s. ASSUME UNCHANGED conns PROVE WorkersKept(conns, conns')
  BY <1>s DEF WorkersKept
<1>1. CASE LoopTurns
  <2>1. WorkersKept(conns, conns')
    BY <1>1, <1>s, <1>t, TableKeeps
       DEF LoopTurns, LoopStep, Poll, Hangup, ReadFails, HandlerDone, NoAccept, TimeoutsDone
  <2> QED
    BY <1>1, <2>1, AdmissionKept DEF LoopTurns, workerVars, tableVars
<1>2. CASE Cleanup
  <2>1. conns' = EraseClosed(conns) /\ admitted' = admitted \ ClosingFds(conns)
        /\ UNCHANGED <<registered, authorized, worker_id>>
    BY <1>2 DEF Cleanup, PoolCleanup, CleanupClosed, tableVars
  <2>2. \A g \in Fds : conns'[g].type = "WORKER" =>
          conns'[g] = conns[g] /\ g \notin ClosingFds(conns)
    BY <1>t, <2>1 DEF EraseClosed, ClosingFds, NoConn
  <2> QED
    BY <2>1, <2>2 DEF AdmissionInv, AdmittedWorkers, ConnFds
<1>3. CASE PoolHandler
  <2>1. UNCHANGED <<registered, authorized, worker_id>> /\ UNCHANGED admitted
    BY <1>3 DEF PoolHandler, AnswerLogin, PushJob, SendJob, workerVars, tableVars
  <2> QED
    BY <1>t, <1>d, <1>3, <2>1, PoolHandlerKeepsWorkers, AdmissionKept
<1>4. CASE WorkerHandler
  <2>1. ASSUME NEW fd \in Fds, NEW F, AcceptWorker(fd, F)
        PROVE  AdmissionInv'
    BY <1>t, <2>1, AcceptKeepsAdmission
  <2>2. ASSUME NEW fd \in Fds, NEW F, Subscribe(fd, F)
        PROVE  AdmissionInv'
    <3>1. WorkersKept(conns, conns')
      BY <1>t, <2>2, TableKeeps DEF Subscribe, SendLines
    <3> QED
      BY <2>2, <3>1, AdmissionKept DEF Subscribe
  <2>3. ASSUME NEW fd \in Fds, NEW w \in Workers, NEW F,
               Authorize(fd, w, F) \/ Login(fd, w, F)
        PROVE  AdmissionInv'
    BY <1>t, <2>3, VerdictKeepsAdmission DEF Authorize, Login
  <2>4. ASSUME NEW fd \in Fds, NEW w, NEW F, NEW out, Submit(fd, w, F, out)
        PROVE  AdmissionInv'
    <3> DEFINE cs == MarkForClosing(conns, F)
    <3>1. cs \in [Fds -> Conn] /\ WorkersKept(conns, cs)
      BY <1>t, TableTypes, TableKeeps
    <3>2. SubmitShare(w, out, cs) /\ UNCHANGED workerVars
      BY <2>4 DEF Submit
    <3> HIDE DEF cs
    <3>3. conns' = cs \/ conns' = MarkForClosing(cs, Target(cs))
      BY <3>2 DEF SubmitShare, AfterSend
    <3>4. WorkersKept(conns, conns')
      BY <3>1, <3>3, TableKeeps, WorkersKeptTransitive
    <3> QED
      BY <3>2, <3>4, AdmissionKept DEF workerVars, tableVars
  <2>5. ASSUME NEW fd \in Fds, WorkerLineIgnored(fd)
        PROVE  AdmissionInv'
    BY <1>s, <2>5, AdmissionKept DEF WorkerLineIgnored, workerVars, tableVars
  <2> QED
    BY <1>4, <1>d, <2>1, <2>2, <2>3, <2>4, <2>5 DEF WorkerHandler
<1>5. CASE UNCHANGED proxyVars
  BY <1>5, <1>s, AdmissionKept DEF proxyVars, vars, loopVars, workerVars, tableVars
<1> QED
  BY <1>1, <1>2, <1>3, <1>4, <1>5 DEF ProxyNext

\* Whatever connections come and go on a descriptor, an open worker connection
\* that counts as authorized was itself admitted by the whitelist.
THEOREM AdmittedWorkersCorrect == ProxySpec => []AdmittedWorkers
<1>1. ProxyInit => AdmissionInv
  <2>1. ASSUME PoolInit PROVE \A fd \in Fds : conns[fd].type # "WORKER"
    BY <2>1 DEF PoolInit, NoConn
  <2> QED
    BY <2>1 DEF ProxyInit, WorkerInit, AdmissionInv, AdmittedWorkers, ConnFds
<1>2. ProxySpec => []PoolTypeOK
  BY ProxyRefinesPoolManager, TypeCorrect, PTL DEF RefinesPoolManager
<1>3. AdmissionInv => AdmittedWorkers
  BY DEF AdmissionInv
<1> QED
  BY <1>1, <1>2, <1>3, AdmissionStep, PTL DEF ProxySpec

-----------------------------------------------------------------------------
(* The job that workers are given.                                          *)

LEMMA JobCopyStep ==
  PoolTypeOK /\ JobCopyWhole /\ [ProxyNext]_proxyVars => JobCopyWhole'
<1> SUFFICES ASSUME PoolTypeOK, JobCopyWhole, [ProxyNext]_proxyVars
             PROVE  JobCopyWhole'
  OBVIOUS
<1>s. ASSUME UNCHANGED w_current_job PROVE JobCopyWhole'
  BY <1>s DEF JobCopyWhole
<1>1. ASSUME NEW fd, NEW j, NEW F, PushJob(fd, j, F)
      PROVE  JobCopyWhole'
  BY <1>1 DEF PushJob, SendJob, FullJob, JobCopyWhole
<1>2. ASSUME NEW fd, NEW r, NEW j, NEW F, AnswerLogin(fd, r, j, F)
      PROVE  JobCopyWhole'
  <2>1. CASE UNCHANGED workerVars
    BY <1>s, <2>1 DEF workerVars, jobVars
  <2>2. CASE ~authenticated /\ r \in {"job", "job_no_height"} /\ SendJob(current_job', F)
    <3>1. LoginWithJob(r, j, F)
      BY <1>2, <2>2 DEF AnswerLogin, LoginReply, HandleResponse
    <3>2. current_job'.job_id = current_job'.target
      BY <2>2, <3>1 DEF LoginWithJob, FullJob, PoolTypeOK, Job
    <3> QED
      BY <2>2, <3>2 DEF SendJob, JobCopyWhole
  <2> QED
    BY <1>2, <2>1, <2>2 DEF AnswerLogin
<1> QED
  BY <1>1, <1>2, <1>s
     DEF ProxyNext, LoopTurns, Cleanup, PoolHandler, WorkerHandler, AcceptWorker,
         Subscribe, Authorize, Login, Submit, WorkerLineIgnored, proxyVars,
         workerVars, jobVars

\* Workers never get the blob of one pool message with the target of another,
\* although PoolManager's own job may be left so by a line that fails half-way.
THEOREM JobCopyWholeCorrect == ProxySpec => []JobCopyWhole
<1>1. ProxyInit => JobCopyWhole
  BY DEF ProxyInit, WorkerInit, FullJob, JobCopyWhole
<1>2. ProxySpec => []PoolTypeOK
  BY ProxyRefinesPoolManager, TypeCorrect, PTL DEF RefinesPoolManager
<1> QED
  BY <1>1, <1>2, JobCopyStep, PTL DEF ProxySpec
-----------------------------------------------------------------------------
(* The types of the worker side.                                            *)

LEMMA RepliesKeepTypes ==
  ASSUME WorkerTypeOK, NEW cs, NEW R, NEW F, SendLines(cs, R, F)
  PROVE  ended' \in {"no", "use_after_free"}
BY DEF SendLines, WorkerTypeOK

LEMMA WorkerTypeStep ==
  PoolTypeOK /\ PoolTypeOK' /\ WorkerTypeOK /\ [ProxyNext]_proxyVars => WorkerTypeOK'
<1> SUFFICES ASSUME PoolTypeOK, PoolTypeOK', WorkerTypeOK, [ProxyNext]_proxyVars
             PROVE  WorkerTypeOK'
  OBVIOUS
<1>d. ready \in SUBSET Fds /\ login_due \in SUBSET Fds
  BY DEF PoolTypeOK, LoopTypeOK
<1>w. \A t : ConnFds(conns, t) \in SUBSET Fds
  BY DEF ConnFds
<1>s. ASSUME UNCHANGED workerVars PROVE WorkerTypeOK'
  BY <1>s DEF WorkerTypeOK, workerVars, tableVars, jobVars
<1>j. ASSUME NEW j \in Job, NEW F, SendJob(j, F) PROVE WorkerTypeOK'
  BY <1>j, <1>w, RepliesKeepTypes DEF SendJob, WorkerTypeOK, tableVars
<1>1. CASE LoopTurns
  BY <1>1, <1>s DEF LoopTurns
<1>2. CASE Cleanup
  BY <1>2 DEF Cleanup, WorkerTypeOK, tableVars
<1>3. CASE PoolHandler
  <2>1. ASSUME NEW fd \in Fds, NEW j \in JobField, NEW F, PushJob(fd, j, F)
        PROVE  WorkerTypeOK'
    BY <1>j, <2>1 DEF PushJob, FullJob, Job
  <2>2. ASSUME NEW fd, NEW r, NEW j, NEW F, AnswerLogin(fd, r, j, F)
        PROVE  WorkerTypeOK'
    BY <1>j, <1>s, <2>2 DEF AnswerLogin, PoolTypeOK
  <2> QED
    BY <1>3, <1>d, <1>s, <2>1, <2>2 DEF PoolHandler
<1>4. CASE WorkerHandler
  <2>1. ASSUME NEW fd \in Fds, NEW F, AcceptWorker(fd, F)
        PROVE  WorkerTypeOK'
    <3>1. ended' \in {"no", "use_after_free"}
      BY <2>1, RepliesKeepTypes DEF AcceptWorker
    <3> QED
      BY <1>w, <2>1, <3>1 DEF AcceptWorker, SendAgain, WorkerTypeOK
  <2>2. ASSUME NEW fd \in Fds, NEW F, Subscribe(fd, F)
        PROVE  WorkerTypeOK'
    <3>1. ended' \in {"no", "use_after_free"}
      BY <2>2, RepliesKeepTypes DEF Subscribe
    <3> QED
      BY <1>w, <2>2, <3>1 DEF Subscribe, Request, SendAgain, WorkerTypeOK
  <2>3. ASSUME NEW fd \in Fds, NEW w \in Workers, NEW F, Authorize(fd, w, F) \/ Login(fd, w, F)
        PROVE  WorkerTypeOK'
    <3>1. /\ ended' \in {"no", "use_after_free"}
          /\ authorized' \in {authorized, authorized \cup {fd}}
          /\ admitted' \in {admitted, admitted \cup {fd}}
      BY <2>3, RepliesKeepTypes DEF Authorize, Login, Admit
    <3>2. /\ subscribed' \in {subscribed, subscribed \cup {fd}}
          /\ offered' \in {offered, offered \cup {fd}}
          /\ passed_over' \in SUBSET (passed_over \cup {fd})
          /\ UNCHANGED <<registered, w_current_job, w_has_job>>
      BY <2>3 DEF Authorize, Login
    <3>3. fd \in registered /\ worker_id' = [worker_id EXCEPT ![fd] = w]
      BY <2>3 DEF Authorize, Login, Request
    <3> QED
      BY <3>1, <3>2, <3>3 DEF WorkerTypeOK
  <2> QED
    BY <1>4, <1>d, <1>s, <2>1, <2>2, <2>3 DEF WorkerHandler, Submit, WorkerLineIgnored
<1>5. CASE UNCHANGED proxyVars
  BY <1>5, <1>s DEF proxyVars
<1> QED
  BY <1>1, <1>2, <1>3, <1>4, <1>5 DEF ProxyNext

\* Both sides keep their types: the tables of the workers stay within their keys,
\* whatever connections the loop destroys behind them.
THEOREM ProxyTypeCorrect == ProxySpec => []ProxyTypeOK
<1>1. ProxyInit => WorkerTypeOK
  <2> SUFFICES ASSUME WorkerInit PROVE WorkerTypeOK
    BY DEF ProxyInit
  <2>1. worker_id \in [Fds -> Workers \cup {NoWorker}]
    BY DEF WorkerInit
  <2>2. w_current_job \in Job
    BY DEF WorkerInit, FullJob, Job, JobField
  <2>3. /\ registered = {} /\ subscribed = {} /\ authorized = {} /\ offered = {}
        /\ passed_over = {} /\ admitted = {} /\ ended = "no"
    BY DEF WorkerInit
  <2>4. w_has_job \in BOOLEAN
    BY DEF WorkerInit
  <2> QED
    BY <2>1, <2>2, <2>3, <2>4 DEF WorkerTypeOK
<1>2. ProxySpec => []PoolTypeOK
  BY ProxyRefinesPoolManager, TypeCorrect, PTL DEF RefinesPoolManager
<1>3. PoolTypeOK /\ WorkerTypeOK => ProxyTypeOK
  BY DEF ProxyTypeOK
<1> QED
  BY <1>1, <1>2, <1>3, WorkerTypeStep, PTL DEF ProxySpec

-----------------------------------------------------------------------------
(* Jobs reach the workers that may mine.                                    *)

\* Only accept_worker opens worker connections.
LEMMA WorkersOnlyAccepted ==
  ASSUME PoolTypeOK, [ProxyNext]_proxyVars, \A fd \in Fds : \A F : ~AcceptWorker(fd, F)
  PROVE  WorkersKept(conns, conns')
<1>d. ready \in SUBSET Fds /\ login_due \in SUBSET Fds
  BY DEF PoolTypeOK, LoopTypeOK
<1>t. conns \in [Fds -> Conn]
  BY DEF PoolTypeOK, LoopTypeOK
<1>s. ASSUME UNCHANGED conns PROVE WorkersKept(conns, conns')
  BY <1>s DEF WorkersKept
<1>1. CASE LoopTurns
  BY <1>1, <1>s, <1>t, TableKeeps
     DEF LoopTurns, LoopStep, Poll, Hangup, ReadFails, HandlerDone, NoAccept, TimeoutsDone
<1>2. CASE Cleanup
  BY <1>2, <1>t DEF Cleanup, PoolCleanup, CleanupClosed, EraseClosed, NoConn, WorkersKept
<1>3. CASE PoolHandler
  BY <1>t, <1>d, <1>3, PoolHandlerKeepsWorkers
<1>4. CASE WorkerHandler
  <2>1. ASSUME NEW fd \in Fds, NEW F, Subscribe(fd, F)
        PROVE  WorkersKept(conns, conns')
    BY <1>t, <2>1, TableKeeps DEF Subscribe, SendLines
  <2>2. ASSUME NEW fd \in Fds, NEW w, NEW F, Admit(fd, w, F)
        PROVE  WorkersKept(conns, conns')
    <3>1. conns' = MarkForClosing(conns, F) \/ conns' = MarkForClosing(conns, {fd} \cup F)
      BY <2>2, MarkTwice DEF Admit, SendLines
    <3> QED
      BY <1>t, <3>1, TableKeeps
  <2>3. ASSUME NEW fd \in Fds, NEW w, NEW F, NEW out, Submit(fd, w, F, out)
        PROVE  WorkersKept(conns, conns')
    <3> DEFINE cs == MarkForClosing(conns, F)
    <3>1. cs \in [Fds -> Conn] /\ WorkersKept(conns, cs)
      BY <1>t, TableTypes, TableKeeps
    <3>2. SubmitShare(w, out, cs)
      BY <2>3 DEF Submit
    <3> HIDE DEF cs
    <3>3. conns' = cs \/ conns' = MarkForClosing(cs, Target(cs))
      BY <3>2 DEF SubmitShare, AfterSend
    <3> QED
      BY <3>1, <3>3, TableKeeps, WorkersKeptTransitive
  <2> QED
    BY <1>4, <1>d, <1>s, <2>1, <2>2, <2>3 DEF WorkerHandler, Authorize, Login, WorkerLineIgnored
<1>5. CASE UNCHANGED proxyVars
  BY <1>5, <1>s DEF proxyVars, vars, loopVars
<1> QED
  BY <1>1, <1>2, <1>3, <1>4, <1>5 DEF ProxyNext

\* A worker that stays open, and had nothing or was served, is still served.
LEMMA ServedStays ==
  ASSUME JobsReachMiners, WorkersKept(conns, conns'), UNCHANGED w_has_job,
         UNCHANGED <<subscribed, authorized>>,
         \A g \in Fds : conns'[g].type = "WORKER" /\ g \in offered \cup passed_over
                          => g \in offered' \cup passed_over'
  PROVE  JobsReachMiners'
BY DEF JobsReachMiners, WorkersKept, ConnFds, Recipients

LEMMA NewJobReaches ==
  ASSUME WorkersKept(conns, conns'), NEW j, NEW F, SendJob(j, F)
  PROVE  JobsReachMiners'
BY DEF JobsReachMiners, WorkersKept, ConnFds, Recipients, SendJob, tableVars

LEMMA JobsReachStep ==
  PoolTypeOK /\ JobsReachMiners /\ [ProxyNext]_proxyVars => JobsReachMiners'
<1> SUFFICES ASSUME PoolTypeOK, JobsReachMiners, [ProxyNext]_proxyVars
             PROVE  JobsReachMiners'
  OBVIOUS
<1>t. conns \in [Fds -> Conn] /\ ready \in SUBSET Fds /\ login_due \in SUBSET Fds
  BY DEF PoolTypeOK, LoopTypeOK
<1>a. ASSUME NEW fd \in Fds, NEW F, AcceptWorker(fd, F)
      PROVE  JobsReachMiners'
  <2>1. \A g \in Fds \ {fd} : conns'[g].type = "WORKER" => conns[g].type = "WORKER"
    BY <1>a, <1>t DEF AcceptWorker, SendLines, MarkForClosing, AddConnection, Conn
  <2>2. /\ subscribed' = subscribed \ {fd} /\ authorized' = authorized \ {fd}
        /\ UNCHANGED w_has_job
        /\ w_has_job => offered' = offered \cup ((subscribed' \cap authorized')
                                                   \cap ConnFds(conns, "WORKER"))
    BY <1>a DEF AcceptWorker, SendAgain, Recipients
  <2> QED
    BY <2>1, <2>2 DEF JobsReachMiners, ConnFds, Recipients
<1>b. CASE \A fd \in Fds : \A F : ~AcceptWorker(fd, F)
  <2>k. WorkersKept(conns, conns')
    BY <1>b, WorkersOnlyAccepted
  <2>s. ASSUME UNCHANGED workerVars PROVE JobsReachMiners'
    BY <2>k, <2>s, ServedStays DEF workerVars, tableVars, jobVars
  <2>1. CASE LoopTurns
    BY <2>1, <2>s DEF LoopTurns
  <2>2. CASE Cleanup
    <3>1. \A g \in Fds : conns'[g].type = "WORKER" => g \notin ClosingFds(conns)
      BY <2>2 DEF Cleanup, PoolCleanup, CleanupClosed, EraseClosed, NoConn, ClosingFds
    <3>2. UNCHANGED w_has_job /\ UNCHANGED <<subscribed, authorized>>
      BY <2>2 DEF Cleanup, tableVars
    <3> QED
      BY <2>2, <2>k, <3>1, <3>2, ServedStays DEF Cleanup
  <2>3. CASE PoolHandler
    <3>1. UNCHANGED workerVars \/ \E j, F : SendJob(j, F)
      BY <2>3, <1>t DEF PoolHandler, PushJob, AnswerLogin
    <3> QED
      BY <2>k, <2>s, <3>1, NewJobReaches
  <2>4. ASSUME NEW fd \in Fds, NEW F, Subscribe(fd, F)
        PROVE  JobsReachMiners'
    <3>1. /\ UNCHANGED w_has_job /\ UNCHANGED authorized
          /\ w_has_job => offered' = offered \cup ((subscribed' \cap authorized')
                                                     \cap ConnFds(conns, "WORKER"))
      BY <2>4 DEF Subscribe, SendAgain, Recipients
    <3> QED
      BY <2>k, <3>1 DEF JobsReachMiners, WorkersKept, ConnFds, Recipients
  <2>5. ASSUME NEW fd \in Fds, NEW w, NEW F, Authorize(fd, w, F)
        PROVE  JobsReachMiners'
    <3>1. /\ is_worker_allowed(w) /\ authorized' = authorized \cup {fd}
          \/ UNCHANGED authorized
      BY <2>5 DEF Authorize, Admit
    <3>2. UNCHANGED w_has_job /\ UNCHANGED <<subscribed, offered>>
          /\ passed_over \subseteq passed_over'
      BY <2>5 DEF Authorize
    <3>3. w_has_job /\ is_worker_allowed(w) /\ fd \in subscribed
            => fd \in offered' \cup passed_over'
      BY <2>5 DEF Authorize
    <3> QED
      BY <2>k, <3>1, <3>2, <3>3 DEF JobsReachMiners, WorkersKept, ConnFds, Recipients
  <2>6. ASSUME NEW fd \in Fds, NEW w, NEW F, Login(fd, w, F)
        PROVE  JobsReachMiners'
    <3>1. subscribed' \subseteq subscribed \cup {fd} /\ authorized' \subseteq authorized \cup {fd}
      BY <2>6 DEF Login, Admit
    <3>2. UNCHANGED w_has_job /\ (w_has_job => offered' = offered \cup {fd})
          /\ passed_over' = passed_over \ {fd}
      BY <2>6 DEF Login
    <3> QED
      BY <2>k, <3>1, <3>2 DEF JobsReachMiners, WorkersKept, ConnFds, Recipients
  <2>7. CASE WorkerHandler
    BY <1>b, <1>t, <2>7, <2>s, <2>4, <2>5, <2>6 DEF WorkerHandler, Submit, WorkerLineIgnored
  <2>8. CASE UNCHANGED proxyVars
    BY <2>8, <2>s DEF proxyVars
  <2> QED
    BY <2>1, <2>2, <2>3, <2>7, <2>8 DEF ProxyNext
<1> QED
  BY <1>a, <1>b

\* Whoever may mine has been sent the current job, or came to mine by an
\* authorize while it was there.
THEOREM JobsReachMinersCorrect == ProxySpec => []JobsReachMiners
<1>1. ProxyInit => JobsReachMiners
  BY DEF ProxyInit, WorkerInit, JobsReachMiners
<1>2. ProxySpec => []PoolTypeOK
  BY ProxyRefinesPoolManager, TypeCorrect, PTL DEF RefinesPoolManager
<1> QED
  BY <1>1, <1>2, JobsReachStep, PTL DEF ProxySpec
-----------------------------------------------------------------------------
(* What is written through a pointer that dangles.                          *)

\* The keys a call writes to besides that of an open connection could mine.
LEMMA LinesDangle ==
  ASSUME NEW cs, NEW R, NEW F, SendLines(cs, R, F),
         R \ ConnFds(cs, "WORKER") \subseteq Dangling,
         ended = "no", ended' = "use_after_free"
  PROVE  Dangling # {}
BY DEF SendLines

LEMMA DangleStep ==
  ASSUME PoolTypeOK, [ProxyNext]_proxyVars, ended = "no", ended' = "use_after_free"
  PROVE  Dangling # {}
<1>d. ready \in SUBSET Fds /\ conns \in [Fds -> Conn]
  BY DEF PoolTypeOK, LoopTypeOK
<1>u. ~ UNCHANGED ended
  OBVIOUS
<1>1. ASSUME NEW j, NEW F, SendJob(j, F) PROVE Dangling # {}
  BY <1>1, LinesDangle DEF SendJob, Recipients, Dangling
<1>2. ASSUME NEW fd \in Fds, NEW F, AcceptWorker(fd, F) PROVE Dangling # {}
  <2> DEFINE cs == AddConnection(conns, fd, "WORKER", "CONNECTED")
  <2>1. PICK R : /\ SendLines(cs, R, F)
                 /\ R \subseteq (subscribed \cap authorized) \ {fd}
    BY <1>2 DEF AcceptWorker, Recipients
  <2>2. \A g \in Fds \ {fd} : cs[g] = conns[g]
    BY <1>d DEF AddConnection
  <2> HIDE DEF cs
  <2>3. R \ ConnFds(cs, "WORKER") \subseteq Dangling
    BY <2>1, <2>2 DEF ConnFds, Dangling
  <2> QED
    BY <2>1, <2>3, LinesDangle
<1>3. ASSUME NEW fd \in Fds, NEW F, Subscribe(fd, F) PROVE Dangling # {}
  <2>1. fd \in ConnFds(conns, "WORKER")
    BY <1>3 DEF Subscribe, Request, ConnFds
  <2>2. PICK R : /\ SendLines(conns, {fd} \cup R, F)
                 /\ R \subseteq (subscribed \cup {fd}) \cap authorized
    BY <1>3 DEF Subscribe, Recipients
  <2> QED
    BY <2>1, <2>2, LinesDangle DEF Dangling
<1>4. ASSUME NEW fd \in Fds, NEW w, NEW F, Authorize(fd, w, F) \/ Login(fd, w, F)
      PROVE  Dangling # {}
  <2>1. conns[fd].type = "WORKER" /\ Admit(fd, w, F)
    BY <1>4 DEF Authorize, Login, Request
  <2>2. PICK cs : /\ SendLines(cs, {fd}, F)
                  /\ cs = conns \/ cs = MarkForClosing(conns, {fd})
    BY <2>1 DEF Admit
  <2>3. fd \in ConnFds(cs, "WORKER")
    BY <1>d, <2>1, <2>2, TableFields DEF ConnFds
  <2> QED
    BY <2>2, <2>3, LinesDangle
<1> QED
  BY <1>d, <1>u, <1>1, <1>2, <1>3, <1>4
     DEF ProxyNext, LoopTurns, Cleanup, PoolHandler, WorkerHandler, PushJob, AnswerLogin,
         Submit, WorkerLineIgnored, proxyVars, workerVars

\* The only calls that can use a destroyed connection are those that pass a job on
\* to a worker that could mine.
THEOREM OnlyJobsDangleCorrect == ProxySpec => OnlyJobsDangle
<1>1. PoolTypeOK /\ [ProxyNext]_proxyVars
        => [ended = "no" /\ ended' = "use_after_free" => Dangling # {}]_proxyVars
  BY DangleStep
<1>2. ProxySpec => []PoolTypeOK
  BY ProxyRefinesPoolManager, TypeCorrect, PTL DEF RefinesPoolManager
<1> QED
  BY <1>1, <1>2, PTL DEF ProxySpec, OnlyJobsDangle

-----------------------------------------------------------------------------
(* Who marks whose connection for closing.                                  *)

\* The marks of a step are G's, on top of the table cs.
MarksOnly(cs, G) == \A fd \in Fds : conns'[fd].closing => cs[fd].closing \/ fd \in G

LEMMA MarkMarks ==
  ASSUME NEW cs, NEW G
  PROVE  \A fd \in Fds : MarkForClosing(cs, G)[fd].closing => cs[fd].closing \/ fd \in G
BY DEF MarkForClosing

LEMMA StateMarks ==
  ASSUME NEW cs \in [Fds -> Conn], NEW fd \in Fds, NEW s, NEW g \in Fds
  PROVE  SetState(cs, fd, s)[g].closing = cs[g].closing
BY DEF SetState, Conn

\* As long as nothing dangles, lines go to their recipients and to nobody else.
LEMMA LinesMark ==
  ASSUME NEW cs, NEW R, NEW F, SendLines(cs, R, F), R \subseteq ConnFds(cs, "WORKER")
  PROVE  MarksOnly(cs, R)
<1>1. F \subseteq R /\ conns' = MarkForClosing(cs, F)
  BY DEF SendLines
<1> QED
  BY <1>1, MarkMarks DEF MarksOnly

LEMMA JobMarks ==
  ASSUME Dangling = {}, NEW j, NEW F, SendJob(j, F)
  PROVE  \A fd \in Fds : conns'[fd].closing => conns[fd].closing \/ GivenAJob(fd)
<1> DEFINE R == subscribed \cap authorized
<1>1. R \subseteq ConnFds(conns, "WORKER")
  BY DEF Dangling
<1>2. MarksOnly(conns, R)
  BY <1>1, LinesMark DEF SendJob, Recipients
<1>3. w_has_job'
  BY DEF SendJob
<1> QED
  BY <1>1, <1>2, <1>3 DEF MarksOnly, GivenAJob

\* A connection that is tried is new, and not marked.
LEMMA TryMarks ==
  ASSUME NEW cs \in [Fds -> Conn], NEW i, TryConnectPool(i, cs)
  PROVE  MarksOnly(cs, {})
BY DEF TryConnectPool, AddConnection, MarksOnly

LEMMA PoolErrorMarks ==
  ASSUME NEW cs \in [Fds -> Conn], OnPoolError(cs)
  PROVE  MarksOnly(cs, {})
BY TryMarks DEF OnPoolError, MarksOnly

LEMMA RequestMarks ==
  ASSUME NEW cs, NEW out, conns' = AfterSend(cs, out)
  PROVE  MarksOnly(cs, {pool_fd})
<1>1. CASE conns' = cs
  BY <1>1 DEF MarksOnly
<1>2. CASE conns' = MarkForClosing(cs, Target(cs))
  BY <1>2, MarkMarks DEF MarksOnly, Target
<1> QED
  BY <1>1, <1>2 DEF AfterSend

ForeignMark(fd) ==
  /\ ~conns[fd].closing /\ conns'[fd].closing
  /\ ~(OwnHandler(fd) \/ GivenAJob(fd) \/ Requested(fd))

\* A step leaves no foreign mark if every mark it adds is its own handler's.
LEMMA OwnMarks ==
  ASSUME NEW fd \in Fds, cur' = fd, MarksOnly(conns, {fd})
  PROVE  \A g \in Fds : ~ForeignMark(g)
BY DEF MarksOnly, ForeignMark, OwnHandler

LEMMA PoolHandlerMarks ==
  ASSUME PoolTypeOK, Dangling = {}, PoolHandler
  PROVE  \A g \in Fds : ~ForeignMark(g)
<1>t. conns \in [Fds -> Conn] /\ ready \in SUBSET Fds /\ next_id \in Nat
  BY DEF PoolTypeOK, LoopTypeOK
<1>s. ASSUME MarksOnly(conns, {}) PROVE \A g \in Fds : ~ForeignMark(g)
  BY <1>s DEF MarksOnly, ForeignMark
<1>u. UNCHANGED conns => MarksOnly(conns, {})
  BY DEF MarksOnly
<1>j. ASSUME NEW j, NEW F, SendJob(j, F) PROVE \A g \in Fds : ~ForeignMark(g)
  BY <1>j, JobMarks DEF ForeignMark
<1>1. CASE Reconnect
  BY <1>1, <1>t, <1>s, TryMarks DEF Reconnect
<1>2. ASSUME NEW fd \in Fds, NEW out, HandshakeDone(fd, out)
      PROVE  \A g \in Fds : ~ForeignMark(g)
  <2> DEFINE cs == SetState(conns, fd, "CONNECTED")
  <2>1. MarksOnly(cs, {pool_fd}) /\ next_id' = next_id + 1
    BY <1>2, RequestMarks DEF HandshakeDone
  <2>2. \A g \in Fds : cs[g].closing = conns[g].closing
    BY <1>t, StateMarks
  <2> QED
    BY <1>t, <2>1, <2>2 DEF MarksOnly, ForeignMark, Requested
<1>3. ASSUME NEW fd \in Fds, HandshakeFails(fd)
      PROVE  \A g \in Fds : ~ForeignMark(g)
  <2> DEFINE c0 == SetState(conns, fd, "ERROR")
             cs == MarkForClosing(c0, {fd})
  <2>1. cur' = fd /\ (conns' = cs \/ OnPoolError(cs))
    BY <1>3 DEF HandshakeFails, StayIn
  <2>2. c0 \in [Fds -> Conn] /\ \A g \in Fds : c0[g].closing = conns[g].closing
    <3>1. c0 \in [Fds -> Conn]
      BY <1>t, TableTypes DEF ConnState
    <3>2. \A g \in Fds : c0[g].closing = conns[g].closing
      BY <1>t, StateMarks
    <3> QED
      BY <3>1, <3>2
  <2> HIDE DEF c0
  <2>3. cs \in [Fds -> Conn] /\ \A g \in Fds : cs[g].closing => c0[g].closing \/ g \in {fd}
    BY <2>2, TableTypes, MarkMarks
  <2> HIDE DEF cs
  <2>4. MarksOnly(cs, {})
    BY <2>1, <2>3, PoolErrorMarks DEF MarksOnly
  <2> QED
    BY <2>1, <2>2, <2>3, <2>4, OwnMarks DEF MarksOnly
<1>4. ASSUME NEW fd, NEW r, NEW j, NEW F, AnswerLogin(fd, r, j, F)
      PROVE  \A g \in Fds : ~ForeignMark(g)
  <2>1. CASE ~authenticated /\ r \in {"job", "job_no_height"}
    BY <1>4, <1>j, <2>1 DEF AnswerLogin
  <2>2. CASE ~(~authenticated /\ r \in {"job", "job_no_height"})
    <3>1. HandleResponse(0, r, j, F)
      BY <1>4 DEF AnswerLogin, LoginReply
    <3>2. CASE OnPoolError(conns)
      BY <1>t, <1>s, <3>2, PoolErrorMarks
    <3> QED
      BY <1>s, <1>u, <2>2, <3>1, <3>2 DEF HandleResponse, LoginWithJob, LoginStatusOk
  <2> QED
    BY <2>1, <2>2
<1>5. ASSUME NEW s \in share_due, NEW r, ShareReply(s[1], s[2], s[3], r)
      PROVE  \A g \in Fds : ~ForeignMark(g)
  <2>1. PICK seen : HandleResponse(seen, r, NoJob, {})
    BY <1>5 DEF ShareReply
  <2>2. r \notin JobReply
    BY <1>5 DEF ShareReply, JobReply
  <2>3. CASE OnPoolError(conns)
    BY <1>t, <1>s, <2>3, PoolErrorMarks
  <2> QED
    BY <1>s, <1>u, <2>1, <2>2, <2>3 DEF HandleResponse, LoginStatusOk
<1>6. ASSUME NEW fd, NEW j, NEW F,
             PushJob(fd, j, F) \/ JobCutShort(fd, j) \/ PoolLineIgnored(fd)
      PROVE  \A g \in Fds : ~ForeignMark(g)
  BY <1>6, <1>s, <1>u, <1>j DEF PushJob, JobCutShort, PoolLineIgnored
<1> QED
  BY <1>t, <1>1, <1>2, <1>3, <1>4, <1>5, <1>6 DEF PoolHandler

LEMMA WorkerHandlerMarks ==
  ASSUME PoolTypeOK, Dangling = {}, WorkerHandler
  PROVE  \A g \in Fds : ~ForeignMark(g)
<1>t. conns \in [Fds -> Conn] /\ ready \in SUBSET Fds /\ next_id \in Nat
  BY DEF PoolTypeOK, LoopTypeOK
<1>d. subscribed \cap authorized \subseteq ConnFds(conns, "WORKER")
  BY DEF Dangling
<1>1. ASSUME NEW fd \in Fds, NEW F, AcceptWorker(fd, F)
      PROVE  \A g \in Fds : ~ForeignMark(g)
  <2> DEFINE cs == AddConnection(conns, fd, "WORKER", "CONNECTED")
  <2>1. PICK R : /\ SendLines(cs, R, F)
                 /\ R \subseteq subscribed \cap authorized
                 /\ R # {} => w_has_job
    BY <1>1 DEF AcceptWorker, Recipients
  <2>2. /\ \A g \in Fds : cs[g].closing => conns[g].closing
        /\ \A g \in Fds : conns[g].type = "WORKER" => cs[g].type = "WORKER"
    BY <1>t DEF AddConnection
  <2> HIDE DEF cs
  <2>3. MarksOnly(cs, R)
    BY <1>d, <2>1, <2>2, LinesMark DEF ConnFds
  <2>4. UNCHANGED w_has_job
    BY <1>1 DEF AcceptWorker
  <2> QED
    BY <1>d, <2>1, <2>2, <2>3, <2>4 DEF MarksOnly, ForeignMark, GivenAJob
<1>2. ASSUME NEW fd \in Fds, NEW F, Subscribe(fd, F)
      PROVE  \A g \in Fds : ~ForeignMark(g)
  <2>1. PICK R : /\ SendLines(conns, {fd} \cup R, F)
                 /\ R \subseteq (subscribed \cup {fd}) \cap authorized
                 /\ R # {} => w_has_job
    BY <1>2 DEF Subscribe, Recipients
  <2>2. fd \in ConnFds(conns, "WORKER") /\ cur' = fd /\ UNCHANGED w_has_job
    BY <1>2 DEF Subscribe, Request, ConnFds, StayIn
  <2>3. MarksOnly(conns, {fd} \cup R)
    BY <1>d, <2>1, <2>2, LinesMark
  <2> QED
    BY <1>d, <2>1, <2>2, <2>3 DEF MarksOnly, ForeignMark, GivenAJob, OwnHandler
<1>3. ASSUME NEW fd \in Fds, NEW w, NEW F, Authorize(fd, w, F) \/ Login(fd, w, F)
      PROVE  \A g \in Fds : ~ForeignMark(g)
  <2>1. conns[fd].type = "WORKER" /\ Admit(fd, w, F) /\ cur' = fd
    BY <1>3 DEF Authorize, Login, Request, StayIn
  <2>2. PICK cs : /\ SendLines(cs, {fd}, F)
                  /\ cs = conns \/ cs = MarkForClosing(conns, {fd})
    BY <2>1 DEF Admit
  <2>3. {fd} \subseteq ConnFds(cs, "WORKER")
    BY <1>t, <2>1, <2>2, TableFields DEF ConnFds
  <2>4. MarksOnly(cs, {fd})
    BY <2>2, <2>3, LinesMark
  <2>5. \A g \in Fds : cs[g].closing => conns[g].closing \/ g \in {fd}
    BY <2>2, MarkMarks
  <2> QED
    BY <2>1, <2>4, <2>5, OwnMarks DEF MarksOnly
<1>4. ASSUME NEW fd \in Fds, NEW w, NEW F, NEW out, Submit(fd, w, F, out)
      PROVE  \A g \in Fds : ~ForeignMark(g)
  <2> DEFINE cs == MarkForClosing(conns, F)
  <2>1. SubmitShare(w, out, cs) /\ F \subseteq {fd} /\ cur' = fd
    BY <1>4 DEF Submit, Request, StayIn
  <2>2. \A g \in Fds : cs[g].closing => conns[g].closing \/ g \in {fd}
    BY <2>1, MarkMarks
  <2> HIDE DEF cs
  <2>3. \/ MarksOnly(cs, {pool_fd}) /\ next_id' = next_id + 1
        \/ MarksOnly(cs, {})
    BY <2>1, RequestMarks DEF SubmitShare, MarksOnly
  <2> QED
    BY <1>t, <2>1, <2>2, <2>3 DEF MarksOnly, ForeignMark, Requested, OwnHandler
<1>5. ASSUME NEW fd, WorkerLineIgnored(fd) PROVE \A g \in Fds : ~ForeignMark(g)
  BY <1>5 DEF WorkerLineIgnored, ForeignMark
<1> QED
  BY <1>t, <1>1, <1>2, <1>3, <1>4, <1>5 DEF WorkerHandler

LEMMA LoopMarks ==
  ASSUME PoolTypeOK, LoopTurns \/ Cleanup
  PROVE  \A g \in Fds : ~ForeignMark(g)
<1>t. conns \in [Fds -> Conn]
  BY DEF PoolTypeOK, LoopTypeOK
<1>1. ASSUME NEW fd \in Fds, Hangup(fd) \/ ReadFails(fd)
      PROVE  \A g \in Fds : ~ForeignMark(g)
  <2>1. fd \in ready \ ready' /\ conns' = MarkForClosing(conns, {fd})
    BY <1>1 DEF Hangup, ReadFails, InHandler, LeaveHandler
  <2> QED
    BY <2>1, MarkMarks DEF ForeignMark, OwnHandler
<1>2. CASE UNCHANGED conns
  BY <1>2 DEF ForeignMark
<1>3. CASE Cleanup
  BY <1>3 DEF Cleanup, PoolCleanup, CleanupClosed, EraseClosed, NoConn, ForeignMark
<1> QED
  BY <1>1, <1>2, <1>3
     DEF LoopTurns, LoopStep, Poll, HandlerDone, NoAccept, TimeoutsDone

\* As long as nothing dangles, the pool side closes no worker but one that it could
\* not give a job, and the worker side closes no connection to a pool but the one it
\* could not send a share on.
THEOREM NoForeignMarkCorrect == ProxySpec => NoForeignMark
<1>1. PoolTypeOK /\ [ProxyNext]_proxyVars
        => [Dangling = {} => \A fd \in Fds : ~conns[fd].closing /\ conns'[fd].closing
              => OwnHandler(fd) \/ GivenAJob(fd) \/ Requested(fd)]_proxyVars
  <2> SUFFICES ASSUME PoolTypeOK, ProxyNext, Dangling = {}
               PROVE  \A fd \in Fds : ~ForeignMark(fd)
    BY DEF ForeignMark
  <2>1. CASE UNCHANGED proxyVars
    BY <2>1 DEF proxyVars, vars, loopVars, ForeignMark
  <2> QED
    BY <2>1, LoopMarks, PoolHandlerMarks, WorkerHandlerMarks DEF ProxyNext
<1>2. ProxySpec => []PoolTypeOK
  BY ProxyRefinesPoolManager, TypeCorrect, PTL DEF RefinesPoolManager
<1> QED
  BY <1>1, <1>2, PTL DEF ProxySpec, NoForeignMark

=============================================================================
