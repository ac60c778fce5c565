------------------------- MODULE PoolManager_proofs -------------------------
(***************************************************************************)
(* Machine-checked proofs about PoolManager, for every number of pools,    *)
(* retries, descriptors, workers, jobs and request ids.                    *)
(***************************************************************************)
EXTENDS PoolManager, TLAPS

(* The operators on connection tables return connection tables.            *)
LEMMA TableTypes ==
  ASSUME NEW cs \in [Fds -> Conn]
  PROVE  /\ \A F : MarkForClosing(cs, F) \in [Fds -> Conn]
         /\ EraseClosed(cs) \in [Fds -> Conn]
         /\ \A fd \in Fds, s \in ConnState : SetState(cs, fd, s) \in [Fds -> Conn]
         /\ \A fd \in Fds, t \in ConnType, s \in ConnState :
              AddConnection(cs, fd, t, s) \in [Fds -> Conn]
<1>1. NoConn \in Conn
  BY DEF NoConn, Conn, ConnType, ConnState
<1>2. \A fd \in Fds : [cs[fd] EXCEPT !.closing = TRUE] \in Conn
  BY DEF Conn
<1>3. \A fd \in Fds, s \in ConnState : [cs[fd] EXCEPT !.state = s] \in Conn
  BY DEF Conn
<1>4. \A t \in ConnType, s \in ConnState :
        [type |-> t, state |-> s, closing |-> FALSE] \in Conn
  BY DEF Conn
<1> QED
  BY <1>1, <1>2, <1>3, <1>4
     DEF MarkForClosing, EraseClosed, SetState, AddConnection

(* What marking, erasing, adding and changing state do to one entry.       *)
LEMMA TableFields ==
  ASSUME NEW cs \in [Fds -> Conn], NEW g \in Fds
  PROVE  /\ \A F : /\ MarkForClosing(cs, F)[g].type = cs[g].type
                  /\ MarkForClosing(cs, F)[g].state = cs[g].state
         /\ \A fd \in Fds : \A s :
              /\ SetState(cs, fd, s)[g].type = cs[g].type
              /\ SetState(cs, fd, s)[g].state = IF g = fd THEN s ELSE cs[g].state
         /\ \A fd \in Fds : \A t, s :
              AddConnection(cs, fd, t, s)[g]
                = IF g = fd THEN [type |-> t, state |-> s, closing |-> FALSE]
                            ELSE cs[g]
         /\ EraseClosed(cs)[g] = IF cs[g].closing THEN NoConn ELSE cs[g]
  BY DEF MarkForClosing, SetState, AddConnection, EraseClosed, Conn

-----------------------------------------------------------------------------
(* Type correctness.                                                       *)

LEMMA TryConnectTypes ==
  ASSUME NEW cs \in [Fds -> Conn], NEW i \in PoolIndex,
         pool_fd \in Fds \cup {NoFd},
         TryConnectPool(i, cs)
  PROVE  /\ conns' \in [Fds -> Conn]
         /\ current_pool_index' \in PoolIndex
         /\ pool_fd' \in Fds \cup {NoFd}
         /\ contacted' \in SUBSET PoolIndex
<1>1. CASE \E k \in i..(NumPools - 1), fd \in Fds :
             /\ IsLowestFree(cs, fd)
             /\ conns' = AddConnection(cs, fd, "POOL", "CONNECTING")
             /\ current_pool_index' = k
             /\ contacted' = i..k
             /\ pool_fd' = fd
  <2>1. PICK k \in i..(NumPools - 1), fd \in Fds :
          /\ conns' = AddConnection(cs, fd, "POOL", "CONNECTING")
          /\ current_pool_index' = k
          /\ contacted' = i..k
          /\ pool_fd' = fd
    BY <1>1
  <2>2. conns' \in [Fds -> Conn]
    BY <2>1, TableTypes DEF ConnType, ConnState
  <2>3. k \in PoolIndex /\ i..k \subseteq PoolIndex
    BY PoolAssumption DEF PoolIndex
  <2> QED
    BY <2>1, <2>2, <2>3
<1>2. CASE /\ conns' = cs
           /\ current_pool_index' = NumPools - 1
           /\ contacted' = i..(NumPools - 1)
           /\ UNCHANGED pool_fd
  BY <1>2, PoolAssumption DEF PoolIndex
<1> QED
  BY <1>1, <1>2 DEF TryConnectPool

LEMMA PoolErrorTypes ==
  ASSUME PoolTypeOK, NEW cs \in [Fds -> Conn], OnPoolError(cs)
  PROVE  /\ conns' \in [Fds -> Conn]
         /\ timers' \in Nat
         /\ current_pool_index' \in PoolIndex
         /\ pool_fd' \in Fds \cup {NoFd}
         /\ contacted' \in SUBSET PoolIndex
         /\ reconnect_attempts' \in 0..MaxAttempts
         /\ connected' = FALSE /\ authenticated' = FALSE /\ has_job' = FALSE
<1>1. CASE reconnect_attempts < MaxAttempts
  BY <1>1, PoolAssumption DEF OnPoolError, set_timeout, PoolTypeOK, LoopTypeOK, targetVars
<1>2. CASE reconnect_attempts >= MaxAttempts
  <2>1. (current_pool_index + 1) % NumPools \in PoolIndex
    BY PoolAssumption DEF PoolTypeOK, PoolIndex
  <2>2. /\ TryConnectPool((current_pool_index + 1) % NumPools, cs)
        /\ reconnect_attempts' = 0
        /\ UNCHANGED timers
        /\ connected' = FALSE /\ authenticated' = FALSE /\ has_job' = FALSE
    BY <1>2, PoolAssumption DEF OnPoolError, set_timeout, PoolTypeOK
  <2> QED
    BY <2>1, <2>2, TryConnectTypes, PoolAssumption DEF PoolTypeOK, LoopTypeOK
<1>3. reconnect_attempts < MaxAttempts \/ reconnect_attempts >= MaxAttempts
  BY PoolAssumption DEF PoolTypeOK
<1> QED
  BY <1>1, <1>2, <1>3

LEMMA TypeInit == PoolInit => PoolTypeOK
<1> SUFFICES ASSUME PoolInit PROVE PoolTypeOK
  OBVIOUS
<1>1. conns \in [Fds -> Conn] /\ current_pool_index \in PoolIndex
      /\ contacted \in SUBSET PoolIndex /\ pool_fd \in Fds \cup {NoFd}
  <2>1. NoConn \in Conn /\ [type |-> "POOL", state |-> "CONNECTING",
                            closing |-> FALSE] \in Conn
    BY DEF NoConn, Conn, ConnType, ConnState
  <2>2. 1 \in Fds /\ NumPools - 1 \in PoolIndex
        /\ \A k \in PoolIndex : 0..k \subseteq PoolIndex
    BY MaxFdAssumption, PoolAssumption DEF Fds, PoolIndex
  <2> QED
    BY <2>1, <2>2 DEF PoolInit
<1>2. current_job \in Job
  BY DEF PoolInit, Job, JobField, FullJob
<1>3. LoopTypeOK
  BY <1>1 DEF PoolInit, StartListening, LoopTypeOK, Phases
<1>4. connected \in BOOLEAN /\ authenticated \in BOOLEAN /\ has_job \in BOOLEAN
  BY DEF PoolInit
<1>5. reconnect_attempts \in 0..MaxAttempts /\ next_id \in Nat
  BY PoolAssumption DEF PoolInit
<1>6. /\ share_to_worker \in SUBSET (Nat \X Workers)
      /\ login_due \in SUBSET Fds
      /\ share_due \in SUBSET (Fds \X Nat \X Workers)
  BY DEF PoolInit
<1> QED
  BY <1>1, <1>2, <1>3, <1>4, <1>5, <1>6 DEF PoolTypeOK

LEMMA ResponseTypes ==
  ASSUME PoolTypeOK, NEW id, NEW r \in Reply, NEW j \in JobField, NEW F,
         HandleResponse(id, r, j, F)
  PROVE  /\ conns' \in [Fds -> Conn]
         /\ timers' \in Nat
         /\ current_pool_index' \in PoolIndex
         /\ pool_fd' \in Fds \cup {NoFd}
         /\ contacted' \in SUBSET PoolIndex
         /\ connected' \in BOOLEAN
         /\ authenticated' \in BOOLEAN
         /\ has_job' \in BOOLEAN
         /\ current_job' \in Job
         /\ reconnect_attempts' \in 0..MaxAttempts
         /\ share_to_worker' \in SUBSET (Nat \X Workers)
<1> USE DEF PoolTypeOK, LoopTypeOK
<1>1. CASE LoginWithJob(r, j, F) /\ r \in JobReply /\ UNCHANGED share_to_worker
  <2>1. current_job' \in Job
    BY <1>1 DEF LoginWithJob, JobReply, FullJob, Job
  <2>2. conns' \in [Fds -> Conn]
    BY <1>1, TableTypes DEF LoginWithJob, PassJobOn
  <2>3. reconnect_attempts' \in 0..MaxAttempts
    BY <1>1, PoolAssumption DEF LoginWithJob
  <2>4. connected' \in BOOLEAN /\ authenticated' \in BOOLEAN /\ has_job' \in BOOLEAN
    BY <1>1, Zenon DEF LoginWithJob
  <2>5. /\ UNCHANGED timers /\ UNCHANGED current_pool_index
        /\ UNCHANGED pool_fd /\ UNCHANGED contacted /\ UNCHANGED share_to_worker
    BY <1>1 DEF LoginWithJob, targetVars
  <2> QED
    BY <2>1, <2>2, <2>3, <2>4, <2>5
<1>2. CASE LoginStatusOk /\ UNCHANGED share_to_worker
  BY <1>2, PoolAssumption DEF LoginStatusOk, targetVars
<1>3. CASE OnPoolError(conns) /\ UNCHANGED <<current_job, share_to_worker>>
  BY <1>3, PoolErrorTypes
<1>4. CASE /\ \/ share_to_worker' = {e \in share_to_worker : e[1] # id}
              \/ UNCHANGED share_to_worker
           /\ UNCHANGED <<conns, timers, targetVars, sessionVars, current_job>>
  BY <1>4 DEF targetVars, sessionVars
<1> QED
  BY <1>1, <1>2, <1>3, <1>4 DEF HandleResponse

LEMMA TypeStep == PoolTypeOK /\ [PoolNext]_vars => PoolTypeOK'
<1> SUFFICES ASSUME PoolTypeOK, [PoolNext]_vars PROVE PoolTypeOK'
  OBVIOUS
<1> USE DEF PoolTypeOK, LoopTypeOK
<1>1. CASE LoopStep /\ UNCHANGED poolVars
  <2>1. CASE \E S \in SUBSET OpenFds(conns) : Poll(S)
    BY <1>1, <2>1 DEF poolVars, targetVars, sessionVars, requestVars, Poll,
       OpenFds, Phases
  <2>2. CASE \E fd \in Fds : Hangup(fd) \/ ReadFails(fd) \/ HandlerDone(fd)
    BY <1>1, <2>2, TableTypes DEF poolVars, targetVars, sessionVars,
       requestVars, Hangup, ReadFails, HandlerDone, LeaveHandler
  <2>3. CASE NoAccept \/ TimeoutsDone
    BY <1>1, <2>3 DEF poolVars, targetVars, sessionVars, requestVars,
       NoAccept, TimeoutsDone, Phases
  <2> QED
    BY <1>1, <2>1, <2>2, <2>3 DEF LoopStep
<1>2. CASE PoolCleanup
  BY <1>2, TableTypes DEF PoolCleanup, CleanupClosed, targetVars, sessionVars,
     Phases
<1>3. CASE Reconnect
  <2>1. /\ TryConnectPool(current_pool_index, conns)
        /\ timers' = timers - 1 /\ timers > 0
        /\ UNCHANGED <<listening, phase, ready, cur, sessionVars, current_job,
                       requestVars>>
    BY <1>3 DEF Reconnect
  <2> QED
    BY <2>1, TryConnectTypes DEF sessionVars, requestVars
<1>4. ASSUME NEW fd \in Fds, NEW out \in SendOutcome, HandshakeDone(fd, out)
      PROVE  PoolTypeOK'
  <2>1. SetState(conns, fd, "CONNECTED") \in [Fds -> Conn]
    BY TableTypes DEF ConnState
  <2>2. conns' \in [Fds -> Conn]
    BY <1>4, <2>1, TableTypes DEF HandshakeDone, AfterSend
  <2>3. login_due' \in SUBSET Fds
    BY <1>4 DEF HandshakeDone, Target, OpenFds
  <2> QED
    BY <1>4, <2>2, <2>3 DEF HandshakeDone, StayIn, targetVars, sessionVars
<1>5. ASSUME NEW fd \in Fds, HandshakeFails(fd)
      PROVE  PoolTypeOK'
  <2> DEFINE cs == MarkForClosing(SetState(conns, fd, "ERROR"), {fd})
  <2>1. cs \in [Fds -> Conn]
    BY TableTypes DEF ConnState
  <2>2. \/ OnPoolError(cs)
        \/ conns' = cs /\ UNCHANGED <<timers, targetVars, sessionVars>>
    BY <1>5 DEF HandshakeFails
  <2>3. StayIn(fd) /\ UNCHANGED <<current_job, requestVars>>
    BY <1>5 DEF HandshakeFails
  <2> HIDE DEF cs
  <2>4. CASE OnPoolError(cs)
    BY <2>1, <2>3, <2>4, PoolErrorTypes DEF StayIn, requestVars
  <2>5. CASE conns' = cs /\ UNCHANGED <<timers, targetVars, sessionVars>>
    BY <2>1, <2>3, <2>5 DEF StayIn, requestVars, targetVars, sessionVars
  <2> QED
    BY <2>2, <2>4, <2>5
<1>6. ASSUME NEW fd \in Fds, NEW r \in Reply, NEW j \in Jobs, NEW F \in SUBSET Fds,
             LoginReply(fd, r, j, F)
      PROVE  PoolTypeOK'
  <2>1. HandleResponse(0, r, j, F) /\ j \in JobField
    BY <1>6 DEF LoginReply, JobField
  <2>2. /\ StayIn(fd)
        /\ login_due' = login_due \ {fd}
        /\ UNCHANGED <<next_id, share_due>>
    BY <1>6 DEF LoginReply, PoolLine
  <2> QED
    BY <2>1, <2>2, ResponseTypes DEF StayIn
<1>7. ASSUME NEW s \in share_due, NEW r \in Reply, ShareReply(s[1], s[2], s[3], r)
      PROVE  PoolTypeOK'
  <2>1. PICK id : HandleResponse(id, r, NoJob, {})
    BY <1>7 DEF ShareReply
  <2>j. NoJob \in JobField
    BY DEF JobField
  <2>2. /\ StayIn(s[1])
        /\ share_due' \in SUBSET share_due
        /\ UNCHANGED <<next_id, login_due>>
    BY <1>7 DEF ShareReply, PoolLine
  <2>3. s[1] \in Fds
    OBVIOUS
  <2> QED
    BY <2>1, <2>j, <2>2, <2>3, ResponseTypes DEF StayIn
<1>8. ASSUME NEW fd \in Fds, NEW j \in JobField, NEW F \in SUBSET Fds,
             JobPushed(fd, j, F)
      PROVE  PoolTypeOK'
  <2>1. conns' \in [Fds -> Conn]
    BY <1>8, TableTypes DEF JobPushed, PassJobOn
  <2>2. current_job' \in Job
    BY <1>8 DEF JobPushed, FullJob, Job
  <2> QED
    BY <1>8, <2>1, <2>2 DEF JobPushed, PoolLine, StayIn, targetVars, requestVars
<1>9j. ASSUME NEW fd \in Fds, NEW j \in Jobs, JobCutShort(fd, j)
       PROVE  PoolTypeOK'
  <2>1. current_job' \in Job
    BY <1>9j DEF JobCutShort, Job, JobField
  <2> QED
    BY <1>9j, <2>1 DEF JobCutShort, PoolLine, StayIn, targetVars, sessionVars,
       requestVars
<1>9. ASSUME NEW fd \in Fds, PoolLineIgnored(fd)
      PROVE  PoolTypeOK'
  BY <1>9 DEF PoolLineIgnored, PoolLine, StayIn, poolVars, targetVars,
     sessionVars, requestVars
<1>10. ASSUME NEW fd \in Fds, NEW F \in SUBSET Fds,
              WorkerAccepted(fd, F) \/ WorkerTalks(fd, F)
       PROVE  PoolTypeOK'
  <2>0. AddConnection(conns, fd, "WORKER", "CONNECTED") \in [Fds -> Conn]
    BY TableTypes DEF ConnType, ConnState
  <2>1. conns' \in [Fds -> Conn]
    BY <1>10, <2>0, TableTypes DEF WorkerAccepted, WorkerTalks
  <2>2. phase' \in Phases /\ cur' \in Fds \cup {NoFd} /\ ready' \in SUBSET Fds
    BY <1>10 DEF WorkerAccepted, WorkerTalks, WorkerLine, StayIn, Phases
  <2>3. UNCHANGED timers /\ UNCHANGED listening /\ UNCHANGED poolVars
    BY <1>10 DEF WorkerAccepted, WorkerTalks, WorkerLine, StayIn
  <2>4. LoopTypeOK'
    BY <2>1, <2>2, <2>3
  <2> QED
    BY <2>3, <2>4 DEF poolVars, targetVars, sessionVars, requestVars
<1>11. ASSUME NEW fd \in Fds, NEW w \in Workers, NEW F \in SUBSET Fds,
              NEW out \in SendOutcome, WorkerSubmits(fd, w, F, out)
       PROVE  PoolTypeOK'
  <2> DEFINE cs == MarkForClosing(conns, F)
  <2>1. /\ SubmitShare(w, out, cs)
        /\ StayIn(fd) /\ UNCHANGED timers
    BY <1>11 DEF WorkerSubmits, WorkerLine
  <2>2. cs \in [Fds -> Conn]
    BY TableTypes
  <2> HIDE DEF cs
  <2>3. conns' \in [Fds -> Conn]
    BY <2>1, <2>2, TableTypes DEF SubmitShare, AfterSend
  <2>4. /\ share_to_worker' \in SUBSET (Nat \X Workers)
        /\ share_due' \in SUBSET (Fds \X Nat \X Workers)
        /\ next_id' \in Nat
    BY <2>1 DEF SubmitShare, Target, OpenFds, poolVars, requestVars
  <2> QED
    BY <2>1, <2>3, <2>4 DEF StayIn, SubmitShare, poolVars, targetVars,
       sessionVars, requestVars
<1>12. CASE UNCHANGED vars
  BY <1>12 DEF vars, loopVars, poolVars, targetVars, sessionVars, requestVars
<1> QED
  BY <1>1, <1>2, <1>3, <1>4, <1>5, <1>6, <1>7, <1>8, <1>9j, <1>9, <1>10, <1>11, <1>12
     DEF PoolNext, PoolStep, WorkerSideStep, Exited

\* Every reachable state of PoolManager and its loop is well-typed; in
\* particular current_pool_index_ always names a pool and reconnect_attempts_
\* never exceeds its limit.
THEOREM TypeCorrect == PoolSpec => []PoolTypeOK
  BY TypeInit, TypeStep, PTL DEF PoolSpec

-----------------------------------------------------------------------------
(* The inductive invariant.                                                *)

IInv == PoolTypeOK /\ SingleAttempt /\ SessionCoherent

\* No login is under way in a table cs when the connections in due are owed a
\* reply; and those are connected pool connections.
NoAttempt(cs, due) ==
  \A g \in Fds : cs[g].type = "POOL" => cs[g].state # "CONNECTING" /\ g \notin due
DueOk(cs, due) ==
  \A g \in due : cs[g].type = "POOL" /\ cs[g].state = "CONNECTED"

(* Where no login was under way, try_connect_pool starts at most one.      *)
LEMMA TryConnectAttempts ==
  ASSUME NEW cs \in [Fds -> Conn], NEW i, login_due' \in SUBSET Fds,
         TryConnectPool(i, cs), NoAttempt(cs, login_due'), DueOk(cs, login_due')
  PROVE  /\ \A g \in Fds : Attempting(g)' => g = pool_fd'
         /\ DueOk(conns', login_due')
<1>1. CASE conns' = cs
  BY <1>1 DEF NoAttempt, Attempting
<1>2. CASE \E k \in i..(NumPools - 1), fd \in Fds :
             /\ IsLowestFree(cs, fd)
             /\ conns' = AddConnection(cs, fd, "POOL", "CONNECTING")
             /\ current_pool_index' = k
             /\ contacted' = i..k
             /\ pool_fd' = fd
  <2>1. PICK fd \in Fds : /\ IsLowestFree(cs, fd)
                          /\ conns' = AddConnection(cs, fd, "POOL", "CONNECTING")
                          /\ pool_fd' = fd
    BY <1>2
  <2>2. fd \notin login_due'
    BY <2>1 DEF IsLowestFree, OpenFds, DueOk
  <2>3. \A g \in Fds : g # fd => conns'[g] = cs[g]
    BY <2>1 DEF AddConnection
  <2>4. \A g \in Fds : g # fd => ~Attempting(g)'
    BY <2>3 DEF NoAttempt, Attempting
  <2>5. \A g \in login_due' : g \in Fds /\ g # fd
    BY <2>2
  <2>6. DueOk(conns', login_due')
    BY <2>3, <2>5 DEF DueOk
  <2> QED
    BY <2>1, <2>4, <2>6
<1> QED
  BY <1>1, <1>2 DEF TryConnectPool

(* The failure of the only attempt leaves one timer, or one new attempt.   *)
LEMMA PoolErrorAttempts ==
  ASSUME PoolTypeOK, NEW cs \in [Fds -> Conn], OnPoolError(cs), timers = 0,
         login_due' \in SUBSET Fds, share_due' = {},
         NoAttempt(cs, login_due'), DueOk(cs, login_due')
  PROVE  SingleAttempt' /\ SessionCoherent'
<1>1. authenticated' = FALSE /\ connected' = FALSE
  BY DEF OnPoolError, set_timeout
<1>2. CASE timers' = timers + 1 /\ conns' = cs
  <2>1. \A g \in Fds : ~Attempting(g)'
    BY <1>2 DEF NoAttempt, Attempting
  <2>2. timers' <= 1
    BY <1>2
  <2>3. SingleAttempt'
    BY <1>1, <2>1, <2>2, Zenon DEF SingleAttempt
  <2>4. SessionCoherent'
    BY <1>1, <1>2, Zenon DEF SessionCoherent, LoginsGoToPools, DueOk
  <2> QED
    BY <2>3, <2>4
<1>3. CASE /\ TryConnectPool((current_pool_index + 1) % NumPools, cs)
           /\ UNCHANGED timers
  <2>1. /\ \A g \in Fds : Attempting(g)' => g = pool_fd'
        /\ DueOk(conns', login_due')
    BY <1>3, TryConnectAttempts
  <2>2. timers' = 0 /\ timers' <= 1
    BY <1>3
  <2>3. SingleAttempt'
    BY <1>1, <2>1, <2>2, Zenon DEF SingleAttempt
  <2>4. SessionCoherent'
    BY <1>1, <2>1, Zenon DEF SessionCoherent, LoginsGoToPools, DueOk
  <2> QED
    BY <2>3, <2>4
<1> QED
  BY <1>2, <1>3 DEF OnPoolError, set_timeout

(* A step that keeps the type and state of every connection, the session,  *)
(* the target and the timers, and adds no login and outside a session no   *)
(* share to what is owed, preserves the invariant.                         *)
LEMMA QuietStep ==
  ASSUME IInv,
         \A g \in Fds : conns'[g].type = conns[g].type
                       /\ conns'[g].state = conns[g].state,
         login_due' \in SUBSET login_due,
         share_due' \in SUBSET share_due \/ authenticated,
         UNCHANGED <<timers, pool_fd>>,
         UNCHANGED authenticated, UNCHANGED connected
  PROVE  SingleAttempt' /\ SessionCoherent'
<1>1. login_due \in SUBSET Fds
  BY DEF IInv, PoolTypeOK
<1>2. \A g \in Fds : Attempting(g)' => Attempting(g)
  BY DEF Attempting
<1>3. SingleAttempt'
  BY <1>2 DEF IInv, SingleAttempt
<1>4. SessionCoherent'
  BY <1>1 DEF IInv, SessionCoherent, LoginsGoToPools
<1> QED
  BY <1>3, <1>4

LEMMA InvStep == IInv /\ [PoolNext]_vars => SingleAttempt' /\ SessionCoherent'
<1> SUFFICES ASSUME IInv, [PoolNext]_vars
             PROVE  SingleAttempt' /\ SessionCoherent'
  OBVIOUS
<1>d. ready \in SUBSET Fds /\ login_due \in SUBSET Fds
  BY DEF IInv, PoolTypeOK, LoopTypeOK
<1> USE DEF IInv
<1>t. conns \in [Fds -> Conn] /\ login_due \in SUBSET Fds /\ timers \in Nat
  BY DEF PoolTypeOK, LoopTypeOK
<1>a. \A g \in Fds : Attempting(g) => /\ g = pool_fd /\ timers = 0
                                      /\ ~authenticated /\ share_due = {}
                                      /\ \A h \in Fds : Attempting(h) => h = g
  BY DEF SingleAttempt, SessionCoherent, LoginsGoToPools
<1>m. \A F : \A g \in Fds : /\ MarkForClosing(conns, F)[g].type = conns[g].type
                           /\ MarkForClosing(conns, F)[g].state = conns[g].state
  BY <1>t, TableFields
<1>1. CASE LoopStep /\ UNCHANGED poolVars
  <2>1. \A g \in Fds : conns'[g].type = conns[g].type /\ conns'[g].state = conns[g].state
    BY <1>1, <1>m DEF LoopStep, Poll, Hangup, ReadFails, HandlerDone, NoAccept,
       TimeoutsDone
  <2>2. UNCHANGED timers
    BY <1>1 DEF LoopStep, Poll, Hangup, ReadFails, HandlerDone, NoAccept,
       TimeoutsDone
  <2> QED
    BY <1>1, <2>1, <2>2, QuietStep DEF poolVars, targetVars, sessionVars, requestVars
<1>2. CASE PoolCleanup
  <2>1. \A g \in Fds : conns'[g] = IF conns[g].closing THEN NoConn ELSE conns[g]
    BY <1>2, <1>t, TableFields DEF PoolCleanup, CleanupClosed
  <2>2. \A g \in login_due' : g \in login_due /\ g \in Fds /\ ~conns[g].closing
    BY <1>2, <1>t DEF PoolCleanup, ClosingFds
  <2>3. /\ UNCHANGED timers /\ UNCHANGED pool_fd /\ UNCHANGED authenticated
        /\ UNCHANGED connected /\ share_due' \in SUBSET share_due
    BY <1>2 DEF PoolCleanup, CleanupClosed, targetVars, sessionVars
  <2>4. \A g \in Fds : Attempting(g)' => Attempting(g)
    BY <2>1, <2>2 DEF Attempting, NoConn
  <2>5. SingleAttempt'
    BY <2>3, <2>4 DEF SingleAttempt
  <2>6. SessionCoherent'
    BY <2>1, <2>2, <2>3 DEF SessionCoherent, LoginsGoToPools
  <2> QED
    BY <2>5, <2>6
<1>3. CASE Reconnect
  <2>1. timers = 1 /\ timers' = 0 /\ timers' <= 1
    BY <1>3, <1>t DEF Reconnect, SingleAttempt
  <2>2. ~authenticated /\ \A g \in Fds : ~Attempting(g)
    BY <2>1 DEF SingleAttempt
  <2>3. /\ TryConnectPool(current_pool_index, conns)
        /\ UNCHANGED login_due /\ UNCHANGED share_due
        /\ UNCHANGED authenticated /\ UNCHANGED connected
    BY <1>3 DEF Reconnect, sessionVars, requestVars
  <2>4. NoAttempt(conns, login_due') /\ DueOk(conns, login_due')
    BY <2>2, <2>3 DEF NoAttempt, DueOk, Attempting, SessionCoherent, LoginsGoToPools
  <2>5. /\ \A g \in Fds : Attempting(g)' => g = pool_fd'
        /\ DueOk(conns', login_due')
    BY <1>t, <2>3, <2>4, TryConnectAttempts
  <2>6. SingleAttempt'
    BY <2>1, <2>2, <2>3, <2>5 DEF SingleAttempt
  <2>7. SessionCoherent'
    BY <2>3, <2>5 DEF SessionCoherent, LoginsGoToPools, DueOk
  <2> QED
    BY <2>6, <2>7
<1>4. ASSUME NEW fd \in Fds, NEW out \in SendOutcome, HandshakeDone(fd, out)
      PROVE  SingleAttempt' /\ SessionCoherent'
  <2> DEFINE cs == SetState(conns, fd, "CONNECTED")
  <2>1. Attempting(fd) /\ conns[fd].type = "POOL"
    BY <1>4 DEF HandshakeDone, Attempting
  <2>2. cs \in [Fds -> Conn] /\ \A g \in Fds :
          /\ cs[g].type = conns[g].type
          /\ cs[g].state = IF g = fd THEN "CONNECTED" ELSE conns[g].state
    BY <1>t, TableFields, TableTypes DEF ConnState
  <2>3. \A g \in Fds : /\ conns'[g].type = conns[g].type
                       /\ conns'[g].state = IF g = fd THEN "CONNECTED"
                                                      ELSE conns[g].state
    <3>1. conns' = AfterSend(cs, out)
      BY <1>4 DEF HandshakeDone
    <3> HIDE DEF cs
    <3> QED
      BY <2>2, <3>1, TableFields DEF AfterSend
  <2>4. login_due' \subseteq login_due \cup {fd}
    BY <1>4, <1>a, <2>1 DEF HandshakeDone, Target
  <2>5. /\ UNCHANGED timers /\ UNCHANGED pool_fd /\ UNCHANGED authenticated
        /\ UNCHANGED connected /\ UNCHANGED share_due
    BY <1>4 DEF HandshakeDone, targetVars, sessionVars
  <2>6. \A g \in Fds : Attempting(g)' => g = fd
    BY <1>a, <2>1, <2>3, <2>4 DEF Attempting
  <2>7. SingleAttempt'
    BY <1>a, <2>1, <2>5, <2>6 DEF SingleAttempt
  <2>8. SessionCoherent'
    BY <1>t, <2>1, <2>3, <2>4, <2>5 DEF SessionCoherent, LoginsGoToPools
  <2> QED
    BY <2>7, <2>8
<1>5. ASSUME NEW fd \in Fds, HandshakeFails(fd)
      PROVE  SingleAttempt' /\ SessionCoherent'
  <2> DEFINE cs == MarkForClosing(SetState(conns, fd, "ERROR"), {fd})
  <2>1. SetState(conns, fd, "ERROR") \in [Fds -> Conn]
    BY <1>t, TableTypes DEF ConnState
  <2>2. cs \in [Fds -> Conn] /\ \A g \in Fds :
          /\ cs[g].type = conns[g].type
          /\ cs[g].state = IF g = fd THEN "ERROR" ELSE conns[g].state
    BY <1>t, <2>1, TableFields, TableTypes
  <2>3. UNCHANGED login_due /\ UNCHANGED share_due
    BY <1>5 DEF HandshakeFails, requestVars
  <2>4. CASE conns[fd].state = "CONNECTING"
    <3>1. Attempting(fd) /\ fd \notin login_due
      BY <1>5, <2>4 DEF HandshakeFails, Attempting, SessionCoherent, LoginsGoToPools
    <3>2. OnPoolError(cs)
      BY <1>5, <2>4 DEF HandshakeFails
    <3> HIDE DEF cs
    <3>3. NoAttempt(cs, login_due')
      BY <1>a, <2>2, <2>3, <3>1 DEF NoAttempt, Attempting
    <3>4. DueOk(cs, login_due')
      BY <1>t, <2>2, <2>3, <3>1 DEF DueOk, SessionCoherent, LoginsGoToPools
    <3> QED
      BY <1>t, <1>a, <2>2, <2>3, <3>1, <3>2, <3>3, <3>4, PoolErrorAttempts
  <2>5. CASE conns[fd].state # "CONNECTING"
    <3>1. conns' = cs /\ conns[fd].state = "ERROR"
          /\ UNCHANGED <<timers, targetVars, sessionVars>>
      BY <1>5, <2>5 DEF HandshakeFails
    <3> HIDE DEF cs
    <3>2. \A g \in Fds : conns'[g].type = conns[g].type /\ conns'[g].state = conns[g].state
      BY <2>2, <3>1
    <3> QED
      BY <2>3, <3>1, <3>2, QuietStep DEF targetVars, sessionVars
  <2> QED
    BY <2>4, <2>5
<1>6. ASSUME NEW fd \in Fds, NEW r \in Reply, NEW j \in Jobs, NEW F \in SUBSET Fds,
             LoginReply(fd, r, j, F)
      PROVE  SingleAttempt' /\ SessionCoherent'
  <2>1. /\ Attempting(fd)
        /\ login_due' = login_due \ {fd}
        /\ UNCHANGED share_due
        /\ HandleResponse(0, r, j, F)
    BY <1>6 DEF LoginReply, PoolLine, Attempting
  <2>2. NoAttempt(conns, login_due') /\ DueOk(conns, login_due')
    <3>1. conns[fd].state # "CONNECTING"
      BY <1>6 DEF LoginReply, PoolLine
    <3> QED
      BY <1>a, <2>1, <3>1 DEF NoAttempt, DueOk, Attempting, SessionCoherent, LoginsGoToPools
  <2>3. CASE LoginWithJob(r, j, F) \/ LoginStatusOk
    <3>1. \A g \in Fds : conns'[g].type = conns[g].type /\ conns'[g].state = conns[g].state
      BY <1>m, <2>3 DEF LoginWithJob, LoginStatusOk, PassJobOn
    <3>2. /\ authenticated' = TRUE /\ connected' = TRUE
          /\ UNCHANGED timers /\ timers = 0
      BY <1>a, <2>1, <2>3 DEF LoginWithJob, LoginStatusOk
    <3>3. \A g \in Fds : ~Attempting(g)'
      BY <2>2, <3>1 DEF NoAttempt, Attempting
    <3>4. timers' <= 1 /\ timers' # 1
      BY <3>2
    <3>5. SingleAttempt'
      BY <3>3, <3>4 DEF SingleAttempt
    <3>6. SessionCoherent'
      BY <1>t, <2>1, <2>2, <3>1, <3>2 DEF SessionCoherent, LoginsGoToPools, DueOk
    <3> QED
      BY <3>5, <3>6
  <2>4. CASE OnPoolError(conns)
    BY <1>t, <1>a, <2>1, <2>2, <2>4, PoolErrorAttempts
  <2>5. CASE UNCHANGED <<conns, timers, targetVars, sessionVars>>
    BY <2>1, <2>5, QuietStep DEF targetVars, sessionVars
  <2> QED
    BY <2>1, <2>3, <2>4, <2>5 DEF HandleResponse
<1>7. ASSUME NEW s \in share_due, NEW r \in Reply, ShareReply(s[1], s[2], s[3], r)
      PROVE  SingleAttempt' /\ SessionCoherent'
  <2>1. /\ \E id : HandleResponse(id, r, NoJob, {})
        /\ share_due' \in SUBSET share_due
        /\ UNCHANGED login_due
    BY <1>7 DEF ShareReply
  <2>2. authenticated
    BY DEF SessionCoherent, LoginsGoToPools
  <2>3. UNCHANGED <<conns, timers, targetVars, sessionVars>>
    BY <2>1, <2>2 DEF HandleResponse
  <2> QED
    BY <2>1, <2>3, QuietStep DEF targetVars, sessionVars
<1>8. ASSUME NEW fd \in Fds, NEW j \in JobField, NEW F \in SUBSET Fds,
             JobPushed(fd, j, F)
      PROVE  SingleAttempt' /\ SessionCoherent'
  <2>1. \A g \in Fds : conns'[g].type = conns[g].type /\ conns'[g].state = conns[g].state
    BY <1>8, <1>m DEF JobPushed, PassJobOn
  <2>2. /\ UNCHANGED <<timers, targetVars, requestVars>>
        /\ UNCHANGED authenticated /\ UNCHANGED connected
    BY <1>8 DEF JobPushed
  <2> QED
    BY <2>1, <2>2, QuietStep DEF targetVars, requestVars
<1>9j. ASSUME NEW fd \in Fds, NEW j \in Jobs, JobCutShort(fd, j)
       PROVE  SingleAttempt' /\ SessionCoherent'
  BY <1>9j, QuietStep DEF JobCutShort, targetVars, sessionVars, requestVars
<1>9. ASSUME NEW fd \in Fds, PoolLineIgnored(fd)
      PROVE  SingleAttempt' /\ SessionCoherent'
  BY <1>9, QuietStep DEF PoolLineIgnored, poolVars, targetVars, sessionVars,
     requestVars
<1>10. ASSUME NEW fd \in Fds, NEW F \in SUBSET Fds, WorkerAccepted(fd, F)
       PROVE  SingleAttempt' /\ SessionCoherent'
  <2> DEFINE cs == AddConnection(conns, fd, "WORKER", "CONNECTED")
  <2>1. cs \in [Fds -> Conn] /\ \A g \in Fds :
          cs[g] = IF g = fd THEN [type |-> "WORKER", state |-> "CONNECTED",
                                  closing |-> FALSE]
                            ELSE conns[g]
    BY <1>t, TableFields, TableTypes DEF ConnType, ConnState
  <2>2. conns' = MarkForClosing(cs, F) /\ conns[fd].type = "NONE"
    BY <1>10 DEF WorkerAccepted, IsLowestFree, OpenFds
  <2> HIDE DEF cs
  <2>3. \A g \in Fds : conns'[g].type = cs[g].type /\ conns'[g].state = cs[g].state
    BY <2>1, <2>2, TableFields
  <2>4. /\ UNCHANGED timers /\ UNCHANGED pool_fd /\ UNCHANGED authenticated
        /\ UNCHANGED connected /\ UNCHANGED share_due /\ UNCHANGED login_due
    BY <1>10 DEF WorkerAccepted, poolVars, targetVars, sessionVars, requestVars
  <2>5. \A g \in Fds : Attempting(g)' => Attempting(g)
    BY <2>1, <2>3, <2>4 DEF Attempting
  <2>6. SingleAttempt'
    BY <2>4, <2>5 DEF SingleAttempt
  <2>7. SessionCoherent'
    BY <1>t, <2>1, <2>2, <2>3, <2>4 DEF SessionCoherent, LoginsGoToPools
  <2> QED
    BY <2>6, <2>7
<1>11. ASSUME NEW fd \in Fds, NEW F \in SUBSET Fds, WorkerTalks(fd, F)
       PROVE  SingleAttempt' /\ SessionCoherent'
  <2>1. \A g \in Fds : conns'[g].type = conns[g].type /\ conns'[g].state = conns[g].state
    BY <1>11, <1>m DEF WorkerTalks
  <2> QED
    BY <1>11, <2>1, QuietStep DEF WorkerTalks, poolVars, targetVars, sessionVars,
       requestVars
<1>12. ASSUME NEW fd \in Fds, NEW w \in Workers, NEW F \in SUBSET Fds,
              NEW out \in SendOutcome, WorkerSubmits(fd, w, F, out)
       PROVE  SingleAttempt' /\ SessionCoherent'
  <2> DEFINE cs == MarkForClosing(conns, F)
  <2>1. SubmitShare(w, out, cs) /\ UNCHANGED timers
    BY <1>12 DEF WorkerSubmits
  <2>2. cs \in [Fds -> Conn]
    BY <1>t, TableTypes
  <2> HIDE DEF cs
  <2>3. \A g \in Fds : conns'[g].type = cs[g].type /\ conns'[g].state = cs[g].state
    BY <2>1, <2>2, TableFields DEF SubmitShare, AfterSend
  <2>4. \A g \in Fds : conns'[g].type = conns[g].type /\ conns'[g].state = conns[g].state
    BY <1>m, <2>3 DEF cs
  <2>5. /\ UNCHANGED pool_fd /\ UNCHANGED login_due
        /\ UNCHANGED authenticated /\ UNCHANGED connected
        /\ share_due' \in SUBSET share_due \/ authenticated
    BY <2>1 DEF SubmitShare, poolVars, targetVars, sessionVars, requestVars,
       SessionCoherent, LoginsGoToPools
  <2> QED
    BY <2>1, <2>4, <2>5, QuietStep
<1>13. CASE UNCHANGED vars
  BY <1>13, QuietStep DEF vars, loopVars, poolVars, targetVars, sessionVars,
     requestVars
<1> QED
  BY <1>d, <1>1, <1>2, <1>3, <1>4, <1>5, <1>6, <1>7, <1>8, <1>9j, <1>9, <1>10, <1>11, <1>12,
     <1>13 DEF PoolNext, PoolStep, WorkerSideStep, Exited

LEMMA InvInit == PoolInit => SingleAttempt /\ SessionCoherent
<1> SUFFICES ASSUME PoolInit PROVE SingleAttempt /\ SessionCoherent
  OBVIOUS
<1>1. \A fd \in Fds : Attempting(fd) => fd = pool_fd
  BY DEF PoolInit, Attempting, NoConn
<1>2. timers = 0 /\ timers <= 1
  BY DEF PoolInit
<1>3. /\ authenticated = FALSE /\ connected = FALSE
      /\ login_due = {} /\ share_due = {}
  BY DEF PoolInit
<1> QED
  BY <1>1, <1>2, <1>3 DEF SingleAttempt, SessionCoherent, LoginsGoToPools

\* The retry, the attempt and the session exclude one another, and only connections
\* to pools owe replies: what the theorems below rest on.
THEOREM Invariance == PoolSpec => []IInv
<1>1. PoolInit => IInv
  BY TypeInit, InvInit DEF IInv
<1>2. IInv /\ [PoolNext]_vars => IInv'
  BY TypeStep, InvStep DEF IInv
<1> QED
  BY <1>1, <1>2, PTL DEF PoolSpec

\* At most one reconnect timer, connection attempt or session at any time.
THEOREM SingleAttemptCorrect == PoolSpec => []SingleAttempt
<1>1. IInv => SingleAttempt
  BY DEF IInv
<1> QED
  BY <1>1, Invariance, PTL

\* A login is never written to a connection that took over a pool's descriptor.
THEOREM LoginsGoToPoolsCorrect == PoolSpec => []LoginsGoToPools
<1>1. IInv => LoginsGoToPools
  BY DEF IInv, SessionCoherent
<1> QED
  BY <1>1, Invariance, PTL

-----------------------------------------------------------------------------
(* A session is kept.                                                      *)

LEMMA SessionStep ==
  IInv /\ [PoolNext]_vars =>
    (authenticated => authenticated' /\ connected' /\ UNCHANGED targetVars)
<1> SUFFICES ASSUME IInv, [PoolNext]_vars, authenticated
             PROVE  authenticated' /\ connected' /\ UNCHANGED targetVars
  OBVIOUS
<1>d. ready \in SUBSET Fds /\ login_due \in SUBSET Fds
  BY DEF IInv, PoolTypeOK, LoopTypeOK
<1>1. connected
  BY DEF IInv, SessionCoherent, LoginsGoToPools
<1>2. timers = 0
  BY DEF IInv, SingleAttempt, PoolTypeOK, LoopTypeOK
<1>3. \A fd \in Fds : ~Attempting(fd)
  BY DEF IInv, SingleAttempt
<1>4. CASE LoopStep /\ UNCHANGED poolVars
  BY <1>1, <1>4 DEF poolVars, sessionVars
<1>5. CASE PoolCleanup
  BY <1>1, <1>5 DEF PoolCleanup, sessionVars
<1>6. ~Reconnect
  BY <1>2 DEF Reconnect
<1>7. ASSUME NEW fd \in Fds, NEW out, HandshakeDone(fd, out)
      PROVE  FALSE
  BY <1>3, <1>7 DEF HandshakeDone, Attempting
<1>8. ASSUME NEW fd \in Fds, HandshakeFails(fd)
      PROVE  authenticated' /\ connected' /\ UNCHANGED targetVars
  BY <1>1, <1>3, <1>8 DEF HandshakeFails, Attempting, sessionVars
<1>9. ASSUME NEW fd \in Fds, NEW r, NEW j, NEW F, LoginReply(fd, r, j, F)
      PROVE  FALSE
  BY <1>3, <1>9 DEF LoginReply, PoolLine, Attempting
<1>10. ASSUME NEW s \in share_due, NEW r \in Reply, ShareReply(s[1], s[2], s[3], r)
       PROVE  authenticated' /\ connected' /\ UNCHANGED targetVars
  BY <1>1, <1>10 DEF ShareReply, HandleResponse, sessionVars
<1>11. ASSUME NEW fd \in Fds, NEW j, NEW F, JobPushed(fd, j, F)
       PROVE  authenticated' /\ connected' /\ UNCHANGED targetVars
  BY <1>1, <1>11 DEF JobPushed
<1>11j. ASSUME NEW fd \in Fds, NEW j, JobCutShort(fd, j)
        PROVE  authenticated' /\ connected' /\ UNCHANGED targetVars
  BY <1>1, <1>11j DEF JobCutShort, sessionVars
<1>12. ASSUME NEW fd \in Fds, PoolLineIgnored(fd)
       PROVE  authenticated' /\ connected' /\ UNCHANGED targetVars
  BY <1>1, <1>12 DEF PoolLineIgnored, poolVars, sessionVars
<1>13. CASE WorkerSideStep
  <2>1. ASSUME NEW fd \in Fds, NEW w, NEW F, NEW out, WorkerSubmits(fd, w, F, out)
        PROVE  authenticated' /\ connected' /\ UNCHANGED targetVars
    BY <1>1, <2>1 DEF WorkerSubmits, SubmitShare, poolVars, sessionVars
  <2>2. ASSUME NEW fd \in Fds, NEW F, WorkerAccepted(fd, F) \/ WorkerTalks(fd, F)
        PROVE  authenticated' /\ connected' /\ UNCHANGED targetVars
    BY <1>1, <2>2 DEF WorkerAccepted, WorkerTalks, poolVars, sessionVars
  <2> QED
    BY <1>13, <1>d, <2>1, <2>2 DEF WorkerSideStep
<1>14. CASE UNCHANGED vars
  BY <1>1, <1>14 DEF vars, poolVars, sessionVars
<1> QED
  BY <1>d, <1>4, <1>5, <1>6, <1>7, <1>8, <1>9, <1>10, <1>11, <1>11j, <1>12, <1>13, <1>14
     DEF PoolNext, PoolStep, Exited

\* Whatever arrives late on older connections, a session is never torn down
\* and pool_fd_ never retargeted once the proxy is logged in.
THEOREM SessionKeptCorrect == PoolSpec => SessionKept
<1>1. IInv /\ [PoolNext]_vars =>
        [authenticated => authenticated' /\ connected' /\ UNCHANGED targetVars]_vars
  BY SessionStep
<1> QED
  BY <1>1, Invariance, PTL DEF PoolSpec, SessionKept

-----------------------------------------------------------------------------
(* Shares are attributed to the worker that submitted them: request ids    *)
(* are never reused, so an entry of share_to_worker_ is never overwritten. *)

ShareInv ==
  /\ ShareAttribution
  /\ \A e \in share_to_worker : e[1] < next_id
  /\ \A s \in share_due : s[2] < next_id
  /\ \A s, t \in share_due : s[2] = t[2] => s = t

LEMMA ShareQuiet ==
  ASSUME ShareInv, PoolTypeOK, share_due' \in SUBSET share_due,
         share_to_worker' \in SUBSET share_to_worker,
         next_id' \in {next_id, next_id + 1}
  PROVE  ShareInv'
<1>1. next_id \in Nat /\ \A s \in share_due : s[2] \in Nat
  BY DEF PoolTypeOK
<1>2. \A e \in share_to_worker : e[1] \in Nat
  BY DEF PoolTypeOK
<1>3. \A n \in Nat : n < next_id => n < next_id'
  BY <1>1
<1> QED
  BY <1>1, <1>2, <1>3 DEF ShareInv, ShareAttribution

LEMMA ShareStep == IInv /\ ShareInv /\ [PoolNext]_vars => ShareInv'
<1> SUFFICES ASSUME IInv, ShareInv, [PoolNext]_vars PROVE ShareInv'
  OBVIOUS
<1>d. ready \in SUBSET Fds /\ login_due \in SUBSET Fds
  BY DEF IInv, PoolTypeOK, LoopTypeOK
<1>t. PoolTypeOK
  BY DEF IInv
<1>1. CASE LoopStep /\ UNCHANGED poolVars
  BY <1>t, <1>1, ShareQuiet DEF poolVars, requestVars
<1>2. CASE PoolCleanup
  BY <1>t, <1>2, ShareQuiet DEF PoolCleanup
<1>3. CASE Reconnect
  BY <1>t, <1>3, ShareQuiet DEF Reconnect, requestVars
<1>4. ASSUME NEW fd \in Fds, NEW out, HandshakeDone(fd, out)
      PROVE  ShareInv'
  BY <1>t, <1>4, ShareQuiet DEF HandshakeDone
<1>5. ASSUME NEW fd \in Fds, HandshakeFails(fd)
      PROVE  ShareInv'
  BY <1>t, <1>5, ShareQuiet DEF HandshakeFails, requestVars
<1>6. ASSUME NEW fd \in Fds, NEW r, NEW j, NEW F, LoginReply(fd, r, j, F)
      PROVE  ShareInv'
  <2>1. ~authenticated
    BY <1>6 DEF LoginReply, PoolLine, Attempting, IInv, SingleAttempt
  <2>2. UNCHANGED share_to_worker /\ UNCHANGED next_id /\ UNCHANGED share_due
    BY <1>6, <2>1 DEF LoginReply, HandleResponse
  <2> QED
    BY <1>t, <2>2, ShareQuiet
<1>7. ASSUME NEW s \in share_due, NEW r \in Reply, ShareReply(s[1], s[2], s[3], r)
      PROVE  ShareInv'
  <2>1. /\ share_due' \in SUBSET share_due
        /\ UNCHANGED next_id
    BY <1>7 DEF ShareReply
  <2>2. authenticated
    BY DEF IInv, SessionCoherent, LoginsGoToPools
  <2>3. share_to_worker' \in SUBSET share_to_worker
    BY <1>7, <2>2 DEF ShareReply, HandleResponse
  <2> QED
    BY <1>t, <2>1, <2>3, ShareQuiet
<1>8. ASSUME NEW fd \in Fds, NEW j, NEW F, JobPushed(fd, j, F)
      PROVE  ShareInv'
  BY <1>t, <1>8, ShareQuiet DEF JobPushed, requestVars
<1>9j. ASSUME NEW fd \in Fds, NEW j \in Jobs, JobCutShort(fd, j)
       PROVE  ShareInv'
  BY <1>t, <1>9j, ShareQuiet DEF JobCutShort, requestVars
<1>9. ASSUME NEW fd \in Fds, PoolLineIgnored(fd)
      PROVE  ShareInv'
  BY <1>t, <1>9, ShareQuiet DEF PoolLineIgnored, poolVars, requestVars
<1>10. ASSUME NEW fd \in Fds, NEW F, WorkerAccepted(fd, F) \/ WorkerTalks(fd, F)
       PROVE  ShareInv'
  BY <1>t, <1>10, ShareQuiet DEF WorkerAccepted, WorkerTalks, poolVars, requestVars
<1>11. ASSUME NEW fd \in Fds, NEW w \in Workers, NEW F \in SUBSET Fds,
              NEW out, WorkerSubmits(fd, w, F, out)
       PROVE  ShareInv'
  <2> DEFINE cs == MarkForClosing(conns, F)
  <2>1. SubmitShare(w, out, cs)
    BY <1>11 DEF WorkerSubmits
  <2> HIDE DEF cs
  <2>2. CASE UNCHANGED poolVars
    BY <1>t, <2>2, ShareQuiet DEF poolVars, requestVars
  <2>3. CASE ~UNCHANGED poolVars
    <3>1. /\ next_id' = next_id + 1
          /\ share_to_worker' =
               {e \in share_to_worker : e[1] # next_id} \cup {<<next_id, w>>}
          /\ share_due' \subseteq share_due \cup {<<g, next_id, w>> : g \in Target(cs)}
      BY <2>1, <2>3 DEF SubmitShare
    <3>2. next_id \in Nat /\ (\A s \in share_due : s[2] \in Nat)
      BY <1>t DEF PoolTypeOK
    <3>3. \A e \in share_to_worker : e[1] \in Nat
      BY <1>t DEF PoolTypeOK
    <3>4. \A e \in share_to_worker : e[1] # next_id
      BY <3>2, <3>3 DEF ShareInv
    <3>5. \A s \in share_due : s[2] # next_id
      BY <3>2 DEF ShareInv
    <3>6. share_to_worker' = share_to_worker \cup {<<next_id, w>>}
      BY <3>1, <3>4
    <3>7. \A s \in share_due' :
            \/ s \in share_due /\ s[2] # next_id
            \/ s = <<pool_fd, next_id, w>>
      BY <3>1, <3>5 DEF Target
    <3>8. ShareAttribution'
      BY <3>4, <3>6, <3>7 DEF ShareInv, ShareAttribution
    <3>9. \A e \in share_to_worker' : e[1] < next_id'
      BY <3>1, <3>2, <3>3, <3>6 DEF ShareInv
    <3>10. \A s \in share_due' : s[2] < next_id'
      BY <3>1, <3>2, <3>7 DEF ShareInv
    <3>11. \A s, t \in share_due' : s[2] = t[2] => s = t
      BY <3>7 DEF ShareInv
    <3> QED
      BY <3>8, <3>9, <3>10, <3>11 DEF ShareInv
  <2> QED
    BY <2>2, <2>3
<1>12. CASE UNCHANGED vars
  BY <1>t, <1>12, ShareQuiet DEF vars, poolVars, requestVars
<1> QED
  BY <1>d, <1>1, <1>2, <1>3, <1>4, <1>5, <1>6, <1>7, <1>8, <1>9j, <1>9, <1>10, <1>11, <1>12
     DEF PoolNext, PoolStep, WorkerSideStep, Exited

\* A reply that has the id of its share is credited to the worker that submitted
\* the share, or to nobody.
THEOREM ShareAttributionCorrect == PoolSpec => []ShareAttribution
<1>1. PoolInit => ShareInv
  BY DEF PoolInit, ShareInv, ShareAttribution
<1>2. IInv /\ ShareInv /\ [PoolNext]_vars => ShareInv'
  BY ShareStep
<1>3. ShareInv => ShareAttribution
  BY DEF ShareInv
<1> QED
  BY <1>1, <1>2, <1>3, Invariance, PTL DEF PoolSpec

-----------------------------------------------------------------------------
(* PoolManager implements PoolSession (its safety part).                   *)

AnyAttempt == \E fd \in Fds : Attempting(fd)

LEMMA SessionValues ==
  /\ authenticated => Session = "online"
  /\ ~authenticated /\ timers > 0 => Session = "backoff"
  /\ ~authenticated /\ ~(timers > 0) /\ timers = 0 /\ AnyAttempt => Session = "attempting"
  /\ ~authenticated /\ ~(timers > 0) /\ ~AnyAttempt => Session = "stalled"
  BY DEF Session, AnyAttempt

LEMMA SessionValuesPrime ==
  /\ authenticated' => Session' = "online"
  /\ ~authenticated' /\ timers' > 0 => Session' = "backoff"
  /\ ~authenticated' /\ ~(timers' > 0) /\ timers' = 0 /\ AnyAttempt' => Session' = "attempting"
  /\ ~authenticated' /\ ~(timers' > 0) /\ ~AnyAttempt' => Session' = "stalled"
  BY DEF Session, AnyAttempt

\* The abstract step that a concrete step maps to.
AbstractStep == Abstract!Next \/ UNCHANGED <<Session, reconnect_attempts>>

(* Nothing PoolManager is told of happens; an attempt may quietly end.     *)
LEMMA SilentStep ==
  ASSUME IInv, IInv', UNCHANGED <<timers, reconnect_attempts>>,
         UNCHANGED authenticated, AnyAttempt' => AnyAttempt
  PROVE  AbstractStep
<1>1. timers \in Nat /\ timers' \in Nat
  BY DEF IInv, PoolTypeOK, LoopTypeOK
<1>2. timers' = timers /\ reconnect_attempts' = reconnect_attempts
  OBVIOUS
<1>3. CASE Session' = Session
  BY <1>2, <1>3 DEF AbstractStep
<1>4. CASE Session = "attempting" /\ Session' = "stalled"
  BY <1>2, <1>4 DEF AbstractStep, Abstract!Next, Abstract!GoSilent
<1>5. Session' = Session \/ (Session = "attempting" /\ Session' = "stalled")
  <2>1. CASE authenticated
    BY <2>1, SessionValues, SessionValuesPrime
  <2>2. CASE ~authenticated /\ timers > 0
    BY <1>2, <2>2, SessionValues, SessionValuesPrime
  <2>3. CASE ~authenticated /\ ~(timers > 0)
    <3>1. timers = 0 /\ timers' = 0
      BY <1>1, <1>2, <2>3
    <3> QED
      BY <1>2, <2>3, <3>1, SessionValues, SessionValuesPrime
  <2> QED
    BY <2>1, <2>2, <2>3
<1> QED
  BY <1>3, <1>4, <1>5

(* The attempt fails and PoolManager is told.                              *)
LEMMA ErrorStep ==
  ASSUME IInv, IInv', NEW cs, OnPoolError(cs), AnyAttempt
  PROVE  AbstractStep
<1>1. timers \in Nat /\ timers' \in Nat /\ reconnect_attempts \in 0..MaxAttempts
  BY DEF IInv, PoolTypeOK, LoopTypeOK
<1>2. timers = 0 /\ ~authenticated
  BY DEF IInv, SingleAttempt, AnyAttempt
<1>3. Session = "attempting"
  BY <1>2, SessionValues, SessionValuesPrime
<1>4. ~authenticated'
  BY DEF OnPoolError, set_timeout
<1>5. CASE /\ reconnect_attempts < MaxAttempts
           /\ reconnect_attempts' = reconnect_attempts + 1
           /\ timers' = timers + 1
  <2>1. timers' > 0
    BY <1>2, <1>5
  <2>2. Session' = "backoff"
    BY <1>4, <2>1, SessionValues, SessionValuesPrime
  <2> QED
    BY <1>3, <1>5, <2>2 DEF AbstractStep, Abstract!Next, Abstract!RetryLater
<1>6. CASE /\ reconnect_attempts >= MaxAttempts
           /\ reconnect_attempts' = 0
           /\ UNCHANGED timers
  <2>1. timers' = 0 /\ ~(timers' > 0) /\ reconnect_attempts = MaxAttempts
    BY <1>1, <1>2, <1>6, PoolAssumption
  <2>2. Session' \in {"attempting", "stalled"}
    BY <1>4, <2>1, SessionValues, SessionValuesPrime
  <2> QED
    BY <1>3, <1>6, <2>1, <2>2 DEF AbstractStep, Abstract!Next, Abstract!NextPool
<1> QED
  BY <1>5, <1>6 DEF OnPoolError, set_timeout

LEMMA RefinementStep == IInv /\ IInv' /\ [PoolNext]_vars => AbstractStep
<1> SUFFICES ASSUME IInv, IInv', [PoolNext]_vars PROVE AbstractStep
  OBVIOUS
<1>d. ready \in SUBSET Fds /\ login_due \in SUBSET Fds
  BY DEF IInv, PoolTypeOK, LoopTypeOK
<1>t. /\ conns \in [Fds -> Conn] /\ login_due \in SUBSET Fds
      /\ timers \in Nat /\ timers' \in Nat
  BY DEF IInv, PoolTypeOK, LoopTypeOK
<1>m. \A F : \A g \in Fds : /\ MarkForClosing(conns, F)[g].type = conns[g].type
                           /\ MarkForClosing(conns, F)[g].state = conns[g].state
  BY <1>t, TableFields
<1>s. ASSUME \A g \in Fds : /\ conns'[g].type = conns[g].type
                            /\ conns'[g].state = conns[g].state,
             login_due' \in SUBSET login_due,
             UNCHANGED <<timers, reconnect_attempts>>, UNCHANGED authenticated
      PROVE  AbstractStep
  <2>1. AnyAttempt' => AnyAttempt
    BY <1>s DEF AnyAttempt, Attempting
  <2> QED
    BY <1>s, <2>1, SilentStep
<1>1. CASE LoopStep /\ UNCHANGED poolVars
  <2>1. \A g \in Fds : conns'[g].type = conns[g].type /\ conns'[g].state = conns[g].state
    BY <1>1, <1>m DEF LoopStep, Poll, Hangup, ReadFails, HandlerDone, NoAccept,
       TimeoutsDone
  <2>2. UNCHANGED timers
    BY <1>1 DEF LoopStep, Poll, Hangup, ReadFails, HandlerDone, NoAccept,
       TimeoutsDone
  <2> QED
    BY <1>1, <1>s, <2>1, <2>2 DEF poolVars, sessionVars, requestVars
<1>2. CASE PoolCleanup
  <2>1. \A g \in Fds : conns'[g] = IF conns[g].closing THEN NoConn ELSE conns[g]
    BY <1>2, <1>t, TableFields DEF PoolCleanup, CleanupClosed
  <2>2. login_due' \in SUBSET login_due
    BY <1>2 DEF PoolCleanup
  <2>3. AnyAttempt' => AnyAttempt
    BY <2>1, <2>2 DEF AnyAttempt, Attempting, NoConn
  <2> QED
    BY <1>2, <2>3, SilentStep DEF PoolCleanup, CleanupClosed, sessionVars
<1>3. CASE Reconnect
  <2>1. timers > 0 /\ timers' = 0 /\ ~(timers' > 0)
    BY <1>3, <1>t DEF Reconnect, IInv, SingleAttempt
  <2>2. /\ ~authenticated /\ ~authenticated'
        /\ reconnect_attempts' = reconnect_attempts
    BY <1>3, <1>t, <2>1 DEF Reconnect, sessionVars, IInv, SingleAttempt
  <2>3. Session = "backoff" /\ Session' \in {"attempting", "stalled"}
    BY <2>1, <2>2, SessionValues, SessionValuesPrime
  <2> QED
    BY <2>2, <2>3 DEF AbstractStep, Abstract!Next, Abstract!Retry
<1>4. ASSUME NEW fd \in Fds, NEW out, HandshakeDone(fd, out)
      PROVE  AbstractStep
  <2>1. AnyAttempt
    BY <1>4 DEF HandshakeDone, AnyAttempt, Attempting
  <2> QED
    BY <1>4, <2>1, SilentStep DEF HandshakeDone, sessionVars
<1>5. ASSUME NEW fd \in Fds, HandshakeFails(fd)
      PROVE  AbstractStep
  <2>1. CASE conns[fd].state = "CONNECTING"
    <3>1. AnyAttempt
      BY <1>5, <2>1 DEF HandshakeFails, AnyAttempt, Attempting
    <3> QED
      BY <1>5, <2>1, <3>1, ErrorStep DEF HandshakeFails
  <2>2. CASE conns[fd].state # "CONNECTING"
    <3> DEFINE cs == SetState(conns, fd, "ERROR")
    <3>1. conns[fd].state = "ERROR" /\ conns' = MarkForClosing(cs, {fd})
      BY <1>5, <2>2 DEF HandshakeFails
    <3>2. cs \in [Fds -> Conn] /\ \A g \in Fds :
            cs[g].type = conns[g].type /\ cs[g].state = conns[g].state
      BY <1>t, <3>1, TableFields, TableTypes DEF ConnState
    <3> HIDE DEF cs
    <3>3. \A g \in Fds : conns'[g].type = conns[g].type /\ conns'[g].state = conns[g].state
      BY <3>1, <3>2, TableFields
    <3> QED
      BY <1>5, <1>s, <2>2, <3>3 DEF HandshakeFails, sessionVars, requestVars
  <2> QED
    BY <2>1, <2>2
<1>6. ASSUME NEW fd \in Fds, NEW r \in Reply, NEW j, NEW F, LoginReply(fd, r, j, F)
      PROVE  AbstractStep
  <2>1. AnyAttempt /\ HandleResponse(0, r, j, F) /\ login_due' \in SUBSET login_due
    BY <1>6 DEF LoginReply, PoolLine, AnyAttempt, Attempting
  <2>2. timers = 0 /\ ~(timers > 0) /\ ~authenticated
    BY <1>t, <2>1 DEF IInv, SingleAttempt, AnyAttempt
  <2>3. CASE LoginWithJob(r, j, F) \/ LoginStatusOk
    <3>1. authenticated' /\ reconnect_attempts' \in {0, reconnect_attempts}
      BY <2>3 DEF LoginWithJob, LoginStatusOk
    <3>2. Session = "attempting" /\ Session' = "online"
      BY <2>1, <2>2, <3>1, SessionValues, SessionValuesPrime
    <3> QED
      BY <3>1, <3>2 DEF AbstractStep, Abstract!Next, Abstract!LogIn
  <2>4. CASE OnPoolError(conns)
    BY <2>1, <2>4, ErrorStep
  <2>5. CASE UNCHANGED <<conns, timers, sessionVars>>
    BY <1>s, <2>1, <2>5 DEF sessionVars
  <2> QED
    BY <2>1, <2>3, <2>4, <2>5 DEF HandleResponse
<1>7. ASSUME NEW s \in share_due, NEW r \in Reply, ShareReply(s[1], s[2], s[3], r)
      PROVE  AbstractStep
  <2>1. authenticated
    BY DEF IInv, SessionCoherent, LoginsGoToPools
  <2>2. UNCHANGED <<conns, timers, sessionVars, login_due>>
    BY <1>7, <2>1 DEF ShareReply, HandleResponse
  <2> QED
    BY <1>s, <2>2 DEF sessionVars
<1>8. ASSUME NEW fd \in Fds, NEW j, NEW F, JobPushed(fd, j, F)
      PROVE  AbstractStep
  <2>1. \A g \in Fds : conns'[g].type = conns[g].type /\ conns'[g].state = conns[g].state
    BY <1>8, <1>m DEF JobPushed, PassJobOn
  <2> QED
    BY <1>8, <1>s, <2>1 DEF JobPushed, requestVars
<1>9j. ASSUME NEW fd \in Fds, NEW j \in Jobs, JobCutShort(fd, j)
       PROVE  AbstractStep
  BY <1>9j, <1>s DEF JobCutShort, sessionVars, requestVars
<1>9. ASSUME NEW fd \in Fds, PoolLineIgnored(fd)
      PROVE  AbstractStep
  BY <1>9, <1>s DEF PoolLineIgnored, poolVars, sessionVars, requestVars
<1>10. ASSUME NEW fd \in Fds, NEW F, WorkerAccepted(fd, F)
       PROVE  AbstractStep
  <2> DEFINE cs == AddConnection(conns, fd, "WORKER", "CONNECTED")
  <2>1. cs \in [Fds -> Conn] /\ \A g \in Fds :
          cs[g] = IF g = fd THEN [type |-> "WORKER", state |-> "CONNECTED",
                                  closing |-> FALSE]
                            ELSE conns[g]
    BY <1>t, TableFields, TableTypes DEF ConnType, ConnState
  <2>2. conns' = MarkForClosing(cs, F) /\ UNCHANGED login_due
        /\ UNCHANGED <<timers, reconnect_attempts>> /\ UNCHANGED authenticated
    BY <1>10 DEF WorkerAccepted, poolVars, sessionVars, requestVars
  <2> HIDE DEF cs
  <2>3. \A g \in Fds : conns'[g].type = cs[g].type /\ conns'[g].state = cs[g].state
    BY <2>1, <2>2, TableFields
  <2>4. AnyAttempt' => AnyAttempt
    BY <2>1, <2>2, <2>3 DEF AnyAttempt, Attempting
  <2> QED
    BY <2>2, <2>4, SilentStep
<1>11. ASSUME NEW fd \in Fds, NEW F, WorkerTalks(fd, F)
       PROVE  AbstractStep
  <2>1. \A g \in Fds : conns'[g].type = conns[g].type /\ conns'[g].state = conns[g].state
    BY <1>11, <1>m DEF WorkerTalks
  <2> QED
    BY <1>11, <1>s, <2>1 DEF WorkerTalks, poolVars, sessionVars, requestVars
<1>12. ASSUME NEW fd \in Fds, NEW w, NEW F, NEW out, WorkerSubmits(fd, w, F, out)
       PROVE  AbstractStep
  <2> DEFINE cs == MarkForClosing(conns, F)
  <2>1. SubmitShare(w, out, cs) /\ UNCHANGED timers
    BY <1>12 DEF WorkerSubmits
  <2>2. cs \in [Fds -> Conn]
    BY <1>t, TableTypes
  <2> HIDE DEF cs
  <2>3. \A g \in Fds : conns'[g].type = cs[g].type /\ conns'[g].state = cs[g].state
    BY <2>1, <2>2, TableFields DEF SubmitShare, AfterSend
  <2>4. \A g \in Fds : conns'[g].type = conns[g].type /\ conns'[g].state = conns[g].state
    BY <1>m, <2>3 DEF cs
  <2>5. UNCHANGED <<sessionVars, login_due>>
    BY <2>1 DEF SubmitShare, poolVars, requestVars
  <2> QED
    BY <1>s, <2>1, <2>4, <2>5 DEF sessionVars
<1>13. CASE UNCHANGED vars
  BY <1>13, <1>s DEF vars, loopVars, poolVars, sessionVars, requestVars
<1> QED
  BY <1>d, <1>1, <1>2, <1>3, <1>4, <1>5, <1>6, <1>7, <1>8, <1>9j, <1>9, <1>10, <1>11, <1>12,
     <1>13 DEF PoolNext, PoolStep, WorkerSideStep, Exited

\* Every behaviour of PoolManager is one of PoolSession: retries are counted and
\* bounded, an attempt is never made while another is pending, and a session is
\* never given up.
THEOREM ImplementsSession == PoolSpec => Abstract!SafeSpec
<1>1. PoolInit => Abstract!Init
  <2> SUFFICES ASSUME PoolInit PROVE Abstract!Init
    OBVIOUS
  <2>1. /\ ~authenticated /\ ~(timers > 0) /\ timers = 0
        /\ reconnect_attempts = 0
    BY DEF PoolInit
  <2>2. Session \in {"attempting", "stalled"}
    BY <2>1, SessionValues
  <2> QED
    BY <2>1, <2>2 DEF Abstract!Init
<1>2. IInv /\ IInv' /\ [PoolNext]_vars => [Abstract!Next]_(Abstract!vars)
  BY RefinementStep DEF AbstractStep, Abstract!vars
<1> QED
  BY <1>1, <1>2, Invariance, PTL DEF PoolSpec, Abstract!SafeSpec

-----------------------------------------------------------------------------
(* Connections stay put while poll_and_process walks its descriptors.      *)

\* ds has the connections of cs, and every mark for closing of cs.
Keeps(cs, ds) ==
  \A g \in OpenFds(cs) : ds[g].type = cs[g].type /\ (cs[g].closing => ds[g].closing)

LEMMA KeepsItself == ASSUME NEW cs PROVE Keeps(cs, cs)
  BY DEF Keeps

LEMMA KeepsTransitive ==
  ASSUME NEW cs, NEW ds, NEW es, Keeps(cs, ds), Keeps(ds, es)
  PROVE  Keeps(cs, es)
  BY DEF Keeps, OpenFds

LEMMA MarkKeeps ==
  ASSUME NEW cs \in [Fds -> Conn], NEW F
  PROVE  Keeps(cs, MarkForClosing(cs, F))
<1> SUFFICES ASSUME NEW g \in Fds
             PROVE  /\ MarkForClosing(cs, F)[g].type = cs[g].type
                    /\ cs[g].closing => MarkForClosing(cs, F)[g].closing
  BY DEF Keeps, OpenFds
<1>1. MarkForClosing(cs, F)[g]
        = IF g \in F THEN [cs[g] EXCEPT !.closing = TRUE] ELSE cs[g]
  BY DEF MarkForClosing
<1>2. cs[g] \in Conn
  OBVIOUS
<1> QED
  BY <1>1, <1>2 DEF Conn

LEMMA SetStateKeeps ==
  ASSUME NEW cs \in [Fds -> Conn], NEW fd \in Fds, NEW s
  PROVE  Keeps(cs, SetState(cs, fd, s))
<1> SUFFICES ASSUME NEW g \in Fds
             PROVE  /\ SetState(cs, fd, s)[g].type = cs[g].type
                    /\ cs[g].closing => SetState(cs, fd, s)[g].closing
  BY DEF Keeps, OpenFds
<1>1. SetState(cs, fd, s)[g] = IF g = fd THEN [cs[g] EXCEPT !.state = s] ELSE cs[g]
  BY DEF SetState
<1>2. cs[g] \in Conn
  OBVIOUS
<1> QED
  BY <1>1, <1>2 DEF Conn

LEMMA SendKeeps ==
  ASSUME NEW cs \in [Fds -> Conn], NEW out
  PROVE  Keeps(cs, AfterSend(cs, out))
  BY MarkKeeps, KeepsItself DEF AfterSend

LEMMA TryConnectKeeps ==
  ASSUME NEW cs \in [Fds -> Conn], NEW i, TryConnectPool(i, cs)
  PROVE  Keeps(cs, conns')
<1>1. CASE conns' = cs
  BY <1>1 DEF Keeps
<1>2. CASE \E fd \in Fds : /\ IsLowestFree(cs, fd)
                           /\ conns' = AddConnection(cs, fd, "POOL", "CONNECTING")
  <2>1. PICK fd \in Fds : /\ IsLowestFree(cs, fd)
                          /\ conns' = AddConnection(cs, fd, "POOL", "CONNECTING")
    BY <1>2
  <2>2. \A g \in OpenFds(cs) : g \in Fds /\ g # fd
    BY <2>1 DEF IsLowestFree, OpenFds
  <2>3. \A g \in Fds : g # fd => conns'[g] = cs[g]
    BY <2>1 DEF AddConnection
  <2> QED
    BY <2>2, <2>3 DEF Keeps
<1> QED
  BY <1>1, <1>2 DEF TryConnectPool

LEMMA PoolErrorKeeps ==
  ASSUME NEW cs \in [Fds -> Conn], OnPoolError(cs)
  PROVE  Keeps(cs, conns')
<1>1. CASE conns' = cs
  BY <1>1 DEF Keeps
<1>2. CASE TryConnectPool((current_pool_index + 1) % NumPools, cs)
  BY <1>2, TryConnectKeeps
<1> QED
  BY <1>1, <1>2 DEF OnPoolError, set_timeout

LEMMA DispatchKeeps ==
  IInv /\ [PoolNext]_vars /\ phase = "dispatch" /\ phase' = "dispatch"
    => Keeps(conns, conns')
<1> SUFFICES ASSUME IInv, [PoolNext]_vars, phase = "dispatch", phase' = "dispatch"
             PROVE  Keeps(conns, conns')
  OBVIOUS
<1>d. ready \in SUBSET Fds /\ login_due \in SUBSET Fds
  BY DEF IInv, PoolTypeOK, LoopTypeOK
<1>t. conns \in [Fds -> Conn]
  BY DEF IInv, PoolTypeOK, LoopTypeOK
<1>m. \A F : Keeps(conns, MarkForClosing(conns, F))
  BY <1>t, MarkKeeps
<1>s. ASSUME UNCHANGED conns
      PROVE  Keeps(conns, conns')
  BY <1>s, KeepsItself
<1>1. CASE LoopStep /\ UNCHANGED poolVars
  BY <1>1, <1>m, <1>s DEF LoopStep, Poll, Hangup, ReadFails, HandlerDone, NoAccept,
     TimeoutsDone
<1>2. ASSUME NEW fd \in Fds, NEW out, HandshakeDone(fd, out)
      PROVE  Keeps(conns, conns')
  <2> DEFINE cs == SetState(conns, fd, "CONNECTED")
  <2>1. conns' = AfterSend(cs, out)
    BY <1>2 DEF HandshakeDone
  <2>2. cs \in [Fds -> Conn] /\ Keeps(conns, cs)
    BY <1>t, SetStateKeeps, TableTypes DEF ConnState
  <2> HIDE DEF cs
  <2> QED
    BY <2>1, <2>2, SendKeeps, KeepsTransitive
<1>3. ASSUME NEW fd \in Fds, HandshakeFails(fd)
      PROVE  Keeps(conns, conns')
  <2> DEFINE c0 == SetState(conns, fd, "ERROR")
             cs == MarkForClosing(c0, {fd})
  <2>1. conns' = cs \/ OnPoolError(cs)
    BY <1>3 DEF HandshakeFails
  <2>2. c0 \in [Fds -> Conn] /\ Keeps(conns, c0)
    BY <1>t, SetStateKeeps, TableTypes DEF ConnState
  <2> HIDE DEF c0
  <2>3. cs \in [Fds -> Conn] /\ Keeps(conns, cs)
    BY <2>2, MarkKeeps, KeepsTransitive, TableTypes
  <2> HIDE DEF cs
  <2>4. Keeps(cs, conns')
    BY <2>1, <2>3, PoolErrorKeeps, KeepsItself
  <2> QED
    BY <2>3, <2>4, KeepsTransitive
<1>4. ASSUME NEW id, NEW r, NEW j, NEW F, HandleResponse(id, r, j, F)
      PROVE  Keeps(conns, conns')
  <2>1. CASE OnPoolError(conns)
    BY <1>t, <2>1, PoolErrorKeeps
  <2>2. CASE UNCHANGED conns \/ PassJobOn(F)
    BY <1>m, <1>s, <2>2 DEF PassJobOn
  <2> QED
    BY <1>4, <2>1, <2>2 DEF HandleResponse, LoginWithJob, LoginStatusOk
<1>5. ASSUME NEW fd \in Fds, NEW r, NEW j, NEW F, LoginReply(fd, r, j, F)
      PROVE  Keeps(conns, conns')
  BY <1>4, <1>5 DEF LoginReply
<1>6. ASSUME NEW s \in share_due, NEW r, ShareReply(s[1], s[2], s[3], r)
      PROVE  Keeps(conns, conns')
  BY <1>4, <1>6 DEF ShareReply
<1>7. ASSUME NEW fd \in Fds, NEW j, NEW F,
             \/ JobPushed(fd, j, F) \/ JobCutShort(fd, j)
             \/ PoolLineIgnored(fd) \/ WorkerTalks(fd, F)
      PROVE  Keeps(conns, conns')
  BY <1>7, <1>m, <1>s DEF JobPushed, JobCutShort, PoolLineIgnored,
     WorkerTalks, PassJobOn
<1>8. ASSUME NEW fd \in Fds, NEW w, NEW F, NEW out, WorkerSubmits(fd, w, F, out)
      PROVE  Keeps(conns, conns')
  <2> DEFINE cs == MarkForClosing(conns, F)
  <2>1. SubmitShare(w, out, cs)
    BY <1>8 DEF WorkerSubmits
  <2>2. cs \in [Fds -> Conn]
    BY <1>t, TableTypes
  <2> HIDE DEF cs
  <2>3. Keeps(cs, conns')
    BY <2>1, <2>2, SendKeeps, KeepsItself DEF SubmitShare
  <2> QED
    BY <1>m, <2>3, KeepsTransitive DEF cs
<1>9. CASE UNCHANGED vars
  BY <1>9, <1>s DEF vars, loopVars
<1> QED
  BY <1>d, <1>1, <1>2, <1>3, <1>5, <1>6, <1>7, <1>8, <1>9
     DEF PoolNext, PoolStep, WorkerSideStep, Exited, PoolCleanup, CleanupClosed,
         Reconnect, WorkerAccepted

\* A descriptor that poll() reported keeps its connection until the dispatch
\* is over, whatever the handlers before it in the array have done.
THEOREM PolledStaysPutCorrect == PoolSpec => PolledStaysPut
<1>1. IInv /\ [PoolNext]_vars
        => [phase = "dispatch" /\ phase' = "dispatch"
             => \A fd \in OpenFds(conns) : StaysPut(fd)]_vars
  BY DispatchKeeps DEF Keeps, StaysPut
<1> QED
  BY <1>1, Invariance, PTL DEF PoolSpec, PolledStaysPut

-----------------------------------------------------------------------------
(* What becomes of each connection of the table.                           *)

\* c and d: an entry before and after a step.  Opened(d) and the others are what
\* can become of it; Dialed is told apart because only a reconnect may do it.
Entry(c) ==
  /\ c.type = "NONE" => c = NoConn
  /\ c.type = "POOL" => c.state \in {"CONNECTING", "CONNECTED", "ERROR"}
  /\ c.type = "WORKER" => c.state = "CONNECTED"
  /\ c.state = "ERROR" => c.closing

Marked(c, d) ==
  d = c \/ (c.type # "NONE" /\ d = [c EXCEPT !.closing = TRUE])

Shaken(c, d) ==
  /\ c.type = "POOL" /\ c.state = "CONNECTING"
  /\ \E b \in BOOLEAN : d = [type |-> "POOL", state |-> "CONNECTED", closing |-> b]
  /\ c.closing => d.closing

Failed(c, d) ==
  /\ c.type = "POOL" /\ c.state \in {"CONNECTING", "ERROR"}
  /\ d = [type |-> "POOL", state |-> "ERROR", closing |-> TRUE]

Erased(c, d) == c.closing /\ d = NoConn

Dialed(c, d) ==
  c.type = "NONE" /\ d = [type |-> "POOL", state |-> "CONNECTING", closing |-> FALSE]

Accepted(c, d) ==
  /\ c.type = "NONE"
  /\ \E b \in BOOLEAN : d = [type |-> "WORKER", state |-> "CONNECTED", closing |-> b]

OldLives(c, d) == Marked(c, d) \/ Shaken(c, d) \/ Failed(c, d) \/ Erased(c, d)

\* A step of the table: nothing is dialed while the proxy is logged in.
TableStep ==
  \A g \in Fds : \/ OldLives(conns[g], conns'[g]) \/ Accepted(conns[g], conns'[g])
                 \/ ~authenticated /\ Dialed(conns[g], conns'[g])

LEMMA MarkEntry ==
  ASSUME NEW cs \in [Fds -> Conn], NEW F, NEW g \in Fds
  PROVE  MarkForClosing(cs, F)[g]
           = IF g \in F THEN [cs[g] EXCEPT !.closing = TRUE] ELSE cs[g]
  BY DEF MarkForClosing

LEMMA MarkedEntries ==
  ASSUME NEW cs \in [Fds -> Conn], NEW F, F \cap Fds \subseteq OpenFds(cs), NEW g \in Fds
  PROVE  Marked(cs[g], MarkForClosing(cs, F)[g])
  BY MarkEntry DEF Marked, OpenFds

LEMMA DialedEntries ==
  ASSUME NEW cs \in [Fds -> Conn], NEW i, TryConnectPool(i, cs), NEW g \in Fds
  PROVE  conns'[g] = cs[g] \/ Dialed(cs[g], conns'[g])
<1>1. CASE conns' = cs
  BY <1>1
<1>2. ASSUME NEW fd \in Fds, IsLowestFree(cs, fd),
             conns' = AddConnection(cs, fd, "POOL", "CONNECTING")
      PROVE  conns'[g] = cs[g] \/ Dialed(cs[g], conns'[g])
  <2>1. cs[fd].type = "NONE"
    BY <1>2 DEF IsLowestFree, OpenFds
  <2>2. conns'[g] = IF g = fd THEN [type |-> "POOL", state |-> "CONNECTING",
                                    closing |-> FALSE]
                              ELSE cs[g]
    BY <1>2 DEF AddConnection
  <2> QED
    BY <2>1, <2>2 DEF Dialed
<1> QED
  BY <1>1, <1>2 DEF TryConnectPool

LEMMA ErrorEntries ==
  ASSUME NEW cs \in [Fds -> Conn], OnPoolError(cs), NEW g \in Fds
  PROVE  conns'[g] = cs[g] \/ Dialed(cs[g], conns'[g])
<1>1. CASE conns' = cs
  BY <1>1
<1>2. CASE TryConnectPool((current_pool_index + 1) % NumPools, cs)
  BY <1>2, DialedEntries
<1> QED
  BY <1>1, <1>2 DEF OnPoolError, set_timeout

LEMMA SendEntries ==
  ASSUME NEW cs \in [Fds -> Conn], NEW out, NEW g \in Fds
  PROVE  Marked(cs[g], AfterSend(cs, out)[g])
  BY MarkedEntries DEF AfterSend, Target, Marked

LEMMA MarkRecord ==
  ASSUME NEW c \in Conn
  PROVE  [c EXCEPT !.closing = TRUE]
           = [type |-> c.type, state |-> c.state, closing |-> TRUE]
<1> DEFINE d == [c EXCEPT !.closing = TRUE]
           e == [type |-> c.type, state |-> c.state, closing |-> TRUE]
<1>1. d \in Conn /\ d.type = c.type /\ d.state = c.state /\ d.closing = TRUE
  BY DEF Conn
<1>2. e \in Conn /\ e.type = c.type /\ e.state = c.state /\ e.closing = TRUE
  BY DEF Conn
<1> HIDE DEF d, e
<1> QED
  BY <1>1, <1>2 DEF Conn

\* Two marks are one.
LEMMA MarkedTwice ==
  ASSUME NEW c \in Conn, NEW d, NEW e, Marked(c, d), Marked(d, e)
  PROVE  Marked(c, e)
  BY DEF Marked, Conn

\* The descriptors still to be handled are open, so no handler marks or revives an
\* entry that is empty.
ReadyOpen ==
  /\ ready \subseteq OpenFds(conns)
  /\ phase # "dispatch" => ready = {}

LEMMA ReadyStep == IInv /\ ReadyOpen /\ [PoolNext]_vars => ReadyOpen'
<1> SUFFICES ASSUME IInv, ReadyOpen, [PoolNext]_vars PROVE ReadyOpen'
  OBVIOUS
<1>d. ready \in SUBSET Fds /\ login_due \in SUBSET Fds /\ conns \in [Fds -> Conn]
  BY DEF IInv, PoolTypeOK, LoopTypeOK
<1>1. ASSUME NEW S \in SUBSET OpenFds(conns), Poll(S) PROVE ReadyOpen'
  BY <1>1 DEF Poll, ReadyOpen, OpenFds
<1>2. CASE PoolCleanup
  BY <1>2 DEF PoolCleanup, CleanupClosed, ReadyOpen, OpenFds
<1>3. CASE phase = "dispatch" /\ phase' = "dispatch" /\ ready' \subseteq ready
  <2>1. Keeps(conns, conns')
    BY <1>3, DispatchKeeps
  <2>2. \A g \in OpenFds(conns) : g \in OpenFds(conns)'
    BY <2>1 DEF Keeps, OpenFds
  <2> QED
    BY <1>3, <2>2 DEF ReadyOpen
<1>4. CASE phase # "dispatch" /\ phase' # "dispatch" /\ UNCHANGED ready
  BY <1>4 DEF ReadyOpen
<1>5. CASE UNCHANGED vars
  BY <1>5 DEF vars, loopVars, ReadyOpen, OpenFds
<1> QED
  BY <1>d, <1>1, <1>2, <1>3, <1>4, <1>5
     DEF PoolNext, PoolStep, WorkerSideStep, Exited, LoopStep, Hangup, ReadFails,
         HandlerDone, NoAccept, TimeoutsDone, Reconnect, HandshakeDone, HandshakeFails,
         LoginReply, ShareReply, JobPushed, JobCutShort, PoolLineIgnored, PoolLine,
         WorkerAccepted, WorkerTalks, WorkerSubmits, WorkerLine, InHandler, StayIn,
         LeaveHandler

LEMMA TableMoves == IInv /\ ReadyOpen /\ [PoolNext]_vars => TableStep
<1> SUFFICES ASSUME IInv, ReadyOpen, [PoolNext]_vars, NEW g \in Fds
             PROVE  \/ OldLives(conns[g], conns'[g]) \/ Accepted(conns[g], conns'[g])
                    \/ ~authenticated /\ Dialed(conns[g], conns'[g])
  BY DEF TableStep
<1> DEFINE Goal == \/ OldLives(conns[g], conns'[g]) \/ Accepted(conns[g], conns'[g])
                   \/ ~authenticated /\ Dialed(conns[g], conns'[g])
<1>d. ready \in SUBSET Fds /\ login_due \in SUBSET Fds
  BY DEF IInv, PoolTypeOK, LoopTypeOK
<1>t. conns \in [Fds -> Conn] /\ conns[g] \in Conn
  BY DEF IInv, PoolTypeOK, LoopTypeOK
<1>s. ASSUME UNCHANGED conns PROVE Goal
  BY <1>s DEF OldLives, Marked
<1>m. ASSUME NEW F, F \cap Fds \subseteq OpenFds(conns), conns' = MarkForClosing(conns, F)
      PROVE  Goal
  BY <1>m, <1>t, MarkedEntries DEF OldLives
<1>q. ASSUME NEW fd \in Fds, Attempting(fd) PROVE ~authenticated
  BY <1>q DEF IInv, SingleAttempt
<1>1. CASE LoopStep /\ UNCHANGED poolVars
  <2>1. ASSUME NEW S \in SUBSET OpenFds(conns), Poll(S) PROVE Goal
    BY <1>s, <2>1 DEF Poll
  <2>2. ASSUME NEW fd \in Fds, Hangup(fd) \/ ReadFails(fd) PROVE Goal
    <3>1. conns' = MarkForClosing(conns, {fd}) /\ fd \in OpenFds(conns)
      BY <2>2 DEF Hangup, ReadFails, InHandler, ReadyOpen
    <3> QED
      BY <1>m, <3>1
  <2> QED
    BY <1>1, <1>s, <2>1, <2>2 DEF LoopStep, HandlerDone, NoAccept, TimeoutsDone
<1>2. CASE PoolCleanup
  <2>1. conns'[g] = IF conns[g].closing THEN NoConn ELSE conns[g]
    BY <1>2, <1>t, TableFields DEF PoolCleanup, CleanupClosed
  <2> QED
    BY <2>1 DEF OldLives, Marked, Erased
<1>3. CASE Reconnect
  <2>1. ~authenticated
    BY <1>3 DEF Reconnect, IInv, SingleAttempt, PoolTypeOK, LoopTypeOK
  <2> QED
    BY <1>3, <1>t, <2>1, DialedEntries DEF Reconnect, OldLives, Marked
<1>4. ASSUME NEW fd \in Fds, NEW out, HandshakeDone(fd, out) PROVE Goal
  <2> DEFINE cs == SetState(conns, fd, "CONNECTED")
  <2>1. conns' = AfterSend(cs, out) /\ cs \in [Fds -> Conn]
    BY <1>4, <1>t, TableTypes DEF HandshakeDone, ConnState
  <2>2. Marked(cs[g], conns'[g])
    BY <2>1, SendEntries
  <2>3. cs[g] = IF g = fd THEN [conns[g] EXCEPT !.state = "CONNECTED"] ELSE conns[g]
    BY <1>t DEF SetState
  <2> HIDE DEF cs
  <2>4. CASE g = fd
    <3>1. conns[g].type = "POOL" /\ conns[g].state = "CONNECTING"
      BY <1>4, <2>4 DEF HandshakeDone
    <3>2. cs[g] = [type |-> "POOL", state |-> "CONNECTED", closing |-> conns[g].closing]
          /\ conns[g].closing \in BOOLEAN
      BY <1>t, <2>3, <2>4, <3>1 DEF Conn
    <3>3. \/ conns'[g] = cs[g]
          \/ conns'[g] = [type |-> "POOL", state |-> "CONNECTED", closing |-> TRUE]
      <4>1. conns'[g] = cs[g] \/ conns'[g] = [cs[g] EXCEPT !.closing = TRUE]
        BY <2>2 DEF Marked
      <4>2. cs[g] \in Conn /\ cs[g].type = "POOL" /\ cs[g].state = "CONNECTED"
        BY <2>1, <3>2
      <4> QED
        BY <4>1, <4>2, MarkRecord
    <3>4. \E b \in BOOLEAN :
            /\ conns'[g] = [type |-> "POOL", state |-> "CONNECTED", closing |-> b]
            /\ conns[g].closing => b
      BY <3>2, <3>3
    <3>5. Shaken(conns[g], conns'[g])
      BY <3>1, <3>4 DEF Shaken
    <3> QED
      BY <3>5 DEF OldLives
  <2>5. CASE g # fd
    BY <2>2, <2>3, <2>5 DEF OldLives
  <2> QED
    BY <2>4, <2>5
<1>5. ASSUME NEW fd \in Fds, HandshakeFails(fd) PROVE Goal
  <2> DEFINE c0 == SetState(conns, fd, "ERROR")
             cs == MarkForClosing(c0, {fd})
  <2>1. /\ conns' = cs \/ (conns[fd].state = "CONNECTING" /\ OnPoolError(cs))
        /\ conns[fd].type = "POOL" /\ conns[fd].state \in {"CONNECTING", "ERROR"}
    BY <1>5 DEF HandshakeFails
  <2>2. c0 \in [Fds -> Conn] /\ cs \in [Fds -> Conn]
    BY <1>t, TableTypes DEF ConnState
  <2>3. c0[g] = IF g = fd THEN [conns[g] EXCEPT !.state = "ERROR"] ELSE conns[g]
    BY <1>t DEF SetState
  <2>4. cs[g] = IF g = fd THEN [type |-> "POOL", state |-> "ERROR", closing |-> TRUE]
                          ELSE conns[g]
    <3>1. cs[g] = IF g = fd THEN [c0[g] EXCEPT !.closing = TRUE] ELSE c0[g]
      BY <2>2, MarkEntry
    <3>2. g = fd => c0[g].type = "POOL" /\ c0[g].state = "ERROR"
      BY <1>t, <2>1, <2>3 DEF Conn
    <3>3. c0[g] \in Conn
      BY <2>2
    <3> HIDE DEF c0, cs
    <3> QED
      BY <2>3, <3>1, <3>2, <3>3 DEF Conn
  <2> HIDE DEF c0, cs
  <2>5. \/ conns'[g] = cs[g]
        \/ ~authenticated /\ Dialed(cs[g], conns'[g])
    <3>1. CASE conns' = cs
      BY <3>1
    <3>2. CASE conns[fd].state = "CONNECTING" /\ OnPoolError(cs)
      BY <1>q, <2>1, <2>2, <3>2, ErrorEntries DEF Attempting
    <3> QED
      BY <2>1, <3>1, <3>2
  <2>6. CASE g = fd
    BY <2>1, <2>4, <2>5, <2>6 DEF OldLives, Failed, Dialed
  <2>7. CASE g # fd
    BY <2>4, <2>5, <2>7 DEF OldLives, Marked
  <2> QED
    BY <2>6, <2>7
<1>6. ASSUME NEW fd \in Fds, NEW r, NEW j, NEW F, LoginReply(fd, r, j, F) PROVE Goal
  <2>1. ~authenticated
    BY <1>6, <1>q DEF LoginReply, PoolLine, Attempting
  <2>2. CASE OnPoolError(conns)
    BY <1>t, <2>1, <2>2, ErrorEntries DEF OldLives, Marked
  <2>3. CASE UNCHANGED conns \/ PassJobOn(F)
    BY <1>m, <1>s, <2>3 DEF PassJobOn
  <2> QED
    BY <1>6, <2>2, <2>3 DEF LoginReply, HandleResponse, LoginWithJob, LoginStatusOk
<1>7. ASSUME NEW s \in share_due, NEW r \in Reply, ShareReply(s[1], s[2], s[3], r)
      PROVE  Goal
  <2>1. authenticated
    BY DEF IInv, SessionCoherent
  <2> QED
    BY <1>7, <1>s, <2>1 DEF ShareReply, HandleResponse
<1>8. ASSUME NEW fd \in Fds, NEW j, NEW F,
             \/ JobPushed(fd, j, F) \/ JobCutShort(fd, j)
             \/ PoolLineIgnored(fd) \/ WorkerTalks(fd, F)
      PROVE  Goal
  BY <1>8, <1>m, <1>s DEF JobPushed, JobCutShort, PoolLineIgnored, WorkerTalks, PassJobOn
<1>9. ASSUME NEW fd \in Fds, NEW F, WorkerAccepted(fd, F) PROVE Goal
  <2> DEFINE cs == AddConnection(conns, fd, "WORKER", "CONNECTED")
  <2>1. /\ conns' = MarkForClosing(cs, F) /\ conns[fd].type = "NONE"
        /\ F \subseteq OpenFds(conns) \cup {fd}
    BY <1>9 DEF WorkerAccepted, IsLowestFree, OpenFds
  <2>2. cs \in [Fds -> Conn]
    BY <1>t, TableTypes DEF ConnType, ConnState
  <2>3. cs[g] = IF g = fd THEN [type |-> "WORKER", state |-> "CONNECTED",
                                closing |-> FALSE] ELSE conns[g]
    BY <1>t DEF AddConnection
  <2> HIDE DEF cs
  <2>4. conns'[g] = IF g \in F THEN [cs[g] EXCEPT !.closing = TRUE] ELSE cs[g]
    BY <2>1, <2>2, MarkEntry
  <2>5. CASE g = fd
    <3>1. \/ conns'[g] = [type |-> "WORKER", state |-> "CONNECTED", closing |-> FALSE]
          \/ conns'[g] = [type |-> "WORKER", state |-> "CONNECTED", closing |-> TRUE]
      <4>1. cs[g] = [type |-> "WORKER", state |-> "CONNECTED", closing |-> FALSE]
        BY <2>3, <2>5
      <4>2. cs[g] \in Conn
        BY <2>2
      <4>3. cs[g].type = "WORKER" /\ cs[g].state = "CONNECTED"
        BY <4>1
      <4> QED
        BY <2>4, <4>1, <4>2, <4>3, MarkRecord
    <3>2. Accepted(conns[g], conns'[g])
      BY <2>1, <2>5, <3>1 DEF Accepted
    <3> QED
      BY <3>2
  <2>6. CASE g # fd
    BY <2>1, <2>3, <2>4, <2>6 DEF OldLives, Marked, OpenFds
  <2> QED
    BY <2>5, <2>6
<1>10. ASSUME NEW fd \in Fds, NEW w, NEW F, NEW out, WorkerSubmits(fd, w, F, out)
       PROVE  Goal
  <2> DEFINE cs == MarkForClosing(conns, F)
  <2>1. SubmitShare(w, out, cs) /\ F \cap Fds \subseteq OpenFds(conns)
    BY <1>10 DEF WorkerSubmits, WorkerLine, OpenFds
  <2>2. cs \in [Fds -> Conn] /\ Marked(conns[g], cs[g])
    BY <1>t, <2>1, TableTypes, MarkedEntries
  <2> HIDE DEF cs
  <2>3. Marked(cs[g], conns'[g])
    BY <2>1, <2>2, SendEntries DEF SubmitShare, Marked
  <2> QED
    BY <1>t, <2>2, <2>3, MarkedTwice DEF OldLives
<1>11. CASE UNCHANGED vars
  BY <1>11, <1>s DEF vars, loopVars
<1> QED
  BY <1>d, <1>1, <1>2, <1>3, <1>4, <1>5, <1>6, <1>7, <1>8, <1>9, <1>10, <1>11
     DEF PoolNext, PoolStep, WorkerSideStep, Exited

LEMMA EntryLives ==
  ASSUME PoolTypeOK, TableStep, NEW g \in Fds, Entry(conns[g])
  PROVE  Entry(conns'[g]) /\ (Life(g)!Next \/ UNCHANGED Life(g)!vars)
<1> DEFINE c == conns[g]
           d == conns'[g]
<1>t. /\ c \in Conn /\ c.closing \in BOOLEAN
      /\ c.type \in {"NONE", "POOL", "WORKER"}
  BY DEF PoolTypeOK, LoopTypeOK, Conn, ConnType
<1>e. Entry(c)
  OBVIOUS
<1>v. ASSUME d.type = c.type, d.state = c.state, d.closing = c.closing
      PROVE  UNCHANGED Life(g)!vars
  BY <1>v DEF Life!vars
<1>s. OldLives(c, d) \/ Accepted(c, d) \/ Dialed(c, d)
  BY DEF TableStep
<1>1. CASE Marked(c, d)
  <2>1. CASE d = c
    BY <1>v, <1>e, <2>1
  <2>2. CASE c.type # "NONE" /\ d = [c EXCEPT !.closing = TRUE]
    <3>1. d.type = c.type /\ d.state = c.state /\ d.closing = TRUE
      BY <1>t, <2>2 DEF Conn
    <3>2. Entry(d)
      BY <1>e, <2>2, <3>1 DEF Entry
    <3>3. c.closing \/ ~c.closing
      OBVIOUS
    <3>4. CASE c.closing
      BY <1>t, <1>v, <3>1, <3>2, <3>4
    <3>5. CASE ~c.closing
      BY <2>2, <3>1, <3>2, <3>5 DEF Life!Next, Life!Mark
    <3> QED
      BY <3>4, <3>5
  <2> QED
    BY <1>1, <2>1, <2>2 DEF Marked
<1>2. CASE Shaken(c, d)
  <2>1. /\ c.type = "POOL" /\ c.state = "CONNECTING"
        /\ d.type = "POOL" /\ d.state = "CONNECTED" /\ d.closing \in BOOLEAN
        /\ c.closing => d.closing
    BY <1>2 DEF Shaken
  <2>2. d.closing \in {c.closing, TRUE}
    BY <1>t, <2>1
  <2> QED
    BY <2>1, <2>2 DEF Entry, Life!Next, Life!HandshakeDone
<1>3. CASE Failed(c, d)
  <2>1. /\ c.type = "POOL" /\ c.state \in {"CONNECTING", "ERROR"}
        /\ d.type = "POOL" /\ d.state = "ERROR" /\ d.closing = TRUE
    BY <1>3 DEF Failed
  <2>2. Entry(d)
    BY <2>1 DEF Entry
  <2>3. CASE c.state = "CONNECTING"
    BY <2>1, <2>2, <2>3 DEF Life!Next, Life!HandshakeFails
  <2>4. CASE c.state = "ERROR"
    <3>1. c.closing = TRUE
      BY <1>t, <1>e, <2>4 DEF Entry
    <3> QED
      BY <1>v, <2>1, <2>2, <2>4, <3>1
  <2> QED
    BY <2>1, <2>3, <2>4
<1>4. CASE Erased(c, d)
  <2>1. c.closing /\ d.type = "NONE" /\ d.state = "DISCONNECTED" /\ d.closing = FALSE
    BY <1>4 DEF Erased, NoConn
  <2> QED
    BY <1>4, <2>1 DEF Erased, Entry, Life!Next, Life!Destroy
<1>5. CASE Dialed(c, d)
  <2>1. /\ c.type = "NONE" /\ c.state = "DISCONNECTED" /\ c.closing = FALSE
        /\ d.type = "POOL" /\ d.state = "CONNECTING" /\ d.closing = FALSE
    BY <1>5, <1>e DEF Dialed, Entry, NoConn
  <2> QED
    BY <2>1 DEF Entry, Life!Next, Life!Dial, Life!BornAs, Life!Absent
<1>6. CASE Accepted(c, d)
  <2>1. /\ c.type = "NONE" /\ c.state = "DISCONNECTED" /\ c.closing = FALSE
        /\ d.type = "WORKER" /\ d.state = "CONNECTED" /\ d.closing \in BOOLEAN
    BY <1>6, <1>e DEF Accepted, Entry, NoConn
  <2> QED
    BY <2>1 DEF Entry, Life!Next, Life!Accept, Life!BornAs, Life!Absent
<1> QED
  BY <1>s, <1>1, <1>2, <1>3, <1>4, <1>5, <1>6 DEF OldLives

TableInv == ReadyOpen /\ \A g \in Fds : Entry(conns[g])

LEMMA TableInit == PoolInit => TableInv /\ LivesBegin
<1> SUFFICES ASSUME PoolInit PROVE TableInv /\ LivesBegin
  OBVIOUS
<1>1. ASSUME NEW g \in Fds
      PROVE  \/ conns[g] = [type |-> "POOL", state |-> "CONNECTING", closing |-> FALSE]
             \/ conns[g] = NoConn
  BY DEF PoolInit
<1>2. ASSUME NEW g \in Fds PROVE Entry(conns[g]) /\ Life(g)!Init
  BY <1>1 DEF Entry, Life!Init, Life!Absent, NoConn
<1> QED
  BY <1>2 DEF PoolInit, TableInv, ReadyOpen, LivesBegin

LEMMA TableInvariance == PoolSpec => []TableInv
<1>1. IInv /\ TableInv /\ [PoolNext]_vars => TableInv'
  <2> SUFFICES ASSUME IInv, TableInv, [PoolNext]_vars PROVE TableInv'
    OBVIOUS
  <2>1. ReadyOpen' /\ TableStep
    BY ReadyStep, TableMoves DEF TableInv
  <2>2. \A g \in Fds : Entry(conns'[g])
    BY <2>1, EntryLives DEF TableInv, IInv
  <2> QED
    BY <2>1, <2>2 DEF TableInv
<1> QED
  BY <1>1, TableInit, Invariance, PTL DEF PoolSpec

\* Whatever the handlers, the owners and the workers do to the table, each of its
\* connections lives the life that Connection was shown to give it.
THEOREM ConnectionsLiveCorrect == PoolSpec => ConnectionsLive
<1>1. IInv /\ TableInv /\ [PoolNext]_vars
        => [LivesGoOn]_vars
  BY TableMoves, EntryLives DEF TableInv, IInv, LivesGoOn
<1> QED
  BY <1>1, TableInit, TableInvariance, Invariance, PTL DEF PoolSpec, ConnectionsLive

LEMMA OnlineOpensNoPool ==
  IInv /\ TableInv /\ [PoolNext]_vars /\ authenticated
    => ConnFds(conns', "POOL") \subseteq ConnFds(conns, "POOL")
<1> SUFFICES ASSUME IInv, TableInv, [PoolNext]_vars, authenticated,
                    NEW g \in Fds, conns'[g].type = "POOL"
             PROVE  conns[g].type = "POOL"
  BY DEF ConnFds
<1>1. OldLives(conns[g], conns'[g]) \/ Accepted(conns[g], conns'[g])
  BY TableMoves DEF TableInv, TableStep
<1>2. conns[g] \in Conn
  BY DEF IInv, PoolTypeOK, LoopTypeOK
<1>3. CASE Marked(conns[g], conns'[g])
  <2>1. CASE conns'[g] = conns[g]
    BY <2>1
  <2>2. CASE conns'[g] = [conns[g] EXCEPT !.closing = TRUE]
    BY <1>2, <2>2 DEF Conn
  <2> QED
    BY <1>3, <2>1, <2>2 DEF Marked
<1>4. CASE Shaken(conns[g], conns'[g]) \/ Failed(conns[g], conns'[g])
  BY <1>4 DEF Shaken, Failed
<1>5. CASE Erased(conns[g], conns'[g])
  BY <1>5 DEF Erased, NoConn
<1>6. CASE Accepted(conns[g], conns'[g])
  <2>1. conns'[g].type = "WORKER"
    BY <1>6 DEF Accepted
  <2> QED
    BY <2>1
<1> QED
  BY <1>1, <1>3, <1>4, <1>5, <1>6 DEF OldLives

\* No second connection to a pool is opened beside the session.
THEOREM NoPoolOpensOnlineCorrect == PoolSpec => NoPoolOpensOnline
<1>1. IInv /\ TableInv /\ [PoolNext]_vars
        => [authenticated => ConnFds(conns', "POOL") \subseteq ConnFds(conns, "POOL")]_vars
  BY OnlineOpensNoPool
<1> QED
  BY <1>1, TableInvariance, Invariance, PTL DEF PoolSpec, NoPoolOpensOnline

-----------------------------------------------------------------------------
(* Which connection owes the replies to shares.                            *)

LEMMA OwedQuiet ==
  ASSUME SharesOwedBySession, share_due' \in SUBSET share_due,
         UNCHANGED pool_fd \/ share_due = {}
  PROVE  SharesOwedBySession'
  BY DEF SharesOwedBySession

LEMMA OwedStep ==
  IInv /\ SharesOwedBySession /\ [PoolNext]_vars => SharesOwedBySession'
<1> SUFFICES ASSUME IInv, SharesOwedBySession, [PoolNext]_vars
             PROVE  SharesOwedBySession'
  OBVIOUS
<1>d. ready \in SUBSET Fds /\ login_due \in SUBSET Fds
  BY DEF IInv, PoolTypeOK, LoopTypeOK
\* With a share outstanding the proxy is logged in, and then pool_fd_ stays.
<1>1. UNCHANGED pool_fd \/ share_due = {}
  BY SessionStep DEF targetVars, IInv, SessionCoherent
<1>2. ASSUME NEW fd \in Fds, NEW w, NEW F, NEW out, WorkerSubmits(fd, w, F, out)
      PROVE  SharesOwedBySession'
  <2> DEFINE cs == MarkForClosing(conns, F)
  <2>1. SubmitShare(w, out, cs)
    BY <1>2 DEF WorkerSubmits
  <2> HIDE DEF cs
  <2>2. UNCHANGED pool_fd
    BY <2>1 DEF SubmitShare, poolVars, targetVars
  <2>3. share_due' \in {share_due, share_due \cup {<<g, next_id, w>> : g \in Target(cs)}}
    BY <2>1 DEF SubmitShare, poolVars, requestVars
  <2>4. \A g \in Target(cs) : <<g, next_id, w>>[1] = pool_fd
    BY DEF Target
  <2> QED
    BY <2>2, <2>3, <2>4 DEF SharesOwedBySession
<1>3. CASE share_due' \in SUBSET share_due
  BY <1>1, <1>3, OwedQuiet
<1>4. UNCHANGED poolVars \/ UNCHANGED requestVars => share_due' \in SUBSET share_due
  BY DEF poolVars, requestVars
<1> QED
  BY <1>d, <1>2, <1>3, <1>4
     DEF PoolNext, PoolStep, WorkerSideStep, Exited, PoolCleanup, Reconnect, HandshakeDone,
         HandshakeFails, LoginReply, ShareReply, JobPushed, JobCutShort, PoolLineIgnored,
         WorkerAccepted, WorkerTalks, vars

\* A share is forwarded on the connection of the session, and no reply is awaited
\* from an earlier pool when another one is taken.
THEOREM SharesOwedBySessionCorrect == PoolSpec => []SharesOwedBySession
<1>1. PoolInit => SharesOwedBySession
  BY DEF PoolInit, SharesOwedBySession
<1> QED
  BY <1>1, OwedStep, Invariance, PTL DEF PoolSpec

-----------------------------------------------------------------------------
(* States that PoolManager does not leave.                                 *)

\* The session's connection is gone, and nobody noticed: no state callback runs
\* when a connection is hung up or read to its end.
Lost == authenticated /\ pool_fd \notin ConnFds(conns, "POOL")

Waiting == timers = 0 /\ \A fd \in Fds : ~Attempting(fd)

\* Once the session's connection is lost, no failover comes, ever: no timer is
\* pending, no attempt is made, and the proxy goes on believing it is logged in.
THEOREM LossIsFinal == PoolSpec => [](Lost => [](Lost /\ Waiting))
<1>1. IInv /\ TableInv /\ Lost /\ [PoolNext]_vars => Lost'
  <2> SUFFICES ASSUME IInv, TableInv, Lost, [PoolNext]_vars PROVE Lost'
    OBVIOUS
  <2>1. authenticated' /\ UNCHANGED pool_fd
    BY SessionStep DEF Lost, targetVars
  <2>2. ConnFds(conns', "POOL") \subseteq ConnFds(conns, "POOL")
    BY OnlineOpensNoPool DEF Lost
  <2> QED
    BY <2>1, <2>2 DEF Lost, ConnFds
<1>2. IInv /\ Lost => Waiting
  BY DEF IInv, SingleAttempt, PoolTypeOK, LoopTypeOK, Lost, Waiting
<1> QED
  BY <1>1, <1>2, TableInvariance, Invariance, PTL DEF PoolSpec

Stalled == ~authenticated /\ Waiting

\* Once nobody is logging in and no retry is scheduled, it stays so: a pool that
\* hangs up before it answers the login, or a list none of whose pools can be
\* contacted, ends the upstream side for good.
THEOREM StallIsFinal == PoolSpec => [](Stalled => []Stalled)
<1>1. IInv /\ IInv' /\ Stalled /\ [PoolNext]_vars => Stalled'
  <2> SUFFICES ASSUME IInv, IInv', Stalled, [PoolNext]_vars PROVE Stalled'
    OBVIOUS
  <2>1. Session = "stalled"
    BY SessionValues DEF Stalled, Waiting, AnyAttempt
  <2>2. Session' = "stalled"
    BY <2>1, RefinementStep
       DEF AbstractStep, Abstract!Next, Abstract!RetryLater, Abstract!NextPool,
           Abstract!Retry, Abstract!LogIn, Abstract!GoSilent
  <2>3. timers' > 0 \/ (~(timers' > 0) /\ timers' = 0)
    BY DEF IInv, PoolTypeOK, LoopTypeOK
  <2>4. ~authenticated' /\ timers' = 0 /\ ~AnyAttempt'
    BY <2>2, <2>3, SessionValuesPrime
  <2> QED
    BY <2>4 DEF Stalled, Waiting, AnyAttempt
<1> QED
  BY <1>1, Invariance, PTL DEF PoolSpec

-----------------------------------------------------------------------------
(* When the loop ends.                                                     *)

Idle == ~listening /\ timers = 0 /\ OpenFds(conns) = {}

\* run() returns only when nothing is left to wait for: not while workers can
\* connect, a reconnect is pending, or any connection is open.
THEOREM EndsOnlyWhenIdle == PoolSpec => [](phase = "exited" => Idle)
<1> DEFINE EndInv == phase = "exited" => Idle
<1>1. PoolInit => EndInv
  BY DEF PoolInit
<1>2. IInv /\ EndInv /\ [PoolNext]_vars => EndInv'
  <2> SUFFICES ASSUME IInv, EndInv, [PoolNext]_vars, phase' = "exited" PROVE Idle'
    OBVIOUS
  <2>1. CASE TimeoutsDone
    BY <2>1 DEF TimeoutsDone, Idle, OpenFds
  <2>2. CASE UNCHANGED vars
    BY <2>2 DEF vars, loopVars, Idle, OpenFds
  <2> QED
    BY <2>1, <2>2
       DEF PoolNext, PoolStep, WorkerSideStep, Exited, LoopStep, Poll, Hangup, ReadFails,
           HandlerDone, NoAccept, PoolCleanup, CleanupClosed, Reconnect, HandshakeDone,
           HandshakeFails, LoginReply, ShareReply, JobPushed, JobCutShort,
           PoolLineIgnored, PoolLine, WorkerAccepted, WorkerTalks, WorkerSubmits,
           WorkerLine, InHandler, StayIn, LeaveHandler
<1> QED
  BY <1>1, <1>2, Invariance, PTL DEF PoolSpec

=============================================================================
