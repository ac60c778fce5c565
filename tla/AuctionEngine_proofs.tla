------------------------ MODULE AuctionEngine_proofs ------------------------
(* Theorems about AuctionEngine, for every set of services and of bids.     *)
EXTENDS AuctionEngine, TLAPS

\* TypeOK in two parts: gaming, the one Boolean variable, and the rest.
GamingOK == gaming \in BOOLEAN

DataOK ==
  /\ active \in SUBSET Services /\ restarting \in SUBSET Services
  /\ passed_over \in SUBSET Services
  /\ normal \in SUBSET Pods /\ urgent \in SUBSET Pods
  /\ current_winner \in {"none", "gaming", "mining", "kubernetes"}
  /\ paused_services \in SUBSET Services
  /\ pc \in Deciding \cup {"pausing", "resuming", "dead"}
  /\ listed \in SUBSET Pods /\ found \in SUBSET Pods
  /\ total_bid \in Nat
  /\ todo \in SUBSET Services
  /\ stopped \in Services \cup {NoService}
  /\ kills \in 0..MaxKills /\ crashes \in 0..MaxCrashes

\* A service is between `systemctl stop` and the record only while the loop of
\* pause_all_mining is at it.
StopUnderWay == stopped # NoService => pc = "pausing" /\ stopped \in todo

\* resume_mining has started every line of the file it has read.
ResumeSoFar == pc = "resuming" => paused_services \ todo \subseteq active \cup restarting

RecordInv == DataOK /\ StopUnderWay /\ ResumeSoFar /\ PausedOnRecord

\* The winner of an auction without a game is one of two bidders: akash never
\* outbids mining.
LEMMA WinnerType == ASSUME total_bid \in Nat
                    PROVE  Winner \in {"mining", "kubernetes"}
BY AuctionAssumption DEF Winner, bid_akash

LEMMA UrgentBidType == K8S_BASE_BID * K8S_URGENCY_MULT \in Nat
BY AuctionAssumption

LEMMA InitTyped == Init => GamingOK /\ DataOK
  <1> SUFFICES ASSUME Init PROVE GamingOK /\ DataOK
    OBVIOUS
  <1>1. GamingOK
    BY DEF Init, GamingOK
  <1>2. DataOK
    BY AuctionAssumption DEF Init, DataOK, Deciding
  <1> QED BY <1>1, <1>2

LEMMA GamingTyped == GamingOK /\ [Next]_vars => GamingOK'
  <1> SUFFICES ASSUME GamingOK, [Next]_vars PROVE GamingOK'
    OBVIOUS
  <1>1. CASE WorldChanges
    BY <1>1 DEF WorldChanges, GamingOK
  <1>2. CASE UNCHANGED gaming
    BY <1>2 DEF GamingOK
  <1> QED
    BY <1>1, <1>2 DEF Next, vars, worldVars, run_auction, GamingOverride, NoGame, ListPods,
       AskPhase, AskClass, WinnerChanges, WinnerStays, Stop, Skip, Start, CommandFails,
       Record, LoopEnds, Kill, Restart, Crash, ComesBack

LEMMA DataTyped == DataOK /\ [Next]_vars => DataOK'
  <1> SUFFICES ASSUME DataOK, [Next]_vars PROVE DataOK'
    OBVIOUS
  <1> USE AuctionAssumption
      DEF DataOK, Deciding, worldVars, stateVars, minerVars, bidVars, loopVars
  <1>1. CASE run_auction
    <2>1. CASE GamingOverride \/ NoGame \/ ListPods
      BY <2>1 DEF GamingOverride, NoGame, ListPods
    <2>2. ASSUME NEW p \in Pods, AskPhase(p)
          PROVE  DataOK'
      BY <2>2 DEF AskPhase
    <2>3. ASSUME NEW p \in Pods, AskClass(p)
          PROVE  DataOK'
      <3>1. total_bid' \in Nat
        BY <2>3, UrgentBidType DEF AskClass
      <3> QED BY <2>3, <3>1 DEF AskClass
    <2>4. CASE WinnerChanges
      BY <2>4, WinnerType DEF WinnerChanges
    <2>5. CASE WinnerStays
      BY <2>5 DEF WinnerStays
    <2> QED BY <1>1, <2>1, <2>2, <2>3, <2>4, <2>5 DEF run_auction
  <1>2. ASSUME NEW s \in Services, Stop(s) \/ Skip(s) \/ Start(s) \/ CommandFails(s)
        PROVE  DataOK'
    BY <1>2 DEF Stop, Skip, Start, CommandFails
  <1>3. CASE Record
    BY <1>3 DEF Record
  <1>4. CASE LoopEnds
    BY <1>4 DEF LoopEnds
  <1>5. CASE Kill
    BY <1>5 DEF Kill
  <1>6. CASE Restart
    BY <1>6 DEF Restart
  <1>7. CASE WorldChanges
    BY <1>7 DEF WorldChanges
  <1>8. ASSUME NEW s \in Services, Crash(s) \/ ComesBack(s)
        PROVE  DataOK'
    BY <1>8 DEF Crash, ComesBack
  <1>9. CASE UNCHANGED vars
    BY <1>9 DEF vars
  <1> QED
    BY <1>1, <1>2, <1>3, <1>4, <1>5, <1>6, <1>7, <1>8, <1>9 DEF Next

\* Only the names main knows become current_winner, and only mining services
\* are ever stopped, recorded or started.
THEOREM AuctionTypeCorrect == Spec => []TypeOK
  <1>1. (GamingOK /\ DataOK) => TypeOK
    BY Zenon DEF GamingOK, DataOK, TypeOK
  <1> QED
    BY <1>1, InitTyped, GamingTyped, DataTyped, PTL DEF Spec

-----------------------------------------------------------------------------

LEMMA InitRecorded == Init => RecordInv
BY InitTyped, AuctionAssumption DEF Init, RecordInv, StopUnderWay, ResumeSoFar,
   PausedOnRecord

LEMMA StepRecorded == RecordInv /\ [Next]_vars => RecordInv'
  <1> SUFFICES ASSUME RecordInv, [Next]_vars PROVE RecordInv'
    OBVIOUS
  <1>0. DataOK'
    BY DataTyped DEF RecordInv
  <1> USE AuctionAssumption, <1>0
      DEF RecordInv, DataOK, Deciding, worldVars, stateVars, minerVars, bidVars, loopVars,
          StopUnderWay, ResumeSoFar, PausedOnRecord
  <1>1. CASE run_auction
    <2>1. CASE GamingOverride
      BY <2>1 DEF GamingOverride
    <2>2. CASE NoGame \/ ListPods \/ WinnerStays
      BY <2>2 DEF NoGame, ListPods, AllBidsIn, WinnerStays
    <2>3. ASSUME NEW p \in Pods, AskPhase(p) \/ AskClass(p)
          PROVE  RecordInv'
      BY <2>3 DEF AskPhase, AskClass
    <2>4. CASE WinnerChanges
      BY <2>4, WinnerType DEF WinnerChanges, AllBidsIn
    <2> QED BY <1>1, <2>1, <2>2, <2>3, <2>4 DEF run_auction
  <1>2. ASSUME NEW s \in Services, Stop(s)
        PROVE  RecordInv'
    BY <1>2 DEF Stop
  <1>3. ASSUME NEW s \in Services, Skip(s) \/ Start(s) \/ CommandFails(s)
        PROVE  RecordInv'
    BY <1>3 DEF Skip, Start, CommandFails
  <1>4. CASE Record
    BY <1>4 DEF Record
  <1>5. CASE LoopEnds
    BY <1>5 DEF LoopEnds
  <1>6. CASE Kill
    BY <1>6 DEF Kill
  <1>7. CASE Restart
    BY <1>7 DEF Restart
  <1>8. CASE WorldChanges
    BY <1>8 DEF WorldChanges
  <1>9. ASSUME NEW s \in Services, Crash(s) \/ ComesBack(s)
         PROVE  RecordInv'
    BY <1>9 DEF Crash, ComesBack
  <1>10. CASE UNCHANGED vars
    BY <1>10 DEF vars
  <1> QED
    BY <1>1, <1>2, <1>3, <1>4, <1>5, <1>6, <1>7, <1>8, <1>9, <1>10 DEF Next

\* As long as the script is not killed between two commands, a systemctl that
\* fails, in a pause or in a resume, never makes it forget a service it stopped.
THEOREM PausedOnRecordCorrect == Spec => []PausedOnRecord
  <1>1. RecordInv => PausedOnRecord
    BY DEF RecordInv
  <1> QED
    BY <1>1, InitRecorded, StepRecorded, PTL DEF Spec

-----------------------------------------------------------------------------
(* The winner on file tells the truth.                                     *)

Running == active \cup restarting

\* systemd either runs a service or waits to restart it.
OneState == active \cap restarting = {}

\* A pause, which mining never orders, has dealt with the services it has visited.
PauseSoFar ==
  pc = "pausing" =>
    /\ current_winner \in {"gaming", "kubernetes"}
    /\ Running \ todo \subseteq passed_over
    /\ stopped \notin Running

\* Only mining resumes, and a resume that came to its end left no file behind.
NothingPaused ==
  /\ pc = "resuming" => current_winner = "mining"
  /\ pc \in Deciding /\ current_winner = "mining" => paused_services = {}

WinnerInv == RecordInv /\ OneState /\ PauseSoFar /\ NothingPaused /\ PauseApplied

LEMMA InitWinner == Init => WinnerInv
BY InitRecorded
   DEF Init, Deciding, WinnerInv, OneState, PauseSoFar, NothingPaused, PauseApplied

LEMMA StepWinner == WinnerInv /\ [Next]_vars => WinnerInv'
  <1> SUFFICES ASSUME WinnerInv, [Next]_vars PROVE WinnerInv'
    OBVIOUS
  <1>0. RecordInv'
    BY StepRecorded DEF WinnerInv
  <1> USE AuctionAssumption, <1>0
      DEF WinnerInv, RecordInv, DataOK, Deciding, worldVars, stateVars, minerVars, bidVars,
          loopVars, StopUnderWay, Running, OneState, PauseSoFar, NothingPaused, PauseApplied
  <1>1. CASE run_auction
    <2>1. CASE GamingOverride
      BY <2>1 DEF GamingOverride
    <2>2. CASE NoGame \/ ListPods \/ WinnerStays
      BY <2>2 DEF NoGame, ListPods, AllBidsIn, WinnerStays
    <2>3. ASSUME NEW p \in Pods, AskPhase(p) \/ AskClass(p)
          PROVE  WinnerInv'
      BY <2>3 DEF AskPhase, AskClass
    <2>4. CASE WinnerChanges
      BY <2>4, WinnerType DEF WinnerChanges, AllBidsIn
    <2> QED BY <1>1, <2>1, <2>2, <2>3, <2>4 DEF run_auction
  <1>2. ASSUME NEW s \in Services, Stop(s)
        PROVE  WinnerInv'
    BY <1>2 DEF Stop
  <1>3. ASSUME NEW s \in Services, Skip(s)
        PROVE  WinnerInv'
    BY <1>3 DEF Skip
  <1>4. ASSUME NEW s \in Services, Start(s) \/ CommandFails(s)
        PROVE  WinnerInv'
    BY <1>4 DEF Start, CommandFails
  <1>5. CASE Record
    BY <1>5 DEF Record
  <1>6. CASE LoopEnds
    BY <1>6 DEF LoopEnds
  <1>7. CASE Kill
    BY <1>7 DEF Kill
  <1>8. CASE Restart
    BY <1>8 DEF Restart
  <1>9. CASE WorldChanges
    BY <1>9 DEF WorldChanges
  <1>10. ASSUME NEW s \in Services, Crash(s) \/ ComesBack(s)
         PROVE  WinnerInv'
    BY <1>10 DEF Crash, ComesBack
  <1>11. CASE UNCHANGED vars
    BY <1>11 DEF vars
  <1> QED
    BY <1>1, <1>2, <1>3, <1>4, <1>5, <1>6, <1>7, <1>8, <1>9, <1>10, <1>11
       DEF Next

\* An auction that finds gaming or kubernetes on file, and so may leave the miners
\* alone, finds none running but those a pause passed over while they restarted.
THEOREM PauseAppliedCorrect == Spec => []PauseApplied
  <1>1. WinnerInv => PauseApplied
    BY DEF WinnerInv
  <1> QED
    BY <1>1, InitWinner, StepWinner, PTL DEF Spec

\* An auction that finds mining on file, and so starts nothing, finds every service
\* running, as long as nobody has killed the script.
THEOREM ResumeAppliedCorrect == Spec => []ResumeApplied
  <1>1. WinnerInv => ResumeApplied
    BY AuctionAssumption
       DEF WinnerInv, RecordInv, DataOK, Deciding, StopUnderWay, PausedOnRecord,
           NothingPaused, ResumeApplied
  <1> QED
    BY <1>1, InitWinner, StepWinner, PTL DEF Spec

=============================================================================
