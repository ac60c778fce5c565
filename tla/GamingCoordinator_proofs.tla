---------------------- MODULE GamingCoordinator_proofs ----------------------
(* Theorems about GamingCoordinator, for every set of deployments.         *)
EXTENDS GamingCoordinator, TLAPS

\* A pass over the deployments has done its work on those it has visited.
PassSoFar ==
  pc = "pausing" => \A d \in Deployments \ (todo \cup skipped \cup by_hand) : replicas[d] = 0

\* Mining is never resumed: the branch that would is shadowed by the one before.
NeverResuming == pc # "resuming"

\* Outside a pass nothing is left to visit.
NothingLeft == pc \in {"check", "dead"} => todo = {}

IInv == TypeOK /\ PassSoFar /\ NeverResuming /\ NothingLeft /\ PausedWhenNoted

\* A fresh coordinator satisfies the invariant.
LEMMA InitInv == Init => IInv
BY CoordinatorAssumption DEF Init, IInv, TypeOK, PassSoFar, NeverResuming, NothingLeft, PausedWhenNoted

\* Every command of the script, its end and its restart keep the invariant.
LEMMA StepInv == IInv /\ [Next]_vars => IInv'
<1> SUFFICES ASSUME IInv, [Next]_vars PROVE IInv'
  OBVIOUS
<1> USE CoordinatorAssumption
<1> USE DEF IInv, TypeOK, NeverResuming, NothingLeft, worldVars, localVars, toggleVars
<1>1. CASE Check
  <2>1. TypeOK' /\ NeverResuming' /\ NothingLeft'
    BY <1>1 DEF Check, Branch
  <2>2. PassSoFar'
    BY <1>1 DEF Check, Branch, PassSoFar
  <2>3. PausedWhenNoted'
    BY <1>1 DEF Check, Branch, PausedWhenNoted
  <2> QED BY <2>1, <2>2, <2>3
<1>2. CASE LoopEnds
  <2>1. TypeOK' /\ NeverResuming' /\ NothingLeft' /\ PassSoFar'
    BY <1>2 DEF LoopEnds, PassSoFar
  <2>2. PausedWhenNoted'
    BY <1>2 DEF LoopEnds, PassSoFar, PausedWhenNoted
  <2> QED BY <2>1, <2>2
<1>3. ASSUME NEW d \in Deployments, Scale(d) PROVE IInv'
  <2>1. TypeOK' /\ NeverResuming' /\ NothingLeft'
    BY <1>3 DEF Scale, Visit
  <2>2. PassSoFar'
    BY <1>3 DEF Scale, Visit, PassSoFar
  <2>3. PausedWhenNoted'
    BY <1>3 DEF Scale, Visit, PausedWhenNoted
  <2> QED BY <2>1, <2>2, <2>3
<1>4. ASSUME NEW d \in Deployments, Skip(d) PROVE IInv'
  BY <1>4 DEF Skip, Visit, PassSoFar, PausedWhenNoted
<1>5. ASSUME NEW d \in Deployments, ScaleFails(d) PROVE IInv'
  BY <1>5 DEF ScaleFails, Visit, PassSoFar, PausedWhenNoted
<1>6. CASE Kill
  BY <1>6 DEF Kill, PassSoFar, PausedWhenNoted
<1>7. CASE Restart
  BY <1>7 DEF Restart, PassSoFar, PausedWhenNoted
<1>8. CASE WorldChanges
  BY <1>8 DEF WorldChanges, scriptVars, PassSoFar, PausedWhenNoted
<1>9. CASE ToggleReads
  BY <1>9 DEF ToggleReads, scriptVars, PassSoFar, PausedWhenNoted
<1>10. CASE ToggleScales
  <2>1. TypeOK' /\ NeverResuming' /\ NothingLeft'
    BY <1>10 DEF ToggleScales, scriptVars
  <2>2. \A d \in Deployments \ by_hand' : replicas[d] = 0 => replicas'[d] = 0
    BY <1>10 DEF ToggleScales
  <2>3. by_hand \ {DEPLOY} \subseteq by_hand' /\ (DEPLOY \notin by_hand' => replicas'[DEPLOY] = 0)
    BY <1>10 DEF ToggleScales
  <2>4. PassSoFar' /\ PausedWhenNoted'
    BY <1>10, <2>2, <2>3 DEF ToggleScales, scriptVars, PassSoFar, PausedWhenNoted
  <2> QED BY <2>1, <2>4
<1>11. CASE ToggleFails
  BY <1>11 DEF ToggleFails, scriptVars, PassSoFar, PausedWhenNoted
<1>12. CASE UNCHANGED vars
  BY <1>12 DEF vars, scriptVars, PassSoFar, PausedWhenNoted
<1> QED
  BY <1>1, <1>2, <1>3, <1>4, <1>5, <1>6, <1>7, <1>8, <1>9, <1>10, <1>11,
     <1>12 DEF Next

\* The countdown never goes beyond HysteresisCycles, and no replica count but 0
\* and 1 is asked for.
THEOREM CoordinatorTypeCorrect == Spec => []TypeOK
BY InitInv, StepInv, PTL DEF Spec, IInv

\* The coordinator never takes mining for paused when a deployment it found is
\* still up, whatever scale failed and whenever the script died.
THEOREM PausedWhenNotedCorrect == Spec => []PausedWhenNoted
BY InitInv, StepInv, PTL DEF Spec, IInv

\* A deployment is scaled up by nothing but the toggle.
OnlyByHand == \A d \in Deployments : replicas'[d] > replicas[d] => ToggleScales

LEMMA StartedByHand == IInv /\ [Next]_vars => OnlyByHand
<1> SUFFICES ASSUME IInv, [Next]_vars, NEW d \in Deployments, replicas'[d] > replicas[d]
             PROVE  ToggleScales
  BY DEF OnlyByHand
<1>1. replicas[d] \in {0, 1}
  BY DEF IInv, TypeOK
<1>2. ASSUME NEW e \in Deployments, Scale(e) PROVE FALSE
  <2>1. replicas'[d] = replicas[d] \/ replicas'[d] = 0
    BY <1>2 DEF Scale, Visit, IInv, NeverResuming, TypeOK
  <2> QED
    BY <1>1, <2>1
<1>3. ASSUME UNCHANGED replicas PROVE FALSE
  BY <1>1, <1>3
<1> QED
  BY <1>2, <1>3 DEF Next, Check, LoopEnds, Skip, ScaleFails, Kill, Restart, WorldChanges,
     ToggleReads, ToggleFails, vars

\* Whatever games are played, only the user starts mining again: no step of any
\* run of the coordinator scales a deployment up.
THEOREM NeverResumes == Spec => [][OnlyByHand]_vars
BY InitInv, StepInv, StartedByHand, PTL DEF Spec

=============================================================================
