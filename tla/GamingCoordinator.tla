------------------------- MODULE GamingCoordinator -------------------------
(***************************************************************************)
(* The gaming-mining coordinator (modules/gaming-mining-coordinator.nix):  *)
(* it reads the state file of gaming detection every few seconds, scales   *)
(* the mining deployments of this node to 0 when a game starts, and is     *)
(* meant to scale them back to 1 some checks after the game has ended.     *)
(*                                                                         *)
(* The script runs under `set -euo pipefail`: a `kubectl scale` that fails *)
(* ends it, and systemd restarts it after 10 seconds with fresh local      *)
(* variables.  Replica counts live in the cluster and survive that.        *)
(*                                                                         *)
(* The desktop toggle (modules/mining-desktop-toggle.nix) scales one of    *)
(* the deployments by hand, whenever the user clicks: it reads the replica *)
(* count and then writes the other one, while the coordinator goes on.     *)
(***************************************************************************)
EXTENDS Integers

CONSTANTS
  Deployments,
  HysteresisCycles, \* hysteresisCycles
  DEPLOY,           \* the deployment that the toggle is for
  MaxKills,         \* bound: how often the script is killed
  MaxToggles        \* bound: how often the user clicks

ASSUME CoordinatorAssumption ==
  /\ HysteresisCycles \in Nat \ {0} /\ DEPLOY \in Deployments
  /\ MaxKills \in Nat /\ MaxToggles \in Nat

VARIABLES
  gaming,            \* external: what the state file says, 0 when it is missing or unreadable
  visible,           \* external: the deployments `kubectl get` finds
  replicas,          \* external: what the cluster was last told
  was_gaming,
  hysteresis_count,
  pc,                \* "check", "pausing", "resuming", or "dead"
  todo,              \* the deployments the loop of pc still has to visit
  skipped,           \* observation: those the last such loop did not find
  kills,
  click,             \* what the toggle is about to do, "none" when it does not run
  by_hand,           \* observation: started by the user and not scaled since
  toggles

worldVars  == <<gaming, visible>>
localVars  == <<was_gaming, hysteresis_count>>
scriptVars == <<localVars, pc, todo, skipped, kills>>
toggleVars == <<click, by_hand, toggles>>
vars       == <<worldVars, replicas, scriptVars, toggleVars>>

TypeOK ==
  /\ gaming \in {0, 1} /\ visible \in SUBSET Deployments
  /\ replicas \in [Deployments -> {0, 1}]
  /\ was_gaming \in {0, 1}
  /\ hysteresis_count \in 0..HysteresisCycles
  /\ pc \in {"check", "pausing", "resuming", "dead"}
  /\ todo \in SUBSET Deployments
  /\ skipped \in SUBSET Deployments
  /\ kills \in 0..MaxKills
  /\ click \in {"none", "start", "stop"}
  /\ by_hand \in SUBSET Deployments
  /\ toggles \in 0..MaxToggles

Init ==
  /\ gaming \in {0, 1} /\ visible \in SUBSET Deployments
  /\ replicas = [d \in Deployments |-> 1]
  /\ was_gaming = 0 /\ hysteresis_count = 0
  /\ pc = "check" /\ todo = {} /\ skipped = {} /\ kills = 0
  /\ click = "none" /\ by_hand = {} /\ toggles = 0

-----------------------------------------------------------------------------
(* One turn of main's loop.                                                *)

\* Which of its branches is taken: the first whose test is true.
Branch ==
  IF was_gaming = 0 /\ gaming = 1 THEN "game starts"
  ELSE IF was_gaming = 1 /\ gaming = 0 THEN "game ends"
  ELSE IF was_gaming = 1 /\ gaming = 0 /\ hysteresis_count > 0 THEN "countdown"
  ELSE IF was_gaming = 0 /\ gaming = 0 /\ hysteresis_count > 0 THEN "forget"
  ELSE "none"

Check ==
  LET loop == CASE Branch = "game starts" -> "pausing"
                [] Branch = "countdown" /\ hysteresis_count >= HysteresisCycles
                     -> "resuming"
                [] OTHER -> "check"
  IN
  /\ pc = "check"
  /\ pc' = loop
  /\ todo' = IF loop = "check" THEN {} ELSE Deployments
  /\ skipped' = IF loop = "check" THEN skipped ELSE {}
  /\ hysteresis_count' = CASE Branch = "game ends" -> 1
                           [] Branch = "forget"    -> 0
                           [] Branch = "countdown" /\ loop = "check"
                                -> hysteresis_count + 1
                           [] OTHER -> hysteresis_count
  /\ UNCHANGED <<worldVars, replicas, was_gaming, kills, toggleVars>>

-----------------------------------------------------------------------------
(* pause_mining and resume_mining, one scale_deployment at a time.          *)

Visit(d) == pc \in {"pausing", "resuming"} /\ d \in todo

\* Mutant of Scale: one replica less, not none.
Scale_ByOne(d) ==
  /\ Visit(d) /\ d \in visible
  /\ replicas' = [replicas EXCEPT ![d] = IF pc = "pausing" THEN @ - 1 ELSE @ + 1]
  /\ by_hand' = by_hand \ {d}
  /\ todo' = todo \ {d}
  /\ UNCHANGED <<worldVars, localVars, pc, skipped, kills, click, toggles>>

Scale(d) ==
  /\ Visit(d) /\ d \in visible
  /\ replicas' = [replicas EXCEPT ![d] = IF pc = "pausing" THEN 0 ELSE 1]
  /\ by_hand' = by_hand \ {d}
  /\ todo' = todo \ {d}
  /\ UNCHANGED <<worldVars, localVars, pc, skipped, kills, click, toggles>>

\* `kubectl get` fails, for whatever reason: taken for success.
Skip(d) ==
  /\ Visit(d) /\ d \notin visible
  /\ todo' = todo \ {d}
  /\ skipped' = skipped \cup {d}
  /\ UNCHANGED <<worldVars, replicas, localVars, pc, kills, toggleVars>>

\* Mutant of ScaleFails: the error is logged and the loop goes on.
ScaleFails_GoesOn(d) ==
  /\ Visit(d) /\ d \in visible
  /\ todo' = todo \ {d}
  /\ UNCHANGED <<worldVars, replicas, localVars, pc, skipped, kills, toggleVars>>

ScaleFails(d) ==
  /\ Visit(d) /\ d \in visible
  /\ pc' = "dead" /\ todo' = {}
  /\ UNCHANGED <<worldVars, replicas, localVars, skipped, kills, toggleVars>>

LoopEnds ==
  /\ pc \in {"pausing", "resuming"} /\ todo = {}
  /\ was_gaming' = IF pc = "pausing" THEN 1 ELSE 0
  /\ hysteresis_count' = 0
  /\ pc' = "check"
  /\ UNCHANGED <<worldVars, replicas, todo, skipped, kills, toggleVars>>

-----------------------------------------------------------------------------

\* Mutant of Restart: the game is remembered across the restart.
Restart_Remembers ==
  /\ pc = "dead"
  /\ pc' = "check"
  /\ was_gaming' = gaming
  /\ UNCHANGED <<worldVars, replicas, hysteresis_count, todo, skipped, kills, toggleVars>>

Kill ==
  /\ pc # "dead" /\ kills < MaxKills
  /\ kills' = kills + 1
  /\ pc' = "dead" /\ todo' = {}
  /\ UNCHANGED <<worldVars, replicas, localVars, skipped, toggleVars>>

Restart ==
  /\ pc = "dead"
  /\ was_gaming' = 0 /\ hysteresis_count' = 0
  /\ pc' = "check"
  /\ UNCHANGED <<worldVars, replicas, todo, skipped, kills, toggleVars>>

\* A game starts or ends, the state file comes and goes, and so does the cluster.
WorldChanges ==
  /\ gaming' \in {0, 1} /\ visible' \in SUBSET Deployments
  /\ UNCHANGED <<replicas, scriptVars, toggleVars>>

-----------------------------------------------------------------------------
(* toggle-3090-miner.                                                      *)

\* A `kubectl get` that fails counts as a deployment that is stopped.
ToggleReads ==
  /\ click = "none" /\ toggles < MaxToggles
  /\ toggles' = toggles + 1
  /\ click' = IF DEPLOY \in visible /\ replicas[DEPLOY] # 0 THEN "stop" ELSE "start"
  /\ UNCHANGED <<worldVars, replicas, scriptVars, by_hand>>

ToggleScales ==
  /\ click # "none" /\ DEPLOY \in visible
  /\ replicas' = [replicas EXCEPT ![DEPLOY] = IF click = "start" THEN 1 ELSE 0]
  /\ by_hand' = IF click = "start" THEN by_hand \cup {DEPLOY} ELSE by_hand \ {DEPLOY}
  /\ click' = "none"
  /\ UNCHANGED <<worldVars, scriptVars, toggles>>

ToggleFails ==
  /\ click # "none"
  /\ click' = "none"
  /\ UNCHANGED <<worldVars, replicas, scriptVars, by_hand, toggles>>

-----------------------------------------------------------------------------

Next ==
  \/ Check \/ LoopEnds
  \/ \E d \in Deployments : Scale(d) \/ Skip(d) \/ ScaleFails(d)
  \/ Kill \/ Restart
  \/ WorldChanges
  \/ ToggleReads \/ ToggleScales \/ ToggleFails

Spec == Init /\ [][Next]_vars

\* The script goes on and is restarted; a `kubectl scale` that is tried again
\* and again does not fail for ever.
Fairness ==
  /\ WF_vars(Check) /\ WF_vars(LoopEnds) /\ WF_vars(Restart)
  /\ \A d \in Deployments : SF_vars(Scale(d)) /\ WF_vars(Skip(d))

FairSpec == Spec /\ Fairness

-----------------------------------------------------------------------------
(* Properties.                                                             *)

\* While the coordinator takes mining for paused (it will not pause it again),
\* every deployment is at 0 but those it did not find and the one started by
\* hand, whatever scale failed, whenever the script died, and whatever a toggle
\* that read before the pause writes after it.
PausedWhenNoted ==
  was_gaming = 1 /\ pc = "check" =>
    \A d \in Deployments \ (skipped \cup by_hand) : replicas[d] = 0

\* While a game goes on, mining is paused ("pause K8s mining when gaming
\* detected", the description of the service), as long as the cluster can be
\* reached: a deployment that one `kubectl get` fails to find mines on.  So does
\* one started by hand since the first game, also when that game has ended.
PausedIfVisible ==
  [](visible = Deployments) /\ <>[](gaming = 1)
    => <>[](\A d \in Deployments : replicas[d] = 0 \/ d \in by_hand)

\* Some checks without a game after the last one, mining is resumed ("Number of
\* consecutive 'no gaming' checks before resuming mining"), at least when the
\* script runs all the time and the cluster can be reached.
ResumesAfterGame ==
  [](visible = Deployments /\ pc # "dead") /\ <>[](gaming = 0)
    => <>[](\A d \in Deployments : replicas[d] = 1)

=============================================================================
