--------------------------- MODULE AuctionEngine ---------------------------
(***************************************************************************)
(* The GPU auction engine (modules/compute-market.nix): every interval it  *)
(* picks a winner, and stops or restarts the mining services when the      *)
(* winner changes, or at every auction while a game runs.                  *)
(*                                                                         *)
(* It asks for games and pods with one command after another, each of      *)
(* which sees the world as it is by then.                                  *)
(*                                                                         *)
(* The script runs under `set -euo pipefail`, so a systemctl that fails    *)
(* ends it; systemd restarts it after 10 seconds.  It can also be killed   *)
(* between any two commands.  Its files in STATE_DIR survive both.         *)
(*                                                                         *)
(* The mining services (modules/mining.nix) have Restart=always: systemd   *)
(* brings a miner that crashes back after a while, in which it does not    *)
(* count as active.                                                        *)
(***************************************************************************)
EXTENDS Integers, FiniteSets

CONSTANTS
  Services,     \* MINING_SERVICES
  NoService,
  MINING_HOURLY,      \* what bid_mining echoes: 0 when mining is not enabled
  K8S_BASE_BID,       \* for one pod, in the unit of MINING_HOURLY
  K8S_URGENCY_MULT,
  Pods,               \* the GPU pods there may be on this node
  MaxKills,           \* bound: how often the script is killed
  MaxCrashes          \* bound: how often a miner crashes

ASSUME AuctionAssumption ==
  /\ NoService \notin Services
  /\ MINING_HOURLY \in Nat /\ K8S_BASE_BID \in Nat /\ K8S_URGENCY_MULT \in Nat
  /\ IsFiniteSet(Pods)
  /\ MaxKills \in Nat /\ MaxCrashes \in Nat

VARIABLES
  active,           \* external: the services that systemd runs
  restarting,       \* external: those that crashed and wait for RestartSec
  gaming,           \* external: what check_gaming sees
  normal, urgent,   \* external: the running pods kubectl shows, by priority class
  current_winner,   \* the file of that name
  paused_services,  \* the file, as the set of its lines
  pc,               \* where the script is
  listed,           \* the pods of this auction's list not yet asked about
  found,            \* the one found running whose priority class is not yet read
  total_bid,        \* of the pods asked about
  todo,             \* the services the loop of pc still has to visit
  stopped,          \* the service stopped but not yet written to the file
  passed_over,      \* observation: found restarting by the last pause that came to them
  kills, crashes

stateVars == <<current_winner, paused_services>>
worldVars == <<gaming, normal, urgent>>
minerVars == <<active, restarting, passed_over, crashes>>
bidVars   == <<listed, found, total_bid>>
loopVars  == <<todo, stopped>>
vars == <<minerVars, worldVars, stateVars, pc, bidVars, loopVars, kills>>

\* The auction, from the sleep before it to its verdict.
Deciding == {"auction", "listing", "bidding"}

TypeOK ==
  /\ active \in SUBSET Services /\ restarting \in SUBSET Services
  /\ passed_over \in SUBSET Services
  /\ gaming \in BOOLEAN
  /\ normal \in SUBSET Pods /\ urgent \in SUBSET Pods
  /\ current_winner \in {"none", "gaming", "mining", "kubernetes"}
  /\ paused_services \in SUBSET Services
  /\ pc \in Deciding \cup {"pausing", "resuming", "dead"}
  /\ listed \in SUBSET Pods /\ found \in SUBSET Pods
  /\ total_bid \in Nat
  /\ todo \in SUBSET Services
  /\ stopped \in Services \cup {NoService}
  /\ kills \in 0..MaxKills /\ crashes \in 0..MaxCrashes

Init ==
  /\ active = Services /\ restarting = {} /\ passed_over = {}
  /\ gaming \in BOOLEAN
  /\ normal \in SUBSET Pods /\ urgent \in SUBSET (Pods \ normal)
  /\ current_winner = "none" /\ paused_services = {}
  /\ pc = "auction" /\ todo = {} /\ stopped = NoService
  /\ listed = {} /\ found = {} /\ total_bid = 0
  /\ kills = 0 /\ crashes = 0

-----------------------------------------------------------------------------
(* run_auction.                                                            *)

\* Mutant of bid_akash: a lease that pays.
bid_akash_Lease == MINING_HOURLY + 1

\* bid_akash echoes 0 whether or not the bidder is enabled.
bid_akash == 0

\* Ties go to mining, then to kubernetes.
Winner ==
  LET bids == {MINING_HOURLY, total_bid, bid_akash}
      Wins(bid) == \A b \in bids : b <= bid
  IN CASE Wins(MINING_HOURLY) -> "mining"
       [] ~Wins(MINING_HOURLY) /\ Wins(total_bid) -> "kubernetes"
       [] ~Wins(MINING_HOURLY) /\ ~Wins(total_bid) -> "akash"

\* Mutant of GamingOverride: a game that has won is not looked at again.
GamingOverride_OnChange ==
  /\ pc = "auction" /\ gaming /\ current_winner # "gaming"
  /\ current_winner' = "gaming"
  /\ pc' = "pausing" /\ todo' = Services
  /\ UNCHANGED <<minerVars, worldVars, paused_services, bidVars, stopped, kills>>

\* Gaming wins without a bid; its profile is applied at every auction.
GamingOverride ==
  /\ pc = "auction" /\ gaming
  /\ current_winner' = "gaming"
  /\ pc' = "pausing" /\ todo' = Services
  /\ UNCHANGED <<minerVars, worldVars, paused_services, bidVars, stopped, kills>>

\* check_gaming is not asked again in this auction.
NoGame ==
  /\ pc = "auction" /\ ~gaming
  /\ pc' = "listing"
  /\ UNCHANGED <<minerVars, worldVars, stateVars, bidVars, loopVars, kills>>

\* kubectl lists the GPU pods of the node, whether or not they are running.
\* Without a cluster, or when kubectl fails, it shows none.
ListPods ==
  /\ pc = "listing"
  /\ pc' = "bidding"
  /\ listed' \in {L \in SUBSET Pods : normal \cup urgent \subseteq L}
  /\ UNCHANGED <<minerVars, worldVars, stateVars, found, total_bid, loopVars, kills>>

\* The phase of one pod; a pod that is gone or not running bids nothing.
AskPhase(p) ==
  /\ pc = "bidding" /\ p \in listed /\ found = {}
  /\ listed' = listed \ {p}
  /\ found' = {p} \cap (normal \cup urgent)
  /\ UNCHANGED <<minerVars, worldVars, stateVars, pc, total_bid, loopVars, kills>>

\* Mutant of AskClass: the bid of one pod replaces those of the others.
AskClass_Alone(p) ==
  /\ pc = "bidding" /\ p \in found
  /\ found' = {}
  /\ total_bid' = IF p \in urgent THEN K8S_BASE_BID * K8S_URGENCY_MULT ELSE K8S_BASE_BID
  /\ UNCHANGED <<minerVars, worldVars, stateVars, pc, listed, loopVars, kills>>

\* A pod found running bids the base, or the multiple of it when its priority
\* class is high, urgent or critical; when kubectl shows it no more, it bids the
\* base.
AskClass(p) ==
  /\ pc = "bidding" /\ p \in found
  /\ found' = {}
  /\ total_bid' = total_bid + IF p \in urgent THEN K8S_BASE_BID * K8S_URGENCY_MULT
                                              ELSE K8S_BASE_BID
  /\ UNCHANGED <<minerVars, worldVars, stateVars, pc, listed, loopVars, kills>>

AllBidsIn == pc = "bidding" /\ listed = {} /\ found = {}

\* The winner is written down before its profile is applied.
WinnerChanges ==
  /\ AllBidsIn /\ Winner # current_winner
  /\ current_winner' = Winner
  /\ \/ Winner = "mining" /\ pc' = "resuming" /\ todo' = paused_services
     \/ Winner # "mining" /\ pc' = "pausing" /\ todo' = Services
  /\ total_bid' = 0
  /\ UNCHANGED <<minerVars, worldVars, paused_services, listed, found, stopped, kills>>

\* Nothing is done for a winner that is on file already.
WinnerStays ==
  /\ AllBidsIn /\ Winner = current_winner
  /\ pc' = "auction" /\ total_bid' = 0
  /\ UNCHANGED <<minerVars, worldVars, stateVars, listed, found, loopVars, kills>>

run_auction ==
  \/ GamingOverride \/ NoGame
  \/ ListPods \/ \E p \in Pods : AskPhase(p) \/ AskClass(p)
  \/ WinnerChanges \/ WinnerStays

-----------------------------------------------------------------------------
(* pause_all_mining and resume_mining, one command at a time.               *)

\* is-active, then stop.
Stop(s) ==
  /\ pc = "pausing" /\ s \in todo /\ stopped = NoService
  /\ s \in active
  /\ active' = active \ {s}
  /\ passed_over' = passed_over \ {s}
  /\ stopped' = s
  /\ UNCHANGED <<restarting, worldVars, bidVars, stateVars, pc, todo, kills, crashes>>

\* A service that is about to be restarted is "activating", and left alone.
Skip(s) ==
  /\ pc = "pausing" /\ s \in todo /\ stopped = NoService
  /\ s \notin active
  /\ todo' = todo \ {s}
  /\ passed_over' = IF s \in restarting THEN passed_over \cup {s} ELSE passed_over \ {s}
  /\ UNCHANGED <<active, restarting, worldVars, bidVars, stateVars, pc, stopped, kills, crashes>>

\* Mutant of Record: the file is overwritten.
Record_Overwrites ==
  /\ pc = "pausing" /\ stopped # NoService
  /\ paused_services' = {stopped}
  /\ todo' = todo \ {stopped}
  /\ stopped' = NoService
  /\ UNCHANGED <<minerVars, worldVars, bidVars, current_winner, pc, kills>>

\* The service stopped is appended to paused_services.
Record ==
  /\ pc = "pausing" /\ stopped # NoService
  /\ paused_services' = paused_services \cup {stopped}
  /\ todo' = todo \ {stopped}
  /\ stopped' = NoService
  /\ UNCHANGED <<minerVars, worldVars, bidVars, current_winner, pc, kills>>

Start(s) ==
  /\ pc = "resuming" /\ s \in todo
  /\ active' = active \cup {s}
  /\ restarting' = restarting \ {s}
  /\ passed_over' = passed_over \ {s}
  /\ todo' = todo \ {s}
  /\ UNCHANGED <<worldVars, bidVars, stateVars, pc, stopped, kills, crashes>>

\* The loop is over; a resume then removes the file.
LoopEnds ==
  /\ pc \in {"pausing", "resuming"} /\ todo = {}
  /\ paused_services' = IF pc = "resuming" THEN {} ELSE paused_services
  /\ pc' = "auction"
  /\ UNCHANGED <<minerVars, worldVars, bidVars, current_winner, loopVars, kills>>

-----------------------------------------------------------------------------
(* The end of the script and its restart.                                  *)

\* Mutant of CommandFails: a failing systemctl does not end the script.
CommandFails_Ignored(s) ==
  /\ s \in todo /\ stopped = NoService
  /\ \/ pc = "pausing" /\ s \in active
     \/ pc = "resuming"
  /\ todo' = todo \ {s}
  /\ UNCHANGED <<minerVars, worldVars, bidVars, stateVars, pc, stopped, kills>>

\* systemctl refuses to stop or start a service, which stays as it is.
CommandFails(s) ==
  /\ s \in todo /\ stopped = NoService
  /\ \/ pc = "pausing" /\ s \in active
     \/ pc = "resuming"
  /\ pc' = "dead" /\ todo' = {}
  /\ UNCHANGED <<minerVars, worldVars, bidVars, stateVars, stopped, kills>>

Kill ==
  /\ pc # "dead" /\ kills < MaxKills
  /\ kills' = kills + 1
  /\ pc' = "dead" /\ todo' = {} /\ stopped' = NoService
  /\ listed' = {} /\ found' = {} /\ total_bid' = 0
  /\ UNCHANGED <<minerVars, worldVars, stateVars>>

\* Mutant of Restart: main keeps the winner it finds.
Restart_KeepsWinner ==
  /\ pc = "dead"
  /\ pc' = "auction"
  /\ UNCHANGED <<minerVars, worldVars, bidVars, stateVars, loopVars, kills>>

\* main resets current_winner, and leaves paused_services as it finds it.
Restart ==
  /\ pc = "dead"
  /\ pc' = "auction"
  /\ current_winner' = "none"
  /\ UNCHANGED <<minerVars, worldVars, bidVars, paused_services, loopVars, kills>>

\* A miner ends by itself, and comes back after RestartSec.
Crash(s) ==
  /\ s \in active /\ crashes < MaxCrashes
  /\ crashes' = crashes + 1
  /\ active' = active \ {s}
  /\ restarting' = restarting \cup {s}
  /\ UNCHANGED <<passed_over, worldVars, bidVars, stateVars, pc, loopVars, kills>>

ComesBack(s) ==
  /\ s \in restarting
  /\ active' = active \cup {s}
  /\ restarting' = restarting \ {s}
  /\ UNCHANGED <<passed_over, worldVars, bidVars, stateVars, pc, loopVars, kills, crashes>>

\* A game starts or ends; pods come and go, and so does the cluster.
WorldChanges ==
  /\ gaming' \in BOOLEAN
  /\ normal' \in SUBSET Pods /\ urgent' \in SUBSET (Pods \ normal')
  /\ UNCHANGED <<minerVars, stateVars, pc, bidVars, loopVars, kills>>

Next ==
  \/ run_auction
  \/ \E s \in Services : Stop(s) \/ Skip(s) \/ Start(s) \/ CommandFails(s)
  \/ Record \/ LoopEnds
  \/ Kill \/ Restart
  \/ WorldChanges \/ \E s \in Services : Crash(s) \/ ComesBack(s)

Spec == Init /\ [][Next]_vars

\* The script goes on and is restarted; a systemctl that is tried again and
\* again does not fail for ever, and systemd restarts the miners.
Fairness ==
  /\ WF_vars(run_auction)
  /\ WF_vars(Record) /\ WF_vars(LoopEnds) /\ WF_vars(Restart)
  /\ \A s \in Services :
       SF_vars(Stop(s)) /\ WF_vars(Skip(s)) /\ SF_vars(Start(s)) /\ WF_vars(ComesBack(s))

FairSpec == Spec /\ Fairness

-----------------------------------------------------------------------------
(* Properties.                                                             *)

\* As long as nobody kills the script, a service that was stopped to pause mining
\* is on record until it runs again, whatever command of a pause or a resume fails.
PausedOnRecord ==
  kills = 0 => \A s \in Services \ (active \cup restarting) : s \in paused_services \/ s = stopped

\* Only the winner's name tells the next auction whether there is anything left to
\* do: when that winner stands above mining, every miner was stopped, or was found
\* restarting by the pause, whatever kill or failing command ended a pause before.
PauseApplied ==
  pc \in Deciding /\ current_winner \in {"gaming", "kubernetes"}
    => active \cup restarting \subseteq passed_over

\* When that winner is mining, every service runs again, as long as nobody has
\* killed the script, whatever resume ended at a command that failed.
ResumeApplied ==
  kills = 0 /\ pc \in Deciding /\ current_winner = "mining"
    => active \cup restarting = Services

\* While a game goes on, all mining services end up stopped, also a miner that
\* crashed and was about to be restarted when a pause came to it (README: "Gaming
\* override - Always wins when gaming is detected, pauses all mining").
GamingWins == <>[]gaming => <>[](active = {})

\* What the pods of N and of U would bid, counted in one auction.
Bid(N, U) == K8S_BASE_BID * (Cardinality(N) + K8S_URGENCY_MULT * Cardinality(U))

Offers == [normal : SUBSET Pods, urgent : SUBSET Pods]

\* While some pods that outbid mining run on, mining ends up stopped, whatever games
\* and other pods come and go between two commands of an auction, and whatever pause
\* or resume was cut short by a kill or by a command that fails; but for a miner that
\* the pause found restarting: for Kubernetes the pause is not repeated, and it
\* mines on.
MiningYields ==
  \A o \in {o \in Offers : /\ o.normal \cap o.urgent = {}
                          /\ Bid(o.normal, o.urgent) > MINING_HOURLY} :
    <>[](o.normal \subseteq normal /\ o.urgent \subseteq urgent)
      => <>[](active \subseteq passed_over)

\* When no game runs and those pods that may still come and go do not together
\* outbid mining, every mining service runs again (README: "mines cryptocurrency
\* when idle and stops for gaming").
MinesWhenIdle ==
  \A o \in {o \in Offers : Bid(o.normal, o.urgent) <= MINING_HOURLY} :
    <>[](~gaming /\ normal \subseteq o.normal /\ urgent \subseteq o.urgent)
      => <>[](active = Services)

\* The same for a script that only its own failing commands ever end.
MinesUnlessKilled == [](kills = 0) => MinesWhenIdle

=============================================================================
