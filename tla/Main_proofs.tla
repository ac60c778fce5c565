---------------------------- MODULE Main_proofs ----------------------------
(* What main() and its signal handler change of the proxy: nothing.        *)
EXTENDS Main, GpuProxy_proofs

LEMMA MainStep == [MainNext]_mainVars => [ProxyNext]_proxyVars
BY DEF MainNext, signal_handler, mainVars

\* A proxy that is sent signals is a proxy: whatever is proved of the one without
\* them holds of the process.
THEOREM MainIsProxy == MainSpec => ProxySpec
<1>1. MainInit => ProxyInit
  BY DEF MainInit
<1> QED
  BY <1>1, MainStep, PTL DEF MainSpec, ProxySpec

\* The loop does not end while workers can connect, a connection is open or a
\* reconnect is pending, however many signals ask it to: running is never read.
THEOREM SignalsEndNoLoop == MainSpec => [](phase = "exited" => Idle)
BY MainIsProxy, ProxyRefinesPoolManager, EndsOnlyWhenIdle, PTL DEF RefinesPoolManager

\* Whether workers can connect is settled at the start, and a proxy they can
\* connect to never ends its loop.
THEOREM ListeningNeverEnds ==
  MainSpec => /\ [][UNCHANGED listening]_mainVars
              /\ [](listening => phase # "exited")
<1>1. [PoolNext]_vars => UNCHANGED listening
  BY DEF PoolNext, PoolStep, WorkerSideStep, Exited, LoopStep, Poll, Hangup, ReadFails,
         HandlerDone, NoAccept, TimeoutsDone, PoolCleanup, CleanupClosed, Reconnect,
         HandshakeDone, HandshakeFails, LoginReply, ShareReply, JobPushed, JobCutShort,
         PoolLineIgnored, PoolLine, WorkerAccepted, WorkerTalks, WorkerSubmits,
         WorkerLine, StayIn, LeaveHandler, vars, loopVars
<1>2. PoolTypeOK /\ [MainNext]_mainVars => [UNCHANGED listening]_mainVars
  BY <1>1, MainStep, ProxyStep
<1>3. MainSpec => []PoolTypeOK /\ [](phase = "exited" => Idle)
  BY MainIsProxy, ProxyRefinesPoolManager, TypeCorrect, SignalsEndNoLoop, PTL
     DEF RefinesPoolManager
<1>4. (phase = "exited" => Idle) => (listening => phase # "exited")
  BY DEF Idle
<1> QED
  BY <1>2, <1>3, <1>4, PTL DEF MainSpec
=============================================================================
