-------------------------------- MODULE Main --------------------------------
(***************************************************************************)
(* main() of gpu-proxy: signal handlers, then GPUProxy::run until the      *)
(* event loop returns, then the end of the process (main.cpp).             *)
(***************************************************************************)
EXTENDS GpuProxy

VARIABLE running   \* main's flag; nothing but the signal handler clears it

mainVars == <<proxyVars, running>>

MainTypeOK == ProxyTypeOK /\ running \in BOOLEAN

MainInit == ProxyInit /\ running = TRUE

\* SIGINT or SIGTERM.  poll() or usleep() returns early (Poll({})); the flag
\* that EventLoop::run looks at is another one, set by EventLoop::stop.
signal_handler == Alive /\ running' = FALSE /\ UNCHANGED proxyVars

MainNext == (ProxyNext /\ UNCHANGED running) \/ signal_handler

MainSpec == MainInit /\ [][MainNext]_mainVars

\* While the process lives its loop keeps turning, and a reconnect timer fires
\* when due.
WhileAlive(A) == Alive /\ A /\ UNCHANGED running

MainFairness ==
  /\ WF_mainVars(WhileAlive(LoopTurns))
  /\ WF_mainVars(WhileAlive(Cleanup))
  /\ SF_mainVars(WhileAlive(Reconnect /\ UNCHANGED workerVars))

FairMainSpec == MainSpec /\ MainFairness

-----------------------------------------------------------------------------
(* Properties.                                                             *)

\* The process runs "until signal" (main.cpp), for a graceful shutdown.
StopsOnSignal == ~running ~> ~Alive

=============================================================================
