# compute-market in TLA+

Specifications, model-checking configurations and machine-checked proofs for
the parts of compute-market that make decisions at run time: the GPU mining
proxy (`src/gpu-proxy-cpp`), the GPU auction engine
(`src/modules/compute-market.nix`) and the gaming-mining coordinator
(`src/modules/gaming-mining-coordinator.nix`) with the desktop toggle that
interferes with it (`src/modules/mining-desktop-toggle.nix`).

`PROJECT.json` is the index: which definition models which lines, which run
checks which property, the hazards of the code and the properties that cover
them, and the theorems.

## 1. The system

### 1.1 The GPU proxy

One process and one thread. Miners ("workers") connect to it on a TCP port; it
holds one Stratum session to an upstream mining pool, hands the pool's jobs to
the workers and the workers' shares to the pool.

| Component | State | Operations | Talks to |
|---|---|---|---|
| `EventLoop` | `connections_` (owner of every `Connection`), `timeouts_`, `running_` | `poll_and_process`, `handle_read/write_event`, `cleanup_closed`, `check_timeouts`, `run`, `stop` | calls callbacks of `Connection` and timers |
| `Connection` | descriptor, type, state, closing mark, TLS state, read buffer | `connect_tcp`, `start_tls`, `perform_tls_handshake`, `send_line`, `read_data`, `process_read_buffer`, `set_state` | state and message callbacks of its creator |
| `PoolManager` | `current_pool_index_`, `pool_fd_`, `connected_`, `authenticated_`, `has_job_`, `current_job_`, `reconnect_attempts_`, `share_to_worker_`, `next_id_` | `start`, `try_connect_pool`, `on_pool_state`, `on_pool_message`, `send_login`, `handle_response`, `handle_notification`, `submit_share` | `EventLoop` (connections, timers); job callback |
| `WorkerManager` | `workers_` (per descriptor: non-owning `Connection*`, id, subscribed, authorized), `current_job_`, `has_job_` | `accept_worker`, `handle_subscribe`, `handle_authorize`, `handle_login`, `handle_submit`, `send_job` | `EventLoop`; share callback |
| `GPUProxy`, `main` | the flag `running`, the wiring | `start`, `run`, `stop`, `signal_handler` | all of the above |
| `Config`, `ssl_utils` | - | read once at start; not called | - |

What is hard here is not parallelism but *re-entrance and staleness*:

* a handler runs inside a walk of the loop over its own arrays, and opens
  connections, pushes timers, or writes to connections of the other side, which
  marks them for closing when the write fails;
* the loop destroys connections that ended or were hung up *without calling
  back* their owners, who keep a descriptor (`pool_fd_`), pointers
  (`WorkerInfo::conn`) and flags (`authenticated_`), while the kernel hands the
  lowest free descriptor to the next connection;
* a retry timer, a connection attempt and a late answer on an older connection
  can be pending together, and nothing cancels any of them;
* replies are matched by what they look like and by request id, jobs are
  copied field by field with conversions that may throw between two fields;
* a job may come before, between or after a worker's subscribe, authorize or
  login;
* below that, each connection is a small machine of its own: a TLS handshake
  that must ask `poll()` for the right event, reads that cut the byte stream
  anywhere, decrypted bytes that `poll()` does not see, writes that are short,
  blocked or mistaken for the repetition of a blocked one, a creation that may
  fail at any of six calls.

It is correct when: there is at most one attempt, retry or session at a time;
a session once had is kept; failures rotate through all pools; shares are
credited to the worker that sent them; a worker gets a job that is whole, and
gets it; only admitted workers mine; the loop's arrays are not changed under
its feet; nobody uses a destroyed connection; a lost pool is replaced; a
signal ends the process. A connection is correct when its owner is given every
line of the stream once, whole and in order, no byte of a line goes out twice
or out of its turn, the handshake ends with a server that plays its part, and
whatever was acquired is given back.

### 1.2 The auction engine

A shell script under `set -euo pipefail`, restarted by systemd. Every interval
it looks for games, collects bids, writes the winner to a file, and stops mining services
(appending each one it stopped to `paused_services`) or starts those on record.
While a game runs, gaming wins and the pause is repeated every time. Hard: any
`systemctl` may fail and end the script half-way through a list; games and pods
come and go while it asks for one after another; it can be killed between any
two commands; the files survive, the place in the script
does not; a miner that crashes is restarted by systemd behind the script's back.
Correct when a stopped service is on record until it runs again, all
mining is stopped while a game or a better bid lasts, whatever else comes and
goes, and all of it runs when mining wins.

### 1.3 The gaming-mining coordinator

A second script, independent of the first: it reads a state file every few
seconds, scales the mining deployments of its node to 0 when a game starts, and
should scale them to 1 some checks after the game ended. Hard: the variables
are lost at a restart while the cluster keeps its replica counts, `kubectl`
may not reach the cluster, one of several scale commands may fail, and the
order of the branches of the loop decides which of them can ever be taken. The
desktop toggle is a third script: at a click it reads the replica count of one
deployment and, a moment later, writes the other one, without regard to what
the coordinator did in between. Correct when a game pauses every deployment
but one the user has started, and only as long as that is so does the
coordinator believe that it has paused.

### 1.4 The rest

The NixOS modules for services, Kubernetes manifests, images, dashboards and
packages are declarations; exporters and the plasmoid read and format. See
section 7 for why each is left out.

## 2. The modules

```
 LineStream        ConnLife                                 (abstract)
     ^              ^     ^
     |  ImplementsLineStream, ImplementsConnLife (proved)
     |              |     |
     +- Connection -+     | ConnectionsLive, for each descriptor (proved)
                          |
 EventLoop      Stratum   |            PoolSession          (abstract)
     \           /   \    |                 ^
      PoolManager --- | --+                 | ImplementsPoolSession
          |        WorkerManager            | (proved: ImplementsSession)
          |         /  (also on EventLoop)  |
          +-- GpuProxy ---------------------+
                 |        RefinesPoolManager (proved)
               Main
 AuctionEngine          GamingCoordinator
```

* **LineStream** - what the owner of a connection relies on: the lines of the
  peer's stream, each once, whole and in order, until the connection closes.
* **ConnLife** - the life of a connection as the loop and the owners see it: its
  type, state and closing mark. It is dialed or accepted, its handshake is done
  or fails (and then it is marked, too), it is marked, and once marked it is
  destroyed. This binds the two levels of the proxy: the connection that
  Connection follows byte by byte lives this life (`ImplementsConnLife`), and so
  does each entry of the table that EventLoop, PoolManager and WorkerManager
  share (`ConnectionsLive`). Neither level assumes steps of a connection that the
  other does not take.
* **Connection** - one `Connection` with everything the loop does to it. `pc` says
  which call is under way: the six calls of `connect_to_pool`, then the loop's
  `poll`, `dispatch` (with `revents`: hangup first, then the write event, then
  the read event), `read` and `lines`, and `gone` once destroyed. Bytes are the
  positions of `stream` (`x`, a carriage return or a newline), so that a line
  that is lost, repeated or cut shows. `SendLine` may happen in each of these
  places, as owners call `send_line` from within callbacks. The kernel's
  buffers, TLS records and the four flights of a handshake are environment:
  `arrived`, `records`, `held`, `flight`, `room`, `pending`.
* **EventLoop** - the loop as its owners see it, with a connection reduced to its
  type, state and closing mark. `phase` says where `run()` is: `poll`, `dispatch`
  (over `ready`, the descriptors `poll()` reported, in any order, because
  `connections_` is unordered), then `accept` and `reconnect`, the two kinds of
  timers in the order in which they were pushed. `cur` is the descriptor whose
  handler has begun: one handler may run several callbacks (a write event, a
  read event, several lines of one read), with no other connection's in
  between. `cleanup_closed` is a step of its own that only a pass which
  dispatched something gets to, as in the code. `conns` maps each descriptor
  to its connection or to none; `IsLowestFree` is the kernel's rule for
  descriptors and the reason why they are reused.
* **Stratum** - a job is three fields, each recording the pool message it was
  copied from, so that a torn job can be told from a whole one; replies are
  named by the shapes the handlers tell apart.
* **PoolManager** - one action per handler: `HandshakeDone` (with the login it
  sends), `HandshakeFails`, `LoginReply`, `ShareReply`, `JobPushed`,
  `JobCutShort`, `PoolLineIgnored`, `Reconnect`, `SubmitShare`. Every retry goes
  through `set_timeout`; `StartListening` leaves open whether the proxy could
  bind its port. What the pool
  owes (`login_due`, `share_due`) is environment state: a pool answers each
  request at most once, late, in any order, or never. The worker side is an
  assumption here (`WorkerSideStep`): connections open and close and shares are
  submitted.
* **PoolSession** - what PoolManager promises, without sockets: `attempting`,
  `backoff`, `online`, `stalled`.
* **WorkerManager** - accept and the requests. `registered`, `subscribed` and
  `authorized` are keyed by descriptor and never shrink when a connection
  goes, as in the code. `ended` records a use of a destroyed `Connection`; the
  process may then die, lose the line or write to a connection that has the
  memory now. `offered` (has been sent the current job), `passed_over` (became
  a miner by an authorization that sends none) and `admitted` are observations
  for the properties and no guard reads them.
* **GpuProxy** - composes the two: the job callback makes `SendJob` part of the
  pool handler's step, the share callback makes `SubmitShare` part of the
  worker handler's step.
* **Main** - the signal handler and its flag.
* **AuctionEngine**, **GamingCoordinator** - one action per command that can
  fail or be interrupted (`Stop` and `Record` are two), `CommandFails` /
  `ScaleFails`, `Kill` and `Restart`; `gaming`, the pods and the reachability of the
  cluster change at any time. An auction of AuctionEngine is a command after
  another: `NoGame` or `GamingOverride`, `ListPods`, then `AskPhase` and `AskClass`
  for each pod of the list, each of which sees the world as it is by then, and at last
  `WinnerChanges` or `WinnerStays`. Miners crash and come back
  (`Crash`, `ComesBack`) at any time too. In GamingCoordinator the toggle is a second
  actor, `ToggleReads` and then `ToggleScales` or `ToggleFails`, with any steps
  of the coordinator in between; `by_hand` observes what the user has started
  and the coordinator has not scaled since.

`MC*` modules give the modules to TLC; `*_proofs` modules hold the theorems.
Definitions named `X_Something` and introduced as mutants are plausible
mistakes in `X`: for each property there is one that breaks it.

## 3. What is checked

| Run | Bounds | Shows |
|---|---|---|
| `pool` | 2 descriptors, 3 pools, 1 retry, 2 workers, ids up to 3, no symmetry | safety (`PoolTypeOK`, `SingleAttempt`, `LoginsGoToPools`, `ShareAttribution`, `SharesOwedBySession`), action properties (`SessionKept`, `NoPoolOpensOnline`, `ConnectionsLive`, `PolledStaysPut`), liveness (`PoolRotation`) and refinement (`ImplementsPoolSession`), with fairness |
| `proxy` | 2 descriptors, 2 worker ids of which one is on the whitelist, all four requests, ids up to 2 | `ProxyTypeOK`, `AdmittedWorkers`, `JobCopyWhole`, `JobsReachMiners`, `OnlyJobsDangle`, `NoForeignMark` |
| `connection` | 3 streams, reads of 2 bytes, 3 lines to send | `ConnTypeOK`, `NothingLeaks`, `WireInOrder`, `NoLineBehind`, `NoLostWakeup`, `ImplementsLineStream`, `ImplementsConnLife`, `EveryLineRead`, `HandshakeEnds` |
| `auction` | 2 services, 2 pods of either priority, at most two kills and one crash of a miner | `TypeOK`, `PausedOnRecord`, `PauseApplied`, `ResumeApplied`, `MinesUnlessKilled`, `GamingWins`, `MiningYields` |
| `coordinator` | 2 deployments of which one has a toggle, 3 checks of hysteresis, at most one kill and two clicks | `TypeOK`, `PausedWhenNoted`, `PausedIfVisible` |
| `failover_after_loss` | 2 descriptors, 2 pools | `FailoverAfterLoss` is violated |
| `use_after_free` | 2 descriptors | `NoUseAfterFree` is violated |
| `job_after_authorize` | 2 descriptors, all four requests | `MinersHaveTheJob` is violated |
| `stops_on_signal` | 1 descriptor | `StopsOnSignal` is violated |
| `line_retried` | as `connection` | `TriedAgainLater` is violated |
| `auction_killed` | as `auction`, one kill and no crash | `MinesWhenIdle` is violated |
| `coordinator_resumes` | as `coordinator`, no click | `ResumesAfterGame` is violated |

Why the bounds are enough:

* **Descriptors.** Two are the smallest number at which the old and the new
  connection of a reconnect coexist, at which two workers do, at which a worker
  takes over the pool's descriptor, and at which `socket()` fails for want of
  one. The theorems of section 5 hold for any number.
* **Pools and retries.** One retry and then the next pool shows both branches of
  `on_pool_state`; three pools show that rotation skips none. With
  `MaxAttempts = 0` in the proxy run every failure moves on at once, which is
  the other boundary of the comparison.
* **Ids.** A bounded id means that the program sends no further request: each
  run allows the login and one or two shares, and the reconnects' logins
  compete for the same numbers.
* **Jobs.** A job is only copied and compared with none; one job and `NoJob`
  tell a whole copy from a torn one.
* **Streams.** `MCStreams` has a line that ends in `\n` and one in `\r\n`, an
  empty line of each kind, and a carriage return within a line. They have three
  to five bytes and one read takes two (`MaxRead`): every line is cut by some
  read, `\r` is read without its `\n`, one read ends a line and begins the next,
  and a record is longer than a read. Bytes arrive in any pieces.
* **Lines to send.** `MCLengths` is 2, 1, 2: a short write needs a line of two, and
  a blocked write is followed by a shorter line, which OpenSSL refuses, by one
  of the same length and (when the second is blocked) by a longer one, which it
  may mistake for the repetition.
* **Pods.** Mining bids 2, a pod 1, an urgent pod 3: one normal pod loses, two tie
  (mining wins a tie), one urgent pod wins.
* **Kills.** Two kills of the auction engine and one of the coordinator, at any
  point, with any number of failing commands. Failing
  commands themselves are not bounded.
* **Crashes.** One crash of one of the two miners is enough for a pause to meet a
  miner that is restarting, before, within or after any other step.
* **Clicks.** Two, so that a start and a stop by hand can both fall into one pause.

What each finding's run shows, at the level of the code:

* `failover_after_loss`: the pool closes the connection of a session. The loop
  marks and destroys it; `set_state` is not called, so `on_pool_state` does not
  run. The proxy remains "authenticated" with no connection, for ever. As a
  consequence `pool_fd_` keeps its value, and when a worker is accepted on that
  descriptor, `submit_share` writes shares to the worker. `LossIsFinal` is the
  same for every number of descriptors, pools and retries: no behaviour leaves
  the state.
* `use_after_free`: a worker disconnects; its entry in `workers_` keeps the
  pointer; the next `send_job` uses it. `OnlyJobsDangle` says that nothing but a job
  passed on does.
* `job_after_authorize`: job, then subscribe, then authorize. `send_job` at the
  end of subscribe skips the worker, which is not authorized yet; authorize
  sends nothing.
* `stops_on_signal`: the handler clears `main`'s flag, the loop looks at its
  own, which only `stop()` clears, which `main` calls after the loop returned.
  `ListeningNeverEnds` is the same for every instance.
* `line_retried`: `send_line` to a pool reports a blocked write as done. OpenSSL
  holds the record, the handshake is over, so the loop never waits for
  `POLLOUT`, and no code keeps the line or calls again. With a pool that reads
  and a loop that turns for ever the line stays where it is unless the owner
  happens to send another one.
* `auction_killed`: killed between `systemctl stop` and the `echo` that records
  the service.
* `coordinator_resumes`: two branches of the loop have the same test; the first
  restarts the countdown that the second should finish.

More facts follow from the models, and are stated by the hypotheses and
exceptions of the properties:

* a `kubectl get` that fails once at the start of a game leaves its deployment
  mining for the whole game (`PausedIfVisible` assumes it does not fail);
* since the coordinator, having paused once, never leaves that state, a
  deployment started by hand after the first game mines through all later
  games (`by_hand` in `PausedIfVisible`);
* `PoolSession` has a state `stalled` that nothing leaves (`StallIsFinal`), which is
  reached when no pool in the rest of the list can be contacted, or when a pool
  hangs up before it has answered the login;
* a miner that crashed is not `active` until systemd restarts it (30 seconds for
  lolMiner), so `pause_all_mining` passes it over and it starts after the pause.
  A game repeats the pause at every auction; when Kubernetes wins, the winner
  does not change again, and the miner mines beside the pods (`passed_over` in
  `MiningYields`, where `GamingWins` has no such exception);
* an auction asks for games once and for pods after that. When a game starts in
  between and the pods end before they are asked about, mining wins and is resumed,
  although at every moment a game ran or pods outbid it; the next auction finds the
  game and stops it again. So `MiningYields` speaks of pods that run on, with games
  and other pods coming and going between any two commands, and `GamingWins` of a
  game that goes on; neither says that nothing mines for one interval;
* a `kubectl` that fails makes Kubernetes bid nothing: mining is started beside the
  pods that run (`MiningYields` speaks of the pods `kubectl` shows);
* bytes of a record that one read leaves in OpenSSL wait until the peer sends
  more (`EveryLineRead` assumes `[]<>(held = read_to)`), and lines that arrived
  before a hangup are dropped with the connection (`Leaves`).

## 4. Fairness

* `LoopFairness` (PoolManager): weak fairness for the steps of the loop, since
  `run()` never blocks for longer than its poll timeout, a handler reads a
  finite buffer and returns, and `cleanup_closed` follows each dispatch. Strong
  fairness for `Reconnect`: `check_timeouts` runs once each pass and is enabled
  again and again; the timer's five seconds are over after finitely many
  passes, but not necessarily at the next one. Nothing is assumed of the pools:
  neither that they answer nor that they do not.
* `Connection!FairSpec`: weak fairness for `LoopStep`, one disjunction, as one
  thread walks the connections: it goes on, whichever step is next. Nothing is
  assumed of owners, peers or the kernel: `HandshakeEnds` and `TriedAgainLater`
  have the peer's fairness (`PeerPlaysItsPart`: it answers, and reads so that
  the socket becomes writable) as a hypothesis, `EveryLineRead` has the one on
  OpenSSL's remainder.
* `MainFairness`: the same for the whole process while it is alive. There is no
  fairness on signals.
* `AuctionEngine!Fairness`: the script goes on (weak; the commands of an auction as
  one disjunction, since at any time one of them is next, and games that come and go may
  disable `NoGame` and `GamingOverride` again and again), systemd restarts a miner that crashed (weak; `Restart=always`) and the script
  itself (weak; `Restart=on-failure`, and a command that fails or a `SIGKILL` is
  one). Strong fairness of `Stop(s)` and `Start(s)`: a
  `systemctl` that is tried again and again succeeds some time. Without it a
  service that refuses to stop for ever refutes everything. `WorldChanges` has
  none: the hypotheses `<>[]...` of the properties say when the world settles.
* `GamingCoordinator!Fairness`: likewise for `kubectl scale`. Neither the user nor
  the toggle is fair.

## 5. What is proved

All theorems hold for every value of the constants allowed by the named
assumptions (`MaxFdAssumption`, `PoolAssumption`, `JobsAssumption`,
`WorkerAssumption`, `ConnectionAssumption`, `AuctionAssumption`,
`CoordinatorAssumption`), which only say that sizes are numbers, that streams
are sequences, and that the "no ..." values are not values.

**Connection** (`Connection_proofs`), for every set of streams, every read size and
every sequence of lines to send:

* `ConnTypeCorrect`, with `TypeInv == ConnTypeOK /\ PlainWorker` (a worker has no
  TLS state): what is read has arrived and what is decrypted is in order,
  `read_to <= held <= arrived`;
* `NothingLeaksCorrect`. `NothingLeaks` is not inductive: whether the manual
  `close` on the way out of `connect_to_pool` is enough depends on how far the
  set-up got, which `HeldInSetup` says call by call;
* `WireInOrderCorrect`, with `WriteInv`: `wire` and then `pending` are in order and
  below the next line. The record OpenSSL kept is part of the invariant, as
  `SendInPlace` writes it before the end of a later line;
* `ImplementsLineStreamCorrect`, with `BufferInv`: `read_buffer` is the interval of
  positions from `From` to `read_to`. Under it a read is a stutter of LineStream
  and `HandLine` is `HandOver`: the first newline in the buffer is the first of
  the stream from `From` on, and the carriage return taken off is the one
  before it in the stream, also when two reads brought them;
* `NoLineBehindCorrect` and `NoLostWakeupCorrect`, the safety halves of
  `EveryLineRead` and `HandshakeEnds`: the loop goes to sleep on nothing that
  could go on. With

      WakeInv == HandshakeWaits /\ LinesOut /\ WorkerHolds

  the want flags are those of the flight that is due or none (and with none the
  poll asks for both events); a
  buffer holds a newline only while its lines are being handed over; and only a
  TLS connection can have taken more from the socket than was read;
* `ImplementsConnLifeCorrect`, with `LifeInv`, which ties `type`, `state` and
  `closing` to the place in the code: the three failures of a handshake differ
  in who reports `ERROR` and who marks, and only together do they give the one
  step `HandshakeFails`.

**PoolManager** (`PoolManager_proofs`). The inductive invariant is

    IInv == PoolTypeOK /\ SingleAttempt /\ SessionCoherent

`SingleAttempt` alone is not inductive. Why can a login reply not arrive during a
back-off and start a session beside the timer? Because replies are owed only by
connected pool connections (`SessionCoherent`, first part), and an attempt that
fails does so in its handshake, before its login was sent. Why can a session
not be disturbed by a handshake failing late? Because a connection in its
handshake is an attempt, and attempts exclude sessions. The proof has a lemma
per handler; two generic lemmas on `TryConnectPool` and `OnPoolError` carry the
parts they share. From it follow

* `TypeCorrect` (the retry count stays within its maximum), `SingleAttemptCorrect`;
* `SessionKeptCorrect`, an action property: every action that could end a session
  is enabled only where there is none;
* `LoginsGoToPoolsCorrect`, from `SessionCoherent`: however descriptors are used
  again, `pool_fd_` is looked up for a login only while it names a pool;
* `ShareAttributionCorrect`, with `ShareInv`: ids in the map and ids owed are below
  `next_id_`, and an id is owed at most once, so an insertion never overwrites.
  A reply without an id is matched with whatever id is in memory (`IdSeen`) and
  may take an entry that is not its own; the entries that stay are right;
* `PolledStaysPutCorrect`;
* `ImplementsSession`: with the mapping `Session` every step is a step of
  `PoolSession` or a stutter;
* `SharesOwedBySessionCorrect`: where `pool_fd_` is set anew there is no session, so
  nothing may be owed; this needs that a share is only submitted in a session
  and that a session never ends, that is, `SessionCoherent` and `SessionStep`;
* `ConnectionsLiveCorrect` and `NoPoolOpensOnlineCorrect`, with

      TableInv == ReadyOpen /\ \A g \in Fds : Entry(conns[g])

  `Entry` says what `type`, `state` and `closing` have to do with one another, and
  `ReadyOpen` that the descriptors still to be dispatched have their connections:
  without it a hangup could mark what does not exist. `TableMoves` classifies
  what any step of any actor does to one entry (`Marked`, `Shaken`, `Failed`,
  `Erased`, `Dialed`, `Accepted`), and `EntryLives` turns each class into a step of
  `ConnLife`;
* `LossIsFinal`, `StallIsFinal`: states that no behaviour leaves. While
  `authenticated_` is set no pool connection is opened and `pool_fd_` is not
  touched; and in PoolSession nothing leaves `stalled`;
* `EndsOnlyWhenIdle`: `run()` returns only with no listener, connection or timer.

**GpuProxy** (`GpuProxy_proofs`). `ProxyRefinesPoolManager` shows that every step
of the composition is, for PoolManager's variables, a step of PoolManager with the
worker side it assumes; so all of the above holds of the process
(`ProxyKeepsSessions`, `ProxyKeepsLoop`, `ProxyStaysStuck`).
`AdmittedWorkersCorrect` needs `AdmissionInv` (worker ids are typed) and the lemma
that outside accept and cleanup no worker connection appears and no closing mark
is taken back. `JobCopyWholeCorrect`: the copy is replaced only by a job that was
copied to its end, although PoolManager's own job may be torn. `ProxyTypeCorrect`
adds the worker half to `TypeCorrect`. `JobsReachMinersCorrect` needs three facts
at once: a descriptor that is used again loses both flags before it can be a
miner, a cleanup takes `offered` and `passed_over` only from those that go, and a
job that arrives goes to all recipients there are, so that only `handle_authorize`
can make a miner that has not been sent the job. `OnlyJobsDangleCorrect` needs no
invariant but the types: `DangleStep` goes through the calls that write to a
worker and finds the connection open in each but those of `send_job` to all.
`NoForeignMarkCorrect` goes through every handler of both sides and says which marks
it adds to the table (`MarksOnly`): its own connection's, those of the recipients of
a job, or that of `pool_fd_`; that a recipient is a worker which could mine is where
it needs that nothing dangles (`LinesMark`).

**Main** (`Main_proofs`). `MainIsProxy`: the process with its signals implements the
proxy without them, so all of the above holds of it. From `EndsOnlyWhenIdle`
follow `SignalsEndNoLoop` and, as `listening` never changes, `ListeningNeverEnds`.

**AuctionEngine** (`AuctionEngine_proofs`). `AuctionTypeCorrect`, and
`PausedOnRecordCorrect` with

    RecordInv == DataOK /\ StopUnderWay /\ ResumeSoFar /\ PausedOnRecord

`ResumeSoFar` (what a resume has visited is active, or crashed and coming back) is what makes removing the
file at its end safe; `StopUnderWay` ties the service between stop and record
to the loop that will record it. `PauseAppliedCorrect` and `ResumeAppliedCorrect`
say that the file with the winner, the only thing that tells the next auction
whether there is anything left to do, tells the truth. They need

    WinnerInv == RecordInv /\ OneState /\ PauseSoFar /\ NothingPaused /\ PauseApplied

The winner is written before its profile is applied, so the file is wrong for a
while; `PauseSoFar` says how far a pause has made it true, and a kill or a
command that fails in between leads through `Restart`, which forgets the winner.
`PauseApplied` holds of any kill; `ResumeApplied` does not (`auction_killed`), and it
uses `PausedOnRecord` and `NothingPaused`: no file is left behind.

**GamingCoordinator** (`GamingCoordinator_proofs`). `CoordinatorTypeCorrect`,
`PausedWhenNotedCorrect` (a pass in progress has scaled what it visited and
found, except what the user starts), and `NeverResumes`: the branch that calls
`resume_mining` is dead, for every hysteresis, so that every step that scales a
deployment up is the toggle's.

**Only model-checked**: everything temporal with fairness (`PoolRotation`, the
liveness part of `ImplementsPoolSession`, `EveryLineRead`, `HandshakeEnds`,
`MinesUnlessKilled`, `GamingWins`, `MiningYields`, `PausedIfVisible`), which is out of the prover's
reach, and the counterexamples of the violated properties. Every invariant and
every action property of the passing runs is proved, and so is the safety part
of each refinement.

## 6. Abstractions

* Time: a timer is due or not, chosen freely; the poll timeout is `Poll({})`.
* In PoolManager and WorkerManager a write is `sent`, `lost` or `failed`. That is
  what Connection's writes amount to for an owner: all of the line goes out;
  some or none of it does and the connection stays open (a short write, a
  blocked one, a refused one); or the connection is marked for closing.
* In Connection a byte is ordinary, a carriage return or a newline, and the
  content of lines does not matter. OpenSSL is external, modelled as it is used:
  four flights (TLS 1.2), one record decrypted at a time, a record that could
  not be written kept until a call it accepts as the repetition (not shorter,
  same address, `SSL_MODE_ACCEPT_MOVING_WRITE_BUFFER` not being set). The callback that
  reports CONNECTED and the read that follows it at once are steps of their
  own. `Poll` may find nothing on this connection, as the loop has others.
* A pool answers with the id of the request, or with none (`IdSeen`), and with one
  of the shapes of `Stratum!Reply`. Undefined behaviour is a choice: a field missing in a
  job notification ends like a conversion error or ends the process; a use of a
  destroyed connection is described in section 2.
* Death by a signal left to its default action (`SIGPIPE` on a write to a peer
  that has gone) is a behaviour that stops: `[][Next]_vars` allows it, and no
  property that is checked needs more than that.
* `paused_services` is a set of lines: a service stopped twice is listed twice in
  the file and started twice, which systemd ignores.
* Bids are compared as integers; the script compares decimals with `bc`. A pod is
  what `kubectl` shows of it: one whose phase cannot be read is not there, one
  whose priority class cannot be read is a normal one, and without a cluster
  there is none. A bidder that is not enabled bids 0, which is `Pods = {}` or
  `MINING_HOURLY = 0`.
* The script's metrics, log and counter files are left out; a write to them that
  fails ends the script, which is a `Kill` here. So does an `echo` to `paused_services`
  that fails, which is therefore one of the kills that are counted.
* `check_gaming` may run several `pgrep`; `gaming` is what it sees, taken at one
  moment.
* A `systemctl` that fails leaves the service as it was. A stop that reports a
  failure and yet takes effect is left out: it would stop a service that is not on
  record, with no kill, which `PausedOnRecord` therefore does not exclude.
* `Services` is `MINING_SERVICES`, and "all mining" means these. The unit does not pass
  the option of the module on, and the script's own default (`lolminer-nvidia xmrig`)
  lacks the `lolminer-amd` of the option's, which is then never paused; the models
  take the script's list, whatever it is.
* Clicks on the desktop toggle come one after another; two of its scripts at once
  are not modelled.

## 7. Not modelled

* What a pool or a worker makes of the beginning of a line that a short write
  left in the stream: `WireInOrder` says only that nothing comes twice or out of
  its turn.
* The parsing and formatting of JSON: its outcomes are the shapes of `Stratum`.
* The growth of `read_buffer_` and of `share_to_worker_` (a reply that is not an
  object leaves its entry): there is no limit in the code to state.
* `config.cpp`: read once before anything runs; its results are the constants.
* `ssl_utils.cpp`: compiled, but its `TLSConnection` is constructed nowhere; TLS is
  set up in `connection.cpp`. Likewise `Connection`'s move operations.
* Name resolution blocks the whole loop (`getaddrinfo`); time is not modelled.
* `auto-gaming-detection.sh`: nothing in the repository sources it; only
  `src/README.md` mentions it.
* The plasmoid and the toggle's status script: they show what `kubectl` prints, and
  run the toggle that is modelled.
* Exporters, manifests, images, dashboards, packages: no state machine.
* The coordinator's unit starts `"${script}/bin/gaming-mining-coordinator"` where
  `script` is made by `writeShellScript`, which makes a file and not a directory:
  as packaged the unit would not start. The model is of the script.

## 8. Plan

Done: the proxy with its event loop, one connection in detail, the auction
engine, the coordinator with the toggle; proofs of all their invariants and
action properties, of the refinements of LineStream, ConnLife and PoolSession,
and of the finality of what the findings on failover and signals show. What
would add most next:

1. The writes of the two levels: Connection's outcomes of `send_line`, as an owner
   sees them, implement `sent`, `lost` and `failed`, in an abstract module beside
   ConnLife (whose `Mark` already covers what `failed` does to a connection).
2. Abstract specifications of the two scripts: what the coordinator and the
   auction engine promise of the miners without their files, lists and
   commands, and proofs that they implement them.
3. The parts of the liveness arguments that are not temporal, as theorems: the
   measure that a pause, a resume or a rotation through the pools makes smaller.
4. A bound on `share_to_worker_` by the replies that are owed, lost or were not
   objects, once the code states one.
