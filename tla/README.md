# DomesticLLM: a TLA+ verification project

This directory specifies, model-checks and partly proves the core logic of
DomesticLLM: programs that run local language models on one host and switch
them on demand. Everything is translated from the source in `src/`; paths
below are relative to it.

## 1. Inventory

| Part | State it keeps | Operations | Interacts with |
| --- | --- | --- | --- |
| LAN gateway, `scripts/lan-gateway.py` | the tracked process, `active`, `active_runtime`, session counters, one reentrant lock, a state file | POST of a chat or completion (activate, relay), GET of status and catalog | backends (Popen, signals, loopback HTTP), browsers and API clients, systemd |
| PDS4 lanes, `pds4/lane.py` | lane files, `routes.json`, environment files, manifest status, audit log, an advisory file lock | switch the Fast lane, start or stop the Flash lane | systemd units, the installed store |
| PDS4 gateway, `pds4/gateway.py` | a catalog read once; `routes.json` read per request | route, translate, relay | the lane switch (through the file), backends |
| KV cache, `pds4/cache.py` | sessions, checkpoints with digests and access times | register, checkpoint, restore, verify, prune | the timer that prunes, the lanes' users |
| Model store, `pds4/store.py`, `common.py`, `manifest.py` | content-addressed blobs, model directories | import, verify, quarantine | bundles, lanes |
| Recovery bundle, `pds4/bundle.py` | bundle directories, releases, the `current` and `previous` links | create, verify, import, recover | the store |
| Slot gateway, `scripts/domesticllm-gateway.py` | per-model semaphores | authenticate, route, wait for a slot, relay | llama-server backends |
| DS4 promotion, `scripts/15,18,19` and `ds4-runtime-lib.sh` | `current`/`previous` links, enabled and running units | install, canary, promote, roll back | systemd |
| Agent session, `scripts/domesticllm-agent-session` | the running lane | stop and restore units around a session | systemd |
| MCP tools, `mcp/local_ai_server.py` | none between calls | confined file reads, policy search, backend calls | an agent |
| Browser console, `web-lan/app.js` | chats in `localStorage` | new, select, delete, send | the LAN gateway |
| Installers, `scripts/pds4-server-install` and others | the user services they replace | disable, install, start, restore on error | systemd |
| Terminal chat, `scripts/domesticllm-tui.py` (`pds4-tui.py` is the same program) | the conversation, a worker thread and a queue per turn | prompt, `/clear`, `/tokens`, Ctrl-C, the stream of an answer | one of the gateways |
| Older web page, REPL, benchmarks | one conversation, or none | send, render | one of the gateways |

### How the parts interact

A browser or API client posts to the LAN gateway, which is the product's main
program: it owns the one backend process and talks to it over loopback. The
PDS4 programs are a second stack on the same host: `pds4 lane use fast M` drives
systemd and publishes the result in `routes.json`; the PDS4 gateway reads that
file for every request and never asks the backend which model it runs. The slot
gateway stands before servers that are started by systemd. Store, bundles and
KV cache are directories that several commands change at different times; the
cache is pruned by a timer. The terminal chat is a client of a gateway. Nothing
is shared in memory except inside the three gateways, whose handler threads run
side by side, and inside the chat, whose worker threads read the list of messages
that the main thread goes on changing.

### What is hard, and what correct means

* **LAN gateway.** One lock covers a transaction that takes minutes and in
  which the backend may die, refuse to die, never become ready, or be left
  generating for a client that has gone. The old backend is stopped before the
  new settings are validated; status is read without the lock; a crash leaves a
  state file behind. Correct: one backend at most and always reachable by
  `stop()`; answers from the requested model and settings; no relay disturbed;
  telemetry of the active model; the lock held for ever by nothing but a transfer
  that its peer keeps going.
* **PDS4 lanes.** A switch is ten steps over systemd, three files and two
  probes, any of which fails; the rollback fails too; the process may be killed
  between any two steps; two lanes rewrite one routing file without a common
  lock. Correct: a model reported ready is the model that answers on the port; a
  promotion was probed on the target; a failed switch restores; the lock is
  given back. Much of this the code delivers only while commands run to their end
  and rollbacks succeed (section 6).
* **PDS4 gateway.** A route is read, then used; a switch may be between.
  Correct: an answer comes from the model the client named.
* **Slot gateway.** A slot taken must be returned on every path, and only once.
  Correct: slots are conserved, a backend has no more connections than slots, an
  acquire gives up only on a full lane, a lane stays full only of requests whose
  client or backend does not end.
* **KV cache.** Pruning, checkpointing and restoring are separate processes on
  the same directories, and may be killed. Correct: a checkpoint that has both
  its files verifies; nothing made under another identity is put in front of a
  runtime, unless the session is registered anew under the work; a checkpoint is
  not overwritten; an active session is not pruned; the quota is met.
* **Store and bundles.** Imports, promotions, bundles and recoveries are
  processes without a lock, killed anywhere, over sources and machines that
  change. Correct: an address holds what it names; a manifest in place verifies;
  an import or a recovery repairs what a killed one has left; a release in use
  is complete, and there is a way back to the one before.
* **Terminal chat.** A turn fails, is cancelled or is trimmed while threads of
  earlier turns still run. Correct: the conversation alternates; an answer
  belongs to its prompt and is whole; what is sent ends with the prompt; every
  turn ends.
* **DS4 promotion, agent session, installers.** Shell scripts under `set -e`:
  correct is that every failure leaves one server that answers.
* **Browser console.** A reply arrives after the chat was changed or deleted.
  Correct: no reply lands in another chat, no chat is lost by a save.

`PROJECT.json` lists each hazard with the line where it bites and the properties
about it, or the reason why there is none yet.

## 2. Plan

Modules in the order of their importance to the running system.

| | Module | Contents | State |
| --- | --- | --- | --- |
| 1 | `LanGateway`, `SerialSwitch`, `LanStatus` | the LAN gateway, what it promises, its lock-free reader | done |
| 2 | `LanGatewayProofs`, `LanStatusProofs` | types, safety, refinement, the exactness of a status answer | done |
| 3 | `FastLane`, `Pds4Gateway` (composes the gateway with the lanes), `FastLaneProofs`, `Pds4GatewayProofs` | lane commands, router, and proofs about both | done, without the Flash unit and a reboot |
| 4 | `DomesticGateway`, `DomesticGatewayProofs` | slot gateway and its proofs | done |
| 5 | `KvCache`, `KvCacheProofs` | checkpoint, restore and prune as processes, kills between steps | done |
| 6 | `ModelStore`, `Recovery` (extends the store), `RecoveryProofs` | import, promotion of a manifest, bundles, releases, `current` and `previous` | done, without two recoveries at once |
| 7 | `ChatClient`, `ChatClientProofs` | the terminal chat and its worker threads | done |
| 8 | `Ds4Promotion` | scripts 15, 18, 19: units, enablement, port, `set -e`, reboot | open |
| 9 | `LanGateway` with its main thread | `stop()` after SIGINT, outside the lock | open |
| 10 | `AgentSession`, `WebLanChats` | the session's trap; the chat store across an await | open |
| 11 | operators | MCP path confinement and redaction, manifest validation, GPU assignment, against reference definitions | open |

Every safety, action and refinement property of the passing runs is a theorem
(section 6). What is left to prove: of the lanes, what remains true when commands
are killed or a rollback fails, beyond types and what is published; and the
invariants of the modules in the open rows. Every module is written with
constants for its sets and without recursive operators, so that a proofs module
can extend it.

## 3. Modules and the code

### LanGateway (`scripts/lan-gateway.py`)

| State | Code |
| --- | --- |
| `lock` | `Gateway.lock`, an `RLock` taken with `acquire(blocking=False)` |
| `process`, `active`, `runtime` | `self.process`, `self.active`, `self.active_runtime` |
| `session` | `session_started_at`, `session_requests`, and in `last` the model that `last_generation` was measured on |
| `file` | the JSON file of `save_state` |
| `pc[h]`, `job[h]`, `answer[h]` | a handler thread: where it is in `do_POST`, the body it parsed, what its client got |
| `backend[p]` | an operating-system process: not there, starting, answering; what it was launched with; whether it has been signalled |
| `generating[h]` | the backend that works on `h`'s generation, also after `h` has given up |

`Refuse`, `Busy`, `Acquire` are `do_POST` up to the lock; `ReadBody` the upload
and its checks; `Activate`, `Verify`, `Stop`, `SaveLoading`, `Launch` and the
readiness loop (`StartupExit`, `BecomeReady`, `ProbeBroken`, `Deadline`,
`Abandon`, `GiveUp`) are `activate()` with `stop()`, `command()`,
`verify_model()`, `save_state()`; `Forward` and the `Relay...` actions are
`proxy()` with `record_generation()`; `Release` is the `finally` clause.
`Transferring` names the three waits whose length a peer decides: the upload, the
relay (a client that has stopped reading, a backend that sends something within
each 900 s) and the readiness probe of a backend that has begun to listen. A step
ends wherever another thread, a backend or a crash can be seen. Errors are
disjuncts of the step that raises them, with the reply the `except` clause
sends. `Crash` takes the backends along, because the unit kills its control
group; `Restart` is `Restart=on-failure` followed by `__init__` and the first
`save_state`. The contents of a conversation, the sampling parameters and the
measurements are not modelled; of a model name only its place in the catalog.

`SerialSwitch` is the promise: one transaction, one resident backend, loaded
only when there is none, answers from a resident backend of the model. It has
no locks, files or time. `LanStatus` extends `LanGateway` with a thread in
`status()`, one attribute per step.

### FastLane and Pds4Gateway (`pds4/lane.py`, `pds4/gateway.py`)

A command is a process: `pc`, and what it remembers (`target`, `previous`,
`pending`, `seen`). `lock` is the `flock`, `lane` the lane files, `routes` the
routing file, `env` the environment files, `promoted` the manifests. `units[k]`
are the instances systemd keeps active as canary or primary, `server[k]` the
process that has the port. Each action of `Switch` is one statement of
`switch_fast`; `WriteFile`, `ReadOther`, `WriteRoutes` are `write_lane_state`,
whose caller continues at `next`; `TryFails` and `EndsEarly` are its exceptions,
the `wait_ready` deadline among them; `Interrupt` is the end of the process.
Starting a canary stops the primary of the same model and the reverse
(`Conflicts=`). A server reads its environment file when it starts, whatever
restarts it. `probed` is a history variable: which of the two probes were
answered by the target itself.

`Pds4Gateway` adds handler threads: `Route` reads the routes once, `Connect`
and `Relay` meet whichever server has the port then. `quiet` and `current` are
history variables: no switch held the lock during the request, and the routes it
read were those of the lane's file.

### DomesticGateway (`scripts/domesticllm-gateway.py`)

Threads in `_proxy`: `Arrive` and `Check` up to the `try` statement, `ReadBody`,
`Acquire` or `GiveUp`, `Connect` or `Unavailable`, `Response`, `Relay`, and the
`finally` clause in the order of the code, `Close` before `Release`. `GiveUp` is
the acquire that returns false and `Busy` the 429 that is sent afterwards; a slot
may come free in between. `value` is the semaphore's counter, `acquired` the local
variable. `Escapes` are the requests that raise what no clause catches: a key that
is not ASCII (line 110), a target that is no URL (line 119), a model that is not
hashable (line 65). A client reads, has stopped reading, or has gone. `dropped` is a
history variable: the backend dropped the connection made for this request.

### KvCache (`pds4/cache.py`)

| State | Code |
| --- | --- |
| `registered`, `active`, `live` | the files under `/var/lib/pds4/sessions`, the directories under `/run/pds4/sessions`, the payload in each |
| `kept[s]`, `hidden` | the checkpoint directory of a session with its two files; the hidden directories a killed checkpoint leaves |
| `pc`, `on`, `draft`, `known`, `copy`, `files`, `todo`, `total` | the locals of a command: its place, session, hidden directory, verified metadata, copied payload, and what a prune has still to do |

`Checkpoint`, `CopyLive`, `WriteMeta`, `InstallCheckpoint` are `checkpoint`;
`Restore`, `MakeLiveDir`, `CopyKept`, `InstallLive`, `Touch` are `restore` after
`VerifiesCheckpoint`, which is `verify_checkpoint`; `Prune`, `SkipActive`,
`Choose`, `Unlink`, `RemoveDir`, `EndPrune` are `prune` with the steps of
`shutil.rmtree`, whose order of unlinking is the directory's. A payload stands
for its content and for the identity it was made under; a digest stands for the
payload that has it. `Register`, `Serve` and `End` are the runtime and its
operator; `Register` has no guard, as `register` has none: the identity of a
session may change while it is served and while commands work on it. `removed`,
`renamed` and `undisturbed` are history variables: the sessions whose checkpoint
was removed under a restore, those registered anew while they had a payload in
front of the runtime or a checkpoint or a restore under way, and the commands that
nothing else has overlapped.

### ModelStore and Recovery (`pds4/store.py`, `pds4/bundle.py`)

`blob`, `directories`, `manifest` and `link` are the store on disk. `Import`,
`KeepBlob`, `CopyBlob`, `MakeDirectory`, `WriteManifest`, `Link` are
`import_model` with `_copy_blob`;
`ReadForPromotion` and `WritePromotion` are `_promote_manifest` of
`pds4/lane.py`; `Verified` is `verify_installed`. `Recovery` extends the store:
`bundle` is what `create` has put in a bundle's directory so far (`VerifyModel`,
`CopyManifest`, `CopyWeights`, `CopyArtifact`, `ModelCopied`, `CopyRelease`, `List`, `Sign`,
`Abandon`), `release`, `staging`, `current` and `previous` are `/opt/pds4`
(`Recover`, `SkipModel`, `ImportModel`, `Install`, `CopyRuntimeFile`,
`RenameRelease`, `KeepPrevious`, `SwitchCurrent`). A bundle's weights are
kept apart from the other files of a model, because they alone may be left out for
licence reasons. Inside a recovery the import of a model runs the store's own
actions and returns to `back`. `mapped` is `/etc/pds4/gpus.conf`, which
`MapGpus` writes (`pds4/gpu.py`) and no recovery. `Healthy` is `inspect` of
`pds4/doctor.py`: the map of the GPUs, a release, and a manifest that verifies in
every directory of a model. `Damage` and `NewMachine` are the environment:
bundles outlive the machine. `alone` and `solo` are history variables: no other
command has overlapped this one, and none overlapped the making of the bundle.

### ChatClient (`scripts/domesticllm-tui.py`)

`messages` is the one list that the main thread and the workers share;
`worker[t]` and `queue[t]` are the thread and the queue of turn `t`; `taken`,
`content`, `reasoning`, `truncated`, `failed` are the locals of `run_turn`.
`Ask`, `Clear`, `SetRoom`, `Leave` are `interactive_chat` with `chat_command`;
`Start` is `run_turn` up to its loop, `trim_history` included; `TakeEvent`,
`Interrupt`, `Fail`, `Answer` and `Blank` are the loop and its ends (an error
without text ends a turn like the end of the stream, and of an answer made of
control characters nothing is kept); `Submit`, `Stream`,
`Done`, `Break` are `request_worker`. A text is a sequence of pieces, each
marked with the thread that received it, which is what lets a property say
whose text an answer is.

`MCLanGateway`, `MCLanStatus`, `MCFastLane`, `MCPds4Gateway`, `MCDomesticGateway`,
`MCKvCache`, `MCRecovery` and `MCChatClient` give the constants their values for
TLC.

## 4. Runs

| Run | Question | Answer |
| --- | --- | --- |
| `gateway` | is there one tracked backend, are answers and telemetry of the right model, is a backend stopped only for a reason, does nothing but a transfer hold the lock for ever, is the promise implemented - through every fault? | yes |
| `gateway_healthy` | with killable backends and a writable state directory, is a relay undisturbed and does the state file name the active model? | yes |
| `stop_while_generating` | is a running generation safe from a second caller? | no, finding 1 |
| `status` | is a status answer, while no transaction is open, the state of one moment? | yes |
| `lane_liveness` | does a switch give the lock back under every fault? | yes |
| `lane_gateway` | one primary, ready means served, promoted means tried, every switch settles; and is a request that no switch overlaps, and that read the lane as it is recorded, answered by the model it names? | yes, while no command is killed and nothing fails in a rollback or before the `try` block |
| `lane_gateway_flash` | and if it read routes that a Flash command wrote back? | no, finding 2 |
| `slots` | are slots conserved, connections bounded, acquires given up only on full lanes, silence explained, lanes kept full only by transfers that do not end? | yes |
| `kv_cache` | do checkpoints in place verify, is the payload in front of a runtime of the identity its session is registered with, is no checkpoint overwritten, does a prune spare active sessions and meet the quota? | yes, with the exceptions that the properties name |
| `recovery` | is the store sound, does an import or a recovery deliver over what killed ones left, are releases complete, is there a way back? | yes |
| `chat` | does the conversation alternate, is an answer whole and of its prompt, does what is sent fit and end with the prompt, does every turn end? | yes |
| `chat_errors` | does every turn end with any URL the program accepts? | no, finding 3 |

### Bounds, and why they are enough

* `LanGateway`: two handler threads (the lock has one holder; a second thread is
  every other client), two process identities (the one being replaced and the
  new one; identities are reused after death), two admitted models, one that is
  not, one unknown name, three settings (default, changed, rejected).
  `MaxRequests = 1` caps the session counter: the code tells zero from more
  than zero only. `Unkillable` and `StateDirMayFail` switch the faults on; both
  are on in `gateway`. `gateway` uses no symmetry, because it checks liveness.
* `LanStatus`: one reader and one handler, for both are alone in what they do;
  two models and two settings tell a mixed answer from a true one.
* `FastLane` and `Pds4Gateway`: two switchers (the one that has the lock and the
  one that is refused), one Flash command, one request (requests do not affect
  each other), two models: the previous and the next. `MayInterrupt`,
  `StopMayFail`, `DiskMayFail`, `RollbackMayFail` name the faults;
  `lane_gateway` has none of them but every failure that leads to the rollback,
  dying servers and units included; `lane_liveness` has one switcher, whose
  commands may be repeated, and all of them.
* `DomesticGateway`: two requests and two ports with one slot each, which is
  what the systemd units configure; two requests for one slot is the first
  instance in which one waits.
* `KvCache`: two commands (every hazard is a race of two), two sessions with
  room for one (a prune has to choose), an identity that may be kept and a Cyber
  one, two payloads (a copy can differ from what is live), `MaxUpsets = 1` (one
  command killed, or one session registered under the other identity) and
  `MaxServes = 2` payloads written by a runtime.
* `Recovery`: one model in two versions that share an artifact and of which one
  may not be redistributed, two commands, two bundles (two releases besides the
  factory's), two runtime files (a copy can be cut in half). `MaxStarts = 4`
  commands, such as create, replace the machine, recover, recover again;
  `MaxKills = 1`, `Wipes = 1` machine replaced; `SourceMayChange` lets an
  artifact change between its check and its copy.
* `ChatClient`: `MaxTurns = 3` (a cancelled turn, the next, and one that is
  trimmed), `MaxPieces = 2` per stream, `MaxCancels = 1`; rooms in which one turn
  or two fit.

Deadlock is checked in every run. In the gateways, the lanes and the cache a
client or an operator can always come; in `Recovery` and `ChatClient` the end is
an explicit step (`Done`, `Ended`), so that any other halt is found.

## 5. Fairness

* `LanGateway!FairSpec`: a handler goes on in every step but those of
  `Transferring`. Justified by the code's timeouts, `wait(timeout=300)` and
  `wait(timeout=30)` in `stop()` and the readiness deadline, and by steps that wait
  for nobody. Nothing is assumed of an upload, a relay or a probe: `rfile.read` and
  `wfile.write` have no timeout, and those of the upstream connections are for one
  read each. Clients need not come; backends need not start, answer or obey SIGINT;
  systemd need not restart the service. Hence `OnlyTransfersLast` says which waits
  may hold the lock for ever, not that none does.
* `FastLane!FairSpec`: a command goes on; `wait_ready` has a deadline. Servers
  need not become ready.
* `DomesticGateway!FairSpec`: a thread goes on in every step but those of
  `Transfer` (upload, response, relay), which last as long as a peer sends something
  within each timeout; a step that writes waits for a client that reads or has gone,
  and nothing makes one that has stopped reading leave. The semaphore is not assumed to be fair:
  `LaneFrees` says that a lane that stays full has a request whose backend or client
  does not end, not that a particular request gets a slot.
* `ChatClient!FairSpec`: the main thread takes an event that is in its queue, and
  a worker goes on: every operation on its socket has the timeout of 1800 s, and
  `max_tokens` bounds the stream. Nothing is assumed of the user.

`KvCache` and `Recovery` are checked for safety only: their commands are
sequences of file operations that end by themselves.

## 6. Proofs

`LanGatewayProofs` proves for any sets of threads, processes, models and settings
that `Spec` implies `TypeOK`, `OneBackend`, `IdleMeansUnloaded`,
`ServedByRequested`, `RelayUndisturbed`, `TelemetryOfActive`, `FileNamesActive`,
`StopsOnlyForSwitch` and `ImplementsSerialSwitch`. The assumptions are those of
`LanGateway`: the catalog's names, `None` outside every set, the default
settings supported. None of the safety properties is inductive by itself. The invariant
`IInv` adds what makes them so:

* `LockInv`: a thread beyond the lock owns it, so at most one is there;
* `TrackInv`: `active` and `active_runtime` describe the tracked process while
  it lives, and every living process was launched from the catalog;
* `StepInv`: what each step of `activate()` and `proxy()` has established, for
  instance that nothing is tracked and the session is empty once `stop()` has
  returned, or that a thread which waits for readiness has set `active`;
* `GenerationInv`: a generation runs on a living process, a relayed one on the
  tracked one;
* `ToldInv`: a signalled process that is still tracked is being waited for, or
  has outlived SIGKILL.

`InvInit` and `InvStep` (with `StopStep` for the three steps of `stop()`) make it
inductive; each property follows from `IInv`, the action property and the
refinement from `IInv` and one case per action.

`FileNamesActive` needs more, for the file is written after the memory it
describes and a crash leaves it behind: `UpInv`, that nobody is in a transaction
while the gateway is down, and `FileInv`, that a file which says "ready" names the
active model but between the end of `stop()` and the next `save_state`, and that it
says "loading" from there to the end of the startup.

`LanStatusProofs` proves first `ReaderIsHarmless`, that `StatusSpec` implies the
`Spec` of the gateway, so that every theorem above holds beside a reader; then
`QuietStatusIsExact` from `SnapInv`: as long as no transaction has overlapped the
reads, each field read so far is the gateway's and the others are blank. A
transaction that begins resets `quiet`, so nothing is assumed about it.

`DomesticGatewayProofs` proves `TypeOK` (no semaphore is released above its
initial value), `SlotsConserved`, `ConnectionsBounded`, `BusyOnlyWhenFull` (of the
acquire that gives up, not of the 429 that follows it) and `SilentOnlyWhenDropped`
for any finite set of threads and any concurrency. `IInv`
adds `LocalInv`: at which steps a thread has a slot, waits for one, and has a
connection. The counting steps are lemmas about the set of holders when one thread
joins or leaves it. `SilentInv` says that a thread in its `finally` clause whose
client is there and was sent nothing had its connection dropped by the backend, or
has a request that raises what no clause catches: the reply is decided before that
clause, which only closes and releases.

`FastLaneProofs` proves for any sets of switchers, Flash commands and models
`TypeOK`, whatever fails; `SwitchSettles` from `NoEarlyEnd`, that no command is
killed and none fails before its `try` block or in its rollback, where a stop may
still fail; and `OnePrimary`, `ReadyAnswers` and `PromotionTested` from `NoFaults`,
in which the stops of a rollback succeed too: they are promises for commands that
run to their end and rollbacks that work, and are not true of others. Everything inside the block may fail,
and servers and units end at any time. The assumptions are needed: TLC finds the
last three violated when any one of the four faults is on, and `SwitchSettles` with
each of the three that `NoEarlyEnd` excludes. The code promises nothing for a
command that is killed or whose rollback fails.

A property of the moments between switches holds because of what a switch does in
fifteen steps, so `LaneInv` says what each step knows. Its first two parts and the
types are `SwitchInv`, which needs no assumption:

* `LockInv`: a switcher holds the lock exactly while it is at work;
* `PublishInv`: the lane state it is about to write is that of the step, and what
  it has written is in the file until it writes again;
* `ServerInv`: whoever has a port is an active unit started with the present
  environment file;
* `UnitInv`: which units may be active at each step, with which environment;
* `RestInv`: while the lock is free, the active primary is the ready model;
* `TrialInv`: which of the two probes the target has passed.

`Pds4GatewayProofs` proves `GatewayIsHarmless`, that the lanes beside the gateway
are the lanes alone, and from `LaneInv` the property `CurrentAnswerIsAsked`, under
`NoFaults`. `SureInv` follows a request that no switch has overlapped and that read
the lane as it is recorded: the lane is still ready for the model it asked for,
because only a switcher writes that file, and the process that has accepted its
connection runs that model, by `RestInv` and `ServerInv`.

`KvCacheProofs` proves `TypeOK`, `CheckpointSound`, `LiveIsOfIdentity`,
`PayloadStays`, `PruneSpares` and `PruneDelivers` for any number of commands,
sessions, identities and kills, and any quota.
`CacheInv` says what a command's memory is worth while others change the disk:
a live payload is of its session's identity (`LiveInv`), what a command has read as
the identity is still the registered one (`CurrentInv`), metadata names the payload
of its own identity (`MetaInv`), a draft's digest is that of its payload
(`DraftInv`), and what a restore has verified and copied is still of the session's
identity (`RestoreInv`, `VerifiedInv`). What is said of identities is said of the
sessions that were not registered anew under a live payload or under work
(`renamed`).
`QuietInv` is the account of a prune that nothing has overlapped and that met no
hidden directory: it is alone (`AloneInv`), its entries are the checkpoints as they
are on disk (`EntriesInv`), and its total is the number of complete ones, of which
all that may go are still to be visited (`VisitInv`), also while one is being
removed (`UnlinkInv`), whose size the code has already taken off.

`RecoveryProofs` proves `TypeOK`, `StoreSound`, `LinksComplete`, `WayBack`,
`SoloBundleImports`, `ImportDelivers` and `RecoveryDelivers` for any numbers of
commands, models, bundles, kills and replaced machines.
`RecoveryInv` is `StoreInv`, `BundleInv` and `ReleaseInv`: a command works from a
manifest it has read earlier, so the blobs of that manifest minus those still to
copy must be in place, whatever else is imported; and a release is complete from
its rename on, because the staging directory and the files still to copy make up
the whole runtime of the bundle, which was itself copied from a complete release.

The last three are about commands that nothing overlaps, and `SoloInv` is their
account, beside `RecoveryInv`: such a command is alone on the machine; what a
`create` has put in its bundle so far are the files of the manifests it has copied
(`Copied`, `Matching`), so that a bundle signed without company imports (`Signed`);
an import that turns its link has its own manifest in place (`Placed`); and what a
recovery has imported stays so while it goes on to the next model (`Imported`).
`HostInv` adds that a manifest lies in a directory that exists; with it, what the
doctor finds after a recovery follows from what the recovery has delivered, if the
GPUs are mapped and no killed import has left the directory of another model.

`ChatClientProofs` proves `TypeOK`, `TurnsAlternate`, `AnswerIsWhole` and
`SentIsAsked` for any number of turns, pieces and cancellations and any rooms.
`trim_history` drops the least number of turns that makes the rest fit; that it
always finds one, and that pairs stay pairs, are lemmas about sequences. For
`AnswerIsWhole` the main thread and the workers have to be told apart:
`ThreadInv`, that a thread puts only its own pieces and nothing after the event
that ends its turn; `TurnInv`, that what `run_turn` has gathered is the `Text` of
the events it has taken, which gains one piece when one event is taken, whatever the
worker appends meanwhile; and `AnswersInv`, that an answer in the conversation is
the whole text of a thread that has ended, so that no thread can change it any
more. `SendInv` keeps the trimmed conversation fitting until it is sent.

Only model-checked: the liveness properties `OnlyTransfersLast`, `SwitchEnds`,
`LaneFrees` and `TurnEnds`, because the prover handles neither fairness nor
`ENABLED`; and the three violations of section 7.

## 7. Findings

Three runs end in a counterexample to a statement of the repository.

1. `NoStopWhileGenerating` (`scripts/lan-gateway.py:251`). A transaction ends
   when its client has gone or after 900 s; the backend is not told. The next
   request for another model stops a backend that is still generating.
   `docs/LAN_GATEWAY.md:43-45` says that this cannot happen.
2. `QuietAnswerIsAsked` (`pds4/lane.py:66`). A Flash command writes back the
   `fast` entry it read before a switch; from then on the previous model's name
   routes to the new model. `tests/test_pds4_gateway.py:90-95` expects a refusal.
3. `TurnEnds` (`scripts/domesticllm-tui.py:87`). `validate_url` accepts a port out
   of range; reading it raises in the worker before the `try` block, the thread
   ends without an event, and the turn waits for ever.
   `scripts/domesticllm-tui.py:134` says that what the worker meets is "reported
   in the UI, never silently swallowed".

More was met while modelling; no run is kept for these.

LAN gateway and slot gateway:

* `activate()` stops the backend before `command()` rejects the settings
  (`scripts/lan-gateway.py:137`): a request that ends in a 400 unloads a working
  model, where `docs/ARCHITECTURE.md:31-32` says it stays loaded.
* `status()` tests `session_started_at` and reads it again
  (`scripts/lan-gateway.py:57`); a `stop()` in between makes the subtraction a
  `TypeError`. `docs/OPERATIONS.md:14-15` promises the status.
* The lock is released after the reply has been sent
  (`scripts/lan-gateway.py:248-251`): a client that retries at once may get one
  more 429, where `docs/LAN_GATEWAY.md:45-46` says busy only while one is active.
* A switch verifies the new model and then stops the old one
  (`scripts/lan-gateway.py:133-134`); `docs/MODELS.md:12-14` gives the other order.
* A failed startup resets `active` only (`scripts/lan-gateway.py:144`): the
  session clock of no model keeps running, against `docs/LAN_GATEWAY.md:36-37`.
* Three waits under the LAN gateway's lock have no deadline: the upload
  (`scripts/lan-gateway.py:244`), the relay (lines 174 and 181: a client that has
  stopped reading, a backend that sends something within each 900 s), and the
  probe of a backend that answers byte by byte. Every other request meets a 429
  meanwhile.
* The slot gateway's relay has the same two waits
  (`scripts/domesticllm-gateway.py:183`): such a request keeps its slot.
* An unhashable `model` value escapes the slot gateway's lookup
  (`scripts/domesticllm-gateway.py:65`) and the client gets no reply, where
  `tests/test_domesticllm_gateway.py:146` expects malformed models on the default
  port. A key that is not ASCII (line 110) and a target that is no URL (line 119)
  raise before the `try` statement, with the same result.
* A slot may come free between an acquire that gives up
  (`scripts/domesticllm-gateway.py:153`) and its 429 (line 155).

Lanes:

* After a switch that was killed, its primary still has the port; the next
  switch's probe can be answered by it (`pds4/lane.py:144`), and a model is
  promoted that was never tried there. `docs/PDS4_INVARIANTS.md:12` requires a
  trial on the target for every promotion.

KV cache:

* A prune that removes a checkpoint while it is being restored lets the
  restore's last step put the metadata back (`pds4/cache.py:161`): the session
  is left with metadata and no payload, can be neither restored nor
  checkpointed, and a later prune counts it as empty.
* A killed checkpoint leaves a hidden directory that `list_checkpoints` takes
  for the checkpoint of its session (`pds4/cache.py:131`): prune then counts a
  payload twice, or raises when the session has no other directory.
* `register` looks at nothing (`pds4/cache.py:49`): registering another identity
  while a payload is in front of the runtime, or a checkpoint or restore under way,
  leaves a payload of the old identity under the new one, which the next checkpoint
  labels with it.
* A removal killed between its two files can leave a payload without metadata
  (`pds4/cache.py:163`), which no command lists, restores or replaces.

Store and bundles:

* Importing an installed model again writes "verified" over "promoted"
  (`pds4/store.py:101`), and a promotion that read the manifest before an import
  writes the older one back: the last writer wins, and the manifest and the
  links may then be of different versions.
* `create` copies the manifest file as it is (`pds4/bundle.py:91`) and the
  artifacts by the manifest it verified before (line 89): with an import in
  between, the bundle verifies and does not import.
* A recovery on a replaced machine does not write `/etc/pds4/gpus.conf`, and an
  import killed after making a model's directory and before its manifest is there
  (`pds4/store.py:103`) leaves a directory that no recovery of another model clears
  away: the doctor fails on either (`pds4/doctor.py:11`, line 15).
* Recovering the bundle that is current makes `previous` equal to `current`
  (`pds4/bundle.py:234`): the way back is lost.
* Two recoveries of one bundle share the staging directory
  (`pds4/bundle.py:226`).

Terminal chat:

* A request that Ctrl-C has ended may still be running in its thread, and the
  list of messages is shared: a worker that serialises late sends the next
  turn's prompt (`scripts/domesticllm-tui.py:95`). Its answer is thrown away.
* Ctrl-C ends the turn only inside the `try` block of its loop
  (`scripts/domesticllm-tui.py:222`); a moment earlier or later it ends the program.
* An error whose text is empty is taken for none (`scripts/domesticllm-tui.py:266`):
  what has come by then is the answer.
* A stream that ends without `[DONE]` counts as complete
  (`scripts/domesticllm-tui.py:105`).
* A turn that fails has already dropped the oldest turns
  (`scripts/domesticllm-tui.py:79`).

## 8. Not modelled, and why

* LAN gateway: `stop()` on the main thread after SIGINT (line 253; plan row 9);
  static files and the catalog listing, which read constants.
* Lanes: the Flash unit, whose commands matter here for the routing file only;
  a reboot, which empties `/run/pds4`.
* PDS4 gateway: the Flash route, which has the same control as the Fast one; the
  translation of requests, one outcome (a 400) of the model.
* Slot gateway: `_serve_models`, which takes no slot. A backend that drops its
  connection is taken for a departed client (line 192): the client is left
  without reply; `SilentOnlyWhenDropped` states that this is one of two such cases.
* KV cache: the order in which a prune visits (any order, in the model), pins,
  which no command sets, the parsing of sizes.
* Store and bundles: `quarantine`, which no command calls; the check of the GGUF
  header; the sources and the bootstrap copies, which do not vary; two recoveries
  at once, which share a staging directory (section 7).
* Terminal chat: what is drawn, the usage counts, the key file.
* DS4 promotion, agent session, installers, browser console: open rows of the
  plan. Their hazards that matter most are listed, with the reason.
* MCP tools, GPU assignment and manifest validation are pure functions of one
  call, for reference definitions rather than for a state machine.
* Host setup, builds, downloads, benchmarks, probes and the REPL are sequential
  I/O with no state that outlives a call.
