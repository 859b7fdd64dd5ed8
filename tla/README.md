# Waiting Room: formal models

The daemon of Waiting Room keeps one truth, the intent of every Claude session
(WORKING, NEEDS_ATTENTION or UNKNOWN), and side activities (a snake game, a math
quiz) pause and resume with it. This directory holds TLA+ models of that system,
the TLC configurations that check them, and proofs that TLAPS checks.

Tools: `tlc -config X.cfg M` for a run, `tlapm M.tla` for the proofs.
`PROJECT.json` lists components, runs, the source lines each definition stands
for, the mutations that show each property to bite, hazards and theorems.

## 1. The system

| Part | State | Operations | Talks to |
|---|---|---|---|
| session registry (`internal/session`) | map of sessions: state, stamp, pane, socket, last event, under `Registry.mu` | Apply, Get, MostRecent, List, GC | called by Core and janitor; GC calls back to tmux with the lock held |
| event bus (`internal/bus`) | map of Subs; per Sub a channel of `subBufferSize` (64) places, an overflow flag, a done channel, a bound session; one pump goroutine each | Subscribe, Rebind, Unsubscribe, UnregisterSink, Publish, pump | writes to connections; calls Core back for a resync snapshot |
| Core (`internal/server/core.go`) | `subs` (connection to Sub) under `Core.mu`; `focusMu` | emit, subscribe, unsubscribe, focus request, status, ping, Closed | registry, bus, tmux |
| janitor (`internal/server/janitor.go`) | timings | Sweep: GC, List, Publish | registry, bus, tmux |
| server (`internal/server/server.go`) | listener, set of connections; per connection a `dead` flag | Run, listen, accept, serve (read loop), conn.Send, conn.close, teardown | Core |
| lifecycle (`internal/lifecycle`, `cmd/waiting-room/daemon.go`) | lock file, info file, socket file | probe, AcquireLock, WriteInfo, RemoveInfo | other daemon processes, through the file system |
| tmux controller (`internal/tmux`) | none | ListPanes, PaneExists, FocusPane: shell out, no timeout | tmux servers |
| emit client (`cmd/waiting-room/emit.go`) | none; one process per hook | stamp, send, await ack, retry once | Core |
| SDK (`packages/sdk/src`) | socket, timers, `stopped`; the activity's state | connect, reconnect with backoff, resubscribe, applyState, dispose; discover and spawn a daemon | server; the game's callbacks |
| games (`game-snake`, `exercise-math`) | game state, pause flags, timers | tick, key, onPause, onResume, onDisconnect | SDK |
| plugin scripts (`plugin-claude`) | installed binary | resolve, download, install, hooks, attach and launch | emit client |
| packaging, release | - | - | - |

What is hard:

- **Concurrency.** Every connection has a read loop, every emit a goroutine for
  what follows its ack, every focus request one, every Sub a pump, and there is
  the janitor. `Registry.mu`, `Core.mu`, `Bus.mu` and `focusMu` are each held for
  part of an operation only; between them state goes stale.
- **Order.** Hooks are processes that run at the same time: emits arrive in any
  order, twice (retry) or never. Snapshots are read at one moment and sent at
  another, beside the pump.
- **Limits.** A Sub's buffer is bounded; Publish never blocks but drops. It tests
  the buffer and raises the flag in two steps, beside a pump that takes no lock.
- **Failure.** tmux fails or hangs; a client stops reading; a daemon crashes and
  leaves its files; another starts while one goes down; the registry is in memory.
- **Time.** Connect timeout, keepalive and backoff race events of the socket and
  dispose.

What would make each part correct is in `hazards` of `PROJECT.json`, each at its
line with the properties that watch over it.

## 2. Modules

| Module | Models | Notes |
|---|---|---|
| `Sessions` | the registry's data and pure operators: `StateForEvent`, `Lookup`, `IsIgnored`, `Fold`, `ApplyTo`, `MostRecent` | shared by all daemon modules |
| `LatestIntent` | abstract specification: per session the newest stamp wins; forgetting keeps the stamp | what the registry promises |
| `Registry` | Apply and GC as atomic steps (they hold `Registry.mu`) against hooks, closing panes, time and a failing tmux | implements `LatestIntent` |
| `Bus` | the bus's operations and the steps of a pump, with no opinion on who calls them; what the bus promises a subscriber | EXTENDed by the two below |
| `BusSystem` | the bus closed over publishers, subscribers, rebinding, failing writes and closing connections | numbers instead of states |
| `Core` | the handler's goroutines and the janitor's, over registry and bus | composes `Sessions`, `Bus` |
| `Lifecycle` | daemon processes around flock, socket file and info file | |
| `Discovery` | activities and hooks that look for a daemon, and activities that spawn one, while daemons start, stop and crash | composes `Lifecycle` and the clients; implements `Lifecycle` |
| `EmitClient` | hook processes with their stamps, attempts and acks, against a daemon that hangs, dies and comes back | composes the hooks and `Sessions` |
| `Activity` | SDK connection loop, the activity's state, the game's pause, a daemon that restarts | |
| `Snake` | the snake game's rules and its component | |
| `Quiz` | the math quiz's component | |
| `Games` | one of the two is played | composes `Snake` and `Quiz` |
| `Clients` | one of the two kinds of clients that outlive their daemon, and what is fair to ask of them | composes `EmitClient` and `Activity` |
| `MCRegistry`, `MCCore`, `MCClients`, `MCDiscovery` | instances for TLC | |
| `RegistryProofs`, `BusProofs`, `BusSystemProofs`, `CoreProofs`, `DiscoveryProofs`, `EmitClientProofs`, `ActivityProofs`, `GamesProofs` | theorems | |

### Registry
`sessions` is `Registry.sessions`. `Apply` is one call of `Registry.Apply`,
`Sweep` one call of `GC` with the janitor's `paneExists` callback. Apply's rule is
in `Sessions!IsIgnored` and `Fold`: older stamps are ignored, at an equal stamp
NEEDS_ATTENTION does not win over what is there. `delivered` and `reapedAt` are
ghosts: what Apply has seen, and the stamp at the last reaping. An emit may be
applied at any time, again, or never, which is all that retries, losses and
concurrent hooks can do to the registry. In a sweep list-panes may fail for any
of the sessions (`failed`). Titles, cwd and meta are left out.

### Bus
`registered`, `sub`, `buf`, `overflow`, `done` are the Go fields. The pump is
`select` (`Stop` or `Receive`), `check` (`CheckOverflow`, which swaps the flag),
`announce`, `resync`, `push`, `write`: the points between which another
goroutine can act. `Stop` and `Receive` compete freely, as Go's select chooses at
random. Frames carry a ghost number, their place in the order of publication.

`Publish` is two kinds of steps under `Bus.mu`. `Publish` itself sends the frame
to the Subs that have room and collects the others in `flagging`; `RaiseFlag` is
one `overflow.Store(true)`. The pump takes no lock and may run in between: it may
receive, lower an older flag, or empty the buffer altogether before the new flag
rises. `BusFree` (nobody is flagging) guards every operation that takes `Bus.mu`,
and a caller goes on when the last flag is up. That the visits to the Subs are one
step is no loss: a buffer has one publisher at a time and one pump, and each Sub's
buffer, flag and pump are its own, so the steps of other Subs' pumps commute with
a visit; a pump that receives before its Sub is visited is one that receives
before `Publish`.

`missed[i]` is a ghost: the numbers of the drops that no notice has covered yet. A
notice covers the drops that were flagged when it was decided on, so a drop whose
flag is still to come stays in `missed`. `boundAt` and `removedAt` are ghosts.
`broken` is the set of connections on which Send fails. The five promises of the
bus (`DropsLeaveATrace`, `DropAnnouncedBeforeLaterFrames`, `DeliveredInOrder`,
`NothingAfterRemoval`, `BoundHearsItsSession`) speak of the bus's own variables and
are stated here, as they hold for any caller.

### Core
Each emit e has a program counter in `emit[e].pc`: `received` (ApplyEmit),
`publish`, `flag` (it is in Publish and has flags to raise), then the goroutine of
`afterEmit`: `collect`, `rebind`, `resolve`,
`bind`, `look`, `tell` for each unbound auto subscription, and `focus`, `pick`,
`switch` under `focusMu`. An activity's connection handles its script of
requests in order (`conn[k].pc`), its focus requests are `asks`. The janitor holds
`Registry.mu` throughout `probe` (`RegistryFree`), lets go of it, lists and
publishes. `view[k]` is what activity k was last told. `decided[s]` is a ghost:
the state for which the last focus was decided.

A *scenario* (chosen in Init, constant afterwards) fixes which emits arrive, what
the activities ask for, the panes, what the environment does, and what an emit
may overlap with. Scenarios keep the state space small without removing a step
of the code: each step's guard comes from the code, a scenario only limits when
emits *arrive*, when the janitor *starts*, and what clients do.

`Requests` and `Scenario` type what a scenario may hold. `MCCore` assumes of the
scenarios of `core` what `UnsubscribeStopsDelivery` and `BoundInWindow` need
(`SafetyScenariosAreTidy`); the theorems name the same as their hypotheses.

Choices: the ack and the effect of `FocusPane` in tmux change nothing that is
modelled; `handleStatus` and ping read only. `BoundSession` is read without
`Bus.mu` in two places; it is modelled as an atomic read (see hazards).
`GoIdle` waits for a change already applied to be published, as the idle limit
is minutes.

### Lifecycle
One process is one run of `runDaemon`: probe the socket (`Probe`), take the flock
or exit (`AcquireLock`), probe again (`Check`), remove a stale file (`Unlink`, or
end the start if that fails),
`Bind`, `WriteInfo`, serve, and `Close`, `Remove`, `Forget`, `Unlock`. `Crash` can
come anywhere: the kernel closes listener and lock, the files stay. A probe of a
live daemon may miss its timeout. `untidy` is a ghost.

### Discovery
`at[c]` is where a client is in `createActivity`, `resolveSocketPath` and
`ensureDaemon`: `Read` is `socketCandidates` (environment, info file, default),
`ProbeAdvertised` the probe of an advertised socket that is not the default one,
`Ensure` the probe of the socket settled on, `Spawn` the start of a child pinned
to that socket, `Poll` and `GiveUp` the three seconds that follow. A hook
(`discoverSocket` in `emit.go`) does the same as far as "settled" and sends its
message there. Daemons are `Lifecycle`'s processes, each with the steps it has
there; they are also started, stopped and killed by hand at any moment.

Two things are assumed of time: a daemon that serves answers a probe before the
probe's timeout, and the three seconds outlast the start of the client's child
and of whoever holds the lock. A daemon that is starting or going down may answer
or not. `server[c]` is a ghost: the daemon that served when c read the info file
and has served since. `hurt` is a ghost: the clients whose daemon met one that
was going down, failed, or was killed.

### EmitClient
A hook h is a process: `Fire` (Claude starts it, in order, and waits for none),
`Stamp` (`runEmit` up to the message; without a known event and a session there
is none), `Send` (dial and write), `Acked`, and `Fail` (no dial, no write, the
deadline, or the end of the stream), after which an asynchronous hook tries once
more with the same message. What a client gave up on stays in the daemon's
socket: `requests` keeps it until the daemon serves it or dies. An ack counts for
the connection it comes on. A stamp is any reading of the clock, as processes
start late and clocks are set back. Serving is two steps, `Serve` (Apply) and `Ack`;
`owed` is what is applied and not yet acknowledged, `vouched[h]` a ghost: how many
deaths there had been when the last ack was sent to h. `Die` takes the registry
with it, `Boot` is a
daemon started again, and a daemon of which nothing is asked is one that hangs.

### Activity
The client is single-threaded: a step is one event of its event loop. `link` is
the socket as the kernel sees it, `loop` where `IpcClient.loop` is, `socket` and
`keepalive` the client's fields of these names. Error, close, connect timeout and
dispose may all end an attempt, and `late` says that the close event of one that
has ended is still to come (`LateClose`: `finish` finds it settled). Frames are reduced to the
state they carry, since `applyState` looks at nothing else. The daemon half is
abstract: it keeps one session and answers a subscription with a snapshot.
Left out: the length of waits, several frames in one chunk with a dispose in the
callback of one of them, and callbacks registered after the first event.

### Snake, Quiz and Games
`Snake` has `turn`, `step`, `spawnFood` and `createInitialState` of `game.ts` and
the component's keys, ticks, restart and callbacks. `SpawnFood` is the set of
outcomes of the random draws and of the scan that follows them. `Quiz` is the
component of `exercise-math`: keys, the 0.8 s timer after an answer (`timers`
counts those not yet run), callbacks. A question is reduced to the place of its
answer. Score, streak and the number of answers start anew with every question,
as in the code, which replaces the whole state.

## 3. Runs

| Run | Cfg | Asks | Distinct states |
|---|---|---|---|
| `registry` | `Registry` | is a session determined by what was delivered, whatever the order; is every abandoned session reaped though tmux fails now and then; does the registry implement `LatestIntent` | 25 k |
| `bus_delivery` | `BusDelivery` | are drops flagged, and announced before later frames; are frames in order; does nothing published after removal arrive; do bound Subs hear only their session; are slow clients told and pumps ended | 995 k |
| `bus_drop_unannounced` | `BusDropUnannounced` | *violated*: every drop is announced, whether or not anything else is published | |
| `bus_resync_stale` | `BusResyncStale` | *violated*: a drained client holds the last change | |
| `bus_write_error` | `BusWriteError` | *violated*: a Sub whose pump gave up leaves the bus | |
| `core` | `Core` | is the focus the one the state calls for; is auto-binding right and sticky; do unsubscribe and hang-up leave nothing; does the view converge when nothing overlaps | 2.3 M |
| `core_progress` | `CoreProgress` | is every session in need given the focus, every buffer drained after an overflow too, every emit served even if tmux hangs | 68 k |
| `core_overlapping_emits` | `CoreOverlappingEmits` | *violated*: once all is quiet the activity has the session's state | |
| `clients` | `Clients` | hooks: does the newest stamp decide whatever is late or repeated; is an ack true; does a retry change nothing; does every hook end. Activity: healthy links kept, drops reported once, convergence after restarts, dispose final | 394 k |
| `discovery` | `Discovery` | one daemon per base, its socket and info file its own, clean exits; does a client find the daemon that serves; does an activity that spawns get a daemon | 554 k |
| `activity_restart` | `ActivityRestart` | *violated*: state is retained across a disconnect | |
| `games` | `Games` | does the snake stay whole and off its neck up to the full board; one timer per answer, a next question after every answer | 1.9 M |

`CHECK_DEADLOCK FALSE` where the system may come to rest: all emits sent, all
processes exited, the activity disposed of.

### Bounds
- `registry`: two sessions that share a pane id, on the two kinds of server (a
  named socket and the default one). The first has both events at two stamps, an
  emit without a pane, one from another pane, and an event the daemon does not
  know: ties, staleness, duplicates and moves all occur. Deliveries are not
  bounded, as their effect is idempotent; the clock is, at 3 with an idle limit
  of 1. The proofs cover what is said of stamps and
  states for any numbers of these. In any sweep tmux may fail for any sessions.
- `bus_delivery`: buffer 2 and five publications are the least with a frame in
  the pump's hand, a full buffer, a drop and a frame after it in the buffer, with
  the pump running between the publisher's test and its flag. One Sub: Subs
  share no state but the map. Two sessions for rebinding.
- `core`: two sessions, three emits, one connection with up to two Subs, four
  panes in two windows. The five scenarios are in `MCCore`: three overlapping
  emits of one session and a focus request; two sessions that appear in an
  activity's window; the same with unsubscribing, coming back and hanging up;
  tmux failing, with sweeps; emits one at a time, with sweeps and closing panes,
  an invalid mode and an unknown event. Buffers of 2 are the least with which
  `ViewConverges` holds, and overflow where three emits overlap, so the handler is
  checked with publishers that raise flags.
- `core_progress`: two emits, one window, an activity that asks for the focus and
  unsubscribes; a second scenario in which tmux hangs, with the janitor at work. Buffers of 1 overflow with two emits, so
  pumps announce, resync and wait for the registry while a sweep holds it.
- `clients`, the hooks: two hooks (Claude's events come in pairs: one is late,
  repeated, stamped alike or stamped before the other), three readings of the clock, two
  deaths of the daemon, one session (sessions do not meet in the registry), four
  inputs: both events, an event the client does not know, a payload without a
  session. The proofs cover any number of each.
- `clients`, the activity: four changes and two restarts: a change before, during
  and after a connection, and a restart during a reconnection. Hooks and activity
  are looked at apart, as they share nothing but a daemon that comes and goes.
- `discovery`: two activities (a competitor for the lock is enough), two daemon
  processes on the default socket and one on another, one base directory, one
  value of `$WAITING_ROOM_SOCKET`. Three processes are one dead or served, one
  going down and one starting; each runs once, and any of them may crash.
- `games`: a board of four by three cells is the least on which the snake can
  turn round and follow its tail; it is played until no cell is free. Four
  options, as the code has; the quiz's state does not grow.

### Fairness
- `Registry`: the clock runs and the janitor's ticker fires (weak). The fairness is
  that of sweeps which tmux answers: no failure is obliged to come, or the failures
  would reap what the sweeps should.
- `BusSystem`: the Go scheduler runs pumps and a publisher that has flags to raise
  (weak), and a closing connection's deferred calls (strong, as these wait for
  `Bus.mu`, which `sync.Mutex` keeps from nobody for ever). Nobody has to publish,
  join, read or leave.
- `Core`: strong fairness per goroutine, since a mutex that others take again and
  again disables a waiting step again and again, and `sync.Mutex` hands itself to
  a waiter that starves. The janitor needs weak fairness only. tmux commands
  return, except those of focus and rebinding in the hanging scenario, where the goroutines that run them, and the
  activities' connections, are obliged to nothing. The janitor's own tmux
  command is assumed to return: it runs with `Registry.mu` held, and if it never
  does, everything that needs the registry stops.
- `Clients`: hook processes run and their deadlines pass (weak). Nothing is asked
  of their daemon, so that `FailsOpen` holds with one that hangs. Of the activity:
  events that are due come, weakly, a connection that was cut ending by its error
  or its close; connecting strongly: a dial to a daemon that runs is not timed out
  for ever.
- `Discovery`: a daemon process and a client that can go on do (weak); nobody has
  to start, stop or kill a daemon.
- `Games`: the quiz's timer fires (weak); keys and ticks are not obliged to come.

### Where code and documents disagree
Five runs each show a disagreement, with a trace:

1. **Overlapping emits.** `handleEmit` applies and publishes in two steps. Two
   emits applied in order can be published in the opposite order; the activity
   then stays on the older state until the next transition.
2. **Stale frames after a resync.** After a drop the pump sends the fresh
   snapshot before the frames still buffered; those are older, and the client
   ends on the last of them.
3. **Write errors do not unregister.** A write that times out marks the
   connection dead and ends the pump, but the socket stays open and the read
   loop blocked; the Sub stays in the bus.
4. **A drop that is not announced.** `Publish` finds a buffer full and raises the
   flag in two steps. If the pump delivers everything in between, the flag stands
   over an empty buffer and a pump that waits: the client is told of its loss, and
   resynced, with the next frame published to it, or never. (`DropsAreAnnounced`
   says what holds: a flag over a buffer that is not empty is announced.)
5. **A restart forgets.** The snapshot of a restarted daemon takes an activity
   from NEEDS_ATTENTION to UNKNOWN, where the SDK's guide promises that the state
   is retained.

Others were met that need no run to be seen:

- **A tmux failure reaps.** `PaneExists` is false if list-panes fails, and an idle
  session whose pane is there is then reaped (`docs/architecture.md:24` has it
  that sessions are reaped whose pane is gone). Add `ReapsOnlyGonePanes` to the
  PROPERTIES of `Registry.cfg` and TLC finds it. With a proviso for the failure it
  would say no more than GC's guard, so no run checks it.
- **The offline notice stays** after the client has reconnected: the snake game
  sets it in `onDisconnect` and nothing takes it back (`App.tsx:49`).
- **Score and streak** of the quiz are shown, and are reset with every question
  (`exercise-math/src/App.tsx:45`); a question can come up during a pause.
- **Degraded for good.** An activity that starts while the old daemon goes down,
  or whose base directory's daemon is on another socket than the one it has
  settled on, spawns a child that exits at the lock; nothing is spawned again.
  `SpawnerGetsDaemon` excepts both cases. Nothing written promises better.

`MCCore` keeps eight further scenarios; set `Scenarios` in
`CoreOverlappingEmits.cfg` to one of them and `HasTmux` to TRUE:

- `LateSnapshot`: the subscribe snapshot is read before a change and sent after
  it (`PausesTheInstant` fails).
- `LateReaping`: a session revived between the sweep's List and its Publish is
  announced as unknown after its revival (`PausesTheInstant`; two panes suffice).
- `RebindRace`: a frame of another session buffered before Rebind arrives after
  the rebinding snapshot (`PausesTheInstant`; two sessions).
- `SamePaneIds`: pane ids are unique on one tmux server only; a session of another
  server is bound (`BoundInWindow`; two sockets).
- `Resubscribed`: a second subscribe on a connection hides the first, which an
  unsubscribe no longer removes (`UnsubscribeStopsDelivery`; two Subs).
- `FollowsTwo`, `TwoEmitServers`, `NoRoomForSweep`: without overlap,
  `ViewConverges` fails where a connection follows two sessions; where a session
  of another server, in a pane whose id the window has too, is bound by an emit
  whose own frame then follows (two sockets); and where a sweep's frame does not
  fit behind an emit's: the resync snapshot is written before the older frame
  (`BufferSize` 1; with 2 the property holds).

## 4. Proofs

Every theorem is of the module's specification without any bound of the runs.
Each inductive invariant is conjoined of named parts, and the steps are split by
what they touch before the parts are shown to be kept.

### `RegistryProofs`
For all sets of sessions, panes, sockets, emits, any idle limit, with tmux
failing whenever it may. Assumptions: those `Registry` names on its constants (emits are
well formed, stamps are naturals, `None` is no pane and no socket).

- `TypeCorrect`: `Spec => []TypeOK`.
- `OrderIndependence`: `Spec => []StateIsDetermined`. `StateIsDetermined` is not
  inductive: that the stamp is the highest delivered must be known when an emit
  is ignored as stale, and that it was delivered when it is not. The inductive
  invariant `IInv` conjoins `TypeOK`, `HoldsNewestStamp` and `StateIsDetermined`.
  The step for `Apply` goes by cases: first emit of a session, stale, tie, newer;
  that for `GC` by whether the session is reaped.
- `NothingSupersededReturns`: `Spec => NoStaleResurrection`, from `TypeOK` alone
  by the same cases.
- `NewestStampHeld`: `Spec => []HoldsNewestStamp`, from the same `IInv`.
- `RegistryImplementsLatestIntent`: `Spec => Intent!Spec`. `Apply` maps to
  `Declare` or a stutter, `GC` to `Forget` of the reaped sessions.

### `BusProofs`
For any subscriptions, connections, sessions and buffer size, and for *any
callers*: in `BusNext` the bus's operations are called in any order with any
arguments, except that a Sub is rebound or removed only once `Subscribe` has
returned it (`Calls`); snapshots may say anything (`Turns`). `BusSpec` is that
open bus. Assumptions: those of `Bus` on its constants.

- `NoSilentDrop` (`DropsLeaveATrace`); `NoticeComesFirst`
  (`DropAnnouncedBeforeLaterFrames`); `OrderIsKept` (`DeliveredInOrder`);
  `RemovedHearsNothingNew` (`NothingAfterRemoval`); `BoundHearsOnlyItsSession`
  (`BoundHearsItsSession`), each of `BusSpec`. The pump runs between a publisher's
  test and its flag in all of them.
- The invariant orders everything by the number of publication: buffers are in
  order, the pump's hand is before them, nothing is later than `published`
  (`InOrder`, `AllPublished`). `NoSilentDrop` needs `FlagsFollowDrops`, which says
  what a ghost drop without a flag is: the last publication, whose flag is still to
  come. With the pump between test and flag, the notice of an older drop may be
  decided on while a newer one waits for its flag; that the notice still precedes
  later frames follows from `FlaggedIsLater` (all that a Sub about to be flagged
  holds is older than its drop, as nobody else publishes before the flag is up) and
  `MissedIsLater`: from the check on, what was dropped and not announced is later
  than what the pump holds. `Accounted` ties map, pump
  and done channel together; without it a done Sub could be published to.
  `RemovedHoldsOld` and `BoundHoldsItsSession` say of buffer and hand what the
  properties say of the write.

### `BusSystemProofs`
- `TypeCorrect`; `SystemIsBus`: `Spec => BusSpec`, so that the closed system
  model-checked by `bus_delivery` is an instance of the open bus;
  `SystemKeepsBusPromises`: hence its five properties. What has to be shown is
  that deferred calls, of a connection that collected its Subs and is interrupted
  before it removes them, name subscribed Subs only.

### `CoreProofs`
For any scenarios, that is for any emits, scripts of requests, panes and events
of the environment, any number of each. Assumptions: `ScenariosAssumption`
(scenarios are well formed), `NoPaneAssumption` (`None` is no pane) and those of
`Bus`. Some theorems name a further hypothesis, in their statement.

- `TypeCorrect` (`TypeOK`): the inductive `TInv` types every local of every
  goroutine: what was read earlier and is used later has the right shape then.
- `LastStateWins` (`FocusFollowsState`): by `FocusIsDue`, a session's state has
  been acted on, or an emit that made it is still on its way to the focus. This
  holds because the decision is taken under `focusMu` from the state then held,
  and not from the emit's.
- `ClosedIsForgotten` (`ClosedLeavesNothing`): by `ClosingKnows`, what a closing
  connection still has in the bus it has collected for removal, whatever emits
  rebind meanwhile.
- `BindingStays` (`BindingIsSticky`): several emits may collect an unbound Sub and
  resolve it differently; the first `Rebind` is the one that holds.
- `UnsubscribeEnds` (`UnsubscribeStopsDelivery`), if every connection unsubscribes
  before it subscribes again (`OneSubscriptionAtATime`; the SDK subscribes once
  per connection). The scenario `Resubscribed` shows that it is false otherwise.
  By `UInv`: per place of a connection's goroutine, which of its Subs the bus has,
  against what is left of its script.
- `AutoBindsInWindow` (`BoundInWindow`), if there is tmux and all emits and
  activities of a scenario are on one of its servers, with a session's panes in
  one window (`OneTmuxServer`). The scenario `SamePaneIds` shows that it is false with two
  servers. By `WInv`: what a listing saw, the session then resolved, the binding
  it becomes and the panes recorded later all stay within the activity's window,
  though panes close and emits overlap between those steps.
- `HandlerIsBus`: `Spec => BusSpec`. Core, with all its goroutines, is a caller of
  the open bus that keeps its rules. `BInv` adds to the types that a Sub a
  goroutine is about to remove or rebind has been subscribed (`Leaving`).
- `HandlerKeepsBusPromises`: hence the five promises of the bus hold in the whole
  daemon, not only in the harness of `BusSystem`. TLC did not check them there.
- `HandlerImplementsLatestIntent`: `Spec => Intent!Spec`. Here the sweep is not
  atomic, as in `Registry`, but a step per session between which events would
  arrive if the lock were not held. `LInv` says that the sweep knows the sessions it
  has in hand (`SweepKnows`). `ApplyEmit` declares, `ProbeSession` forgets, and no
  other step of the handler touches a session.

### `CoreProofs`: the view
The last section of the module proves `ActivityFollowsSession` (`ViewConverges`):
whatever is bound, reaped, dropped or hung up on the way, with or without tmux,
once nothing is in flight an activity that follows a session was last told its
present state, in every scenario without overlaps. Hypotheses, all but the last
shown to be needed by a scenario of section 3:

- one subscription at a time on a connection (`OneSubscriptionAtATime`; the SDK
  subscribes once);
- all emits of a scenario on one tmux server (`OneEmitServer`);
- buffers of two frames or more (`subBufferSize` is 64);
- no session id is empty (`None \notin SessionIds`; `emit.go:78` sends none). The
  code tells an unbound Sub by an empty id.

The scenario of `Core.cfg` without overlaps meets all four.

The invariant `Calm` follows a state from the registry to the client. Its core is
`Fresh`: the present state of the session an activity follows is what it was told
last (nothing waits), or the newest of what waits for it in buffer and pump, or
`Due`: from the emit that is about to publish, from a rebinding that is about to
send its snapshot, or from the sweep that found the session gone. What that takes:

- `OneAtATime`, `InFlight`: one emit runs, and a Sub then holds at most the frame
  of that emit; a sweep's frames come last (`Backlog`), so that a drop loses
  nothing that matters.
- `Folded`, `NoneMissed`, `WorkKnown`, `ListingKnown`, `BindingKnown`: an unbound
  activity is near no session but that of the emit that runs, which therefore
  binds it to its own session and to nothing that was there before. So the frame of
  the emit, which may reach the activity after the snapshot, says the same.
- `Gone`, `LiveSubs`, `HungUp`, `ConnKnows`: nothing is on its way from a
  subscription that left, and what a goroutine is about to remove is its own.
- `Dawn`, `ScriptsOver`: with no overlap the activities subscribe before the
  first emit, when there is no session. The day's steps and the dawn's are
  proved apart, each part of `Calm` by the kind of step.

TLC checked `Calm` on instances of up to 3.5 million states before the proof.

### `DiscoveryProofs`
For any number of clients, processes, base directories and socket paths.

*The daemons alone* (`Lifecycle`). Assumptions: `Base`, `Path` are functions on
the processes, and `OneBasePerPath`: no two base directories share a socket path
(with `--socket` or `$WAITING_ROOM_SOCKET` a user can break this, and then two
daemons may fight over one path).

- `TypeCorrect`; `OneDaemon` (`OneListens`); `SocketKept` (`KeepsItsSocket`);
  `Discoverable` (`InfoNamesServer`); `CleanExit` (`LeavesNothing`).
- None is inductive alone: `IInv` adds that a process between `check` and `unlock`
  holds its base's lock (`HoldsLock`), that only such processes listen
  (`ListensInside`), and that the files of a path or base belong to a process in
  the right part of its run, or to an untidy one (`FilesAreOwned`). The argument
  is then mutual exclusion: the steps that touch a socket or info file are inside
  the lock, and two processes of one path have one base.

*The daemons and their clients* (`Discovery`), with its assumptions as well.

- `DiscoveryImplementsLifecycle`: `DiscoverySpec => Spec` of `Lifecycle`. Every
  theorem on the daemons alone therefore holds beside any number of clients.
- `ServerIsFound` (`FindsServer`): with `Lifecycle`'s `IInv`, that listeners are
  open from the info file to the teardown (`ListenerIsOpen`), and that a client
  whose daemon serves is on its way to it (`FollowsServer`). There is one server
  per base, it is the one the info file names, and it answers on its own socket.

### `EmitClientProofs`
For any hooks, sessions, clock readings and deaths. Assumptions: those of
`EmitClient`.

- `TypeCorrect`; `LastWord` (`LastWordHolds`); `AckIsTrue` (`AckedIsHeld`);
  `RetryDoesNothing` (`RetryIsInvisible`).
- The invariant says of the registry: every hook served is held, or a newer one
  (`ReachedIsHeld`, with the tie-break), and what is held was said by a hook
  served (`HeldWasSaid`). Requests under way carry their hook's one message
  (`RequestsTrue`), which is why a late first attempt does no harm; acks, sent or
  owed, are of hooks served by the daemon that owes or sent them, if no other has
  taken its place (`AcksAreTrue`).

### `ActivityProofs`
For any changes and restarts. `EveryDropReportedOnce` (`DropsReportedOnce`),
`LinkIsKept` (`HealthyLinkIsKept`), from `LoopFollowsLink`: the loop's place and
the socket go together, and the connect timeout is armed during an attempt only;
and from `LinkIsTended`: socket and keepalive last as long as the connection.

### `GamesProofs`
For a board of any size with room for the first snake, and any number of options.
`SnakeStaysWhole` (`SnakeIsWhole`), `NeckIsSafe` (`NeverIntoTheNeck`). The two need
each other: that the head does not run into the neck keeps the path free of
crossings, and that neighbours are adjacent makes the neck the only cell a
reversal can hit. `OneTimerEach` (`OneTimerPerAnswer`): an answer given while a
timer runs starts no second one.

### Model-checked only
Liveness under fairness and everything with ENABLED is out of the prover's reach:
`AbandonedIsReaped`, `DropsAreAnnounced`, `PumpsExit`, `AttentionGetsFocus`,
`BuffersDrain`, `EmitIsServed`, `FailsOpen`, `SpawnerGetsDaemon`, `EndsInStep`,
`DisposeEnds`, `NextQuestionComes`. Every safety property that a passing run
checks has a theorem, under the hypotheses named above. No module uses RECURSIVE;
`MostRecent` and `StateForEvent` need no induction.

## 5. Not modelled
- JSON, framing, peer credentials, permissions, logging, formatting, rendering.
- `status` and `watch` commands, `handleStatus`, ping: they read only.
- emit client: arguments, `--strict`, wording.
- SDK: the length of waits; several frames in one chunk with a dispose in the
  callback of one of them; `focusAgentTerminal`.
- `generateQuestion`'s arithmetic; the games' screens.
- plugin scripts, packaging, release.
- The torn read of a string in the data race on `BoundSession`. Closing of
  connections by teardown, composed with Core.
- The clients' discovery and their connection are separate: an activity resolves
  its socket once (`Discovery`), and `Activity`'s daemon comes back on that socket.

## 6. Plan

Order followed so far: registry (what the whole system is about) and its
abstract specification; the bus; Core over both; lifecycle; the SDK's client; the
emit client and discovery over lifecycle; the games; proofs of each.

What remains, in this order:

1. `Installer`: concurrent downloads of the plugin's resolver, and what a killed
   one leaves behind.
2. Teardown's closing of connections and a dead connection's socket, composed
   with `Core`.
3. `status` and `watch` as clients of Core, if they come to keep state.
