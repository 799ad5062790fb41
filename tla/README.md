# mykvm Local: a verification project

mykvm Local lets one keyboard and mouse drive two computers. The **controller**
(Windows) captures input at a low-level hook and, while a remote session is
active, swallows it and sends it over QUIC; the **receiver** (Mac) injects it.
The two share a clipboard, find each other on the LAN and trust each other after
a pairing with a code. This directory holds TLA+ modules of the parts of that
program in which an order of events, a failure half-way or a lost message
decides whether the user keeps control of both machines, TLC configurations
that check them, and proofs checked by TLAPS.

Paths below are relative to the repository; names without a directory are under
`src-tauri/src/`.

## 1. The system

### Components, their state and operations

| Part | Source | State | Operations |
|---|---|---|---|
| Gate | `routing.rs` `LocalOverride` | one atomic word, `2 * generation + local` | `request_local` (any thread), `reserve`, `still_preparing`, `activate` |
| Router | `routing.rs` `Router` | route, game mode, last return reason | `go_remote`, `ready`, `advance`, `commit_ack`, `go_local`, `set_game_mode` |
| Capture and focus port | `input.rs` `WindowsV2CapturePort` | candidate pending, capture active, cursor hidden | `prepare_capture`, `activate_capture`, `restore`, `prepare_focus` |
| Controller runtime | `controller_runtime.rs` | handshake, pending request and session, reliable sequence | `begin`, `handle_control`, `advance`, `next_input`, `go_local` |
| Controller client | `controller_client.rs` | control and input handles, inbox, ping clock | `begin`, `poll`, `send_input`, `send_motion`, `go_local` |
| Handshakes | `protocol_v2.rs` | controller and receiver state machines, input gate | `handle`, `commit`, `abort`, `activate`, `accept`, `end` |
| Wire format | `protocol_v2.rs` | decoder: length read so far, payload read so far | encode, `push`, `finish`, validate |
| Receiver session | `session_runtime.rs` | connection binding, session, applied sequence, buffered motion, displays, lease, fault | `handle_control_at`, `handle_input_at`, `handle_motion_at`, `update_display_layouts`, `expire_if_needed`, `input_stream_closed` |
| Held input | `pressed_state.rs` | keys with their source and target, buttons | `apply`, `release_all` |
| Receiver wiring | `lib.rs` `start_discovery` | one mutex round the session, a health thread every 100 ms | the stream callbacks |
| Native injector | `input.rs`, `windows_input.rs` | modifier flags and click records (Mac) | post keys, buttons, moves, scrolls; reset |
| Capture threads | `input.rs`, `lib.rs` | hooks, hook queue of 1024, thread handles, hook context | start, stop, restart, the loop and the two hooks |
| Control hotkeys, game mode | `game_mode.rs`, `lib.rs` | action slot, de-duplication bits, registered keys | `offer`, `take`, `observe`, save, roll back |
| Edge crossing | `input.rs` | candidate, active screen and point, remembered points, cursor anchor | crossing, entry, roaming, return |
| QUIC traffic | `quic_transport.rs` | motion slot, input queue and budget, bulk budget, permits | `try_send`, flush, write, read, acknowledge |
| QUIC connections | `quic_transport.rs` | connection cache with a Connecting mark, dials, health record | command loop, dial, forget, stream tasks |
| Clipboard | `clipboard_sync.rs`, `clipboard.rs`, `lib.rs` | Lamport order of copies | local copy, remote copy, resend, start, stop |
| Pairing | `lib.rs` | challenge, paired controllers, trusted certificates in memory, in `layout.json` and in the TLS registry | request, confirm, dismiss, reset |
| Discovery | `lib.rs` | peer table, device rows, paired controllers | announce, hear, sweep, scan |
| Settings | `lib.rs`, `src/App.tsx`, `src/desktopApi.ts` | the window's snapshot, the program's layout, the file | edit, save, poll, role, start, stop, tray |
| Single instance | `lib.rs`, `main.rs` | Unix socket, or Windows mutex and events | launch, activate, quit |

### How they interact

A hook callback, a hotkey, the tray or `stop_input` **overrides the gate** and
returns at once. The capture thread owns everything else on the controller: it
calls the client, which calls the runtime, which drives the handshake and the
router, which calls the port; it samples the keys, polls control frames,
advances the route and sends the ping. The hooks read the gate, and swallow
input exactly while it is open. The two machines exchange `Hello`, `Prepare`,
`Ready`, `Commit`, `CommitAck`, `Ping`, `Pong`, `EndSession`, `Reject` on a
control stream, reliable events on an input stream and positions in datagrams;
all three are commands to one loop that owns the connection cache. On the
receiver every callback and the health thread take the same mutex, and the
injector below them. Clipboard payloads and confirmations of a pairing go over
streams of their own, out of one memory budget per machine. Discovery and
pairing write the layout that the window also edits; a saved layout restarts
capture and registers hotkeys.

### What is hard

* An override falls at any instruction of a router call; a CommitAck that is
  already on its way must not undo it.
* Every call of the client can fail half-way: after the router has returned,
  after the handshake has become active, before the handles were dropped.
* Reliable events and datagrams overtake each other.
* A session ends in six ways (End, lease, stream closed, display gone, injector
  failure during an event, injector failure during a motion), each of which
  must release held input, and releases fail too.
* The modifier mapping, the displays and the permission to inject change while
  keys are held.
* A capture thread is only asked to end; the next one may start before it has.
* A capture thread whose pointer crosses an edge waits for a lock it holds itself
  and never comes back; hooks, overrides, stop and restart go on around it.
* The motion slot and the connection cache are shared by threads that hold no
  common lock: each access can be separated from the next.
* Pairing, reset, discovery, the tray and the window change the same layout;
  snapshots of it are sent back whole.

`PROJECT.json` lists these hazards line by line with the properties that cover
them.

## 2. Modules

| Module | Models | Role |
|---|---|---|
| `Handoff` | what the routing promises | abstract specification |
| `Routing` | gate, router, capture port | implements `Handoff` |
| `Controller` | client, runtime, controller handshake; EXTENDS `Routing` | implements `Routing` |
| `PressedState` | the ledger of held input | pure operators |
| `ReceiverSession` | session, receiver handshake, input gate, wiring, injector port; EXTENDS `PressedState` | component |
| `InputChannel` | what an input stream promises | abstract specification |
| `InputStream` | input handle, writer, byte stream, reader | implements `InputChannel` |
| `MotionSlot` | the latest-wins slot, one step per access | component |
| `BulkStreams` | bulk payloads and the memory budgets | component |
| `Transport` | command loop, connection cache, dials, stream tasks | component |
| `Codec` | encoding, decoding and validation of frames | component |
| `ClipboardSync` | both machines' clipboard engine, watcher thread, stream handler, start and stop | component |
| `Pairing` | one client and the controllers that pair with it | component |
| `Presence` | discovery, peer table, device rows | component |
| `Settings` | window, program and file | component |
| `SingleInstance` | processes and their lock | component |
| `Capture` | capture threads, hooks, hotkeys, game mode, start and stop | component |
| `Crossing` | the pointer over edges and remote screens | component |
| `Hotkeys` | registration of the system-wide keys | component |
| `Injection` | the native injector's records | component |
| `RoutingProofs`, `ControllerProofs`, `ReceiverProofs`, `CaptureProofs`, `ClipboardProofs` | theorems about the module of that name (`ReceiverSession`, `ClipboardSync`), section 5 | proofs |
| `StreamProofs` | theorems about `MotionSlot`, `InputStream`, `BulkStreams` and `Codec` | proofs |
| `ConnectionProofs` | theorems about `Transport`, `Pairing`, `Settings` and `Presence` | proofs |
| `DeskProofs` | theorems about `Injection`, `Hotkeys`, `Crossing` and `SingleInstance` | proofs |
| `MC*` | small instances, section 3 | model checking |

Operators under a comment that starts with `Fault` are not part of any
specification. Each is a plausible mistake in the definition that follows it,
and `PROJECT.json` (`mutants`) says which property notices it.

### Routing

`gate` is the atomic word as a pair; generations saturate at `MaxGen` as
`saturating_add` does, `reserve` never hands out the last one, and
`compare_exchange` (`ActivatedWord`) succeeds only on the very word reserved.
`route`, `handoff`, `game_mode` and `last_return` are the router's fields;
`capture` is what the Windows port holds for the router; `clock` the monotonic
clock. `effect` is the value the last call returned.

*Grain.* The router runs on one thread, overrides on any. A call is therefore
cut at each access to the atomic that an override can separate from the next
(`pc`): `go_remote` becomes `GoRemote`, `PrepareCapture`, `FinishPrepare`;
`advance` becomes `AdvancePreparing`, `PrepareFocus`, `IssueCommit`;
`commit_ack` becomes `CommitAck`, `ActivateCapture`, `ActivateGate`.
`go_local` is one step: the only thing an override can do in the middle is
close a gate that go_local has closed. A read that finds the request cancelled
is merged with the `go_local` that follows, since a generation never comes
back. `cancelled` and `attempts` are history variables for the properties.

### Controller

The same grain one level up: `point` says where the client stands in `begin`,
`poll` or `go_local`; while `pc` is not idle the router's own steps run.
`handshake`, `pending`, `channel`, `sequence` and `released` are the fields of
`ControllerHandshake`, `ControllerRuntime` and `ControllerClient`. The peer is
not modelled here: at each poll any frame may come, or none, and any send may
fail. `Nonce` gives every request the session its receiver would generate;
sessions are distinct, as 128 random bits are. `FailLocal` and `FailTransport`
are the two error paths of the code and they differ on purpose: `fail_local`
resets the handshake always, `fail_transport` only with the effects the router
returns. Motion needs no number here: what the client does when a position cannot
be sent is `SendMotionFails`.

### PressedState and ReceiverSession

A ledger is a set of `[source, target]` pairs and a set of buttons. What
`apply_key` submits is the difference in the set of held targets: a second
owner of a target submits nothing, and only the last release does. Every call
on the session is one action, since the mutex of `lib.rs` covers it. `os`
records what the system has been told to hold and `pointer` which sample its
last position came from and which events it depends on. `healthy` says whether
the injector accepts commands; while it does not, every submission may succeed
or fail on its own. `silence` is `now - last_activity_ms`. A frame that is
refused and changes nothing is a step that is not taken; a frame that is
refused and does change something (a `Prepare` in `Prepared`, a `Hello` whose
release fails) is an action. What the handshake answers to a frame
(`AnswersPrepare`, `AnswersCommit`, ...) and the state it is left in
(`AfterHello`, `AfterPrepare`, `ActiveIn`, ...) are operators of their own, since
the runtime looks at the handshake before and after it. `down` and `retired` are history: the physical
keys a user holds and the sessions that ended.

### MotionSlot, InputStream, BulkStreams

`MotionSlot` has one step per access to the slot's mutex or one of its two
atomics, by `MotionHandle` on the client's thread and by
`flush_motion_nonblocking` in the command loop. Positions are numbered as they
are stored; a position that the loop has taken may be sent or dropped.

`InputStream` follows one stream from `try_send` to `on_input`. Inside
`try_send` the bytes are reserved before the frame is queued, so a refusal by
the queue must give them back; the writer takes a frame, writes its bytes in
pieces, and may fail after any of them; the reader takes chunks that end
anywhere. A frame is `PrefixBytes` of length and its payload. It implements
`InputChannel`: what is delivered is a prefix of what was accepted, and a clean
close says that it is all of it.

`BulkStreams` has every payload's caller (which gives up after a timeout), its
stream task, the stream task at the other end and the budget of both machines.
`conns` marks connections that a confirmed pairing has closed.

### Transport

The command loop, the tasks and the dials towards one peer, cut at every lock
of the cache and every await. `entry` is the cache entry (none, the Connecting
mark or a connection), `lost` the connections that are closed although they may
still be cached. A datagram finds a connection or starts a dial in the
background; a task looks up, dials for itself, opens a stream, serves it and
ends. `cleared` counts running dials whose mark another task has overwritten.
The client of the loop is `QuicControllerTransport`, session after session.

### Codec

A writer of this version or of another one writes envelopes; the reader takes
them in chunks. `ExpectedLetters`, `Encodable` and the validators are the code's
checks by the limits they apply; a field whose content does not matter is valid
or not. Control frames have a rate window as well.

### ClipboardSync

`system` is the system clipboard as its change count and its content; a content
is named by the copy that made it. `engine` is `ClipboardSyncEngine`, `threads`
the watcher threads (`run_clipboard_sync`), one step per access to shared state:
`Notice` a revision, `Read` the content outside the lock, `ObserveCopy` both under
the lock, `Send`, and wait for the answer or its timeout. A stopped thread may
finish its round over a newer engine. The handler holds the engine lock from
`Apply` (decision and system write) to `Commit`; `writing` is that lock with the
operation being written, and only the user can change the clipboard meanwhile.
`wire` is a set: streams are independent, and one whose sender timed out may
still arrive. A Windows listener is told any increasing series of revisions that
ends with the current one; the Mac watcher reads the current one. `missed` is
history: a change or an operation was given up (failed read, write or send, lost
stream, content too large, no target, restart), all of which the code only logs.

### Pairing, Presence, Settings

`Pairing` has one client: the discovery thread that starts a challenge, one
stream handler per controller that checks the code and then writes memory, file
and registry one after the other, and the commands that dismiss a challenge or
reset the pairing. A window that asks for the pairing's status changes it: it
drops a challenge that has expired (`ShowStatus`). Each write is a step, every file
write can fail, and a controller that is reinstalled comes with a new certificate.
The discovery thread judges a request by a copy of the layout (`HearRequest`) and
locks the challenge afterwards (`AnswerRequest`). Whether a confirmation comes over
an authenticated connection was settled when that connection was made, so it is
left open; over such a connection nobody takes it (`TurnAway`). The other side is
the controller's command, from the request to the answer.

`Presence` runs in ticks of the announcement interval: machines announce, move
to another address, get a new key, stop and return; their datagrams are lost or
delayed; `leases` is history, which machine has had which address; the loop prunes
and merges the table and brings the rows up to date;
a scan gathers a table of its own and merges it at its end. The table is copied
under its own lock and applied to the rows under that of the layout: one thread at
a time may be overtaken in between (`TakeCopy`, `UseCopy`), and then applies a copy
that is behind. It holds the copy for less than a tick.

`Settings` holds three copies of one layout. Commands of the window are
synchronous Tauri commands and are served one at a time and in order (with
fewer interleavings than an asynchronous command would have); a pairing writes
`layout.json` outside the lock of the layout, which is why `storing` exists. A
command that reads the file and merges it does so in two steps (`ReadDisk`, `read`),
with a pairing in between or half-way through its write. The tray and the quick key
run on the thread of the commands, between any two of them (`Toggle`). A save, a
reset and a stop may still fail after they have written and taken over. Choosing
the client's role starts the runtime if the window did not show it started when the
role was chosen, whatever came of the save (op `client`).

### SingleInstance

On Unix a launch connects to the socket, and takes it over when nobody answers;
on Windows it asks for the mutex and opens the events of the owner, up to
`MaxTries` times. One system call is one step. A crash leaves the socket's file
behind but no mutex. A mutex that cannot be made keeps nobody from running
(`AcquireNothing`): `unlocked` names the processes that run without one, and
`Holders` those that have it.

### Capture, Crossing, Hotkeys, Injection

`Capture` has several capture threads, since a stop only asks one to end and a
start that timed out leaves one that nobody can stop. The loop of a thread is
`control`, `events`, `desktop`, `switch`, `poll`, `pump`; hooks run inside the
pump of the thread that installed them, and whatever the hooks send waits in a
queue of `HookQueue` events. The controller client is reduced to its route.

A move over an edge is processed under the lock of the context's active target
(`input.rs:4085`), and the handoff it begins takes that lock again, in
`prepare_capture` (`input.rs:2986`) or in the restore after a refusal
(`input.rs:4003`). The lock is not re-entrant. `Hangs` leaves such a thread `stuck`:
in no step of its loop and deaf to its hooks, with the gate as the router left it.
Everything else goes on round it: hooks of other threads, overrides, a stop it does
not see, a start that gives up on it. `Serving` are the threads that are alive and
not stuck. A requested switch begins its handoff without that lock and is what
opens a session in both modules.

`Crossing` has the geometry as it is: integer pixels, half-open screens, the
tolerance of an edge, proportional positions and the clamp on a return. A
scenario chooses which features occur in a behaviour. A crossing gets as far as
the candidate the handoff is asked for with (`asked`); from then on the cursor moves
unseen (`MoveUnseen`) until the runtime is restarted with a fresh context
(`RestartCapture`). Remote screens are therefore entered by a switch only, at their
centre, and the branch that swallows the first displacement after a crossing
(`just_crossed`) is out of reach.

`Hotkeys` has the three groups of keys one after the other, as a sync does, each
with its own roll-back; other programs take and release keys in between.

`Injection` has `inject_key` with its load, its store and its post, which a
reset on another thread separates, and `MacClickTracker` with the count every
press was posted with.

## 3. Runs

A property of several parts is written once, under a name of its own, and its
parts keep theirs; the second table names them.

| Run | Question | Properties |
|---|---|---|
| `forwarding` | do gate, port and route agree, whatever overrides interleave, and does everything come back; is a position, a frame, a byte of the budget ever lost between two threads | `TypeOK` `GateOpenIsActive` `LocalIsRestored` `NoLateActivation` `ImplementsHandoff`; `NotStranded` `InputInv` `BulkInv` `ImplementsChannel` `TrafficMoves` |
| `controller` | do client, handshake and router agree through every failure; does a polling client return | `BetweenCalls` `ClientInv` `ImplementsRouting` `PollingReturns` |
| `receiver` | does every end of a session leave runtime, handshake, gate and ledger in agreement; is a key held exactly as long as it is down; do positions keep their order; does silence end a session | `SessionInv` `HeldIsRecorded` `KeysFollowHands` `CleanStart` `MotionKeepsOrder` `SilenceEnds` |
| `capture` | does what the hooks swallow reach the peer of the open session and no other, and does an override bring the input back | `HooksAreServed` `ForwardInSession` `PressesCount` `OverrideIsNoticed` |
| `application` | do the device rows follow the machines, and window, program and file each other | `RowsAreTrue` `RowsSettle` `AllAgree` `PairingIsKept` |
| `connections` | does the cache dial more than it must; is a frame lost or held back in the decoder; does trust survive races, failed writes and restarts | `NoConnectStorm` `DecoderInv` `PairedIsTrusted` `RestartKeepsTrust` |
| `desk` | do two machines that copy at once agree, whatever order streams come in; hotkeys, pointer, injector and process, each against the system around it | `Settled` `WinnerNeverOlder`; `CrossingInv` `NoModifierLeftOver` `HotkeysServe` `AsksAsMoved` `ClicksPair` `LaunchesAct` |
| `clipboard_overwrite` | expects a violation, section 6 | `LocalCopySurvives` |
| `receiver_release_retry` | expects a violation, section 6 | `HeldIsReleased` |
| `settings_copy` | expects a violation, section 6 | `NoCopyAdopted` |
| `capture_edge_hang` | expects a violation, section 6 | `HandoffIsCancelled` |
| `second_instance` | expects a violation, section 6 | `OneInstance` |

| Property | Parts |
|---|---|
| `ClientInv` | `ControllerTypeOK`, `OneSession`, `InputBelongs` |
| `PollingReturns` | `DeadChannelEnds`, and `Routing`'s `OverrideReturns`, `HandoffEnds` |
| `SessionInv` | `TypeOK`, `SessionAgreement`, `NothingSkipped`, `RetiredStaysRetired` |
| `KeysFollowHands` | `NoStuckKey`, `NoEarlyRelease` |
| `MotionKeepsOrder` | `MotionAfterInput`, `PointerNeverOlder` |
| `Settled` | `WinnerIsOnClipboard`, `Converged` |
| `InputInv`, `BulkInv` | types, `InputBudgetExact`, `PrefixInOrder`; types, `BulkBudgetExact`, `OneDecoding`, `AnswerHonest` |
| `TrafficMoves` | `TakenUp`, `CloseReported`, `BytesReturn` |
| `HooksAreServed`, `PressesCount` | types, `OpenGateIsServed`, `ReadyIsHooked`; `KeyStateAgrees`, `OncePerPress`, `SwallowedOrClosed` |
| `RowsAreTrue`, `RowsSettle` | `OnlineIsRecent`, `KeepsToMachine`; `Rediscovered`, `GoneIsShown` |
| `PairingIsKept` | `SavesKeepPairing`, `TrustIsTheProgrammes` |
| `DecoderInv` | `FramesInOrder`, `NothingHeldBack`, `SpeaksItself`, `EndIsTold`, `EveryImageTravels` |
| `CrossingInv`, `AsksAsMoved` | types, `PointerOnScreen`; `NoBounce`, `EntryIsContinuous`, `LandsWhereItLeft` |
| `HotkeysServe` | `NoKeyForNothing`, `StartCures`, `ControlKeyActs` |
| `LaunchesAct` | `OneAfterTheOther`, `StartRuns`, `WindowShown` |

`forwarding`, `application`, `connections` and `desk` each hold several components
that share no variable in these models. A behaviour picks one of them at the
start (`part`) and leaves the others at rest, so such a run is the union of the
components' behaviours and not their product. `receiver` splits one component the
same way (`scope`): two connections and requests, or the keys of one long
session, or its motion, since their product is out of reach.

### Bounds, and why they are enough

* `forwarding`, *routing*: one receiver, two sessions, five generations, seven clock values,
  a handoff timeout of three and a keys timeout of two. Two sessions are what a
  second `Ready` needs; five generations hold a handoff, an override, a retry
  and the saturated end; the clock reaches the keys deadline, then the handoff
  deadline, then a point at which a new handoff's deadline no longer fits. The peer is only
  stored and compared with nothing, so one does. *motion*: two motion slots, one after
  the other, and three positions. *input*: three calls with frames of one and two
  bytes behind a length of two, a queue of one frame, a budget of eight bytes that
  two such frames may fill, and chunks of five bytes that end inside a length, a
  payload or behind it. *bulk*: three payloads (a pairing and an image one way, an
  image the other way), budgets of which two transfers fill one, one stream permit.
  Every limit is reached and given back. About 340 000 states.
* `controller`: four generations and one session for each, a reliable sequence
  of at most two, timeouts of two and one. Two complete attempts fit. About
  98 000 states.
* `receiver`, *sessions*: two connections, two displays, two requests of one
  controller process, one key, three sequence numbers, a lease of one tick. Two
  connections are what a stray `Hello` or a late `input_stream_closed` needs, two
  requests what a late `Commit` needs. *keys*: two physical keys, two targets, two
  mappings which make them share a target or not, one button, five sequence
  numbers: press both, change the mapping, release both in either order.
  *motion*: three samples, four sequence numbers: a position in the slot, one
  that overtakes it and one that is late.
* `capture`: two threads, a hook queue of one event, two sessions, one override,
  and six scenarios that choose which of hotkeys, key events, moves, the switch,
  tray, desktop changes, game mode and overlapping threads a behaviour has. A queue
  of one is full with the first event that is not taken up. Two threads are what it
  takes for one to be stuck while the other controls, on the secure desktop as
  well. About 1.3 million states. `capture_edge_hang` has one thread, one session,
  moves, the switch and the tray.
* `application`: three machines of which one is a stranger, four addresses, a
  table of two (so that it is full), two events of moving, new keys, stopping,
  starting or a thread overtaken with its copy of the table, and no address that
  another machine has had (`Reuse`, section 6);
  two edits, two commands under way, two acts of the user or of a
  pairing, one failed write or power loss.
* `connections`: one control session, one bulk stream, two connections, one
  datagram, one permit of each kind; two envelopes with lengths of two bytes and
  payloads of at most two, one frame per rate window; two controllers, two codes,
  two attempts, with two confirmations and one upset (a reset, a reinstallation
  or a failed write) between them.
* `desk`, *clipboard*: two user actions (copies or resends), three changes of each
  clipboard, two sizes of which one machine takes only the smaller, one restart
  of one machine. Two copies race each other, a resend races a copy, and a
  third revision is the echo of a remote write. Only the machine that can start
  again is stopped. *Others*: three keys and two saves while another program takes one; screens of
  two to four pixels, one arrangement with the remote device beside the local
  screens, one below, one offline; two shifts that share a flag, a control and an
  unknown key; two buttons and three points of which two are near each other;
  three processes, one crash, two attempts to open an event. About 2.8 million
  states. `second_instance` is this instance on Unix.

No state constraint is used: the bounds are guards (`MaxGen`, `MaxTime`,
`MaxSeq`, `MaxUser`, `MaxConns`, `MaxEdits` and so on), many of them the program's
own limits scaled down. Symmetry is not used: most runs check liveness as well,
and elsewhere the values differ in rank or role. The longest runs take about three
minutes.

Deadlock is checked in `forwarding` (for the router: the traffic of a stream ends,
and may stutter), `controller`, `receiver` and `capture`. The other systems really
come to rest: users stop copying, a stream ends, an edit is saved, a process has
exited.

## 4. Fairness

* `Routing!Fairness`: the capture thread finishes a call it began, polls
  `advance` while a handoff is pending or active (`drain_v2_controller_windows`
  runs once per loop), and the clock does not stop. Overrides, frames and the
  user get none.
* `ControllerFairness`: the same for client calls. Two conditions are strong.
  `StartAdvance`: after the control stream has closed, the inbox holds a bounded
  number of frames, so some poll gets past them. The failing ping: `poll_ping` is
  due once a second and a missing handle makes it fail, so polls that find it due
  keep coming, though not every poll does.
* `ReceiverSession!FairSpec`: the health thread wakes every 100 ms and calls
  `expire_if_needed` for as long as the runtime lives. It skips its round only
  if a mutex is poisoned. Nothing is assumed of the controller: `SilenceEnds`
  says what happens when it stops.
* `SlotFairness`, `StreamFairness`: a call of the client that has begun goes on,
  the command loop takes its next command, writer and reader go on while they
  have something to do. No client has to call.
* `BulkFairness`: the stream tasks of both machines go on (every await in them
  has a timeout), and an encoder that holds budget ends.
* `CaptureFairness`: the loop of every capture thread goes on; its pump waits at
  most 20 ms. A stuck thread has no step that fairness could ask for:
  `OverrideIsNoticed` holds because a thread gets stuck only while no machine is
  controlled, and `HandoffIsCancelled` fails because a stuck thread can still have
  reserved the gate. Hooks, hotkeys and the user get none.
* `PresenceFairness`: the discovery loop turns once per interval, a copy that was
  taken is used, and of a machine that runs some datagrams arrive.
* `SettingsFairness`: the program serves the commands it was sent (reading the file
  is a step of that), the window takes up answers and polls, and a pairing that has
  begun to write goes on.

`Transport`, `Codec`, `Pairing`, `Crossing`, `Hotkeys`, `Injection`,
`SingleInstance` and `ClipboardSync` are checked for safety only and have no
fairness.

## 5. What is proved

Eight modules hold theorems. Each is proved for all values of the constants that
satisfy the assumptions of the module it is about, which TLC evaluates on the
small instances.

**`RoutingProofs`**, for any sets of peers and sessions and any `MaxGen`,
`MaxTime` and timeouts that satisfy `RoutingAssumption` (naturals, timeouts not
zero, `None` not a peer or session): `TypeCorrect`, `GateAgreement`,
`LocalRestored`, `LateAckLoses` are properties of the run; `OneAttempt` (focus
and Commit are asked for once per request), `CommitBeforeCapture` (capture is
active only after a Ready, a focus and a Commit of the same request) and
`SessionFixed` (a second `Ready` changes nothing) are stated by the theorem only;
`RefinesHandoff` says that its initial states and steps map to those of
`Handoff`.

*The inductive invariant.* `IInv` is needed because none of the properties is
inductive alone. That the gate opens only for the request in force depends on
the request's generation being at most the gate's, and equal to it only while
nobody has overridden it (`PreparingPart`); this in turn on requests staying
below the last generation, for at the last one an override would not change the
word (`CanReserve`). That an active route has the capture port depends on where
in a call the port is filled (`CallPart`), which also ties the count of
attempts to `commit_sent`. `LocalPart` and `RemotePart` say what the two ends
of a handoff look like. `LeaveRemoteIInv` does the work shared by the thirteen
places that return to local; after it there is one lemma per action.

**`ControllerProofs`**, under `ControllerAssumption` as well:
`RouterImplemented`: `ControllerSpec => ImplementsRouting`. Each client step is
one router call, one internal router step or none. The client's own fields
matter in two places only: the request it passes to `commit_ack` must be a
request (`PendingPart`) and the sampled keys a Boolean (`SampledPart`).
`ControllerGate` and `ControllerRestored` carry the routing theorems over to the
controller, whatever frame arrives and whatever send fails.

`CallsLeaveAgreement` (`BetweenCalls`) and `ClientAgreement` (`ClientInv`) are
about the client itself. Neither is inductive: what client and router agree on
holds between calls, and every call breaks it and mends it. `ClientPart` says
for each `point` of a call what is still owed: in `begin` nothing of an older
session is left (`BeginPart`); in `commit_ack` the handshake is already active
while the router has not decided (`AckPart`); in `advance` the router has asked
for a Commit, or returned, and the client has not followed (`AdvancePart`); after
a failure the handles are all that is left (`drop`). The router's half of each
step is taken from `RoutingProofs`.

**`ReceiverProofs`**, for any peers, processes, displays, keys, targets, buttons,
mappings and bounds that satisfy `ReceiverAssumption`:

* `TypeCorrect`, and `SessionsAgree`: runtime, handshake and gate name the same
  session, which has its display, its connection and no fault, and the events
  accepted were applied without a gap. `SessionPart` adds that without a
  handshake the runtime is bound to nobody (`BoundPart`); the six ways a session ends share one lemma
  about what each leaves behind.
* `EndedStaysEnded` (`SessionInv`, which has `RetiredStaysRetired`), under
  `OneProcess`. The gate remembers one ended session, the last; `RetiredPart`
  shows that this is enough while requests grow: no request prepared, active or
  ended last is below one that was spent. The hypothesis is needed. With two
  controller processes `a` and `b`, after a session of `a` and one of `b` have ended
  the gate has forgotten the former, and `a` could prepare and commit it again
  (TLC shows it in twelve steps). A process that was replaced by another does not
  come back, so this needs a peer that breaks the protocol.
* `NothingLost` (`HeldIsRecorded`) and `StartsClean` (`CleanStart`), without further
  hypotheses. `HeldIsRecorded` is inductive once it is known what the ledger's
  operators do (`ReleasesAll` and the lemmas with it).
* `StreamsActInOrder` (`MotionKeepsOrder`). `MotionPart` ties the pointer to the
  counters: what it depends on is applied, and its sample is at most the highest
  seen.
* `HandsAreFollowed` (`KeysFollowHands`), for keys with scan codes
  (`ScanCoded = Keys`). `KeysPart` says that the ledger is exactly the set of keys
  that are down, each with the target it went down with, and that the system
  holds what the ledger does. Without a scan code a key is known by its mapped
  code, and a mapping changed while it is down loses it (section 6).

**`CaptureProofs`**, for any finite set of threads, any hook queue, keys, sessions,
overrides and scenarios (`CaptureAssumption`):

* `HooksServed` (`HooksAreServed`) and `EventsStayInSession` (`ForwardInSession`),
  which no theorem about one thread would give: threads overlap. `CaptureInv` has
  besides them: a thread that is not running has nothing left of an earlier life
  (`FreshPart`); context and runtime name running threads, and without an overlap
  there is only one (`RuntimePart`); from the end of the events to the pump a
  thread's queue is empty (`QueuePart`), which is why a session that opens in the
  poll finds no event of an older one. All loop steps are proved through one
  description of what a turn of the loop may change (`Turn`); it includes that a
  thread gets stuck only without a target, so that an open gate always has a thread
  that serves it.
* `PressesCountOnce` (`PressesCount`). `HandInv` follows a key from the hand through
  the queue: who owns the gate (`OwnerPart`, `DesktopPart`), which machine a key
  that is down belongs to while a route is committed (`CommitPart`) and active
  (`AgreePart`, where game mode has its own half), and which control hotkeys
  are in the deduper (`HotPart`). What the peer will believe when the queue has
  been read (`ToldBy`) changes only with what is put at the queue's end
  (`ToldByAppend`), not when it is taken from its front (`ToldByTail`).

**`ClipboardProofs`**, for any ids, limits, boots and bounds that satisfy
`ClipboardAssumption` and `NoneAssumption`: `TypeCorrect`, with `ThreadsStand` (a
watcher thread holds a content when it observes and an operation when it sends);
`WinnersMoveForward`: `Spec => WinnerNeverOlder`. The invariant is `ClockCovers`:
an engine's clock is at least its winner's, which makes its next own operation
newer; and what a handler is writing is newer than the winner and covered by the
clock, which stays true until `Commit` because the lock keeps `ObserveCopy`, the other
handlers and `stop_clipboard` out.

The last theorem is `ClipboardsConverge` (`Settled`), and it says the most: as long
as nothing was given up, two machines at rest hold one content, that of the
operation their engines name as the winner. `Settled` by itself is about rest and
says nothing of the way there.
`SyncInv` does: each machine has one watcher (`OneWatcher`); the clipboard holds
the winner's content, or the watcher has still to look (`LookPart`); a machine has
for its winner what it has sent, or a newer operation (`SentPart`); its winner is
known to the peer, or on its way there (`ToldPart`); and winners of one order have
one content (`SamePart`). At rest nothing is on its way and nobody has still to
look, which leaves `Settled`. Each of these parts needs the others: a handler that
decides for an operation relies on `SentPart` of the sender, and the watcher that
sees the echo of its own write relies on `LookPart`. TLC had found `SyncInv` to hold
in all reachable states of the run's instance before it was proved.

**`StreamProofs`** is about what crosses a connection. Sums over a queue or a set,
the bytes a chunk decodes to, and the places where envelopes end are recursive
functions in the models. The theorems on induction of the library take an
operator and are of no use here; a set of numbers that has 0 and the successor of
each of its members is `Nat`, however (`NatSets`, from the well-foundedness of the
order), and what holds of the values of such a function is proved by showing that
the arguments it holds for are such a set.

* `MotionSlot`, for any number of slots and positions (`SlotBounds`):
  `PositionsMoveForward` (what leaves a slot is newer than what left before, and
  nothing leaves a closed slot but the position the loop had already read);
  `NoneStranded` (`NotStranded`); `OneFlushPerSlot` (the scheduled bit has exactly
  one owner, so the queue of the loop does not grow with the rate of the mouse).
  `SlotInv` adds to the types where the client stands (`OpenPart`) and that sent
  position, position with the loop and position in the slot are in this order
  (`OrderPart`). `BitHasOneOwner` is inductive over it, and `NotStranded` as well:
  each step of one thread is matched with every point the other can be at.
* `InputStream`, for any frame sizes, queue, budget, chunks and number of sends
  (`StreamBounds`): `StreamInvariant`, `InputCorrect` (`InputInv`) and
  `ChannelImplemented` (`ImplementsChannel`). That what is delivered is a prefix of
  what was accepted follows from what is between them: the bytes in the decoder,
  on the wire and still to be written are, one after the other, those of the
  frames accepted and not delivered (`Contiguous` in `ReaderPart`); the queue is the
  end of what was accepted (`SenderPart`); the frame being written is one frame
  (`BytesPart`). A chunk is then a cut through that sequence, wherever it falls
  (`ChunkDecoded`). An accepted frame is the channel's
  `Accept`, a chunk its `Deliver`, an end one of its two closings, and every other step
  a stutter.
* `BulkStreams`, for any hosts and payloads, and any limit less than two inbound
  reservations (`BulkBounds`; the code has 128 MiB and 124 MiB): `BulkCorrect`
  (`BulkInv`). `Reservations` is the budget and the types; `Stories` says of each payload what caller, task,
  stream and handler may be at once, which is what makes an answer honest: an
  acknowledgement exists only after the handler has accepted.
* `Codec`, for any lengths, limits and number of frames (`CodecBounds`):
  `StreamsAreReadWhole` (`DecoderInv`). `CodecInv` says of a stream that the frames
  handled are the first of those written and that the decoder stands right
  behind them: `read` is where the last handled envelope ends (`Marks`) and the
  bytes of the next one that the decoder has seen (`StreamPart`, `Decoding`). One byte
  either leads to such a place or is the error its envelope deserves (`LengthTaken`,
  `PayloadTaken`), so any chunk does (`ChunkTaken`). Marks grow, since every envelope
  has a length in front; therefore the number of whole frames is the number
  handled, and a clean end is an end at a mark (`StandsRight`). Pieces end at marks
  too (`PiecePart`). The letters of an image are counted by a lemma (`LettersAre`).

**`ConnectionProofs`** has four parts. About `Transport`, for any bounds
(`BoundsAreNat`, `MarksAreNotNumbers`):
`MarksHaveDials` and `NoStorm`. `DialInv` has besides the two properties the fact
that the loop, between its lookup and its mark, leaves no mark in the cache
(`LoopPart`): only the loop sets one. How many dials run beside each other is
then the number of marks that were overwritten.

About `Pairing`, for any controllers and codes (`PairingBounds`):
`CertificatesAreOne`, `RestartsKeepTrust`, `PairedAreTrusted`,
`ChallengesKeepOwner`. Four invariants follow each other. `TypeInv`. `CertPart`: no
list of certificates, those on their way included, has two for one machine.
`QuietPart`: unless two writers have raced there is one at most (`WriterPart`),
and what it has still to write is what memory holds (`ProgressPart`). `TrustPart`:
a stream carries its controller's present certificate (`FreshPart`), what it
writes stays in memory until a reset (`KeptPart`), and what was promised is in
memory and in force until then (`ToldPart`).
About `Settings`, for any bounds: `SettingsKeepPairing`. Its invariant is the type
of what each place holds (`SettingsTypes`): a command that saves carries a whole
layout. What the two merges keep is a lemma of its own (`MergesKeep`).
About `Presence`, for any machines, addresses, table size, time to live and events
(`PresenceBounds`): `RowsTellTheTruth` (`RowsAreTrue`), under the hypothesis `~Reuse`.
`PresenceInv` says that every entry of the table and of a scan's own table is true
(`TrueEntries`): name, key and address are of one machine, and it has been silent no
longer than the entry is old; that rows and controllers are their machines' own
(`RowPart`), and a row that is online has a machine heard in time, or one tick later
while the rows have not been swept (`Lag`). Merging, pruning and the scan's merge
keep truth entry by entry, whatever is thrown out when the table is full. The
hypothesis is needed and the runs make it too: section 6.

**`DeskProofs`**, for any keys and flags (`InjectionAssumption`), any layouts whose
screens have a size (`CrossingAssumption`: `validate_layout` saves no other) and
any processes (`InstanceBounds`): `ModifiersAreHeld`, `ReleasesMatch`,
`HotkeysAreServed`, `StaysOnScreen`, `AsksWhereMoved`, `LaunchesArePromised`.

* `FlagInv` follows one call of `inject_key` through its load, store and post: what
  it has loaded belongs to keys that are held (`SeenPart`); a release that has
  stored its flags has taken its own out (`ReleasePart`); only a Mac has flags
  (`MacPart`). `ClickInv`: what the tracker keeps of a press is the count it was
  posted with.
* `HotkeyInv`: the saved keys of a controlling machine are apart, and while a
  start meets no other program it has registered the keys of the groups it is
  through with, and no others (`StartPart`). Without it the next group could find
  its own key taken by the one before.
* `PointerInv`: every candidate, asked for, pending or controlled, lies on a screen
  that has a size and belongs to a target (`Placed`), the cursor is pinned on the
  local screen control left from (`PinnedAt`), a thread that hangs controls nothing,
  and a return forgets the last point. That an entry lies on the remote screen is a
  lemma about `EntryPoint` (`EntersOnScreen`); that roaming and pinning keep it there
  are `RoamedRoams` and `PinnedIsPlaced`. `PointerOnScreen` says nothing of the last
  local point and of the points remembered for local screens: the layout can be
  edited under them, and they have their type only.
* `InstanceInv` has two halves. `LockInv`: while launches follow each other, whoever
  has found the path free, or its socket dead, has no owner beside it (`LockPart`).
  Processes that could not make the mutex are not counted: the theorem says what a
  lock promises, and `OneInstance` is not a theorem (section 6).
  The other half counts nobody out: as long as no process has ended, the one that
  removed the path is about to bind it (`RebindPart`), what it finds there instead
  starts or runs (`TakenPart`), so whoever gives up leaves another (`GoingPart`).

*Only model-checked.*

* Liveness (`PollingReturns`, `SilenceEnds`, `TrafficMoves`, `OverrideIsNoticed`,
  `RowsSettle`, `AllAgree` and the fairness part of `ImplementsHandoff`): the prover
  does not handle ENABLED.
* The five runs that expect a violation.

Every other property of the passing runs is stated by a theorem; of
`ImplementsHandoff` the safety part is.

## 6. Where code and documents disagree

Five runs exhibit a disagreement: one of them a fault of the program whatever the
documents say, the fourth.

1. **A failed release is not retried by the health thread.** Once no session is
   active, `expire_if_needed` returns early; the restored ledger waits for a
   frame of the controller. `docs/T07a-pressed-state.md:7`. Run
   `receiver_release_retry`. `CleanStart` and `HeldIsRecorded` show what does
   hold: nothing is forgotten, and no session starts over held input.
2. **A remote operation overwrites a local copy nobody has looked at.** The
   handler compares it with the engine's winner, not the system's revision with
   the last one observed, so the copy is lost on both machines
   (`docs/handoff/02_详细设计_状态机协议与代码改造.md:349`). Run
   `clipboard_overwrite`. `Settled` shows that the two machines still agree.
3. **A copy of the window brings a removed pairing back.** An edit saved from a
   snapshot older than a reset restores the paired controllers, since the merge
   keeps the present ones only while there are some; the trust stays removed
   (`docs/SOURCE_AUDIT.md:149`). Run `settings_copy`. `PairingIsKept` shows what
   does hold: no snapshot takes a pairing away or changes whom the machine trusts.
4. **A pointer that crosses an edge hangs the capture thread.** See `Hangs` in
   section 2: `handle_windows_mouse_move` holds `context.active` from
   `input.rs:4085` to the call at 4214, which locks it again (`input.rs:2986`, 4003).
   The handoff that was begun is then never cancelled
   (`docs/handoff/02_详细设计_状态机协议与代码改造.md:92`), and with one thread nothing
   serves the capture until the program ends. Run `capture_edge_hang`. What does
   hold is that input is not lost for it: the gate stays closed, the hooks pass
   everything on (`HooksAreServed`), and an override still ends a session that another
   thread has opened (`OverrideIsNoticed`).
5. **Two instances after a crash on Unix.** Of two processes that find a stale socket
   at the same time, the slower removes the faster one's new socket and binds its
   own (`lib.rs:3448-3472`, `docs/T17-background-autostart.md:7`). Run
   `second_instance`. `OneAfterTheOther` is what does hold.

The following were met in the code while modelling. The models follow the code;
no run is spent on them.

* *Two instances without a mutex on Windows.* When `CreateMutexW` gives no handle,
  `acquire_single_instance` returns `true` (`lib.rs:3400`), and the process captures
  and binds beside the one that holds the mutex
  (`docs/handoff/04_测试与验收计划.md:81`). `OneInstance` fails on Windows as well
  (`Platforms = {"windows"}` in `MCSecondInstance.cfg`), and `OneAfterTheOther`
  therefore counts the holders of a lock.
* *Keys sampled before the ACK.* `poll` handles control frames first
  (`controller_client.rs:242`) and uses the sample afterwards; `commit_ack`
  activates without it. `docs/T04a-routing.md:13` and the comment at
  `routing.rs:241` say otherwise.
* *A second `CommitAck`* is answered `NotActive` (`controller_runtime.rs:140`),
  `poll` drops the handles, and the router stays active until a send or the next
  ping fails. `docs/T04b3b2a-controller-client.md:7` promises the return at once;
  `DeadChannelEnds` shows that the session does end.
* *A key without a scan code* is identified by its mapped code
  (`pressed_state.rs:14`), so a mapping changed while it is held leaves its target
  pressed, and two such keys mapped to one target share an owner
  (`docs/T07a-pressed-state.md:5`). `KeysFollowHands` is about keys with scan codes.
* *A second `Prepare`* is refused but has already replaced the display that the
  earlier Commit then activates (`session_runtime.rs:280`,
  `docs/T08d-display-layout-gate.md:3`).
* *Two connections to one peer*: a dial whose mark was taken may end with a
  connection of its own, and streams already served stay on the older one
  (`quic_transport.rs:1705-1707`; `docs/handoff/04_测试与验收计划.md:104`,
  `docs/T06b-control-stream.md:7`).
* *The pairing code on the screen* is what the window last polled; by the time
  the user has typed it elsewhere it may have expired or been replaced
  (`src/i18n.ts:208`).
* *Game mode and the return keys*: in game mode the hooks pass everything on
  before they look for a control hotkey (`input.rs:3638`, `input.rs:3711`), and
  only the system-wide registration remains. The default return and emergency
  return share a key (`lib.rs:5471-5477`), and a hook takes its release for that
  of the first binding (`input.rs:3757-3764`), so the bit of the other one is
  cleared by the system-wide release only (`docs/T09-windows-control-hotkeys.md:5`).
  A key-up lost to another desktop leaves the bit set (`game_mode.rs:113`), and
  the next press does nothing.
* *A roaming pointer*: a position is sent under the display the handoff named
  (`controller_runtime.rs:259-275`), whichever of the device's screens the pointer
  has roamed to (`input.rs:4849-4851`); the receiver maps it on that display or
  refuses it (`session_runtime.rs:505-525`).
* *The return cooldown* (`input.rs:5153-5157`) is used on macOS only; on Windows
  `NoBounce` holds because the first move after a return only records where the
  cursor is.
* *Memory, file and registry after a failed write*: a pairing whose write fails has
  changed memory and not the registry (`lib.rs:8325`); a reset whose write fails has
  emptied the lists of memory and leaves file, registry and challenge as they were
  (`lib.rs:3280`). `RestartKeepsTrust` is about behaviours without a failed write and
  without two writers at once; `PairedIsTrusted` excuses neither.
* *The synchronisation of hotkeys* that fails half-way leaves keys registered that
  are not those of the saved layout (`lib.rs:2418-2420`), until a later save or a
  start succeeds: `StartCures`.
* *An address that changes hands*: a paired controller is also matched by its last
  address (`lib.rs:7298-7309`). When another machine of the cluster gets that
  address and is heard before the one that left it, the stored pairing takes over
  the name and key of that machine; with `Reuse = TRUE` TLC shows it in five steps.
  `RowsAreTrue` is checked and proved for networks in which a machine may return to
  an address of its own and no machine gets one that another has had.
* *Two modifiers that share a flag*: releasing one clears the flag although the
  other is still held (`input.rs:6825-6829`). `NoModifierLeftOver` is about flags
  that nobody holds.
* On Windows `post_event` reports success although `SendInput` was refused
  (`control_ports.rs:47`), so the ledger records what the system did not do.
* The content a clipboard watcher reads may be newer than the revision it
  noticed; if a remote write fell between the two, the machine sends the peer's
  content back as a copy of its own. And a machine whose peer failed to send has a
  clock that is behind: its next copies and resends are acknowledged and ignored
  until its clock has caught up.

## 7. Abstractions

* Sessions, peers, displays with their revisions, keys and targets are model
  values. Key-code tables and texts are left out; a payload is its size, and a
  field of a frame is valid, too long or missing.
* A position of a session is named by the motion sample it was taken from; the
  comparison of samples is the code's. `Crossing` has coordinates, in whole pixels.
* The controller's motion sequence and the Pong counters are left out: on that side
  nothing depends on them but statistics.
* The receiver's peer keeps one promise: a session belongs to the request it
  was prepared for, and the requests of a process grow. Apart from that it sends
  anything, over any of its connections, in any order, any number of times.
* `Routing`'s port may refuse at each call; why Windows would is not modelled. That
  the call does not return after an edge was crossed is `Capture`'s.
* `Presence` has one thread at a time between its copy of the peer table and the
  rows; the loop's own turn copies and applies in one step.
* Of the calls that make a lock only `CreateMutexW` fails without a reason in the
  model, and `set_permissions`, `remove_file` and `bind` when the path is gone or
  taken. Other failures, of `socket`, `listen` or `CreateEventW`, are left out.
* Components that meet over an interface are modelled on both sides of it:
  `Capture` has the client as its route, `Controller` has the capture thread as
  the caller that polls; `InputStream` delivers what `ReceiverSession` handles.

## 8. Not modelled

* File transfer, the legacy clipboard and legacy input forwarding:
  `LEGACY_LAN_DATA_ENABLED` is false and no path of the program reaches them.
* The Windows service, its helper and the privileged desktop:
  `PRIVILEGED_FEATURES_ENABLED` is false.
* Capture on macOS, scaled coordinates, text input, icons and menus: platform
  calls.
* `safe_loopback.rs`, `performance.rs`, `fork_policy.rs`: a test harness,
  statistics and constants.
* TLS, certificates and quinn are library code. The React views, build scripts
  and installers keep no state that another part depends on; what the window
  keeps of the layout is in `Settings`.

## 9. What could follow

1. **Session**: `Controller` and `ReceiverSession` composed over a control
   stream, an input stream and datagrams, against an abstract specification of
   the whole: a key pressed while remote is released on the receiver whichever
   machine, stream or thread ends the session.
2. `Transport` and `InputStream` composed: what a lost connection leaves of a
   stream, with the order in which `input_active` and `control_active` come off.

## 10. Running

In this directory, with TLC, the community modules and TLAPS on the path:

    tlc -config MCForwarding.cfg MCForwarding.tla
    tlc -config MCController.cfg MCController.tla
    tlc -config MCReceiver.cfg MCReceiver.tla        (also MCReceiverRetry.cfg)
    tlc -config MCCapture.cfg MCCapture.tla          (also MCCaptureHang.cfg)
    tlc -config MCApplication.cfg MCApplication.tla  (also MCSettingsCopy.cfg)
    tlc -config MCConnections.cfg MCConnections.tla
    tlc -config MCDesk.cfg MCDesk.tla                (also MCSecondInstance.cfg)
    tlc -config MCClipboardOverwrite.cfg MCClipboard.tla

    tlapm RoutingProofs.tla        tlapm ControllerProofs.tla
    tlapm ReceiverProofs.tla       tlapm CaptureProofs.tla
    tlapm ClipboardProofs.tla      tlapm StreamProofs.tla
    tlapm ConnectionProofs.tla     tlapm DeskProofs.tla
