------------------------------- MODULE Capture -------------------------------
(***************************************************************************)
(* The controlling machine's capture thread, its two low-level hooks and   *)
(* the entries that reach it from other threads: the control hotkeys (from *)
(* the hook and from the system's shortcuts), the tray, game mode, the     *)
(* screen-switch request, and the runtime's start and stop.  Several       *)
(* capture threads may exist: a stop only asks a thread to end, and a      *)
(* start that timed out leaves one running that nobody can stop.           *)
(*                                                                         *)
(* The controller client is reduced to its route; Routing and Controller   *)
(* hold its steps.  A hook runs inside the message pump of the thread that *)
(* installed it; one ordinary key, the moves and a switch hotkey are the   *)
(* events.                                                                 *)
(*                                                                         *)
(* A thread that begins a handoff from a pointer move holds its context's  *)
(* active lock and takes it again: it is stuck from then on, in no step of *)
(* its loop and deaf to its hooks, to overrides and to a stop.             *)
(***************************************************************************)
EXTENDS Naturals, Sequences, FiniteSets

CONSTANTS
    Threads,        \* bound: the capture threads that may run at the same time
    None,           \* no thread, no action
    KeyOf,          \* the trigger key of each control action
    HookQueue,      \* hook events a thread's channel holds (1024 in the code)
    MaxSessions,    \* bound: sessions that may be activated
    MaxOverrides,   \* bound: tray and game mode overrides
    CaptureScenarios       \* bound: the sets of CaptureFeatures that may occur in one behaviour

(* Threads that overlap, pointer moves, keys, switch hotkeys, control *)
(* hotkeys, the tray, the secure desktop, game mode switched while running. *)
CaptureFeatures == {"overlap", "moves", "keys", "switch", "hotkeys", "tray",
             "desktop", "game"}

ASSUME CaptureAssumption ==
    /\ IsFiniteSet(Threads) /\ None \notin Threads /\ HookQueue \in Nat \ {0}
    /\ MaxSessions \in Nat /\ MaxOverrides \in Nat
    /\ CaptureScenarios \subseteq SUBSET CaptureFeatures

VARIABLES
    th,             \* [thread -> pc, stop, route, pending, active, queue]
    gate,           \* LocalOverride: who reserved it last, and whether it is open
    remoteActive, context, inputStop, stopping, slot, deduper, switchRequest,
    gameMode, saving,
    desktop, desktopCache,
    keyDown,        \* the ordinary key, as the hand holds it
    winHolds,       \* the key as Windows saw it
    peerHolds,      \* the key as the session's peer was told
    hotDown,        \* [action -> "up" or the entry that saw its press]
    dispatched,     \* [action -> times it was accepted since its press]
    session,        \* sessions activated so far
    overlapped,     \* a thread was started while another one ran
    overrides,
    features        \* the features of this behaviour, fixed

loop == <<th, gate, remoteActive, peerHolds>>
runtime == <<context, inputStop, stopping, overlapped>>
requests == <<slot, switchRequest>>
modes == <<gameMode, saving, desktop, desktopCache, overrides, features>>
hand == <<keyDown, winHolds, hotDown, dispatched, deduper>>
captureVars == <<loop, runtime, requests, modes, hand, session>>

Actions == {"GoMac", "GoLocal", "EmergencyLocal"}
Returns == {"GoLocal", "EmergencyLocal"}
Priority == [GoMac |-> 1, GoLocal |-> 2, EmergencyLocal |-> 3]
BindingOrder == <<"EmergencyLocal", "GoLocal", "GoMac">>
Stages == {"none", "control", "events", "desktop", "switch", "poll", "pump", "stuck"}
Kinds == {"move", "down", "up", "switch"}
Events == [kind : Kinds, session : 0..MaxSessions]

Closed == [owner |-> None, open |-> FALSE]
Reserved(t) == [owner |-> t, open |-> FALSE]
Opened(t) == [owner |-> t, open |-> TRUE]
Gates == [owner : Threads \cup {None}, open : BOOLEAN]

Routes == {"local", "preparing", "committed", "active"}
ThreadStates == [pc : Stages, stop : BOOLEAN, route : Routes,
                 pending : BOOLEAN, active : BOOLEAN, queue : Seq(Events)]
NewThread == [pc |-> "none", stop |-> FALSE, route |-> "local",
              pending |-> FALSE, active |-> FALSE, queue |-> <<>>]
Alive(t) == th[t].pc # "none"
Serving(t) == Alive(t) /\ th[t].pc # "stuck"
Pumping == \A t \in Threads : Serving(t) => th[t].pc = "pump"
HookSees == desktop /\ ~gameMode /\ context # None

CaptureInit ==
    /\ th = [t \in Threads |-> NewThread]
    /\ gate = Closed /\ remoteActive = FALSE
    /\ context = None /\ inputStop = None /\ stopping = FALSE
    /\ slot = None /\ deduper = {} /\ switchRequest = FALSE
    /\ gameMode \in BOOLEAN /\ saving = FALSE
    /\ desktop = TRUE /\ desktopCache = TRUE
    /\ keyDown = FALSE /\ winHolds = FALSE /\ peerHolds = FALSE
    /\ hotDown = [a \in Actions |-> "up"] /\ dispatched = [a \in Actions |-> 0]
    /\ session = 0 /\ overlapped = FALSE /\ overrides = 0
    /\ features \in CaptureScenarios

(***************************************************************************)
(* The action slot and the deduper.  Another thread may hold the slot at   *)
(* the moment of an offer (free is then FALSE): the action is dropped.     *)
(***************************************************************************)
Yields(pending, a) == pending # None => Priority[a] >= Priority[pending]
Offered(pending, a, free) == IF free /\ Yields(pending, a) THEN a ELSE pending
Offer(a) == \E free \in BOOLEAN : slot' = Offered(slot, a, free)

Accepts(a) == a \notin deduper

Dispatch(a, before) ==
    IF Accepts(a)
    THEN /\ deduper' = deduper \cup {a}
         /\ gate' = IF a \in Returns THEN Closed ELSE gate
         /\ Offer(a)
         /\ dispatched' = [dispatched EXCEPT ![a] = before + 1]
    ELSE /\ dispatched' = [dispatched EXCEPT ![a] = before]
         /\ UNCHANGED <<deduper, gate, slot>>

OverrideAndOffer == gate' = Closed /\ Offer("GoLocal")

(* A hook passed the press on with an override of its own; the shortcut follows. *)
OverrideThenDispatch(a) ==
    /\ gate' = Closed
    /\ deduper' = deduper \cup {a}
    /\ \E first, second \in BOOLEAN :
         slot' = IF Accepts(a) THEN Offered(Offered(slot, "GoLocal", first), a, second)
                 ELSE Offered(slot, "GoLocal", first)
    /\ dispatched' = [dispatched EXCEPT ![a] = IF Accepts(a) THEN 1 ELSE 0]

(***************************************************************************)
(* The controller client, as far as the capture thread sees it.  rec is    *)
(* the thread's record at the end of the step that leaves.                 *)
(***************************************************************************)
Restored(rec) == [rec EXCEPT !.pending = FALSE, !.active = FALSE]

Leave(t, rec) ==
    /\ gate' = Closed
    /\ th' = [th EXCEPT ![t] = IF rec.route = "local" THEN rec
                               ELSE [Restored(rec) EXCEPT !.route = "local"]]
    /\ remoteActive' = (remoteActive /\ rec.route = "local")
    /\ peerHolds' = (peerHolds /\ rec.route # "active")

RestoreOnly(t, rec) ==
    /\ th' = [th EXCEPT ![t] = Restored(rec)]
    /\ remoteActive' = FALSE
    /\ UNCHANGED <<gate, peerHolds>>

GoOn(t, rec) ==
    /\ th' = [th EXCEPT ![t] = rec]
    /\ UNCHANGED <<gate, remoteActive, peerHolds>>

MayBegin(t) == ~th[t].pending /\ ~remoteActive

Reserves(t, rec) ==
    /\ rec.route = "local" /\ desktopCache
    /\ gate' = Reserved(t)
    /\ th' = [th EXCEPT ![t] = [rec EXCEPT !.route = "preparing"]]
    /\ UNCHANGED <<remoteActive, peerHolds>>

(* The connection or the router may refuse a handoff before it reserves the *)
(* gate, the capture port, an override or the first frame after.            *)
Begin(t, rec) ==
    \/ MayBegin(t) /\ Reserves(t, [rec EXCEPT !.pending = TRUE])
    \/ MayBegin(t) /\ rec.route = "local" /\ Leave(t, rec)
    \/ MayBegin(t) /\ RestoreOnly(t, rec)
    \/ ~MayBegin(t) /\ GoOn(t, rec)

(* The same call by a thread that holds its context's active lock: the      *)
(* capture port takes that lock before it stores the candidate, and the     *)
(* restore after every refusal takes it too.                                *)
Hangs(t, rec) ==
    LET stuck == [rec EXCEPT !.pc = "stuck"]
    IN /\ MayBegin(t)
       /\ \/ Reserves(t, stuck)
          \/ rec.route = "local" /\ ~desktopCache /\ Leave(t, stuck)
          \/ GoOn(t, stuck)

InstalledContext(t, outcome) == IF outcome = "failed" THEN None ELSE t

StartInput(t) ==
    /\ ~stopping /\ inputStop = None /\ th[t].pc = "none"
    /\ "overlap" \in features \/ \A u \in Threads : ~Alive(u)
    /\ \E outcome \in {"ready", "late", "failed"} :
        /\ th' = [th EXCEPT ![t].pc = IF outcome = "failed" THEN "none" ELSE "control"]
        /\ context' = InstalledContext(t, outcome)
        /\ inputStop' = IF outcome = "ready" THEN t ELSE None
    /\ overlapped' = (overlapped \/ \E u \in Threads : Alive(u))
    /\ gate' = Closed /\ remoteActive' = FALSE
    /\ UNCHANGED <<stopping, peerHolds, requests, modes, hand, session>>

StopRequest ==
    /\ ~stopping /\ inputStop # None
    /\ stopping' = TRUE /\ gate' = Closed
    /\ UNCHANGED <<th, remoteActive, peerHolds, context, inputStop, overlapped,
                   requests, modes, hand, session>>

StopSignal ==
    /\ stopping
    /\ stopping' = FALSE
    /\ th' = [th EXCEPT ![inputStop].stop = TRUE]
    /\ inputStop' = None /\ remoteActive' = FALSE
    /\ UNCHANGED <<gate, peerHolds, context, overlapped, requests, modes, hand, session>>

\* Fault: the ending thread does not return to local.
GateAtEndKept(t) == IF Alive(t) THEN gate ELSE Closed

GateAtEnd(t) == IF Alive(t) THEN Closed ELSE gate

EndThread(t) ==
    /\ th[t].pc = "control" /\ th[t].stop
    /\ th' = [th EXCEPT ![t] = NewThread]
    /\ gate' = GateAtEnd(t) /\ remoteActive' = FALSE
    /\ peerHolds' = (peerHolds /\ th[t].route # "active")
    /\ context' = None
    /\ UNCHANGED <<inputStop, stopping, overlapped, requests, modes, hand, session>>

(***************************************************************************)
(* The loop: the control action, the hook events, the desktop check, the   *)
(* switch request, the client, the message pump.                           *)
(***************************************************************************)
At(t, pc) == th[t].pc = pc
To(t, pc) == [th[t] EXCEPT !.pc = pc]

DrainControl(t) ==
    /\ At(t, "control") /\ ~th[t].stop
    /\ \/ UNCHANGED slot /\ GoOn(t, To(t, "events"))
       \/ /\ slot \in Returns
          /\ slot' = None /\ Leave(t, To(t, "events"))
       \/ /\ slot = "GoMac"
          /\ slot' = None
          /\ \/ GoOn(t, To(t, "events"))
             \/ ~th[t].active /\ Begin(t, To(t, "events"))
    /\ UNCHANGED <<switchRequest, runtime, modes, hand, session>>

Forwarded(kind) == IF kind \in {"down", "up"} THEN kind = "down" ELSE peerHolds

(* One hook event: a move may cross an edge, a key goes to the peer.  An  *)
(* edge crossed while a handoff may begin is the last thing a thread does. *)
ProcessEvent(t) ==
    /\ At(t, "events") /\ th[t].queue # <<>>
    /\ LET e == Head(th[t].queue).kind
           rec == [th[t] EXCEPT !.queue = Tail(@)]
       IN \/ /\ ~gate.open /\ (e # "move" \/ remoteActive)
             /\ GoOn(t, rec)
          \/ /\ gate.open /\ e = "switch"
             /\ Leave(t, rec)
          \/ /\ e = "move" \/ (gate.open /\ e # "switch")
             /\ th[t].active /\ (gate.open \/ ~remoteActive)
             /\ \/ /\ th[t].route = "active"
                   /\ th' = [th EXCEPT ![t] = rec]
                   /\ peerHolds' = Forwarded(e)
                   /\ UNCHANGED <<gate, remoteActive>>
                \/ Leave(t, rec)
          \/ /\ gate.open /\ e \in {"down", "up"} /\ ~th[t].active
             /\ GoOn(t, rec)
          \/ /\ e = "move" /\ ~th[t].active /\ (gate.open \/ ~remoteActive)
             /\ Hangs(t, rec) \/ GoOn(t, rec)
    /\ UNCHANGED <<runtime, requests, modes, hand, session>>

\* Fault: at most one event is processed per turn of the loop.
DrainedAfterOne(t) == Len(th[t].queue) <= 1

Drained(t) == th[t].queue = <<>>

EventsDrained(t) ==
    /\ At(t, "events") /\ Drained(t)
    /\ GoOn(t, To(t, "desktop"))
    /\ UNCHANGED <<runtime, requests, modes, hand, session>>

CheckDesktop(t) ==
    /\ At(t, "desktop")
    /\ \/ UNCHANGED desktopCache /\ GoOn(t, To(t, "switch"))
       \/ desktopCache' = desktop /\ desktop /\ GoOn(t, To(t, "switch"))
       \/ desktopCache' = desktop /\ ~desktop /\ Leave(t, To(t, "switch"))
    /\ UNCHANGED <<gameMode, saving, desktop, overrides, features, runtime, requests, hand, session>>

DrainSwitch(t) ==
    /\ At(t, "switch")
    /\ switchRequest' = FALSE
    /\ \/ ~switchRequest /\ GoOn(t, To(t, "poll"))
       \/ /\ switchRequest /\ (remoteActive \/ th[t].pending \/ th[t].active)
          /\ Leave(t, To(t, "poll"))
       \/ /\ switchRequest /\ ~remoteActive /\ ~th[t].pending /\ ~th[t].active
          /\ Begin(t, To(t, "poll")) \/ GoOn(t, To(t, "poll"))
    /\ UNCHANGED <<slot, runtime, modes, hand, session>>

KeysReleased == ~keyDown /\ \A a \in Actions : hotDown[a] = "up"

\* Fault: an active route does not look at the gate.
CancelledPreparing(t) ==
    th[t].route \in {"preparing", "committed"} /\ gate # Reserved(t)

Cancelled(t) ==
    \/ th[t].route \in {"preparing", "committed"} /\ gate # Reserved(t)
    \/ th[t].route = "active" /\ ~gate.open

(* Commit goes out only while no key is down; the answer activates. *)
Activated(t) ==
    /\ th[t].route = "committed" /\ gate = Reserved(t)
    /\ th[t].pending /\ desktopCache /\ session < MaxSessions
    /\ gate' = Opened(t) /\ remoteActive' = TRUE
    /\ th' = [th EXCEPT ![t] = [To(t, "pump") EXCEPT !.route = "active",
                                                     !.pending = FALSE, !.active = TRUE]]
    /\ session' = session + 1
    /\ UNCHANGED peerHolds

PollClient(t) ==
    /\ At(t, "poll")
    /\ \/ /\ ~th[t].pending /\ ~remoteActive
          /\ GoOn(t, To(t, "pump")) /\ UNCHANGED session
       \/ /\ th[t].pending \/ remoteActive
          /\ \/ Activated(t)
             \/ th[t].route # "local" /\ Leave(t, To(t, "pump")) /\ UNCHANGED session
             \/ /\ ~Cancelled(t) /\ th[t].route = "preparing" /\ KeysReleased
                /\ GoOn(t, [To(t, "pump") EXCEPT !.route = "committed"])
                /\ UNCHANGED session
             \/ /\ ~Cancelled(t) /\ (th[t].route = "committed" => KeysReleased)
                /\ ~(remoteActive /\ ~th[t].active)
                /\ GoOn(t, To(t, "pump")) /\ UNCHANGED session
             \/ /\ ~Cancelled(t) /\ remoteActive /\ ~th[t].active
                /\ RestoreOnly(t, To(t, "pump")) /\ UNCHANGED session
    /\ UNCHANGED <<runtime, requests, modes, hand>>

PumpEnds(t) ==
    /\ At(t, "pump")
    /\ GoOn(t, To(t, "control"))
    /\ UNCHANGED <<runtime, requests, modes, hand, session>>

(***************************************************************************)
(* The hooks.  They run one after the other, the newest thread's first,    *)
(* until one of them swallows the event; Windows waits a while for the     *)
(* hook of a stuck thread and goes on without it.                          *)
(***************************************************************************)
Copies == Cardinality({t \in Threads : Serving(t)})
Hooked == Copies > 0 /\ Pumping

Room == HookQueue - Len(th[context].queue)

Queued(kind, n) ==
    [th EXCEPT ![context].queue =
        @ \o [i \in 1..n |-> [kind |-> kind, session |-> session]]]

\* Fault: an event that finds no room is passed on and nothing else.
FullQueueIgnored == UNCHANGED <<gate, slot>>

FullQueue == OverrideAndOffer

(* What the hooks do with an event that is not a control hotkey; swallowed *)
(* says whether Windows sees it.                                           *)
HookEvent(kind, swallowed) ==
    \/ /\ ~HookSees /\ ~swallowed
       /\ UNCHANGED <<th, gate, slot>>
    \/ /\ HookSees /\ ~desktopCache /\ ~swallowed
       /\ OverrideAndOffer /\ UNCHANGED th
    \/ /\ HookSees /\ desktopCache /\ ~gate.open /\ ~swallowed
       /\ IF kind # "move" THEN UNCHANGED <<th, gate, slot>>
          ELSE LET fits == IF Copies <= Room THEN Copies ELSE Room
               IN /\ th' = Queued(kind, fits)
                  /\ IF fits = Copies THEN UNCHANGED <<gate, slot>> ELSE FullQueue
    \/ /\ HookSees /\ desktopCache /\ gate.open /\ Room > 0 /\ swallowed
       /\ th' = Queued(kind, 1) /\ UNCHANGED <<gate, slot>>
    \/ /\ HookSees /\ desktopCache /\ gate.open /\ Room = 0 /\ ~swallowed
       /\ FullQueue /\ UNCHANGED th

Key(down) ==
    /\ "keys" \in features /\ (Copies > 0 => Pumping)
    /\ keyDown = ~down /\ keyDown' = down
    /\ \E swallowed \in BOOLEAN :
        /\ IF Hooked THEN HookEvent(IF down THEN "down" ELSE "up", swallowed)
           ELSE ~swallowed /\ UNCHANGED <<th, gate, slot>>
        /\ winHolds' = IF swallowed \/ ~desktop THEN winHolds ELSE down
    /\ UNCHANGED <<remoteActive, peerHolds, runtime, switchRequest, modes,
                   hotDown, dispatched, deduper, session>>

Move ==
    /\ "moves" \in features /\ Hooked /\ HookSees
    /\ \E swallowed \in BOOLEAN : HookEvent("move", swallowed)
    /\ UNCHANGED <<remoteActive, peerHolds, runtime, switchRequest, modes, hand, session>>

(* A switch hotkey is a switch request unless a hook swallows it. *)
SwitchHotkey ==
    /\ "switch" \in features /\ desktop /\ (Copies > 0 => Pumping)
    /\ \E swallowed \in BOOLEAN :
        /\ IF Hooked THEN HookEvent("switch", swallowed)
           ELSE ~swallowed /\ UNCHANGED <<th, gate, slot>>
        /\ switchRequest' = (switchRequest \/ ~swallowed)
    /\ UNCHANGED <<remoteActive, peerHolds, runtime, modes, hand, session>>

(***************************************************************************)
(* The control hotkeys: the hook recognises a combination before anything  *)
(* else and swallows it, else the system's shortcut reports it.            *)
(***************************************************************************)
HookTakes == Hooked /\ HookSees

HotPress(a) ==
    /\ "hotkeys" \in features /\ desktop /\ (Copies > 0 => Pumping)
    /\ \A b \in Actions : KeyOf[b] = KeyOf[a] => hotDown[b] = "up"
    /\ hotDown' = [hotDown EXCEPT ![a] = IF HookTakes /\ desktopCache THEN "hook" ELSE "system"]
    /\ IF HookTakes /\ ~desktopCache THEN OverrideThenDispatch(a) ELSE Dispatch(a, 0)
    /\ UNCHANGED <<th, remoteActive, peerHolds, runtime, switchRequest, modes,
                   keyDown, winHolds, session>>

HotRepeat(a) ==
    /\ HookTakes /\ desktopCache /\ hotDown[a] = "hook"
    /\ Dispatch(a, dispatched[a])
    /\ UNCHANGED <<th, remoteActive, peerHolds, runtime, switchRequest, modes,
                   keyDown, winHolds, hotDown, session>>

(* A key-up has no modifiers to compare: the first binding of the key is meant. *)
BoundFirst(a) ==
    LET first == CHOOSE i \in 1..3 : /\ KeyOf[BindingOrder[i]] = KeyOf[a]
                                     /\ \A j \in 1..(i - 1) : KeyOf[BindingOrder[j]] # KeyOf[a]
    IN BindingOrder[first]

HotRelease(a) ==
    /\ Copies > 0 => Pumping
    /\ hotDown[a] # "up" /\ hotDown' = [hotDown EXCEPT ![a] = "up"]
    /\ deduper' = deduper \ ((IF HookTakes /\ desktopCache THEN {BoundFirst(a)} ELSE {})
                             \cup (IF hotDown[a] = "system" THEN {a} ELSE {}))
    /\ IF HookTakes /\ ~desktopCache THEN OverrideAndOffer ELSE UNCHANGED <<gate, slot>>
    /\ UNCHANGED <<th, remoteActive, peerHolds, runtime, switchRequest, modes,
                   keyDown, winHolds, dispatched, session>>

(***************************************************************************)
(* The other threads, and the desktop.                                     *)
(***************************************************************************)
RequestEmergency ==
    /\ "tray" \in features /\ overrides < MaxOverrides /\ overrides' = overrides + 1
    /\ gate' = Closed /\ Offer("EmergencyLocal")
    /\ UNCHANGED <<th, remoteActive, peerHolds, runtime, switchRequest,
                   gameMode, saving, desktop, desktopCache, features, hand, session>>

SaveGameMode(enabled) ==
    /\ "game" \in features /\ ~saving /\ overrides < MaxOverrides /\ gameMode # enabled
    /\ gameMode' = enabled /\ saving' = enabled /\ overrides' = overrides + 1
    /\ UNCHANGED <<loop, runtime, requests, desktop, desktopCache, features, hand, session>>

GameModeOverrides ==
    /\ saving /\ saving' = FALSE
    /\ OverrideAndOffer
    /\ UNCHANGED <<th, remoteActive, peerHolds, runtime, switchRequest,
                   gameMode, desktop, desktopCache, overrides, features, hand, session>>

(* The secure desktop stays long enough for the check of every 100 ms, if *)
(* there is a thread to make it.                                          *)
SwitchDesktop ==
    /\ "desktop" \in features
    /\ ~desktop => ~desktopCache \/ \A t \in Threads : ~Serving(t)
    /\ desktop' = ~desktop
    /\ UNCHANGED <<loop, runtime, requests, gameMode, saving, desktopCache, overrides,
                   features, hand, session>>

LoopStep(t) ==
    \/ DrainControl(t) \/ ProcessEvent(t) \/ EventsDrained(t) \/ CheckDesktop(t)
    \/ DrainSwitch(t) \/ PollClient(t) \/ PumpEnds(t) \/ EndThread(t)

CaptureNext ==
    \/ \E t \in Threads : StartInput(t) \/ LoopStep(t)
    \/ StopRequest \/ StopSignal
    \/ \E down \in BOOLEAN : Key(down)
    \/ Move \/ SwitchHotkey
    \/ \E a \in Actions : HotPress(a) \/ HotRepeat(a) \/ HotRelease(a)
    \/ RequestEmergency \/ GameModeOverrides
    \/ \E enabled \in BOOLEAN : SaveGameMode(enabled)
    \/ SwitchDesktop

(* The threads are scheduled; the pump returns at least every 20 ms.  A *)
(* stuck thread has no step to take.                                    *)
CaptureFairness == \A t \in Threads : WF_captureVars(LoopStep(t))
CaptureSpec == CaptureInit /\ [][CaptureNext]_captureVars
FairCaptureSpec == CaptureSpec /\ CaptureFairness

(***************************************************************************)
(* Properties.                                                             *)
(***************************************************************************)
CaptureTypeOK ==
    /\ th \in [Threads -> ThreadStates]
    /\ \A t \in Threads : Len(th[t].queue) <= HookQueue
    /\ gate \in Gates /\ context \in Threads \cup {None} /\ inputStop \in Threads \cup {None}
    /\ slot \in Actions \cup {None} /\ deduper \subseteq Actions
    /\ {remoteActive, stopping, switchRequest, gameMode, saving, desktop, desktopCache,
        keyDown, winHolds, peerHolds, overlapped} \subseteq BOOLEAN
    /\ hotDown \in [Actions -> {"up", "hook", "system"}] /\ dispatched \in [Actions -> Nat]
    /\ session \in 0..MaxSessions /\ overrides \in 0..MaxOverrides /\ features \subseteq CaptureFeatures

(* While no two capture threads overlap, an open gate belongs to the thread *)
(* whose context the hooks use, and that thread forwards: what the hooks    *)
(* swallow never goes to a thread that is gone or has no target             *)
(* (activate_capture, the stop path, the context's install and clear).      *)
OpenGateIsServed ==
    \A t \in Threads : gate = Opened(t) /\ ~overlapped =>
        /\ context = t /\ Serving(t) /\ th[t].active /\ th[t].route = "active"
        /\ remoteActive \/ th[t].stop

(* A context always belongs to a thread that has not ended, and the hooks of *)
(* a runtime that reported itself ready, with no other thread running, use   *)
(* its context (start_platform_capture, clear_windows_capture_context).      *)
ReadyIsHooked ==
    /\ context # None => Alive(context)
    /\ inputStop # None /\ ~overlapped => context = inputStop

(* What the hooks swallow has a thread that serves it. *)
HooksAreServed == CaptureTypeOK /\ OpenGateIsServed /\ ReadyIsHooked

(* A key event or switch hotkey swallowed in one session is never forwarded *)
(* in another: whatever a queue holds while the gate is open was queued in  *)
(* the open session (the order of the loop in start_platform_capture).      *)
ForwardInSession ==
    \A t \in Threads : gate = Opened(t) =>
        \A i \in 1..Len(th[t].queue) :
            th[t].queue[i].kind # "move" => th[t].queue[i].session = session

Plain == ~overlapped /\ ~gameMode /\ desktop
IsKey(e) == e.kind \in {"down", "up"}
NoKeyIn(q, from) == \A j \in from..Len(q) : ~IsKey(q[j])

(* What the peer is told once queue q is processed, if it was told held before. *)
ToldBy(q, held) ==
    \/ held /\ NoKeyIn(q, 1)
    \/ \E i \in 1..Len(q) : q[i].kind = "down" /\ NoKeyIn(q, i + 1)
Told(t) == ToldBy(th[t].queue, peerHolds)

(* In an open session the peer, once the queue is processed, holds the key *)
(* only if the hand does, and holds it whenever a hook swallowed its press *)
(* (the hooks, the bounded queue, process_windows_hook_event).             *)
KeyStateAgrees ==
    \A t \in Threads : gate = Opened(t) /\ Plain =>
        (Told(t) => keyDown) /\ (keyDown /\ ~winHolds => Told(t))

(* Repeats and two entries notwithstanding, a press of a control hotkey is *)
(* accepted at most once (HotkeyDeduper).                                  *)
OncePerPress == \A a \in Actions : dispatched[a] <= 1

(* An override returns the capture, though its offer may have been dropped *)
(* or another thread may have taken it, or a thread of an earlier start is *)
(* stuck (LocalOverride, ControlActionSlot).                               *)
OverrideIsNoticed == (~gate.open /\ remoteActive) ~> ~remoteActive

(* A handoff that was cancelled before it became active returns its thread *)
(* to the local mode (the handoff document's PreparingRemote row).         *)
HandoffIsCancelled ==
    \A t \in Threads :
        (th[t].route \in {"preparing", "committed"} /\ gate # Reserved(t)) ~> th[t].route = "local"

(* Outside game mode, no key event reaches Windows in an open session that *)
(* stays open (the hooks' full-queue and desktop branches).                *)
SwallowedOrClosed ==
    gate.open /\ gate'.open /\ Plain /\ Copies > 0 => winHolds' = winHolds

(* A press counts once: an ordinary key for one machine and never for both, *)
(* a hotkey for one action.                                                 *)
PressesCount == [][KeyStateAgrees' /\ OncePerPress' /\ SwallowedOrClosed]_captureVars
=============================================================================
