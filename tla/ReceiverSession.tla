--------------------------- MODULE ReceiverSession ---------------------------
(***************************************************************************)
(* The receiver: ReceiverSessionRuntime (session_runtime.rs) with its       *)
(* ReceiverHandshake and InputSessionGate (protocol_v2.rs), the ledger of   *)
(* held input (PressedState), and the handlers and the health thread of     *)
(* lib.rs that call it.  One mutex covers the runtime, so a call is one     *)
(* action; calls of the control, input and motion streams, of the health    *)
(* thread and of the settings come in any order.                            *)
(*                                                                          *)
(* The peer is any authenticated controller: it may send any frame, late,   *)
(* twice or never, over any of its connections.  It keeps one promise of    *)
(* the protocol: a session belongs to the request it was prepared for, and  *)
(* requests of one process grow.  A frame that is refused and changes       *)
(* nothing is a step that is not taken.                                     *)
(***************************************************************************)
EXTENDS PressedState

CONSTANTS
    Connections,    \* authenticated controller connections
    Boots,          \* controller processes
    Displays,       \* display identities with their layout revisions
    Mappings,       \* modifier mappings, functions from Keys to Targets
    None,           \* no connection, session, display or motion
    MaxRequest,     \* requests of one controller process
    MaxSeq,         \* u64::MAX of the reliable sequence
    MaxMotion,      \* motion samples of a session
    Lease           \* INPUT_LEASE_TIMEOUT_MS, in ticks

VARIABLES
    binding,        \* the connection the last Hello came from
    handshake,      \* ReceiverState; before the first Hello there is none
    gate,           \* InputSessionGate: [active, next, ended]
    active,         \* active_session
    applied,        \* highest_applied_sequence
    motion,         \* [highest, pending]
    display,        \* [layouts, prepared, active]
    silence,        \* now - last_activity_ms, up to Lease
    fault,          \* last_fault
    ledger,         \* pressed
    mapping,        \* the modifier mapping in force
    healthy,        \* the injector is ready and submits every command
    os,             \* what the operating system has been told to hold
    pointer,        \* the position it was told last: [seq, required]
    issued,         \* requests each controller process has sent
    retired,        \* history: sessions that were active and no longer are
    down            \* history: [key, target] of the physical keys held

runtime == <<binding, handshake, gate, active, applied, motion, display,
             silence, fault, ledger, mapping>>
outside == <<healthy, os, pointer, issued, retired, down>>
vars == <<runtime, outside>>

Requests == 1..MaxRequest
Sessions == [boot : Boots, request : Requests]
Motions == [seq : 1..MaxMotion, required : 0..MaxSeq]

ASSUME ReceiverAssumption ==
    /\ {MaxRequest, MaxSeq, MaxMotion, Lease} \subseteq Nat \ {0}
    /\ Mappings # {} /\ Mappings \subseteq [Keys -> Targets]
    /\ None \notin Connections \cup Displays
    /\ None \notin Sessions /\ None \notin Motions

Faults == {"Injector", "ReleaseFailed", "LeaseExpired", "InputStreamClosed",
           "LayoutChanged"}
Handshakes ==
    [state : {"none"}]
    \cup [state : {"Idle"}, boot : Boots]
    \cup [state : {"Prepared"}, boot : Boots, request : Requests]
    \cup [state : {"Active", "Ended"}, session : Sessions]

Events ==
    [kind : {"Key"}, key : Keys, down : BOOLEAN]
    \cup [kind : {"Button"}, button : Buttons, down : BOOLEAN,
          motion : 0..MaxMotion]
    \cup [kind : {"Scroll"}, motion : 0..MaxMotion]

TypeOK ==
    /\ binding \in Connections \cup {None}
    /\ handshake \in Handshakes
    /\ gate \in [active : Sessions \cup {None}, next : 1..MaxSeq,
                 ended : Sessions \cup {None}]
    /\ active \in Sessions \cup {None}
    /\ applied \in 0..MaxSeq
    /\ motion \in [highest : 0..MaxMotion, pending : Motions \cup {None}]
    /\ display \in [layouts : SUBSET Displays,
                    prepared : Displays \cup {None},
                    active : Displays \cup {None}]
    /\ silence \in 0..Lease
    /\ fault \in Faults \cup {None}
    /\ ledger \in Ledgers
    /\ mapping \in Mappings
    /\ healthy \in BOOLEAN
    /\ os \in [keys : SUBSET Targets, buttons : SUBSET Buttons]
    /\ pointer \in [seq : 0..MaxMotion, required : 0..MaxSeq]
    /\ issued \in [Boots -> 0..MaxRequest]
    /\ retired \in SUBSET Sessions
    /\ down \in SUBSET [key : Keys, target : Targets]

NoMotion == [highest |-> 0, pending |-> None]
NoPointer == [seq |-> 0, required |-> 0]

Init ==
    /\ binding = None
    /\ handshake = [state |-> "none"]
    /\ gate = [active |-> None, next |-> 1, ended |-> None]
    /\ active = None
    /\ applied = 0
    /\ motion = NoMotion
    /\ display = [layouts |-> Displays, prepared |-> None, active |-> None]
    /\ silence = 0
    /\ fault = None
    /\ ledger = EmptyLedger
    /\ mapping \in Mappings
    /\ healthy = TRUE
    /\ os = [keys |-> {}, buttons |-> {}]
    /\ pointer = NoPointer
    /\ issued = [b \in Boots |-> 0]
    /\ retired = {}
    /\ down = {}

-----------------------------------------------------------------------------
(* Releasing held input.                                                   *)

\* Which submissions of a set fail: none while the injector is healthy.
Failures(commands) ==
    {failed \in [keys : SUBSET commands.keys,
                 buttons : SUBSET commands.buttons] :
        healthy => failed.keys = {} /\ failed.buttons = {}}

NoFailure(failed) == failed.keys = {} /\ failed.buttons = {}

\* The system after the releases of `commands' that did not fail.
Released(held, commands, failed) ==
    [keys |-> held.keys \ (commands.keys \ failed.keys),
     buttons |-> held.buttons \ (commands.buttons \ failed.buttons)]

\* Fault: a failed release is forgotten with the rest of the ledger.
ReleasePressedForgetting(held, failed) ==
    LET commands == ReleaseAll(held)
    IN  /\ os' = Released(os, commands, failed)
        /\ ledger' = EmptyLedger

\* release_pressed: every command is tried; one failure restores the ledger.
ReleasePressed(held, failed) ==
    LET commands == ReleaseAll(held)
    IN  /\ os' = Released(os, commands, failed)
        /\ ledger' = IF NoFailure(failed) THEN EmptyLedger ELSE held

FaultAfter(failed, otherwise) ==
    IF NoFailure(failed) THEN otherwise ELSE "ReleaseFailed"

-----------------------------------------------------------------------------
(* Ending a session.                                                       *)

GateEnded(session) ==
    IF gate.active = session /\ session # None
    THEN [gate EXCEPT !.active = None, !.next = 1, !.ended = session]
    ELSE gate

\* abort_active.
Aborted(session) ==
    IF handshake = [state |-> "Active", session |-> session]
    THEN [state |-> "Ended", session |-> session] ELSE handshake

\* What every end has in common: gate, session, motion, held input.
CloseSession(held, failed, why) ==
    /\ gate' = GateEnded(active)
    /\ active' = None
    /\ silence' = 0
    /\ motion' = NoMotion
    /\ fault' = FaultAfter(failed, why)
    /\ ReleasePressed(held, failed)
    /\ retired' = retired \cup ({active} \ {None})
    /\ down' = {}

\* Fault: a session that holds nothing does not expire.
ExpireHeldOnly ==
    /\ active # None
    /\ silence = Lease
    /\ ~IsEmpty(ledger)
    /\ \E failed \in Failures(ReleaseAll(ledger)) :
          CloseSession(ledger, failed, "LeaseExpired")
    /\ handshake' = Aborted(active)
    /\ UNCHANGED <<binding, applied, display, mapping, healthy, pointer,
                   issued>>

\* expire_if_needed; the display stays with the runtime.
Expire ==
    /\ active # None
    /\ silence = Lease
    /\ \E failed \in Failures(ReleaseAll(ledger)) :
          CloseSession(ledger, failed, "LeaseExpired")
    /\ handshake' = Aborted(active)
    /\ UNCHANGED <<binding, applied, display, mapping, healthy, pointer,
                   issued>>

\* input_stream_closed.
InputStreamClosed(c) ==
    /\ binding = c
    /\ active # None
    /\ \E failed \in Failures(ReleaseAll(ledger)) :
          CloseSession(ledger, failed, "InputStreamClosed")
    /\ handshake' = Aborted(active)
    /\ UNCHANGED <<binding, applied, display, mapping, healthy, pointer,
                   issued>>

\* update_display_layouts, which every handler and the health thread call
\* with the layouts of the moment.
UpdateDisplayLayouts(layouts) ==
    LET prepared == IF display.prepared \in layouts
                    THEN display.prepared ELSE None
    IN  IF display.active \in layouts \cup {None}
        THEN /\ display' = [display EXCEPT !.layouts = layouts,
                                           !.prepared = prepared]
             /\ UNCHANGED <<binding, handshake, gate, active, applied, motion,
                            silence, fault, ledger, mapping, outside>>
        ELSE /\ display' = [layouts |-> layouts, prepared |-> prepared,
                            active |-> None]
             /\ \E failed \in Failures(ReleaseAll(ledger)) :
                   CloseSession(ledger, failed, "LayoutChanged")
             /\ handshake' = Aborted(active)
             /\ UNCHANGED <<binding, applied, mapping, healthy, pointer,
                            issued>>

-----------------------------------------------------------------------------
(* ReceiverHandshake::handle: which frames a state answers, and the state   *)
(* after them.  Every other frame is refused and changes nothing.           *)

AfterHello(b) == [state |-> "Idle", boot |-> b]

HandshakeBoot ==
    IF handshake.state \in {"Idle", "Prepared"} THEN handshake.boot
    ELSE handshake.session.boot

AnswersPrepare == handshake.state \in {"Idle", "Ended"}

AfterPrepare(request) ==
    [state |-> "Prepared", boot |-> HandshakeBoot, request |-> request]

ActiveIn(session) == [state |-> "Active", session |-> session]

\* The Commit of the prepared request, or of the active session once more.
AnswersCommit(session) ==
    \/ /\ handshake.state = "Prepared"
       /\ handshake.request = session.request
       /\ handshake.boot = session.boot
    \/ handshake = ActiveIn(session)

AnswersPing(session) == handshake = ActiveIn(session)

AnswersEnd(session) ==
    /\ handshake.state \in {"Active", "Ended"}
    /\ handshake.session = session

AfterEnd(session) == [state |-> "Ended", session |-> session]

-----------------------------------------------------------------------------
(* Control frames, handle_control_at.                                      *)

\* Hello: refused while a session is active; a failed release refuses it too.
Hello(c, b) ==
    /\ active = None
    /\ \E failed \in Failures(ReleaseAll(ledger)) :
          /\ ReleasePressed(ledger, failed)
          /\ fault' = FaultAfter(failed, fault)
          /\ IF NoFailure(failed)
             THEN /\ binding' = c
                  /\ handshake' = AfterHello(b)
                  /\ applied' = 0
                  /\ motion' = NoMotion
                  /\ display' = [display EXCEPT !.prepared = None,
                                                !.active = None]
             ELSE UNCHANGED <<binding, handshake, applied, motion, display>>
    /\ UNCHANGED <<gate, active, silence, mapping, healthy, pointer, issued,
                   retired, down>>

\* Prepare: the display is looked up before the handshake has its say, so a
\* refused Prepare still replaces the prepared display.
Prepare(c, request, d) ==
    LET found == IF d \in display.layouts THEN d ELSE None
    IN  /\ binding = c
        /\ request \in {issued[HandshakeBoot], issued[HandshakeBoot] + 1}
        /\ issued' = [issued EXCEPT ![HandshakeBoot] = request]
        /\ display' = [display EXCEPT !.prepared = found]
        /\ IF found # None /\ AnswersPrepare
           THEN handshake' = AfterPrepare(request) ELSE UNCHANGED handshake
        /\ UNCHANGED <<binding, gate, active, applied, motion, silence, fault,
                       ledger, mapping, healthy, os, pointer, retired, down>>

\* Fault: the gate forgets which session it ended.
GateRefusesNothing(session) == FALSE

\* InputSessionGate::activate.
GateRefuses(session) == gate.ended = session

\* Fault: the runtime activates over input that is still held.
MayActivateHeld(session) == ~GateRefuses(session)

\* A CommitAck that finds no session active.
MayActivate(session) == IsEmpty(ledger) /\ ~GateRefuses(session)

\* Commit in Prepared: the handshake is Active even if the runtime refuses.
CommitPrepared(c, session) ==
    /\ binding = c
    /\ AnswersCommit(session)
    /\ active = None
    /\ display.prepared # None
    /\ handshake' = ActiveIn(session)
    /\ IF MayActivate(session)
       THEN /\ gate' = [gate EXCEPT !.active = session, !.next = 1]
            /\ active' = session
            /\ display' = [display EXCEPT !.active = display.prepared,
                                          !.prepared = None]
            /\ applied' = 0
            /\ motion' = NoMotion
            /\ silence' = 0
            /\ fault' = None
            /\ pointer' = NoPointer
       ELSE UNCHANGED <<gate, active, display, applied, motion, silence,
                        fault, pointer>>
    /\ UNCHANGED <<binding, ledger, mapping, healthy, os, issued,
                   retired, down>>

\* Ping, and a Commit that comes again: only the lease is renewed.
Renew(c, session) ==
    /\ binding = c
    /\ active = session
    /\ AnswersPing(session)
    /\ silence' = 0
    /\ UNCHANGED <<binding, handshake, gate, active, applied, motion, display,
                   fault, ledger, mapping, outside>>

\* EndSession for the session of the handshake, active in the runtime or not.
EndSession(c, session) ==
    /\ binding = c
    /\ AnswersEnd(session)
    /\ handshake' = AfterEnd(session)
    /\ \E failed \in Failures(ReleaseAll(ledger)) :
          IF active = session
          THEN /\ CloseSession(ledger, failed, fault)
               /\ display' = [display EXCEPT !.active = None]
          ELSE /\ ReleasePressed(ledger, failed)
               /\ fault' = FaultAfter(failed, fault)
               /\ UNCHANGED <<gate, active, motion, display, silence,
                              retired, down>>
    /\ UNCHANGED <<binding, applied, mapping, healthy, pointer, issued>>

-----------------------------------------------------------------------------
(* Input: handle_input_at for the reliable stream, handle_motion_at for     *)
(* datagrams.  Positions are named by the motion sample they come from.     *)

\* InputSessionGate::accept; the last number has no successor.
Accepts(session, seq) ==
    /\ gate.active = session
    /\ seq = gate.next
    /\ seq < MaxSeq

\* remap_modifier_vk: the target a key has under the mapping in force.
Remapped(key) == mapping[key]

\* map_active_pointer: positions are those of the active display.
OnDisplay == display.active # None

\* A position older than one already applied is refused; 0 is no sample.
Carries(e) == e.kind # "Key"
TooOld(e) == Carries(e) /\ e.motion # 0 /\ e.motion < motion.highest

AfterEvent(e) ==
    CASE e.kind = "Key" ->
           AfterKey(ledger, Source(e.key, Remapped(e.key)),
                    Remapped(e.key), e.down)
      [] e.kind = "Button" -> AfterButton(ledger, e.button, e.down)
      [] e.kind = "Scroll" -> ledger

\* A key event may command nothing; the others move the pointer at least.
Commands(e) == Carries(e) \/ HeldTargets(AfterEvent(e)) # HeldTargets(ledger)

\* The physical keys held, as a user would count them.
AfterPhysical(e) ==
    IF e.kind # "Key" THEN down
    ELSE IF ~e.down THEN {held \in down : held.key # e.key}
    ELSE IF \E held \in down : held.key = e.key THEN down
    ELSE down \cup {[key |-> e.key, target |-> Remapped(e.key)]}

Applied(e) ==
    LET pressed == Presses(ledger, AfterEvent(e))
        released == Releases(ledger, AfterEvent(e))
    IN  [keys |-> (os.keys \cup pressed.keys) \ released.keys,
         buttons |-> (os.buttons \cup pressed.buttons) \ released.buttons]

\* abort_after_injector_failure with the ledger put back to `held' and the
\* system at `reached' when the command failed.
AbortInjection(held, reached, failed) ==
    LET commands == ReleaseAll(held)
    IN  /\ gate' = GateEnded(active)
        /\ handshake' = Aborted(active)
        /\ active' = None
        /\ silence' = 0
        /\ motion' = NoMotion
        /\ fault' = FaultAfter(failed, "Injector")
        /\ os' = Released(reached, commands, failed)
        /\ ledger' = IF NoFailure(failed) THEN EmptyLedger ELSE held
        /\ retired' = retired \cup ({active} \ {None})
        /\ down' = {}

\* Fault: a due motion is applied without looking at newer positions.
FlushedBlindly(seq, highest) ==
    LET due == motion.pending # None /\ motion.pending.required <= seq
    IN  [pending |-> IF due THEN None ELSE motion.pending, moves |-> due]

\* flush_pending_motion, after sequence seq was applied.
Flushed(seq, highest) ==
    LET due == motion.pending # None /\ motion.pending.required <= seq
    IN  [pending |-> IF due THEN None ELSE motion.pending,
         moves |-> due /\ motion.pending.seq > highest]

\* Where the pointer is after the event.
PointerAfter(e) ==
    IF Carries(e) THEN [seq |-> e.motion, required |-> 0] ELSE pointer

Sampled(e) == IF Carries(e) THEN e.motion ELSE 0
Later(m, n) == IF m > n THEN m ELSE n

\* A reliable event that is injected, and the buffered motion it was holding.
ApplyInput(c, session, seq, e) ==
    LET highest == Later(motion.highest, Sampled(e))
        flush == Flushed(seq, highest)
    IN  /\ binding = c
        /\ ~TooOld(e)
        /\ Carries(e) => OnDisplay
        /\ Accepts(session, seq)
        /\ gate' = [gate EXCEPT !.next = @ + 1]
        /\ ledger' = AfterEvent(e)
        /\ os' = Applied(e)
        /\ applied' = seq
        /\ down' = AfterPhysical(e)
        /\ silence' = 0
        /\ motion' = [highest |-> IF flush.moves THEN motion.pending.seq
                                  ELSE highest,
                      pending |-> flush.pending]
        /\ pointer' = IF flush.moves THEN motion.pending ELSE PointerAfter(e)
        /\ UNCHANGED <<binding, handshake, active, display, fault, mapping,
                       healthy, issued, retired>>

\* The same with an injector that fails, at the event or at the motion.
FailInput(c, session, seq, e) ==
    LET highest == Later(motion.highest, Sampled(e))
    IN  /\ binding = c
        /\ ~healthy
        /\ ~TooOld(e)
        /\ Carries(e) => OnDisplay
        /\ Accepts(session, seq)
        /\ \/ /\ Commands(e)
              /\ applied' = applied
              /\ pointer' \in IF e.kind = "Scroll"
                             THEN {pointer, PointerAfter(e)} ELSE {pointer}
              /\ \E failed \in Failures(ReleaseAll(ledger)) :
                    AbortInjection(ledger, os, failed)
           \/ /\ Flushed(seq, highest).moves
              /\ applied' = seq
              /\ pointer' = PointerAfter(e)
              /\ \E failed \in Failures(ReleaseAll(AfterEvent(e))) :
                    AbortInjection(AfterEvent(e), Applied(e), failed)
        /\ UNCHANGED <<binding, display, mapping, healthy, issued>>

MotionDue(m) == m.required <= applied

\* apply_motion, when the injector takes it.
ApplyMotion(m) ==
    /\ motion' = [motion EXCEPT !.highest = m.seq]
    /\ pointer' = m

\* A motion sample: refused if it is not newer, buffered if it depends on
\* events that have not been applied, applied otherwise.
ReceiveMotion(c, session, m) ==
    /\ binding = c
    /\ active = session
    /\ m.seq > motion.highest
    /\ OnDisplay
    /\ IF MotionDue(m)
       THEN \/ /\ ApplyMotion(m)
               /\ silence' = 0
               /\ UNCHANGED <<handshake, gate, active, fault, ledger, os,
                              retired, down>>
            \/ /\ ~healthy
               /\ \E failed \in Failures(ReleaseAll(ledger)) :
                     AbortInjection(ledger, os, failed)
               /\ UNCHANGED pointer
       ELSE /\ motion' = [motion EXCEPT !.pending =
                            IF @ = None THEN m
                            ELSE IF m.seq > @.seq THEN m ELSE @]
            /\ silence' = 0
            /\ UNCHANGED <<handshake, gate, active, fault, ledger, os,
                           pointer, retired, down>>
    /\ UNCHANGED <<binding, applied, display, mapping, healthy, issued>>

-----------------------------------------------------------------------------
(* The rest of the world.                                                  *)

\* update_modifier_mapping, before every input, with the current setting.
UpdateModifierMapping(m) ==
    /\ mapping # m
    /\ mapping' = m
    /\ UNCHANGED <<binding, handshake, gate, active, applied, motion, display,
                   silence, fault, ledger, outside>>

\* Accessibility permission and secure input come and go.
InjectorChanges ==
    /\ healthy' = ~healthy
    /\ UNCHANGED <<runtime, os, pointer, issued, retired, down>>

Tick ==
    /\ active # None
    /\ silence < Lease
    /\ silence' = silence + 1
    /\ UNCHANGED <<binding, handshake, gate, active, applied, motion, display,
                   fault, ledger, mapping, outside>>

Frame ==
    \E c \in Connections :
        \/ \E b \in Boots : Hello(c, b)
        \/ \E request \in Requests, d \in Displays : Prepare(c, request, d)
        \/ \E s \in Sessions :
              \/ CommitPrepared(c, s)
              \/ Renew(c, s)
              \/ EndSession(c, s)
              \/ \E seq \in 1..MaxSeq, e \in Events :
                    ApplyInput(c, s, seq, e) \/ FailInput(c, s, seq, e)
              \/ \E m \in Motions : ReceiveMotion(c, s, m)

Environment ==
    \/ \E c \in Connections : InputStreamClosed(c)
    \/ \E layouts \in SUBSET Displays : UpdateDisplayLayouts(layouts)
    \/ \E m \in Mappings : UpdateModifierMapping(m)
    \/ InjectorChanges

Next == Frame \/ Environment \/ Expire \/ Tick

Spec == Init /\ [][Next]_vars

\* The health thread wakes every 100 ms as long as the runtime lives.
FairSpec == Spec /\ WF_vars(Tick) /\ WF_vars(Expire)

-----------------------------------------------------------------------------
(* Properties.                                                             *)

\* The runtime, its handshake and its input gate name the same session, which
\* has a display and no fault to report; no end forgets one of them.
SessionAgreement ==
    /\ gate.active = active
    /\ active # None =>
          /\ handshake = ActiveIn(active)
          /\ display.active # None
          /\ binding # None
          /\ fault = None

\* Nothing stays pressed that the ledger has lost: whatever fails half-way,
\* every key and button the system holds can still be released.
HeldIsRecorded ==
    /\ os.keys \subseteq HeldTargets(ledger)
    /\ os.buttons \subseteq ledger.buttons

\* During a session every target the system holds belongs to a physical key
\* that is down, frozen at its press: a mapping changed meanwhile leaves no
\* key stuck.
NoStuckKey == active # None => os.keys \subseteq {held.target : held \in down}

\* And as long as one of its physical keys is down, a target stays held.
NoEarlyRelease ==
    active # None => {held.target : held \in down} \subseteq os.keys

\* Every accepted event is applied, in order, before the next is accepted.
NothingSkipped == active # None => gate.next = applied + 1

\* A pointer position that depends on reliable events waits for them, in the
\* slot of pending motion if need be.
MotionAfterInput == active # None => pointer.required <= applied

\* A session that ended is not revived by frames that arrive late.
RetiredStaysRetired == active \notin retired

\* What the runtime knows of the session in force: every end forgets all of it
\* and no late frame brings it back.
SessionInv == TypeOK /\ SessionAgreement /\ NothingSkipped /\ RetiredStaysRetired

\* What the receiver holds is what the user holds, key for key.
KeysFollowHands == NoStuckKey /\ NoEarlyRelease

\* A session starts on a machine where nothing is held.
CleanStart ==
    [][active = None /\ active' # None
         => os.keys = {} /\ os.buttons = {}]_vars

\* A late datagram, or one that waited in the slot, never drags the pointer
\* back behind a position already applied (0 stands for no sample).
PointerNeverOlder ==
    active # None /\ active' = active => pointer'.seq >= pointer.seq \/ pointer'.seq = 0

\* Two streams of one session, a reliable and a lossy one, act in one order.
MotionKeepsOrder == [][MotionAfterInput' /\ PointerNeverOlder]_vars

\* A controller that no longer renews its lease loses its session, whatever
\* frames of other kinds keep coming and whatever else happens.
SilenceEnds ==
    <>[][active' # None => active' = active /\ silence' >= silence]_vars
        => <>[](active = None)

\* What T07a says of a failed release: a later End or health task retries it.
HeldIsReleased ==
    <>[](healthy /\ active = None) => <>[](os.keys = {} /\ os.buttons = {})
=============================================================================
