--------------------------- MODULE ReceiverProofs ---------------------------
(***************************************************************************)
(* Proofs about ReceiverSession for every value of its constants: what the  *)
(* runtime, its handshake and its gate know of a session belongs together,  *)
(* what the system holds is recorded, and reliable and lossy input act in   *)
(* one order.                                                               *)
(***************************************************************************)
EXTENDS ReceiverSession, TLAPS

-----------------------------------------------------------------------------
(* The ledger (pressed_state.rs).                                          *)

\* release_all: one release per held target and button, and nothing else.
LEMMA ReleasesAll ==
    ASSUME NEW l
    PROVE  /\ ReleaseAll(l).keys = HeldTargets(l)
           /\ ReleaseAll(l).buttons = l.buttons
  <1>1. HeldTargets(EmptyLedger) = {}
    BY DEF HeldTargets, EmptyLedger
  <1>2. EmptyLedger.buttons = {}
    BY DEF EmptyLedger
  <1> QED
    BY <1>1, <1>2 DEF ReleaseAll, Releases, Presses

\* The empty ledger is a ledger and holds nothing.
LEMMA EmptyIsLedger == EmptyLedger \in Ledgers /\ IsEmpty(EmptyLedger)
  BY DEF EmptyLedger, Ledgers, IsEmpty

\* What a ledger holds are targets.
LEMMA TargetsOfLedger ==
    ASSUME NEW l \in Ledgers PROVE HeldTargets(l) \subseteq Targets
  BY DEF HeldTargets, Ledgers, HeldKeys

\* apply_key and apply_button keep a ledger a ledger.
LEMMA KeyKeepsLedger ==
    ASSUME NEW l \in Ledgers, NEW s \in Sources, NEW t \in Targets,
           NEW d \in BOOLEAN
    PROVE  AfterKey(l, s, t, d) \in Ledgers
  <1>1. [source |-> s, target |-> t] \in HeldKeys
    BY DEF HeldKeys
  <1>2. AfterKey(l, s, t, d).keys \subseteq HeldKeys
    BY <1>1 DEF AfterKey, KeysWithout, Ledgers
  <1> QED
    BY <1>2 DEF AfterKey, Ledgers

\* A button pressed or released leaves a ledger.
LEMMA ButtonKeepsLedger ==
    ASSUME NEW l \in Ledgers, NEW b \in Buttons, NEW d \in BOOLEAN
    PROVE  AfterButton(l, b, d) \in Ledgers
  BY DEF AfterButton, Ledgers

\* The source of a key is a source of the ledger.
LEMMA SourceIsSource ==
    ASSUME NEW k \in Keys, NEW t \in Targets PROVE Source(k, t) \in Sources
  BY DEF Source, Sources

-----------------------------------------------------------------------------
(* Type correctness.                                                       *)

\* The bounds of the receiver are positive numbers.
LEMMA Constants ==
    /\ MaxRequest \in Nat \ {0} /\ MaxSeq \in Nat \ {0}
    /\ MaxMotion \in Nat \ {0} /\ Lease \in Nat \ {0}
  BY ReceiverAssumption

\* handle: the states a frame leads to are states of the handshake.
LEMMA HandshakeStates ==
    /\ \A b \in Boots : AfterHello(b) \in Handshakes
    /\ \A s \in Sessions : ActiveIn(s) \in Handshakes /\ AfterEnd(s) \in Handshakes
    /\ handshake \in Handshakes =>
          \A s : Aborted(s) \in Handshakes
  <1>1. \A s \in Sessions : ActiveIn(s) \in Handshakes /\ AfterEnd(s) \in Handshakes
    BY DEF Handshakes, ActiveIn, AfterEnd
  <1>2. ASSUME handshake \in Handshakes, NEW s PROVE Aborted(s) \in Handshakes
    <2>1. CASE handshake = [state |-> "Active", session |-> s]
      <3>1. handshake.state = "Active" /\ handshake.session = s
        BY <2>1
      <3>2. s \in Sessions
        BY <1>2, <3>1 DEF Handshakes
      <3> QED
        BY <2>1, <3>2, <1>1 DEF Aborted, AfterEnd
    <2> QED
      BY <1>2, <2>1 DEF Aborted
  <1> QED
    BY <1>1, <1>2 DEF AfterHello, Handshakes

\* Once a Hello has come, the handshake belongs to a process of the peer.
LEMMA BootOfHandshake ==
    ASSUME handshake \in Handshakes, handshake.state # "none"
    PROVE  HandshakeBoot \in Boots
  <1>1. CASE handshake.state \in {"Idle", "Prepared"}
    BY <1>1 DEF Handshakes, HandshakeBoot
  <1>2. CASE handshake.state \in {"Active", "Ended"}
    <2>1. handshake.session \in Sessions
      BY <1>2 DEF Handshakes
    <2> QED
      BY <1>2, <2>1 DEF HandshakeBoot, Sessions
  <1> QED
    BY <1>1, <1>2 DEF Handshakes

\* Releasing, whatever fails of it, leaves the system in a state it can be in.
LEMMA ReleaseTypes ==
    ASSUME NEW held \in Ledgers, NEW commands, NEW failed,
           NEW reached \in [keys : SUBSET Targets, buttons : SUBSET Buttons]
    PROVE  /\ Released(reached, commands, failed)
                \in [keys : SUBSET Targets, buttons : SUBSET Buttons]
           /\ (IF NoFailure(failed) THEN EmptyLedger ELSE held) \in Ledgers
  <1>1. Released(reached, commands, failed)
          \in [keys : SUBSET Targets, buttons : SUBSET Buttons]
    BY DEF Released
  <1> QED
    BY <1>1, EmptyIsLedger

\* The parts of the type invariant that the end of a session touches.
EndTypes ==
    /\ gate \in [active : Sessions \cup {None}, next : 1..MaxSeq,
                 ended : Sessions \cup {None}]
    /\ active \in Sessions \cup {None}
    /\ motion \in [highest : 0..MaxMotion, pending : Motions \cup {None}]
    /\ silence \in 0..Lease
    /\ fault \in Faults \cup {None}
    /\ ledger \in Ledgers
    /\ os \in [keys : SUBSET Targets, buttons : SUBSET Buttons]
    /\ retired \in SUBSET Sessions
    /\ down \in SUBSET [key : Keys, target : Targets]

\* The gate of a session that ended has its type.
LEMMA GateTypes ==
    TypeOK => GateEnded(active) \in [active : Sessions \cup {None},
                                     next : 1..MaxSeq,
                                     ended : Sessions \cup {None}]
  <1> SUFFICES ASSUME TypeOK
               PROVE  GateEnded(active) \in [active : Sessions \cup {None},
                                             next : 1..MaxSeq,
                                             ended : Sessions \cup {None}]
    OBVIOUS
  <1>1. 1 \in 1..MaxSeq
    BY Constants
  <1>2. CASE gate.active = active /\ active # None
    <2>1. GateEnded(active)
            = [gate EXCEPT !.active = None, !.next = 1, !.ended = active]
      BY <1>2 DEF GateEnded
    <2> QED
      BY <1>1, <2>1 DEF TypeOK
  <1>3. CASE ~(gate.active = active /\ active # None)
    BY <1>3 DEF GateEnded, TypeOK
  <1> QED
    BY <1>2, <1>3

\* The motion state with nothing pending has its type.
LEMMA NoMotionType ==
    NoMotion \in [highest : 0..MaxMotion, pending : Motions \cup {None}]
  BY Constants DEF NoMotion

\* What a failure leaves as the fault has its type.
LEMMA FaultTypes ==
    ASSUME NEW failed, NEW why \in Faults \cup {None}
    PROVE  FaultAfter(failed, why) \in Faults \cup {None}
  BY DEF FaultAfter, Faults

\* CloseSession, common to every end.
LEMMA CloseSessionTypes ==
    ASSUME TypeOK, NEW failed, NEW why \in Faults \cup {None},
           CloseSession(ledger, failed, why)
    PROVE  EndTypes'
  <1>1. gate' \in [active : Sessions \cup {None}, next : 1..MaxSeq,
                   ended : Sessions \cup {None}]
    BY GateTypes DEF CloseSession
  <1>2. /\ active' \in Sessions \cup {None}
        /\ silence' \in 0..Lease
        /\ retired' \in SUBSET Sessions
        /\ down' \in SUBSET [key : Keys, target : Targets]
    BY Constants DEF CloseSession, TypeOK
  <1>3. motion' \in [highest : 0..MaxMotion, pending : Motions \cup {None}]
    BY NoMotionType DEF CloseSession
  <1>4. fault' \in Faults \cup {None}
    BY FaultTypes DEF CloseSession
  <1>5. /\ ledger' \in Ledgers
        /\ os' \in [keys : SUBSET Targets, buttons : SUBSET Buttons]
    BY ReleaseTypes DEF CloseSession, ReleasePressed, TypeOK
  <1> QED
    BY <1>1, <1>2, <1>3, <1>4, <1>5 DEF EndTypes

\* abort_after_injector_failure, from any ledger and system it is reached with.
LEMMA AbortInjectionTypes ==
    ASSUME TypeOK, NEW held \in Ledgers, NEW failed,
           NEW reached \in [keys : SUBSET Targets, buttons : SUBSET Buttons],
           AbortInjection(held, reached, failed)
    PROVE  EndTypes' /\ handshake' \in Handshakes
  <1>1. gate' \in [active : Sessions \cup {None}, next : 1..MaxSeq,
                   ended : Sessions \cup {None}]
    BY GateTypes DEF AbortInjection
  <1>2. /\ active' \in Sessions \cup {None}
        /\ silence' \in 0..Lease
        /\ retired' \in SUBSET Sessions
        /\ down' \in SUBSET [key : Keys, target : Targets]
    BY Constants DEF AbortInjection, TypeOK
  <1>3. motion' \in [highest : 0..MaxMotion, pending : Motions \cup {None}]
    BY NoMotionType DEF AbortInjection
  <1>4. fault' \in Faults \cup {None}
    <2>1. "Injector" \in Faults \cup {None}
      BY DEF Faults
    <2> QED
      BY <2>1, FaultTypes DEF AbortInjection
  <1>5. /\ ledger' \in Ledgers
        /\ os' \in [keys : SUBSET Targets, buttons : SUBSET Buttons]
    BY ReleaseTypes DEF AbortInjection
  <1>6. handshake' \in Handshakes
    BY HandshakeStates DEF AbortInjection, TypeOK
  <1> QED
    BY <1>1, <1>2, <1>3, <1>4, <1>5, <1>6 DEF EndTypes

\* A reliable event keeps the ledger, the system and the keys what they are.
LEMMA EventTypes ==
    ASSUME TypeOK, NEW e \in Events
    PROVE  /\ AfterEvent(e) \in Ledgers
           /\ Applied(e) \in [keys : SUBSET Targets, buttons : SUBSET Buttons]
           /\ AfterPhysical(e) \in SUBSET [key : Keys, target : Targets]
  <1>1. e.kind = "Key" => /\ e.key \in Keys
                          /\ e.down \in BOOLEAN
                          /\ Remapped(e.key) \in Targets
    BY ReceiverAssumption DEF TypeOK, Events, Remapped
  <1>2. e.kind = "Button" => e.button \in Buttons /\ e.down \in BOOLEAN
    BY DEF Events
  <1>3. AfterEvent(e) \in Ledgers
    <2>1. CASE e.kind = "Key"
      <3>1. Source(e.key, Remapped(e.key)) \in Sources
        BY <1>1, <2>1, SourceIsSource
      <3> QED
        BY <1>1, <2>1, <3>1, KeyKeepsLedger DEF AfterEvent, TypeOK
    <2>2. CASE e.kind = "Button"
      BY <1>2, <2>2, ButtonKeepsLedger DEF AfterEvent, TypeOK
    <2>3. CASE e.kind = "Scroll"
      BY <2>3 DEF AfterEvent, TypeOK
    <2> QED
      BY <2>1, <2>2, <2>3 DEF Events
  <1>4. Applied(e) \in [keys : SUBSET Targets, buttons : SUBSET Buttons]
    <2>1. HeldTargets(AfterEvent(e)) \subseteq Targets
      BY <1>3, TargetsOfLedger
    <2>2. AfterEvent(e).buttons \subseteq Buttons
      BY <1>3 DEF Ledgers
    <2> QED
      BY <2>1, <2>2 DEF Applied, Presses, Releases, TypeOK
  <1>5. AfterPhysical(e) \in SUBSET [key : Keys, target : Targets]
    BY <1>1 DEF AfterPhysical, TypeOK
  <1> QED
    BY <1>3, <1>4, <1>5

-----------------------------------------------------------------------------
(* What a step keeps beside the types.                                     *)

\* Before the first Hello no connection is bound, and no frame is looked at.
BoundPart == handshake.state = "none" => binding = None

\* Control frames.
LEMMA HelloType ==
    ASSUME TypeOK, NEW c \in Connections, NEW b \in Boots, Hello(c, b)
    PROVE  TypeOK'
  <1>1. PICK failed \in Failures(ReleaseAll(ledger)) :
          /\ ReleasePressed(ledger, failed)
          /\ fault' = FaultAfter(failed, fault)
          /\ IF NoFailure(failed)
             THEN /\ binding' = c
                  /\ handshake' = AfterHello(b)
                  /\ applied' = 0
                  /\ motion' = NoMotion
                  /\ display' = [display EXCEPT !.prepared = None,
                                                !.active = None]
             ELSE UNCHANGED <<binding, handshake, applied, motion, display>>
    BY DEF Hello
  <1>2. /\ ledger' \in Ledgers
        /\ os' \in [keys : SUBSET Targets, buttons : SUBSET Buttons]
    BY <1>1, ReleaseTypes DEF ReleasePressed, TypeOK
  <1>3. fault' \in Faults \cup {None}
    BY <1>1, FaultTypes DEF TypeOK
  <1>4. /\ binding' \in Connections \cup {None}
        /\ handshake' \in Handshakes
        /\ applied' \in 0..MaxSeq
        /\ motion' \in [highest : 0..MaxMotion, pending : Motions \cup {None}]
        /\ display' \in [layouts : SUBSET Displays,
                         prepared : Displays \cup {None},
                         active : Displays \cup {None}]
    <2>1. CASE NoFailure(failed)
      <3>1. binding' \in Connections \cup {None} /\ handshake' \in Handshakes
        BY <1>1, <2>1, HandshakeStates
      <3>2. applied' \in 0..MaxSeq
        BY <1>1, <2>1, Constants
      <3>3. motion' \in [highest : 0..MaxMotion, pending : Motions \cup {None}]
        BY <1>1, <2>1, NoMotionType
      <3>4. display' = [display EXCEPT !.prepared = None, !.active = None]
        BY <1>1, <2>1
      <3>5. display' \in [layouts : SUBSET Displays,
                          prepared : Displays \cup {None},
                          active : Displays \cup {None}]
        BY <3>4 DEF TypeOK
      <3> QED
        BY <3>1, <3>2, <3>3, <3>5
    <2>2. CASE ~NoFailure(failed)
      BY <1>1, <2>2 DEF TypeOK
    <2> QED
      BY <2>1, <2>2
  <1> QED
    BY <1>2, <1>3, <1>4 DEF Hello, TypeOK

\* Prepare keeps the types.
LEMMA PrepareType ==
    ASSUME TypeOK, BoundPart, NEW c \in Connections, NEW request \in Requests,
           NEW d \in Displays, Prepare(c, request, d)
    PROVE  TypeOK'
  <1>1. HandshakeBoot \in Boots
    BY BootOfHandshake, ReceiverAssumption DEF Prepare, BoundPart, TypeOK
  <1>2. handshake' \in Handshakes
    <2>1. AfterPrepare(request) \in Handshakes
      BY <1>1 DEF AfterPrepare, Handshakes
    <2> QED
      BY <2>1 DEF Prepare, TypeOK
  <1>3. issued' \in [Boots -> 0..MaxRequest]
    BY <1>1, Constants DEF Prepare, TypeOK, Requests
  <1>4. display' \in [layouts : SUBSET Displays,
                      prepared : Displays \cup {None},
                      active : Displays \cup {None}]
    BY DEF Prepare, TypeOK
  <1> QED
    BY <1>2, <1>3, <1>4 DEF Prepare, TypeOK

\* The commit of a prepared session keeps the types.
LEMMA CommitType ==
    ASSUME TypeOK, NEW c \in Connections, NEW s \in Sessions,
           CommitPrepared(c, s)
    PROVE  TypeOK'
  <1>1. handshake' \in Handshakes
    BY HandshakeStates DEF CommitPrepared
  <1>2. CASE MayActivate(s)
    <2>1. gate' \in [active : Sessions \cup {None}, next : 1..MaxSeq,
                     ended : Sessions \cup {None}]
      <3>1. gate' = [gate EXCEPT !.active = s, !.next = 1]
        BY <1>2 DEF CommitPrepared
      <3>2. 1 \in 1..MaxSeq
        BY Constants
      <3> QED
        BY <3>1, <3>2 DEF TypeOK
    <2>2. /\ active' \in Sessions \cup {None}
          /\ applied' \in 0..MaxSeq
          /\ silence' \in 0..Lease
          /\ fault' \in Faults \cup {None}
          /\ pointer' \in [seq : 0..MaxMotion, required : 0..MaxSeq]
      BY <1>2, Constants DEF CommitPrepared, NoPointer
    <2>3. display' \in [layouts : SUBSET Displays,
                        prepared : Displays \cup {None},
                        active : Displays \cup {None}]
      BY <1>2 DEF CommitPrepared, TypeOK
    <2>4. motion' \in [highest : 0..MaxMotion, pending : Motions \cup {None}]
      BY <1>2, NoMotionType DEF CommitPrepared
    <2> QED
      BY <1>1, <2>1, <2>2, <2>3, <2>4 DEF CommitPrepared, TypeOK
  <1>3. CASE ~MayActivate(s)
    BY <1>1, <1>3 DEF CommitPrepared, TypeOK
  <1> QED
    BY <1>2, <1>3

\* EndSession keeps the types.
LEMMA EndSessionType ==
    ASSUME TypeOK, NEW c \in Connections, NEW s \in Sessions,
           EndSession(c, s)
    PROVE  TypeOK'
  <1>1. handshake' \in Handshakes
    BY HandshakeStates DEF EndSession
  <1>2. CASE active = s
    <2>1. PICK failed \in Failures(ReleaseAll(ledger)) :
            CloseSession(ledger, failed, fault)
      BY <1>2 DEF EndSession
    <2>2. EndTypes'
      BY <2>1, CloseSessionTypes DEF TypeOK
    <2>3. display' = [display EXCEPT !.active = None]
      BY <1>2 DEF EndSession
    <2>4. display' \in [layouts : SUBSET Displays,
                        prepared : Displays \cup {None},
                        active : Displays \cup {None}]
      BY <2>3 DEF TypeOK
    <2> QED
      BY <1>1, <2>2, <2>4 DEF EndSession, EndTypes, TypeOK
  <1>3. CASE active # s
    <2>1. PICK failed \in Failures(ReleaseAll(ledger)) :
            /\ ReleasePressed(ledger, failed)
            /\ fault' = FaultAfter(failed, fault)
            /\ UNCHANGED <<gate, active, motion, display, silence, retired,
                           down>>
      BY <1>3 DEF EndSession
    <2>2. /\ ledger' \in Ledgers
          /\ os' \in [keys : SUBSET Targets, buttons : SUBSET Buttons]
      BY <2>1, ReleaseTypes DEF ReleasePressed, TypeOK
    <2>3. fault' \in Faults \cup {None}
      BY <2>1, FaultTypes DEF TypeOK
    <2> QED
      BY <1>1, <2>1, <2>2, <2>3 DEF EndSession, TypeOK
  <1> QED
    BY <1>2, <1>3

\* Input and motion.
LEMMA FlushedTypes ==
    ASSUME TypeOK, NEW seq, NEW highest \in 0..MaxMotion
    PROVE  /\ Flushed(seq, highest).pending \in Motions \cup {None}
           /\ Flushed(seq, highest).moves =>
                 /\ motion.pending \in Motions
                 /\ motion.pending.required <= seq
                 /\ motion.pending.seq > highest
  BY DEF Flushed, TypeOK

\* The motion an event samples, and the pointer after it, have their types.
LEMMA SampledTypes ==
    ASSUME TypeOK, NEW e \in Events
    PROVE  /\ Sampled(e) \in 0..MaxMotion
           /\ Later(motion.highest, Sampled(e)) \in 0..MaxMotion
           /\ PointerAfter(e) \in [seq : 0..MaxMotion, required : 0..MaxSeq]
  <1>1. Carries(e) => e.motion \in 0..MaxMotion
    BY DEF Carries, Events
  <1>2. Sampled(e) \in 0..MaxMotion
    BY <1>1, Constants DEF Sampled
  <1>3. Later(motion.highest, Sampled(e)) \in 0..MaxMotion
    BY <1>2 DEF Later, TypeOK
  <1>4. PointerAfter(e) \in [seq : 0..MaxMotion, required : 0..MaxSeq]
    BY <1>1, Constants DEF PointerAfter, TypeOK
  <1> QED
    BY <1>2, <1>3, <1>4

\* A motion is a pointer: a sequence number and the input it requires.
LEMMA MotionIsPointer == Motions \subseteq [seq : 0..MaxMotion, required : 0..MaxSeq]
  BY Constants DEF Motions

\* An input applied keeps the types.
LEMMA ApplyInputType ==
    ASSUME TypeOK, NEW c \in Connections, NEW s \in Sessions,
           NEW seq \in 1..MaxSeq, NEW e \in Events, ApplyInput(c, s, seq, e)
    PROVE  TypeOK'
  <1> DEFINE highest == Later(motion.highest, Sampled(e))
             flush == Flushed(seq, highest)
  <1>1. highest \in 0..MaxMotion
    BY SampledTypes
  <1>2. /\ flush.pending \in Motions \cup {None}
        /\ flush.moves => motion.pending \in Motions
    BY <1>1, FlushedTypes
  <1> HIDE DEF highest, flush
  <1>3. gate' \in [active : Sessions \cup {None}, next : 1..MaxSeq,
                   ended : Sessions \cup {None}]
    <2>1. gate' = [gate EXCEPT !.next = gate.next + 1] /\ gate.next < MaxSeq
      BY DEF ApplyInput, Accepts
    <2>2. gate.next + 1 \in 1..MaxSeq
      BY <2>1, Constants DEF TypeOK
    <2> QED
      BY <2>1, <2>2 DEF TypeOK
  <1>4. /\ ledger' \in Ledgers
        /\ os' \in [keys : SUBSET Targets, buttons : SUBSET Buttons]
        /\ down' \in SUBSET [key : Keys, target : Targets]
    BY EventTypes DEF ApplyInput
  <1>5. motion' \in [highest : 0..MaxMotion, pending : Motions \cup {None}]
    <2>1. motion' = [highest |-> IF flush.moves THEN motion.pending.seq
                                 ELSE highest,
                     pending |-> flush.pending]
      BY DEF ApplyInput, highest, flush
    <2>2. flush.moves => motion.pending.seq \in 0..MaxMotion
      BY <1>2, MotionIsPointer
    <2> QED
      BY <1>1, <1>2, <2>1, <2>2
  <1>6. pointer' \in [seq : 0..MaxMotion, required : 0..MaxSeq]
    <2>1. pointer' = IF flush.moves THEN motion.pending ELSE PointerAfter(e)
      BY DEF ApplyInput, highest, flush
    <2> QED
      BY <1>2, <2>1, SampledTypes, MotionIsPointer
  <1>7. applied' \in 0..MaxSeq /\ silence' \in 0..Lease
    BY Constants DEF ApplyInput
  <1> QED
    BY <1>3, <1>4, <1>5, <1>6, <1>7 DEF ApplyInput, TypeOK

\* An input whose injection fails keeps the types.
LEMMA FailInputType ==
    ASSUME TypeOK, NEW c \in Connections, NEW s \in Sessions,
           NEW seq \in 1..MaxSeq, NEW e \in Events, FailInput(c, s, seq, e)
    PROVE  TypeOK'
  <1>1. CASE /\ applied' = applied
             /\ pointer' \in IF e.kind = "Scroll"
                             THEN {pointer, PointerAfter(e)} ELSE {pointer}
             /\ \E failed \in Failures(ReleaseAll(ledger)) :
                   AbortInjection(ledger, os, failed)
    <2>1. EndTypes' /\ handshake' \in Handshakes
      BY <1>1, AbortInjectionTypes DEF TypeOK
    <2>2. /\ applied' \in 0..MaxSeq
          /\ pointer' \in [seq : 0..MaxMotion, required : 0..MaxSeq]
      BY <1>1, SampledTypes DEF TypeOK
    <2> QED
      BY <2>1, <2>2 DEF FailInput, EndTypes, TypeOK
  <1>2. CASE /\ applied' = seq
             /\ pointer' = PointerAfter(e)
             /\ \E failed \in Failures(ReleaseAll(AfterEvent(e))) :
                   AbortInjection(AfterEvent(e), Applied(e), failed)
    <2>1. EndTypes' /\ handshake' \in Handshakes
      BY <1>2, AbortInjectionTypes, EventTypes
    <2>2. /\ applied' \in 0..MaxSeq
          /\ pointer' \in [seq : 0..MaxMotion, required : 0..MaxSeq]
      BY <1>2, SampledTypes, Constants
    <2> QED
      BY <2>1, <2>2 DEF FailInput, EndTypes, TypeOK
  <1> QED
    BY <1>1, <1>2 DEF FailInput

\* A motion received keeps the types.
LEMMA ReceiveMotionType ==
    ASSUME TypeOK, NEW c \in Connections, NEW s \in Sessions,
           NEW m \in Motions, ReceiveMotion(c, s, m)
    PROVE  TypeOK'
  <1>0. m \in [seq : 0..MaxMotion, required : 0..MaxSeq]
    BY MotionIsPointer
  <1>1. CASE /\ ApplyMotion(m)
             /\ silence' = 0
             /\ UNCHANGED <<handshake, gate, active, fault, ledger, os,
                            retired, down>>
    <2>1. motion' \in [highest : 0..MaxMotion, pending : Motions \cup {None}]
      BY <1>0, <1>1 DEF ApplyMotion, TypeOK
    <2>2. /\ pointer' \in [seq : 0..MaxMotion, required : 0..MaxSeq]
          /\ silence' \in 0..Lease
      BY <1>0, <1>1, Constants DEF ApplyMotion
    <2> QED
      BY <1>1, <2>1, <2>2 DEF ReceiveMotion, TypeOK
  <1>2. CASE /\ \E failed \in Failures(ReleaseAll(ledger)) :
                   AbortInjection(ledger, os, failed)
             /\ UNCHANGED pointer
    <2>1. EndTypes' /\ handshake' \in Handshakes
      BY <1>2, AbortInjectionTypes DEF TypeOK
    <2> QED
      BY <1>2, <2>1 DEF ReceiveMotion, EndTypes, TypeOK
  <1>3. CASE /\ motion' = [motion EXCEPT !.pending =
                             IF @ = None THEN m
                             ELSE IF m.seq > @.seq THEN m ELSE @]
             /\ silence' = 0
             /\ UNCHANGED <<handshake, gate, active, fault, ledger, os,
                            pointer, retired, down>>
    <2>1. motion' \in [highest : 0..MaxMotion, pending : Motions \cup {None}]
      BY <1>3 DEF TypeOK
    <2>2. silence' \in 0..Lease
      BY <1>3, Constants
    <2> QED
      BY <1>3, <2>1, <2>2 DEF ReceiveMotion, TypeOK
  <1> QED
    BY <1>1, <1>2, <1>3 DEF ReceiveMotion

\* The health thread, the streams and the settings.
LEMMA EnvironmentType ==
    ASSUME TypeOK,
           \/ Expire
           \/ \E c \in Connections : InputStreamClosed(c)
           \/ \E layouts \in SUBSET Displays : UpdateDisplayLayouts(layouts)
           \/ \E m \in Mappings : UpdateModifierMapping(m)
           \/ InjectorChanges
           \/ Tick
    PROVE  TypeOK'
  <1>1. CASE Expire
    <2>1. PICK failed \in Failures(ReleaseAll(ledger)) :
            CloseSession(ledger, failed, "LeaseExpired")
      BY <1>1 DEF Expire
    <2>2. "LeaseExpired" \in Faults \cup {None}
      BY DEF Faults
    <2>3. EndTypes'
      BY <2>1, <2>2, CloseSessionTypes
    <2>4. handshake' \in Handshakes
      BY <1>1, HandshakeStates DEF Expire, TypeOK
    <2> QED
      BY <1>1, <2>3, <2>4 DEF Expire, EndTypes, TypeOK
  <1>2. ASSUME NEW c \in Connections, InputStreamClosed(c) PROVE TypeOK'
    <2>1. PICK failed \in Failures(ReleaseAll(ledger)) :
            CloseSession(ledger, failed, "InputStreamClosed")
      BY <1>2 DEF InputStreamClosed
    <2>2. "InputStreamClosed" \in Faults \cup {None}
      BY DEF Faults
    <2>3. EndTypes'
      BY <2>1, <2>2, CloseSessionTypes
    <2>4. handshake' \in Handshakes
      BY <1>2, HandshakeStates DEF InputStreamClosed, TypeOK
    <2> QED
      BY <1>2, <2>3, <2>4 DEF InputStreamClosed, EndTypes, TypeOK
  <1>3. ASSUME NEW layouts \in SUBSET Displays, UpdateDisplayLayouts(layouts)
        PROVE  TypeOK'
    <2>1. display' \in [layouts : SUBSET Displays,
                        prepared : Displays \cup {None},
                        active : Displays \cup {None}]
      <3> DEFINE prepared == IF display.prepared \in layouts
                             THEN display.prepared ELSE None
      <3>1. prepared \in Displays \cup {None}
        BY DEF TypeOK
      <3>2. \/ display' = [display EXCEPT !.layouts = layouts,
                                          !.prepared = prepared]
            \/ display' = [layouts |-> layouts, prepared |-> prepared,
                           active |-> None]
        BY <1>3 DEF UpdateDisplayLayouts
      <3> HIDE DEF prepared
      <3>3. CASE display' = [display EXCEPT !.layouts = layouts,
                                            !.prepared = prepared]
        BY <3>1, <3>3 DEF TypeOK
      <3>4. CASE display' = [layouts |-> layouts, prepared |-> prepared,
                             active |-> None]
        BY <3>1, <3>4
      <3> QED
        BY <3>2, <3>3, <3>4
    <2>2. CASE display.active \in layouts \cup {None}
      BY <1>3, <2>1, <2>2 DEF UpdateDisplayLayouts, outside, TypeOK
    <2>3. CASE display.active \notin layouts \cup {None}
      <3>1. PICK failed \in Failures(ReleaseAll(ledger)) :
              CloseSession(ledger, failed, "LayoutChanged")
        BY <1>3, <2>3 DEF UpdateDisplayLayouts
      <3>2. "LayoutChanged" \in Faults \cup {None}
        BY DEF Faults
      <3>3. EndTypes'
        BY <3>1, <3>2, CloseSessionTypes
      <3>4. handshake' = Aborted(active)
        BY <1>3, <2>3 DEF UpdateDisplayLayouts
      <3>5. handshake' \in Handshakes
        BY <3>4, HandshakeStates DEF TypeOK
      <3>6. UNCHANGED <<binding, applied, mapping, healthy, pointer, issued>>
        BY <1>3, <2>3 DEF UpdateDisplayLayouts
      <3> QED
        BY <2>1, <3>3, <3>5, <3>6 DEF EndTypes, TypeOK
    <2> QED
      BY <2>2, <2>3
  <1>4. ASSUME NEW m \in Mappings, UpdateModifierMapping(m) PROVE TypeOK'
    BY <1>4 DEF UpdateModifierMapping, outside, TypeOK
  <1>5. CASE InjectorChanges
    BY <1>5 DEF InjectorChanges, runtime, TypeOK
  <1>6. CASE Tick
    BY <1>6, Constants DEF Tick, outside, TypeOK
  <1> QED
    BY <1>1, <1>2, <1>3, <1>4, <1>5, <1>6

\* A lease renewed keeps the types.
LEMMA RenewType ==
    ASSUME TypeOK, NEW c \in Connections, NEW s \in Sessions, Renew(c, s)
    PROVE  TypeOK'
  BY Constants DEF Renew, outside, TypeOK

\* The types hold at the start, and nothing is bound.
LEMMA InitType == Init => TypeOK /\ BoundPart
  <1> SUFFICES ASSUME Init PROVE TypeOK /\ BoundPart
    OBVIOUS
  <1>1. handshake \in Handshakes
    BY DEF Init, Handshakes
  <1>2. ledger \in Ledgers
    BY EmptyIsLedger DEF Init
  <1>3. motion \in [highest : 0..MaxMotion, pending : Motions \cup {None}]
    BY NoMotionType DEF Init
  <1>4. gate \in [active : Sessions \cup {None}, next : 1..MaxSeq,
                  ended : Sessions \cup {None}]
    BY Constants DEF Init
  <1>5. /\ display \in [layouts : SUBSET Displays,
                        prepared : Displays \cup {None},
                        active : Displays \cup {None}]
        /\ os \in [keys : SUBSET Targets, buttons : SUBSET Buttons]
    BY DEF Init
  <1>6. /\ applied \in 0..MaxSeq
        /\ silence \in 0..Lease
        /\ pointer \in [seq : 0..MaxMotion, required : 0..MaxSeq]
        /\ issued \in [Boots -> 0..MaxRequest]
    BY Constants DEF Init, NoPointer
  <1> QED
    BY <1>1, <1>2, <1>3, <1>4, <1>5, <1>6 DEF Init, TypeOK, BoundPart

\* No step unbinds the handshake: Hello binds both, and nothing else clears it.
LEMMA AbortBinds ==
    ASSUME NEW s PROVE handshake.state # "none" => Aborted(s).state # "none"
  BY DEF Aborted

\* A frame binds a connection only with a handshake.
LEMMA FrameBound ==
    ASSUME BoundPart, Frame PROVE BoundPart'
  <1>1. ASSUME NEW c \in Connections, NEW b \in Boots, Hello(c, b)
        PROVE  BoundPart'
    BY <1>1 DEF Hello, AfterHello, BoundPart
  <1>2. ASSUME NEW c \in Connections, NEW request \in Requests,
               NEW d \in Displays, Prepare(c, request, d)
        PROVE  BoundPart'
    BY <1>2 DEF Prepare, AfterPrepare, BoundPart
  <1>3. ASSUME NEW c \in Connections, NEW s \in Sessions,
               \/ CommitPrepared(c, s)
               \/ Renew(c, s)
               \/ EndSession(c, s)
        PROVE  BoundPart'
    BY <1>3 DEF CommitPrepared, Renew, EndSession, ActiveIn, AfterEnd,
                BoundPart
  <1>4. ASSUME NEW c \in Connections, NEW s \in Sessions,
               NEW seq \in 1..MaxSeq, NEW e \in Events,
               ApplyInput(c, s, seq, e) \/ FailInput(c, s, seq, e)
        PROVE  BoundPart'
    BY <1>4, AbortBinds DEF ApplyInput, FailInput, AbortInjection, BoundPart
  <1>5. ASSUME NEW c \in Connections, NEW s \in Sessions, NEW m \in Motions,
               ReceiveMotion(c, s, m)
        PROVE  BoundPart'
    BY <1>5, AbortBinds DEF ReceiveMotion, AbortInjection, BoundPart
  <1> QED
    BY <1>1, <1>2, <1>3, <1>4, <1>5 DEF Frame

\* The environment, the lease's expiry and the clock bind nothing either.
LEMMA OthersBound ==
    ASSUME BoundPart, Environment \/ Expire \/ Tick PROVE BoundPart'
  <1>1. CASE Expire \/ Tick
    BY <1>1, AbortBinds DEF Expire, Tick, BoundPart
  <1>2. ASSUME NEW c \in Connections, InputStreamClosed(c) PROVE BoundPart'
    BY <1>2, AbortBinds DEF InputStreamClosed, BoundPart
  <1>3. ASSUME NEW layouts \in SUBSET Displays, UpdateDisplayLayouts(layouts)
        PROVE  BoundPart'
    BY <1>3, AbortBinds DEF UpdateDisplayLayouts, BoundPart
  <1>4. ASSUME NEW m \in Mappings, UpdateModifierMapping(m) PROVE BoundPart'
    BY <1>4 DEF UpdateModifierMapping, BoundPart
  <1>5. CASE InjectorChanges
    BY <1>5 DEF InjectorChanges, runtime, BoundPart
  <1> QED
    BY <1>1, <1>2, <1>3, <1>4, <1>5 DEF Environment

\* Every step keeps the types, and no binding without a handshake.
LEMMA StepType == TypeOK /\ BoundPart /\ [Next]_vars => TypeOK' /\ BoundPart'
  <1> SUFFICES ASSUME TypeOK, BoundPart, [Next]_vars
               PROVE  TypeOK' /\ BoundPart'
    OBVIOUS
  <1>1. CASE Frame
    <2>1. BoundPart'
      BY <1>1, FrameBound
    <2>2. TypeOK'
      <3>1. ASSUME NEW c \in Connections, NEW b \in Boots, Hello(c, b)
            PROVE  TypeOK'
        BY <3>1, HelloType
      <3>2. ASSUME NEW c \in Connections, NEW request \in Requests,
                   NEW d \in Displays, Prepare(c, request, d)
            PROVE  TypeOK'
        BY <3>2, PrepareType
      <3>3. ASSUME NEW c \in Connections, NEW s \in Sessions,
                   \/ CommitPrepared(c, s)
                   \/ Renew(c, s)
                   \/ EndSession(c, s)
            PROVE  TypeOK'
        BY <3>3, CommitType, RenewType, EndSessionType
      <3>4. ASSUME NEW c \in Connections, NEW s \in Sessions,
                   NEW seq \in 1..MaxSeq, NEW e \in Events,
                   ApplyInput(c, s, seq, e) \/ FailInput(c, s, seq, e)
            PROVE  TypeOK'
        BY <3>4, ApplyInputType, FailInputType
      <3>5. ASSUME NEW c \in Connections, NEW s \in Sessions,
                   NEW m \in Motions, ReceiveMotion(c, s, m)
            PROVE  TypeOK'
        BY <3>5, ReceiveMotionType
      <3> QED
        BY <1>1, <3>1, <3>2, <3>3, <3>4, <3>5 DEF Frame
    <2> QED
      BY <2>1, <2>2
  <1>2. CASE Environment \/ Expire \/ Tick
    BY <1>2, OthersBound, EnvironmentType DEF Environment
  <1>3. CASE UNCHANGED vars
    BY <1>3 DEF vars, runtime, outside, TypeOK, BoundPart
  <1> QED
    BY <1>1, <1>2, <1>3 DEF Next

\* ReceiverSessionRuntime: whatever frames, motions, settings, failures and
\* expiries come, in whatever order, every part of the runtime stays a state
\* its types and the handlers allow.
THEOREM TypeCorrect == Spec => []TypeOK
  <1>1. Spec => [](TypeOK /\ BoundPart)
    BY InitType, StepType, PTL DEF Spec
  <1> QED
    BY <1>1, PTL

-----------------------------------------------------------------------------
(* The session of the runtime, of the handshake and of the gate.           *)

\* What a step does to the session in force: it ends it,
Ends ==
    /\ active # None
    /\ active' = None
    /\ gate' = [gate EXCEPT !.active = None, !.next = 1, !.ended = active]
    /\ handshake' = AfterEnd(active)
    /\ retired' = retired \cup {active}
    /\ UNCHANGED <<binding, issued>>

\* or leaves it alone, perhaps with the next event applied.
Keeps ==
    /\ UNCHANGED <<binding, handshake, active, retired, issued>>
    /\ active # None =>
          /\ fault' = fault
          /\ display.active # None => display'.active # None
    /\ \/ UNCHANGED <<gate, applied>>
       \/ /\ gate' = [gate EXCEPT !.next = gate.next + 1]
          /\ applied' = gate.next

\* An End may also come when the runtime has no session.
EndsIdle ==
    /\ active = None
    /\ UNCHANGED <<binding, gate, active, applied, retired, issued>>
    /\ handshake.state \in {"Active", "Ended"}
    /\ handshake' = AfterEnd(handshake.session)

SessionPart == TypeOK /\ BoundPart /\ SessionAgreement /\ NothingSkipped

\* GateEnded and abort_active, for the session that is in force.
LEMMA EndOfActive ==
    ASSUME SessionAgreement, active # None
    PROVE  /\ GateEnded(active)
                = [gate EXCEPT !.active = None, !.next = 1, !.ended = active]
           /\ Aborted(active) = AfterEnd(active)
  BY DEF SessionAgreement, GateEnded, Aborted, AfterEnd, ActiveIn

\* Closing the session ends it, for the gate and the handshake together.
LEMMA CloseSessionEnds ==
    ASSUME SessionAgreement, active # None, NEW failed, NEW why,
           CloseSession(ledger, failed, why), handshake' = AfterEnd(active),
           UNCHANGED <<binding, issued>>
    PROVE  Ends
  BY EndOfActive DEF CloseSession, Ends

\* Aborting the injection ends the session too.
LEMMA AbortInjectionEnds ==
    ASSUME SessionAgreement, active # None, NEW held, NEW reached, NEW failed,
           AbortInjection(held, reached, failed), UNCHANGED <<binding, issued>>
    PROVE  Ends
  BY EndOfActive DEF AbortInjection, Ends

\* Only a session in force has its input accepted.
LEMMA AcceptedIsActive ==
    ASSUME SessionAgreement, NEW s \in Sessions, NEW seq, Accepts(s, seq)
    PROVE  active = s /\ active # None /\ seq = gate.next
  BY ReceiverAssumption DEF SessionAgreement, Accepts

\* EndSession ends the active session, or arrives when the runtime has none.
LEMMA EndSessionEnds ==
    ASSUME SessionAgreement, NEW c \in Connections, NEW s \in Sessions,
           EndSession(c, s)
    PROVE  Ends \/ EndsIdle
  <1>1. CASE active = s
    <2>1. PICK failed \in Failures(ReleaseAll(ledger)) :
            CloseSession(ledger, failed, fault)
      BY <1>1 DEF EndSession
    <2>2. handshake' = AfterEnd(active) /\ UNCHANGED <<binding, issued>>
      BY <1>1 DEF EndSession
    <2>3. active # None
      BY <1>1, ReceiverAssumption
    <2> QED
      BY <2>1, <2>2, <2>3, CloseSessionEnds
  <1>2. CASE active # s
    <2>1. active = None
      BY <1>2 DEF EndSession, AnswersEnd, SessionAgreement, ActiveIn
    <2>2. UNCHANGED <<gate, active, retired>>
      BY <1>2 DEF EndSession
    <2>3. /\ handshake.state \in {"Active", "Ended"}
          /\ handshake' = AfterEnd(handshake.session)
      BY DEF EndSession, AnswersEnd
    <2> QED
      BY <2>1, <2>2, <2>3 DEF EndSession, EndsIdle
  <1> QED
    BY <1>1, <1>2

\* Every step, by what it does to the session in force.
SessionStep ==
    \/ Ends \/ Keeps \/ EndsIdle
    \/ \E c \in Connections :
          \/ \E b \in Boots : Hello(c, b)
          \/ \E request \in Requests, d \in Displays : Prepare(c, request, d)
          \/ \E s \in Sessions : CommitPrepared(c, s)

\* A frame moves the session the way its handshake allows.
LEMMA FrameSession ==
    ASSUME SessionAgreement, Frame PROVE SessionStep
  <1>1. ASSUME NEW c \in Connections, NEW s \in Sessions, Renew(c, s)
        PROVE  Keeps
    BY <1>1 DEF Renew, outside, Keeps
  <1>2. ASSUME NEW c \in Connections, NEW s \in Sessions,
               NEW seq \in 1..MaxSeq, NEW e \in Events, ApplyInput(c, s, seq, e)
        PROVE  Keeps
    BY <1>2, AcceptedIsActive DEF ApplyInput, Keeps
  <1>3. ASSUME NEW c \in Connections, NEW s \in Sessions,
               NEW seq \in 1..MaxSeq, NEW e \in Events, FailInput(c, s, seq, e)
        PROVE  Ends
    <2>1. active # None /\ UNCHANGED <<binding, issued>>
      BY <1>3, AcceptedIsActive DEF FailInput
    <2> QED
      BY <1>3, <2>1, AbortInjectionEnds DEF FailInput
  <1>4. ASSUME NEW c \in Connections, NEW s \in Sessions, NEW m \in Motions,
               ReceiveMotion(c, s, m)
        PROVE  Ends \/ Keeps
    <2>1. active # None /\ UNCHANGED <<binding, applied, display, issued>>
      BY <1>4, ReceiverAssumption DEF ReceiveMotion
    <2>2. \/ UNCHANGED <<handshake, gate, active, fault, retired>>
          \/ \E failed \in Failures(ReleaseAll(ledger)) :
                AbortInjection(ledger, os, failed)
      BY <1>4 DEF ReceiveMotion
    <2>3. CASE UNCHANGED <<handshake, gate, active, fault, retired>>
      BY <2>1, <2>3 DEF Keeps
    <2> QED
      BY <2>1, <2>2, <2>3, AbortInjectionEnds
  <1> QED
    BY <1>1, <1>2, <1>3, <1>4, EndSessionEnds DEF Frame, SessionStep

\* So do the environment, the lease's expiry and the clock.
LEMMA EnvironmentSession ==
    ASSUME TypeOK, SessionAgreement,
           Environment \/ Expire \/ Tick \/ UNCHANGED vars
    PROVE  SessionStep
  <1>1. CASE Expire
    BY <1>1, EndOfActive, CloseSessionEnds DEF Expire, SessionStep
  <1>2. ASSUME NEW c \in Connections, InputStreamClosed(c) PROVE Ends
    BY <1>2, EndOfActive, CloseSessionEnds DEF InputStreamClosed
  <1>3. ASSUME NEW layouts \in SUBSET Displays, UpdateDisplayLayouts(layouts)
        PROVE  Ends \/ Keeps
    <2>1. CASE display.active \in layouts \cup {None}
      BY <1>3, <2>1 DEF UpdateDisplayLayouts, outside, TypeOK, Keeps
    <2>2. CASE display.active \notin layouts \cup {None}
      <3>1. PICK failed \in Failures(ReleaseAll(ledger)) :
              CloseSession(ledger, failed, "LayoutChanged")
        BY <1>3, <2>2 DEF UpdateDisplayLayouts
      <3>2. /\ handshake' = Aborted(active)
            /\ UNCHANGED <<binding, applied, issued>>
        BY <1>3, <2>2 DEF UpdateDisplayLayouts
      <3>3. CASE active # None
        BY <3>1, <3>2, <3>3, EndOfActive, CloseSessionEnds
      <3>4. CASE active = None
        <4>1. GateEnded(active) = gate
          BY <3>4 DEF GateEnded
        <4>2. handshake # [state |-> "Active", session |-> None]
          BY ReceiverAssumption DEF TypeOK, Handshakes
        <4>3. Aborted(active) = handshake
          BY <3>4, <4>2 DEF Aborted
        <4> QED
          BY <3>1, <3>2, <3>4, <4>1, <4>3 DEF CloseSession, Keeps
      <3> QED
        BY <3>3, <3>4
    <2> QED
      BY <2>1, <2>2
  <1>4. CASE \/ \E m \in Mappings : UpdateModifierMapping(m)
            \/ InjectorChanges
            \/ Tick
            \/ UNCHANGED vars
    BY <1>4 DEF UpdateModifierMapping, InjectorChanges, Tick, vars, runtime,
                outside, Keeps, SessionStep
  <1> QED
    BY <1>1, <1>2, <1>3, <1>4 DEF Environment, SessionStep

\* A Hello comes to no session in force, and binds nothing if a release fails.
LEMMA HelloSession ==
    ASSUME NEW c \in Connections, NEW b \in Boots, Hello(c, b)
    PROVE  /\ active = None
           /\ UNCHANGED <<gate, active, retired, issued>>
           /\ handshake' \in {handshake, AfterHello(b)}
  BY DEF Hello

\* The agreement of gate and handshake, and the order of inputs, hold at the start.
LEMMA InitSession == Init => SessionAgreement /\ NothingSkipped
  BY DEF Init, SessionAgreement, NothingSkipped

\* Every step keeps the agreement and skips no input.
LEMMA StepSession ==
    SessionPart /\ [Next]_vars => SessionAgreement' /\ NothingSkipped'
  <1> SUFFICES ASSUME SessionPart, [Next]_vars
               PROVE  SessionAgreement' /\ NothingSkipped'
    OBVIOUS
  <1>1. SessionStep
    BY FrameSession, EnvironmentSession DEF SessionPart, Next
  <1>2. CASE Ends
    BY <1>2 DEF Ends, SessionPart, TypeOK, SessionAgreement, NothingSkipped
  <1>3. CASE Keeps
    <2>0. active' = active
      BY <1>3 DEF Keeps
    <2>1. gate'.active = gate.active
      BY <1>3 DEF Keeps, SessionPart, TypeOK
    <2>2. SessionAgreement'
      BY <1>3, <2>1 DEF Keeps, SessionPart, SessionAgreement, ActiveIn
    <2>3. CASE UNCHANGED <<gate, applied>>
      BY <2>0, <2>2, <2>3 DEF SessionPart, NothingSkipped
    <2>4. CASE /\ gate' = [gate EXCEPT !.next = gate.next + 1]
               /\ applied' = gate.next
      <3>1. gate'.next = gate.next + 1 /\ gate.next \in Nat
        BY <2>4 DEF SessionPart, TypeOK
      <3> QED
        BY <2>0, <2>2, <2>4, <3>1 DEF NothingSkipped
    <2> QED
      BY <1>3, <2>2, <2>3, <2>4 DEF Keeps
  <1>4. CASE EndsIdle
    BY <1>4 DEF EndsIdle, SessionPart, SessionAgreement, NothingSkipped
  <1>5. ASSUME NEW c \in Connections, NEW b \in Boots, Hello(c, b)
        PROVE  SessionAgreement' /\ NothingSkipped'
    BY <1>5, HelloSession DEF SessionPart, SessionAgreement, NothingSkipped
  <1>6. ASSUME NEW c \in Connections, NEW request \in Requests,
               NEW d \in Displays, Prepare(c, request, d)
        PROVE  SessionAgreement' /\ NothingSkipped'
    <2>1. /\ UNCHANGED <<gate, active, applied, binding, fault>>
          /\ display'.active = display.active
      BY <1>6 DEF Prepare, SessionPart, TypeOK
    <2>2. active # None => UNCHANGED handshake
      BY <1>6 DEF Prepare, AnswersPrepare, SessionPart, SessionAgreement, ActiveIn
    <2> QED
      BY <2>1, <2>2 DEF SessionPart, SessionAgreement, NothingSkipped, ActiveIn
  <1>7. ASSUME NEW c \in Connections, NEW s \in Sessions, CommitPrepared(c, s)
        PROVE  SessionAgreement' /\ NothingSkipped'
    <2>1. CASE MayActivate(s)
      <3>1. /\ gate'.active = s /\ active' = s /\ gate'.next = 1
            /\ display'.active = display.prepared
        BY <1>7, <2>1 DEF CommitPrepared, SessionPart, TypeOK
      <3>2. /\ display.prepared # None /\ binding' = c /\ c # None
            /\ fault' = None /\ applied' = 0 /\ handshake' = ActiveIn(s)
        BY <1>7, <2>1, ReceiverAssumption DEF CommitPrepared
      <3> QED
        BY <3>1, <3>2 DEF SessionAgreement, NothingSkipped, ActiveIn
    <2>2. CASE ~MayActivate(s)
      BY <1>7, <2>2 DEF CommitPrepared, SessionPart, SessionAgreement,
                        NothingSkipped
    <2> QED
      BY <2>1, <2>2
  <1> QED
    BY <1>1, <1>2, <1>3, <1>4, <1>5, <1>6, <1>7 DEF SessionStep

\* Types, bindings, agreement and order are an invariant of the receiver.
LEMMA SessionPartInvariant == Spec => []SessionPart
  <1>1. Init => SessionPart
    BY InitType, InitSession DEF SessionPart
  <1>2. SessionPart /\ [Next]_vars => SessionPart'
    BY StepType, StepSession DEF SessionPart
  <1> QED
    BY <1>1, <1>2, PTL DEF Spec

\* handle_control_at, handle_input_at and every way a session ends: runtime,
\* handshake and gate always name the same session, which has a display, a
\* connection and no fault, and every event accepted was applied in order.
THEOREM SessionsAgree == Spec => [](SessionAgreement /\ NothingSkipped)
  <1>1. SessionPart => SessionAgreement /\ NothingSkipped
    BY DEF SessionPart
  <1> QED
    BY <1>1, SessionPartInvariant, PTL

-----------------------------------------------------------------------------
(* A session that ended stays ended.  The gate remembers one session, the   *)
(* last it ended: that is enough for a peer that is one process, since its  *)
(* requests grow and the last session ended carries the greatest.           *)

OneProcess == \A b, c \in Boots : b = c

SpentBy(n) == \A s \in retired : s.request <= n

RetiredPart ==
    /\ \A b \in Boots : SpentBy(issued[b])
    /\ retired # {} => gate.ended \in retired /\ SpentBy(gate.ended.request)
    /\ handshake.state = "Prepared" =>
          /\ SpentBy(handshake.request)
          /\ handshake.request <= issued[handshake.boot]
    /\ handshake.state \in {"Active", "Ended"} =>
          /\ SpentBy(handshake.session.request)
          /\ handshake.session.request <= issued[handshake.session.boot]
    /\ active # None => \A s \in retired : s.request < active.request

\* A session is a record of its boot and its request, and a state tells it apart from none.
LEMMA SessionIsRecord ==
    ASSUME NEW s \in Sessions
    PROVE  /\ s.boot \in Boots /\ s.request \in Requests
           /\ s.request \in Nat /\ s # None
           /\ AfterEnd(s).state = "Ended" /\ AfterEnd(s).session = s
           /\ ActiveIn(s).state = "Active" /\ ActiveIn(s).session = s
  BY ReceiverAssumption DEF Sessions, Requests, AfterEnd, ActiveIn

\* Two sessions of one process are told apart by their requests.
LEMMA RequestsTell ==
    ASSUME OneProcess, NEW s \in Sessions, NEW t \in Sessions,
           s.request = t.request
    PROVE  s = t
  BY DEF OneProcess, Sessions

\* Nothing is retired at the start.
LEMMA InitRetired == Init => RetiredPart
  BY DEF Init, RetiredPart, SpentBy

\* The end of the active session retires it.
LEMMA EndsRetired ==
    ASSUME OneProcess, SessionPart, RetiredPart, Ends PROVE RetiredPart'
  <1>1. /\ active \in Sessions /\ handshake = ActiveIn(active)
        /\ retired \in SUBSET Sessions
        /\ issued \in [Boots -> 0..MaxRequest]
    BY DEF Ends, SessionPart, TypeOK, SessionAgreement
  <1>2. /\ active' = None /\ retired' = retired \cup {active}
        /\ handshake' = AfterEnd(active) /\ issued' = issued
        /\ gate'.ended = active
    BY DEF Ends, SessionPart, TypeOK
  <1>3. \A s \in retired' : s.request <= active.request
    BY <1>1, <1>2, SessionIsRecord DEF RetiredPart, Ends
  <1>4. \A b \in Boots : active.request <= issued[b]
    BY <1>1, SessionIsRecord DEF RetiredPart, OneProcess
  <1>5. \A b \in Boots, s \in retired' : s.request <= issued[b]
    BY <1>1, <1>2, <1>4, SessionIsRecord DEF RetiredPart, SpentBy
  <1> QED
    BY <1>1, <1>2, <1>3, <1>4, <1>5, SessionIsRecord DEF RetiredPart, SpentBy

\* A step that keeps the session keeps what is retired.
LEMMA KeepsRetired ==
    ASSUME SessionPart, RetiredPart, Keeps PROVE RetiredPart'
  <1>1. gate'.ended = gate.ended
    BY DEF Keeps, SessionPart, TypeOK
  <1> QED
    BY <1>1 DEF Keeps, RetiredPart, SpentBy

\* An End that arrives when the runtime has no session keeps what is retired.
LEMMA EndsIdleRetired ==
    ASSUME SessionPart, RetiredPart, EndsIdle PROVE RetiredPart'
  <1>1. /\ handshake'.state = "Ended"
        /\ handshake'.session = handshake.session
    BY DEF EndsIdle, AfterEnd
  <1>2. SpentBy(handshake.session.request)
    BY DEF EndsIdle, RetiredPart
  <1>3. handshake.session.request <= issued[handshake.session.boot]
    BY DEF EndsIdle, RetiredPart
  <1> QED
    BY <1>1, <1>2, <1>3 DEF EndsIdle, RetiredPart, SpentBy

\* A hello keeps what is retired.
LEMMA HelloRetired ==
    ASSUME RetiredPart, NEW c \in Connections, NEW b \in Boots, Hello(c, b)
    PROVE  RetiredPart'
  <1>1. CASE handshake' = handshake
    BY <1>1, HelloSession DEF RetiredPart, SpentBy
  <1>2. CASE handshake' = AfterHello(b)
    <2>1. handshake'.state = "Idle"
      BY <1>2 DEF AfterHello
    <2> QED
      BY <2>1, HelloSession DEF RetiredPart, SpentBy
  <1> QED
    BY <1>1, <1>2, HelloSession

\* Requests of a process grow, so a Prepare is never older than one before it.
LEMMA PrepareRetired ==
    ASSUME OneProcess, SessionPart, RetiredPart, NEW c \in Connections,
           NEW request \in Requests, NEW d \in Displays,
           Prepare(c, request, d)
    PROVE  RetiredPart'
  <1>1. /\ HandshakeBoot \in Boots
        /\ issued \in [Boots -> 0..MaxRequest] /\ request \in Nat
        /\ retired \in SUBSET Sessions
        /\ request \in {issued[HandshakeBoot], issued[HandshakeBoot] + 1}
        /\ issued' = [issued EXCEPT ![HandshakeBoot] = request]
        /\ UNCHANGED <<gate, active, retired>>
    BY BootOfHandshake, ReceiverAssumption
       DEF Prepare, SessionPart, BoundPart, TypeOK, Requests
  <1>2. \A b \in Boots : issued[b] <= issued'[b] /\ issued'[b] = request
    BY <1>1 DEF OneProcess
  <1>3. \A s \in retired : s.request \in Nat
    BY <1>1, SessionIsRecord
  <1>4. SpentBy(request)
    BY <1>1, <1>2, <1>3 DEF RetiredPart, SpentBy
  <1>5. CASE handshake' = AfterPrepare(request)
    <2>1. /\ handshake'.state = "Prepared" /\ handshake'.boot \in Boots
          /\ handshake'.request = request
      BY <1>1, <1>5 DEF AfterPrepare
    <2> QED
      BY <1>1, <1>2, <1>4, <2>1 DEF RetiredPart, SpentBy
  <1>6. CASE handshake' = handshake
    <2>1. CASE handshake.state = "Prepared"
      <3>1. handshake.boot \in Boots /\ handshake.request \in Nat
        BY <2>1 DEF SessionPart, TypeOK, Handshakes, Requests
      <3>2. handshake.request <= issued'[handshake.boot]
        BY <1>1, <1>2, <2>1, <3>1 DEF RetiredPart
      <3> QED
        BY <1>1, <1>2, <1>4, <1>6, <2>1, <3>2 DEF RetiredPart, SpentBy
    <2>2. CASE handshake.state \in {"Active", "Ended"}
      <3>1. handshake.session \in Sessions
        BY <2>2 DEF SessionPart, TypeOK, Handshakes
      <3>2. handshake.session.request <= issued'[handshake.session.boot]
        BY <1>1, <1>2, <2>2, <3>1, SessionIsRecord DEF RetiredPart
      <3> QED
        BY <1>1, <1>2, <1>4, <1>6, <2>2, <3>2 DEF RetiredPart, SpentBy
    <2>3. CASE handshake.state \notin {"Prepared", "Active", "Ended"}
      BY <1>1, <1>2, <1>4, <1>6, <2>3 DEF RetiredPart, SpentBy
    <2> QED
      BY <2>1, <2>2, <2>3
  <1> QED
    BY <1>5, <1>6 DEF Prepare

\* A session starts only if it is not the one the gate ended last, and then
\* its request is greater than that of every session before it.
LEMMA CommitRetired ==
    ASSUME OneProcess, SessionPart, RetiredPart, NEW c \in Connections,
           NEW s \in Sessions, CommitPrepared(c, s)
    PROVE  RetiredPart'
  <1>1. /\ handshake' = ActiveIn(s) /\ UNCHANGED <<issued, retired>>
        /\ retired \in SUBSET Sessions
    BY DEF CommitPrepared, SessionPart, TypeOK
  <1>2. SpentBy(s.request) /\ s.request <= issued[s.boot]
    BY SessionIsRecord DEF CommitPrepared, AnswersCommit, RetiredPart
  <1>3. CASE MayActivate(s)
    <2>1. /\ gate'.ended = gate.ended /\ active' = s /\ gate.ended # s
      BY <1>3 DEF CommitPrepared, MayActivate, GateRefuses, SessionPart,
                  TypeOK
    <2>2. ASSUME NEW t \in retired PROVE t.request < s.request
      <3>1. /\ gate.ended \in Sessions /\ t \in Sessions
            /\ t.request <= gate.ended.request
            /\ gate.ended.request <= s.request
        BY <1>1, <1>2, <2>2 DEF RetiredPart, SpentBy
      <3>2. gate.ended.request # s.request
        BY <2>1, <3>1, RequestsTell
      <3> QED
        BY <3>1, <3>2, SessionIsRecord
    <2> QED
      BY <1>1, <1>2, <2>1, <2>2, SessionIsRecord DEF RetiredPart, SpentBy
  <1>4. CASE ~MayActivate(s)
    <2>1. UNCHANGED <<gate, active>>
      BY <1>4 DEF CommitPrepared
    <2> QED
      BY <1>1, <1>2, <2>1, SessionIsRecord DEF RetiredPart, SpentBy
  <1> QED
    BY <1>3, <1>4

\* Every step of one process keeps what is retired retired.
LEMMA StepRetired ==
    ASSUME OneProcess, SessionPart, RetiredPart, [Next]_vars
    PROVE  RetiredPart'
  <1>1. SessionStep
    BY FrameSession, EnvironmentSession DEF SessionPart, Next
  <1> QED
    BY <1>1, EndsRetired, KeepsRetired, EndsIdleRetired, HelloRetired,
       PrepareRetired, CommitRetired DEF SessionStep

\* What is retired gives the invariant of the sessions: none comes back.
LEMMA RetiredMeans ==
    ASSUME SessionPart, RetiredPart PROVE SessionInv
  <1>1. active \notin retired
    BY ReceiverAssumption, SessionIsRecord
       DEF SessionPart, TypeOK, RetiredPart
  <1> QED
    BY <1>1 DEF SessionPart, SessionInv, RetiredStaysRetired

\* InputSessionGate::activate against frames of the past: with a peer that is
\* one process, a session that ended by any of the six ways is not started
\* again, whatever Prepare or Commit of it comes late or twice; and all that
\* the runtime knows of the session in force agrees.
THEOREM EndedStaysEnded == OneProcess => (Spec => []SessionInv)
  <1> SUFFICES ASSUME OneProcess PROVE Spec => []SessionInv
    OBVIOUS
  <1>1. Init => RetiredPart
    BY InitRetired
  <1>2. SessionPart /\ RetiredPart /\ [Next]_vars => RetiredPart'
    BY StepRetired
  <1>3. SessionPart /\ RetiredPart => SessionInv
    BY RetiredMeans
  <1> QED
    BY <1>1, <1>2, <1>3, SessionPartInvariant, PTL DEF Spec

-----------------------------------------------------------------------------
(* What the system holds and what the ledger says.                         *)

Recorded(system, held) ==
    /\ system.keys \subseteq HeldTargets(held)
    /\ system.buttons \subseteq held.buttons

\* release_pressed and abort_after_injector_failure: what a failed release
\* leaves pressed is what the restored ledger still says is held.
LEMMA ReleaseIsRecorded ==
    ASSUME NEW system, NEW held, NEW failed, Recorded(system, held)
    PROVE  Recorded(Released(system, ReleaseAll(held), failed),
                    IF NoFailure(failed) THEN EmptyLedger ELSE held)
  <1>1. CASE NoFailure(failed)
    BY <1>1, ReleasesAll DEF Recorded, Released, NoFailure
  <1>2. CASE ~NoFailure(failed)
    BY <1>2 DEF Recorded, Released
  <1> QED
    BY <1>1, <1>2

\* inject and its commands take the system where the ledger goes.
LEMMA AppliedIsRecorded ==
    ASSUME HeldIsRecorded, NEW e PROVE Recorded(Applied(e), AfterEvent(e))
  BY DEF HeldIsRecorded, Recorded, Applied, Presses, Releases

\* After a frame, whatever the system holds is still in the ledger.
LEMMA FrameRecorded ==
    ASSUME HeldIsRecorded, Frame PROVE HeldIsRecorded'
  <1>0. Recorded(os, ledger)
    BY DEF HeldIsRecorded, Recorded
  <1>1. ASSUME NEW c \in Connections, NEW b \in Boots, Hello(c, b)
        PROVE  HeldIsRecorded'
    <2>1. PICK failed \in Failures(ReleaseAll(ledger)) :
            ReleasePressed(ledger, failed)
      BY <1>1 DEF Hello
    <2> QED
      BY <1>0, <2>1, ReleaseIsRecorded
         DEF ReleasePressed, HeldIsRecorded, Recorded
  <1>2. ASSUME NEW c \in Connections,
               \/ \E request \in Requests, d \in Displays :
                     Prepare(c, request, d)
               \/ \E s \in Sessions : CommitPrepared(c, s) \/ Renew(c, s)
        PROVE  HeldIsRecorded'
    BY <1>2 DEF Prepare, CommitPrepared, Renew, outside, HeldIsRecorded
  <1>3. ASSUME NEW c \in Connections, NEW s \in Sessions, EndSession(c, s)
        PROVE  HeldIsRecorded'
    <2>1. PICK failed \in Failures(ReleaseAll(ledger)) :
            ReleasePressed(ledger, failed)
      BY <1>3 DEF EndSession, CloseSession
    <2> QED
      BY <1>0, <2>1, ReleaseIsRecorded
         DEF ReleasePressed, HeldIsRecorded, Recorded
  <1>4. ASSUME NEW c \in Connections, NEW s \in Sessions,
               NEW seq \in 1..MaxSeq, NEW e \in Events, ApplyInput(c, s, seq, e)
        PROVE  HeldIsRecorded'
    BY <1>4, AppliedIsRecorded DEF ApplyInput, HeldIsRecorded, Recorded
  <1>5. ASSUME NEW held, NEW system, NEW failed, Recorded(system, held),
               AbortInjection(held, system, failed)
        PROVE  HeldIsRecorded'
    BY <1>5, ReleaseIsRecorded DEF AbortInjection, HeldIsRecorded, Recorded
  <1>6. ASSUME NEW c \in Connections, NEW s \in Sessions,
               NEW seq \in 1..MaxSeq, NEW e \in Events, FailInput(c, s, seq, e)
        PROVE  HeldIsRecorded'
    BY <1>0, <1>5, <1>6, AppliedIsRecorded DEF FailInput
  <1>7. ASSUME NEW c \in Connections, NEW s \in Sessions, NEW m \in Motions,
               ReceiveMotion(c, s, m)
        PROVE  HeldIsRecorded'
    <2>1. \/ UNCHANGED <<ledger, os>>
          \/ \E failed \in Failures(ReleaseAll(ledger)) :
                AbortInjection(ledger, os, failed)
      BY <1>7 DEF ReceiveMotion
    <2> QED
      BY <1>0, <1>5, <2>1 DEF HeldIsRecorded
  <1> QED
    BY <1>1, <1>2, <1>3, <1>4, <1>6, <1>7 DEF Frame

\* After any step, whatever the system holds is still in the ledger.
LEMMA StepRecorded ==
    ASSUME HeldIsRecorded, [Next]_vars PROVE HeldIsRecorded'
  <1>1. ASSUME NEW failed, NEW why, CloseSession(ledger, failed, why)
        PROVE  HeldIsRecorded'
    <2>1. Recorded(os, ledger)
      BY DEF HeldIsRecorded, Recorded
    <2> QED
      BY <1>1, <2>1, ReleaseIsRecorded
         DEF CloseSession, ReleasePressed, HeldIsRecorded, Recorded
  <1>2. ASSUME NEW layouts \in SUBSET Displays, UpdateDisplayLayouts(layouts)
        PROVE  HeldIsRecorded'
    <2>1. \/ UNCHANGED outside /\ ledger' = ledger
          \/ \E failed \in Failures(ReleaseAll(ledger)) :
                CloseSession(ledger, failed, "LayoutChanged")
      BY <1>2 DEF UpdateDisplayLayouts, outside
    <2> QED
      BY <1>1, <2>1 DEF outside, HeldIsRecorded
  <1>3. CASE Expire \/ \E c \in Connections : InputStreamClosed(c)
    BY <1>1, <1>3 DEF Expire, InputStreamClosed
  <1>4. CASE \/ \E m \in Mappings : UpdateModifierMapping(m)
             \/ InjectorChanges
             \/ Tick
             \/ UNCHANGED vars
    BY <1>4 DEF UpdateModifierMapping, InjectorChanges, Tick, vars, runtime,
                outside, HeldIsRecorded
  <1> QED
    BY <1>2, <1>3, <1>4, FrameRecorded DEF Next, Environment

\* release_pressed and abort_after_injector_failure: whatever command or
\* release fails, in whatever order with anything else, the system holds no key
\* and no button that the ledger could not still release.
THEOREM NothingLost == Spec => []HeldIsRecorded
  <1>1. Init => HeldIsRecorded
    BY DEF Init, HeldIsRecorded
  <1>2. HeldIsRecorded /\ [Next]_vars => HeldIsRecorded'
    BY StepRecorded
  <1> QED
    BY <1>1, <1>2, PTL DEF Spec

\* InputSessionGate::activate and ReceiverSessionRuntime::commit: a session
\* only starts where nothing is held, not even by a release that failed before.
THEOREM StartsClean == Spec => CleanStart
  <1>1. ASSUME SessionPart, HeldIsRecorded, [Next]_vars,
               active = None, active' # None
        PROVE  os.keys = {} /\ os.buttons = {}
    <2>1. PICK c \in Connections, s \in Sessions :
            CommitPrepared(c, s) /\ MayActivate(s)
      <3>1. SessionStep
        BY <1>1, FrameSession, EnvironmentSession DEF SessionPart, Next
      <3> QED
        BY <1>1, <3>1
           DEF SessionStep, Ends, Keeps, EndsIdle, Hello, Prepare,
               CommitPrepared
    <2>2. ledger.keys = {} /\ ledger.buttons = {}
      BY <2>1 DEF MayActivate, IsEmpty
    <2> QED
      BY <1>1, <2>2 DEF HeldIsRecorded, HeldTargets
  <1>2. SessionPart /\ HeldIsRecorded /\ [Next]_vars
          => [active = None /\ active' # None
                => os.keys = {} /\ os.buttons = {}]_vars
    BY <1>1
  <1> QED
    BY <1>2, SessionPartInvariant, NothingLost, PTL DEF Spec, CleanStart

-----------------------------------------------------------------------------
(* The order of the reliable stream and of the datagrams.                  *)

MotionPart ==
    active # None => pointer.required <= applied /\ pointer.seq <= motion.highest

\* What a step must do to the pointer: keep the order within the session.
InOrder == MotionPart' /\ (active # None /\ active' = active
                             => pointer'.seq >= pointer.seq \/ pointer'.seq = 0)

\* handle_input_at: the position an event carries is not older than one applied
\* already, and the sample it lets go waited for this event or one before it.
LEMMA ApplyInputInOrder ==
    ASSUME SessionPart, MotionPart, NEW c \in Connections, NEW s \in Sessions,
           NEW seq \in 1..MaxSeq, NEW e \in Events, ApplyInput(c, s, seq, e)
    PROVE  InOrder
  <1> DEFINE highest == Later(motion.highest, Sampled(e))
             flush == Flushed(seq, highest)
  <1>1. /\ highest \in 0..MaxMotion
        /\ motion.highest \in 0..MaxMotion /\ Sampled(e) \in 0..MaxMotion
        /\ pointer.seq \in Nat /\ pointer.required \in Nat /\ applied \in Nat
    BY SampledTypes, Constants DEF SessionPart, TypeOK
  <1>2. highest >= motion.highest /\ highest >= Sampled(e)
    BY <1>1 DEF Later
  <1>3. /\ active # None /\ active' = active /\ applied' = seq
        /\ seq = applied + 1
    BY AcceptedIsActive DEF ApplyInput, SessionPart, NothingSkipped
  <1>4. pointer.required <= applied /\ pointer.seq <= motion.highest
    BY <1>3 DEF MotionPart
  <1>5. /\ motion'.highest = IF flush.moves THEN motion.pending.seq
                             ELSE highest
        /\ pointer' = IF flush.moves THEN motion.pending ELSE PointerAfter(e)
    BY DEF ApplyInput
  <1>6. CASE flush.moves
    <2>1. /\ motion.pending \in Motions
          /\ motion.pending.required <= seq
          /\ motion.pending.seq > highest
      BY <1>1, <1>6, FlushedTypes DEF SessionPart
    <2>2. motion.pending.seq \in Nat
      BY <2>1, MotionIsPointer, Constants
    <2> HIDE DEF highest, flush
    <2> QED
      BY <1>1, <1>2, <1>3, <1>4, <1>5, <1>6, <2>1, <2>2
         DEF InOrder, MotionPart
  <1>7. CASE ~flush.moves /\ Carries(e)
    <2>1. pointer'.seq = Sampled(e) /\ pointer'.required = 0
      BY <1>5, <1>7 DEF PointerAfter, Sampled
    <2>2. Sampled(e) = 0 \/ Sampled(e) >= motion.highest
      BY <1>1, <1>7 DEF ApplyInput, TooOld, Sampled
    <2> HIDE DEF highest, flush
    <2> QED
      BY <1>1, <1>2, <1>3, <1>4, <1>5, <1>7, <2>1, <2>2
         DEF InOrder, MotionPart
  <1>8. CASE ~flush.moves /\ ~Carries(e)
    <2>1. pointer' = pointer
      BY <1>5, <1>8 DEF PointerAfter
    <2> HIDE DEF highest, flush
    <2> QED
      BY <1>1, <1>2, <1>3, <1>4, <1>5, <1>8, <2>1 DEF InOrder, MotionPart
  <1> QED
    BY <1>6, <1>7, <1>8

\* handle_motion_at: a sample is applied only if it is newer than every
\* position applied and the events it depends on have been.
LEMMA ReceiveMotionInOrder ==
    ASSUME SessionPart, MotionPart, NEW c \in Connections, NEW s \in Sessions,
           NEW m \in Motions, ReceiveMotion(c, s, m)
    PROVE  InOrder
  <1>1. /\ m.seq \in Nat /\ m.required \in Nat
        /\ motion.highest \in Nat /\ pointer.seq \in Nat
        /\ m.seq > motion.highest /\ applied' = applied
    BY MotionIsPointer, Constants DEF ReceiveMotion, SessionPart, TypeOK
  <1>2. CASE MotionDue(m) /\ ApplyMotion(m)
    <2>1. /\ pointer' = m /\ motion'.highest = m.seq
          /\ m.required <= applied
      BY <1>2 DEF ApplyMotion, MotionDue, SessionPart, TypeOK
    <2> QED
      BY <1>1, <2>1 DEF InOrder, MotionPart
  <1>3. CASE /\ motion' = [motion EXCEPT !.pending =
                             IF @ = None THEN m
                             ELSE IF m.seq > @.seq THEN m ELSE @]
             /\ UNCHANGED <<active, pointer>>
    <2>1. motion'.highest = motion.highest
      BY <1>3 DEF SessionPart, TypeOK
    <2> QED
      BY <1>1, <1>3, <2>1 DEF InOrder, MotionPart
  <1>4. CASE active' = None
    BY <1>4 DEF InOrder, MotionPart
  <1> QED
    BY <1>2, <1>3, <1>4 DEF ReceiveMotion, AbortInjection

\* A frame moves the pointer only forward.
LEMMA FrameInOrder ==
    ASSUME SessionPart, MotionPart, Frame PROVE InOrder
  <1>0. pointer.seq \in Nat
    BY DEF SessionPart, TypeOK
  <1>1. ASSUME active' = None PROVE InOrder
    BY <1>1 DEF InOrder, MotionPart
  <1>2. ASSUME UNCHANGED <<active, applied, motion, pointer>> PROVE InOrder
    BY <1>0, <1>2 DEF InOrder, MotionPart
  <1>3. ASSUME NEW c \in Connections,
               \/ \E b \in Boots : Hello(c, b)
               \/ \E request \in Requests, d \in Displays :
                     Prepare(c, request, d)
               \/ \E s \in Sessions : Renew(c, s)
        PROVE  InOrder
    BY <1>1, <1>2, <1>3 DEF Hello, Prepare, Renew, outside
  <1>4. ASSUME NEW c \in Connections, NEW s \in Sessions, CommitPrepared(c, s)
        PROVE  InOrder
    <2>1. CASE MayActivate(s)
      BY <1>4, <2>1
         DEF CommitPrepared, NoPointer, NoMotion, InOrder, MotionPart
    <2>2. CASE ~MayActivate(s)
      BY <1>2, <1>4, <2>2 DEF CommitPrepared
    <2> QED
      BY <2>1, <2>2
  <1>5. ASSUME NEW c \in Connections, NEW s \in Sessions, EndSession(c, s)
        PROVE  InOrder
    <2>1. active' = None
      BY <1>5, EndSessionEnds DEF SessionPart, Ends, EndsIdle
    <2> QED
      BY <1>1, <2>1
  <1>6. ASSUME NEW c \in Connections, NEW s \in Sessions,
               NEW seq \in 1..MaxSeq, NEW e \in Events, FailInput(c, s, seq, e)
        PROVE  InOrder
    BY <1>1, <1>6 DEF FailInput, AbortInjection
  <1> QED
    BY <1>3, <1>4, <1>5, <1>6, ApplyInputInOrder, ReceiveMotionInOrder
       DEF Frame

\* Every step moves the pointer only forward.
LEMMA StepInOrder ==
    ASSUME SessionPart, MotionPart, [Next]_vars PROVE InOrder
  <1>0. pointer.seq \in Nat
    BY DEF SessionPart, TypeOK
  <1>1. ASSUME active' = None PROVE InOrder
    BY <1>1 DEF InOrder, MotionPart
  <1>2. ASSUME UNCHANGED <<active, applied, motion, pointer>> PROVE InOrder
    BY <1>0, <1>2 DEF InOrder, MotionPart
  <1>3. CASE Environment \/ Expire \/ Tick
    <2>1. \/ active' = None
          \/ UNCHANGED <<active, applied, motion, pointer>>
      BY <1>3 DEF Environment, Expire, Tick, InputStreamClosed, CloseSession,
                  UpdateDisplayLayouts, UpdateModifierMapping,
                  InjectorChanges, runtime, outside
    <2> QED
      BY <1>1, <1>2, <2>1
  <1>4. CASE UNCHANGED vars
    BY <1>2, <1>4 DEF vars, runtime, outside
  <1> QED
    BY <1>3, <1>4, FrameInOrder DEF Next

\* handle_input_at and handle_motion_at: a position that depends on reliable
\* events waits until they are applied, and within a session no sample, late or
\* kept in the slot, takes the pointer back behind a position already applied.
THEOREM StreamsActInOrder == Spec => MotionKeepsOrder
  <1>1. Init => MotionPart
    BY DEF Init, MotionPart
  <1>2. SessionPart /\ MotionPart /\ [Next]_vars => MotionPart'
    BY StepInOrder DEF InOrder
  <1>3. SessionPart /\ MotionPart /\ [Next]_vars
          => [MotionAfterInput' /\ PointerNeverOlder]_vars
    BY StepInOrder
       DEF InOrder, MotionPart, MotionAfterInput, PointerNeverOlder
  <1> QED
    BY <1>1, <1>2, <1>3, SessionPartInvariant, PTL DEF Spec, MotionKeepsOrder

-----------------------------------------------------------------------------
(* The hands of the user.  A key whose event has no scan code is known by   *)
(* the code it was mapped to, and a mapping changed while it is down loses  *)
(* it: what follows is about keyboards that send scan codes.                *)

\* The entry of the ledger for a key that is down.
Owner(held) ==
    [source |-> [by |-> "scan_code", of |-> held.key], target |-> held.target]

KeysPart ==
    /\ active = None => down = {}
    /\ active # None =>
          /\ os.keys = HeldTargets(ledger)
          /\ ledger.keys = {Owner(held) : held \in down}

\* inject: the system holds what the ledger after the event does.
LEMMA AppliedFollows ==
    ASSUME NEW e, os.keys = HeldTargets(ledger)
    PROVE  Applied(e).keys = HeldTargets(AfterEvent(e))
  BY DEF Applied, Presses, Releases

\* apply_key against what a user would count: presses of keys not yet down
\* add their entry, and a release takes away the entry of its key.
LEMMA KeyFollows ==
    ASSUME TypeOK, ScanCoded = Keys, NEW e \in Events, e.kind = "Key",
           ledger.keys = {Owner(held) : held \in down}
    PROVE  AfterEvent(e).keys = {Owner(held) : held \in AfterPhysical(e)}
  <1> DEFINE source == [by |-> "scan_code", of |-> e.key]
  <1>1. e.key \in Keys /\ e.down \in BOOLEAN
    BY DEF Events
  <1>2. Source(e.key, Remapped(e.key)) = source
    BY <1>1 DEF Source
  <1>3. AfterEvent(e) = AfterKey(ledger, source, Remapped(e.key), e.down)
    BY <1>2 DEF AfterEvent
  <1>4. \A held : Owner(held).source = source <=> held.key = e.key
    BY DEF Owner
  <1>5. CASE ~e.down
    <2>1. AfterEvent(e).keys = KeysWithout(ledger, source)
      BY <1>3, <1>5 DEF AfterKey, TypeOK, Ledgers
    <2>2. AfterPhysical(e) = {held \in down : held.key # e.key}
      BY <1>5 DEF AfterPhysical
    <2> HIDE DEF source
    <2>3. KeysWithout(ledger, source) = {Owner(held) : held \in AfterPhysical(e)}
      BY <1>4, <2>2 DEF KeysWithout, OwnedBy
    <2> QED
      BY <2>1, <2>3
  <1>6. CASE e.down /\ \E held \in down : held.key = e.key
    <2> HIDE DEF source
    <2>1. OwnedBy(ledger, source) # {}
      BY <1>4, <1>6 DEF OwnedBy
    <2>2. AfterEvent(e).keys = ledger.keys
      BY <1>3, <1>6, <2>1 DEF AfterKey, TypeOK, Ledgers
    <2>3. AfterPhysical(e) = down
      BY <1>6 DEF AfterPhysical
    <2> QED
      BY <2>2, <2>3
  <1>7. CASE e.down /\ ~\E held \in down : held.key = e.key
    <2> DEFINE new == [key |-> e.key, target |-> Remapped(e.key)]
               entry == [source |-> source, target |-> Remapped(e.key)]
    <2>1. Owner(new) = entry
      BY DEF Owner
    <2>2. AfterPhysical(e) = down \cup {new}
      BY <1>7 DEF AfterPhysical
    <2>3. OwnedBy(ledger, source) = {}
      <3> HIDE DEF source
      <3> QED
        BY <1>4, <1>7 DEF OwnedBy
    <2>4. AfterEvent(e).keys = ledger.keys \cup {entry}
      BY <1>3, <1>7, <2>3 DEF AfterKey, TypeOK, Ledgers
    <2> HIDE DEF source, new, entry
    <2> QED
      BY <2>1, <2>2, <2>4
  <1> QED
    BY <1>1, <1>5, <1>6, <1>7

\* An event does to the ledger what it does to the keys held down.
LEMMA EventFollows ==
    ASSUME TypeOK, ScanCoded = Keys, NEW e \in Events,
           ledger.keys = {Owner(held) : held \in down}
    PROVE  AfterEvent(e).keys = {Owner(held) : held \in AfterPhysical(e)}
  <1>1. CASE e.kind = "Key"
    BY <1>1, KeyFollows
  <1>2. CASE e.kind # "Key"
    <2>1. AfterPhysical(e) = down
      BY <1>2 DEF AfterPhysical
    <2>2. AfterEvent(e).keys = ledger.keys
      BY <1>2 DEF AfterEvent, AfterButton, Events, TypeOK, Ledgers
    <2> QED
      BY <2>1, <2>2
  <1> QED
    BY <1>1, <1>2

\* After a frame the ledger's keys are those of the hands.
LEMMA FrameFollows ==
    ASSUME ScanCoded = Keys, SessionPart, HeldIsRecorded, KeysPart, Frame
    PROVE  KeysPart'
  <1>1. ASSUME active' = None, down' = {} PROVE KeysPart'
    BY <1>1 DEF KeysPart
  <1>2. ASSUME UNCHANGED <<active, ledger, os, down>> PROVE KeysPart'
    BY <1>2 DEF KeysPart
  <1>3. ASSUME NEW c \in Connections, NEW b \in Boots, Hello(c, b)
        PROVE  KeysPart'
    BY <1>3 DEF Hello, KeysPart
  <1>4. ASSUME NEW c \in Connections,
               \/ \E request \in Requests, d \in Displays :
                     Prepare(c, request, d)
               \/ \E s \in Sessions : Renew(c, s)
        PROVE  KeysPart'
    BY <1>2, <1>4 DEF Prepare, Renew, outside
  <1>5. ASSUME NEW c \in Connections, NEW s \in Sessions, CommitPrepared(c, s)
        PROVE  KeysPart'
    <2>1. UNCHANGED <<ledger, os, down>> /\ active = None
      BY <1>5 DEF CommitPrepared
    <2>2. CASE MayActivate(s)
      <3>1. ledger.keys = {} /\ down = {}
        BY <2>1, <2>2 DEF MayActivate, IsEmpty, KeysPart
      <3>2. HeldTargets(ledger) = {} /\ os.keys = {}
        BY <3>1 DEF HeldTargets, HeldIsRecorded
      <3> QED
        BY <2>1, <3>1, <3>2 DEF KeysPart, HeldTargets
    <2>3. CASE ~MayActivate(s)
      BY <1>2, <1>5, <2>1, <2>3 DEF CommitPrepared
    <2> QED
      BY <2>2, <2>3
  <1>6. ASSUME NEW c \in Connections, NEW s \in Sessions, EndSession(c, s)
        PROVE  KeysPart'
    <2>1. CASE active = s
      BY <1>1, <1>6, <2>1 DEF EndSession, CloseSession
    <2>2. CASE active # s
      <3>1. UNCHANGED <<active, down>>
        BY <1>6, <2>2 DEF EndSession
      <3>2. active = None
        BY <1>6, <2>2, EndSessionEnds
           DEF SessionPart, EndSession, AnswersEnd, SessionAgreement, ActiveIn
      <3> QED
        BY <3>1, <3>2 DEF KeysPart
    <2> QED
      BY <2>1, <2>2
  <1>7. ASSUME NEW c \in Connections, NEW s \in Sessions,
               NEW seq \in 1..MaxSeq, NEW e \in Events, ApplyInput(c, s, seq, e)
        PROVE  KeysPart'
    <2>1. active # None /\ active' = active
      BY <1>7, AcceptedIsActive DEF ApplyInput, SessionPart
    <2>2. /\ os' = Applied(e) /\ ledger' = AfterEvent(e)
          /\ down' = AfterPhysical(e)
      BY <1>7 DEF ApplyInput
    <2>3. os.keys = HeldTargets(ledger)
      BY <2>1 DEF KeysPart
    <2>4. ledger'.keys = {Owner(held) : held \in down'}
      BY <2>1, <2>2, EventFollows DEF KeysPart, SessionPart
    <2>5. Applied(e).keys = HeldTargets(AfterEvent(e))
      BY <2>3, AppliedFollows
    <2> QED
      BY <2>1, <2>2, <2>4, <2>5 DEF KeysPart
  <1>8. ASSUME NEW c \in Connections, NEW s \in Sessions,
               \/ \E seq \in 1..MaxSeq, e \in Events : FailInput(c, s, seq, e)
               \/ \E m \in Motions : ReceiveMotion(c, s, m)
        PROVE  KeysPart'
    <2>1. \/ active' = None /\ down' = {}
          \/ UNCHANGED <<active, ledger, os, down>>
      BY <1>8 DEF FailInput, ReceiveMotion, AbortInjection
    <2> QED
      BY <1>1, <1>2, <2>1
  <1> QED
    BY <1>3, <1>4, <1>5, <1>6, <1>7, <1>8 DEF Frame

\* After any step the ledger's keys are those of the hands.
LEMMA StepFollows ==
    ASSUME ScanCoded = Keys, SessionPart, HeldIsRecorded, KeysPart,
           [Next]_vars
    PROVE  KeysPart'
  <1>1. \/ Frame
        \/ active' = None /\ down' = {}
        \/ UNCHANGED <<active, ledger, os, down>>
    BY DEF Next, Environment, Expire, Tick, InputStreamClosed, CloseSession,
           UpdateDisplayLayouts, UpdateModifierMapping, InjectorChanges, vars,
           runtime, outside
  <1>2. CASE active' = None /\ down' = {}
    BY <1>2 DEF KeysPart
  <1>3. CASE UNCHANGED <<active, ledger, os, down>>
    BY <1>3 DEF KeysPart
  <1> QED
    BY <1>1, <1>2, <1>3, FrameFollows

\* The part about keys gives the property the run checks.
LEMMA KeysMean == KeysPart => KeysFollowHands
  <1> SUFFICES ASSUME KeysPart, active # None
               PROVE  os.keys = {held.target : held \in down}
    BY DEF KeysFollowHands, NoStuckKey, NoEarlyRelease
  <1>1. \A held : Owner(held).target = held.target
    BY DEF Owner
  <1> QED
    BY <1>1 DEF KeysPart, HeldTargets

\* PressedState with the keys of a session: whatever mappings change while keys
\* are down, however many share a target, the system holds exactly the targets
\* of the keys the user holds, until the session ends.
THEOREM HandsAreFollowed == ScanCoded = Keys => (Spec => []KeysFollowHands)
  <1> SUFFICES ASSUME ScanCoded = Keys PROVE Spec => []KeysFollowHands
    OBVIOUS
  <1>1. Init => KeysPart
    BY DEF Init, KeysPart
  <1>2. SessionPart /\ HeldIsRecorded /\ KeysPart /\ [Next]_vars => KeysPart'
    BY StepFollows
  <1> QED
    BY <1>1, <1>2, KeysMean, SessionPartInvariant, NothingLost, PTL DEF Spec
=============================================================================
