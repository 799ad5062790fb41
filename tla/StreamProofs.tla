----------------------------- MODULE StreamProofs -----------------------------
(***************************************************************************)
(* Proofs about what crosses a QUIC connection: the motion slot, a         *)
(* critical input stream from try_send to on_input, the memory and the     *)
(* answers of bulk payloads, and the wire format that a reader takes apart *)
(* in chunks, for any number of slots, sends, frames, bytes and payloads   *)
(* and any limits.  Sums, decoded bytes and the ends of envelopes are      *)
(* recursive functions: what holds of them is proved by induction over the *)
(* sets of the arguments it holds for.  TrafficMoves stays with the model  *)
(* checker.                                                                *)
(***************************************************************************)
EXTENDS MotionSlot, InputStream, BulkStreams, Codec, SequenceTheorems, FiniteSetTheorems, WellFoundedInduction, TLAPS

(* The motion slot.                                                         *)

\* The positions in the slot and with the loop are newer than what was sent,
\* and the one in the slot is newer than the one with the loop.
OrderPart ==
    \A s \in SlotIds :
        /\ sent[s] <= stored[s]
        /\ latest[s] # NoPosition => sent[s] < latest[s] /\ latest[s] <= stored[s]
        /\ Cur = s /\ loop.at = "send" =>
              /\ loop.frame # NoPosition
              /\ sent[s] < loop.frame /\ loop.frame <= stored[s]
              /\ latest[s] # NoPosition => loop.frame < latest[s]

\* The client has a motion whenever it is somewhere in a call.
OpenPart == motion.at # "none" => motion.slot \in SlotIds

SlotInv == SlotTypeOK /\ OpenPart /\ OrderPart
-----------------------------------------------------------------------------
(* Types and the order of the positions.                                    *)

\* The assumptions on the constants, in the form the proofs use.
LEMMA SlotFacts == Slots \in Nat \ {0} /\ MaxFrames \in Nat /\ NoPosition \notin Nat /\ 1 \in SlotIds
  BY SlotBounds DEF SlotIds

\* The slots start empty.
LEMMA InitSlotInv == SlotInit => SlotInv
  <1> SUFFICES ASSUME SlotInit PROVE SlotInv
    OBVIOUS
  <1>1. flushes \in Seq(SlotIds)
    BY DEF SlotInit
  <1>2. loop \in [at : {"recv", "take", "send", "unschedule", "recheck", "swap", "enqueue"},
                 slot : SlotIds, frame : Positions \cup {NoPosition}]
    BY SlotFacts DEF SlotInit
  <1>3. motion \in [slot : 0..Slots, at : {"none", "idle", "stored", "enqueue", "dropping"}]
    BY SlotFacts DEF SlotInit
  <1>4. latest \in [SlotIds -> Positions \cup {NoPosition}]
    BY DEF SlotInit
  <1>5. scheduled \in [SlotIds -> BOOLEAN] /\ closed \in [SlotIds -> BOOLEAN]
    BY Zenon DEF SlotInit
  <1>6. stored \in [SlotIds -> 0..MaxFrames] /\ sent \in [SlotIds -> 0..MaxFrames]
    BY SlotFacts DEF SlotInit
  <1>7. SlotTypeOK
    BY <1>1, <1>2, <1>3, <1>4, <1>5, <1>6 DEF SlotTypeOK
  <1>8. OpenPart
    BY DEF SlotInit, OpenPart
  <1>9. OrderPart
    BY DEF SlotInit, OrderPart, Cur
  <1> QED BY <1>7, <1>8, <1>9 DEF SlotInv

\* The client's calls.
LEMMA ClientSlotInv ==
    ASSUME SlotInv, OpenMotion \/ StorePosition \/ Schedule \/ QueueFlush \/ CloseMotion \/ EmptyMotion
    PROVE  SlotInv'
  <1> USE SlotFacts DEF HandleAt, Own, slotFields
  <1>1. CASE OpenMotion
    <2>1. motion.slot + 1 \in SlotIds
      BY <1>1 DEF OpenMotion, SlotInv, SlotTypeOK, SlotIds
    <2>2. SlotTypeOK' /\ OpenPart'
      BY <1>1, <2>1 DEF OpenMotion, SlotInv, SlotTypeOK, OpenPart, SlotIds
    <2>3. OrderPart'
      BY <1>1 DEF OpenMotion, SlotInv, OrderPart, Cur
    <2> QED BY <2>2, <2>3 DEF SlotInv
  <1>2. CASE StorePosition
    <2>1. Own \in SlotIds /\ motion.at = "idle" /\ stored[Own] < MaxFrames
      BY <1>2 DEF StorePosition, SlotInv, OpenPart
    <2>2. stored[Own] + 1 \in Positions /\ stored[Own] + 1 \in 0..MaxFrames
      BY <2>1 DEF SlotInv, SlotTypeOK, Positions
    <2>3. stored' \in [SlotIds -> 0..MaxFrames] /\ latest' \in [SlotIds -> Positions \cup {NoPosition}]
      BY <1>2, <2>2 DEF StorePosition, SlotInv, SlotTypeOK
    <2>4. motion' \in [slot : 0..Slots, at : {"none", "idle", "stored", "enqueue", "dropping"}]
          /\ motion'.slot = motion.slot
      BY <1>2 DEF StorePosition, SlotInv, SlotTypeOK
    <2>5. SlotTypeOK'
      BY <1>2, <2>3, <2>4 DEF StorePosition, SlotInv, SlotTypeOK
    <2>6. OpenPart'
      BY <2>1, <2>4 DEF OpenPart
    <2>7. \A s \in SlotIds \ {Own} : stored'[s] = stored[s] /\ latest'[s] = latest[s]
      BY <1>2 DEF StorePosition, SlotInv, SlotTypeOK
    <2>8. stored'[Own] = stored[Own] + 1 /\ latest'[Own] = stored[Own] + 1
      BY <1>2, <2>1 DEF StorePosition, SlotInv, SlotTypeOK
    <2>9. UNCHANGED <<sent, loop>>
      BY <1>2 DEF StorePosition
    <2>10. stored \in [SlotIds -> Nat] /\ sent \in [SlotIds -> Nat]
           /\ loop.frame \in Nat \cup {NoPosition}
      BY DEF SlotInv, SlotTypeOK, Positions
    <2>11. OrderPart'
      BY <2>1, <2>7, <2>8, <2>9, <2>10 DEF SlotInv, OrderPart, Cur
    <2> QED BY <2>5, <2>6, <2>11 DEF SlotInv
  <1>3. CASE Schedule \/ QueueFlush \/ CloseMotion
    <2>1. UNCHANGED <<latest, stored, sent, loop>>
      BY <1>3 DEF Schedule, QueueFlush, CloseMotion
    <2>2. scheduled' \in [SlotIds -> BOOLEAN] /\ closed' \in [SlotIds -> BOOLEAN]
      <3>1. CASE Schedule
        BY <3>1 DEF Schedule, SlotInv, SlotTypeOK
      <3>2. CASE QueueFlush
        BY <3>2 DEF QueueFlush, SlotInv, SlotTypeOK
      <3>3. CASE CloseMotion
        BY <3>3 DEF CloseMotion, SlotInv, SlotTypeOK
      <3> QED BY <1>3, <3>1, <3>2, <3>3
    <2>3. motion' \in [slot : 0..Slots, at : {"none", "idle", "stored", "enqueue", "dropping"}]
          /\ motion'.slot = motion.slot /\ motion.at # "none"
      BY <1>3 DEF Schedule, QueueFlush, CloseMotion, SlotInv, SlotTypeOK
    <2>4. Own \in SlotIds
      BY <2>3 DEF SlotInv, OpenPart
    <2>5. flushes' \in Seq(SlotIds)
      <3>1. flushes \in Seq(SlotIds)
        BY DEF SlotInv, SlotTypeOK
      <3>2. flushes' = flushes \/ flushes' = Append(flushes, Own)
        BY <1>3 DEF Schedule, QueueFlush, CloseMotion
      <3> QED BY <2>4, <3>1, <3>2 DEF Own
    <2>6. SlotTypeOK' /\ OpenPart'
      BY <2>1, <2>2, <2>3, <2>4, <2>5 DEF SlotInv, SlotTypeOK, OpenPart
    <2>7. OrderPart'
      BY <2>1 DEF SlotInv, OrderPart, Cur
    <2> QED BY <2>6, <2>7 DEF SlotInv
  <1>4. CASE EmptyMotion
    <2>1. latest' \in [SlotIds -> Positions \cup {NoPosition}] /\ UNCHANGED <<flushes, scheduled, closed, stored, loop, sent>>
      BY <1>4 DEF EmptyMotion, SlotInv, SlotTypeOK
    <2>2. motion' \in [slot : 0..Slots, at : {"none", "idle", "stored", "enqueue", "dropping"}]
          /\ motion'.at = "none"
      BY <1>4 DEF EmptyMotion, SlotInv, SlotTypeOK
    <2>3. SlotTypeOK' /\ OpenPart'
      BY <2>1, <2>2 DEF SlotInv, SlotTypeOK, OpenPart
    <2>4. \A s \in SlotIds : latest'[s] = latest[s] \/ latest'[s] = NoPosition
      BY <1>4 DEF EmptyMotion, SlotInv, SlotTypeOK
    <2>5. OrderPart'
      BY <2>1, <2>4 DEF SlotInv, OrderPart, Cur
    <2> QED BY <2>3, <2>5 DEF SlotInv
  <1> QED BY <1>1, <1>2, <1>3, <1>4

\* The loop: it takes a position, sends it and looks again.
LEMMA LoopSlotInv ==
    ASSUME SlotInv, LoopStep
    PROVE  SlotInv'
  <1> USE SlotFacts DEF LoopAt, LoopTo, Cur, slotFields
  <1> DEFINE Loops == [at : {"recv", "take", "send", "unschedule", "recheck", "swap", "enqueue"},
                       slot : SlotIds, frame : Positions \cup {NoPosition}]
  <1>0. loop \in Loops /\ Cur \in SlotIds
    BY DEF SlotInv, SlotTypeOK
  <1>1. CASE RecvFlush
    <2>1. flushes \in Seq(SlotIds) /\ flushes # <<>> /\ flushes' = Tail(flushes)
      BY <1>1 DEF RecvFlush, SlotInv, SlotTypeOK
    <2>2. Head(flushes) \in SlotIds /\ flushes' \in Seq(SlotIds)
      BY <2>1
    <2>3. loop' \in Loops
      BY <1>0, <1>1, <2>2 DEF RecvFlush
    <2>4. loop'.at # "send"
      BY <1>1 DEF RecvFlush
    <2>5. scheduled' \in [SlotIds -> BOOLEAN]
      <3>1. scheduled' = scheduled \/ scheduled' = [scheduled EXCEPT ![Head(flushes)] = FALSE]
        BY <1>1 DEF RecvFlush
      <3> QED BY <3>1 DEF SlotInv, SlotTypeOK
    <2>6. UNCHANGED <<motion, stored, closed, latest, sent>>
      BY <1>1 DEF RecvFlush
    <2>7. SlotTypeOK' /\ OpenPart'
      BY <2>2, <2>3, <2>5, <2>6 DEF SlotInv, SlotTypeOK, OpenPart
    <2>8. OrderPart'
      BY <2>4, <2>6 DEF SlotInv, OrderPart
    <2> QED BY <2>7, <2>8 DEF SlotInv
  <1>2. CASE TakeLatest
    <2>1. latest' = [latest EXCEPT ![Cur] = NoPosition] /\ UNCHANGED <<motion, stored, closed, flushes, scheduled, sent>>
      BY <1>2 DEF TakeLatest
    <2>2. latest[Cur] \in Positions \cup {NoPosition}
      BY <1>0 DEF SlotInv, SlotTypeOK
    <2>3. loop' \in Loops /\ loop'.slot = loop.slot /\ loop'.frame = latest[Cur]
          /\ (loop'.at = "send" => latest[Cur] # NoPosition)
      BY <1>0, <1>2, <2>2 DEF TakeLatest
    <2>4. latest'[Cur] = NoPosition /\ \A s \in SlotIds \ {Cur} : latest'[s] = latest[s]
      BY <1>0, <2>1 DEF SlotInv, SlotTypeOK
    <2>5. latest' \in [SlotIds -> Positions \cup {NoPosition}]
      BY <2>1 DEF SlotInv, SlotTypeOK
    <2>6. SlotTypeOK' /\ OpenPart'
      BY <2>1, <2>3, <2>5 DEF SlotInv, SlotTypeOK, OpenPart
    <2>7. OrderPart'
      BY <1>0, <2>1, <2>3, <2>4 DEF SlotInv, OrderPart
    <2> QED BY <2>6, <2>7 DEF SlotInv
  <1>3. CASE SendPosition
    <2>1. UNCHANGED <<motion, stored, closed, flushes, latest, scheduled>> /\ loop.at = "send"
      BY <1>3 DEF SendPosition
    <2>2. loop' \in Loops /\ loop'.at = "unschedule"
      BY <1>0, <1>3 DEF SendPosition
    <2>3. \A s \in SlotIds : sent'[s] = sent[s] \/ (s = Cur /\ sent'[s] = loop.frame)
      <3>1. sent' = sent \/ sent' = [sent EXCEPT ![Cur] = loop.frame]
        BY <1>3 DEF SendPosition
      <3>2. sent \in [SlotIds -> 0..MaxFrames]
        BY DEF SlotInv, SlotTypeOK
      <3> QED BY <1>0, <3>1, <3>2
    <2>4. loop.frame \in 0..MaxFrames
      BY <1>0, <2>1 DEF SlotInv, OrderPart, Positions
    <2>5. sent' \in [SlotIds -> 0..MaxFrames]
      BY <1>3, <2>4 DEF SendPosition, SlotInv, SlotTypeOK
    <2>6. SlotTypeOK' /\ OpenPart'
      BY <2>1, <2>2, <2>5 DEF SlotInv, SlotTypeOK, OpenPart
    <2>7. OrderPart'
      BY <1>0, <2>1, <2>2, <2>3 DEF SlotInv, OrderPart
    <2> QED BY <2>6, <2>7 DEF SlotInv
  <1>4. CASE Unschedule \/ Recheck \/ Reschedule \/ RequeueFlush
    <2>1. UNCHANGED <<motion, stored, closed, latest, sent>>
      BY <1>4 DEF Unschedule, Recheck, Reschedule, RequeueFlush
    <2>2. loop' \in Loops /\ loop'.at # "send"
      <3>1. \E at \in {"recheck", "swap", "recv", "enqueue"} : loop' = [loop EXCEPT !.at = at]
        BY <1>4 DEF Unschedule, Recheck, Reschedule, RequeueFlush
      <3> QED BY <1>0, <3>1
    <2>3. scheduled' \in [SlotIds -> BOOLEAN]
      <3>1. scheduled' = scheduled \/ \E b \in BOOLEAN : scheduled' = [scheduled EXCEPT ![Cur] = b]
        BY <1>4 DEF Unschedule, Recheck, Reschedule, RequeueFlush
      <3> QED BY <3>1 DEF SlotInv, SlotTypeOK
    <2>4. flushes' \in Seq(SlotIds)
      <3>1. flushes \in Seq(SlotIds)
        BY DEF SlotInv, SlotTypeOK
      <3>2. flushes' = flushes \/ flushes' = Append(flushes, Cur)
        BY <1>4 DEF Unschedule, Recheck, Reschedule, RequeueFlush
      <3> QED BY <1>0, <3>1, <3>2
    <2>5. SlotTypeOK' /\ OpenPart'
      BY <2>1, <2>2, <2>3, <2>4 DEF SlotInv, SlotTypeOK, OpenPart
    <2>6. OrderPart'
      BY <2>1, <2>2 DEF SlotInv, OrderPart
    <2> QED BY <2>5, <2>6 DEF SlotInv
  <1> QED BY <1>1, <1>2, <1>3, <1>4 DEF LoopStep

\* Every step keeps types and order.
LEMMA StepSlotInv == SlotInv /\ [SlotNext]_slotVars => SlotInv'
  <1> SUFFICES ASSUME SlotInv, [SlotNext]_slotVars PROVE SlotInv'
    OBVIOUS
  <1>1. CASE UNCHANGED slotVars
    BY <1>1 DEF slotVars, slotFields, SlotInv, SlotTypeOK, OpenPart, OrderPart, Cur
  <1> QED BY <1>1, ClientSlotInv, LoopSlotInv DEF SlotNext, SlotCall

\* Types and order of the slot.
THEOREM SlotTypes == SlotSpec => []SlotInv
  BY InitSlotInv, StepSlotInv, PTL DEF SlotSpec

\* Positions leave in their order, none twice, and none after the motion is gone
\* (flush_motion_nonblocking).
THEOREM PositionsMoveForward == SlotSpec => MovesForward
  <1> DEFINE forward == \A s \in SlotIds : sent'[s] # sent[s] => sent'[s] > sent[s] /\ ~closed[s]
  <1>1. SlotInv /\ [SlotNext]_slotVars => [forward]_slotVars
    <2> SUFFICES ASSUME SlotInv, SlotNext PROVE forward
      OBVIOUS
    <2>1. CASE SendPosition
      <3>1. /\ loop.at = "send"
            /\ \A s \in SlotIds : sent'[s] # sent[s] => s = Cur /\ sent'[s] = loop.frame /\ ~closed[s]
        BY <2>1 DEF SendPosition, LoopAt, MaySend, SlotInv, SlotTypeOK
      <3>2. loop.frame \in Nat /\ sent \in [SlotIds -> Nat]
        BY <3>1 DEF SlotInv, SlotTypeOK, OrderPart, Positions, Cur
      <3> QED
        BY <3>1, <3>2 DEF SlotInv, OrderPart
    <2>2. CASE ~SendPosition
      <3>1. UNCHANGED sent
        BY <2>2 DEF SlotNext, SlotCall, LoopStep, OpenMotion, StorePosition, CloseMotion, Schedule,
                QueueFlush, EmptyMotion, HandleAt, RecvFlush, TakeLatest, Unschedule, Recheck,
                Reschedule, RequeueFlush
      <3> QED BY <3>1
    <2> QED BY <2>1, <2>2
  <1> QED
    BY <1>1, SlotTypes, PTL DEF SlotSpec, MovesForward
-----------------------------------------------------------------------------
(* No position is forgotten.                                                *)

\* A slot's three ways to be looked after survive every step of the client.
LEMMA ClientNotStranded ==
    ASSUME SlotInv, NotStranded,
           OpenMotion \/ StorePosition \/ Schedule \/ QueueFlush \/ CloseMotion \/ EmptyMotion
    PROVE  NotStranded'
  <1> USE DEF HandleAt, Own, Cur, slotFields
  <1> SUFFICES ASSUME NEW s \in SlotIds, latest'[s] # NoPosition, ~closed'[s]
               PROVE  scheduled'[s] \/ (Cur' = s /\ loop'.at \in {"recheck", "swap"})
                      \/ (Own' = s /\ motion'.at = "stored")
    BY DEF NotStranded
  <1>0. /\ latest \in [SlotIds -> Positions \cup {NoPosition}] /\ closed \in [SlotIds -> BOOLEAN]
        /\ scheduled \in [SlotIds -> BOOLEAN]
        /\ motion \in [slot : 0..Slots, at : {"none", "idle", "stored", "enqueue", "dropping"}]
    BY DEF SlotInv, SlotTypeOK
  <1>1. CASE OpenMotion \/ QueueFlush
    BY <1>1 DEF OpenMotion, QueueFlush, NotStranded
  <1>2. CASE StorePosition
    <2>1. CASE s = Own
      BY <1>0, <1>2, <2>1 DEF StorePosition
    <2>2. CASE s # Own
      BY <1>0, <1>2, <2>2 DEF StorePosition, NotStranded
    <2> QED BY <2>1, <2>2
  <1>3. CASE Schedule
    <2>1. CASE s = Own
      BY <1>0, <1>3, <2>1 DEF Schedule
    <2>2. CASE s # Own
      BY <1>0, <1>3, <2>2 DEF Schedule, NotStranded
    <2> QED BY <2>1, <2>2
  <1>4. CASE CloseMotion \/ EmptyMotion
    <2>1. latest[s] # NoPosition /\ ~closed[s] /\ motion.at # "stored" /\ UNCHANGED <<scheduled, loop>>
      <3>1. CASE CloseMotion
        BY <1>0, <3>1 DEF CloseMotion
      <3>2. CASE EmptyMotion
        BY <1>0, <3>2 DEF EmptyMotion
      <3> QED BY <1>4, <3>1, <3>2
    <2> QED BY <2>1 DEF NotStranded
  <1> QED BY <1>1, <1>2, <1>3, <1>4

\* And every step of the loop.
LEMMA LoopNotStranded ==
    ASSUME SlotInv, NotStranded, LoopStep
    PROVE  NotStranded'
  <1> USE DEF LoopAt, LoopTo, Own, Cur
  <1> SUFFICES ASSUME NEW s \in SlotIds, latest'[s] # NoPosition, ~closed'[s]
               PROVE  scheduled'[s] \/ (Cur' = s /\ loop'.at \in {"recheck", "swap"})
                      \/ (Own' = s /\ motion'.at = "stored")
    BY DEF NotStranded
  <1>0. /\ latest \in [SlotIds -> Positions \cup {NoPosition}] /\ closed \in [SlotIds -> BOOLEAN]
        /\ scheduled \in [SlotIds -> BOOLEAN]
        /\ loop \in [at : {"recv", "take", "send", "unschedule", "recheck", "swap", "enqueue"},
                     slot : SlotIds, frame : Positions \cup {NoPosition}]
    BY DEF SlotInv, SlotTypeOK
  <1>1. CASE RecvFlush
    <2>1. scheduled' = scheduled \/ (closed[Head(flushes)]
                                     /\ scheduled' = [scheduled EXCEPT ![Head(flushes)] = FALSE])
      BY <1>1 DEF RecvFlush
    <2>2. UNCHANGED <<latest, closed, motion>> /\ loop.at = "recv"
      BY <1>1 DEF RecvFlush
    <2>3. scheduled'[s] = scheduled[s]
      BY <1>0, <2>1, <2>2
    <2> QED BY <2>2, <2>3 DEF NotStranded
  <1>2. CASE TakeLatest
    <2>1. latest[s] # NoPosition /\ loop.at = "take" /\ UNCHANGED <<scheduled, closed, motion>>
      BY <1>0, <1>2 DEF TakeLatest
    <2> QED BY <2>1 DEF NotStranded
  <1>3. CASE SendPosition \/ RequeueFlush
    <2>1. loop.at \in {"send", "enqueue"} /\ UNCHANGED <<scheduled, latest, closed, motion>>
      BY <1>3 DEF SendPosition, RequeueFlush
    <2> QED BY <2>1 DEF NotStranded
  <1>4. CASE Unschedule
    <2>1. CASE s = Cur
      BY <1>0, <1>4, <2>1 DEF Unschedule
    <2>2. CASE s # Cur
      BY <1>0, <1>4, <2>2 DEF Unschedule, NotStranded
    <2> QED BY <2>1, <2>2
  <1>5. CASE Recheck
    <2>1. CASE s = Cur
      BY <1>0, <1>5, <2>1 DEF Recheck, HasNewer
    <2>2. CASE s # Cur
      BY <1>0, <1>5, <2>2 DEF Recheck, NotStranded
    <2> QED BY <2>1, <2>2
  <1>6. CASE Reschedule
    <2>1. CASE s = Cur
      BY <1>0, <1>6, <2>1 DEF Reschedule
    <2>2. CASE s # Cur
      BY <1>0, <1>6, <2>2 DEF Reschedule, NotStranded
    <2> QED BY <2>1, <2>2
  <1> QED BY <1>1, <1>2, <1>3, <1>4, <1>5, <1>6 DEF LoopStep

\* A position stored while a flush runs is not forgotten: a flush is scheduled, or
\* the loop or the client has still to look (schedule_motion,
\* flush_motion_nonblocking).
THEOREM NoneStranded == SlotSpec => []NotStranded
  <1>1. SlotInit => NotStranded
    BY DEF SlotInit, NotStranded
  <1>2. SlotInv /\ NotStranded /\ [SlotNext]_slotVars => NotStranded'
    <2> SUFFICES ASSUME SlotInv, NotStranded, [SlotNext]_slotVars PROVE NotStranded'
      OBVIOUS
    <2>1. CASE UNCHANGED slotVars
      BY <2>1 DEF slotVars, slotFields, NotStranded, Cur, Own
    <2> QED BY <2>1, ClientNotStranded, LoopNotStranded DEF SlotNext, SlotCall
  <1> QED BY <1>1, <1>2, SlotTypes, PTL DEF SlotSpec
-----------------------------------------------------------------------------
(* One flush per slot.                                                      *)

\* What a flush at the end of the queue adds.
LEMMA QueueGrows ==
    ASSUME flushes \in Seq(SlotIds), NEW q \in SlotIds, flushes' = Append(flushes, q), ~InQueue(q),
           \A i, j \in 1..Len(flushes) : flushes[i] = flushes[j] => i = j
    PROVE  /\ \A s \in SlotIds : InQueue(s)' <=> InQueue(s) \/ s = q
           /\ \A i, j \in 1..Len(flushes') : flushes'[i] = flushes'[j] => i = j
  <1>1. /\ Len(flushes') = Len(flushes) + 1 /\ flushes'[Len(flushes) + 1] = q
        /\ \A i \in 1..Len(flushes) : flushes'[i] = flushes[i]
        /\ Len(flushes) \in Nat
    OBVIOUS
  <1>2. \A i \in 1..Len(flushes') : i \in 1..Len(flushes) \/ i = Len(flushes) + 1
    BY <1>1
  <1>3. \A i \in 1..Len(flushes) : flushes[i] # q
    BY DEF InQueue
  <1>4. \A s \in SlotIds : InQueue(s)' <=> InQueue(s) \/ s = q
    BY <1>1, <1>2 DEF InQueue
  <1>5. \A i, j \in 1..Len(flushes') : flushes'[i] = flushes'[j] => i = j
    BY <1>1, <1>2, <1>3
  <1> QED BY <1>4, <1>5

\* What a received flush takes away.
LEMMA QueueShrinks ==
    ASSUME flushes \in Seq(SlotIds), flushes # <<>>, flushes' = Tail(flushes),
           \A i, j \in 1..Len(flushes) : flushes[i] = flushes[j] => i = j
    PROVE  /\ InQueue(Head(flushes)) /\ Head(flushes) \in SlotIds
           /\ \A s \in SlotIds : InQueue(s)' <=> InQueue(s) /\ s # Head(flushes)
           /\ \A i, j \in 1..Len(flushes') : flushes'[i] = flushes'[j] => i = j
  <1>1. /\ Len(flushes) \in Nat \ {0} /\ Len(flushes') = Len(flushes) - 1
        /\ \A i \in 1..Len(flushes') : flushes'[i] = flushes[i + 1]
        /\ Head(flushes) = flushes[1] /\ flushes[1] \in SlotIds
    OBVIOUS
  <1>2. \A i \in 1..Len(flushes') : i + 1 \in 1..Len(flushes) /\ i + 1 # 1
    BY <1>1
  <1>3. \A i \in 1..Len(flushes) : i = 1 \/ i - 1 \in 1..Len(flushes')
    BY <1>1
  <1>4. 1 \in 1..Len(flushes)
    BY <1>1
  <1>5. InQueue(Head(flushes)) /\ Head(flushes) \in SlotIds
    BY <1>1, <1>4 DEF InQueue
  <1>6. \A i, j \in 1..Len(flushes') : flushes'[i] = flushes'[j] => i = j
    <2> SUFFICES ASSUME NEW i \in 1..Len(flushes'), NEW j \in 1..Len(flushes'),
                        flushes'[i] = flushes'[j]
                 PROVE  i = j
      OBVIOUS
    <2>1. flushes[i + 1] = flushes[j + 1] /\ i + 1 \in 1..Len(flushes) /\ j + 1 \in 1..Len(flushes)
      BY <1>1, <1>2
    <2>2. i + 1 = j + 1
      BY <2>1
    <2> QED BY <1>1, <2>2
  <1>7. \A s \in SlotIds : InQueue(s)' => InQueue(s) /\ s # Head(flushes)
    <2> SUFFICES ASSUME NEW s \in SlotIds, NEW i \in 1..Len(flushes'), flushes'[i] = s
                 PROVE  InQueue(s) /\ s # Head(flushes)
      BY DEF InQueue
    <2>1. i + 1 \in 1..Len(flushes) /\ flushes[i + 1] = s /\ i + 1 # 1
      BY <1>1, <1>2
    <2> QED BY <1>1, <1>4, <2>1 DEF InQueue
  <1>8. \A s \in SlotIds : InQueue(s) /\ s # Head(flushes) => InQueue(s)'
    <2> SUFFICES ASSUME NEW s \in SlotIds, s # Head(flushes), NEW i \in 1..Len(flushes), flushes[i] = s
                 PROVE  InQueue(s)'
      BY DEF InQueue
    <2>1. i # 1 /\ i - 1 \in 1..Len(flushes')
      BY <1>1, <1>3
    <2>2. flushes'[i - 1] = flushes[(i - 1) + 1] /\ (i - 1) + 1 = i
      BY <1>1, <2>1
    <2> QED BY <2>1, <2>2 DEF InQueue
  <1> QED BY <1>5, <1>6, <1>7, <1>8

\* The client sets the bit before it queues, and queues only if it set it.
LEMMA ClientOneOwner ==
    ASSUME SlotInv, BitHasOneOwner,
           OpenMotion \/ StorePosition \/ Schedule \/ QueueFlush \/ CloseMotion \/ EmptyMotion
    PROVE  BitHasOneOwner'
  <1> USE DEF HandleAt, Own, Cur, slotFields
  <1>0. /\ flushes \in Seq(SlotIds) /\ scheduled \in [SlotIds -> BOOLEAN]
        /\ motion \in [slot : 0..Slots, at : {"none", "idle", "stored", "enqueue", "dropping"}]
        /\ (motion.at # "none" => Own \in SlotIds)
    BY DEF SlotInv, SlotTypeOK, OpenPart
  <1>1. CASE OpenMotion \/ StorePosition \/ CloseMotion \/ EmptyMotion
    <2>1. UNCHANGED <<flushes, scheduled, loop>> /\ motion.at # "enqueue" /\ motion'.at # "enqueue"
      BY <1>0, <1>1 DEF OpenMotion, StorePosition, CloseMotion, EmptyMotion
    <2> QED BY <2>1 DEF BitHasOneOwner, InQueue, LoopOwns, ClientOwns
  <1>2. CASE Schedule
    <2>1. UNCHANGED <<flushes, loop>> /\ motion.at = "stored" /\ Own' = Own /\ Own \in SlotIds
      BY <1>0, <1>2 DEF Schedule
    <2>2. motion'.at = "enqueue" <=> ~scheduled[Own]
      BY <1>0, <1>2 DEF Schedule, MustQueue
    <2>3. scheduled'[Own] /\ \A s \in SlotIds \ {Own} : scheduled'[s] = scheduled[s]
      BY <1>0, <1>2, <2>1 DEF Schedule
    <2>4. \A s \in SlotIds : (InQueue(s)' <=> InQueue(s)) /\ (LoopOwns(s)' <=> LoopOwns(s)) /\ ~ClientOwns(s)
      BY <2>1 DEF InQueue, LoopOwns, ClientOwns
    <2>5. \A s \in SlotIds : ClientOwns(s)' <=> s = Own /\ ~scheduled[Own]
      BY <2>1, <2>2 DEF ClientOwns
    <2>6. \A s \in SlotIds :
            /\ scheduled'[s] <=> InQueue(s)' \/ LoopOwns(s)' \/ ClientOwns(s)'
            /\ ~(InQueue(s)' /\ LoopOwns(s)') /\ ~(InQueue(s)' /\ ClientOwns(s)')
            /\ ~(LoopOwns(s)' /\ ClientOwns(s)')
      BY <2>1, <2>3, <2>4, <2>5 DEF BitHasOneOwner
    <2> QED BY <2>1, <2>6 DEF BitHasOneOwner
  <1>3. CASE QueueFlush
    <2>1. /\ flushes' = Append(flushes, Own) /\ UNCHANGED <<loop, scheduled>> /\ motion.at = "enqueue"
          /\ motion'.at = "idle" /\ Own \in SlotIds
      BY <1>0, <1>3 DEF QueueFlush
    <2>2. ClientOwns(Own) /\ ~InQueue(Own)
      BY <2>1 DEF BitHasOneOwner, ClientOwns
    <2>3. /\ \A s \in SlotIds : InQueue(s)' <=> InQueue(s) \/ s = Own
          /\ \A i, j \in 1..Len(flushes') : flushes'[i] = flushes'[j] => i = j
      BY <1>0, <2>1, <2>2, QueueGrows DEF BitHasOneOwner
    <2>4. \A s \in SlotIds : /\ LoopOwns(s)' <=> LoopOwns(s)
                             /\ ClientOwns(s) <=> s = Own
                             /\ ~ClientOwns(s)'
      BY <2>1 DEF LoopOwns, ClientOwns
    <2> QED BY <2>1, <2>2, <2>3, <2>4 DEF BitHasOneOwner
  <1> QED BY <1>1, <1>2, <1>3

\* The loop clears the bit it was called with, and queues only if it set it again.
LEMMA LoopOneOwner ==
    ASSUME SlotInv, BitHasOneOwner, LoopStep
    PROVE  BitHasOneOwner'
  <1> USE DEF LoopAt, LoopTo, Own, Cur
  <1>0. /\ flushes \in Seq(SlotIds) /\ scheduled \in [SlotIds -> BOOLEAN] /\ Cur \in SlotIds
        /\ loop \in [at : {"recv", "take", "send", "unschedule", "recheck", "swap", "enqueue"},
                     slot : SlotIds, frame : Positions \cup {NoPosition}]
    BY DEF SlotInv, SlotTypeOK
  <1>1. CASE RecvFlush
    <2> DEFINE q == Head(flushes)
    <2>1. flushes # <<>> /\ flushes' = Tail(flushes) /\ loop.at = "recv" /\ UNCHANGED motion
      BY <1>1 DEF RecvFlush
    <2>2. /\ InQueue(q) /\ q \in SlotIds
          /\ \A s \in SlotIds : InQueue(s)' <=> InQueue(s) /\ s # q
          /\ \A i, j \in 1..Len(flushes') : flushes'[i] = flushes'[j] => i = j
      BY <1>0, <2>1, QueueShrinks DEF BitHasOneOwner
    <2>3. \A s \in SlotIds : ~LoopOwns(s) /\ (ClientOwns(s)' <=> ClientOwns(s))
      BY <2>1 DEF LoopOwns, ClientOwns
    <2>4. scheduled[q] /\ ~ClientOwns(q)
      BY <2>2 DEF BitHasOneOwner
    <2>5. CASE closed[q]
      <3>1. scheduled' = [scheduled EXCEPT ![q] = FALSE] /\ loop' = loop
        BY <1>1, <2>5 DEF RecvFlush
      <3>2. ~scheduled'[q] /\ \A s \in SlotIds \ {q} : scheduled'[s] = scheduled[s]
        BY <1>0, <2>2, <3>1
      <3>3. \A s \in SlotIds : ~LoopOwns(s)'
        BY <2>1, <3>1 DEF LoopOwns
      <3> QED BY <2>2, <2>3, <2>4, <3>2, <3>3 DEF BitHasOneOwner
    <2>6. CASE ~closed[q]
      <3>1. scheduled' = scheduled /\ loop' = [at |-> "take", slot |-> q, frame |-> NoPosition]
        BY <1>1, <2>6 DEF RecvFlush
      <3>2. \A s \in SlotIds : LoopOwns(s)' <=> s = q
        BY <3>1 DEF LoopOwns
      <3> QED BY <2>2, <2>3, <2>4, <3>1, <3>2 DEF BitHasOneOwner
    <2> QED BY <2>5, <2>6
  <1>2. CASE TakeLatest \/ SendPosition
    <2>1. /\ UNCHANGED <<flushes, scheduled, motion>> /\ loop'.slot = loop.slot
          /\ loop.at \in {"take", "send"} /\ loop'.at \in {"send", "unschedule"}
      BY <1>0, <1>2 DEF TakeLatest, SendPosition
    <2>2. \A s \in SlotIds : LoopOwns(s)' <=> LoopOwns(s)
      BY <2>1 DEF LoopOwns
    <2>3. \A s \in SlotIds : (InQueue(s)' <=> InQueue(s)) /\ (ClientOwns(s)' <=> ClientOwns(s))
      BY <2>1 DEF InQueue, ClientOwns
    <2> QED BY <2>1, <2>2, <2>3 DEF BitHasOneOwner
  <1>3. CASE Unschedule
    <2>1. /\ UNCHANGED <<flushes, motion>> /\ loop.at = "unschedule"
          /\ loop' = [loop EXCEPT !.at = "recheck"] /\ scheduled' = [scheduled EXCEPT ![Cur] = FALSE]
      BY <1>3 DEF Unschedule
    <2>2. ~scheduled'[Cur] /\ \A s \in SlotIds \ {Cur} : scheduled'[s] = scheduled[s]
      BY <1>0, <2>1
    <2>3. \A s \in SlotIds : (InQueue(s)' <=> InQueue(s)) /\ (ClientOwns(s)' <=> ClientOwns(s))
      BY <2>1 DEF InQueue, ClientOwns
    <2>4. \A s \in SlotIds : ~LoopOwns(s)' /\ (LoopOwns(s) <=> s = Cur)
      BY <1>0, <2>1 DEF LoopOwns
    <2>5. \A s \in SlotIds :
            /\ scheduled'[s] <=> InQueue(s)' \/ LoopOwns(s)' \/ ClientOwns(s)'
            /\ ~(InQueue(s)' /\ LoopOwns(s)') /\ ~(InQueue(s)' /\ ClientOwns(s)')
            /\ ~(LoopOwns(s)' /\ ClientOwns(s)')
      BY <2>2, <2>3, <2>4 DEF BitHasOneOwner
    <2> QED BY <2>1, <2>5 DEF BitHasOneOwner
  <1>4. CASE Recheck
    <2>1. /\ UNCHANGED <<flushes, scheduled, motion>> /\ loop.at = "recheck"
          /\ loop'.at \in {"swap", "recv"}
      BY <1>0, <1>4 DEF Recheck
    <2>2. \A s \in SlotIds : ~LoopOwns(s)' /\ ~LoopOwns(s)
      BY <2>1 DEF LoopOwns
    <2>3. \A s \in SlotIds : (InQueue(s)' <=> InQueue(s)) /\ (ClientOwns(s)' <=> ClientOwns(s))
      BY <2>1 DEF InQueue, ClientOwns
    <2> QED BY <2>1, <2>2, <2>3 DEF BitHasOneOwner
  <1>5. CASE Reschedule
    <2>1. /\ UNCHANGED <<flushes, motion>> /\ loop.at = "swap"
          /\ scheduled' = [scheduled EXCEPT ![Cur] = TRUE]
          /\ loop' = [loop EXCEPT !.at = IF scheduled[Cur] THEN "recv" ELSE "enqueue"]
      BY <1>5 DEF Reschedule
    <2>2. scheduled'[Cur] /\ \A s \in SlotIds \ {Cur} : scheduled'[s] = scheduled[s]
      BY <1>0, <2>1
    <2>3. \A s \in SlotIds : (InQueue(s)' <=> InQueue(s)) /\ (ClientOwns(s)' <=> ClientOwns(s))
      BY <2>1 DEF InQueue, ClientOwns
    <2>4. loop'.slot = Cur /\ (loop'.at = "enqueue" <=> ~scheduled[Cur]) /\ loop'.at \in {"recv", "enqueue"}
      BY <1>0, <2>1
    <2>5. \A s \in SlotIds : (LoopOwns(s)' <=> s = Cur /\ ~scheduled[Cur]) /\ ~LoopOwns(s)
      BY <2>1, <2>4 DEF LoopOwns
    <2>6. \A s \in SlotIds :
            /\ scheduled'[s] <=> InQueue(s)' \/ LoopOwns(s)' \/ ClientOwns(s)'
            /\ ~(InQueue(s)' /\ LoopOwns(s)') /\ ~(InQueue(s)' /\ ClientOwns(s)')
            /\ ~(LoopOwns(s)' /\ ClientOwns(s)')
      BY <2>2, <2>3, <2>5 DEF BitHasOneOwner
    <2> QED BY <2>1, <2>6 DEF BitHasOneOwner
  <1>6. CASE RequeueFlush
    <2>1. /\ flushes' = Append(flushes, Cur) /\ UNCHANGED <<scheduled, motion>> /\ loop.at = "enqueue"
          /\ loop'.at = "recv"
      BY <1>0, <1>6 DEF RequeueFlush
    <2>2. LoopOwns(Cur) /\ ~InQueue(Cur)
      BY <1>0, <2>1 DEF BitHasOneOwner, LoopOwns
    <2>3. /\ \A s \in SlotIds : InQueue(s)' <=> InQueue(s) \/ s = Cur
          /\ \A i, j \in 1..Len(flushes') : flushes'[i] = flushes'[j] => i = j
      BY <1>0, <2>1, <2>2, QueueGrows DEF BitHasOneOwner
    <2>4. \A s \in SlotIds : /\ ClientOwns(s)' <=> ClientOwns(s)
                             /\ LoopOwns(s) <=> s = Cur
                             /\ ~LoopOwns(s)'
      BY <2>1 DEF LoopOwns, ClientOwns
    <2> QED BY <2>1, <2>2, <2>3, <2>4 DEF BitHasOneOwner
  <1> QED BY <1>1, <1>2, <1>3, <1>4, <1>5, <1>6 DEF LoopStep

\* One flush per slot at a time, whatever the two threads do between the accesses
\* (schedule_motion, flush_motion_nonblocking).
THEOREM OneFlushPerSlot == SlotSpec => []BitHasOneOwner
  <1>1. SlotInit => BitHasOneOwner
    BY DEF SlotInit, BitHasOneOwner, InQueue, LoopOwns, ClientOwns
  <1>2. SlotInv /\ BitHasOneOwner /\ [SlotNext]_slotVars => BitHasOneOwner'
    <2> SUFFICES ASSUME SlotInv, BitHasOneOwner, [SlotNext]_slotVars PROVE BitHasOneOwner'
      OBVIOUS
    <2>1. CASE UNCHANGED slotVars
      BY <2>1 DEF slotVars, slotFields, BitHasOneOwner, InQueue, LoopOwns, ClientOwns, Cur, Own
    <2> QED BY <2>1, ClientOneOwner, LoopOneOwner DEF SlotNext, SlotCall
  <1> QED BY <1>1, <1>2, SlotTypes, PTL DEF SlotSpec

-----------------------------------------------------------------------------
(* Induction: a set of numbers with 0 and with every successor has them all. *)

\* A set that has 0 and the successor of each member is all of the naturals.
LEMMA NatSets ==
    ASSUME NEW T, T \subseteq Nat, 0 \in T, \A n \in T : n + 1 \in T
    PROVE  T = Nat
  <1> DEFINE B == Nat \ T
             R == OpToRel(<, Nat)
  <1>1. ASSUME B # {} PROVE FALSE
    <2>1. B \subseteq Nat
      OBVIOUS
    <2>2. IsWellFoundedOn(R, Nat)
      BY NatLessThanWellFounded
    <2>3. \A m, n \in Nat : m < n => <<m, n>> \in R
      BY DEF OpToRel
    <2> HIDE DEF B, R
    <2>4. PICK n \in B : \A m \in B : ~(<<m, n>> \in R)
      BY <1>1, <2>1, <2>2, WFMin
    <2>5. \A m \in B : ~(m < n)
      BY <2>1, <2>3, <2>4
    <2> USE DEF B
    <2>6. n # 0 /\ n \in Nat
      BY <2>4
    <2>7. n - 1 \in Nat /\ n - 1 \notin B
      BY <2>5, <2>6
    <2>8. n - 1 \in T
      BY <2>7
    <2>9. (n - 1) + 1 \in T
      BY <2>8
    <2> QED
      BY <2>4, <2>6, <2>9
  <1> QED
    BY <1>1

-----------------------------------------------------------------------------
(* The critical input stream: the invariant.                                *)

\* The bytes on the way, in the order in which they were or will be written.
OnTheWay == decoder \o wire \o writing

\* A byte of one of the accepted frames.
ByteOk(b, acc) ==
    /\ b.id \in 1..Len(acc) /\ b.payload = acc[b.id]
    /\ b.at \in 1..Cost(b.payload)

\* The byte after a: the next one of its frame, or the first of the next.
Follows(a, b) ==
    IF a.at < Cost(a.payload) THEN b.id = a.id /\ b.at = a.at + 1
                              ELSE b.id = a.id + 1 /\ b.at = 1

\* s goes on right after the n-th frame, byte by byte.
Contiguous(s, n, acc) ==
    /\ \A i \in 1..Len(s) : ByteOk(s[i], acc)
    /\ \A i \in 1..(Len(s) - 1) : Follows(s[i], s[i + 1])
    /\ s # <<>> => s[1].id = n + 1 /\ s[1].at = 1

\* s, which goes on after the n-th frame, ends with the last byte of the k-th.
UpTo(s, n, k) ==
    IF s = <<>> THEN n = k ELSE s[Len(s)].id = k /\ s[Len(s)].at = Cost(s[Len(s)].payload)

\* What the queue and the stream hold.
Framed == [id : 1..MaxSends, size : Sizes]
WireBytes == [id : 1..MaxSends, at : Nat, payload : Sizes]

\* The three places a byte on the way can be in, and the frame being written.
BytesPart ==
    /\ decoder \in Seq(WireBytes) /\ wire \in Seq(WireBytes) /\ writing \in Seq(WireBytes)
    /\ writer = "writing" <=> writing # <<>>
    /\ \A i \in 1..Len(writing) : writing[i].payload = writing[1].payload

\* The queue is the end of what was accepted; a reservation is a call of its own.
SenderPart ==
    /\ handle = "reserved" => size \in Sizes
    /\ Len(accepted) + (IF handle = "reserved" THEN 1 ELSE 0) <= sends
    /\ queue \in Seq(Framed) /\ Len(queue) <= Len(accepted)
    /\ \A i \in 1..Len(queue) :
          queue[i].id = Len(accepted) - Len(queue) + i /\ queue[i].size = accepted[queue[i].id]
    /\ writer = "ended" => queue = <<>>
    /\ fin => writer = "ended"

\* While it is read, the stream goes on from the last frame delivered, and as
\* long as nothing was abandoned it reaches to the frames in the queue.
ReaderPart ==
    /\ Len(delivered) <= Len(accepted)
    /\ reader = "reading" =>
          /\ Contiguous(OnTheWay, Len(delivered), accepted)
          /\ \A i \in 1..Len(decoder) : decoder[i].id = Len(delivered) + 1 /\ decoder[i].at = i
          /\ decoder # <<>> => Len(decoder) < Cost(decoder[1].payload)
          /\ writer # "ended" \/ fin => UpTo(OnTheWay, Len(delivered), Len(accepted) - Len(queue))

StreamInv == StreamTypeOK /\ InputBudgetExact /\ PrefixInOrder /\ BytesPart /\ SenderPart /\ ReaderPart

-----------------------------------------------------------------------------
(* The bytes of a queue.                                                    *)

\* A frame costs at least its length prefix and a byte.
LEMMA CostType == \A n \in Sizes : Cost(n) \in Nat /\ Cost(n) > PrefixBytes /\ n \in Nat \ {0} /\ PrefixBytes \in Nat \ {0}
  BY StreamBounds DEF Cost

\* f holds the sums of the first frames of q, up to the n-th.
IsSum(f, n, q) == f = [i \in 0..n |-> IF i = 0 THEN 0 ELSE f[i - 1] + Cost(q[i].size)]

\* The recursive function of QueuedBytes exists, whatever the queue.
LEMMA SumExists ==
    ASSUME NEW q, NEW n \in Nat
    PROVE  \E f : IsSum(f, n, q)
  <1> DEFINE T == {m \in Nat : \E f : IsSum(f, m, q)}
  <1>1. 0 \in T
    <2> DEFINE f == [i \in 0..0 |-> 0]
    <2>1. IsSum(f, 0, q)
      BY DEF IsSum
    <2> QED BY <2>1
  <1>2. ASSUME NEW m \in T PROVE m + 1 \in T
    <2>1. PICK f : IsSum(f, m, q)
      OBVIOUS
    <2> DEFINE g == [i \in 0..(m + 1) |-> IF i = m + 1 THEN f[m] + Cost(q[m + 1].size) ELSE f[i]]
    <2>2. m \in Nat
      OBVIOUS
    <2>3. \A i \in 0..m : f[i] = IF i = 0 THEN 0 ELSE f[i - 1] + Cost(q[i].size)
      BY <2>1, <2>2 DEF IsSum
    <2>4. \A i \in 0..(m + 1) : g[i] = IF i = 0 THEN 0 ELSE g[i - 1] + Cost(q[i].size)
      BY <2>2, <2>3
    <2>5. IsSum(g, m + 1, q)
      BY <2>4 DEF IsSum
    <2> HIDE DEF g
    <2> QED
      BY <2>2, <2>5
  <1> HIDE DEF T
  <1>3. T = Nat
    BY <1>1, <1>2, NatSets DEF T
  <1> QED
    BY <1>3 DEF T

\* The frames of the queue have a cost.
LEMMA FramedCost ==
    ASSUME NEW q \in Seq(Framed), NEW i \in 1..Len(q)
    PROVE  q[i].size \in Sizes /\ Cost(q[i].size) \in Nat
  <1>1. q[i] \in Framed
    BY ElementOfSeq
  <1>2. q[i].size \in Sizes
    BY <1>1 DEF Framed
  <1> QED BY <1>2, CostType

\* The sums are numbers.
LEMMA SumType ==
    ASSUME NEW q \in Seq(Framed), NEW f, IsSum(f, Len(q), q)
    PROVE  \A i \in 0..Len(q) : f[i] \in Nat
  <1> DEFINE T == {i \in Nat : i <= Len(q) => f[i] \in Nat}
  <1>1. 0 \in T
    BY LenProperties DEF IsSum
  <1>2. ASSUME NEW i \in T PROVE i + 1 \in T
    <2>1. CASE i + 1 <= Len(q)
      <3>1. f[i + 1] = f[i] + Cost(q[i + 1].size)
        BY <2>1, LenProperties DEF IsSum
      <3>2. q[i + 1].size \in Sizes
        BY <2>1, FramedCost, LenProperties
      <3>3. f[i] \in Nat
        BY <2>1, LenProperties
      <3> QED BY <3>1, <3>2, <3>3, CostType
    <2> QED BY <2>1
  <1> HIDE DEF T
  <1>3. T = Nat
    BY <1>1, <1>2, NatSets DEF T
  <1> QED
    BY <1>3, LenProperties DEF T

\* QueuedBytes is the last of the sums of the queue.
LEMMA QueuedBytesIs ==
    ASSUME NEW q \in Seq(Framed)
    PROVE  \E f : IsSum(f, Len(q), q) /\ QueuedBytes(q) = f[Len(q)]
  BY SumExists, LenProperties DEF QueuedBytes, IsSum

\* An empty queue holds no bytes.
LEMMA QueuedNone == QueuedBytes(<<>>) = 0
  <1>1. <<>> \in Seq(Framed) /\ Len(<<>>) = 0
    OBVIOUS
  <1>2. PICK f : IsSum(f, Len(<<>>), <<>>) /\ QueuedBytes(<<>>) = f[Len(<<>>)]
    BY <1>1, QueuedBytesIs
  <1> QED BY <1>1, <1>2 DEF IsSum

\* The bytes of a queue are a number.
LEMMA QueuedType == ASSUME NEW q \in Seq(Framed) PROVE QueuedBytes(q) \in Nat
  <1>1. PICK f : IsSum(f, Len(q), q) /\ QueuedBytes(q) = f[Len(q)]
    BY QueuedBytesIs
  <1> QED BY <1>1, SumType, LenProperties

\* A frame pushed at the end adds its cost (InputHandle::try_send).
LEMMA QueuedAppend ==
    ASSUME NEW q \in Seq(Framed), NEW e \in Framed
    PROVE  QueuedBytes(Append(q, e)) = QueuedBytes(q) + Cost(e.size)
  <1> DEFINE r == Append(q, e)
  <1>1. r \in Seq(Framed) /\ Len(r) = Len(q) + 1 /\ Len(q) \in Nat
    BY AppendProperties, LenProperties
  <1>2. \A i \in 1..Len(q) : r[i] = q[i]
    BY AppendProperties
  <1>3. r[Len(q) + 1] = e
    BY AppendProperties
  <1> HIDE DEF r
  <1>4. PICK f : IsSum(f, Len(q), q) /\ QueuedBytes(q) = f[Len(q)]
    BY QueuedBytesIs
  <1>5. PICK g : IsSum(g, Len(r), r) /\ QueuedBytes(r) = g[Len(r)]
    BY <1>1, QueuedBytesIs
  <1> DEFINE T == {i \in Nat : i <= Len(q) => f[i] = g[i]}
  <1>6. 0 \in T
    BY <1>1, <1>4, <1>5 DEF IsSum
  <1>7. ASSUME NEW i \in T PROVE i + 1 \in T
    <2>1. CASE i + 1 <= Len(q)
      <3>1. f[i + 1] = f[i] + Cost(q[i + 1].size)
        BY <1>1, <1>4, <2>1 DEF IsSum
      <3>2. g[i + 1] = g[i] + Cost(r[i + 1].size)
        BY <1>1, <1>5, <2>1 DEF IsSum
      <3>3. f[i] = g[i] /\ r[i + 1] = q[i + 1]
        BY <1>1, <1>2, <2>1
      <3> QED BY <3>1, <3>2, <3>3
    <2> QED BY <2>1
  <1> HIDE DEF T
  <1>8. T = Nat
    BY <1>6, <1>7, NatSets DEF T
  <1>9. g[Len(q)] = f[Len(q)]
    BY <1>1, <1>8 DEF T
  <1>10. g[Len(q) + 1] = g[Len(q)] + Cost(r[Len(q) + 1].size)
    BY <1>1, <1>5 DEF IsSum
  <1> QED BY <1>1, <1>3, <1>4, <1>5, <1>9, <1>10 DEF r

\* A frame taken from the front takes its cost with it (run_outbound_input).
LEMMA QueuedTail ==
    ASSUME NEW q \in Seq(Framed), q # <<>>
    PROVE  QueuedBytes(q) = Cost(Head(q).size) + QueuedBytes(Tail(q))
  <1> DEFINE r == Tail(q)
  <1>1. r \in Seq(Framed) /\ Len(q) = Len(r) + 1 /\ Len(r) \in Nat /\ Head(q) = q[1]
    BY HeadTailProperties, LenProperties, EmptySeq
  <1>2. \A i \in 1..Len(r) : r[i] = q[i + 1]
    BY HeadTailProperties
  <1> HIDE DEF r
  <1>3. PICK f : IsSum(f, Len(q), q) /\ QueuedBytes(q) = f[Len(q)]
    BY QueuedBytesIs
  <1>4. PICK g : IsSum(g, Len(r), r) /\ QueuedBytes(r) = g[Len(r)]
    BY <1>1, QueuedBytesIs
  <1>5. \A i \in 0..Len(q) : f[i] \in Nat
    BY <1>3, SumType
  <1>6. \A i \in 0..Len(r) : g[i] \in Nat
    BY <1>1, <1>4, SumType
  <1>7. Cost(q[1].size) \in Nat
    BY <1>1, FramedCost
  <1> DEFINE T == {i \in Nat : i <= Len(r) => f[i + 1] = Cost(q[1].size) + g[i]}
  <1>8. 0 \in T
    <2>1. f[1] = f[0] + Cost(q[1].size) /\ f[0] = 0 /\ g[0] = 0
      BY <1>1, <1>3, <1>4 DEF IsSum
    <2> QED BY <1>7, <2>1
  <1>9. ASSUME NEW i \in T PROVE i + 1 \in T
    <2>1. CASE i + 1 <= Len(r)
      <3>1. f[(i + 1) + 1] = f[i + 1] + Cost(q[(i + 1) + 1].size)
        BY <1>1, <1>3, <2>1 DEF IsSum
      <3>2. g[i + 1] = g[i] + Cost(r[i + 1].size)
        BY <1>1, <1>4, <2>1 DEF IsSum
      <3>3. f[i + 1] = Cost(q[1].size) + g[i] /\ r[i + 1] = q[(i + 1) + 1]
        BY <1>1, <1>2, <2>1
      <3>4. Cost(r[i + 1].size) \in Nat
        BY <1>1, <2>1, FramedCost
      <3>5. g[i] \in Nat
        BY <1>1, <1>6, <2>1
      <3> QED BY <1>7, <3>1, <3>2, <3>3, <3>4, <3>5
    <2> QED BY <2>1
  <1> HIDE DEF T
  <1>10. T = Nat
    BY <1>8, <1>9, NatSets DEF T
  <1>11. f[Len(r) + 1] = Cost(q[1].size) + g[Len(r)]
    BY <1>1, <1>10 DEF T
  <1> QED BY <1>1, <1>3, <1>4, <1>11 DEF r
-----------------------------------------------------------------------------
\* The decoder after the first e bytes of s: j frames are complete, the last of
\* them with the p-th byte, and what follows p is kept for the next chunk.
Decoded(s, n, p, j, e, d) ==
    /\ d.bytes = SubSeq(s, p + 1, e) /\ d.frames = [x \in 1..j |-> n + x]
    /\ IF p = 0 THEN j = 0 ELSE s[p].id = n + j /\ s[p].at = Cost(s[p].payload)
    /\ \A q \in (p + 1)..e : s[q].id = n + j + 1 /\ s[q].at = q - p
    /\ p < e => e - p < Cost(s[p + 1].payload)

\* A slice of a sequence.
LEMMA Slice ==
    ASSUME NEW S, NEW s \in Seq(S), NEW hi \in 0..Len(s), NEW lo \in 0..hi
    PROVE  /\ SubSeq(s, lo + 1, hi) \in Seq(S) /\ Len(SubSeq(s, lo + 1, hi)) = hi - lo
           /\ \A i \in 1..(hi - lo) : SubSeq(s, lo + 1, hi)[i] = s[lo + i]
  <1>1. Len(s) \in Nat /\ hi \in Nat /\ lo \in Nat /\ hi <= Len(s) /\ lo <= hi
    BY LenProperties
  <1>2. lo + 1 \in Int /\ hi \in Int /\ \A i \in (lo + 1)..hi : s[i] \in S
    BY <1>1, ElementOfSeq
  <1> DEFINE t == SubSeq(s, lo + 1, hi)
  <1>3. /\ t \in Seq(S) /\ Len(t) = (IF lo + 1 <= hi THEN hi - (lo + 1) + 1 ELSE 0)
        /\ \A i \in 1..(hi - (lo + 1) + 1) : t[i] = s[(lo + 1) + i - 1]
    BY <1>2, SubSeqProperties
  <1> HIDE DEF t
  <1>4. Len(t) = hi - lo /\ \A i \in 1..(hi - lo) : t[i] = s[lo + i]
    BY <1>1, <1>3
  <1> QED BY <1>3, <1>4 DEF t

\* One byte more: it completes a frame or is kept.
LEMMA PushRight ==
    ASSUME NEW s \in Seq(WireBytes), NEW n \in Nat, NEW acc, Contiguous(s, n, acc), NEW e \in 0..(Len(s) - 1),
           NEW p \in 0..e, NEW j \in Nat, NEW d, Decoded(s, n, p, j, e, d)
    PROVE  \E p2 \in 0..(e + 1), j2 \in Nat : Decoded(s, n, p2, j2, e + 1, Push1(d, s[e + 1]))
  <1> DEFINE b == s[e + 1]
             bytes == SubSeq(s, p + 1, e + 1)
  <1>1. Len(s) \in Nat /\ s # <<>> /\ e + 1 \in 1..Len(s) /\ p + 1 \in 1..Len(s)
    BY LenProperties, EmptySeq
  <1>2. \A i \in 1..Len(s) : s[i] \in WireBytes /\ ByteOk(s[i], acc)
    BY ElementOfSeq DEF Contiguous
  <1>3. \A i \in 1..Len(s) : s[i].at \in Nat /\ s[i].id \in Nat /\ s[i].payload \in Sizes /\ Cost(s[i].payload) \in Nat
    <2> TAKE i \in 1..Len(s)
    <2>1. s[i] \in WireBytes
      BY <1>2
    <2>2. s[i].at \in Nat /\ s[i].id \in Nat /\ s[i].payload \in Sizes
      BY <2>1 DEF WireBytes
    <2> QED BY <2>2, CostType
  <1>4. b.id = n + j + 1 /\ b.at = e + 1 - p
    <2>1. CASE p = 0 /\ e = 0
      BY <1>1, <2>1 DEF Contiguous, Decoded
    <2>2. CASE p # 0 /\ e = p
      <3>1. s[p].id = n + j /\ s[p].at = Cost(s[p].payload)
        BY <2>2 DEF Decoded
      <3>2. Follows(s[p], s[p + 1])
        BY <1>1, <2>2 DEF Contiguous
      <3> QED BY <1>3, <1>1, <2>2, <3>1, <3>2 DEF Follows
    <2>3. CASE p < e
      <3>1. s[e].id = n + j + 1 /\ s[e].at = e - p /\ s[p + 1].id = n + j + 1 /\ e - p < Cost(s[p + 1].payload)
        <4>1. p + 1 \in (p + 1)..e /\ e \in (p + 1)..e
          BY <1>1, <2>3
        <4> QED BY <4>1, <2>3 DEF Decoded
      <3>2. s[e].payload = s[p + 1].payload
        BY <1>1, <1>2, <2>3, <3>1 DEF ByteOk
      <3>3. Follows(s[e], s[e + 1])
        BY <1>1, <2>3 DEF Contiguous
      <3> QED BY <1>1, <1>3, <2>3, <3>1, <3>2, <3>3 DEF Follows
    <2> QED BY <2>1, <2>2, <2>3
  <1>5. Append(d.bytes, b) = bytes
    BY <1>1, SubSeqRecursiveSecond DEF Decoded
  <1>6. Len(bytes) = e + 1 - p /\ bytes[1] = s[p + 1]
    <2>1. e + 1 \in 0..Len(s) /\ p \in 0..(e + 1) /\ 1 \in 1..(e + 1 - p)
      BY <1>1
    <2>2. Len(bytes) = (e + 1) - p /\ \A i \in 1..((e + 1) - p) : bytes[i] = s[p + i]
      BY <2>1, Slice
    <2> HIDE DEF bytes
    <2> QED BY <2>1, <2>2
  <1>7. s[p + 1].id = n + j + 1 /\ s[p + 1].payload = b.payload
    <2>1. s[p + 1].id = n + j + 1
      BY <1>1, <1>4 DEF Decoded
    <2> QED BY <1>1, <1>2, <1>4, <2>1 DEF ByteOk
  <1>8. e + 1 - p <= Cost(b.payload)
    BY <1>1, <1>2, <1>4 DEF ByteOk
  <1> HIDE DEF bytes
  <1>9. CASE Complete(bytes)
    <2>1. Push1(d, b) = [bytes |-> <<>>, frames |-> Append(d.frames, n + j + 1)]
      BY <1>5, <1>6, <1>7, <1>9 DEF Push1
    <2>2. SubSeq(s, (e + 1) + 1, e + 1) = <<>>
      BY <1>1, SubSeqEmpty
    <2>3. Append(d.frames, n + j + 1) = [x \in 1..(j + 1) |-> n + x]
      <3>1. d.frames \in Seq(Nat) /\ Len(d.frames) = j
        BY DEF Decoded
      <3> QED BY <3>1 DEF Decoded
    <2>4. b.at = Cost(b.payload)
      BY <1>4, <1>6, <1>7, <1>9 DEF Complete, Cost
    <2>5. Decoded(s, n, e + 1, j + 1, e + 1, Push1(d, b))
      <3>1. Push1(d, b).bytes = SubSeq(s, (e + 1) + 1, e + 1) /\ Push1(d, b).frames = [x \in 1..(j + 1) |-> n + x]
        <4>1. Push1(d, b).bytes = <<>> /\ Push1(d, b).frames = Append(d.frames, n + j + 1)
          BY <2>1
        <4> QED BY Zenon, <2>2, <2>3, <4>1
      <3>2. e + 1 # 0 /\ s[e + 1].id = n + (j + 1) /\ s[e + 1].at = Cost(s[e + 1].payload)
        BY <1>1, <1>4, <2>4
      <3>3. ~(e + 1 < e + 1) /\ \A q \in ((e + 1) + 1)..(e + 1) : FALSE
        BY <1>1
      <3> QED BY Zenon, <3>1, <3>2, <3>3 DEF Decoded
    <2> QED BY <1>1, <2>5
  <1>10. CASE ~Complete(bytes)
    <2>1. Push1(d, b) = [bytes |-> bytes, frames |-> d.frames]
      BY <1>5, <1>10 DEF Push1
    <2>2. e + 1 - p < Cost(b.payload)
      <3>1. b.payload \in Sizes /\ Cost(b.payload) \in Nat /\ e + 1 - p \in Nat
        BY <1>1, <1>3
      <3>2. e + 1 - p # Cost(b.payload)
        <4>1. bytes[1].payload = b.payload
          BY Zenon, <1>6, <1>7
        <4>2. Cost(b.payload) > PrefixBytes /\ Cost(b.payload) = PrefixBytes + b.payload
          BY <3>1, CostType DEF Cost
        <4> QED BY <1>6, <1>10, <4>1, <4>2 DEF Complete
      <3> QED BY <1>8, <3>1, <3>2
    <2>3. \A q \in (p + 1)..(e + 1) : s[q].id = n + j + 1 /\ s[q].at = q - p
      <3> TAKE q \in (p + 1)..(e + 1)
      <3>1. CASE q = e + 1
        BY <1>1, <1>4, <3>1
      <3>2. CASE q \in (p + 1)..e
        BY <3>2 DEF Decoded
      <3> QED BY <1>1, <3>1, <3>2
    <2>4. Decoded(s, n, p, j, e + 1, Push1(d, b))
      BY <1>1, <1>7, <2>1, <2>2, <2>3 DEF Decoded, bytes
    <2> QED BY <2>4
  <1> QED BY <1>9, <1>10

\* f is the decoder after each of the first n bytes of a chunk.
IsAfter(f, n, bytes, chunk) ==
    f = [i \in 0..n |-> IF i = 0 THEN [bytes |-> bytes, frames |-> <<>>] ELSE Push1(f[i - 1], chunk[i])]

\* The recursive function of Decode exists, whatever the chunk.
LEMMA AfterExists ==
    ASSUME NEW bytes, NEW chunk, NEW n \in Nat
    PROVE  \E f : IsAfter(f, n, bytes, chunk)
  <1> DEFINE T == {m \in Nat : \E f : IsAfter(f, m, bytes, chunk)}
             none == [bytes |-> bytes, frames |-> <<>>]
  <1>1. 0 \in T
    <2> DEFINE f == [i \in 0..0 |-> none]
    <2>1. IsAfter(f, 0, bytes, chunk)
      BY DEF IsAfter
    <2> QED BY <2>1
  <1>2. ASSUME NEW m \in T PROVE m + 1 \in T
    <2>1. PICK f : IsAfter(f, m, bytes, chunk)
      OBVIOUS
    <2> DEFINE g == [i \in 0..(m + 1) |-> IF i = m + 1 THEN Push1(f[m], chunk[m + 1]) ELSE f[i]]
    <2>2. m \in Nat
      OBVIOUS
    <2>3. \A i \in 0..m : f[i] = IF i = 0 THEN none ELSE Push1(f[i - 1], chunk[i])
      BY <2>1, <2>2 DEF IsAfter
    <2>4. ASSUME NEW i \in 0..(m + 1) PROVE g[i] = IF i = 0 THEN none ELSE Push1(g[i - 1], chunk[i])
      <3>1. CASE i = m + 1
        <4>1. g[i] = Push1(f[m], chunk[m + 1]) /\ g[m] = f[m] /\ i - 1 = m /\ i # 0
          BY <2>2, <3>1
        <4> HIDE DEF g
        <4> QED BY <3>1, <4>1
      <3>2. CASE i \in 0..m
        <4>1. g[i] = f[i] /\ (i # 0 => g[i - 1] = f[i - 1])
          BY <2>2, <3>2
        <4> HIDE DEF g
        <4> QED BY <2>3, <3>2, <4>1
      <3> QED BY <2>2, <3>1, <3>2
    <2>5. IsAfter(g, m + 1, bytes, chunk)
      BY <2>4 DEF IsAfter
    <2> HIDE DEF g
    <2> QED
      BY <2>2, <2>5
  <1> HIDE DEF T
  <1>3. T = Nat
    BY <1>1, <1>2, NatSets DEF T
  <1> QED
    BY <1>3 DEF T

\* Decode is what the decoder is after the last byte.
LEMMA DecodeIs ==
    ASSUME NEW bytes, NEW chunk, Len(chunk) \in Nat
    PROVE  \E f : IsAfter(f, Len(chunk), bytes, chunk) /\ Decode(bytes, chunk) = f[Len(chunk)]
  <1> DEFINE g == CHOOSE f : IsAfter(f, Len(chunk), bytes, chunk)
  <1>1. Decode(bytes, chunk) = g[Len(chunk)]
    BY Zenon DEF Decode, IsAfter
  <1>2. IsAfter(g, Len(chunk), bytes, chunk)
    BY Zenon, AfterExists
  <1> QED BY <1>1, <1>2

\* Byte by byte, by induction over the bytes of the chunk.
LEMMA DecodeSteps ==
    ASSUME NEW s \in Seq(WireBytes), NEW n \in Nat, NEW acc, Contiguous(s, n, acc),
           NEW a \in Nat, NEW k \in Nat, a + k <= Len(s), NEW f,
           Decoded(s, n, 0, 0, a, f[0]), \A i \in 1..k : f[i] = Push1(f[i - 1], s[a + i])
    PROVE  \E p \in 0..(a + k), j \in Nat : Decoded(s, n, p, j, a + k, f[k])
  <1> DEFINE Good(i) == \E p \in 0..(a + i), j \in Nat : Decoded(s, n, p, j, a + i, f[i])
             T == {i \in Nat : i <= k => Good(i)}
  <1>1. Len(s) \in Nat
    BY LenProperties
  <1>2. 0 \in T
    <2>1. a + 0 = a /\ 0 \in 0..(a + 0)
      OBVIOUS
    <2> QED BY <2>1
  <1>3. ASSUME NEW i \in T PROVE i + 1 \in T
    <2>1. i \in Nat /\ (i <= k => Good(i))
      OBVIOUS
    <2>2. CASE i + 1 <= k
      <3>1. Good(i)
        BY <2>1, <2>2
      <3>2. PICK p \in 0..(a + i), j \in Nat : Decoded(s, n, p, j, a + i, f[i])
        BY <3>1
      <3> HIDE DEF T, Good
      <3>3. a + i \in 0..(Len(s) - 1) /\ (a + i) + 1 = a + (i + 1) /\ i + 1 \in 1..k /\ (i + 1) - 1 = i
        BY <1>1, <2>1, <2>2
      <3>4. f[i + 1] = Push1(f[i], s[(a + i) + 1])
        BY <3>3
      <3>5. \E p2 \in 0..((a + i) + 1), j2 \in Nat : Decoded(s, n, p2, j2, (a + i) + 1, Push1(f[i], s[(a + i) + 1]))
        BY <3>2, <3>3, PushRight
      <3>6. Good(i + 1)
        BY <3>3, <3>4, <3>5 DEF Good
      <3> QED BY <2>1, <3>6 DEF T
    <2> HIDE DEF Good
    <2> QED BY <2>1, <2>2
  <1> HIDE DEF T, Good
  <1>4. T = Nat
    BY <1>2, <1>3, NatSets DEF T
  <1>5. Good(k)
    <2>1. k \in T /\ k <= k
      BY <1>4
    <2> QED BY Zenon, <2>1 DEF T
  <1> QED BY <1>5 DEF Good

\* A chunk of any length, cut anywhere, gives the frames it completes in order.
LEMMA DecodeRight ==
    ASSUME NEW s \in Seq(WireBytes), NEW n \in Nat, NEW acc, Contiguous(s, n, acc), NEW a \in Nat,
           NEW chunk \in Seq(WireBytes), a + Len(chunk) <= Len(s), \A i \in 1..Len(chunk) : chunk[i] = s[a + i],
           \A i \in 1..a : s[i].id = n + 1 /\ s[i].at = i,
           a > 0 => a < Cost(s[1].payload)
    PROVE  \E p \in 0..(a + Len(chunk)), j \in Nat :
              Decoded(s, n, p, j, a + Len(chunk), Decode(SubSeq(s, 1, a), chunk))
  <1> DEFINE bytes == SubSeq(s, 1, a)
             k == Len(chunk)
             none == [bytes |-> bytes, frames |-> <<>>]
  <1>1. k \in Nat
    BY LenProperties
  <1> HIDE DEF bytes
  <1>2. PICK f : IsAfter(f, k, bytes, chunk) /\ Decode(bytes, chunk) = f[k]
    <2>1. Len(chunk) \in Nat
      BY <1>1
    <2>2. \E f : IsAfter(f, Len(chunk), bytes, chunk) /\ Decode(bytes, chunk) = f[Len(chunk)]
      BY <2>1, DecodeIs
    <2> QED BY Zenon, <2>2
  <1> HIDE DEF k
  <1>3. \A x \in 0..k : f[x] = IF x = 0 THEN none ELSE Push1(f[x - 1], chunk[x])
    BY <1>1, <1>2 DEF IsAfter
  <1> HIDE DEF none
  <1>4. f[0] = none
    <2>1. 0 \in 0..k
      BY <1>1
    <2> QED BY <1>3, <2>1
  <1>5. \A i \in 1..k : f[i] = Push1(f[i - 1], s[a + i])
    <2> TAKE i \in 1..k
    <2>1. i \in 0..k /\ i # 0
      BY <1>1
    <2>2. f[i] = Push1(f[i - 1], chunk[i])
      BY <1>3, <2>1
    <2>3. chunk[i] = s[a + i]
      BY DEF k
    <2> QED BY <2>2, <2>3
  <1>6. Decoded(s, n, 0, 0, a, f[0])
    <2>1. f[0].bytes = SubSeq(s, 0 + 1, a) /\ f[0].frames = <<>>
      BY <1>4 DEF none, bytes
    <2>2. <<>> = [x \in 1..0 |-> n + x]
      OBVIOUS
    <2>3. \A q \in (0 + 1)..a : s[q].id = n + 0 + 1 /\ s[q].at = q - 0
      <3> TAKE q \in (0 + 1)..a
      <3>1. q \in 1..a /\ q - 0 = q /\ n + 0 + 1 = n + 1
        OBVIOUS
      <3> QED BY <3>1
    <2> QED BY <2>1, <2>2, <2>3 DEF Decoded
  <1>7. a + k <= Len(s)
    BY DEF k
  <1>8. \E p \in 0..(a + k), j \in Nat : Decoded(s, n, p, j, a + k, f[k])
    BY <1>1, <1>5, <1>6, <1>7, DecodeSteps
  <1> QED BY <1>2, <1>8 DEF k, bytes

-----------------------------------------------------------------------------
\* The fields of the bytes of a sequence.
LEMMA AtoNat ==
    ASSUME NEW s \in Seq(WireBytes)
    PROVE  \A i \in 1..Len(s) : /\ s[i] \in WireBytes /\ s[i].at \in Nat /\ s[i].id \in Nat
                                /\ s[i].payload \in Sizes /\ Cost(s[i].payload) \in Nat
  <1> TAKE i \in 1..Len(s)
  <1>1. s[i] \in WireBytes
    BY ElementOfSeq
  <1>2. s[i].at \in Nat /\ s[i].id \in Nat /\ s[i].payload \in Sizes
    BY <1>1 DEF WireBytes
  <1> QED BY <1>1, <1>2, CostType

\* What is left after the end of a frame goes on after that frame.
LEMMA Cut ==
    ASSUME NEW s \in Seq(WireBytes), NEW n \in Nat, NEW acc, Contiguous(s, n, acc),
           NEW p \in 0..Len(s), NEW j \in Nat,
           IF p = 0 THEN j = 0 ELSE s[p].id = n + j /\ s[p].at = Cost(s[p].payload)
    PROVE  LET t == SubSeq(s, p + 1, Len(s)) IN
           /\ t \in Seq(WireBytes) /\ Contiguous(t, n + j, acc)
           /\ \A k : UpTo(s, n, k) => UpTo(t, n + j, k)
  <1> DEFINE t == SubSeq(s, p + 1, Len(s))
  <1>1. Len(s) \in Nat /\ p \in Nat /\ (s = <<>> <=> Len(s) = 0)
    BY LenProperties, EmptySeq
  <1>2. t \in Seq(WireBytes) /\ Len(t) = Len(s) - p /\ \A i \in 1..(Len(s) - p) : t[i] = s[p + i]
    <2>1. CASE p = Len(s)
      BY <1>1, <2>1, SubSeqEmpty, EmptySeq
    <2>2. CASE p # Len(s)
      <3>1. p + 1 \in 1..(Len(s) + 1) /\ Len(s) \in 1..Len(s)
        BY <1>1, <2>2
      <3>2. \A i \in (p + 1)..Len(s) : s[i] \in WireBytes
        BY <1>1, ElementOfSeq
      <3> QED BY <1>1, <2>2, <3>1, <3>2, SubSeqProperties
    <2> QED BY <2>1, <2>2
  <1> HIDE DEF t
  <1>3. t = <<>> <=> p = Len(s)
    <2>1. t = <<>> <=> Len(t) = 0
      BY <1>2, EmptySeq
    <2> QED BY <1>1, <1>2, <2>1
  <1>4. \A i \in 1..Len(t) : ByteOk(t[i], acc)
    <2> TAKE i \in 1..Len(t)
    <2>1. t[i] = s[p + i] /\ p + i \in 1..Len(s)
      BY <1>1, <1>2
    <2> QED BY Zenon, <2>1 DEF Contiguous
  <1>5. \A i \in 1..(Len(t) - 1) : Follows(t[i], t[i + 1])
    <2> TAKE i \in 1..(Len(t) - 1)
    <2>1. i \in 1..(Len(s) - p) /\ i + 1 \in 1..(Len(s) - p) /\ p + i \in 1..(Len(s) - 1)
      BY <1>1, <1>2
    <2>2. t[i] = s[p + i] /\ t[i + 1] = s[p + (i + 1)]
      BY <1>2, <2>1
    <2>3. p + (i + 1) = (p + i) + 1
      BY <1>1
    <2>4. Follows(s[p + i], s[(p + i) + 1])
      BY <2>1 DEF Contiguous
    <2> QED BY Zenon, <2>2, <2>3, <2>4
  <1>6. t # <<>> => t[1].id = n + j + 1 /\ t[1].at = 1
    <2> HAVE t # <<>>
    <2>1. t[1] = s[p + 1] /\ p + 1 \in 1..Len(s)
      BY <1>1, <1>2, <1>3
    <2>2. CASE p = 0
      BY <1>1, <2>1, <2>2 DEF Contiguous
    <2>3. CASE p # 0
      <3>1. Follows(s[p], s[p + 1])
        BY <1>1, <2>1, <2>3 DEF Contiguous
      <3>2. p \in 1..Len(s)
        BY <1>1, <2>1, <2>3
      <3>3. Cost(s[p].payload) \in Nat
        BY <3>2, AtoNat
      <3> QED BY <2>1, <2>3, <3>1, <3>3 DEF Follows
    <2> QED BY <2>2, <2>3
  <1>7. Contiguous(t, n + j, acc)
    BY <1>4, <1>5, <1>6 DEF Contiguous
  <1>8. ASSUME NEW k, UpTo(s, n, k) PROVE UpTo(t, n + j, k)
    <2>1. CASE p = Len(s)
      <3>1. t = <<>>
        BY <1>3, <2>1
      <3>2. CASE p = 0
        BY <1>1, <1>8, <2>1, <3>1, <3>2 DEF UpTo
      <3>3. CASE p # 0
        <4>1. s[p].id = n + j /\ s[Len(s)].id = k
          BY <1>1, <1>8, <2>1, <3>3 DEF UpTo
        <4> QED BY <2>1, <3>1, <4>1 DEF UpTo
      <3> QED BY <3>2, <3>3
    <2>2. CASE p # Len(s)
      <3>1. t # <<>> /\ s # <<>> /\ Len(t) = Len(s) - p /\ t[Len(t)] = s[Len(s)]
        <4>1. Len(s) - p \in 1..(Len(s) - p) /\ p + (Len(s) - p) = Len(s) /\ Len(s) # 0
          BY <1>1, <2>2
        <4> QED BY <1>1, <1>2, <1>3, <2>2, <4>1
      <3> QED BY <1>8, <3>1 DEF UpTo
    <2> QED BY <2>1, <2>2
  <1> QED BY <1>2, <1>7, <1>8 DEF t

\* Bytes up to a frame and bytes that go on after it.
LEMMA Join ==
    ASSUME NEW s \in Seq(WireBytes), NEW t \in Seq(WireBytes), NEW n \in Nat, NEW k \in Nat, NEW acc,
           Contiguous(s, n, acc), UpTo(s, n, k), Contiguous(t, k, acc)
    PROVE  /\ Contiguous(s \o t, n, acc)
           /\ \A m : UpTo(t, k, m) => UpTo(s \o t, n, m)
  <1> DEFINE u == s \o t
  <1>1. Len(s) \in Nat /\ Len(t) \in Nat /\ (s = <<>> <=> Len(s) = 0) /\ (t = <<>> <=> Len(t) = 0)
    BY LenProperties, EmptySeq
  <1>2. u \in Seq(WireBytes) /\ Len(u) = Len(s) + Len(t)
    BY ConcatProperties
  <1>3. \A i \in 1..Len(s) : u[i] = s[i]
    BY <1>1, ConcatProperties
  <1>4. \A i \in 1..Len(t) : u[Len(s) + i] = t[i]
    <2> TAKE i \in 1..Len(t)
    <2>1. Len(s) + i \in 1..(Len(s) + Len(t)) /\ ~(Len(s) + i <= Len(s)) /\ (Len(s) + i) - Len(s) = i
      BY <1>1
    <2> QED BY <2>1, ConcatProperties
  <1>5. u = <<>> <=> Len(u) = 0
    BY <1>2, EmptySeq
  <1> HIDE DEF u
  <1>6. \A i \in 1..Len(u) : ByteOk(u[i], acc)
    <2> TAKE i \in 1..Len(u)
    <2>1. CASE i <= Len(s)
      BY <1>1, <1>3, <2>1 DEF Contiguous
    <2>2. CASE i > Len(s)
      <3>1. i - Len(s) \in 1..Len(t) /\ Len(s) + (i - Len(s)) = i
        BY <1>1, <1>2, <2>2
      <3>2. u[i] = t[i - Len(s)]
        BY <1>4, <3>1
      <3> QED BY <3>1, <3>2 DEF Contiguous
    <2> QED BY <1>1, <1>2, <2>1, <2>2
  <1>7. \A i \in 1..(Len(u) - 1) : Follows(u[i], u[i + 1])
    <2> TAKE i \in 1..(Len(u) - 1)
    <2>1. CASE i < Len(s)
      <3>1. i \in 1..(Len(s) - 1) /\ i \in 1..Len(s) /\ i + 1 \in 1..Len(s)
        BY <1>1, <2>1
      <3> QED BY <1>3, <3>1 DEF Contiguous
    <2>2. CASE i = Len(s)
      <3>1. s # <<>> /\ t # <<>> /\ i \in 1..Len(s) /\ 1 \in 1..Len(t)
        BY <1>1, <1>2, <2>2
      <3>2. u[i] = s[Len(s)] /\ u[i + 1] = t[1]
        BY <1>3, <1>4, <2>2, <3>1
      <3>3. s[Len(s)].id = k /\ s[Len(s)].at = Cost(s[Len(s)].payload) /\ t[1].id = k + 1 /\ t[1].at = 1
        BY <3>1 DEF UpTo, Contiguous
      <3>4. Cost(s[Len(s)].payload) \in Nat
        BY <2>2, <3>1, AtoNat
      <3> QED BY <3>2, <3>3, <3>4 DEF Follows
    <2>3. CASE i > Len(s)
      <3>1. i - Len(s) \in 1..(Len(t) - 1) /\ i - Len(s) \in 1..Len(t) /\ (i - Len(s)) + 1 \in 1..Len(t)
        BY <1>1, <1>2, <2>3
      <3>2. Len(s) + (i - Len(s)) = i /\ Len(s) + ((i - Len(s)) + 1) = i + 1
        BY <1>1, <1>2
      <3>3. u[i] = t[i - Len(s)] /\ u[i + 1] = t[(i - Len(s)) + 1]
        <4> DEFINE j == i - Len(s)
        <4>1. u[Len(s) + j] = t[j] /\ u[Len(s) + (j + 1)] = t[j + 1]
          BY <1>4, <3>1
        <4> QED BY Zenon, <3>2, <4>1
      <3> QED BY <3>1, <3>3 DEF Contiguous
    <2> QED BY <1>1, <1>2, <2>1, <2>2, <2>3
  <1>8. u # <<>> => u[1].id = n + 1 /\ u[1].at = 1
    <2> HAVE u # <<>>
    <2>1. CASE s # <<>>
      BY <1>1, <1>3, <2>1 DEF Contiguous
    <2>2. CASE s = <<>>
      <3>1. k = n /\ t # <<>> /\ 1 \in 1..Len(t) /\ Len(s) + 1 = 1
        BY <1>1, <1>2, <1>5, <2>2 DEF UpTo
      <3>2. u[1] = t[1]
        BY <1>4, <3>1
      <3> QED BY <3>1, <3>2 DEF Contiguous
    <2> QED BY <2>1, <2>2
  <1>9. Contiguous(u, n, acc)
    BY <1>6, <1>7, <1>8 DEF Contiguous
  <1>10. ASSUME NEW m, UpTo(t, k, m) PROVE UpTo(u, n, m)
    <2>1. CASE t = <<>>
      <3>1. k = m /\ Len(u) = Len(s)
        BY <1>1, <1>2, <1>10, <2>1 DEF UpTo
      <3>2. s # <<>> => u[Len(s)] = s[Len(s)]
        BY <1>1, <1>3
      <3> QED BY <1>1, <1>5, <3>1, <3>2 DEF UpTo
    <2>2. CASE t # <<>>
      <3>1. u[Len(u)] = t[Len(t)] /\ u # <<>>
        BY <1>1, <1>2, <1>4, <1>5, <2>2
      <3> QED BY <1>10, <2>2, <3>1 DEF UpTo
    <2> QED BY <2>1, <2>2
  <1> QED BY <1>9, <1>10 DEF u

\* The first bytes of a stream go on after the same frame.
LEMMA Shorter ==
    ASSUME NEW s \in Seq(WireBytes), NEW t \in Seq(WireBytes), NEW n \in Nat, NEW acc,
           Contiguous(s \o t, n, acc)
    PROVE  Contiguous(s, n, acc)
  <1> DEFINE u == s \o t
  <1>1. Len(s) \in Nat /\ Len(t) \in Nat /\ (s = <<>> <=> Len(s) = 0)
    BY LenProperties, EmptySeq
  <1>2. u \in Seq(WireBytes) /\ Len(u) = Len(s) + Len(t) /\ \A i \in 1..Len(s) : u[i] = s[i]
    BY <1>1, ConcatProperties
  <1>3. u = <<>> <=> Len(u) = 0
    BY <1>2, EmptySeq
  <1>4. Contiguous(u, n, acc)
    OBVIOUS
  <1> HIDE DEF u
  <1>5. \A i \in 1..Len(s) : ByteOk(s[i], acc)
    BY <1>1, <1>2, <1>4 DEF Contiguous
  <1>6. \A i \in 1..(Len(s) - 1) : Follows(s[i], s[i + 1])
    <2> TAKE i \in 1..(Len(s) - 1)
    <2>1. i \in 1..Len(s) /\ i + 1 \in 1..Len(s) /\ i \in 1..(Len(u) - 1)
      BY <1>1, <1>2
    <2> QED BY <1>2, <1>4, <2>1 DEF Contiguous
  <1>7. s # <<>> => s[1].id = n + 1 /\ s[1].at = 1
    BY <1>1, <1>2, <1>3, <1>4 DEF Contiguous
  <1> QED BY <1>5, <1>6, <1>7 DEF Contiguous

\* A frame accepted later changes nothing for the bytes already written.
LEMMA MoreAccepted ==
    ASSUME NEW acc \in Seq(Sizes), NEW x \in Sizes, NEW s, NEW n, Contiguous(s, n, acc)
    PROVE  Contiguous(s, n, Append(acc, x))
  <1>1. \A b : ByteOk(b, acc) => ByteOk(b, Append(acc, x))
    BY AppendProperties, LenProperties DEF ByteOk
  <1> QED BY <1>1 DEF Contiguous

\* The bytes of one frame go on after the frame before it and end with it.
LEMMA OneFrame ==
    ASSUME NEW acc \in Seq(Sizes), NEW id \in 1..Len(acc), id \in 1..MaxSends
    PROVE  /\ Encoded(id, acc[id]) \in Seq(WireBytes) /\ Encoded(id, acc[id]) # <<>>
           /\ \A i \in 1..Len(Encoded(id, acc[id])) : Encoded(id, acc[id])[i].payload = acc[id]
           /\ Contiguous(Encoded(id, acc[id]), id - 1, acc)
           /\ UpTo(Encoded(id, acc[id]), id - 1, id)
  <1> DEFINE m == acc[id]
             s == Encoded(id, acc[id])
             c == Cost(m)
             B(i) == [id |-> id, at |-> i, payload |-> m]
  <1>1. m \in Sizes /\ c \in Nat /\ c > 0 /\ id \in Nat
    BY ElementOfSeq, CostType, LenProperties
  <1>2. s = [i \in 1..c |-> B(i)]
    BY DEF Encoded, Cost
  <1> HIDE DEF c, s
  <1>3. \A i \in 1..c : B(i) \in WireBytes
    BY <1>1 DEF WireBytes
  <1>4. s \in Seq(WireBytes) /\ Len(s) = c /\ s # <<>>
    <2> HIDE DEF B
    <2>1. s \in [1..c -> WireBytes]
      BY <1>2, <1>3
    <2>2. s \in Seq(WireBytes) /\ Len(s) = c
      BY <1>1, <2>1, IsASeq, LenProperties
    <2> QED BY <1>1, <2>2, EmptySeq
  <1>5. \A i \in 1..c : s[i].id = id /\ s[i].at = i /\ s[i].payload = m
    BY <1>2
  <1> HIDE DEF B
  <1>6. \A i \in 1..c : ByteOk(s[i], acc)
    <2> TAKE i \in 1..c
    <2>1. s[i].id \in 1..Len(acc) /\ s[i].payload = acc[s[i].id]
      BY <1>5
    <2>2. s[i].at \in 1..Cost(s[i].payload)
      BY <1>5 DEF c
    <2> QED BY <2>1, <2>2 DEF ByteOk
  <1>7. \A i \in 1..(c - 1) : Follows(s[i], s[i + 1])
    <2> TAKE i \in 1..(c - 1)
    <2>1. i \in 1..c /\ i + 1 \in 1..c /\ i < c
      BY <1>1
    <2>2. s[i].at < Cost(s[i].payload) /\ s[i + 1].id = s[i].id /\ s[i + 1].at = s[i].at + 1
      BY <1>5, <2>1 DEF c
    <2> QED BY <2>2 DEF Follows
  <1>8. s[1].id = id /\ s[1].at = 1 /\ s[c].id = id /\ s[c].at = Cost(s[c].payload)
    <2>1. 1 \in 1..c /\ c \in 1..c
      BY <1>1
    <2> QED BY <1>5, <2>1 DEF c
  <1>9. Contiguous(s, id - 1, acc)
    BY <1>1, <1>4, <1>6, <1>7, <1>8 DEF Contiguous
  <1>10. UpTo(s, id - 1, id)
    BY <1>4, <1>8 DEF UpTo
  <1> QED BY <1>4, <1>5, <1>9, <1>10 DEF s
-----------------------------------------------------------------------------
\* The assumptions on the constants, in the form the proofs use.
LEMMA BoundFacts == MaxSends \in Nat /\ QueueFrames \in Nat \ {0} /\ QueueBytes \in Nat /\ PrefixBytes \in Nat /\ Sizes \subseteq Nat \ {0}
  BY StreamBounds

\* The stream opens empty.
LEMMA InitStreamInv == StreamInit => StreamInv
  <1> SUFFICES ASSUME StreamInit PROVE StreamInv
    OBVIOUS
  <1> USE DEF StreamInit
  <1>1. Len(<<>>) = 0 /\ \A S : <<>> \in Seq(S)
    OBVIOUS
  <1>2. StreamTypeOK
    <2>1. fin \in BOOLEAN
      BY Zenon
    <2> QED BY <1>1, <2>1, BoundFacts DEF StreamTypeOK
  <1>3. InputBudgetExact
    BY QueuedNone DEF InputBudgetExact
  <1>4. PrefixInOrder
    BY <1>1 DEF PrefixInOrder
  <1>5. BytesPart
    BY <1>1 DEF BytesPart
  <1>6. SenderPart
    BY <1>1 DEF SenderPart
  <1>7. ReaderPart
    <2>1. OnTheWay = <<>>
      BY DEF OnTheWay
    <2> QED BY <1>1, <2>1 DEF ReaderPart, Contiguous, UpTo
  <1> QED BY <1>2, <1>3, <1>4, <1>5, <1>6, <1>7 DEF StreamInv

\* What the invariant says of types and lengths.
LEMMA StreamFacts ==
    ASSUME StreamInv
    PROVE  /\ accepted \in Seq(Sizes) /\ Len(accepted) \in Nat
           /\ queue \in Seq(Framed) /\ Len(queue) \in Nat /\ Len(queue) <= Len(accepted)
           /\ delivered \in Seq(1..MaxSends) /\ Len(delivered) \in Nat /\ Len(delivered) <= Len(accepted)
           /\ decoder \in Seq(WireBytes) /\ wire \in Seq(WireBytes) /\ writing \in Seq(WireBytes)
           /\ OnTheWay \in Seq(WireBytes)
           /\ sends \in 0..MaxSends /\ budget \in 0..QueueBytes
           /\ QueuedBytes(queue) \in Nat
  BY QueuedType, LenProperties, ConcatProperties DEF StreamInv, StreamTypeOK, BytesPart, SenderPart, ReaderPart, OnTheWay

\* The frame being written is not empty.
LEMMA WritingCost ==
    ASSUME StreamInv
    PROVE  writer = "writing" => Len(writing) \in Nat \ {0} /\ Cost(writing[1].payload) \in Nat
  <1> SUFFICES ASSUME writer = "writing" PROVE Len(writing) \in Nat \ {0} /\ Cost(writing[1].payload) \in Nat
    OBVIOUS
  <1>1. writing \in Seq(WireBytes) /\ writing # <<>>
    BY DEF StreamInv, BytesPart
  <1>2. Len(writing) \in Nat \ {0} /\ 1 \in 1..Len(writing)
    BY <1>1, LenProperties, EmptySeq
  <1> QED BY <1>1, <1>2, AtoNat

\* A call of try_send that is refused, and the steps that touch no byte.
LEMMA QuietSteps ==
    ASSUME StreamInv, (\E n \in Sizes : ReserveBytes(n)) \/ DropHandle \/ LoseConnection \/ ReadEnd \/ ReadInputFails
    PROVE  StreamInv'
  <1> USE DEF sendVars, writeVars, readVars
  <1>1. UNCHANGED <<queue, accepted, writer, writing, wire, fin, decoder, delivered>> /\ (reader' = reader \/ reader' \in {"clean", "broken"})
    BY DEF ReserveBytes, DropHandle, LoseConnection, ReadEnd, ReadInputFails
  <1>2. PrefixInOrder' /\ BytesPart'
    BY <1>1 DEF StreamInv, PrefixInOrder, BytesPart
  <1>3. ReaderPart'
    BY <1>1 DEF StreamInv, ReaderPart, OnTheWay
  <1>4. StreamTypeOK' /\ InputBudgetExact' /\ SenderPart'
    <2>1. ASSUME NEW n \in Sizes, ReserveBytes(n) PROVE StreamTypeOK' /\ InputBudgetExact' /\ SenderPart'
      <3>1. Cost(n) \in Nat
        BY CostType
      <3>2. handle = "open" /\ sends' \in 0..MaxSends /\ sends' = sends + 1
        BY <2>1, StreamFacts, BoundFacts DEF ReserveBytes
      <3>3. CASE WithinBudget(n)
        <4>1. handle' = "reserved" /\ size' = n /\ budget' = budget + Cost(n) /\ budget' \in 0..QueueBytes
          <5>1. handle' = "reserved" /\ size' = n /\ budget' = budget + Cost(n)
            BY <2>1, <3>3 DEF ReserveBytes
          <5>2. budget \in 0..QueueBytes /\ QueueBytes \in Nat
            BY StreamFacts, BoundFacts
          <5>3. budget + Cost(n) <= QueueBytes
            BY <3>3 DEF WithinBudget
          <5> QED BY <3>1, <5>1, <5>2, <5>3
        <4>2. StreamTypeOK'
          BY <1>1, <2>1, <3>2, <4>1 DEF StreamInv, StreamTypeOK, ReserveBytes
        <4>3. InputBudgetExact'
          <5>1. writer = "writing" => Cost(writing[1].payload) \in Nat
            BY WritingCost
          <5> DEFINE Q == QueuedBytes(queue)
                     W == IF writer = "writing" THEN Cost(writing[1].payload) ELSE 0
          <5>2. Q \in Nat /\ W \in Nat /\ budget = Q + 0 + W
            BY <3>2, <5>1, StreamFacts DEF StreamInv, InputBudgetExact
          <5>3. Q' = Q /\ W' = W
            BY <1>1
          <5> HIDE DEF Q, W
          <5>4. budget' = Q' + Cost(n) + W'
            BY <3>1, <4>1, <5>2, <5>3
          <5> QED BY <4>1, <5>4 DEF Q, W, InputBudgetExact
        <4>4. SenderPart'
          <5>1. SenderPart /\ Len(accepted) \in Nat /\ sends \in Nat
            BY StreamFacts DEF StreamInv
          <5>2. Len(accepted) + 1 <= sends'
            BY <3>2, <5>1 DEF SenderPart
          <5>3. size' \in Sizes
            BY <4>1
          <5> QED BY <1>1, <4>1, <5>1, <5>2, <5>3 DEF SenderPart
        <4> QED BY <4>2, <4>3, <4>4
      <3>4. CASE ~WithinBudget(n)
        <4>1. UNCHANGED <<handle, size, budget, link, reader>>
          BY <2>1, <3>4 DEF ReserveBytes
        <4> QED BY <1>1, <3>2, <4>1, StreamFacts DEF StreamInv, StreamTypeOK, InputBudgetExact, SenderPart
      <3> QED BY <3>3, <3>4
    <2>2. ASSUME DropHandle PROVE StreamTypeOK' /\ InputBudgetExact' /\ SenderPart'
      BY <1>1, <2>2 DEF StreamInv, StreamTypeOK, InputBudgetExact, SenderPart, DropHandle
    <2>3. ASSUME LoseConnection PROVE StreamTypeOK' /\ InputBudgetExact' /\ SenderPart'
      BY <1>1, <2>3 DEF StreamInv, StreamTypeOK, InputBudgetExact, SenderPart, LoseConnection
    <2>4. ASSUME ReadEnd \/ ReadInputFails PROVE StreamTypeOK' /\ InputBudgetExact' /\ SenderPart'
      BY <1>1, <2>4 DEF StreamInv, StreamTypeOK, InputBudgetExact, SenderPart, ReadEnd, ReadInputFails
    <2> QED BY <2>1, <2>2, <2>3, <2>4
  <1> QED BY <1>2, <1>3, <1>4 DEF StreamInv

\* The frame is accepted and queued, or gives its bytes back.
LEMMA PushInv ==
    ASSUME StreamInv, Push
    PROVE  StreamInv'
  <1> USE DEF writeVars, readVars
  <1>1. /\ handle = "reserved" /\ handle' = "open" /\ size' = 0 /\ size \in Sizes /\ Cost(size) \in Nat
        /\ UNCHANGED <<sends, writer, writing, fin, wire, link, decoder, reader, delivered>>
        /\ Len(accepted) + 1 <= sends
    BY CostType DEF StreamInv, SenderPart, Push
  <1>2. PrefixInOrder' /\ BytesPart'
    BY <1>1 DEF StreamInv, PrefixInOrder, BytesPart
  <1>3. writer = "writing" => Cost(writing[1].payload) \in Nat
    BY WritingCost
  <1>4. OnTheWay' = OnTheWay
    BY <1>1 DEF OnTheWay
  <1>5. CASE Len(queue) < QueueFrames /\ writer # "ended"
    <2> DEFINE id == Len(accepted) + 1
               e == [id |-> id, size |-> size]
    <2>1. accepted' = Append(accepted, size) /\ queue' = Append(queue, e) /\ budget' = budget
      BY <1>5 DEF Push
    <2>2. id \in 1..MaxSends /\ e \in Framed
      BY <1>1, StreamFacts, BoundFacts DEF Framed
    <2>3. /\ accepted' \in Seq(Sizes) /\ Len(accepted') = Len(accepted) + 1 /\ accepted'[id] = size
          /\ \A i \in 1..Len(accepted) : accepted'[i] = accepted[i]
      BY <1>1, <2>1, StreamFacts, AppendProperties
    <2>4. /\ queue' \in Seq(Framed) /\ Len(queue') = Len(queue) + 1 /\ queue'[Len(queue) + 1] = e
          /\ \A i \in 1..Len(queue) : queue'[i] = queue[i]
      BY <2>1, <2>2, StreamFacts, AppendProperties
    <2>5. \A i \in 1..Len(queue') :
             queue'[i].id = Len(accepted') - Len(queue') + i /\ queue'[i].size = accepted'[queue'[i].id]
      <3> TAKE i \in 1..Len(queue')
      <3>1. CASE i = Len(queue) + 1
        BY <2>3, <2>4, <3>1, StreamFacts
      <3>2. CASE i \in 1..Len(queue)
        <4>1. queue[i].id = Len(accepted) - Len(queue) + i /\ queue[i].size = accepted[queue[i].id]
          BY <3>2 DEF StreamInv, SenderPart
        <4>2. queue[i].id \in 1..Len(accepted)
          BY <3>2, <4>1, StreamFacts
        <4>3. queue'[i] = queue[i] /\ accepted'[queue[i].id] = accepted[queue[i].id]
          BY <2>3, <2>4, <3>2, <4>2
        <4>4. Len(accepted') - Len(queue') = Len(accepted) - Len(queue)
          BY <2>3, <2>4, StreamFacts
        <4> QED BY <4>1, <4>3, <4>4
      <3> QED BY <2>4, <3>1, <3>2, StreamFacts
    <2>6. SenderPart'
      BY <1>1, <1>5, <2>3, <2>4, <2>5, StreamFacts DEF StreamInv, SenderPart
    <2>7. StreamTypeOK'
      <3>1. \A i \in 1..Len(queue') : queue'[i].id \in 1..MaxSends /\ queue'[i].size \in Sizes
        <4> TAKE i \in 1..Len(queue')
        <4>1. queue'[i] \in Framed
          BY <2>4, ElementOfSeq
        <4> QED BY <4>1 DEF Framed
      <3>2. Len(queue') <= QueueFrames
        BY <1>5, <2>4, StreamFacts, BoundFacts
      <3> QED BY <1>1, <2>1, <2>3, <3>1, <3>2 DEF StreamInv, StreamTypeOK
    <2>8. InputBudgetExact'
      <3>1. QueuedBytes(queue') = QueuedBytes(queue) + Cost(size)
        BY <2>1, <2>2, QueuedAppend, StreamFacts
      <3> QED BY <1>1, <1>3, <2>1, <3>1, StreamFacts DEF StreamInv, InputBudgetExact
    <2>9. ReaderPart'
      <3>1. Len(delivered') <= Len(accepted')
        BY <1>1, <2>3, StreamFacts
      <3>2. reader = "reading" => Contiguous(OnTheWay, Len(delivered), accepted')
        BY <1>1, <2>1, StreamFacts, MoreAccepted DEF StreamInv, ReaderPart
      <3>3. Len(accepted') - Len(queue') = Len(accepted) - Len(queue)
        BY <2>3, <2>4, StreamFacts
      <3> QED BY <1>1, <1>4, <3>1, <3>2, <3>3 DEF StreamInv, ReaderPart
    <2> QED BY <1>2, <2>6, <2>7, <2>8, <2>9 DEF StreamInv
  <1>6. CASE ~(Len(queue) < QueueFrames /\ writer # "ended")
    <2>1. budget' = budget - Cost(size) /\ UNCHANGED <<queue, accepted>>
      BY <1>6 DEF Push, GivenBack
    <2>2. InputBudgetExact'
      <3> DEFINE Q == QueuedBytes(queue)
                 C == Cost(size)
                 W == IF writer = "writing" THEN Cost(writing[1].payload) ELSE 0
      <3>1. Q \in Nat /\ C \in Nat /\ W \in Nat
        BY <1>1, <1>3, StreamFacts
      <3>2. budget = Q + C + W
        BY <1>1 DEF StreamInv, InputBudgetExact
      <3>3. Q' = Q /\ W' = W /\ budget' = budget - C
        BY <1>1, <2>1
      <3> HIDE DEF Q, C, W
      <3>4. budget' = Q' + 0 + W'
        BY <3>1, <3>2, <3>3
      <3> QED BY <1>1, <3>4 DEF Q, W, InputBudgetExact
    <2>3. budget' \in 0..QueueBytes
      <3> DEFINE W == IF writer = "writing" THEN Cost(writing[1].payload) ELSE 0
      <3>1. W \in Nat
        BY <1>3
      <3>2. budget = QueuedBytes(queue) + Cost(size) + W
        BY <1>1 DEF StreamInv, InputBudgetExact
      <3> DEFINE C == Cost(size)
                 Q == QueuedBytes(queue)
      <3>3. budget \in Nat /\ budget <= QueueBytes /\ QueueBytes \in Nat /\ Q \in Nat /\ C \in Nat /\ budget' = budget - C
        BY <1>1, <2>1, StreamFacts, BoundFacts
      <3> HIDE DEF W, C, Q
      <3>4. budget = Q + C + W
        BY <3>2 DEF C, Q
      <3> QED BY <3>1, <3>3, <3>4
    <2>4. StreamTypeOK'
      BY <1>1, <2>1, <2>3 DEF StreamInv, StreamTypeOK
    <2>5. SenderPart'
      <3>1. Len(accepted) + 1 <= sends /\ Len(accepted) + 0 <= sends
        BY <1>1, StreamFacts DEF StreamInv, SenderPart
      <3> QED BY <1>1, <2>1, <3>1 DEF StreamInv, SenderPart
    <2>6. ReaderPart'
      BY <1>1, <1>4, <2>1 DEF StreamInv, ReaderPart
    <2> QED BY <1>2, <2>2, <2>4, <2>5, <2>6 DEF StreamInv
  <1> QED BY <1>5, <1>6

\* The writer has nothing in hand and takes the first frame of the queue.
LEMMA TakeFrameInv ==
    ASSUME StreamInv, TakeFrame
    PROVE  StreamInv'
  <1> USE DEF readVars
  <1> DEFINE id == Len(accepted) - Len(queue) + 1
             n == accepted[id]
             k == Len(accepted) - Len(queue)
  <1>1. /\ writer = "recv" /\ queue # <<>> /\ queue' = Tail(queue) /\ writer' = "writing"
        /\ UNCHANGED <<handle, size, sends, budget, accepted, fin, wire, link, decoder, reader, delivered>>
        /\ writing' = Encoded(Head(queue).id, Head(queue).size)
    BY DEF TakeFrame
  <1>2. /\ queue' \in Seq(Framed) /\ Len(queue) \in Nat \ {0} /\ Len(queue') = Len(queue) - 1 /\ Head(queue) = queue[1]
        /\ \A i \in 1..Len(queue') : queue'[i] = queue[i + 1]
    BY <1>1, StreamFacts, HeadTailProperties, LenProperties, EmptySeq
  <1>3. Head(queue).id = id /\ Head(queue).size = n /\ id \in 1..Len(accepted) /\ n \in Sizes
    <2>1. queue[1].id = id /\ queue[1].size = accepted[queue[1].id]
      BY <1>2, StreamFacts DEF StreamInv, SenderPart
    <2>2. id \in 1..Len(accepted)
      BY <1>2, StreamFacts
    <2> QED BY <1>2, <2>1, <2>2, StreamFacts, ElementOfSeq
  <1>4. id \in 1..MaxSends
    <2>1. Len(accepted) <= sends
      BY StreamFacts DEF StreamInv, SenderPart
    <2> QED BY <1>3, <2>1, StreamFacts, BoundFacts
  <1>5. /\ writing' \in Seq(WireBytes) /\ writing' # <<>>
        /\ \A i \in 1..Len(writing') : writing'[i].payload = n
        /\ Contiguous(writing', k, accepted) /\ UpTo(writing', k, id)
    <2> HIDE DEF id, n, k
    <2>1. writing' = Encoded(id, accepted[id])
      BY <1>1, <1>3 DEF n
    <2>2. id - 1 = k
      BY StreamFacts DEF id, k
    <2> QED BY <1>3, <1>4, <2>1, <2>2, OneFrame, StreamFacts DEF n
  <1>6. 1 \in 1..Len(writing')
    BY <1>5, LenProperties, EmptySeq
  <1>7. writing = <<>>
    BY <1>1 DEF StreamInv, BytesPart
  <1>8. OnTheWay = decoder \o wire /\ OnTheWay' = OnTheWay \o writing'
    <2>1. (decoder \o wire) \in Seq(WireBytes)
      BY StreamFacts, ConcatProperties
    <2>2. (decoder \o wire) \o <<>> = decoder \o wire
      BY <2>1, ConcatEmptySeq
    <2> QED BY <1>1, <1>7, <2>2 DEF OnTheWay
  <1>9. BytesPart'
    BY <1>1, <1>5, <1>6 DEF StreamInv, BytesPart
  <1>10. StreamTypeOK'
    <2>1. \A i \in 1..Len(queue') : queue'[i].id \in 1..MaxSends /\ queue'[i].size \in Sizes
      <3> TAKE i \in 1..Len(queue')
      <3>1. queue'[i] \in Framed
        BY <1>2, ElementOfSeq
      <3> QED BY <3>1 DEF Framed
    <2>2. Len(queue') <= QueueFrames
      BY <1>2, BoundFacts DEF StreamInv, StreamTypeOK
    <2> QED BY <1>1, <2>1, <2>2 DEF StreamInv, StreamTypeOK
  <1>11. InputBudgetExact'
    <2>1. QueuedBytes(queue) = Cost(n) + QueuedBytes(queue')
      BY <1>1, <1>3, QueuedTail, StreamFacts
    <2>2. writing'[1].payload = n
      BY <1>5, <1>6
    <2>3. QueuedBytes(queue') \in Nat /\ Cost(n) \in Nat
      BY <1>2, <1>3, QueuedType, CostType
    <2>4. handle = "reserved" => Cost(size) \in Nat
      BY CostType DEF StreamInv, SenderPart
    <2> HIDE DEF n
    <2> QED BY <1>1, <2>1, <2>2, <2>3, <2>4 DEF StreamInv, InputBudgetExact
  <1>12. SenderPart'
    <2>1. \A i \in 1..Len(queue') :
             queue'[i].id = Len(accepted) - Len(queue') + i /\ queue'[i].size = accepted[queue'[i].id]
      <3> TAKE i \in 1..Len(queue')
      <3>1. i + 1 \in 1..Len(queue) /\ queue'[i] = queue[i + 1]
        BY <1>2
      <3>2. queue[i + 1].id = Len(accepted) - Len(queue) + (i + 1) /\ queue[i + 1].size = accepted[queue[i + 1].id]
        BY <3>1 DEF StreamInv, SenderPart
      <3>3. Len(accepted) - Len(queue) + (i + 1) = Len(accepted) - Len(queue') + i
        BY <1>2, <3>1, StreamFacts
      <3> QED BY <1>1, <3>1, <3>2, <3>3
    <2> QED BY <1>1, <1>2, <2>1, StreamFacts DEF StreamInv, SenderPart
  <1>13. ReaderPart'
    <2>1. CASE reader = "reading"
      <3>1. Contiguous(OnTheWay, Len(delivered), accepted) /\ UpTo(OnTheWay, Len(delivered), k)
        BY <1>1, <2>1 DEF StreamInv, ReaderPart
      <3>2. k \in Nat /\ Len(accepted) - Len(queue') = id
        BY <1>2, StreamFacts
      <3> HIDE DEF id, n, k
      <3>3. Contiguous(OnTheWay', Len(delivered), accepted) /\ UpTo(OnTheWay', Len(delivered), id)
        BY <1>5, <1>8, <3>1, <3>2, Join, StreamFacts
      <3> QED BY <1>1, <2>1, <3>2, <3>3 DEF StreamInv, ReaderPart
    <2>2. CASE reader # "reading"
      BY <1>1, <2>2 DEF StreamInv, ReaderPart
    <2> QED BY <2>1, <2>2
  <1>14. PrefixInOrder'
    BY <1>1 DEF StreamInv, PrefixInOrder
  <1> QED BY <1>9, <1>10, <1>11, <1>12, <1>13, <1>14 DEF StreamInv

\* Sequences one after the other, grouped in another way.
LEMMA Regroup ==
    ASSUME NEW a \in Seq(WireBytes), NEW b \in Seq(WireBytes), NEW c \in Seq(WireBytes)
    PROVE  (a \o b) \in Seq(WireBytes) /\ (a \o b) \o c = a \o (b \o c)
  BY ConcatAssociative, ConcatProperties

\* Four sequences joined in pairs are the same joined one after the other.
LEMMA RegroupFour ==
    ASSUME NEW d \in Seq(WireBytes), NEW w \in Seq(WireBytes), NEW a \in Seq(WireBytes), NEW b \in Seq(WireBytes)
    PROVE  (d \o w) \o (a \o b) = (d \o (w \o a)) \o b
  <1>1. (d \o w) \in Seq(WireBytes) /\ (d \o w) \o a = d \o (w \o a)
    BY Regroup
  <1>2. ((d \o w) \o a) \o b = (d \o w) \o (a \o b)
    BY Zenon, <1>1, Regroup
  <1> QED BY Zenon, <1>1, <1>2

\* A sequence cut after its k-th byte, with what comes before it.
LEMMA CutInTwo ==
    ASSUME NEW g \in Seq(WireBytes), NEW k \in 1..Len(g)
    PROVE  LET first == SubSeq(g, 1, k)
               rest == SubSeq(g, k + 1, Len(g))
           IN /\ first \in Seq(WireBytes) /\ Len(first) = k /\ \A i \in 1..k : first[i] = g[i]
              /\ rest \in Seq(WireBytes) /\ Len(rest) = Len(g) - k /\ (rest = <<>> <=> k = Len(g))
              /\ \A i \in 1..Len(rest) : rest[i] = g[k + i]
              /\ g = first \o rest
  <1> DEFINE first == SubSeq(g, 1, k)
             rest == SubSeq(g, k + 1, Len(g))
  <1>1. Len(g) \in Nat \ {0} /\ k \in Nat
    BY LenProperties
  <1>2. first \in Seq(WireBytes) /\ Len(first) = k /\ \A i \in 1..k : first[i] = g[i]
    <2>1. 1 \in 1..(Len(g) + 1) /\ \A i \in 1..k : g[i] \in WireBytes
      BY <1>1, ElementOfSeq
    <2> QED BY <1>1, <2>1, SubSeqProperties
  <1>3. rest \in Seq(WireBytes) /\ Len(rest) = Len(g) - k /\ \A i \in 1..Len(rest) : rest[i] = g[k + i]
    <2>1. CASE k = Len(g)
      BY <1>1, <2>1, SubSeqEmpty, EmptySeq
    <2>2. CASE k # Len(g)
      <3>1. k + 1 \in 1..(Len(g) + 1) /\ Len(g) \in k..Len(g) /\ \A i \in (k + 1)..Len(g) : g[i] \in WireBytes
        BY <1>1, <2>2, ElementOfSeq
      <3> QED BY <1>1, <2>2, <3>1, SubSeqProperties
    <2> QED BY <2>1, <2>2
  <1>4. rest = <<>> <=> k = Len(g)
    <2>1. rest = <<>> <=> Len(rest) = 0
      BY <1>3, EmptySeq
    <2> QED BY <1>1, <1>3, <2>1
  <1>5. g = first \o rest
    <2>1. SubSeq(g, 1, k) \o SubSeq(g, k + 1, Len(g)) = SubSeq(g, 1, Len(g))
      BY <1>1, ConcatAdjacentSubSeq
    <2>2. SubSeq(g, 1, Len(g)) = g
      BY SubSeqFull
    <2> QED BY <2>1, <2>2
  <1> QED BY <1>2, <1>3, <1>4, <1>5

\* Bytes pass from the writer's hand to the wire; after the last one of a frame
\* its reservation is given back.
LEMMA WriteBytesInv ==
    ASSUME StreamInv, NEW k \in 1..Len(writing), WriteBytes(k)
    PROVE  StreamInv'
  <1> USE DEF readVars
  <1> DEFINE first == SubSeq(writing, 1, k)
             rest == SubSeq(writing, k + 1, Len(writing))
             last == k = Len(writing)
  <1>1. /\ writer = "writing" /\ reader = "reading" /\ wire' = wire \o first /\ writing' = rest
        /\ IF last THEN writer' = "recv" /\ budget' = budget - Cost(writing[1].payload) ELSE UNCHANGED <<writer, budget>>
        /\ UNCHANGED <<handle, size, sends, queue, accepted, fin, link, decoder, reader, delivered>>
    BY DEF WriteBytes
  <1>2. Len(writing) \in Nat \ {0} /\ k \in Nat
    BY <1>1, WritingCost
  <1>3. /\ first \in Seq(WireBytes)
        /\ rest \in Seq(WireBytes) /\ Len(rest) = Len(writing) - k /\ (rest = <<>> <=> last)
        /\ \A i \in 1..Len(rest) : rest[i] = writing[k + i]
        /\ (decoder \o wire) \o writing = (decoder \o (wire \o first)) \o rest
    <2>1. decoder \in Seq(WireBytes) /\ wire \in Seq(WireBytes) /\ writing \in Seq(WireBytes)
      BY StreamFacts
    <2>2. /\ first \in Seq(WireBytes)
          /\ rest \in Seq(WireBytes) /\ Len(rest) = Len(writing) - k /\ (rest = <<>> <=> last)
          /\ \A i \in 1..Len(rest) : rest[i] = writing[k + i]
          /\ writing = first \o rest
      BY <2>1, CutInTwo
    <2> HIDE DEF first, rest
    <2>3. decoder \in Seq(WireBytes)
      BY <2>1
    <2>4. wire \in Seq(WireBytes)
      BY <2>1
    <2>5. first \in Seq(WireBytes)
      BY <2>2
    <2>6. rest \in Seq(WireBytes)
      BY <2>2
    <2>7. (decoder \o wire) \o (first \o rest) = (decoder \o (wire \o first)) \o rest
      <3> DEFINE dw == decoder \o wire
      <3>1. dw \in Seq(WireBytes)
        BY <2>3, <2>4, ConcatProperties
      <3>2. (decoder \o wire) \o first = decoder \o (wire \o first)
        BY <2>3, <2>4, <2>5, Regroup
      <3> HIDE DEF dw
      <3>3. (dw \o first) \o rest = dw \o (first \o rest)
        BY <2>5, <2>6, <3>1, Regroup
      <3> USE DEF dw
      <3> QED BY Zenon, <3>2, <3>3
    <2>8. writing = first \o rest
      BY <2>2
    <2>9. (decoder \o wire) \o writing = (decoder \o (wire \o first)) \o rest
      BY Zenon, <2>7, <2>8
    <2> QED BY <2>2, <2>9
  <1> HIDE DEF first, rest
  <1>4. wire' \in Seq(WireBytes)
    BY <1>1, <1>3, StreamFacts, ConcatProperties
  <1>5. OnTheWay' = OnTheWay
    BY <1>1, <1>3 DEF OnTheWay
  <1>6. BytesPart'
    <2>2. \A i \in 1..Len(rest) : rest[i].payload = rest[1].payload
      <3> TAKE i \in 1..Len(rest)
      <3>1. k + i \in 1..Len(writing) /\ k + 1 \in 1..Len(writing) /\ 1 \in 1..Len(rest)
        BY <1>2, <1>3
      <3> QED BY <1>3, <3>1 DEF StreamInv, BytesPart
    <2>3. writer' = "writing" <=> rest # <<>>
      BY <1>1, <1>3
    <2> QED BY <1>1, <1>3, <1>4, <2>2, <2>3 DEF StreamInv, BytesPart
  <1>7. StreamTypeOK' /\ InputBudgetExact'
    <2> DEFINE C == Cost(writing[1].payload)
               R == IF handle = "reserved" THEN Cost(size) ELSE 0
               Q == QueuedBytes(queue)
    <2>1. C \in Nat /\ Q \in Nat /\ R \in Nat
      BY <1>1, WritingCost, StreamFacts, CostType DEF StreamInv, SenderPart
    <2>2. budget = Q + R + C
      BY <1>1 DEF StreamInv, InputBudgetExact
    <2>3. budget \in Nat /\ budget <= QueueBytes /\ QueueBytes \in Nat
      BY StreamFacts, BoundFacts
    <2>4. CASE last
      <3>1. writer' = "recv" /\ budget' = budget - C
        BY <1>1, <2>4
      <3> HIDE DEF C, R, Q
      <3>2. budget' = Q + R /\ budget' \in 0..QueueBytes
        BY <2>1, <2>2, <2>3, <3>1
      <3>3. InputBudgetExact'
        BY <1>1, <2>1, <3>1, <3>2 DEF InputBudgetExact, Q, R
      <3> QED BY <1>1, <3>1, <3>2, <3>3 DEF StreamInv, StreamTypeOK
    <2>5. CASE ~last
      <3>1. writing'[1].payload = writing[1].payload
        <4>1. 1 \in 1..Len(rest) /\ k + 1 \in 1..Len(writing)
          BY <1>2, <1>3, <2>5
        <4> QED BY <1>1, <1>3, <4>1 DEF StreamInv, BytesPart
      <3> QED BY <1>1, <2>5, <3>1 DEF StreamInv, StreamTypeOK, InputBudgetExact
    <2> QED BY <2>4, <2>5
  <1>8. SenderPart'
    BY <1>1 DEF StreamInv, SenderPart
  <1>9. ReaderPart'
    <2>1. writer' # "ended" \/ fin' => writer # "ended" \/ fin
      BY <1>1
    <2> QED BY <1>1, <1>5, <2>1 DEF StreamInv, ReaderPart
  <1>10. PrefixInOrder'
    BY <1>1 DEF StreamInv, PrefixInOrder
  <1> QED BY <1>6, <1>7, <1>8, <1>9, <1>10 DEF StreamInv

\* One sequence after another.
LEMMA Joined ==
    ASSUME NEW S, NEW s \in Seq(S), NEW t \in Seq(S)
    PROVE  /\ (s \o t) \in Seq(S) /\ Len(s \o t) = Len(s) + Len(t)
           /\ \A i \in 1..Len(s) : (s \o t)[i] = s[i]
           /\ \A i \in 1..Len(t) : (s \o t)[Len(s) + i] = t[i]
  <1> DEFINE u == s \o t
             m == Len(s)
             n == Len(t)
  <1>1. m \in Nat /\ n \in Nat
    BY LenProperties
  <1>2. u \in Seq(S) /\ Len(u) = m + n /\ \A i \in 1..(m + n) : u[i] = IF i <= m THEN s[i] ELSE t[i - m]
    BY ConcatProperties
  <1> HIDE DEF u, m, n
  <1>3. \A i \in 1..m : u[i] = s[i]
    BY <1>1, <1>2
  <1>4. \A i \in 1..n : u[m + i] = t[i]
    <2> TAKE i \in 1..n
    <2>1. m + i \in 1..(m + n) /\ ~(m + i <= m) /\ (m + i) - m = i
      BY <1>1
    <2> QED BY <1>2, <2>1
  <1> QED BY <1>2, <1>3, <1>4 DEF u, m, n

\* Bytes up to a frame and bytes that go on after it.
\* The same, for bytes.
LEMMA JoinedBytes ==
    ASSUME NEW s \in Seq(WireBytes), NEW t \in Seq(WireBytes)
    PROVE  /\ (s \o t) \in Seq(WireBytes) /\ Len(s \o t) = Len(s) + Len(t)
           /\ \A i \in 1..Len(s) : (s \o t)[i] = s[i]
           /\ \A i \in 1..Len(t) : (s \o t)[Len(s) + i] = t[i]
  BY Joined

\* The first m numbers of frames after n others.
LEMMA InOrder ==
    ASSUME NEW del \in Seq(1..MaxSends), \A i \in 1..Len(del) : del[i] = i,
           NEW fr, NEW j \in Nat, fr = [x \in 1..j |-> Len(del) + x], NEW m \in 0..j, Len(del) + m <= MaxSends
    PROVE  LET d2 == del \o SubSeq(fr, 1, m) IN
           d2 \in Seq(1..MaxSends) /\ Len(d2) = Len(del) + m /\ \A i \in 1..Len(d2) : d2[i] = i
  <1> DEFINE g == SubSeq(fr, 1, m)
             d2 == del \o g
             n == Len(del)
  <1>1. n \in Nat /\ MaxSends \in Nat
    BY LenProperties, BoundFacts
  <1>2. fr \in Seq(Nat) /\ Len(fr) = j /\ \A x \in 1..j : fr[x] = n + x
    BY <1>1
  <1>3. g \in Seq(1..MaxSends) /\ Len(g) = m /\ \A x \in 1..m : g[x] = n + x
    <2>1. m \in 0..Len(fr) /\ 0 \in 0..m /\ 0 + 1 = 1 /\ m - 0 = m
      BY <1>2
    <2>2. g \in Seq(Nat) /\ Len(g) = m /\ \A x \in 1..m : g[x] = fr[0 + x]
      BY <1>2, <2>1, Slice
    <2> HIDE DEF g
    <2>3. ASSUME NEW x \in 1..m PROVE g[x] = n + x /\ n + x \in 1..MaxSends
      <3>1. x \in 1..j /\ 0 + x = x /\ n + x \in 1..MaxSends
        BY <1>1
      <3> HIDE DEF n
      <3> QED BY <1>2, <2>2, <3>1
    <2> HIDE DEF n
    <2>4. g \in [1..m -> 1..MaxSends]
      <3>1. g = [x \in 1..m |-> g[x]]
        BY <2>2, LenProperties
      <3> QED BY <2>3, <3>1
    <2> DEFINE E == 1..MaxSends
    <2> HIDE DEF E, g
    <2>5. g \in Seq(E)
      <3>1. g \in [1..m -> E] /\ m \in Nat
        BY <2>4 DEF E
      <3> QED BY <3>1
    <2> USE DEF E
    <2> QED BY <2>2, <2>3, <2>5
  <1> HIDE DEF g
  <1>4. /\ d2 \in Seq(1..MaxSends) /\ Len(d2) = n + m
        /\ \A i \in 1..n : d2[i] = del[i]
        /\ \A i \in 1..m : d2[n + i] = g[i]
    BY <1>3, Joined
  <1> HIDE DEF d2
  <1>5. \A i \in 1..Len(d2) : d2[i] = i
    <2> TAKE i \in 1..Len(d2)
    <2>1. CASE i <= n
      <3>1. i \in 1..n
        BY <1>1, <1>4, <2>1
      <3>2. d2[i] = del[i]
        BY <1>4, <3>1
      <3> QED BY <3>1, <3>2 DEF n
    <2>2. CASE i > n
      <3>1. i - n \in 1..m /\ n + (i - n) = i
        BY <1>1, <1>4, <2>2
      <3>2. d2[n + (i - n)] = g[i - n] /\ g[i - n] = n + (i - n)
        BY <1>3, <1>4, <3>1
      <3> QED BY <3>1, <3>2
    <2> QED BY <1>1, <1>4, <2>1, <2>2
  <1> QED BY <1>4, <1>5 DEF g, d2, n

\* A chunk of k bytes is cut off the wire after what is decoded.
Chunked(d, w, g, k) ==
    LET s == (d \o w) \o g
        chunk == SubSeq(w, 1, k)
        rest == SubSeq(w, k + 1, Len(w))
    IN /\ SubSeq(s, 1, Len(d)) = d /\ \A i \in 1..Len(d) : s[i] = d[i]
       /\ chunk \in Seq(WireBytes) /\ Len(chunk) = k /\ Len(d) + k <= Len(s)
       /\ \A i \in 1..k : chunk[i] = s[Len(d) + i]
       /\ rest \in Seq(WireBytes)
       /\ \A p \in 0..(Len(d) + k) : (SubSeq(s, p + 1, Len(d) + k) \o rest) \o g = SubSeq(s, p + 1, Len(s))

\* What a chunk of k bytes takes from the wire and what it leaves.
LEMMA ChunkCut ==
    ASSUME NEW d \in Seq(WireBytes), NEW w \in Seq(WireBytes), NEW g \in Seq(WireBytes), NEW k \in 1..Len(w)
    PROVE  Chunked(d, w, g, k)
  <1> DEFINE dw == d \o w
             s == dw \o g
             chunk == SubSeq(w, 1, k)
             rest == SubSeq(w, k + 1, Len(w))
             a == Len(d)
             e == a + k
             c == a + Len(w)
  <1>1. /\ a \in Nat /\ Len(w) \in Nat \ {0} /\ Len(g) \in Nat /\ k \in Nat
        /\ d \in Seq(WireBytes) /\ w \in Seq(WireBytes) /\ g \in Seq(WireBytes)
    BY LenProperties
  <1>2. /\ dw \in Seq(WireBytes) /\ Len(dw) = c
        /\ \A i \in 1..a : dw[i] = d[i]
        /\ \A i \in 1..Len(w) : dw[a + i] = w[i]
    BY JoinedBytes
  <1> HIDE DEF dw
  <1>3. /\ s \in Seq(WireBytes) /\ Len(s) = c + Len(g)
        /\ \A i \in 1..c : s[i] = dw[i]
        /\ \A i \in 1..Len(g) : s[c + i] = g[i]
    <2>1. dw \in Seq(WireBytes)
      BY <1>2
    <2>2. /\ (dw \o g) \in Seq(WireBytes) /\ Len(dw \o g) = Len(dw) + Len(g)
          /\ \A i \in 1..Len(dw) : (dw \o g)[i] = dw[i]
          /\ \A i \in 1..Len(g) : (dw \o g)[Len(dw) + i] = g[i]
      BY <2>1, JoinedBytes
    <2> HIDE DEF c
    <2>3. Len(dw) = c
      BY <1>2
    <2> QED BY <2>2, <2>3
  <1> HIDE DEF s, a
  <1>4. \A i \in 1..a : s[i] = d[i]
    BY <1>1, <1>2, <1>3
  <1>5. \A i \in 1..Len(w) : s[a + i] = w[i]
    BY <1>1, <1>2, <1>3
  <1>6. SubSeq(s, 1, a) = d
    <2> DEFINE f == SubSeq(s, 1, a)
    <2>1. a \in 0..Len(s) /\ 0 \in 0..a /\ 0 + 1 = 1 /\ a - 0 = a
      BY <1>1, <1>3
    <2>2. f \in Seq(WireBytes) /\ Len(f) = a /\ \A i \in 1..a : f[i] = s[0 + i]
      BY <1>3, <2>1, Slice
    <2> HIDE DEF f
    <2>3. \A i \in 1..Len(f) : f[i] = d[i]
      BY <1>1, <1>4, <2>2
    <2>4. Len(f) = Len(d)
      BY <2>2 DEF a
    <2>5. f = d
      BY <1>1, <2>2, <2>3, <2>4, SeqEqual
    <2> QED BY <2>5 DEF f
  <1>7. /\ chunk \in Seq(WireBytes) /\ Len(chunk) = k /\ \A i \in 1..k : chunk[i] = w[i]
        /\ rest \in Seq(WireBytes) /\ Len(rest) = Len(w) - k /\ \A i \in 1..Len(rest) : rest[i] = w[k + i]
    BY CutInTwo
  <1> HIDE DEF chunk, rest
  <1>8. \A i \in 1..k : chunk[i] = s[a + i]
    BY <1>1, <1>5, <1>7
  <1>9. e \in Nat /\ e <= c /\ c <= Len(s) /\ Len(s) \in Nat /\ c \in Nat /\ c - e = Len(rest)
    BY <1>1, <1>3, <1>7
  <1>10. \A i \in 1..Len(rest) : rest[i] = s[e + i]
    <2> TAKE i \in 1..Len(rest)
    <2>1. k + i \in 1..Len(w) /\ a + (k + i) = e + i
      BY <1>1, <1>7
    <2> QED BY <1>5, <1>7, <2>1
  <1> HIDE DEF e, c
  <1>11. ASSUME NEW p \in 0..e PROVE (SubSeq(s, p + 1, e) \o rest) \o g = SubSeq(s, p + 1, Len(s))
    <2> DEFINE bytes == SubSeq(s, p + 1, e)
               right == SubSeq(s, p + 1, Len(s))
               br == bytes \o rest
               left == br \o g
    <2>1. bytes \in Seq(WireBytes) /\ Len(bytes) = e - p /\ \A i \in 1..(e - p) : bytes[i] = s[p + i]
      <3>1. e \in 0..Len(s)
        BY <1>9
      <3> QED BY <1>3, <3>1, Slice
    <2>2. right \in Seq(WireBytes) /\ Len(right) = Len(s) - p /\ \A i \in 1..(Len(s) - p) : right[i] = s[p + i]
      <3>1. Len(s) \in 0..Len(s) /\ p \in 0..Len(s)
        BY <1>9
      <3> QED BY <1>3, <3>1, Slice
    <2> HIDE DEF bytes, right
    <2>3. /\ br \in Seq(WireBytes) /\ Len(br) = (e - p) + Len(rest)
          /\ \A i \in 1..(e - p) : br[i] = bytes[i]
          /\ \A i \in 1..Len(rest) : br[(e - p) + i] = rest[i]
      <3>1. bytes \in Seq(WireBytes) /\ rest \in Seq(WireBytes)
        BY <1>7, <2>1
      <3>2. /\ (bytes \o rest) \in Seq(WireBytes) /\ Len(bytes \o rest) = Len(bytes) + Len(rest)
            /\ \A i \in 1..Len(bytes) : (bytes \o rest)[i] = bytes[i]
            /\ \A i \in 1..Len(rest) : (bytes \o rest)[Len(bytes) + i] = rest[i]
        BY <3>1, JoinedBytes
      <3>3. Len(bytes) = e - p
        BY <2>1
      <3> QED BY Zenon, <3>2, <3>3
    <2> HIDE DEF br
    <2>4. Len(br) = c - p
      BY <1>9, <2>3
    <2>5. /\ left \in Seq(WireBytes) /\ Len(left) = (c - p) + Len(g)
          /\ \A i \in 1..(c - p) : left[i] = br[i]
          /\ \A i \in 1..Len(g) : left[(c - p) + i] = g[i]
      <3>1. br \in Seq(WireBytes) /\ g \in Seq(WireBytes)
        BY <2>3
      <3>2. /\ (br \o g) \in Seq(WireBytes) /\ Len(br \o g) = Len(br) + Len(g)
            /\ \A i \in 1..Len(br) : (br \o g)[i] = br[i]
            /\ \A i \in 1..Len(g) : (br \o g)[Len(br) + i] = g[i]
        BY <3>1, JoinedBytes
      <3> QED BY Zenon, <3>2, <2>4
    <2> HIDE DEF left
    <2>6. Len(left) = Len(right)
      BY <1>1, <1>3, <1>9, <2>2, <2>5
    <2>7. \A i \in 1..Len(left) : left[i] = s[p + i]
      <3> TAKE i \in 1..Len(left)
      <3>1. i \in Nat /\ i > 0
        BY <1>1, <1>9, <2>5
      <3>2. CASE i <= e - p
        <4>1. i \in 1..(e - p) /\ i \in 1..(c - p)
          BY <1>9, <3>1, <3>2
        <4> QED BY <2>1, <2>3, <2>5, <4>1
      <3>3. CASE i > e - p /\ i <= c - p
        <4> DEFINE x == i - (e - p)
        <4>1. x \in 1..Len(rest) /\ (e - p) + x = i /\ i \in 1..(c - p) /\ e + x = p + i
          BY <1>9, <3>1, <3>3
        <4> HIDE DEF x
        <4>2. left[i] = br[(e - p) + x] /\ br[(e - p) + x] = rest[x] /\ rest[x] = s[e + x]
          BY <1>10, <2>3, <2>5, <4>1
        <4> QED BY <4>1, <4>2
      <3>4. CASE i > c - p
        <4> DEFINE x == i - (c - p)
        <4>1. x \in 1..Len(g) /\ (c - p) + x = i /\ c + x = p + i
          <5>1. i <= (c - p) + Len(g) /\ Len(g) \in Nat
            BY <1>1, <2>5
          <5> QED BY <1>9, <3>1, <3>4, <5>1
        <4> HIDE DEF x
        <4>2. left[(c - p) + x] = g[x] /\ g[x] = s[c + x]
          BY <1>3, <2>5, <4>1
        <4> QED BY <4>1, <4>2
      <3> QED BY <1>9, <3>1, <3>2, <3>3, <3>4
    <2>8. \A i \in 1..Len(left) : left[i] = right[i]
      BY <1>3, <2>2, <2>6, <2>7
    <2>9. left = right
      BY <2>2, <2>5, <2>6, <2>8, SeqEqual
    <2> QED BY <2>9 DEF left, right, br, bytes
  <1>12. Len(d) + k = e /\ (d \o w) \o g = s /\ Len(d) = a /\ e <= Len(s)
    BY <1>9 DEF e, a, s, dw
  <1>13. chunk = SubSeq(w, 1, k) /\ rest = SubSeq(w, k + 1, Len(w))
    BY DEF chunk, rest
  <1> QED BY <1>4, <1>6, <1>7, <1>8, <1>11, <1>12, <1>13 DEF Chunked

\* Decoding a chunk: j frames more are complete, and the stream goes on after them.
LEMMA ChunkDecoded ==
    ASSUME StreamInv, reader = "reading", NEW k \in 1..Len(wire)
    PROVE  LET d == Decode(decoder, SubSeq(wire, 1, k))
               next == (d.bytes \o SubSeq(wire, k + 1, Len(wire))) \o writing
               n == Len(delivered)
           IN /\ SubSeq(wire, k + 1, Len(wire)) \in Seq(WireBytes)
              /\ d.bytes \in Seq(WireBytes)
              /\ \E j \in Nat :
                   /\ d.frames = [x \in 1..j |-> n + x]
                   /\ n + j <= Len(accepted)
                   /\ Contiguous(next, n + j, accepted)
                   /\ \A q : UpTo(OnTheWay, n, q) => UpTo(next, n + j, q)
                   /\ \A i \in 1..Len(d.bytes) : d.bytes[i].id = n + j + 1 /\ d.bytes[i].at = i
                   /\ d.bytes # <<>> => Len(d.bytes) < Cost(d.bytes[1].payload)
  <1> DEFINE n == Len(delivered)
             s == OnTheWay
             a == Len(decoder)
             chunk == SubSeq(wire, 1, k)
             rest == SubSeq(wire, k + 1, Len(wire))
             d == Decode(decoder, chunk)
             e == a + k
             next == (d.bytes \o rest) \o writing
  <1>1. decoder \in Seq(WireBytes) /\ wire \in Seq(WireBytes) /\ writing \in Seq(WireBytes)
    BY StreamFacts
  <1>2. /\ n \in Nat /\ n <= Len(accepted) /\ Len(accepted) \in Nat /\ a \in Nat /\ k \in Nat /\ k > 0
        /\ s \in Seq(WireBytes)
    BY <1>1, StreamFacts, LenProperties
  <1>3. /\ Contiguous(s, n, accepted)
        /\ \A i \in 1..a : decoder[i].id = n + 1 /\ decoder[i].at = i
        /\ decoder # <<>> => a < Cost(decoder[1].payload)
    BY DEF StreamInv, ReaderPart
  <1>4. /\ SubSeq(s, 1, a) = decoder /\ \A i \in 1..a : s[i] = decoder[i]
        /\ chunk \in Seq(WireBytes) /\ Len(chunk) = k /\ e <= Len(s)
        /\ \A i \in 1..k : chunk[i] = s[a + i]
        /\ rest \in Seq(WireBytes)
        /\ \A p \in 0..e : (SubSeq(s, p + 1, e) \o rest) \o writing = SubSeq(s, p + 1, Len(s))
    <2> DEFINE s2 == (decoder \o wire) \o writing
    <2>1. /\ SubSeq(s2, 1, a) = decoder /\ \A i \in 1..a : s2[i] = decoder[i]
          /\ chunk \in Seq(WireBytes) /\ Len(chunk) = k /\ e <= Len(s2)
          /\ \A i \in 1..k : chunk[i] = s2[a + i]
          /\ rest \in Seq(WireBytes)
          /\ \A p \in 0..e : (SubSeq(s2, p + 1, e) \o rest) \o writing = SubSeq(s2, p + 1, Len(s2))
      <3>1. Chunked(decoder, wire, writing, k)
        BY <1>1, ChunkCut
      <3> QED BY Zenon, <3>1 DEF Chunked
    <2> QED BY Zenon, <2>1 DEF OnTheWay
  <1>5. a > 0 => a < Cost(s[1].payload)
    <2> HAVE a > 0
    <2>1. decoder # <<>> /\ 1 \in 1..a
      BY <1>1, <1>2, EmptySeq
    <2> QED BY <1>3, <1>4, <2>1
  <1>6. \A i \in 1..a : s[i].id = n + 1 /\ s[i].at = i
    BY <1>3, <1>4
  <1> HIDE DEF n, s, a, chunk, rest
  <1>7. PICK p \in 0..e, j \in Nat : Decoded(s, n, p, j, e, d)
    <2>1. a + Len(chunk) <= Len(s) /\ \A i \in 1..Len(chunk) : chunk[i] = s[a + i]
      BY <1>4
    <2>2. \E p \in 0..(a + Len(chunk)), j \in Nat :
             Decoded(s, n, p, j, a + Len(chunk), Decode(SubSeq(s, 1, a), chunk))
      BY <1>2, <1>3, <1>4, <1>5, <1>6, <2>1, DecodeRight
    <2>3. Len(chunk) = k /\ SubSeq(s, 1, a) = decoder
      BY <1>4
    <2> QED BY Zenon, <2>2, <2>3
  <1> HIDE DEF d
  <1>8. Len(s) \in Nat /\ e \in 0..Len(s) /\ e \in Nat /\ p \in Nat /\ p <= e
    BY <1>2, <1>4, LenProperties
  <1>9. d.bytes = SubSeq(s, p + 1, e) /\ d.frames = [x \in 1..j |-> n + x]
    BY <1>7 DEF Decoded
  <1>10. d.bytes \in Seq(WireBytes) /\ Len(d.bytes) = e - p /\ \A i \in 1..(e - p) : d.bytes[i] = s[p + i]
    <2> DEFINE left == SubSeq(s, p + 1, e)
    <2>1. /\ left \in Seq(WireBytes) /\ Len(left) = e - p
          /\ \A i \in 1..(e - p) : left[i] = s[p + i]
      <3>1. s \in Seq(WireBytes) /\ e \in 0..Len(s) /\ p \in 0..e
        BY <1>2, <1>8
      <3> QED BY <3>1, Slice
    <2>2. d.bytes = left
      BY <1>9
    <2> QED BY Zenon, <2>1, <2>2
  <1>11. n + j <= Len(accepted)
    <2>1. CASE p = 0
      BY <1>2, <1>7, <2>1 DEF Decoded
    <2>2. CASE p # 0
      <3>1. s[p].id = n + j /\ p \in 1..Len(s)
        BY <1>7, <1>8, <2>2 DEF Decoded
      <3>2. ByteOk(s[p], accepted)
        BY <1>3, <3>1 DEF Contiguous
      <3> QED BY <1>2, <3>1, <3>2 DEF ByteOk
    <2> QED BY <2>1, <2>2
  <1>12. next = SubSeq(s, p + 1, Len(s))
    <2>1. (SubSeq(s, p + 1, e) \o rest) \o writing = SubSeq(s, p + 1, Len(s))
      BY <1>4
    <2> QED BY Zenon, <1>9, <2>1
  <1>13. Contiguous(next, n + j, accepted) /\ \A q : UpTo(s, n, q) => UpTo(next, n + j, q)
    <2> DEFINE t == SubSeq(s, p + 1, Len(s))
    <2>1. p \in 0..Len(s)
      BY <1>8
    <2>2. IF p = 0 THEN j = 0 ELSE s[p].id = n + j /\ s[p].at = Cost(s[p].payload)
      BY <1>7 DEF Decoded
    <2>3. Contiguous(t, n + j, accepted) /\ \A q : UpTo(s, n, q) => UpTo(t, n + j, q)
      BY <1>2, <1>3, <2>1, <2>2, Cut
    <2> HIDE DEF next, t
    <2>4. next = t
      BY <1>12 DEF t
    <2> QED BY Zenon, <2>3, <2>4
  <1> HIDE DEF e, next
  <1>14. \A i \in 1..Len(d.bytes) : d.bytes[i].id = n + j + 1 /\ d.bytes[i].at = i
    <2> TAKE i \in 1..Len(d.bytes)
    <2>1. p + i \in (p + 1)..e /\ (p + i) - p = i /\ d.bytes[i] = s[p + i]
      BY <1>8, <1>10
    <2>2. s[p + i].id = n + j + 1 /\ s[p + i].at = (p + i) - p
      BY <1>7, <2>1 DEF Decoded
    <2> QED BY <2>1, <2>2
  <1>15. d.bytes # <<>> => Len(d.bytes) < Cost(d.bytes[1].payload)
    <2> HAVE d.bytes # <<>>
    <2>1. p < e /\ d.bytes[1] = s[p + 1]
      <3>1. Len(d.bytes) # 0
        BY <1>10, EmptySeq
      <3>2. 1 \in 1..(e - p)
        BY <1>8, <1>10, <3>1
      <3> QED BY <1>8, <1>10, <3>2
    <2> QED BY <1>7, <1>10, <2>1 DEF Decoded
  <1> QED BY <1>4, <1>9, <1>10, <1>11, <1>13, <1>14, <1>15 DEF n, s, rest, d, chunk, next

\* The task ends: what is queued or in hand is dropped and gives its bytes back.
LEMMA EndWriterInv ==
    ASSUME StreamInv, FinishStream \/ WriteFails
    PROVE  StreamInv'
  <1> USE DEF readVars
  <1>1. /\ writer' = "ended" /\ queue' = <<>> /\ writing' = <<>>
        /\ budget' = (IF handle = "reserved" THEN Cost(size) ELSE 0)
        /\ UNCHANGED <<handle, size, sends, accepted, wire, link, decoder, reader, delivered>>
        /\ fin' \in BOOLEAN
    <2>1. fin \in BOOLEAN
      BY DEF StreamInv, StreamTypeOK
    <2> QED BY <2>1 DEF FinishStream, WriteFails, EndWriter
  <1>2. fin' => queue = <<>> /\ writing = <<>> /\ writer # "ended"
    BY DEF FinishStream, WriteFails, QueueEmptied, StreamInv, SenderPart, BytesPart
  <1>3. Len(<<>>) = 0 /\ \A S : <<>> \in Seq(S)
    OBVIOUS
  <1>4. BytesPart' /\ SenderPart' /\ PrefixInOrder'
    BY <1>1, <1>3, StreamFacts DEF StreamInv, BytesPart, SenderPart, PrefixInOrder
  <1>5. InputBudgetExact'
    BY <1>1, QueuedNone, CostType DEF StreamInv, SenderPart, InputBudgetExact
  <1>6. budget' \in 0..QueueBytes
    <2> DEFINE W == IF writer = "writing" THEN Cost(writing[1].payload) ELSE 0
               R == IF handle = "reserved" THEN Cost(size) ELSE 0
               Q == QueuedBytes(queue)
    <2>1. W \in Nat /\ Q \in Nat /\ R \in Nat
      BY WritingCost, StreamFacts, CostType DEF StreamInv, SenderPart
    <2>2. budget = Q + R + W
      BY DEF StreamInv, InputBudgetExact
    <2>3. budget \in Nat /\ budget <= QueueBytes /\ QueueBytes \in Nat /\ budget' = R
      BY <1>1, StreamFacts, BoundFacts
    <2> HIDE DEF W, R, Q
    <2> QED BY <2>1, <2>2, <2>3
  <1>7. StreamTypeOK'
    BY <1>1, <1>3, <1>6, BoundFacts DEF StreamInv, StreamTypeOK
  <1>8. ReaderPart'
    <2>1. CASE reader = "reading"
      <3>1. (decoder \o wire) \in Seq(WireBytes) /\ OnTheWay' = (decoder \o wire) \o <<>> /\ (decoder \o wire) \o <<>> = decoder \o wire
        BY <1>1, StreamFacts, ConcatProperties, ConcatEmptySeq DEF OnTheWay
      <3>2. Contiguous(OnTheWay', Len(delivered), accepted)
        <4>1. Contiguous((decoder \o wire) \o writing, Len(delivered), accepted)
          BY <2>1 DEF StreamInv, ReaderPart, OnTheWay
        <4> QED BY <3>1, <4>1, StreamFacts, Shorter
      <3>3. fin' => UpTo(OnTheWay', Len(delivered), Len(accepted) - Len(queue'))
        <4> HAVE fin'
        <4>1. OnTheWay' = OnTheWay
          BY <1>1, <1>2 DEF OnTheWay
        <4> QED BY <1>1, <1>2, <2>1, <4>1 DEF StreamInv, ReaderPart
      <3> QED BY <1>1, <2>1, <3>2, <3>3 DEF StreamInv, ReaderPart
    <2>2. CASE reader # "reading"
      BY <1>1, <2>2 DEF StreamInv, ReaderPart
    <2> QED BY <2>1, <2>2
  <1> QED BY <1>4, <1>5, <1>7, <1>8 DEF StreamInv

\* What ReadChunk does to the frames handed over: m frames more, and if it goes
\* on reading, the stream goes on after them.
LEMMA ReadChunkDelivers ==
    ASSUME StreamInv, NEW k \in 1..Len(wire), ReadChunk(k)
    PROVE  \E m \in Nat :
             /\ Len(delivered') = Len(delivered) + m /\ Len(delivered') <= Len(accepted)
             /\ delivered' \in Seq(1..MaxSends) /\ PrefixInOrder'
             /\ decoder' \in Seq(WireBytes) /\ wire' \in Seq(WireBytes)
             /\ reader' \in {"reading", "broken"}
             /\ reader' = "reading" =>
                  /\ Contiguous(OnTheWay', Len(delivered'), accepted)
                  /\ \A q : UpTo(OnTheWay, Len(delivered), q) => UpTo(OnTheWay', Len(delivered'), q)
                  /\ \A i \in 1..Len(decoder') : decoder'[i].id = Len(delivered') + 1 /\ decoder'[i].at = i
                  /\ decoder' # <<>> => Len(decoder') < Cost(decoder'[1].payload)
  <1> USE DEF sendVars, writeVars
  <1> DEFINE d == Decode(decoder, SubSeq(wire, 1, k))
             rest == SubSeq(wire, k + 1, Len(wire))
             next == (d.bytes \o rest) \o writing
             n == Len(delivered)
  <1>1. /\ reader = "reading" /\ decoder' = d.bytes /\ wire' = rest /\ writing' = writing
        /\ \/ delivered' = delivered \o d.frames /\ reader' = reader
           \/ \E x \in 1..Len(d.frames) : delivered' = delivered \o SubSeq(d.frames, 1, x) /\ reader' = "broken"
    BY Zenon DEF ReadChunk
  <1>2. /\ rest \in Seq(WireBytes) /\ d.bytes \in Seq(WireBytes)
        /\ \E j \in Nat :
             /\ d.frames = [x \in 1..j |-> n + x]
             /\ n + j <= Len(accepted)
             /\ Contiguous(next, n + j, accepted)
             /\ \A q : UpTo(OnTheWay, n, q) => UpTo(next, n + j, q)
             /\ \A i \in 1..Len(d.bytes) : d.bytes[i].id = n + j + 1 /\ d.bytes[i].at = i
             /\ d.bytes # <<>> => Len(d.bytes) < Cost(d.bytes[1].payload)
    BY <1>1, ChunkDecoded
  <1>3. PICK j \in Nat :
             /\ d.frames = [x \in 1..j |-> n + x]
             /\ n + j <= Len(accepted)
             /\ Contiguous(next, n + j, accepted)
             /\ \A q : UpTo(OnTheWay, n, q) => UpTo(next, n + j, q)
             /\ \A i \in 1..Len(d.bytes) : d.bytes[i].id = n + j + 1 /\ d.bytes[i].at = i
             /\ d.bytes # <<>> => Len(d.bytes) < Cost(d.bytes[1].payload)
    BY <1>2
  <1>4. OnTheWay' = next
    BY <1>1 DEF OnTheWay
  <1> DEFINE fr == d.frames
  <1>5. /\ n \in Nat /\ Len(accepted) \in Nat /\ n + j <= MaxSends /\ MaxSends \in Nat
        /\ delivered \in Seq(1..MaxSends) /\ \A i \in 1..n : delivered[i] = i
    <2>1. Len(accepted) <= sends /\ sends \in Nat /\ sends <= MaxSends /\ MaxSends \in Nat /\ Len(accepted) \in Nat
      BY StreamFacts, BoundFacts DEF StreamInv, SenderPart
    <2>2. n + j <= Len(accepted) /\ n \in Nat
      BY <1>3, StreamFacts
    <2> HIDE DEF n
    <2>3. n + j <= MaxSends
      BY <2>1, <2>2
    <2> USE DEF n
    <2> QED BY <2>1, <2>2, <2>3, StreamFacts DEF StreamInv, PrefixInOrder
  <1>6. Len(fr) = j /\ SubSeq(fr, 1, j) = fr
    <2>1. fr = [x \in 1..j |-> n + x]
      BY Zenon, <1>3
    <2> HIDE DEF fr, n
    <2>2. n \in Nat
      BY <1>5
    <2>3. fr \in Seq(Nat) /\ Len(fr) = j
      BY <2>1, <2>2
    <2> QED BY <2>3, SubSeqFull
  <1>7. ASSUME NEW m \in 0..j, delivered' = delivered \o SubSeq(fr, 1, m)
        PROVE  delivered' \in Seq(1..MaxSends) /\ Len(delivered') = n + m /\ PrefixInOrder'
    <2> DEFINE d2 == delivered \o SubSeq(fr, 1, m)
    <2>1. fr = [x \in 1..j |-> Len(delivered) + x]
      BY Zenon, <1>3
    <2> HIDE DEF fr, n
    <2>2. n + m <= MaxSends
      BY <1>5
    <2> USE DEF n
    <2>3. d2 \in Seq(1..MaxSends) /\ Len(d2) = n + m /\ \A i \in 1..Len(d2) : d2[i] = i
      BY <1>5, <2>1, <2>2, InOrder
    <2> QED BY <1>7, <2>3 DEF PrefixInOrder
  <1> HIDE DEF d, rest, next
  <1>8. CASE delivered' = delivered \o fr /\ reader' = reader
    <2>1. j \in 0..j
      OBVIOUS
    <2>2. delivered' = delivered \o SubSeq(fr, 1, j)
      BY <1>6, <1>8
    <2>3. delivered' \in Seq(1..MaxSends) /\ Len(delivered') = n + j /\ PrefixInOrder'
      BY <1>7, <2>1, <2>2
    <2>4. Len(delivered') <= Len(accepted)
      BY <1>3, <2>3
    <2>5. /\ Contiguous(OnTheWay', Len(delivered'), accepted)
          /\ \A q : UpTo(OnTheWay, Len(delivered), q) => UpTo(OnTheWay', Len(delivered'), q)
          /\ \A i \in 1..Len(decoder') : decoder'[i].id = Len(delivered') + 1 /\ decoder'[i].at = i
          /\ decoder' # <<>> => Len(decoder') < Cost(decoder'[1].payload)
      BY Zenon, <1>1, <1>3, <1>4, <2>3
    <2>6. reader' = "reading"
      BY <1>1, <1>8
    <2> WITNESS j \in Nat
    <2> QED BY Zenon, <1>1, <1>2, <2>3, <2>4, <2>5, <2>6
  <1>9. CASE \E x \in 1..Len(fr) : delivered' = delivered \o SubSeq(fr, 1, x) /\ reader' = "broken"
    <2>1. PICK x \in 1..Len(fr) : delivered' = delivered \o SubSeq(fr, 1, x) /\ reader' = "broken"
      BY <1>9
    <2>2. x \in 0..j /\ x \in Nat
      BY <1>6
    <2>3. delivered' \in Seq(1..MaxSends) /\ Len(delivered') = n + x /\ PrefixInOrder'
      BY <1>7, <2>1, <2>2
    <2> HIDE DEF n
    <2>4. n + x <= Len(accepted)
      BY <1>3, <1>5, <2>2
    <2>5. Len(delivered') <= Len(accepted)
      BY <2>3, <2>4
    <2>6. reader' \in {"reading", "broken"} /\ reader' # "reading"
      BY <2>1
    <2> USE DEF n
    <2> WITNESS x \in Nat
    <2> QED BY Zenon, <1>1, <1>2, <2>3, <2>5, <2>6
  <1> QED BY <1>1, <1>8, <1>9

\* The receiver's task reads bytes, decodes them and hands the frames over.
LEMMA ReadChunkInv ==
    ASSUME StreamInv, NEW k \in 1..Len(wire), ReadChunk(k)
    PROVE  StreamInv'
  <1> USE DEF sendVars, writeVars
  <1>1. /\ reader = "reading"
        /\ UNCHANGED <<handle, size, sends, budget, queue, accepted, writer, writing, fin, link>>
    BY Zenon DEF ReadChunk
  <1>2. PICK m \in Nat :
             /\ Len(delivered') = Len(delivered) + m /\ Len(delivered') <= Len(accepted)
             /\ delivered' \in Seq(1..MaxSends) /\ PrefixInOrder'
             /\ decoder' \in Seq(WireBytes) /\ wire' \in Seq(WireBytes)
             /\ reader' \in {"reading", "broken"}
             /\ reader' = "reading" =>
                  /\ Contiguous(OnTheWay', Len(delivered'), accepted)
                  /\ \A q : UpTo(OnTheWay, Len(delivered), q) => UpTo(OnTheWay', Len(delivered'), q)
                  /\ \A i \in 1..Len(decoder') : decoder'[i].id = Len(delivered') + 1 /\ decoder'[i].at = i
                  /\ decoder' # <<>> => Len(decoder') < Cost(decoder'[1].payload)
    BY ReadChunkDelivers
  <1>3. StreamTypeOK'
    BY <1>1, <1>2 DEF StreamInv, StreamTypeOK
  <1>4. InputBudgetExact' /\ SenderPart'
    BY <1>1 DEF StreamInv, InputBudgetExact, SenderPart
  <1>5. BytesPart'
    BY <1>1, <1>2 DEF StreamInv, BytesPart
  <1>6. ReaderPart'
    <2>1. writer # "ended" \/ fin => UpTo(OnTheWay, Len(delivered), Len(accepted) - Len(queue))
      BY <1>1 DEF StreamInv, ReaderPart
    <2>2. ASSUME reader' = "reading", writer # "ended" \/ fin PROVE UpTo(OnTheWay', Len(delivered'), Len(accepted) - Len(queue))
      BY Zenon, <1>2, <2>1, <2>2
    <2> QED BY Zenon, <1>1, <1>2, <2>2 DEF ReaderPart
  <1> QED BY <1>2, <1>3, <1>4, <1>5, <1>6 DEF StreamInv

\* Every step of the stream keeps the invariant.
LEMMA StreamStep == StreamInv /\ [StreamNext]_streamVars => StreamInv'
  <1> SUFFICES ASSUME StreamInv, [StreamNext]_streamVars PROVE StreamInv'
    OBVIOUS
  <1>1. CASE (\E n \in Sizes : ReserveBytes(n)) \/ DropHandle \/ LoseConnection \/ ReadEnd \/ ReadInputFails
    BY <1>1, QuietSteps
  <1>2. CASE Push
    BY <1>2, PushInv
  <1>3. CASE TakeFrame
    BY <1>3, TakeFrameInv
  <1>4. CASE FinishStream \/ WriteFails
    BY <1>4, EndWriterInv
  <1>5. CASE \E k \in 1..Len(writing) : WriteBytes(k)
    BY <1>5, WriteBytesInv
  <1>6. CASE \E k \in 1..Len(wire) : ReadChunk(k)
    BY <1>6, ReadChunkInv
  <1>7. CASE UNCHANGED streamVars
    BY <1>7 DEF StreamInv, StreamTypeOK, InputBudgetExact, PrefixInOrder, BytesPart, SenderPart, ReaderPart, OnTheWay, streamVars
  <1> QED BY <1>1, <1>2, <1>3, <1>4, <1>5, <1>6, <1>7 DEF StreamNext

\* The bytes between try_send and on_input are those of the accepted frames that
\* were not delivered yet, in order, with none missing or twice, however they are
\* divided into chunks (run_outbound_input, run_inbound_input_stream).
THEOREM StreamInvariant == StreamSpec => []StreamInv
  BY InitStreamInv, StreamStep, PTL DEF StreamSpec

\* The budget of a critical input stream is exactly what its queue, the frame
\* being written and a pending reservation hold, and the frames delivered are the
\* first of the frames accepted, in order (InputHandle::try_send, run_outbound_input, on_input).
THEOREM InputCorrect == StreamSpec => []InputInv
  <1>1. StreamInv => InputInv
    BY DEF StreamInv, InputInv
  <1> QED BY <1>1, StreamInvariant, PTL

-----------------------------------------------------------------------------
\* Every step of the stream is a step of the abstract channel or leaves it as it is.
LEMMA ChannelStep == StreamInv /\ StreamInv' /\ [StreamNext]_streamVars => [Channel!ChanNext]_Channel!chanVars
  <1> SUFFICES ASSUME StreamInv, StreamInv', [StreamNext]_streamVars PROVE [Channel!ChanNext]_Channel!chanVars
    OBVIOUS
  <1> DEFINE n == Len(delivered)
  <1> USE DEF sendVars, writeVars, readVars
  <1>1. n \in Nat /\ Len(accepted) \in Nat /\ n <= Len(accepted) /\ n + 0 = n /\ 0 \in 0..Len(accepted)
    BY StreamFacts
  <1>2. ASSUME UNCHANGED <<accepted, delivered, reader>> PROVE [Channel!ChanNext]_Channel!chanVars
    BY <1>2 DEF Channel!chanVars
  <1>3. CASE (\E m \in Sizes : ReserveBytes(m)) \/ DropHandle \/ LoseConnection \/ TakeFrame \/ FinishStream \/ WriteFails
    BY <1>2, <1>3 DEF ReserveBytes, DropHandle, LoseConnection, TakeFrame, FinishStream, WriteFails, EndWriter
  <1>4. CASE UNCHANGED streamVars
    BY <1>2, <1>4 DEF streamVars
  <1>5. CASE \E k \in 1..Len(writing) : WriteBytes(k)
    BY <1>2, <1>5 DEF WriteBytes
  <1>6. CASE Push
    <2>1. size \in Sizes /\ UNCHANGED <<delivered, reader>> /\ (accepted' = Append(accepted, size) \/ accepted' = accepted)
      BY <1>6 DEF Push, StreamInv, SenderPart
    <2>2. CASE accepted' = Append(accepted, size)
      BY <2>1, <2>2 DEF Channel!ChanNext, Channel!Accept
    <2> QED BY <1>2, <2>1, <2>2
  <1>7. CASE ReadInputFails
    <2>1. reader = "reading" /\ reader' = "broken" /\ UNCHANGED <<accepted, delivered>>
      BY <1>7 DEF ReadInputFails
    <2>2. Channel!CloseBroken(0)
      BY <1>1, <2>1 DEF Channel!CloseBroken
    <2> QED BY <1>1, <2>2 DEF Channel!ChanNext
  <1>8. CASE ReadEnd
    <2>1. reader = "reading" /\ wire = <<>> /\ fin /\ UNCHANGED <<accepted, delivered>>
          /\ reader' = IF decoder = <<>> THEN "clean" ELSE "broken"
      BY <1>8 DEF ReadEnd
    <2>2. CASE decoder # <<>>
      <3>1. Channel!CloseBroken(0)
        BY <1>1, <2>1, <2>2 DEF Channel!CloseBroken
      <3> QED BY <1>1, <3>1 DEF Channel!ChanNext
    <2>3. CASE decoder = <<>>
      <3>1. writer = "ended" /\ queue = <<>> /\ writing = <<>>
        BY <2>1 DEF StreamInv, SenderPart, BytesPart
      <3>2. OnTheWay = <<>>
        BY <2>1, <2>3, <3>1 DEF OnTheWay
      <3>3. Len(queue) = 0
        BY <3>1
      <3>4. UpTo(OnTheWay, Len(delivered), Len(accepted) - Len(queue))
        BY <2>1 DEF StreamInv, ReaderPart
      <3>5. Len(delivered) = Len(accepted)
        BY <1>1, <3>2, <3>3, <3>4 DEF UpTo
      <3>6. Channel!CloseCleanly
        BY <2>1, <2>3, <3>5 DEF Channel!CloseCleanly
      <3> QED BY <3>6 DEF Channel!ChanNext
    <2> QED BY <2>2, <2>3
  <1>9. CASE \E k \in 1..Len(wire) : ReadChunk(k)
    <2>1. PICK k \in 1..Len(wire) : ReadChunk(k)
      BY <1>9
    <2>2. PICK m \in Nat :
             /\ Len(delivered') = Len(delivered) + m /\ Len(delivered') <= Len(accepted)
             /\ reader' \in {"reading", "broken"}
      BY <2>1, ReadChunkDelivers
    <2>3. reader = "reading" /\ accepted' = accepted
      BY Zenon, <2>1 DEF ReadChunk
    <2>4. m \in 0..Len(accepted) /\ n + m <= Len(accepted) /\ Len(delivered') = n + m
      BY <1>1, <2>2
    <2> HIDE DEF n
    <2>5. CASE reader' = "broken"
      <3>1. Channel!CloseBroken(m)
        BY <2>3, <2>4, <2>5 DEF Channel!CloseBroken, n
      <3> QED BY <2>4, <3>1 DEF Channel!ChanNext
    <2>6. CASE reader' = "reading" /\ m = 0
      BY <1>1, <2>3, <2>4, <2>6 DEF Channel!chanVars, n
    <2>7. CASE reader' = "reading" /\ m # 0
      <3>1. Channel!Deliver(m) /\ m \in 1..Len(accepted)
        BY <1>1, <2>3, <2>4, <2>7 DEF Channel!Deliver, n
      <3> QED BY <3>1 DEF Channel!ChanNext
    <2> QED BY <2>2, <2>5, <2>6, <2>7
  <1> QED BY <1>3, <1>4, <1>5, <1>6, <1>7, <1>8, <1>9 DEF StreamNext

\* Budget, queue, writer, chunks and decoder together implement a channel that
\* delivers the accepted frames in order until it ends (InputChannel).
THEOREM ChannelImplemented == StreamSpec => ImplementsChannel
  <1>1. StreamInit => Channel!ChanInit
    BY DEF StreamInit, Channel!ChanInit
  <1> QED BY <1>1, ChannelStep, StreamInvariant, PTL DEF StreamSpec, ImplementsChannel, Channel!ChanSpec

-----------------------------------------------------------------------------
(* The bytes of a set of payloads, added up one by one. *)

\* The steps of MapThenSumSet(Bytes, S).
First(s) == CHOOSE x \in s : TRUE
NextSum(f, s) == IF s = {} THEN 0 ELSE Bytes(First(s)) + f[s \ {First(s)}]
IsTotal(f, S) == f = [s \in SUBSET S |-> NextSum(f, s)]

\* MapThenSumSet is that recursive function.
LEMMA TotalOf == \A S : MapThenSumSet(Bytes, S) = (CHOOSE f : IsTotal(f, S))[S]
  BY Zenon DEF MapThenSumSet, MapThenFoldSet, IsTotal, NextSum, First

\* The element taken first is one of the set.
LEMMA FirstOf == ASSUME NEW s, s # {} PROVE First(s) \in s
  BY DEF First

\* Sets of payloads are finite.
LEMMA SendsFinite ==
    ASSUME NEW s \in SUBSET Sends
    PROVE  /\ IsFiniteSet(s) /\ Cardinality(s) \in Nat
           /\ \A x \in s : Cardinality(s \ {x}) = Cardinality(s) - 1
           /\ s = {} <=> Cardinality(s) = 0
  <1>1. IsFiniteSet(s)
    BY BulkBounds, FS_Subset
  <1> QED BY <1>1, FS_CardinalityType, FS_RemoveElement, FS_EmptySet

\* Payloads have a number of bytes.
LEMMA BytesType == \A x \in Sends : Bytes(x) \in Nat
  BY BulkBounds

\* What holds of the empty set and, with every set that is smaller by an
\* element, of a set of payloads, holds of all of them.
LEMMA Growing ==
    ASSUME NEW F, F \subseteq SUBSET Sends, {} \in F,
           \A s \in SUBSET Sends : s # {} /\ (\A x \in s : s \ {x} \in F) => s \in F
    PROVE  F = SUBSET Sends
  <1> DEFINE T == {n \in Nat : \A s \in SUBSET Sends : Cardinality(s) = n => s \in F}
  <1>1. 0 \in T
    BY SendsFinite
  <1>2. ASSUME NEW n \in T PROVE n + 1 \in T
    <2>1. n \in Nat
      OBVIOUS
    <2>2. ASSUME NEW s \in SUBSET Sends, Cardinality(s) = n + 1 PROVE s \in F
      <3>1. s # {}
        BY <2>1, <2>2, SendsFinite
      <3>2. ASSUME NEW x \in s PROVE s \ {x} \in F
        <4>1. s \ {x} \in SUBSET Sends /\ Cardinality(s \ {x}) = n
          BY <2>1, <2>2, SendsFinite
        <4> QED BY <4>1
      <3> QED BY <3>1, <3>2
    <2> QED BY <2>1, <2>2
  <1> HIDE DEF T
  <1>3. T = Nat
    BY <1>1, <1>2, NatSets DEF T
  <1>4. \A s \in SUBSET Sends : s \in F
    BY <1>3, SendsFinite DEF T
  <1> QED BY <1>4

\* The recursive function exists for every set of payloads.
LEMMA TotalExists ==
    ASSUME NEW S \in SUBSET Sends
    PROVE  \E f : IsTotal(f, S)
  <1> DEFINE Upto(f, n) == \A s \in SUBSET S : Cardinality(s) <= n => f[s] = NextSum(f, s)
             T == {n \in Nat : \E f \in [SUBSET S -> Nat] : Upto(f, n)}
  <1>1. 0 \in T
    <2> DEFINE f == [s \in SUBSET S |-> 0]
    <2>1. \A s \in SUBSET S : Cardinality(s) <= 0 => s = {}
      BY SendsFinite
    <2>2. Upto(f, 0)
      BY <2>1 DEF NextSum
    <2>3. f \in [SUBSET S -> Nat]
      OBVIOUS
    <2> QED BY <2>2, <2>3
  <1>2. ASSUME NEW n \in T PROVE n + 1 \in T
    <2>1. PICK f \in [SUBSET S -> Nat] : Upto(f, n)
      OBVIOUS
    <2>2. n \in Nat
      OBVIOUS
    <2> DEFINE g == [s \in SUBSET S |-> NextSum(f, s)]
    <2>3. ASSUME NEW s \in SUBSET S, s # {} PROVE First(s) \in Sends /\ First(s) \in s /\ s \ {First(s)} \in SUBSET S
      BY <2>3, FirstOf
    <2>4. g \in [SUBSET S -> Nat]
      <3>1. ASSUME NEW s \in SUBSET S PROVE NextSum(f, s) \in Nat
        <4>1. CASE s = {}
          BY <4>1 DEF NextSum
        <4>2. CASE s # {}
          <5>1. f[s \ {First(s)}] \in Nat /\ Bytes(First(s)) \in Nat
            BY <2>3, <4>2, BytesType
          <5> QED BY <4>2, <5>1 DEF NextSum
        <4> QED BY <4>1, <4>2
      <3> QED BY <3>1
    <2>5. ASSUME NEW s \in SUBSET S, Cardinality(s) <= n + 1 PROVE g[s] = NextSum(g, s)
      <3>1. CASE s = {}
        BY <3>1 DEF NextSum
      <3>2. CASE s # {}
        <4> DEFINE r == s \ {First(s)}
        <4>1. r \in SUBSET S /\ Cardinality(r) <= n
          <5>1. First(s) \in s /\ r \in SUBSET S /\ s \in SUBSET Sends
            BY <2>3, <3>2
          <5>2. Cardinality(r) = Cardinality(s) - 1 /\ Cardinality(s) \in Nat
            BY <5>1, SendsFinite
          <5> HIDE DEF r
          <5> QED BY <2>2, <2>5, <5>1, <5>2
        <4>2. f[r] = NextSum(f, r)
          BY <2>1, <4>1
        <4>3. g[r] = f[r]
          BY <4>1, <4>2
        <4>4. g[s] = Bytes(First(s)) + f[r]
          BY <3>2 DEF NextSum
        <4>5. NextSum(g, s) = Bytes(First(s)) + g[r]
          BY <3>2 DEF NextSum
        <4> QED BY <4>3, <4>4, <4>5
      <3> QED BY <3>1, <3>2
    <2> HIDE DEF g
    <2>6. Upto(g, n + 1)
      BY <2>5
    <2> QED BY <2>2, <2>4, <2>6
  <1> HIDE DEF T
  <1>3. T = Nat
    BY <1>1, <1>2, NatSets DEF T
  <1>4. Cardinality(S) \in T
    BY <1>3, SendsFinite
  <1>5. PICK f \in [SUBSET S -> Nat] : Upto(f, Cardinality(S))
    BY <1>4 DEF T
  <1>6. \A s \in SUBSET S : Cardinality(s) <= Cardinality(S)
    BY SendsFinite, FS_Subset
  <1>7. \A s \in SUBSET S : f[s] = NextSum(f, s)
    BY <1>5, <1>6
  <1>8. f = [s \in SUBSET S |-> NextSum(f, s)]
    BY <1>7
  <1> QED BY <1>8 DEF IsTotal

\* The sums of the subsets of S and of T agree on what both contain.
LEMMA TotalsAgree ==
    ASSUME NEW S \in SUBSET Sends, NEW T \in SUBSET Sends, NEW f, IsTotal(f, S), NEW g, IsTotal(g, T)
    PROVE  \A s \in SUBSET (S \cap T) : f[s] = g[s] /\ f[s] \in Nat
  <1> DEFINE F == {s \in SUBSET Sends : s \subseteq S \cap T => f[s] = g[s] /\ f[s] \in Nat}
  <1>1. \A s \in SUBSET S : f[s] = NextSum(f, s)
    BY DEF IsTotal
  <1>2. \A s \in SUBSET T : g[s] = NextSum(g, s)
    BY DEF IsTotal
  <1>3. {} \in F
    <2>1. f[{}] = 0 /\ g[{}] = 0
      BY <1>1, <1>2 DEF NextSum
    <2> QED BY <2>1
  <1>4. ASSUME NEW s \in SUBSET Sends, s # {}, \A x \in s : s \ {x} \in F PROVE s \in F
    <2>1. ASSUME s \subseteq S \cap T PROVE f[s] = g[s] /\ f[s] \in Nat
      <3> DEFINE r == s \ {First(s)}
      <3>1. First(s) \in s /\ First(s) \in Sends /\ r \subseteq S \cap T /\ r \in F
        BY <1>4, <2>1, FirstOf
      <3>2. f[r] = g[r] /\ f[r] \in Nat
        BY <3>1
      <3>3. f[s] = Bytes(First(s)) + f[r]
        BY <1>1, <1>4, <2>1 DEF NextSum
      <3>4. g[s] = Bytes(First(s)) + g[r]
        BY <1>2, <1>4, <2>1 DEF NextSum
      <3>5. Bytes(First(s)) \in Nat
        BY <3>1, BytesType
      <3> HIDE DEF r
      <3> QED BY <3>2, <3>3, <3>4, <3>5
    <2> QED BY <2>1
  <1>5. F \subseteq SUBSET Sends
    OBVIOUS
  <1> HIDE DEF F
  <1>6. F = SUBSET Sends
    BY <1>3, <1>4, <1>5, Growing
  <1> QED BY <1>6 DEF F

\* The bytes of the payloads of S.
TotalBytes(S) == MapThenSumSet(Bytes, S)

\* The total is the value of that function at the whole set.
LEMMA TotalIs ==
    ASSUME NEW S \in SUBSET Sends
    PROVE  \E f : IsTotal(f, S) /\ TotalBytes(S) = f[S]
  <1> DEFINE f == CHOOSE f : IsTotal(f, S)
  <1>1. IsTotal(f, S)
    BY Zenon, TotalExists
  <1>2. TotalBytes(S) = f[S]
    BY Zenon, TotalOf DEF TotalBytes
  <1> QED BY <1>1, <1>2

\* The total of a set, by the element that is taken first.
LEMMA TotalSteps ==
    /\ TotalBytes({}) = 0
    /\ \A S \in SUBSET Sends : TotalBytes(S) \in Nat
    /\ \A S \in SUBSET Sends : S # {} => TotalBytes(S) = Bytes(First(S)) + TotalBytes(S \ {First(S)})
  <1>1. TotalBytes({}) = 0
    <2>1. PICK f : IsTotal(f, {}) /\ TotalBytes({}) = f[{}]
      BY TotalIs
    <2> QED BY <2>1 DEF IsTotal, NextSum
  <1>2. ASSUME NEW S \in SUBSET Sends PROVE TotalBytes(S) \in Nat
    <2>1. PICK f : IsTotal(f, S) /\ TotalBytes(S) = f[S]
      BY TotalIs
    <2>2. \A s \in SUBSET (S \cap S) : f[s] = f[s] /\ f[s] \in Nat
      BY <2>1, TotalsAgree
    <2>3. S \in SUBSET (S \cap S)
      OBVIOUS
    <2> QED BY Zenon, <2>1, <2>2, <2>3
  <1>3. ASSUME NEW S \in SUBSET Sends, S # {} PROVE TotalBytes(S) = Bytes(First(S)) + TotalBytes(S \ {First(S)})
    <2> DEFINE R == S \ {First(S)}
    <2>1. First(S) \in S /\ R \in SUBSET Sends /\ R \subseteq S
      BY <1>3, FirstOf
    <2>2. PICK f : IsTotal(f, S) /\ TotalBytes(S) = f[S]
      BY TotalIs
    <2>3. PICK g : IsTotal(g, R) /\ TotalBytes(R) = g[R]
      BY <2>1, TotalIs
    <2>4. f[R] = g[R]
      <3>1. R \in SUBSET (S \cap R)
        BY <2>1
      <3> HIDE DEF R
      <3>2. \A s \in SUBSET (S \cap R) : f[s] = g[s] /\ f[s] \in Nat
        BY <2>1, <2>2, <2>3, TotalsAgree
      <3> QED BY <3>1, <3>2
    <2>5. f[S] = Bytes(First(S)) + f[R]
      BY <1>3, <2>2 DEF IsTotal, NextSum
    <2> QED BY <2>2, <2>3, <2>4, <2>5
  <1> QED BY <1>1, <1>2, <1>3

\* The order does not matter.
LEMMA TotalWithout ==
    \A S \in SUBSET Sends : \A x \in S : TotalBytes(S) = Bytes(x) + TotalBytes(S \ {x})
  <1> DEFINE F == {S \in SUBSET Sends : \A x \in S : TotalBytes(S) = Bytes(x) + TotalBytes(S \ {x})}
  <1>1. {} \in F
    OBVIOUS
  <1>2. ASSUME NEW S \in SUBSET Sends, S # {}, \A x \in S : S \ {x} \in F PROVE S \in F
    <2>1. ASSUME NEW x \in S PROVE TotalBytes(S) = Bytes(x) + TotalBytes(S \ {x})
      <3> DEFINE y == First(S)
      <3>1. y \in S /\ TotalBytes(S) = Bytes(y) + TotalBytes(S \ {y})
        BY <1>2, FirstOf, TotalSteps
      <3>2. CASE x = y
        BY <3>1, <3>2
      <3>3. CASE x # y
        <4> HIDE DEF y
        <4>1. S \ {y} \in F /\ x \in S \ {y} /\ S \ {x} \in F /\ y \in S \ {x}
          BY <1>2, <3>1, <3>3
        <4>2. TotalBytes(S \ {y}) = Bytes(x) + TotalBytes((S \ {y}) \ {x})
          BY <4>1
        <4>3. TotalBytes(S \ {x}) = Bytes(y) + TotalBytes((S \ {x}) \ {y})
          BY <4>1
        <4>4. (S \ {y}) \ {x} = (S \ {x}) \ {y}
          OBVIOUS
        <4> DEFINE T == TotalBytes((S \ {x}) \ {y})
        <4>5. Bytes(x) \in Nat /\ Bytes(y) \in Nat /\ T \in Nat
          BY <3>1, BytesType, TotalSteps
        <4>6. TotalBytes(S \ {y}) = Bytes(x) + T /\ TotalBytes(S \ {x}) = Bytes(y) + T
          BY <4>2, <4>3, <4>4
        <4> HIDE DEF T
        <4> QED BY <3>1, <4>5, <4>6
      <3> QED BY <3>2, <3>3
    <2> QED BY <2>1
  <1>3. F \subseteq SUBSET Sends
    OBVIOUS
  <1> HIDE DEF F
  <1>4. F = SUBSET Sends
    BY <1>1, <1>2, <1>3, Growing
  <1> QED BY <1>4 DEF F

-----------------------------------------------------------------------------
\* What a host holds reservations for: payloads it sends, payloads it receives,
\* and a clipboard it encodes.
Out(h) == {x \in Sends : From(x) = h /\ task[x] \in {"queued", "writing", "awaiting"}}
Peaks(h) == {x \in Sends : To(x) = h /\ inbound[x] \in InboundTasks \ {"preface"}}
Encodes(h) == IF h \in encoding THEN EncodeBytes ELSE 0

\* HeldBytes in these parts.
LEMMA HeldIs == \A h : HeldBytes(h) = TotalBytes(Out(h)) + Inbound * Cardinality(Peaks(h)) + Encodes(h)
  BY Zenon DEF HeldBytes, TotalBytes, Out, Peaks, Encodes

\* What is known of a payload wherever caller, task, stream and handler are.
Story(x) ==
    /\ call[x] = "idle" => task[x] = "none"
    /\ task[x] \in {"none", "queued"} => inbound[x] = "none"
    /\ inbound[x] \in {"none", "preface", "reading", "handling"} => handled[x] = "no"
    /\ inbound[x] = "acking" => handled[x] # "no"
    /\ ack[x] = "ok" => handled[x] = "accepted" /\ inbound[x] \in {"closing", "over"}
    /\ ack[x] = "reject" => handled[x] # "accepted" /\ inbound[x] = "over"
    /\ ack[x] = "empty" => handled[x] = "no" /\ inbound[x] = "over"
    /\ call[x] = "ok" => handled[x] = "accepted" /\ inbound[x] \in {"closing", "over"}
    /\ call[x] = "rejected" => handled[x] # "accepted" /\ inbound[x] = "over"
    /\ call[x] = "refused" => inbound[x] = "none" /\ task[x] \in {"none", "over"}

Stories == \A x \in Sends : Story(x)
Reservations == BulkTypeOK /\ BulkBudgetExact

\* HeldBytes in these parts, after a step.
LEMMA HeldNext == \A h : HeldBytes(h)' = TotalBytes(Out(h)') + Inbound * Cardinality(Peaks(h)') + Encodes(h)'
  BY Zenon DEF HeldBytes, TotalBytes, Out, Peaks, Encodes

\* The assumptions on the constants and the types of the parts.
LEMMA BulkFacts ==
    /\ Limit \in Nat /\ Inbound \in Nat /\ EncodeBytes \in Nat /\ 2 * Inbound > Limit
    /\ \A x \in Sends : Bytes(x) \in Nat /\ From(x) \in Hosts /\ To(x) \in Hosts
    /\ \A h : Out(h) \in SUBSET Sends /\ Peaks(h) \in SUBSET Sends /\ Out(h)' \in SUBSET Sends /\ Peaks(h)' \in SUBSET Sends
    /\ \A h : Encodes(h) \in Nat /\ Encodes(h)' \in Nat
  BY BulkBounds DEF Out, Peaks, Encodes

\* A payload more adds its bytes.
LEMMA TotalWith ==
    \A S \in SUBSET Sends : \A x \in Sends \ S : TotalBytes(S \cup {x}) = TotalBytes(S) + Bytes(x)
  <1> TAKE S \in SUBSET Sends
  <1> TAKE x \in Sends \ S
  <1>1. S \cup {x} \in SUBSET Sends /\ x \in S \cup {x} /\ (S \cup {x}) \ {x} = S
    OBVIOUS
  <1>2. TotalBytes(S \cup {x}) = Bytes(x) + TotalBytes(S)
    BY <1>1, TotalWithout
  <1> QED BY <1>2, TotalSteps, BytesType

\* A payload more to receive adds a worst case.
LEMMA PeakWith ==
    \A S \in SUBSET Sends : \A x \in Sends \ S :
        Inbound * Cardinality(S \cup {x}) = Inbound * Cardinality(S) + Inbound
  <1> TAKE S \in SUBSET Sends
  <1> TAKE x \in Sends \ S
  <1>1. IsFiniteSet(S) /\ Cardinality(S) \in Nat
    BY SendsFinite
  <1>2. Cardinality(S \cup {x}) = Cardinality(S) + 1
    BY <1>1, FS_AddElement
  <1> QED BY <1>1, <1>2, BulkFacts

\* What is held is a number of bytes.
LEMMA HeldType == \A h : HeldBytes(h) \in Nat /\ HeldBytes(h)' \in Nat
  <1> TAKE h
  <1>1. TotalBytes(Out(h)) \in Nat /\ TotalBytes(Out(h)') \in Nat
    BY TotalSteps, BulkFacts
  <1>2. Cardinality(Peaks(h)) \in Nat /\ Cardinality(Peaks(h)') \in Nat
    BY SendsFinite, BulkFacts
  <1> QED BY <1>1, <1>2, HeldIs, HeldNext, BulkFacts

\* The counter follows what is held: bytes are taken, given back, or neither.
LEMMA BudgetTaken ==
    ASSUME Reservations, NEW h0 \in Hosts, NEW n \in Nat, Fits(h0, n), Reserve(h0, n),
           \A h \in Hosts : HeldBytes(h)' = HeldBytes(h) + (IF h = h0 THEN n ELSE 0)
    PROVE  BulkBudgetExact' /\ used' \in [Hosts -> 0..Limit]
  <1>1. used \in [Hosts -> 0..Limit] /\ used' = [used EXCEPT ![h0] = @ + n] /\ used[h0] + n <= Limit
    BY DEF Reservations, BulkTypeOK, Reserve, Fits
  <1>2. \A h \in Hosts : used[h] = HeldBytes(h)
    BY DEF Reservations, BulkBudgetExact
  <1>3. used[h0] + n \in 0..Limit
    BY <1>1, BulkFacts
  <1>4. used' \in [Hosts -> 0..Limit]
    BY <1>1, <1>3
  <1>5. ASSUME NEW h \in Hosts PROVE used'[h] = HeldBytes(h)'
    <2>1. CASE h = h0
      BY <1>1, <1>2, <2>1
    <2>2. CASE h # h0
      BY <1>1, <1>2, <2>2, HeldType
    <2> QED BY <2>1, <2>2
  <1> QED BY <1>4, <1>5 DEF BulkBudgetExact

\* A release of what is no longer held keeps the budget exact.
LEMMA BudgetReturned ==
    ASSUME Reservations, NEW h0 \in Hosts, NEW n \in Nat, Release(h0, n),
           \A h \in Hosts : HeldBytes(h) = HeldBytes(h)' + (IF h = h0 THEN n ELSE 0)
    PROVE  BulkBudgetExact' /\ used' \in [Hosts -> 0..Limit]
  <1>1. used \in [Hosts -> 0..Limit] /\ used' = [used EXCEPT ![h0] = @ - n]
    BY DEF Reservations, BulkTypeOK, Release
  <1>2. \A h \in Hosts : used[h] = HeldBytes(h)
    BY DEF Reservations, BulkBudgetExact
  <1>3. used[h0] = HeldBytes(h0)' + n /\ HeldBytes(h0)' \in Nat
    BY <1>2, HeldType
  <1>4. used[h0] - n \in 0..Limit /\ used[h0] - n = HeldBytes(h0)'
    BY <1>1, <1>3, BulkFacts
  <1>5. used' \in [Hosts -> 0..Limit]
    BY <1>1, <1>4
  <1>6. ASSUME NEW h \in Hosts PROVE used'[h] = HeldBytes(h)'
    <2>1. CASE h = h0
      BY <1>1, <1>4, <2>1
    <2>2. CASE h # h0
      BY <1>1, <1>2, <2>2, HeldType
    <2> QED BY <2>1, <2>2
  <1> QED BY <1>5, <1>6 DEF BulkBudgetExact

\* A step that neither reserves nor releases keeps it exact.
LEMMA BudgetKept ==
    ASSUME Reservations, used' = used, \A h \in Hosts : Out(h)' = Out(h) /\ Peaks(h)' = Peaks(h), encoding' = encoding
    PROVE  BulkBudgetExact' /\ used' \in [Hosts -> 0..Limit]
  <1>1. \A h \in Hosts : HeldBytes(h)' = HeldBytes(h)
    BY HeldIs, HeldNext DEF Encodes
  <1> QED BY <1>1 DEF Reservations, BulkTypeOK, BulkBudgetExact

\* A payload more to send, a payload less; the same for what is received.
LEMMA OutGrows ==
    ASSUME NEW x \in Sends, x \notin Out(From(x)), encoding' = encoding, \A h \in Hosts : Peaks(h)' = Peaks(h),
           \A h \in Hosts : Out(h)' = IF h = From(x) THEN Out(h) \cup {x} ELSE Out(h)
    PROVE  \A h \in Hosts : HeldBytes(h)' = HeldBytes(h) + (IF h = From(x) THEN Bytes(x) ELSE 0)
  <1> TAKE h \in Hosts
  <1> DEFINE P == Inbound * Cardinality(Peaks(h))
             T == TotalBytes(Out(h))
  <1>1. Encodes(h)' = Encodes(h) /\ Encodes(h) \in Nat /\ Peaks(h)' = Peaks(h)
    BY BulkFacts DEF Encodes
  <1>2. P \in Nat /\ T \in Nat /\ Bytes(x) \in Nat
    BY BulkFacts, SendsFinite, TotalSteps
  <1>3. TotalBytes(Out(h)') = T + (IF h = From(x) THEN Bytes(x) ELSE 0)
    BY <1>2, BulkFacts, TotalWith
  <1>4. HeldBytes(h) = T + P + Encodes(h)
    BY HeldIs
  <1>5. HeldBytes(h)' = TotalBytes(Out(h)') + P + Encodes(h)
    BY <1>1, HeldNext
  <1> HIDE DEF P, T
  <1> QED BY <1>1, <1>2, <1>3, <1>4, <1>5

\* A payload less to send gives its bytes back.
LEMMA OutShrinks ==
    ASSUME NEW x \in Sends, x \in Out(From(x)), encoding' = encoding, \A h \in Hosts : Peaks(h)' = Peaks(h),
           \A h \in Hosts : Out(h)' = IF h = From(x) THEN Out(h) \ {x} ELSE Out(h)
    PROVE  \A h \in Hosts : HeldBytes(h) = HeldBytes(h)' + (IF h = From(x) THEN Bytes(x) ELSE 0)
  <1> TAKE h \in Hosts
  <1> DEFINE P == Inbound * Cardinality(Peaks(h))
             T == TotalBytes(Out(h)')
  <1>1. Encodes(h)' = Encodes(h) /\ Encodes(h) \in Nat /\ Peaks(h)' = Peaks(h)
    BY BulkFacts DEF Encodes
  <1>2. P \in Nat /\ T \in Nat /\ Bytes(x) \in Nat
    BY BulkFacts, SendsFinite, TotalSteps
  <1>3. TotalBytes(Out(h)) = T + (IF h = From(x) THEN Bytes(x) ELSE 0)
    <2>1. CASE h = From(x)
      <3>1. TotalBytes(Out(h)) = Bytes(x) + TotalBytes(Out(h) \ {x})
        BY <2>1, BulkFacts, TotalWithout
      <3>2. T = TotalBytes(Out(h) \ {x})
        BY <2>1
      <3> HIDE DEF T
      <3> QED BY <1>2, <2>1, <3>1, <3>2
    <2>2. CASE h # From(x)
      BY <1>2, <2>2
    <2> QED BY <2>1, <2>2
  <1>4. HeldBytes(h) = TotalBytes(Out(h)) + P + Encodes(h)
    BY HeldIs
  <1>5. HeldBytes(h)' = T + P + Encodes(h)
    BY <1>1, HeldNext
  <1> HIDE DEF P, T
  <1> QED BY <1>1, <1>2, <1>3, <1>4, <1>5

\* A payload to receive takes a worst case.
LEMMA PeakGrows ==
    ASSUME NEW x \in Sends, x \notin Peaks(To(x)), encoding' = encoding, \A h \in Hosts : Out(h)' = Out(h),
           \A h \in Hosts : Peaks(h)' = IF h = To(x) THEN Peaks(h) \cup {x} ELSE Peaks(h)
    PROVE  \A h \in Hosts : HeldBytes(h)' = HeldBytes(h) + (IF h = To(x) THEN Inbound ELSE 0)
  <1> TAKE h \in Hosts
  <1> DEFINE P == Inbound * Cardinality(Peaks(h))
             T == TotalBytes(Out(h))
  <1>1. Encodes(h)' = Encodes(h) /\ Encodes(h) \in Nat /\ Out(h)' = Out(h)
    BY BulkFacts DEF Encodes
  <1>2. P \in Nat /\ T \in Nat /\ Inbound \in Nat
    BY BulkFacts, SendsFinite, TotalSteps
  <1>3. Inbound * Cardinality(Peaks(h)') = P + (IF h = To(x) THEN Inbound ELSE 0)
    <2>1. CASE h = To(x)
      BY <2>1, BulkFacts, PeakWith
    <2>2. CASE h # To(x)
      <3>1. Peaks(h)' = Peaks(h)
        BY <2>2
      <3> QED BY <1>2, <2>2, <3>1
    <2> QED BY <2>1, <2>2
  <1>4. HeldBytes(h) = T + P + Encodes(h)
    BY HeldIs
  <1>5. HeldBytes(h)' = T + Inbound * Cardinality(Peaks(h)') + Encodes(h)
    BY <1>1, HeldNext
  <1> HIDE DEF P, T
  <1> QED BY <1>1, <1>2, <1>3, <1>4, <1>5

\* A payload received gives its worst case back.
LEMMA PeakShrinks ==
    ASSUME NEW x \in Sends, x \in Peaks(To(x)), encoding' = encoding, \A h \in Hosts : Out(h)' = Out(h),
           \A h \in Hosts : Peaks(h)' = IF h = To(x) THEN Peaks(h) \ {x} ELSE Peaks(h)
    PROVE  \A h \in Hosts : HeldBytes(h) = HeldBytes(h)' + (IF h = To(x) THEN Inbound ELSE 0)
  <1> TAKE h \in Hosts
  <1> DEFINE P == Inbound * Cardinality(Peaks(h)')
             T == TotalBytes(Out(h))
  <1>1. Encodes(h)' = Encodes(h) /\ Encodes(h) \in Nat /\ Out(h)' = Out(h)
    BY BulkFacts DEF Encodes
  <1>2. P \in Nat /\ T \in Nat /\ Inbound \in Nat
    BY BulkFacts, SendsFinite, TotalSteps
  <1>3. Inbound * Cardinality(Peaks(h)) = P + (IF h = To(x) THEN Inbound ELSE 0)
    <2>1. CASE h = To(x)
      <3>1. Peaks(h)' \in SUBSET Sends /\ x \in Sends \ Peaks(h)' /\ Peaks(h) = Peaks(h)' \cup {x}
        BY <2>1, BulkFacts
      <3>2. Inbound * Cardinality(Peaks(h)' \cup {x}) = P + Inbound
        BY <3>1, PeakWith
      <3> QED BY <2>1, <3>1, <3>2
    <2>2. CASE h # To(x)
      <3>1. Peaks(h)' = Peaks(h)
        BY <2>2
      <3> QED BY <1>2, <2>2, <3>1
    <2> QED BY <2>1, <2>2
  <1>4. HeldBytes(h) = T + Inbound * Cardinality(Peaks(h)) + Encodes(h)
    BY HeldIs
  <1>5. HeldBytes(h)' = T + P + Encodes(h)
    BY <1>1, HeldNext
  <1> HIDE DEF P, T
  <1> QED BY <1>1, <1>2, <1>3, <1>4, <1>5

\* A clipboard being encoded, and the end of it.
LEMMA EncodingChanges ==
    ASSUME NEW h0 \in Hosts, \A h \in Hosts : Out(h)' = Out(h) /\ Peaks(h)' = Peaks(h)
    PROVE  /\ h0 \notin encoding /\ encoding' = encoding \cup {h0}
                => \A h \in Hosts : HeldBytes(h)' = HeldBytes(h) + (IF h = h0 THEN EncodeBytes ELSE 0)
           /\ h0 \in encoding /\ encoding' = encoding \ {h0}
                => \A h \in Hosts : HeldBytes(h) = HeldBytes(h)' + (IF h = h0 THEN EncodeBytes ELSE 0)
  <1> DEFINE P(h) == Inbound * Cardinality(Peaks(h))
             T(h) == TotalBytes(Out(h))
  <1>1. \A h : P(h) \in Nat /\ T(h) \in Nat
    BY BulkFacts, SendsFinite, TotalSteps
  <1>2. \A h \in Hosts : HeldBytes(h) = T(h) + P(h) + Encodes(h) /\ HeldBytes(h)' = T(h) + P(h) + Encodes(h)'
    BY HeldIs, HeldNext
  <1> HIDE DEF P, T
  <1>3. EncodeBytes \in Nat
    BY BulkFacts
  <1> QED BY <1>1, <1>2, <1>3 DEF Encodes

-----------------------------------------------------------------------------
\* The invariant of bulk payloads.
BulkStrong == Reservations /\ Stories

\* Types of everything but the counter.
Places ==
    /\ encoding \subseteq Hosts
    /\ call \in [Sends -> {"idle", "waiting", "refused", "ok", "rejected", "failed", "timeout"}]
    /\ task \in [Sends -> {"none", "queued", "writing", "awaiting", "over"}]
    /\ inbound \in [Sends -> InboundTasks \cup {"none", "over"}]
    /\ handled \in [Sends -> {"no", "accepted", "refused"}]
    /\ ack \in [Sends -> {"nothing", "ok", "reject", "empty", "reset"}]
    /\ conns \subseteq Hosts \X Hosts

\* The invariant in the parts the steps are proved for.
LEMMA StrongIs ==
    /\ BulkStrong => Places /\ (\A x \in Sends : Story(x)) /\ used \in [Hosts -> 0..Limit]
    /\ Places' /\ (\A x \in Sends : Story(x)') /\ BulkBudgetExact' /\ used' \in [Hosts -> 0..Limit] => BulkStrong'
  BY DEF BulkStrong, Reservations, BulkTypeOK, Places, Stories

\* Nothing is sent or held at first.
LEMMA InitBulkStrong == BulkInit => BulkStrong
  <1> SUFFICES ASSUME BulkInit PROVE BulkStrong
    OBVIOUS
  <1>1. BulkTypeOK
    BY BulkFacts DEF BulkInit, BulkTypeOK, InboundTasks
  <1>2. \A h : Out(h) = {} /\ Peaks(h) = {} /\ Encodes(h) = 0
    BY DEF BulkInit, Out, Peaks, Encodes, InboundTasks
  <1>3. BulkBudgetExact
    <2>1. Cardinality({}) = 0 /\ TotalBytes({}) = 0
      BY FS_EmptySet, TotalSteps
    <2>2. \A h : HeldBytes(h) = TotalBytes({}) + Inbound * Cardinality({}) + 0
      BY Zenon, <1>2, HeldIs
    <2>3. Inbound * 0 = 0
      BY BulkFacts
    <2>4. \A h : HeldBytes(h) = 0
      BY <2>1, <2>2, <2>3
    <2> QED BY <2>4 DEF BulkInit, BulkBudgetExact
  <1>4. Stories
    BY DEF BulkInit, Stories, Story
  <1> QED BY <1>1, <1>3, <1>4 DEF BulkStrong, Reservations

\* The sets of payloads that hold memory follow the states of their tasks.
LEMMA OutChanges ==
    ASSUME Places, NEW x \in Sends, NEW t, task' = [task EXCEPT ![x] = t], UNCHANGED inbound
    PROVE  /\ \A h \in Hosts : Peaks(h)' = Peaks(h)
           /\ x \in Out(From(x)) <=> task[x] \in {"queued", "writing", "awaiting"}
           /\ t \in {"queued", "writing", "awaiting"} /\ task[x] \notin {"queued", "writing", "awaiting"}
                => \A h \in Hosts : Out(h)' = IF h = From(x) THEN Out(h) \cup {x} ELSE Out(h)
           /\ t \notin {"queued", "writing", "awaiting"} /\ task[x] \in {"queued", "writing", "awaiting"}
                => \A h \in Hosts : Out(h)' = IF h = From(x) THEN Out(h) \ {x} ELSE Out(h)
           /\ (t \in {"queued", "writing", "awaiting"} <=> task[x] \in {"queued", "writing", "awaiting"})
                => \A h \in Hosts : Out(h)' = Out(h)
  <1> DEFINE L == {"queued", "writing", "awaiting"}
  <1>1. \A y \in Sends : task'[y] = IF y = x THEN t ELSE task[y]
    BY DEF Places
  <1>2. \A h : Out(h) = {y \in Sends : From(y) = h /\ task[y] \in L}
    BY DEF Out
  <1>3. \A h : Out(h)' = {y \in Sends : From(y) = h /\ task'[y] \in L}
    BY DEF Out
  <1>4. \A h \in Hosts : Peaks(h)' = Peaks(h)
    BY DEF Peaks
  <1> HIDE DEF L
  <1>5. t \in L /\ task[x] \notin L => \A h \in Hosts : Out(h)' = IF h = From(x) THEN Out(h) \cup {x} ELSE Out(h)
    BY <1>1, <1>2, <1>3
  <1>6. t \notin L /\ task[x] \in L => \A h \in Hosts : Out(h)' = IF h = From(x) THEN Out(h) \ {x} ELSE Out(h)
    BY <1>1, <1>2, <1>3
  <1>7. (t \in L <=> task[x] \in L) => \A h \in Hosts : Out(h)' = Out(h)
    BY <1>1, <1>2, <1>3
  <1>8. x \in Out(From(x)) <=> task[x] \in L
    BY <1>2
  <1> QED BY <1>4, <1>5, <1>6, <1>7, <1>8 DEF L

\* A handler that holds its worst case.
Reserved == InboundTasks \ {"preface"}

\* The place of a handler decides whether its payload counts as received.
LEMMA PeakChanges ==
    ASSUME Places, NEW x \in Sends, NEW t, inbound' = [inbound EXCEPT ![x] = t], UNCHANGED task
    PROVE  /\ \A h \in Hosts : Out(h)' = Out(h)
           /\ x \in Peaks(To(x)) <=> inbound[x] \in Reserved
           /\ t \in Reserved /\ inbound[x] \notin Reserved
                => \A h \in Hosts : Peaks(h)' = IF h = To(x) THEN Peaks(h) \cup {x} ELSE Peaks(h)
           /\ t \notin Reserved /\ inbound[x] \in Reserved
                => \A h \in Hosts : Peaks(h)' = IF h = To(x) THEN Peaks(h) \ {x} ELSE Peaks(h)
           /\ (t \in Reserved <=> inbound[x] \in Reserved) => \A h \in Hosts : Peaks(h)' = Peaks(h)
  <1>1. \A y \in Sends : inbound'[y] = IF y = x THEN t ELSE inbound[y]
    BY DEF Places
  <1>2. \A h : Peaks(h) = {y \in Sends : To(y) = h /\ inbound[y] \in Reserved}
    BY DEF Peaks, Reserved
  <1>3. \A h : Peaks(h)' = {y \in Sends : To(y) = h /\ inbound'[y] \in Reserved}
    BY DEF Peaks, Reserved
  <1>4. \A h \in Hosts : Out(h)' = Out(h)
    BY DEF Out
  <1>5. t \in Reserved /\ inbound[x] \notin Reserved => \A h \in Hosts : Peaks(h)' = IF h = To(x) THEN Peaks(h) \cup {x} ELSE Peaks(h)
    BY <1>1, <1>2, <1>3
  <1>6. t \notin Reserved /\ inbound[x] \in Reserved => \A h \in Hosts : Peaks(h)' = IF h = To(x) THEN Peaks(h) \ {x} ELSE Peaks(h)
    BY <1>1, <1>2, <1>3
  <1>7. (t \in Reserved <=> inbound[x] \in Reserved) => \A h \in Hosts : Peaks(h)' = Peaks(h)
    BY <1>1, <1>2, <1>3
  <1>8. x \in Peaks(To(x)) <=> inbound[x] \in Reserved
    BY <1>2
  <1> QED BY <1>4, <1>5, <1>6, <1>7, <1>8

\* Where neither task nor handler moves, the same payloads are held.
LEMMA UnchangedSets ==
    ASSUME UNCHANGED <<task, inbound>>
    PROVE  \A h \in Hosts : Out(h)' = Out(h) /\ Peaks(h)' = Peaks(h)
  BY DEF Out, Peaks

\* A call: the payload is reserved and queued, or refused.
LEMMA CallKeeps ==
    ASSUME BulkStrong, NEW x \in Sends, Call(x)
    PROVE  BulkStrong'
  <1>1. Places /\ (\A y \in Sends : Story(y)) /\ used \in [Hosts -> 0..Limit] /\ Reservations
    BY StrongIs DEF BulkStrong
  <1>2. call[x] = "idle" /\ task[x] = "none" /\ inbound[x] = "none" /\ UNCHANGED <<encoding, inbound, handled, ack, conns>>
    BY <1>1 DEF Call, Story
  <1>3. CASE Fits(From(x), Bytes(x))
    <2>1. /\ Reserve(From(x), Bytes(x))
          /\ call' = [call EXCEPT ![x] = "waiting"] /\ task' = [task EXCEPT ![x] = "queued"]
      BY <1>3 DEF Call
    <2>2. \A h \in Hosts : HeldBytes(h)' = HeldBytes(h) + (IF h = From(x) THEN Bytes(x) ELSE 0)
      <3>1. x \notin Out(From(x)) /\ \A h \in Hosts : Peaks(h)' = Peaks(h)
        BY <1>1, <1>2, <2>1, OutChanges
      <3>2. \A h \in Hosts : Out(h)' = IF h = From(x) THEN Out(h) \cup {x} ELSE Out(h)
        BY <1>1, <1>2, <2>1, OutChanges
      <3> QED BY <1>2, <3>1, <3>2, OutGrows
    <2>3. BulkBudgetExact' /\ used' \in [Hosts -> 0..Limit]
      BY <1>1, <1>3, <2>1, <2>2, BulkFacts, BudgetTaken
    <2>4. Places'
      BY <1>1, <1>2, <2>1 DEF Places
    <2>5. \A y \in Sends : Story(y)'
      BY <1>1, <1>2, <2>1 DEF Places, Story
    <2> QED BY <2>3, <2>4, <2>5, StrongIs
  <1>4. CASE ~Fits(From(x), Bytes(x))
    <2>1. call' = [call EXCEPT ![x] = "refused"] /\ UNCHANGED <<used, task>>
      BY <1>4 DEF Call
    <2>2. BulkBudgetExact' /\ used' \in [Hosts -> 0..Limit]
      BY <1>1, <1>2, <2>1, UnchangedSets, BudgetKept
    <2>3. Places'
      BY <1>1, <1>2, <2>1 DEF Places
    <2>4. \A y \in Sends : Story(y)'
      BY <1>1, <1>2, <2>1 DEF Places, Story
    <2> QED BY <2>2, <2>3, <2>4, StrongIs
  <1> QED BY <1>3, <1>4

\* The caller gives up and leaves the task with its bytes.
LEMMA GiveUpKeeps ==
    ASSUME BulkStrong, NEW x \in Sends, GiveUp(x)
    PROVE  BulkStrong'
  <1>1. Places /\ (\A y \in Sends : Story(y)) /\ used \in [Hosts -> 0..Limit] /\ Reservations
    BY StrongIs DEF BulkStrong
  <1>2. /\ call[x] = "waiting" /\ call' = [call EXCEPT ![x] = "timeout"]
        /\ UNCHANGED <<used, encoding, task, inbound, handled, ack, conns>>
    BY DEF GiveUp, UsedAfterGiveUp
  <1>3. BulkBudgetExact' /\ used' \in [Hosts -> 0..Limit]
    BY <1>1, <1>2, UnchangedSets, BudgetKept
  <1>4. Places' /\ \A y \in Sends : Story(y)'
    BY <1>1, <1>2 DEF Places, Story
  <1> QED BY <1>3, <1>4, StrongIs

\* A task ends with a result: its bytes come back.
LEMMA ResultKeeps ==
    ASSUME BulkStrong, NEW x \in Sends, NEW r \in {"refused", "ok", "rejected", "failed"}, Result(x, r),
           task[x] \in {"queued", "writing", "awaiting"}, UNCHANGED <<encoding, inbound>>
    PROVE  BulkBudgetExact' /\ used' \in [Hosts -> 0..Limit]
  <1>1. Places /\ Reservations
    BY StrongIs DEF BulkStrong
  <1>2. task' = [task EXCEPT ![x] = "over"] /\ Release(From(x), Bytes(x)) /\ inbound' = inbound /\ encoding' = encoding
    BY DEF Result, ReservedFor
  <1>3. x \in Out(From(x)) /\ (\A h \in Hosts : Peaks(h)' = Peaks(h))
    BY <1>2 DEF Out, Peaks
  <1>4. \A h \in Hosts : Out(h)' = IF h = From(x) THEN Out(h) \ {x} ELSE Out(h)
    <2>1. "over" \notin {"queued", "writing", "awaiting"} /\ task[x] \in {"queued", "writing", "awaiting"}
      OBVIOUS
    <2>2. \A y \in Sends : task'[y] = IF y = x THEN "over" ELSE task[y]
      BY <1>1, <1>2 DEF Places
    <2> QED BY <2>1, <2>2 DEF Out
  <1>5. \A h \in Hosts : HeldBytes(h) = HeldBytes(h)' + (IF h = From(x) THEN Bytes(x) ELSE 0)
    BY <1>2, <1>3, <1>4, OutShrinks
  <1> QED BY <1>1, <1>2, <1>5, BulkFacts, BudgetReturned

\* What the task of a payload does.
LEMMA SendStepKeeps ==
    ASSUME BulkStrong, NEW x \in Sends, SendStep(x)
    PROVE  BulkStrong'
  <1>1. Places /\ (\A y \in Sends : Story(y)) /\ used \in [Hosts -> 0..Limit] /\ Reservations
    BY StrongIs DEF BulkStrong
  <1>2. CASE StartTask(x)
    <2>1. task[x] = "queued" /\ UNCHANGED <<encoding, inbound, handled, ack, conns>>
      BY <1>2 DEF StartTask
    <2>2. CASE task' = [task EXCEPT ![x] = "writing"] /\ UNCHANGED <<call, used>>
      <3>1. \A h \in Hosts : Out(h)' = Out(h) /\ Peaks(h)' = Peaks(h)
        BY <1>1, <2>1, <2>2, OutChanges
      <3>2. BulkBudgetExact' /\ used' \in [Hosts -> 0..Limit]
        BY <1>1, <2>1, <2>2, <3>1, BudgetKept
      <3>3. Places' /\ \A y \in Sends : Story(y)'
        BY <1>1, <2>1, <2>2 DEF Places, Story
      <3> QED BY <3>2, <3>3, StrongIs
    <2>3. CASE Result(x, "refused")
      <3>1. BulkBudgetExact' /\ used' \in [Hosts -> 0..Limit]
        BY <2>1, <2>3, ResultKeeps
      <3>2. Places' /\ \A y \in Sends : Story(y)'
        BY <1>1, <2>1, <2>3 DEF Result, Places, Story
      <3> QED BY <3>1, <3>2, StrongIs
    <2> QED BY <1>2, <2>2, <2>3 DEF StartTask
  <1>3. CASE OpenStream(x)
    <2>1. task[x] = "writing" /\ inbound[x] = "none" /\ UNCHANGED <<used, encoding, call, task, handled, conns>>
      BY <1>3 DEF OpenStream
    <2>2. PICK t \in {"preface", "over"} :
             /\ inbound' = [inbound EXCEPT ![x] = t]
             /\ ack' = (IF t = "preface" THEN ack ELSE [ack EXCEPT ![x] = "empty"])
      BY <1>3 DEF OpenStream
    <2>3. \A h \in Hosts : Out(h)' = Out(h) /\ Peaks(h)' = Peaks(h)
      BY <1>1, <2>1, <2>2, PeakChanges DEF Reserved, InboundTasks
    <2>4. BulkBudgetExact' /\ used' \in [Hosts -> 0..Limit]
      BY <1>1, <2>1, <2>3, BudgetKept
    <2>5. Places'
      BY <1>1, <2>1, <2>2 DEF Places, InboundTasks
    <2>6. \A y \in Sends : Story(y)'
      BY <1>1, <2>1, <2>2 DEF Places, Story
    <2> QED BY <2>4, <2>5, <2>6, StrongIs
  <1>4. CASE FinishWrite(x)
    <2>1. /\ task[x] = "writing" /\ task' = [task EXCEPT ![x] = "awaiting"]
          /\ UNCHANGED <<used, encoding, call, inbound, handled, ack, conns>>
      BY <1>4 DEF FinishWrite
    <2>2. \A h \in Hosts : Out(h)' = Out(h) /\ Peaks(h)' = Peaks(h)
      BY <1>1, <2>1, OutChanges
    <2>3. BulkBudgetExact' /\ used' \in [Hosts -> 0..Limit]
      BY <1>1, <2>1, <2>2, BudgetKept
    <2>4. Places' /\ \A y \in Sends : Story(y)'
      BY <1>1, <2>1 DEF Places, Story
    <2> QED BY <2>3, <2>4, StrongIs
  <1>5. CASE ReadAck(x)
    <2>1. /\ task[x] = "awaiting" /\ ack[x] \in {"ok", "reject", "empty"} /\ Result(x, Means(ack[x]))
          /\ UNCHANGED <<encoding, inbound, handled, ack, conns>>
      BY <1>5 DEF ReadAck
    <2>2. Means(ack[x]) \in {"ok", "rejected"} /\ (Means(ack[x]) = "ok" <=> ack[x] = "ok")
      BY DEF Means
    <2>3. BulkBudgetExact' /\ used' \in [Hosts -> 0..Limit]
      BY <2>1, <2>2, ResultKeeps
    <2>4. Places'
      BY <1>1, <2>1, <2>2 DEF Result, Places
    <2>5. \A y \in Sends : Story(y)'
      <3> TAKE y \in Sends
      <3>1. CASE y = x
        BY <1>1, <2>1, <2>2, <3>1 DEF Result, Places, Story
      <3>2. CASE y # x
        BY <1>1, <2>1, <3>2 DEF Result, Places, Story
      <3> QED BY <3>1, <3>2
    <2> QED BY <2>3, <2>4, <2>5, StrongIs
  <1>6. CASE TaskFails(x)
    <2>1. /\ task[x] \in {"writing", "awaiting"} /\ Result(x, "failed") /\ ack' = [ack EXCEPT ![x] = "reset"]
          /\ UNCHANGED <<encoding, inbound, handled, conns>>
      BY <1>6 DEF TaskFails
    <2>2. BulkBudgetExact' /\ used' \in [Hosts -> 0..Limit]
      BY <2>1, ResultKeeps
    <2>3. Places'
      BY <1>1, <2>1 DEF Result, Places
    <2>4. \A y \in Sends : Story(y)'
      BY <1>1, <2>1 DEF Result, Places, Story
    <2> QED BY <2>2, <2>3, <2>4, StrongIs
  <1> QED BY <1>2, <1>3, <1>4, <1>5, <1>6 DEF SendStep

\* The handler of a payload ends and gives the worst case back.
LEMMA EndInboundKeeps ==
    ASSUME BulkStrong, NEW x \in Sends, EndInbound(x), inbound[x] \in Reserved, UNCHANGED <<encoding, task>>
    PROVE  BulkBudgetExact' /\ used' \in [Hosts -> 0..Limit]
  <1>1. Places /\ Reservations
    BY StrongIs DEF BulkStrong
  <1>2. inbound' = [inbound EXCEPT ![x] = "over"] /\ Release(To(x), Inbound) /\ encoding' = encoding /\ task' = task
    BY DEF EndInbound, Peak
  <1>3. "over" \notin Reserved
    BY DEF Reserved, InboundTasks
  <1>4. x \in Peaks(To(x)) /\ (\A h \in Hosts : Out(h)' = Out(h))
    BY <1>1, <1>2, PeakChanges
  <1>5. \A h \in Hosts : Peaks(h)' = IF h = To(x) THEN Peaks(h) \ {x} ELSE Peaks(h)
    BY <1>1, <1>2, <1>3, PeakChanges
  <1>6. \A h \in Hosts : HeldBytes(h) = HeldBytes(h)' + (IF h = To(x) THEN Inbound ELSE 0)
    BY <1>2, <1>4, <1>5, PeakShrinks
  <1> QED BY <1>1, <1>2, <1>6, BulkFacts, BudgetReturned

\* What the stream's handler at the other machine does.
LEMMA ReceiveStepKeeps ==
    ASSUME BulkStrong, NEW x \in Sends, ReceiveStep(x)
    PROVE  BulkStrong'
  <1>1. Places /\ (\A y \in Sends : Story(y)) /\ used \in [Hosts -> 0..Limit] /\ Reservations
    BY StrongIs DEF BulkStrong
  <1>2. CASE ReservePeak(x)
    <2>1. inbound[x] = "preface" /\ UNCHANGED <<encoding, call, task, handled, conns>>
      BY <1>2 DEF ReservePeak
    <2>2. CASE Fits(To(x), Inbound)
      <3>1. Reserve(To(x), Inbound) /\ inbound' = [inbound EXCEPT ![x] = "reading"] /\ ack' = ack
        BY <1>2, <2>2 DEF ReservePeak, Peak
      <3>2. "reading" \in Reserved /\ "preface" \notin Reserved
        BY DEF Reserved, InboundTasks
      <3>3. x \notin Peaks(To(x)) /\ \A h \in Hosts : Out(h)' = Out(h)
        BY <1>1, <2>1, <3>1, <3>2, PeakChanges
      <3>4. \A h \in Hosts : Peaks(h)' = IF h = To(x) THEN Peaks(h) \cup {x} ELSE Peaks(h)
        BY <1>1, <2>1, <3>1, <3>2, PeakChanges
      <3>5. \A h \in Hosts : HeldBytes(h)' = HeldBytes(h) + (IF h = To(x) THEN Inbound ELSE 0)
        BY <2>1, <3>3, <3>4, PeakGrows
      <3>6. BulkBudgetExact' /\ used' \in [Hosts -> 0..Limit]
        BY <1>1, <2>2, <3>1, <3>5, BulkFacts, BudgetTaken
      <3>7. Places' /\ \A y \in Sends : Story(y)'
        BY <1>1, <2>1, <3>1 DEF Places, Story, InboundTasks
      <3> QED BY <3>6, <3>7, StrongIs
    <2>3. CASE ~Fits(To(x), Inbound)
      <3>1. /\ used' = used /\ inbound' = [inbound EXCEPT ![x] = "over"]
            /\ ack' = [ack EXCEPT ![x] = IF ack[x] = "reset" THEN "reset" ELSE "empty"]
        BY <1>1, <1>2, <2>3 DEF ReservePeak, Peak, Places
      <3>2. "over" \notin Reserved /\ "preface" \notin Reserved
        BY DEF Reserved, InboundTasks
      <3>3. \A h \in Hosts : Out(h)' = Out(h) /\ Peaks(h)' = Peaks(h)
        BY <1>1, <2>1, <3>1, <3>2, PeakChanges
      <3>4. BulkBudgetExact' /\ used' \in [Hosts -> 0..Limit]
        BY <1>1, <2>1, <3>1, <3>3, BudgetKept
      <3>5. Places'
        BY <1>1, <2>1, <3>1 DEF Places
      <3>6. \A y \in Sends : Story(y)'
        BY <1>1, <2>1, <3>1 DEF Places, Story
      <3> QED BY <3>4, <3>5, <3>6, StrongIs
    <2> QED BY <2>2, <2>3
  <1>3. CASE ReadPayload(x)
    <2>1. /\ inbound[x] = "reading" /\ inbound' = [inbound EXCEPT ![x] = "handling"]
          /\ task[x] \in {"awaiting", "over"} /\ ack[x] = "nothing"
          /\ UNCHANGED <<used, encoding, call, task, handled, ack, conns>>
      BY <1>3 DEF ReadPayload
    <2>2. \A h \in Hosts : Out(h)' = Out(h) /\ Peaks(h)' = Peaks(h)
      <3>1. "reading" \in Reserved /\ "handling" \in Reserved
        BY DEF Reserved, InboundTasks
      <3> QED BY <1>1, <2>1, <3>1, PeakChanges
    <2>3. BulkBudgetExact' /\ used' \in [Hosts -> 0..Limit]
      BY <1>1, <2>1, <2>2, BudgetKept
    <2>4. Places' /\ \A y \in Sends : Story(y)'
      BY <1>1, <2>1 DEF Places, Story, InboundTasks
    <2> QED BY <2>3, <2>4, StrongIs
  <1>4. CASE ReadBulkFails(x)
    <2>1. inbound[x] = "reading" /\ ack[x] = "reset" /\ EndInbound(x) /\ UNCHANGED <<encoding, call, task, handled, ack, conns>>
      BY <1>4 DEF ReadBulkFails
    <2>2. BulkBudgetExact' /\ used' \in [Hosts -> 0..Limit]
      BY <2>1, EndInboundKeeps DEF Reserved, InboundTasks
    <2>3. Places' /\ \A y \in Sends : Story(y)'
      BY <1>1, <2>1 DEF EndInbound, Places, Story
    <2> QED BY <2>2, <2>3, StrongIs
  <1>5. CASE Handle(x)
    <2>1. inbound[x] = "handling" /\ inbound' = [inbound EXCEPT ![x] = "acking"] /\ UNCHANGED <<used, encoding, call, task, ack, conns>>
      BY <1>5 DEF Handle
    <2>2. PICK r \in {"accepted", "refused"} : handled' = [handled EXCEPT ![x] = r]
      BY <1>5 DEF Handle
    <2>3. \A h \in Hosts : Out(h)' = Out(h) /\ Peaks(h)' = Peaks(h)
      BY <1>1, <2>1, PeakChanges DEF Reserved, InboundTasks
    <2>4. BulkBudgetExact' /\ used' \in [Hosts -> 0..Limit]
      BY <1>1, <2>1, <2>3, BudgetKept
    <2>5. Places' /\ \A y \in Sends : Story(y)'
      BY <1>1, <2>1, <2>2 DEF Places, Story, InboundTasks
    <2> QED BY <2>4, <2>5, StrongIs
  <1>6. CASE WriteAck(x)
    <2>1. inbound[x] = "acking" /\ UNCHANGED <<encoding, call, task, handled, conns>>
      BY <1>6 DEF WriteAck
    <2>2. CASE ack[x] = "reset"
      <3>1. EndInbound(x) /\ ack' = ack
        BY <1>6, <2>2 DEF WriteAck
      <3>2. BulkBudgetExact' /\ used' \in [Hosts -> 0..Limit]
        BY <2>1, <3>1, EndInboundKeeps DEF Reserved, InboundTasks
      <3>3. Places' /\ \A y \in Sends : Story(y)'
        BY <1>1, <2>1, <2>2, <3>1 DEF EndInbound, Places, Story
      <3> QED BY <3>2, <3>3, StrongIs
    <2>3. CASE ack[x] # "reset"
      <3>1. ack' = [ack EXCEPT ![x] = IF handled[x] = "accepted" THEN "ok" ELSE "reject"]
        BY <1>6, <2>3 DEF WriteAck
      <3>2. CASE handled[x] = "accepted" /\ Pairing(x)
        <4>1. inbound' = [inbound EXCEPT ![x] = "closing"] /\ used' = used
          BY <1>6, <2>3, <3>2 DEF WriteAck
        <4>2. \A h \in Hosts : Out(h)' = Out(h) /\ Peaks(h)' = Peaks(h)
          <5>1. "acking" \in Reserved /\ "closing" \in Reserved
            BY DEF Reserved, InboundTasks
          <5> QED BY <1>1, <2>1, <4>1, <5>1, PeakChanges
        <4>3. BulkBudgetExact' /\ used' \in [Hosts -> 0..Limit]
          BY <1>1, <2>1, <4>1, <4>2, BudgetKept
        <4>4. Places' /\ \A y \in Sends : Story(y)'
          BY <1>1, <2>1, <3>1, <3>2, <4>1 DEF Places, Story, InboundTasks
        <4> QED BY <4>3, <4>4, StrongIs
      <3>3. CASE ~(handled[x] = "accepted" /\ Pairing(x))
        <4>1. EndInbound(x)
          BY <1>6, <2>3, <3>3 DEF WriteAck
        <4>2. BulkBudgetExact' /\ used' \in [Hosts -> 0..Limit]
          BY <2>1, <4>1, EndInboundKeeps DEF Reserved, InboundTasks
        <4>3. Places' /\ \A y \in Sends : Story(y)'
          BY <1>1, <2>1, <3>1, <4>1 DEF EndInbound, Places, Story
        <4> QED BY <4>2, <4>3, StrongIs
      <3> QED BY <3>2, <3>3
    <2> QED BY <2>2, <2>3
  <1>7. CASE CloseConnection(x)
    <2>1. /\ inbound[x] = "closing" /\ EndInbound(x) /\ conns' = conns \cup {<<From(x), To(x)>>}
          /\ UNCHANGED <<encoding, call, task, handled>>
      BY <1>7 DEF CloseConnection
    <2>2. /\ ack' \in [Sends -> {"nothing", "ok", "reject", "empty", "reset"}]
          /\ \A y \in Sends : ack'[y] \in {"reset", ack[y]}
      BY <1>1, <1>7 DEF CloseConnection, Places
    <2>3. BulkBudgetExact' /\ used' \in [Hosts -> 0..Limit]
      BY <2>1, EndInboundKeeps DEF Reserved, InboundTasks
    <2>4. Places'
      <3>1. From(x) \in Hosts /\ To(x) \in Hosts
        BY BulkFacts
      <3>2. conns' \subseteq Hosts \X Hosts
        BY <1>1, <2>1, <3>1 DEF Places
      <3> QED BY <1>1, <2>1, <2>2, <3>2 DEF EndInbound, Places
    <2>5. \A y \in Sends : Story(y)'
      <3> TAKE y \in Sends
      <3>1. inbound'[y] = inbound[y] \/ (inbound[y] = "closing" /\ inbound'[y] = "over")
        BY <1>1, <2>1 DEF EndInbound, Places
      <3>2. inbound[x] = "closing" /\ y = x => call[y] # "rejected" /\ ack[y] # "reject"
        BY <1>1 DEF Story
      <3> QED BY <1>1, <2>1, <2>2, <3>1, <3>2 DEF Story
    <2> QED BY <2>3, <2>4, <2>5, StrongIs
  <1> QED BY <1>2, <1>3, <1>4, <1>5, <1>6, <1>7 DEF ReceiveStep

\* An encoder takes its bytes and gives them back.
LEMMA EncodingKeeps ==
    ASSUME BulkStrong, NEW h0 \in Hosts, StartEncoding(h0) \/ EndEncoding(h0)
    PROVE  BulkStrong'
  <1>1. Places /\ (\A y \in Sends : Story(y)) /\ used \in [Hosts -> 0..Limit] /\ Reservations
    BY StrongIs DEF BulkStrong
  <1>2. UNCHANGED <<call, task, inbound, handled, ack, conns>>
    BY DEF StartEncoding, EndEncoding
  <1>3. Places' /\ \A y \in Sends : Story(y)'
    BY <1>1, <1>2 DEF StartEncoding, EndEncoding, Places, Story
  <1>4. \A h \in Hosts : Out(h)' = Out(h) /\ Peaks(h)' = Peaks(h)
    BY <1>2, UnchangedSets
  <1>5. CASE StartEncoding(h0)
    <2>1. h0 \notin encoding /\ encoding' = encoding \cup {h0} /\ Fits(h0, EncodeBytes) /\ Reserve(h0, EncodeBytes)
      BY <1>5 DEF StartEncoding
    <2>2. \A h \in Hosts : HeldBytes(h)' = HeldBytes(h) + (IF h = h0 THEN EncodeBytes ELSE 0)
      BY <1>4, <2>1, EncodingChanges
    <2>3. BulkBudgetExact' /\ used' \in [Hosts -> 0..Limit]
      BY <1>1, <2>1, <2>2, BulkFacts, BudgetTaken
    <2> QED BY <1>3, <2>3, StrongIs
  <1>6. CASE EndEncoding(h0)
    <2>1. h0 \in encoding /\ encoding' = encoding \ {h0} /\ Release(h0, EncodeBytes)
      BY <1>6 DEF EndEncoding
    <2>2. \A h \in Hosts : HeldBytes(h) = HeldBytes(h)' + (IF h = h0 THEN EncodeBytes ELSE 0)
      BY <1>4, <2>1, EncodingChanges
    <2>3. BulkBudgetExact' /\ used' \in [Hosts -> 0..Limit]
      BY <1>1, <2>1, <2>2, BulkFacts, BudgetReturned
    <2> QED BY <1>3, <2>3, StrongIs
  <1> QED BY <1>5, <1>6

\* Every step of bulk payloads keeps the invariant.
LEMMA BulkStep == BulkStrong /\ [BulkNext]_bulkVars => BulkStrong'
  <1> SUFFICES ASSUME BulkStrong, [BulkNext]_bulkVars PROVE BulkStrong'
    OBVIOUS
  <1>1. CASE UNCHANGED bulkVars
    <2>1. Places /\ (\A y \in Sends : Story(y)) /\ Reservations
      BY StrongIs DEF BulkStrong
    <2>2. UNCHANGED <<used, encoding, call, task, inbound, handled, ack, conns>>
      BY <1>1 DEF bulkVars
    <2>3. BulkBudgetExact' /\ used' \in [Hosts -> 0..Limit]
      BY <2>1, <2>2, UnchangedSets, BudgetKept
    <2>4. Places' /\ \A y \in Sends : Story(y)'
      BY <2>1, <2>2 DEF Places, Story
    <2> QED BY <2>3, <2>4, StrongIs
  <1>2. CASE \E x \in Sends : Call(x) \/ GiveUp(x) \/ SendStep(x) \/ ReceiveStep(x)
    BY <1>2, CallKeeps, GiveUpKeeps, SendStepKeeps, ReceiveStepKeeps
  <1>3. CASE \E h \in Hosts : StartEncoding(h) \/ EndEncoding(h)
    BY <1>3, EncodingKeeps
  <1> QED BY <1>1, <1>2, <1>3 DEF BulkNext

\* Two worst cases do not fit under the limit.
LEMMA StrongImplies == BulkStrong => BulkInv
  <1> SUFFICES ASSUME BulkStrong PROVE BulkInv
    OBVIOUS
  <1>1. BulkTypeOK /\ BulkBudgetExact
    BY DEF BulkStrong, Reservations
  <1>2. AnswerHonest
    BY DEF BulkStrong, Stories, Story, AnswerHonest
  <1>3. OneDecoding
    <2> SUFFICES ASSUME NEW h \in Hosts PROVE Cardinality({x \in Receiving(h) : inbound[x] # "preface"}) <= 1
      BY DEF OneDecoding
    <2> DEFINE c == Cardinality(Peaks(h))
    <2>1. c \in Nat /\ TotalBytes(Out(h)) \in Nat /\ Encodes(h) \in Nat
      BY SendsFinite, TotalSteps, BulkFacts
    <2>2. {x \in Receiving(h) : inbound[x] # "preface"} = Peaks(h)
      BY DEF Receiving, Peaks, InboundTasks
    <2>3. used[h] \in 0..Limit /\ used[h] = HeldBytes(h)
      BY <1>1 DEF BulkTypeOK, BulkBudgetExact
    <2>4. HeldBytes(h) = TotalBytes(Out(h)) + Inbound * c + Encodes(h)
      BY HeldIs
    <2> HIDE DEF c
    <2>5. Inbound * c <= Limit
      BY <2>1, <2>3, <2>4, BulkFacts
    <2>6. c >= 2 => Inbound * c >= Inbound * 2
      BY <2>1, BulkFacts
    <2>7. c <= 1
      BY <2>1, <2>5, <2>6, BulkFacts
    <2> QED BY <2>2, <2>7 DEF c
  <1> QED BY <1>1, <1>2, <1>3 DEF BulkInv

\* On every host the bytes reserved are exactly those of the payloads it sends,
\* receives and encodes, one worst-case payload is decoded at a time, and a caller
\* is told "ok" or "rejected" only for what the peer's handler answered
\* (BulkMemoryBudget, send_stream_expect_ack, spawn_stream_reader).
THEOREM BulkCorrect == BulkSpec => []BulkInv
  BY InitBulkStrong, BulkStep, StrongImplies, PTL DEF BulkSpec
-----------------------------------------------------------------------------
(* The wire format. *)

\* The bytes of the length in front of an envelope.
Width == IF Piecewise THEN 0 ELSE LengthBytes

\* f holds where the envelopes end, each w bytes longer than what it carries.
IsMarks(f, es, w) == f = [k \in 0..Len(es) |-> IF k = 0 THEN 0 ELSE f[k - 1] + (w + es[k].length)]
Marks(es, w) == CHOOSE f : IsMarks(f, es, w)

\* Sequences of envelopes that have a length.
Sized(es) == Len(es) \in Nat /\ \A k \in 1..Len(es) : es[k].length \in Nat

\* The assumptions on the constants.
LEMMA CodecFacts ==
    /\ LengthBytes \in Nat \ {0} /\ MaxFrame \in Nat \ {0} /\ MaxRgba \in Nat \ {0}
    /\ FramesPerWindow \in Nat \ {0} /\ NoBytes = -1 /\ NoBytes \notin Nat
  BY CodecBounds DEF NoBytes

\* Ends is that recursive function.
LEMMA EndsAre == \A es : Ends(es) = Marks(es, Width)
  <1> SUFFICES ASSUME NEW es PROVE Ends(es) = Marks(es, Width)
    OBVIOUS
  <1>1. \A e : StreamBytes(e) = Width + e.length
    BY Zenon DEF StreamBytes, Width
  <1> QED BY Zenon, <1>1 DEF Ends, Marks, IsMarks

\* It exists for every sequence of envelopes, and is what it says.
LEMMA MarksExist ==
    ASSUME NEW es, Sized(es), NEW w \in Nat
    PROVE  IsMarks(Marks(es, w), es, w)
  <1> DEFINE Up(f, m) == f = [k \in 0..m |-> IF k = 0 THEN 0 ELSE f[k - 1] + (w + es[k].length)]
             T == {m \in Nat : \E f : Up(f, m)}
  <1>1. 0 \in T
    <2> DEFINE f == [k \in 0..0 |-> 0]
    <2>1. Up(f, 0)
      OBVIOUS
    <2> QED BY <2>1
  <1>2. ASSUME NEW m \in T PROVE m + 1 \in T
    <2>1. PICK f : Up(f, m)
      OBVIOUS
    <2>2. m \in Nat
      OBVIOUS
    <2> DEFINE g == [k \in 0..(m + 1) |-> IF k = m + 1 THEN f[m] + (w + es[m + 1].length) ELSE f[k]]
    <2>3. \A k \in 0..m : f[k] = IF k = 0 THEN 0 ELSE f[k - 1] + (w + es[k].length)
      BY <2>1, <2>2
    <2>4. \A k \in 0..(m + 1) : g[k] = IF k = 0 THEN 0 ELSE g[k - 1] + (w + es[k].length)
      BY <2>2, <2>3
    <2>5. Up(g, m + 1)
      BY <2>4
    <2> HIDE DEF g
    <2> QED BY <2>2, <2>5
  <1> HIDE DEF T
  <1>3. T = Nat
    BY <1>1, <1>2, NatSets DEF T
  <1>4. \E f : IsMarks(f, es, w)
    BY <1>3 DEF T, IsMarks, Sized
  <1> QED BY Zenon, <1>4 DEF Marks

\* The ends of the envelopes, one by one.
LEMMA MarksAre ==
    ASSUME NEW es, Sized(es), NEW w \in Nat
    PROVE  /\ Marks(es, w)[0] = 0
           /\ \A k \in 1..Len(es) : Marks(es, w)[k] = Marks(es, w)[k - 1] + (w + es[k].length)
           /\ \A k \in 0..Len(es) : Marks(es, w)[k] \in Nat
  <1> DEFINE f == Marks(es, w)
  <1>1. IsMarks(f, es, w)
    BY MarksExist
  <1> HIDE DEF f
  <1>2. f[0] = 0 /\ \A k \in 1..Len(es) : f[k] = f[k - 1] + (w + es[k].length)
    BY <1>1 DEF IsMarks, Sized
  <1> DEFINE T == {k \in Nat : k <= Len(es) => f[k] \in Nat}
  <1>3. 0 \in T
    BY <1>2
  <1>4. ASSUME NEW k \in T PROVE k + 1 \in T
    <2>1. CASE k + 1 <= Len(es)
      <3>1. f[k + 1] = f[k] + (w + es[k + 1].length) /\ f[k] \in Nat /\ es[k + 1].length \in Nat
        BY <1>2, <2>1 DEF Sized
      <3> QED BY <3>1
    <2> QED BY <2>1
  <1> HIDE DEF T
  <1>5. T = Nat
    BY <1>3, <1>4, NatSets DEF T
  <1>6. \A k \in 0..Len(es) : f[k] \in Nat
    BY <1>5 DEF T, Sized
  <1> QED BY <1>2, <1>6 DEF f

\* With a length in front of each, later envelopes end later.
LEMMA MarksGrow ==
    ASSUME NEW es, Sized(es), NEW w \in Nat \ {0}, NEW j \in 0..Len(es), NEW k \in 0..Len(es), j < k
    PROVE  Marks(es, w)[j] < Marks(es, w)[k]
  <1> DEFINE f == Marks(es, w)
             T == {i \in Nat : i <= Len(es) => (j < i => f[j] < f[i])}
  <1>1. /\ \A i \in 1..Len(es) : f[i] = f[i - 1] + (w + es[i].length)
        /\ \A i \in 0..Len(es) : f[i] \in Nat
    BY MarksAre
  <1> HIDE DEF f
  <1>2. 0 \in T
    BY DEF Sized
  <1>3. ASSUME NEW i \in T PROVE i + 1 \in T
    <2>1. CASE i + 1 <= Len(es)
      <3>0. i + 1 \in 1..Len(es) /\ i \in 0..Len(es) /\ (i + 1) - 1 = i
        BY <2>1 DEF Sized
      <3>1. f[i + 1] = f[i] + (w + es[i + 1].length) /\ f[i] \in Nat /\ f[j] \in Nat /\ es[i + 1].length \in Nat
        BY <1>1, <3>0 DEF Sized
      <3>2. f[i] < f[i + 1]
        BY <3>1
      <3>3. j < i + 1 => j = i \/ j < i
        BY DEF Sized
      <3>4. j < i => f[j] < f[i]
        BY <2>1 DEF Sized
      <3> QED BY <3>1, <3>2, <3>3, <3>4
    <2> QED BY <2>1
  <1> HIDE DEF T
  <1>4. T = Nat
    BY <1>2, <1>3, NatSets DEF T
  <1> QED BY <1>4 DEF T, Sized, f

\* One envelope more leaves the ends of the others where they are.
LEMMA MarksAppend ==
    ASSUME NEW S, NEW es \in Seq(S), NEW e \in S, Sized(es), e.length \in Nat, NEW w \in Nat
    PROVE  /\ Sized(Append(es, e))
           /\ \A k \in 0..Len(es) : Marks(Append(es, e), w)[k] = Marks(es, w)[k]
           /\ Marks(es, w)[Len(es)] <= Marks(Append(es, e), w)[Len(Append(es, e))]
  <1> DEFINE r == Append(es, e)
             f == Marks(es, w)
             g == Marks(r, w)
  <1>1. Len(r) = Len(es) + 1 /\ Len(es) \in Nat /\ (\A k \in 1..Len(es) : r[k] = es[k]) /\ r[Len(es) + 1] = e
    BY AppendProperties, LenProperties
  <1> HIDE DEF r
  <1>2. Sized(r)
    BY <1>1 DEF Sized
  <1>3. f[0] = 0 /\ (\A k \in 1..Len(es) : f[k] = f[k - 1] + (w + es[k].length)) /\ \A k \in 0..Len(es) : f[k] \in Nat
    BY MarksAre
  <1>4. g[0] = 0 /\ (\A k \in 1..Len(r) : g[k] = g[k - 1] + (w + r[k].length)) /\ \A k \in 0..Len(r) : g[k] \in Nat
    BY <1>2, MarksAre
  <1> HIDE DEF f, g
  <1> DEFINE T == {k \in Nat : k <= Len(es) => g[k] = f[k]}
  <1>5. 0 \in T
    BY <1>3, <1>4
  <1>6. ASSUME NEW k \in T PROVE k + 1 \in T
    <2>1. CASE k + 1 <= Len(es)
      <3>1. g[k + 1] = g[k] + (w + r[k + 1].length) /\ f[k + 1] = f[k] + (w + es[k + 1].length)
        BY <1>1, <1>3, <1>4, <2>1
      <3>2. g[k] = f[k] /\ r[k + 1] = es[k + 1]
        BY <1>1, <2>1
      <3> QED BY <3>1, <3>2
    <2> QED BY <2>1
  <1> HIDE DEF T
  <1>7. T = Nat
    BY <1>5, <1>6, NatSets DEF T
  <1>8. \A k \in 0..Len(es) : g[k] = f[k]
    BY <1>1, <1>7 DEF T
  <1>9. f[Len(es)] <= g[Len(r)]
    <2>1. g[Len(r)] = g[Len(es)] + (w + e.length) /\ g[Len(es)] = f[Len(es)] /\ f[Len(es)] \in Nat
      BY <1>1, <1>3, <1>4, <1>8
    <2> QED BY <2>1
  <1> QED BY <1>2, <1>8, <1>9 DEF f, g, r

\* The envelopes that are whole within n bytes, if n is in the m-th next one.
LEMMA WholeAre ==
    ASSUME NEW es, Sized(es), NEW w \in Nat \ {0}, NEW m \in 0..Len(es), NEW n \in Nat,
           Marks(es, w)[m] <= n, m < Len(es) => n < Marks(es, w)[m + 1]
    PROVE  Cardinality({k \in 1..Len(es) : Marks(es, w)[k] <= n}) = m
  <1> DEFINE f == Marks(es, w)
  <1>1. \A k \in 0..Len(es) : f[k] \in Nat
    BY MarksAre
  <1>2. \A j, k \in 0..Len(es) : j < k => f[j] < f[k]
    BY MarksGrow
  <1>3. Len(es) \in Nat /\ m \in Nat
    BY DEF Sized
  <1>4. f[m] <= n /\ (m < Len(es) => n < f[m + 1])
    OBVIOUS
  <1> HIDE DEF f
  <1>5. ASSUME NEW k \in 1..Len(es) PROVE f[k] <= n <=> k <= m
    <2>1. CASE k <= m
      BY <1>1, <1>2, <1>3, <1>4, <2>1
    <2>2. CASE k = m + 1
      BY <1>1, <1>3, <1>4, <2>2
    <2>3. CASE k > m + 1
      <3>1. f[m + 1] < f[k] /\ n < f[m + 1] /\ f[m + 1] \in Nat /\ f[k] \in Nat
        BY <1>1, <1>2, <1>3, <1>4, <2>3
      <3> QED BY <1>3, <2>3, <3>1
    <2> QED BY <1>3, <2>1, <2>2, <2>3
  <1>6. {k \in 1..Len(es) : f[k] <= n} = 1..m
    BY <1>3, <1>5
  <1>7. Cardinality(1..m) = m
    BY <1>3, FS_Interval
  <1> QED BY <1>6, <1>7 DEF f

-----------------------------------------------------------------------------
(* The decoder of a stream. *)

\* The frames of the envelopes, and what the decoder's fields may be.
FramesIn(es) == {es[k].frame : k \in 1..Len(es)}
Errors == {"badlength", "toolarge", "undecodable", "foreign", "invalid"}
DecoderStates(es) ==
    [prefix : Nat, expected : Nat, payload : Nat, at : Nat, state : {"open"} \cup Errors, frames : Seq(FramesIn(es))]

\* The fields fit the k-th envelope: it is before its payload or in it.
FieldsFit(c, k, es) ==
    \/ c.expected = 0 /\ c.prefix \in 0..(LengthBytes - 1)
    \/ /\ k <= Len(es) /\ c.prefix = LengthBytes /\ c.expected = es[k].length
       /\ c.expected \in 1..MaxFrame /\ c.payload \in 0..(c.expected - 1)

\* The bytes of the envelope that the fields have seen.
Seen(c) == IF c.expected = 0 THEN c.prefix ELSE LengthBytes + c.payload

\* After the first b frames, the decoder has taken the first n bytes of the stream:
\* it completed the frames before the one it is at.
Decoding(d, b, es, n) ==
    /\ d \in DecoderStates(es) /\ d.state = "open"
    /\ d.at \in (b + 1)..(Len(es) + 1) /\ FieldsFit(d, d.at, es)
    /\ d.frames = [i \in 1..(d.at - 1 - b) |-> es[b + i].frame]
    /\ Marks(es, LengthBytes)[d.at - 1] + Seen(d) = n

\* An envelope that this version accepts.
Proper(e) == e.length \in 1..MaxFrame /\ Verdict(e) = "open"

\* What Verdict may say.
LEMMA VerdictType == \A e : Verdict(e) \in {"open"} \cup Errors
  BY DEF Verdict, Errors

\* Setting one field to a number leaves the others.
LEMMA FieldsSet ==
    ASSUME NEW es, NEW d \in DecoderStates(es), NEW x \in Nat
    PROVE  [d EXCEPT !.prefix = x] \in DecoderStates(es) /\ [d EXCEPT !.payload = x] \in DecoderStates(es)
  BY DEF DecoderStates

\* Bytes that are still to come belong to the envelope the decoder is at.
LEMMA MoreToCome ==
    ASSUME NEW es, Sized(es), NEW b \in Nat, NEW n \in Nat, NEW d, Decoding(d, b, es, n),
           n < Marks(es, LengthBytes)[Len(es)]
    PROVE  d.at \in 1..Len(es) /\ es[d.at].length \in Nat
  <1> DEFINE f == Marks(es, LengthBytes)
  <1>1. d.at \in (b + 1)..(Len(es) + 1) /\ f[d.at - 1] + Seen(d) = n /\ FieldsFit(d, d.at, es)
    BY DEF Decoding
  <1>2. Seen(d) \in Nat /\ Len(es) \in Nat
    BY <1>1, CodecFacts DEF Seen, FieldsFit, Sized
  <1>3. \A k \in 0..Len(es) : f[k] \in Nat
    BY MarksAre, CodecFacts
  <1>4. n < f[Len(es)]
    OBVIOUS
  <1> HIDE DEF f
  <1>5. d.at # Len(es) + 1
    <2> SUFFICES ASSUME d.at = Len(es) + 1 PROVE FALSE
      OBVIOUS
    <2>1. f[Len(es)] + Seen(d) = n /\ f[Len(es)] \in Nat
      BY <1>1, <1>2, <1>3
    <2> QED BY <1>2, <1>4, <2>1
  <1> QED BY <1>1, <1>2, <1>5 DEF Sized

\* After a byte of envelope e: an error that e deserves, or n bytes taken.
Further(t, e, b, es, n) ==
    /\ t.state = "open" => Decoding(t, b, es, n)
    /\ t \in DecoderStates(es)
    /\ Proper(e) => t.state = "open"

\* A byte of the length.
LEMMA LengthTaken ==
    ASSUME NEW es, Sized(es), NEW b \in Nat, NEW n \in Nat, NEW d, Decoding(d, b, es, n),
           n < Marks(es, LengthBytes)[Len(es)], d.expected = 0
    PROVE  Further(LengthByte(d, es[d.at]), es[d.at], b, es, n + 1)
  <1> USE DEF Further
  <1> DEFINE e == es[d.at]
             t == LengthByte(d, e)
  <1>1. d.at \in 1..Len(es) /\ e.length \in Nat
    BY MoreToCome
  <1>2. d.prefix \in Nat /\ d.prefix + 1 <= LengthBytes /\ LengthBytes \in Nat
    BY CodecFacts DEF Decoding, FieldsFit
  <1>3. d \in DecoderStates(es) /\ d.state = "open" /\ d.at \in (b + 1)..(Len(es) + 1)
        /\ d.frames = [i \in 1..(d.at - 1 - b) |-> es[b + i].frame]
        /\ Marks(es, LengthBytes)[d.at - 1] + d.prefix = n
    BY DEF Decoding, Seen
  <1> HIDE DEF e
  <1>4. CASE d.prefix + 1 < LengthBytes
    <2>1. t = [d EXCEPT !.prefix = @ + 1]
      BY <1>2, <1>4 DEF LengthByte
    <2> HIDE DEF t
    <2>2. t \in DecoderStates(es) /\ t.prefix = d.prefix + 1 /\ t.expected = 0 /\ t.at = d.at /\ t.state = d.state /\ t.frames = d.frames
      <3>1. DOMAIN d = {"prefix", "expected", "payload", "at", "state", "frames"}
        BY <1>3 DEF DecoderStates
      <3>2. t.prefix = d.prefix + 1 /\ t.expected = 0 /\ t.at = d.at /\ t.state = d.state /\ t.frames = d.frames
        BY <2>1, <3>1
      <3>3. t \in DecoderStates(es)
        <4>1. t = [d EXCEPT !.prefix = d.prefix + 1] /\ d.prefix + 1 \in Nat
          BY <1>2, <2>1
        <4> QED BY <1>3, <4>1, FieldsSet, Zenon
      <3> QED BY <3>2, <3>3
    <2>3. FieldsFit(t, t.at, es)
      BY <1>2, <1>4, <2>2 DEF FieldsFit
    <2>4. Marks(es, LengthBytes)[t.at - 1] + Seen(t) = n + 1
      <3>1. Marks(es, LengthBytes)[d.at - 1] \in Nat
        BY <1>1, MarksAre, CodecFacts DEF Sized
      <3>2. Seen(t) = d.prefix + 1
        BY <2>2 DEF Seen
      <3>3. Marks(es, LengthBytes)[d.at - 1] + d.prefix = n
        BY <1>3
      <3>4. Marks(es, LengthBytes)[d.at - 1] + (d.prefix + 1) = n + 1
        BY <1>2, <3>1, <3>3
      <3> QED BY <2>2, <3>2, <3>4
    <2>5. Decoding(t, b, es, n + 1)
      BY <1>3, <2>2, <2>3, <2>4 DEF Decoding
    <2> QED BY <1>3, <2>2, <2>5 DEF t, e
  <1>5. CASE d.prefix + 1 = LengthBytes /\ e.length \notin 1..MaxFrame
    <2>1. t = [d EXCEPT !.state = "badlength"] \/ t = [d EXCEPT !.state = "toolarge"]
      BY <1>1, <1>2, <1>5, CodecFacts DEF LengthByte
    <2> HIDE DEF t
    <2>2. t \in DecoderStates(es) /\ t.state # "open"
      BY <1>3, <2>1 DEF DecoderStates, Errors
    <2> QED BY <1>5, <2>2 DEF Proper, t, e
  <1>6. CASE d.prefix + 1 = LengthBytes /\ e.length \in 1..MaxFrame
    <2>1. t = [d EXCEPT !.prefix = @ + 1, !.expected = e.length, !.payload = 0]
      BY <1>1, <1>2, <1>6, CodecFacts DEF LengthByte
    <2> HIDE DEF t
    <2>2. t \in DecoderStates(es) /\ t.prefix = LengthBytes /\ t.expected = e.length /\ t.payload = 0
          /\ t.at = d.at /\ t.state = d.state /\ t.frames = d.frames
      BY <1>1, <1>2, <1>3, <1>6, <2>1 DEF DecoderStates
    <2>3. FieldsFit(t, t.at, es)
      BY <1>1, <1>6, <2>2, CodecFacts DEF FieldsFit, e
    <2>4. Marks(es, LengthBytes)[t.at - 1] + Seen(t) = n + 1
      <3>1. Marks(es, LengthBytes)[d.at - 1] \in Nat
        BY <1>1, MarksAre, CodecFacts DEF Sized
      <3>2. Seen(t) = d.prefix + 1
        BY <1>2, <1>6, <2>2 DEF Seen
      <3>3. Marks(es, LengthBytes)[d.at - 1] + d.prefix = n
        BY <1>3
      <3>4. Marks(es, LengthBytes)[d.at - 1] + (d.prefix + 1) = n + 1
        BY <1>2, <3>1, <3>3
      <3> QED BY <2>2, <3>2, <3>4
    <2>5. Decoding(t, b, es, n + 1)
      BY <1>3, <2>2, <2>3, <2>4 DEF Decoding
    <2> QED BY <1>3, <2>2, <2>5 DEF t, e
  <1> QED BY <1>2, <1>4, <1>5, <1>6

\* A byte of the payload.
LEMMA PayloadTaken ==
    ASSUME NEW es, Sized(es), NEW b \in Nat, NEW n \in Nat, NEW d, Decoding(d, b, es, n),
           n < Marks(es, LengthBytes)[Len(es)], d.expected # 0
    PROVE  Further(PayloadByte(d, es[d.at]), es[d.at], b, es, n + 1)
  <1> USE DEF Further
  <1> DEFINE e == es[d.at]
             t == PayloadByte(d, e)
             f == Marks(es, LengthBytes)
  <1>1. d.at \in 1..Len(es) /\ e.length \in Nat
    BY MoreToCome
  <1>2. d.prefix = LengthBytes /\ d.expected = e.length /\ d.payload \in Nat /\ d.payload + 1 <= d.expected
        /\ d.expected \in 1..MaxFrame /\ LengthBytes \in Nat /\ MaxFrame \in Nat
    BY CodecFacts DEF Decoding, FieldsFit
  <1>3. d \in DecoderStates(es) /\ d.state = "open" /\ d.at \in (b + 1)..(Len(es) + 1)
        /\ d.frames = [i \in 1..(d.at - 1 - b) |-> es[b + i].frame]
        /\ f[d.at - 1] + (LengthBytes + d.payload) = n
    BY DEF Decoding, Seen
  <1>4. f[d.at] = f[d.at - 1] + (LengthBytes + e.length) /\ f[d.at - 1] \in Nat /\ Len(es) \in Nat
    <2>1. /\ \A k \in 1..Len(es) : f[k] = f[k - 1] + (LengthBytes + es[k].length)
          /\ \A k \in 0..Len(es) : f[k] \in Nat
      BY MarksAre, CodecFacts
    <2>2. Len(es) \in Nat
      BY DEF Sized
    <2> HIDE DEF f
    <2> QED BY <1>1, <2>1, <2>2
  <1> HIDE DEF e, f
  <1>5. CASE d.payload + 1 < d.expected
    <2>1. t = [d EXCEPT !.payload = @ + 1]
      BY <1>2, <1>5 DEF PayloadByte
    <2> HIDE DEF t
    <2>2. t \in DecoderStates(es) /\ t.prefix = d.prefix /\ t.expected = d.expected /\ t.payload = d.payload + 1
          /\ t.at = d.at /\ t.state = d.state /\ t.frames = d.frames
      <3>1. DOMAIN d = {"prefix", "expected", "payload", "at", "state", "frames"}
        BY <1>3 DEF DecoderStates
      <3>2. t.prefix = d.prefix /\ t.expected = d.expected /\ t.payload = d.payload + 1
            /\ t.at = d.at /\ t.state = d.state /\ t.frames = d.frames
        BY <2>1, <3>1
      <3>3. t \in DecoderStates(es)
        <4>1. t = [d EXCEPT !.payload = d.payload + 1] /\ d.payload + 1 \in Nat
          BY <1>2, <2>1
        <4> QED BY <1>3, <4>1, FieldsSet, Zenon
      <3> QED BY <3>2, <3>3
    <2>3. FieldsFit(t, t.at, es)
      BY <1>1, <1>2, <1>5, <2>2 DEF FieldsFit, e
    <2>4. f[t.at - 1] + Seen(t) = n + 1
      <3>1. Seen(t) = LengthBytes + (d.payload + 1)
        BY <1>2, <2>2 DEF Seen
      <3> HIDE DEF f
      <3>2. f[t.at - 1] = f[d.at - 1]
        BY <2>2
      <3>3. f[d.at - 1] + (LengthBytes + d.payload) = n
        BY <1>3
      <3>4. \A x, y, z \in Nat : x + (y + z) = n => x + (y + (z + 1)) = n + 1
        OBVIOUS
      <3>5. f[d.at - 1] \in Nat /\ LengthBytes \in Nat /\ d.payload \in Nat
        BY <1>2, <1>4
      <3>6. f[d.at - 1] + (LengthBytes + (d.payload + 1)) = n + 1
        BY <3>3, <3>4, <3>5, Zenon
      <3> QED BY <3>1, <3>2, <3>6, Zenon
    <2>5. Decoding(t, b, es, n + 1)
      BY <1>3, <2>2, <2>3, <2>4 DEF Decoding, f
    <2> QED BY <1>3, <2>2, <2>5 DEF t, e
  <1>6. CASE d.payload + 1 = d.expected /\ Verdict(e) # "open"
    <2>1. t = [d EXCEPT !.state = Verdict(e)]
      BY <1>2, <1>6 DEF PayloadByte
    <2>2. Verdict(e) \in Errors
      BY <1>6, VerdictType
    <2> HIDE DEF t
    <2>3. t \in DecoderStates(es) /\ t.state # "open"
      BY <1>3, <1>6, <2>1, <2>2 DEF DecoderStates
    <2> QED BY <1>6, <2>3 DEF Proper, t, e
  <1>7. CASE d.payload + 1 = d.expected /\ Verdict(e) = "open"
    <2> DEFINE more == Append(d.frames, e.frame)
    <2>1. t = Awaiting(Fresh, d.at + 1, more)
      BY <1>2, <1>7 DEF PayloadByte
    <2> HIDE DEF t
    <2>2. e.frame \in FramesIn(es) /\ d.frames \in Seq(FramesIn(es))
      BY <1>1, <1>3 DEF FramesIn, DecoderStates, e
    <2>3. more \in Seq(FramesIn(es)) /\ Len(more) = Len(d.frames) + 1
          /\ (\A i \in 1..Len(d.frames) : more[i] = d.frames[i]) /\ more[Len(d.frames) + 1] = e.frame
      BY <2>2, AppendProperties
    <2>4. d.at - 1 - b \in Nat /\ d.at \in Nat
      BY <1>1, <1>3
    <2>5. Len(d.frames) = d.at - 1 - b
      BY <1>3, <2>4
    <2>6. more = [i \in 1..(d.at - b) |-> es[b + i].frame]
      <3> HIDE DEF more
      <3>1. Len(more) = d.at - b
        BY <2>3, <2>4, <2>5
      <3>2. ASSUME NEW i \in 1..(d.at - b) PROVE more[i] = es[b + i].frame
        <4>1. CASE i \in 1..(d.at - 1 - b)
          BY <1>3, <2>3, <2>5, <4>1
        <4>2. CASE i = d.at - b
          <5>1. i = Len(d.frames) + 1 /\ b + i = d.at
            BY <2>4, <2>5, <4>2
          <5> QED BY <2>3, <5>1 DEF e
        <4> QED BY <2>4, <4>1, <4>2
      <3>3. more = [i \in 1..Len(more) |-> more[i]]
        BY <2>3, LenProperties
      <3> QED BY <3>1, <3>2, <3>3
    <2> HIDE DEF more
    <2>7. t.prefix = 0 /\ t.expected = 0 /\ t.payload = 0 /\ t.at = d.at + 1 /\ t.state = "open" /\ t.frames = more
          /\ t \in DecoderStates(es)
      BY <2>1, <2>3, <2>4 DEF Awaiting, Fresh, DecoderStates
    <2>8. FieldsFit(t, t.at, es)
      BY <2>7, CodecFacts DEF FieldsFit
    <2>9. f[t.at - 1] + Seen(t) = n + 1
      <3>1. Seen(t) = 0
        BY <2>7 DEF Seen
      <3>2. f[t.at - 1] = f[d.at]
        BY <2>4, <2>7
      <3>3. e.length = d.payload + 1
        BY <1>1, <1>2, <1>7
      <3>4. f[d.at - 1] + (LengthBytes + d.payload) = n
        BY <1>3
      <3>5. \A x, y, z \in Nat : x + (y + z) = n => (x + (y + (z + 1))) + 0 = n + 1
        OBVIOUS
      <3>6. f[d.at - 1] \in Nat /\ LengthBytes \in Nat /\ d.payload \in Nat
        BY <1>2, <1>4
      <3>7. (f[d.at - 1] + (LengthBytes + (d.payload + 1))) + 0 = n + 1
        BY <3>4, <3>5, <3>6, Zenon
      <3>8. f[d.at] = f[d.at - 1] + (LengthBytes + (d.payload + 1))
        BY <1>4, <3>3, Zenon
      <3> QED BY <3>1, <3>2, <3>7, <3>8, Zenon
    <2>10. t.at \in (b + 1)..(Len(es) + 1) /\ t.at - 1 - b = d.at - b
      BY <1>1, <1>3, <1>4, <2>7
    <2>11. t.frames = [i \in 1..(t.at - 1 - b) |-> es[b + i].frame]
      BY <2>6, <2>7, <2>10
    <2>12. Decoding(t, b, es, n + 1)
      BY <2>7, <2>8, <2>9, <2>10, <2>11 DEF Decoding, f
    <2> QED BY <2>7, <2>12 DEF t, e
  <1> QED BY <1>2, <1>5, <1>6, <1>7

\* One byte more: an error, or one byte further.
LEMMA ByteTaken ==
    ASSUME Sized(written), NEW b \in Nat, NEW n \in Nat, NEW d, d \in DecoderStates(written),
           d.state = "open" => Decoding(d, b, written, n),
           n < Marks(written, LengthBytes)[Len(written)]
    PROVE  /\ TakeByte(d) \in DecoderStates(written)
           /\ TakeByte(d).state = "open" => Decoding(TakeByte(d), b, written, n + 1)
           /\ d.state = "open" /\ (\A k \in 1..Len(written) : Proper(written[k])) => TakeByte(d).state = "open"
  <1>1. CASE d.state # "open"
    <2>1. TakeByte(d) = d
      BY <1>1 DEF TakeByte
    <2> QED BY <1>1, <2>1
  <1>2. CASE d.state = "open" /\ d.expected = 0
    <2>1. TakeByte(d) = LengthByte(d, written[d.at])
      BY <1>2 DEF TakeByte
    <2>2. d.at \in 1..Len(written) /\ Decoding(d, b, written, n)
      BY <1>2, MoreToCome
    <2>3. Further(LengthByte(d, written[d.at]), written[d.at], b, written, n + 1)
      BY <1>2, <2>2, LengthTaken, Zenon
    <2> QED BY <2>1, <2>2, <2>3 DEF Further
  <1>3. CASE d.state = "open" /\ d.expected # 0
    <2>1. TakeByte(d) = PayloadByte(d, written[d.at])
      BY <1>3 DEF TakeByte
    <2>2. d.at \in 1..Len(written) /\ Decoding(d, b, written, n)
      BY <1>3, MoreToCome
    <2>3. Further(PayloadByte(d, written[d.at]), written[d.at], b, written, n + 1)
      BY <1>3, <2>2, PayloadTaken, Zenon
    <2> QED BY <2>1, <2>2, <2>3 DEF Further
  <1> QED BY <1>1, <1>2, <1>3

\* What push returns is the last value of a recursive function over the bytes of the chunk.
Before == Awaiting(decoding, Len(obeyed) + 1, <<>>)
IsPushed(f, n) == f = [i \in 0..n |-> IF i = 0 THEN Before ELSE TakeByte(f[i - 1])]

\* What push yields for n bytes is the value at n of a function that takes one more byte at
\* each step.
LEMMA PushIs ==
    ASSUME NEW n \in Nat
    PROVE  \E f : IsPushed(f, n) /\ PushBytes(n) = f[n]
  <1> DEFINE T == {m \in Nat : \E f : IsPushed(f, m)}
  <1>1. 0 \in T
    <2> DEFINE f == [i \in 0..0 |-> Before]
    <2>1. IsPushed(f, 0)
      BY DEF IsPushed
    <2> QED BY <2>1
  <1>2. ASSUME NEW m \in T PROVE m + 1 \in T
    <2>1. PICK f : IsPushed(f, m)
      OBVIOUS
    <2>2. m \in Nat
      OBVIOUS
    <2> DEFINE g == [i \in 0..(m + 1) |-> IF i = m + 1 THEN TakeByte(f[m]) ELSE f[i]]
    <2>3. \A i \in 0..m : f[i] = IF i = 0 THEN Before ELSE TakeByte(f[i - 1])
      BY <2>1, <2>2 DEF IsPushed
    <2>4. \A i \in 0..(m + 1) : g[i] = IF i = 0 THEN Before ELSE TakeByte(g[i - 1])
      BY <2>2, <2>3
    <2>5. IsPushed(g, m + 1)
      BY <2>4 DEF IsPushed
    <2> HIDE DEF g
    <2> QED BY <2>2, <2>5
  <1> HIDE DEF T
  <1>3. T = Nat
    BY <1>1, <1>2, NatSets DEF T
  <1>4. \E f : IsPushed(f, n)
    BY <1>3 DEF T
  <1> DEFINE after == CHOOSE f : IsPushed(f, n)
  <1>5. PushBytes(n) = after[n]
    BY Zenon DEF PushBytes, IsPushed, Before
  <1>6. IsPushed(after, n)
    BY Zenon, <1>4
  <1> HIDE DEF after
  <1> QED BY <1>5, <1>6

\* A chunk: an error, or as many bytes further; no error on this version's envelopes.
LEMMA ChunkTaken ==
    ASSUME Sized(written), Len(obeyed) \in Nat, NEW r \in Nat, NEW n \in Nat,
           Decoding(Before, Len(obeyed), written, r),
           r + n <= Marks(written, LengthBytes)[Len(written)],
           Marks(written, LengthBytes)[Len(written)] \in Nat
    PROVE  /\ PushBytes(n) \in DecoderStates(written)
           /\ PushBytes(n).state = "open" => Decoding(PushBytes(n), Len(obeyed), written, r + n)
           /\ (\A k \in 1..Len(written) : Proper(written[k])) => PushBytes(n).state = "open"
  <1>1. PICK f : IsPushed(f, n) /\ PushBytes(n) = f[n]
    BY PushIs
  <1> DEFINE Good(d, m) == /\ d \in DecoderStates(written)
                           /\ d.state = "open" => Decoding(d, Len(obeyed), written, m)
                           /\ (\A k \in 1..Len(written) : Proper(written[k])) => d.state = "open"
             T == {i \in Nat : i <= n => Good(f[i], r + i)}
  <1>2. f[0] = Before /\ \A i \in 1..n : f[i] = TakeByte(f[i - 1])
    BY <1>1 DEF IsPushed
  <1>3. 0 \in T
    <2>1. Before \in DecoderStates(written) /\ Before.state = "open"
      BY DEF Decoding
    <2>2. r + 0 = r
      OBVIOUS
    <2> QED BY <1>2, <2>1, <2>2
  <1>4. ASSUME NEW i \in T PROVE i + 1 \in T
    <2>1. CASE i + 1 <= n
      <3>1. Good(f[i], r + i) /\ i \in Nat
        BY <2>1
      <3>2. f[i + 1] = TakeByte(f[i])
        BY <1>2, <2>1
      <3>3. r + i < Marks(written, LengthBytes)[Len(written)] /\ r + i \in Nat /\ (r + i) + 1 = r + (i + 1)
        BY <2>1
      <3>4. Good(TakeByte(f[i]), (r + i) + 1)
        BY <3>1, <3>3, ByteTaken, Zenon
      <3> HIDE DEF Good
      <3>5. Good(f[i + 1], r + (i + 1))
        BY <3>2, <3>3, <3>4
      <3> QED BY <3>5
    <2> QED BY <2>1
  <1> HIDE DEF T
  <1>5. T = Nat
    BY <1>3, <1>4, NatSets DEF T
  <1>6. Good(f[n], r + n)
    BY <1>5 DEF T
  <1> QED BY <1>1, <1>6

-----------------------------------------------------------------------------
(* What stays true of the wire. *)

\* What a writer of version v may put on a channel c.
Writable(v, c) ==
    IF v = "this" THEN {Envelope(f) : f \in {g \in FramesOf(c) : Encodable(g)}} ELSE ForeignEnvelopes(c)

\* The first m frames of the envelopes.
Beginning(m, es) == [i \in 1..m |-> es[i].frame]

\* The envelopes that are whole within n bytes, and whether n bytes end with an envelope.
WholeWithin(n) == Cardinality({k \in 1..Len(written) : Marks(written, LengthBytes)[k] <= n})
EndsAt(n) == \E k \in 0..Len(written) : Marks(written, LengthBytes)[k] = n

WirePart ==
    /\ channel \in {"control", "input", "motion", "bulk"} /\ version \in {"this", "other"}
    /\ written \in Seq(Writable(version, channel))
    /\ cut \in Nat \cup {NoBytes} /\ read \in Nat

\* A stream: what is handled is a beginning, and the decoder stands right after it.
StreamPart ==
    ~Piecewise =>
        /\ Len(obeyed) \in 0..Len(written) /\ obeyed = Beginning(Len(obeyed), written)
        /\ read <= Marks(written, LengthBytes)[Len(written)]
        /\ cut # NoBytes => read <= cut /\ cut <= Marks(written, LengthBytes)[Len(written)]
        /\ outcome = "open" => Decoding(Before, Len(obeyed), written, read)

\* Pieces are read whole and their writer does not stop.
PiecePart ==
    Piecewise =>
        /\ cut = NoBytes /\ outcome \in {"open", "dropped"}
        /\ \E j \in 0..Len(written) : Marks(written, 0)[j] = read

EndPart ==
    outcome \in {"finished", "truncated"} =>
        ~Piecewise /\ Len(obeyed) = WholeWithin(cut) /\ (outcome = "finished" <=> EndsAt(cut))

CodecInv == WirePart /\ StreamPart /\ PiecePart /\ EndPart /\ SpeaksItself

\* An element that can be written has a length, a proper one when this version writes it.
LEMMA WritableSized ==
    ASSUME NEW v, NEW c, NEW e \in Writable(v, c)
    PROVE  e.length \in Nat /\ (v = "this" => Proper(e))
  <1>1. CASE v = "this"
    <2>1. PICK f : Encodable(f) /\ e = Envelope(f)
      BY <1>1 DEF Writable
    <2>2. e.length = Size(f) /\ e.readable = TRUE /\ e.major = 2 /\ e.frame = f
      BY <2>1 DEF Envelope
    <2>3. Size(f) \in 1..MaxFrame
      BY <2>1, CodecFacts DEF Size
    <2>4. Valid(f)
      BY <2>1 DEF Encodable
    <2>5. Verdict(e) = "open"
      BY <2>2, <2>4 DEF Verdict
    <2> QED BY <2>2, <2>3, <2>5 DEF Proper
  <1>2. CASE v # "this"
    <2>1. e.length \in 0..(MaxFrame + 1)
      BY <1>2 DEF Writable, ForeignEnvelopes
    <2> QED BY <1>2, <2>1
  <1> QED BY <1>1, <1>2

\* What was written is sized, and the marks between its elements are numbers from 0 on.
LEMMA WrittenIs ==
    ASSUME WirePart
    PROVE  /\ Sized(written) /\ Len(written) \in Nat
           /\ version = "this" => \A k \in 1..Len(written) : Proper(written[k])
           /\ \A k \in 0..Len(written) : Marks(written, LengthBytes)[k] \in Nat
           /\ Marks(written, LengthBytes)[0] = 0
  <1>1. Len(written) \in Nat /\ \A k \in 1..Len(written) : written[k] \in Writable(version, channel)
    BY LenProperties DEF WirePart
  <1>2. Sized(written)
    BY <1>1, WritableSized DEF Sized
  <1>3. version = "this" => \A k \in 1..Len(written) : Proper(written[k])
    BY <1>1, WritableSized
  <1>4. /\ Marks(written, LengthBytes)[0] = 0
        /\ \A k \in 0..Len(written) : Marks(written, LengthBytes)[k] \in Nat
    BY <1>2, MarksAre, CodecFacts
  <1> QED BY <1>1, <1>2, <1>3, <1>4

\* The properties' own words for it, on a stream.
LEMMA StreamWords ==
    ASSUME ~Piecewise
    PROVE  /\ Total = Marks(written, LengthBytes)[Len(written)]
           /\ \A n : WholeIn(n) = WholeWithin(n)
           /\ \A n : (\E k \in 0..Len(written) : Ends(written)[k] = n) <=> EndsAt(n)
  <1>1. Ends(written) = Marks(written, LengthBytes)
    BY EndsAre DEF Width
  <1> QED BY <1>1 DEF Total, WholeIn, WholeWithin, EndsAt

\* Beginnings.
LEMMA BeginningIs ==
    ASSUME NEW es, Sized(es), NEW m \in 0..Len(es)
    PROVE  Beginning(m, es) \in Seq(FramesIn(es)) /\ Len(Beginning(m, es)) = m
  <1>1. m \in Nat /\ \A i \in 1..m : es[i].frame \in FramesIn(es)
    BY DEF Sized, FramesIn
  <1> QED BY <1>1 DEF Beginning

\* The frames between two places, joined to a beginning that ends at the first, are the
\* beginning that ends at the second.
LEMMA BeginningGrows ==
    ASSUME NEW es, Sized(es), NEW b \in 0..Len(es), NEW a \in b..Len(es), NEW s,
           s = [i \in 1..(a - b) |-> es[b + i].frame]
    PROVE  Beginning(b, es) \o s = Beginning(a, es)
  <1> DEFINE p == Beginning(b, es)
  <1>1. b \in Nat /\ a \in Nat /\ a - b \in Nat /\ b <= a
    BY DEF Sized
  <1>2. p \in Seq(FramesIn(es)) /\ Len(p) = b /\ \A i \in 1..b : p[i] = es[i].frame
    BY BeginningIs DEF Beginning
  <1>3. s \in Seq(FramesIn(es)) /\ Len(s) = a - b /\ \A i \in 1..(a - b) : s[i] = es[b + i].frame
    <2>1. \A i \in 1..(a - b) : es[b + i].frame \in FramesIn(es)
      BY <1>1 DEF Sized, FramesIn
    <2> QED BY <1>1, <2>1
  <1> HIDE DEF p
  <1> DEFINE c == p \o s
  <1>4. c \in Seq(FramesIn(es)) /\ Len(c) = a
        /\ \A i \in 1..a : c[i] = IF i <= b THEN p[i] ELSE s[i - b]
    <2>1. c \in Seq(FramesIn(es)) /\ Len(c) = Len(p) + Len(s)
          /\ \A i \in 1..(Len(p) + Len(s)) : c[i] = IF i <= Len(p) THEN p[i] ELSE s[i - Len(p)]
      <3> DEFINE F == FramesIn(es)
      <3>1. p \in Seq(F) /\ s \in Seq(F)
        BY <1>2, <1>3
      <3> HIDE DEF F
      <3>2. c \in Seq(F)
        BY <3>1, ConcatProperties
      <3>3. Len(c) = Len(p) + Len(s)
        BY <3>1, ConcatProperties
      <3>4. \A i \in 1..(Len(p) + Len(s)) : c[i] = IF i <= Len(p) THEN p[i] ELSE s[i - Len(p)]
        BY <3>1, ConcatProperties
      <3> QED BY <3>2, <3>3, <3>4 DEF F
    <2>2. Len(p) + Len(s) = a
      BY <1>1, <1>2, <1>3
    <2> HIDE DEF c
    <2> QED BY <1>2, <2>1, <2>2
  <1> HIDE DEF c
  <1>5. \A i \in 1..a : c[i] = es[i].frame
    <2> SUFFICES ASSUME NEW i \in 1..a PROVE c[i] = es[i].frame
      OBVIOUS
    <2>1. CASE i <= b
      <3>1. c[i] = p[i] /\ i \in 1..b
        BY <1>1, <1>4, <2>1
      <3> QED BY <1>2, <3>1
    <2>2. CASE i > b
      <3>1. c[i] = s[i - b] /\ i - b \in 1..(a - b) /\ b + (i - b) = i
        BY <1>1, <1>4, <2>2
      <3> QED BY <1>3, <3>1
    <2> QED BY <1>1, <2>1, <2>2
  <1>6. c = [i \in 1..a |-> c[i]]
    BY <1>4, LenProperties
  <1>7. c = Beginning(a, es)
    BY <1>5, <1>6 DEF Beginning
  <1> QED BY <1>7 DEF c, p

\* One envelope more changes nothing for the decoder.
LEMMA DecodingAppend ==
    ASSUME NEW S, NEW es \in Seq(S), NEW e \in S, Sized(es), e.length \in Nat,
           NEW b \in Nat, NEW n \in Nat, NEW d, Decoding(d, b, es, n)
    PROVE  Decoding(d, b, Append(es, e), n)
  <1> DEFINE r == Append(es, e)
  <1>1. Len(r) = Len(es) + 1 /\ Len(es) \in Nat /\ \A k \in 1..Len(es) : r[k] = es[k]
    BY AppendProperties, LenProperties
  <1>2. \A k \in 0..Len(es) : Marks(r, LengthBytes)[k] = Marks(es, LengthBytes)[k]
    BY MarksAppend, CodecFacts
  <1> HIDE DEF r
  <1>3. d.at \in (b + 1)..(Len(es) + 1) /\ d \in DecoderStates(es) /\ d.state = "open" /\ FieldsFit(d, d.at, es)
        /\ d.frames = [i \in 1..(d.at - 1 - b) |-> es[b + i].frame]
        /\ Marks(es, LengthBytes)[d.at - 1] + Seen(d) = n
    BY DEF Decoding
  <1>4. FramesIn(es) \subseteq FramesIn(r)
    BY <1>1 DEF FramesIn
  <1>5. d \in DecoderStates(r)
    <2>1. d.frames \in Seq(FramesIn(es))
      BY <1>3 DEF DecoderStates
    <2>2. d.frames \in Seq(FramesIn(r))
      BY <1>4, <2>1, SeqMonotonic
    <2> QED BY <1>3, <2>2 DEF DecoderStates
  <1>6. FieldsFit(d, d.at, r)
    BY <1>1, <1>3 DEF FieldsFit
  <1>7. d.frames = [i \in 1..(d.at - 1 - b) |-> r[b + i].frame]
    <2>1. \A i \in 1..(d.at - 1 - b) : b + i \in 1..Len(es)
      BY <1>1, <1>3
    <2>2. \A i \in 1..(d.at - 1 - b) : es[b + i].frame = r[b + i].frame
      BY <1>1, <2>1
    <2> QED BY <1>3, <2>2
  <1>8. d.at - 1 \in 0..Len(es) /\ d.at \in (b + 1)..(Len(r) + 1)
    BY <1>1, <1>3
  <1>9. Marks(r, LengthBytes)[d.at - 1] + Seen(d) = n
    BY <1>2, <1>3, <1>8
  <1> QED BY <1>3, <1>5, <1>6, <1>7, <1>8, <1>9 DEF Decoding, r

\* The next chunk starts where this one ended.
LEMMA Rebased ==
    ASSUME NEW es, Sized(es), NEW b \in Nat, NEW n \in Nat, NEW d, Decoding(d, b, es, n)
    PROVE  /\ d.at - 1 \in b..Len(es)
           /\ Decoding(Awaiting(Kept(d), d.at, <<>>), d.at - 1, es, n)
  <1> DEFINE t == Awaiting(Kept(d), d.at, <<>>)
  <1>1. d.at \in (b + 1)..(Len(es) + 1) /\ d \in DecoderStates(es) /\ FieldsFit(d, d.at, es)
        /\ Marks(es, LengthBytes)[d.at - 1] + Seen(d) = n /\ Len(es) \in Nat
    BY DEF Decoding, Sized
  <1>2. t.prefix = d.prefix /\ t.expected = d.expected /\ t.payload = d.payload /\ t.at = d.at
        /\ t.state = "open" /\ t.frames = <<>> /\ t \in DecoderStates(es)
    BY <1>1 DEF Awaiting, Kept, DecoderStates
  <1> HIDE DEF t
  <1>3. d.at - 1 \in b..Len(es) /\ d.at \in ((d.at - 1) + 1)..(Len(es) + 1) /\ d.at - 1 - (d.at - 1) = 0
    BY <1>1
  <1>4. FieldsFit(t, t.at, es) /\ Seen(t) = Seen(d)
    BY <1>1, <1>2 DEF FieldsFit, Seen
  <1>5. t.frames = [i \in 1..(t.at - 1 - (d.at - 1)) |-> es[(d.at - 1) + i].frame]
    <2>1. 1..(t.at - 1 - (d.at - 1)) = {}
      BY <1>1, <1>2
    <2> QED BY <1>2, <2>1
  <1>6. Marks(es, LengthBytes)[t.at - 1] + Seen(t) = n
    BY <1>1, <1>2, <1>4
  <1>7. t.at \in ((d.at - 1) + 1)..(Len(es) + 1)
    BY <1>2, <1>3
  <1>8. Decoding(t, d.at - 1, es, n)
    BY <1>2, <1>4, <1>5, <1>6, <1>7 DEF Decoding
  <1> QED BY <1>3, <1>8 DEF t

\* Where the decoder stands says how many frames are whole, and whether one has begun.
LEMMA StandsRight ==
    ASSUME WirePart, NEW n \in Nat, NEW b \in Nat, NEW d, Decoding(d, b, written, n), d.at = b + 1,
           n <= Marks(written, LengthBytes)[Len(written)]
    PROVE  /\ WholeWithin(n) = b
           /\ EndsAt(n) <=> d.prefix = 0 /\ d.expected = 0
  <1> DEFINE f == Marks(written, LengthBytes)
  <1>1. Sized(written) /\ Len(written) \in Nat /\ (\A k \in 0..Len(written) : f[k] \in Nat)
    BY WrittenIs
  <1>2. \A j, k \in 0..Len(written) : j < k => f[j] < f[k]
    BY <1>1, MarksGrow, CodecFacts
  <1>3. \A k \in 1..Len(written) : f[k] = f[k - 1] + (LengthBytes + written[k].length)
    BY <1>1, MarksAre, CodecFacts
  <1>4. b \in 0..Len(written) /\ FieldsFit(d, b + 1, written)
    <2>1. d.at \in (b + 1)..(Len(written) + 1) /\ FieldsFit(d, d.at, written)
      BY DEF Decoding
    <2> QED BY <1>1, <2>1
  <1>5. f[b] + Seen(d) = n
    <2>1. f[d.at - 1] + Seen(d) = n /\ d.at - 1 = b
      BY DEF Decoding
    <2> HIDE DEF f
    <2> QED BY <2>1
  <1>6. n <= f[Len(written)]
    OBVIOUS
  <1> HIDE DEF f
  <1>7. Seen(d) \in Nat /\ (Seen(d) = 0 <=> d.prefix = 0 /\ d.expected = 0)
    BY <1>4, CodecFacts DEF FieldsFit, Seen
  <1>8. f[b] <= n
    <2>1. f[b] \in Nat
      BY <1>1, <1>4
    <2> QED BY <1>5, <1>7, <2>1
  <1>9. b < Len(written) => n < f[b + 1]
    <2> SUFFICES ASSUME b < Len(written) PROVE n < f[b + 1]
      OBVIOUS
    <2>1. f[b + 1] = f[b] + (LengthBytes + written[b + 1].length) /\ f[b] \in Nat /\ written[b + 1].length \in Nat
      BY <1>1, <1>3, <1>4 DEF Sized
    <2>2. Seen(d) < LengthBytes + written[b + 1].length
      <3>1. LengthBytes \in Nat \ {0} /\ MaxFrame \in Nat
        BY CodecFacts
      <3>2. CASE d.expected = 0 /\ d.prefix \in 0..(LengthBytes - 1)
        <4>1. Seen(d) = d.prefix
          BY <3>2 DEF Seen
        <4> QED BY <2>1, <3>1, <3>2, <4>1
      <3>3. CASE d.expected = written[b + 1].length /\ d.expected \in 1..MaxFrame /\ d.payload \in 0..(d.expected - 1)
        <4>1. Seen(d) = LengthBytes + d.payload
          BY <3>1, <3>3 DEF Seen
        <4>2. d.payload \in Nat /\ d.payload < written[b + 1].length
          BY <3>1, <3>3
        <4> QED BY <2>1, <3>1, <4>1, <4>2
      <3> QED BY <1>4, <3>2, <3>3 DEF FieldsFit
    <2>3. \A x, y, z \in Nat : y < z => x + y < x + z
      OBVIOUS
    <2>4. LengthBytes + written[b + 1].length \in Nat
      BY <2>1, CodecFacts
    <2>5. f[b] + Seen(d) < f[b] + (LengthBytes + written[b + 1].length)
      BY <1>7, <2>1, <2>2, <2>3, <2>4
    <2> QED BY <1>5, <2>1, <2>5
  <1>10. WholeWithin(n) = b
    BY <1>1, <1>4, <1>8, <1>9, WholeAre, CodecFacts DEF WholeWithin, f
  <1>11. EndsAt(n) <=> Seen(d) = 0
    <2>1. f[b] \in Nat
      BY <1>1, <1>4
    <2>2. ASSUME Seen(d) = 0 PROVE EndsAt(n)
      <3>1. f[b] = n
        BY <1>5, <2>1, <2>2
      <3> QED BY <1>4, <3>1 DEF EndsAt, f
    <2>3. ASSUME NEW k \in 0..Len(written), f[k] = n PROVE Seen(d) = 0
      <3>1. CASE k = b
        BY <1>5, <1>7, <2>1, <2>3, <3>1
      <3>2. CASE k < b
        <4>1. f[k] < f[b] /\ f[k] \in Nat
          BY <1>1, <1>2, <1>4, <3>2
        <4> QED BY <1>8, <2>1, <2>3, <4>1
      <3>3. CASE k > b
        <4>1. b < Len(written) /\ b + 1 \in 0..Len(written) /\ f[b + 1] \in Nat
          BY <1>1, <1>4, <3>3
        <4>2. f[b + 1] <= f[k]
          <5>1. CASE k = b + 1
            BY <4>1, <5>1
          <5>2. CASE b + 1 < k
            BY <1>1, <1>2, <4>1, <5>2
          <5> QED BY <1>1, <1>4, <3>3, <5>1, <5>2
        <4> QED BY <1>9, <2>3, <4>1, <4>2
      <3> QED BY <1>4, <3>1, <3>2, <3>3
    <2> QED BY <2>2, <2>3 DEF EndsAt, f
  <1> QED BY <1>7, <1>10, <1>11

-----------------------------------------------------------------------------
(* One step at a time. *)

\* The invariant of the codec holds at the start.
LEMMA CodecStarts == CodecInit => CodecInv
  <1> SUFFICES ASSUME CodecInit PROVE CodecInv
    OBVIOUS
  <1> USE DEF CodecInit
  <1>1. WirePart
    BY DEF WirePart
  <1>2. Len(written) = 0 /\ Sized(written) /\ (\A w \in Nat : Marks(written, w)[0] = 0) /\ Len(obeyed) = 0
    <2>1. Sized(written)
      BY DEF Sized
    <2> QED BY <2>1, MarksAre
  <1>3. StreamPart
    <2>1. Before.prefix = 0 /\ Before.expected = 0 /\ Before.at = 1 /\ Before.state = "open" /\ Before.frames = <<>>
          /\ Before \in DecoderStates(written)
      BY DEF Before, Awaiting, Fresh, DecoderStates
    <2>2. FieldsFit(Before, Before.at, written) /\ Seen(Before) = 0
      BY <2>1, CodecFacts DEF FieldsFit, Seen
    <2>3. Before.frames = [i \in 1..(Before.at - 1 - 0) |-> written[0 + i].frame]
      <3>1. 1..(Before.at - 1 - 0) = {}
        BY <2>1
      <3> QED BY <2>1, <3>1
    <2>4. Marks(written, LengthBytes)[Before.at - 1] + Seen(Before) = 0
      <3>1. Before.at - 1 = 0 /\ Marks(written, LengthBytes)[0] = 0
        BY <1>2, <2>1, CodecFacts
      <3> QED BY <2>2, <3>1
    <2>5. Before.at \in (0 + 1)..(Len(written) + 1)
      BY <1>2, <2>1
    <2>6. Decoding(Before, 0, written, 0)
      BY <2>1, <2>2, <2>3, <2>4, <2>5 DEF Decoding
    <2>7. obeyed = Beginning(Len(obeyed), written)
      <3>1. 1..0 = {}
        OBVIOUS
      <3> QED BY <1>2, <3>1 DEF Beginning
    <2>8. Marks(written, LengthBytes)[Len(written)] = 0
      BY <1>2, CodecFacts
    <2> QED BY <1>2, <2>6, <2>7, <2>8 DEF StreamPart
  <1>4. PiecePart
    BY <1>2 DEF PiecePart
  <1>5. EndPart /\ SpeaksItself
    BY DEF EndPart, SpeaksItself
  <1> QED BY <1>1, <1>3, <1>4, <1>5 DEF CodecInv

\* Writing an element keeps it.
LEMMA WriteKeeps == CodecInv /\ Write => CodecInv'
  <1> SUFFICES ASSUME CodecInv, Write PROVE CodecInv'
    OBVIOUS
  <1> DEFINE S == Writable(version, channel)
  <1>1. WirePart /\ StreamPart /\ PiecePart
    BY DEF CodecInv
  <1>2. PICK e \in S : written' = Append(written, e)
    BY DEF Write, Writable
  <1>3. cut = NoBytes /\ outcome = "open"
        /\ UNCHANGED <<channel, version, cut, read, decoding, obeyed, inWindow, elapsed, seconds, outcome>>
    BY DEF Write
  <1>4. written \in Seq(S) /\ Sized(written) /\ e.length \in Nat /\ Len(written) \in Nat
    BY <1>1, WrittenIs, WritableSized DEF WirePart
  <1>5. Piecewise' = Piecewise /\ Before' = Before
    BY <1>3 DEF Piecewise, Before, Awaiting
  <1>6. Len(written') = Len(written) + 1 /\ (\A k \in 1..Len(written) : written'[k] = written[k]) /\ written' \in Seq(S)
    BY <1>2, <1>4, AppendProperties
  <1> HIDE DEF S
  <1>7. \A w \in Nat :
           /\ \A k \in 0..Len(written) : Marks(written', w)[k] = Marks(written, w)[k]
           /\ Marks(written, w)[Len(written)] <= Marks(written', w)[Len(written')]
    BY <1>2, <1>4, MarksAppend
  <1>8. Sized(written')
    BY <1>2, <1>4, MarksAppend
  <1>9. WirePart'
    <2>1. S' = S
      BY <1>3 DEF S
    <2> QED BY <1>1, <1>3, <1>6, <2>1 DEF WirePart, S
  <1>10. StreamPart'
    <2> SUFFICES ASSUME ~Piecewise
                 PROVE  /\ Len(obeyed) \in 0..Len(written') /\ obeyed = Beginning(Len(obeyed), written')
                        /\ read <= Marks(written', LengthBytes)[Len(written')]
                        /\ Decoding(Before, Len(obeyed), written', read)
      BY <1>3, <1>5 DEF StreamPart
    <2>1. Len(obeyed) \in 0..Len(written) /\ obeyed = Beginning(Len(obeyed), written)
          /\ read <= Marks(written, LengthBytes)[Len(written)] /\ Decoding(Before, Len(obeyed), written, read)
      BY <1>1, <1>3 DEF StreamPart
    <2>2. Len(obeyed) \in 0..Len(written')
      BY <1>4, <1>6, <2>1
    <2>3. Beginning(Len(obeyed), written') = Beginning(Len(obeyed), written)
      <3>1. \A i \in 1..Len(obeyed) : written'[i].frame = written[i].frame
        BY <1>4, <1>6, <2>1
      <3> QED BY <3>1 DEF Beginning
    <2>4. read <= Marks(written', LengthBytes)[Len(written')]
      <3>1. Marks(written, LengthBytes)[Len(written)] \in Nat /\ Marks(written', LengthBytes)[Len(written')] \in Nat
        BY <1>4, <1>6, <1>8, MarksAre, CodecFacts
      <3>2. Marks(written, LengthBytes)[Len(written)] <= Marks(written', LengthBytes)[Len(written')]
        BY <1>7, CodecFacts
      <3>3. read \in Nat
        BY <1>1 DEF WirePart
      <3> QED BY <2>1, <3>1, <3>2, <3>3
    <2>5. Decoding(Before, Len(obeyed), written', read)
      <3>1. Len(obeyed) \in Nat /\ read \in Nat
        BY <1>1, <1>4, <2>1 DEF WirePart
      <3> QED BY <1>2, <1>4, <2>1, <3>1, DecodingAppend
    <2> QED BY <2>1, <2>2, <2>3, <2>4, <2>5
  <1>11. PiecePart'
    <2> SUFFICES ASSUME Piecewise PROVE \E j \in 0..Len(written') : Marks(written', 0)[j] = read
      BY <1>3, <1>5 DEF PiecePart
    <2>1. PICK j \in 0..Len(written) : Marks(written, 0)[j] = read
      BY <1>1 DEF PiecePart
    <2>2. j \in 0..Len(written') /\ Marks(written', 0)[j] = read
      BY <1>4, <1>6, <1>7, <2>1
    <2> QED BY <2>2
  <1>12. EndPart' /\ SpeaksItself'
    BY <1>3 DEF EndPart, SpeaksItself
  <1> QED BY <1>9, <1>10, <1>11, <1>12 DEF CodecInv

\* The end of the writer, wherever it cuts the stream, keeps it.
LEMMA StopKeeps == CodecInv /\ Stop => CodecInv'
  <1> SUFFICES ASSUME CodecInv, Stop PROVE CodecInv'
    OBVIOUS
  <1>1. WirePart /\ StreamPart /\ PiecePart /\ ~Piecewise /\ outcome = "open"
    BY DEF CodecInv, Stop
  <1>2. UNCHANGED <<channel, version, written, read, decoding, obeyed, inWindow, elapsed, seconds, outcome>>
        /\ cut' \in read..Marks(written, LengthBytes)[Len(written)]
    BY <1>1, StreamWords DEF Stop
  <1>3. Marks(written, LengthBytes)[Len(written)] \in Nat /\ read \in Nat
    BY <1>1, WrittenIs DEF WirePart
  <1>4. Piecewise' = Piecewise /\ Before' = Before
    BY <1>2 DEF Piecewise, Before, Awaiting
  <1>5. cut' \in Nat /\ read <= cut' /\ cut' <= Marks(written, LengthBytes)[Len(written)]
    BY <1>2, <1>3
  <1>6. WirePart'
    BY <1>1, <1>2, <1>5 DEF WirePart
  <1>7. StreamPart'
    BY <1>1, <1>2, <1>4, <1>5 DEF StreamPart
  <1>8. PiecePart' /\ EndPart' /\ SpeaksItself'
    BY <1>1, <1>2, <1>4 DEF PiecePart, EndPart, SpeaksItself
  <1> QED BY <1>6, <1>7, <1>8 DEF CodecInv

\* Reading up to the end of the stream keeps it.
LEMMA ReadToEndKeeps == CodecInv /\ ReadToEnd => CodecInv'
  <1> SUFFICES ASSUME CodecInv, ReadToEnd PROVE CodecInv'
    OBVIOUS
  <1>1. WirePart /\ StreamPart /\ PiecePart /\ outcome = "open" /\ cut # NoBytes /\ read = cut /\ outcome' = Finish
        /\ UNCHANGED <<channel, version, written, cut, read, decoding, obeyed, inWindow, elapsed, seconds>>
    BY DEF CodecInv, ReadToEnd
  <1>2. ~Piecewise
    BY <1>1 DEF PiecePart
  <1>3. Piecewise' = Piecewise /\ WholeWithin(cut)' = WholeWithin(cut) /\ EndsAt(cut)' = EndsAt(cut)
    BY <1>1 DEF Piecewise, WholeWithin, EndsAt
  <1>4. Decoding(Before, Len(obeyed), written, cut) /\ cut \in Nat /\ Len(obeyed) \in Nat
        /\ cut <= Marks(written, LengthBytes)[Len(written)]
    BY <1>1, <1>2, WrittenIs DEF StreamPart, WirePart
  <1>5. Before.at = Len(obeyed) + 1 /\ Before.prefix = decoding.prefix /\ Before.expected = decoding.expected
    BY DEF Before, Awaiting
  <1>6. WholeWithin(cut) = Len(obeyed) /\ (EndsAt(cut) <=> Before.prefix = 0 /\ Before.expected = 0)
    BY <1>1, <1>4, <1>5, StandsRight
  <1>7. outcome' = "finished" <=> EndsAt(cut)
    BY <1>1, <1>5, <1>6 DEF Finish
  <1>8. outcome' \in {"finished", "truncated"}
    BY <1>1 DEF Finish
  <1>9. WirePart'
    BY <1>1 DEF WirePart
  <1>10. StreamPart'
    BY <1>1, <1>2, <1>3, <1>8 DEF StreamPart
  <1>11. PiecePart' /\ SpeaksItself'
    BY <1>2, <1>3, <1>8 DEF PiecePart, SpeaksItself
  <1>12. EndPart'
    BY <1>1, <1>2, <1>3, <1>6, <1>7 DEF EndPart
  <1> QED BY <1>9, <1>10, <1>11, <1>12 DEF CodecInv

\* The next frames are handled, all of a chunk or some of them.
LEMMA MoreHandled ==
    ASSUME WirePart, NEW b \in 0..Len(written), obeyed = Beginning(b, written), Len(obeyed) = b,
           NEW n \in Nat, NEW d, Decoding(d, b, written, n)
    PROVE  /\ d.at - 1 \in b..Len(written) /\ obeyed \o d.frames = Beginning(d.at - 1, written)
           /\ \A k \in 1..Len(d.frames) : b + k \in b..Len(written)
                                          /\ obeyed \o SubSeq(d.frames, 1, k) = Beginning(b + k, written)
  <1>1. Sized(written) /\ Len(written) \in Nat
    BY WrittenIs
  <1>2. d.at \in (b + 1)..(Len(written) + 1) /\ d.frames = [i \in 1..(d.at - 1 - b) |-> written[b + i].frame]
    BY DEF Decoding
  <1>3. d.at - 1 \in b..Len(written) /\ d.at - 1 - b \in Nat
    BY <1>1, <1>2
  <1>4. obeyed \o d.frames = Beginning(d.at - 1, written)
    BY <1>1, <1>2, <1>3, BeginningGrows
  <1>5. ASSUME NEW k \in 1..Len(d.frames)
        PROVE  b + k \in b..Len(written) /\ obeyed \o SubSeq(d.frames, 1, k) = Beginning(b + k, written)
    <2> DEFINE F == FramesIn(written)
               fr == d.frames
               s == SubSeq(fr, 1, k)
    <2>1. fr \in Seq(F)
      BY DEF Decoding, DecoderStates
    <2>2. Len(fr) = d.at - 1 - b
      BY <1>2, <1>3
    <2>3. k \in Nat /\ 1 <= k /\ k <= Len(fr) /\ Len(fr) \in Nat
      BY <1>3, <2>2
    <2>4. b + k \in b..Len(written) /\ (b + k) - b = k
      BY <1>1, <1>2, <2>2, <2>3
    <2> HIDE DEF F, fr
    <2>5. Len(s) = k /\ \A i \in 1..k : s[i] = fr[i]
      BY <2>1, <2>3
    <2>6. s \in Seq(F)
      BY <2>1, <2>3
    <2> HIDE DEF s
    <2>7. s = [i \in 1..k |-> s[i]]
      BY <2>5, <2>6, LenProperties
    <2>8. \A i \in 1..k : s[i] = written[b + i].frame
      <3>1. \A i \in 1..k : i \in 1..(d.at - 1 - b)
        BY <2>2, <2>3
      <3>2. \A i \in 1..(d.at - 1 - b) : fr[i] = written[b + i].frame
        BY <1>2 DEF fr
      <3> QED BY <2>5, <3>1, <3>2
    <2>9. s = [i \in 1..((b + k) - b) |-> written[b + i].frame]
      BY <2>4, <2>7, <2>8
    <2>10. obeyed \o s = Beginning(b + k, written)
      BY <1>1, <2>4, <2>9, BeginningGrows
    <2> QED BY <2>4, <2>10 DEF s, fr
  <1> QED BY <1>3, <1>4, <1>5

\* What a chunk read from a stream may do.
ChunkRead(n, d) ==
    /\ decoding' = Kept(d)
    /\ \/ d.state # "open" /\ outcome' = d.state /\ obeyed' = obeyed
       \/ d.state = "open" /\ outcome' = "rate" /\ obeyed' = obeyed
       \/ d.state = "open" /\ outcome' = outcome /\ obeyed' = obeyed \o d.frames
       \/ d.state = "open" /\ outcome' = "refused" /\ \E k \in 1..Len(d.frames) : obeyed' = obeyed \o SubSeq(d.frames, 1, k)

\* The readers of the control and the input stream both read a chunk and push it.
LEMMA ReadersRead ==
    ASSUME NEW n, ReadControl(n) \/ ReadInput(n)
    PROVE  ChunkRead(n, PushBytes(n)) /\ channel \in {"control", "input"}
  <1> DEFINE d == PushBytes(n)
  <1>1. CASE ReadControl(n)
    <2>1. /\ channel = "control" /\ decoding' = Kept(d)
          /\ IF d.state # "open"
             THEN outcome' = d.state /\ UNCHANGED <<obeyed, inWindow, elapsed>>
             ELSE /\ inWindow' = Counted(Len(d.frames)) /\ elapsed' = FALSE
                  /\ IF inWindow' > FramesPerWindow THEN outcome' = "rate" /\ UNCHANGED obeyed
                     ELSE obeyed' = obeyed \o d.frames /\ UNCHANGED outcome
      BY <1>1 DEF ReadControl
    <2> HIDE DEF d
    <2>2. ChunkRead(n, d)
      BY <2>1 DEF ChunkRead
    <2> QED BY <2>1, <2>2 DEF d
  <1>2. CASE ReadInput(n)
    <2>1. /\ channel = "input" /\ decoding' = Kept(d)
          /\ \/ d.state # "open" /\ outcome' = d.state /\ UNCHANGED obeyed
             \/ d.state = "open" /\ obeyed' = obeyed \o d.frames /\ UNCHANGED outcome
             \/ /\ d.state = "open" /\ outcome' = "refused"
                /\ \E k \in 1..Len(d.frames) : obeyed' = obeyed \o SubSeq(d.frames, 1, k)
      BY <1>2 DEF ReadInput
    <2> HIDE DEF d
    <2>2. ChunkRead(n, d)
      BY <2>1 DEF ChunkRead
    <2> QED BY <2>1, <2>2 DEF d
  <1> QED BY <1>1, <1>2

\* A chunk of any size keeps the invariant.
LEMMA ChunkKeeps ==
    ASSUME CodecInv, outcome = "open", channel \in {"control", "input"}, NEW n \in 1..(Arriving - read),
           read' = read + n, ChunkRead(n, PushBytes(n)), UNCHANGED <<channel, version, written, cut, seconds>>
    PROVE  CodecInv'
  <1> DEFINE d == PushBytes(n)
             b == Len(obeyed)
             f == Marks(written, LengthBytes)
  <1>1. WirePart /\ StreamPart /\ PiecePart /\ ~Piecewise
    BY DEF CodecInv, Piecewise
  <1>2. Sized(written) /\ Len(written) \in Nat /\ f[Len(written)] \in Nat
        /\ (version = "this" => \A k \in 1..Len(written) : Proper(written[k]))
    BY <1>1, WrittenIs
  <1>3. read \in Nat /\ cut \in Nat \cup {NoBytes}
    BY <1>1 DEF WirePart
  <1>4. b \in 0..Len(written) /\ obeyed = Beginning(b, written) /\ read <= f[Len(written)]
        /\ (cut # NoBytes => read <= cut /\ cut <= f[Len(written)]) /\ Decoding(Before, b, written, read)
    BY <1>1 DEF StreamPart
  <1>5. Arriving = IF cut = NoBytes THEN f[Len(written)] ELSE cut
    BY <1>1, StreamWords DEF Arriving
  <1> HIDE DEF f
  <1>6. n \in Nat /\ read + n \in Nat /\ read + n <= Arriving /\ Arriving <= f[Len(written)] /\ Arriving \in Nat
    <2>1. Arriving \in Nat /\ Arriving <= f[Len(written)]
      BY <1>2, <1>3, <1>4, <1>5
    <2> QED BY <1>3, <2>1
  <1>7. read + n <= f[Len(written)] /\ (cut # NoBytes => read + n <= cut /\ cut <= f[Len(written)])
    BY <1>2, <1>3, <1>4, <1>5, <1>6
  <1>8. /\ d \in DecoderStates(written)
        /\ d.state = "open" => Decoding(d, b, written, read + n)
        /\ version = "this" => d.state = "open"
    <2>1. b \in Nat
      BY <1>2, <1>4
    <2>2. read + n <= Marks(written, LengthBytes)[Len(written)] /\ Marks(written, LengthBytes)[Len(written)] \in Nat
      BY <1>2, <1>7 DEF f
    <2>3. /\ d \in DecoderStates(written)
          /\ d.state = "open" => Decoding(d, b, written, read + n)
          /\ (\A k \in 1..Len(written) : Proper(written[k])) => d.state = "open"
      BY <1>2, <1>3, <1>4, <1>6, <2>1, <2>2, ChunkTaken
    <2> QED BY <1>2, <2>3
  <1>9. ChunkRead(n, d)
    OBVIOUS
  <1> HIDE DEF d
  <1>10. WirePart' /\ PiecePart'
    <2>1. read' \in Nat
      BY <1>6
    <2> QED BY <1>1, <2>1 DEF WirePart, PiecePart, Piecewise
  <1>11. Piecewise' = Piecewise
    BY DEF Piecewise
  <1>12. Len(obeyed') \in 0..Len(written) /\ obeyed' = Beginning(Len(obeyed'), written)
         /\ (outcome' = "open" => d.state = "open" /\ Len(obeyed') = d.at - 1)
    <2>1. CASE d.state # "open" /\ outcome' = d.state /\ obeyed' = obeyed
      BY <1>4, <2>1
    <2>2. CASE d.state = "open" /\ outcome' = "rate" /\ obeyed' = obeyed
      BY <1>4, <2>2
    <2>3. CASE d.state = "open" /\ outcome' = outcome /\ obeyed' = obeyed \o d.frames
      <3>1. d.at - 1 \in b..Len(written) /\ obeyed' = Beginning(d.at - 1, written)
        BY <1>1, <1>4, <1>6, <1>8, <2>3, MoreHandled
      <3>2. d.at - 1 \in 0..Len(written)
        BY <1>2, <1>4, <3>1
      <3>3. Len(obeyed') = d.at - 1
        BY <1>2, <3>1, <3>2, BeginningIs
      <3> QED BY <2>3, <3>1, <3>2, <3>3
    <2>4. CASE d.state = "open" /\ outcome' = "refused" /\ \E k \in 1..Len(d.frames) : obeyed' = obeyed \o SubSeq(d.frames, 1, k)
      <3>1. PICK k \in 1..Len(d.frames) : obeyed' = obeyed \o SubSeq(d.frames, 1, k)
        BY <2>4
      <3>2. b + k \in b..Len(written) /\ obeyed' = Beginning(b + k, written)
        <4>1. \A j \in 1..Len(d.frames) : b + j \in b..Len(written) /\ obeyed \o SubSeq(d.frames, 1, j) = Beginning(b + j, written)
          <5>1. WirePart /\ b \in 0..Len(written) /\ obeyed = Beginning(b, written) /\ Len(obeyed) = b
                /\ read + n \in Nat /\ Decoding(d, b, written, read + n)
            BY <1>1, <1>4, <1>6, <1>8, <2>4
          <5> QED BY <5>1, MoreHandled, Zenon
        <4> QED BY <3>1, <4>1
      <3>3. b + k \in 0..Len(written)
        BY <1>2, <1>4, <3>2
      <3>4. Len(obeyed') = b + k
        BY <1>2, <3>2, <3>3, BeginningIs
      <3> QED BY <2>4, <3>2, <3>3, <3>4
    <2> QED BY <1>9, <2>1, <2>2, <2>3, <2>4 DEF ChunkRead
  <1>13. ASSUME outcome' = "open" PROVE Decoding(Before', Len(obeyed'), written, read + n)
    <2>1. d.state = "open" /\ Len(obeyed') = d.at - 1 /\ Decoding(d, b, written, read + n)
      BY <1>8, <1>12, <1>13
    <2>2. b \in Nat /\ d.at \in Nat
      BY <1>2, <1>4, <1>8 DEF DecoderStates
    <2>3. Decoding(Awaiting(Kept(d), d.at, <<>>), d.at - 1, written, read + n)
      BY <1>2, <1>6, <2>1, <2>2, Rebased
    <2>4. Before' = Awaiting(Kept(d), d.at, <<>>)
      <3>1. Len(obeyed') + 1 = d.at
        BY <2>1, <2>2
      <3>2. decoding' = Kept(d)
        BY <1>9 DEF ChunkRead
      <3> QED BY <3>1, <3>2 DEF Before, Awaiting
    <2> QED BY <2>1, <2>3, <2>4
  <1>14. StreamPart'
    BY <1>1, <1>7, <1>11, <1>12, <1>13 DEF StreamPart, f
  <1>15. EndPart'
    <2>1. outcome' \notin {"finished", "truncated"}
      BY <1>8, <1>9 DEF ChunkRead, DecoderStates, Errors
    <2> QED BY <2>1 DEF EndPart
  <1>16. SpeaksItself'
    BY <1>8, <1>9 DEF ChunkRead, SpeaksItself
  <1> QED BY <1>10, <1>14, <1>15, <1>16 DEF CodecInv

\* A piece of a bulk stream keeps it.
LEMMA PieceKeeps ==
    ASSUME CodecInv, outcome = "open", read < Arriving, ReadPiece, UNCHANGED <<channel, version, written, cut, seconds>>
    PROVE  CodecInv'
  <1> DEFINE f == Marks(written, 0)
             k == CHOOSE j \in 1..Len(written) : Ends(written)[j - 1] = read
             e == written[k]
             bad == e.length = 0 \/ e.length > MaxFrame \/ Verdict(e) # "open"
  <1>1. WirePart /\ Piecewise /\ cut = NoBytes
    BY DEF CodecInv, ReadPiece, PiecePart
  <1>2. Sized(written) /\ Len(written) \in Nat /\ (version = "this" => \A i \in 1..Len(written) : Proper(written[i]))
    BY <1>1, WrittenIs
  <1>3. Ends(written) = f
    BY <1>1, EndsAre DEF Width
  <1>4. Arriving = f[Len(written)]
    BY <1>1, <1>3 DEF Arriving, Total
  <1>5. PICK j \in 0..Len(written) : f[j] = read
    BY <1>1 DEF CodecInv, PiecePart
  <1>6. (\A i \in 1..Len(written) : f[i] = f[i - 1] + (0 + written[i].length)) /\ \A i \in 0..Len(written) : f[i] \in Nat
    BY <1>2, MarksAre
  <1>7. read' = read + StreamBytes(e) /\ outcome' = (IF bad THEN "dropped" ELSE "open")
    BY DEF ReadPiece
  <1>8. read \in Nat
    BY <1>1 DEF WirePart
  <1> HIDE DEF f
  <1>9. j + 1 \in 1..Len(written) /\ f[(j + 1) - 1] = read
    <2>1. j # Len(written)
      BY <1>4, <1>5, <1>8
    <2> QED BY <1>2, <1>5, <2>1
  <1>10. k \in 1..Len(written) /\ f[k - 1] = read
    <2>1. \E i \in 1..Len(written) : Ends(written)[i - 1] = read
      BY <1>3, <1>9
    <2>2. k \in 1..Len(written) /\ Ends(written)[k - 1] = read
      BY <2>1, Zenon
    <2> HIDE DEF k
    <2> QED BY <1>3, <2>2
  <1> HIDE DEF k
  <1>11. StreamBytes(e) = 0 + e.length /\ e.length \in Nat
    BY <1>1, <1>2, <1>10 DEF StreamBytes, Sized
  <1>12. read' = f[k] /\ f[k] \in Nat /\ k \in 0..Len(written)
    BY <1>2, <1>6, <1>7, <1>10, <1>11
  <1>13. version = "this" => ~bad
    BY <1>2, <1>10, CodecFacts DEF Proper
  <1> HIDE DEF bad, e
  <1>14. outcome' \in {"open", "dropped"} /\ (version = "this" => outcome' = "open")
    BY <1>7, <1>13
  <1>15. Piecewise' = Piecewise
    BY DEF Piecewise
  <1>16. WirePart'
    BY <1>1, <1>12 DEF WirePart
  <1>17. PiecePart'
    BY <1>1, <1>12, <1>14, <1>15 DEF PiecePart, f
  <1>18. StreamPart' /\ EndPart' /\ SpeaksItself'
    BY <1>1, <1>14, <1>15 DEF StreamPart, EndPart, SpeaksItself
  <1> QED BY <1>16, <1>17, <1>18 DEF CodecInv

\* Every read keeps it.
LEMMA ReadKeeps == CodecInv /\ Read => CodecInv'
  <1> SUFFICES ASSUME CodecInv, Read PROVE CodecInv'
    OBVIOUS
  <1>1. outcome = "open" /\ read < Arriving /\ UNCHANGED <<channel, version, written, cut, seconds>>
    BY DEF Read
  <1>2. CASE ReadPiece
    BY <1>1, <1>2, PieceKeeps
  <1>3. ASSUME NEW n \in 1..(Arriving - read), read' = read + n, ReadControl(n) \/ ReadInput(n) PROVE CodecInv'
    <2>1. ChunkRead(n, PushBytes(n)) /\ channel \in {"control", "input"}
      BY <1>3, ReadersRead
    <2> QED BY <1>1, <1>3, <2>1, ChunkKeeps
  <1> QED BY <1>2, <1>3 DEF Read

\* Every step of the codec keeps it.
LEMMA CodecStep == CodecInv /\ [CodecNext]_codecVars => CodecInv'
  <1> SUFFICES ASSUME CodecInv, [CodecNext]_codecVars PROVE CodecInv'
    OBVIOUS
  <1>1. CASE Second
    <2>1. UNCHANGED <<channel, version, written, cut, read, decoding, obeyed, outcome>>
      BY <1>1 DEF Second
    <2> QED BY <2>1 DEF CodecInv, WirePart, StreamPart, PiecePart, EndPart, SpeaksItself, Piecewise, Before, Awaiting,
                        WholeWithin, EndsAt
  <1>2. CASE UNCHANGED codecVars
    BY <1>2 DEF codecVars, CodecInv, WirePart, StreamPart, PiecePart, EndPart, SpeaksItself, Piecewise, Before, Awaiting,
                WholeWithin, EndsAt
  <1> QED BY <1>1, <1>2, WriteKeeps, StopKeeps, ReadKeeps, ReadToEndKeeps DEF CodecNext

-----------------------------------------------------------------------------
(* Base64: the letters of n bytes, counted, are those expected. *)

\* The letters computed for a number are those the reference definition gives.
LEMMA LettersAre == \A n \in Nat : Letters(n) = ExpectedLetters(n)
  <1> DEFINE G(n) == {i \in 0..(n - 1) : i % 3 = 0}
             T == {n \in Nat : IsFiniteSet(G(n)) /\ Cardinality(G(n)) = (n + 2) \div 3}
  <1>1. 0 \in T
    <2>1. G(0) = {}
      OBVIOUS
    <2>2. (0 + 2) \div 3 = 0
      OBVIOUS
    <2> QED BY <2>1, <2>2, FS_EmptySet
  <1>2. ASSUME NEW n \in T PROVE n + 1 \in T
    <2>1. n \in Nat /\ IsFiniteSet(G(n)) /\ Cardinality(G(n)) = (n + 2) \div 3
      OBVIOUS
    <2>2. CASE n % 3 = 0
      <3>1. G(n + 1) = G(n) \cup {n} /\ n \notin G(n)
        BY <2>1, <2>2
      <3>2. (n + 1 + 2) \div 3 = (n + 2) \div 3 + 1
        BY <2>1, <2>2
      <3> HIDE DEF G
      <3>3. IsFiniteSet(G(n) \cup {n}) /\ Cardinality(G(n) \cup {n}) = Cardinality(G(n)) + 1
        BY <2>1, <3>1, FS_AddElement
      <3>4. IsFiniteSet(G(n + 1))
        BY <3>1, <3>3
      <3>5. Cardinality(G(n + 1)) = (n + 1 + 2) \div 3
        BY <2>1, <3>1, <3>2, <3>3
      <3> QED BY <2>1, <3>4, <3>5
    <2>3. CASE n % 3 # 0
      <3>1. G(n + 1) = G(n)
        BY <2>1, <2>3
      <3>2. (n + 1 + 2) \div 3 = (n + 2) \div 3
        BY <2>1, <2>3
      <3> HIDE DEF G
      <3> QED BY <2>1, <3>1, <3>2
    <2> QED BY <2>2, <2>3
  <1> HIDE DEF T
  <1>3. T = Nat
    BY <1>1, <1>2, NatSets DEF T
  <1>4. ASSUME NEW n \in Nat PROVE Letters(n) = ExpectedLetters(n)
    <2>1. Cardinality(G(n)) = (n + 2) \div 3
      BY <1>3 DEF T
    <2>2. Letters(n) = 4 * ((n + 2) \div 3)
      BY <2>1 DEF Letters
    <2>3. (n + 2) \div 3 \in Nat
      OBVIOUS
    <2> QED BY <2>2, <2>3 DEF ExpectedLetters
  <1> QED BY <1>4

\* An image of any size within the limit arrives as it was sent.
LEMMA ImagesTravel == EveryImageTravels
  <1> SUFFICES ASSUME NEW w \in 1..MaxRgba, NEW h \in 1..MaxRgba, 4 * w * h <= MaxRgba
               PROVE  Encodable([kind |-> "Image", origin |-> "fits", sequence |-> 1, lamport |-> 1, width |-> w, height |-> h])
    BY DEF EveryImageTravels
  <1> DEFINE f == [kind |-> "Image", origin |-> "fits", sequence |-> 1, lamport |-> 1, width |-> w, height |-> h]
  <1>1. f.kind = "Image" /\ f.origin = "fits" /\ f.sequence = 1 /\ f.lamport = 1 /\ f.width = w /\ f.height = h
    OBVIOUS
  <1> HIDE DEF f
  <1>2. w \in Nat \ {0} /\ h \in Nat \ {0}
    BY CodecFacts
  <1>3. w * h * 4 = 4 * w * h /\ w * h * 4 \in Nat
    BY <1>2
  <1>4. w * h * 4 <= MaxRgba
    BY <1>3
  <1>5. Letters(w * h * 4) = ExpectedLetters(w * h * 4)
    BY <1>3, LettersAre
  <1>6. ValidImage(f)
    BY <1>1, <1>2, <1>4, <1>5 DEF ValidImage, TextFits
  <1>7. Valid(f)
    BY <1>1, <1>6 DEF Valid
  <1>8. Size(f) = MaxFrame
    BY <1>1 DEF Size
  <1>9. Encodable(f)
    BY <1>7, <1>8, CodecFacts DEF Encodable
  <1> QED BY <1>9 DEF f

\* Taken together they are what the decoder promises.
LEMMA CodecPromises == CodecInv => DecoderInv
  <1> SUFFICES ASSUME CodecInv PROVE DecoderInv
    OBVIOUS
  <1>1. WirePart /\ StreamPart /\ EndPart /\ SpeaksItself
    BY DEF CodecInv
  <1>2. Len(written) \in Nat
    BY <1>1, WrittenIs
  <1>3. FramesInOrder
    <2> SUFFICES ASSUME ~Piecewise PROVE IsPrefix(obeyed, FramesWritten)
      BY DEF FramesInOrder
    <2>1. Len(obeyed) \in 0..Len(written) /\ obeyed = Beginning(Len(obeyed), written)
      BY <1>1 DEF StreamPart
    <2>2. Len(FramesWritten) = Len(written) /\ \A k \in 1..Len(written) : FramesWritten[k] = written[k].frame
      BY <1>2 DEF FramesWritten
    <2>3. \A k \in 1..Len(obeyed) : obeyed[k] = written[k].frame
      BY <2>1 DEF Beginning
    <2> QED BY <1>2, <2>1, <2>2, <2>3 DEF IsPrefix
  <1>4. NothingHeldBack
    <2> SUFFICES ASSUME ~Piecewise, outcome = "open" PROVE Len(obeyed) = WholeIn(read)
      BY DEF NothingHeldBack
    <2>1. Decoding(Before, Len(obeyed), written, read) /\ Len(obeyed) \in Nat /\ read \in Nat
          /\ read <= Marks(written, LengthBytes)[Len(written)]
      BY <1>1, <1>2 DEF StreamPart, WirePart
    <2>2. Before.at = Len(obeyed) + 1
      BY DEF Before, Awaiting
    <2>3. WholeWithin(read) = Len(obeyed)
      BY <1>1, <2>1, <2>2, StandsRight
    <2> QED BY <2>3, StreamWords
  <1>5. EndIsTold
    BY <1>1, StreamWords DEF EndPart, EndIsTold
  <1> QED BY <1>1, <1>3, <1>4, <1>5, ImagesTravel DEF DecoderInv

(***************************************************************************)
(* However the bytes of a stream are cut into chunks, and wherever it      *)
(* ends, what push and the readers hand on is a beginning of the frames    *)
(* written, every frame that is whole and no other; this version's readers *)
(* refuse none of its own frames; and an image of any size within the      *)
(* limit passes the length check.  For any lengths, limits and frames.     *)
(***************************************************************************)
THEOREM StreamsAreReadWhole == CodecSpec => []DecoderInv
  <1>1. CodecSpec => []CodecInv
    BY CodecStarts, CodecStep, PTL DEF CodecSpec
  <1> QED BY <1>1, CodecPromises, PTL
=============================================================================
