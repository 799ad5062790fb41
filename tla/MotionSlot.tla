------------------------------ MODULE MotionSlot ------------------------------
(* The latest-wins motion slot of quic_transport.rs: MotionHandle on the      *)
(* thread of the controller client, flush_motion_nonblocking in the command   *)
(* loop.  Both sides work on the slot's mutex and its two atomics without a    *)
(* common lock: a step is one access.  What send_datagram_nonblocking does     *)
(* with a position is Transport.tla; here it is sent, or dropped.              *)
EXTENDS Naturals, Sequences

CONSTANTS
    Slots,       \* the motion handles opened one after the other
    MaxFrames,   \* positions per slot
    NoPosition         \* no position

ASSUME SlotBounds == Slots \in Nat \ {0} /\ MaxFrames \in Nat /\ NoPosition \notin Nat

VARIABLES
    flushes,      \* FlushMotion commands, in order
    loop,       \* where the loop is, with which slot and position
    motion,     \* the slot of the motion the client holds, and where its call is
    latest,     \* MotionSlot.latest
    scheduled,  \* MotionSlot.scheduled
    closed,     \* MotionSlot.closed
    stored,     \* positions stored so far; they are numbered from 1
    sent        \* the newest position handed to quinn

slotFields == <<latest, scheduled, closed, stored>>
slotVars == <<flushes, loop, motion, slotFields, sent>>

SlotIds == 1..Slots
Positions == 1..MaxFrames

SlotTypeOK ==
    /\ flushes \in Seq(SlotIds)
    /\ loop \in [at : {"recv", "take", "send", "unschedule", "recheck", "swap", "enqueue"},
                 slot : SlotIds, frame : Positions \cup {NoPosition}]
    /\ motion \in [slot : 0..Slots, at : {"none", "idle", "stored", "enqueue", "dropping"}]
    /\ latest \in [SlotIds -> Positions \cup {NoPosition}]
    /\ scheduled \in [SlotIds -> BOOLEAN] /\ closed \in [SlotIds -> BOOLEAN]
    /\ stored \in [SlotIds -> 0..MaxFrames] /\ sent \in [SlotIds -> 0..MaxFrames]

SlotInit ==
    /\ flushes = <<>> /\ loop = [at |-> "recv", slot |-> 1, frame |-> NoPosition]
    /\ motion = [slot |-> 0, at |-> "none"]
    /\ latest = [s \in SlotIds |-> NoPosition]
    /\ scheduled = [s \in SlotIds |-> FALSE] /\ closed = [s \in SlotIds |-> FALSE]
    /\ stored = [s \in SlotIds |-> 0] /\ sent = [s \in SlotIds |-> 0]

-----------------------------------------------------------------------------
(* MotionHandle.                                                             *)
Own == motion.slot
HandleAt(at) == motion.at = at /\ UNCHANGED <<loop, sent>>

\* open_motion of the next session.
OpenMotion ==
    /\ HandleAt("none") /\ Own < Slots
    /\ motion' = [slot |-> Own + 1, at |-> "idle"]
    /\ UNCHANGED <<flushes, slotFields>>

\* try_send: the position replaces one that has not left.
StorePosition ==
    /\ HandleAt("idle") /\ stored[Own] < MaxFrames
    /\ stored' = [stored EXCEPT ![Own] = @ + 1]
    /\ latest' = [latest EXCEPT ![Own] = stored[Own] + 1]
    /\ motion' = [motion EXCEPT !.at = "stored"]
    /\ UNCHANGED <<flushes, scheduled, closed>>

MustQueue(s) == ~scheduled[s]

\* schedule_motion: only the thread that sets the bit queues a flush.
Schedule ==
    /\ HandleAt("stored")
    /\ motion' = [motion EXCEPT !.at = IF MustQueue(Own) THEN "enqueue" ELSE "idle"]
    /\ scheduled' = [scheduled EXCEPT ![Own] = TRUE]
    /\ UNCHANGED <<flushes, latest, closed, stored>>

QueueFlush ==
    /\ HandleAt("enqueue")
    /\ flushes' = Append(flushes, Own) /\ motion' = [motion EXCEPT !.at = "idle"]
    /\ UNCHANGED slotFields

\* Drop: the slot is closed, then emptied.
CloseMotion ==
    /\ HandleAt("idle")
    /\ closed' = [closed EXCEPT ![Own] = TRUE] /\ motion' = [motion EXCEPT !.at = "dropping"]
    /\ UNCHANGED <<flushes, latest, scheduled, stored>>

EmptyMotion ==
    /\ HandleAt("dropping")
    /\ latest' = [latest EXCEPT ![Own] = NoPosition] /\ motion' = [motion EXCEPT !.at = "none"]
    /\ UNCHANGED <<flushes, scheduled, closed, stored>>

-----------------------------------------------------------------------------
(* flush_motion_nonblocking.                                                 *)
Cur == loop.slot
LoopAt(at) == loop.at = at /\ UNCHANGED <<motion, stored, closed>>
LoopTo(at) == loop' = [loop EXCEPT !.at = at]

RecvFlush ==
    /\ LoopAt("recv") /\ flushes # <<>>
    /\ flushes' = Tail(flushes)
    /\ LET s == Head(flushes) IN
        IF closed[s] THEN scheduled' = [scheduled EXCEPT ![s] = FALSE] /\ UNCHANGED loop
        ELSE loop' = [at |-> "take", slot |-> s, frame |-> NoPosition] /\ UNCHANGED scheduled
    /\ UNCHANGED <<latest, sent>>

TakeLatest ==
    /\ LoopAt("take")
    /\ latest' = [latest EXCEPT ![Cur] = NoPosition]
    /\ loop' = [loop EXCEPT !.at = IF latest[Cur] = NoPosition THEN "unschedule" ELSE "send",
                            !.frame = latest[Cur]]
    /\ UNCHANGED <<flushes, scheduled, sent>>

MaySend(s) == ~closed[s]

\* The position is dropped when the slot was closed in between; without a
\* connection it is dropped as well.
SendPosition ==
    /\ LoopAt("send")
    /\ \/ UNCHANGED sent
       \/ MaySend(Cur) /\ sent' = [sent EXCEPT ![Cur] = loop.frame]
    /\ loop' = [loop EXCEPT !.at = "unschedule", !.frame = NoPosition]
    /\ UNCHANGED <<flushes, latest, scheduled>>

Unschedule ==
    /\ LoopAt("unschedule")
    /\ scheduled' = [scheduled EXCEPT ![Cur] = FALSE] /\ LoopTo("recheck")
    /\ UNCHANGED <<flushes, latest, sent>>

\* Fault: the slot is left once the bit is clear.
HasNewerNever(s) == s \notin SlotIds

HasNewer(s) == latest[s] # NoPosition /\ ~closed[s]

\* has_newer, with the checks of closed after it.
Recheck ==
    /\ LoopAt("recheck")
    /\ LoopTo(IF HasNewer(Cur) THEN "swap" ELSE "recv")
    /\ UNCHANGED <<flushes, latest, scheduled, sent>>

Reschedule ==
    /\ LoopAt("swap")
    /\ LoopTo(IF scheduled[Cur] THEN "recv" ELSE "enqueue")
    /\ scheduled' = [scheduled EXCEPT ![Cur] = TRUE]
    /\ UNCHANGED <<flushes, latest, sent>>

RequeueFlush ==
    /\ LoopAt("enqueue")
    /\ flushes' = Append(flushes, Cur) /\ LoopTo("recv")
    /\ UNCHANGED <<latest, scheduled, sent>>

SlotCall == Schedule \/ QueueFlush \/ EmptyMotion
LoopStep ==
    \/ RecvFlush \/ TakeLatest \/ SendPosition \/ Unschedule \/ Recheck \/ Reschedule \/ RequeueFlush
SlotNext == OpenMotion \/ StorePosition \/ CloseMotion \/ SlotCall \/ LoopStep

(* A call in progress and the command loop go on; positions need not come.    *)
SlotFairness == WF_slotVars(SlotCall) /\ WF_slotVars(LoopStep)
SlotSpec == SlotInit /\ [][SlotNext]_slotVars /\ SlotFairness

-----------------------------------------------------------------------------
(* Properties.                                                               *)

\* Who may own the scheduled bit of s: a flush in the queue, the loop on its way
\* to clear it or to queue one, the client about to queue one.
InQueue(s) == \E i \in 1..Len(flushes) : flushes[i] = s
LoopOwns(s) == Cur = s /\ loop.at \in {"take", "send", "unschedule", "enqueue"}
ClientOwns(s) == Own = s /\ motion.at = "enqueue"

\* One flush per slot at a time, whatever the two threads do between the
\* accesses: the queue of the loop does not grow with the rate of the mouse
\* (schedule_motion, flush_motion_nonblocking).
BitHasOneOwner ==
    /\ \A s \in SlotIds :
        /\ scheduled[s] <=> InQueue(s) \/ LoopOwns(s) \/ ClientOwns(s)
        /\ ~(InQueue(s) /\ LoopOwns(s)) /\ ~(InQueue(s) /\ ClientOwns(s))
        /\ ~(LoopOwns(s) /\ ClientOwns(s))
    /\ \A i, j \in 1..Len(flushes) : flushes[i] = flushes[j] => i = j

\* A position stored while a flush runs is not forgotten until the next move: a
\* flush will come, or the loop or the client has still to look.
NotStranded ==
    \A s \in SlotIds :
        latest[s] # NoPosition /\ ~closed[s] =>
            \/ scheduled[s]
            \/ Cur = s /\ loop.at \in {"recheck", "swap"}
            \/ Own = s /\ motion.at = "stored"

\* Positions leave in their order, none twice, and none after the motion is gone
\* but the one the loop had read before.
MovesForward == [][\A s \in SlotIds : sent'[s] # sent[s] => sent'[s] > sent[s] /\ ~closed[s]]_slotVars

\* Every stored position is taken up: the newest one leaves or is dropped.
TakenUp == \A s \in SlotIds : latest[s] # NoPosition ~> latest[s] = NoPosition
=============================================================================
