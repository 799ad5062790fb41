----------------------------- MODULE BulkStreams -----------------------------
(* Clipboard, file and pairing payloads: send_stream_expect_ack, the stream    *)
(* task, the generic branch of spawn_stream_reader, and BulkMemoryBudget, one  *)
(* per machine, out of which payloads to send, payloads being encoded and the   *)
(* worst case of a payload being received are reserved.                         *)
EXTENDS Naturals, FiniteSets, FiniteSetsExt

CONSTANTS
    Hosts,         \* the machines
    Sends,         \* the payloads that are sent
    From(_),       \* the machine that sends it
    To(_),         \* the machine it is sent to
    Bytes(_),      \* its size
    Pairing(_),    \* it goes over a connection that is not authenticated
    Limit,         \* MAX_BULK_MEMORY_BYTES
    Inbound,       \* INBOUND_BULK_RESERVATION_BYTES
    EncodeBytes,   \* what an encoder reserves
    StreamSlots,   \* MAX_CONCURRENT_STREAMS
    InboundSlots   \* MAX_INBOUND_STREAMS

ASSUME BulkBounds ==
    /\ {Limit, Inbound, EncodeBytes, StreamSlots, InboundSlots} \subseteq Nat \ {0}
    /\ 2 * Inbound > Limit
    /\ IsFiniteSet(Sends) /\ \A x \in Sends : Bytes(x) \in Nat \ {0} /\ {From(x), To(x)} \subseteq Hosts

VARIABLES
    used,      \* BulkMemoryBudget.used
    encoding,  \* machines inside with_bulk_memory_budget
    call,      \* what the caller of send_stream_expect_ack has seen of each payload
    task,      \* the stream task: no task, queued, writing, awaiting the ack, over
    inbound,   \* the stream at the other end
    handled,   \* what on_stream did with the payload
    ack,       \* what the stream carries back
    conns      \* pairs of machines whose connection was closed after a pairing

bulkVars == <<used, encoding, call, task, inbound, handled, ack, conns>>

InboundTasks == {"preface", "reading", "handling", "acking", "closing"}

BulkTypeOK ==
    /\ used \in [Hosts -> 0..Limit] /\ encoding \subseteq Hosts
    /\ call \in [Sends -> {"idle", "waiting", "refused", "ok", "rejected", "failed", "timeout"}]
    /\ task \in [Sends -> {"none", "queued", "writing", "awaiting", "over"}]
    /\ inbound \in [Sends -> InboundTasks \cup {"none", "over"}]
    /\ handled \in [Sends -> {"no", "accepted", "refused"}]
    /\ ack \in [Sends -> {"nothing", "ok", "reject", "empty", "reset"}]
    /\ conns \subseteq Hosts \X Hosts

BulkInit ==
    /\ used = [h \in Hosts |-> 0] /\ encoding = {}
    /\ call = [x \in Sends |-> "idle"] /\ task = [x \in Sends |-> "none"]
    /\ inbound = [x \in Sends |-> "none"] /\ handled = [x \in Sends |-> "no"]
    /\ ack = [x \in Sends |-> "nothing"] /\ conns = {}

-----------------------------------------------------------------------------
Fits(h, n) == used[h] + n <= Limit
Reserve(h, n) == used' = [used EXCEPT ![h] = @ + n]
Release(h, n) == used' = [used EXCEPT ![h] = @ - n]

Sending(h) == {x \in Sends : From(x) = h /\ task[x] \in {"writing", "awaiting"}}
Receiving(h) == {x \in Sends : To(x) = h /\ inbound[x] \in InboundTasks}
Closed(x) == Pairing(x) /\ <<From(x), To(x)>> \in conns

-----------------------------------------------------------------------------
(* The sending machine.                                                      *)

\* The payload is reserved before it is queued, or the call is refused.
Call(x) ==
    /\ call[x] = "idle"
    /\ IF Fits(From(x), Bytes(x))
       THEN /\ Reserve(From(x), Bytes(x))
            /\ call' = [call EXCEPT ![x] = "waiting"] /\ task' = [task EXCEPT ![x] = "queued"]
       ELSE call' = [call EXCEPT ![x] = "refused"] /\ UNCHANGED <<used, task>>
    /\ UNCHANGED <<encoding, inbound, handled, ack, conns>>

\* Fault: the reservation goes with the caller.
UsedAfterGiveUpFreed(x) == [used EXCEPT ![From(x)] = @ - Bytes(x)]

UsedAfterGiveUp(x) == used

\* The caller gives up after five seconds; the task goes on without it.
GiveUp(x) ==
    /\ call[x] = "waiting" /\ call' = [call EXCEPT ![x] = "timeout"]
    /\ used' = UsedAfterGiveUp(x)
    /\ UNCHANGED <<encoding, task, inbound, handled, ack, conns>>

ReservedFor(x) == Bytes(x)

\* The result reaches a caller that still waits; the reservation goes with the task.
Result(x, r) ==
    /\ call' = [call EXCEPT ![x] = IF @ = "waiting" THEN r ELSE @]
    /\ task' = [task EXCEPT ![x] = "over"]
    /\ Release(From(x), ReservedFor(x))

\* The command loop: a permit, or the answer that too many streams are in flight.
StartTask(x) ==
    /\ task[x] = "queued"
    /\ IF Cardinality(Sending(From(x))) < StreamSlots
       THEN task' = [task EXCEPT ![x] = "writing"] /\ UNCHANGED <<call, used>>
       ELSE Result(x, "refused")
    /\ UNCHANGED <<encoding, inbound, handled, ack, conns>>

\* The stream opens at the other machine, which may have no slot for it.
OpenStream(x) ==
    /\ task[x] = "writing" /\ inbound[x] = "none" /\ ~Closed(x)
    /\ IF Cardinality(Receiving(To(x))) < InboundSlots
       THEN inbound' = [inbound EXCEPT ![x] = "preface"] /\ UNCHANGED ack
       ELSE inbound' = [inbound EXCEPT ![x] = "over"] /\ ack' = [ack EXCEPT ![x] = "empty"]
    /\ UNCHANGED <<used, encoding, call, task, handled, conns>>

FinishWrite(x) ==
    /\ task[x] = "writing" /\ inbound[x] \in {"reading", "over"}
    /\ task' = [task EXCEPT ![x] = "awaiting"]
    /\ UNCHANGED <<used, encoding, call, inbound, handled, ack, conns>>

Means(a) == IF a = "ok" THEN "ok" ELSE "rejected"

\* verify_stream_ack.
ReadAck(x) ==
    /\ task[x] = "awaiting" /\ ack[x] \in {"ok", "reject", "empty"}
    /\ Result(x, Means(ack[x]))
    /\ UNCHANGED <<encoding, inbound, handled, ack, conns>>

\* The connection breaks or closes at any point, or the ack is later than 500 ms.
TaskFails(x) ==
    /\ task[x] \in {"writing", "awaiting"}
    /\ Result(x, "failed")
    /\ ack' = [ack EXCEPT ![x] = "reset"]
    /\ UNCHANGED <<encoding, inbound, handled, conns>>

-----------------------------------------------------------------------------
(* The receiving machine.                                                    *)

Peak(x) == Inbound

\* The worst case is reserved before the payload is read.
ReservePeak(x) ==
    /\ inbound[x] = "preface"
    /\ IF Fits(To(x), Peak(x))
       THEN Reserve(To(x), Peak(x)) /\ inbound' = [inbound EXCEPT ![x] = "reading"] /\ UNCHANGED ack
       ELSE /\ inbound' = [inbound EXCEPT ![x] = "over"]
            /\ ack' = [ack EXCEPT ![x] = IF @ = "reset" THEN @ ELSE "empty"]
            /\ UNCHANGED used
    /\ UNCHANGED <<encoding, call, task, handled, conns>>

EndInbound(x) ==
    /\ inbound' = [inbound EXCEPT ![x] = "over"]
    /\ Release(To(x), Peak(x))

\* read_to_end has the whole payload once it was written and finished.
ReadPayload(x) ==
    /\ inbound[x] = "reading" /\ task[x] \in {"awaiting", "over"} /\ ack[x] = "nothing"
    /\ inbound' = [inbound EXCEPT ![x] = "handling"]
    /\ UNCHANGED <<used, encoding, call, task, handled, ack, conns>>

ReadBulkFails(x) ==
    /\ inbound[x] = "reading" /\ ack[x] = "reset"
    /\ EndInbound(x)
    /\ UNCHANGED <<encoding, call, task, handled, ack, conns>>

\* on_stream in a blocking thread; nothing of it is undone if the sender has gone.
Handle(x) ==
    /\ inbound[x] = "handling"
    /\ \E r \in {"accepted", "refused"} : handled' = [handled EXCEPT ![x] = r]
    /\ inbound' = [inbound EXCEPT ![x] = "acking"]
    /\ UNCHANGED <<used, encoding, call, task, ack, conns>>

\* The ack is written; after a pairing the connection stays until it was read.
WriteAck(x) ==
    /\ inbound[x] = "acking"
    /\ IF ack[x] = "reset" THEN EndInbound(x) /\ UNCHANGED ack
       ELSE /\ ack' = [ack EXCEPT ![x] = IF handled[x] = "accepted" THEN "ok" ELSE "reject"]
            /\ IF handled[x] = "accepted" /\ Pairing(x)
               THEN inbound' = [inbound EXCEPT ![x] = "closing"] /\ UNCHANGED used
               ELSE EndInbound(x)
    /\ UNCHANGED <<encoding, call, task, handled, conns>>

\* send.stopped(), or 500 ms; then every stream of the connection is gone.
CloseConnection(x) ==
    /\ inbound[x] = "closing"
    /\ EndInbound(x)
    /\ conns' = conns \cup {<<From(x), To(x)>>}
    /\ ack' = [y \in Sends |-> IF Pairing(y) /\ From(y) = From(x) /\ To(y) = To(x) /\ task[y] # "over"
                              THEN "reset" ELSE ack[y]]
    /\ UNCHANGED <<encoding, call, task, handled>>

-----------------------------------------------------------------------------
(* with_bulk_memory_budget: the clipboard thread encodes a payload.          *)
StartEncoding(h) ==
    /\ h \notin encoding /\ Fits(h, EncodeBytes)
    /\ Reserve(h, EncodeBytes) /\ encoding' = encoding \cup {h}
    /\ UNCHANGED <<call, task, inbound, handled, ack, conns>>

EndEncoding(h) ==
    /\ h \in encoding /\ encoding' = encoding \ {h}
    /\ Release(h, EncodeBytes)
    /\ UNCHANGED <<call, task, inbound, handled, ack, conns>>

SendStep(x) == StartTask(x) \/ OpenStream(x) \/ FinishWrite(x) \/ ReadAck(x) \/ TaskFails(x)
ReceiveStep(x) ==
    ReservePeak(x) \/ ReadPayload(x) \/ ReadBulkFails(x) \/ Handle(x) \/ WriteAck(x) \/ CloseConnection(x)

BulkNext ==
    \/ \E x \in Sends : Call(x) \/ GiveUp(x) \/ SendStep(x) \/ ReceiveStep(x)
    \/ \E h \in Hosts : StartEncoding(h) \/ EndEncoding(h)

(* Tasks and handlers go on; an encoder ends.                                 *)
BulkFairness ==
    /\ \A x \in Sends : WF_bulkVars(SendStep(x)) /\ WF_bulkVars(ReceiveStep(x))
    /\ \A h \in Hosts : WF_bulkVars(EndEncoding(h))
BulkSpec == BulkInit /\ [][BulkNext]_bulkVars /\ BulkFairness

-----------------------------------------------------------------------------
(* Properties.                                                               *)

\* Bytes that somebody on h still holds.
HeldBytes(h) ==
    LET out == {x \in Sends : From(x) = h /\ task[x] \in {"queued", "writing", "awaiting"}}
        peak == {x \in Sends : To(x) = h /\ inbound[x] \in InboundTasks \ {"preface"}}
    IN MapThenSumSet(Bytes, out) + Inbound * Cardinality(peak) + (IF h \in encoding THEN EncodeBytes ELSE 0)

\* "The permit is released on success, error and timeout": the counter is the
\* bytes held, whatever ended first, and a task whose caller has given up keeps
\* its bytes until it is over.
BulkBudgetExact == \A h \in Hosts : used[h] = HeldBytes(h)

\* "Only one large bulk payload is decoded at a time" on a machine.
OneDecoding == \A h \in Hosts : Cardinality({x \in Receiving(h) : inbound[x] # "preface"}) <= 1

\* What the caller is told about the payload is what became of it: "ok" means
\* that it was handled and accepted; a refusal before it left, that it was not
\* handled; only a failure or a timeout leaves it open.
AnswerHonest ==
    \A x \in Sends :
        /\ call[x] = "ok" => handled[x] = "accepted"
        /\ call[x] = "refused" => handled[x] = "no"
        /\ call[x] = "rejected" => handled[x] # "accepted"

\* Whatever ends first, caller, task, stream or connection: bytes, permits and
\* answers stay right.
BulkInv == BulkTypeOK /\ BulkBudgetExact /\ OneDecoding /\ AnswerHonest

\* All bytes come back: a payload, accepted or not, leaves no reservation.
BytesReturn == \A h \in Hosts : used[h] > 0 ~> used[h] = 0
=============================================================================
