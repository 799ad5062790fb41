----------------------------- MODULE InputStream -----------------------------
(* One critical input stream from end to end: InputHandle with its frame and  *)
(* byte budget, the writer run_outbound_input, the byte stream of QUIC, and    *)
(* run_inbound_input_stream with the CriticalDecoder of protocol_v2.rs.        *)
(*                                                                             *)
(* A frame stands for its encoding: a prefix of PrefixBytes bytes that says how *)
(* many payload bytes follow.  The wire carries bytes and cuts them anywhere.  *)
EXTENDS Naturals, Sequences

CONSTANTS
    Sizes,         \* payload bytes of a frame
    MaxSends,      \* frames the controller hands over
    QueueFrames,   \* INPUT_QUEUE_FRAMES
    QueueBytes,    \* INPUT_QUEUE_BYTES
    PrefixBytes,   \* 4 in the code
    ChunkBytes     \* the most that read_chunk returns, 4096 in the code

ASSUME StreamBounds ==
    /\ Sizes \subseteq Nat \ {0} /\ MaxSends \in Nat
    /\ {QueueFrames, QueueBytes, PrefixBytes, ChunkBytes} \subseteq Nat \ {0}

VARIABLES
    handle,     \* "open", "reserved" inside try_send, or "dropped"
    size,       \* the frame inside try_send
    sends,      \* calls of try_send so far
    budget,     \* the shared byte counter
    queue,      \* the bounded channel of QueuedInput
    writer,     \* "recv", "writing", "ended"
    writing,    \* bytes of the frame the writer holds that are not yet written
    wire,       \* bytes written and not yet read
    fin,        \* the writer finished the stream
    link,       \* the connection: "up" or "lost"
    decoder,    \* bytes of the frame being decoded
    reader,     \* "reading", or how the stream was reported closed
    accepted,   \* history: the frames try_send accepted
    delivered   \* history: the frames on_input was called with

streamVars == <<handle, size, sends, budget, queue, writer, writing, wire, fin, link, decoder, reader,
          accepted, delivered>>
sendVars == <<handle, size, sends, budget, queue, accepted>>
writeVars == <<writer, writing, fin>>
readVars == <<decoder, reader, delivered>>

(* Bytes: <<id, i>> is byte i of the id-th accepted frame; its first byte also *)
(* gives away the length, which the decoder must not use before it has the     *)
(* whole prefix.                                                               *)
Encoded(id, n) == [i \in 1..(PrefixBytes + n) |-> [id |-> id, at |-> i, payload |-> n]]
Cost(n) == PrefixBytes + n

StreamTypeOK ==
    /\ handle \in {"open", "reserved", "dropped"} /\ size \in Sizes \cup {0} /\ sends \in 0..MaxSends
    /\ budget \in 0..QueueBytes
    /\ \A i \in 1..Len(queue) : queue[i].id \in 1..MaxSends /\ queue[i].size \in Sizes
    /\ Len(queue) <= QueueFrames
    /\ writer \in {"recv", "writing", "ended"} /\ fin \in BOOLEAN /\ link \in {"up", "lost"}
    /\ reader \in {"reading", "clean", "broken"}
    /\ accepted \in Seq(Sizes) /\ delivered \in Seq(1..MaxSends)

StreamInit ==
    /\ handle = "open" /\ size = 0 /\ sends = 0 /\ budget = 0 /\ queue = <<>>
    /\ writer = "recv" /\ writing = <<>> /\ wire = <<>> /\ fin = FALSE /\ link = "up"
    /\ decoder = <<>> /\ reader = "reading"
    /\ accepted = <<>> /\ delivered = <<>>

-----------------------------------------------------------------------------
(* InputHandle.                                                              *)

WithinBudget(n) == budget + Cost(n) <= QueueBytes

\* reserve_input_bytes: a frame over the byte budget is refused.
ReserveBytes(n) ==
    /\ handle = "open" /\ sends < MaxSends
    /\ sends' = sends + 1
    /\ IF WithinBudget(n)
       THEN handle' = "reserved" /\ size' = n /\ budget' = budget + Cost(n)
       ELSE UNCHANGED <<handle, size, budget>>
    /\ UNCHANGED <<queue, accepted, writeVars, wire, link, readVars>>

\* Fault: a refused frame keeps its bytes.
KeptAfterRefusal(n) == IF n \in Sizes THEN budget ELSE 0

GivenBack(n) == budget - Cost(n)

\* The channel is full or closed: the refused QueuedInput is dropped and gives
\* its bytes back.
Push ==
    /\ handle = "reserved"
    /\ handle' = "open" /\ size' = 0
    /\ IF Len(queue) < QueueFrames /\ writer # "ended"
       THEN /\ accepted' = Append(accepted, size)
            /\ queue' = Append(queue, [id |-> Len(accepted) + 1, size |-> size])
            /\ UNCHANGED budget
       ELSE budget' = GivenBack(size) /\ UNCHANGED <<queue, accepted>>
    /\ UNCHANGED <<sends, writeVars, wire, link, readVars>>

DropHandle ==
    /\ handle = "open" /\ handle' = "dropped"
    /\ UNCHANGED <<size, sends, budget, queue, accepted, writeVars, wire, link, readVars>>

-----------------------------------------------------------------------------
(* run_outbound_input.                                                       *)

TakeFrame ==
    /\ writer = "recv" /\ queue # <<>>
    /\ queue' = Tail(queue)
    /\ writer' = "writing" /\ writing' = Encoded(Head(queue).id, Head(queue).size)
    /\ UNCHANGED <<handle, size, sends, budget, accepted, fin, wire, link, readVars>>

\* write_all goes on while flow control lets it; QueuedInput lives until it returns.
WriteBytes(k) ==
    /\ writer = "writing" /\ link = "up" /\ reader = "reading" /\ k \in 1..Len(writing)
    /\ wire' = wire \o SubSeq(writing, 1, k)
    /\ writing' = SubSeq(writing, k + 1, Len(writing))
    /\ IF k = Len(writing)
       THEN writer' = "recv" /\ budget' = budget - Cost(writing[1].payload)
       ELSE UNCHANGED <<writer, budget>>
    /\ UNCHANGED <<handle, size, sends, queue, accepted, fin, link, readVars>>

\* The task is over: its receiver drops what is queued, each with its bytes.
EndWriter ==
    /\ writer' = "ended" /\ queue' = <<>> /\ writing' = <<>>
    /\ budget' = IF handle = "reserved" THEN Cost(size) ELSE 0
    /\ UNCHANGED <<handle, size, sends, accepted, wire, link, readVars>>

\* Fault: the task keeps a sender of its own queue, as the control stream does.
LastSenderGoneNever == FALSE

LastSenderGone == handle = "dropped"

\* Fault: what is still queued when the last sender goes is abandoned.
QueueAbandoned == Len(queue) <= QueueFrames

QueueEmptied == queue = <<>>

\* The last sender is gone and the queue is empty: finish.
FinishStream ==
    /\ writer = "recv" /\ QueueEmptied /\ LastSenderGone
    /\ fin' = (link = "up")
    /\ EndWriter

\* A write fails: the connection is lost, or the reader stopped.
WriteFails ==
    /\ writer = "writing" /\ (link = "lost" \/ reader # "reading")
    /\ UNCHANGED fin
    /\ EndWriter

-----------------------------------------------------------------------------
(* run_inbound_input_stream.                                                 *)

Complete(bytes) == Len(bytes) > PrefixBytes /\ Len(bytes) = PrefixBytes + bytes[1].payload

\* CriticalDecoder::push, one byte: a frame is complete when the length in its
\* prefix has been reached, and the decoder is reset.
Push1(d, b) ==
    LET bytes == Append(d.bytes, b)
    IN IF Complete(bytes) THEN [bytes |-> <<>>, frames |-> Append(d.frames, bytes[1].id)]
                   ELSE [bytes |-> bytes, frames |-> d.frames]
Decode(bytes, chunk) ==
    LET after[i \in 0..Len(chunk)] ==
            IF i = 0 THEN [bytes |-> bytes, frames |-> <<>>] ELSE Push1(after[i - 1], chunk[i])
    IN after[Len(chunk)]

\* A chunk is decoded whole, then its frames go to on_input one by one until one
\* is refused.
ReadChunk(k) ==
    /\ reader = "reading" /\ link = "up" /\ k \in 1..Len(wire) /\ k <= ChunkBytes
    /\ LET d == Decode(decoder, SubSeq(wire, 1, k)) IN
        /\ decoder' = d.bytes
        /\ wire' = SubSeq(wire, k + 1, Len(wire))
        /\ \/ delivered' = delivered \o d.frames /\ UNCHANGED reader
           \/ \E n \in 1..Len(d.frames) :
                /\ delivered' = delivered \o SubSeq(d.frames, 1, n)
                /\ reader' = "broken"
    /\ UNCHANGED <<sendVars, writeVars, link>>

\* The end of the stream, clean unless a frame is cut off.
ReadEnd ==
    /\ reader = "reading" /\ link = "up" /\ wire = <<>> /\ fin
    /\ reader' = IF decoder = <<>> THEN "clean" ELSE "broken"
    /\ UNCHANGED <<sendVars, writeVars, wire, link, decoder, delivered>>

\* The writer's stream was dropped without finish, or the connection is gone.
ReadInputFails ==
    /\ reader = "reading" /\ (link = "lost" \/ (writer = "ended" /\ ~fin))
    /\ reader' = "broken"
    /\ UNCHANGED <<sendVars, writeVars, wire, link, decoder, delivered>>

LoseConnection ==
    /\ link = "up" /\ link' = "lost"
    /\ UNCHANGED <<sendVars, writeVars, wire, readVars>>

StreamNext ==
    \/ \E n \in Sizes : ReserveBytes(n)
    \/ Push \/ DropHandle \/ TakeFrame \/ FinishStream \/ WriteFails \/ ReadEnd \/ ReadInputFails \/ LoseConnection
    \/ \E k \in 1..Len(writing) : WriteBytes(k)
    \/ \E k \in 1..Len(wire) : ReadChunk(k)

(* The two tasks and a call in progress go on.                                *)
Writing == TakeFrame \/ FinishStream \/ WriteFails \/ \E k \in 1..Len(writing) : WriteBytes(k)
Reading == ReadEnd \/ ReadInputFails \/ \E k \in 1..Len(wire) : ReadChunk(k)
StreamFairness == WF_streamVars(Push) /\ WF_streamVars(Writing) /\ WF_streamVars(Reading)
StreamSpec == StreamInit /\ [][StreamNext]_streamVars /\ StreamFairness

-----------------------------------------------------------------------------
(* Properties.                                                               *)

\* The bytes reserved for the frames of a queue.
QueuedBytes(q) ==
    LET sum[i \in 0..Len(q)] == IF i = 0 THEN 0 ELSE sum[i - 1] + Cost(q[i].size)
    IN sum[Len(q)]

\* The counter is the bytes of the frames that exist: a refused, lost or unsent
\* frame gives its bytes back, so the budget neither leaks nor runs below zero.
InputBudgetExact ==
    budget = QueuedBytes(queue)
             + (IF handle = "reserved" THEN Cost(size) ELSE 0)
             + (IF writer = "writing" THEN Cost(writing[1].payload) ELSE 0)

\* However the bytes are cut, the receiver handles a prefix of what was accepted,
\* and a close reported as clean means that nothing is missing.
Channel == INSTANCE InputChannel WITH
    Frames <- Sizes, accepted <- accepted, delivered <- Len(delivered),
    closed <- IF reader = "reading" THEN "no" ELSE reader
PrefixInOrder == \A i \in 1..Len(delivered) : delivered[i] = i
ImplementsChannel == Channel!ChanSpec

\* Bytes and frames on the way from try_send to on_input.
InputInv == StreamTypeOK /\ InputBudgetExact /\ PrefixInOrder

\* Once the handle is gone or the connection is lost, the close is reported: the
\* receiver does not hold keys for a controller that will never release them.
CloseReported == handle = "dropped" \/ link = "lost" ~> reader # "reading"
=============================================================================
