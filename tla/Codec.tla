-------------------------------- MODULE Codec --------------------------------
(* The wire format of protocol version 2. A frame is validated, put into an    *)
(* envelope and given a length; the reader of a stream takes it apart in the   *)
(* chunks the transport hands it and validates it again. Control frames and    *)
(* input frames travel on streams, motion and clipboard payloads as one piece. *)
EXTENDS Naturals, SequencesExt

CONSTANTS
    LengthBytes,      \* bytes of the length in front of a frame
    MaxFrame,         \* MAX_CONTROL_FRAME_BYTES, MAX_CRITICAL_FRAME_BYTES, ...
    MaxCapabilities,  \* MAX_CAPABILITIES
    MaxRgba,          \* MAX_CLIPBOARD_IMAGE_RGBA_BYTES
    FramesPerWindow,  \* MAX_CONTROL_FRAMES_PER_SECOND
    MaxWritten,       \* bound: frames written
    Seconds           \* bound: seconds that pass

ASSUME CodecBounds ==
    /\ {LengthBytes, MaxFrame, MaxCapabilities, MaxRgba, FramesPerWindow} \subseteq Nat \ {0}
    /\ {MaxWritten, Seconds} \subseteq Nat

VARIABLES
    channel,  \* what the payloads are
    version,  \* the protocol the writer speaks: this one, or another one
    written,  \* the envelopes written, each with its length
    cut,      \* the writer is gone: the bytes that will still arrive, or NoBytes
    read,     \* bytes the reader has taken
    decoding,  \* the decoder's fields
    obeyed,  \* frames given to the handler
    inWindow, \* frames counted in the rate window
    elapsed,  \* a second has passed since the rate window began
    seconds,  \* seconds that have passed
    outcome   \* open, or how the reader ended

codecVars == <<channel, version, written, cut, read, decoding, obeyed, inWindow, elapsed,
               seconds, outcome>>

-----------------------------------------------------------------------------
(* Frames. A text is blank, within its limit or beyond it; a number is zero or *)
(* not; a session has its three parts or lacks one.                            *)
Texts == {"blank", "fits", "long"}
Capability == {"control_v2", "input_v2", "other"}
RequiredCapabilities == {"control_v2", "input_v2"}

ControlFrames ==
    [kind : {"Hello"}, peer_id : Texts, capabilities : SUBSET Capability] \cup
    [kind : {"Prepare", "Ready"}, request_id : 0..1, target_display : Texts, revision : 0..1] \cup
    [kind : {"Commit"}, request_id : 0..1, session : BOOLEAN] \cup
    [kind : {"CommitAck", "Ping", "Pong"}, session : BOOLEAN] \cup
    [kind : {"EndSession"}, session : BOOLEAN, reason : Texts] \cup
    [kind : {"Reject"}, code : Texts, detail : Texts]
CriticalFrames ==
    [kind : {"Key"}, session : BOOLEAN, sequence : 0..1, key_code : 0..1, scan_code : 0..1] \cup
    [kind : {"Button"}, session : BOOLEAN, sequence : 0..1, motion : 0..1] \cup
    [kind : {"Scroll"}, session : BOOLEAN, sequence : 0..1, motion : 0..1, delta : 0..1]
MotionFrames == [kind : {"Motion"}, session : BOOLEAN, display : Texts, revision : 0..1, sequence : 0..1]
TextOperations == [kind : {"Text"}, origin : Texts, sequence : 0..1, lamport : 0..1, text : 0..1]
ImageOperations == [kind : {"Image"}, origin : Texts, sequence : 0..1, lamport : 0..1, width : 0..3, height : 0..3]

FramesOf(c) ==
    CASE c = "control" -> ControlFrames [] c = "input" -> CriticalFrames
      [] c = "motion" -> MotionFrames [] c = "bulk" -> TextOperations \cup ImageOperations

\* Base64 of n bytes: four letters for every three bytes begun.
Letters(n) == 4 * Cardinality({i \in 0..(n - 1) : i % 3 = 0})

ExpectedLetters(raw) == ((raw + 2) \div 3) * 4

TextFits(t) == t = "fits"

ValidCapabilities(caps) == Cardinality(caps) <= MaxCapabilities /\ RequiredCapabilities \subseteq caps

ValidControl(f) ==
    /\ f.kind = "Hello" => TextFits(f.peer_id) /\ ValidCapabilities(f.capabilities)
    /\ f.kind \in {"Prepare", "Ready"} => f.request_id # 0 /\ TextFits(f.target_display) /\ f.revision # 0
    /\ f.kind = "Commit" => f.request_id # 0
    /\ f.kind \in {"Commit", "CommitAck", "Ping", "Pong", "EndSession"} => f.session
    /\ f.kind = "EndSession" => TextFits(f.reason)
    /\ f.kind = "Reject" => TextFits(f.code) /\ TextFits(f.detail)

ValidCritical(f) ==
    /\ f.session /\ f.sequence # 0
    /\ f.kind = "Key" => f.key_code # 0 \/ f.scan_code # 0
    /\ f.kind \in {"Button", "Scroll"} => f.motion # 0
    /\ f.kind = "Scroll" => f.delta # 0

ValidMotion(f) == f.session /\ TextFits(f.display) /\ f.revision # 0 /\ f.sequence # 0

ValidText(f) == TextFits(f.origin) /\ f.sequence # 0 /\ f.lamport # 0 /\ f.text # 0

\* The builder encodes the pixels it has; the letters are checked against the size.
ValidImage(f) ==
    LET raw == f.width * f.height * 4 IN
    /\ TextFits(f.origin) /\ f.sequence # 0 /\ f.lamport # 0
    /\ f.width # 0 /\ f.height # 0 /\ raw <= MaxRgba /\ Letters(raw) = ExpectedLetters(raw)

Valid(f) ==
    CASE f.kind \in {"Key", "Button", "Scroll"} -> ValidCritical(f)
      [] f.kind = "Motion" -> ValidMotion(f)
      [] f.kind = "Text" -> ValidText(f)
      [] f.kind = "Image" -> ValidImage(f)
      [] OTHER -> ValidControl(f)

-----------------------------------------------------------------------------
(* The writer. An envelope carries the length of the frame, whether this       *)
(* version can deserialise it, and the version that wrote it.                   *)
Size(f) == IF f.kind \in {"Hello", "Reject", "Button", "Text", "Image"} THEN MaxFrame ELSE 1

Encodable(f) == Valid(f) /\ Size(f) <= MaxFrame

Envelope(f) == [frame |-> f, length |-> Size(f), readable |-> TRUE, major |-> 2]

\* What another version may put on the wire, in its own limits.
ForeignEnvelopes(c) ==
    LET known == {CHOOSE f \in FramesOf(c) : Valid(f), CHOOSE f \in FramesOf(c) : ~Valid(f)}
    IN [frame : known, length : 0..(MaxFrame + 1), readable : BOOLEAN, major : 1..2]

Piecewise == channel \in {"motion", "bulk"}
StreamBytes(e) == (IF Piecewise THEN 0 ELSE LengthBytes) + e.length
\* ends[k]: where the k-th envelope ends on the wire.
Ends(es) == LET f[k \in 0..Len(es)] == IF k = 0 THEN 0 ELSE f[k - 1] + StreamBytes(es[k]) IN f
Total == Ends(written)[Len(written)]
NoBytes == 0 - 1
Arriving == IF cut = NoBytes THEN Total ELSE cut

Write ==
    /\ cut = NoBytes /\ outcome = "open" /\ Len(written) < MaxWritten
    /\ \E e \in IF version = "this" THEN {Envelope(f) : f \in {g \in FramesOf(channel) : Encodable(g)}}
                                    ELSE ForeignEnvelopes(channel) :
         written' = Append(written, e)
    /\ UNCHANGED <<channel, version, cut, read, decoding, obeyed, inWindow, elapsed, seconds, outcome>>

\* The writer ends, perhaps in the middle of a frame; what it wrote before arrives.
Stop ==
    /\ cut = NoBytes /\ outcome = "open" /\ ~Piecewise
    /\ cut' \in read..Total
    /\ UNCHANGED <<channel, version, written, read, decoding, obeyed, inWindow, elapsed, seconds, outcome>>

-----------------------------------------------------------------------------
(* The reader of a stream. *)
Fresh == [prefix |-> 0, expected |-> 0, payload |-> 0]

\* The decoder at the beginning of a chunk, or after the last byte of an envelope.
Awaiting(kept, k, done) ==
    [prefix |-> kept.prefix, expected |-> kept.expected, payload |-> kept.payload,
     at |-> k, state |-> "open", frames |-> done]

\* What decoding the payload of one envelope says.
Verdict(e) ==
    CASE ~e.readable -> "undecodable"
      [] e.readable /\ e.major # 2 -> "foreign"
      [] e.readable /\ e.major = 2 /\ ~Valid(e.frame) -> "invalid"
      [] OTHER -> "open"

\* One byte of the length; the last one tells how long the payload is.
LengthByte(d, e) ==
    CASE d.prefix + 1 < LengthBytes -> [d EXCEPT !.prefix = @ + 1]
      [] d.prefix + 1 = LengthBytes /\ e.length = 0 -> [d EXCEPT !.state = "badlength"]
      [] d.prefix + 1 = LengthBytes /\ e.length > MaxFrame -> [d EXCEPT !.state = "toolarge"]
      [] OTHER -> [d EXCEPT !.prefix = @ + 1, !.expected = e.length, !.payload = 0]

\* Fault: a frame that cannot be decoded is skipped.
PayloadByteSkipped(d, e) ==
    IF d.payload + 1 < d.expected THEN [d EXCEPT !.payload = @ + 1]
    ELSE Awaiting(Fresh, d.at + 1, IF Verdict(e) = "open" THEN Append(d.frames, e.frame) ELSE d.frames)

\* One byte of the payload; the last one decodes it and starts over.
PayloadByte(d, e) ==
    CASE d.payload + 1 < d.expected -> [d EXCEPT !.payload = @ + 1]
      [] d.payload + 1 = d.expected /\ Verdict(e) # "open" -> [d EXCEPT !.state = Verdict(e)]
      [] OTHER -> Awaiting(Fresh, d.at + 1, Append(d.frames, e.frame))

TakeByte(d) ==
    CASE d.state # "open" -> d
      [] d.state = "open" /\ d.expected = 0 -> LengthByte(d, written[d.at])
      [] OTHER -> PayloadByte(d, written[d.at])

\* push: the whole chunk, or up to its first error. An error loses the frames before it.
PushBytes(n) ==
    LET before == Awaiting(decoding, Len(obeyed) + 1, <<>>)
        after[i \in 0..n] == IF i = 0 THEN before ELSE TakeByte(after[i - 1])
    IN after[n]

Kept(d) == [prefix |-> d.prefix, expected |-> d.expected, payload |-> d.payload]
Counted(k) == (IF elapsed THEN 0 ELSE inWindow) + k

\* run_inbound_control_stream, read_outbound_control: frames of one chunk are counted, then handled.
ReadControl(n) ==
    LET d == PushBytes(n) IN
    /\ channel = "control"
    /\ IF d.state # "open"
       THEN outcome' = d.state /\ UNCHANGED <<obeyed, inWindow, elapsed>>
       ELSE /\ inWindow' = Counted(Len(d.frames)) /\ elapsed' = FALSE
            /\ IF inWindow' > FramesPerWindow THEN outcome' = "rate" /\ UNCHANGED obeyed
               ELSE obeyed' = obeyed \o d.frames /\ UNCHANGED outcome
    /\ decoding' = Kept(d)

\* run_inbound_input_stream: a frame the handler refuses ends the stream.
ReadInput(n) ==
    LET d == PushBytes(n) IN
    /\ channel = "input"
    /\ \/ d.state # "open" /\ outcome' = d.state /\ UNCHANGED obeyed
       \/ d.state = "open" /\ obeyed' = obeyed \o d.frames /\ UNCHANGED outcome
       \/ /\ d.state = "open" /\ outcome' = "refused"
          /\ \E k \in 1..Len(d.frames) : obeyed' = obeyed \o SubSeq(d.frames, 1, k)
    /\ decoding' = Kept(d) /\ UNCHANGED <<inWindow, elapsed>>

\* decode_motion, decode_clipboard_bulk: one payload, whole; a refused one is dropped.
ReadPiece ==
    LET k == CHOOSE j \in 1..Len(written) : Ends(written)[j - 1] = read
        e == written[k]
        bad == e.length = 0 \/ e.length > MaxFrame \/ Verdict(e) # "open"
    IN /\ Piecewise
       /\ obeyed' = IF bad THEN obeyed ELSE Append(obeyed, e.frame)
       /\ read' = read + StreamBytes(e) /\ outcome' = IF bad THEN "dropped" ELSE "open"
       /\ UNCHANGED <<decoding, inWindow, elapsed>>

Read ==
    /\ outcome = "open" /\ read < Arriving
    /\ \/ \E n \in 1..(Arriving - read) : read' = read + n /\ (ReadControl(n) \/ ReadInput(n))
       \/ ReadPiece
    /\ UNCHANGED <<channel, version, written, cut, seconds>>

Finish == IF decoding.prefix = 0 /\ decoding.expected = 0 THEN "finished" ELSE "truncated"

ReadToEnd ==
    /\ outcome = "open" /\ cut # NoBytes /\ read = cut /\ outcome' = Finish
    /\ UNCHANGED <<channel, version, written, cut, read, decoding, obeyed, inWindow, elapsed, seconds>>

Second ==
    /\ seconds < Seconds /\ channel = "control" /\ outcome = "open" /\ inWindow > 0
    /\ seconds' = seconds + 1 /\ elapsed' = TRUE
    /\ UNCHANGED <<channel, version, written, cut, read, decoding, obeyed, inWindow, outcome>>

CodecInit ==
    /\ channel \in {"control", "input", "motion", "bulk"} /\ version \in {"this", "other"}
    /\ written = <<>> /\ cut = NoBytes /\ read = 0 /\ decoding = Fresh /\ obeyed = <<>>
    /\ inWindow = 0 /\ elapsed = FALSE /\ seconds = 0 /\ outcome = "open"

CodecNext == Write \/ Stop \/ Read \/ ReadToEnd \/ Second
CodecSpec == CodecInit /\ [][CodecNext]_codecVars

-----------------------------------------------------------------------------
(* Properties. *)
FramesWritten == [k \in 1..Len(written) |-> written[k].frame]
WholeIn(n) == Cardinality({k \in 1..Len(written) : Ends(written)[k] <= n})

(* However the bytes are cut into chunks, and whatever a reader of another     *)
(* version's frames stumbles over, what is handled is the beginning of what    *)
(* was written: no frame is skipped, repeated or taken from the middle of       *)
(* another.                                                                     *)
FramesInOrder == ~Piecewise => IsPrefix(obeyed, FramesWritten)

(* A frame is handled with the chunk that completes it: none waits in the       *)
(* decoder for the bytes of the next one, which may not come for seconds.       *)
NothingHeldBack == ~Piecewise /\ outcome = "open" => Len(obeyed) = WholeIn(read)

(* Two programs of this version never refuse each other's frames: what the     *)
(* writer's checks let through passes the reader's.                             *)
SpeaksItself ==
    version = "this" => outcome \notin {"badlength", "toolarge", "undecodable", "foreign", "invalid", "dropped"}

(* A stream that ends where a frame ends is told from one that was cut off,    *)
(* and both after every whole frame before the end was handled.                 *)
EndIsTold ==
    outcome \in {"finished", "truncated"} =>
        /\ Len(obeyed) = WholeIn(cut)
        /\ outcome = "finished" <=> \E k \in 0..Len(written) : Ends(written)[k] = cut

(* The length check of an image accepts the pixels of every size within the     *)
(* limit, whatever remainder they leave in groups of three.                      *)
EveryImageTravels ==
    \A w \in 1..MaxRgba, h \in 1..MaxRgba :
        channel = "bulk" /\ 4 * w * h <= MaxRgba =>
            Encodable([kind |-> "Image", origin |-> "fits", sequence |-> 1, lamport |-> 1, width |-> w, height |-> h])

(* A reader of this version obeys what was written, all of it and in time.      *)
DecoderInv == FramesInOrder /\ NothingHeldBack /\ SpeaksItself /\ EndIsTold /\ EveryImageTravels
=============================================================================
