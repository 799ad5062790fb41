--------------------------- MODULE ConnectionProofs ---------------------------
(***************************************************************************)
(* Proofs about what lies under a session: the connection cache of         *)
(* Transport, for any number of handoffs, payloads, connections, permits   *)
(* and queued datagrams and any threshold of the health record; Pairing,   *)
(* for any set of controllers and codes, any limit of attempts and any     *)
(* number of confirmations and upsets; Settings, which keep the pairing,   *)
(* for any number of edits, calls, acts and faults; and Presence, which    *)
(* says where the paired machines are, for any machines, addresses and     *)
(* events.  The four share no state.                                       *)
(***************************************************************************)
EXTENDS Transport, Pairing, Settings, Presence, WellFoundedInduction, SequenceTheorems, TLAPS

(***************************************************************************)
(* The connection cache.                                                   *)
(***************************************************************************)
\* The counters of the cache.
CountPart == dials \in Nat /\ cleared \in Nat /\ made \in Nat

\* Between the lookup and the mark of a dial nobody else sets a mark: the loop
\* alone does, and it has found or left none.
LoopPart == loop.at = "dial" => entry # Connecting

DialInv ==
    /\ CountPart
    /\ LoopPart
    /\ MarkHasDial
    /\ NoConnectStorm
-----------------------------------------------------------------------------
\* A step that leaves the cache, the dials and the loop as they are.
LEMMA CacheUntouched ==
    ASSUME DialInv, UNCHANGED <<entry, made, dials, cleared, loop>>
    PROVE  DialInv'
  BY DEF DialInv, CountPart, LoopPart, MarkHasDial, NoConnectStorm

\* A task writes the entry: a mark that it takes away is counted for its dial.
LEMMA OverwriteKeeps ==
    ASSUME DialInv, NEW e, e # Connecting, Overwrite(e), made' \in Nat,
           UNCHANGED dials, loop'.at = "dial" => loop.at = "dial"
    PROVE  DialInv'
  <1>1. entry' # Connecting
    BY DEF Overwrite
  <1>2. dials' \in Nat /\ cleared' \in Nat
    BY DEF DialInv, CountPart, Overwrite
  <1>3. dials <= cleared'
    <2>1. CASE entry = Connecting
      BY <2>1 DEF DialInv, CountPart, NoConnectStorm, Overwrite
    <2>2. CASE entry # Connecting
      BY <2>2 DEF DialInv, CountPart, NoConnectStorm, Overwrite
    <2> QED BY <2>1, <2>2
  <1> QED
    BY <1>1, <1>2, <1>3 DEF DialInv, CountPart, LoopPart, MarkHasDial, NoConnectStorm

\* The dial of a datagram ends, with a connection or without: the entry it
\* writes is no mark, and the dials left over are those that lost theirs.
LEMMA DialEndsKeeps ==
    ASSUME DialInv, dials > 0, DialEnds, entry' # Connecting, made' \in Nat
    PROVE  DialInv'
  <1>1. dials' \in Nat /\ cleared' \in Nat
    BY DEF DialInv, CountPart, DialEnds
  <1>2. dials' <= cleared'
    <2>1. CASE cleared < dials
      <3>1. dials <= cleared + 1
        BY DEF DialInv, CountPart, NoConnectStorm
      <3> QED
        BY <2>1, <3>1 DEF DialInv, CountPart, DialEnds
    <2>2. CASE ~(cleared < dials)
      BY <2>2 DEF DialInv, CountPart, DialEnds
    <2> QED BY <2>1, <2>2
  <1> QED
    BY <1>1, <1>2 DEF DialInv, CountPart, LoopPart, MarkHasDial, NoConnectStorm

\* The numbers of established connections are no marks.
LEMMA ConnectionIsNoMark ==
    ASSUME CountPart
    PROVE  made + 1 \in Nat /\ made + 1 # Connecting /\ None # Connecting
  BY MarksAreNotNumbers DEF CountPart
-----------------------------------------------------------------------------
\* The cache starts empty.
LEMMA InitDialInv == TransportInit => DialInv
  BY MarksAreNotNumbers
  DEF TransportInit, Idle, DialInv, CountPart, LoopPart, MarkHasDial, NoConnectStorm

\* The client thread and the clock do not touch the cache.
LEMMA ClientKeeps ==
    ASSUME DialInv, ClientStep \/ WindowPasses \/ \E b \in 1..MaxBulk : SendBulk(b)
    PROVE  DialInv'
  <1>1. UNCHANGED <<entry, made, dials, cleared, loop>>
    BY DEF ClientStep, Connect, OpenInput, Disconnect, SendMotion, SendWarm,
           SendBulk, WindowPasses, cacheVars
  <1> QED BY <1>1, CacheUntouched

\* The lookup of a datagram: only an entry that is no mark leads to a dial.
LEMMA LookupKeeps ==
    ASSUME DialInv, SendDatagram
    PROVE  DialInv'
  <1>1. UNCHANGED <<made, dials, cleared>>
    BY DEF SendDatagram
  <1>2. loop' = Idle /\ UNCHANGED entry => DialInv'
    BY <1>1 DEF Idle, DialInv, CountPart, LoopPart, MarkHasDial, NoConnectStorm
  <1>3. Ready => entry # Connecting
    BY MarksAreNotNumbers DEF Ready, Conns
  <1>4. Ready /\ UNCHANGED entry => DialInv'
    BY <1>1, <1>3 DEF DialInv, CountPart, LoopPart, MarkHasDial, NoConnectStorm
  <1>5. entry # Connecting /\ entry' = None => DialInv'
    BY <1>1, MarksAreNotNumbers
    DEF DialInv, CountPart, LoopPart, MarkHasDial, NoConnectStorm
  <1> QED
    BY <1>2, <1>4, <1>5 DEF SendDatagram

\* The loop marks the entry for the dial it starts: no dial of the loop ran for
\* the entry it found.
LEMMA StartDialKeeps ==
    ASSUME DialInv, StartDial
    PROVE  DialInv'
  <1>1. loop' = Idle /\ UNCHANGED <<made, cleared>> /\ entry # Connecting
    BY DEF StartDial, DialInv, LoopPart
  <1>2. CASE Muted
    BY <1>1, <1>2 DEF StartDial, Idle, DialInv, CountPart, LoopPart, MarkHasDial, NoConnectStorm
  <1>3. CASE ~Muted
    <2>1. entry' = Connecting /\ dials' = dials + 1
      BY <1>3 DEF StartDial, Marked
    <2>2. dials <= cleared /\ dials \in Nat /\ cleared \in Nat /\ made \in Nat
      BY <1>1 DEF DialInv, CountPart, NoConnectStorm
    <2>3. loop'.at # "dial"
      BY <1>1 DEF Idle
    <2> QED
      BY <1>1, <2>1, <2>2, <2>3 DEF DialInv, CountPart, LoopPart, MarkHasDial, NoConnectStorm
  <1> QED BY <1>2, <1>3

\* The command loop.
LEMMA LoopKeeps ==
    ASSUME DialInv, LoopStep
    PROVE  DialInv'
  <1>1. ASSUME NEW t \in Tasks, RecvOpen(t) PROVE DialInv'
    BY <1>1, CacheUntouched DEF RecvOpen, cacheVars
  <1>2. ASSUME NEW c \in Datagrams, RecvDatagram(c) PROVE DialInv'
    BY <1>2 DEF RecvDatagram, cacheVars, DialInv, CountPart, LoopPart, MarkHasDial, NoConnectStorm
  <1>3. CASE ForgetEntry
    <2>1. loop'.at # "dial" /\ Overwrite(None) /\ UNCHANGED <<made, dials>>
      BY <1>3 DEF ForgetEntry, Idle
    <2> QED
      BY <2>1, MarksAreNotNumbers, OverwriteKeeps DEF DialInv, CountPart
  <1> QED
    BY <1>1, <1>2, <1>3, LookupKeeps, StartDialKeeps DEF LoopStep

\* The dials of datagrams.
LEMMA DialKeeps ==
    ASSUME DialInv, DialSucceeds \/ DialFails
    PROVE  DialInv'
  <1>1. CountPart
    BY DEF DialInv
  <1>2. CASE DialSucceeds
    BY <1>1, <1>2, ConnectionIsNoMark, DialEndsKeeps DEF DialSucceeds
  <1>3. CASE DialFails
    BY <1>1, <1>3, ConnectionIsNoMark, DialEndsKeeps DEF DialFails, AfterFailedDial, CountPart
  <1> QED BY <1>2, <1>3

\* The stream tasks reuse, replace or drop the entry, and set no mark.
LEMMA TaskKeeps ==
    ASSUME DialInv, NEW t \in Tasks, TaskStep(t)
    PROVE  DialInv'
  <1>1. CountPart
    BY DEF DialInv
  <1>2. CASE Lookup(t) \/ TaskDialFails(t) \/ Offer(t) \/ ServingStops(t) \/ InputEnds(t) \/ BulkAcked(t)
    <2>1. UNCHANGED <<entry, made, dials, cleared, loop>>
      BY <1>2 DEF Lookup, TaskDialFails, Offer, ServingStops, InputEnds, BulkAcked, cacheVars
    <2> QED BY <2>1, CacheUntouched
  <1>3. CASE TaskDialSucceeds(t)
    BY <1>1, <1>3, ConnectionIsNoMark, OverwriteKeeps DEF TaskDialSucceeds
  <1>4. CASE OpenStream(t)
    <2>1. \/ Overwrite(None)
          \/ UNCHANGED <<entry, cleared>>
      BY <1>4 DEF OpenStream
    <2>2. UNCHANGED <<loop, made, dials>>
      BY <1>4 DEF OpenStream
    <2>3. CASE Overwrite(None)
      BY <1>1, <2>2, <2>3, MarksAreNotNumbers, OverwriteKeeps DEF CountPart
    <2>4. CASE UNCHANGED <<entry, cleared>>
      BY <2>2, <2>4, CacheUntouched
    <2> QED BY <2>1, <2>3, <2>4
  <1>5. CASE ControlEnds(t) \/ ControlFails(t) \/ BulkFails(t)
    <2>1. Overwrite(None) /\ UNCHANGED <<loop, made, dials>>
      BY <1>5 DEF ControlEnds, ControlFails, BulkFails
    <2> QED
      BY <1>1, <2>1, MarksAreNotNumbers, OverwriteKeeps DEF CountPart
  <1> QED
    BY <1>2, <1>3, <1>4, <1>5 DEF TaskStep

\* Every step of the transport keeps the invariant.
LEMMA StepDialInv == DialInv /\ [TransportNext]_transportVars => DialInv'
  <1> SUFFICES ASSUME DialInv, [TransportNext]_transportVars PROVE DialInv'
    OBVIOUS
  <1>1. CASE ClientStep \/ WindowPasses \/ \E b \in 1..MaxBulk : SendBulk(b)
    BY <1>1, ClientKeeps
  <1>2. CASE LoopStep
    BY <1>2, LoopKeeps
  <1>3. CASE DialSucceeds \/ DialFails
    BY <1>3, DialKeeps
  <1>4. ASSUME NEW t \in Tasks, TaskStep(t) PROVE DialInv'
    BY <1>4, TaskKeeps
  <1>5. ASSUME NEW c \in Conns, Lose(c) PROVE DialInv'
    BY <1>5, CacheUntouched DEF Lose
  <1>6. CASE UNCHANGED transportVars
    BY <1>6, CacheUntouched DEF transportVars
  <1> QED
    BY <1>1, <1>2, <1>3, <1>4, <1>5, <1>6 DEF TransportNext

\* The invariant of the cache.
THEOREM CacheInvariant == TransportSpec => []DialInv
  BY InitDialInv, StepDialInv, PTL DEF TransportSpec

\* A Connecting mark always belongs to a dial that will take it away, so no
\* datagram is dropped for a dial that is not running (ConnectionSlot).
THEOREM MarksHaveDials == TransportSpec => []MarkHasDial
  <1>1. DialInv => MarkHasDial
    BY DEF DialInv
  <1> QED
    BY <1>1, CacheInvariant, PTL

\* No connect storm: a second dial starts beside a running one only when another
\* task took that one's mark out of the cache (send_datagram_nonblocking).
THEOREM NoStorm == TransportSpec => []NoConnectStorm
  <1>1. DialInv => NoConnectStorm
    BY DEF DialInv
  <1> QED
    BY <1>1, CacheInvariant, PTL
-----------------------------------------------------------------------------
(***************************************************************************)
(* Pairing.                                                                *)
(***************************************************************************)
\* A certificate is newer only by a reinstallation, which is an upset.
UpsetPart == \A c \in Controllers : cert[c] <= upsets

TypeInv == PairingTypeOK /\ UpsetPart
-----------------------------------------------------------------------------
(* Types.                                                                   *)

\* The constants the types are made of.
LEMMA TypeFacts ==
    /\ Nobody \in Trust /\ 0 \in Certs
    /\ NoStream \in Handlers /\ NoCommand \in UserCommands
  <1>1. Nobody \in Trust /\ 0 \in Certs
    BY PairingBounds DEF Nobody, Trust, Certs
  <1> QED
    BY <1>1 DEF NoStream, Handlers, NoCommand, UserCommands

\* An upset stays within its bound, and certificates stay below it.
LEMMA UpsetType ==
    ASSUME TypeInv, Upset
    PROVE  /\ upsets' \in 0..MaxUpsets
           /\ \A c \in Controllers : cert[c] <= upsets' /\ cert[c] + 1 <= upsets'
           /\ \A c \in Controllers : cert[c] + 1 \in Certs
  BY PairingBounds DEF TypeInv, PairingTypeOK, UpsetPart, Upset, Certs

\* The list of trusted certificates stays one.
LEMMA UpsertType ==
    ASSUME NEW T \in SUBSET (Controllers \X Certs), NEW c \in Controllers, NEW k \in Certs
    PROVE  Upsert(T, c, k) \in SUBSET (Controllers \X Certs)
  BY DEF Upsert

\* A challenge that is begun or goes on is one.
LEMMA BeginType ==
    ASSUME TypeInv, NEW c \in Controllers, NEW code \in Codes
    PROVE  Begin(c, code) \in Challenges
  <1> DEFINE fresh == [from |-> c, cert |-> cert[c], code |-> code, attempts |-> 0, expired |-> FALSE]
  <1>1. cert[c] \in Certs
    BY DEF TypeInv, PairingTypeOK
  <1>2. fresh \in Challenges
    BY <1>1, PairingBounds DEF Challenges
  <1>3. challenge # NoOne => [challenge EXCEPT !.cert = cert[c]] \in Challenges
    BY <1>1 DEF TypeInv, PairingTypeOK, Challenges
  <1> HIDE DEF fresh
  <1> QED
    BY <1>2, <1>3 DEF Begin, fresh

\* The handler of a stream moves on.
LEMMA HandlerType ==
    ASSUME TypeInv, NEW c \in Controllers
    PROVE  /\ \A at \in {"matched", "replace"} :
                 StreamTo(c, at) => stream' \in [Controllers -> Handlers]
           /\ \A a \in {"ok", "reject"} :
                 Reply(c, a) => stream' \in [Controllers -> Handlers]
  <1>1. stream \in [Controllers -> Handlers] /\ stream[c] \in Handlers
    BY DEF TypeInv, PairingTypeOK
  <1>2. \A at \in {"matched", "replace"} : [stream[c] EXCEPT !.at = at] \in Handlers
    BY <1>1 DEF Handlers
  <1>3. \A a \in {"ok", "reject"} : [stream[c] EXCEPT !.at = "done", !.answer = a] \in Handlers
    BY <1>1 DEF Handlers
  <1>4. \A h \in Handlers : [stream EXCEPT ![c] = h] \in [Controllers -> Handlers]
    BY <1>1
  <1> QED
    BY <1>2, <1>3, <1>4 DEF StreamTo, Reply

\* A command of the controller moves on, or ends with a result.
LEMMA CommandType ==
    ASSUME TypeInv, NEW c \in Controllers
    PROVE  /\ \A at \in {"idle", "sent", "probe"} :
                 [server EXCEPT ![c].at = at] \in [Controllers -> UserCommands]
           /\ \A r \in {"paired", "wrong", "failed"} :
                 EndCommand(c, r) => server' \in [Controllers -> UserCommands]
           /\ \A u \in UserCommands : [server EXCEPT ![c] = u] \in [Controllers -> UserCommands]
  <1>1. server \in [Controllers -> UserCommands] /\ server[c] \in UserCommands
    BY DEF TypeInv, PairingTypeOK
  <1>2. \A at \in {"idle", "sent", "probe"} : [server[c] EXCEPT !.at = at] \in UserCommands
    BY <1>1 DEF UserCommands
  <1>3. \A r \in {"paired", "wrong", "failed"} :
            [server[c] EXCEPT !.at = "idle", !.result = r] \in UserCommands
    BY <1>1 DEF UserCommands
  <1>4. \A u \in UserCommands : [server EXCEPT ![c] = u] \in [Controllers -> UserCommands]
    BY <1>1
  <1> QED
    BY <1>2, <1>3, <1>4 DEF EndCommand

\* The controller's commands.
LEMMA CommandTypes ==
    ASSUME TypeInv, NEW c \in Controllers,
           \/ Request(c) \/ GiveUp(c) \/ ReadAnswer(c) \/ Forget(c) \/ ProbePeer(c) \/ HearRequest(c)
           \/ \E code \in Codes : Confirm(c, code)
    PROVE  TypeInv'
  <1> USE DEF trust
  <1>0. <<c, "sent">> \in Requests /\ <<c, "heard">> \in Requests
    BY DEF Requests
  <1>1. CASE Request(c)
    <2>1. [NoCommand EXCEPT !.at = "request"] \in UserCommands
      BY DEF NoCommand, UserCommands
    <2>2. server' \in [Controllers -> UserCommands]
      BY <1>1, <2>1, CommandType DEF Request
    <2> QED BY <1>0, <1>1, <2>2 DEF Request, TypeInv, PairingTypeOK, UpsetPart
  <1>2. CASE GiveUp(c)
    <2>1. server' \in [Controllers -> UserCommands]
      BY <1>2, CommandType DEF GiveUp
    <2> QED BY <1>2, <2>1 DEF GiveUp, TypeInv, PairingTypeOK, UpsetPart
  <1>3. CASE ReadAnswer(c)
    <2>1. server' \in [Controllers -> UserCommands]
      BY <1>3, CommandType DEF ReadAnswer
    <2>2. stream' \in [Controllers -> Handlers]
      BY <1>3, TypeFacts DEF ReadAnswer, TypeInv, PairingTypeOK
    <2> QED BY <1>3, <2>1, <2>2 DEF ReadAnswer, TypeInv, PairingTypeOK, UpsetPart
  <1>4. CASE Forget(c)
    <2>1. stream' \in [Controllers -> Handlers]
      BY <1>4, TypeFacts DEF Forget, TypeInv, PairingTypeOK
    <2> QED BY <1>4, <2>1 DEF Forget, TypeInv, PairingTypeOK, UpsetPart
  <1>5. CASE ProbePeer(c)
    <2>1. server' \in [Controllers -> UserCommands]
      BY <1>5, CommandType DEF ProbePeer
    <2> QED BY <1>5, <2>1 DEF ProbePeer, TypeInv, PairingTypeOK, UpsetPart
  <1>6. ASSUME NEW code \in Codes, Confirm(c, code) PROVE TypeInv'
    <2>1. [at |-> "confirm", typed |-> code, result |-> "none"] \in UserCommands
      BY DEF UserCommands
    <2>2. server' \in [Controllers -> UserCommands]
      BY <1>6, <2>1, CommandType DEF Confirm
    <2>3. confirms' \in 0..MaxConfirms /\ since' \in [Controllers -> BOOLEAN]
      BY <1>6, PairingBounds DEF Confirm, TypeInv, PairingTypeOK
    <2> QED BY <1>0, <1>6, <2>2, <2>3 DEF Confirm, TypeInv, PairingTypeOK, UpsetPart
  <1>7. CASE HearRequest(c)
    BY <1>0, <1>7 DEF HearRequest, TypeInv, PairingTypeOK, UpsetPart
  <1> QED BY <1>1, <1>2, <1>3, <1>4, <1>5, <1>6, <1>7

\* The answer to a pair-request.
LEMMA AnswerTypes ==
    ASSUME TypeInv, NEW c \in Controllers, NEW code \in Codes, AnswerRequest(c, code)
    PROVE  TypeInv'
  <1> DEFINE sent(known) == [stream EXCEPT ![c] = [NoStream EXCEPT !.at = "arrived",
                               !.code = server[c].typed, !.cert = cert[c], !.known = known]]
  <1>1. challenge' = NoOne \/ challenge' \in Challenges
    BY BeginType DEF AnswerRequest, TypeInv, PairingTypeOK
  <1>2. ASSUME NEW known \in BOOLEAN PROVE sent(known) \in [Controllers -> Handlers]
    <2>1. server[c].typed \in Codes \cup {NoOne} /\ cert[c] \in Certs
      BY DEF TypeInv, PairingTypeOK, UserCommands
    <2>2. [NoStream EXCEPT !.at = "arrived", !.code = server[c].typed, !.cert = cert[c],
                           !.known = known] \in Handlers
      BY <2>1, TypeFacts DEF NoStream, Handlers
    <2> QED BY <2>2 DEF TypeInv, PairingTypeOK
  <1>3. stream' \in [Controllers -> Handlers]
    BY <1>2 DEF AnswerRequest, TypeInv, PairingTypeOK
  <1>4. server' \in [Controllers -> UserCommands]
    <2>1. \/ server' = [server EXCEPT ![c].at = "idle"]
          \/ server' = [server EXCEPT ![c].at = "sent"]
          \/ server' = server
      BY DEF AnswerRequest
    <2>2. /\ [server EXCEPT ![c].at = "idle"] \in [Controllers -> UserCommands]
          /\ [server EXCEPT ![c].at = "sent"] \in [Controllers -> UserCommands]
      BY CommandType
    <2>3. server \in [Controllers -> UserCommands]
      BY DEF TypeInv, PairingTypeOK
    <2> QED BY <2>1, <2>2, <2>3
  <1> QED
    BY <1>1, <1>3, <1>4 DEF AnswerRequest, TypeInv, PairingTypeOK, UpsetPart, trust

\* The steps of a stream's handler.
LEMMA StreamTypes ==
    ASSUME TypeInv, NEW c \in Controllers, StreamStep(c) \/ WriteTrustFails(c)
    PROVE  TypeInv'
  <1>1. CASE CheckCode(c) \/ TurnAway(c)
    <2>1. stream' \in [Controllers -> Handlers]
      BY <1>1, HandlerType DEF CheckCode, TurnAway
    <2>2. challenge' = NoOne \/ challenge' \in Challenges
      BY <1>1, PairingBounds DEF CheckCode, TurnAway, TypeInv, PairingTypeOK, Challenges
    <2> QED
      BY <1>1, <2>1, <2>2 DEF CheckCode, TurnAway, TypeInv, PairingTypeOK, UpsetPart, trust
  <1>2. CASE TakeTrust(c)
    <2> DEFINE t == [paired |-> c, trusted |-> Upsert(layout.trusted, c, stream[c].cert)]
    <2>1. t \in Trust
      BY UpsertType DEF TypeInv, PairingTypeOK, Trust, Handlers
    <2>2. layout' = t /\ stream' = [stream EXCEPT ![c].at = "written", ![c].snapshot = t]
      BY <1>2 DEF TakeTrust
    <2> HIDE DEF t
    <2>3. stream' \in [Controllers -> Handlers]
      <3>1. stream \in [Controllers -> Handlers] /\ stream[c] \in Handlers
        BY DEF TypeInv, PairingTypeOK
      <3>2. [stream[c] EXCEPT !.at = "written", !.snapshot = t] \in Handlers
        BY <2>1, <3>1 DEF Handlers
      <3> QED BY <2>2, <3>1, <3>2
    <2>4. raced' \in BOOLEAN
      BY <1>2 DEF TakeTrust
    <2> QED
      BY <1>2, <2>1, <2>2, <2>3, <2>4 DEF TakeTrust, TypeInv, PairingTypeOK, UpsetPart
  <1>3. CASE WriteTrust(c)
    BY <1>3, HandlerType DEF WriteTrust, TypeInv, PairingTypeOK, UpsetPart, Handlers
  <1>4. CASE ReplaceTrust(c)
    BY <1>4, HandlerType DEF ReplaceTrust, Renewed, TypeInv, PairingTypeOK, UpsetPart, Trust
  <1>5. CASE WriteTrustFails(c)
    BY <1>5, HandlerType, UpsetType DEF WriteTrustFails, TypeInv, PairingTypeOK, UpsetPart, trust
  <1> QED
    BY <1>1, <1>2, <1>3, <1>4, <1>5 DEF StreamStep

\* The client's commands, the clock and a reinstallation.
LEMMA OtherTypes ==
    ASSUME TypeInv,
           \/ Expire \/ ShowStatus \/ Dismiss \/ ResetTrust \/ ResetStep
           \/ \E c \in Controllers : Reinstall(c)
    PROVE  TypeInv'
  <1> USE DEF TypeInv, PairingTypeOK, UpsetPart, trust
  <1>1. ASSUME NEW c \in Controllers, Reinstall(c) PROVE TypeInv'
    <2>1. cert' \in [Controllers -> Certs] /\ \A d \in Controllers : cert'[d] <= upsets'
      BY <1>1, UpsetType DEF Reinstall
    <2>2. server' \in [Controllers -> UserCommands]
      BY <1>1, TypeFacts DEF Reinstall
    <2> QED BY <1>1, <2>1, <2>2, UpsetType DEF Reinstall
  <1>2. CASE Expire
    <2>1. challenge' \in Challenges
      BY <1>2 DEF Expire, Challenges
    <2> QED BY <1>2, <2>1, UpsetType DEF Expire
  <1>3. CASE ShowStatus \/ Dismiss
    BY <1>3, UpsetType DEF ShowStatus, Dismiss
  <1>4. CASE ResetTrust
    <2>1. reset' \in Resets /\ layout' \in Trust
      BY <1>4, TypeFacts DEF ResetTrust, Resets
    <2>2. raced' \in BOOLEAN
      BY <1>4 DEF ResetTrust
    <2>3. since' \in [Controllers -> BOOLEAN]
      BY <1>4 DEF ResetTrust
    <2> QED BY <1>4, <2>1, <2>2, <2>3, UpsetType DEF ResetTrust
  <1>5. CASE ResetDisk
    BY <1>5 DEF ResetDisk, DiskAfterReset, Resets
  <1>6. CASE ResetRegistry
    BY <1>6 DEF ResetRegistry, Resets, Trust
  <1>7. CASE ResetChallenge
    BY <1>7 DEF ResetChallenge, Resets
  <1>8. CASE ResetDiskFails
    BY <1>8 DEF ResetDiskFails, Resets
  <1> QED
    BY <1>1, <1>2, <1>3, <1>4, <1>5, <1>6, <1>7, <1>8 DEF ResetStep

\* Nobody is paired at first.
LEMMA InitTypeInv == PairingInit => TypeInv
  <1> SUFFICES ASSUME PairingInit PROVE TypeInv
    OBVIOUS
  <1> USE TypeFacts, PairingBounds DEF PairingInit
  <1>1. stream \in [Controllers -> Handlers] /\ server \in [Controllers -> UserCommands]
    OBVIOUS
  <1>2. cert \in [Controllers -> Certs]
    OBVIOUS
  <1>3. since \in [Controllers -> BOOLEAN]
    <2>1. since = [c \in Controllers |-> FALSE]
      OBVIOUS
    <2> QED BY <2>1, Zenon
  <1>4. reset \in Resets /\ layout \in Trust /\ saved \in Trust
    BY DEF Resets
  <1>5. confirms \in 0..MaxConfirms /\ upsets \in 0..MaxUpsets
    <2>1. confirms = 0 /\ upsets = 0
      OBVIOUS
    <2> QED BY <2>1
  <1>6. raced \in BOOLEAN
    OBVIOUS
  <1> QED
    BY <1>1, <1>2, <1>3, <1>4, <1>5, <1>6 DEF TypeInv, PairingTypeOK, UpsetPart

\* Every step keeps the types.
LEMMA StepTypeInv == TypeInv /\ [PairingNext]_pairingVars => TypeInv'
  <1> SUFFICES ASSUME TypeInv, [PairingNext]_pairingVars PROVE TypeInv'
    OBVIOUS
  <1>1. CASE UNCHANGED pairingVars
    BY <1>1 DEF pairingVars, TypeInv, PairingTypeOK, UpsetPart
  <1>2. ASSUME NEW c \in Controllers,
               \/ Request(c) \/ GiveUp(c) \/ ReadAnswer(c) \/ Forget(c) \/ ProbePeer(c) \/ HearRequest(c)
               \/ \E code \in Codes : Confirm(c, code)
        PROVE  TypeInv'
    BY <1>2, CommandTypes
  <1>3. ASSUME NEW c \in Controllers, StreamStep(c) \/ WriteTrustFails(c) PROVE TypeInv'
    BY <1>3, StreamTypes
  <1>4. ASSUME NEW c \in Controllers, NEW code \in Codes, AnswerRequest(c, code) PROVE TypeInv'
    BY <1>4, AnswerTypes
  <1>5. CASE Expire \/ ShowStatus \/ Dismiss \/ ResetTrust \/ ResetStep \/ \E c \in Controllers : Reinstall(c)
    BY <1>5, OtherTypes
  <1> QED
    BY <1>1, <1>2, <1>3, <1>4, <1>5 DEF PairingNext

\* Type correctness of pairing.
THEOREM PairingTypes == PairingSpec => []TypeInv
  BY InitTypeInv, StepTypeInv, PTL DEF PairingSpec
-----------------------------------------------------------------------------
(* What a step does to the handler of a stream.                             *)

\* The handler of c moves to another point and keeps the rest; no other one
\* is touched.
Moved(c, at) ==
    /\ stream'[c].at = at
    /\ stream'[c].cert = stream[c].cert
    /\ stream'[c].snapshot = stream[c].snapshot
    /\ \A d \in Controllers \ {c} : stream'[d] = stream[d]

\* What the moves of a stream handler do to its record.
LEMMA MoveFacts ==
    ASSUME TypeInv, NEW c \in Controllers
    PROVE  /\ \A at \in {"matched", "replace"} : StreamTo(c, at) => Moved(c, at)
           /\ \A a \in {"ok", "reject"} :
                 Reply(c, a) => Moved(c, "done") /\ stream'[c].answer = a
  BY DEF TypeInv, PairingTypeOK, StreamTo, Reply, Handlers, Moved

\* A new handler, or none, takes the place of the one of c.
LEMMA RenewFacts ==
    ASSUME TypeInv, NEW c \in Controllers, NEW h \in Handlers, stream' = [stream EXCEPT ![c] = h]
    PROVE  stream'[c] = h /\ \A d \in Controllers \ {c} : stream'[d] = stream[d]
  BY DEF TypeInv, PairingTypeOK

\* The handler that AnswerRequest sends off.
Arrived(c, known) ==
    [NoStream EXCEPT !.at = "arrived", !.code = server[c].typed, !.cert = cert[c], !.known = known]

\* The record of a stream that has just arrived: nothing matched, nothing answered.
LEMMA ArrivedFacts ==
    ASSUME TypeInv, NEW c \in Controllers, NEW known \in BOOLEAN
    PROVE  /\ Arrived(c, known) \in Handlers
           /\ Arrived(c, known).at = "arrived" /\ Arrived(c, known).cert = cert[c]
           /\ Arrived(c, known).snapshot = Nobody /\ Arrived(c, known).answer = "none"
  <1>1. server[c].typed \in Codes \cup {NoOne} /\ cert[c] \in Certs
    BY DEF TypeInv, PairingTypeOK, UserCommands
  <1> QED
    BY <1>1, TypeFacts DEF Arrived, NoStream, Handlers

\* The record of no stream is a handler's record.
LEMMA NoStreamFacts ==
    /\ NoStream \in Handlers /\ NoStream.at = "none"
    /\ NoStream.snapshot = Nobody /\ NoStream.answer = "none"
  BY TypeFacts DEF NoStream

\* What AnswerRequest does to the streams.
LEMMA AnswerFacts ==
    ASSUME TypeInv, NEW c \in Controllers, NEW code \in Codes, AnswerRequest(c, code)
    PROVE  \/ UNCHANGED stream
           \/ \E known \in BOOLEAN : stream' = [stream EXCEPT ![c] = Arrived(c, known)]
  BY DEF AnswerRequest, Arrived

\* The trust that TakeTrust gives to c.
Taken(c) == [paired |-> c, trusted |-> Upsert(layout.trusted, c, stream[c].cert)]

\* Taking the trust writes the layout and keeps what was written as the handler's snapshot.
LEMMA TakenFacts ==
    ASSUME TypeInv, NEW c \in Controllers, TakeTrust(c)
    PROVE  /\ Taken(c) \in Trust
           /\ layout' = Taken(c)
           /\ stream[c].at = "matched"
           /\ stream'[c].at = "written" /\ stream'[c].snapshot = Taken(c)
           /\ stream'[c].cert = stream[c].cert
           /\ \A d \in Controllers \ {c} : stream'[d] = stream[d]
  <1>1. Taken(c) \in Trust
    BY UpsertType DEF TypeInv, PairingTypeOK, Trust, Handlers, Taken
  <1>2. layout' = Taken(c) /\ stream' = [stream EXCEPT ![c].at = "written", ![c].snapshot = Taken(c)]
    BY DEF TakeTrust, Taken
  <1>3. stream[c].at = "matched"
    BY DEF TakeTrust
  <1> QED
    BY <1>1, <1>2, <1>3 DEF TypeInv, PairingTypeOK, Handlers
-----------------------------------------------------------------------------
(* One certificate per machine.                                             *)

OneEach(T) == \A p, q \in T : p[1] = q[1] => p = q

CertPart ==
    /\ OneEach(layout.trusted) /\ OneEach(saved.trusted) /\ OneEach(registry)
    /\ OneEach(reset.snapshot.trusted)
    /\ \A c \in Controllers : OneEach(stream[c].snapshot.trusted)

\* upsert_trusted_peer leaves one certificate per machine.
LEMMA UpsertOne ==
    ASSUME NEW T, OneEach(T), NEW c, NEW k
    PROVE  OneEach(Upsert(T, c, k))
  BY DEF OneEach, Upsert

\* Without trust there is nothing to be double.
LEMMA NobodyOne == OneEach(Nobody.trusted)
  BY DEF OneEach, Nobody

\* The steps of the streams keep one certificate per machine.
LEMMA StreamCert ==
    ASSUME TypeInv, CertPart, NEW c \in Controllers, StreamStep(c) \/ WriteTrustFails(c)
    PROVE  CertPart'
  <1>1. CASE CheckCode(c) \/ TurnAway(c)
    <2>1. Moved(c, "matched") \/ Moved(c, "done")
      BY <1>1, MoveFacts DEF CheckCode, TurnAway
    <2> QED
      BY <1>1, <2>1 DEF CheckCode, TurnAway, CertPart, Moved, OneEach, trust
  <1>2. CASE TakeTrust(c)
    <2>1. OneEach(Taken(c).trusted)
      BY UpsertOne DEF CertPart, Taken
    <2>2. UNCHANGED <<saved, registry, reset>>
      BY <1>2 DEF TakeTrust
    <2> QED
      BY <1>2, <2>1, <2>2, TakenFacts DEF CertPart, OneEach
  <1>3. CASE WriteTrust(c)
    <2>1. Moved(c, "replace") /\ saved' = stream[c].snapshot /\ UNCHANGED <<layout, registry, reset>>
      BY <1>3, MoveFacts DEF WriteTrust
    <2> QED
      BY <2>1 DEF CertPart, Moved, OneEach
  <1>4. CASE ReplaceTrust(c)
    <2>1. Moved(c, "done") /\ registry' = layout.trusted /\ UNCHANGED <<layout, saved, reset>>
      BY <1>4, MoveFacts DEF ReplaceTrust, Renewed
    <2> QED
      BY <2>1 DEF CertPart, Moved, OneEach
  <1>5. CASE WriteTrustFails(c)
    <2>1. Moved(c, "done") /\ UNCHANGED <<layout, saved, registry, reset>>
      BY <1>5, MoveFacts DEF WriteTrustFails, trust
    <2> QED
      BY <2>1 DEF CertPart, Moved, OneEach
  <1> QED
    BY <1>1, <1>2, <1>3, <1>4, <1>5 DEF StreamStep

\* A stream that is renewed or ends carries no trust yet.
LEMMA RenewCert ==
    ASSUME TypeInv, CertPart, NEW c \in Controllers, UNCHANGED <<layout, saved, registry, reset>>,
           \/ UNCHANGED stream
           \/ \E h \in Handlers : h.snapshot = Nobody /\ stream' = [stream EXCEPT ![c] = h]
    PROVE  CertPart'
  <1>1. CASE UNCHANGED stream
    BY <1>1 DEF CertPart, OneEach
  <1>2. ASSUME NEW h \in Handlers, h.snapshot = Nobody, stream' = [stream EXCEPT ![c] = h]
        PROVE  CertPart'
    BY <1>2, RenewFacts, NobodyOne DEF CertPart, OneEach
  <1> QED BY <1>1, <1>2

\* A reset brings no certificate.
LEMMA ResetCert ==
    ASSUME TypeInv, CertPart, ResetTrust \/ ResetStep
    PROVE  CertPart'
  <1>1. CASE ResetTrust
    <2>1. layout' = Nobody /\ reset'.snapshot = Nobody /\ UNCHANGED <<saved, registry, stream>>
      BY <1>1 DEF ResetTrust
    <2> QED
      BY <2>1, NobodyOne DEF CertPart, OneEach
  <1>2. CASE ResetDisk
    <2>1. saved' = reset.snapshot /\ reset'.snapshot = reset.snapshot /\ UNCHANGED <<layout, registry, stream>>
      BY <1>2 DEF ResetDisk, DiskAfterReset, TypeInv, PairingTypeOK, Resets
    <2> QED
      BY <2>1 DEF CertPart, OneEach
  <1>3. CASE ResetRegistry
    <2>1. registry' = reset.snapshot.trusted /\ reset'.snapshot = reset.snapshot /\ UNCHANGED <<layout, saved, stream>>
      BY <1>3 DEF ResetRegistry, TypeInv, PairingTypeOK, Resets
    <2> QED
      BY <2>1 DEF CertPart, OneEach
  <1>4. CASE ResetChallenge \/ ResetDiskFails
    <2>1. reset'.snapshot = reset.snapshot /\ UNCHANGED <<layout, saved, registry, stream>>
      BY <1>4 DEF ResetChallenge, ResetDiskFails, trust, TypeInv, PairingTypeOK, Resets
    <2> QED
      BY <2>1 DEF CertPart, OneEach
  <1> QED
    BY <1>1, <1>2, <1>3, <1>4 DEF ResetStep

\* Every step keeps one certificate per machine.
LEMMA StepCert == TypeInv /\ CertPart /\ [PairingNext]_pairingVars => CertPart'
  <1> SUFFICES ASSUME TypeInv, CertPart, [PairingNext]_pairingVars PROVE CertPart'
    OBVIOUS
  <1>1. ASSUME NEW c \in Controllers,
               \/ Request(c) \/ GiveUp(c) \/ ProbePeer(c) \/ Reinstall(c) \/ HearRequest(c)
               \/ \E code \in Codes : Confirm(c, code)
        PROVE  CertPart'
    <2>1. UNCHANGED <<layout, saved, registry, reset, stream>>
      BY <1>1 DEF Request, GiveUp, ProbePeer, Reinstall, HearRequest, Confirm, trust
    <2> QED BY <2>1, RenewCert
  <1>2. ASSUME NEW c \in Controllers, ReadAnswer(c) \/ Forget(c) PROVE CertPart'
    BY <1>2, RenewCert, NoStreamFacts DEF ReadAnswer, Forget, trust
  <1>3. ASSUME NEW c \in Controllers, NEW code \in Codes, AnswerRequest(c, code) PROVE CertPart'
    <2>1. UNCHANGED <<layout, saved, registry, reset>>
      BY <1>3 DEF AnswerRequest, trust
    <2> QED BY <1>3, <2>1, AnswerFacts, ArrivedFacts, RenewCert
  <1>4. ASSUME NEW c \in Controllers, StreamStep(c) \/ WriteTrustFails(c) PROVE CertPart'
    BY <1>4, StreamCert
  <1>5. CASE ResetTrust \/ ResetStep
    BY <1>5, ResetCert
  <1>6. CASE Expire \/ ShowStatus \/ Dismiss \/ UNCHANGED pairingVars
    BY <1>6 DEF Expire, ShowStatus, Dismiss, pairingVars, trust, CertPart, OneEach
  <1> QED
    BY <1>1, <1>2, <1>3, <1>4, <1>5, <1>6 DEF PairingNext

\* No list of trusted certificates ever names two for one machine, so
\* TrustedPeerRegistry::replace never refuses one and leaves the old in force.
THEOREM CertificatesAreOne == PairingSpec => []OneCertificate
  <1>1. PairingInit => CertPart
    BY NobodyOne DEF PairingInit, CertPart, NoStream, OneEach
  <1>2. CertPart => OneCertificate
    BY DEF CertPart, OneCertificate, OneEach
  <1> QED
    BY <1>1, <1>2, StepCert, PairingTypes, PTL DEF PairingSpec
-----------------------------------------------------------------------------
(* One stream at a time per controller.                                     *)

\* A confirmation that still waits for its challenge has no stream yet.
ConfirmPart == \A c \in Controllers : server[c].at = "confirm" => stream[c].at = "none"

\* A command ends or moves on; the commands of others are not touched.
LEMMA CommandFacts ==
    ASSUME TypeInv, NEW c \in Controllers
    PROVE  /\ \A r \in {"paired", "wrong", "failed"} :
                 EndCommand(c, r) => server'[c].at = "idle" /\ server'[c].result = r
           /\ \A r \in {"paired", "wrong", "failed"} :
                 EndCommand(c, r) => \A d \in Controllers \ {c} : server'[d] = server[d]
           /\ \A at \in {"idle", "sent", "probe"} :
                 server' = [server EXCEPT ![c].at = at]
                    => /\ server'[c].at = at /\ server'[c].result = server[c].result
                       /\ \A d \in Controllers \ {c} : server'[d] = server[d]
           /\ \A u \in UserCommands :
                 server' = [server EXCEPT ![c] = u]
                    => server'[c] = u /\ \A d \in Controllers \ {c} : server'[d] = server[d]
  BY DEF TypeInv, PairingTypeOK, EndCommand, UserCommands

\* A handler that has moved was there before.
LEMMA StreamConfirm ==
    ASSUME TypeInv, ConfirmPart, NEW c \in Controllers, StreamStep(c) \/ WriteTrustFails(c)
    PROVE  ConfirmPart'
  <1>1. stream[c].at # "none" /\ UNCHANGED server /\ \A d \in Controllers \ {c} : stream'[d] = stream[d]
    <2>1. CASE CheckCode(c) \/ TurnAway(c)
      BY <2>1, MoveFacts DEF CheckCode, TurnAway, Moved
    <2>2. CASE TakeTrust(c)
      BY <2>2, TakenFacts DEF TakeTrust
    <2>3. CASE WriteTrust(c)
      BY <2>3, MoveFacts DEF WriteTrust, Moved
    <2>4. CASE ReplaceTrust(c)
      BY <2>4, MoveFacts DEF ReplaceTrust, Moved
    <2>5. CASE WriteTrustFails(c)
      BY <2>5, MoveFacts DEF WriteTrustFails, Moved
    <2> QED BY <2>1, <2>2, <2>3, <2>4, <2>5 DEF StreamStep
  <1> QED
    BY <1>1 DEF ConfirmPart

\* Every step keeps to one stream per controller.
LEMMA StepConfirm == TypeInv /\ ConfirmPart /\ [PairingNext]_pairingVars => ConfirmPart'
  <1> SUFFICES ASSUME TypeInv, ConfirmPart, [PairingNext]_pairingVars PROVE ConfirmPart'
    OBVIOUS
  <1>1. ASSUME NEW c \in Controllers, Request(c) \/ Reinstall(c) PROVE ConfirmPart'
    <2>1. /\ UNCHANGED stream
          /\ \E u \in UserCommands : u.at # "confirm" /\ server' = [server EXCEPT ![c] = u]
      BY <1>1, TypeFacts DEF Request, Reinstall, NoCommand, UserCommands
    <2> QED BY <2>1, CommandFacts DEF ConfirmPart
  <1>2. ASSUME NEW c \in Controllers, GiveUp(c) \/ ProbePeer(c) PROVE ConfirmPart'
    <2>1. UNCHANGED stream /\ \E r \in {"paired", "failed"} : EndCommand(c, r)
      BY <1>2 DEF GiveUp, ProbePeer
    <2> QED BY <2>1, CommandFacts DEF ConfirmPart
  <1>3. ASSUME NEW c \in Controllers, ReadAnswer(c) \/ Forget(c) PROVE ConfirmPart'
    <2>1. stream' = [stream EXCEPT ![c] = NoStream]
      BY <1>3 DEF ReadAnswer, Forget
    <2>2. stream'[c].at = "none" /\ \A d \in Controllers \ {c} : stream'[d] = stream[d]
      BY <2>1, NoStreamFacts, RenewFacts
    <2>3. \A d \in Controllers \ {c} : server'[d] = server[d]
      BY <1>3, CommandFacts DEF ReadAnswer, Forget
    <2> QED BY <2>2, <2>3 DEF ConfirmPart
  <1>4. ASSUME NEW c \in Controllers, NEW code \in Codes, Confirm(c, code) PROVE ConfirmPart'
    <2>1. [at |-> "confirm", typed |-> code, result |-> "none"] \in UserCommands
      BY DEF UserCommands
    <2> QED BY <1>4, <2>1, CommandFacts DEF Confirm, ConfirmPart
  <1>5. ASSUME NEW c \in Controllers, NEW code \in Codes, AnswerRequest(c, code) PROVE ConfirmPart'
    <2>1. CASE UNCHANGED stream
      <3>1. \A d \in Controllers : server'[d].at = "confirm" => server[d].at = "confirm"
        BY <1>5, CommandFacts DEF AnswerRequest
      <3> QED BY <2>1, <3>1 DEF ConfirmPart
    <2>2. ASSUME server' = [server EXCEPT ![c].at = "sent"],
                 NEW known \in BOOLEAN, stream' = [stream EXCEPT ![c] = Arrived(c, known)]
          PROVE  ConfirmPart'
      <3>1. server'[c].at = "sent" /\ \A d \in Controllers \ {c} : server'[d] = server[d]
        BY <2>2, CommandFacts
      <3>2. \A d \in Controllers \ {c} : stream'[d] = stream[d]
        BY <2>2, ArrivedFacts, RenewFacts
      <3> QED BY <3>1, <3>2 DEF ConfirmPart
    <2> QED BY <1>5, <2>1, <2>2 DEF AnswerRequest, Arrived
  <1>6. ASSUME NEW c \in Controllers, StreamStep(c) \/ WriteTrustFails(c) PROVE ConfirmPart'
    BY <1>6, StreamConfirm
  <1>7. CASE Expire \/ ShowStatus \/ Dismiss \/ ResetTrust \/ ResetStep \/ UNCHANGED pairingVars
    BY <1>7 DEF Expire, ShowStatus, Dismiss, ResetTrust, ResetStep, ResetDisk, ResetDiskFails,
                ResetRegistry, ResetChallenge, pairingVars, ConfirmPart
  <1>8. ASSUME NEW c \in Controllers, HearRequest(c) PROVE ConfirmPart'
    BY <1>8 DEF HearRequest, ConfirmPart
  <1> QED
    BY <1>1, <1>2, <1>3, <1>4, <1>5, <1>6, <1>7, <1>8 DEF PairingNext

\* A pair-request sends a stream off only when there is none.
LEMMA AnswerSendsOne ==
    ASSUME TypeInv, ConfirmPart, NEW c \in Controllers, NEW code \in Codes, AnswerRequest(c, code)
    PROVE  \/ UNCHANGED stream
           \/ /\ stream[c].at = "none"
              /\ \E known \in BOOLEAN : stream' = [stream EXCEPT ![c] = Arrived(c, known)]
  BY DEF AnswerRequest, Arrived, ConfirmPart
-----------------------------------------------------------------------------
(* Memory, disk and registry agree.                                         *)

Writing(c) == stream[c].at \in {"written", "replace"}
Resetting == reset.at \in {"disk", "registry"}

\* One writer at a time, unless two have raced.
WriterPart ==
    /\ \A c, d \in Controllers : Writing(c) /\ Writing(d) => c = d
    /\ \A c \in Controllers : Writing(c) => ~Resetting

\* How far the one writer has come: what it has still to write is in memory.
ProgressPart ==
    /\ \A c \in Controllers :
        /\ stream[c].at = "written" => stream[c].snapshot = layout
        /\ stream[c].at = "replace" => saved = layout
    /\ Resetting => reset.snapshot = layout
    /\ reset.at = "registry" => saved = layout

QuietPart == ~raced => WriterPart /\ ProgressPart /\ RestartKeepsTrust

\* A writer is the reset or a handler that is writing.
LEMMA Writers == AnyWriter <=> Resetting \/ \E c \in Controllers : Writing(c)
  BY DEF AnyWriter, Resetting, Writing

\* A handler that neither writes nor comes to write changes nothing here.
LEMMA QuietUntouched ==
    ASSUME QuietPart, NEW c \in Controllers, ~Writing(c), ~Writing(c)',
           \A d \in Controllers \ {c} : stream'[d] = stream[d],
           UNCHANGED <<layout, saved, registry, reset, raced>>
    PROVE  QuietPart'
  <1> SUFFICES ASSUME ~raced PROVE WriterPart' /\ ProgressPart' /\ RestartKeepsTrust'
    BY DEF QuietPart
  <1>1. WriterPart /\ ProgressPart /\ RestartKeepsTrust
    BY DEF QuietPart
  <1>2. WriterPart'
    BY <1>1 DEF WriterPart, Writing, Resetting
  <1>3. ProgressPart'
    BY <1>1 DEF ProgressPart, Writing, Resetting
  <1>4. AnyWriter' <=> AnyWriter
    BY DEF AnyWriter, Writing
  <1>5. RestartKeepsTrust'
    BY <1>1, <1>4 DEF RestartKeepsTrust
  <1> QED BY <1>2, <1>3, <1>5

\* A controller's writes follow one another unless another writer comes.
LEMMA StreamQuiet ==
    ASSUME TypeInv, QuietPart, NEW c \in Controllers, StreamStep(c) \/ WriteTrustFails(c)
    PROVE  QuietPart'
  <1>1. CASE CheckCode(c) \/ TurnAway(c)
    <2>1. stream[c].at = "arrived" /\ (Moved(c, "matched") \/ Moved(c, "done"))
      BY <1>1, MoveFacts DEF CheckCode, TurnAway
    <2>2. ~Writing(c) /\ ~Writing(c)'
      BY <2>1 DEF Writing, Moved
    <2> QED
      BY <1>1, <2>1, <2>2, QuietUntouched DEF CheckCode, TurnAway, trust, Moved
  <1>2. CASE TakeTrust(c)
    <2> SUFFICES ASSUME ~raced' PROVE WriterPart' /\ ProgressPart' /\ RestartKeepsTrust'
      BY DEF QuietPart
    <2>1. ~raced /\ ~AnyWriter /\ UNCHANGED <<saved, registry, reset>>
      BY <1>2 DEF TakeTrust
    <2>2. ~Resetting /\ \A d \in Controllers : ~Writing(d)
      BY <2>1, Writers
    <2>3. \A d \in Controllers : Writing(d)' <=> d = c
      BY <1>2, <2>2, TakenFacts DEF Writing
    <2>4. ~Resetting' /\ AnyWriter'
      BY <1>2, <2>1, <2>2, TakenFacts DEF Resetting, AnyWriter
    <2>5. WriterPart'
      BY <2>3, <2>4 DEF WriterPart
    <2>6. ProgressPart'
      BY <1>2, <2>2, <2>4, TakenFacts DEF ProgressPart, Writing, Resetting
    <2> QED BY <2>4, <2>5, <2>6 DEF RestartKeepsTrust
  <1>3. CASE WriteTrust(c)
    <2> SUFFICES ASSUME ~raced' PROVE WriterPart' /\ ProgressPart' /\ RestartKeepsTrust'
      BY DEF QuietPart
    <2>1. /\ stream[c].at = "written" /\ Moved(c, "replace") /\ saved' = stream[c].snapshot
          /\ UNCHANGED <<layout, registry, reset, raced>>
      BY <1>3, MoveFacts DEF WriteTrust
    <2>2. WriterPart /\ ProgressPart
      BY <2>1 DEF QuietPart
    <2>3. saved' = layout
      BY <2>1, <2>2 DEF ProgressPart
    <2>4. ~Resetting /\ \A d \in Controllers \ {c} : ~Writing(d)
      BY <2>1, <2>2 DEF WriterPart, Writing
    <2>5. Writing(c)' /\ ~Resetting' /\ \A d \in Controllers \ {c} : ~Writing(d)'
      BY <2>1, <2>4 DEF Writing, Resetting, Moved
    <2>6. WriterPart' /\ AnyWriter'
      BY <2>5 DEF WriterPart, AnyWriter, Writing
    <2>7. ProgressPart'
      BY <2>1, <2>3, <2>5 DEF ProgressPart, Writing, Resetting, Moved
    <2> QED BY <2>6, <2>7 DEF RestartKeepsTrust
  <1>4. CASE ReplaceTrust(c)
    <2> SUFFICES ASSUME ~raced' PROVE WriterPart' /\ ProgressPart' /\ RestartKeepsTrust'
      BY DEF QuietPart
    <2>1. /\ stream[c].at = "replace" /\ Moved(c, "done") /\ registry' = layout.trusted
          /\ UNCHANGED <<layout, saved, reset, raced>>
      BY <1>4, MoveFacts DEF ReplaceTrust, Renewed
    <2>2. WriterPart /\ ProgressPart
      BY <2>1 DEF QuietPart
    <2>3. saved = layout
      BY <2>1, <2>2 DEF ProgressPart
    <2>4. ~Resetting /\ \A d \in Controllers \ {c} : ~Writing(d)
      BY <2>1, <2>2 DEF WriterPart, Writing
    <2>5. ~Resetting' /\ \A d \in Controllers : ~Writing(d)'
      BY <2>1, <2>4 DEF Writing, Resetting, Moved
    <2>6. WriterPart' /\ ProgressPart'
      BY <2>5 DEF WriterPart, ProgressPart, Writing, Resetting
    <2> QED BY <2>1, <2>3, <2>6 DEF RestartKeepsTrust
  <1>5. CASE WriteTrustFails(c)
    BY <1>5 DEF WriteTrustFails, QuietPart
  <1> QED
    BY <1>1, <1>2, <1>3, <1>4, <1>5 DEF StreamStep

\* So do those of a reset.
LEMMA ResetQuiet ==
    ASSUME TypeInv, QuietPart, ResetTrust \/ ResetStep
    PROVE  QuietPart'
  <1> SUFFICES ASSUME ~raced' PROVE WriterPart' /\ ProgressPart' /\ RestartKeepsTrust'
    BY DEF QuietPart
  <1>1. CASE ResetTrust
    <2>1. /\ ~raced /\ ~AnyWriter /\ layout' = Nobody
          /\ reset' = [at |-> "disk", snapshot |-> Nobody] /\ UNCHANGED <<saved, stream>>
      BY <1>1 DEF ResetTrust
    <2>2. \A d \in Controllers : ~Writing(d) /\ ~Writing(d)'
      BY <2>1, Writers DEF Writing
    <2>3. Resetting' /\ AnyWriter'
      BY <2>1 DEF Resetting, AnyWriter
    <2>4. WriterPart' /\ ProgressPart'
      BY <2>1, <2>2 DEF WriterPart, ProgressPart, Writing, Resetting
    <2> QED BY <2>3, <2>4 DEF RestartKeepsTrust
  <1>2. CASE ResetDisk
    <2>1. /\ ~raced /\ reset.at = "disk" /\ saved' = reset.snapshot /\ UNCHANGED <<layout, stream>>
          /\ reset'.at = "registry" /\ reset'.snapshot = reset.snapshot
      BY <1>2 DEF ResetDisk, DiskAfterReset, TypeInv, PairingTypeOK, Resets
    <2>2. WriterPart /\ ProgressPart
      BY <2>1 DEF QuietPart
    <2>3. \A d \in Controllers : ~Writing(d) /\ ~Writing(d)'
      BY <2>1, <2>2 DEF WriterPart, Writing, Resetting
    <2>4. saved' = layout' /\ reset'.snapshot = layout' /\ AnyWriter'
      BY <2>1, <2>2 DEF ProgressPart, Resetting, AnyWriter
    <2>5. WriterPart' /\ ProgressPart'
      BY <2>3, <2>4 DEF WriterPart, ProgressPart, Writing
    <2> QED BY <2>4, <2>5 DEF RestartKeepsTrust
  <1>3. CASE ResetRegistry
    <2>1. /\ ~raced /\ reset.at = "registry" /\ registry' = reset.snapshot.trusted
          /\ UNCHANGED <<layout, saved, stream>>
          /\ reset'.at = "challenge"
      BY <1>3 DEF ResetRegistry, TypeInv, PairingTypeOK, Resets
    <2>2. WriterPart /\ ProgressPart
      BY <2>1 DEF QuietPart
    <2>3. \A d \in Controllers : ~Writing(d) /\ ~Writing(d)'
      BY <2>1, <2>2 DEF WriterPart, Writing, Resetting
    <2>4. saved' = layout' /\ registry' = layout'.trusted
      BY <2>1, <2>2 DEF ProgressPart, Resetting
    <2>5. WriterPart' /\ ProgressPart'
      BY <2>1, <2>3 DEF WriterPart, ProgressPart, Writing, Resetting
    <2> QED BY <2>4, <2>5 DEF RestartKeepsTrust
  <1>4. CASE ResetChallenge
    <2>1. /\ ~raced /\ reset.at = "challenge" /\ reset'.at = "none"
          /\ UNCHANGED <<layout, saved, registry, stream>>
      BY <1>4 DEF ResetChallenge, trust, TypeInv, PairingTypeOK, Resets
    <2>2. WriterPart /\ ProgressPart /\ RestartKeepsTrust
      BY <2>1 DEF QuietPart
    <2>3. WriterPart' /\ ProgressPart'
      BY <2>1, <2>2 DEF WriterPart, ProgressPart, Writing, Resetting
    <2>4. AnyWriter' <=> AnyWriter
      BY <2>1 DEF AnyWriter
    <2> QED BY <2>1, <2>2, <2>3, <2>4 DEF RestartKeepsTrust
  <1>5. CASE ResetDiskFails
    BY <1>5 DEF ResetDiskFails
  <1> QED
    BY <1>1, <1>2, <1>3, <1>4, <1>5 DEF ResetStep

\* Every step keeps memory, disk and registry together.
LEMMA StepQuiet == TypeInv /\ ConfirmPart /\ QuietPart /\ [PairingNext]_pairingVars => QuietPart'
  <1> SUFFICES ASSUME TypeInv, ConfirmPart, QuietPart, [PairingNext]_pairingVars PROVE QuietPart'
    OBVIOUS
  <1> DEFINE held == <<layout, saved, registry, reset, raced>>
  <1>1. ASSUME UNCHANGED held, UNCHANGED stream PROVE QuietPart'
    BY <1>1 DEF QuietPart, WriterPart, ProgressPart, RestartKeepsTrust, AnyWriter, Writing, Resetting
  <1>2. ASSUME NEW c \in Controllers,
               \/ Request(c) \/ GiveUp(c) \/ ProbePeer(c) \/ Reinstall(c) \/ HearRequest(c)
               \/ \E code \in Codes : Confirm(c, code)
        PROVE  QuietPart'
    BY <1>1, <1>2 DEF Request, GiveUp, ProbePeer, Reinstall, HearRequest, Confirm, trust
  <1>3. ASSUME NEW c \in Controllers, ReadAnswer(c) \/ Forget(c) PROVE QuietPart'
    <2>1. stream[c].at = "done" /\ stream' = [stream EXCEPT ![c] = NoStream] /\ UNCHANGED held
      BY <1>3 DEF ReadAnswer, Forget, trust
    <2>2. stream'[c] = NoStream /\ \A d \in Controllers \ {c} : stream'[d] = stream[d]
      BY <2>1, NoStreamFacts, RenewFacts
    <2>3. ~Writing(c) /\ ~Writing(c)'
      BY <2>1, <2>2, NoStreamFacts DEF Writing
    <2> QED BY <2>1, <2>2, <2>3, QuietUntouched
  <1>4. ASSUME NEW c \in Controllers, NEW code \in Codes, AnswerRequest(c, code)
        PROVE  QuietPart'
    <2>1. UNCHANGED held
      BY <1>4 DEF AnswerRequest, trust
    <2>2. CASE UNCHANGED stream
      BY <1>1, <2>1, <2>2
    <2>3. ASSUME stream[c].at = "none",
                 NEW known \in BOOLEAN, stream' = [stream EXCEPT ![c] = Arrived(c, known)]
          PROVE  QuietPart'
      <3>1. stream'[c] = Arrived(c, known) /\ \A d \in Controllers \ {c} : stream'[d] = stream[d]
        BY <2>3, ArrivedFacts, RenewFacts
      <3>2. ~Writing(c) /\ ~Writing(c)'
        BY <2>3, <3>1, ArrivedFacts DEF Writing
      <3> QED BY <2>1, <3>1, <3>2, QuietUntouched
    <2> QED BY <1>4, <2>2, <2>3, AnswerSendsOne
  <1>5. ASSUME NEW c \in Controllers, StreamStep(c) \/ WriteTrustFails(c) PROVE QuietPart'
    BY <1>5, StreamQuiet
  <1>6. CASE ResetTrust \/ ResetStep
    BY <1>6, ResetQuiet
  <1>7. CASE Expire \/ ShowStatus \/ Dismiss \/ UNCHANGED pairingVars
    BY <1>1, <1>7 DEF Expire, ShowStatus, Dismiss, pairingVars, trust
  <1> QED
    BY <1>2, <1>3, <1>4, <1>5, <1>6, <1>7 DEF PairingNext

\* Whenever nobody is changing them, memory, disk and registry agree, unless two
\* commands raced or a write failed: a restart brings no reset trust back and
\* forgets none (write_layout_to_disk, reset_pairing).
THEOREM RestartsKeepTrust == PairingSpec => []RestartKeepsTrust
  <1> DEFINE all == TypeInv /\ ConfirmPart /\ QuietPart
  <1>1. PairingInit => ConfirmPart
    BY DEF PairingInit, ConfirmPart, NoCommand
  <1>2. PairingInit => QuietPart
    BY DEF PairingInit, QuietPart, WriterPart, ProgressPart, RestartKeepsTrust, Writing, Resetting,
           NoStream, Nobody
  <1>3. PairingInit => all
    BY <1>1, <1>2, InitTypeInv
  <1>4. all /\ [PairingNext]_pairingVars => all'
    BY StepTypeInv, StepConfirm, StepQuiet
  <1> HIDE DEF all
  <1>5. all => (~raced => RestartKeepsTrust)
    BY DEF all, QuietPart
  <1>6. all => RestartKeepsTrust
    BY <1>5 DEF RestartKeepsTrust
  <1> QED
    BY <1>3, <1>4, <1>6, PTL DEF PairingSpec
-----------------------------------------------------------------------------
(* A controller that was told it is paired is authenticated.                *)

\* The controllers to which the client has agreed, or will have.
Told(c) ==
    \/ server[c].result = "paired"
    \/ server[c].at = "probe"
    \/ stream[c].at = "done" /\ stream[c].answer = "ok"

\* A stream carries the certificate its controller has now.
FreshPart == \A c \in Controllers : stream[c].at # "none" => stream[c].cert = cert[c]

\* What a stream writes stays in memory until a reset.
KeptPart ==
    \A c \in Controllers : ~since[c] /\ Writing(c) => <<c, stream[c].cert>> \in layout.trusted

\* What was promised is in memory and in force until a reset.
ToldPart ==
    \A c \in Controllers :
        ~since[c] /\ Told(c) => <<c, cert[c]>> \in layout.trusted /\ <<c, cert[c]>> \in registry

TrustPart == FreshPart /\ KeptPart /\ ToldPart

\* A step that only weakens what was promised to one controller.
LEMMA TrustUntouched ==
    ASSUME TrustPart, NEW c \in Controllers, UNCHANGED <<layout, registry, cert>>,
           \A d \in Controllers \ {c} : stream'[d] = stream[d] /\ server'[d] = server[d] /\ since'[d] = since[d],
           stream'[c].at # "none" => stream'[c].cert = cert[c],
           ~since'[c] /\ Writing(c)' => ~since[c] /\ Writing(c) /\ stream'[c].cert = stream[c].cert,
           ~since'[c] /\ Told(c)' => ~since[c] /\ Told(c)
    PROVE  TrustPart'
  <1>1. FreshPart'
    BY DEF TrustPart, FreshPart
  <1>2. KeptPart'
    BY DEF TrustPart, KeptPart, Writing
  <1>3. ToldPart'
    BY DEF TrustPart, ToldPart, Told
  <1> QED BY <1>1, <1>2, <1>3 DEF TrustPart

\* A reset takes every promise back.
LEMMA ResetTakesBack ==
    ASSUME TrustPart, since' = [c \in Controllers |-> TRUE], UNCHANGED <<stream, cert>>
    PROVE  TrustPart'
  BY DEF TrustPart, FreshPart, KeptPart, ToldPart

\* The steps of a stream: first memory, then the registry, then the answer.
LEMMA StreamTrust ==
    ASSUME TypeInv, TrustPart, NEW c \in Controllers, StreamStep(c) \/ WriteTrustFails(c)
    PROVE  TrustPart'
  <1>1. CASE CheckCode(c) \/ TurnAway(c)
    <2>1. stream[c].at = "arrived" /\ UNCHANGED <<layout, registry, cert, server, since>>
      BY <1>1 DEF CheckCode, TurnAway, trust
    <2>2. \/ Moved(c, "matched")
          \/ Moved(c, "done") /\ stream'[c].answer = "reject"
      BY <1>1, MoveFacts DEF CheckCode, TurnAway
    <2>3. ~Writing(c)' /\ (Told(c)' => Told(c))
      BY <2>1, <2>2 DEF Writing, Told, Moved
    <2>4. stream'[c].cert = cert[c] /\ \A d \in Controllers \ {c} : stream'[d] = stream[d]
      BY <2>1, <2>2 DEF Moved, TrustPart, FreshPart
    <2> QED
      BY <2>1, <2>3, <2>4, TrustUntouched
  <1>2. CASE TakeTrust(c)
    <2>1. UNCHANGED <<registry, cert, server, since>>
      BY <1>2 DEF TakeTrust
    <2>2. stream[c].cert = cert[c]
      BY <1>2, TakenFacts DEF TrustPart, FreshPart
    <2> DEFINE held == layout.trusted
    <2>3. /\ layout'.trusted = Upsert(held, c, cert[c])
          /\ \A d \in Controllers \ {c} : stream'[d] = stream[d]
          /\ stream'[c].at = "written" /\ stream'[c].cert = cert[c]
      <3>1. layout' = Taken(c)
        BY <1>2, TakenFacts
      <3>2. Taken(c).trusted = Upsert(held, c, cert[c])
        BY <2>2 DEF Taken
      <3>3. layout'.trusted = Upsert(held, c, cert[c])
        BY <3>1, <3>2
      <3> QED BY <1>2, <2>2, <3>3, TakenFacts
    <2>4. <<c, cert[c]>> \in layout'.trusted
      BY <2>3 DEF Upsert
    <2>5. \A d \in Controllers \ {c}, k \in Certs :
              <<d, k>> \in layout.trusted => <<d, k>> \in layout'.trusted
      BY <2>3 DEF Upsert
    <2>6. FreshPart'
      BY <2>1, <2>3 DEF TrustPart, FreshPart
    <2>7. \A d \in Controllers : stream[d].cert \in Certs /\ cert[d] \in Certs
      BY DEF TypeInv, PairingTypeOK, Handlers
    <2>8. KeptPart'
      BY <2>1, <2>3, <2>4, <2>5, <2>7 DEF TrustPart, KeptPart, Writing
    <2>9. Told(c)' => Told(c)
      BY <2>1, <2>3 DEF Told
    <2>10. ToldPart'
      BY <2>1, <2>3, <2>4, <2>5, <2>7, <2>9 DEF TrustPart, ToldPart, Told
    <2> QED BY <2>6, <2>8, <2>10 DEF TrustPart
  <1>3. CASE WriteTrust(c)
    <2>1. /\ stream[c].at = "written" /\ UNCHANGED <<layout, registry, cert, server, since>>
          /\ Moved(c, "replace")
      BY <1>3, MoveFacts DEF WriteTrust
    <2>2. Writing(c) /\ (Told(c)' => Told(c))
      BY <2>1 DEF Writing, Told, Moved
    <2> QED
      BY <2>1, <2>2, TrustUntouched DEF Moved, TrustPart, FreshPart
  <1>4. CASE ReplaceTrust(c)
    <2>1. /\ stream[c].at = "replace" /\ registry' = layout.trusted
          /\ UNCHANGED <<layout, cert, server, since>> /\ Moved(c, "done")
      BY <1>4, MoveFacts DEF ReplaceTrust, Renewed
    <2>2. FreshPart'
      BY <2>1 DEF TrustPart, FreshPart, Moved
    <2>3. KeptPart'
      BY <2>1 DEF TrustPart, KeptPart, Writing, Moved
    <2>4. stream[c].cert = cert[c] /\ Writing(c)
      BY <2>1 DEF TrustPart, FreshPart, Writing
    <2>5. ~since[c] => <<c, cert[c]>> \in layout.trusted
      BY <2>4 DEF TrustPart, KeptPart
    <2>6. \A d \in Controllers \ {c} : Told(d)' => Told(d)
      BY <2>1 DEF Told, Moved
    <2>7. ToldPart'
      BY <2>1, <2>5, <2>6 DEF TrustPart, ToldPart
    <2> QED BY <2>2, <2>3, <2>7 DEF TrustPart
  <1>5. CASE WriteTrustFails(c)
    <2>1. /\ stream[c].at = "written" /\ UNCHANGED <<layout, registry, cert, server, since>>
          /\ Moved(c, "done") /\ stream'[c].answer = "reject"
      BY <1>5, MoveFacts DEF WriteTrustFails, trust
    <2>2. ~Writing(c)' /\ (Told(c)' => Told(c))
      BY <2>1 DEF Writing, Told, Moved
    <2> QED
      BY <2>1, <2>2, TrustUntouched DEF Moved, TrustPart, FreshPart
  <1> QED
    BY <1>1, <1>2, <1>3, <1>4, <1>5 DEF StreamStep

\* A controller's command promises nothing that the client has not agreed to.
LEMMA CommandTrust ==
    ASSUME TypeInv, TrustPart, NEW c \in Controllers,
           Request(c) \/ GiveUp(c) \/ ReadAnswer(c) \/ Forget(c) \/ ProbePeer(c)
    PROVE  TrustPart'
  <1>1. UNCHANGED <<layout, registry, cert, since>>
    BY DEF Request, GiveUp, ReadAnswer, Forget, ProbePeer, trust
  <1>2. CASE Request(c)
    <2>1. server'[c] = [NoCommand EXCEPT !.at = "request"] /\ UNCHANGED stream
          /\ \A d \in Controllers \ {c} : server'[d] = server[d]
      BY <1>2 DEF Request, TypeInv, PairingTypeOK
    <2>2. server'[c].result = "none" /\ server'[c].at = "request"
      BY <2>1 DEF NoCommand
    <2> QED
      BY <1>1, <2>1, <2>2, TrustUntouched DEF TrustPart, FreshPart, Writing, Told
  <1>3. CASE GiveUp(c)
    <2>1. server'[c].at = "idle" /\ server'[c].result = "failed" /\ UNCHANGED stream
          /\ \A d \in Controllers \ {c} : server'[d] = server[d]
      BY <1>3, CommandFacts DEF GiveUp
    <2> QED
      BY <1>1, <2>1, TrustUntouched DEF TrustPart, FreshPart, Writing, Told
  <1>4. CASE ReadAnswer(c)
    <2>1. stream[c].at = "done" /\ stream' = [stream EXCEPT ![c] = NoStream]
      BY <1>4 DEF ReadAnswer
    <2>2. stream'[c].at = "none" /\ \A d \in Controllers \ {c} : stream'[d] = stream[d]
      BY <2>1, NoStreamFacts, RenewFacts
    <2>3. CASE stream[c].answer = "ok"
      <3>1. server' = [server EXCEPT ![c].at = "probe"]
        BY <1>4, <2>3 DEF ReadAnswer
      <3>2. Told(c) /\ \A d \in Controllers \ {c} : server'[d] = server[d]
        BY <2>1, <2>3, <3>1, CommandFacts DEF Told
      <3> QED
        BY <1>1, <2>2, <3>2, TrustUntouched DEF Writing
    <2>4. CASE stream[c].answer # "ok"
      <3>1. server'[c].at = "idle" /\ server'[c].result = "wrong"
            /\ \A d \in Controllers \ {c} : server'[d] = server[d]
        BY <1>4, <2>4, CommandFacts DEF ReadAnswer
      <3>2. ~Told(c)'
        BY <2>2, <3>1 DEF Told
      <3> QED
        BY <1>1, <2>2, <3>1, <3>2, TrustUntouched DEF Writing
    <2> QED BY <2>3, <2>4
  <1>5. CASE Forget(c)
    <2>1. stream' = [stream EXCEPT ![c] = NoStream] /\ UNCHANGED server
      BY <1>5 DEF Forget
    <2>2. stream'[c].at = "none" /\ \A d \in Controllers \ {c} : stream'[d] = stream[d]
      BY <2>1, NoStreamFacts, RenewFacts
    <2>3. Told(c)' => Told(c)
      BY <2>1, <2>2 DEF Told
    <2> QED
      BY <1>1, <2>1, <2>2, <2>3, TrustUntouched DEF Writing
  <1>6. CASE ProbePeer(c)
    <2>1. server[c].at = "probe" /\ UNCHANGED stream
          /\ \A d \in Controllers \ {c} : server'[d] = server[d]
      BY <1>6, CommandFacts DEF ProbePeer
    <2>2. Told(c)
      BY <2>1 DEF Told
    <2> QED
      BY <1>1, <2>1, <2>2, TrustUntouched DEF TrustPart, FreshPart, Writing
  <1> QED
    BY <1>2, <1>3, <1>4, <1>5, <1>6

\* A new confirmation or a new certificate starts with no promise, and a sent
\* confirmation carries the certificate of now.
LEMMA StartTrust ==
    ASSUME TypeInv, ConfirmPart, TrustPart, NEW c \in Controllers,
           Reinstall(c) \/ \E code \in Codes : Confirm(c, code) \/ AnswerRequest(c, code)
    PROVE  TrustPart'
  <1>1. CASE Reinstall(c)
    <2>1. /\ stream[c].at = "none" /\ server' = [server EXCEPT ![c] = NoCommand]
          /\ UNCHANGED <<layout, registry, stream, since>>
          /\ \A d \in Controllers \ {c} : cert'[d] = cert[d]
      BY <1>1 DEF Reinstall, trust, TypeInv, PairingTypeOK
    <2>2. server'[c] = NoCommand /\ \A d \in Controllers \ {c} : server'[d] = server[d]
      BY <2>1, TypeFacts, CommandFacts
    <2>3. ~Writing(c)' /\ ~Told(c)'
      BY <2>1, <2>2 DEF Writing, Told, NoCommand
    <2>4. FreshPart' /\ KeptPart'
      BY <2>1, <2>3 DEF TrustPart, FreshPart, KeptPart, Writing
    <2>5. ToldPart'
      BY <2>1, <2>2, <2>3 DEF TrustPart, ToldPart, Told
    <2> QED BY <2>4, <2>5 DEF TrustPart
  <1>2. ASSUME NEW code \in Codes, Confirm(c, code) PROVE TrustPart'
    <2>1. /\ stream[c].at = "none" /\ UNCHANGED <<layout, registry, stream, cert>>
          /\ server' = [server EXCEPT ![c] = [at |-> "confirm", typed |-> code, result |-> "none"]]
          /\ \A d \in Controllers \ {c} : since'[d] = since[d]
      BY <1>2 DEF Confirm, trust, TypeInv, PairingTypeOK
    <2>2. [at |-> "confirm", typed |-> code, result |-> "none"] \in UserCommands
      BY DEF UserCommands
    <2>3. server'[c].at = "confirm" /\ server'[c].result = "none"
          /\ \A d \in Controllers \ {c} : server'[d] = server[d]
      BY <2>1, <2>2 DEF TypeInv, PairingTypeOK
    <2>4. ~Writing(c)' /\ ~Told(c)'
      BY <2>1, <2>3 DEF Writing, Told
    <2> QED
      BY <2>1, <2>3, <2>4, TrustUntouched
  <1>3. ASSUME NEW code \in Codes, AnswerRequest(c, code) PROVE TrustPart'
    <2>1. UNCHANGED <<layout, registry, cert, since>>
      BY <1>3 DEF AnswerRequest, trust
    <2>2. /\ server'[c].at # "probe" \/ server'[c].at = server[c].at
          /\ server'[c].result = server[c].result
          /\ \A d \in Controllers \ {c} : server'[d] = server[d]
      BY <1>3, CommandFacts DEF AnswerRequest
    <2>3. CASE UNCHANGED stream
      BY <2>1, <2>2, <2>3, TrustUntouched DEF TrustPart, FreshPart, Writing, Told
    <2>4. ASSUME stream[c].at = "none",
                 NEW known \in BOOLEAN, stream' = [stream EXCEPT ![c] = Arrived(c, known)]
          PROVE  TrustPart'
      <3>1. stream'[c] = Arrived(c, known) /\ \A d \in Controllers \ {c} : stream'[d] = stream[d]
        BY <2>4, ArrivedFacts, RenewFacts
      <3>2. ~Writing(c)' /\ stream'[c].cert = cert[c] /\ (Told(c)' => Told(c))
        BY <2>2, <3>1, ArrivedFacts DEF Writing, Told
      <3> QED
        BY <2>1, <2>2, <3>1, <3>2, TrustUntouched
    <2> QED BY <1>3, <2>3, <2>4, AnswerSendsOne
  <1> QED BY <1>1, <1>2, <1>3

\* Every step keeps what was promised.
LEMMA StepTrust == TypeInv /\ ConfirmPart /\ TrustPart /\ [PairingNext]_pairingVars => TrustPart'
  <1> SUFFICES ASSUME TypeInv, ConfirmPart, TrustPart, [PairingNext]_pairingVars PROVE TrustPart'
    OBVIOUS
  <1>1. ASSUME NEW c \in Controllers,
               Request(c) \/ GiveUp(c) \/ ReadAnswer(c) \/ Forget(c) \/ ProbePeer(c)
        PROVE  TrustPart'
    BY <1>1, CommandTrust
  <1>2. ASSUME NEW c \in Controllers,
               Reinstall(c) \/ \E code \in Codes : Confirm(c, code) \/ AnswerRequest(c, code)
        PROVE  TrustPart'
    BY <1>2, StartTrust
  <1>3. ASSUME NEW c \in Controllers, StreamStep(c) \/ WriteTrustFails(c) PROVE TrustPart'
    BY <1>3, StreamTrust
  <1>4. CASE ResetTrust \/ ResetRegistry
    BY <1>4, ResetTakesBack DEF ResetTrust, ResetRegistry
  <1>5. CASE Expire \/ ShowStatus \/ Dismiss \/ ResetDisk \/ ResetDiskFails \/ ResetChallenge
             \/ (\E c \in Controllers : HearRequest(c)) \/ UNCHANGED pairingVars
    BY <1>5 DEF Expire, ShowStatus, Dismiss, ResetDisk, ResetDiskFails, ResetChallenge, HearRequest,
                pairingVars, trust, TrustPart, FreshPart, KeptPart, ToldPart, Writing, Told
  <1> QED
    BY <1>1, <1>2, <1>3, <1>4, <1>5 DEF PairingNext, ResetStep

\* A controller that was told "paired" is authenticated from its next connection
\* on, unless the pairing was reset since (complete_pairing_from_confirm).
THEOREM PairedAreTrusted == PairingSpec => []PairedIsTrusted
  <1> DEFINE all == TypeInv /\ ConfirmPart /\ TrustPart
  <1>1. PairingInit => ConfirmPart
    BY DEF PairingInit, ConfirmPart, NoCommand
  <1>2. PairingInit => TrustPart
    BY DEF PairingInit, TrustPart, FreshPart, KeptPart, ToldPart, Writing, Told, NoStream, NoCommand
  <1>3. PairingInit => all
    BY <1>1, <1>2, InitTypeInv
  <1>4. all /\ [PairingNext]_pairingVars => all'
    BY StepTypeInv, StepConfirm, StepTrust
  <1>5. all => PairedIsTrusted
    BY DEF TrustPart, ToldPart, Told, PairedIsTrusted
  <1> HIDE DEF all
  <1> QED
    BY <1>3, <1>4, <1>5, PTL DEF PairingSpec
-----------------------------------------------------------------------------
(* The owner of the code.                                                   *)

\* A step that changes a challenge into one of another controller finds it
\* expired.
LEMMA StepOwner ==
    ASSUME TypeInv, [PairingNext]_pairingVars, challenge # NoOne, challenge' # NoOne,
           challenge'.from # challenge.from
    PROVE  challenge.expired
  <1>1. challenge \in Challenges
    BY DEF TypeInv, PairingTypeOK
  <1>2. ASSUME NEW c \in Controllers, NEW code \in Codes, AnswerRequest(c, code)
        PROVE  challenge.expired
    <2>1. MayChallenge(c) /\ challenge' = Begin(c, code)
      BY <1>2 DEF AnswerRequest
    <2>2. CASE challenge.from = c /\ ~challenge.expired
      <3>1. Begin(c, code).from = c
        BY <1>1, <2>2 DEF Begin, Challenges
      <3> QED BY <2>1, <2>2, <3>1
    <2> QED BY <2>1, <2>2 DEF MayChallenge
  <1>3. ASSUME NEW c \in Controllers, CheckCode(c) PROVE challenge.expired
    <2>1. challenge' = challenge \/ challenge' = [challenge EXCEPT !.attempts = @ + 1]
      BY <1>3 DEF CheckCode
    <2> QED BY <1>1, <2>1 DEF Challenges
  <1>4. CASE Expire
    BY <1>1, <1>4 DEF Expire, Challenges
  <1>5. CASE ShowStatus \/ Dismiss \/ ResetStep
    BY <1>5 DEF ShowStatus, Dismiss, ResetStep, ResetDisk, ResetDiskFails, ResetRegistry, ResetChallenge
  <1>6. ASSUME NEW c \in Controllers,
               \/ Request(c) \/ GiveUp(c) \/ ReadAnswer(c) \/ Forget(c) \/ ProbePeer(c) \/ Reinstall(c)
               \/ HearRequest(c) \/ TurnAway(c)
               \/ TakeTrust(c) \/ WriteTrust(c) \/ ReplaceTrust(c) \/ WriteTrustFails(c)
               \/ \E code \in Codes : Confirm(c, code)
        PROVE  challenge.expired
    <2>1. UNCHANGED challenge
      BY <1>6 DEF Request, GiveUp, ReadAnswer, Forget, ProbePeer, Reinstall, HearRequest, TurnAway, TakeTrust, WriteTrust,
                  ReplaceTrust, WriteTrustFails, Confirm
    <2> QED BY <2>1
  <1>7. CASE ResetTrust \/ UNCHANGED pairingVars
    BY <1>7 DEF ResetTrust, pairingVars
  <1> QED
    BY <1>2, <1>3, <1>4, <1>5, <1>6, <1>7 DEF PairingNext, StreamStep

\* The code on the screen belongs to the controller that asked first: another one
\* gets the challenge only when it has expired (begin_pairing_challenge).
THEOREM ChallengesKeepOwner == PairingSpec => ChallengeKeepsOwner
  <1> DEFINE changed == challenge # NoOne /\ challenge' # NoOne /\ challenge'.from # challenge.from
  <1>1. TypeInv /\ [PairingNext]_pairingVars => [changed => challenge.expired]_pairingVars
    BY StepOwner
  <1> QED
    BY <1>1, PairingTypes, PTL DEF PairingSpec, ChallengeKeepsOwner

(***************************************************************************)
(* The settings.                                                           *)
(***************************************************************************)
Layout ==
    [role : {"unset", "server", "client"}, edits : SUBSET Nat,
     paired : SUBSET Peers, trusted : SUBSET Peers]
Shown == [layout : Layout, started : BOOLEAN]
Call ==
    [op : {"save", "client"}, layout : Layout]
    \cup [op : {"load", "poll", "status", "reset", "start", "stop", "toggle"}, layout : {Nothing}]
WindowAnswer ==
    [op : {"load", "poll", "save", "client", "reset", "start", "stop", "toggle"},
     ok : BOOLEAN, snap : Shown]

\* Every place holds a whole layout, the file perhaps a torn one; a command that
\* saves carries one, and no other does.
SettingsTypes ==
    /\ memory \in Layout /\ disk \in Layout \cup {Torn} /\ storing \in Layout \cup {Nothing}
    /\ read \in Layout \cup {Torn, Nothing}
    /\ running \in BOOLEAN /\ polled \in BOOLEAN /\ edits \in Nat
    /\ shown \in Shown /\ calls \in Seq(Call) /\ answers \in Seq(WindowAnswer)

\* Neither a torn file nor a missing one reads as a layout.
LEMMA LayoutsDiffer == Torn \notin Layout /\ Nothing \notin Layout
  <1>1. Torn.role = "torn" /\ Nothing.role = "none"
    BY DEF Torn, Nothing
  <1> QED
    BY <1>1 DEF Layout

\* What a merge keeps.
LEMMA MergesKeep ==
    ASSUME NEW new \in Layout, NEW old \in Layout
    PROVE  /\ MergeOwned(new, old) \in Layout /\ MergeDisk(new, old) \in Layout
           /\ MergeOwned(new, old).trusted = old.trusted
           /\ MergeOwned(new, old).role = new.role /\ MergeDisk(new, old).role = new.role
           /\ old.role = "client" /\ new.role = "client" /\ old.paired # {}
                 => MergeOwned(new, old).paired # {} /\ MergeDisk(new, old).paired # {}
  BY DEF MergeOwned, MergeDisk, Layout

\* What appending to a queue and taking its head make of it.
LEMMA QueuesKeep ==
    ASSUME NEW S, NEW s \in Seq(S)
    PROVE  /\ \A x \in S : Append(s, x) \in Seq(S) /\ Len(Append(s, x)) = Len(s) + 1
           /\ s # <<>> => Head(s) \in S /\ Tail(s) \in Seq(S) /\ Len(Tail(s)) = Len(s) - 1
           /\ Len(s) \in Nat /\ <<>> \in Seq(S)
  OBVIOUS

\* The initial state has its types.
LEMMA InitSettingsTypes == SettingsInit => SettingsTypes
  <1> SUFFICES ASSUME SettingsInit PROVE SettingsTypes
    OBVIOUS
  <1>1. PICK role \in {"unset", "server", "client"}, some \in {{}} \cup {{p} : p \in Peers} :
          disk = [DetectedLayout EXCEPT !.role = role, !.paired = some, !.trusted = some]
    BY DEF SettingsInit
  <1>2. some \in SUBSET Peers
    OBVIOUS
  <1>3. disk \in Layout
    BY <1>1, <1>2 DEF DetectedLayout, Layout
  <1>4. memory \in Layout /\ shown \in Shown
    BY <1>3 DEF SettingsInit, Shown
  <1>5. calls \in Seq(Call) /\ answers \in Seq(WindowAnswer)
    BY DEF SettingsInit
  <1>6. storing = Nothing /\ read = Nothing /\ running \in BOOLEAN /\ polled \in BOOLEAN /\ edits \in Nat
    BY DEF SettingsInit
  <1> QED
    BY <1>3, <1>4, <1>5, <1>6 DEF SettingsTypes

\* What a step of either kind has to show.
Keeps == SettingsTypes' /\ SavesKeepPairing /\ TrustIsTheProgrammes

\* An answer to the command at the head.
LEMMA AnswersKeep ==
    ASSUME SettingsTypes, calls # <<>>, NEW op, NEW ok \in BOOLEAN, NEW snap \in Shown,
           op \in {"load", "poll", "save", "client", "reset", "start", "stop", "toggle"}, Answer(op, ok, snap)
    PROVE  calls' \in Seq(Call) /\ answers' \in Seq(WindowAnswer)
  <1>1. calls' = Tail(calls)
    BY DEF Answer
  <1>2. [op |-> op, ok |-> ok, snap |-> snap] \in WindowAnswer
    BY DEF WindowAnswer
  <1>3. answers' \in {answers, Append(answers, [op |-> op, ok |-> ok, snap |-> snap])}
    BY DEF Answer
  <1>4. calls \in Seq(Call) /\ answers \in Seq(WindowAnswer)
    BY DEF SettingsTypes
  <1>5. calls' \in Seq(Call)
    BY <1>1, <1>4, QueuesKeep
  <1>6. answers' \in Seq(WindowAnswer)
    <2> DEFINE answer == [op |-> op, ok |-> ok, snap |-> snap]
    <2>1. answer \in WindowAnswer /\ answers \in Seq(WindowAnswer)
      BY <1>2, <1>4
    <2>2. answers' = answers \/ answers' = Append(answers, answer)
      BY <1>3
    <2> HIDE DEF answer
    <2>3. Append(answers, answer) \in Seq(WindowAnswer)
      BY <2>1, QueuesKeep
    <2> QED BY <2>1, <2>2, <2>3
  <1> QED
    BY <1>5, <1>6

\* A command on its way.
LEMMA AsksKeep ==
    ASSUME SettingsTypes, NEW op, NEW carried, [op |-> op, layout |-> carried] \in Call, Ask(op, carried)
    PROVE  calls' \in Seq(Call) /\ Len(calls') > Len(calls)
  <1>1. calls' = Append(calls, [op |-> op, layout |-> carried])
    BY DEF Ask
  <1> QED
    BY <1>1, QueuesKeep DEF SettingsTypes

\* The commands of the window that save, and those that do not.
LEMMA CallsAre ==
    /\ \A op \in {"save", "client"}, carried \in Layout : [op |-> op, layout |-> carried] \in Call
    /\ \A op \in {"load", "poll", "status", "reset", "start", "stop", "toggle"} :
          [op |-> op, layout |-> Nothing] \in Call
  BY DEF Call

\* A command at the head of the queue is a call of a process that is alive.
LEMMA HeadIsCall ==
    ASSUME SettingsTypes, NEW ops, AtHead(ops)
    PROVE  /\ alive /\ calls # <<>> /\ Head(calls) \in Call /\ Head(calls).op \in ops
           /\ Head(calls).op \in {"save", "client"} => Head(calls).layout \in Layout
  <1>1. Head(calls) \in Call
    BY QueuesKeep DEF AtHead, SettingsTypes
  <1> QED
    BY <1>1 DEF AtHead, Call

\* What was read is merged.
LEMMA ReadsKeep ==
    ASSUME SettingsTypes, read # Nothing, memory' = Refreshed
    PROVE  memory' \in Layout /\ SavesKeepPairing
  <1>1. CASE read = Torn
    BY <1>1 DEF Refreshed, SettingsTypes, SavesKeepPairing
  <1>2. CASE read # Torn
    <2>1. read \in Layout /\ memory \in Layout /\ memory' = MergeDisk(read, memory)
      BY <1>2 DEF SettingsTypes, Refreshed
    <2> QED
      BY <2>1, MergesKeep DEF SavesKeepPairing
  <1> QED BY <1>1, <1>2

\* Reading the file changes nothing yet.
LEMMA ReadDiskKeeps == ASSUME SettingsTypes, ReadDisk PROVE Keeps
  <1>1. /\ read' \in {disk, Torn}
        /\ UNCHANGED <<shown, calls, answers, polled, memory, running, storing, disk, edits>>
    BY DEF ReadDisk, view
  <1> QED
    BY <1>1 DEF SettingsTypes, Keeps, SavesKeepPairing, TrustIsTheProgrammes

\* load_layout keeps the types and the promises of the settings.
LEMMA LoadKeeps == ASSUME SettingsTypes, Load PROVE Keeps
  <1>1. /\ AtHead({"load", "poll"}) /\ Head(calls).op \in {"load", "poll"} /\ calls # <<>>
        /\ read # Nothing /\ memory' = Refreshed /\ read' = Nothing
        /\ UNCHANGED <<shown, polled, running, storing, disk, edits>>
    BY HeadIsCall DEF Load, view
  <1>2. memory' \in Layout /\ SavesKeepPairing
    BY <1>1, ReadsKeep DEF SettingsTypes, SavesKeepPairing
  <1> DEFINE snap == [layout |-> memory', started |-> IF Head(calls).op = "poll" THEN polled ELSE running]
  <1>3. snap \in Shown
    BY <1>2 DEF SettingsTypes, Shown
  <1>4. Answer(Head(calls).op, TRUE, snap)
    BY DEF Load
  <1> HIDE DEF snap
  <1>5. calls' \in Seq(Call) /\ answers' \in Seq(WindowAnswer)
    BY <1>1, <1>3, <1>4, AnswersKeep
  <1>6. TrustIsTheProgrammes
    BY <1>1 DEF TrustIsTheProgrammes, AtHead
  <1> QED
    BY <1>1, <1>2, <1>5, <1>6 DEF SettingsTypes, Keeps

\* save_layout keeps them.
LEMMA SaveKeeps == ASSUME SettingsTypes, SaveLayout PROVE Keeps
  <1> DEFINE op == Head(calls).op
             incoming == Head(calls).layout
             merged == MergeOwned(incoming, memory)
             told == [layout |-> merged, started |-> running]
  <1>1. op \in {"save", "client"} /\ calls # <<>> /\ incoming \in Layout
        /\ UNCHANGED <<shown, polled, running, read, storing, edits>>
    BY HeadIsCall DEF SaveLayout, view
  <1>2. /\ merged \in Layout /\ merged.trusted = memory.trusted /\ merged.role = incoming.role
        /\ memory.role = "client" /\ incoming.role = "client" /\ memory.paired # {}
              => merged.paired # {}
    BY <1>1, MergesKeep DEF SettingsTypes
  <1>3. \/ disk' = merged /\ memory' = merged /\ \E ok \in BOOLEAN : Answer(op, ok, told)
        \/ disk' \in {disk, Torn} /\ memory' = memory /\ Answer(op, FALSE, Snapshot)
    BY DEF SaveLayout, Writes, WriteFails
  <1> HIDE DEF merged
  <1>4. told \in Shown /\ Snapshot \in Shown
    BY <1>2 DEF SettingsTypes, Shown, Snapshot
  <1> HIDE DEF op, incoming, told
  <1>5. calls' \in Seq(Call) /\ answers' \in Seq(WindowAnswer)
    BY <1>1, <1>3, <1>4, AnswersKeep
  <1>6. memory' \in Layout /\ disk' \in Layout \cup {Torn}
    BY <1>2, <1>3 DEF SettingsTypes
  <1>7. SavesKeepPairing /\ TrustIsTheProgrammes
    BY <1>2, <1>3 DEF SavesKeepPairing, TrustIsTheProgrammes
  <1> QED
    BY <1>1, <1>5, <1>6, <1>7 DEF SettingsTypes, Keeps

\* reset_pairing keeps them.
LEMMA ResetKeeps == ASSUME SettingsTypes, ResetPairing PROVE Keeps
  <1>0. AtHead({"reset"})
    BY DEF ResetPairing
  <1>1. /\ AtHead({"reset"}) /\ calls # <<>> /\ memory' = ResetLayout(memory)
        /\ disk' = memory' \/ disk' = disk \/ disk' = Torn
        /\ UNCHANGED <<shown, polled, running, read, storing, edits>>
    BY <1>0 DEF AtHead, ResetPairing, Writes, WriteFails, view
  <1>2. memory' \in Layout
    BY <1>1 DEF ResetLayout, SettingsTypes, Layout
  <1> DEFINE told == [layout |-> memory', started |-> running]
  <1>3. told \in Shown /\ Snapshot \in Shown
    BY <1>2 DEF SettingsTypes, Shown, Snapshot
  <1>4. (\E ok \in BOOLEAN : Answer("reset", ok, told)) \/ Answer("reset", FALSE, Snapshot)
    BY DEF ResetPairing
  <1> HIDE DEF told
  <1>5. calls' \in Seq(Call) /\ answers' \in Seq(WindowAnswer)
    BY <1>1, <1>3, <1>4, AnswersKeep
  <1>6. SavesKeepPairing /\ TrustIsTheProgrammes
    BY <1>1 DEF SavesKeepPairing, TrustIsTheProgrammes, AtHead
  <1> QED
    BY <1>1, <1>2, <1>5, <1>6 DEF SettingsTypes, Keeps

\* The start and stop of the service keep them.
LEMMA StartStopKeeps == ASSUME SettingsTypes, StartStop PROVE Keeps
  <1> DEFINE op == Head(calls).op
             starts == op \in (IF running THEN {"start"} ELSE {"start", "toggle"})
             told == [layout |-> memory', started |-> running']
  <1>1. /\ AtHead({"start", "stop", "toggle"}) /\ calls # <<>> /\ op \in {"start", "stop", "toggle"}
        /\ starts => read # Nothing
        /\ memory' = (IF starts THEN Refreshed ELSE memory) /\ read' = Nothing
        /\ \E ok \in {starts, TRUE} : running' = (IF ok THEN starts ELSE running) /\ Answer(op, ok, told)
        /\ UNCHANGED <<shown, polled, storing, disk, edits>>
    BY HeadIsCall DEF StartStop, view
  <1>2. starts \in BOOLEAN
    OBVIOUS
  <1> HIDE DEF starts
  <1>3. memory' \in Layout /\ SavesKeepPairing
    BY <1>1, ReadsKeep DEF SettingsTypes, SavesKeepPairing
  <1>4. PICK ok \in {starts, TRUE} : running' = (IF ok THEN starts ELSE running) /\ Answer(op, ok, told)
    BY <1>1, Zenon
  <1>5. ok \in BOOLEAN
    BY <1>2, <1>4, Zenon
  <1>6. running' \in BOOLEAN
    <2>1. running' = starts \/ running' = running
      BY <1>4
    <2> QED BY <1>2, <2>1, Zenon DEF SettingsTypes
  <1>7. told \in Shown
    BY <1>3, <1>6 DEF Shown
  <1>8. TrustIsTheProgrammes
    BY <1>1 DEF TrustIsTheProgrammes, AtHead
  <1> HIDE DEF op, told
  <1>9. calls' \in Seq(Call) /\ answers' \in Seq(WindowAnswer)
    BY <1>1, <1>4, <1>7, <1>5, AnswersKeep
  <1> QED
    BY <1>1, <1>3, <1>6, <1>8, <1>9 DEF SettingsTypes, Keeps

\* A toggle only comes to the head of the queue.
LEMMA ToggleSettingsKeeps == ASSUME SettingsTypes, Toggle PROVE Keeps
  <1> DEFINE first == [op |-> "toggle", layout |-> Nothing]
  <1>1. /\ calls' = <<first>> \o calls
        /\ UNCHANGED <<shown, answers, polled, memory, running, read, storing, disk, edits>>
    BY DEF Toggle, view
  <1>2. first \in Call /\ calls \in Seq(Call)
    BY CallsAre DEF SettingsTypes
  <1> HIDE DEF first
  <1>3. calls' \in Seq(Call) /\ Len(calls') > Len(calls)
    BY <1>1, <1>2
  <1> QED
    BY <1>1, <1>3 DEF SettingsTypes, Keeps, SavesKeepPairing, TrustIsTheProgrammes

\* The thread of a pairing, and what ends and begins with the process.
LEMMA PairKeeps == ASSUME SettingsTypes, NEW p \in Peers, Pair(p) PROVE Keeps
  <1>1. /\ memory' = [memory EXCEPT !.paired = {p}, !.trusted = @ \cup {p}] /\ storing' = memory'
        /\ UNCHANGED <<shown, calls, answers, polled, running, read, disk, edits>>
    BY DEF Pair, view
  <1>2. memory' \in Layout /\ memory'.paired # {}
    BY <1>1 DEF SettingsTypes, Layout
  <1>3. SavesKeepPairing /\ TrustIsTheProgrammes
    BY <1>1, <1>2, QueuesKeep DEF SavesKeepPairing, TrustIsTheProgrammes, SettingsTypes
  <1> QED
    BY <1>1, <1>2, <1>3 DEF SettingsTypes, Keeps

\* Pairing's writes, a loss of power and the next start keep them.
LEMMA ProcessKeeps == ASSUME SettingsTypes, PairingWrites \/ PowerLoss \/ Start PROVE Keeps
  <1>1. CASE PairingWrites
    <2>1. /\ disk' \in {storing, disk, Torn} /\ storing # Nothing /\ storing' = Nothing
          /\ UNCHANGED <<shown, calls, answers, polled, memory, running, read, edits>>
      BY <1>1 DEF PairingWrites, Writes, WriteFails, view
    <2> QED
      BY <2>1 DEF SettingsTypes, Keeps, SavesKeepPairing, TrustIsTheProgrammes
  <1>2. CASE PowerLoss
    <2>1. /\ disk' \in {disk, Torn} /\ read' = Nothing /\ storing' = Nothing /\ calls' = <<>> /\ answers' = <<>>
          /\ UNCHANGED <<shown, polled, memory, running, edits>>
      BY <1>2 DEF PowerLoss
    <2> QED
      BY <2>1, QueuesKeep DEF SettingsTypes, Keeps, SavesKeepPairing, TrustIsTheProgrammes
  <1>3. CASE Start
    <2>1. /\ ~alive /\ memory' = Loaded /\ running' = TRUE
          /\ UNCHANGED <<shown, calls, answers, polled, read, storing, disk, edits>>
      BY <1>3 DEF Start, view
    <2>2. memory' \in Layout
      BY <2>1 DEF Loaded, Readable, SettingsTypes, DetectedLayout, Layout
    <2> QED
      BY <2>1, <2>2 DEF SettingsTypes, Keeps, SavesKeepPairing, TrustIsTheProgrammes, AtHead
  <1> QED
    BY <1>1, <1>2, <1>3

\* The window's own steps leave the program alone.
LEMMA WindowKeeps ==
    ASSUME SettingsTypes, UNCHANGED <<polled, memory, running, read, storing, disk>>, edits' \in Nat,
           shown' \in Shown, calls' \in Seq(Call), answers' \in Seq(WindowAnswer)
    PROVE  Keeps
  BY DEF SettingsTypes, Keeps, SavesKeepPairing, TrustIsTheProgrammes

\* An edit of the layout on screen leaves one the window can show.
LEMMA EditsKeep ==
    ASSUME SettingsTypes, NEW e \in Nat
    PROVE  [shown EXCEPT !.layout = WithEdit(@, e)] \in Shown
  BY DEF SettingsTypes, Shown, Layout, WithEdit

\* What the user does in the window keeps them.
LEMMA WindowSteps ==
    ASSUME SettingsTypes,
           \/ OpenWindow \/ CloseWindow \/ Edit \/ Drag \/ EndDrag \/ Poll \/ Receive \/ Status
           \/ \E role \in {"server", "client"} : SetRole(role)
           \/ \E op \in {"reset", "start", "stop"} : UseButton(op)
           \/ UNCHANGED settingsVars
    PROVE  Keeps
  <1> USE DEF SettingsTypes
  <1>1. CASE OpenWindow
    <2>1. Ask("load", Nothing) /\ UNCHANGED <<shown, answers, polled, memory, running, read, storing, disk, edits>>
      BY <1>1 DEF OpenWindow
    <2> QED
      BY <2>1, AsksKeep, CallsAre, WindowKeeps
  <1>2. CASE CloseWindow
    <2>1. answers' = <<>> /\ UNCHANGED <<shown, calls, polled, memory, running, read, storing, disk, edits>>
      BY <1>2 DEF CloseWindow
    <2> QED
      BY <2>1, QueuesKeep, WindowKeeps
  <1>3. CASE Edit
    <2>1. /\ edits' = edits + 1 /\ shown' = [shown EXCEPT !.layout = WithEdit(@, edits')]
          /\ Ask("save", shown'.layout)
          /\ UNCHANGED <<answers, polled, memory, running, read, storing, disk>>
      BY <1>3 DEF Edit, Saves
    <2>2. edits' \in Nat /\ shown' \in Shown
      BY <2>1, EditsKeep
    <2>3. shown'.layout \in Layout
      BY <2>2 DEF Shown
    <2> QED
      BY <2>1, <2>2, <2>3, AsksKeep, CallsAre, WindowKeeps
  <1>4. CASE Drag
    <2>1. /\ edits' = edits + 1 /\ shown' = [shown EXCEPT !.layout = WithEdit(@, edits')]
          /\ UNCHANGED <<calls, answers, polled, memory, running, read, storing, disk>>
      BY <1>4 DEF Drag
    <2>2. edits' \in Nat /\ shown' \in Shown
      BY <2>1, EditsKeep
    <2> QED
      BY <2>1, <2>2, WindowKeeps
  <1>5. CASE EndDrag
    <2>1. Ask("save", shown.layout) /\ shown.layout \in Layout
          /\ UNCHANGED <<shown, answers, polled, memory, running, read, storing, disk, edits>>
      BY <1>5 DEF EndDrag, Saves, Shown
    <2> QED
      BY <2>1, AsksKeep, CallsAre, WindowKeeps
  <1>6. CASE Poll
    <2> DEFINE two == <<[op |-> "status", layout |-> Nothing], [op |-> "poll", layout |-> Nothing]>>
    <2>1. calls' = calls \o two /\ UNCHANGED <<shown, answers, polled, memory, running, read, storing, disk, edits>>
      BY <1>6 DEF Poll, view
    <2>2. two \in Seq(Call)
      BY CallsAre
    <2> HIDE DEF two
    <2>3. calls' \in Seq(Call)
      BY <2>1, <2>2
    <2> QED
      BY <2>1, <2>3, WindowKeeps
  <1>7. CASE Receive
    <2> DEFINE a == Head(answers)
    <2>1. /\ answers # <<>> /\ answers' = Tail(answers)
          /\ shown' \in {shown, a.snap, [shown EXCEPT !.started = a.snap.started]}
          /\ Ask("start", Nothing) \/ UNCHANGED calls
          /\ UNCHANGED <<polled, memory, running, read, storing, disk, edits>>
      BY <1>7 DEF Receive
    <2>2. a \in WindowAnswer /\ answers' \in Seq(WindowAnswer)
      BY <2>1, QueuesKeep
    <2> HIDE DEF a
    <2>3. shown' \in Shown
      BY <2>1, <2>2 DEF WindowAnswer, Shown
    <2>4. calls' \in Seq(Call)
      BY <2>1, AsksKeep, CallsAre
    <2> QED
      BY <2>1, <2>2, <2>3, <2>4, WindowKeeps
  <1>8. CASE Status
    <2>1. polled' = running /\ calls' = Tail(calls) /\ calls # <<>> /\ AtHead({"status"})
          /\ UNCHANGED <<shown, answers, memory, running, read, storing, disk, edits>>
      BY <1>8 DEF Status, view, AtHead
    <2>2. calls' \in Seq(Call)
      BY <2>1, QueuesKeep
    <2> QED
      BY <2>1, <2>2 DEF Keeps, SavesKeepPairing, TrustIsTheProgrammes
  <1>9. CASE \E role \in {"server", "client"} : SetRole(role)
    <2>1. PICK role \in {"server", "client"} :
            /\ \E op \in {"save", "client"} : Ask(op, [shown.layout EXCEPT !.role = role])
            /\ UNCHANGED <<shown, answers, polled, memory, running, read, storing, disk, edits>>
      BY <1>9 DEF SetRole, view
    <2>2. [shown.layout EXCEPT !.role = role] \in Layout
      BY DEF Shown, Layout
    <2> QED
      BY <2>1, <2>2, AsksKeep, CallsAre, WindowKeeps
  <1>10. CASE \E op \in {"reset", "start", "stop"} : UseButton(op)
    <2>1. PICK op \in {"reset", "start", "stop"} :
            Ask(op, Nothing) /\ UNCHANGED <<shown, answers, polled, memory, running, read, storing, disk, edits>>
      BY <1>10 DEF UseButton, view
    <2> QED
      BY <2>1, AsksKeep, CallsAre, WindowKeeps
  <1>11. CASE UNCHANGED settingsVars
    <2>1. UNCHANGED <<shown, calls, answers, polled, memory, running, read, storing, disk, edits>>
      BY <1>11 DEF settingsVars, view
    <2> QED
      BY <2>1, WindowKeeps
  <1> QED
    BY <1>1, <1>2, <1>3, <1>4, <1>5, <1>6, <1>7, <1>8, <1>9, <1>10, <1>11

\* Every step of the settings keeps them.
LEMMA StepSettings == SettingsTypes /\ [SettingsNext]_settingsVars => Keeps
  BY ReadDiskKeeps, LoadKeeps, SaveKeeps, ResetKeeps, StartStopKeeps, ToggleSettingsKeeps, PairKeeps, ProcessKeeps,
     WindowSteps
  DEF SettingsNext, Serve

\* Snapshots of the window that are behind, a file that is behind and a start of
\* the runtime take no controller away from a paired client, and change no trust
\* (merge_runtime_owned_layout_fields, merge_disk_layout_into_runtime), whatever
\* edits, polls, pairings, failed writes and restarts come between.
THEOREM SettingsKeepPairing == SettingsSpec => PairingIsKept
  <1>1. SettingsTypes /\ [SettingsNext]_settingsVars
           => SettingsTypes' /\ SavesKeepPairing /\ TrustIsTheProgrammes
    BY StepSettings DEF Keeps
  <1> QED
    BY <1>1, InitSettingsTypes, PTL DEF SettingsSpec, PairingIsKept

(***************************************************************************)
(* Presence.                                                               *)
(***************************************************************************)
\* Induction: a set of numbers with 0 and with every successor has them all.
LEMMA NatSets ==
    ASSUME NEW T, T \subseteq Nat, 0 \in T, \A n \in T : n + 1 \in T
    PROVE  T = Nat
  <1> DEFINE B == Nat \ T
             R == OpToRel(<, Nat)
  <1>1. ASSUME B # {} PROVE FALSE
    <2>1. B \subseteq Nat
      OBVIOUS
    <2>2. IsWellFoundedOn(R, Nat)
      BY NatLessThanWellFounded
    <2>3. \A m, n \in Nat : m < n => <<m, n>> \in R
      BY DEF OpToRel
    <2> HIDE DEF B, R
    <2>4. PICK n \in B : \A m \in B : ~(<<m, n>> \in R)
      BY <1>1, <2>1, <2>2, WFMin
    <2>5. \A m \in B : ~(m < n)
      BY <2>1, <2>3, <2>4
    <2> USE DEF B
    <2>6. n # 0 /\ n \in Nat
      BY <2>4
    <2>7. n - 1 \in Nat /\ n - 1 \notin B
      BY <2>5, <2>6
    <2>8. n - 1 \in T
      BY <2>7
    <2>9. (n - 1) + 1 \in T
      BY <2>8
    <2> QED
      BY <2>4, <2>6, <2>9
  <1> QED
    BY <1>1

-----------------------------------------------------------------------------
(* Tables of peers.                                                         *)

\* The least position is one of the positions.
LEMMA FirstFound ==
    ASSUME NEW n, NEW I, I \subseteq 1..n, I # {}
    PROVE  Min(I) \in I
  <1> DEFINE R == OpToRel(<, Nat)
  <1>1. I \subseteq Nat
    OBVIOUS
  <1>2. IsWellFoundedOn(R, Nat)
    BY NatLessThanWellFounded
  <1>3. \A i, j \in Nat : i < j => <<i, j>> \in R
    BY DEF OpToRel
  <1> HIDE DEF R
  <1>4. PICK i \in I : \A j \in I : ~(<<j, i>> \in R)
    BY <1>1, <1>2, WFMin
  <1>5. \A j \in I : i <= j
    <2> TAKE j \in I
    <2>1. ~(j < i) /\ i \in Nat /\ j \in Nat
      BY <1>1, <1>3, <1>4
    <2> QED BY <2>1
  <1> QED BY <1>5 DEF Min

\* live holds the pruned beginnings of a table, up to the n-th.
IsPruned(live, n, table) ==
    live = [i \in 0..n |-> IF i = 0 THEN <<>>
                           ELSE IF table[i].age <= Ttl THEN Append(live[i - 1], table[i]) ELSE live[i - 1]]

\* The recursive function of Prune exists.
LEMMA PrunedExists ==
    ASSUME NEW table, NEW n \in Nat
    PROVE  \E live : IsPruned(live, n, table)
  <1> DEFINE T == {m \in Nat : \E live : IsPruned(live, m, table)}
  <1>1. 0 \in T
    <2> DEFINE f == [i \in 0..0 |-> <<>>]
    <2>1. IsPruned(f, 0, table)
      BY DEF IsPruned
    <2> QED BY <2>1
  <1>2. ASSUME NEW m \in T PROVE m + 1 \in T
    <2>1. PICK f : IsPruned(f, m, table)
      OBVIOUS
    <2> DEFINE next == IF table[m + 1].age <= Ttl THEN Append(f[m], table[m + 1]) ELSE f[m]
               g == [i \in 0..(m + 1) |-> IF i = m + 1 THEN next ELSE f[i]]
    <2>2. m \in Nat
      OBVIOUS
    <2>3. \A i \in 0..m : f[i] = IF i = 0 THEN <<>>
                                 ELSE IF table[i].age <= Ttl THEN Append(f[i - 1], table[i]) ELSE f[i - 1]
      BY <2>1, <2>2 DEF IsPruned
    <2>4. \A i \in 0..(m + 1) : g[i] = IF i = 0 THEN <<>>
                                       ELSE IF table[i].age <= Ttl THEN Append(g[i - 1], table[i]) ELSE g[i - 1]
      BY <2>2, <2>3
    <2>5. IsPruned(g, m + 1, table)
      BY <2>4 DEF IsPruned
    <2> HIDE DEF g
    <2> QED BY <2>2, <2>5
  <1> HIDE DEF T
  <1>3. T = Nat
    BY <1>1, <1>2, NatSets DEF T
  <1> QED BY <1>3 DEF T

\* prune_stale_peers keeps entries of the table, and only such as are young.
LEMMA PruneKeeps ==
    ASSUME NEW H, NEW table \in Seq(H)
    PROVE  Prune(table) \in Seq({q \in H : q.age <= Ttl})
  <1> DEFINE Y == {q \in H : q.age <= Ttl}
  <1> DEFINE live == CHOOSE f : IsPruned(f, Len(table), table)
  <1>1. IsPruned(live, Len(table), table) /\ Prune(table) = live[Len(table)]
    <2>1. \E f : IsPruned(f, Len(table), table)
      BY PrunedExists, LenProperties
    <2>2. Prune(table) = live[Len(table)]
      BY Zenon DEF Prune, IsPruned
    <2> QED BY Zenon, <2>1, <2>2
  <1> HIDE DEF live
  <1> DEFINE T == {i \in Nat : i <= Len(table) => live[i] \in Seq(Y)}
  <1>2. 0 \in T
    BY <1>1, LenProperties DEF IsPruned
  <1>3. ASSUME NEW i \in T PROVE i + 1 \in T
    <2>1. CASE i + 1 <= Len(table)
      <3>1. live[i + 1] = IF table[i + 1].age <= Ttl THEN Append(live[i], table[i + 1]) ELSE live[i]
        <4>1. i + 1 \in 0..Len(table) /\ (i + 1) - 1 = i /\ i + 1 # 0
          BY <2>1, LenProperties
        <4> QED BY <1>1, <4>1 DEF IsPruned
      <3>2. table[i + 1] \in H
        BY <2>1, ElementOfSeq, LenProperties
      <3>3. live[i] \in Seq(Y)
        BY <2>1, LenProperties
      <3>4. CASE table[i + 1].age <= Ttl
        <4>1. table[i + 1] \in Y
          BY <3>2, <3>4
        <4>2. live[i + 1] = Append(live[i], table[i + 1])
          BY <3>1, <3>4
        <4> HIDE DEF Y
        <4>3. live[i + 1] \in Seq(Y)
          BY <3>3, <4>1, <4>2, AppendProperties
        <4> QED BY <4>3
      <3>5. CASE ~(table[i + 1].age <= Ttl)
        BY <3>1, <3>3, <3>5
      <3> QED BY <3>4, <3>5
    <2> QED BY <2>1
  <1> HIDE DEF T, Y
  <1>4. T = Nat
    BY <1>2, <1>3, NatSets DEF T
  <1>5. Prune(table) \in Seq(Y)
    BY <1>1, <1>4, LenProperties DEF T
  <1> QED BY <1>5 DEF Y

\* swap_remove leaves entries of the table.
LEMMA SwapRemoveKeeps ==
    ASSUME NEW H, NEW table \in Seq(H), table # <<>>, NEW i
    PROVE  SwapRemove(table, i) \in Seq(H)
  <1>1. Len(table) \in Nat /\ Len(table) # 0
    BY LenProperties, EmptySeq
  <1>2. \A j \in 1..Len(table) : table[j] \in H
    BY ElementOfSeq
  <1> DEFINE r == SwapRemove(table, i)
  <1>3. r \in [1..(Len(table) - 1) -> H]
    BY <1>1, <1>2 DEF SwapRemove
  <1> HIDE DEF r
  <1>4. Len(table) - 1 \in Nat
    BY <1>1
  <1>5. r \in Seq(H)
    BY <1>3, <1>4, SeqDef
  <1> QED BY <1>5 DEF r

\* merge_peer adds no entry but the one that was heard.
LEMMA MergeKeeps ==
    ASSUME NEW H, NEW table \in Seq(H), NEW p \in H
    PROVE  Merge(table, p) \in Seq(H)
  <1> DEFINE live == Prune(table)
             i == SelectInSeq(live, LAMBDA q : q.id = p.id)
             kept == IF Len(live) < MaxPeers THEN live ELSE SwapRemove(live, Oldest(live))
  <1>1. live \in Seq(H)
    <2> DEFINE Y == {q \in H : q.age <= Ttl}
    <2>1. live \in Seq(Y) /\ Y \subseteq H
      BY PruneKeeps
    <2> HIDE DEF Y, live
    <2>2. Len(live) \in Nat /\ live \in [1..Len(live) -> Y]
      BY <2>1, LenProperties
    <2>3. live \in [1..Len(live) -> H]
      BY <2>1, <2>2
    <2> QED BY <2>2, <2>3, SeqDef
  <1>2. Merge(table, p) = IF i # 0 THEN [live EXCEPT ![i] = p] ELSE Append(kept, p)
    BY DEF Merge
  <1>3. i # 0 => i \in 1..Len(live)
    <2> DEFINE I == {j \in 1..Len(live) : live[j].id = p.id}
    <2>1. i = IF I # {} THEN Min(I) ELSE 0
      BY DEF SelectInSeq
    <2>2. I \subseteq 1..Len(live)
      OBVIOUS
    <2> HIDE DEF I, live, i
    <2> QED BY <2>1, <2>2, FirstFound
  <1> HIDE DEF live, i
  <1>4. CASE i # 0
    BY <1>1, <1>2, <1>3, <1>4, ExceptSeq
  <1>5. CASE i = 0
    <2>1. kept \in Seq(H)
      <3>1. CASE Len(live) < MaxPeers
        BY <1>1, <3>1
      <3>2. CASE ~(Len(live) < MaxPeers)
        <4>1. live # <<>>
          BY <1>1, <3>2, PresenceBounds, EmptySeq, LenProperties
        <4> QED BY <1>1, <3>2, <4>1, SwapRemoveKeeps
      <3> QED BY <3>1, <3>2
    <2> HIDE DEF kept
    <2> QED BY <1>2, <1>5, <2>1, AppendProperties
  <1> QED BY <1>4, <1>5

\* merged holds what the first entries of a scan make of a table.
IsMerged(merged, n, table, gathered) ==
    merged = [i \in 0..n |-> IF i = 0 THEN table ELSE Merge(merged[i - 1], gathered[i])]

\* The recursive function of MergeAll exists.
LEMMA MergedExists ==
    ASSUME NEW table, NEW gathered, NEW n \in Nat
    PROVE  \E merged : IsMerged(merged, n, table, gathered)
  <1> DEFINE T == {m \in Nat : \E merged : IsMerged(merged, m, table, gathered)}
  <1>1. 0 \in T
    <2> DEFINE f == [i \in 0..0 |-> table]
    <2>1. IsMerged(f, 0, table, gathered)
      BY DEF IsMerged
    <2> QED BY <2>1
  <1>2. ASSUME NEW m \in T PROVE m + 1 \in T
    <2>1. PICK f : IsMerged(f, m, table, gathered)
      OBVIOUS
    <2> DEFINE g == [i \in 0..(m + 1) |-> IF i = m + 1 THEN Merge(f[m], gathered[m + 1]) ELSE f[i]]
    <2>2. m \in Nat
      OBVIOUS
    <2>3. \A i \in 0..m : f[i] = IF i = 0 THEN table ELSE Merge(f[i - 1], gathered[i])
      BY <2>1, <2>2 DEF IsMerged
    <2>4. \A i \in 0..(m + 1) : g[i] = IF i = 0 THEN table ELSE Merge(g[i - 1], gathered[i])
      BY <2>2, <2>3
    <2>5. IsMerged(g, m + 1, table, gathered)
      BY <2>4 DEF IsMerged
    <2> HIDE DEF g
    <2> QED BY <2>2, <2>5
  <1> HIDE DEF T
  <1>3. T = Nat
    BY <1>1, <1>2, NatSets DEF T
  <1> QED BY <1>3 DEF T

\* A scan adds no entry but those it gathered.
LEMMA MergeAllKeeps ==
    ASSUME NEW H, NEW table \in Seq(H), NEW gathered \in Seq(H)
    PROVE  MergeAll(table, gathered) \in Seq(H)
  <1> DEFINE merged == CHOOSE f : IsMerged(f, Len(gathered), table, gathered)
  <1>1. IsMerged(merged, Len(gathered), table, gathered) /\ MergeAll(table, gathered) = merged[Len(gathered)]
    <2>1. \E f : IsMerged(f, Len(gathered), table, gathered)
      BY MergedExists, LenProperties
    <2>2. MergeAll(table, gathered) = merged[Len(gathered)]
      BY Zenon DEF MergeAll, IsMerged
    <2> QED BY Zenon, <2>1, <2>2
  <1> HIDE DEF merged
  <1> DEFINE T == {i \in Nat : i <= Len(gathered) => merged[i] \in Seq(H)}
  <1>2. 0 \in T
    BY <1>1, LenProperties DEF IsMerged
  <1>3. ASSUME NEW i \in T PROVE i + 1 \in T
    <2>1. CASE i + 1 <= Len(gathered)
      <3>1. merged[i + 1] = Merge(merged[i], gathered[i + 1])
        BY <1>1, <2>1, LenProperties DEF IsMerged
      <3>2. gathered[i + 1] \in H /\ merged[i] \in Seq(H)
        BY <2>1, ElementOfSeq, LenProperties
      <3>3. Merge(merged[i], gathered[i + 1]) \in Seq(H)
        BY <3>2, MergeKeeps
      <3> QED BY <3>1, <3>3
    <2> QED BY <2>1
  <1> HIDE DEF T
  <1>4. T = Nat
    BY <1>2, <1>3, NatSets DEF T
  <1> QED BY <1>1, <1>4, LenProperties DEF T
-----------------------------------------------------------------------------
(* What is true of a table, a row and a controller.                         *)

\* The entries about a machine say what it has been: its own name and key and
\* an address it has had; one that is not too old says when it was last heard.
TrueEntries(had, quiet) ==
    {q \in [id : Machines \X Addresses, host : Ours, ip : Addresses, key : Machines \X Nat,
            upgrading : BOOLEAN, age : Nat] :
        /\ q.id[1] = q.host /\ q.key[1] = q.host /\ <<q.host, q.ip>> \in had
        /\ q.age <= Ttl => quiet[q.host] <= q.age}

\* The rows and controllers that are a machine's own.
RowsOf(m, had) ==
    {d \in [id : Machines \X Addresses, host : Addresses, key : Machines \X Nat, online : BOOLEAN,
            upgrading : BOOLEAN, grace : Nat] :
        d.id[1] = m /\ d.key[1] = m /\ <<m, d.host>> \in had}
ControllersOf(m, had) ==
    {c \in [id : Machines \X Addresses, host : Addresses, key : Machines \X Nat] :
        c.id[1] = m /\ c.key[1] = m /\ <<m, c.host>> \in had}

\* Nobody has an address that another machine has had.
OneOwner(had) == \A m, n \in Machines : \A a \in Addresses : <<m, a>> \in had /\ <<n, a>> \in had => m = n

Lag == IF swept THEN 0 ELSE 1

NetworkPart ==
    /\ address \in [Machines -> Addresses] /\ keyNo \in [Machines -> Nat] /\ silent \in [Ours -> Nat]
    /\ leases \subseteq Machines \X Addresses /\ \A m \in Machines : <<m, address[m]>> \in leases
    /\ OneOwner(leases)
\* The entries that are not too old.
Young(had, quiet) == {q \in TrueEntries(had, quiet) : q.age <= Ttl}
TablePart ==
    /\ copy \in [held : BOOLEAN, table : Seq(Young(leases, silent))] /\ (~copy.held => copy.table = <<>>)
    /\ peers \in Seq(TrueEntries(leases, silent)) /\ found \in Seq(TrueEntries(leases, silent))
    /\ listening \in [on : BOOLEAN, draining : BOOLEAN, scanning : BOOLEAN]
    /\ ~listening.scanning => found = <<>>
RowPart ==
    /\ row \in [Ours -> UNION {RowsOf(m, leases) : m \in Ours}] /\ \A m \in Ours : row[m] \in RowsOf(m, leases)
    /\ controller \in [Ours -> UNION {ControllersOf(m, leases) : m \in Ours}]
    /\ \A m \in Ours : controller[m] \in ControllersOf(m, leases)
    /\ listening.on => \A m \in Ours : row[m].online => silent[m] <= Ttl + Lag

PresenceInv == NetworkPart /\ TablePart /\ RowPart

\* The assumptions on the constants.
LEMMA PresenceFacts ==
    /\ Ours \subseteq Machines /\ Ttl \in Nat /\ UpgradeGrace \in Nat
    /\ \A m \in Machines : HomeOf(m) \in Addresses /\ \A n \in Machines : HomeOf(m) = HomeOf(n) => m = n
    /\ \A m \in Machines : m \notin Addresses
  BY PresenceBounds DEF Ours

\* A device row takes only what its own machine said (apply_peer_presence).
LEMMA DeviceKeeps ==
    ASSUME NEW had, OneOwner(had), NEW quiet, NEW live \in Seq({q \in TrueEntries(had, quiet) : q.age <= Ttl}),
           NEW m \in Ours, NEW d \in RowsOf(m, had)
    PROVE  /\ DevicePresence(d, live) \in RowsOf(m, had)
           /\ DevicePresence(d, live).online => \E n \in 0..Ttl : quiet[m] <= n
  <1> DEFINE I == {j \in 1..Len(live) : DeviceMatches(d, live[j])}
             i == IF I # {} THEN Min(I) ELSE 0
  <1>1. DevicePresence(d, live) = IF i = 0 THEN Unheard(d) ELSE Updated(d, live[i])
    BY DEF DevicePresence, SelectInSeq
  <1>2. I \subseteq 1..Len(live)
    OBVIOUS
  <1>3. d \in [id : Machines \X Addresses, host : Addresses, key : Machines \X Nat, online : BOOLEAN,
               upgrading : BOOLEAN, grace : Nat]
        /\ d.id[1] = m /\ d.key[1] = m /\ <<m, d.host>> \in had
    BY DEF RowsOf
  <1>4. CASE I = {}
    <2>1. DevicePresence(d, live) = Unheard(d)
      BY <1>1, <1>4
    <2>2. Unheard(d).online = FALSE
      BY <1>3 DEF Unheard
    <2>3. (d.upgrading /\ d.grace > 0) \in BOOLEAN /\ d.upgrading \in BOOLEAN
      BY <1>3
    <2>4. Unheard(d) \in RowsOf(m, had)
      BY <1>3, <2>3 DEF Unheard, RowsOf
    <2> QED BY <2>1, <2>2, <2>4
  <1>5. CASE I # {}
    <2>1. i \in I
      BY <1>2, <1>5, FirstFound
    <2> HIDE DEF i
    <2>2. i \in 1..Len(live) /\ DeviceMatches(d, live[i]) /\ i # 0
      BY <2>1, LenProperties
    <2> DEFINE p == live[i]
    <2>3. p \in TrueEntries(had, quiet) /\ p.age <= Ttl
      BY <2>2, ElementOfSeq
    <2> HIDE DEF p
    <2>4. /\ p \in [id : Machines \X Addresses, host : Ours, ip : Addresses, key : Machines \X Nat,
                    upgrading : BOOLEAN, age : Nat]
          /\ p.id[1] = p.host /\ p.key[1] = p.host /\ <<p.host, p.ip>> \in had /\ quiet[p.host] <= p.age
      BY <2>3 DEF TrueEntries
    <2>5. p.host = m
      <3>1. d.id = p.id \/ d.key = p.key \/ SameClusterHost(d, p)
        BY <2>2 DEF DeviceMatches, p
      <3>2. CASE d.id = p.id \/ d.key = p.key
        BY <1>3, <2>4, <3>2
      <3>3. CASE SameClusterHost(d, p)
        <4>1. d.host = p.host \/ d.host = p.ip
          BY <3>3 DEF SameClusterHost
        <4>2. d.host \in Addresses /\ p.host \in Machines /\ p.host \notin Addresses /\ m \in Machines
          BY <1>3, <2>4, PresenceFacts
        <4>3. <<m, p.ip>> \in had /\ p.ip \in Addresses
          BY <1>3, <2>4, <4>1, <4>2
        <4> QED BY <2>4, <4>2, <4>3 DEF OneOwner
      <3> QED BY <3>1, <3>2, <3>3
    <2>6. DevicePresence(d, live) = Updated(d, p)
      BY <1>1, <2>2 DEF p
    <2>7. Updated(d, p) \in RowsOf(m, had)
      <3> DEFINE g == IF p.upgrading /\ ~d.upgrading THEN UpgradeGrace ELSE d.grace
      <3>1. Updated(d, p) = [d EXCEPT !.online = TRUE, !.host = p.ip, !.key = p.key, !.upgrading = p.upgrading, !.grace = g]
        BY DEF Updated
      <3>2. g \in Nat
        BY <1>3, PresenceFacts
      <3> HIDE DEF g
      <3>3. p.ip \in Addresses /\ p.key \in Machines \X Nat /\ p.upgrading \in BOOLEAN
        BY <2>4
      <3>4. p.key[1] = m /\ <<m, p.ip>> \in had
        BY <2>4, <2>5
      <3> HIDE DEF p
      <3>5. Updated(d, p) \in RowsOf(m, had)
        BY <1>3, <3>1, <3>2, <3>3, <3>4 DEF RowsOf
      <3> QED BY <3>5
    <2>8. p.age \in 0..Ttl /\ quiet[m] <= p.age
      BY <2>3, <2>4, <2>5, PresenceFacts
    <2> QED BY <2>6, <2>7, <2>8
  <1> QED BY <1>4, <1>5

\* So does a paired controller (refresh_paired_controller_keys).
LEMMA ControllerKeeps ==
    ASSUME NEW had, OneOwner(had), NEW quiet, NEW live \in Seq({q \in TrueEntries(had, quiet) : q.age <= Ttl}),
           NEW m \in Ours, NEW c \in ControllersOf(m, had)
    PROVE  ControllerPresence(c, live) \in ControllersOf(m, had)
  <1> DEFINE Test(p) == c.id = p.id \/ c.key = p.key \/ c.id[1] = p.host \/ c.host = p.ip
             I == {j \in 1..Len(live) : Test(live[j])}
             i == IF I # {} THEN Min(I) ELSE 0
  <1>1. ControllerPresence(c, live) =
           IF i = 0 THEN c ELSE [c EXCEPT !.key = live[i].key, !.id = live[i].id, !.host = live[i].ip]
    BY DEF ControllerPresence, SelectInSeq
  <1>2. I \subseteq 1..Len(live)
    OBVIOUS
  <1>3. c \in [id : Machines \X Addresses, host : Addresses, key : Machines \X Nat]
        /\ c.id[1] = m /\ c.key[1] = m /\ <<m, c.host>> \in had
    BY DEF ControllersOf
  <1>4. CASE I = {}
    BY <1>1, <1>4
  <1>5. CASE I # {}
    <2>1. i \in I
      BY <1>2, <1>5, FirstFound
    <2> HIDE DEF i
    <2>2. i \in 1..Len(live) /\ Test(live[i]) /\ i # 0
      BY <2>1, LenProperties
    <2> DEFINE p == live[i]
    <2>3. p \in TrueEntries(had, quiet) /\ p.age <= Ttl
      BY <2>2, ElementOfSeq
    <2>4. Test(p)
      BY <2>2
    <2>5. ControllerPresence(c, live) = [c EXCEPT !.key = p.key, !.id = p.id, !.host = p.ip]
      BY <1>1, <2>2
    <2> HIDE DEF p
    <2>6. /\ p \in [id : Machines \X Addresses, host : Ours, ip : Addresses, key : Machines \X Nat,
                    upgrading : BOOLEAN, age : Nat]
          /\ p.id[1] = p.host /\ p.key[1] = p.host /\ <<p.host, p.ip>> \in had
      BY <2>3 DEF TrueEntries
    <2>7. p.host = m
      <3>1. CASE c.id = p.id \/ c.key = p.key \/ c.id[1] = p.host
        BY <1>3, <2>6, <3>1
      <3>2. CASE c.host = p.ip
        BY <1>3, <2>6, <3>2, PresenceFacts DEF OneOwner
      <3> QED BY <2>4, <3>1, <3>2
    <2>8. p.id \in Machines \X Addresses /\ p.ip \in Addresses /\ p.key \in Machines \X Nat
      BY <2>6
    <2>9. [c EXCEPT !.key = p.key, !.id = p.id, !.host = p.ip] \in ControllersOf(m, had)
      BY <1>3, <2>6, <2>7, <2>8 DEF ControllersOf
    <2> QED BY <2>5, <2>9
  <1> QED BY <1>4, <1>5

-----------------------------------------------------------------------------
(* The steps.                                                               *)

\* Bringing the rows up to date from a true table leaves them true, and every
\* A sequence over a set is one over every set that holds it.
LEMMA WiderSeq == ASSUME NEW S, NEW T, S \subseteq T, NEW s \in Seq(S) PROVE s \in Seq(T)
  <1>1. Len(s) \in Nat /\ s \in [1..Len(s) -> S]
    BY LenProperties
  <1>2. s \in [1..Len(s) -> T]
    BY <1>1
  <1> QED BY <1>1, <1>2, SeqDef

\* Bringing the rows up to date from a true table keeps them true, and shows those
\* online that were heard in time.
LEMMA ApplyKeeps ==
    ASSUME OneOwner(leases), NEW quiet \in [Ours -> Nat], NEW live \in Seq(Young(leases, quiet)),
           RowPart, Apply(live)
    PROVE  /\ row' \in [Ours -> UNION {RowsOf(m, leases) : m \in Ours}] /\ \A m \in Ours : row'[m] \in RowsOf(m, leases)
           /\ controller' \in [Ours -> UNION {ControllersOf(m, leases) : m \in Ours}]
           /\ \A m \in Ours : controller'[m] \in ControllersOf(m, leases)
           /\ \A m \in Ours : row'[m].online => quiet[m] <= Ttl
  <1>1. live \in Seq({q \in TrueEntries(leases, quiet) : q.age <= Ttl})
    BY DEF Young
  <1>2. /\ row' = [m \in Ours |-> DevicePresence(row[m], live)]
        /\ controller' = [m \in Ours |-> ControllerPresence(controller[m], live)]
    BY DEF Apply
  <1>3. ASSUME NEW m \in Ours
        PROVE  /\ DevicePresence(row[m], live) \in RowsOf(m, leases)
               /\ DevicePresence(row[m], live).online => quiet[m] <= Ttl
    <2>1. row[m] \in RowsOf(m, leases)
      BY DEF RowPart
    <2>2. /\ DevicePresence(row[m], live) \in RowsOf(m, leases)
          /\ DevicePresence(row[m], live).online => \E n \in 0..Ttl : quiet[m] <= n
      BY <1>1, <2>1, DeviceKeeps
    <2>3. quiet[m] \in Nat /\ Ttl \in Nat
      BY PresenceFacts
    <2> QED BY <2>2, <2>3
  <1>4. ASSUME NEW m \in Ours PROVE ControllerPresence(controller[m], live) \in ControllersOf(m, leases)
    <2>1. controller[m] \in ControllersOf(m, leases)
      BY DEF RowPart
    <2> QED BY <1>1, <2>1, ControllerKeeps
  <1>5. \A m \in Ours : row'[m] = DevicePresence(row[m], live) /\ controller'[m] = ControllerPresence(controller[m], live)
    BY <1>2
  <1>6. row' \in [Ours -> UNION {RowsOf(m, leases) : m \in Ours}]
    BY <1>2, <1>3
  <1>7. controller' \in [Ours -> UNION {ControllersOf(m, leases) : m \in Ours}]
    BY <1>2, <1>4
  <1> QED BY <1>3, <1>4, <1>5, <1>6, <1>7

\* The table that is pruned holds what is not too old.
LEMMA PrunedIsYoung ==
    ASSUME NEW quiet, NEW table \in Seq(TrueEntries(leases, quiet))
    PROVE  Prune(table) \in Seq(Young(leases, quiet)) /\ Prune(table) \in Seq(TrueEntries(leases, quiet))
  <1> DEFINE live == Prune(table)
  <1>1. live \in Seq(Young(leases, quiet))
    BY PruneKeeps DEF Young
  <1> HIDE DEF live
  <1>2. Young(leases, quiet) \subseteq TrueEntries(leases, quiet)
    BY DEF Young
  <1>3. live \in Seq(TrueEntries(leases, quiet))
    BY <1>1, <1>2, WiderSeq
  <1> QED BY <1>1, <1>3 DEF live

\* row shown online has been heard from within the time to live.
LEMMA SyncKeeps ==
    ASSUME OneOwner(leases), NEW quiet \in [Ours -> Nat], NEW table \in Seq(TrueEntries(leases, quiet)),
           RowPart, Sync(table)
    PROVE  /\ peers' \in Seq(TrueEntries(leases, quiet)) /\ swept' = TRUE
           /\ row' \in [Ours -> UNION {RowsOf(m, leases) : m \in Ours}] /\ \A m \in Ours : row'[m] \in RowsOf(m, leases)
           /\ controller' \in [Ours -> UNION {ControllersOf(m, leases) : m \in Ours}]
           /\ \A m \in Ours : controller'[m] \in ControllersOf(m, leases)
           /\ \A m \in Ours : row'[m].online => quiet[m] <= Ttl
  <1> DEFINE live == Prune(table)
  <1>1. live \in Seq(Young(leases, quiet)) /\ live \in Seq(TrueEntries(leases, quiet))
    BY PrunedIsYoung
  <1>2. peers' = live /\ swept' = TRUE /\ Apply(live)
    BY DEF Sync
  <1> HIDE DEF live
  <1> QED BY <1>1, <1>2, ApplyKeeps

\* At the start nobody is shown online.
LEMMA InitPresenceInv == PresenceInit => PresenceInv
  <1> SUFFICES ASSUME PresenceInit PROVE PresenceInv
    OBVIOUS
  <1>1. NetworkPart
    <2>1. \A m \in Machines : address[m] = HomeOf(m) /\ HomeOf(m) \in Addresses
      BY PresenceFacts DEF PresenceInit
    <2>2. address \in [Machines -> Addresses] /\ keyNo \in [Machines -> Nat] /\ silent \in [Ours -> Nat]
      BY PresenceFacts DEF PresenceInit
    <2>3. leases = {<<m, address[m]>> : m \in Machines}
      BY DEF PresenceInit
    <2>4. OneOwner(leases)
      BY <2>1, <2>3, PresenceFacts DEF OneOwner
    <2> QED BY <2>1, <2>2, <2>3, <2>4 DEF NetworkPart
  <1>2. TablePart
    <2>1. /\ peers = <<>> /\ found = <<>> /\ copy = [held |-> FALSE, table |-> <<>>]
          /\ listening = [on |-> FALSE, draining |-> FALSE, scanning |-> FALSE]
      BY DEF PresenceInit
    <2> QED BY <2>1 DEF TablePart
  <1>3. RowPart
    <2>1. ASSUME NEW m \in Ours
          PROVE  row[m] \in RowsOf(m, leases) /\ controller[m] \in ControllersOf(m, leases)
      <3>1. m \in Machines /\ address[m] \in Addresses /\ keyNo[m] \in Nat /\ <<m, address[m]>> \in leases
        BY <1>1, PresenceFacts DEF NetworkPart
      <3>2. row[m] = [id |-> <<m, address[m]>>, host |-> address[m], key |-> <<m, keyNo[m]>>, online |-> FALSE,
                      upgrading |-> FALSE, grace |-> 0]
            /\ controller[m] = [id |-> <<m, address[m]>>, host |-> address[m], key |-> <<m, keyNo[m]>>]
        BY DEF PresenceInit, IdOf, AnnouncedKey
      <3> QED BY <3>1, <3>2 DEF RowsOf, ControllersOf
    <2>2. row = [m \in Ours |-> row[m]] /\ controller = [m \in Ours |-> controller[m]]
      BY DEF PresenceInit
    <2>3. row \in [Ours -> UNION {RowsOf(m, leases) : m \in Ours}]
      BY <2>1, <2>2
    <2>4. controller \in [Ours -> UNION {ControllersOf(m, leases) : m \in Ours}]
      BY <2>1, <2>2
    <2>5. ~listening.on
      BY DEF PresenceInit
    <2> QED BY <2>1, <2>3, <2>4, <2>5 DEF RowPart
  <1> QED BY <1>1, <1>2, <1>3 DEF PresenceInv

\* What is true of a machine stays true when it has been more addresses.
LEMMA MoreLeases ==
    ASSUME NEW had, NEW more, had \subseteq more, NEW quiet
    PROVE  /\ TrueEntries(had, quiet) \subseteq TrueEntries(more, quiet)
           /\ Young(had, quiet) \subseteq Young(more, quiet)
           /\ \A m \in Ours : RowsOf(m, had) \subseteq RowsOf(m, more) /\ ControllersOf(m, had) \subseteq ControllersOf(m, more)
  BY DEF TrueEntries, Young, RowsOf, ControllersOf

\* So is the one that a copy of the table holds.
LEMMA CopyWider ==
    ASSUME NEW S, NEW T, S \subseteq T, NEW c \in [held : BOOLEAN, table : Seq(S)]
    PROVE  c \in [held : BOOLEAN, table : Seq(T)]
  <1>1. c.table \in Seq(T)
    BY WiderSeq
  <1> QED BY <1>1

\* The other machines' doings: an address that is new to all is the only news.
LEMMA MachinesKeep == ~Reuse /\ PresenceInv /\ MachineStep => PresenceInv'
  <1> SUFFICES ASSUME ~Reuse, PresenceInv, MachineStep PROVE PresenceInv'
    OBVIOUS
  <1>1. UNCHANGED <<peers, found, copy, row, controller, listening, swept, silent>>
    BY DEF MachineStep
  <1>2. NetworkPart' /\ leases \subseteq leases'
    <2>1. PICK m \in Machines : Moves(m) \/ Rotate(m) \/ Down(m) \/ Boot(m) \/ SetUpgrading(m)
      BY DEF MachineStep
    <2>2. CASE Moves(m)
      <3>1. PICK a \in Addresses : /\ \A n \in Machines : address[n] # a /\ (n = m \/ <<n, a>> \notin leases)
                                   /\ address' = [address EXCEPT ![m] = a] /\ leases' = leases \cup {<<m, a>>}
        BY <2>2 DEF Moves
      <3>2. keyNo' = keyNo
        BY <2>2 DEF Moves
      <3>3. OneOwner(leases')
        <4> SUFFICES ASSUME NEW k \in Machines, NEW n \in Machines, NEW b \in Addresses,
                            <<k, b>> \in leases', <<n, b>> \in leases'
                     PROVE  k = n
          BY DEF OneOwner
        <4>1. CASE b = a
          BY <3>1, <4>1
        <4>2. CASE b # a
          <5>1. <<k, b>> \in leases /\ <<n, b>> \in leases
            BY <3>1, <4>2
          <5> QED BY <5>1 DEF PresenceInv, NetworkPart, OneOwner
        <4> QED BY <4>1, <4>2
      <3>4. address' \in [Machines -> Addresses] /\ leases' \subseteq Machines \X Addresses
        BY <3>1 DEF PresenceInv, NetworkPart
      <3>5. \A n \in Machines : <<n, address'[n]>> \in leases'
        BY <3>1 DEF PresenceInv, NetworkPart
      <3> QED BY <1>1, <3>1, <3>2, <3>3, <3>4, <3>5 DEF PresenceInv, NetworkPart
    <2>3. CASE Rotate(m)
      <3>1. address' = address /\ leases' = leases /\ keyNo' = [keyNo EXCEPT ![m] = @ + 1]
        BY <2>3 DEF Rotate
      <3>2. keyNo' \in [Machines -> Nat]
        BY <3>1 DEF PresenceInv, NetworkPart
      <3> QED BY <1>1, <3>1, <3>2 DEF PresenceInv, NetworkPart
    <2>4. CASE Down(m) \/ Boot(m) \/ SetUpgrading(m)
      <3>1. address' = address /\ leases' = leases /\ keyNo' = keyNo
        BY <2>4 DEF Down, Boot, SetUpgrading
      <3> QED BY <1>1, <3>1 DEF PresenceInv, NetworkPart
    <2> QED BY <2>1, <2>2, <2>3, <2>4
  <1>3. /\ TrueEntries(leases, silent) \subseteq TrueEntries(leases', silent)
        /\ Young(leases, silent) \subseteq Young(leases', silent)
        /\ \A m \in Ours : RowsOf(m, leases) \subseteq RowsOf(m, leases') /\ ControllersOf(m, leases) \subseteq ControllersOf(m, leases')
    BY <1>2, MoreLeases
  <1>4. TablePart'
    <2>1. peers \in Seq(TrueEntries(leases', silent)) /\ found \in Seq(TrueEntries(leases', silent))
      BY <1>3, WiderSeq DEF PresenceInv, TablePart
    <2>2. copy \in [held : BOOLEAN, table : Seq(Young(leases', silent))]
      BY <1>3, CopyWider DEF PresenceInv, TablePart
    <2> QED BY <1>1, <2>1, <2>2 DEF PresenceInv, TablePart
  <1>5. RowPart'
    <2>1. \A m \in Ours : row[m] \in RowsOf(m, leases') /\ controller[m] \in ControllersOf(m, leases')
      BY <1>3 DEF PresenceInv, RowPart
    <2>2. row = [m \in Ours |-> row[m]] /\ controller = [m \in Ours |-> controller[m]]
      BY DEF PresenceInv, RowPart
    <2>3. row \in [Ours -> UNION {RowsOf(m, leases') : m \in Ours}]
      BY <2>1, <2>2
    <2>4. controller \in [Ours -> UNION {ControllersOf(m, leases') : m \in Ours}]
      BY <2>1, <2>2
    <2>5. listening.on => \A m \in Ours : row[m].online => silent[m] <= Ttl + Lag
      BY DEF PresenceInv, RowPart
    <2> QED BY <1>1, <2>1, <2>3, <2>4, <2>5 DEF RowPart, Lag
  <1> QED BY <1>2, <1>4, <1>5 DEF PresenceInv

\* Hearing a machine makes no entry less true, and adds a true one.
LEMMA HeardEntries ==
    ASSUME NetworkPart, NEW m \in Machines, silent' = HeardFrom(m)
    PROVE  /\ silent' \in [Ours -> Nat] /\ \A n \in Ours : silent'[n] <= silent[n]
           /\ TrueEntries(leases, silent) \subseteq TrueEntries(leases, silent')
           /\ Young(leases, silent) \subseteq Young(leases, silent')
           /\ m \in Ours => Packet(m) \in TrueEntries(leases, silent')
  <1>1. silent' \in [Ours -> Nat] /\ (\A n \in Ours : silent'[n] <= silent[n]) /\ (m \in Ours => silent'[m] = 0)
    BY PresenceFacts DEF NetworkPart, HeardFrom
  <1>2. ASSUME NEW q \in TrueEntries(leases, silent) PROVE q \in TrueEntries(leases, silent')
    <2>1. q.host \in Ours /\ q.age \in Nat /\ (q.age <= Ttl => silent[q.host] <= q.age)
      BY PresenceFacts DEF TrueEntries
    <2>2. silent'[q.host] <= silent[q.host] /\ silent[q.host] \in Nat /\ silent'[q.host] \in Nat
      BY <1>1, <2>1 DEF NetworkPart
    <2>3. q.age <= Ttl => silent'[q.host] <= q.age
      BY <2>1, <2>2
    <2> QED BY <2>3 DEF TrueEntries
  <1>3. ASSUME m \in Ours PROVE Packet(m) \in TrueEntries(leases, silent')
    <2> DEFINE up == m \in upgrading
    <2>1. Packet(m) = [id |-> <<m, address[m]>>, host |-> m, ip |-> address[m], key |-> <<m, keyNo[m]>>, upgrading |-> up, age |-> 0]
      BY Zenon DEF Packet, IdOf, AnnouncedKey
    <2>2. up \in BOOLEAN
      OBVIOUS
    <2> HIDE DEF up
    <2>3. address[m] \in Addresses /\ keyNo[m] \in Nat /\ <<m, address[m]>> \in leases /\ 0 \in Nat
      BY DEF NetworkPart
    <2> QED BY <1>1, <1>3, <2>1, <2>2, <2>3 DEF TrueEntries
  <1>4. Young(leases, silent) \subseteq Young(leases, silent')
    BY <1>2 DEF Young
  <1> QED BY <1>1, <1>2, <1>3, <1>4

\* The discovery thread, the scan and the clock.
LEMMA ThreadsKeep ==
    ASSUME PresenceInv,
           \/ \E m \in Machines : Heard(m) \/ ScanHears(m)
           \/ StartDiscovery \/ StopDiscovery \/ Sweep \/ ScanBegins \/ ScanEnds
           \/ TakeCopy \/ UseCopy \/ Tick
    PROVE  PresenceInv'
  <1> DEFINE H == TrueEntries(leases, silent)
             C(quiet) == [held : BOOLEAN, table : Seq(Young(leases, quiet))]
  <1>1. NetworkPart /\ TablePart /\ RowPart /\ OneOwner(leases) /\ silent \in [Ours -> Nat]
    BY DEF PresenceInv, NetworkPart
  <1>2. UNCHANGED machineVars
    BY DEF Heard, ScanHears, StartDiscovery, StopDiscovery, Sweep, ScanBegins, ScanEnds, TakeCopy, UseCopy, Tick
  <1>3. address' = address /\ leases' = leases /\ keyNo' = keyNo
    BY <1>2 DEF machineVars
  <1>4. peers \in Seq(H) /\ found \in Seq(H) /\ listening \in [on : BOOLEAN, draining : BOOLEAN, scanning : BOOLEAN]
        /\ (~listening.scanning => found = <<>>)
        /\ copy \in C(silent) /\ (~copy.held => copy.table = <<>>)
    BY <1>1 DEF TablePart
  <1>5. ASSUME NEW quiet \in [Ours -> Nat], silent' = quiet, H \subseteq TrueEntries(leases, quiet),
               NEW table \in Seq(TrueEntries(leases, quiet)), Sync(table), found' \in Seq(TrueEntries(leases, quiet)),
               copy' = copy, copy \in C(quiet),
               listening' \in [on : BOOLEAN, draining : BOOLEAN, scanning : BOOLEAN],
               ~listening'.scanning => found' = <<>>
        PROVE  PresenceInv'
    <2>1. /\ peers' \in Seq(TrueEntries(leases, quiet)) /\ swept' = TRUE
          /\ row' \in [Ours -> UNION {RowsOf(m, leases) : m \in Ours}] /\ \A m \in Ours : row'[m] \in RowsOf(m, leases)
          /\ controller' \in [Ours -> UNION {ControllersOf(m, leases) : m \in Ours}]
          /\ \A m \in Ours : controller'[m] \in ControllersOf(m, leases)
          /\ \A m \in Ours : row'[m].online => quiet[m] <= Ttl
      BY <1>1, <1>5, SyncKeeps
    <2>2. NetworkPart'
      BY <1>1, <1>3, <1>5 DEF NetworkPart
    <2>3. TablePart'
      BY <1>3, <1>4, <1>5, <2>1 DEF TablePart
    <2>4. \A m \in Ours : row'[m].online => silent'[m] <= Ttl + Lag'
      <3>1. Lag' = 0
        BY <2>1 DEF Lag
      <3>2. Ttl + 0 = Ttl
        BY PresenceFacts
      <3> QED BY <1>5, <2>1, <3>1, <3>2
    <2>5. RowPart'
      BY <1>3, <2>1, <2>4 DEF RowPart
    <2> QED BY <2>2, <2>3, <2>5 DEF PresenceInv
  <1>6. CASE \E m \in Machines : Heard(m)
    <2>1. PICK m \in Machines : Heard(m)
      BY <1>6
    <2>2. silent' = HeardFrom(m) /\ UNCHANGED <<found, copy, listening>>
          /\ Sync(IF Visible(Packet(m)) THEN Merge(peers, Packet(m)) ELSE peers)
      BY <2>1 DEF Heard
    <2> DEFINE quiet == HeardFrom(m)
               table == IF Visible(Packet(m)) THEN Merge(peers, Packet(m)) ELSE peers
    <2>3. /\ quiet \in [Ours -> Nat] /\ H \subseteq TrueEntries(leases, quiet)
          /\ Young(leases, silent) \subseteq Young(leases, quiet)
          /\ m \in Ours => Packet(m) \in TrueEntries(leases, quiet)
      BY <1>1, <2>2, HeardEntries
    <2>4. Visible(Packet(m)) => m \in Ours
      BY DEF Visible, Packet, Ours
    <2>5. peers \in Seq(TrueEntries(leases, quiet)) /\ found \in Seq(TrueEntries(leases, quiet))
      BY <1>4, <2>3, WiderSeq
    <2>6. copy \in C(quiet)
      BY <1>4, <2>3, CopyWider
    <2> HIDE DEF H, C, quiet
    <2>7. table \in Seq(TrueEntries(leases, quiet))
      BY <2>3, <2>4, <2>5, MergeKeeps
    <2>8. silent' = quiet /\ Sync(table) /\ found' = found /\ copy' = copy /\ listening' = listening
      BY <2>2 DEF quiet
    <2> HIDE DEF table
    <2> QED BY <1>4, <1>5, <2>3, <2>5, <2>7, <2>8, <2>6
  <1>7. CASE \E m \in Machines : ScanHears(m)
    <2>1. PICK m \in Machines : ScanHears(m)
      BY <1>7
    <2>2. /\ silent' = HeardFrom(m) /\ m \in Ours /\ listening.scanning
          /\ found' = Merge(found, Packet(m)) /\ UNCHANGED <<peers, copy, row, controller, listening, swept>>
      BY <2>1 DEF ScanHears
    <2>3. /\ silent' \in [Ours -> Nat] /\ \A n \in Ours : silent'[n] <= silent[n]
          /\ H \subseteq TrueEntries(leases, silent') /\ Packet(m) \in TrueEntries(leases, silent')
          /\ Young(leases, silent) \subseteq Young(leases, silent')
      BY <1>1, <2>2, HeardEntries
    <2> HIDE DEF H
    <2>4. peers \in Seq(TrueEntries(leases, silent')) /\ found \in Seq(TrueEntries(leases, silent'))
      BY <1>4, <2>3, WiderSeq
    <2>5. found' \in Seq(TrueEntries(leases, silent'))
      BY <2>2, <2>3, <2>4, MergeKeeps
    <2>6. NetworkPart'
      BY <1>1, <1>3, <2>3 DEF NetworkPart
    <2>7. copy \in C(silent')
      BY <1>4, <2>3, CopyWider
    <2>8. TablePart'
      BY <1>3, <1>4, <2>2, <2>4, <2>5, <2>7 DEF TablePart
    <2>9. ASSUME listening.on, NEW n \in Ours, row[n].online PROVE silent'[n] <= Ttl + Lag
      <3>1. silent[n] <= Ttl + Lag /\ n \in Ours
        BY <1>1, <2>9, PresenceFacts DEF RowPart
      <3>2. silent[n] \in Nat /\ silent'[n] \in Nat /\ silent'[n] <= silent[n] /\ Ttl + Lag \in Nat
        BY <1>1, <2>3, <3>1, PresenceFacts DEF Lag
      <3> QED BY <3>1, <3>2
    <2>10. RowPart'
      BY <1>1, <1>3, <2>2, <2>9 DEF RowPart, Lag
    <2> QED BY <2>6, <2>8, <2>10 DEF PresenceInv
  <1>8. CASE StartDiscovery
    <2>1. silent' = silent /\ Sync(peers) /\ found' = found /\ copy' = copy /\ listening' = [listening EXCEPT !.on = TRUE]
      BY <1>8 DEF StartDiscovery
    <2>2. listening' \in [on : BOOLEAN, draining : BOOLEAN, scanning : BOOLEAN] /\ listening'.scanning = listening.scanning
      BY <1>4, <2>1
    <2> QED BY <1>1, <1>4, <1>5, <2>1, <2>2
  <1>9. CASE Sweep
    <2>1. silent' = silent /\ Sync(peers) /\ found' = found /\ copy' = copy /\ listening' = [listening EXCEPT !.draining = FALSE]
      BY <1>9 DEF Sweep
    <2>2. listening' \in [on : BOOLEAN, draining : BOOLEAN, scanning : BOOLEAN] /\ listening'.scanning = listening.scanning
      BY <1>4, <2>1
    <2> QED BY <1>1, <1>4, <1>5, <2>1, <2>2
  <1>10. CASE ScanEnds
    <2>1. silent' = silent /\ Sync(MergeAll(peers, found)) /\ found' = <<>> /\ copy' = copy /\ listening' = [listening EXCEPT !.scanning = FALSE]
      BY <1>10 DEF ScanEnds
    <2>2. listening' \in [on : BOOLEAN, draining : BOOLEAN, scanning : BOOLEAN]
      BY <1>4, <2>1
    <2>3. MergeAll(peers, found) \in Seq(H)
      BY <1>4, MergeAllKeeps
    <2>4. found' \in Seq(H)
      BY <2>1
    <2> QED BY <1>1, <1>4, <1>5, <2>1, <2>2, <2>3, <2>4
  <1>11. CASE StopDiscovery \/ ScanBegins
    <2>1. UNCHANGED <<peers, copy, row, controller, swept, silent>> /\ (found' = found)
      BY <1>11 DEF StopDiscovery, ScanBegins
    <2>2. \/ listening' = [listening EXCEPT !.on = FALSE, !.draining = TRUE]
          \/ listening' = [listening EXCEPT !.scanning = TRUE]
      BY <1>11 DEF StopDiscovery, ScanBegins
    <2>3. /\ listening' \in [on : BOOLEAN, draining : BOOLEAN, scanning : BOOLEAN]
          /\ listening'.on => listening.on
          /\ listening.scanning => listening'.scanning
      BY <1>4, <2>2
    <2>4. NetworkPart' /\ TablePart'
      BY <1>1, <1>3, <1>4, <2>1, <2>3 DEF NetworkPart, TablePart
    <2>5. RowPart'
      BY <1>1, <1>3, <2>1, <2>3 DEF RowPart, Lag
    <2> QED BY <2>4, <2>5 DEF PresenceInv
  <1>12. CASE Tick
    <2> DEFINE aged == [i \in 1..Len(peers) |-> [peers[i] EXCEPT !.age = IF @ > Ttl THEN @ ELSE @ + 1]]
               rows == [m \in Ours |-> [row[m] EXCEPT !.grace = IF @ = 0 THEN 0 ELSE @ - 1]]
               quiet == [m \in Ours |-> IF silent[m] > Ttl + 1 THEN silent[m] ELSE silent[m] + 1]
    <2>1. /\ peers' = aged /\ row' = rows /\ silent' = quiet /\ swept' = FALSE
          /\ UNCHANGED <<found, copy, controller, listening>> /\ ~copy.held /\ ~listening.scanning /\ (listening.on => swept)
      BY <1>12 DEF Tick
    <2>2. quiet \in [Ours -> Nat] /\ \A n \in Ours : quiet[n] <= silent[n] + 1
      BY <1>1, PresenceFacts
    <2>3. NetworkPart'
      BY <1>1, <1>3, <2>1, <2>2 DEF NetworkPart
    <2> HIDE DEF quiet
    <2>4. ASSUME NEW q \in H PROVE [q EXCEPT !.age = IF @ > Ttl THEN @ ELSE @ + 1] \in TrueEntries(leases, quiet)
      <3> DEFINE a == IF q.age > Ttl THEN q.age ELSE q.age + 1
      <3>1. /\ q \in [id : Machines \X Addresses, host : Ours, ip : Addresses, key : Machines \X Nat,
                      upgrading : BOOLEAN, age : Nat]
            /\ q.id[1] = q.host /\ q.key[1] = q.host /\ <<q.host, q.ip>> \in leases
            /\ q.age <= Ttl => silent[q.host] <= q.age
        BY DEF TrueEntries
      <3>2. q.age \in Nat /\ q.host \in Ours /\ silent[q.host] \in Nat /\ quiet[q.host] \in Nat
            /\ quiet[q.host] <= silent[q.host] + 1
        BY <1>1, <2>2, <3>1, PresenceFacts
      <3>3. a \in Nat /\ (a <= Ttl => quiet[q.host] <= a)
        BY <3>1, <3>2, PresenceFacts
      <3>4. [q EXCEPT !.age = IF @ > Ttl THEN @ ELSE @ + 1] = [q EXCEPT !.age = a]
        OBVIOUS
      <3> HIDE DEF a, H
      <3>5. [q EXCEPT !.age = a] \in TrueEntries(leases, quiet)
        BY <3>1, <3>3 DEF TrueEntries
      <3> QED BY <3>4, <3>5
    <2>5. aged \in Seq(TrueEntries(leases, quiet))
      <3> HIDE DEF H
      <3>1. Len(peers) \in Nat /\ \A i \in 1..Len(peers) : peers[i] \in H
        BY <1>4, LenProperties, ElementOfSeq
      <3>2. aged \in [1..Len(peers) -> TrueEntries(leases, quiet)]
        BY <2>4, <3>1
      <3> QED BY <3>1, <3>2, SeqDef
    <2>6. TablePart'
      <3>1. found' = <<>>
        BY <1>4, <2>1
      <3>2. found' \in Seq(TrueEntries(leases, quiet))
        BY <3>1
      <3>3. copy' \in C(quiet) /\ copy'.table = <<>>
        <4>1. copy = [held |-> FALSE, table |-> <<>>]
          BY <1>4, <2>1
        <4> QED BY <2>1, <4>1
      <3> QED BY <1>3, <1>4, <2>1, <2>5, <3>1, <3>2, <3>3 DEF TablePart
    <2>7. ASSUME NEW m \in Ours PROVE rows[m] \in RowsOf(m, leases) /\ rows[m].online = row[m].online
      <3> DEFINE g == IF row[m].grace = 0 THEN 0 ELSE row[m].grace - 1
      <3>1. row[m] \in RowsOf(m, leases)
        BY <1>1 DEF RowPart
      <3>2. rows[m] = [row[m] EXCEPT !.grace = g]
        OBVIOUS
      <3>3. g \in Nat
        BY <3>1 DEF RowsOf
      <3> HIDE DEF g, rows
      <3> QED BY <3>1, <3>2, <3>3 DEF RowsOf
    <2>8. ASSUME listening.on, NEW m \in Ours, rows[m].online PROVE quiet[m] <= Ttl + 1
      <3>1. row[m].online /\ swept /\ m \in Machines
        BY <2>1, <2>7, <2>8, PresenceFacts
      <3>2. silent[m] <= Ttl + 0
        BY <1>1, <2>8, <3>1 DEF RowPart, Lag
      <3> QED BY <1>1, <2>2, <3>1, <3>2, PresenceFacts
    <2>9. rows \in [Ours -> UNION {RowsOf(m, leases) : m \in Ours}]
      BY <2>7
    <2> HIDE DEF rows
    <2>10. RowPart'
      BY <1>1, <1>3, <2>1, <2>7, <2>8, <2>9 DEF RowPart, Lag
    <2> QED BY <2>3, <2>6, <2>10 DEF PresenceInv
  <1>13. CASE TakeCopy
    <2> DEFINE live == Prune(peers)
    <2>1. /\ peers' = live /\ copy' = [held |-> TRUE, table |-> live]
          /\ UNCHANGED <<found, row, controller, listening, swept, silent>>
      BY <1>13 DEF TakeCopy
    <2>2. live \in Seq(Young(leases, silent)) /\ live \in Seq(H)
      BY <1>4, PrunedIsYoung
    <2> HIDE DEF live
    <2>3. copy' \in C(silent) /\ copy'.held
      BY <2>1, <2>2
    <2>4. NetworkPart' /\ TablePart'
      BY <1>1, <1>3, <1>4, <2>1, <2>2, <2>3 DEF NetworkPart, TablePart
    <2>5. RowPart'
      BY <1>1, <1>3, <2>1 DEF RowPart, Lag
    <2> QED BY <2>4, <2>5 DEF PresenceInv
  <1>14. CASE UseCopy
    <2>1. /\ Apply(copy.table) /\ copy' = [held |-> FALSE, table |-> <<>>]
          /\ UNCHANGED <<peers, found, listening, swept, silent>>
      BY <1>14 DEF UseCopy
    <2>2. copy.table \in Seq(Young(leases, silent))
      BY <1>4
    <2>3. /\ row' \in [Ours -> UNION {RowsOf(m, leases) : m \in Ours}] /\ \A m \in Ours : row'[m] \in RowsOf(m, leases)
          /\ controller' \in [Ours -> UNION {ControllersOf(m, leases) : m \in Ours}]
          /\ \A m \in Ours : controller'[m] \in ControllersOf(m, leases)
          /\ \A m \in Ours : row'[m].online => silent[m] <= Ttl
      BY <1>1, <2>1, <2>2, ApplyKeeps
    <2>4. copy' \in C(silent) /\ copy'.table = <<>>
      BY <2>1
    <2>5. NetworkPart' /\ TablePart'
      BY <1>1, <1>3, <1>4, <2>1, <2>4 DEF NetworkPart, TablePart
    <2>6. \A m \in Ours : row'[m].online => silent[m] <= Ttl + Lag
      <3>1. \A m \in Ours : silent[m] \in Nat /\ Ttl \in Nat /\ Lag \in {0, 1}
        BY <1>1, PresenceFacts DEF Lag
      <3> QED BY <2>3, <3>1
    <2>7. RowPart'
      BY <1>3, <2>1, <2>3, <2>6 DEF RowPart, Lag
    <2> QED BY <2>5, <2>7 DEF PresenceInv
  <1> QED BY <1>6, <1>7, <1>8, <1>9, <1>10, <1>11, <1>12, <1>13, <1>14

\* As long as no machine is given an address that another one has had, every
\* row is true of the machine it stands for, whatever datagrams are lost, kept
\* by a scan or merged late (apply_peer_presence, refresh_paired_controller_keys).
THEOREM RowsTellTheTruth == ~Reuse => (PresenceSpec => []RowsAreTrue)
  <1> SUFFICES ASSUME ~Reuse PROVE PresenceSpec => []RowsAreTrue
    OBVIOUS
  <1>1. PresenceInv /\ [PresenceNext]_presenceVars => PresenceInv'
    <2> SUFFICES ASSUME PresenceInv, [PresenceNext]_presenceVars PROVE PresenceInv'
      OBVIOUS
    <2>1. CASE UNCHANGED presenceVars
      BY <2>1 DEF presenceVars, machineVars, PresenceInv, NetworkPart, TablePart, RowPart, Lag
    <2>2. CASE MachineStep
      BY <2>2, MachinesKeep
    <2>3. CASE PresenceNext /\ ~MachineStep
      BY <2>3, ThreadsKeep DEF PresenceNext
    <2> QED BY <2>1, <2>2, <2>3
  <1>2. PresenceInv => RowsAreTrue
    <2> SUFFICES ASSUME PresenceInv PROVE RowsAreTrue
      OBVIOUS
    <2>1. \A m \in Ours : row[m].key[1] = m /\ controller[m].key[1] = m
      BY DEF PresenceInv, RowPart, RowsOf, ControllersOf
    <2>2. ASSUME listening.on, NEW m \in Ours, row[m].online PROVE silent[m] <= Ttl + 1
      <3>1. silent[m] <= Ttl + Lag /\ silent[m] \in Nat /\ Ttl \in Nat
        BY <2>2, PresenceFacts DEF PresenceInv, RowPart, NetworkPart
      <3> QED BY <3>1 DEF Lag
    <2> QED BY <2>1, <2>2 DEF RowsAreTrue, OnlineIsRecent, KeepsToMachine
  <1> QED BY <1>1, <1>2, InitPresenceInv, PTL DEF PresenceSpec
=============================================================================
