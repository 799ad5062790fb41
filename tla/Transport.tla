------------------------------ MODULE Transport ------------------------------
(* The sending side of quic_transport.rs towards one peer: the command loop, *)
(* the connection cache with its Connecting mark, the background dials, the   *)
(* tasks that carry a control, an input or a bulk stream, and the fast-fail   *)
(* health record.  The client of the loop is QuicControllerTransport of       *)
(* controller_client.rs; its motion slot is MotionSlot.tla, here a command    *)
(* that sends the position of a session.                                      *)
(*                                                                            *)
(* Steps are cut where another thread can come between: at every lock of the  *)
(* cache and at every await.                                                  *)
EXTENDS Naturals, Sequences, FiniteSets

CONSTANTS
    MaxSessions,    \* handoffs of the client: each opens its own handles
    MaxBulk,        \* sends of the clipboard or file threads
    MaxConns,       \* connections established over the life of the model
    MaxDatagrams,   \* datagrams waiting in the command queue
    ControlSlots,   \* MAX_CONTROL_CONNECTIONS
    InputSlots,     \* MAX_INPUT_CONNECTIONS
    StreamSlots,    \* MAX_CONCURRENT_STREAMS
    FailThreshold,  \* DATAGRAM_FAIL_THRESHOLD
    None,           \* no entry, no connection
    Connecting      \* ConnectionSlot::Connecting

ASSUME BoundsAreNat ==
    /\ {MaxSessions, MaxBulk, MaxConns, MaxDatagrams} \subseteq Nat
    /\ {ControlSlots, InputSlots, StreamSlots, FailThreshold} \subseteq Nat \ {0}
ASSUME MarksAreNotNumbers == None # Connecting /\ None \notin Nat /\ Connecting \notin Nat

VARIABLES
    cmds,      \* TransportCommand queue
    loop,      \* where the command loop is, and whose datagram it sends
    entry,     \* the cache entry of the peer: None, Connecting or a connection
    made,      \* connections established so far; they are numbered from 1
    lost,      \* connections that are closed
    dials,     \* datagram dials under way
    cleared,   \* running dials whose mark another task took out of the cache
    health,    \* consecutive failures, and whether the last one is recent
    task,      \* the stream tasks
    client     \* the handoff of the client and the handles it holds

transportVars == <<cmds, loop, entry, made, lost, dials, cleared, health, task, client>>
cacheVars == <<entry, made, lost, dials, cleared, health>>

Sessions == 1..MaxSessions
Conns == 1..MaxConns
Control(s) == <<"control", s>>
Input(s) == <<"input", s>>
Bulk(b) == <<"bulk", b>>
Tasks == {Control(s) : s \in Sessions} \cup {Input(s) : s \in Sessions} \cup {Bulk(b) : b \in 1..MaxBulk}
Running == {"lookup", "dial", "open", "offered", "serving", "eof"}

Motion(s) == <<"motion", s>>
Warm == <<"warm", 0>>
Commands == Tasks \cup {Motion(s) : s \in Sessions} \cup {Warm}

Idle == [at |-> "recv", for |-> None]

TransportInit ==
    /\ cmds = <<>> /\ loop = Idle
    /\ entry = None /\ made = 0 /\ lost = {} /\ dials = 0 /\ cleared = 0
    /\ health = [fails |-> 0, recent |-> FALSE]
    /\ task = [t \in Tasks |-> [at |-> "unborn", conn |-> None]]
    /\ client = [session |-> 0, holds |-> "nothing"]

-----------------------------------------------------------------------------
(* Helpers: health record, cache entry, permits.                             *)
Muted == health.fails >= FailThreshold /\ health.recent
RecordFailure == health' = [fails |-> IF health.fails < FailThreshold THEN health.fails + 1 ELSE FailThreshold,
                            recent |-> TRUE]
RecordSuccess == health' = [fails |-> 0, recent |-> FALSE]

Ready == entry \in Conns /\ entry \notin lost

\* A task other than a dial writes the entry: a mark it finds there is gone.
Overwrite(e) ==
    /\ entry' = e
    /\ cleared' = IF entry = Connecting THEN cleared + 1 ELSE cleared

Held(kind) == {t \in Tasks : t[1] = kind /\ task[t].at \in Running}
Limit(t) == CASE t[1] = "control" -> ControlSlots
              [] t[1] = "input" -> InputSlots
              [] OTHER -> StreamSlots
Permit(t) == Cardinality(Held(t[1])) < Limit(t)

Goto(t, at) == task' = [task EXCEPT ![t].at = at]
End(t) == task' = [task EXCEPT ![t] = [at |-> "done", conn |-> None]]

-----------------------------------------------------------------------------
(* The client thread.                                                        *)

\* connect: open_control queues the command and returns at once.
Connect ==
    /\ client.holds = "nothing" /\ client.session < MaxSessions
    /\ LET s == client.session + 1 IN
        /\ client' = [session |-> s, holds |-> "control"]
        /\ cmds' = Append(cmds, Control(s))
        /\ Goto(Control(s), "queued")
    /\ UNCHANGED <<loop, cacheVars>>

\* open_input, once the receiver has answered on the control stream.
OpenInput ==
    /\ client.holds = "control" /\ task[Control(client.session)].at = "serving"
    /\ LET s == client.session IN
        /\ client' = [client EXCEPT !.holds = "all"]
        /\ cmds' = Append(cmds, Input(s))
        /\ Goto(Input(s), "queued")
    /\ UNCHANGED <<loop, cacheVars>>

\* disconnect: the input queue loses its only sender and no more positions come.
\* The control stream keeps a sender in read_outbound_control, so dropping the
\* handle does not end it.
Disconnect ==
    /\ client.holds # "nothing"
    /\ client' = [client EXCEPT !.holds = "nothing"]
    /\ UNCHANGED <<cmds, loop, cacheVars, task>>

Datagrams == {Motion(s) : s \in Sessions} \cup {Warm}
Waiting(C) == Cardinality({i \in 1..Len(cmds) : cmds[i] \in C})

\* A position of the session; its slot has one flush in the queue at most.
SendMotion ==
    /\ client.holds = "all" /\ Waiting({Motion(client.session)}) = 0
    /\ Waiting(Datagrams) < MaxDatagrams
    /\ cmds' = Append(cmds, Motion(client.session))
    /\ UNCHANGED <<loop, cacheVars, task, client>>

\* Other threads: warm_quic_peer's empty datagram, and a bulk stream.  Both are
\* refused at the handle while the peer is muted.
SendWarm ==
    /\ ~Muted /\ Waiting(Datagrams) < MaxDatagrams
    /\ cmds' = Append(cmds, Warm)
    /\ UNCHANGED <<loop, cacheVars, task, client>>

SendBulk(b) ==
    /\ ~Muted /\ task[Bulk(b)].at = "unborn"
    /\ cmds' = Append(cmds, Bulk(b))
    /\ Goto(Bulk(b), "queued")
    /\ UNCHANGED <<loop, cacheVars, client>>

-----------------------------------------------------------------------------
(* The command loop.                                                         *)
AtRecv(c) == loop.at = "recv" /\ cmds # <<>> /\ Head(cmds) = c

\* OpenControl, OpenInput, SendStream: without a permit the command is dropped.
RecvOpen(t) ==
    /\ AtRecv(t)
    /\ cmds' = Tail(cmds)
    /\ IF Permit(t) THEN Goto(t, "lookup") ELSE End(t)
    /\ UNCHANGED <<loop, cacheVars, client>>

\* A datagram: empty, or the position of a session (0 stands for no session).
RecvDatagram(c) ==
    /\ AtRecv(c)
    /\ cmds' = Tail(cmds) /\ loop' = [at |-> "send", for |-> c[2]]
    /\ UNCHANGED <<cacheVars, task, client>>

\* The lookup of send_datagram_nonblocking: a live connection takes the datagram
\* or refuses it, a mark drops it, anything else empties the entry and dials.
SendDatagram ==
    /\ loop.at = "send"
    /\ \/ /\ Ready
          /\ RecordSuccess
          /\ loop' = Idle
          /\ UNCHANGED entry
       \/ /\ Ready
          /\ loop' = [loop EXCEPT !.at = "forget"]
          /\ UNCHANGED <<health, entry>>
       \/ /\ entry = Connecting
          /\ loop' = Idle
          /\ UNCHANGED <<health, entry>>
       \/ /\ ~Ready /\ entry # Connecting
          /\ entry' = None
          /\ loop' = [loop EXCEPT !.at = "dial"]
          /\ UNCHANGED health
    /\ UNCHANGED <<cmds, made, lost, dials, cleared, task, client>>

\* quinn refused the datagram: the entry goes, whatever it has become.
ForgetEntry ==
    /\ loop.at = "forget"
    /\ Overwrite(None) /\ RecordFailure
    /\ loop' = Idle
    /\ UNCHANGED <<cmds, made, lost, dials, task, client>>

\* Fault: a dial leaves no mark.
MarkedNot == entry

Marked == Connecting

\* The cache was unlocked since the lookup: the mark replaces what is there now.
StartDial ==
    /\ loop.at = "dial"
    /\ IF Muted THEN UNCHANGED <<entry, dials>>
                ELSE entry' = Marked /\ dials' = dials + 1
    /\ loop' = Idle
    /\ UNCHANGED <<cmds, made, lost, cleared, health, task, client>>

-----------------------------------------------------------------------------
(* Background dials and stream tasks.                                        *)

DialEnds ==
    /\ dials' = dials - 1
    /\ cleared' = IF cleared < dials THEN cleared ELSE dials - 1

\* The dial of a datagram ends: the entry is written whoever marked it last.
DialSucceeds ==
    /\ dials > 0 /\ made < MaxConns
    /\ made' = made + 1 /\ entry' = made + 1 /\ DialEnds
    /\ RecordSuccess
    /\ UNCHANGED <<cmds, loop, lost, task, client>>

AfterFailedDial == None

DialFails ==
    /\ dials > 0
    /\ entry' = AfterFailedDial /\ DialEnds
    /\ RecordFailure
    /\ UNCHANGED <<cmds, loop, made, lost, task, client>>

\* Reuse a live connection or dial one in the task itself.
Lookup(t) ==
    /\ task[t].at = "lookup"
    /\ task' = [task EXCEPT ![t] = IF Ready THEN [at |-> "open", conn |-> entry]
                                             ELSE [@ EXCEPT !.at = "dial"]]
    /\ UNCHANGED <<cmds, loop, cacheVars, client>>

TaskDialSucceeds(t) ==
    /\ task[t].at = "dial" /\ made < MaxConns
    /\ made' = made + 1 /\ Overwrite(made + 1) /\ RecordSuccess
    /\ task' = [task EXCEPT ![t] = [at |-> "open", conn |-> made + 1]]
    /\ UNCHANGED <<cmds, loop, lost, dials, client>>

\* Only the bulk task records the failure.
TaskDialFails(t) ==
    /\ task[t].at = "dial"
    /\ IF t[1] = "bulk" THEN RecordFailure ELSE UNCHANGED health
    /\ End(t)
    /\ UNCHANGED <<cmds, loop, entry, made, lost, dials, cleared, client>>

\* open_bi and the preface.  An error ends the task; a bulk task then drops the
\* entry of the peer, a control or input task leaves it.
OpenStream(t) ==
    /\ task[t].at = "open"
    /\ IF task[t].conn \notin lost THEN Goto(t, "offered") /\ UNCHANGED <<entry, cleared>>
       ELSE /\ End(t)
            /\ IF t[1] = "bulk" THEN Overwrite(None) ELSE UNCHANGED <<entry, cleared>>
    /\ UNCHANGED <<cmds, loop, made, lost, dials, health, client>>

\* control_active and input_active: the receiver serves one stream of each kind
\* per connection and finishes any other at once.
Occupied(t) == \E u \in Held(t[1]) \ {t} : task[u].at = "serving" /\ task[u].conn = task[t].conn
Offer(t) ==
    /\ t[1] # "bulk" /\ task[t].at = "offered" /\ task[t].conn \notin lost
    /\ Goto(t, IF Occupied(t) THEN "eof" ELSE "serving")
    /\ UNCHANGED <<cmds, loop, cacheVars, client>>

\* The receiver stops serving: a frame it cannot decode, a rate it refuses.
ServingStops(t) ==
    /\ task[t].at = "serving" /\ task[t].conn \notin lost
    /\ Goto(t, "eof")
    /\ UNCHANGED <<cmds, loop, cacheVars, client>>

\* read_outbound_control ends: at the end of the stream, or with an error that
\* closes the connection.  Either way the entry of the peer goes.
ControlEnds(t) ==
    /\ t[1] = "control" /\ task[t].at \in {"offered", "serving", "eof"}
    /\ task[t].at # "eof" => task[t].conn \in lost
    /\ Overwrite(None) /\ End(t)
    /\ UNCHANGED <<cmds, loop, made, lost, dials, health, client>>

\* A frame from the receiver that cannot be decoded, or too many of them.
ControlFails(t) ==
    /\ t[1] = "control" /\ task[t].at = "serving"
    /\ lost' = lost \cup {task[t].conn}
    /\ Overwrite(None) /\ End(t)
    /\ UNCHANGED <<cmds, loop, made, dials, health, client>>

\* The handle is gone, or a write fails: the task ends and leaves the entry.
InputEnds(t) ==
    /\ t[1] = "input" /\ task[t].at \in {"offered", "serving", "eof"}
    /\ \/ task[t].at = "eof" \/ task[t].conn \in lost
       \/ client.session # t[2] \/ client.holds # "all"
    /\ End(t)
    /\ UNCHANGED <<cmds, loop, cacheVars, client>>

\* send_stream_on_connection returns: acknowledged, or rejected, lost or late.
BulkAcked(t) ==
    /\ t[1] = "bulk" /\ task[t].at = "offered" /\ task[t].conn \notin lost
    /\ End(t)
    /\ UNCHANGED <<cmds, loop, cacheVars, client>>

BulkFails(t) ==
    /\ t[1] = "bulk" /\ task[t].at = "offered"
    /\ Overwrite(None) /\ End(t)
    /\ UNCHANGED <<cmds, loop, made, lost, dials, health, client>>

-----------------------------------------------------------------------------
(* The network and the clock.                                                *)
\* A connection that is still held closes; one that nobody holds is not seen.
Lose(c) ==
    /\ c \notin lost /\ (c = entry \/ \E t \in Tasks : task[t].conn = c)
    /\ lost' = lost \cup {c}
    /\ UNCHANGED <<cmds, loop, entry, made, dials, cleared, health, task, client>>

\* DATAGRAM_RETRY_WINDOW passes since the last failure.
WindowPasses ==
    /\ health.recent /\ health' = [health EXCEPT !.recent = FALSE]
    /\ UNCHANGED <<cmds, loop, entry, made, lost, dials, cleared, task, client>>

ClientStep == Connect \/ OpenInput \/ Disconnect \/ SendMotion \/ SendWarm
LoopStep ==
    \/ \E t \in Tasks : RecvOpen(t)
    \/ \E c \in Datagrams : RecvDatagram(c)
    \/ SendDatagram \/ ForgetEntry \/ StartDial
TaskStep(t) ==
    \/ Lookup(t) \/ TaskDialSucceeds(t) \/ TaskDialFails(t) \/ OpenStream(t) \/ Offer(t)
    \/ ServingStops(t) \/ ControlEnds(t) \/ ControlFails(t) \/ InputEnds(t)
    \/ BulkAcked(t) \/ BulkFails(t)

TransportNext ==
    \/ ClientStep \/ LoopStep \/ DialSucceeds \/ DialFails \/ WindowPasses
    \/ \E b \in 1..MaxBulk : SendBulk(b)
    \/ \E t \in Tasks : TaskStep(t)
    \/ \E c \in Conns : Lose(c)

TransportSpec == TransportInit /\ [][TransportNext]_transportVars

-----------------------------------------------------------------------------
(* Properties.                                                               *)

\* The Connecting mark belongs to a dial that will take it away: no datagram is
\* dropped for a dial that is not running.
MarkHasDial == entry = Connecting => dials > 0

\* "A burst of mouse moves cannot spawn a connect storm": a further dial starts
\* beside a running one only when another task took its mark out of the cache.
NoConnectStorm == IF entry = Connecting THEN dials <= cleared + 1 ELSE dials <= cleared
=============================================================================
