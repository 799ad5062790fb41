--------------------------- MODULE ClipboardSync ---------------------------
(***************************************************************************)
(* Two machines that keep each other's clipboard (clipboard_sync.rs and    *)
(* its wiring in lib.rs).  On each, the system clipboard is changed by the *)
(* user and by remote operations; a watcher thread turns the changes it    *)
(* notices into operations and sends them one at a time; a stream handler  *)
(* applies the peer's operations.  An engine behind a lock orders them all. *)
(***************************************************************************)
EXTENDS Naturals, FiniteSets

CONSTANTS
    Peers,       \* the two paired machines
    Rank,        \* the order of their peer ids
    Queued,      \* machines whose watcher is told of each revision (Windows)
    Sizes,       \* sizes of clipboard contents
    Limit,       \* the largest size each machine is configured to take
    Boots,       \* boot ids each machine may draw, random but ordered
    MaxUser,     \* bound on the user's copies and resends
    MaxRevision, \* bound on the changes of one system clipboard
    None

ASSUME ClipboardAssumption ==
    /\ IsFiniteSet(Peers) /\ Cardinality(Peers) = 2
    /\ Rank \in [Peers -> Nat] /\ \A p, q \in Peers : Rank[p] = Rank[q] => p = q
    /\ Queued \subseteq Peers
    /\ Sizes \subseteq Nat /\ Limit \in [Peers -> Nat]
    /\ \A p \in Peers : Boots[p] \subseteq Nat /\ Boots[p] # {}
    /\ MaxUser \in Nat /\ MaxRevision \in Nat

VARIABLES
    system,   \* the system clipboard: its content and its change count
    engine,   \* ClipboardSyncEngine of each machine, None while stopped
    writing,  \* the operation a handler, holding the engine lock, has written
    threads,  \* watcher threads; a stopped one may outlive its engine
    resend,   \* the user asked for a resend
    target,   \* a clipboard peer is known
    wire,     \* operations on their way to each machine
    boots,    \* boot ids each machine has used
    user,     \* how many times the users acted
    missed    \* history: a change or an operation was given up

vars == <<system, engine, writing, threads, resend, target, wire, boots, user, missed>>
----------------------------------------------------------------------------
Other(p) == CHOOSE q \in Peers : q # p

BootIds == UNION {Boots[p] : p \in Peers}
Contents == [by : Peers, nth : 1..MaxUser, size : Sizes]
Orders == [lamport : Nat, peer : Peers, boot : BootIds, sequence : Nat]
Operations == [order : Orders, content : Contents]
Engines == [boot : BootIds, last : 0..MaxRevision, sequence : Nat, lamport : Nat,
            order : Orders \cup {None}, digest : Contents \cup {None},
            echo : [revision : 0..MaxRevision, content : Contents] \cup {None}]
Threads == [boot : BootIds, stopped : BOOLEAN, resent : BOOLEAN, last : 0..MaxRevision,
            at : {"start", "idle", "read", "observe", "send", "await"},
            content : Contents \cup {None}, op : Operations \cup {None}]

ASSUME NoneAssumption == None \notin Engines \cup Operations \cup Orders \cup Contents

\* Faults: concurrent operations are not ordered; nor is the time they carry.
TiedOlder(x, y) == x.lamport < y.lamport
OwnClock(lamport, op) == lamport

\* OperationOrder: lamport, origin_peer, then (boot_id, local_sequence).
Older(x, y) ==
    \/ x.lamport < y.lamport
    \/ /\ x.lamport = y.lamport
       /\ \/ Rank[x.peer] < Rank[y.peer]
          \/ x.peer = y.peer /\ \/ x.boot < y.boot
                                \/ x.boot = y.boot /\ x.sequence < y.sequence

\* consider_remote: the clock follows every valid operation, applied or not.
Merged(lamport, op) == IF lamport < op.order.lamport THEN op.order.lamport ELSE lamport

\* ClipboardSyncEngine::new.
NewEngine(boot, baseline) ==
    [boot |-> boot, last |-> baseline, sequence |-> 0, lamport |-> 0,
     order |-> None, digest |-> None, echo |-> None]

NewThread(boot, at) ==
    [boot |-> boot, stopped |-> FALSE, resent |-> FALSE, last |-> 0, at |-> at,
     content |-> None, op |-> None]

\* Both machines start with an empty clipboard and no known peer.
Init ==
    /\ system = [p \in Peers |-> [revision |-> 0, content |-> None]]
    /\ \E boot \in {f \in [Peers -> BootIds] : \A p \in Peers : f[p] \in Boots[p]} :
        /\ engine = [p \in Peers |-> NewEngine(boot[p], 0)]
        /\ threads = [p \in Peers |-> {NewThread(boot[p], "idle")}]
        /\ boots = [p \in Peers |-> {boot[p]}]
    /\ writing = [p \in Peers |-> None]
    /\ resend = [p \in Peers |-> FALSE] /\ target = [p \in Peers |-> FALSE]
    /\ wire = [p \in Peers |-> {}]
    /\ user = 0 /\ missed = FALSE

\* Every change has been noticed and nothing is in flight.
Quiet ==
    \A p \in Peers :
        /\ engine[p] # None /\ writing[p] = None /\ wire[p] = {} /\ ~resend[p]
        /\ \E t \in threads[p] :
            threads[p] = {t} /\ t.at = "idle" /\ t.last = system[p].revision

Missed == missed' = TRUE
----------------------------------------------------------------------------
\* The system clipboard, the user and the session.

Write(p, content) ==
    /\ system[p].revision < MaxRevision
    /\ system' = [system EXCEPT ![p] = [revision |-> @.revision + 1, content |-> content]]

UserCopies(p) ==
    /\ user < MaxUser
    /\ \E size \in Sizes : Write(p, [by |-> p, nth |-> user + 1, size |-> size])
    /\ user' = user + 1
    /\ UNCHANGED <<engine, writing, threads, resend, target, wire, boots, missed>>

\* resend_clipboard.
AskResend(p) ==
    /\ user < MaxUser /\ engine[p] # None /\ target[p]
    /\ resend' = [resend EXCEPT ![p] = TRUE]
    /\ user' = user + 1
    /\ UNCHANGED <<system, engine, writing, threads, target, wire, boots, missed>>

\* The session names the clipboard peer, and takes it back when it ends.
SetTarget(p) ==
    /\ target' = [target EXCEPT ![p] = ~@]
    /\ UNCHANGED <<system, engine, writing, threads, resend, wire, boots, user, missed>>

\* stop_clipboard.
StopClipboard(p) ==
    /\ engine[p] # None /\ writing[p] = None
    /\ engine' = [engine EXCEPT ![p] = None]
    /\ target' = [target EXCEPT ![p] = FALSE]
    /\ resend' = [resend EXCEPT ![p] = FALSE]
    /\ threads' = [threads EXCEPT ![p] = {[t EXCEPT !.stopped = TRUE] : t \in @}]
    /\ Missed
    /\ UNCHANGED <<system, writing, wire, boots, user>>

\* start_clipboard: the engine's baseline is read before the thread listens.
StartClipboard(p) ==
    /\ engine[p] = None
    /\ \E boot \in Boots[p] \ boots[p] :
        /\ engine' = [engine EXCEPT ![p] = NewEngine(boot, system[p].revision)]
        /\ threads' = [threads EXCEPT ![p] = @ \cup {NewThread(boot, "start")}]
        /\ boots' = [boots EXCEPT ![p] = @ \cup {boot}]
    /\ UNCHANGED <<system, writing, resend, target, wire, user, missed>>
----------------------------------------------------------------------------
\* run_clipboard_sync: the watcher thread.

Becomes(p, t, u) == threads' = [threads EXCEPT ![p] = (@ \ {t}) \cup {u}]
Idle(t) == [t EXCEPT !.at = "idle", !.resent = FALSE, !.content = None, !.op = None]

\* The changes the platform can report: a Windows message carries the number
\* read when it is handled, the Mac watcher reads the current count.
Reported(p, t) ==
    {r \in t.last + 1 .. system[p].revision : p \in Queued \/ r = system[p].revision}

\* The listener takes its own baseline when the thread starts.
Listen(p, t) ==
    /\ t.at = "start"
    /\ Becomes(p, t, [t EXCEPT !.at = "idle", !.last = system[p].revision])
    /\ UNCHANGED <<system, engine, writing, resend, target, wire, boots, user, missed>>

\* A stopped thread leaves at the top of its loop; with no target it discards.
Leave(p, t) ==
    /\ t.at = "idle" /\ t.stopped
    /\ threads' = [threads EXCEPT ![p] = @ \ {t}]
    /\ UNCHANGED <<system, engine, writing, resend, target, wire, boots, user, missed>>

Discard(p, t) ==
    /\ t.at = "idle" /\ ~t.stopped /\ ~target[p]
    /\ \E r \in Reported(p, t) : Becomes(p, t, [t EXCEPT !.last = r])
    /\ Missed
    /\ UNCHANGED <<system, engine, writing, resend, target, wire, boots, user>>

\* A manual resend uses the revision last noticed, not the current one.
Notice(p, t) ==
    /\ t.at = "idle" /\ ~t.stopped /\ target[p]
    /\ resend' = [resend EXCEPT ![p] = FALSE]
    /\ IF resend[p]
       THEN Becomes(p, t, [t EXCEPT !.at = "read", !.resent = TRUE])
       ELSE \E r \in Reported(p, t) :
              Becomes(p, t, [t EXCEPT !.at = "read", !.last = r])
    /\ UNCHANGED <<system, engine, writing, target, wire, boots, user, missed>>

\* The content is read outside the lock and may be newer than the revision.
Read(p, t) ==
    /\ t.at = "read" /\ system[p].content # None
    /\ Becomes(p, t, [t EXCEPT !.at = "observe", !.content = system[p].content])
    /\ UNCHANGED <<system, engine, writing, resend, target, wire, boots, user, missed>>

\* Busy, an error, an empty clipboard or an image that may not be sent: the
\* change is not looked at again.
ReadFails(p, t) ==
    /\ t.at = "read"
    /\ Becomes(p, t, Idle(t))
    /\ missed' = (missed \/ system[p].content # None)
    /\ UNCHANGED <<system, engine, writing, resend, target, wire, boots, user>>

IsEcho(e, t) == e.echo # None /\ e.echo = [revision |-> t.last, content |-> t.content]

\* new_local_operation, new_local_image_operation.
LocalOrder(p, e) ==
    [lamport |-> e.lamport + 1, peer |-> p, boot |-> e.boot, sequence |-> e.sequence + 1]

Recorded(e, revision) == [e EXCEPT !.last = revision, !.echo = None]

\* observe_local_* makes an operation of what is new, manual_resend_* of all.
IsNew(e, t) == ~IsEcho(e, t) /\ t.last # e.last
Offers(e, t) == t.resent \/ IsNew(e, t)

\* observe_local_*: echo, unchanged, or no engine left to ask.
ObserveNothing(p, t) ==
    /\ t.at = "observe" /\ writing[p] = None
    /\ LET e == engine[p] IN
       \/ /\ e = None
          /\ threads' = [threads EXCEPT ![p] = @ \ {t}]
          /\ UNCHANGED engine
       \/ /\ e # None /\ ~t.resent
          /\ \/ /\ IsEcho(e, t)
                /\ engine' = [engine EXCEPT ![p] = Recorded(e, t.last)]
             \/ ~IsEcho(e, t) /\ t.last = e.last /\ UNCHANGED engine
          /\ Becomes(p, t, Idle(t))
    /\ UNCHANGED <<system, writing, resend, target, wire, boots, user, missed>>

\* observe_local_* and manual_resend_*: a new operation, or one too large.
ObserveCopy(p, t) ==
    /\ t.at = "observe" /\ writing[p] = None /\ engine[p] # None
    /\ LET e == Recorded(engine[p], t.last)
           order == LocalOrder(p, e)
       IN  /\ Offers(engine[p], t)
           /\ IF t.content.size > Limit[p]
              THEN /\ engine' = [engine EXCEPT ![p] = e]
                   /\ Becomes(p, t, Idle(t))
                   /\ Missed
              ELSE /\ engine' = [engine EXCEPT ![p] =
                        [e EXCEPT !.sequence = order.sequence, !.lamport = order.lamport,
                                  !.order = order, !.digest = t.content]]
                   /\ Becomes(p, t, [t EXCEPT !.at = "send", !.content = None,
                                        !.op = [order |-> order, content |-> t.content]])
                   /\ UNCHANGED missed
    /\ UNCHANGED <<system, writing, resend, target, wire, boots, user>>

\* send_stream_expect_ack; a failure is logged and never retried.
Send(p, t) ==
    /\ t.at = "send"
    /\ wire' = [wire EXCEPT ![Other(p)] = @ \cup {t.op}]
    /\ Becomes(p, t, [t EXCEPT !.at = "await"])
    /\ UNCHANGED <<system, engine, writing, resend, target, boots, user, missed>>

SendFails(p, t) ==
    /\ t.at = "send"
    /\ Becomes(p, t, Idle(t))
    /\ Missed
    /\ UNCHANGED <<system, engine, writing, resend, target, wire, boots, user>>

\* The answer, or the five seconds without one: both are only logged.
Answered(p, t) ==
    /\ t.at = "await"
    /\ Becomes(p, t, Idle(t))
    /\ UNCHANGED <<system, engine, writing, resend, target, wire, boots, user, missed>>
----------------------------------------------------------------------------
\* handle_v2_clipboard_operation, one call per stream, in any order.

Taken(p, op) == wire' = [wire EXCEPT ![p] = @ \ {op}]

\* The connection is lost with the stream on it.
LoseStream(p, op) ==
    /\ Taken(p, op)
    /\ Missed
    /\ UNCHANGED <<system, engine, writing, threads, resend, target, boots, user>>

Applies(e, op) == e.order # None => Older(e.order, op.order)

\* refresh_authenticated_clipboard_target: operations come from a peer that
\* may be sent to.
TargetKnown(p) == target' = [target EXCEPT ![p] = TRUE]

\* Stopped, an image that is not allowed, or one this machine cannot take.
Refuse(p, op) ==
    /\ writing[p] = None
    /\ Taken(p, op)
    /\ TargetKnown(p) \/ UNCHANGED target
    /\ Missed
    /\ UNCHANGED <<system, engine, writing, threads, resend, boots, user>>

\* A duplicate or stale operation is acknowledged and changes only the clock.
Ignore(p, op) ==
    /\ writing[p] = None /\ engine[p] # None /\ op.content.size <= Limit[p]
    /\ ~Applies(engine[p], op)
    /\ engine' = [engine EXCEPT ![p].lamport = Merged(@, op)]
    /\ TargetKnown(p)
    /\ Taken(p, op)
    /\ UNCHANGED <<system, writing, threads, resend, boots, user, missed>>

\* The system write and its retries, under the engine lock.
Apply(p, op) ==
    /\ writing[p] = None /\ engine[p] # None /\ op.content.size <= Limit[p]
    /\ Applies(engine[p], op)
    /\ engine' = [engine EXCEPT ![p].lamport = Merged(@, op)]
    /\ TargetKnown(p)
    /\ Taken(p, op)
    /\ \/ /\ Write(p, op.content)
          /\ writing' = [writing EXCEPT ![p] = op]
          /\ UNCHANGED missed
       \/ /\ Missed
          /\ UNCHANGED <<system, writing>>
    /\ UNCHANGED <<threads, resend, boots, user>>

\* commit_remote_parts, with the revision read after the write.
Commit(p) ==
    /\ writing[p] # None
    /\ engine' = [engine EXCEPT ![p].order = writing[p].order,
                                ![p].digest = writing[p].content,
                                ![p].echo = [revision |-> system[p].revision,
                                             content |-> writing[p].content]]
    /\ writing' = [writing EXCEPT ![p] = None]
    /\ UNCHANGED <<system, threads, resend, target, wire, boots, user, missed>>
----------------------------------------------------------------------------
Watch(p, t) ==
    \/ Listen(p, t) \/ Leave(p, t) \/ Discard(p, t) \/ Notice(p, t)
    \/ Read(p, t) \/ ReadFails(p, t) \/ ObserveNothing(p, t) \/ ObserveCopy(p, t)
    \/ Send(p, t) \/ SendFails(p, t) \/ Answered(p, t)

Handle(p, op) == LoseStream(p, op) \/ Refuse(p, op) \/ Ignore(p, op) \/ Apply(p, op)

Next ==
    \E p \in Peers :
        \/ UserCopies(p) \/ AskResend(p) \/ SetTarget(p)
        \/ StopClipboard(p) \/ StartClipboard(p) \/ Commit(p)
        \/ \E t \in threads[p] : Watch(p, t)
        \/ \E op \in wire[p] : Handle(p, op)

Spec == Init /\ [][Next]_vars
----------------------------------------------------------------------------
TypeOK ==
    /\ system \in [Peers -> [revision : 0..MaxRevision, content : Contents \cup {None}]]
    /\ engine \in [Peers -> Engines \cup {None}]
    /\ writing \in [Peers -> Operations \cup {None}]
    /\ threads \in [Peers -> SUBSET Threads]
    /\ resend \in [Peers -> BOOLEAN] /\ target \in [Peers -> BOOLEAN]
    /\ wire \in [Peers -> SUBSET Operations]
    /\ boots \in [Peers -> SUBSET BootIds]
    /\ user \in 0..MaxUser /\ missed \in BOOLEAN

\* The winner only moves forward: whatever order streams, copies, resends and
\* failed writes come in, an engine never replaces its operation by an older
\* one (lib.rs:6352, the lock kept through decide, write and commit).
WinnerNeverOlder ==
    [][\A p \in Peers :
         LET e == engine[p] IN
         (e # None /\ engine'[p] # None /\ e.order # None /\ e.boot = engine'[p].boot)
            => engine'[p].order = e.order \/ Older(e.order, engine'[p].order)]_vars

\* A thread holds what its place in the loop needs.
ThreadsStand ==
    \A p \in Peers : \A t \in threads[p] :
        /\ t.at = "observe" => t.content \in Contents
        /\ t.at \in {"send", "await"} => t.op \in Operations

\* An engine's clock covers its winner; what a handler is writing, with the
\* engine lock, is newer than the winner it will replace.
ClockCovers ==
    \A p \in Peers :
        /\ engine[p] # None /\ engine[p].order # None
             => engine[p].order.lamport <= engine[p].lamport
        /\ writing[p] # None
             => /\ engine[p] # None
                /\ Applies(engine[p], writing[p])
                /\ writing[p].order.lamport <= engine[p].lamport

\* Once every change has been noticed and nothing was lost, the system
\* clipboard holds the content of the operation the engine names as winner.
WinnerIsOnClipboard ==
    Quiet /\ ~missed => \A p \in Peers : engine[p].digest = system[p].content

\* Two users copying at once, streams out of order and late answers: if nothing
\* was lost, both machines end with the same clipboard.
Converged ==
    Quiet /\ ~missed => \A p, q \in Peers : system[p].content = system[q].content

\* At rest the two machines agree with their engines and with each other.
Settled == WinnerIsOnClipboard /\ Converged

\* Documented (handoff/02, line 349): the local version is checked again before
\* a remote write, which so never overwrites a local copy not yet looked at.
LocalCopySurvives ==
    [][\A p \in Peers :
        (writing[p] = None /\ writing'[p] # None /\ target[p]
            /\ system[p].content # None /\ system[p].content.by = p)
        => \E t \in threads[p] : t.last = system[p].revision]_vars
=============================================================================
