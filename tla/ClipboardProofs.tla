-------------------------- MODULE ClipboardProofs --------------------------
(***************************************************************************)
(* Clipboard operations, for any two machines, boots, sizes and bounds: an *)
(* engine never replaces its winner by an older operation, and as long as  *)
(* nothing was given up both machines end with the same clipboard.         *)
(***************************************************************************)
EXTENDS ClipboardSync, FiniteSetTheorems, TLAPS

IInv == TypeOK /\ ThreadsStand /\ ClockCovers

\* A thread with what its place in the loop needs.
Stands(t) ==
    /\ t \in Threads
    /\ t.at = "observe" => t.content \in Contents
    /\ t.at \in {"send", "await"} => t.op \in Operations

\* What each step of the watcher makes of its thread.
LEMMA ThreadUpdate ==
    ASSUME NEW t \in Threads, Stands(t)
    PROVE /\ Stands(Idle(t))
          /\ Stands([t EXCEPT !.stopped = TRUE])
          /\ \A r \in 0..MaxRevision :
                /\ Stands([t EXCEPT !.at = "idle", !.last = r])
                /\ Stands([t EXCEPT !.at = "read", !.last = r])
                /\ Stands([t EXCEPT !.last = r])
          /\ Stands([t EXCEPT !.at = "read", !.resent = TRUE])
          /\ \A c \in Contents : Stands([t EXCEPT !.at = "observe", !.content = c])
          /\ t.at = "send" => Stands([t EXCEPT !.at = "await"])
          /\ \A o \in Operations :
                Stands([t EXCEPT !.at = "send", !.content = None, !.op = o])
    BY DEF Threads, Idle, Stands

\* What a thread becomes, the other threads staying as they are.
LEMMA Becoming ==
    ASSUME TypeOK, ThreadsStand, NEW p \in Peers, NEW t \in threads[p],
           NEW u, Stands(u), Becomes(p, t, u)
    PROVE threads' \in [Peers -> SUBSET Threads] /\ ThreadsStand'
    BY DEF TypeOK, ThreadsStand, Becomes, Stands

\* A thread that leaves its loop disturbs no other.
LEMMA Leaving ==
    ASSUME TypeOK, ThreadsStand, NEW p \in Peers, NEW t \in threads[p],
           threads' = [threads EXCEPT ![p] = @ \ {t}]
    PROVE threads' \in [Peers -> SUBSET Threads] /\ ThreadsStand'
    BY DEF TypeOK, ThreadsStand

\* Both machines start in the invariant.
LEMMA InitIInv == ASSUME Init PROVE IInv
<1> USE ClipboardAssumption
<1>1. PICK boot \in [Peers -> BootIds] :
        /\ engine = [p \in Peers |-> NewEngine(boot[p], 0)]
        /\ threads = [p \in Peers |-> {NewThread(boot[p], "idle")}]
        /\ boots = [p \in Peers |-> {boot[p]}]
      BY DEF Init
<1>2. \A b \in BootIds : NewEngine(b, 0) \in Engines /\ NewThread(b, "idle") \in Threads
      BY DEF NewEngine, NewThread, Engines, Threads
<1>3. TypeOK
  <2>1. engine \in [Peers -> Engines \cup {None}] BY <1>1, <1>2
  <2>2. threads \in [Peers -> SUBSET Threads] BY <1>1, <1>2
  <2>3. boots \in [Peers -> SUBSET BootIds] BY <1>1
  <2>4. system \in [Peers -> [revision : 0..MaxRevision, content : Contents \cup {None}]]
        BY DEF Init
  <2>5. /\ writing \in [Peers -> Operations \cup {None}]
        /\ resend \in [Peers -> BOOLEAN] /\ target \in [Peers -> BOOLEAN]
        /\ wire \in [Peers -> SUBSET Operations]
        /\ user \in 0..MaxUser /\ missed \in BOOLEAN
    <3>1. /\ writing = [p \in Peers |-> None]
          /\ resend = [p \in Peers |-> FALSE] /\ target = [p \in Peers |-> FALSE]
          /\ wire = [p \in Peers |-> {}] /\ user = 0 /\ missed = FALSE
          BY DEF Init
    <3>2. user \in 0..MaxUser BY <3>1
    <3> QED BY <3>1, <3>2
  <2> QED BY <2>1, <2>2, <2>3, <2>4, <2>5 DEF TypeOK
<1>4. ThreadsStand BY <1>1 DEF ThreadsStand, NewThread
<1>5. ClockCovers BY <1>1 DEF Init, ClockCovers, NewEngine
<1> QED BY <1>3, <1>4, <1>5 DEF IInv

\* Steps of the watcher that change only its thread and what it is told.
LEMMA WatcherMoves ==
    ASSUME IInv, NEW p \in Peers, NEW t \in threads[p],
           \/ Listen(p, t) \/ Leave(p, t) \/ Discard(p, t) \/ Notice(p, t)
           \/ Read(p, t) \/ ReadFails(p, t) \/ Send(p, t) \/ SendFails(p, t)
           \/ Answered(p, t)
    PROVE IInv' /\ UNCHANGED engine
<1> USE ClipboardAssumption DEF IInv
<1>1. t \in Threads /\ Stands(t) /\ system[p].revision \in 0..MaxRevision
      BY DEF TypeOK, ThreadsStand, Stands
<1>2. threads' \in [Peers -> SUBSET Threads] /\ ThreadsStand'
  <2>1. CASE Listen(p, t)
        BY <2>1, <1>1, Becoming, ThreadUpdate DEF Listen
  <2>2. CASE Leave(p, t) BY <2>2, Leaving DEF Leave
  <2>3. CASE Discard(p, t)
    <3>1. PICK r \in Reported(p, t) : Becomes(p, t, [t EXCEPT !.last = r])
          BY <2>3 DEF Discard
    <3>2. r \in 0..MaxRevision BY <1>1 DEF Reported, Threads
    <3> QED BY <3>1, <3>2, <1>1, Becoming, ThreadUpdate
  <2>4. CASE Notice(p, t) /\ resend[p]
        BY <2>4, <1>1, Becoming, ThreadUpdate DEF Notice
  <2>5. CASE Notice(p, t) /\ ~resend[p]
    <3>1. PICK r \in Reported(p, t) : Becomes(p, t, [t EXCEPT !.at = "read", !.last = r])
          BY <2>5 DEF Notice
    <3>2. r \in 0..MaxRevision BY <1>1 DEF Reported, Threads
    <3> QED BY <3>1, <3>2, <1>1, Becoming, ThreadUpdate
  <2>6. CASE Read(p, t)
    <3>1. system[p].content \in Contents BY <2>6 DEF Read, TypeOK
    <3> QED BY <2>6, <3>1, <1>1, Becoming, ThreadUpdate DEF Read
  <2>7. CASE ReadFails(p, t) \/ SendFails(p, t) \/ Answered(p, t)
        BY <2>7, <1>1, Becoming, ThreadUpdate DEF ReadFails, SendFails, Answered
  <2>8. CASE Send(p, t)
        BY <2>8, <1>1, Becoming, ThreadUpdate DEF Send
  <2> QED BY <2>1, <2>2, <2>3, <2>4, <2>5, <2>6, <2>7, <2>8
<1>3. wire' \in [Peers -> SUBSET Operations]
  <2>1. CASE Send(p, t)
        BY <2>1, <1>1 DEF Send, TypeOK, Stands
  <2>2. CASE ~Send(p, t)
        BY <2>2 DEF TypeOK, Listen, Leave, Discard, Notice, Read, ReadFails,
                    SendFails, Answered
  <2> QED BY <2>1, <2>2
<1>4. /\ resend' \in [Peers -> BOOLEAN] /\ missed' \in BOOLEAN
      /\ UNCHANGED <<system, engine, writing, target, boots, user>>
      BY DEF TypeOK, Listen, Leave, Discard, Notice, Read, ReadFails, Send,
             SendFails, Answered, Missed
<1>5. TypeOK' BY <1>2, <1>3, <1>4 DEF TypeOK
<1>6. ClockCovers' BY <1>4 DEF ClockCovers, Applies
<1> QED BY <1>2, <1>4, <1>5, <1>6

\* Recording a revision leaves the engine's winner and clock alone.
LEMMA Recording ==
    ASSUME NEW e \in Engines, NEW r \in 0..MaxRevision
    PROVE /\ Recorded(e, r) \in Engines
          /\ Recorded(e, r).order = e.order /\ Recorded(e, r).lamport = e.lamport
    BY DEF Recorded, Engines

\* What new_local_operation makes of the engine.
AfterCopy(e, order, c) ==
    [e EXCEPT !.sequence = order.sequence, !.lamport = order.lamport,
              !.order = order, !.digest = c]

\* A new operation of an engine whose clock covers its winner is newer than it.
LEMMA LocalOperation ==
    ASSUME NEW p \in Peers, NEW e \in Engines, NEW c \in Contents,
           e.order # None => e.order.lamport <= e.lamport
    PROVE LET order == LocalOrder(p, e) IN
          /\ order \in Orders /\ [order |-> order, content |-> c] \in Operations
          /\ AfterCopy(e, order, c) \in Engines
          /\ AfterCopy(e, order, c).order = order
          /\ AfterCopy(e, order, c).lamport = order.lamport
          /\ e.order # None => Older(e.order, order)
<1> DEFINE order == LocalOrder(p, e)
<1>1. order \in Orders /\ order.lamport = e.lamport + 1
      BY DEF LocalOrder, Engines, Orders
<1>2. [order |-> order, content |-> c] \in Operations BY <1>1 DEF Operations
<1>3. e.order # None => Older(e.order, order)
      BY <1>1 DEF Older, Engines, Orders
<1> HIDE DEF order
<1>4. /\ AfterCopy(e, order, c) \in Engines
      /\ AfterCopy(e, order, c).order = order
      /\ AfterCopy(e, order, c).lamport = order.lamport
      BY <1>1 DEF Engines, Orders, AfterCopy
<1> QED BY <1>1, <1>2, <1>3, <1>4 DEF order

\* The winner of one engine only moves forward.
Forward(p) ==
    LET e == engine[p] IN
    (e # None /\ engine'[p] # None /\ e.order # None /\ e.boot = engine'[p].boot)
        => engine'[p].order = e.order \/ Older(e.order, engine'[p].order)

\* The watcher under the engine lock: an echo, no change, or a new operation.
LEMMA WatcherObserves ==
    ASSUME IInv, NEW p \in Peers, NEW t \in threads[p],
           ObserveNothing(p, t) \/ ObserveCopy(p, t)
    PROVE IInv' /\ \A q \in Peers : Forward(q)
<1> USE ClipboardAssumption DEF IInv
<1>1. /\ t \in Threads /\ Stands(t) /\ t.at = "observe" /\ writing[p] = None
      /\ t.last \in 0..MaxRevision /\ t.content \in Contents
      BY DEF TypeOK, ThreadsStand, Stands, Threads, ObserveNothing, ObserveCopy
<1>2. /\ engine[p] # None => engine[p] \in Engines
      /\ engine[p] # None /\ engine[p].order # None
            => engine[p].order.lamport <= engine[p].lamport
      BY DEF TypeOK, ClockCovers
<1>3. /\ UNCHANGED <<system, writing, resend, target, wire, boots, user>>
      /\ missed' \in BOOLEAN
      BY DEF ObserveNothing, ObserveCopy, TypeOK, Missed
<1>4. /\ threads' \in [Peers -> SUBSET Threads] /\ ThreadsStand'
      /\ \/ UNCHANGED engine
         \/ \E new \in Engines :
              /\ engine[p] # None /\ engine' = [engine EXCEPT ![p] = new]
              /\ new.order # None => new.order.lamport <= new.lamport
              /\ engine[p].order # None
                   => new.order = engine[p].order \/ Older(engine[p].order, new.order)
  <2> DEFINE e == Recorded(engine[p], t.last)
  <2>1. CASE ObserveNothing(p, t) /\ engine[p] = None
        BY <2>1, Leaving DEF ObserveNothing
  <2>2. CASE ObserveNothing(p, t) /\ engine[p] # None
    <3>1. threads' \in [Peers -> SUBSET Threads] /\ ThreadsStand'
          BY <2>2, <1>1, Becoming, ThreadUpdate DEF ObserveNothing
    <3>2. e \in Engines /\ e.order = engine[p].order /\ e.lamport = engine[p].lamport
          BY <2>2, <1>1, <1>2, Recording
    <3>3. UNCHANGED engine \/ engine' = [engine EXCEPT ![p] = e]
          BY <2>2 DEF ObserveNothing
    <3> QED BY <2>2, <3>1, <3>2, <3>3, <1>2
  <2>3. CASE ObserveCopy(p, t)
    <3> DEFINE order == LocalOrder(p, e)
               new == AfterCopy(e, order, t.content)
               op == [order |-> order, content |-> t.content]
               u == [t EXCEPT !.at = "send", !.content = None, !.op = op]
    <3>1. /\ engine[p] # None
          /\ \/ /\ engine' = [engine EXCEPT ![p] = e]
                /\ Becomes(p, t, Idle(t))
             \/ /\ engine' = [engine EXCEPT ![p] = new]
                /\ Becomes(p, t, u)
          BY <2>3 DEF ObserveCopy, AfterCopy, Offers, IsNew
    <3>0. e \in Engines /\ e.order = engine[p].order /\ e.lamport = engine[p].lamport
          BY <3>1, <1>1, <1>2, Recording
    <3>2. /\ order \in Orders /\ op \in Operations
          /\ new \in Engines /\ new.order = order /\ new.lamport = order.lamport
          /\ engine[p].order # None => Older(engine[p].order, order)
      <4> HIDE DEF e
      <4>1. e.order # None => e.order.lamport <= e.lamport BY <3>0, <3>1, <1>2
      <4> QED BY <4>1, <3>0, <1>1, LocalOperation
    <3>3. Stands(Idle(t)) /\ Stands(u)
          BY <1>1, <3>2, ThreadUpdate
    <3>4. threads' \in [Peers -> SUBSET Threads] /\ ThreadsStand'
          BY <3>1, <3>3, Becoming
    <3>5. order.lamport <= order.lamport BY <3>2 DEF Orders
    <3> HIDE DEF e, order, new, op, u
    <3> QED BY <3>0, <3>1, <3>2, <3>4, <3>5, <1>2
  <2> QED BY <2>1, <2>2, <2>3
<1>5. engine' \in [Peers -> Engines \cup {None}] BY <1>4 DEF TypeOK
<1>6. TypeOK' BY <1>3, <1>4, <1>5 DEF TypeOK
<1>7. ClockCovers'
      BY <1>1, <1>3, <1>4 DEF ClockCovers, Applies, TypeOK
<1>8. \A q \in Peers : Forward(q)
      BY <1>4 DEF Forward, TypeOK
<1> QED BY <1>4, <1>6, <1>7, <1>8

\* Hearing of an operation moves the clock past it and nothing else.
LEMMA Merging ==
    ASSUME NEW e \in Engines, NEW op \in Operations
    PROVE LET heard == [e EXCEPT !.lamport = Merged(@, op)] IN
          /\ heard \in Engines /\ heard.order = e.order /\ heard.boot = e.boot
          /\ e.lamport <= heard.lamport /\ op.order.lamport <= heard.lamport
    BY DEF Engines, Operations, Orders, Merged

\* The stream handler decides; a newer operation is written under the lock.
LEMMA HandlerDecides ==
    ASSUME IInv, NEW p \in Peers, NEW op \in wire[p], Handle(p, op)
    PROVE IInv' /\ \A q \in Peers : Forward(q)
<1> USE ClipboardAssumption DEF IInv
<1>1. op \in Operations /\ op.content \in Contents BY DEF TypeOK, Operations
<1>2. /\ wire' \in [Peers -> SUBSET Operations] /\ target' \in [Peers -> BOOLEAN]
      /\ UNCHANGED <<threads, resend, boots, user>> /\ missed' \in BOOLEAN
  <2>1. wire' = [wire EXCEPT ![p] = @ \ {op}]
        BY DEF Handle, LoseStream, Refuse, Ignore, Apply, Taken
  <2>2. target' = target \/ target' = [target EXCEPT ![p] = TRUE]
        BY DEF Handle, LoseStream, Refuse, Ignore, Apply, TargetKnown
  <2>3. /\ UNCHANGED <<threads, resend, boots, user>>
        /\ missed' = TRUE \/ UNCHANGED missed
        BY DEF Handle, LoseStream, Refuse, Ignore, Apply, Missed
  <2> QED BY <2>1, <2>2, <2>3 DEF TypeOK
<1>3. CASE LoseStream(p, op) \/ Refuse(p, op)
  <2>1. UNCHANGED <<system, engine, writing>>
        BY <1>3 DEF LoseStream, Refuse
  <2> QED BY <2>1, <1>2 DEF TypeOK, ThreadsStand, ClockCovers, Applies, Forward
<1>4. CASE Ignore(p, op) \/ Apply(p, op)
  <2> DEFINE e == engine[p]
             heard == [e EXCEPT !.lamport = Merged(@, op)]
  <2>1. e # None /\ e \in Engines /\ writing[p] = None /\ engine' = [engine EXCEPT ![p] = heard]
        BY <1>4 DEF TypeOK, Ignore, Apply
  <2>2. /\ heard \in Engines /\ heard.order = e.order /\ heard.boot = e.boot
        /\ e.lamport <= heard.lamport /\ op.order.lamport <= heard.lamport
        BY <2>1, <1>1, Merging
  <2>3. /\ system' \in [Peers -> [revision : 0..MaxRevision, content : Contents \cup {None}]]
        /\ \/ UNCHANGED writing
           \/ writing' = [writing EXCEPT ![p] = op] /\ Applies(e, op)
    <3>1. CASE UNCHANGED <<system, writing>> BY <3>1 DEF TypeOK
    <3>2. CASE Write(p, op.content) /\ Apply(p, op)
      <4>1. system[p].revision + 1 \in 0..MaxRevision BY <3>2 DEF Write, TypeOK
      <4>2. writing' = [writing EXCEPT ![p] = op] \/ UNCHANGED writing
            BY <3>2 DEF Apply
      <4> QED BY <3>2, <4>1, <4>2, <1>1 DEF Write, Apply, TypeOK
    <3> QED BY <1>4, <3>1, <3>2 DEF Ignore, Apply
  <2>4. e.order # None => e.order.lamport <= e.lamport BY <2>1 DEF ClockCovers
  <2>5. e.order # None => e.order.lamport <= heard.lamport
        BY <2>1, <2>2, <2>4 DEF Engines, Orders
  <2> HIDE DEF heard
  <2>6. TypeOK'
    <3>1. engine' \in [Peers -> Engines \cup {None}] BY <2>1, <2>2 DEF TypeOK
    <3>2. writing' \in [Peers -> Operations \cup {None}] BY <1>1, <2>3 DEF TypeOK
    <3> QED BY <1>2, <2>3, <3>1, <3>2 DEF TypeOK
  <2>7. ThreadsStand' BY <1>2 DEF ThreadsStand
  <2>8. ClockCovers'
    <3> SUFFICES ASSUME NEW q \in Peers
                 PROVE /\ engine'[q] # None /\ engine'[q].order # None
                            => engine'[q].order.lamport <= engine'[q].lamport
                       /\ writing'[q] # None
                            => /\ engine'[q] # None
                               /\ Applies(engine'[q], writing'[q])
                               /\ writing'[q].order.lamport <= engine'[q].lamport
          BY DEF ClockCovers, Applies
    <3>1. CASE q # p
          BY <3>1, <2>1, <2>3 DEF ClockCovers, TypeOK
    <3>2. CASE q = p
      <4>1. engine'[q] = heard /\ heard # None BY <3>2, <2>1, <2>2, NoneAssumption DEF TypeOK
      <4>2. writing'[q] = None \/ writing'[q] = op
            BY <3>2, <2>1, <2>3 DEF TypeOK
      <4>3. writing'[q] # None => Applies(e, op)
        <5>1. CASE UNCHANGED writing BY <5>1, <3>2, <2>1
        <5>2. CASE ~UNCHANGED writing BY <5>2, <2>3
        <5> QED BY <5>1, <5>2
      <4> QED BY <4>1, <4>2, <4>3, <2>2, <2>5 DEF Applies
    <3> QED BY <3>1, <3>2
  <2>9. \A q \in Peers : Forward(q) BY <2>1, <2>2 DEF Forward, TypeOK
  <2> QED BY <2>6, <2>7, <2>8, <2>9
<1> QED BY <1>3, <1>4 DEF Handle

\* The handler commits what it wrote; only then is it the winner.
LEMMA HandlerCommits ==
    ASSUME IInv, NEW p \in Peers, Commit(p)
    PROVE IInv' /\ \A q \in Peers : Forward(q)
<1> USE ClipboardAssumption DEF IInv
<1> DEFINE op == writing[p]
           echo == [revision |-> system[p].revision, content |-> op.content]
           new == [engine[p] EXCEPT !.order = op.order, !.digest = op.content, !.echo = echo]
<1>1. /\ engine[p] \in Engines /\ op \in Operations /\ Applies(engine[p], op)
      /\ op.order.lamport <= engine[p].lamport
      /\ system[p].revision \in 0..MaxRevision
      BY DEF Commit, ClockCovers, TypeOK
<1>2. /\ engine' = [engine EXCEPT ![p] = new]
      /\ writing' = [writing EXCEPT ![p] = None]
      /\ UNCHANGED <<system, threads, resend, target, wire, boots, user, missed>>
      BY <1>1 DEF Commit, TypeOK
<1>3. op.order \in Orders /\ op.content \in Contents BY <1>1 DEF Operations
<1>4. echo \in [revision : 0..MaxRevision, content : Contents] BY <1>1, <1>3
<1>5. new \in Engines /\ new.order = op.order /\ new.lamport = engine[p].lamport
  <2> HIDE DEF echo, op
  <2> QED BY <1>1, <1>3, <1>4 DEF Engines
<1> HIDE DEF new, echo
<1>6. TypeOK' BY <1>2, <1>5 DEF TypeOK
<1>7. ThreadsStand' BY <1>2 DEF ThreadsStand
<1>8. ClockCovers' BY <1>1, <1>2, <1>5 DEF ClockCovers, Applies, TypeOK
<1>9. \A q \in Peers : Forward(q) BY <1>1, <1>2, <1>5 DEF Forward, Applies, TypeOK
<1> QED BY <1>6, <1>7, <1>8, <1>9

\* The user, the session, and the start and stop of the engine.
LEMMA OutsideSteps ==
    ASSUME IInv, NEW p \in Peers,
           \/ UserCopies(p) \/ AskResend(p) \/ SetTarget(p)
           \/ StopClipboard(p) \/ StartClipboard(p)
    PROVE IInv' /\ \A q \in Peers : Forward(q)
<1> USE ClipboardAssumption DEF IInv
<1>1. CASE UserCopies(p)
  <2>1. PICK size \in Sizes : Write(p, [by |-> p, nth |-> user + 1, size |-> size])
        BY <1>1 DEF UserCopies
  <2>2. [by |-> p, nth |-> user + 1, size |-> size] \in Contents /\ user' \in 0..MaxUser
        BY <1>1 DEF UserCopies, Contents, TypeOK
  <2>3. system[p].revision + 1 \in 0..MaxRevision BY <2>1 DEF Write, TypeOK
  <2>4. system' \in [Peers -> [revision : 0..MaxRevision, content : Contents \cup {None}]]
        BY <2>1, <2>2, <2>3 DEF Write, TypeOK
  <2>5. UNCHANGED <<engine, writing, threads, resend, target, wire, boots, missed>>
        BY <1>1 DEF UserCopies
  <2> QED BY <2>2, <2>4, <2>5 DEF TypeOK, ThreadsStand, ClockCovers, Applies, Forward
<1>2. CASE AskResend(p) \/ SetTarget(p)
  <2>1. /\ user' \in 0..MaxUser
        /\ resend' \in [Peers -> BOOLEAN] /\ target' \in [Peers -> BOOLEAN]
        /\ UNCHANGED <<system, engine, writing, threads, wire, boots, missed>>
    <3>1. CASE AskResend(p) BY <3>1 DEF AskResend, TypeOK
    <3>2. CASE SetTarget(p) BY <3>2 DEF SetTarget, TypeOK
    <3> QED BY <1>2, <3>1, <3>2
  <2> QED BY <2>1 DEF TypeOK, ThreadsStand, ClockCovers, Applies, Forward
<1>3. CASE StopClipboard(p)
  <2>1. /\ engine' = [engine EXCEPT ![p] = None] /\ writing[p] = None
        /\ threads' = [threads EXCEPT ![p] = {[t EXCEPT !.stopped = TRUE] : t \in @}]
        /\ UNCHANGED <<system, writing, wire, boots, user>>
        /\ resend' \in [Peers -> BOOLEAN] /\ target' \in [Peers -> BOOLEAN]
        /\ missed' \in BOOLEAN
        BY <1>3 DEF StopClipboard, TypeOK, Missed
  <2>2. \A t \in threads[p] : Stands([t EXCEPT !.stopped = TRUE])
        BY ThreadUpdate DEF TypeOK, ThreadsStand, Stands
  <2>3. threads' \in [Peers -> SUBSET Threads] /\ ThreadsStand'
    <3>1. \A q \in Peers : \A u \in threads'[q] : Stands(u)
      <4>1. \A u \in threads'[p] : Stands(u) BY <2>1, <2>2 DEF TypeOK
      <4>2. \A q \in Peers : q # p => threads'[q] = threads[q] BY <2>1 DEF TypeOK
      <4> QED BY <4>1, <4>2 DEF TypeOK, ThreadsStand, Stands
    <3>2. DOMAIN threads' = Peers /\ threads' = [q \in Peers |-> threads'[q]]
          BY <2>1 DEF TypeOK
    <3> QED BY <3>1, <3>2 DEF ThreadsStand, Stands
  <2>4. TypeOK' BY <2>1, <2>3 DEF TypeOK
  <2>5. ClockCovers' BY <2>1 DEF ClockCovers, Applies, TypeOK
  <2>6. \A q \in Peers : Forward(q) BY <2>1 DEF Forward, TypeOK
  <2> QED BY <2>3, <2>4, <2>5, <2>6
<1>4. CASE StartClipboard(p)
  <2>1. PICK boot \in Boots[p] :
          /\ engine' = [engine EXCEPT ![p] = NewEngine(boot, system[p].revision)]
          /\ threads' = [threads EXCEPT ![p] = @ \cup {NewThread(boot, "start")}]
          /\ boots' = [boots EXCEPT ![p] = @ \cup {boot}]
        BY <1>4 DEF StartClipboard
  <2>2. /\ engine[p] = None /\ writing[p] = None /\ boot \in BootIds
        /\ UNCHANGED <<system, writing, resend, target, wire, user, missed>>
        BY <1>4 DEF StartClipboard, ClockCovers, BootIds
  <2>3. NewEngine(boot, system[p].revision) \in Engines
        BY <2>2 DEF NewEngine, Engines, TypeOK
  <2>4. Stands(NewThread(boot, "start"))
        BY <2>2 DEF NewThread, Threads, Stands
  <2>5. threads' \in [Peers -> SUBSET Threads] /\ ThreadsStand'
        BY <2>1, <2>4 DEF TypeOK, ThreadsStand, Stands
  <2>6. TypeOK' BY <2>1, <2>2, <2>3, <2>5 DEF TypeOK
  <2>7. NewEngine(boot, system[p].revision).order = None BY DEF NewEngine
  <2>8. ClockCovers' BY <2>1, <2>2, <2>7 DEF ClockCovers, Applies, TypeOK
  <2>9. \A q \in Peers : Forward(q) BY <2>1, <2>2 DEF Forward, TypeOK
  <2> QED BY <2>5, <2>6, <2>8, <2>9
<1> QED BY <1>1, <1>2, <1>3, <1>4

\* Every step keeps the invariant and moves every winner forward only.
LEMMA StepIInv ==
    ASSUME IInv, [Next]_vars
    PROVE IInv' /\ \A q \in Peers : Forward(q)
<1>1. CASE UNCHANGED vars
      BY <1>1 DEF vars, IInv, TypeOK, ThreadsStand, ClockCovers, Applies, Forward
<1>2. ASSUME NEW p \in Peers, NEW t \in threads[p], Watch(p, t)
      PROVE IInv' /\ \A q \in Peers : Forward(q)
      BY <1>2, WatcherMoves, WatcherObserves DEF Watch, Forward
<1>3. CASE Next
      BY <1>2, <1>3, HandlerDecides, HandlerCommits, OutsideSteps DEF Next
<1> QED BY <1>1, <1>3

\* The invariant holds of every behaviour.
THEOREM Invariance == Spec => []IInv
<1>1. Init => IInv BY InitIInv
<1>2. IInv /\ [Next]_vars => IInv' BY StepIInv
<1> QED BY <1>1, <1>2, PTL DEF Spec

\* Types, and what a watcher thread holds at each place of its loop.
THEOREM TypeCorrect == Spec => []TypeOK
<1>1. IInv => TypeOK BY DEF IInv
<1> QED BY <1>1, Invariance, PTL

\* Lamport order and the lock: whatever streams, copies, resends, restarts and
\* failures come in whatever order, no engine goes back to an older operation.
THEOREM WinnersMoveForward == Spec => WinnerNeverOlder
<1>1. IInv /\ [Next]_vars => [\A q \in Peers : Forward(q)]_vars BY StepIInv
<1>2. (\A q \in Peers : Forward(q)) <=>
      (\A p \in Peers :
         LET e == engine[p] IN
         (e # None /\ engine'[p] # None /\ e.order # None /\ e.boot = engine'[p].boot)
            => engine'[p].order = e.order \/ Older(e.order, engine'[p].order))
      BY DEF Forward
<1> QED BY <1>1, <1>2, Invariance, PTL DEF Spec, WinnerNeverOlder
-----------------------------------------------------------------------------
(* Both machines end with the same clipboard.                               *)

\* Engine p has the operation of this order for its winner, or a newer one.
HasOrNewer(p, order) ==
    /\ engine[p].order # None
    /\ engine[p].order = order \/ Older(order, engine[p].order)

\* The operations of p that its peer has not handled: still with the watcher,
\* on a stream, or being written.
ToSend(T) == {t.op : t \in {u \in T : u.at = "send"}}
OnItsWay(p) == ToSend(threads[p]) \cup wire[Other(p)] \cup ({writing[Other(p)]} \ {None})

Winner(p) == [order |-> engine[p].order, content |-> engine[p].digest]

\* One watcher and an engine.
Alone(p, t) == threads[p] = {t} /\ ~t.stopped /\ t.at # "start"
OneWatcher(p) == engine[p] # None /\ \E t : Alone(p, t)

\* p made what is on its way from p, and has it for its winner or a newer one.
SentPart(p) ==
    \A op \in OnItsWay(p) :
        /\ op.order.peer = p /\ HasOrNewer(p, op.order)
        /\ op.order = engine[p].order => op.content = engine[p].digest

\* The winner of p is known to its peer, or on its way to it.
ToldPart(p) ==
    engine[p].order # None => HasOrNewer(Other(p), engine[p].order) \/ Winner(p) \in OnItsWay(p)

\* Winners of the same order have the same content.
SamePart(p) == engine[p].order = engine[Other(p)].order => engine[p].digest = engine[Other(p)].digest

PairPart(p) == SentPart(p) /\ ToldPart(p) /\ SamePart(p)

Looking(t) == t.at \in {"read", "observe"}

\* The clipboard holds the winner's content, or the watcher has still to look
\* at it: it is behind, or has noticed a change and not yet asked the engine.
LooksOrAgrees(t, e, s, w) ==
    /\ e.last <= t.last /\ t.last <= s.revision
    /\ Looking(t) /\ ~t.resent => e.last < t.last
    /\ t.at = "observe" /\ t.last = s.revision => t.content = s.content
    /\ e.echo # None => e.echo.content = e.digest
    /\ t.last = s.revision /\ ~Looking(t) => w = None /\ e.digest = s.content
    /\ s.content = None => w = None /\ e.digest = None /\ t.at # "observe"

LookPart(p) == \A t \in threads[p] : LooksOrAgrees(t, engine[p], system[p], writing[p])

\* One machine, and what it and its peer know of each other.
SyncPart(p) == OneWatcher(p) /\ LookPart(p) /\ PairPart(p)

\* As long as nothing was given up.
SyncInv == ~missed => \A p \in Peers : SyncPart(p)

-----------------------------------------------------------------------------
\* There are two machines.
LEMMA OtherPeer ==
    /\ \A p \in Peers : Other(p) \in Peers /\ Other(p) # p /\ Other(Other(p)) = p
    /\ \A p, q \in Peers : q # p => q = Other(p)
<1>1. ASSUME NEW p \in Peers PROVE \E r : Peers \ {p} = {r}
  <2>1. IsFiniteSet(Peers \ {p}) /\ Cardinality(Peers \ {p}) = 1
    <3>1. IsFiniteSet(Peers) /\ Cardinality(Peers) = 2 BY ClipboardAssumption
    <3>2. IsFiniteSet(Peers \ {p}) /\ Cardinality(Peers \ {p}) = Cardinality(Peers) - 1
          BY <3>1, FS_RemoveElement
    <3> QED BY <3>1, <3>2
  <2> QED BY <2>1, FS_Singleton
<1>2. \A p \in Peers : Other(p) \in Peers /\ Other(p) # p
      BY <1>1 DEF Other
<1>3. \A p, q \in Peers : q # p => q = Other(p)
      BY <1>1, <1>2
<1> QED BY <1>2, <1>3

\* The operations are in one order.
LEMMA OneOrder ==
    /\ \A x \in Orders : ~Older(x, x)
    /\ \A x, y, z \in Orders : Older(x, y) /\ Older(y, z) => Older(x, z)
    /\ \A x, y \in Orders : x = y \/ Older(x, y) \/ Older(y, x)
<1>1. \A x \in Orders : /\ x.lamport \in Nat /\ x.peer \in Peers /\ x.boot \in Nat /\ x.sequence \in Nat
                        /\ Rank[x.peer] \in Nat
  <2>1. BootIds \subseteq Nat BY ClipboardAssumption DEF BootIds
  <2> QED BY <2>1, ClipboardAssumption DEF Orders
<1>2. \A x, y \in Orders : x.peer # y.peer => Rank[x.peer] # Rank[y.peer]
      BY <1>1, ClipboardAssumption
<1>3. \A x, y \in Orders : /\ x.lamport = y.lamport /\ x.peer = y.peer
                           /\ x.boot = y.boot /\ x.sequence = y.sequence
                           => x = y
      BY DEF Orders
<1>4. \A x \in Orders : ~Older(x, x) BY <1>1 DEF Older
<1>5. \A x, y \in Orders : x = y \/ Older(x, y) \/ Older(y, x)
      BY <1>1, <1>2, <1>3 DEF Older
<1>6. ASSUME NEW x \in Orders, NEW y \in Orders, NEW z \in Orders, Older(x, y), Older(y, z)
      PROVE Older(x, z)
      BY <1>1, <1>6 DEF Older
<1> QED BY <1>4, <1>5, <1>6

\* What one watcher has to send.
LEMMA ToSendOne ==
    /\ \A t : ToSend({t}) = IF t.at = "send" THEN {t.op} ELSE {}
    /\ \A p : OnItsWay(p) = ToSend(threads[p]) \cup wire[Other(p)] \cup ({writing[Other(p)]} \ {None})
    /\ \A p : OnItsWay(p)' = ToSend(threads'[p]) \cup wire'[Other(p)] \cup ({writing'[Other(p)]} \ {None})
BY DEF ToSend, OnItsWay, Other

\* What is on its way is an operation.
LEMMA WayType == ASSUME IInv, NEW p \in Peers PROVE OnItsWay(p) \subseteq Operations
BY OtherPeer DEF IInv, TypeOK, ThreadsStand, OnItsWay, ToSend

\* A step that changes no winner: what leaves the way, the peer knows.
LEMMA WayShrinks ==
    ASSUME IInv, \A p \in Peers : PairPart(p),
           \A p \in Peers : /\ engine'[p].order = engine[p].order /\ engine'[p].digest = engine[p].digest
                            /\ OnItsWay(p)' \subseteq OnItsWay(p)
                            /\ \A op \in OnItsWay(p) : op \in OnItsWay(p)' \/ HasOrNewer(Other(p), op.order)
    PROVE \A p \in Peers : PairPart(p)'
<1> TAKE p \in Peers
<1> DEFINE q == Other(p)
<1>1. q \in Peers BY OtherPeer
<1>2. /\ engine'[p].order = engine[p].order /\ engine'[p].digest = engine[p].digest
      /\ engine'[q].order = engine[q].order /\ engine'[q].digest = engine[q].digest
      BY <1>1
<1>3. SentPart(p)' BY <1>2 DEF PairPart, SentPart, HasOrNewer
<1>4. ToldPart(p)'
  <2> SUFFICES ASSUME engine[p].order # None
               PROVE HasOrNewer(q, engine[p].order)' \/ Winner(p)' \in OnItsWay(p)'
      BY <1>2 DEF ToldPart, Other
  <2>1. Winner(p)' = Winner(p) /\ Winner(p).order = engine[p].order BY <1>2 DEF Winner
  <2>2. HasOrNewer(q, engine[p].order) \/ Winner(p) \in OnItsWay(p)
        BY DEF PairPart, ToldPart
  <2>3. HasOrNewer(q, engine[p].order) \/ Winner(p) \in OnItsWay(p)'
        BY <2>1, <2>2
  <2>4. HasOrNewer(q, engine[p].order) => HasOrNewer(q, engine[p].order)'
        BY <1>2 DEF HasOrNewer
  <2> QED BY <2>1, <2>3, <2>4
<1>5. SamePart(p)' BY <1>2 DEF PairPart, SamePart, Other
<1> QED BY <1>3, <1>4, <1>5 DEF PairPart

\* What p or its peer has by an operation, it has by a newer one.
LEMMA Overtaken ==
    ASSUME IInv, NEW p \in Peers, engine[p] # None, NEW new \in Orders,
           engine[p].order # None => Older(engine[p].order, new),
           NEW x \in Orders, HasOrNewer(p, x)
    PROVE Older(x, new) /\ x # new
<1>1. engine[p].order \in Orders /\ Older(engine[p].order, new)
      BY DEF HasOrNewer, IInv, TypeOK, Engines
<1>2. Older(x, new) BY <1>1, OneOrder DEF HasOrNewer
<1> QED BY <1>2, OneOrder

\* A commit: the winner of the peer, or an operation before it, becomes p's.
LEMMA CommitPair ==
    ASSUME IInv, NEW p \in Peers, \A x \in Peers : engine[x] # None /\ PairPart(x), Commit(p)
    PROVE \A x \in Peers : PairPart(x)'
<1> DEFINE q == Other(p)
           w == writing[p]
           o == w.order
<1>1. q \in Peers /\ q # p /\ Other(q) = p BY OtherPeer
<1>2. w \in Operations /\ w # None /\ o \in Orders /\ o # None
      BY NoneAssumption DEF Commit, IInv, TypeOK, Operations
<1>3. w \in OnItsWay(q) BY <1>1, <1>2 DEF OnItsWay
<1>4. engine[p].order # None => Older(engine[p].order, o)
      BY <1>2 DEF IInv, ClockCovers, Applies
<1>5. engine'[p].order = o /\ engine'[p].digest = w.content /\ engine'[q] = engine[q]
  <2>1. engine[p] \in Engines BY DEF IInv, TypeOK
  <2> QED BY <1>1, <2>1 DEF Commit, IInv, TypeOK, Engines
<1>6. OnItsWay(p)' = OnItsWay(p)
  <2>1. writing'[q] = writing[q] BY <1>1 DEF Commit, IInv, TypeOK
  <2> QED BY <2>1, ToSendOne DEF Commit
<1>7. OnItsWay(q)' \subseteq OnItsWay(q) /\ \A op \in OnItsWay(q) : op \in OnItsWay(q)' \/ op = w
  <2>1. writing'[p] = None BY DEF Commit, IInv, TypeOK
  <2> QED BY <1>1, <2>1, ToSendOne DEF Commit
<1>8. \A x \in Orders : HasOrNewer(p, x) => Older(x, o) /\ x # o
      BY <1>2, <1>4, Overtaken
<1>9. OnItsWay(p) \subseteq Operations /\ OnItsWay(q) \subseteq Operations BY <1>1, WayType
<1>10. engine[q].order # None => engine[q].order \in Orders BY <1>1 DEF IInv, TypeOK, Engines
<1> HIDE DEF w, o
<1>11. SentPart(p)'
  <2> SUFFICES ASSUME NEW op \in OnItsWay(p)
               PROVE /\ op.order.peer = p /\ HasOrNewer(p, op.order)'
                     /\ op.order = o => op.content = w.content
      BY <1>5, <1>6 DEF SentPart
  <2>1. op.order \in Orders BY <1>9 DEF Operations
  <2>2. op.order.peer = p /\ HasOrNewer(p, op.order) BY DEF PairPart, SentPart
  <2>3. Older(op.order, o) /\ op.order # o BY <1>8, <2>1, <2>2
  <2> QED BY <1>2, <1>5, <2>2, <2>3 DEF HasOrNewer
<1>12. SentPart(q)'
  <2>1. SentPart(q) BY <1>1 DEF PairPart
  <2> QED BY <1>5, <1>7, <2>1 DEF SentPart, HasOrNewer
<1>13. HasOrNewer(q, o) /\ (o = engine[q].order => w.content = engine[q].digest)
  <2>1. SentPart(q) BY <1>1 DEF PairPart
  <2> QED BY <1>3, <2>1 DEF SentPart, o
<1>14. ToldPart(p)'
  <2>1. engine'[q].order # None /\ (engine'[q].order = o \/ Older(o, engine'[q].order))
        BY <1>5, <1>13 DEF HasOrNewer
  <2> QED BY <1>5, <2>1 DEF ToldPart, HasOrNewer, Other
<1>15. ToldPart(q)'
  <2> SUFFICES ASSUME engine[q].order # None
               PROVE HasOrNewer(p, engine[q].order)' \/ Winner(q)' \in OnItsWay(q)'
      BY <1>1, <1>5 DEF ToldPart, Other
  <2>1. HasOrNewer(p, engine[q].order) \/ Winner(q) \in OnItsWay(q)
        BY <1>1 DEF PairPart, ToldPart
  <2>2. HasOrNewer(p, engine[q].order) => HasOrNewer(p, engine[q].order)'
        BY <1>2, <1>5, <1>8, <1>10 DEF HasOrNewer
  <2>3. Winner(q)' = Winner(q) BY <1>5 DEF Winner
  <2>4. CASE Winner(q) = w
    <3>1. engine[q].order = o BY <2>4 DEF Winner, o
    <3> QED BY <1>2, <1>5, <3>1 DEF HasOrNewer
  <2> QED BY <1>7, <2>1, <2>2, <2>3, <2>4
<1>16. SamePart(p)' /\ SamePart(q)'
      BY <1>1, <1>5, <1>13 DEF SamePart, Other
<1> QED BY <1>1, <1>11, <1>12, <1>14, <1>15, <1>16, OtherPeer DEF PairPart

\* A copy: the new operation, newer than all there are, is with the watcher.
LEMMA CopyPair ==
    ASSUME IInv, NEW p \in Peers, \A x \in Peers : engine[x] # None /\ PairPart(x),
           NEW o \in Orders, o.peer = p, engine[p].order # None => Older(engine[p].order, o),
           NEW c, engine'[p].order = o, engine'[p].digest = c, engine'[Other(p)] = engine[Other(p)],
           OnItsWay(p)' \subseteq OnItsWay(p) \cup {[order |-> o, content |-> c]},
           [order |-> o, content |-> c] \in OnItsWay(p)',
           OnItsWay(Other(p))' = OnItsWay(Other(p))
    PROVE \A x \in Peers : PairPart(x)'
<1> DEFINE q == Other(p)
           new == [order |-> o, content |-> c]
<1>1. q \in Peers /\ q # p /\ Other(q) = p BY OtherPeer
<1>2. \A x \in Orders : HasOrNewer(p, x) => Older(x, o) /\ x # o BY Overtaken
<1>3. OnItsWay(p) \subseteq Operations BY WayType
<1>4. engine[q].order # None => engine[q].order \in Orders BY <1>1 DEF IInv, TypeOK, Engines
<1>5. o # None BY NoneAssumption
<1>6. SentPart(p)'
  <2>0. /\ engine'[p].order = o /\ engine'[p].digest = c
        /\ OnItsWay(p)' \subseteq OnItsWay(p) \cup {new}
        OBVIOUS
  <2> HIDE DEF new
  <2> SUFFICES ASSUME NEW op \in OnItsWay(p) \cup {new}
               PROVE /\ op.order.peer = p /\ (op.order = o \/ Older(op.order, o))
                     /\ op.order = o => op.content = c
      BY <2>0, <1>5 DEF SentPart, HasOrNewer
  <2> USE DEF new
  <2>1. CASE op = new BY <2>1
  <2>2. CASE op \in OnItsWay(p)
    <3>1. op.order \in Orders BY <1>3, <2>2 DEF Operations
    <3>2. op.order.peer = p /\ HasOrNewer(p, op.order) BY <2>2 DEF PairPart, SentPart
    <3> QED BY <1>2, <3>1, <3>2
  <2> QED BY <2>1, <2>2
<1>7. SentPart(q)'
  <2>1. SentPart(q) BY <1>1 DEF PairPart
  <2> QED BY <2>1 DEF SentPart, HasOrNewer
<1>8. ToldPart(p)' BY DEF ToldPart, Winner
<1>9. ToldPart(q)'
  <2> SUFFICES ASSUME engine[q].order # None
               PROVE HasOrNewer(p, engine[q].order)' \/ Winner(q)' \in OnItsWay(q)'
      BY <1>1 DEF ToldPart, Other
  <2>1. HasOrNewer(p, engine[q].order) \/ Winner(q) \in OnItsWay(q)
        BY <1>1 DEF PairPart, ToldPart
  <2>2. HasOrNewer(p, engine[q].order) => HasOrNewer(p, engine[q].order)'
        BY <1>2, <1>4, <1>5 DEF HasOrNewer
  <2>3. Winner(q)' = Winner(q) BY DEF Winner
  <2> QED BY <2>1, <2>2, <2>3
<1>10. o # engine[q].order
  <2> SUFFICES ASSUME engine[q].order # None PROVE o # engine[q].order
      BY <1>5
  <2>1. CASE HasOrNewer(p, engine[q].order) BY <1>2, <1>4, <2>1
  <2>2. CASE Winner(q) \in OnItsWay(q)
    <3>1. SentPart(q) BY <1>1 DEF PairPart
    <3>2. Winner(q).order = engine[q].order BY DEF Winner
    <3>3. engine[q].order.peer = q BY <2>2, <3>1, <3>2 DEF SentPart
    <3> QED BY <1>1, <3>3
  <2> QED BY <1>1, <2>1, <2>2 DEF PairPart, ToldPart
<1>11. SamePart(p)' /\ SamePart(q)' BY <1>1, <1>10 DEF SamePart, Other
<1> QED BY <1>1, <1>6, <1>7, <1>8, <1>9, <1>11, OtherPeer DEF PairPart

-----------------------------------------------------------------------------
\* What a step of p leaves the same for the other machine, and what it must show.
LEMMA StepOfOne ==
    ASSUME IInv, \A x \in Peers : SyncPart(x), NEW p \in Peers,
           NEW u, threads'[p] = {u}, ~u.stopped, u.at # "start", engine'[p] # None,
           LooksOrAgrees(u, engine'[p], system'[p], writing'[p]),
           \A x \in Peers \ {p} : /\ threads'[x] = threads[x] /\ engine'[x] = engine[x]
                                  /\ system'[x] = system[x] /\ writing'[x] = writing[x],
           \A x \in Peers : PairPart(x)'
    PROVE SyncInv'
<1>1. SyncPart(p)'
  <2>1. OneWatcher(p)' BY DEF OneWatcher, Alone
  <2>2. LookPart(p)' BY DEF LookPart
  <2> QED BY <2>1, <2>2 DEF SyncPart
<1>2. ASSUME NEW x \in Peers \ {p} PROVE SyncPart(x)'
  <2>1. OneWatcher(x)' BY DEF SyncPart, OneWatcher, Alone
  <2>2. LookPart(x)' BY DEF SyncPart, LookPart
  <2> QED BY <2>1, <2>2 DEF SyncPart
<1> QED BY <1>1, <1>2 DEF SyncInv

\* The one watcher, its fields and those of engine and clipboard.
LEMMA TheWatcher ==
    ASSUME IInv, NEW p \in Peers, SyncPart(p), NEW t \in threads[p]
    PROVE /\ threads[p] = {t} /\ ~t.stopped /\ t.at # "start"
          /\ LooksOrAgrees(t, engine[p], system[p], writing[p])
          /\ t \in Threads /\ t.last \in Nat
          /\ engine[p] \in Engines /\ engine[p] # None /\ engine[p].last \in Nat
          /\ system[p].revision \in Nat /\ system[p] = [revision |-> system[p].revision, content |-> system[p].content]
<1>1. threads[p] = {t} /\ ~t.stopped /\ t.at # "start" /\ engine[p] # None
      BY DEF SyncPart, OneWatcher, Alone
<1>2. t \in Threads /\ t.last \in Nat BY DEF IInv, TypeOK, Threads
<1>3. engine[p] \in Engines BY <1>1 DEF IInv, TypeOK
<1>4. engine[p].last \in Nat BY <1>3 DEF Engines
<1>5. system[p].revision \in Nat /\ system[p] = [revision |-> system[p].revision, content |-> system[p].content]
      BY DEF IInv, TypeOK
<1>6. LooksOrAgrees(t, engine[p], system[p], writing[p]) BY DEF SyncPart, LookPart
<1> QED BY <1>1, <1>2, <1>3, <1>4, <1>5, <1>6

\* The watcher alone becomes what its step makes of it.
LEMMA StillAlone ==
    ASSUME IInv, NEW p \in Peers, NEW t, threads[p] = {t}, NEW u, Becomes(p, t, u)
    PROVE threads'[p] = {u} /\ \A x \in Peers \ {p} : threads'[x] = threads[x]
BY DEF IInv, TypeOK, Becomes

\* The fields of a watcher after each of its steps.
LEMMA ThreadFields ==
    ASSUME NEW t \in Threads
    PROVE /\ Idle(t).at = "idle" /\ Idle(t).last = t.last /\ Idle(t).stopped = t.stopped
          /\ \A r \in Nat : LET u == [t EXCEPT !.at = "read", !.last = r] IN
                u.at = "read" /\ u.last = r /\ u.stopped = t.stopped /\ u.resent = t.resent
          /\ LET u == [t EXCEPT !.at = "read", !.resent = TRUE] IN
                u.at = "read" /\ u.last = t.last /\ u.stopped = t.stopped /\ u.resent
          /\ \A c : LET u == [t EXCEPT !.at = "observe", !.content = c] IN
                u.at = "observe" /\ u.last = t.last /\ u.stopped = t.stopped /\ u.resent = t.resent /\ u.content = c
          /\ LET u == [t EXCEPT !.at = "await"] IN
                u.at = "await" /\ u.last = t.last /\ u.stopped = t.stopped
          /\ \A o : LET u == [t EXCEPT !.at = "send", !.content = None, !.op = o] IN
                u.at = "send" /\ u.last = t.last /\ u.stopped = t.stopped /\ u.op = o
BY DEF Threads, Idle

\* A watcher that notices, reads, sends or is answered.
LEMMA WatcherTurns ==
    ASSUME IInv, SyncInv, ~missed', NEW p \in Peers, NEW t \in threads[p],
           \/ Listen(p, t) \/ Leave(p, t) \/ Discard(p, t) \/ Notice(p, t)
           \/ Read(p, t) \/ ReadFails(p, t) \/ Send(p, t) \/ SendFails(p, t)
           \/ Answered(p, t)
    PROVE SyncInv'
<1>1. \A x \in Peers : SyncPart(x)
  <2>1. ~missed BY DEF Listen, Leave, Discard, Notice, Read, ReadFails, Send, SendFails, Answered, Missed, IInv, TypeOK
  <2> QED BY <2>1 DEF SyncInv
<1>2. /\ threads[p] = {t} /\ ~t.stopped /\ t.at # "start"
      /\ LooksOrAgrees(t, engine[p], system[p], writing[p])
      /\ t \in Threads /\ t.last \in Nat
      /\ engine[p] \in Engines /\ engine[p] # None /\ engine[p].last \in Nat
      /\ system[p].revision \in Nat
      BY <1>1, TheWatcher
<1>3. UNCHANGED <<engine, system, writing>>
      BY DEF Listen, Leave, Discard, Notice, Read, ReadFails, Send, SendFails, Answered
<1>4. ASSUME NEW u, Becomes(p, t, u), ~u.stopped, u.at # "start",
             LooksOrAgrees(u, engine[p], system[p], writing[p]),
             \A x \in Peers : OnItsWay(x)' = OnItsWay(x)
      PROVE SyncInv'
  <2>1. threads'[p] = {u} /\ \A x \in Peers \ {p} : threads'[x] = threads[x]
        BY <1>2, <1>4, StillAlone
  <2>2. \A x \in Peers : PairPart(x)
        BY <1>1 DEF SyncPart
  <2>3. \A x \in Peers : PairPart(x)'
        BY <1>3, <1>4, <2>2, WayShrinks
  <2> QED BY <1>1, <1>2, <1>3, <1>4, <2>1, <2>3, StepOfOne
<1>5. ASSUME NEW u, Becomes(p, t, u), u.at # "send", t.at # "send", UNCHANGED wire
      PROVE \A x \in Peers : OnItsWay(x)' = OnItsWay(x)
  <2>1. threads'[p] = {u} /\ \A x \in Peers \ {p} : threads'[x] = threads[x]
        BY <1>2, <1>5, StillAlone
  <2>2. \A x \in Peers : ToSend(threads'[x]) = ToSend(threads[x])
        BY <1>2, <1>5, <2>1, ToSendOne
  <2> QED BY <1>3, <1>5, <2>2, ToSendOne
<1>6. CASE Listen(p, t) \/ Leave(p, t) \/ Discard(p, t) \/ SendFails(p, t)
      BY <1>2, <1>6 DEF Listen, Leave, Discard, SendFails, Missed
<1>7. CASE Notice(p, t) /\ resend[p]
  <2> DEFINE u == [t EXCEPT !.at = "read", !.resent = TRUE]
  <2>1. Becomes(p, t, u) /\ t.at = "idle" /\ UNCHANGED wire BY <1>7 DEF Notice
  <2>2. u.at = "read" /\ u.last = t.last /\ u.stopped = t.stopped /\ u.resent
        BY <1>2, ThreadFields
  <2> HIDE DEF u
  <2>3. LooksOrAgrees(u, engine[p], system[p], writing[p])
        BY <1>2, <2>1, <2>2 DEF LooksOrAgrees, Looking
  <2> QED BY <1>2, <1>4, <1>5, <2>1, <2>2, <2>3
<1>8. CASE Notice(p, t) /\ ~resend[p]
  <2>1. PICK r \in Reported(p, t) : Becomes(p, t, [t EXCEPT !.at = "read", !.last = r])
        BY <1>8 DEF Notice
  <2>2. t.at = "idle" /\ UNCHANGED wire BY <1>8 DEF Notice
  <2>3. r \in Nat /\ t.last < r /\ r <= system[p].revision
        BY <1>2 DEF Reported
  <2> DEFINE u == [t EXCEPT !.at = "read", !.last = r]
  <2>4. u.at = "read" /\ u.last = r /\ u.stopped = t.stopped /\ u.resent = t.resent
        BY <1>2, <2>3, ThreadFields
  <2>5. Becomes(p, t, u) BY <2>1
  <2> HIDE DEF u
  <2>6. LooksOrAgrees(u, engine[p], system[p], writing[p])
        BY <1>2, <2>2, <2>3, <2>4 DEF LooksOrAgrees, Looking
  <2> QED BY <1>2, <1>4, <1>5, <2>2, <2>4, <2>5, <2>6
<1>9. CASE Read(p, t)
  <2> DEFINE u == [t EXCEPT !.at = "observe", !.content = system[p].content]
  <2>1. Becomes(p, t, u) /\ t.at = "read" /\ system[p].content # None /\ UNCHANGED wire
        BY <1>9 DEF Read
  <2>2. /\ u.at = "observe" /\ u.last = t.last /\ u.stopped = t.stopped /\ u.resent = t.resent
        /\ u.content = system[p].content
        BY <1>2, ThreadFields
  <2> HIDE DEF u
  <2>3. LooksOrAgrees(u, engine[p], system[p], writing[p])
        BY <1>2, <2>1, <2>2 DEF LooksOrAgrees, Looking
  <2> QED BY <1>2, <1>4, <1>5, <2>1, <2>2, <2>3
<1>10. CASE ReadFails(p, t) \/ Answered(p, t)
  <2> DEFINE u == Idle(t)
  <2>1. /\ Becomes(p, t, u) /\ UNCHANGED wire
        /\ t.at = "await" \/ (t.at = "read" /\ system[p].content = None)
    <3>1. CASE ReadFails(p, t)
      <4>1. Becomes(p, t, u) /\ t.at = "read" /\ UNCHANGED wire BY <3>1 DEF ReadFails
      <4>2. missed' = (missed \/ system[p].content # None) BY <3>1 DEF ReadFails
      <4> QED BY <4>1, <4>2
    <3>2. CASE Answered(p, t) BY <3>2 DEF Answered
    <3> QED BY <1>10, <3>1, <3>2
  <2>2. u.at = "idle" /\ u.last = t.last /\ u.stopped = t.stopped BY <1>2, ThreadFields
  <2> HIDE DEF u
  <2>3. LooksOrAgrees(u, engine[p], system[p], writing[p])
        BY <1>2, <2>1, <2>2 DEF LooksOrAgrees, Looking
  <2> QED BY <1>2, <1>4, <1>5, <2>1, <2>2, <2>3
<1>11. CASE Send(p, t)
  <2> DEFINE u == [t EXCEPT !.at = "await"]
  <2>1. Becomes(p, t, u) /\ t.at = "send" /\ wire' = [wire EXCEPT ![Other(p)] = @ \cup {t.op}]
        BY <1>11 DEF Send
  <2>2. u.at = "await" /\ u.last = t.last /\ u.stopped = t.stopped BY <1>2, ThreadFields
  <2> HIDE DEF u
  <2>3. LooksOrAgrees(u, engine[p], system[p], writing[p])
        BY <1>2, <2>1, <2>2 DEF LooksOrAgrees, Looking
  <2>4. \A x \in Peers : OnItsWay(x)' = OnItsWay(x)
    <3>1. threads'[p] = {u} /\ \A x \in Peers \ {p} : threads'[x] = threads[x]
          BY <1>2, <2>1, StillAlone
    <3>2. ToSend(threads[p]) = {t.op} /\ ToSend(threads'[p]) = {}
          BY <1>2, <2>1, <2>2, <3>1, ToSendOne
    <3>3. Other(p) \in Peers /\ Other(p) # p /\ \A x \in Peers : x # p => Other(x) = p
          BY OtherPeer
    <3>4. wire'[Other(p)] = wire[Other(p)] \cup {t.op} /\ wire'[p] = wire[p]
          BY <2>1, <3>3 DEF IInv, TypeOK
    <3>5. OnItsWay(p)' = OnItsWay(p) BY <1>3, <3>2, <3>4, ToSendOne
    <3>6. ASSUME NEW x \in Peers \ {p} PROVE OnItsWay(x)' = OnItsWay(x)
          BY <1>3, <3>1, <3>3, <3>4, ToSendOne
    <3> QED BY <3>5, <3>6
  <2> QED BY <1>2, <1>4, <2>1, <2>2, <2>3, <2>4
<1> QED BY <1>6, <1>7, <1>8, <1>9, <1>10, <1>11

\* The fields of an engine that recorded a revision, and of one with a new winner.
LEMMA EngineFields ==
    ASSUME NEW e \in Engines, NEW r \in 0..MaxRevision
    PROVE /\ LET d == Recorded(e, r) IN
             d \in Engines /\ d.last = r /\ d.echo = None /\ d.order = e.order /\ d.digest = e.digest
          /\ \A d \in Engines, o \in Orders, c \in Contents :
                LET n == AfterCopy(d, o, c) IN
                n.last = d.last /\ n.echo = d.echo /\ n.order = o /\ n.digest = c
BY DEF Recorded, AfterCopy, Engines

\* A watcher that asks the engine: an echo or its own copy.
LEMMA WatcherAsks ==
    ASSUME IInv, SyncInv, ~missed', NEW p \in Peers, NEW t \in threads[p],
           ObserveNothing(p, t) \/ ObserveCopy(p, t)
    PROVE SyncInv'
<1>1. \A x \in Peers : SyncPart(x)
  <2>1. ~missed BY DEF ObserveNothing, ObserveCopy, Missed
  <2> QED BY <2>1 DEF SyncInv
<1> DEFINE e == engine[p]
           d == Recorded(e, t.last)
<1>2. /\ threads[p] = {t} /\ ~t.stopped /\ t.at # "start"
      /\ LooksOrAgrees(t, e, system[p], writing[p])
      /\ t \in Threads /\ t.last \in Nat
      /\ e \in Engines /\ e # None /\ e.last \in Nat
      /\ system[p].revision \in Nat
      BY <1>1, TheWatcher
<1>3. /\ UNCHANGED <<system, writing, wire>> /\ t.at = "observe" /\ writing[p] = None
      /\ t.last \in 0..MaxRevision /\ t.content \in Contents
  <2>1. t.at = "observe" BY DEF ObserveNothing, ObserveCopy
  <2>2. t.content \in Contents BY <2>1 DEF IInv, ThreadsStand
  <2>3. t.last \in 0..MaxRevision BY <1>2 DEF Threads
  <2> QED BY <2>1, <2>2, <2>3 DEF ObserveNothing, ObserveCopy
<1>4. d \in Engines /\ d.last = t.last /\ d.echo = None /\ d.order = e.order /\ d.digest = e.digest
      BY <1>2, <1>3, EngineFields
<1>5. \A x \in Peers : engine[x] # None /\ PairPart(x)
      BY <1>1 DEF SyncPart, OneWatcher
<1>6. CASE ObserveNothing(p, t)
  <2> DEFINE u == Idle(t)
  <2>1. /\ Becomes(p, t, u) /\ ~t.resent
        /\ \/ IsEcho(e, t) /\ engine' = [engine EXCEPT ![p] = d]
           \/ t.last = e.last
        BY <1>2, <1>6 DEF ObserveNothing
  <2>2. IsEcho(e, t) /\ engine' = [engine EXCEPT ![p] = d]
        BY <1>2, <1>3, <2>1 DEF LooksOrAgrees, Looking
  <2>3. t.content = e.digest
        BY <1>2, <2>2 DEF IsEcho, LooksOrAgrees
  <2>4. u.at = "idle" /\ u.last = t.last /\ u.stopped = t.stopped BY <1>2, ThreadFields
  <2>5. engine'[p] = d /\ d # None /\ \A x \in Peers \ {p} : engine'[x] = engine[x]
        BY <1>4, <2>2, NoneAssumption DEF IInv, TypeOK
  <2>6. threads'[p] = {u} /\ \A x \in Peers \ {p} : threads'[x] = threads[x]
        BY <1>2, <2>1, StillAlone
  <2> HIDE DEF u, d
  <2>7. LooksOrAgrees(u, d, system[p], writing[p])
        BY <1>2, <1>3, <1>4, <2>3, <2>4 DEF LooksOrAgrees, Looking
  <2>8. \A x \in Peers : OnItsWay(x)' = OnItsWay(x)
    <3>1. \A x \in Peers : ToSend(threads'[x]) = ToSend(threads[x])
          BY <1>2, <1>3, <2>4, <2>6, ToSendOne
    <3> QED BY <1>3, <3>1, ToSendOne
  <2>9. \A x \in Peers : engine'[x].order = engine[x].order /\ engine'[x].digest = engine[x].digest
        BY <1>4, <2>5
  <2>10. \A x \in Peers : PairPart(x)' BY <1>5, <2>8, <2>9, WayShrinks
  <2> QED BY <1>1, <1>2, <1>3, <2>4, <2>5, <2>6, <2>7, <2>10, StepOfOne
<1>7. CASE ObserveCopy(p, t)
  <2> DEFINE o == LocalOrder(p, d)
             n == AfterCopy(d, o, t.content)
             op == [order |-> o, content |-> t.content]
             u == [t EXCEPT !.at = "send", !.content = None, !.op = op]
  <2>1. engine' = [engine EXCEPT ![p] = n] /\ Becomes(p, t, u)
        BY <1>7 DEF ObserveCopy, AfterCopy, Missed
  <2>2. o.peer = p BY DEF LocalOrder
  <2>3. /\ o \in Orders /\ n \in Engines
        /\ d.order # None => Older(d.order, o)
    <3>1. d.order # None => d.order.lamport <= d.lamport
      <4>1. d.lamport = e.lamport BY <1>2, <1>3, Recording
      <4> HIDE DEF d
      <4> QED BY <1>2, <1>4, <4>1 DEF IInv, ClockCovers
    <3> HIDE DEF d
    <3> QED BY <1>3, <1>4, <3>1, LocalOperation
  <2>4. n.last = t.last /\ n.echo = None /\ n.order = o /\ n.digest = t.content
    <3> HIDE DEF d, o
    <3> QED BY <1>3, <1>4, <2>3, EngineFields
  <2>5. u.at = "send" /\ u.last = t.last /\ u.stopped = t.stopped /\ u.op = op
    <3> HIDE DEF op
    <3> QED BY <1>2, ThreadFields
  <2> HIDE DEF u, n, o, d
  <2>6. engine'[p] = n /\ n # None /\ \A x \in Peers \ {p} : engine'[x] = engine[x]
        BY <2>1, <2>3, NoneAssumption DEF IInv, TypeOK
  <2>7. threads'[p] = {u} /\ \A x \in Peers \ {p} : threads'[x] = threads[x]
        BY <1>2, <2>1, StillAlone
  <2>8. LooksOrAgrees(u, n, system[p], writing[p])
        BY <1>2, <1>3, <2>4, <2>5 DEF LooksOrAgrees, Looking
  <2>9. Other(p) \in Peers \ {p} BY OtherPeer
  <2>10. /\ OnItsWay(p)' = OnItsWay(p) \cup {op}
         /\ OnItsWay(Other(p))' = OnItsWay(Other(p))
    <3>1. ToSend(threads[p]) = {} /\ ToSend(threads'[p]) = {op}
          BY <1>2, <1>3, <2>5, <2>7, ToSendOne
    <3> QED BY <1>3, <2>7, <2>9, <3>1, ToSendOne
  <2>11. e.order # None => Older(e.order, o) BY <1>4, <2>3
  <2>12. \A x \in Peers : PairPart(x)'
        BY <1>5, <2>2, <2>3, <2>4, <2>6, <2>9, <2>10, <2>11, CopyPair
  <2> QED BY <1>1, <1>2, <1>3, <2>5, <2>6, <2>7, <2>8, <2>12, StepOfOne
<1> QED BY <1>6, <1>7

\* A commit, before which the watcher cannot have asked the engine.
LEMMA CommitAgrees ==
    ASSUME IInv, SyncInv, ~missed', NEW p \in Peers, Commit(p)
    PROVE SyncInv'
<1>1. \A x \in Peers : SyncPart(x) BY DEF Commit, SyncInv
<1>2. PICK t \in threads[p] : TRUE
      BY <1>1 DEF SyncPart, OneWatcher, Alone
<1> DEFINE e == engine[p]
           w == writing[p]
           s == system[p]
           n == [e EXCEPT !.order = w.order, !.digest = w.content,
                          !.echo = [revision |-> s.revision, content |-> w.content]]
<1>3. /\ threads[p] = {t} /\ ~t.stopped /\ t.at # "start"
      /\ LooksOrAgrees(t, e, s, w)
      /\ t \in Threads /\ t.last \in Nat /\ e \in Engines /\ e # None /\ e.last \in Nat
      /\ s.revision \in Nat
      BY <1>1, TheWatcher
<1>4. /\ w # None /\ engine' = [engine EXCEPT ![p] = n] /\ writing' = [writing EXCEPT ![p] = None]
      /\ UNCHANGED <<system, threads>>
      BY DEF Commit
<1>5. w \in Operations /\ w.order \in Orders /\ w.content \in Contents
      BY <1>4 DEF IInv, TypeOK, Operations
<1>6. /\ n \in Engines /\ n.last = e.last /\ n.digest = w.content
      /\ n.echo.content = w.content
  <2>1. s.revision \in 0..MaxRevision BY DEF IInv, TypeOK
  <2> DEFINE echo == [revision |-> s.revision, content |-> w.content]
  <2>2. echo \in [revision : 0..MaxRevision, content : Contents] /\ echo.content = w.content
        BY <1>5, <2>1
  <2> HIDE DEF echo, w, s
  <2>3. /\ [e EXCEPT !.order = w.order, !.digest = w.content, !.echo = echo] \in Engines
        /\ [e EXCEPT !.order = w.order, !.digest = w.content, !.echo = echo].last = e.last
        /\ [e EXCEPT !.order = w.order, !.digest = w.content, !.echo = echo].digest = w.content
        /\ [e EXCEPT !.order = w.order, !.digest = w.content, !.echo = echo].echo = echo
        BY <1>3, <1>5, <2>2 DEF Engines
  <2> QED BY <2>2, <2>3 DEF echo
<1> HIDE DEF n
<1>7. engine'[p] = n /\ n # None /\ \A x \in Peers \ {p} : engine'[x] = engine[x]
      BY <1>4, <1>6, NoneAssumption DEF IInv, TypeOK
<1>8. writing'[p] = None /\ \A x \in Peers \ {p} : writing'[x] = writing[x]
      BY <1>4 DEF IInv, TypeOK
<1>9. LooksOrAgrees(t, n, s, None)
      BY <1>3, <1>4, <1>6 DEF LooksOrAgrees, Looking
<1>10. \A x \in Peers : engine[x] # None /\ PairPart(x)
      BY <1>1 DEF SyncPart, OneWatcher
<1>11. \A x \in Peers : PairPart(x)' BY <1>10, CommitPair
<1> QED BY <1>1, <1>3, <1>4, <1>7, <1>8, <1>9, <1>11, StepOfOne

\* The clipboard changes: the watcher is behind until it notices.
LEMMA Behind ==
    ASSUME NEW t, NEW e, NEW s, NEW w, LooksOrAgrees(t, e, s, w),
           t.last \in Nat, e.last \in Nat, s.revision \in Nat, NEW c, c # None, NEW w2
    PROVE LooksOrAgrees(t, e, [revision |-> s.revision + 1, content |-> c], w2)
<1> DEFINE s2 == [revision |-> s.revision + 1, content |-> c]
<1>1. s2.revision = s.revision + 1 /\ s2.content = c OBVIOUS
<1> HIDE DEF s2
<1>2. LooksOrAgrees(t, e, s2, w2) BY <1>1 DEF LooksOrAgrees, Looking
<1> QED BY <1>2 DEF s2

\* What the user does, and the session; no engine is stopped without a loss.
LEMMA OutsideAgrees ==
    ASSUME IInv, SyncInv, ~missed', NEW p \in Peers,
           \/ UserCopies(p) \/ AskResend(p) \/ SetTarget(p)
           \/ StopClipboard(p) \/ StartClipboard(p)
    PROVE SyncInv'
<1>1. \A x \in Peers : SyncPart(x)
      BY DEF UserCopies, AskResend, SetTarget, StopClipboard, StartClipboard, Missed, SyncInv
<1>2. \A x \in Peers : engine[x] # None /\ PairPart(x)
      BY <1>1 DEF SyncPart, OneWatcher
<1>3. CASE StopClipboard(p) \/ StartClipboard(p)
      BY <1>2, <1>3 DEF StopClipboard, StartClipboard, Missed
<1>4. ASSUME UNCHANGED <<engine, writing, threads, wire>> PROVE \A x \in Peers : PairPart(x)'
  <2>1. \A x \in Peers : OnItsWay(x)' = OnItsWay(x) BY <1>4, ToSendOne
  <2> QED BY <1>2, <1>4, <2>1, WayShrinks
<1>5. CASE AskResend(p) \/ SetTarget(p)
  <2>1. UNCHANGED <<system, engine, writing, threads, wire>> BY <1>5 DEF AskResend, SetTarget
  <2> QED BY <1>1, <1>4, <2>1 DEF SyncInv, SyncPart, OneWatcher, Alone, LookPart
<1>6. CASE UserCopies(p)
  <2>1. UNCHANGED <<engine, writing, threads, wire>> BY <1>6 DEF UserCopies
  <2>2. PICK c \in Contents : system' = [system EXCEPT ![p] = [revision |-> @.revision + 1, content |-> c]]
    <3>1. PICK size \in Sizes : Write(p, [by |-> p, nth |-> user + 1, size |-> size])
          BY <1>6 DEF UserCopies
    <3>2. [by |-> p, nth |-> user + 1, size |-> size] \in Contents
      <4>1. user + 1 \in 1..MaxUser
            BY <1>6, ClipboardAssumption DEF UserCopies, IInv, TypeOK
      <4> QED BY <4>1 DEF Contents
    <3> QED BY <3>1, <3>2 DEF Write
  <2>3. PICK t \in threads[p] : TRUE
        BY <1>1 DEF SyncPart, OneWatcher, Alone
  <2>4. /\ threads[p] = {t} /\ ~t.stopped /\ t.at # "start"
        /\ LooksOrAgrees(t, engine[p], system[p], writing[p])
        /\ t.last \in Nat /\ engine[p].last \in Nat /\ system[p].revision \in Nat
        BY <1>1, TheWatcher
  <2>5. /\ system'[p] = [revision |-> system[p].revision + 1, content |-> c] /\ c # None
        /\ \A x \in Peers \ {p} : system'[x] = system[x]
        BY <2>2, NoneAssumption DEF IInv, TypeOK
  <2>6. LooksOrAgrees(t, engine[p], system'[p], writing[p])
        BY <2>4, <2>5, Behind
  <2> QED BY <1>1, <1>2, <1>4, <2>1, <2>4, <2>5, <2>6, StepOfOne
<1> QED BY <1>3, <1>5, <1>6

\* A stream handler: an operation that is known already, or one it will commit.
LEMMA HandlerAgrees ==
    ASSUME IInv, SyncInv, ~missed', NEW p \in Peers, NEW op \in wire[p], Handle(p, op)
    PROVE SyncInv'
<1>1. Ignore(p, op) \/ Apply(p, op) BY DEF Handle, LoseStream, Refuse, Missed
<1>2. \A x \in Peers : SyncPart(x)
      BY <1>1 DEF Ignore, Apply, Missed, SyncInv
<1>3. \A x \in Peers : engine[x] # None /\ PairPart(x)
      BY <1>2 DEF SyncPart, OneWatcher
<1>4. PICK t \in threads[p] : TRUE
      BY <1>2 DEF SyncPart, OneWatcher, Alone
<1> DEFINE e == engine[p]
           n == [e EXCEPT !.lamport = Merged(@, op)]
           q == Other(p)
<1>5. /\ threads[p] = {t} /\ ~t.stopped /\ t.at # "start"
      /\ LooksOrAgrees(t, e, system[p], writing[p])
      /\ t.last \in Nat /\ e \in Engines /\ e.last \in Nat /\ system[p].revision \in Nat
      BY <1>2, TheWatcher
<1>6. op \in Operations /\ op.order \in Orders /\ op.content \in Contents /\ op.content # None
      BY NoneAssumption DEF IInv, TypeOK, Operations
<1>7. /\ engine' = [engine EXCEPT ![p] = n] /\ wire' = [wire EXCEPT ![p] = @ \ {op}]
      /\ UNCHANGED threads /\ writing[p] = None
      BY <1>1 DEF Ignore, Apply, Taken
<1>8. n # None /\ n.order = e.order /\ n.digest = e.digest /\ n.echo = e.echo /\ n.last = e.last
  <2>1. n \in Engines BY <1>5, <1>6, Merging
  <2>2. n.order = e.order /\ n.digest = e.digest /\ n.echo = e.echo /\ n.last = e.last
        BY <1>5 DEF Engines
  <2> QED BY <2>1, <2>2, NoneAssumption
<1> HIDE DEF n
<1>9. engine'[p] = n /\ \A x \in Peers \ {p} : engine'[x] = engine[x]
      BY <1>7 DEF IInv, TypeOK
<1>10. q \in Peers \ {p} /\ Other(q) = p /\ \A x \in Peers : x = p \/ x = q
      BY OtherPeer
<1>11. wire'[p] = wire[p] \ {op} /\ wire'[q] = wire[q] /\ op \in OnItsWay(q)
      BY <1>7, <1>10 DEF IInv, TypeOK, OnItsWay
<1>12. \A x \in Peers : engine'[x].order = engine[x].order /\ engine'[x].digest = engine[x].digest
      BY <1>8, <1>9
<1>13. ASSUME \A x \in Peers \ {p} : writing'[x] = writing[x],
              \/ writing'[p] = op
              \/ writing'[p] = None /\ HasOrNewer(p, op.order)
       PROVE \A x \in Peers : PairPart(x)'
  <2>1. OnItsWay(p)' = OnItsWay(p) BY <1>7, <1>10, <1>11, <1>13, ToSendOne
  <2>2. OnItsWay(q)' \subseteq OnItsWay(q)
        BY <1>7, <1>10, <1>11, <1>13, ToSendOne
  <2>3. \A y \in OnItsWay(q) : y \in OnItsWay(q)' \/ HasOrNewer(p, y.order)
    <3>1. OnItsWay(q) = ToSend(threads[q]) \cup wire[p]
          BY <1>7, <1>10, ToSendOne
    <3>2. OnItsWay(q)' = ToSend(threads[q]) \cup (wire[p] \ {op}) \cup ({writing'[p]} \ {None})
          BY <1>7, <1>10, <1>11, ToSendOne
    <3>3. op # None BY <1>6, NoneAssumption
    <3> QED BY <1>13, <3>1, <3>2, <3>3
  <2> QED BY <1>3, <1>10, <1>12, <2>1, <2>2, <2>3, WayShrinks
<1>14. CASE Ignore(p, op)
  <2>1. UNCHANGED <<system, writing>> BY <1>14 DEF Ignore
  <2>2. HasOrNewer(p, op.order)
    <3>1. e.order # None /\ ~Older(e.order, op.order)
          BY <1>14 DEF Ignore, Applies
    <3>2. e.order \in Orders BY <1>5, <3>1 DEF Engines
    <3> QED BY <1>6, <3>1, <3>2, OneOrder DEF HasOrNewer
  <2>3. \A x \in Peers : PairPart(x)' BY <1>7, <1>13, <2>1, <2>2
  <2>4. LooksOrAgrees(t, n, system[p], writing[p])
        BY <1>5, <1>8 DEF LooksOrAgrees
  <2> QED BY <1>2, <1>5, <1>7, <1>8, <1>9, <2>1, <2>3, <2>4, StepOfOne
<1>15. CASE Apply(p, op)
  <2>1. Write(p, op.content) /\ writing' = [writing EXCEPT ![p] = op]
        BY <1>15 DEF Apply, Missed
  <2>2. writing'[p] = op /\ \A x \in Peers \ {p} : writing'[x] = writing[x]
        BY <2>1 DEF IInv, TypeOK
  <2>3. /\ system'[p] = [revision |-> system[p].revision + 1, content |-> op.content]
        /\ \A x \in Peers \ {p} : system'[x] = system[x]
        BY <2>1 DEF Write, IInv, TypeOK
  <2>4. \A x \in Peers : PairPart(x)' BY <1>13, <2>2
  <2>5. LooksOrAgrees(t, n, system[p], writing[p])
        BY <1>5, <1>8 DEF LooksOrAgrees
  <2>6. LooksOrAgrees(t, n, system'[p], writing'[p])
        BY <1>5, <1>6, <1>8, <2>2, <2>3, <2>5, Behind
  <2> QED BY <1>2, <1>5, <1>7, <1>8, <1>9, <2>2, <2>3, <2>4, <2>6, StepOfOne
<1> QED BY <1>1, <1>14, <1>15

\* Both machines start with an empty clipboard and nothing to tell.
LEMMA InitAgrees == ASSUME Init PROVE SyncInv
<1> SUFFICES ASSUME NEW p \in Peers PROVE SyncPart(p)
    BY DEF SyncInv
<1>1. IInv BY InitIInv
<1>2. PICK boot \in [Peers -> BootIds] :
        /\ engine = [x \in Peers |-> NewEngine(boot[x], 0)]
        /\ threads = [x \in Peers |-> {NewThread(boot[x], "idle")}]
      BY DEF Init
<1> DEFINE q == Other(p)
           t == NewThread(boot[p], "idle")
<1>3. q \in Peers BY OtherPeer
<1>4. /\ threads[p] = {t} /\ ~t.stopped /\ t.at = "idle" /\ t.last = 0
      /\ system[p].revision = 0 /\ system[p].content = None
      /\ wire[q] = {} /\ writing[q] = None /\ writing[p] = None
      /\ engine[p].order = None /\ engine[p].digest = None /\ engine[p].echo = None /\ engine[p].last = 0
      /\ engine[q].order = None /\ engine[q].digest = None
      BY <1>2, <1>3 DEF Init, NewThread, NewEngine
<1>5. engine[p] # None
  <2>1. NewEngine(boot[p], 0) \in Engines BY ClipboardAssumption DEF NewEngine, Engines
  <2> QED BY <1>2, <2>1, NoneAssumption
<1>6. OneWatcher(p) BY <1>4, <1>5 DEF OneWatcher, Alone
<1> HIDE DEF t
<1>7. LookPart(p) BY <1>4 DEF LookPart, LooksOrAgrees, Looking
<1>8. OnItsWay(p) = {} BY <1>4, ToSendOne
<1>9. PairPart(p) BY <1>4, <1>8 DEF PairPart, SentPart, ToldPart, SamePart
<1> QED BY <1>6, <1>7, <1>9 DEF SyncPart

\* Every step keeps what the machines know of each other.
LEMMA SyncStep == ASSUME IInv, SyncInv, [Next]_vars PROVE SyncInv'
<1> SUFFICES ASSUME ~missed' PROVE SyncInv'
    BY DEF SyncInv
<1>1. CASE UNCHANGED vars
  <2>1. UNCHANGED <<system, engine, writing, threads, wire, missed>> BY <1>1 DEF vars
  <2>2. \A x \in Peers : OnItsWay(x)' = OnItsWay(x) BY <2>1, ToSendOne
  <2>3. \A x \in Peers : SyncPart(x) BY <2>1 DEF SyncInv
  <2>4. \A x \in Peers : PairPart(x)' BY <2>1, <2>2, <2>3, WayShrinks DEF SyncPart
  <2> QED BY <2>1, <2>3, <2>4 DEF SyncInv, SyncPart, OneWatcher, Alone, LookPart
<1>2. ASSUME NEW p \in Peers, NEW t \in threads[p], Watch(p, t) PROVE SyncInv'
      BY <1>2, WatcherTurns, WatcherAsks DEF Watch
<1>3. CASE Next
      BY <1>2, <1>3, HandlerAgrees, CommitAgrees, OutsideAgrees DEF Next
<1> QED BY <1>1, <1>3

\* At rest each machine knows the other's winner, so they are one.
LEMMA RestAgrees == ASSUME IInv, SyncInv PROVE Settled
<1> SUFFICES ASSUME Quiet, ~missed
             PROVE /\ \A p \in Peers : engine[p].digest = system[p].content
                   /\ \A p, q \in Peers : system[p].content = system[q].content
    BY DEF Settled, WinnerIsOnClipboard, Converged
<1>1. \A p \in Peers : SyncPart(p) BY DEF SyncInv
<1>2. ASSUME NEW p \in Peers PROVE engine[p].digest = system[p].content /\ OnItsWay(p) = {}
  <2>1. PICK t \in threads[p] : threads[p] = {t} /\ t.at = "idle" /\ t.last = system[p].revision
        BY DEF Quiet
  <2>2. LooksOrAgrees(t, engine[p], system[p], writing[p]) BY <1>1 DEF SyncPart, LookPart
  <2>3. Other(p) \in Peers BY OtherPeer
  <2>4. wire[Other(p)] = {} /\ writing[Other(p)] = None BY <2>3 DEF Quiet
  <2> QED BY <2>1, <2>2, <2>4, ToSendOne DEF LooksOrAgrees, Looking
<1>3. ASSUME NEW p \in Peers PROVE engine[p].digest = engine[Other(p)].digest
  <2> DEFINE q == Other(p)
  <2>1. q \in Peers /\ Other(q) = p BY OtherPeer
  <2>2. engine[p].order # None => HasOrNewer(q, engine[p].order)
        BY <1>1, <1>2 DEF SyncPart, PairPart, ToldPart
  <2>3. engine[q].order # None => HasOrNewer(p, engine[q].order)
        BY <1>1, <1>2, <2>1 DEF SyncPart, PairPart, ToldPart
  <2>4. engine[p].order = engine[q].order
    <3>1. CASE engine[p].order = None \/ engine[q].order = None
          BY <2>2, <2>3, <3>1 DEF HasOrNewer
    <3>2. CASE engine[p].order # None /\ engine[q].order # None
      <4>1. engine[p] # None /\ engine[q] # None
            BY <1>1, <2>1 DEF SyncPart, OneWatcher
      <4>2. engine[p].order \in Orders /\ engine[q].order \in Orders
            BY <2>1, <3>2, <4>1 DEF IInv, TypeOK, Engines
      <4> QED BY <2>2, <2>3, <3>2, <4>2, OneOrder DEF HasOrNewer
    <3> QED BY <3>1, <3>2
  <2> QED BY <1>1, <2>4 DEF SyncPart, PairPart, SamePart
<1> QED BY <1>2, <1>3, OtherPeer

\* Two users copying at once, streams out of order, late answers and resends:
\* as long as no change and no operation was given up, both machines end with
\* the clipboard of the newest operation (clipboard_sync.rs, lib.rs
\* handle_v2_clipboard_operation).
THEOREM ClipboardsConverge == Spec => []Settled
<1>1. Init => SyncInv BY InitAgrees
<1>2. IInv /\ SyncInv /\ [Next]_vars => SyncInv' BY SyncStep
<1>3. IInv /\ SyncInv => Settled BY RestAgrees
<1> QED BY <1>1, <1>2, <1>3, Invariance, PTL DEF Spec
=============================================================================
