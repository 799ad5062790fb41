----------------------------- MODULE CaptureProofs -----------------------------
(***************************************************************************)
(* Proofs about Capture for any finite set of capture threads, any length  *)
(* of the hooks' queue, any trigger keys and any number of sessions and    *)
(* overrides: what the hooks swallow is served by a running thread and     *)
(* forwarded in its own session (CaptureInv), and a press counts once, for *)
(* one machine (HandInv, which rests on CaptureInv).                       *)
(***************************************************************************)
EXTENDS Capture, TLAPS, SequenceTheorems, FiniteSetTheorems

\* A thread that is not running has nothing left of an earlier life.
FreshPart == \A t \in Threads : ~Alive(t) => th[t] = NewThread

\* The runtime and the hooks name running threads; the one the runtime may
\* stop was not asked to; without an overlap no other thread runs than the
\* one whose context the hooks use.
RuntimePart ==
    /\ context # None => Alive(context)
    /\ stopping => inputStop # None
    /\ inputStop # None => Alive(inputStop) /\ ~th[inputStop].stop
    /\ ~overlapped => \A t \in Threads : Alive(t) => context = t

\* From the end of the events to the pump a thread's queue is empty: hooks only
\* run while every thread pumps messages.
BeforePump == {"desktop", "switch", "poll"}
QueuePart == \A t \in Threads : th[t].pc \in BeforePump => th[t].queue = <<>>

CaptureInv ==
    /\ CaptureTypeOK
    /\ FreshPart
    /\ RuntimePart
    /\ OpenGateIsServed
    /\ QueuePart
    /\ ForwardInSession
-----------------------------------------------------------------------------
\* The gate of one thread is no other gate.
LEMMA GatesDiffer ==
    ASSUME NEW t, NEW u
    PROVE  /\ Closed # Opened(t) /\ Reserved(t) # Opened(u)
           /\ Opened(t) = Opened(u) => t = u
           /\ Opened(t).open /\ ~Closed.open /\ ~Reserved(t).open
  BY DEF Closed, Opened, Reserved

\* Every gate a step sets is a gate.
LEMMA GatesTyped ==
    ASSUME NEW t \in Threads
    PROVE  Closed \in Gates /\ Reserved(t) \in Gates /\ Opened(t) \in Gates
  BY DEF Closed, Opened, Reserved, Gates

\* The closed gate, to which routing falls back, is one of the gates.
LEMMA ClosedIsGate == Closed \in Gates
  BY DEF Closed, Gates

\* The variables a step leaves alone when it touches neither the threads nor
\* the gate keep the invariant with them, whatever else stays typed.
LEMMA LoopUntouched ==
    ASSUME CaptureInv, CaptureTypeOK',
           UNCHANGED <<th, remoteActive, context, inputStop, stopping, overlapped, session>>,
           gate' = gate \/ gate' = Closed
    PROVE  CaptureInv'
  <1>1. FreshPart' /\ QueuePart'
    BY DEF CaptureInv, FreshPart, QueuePart, Alive
  <1>2. RuntimePart'
    BY DEF CaptureInv, RuntimePart, Alive
  <1>3. OpenGateIsServed'
    BY GatesDiffer DEF CaptureInv, OpenGateIsServed, Serving, Alive
  <1>4. ForwardInSession'
    BY GatesDiffer DEF CaptureInv, ForwardInSession
  <1> QED
    BY <1>1, <1>2, <1>3, <1>4 DEF CaptureInv

\* What one turn of a capture thread's loop does to it, to the gate and to the
\* session: it empties its queue from the front, keeps a route that is active
\* unless it closes the gate, opens the gate only for itself, and is stuck only
\* if it had no target.
Turn(t, rec) ==
    /\ Alive(t) /\ th' = [th EXCEPT ![t] = rec]
    /\ rec \in ThreadStates /\ rec.pc # "none" /\ rec.stop = th[t].stop
    /\ \/ rec.queue = th[t].queue
       \/ th[t].queue # <<>> /\ rec.queue = Tail(th[t].queue)
    /\ rec.pc \in BeforePump => rec.queue = <<>>
    /\ rec.pc = "stuck" => ~th[t].active
    /\ UNCHANGED runtime
    /\ \/ ~gate'.open /\ session' = session
       \/ /\ gate' = gate /\ session' = session
          /\ th[t].active /\ th[t].route = "active"
             => rec.active /\ rec.route = "active" /\ remoteActive' = remoteActive
       \/ /\ gate' = Opened(t) /\ remoteActive'
          /\ rec.active /\ rec.route = "active" /\ rec.queue = <<>> /\ rec.pc # "stuck"

\* A turn of the loop keeps the invariant.
LEMMA TurnKeeps ==
    ASSUME CaptureInv, NEW t \in Threads, NEW rec, Turn(t, rec), CaptureTypeOK'
    PROVE  CaptureInv'
  <1>1. /\ th \in [Threads -> ThreadStates] /\ th' \in [Threads -> ThreadStates]
        /\ Alive(t) /\ th'[t] = rec /\ rec.pc # "none" /\ rec.stop = th[t].stop
        /\ \A u \in Threads : u # t => th'[u] = th[u]
        /\ UNCHANGED <<context, inputStop, stopping, overlapped>>
    BY DEF Turn, CaptureInv, CaptureTypeOK, runtime
  <1>2. Alive(t)' /\ \A u \in Threads : u # t => (Alive(u)' <=> Alive(u))
    BY <1>1 DEF Alive
  <1>3. \A u \in Threads : Alive(u)' <=> Alive(u)
    BY <1>1, <1>2
  <1>4. context \in Threads \cup {None} /\ inputStop \in Threads \cup {None}
    BY DEF CaptureInv, CaptureTypeOK
  <1>5. FreshPart'
    BY <1>1, <1>2, <1>3 DEF CaptureInv, FreshPart
  <1>6. RuntimePart'
    <2>1. (context # None => Alive(context))'
      BY <1>1, <1>3, <1>4 DEF CaptureInv, RuntimePart, Alive
    <2>2. (inputStop # None => Alive(inputStop) /\ ~th[inputStop].stop)'
      BY <1>1, <1>3, <1>4 DEF CaptureInv, RuntimePart, Alive
    <2> QED
      BY <1>1, <1>3, <2>1, <2>2 DEF CaptureInv, RuntimePart, Alive
  <1>7. QueuePart'
    BY <1>1 DEF Turn, CaptureInv, QueuePart
  <1>8. OpenGateIsServed'
    <2> SUFFICES ASSUME NEW u \in Threads, gate' = Opened(u), ~overlapped
                 PROVE  /\ context' = u /\ Serving(u)' /\ th'[u].active /\ th'[u].route = "active"
                        /\ remoteActive' \/ th'[u].stop
      BY <1>1 DEF OpenGateIsServed, Serving, Alive
    <2>1. context = t
      BY <1>1 DEF CaptureInv, RuntimePart
    <2>2. gate'.open
      BY GatesDiffer
    <2>3. ASSUME gate' = gate,
                 th[t].active /\ th[t].route = "active"
                   => rec.active /\ rec.route = "active" /\ remoteActive' = remoteActive,
                 rec.pc = "stuck" => ~th[t].active
          PROVE  /\ context' = u /\ Serving(u)' /\ th'[u].active /\ th'[u].route = "active"
                 /\ remoteActive' \/ th'[u].stop
      <3>1. /\ context = u /\ th[u].active /\ th[u].route = "active"
            /\ remoteActive \/ th[u].stop
        BY <2>3 DEF CaptureInv, OpenGateIsServed
      <3> QED
        BY <1>1, <1>2, <2>1, <2>3, <3>1 DEF Serving
    <2>4. ASSUME gate' = Opened(t), remoteActive', rec.active, rec.route = "active",
                 rec.pc # "stuck"
          PROVE  /\ context' = u /\ Serving(u)' /\ th'[u].active /\ th'[u].route = "active"
                 /\ remoteActive' \/ th'[u].stop
      <3>1. u = t
        BY <2>4, GatesDiffer
      <3> QED
        BY <1>1, <1>2, <2>1, <2>4, <3>1 DEF Serving
    <2> QED
      BY <2>2, <2>3, <2>4 DEF Turn
  <1>9. ForwardInSession'
    <2> SUFFICES ASSUME NEW u \in Threads, gate' = Opened(u), NEW i \in 1..Len(th'[u].queue),
                        th'[u].queue[i].kind # "move"
                 PROVE  th'[u].queue[i].session = session'
      BY DEF ForwardInSession
    <2>1. gate'.open
      BY GatesDiffer
    <2>2. ASSUME gate' = Opened(t), rec.queue = <<>> PROVE FALSE
      <3>1. th'[u].queue = <<>>
        BY <1>1, <2>2, GatesDiffer
      <3>2. Len(th'[u].queue) = 0
        BY <3>1
      <3> QED
        BY <3>2
    <2>3. gate = Opened(u) /\ session' = session
      BY <2>1, <2>2 DEF Turn
    <2>4. \A j \in 1..Len(th[u].queue) :
             th[u].queue[j].kind # "move" => th[u].queue[j].session = session
      BY <2>3 DEF CaptureInv, ForwardInSession
    <2>5. CASE th'[u].queue = th[u].queue
      BY <2>3, <2>4, <2>5
    <2>6. CASE th[u].queue # <<>> /\ th'[u].queue = Tail(th[u].queue)
      <3>1. th[u].queue \in Seq(Events)
        BY <1>1 DEF ThreadStates
      <3>2. i + 1 \in 1..Len(th[u].queue) /\ th'[u].queue[i] = th[u].queue[i + 1]
        BY <1>1, <2>6, <3>1, HeadTailProperties
      <3> QED
        BY <2>3, <2>4, <3>2
    <2> QED
      BY <1>1, <2>5, <2>6 DEF Turn
  <1> QED
    BY <1>5, <1>6, <1>7, <1>8, <1>9 DEF CaptureInv
-----------------------------------------------------------------------------
\* The types, in two parts: what the loop of a thread changes at every step,
\* and the rest.
LoopTyped ==
    /\ th \in [Threads -> ThreadStates]
    /\ \A t \in Threads : Len(th[t].queue) <= HookQueue
    /\ gate \in Gates /\ remoteActive \in BOOLEAN /\ peerHolds \in BOOLEAN

RestTyped ==
    /\ context \in Threads \cup {None} /\ inputStop \in Threads \cup {None}
    /\ slot \in Actions \cup {None} /\ deduper \subseteq Actions
    /\ stopping \in BOOLEAN /\ switchRequest \in BOOLEAN /\ gameMode \in BOOLEAN
    /\ saving \in BOOLEAN /\ desktop \in BOOLEAN /\ desktopCache \in BOOLEAN
    /\ keyDown \in BOOLEAN /\ winHolds \in BOOLEAN /\ overlapped \in BOOLEAN
    /\ hotDown \in [Actions -> {"up", "hook", "system"}] /\ dispatched \in [Actions -> Nat]
    /\ session \in 0..MaxSessions /\ overrides \in 0..MaxOverrides
    /\ features \subseteq CaptureFeatures

\* The type invariant splits in the part the pump owns and the rest.
LEMMA TypeParts == CaptureTypeOK <=> LoopTyped /\ RestTyped
  <1>1. {remoteActive, stopping, switchRequest, gameMode, saving, desktop, desktopCache,
         keyDown, winHolds, peerHolds, overlapped} \subseteq BOOLEAN
        <=> /\ remoteActive \in BOOLEAN /\ peerHolds \in BOOLEAN
            /\ stopping \in BOOLEAN /\ switchRequest \in BOOLEAN /\ gameMode \in BOOLEAN
            /\ saving \in BOOLEAN /\ desktop \in BOOLEAN /\ desktopCache \in BOOLEAN
            /\ keyDown \in BOOLEAN /\ winHolds \in BOOLEAN /\ overlapped \in BOOLEAN
    BY ZenonT(30)
  <1> QED
    BY <1>1, Zenon DEF CaptureTypeOK, LoopTyped, RestTyped

\* A thread's loop goes on from th[t] to rec: the route it is on is unchanged.
Advance(t, rec) ==
    /\ rec \in ThreadStates /\ rec.pc # "none" /\ rec.stop = th[t].stop
    /\ rec.route = th[t].route /\ rec.active = th[t].active
    /\ \/ rec.queue = th[t].queue
       \/ th[t].queue # <<>> /\ rec.queue = Tail(th[t].queue)
    /\ rec.pc \in BeforePump => rec.queue = <<>>
    /\ rec.pc = "stuck" => ~th[t].active

\* A step of a thread's loop is a turn and leaves the loop's variables typed.
Moves(t) == LoopTyped' /\ \E rec : Turn(t, rec)

\* Replacing one thread's record keeps the threads typed.
LEMMA ThreadsTyped ==
    ASSUME LoopTyped, NEW t \in Threads, NEW rec \in ThreadStates,
           Len(rec.queue) <= HookQueue, th' = [th EXCEPT ![t] = rec]
    PROVE  /\ th' \in [Threads -> ThreadStates]
           /\ \A u \in Threads : Len(th'[u].queue) <= HookQueue
  BY DEF LoopTyped

\* A thread that goes on is a thread, and what is left of its queue fits.
LEMMA AdvanceFits ==
    ASSUME LoopTyped, NEW t \in Threads, NEW rec, Advance(t, rec)
    PROVE  rec \in ThreadStates /\ Len(rec.queue) <= HookQueue
  <1>1. th[t].queue \in Seq(Events) /\ Len(th[t].queue) <= HookQueue
    BY DEF LoopTyped, ThreadStates
  <1>2. CASE th[t].queue # <<>> /\ rec.queue = Tail(th[t].queue)
    <2>1. Len(rec.queue) = Len(th[t].queue) - 1
      BY <1>1, <1>2, HeadTailProperties
    <2>2. Len(th[t].queue) \in Nat
      BY <1>1
    <2> QED
      BY <1>1, <2>1, <2>2, CaptureAssumption DEF Advance
  <1>3. CASE rec.queue = th[t].queue
    BY <1>1, <1>3 DEF Advance
  <1> QED
    BY <1>2, <1>3 DEF Advance

\* A thread that goes on.
LEMMA GoOnMoves ==
    ASSUME CaptureInv, NEW t \in Threads, NEW rec, Alive(t), Advance(t, rec), GoOn(t, rec),
           UNCHANGED runtime, session' = session
    PROVE  Moves(t)
  <1>1. Turn(t, rec)
    BY DEF Turn, Advance, GoOn
  <1>2. LoopTyped
    BY TypeParts, Zenon DEF CaptureInv
  <1>3. rec \in ThreadStates /\ Len(rec.queue) <= HookQueue
    BY <1>2, AdvanceFits
  <1>4. LoopTyped'
    BY <1>2, <1>3, ThreadsTyped DEF LoopTyped, GoOn
  <1> QED
    BY <1>1, <1>4 DEF Moves

\* A thread that returns to local.
LEMMA LeaveMoves ==
    ASSUME CaptureInv, NEW t \in Threads, NEW rec, Alive(t), Advance(t, rec), Leave(t, rec),
           UNCHANGED runtime, session' = session
    PROVE  Moves(t)
  <1> DEFINE left == IF rec.route = "local" THEN rec ELSE [Restored(rec) EXCEPT !.route = "local"]
  <1>1. LoopTyped
    BY TypeParts, Zenon DEF CaptureInv
  <1>2. rec \in ThreadStates /\ Len(rec.queue) <= HookQueue
    BY <1>1, AdvanceFits
  <1>3. /\ left \in ThreadStates /\ left.pc = rec.pc /\ left.stop = rec.stop
        /\ left.queue = rec.queue
    BY <1>2 DEF Restored, ThreadStates, Routes
  <1>4. th' = [th EXCEPT ![t] = left] /\ gate' = Closed
    BY DEF Leave
  <1>5. remoteActive' \in BOOLEAN /\ peerHolds' \in BOOLEAN
    BY Zenon DEF Leave
  <1> HIDE DEF left
  <1>6. Turn(t, left)
    BY <1>3, <1>4, GatesDiffer DEF Turn, Advance
  <1>7. LoopTyped'
    BY <1>1, <1>2, <1>3, <1>4, <1>5, ThreadsTyped, GatesTyped DEF LoopTyped
  <1> QED
    BY <1>6, <1>7 DEF Moves

\* A thread that only clears what a refused handoff left, with no capture.
LEMMA RestoreMoves ==
    ASSUME CaptureInv, NEW t \in Threads, NEW rec, Alive(t), Advance(t, rec), ~th[t].active,
           RestoreOnly(t, rec), UNCHANGED runtime, session' = session
    PROVE  Moves(t)
  <1>1. LoopTyped
    BY TypeParts, Zenon DEF CaptureInv
  <1>2. rec \in ThreadStates /\ Len(rec.queue) <= HookQueue
    BY <1>1, AdvanceFits
  <1>3. /\ Restored(rec) \in ThreadStates /\ Restored(rec).pc = rec.pc
        /\ Restored(rec).stop = rec.stop /\ Restored(rec).queue = rec.queue
    BY <1>2 DEF Restored, ThreadStates
  <1>4. th' = [th EXCEPT ![t] = Restored(rec)] /\ gate' = gate /\ remoteActive' = FALSE
        /\ peerHolds' = peerHolds
    BY DEF RestoreOnly
  <1>5. Turn(t, Restored(rec))
    BY <1>3, <1>4 DEF Turn, Advance
  <1>6. LoopTyped'
    BY <1>1, <1>2, <1>3, <1>4, ThreadsTyped DEF LoopTyped
  <1> QED
    BY <1>5, <1>6 DEF Moves

\* A thread without capture that reserves the gate.
LEMMA ReservesMoves ==
    ASSUME CaptureInv, NEW t \in Threads, NEW rec, Alive(t), Advance(t, rec), ~th[t].active,
           Reserves(t, rec), UNCHANGED runtime, session' = session
    PROVE  Moves(t)
  <1> DEFINE begun == [rec EXCEPT !.route = "preparing"]
  <1>1. LoopTyped
    BY TypeParts, Zenon DEF CaptureInv
  <1>2. rec \in ThreadStates /\ Len(rec.queue) <= HookQueue
    BY <1>1, AdvanceFits
  <1>3. /\ begun \in ThreadStates /\ begun.pc = rec.pc /\ begun.stop = rec.stop
        /\ begun.queue = rec.queue
    BY <1>2 DEF ThreadStates, Routes
  <1>4. /\ gate' = Reserved(t) /\ th' = [th EXCEPT ![t] = begun]
        /\ UNCHANGED <<remoteActive, peerHolds>>
    BY DEF Reserves
  <1> HIDE DEF begun
  <1>5. Turn(t, begun)
    BY <1>3, <1>4, GatesDiffer DEF Turn, Advance
  <1>6. LoopTyped'
    BY <1>1, <1>2, <1>3, <1>4, ThreadsTyped, GatesTyped DEF LoopTyped
  <1> QED
    BY <1>5, <1>6 DEF Moves

\* A thread without capture that begins a handoff, or is refused.
LEMMA BeginMoves ==
    ASSUME CaptureInv, NEW t \in Threads, NEW rec, Alive(t), Advance(t, rec), ~th[t].active,
           Begin(t, rec), UNCHANGED runtime, session' = session
    PROVE  Moves(t)
  <1> DEFINE pending == [rec EXCEPT !.pending = TRUE]
  <1>1. Advance(t, pending)
    BY DEF Advance, ThreadStates
  <1>2. Begin(t, rec) => \/ Reserves(t, pending) \/ Leave(t, rec)
                         \/ RestoreOnly(t, rec) \/ GoOn(t, rec)
    BY DEF Begin
  <1> HIDE DEF pending
  <1> QED
    BY <1>1, <1>2, ReservesMoves, LeaveMoves, RestoreMoves, GoOnMoves

\* A thread without capture that is stuck in beginning a handoff.
LEMMA HangsMoves ==
    ASSUME CaptureInv, NEW t \in Threads, NEW rec, Alive(t), Advance(t, rec), ~th[t].active,
           Hangs(t, rec), UNCHANGED runtime, session' = session
    PROVE  Moves(t)
  <1> DEFINE stuck == [rec EXCEPT !.pc = "stuck"]
  <1>1. Advance(t, stuck)
    BY DEF Advance, ThreadStates, Stages, BeforePump
  <1>2. Reserves(t, stuck) \/ Leave(t, stuck) \/ GoOn(t, stuck)
    BY DEF Hangs
  <1> HIDE DEF stuck
  <1> QED
    BY <1>1, <1>2, ReservesMoves, LeaveMoves, GoOnMoves

\* A step of the loop keeps the invariant.
LEMMA MovesKeep ==
    ASSUME CaptureInv, NEW t \in Threads, Moves(t), RestTyped'
    PROVE  CaptureInv'
  <1>1. PICK rec : Turn(t, rec)
    BY DEF Moves
  <1>2. CaptureTypeOK'
    BY TypeParts, PTL DEF Moves
  <1> QED
    BY <1>1, <1>2, TurnKeeps

\* A thread goes on to its next stage; to one before the pump with no event left.
LEMMA ToAdvances ==
    ASSUME CaptureInv, NEW t \in Threads, NEW pc \in Stages \ {"none", "stuck"},
           pc \in BeforePump => th[t].queue = <<>>
    PROVE  Advance(t, To(t, pc))
  BY DEF CaptureInv, CaptureTypeOK, Advance, To, ThreadStates

\* A thread at its events goes on with the next one.
LEMMA TailAdvances ==
    ASSUME CaptureInv, NEW t \in Threads, At(t, "events"), th[t].queue # <<>>
    PROVE  Advance(t, [th[t] EXCEPT !.queue = Tail(@)])
  <1>1. th[t] \in ThreadStates /\ th[t].queue \in Seq(Events)
    BY DEF CaptureInv, CaptureTypeOK, ThreadStates
  <1>2. Tail(th[t].queue) \in Seq(Events)
    BY <1>1, HeadTailProperties
  <1> QED
    BY <1>1, <1>2 DEF Advance, At, ThreadStates, BeforePump

\* A thread at a stage of its loop is running.
LEMMA AtIsAlive ==
    ASSUME NEW t, NEW pc \in Stages \ {"none"}, At(t, pc)
    PROVE  Alive(t)
  BY DEF At, Alive

\* The control action is taken, or the slot is held by another thread.
LEMMA DrainControlKeeps ==
    ASSUME CaptureInv, NEW t \in Threads, DrainControl(t)
    PROVE  CaptureInv'
  <1>1. Alive(t) /\ Advance(t, To(t, "events")) /\ UNCHANGED runtime /\ session' = session
    BY ToAdvances, AtIsAlive DEF DrainControl, BeforePump, Stages
  <1>2. Moves(t)
    BY <1>1, GoOnMoves, LeaveMoves, BeginMoves DEF DrainControl
  <1>3. RestTyped
    BY TypeParts DEF CaptureInv
  <1>4. slot' \in Actions \cup {None}
    BY <1>3 DEF RestTyped, DrainControl
  <1>5. RestTyped'
    BY <1>3, <1>4 DEF RestTyped, DrainControl, runtime, modes, hand
  <1> QED
    BY <1>2, <1>5, MovesKeep

\* A hook event is sent, is the thread's last or is dropped.
LEMMA ProcessEventKeeps ==
    ASSUME CaptureInv, NEW t \in Threads, ProcessEvent(t)
    PROVE  CaptureInv'
  <1> DEFINE rec == [th[t] EXCEPT !.queue = Tail(@)]
             kind == Head(th[t].queue).kind
  <1>1. Alive(t) /\ Advance(t, rec) /\ UNCHANGED runtime /\ session' = session
    BY TailAdvances, AtIsAlive DEF ProcessEvent, Stages
  <1>2. \/ GoOn(t, rec) \/ Leave(t, rec)
        \/ ~th[t].active /\ Hangs(t, rec)
        \/ /\ th' = [th EXCEPT ![t] = rec] /\ peerHolds' = Forwarded(kind)
           /\ UNCHANGED <<gate, remoteActive>>
    BY DEF ProcessEvent
  <1> HIDE DEF rec
  <1>3. LoopTyped /\ RestTyped
    BY TypeParts DEF CaptureInv
  <1>4. Forwarded(kind) \in BOOLEAN
    BY <1>3 DEF Forwarded, LoopTyped
  <1>5. ASSUME th' = [th EXCEPT ![t] = rec], peerHolds' = Forwarded(kind),
               UNCHANGED <<gate, remoteActive>>
        PROVE  Moves(t)
    <2>1. Turn(t, rec)
      BY <1>1, <1>5 DEF Turn, Advance
    <2>2. rec \in ThreadStates /\ Len(rec.queue) <= HookQueue
      BY <1>1, <1>3, AdvanceFits
    <2>3. LoopTyped'
      BY <1>3, <1>4, <1>5, <2>2, ThreadsTyped DEF LoopTyped
    <2> QED
      BY <2>1, <2>3 DEF Moves
  <1>6. Moves(t)
    BY <1>1, <1>2, <1>5, GoOnMoves, LeaveMoves, HangsMoves
  <1>7. RestTyped'
    BY <1>3 DEF RestTyped, ProcessEvent, runtime, requests, modes, hand
  <1> QED
    BY <1>6, <1>7, MovesKeep

\* The queue is empty: the loop goes on to its checks.
LEMMA EventsDrainedKeeps ==
    ASSUME CaptureInv, NEW t \in Threads, EventsDrained(t)
    PROVE  CaptureInv'
  <1>1. Alive(t) /\ Advance(t, To(t, "desktop")) /\ UNCHANGED runtime /\ session' = session
    BY ToAdvances, AtIsAlive DEF EventsDrained, Drained, Stages
  <1>2. Moves(t)
    BY <1>1, GoOnMoves DEF EventsDrained
  <1>3. RestTyped
    BY TypeParts DEF CaptureInv
  <1>4. RestTyped'
    BY <1>3 DEF RestTyped, EventsDrained, runtime, requests, modes, hand
  <1> QED
    BY <1>2, <1>4, MovesKeep

\* The secure desktop makes the thread leave.
LEMMA CheckDesktopKeeps ==
    ASSUME CaptureInv, NEW t \in Threads, CheckDesktop(t)
    PROVE  CaptureInv'
  <1>1. Alive(t) /\ Advance(t, To(t, "switch")) /\ UNCHANGED runtime /\ session' = session
    BY ToAdvances, AtIsAlive DEF CheckDesktop, CaptureInv, QueuePart, At, Stages, BeforePump
  <1>2. Moves(t)
    BY <1>1, GoOnMoves, LeaveMoves DEF CheckDesktop
  <1>3. RestTyped
    BY TypeParts DEF CaptureInv
  <1>4. desktopCache' \in BOOLEAN
    BY <1>3, Zenon DEF RestTyped, CheckDesktop
  <1>5. RestTyped'
    BY <1>3, <1>4 DEF RestTyped, CheckDesktop, runtime, requests, hand
  <1> QED
    BY <1>2, <1>5, MovesKeep

\* A switch request is served once.
LEMMA DrainSwitchKeeps ==
    ASSUME CaptureInv, NEW t \in Threads, DrainSwitch(t)
    PROVE  CaptureInv'
  <1>1. Alive(t) /\ Advance(t, To(t, "poll")) /\ UNCHANGED runtime /\ session' = session
    BY ToAdvances, AtIsAlive DEF DrainSwitch, CaptureInv, QueuePart, At, Stages, BeforePump
  <1>2. Moves(t)
    BY <1>1, GoOnMoves, LeaveMoves, BeginMoves DEF DrainSwitch
  <1>3. RestTyped
    BY TypeParts DEF CaptureInv
  <1>4. RestTyped'
    BY <1>3 DEF RestTyped, DrainSwitch, runtime, modes, hand
  <1> QED
    BY <1>2, <1>4, MovesKeep

\* The message pump returns.
LEMMA PumpEndsKeeps ==
    ASSUME CaptureInv, NEW t \in Threads, PumpEnds(t)
    PROVE  CaptureInv'
  <1>1. Alive(t) /\ Advance(t, To(t, "control")) /\ UNCHANGED runtime /\ session' = session
    BY ToAdvances, AtIsAlive DEF PumpEnds, Stages, BeforePump
  <1>2. Moves(t)
    BY <1>1, GoOnMoves DEF PumpEnds
  <1>3. RestTyped
    BY TypeParts DEF CaptureInv
  <1>4. RestTyped'
    BY <1>3 DEF RestTyped, PumpEnds, runtime, requests, modes, hand
  <1> QED
    BY <1>2, <1>4, MovesKeep

\* The client polls: the answer to the commit opens the gate for this thread,
\* with no event left from before.
LEMMA PollClientKeeps ==
    ASSUME CaptureInv, NEW t \in Threads, PollClient(t)
    PROVE  CaptureInv'
  <1> DEFINE rec == To(t, "pump")
             committed == [rec EXCEPT !.route = "committed"]
             activated == [rec EXCEPT !.route = "active", !.pending = FALSE, !.active = TRUE]
  <1>1. Alive(t) /\ Advance(t, rec) /\ UNCHANGED runtime
    BY ToAdvances, AtIsAlive DEF PollClient, Stages, BeforePump
  <1>2. LoopTyped /\ RestTyped
    BY TypeParts DEF CaptureInv
  <1>3. rec \in ThreadStates /\ Len(rec.queue) <= HookQueue
    BY <1>1, <1>2, AdvanceFits
  <1>4. /\ At(t, "poll") /\ th[t].queue = <<>> /\ rec.queue = <<>>
        /\ rec.pc = "pump" /\ rec.stop = th[t].stop
    BY <1>2 DEF PollClient, CaptureInv, QueuePart, BeforePump, At, To, LoopTyped, ThreadStates
  <1> HIDE DEF rec
  <1>5. /\ committed \in ThreadStates /\ committed.pc = "pump" /\ committed.stop = th[t].stop
        /\ committed.queue = <<>>
    BY <1>3, <1>4 DEF ThreadStates, Routes
  <1>6. /\ activated \in ThreadStates /\ activated.pc = "pump" /\ activated.stop = th[t].stop
        /\ activated.queue = <<>> /\ activated.active /\ activated.route = "active"
    BY <1>3, <1>4 DEF ThreadStates, Routes
  <1>7. \/ session' = session /\ (GoOn(t, rec) \/ Leave(t, rec))
        \/ session' = session /\ ~th[t].active /\ RestoreOnly(t, rec)
        \/ session' = session /\ th[t].route = "preparing" /\ GoOn(t, committed)
        \/ Activated(t)
    BY DEF PollClient, rec
  <1> HIDE DEF committed, activated
  <1>8. ASSUME session' = session, th[t].route = "preparing", GoOn(t, committed)
        PROVE  Moves(t) /\ session' \in 0..MaxSessions
    <2>1. Turn(t, committed)
      BY <1>1, <1>4, <1>5, <1>8 DEF Turn, GoOn, BeforePump
    <2>2. Len(committed.queue) <= HookQueue
      BY <1>5, CaptureAssumption
    <2>3. LoopTyped'
      BY <1>2, <1>5, <1>8, <2>2, ThreadsTyped DEF LoopTyped, GoOn
    <2> QED
      BY <1>2, <1>8, <2>1, <2>3 DEF Moves, RestTyped
  <1>9. ASSUME Activated(t)
        PROVE  Moves(t) /\ session' \in 0..MaxSessions
    <2>1. /\ th' = [th EXCEPT ![t] = activated] /\ gate' = Opened(t) /\ remoteActive' = TRUE
          /\ peerHolds' = peerHolds
      BY <1>9 DEF Activated, activated, rec
    <2>2. session' \in 0..MaxSessions
      BY <1>2, <1>9, CaptureAssumption DEF Activated, RestTyped
    <2>3. Turn(t, activated)
      BY <1>1, <1>4, <1>6, <2>1 DEF Turn, BeforePump
    <2>4. Len(activated.queue) <= HookQueue
      BY <1>6, CaptureAssumption
    <2>5. LoopTyped'
      BY <1>2, <1>6, <2>1, <2>4, ThreadsTyped, GatesTyped DEF LoopTyped
    <2> QED
      BY <2>2, <2>3, <2>5 DEF Moves
  <1>10. Moves(t) /\ session' \in 0..MaxSessions
    <2>1. session \in 0..MaxSessions
      BY <1>2 DEF RestTyped
    <2> QED
      BY <1>1, <1>7, <1>8, <1>9, <2>1, GoOnMoves, LeaveMoves, RestoreMoves
  <1>11. RestTyped'
    BY <1>2, <1>10 DEF RestTyped, PollClient, runtime, requests, modes, hand
  <1> QED
    BY <1>10, <1>11, MovesKeep
-----------------------------------------------------------------------------
\* A thread that starts, or fails to, finds the gate closed behind it; it is
\* the only one that runs unless the overlap is recorded.
LEMMA StartInputKeeps ==
    ASSUME CaptureInv, NEW t \in Threads, StartInput(t)
    PROVE  CaptureInv'
  <1>1. PICK outcome \in {"ready", "late", "failed"} :
          /\ th' = [th EXCEPT ![t].pc = IF outcome = "failed" THEN "none" ELSE "control"]
          /\ context' = InstalledContext(t, outcome)
          /\ inputStop' = IF outcome = "ready" THEN t ELSE None
    BY DEF StartInput
  <1> DEFINE pc == IF outcome = "failed" THEN "none" ELSE "control"
  <1>2. LoopTyped /\ RestTyped
    BY TypeParts DEF CaptureInv
  <1>3. /\ ~stopping /\ stopping' = stopping /\ inputStop = None /\ ~Alive(t) /\ gate' = Closed
        /\ session' = session /\ remoteActive' = FALSE /\ peerHolds' = peerHolds
    BY DEF StartInput, Alive
  <1>4. th[t] = NewThread
    BY <1>3 DEF CaptureInv, FreshPart
  <1>5. /\ th' \in [Threads -> ThreadStates]
        /\ th'[t] = [NewThread EXCEPT !.pc = pc]
        /\ \A u \in Threads : u # t => th'[u] = th[u]
    BY <1>1, <1>2, <1>4 DEF LoopTyped, ThreadStates, Stages
  <1>6. /\ th'[t].pc = pc /\ th'[t].stop = FALSE /\ th'[t].queue = <<>>
        /\ outcome = "failed" => th'[t] = NewThread
    BY <1>5 DEF NewThread
  <1>7. LoopTyped'
    <2>1. Len(<<>>) <= HookQueue
      BY CaptureAssumption
    <2> QED
      BY <1>2, <1>3, <1>5, <1>6, <2>1, GatesTyped DEF LoopTyped
  <1>8. overlapped' \in BOOLEAN
    BY Zenon DEF StartInput
  <1>9. RestTyped'
    BY <1>1, <1>2, <1>3, <1>8 DEF RestTyped, StartInput, InstalledContext, requests, modes, hand
  <1>10. /\ \A u \in Threads : u # t => (Alive(u)' <=> Alive(u))
         /\ Alive(t)' <=> outcome # "failed"
    BY <1>5, <1>6 DEF Alive
  <1>11. FreshPart'
    BY <1>5, <1>6, <1>10 DEF CaptureInv, FreshPart
  <1>12. RuntimePart'
    <2>1. (context # None => Alive(context))'
      BY <1>1, <1>10 DEF InstalledContext, Alive
    <2>2. (inputStop # None => Alive(inputStop) /\ ~th[inputStop].stop)'
      BY <1>1, <1>6 DEF Alive
    <2>3. ASSUME ~overlapped', NEW u \in Threads, Alive(u)' PROVE context' = u
      <3>1. ~Alive(u)
        BY <2>3, Zenon DEF StartInput
      <3>2. u = t /\ outcome # "failed"
        BY <1>10, <2>3, <3>1
      <3> QED
        BY <1>1, <3>2 DEF InstalledContext
    <2> QED
      BY <1>3, <2>1, <2>2, <2>3 DEF RuntimePart
  <1>13. QueuePart'
    BY <1>5, <1>6 DEF CaptureInv, QueuePart, BeforePump
  <1>14. OpenGateIsServed' /\ ForwardInSession'
    BY <1>3, GatesDiffer DEF OpenGateIsServed, ForwardInSession
  <1>15. CaptureTypeOK'
    BY <1>7, <1>9, TypeParts, PTL
  <1> QED
    BY <1>11, <1>12, <1>13, <1>14, <1>15 DEF CaptureInv

\* A stop closes the gate first.
LEMMA StopRequestKeeps ==
    ASSUME CaptureInv, StopRequest
    PROVE  CaptureInv'
  <1>1. LoopTyped /\ RestTyped
    BY TypeParts DEF CaptureInv
  <1>2. /\ inputStop # None /\ gate' = Closed
        /\ UNCHANGED <<th, remoteActive, peerHolds, context, inputStop, overlapped, session>>
    BY DEF StopRequest
  <1>3. LoopTyped'
    BY <1>1, <1>2 DEF LoopTyped, Gates, Closed
  <1>4. RestTyped'
    BY <1>1 DEF RestTyped, StopRequest, requests, modes, hand
  <1>5. CaptureTypeOK'
    BY <1>3, <1>4, TypeParts, PTL
  <1>6. FreshPart' /\ RuntimePart' /\ QueuePart'
    BY <1>2 DEF CaptureInv, FreshPart, RuntimePart, QueuePart, Alive
  <1>7. OpenGateIsServed' /\ ForwardInSession'
    BY <1>2, GatesDiffer DEF OpenGateIsServed, ForwardInSession
  <1> QED
    BY <1>5, <1>6, <1>7 DEF CaptureInv

\* The runtime asks the thread it started to stop and forgets it.
LEMMA StopSignalKeeps ==
    ASSUME CaptureInv, StopSignal
    PROVE  CaptureInv'
  <1> DEFINE t == inputStop
             rec == [th[t] EXCEPT !.stop = TRUE]
  <1>1. LoopTyped /\ RestTyped
    BY TypeParts DEF CaptureInv
  <1>2. /\ t \in Threads /\ Alive(t) /\ stopping' = FALSE /\ inputStop' = None
        /\ remoteActive' = FALSE /\ th' = [th EXCEPT ![t] = rec]
        /\ UNCHANGED <<gate, peerHolds, context, overlapped, session>>
    BY <1>1 DEF StopSignal, CaptureInv, RuntimePart, RestTyped, LoopTyped
  <1> HIDE DEF t
  <1>3. /\ rec \in ThreadStates /\ rec.pc = th[t].pc /\ rec.queue = th[t].queue
        /\ rec.active = th[t].active /\ rec.route = th[t].route /\ rec.stop
    BY <1>1, <1>2 DEF LoopTyped, ThreadStates
  <1> HIDE DEF rec
  <1>4. /\ th' \in [Threads -> ThreadStates]
        /\ th'[t] = rec
        /\ \A u \in Threads : u # t => th'[u] = th[u]
    BY <1>1, <1>2, <1>3 DEF LoopTyped
  <1>5. \A u \in Threads : /\ th'[u].pc = th[u].pc /\ th'[u].queue = th[u].queue
                           /\ th'[u].active = th[u].active /\ th'[u].route = th[u].route
                           /\ th[u].stop => th'[u].stop
    BY <1>3, <1>4
  <1>6. \A u \in Threads : Alive(u)' <=> Alive(u)
    BY <1>5 DEF Alive
  <1>7. LoopTyped'
    BY <1>1, <1>2, <1>4, <1>5 DEF LoopTyped
  <1>8. RestTyped'
    BY <1>1 DEF RestTyped, StopSignal, requests, modes, hand
  <1>9. CaptureTypeOK'
    BY <1>7, <1>8, TypeParts, PTL
  <1>10. FreshPart' /\ QueuePart'
    <2>1. \A u \in Threads : ~Alive(u) => th'[u] = th[u]
      BY <1>2, <1>4
    <2> QED
      BY <1>5, <1>6, <2>1 DEF CaptureInv, FreshPart, QueuePart
  <1>11. RuntimePart'
    <2>1. (context # None => Alive(context))'
      BY <1>1, <1>2, <1>6 DEF CaptureInv, RuntimePart, RestTyped, Alive
    <2>2. (~overlapped => \A u \in Threads : Alive(u) => context = u)'
      BY <1>2, <1>6 DEF CaptureInv, RuntimePart
    <2> QED
      BY <1>2, <2>1, <2>2 DEF RuntimePart
  <1>12. OpenGateIsServed'
    <2> SUFFICES ASSUME NEW u \in Threads, gate = Opened(u), ~overlapped
                 PROVE  /\ context = u /\ Serving(u)' /\ th'[u].active /\ th'[u].route = "active"
                        /\ th'[u].stop
      BY <1>2 DEF OpenGateIsServed, Serving, Alive
    <2>1. context = u /\ Serving(u) /\ th[u].active /\ th[u].route = "active"
      BY DEF CaptureInv, OpenGateIsServed
    <2>2. t = u
      BY <1>2, <2>1 DEF CaptureInv, RuntimePart, Serving
    <2> QED
      BY <1>3, <1>4, <1>5, <1>6, <2>1, <2>2 DEF Serving
  <1>13. ForwardInSession'
    BY <1>2, <1>5 DEF CaptureInv, ForwardInSession
  <1> QED
    BY <1>9, <1>10, <1>11, <1>12, <1>13 DEF CaptureInv

\* The thread that was asked to stop ends; the hooks have no context any more.
LEMMA EndThreadKeeps ==
    ASSUME CaptureInv, NEW t \in Threads, EndThread(t)
    PROVE  CaptureInv'
  <1>1. LoopTyped /\ RestTyped
    BY TypeParts DEF CaptureInv
  <1>2. /\ Alive(t) /\ th[t].stop /\ gate' = Closed /\ context' = None /\ remoteActive' = FALSE
        /\ UNCHANGED <<inputStop, stopping, overlapped, session>>
    BY DEF EndThread, GateAtEnd, Alive
  <1>3. /\ th' \in [Threads -> ThreadStates]
        /\ th'[t] = NewThread
        /\ \A u \in Threads : u # t => th'[u] = th[u]
    <2>1. NewThread \in ThreadStates
      BY DEF NewThread, ThreadStates, Stages, Routes
    <2> QED
      BY <1>1, <2>1 DEF EndThread, LoopTyped
  <1>4. NewThread.pc = "none" /\ NewThread.queue = <<>>
    BY DEF NewThread
  <1>5. peerHolds' \in BOOLEAN
    BY Zenon DEF EndThread
  <1>6. LoopTyped'
    <2>1. Len(<<>>) <= HookQueue
      BY CaptureAssumption
    <2> QED
      BY <1>1, <1>2, <1>3, <1>4, <1>5, <2>1, GatesTyped DEF LoopTyped
  <1>7. RestTyped'
    BY <1>1, <1>2 DEF RestTyped, EndThread, requests, modes, hand
  <1>8. CaptureTypeOK'
    BY <1>6, <1>7, TypeParts, PTL
  <1>9. ~Alive(t)' /\ \A u \in Threads : u # t => (Alive(u)' <=> Alive(u))
    BY <1>3, <1>4 DEF Alive
  <1>10. FreshPart'
    BY <1>3, <1>9 DEF CaptureInv, FreshPart
  <1>11. QueuePart'
    BY <1>3, <1>4 DEF CaptureInv, QueuePart, BeforePump
  <1>12. RuntimePart'
    <2>1. inputStop # t
      BY <1>2, CaptureAssumption DEF CaptureInv, RuntimePart
    <2>2. (inputStop # None => Alive(inputStop) /\ ~th[inputStop].stop)'
      BY <1>1, <1>2, <1>3, <1>9, <2>1 DEF CaptureInv, RuntimePart, RestTyped, Alive
    <2>3. (~overlapped => \A u \in Threads : ~Alive(u))'
      BY <1>2, <1>9 DEF CaptureInv, RuntimePart
    <2> QED
      BY <1>2, <2>2, <2>3 DEF CaptureInv, RuntimePart
  <1>13. OpenGateIsServed' /\ ForwardInSession'
    BY <1>2, GatesDiffer DEF OpenGateIsServed, ForwardInSession
  <1> QED
    BY <1>8, <1>10, <1>11, <1>12, <1>13 DEF CaptureInv
-----------------------------------------------------------------------------
\* Steps of the hooks and of other threads: the loop's own variables stay.
LEMMA OutsideKeeps ==
    ASSUME CaptureInv, RestTyped',
           UNCHANGED <<th, remoteActive, peerHolds, context, inputStop, stopping, overlapped,
                       session>>,
           gate' = gate \/ gate' = Closed
    PROVE  CaptureInv'
  <1>1. LoopTyped
    BY TypeParts DEF CaptureInv
  <1>2. gate' \in Gates
    BY <1>1, ClosedIsGate DEF LoopTyped
  <1>3. LoopTyped'
    BY <1>1, <1>2, Zenon DEF LoopTyped
  <1>4. CaptureTypeOK'
    BY <1>3, TypeParts, PTL
  <1> QED
    BY <1>4, LoopUntouched

\* An offer leaves an action in the slot, or what was there.
LEMMA OfferTyped ==
    ASSUME RestTyped, NEW a \in Actions, NEW pending \in Actions \cup {None}, NEW free \in BOOLEAN
    PROVE  Offered(pending, a, free) \in Actions \cup {None}
  BY DEF Offered

\* The hooks count their threads.
LEMMA CopiesIsNat == Copies \in Nat
  <1>1. IsFiniteSet({t \in Threads : Serving(t)})
    BY FS_Subset, CaptureAssumption
  <1> QED
    BY <1>1, FS_CardinalityType DEF Copies

\* What the hooks put into the queue of their context fits, is of the open
\* session, and meets no thread on its way to the pump; nothing takes it from
\* the queue of a stuck one.
LEMMA QueuedKeeps ==
    ASSUME CaptureInv, NEW kind \in Kinds, NEW n \in 0..Room, context # None, Pumping,
           th' = Queued(kind, n), gate' = gate \/ gate' = Closed, RestTyped',
           UNCHANGED <<remoteActive, peerHolds, context, inputStop, stopping, overlapped, session>>
    PROVE  CaptureInv'
  <1> DEFINE q == th[context].queue
             new == [i \in 1..n |-> [kind |-> kind, session |-> session]]
             rec == [th[context] EXCEPT !.queue = q \o new]
  <1>1. LoopTyped /\ RestTyped
    BY TypeParts DEF CaptureInv
  <1>2. /\ context \in Threads /\ Alive(context) /\ th[context].pc \notin BeforePump
        /\ th[context].pc \in Stages
    BY <1>1 DEF RestTyped, LoopTyped, ThreadStates, CaptureInv, RuntimePart, Pumping, Serving,
                BeforePump
  <1>3. q \in Seq(Events) /\ Len(q) \in Nat /\ HookQueue \in Nat /\ Room = HookQueue - Len(q)
    BY <1>1, <1>2, CaptureAssumption DEF LoopTyped, ThreadStates, Room
  <1>4. n \in Nat /\ Len(q) + n <= HookQueue
    BY <1>3
  <1>5. new \in Seq(Events) /\ Len(new) = n
    <2>1. [kind |-> kind, session |-> session] \in Events
      BY <1>1 DEF RestTyped, Events
    <2> QED
      BY <1>4, <2>1
  <1>6. \A i \in 1..n : new[i].session = session
    OBVIOUS
  <1>7. th' = [th EXCEPT ![context] = rec]
    BY DEF Queued
  <1> HIDE DEF new, q
  <1>8. /\ q \o new \in Seq(Events) /\ Len(q \o new) = Len(q) + n
        /\ \A i \in 1..Len(q) : (q \o new)[i] = q[i]
        /\ \A i \in Len(q) + 1..Len(q) + n : (q \o new)[i] = new[i - Len(q)]
    BY <1>3, <1>4, <1>5
  <1>9. /\ rec \in ThreadStates /\ rec.pc = th[context].pc /\ rec.stop = th[context].stop
        /\ rec.active = th[context].active /\ rec.route = th[context].route
        /\ rec.queue = q \o new
    BY <1>1, <1>2, <1>8 DEF LoopTyped, ThreadStates
  <1> HIDE DEF rec
  <1>10. /\ th' \in [Threads -> ThreadStates]
         /\ th'[context] = rec
         /\ \A u \in Threads : u # context => th'[u] = th[u]
    BY <1>1, <1>2, <1>7, <1>9 DEF LoopTyped
  <1>11. \A u \in Threads : /\ th'[u].pc = th[u].pc /\ th'[u].stop = th[u].stop
                            /\ th'[u].active = th[u].active /\ th'[u].route = th[u].route
    BY <1>2, <1>9, <1>10
  <1>12. \A u \in Threads : Alive(u)' <=> Alive(u)
    BY <1>11 DEF Alive
  <1>13. LoopTyped'
    <2>1. gate' \in Gates
      BY <1>1, ClosedIsGate DEF LoopTyped
    <2>2. \A u \in Threads : Len(th'[u].queue) <= HookQueue
      BY <1>1, <1>4, <1>8, <1>9, <1>10 DEF LoopTyped
    <2> QED
      BY <1>1, <1>10, <2>1, <2>2, Zenon DEF LoopTyped
  <1>14. CaptureTypeOK'
    BY <1>13, TypeParts, PTL
  <1>15. FreshPart'
    BY <1>2, <1>10, <1>12 DEF CaptureInv, FreshPart
  <1>16. QueuePart'
    BY <1>2, <1>9, <1>10 DEF CaptureInv, QueuePart, BeforePump
  <1>17. RuntimePart'
    <2>1. (context # None => Alive(context))'
      BY <1>2, <1>12 DEF Alive
    <2>2. (inputStop # None => Alive(inputStop) /\ ~th[inputStop].stop)'
      BY <1>1, <1>11 DEF CaptureInv, RuntimePart, RestTyped, Alive
    <2>3. (~overlapped => \A u \in Threads : Alive(u) => context = u)'
      BY <1>12 DEF CaptureInv, RuntimePart
    <2> QED
      BY <2>1, <2>2, <2>3 DEF CaptureInv, RuntimePart
  <1>18. OpenGateIsServed'
    <2> SUFFICES ASSUME NEW u \in Threads, gate' = Opened(u), ~overlapped
                 PROVE  /\ context = u /\ Serving(u)' /\ th'[u].active /\ th'[u].route = "active"
                        /\ remoteActive \/ th'[u].stop
      BY DEF OpenGateIsServed, Serving, Alive
    <2>1. gate = Opened(u)
      BY GatesDiffer
    <2> QED
      BY <1>11, <1>12, <2>1 DEF CaptureInv, OpenGateIsServed, Serving
  <1>19. ForwardInSession'
    <2> SUFFICES ASSUME NEW u \in Threads, gate' = Opened(u), NEW i \in 1..Len(th'[u].queue),
                        th'[u].queue[i].kind # "move"
                 PROVE  th'[u].queue[i].session = session
      BY DEF ForwardInSession
    <2>1. gate = Opened(u)
      BY GatesDiffer
    <2>2. \A j \in 1..Len(th[u].queue) :
             th[u].queue[j].kind # "move" => th[u].queue[j].session = session
      BY <2>1 DEF CaptureInv, ForwardInSession
    <2>3. CASE u # context
      BY <1>10, <2>2, <2>3
    <2>4. CASE u = context
      <3>1. i \in 1..Len(q) + n /\ th'[u].queue[i] = (q \o new)[i]
        BY <1>8, <1>9, <1>10, <2>4
      <3>2. CASE i <= Len(q)
        BY <1>3, <1>8, <2>2, <2>4, <3>1, <3>2 DEF q
      <3>3. CASE ~(i <= Len(q))
        <4>1. i - Len(q) \in 1..n /\ i \in Len(q) + 1..Len(q) + n
          BY <1>3, <1>4, <3>1, <3>3
        <4> QED
          BY <1>6, <1>8, <3>1, <4>1 DEF new
      <3> QED
        BY <3>2, <3>3
    <2> QED
      BY <2>3, <2>4
  <1> QED
    BY <1>14, <1>15, <1>16, <1>17, <1>18, <1>19 DEF CaptureInv

\* A hook event other than a control hotkey: passed on, swallowed into the
\* queue, or met by a full queue, which closes the gate.
LEMMA HookEventKeeps ==
    ASSUME CaptureInv, NEW kind \in Kinds, NEW swallowed \in BOOLEAN, Pumping,
           HookEvent(kind, swallowed), slot' \in Actions \cup {None} => RestTyped',
           UNCHANGED <<remoteActive, peerHolds, context, inputStop, stopping, overlapped, session>>
    PROVE  CaptureInv'
  <1>1. LoopTyped /\ RestTyped
    BY TypeParts DEF CaptureInv
  <1>2. ASSUME OverrideAndOffer PROVE gate' = Closed /\ RestTyped'
    <2>1. PICK free \in BOOLEAN : slot' = Offered(slot, "GoLocal", free)
      BY <1>2 DEF OverrideAndOffer, Offer
    <2>2. slot' \in Actions \cup {None}
      BY <1>1, <2>1, OfferTyped DEF RestTyped, Actions
    <2> QED
      BY <1>2, <2>2 DEF OverrideAndOffer
  <1>3. ASSUME UNCHANGED <<gate, slot>> PROVE RestTyped'
    BY <1>1, <1>3 DEF RestTyped
  <1>4. ASSUME UNCHANGED th, UNCHANGED <<gate, slot>> \/ OverrideAndOffer PROVE CaptureInv'
    BY <1>2, <1>3, <1>4, OutsideKeeps
  <1>5. ASSUME HookSees, NEW n \in 0..Room, th' = Queued(kind, n),
               UNCHANGED <<gate, slot>> \/ OverrideAndOffer
        PROVE  CaptureInv'
    BY <1>2, <1>3, <1>5, QueuedKeeps DEF HookSees
  <1>6. ASSUME HookSees PROVE Room \in Nat
    <2>1. context \in Threads
      BY <1>1, <1>6 DEF HookSees, RestTyped
    <2> QED
      BY <1>1, <2>1, CaptureAssumption DEF LoopTyped, ThreadStates, Room
  <1>7. CASE HookSees /\ desktopCache /\ ~gate.open
    <2> DEFINE fits == IF Copies <= Room THEN Copies ELSE Room
    <2>1. fits \in 0..Room
      BY <1>6, <1>7, CopiesIsNat
    <2>2. \/ UNCHANGED <<th, gate, slot>>
          \/ th' = Queued(kind, fits) /\ (UNCHANGED <<gate, slot>> \/ OverrideAndOffer)
      BY <1>7 DEF HookEvent, FullQueue
    <2> HIDE DEF fits
    <2> QED
      BY <1>4, <1>5, <1>7, <2>1, <2>2
  <1>8. CASE HookSees /\ desktopCache /\ gate.open
    <2>1. \/ Room > 0 /\ th' = Queued(kind, 1) /\ UNCHANGED <<gate, slot>>
          \/ OverrideAndOffer /\ UNCHANGED th
      BY <1>8 DEF HookEvent, FullQueue
    <2>2. Room > 0 => 1 \in 0..Room
      BY <1>6, <1>8
    <2> QED
      BY <1>4, <1>5, <1>8, <2>1, <2>2
  <1>9. CASE ~HookSees \/ ~desktopCache
    <2>1. UNCHANGED th /\ (UNCHANGED <<gate, slot>> \/ OverrideAndOffer)
      BY <1>9 DEF HookEvent
    <2> QED
      BY <1>4, <2>1
  <1> QED
    BY <1>7, <1>8, <1>9
-----------------------------------------------------------------------------
\* The ordinary key goes to its peer, to this machine, or to both.
LEMMA KeyKeeps ==
    ASSUME CaptureInv, NEW down \in BOOLEAN, Key(down)
    PROVE  CaptureInv'
  <1>1. LoopTyped /\ RestTyped
    BY TypeParts DEF CaptureInv
  <1>2. PICK swallowed \in BOOLEAN :
          /\ IF Hooked THEN HookEvent(IF down THEN "down" ELSE "up", swallowed)
             ELSE ~swallowed /\ UNCHANGED <<th, gate, slot>>
          /\ winHolds' = IF swallowed \/ ~desktop THEN winHolds ELSE down
    BY DEF Key
  <1>3. UNCHANGED <<remoteActive, peerHolds, context, inputStop, stopping, overlapped, session,
                    switchRequest, gameMode, saving, desktop, desktopCache, overrides, features,
                    hotDown, dispatched, deduper>>
    BY DEF Key, runtime, modes
  <1>4. keyDown' \in BOOLEAN /\ winHolds' \in BOOLEAN
    BY <1>1, <1>2 DEF Key, RestTyped
  <1>5. slot' \in Actions \cup {None} => RestTyped'
    BY <1>1, <1>3, <1>4, Zenon DEF RestTyped
  <1>6. CASE Hooked
    <2>1. (IF down THEN "down" ELSE "up") \in Kinds
      BY DEF Kinds
    <2> QED
      BY <1>2, <1>3, <1>5, <1>6, <2>1, HookEventKeeps DEF Hooked
  <1>7. CASE ~Hooked
    <2>1. RestTyped'
      BY <1>1, <1>2, <1>5, <1>7 DEF RestTyped
    <2> QED
      BY <1>2, <1>3, <1>7, <2>1, OutsideKeeps
  <1> QED
    BY <1>6, <1>7

\* The pointer moves.
LEMMA MoveKeeps ==
    ASSUME CaptureInv, Move
    PROVE  CaptureInv'
  <1>1. LoopTyped /\ RestTyped
    BY TypeParts DEF CaptureInv
  <1>2. PICK swallowed \in BOOLEAN : HookEvent("move", swallowed)
    BY DEF Move
  <1>3. /\ Pumping
        /\ UNCHANGED <<remoteActive, peerHolds, context, inputStop, stopping, overlapped, session>>
    BY DEF Move, runtime, Hooked
  <1>4. slot' \in Actions \cup {None} => RestTyped'
    BY <1>1 DEF RestTyped, Move, runtime, modes, hand
  <1>5. "move" \in Kinds
    BY DEF Kinds
  <1> QED
    BY <1>2, <1>3, <1>4, <1>5, HookEventKeeps

\* A switch hotkey is swallowed, or requests a switch.
LEMMA SwitchHotkeyKeeps ==
    ASSUME CaptureInv, SwitchHotkey
    PROVE  CaptureInv'
  <1>1. LoopTyped /\ RestTyped
    BY TypeParts DEF CaptureInv
  <1>2. PICK swallowed \in BOOLEAN :
          /\ IF Hooked THEN HookEvent("switch", swallowed)
             ELSE ~swallowed /\ UNCHANGED <<th, gate, slot>>
          /\ switchRequest' = (switchRequest \/ ~swallowed)
    BY DEF SwitchHotkey
  <1>3. UNCHANGED <<remoteActive, peerHolds, context, inputStop, stopping, overlapped, session>>
    BY DEF SwitchHotkey, runtime
  <1>4. switchRequest' \in BOOLEAN
    BY <1>2, Zenon
  <1>5. slot' \in Actions \cup {None} => RestTyped'
    BY <1>1, <1>4 DEF RestTyped, SwitchHotkey, runtime, modes, hand
  <1>6. CASE Hooked
    <2>1. "switch" \in Kinds
      BY DEF Kinds
    <2> QED
      BY <1>2, <1>3, <1>5, <1>6, <2>1, HookEventKeeps DEF Hooked
  <1>7. CASE ~Hooked
    <2>1. RestTyped'
      BY <1>1, <1>2, <1>5, <1>7 DEF RestTyped
    <2> QED
      BY <1>2, <1>3, <1>7, <2>1, OutsideKeeps
  <1> QED
    BY <1>6, <1>7

\* A dispatched action closes the gate if it is a return, and fills the slot.
LEMMA DispatchTyped ==
    ASSUME RestTyped, NEW a \in Actions, NEW before \in Nat, Dispatch(a, before)
    PROVE  /\ deduper' \subseteq Actions /\ slot' \in Actions \cup {None}
           /\ dispatched' \in [Actions -> Nat]
           /\ gate' = gate \/ gate' = Closed
  <1>1. slot \in Actions \cup {None} /\ deduper \subseteq Actions
        /\ dispatched \in [Actions -> Nat]
    BY DEF RestTyped
  <1>2. CASE Accepts(a)
    <2>1. PICK free \in BOOLEAN : slot' = Offered(slot, a, free)
      BY <1>2 DEF Dispatch, Offer
    <2>2. slot' \in Actions \cup {None}
      BY <1>1, <2>1, OfferTyped
    <2> QED
      BY <1>1, <1>2, <2>2 DEF Dispatch
  <1>3. CASE ~Accepts(a)
    BY <1>1, <1>3 DEF Dispatch
  <1> QED
    BY <1>2, <1>3

\* A control hotkey goes down.
LEMMA HotPressKeeps ==
    ASSUME CaptureInv, NEW a \in Actions, HotPress(a)
    PROVE  CaptureInv'
  <1>1. LoopTyped /\ RestTyped
    BY TypeParts DEF CaptureInv
  <1>2. UNCHANGED <<th, remoteActive, peerHolds, context, inputStop, stopping, overlapped, session>>
    BY DEF HotPress, runtime
  <1>3. hotDown' \in [Actions -> {"up", "hook", "system"}]
    BY <1>1 DEF HotPress, RestTyped
  <1>4. /\ deduper' \subseteq Actions /\ slot' \in Actions \cup {None}
        /\ dispatched' \in [Actions -> Nat]
        /\ gate' = gate \/ gate' = Closed
    <2>1. CASE OverrideThenDispatch(a)
      <3>1. PICK first, second \in BOOLEAN :
              slot' = IF Accepts(a) THEN Offered(Offered(slot, "GoLocal", first), a, second)
                      ELSE Offered(slot, "GoLocal", first)
        BY <2>1 DEF OverrideThenDispatch
      <3>2. Offered(slot, "GoLocal", first) \in Actions \cup {None}
        BY <1>1, OfferTyped DEF RestTyped, Actions
      <3>3. slot' \in Actions \cup {None}
        BY <1>1, <3>1, <3>2, OfferTyped
      <3> QED
        BY <1>1, <2>1, <3>3 DEF OverrideThenDispatch, RestTyped
    <2>2. CASE Dispatch(a, 0)
      BY <1>1, <2>2, DispatchTyped
    <2> QED
      BY <2>1, <2>2 DEF HotPress
  <1>5. RestTyped'
    BY <1>1, <1>3, <1>4 DEF RestTyped, HotPress, runtime, modes
  <1> QED
    BY <1>2, <1>4, <1>5, OutsideKeeps

\* A control hotkey repeats.
LEMMA HotRepeatKeeps ==
    ASSUME CaptureInv, NEW a \in Actions, HotRepeat(a)
    PROVE  CaptureInv'
  <1>1. LoopTyped /\ RestTyped
    BY TypeParts DEF CaptureInv
  <1>2. UNCHANGED <<th, remoteActive, peerHolds, context, inputStop, stopping, overlapped, session>>
    BY DEF HotRepeat, runtime
  <1>3. dispatched[a] \in Nat /\ Dispatch(a, dispatched[a])
    BY <1>1 DEF RestTyped, HotRepeat
  <1>4. /\ deduper' \subseteq Actions /\ slot' \in Actions \cup {None}
        /\ dispatched' \in [Actions -> Nat]
        /\ gate' = gate \/ gate' = Closed
    BY <1>1, <1>3, DispatchTyped
  <1>5. RestTyped'
    BY <1>1, <1>4 DEF RestTyped, HotRepeat, runtime, modes
  <1> QED
    BY <1>2, <1>4, <1>5, OutsideKeeps

\* A control hotkey goes up.
LEMMA HotReleaseKeeps ==
    ASSUME CaptureInv, NEW a \in Actions, HotRelease(a)
    PROVE  CaptureInv'
  <1>1. LoopTyped /\ RestTyped
    BY TypeParts DEF CaptureInv
  <1>2. UNCHANGED <<th, remoteActive, peerHolds, context, inputStop, stopping, overlapped, session>>
    BY DEF HotRelease, runtime
  <1>3. /\ hotDown' \in [Actions -> {"up", "hook", "system"}]
        /\ deduper' \subseteq Actions
    BY <1>1 DEF HotRelease, RestTyped
  <1>4. slot' \in Actions \cup {None} /\ (gate' = gate \/ gate' = Closed)
    <2>1. ASSUME OverrideAndOffer PROVE slot' \in Actions \cup {None} /\ gate' = Closed
      BY <1>1, <2>1, OfferTyped DEF OverrideAndOffer, Offer, RestTyped, Actions
    <2> QED
      BY <1>1, <2>1 DEF HotRelease, RestTyped
  <1>5. RestTyped'
    BY <1>1, <1>3, <1>4 DEF RestTyped, HotRelease, runtime, modes
  <1> QED
    BY <1>2, <1>4, <1>5, OutsideKeeps

\* The tray, the system's shortcut for the return, and game mode.
LEMMA RequestEmergencyKeeps ==
    ASSUME CaptureInv, RequestEmergency
    PROVE  CaptureInv'
  <1>1. LoopTyped /\ RestTyped
    BY TypeParts DEF CaptureInv
  <1>2. slot' \in Actions \cup {None}
    BY <1>1, OfferTyped DEF RequestEmergency, Offer, RestTyped, Actions
  <1>3. overrides' \in 0..MaxOverrides
    BY <1>1, CaptureAssumption DEF RequestEmergency, RestTyped
  <1>4. RestTyped'
    BY <1>1, <1>2, <1>3 DEF RestTyped, RequestEmergency, runtime, hand
  <1>5. /\ gate' = Closed
        /\ UNCHANGED <<th, remoteActive, peerHolds, context, inputStop, stopping, overlapped, session>>
    BY DEF RequestEmergency, runtime
  <1> QED
    BY <1>4, <1>5, OutsideKeeps

\* Saving the game mode, and its override of the router, keep the invariant.
LEMMA GameModeKeeps ==
    ASSUME CaptureInv, GameModeOverrides \/ \E enabled \in BOOLEAN : SaveGameMode(enabled)
    PROVE  CaptureInv'
  <1>1. LoopTyped /\ RestTyped
    BY TypeParts DEF CaptureInv
  <1>2. ASSUME NEW enabled \in BOOLEAN, SaveGameMode(enabled) PROVE CaptureInv'
    <2>1. gameMode' \in BOOLEAN /\ saving' \in BOOLEAN
      BY <1>2 DEF SaveGameMode
    <2>2. overrides' \in 0..MaxOverrides
      BY <1>1, <1>2, CaptureAssumption DEF SaveGameMode, RestTyped
    <2>3. RestTyped'
      BY <1>1, <1>2, <2>1, <2>2 DEF RestTyped, SaveGameMode, runtime, requests, hand
    <2>4. UNCHANGED <<th, gate, remoteActive, peerHolds, context, inputStop, stopping, overlapped,
                      session>>
      BY <1>2 DEF SaveGameMode, loop, runtime
    <2> QED
      BY <2>3, <2>4, OutsideKeeps
  <1>3. ASSUME GameModeOverrides PROVE CaptureInv'
    <2>1. slot' \in Actions \cup {None}
      BY <1>1, <1>3, OfferTyped DEF GameModeOverrides, OverrideAndOffer, Offer, RestTyped, Actions
    <2>2. RestTyped'
      BY <1>1, <1>3, <2>1 DEF RestTyped, GameModeOverrides, runtime, hand
    <2>3. /\ gate' = Closed
          /\ UNCHANGED <<th, remoteActive, peerHolds, context, inputStop, stopping, overlapped,
                         session>>
      BY <1>3 DEF GameModeOverrides, OverrideAndOffer, runtime
    <2> QED
      BY <2>2, <2>3, OutsideKeeps
  <1> QED
    BY <1>2, <1>3

\* The secure desktop comes and goes.
LEMMA SwitchDesktopKeeps ==
    ASSUME CaptureInv, SwitchDesktop
    PROVE  CaptureInv'
  <1>1. LoopTyped /\ RestTyped
    BY TypeParts DEF CaptureInv
  <1>2. desktop' \in BOOLEAN
    BY Zenon DEF SwitchDesktop
  <1>3. RestTyped'
    BY <1>1, <1>2 DEF RestTyped, SwitchDesktop, runtime, requests, hand
  <1>4. UNCHANGED <<th, gate, remoteActive, peerHolds, context, inputStop, stopping, overlapped,
                    session>>
    BY DEF SwitchDesktop, loop, runtime
  <1> QED
    BY <1>3, <1>4, OutsideKeeps
-----------------------------------------------------------------------------
\* No thread runs at first, and the gate is closed.
LEMMA InitCaptureInv == CaptureInit => CaptureInv
  <1> SUFFICES ASSUME CaptureInit PROVE CaptureInv
    OBVIOUS
  <1>1. /\ th \in [Threads -> ThreadStates]
        /\ \A t \in Threads : th[t] = NewThread /\ th[t].queue = <<>> /\ ~Alive(t)
    BY DEF CaptureInit, NewThread, ThreadStates, Stages, Routes, Alive
  <1>2. LoopTyped
    <2>1. Len(<<>>) <= HookQueue
      BY CaptureAssumption
    <2> QED
      BY <1>1, <2>1, ClosedIsGate DEF LoopTyped, CaptureInit
  <1>3. RestTyped
    <2>1. features \subseteq CaptureFeatures
      BY CaptureAssumption DEF CaptureInit
    <2>2. session \in 0..MaxSessions /\ overrides \in 0..MaxOverrides
      BY CaptureAssumption DEF CaptureInit
    <2>3. hotDown \in [Actions -> {"up", "hook", "system"}] /\ dispatched \in [Actions -> Nat]
      BY DEF CaptureInit
    <2> QED
      BY <2>1, <2>2, <2>3 DEF RestTyped, CaptureInit
  <1>4. FreshPart /\ RuntimePart /\ QueuePart
    BY <1>1 DEF CaptureInit, FreshPart, RuntimePart, QueuePart
  <1>5. OpenGateIsServed /\ ForwardInSession
    BY GatesDiffer DEF CaptureInit, OpenGateIsServed, ForwardInSession
  <1> QED
    BY <1>2, <1>3, <1>4, <1>5, TypeParts DEF CaptureInv

\* Every step of the threads, the hooks and the runtime keeps the invariant.
LEMMA StepCaptureInv == CaptureInv /\ [CaptureNext]_captureVars => CaptureInv'
  <1> SUFFICES ASSUME CaptureInv, [CaptureNext]_captureVars PROVE CaptureInv'
    OBVIOUS
  <1>1. ASSUME NEW t \in Threads, StartInput(t) PROVE CaptureInv'
    BY <1>1, StartInputKeeps
  <1>2. ASSUME NEW t \in Threads, LoopStep(t) PROVE CaptureInv'
    BY <1>2, DrainControlKeeps, ProcessEventKeeps, EventsDrainedKeeps, CheckDesktopKeeps,
       DrainSwitchKeeps, PollClientKeeps, PumpEndsKeeps, EndThreadKeeps DEF LoopStep
  <1>3. CASE StopRequest \/ StopSignal
    BY <1>3, StopRequestKeeps, StopSignalKeeps
  <1>4. ASSUME NEW down \in BOOLEAN, Key(down) PROVE CaptureInv'
    BY <1>4, KeyKeeps
  <1>5. CASE Move \/ SwitchHotkey
    BY <1>5, MoveKeeps, SwitchHotkeyKeeps
  <1>6. ASSUME NEW a \in Actions, HotPress(a) \/ HotRepeat(a) \/ HotRelease(a) PROVE CaptureInv'
    BY <1>6, HotPressKeeps, HotRepeatKeeps, HotReleaseKeeps
  <1>7. CASE \/ RequestEmergency \/ GameModeOverrides \/ SwitchDesktop
             \/ \E enabled \in BOOLEAN : SaveGameMode(enabled)
    BY <1>7, RequestEmergencyKeeps, GameModeKeeps, SwitchDesktopKeeps
  <1>8. CASE UNCHANGED captureVars
    <2>1. UNCHANGED <<th, gate, remoteActive, peerHolds, context, inputStop, stopping, overlapped,
                      session>>
      BY <1>8 DEF captureVars, loop, runtime
    <2>2. RestTyped
      BY TypeParts DEF CaptureInv
    <2>3. RestTyped'
      BY <1>8, <2>2 DEF RestTyped, captureVars, runtime, requests, modes, hand
    <2> QED
      BY <2>1, <2>3, OutsideKeeps
  <1> QED
    BY <1>1, <1>2, <1>3, <1>4, <1>5, <1>6, <1>7, <1>8 DEF CaptureNext

\* For any number of capture threads, keys, sessions and places in the queue:
\* what the hooks swallow has a running thread with a target that serves it and
\* is not stuck, and the hooks of a runtime that reported itself ready use its
\* context (start_platform_capture, activate_capture, the stop path).
THEOREM HooksServed == CaptureSpec => []HooksAreServed
  <1>1. CaptureInv => HooksAreServed
    <2> SUFFICES ASSUME CaptureInv PROVE HooksAreServed
      OBVIOUS
    <2>1. ReadyIsHooked
      <3>1. context # None => Alive(context)
        BY DEF CaptureInv, RuntimePart
      <3>2. ASSUME inputStop # None, ~overlapped PROVE context = inputStop
        <4>1. inputStop \in Threads /\ Alive(inputStop)
          BY <3>2 DEF CaptureInv, CaptureTypeOK, RuntimePart
        <4> QED
          BY <3>2, <4>1 DEF CaptureInv, RuntimePart
      <3> QED
        BY <3>1, <3>2 DEF ReadyIsHooked
    <2> QED
      BY <2>1 DEF CaptureInv, HooksAreServed
  <1> QED
    BY <1>1, InitCaptureInv, StepCaptureInv, PTL DEF CaptureSpec

\* A key event or switch hotkey swallowed in one session is never forwarded in
\* another, even while capture threads overlap (the order of the loop in
\* start_platform_capture: the queue is emptied before the client is polled,
\* and the hooks run only in the message pump).
THEOREM EventsStayInSession == CaptureSpec => []ForwardInSession
  <1>1. CaptureInv => ForwardInSession
    BY DEF CaptureInv
  <1> QED
    BY <1>1, InitCaptureInv, StepCaptureInv, PTL DEF CaptureSpec
-----------------------------------------------------------------------------
\* Without the desktop no handoff is reserved or open.
DesktopPart == ~desktopCache => gate = Closed

\* An open gate has an owner.
OwnerPart == gate.open => gate.owner # None

\* A peer that holds the key is the peer of an active route.
PeerPart == peerHolds /\ ~overlapped => context # None /\ th[context].route = "active"

\* Only game mode that was switched on is being saved.
SavingPart == saving => gameMode

\* Between the commit and its answer a key that goes down goes to this machine.
CommitPart ==
    \A t \in Threads :
        gate = Reserved(t) /\ th[t].route = "committed" /\ Serving(t) /\ ~overlapped /\ desktop
            => (keyDown => winHolds)

\* In a session the peer is told what the hand does; in a session that was
\* opened while game mode is on, nothing.
AgreePart ==
    \A t \in Threads : gate = Opened(t) /\ ~overlapped /\ desktop =>
        /\ ~gameMode => (Told(t) => keyDown) /\ (keyDown /\ ~winHolds => Told(t))
        /\ gameMode /\ ~saving => ~Told(t) /\ (keyDown => winHolds)

\* Of the actions of one trigger key one is down at a time, and one that the
\* hook saw is in the deduper.
HotPart ==
    /\ OncePerPress
    /\ \A a \in Actions : hotDown[a] = "hook" => a \in deduper
    /\ \A a, b \in Actions :
         a # b /\ KeyOf[a] = KeyOf[b] => hotDown[a] = "up" \/ hotDown[b] = "up"

HandInv ==
    /\ CaptureInv
    /\ DesktopPart
    /\ OwnerPart
    /\ PeerPart
    /\ SavingPart
    /\ CommitPart
    /\ AgreePart
    /\ HotPart
-----------------------------------------------------------------------------
\* Processing the first event of a queue, and telling the peer if it is a key
\* event, leaves what the peer will be told.
LEMMA ToldByTail ==
    ASSUME NEW q \in Seq(Events), q # <<>>, NEW held
    PROVE  ToldBy(Tail(q), IF IsKey(Head(q)) THEN Head(q).kind = "down" ELSE held)
             <=> ToldBy(q, held)
  <1> DEFINE T == Tail(q)
             n == Len(q)
             now == IF IsKey(Head(q)) THEN Head(q).kind = "down" ELSE held
  <1>1. n \in Nat \ {0} /\ Len(T) = n - 1 /\ Head(q) = q[1]
        /\ \A i \in 1..n - 1 : T[i] = q[i + 1]
    <2>1. n \in Nat /\ n # 0
      OBVIOUS
    <2> QED
      BY <2>1, HeadTailProperties
  <1> HIDE DEF T, n
  <1>2. \A i \in 1..n : NoKeyIn(T, i) <=> NoKeyIn(q, i + 1)
    <2> SUFFICES ASSUME NEW i \in 1..n PROVE NoKeyIn(T, i) <=> NoKeyIn(q, i + 1)
      OBVIOUS
    <2>1. ASSUME NoKeyIn(T, i), NEW j \in i + 1..n PROVE ~IsKey(q[j])
      <3>1. j - 1 \in i..n - 1 /\ j - 1 \in 1..n - 1 /\ (j - 1) + 1 = j
        BY <1>1
      <3>2. ~IsKey(T[j - 1])
        BY <1>1, <2>1, <3>1 DEF NoKeyIn
      <3>3. T[j - 1] = q[j]
        BY <1>1, <3>1
      <3> QED
        BY <3>2, <3>3
    <2>2. ASSUME NoKeyIn(q, i + 1), NEW j \in i..n - 1 PROVE ~IsKey(T[j])
      <3>1. j + 1 \in i + 1..n /\ j \in 1..n - 1
        BY <1>1
      <3>2. ~IsKey(q[j + 1])
        BY <2>2, <3>1 DEF NoKeyIn, n
      <3> QED
        BY <1>1, <3>1, <3>2
    <2> QED
      BY <1>1, <2>1, <2>2 DEF NoKeyIn, n
  <1>3. NoKeyIn(q, 1) <=> ~IsKey(q[1]) /\ NoKeyIn(T, 1)
    <2>1. 1 \in 1..n /\ 2 = 1 + 1
      BY <1>1
    <2>2. NoKeyIn(q, 1) <=> ~IsKey(q[1]) /\ NoKeyIn(q, 2)
      <3>1. \A j \in 1..n : j = 1 \/ j \in 2..n
        BY <1>1
      <3>2. \A j \in 2..n : j \in 1..n
        BY <1>1
      <3> QED
        BY <2>1, <3>1, <3>2 DEF NoKeyIn, n
    <2> QED
      BY <1>2, <2>1, <2>2
  <1>4. q[1].kind = "down" => IsKey(q[1])
    BY DEF IsKey
  <1>5. (\E i \in 1..n : q[i].kind = "down" /\ NoKeyIn(q, i + 1))
        <=> \/ q[1].kind = "down" /\ NoKeyIn(T, 1)
            \/ \E i \in 1..n - 1 : T[i].kind = "down" /\ NoKeyIn(T, i + 1)
    <2>1. ASSUME NEW i \in 1..n, q[i].kind = "down", NoKeyIn(q, i + 1), i # 1
          PROVE  \E k \in 1..n - 1 : T[k].kind = "down" /\ NoKeyIn(T, k + 1)
      <3>1. i - 1 \in 1..n - 1 /\ (i - 1) + 1 = i
        BY <1>1, <2>1
      <3>2. T[i - 1] = q[i]
        BY <1>1, <3>1
      <3>3. NoKeyIn(T, i)
        BY <1>2, <2>1
      <3> QED
        BY <2>1, <3>1, <3>2, <3>3
    <2>2. ASSUME NEW k \in 1..n - 1, T[k].kind = "down", NoKeyIn(T, k + 1)
          PROVE  \E i \in 1..n : q[i].kind = "down" /\ NoKeyIn(q, i + 1)
      <3>1. k + 1 \in 1..n
        BY <1>1
      <3>2. q[k + 1].kind = "down" /\ NoKeyIn(q, (k + 1) + 1)
        BY <1>1, <1>2, <2>2, <3>1
      <3> QED
        BY <3>1, <3>2
    <2>3. 1 \in 1..n /\ (NoKeyIn(q, 1 + 1) <=> NoKeyIn(T, 1))
      BY <1>1, <1>2
    <2> QED
      BY <2>1, <2>2, <2>3
  <1>6. ToldBy(q, held) <=> \/ held /\ ~IsKey(q[1]) /\ NoKeyIn(T, 1)
                            \/ q[1].kind = "down" /\ NoKeyIn(T, 1)
                            \/ \E i \in 1..n - 1 : T[i].kind = "down" /\ NoKeyIn(T, i + 1)
    BY <1>3, <1>5 DEF ToldBy, n
  <1>7. ToldBy(T, now) <=> \/ now /\ NoKeyIn(T, 1)
                           \/ \E i \in 1..n - 1 : T[i].kind = "down" /\ NoKeyIn(T, i + 1)
    BY <1>1 DEF ToldBy
  <1> QED
    BY <1>1, <1>4, <1>6, <1>7 DEF T

\* Queueing moves and switch hotkeys leaves what the peer will be told; a key
\* event decides it.
LEMMA ToldByAppend ==
    ASSUME NEW q \in Seq(Events), NEW new \in Seq(Events), NEW kind \in Kinds, NEW held,
           \A i \in 1..Len(new) : new[i].kind = kind
    PROVE  /\ kind \notin {"down", "up"} => (ToldBy(q \o new, held) <=> ToldBy(q, held))
           /\ kind \in {"down", "up"} /\ Len(new) = 1 =>
                (ToldBy(q \o new, held) <=> kind = "down")
  <1> DEFINE n == Len(q)
             m == Len(new)
             A == q \o new
  <1>1. /\ n \in Nat /\ m \in Nat /\ Len(A) = n + m
        /\ \A i \in 1..n : A[i] = q[i]
        /\ \A i \in n + 1..n + m : A[i].kind = kind
    <2>1. n \in Nat /\ m \in Nat /\ Len(A) = n + m
      BY ConcatProperties
    <2>2. \A i \in 1..n : A[i] = q[i]
      OBVIOUS
    <2>3. ASSUME NEW i \in n + 1..n + m PROVE A[i].kind = kind
      <3>1. i - n \in 1..m /\ A[i] = new[i - n]
        BY <2>1
      <3> QED
        BY <3>1
    <2> QED
      BY <2>1, <2>2, <2>3
  <1> HIDE DEF A, n, m
  <1>2. ASSUME kind \notin {"down", "up"} PROVE ToldBy(A, held) <=> ToldBy(q, held)
    <2>1. \A i \in n + 1..n + m : ~IsKey(A[i]) /\ A[i].kind # "down"
      BY <1>1, <1>2 DEF IsKey
    <2>2. \A k \in 1..n + 1 : NoKeyIn(A, k) <=> NoKeyIn(q, k)
      <3> SUFFICES ASSUME NEW k \in 1..n + 1 PROVE NoKeyIn(A, k) <=> NoKeyIn(q, k)
        OBVIOUS
      <3>1. \A j \in k..n + m : j \in k..n \/ j \in n + 1..n + m
        BY <1>1
      <3>2. \A j \in k..n : j \in k..n + m /\ j \in 1..n
        BY <1>1
      <3> QED
        BY <1>1, <2>1, <3>1, <3>2 DEF NoKeyIn, n
    <2>3. NoKeyIn(A, 1) <=> NoKeyIn(q, 1)
      BY <1>1, <2>2
    <2>4. (\E i \in 1..n + m : A[i].kind = "down" /\ NoKeyIn(A, i + 1))
          <=> (\E i \in 1..n : q[i].kind = "down" /\ NoKeyIn(q, i + 1))
      <3>1. \A i \in 1..n + m : A[i].kind = "down" => i \in 1..n
        BY <1>1, <2>1
      <3>2. \A i \in 1..n : i \in 1..n + m /\ i + 1 \in 1..n + 1
        BY <1>1
      <3> QED
        BY <1>1, <2>2, <3>1, <3>2
    <2> QED
      BY <1>1, <2>3, <2>4 DEF ToldBy, n
  <1>3. ASSUME kind \in {"down", "up"}, m = 1 PROVE ToldBy(A, held) <=> kind = "down"
    <2>1. /\ Len(A) = n + 1 /\ n + 1 \in 1..n + 1 /\ A[n + 1].kind = kind
          /\ IsKey(A[n + 1])
      BY <1>1, <1>3 DEF IsKey
    <2>2. \A k \in 1..n + 1 : ~NoKeyIn(A, k)
      BY <1>1, <2>1 DEF NoKeyIn
    <2>3. NoKeyIn(A, (n + 1) + 1)
      BY <1>1, <2>1 DEF NoKeyIn
    <2>4. \A i \in 1..n + 1 : i = n + 1 \/ i + 1 \in 1..n + 1
      BY <1>1
    <2>5. 1 \in 1..n + 1
      BY <1>1
    <2> QED
      BY <2>1, <2>2, <2>3, <2>4, <2>5 DEF ToldBy
  <1> QED
    BY <1>2, <1>3 DEF A, m
-----------------------------------------------------------------------------
\* What a step of a thread's loop does to its route, its queue and the gate.
Left(t, rec) ==
    gate' = Closed /\ rec.route = "local" /\ peerHolds' = (peerHolds /\ th[t].route # "active")

Begun(t, rec) ==
    /\ gate' = Reserved(t) /\ desktopCache /\ th[t].route = "local" /\ rec.route = "preparing"
    /\ peerHolds' = peerHolds

\* In an open session a key event only leaves the queue when it is sent.
QueueStays(t, rec) ==
    \/ rec.queue = th[t].queue
    \/ /\ th[t].queue # <<>> /\ rec.queue = Tail(th[t].queue)
       /\ gate = Opened(t) /\ ~overlapped => ~IsKey(Head(th[t].queue))

Stayed(t, rec) ==
    gate' = gate /\ peerHolds' = peerHolds /\ rec.route = th[t].route /\ QueueStays(t, rec)

Committed(t, rec) ==
    /\ gate' = gate /\ peerHolds' = peerHolds
    /\ th[t].route = "preparing" /\ rec.route = "committed" /\ ~keyDown

Opens(t, rec) ==
    /\ gate = Reserved(t) /\ gate' = Opened(t) /\ peerHolds' = peerHolds
    /\ desktopCache /\ th[t].route = "committed" /\ rec.route = "active" /\ rec.queue = <<>>

Sent(t, rec) ==
    /\ gate' = gate /\ th[t].route = "active" /\ rec.route = "active"
    /\ th[t].queue # <<>> /\ rec.queue = Tail(th[t].queue)
    /\ peerHolds' = IF IsKey(Head(th[t].queue)) THEN Head(th[t].queue).kind = "down"
                    ELSE peerHolds

Effect(t, rec) ==
    \/ Left(t, rec) \/ Begun(t, rec) \/ Stayed(t, rec) \/ Committed(t, rec)
    \/ Opens(t, rec) \/ Sent(t, rec)

\* The cached desktop changes to the desktop; when that is gone the thread leaves.
CacheStep(t, rec) ==
    \/ desktopCache' = desktopCache
    \/ desktopCache' = desktop /\ desktop /\ gate' = gate
    \/ Left(t, rec)

\* A step of the loop with the effect it has; the hand is not concerned.
Effective(t, rec) == rec \in ThreadStates /\ th' = [th EXCEPT ![t] = rec] /\ Effect(t, rec)
Loops(t) ==
    /\ Serving(t) /\ \E rec : Effective(t, rec) /\ CacheStep(t, rec)
    /\ UNCHANGED <<context, overlapped, desktop, gameMode, saving>> /\ UNCHANGED hand

\* A thread's record with the stage it goes on to.
LEMMA ToKeeps ==
    ASSUME CaptureInv, NEW t \in Threads, NEW pc \in Stages
    PROVE  /\ To(t, pc) \in ThreadStates /\ To(t, pc).route = th[t].route
           /\ To(t, pc).queue = th[t].queue
  BY DEF CaptureInv, CaptureTypeOK, To, ThreadStates

\* The steps of the client as the hooks see them.
LEMMA GoOnEffect ==
    ASSUME NEW t \in Threads, NEW rec \in ThreadStates, GoOn(t, rec),
           rec.route = th[t].route, QueueStays(t, rec)
    PROVE  Effective(t, rec) /\ gate' = gate
  BY DEF GoOn, Effective, Effect, Stayed

\* Leaving the remote route closes the gate and returns the thread to the local route.
LEMMA LeaveEffect ==
    ASSUME NEW t \in Threads, NEW rec \in ThreadStates, Leave(t, rec), rec.route = th[t].route
    PROVE  \E left : Effective(t, left) /\ Left(t, left)
  <1> DEFINE left == IF rec.route = "local" THEN rec ELSE [Restored(rec) EXCEPT !.route = "local"]
  <1>1. left \in ThreadStates /\ left.route = "local"
    BY DEF Restored, ThreadStates, Routes
  <1>2. th' = [th EXCEPT ![t] = left] /\ gate' = Closed
        /\ peerHolds' = (peerHolds /\ th[t].route # "active")
    BY DEF Leave
  <1> HIDE DEF left
  <1> QED
    BY <1>1, <1>2 DEF Left, Effective, Effect

\* Restoring the local route has one of the effects a turn of the loop may have.
LEMMA RestoreEffect ==
    ASSUME NEW t \in Threads, NEW rec \in ThreadStates, RestoreOnly(t, rec),
           rec.route = th[t].route, QueueStays(t, rec)
    PROVE  \E r : Effective(t, r)
  <1>1. /\ Restored(rec) \in ThreadStates /\ Restored(rec).route = rec.route
        /\ Restored(rec).queue = rec.queue
    BY DEF Restored, ThreadStates
  <1>2. Effective(t, Restored(rec))
    BY <1>1 DEF RestoreOnly, Effective, Effect, Stayed, QueueStays
  <1> QED
    BY <1>2

\* So has reserving the gate.
LEMMA ReservesEffect ==
    ASSUME NEW t \in Threads, NEW rec \in ThreadStates, Reserves(t, rec),
           rec.route = th[t].route
    PROVE  \E r : Effective(t, r)
  <1> DEFINE begun == [rec EXCEPT !.route = "preparing"]
  <1>1. begun \in ThreadStates /\ begun.route = "preparing"
    BY DEF ThreadStates, Routes
  <1>2. /\ gate' = Reserved(t) /\ desktopCache /\ rec.route = "local"
        /\ th' = [th EXCEPT ![t] = begun] /\ UNCHANGED <<remoteActive, peerHolds>>
    BY DEF Reserves
  <1> HIDE DEF begun
  <1>3. Effective(t, begun)
    BY <1>1, <1>2 DEF Effective, Effect, Begun
  <1> QED
    BY <1>3

\* So has beginning a capture.
LEMMA BeginEffect ==
    ASSUME NEW t \in Threads, NEW rec \in ThreadStates, Begin(t, rec),
           rec.route = th[t].route, QueueStays(t, rec)
    PROVE  \E r : Effective(t, r)
  <1> DEFINE pending == [rec EXCEPT !.pending = TRUE]
  <1>1. pending \in ThreadStates /\ pending.route = rec.route
    BY DEF ThreadStates
  <1>2. Begin(t, rec) => \/ Reserves(t, pending) \/ Leave(t, rec)
                         \/ RestoreOnly(t, rec) \/ GoOn(t, rec)
    BY DEF Begin
  <1> HIDE DEF pending
  <1> QED
    BY <1>1, <1>2, ReservesEffect, LeaveEffect, RestoreEffect, GoOnEffect

\* And being stuck in it.
LEMMA HangsEffect ==
    ASSUME NEW t \in Threads, NEW rec \in ThreadStates, Hangs(t, rec),
           rec.route = th[t].route, QueueStays(t, rec)
    PROVE  \E r : Effective(t, r)
  <1> DEFINE stuck == [rec EXCEPT !.pc = "stuck"]
  <1>1. /\ stuck \in ThreadStates /\ stuck.route = rec.route
        /\ QueueStays(t, stuck)
    BY DEF ThreadStates, Stages, QueueStays
  <1>2. Reserves(t, stuck) \/ Leave(t, stuck) \/ GoOn(t, stuck)
    BY DEF Hangs
  <1> HIDE DEF stuck
  <1> QED
    BY <1>1, <1>2, ReservesEffect, LeaveEffect, GoOnEffect
-----------------------------------------------------------------------------
\* The steps of the loop have no other effect.
LEMMA DrainsLoop ==
    ASSUME CaptureInv, NEW t \in Threads,
           DrainControl(t) \/ EventsDrained(t) \/ DrainSwitch(t) \/ PumpEnds(t)
    PROVE  Loops(t)
  <1>1. /\ Serving(t) /\ desktopCache' = desktopCache
        /\ UNCHANGED <<context, overlapped, desktop, gameMode, saving>> /\ UNCHANGED hand
    BY DEF DrainControl, EventsDrained, DrainSwitch, PumpEnds, At, Serving, Alive, runtime, modes
  <1>2. PICK pc \in Stages : \/ GoOn(t, To(t, pc)) \/ Leave(t, To(t, pc))
                             \/ Begin(t, To(t, pc))
    BY DEF DrainControl, EventsDrained, DrainSwitch, PumpEnds, Stages
  <1>3. To(t, pc) \in ThreadStates /\ To(t, pc).route = th[t].route /\ QueueStays(t, To(t, pc))
    BY ToKeeps DEF QueueStays
  <1>4. \E r : Effective(t, r)
    BY <1>2, <1>3, GoOnEffect, LeaveEffect, BeginEffect
  <1> QED
    BY <1>1, <1>4 DEF Loops, CacheStep

\* The check of the desktop is a step of a thread's loop.
LEMMA CheckDesktopLoops ==
    ASSUME CaptureInv, NEW t \in Threads, CheckDesktop(t)
    PROVE  Loops(t)
  <1> DEFINE rec == To(t, "switch")
  <1>1. /\ Serving(t)
        /\ UNCHANGED <<context, overlapped, desktop, gameMode, saving>> /\ UNCHANGED hand
    BY DEF CheckDesktop, At, Serving, Alive, runtime
  <1>2. rec \in ThreadStates /\ rec.route = th[t].route /\ QueueStays(t, rec)
    BY ToKeeps DEF QueueStays, Stages
  <1>3. \/ GoOn(t, rec) /\ (desktopCache' = desktopCache \/ (desktopCache' = desktop /\ desktop))
        \/ Leave(t, rec)
    <2>1. \/ UNCHANGED desktopCache /\ GoOn(t, rec)
          \/ desktopCache' = desktop /\ desktop /\ GoOn(t, rec)
          \/ desktopCache' = desktop /\ ~desktop /\ Leave(t, rec)
      BY DEF CheckDesktop
    <2> HIDE DEF rec
    <2> QED
      BY <2>1, Zenon
  <1> HIDE DEF rec
  <1>4. \E r : Effective(t, r) /\ CacheStep(t, r)
    BY <1>2, <1>3, GoOnEffect, LeaveEffect DEF CacheStep
  <1> QED
    BY <1>1, <1>4 DEF Loops

\* In an open session the head of the queue is sent, unless the thread leaves.
LEMMA ProcessEventLoops ==
    ASSUME CaptureInv, NEW t \in Threads, ProcessEvent(t)
    PROVE  Loops(t)
  <1> DEFINE rec == [th[t] EXCEPT !.queue = Tail(@)]
             e == Head(th[t].queue).kind
  <1>1. /\ Serving(t) /\ desktopCache' = desktopCache
        /\ UNCHANGED <<context, overlapped, desktop, gameMode, saving>> /\ UNCHANGED hand
    BY DEF ProcessEvent, At, Serving, Alive, runtime, modes
  <1>2. /\ th[t].queue # <<>> /\ rec \in ThreadStates /\ rec.route = th[t].route
        /\ rec.queue = Tail(th[t].queue)
    <2>1. th[t] \in ThreadStates /\ th[t].queue \in Seq(Events) /\ th[t].queue # <<>>
      BY DEF CaptureInv, CaptureTypeOK, ThreadStates, ProcessEvent
    <2>2. Tail(th[t].queue) \in Seq(Events)
      BY <2>1, HeadTailProperties
    <2> QED
      BY <2>1, <2>2 DEF ThreadStates
  <1>3. gate = Opened(t) /\ ~overlapped => th[t].active
    BY DEF CaptureInv, OpenGateIsServed
  <1>4. gate = Opened(t) => gate.open
    BY GatesDiffer
  <1>5. \/ GoOn(t, rec) /\ QueueStays(t, rec)
        \/ Leave(t, rec)
        \/ Hangs(t, rec) /\ QueueStays(t, rec)
        \/ /\ th[t].route = "active" /\ th' = [th EXCEPT ![t] = rec] /\ gate' = gate
           /\ peerHolds' = Forwarded(e)
    <2>1. ASSUME ~gate.open \/ ~IsKey(Head(th[t].queue)) \/ ~th[t].active
          PROVE  QueueStays(t, rec)
      BY <1>2, <1>3, <1>4, <2>1 DEF QueueStays
    <2>2. e = "move" => ~IsKey(Head(th[t].queue))
      BY DEF IsKey
    <2> QED
      BY <2>1, <2>2 DEF ProcessEvent
  <1> HIDE DEF rec
  <1>6. ASSUME th[t].route = "active", th' = [th EXCEPT ![t] = rec], gate' = gate,
               peerHolds' = Forwarded(e)
        PROVE  Effective(t, rec)
    <2>1. peerHolds' = IF IsKey(Head(th[t].queue)) THEN Head(th[t].queue).kind = "down"
                       ELSE peerHolds
      BY <1>6 DEF Forwarded, IsKey
    <2> QED
      BY <1>2, <1>6, <2>1 DEF Effective, Effect, Sent
  <1>7. \E r : Effective(t, r)
    BY <1>2, <1>5, <1>6, GoOnEffect, LeaveEffect, HangsEffect
  <1> QED
    BY <1>1, <1>7 DEF Loops, CacheStep

\* Commit goes out with no key down; its answer opens the gate.
LEMMA PollClientLoops ==
    ASSUME CaptureInv, NEW t \in Threads, PollClient(t)
    PROVE  Loops(t)
  <1> DEFINE rec == To(t, "pump")
             committed == [rec EXCEPT !.route = "committed"]
             activated == [rec EXCEPT !.route = "active", !.pending = FALSE, !.active = TRUE]
  <1>1. /\ Serving(t) /\ desktopCache' = desktopCache /\ At(t, "poll")
        /\ UNCHANGED <<context, overlapped, desktop, gameMode, saving>> /\ UNCHANGED hand
    BY DEF PollClient, At, Serving, Alive, runtime, modes
  <1>2. rec \in ThreadStates /\ rec.route = th[t].route /\ rec.queue = th[t].queue
    BY ToKeeps DEF Stages
  <1>3. th[t].queue = <<>> /\ QueueStays(t, rec)
    BY <1>1, <1>2 DEF CaptureInv, QueuePart, At, BeforePump, QueueStays
  <1>4. \/ GoOn(t, rec) \/ Leave(t, rec) \/ RestoreOnly(t, rec)
        \/ th[t].route = "preparing" /\ ~keyDown /\ GoOn(t, committed)
        \/ Activated(t)
    BY DEF PollClient, KeysReleased
  <1>5. Activated(t) => th' = [th EXCEPT ![t] = activated] /\ peerHolds' = peerHolds
    BY DEF Activated
  <1> HIDE DEF rec
  <1>6. ASSUME th[t].route = "preparing", ~keyDown, GoOn(t, committed)
        PROVE  Effective(t, committed)
    <2>1. committed \in ThreadStates /\ committed.route = "committed"
      BY <1>2 DEF ThreadStates, Routes
    <2> QED
      BY <1>6, <2>1 DEF Effective, Effect, Committed, GoOn
  <1>7. ASSUME Activated(t) PROVE Effective(t, activated)
    <2>1. activated \in ThreadStates /\ activated.route = "active" /\ activated.queue = <<>>
      BY <1>2, <1>3 DEF ThreadStates, Routes
    <2> HIDE DEF activated
    <2> QED
      BY <1>5, <1>7, <2>1 DEF Effective, Effect, Opens, Activated
  <1> HIDE DEF committed, activated
  <1>8. \E r : Effective(t, r)
    BY <1>2, <1>3, <1>4, <1>6, <1>7, GoOnEffect, LeaveEffect, RestoreEffect
  <1> QED
    BY <1>1, <1>8 DEF Loops, CacheStep
-----------------------------------------------------------------------------
\* A step of a loop changes neither game mode nor what the hand does.
LEMMA HotUntouched ==
    ASSUME HotPart, UNCHANGED <<hotDown, dispatched, deduper>>
    PROVE  HotPart'
  BY DEF HotPart, OncePerPress

\* A step of a thread's loop keeps hand and peer in agreement.
LEMMA LoopsKeep ==
    ASSUME HandInv, NEW t \in Threads, Loops(t), CaptureInv'
    PROVE  HandInv'
  <1>1. PICK rec : Effective(t, rec) /\ CacheStep(t, rec)
    BY DEF Loops
  <1>2. /\ Serving(t) /\ Alive(t)
        /\ UNCHANGED <<context, overlapped, desktop, gameMode, saving, keyDown, winHolds, hotDown,
                       dispatched, deduper>>
    BY DEF Loops, Serving, hand
  <1>3. /\ th \in [Threads -> ThreadStates]
        /\ th'[t] = rec
        /\ \A u \in Threads : u # t => th'[u] = th[u]
        /\ Effect(t, rec)
    BY <1>1 DEF Effective, HandInv, CaptureInv, CaptureTypeOK
  <1>4. ~overlapped => context = t
    BY <1>2 DEF HandInv, CaptureInv, RuntimePart
  <1>5. t # None
    BY CaptureAssumption
  <1>6. ASSUME ~overlapped, th[t].route # "active" PROVE peerHolds = FALSE
    <2>1. ~peerHolds
      BY <1>4, <1>6 DEF HandInv, PeerPart
    <2>2. peerHolds \in BOOLEAN
      BY TypeParts, Zenon DEF HandInv, CaptureInv, LoopTyped
    <2> QED
      BY <2>1, <2>2
  <1>7. Closed # Reserved(t) /\ ~Closed.open /\ Opened(t).owner = t /\ ~Reserved(t).open
    BY CaptureAssumption DEF Closed, Reserved, Opened
  <1>8. DesktopPart'
    <2>1. ASSUME desktopCache' = desktopCache PROVE DesktopPart'
      <3>1. CASE desktopCache
        BY <2>1, <3>1 DEF DesktopPart
      <3>2. CASE ~desktopCache
        <4>1. gate = Closed
          BY <3>2 DEF HandInv, DesktopPart
        <4>2. gate' = Closed
          BY <1>3, <1>7, <3>2, <4>1 DEF Effect, Left, Begun, Stayed, Committed, Opens, Sent
        <4> QED
          BY <4>2 DEF DesktopPart
      <3> QED BY <3>1, <3>2
    <2>2. ASSUME desktopCache' = desktop, desktop PROVE DesktopPart'
      BY <2>2, Zenon DEF DesktopPart
    <2>3. ASSUME Left(t, rec) PROVE DesktopPart'
      BY <2>3 DEF Left, DesktopPart
    <2> QED
      BY <1>1, <2>1, <2>2, <2>3 DEF CacheStep
  <1>9. OwnerPart'
    <2>1. gate' = gate \/ gate' = Closed \/ gate' = Reserved(t) \/ gate' = Opened(t)
      BY <1>3 DEF Effect, Left, Begun, Stayed, Committed, Opens, Sent
    <2> QED
      BY <1>5, <1>7, <2>1 DEF HandInv, OwnerPart
  <1>10. PeerPart'
    <2> SUFFICES ASSUME peerHolds', ~overlapped PROVE context = t /\ th'[t].route = "active"
      BY <1>2, <1>5 DEF PeerPart
    <2>1. ~Left(t, rec)
      BY <1>6, Zenon DEF Left
    <2>2. ASSUME peerHolds' = peerHolds PROVE th[t].route = "active"
      BY <1>6, <2>2
    <2>3. ~Begun(t, rec) /\ ~Committed(t, rec) /\ ~Opens(t, rec)
      BY <2>2 DEF Begun, Committed, Opens
    <2>4. rec.route = "active"
      BY <1>3, <2>1, <2>2, <2>3 DEF Effect, Stayed, Sent
    <2> QED
      BY <1>3, <1>4, <2>4
  <1>11. SavingPart' /\ HotPart'
    BY <1>2, HotUntouched DEF HandInv, SavingPart
  <1>12. CommitPart'
    <2> SUFFICES ASSUME NEW u \in Threads, gate' = Reserved(u), th'[u].route = "committed",
                        Alive(u)', ~overlapped, desktop
                 PROVE  keyDown => winHolds
      BY <1>2 DEF CommitPart, Serving
    <2>1. u = t
      <3>1. ASSUME u # t PROVE FALSE
        <4>1. ~Alive(u)
          BY <1>4, <3>1 DEF HandInv, CaptureInv, RuntimePart
        <4>2. th'[u] = NewThread
          BY <1>3, <3>1, <4>1 DEF HandInv, CaptureInv, FreshPart
        <4> QED
          BY <4>2 DEF NewThread
      <3> QED BY <3>1
    <2>2. rec.route = "committed"
      BY <1>3, <2>1
    <2>3. \/ Committed(t, rec)
          \/ gate = Reserved(t) /\ th[t].route = "committed"
      BY <1>3, <1>7, <2>1, <2>2 DEF Effect, Left, Begun, Stayed, Opens, Sent
    <2> QED
      BY <1>2, <2>3 DEF Committed, HandInv, CommitPart
  <1>13. AgreePart'
    <2> SUFFICES ASSUME NEW u \in Threads, gate' = Opened(u), ~overlapped, desktop
                 PROVE  /\ ~gameMode => (Told(u)' => keyDown) /\ (keyDown /\ ~winHolds => Told(u)')
                        /\ gameMode /\ ~saving => ~Told(u)' /\ (keyDown => winHolds)
      BY <1>2 DEF AgreePart
    <2>1. ~Left(t, rec) /\ ~Begun(t, rec)
      BY GatesDiffer DEF Left, Begun
    <2>2. ASSUME Opens(t, rec)
          PROVE  ~Told(u)' /\ (keyDown => winHolds)
      <3>1. u = t /\ th'[t].queue = <<>>
        BY <1>3, <2>2, GatesDiffer DEF Opens
      <3>2. peerHolds' = FALSE
        BY <1>6, <2>2 DEF Opens
      <3>3. ~ToldBy(<<>>, FALSE)
        BY DEF ToldBy
      <3>4. ~Told(u)'
        BY <3>1, <3>2, <3>3 DEF Told
      <3>5. keyDown => winHolds
        BY <1>2, <2>2 DEF Opens, HandInv, CommitPart
      <3> QED
        BY <3>4, <3>5
    <2>3. ASSUME gate' = gate PROVE u = t /\ gate = Opened(t) /\ th[t].route = "active"
      <3>1. gate = Opened(u)
        BY <2>3
      <3>2. context = u /\ th[u].route = "active"
        BY <3>1 DEF HandInv, CaptureInv, OpenGateIsServed
      <3> QED
        BY <1>4, <3>1, <3>2
    <2>4. ~Committed(t, rec)
      BY <2>3 DEF Committed
    <2>5. th[t].queue \in Seq(Events)
      BY <1>3 DEF ThreadStates
    <2>6. ASSUME Stayed(t, rec) \/ Sent(t, rec)
          PROVE  u = t /\ gate = Opened(t) /\ (Told(t)' <=> Told(t))
      <3>1. u = t /\ gate = Opened(t)
        BY <2>3, <2>6 DEF Stayed, Sent
      <3>2. CASE rec.queue = th[t].queue /\ peerHolds' = peerHolds
        BY <1>3, <3>1, <3>2 DEF Told
      <3>3. CASE /\ th[t].queue # <<>> /\ rec.queue = Tail(th[t].queue)
                 /\ peerHolds' = IF IsKey(Head(th[t].queue)) THEN Head(th[t].queue).kind = "down"
                                 ELSE peerHolds
        BY <1>3, <2>5, <3>1, <3>3, ToldByTail DEF Told
      <3> QED
        BY <2>6, <3>1, <3>2, <3>3 DEF Stayed, Sent, QueueStays
    <2>7. ASSUME u = t, gate = Opened(t), Told(t)' <=> Told(t)
          PROVE  /\ ~gameMode => (Told(u)' => keyDown) /\ (keyDown /\ ~winHolds => Told(u)')
                 /\ gameMode /\ ~saving => ~Told(u)' /\ (keyDown => winHolds)
      BY <2>7 DEF HandInv, AgreePart
    <2> QED
      BY <1>3, <2>1, <2>2, <2>4, <2>6, <2>7 DEF Effect
  <1> QED
    BY <1>8, <1>9, <1>10, <1>11, <1>12, <1>13 DEF HandInv
-----------------------------------------------------------------------------
\* A reserved gate is not the closed one.
LEMMA ReservedIsNotClosed ==
    ASSUME NEW t \in Threads
    PROVE  Closed # Reserved(t)
  BY CaptureAssumption DEF Closed, Reserved

\* Steps that change no route, no peer and no cached desktop.
LEMMA AsideKeeps ==
    ASSUME HandInv, UNCHANGED <<peerHolds, context, overlapped, desktopCache>>,
           \A u \in Threads : th'[u].route = th[u].route /\ th'[u].pc = th[u].pc,
           gate' = gate \/ gate' = Closed
    PROVE  DesktopPart' /\ OwnerPart' /\ PeerPart'
  <1>1. context \in Threads \cup {None}
    BY DEF HandInv, CaptureInv, CaptureTypeOK
  <1>2. DesktopPart'
    BY DEF HandInv, DesktopPart
  <1>3. OwnerPart'
    BY DEF HandInv, OwnerPart, Closed
  <1>4. PeerPart'
    BY <1>1 DEF HandInv, PeerPart
  <1> QED
    BY <1>2, <1>3, <1>4

\* Steps that do not concern the ordinary key either.
LEMMA KeyAside ==
    ASSUME HandInv, UNCHANGED <<peerHolds, context, overlapped, desktopCache>>,
           UNCHANGED <<keyDown, winHolds, desktop, gameMode, saving>>,
           \A u \in Threads : th'[u].route = th[u].route /\ th'[u].pc = th[u].pc,
           gate' = gate \/ gate' = Closed,
           \A u \in Threads : gate' = Opened(u) /\ ~overlapped => (Told(u)' <=> Told(u)),
           HotPart', CaptureInv'
    PROVE  HandInv'
  <1>1. DesktopPart' /\ OwnerPart' /\ PeerPart'
    BY AsideKeeps
  <1>2. SavingPart'
    BY DEF HandInv, SavingPart
  <1>3. CommitPart'
    BY ReservedIsNotClosed DEF HandInv, CommitPart, Serving, Alive
  <1>4. AgreePart'
    <2> SUFFICES ASSUME NEW u \in Threads, gate' = Opened(u), ~overlapped, desktop
                 PROVE  /\ ~gameMode => (Told(u)' => keyDown) /\ (keyDown /\ ~winHolds => Told(u)')
                        /\ gameMode /\ ~saving => ~Told(u)' /\ (keyDown => winHolds)
      BY DEF AgreePart
    <2>1. gate = Opened(u) /\ (Told(u)' <=> Told(u))
      BY GatesDiffer
    <2> QED
      BY <2>1 DEF HandInv, AgreePart
  <1> QED
    BY <1>1, <1>2, <1>3, <1>4 DEF HandInv

\* Steps that leave the threads alone altogether.
LEMMA ThreadsAside ==
    ASSUME HandInv, UNCHANGED <<th, peerHolds, context, overlapped, desktopCache>>,
           UNCHANGED <<keyDown, winHolds, desktop, gameMode, saving>>,
           gate' = gate \/ gate' = Closed, HotPart', CaptureInv'
    PROVE  HandInv'
  <1>1. \A u \in Threads : Told(u)' <=> Told(u)
    BY DEF Told
  <1> QED
    BY <1>1, KeyAside

\* A step behind which the gate is closed: only the peer's record matters.
LEMMA ClosedBehind ==
    ASSUME HandInv, gate' = Closed, PeerPart', UNCHANGED <<gameMode, saving>>, UNCHANGED hand,
           CaptureInv'
    PROVE  HandInv'
  <1>1. DesktopPart' /\ OwnerPart' /\ CommitPart' /\ AgreePart'
    BY GatesDiffer, ReservedIsNotClosed DEF DesktopPart, OwnerPart, CommitPart, AgreePart
  <1>2. SavingPart' /\ HotPart'
    BY HotUntouched DEF HandInv, SavingPart, hand
  <1> QED
    BY <1>1, <1>2 DEF HandInv

\* Without an overlap no peer holds the key of a thread that starts.
LEMMA StartInputAgrees ==
    ASSUME HandInv, NEW t \in Threads, StartInput(t), CaptureInv'
    PROVE  HandInv'
  <1>1. /\ gate' = Closed /\ peerHolds' = peerHolds /\ UNCHANGED <<gameMode, saving>>
        /\ UNCHANGED hand
    BY DEF StartInput, modes
  <1>2. ~overlapped' => ~overlapped /\ \A u \in Threads : ~Alive(u)
    BY DEF StartInput
  <1>3. context \in Threads \cup {None}
    BY DEF HandInv, CaptureInv, CaptureTypeOK
  <1>4. PeerPart'
    <2> SUFFICES ASSUME peerHolds, ~overlapped' PROVE FALSE
      BY <1>1 DEF PeerPart
    <2>1. context # None
      BY <1>2 DEF HandInv, PeerPart
    <2>2. Alive(context) /\ context \in Threads
      BY <1>3, <2>1 DEF HandInv, CaptureInv, RuntimePart
    <2> QED
      BY <1>2, <2>2
  <1> QED
    BY <1>1, <1>4, ClosedBehind

\* A thread that ends releases what its peer holds.
LEMMA EndThreadAgrees ==
    ASSUME HandInv, NEW t \in Threads, EndThread(t), CaptureInv'
    PROVE  HandInv'
  <1>1. /\ gate' = Closed /\ UNCHANGED <<gameMode, saving, overlapped>> /\ UNCHANGED hand
        /\ Alive(t) /\ peerHolds' = (peerHolds /\ th[t].route # "active")
    BY DEF EndThread, GateAtEnd, Alive, modes
  <1>2. PeerPart'
    <2> SUFFICES ASSUME peerHolds', ~overlapped PROVE FALSE
      BY <1>1 DEF PeerPart
    <2>1. peerHolds /\ th[t].route # "active"
      BY <1>1, Zenon
    <2>2. context = t
      BY <1>1 DEF HandInv, CaptureInv, RuntimePart
    <2> QED
      BY <2>1, <2>2 DEF HandInv, PeerPart
  <1> QED
    BY <1>1, <1>2, ClosedBehind

\* A stop closes the gate, then marks the thread.
LEMMA StopAgrees ==
    ASSUME HandInv, StopRequest \/ StopSignal, CaptureInv'
    PROVE  HandInv'
  <1>1. CASE StopRequest
    <2>1. gate' = Closed /\ UNCHANGED <<th, peerHolds, context, overlapped>> /\ UNCHANGED hand
          /\ UNCHANGED <<gameMode, saving>>
      BY <1>1 DEF StopRequest, modes
    <2>2. PeerPart'
      BY <2>1 DEF HandInv, PeerPart
    <2> QED
      BY <2>1, <2>2, ClosedBehind
  <1>2. CASE StopSignal
    <2>1. /\ inputStop \in Threads /\ th \in [Threads -> ThreadStates]
          /\ th' = [th EXCEPT ![inputStop].stop = TRUE]
          /\ UNCHANGED <<gate, peerHolds, context, overlapped, desktopCache, keyDown, winHolds,
                         desktop, gameMode, saving, hotDown, dispatched, deduper>>
      BY <1>2 DEF StopSignal, HandInv, CaptureInv, CaptureTypeOK, RuntimePart, modes, hand
    <2>2. \A u \in Threads : th'[u].route = th[u].route /\ th'[u].pc = th[u].pc /\ th'[u].queue = th[u].queue
      BY <2>1 DEF ThreadStates
    <2>3. \A u \in Threads : Told(u)' <=> Told(u)
      BY <2>1, <2>2 DEF Told
    <2>4. HotPart'
      BY <2>1, HotUntouched DEF HandInv
    <2> QED
      BY <2>1, <2>2, <2>3, <2>4, KeyAside
  <1> QED
    BY <1>1, <1>2
-----------------------------------------------------------------------------
\* What the hooks put into the queue of their context.
LEMMA QueuedTold ==
    ASSUME CaptureInv, NEW kind \in Kinds, NEW n \in Nat, context # None, th' = Queued(kind, n),
           UNCHANGED <<peerHolds, context>>
    PROVE  /\ \A u \in Threads : th'[u].route = th[u].route /\ th'[u].pc = th[u].pc
           /\ kind \notin {"down", "up"} => \A u \in Threads : Told(u)' <=> Told(u)
           /\ kind \in {"down", "up"} /\ n = 1 => (Told(context)' <=> kind = "down")
  <1> DEFINE q == th[context].queue
             new == [i \in 1..n |-> [kind |-> kind, session |-> session]]
  <1>1. /\ th \in [Threads -> ThreadStates] /\ context \in Threads
        /\ session \in 0..MaxSessions
    BY DEF CaptureInv, CaptureTypeOK
  <1>2. q \in Seq(Events)
    BY <1>1 DEF ThreadStates
  <1>3. new \in Seq(Events) /\ Len(new) = n /\ \A i \in 1..Len(new) : new[i].kind = kind
    <2>1. [kind |-> kind, session |-> session] \in Events
      BY <1>1 DEF Events
    <2> QED
      BY <2>1
  <1>4. th' = [th EXCEPT ![context].queue = q \o new]
    BY DEF Queued
  <1> HIDE DEF q, new
  <1>5. /\ th'[context].queue = q \o new /\ th'[context].route = th[context].route
        /\ th'[context].pc = th[context].pc
        /\ \A u \in Threads : u # context => th'[u] = th[u]
    BY <1>1, <1>4 DEF ThreadStates
  <1>6. \A u \in Threads : u # context => (Told(u)' <=> Told(u))
    BY <1>5 DEF Told
  <1>7. Told(context) <=> ToldBy(q, peerHolds)
    BY DEF Told, q
  <1>8. th'[context].queue = q \o new
          => (ToldBy(th'[context].queue, peerHolds') <=> ToldBy(q \o new, peerHolds))
    OBVIOUS
  <1>9. kind \notin {"down", "up"} => \A u \in Threads : Told(u)' <=> Told(u)
    <2> SUFFICES ASSUME kind \notin {"down", "up"}, NEW u \in Threads PROVE Told(u)' <=> Told(u)
      OBVIOUS
    <2>1. CASE u = context
      BY <1>2, <1>3, <1>5, <1>7, <1>8, <2>1, ToldByAppend DEF Told
    <2> QED
      BY <1>6, <2>1
  <1>10. \A u \in Threads : u = context /\ kind \in {"down", "up"} /\ n = 1
                              => (Told(u)' <=> kind = "down")
    BY <1>2, <1>3, <1>5, <1>8, ToldByAppend DEF Told
  <1> QED
    <2>1. \A u \in Threads : th'[u].route = th[u].route /\ th'[u].pc = th[u].pc
      BY <1>5
    <2>2. kind \in {"down", "up"} /\ n = 1 => (Told(context)' <=> kind = "down")
      BY <1>1, <1>10 DEF Told
    <2> QED
      BY <1>9, <2>1, <2>2

\* What a hook event does: it is queued only for the context; an event that is
\* no key event changes nothing the peer will be told; in a session that stays
\* open a key event is swallowed and decides it, or passed on in game mode.
LEMMA HookEffect ==
    ASSUME CaptureInv, NEW kind \in Kinds, NEW swallowed \in BOOLEAN, HookEvent(kind, swallowed),
           UNCHANGED <<peerHolds, context>>
    PROVE  /\ gate' = gate \/ gate' = Closed
           /\ \A u \in Threads : th'[u].route = th[u].route /\ th'[u].pc = th[u].pc
           /\ kind \notin {"down", "up"} => \A u \in Threads : Told(u)' <=> Told(u)
           /\ ~gate.open => ~swallowed
           /\ ~HookSees => ~swallowed /\ UNCHANGED th
           /\ gate.open /\ gate'.open /\ HookSees =>
                /\ swallowed
                /\ kind \in {"down", "up"} => (Told(context)' <=> kind = "down")
  <1>1. ~Closed.open /\ (OverrideAndOffer => gate' = Closed) /\ (FullQueue => gate' = Closed)
    BY DEF Closed, OverrideAndOffer, FullQueue
  <1>2. gate' = gate \/ gate' = Closed
    BY <1>1 DEF HookEvent
  <1>3. /\ ~gate.open => ~swallowed
        /\ ~HookSees => ~swallowed /\ UNCHANGED th
    BY DEF HookEvent
  <1>4. HookSees => context # None
    BY DEF HookSees
  <1>5. UNCHANGED th => \A u \in Threads : th'[u].route = th[u].route /\ th'[u].pc = th[u].pc /\ (Told(u)' <=> Told(u))
    BY DEF Told
  <1>6. ASSUME HookSees, NEW n \in Nat, th' = Queued(kind, n)
        PROVE  /\ \A u \in Threads : th'[u].route = th[u].route /\ th'[u].pc = th[u].pc
               /\ kind \notin {"down", "up"} => \A u \in Threads : Told(u)' <=> Told(u)
    BY <1>4, <1>6, QueuedTold
  <1>7. CASE HookSees /\ desktopCache /\ ~gate.open
    <2> DEFINE fits == IF Copies <= Room THEN Copies ELSE Room
    <2>1. UNCHANGED th \/ th' = Queued(kind, fits)
      BY <1>7 DEF HookEvent
    <2>2. fits \in Nat
      <3>1. context \in Threads /\ th[context].queue \in Seq(Events)
            /\ Len(th[context].queue) <= HookQueue
        BY <1>4, <1>7 DEF CaptureInv, CaptureTypeOK, ThreadStates
      <3>2. Room \in Nat
        BY <3>1, CaptureAssumption DEF Room
      <3> QED
        BY <3>2, CopiesIsNat
    <2> HIDE DEF fits
    <2> QED
      BY <1>2, <1>3, <1>5, <1>6, <1>7, <2>1, <2>2
  <1>8. CASE HookSees /\ desktopCache /\ gate.open
    <2>1. \/ swallowed /\ th' = Queued(kind, 1)
          \/ UNCHANGED th /\ gate' = Closed
      BY <1>1, <1>8 DEF HookEvent
    <2>2. ASSUME swallowed, th' = Queued(kind, 1)
          PROVE  kind \in {"down", "up"} => (Told(context)' <=> kind = "down")
      BY <1>4, <1>8, <2>2, QueuedTold
    <2> QED
      BY <1>1, <1>2, <1>3, <1>5, <1>6, <1>8, <2>1, <2>2
  <1>9. CASE ~HookSees \/ ~desktopCache
    <2>1. UNCHANGED th /\ (HookSees => gate' = Closed)
      BY <1>1, <1>9 DEF HookEvent
    <2> QED
      BY <1>1, <1>2, <1>3, <1>5, <2>1
  <1> QED
    BY <1>7, <1>8, <1>9

\* The pointer and the switch hotkey do not concern the key.
LEMMA MoveAgrees ==
    ASSUME HandInv, Move \/ SwitchHotkey, CaptureInv'
    PROVE  HandInv'
  <1>1. /\ UNCHANGED <<peerHolds, context, overlapped, desktopCache, keyDown, winHolds, desktop,
                       gameMode, saving, hotDown, dispatched, deduper>>
        /\ \/ \E kind \in {"move", "switch"}, swallowed \in BOOLEAN : HookEvent(kind, swallowed)
           \/ UNCHANGED <<th, gate>>
    BY DEF Move, SwitchHotkey, runtime, modes, hand
  <1>2. /\ gate' = gate \/ gate' = Closed
        /\ \A u \in Threads : th'[u].route = th[u].route /\ th'[u].pc = th[u].pc
        /\ \A u \in Threads : Told(u)' <=> Told(u)
    <2>1. ASSUME NEW kind \in {"move", "switch"}, NEW swallowed \in BOOLEAN,
                 HookEvent(kind, swallowed)
          PROVE  /\ gate' = gate \/ gate' = Closed
                 /\ \A u \in Threads : th'[u].route = th[u].route /\ th'[u].pc = th[u].pc
                 /\ \A u \in Threads : Told(u)' <=> Told(u)
      <3>1. kind \in Kinds /\ kind \notin {"down", "up"}
        BY DEF Kinds
      <3> QED
        BY <1>1, <2>1, <3>1, HookEffect DEF HandInv
    <2>2. ASSUME UNCHANGED <<th, gate>>
          PROVE  /\ gate' = gate \/ gate' = Closed
                 /\ \A u \in Threads : th'[u].route = th[u].route /\ th'[u].pc = th[u].pc
                 /\ \A u \in Threads : Told(u)' <=> Told(u)
      BY <1>1, <2>2 DEF Told
    <2> QED
      BY <1>1, <2>1, <2>2
  <1>3. HotPart'
    BY <1>1, HotUntouched DEF HandInv
  <1> QED
    BY <1>1, <1>2, <1>3, KeyAside

\* In an open session the hooks run.
LEMMA OpenIsHooked ==
    ASSUME CaptureInv, NEW t \in Threads, gate = Opened(t), ~overlapped, Copies > 0 => Pumping
    PROVE  Hooked /\ context = t
  <1>1. Serving(t) /\ context = t
    BY DEF CaptureInv, OpenGateIsServed
  <1>2. Copies # 0
    <2>1. IsFiniteSet({u \in Threads : Serving(u)}) /\ {u \in Threads : Serving(u)} # {}
      BY <1>1, FS_Subset, CaptureAssumption
    <2> QED
      BY <2>1, FS_EmptySet DEF Copies
  <1> QED
    BY <1>1, <1>2, CopiesIsNat DEF Hooked

\* The ordinary key goes to this machine or to the session's peer; and in a
\* session that stays open outside game mode, not to this machine.
LEMMA KeyAgrees ==
    ASSUME HandInv, NEW down \in BOOLEAN, Key(down), CaptureInv'
    PROVE  HandInv' /\ SwallowedOrClosed
  <1>1. PICK swallowed \in BOOLEAN :
          /\ IF Hooked THEN HookEvent(IF down THEN "down" ELSE "up", swallowed)
             ELSE ~swallowed /\ UNCHANGED <<th, gate, slot>>
          /\ winHolds' = IF swallowed \/ ~desktop THEN winHolds ELSE down
    BY DEF Key
  <1> DEFINE kind == IF down THEN "down" ELSE "up"
  <1>2. /\ keyDown' = down /\ (Copies > 0 => Pumping)
        /\ UNCHANGED <<peerHolds, context, overlapped, desktopCache, desktop, gameMode, saving,
                       hotDown, dispatched, deduper>>
    BY DEF Key, runtime, modes
  <1>3. kind \in Kinds /\ kind \in {"down", "up"} /\ (kind = "down" <=> down)
    BY DEF Kinds
  <1>4. Hooked => HookEvent(kind, swallowed)
    BY <1>1
  <1> HIDE DEF kind
  <1>5. /\ gate' = gate \/ gate' = Closed
        /\ \A u \in Threads : th'[u].route = th[u].route /\ th'[u].pc = th[u].pc
        /\ ~gate.open => ~swallowed
    BY <1>1, <1>2, <1>3, <1>4, HookEffect DEF HandInv
  <1>6. DesktopPart' /\ OwnerPart' /\ PeerPart'
    BY <1>2, <1>5, AsideKeeps
  <1>7. SavingPart' /\ HotPart'
    BY <1>2, HotUntouched DEF HandInv, SavingPart
  <1>8. desktop /\ ~swallowed => winHolds' = down
    BY <1>1
  <1>9. CommitPart'
    <2> SUFFICES ASSUME NEW u \in Threads, gate' = Reserved(u), desktop
                 PROVE  keyDown' => winHolds'
      BY <1>2 DEF CommitPart
    <2>1. ~gate.open
      BY <1>5, ReservedIsNotClosed, GatesDiffer
    <2> QED
      BY <1>2, <1>5, <1>8, <2>1
  <1>10. ASSUME NEW u \in Threads, gate' = Opened(u), ~overlapped, desktop
         PROVE  /\ gate = Opened(u) /\ context = u
                /\ gameMode => winHolds' = down /\ (Told(u)' <=> Told(u))
                /\ ~gameMode => swallowed /\ (Told(u)' <=> down)
    <2>1. gate = Opened(u) /\ gate.open /\ gate'.open
      BY <1>5, <1>10, GatesDiffer
    <2>2. Hooked /\ context = u
      BY <1>2, <1>10, <2>1, OpenIsHooked DEF HandInv
    <2>3. u # None
      BY CaptureAssumption
    <2>4. /\ ~HookSees => ~swallowed /\ UNCHANGED th
          /\ HookSees => swallowed /\ (Told(context)' <=> kind = "down")
      BY <1>2, <1>3, <1>4, <2>1, <2>2, HookEffect DEF HandInv
    <2>5. HookSees <=> ~gameMode
      BY <1>10, <2>2, <2>3 DEF HookSees
    <2>6. UNCHANGED th => (Told(u)' <=> Told(u))
      BY <1>2 DEF Told
    <2>7. Told(context)' <=> Told(u)'
      BY <1>2, <2>2 DEF Told
    <2> QED
      BY <1>3, <1>8, <1>10, <2>1, <2>2, <2>4, <2>5, <2>6, <2>7
  <1>11. AgreePart'
    <2> SUFFICES ASSUME NEW u \in Threads, gate' = Opened(u), ~overlapped, desktop
                 PROVE  /\ ~gameMode => (Told(u)' => keyDown') /\ (keyDown' /\ ~winHolds' => Told(u)')
                        /\ gameMode /\ ~saving => ~Told(u)' /\ (keyDown' => winHolds')
      BY <1>2 DEF AgreePart
    <2>1. gameMode /\ ~saving => ~Told(u)
      BY <1>10 DEF HandInv, AgreePart
    <2> QED
      BY <1>2, <1>10, <2>1
  <1>12. SwallowedOrClosed
    <2> SUFFICES ASSUME gate.open, gate'.open, Plain PROVE winHolds' = winHolds
      BY DEF SwallowedOrClosed
    <2>1. gate' = gate
      BY <1>5 DEF Closed
    <2>2. PICK u \in Threads : gate = Opened(u)
      <3>1. gate \in Gates /\ gate.owner # None
        BY TypeParts DEF HandInv, CaptureInv, LoopTyped, OwnerPart
      <3>2. gate.open = TRUE /\ gate.owner \in Threads
        BY <3>1 DEF Gates
      <3>3. gate = Opened(gate.owner)
        BY <3>1, <3>2 DEF Gates, Opened
      <3> QED
        BY <3>2, <3>3
    <2>3. swallowed
      BY <1>10, <2>1, <2>2 DEF Plain
    <2> QED
      BY <1>1, <2>3
  <1> QED
    BY <1>6, <1>7, <1>9, <1>11, <1>12 DEF HandInv
-----------------------------------------------------------------------------
\* A press is accepted unless it already was.
LEMMA DispatchOnce ==
    ASSUME NEW a \in Actions, NEW before \in Nat, Dispatch(a, before),
           dispatched \in [Actions -> Nat]
    PROVE  /\ dispatched'[a] = IF Accepts(a) THEN before + 1 ELSE before
           /\ \A b \in Actions : b # a => dispatched'[b] = dispatched[b]
           /\ a \in deduper' /\ deduper \subseteq deduper'
           /\ gate' = gate \/ gate' = Closed
  BY DEF Dispatch, Accepts

\* A hotkey pressed is recorded once, and opens no gate.
LEMMA HotPressOnce ==
    ASSUME HandInv, NEW a \in Actions, HotPress(a)
    PROVE  HotPart' /\ (gate' = gate \/ gate' = Closed)
  <1>1. /\ dispatched \in [Actions -> Nat] /\ hotDown \in [Actions -> {"up", "hook", "system"}]
        /\ \A b \in Actions : KeyOf[b] = KeyOf[a] => hotDown[b] = "up"
        /\ HotPart
    BY TypeParts DEF HandInv, CaptureInv, RestTyped, HotPress
  <1>2. \A b \in Actions : b # a => hotDown'[b] = hotDown[b]
    BY <1>1 DEF HotPress
  <1>3. /\ hotDown'[a] = "hook" => a \in deduper'
        /\ deduper \subseteq deduper' /\ dispatched'[a] <= 1
        /\ \A b \in Actions : b # a => dispatched'[b] = dispatched[b]
        /\ gate' = gate \/ gate' = Closed
    <2>1. CASE OverrideThenDispatch(a)
      BY <1>1, <2>1 DEF OverrideThenDispatch
    <2>2. CASE Dispatch(a, 0)
      BY <1>1, <2>2, DispatchOnce
    <2> QED
      BY <2>1, <2>2 DEF HotPress
  <1>4. OncePerPress'
    BY <1>1, <1>3 DEF HotPart, OncePerPress
  <1>5. \A b \in Actions : hotDown'[b] = "hook" => b \in deduper'
    BY <1>1, <1>2, <1>3 DEF HotPart
  <1>6. \A b, c \in Actions :
           b # c /\ KeyOf[b] = KeyOf[c] => hotDown'[b] = "up" \/ hotDown'[c] = "up"
    BY <1>1, <1>2 DEF HotPart
  <1> QED
    BY <1>3, <1>4, <1>5, <1>6 DEF HotPart

\* A repeat finds its press in the deduper.
LEMMA HotRepeatOnce ==
    ASSUME HandInv, NEW a \in Actions, HotRepeat(a)
    PROVE  HotPart' /\ (gate' = gate \/ gate' = Closed)
  <1>1. /\ dispatched \in [Actions -> Nat] /\ HotPart /\ hotDown[a] = "hook" /\ hotDown' = hotDown
        /\ Dispatch(a, dispatched[a])
    BY TypeParts DEF HandInv, CaptureInv, RestTyped, HotRepeat
  <1>2. ~Accepts(a)
    BY <1>1 DEF HotPart, Accepts
  <1>3. /\ \A b \in Actions : dispatched'[b] = dispatched[b]
        /\ deduper \subseteq deduper' /\ (gate' = gate \/ gate' = Closed)
    BY <1>1, <1>2, DispatchOnce
  <1> QED
    BY <1>1, <1>3 DEF HotPart, OncePerPress

\* The first binding of a trigger key has that trigger key.
LEMMA FirstSharesKey ==
    ASSUME NEW a \in Actions
    PROVE  KeyOf[BoundFirst(a)] = KeyOf[a]
  <1> DEFINE Is(i) == KeyOf[BindingOrder[i]] = KeyOf[a]
             First(i) == Is(i) /\ \A j \in 1..(i - 1) : KeyOf[BindingOrder[j]] # KeyOf[a]
  <1>1. \E i \in 1..3 : First(i)
    <2>1. Is(1) \/ Is(2) \/ Is(3)
      BY DEF Actions, BindingOrder
    <2>2. /\ Is(1) => First(1)
          /\ ~Is(1) /\ Is(2) => First(2)
          /\ ~Is(1) /\ ~Is(2) /\ Is(3) => First(3)
      OBVIOUS
    <2> QED
      BY <2>1, <2>2
  <1>2. Is(CHOOSE i \in 1..3 : First(i))
    BY <1>1
  <1> QED
    BY <1>2 DEF BoundFirst

\* A release forgets the action that was released, or one that is not down.
LEMMA HotReleaseOnce ==
    ASSUME HandInv, NEW a \in Actions, HotRelease(a)
    PROVE  HotPart' /\ (gate' = gate \/ gate' = Closed)
  <1>1. /\ hotDown \in [Actions -> {"up", "hook", "system"}] /\ HotPart
        /\ dispatched' = dispatched /\ hotDown[a] # "up"
        /\ hotDown' = [hotDown EXCEPT ![a] = "up"]
        /\ gate' = gate \/ gate' = Closed
    BY TypeParts DEF HandInv, CaptureInv, RestTyped, HotRelease, OverrideAndOffer
  <1>2. \A b \in Actions : hotDown'[b] = IF b = a THEN "up" ELSE hotDown[b]
    BY <1>1
  <1>3. \A b \in Actions : b \in deduper /\ b \notin deduper' => b = a \/ b = BoundFirst(a)
    BY DEF HotRelease
  <1>4. \A b \in Actions : hotDown'[b] = "hook" => b \in deduper'
    <2> SUFFICES ASSUME NEW b \in Actions, hotDown'[b] = "hook" PROVE b \in deduper'
      OBVIOUS
    <2>1. b # a /\ hotDown[b] = "hook" /\ b \in deduper
      BY <1>1, <1>2 DEF HotPart
    <2>2. b # BoundFirst(a)
      BY <1>1, <2>1, FirstSharesKey DEF HotPart
    <2> QED
      BY <1>3, <2>1, <2>2
  <1>5. \A b, c \in Actions :
           b # c /\ KeyOf[b] = KeyOf[c] => hotDown'[b] = "up" \/ hotDown'[c] = "up"
    BY <1>1, <1>2 DEF HotPart
  <1>6. OncePerPress'
    BY <1>1 DEF HotPart, OncePerPress
  <1> QED
    BY <1>1, <1>4, <1>5, <1>6 DEF HotPart

\* The control hotkeys, the tray and the end of a game mode override only
\* close the gate.
LEMMA OverridesAgree ==
    ASSUME HandInv, CaptureInv',
           \/ \E a \in Actions : HotPress(a) \/ HotRepeat(a) \/ HotRelease(a)
           \/ RequestEmergency
    PROVE  HandInv'
  <1>1. UNCHANGED <<th, peerHolds, context, overlapped, desktopCache, keyDown, winHolds, desktop,
                    gameMode, saving>>
    BY DEF HotPress, HotRepeat, HotRelease, RequestEmergency, runtime, modes, hand
  <1>2. HotPart' /\ (gate' = gate \/ gate' = Closed)
    <2>1. ASSUME RequestEmergency PROVE HotPart' /\ gate' = Closed
      BY <2>1, HotUntouched DEF RequestEmergency, hand, HandInv
    <2> QED
      BY <2>1, HotPressOnce, HotRepeatOnce, HotReleaseOnce
  <1> QED
    BY <1>1, <1>2, ThreadsAside

\* Game mode is switched: on, it lets what is open be until its override
\* closes the gate; off, it finds no session in which the peer holds the key.
LEMMA GameModeAgrees ==
    ASSUME HandInv, CaptureInv',
           GameModeOverrides \/ \E enabled \in BOOLEAN : SaveGameMode(enabled)
    PROVE  HandInv'
  <1>1. CASE GameModeOverrides
    <2>1. /\ gate' = Closed /\ saving' = FALSE /\ gameMode' = gameMode
          /\ UNCHANGED <<th, peerHolds, context, overlapped, desktopCache, desktop>>
          /\ UNCHANGED hand
      BY <1>1 DEF GameModeOverrides, OverrideAndOffer, runtime
    <2>2. DesktopPart' /\ OwnerPart' /\ PeerPart'
      BY <2>1, AsideKeeps
    <2>3. CommitPart' /\ AgreePart'
      BY <2>1, GatesDiffer, ReservedIsNotClosed DEF CommitPart, AgreePart
    <2>4. SavingPart' /\ HotPart'
      BY <2>1, HotUntouched DEF SavingPart, HandInv, hand
    <2> QED
      BY <2>2, <2>3, <2>4 DEF HandInv
  <1>2. ASSUME NEW enabled \in BOOLEAN, SaveGameMode(enabled) PROVE HandInv'
    <2>1. /\ ~saving /\ gameMode # enabled /\ gameMode' = enabled /\ saving' = enabled
          /\ UNCHANGED <<th, gate, peerHolds, context, overlapped, desktopCache, desktop>>
          /\ UNCHANGED hand
      BY <1>2 DEF SaveGameMode, loop, runtime
    <2>2. gameMode \in BOOLEAN
      BY TypeParts, Zenon DEF HandInv, CaptureInv, RestTyped
    <2>3. DesktopPart' /\ OwnerPart' /\ PeerPart'
      BY <2>1, AsideKeeps
    <2>4. SavingPart' /\ HotPart'
      BY <2>1, HotUntouched DEF SavingPart, HandInv, hand
    <2>5. CommitPart'
      BY <2>1 DEF HandInv, CommitPart, Serving, Alive, hand
    <2>6. AgreePart'
      <3> SUFFICES ASSUME NEW u \in Threads, gate = Opened(u), ~overlapped, desktop
                   PROVE  /\ ~gameMode' => (Told(u)' => keyDown) /\ (keyDown /\ ~winHolds => Told(u)')
                          /\ gameMode' /\ ~saving' => ~Told(u)' /\ (keyDown => winHolds)
        BY <2>1 DEF AgreePart, hand
      <3>1. Told(u)' <=> Told(u)
        BY <2>1 DEF Told
      <3>2. gameMode /\ ~saving => ~Told(u) /\ (keyDown => winHolds)
        BY DEF HandInv, AgreePart
      <3> QED
        BY <2>1, <2>2, <3>1, <3>2
    <2> QED
      BY <2>3, <2>4, <2>5, <2>6 DEF HandInv
  <1> QED
    BY <1>1, <1>2

\* The desktop only comes back once the cache knows that it had gone, or with
\* no thread left to look.
LEMMA SwitchDesktopAgrees ==
    ASSUME HandInv, SwitchDesktop, CaptureInv'
    PROVE  HandInv'
  <1>1. /\ ~desktop => ~desktopCache \/ \A t \in Threads : ~Serving(t)
        /\ desktop' = ~desktop
        /\ UNCHANGED <<th, gate, peerHolds, context, overlapped, desktopCache, gameMode, saving>>
        /\ UNCHANGED hand
    BY DEF SwitchDesktop, loop, runtime
  <1>2. DesktopPart' /\ OwnerPart' /\ PeerPart'
    BY <1>1, AsideKeeps
  <1>3. SavingPart' /\ HotPart'
    BY <1>1, HotUntouched DEF SavingPart, HandInv, hand
  <1>4. CASE ~desktop' \/ ~desktopCache
    <2>1. desktop' => gate' = Closed
      BY <1>1, <1>4 DEF HandInv, DesktopPart
    <2>2. CommitPart' /\ AgreePart'
      BY <2>1, GatesDiffer, ReservedIsNotClosed DEF CommitPart, AgreePart
    <2> QED
      BY <1>2, <1>3, <2>2 DEF HandInv
  <1>5. CASE \A t \in Threads : ~Serving(t)
    <2>1. \A t \in Threads : ~Serving(t)'
      BY <1>1, <1>5 DEF Serving, Alive
    <2>2. CommitPart' /\ AgreePart'
      BY <2>1 DEF CommitPart, AgreePart, CaptureInv, OpenGateIsServed
    <2> QED
      BY <1>2, <1>3, <2>2 DEF HandInv
  <1> QED
    BY <1>1, <1>4, <1>5
-----------------------------------------------------------------------------
\* At first nothing is down, and the gate is closed.
LEMMA InitHandInv == CaptureInit => HandInv
  <1> SUFFICES ASSUME CaptureInit PROVE HandInv
    OBVIOUS
  <1>1. /\ gate = Closed /\ desktopCache = TRUE /\ peerHolds = FALSE /\ saving = FALSE
        /\ hotDown = [a \in Actions |-> "up"] /\ dispatched = [a \in Actions |-> 0]
    BY DEF CaptureInit
  <1>2. DesktopPart /\ OwnerPart /\ PeerPart /\ SavingPart
    BY <1>1 DEF DesktopPart, OwnerPart, PeerPart, SavingPart, Closed
  <1>3. CommitPart /\ AgreePart
    BY <1>1, GatesDiffer, ReservedIsNotClosed DEF CommitPart, AgreePart
  <1>4. HotPart
    BY <1>1 DEF HotPart, OncePerPress
  <1> QED
    BY <1>2, <1>3, <1>4, InitCaptureInv DEF HandInv

\* Every step keeps hand, peer and this machine in agreement, and no key event
\* of a session that stays open gets past the hooks.
LEMMA StepHandInv ==
    HandInv /\ [CaptureNext]_captureVars => HandInv' /\ (SwallowedOrClosed \/ UNCHANGED captureVars)
  <1> SUFFICES ASSUME HandInv, [CaptureNext]_captureVars
               PROVE  HandInv' /\ (SwallowedOrClosed \/ UNCHANGED captureVars)
    OBVIOUS
  <1>1. CaptureInv'
    BY StepCaptureInv DEF HandInv
  <1>2. ASSUME NEW t \in Threads, StartInput(t) PROVE HandInv' /\ winHolds' = winHolds
    BY <1>1, <1>2, StartInputAgrees DEF StartInput, hand
  <1>3. ASSUME NEW t \in Threads, LoopStep(t) PROVE HandInv' /\ winHolds' = winHolds
    <2>1. CASE EndThread(t)
      BY <1>1, <2>1, EndThreadAgrees DEF EndThread, hand
    <2>2. CASE ~EndThread(t)
      <3>1. Loops(t)
        BY <1>3, <2>2, DrainsLoop, CheckDesktopLoops, ProcessEventLoops, PollClientLoops
           DEF LoopStep, HandInv
      <3>2. HandInv'
        BY <1>1, <3>1, LoopsKeep
      <3> QED
        BY <3>1, <3>2 DEF Loops, hand
    <2> QED BY <2>1, <2>2
  <1>4. CASE StopRequest \/ StopSignal
    <2>1. HandInv'
      BY <1>1, <1>4, StopAgrees
    <2>2. winHolds' = winHolds
      BY <1>4 DEF StopRequest, StopSignal, hand
    <2> QED
      BY <2>1, <2>2 DEF SwallowedOrClosed
  <1>5. ASSUME NEW down \in BOOLEAN, Key(down) PROVE HandInv' /\ SwallowedOrClosed
    BY <1>1, <1>5, KeyAgrees
  <1>6. CASE Move \/ SwitchHotkey
    <2>1. HandInv'
      BY <1>1, <1>6, MoveAgrees
    <2>2. winHolds' = winHolds
      BY <1>6 DEF Move, SwitchHotkey, hand
    <2> QED
      BY <2>1, <2>2 DEF SwallowedOrClosed
  <1>7. CASE \/ \E a \in Actions : HotPress(a) \/ HotRepeat(a) \/ HotRelease(a)
             \/ RequestEmergency
    <2>1. HandInv'
      BY <1>1, <1>7, OverridesAgree
    <2>2. winHolds' = winHolds
      BY <1>7 DEF HotPress, HotRepeat, HotRelease, RequestEmergency, hand
    <2> QED
      BY <2>1, <2>2 DEF SwallowedOrClosed
  <1>8. CASE \/ GameModeOverrides \/ SwitchDesktop
             \/ \E enabled \in BOOLEAN : SaveGameMode(enabled)
    <2>1. HandInv'
      BY <1>1, <1>8, GameModeAgrees, SwitchDesktopAgrees
    <2>2. winHolds' = winHolds
      BY <1>8 DEF GameModeOverrides, SwitchDesktop, SaveGameMode, hand
    <2> QED
      BY <2>1, <2>2 DEF SwallowedOrClosed
  <1>9. CASE UNCHANGED captureVars
    <2>1. UNCHANGED <<th, gate, peerHolds, context, overlapped, desktopCache, keyDown, winHolds,
                      desktop, gameMode, saving, hotDown, dispatched, deduper>>
      BY <1>9 DEF captureVars, loop, runtime, modes, hand
    <2>2. HotPart'
      BY <2>1, HotUntouched DEF HandInv
    <2> QED
      BY <1>1, <1>9, <2>1, <2>2, ThreadsAside
  <1> QED
    BY <1>2, <1>3, <1>4, <1>5, <1>6, <1>7, <1>8, <1>9 DEF CaptureNext, SwallowedOrClosed

\* In every session the peer, once the queue is processed, holds the key only
\* if the hand does, and holds it whenever a hook swallowed its press; no key
\* event of a session that stays open reaches this machine; a press of a
\* control hotkey is accepted once (the hooks, process_windows_hook_event,
\* HotkeyDeduper).
THEOREM PressesCountOnce == CaptureSpec => PressesCount
  <1>1. HandInv => KeyStateAgrees /\ OncePerPress
    BY DEF HandInv, AgreePart, HotPart, KeyStateAgrees, Plain
  <1>2. HandInv' => KeyStateAgrees' /\ OncePerPress'
    BY <1>1, PTL
  <1>3. HandInv /\ [CaptureNext]_captureVars
          => HandInv' /\ [KeyStateAgrees' /\ OncePerPress' /\ SwallowedOrClosed]_captureVars
    BY <1>2, StepHandInv
  <1> QED
    BY <1>3, InitHandInv, PTL DEF CaptureSpec, PressesCount
=============================================================================
