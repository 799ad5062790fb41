--------------------------- MODULE RoutingProofs ---------------------------
(***************************************************************************)
(* Proofs about Routing for every set of peers and sessions, every number  *)
(* of generations, every clock range and every pair of timeouts.           *)
(***************************************************************************)
EXTENDS Routing, TLAPS

\* A local router is between calls, restored, with its gate closed and no
\* session left over.
LocalPart ==
    route \in LocalRoutes =>
        /\ gate.local
        /\ capture = "none"
        /\ pc = "idle"
        /\ handoff.session = None

\* While a handoff is prepared the gate is closed, and its generation is the
\* request's exactly as long as nobody has overridden it.
PreparingPart ==
    route = "PreparingRemote" =>
        /\ gate.local
        /\ handoff.request <= gate.gen
        /\ handoff.request < MaxGen
        /\ gate.gen = handoff.request => ~cancelled

\* What an active route owes to its gate and to its capture port.
RemotePart ==
    route = "RemoteActive" =>
        /\ pc = "idle"
        /\ capture = "active"
        /\ handoff.commit_sent
        /\ handoff.request < MaxGen
        /\ ~gate.local => gate.gen = handoff.request

\* The points of a call at which focus and Commit have been asked for.
CallPart ==
    /\ route = "PreparingRemote" => (capture = "active" <=> pc = "cas")
    /\ pc \in {"focus", "commit_check"} =>
          ~handoff.commit_sent /\ handoff.session # None
    /\ pc \in {"activate", "cas"} => handoff.commit_sent
    /\ pc \in {"prepare", "prepare_check"} => ~handoff.commit_sent
    /\ route \notin LocalRoutes /\ handoff.commit_sent =>
          /\ handoff.session # None
          /\ attempts = [focus |-> 1, commit |-> 1]
    /\ route = "PreparingRemote" /\ ~handoff.commit_sent =>
          /\ attempts.commit = 0
          /\ attempts.focus =
                IF pc \in {"focus", "commit_check"} THEN 1 ELSE 0

\* Past attempts stay counted until the next request.
AttemptsPart == attempts.focus <= 1 /\ attempts.commit <= 1

IInv ==
    /\ TypeOK
    /\ LocalPart
    /\ PreparingPart
    /\ RemotePart
    /\ CallPart
    /\ AttemptsPart
-----------------------------------------------------------------------------
\* An override yields a gate word, closed, of a generation no smaller; below
\* the last generation it is a new one.
LEMMA OverriddenFacts ==
    ASSUME NEW g \in Gates
    PROVE  /\ Overridden(g) \in Gates
           /\ Overridden(g).local
           /\ g.gen <= Overridden(g).gen
           /\ g.gen < MaxGen => Overridden(g).gen = g.gen + 1
  BY RoutingAssumption DEF Gates, Overridden

\* Router::with_gate starts in the invariant.
LEMMA InitIInv == Init => IInv
  <1> SUFFICES ASSUME Init PROVE IInv
    OBVIOUS
  <1> USE RoutingAssumption DEF Init
  <1>1. NoHandoff \in Handoffs
    BY DEF NoHandoff, Handoffs
  <1>2. gate \in Gates
    BY DEF Gates
  <1>3. attempts \in [focus : Nat, commit : Nat] /\ clock \in 0..MaxTime
    OBVIOUS
  <1>4. TypeOK
    BY <1>1, <1>2, <1>3
    DEF TypeOK, Routes, LocalRoutes, Effects, CallPoints
  <1> QED
    BY <1>4 DEF IInv, LocalPart, PreparingPart, RemotePart, CallPart,
                AttemptsPart, LocalRoutes, NoHandoff

\* go_local, from whatever call it is reached.
LEMMA LeaveRemoteIInv ==
    ASSUME IInv, NEW reason \in Reasons, NEW returned \in Effects,
           LeaveRemote(reason, returned)
    PROVE  IInv'
  <1>1. /\ gate' \in Gates
        /\ gate'.local
    BY OverriddenFacts DEF IInv, TypeOK, LeaveRemote
  <1>2. /\ handoff' \in Handoffs
        /\ route' \in LocalRoutes
        /\ handoff'.session = None
    BY RoutingAssumption
    DEF LeaveRemote, NoHandoff, Handoffs, LocalState, LocalRoutes
  <1>3. capture' = "none"
    BY DEF IInv, LocalPart, LeaveRemote
  <1>4. TypeOK'
    BY <1>1, <1>2, <1>3
    DEF IInv, TypeOK, LeaveRemote, Routes, CallPoints
  <1> QED
    BY <1>1, <1>2, <1>3, <1>4
    DEF IInv, LocalPart, PreparingPart, RemotePart, CallPart, AttemptsPart,
        LocalRoutes, LeaveRemote

\* An override by another thread, at any point of a call.
LEMMA RequestLocalIInv == IInv /\ RequestLocal => IInv'
  <1> SUFFICES ASSUME IInv, RequestLocal PROVE IInv'
    OBVIOUS
  <1>1. /\ gate' \in Gates
        /\ gate'.local
        /\ gate.gen <= gate'.gen
        /\ gate.gen < MaxGen => gate'.gen = gate.gen + 1
    BY OverriddenFacts DEF IInv, TypeOK, RequestLocal
  <1>2. TypeOK'
    BY <1>1 DEF IInv, TypeOK, RequestLocal
  <1>3. PreparingPart'
    <2> SUFFICES ASSUME route = "PreparingRemote"
                 PROVE  PreparingPart'
      BY DEF PreparingPart, RequestLocal
    <2>1. /\ handoff.request <= gate.gen
          /\ handoff.request < MaxGen
          /\ handoff.request \in Nat
          /\ gate.gen \in Nat
      BY RoutingAssumption DEF IInv, PreparingPart, TypeOK, Handoffs, Gates
    <2>2. handoff.request # gate'.gen
      BY <1>1, <2>1, RoutingAssumption DEF IInv, TypeOK, Gates
    <2> QED
      BY <1>1, <2>1, <2>2, RoutingAssumption
      DEF PreparingPart, RequestLocal, Gates
  <1> QED
    BY <1>1, <1>2, <1>3
    DEF IInv, LocalPart, RemotePart, CallPart, AttemptsPart, RequestLocal

\* go_remote reserves a fresh generation, closed and not overridden.
LEMMA GoRemoteIInv ==
    ASSUME IInv, NEW p \in Peers, GoRemote(p) PROVE IInv'
  <1> USE RoutingAssumption
  <1>1. gate.gen + 1 \in 0..MaxGen /\ gate.gen + 1 < MaxGen
    BY DEF IInv, TypeOK, Gates, GoRemote, MayGoRemote, CanReserve
  <1>2. gate' = [gen |-> gate.gen + 1, local |-> TRUE]
    BY DEF GoRemote, Reserved
  <1>3. /\ handoff' \in Handoffs
        /\ handoff'.request = gate.gen + 1
        /\ ~handoff'.commit_sent
    <2>1. /\ clock \in Nat
          /\ clock + HandoffTimeout \in Nat
          /\ clock + KeysTimeout \in Nat
      BY DEF IInv, TypeOK
    <2>2. handoff' = [peer |-> p, request |-> gate.gen + 1,
                      deadline |-> clock + HandoffTimeout,
                      keys_deadline |-> clock + KeysTimeout,
                      keys_released_seen |-> FALSE,
                      session |-> None, commit_sent |-> FALSE]
      BY DEF GoRemote, NoHandoff
    <2> HIDE RoutingAssumption
    <2> QED
      BY <1>1, <2>1, <2>2 DEF Handoffs
  <1>4. /\ route' = "PreparingRemote"
        /\ pc' = "prepare"
        /\ capture' = "none"
        /\ effect' = "none"
        /\ attempts' = [focus |-> 0, commit |-> 0]
        /\ cancelled' = FALSE
        /\ UNCHANGED <<game_mode, last_return, clock>>
    BY DEF GoRemote, MayGoRemote, IInv, LocalPart
  <1>5. gate' \in Gates
    BY <1>1, <1>2 DEF Gates
  <1>6. attempts' \in [focus : Nat, commit : Nat]
    BY <1>4
  <1>7. TypeOK'
    BY <1>3, <1>4, <1>5, <1>6 DEF IInv, TypeOK, Routes, Effects, CallPoints
  <1>8. gate'.gen = handoff'.request /\ gate'.local /\ gate'.gen < MaxGen
    BY <1>1, <1>2, <1>3
  <1>9. handoff'.request <= gate'.gen
    BY <1>1, <1>2, <1>3
  <1>10. attempts'.focus = 0 /\ attempts'.commit = 0
    BY <1>4
  <1> QED
    BY <1>3, <1>4, <1>7, <1>8, <1>9, <1>10
    DEF IInv, LocalPart, PreparingPart, RemotePart, CallPart, AttemptsPart,
        LocalRoutes

\* ready only fills in the session.
LEMMA ReadyIInv ==
    ASSUME IInv, NEW request \in Requests, NEW s \in Sessions,
           Ready(request, s)
    PROVE  IInv'
  <1>1. /\ handoff' \in Handoffs
        /\ handoff'.request = handoff.request
        /\ handoff'.commit_sent = handoff.commit_sent
        /\ handoff'.session = s
    BY DEF IInv, TypeOK, Handoffs, Ready
  <1>2. s # None
    BY RoutingAssumption
  <1>3. TypeOK'
    BY <1>1 DEF IInv, TypeOK, Ready, Effects
  <1> QED
    BY <1>1, <1>2, <1>3
    DEF IInv, LocalPart, PreparingPart, RemotePart, CallPart, AttemptsPart,
        LocalRoutes, Ready, ReadyMatches

\* advance counts a focus attempt only before the Commit.
LEMMA AdvancePreparingIInv ==
    ASSUME IInv, NEW released \in BOOLEAN, AdvancePreparing(released)
    PROVE  IInv'
  <1>1. CASE HandoffFault(released) # None
    <2>1. HandoffFault(released) \in Reasons
      BY <1>1 DEF HandoffFault, Reasons
    <2>2. ReturnEffect \in Effects
      BY DEF ReturnEffect, Effects
    <2> QED
      BY <1>1, <2>1, <2>2, LeaveRemoteIInv DEF AdvancePreparing
  <1>2. CASE HandoffFault(released) = None
    <2>1. /\ handoff' = [handoff EXCEPT !.keys_released_seen = released]
          /\ pc' = IF ~handoff.commit_sent /\ released
                         /\ handoff.session # None
                   THEN "focus" ELSE "idle"
          /\ attempts' = [attempts EXCEPT !.focus =
                             IF pc' = "focus" THEN @ + 1 ELSE @]
          /\ effect' = "none"
          /\ UNCHANGED <<gate, route, game_mode, last_return, capture, clock,
                         cancelled>>
          /\ route = "PreparingRemote"
          /\ pc = "idle"
      BY <1>2 DEF AdvancePreparing
    <2>2. /\ handoff' \in Handoffs
          /\ handoff'.request = handoff.request
          /\ handoff'.commit_sent = handoff.commit_sent
          /\ handoff'.session = handoff.session
      BY <2>1 DEF IInv, TypeOK, Handoffs
    <2>3. /\ attempts' \in [focus : Nat, commit : Nat]
          /\ attempts'.commit = attempts.commit
          /\ attempts'.focus =
                IF pc' = "focus" THEN attempts.focus + 1 ELSE attempts.focus
      BY <2>1 DEF IInv, TypeOK
    <2>4. TypeOK'
      BY <2>1, <2>2, <2>3 DEF IInv, TypeOK, Effects, CallPoints
    <2>5. handoff.commit_sent => attempts' = attempts
      BY <2>1 DEF IInv, TypeOK
    <2>6. CallPart'
      BY <2>1, <2>2, <2>3, <2>5 DEF IInv, CallPart, LocalRoutes
    <2>7. AttemptsPart'
      BY <2>1, <2>3 DEF IInv, CallPart, AttemptsPart
    <2> QED
      BY <2>1, <2>2, <2>4, <2>6, <2>7
      DEF IInv, LocalPart, PreparingPart, RemotePart, LocalRoutes
  <1> QED
    BY <1>1, <1>2

\* commit_ack gets as far as the activation only after the Commit.
LEMMA CommitAckIInv ==
    ASSUME IInv, NEW request \in Requests, NEW s \in Sessions,
           CommitAck(request, s)
    PROVE  IInv'
  <1>1. CASE clock >= handoff.deadline \/ ~StillPreparing(gate, request)
    <2>1. PICK reason \in {"Timeout", "Emergency"} :
              LeaveRemote(reason, "none")
      BY <1>1 DEF CommitAck
    <2> QED
      BY <2>1, LeaveRemoteIInv DEF Reasons, Effects
  <1>2. CASE ~(clock >= handoff.deadline \/ ~StillPreparing(gate, request))
    <2>1. /\ pc = "idle"
          /\ pc' = "activate"
          /\ effect' = "none"
          /\ route = "PreparingRemote"
          /\ handoff.commit_sent
          /\ UNCHANGED <<gate, route, handoff, game_mode, last_return,
                         capture, clock, cancelled, attempts>>
      BY <1>2 DEF CommitAck, AckMatches
    <2>2. TypeOK'
      BY <2>1 DEF IInv, TypeOK, Effects, CallPoints
    <2> QED
      BY <2>1, <2>2
      DEF IInv, LocalPart, PreparingPart, RemotePart, CallPart,
          AttemptsPart, LocalRoutes
  <1> QED
    BY <1>1, <1>2

\* A candidate that is stored or refused.
LEMMA PrepareCaptureIInv == IInv /\ PrepareCapture => IInv'
  <1> SUFFICES ASSUME IInv, PrepareCapture PROVE IInv'
    OBVIOUS
  <1>1. CASE LeaveRemote("CaptureFailed", "none")
    BY <1>1, LeaveRemoteIInv DEF Reasons, Effects
  <1>2. CASE /\ capture' = "pending"
             /\ pc' = "prepare_check"
             /\ UNCHANGED <<gate, route, handoff, game_mode, last_return,
                            effect, clock, cancelled, attempts>>
    <2>1. TypeOK'
      BY <1>2 DEF IInv, TypeOK, CallPoints
    <2>2. route = "PreparingRemote"
      BY DEF PrepareCapture, IInv, TypeOK, Routes, LocalPart, RemotePart
    <2> QED
      BY <1>2, <2>1, <2>2
      DEF PrepareCapture, IInv, LocalPart, PreparingPart, RemotePart,
          CallPart, AttemptsPart, LocalRoutes
  <1> QED
    BY <1>1, <1>2 DEF PrepareCapture

\* The check of the gate after the candidate was stored.
LEMMA FinishPrepareIInv == IInv /\ FinishPrepare => IInv'
  <1> SUFFICES ASSUME IInv, FinishPrepare PROVE IInv'
    OBVIOUS
  <1>1. CASE LeaveRemote("Emergency", "none")
    BY <1>1, LeaveRemoteIInv DEF Reasons, Effects
  <1>2. CASE /\ pc' = "idle"
             /\ effect' = "Prepare"
             /\ UNCHANGED <<gate, route, handoff, game_mode, last_return,
                            capture, clock, cancelled, attempts>>
    <2>1. TypeOK'
      BY <1>2 DEF IInv, TypeOK, Effects, CallPoints
    <2> QED
      BY <1>2, <2>1
      DEF FinishPrepare, IInv, LocalPart, PreparingPart, RemotePart,
          CallPart, AttemptsPart, LocalRoutes
  <1> QED
    BY <1>1, <1>2 DEF FinishPrepare

\* Focus won or refused.
LEMMA PrepareFocusIInv == IInv /\ PrepareFocus => IInv'
  <1> SUFFICES ASSUME IInv, PrepareFocus PROVE IInv'
    OBVIOUS
  <1>1. CASE LeaveRemote("FocusUnavailable", ReturnEffect)
    BY <1>1, LeaveRemoteIInv DEF Reasons, Effects, ReturnEffect
  <1>2. CASE /\ pc' = "commit_check"
             /\ UNCHANGED <<gate, route, handoff, game_mode, last_return,
                            capture, effect, clock, cancelled, attempts>>
    <2>1. TypeOK'
      BY <1>2 DEF IInv, TypeOK, CallPoints
    <2> QED
      BY <1>2, <2>1
      DEF PrepareFocus, IInv, LocalPart, PreparingPart, RemotePart,
          CallPart, AttemptsPart, LocalRoutes
  <1> QED
    BY <1>1, <1>2 DEF PrepareFocus

\* The Commit is counted where it is remembered.
LEMMA IssueCommitIInv == IInv /\ IssueCommit => IInv'
  <1> SUFFICES ASSUME IInv, IssueCommit PROVE IInv'
    OBVIOUS
  <1>1. CASE LeaveRemote("Emergency", ReturnEffect)
    BY <1>1, LeaveRemoteIInv DEF Reasons, Effects, ReturnEffect
  <1>2. CASE /\ handoff' = [handoff EXCEPT !.commit_sent = TRUE]
             /\ effect' = "Commit"
             /\ attempts' = [attempts EXCEPT !.commit = @ + 1]
             /\ pc' = "idle"
             /\ UNCHANGED <<gate, route, game_mode, last_return, capture,
                            clock, cancelled>>
    <2>1. /\ pc = "commit_check"
          /\ route = "PreparingRemote"
      BY DEF IssueCommit, IInv, TypeOK, Routes, LocalPart, RemotePart
    <2>2. /\ handoff' \in Handoffs
          /\ handoff'.request = handoff.request
          /\ handoff'.session = handoff.session
          /\ handoff'.commit_sent
      BY <1>2 DEF IInv, TypeOK, Handoffs
    <2>3. attempts' = [focus |-> 1, commit |-> 1]
      <3>1. attempts = [focus |-> 1, commit |-> 0]
        BY <2>1 DEF IInv, TypeOK, CallPart
      <3> QED
        BY <1>2, <3>1
    <2>4. TypeOK'
      BY <1>2, <2>2, <2>3 DEF IInv, TypeOK, Effects, CallPoints
    <2>5. AttemptsPart'
      BY <2>3 DEF AttemptsPart
    <2>6. CallPart'
      BY <1>2, <2>1, <2>2, <2>3 DEF IInv, CallPart, LocalRoutes
    <2> QED
      BY <1>2, <2>1, <2>2, <2>4, <2>5, <2>6
      DEF IInv, LocalPart, PreparingPart, RemotePart, LocalRoutes
  <1> QED
    BY <1>1, <1>2 DEF IssueCommit

\* The candidate becomes active, or everything is given back.
LEMMA ActivateCaptureIInv == IInv /\ ActivateCapture => IInv'
  <1> SUFFICES ASSUME IInv, ActivateCapture PROVE IInv'
    OBVIOUS
  <1>1. CASE LeaveRemote("CaptureFailed", "none")
    BY <1>1, LeaveRemoteIInv DEF Reasons, Effects
  <1>2. CASE /\ capture' = "active"
             /\ pc' = "cas"
             /\ UNCHANGED <<gate, route, handoff, game_mode, last_return,
                            effect, clock, cancelled, attempts>>
    <2>1. TypeOK'
      BY <1>2 DEF IInv, TypeOK, CallPoints
    <2>2. pc = "activate" /\ route = "PreparingRemote"
      BY DEF ActivateCapture, IInv, TypeOK, Routes, LocalPart, RemotePart
    <2> QED
      BY <1>2, <2>1, <2>2
      DEF IInv, LocalPart, PreparingPart, RemotePart, CallPart,
          AttemptsPart, LocalRoutes
  <1> QED
    BY <1>1, <1>2 DEF ActivateCapture

\* The compare-exchange: it succeeds on the request's own word and no other.
LEMMA ActivatedWordFacts ==
    ASSUME NEW g \in Gates, NEW request, ActivatedWord(g, request) # g
    PROVE  /\ g.gen = request
           /\ g.local
           /\ ActivatedWord(g, request) = [gen |-> request, local |-> FALSE]
  BY DEF ActivatedWord, StillPreparing

\* The gate opens for the request in force, or the route returns.
LEMMA ActivateGateIInv == IInv /\ ActivateGate => IInv'
  <1> SUFFICES ASSUME IInv, ActivateGate PROVE IInv'
    OBVIOUS
  <1>1. CASE LeaveRemote("Emergency", "none")
    BY <1>1, LeaveRemoteIInv DEF Reasons, Effects
  <1>2. CASE /\ ActivatedWord(gate, handoff.request) # gate
             /\ gate' = ActivatedWord(gate, handoff.request)
             /\ route' = "RemoteActive"
             /\ pc' = "idle"
             /\ UNCHANGED <<handoff, game_mode, last_return, capture, effect,
                            clock, cancelled, attempts>>
    <2>1. /\ gate' = [gen |-> handoff.request, local |-> FALSE]
          /\ gate.gen = handoff.request
      BY <1>2, ActivatedWordFacts DEF IInv, TypeOK
    <2>2. /\ pc = "cas"
          /\ route = "PreparingRemote"
          /\ capture = "active"
          /\ handoff.commit_sent
      BY DEF ActivateGate, IInv, TypeOK, Routes, LocalPart, RemotePart,
             CallPart
    <2>3. gate' \in Gates
      <3>1. handoff.request \in 0..MaxGen
        BY DEF IInv, TypeOK, Handoffs
      <3> QED
        BY <2>1, <3>1 DEF Gates
    <2>4. TypeOK'
      BY <1>2, <2>3 DEF IInv, TypeOK, Routes, CallPoints
    <2>5. gate'.gen = handoff.request
      BY <2>1
    <2> QED
      BY <1>2, <2>2, <2>4, <2>5
      DEF IInv, LocalPart, PreparingPart, RemotePart, CallPart,
          AttemptsPart, LocalRoutes
  <1> QED
    BY <1>1, <1>2 DEF ActivateGate

\* An overridden active route is left through go_local.
LEMMA AdvanceActiveIInv == IInv /\ AdvanceActive => IInv'
  BY LeaveRemoteIInv DEF AdvanceActive, Reasons, Effects, ReturnEffect

\* go_local as a call.
LEMMA GoLocalIInv ==
    ASSUME IInv, NEW reason \in Reasons, GoLocal(reason) PROVE IInv'
  BY LeaveRemoteIInv DEF GoLocal, Effects, ReturnEffect

\* The game mode renames a local route only.
LEMMA SetGameModeIInv ==
    ASSUME IInv, NEW enabled \in BOOLEAN, SetGameMode(enabled) PROVE IInv'
  <1>1. route' \in LocalRoutes <=> route \in LocalRoutes
    BY DEF SetGameMode, LocalRoutes
  <1>2. route \notin LocalRoutes => route' = route
    BY DEF SetGameMode
  <1>3. TypeOK'
    BY DEF SetGameMode, IInv, TypeOK, Routes, LocalRoutes
  <1> QED
    BY <1>1, <1>2, <1>3
    DEF SetGameMode, IInv, LocalPart, PreparingPart, RemotePart, CallPart,
        AttemptsPart, LocalRoutes

\* Time passes.
LEMMA TickIInv == IInv /\ Tick => IInv'
  <1> SUFFICES ASSUME IInv, Tick PROVE IInv'
    OBVIOUS
  <1>1. clock' \in 0..MaxTime
    BY RoutingAssumption DEF Tick, IInv, TypeOK
  <1>2. TypeOK'
    BY <1>1 DEF Tick, IInv, TypeOK
  <1> QED
    BY <1>2
    DEF Tick, IInv, LocalPart, PreparingPart, RemotePart, CallPart,
        AttemptsPart

\* The induction step: one case per action.
LEMMA NextIInv == IInv /\ [Next]_vars => IInv'
  <1> SUFFICES ASSUME IInv, [Next]_vars PROVE IInv'
    OBVIOUS
  <1>1. ASSUME NEW p \in Peers, GoRemote(p) PROVE IInv'
    BY <1>1, GoRemoteIInv
  <1>2. ASSUME NEW request \in Requests, NEW s \in Sessions, Ready(request, s)
        PROVE  IInv'
    BY <1>2, ReadyIInv
  <1>3. ASSUME NEW released \in BOOLEAN, AdvancePreparing(released)
        PROVE  IInv'
    BY <1>3, AdvancePreparingIInv
  <1>4. ASSUME NEW request \in Requests, NEW s \in Sessions,
               CommitAck(request, s)
        PROVE  IInv'
    BY <1>4, CommitAckIInv
  <1>5. ASSUME NEW reason \in {"User", "Emergency", "NetworkFailed"},
               GoLocal(reason)
        PROVE  IInv'
    BY <1>5, GoLocalIInv DEF Reasons
  <1>6. ASSUME NEW enabled \in BOOLEAN, SetGameMode(enabled) PROVE IInv'
    BY <1>6, SetGameModeIInv
  <1>7. CASE AdvanceActive
    BY <1>7, AdvanceActiveIInv
  <1>8. CASE CallStep
    BY <1>8, PrepareCaptureIInv, FinishPrepareIInv, PrepareFocusIInv,
       IssueCommitIInv, ActivateCaptureIInv, ActivateGateIInv DEF CallStep
  <1>9. CASE RequestLocal
    BY <1>9, RequestLocalIInv
  <1>10. CASE Tick
    BY <1>10, TickIInv
  <1>11. CASE UNCHANGED vars
    BY <1>11
    DEF vars, IInv, TypeOK, LocalPart, PreparingPart, RemotePart, CallPart,
        AttemptsPart
  <1> QED
    BY <1>1, <1>2, <1>3, <1>4, <1>5, <1>6, <1>7, <1>8, <1>9, <1>10, <1>11
    DEF Next, RouterCall

\* The inductive invariant holds in every reachable state of the routing core.
THEOREM Invariance == Spec => []IInv
  BY InitIInv, NextIInv, PTL DEF Spec
-----------------------------------------------------------------------------
\* Every variable of LocalOverride, Router and the capture port keeps its
\* type; in particular the generation never passes the last one.
THEOREM TypeCorrect == Spec => []TypeOK
  <1>1. IInv => TypeOK
    BY DEF IInv
  <1> QED
    BY <1>1, Invariance, PTL

\* The hooks swallow input only for the activated request (LocalOverride's
\* bit and Router's state agree), however an override interleaves.
THEOREM GateAgreement == Spec => []GateOpenIsActive
  <1>1. IInv => GateOpenIsActive
    BY DEF IInv, TypeOK, Routes, LocalPart, PreparingPart, RemotePart,
           GateOpenIsActive
  <1> QED
    BY <1>1, Invariance, PTL

\* go_local, and every error path, leaves the platform restored.
THEOREM LocalRestored == Spec => []LocalIsRestored
  <1>1. IInv => LocalIsRestored
    BY DEF IInv, LocalPart, LocalIsRestored
  <1> QED
    BY <1>1, Invariance, PTL

\* Focus and Commit are asked for at most once per request.
THEOREM OneAttempt == Spec => []OncePerRequest
  <1>1. IInv => OncePerRequest
    BY DEF IInv, AttemptsPart, OncePerRequest
  <1> QED
    BY <1>1, Invariance, PTL

\* The pointer is captured only after the Commit of an offered session.
THEOREM CommitBeforeCapture == Spec => []CaptureFollowsCommit
  <1>1. IInv => CaptureFollowsCommit
    BY DEF IInv, TypeOK, Routes, LocalPart, RemotePart, CallPart,
           CaptureFollowsCommit
  <1> QED
    BY <1>1, Invariance, PTL
-----------------------------------------------------------------------------
(* Action properties: what a single step may never do.                     *)

\* go_local closes the gate, or leaves it closed.
LEMMA LeaveRemoteCloses ==
    ASSUME IInv, NEW reason, NEW returned, LeaveRemote(reason, returned)
    PROVE  gate'.local /\ route' \in LocalRoutes
  BY DEF LeaveRemote, Overridden, LocalState, LocalRoutes

\* Of all steps only the compare-exchange opens the gate.
LEMMA OnlyActivationOpens ==
    ASSUME IInv, Next, gate.local, ~gate'.local
    PROVE  /\ ActivateGate
           /\ ActivatedWord(gate, handoff.request) # gate
           /\ gate' = ActivatedWord(gate, handoff.request)
  <1>1. ASSUME NEW p \in Peers, GoRemote(p) PROVE FALSE
    BY <1>1 DEF GoRemote, Reserved
  <1>2. ~RequestLocal
    BY DEF RequestLocal, Overridden
  <1>3. ASSUME NEW reason \in Reasons, GoLocal(reason) PROVE FALSE
    BY <1>3, LeaveRemoteCloses DEF GoLocal
  <1>4. ASSUME NEW released \in BOOLEAN, AdvancePreparing(released)
        PROVE  FALSE
    BY <1>4, LeaveRemoteCloses DEF AdvancePreparing
  <1>5. ASSUME NEW request \in Requests, NEW s \in Sessions,
               Ready(request, s) \/ CommitAck(request, s)
        PROVE  FALSE
    BY <1>5, LeaveRemoteCloses DEF Ready, CommitAck
  <1>6. ASSUME NEW enabled \in BOOLEAN, SetGameMode(enabled) PROVE FALSE
    BY <1>6 DEF SetGameMode
  <1>7. ~AdvanceActive /\ ~Tick
    BY LeaveRemoteCloses DEF AdvanceActive, Tick
  <1>8. ~PrepareCapture /\ ~FinishPrepare /\ ~PrepareFocus /\ ~IssueCommit
        /\ ~ActivateCapture
    BY LeaveRemoteCloses
    DEF PrepareCapture, FinishPrepare, PrepareFocus, IssueCommit,
        ActivateCapture
  <1>9. ActivateGate
    BY <1>1, <1>2, <1>3, <1>4, <1>5, <1>6, <1>7, <1>8
    DEF Next, RouterCall, CallStep, Reasons
  <1> QED
    BY <1>9, LeaveRemoteCloses DEF ActivateGate

\* An acknowledgement that races an override loses: the gate opens only for
\* the request whose generation it still holds, and only if nobody asked for
\* local control since that request began.
THEOREM LateAckLoses == Spec => NoLateActivation
  <1>1. ASSUME IInv, Next, gate.local, ~gate'.local
        PROVE  ~cancelled /\ gate'.gen = handoff.request
    <2>1. /\ ActivateGate
          /\ ActivatedWord(gate, handoff.request) # gate
          /\ gate' = ActivatedWord(gate, handoff.request)
      BY <1>1, OnlyActivationOpens
    <2>2. /\ gate.gen = handoff.request
          /\ gate' = [gen |-> handoff.request, local |-> FALSE]
      BY <1>1, <2>1, ActivatedWordFacts DEF IInv, TypeOK
    <2>3. route = "PreparingRemote"
      BY <1>1, <2>1
      DEF ActivateGate, IInv, TypeOK, Routes, LocalPart, RemotePart
    <2> QED
      BY <1>1, <2>2, <2>3 DEF IInv, PreparingPart
  <1>2. IInv /\ [Next]_vars
          => [gate.local /\ ~gate'.local
                => ~cancelled /\ gate'.gen = handoff.request]_vars
    BY <1>1
  <1> QED
    BY <1>2, Invariance, PTL DEF Spec, NoLateActivation

\* The session that becomes active is the one the Commit was sent for.
THEOREM SessionFixed == Spec => SessionIsFixed
  <1>1. ASSUME IInv, Next, handoff.session # None, route' \notin LocalRoutes
        PROVE  handoff'.session = handoff.session
    <2>1. ASSUME NEW p \in Peers, GoRemote(p) PROVE FALSE
      BY <1>1, <2>1 DEF GoRemote, MayGoRemote, IInv, LocalPart
    <2>2. ASSUME NEW request \in Requests, NEW s \in Sessions,
                 Ready(request, s)
          PROVE  handoff'.session = handoff.session
      BY <1>1, <2>2 DEF Ready, ReadyMatches, IInv, TypeOK, Handoffs
    <2>3. ASSUME NEW released \in BOOLEAN, AdvancePreparing(released)
          PROVE  handoff'.session = handoff.session
      BY <1>1, <2>3, LeaveRemoteCloses DEF AdvancePreparing, IInv, TypeOK, Handoffs
    <2>4. ASSUME NEW request \in Requests, NEW s \in Sessions,
                 CommitAck(request, s)
          PROVE  handoff'.session = handoff.session
      BY <1>1, <2>4, LeaveRemoteCloses DEF CommitAck
    <2>5. ASSUME NEW reason \in Reasons, GoLocal(reason) PROVE FALSE
      BY <1>1, <2>5, LeaveRemoteCloses DEF GoLocal
    <2>6. IssueCommit => handoff'.session = handoff.session
      BY <1>1, LeaveRemoteCloses DEF IssueCommit, IInv, TypeOK, Handoffs
    <2>7. CASE \/ AdvanceActive \/ PrepareCapture \/ FinishPrepare
               \/ PrepareFocus \/ ActivateCapture \/ ActivateGate
      BY <1>1, <2>7, LeaveRemoteCloses
      DEF AdvanceActive, PrepareCapture, FinishPrepare, PrepareFocus,
          ActivateCapture, ActivateGate
    <2>8. CASE \/ RequestLocal \/ Tick
               \/ \E enabled \in BOOLEAN : SetGameMode(enabled)
      BY <2>8 DEF RequestLocal, Tick, SetGameMode
    <2> QED
      BY <1>1, <2>1, <2>2, <2>3, <2>4, <2>5, <2>6, <2>7, <2>8
      DEF Next, RouterCall, CallStep, Reasons
  <1>2. IInv /\ [Next]_vars
          => [handoff.session # None /\ route' \notin LocalRoutes
                => handoff'.session = handoff.session]_vars
    BY <1>1
  <1> QED
    BY <1>2, Invariance, PTL DEF Spec, SessionIsFixed
-----------------------------------------------------------------------------
(* Refinement: the safety part of ImplementsHandoff.                       *)

phaseBar == IF route \in LocalRoutes THEN "local"
            ELSE IF route = "RemoteActive" THEN "remote" ELSE "preparing"
revokedBar == \/ route \in LocalRoutes
              \/ route = "PreparingRemote" /\ gate.gen # handoff.request
              \/ route = "RemoteActive" /\ gate.local

\* A step that leaves the route, and the gate with its request, is a stutter.
LEMMA StutterBar ==
    ASSUME \/ /\ UNCHANGED <<route, gate>>
              /\ handoff'.request = handoff.request
           \/ route \in LocalRoutes /\ route' \in LocalRoutes
    PROVE  phaseBar' = phaseBar /\ revokedBar' = revokedBar
  BY DEF phaseBar, revokedBar

\* Leaving remote is the abstract Return, or nothing from a local route.
LEMMA LeaveRemoteBar ==
    ASSUME NEW reason, NEW returned, LeaveRemote(reason, returned)
    PROVE  \/ Abstract!Return
           \/ phaseBar' = phaseBar /\ revokedBar' = revokedBar
  <1>1. route' \in LocalRoutes
    BY DEF LeaveRemote, LocalState, LocalRoutes
  <1>2. CASE route \in LocalRoutes
    BY <1>1, <1>2, StutterBar
  <1>3. CASE route \notin LocalRoutes
    BY <1>1, <1>3 DEF Abstract!Return
  <1> QED
    BY <1>2, <1>3

\* An override revokes the handoff that is in force, if any.
LEMMA RequestLocalBar ==
    ASSUME IInv, RequestLocal
    PROVE  \/ Abstract!Revoke
           \/ phaseBar' = phaseBar /\ revokedBar' = revokedBar
  <1>1. /\ gate'.local
        /\ UNCHANGED <<route, handoff>>
    BY DEF RequestLocal, Overridden
  <1>2. CASE route \in LocalRoutes
    BY <1>1, <1>2, StutterBar
  <1>3. CASE route = "PreparingRemote"
    <2>1. gate.gen \in Nat /\ handoff.request \in Nat /\ MaxGen \in Nat
      BY RoutingAssumption DEF IInv, TypeOK, Gates, Handoffs
    <2>2. /\ handoff.request <= gate.gen
          /\ handoff.request < MaxGen
          /\ gate.gen <= gate'.gen
          /\ gate.gen < MaxGen => gate'.gen = gate.gen + 1
      BY <1>3, OverriddenFacts DEF IInv, TypeOK, PreparingPart, RequestLocal
    <2>3. gate'.gen # handoff.request
      <3>1. CASE gate.gen < MaxGen
        BY <2>1, <2>2, <3>1
      <3>2. CASE ~(gate.gen < MaxGen)
        <4>1. gate'.gen \in 0..MaxGen
          BY OverriddenFacts DEF IInv, TypeOK, RequestLocal, Gates
        <4> QED
          BY <2>1, <2>2, <3>2, <4>1
      <3> QED
        BY <3>1, <3>2
    <2> QED
      BY <1>1, <1>3, <2>3 DEF Abstract!Revoke, LocalRoutes
  <1>4. CASE route = "RemoteActive"
    BY <1>1, <1>4 DEF Abstract!Revoke, LocalRoutes
  <1> QED
    BY <1>2, <1>3, <1>4 DEF IInv, TypeOK, Routes

\* go_remote begins a handoff that nobody has revoked.
LEMMA GoRemoteBar ==
    ASSUME IInv, NEW p \in Peers, GoRemote(p) PROVE Abstract!Begin
  <1>1. /\ route \in LocalRoutes
        /\ route' = "PreparingRemote"
    BY DEF GoRemote, MayGoRemote
  <1>2. gate'.gen = gate.gen + 1
    BY DEF GoRemote, Reserved
  <1>3. handoff'.request = gate.gen + 1
    BY DEF GoRemote, NoHandoff
  <1> QED
    BY <1>1, <1>2, <1>3 DEF Abstract!Begin, LocalRoutes

\* The compare-exchange activates only a handoff that is not revoked.
LEMMA ActivateGateBar ==
    ASSUME IInv, ActivateGate
    PROVE  \/ Abstract!Activate \/ Abstract!Return
           \/ phaseBar' = phaseBar /\ revokedBar' = revokedBar
  <1>1. route = "PreparingRemote"
    BY DEF ActivateGate, IInv, TypeOK, Routes, LocalPart, RemotePart
  <1>2. CASE LeaveRemote("Emergency", "none")
    BY <1>2, LeaveRemoteBar
  <1>3. CASE /\ ActivatedWord(gate, handoff.request) # gate
             /\ gate' = ActivatedWord(gate, handoff.request)
             /\ route' = "RemoteActive"
             /\ UNCHANGED handoff
    <2>1. gate.gen = handoff.request /\ ~gate'.local
      BY <1>3, ActivatedWordFacts DEF IInv, TypeOK
    <2> QED
      BY <1>1, <1>3, <2>1 DEF Abstract!Activate, LocalRoutes
  <1> QED
    BY <1>2, <1>3 DEF ActivateGate

\* Both start local.
LEMMA InitBar == Init => Abstract!HandoffInit
  BY DEF Init, Abstract!HandoffInit, LocalRoutes

\* Every step of the router is a step of the handoff, or none.
LEMMA StepBar == IInv /\ [Next]_vars
                   => [Abstract!HandoffNext]_(Abstract!absVars)
  <1> DEFINE Same == phaseBar' = phaseBar /\ revokedBar' = revokedBar
  <1> SUFFICES ASSUME IInv, [Next]_vars
               PROVE  Abstract!HandoffNext \/ Same
    BY DEF Abstract!absVars, phaseBar, revokedBar
  <1> USE DEF Abstract!HandoffNext
  <1>1. ASSUME NEW p \in Peers, GoRemote(p) PROVE Abstract!HandoffNext
    BY <1>1, GoRemoteBar
  <1>2. ASSUME NEW request \in Requests, NEW s \in Sessions, Ready(request, s)
        PROVE  Same
    <2>1. handoff'.request = handoff.request
      BY <1>2 DEF Ready, IInv, TypeOK, Handoffs
    <2> QED
      BY <1>2, <2>1, StutterBar DEF Ready
  <1>3. ASSUME NEW released \in BOOLEAN, AdvancePreparing(released)
        PROVE  Abstract!HandoffNext \/ Same
    <2>1. CASE HandoffFault(released) # None
      BY <1>3, <2>1, LeaveRemoteBar DEF AdvancePreparing
    <2>2. CASE HandoffFault(released) = None
      <3>1. handoff'.request = handoff.request
        BY <1>3, <2>2 DEF AdvancePreparing, IInv, TypeOK, Handoffs
      <3> QED
        BY <1>3, <2>2, <3>1, StutterBar DEF AdvancePreparing
    <2> QED
      BY <2>1, <2>2
  <1>4. ASSUME NEW request \in Requests, NEW s \in Sessions,
               CommitAck(request, s)
        PROVE  Abstract!HandoffNext \/ Same
    BY <1>4, LeaveRemoteBar, StutterBar DEF CommitAck
  <1>5. ASSUME NEW reason \in Reasons, GoLocal(reason)
        PROVE  Abstract!HandoffNext \/ Same
    BY <1>5, LeaveRemoteBar DEF GoLocal
  <1>6. ASSUME NEW enabled \in BOOLEAN, SetGameMode(enabled) PROVE Same
    BY <1>6, StutterBar DEF SetGameMode, LocalRoutes
  <1>7. IssueCommit => Abstract!HandoffNext \/ Same
    <2>1. CASE LeaveRemote("Emergency", ReturnEffect)
      BY <2>1, LeaveRemoteBar
    <2>2. CASE /\ handoff' = [handoff EXCEPT !.commit_sent = TRUE]
               /\ UNCHANGED <<gate, route>>
      <3>1. handoff'.request = handoff.request
        BY <2>2 DEF IInv, TypeOK, Handoffs
      <3> QED
        BY <2>2, <3>1, StutterBar
    <2> QED
      BY <2>1, <2>2 DEF IssueCommit
  <1>8. CASE \/ AdvanceActive \/ PrepareCapture \/ FinishPrepare
             \/ PrepareFocus \/ ActivateCapture \/ Tick
    BY <1>8, LeaveRemoteBar, StutterBar
    DEF AdvanceActive, PrepareCapture, FinishPrepare, PrepareFocus,
        ActivateCapture, Tick
  <1>9. CASE ActivateGate
    BY <1>9, ActivateGateBar
  <1>10. CASE RequestLocal
    BY <1>10, RequestLocalBar
  <1>11. CASE UNCHANGED vars
    BY <1>11, StutterBar DEF vars
  <1> QED
    BY <1>1, <1>2, <1>3, <1>4, <1>5, <1>6, <1>7, <1>8, <1>9, <1>10, <1>11
    DEF Next, RouterCall, CallStep, Reasons

\* Safety of ImplementsHandoff: whatever the interleaving of Router calls and
\* overrides, the routing core takes only steps of a revocable handoff.
THEOREM RefinesHandoff ==
    Spec => /\ Abstract!HandoffInit
            /\ [][Abstract!HandoffNext]_(Abstract!absVars)
  BY InitBar, StepBar, Invariance, PTL DEF Spec
=============================================================================
