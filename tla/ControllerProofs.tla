-------------------------- MODULE ControllerProofs --------------------------
(***************************************************************************)
(* Proofs about Controller for every value of its constants: every client   *)
(* step is a step of the router or none, so what RoutingProofs shows of the *)
(* router holds with the client, its transport and its peer around it.      *)
(***************************************************************************)
EXTENDS Controller, RoutingProofs

\* The request a CommitAck is checked against is one that was made, and the
\* sampled keys are a truth value.
PendingPart == pending.request \in Requests \cup {None}
SampledPart == released \in BOOLEAN

\* The client starts with nothing pending.
LEMMA InitPending == ControllerInit => PendingPart /\ SampledPart
  <1>1. ControllerInit => PendingPart
    BY DEF ControllerInit, PendingPart, NoPending
  <1>2. ControllerInit => SampledPart
    BY DEF ControllerInit, SampledPart
  <1> QED
    BY <1>1, <1>2

\* A Ready is recorded under the request it answers, and every other step
\* keeps the request or clears it.
LEMMA StepPending == PendingPart /\ [ControllerNext]_all => PendingPart'
  <1> SUFFICES ASSUME PendingPart, [ControllerNext]_all PROVE PendingPart'
    OBVIOUS
  <1> USE DEF PendingPart
  <1>1. Forget => PendingPart'
    BY DEF Forget, NoPending
  <1>2. FailLocal \/ FailTransport => PendingPart'
    BY <1>1 DEF FailLocal, FailTransport
  <1>3. ASSUME NEW p \in Peers, Begin(p) PROVE PendingPart'
    BY <1>3 DEF Begin
  <1>4. ASSUME NEW sampled \in BOOLEAN, StartPoll(sampled) PROVE PendingPart'
    BY <1>4 DEF StartPoll
  <1>5. ASSUME NEW request \in 1..MaxGen, GotReady(request)
        PROVE  PendingPart'
    <2>1. request \in Requests
      BY RoutingAssumption DEF Requests
    <2>2. CASE pending' = [request |-> request, session |-> Nonce[request]]
      BY <2>1, <2>2
    <2> QED
      BY <1>2, <1>5, <2>2 DEF GotReady
  <1>6. ASSUME NEW session \in Sessions, GotCommitAck(session)
        PROVE  PendingPart'
    BY <1>6 DEF GotCommitAck
  <1>7. CASE PollOverflow \/ UnexpectedCommitAck \/ BadFrame \/ PingFails
             \/ SendInput \/ SendInputFails \/ SendMotionFails
    BY <1>2, <1>7
    DEF PollOverflow, UnexpectedCommitAck, BadFrame, PingFails, SendInput,
        SendInputFails, SendMotionFails
  <1>8. CASE FinishBegin \/ StartAdvance \/ PingNotDue \/ Drop
    BY <1>2, <1>8 DEF FinishBegin, StartAdvance, PingNotDue, Drop
  <1>9. CASE FinishAck
    <2>1. CASE pending' = [pending EXCEPT !.request = None]
      <3>1. pending'.request \in {None, pending.request}
        BY <2>1
      <3> QED
        BY <3>1
    <2> QED
      BY <1>1, <1>2, <1>9, <2>1 DEF FinishAck, EndAfterFailedAck
  <1>10. CASE FinishAdvance
    BY <1>1, <1>2, <1>10 DEF FinishAdvance
  <1>11. ASSUME NEW reason \in {"User", "Emergency"}, ClientGoLocal(reason)
         PROVE  PendingPart'
    BY <1>1, <1>11 DEF ClientGoLocal
  <1>12. ASSUME NEW enabled \in BOOLEAN, ClientSetGameMode(enabled)
         PROVE  PendingPart'
    BY <1>12 DEF ClientSetGameMode, client
  <1>13. CASE RouterStep \/ UNCHANGED all
    BY <1>13 DEF RouterStep, client, all
  <1> QED
    BY <1>3, <1>4, <1>5, <1>6, <1>7, <1>8, <1>9, <1>10, <1>11, <1>12, <1>13
    DEF ControllerNext, ClientStep, PollFrame

\* The keys are sampled once for each poll.
LEMMA StepSampled == SampledPart /\ [ControllerNext]_all => SampledPart'
  <1> SUFFICES ASSUME SampledPart, [ControllerNext]_all
               PROVE  released' \in BOOLEAN
    BY DEF SampledPart
  <1>1. FailLocal \/ FailTransport => released' = released
    BY DEF FailLocal, FailTransport
  <1>2. ASSUME NEW sampled \in BOOLEAN, StartPoll(sampled)
        PROVE  released' \in BOOLEAN
    BY <1>2 DEF StartPoll
  <1>3. CASE released' = released
    BY <1>3 DEF SampledPart
  <1> QED
    BY <1>1, <1>2, <1>3
    DEF ControllerNext, ClientStep, PollFrame, Begin, PollOverflow, GotReady,
        GotCommitAck, UnexpectedCommitAck, BadFrame, FinishBegin, FinishAck,
        StartAdvance, FinishAdvance, PingNotDue, Drop, PingFails, SendInput,
        SendInputFails, SendMotionFails, ClientGoLocal, ClientSetGameMode, RouterStep, client, all

-----------------------------------------------------------------------------
\* A step of the client is a step of the router or leaves it alone.
LEMMA StepRoutes ==
    PendingPart /\ SampledPart /\ [ControllerNext]_all => [Next]_vars
  <1> SUFFICES ASSUME PendingPart, SampledPart, [ControllerNext]_all
               PROVE  [Next]_vars
    OBVIOUS
  <1>1. ASSUME NEW reason \in {"User", "Emergency", "NetworkFailed"},
               GoLocal(reason)
        PROVE  Next
    BY <1>1 DEF Next, RouterCall
  <1>2. FailLocal \/ FailTransport \/ EndAfterFailedAck => Next
    BY <1>1 DEF FailLocal, FailTransport, EndAfterFailedAck
  <1>3. ASSUME NEW p \in Peers, Begin(p) PROVE Next \/ UNCHANGED vars
    BY <1>3 DEF Begin, Next, RouterCall
  <1>4. ASSUME NEW sampled \in BOOLEAN, StartPoll(sampled)
        PROVE  UNCHANGED vars
    BY <1>4 DEF StartPoll
  <1>5. ASSUME NEW request \in 1..MaxGen, GotReady(request) PROVE Next
    <2>1. request \in Requests /\ Nonce[request] \in Sessions
      BY RoutingAssumption, ControllerAssumption DEF Requests
    <2> QED
      BY <1>2, <1>5, <2>1 DEF GotReady, Next, RouterCall
  <1>6. ASSUME NEW session \in Sessions, GotCommitAck(session)
        PROVE  Next \/ UNCHANGED vars
    <2>1. pending.request \in Requests
      BY <1>6 DEF GotCommitAck, PendingPart
    <2> QED
      BY <1>6, <2>1 DEF GotCommitAck, Next, RouterCall
  <1>7. CASE PollOverflow \/ UnexpectedCommitAck \/ BadFrame \/ PingFails
             \/ SendInput \/ SendInputFails \/ SendMotionFails
    BY <1>2, <1>7
    DEF PollOverflow, UnexpectedCommitAck, BadFrame, PingFails, SendInput,
        SendInputFails, SendMotionFails
  <1>8. CASE FinishBegin \/ PingNotDue \/ Drop \/ FinishAck \/ FinishAdvance
    BY <1>1, <1>2, <1>8
    DEF FinishBegin, PingNotDue, Drop, FinishAck, FinishAdvance
  <1>9. CASE StartAdvance
    <2>1. CASE AdvanceActive
      BY <2>1 DEF Next, RouterCall
    <2>2. CASE AdvancePreparing(released)
      BY <2>2 DEF SampledPart, Next, RouterCall
    <2> QED
      BY <1>9, <2>1, <2>2 DEF StartAdvance, AdvanceRoute
  <1>10. ASSUME NEW reason \in {"User", "Emergency"}, ClientGoLocal(reason)
         PROVE  Next
    BY <1>1, <1>10 DEF ClientGoLocal
  <1>11. ASSUME NEW enabled \in BOOLEAN, ClientSetGameMode(enabled)
         PROVE  Next
    BY <1>11 DEF ClientSetGameMode, Next, RouterCall
  <1>12. CASE RouterStep \/ UNCHANGED all
    BY <1>12 DEF RouterStep, all, Next
  <1> QED
    BY <1>3, <1>4, <1>5, <1>6, <1>7, <1>8, <1>9, <1>10, <1>11, <1>12
    DEF ControllerNext, ClientStep, PollFrame

\* The controller implements the router: whatever the client, its transport
\* and its peer do, the router sees a behaviour of Routing.
THEOREM RouterImplemented == ControllerSpec => ImplementsRouting
  <1>1. ControllerInit => Init
    BY DEF ControllerInit
  <1> QED
    BY <1>1, InitPending, StepPending, StepSampled, StepRoutes, PTL
    DEF ControllerSpec, ImplementsRouting, Spec

\* The hooks of a controller swallow input only for an active route, and a
\* late CommitAck frame never undoes an override (routing.rs, begin and poll).
THEOREM ControllerGate ==
    ControllerSpec => []GateOpenIsActive /\ NoLateActivation
  BY RouterImplemented, GateAgreement, LateAckLoses, PTL
  DEF ImplementsRouting

\* Whichever step of a client call fails, a local router has its gate closed
\* and nothing captured.
THEOREM ControllerRestored == ControllerSpec => []LocalIsRestored
  BY RouterImplemented, LocalRestored, PTL DEF ImplementsRouting

-----------------------------------------------------------------------------
(* What client, handshake and router hold of a session, at every point of a *)
(* client call.                                                            *)

\* Nothing of a session is kept.
Forgotten ==
    /\ handshake.state \in {"Idle", "Ended"}
    /\ pending = NoPending
    /\ sequence = 0

\* The request of the route is made, its session offered, its Commit sent.
Requested ==
    /\ handshake = AwaitReady(handoff.request)
    /\ pending = NoPending
    /\ handoff.session = None

Pending == [request |-> handoff.request, session |-> handoff.session]

Offered ==
    /\ handshake = [state |-> "Ready", request |-> handoff.request,
                    session |-> handoff.session]
    /\ pending = Pending

Committed ==
    /\ handshake = AwaitCommitAck(handoff.session)
    /\ pending = Pending

NoInput == ~channel.input /\ sequence = 0

\* Where a call neither has just changed the route nor is about to, handshake,
\* pending request and handles are those of the route.
Agreed ==
    /\ route \in LocalRoutes => Forgotten /\ channel = Closed
    /\ route = "PreparingRemote" =>
          /\ NoInput
          /\ IF handoff.commit_sent THEN Committed ELSE Requested \/ Offered
    /\ route = "RemoteActive" =>
          /\ handshake = Active(handoff.session)
          /\ pending = [request |-> None, session |-> handoff.session]

\* begin: the router prepares the capture, the peer has not been asked.
BeginPart ==
    /\ Forgotten
    /\ ~channel.input
    /\ pc \in {"idle", "prepare", "prepare_check"}
    /\ route \in LocalRoutes =>  pc = "idle"
    /\ route \notin LocalRoutes =>
          /\ route = "PreparingRemote"
          /\ ~handoff.commit_sent
          /\ handoff.session = None

\* commit_ack: the handshake is active before the router has decided.
AckPart ==
    /\ NoInput
    /\ handshake = Active(pending.session)
    /\ pc \in {"idle", "activate", "cas"}
    /\ pc = "idle" <=> route # "PreparingRemote"
    /\ route \notin LocalRoutes => pending = Pending

\* advance: the router has asked for the Commit, or gone local, before the
\* client does what that takes.
AdvancePart ==
    /\ pc \in {"idle", "focus", "commit_check"}
    /\ pc # "idle" =>
          /\ route = "PreparingRemote"
          /\ ~handoff.commit_sent
          /\ Offered
          /\ NoInput
    /\ pc = "idle" /\ effect = "none" => route = "PreparingRemote" /\ Agreed
    /\ pc = "idle" /\ effect = "Commit" =>
          /\ route = "PreparingRemote"
          /\ handoff.commit_sent
          /\ Offered
          /\ NoInput
    /\ pc = "idle" /\ effect \notin {"none", "Commit"} =>
          /\ effect \in {"End", "Cancel"}
          /\ route \in LocalRoutes
          /\ handshake.state \in {"Ready", "AwaitCommitAck", "Active"}
                => pending.session = handshake.session

PointPart ==
    /\ point \in {"idle", "frames", "ping"} => pc = "idle" /\ Agreed
    /\ point = "begin" => BeginPart
    /\ point = "ack" => AckPart
    /\ point = "advance" => AdvancePart
    /\ point = "drop" => pc = "idle" /\ route \in LocalRoutes /\ Forgotten

ClientPart == TypeOK /\ ControllerTypeOK /\ PointPart

\* The routes are apart.
LEMMA RoutesApart ==
    /\ "PreparingRemote" \notin LocalRoutes
    /\ "RemoteActive" \notin LocalRoutes
    /\ LocalState \in LocalRoutes
  BY DEF LocalRoutes, LocalState

\* Router::go_local, as the client finds it.
LEMMA GoLocalIsLocal ==
    ASSUME NEW reason, GoLocal(reason)
    PROVE  route' \in LocalRoutes /\ pc' = "idle" /\ effect' = ReturnEffect
  BY RoutesApart DEF GoLocal, LeaveRemote

\* Forget leaves no handshake and nothing pending.
LEMMA ForgetForgets == Forget => Forgotten'
  BY DEF Forget, Forgotten, Ended

\* What Forget leaves has its type.
LEMMA ForgetTypes ==
    Forget => /\ handshake' \in Handshakes
              /\ pending' \in [request : Requests \cup {None},
                               session : Sessions \cup {None}]
              /\ sequence' \in 0..MaxInput
  BY ControllerAssumption DEF Forget, Ended, NoPending, Handshakes

\* Local, with everything forgotten and the handles dropped.
LEMMA SettledLocal ==
    ASSUME route' \in LocalRoutes, pc' = "idle", Forgotten',
           channel' = Closed, point' \in {"idle", "frames", "ping"}
    PROVE  PointPart'
  BY RoutesApart DEF PointPart, Agreed

\* fail_local and fail_transport.
LEMMA FailLocalParts ==
    ASSUME ControllerTypeOK, FailLocal PROVE PointPart' /\ ControllerTypeOK'
  <1>1. PointPart'
    BY GoLocalIsLocal, ForgetForgets, SettledLocal DEF FailLocal
  <1>2. channel' \in [control : BOOLEAN, input : BOOLEAN] /\ point' \in Points
    BY DEF FailLocal, Closed, Points
  <1> QED
    BY <1>1, <1>2, ForgetTypes DEF FailLocal, ControllerTypeOK

\* A transport that fails leaves the client's parts true.
LEMMA FailTransportParts ==
    ASSUME ControllerTypeOK, FailTransport, route \in LocalRoutes => Forgotten
    PROVE  PointPart' /\ ControllerTypeOK'
  <1>1. Forgotten'
    <2>1. CASE route \in LocalRoutes
      BY <2>1 DEF FailTransport, Forgotten
    <2>2. CASE route \notin LocalRoutes
      BY <2>2, ForgetForgets DEF FailTransport
    <2> QED
      BY <2>1, <2>2
  <1>2. PointPart'
    BY <1>1, GoLocalIsLocal, SettledLocal DEF FailTransport
  <1>3. channel' \in [control : BOOLEAN, input : BOOLEAN] /\ point' \in Points
    BY DEF FailTransport, Closed, Points
  <1>4. /\ handshake' \in Handshakes
        /\ pending' \in [request : Requests \cup {None},
                         session : Sessions \cup {None}]
        /\ sequence' \in 0..MaxInput
    BY ForgetTypes DEF FailTransport, ControllerTypeOK
  <1> QED
    BY <1>2, <1>3, <1>4 DEF FailTransport, ControllerTypeOK

\* A session the router has left for the user, whether its End could be sent
\* or the handles are still to be dropped.
LEMMA LeftParts ==
    ASSUME ControllerTypeOK, Forget, route' \in LocalRoutes, pc' = "idle",
           released' = released,
           \/ channel' = Closed /\ point' \in {"idle", "frames", "ping"}
           \/ point' = "drop" /\ UNCHANGED channel
    PROVE  PointPart' /\ ControllerTypeOK'
  <1>1. CASE channel' = Closed /\ point' \in {"idle", "frames", "ping"}
    <2>1. PointPart'
      BY <1>1, ForgetForgets, SettledLocal
    <2>2. channel' \in [control : BOOLEAN, input : BOOLEAN]
      BY <1>1 DEF Closed
    <2> QED
      BY <1>1, <2>1, <2>2, ForgetTypes DEF ControllerTypeOK, Points
  <1>2. CASE point' = "drop" /\ UNCHANGED channel
    <2>1. PointPart'
      BY <1>2, ForgetForgets DEF PointPart
    <2> QED
      BY <1>2, <2>1, ForgetTypes DEF ControllerTypeOK, Points
  <1> QED
    BY <1>1, <1>2

\* begin.
LEMMA BeginParts ==
    ASSUME ClientPart, NEW p \in Peers, Begin(p)
    PROVE  PointPart' /\ ControllerTypeOK'
  <1>1. /\ point = "idle" /\ pc = "idle" /\ route \in LocalRoutes
        /\ UNCHANGED <<handshake, pending, released, sequence>>
    BY DEF Begin
  <1>2. Forgotten /\ channel = Closed
    BY <1>1 DEF ClientPart, PointPart, Agreed
  <1>3. CASE /\ GoRemote(p)
             /\ channel' = [control |-> TRUE, input |-> FALSE]
             /\ point' = "begin"
    <2>1. /\ route' = "PreparingRemote" /\ pc' = "prepare"
          /\ handoff'.session = None /\ ~handoff'.commit_sent
      BY <1>3 DEF GoRemote, NoHandoff
    <2>2. PointPart'
      BY <1>1, <1>2, <1>3, <2>1, RoutesApart
         DEF PointPart, BeginPart, Forgotten
    <2>3. ControllerTypeOK'
      BY <1>1, <1>3 DEF ClientPart, ControllerTypeOK, Points
    <2> QED
      BY <2>2, <2>3
  <1>4. CASE channel' = Closed /\ UNCHANGED <<vars, point>>
    BY <1>1, <1>2, <1>4, RoutesApart
       DEF vars, ClientPart, ControllerTypeOK, PointPart, Agreed, Forgotten
  <1> QED
    BY <1>3, <1>4 DEF Begin

\* The end of a begin leaves the client's parts true.
LEMMA FinishBeginParts ==
    ASSUME ClientPart, FinishBegin PROVE PointPart' /\ ControllerTypeOK'
  <1>1. point = "begin" /\ pc = "idle" /\ BeginPart
    BY DEF FinishBegin, ClientPart, PointPart
  <1>2. CASE /\ route = "PreparingRemote"
             /\ handshake' = AwaitReady(handoff.request)
             /\ point' = "idle"
             /\ UNCHANGED <<vars, pending, channel, released, sequence>>
    <2>1. PointPart'
      BY <1>1, <1>2, RoutesApart
         DEF PointPart, BeginPart, Forgotten, Agreed, NoInput, Requested, vars,
             AwaitReady
    <2>2. handoff.request \in Requests
      BY DEF ClientPart, TypeOK, Handoffs, Requests
    <2>3. handshake' \in Handshakes
      BY <1>2, <2>2 DEF AwaitReady, Handshakes
    <2> QED
      BY <1>2, <2>1, <2>3 DEF ClientPart, ControllerTypeOK, Points
  <1>3. CASE FailTransport
    BY <1>1, <1>3, FailTransportParts DEF BeginPart, ClientPart
  <1>4. CASE /\ GoLocal("NetworkFailed")
             /\ channel' = Closed
             /\ point' = "idle"
             /\ UNCHANGED <<handshake, pending, released, sequence>>
    <2>1. PointPart'
      BY <1>1, <1>4, GoLocalIsLocal, SettledLocal DEF BeginPart, Forgotten
    <2> QED
      BY <1>4, <2>1 DEF ClientPart, ControllerTypeOK, Points, Closed
  <1>5. CASE /\ route \in LocalRoutes
             /\ channel' = Closed
             /\ point' = "idle"
             /\ UNCHANGED <<vars, handshake, pending, released, sequence>>
    <2>1. PointPart'
      BY <1>1, <1>5, SettledLocal DEF BeginPart, Forgotten, vars
    <2> QED
      BY <1>5, <2>1 DEF ClientPart, ControllerTypeOK, Points, Closed
  <1> QED
    BY <1>2, <1>3, <1>4, <1>5 DEF FinishBegin

\* The frames of a poll.
LEMMA GotReadyParts ==
    ASSUME ClientPart, NEW request \in 1..MaxGen, GotReady(request)
    PROVE  PointPart' /\ ControllerTypeOK'
  <1>1. CASE ReadyMatches(request, Nonce[request])
    <2>1. /\ point = "frames" /\ handshake = AwaitReady(request)
          /\ route = "PreparingRemote" /\ request = handoff.request
          /\ Ready(request, Nonce[request])
          /\ handshake' = [state |-> "Ready", request |-> request,
                           session |-> Nonce[request]]
          /\ pending' = [request |-> request, session |-> Nonce[request]]
          /\ UNCHANGED <<channel, point, released, sequence>>
      BY <1>1 DEF GotReady, ReadyMatches, ReadyIsAwaited
    <2>2. pc = "idle" /\ NoInput /\ ~handoff.commit_sent
      BY <2>1 DEF ClientPart, PointPart, Agreed, Committed, AwaitCommitAck,
                  AwaitReady
    <2>3. /\ handoff'.session = Nonce[request]
          /\ handoff'.request = handoff.request
          /\ handoff'.commit_sent = handoff.commit_sent
          /\ UNCHANGED <<route, pc>>
      BY <2>1 DEF Ready, ClientPart, TypeOK, Handoffs
    <2>4. Offered' /\ NoInput'
      BY <2>1, <2>2, <2>3 DEF Offered, Pending, NoInput
    <2>5. PointPart'
      BY <2>1, <2>2, <2>3, <2>4, RoutesApart DEF PointPart, Agreed
    <2>6. request \in Requests /\ Nonce[request] \in Sessions
      BY RoutingAssumption, ControllerAssumption DEF Requests
    <2>7. /\ handshake' \in Handshakes
          /\ pending' \in [request : Requests \cup {None},
                           session : Sessions \cup {None}]
      BY <2>1, <2>6 DEF Handshakes
    <2> QED
      BY <2>1, <2>5, <2>7 DEF ClientPart, ControllerTypeOK
  <1>2. CASE ~ReadyMatches(request, Nonce[request])
    BY <1>2, FailLocalParts DEF GotReady, ClientPart
  <1> QED
    BY <1>1, <1>2

\* A commit acknowledged leaves the client's parts true.
LEMMA GotCommitAckParts ==
    ASSUME ClientPart, NEW session \in Sessions, GotCommitAck(session)
    PROVE  PointPart' /\ ControllerTypeOK'
  <1>1. /\ point = "frames" /\ handshake = AwaitCommitAck(session)
        /\ pending.request # None /\ pending.session = session
        /\ handshake' = Active(session) /\ point' = "ack"
        /\ UNCHANGED <<pending, channel, released, sequence>>
    BY DEF GotCommitAck, AckIsAwaited
  <1>2. pc = "idle" /\ Agreed
    BY <1>1 DEF ClientPart, PointPart
  <1>3. route = "PreparingRemote"
    BY <1>1, <1>2
       DEF Agreed, Forgotten, AwaitCommitAck, Active, ClientPart, TypeOK, Routes
  <1>4. NoInput /\ handoff.commit_sent /\ pending = Pending
    BY <1>1, <1>2, <1>3
       DEF Agreed, Requested, Offered, Committed, AwaitReady, AwaitCommitAck
  <1>5. AckMatches(pending.request, session)
    BY <1>1, <1>3, <1>4 DEF AckMatches, Pending
  <1>6. CommitAck(pending.request, session)
    BY <1>5 DEF GotCommitAck
  <1>7. \/ /\ pc' = "activate"
           /\ UNCHANGED <<route, handoff>>
        \/ /\ pc' = "idle"
           /\ route' \in LocalRoutes
    BY <1>6, RoutesApart DEF CommitAck, LeaveRemote
  <1>8. AckPart'
    BY <1>1, <1>3, <1>4, <1>7, RoutesApart
       DEF AckPart, NoInput, Pending, Active
  <1>9. PointPart'
    BY <1>1, <1>8 DEF PointPart
  <1>10. handshake' \in Handshakes
    BY <1>1 DEF Active, Handshakes
  <1> QED
    BY <1>1, <1>9, <1>10 DEF ClientPart, ControllerTypeOK, Points

\* An acknowledgement nobody asked for leaves the client's parts true.
LEMMA UnexpectedCommitAckParts ==
    ASSUME ClientPart, UnexpectedCommitAck PROVE PointPart' /\ ControllerTypeOK'
  <1>1. /\ point = "frames" /\ pc = "idle" /\ Agreed
        /\ channel' = Closed /\ point' = "idle"
        /\ UNCHANGED <<vars, handshake, pending, released, sequence>>
    BY DEF UnexpectedCommitAck, ClientPart, PointPart
  <1>2. Agreed'
    BY <1>1 DEF Agreed, Forgotten, NoInput, Requested, Offered, Committed,
                Pending, Closed, vars
  <1>3. PointPart'
    BY <1>1, <1>2 DEF PointPart, vars
  <1> QED
    BY <1>1, <1>3 DEF ClientPart, ControllerTypeOK, Points, Closed

\* What a failed CommitAck, a bad frame or a lost handle leaves.
LEMMA FinishAckParts ==
    ASSUME ClientPart, FinishAck PROVE PointPart' /\ ControllerTypeOK'
  <1>1. point = "ack" /\ pc = "idle" /\ AckPart
    BY DEF FinishAck, ClientPart, PointPart
  <1>2. CASE /\ route = "RemoteActive"
             /\ pending' = [pending EXCEPT !.request = None]
             /\ sequence' = 0
             /\ channel' = [channel EXCEPT !.input = TRUE]
             /\ point' = "frames"
             /\ UNCHANGED <<vars, handshake, released>>
    <2>1. /\ pending = Pending /\ handshake = Active(handoff.session)
      BY <1>1, <1>2, RoutesApart DEF AckPart, Pending
    <2>2. pending' = [request |-> None, session |-> handoff.session]
      BY <1>2, <2>1 DEF Pending
    <2>3. PointPart'
      BY <1>1, <1>2, <2>1, <2>2, RoutesApart
         DEF PointPart, Agreed, vars, Active
    <2>4. channel' \in [control : BOOLEAN, input : BOOLEAN]
      BY <1>2 DEF ClientPart, ControllerTypeOK
    <2>5. pending' \in [request : Requests \cup {None},
                        session : Sessions \cup {None}]
      BY <2>2 DEF ClientPart, TypeOK, Handoffs
    <2> QED
      BY <1>2, <2>3, <2>4, <2>5, ControllerAssumption
         DEF ClientPart, ControllerTypeOK, Points
  <1>3. CASE route = "RemoteActive" /\ FailTransport
    BY <1>3, FailTransportParts, RoutesApart DEF ClientPart
  <1>4. CASE EndAfterFailedAck /\ released' = released
    BY <1>4, GoLocalIsLocal, LeftParts DEF EndAfterFailedAck, ClientPart
  <1> QED
    BY <1>2, <1>3, <1>4 DEF FinishAck

\* poll and what follows its frames.
LEMMA StartPollParts ==
    ASSUME ClientPart, NEW sampled \in BOOLEAN, StartPoll(sampled)
    PROVE  PointPart' /\ ControllerTypeOK'
  <1>1. pc = "idle" /\ Agreed
    BY DEF StartPoll, ClientPart, PointPart
  <1>2. Agreed' /\ pc' = "idle" /\ point' = "frames"
    BY <1>1 DEF StartPoll, vars, Agreed, Forgotten, NoInput, Requested,
                Offered, Committed, Pending
  <1>3. PointPart'
    BY <1>2 DEF PointPart
  <1> QED
    BY <1>3 DEF StartPoll, ClientPart, ControllerTypeOK, Points

\* Between calls, a client on a local route has forgotten its handshake.
LEMMA AgreedLocal ==
    ASSUME ClientPart, point \in {"idle", "frames", "ping", "drop"},
           route \in LocalRoutes
    PROVE  Forgotten
  BY DEF ClientPart, PointPart, Agreed

\* Every step that fails the client leaves its parts true.
LEMMA FailingParts ==
    ASSUME ClientPart,
           PollOverflow \/ BadFrame \/ PingFails \/ SendInputFails
             \/ SendMotionFails \/ Drop
    PROVE  PointPart' /\ ControllerTypeOK'
  <1>1. CASE BadFrame
    BY <1>1, FailLocalParts DEF BadFrame, ClientPart
  <1>2. CASE PollOverflow \/ PingFails \/ SendInputFails \/ SendMotionFails
               \/ Drop
    <2>1. FailTransport /\ point \in {"idle", "frames", "ping", "drop"}
      BY <1>2 DEF PollOverflow, PingFails, SendInputFails, SendMotionFails,
                  Drop
    <2> QED
      BY <2>1, AgreedLocal, FailTransportParts DEF ClientPart
  <1> QED
    BY <1>1, <1>2

\* Whatever of a session the client has when the router ends it, the session it
\* names is the one of its handshake.
LEMMA AgreedNames ==
    ASSUME Agreed, route \in Routes
    PROVE  handshake.state \in {"Ready", "AwaitCommitAck", "Active"}
             => pending.session = handshake.session
  BY DEF Agreed, Forgotten, Requested, Offered, Committed, Pending, Active,
         AwaitReady, AwaitCommitAck, Routes

\* The start of advance leaves the client's parts true.
LEMMA StartAdvanceParts ==
    ASSUME ClientPart, StartAdvance PROVE PointPart' /\ ControllerTypeOK'
  <1>1. /\ pc = "idle" /\ Agreed /\ route \in Routes
        /\ UNCHANGED <<handshake, pending, channel, released, sequence>>
    BY DEF StartAdvance, ClientPart, PointPart, TypeOK
  <1>2. ASSUME NEW reason, LeaveRemote(reason, ReturnEffect),
               route \notin LocalRoutes, point' = "advance"
        PROVE  PointPart'
    <2>1. route' \in LocalRoutes /\ pc' = "idle" /\ effect' \in {"End", "Cancel"}
      BY <1>2, RoutesApart DEF LeaveRemote, ReturnEffect
    <2>2. AdvancePart'
      BY <1>1, <2>1, AgreedNames DEF AdvancePart
    <2> QED
      BY <1>2, <2>2 DEF PointPart
  <1>3. ASSUME AdvancePreparing(released), point' = "advance"
        PROVE  PointPart'
    <2>1. route = "PreparingRemote" /\ route \notin LocalRoutes
      BY <1>3, RoutesApart DEF AdvancePreparing
    <2>2. CASE HandoffFault(released) # None
      BY <1>2, <1>3, <2>1, <2>2 DEF AdvancePreparing
    <2>3. CASE HandoffFault(released) = None
      <3>1. /\ handoff' = [handoff EXCEPT !.keys_released_seen = released]
            /\ pc' = IF ~handoff.commit_sent /\ released
                           /\ handoff.session # None
                     THEN "focus" ELSE "idle"
            /\ effect' = "none" /\ route' = route
        BY <1>3, <2>3 DEF AdvancePreparing
      <3>2. /\ handoff'.session = handoff.session
            /\ handoff'.request = handoff.request
            /\ handoff'.commit_sent = handoff.commit_sent
        BY <3>1 DEF ClientPart, TypeOK, Handoffs
      <3>3. Agreed'
        BY <1>1, <2>1, <3>1, <3>2, RoutesApart
           DEF Agreed, NoInput, Requested, Offered, Committed, Pending
      <3>4. ASSUME pc' = "idle" PROVE AdvancePart'
        BY <2>1, <3>1, <3>3, <3>4 DEF AdvancePart
      <3>5. ASSUME pc' # "idle" PROVE AdvancePart'
        <4>1. /\ pc' = "focus" /\ ~handoff.commit_sent
              /\ handoff.session # None
          BY <3>1, <3>5
        <4>2. Offered /\ NoInput
          BY <1>1, <2>1, <4>1 DEF Agreed, Requested
        <4>3. Offered' /\ NoInput'
          BY <1>1, <3>2, <4>2 DEF Offered, Pending, NoInput
        <4> QED
          BY <2>1, <3>1, <3>2, <4>1, <4>3 DEF AdvancePart
      <3> QED
        BY <1>3, <3>4, <3>5 DEF PointPart
    <2> QED
      BY <2>2, <2>3
  <1>4. ASSUME AdvanceActive, point' = "advance" PROVE PointPart'
    BY <1>2, <1>4, RoutesApart DEF AdvanceActive
  <1>5. ASSUME point' = "ping", UNCHANGED vars PROVE PointPart'
    <2>1. Agreed' /\ pc' = "idle"
      BY <1>1, <1>5 DEF vars, Agreed, Forgotten, NoInput, Requested, Offered,
                        Committed, Pending
    <2> QED
      BY <1>5, <2>1 DEF PointPart
  <1>6. PointPart' /\ point' \in Points
    BY <1>3, <1>4, <1>5 DEF StartAdvance, AdvanceRoute, Points
  <1> QED
    BY <1>1, <1>6 DEF ClientPart, ControllerTypeOK

\* The end of advance leaves the client's parts true.
LEMMA FinishAdvanceParts ==
    ASSUME ClientPart, FinishAdvance PROVE PointPart' /\ ControllerTypeOK'
  <1>1. point = "advance" /\ pc = "idle" /\ AdvancePart
    BY DEF FinishAdvance, ClientPart, PointPart
  <1>2. CASE /\ effect = "none"
             /\ point' = "ping"
             /\ UNCHANGED <<vars, handshake, pending, channel, released,
                            sequence>>
    <2>1. Agreed' /\ pc' = "idle"
      BY <1>1, <1>2 DEF AdvancePart, vars, Agreed, Forgotten, NoInput,
                        Requested, Offered, Committed, Pending
    <2> QED
      BY <1>2, <2>1 DEF PointPart, ClientPart, ControllerTypeOK, Points
  <1>3. CASE /\ effect = "Commit"
             /\ CommitIsReady
             /\ handshake' = AwaitCommitAck(pending.session)
             /\ point' = "ping"
             /\ UNCHANGED <<vars, pending, channel, released, sequence>>
    <2>1. /\ route = "PreparingRemote" /\ handoff.commit_sent /\ NoInput
          /\ pending = Pending
      BY <1>1, <1>3 DEF AdvancePart, Offered
    <2>2. Committed' /\ NoInput'
      BY <1>3, <2>1 DEF Committed, Pending, NoInput, AwaitCommitAck, vars
    <2>3. PointPart'
      BY <1>1, <1>3, <2>1, <2>2, RoutesApart DEF PointPart, Agreed, vars
    <2>4. handshake.state = "Ready" /\ handshake.session = pending.session
      BY <1>3 DEF CommitIsReady
    <2>5. pending.session \in Sessions
      BY <2>4 DEF ClientPart, ControllerTypeOK, Handshakes
    <2>6. handshake' \in Handshakes
      BY <1>3, <2>5 DEF AwaitCommitAck, Handshakes
    <2> QED
      BY <1>3, <2>3, <2>6 DEF ClientPart, ControllerTypeOK, Points
  <1>4. CASE effect = "Commit" /\ FailTransport
    <2>1. route \notin LocalRoutes
      BY <1>1, <1>4, RoutesApart DEF AdvancePart
    <2> QED
      BY <1>4, <2>1, FailTransportParts DEF ClientPart
  <1>5. CASE /\ effect \in {"End", "Cancel"}
             /\ Forget
             /\ \/ channel' = Closed /\ point' = "ping"
                \/ point' = "drop" /\ UNCHANGED channel
             /\ UNCHANGED <<vars, released>>
    <2>1. route' \in LocalRoutes /\ pc' = "idle"
      BY <1>1, <1>5 DEF AdvancePart, vars
    <2> QED
      BY <1>5, <2>1, LeftParts DEF ClientPart
  <1> QED
    BY <1>2, <1>3, <1>4, <1>5 DEF FinishAdvance

\* An advance with no ping due leaves the client's parts true.
LEMMA PingNotDueParts ==
    ASSUME ClientPart, PingNotDue PROVE PointPart' /\ ControllerTypeOK'
  <1>1. Agreed' /\ pc' = "idle"
    BY DEF PingNotDue, ClientPart, PointPart, vars, Agreed, Forgotten,
           NoInput, Requested, Offered, Committed, Pending
  <1> QED
    BY <1>1 DEF PingNotDue, PointPart, ClientPart, ControllerTypeOK, Points

\* An input sent leaves the client's parts true.
LEMMA SendInputParts ==
    ASSUME ClientPart, SendInput PROVE PointPart' /\ ControllerTypeOK'
  <1>1. /\ point = "idle" /\ pc = "idle" /\ Agreed /\ channel.input
        /\ UNCHANGED <<vars, handshake, pending, channel, point, released>>
    BY DEF SendInput, ClientPart, PointPart
  <1>2. route = "RemoteActive"
    BY <1>1 DEF Agreed, NoInput, Closed, ClientPart, TypeOK, Routes
  <1>3. PointPart'
    BY <1>1, <1>2, RoutesApart DEF PointPart, Agreed, vars, Active
  <1>4. sequence' \in 0..MaxInput
    BY ControllerAssumption
       DEF SendInput, NextInput, ClientPart, ControllerTypeOK
  <1> QED
    BY <1>1, <1>3, <1>4 DEF ClientPart, ControllerTypeOK

\* The user, or an emergency.
LEMMA ClientGoLocalParts ==
    ASSUME ClientPart, NEW reason, ClientGoLocal(reason)
    PROVE  PointPart' /\ ControllerTypeOK'
  <1>1. /\ point = "idle" /\ pc = "idle" /\ Agreed /\ GoLocal(reason)
        /\ released' = released
    BY DEF ClientGoLocal, ClientPart, PointPart
  <1>2. route' \in LocalRoutes /\ pc' = "idle"
    BY <1>1, GoLocalIsLocal
  <1>3. CASE route \in LocalRoutes
    <2>1. /\ Forgotten /\ channel = Closed
          /\ UNCHANGED <<handshake, pending, channel, point, sequence>>
      BY <1>1, <1>3 DEF ClientGoLocal, Agreed
    <2>2. PointPart'
      BY <1>1, <1>2, <2>1, SettledLocal DEF Forgotten
    <2> QED
      BY <1>1, <2>1, <2>2 DEF ClientPart, ControllerTypeOK
  <1>4. CASE route \notin LocalRoutes
    BY <1>1, <1>2, <1>4, LeftParts DEF ClientGoLocal, ClientPart
  <1> QED
    BY <1>3, <1>4

\* The rest of the call, the router's part of it, and what other threads do.
LEMMA PointKept ==
    ASSUME PointPart,
           UNCHANGED <<route, handoff, pc, effect, handshake, pending, channel,
                       point, sequence>>
    PROVE  PointPart'
  BY DEF PointPart, BeginPart, AckPart, AdvancePart, Agreed, Forgotten,
         NoInput, Requested, Offered, Committed, Pending

\* A change of the game mode leaves the client's parts true.
LEMMA SetGameModeParts ==
    ASSUME ClientPart, NEW enabled \in BOOLEAN, ClientSetGameMode(enabled)
    PROVE  PointPart' /\ ControllerTypeOK'
  <1>1. /\ pc' = "idle" /\ UNCHANGED <<handoff, client>> /\ point = "idle"
        /\ route' = route \/ {route, route'} \subseteq LocalRoutes
    BY DEF ClientSetGameMode, SetGameMode, LocalRoutes
  <1>2. Agreed
    BY <1>1 DEF ClientPart, PointPart
  <1>3. Agreed'
    BY <1>1, <1>2, RoutesApart
       DEF Agreed, Forgotten, NoInput, Requested, Offered, Committed, Pending,
           client
  <1> QED
    BY <1>1, <1>3 DEF PointPart, ClientPart, ControllerTypeOK, client

\* The router's part of a begin leaves the client at a point that agrees with it.
LEMMA BeginCallParts ==
    ASSUME ClientPart, PrepareCapture \/ FinishPrepare, UNCHANGED client
    PROVE  PointPart'
  <1>1. point = "begin" /\ BeginPart
    BY DEF PrepareCapture, FinishPrepare, ClientPart, ControllerTypeOK,
           PointPart, Points, AckPart, AdvancePart
  <1>2. \/ pc' \in {"idle", "prepare_check"} /\ UNCHANGED <<route, handoff>>
        \/ pc' = "idle" /\ route' \in LocalRoutes
    BY RoutesApart DEF PrepareCapture, FinishPrepare, LeaveRemote
  <1>3. route \notin LocalRoutes
    BY <1>1 DEF PrepareCapture, FinishPrepare, BeginPart
  <1>4. BeginPart'
    BY <1>1, <1>2, <1>3 DEF BeginPart, Forgotten, client
  <1> QED
    BY <1>1, <1>4 DEF PointPart, client

\* The router's part of an advance leaves the client at a point that agrees with it.
LEMMA AdvanceCallParts ==
    ASSUME ClientPart, PrepareFocus \/ IssueCommit, UNCHANGED client
    PROVE  PointPart'
  <1>1. point = "advance" /\ AdvancePart /\ pc # "idle"
    BY DEF PrepareFocus, IssueCommit, ClientPart, ControllerTypeOK,
           PointPart, Points, AckPart, BeginPart
  <1>2. /\ route = "PreparingRemote" /\ ~handoff.commit_sent
        /\ Offered /\ NoInput
    BY <1>1 DEF AdvancePart
  <1>3. ASSUME NEW reason, LeaveRemote(reason, ReturnEffect)
        PROVE  AdvancePart'
    <2>1. route' \in LocalRoutes /\ pc' = "idle" /\ effect' \in {"End", "Cancel"}
      BY <1>2, <1>3, RoutesApart DEF LeaveRemote, ReturnEffect
    <2>2. pending.session = handshake.session
      BY <1>2 DEF Offered, Pending
    <2> QED
      BY <2>1, <2>2 DEF AdvancePart, client
  <1>4. ASSUME pc' = "commit_check", UNCHANGED <<route, handoff>>
        PROVE  AdvancePart'
    BY <1>2, <1>4 DEF AdvancePart, Offered, Pending, NoInput, client
  <1>5. ASSUME handoff' = [handoff EXCEPT !.commit_sent = TRUE],
               effect' = "Commit", pc' = "idle", route' = route
        PROVE  AdvancePart'
    <2>1. /\ handoff'.commit_sent
          /\ handoff'.request = handoff.request
          /\ handoff'.session = handoff.session
      BY <1>5 DEF ClientPart, TypeOK, Handoffs
    <2> QED
      BY <1>2, <1>5, <2>1 DEF AdvancePart, Offered, Pending, NoInput, client
  <1>6. AdvancePart'
    BY <1>3, <1>4, <1>5 DEF PrepareFocus, IssueCommit
  <1> QED
    BY <1>1, <1>6 DEF PointPart, client

\* The router's activation leaves the client at a point that agrees with it.
LEMMA AckCallParts ==
    ASSUME ClientPart, ActivateCapture \/ ActivateGate, UNCHANGED client
    PROVE  PointPart'
  <1>1. point = "ack" /\ AckPart
    BY DEF ActivateCapture, ActivateGate, ClientPart, ControllerTypeOK,
           PointPart, Points, BeginPart, AdvancePart
  <1>2. route = "PreparingRemote" /\ pending = Pending
    BY <1>1, RoutesApart DEF ActivateCapture, ActivateGate, AckPart
  <1>3. \/ pc' = "cas" /\ UNCHANGED <<route, handoff>>
        \/ pc' = "idle" /\ route' = "RemoteActive" /\ UNCHANGED handoff
        \/ pc' = "idle" /\ route' \in LocalRoutes
    BY RoutesApart DEF ActivateCapture, ActivateGate, LeaveRemote
  <1>4. AckPart'
    BY <1>1, <1>2, <1>3, RoutesApart
       DEF AckPart, Pending, NoInput, Active, client
  <1> QED
    BY <1>1, <1>4 DEF PointPart, client

\* The router's own steps leave the client's parts true.
LEMMA RouterStepParts ==
    ASSUME ClientPart, RouterStep PROVE PointPart' /\ ControllerTypeOK'
  <1>1. ControllerTypeOK'
    BY DEF RouterStep, client, ClientPart, ControllerTypeOK
  <1>2. CASE RequestLocal \/ Tick
    BY <1>1, <1>2, PointKept
       DEF RequestLocal, Tick, RouterStep, client, ClientPart
  <1>3. CASE CallStep
    BY <1>1, <1>3, BeginCallParts, AdvanceCallParts, AckCallParts
       DEF CallStep, RouterStep
  <1> QED
    BY <1>1, <1>2, <1>3 DEF RouterStep

\* The client's parts are true at the start.
LEMMA InitParts == ControllerInit => PointPart /\ ControllerTypeOK
  <1> SUFFICES ASSUME ControllerInit PROVE PointPart /\ ControllerTypeOK
    OBVIOUS
  <1>1. PointPart
    BY DEF ControllerInit, Init, PointPart, Agreed, Forgotten, LocalRoutes
  <1>2. /\ handshake \in Handshakes
        /\ pending \in [request : Requests \cup {None},
                        session : Sessions \cup {None}]
        /\ channel \in [control : BOOLEAN, input : BOOLEAN]
    BY DEF ControllerInit, Handshakes, NoPending, Closed
  <1>3. sequence \in 0..MaxInput /\ point \in Points
    BY ControllerAssumption DEF ControllerInit, Points
  <1>4. ControllerTypeOK
    BY <1>2, <1>3, InitPending DEF SampledPart, ControllerTypeOK
  <1> QED
    BY <1>1, <1>4

\* Every step leaves the client's parts true.
LEMMA StepParts ==
    ASSUME ClientPart, [ControllerNext]_all
    PROVE  PointPart' /\ ControllerTypeOK'
  <1>1. CASE UNCHANGED all
    BY <1>1, PointKept DEF all, vars, client, ClientPart, ControllerTypeOK
  <1>2. CASE ControllerNext
    BY <1>2, BeginParts, FinishBeginParts, GotReadyParts, GotCommitAckParts,
       UnexpectedCommitAckParts, FinishAckParts, StartPollParts, FailingParts,
       StartAdvanceParts, FinishAdvanceParts, PingNotDueParts, SendInputParts,
       ClientGoLocalParts, SetGameModeParts, RouterStepParts
       DEF ControllerNext, ClientStep, PollFrame
  <1> QED
    BY <1>1, <1>2

\* The client's parts are an invariant of the controller.
LEMMA ClientPartInvariant == ControllerSpec => []ClientPart
  <1>1. ControllerSpec => []TypeOK
    BY RouterImplemented, TypeCorrect, PTL DEF ImplementsRouting
  <1>2. TypeOK /\ PointPart /\ ControllerTypeOK /\ [ControllerNext]_all
          => PointPart' /\ ControllerTypeOK'
    BY StepParts DEF ClientPart
  <1>3. TypeOK /\ PointPart /\ ControllerTypeOK => ClientPart
    BY DEF ClientPart
  <1> QED
    BY <1>1, <1>2, <1>3, InitParts, PTL DEF ControllerSpec

\* ControllerClient between its calls: whichever step of begin, poll or an input
\* failed, and whoever overrode the router meanwhile, the handshake says of the
\* session what the router says of the route, and nothing is kept of a session
\* the router has left.
THEOREM CallsLeaveAgreement == ControllerSpec => []BetweenCalls
  <1>1. ClientPart => BetweenCalls
    BY RoutesApart
       DEF ClientPart, TypeOK, Routes, PointPart, Agreed, Forgotten,
           Requested, Offered, Committed, AwaitReady, AwaitCommitAck, Active,
           BetweenCalls
  <1> QED
    BY <1>1, ClientPartInvariant, PTL

\* The client within its calls: client, handshake and router never name
\* different sessions or requests, and input is opened and numbered only in the
\* session whose CommitAck the router accepted.
THEOREM ClientAgreement == ControllerSpec => []ClientInv
  <1> SUFFICES ClientPart => ClientInv
    BY ClientPartInvariant, PTL
  <1> SUFFICES ASSUME ClientPart PROVE ClientInv
    OBVIOUS
  <1> USE RoutesApart DEF ClientPart, TypeOK, Routes, Points
  <1>1. OneSession
    <2>1. CASE Agreed
      BY <2>1 DEF Agreed, Forgotten, NoPending, Requested, Offered, Committed,
                  Pending, AwaitReady, AwaitCommitAck, Active, OneSession
    <2>2. CASE point = "begin" /\ BeginPart
      BY <2>2 DEF BeginPart, Forgotten, NoPending, OneSession
    <2>3. CASE point = "ack" /\ AckPart
      BY <2>3 DEF AckPart, Active, Pending, OneSession
    <2>4. CASE point = "advance" /\ AdvancePart
      BY <2>1, <2>4 DEF AdvancePart, Offered, Pending, OneSession
    <2>5. CASE point = "drop" /\ Forgotten
      BY <2>5 DEF Forgotten, NoPending, OneSession
    <2> QED
      BY <2>1, <2>2, <2>3, <2>4, <2>5 DEF PointPart, ControllerTypeOK
  <1>2. InputBelongs
    <2>1. CASE point \in {"idle", "frames", "ping"} /\ Agreed
      BY <2>1 DEF Agreed, Forgotten, NoInput, Closed, InputBelongs
    <2>2. CASE point = "begin" /\ BeginPart
      BY <2>2 DEF BeginPart, Forgotten, InputBelongs
    <2>3. CASE point = "ack" /\ AckPart
      BY <2>3 DEF AckPart, NoInput, InputBelongs
    <2>4. CASE point \in {"advance", "drop"}
      BY <2>4 DEF InputBelongs
    <2> QED
      BY <2>1, <2>2, <2>3, <2>4 DEF PointPart, ControllerTypeOK
  <1> QED
    BY <1>1, <1>2 DEF ClientInv
=============================================================================
