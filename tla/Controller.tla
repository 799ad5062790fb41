----------------------------- MODULE Controller -----------------------------
(***************************************************************************)
(* The controller: ControllerClient (controller_client.rs) over             *)
(* ControllerRuntime (controller_runtime.rs), its ControllerHandshake       *)
(* (protocol_v2.rs) and the Router of Routing, as the Windows capture       *)
(* thread drives them (input.rs).                                           *)
(*                                                                          *)
(* A client call is cut where the Router call inside it is: `point' says    *)
(* where the client stands, `pc' where the Router does.  RequestLocal, any  *)
(* thread's, comes between any two steps.  The peer is external: any frame  *)
(* may arrive at any poll, and any send may fail.  Pong bookkeeping and the *)
(* motion sequence are left out.                                            *)
(***************************************************************************)
EXTENDS Routing

CONSTANTS
    Nonce,      \* SessionId::generate: the session of a request, all distinct
    MaxInput    \* u64::MAX of the reliable sequence

ASSUME ControllerAssumption ==
    /\ Nonce \in [1..MaxGen -> Sessions]
    /\ \A r, q \in 1..MaxGen : Nonce[r] = Nonce[q] => r = q
    /\ MaxInput \in Nat

VARIABLES
    handshake,  \* ControllerState
    pending,    \* [request, session]: pending_request, pending_session
    channel,    \* [control, input]: the handles of the transport
    point,      \* where the running client call stands
    released,   \* keys_released, as sampled for the last poll
    sequence    \* input_sequence

client == <<handshake, pending, channel, point, released, sequence>>
all == <<vars, client>>

Handshakes ==
    [state : {"Idle", "Ended"}]
    \cup [state : {"AwaitReady"}, request : Requests]
    \cup [state : {"Ready"}, request : Requests, session : Sessions]
    \cup [state : {"AwaitCommitAck", "Active"}, session : Sessions]
Points == {"idle", "begin", "frames", "ack", "advance", "ping", "drop"}

ControllerTypeOK ==
    /\ handshake \in Handshakes
    /\ pending \in [request : Requests \cup {None},
                    session : Sessions \cup {None}]
    /\ channel \in [control : BOOLEAN, input : BOOLEAN]
    /\ point \in Points
    /\ released \in BOOLEAN
    /\ sequence \in 0..MaxInput

Closed == [control |-> FALSE, input |-> FALSE]
NoPending == [request |-> None, session |-> None]
Ended == [state |-> "Ended"]
AwaitReady(request) == [state |-> "AwaitReady", request |-> request]
AwaitCommitAck(session) == [state |-> "AwaitCommitAck", session |-> session]
Active(session) == [state |-> "Active", session |-> session]

ControllerInit ==
    /\ Init
    /\ handshake = [state |-> "Idle"]
    /\ pending = NoPending
    /\ channel = Closed
    /\ point = "idle"
    /\ released = FALSE
    /\ sequence = 0

-----------------------------------------------------------------------------
(* Ways back to local.                                                     *)

\* Fault: the reliable sequence goes on in the next session.
ForgetKeepingSequence ==
    /\ handshake' = Ended
    /\ pending' = NoPending
    /\ UNCHANGED sequence

\* Handshake, request, session and sequences forgotten.
Forget ==
    /\ handshake' = Ended
    /\ pending' = NoPending
    /\ sequence' = 0

\* Fault: the platform is restored past the router.
FailLocalPastRouter ==
    /\ route' = LocalState
    /\ handoff' = NoHandoff
    /\ capture' = "none"
    /\ Forget
    /\ channel' = Closed
    /\ point' = "idle"
    /\ UNCHANGED <<gate, game_mode, last_return, effect, pc, clock, cancelled,
                   attempts, released>>

\* fail_local, after which poll drops the handles and returns the error.
FailLocal ==
    /\ GoLocal("NetworkFailed")
    /\ Forget
    /\ channel' = Closed
    /\ point' = "idle"
    /\ UNCHANGED released

\* fail_transport: the router's effects, if any, reset the handshake.
FailTransport ==
    /\ GoLocal("NetworkFailed")
    /\ IF route \in LocalRoutes
       THEN UNCHANGED <<handshake, pending, sequence>> ELSE Forget
    /\ channel' = Closed
    /\ point' = "idle"
    /\ UNCHANGED released

\* A send that failed after the router had already returned to local.
Drop ==
    /\ point = "drop"
    /\ FailTransport

\* ControllerClient::go_local, and what apply makes of its effects.
ClientGoLocal(reason) ==
    /\ point = "idle"
    /\ GoLocal(reason)
    /\ IF route \in LocalRoutes
       THEN UNCHANGED <<handshake, pending, channel, point, sequence>>
       ELSE /\ Forget
            /\ \/ channel' = Closed /\ point' = "idle"
               \/ handshake.state = "Active" /\ point' = "drop"
                  /\ UNCHANGED channel
    /\ UNCHANGED released

-----------------------------------------------------------------------------
(* begin.                                                                  *)

Begin(p) ==
    /\ point = "idle"
    /\ pc = "idle"
    /\ route \in LocalRoutes
    /\ \/ /\ GoRemote(p)
          /\ channel' = [control |-> TRUE, input |-> FALSE]
          /\ point' = "begin"
       \/ /\ channel' = Closed
          /\ UNCHANGED <<vars, point>>
    /\ UNCHANGED <<handshake, pending, released, sequence>>

\* The third disjunct: the handshake refuses the target it cannot name.
FinishBegin ==
    /\ point = "begin"
    /\ pc = "idle"
    /\ \/ /\ route = "PreparingRemote"
          /\ handshake.state \in {"Idle", "Ended"}
          /\ handshake' = AwaitReady(handoff.request)
          /\ point' = "idle"
          /\ UNCHANGED <<vars, pending, channel, released, sequence>>
       \/ /\ route = "PreparingRemote"
          /\ handshake.state \in {"Idle", "Ended"}
          /\ FailTransport
       \/ /\ route = "PreparingRemote"
          /\ GoLocal("NetworkFailed")
          /\ channel' = Closed
          /\ point' = "idle"
          /\ UNCHANGED <<handshake, pending, released, sequence>>
       \/ /\ route \in LocalRoutes
          /\ channel' = Closed
          /\ point' = "idle"
          /\ UNCHANGED <<vars, handshake, pending, released, sequence>>

-----------------------------------------------------------------------------
(* poll: frames, then advance, then a ping.  The capture thread polls while  *)
(* a candidate is pending or the capture is active.                         *)

StartPoll(sampled) ==
    /\ point = "idle"
    /\ capture # "none"
    /\ point' = "frames"
    /\ released' = sampled
    /\ UNCHANGED <<vars, handshake, pending, channel, sequence>>

\* The inbox overflowed, or its sender is gone.
PollOverflow ==
    /\ point = "idle"
    /\ capture # "none"
    /\ FailTransport

ReadyIsAwaited(request) == handshake = AwaitReady(request)

\* A Ready that answers the handshake's Prepare; the router may refuse it.
GotReady(request) ==
    /\ point = "frames"
    /\ ReadyIsAwaited(request)
    /\ IF ReadyMatches(request, Nonce[request])
       THEN /\ Ready(request, Nonce[request])
            /\ handshake' = [state |-> "Ready", request |-> request,
                             session |-> Nonce[request]]
            /\ pending' = [request |-> request, session |-> Nonce[request]]
            /\ UNCHANGED <<channel, point, released, sequence>>
       ELSE FailLocal

AckIsAwaited(session) == handshake = AwaitCommitAck(session)

\* The CommitAck of the session the Commit was sent for.
GotCommitAck(session) ==
    /\ point = "frames"
    /\ pending.request # None
    /\ pending.session = session
    /\ AckIsAwaited(session)
    /\ handshake' = Active(session)
    /\ point' = "ack"
    /\ IF AckMatches(pending.request, session)
       THEN CommitAck(pending.request, session) ELSE UNCHANGED vars
    /\ UNCHANGED <<pending, channel, released, sequence>>

\* Fault: a failed activation is reported and nothing more.
EndAfterFailedAckForgotten ==
    /\ point' = "frames"
    /\ UNCHANGED <<vars, handshake, pending, channel, sequence>>

\* end_after_failed_ack: End for the peer, local once more for the router.
EndAfterFailedAck ==
    /\ GoLocal("Emergency")
    /\ Forget
    /\ \/ channel' = Closed /\ point' = "frames"
       \/ point' = "drop" /\ UNCHANGED channel

FinishAck ==
    /\ point = "ack"
    /\ pc = "idle"
    /\ \/ /\ route = "RemoteActive"
          /\ pending' = [pending EXCEPT !.request = None]
          /\ sequence' = 0
          /\ channel' = [channel EXCEPT !.input = TRUE]
          /\ point' = "frames"
          /\ UNCHANGED <<vars, handshake, released>>
       \/ /\ route = "RemoteActive"
          /\ FailTransport
       \/ /\ route # "RemoteActive"
          /\ EndAfterFailedAck
          /\ UNCHANGED released

\* A CommitAck when no request is pending: poll drops the handles, and the
\* route stays as it is.
UnexpectedCommitAck ==
    /\ point = "frames"
    /\ pc = "idle"
    /\ pending.request = None
    /\ channel' = Closed
    /\ point' = "idle"
    /\ UNCHANGED <<vars, handshake, pending, released, sequence>>

\* Reject, any frame a receiver does not send, or one that does not match.
BadFrame ==
    /\ point = "frames"
    /\ FailLocal

\* Fault: an active route is not looked at.
AdvancePreparingOnly(sampled) == AdvancePreparing(sampled)

AdvanceRoute(sampled) == AdvancePreparing(sampled) \/ AdvanceActive

StartAdvance ==
    /\ point = "frames"
    /\ pc = "idle"
    /\ \/ /\ AdvanceRoute(released)
          /\ point' = "advance"
       \/ /\ route # "PreparingRemote"
          /\ route = "RemoteActive" => ~gate.local
          /\ point' = "ping"
          /\ UNCHANGED vars
    /\ UNCHANGED <<handshake, pending, channel, released, sequence>>

\* handshake.commit wants the very request and session it prepared.
CommitIsReady ==
    /\ pending = [request |-> handoff.request, session |-> handoff.session]
    /\ handshake = [state |-> "Ready", request |-> handoff.request,
                    session |-> handoff.session]

\* route_effects and apply.
FinishAdvance ==
    /\ point = "advance"
    /\ pc = "idle"
    /\ \/ /\ effect = "none"
          /\ point' = "ping"
          /\ UNCHANGED <<vars, handshake, pending, channel, released,
                         sequence>>
       \/ /\ effect = "Commit"
          /\ CommitIsReady
          /\ handshake' = AwaitCommitAck(pending.session)
          /\ point' = "ping"
          /\ UNCHANGED <<vars, pending, channel, released, sequence>>
       \/ /\ effect = "Commit"
          /\ FailTransport
       \/ /\ effect \in {"End", "Cancel"}
          /\ Forget
          /\ \/ channel' = Closed /\ point' = "ping"
             \/ handshake.state = "Active" /\ point' = "drop"
                /\ UNCHANGED channel
          /\ UNCHANGED <<vars, released>>

\* poll_ping, not due or sent.
PingNotDue ==
    /\ point = "ping"
    /\ point' = "idle"
    /\ UNCHANGED <<vars, handshake, pending, channel, released, sequence>>

\* poll_ping, due and not sent: certain once the control handle is gone.
PingFails ==
    /\ point = "ping"
    /\ handshake.state = "Active"
    /\ FailTransport

-----------------------------------------------------------------------------
(* Input, and the rest.                                                    *)

\* next_input; after the last sequence, an error and no frame.
NextInput ==
    /\ handshake.state = "Active"
    /\ sequence < MaxInput
    /\ sequence' = sequence + 1

SendInput ==
    /\ point = "idle"
    /\ channel.input
    /\ NextInput
    /\ UNCHANGED <<vars, handshake, pending, channel, point, released>>

\* The frame was numbered and could not be sent.
SendInputFails ==
    /\ point = "idle"
    /\ handshake.state = "Active"
    /\ sequence < MaxInput
    /\ FailTransport

\* send_motion: next_motion numbers apart, and a failure ends the session.
NextMotion == handshake.state = "Active"

SendMotionFails ==
    /\ point = "idle"
    /\ NextMotion
    /\ FailTransport

ClientSetGameMode(enabled) ==
    /\ point = "idle"
    /\ SetGameMode(enabled)
    /\ UNCHANGED client

RouterStep == (CallStep \/ RequestLocal \/ Tick) /\ UNCHANGED client

ClientStep ==
    \/ FinishBegin \/ FinishAck \/ StartAdvance \/ FinishAdvance
    \/ PingNotDue \/ Drop

PollFrame ==
    \/ \E request \in 1..MaxGen : GotReady(request)
    \/ \E session \in Sessions : GotCommitAck(session)
    \/ UnexpectedCommitAck
    \/ BadFrame

ControllerNext ==
    \/ \E p \in Peers : Begin(p)
    \/ \E sampled \in BOOLEAN : StartPoll(sampled)
    \/ PollOverflow
    \/ PollFrame
    \/ ClientStep
    \/ PingFails
    \/ SendInput \/ SendInputFails \/ SendMotionFails
    \/ \E reason \in {"User", "Emergency"} : ClientGoLocal(reason)
    \/ \E enabled \in BOOLEAN : ClientSetGameMode(enabled)
    \/ RouterStep

ControllerSpec == ControllerInit /\ [][ControllerNext]_all

\* The capture thread finishes its calls and keeps polling; a second's worth
\* of polls holds one at which the ping is due.  A closed channel leaves a
\* full inbox behind, no more, so some poll gets past its frames.
ControllerFairness ==
    /\ WF_all(CallStep /\ UNCHANGED client)
    /\ WF_all(Tick /\ UNCHANGED client)
    /\ WF_all(ClientStep)
    /\ SF_all(StartAdvance)
    /\ WF_all(\E sampled \in BOOLEAN : StartPoll(sampled))
    /\ SF_all(PingFails /\ ~channel.control)

ControllerFairSpec == ControllerSpec /\ ControllerFairness

-----------------------------------------------------------------------------
(* Properties.                                                             *)

\* Between two client calls the handshake says of the session what the router
\* says of the route, whichever step of the last call failed: nothing is kept
\* of a session the router has left, and a Commit awaits its ACK exactly when
\* the router sent it.
BetweenCalls ==
    point = "idle" =>
        /\ route \in LocalRoutes =>
              /\ handshake.state \in {"Idle", "Ended"}
              /\ pending = NoPending
              /\ channel = Closed
        /\ route = "RemoteActive" <=> handshake.state = "Active"
        /\ route = "PreparingRemote" /\ handoff.commit_sent
              <=> handshake.state = "AwaitCommitAck"

\* Router, handshake and client never speak of different sessions or requests,
\* in the middle of a call either.
OneSession ==
    /\ handshake.state \in {"Ready", "AwaitCommitAck", "Active"}
          => pending.session = handshake.session
    /\ handshake.state \in {"AwaitReady", "Ready"} /\ route = "PreparingRemote"
          => handshake.request = handoff.request
    /\ pending.session # None /\ route \notin LocalRoutes
          => /\ pending.session = handoff.session
             /\ pending.request \in {None, handoff.request}

\* The input stream is opened, and input is numbered, only in the session whose
\* CommitAck the router accepted.
InputBelongs ==
    (channel.input \/ sequence > 0) /\ point \notin {"advance", "drop"} =>
        /\ route = "RemoteActive"
        /\ handshake = Active(handoff.session)

\* What client, handshake and router hold of a session belongs together, in the
\* middle of a call as well.
ClientInv == ControllerTypeOK /\ OneSession /\ InputBelongs

\* A session whose control handle is gone does not stay active for ever.
DeadChannelEnds ==
    (route = "RemoteActive" /\ ~channel.control) ~> route \in LocalRoutes

\* The capture thread that polls a controller client ends a session whose channel
\* is dead, and keeps the promises of the router it drives: a handoff ends, an
\* override returns.
PollingReturns == DeadChannelEnds /\ OverrideReturns /\ HandoffEnds

\* Whatever the client and its peer do, the router lives through a behaviour
\* of Routing: its properties hold of every controller.
ImplementsRouting == Spec
=============================================================================
