------------------------------ MODULE Routing ------------------------------
(***************************************************************************)
(* The controller's routing core: LocalOverride (one atomic word shared    *)
(* with the hook callbacks and the UI thread) and Router (owned by the     *)
(* capture thread).  routing.rs, with the platform port of input.rs.       *)
(*                                                                         *)
(* Grain.  A Router call runs on the capture thread, but RequestLocal runs *)
(* on any thread, so a call is split at every access to the atomic that a  *)
(* RequestLocal can separate from the next one: `pc' says where the call   *)
(* stands.  A read of the gate that finds the request cancelled is merged  *)
(* with the go_local that follows it, because generations never come back  *)
(* and the answer cannot change in between.  ReturningLocal exists only    *)
(* inside go_local and is not a state of the model.                        *)
(***************************************************************************)
EXTENDS Naturals

CONSTANTS
    Peers,          \* names of trusted receivers
    Sessions,       \* non-zero session tokens a receiver may offer
    None,           \* the absent peer or session
    MaxGen,         \* the last generation: u64::MAX is 2 * MaxGen + 1
    MaxTime,        \* the last millisecond a u64 clock counts
    HandoffTimeout, \* HANDOFF_TIMEOUT_MS
    KeysTimeout     \* KEYS_RELEASE_TIMEOUT_MS

ASSUME RoutingAssumption ==
    /\ MaxGen \in Nat
    /\ MaxTime \in Nat
    /\ HandoffTimeout \in Nat \ {0}
    /\ KeysTimeout \in Nat \ {0}
    /\ None \notin Peers
    /\ None \notin Sessions

VARIABLES
    gate,           \* LocalOverride: [gen, local], the word 2 * gen + local
    route,          \* RouteState's constructor
    handoff,        \* the fields of PreparingRemote; RemoteActive keeps peer
                    \* and session, the rest is then history
    game_mode,      \* Router.game_mode
    last_return,    \* Router.last_return
    capture,        \* the Windows capture port: nothing, v2_pending, active
    effect,         \* the effect the last call returned
    pc,             \* where the running Router call stands
    clock,          \* the monotonic clock, in units of the timeouts
    cancelled,      \* history: was the request overridden since reserve?
    attempts        \* history: [focus, commit] calls made for the request

vars == <<gate, route, handoff, game_mode, last_return, capture, effect, pc,
          clock, cancelled, attempts>>

LocalRoutes == {"LocalDesktop", "LocalGame"}
Routes == LocalRoutes \cup {"PreparingRemote", "RemoteActive"}
Reasons == {"User", "Emergency", "Timeout", "KeysHeld", "FocusUnavailable",
            "CaptureFailed", "NetworkFailed", "QueueFull"}
Gates == [gen : 0..MaxGen, local : BOOLEAN]
Handoffs == [peer : Peers \cup {None}, request : 0..MaxGen,
             deadline : Nat, keys_deadline : Nat,
             keys_released_seen : BOOLEAN,
             session : Sessions \cup {None}, commit_sent : BOOLEAN]
NoHandoff == [peer |-> None, request |-> 0, deadline |-> 0,
              keys_deadline |-> 0, keys_released_seen |-> FALSE,
              session |-> None, commit_sent |-> FALSE]
Effects == {"none", "Prepare", "Commit", "Cancel", "End"}
CallPoints == {"idle", "prepare", "prepare_check", "focus", "commit_check",
               "activate", "cas"}

TypeOK ==
    /\ gate \in Gates
    /\ route \in Routes
    /\ handoff \in Handoffs
    /\ game_mode \in BOOLEAN
    /\ last_return \in Reasons \cup {None}
    /\ capture \in {"none", "pending", "active"}
    /\ effect \in Effects
    /\ pc \in CallPoints
    /\ clock \in 0..MaxTime
    /\ cancelled \in BOOLEAN
    /\ attempts \in [focus : Nat, commit : Nat]

-----------------------------------------------------------------------------
(* LocalOverride.                                                          *)

\* Fault: the addition does not saturate.
WrappingOverride(g) == [gen |-> g.gen + 1, local |-> TRUE]

\* (v saturating_add 2) | 1: the next generation, local; the last one stays.
Overridden(g) == [gen |-> IF g.gen = MaxGen THEN MaxGen ELSE g.gen + 1,
                  local |-> TRUE]

\* checked_add and `next < u64::MAX': the last generation is never reserved.
CanReserve(g) == g.gen + 1 < MaxGen
Reserved(g) == [gen |-> g.gen + 1, local |-> TRUE]

\* load == generation: a request is an odd word, so the local bit counts too.
StillPreparing(g, request) == g = [gen |-> request, local |-> TRUE]

\* Fault: fetch_and(!1), which clears the local bit of whatever word is there.
ClearedLocalBit(g, request) == [g EXCEPT !.local = FALSE]

\* compare_exchange(generation, generation & !1): the word unchanged on failure.
ActivatedWord(g, request) ==
    IF request # MaxGen /\ StillPreparing(g, request)
    THEN [gen |-> request, local |-> FALSE] ELSE g

-----------------------------------------------------------------------------
LocalState == IF game_mode THEN "LocalGame" ELSE "LocalDesktop"

Init ==
    /\ gate = [gen |-> 0, local |-> TRUE]
    /\ route = "LocalDesktop"
    /\ handoff = NoHandoff
    /\ game_mode = FALSE
    /\ last_return = None
    /\ capture = "none"
    /\ effect = "none"
    /\ pc = "idle"
    /\ clock = 0
    /\ cancelled = FALSE
    /\ attempts = [focus |-> 0, commit |-> 0]

\* Fault: go_local restores the platform and leaves the gate alone.
LeaveRemoteGateOpen(reason, returned) ==
    /\ capture' = IF route \in LocalRoutes THEN capture ELSE "none"
    /\ last_return' = reason
    /\ route' = LocalState
    /\ handoff' = NoHandoff
    /\ effect' = returned
    /\ pc' = "idle"
    /\ UNCHANGED <<gate, game_mode, clock, cancelled, attempts>>

\* Fault: go_local restores the platform only after an activation.
LeaveRemoteUnrestored(reason, returned) ==
    /\ gate' = Overridden(gate)
    /\ capture' = IF route = "RemoteActive" THEN "none" ELSE capture
    /\ last_return' = reason
    /\ route' = LocalState
    /\ handoff' = NoHandoff
    /\ effect' = returned
    /\ pc' = "idle"
    /\ UNCHANGED <<game_mode, clock, cancelled, attempts>>

\* go_local: override the gate, restore the platform, then the effects.
\* `returned' is what the enclosing call hands to its caller.
LeaveRemote(reason, returned) ==
    /\ gate' = Overridden(gate)
    /\ capture' = IF route \in LocalRoutes THEN capture ELSE "none"
    /\ last_return' = reason
    /\ route' = LocalState
    /\ handoff' = NoHandoff
    /\ effect' = returned
    /\ pc' = "idle"
    /\ UNCHANGED <<game_mode, clock, cancelled, attempts>>

\* The effect of go_local: End once a session was offered, else Cancel.
ReturnEffect ==
    IF route \in LocalRoutes THEN "none"
    ELSE IF handoff.session = None THEN "Cancel" ELSE "End"

\* Any thread: a hook callback, a global shortcut, the tray, stop_input.
RequestLocal ==
    /\ gate' = Overridden(gate)
    /\ cancelled' = TRUE
    /\ UNCHANGED <<route, handoff, game_mode, last_return, capture, effect,
                   pc, clock, attempts>>

SetGameMode(enabled) ==
    /\ pc = "idle"
    /\ game_mode # enabled
    /\ game_mode' = enabled
    /\ route' = IF route \in LocalRoutes
                THEN IF enabled THEN "LocalGame" ELSE "LocalDesktop"
                ELSE route
    /\ UNCHANGED <<gate, handoff, last_return, capture, effect, pc, clock,
                   cancelled, attempts>>

-----------------------------------------------------------------------------
(* go_remote.  A call in PreparingRemote or RemoteActive answers Ok or     *)
(* Busy and changes nothing; so does one that exhausts clock or gate.      *)

MayGoRemote ==
    /\ route \in LocalRoutes
    /\ clock + HandoffTimeout <= MaxTime
    /\ clock + KeysTimeout <= MaxTime
    /\ CanReserve(gate)

GoRemote(p) ==
    /\ pc = "idle"
    /\ MayGoRemote
    /\ gate' = Reserved(gate)
    /\ route' = "PreparingRemote"
    /\ handoff' = [NoHandoff EXCEPT !.peer = p,
                                    !.request = gate.gen + 1,
                                    !.deadline = clock + HandoffTimeout,
                                    !.keys_deadline = clock + KeysTimeout]
    /\ pc' = "prepare"
    /\ effect' = "none"
    /\ cancelled' = FALSE
    /\ attempts' = [focus |-> 0, commit |-> 0]
    /\ UNCHANGED <<game_mode, last_return, capture, clock>>

\* WindowsV2CapturePort::prepare_capture refuses a second candidate.
PrepareCapture ==
    /\ pc = "prepare"
    /\ \/ /\ capture = "none"
          /\ capture' = "pending"
          /\ pc' = "prepare_check"
          /\ UNCHANGED <<gate, route, handoff, game_mode, last_return, effect,
                         clock, cancelled, attempts>>
       \/ LeaveRemote("CaptureFailed", "none")

FinishPrepare ==
    /\ pc = "prepare_check"
    /\ IF StillPreparing(gate, handoff.request)
       THEN /\ pc' = "idle"
            /\ effect' = "Prepare"
            /\ UNCHANGED <<gate, route, handoff, game_mode, last_return,
                           capture, clock, cancelled, attempts>>
       ELSE LeaveRemote("Emergency", "none")

\* ready: a stale request or another session is answered StaleReply and
\* changes nothing.
ReadyMatches(request, offered) ==
    /\ StillPreparing(gate, request)
    /\ route = "PreparingRemote"
    /\ request = handoff.request
    /\ handoff.session \in {None, offered}

Ready(request, offered) ==
    /\ pc = "idle"
    /\ ReadyMatches(request, offered)
    /\ handoff' = [handoff EXCEPT !.session = offered]
    /\ effect' = "none"
    /\ UNCHANGED <<gate, route, game_mode, last_return, capture, pc, clock,
                   cancelled, attempts>>

-----------------------------------------------------------------------------
(* advance, called by every poll with the sampled key state.               *)

\* Fault: the handoff deadline is not looked at.
HandoffFaultUntimed(released) ==
    IF ~StillPreparing(gate, handoff.request) THEN "Emergency"
    ELSE IF ~released /\ handoff.commit_sent THEN "KeysHeld"
    ELSE None

HandoffFault(released) ==
    IF ~StillPreparing(gate, handoff.request) THEN "Emergency"
    ELSE IF clock >= handoff.deadline THEN "Timeout"
    ELSE IF \/ ~released /\ handoff.commit_sent
            \/ /\ ~released \/ ~handoff.keys_released_seen
               /\ clock >= handoff.keys_deadline
    THEN "KeysHeld"
    ELSE None

AdvancePreparing(released) ==
    /\ pc = "idle"
    /\ route = "PreparingRemote"
    /\ IF HandoffFault(released) # None
       THEN LeaveRemote(HandoffFault(released), ReturnEffect)
       ELSE /\ handoff' = [handoff EXCEPT !.keys_released_seen = released]
            /\ pc' = IF ~handoff.commit_sent /\ released
                           /\ handoff.session # None
                     THEN "focus" ELSE "idle"
            /\ attempts' = [attempts EXCEPT !.focus =
                               IF pc' = "focus" THEN @ + 1 ELSE @]
            /\ effect' = "none"
            /\ UNCHANGED <<gate, route, game_mode, last_return, capture,
                           clock, cancelled>>

PrepareFocus ==
    /\ pc = "focus"
    /\ \/ /\ pc' = "commit_check"
          /\ UNCHANGED <<gate, route, handoff, game_mode, last_return,
                         capture, effect, clock, cancelled, attempts>>
       \/ LeaveRemote("FocusUnavailable", ReturnEffect)

IssueCommit ==
    /\ pc = "commit_check"
    /\ IF StillPreparing(gate, handoff.request)
       THEN /\ handoff' = [handoff EXCEPT !.commit_sent = TRUE]
            /\ effect' = "Commit"
            /\ attempts' = [attempts EXCEPT !.commit = @ + 1]
            /\ pc' = "idle"
            /\ UNCHANGED <<gate, route, game_mode, last_return, capture,
                           clock, cancelled>>
       ELSE LeaveRemote("Emergency", ReturnEffect)

\* An overridden gate ends an active route at the next poll.
AdvanceActive ==
    /\ pc = "idle"
    /\ route = "RemoteActive"
    /\ gate.local
    /\ LeaveRemote("Emergency", ReturnEffect)

-----------------------------------------------------------------------------
(* commit_ack: on any error the effects of go_local are dropped and the    *)
(* caller ends the session itself.                                         *)

AckMatches(request, session) ==
    /\ route = "PreparingRemote"
    /\ handoff.request = request
    /\ handoff.session = session
    /\ handoff.commit_sent

CommitAck(request, session) ==
    /\ pc = "idle"
    /\ AckMatches(request, session)
    /\ IF clock >= handoff.deadline \/ ~StillPreparing(gate, request)
       THEN LeaveRemote(IF clock >= handoff.deadline
                        THEN "Timeout" ELSE "Emergency", "none")
       ELSE /\ pc' = "activate"
            /\ effect' = "none"
            /\ UNCHANGED <<gate, route, handoff, game_mode, last_return,
                           capture, clock, cancelled, attempts>>

\* activate_capture takes the candidate, hides the cursor, sets `active'.
ActivateCapture ==
    /\ pc = "activate"
    /\ \/ /\ capture = "pending"
          /\ capture' = "active"
          /\ pc' = "cas"
          /\ UNCHANGED <<gate, route, handoff, game_mode, last_return, effect,
                         clock, cancelled, attempts>>
       \/ LeaveRemote("CaptureFailed", "none")

ActivateGate ==
    /\ pc = "cas"
    /\ IF ActivatedWord(gate, handoff.request) # gate
       THEN /\ gate' = ActivatedWord(gate, handoff.request)
            /\ route' = "RemoteActive"
            /\ pc' = "idle"
            /\ UNCHANGED <<handoff, game_mode, last_return, capture, effect,
                           clock, cancelled, attempts>>
       ELSE LeaveRemote("Emergency", "none")

\* Router::go_local as a call: the user, a network or a queue failure.
GoLocal(reason) ==
    /\ pc = "idle"
    /\ LeaveRemote(reason, ReturnEffect)

Tick ==
    /\ clock < MaxTime
    /\ clock' = clock + 1
    /\ UNCHANGED <<gate, route, handoff, game_mode, last_return, capture,
                   effect, pc, cancelled, attempts>>

-----------------------------------------------------------------------------
Requests == 0..MaxGen

RouterCall ==
    \/ \E p \in Peers : GoRemote(p)
    \/ \E request \in Requests, s \in Sessions : Ready(request, s)
    \/ \E released \in BOOLEAN : AdvancePreparing(released)
    \/ AdvanceActive
    \/ \E request \in Requests, s \in Sessions : CommitAck(request, s)
    \/ \E reason \in {"User", "Emergency", "NetworkFailed"} : GoLocal(reason)
    \/ \E enabled \in BOOLEAN : SetGameMode(enabled)

CallStep == PrepareCapture \/ FinishPrepare \/ PrepareFocus \/ IssueCommit
            \/ ActivateCapture \/ ActivateGate

Next == RouterCall \/ CallStep \/ RequestLocal \/ Tick

Spec == Init /\ [][Next]_vars

\* The capture thread runs its call to the end and polls `advance' while a
\* handoff is pending or active; the clock does not stop.
Advance == AdvanceActive \/ \E released \in BOOLEAN : AdvancePreparing(released)
Fairness == WF_vars(CallStep) /\ WF_vars(Advance) /\ WF_vars(Tick)
FairSpec == Spec /\ Fairness

-----------------------------------------------------------------------------
(* Properties.                                                             *)

\* The hooks swallow input exactly while the gate is open.  They may do so
\* only for the request that was activated, with the capture port active:
\* otherwise the user's keyboard and mouse would go nowhere.
GateOpenIsActive ==
    ~gate.local => /\ route = "RemoteActive"
                   /\ capture = "active"
                   /\ gate.gen = handoff.request

\* Between calls a local router has given everything back: gate closed, no
\* candidate pending, no cursor hidden (go_local, and every error path that
\* leaves go_remote, advance and commit_ack).
LocalIsRestored ==
    pc = "idle" /\ route \in LocalRoutes => gate.local /\ capture = "none"

\* The platform is asked for focus, and the receiver for a Commit, at most
\* once per request (FocusPort::prepare_focus promises it).
OncePerRequest == attempts.focus <= 1 /\ attempts.commit <= 1

\* The cursor is hidden and the pointer pinned only for a request whose
\* Commit was sent, for the session its Ready offered, after focus was won.
CaptureFollowsCommit ==
    capture = "active" => /\ handoff.commit_sent
                          /\ handoff.session # None
                          /\ attempts = [focus |-> 1, commit |-> 1]

\* A late CommitAck cannot undo an override: the gate opens only for the
\* generation its request reserved, and only if nobody asked for local
\* control since, at whatever point of the activation that happened.
NoLateActivation ==
    [][gate.local /\ ~gate'.local
         => ~cancelled /\ gate'.gen = handoff.request]_vars

\* The session a Commit was sent for is the session that becomes active: from
\* the first Ready to the return to local, no later Ready replaces it.
SessionIsFixed ==
    [][handoff.session # None /\ route' \notin LocalRoutes
         => handoff'.session = handoff.session]_vars

\* An override always ends an active route: the next poll returns it.
OverrideReturns ==
    (route = "RemoteActive" /\ gate.local) ~> route \in LocalRoutes

\* No handoff waits for its peer forever.
HandoffEnds == (route = "PreparingRemote") ~> (route # "PreparingRemote")

\* The routing core is a handoff that anyone can revoke (Handoff): every call,
\* cut wherever another thread can intervene, is one of its steps or none.
Abstract == INSTANCE Handoff WITH
    phase   <- IF route \in LocalRoutes THEN "local"
               ELSE IF route = "RemoteActive" THEN "remote" ELSE "preparing",
    revoked <- \/ route \in LocalRoutes
               \/ route = "PreparingRemote" /\ gate.gen # handoff.request
               \/ route = "RemoteActive" /\ gate.local

ImplementsHandoff == Abstract!HandoffSpec
=============================================================================
