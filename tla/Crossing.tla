------------------------------- MODULE Crossing -------------------------------
(***************************************************************************)
(* The pointer between the controlling machine's screens and the remote    *)
(* ones: which edges lead to the remote desktop, when a move crosses one,  *)
(* where the pointer enters, how it roams over the remote screens, and     *)
(* where it lands when it comes back.                                      *)
(*                                                                         *)
(* Coordinates are whole pixels, and a local screen's native size is the   *)
(* size the layout draws.  One remote device; the handoff protocol between *)
(* a candidate and its activation is in Controller.                        *)
(*                                                                         *)
(* A move across an edge makes the capture thread ask for a handoff while  *)
(* it holds the lock of the context's active target, which the capture     *)
(* port takes again: the thread never comes back from that call (Capture,  *)
(* Hangs).  So only a requested switch comes to control a remote screen,   *)
(* just_crossed is never set, and the branch that swallows the first       *)
(* displacement after a crossing is not modelled.                          *)
(***************************************************************************)
EXTENDS Integers, Sequences

CONSTANTS
    Layouts,    \* the layouts edits and presence move between: [local, remote, online]
    Selected,   \* the id of the screen selected in the interface
    Tolerance,  \* EDGE_TOLERANCE: how far apart touching screens may be drawn
    Deltas,     \* bound: the displacements of one mouse event
    CrossingScenarios,  \* bound: which of CrossingFeatures one behaviour has
    Nowhere

CrossingFeatures == {"switch", "edit"}
Edges == {"Right", "Left", "Bottom", "Top"}

(* A layout with a screen of no size is not saved (validate_layout).        *)
IsScreen(s) == {s.x, s.y} \subseteq Int /\ {s.w, s.h} \subseteq Nat \ {0}
ScreensOf(side) == {side[i] : i \in DOMAIN side}

ASSUME CrossingAssumption ==
    /\ Tolerance \in Nat /\ CrossingScenarios \subseteq SUBSET CrossingFeatures
    /\ \A d \in Deltas : {d.x, d.y} \subseteq Int
    /\ \A l \in Layouts :
          /\ l.online \in BOOLEAN
          /\ 1 \in DOMAIN l.local
          /\ \A s \in ScreensOf(l.local) \cup ScreensOf(l.remote) : IsScreen(s)

VARIABLES
    arranged,     \* the shared layout
    cache,      \* the layout the cached targets were built from, or Nowhere
    pointer,    \* the Windows cursor
    lastPoint,  \* where the last processed local move ended, or Nowhere
    points,     \* the point remembered for each local screen, or Nowhere
    pending,    \* the candidate of a handoff being prepared, or Nowhere
    active,     \* the candidate being controlled: [target, screen, x, y], or Nowhere
    anchor,     \* the cursor's pin while a remote machine is controlled, or Nowhere
    asked,      \* the candidate an edge was crossed with; the thread hangs there; or Nowhere
    fresh,      \* history: no local move since the start or the last return
    scenario    \* the features of this behaviour, fixed

local == <<pointer, lastPoint, points>>
remote == <<pending, active, anchor, asked>>
crossingVars == <<arranged, cache, local, remote, fresh, scenario>>

Point(px, py) == [x |-> px, y |-> py]
Plus(p, d) == Point(p.x + d.x, p.y + d.y)
Minus(p, q) == Point(p.x - q.x, p.y - q.y)
AbsOf(n) == IF n < 0 THEN -n ELSE n
Clamped(n, low, high) == IF n < low THEN low ELSE IF n > high THEN high ELSE n

(***************************************************************************)
(* Geometry of the layout.                                                 *)
(***************************************************************************)
RightOf(s) == s.x + s.w
BottomOf(s) == s.y + s.h
OnSomeScreen(s, p) == p.x \in s.x..(RightOf(s) - 1) /\ p.y \in s.y..(BottomOf(s) - 1)
InBounds(s, p) == p.x \in 0..(s.w - 1) /\ p.y \in 0..(s.h - 1)

Overlap(s, r) == s.x < RightOf(r) /\ RightOf(s) > r.x /\ s.y < BottomOf(r) /\ BottomOf(s) > r.y
Near(a, b) == AbsOf(a - b) <= Tolerance
Smaller(a, b) == IF a < b THEN a ELSE b
Larger(a, b) == IF a > b THEN a ELSE b
Facing(a1, a2, b1, b2) == Smaller(a2, b2) - Larger(a1, b1) > Tolerance

(* The first member of a sequence that is in a set, or Nowhere. *)
FirstOf(seq, set) ==
    LET first == {i \in DOMAIN seq : seq[i] \in set /\ \A j \in 1..(i - 1) : seq[j] \notin set}
    IN IF first = {} THEN Nowhere ELSE seq[CHOOSE i \in first : TRUE]

(* The first edge of s that touches r, in the code's order, or Nowhere. *)
EdgeOrder == <<"Right", "Left", "Bottom", "Top">>
TouchingEdge(s, r) ==
    LET besides == Facing(s.y, BottomOf(s), r.y, BottomOf(r))
        along == Facing(s.x, RightOf(s), r.x, RightOf(r))
        touches == [Right |-> besides /\ Near(RightOf(s), r.x),
                    Left |-> besides /\ Near(s.x, RightOf(r)),
                    Bottom |-> along /\ Near(BottomOf(s), r.y),
                    Top |-> along /\ Near(s.y, BottomOf(r))]
    IN FirstOf(EdgeOrder, {e \in Edges : touches[e]})

(* An online device's screens: for every local screen those that touch one   *)
(* of its edges, with that edge; Nowhere in the place of one that does not.  *)
Touching(s, r) ==
    IF Overlap(s, r) \/ TouchingEdge(s, r) = Nowhere THEN Nowhere
    ELSE [local |-> s, remote |-> r, edge |-> TouchingEdge(s, r)]
Targets(l) ==
    [i \in DOMAIN l.local |->
        [j \in DOMAIN l.remote |->
            IF l.online THEN Touching(l.local[i], l.remote[j]) ELSE Nowhere]]

(* The targets of every layout. *)
TargetsOf == [l \in Layouts |-> Targets(l)]

TargetsIn(l) ==
    {TargetsOf[l][i][j] : i \in DOMAIN l.local, j \in DOMAIN l.remote} \ {Nowhere}

FirstTarget(l, set) ==
    FirstOf([i \in DOMAIN l.local |-> FirstOf(TargetsOf[l][i], set)], set)

(***************************************************************************)
(* Crossing an edge: the move must point outwards, start near the edge and *)
(* end on it.                                                              *)
(***************************************************************************)
Band == 2 * Tolerance
Margin == 1

Outward(edge, d) ==
    CASE edge = "Right" -> d.x [] edge = "Left" -> -d.x [] edge = "Bottom" -> d.y [] edge = "Top" -> -d.y
Sideways(edge, d) == IF edge \in {"Right", "Left"} THEN AbsOf(d.y) ELSE AbsOf(d.x)

(* How far p is beyond the edge; not positive inside the screen. *)
Beyond(s, edge, p) ==
    CASE edge = "Right" -> p.x - RightOf(s) [] edge = "Left" -> s.x - p.x
      [] edge = "Bottom" -> p.y - BottomOf(s) [] edge = "Top" -> s.y - p.y

Beside(s, edge, p) ==
    IF edge \in {"Right", "Left"}
    THEN p.y >= s.y - Margin /\ p.y <= BottomOf(s) + Margin
    ELSE p.x >= s.x - Margin /\ p.x <= RightOf(s) + Margin

Crosses(t, p, d) ==
    /\ Outward(t.edge, d) >= 1
    /\ 2 * Outward(t.edge, d) >= Sideways(t.edge, d)
    /\ Beyond(t.local, t.edge, Minus(p, d)) >= -Band
    /\ Beyond(t.local, t.edge, p) >= -Margin
    /\ Beside(t.local, t.edge, p)

Along(t, p) == Minus(p, Point(t.remote.x, t.remote.y))

(* Where the pointer enters: just inside the edge, at the same height. *)
EntryPoint(t, p, d) ==
    LET at == Along(t, p)
        last == Point(t.remote.w - 1, t.remote.h - 1)
    IN Point(Clamped(CASE t.edge = "Right" -> 1 + d.x
                       [] t.edge = "Left" -> t.remote.w - 2 + d.x
                       [] OTHER -> at.x, 0, last.x),
             Clamped(CASE t.edge = "Bottom" -> 1 + d.y
                       [] t.edge = "Top" -> t.remote.h - 2 + d.y
                       [] OTHER -> at.y, 0, last.y))

Candidate(t, at) == [target |-> t, screen |-> t.remote, x |-> at.x, y |-> at.y]
Centered(t) == Candidate(t, Point(t.remote.w \div 2, t.remote.h \div 2))

(* Where the pointer comes back: on the entry edge, at the same height. *)
LocalReturnPoint(a) ==
    LET s == a.target.local
        edge == a.target.edge
        gx == a.target.remote.x + a.x
        gy == a.target.remote.y + a.y
    IN Point(CASE edge = "Right" -> RightOf(s) - 1 [] edge = "Left" -> s.x
               [] OTHER -> Clamped(gx, s.x, RightOf(s) - 1),
             CASE edge = "Bottom" -> BottomOf(s) - 1 [] edge = "Top" -> s.y
               [] OTHER -> Clamped(gy, s.y, BottomOf(s) - 1))

(***************************************************************************)
(* Initial state, and a restart: a capture thread has a context of its own *)
(* and the cached targets outlive it.                                      *)
(***************************************************************************)
NoPoints == [id \in UNION {{l.local[i].id : i \in DOMAIN l.local} : l \in Layouts} |-> Nowhere]

CrossingInit ==
    /\ arranged \in Layouts /\ cache = Nowhere
    /\ pointer = Point(arranged.local[1].x, arranged.local[1].y)
    /\ lastPoint = Nowhere /\ points = NoPoints
    /\ pending = Nowhere /\ active = Nowhere /\ anchor = Nowhere
    /\ asked = Nowhere /\ fresh = TRUE
    /\ scenario \in CrossingScenarios

RestartCapture ==
    /\ lastPoint' = Nowhere /\ points' = NoPoints
    /\ pending' = Nowhere /\ active' = Nowhere /\ anchor' = Nowhere
    /\ asked' = Nowhere /\ fresh' = TRUE
    /\ UNCHANGED <<arranged, cache, pointer, scenario>>

(***************************************************************************)
(* The layout and the cached targets.  A move uses a cache younger than    *)
(* the TTL, or an older one when the layout is locked.                     *)
(***************************************************************************)
ChangeLayout ==
    /\ "edit" \in scenario /\ arranged' \in Layouts \ {arranged}
    /\ UNCHANGED <<cache, local, remote, fresh, scenario>>

UsedCache == {arranged} \cup (IF cache = Nowhere THEN {} ELSE {cache})

(***************************************************************************)
(* Local moves.  Windows keeps the cursor on a local screen; the hook sees *)
(* the point before that.                                                  *)
(***************************************************************************)
Under(p) == FirstOf(arranged.local, {s \in ScreensOf(arranged.local) : OnSomeScreen(s, p)})

KeptTarget(p) ==
    IF \E s \in ScreensOf(arranged.local) : OnSomeScreen(s, p) THEN p
    ELSE LET s == IF Under(pointer) = Nowhere THEN arranged.local[1] ELSE Under(pointer)
         IN Point(Clamped(p.x, s.x, RightOf(s) - 1), Clamped(p.y, s.y, BottomOf(s) - 1))

(* A move is compared with the one before; without one it has no direction. *)
MovedTo(p) == IF lastPoint = Nowhere THEN Point(0, 0) ELSE Minus(p, lastPoint)

(* Without a handoff pending, a move across an edge asks for one. *)
LocalMove(d) ==
    /\ asked = Nowhere /\ active = Nowhere
    /\ LET p == Plus(pointer, d)
           moved == MovedTo(p)
       IN /\ pointer' = KeptTarget(p) /\ lastPoint' = p
          /\ \E used \in UsedCache :
               /\ cache' = used
               /\ LET t == FirstTarget(used, {tt \in TargetsIn(used) : Crosses(tt, p, moved)})
                  IN asked' = IF t # Nowhere /\ pending = Nowhere
                              THEN Candidate(t, EntryPoint(t, p, moved)) ELSE Nowhere
    /\ fresh' = FALSE
    /\ UNCHANGED <<arranged, points, pending, active, anchor, scenario>>

(* The hooks let every move pass, and nobody takes it from their queue. *)
MoveUnseen(d) ==
    /\ asked # Nowhere
    /\ pointer' = KeptTarget(Plus(pointer, d))
    /\ UNCHANGED <<arranged, cache, lastPoint, points, remote, fresh, scenario>>

(***************************************************************************)
(* Requested switches, and the selected remote screen.                     *)
(***************************************************************************)
SourceScreen ==
    IF Under(pointer) # Nowhere THEN Under(pointer)
    ELSE LET primary == FirstOf(arranged.local, {s \in ScreensOf(arranged.local) : s.primary})
         IN IF primary = Nowhere THEN arranged.local[1] ELSE primary

Neighbour(edge) ==
    FirstOf(arranged.local,
            {s \in ScreensOf(arranged.local) :
                /\ s.id # SourceScreen.id /\ ~Overlap(SourceScreen, s)
                /\ TouchingEdge(SourceScreen, s) = edge})

TargetAt(edge) ==
    LET atEdge == {t \in TargetsIn(arranged) : t.edge = edge}
        mine == FirstTarget(arranged, {t \in atEdge : t.local.id = SourceScreen.id})
    IN IF mine # Nowhere THEN mine ELSE FirstTarget(arranged, atEdge)

Remembered(s) ==
    IF points[s.id] # Nowhere THEN points[s.id] ELSE Point(s.x + s.w \div 2, s.y + s.h \div 2)

(* The thread answers, and neither controls nor prepares. *)
AtHome == asked = Nowhere /\ active = Nowhere /\ pending = Nowhere

(* A switch between local screens; each remembers where it was left. *)
SwitchLocal(edge) ==
    /\ "switch" \in scenario /\ AtHome /\ Neighbour(edge) # Nowhere
    /\ pointer' = Remembered(Neighbour(edge))
    /\ points' = [points EXCEPT ![SourceScreen.id] = pointer]
    /\ UNCHANGED <<arranged, cache, lastPoint, remote, fresh, scenario>>

SwitchRemote(edge) ==
    /\ AtHome /\ Neighbour(edge) = Nowhere /\ TargetAt(edge) # Nowhere
    /\ pending' = Centered(TargetAt(edge))
    /\ UNCHANGED <<arranged, cache, local, active, anchor, asked, fresh, scenario>>

Preferred ==
    LET chosen == FirstTarget(arranged, {t \in TargetsIn(arranged) : t.remote.id = Selected})
    IN IF chosen # Nowhere THEN chosen ELSE FirstTarget(arranged, TargetsIn(arranged))

GoMac ==
    /\ AtHome /\ Preferred # Nowhere
    /\ pending' = Centered(Preferred)
    /\ UNCHANGED <<arranged, cache, local, active, anchor, asked, fresh, scenario>>

(***************************************************************************)
(* The capture port: activation pins the cursor, a restore forgets it all. *)
(***************************************************************************)
ActivateCapture ==
    /\ pending # Nowhere
    /\ active' = pending /\ pending' = Nowhere
    /\ anchor' = LocalReturnPoint(pending) /\ pointer' = anchor'
    /\ UNCHANGED <<arranged, cache, lastPoint, points, asked, fresh, scenario>>

\* Fault: the last local point survives the return.
AfterReturnKept == lastPoint

AfterReturn == Nowhere

Restore ==
    /\ pending' = Nowhere /\ active' = Nowhere /\ anchor' = Nowhere
    /\ lastPoint' = AfterReturn /\ fresh' = TRUE
    /\ UNCHANGED <<arranged, cache, points, asked, scenario>>

(* A hotkey, a failure, the desktop: the cursor stays where it is. *)
ReturnLocal ==
    /\ pending # Nowhere \/ active # Nowhere
    /\ Restore /\ UNCHANGED pointer

(***************************************************************************)
(* Moves while the remote machine is controlled.                           *)
(***************************************************************************)
Position(a) == Point(a.x, a.y)
Global(s, p) == Point(s.x + p.x, s.y + p.y)

(* Onto another screen of the device, if one is there. *)
Roamed(a) ==
    LET g == Global(a.screen, Position(a))
        next == FirstOf(arranged.remote,
                        {s \in ScreensOf(arranged.remote) : s.id # a.screen.id /\ OnSomeScreen(s, g)})
    IN IF next = Nowhere THEN a
       ELSE [a EXCEPT !.screen = next, !.x = g.x - next.x, !.y = g.y - next.y]

ExitsEntryEdge(a, d) ==
    /\ a.screen.id = a.target.remote.id
    /\ CASE a.target.edge = "Right" -> a.x <= 0 /\ d.x < 0
         [] a.target.edge = "Left" -> a.x >= a.screen.w - 1 /\ d.x > 0
         [] a.target.edge = "Bottom" -> a.y <= 0 /\ d.y < 0
         [] a.target.edge = "Top" -> a.y >= a.screen.h - 1 /\ d.y > 0

\* Fault: the position is kept inside the entry screen's width only.
PinnedX(a) == [a EXCEPT !.x = Clamped(@, 0, a.screen.w - 1)]

Pinned(a) == [a EXCEPT !.x = Clamped(@, 0, a.screen.w - 1), !.y = Clamped(@, 0, a.screen.h - 1)]

RemoteMove(d) ==
    /\ active # Nowhere
    /\ LET delta == Minus(Plus(pointer, d), anchor)
           moved == [active EXCEPT !.x = @ + delta.x, !.y = @ + delta.y]
           next == IF InBounds(moved.screen, Position(moved)) THEN moved ELSE Roamed(moved)
       IN /\ delta # Point(0, 0)
          /\ \/ /\ ~InBounds(next.screen, Position(next)) /\ ExitsEntryEdge(next, delta)
                /\ Restore
                /\ pointer' = LocalReturnPoint(Pinned(next))
             \/ /\ InBounds(next.screen, Position(next)) \/ ~ExitsEntryEdge(next, delta)
                /\ active' = Pinned(next)
                /\ pointer' = anchor
                /\ UNCHANGED <<arranged, cache, lastPoint, points, pending, anchor, asked, fresh, scenario>>

CrossingNext ==
    \/ ChangeLayout \/ GoMac \/ ActivateCapture \/ ReturnLocal \/ RestartCapture
    \/ \E d \in Deltas : LocalMove(d) \/ MoveUnseen(d) \/ RemoteMove(d)
    \/ \E edge \in Edges : SwitchLocal(edge) \/ SwitchRemote(edge)

CrossingSpec == CrossingInit /\ [][CrossingNext]_crossingVars

(***************************************************************************)
(* Properties.                                                             *)
(***************************************************************************)
PointType == [x : Int, y : Int]
IsCandidate(c) ==
    /\ DOMAIN c = {"target", "screen", "x", "y"}
    /\ Position(c) \in PointType /\ c.target.edge \in Edges

CrossingTypeOK ==
    /\ arranged \in Layouts /\ cache \in Layouts \cup {Nowhere}
    /\ pointer \in PointType /\ fresh \in BOOLEAN
    /\ {lastPoint, anchor} \subseteq PointType \cup {Nowhere}
    /\ \A id \in DOMAIN points : points[id] \in PointType \cup {Nowhere}
    /\ \A c \in {pending, active, asked} \ {Nowhere} : IsCandidate(c)

(* A candidate's position is inside the screen it names, through every move *)
(* over the device's screens and every edit of the layout, and the cursor   *)
(* that is pinned meanwhile is on the local screen that led there, wherever *)
(* that screen was when it did (crossing_target, centered_active_target,    *)
(* update_active_remote_screen, local_return_point).                        *)
(* The screen it names is not always the one of the handoff: after roaming  *)
(* it is another of the device's.                                           *)
PointerOnScreen ==
    /\ \A c \in {pending, active, asked} \ {Nowhere} : InBounds(c.screen, Position(c))
    /\ active # Nowhere => pointer = anchor /\ OnSomeScreen(active.target.local, pointer)

(* The type invariant, and where the two pointers are while one of them     *)
(* stands for the other.  It says nothing of the last local point, or of    *)
(* the points remembered for the local screens: those only have their type. *)
CrossingInv == CrossingTypeOK /\ PointerOnScreen

(* A return is not followed by a handoff the user did not ask for: the     *)
(* first move after it, whatever its length, crosses no edge, although the *)
(* cursor lands on the edge (restore_windows_capture_state,                *)
(* handle_windows_mouse_move).                                             *)
Asks == asked = Nowhere /\ asked' # Nowhere
NoBounce == Asks => ~fresh

(* The entry asked for keeps the pointer's place along the edge, as far as *)
(* the remote screen reaches (crossing_target_with_transform,              *)
(* native_to_layout_point).                                                *)
Within(n, low, size) == n \in low..(low + size - 1)
EntryIsContinuous ==
    Asks =>
        LET t == asked'.target
            g == Global(t.remote, Position(asked'))
        IN IF t.edge \in {"Right", "Left"}
           THEN Within(lastPoint'.y, t.remote.y, t.remote.h) => g.y = lastPoint'.y
           ELSE Within(lastPoint'.x, t.remote.x, t.remote.w) => g.x = lastPoint'.x

(* However control ends, the cursor is on the local screen it left from    *)
(* (local_return_point, release_windows_remote_control_with_reason).       *)
LandsWhereItLeft ==
    active # Nowhere /\ active' = Nowhere => OnSomeScreen(active.target.local, pointer')

(* The pointer leaves when and where the user moves it across, and comes   *)
(* back to the screen it left from.                                        *)
AsksAsMoved == [][NoBounce /\ EntryIsContinuous /\ LandsWhereItLeft]_crossingVars
=============================================================================
