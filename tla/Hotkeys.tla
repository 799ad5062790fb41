------------------------------- MODULE Hotkeys -------------------------------
(* The system-wide keys of the controller's machine: what the settings ask for, *)
(* what the program believes it has registered, and what the system has         *)
(* registered for it. A save brings the three groups of functions in line one   *)
(* after the other; other programs take and release keys in between.            *)
EXTENDS Naturals

CONSTANTS
    Keys,      \* keys
    MaxSaves,  \* bound: settings saved
    MaxOthers  \* bound: keys taken and released by other programs, and restarts

ASSUME HotkeyBounds == {MaxSaves, MaxOthers} \subseteq Nat

VARIABLES
    role,     \* the saved role
    wanted,   \* the saved key of every function
    held,     \* the key every function is believed to have
    os,       \* the keys the system has registered for this program
    foreign,  \* the keys of other programs
    step,     \* the group whose turn it is in a sync, or "idle"
    starting, \* the sync is the one of the start
    clean,    \* nothing was saved and no key taken since the program started
    did,      \* what the last key did
    saves, others

hotkeyVars == <<role, wanted, held, os, foreign, step, starting, clean, did, saves, others>>

NoKey == "none"
Directions == {"left", "right"}
Controls == {"mac", "home"}
Functions == {"toggle"} \cup Directions \cup Controls

HotkeysInit ==
    /\ role = "server" /\ wanted = [f \in Functions |-> NoKey]
    /\ held = [f \in Functions |-> NoKey] /\ os = {} /\ foreign = {}
    /\ step = "idle" /\ starting = FALSE /\ clean = TRUE /\ did = "nothing"
    /\ saves = 0 /\ others = 0

-----------------------------------------------------------------------------
(* The system. *)
Free(k, keys) == k \notin keys /\ k \notin foreign
Registered(k, keys) == IF k # NoKey /\ Free(k, keys) THEN keys \cup {k} ELSE keys

\* On a client no key is asked for.
Target(f) == IF role = "server" THEN wanted[f] ELSE NoKey

Synced(f) == held[f] = Target(f)

-----------------------------------------------------------------------------
\* validate_layout_shortcut_conflicts
Distinct(keys) == \A f, g \in Functions : f # g /\ keys[f] # NoKey => keys[f] # keys[g]

\* Up to two functions change at a time: a key is moved or two are exchanged.
Save ==
    /\ step = "idle" /\ saves < MaxSaves
    /\ saves' = saves + 1 /\ clean' = FALSE
    /\ \E r \in {"server", "client"}, f, g \in Functions, k, l \in Keys \cup {NoKey} :
          /\ role' = r /\ wanted' = [wanted EXCEPT ![f] = k, ![g] = l]
          /\ r = "server" => Distinct(wanted')
    /\ step' = "toggle" /\ starting' = FALSE
    /\ UNCHANGED <<held, os, foreign, did, others>>

\* An error of a save ends it; an error of the start is only logged.
After(group, ok) ==
    step' = IF ~ok /\ ~starting THEN "idle"
            ELSE CASE group = "toggle" -> "directions"
                   [] group = "directions" -> "controls"
                   [] OTHER -> "idle"

\* sync_runtime_toggle_shortcut: the old key is given up before the new one is asked for.
SyncToggle ==
    /\ step = "toggle"
    /\ LET next == Target("toggle")
           left == os \ {held["toggle"]}
       IN IF Synced("toggle") THEN UNCHANGED <<held, os>> /\ After("toggle", TRUE)
          ELSE /\ os' = Registered(next, left)
               /\ held' = [held EXCEPT !["toggle"] = IF next \in os' \ left THEN next ELSE NoKey]
               /\ After("toggle", next = NoKey \/ next \in os' \ left)
    /\ UNCHANGED <<role, wanted, foreign, starting, clean, did, saves, others>>

\* Fault: the old key of a direction stays registered.
MovedAdding(keys, f) == IF Synced(f) THEN keys ELSE Registered(Target(f), keys)

\* One direction: its old key goes and its new one is asked for.
Moved(keys, f) == IF Synced(f) THEN keys ELSE Registered(Target(f), keys \ {held[f]})

\* sync_screen_switch_shortcuts: one direction after the other, failures are
\* only logged, and all of it counts as done.
SyncDirections ==
    /\ step = "directions"
    /\ os' = Moved(Moved(os, "left"), "right")
    /\ held' = [f \in Functions |-> IF f \in Directions THEN Target(f) ELSE held[f]]
    /\ After("directions", TRUE)
    /\ UNCHANGED <<role, wanted, foreign, starting, clean, did, saves, others>>

OldKeys(changed) == {held[f] : f \in changed} \ {NoKey}
NewKeys(changed) == {Target(f) : f \in changed} \ {NoKey}

\* sync_control_hotkeys: every old key that changes goes, then every new one is
\* asked for; after a failure the new ones are given up and the old ones, free still,
\* taken again.
SyncControls ==
    /\ step = "controls"
    /\ LET changed == {f \in Controls : ~Synced(f)}
           old == OldKeys(changed)
           new == NewKeys(changed)
           works == old \subseteq os /\ \A k \in new : Free(k, os \ old)
       IN /\ os' = IF works THEN (os \ old) \cup new ELSE os
          /\ held' = [f \in Functions |-> IF works /\ f \in changed THEN Target(f) ELSE held[f]]
          /\ After("controls", works)
    /\ UNCHANGED <<role, wanted, foreign, starting, clean, did, saves, others>>

-----------------------------------------------------------------------------
(* Other programs, the start, and a key pressed. *)
Take(k) ==
    /\ others < MaxOthers /\ k \notin os \cup foreign
    /\ others' = others + 1 /\ foreign' = foreign \cup {k} /\ clean' = FALSE
    /\ UNCHANGED <<role, wanted, held, os, step, starting, did, saves>>

Release(k) ==
    /\ k \in foreign
    /\ foreign' = foreign \ {k}
    /\ UNCHANGED <<role, wanted, held, os, step, starting, clean, did, saves, others>>

\* The system takes the keys of a program that ends; the setup asks for them anew.
Restart ==
    /\ step = "idle" /\ others < MaxOthers
    /\ others' = others + 1
    /\ os' = {} /\ held' = [f \in Functions |-> NoKey]
    /\ step' = "toggle" /\ starting' = TRUE /\ clean' = (foreign = {})
    /\ did' = "nothing"
    /\ UNCHANGED <<role, wanted, foreign, saves>>

\* route_global_shortcut: the control keys, then the toggle, then the directions.
Does(k) ==
    LET of(group) == {f \in group : held[f] = k} IN
    IF of(Controls) # {} THEN CHOOSE f \in of(Controls) : TRUE
    ELSE IF held["toggle"] = k THEN "toggle"
    ELSE IF of(Directions) # {} THEN CHOOSE f \in of(Directions) : TRUE
    ELSE "nothing"

Press(k) ==
    /\ k \in os /\ role = "server" /\ step = "idle"
    /\ did' = Does(k)
    /\ UNCHANGED <<role, wanted, held, os, foreign, step, starting, clean, saves, others>>

HotkeysNext ==
    \/ Save \/ SyncToggle \/ SyncDirections \/ SyncControls \/ Restart
    \/ \E k \in Keys : Take(k) \/ Release(k) \/ Press(k)

HotkeysSpec == HotkeysInit /\ [][HotkeysNext]_hotkeyVars

-----------------------------------------------------------------------------
(* Properties. *)

\* No key stays taken from the user's other programs for nothing: whatever
\* failed and was undone, every registered key still has a function.
NoKeyForNothing == \A k \in os : \E f \in Functions : held[f] = k

\* A start cures what saves have left behind: with no other program in the way
\* every saved key is registered, and no other.
StartCures ==
    step = "idle" /\ starting /\ clean => os = {Target(f) : f \in Functions} \ {NoKey}

\* A key that brings the user home, or to the Mac, does that and nothing else,
\* even while another function believes the key to be its own.
ControlKeyActs ==
    \A f \in Controls : did' # did /\ did' \in Functions \ Controls => held[f] # held[did']

\* A key the program takes serves the function the user gave it.
HotkeysServe == [][NoKeyForNothing' /\ StartCures' /\ ControlKeyActs]_hotkeyVars
=============================================================================
