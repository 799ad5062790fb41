------------------------------ MODULE DeskProofs ------------------------------
(***************************************************************************)
(* Proofs about the machine the user sits at: the native events a receiver *)
(* injects (Injection), the system-wide keys (Hotkeys), the pointer        *)
(* between the screens (Crossing) and the processes of the program         *)
(* (SingleInstance).                                                       *)
(*                                                                         *)
(* They hold for any set of keys and any assignment of flags to modifiers  *)
(* (several may share one), on either system, whatever a reset and a       *)
(* refused submission interrupt; for any system-wide keys and other        *)
(* programs' keys; for any layouts of screens that have a size, any        *)
(* tolerance and any displacement; and for any number of processes.        *)
(***************************************************************************)
EXTENDS Injection, Hotkeys, Crossing, SingleInstance, TLAPS, FiniteSetTheorems

-----------------------------------------------------------------------------
(* The native events of a receiver.                                        *)

Busy == IF call = Nothing THEN {} ELSE {call.key}

\* A call is under way, or none is.
CallPart == call # Nothing => call \in Calls

\* Only a Mac keeps flags; only a modifier's call has flags to store.
MacPart ==
    /\ flags # {} => machine = "mac"
    /\ call # Nothing /\ call.step = "store" => machine = "mac" /\ call.key \in Modifiers

\* What a call has loaded was stamped by keys that are held.
SeenPart == call # Nothing => call.seen \subseteq FlagsOf(keysHeld)

\* Once a release has stored its flags, the released key stamps none of them.
ReleasePart ==
    call # Nothing /\ call.step = "post" /\ ~call.down
        => flags \subseteq FlagsOf(keysHeld \ {call.key})

FlagInv ==
    /\ CallPart
    /\ MacPart
    /\ SeenPart
    /\ ReleasePart
    /\ NoModifierLeftOver
-----------------------------------------------------------------------------
\* More keys stamp more flags.
LEMMA FlagsGrow ==
    ASSUME NEW K, NEW L, K \subseteq L
    PROVE  FlagsOf(K) \subseteq FlagsOf(L)
  BY DEF FlagsOf

\* Without a key go at most the flags of that key; without one that is no
\* modifier, none.
LEMMA FlagsWithout ==
    ASSUME NEW K, NEW k
    PROVE  /\ FlagsOf(K) \ {ModifierFlag[k]} \subseteq FlagsOf(K \ {k})
           /\ k \notin Modifiers => FlagsOf(K) \subseteq FlagsOf(K \ {k})
  BY DEF FlagsOf

\* With a modifier comes its flag.
LEMMA FlagsWith ==
    ASSUME NEW K, NEW k \in Modifiers
    PROVE  FlagsOf(K) \cup {ModifierFlag[k]} \subseteq FlagsOf(K \cup {k})
  BY DEF FlagsOf

\* The invariant only looks at five variables.
LEMMA RecordUntouched ==
    ASSUME FlagInv, UNCHANGED <<machine, call, flags, keysHeld>>
    PROVE  FlagInv'
  BY DEF FlagInv, CallPart, MacPart, SeenPart, ReleasePart, NoModifierLeftOver,
         FlagsOf, Modifiers, Calls

\* The injector starts with no key held, no flag and no call.
LEMMA InitFlagInv == InjectionInit => FlagInv
  BY DEF InjectionInit, FlagInv, CallPart, MacPart, SeenPart, ReleasePart, NoModifierLeftOver
-----------------------------------------------------------------------------
\* A call loads the flags of the keys that are held.
LEMMA SubmitKeeps ==
    ASSUME FlagInv, NEW k \in InjectedKeys, NEW down \in BOOLEAN, SubmitKey(k, down)
    PROVE  FlagInv'
  <1> DEFINE first == IF machine = "mac" /\ k \in Modifiers THEN "store" ELSE "post"
  <1>1. call = Nothing /\ UNCHANGED <<machine, flags, keysHeld>>
    BY DEF SubmitKey
  <1>2. call' = [key |-> k, down |-> down, seen |-> flags, step |-> first]
    BY DEF SubmitKey
  <1>3. flags \subseteq FlagsOf(keysHeld)
    BY <1>1 DEF FlagInv, NoModifierLeftOver
  <1>4. FlagsOf(keysHeld) \subseteq FlagsOf(InjectedKeys)
    BY InjectionAssumption DEF FlagsOf, Modifiers
  <1>5. first \in {"store", "post"}
    OBVIOUS
  <1> HIDE DEF first
  <1>6. call' \in Calls
    BY <1>2, <1>3, <1>4, <1>5 DEF Calls
  <1>7. call'.key = k /\ call'.down = down /\ call'.seen = flags /\ call'.step = first
    BY <1>2
  <1>8. CallPart' /\ SeenPart'
    BY <1>1, <1>3, <1>6, <1>7 DEF CallPart, SeenPart, FlagsOf, Modifiers, Calls
  <1>9. MacPart'
    <2>1. first = "store" => machine = "mac" /\ k \in Modifiers
      BY DEF first
    <2> QED
      BY <1>1, <1>7, <2>1 DEF FlagInv, MacPart, Modifiers
  <1>10. ReleasePart'
    <2>1. first = "post" => flags \subseteq FlagsOf(keysHeld \ {k})
      <3>1. CASE machine # "mac"
        BY <3>1 DEF FlagInv, MacPart
      <3>2. CASE k \notin Modifiers
        BY <1>3, <3>2, FlagsWithout
      <3> QED
        BY <3>1, <3>2 DEF first
    <2> QED
      BY <1>1, <1>7, <2>1 DEF ReleasePart, FlagsOf, Modifiers
  <1>11. NoModifierLeftOver'
    <2>1. flags \subseteq FlagsOf(keysHeld \cup Busy')
      BY <1>3, FlagsGrow
    <2> QED
      BY <1>1, <2>1 DEF NoModifierLeftOver, Busy, FlagsOf, Modifiers
  <1> QED
    BY <1>8, <1>9, <1>10, <1>11 DEF FlagInv

\* A call stores what it has loaded, with or without the flag of its own key:
\* a reset in between is undone for keys that are held, and for no other.
LEMMA StoreKeeps ==
    ASSUME FlagInv, StoreFlags
    PROVE  FlagInv'
  <1> DEFINE k == call.key
  <1>1. call \in Calls /\ k \in Modifiers /\ call.seen \subseteq FlagsOf(keysHeld)
    BY DEF StoreFlags, FlagInv, CallPart, MacPart, SeenPart
  <1>2. /\ call' \in Calls
        /\ call'.key = k /\ call'.down = call.down
        /\ call'.seen = call.seen /\ call'.step = "post"
    BY <1>1 DEF StoreFlags, Calls
  <1>3. call' # Nothing /\ UNCHANGED <<machine, keysHeld>>
    BY <1>2, NothingIsNoCall DEF StoreFlags, Calls, FlagsOf, Modifiers
  <1>4. flags' = WithFlag(call.seen, k, call.down)
    BY DEF StoreFlags
  <1>5. CallPart' /\ SeenPart'
    BY <1>1, <1>2, <1>3 DEF CallPart, SeenPart, FlagsOf, Modifiers, Calls
  <1>6. flags' \subseteq FlagsOf(keysHeld \cup {k})
    BY <1>1, <1>4, FlagsWith DEF WithFlag
  <1>7. ~call.down => flags' \subseteq FlagsOf(keysHeld \ {k})
    BY <1>1, <1>4, FlagsWithout DEF WithFlag
  <1>8. ReleasePart' /\ NoModifierLeftOver'
    BY <1>2, <1>3, <1>6, <1>7 DEF ReleasePart, NoModifierLeftOver, FlagsOf, Modifiers
  <1>9. MacPart'
    BY <1>2, <1>3 DEF StoreFlags, FlagInv, MacPart
  <1> QED
    BY <1>5, <1>8, <1>9 DEF FlagInv

\* The event is posted or refused, and the receiver records the key: the flags
\* that are left are those of the keys it then holds.
LEMMA PostKeeps ==
    ASSUME FlagInv, NEW taken \in BOOLEAN, PostKey(taken)
    PROVE  FlagInv'
  <1> DEFINE k == call.key
  <1>1. /\ call # Nothing /\ call.step = "post" /\ call' = Nothing
        /\ keysHeld' = KeysAfter(k, call.down)
        /\ UNCHANGED <<machine, flags>>
    BY DEF PostKey
  <1>2. flags \subseteq FlagsOf(keysHeld')
    <2>1. CASE call.down
      BY <1>1, <2>1 DEF KeysAfter, FlagInv, NoModifierLeftOver
    <2>2. CASE ~call.down
      BY <1>1, <2>2 DEF KeysAfter, FlagInv, ReleasePart
    <2> QED BY <2>1, <2>2
  <1>3. FlagsOf(keysHeld') \subseteq FlagsOf(keysHeld' \cup {})
    BY FlagsGrow
  <1>4. NoModifierLeftOver'
    BY <1>1, <1>2, <1>3 DEF NoModifierLeftOver, FlagsOf, Modifiers
  <1>5. CallPart' /\ SeenPart' /\ ReleasePart'
    BY <1>1 DEF CallPart, SeenPart, ReleasePart
  <1>6. MacPart'
    BY <1>1 DEF FlagInv, MacPart
  <1> QED
    BY <1>4, <1>5, <1>6 DEF FlagInv

\* A reset on another thread clears the flags, whatever call is under way.
LEMMA ResetKeeps ==
    ASSUME FlagInv, ResetFlags
    PROVE  FlagInv'
  <1>1. flags' = {} /\ UNCHANGED <<machine, call, keysHeld>>
    BY DEF ResetFlags
  <1> QED
    BY <1>1 DEF FlagInv, CallPart, MacPart, SeenPart, ReleasePart, NoModifierLeftOver,
                FlagsOf, Modifiers, Calls

\* Every step of the injector keeps the invariant.
LEMMA StepFlagInv == FlagInv /\ [InjectionNext]_injectionVars => FlagInv'
  <1> SUFFICES ASSUME FlagInv, [InjectionNext]_injectionVars PROVE FlagInv'
    OBVIOUS
  <1>1. ASSUME NEW k \in InjectedKeys, NEW down \in BOOLEAN, SubmitKey(k, down) PROVE FlagInv'
    BY <1>1, SubmitKeeps
  <1>2. CASE StoreFlags
    BY <1>2, StoreKeeps
  <1>3. ASSUME NEW taken \in BOOLEAN, PostKey(taken) PROVE FlagInv'
    BY <1>3, PostKeeps
  <1>4. CASE ResetFlags
    BY <1>4, ResetKeeps
  <1>5. ASSUME NEW b \in ClickButtons \cup SideButtons, NEW down \in BOOLEAN, NEW p \in Points,
               PostButton(b, down, p)
        PROVE  FlagInv'
    BY <1>5, RecordUntouched DEF PostButton
  <1>6. CASE PostMove \/ PostScroll
    BY <1>6, RecordUntouched DEF PostMove, PostScroll, PostOther
  <1>7. CASE IntervalPasses \/ ResetClicks \/ ReadinessChanges
    BY <1>7, RecordUntouched DEF IntervalPasses, ResetClicks, ReadinessChanges
  <1>8. CASE UNCHANGED injectionVars
    BY <1>8, RecordUntouched DEF injectionVars
  <1> QED
    BY <1>1, <1>2, <1>3, <1>4, <1>5, <1>6, <1>7, <1>8 DEF InjectionNext

\* No modifier is stamped on a Mac's events that the receiver does not hold,
\* whatever reset falls between the load, the store and the post of inject_key.
THEOREM ModifiersAreHeld == InjectionSpec => []NoModifierLeftOver
  <1>1. FlagInv => NoModifierLeftOver
    BY DEF FlagInv
  <1> QED
    BY <1>1, InitFlagInv, StepFlagInv, PTL DEF InjectionSpec
-----------------------------------------------------------------------------
(* Clicks (MacClickTracker).                                               *)

\* What the tracker keeps of a press is the count it was posted with.
ClickInv ==
    /\ DOMAIN pressed = ClickButtons /\ DOMAIN pressedAs = ClickButtons
    /\ \A b \in ClickButtons :
          pressed[b] # Nothing => pressed[b].count = pressedAs[b]

\* A button event on a Mac keeps the records of the other buttons.
LEMMA ButtonClickInv ==
    ASSUME ClickInv, NEW b, NEW down \in BOOLEAN, NEW p, PostButton(b, down, p)
    PROVE  ClickInv'
  <1>1. CASE UNCHANGED <<pressed, pressedAs>>
    BY <1>1 DEF ClickInv
  <1>2. CASE b \in ClickButtons /\ down /\ machine = "mac"
    <2>1. /\ pressed' = [pressed EXCEPT
                            ![b] = [point |-> p, count |-> PressCount(b, p)]]
          /\ pressedAs' = [pressedAs EXCEPT ![b] = PressCount(b, p)]
      BY <1>2 DEF PostButton, PostButtonMac, PostButtonWindows, TrackPress
    <2> QED
      BY <1>2, <2>1 DEF ClickInv
  <1>3. CASE b \in ClickButtons /\ ~down /\ machine = "mac"
    <2>1. pressed' = [pressed EXCEPT ![b] = Nothing] /\ pressedAs' = pressedAs
      BY <1>3 DEF PostButton, PostButtonMac, PostButtonWindows, TrackRelease
    <2> QED
      BY <1>3, <2>1 DEF ClickInv
  <1> QED
    BY <1>1, <1>2, <1>3 DEF PostButton, PostButtonMac, PostButtonWindows

\* Every step of the injection keeps the count of clicks right.
LEMMA StepClickInv == ClickInv /\ [InjectionNext]_injectionVars => ClickInv'
  <1> SUFFICES ASSUME ClickInv, [InjectionNext]_injectionVars PROVE ClickInv'
    OBVIOUS
  <1>1. ASSUME UNCHANGED <<pressed, pressedAs>> PROVE ClickInv'
    BY <1>1 DEF ClickInv
  <1>2. ASSUME NEW b, NEW down \in BOOLEAN, NEW p, PostButton(b, down, p) PROVE ClickInv'
    BY <1>2, ButtonClickInv
  <1>3. CASE ResetClicks
    BY <1>3 DEF ResetClicks, ClickInv
  <1> QED
    BY <1>1, <1>2, <1>3
    DEF InjectionNext, SubmitKey, StoreFlags, PostKey, PostMove, PostScroll, PostOther,
        IntervalPasses, ResetFlags, ReadinessChanges, injectionVars

\* MacClickTracker::event_count: a release is posted with the count of its own
\* press or with none, for any buttons and positions, whichever positions are
\* near, and whatever resets and other buttons come in between.
THEOREM ReleasesMatch == InjectionSpec => ClicksPair
  <1>1. InjectionInit => ClickInv
    BY DEF InjectionInit, ClickInv
  <1>2. ASSUME ClickInv, NEW b \in ClickButtons, NEW p \in Points,
               PostButton(b, FALSE, p), machine = "mac"
        PROVE  posted'.count \in {0, pressedAs[b]}
    <2>1. posted' = ButtonEvent(b, FALSE, ReleaseCount(b, p))
      BY <1>2 DEF PostButton, PostButtonMac, PostButtonWindows
    <2>2. ReleaseCount(b, p) \in {0, pressedAs[b]}
      BY <1>2 DEF ReleaseCount, ClickInv
    <2> QED
      BY <2>1, <2>2 DEF ButtonEvent
  <1>3. ClickInv =>
          [ \A b \in ClickButtons, p \in Points :
              (PostButton(b, FALSE, p) /\ machine = "mac")
                 => posted'.count \in {0, pressedAs[b]} ]_injectionVars
    BY <1>2
  <1> QED
    BY <1>1, <1>3, StepClickInv, PTL DEF InjectionSpec, ClicksPair

-----------------------------------------------------------------------------
(* The system-wide keys.                                                   *)

\* Every function has an entry, and "none" is no key the system knows.
HotkeyTypes ==
    /\ DOMAIN held = Functions /\ DOMAIN wanted = Functions
    /\ role \in {"server", "client"}
    /\ step \in {"idle", "toggle", "directions", "controls"}
    /\ NoKey \notin os

\* The saved keys of a controlling machine are apart.
SavedApart == role = "server" => Distinct(wanted)

KeysOf(group) == {Target(f) : f \in group} \ {NoKey}

\* A start that meets no other program has registered the keys of the groups it
\* is through with, and believes nothing of the others.
Through ==
    CASE step = "toggle" -> {}
      [] step = "directions" -> {"toggle"}
      [] step = "controls" -> {"toggle"} \cup Directions
      [] OTHER -> Functions
StartPart ==
    starting /\ clean =>
        /\ foreign = {}
        /\ os = KeysOf(Through)
        /\ \A f \in Functions : held[f] = IF f \in Through THEN Target(f) ELSE NoKey

HotkeyInv == HotkeyTypes /\ SavedApart /\ NoKeyForNothing /\ StartPart

\* The five functions a hotkey can have, and how they are grouped.
LEMMA FunctionNames ==
    /\ Functions = {"toggle", "left", "right", "mac", "home"}
    /\ "toggle" \notin Directions \cup Controls
    /\ Directions \cap Controls = {}
    /\ Directions = {"left", "right"} /\ Controls = {"mac", "home"}
  BY DEF Functions, Directions, Controls

\* Two functions of a server have no key in common.
LEMMA TargetsApart ==
    ASSUME SavedApart, role \in {"server", "client"}, NEW f \in Functions, NEW g \in Functions,
           f # g, Target(f) # NoKey
    PROVE  Target(f) # Target(g)
  BY DEF SavedApart, Distinct, Target

\* After a group comes the next, or the end of the save.
LEMMA AfterGroup ==
    ASSUME NEW group \in {"toggle", "directions", "controls"}, NEW ok, After(group, ok)
    PROVE  /\ step' \in {"idle", "toggle", "directions", "controls"}
           /\ starting /\ group = "toggle" => step' = "directions"
           /\ starting /\ group = "directions" => step' = "controls"
           /\ group = "controls" => step' = "idle"
  BY DEF After

\* Saving the settings keeps the invariant of the hotkeys.
LEMMA SaveKeys == ASSUME HotkeyInv, Save PROVE HotkeyInv'
  <1>1. HotkeyTypes'
    BY DEF Save, HotkeyInv, HotkeyTypes
  <1>2. SavedApart'
    BY DEF Save, SavedApart, Distinct
  <1>3. NoKeyForNothing'
    BY DEF Save, HotkeyInv, NoKeyForNothing
  <1>4. StartPart'
    BY DEF Save, StartPart
  <1> QED
    BY <1>1, <1>2, <1>3, <1>4 DEF HotkeyInv

\* Syncing the toggle keeps it.
LEMMA ToggleKeys == ASSUME HotkeyInv, SyncToggle PROVE HotkeyInv'
  <1> DEFINE next == Target("toggle")
             left == os \ {held["toggle"]}
  <1>1. /\ step = "toggle" /\ UNCHANGED <<role, wanted, foreign, starting, clean>>
        /\ \/ Synced("toggle") /\ UNCHANGED <<held, os>> /\ After("toggle", TRUE)
           \/ /\ ~Synced("toggle")
              /\ os' = Registered(next, left)
              /\ held' = [held EXCEPT !["toggle"] = IF next \in os' \ left THEN next ELSE NoKey]
              /\ After("toggle", next = NoKey \/ next \in os' \ left)
    BY DEF SyncToggle
  <1>2. HotkeyTypes'
    BY <1>1, AfterGroup DEF HotkeyInv, HotkeyTypes, Registered
  <1>3. SavedApart'
    BY <1>1 DEF HotkeyInv, SavedApart, Distinct
  <1>4. NoKeyForNothing'
    <2>1. CASE UNCHANGED <<held, os>>
      BY <2>1 DEF HotkeyInv, NoKeyForNothing
    <2>2. CASE /\ os' = Registered(next, left)
               /\ held' = [held EXCEPT !["toggle"] = IF next \in os' \ left THEN next ELSE NoKey]
      <3>1. ASSUME NEW k \in left PROVE \E f \in Functions : held'[f] = k
        <4>1. PICK f \in Functions : held[f] = k
          BY <3>1 DEF HotkeyInv, NoKeyForNothing
        <4>2. f # "toggle"
          BY <3>1, <4>1
        <4> QED
          BY <2>2, <4>1, <4>2 DEF HotkeyInv, HotkeyTypes
      <3>2. next \in os' \ left => held'["toggle"] = next
        BY <2>2, FunctionNames DEF HotkeyInv, HotkeyTypes
      <3>3. os' \subseteq left \cup {next}
        BY <2>2 DEF Registered
      <3> QED
        BY <3>1, <3>2, <3>3, FunctionNames DEF NoKeyForNothing
    <2> QED
      BY <1>1, <2>1, <2>2
  <1>5. StartPart'
    <2> SUFFICES ASSUME starting, clean
                 PROVE  /\ foreign' = {}
                        /\ os' = (KeysOf(Through))'
                        /\ \A f \in Functions : held'[f] = IF f \in Through' THEN Target(f)' ELSE NoKey
      BY <1>1 DEF StartPart
    <2>1. foreign = {} /\ os = {} /\ \A f \in Functions : held[f] = NoKey
      BY <1>1 DEF HotkeyInv, StartPart, Through, KeysOf
    <2>2. step' = "directions"
      BY <1>1, AfterGroup
    <2>3. \A f \in Functions : Target(f)' = Target(f)
      BY <1>1 DEF Target
    <2>4. Through' = {"toggle"} /\ (KeysOf(Through))' = {next} \ {NoKey}
      BY <2>2, <2>3, FunctionNames DEF Through, KeysOf
    <2>5. os' = {next} \ {NoKey} /\ held'["toggle"] = next
      <3>1. CASE UNCHANGED <<held, os>> /\ Synced("toggle")
        BY <2>1, <3>1, FunctionNames DEF Synced
      <3>2. CASE /\ os' = Registered(next, left)
                 /\ held' = [held EXCEPT !["toggle"] = IF next \in os' \ left THEN next ELSE NoKey]
        BY <2>1, <3>2, FunctionNames DEF Registered, Free, HotkeyInv, HotkeyTypes
      <3> QED
        BY <1>1, <3>1, <3>2
    <2>6. \A f \in Functions \ {"toggle"} : held'[f] = NoKey
      BY <1>1, <2>1 DEF HotkeyInv, HotkeyTypes
    <2> QED
      BY <1>1, <2>1, <2>3, <2>4, <2>5, <2>6
  <1> QED
    BY <1>2, <1>3, <1>4, <1>5 DEF HotkeyInv

\* Syncing the pair of direction keys keeps it.
LEMMA DirectionKeys == ASSUME HotkeyInv, SyncDirections PROVE HotkeyInv'
  <1> DEFINE middle == Moved(os, "left")
  <1>1. /\ step = "directions" /\ UNCHANGED <<role, wanted, foreign, starting, clean>>
        /\ os' = Moved(middle, "right")
        /\ held' = [f \in Functions |-> IF f \in Directions THEN Target(f) ELSE held[f]]
        /\ After("directions", TRUE)
    BY DEF SyncDirections
  <1>2. \A keys, f : /\ Moved(keys, f) \subseteq keys \cup {Target(f)}
                     /\ NoKey \notin keys => NoKey \notin Moved(keys, f)
                     /\ ~Synced(f) /\ held[f] # Target(f) => held[f] \notin Moved(keys, f)
                     /\ Synced(f) => Moved(keys, f) = keys
    BY DEF Moved, Registered
  <1>3. HotkeyTypes'
    BY <1>1, <1>2, AfterGroup DEF HotkeyInv, HotkeyTypes
  <1>4. SavedApart'
    BY <1>1 DEF HotkeyInv, SavedApart, Distinct
  <1>5. NoKeyForNothing'
    <2> SUFFICES ASSUME NEW k \in os' PROVE \E f \in Functions : held'[f] = k
      BY DEF NoKeyForNothing
    <2>1. \A f \in Functions : held'[f] = IF f \in Directions THEN Target(f) ELSE held[f]
      BY <1>1
    <2>2. k \in os \cup {Target("left"), Target("right")}
      BY <1>1, <1>2
    <2>3. CASE k \in {Target("left"), Target("right")}
      BY <2>1, <2>3, FunctionNames
    <2>4. CASE k \in os /\ k \notin {Target("left"), Target("right")}
      <3>1. PICK f \in Functions : held[f] = k
        BY <2>4 DEF HotkeyInv, NoKeyForNothing
      <3>2. CASE f = "left"
        <4>1. k \notin middle
          BY <1>2, <2>4, <3>1, <3>2 DEF Synced
        <4> QED
          BY <1>1, <1>2, <2>4, <4>1
      <3>3. CASE f = "right"
        <4>1. k \notin Moved(middle, "right")
          BY <1>2, <2>4, <3>1, <3>3 DEF Synced
        <4> QED
          BY <1>1, <4>1
      <3>4. CASE f \notin Directions
        BY <2>1, <3>1, <3>4
      <3> QED
        BY <3>2, <3>3, <3>4, FunctionNames
    <2> QED
      BY <2>2, <2>3, <2>4
  <1>6. StartPart'
    <2> SUFFICES ASSUME starting, clean
                 PROVE  /\ foreign' = {}
                        /\ os' = (KeysOf(Through))'
                        /\ \A f \in Functions : held'[f] = IF f \in Through' THEN Target(f)' ELSE NoKey
      BY <1>1 DEF StartPart
    <2>1. /\ foreign = {} /\ os = {Target("toggle")} \ {NoKey}
          /\ \A f \in Functions : held[f] = IF f = "toggle" THEN Target(f) ELSE NoKey
      BY <1>1 DEF HotkeyInv, StartPart, Through, KeysOf
    <2>2. step' = "controls"
      BY <1>1, AfterGroup
    <2>3. \A f \in Functions : Target(f)' = Target(f)
      BY <1>1 DEF Target
    <2>4. /\ Through' = {"toggle", "left", "right"}
          /\ (KeysOf(Through))' = {Target("toggle"), Target("left"), Target("right")} \ {NoKey}
      BY <2>2, <2>3, FunctionNames DEF Through, KeysOf
    <2>5. ASSUME NEW f \in Directions, NEW keys, NoKey \notin keys, Target(f) \notin keys \/ Target(f) = NoKey
          PROVE  Moved(keys, f) = keys \cup ({Target(f)} \ {NoKey})
      <3>1. held[f] = NoKey
        BY <2>1, FunctionNames
      <3>2. CASE Target(f) = NoKey
        BY <3>1, <3>2 DEF Moved, Synced
      <3>3. CASE Target(f) # NoKey
        BY <2>1, <2>5, <3>1, <3>3 DEF Moved, Synced, Registered, Free
      <3> QED
        BY <3>2, <3>3
    <2>6. /\ Target("left") # NoKey => Target("left") # Target("toggle")
          /\ Target("right") # NoKey => Target("right") # Target("toggle") /\ Target("right") # Target("left")
      BY FunctionNames, TargetsApart DEF HotkeyInv, HotkeyTypes
    <2>7. middle = os \cup ({Target("left")} \ {NoKey})
      BY <2>1, <2>5, <2>6, FunctionNames
    <2>8. Moved(middle, "right") = middle \cup ({Target("right")} \ {NoKey})
      <3>1. NoKey \notin middle
        BY <2>1, <2>7
      <3>2. Target("right") \notin middle \/ Target("right") = NoKey
        BY <2>1, <2>6, <2>7
      <3> HIDE DEF middle
      <3> QED
        BY <2>5, <3>1, <3>2, FunctionNames
    <2>9. os' = (KeysOf(Through))'
      BY <1>1, <2>1, <2>4, <2>7, <2>8
    <2> QED
      BY <1>1, <2>1, <2>3, <2>4, <2>9, FunctionNames
  <1> QED
    BY <1>3, <1>4, <1>5, <1>6 DEF HotkeyInv

\* Syncing the pair of control keys keeps it.
LEMMA ControlKeys == ASSUME HotkeyInv, SyncControls PROVE HotkeyInv'
  <1> DEFINE changed == {f \in Controls : ~Synced(f)}
             old == OldKeys(changed)
             new == NewKeys(changed)
             works == old \subseteq os /\ \A k \in new : Free(k, os \ old)
  <1>1. /\ step = "controls" /\ UNCHANGED <<role, wanted, foreign, starting, clean>>
        /\ os' = IF works THEN (os \ old) \cup new ELSE os
        /\ held' = [f \in Functions |-> IF works /\ f \in changed THEN Target(f) ELSE held[f]]
        /\ After("controls", works)
    BY DEF SyncControls
  <1>2. NoKey \notin new
    BY DEF NewKeys
  <1>3. \A f \in Functions : held'[f] = IF works /\ f \in changed THEN Target(f) ELSE held[f]
    BY <1>1
  <1>4. changed \subseteq Functions
    BY FunctionNames
  <1>5. HotkeyTypes'
    BY <1>1, <1>2, AfterGroup DEF HotkeyInv, HotkeyTypes
  <1>6. SavedApart'
    BY <1>1 DEF HotkeyInv, SavedApart, Distinct
  <1>7. NoKeyForNothing'
    <2> SUFFICES ASSUME NEW k \in os' PROVE \E f \in Functions : held'[f] = k
      BY DEF NoKeyForNothing
    <2>1. CASE works /\ k \in new
      <3>1. PICK f \in changed : k = Target(f)
        BY <2>1 DEF NewKeys
      <3> QED
        BY <1>3, <1>4, <2>1, <3>1
    <2>2. CASE works /\ k \in os \ old
      <3>1. PICK f \in Functions : held[f] = k
        BY <2>2 DEF HotkeyInv, NoKeyForNothing
      <3>2. f \notin changed
        BY <2>2, <3>1 DEF OldKeys, HotkeyInv, HotkeyTypes
      <3> QED
        BY <1>3, <3>1, <3>2
    <2>3. CASE ~works
      BY <1>1, <1>3, <2>3 DEF HotkeyInv, NoKeyForNothing
    <2> QED
      BY <1>1, <2>1, <2>2, <2>3
  <1>8. StartPart'
    <2> SUFFICES ASSUME starting, clean
                 PROVE  /\ foreign' = {}
                        /\ os' = (KeysOf(Through))'
                        /\ \A f \in Functions : held'[f] = IF f \in Through' THEN Target(f)' ELSE NoKey
      BY <1>1 DEF StartPart
    <2>1. /\ foreign = {} /\ os = {Target("toggle"), Target("left"), Target("right")} \ {NoKey}
          /\ \A f \in Functions : held[f] = IF f \in Controls THEN NoKey ELSE Target(f)
      BY <1>1, FunctionNames DEF HotkeyInv, StartPart, Through, KeysOf
    <2>2. step' = "idle"
      BY <1>1, AfterGroup
    <2>3. \A f \in Functions : Target(f)' = Target(f)
      BY <1>1 DEF Target
    <2>4. Through' = Functions /\ (KeysOf(Through))' = KeysOf(Functions)
      BY <2>2, <2>3 DEF Through, KeysOf
    <2>5. old = {}
      BY <2>1, FunctionNames DEF OldKeys
    <2>6. new = {Target("mac"), Target("home")} \ {NoKey}
      BY <2>1, FunctionNames DEF NewKeys, Synced
    <2>7. \A k \in new : k \notin os
      <3> SUFFICES ASSUME NEW f \in Controls, Target(f) # NoKey PROVE Target(f) \notin os
        BY <2>6, FunctionNames
      <3> QED
        BY <2>1, FunctionNames, TargetsApart DEF HotkeyInv, HotkeyTypes
    <2>8. works
      BY <2>1, <2>5, <2>7 DEF Free
    <2>9. os' = (KeysOf(Through))'
      BY <1>1, <2>1, <2>4, <2>5, <2>6, <2>8, FunctionNames DEF KeysOf
    <2>10. \A f \in Functions : held'[f] = Target(f)
      BY <1>3, <2>1, <2>8 DEF Synced
    <2> QED
      BY <1>1, <2>1, <2>3, <2>4, <2>9, <2>10
  <1> QED
    BY <1>5, <1>6, <1>7, <1>8 DEF HotkeyInv

\* The invariant of the hotkeys holds at the start.
LEMMA InitHotkeyInv == HotkeysInit => HotkeyInv
  BY DEF HotkeysInit, HotkeyInv, HotkeyTypes, SavedApart, Distinct, NoKeyForNothing,
         StartPart

\* What other programs, a restart and a press of a key do.
LEMMA OtherKeys ==
    ASSUME HotkeyInv, NEW k, Take(k) \/ Release(k) \/ Restart \/ Press(k)
    PROVE  HotkeyInv'
  <1>1. HotkeyTypes'
    BY DEF Take, Release, Restart, Press, HotkeyInv, HotkeyTypes
  <1>2. SavedApart'
    BY DEF Take, Release, Restart, Press, HotkeyInv, SavedApart, Distinct
  <1>3. NoKeyForNothing'
    BY DEF Take, Release, Restart, Press, HotkeyInv, NoKeyForNothing
  <1>4. StartPart'
    <2>1. CASE Take(k)
      BY <2>1 DEF Take, StartPart
    <2>2. CASE Restart
      <3>1. /\ step' = "toggle" /\ os' = {} /\ foreign' = foreign /\ clean' = (foreign = {})
            /\ held' = [f \in Functions |-> NoKey]
        BY <2>2 DEF Restart
      <3>2. Through' = {} /\ (KeysOf(Through))' = {}
        BY <3>1 DEF Through, KeysOf
      <3> QED
        BY <3>1, <3>2 DEF StartPart
    <2>3. CASE Release(k) \/ Press(k)
      <3>1. /\ UNCHANGED <<role, wanted, held, os, step, starting, clean>>
            /\ foreign = {} => foreign' = {}
        BY <2>3 DEF Release, Press
      <3>2. (KeysOf(Through))' = KeysOf(Through) /\ Through' = Through
            /\ \A f \in Functions : Target(f)' = Target(f)
        BY <3>1 DEF Through, KeysOf, Target
      <3> QED
        BY <3>1, <3>2 DEF StartPart, HotkeyInv
    <2> QED
      BY <2>1, <2>2, <2>3
  <1> QED
    BY <1>1, <1>2, <1>3, <1>4 DEF HotkeyInv

\* Every step keeps it.
LEMMA StepHotkeyInv == HotkeyInv /\ [HotkeysNext]_hotkeyVars => HotkeyInv'
  <1> SUFFICES ASSUME HotkeyInv, [HotkeysNext]_hotkeyVars PROVE HotkeyInv'
    OBVIOUS
  <1>1. CASE Save
    BY <1>1, SaveKeys
  <1>2. CASE SyncToggle
    BY <1>2, ToggleKeys
  <1>3. CASE SyncDirections
    BY <1>3, DirectionKeys
  <1>4. CASE SyncControls
    BY <1>4, ControlKeys
  <1>5. CASE Restart \/ \E k \in Keys : Take(k) \/ Release(k) \/ Press(k)
    BY <1>5, OtherKeys
  <1>6. CASE UNCHANGED hotkeyVars
    <2>1. (KeysOf(Through))' = KeysOf(Through) /\ Through' = Through
          /\ \A f \in Functions : Target(f)' = Target(f)
      BY <1>6 DEF hotkeyVars, Through, KeysOf, Target
    <2> QED
      BY <1>6, <2>1 DEF hotkeyVars, HotkeyInv, HotkeyTypes, SavedApart, Distinct,
                        NoKeyForNothing, StartPart
  <1> QED
    BY <1>1, <1>2, <1>3, <1>4, <1>5, <1>6 DEF HotkeysNext

\* After a start that met no other program what is registered is what was saved.
LEMMA StartsCure == HotkeyInv => StartCures
  <1> SUFFICES ASSUME HotkeyInv, step = "idle", starting, clean
               PROVE  os = {Target(f) : f \in Functions} \ {NoKey}
    BY DEF StartCures
  <1>1. Through = Functions
    BY DEF Through
  <1> QED
    BY <1>1 DEF HotkeyInv, StartPart, KeysOf

\* What a key does, its function has it, and a control key comes first.
LEMMA KeysActFirst == [HotkeysNext]_hotkeyVars => ControlKeyActs
  <1> SUFFICES ASSUME [HotkeysNext]_hotkeyVars, NEW f \in Controls,
                      did' # did, did' \in Functions \ Controls
               PROVE  held[f] # held[did']
    BY DEF ControlKeyActs
  <1>1. did' # "nothing"
    BY FunctionNames
  <1>2. PICK k : Press(k)
    BY <1>1 DEF HotkeysNext, hotkeyVars, Save, SyncToggle, SyncDirections, SyncControls,
                Restart, Take, Release
  <1>3. did' = Does(k)
    BY <1>2 DEF Press
  <1>4. {g \in Controls : held[g] = k} = {}
    BY <1>3 DEF Does
  <1>5. held[did'] = k
    BY <1>1, <1>3, <1>4 DEF Does
  <1> QED
    BY <1>4, <1>5

\* The synchronisation of the system-wide keys, for any keys and any course of
\* saves, failures and other programs: no registered key is without a function
\* (the roll-backs of sync_control_hotkeys and sync_screen_switch_shortcuts), a
\* start cures what saves left behind, and a control key acts as nothing else.
THEOREM HotkeysAreServed == HotkeysSpec => HotkeysServe
  <1>1. HotkeyInv' /\ [HotkeysNext]_hotkeyVars
           => NoKeyForNothing' /\ StartCures' /\ ControlKeyActs
    <2>1. HotkeyInv' => NoKeyForNothing' /\ StartCures'
      BY StartsCure, PTL DEF HotkeyInv
    <2> QED
      BY <2>1, KeysActFirst
  <1> QED
    BY <1>1, InitHotkeyInv, StepHotkeyInv, PTL DEF HotkeysSpec, HotkeysServe

-----------------------------------------------------------------------------
(* The pointer between the screens.                                        *)

IsTarget(t) == t.edge \in Edges /\ IsScreen(t.local) /\ IsScreen(t.remote)

\* A place made of two integers is a point with those coordinates.
LEMMA PlacesAreTyped ==
    ASSUME NEW a \in Int, NEW b \in Int
    PROVE  Point(a, b) \in PointType /\ Point(a, b).x = a /\ Point(a, b).y = b
  BY DEF Point, PointType

\* A search finds a member of the set.
LEMMA FoundIsIn ==
    ASSUME NEW s, NEW S, FirstOf(s, S) # Nowhere
    PROVE  FirstOf(s, S) \in S
  BY DEF FirstOf

\* A member of an arrangement has a size.
LEMMA ScreensHaveSize ==
    ASSUME NEW l \in Layouts
    PROVE  /\ \A s \in ScreensOf(l.local) \cup ScreensOf(l.remote) : IsScreen(s)
           /\ l.local[1] \in ScreensOf(l.local)
  BY CrossingAssumption DEF ScreensOf

\* Every target of a layout is a well-formed target.
LEMMA TargetsAreTargets ==
    ASSUME NEW l \in Layouts, NEW t \in TargetsIn(l)
    PROVE  IsTarget(t)
  <1>1. PICK i \in DOMAIN l.local, j \in DOMAIN l.remote :
          t = TargetsOf[l][i][j] /\ t # Nowhere
    BY DEF TargetsIn
  <1>2. t = IF l.online THEN Touching(l.local[i], l.remote[j]) ELSE Nowhere
    BY <1>1 DEF TargetsOf, Targets
  <1> DEFINE edge == TouchingEdge(l.local[i], l.remote[j])
  <1>3. edge # Nowhere /\ t = [local |-> l.local[i], remote |-> l.remote[j], edge |-> edge]
    BY <1>1, <1>2 DEF Touching
  <1>4. edge \in Edges
    BY <1>3, FoundIsIn DEF TouchingEdge
  <1> QED
    BY <1>3, <1>4, ScreensHaveSize DEF IsTarget, ScreensOf

\* What a search in the targets finds is a target that was looked for.
LEMMA FoundIsTarget ==
    ASSUME NEW l \in Layouts, NEW S \in SUBSET TargetsIn(l), FirstTarget(l, S) # Nowhere
    PROVE  FirstTarget(l, S) \in S /\ IsTarget(FirstTarget(l, S))
  BY FoundIsIn, TargetsAreTargets DEF FirstTarget

\* What is being prepared or controlled lies on a screen.
Placed(c) ==
    /\ IsCandidate(c) /\ IsTarget(c.target) /\ IsScreen(c.screen)
    /\ InBounds(c.screen, Position(c))

\* The cursor is pinned on the screen control left from.
PinnedAt(t) == anchor \in PointType /\ pointer = anchor /\ OnSomeScreen(t.local, anchor)

\* The controlled pointer is pinned, a thread that hangs controls nothing, a return
\* forgets where the last move ended, and every screen of a layout has its place
\* among the remembered points.
PointerInv ==
    /\ CrossingTypeOK
    /\ pending # Nowhere => Placed(pending)
    /\ active # Nowhere => Placed(active) /\ PinnedAt(active.target)
    /\ asked # Nowhere => Placed(asked) /\ active = Nowhere /\ pending = Nowhere
    /\ fresh => lastPoint = Nowhere
    /\ \A l \in Layouts : \A s \in ScreensOf(l.local) : s.id \in DOMAIN points

\* A clamped number is inside its bounds, and the same when it was inside.
LEMMA ClampsIn ==
    ASSUME NEW n \in Int, NEW low \in Int, NEW high \in Int, low <= high
    PROVE  /\ Clamped(n, low, high) \in low..high
           /\ n \in low..high => Clamped(n, low, high) = n
  BY DEF Clamped

\* A screen has integer sides and at least one place between them.
LEMMA ScreenSides ==
    ASSUME NEW s, IsScreen(s)
    PROVE  /\ s.x \in Int /\ s.y \in Int /\ s.w \in Nat \ {0} /\ s.h \in Nat \ {0}
           /\ RightOf(s) \in Int /\ BottomOf(s) \in Int
           /\ s.x <= RightOf(s) - 1 /\ s.y <= BottomOf(s) - 1
  BY DEF IsScreen, RightOf, BottomOf

\* crossing_target: the entry lies on the remote screen, at the same height.
LEMMA EntersOnScreen ==
    ASSUME NEW t, IsTarget(t), NEW p \in PointType, NEW d \in PointType
    PROVE  /\ EntryPoint(t, p, d) \in PointType
           /\ InBounds(t.remote, EntryPoint(t, p, d))
           /\ t.edge \in {"Right", "Left"} /\ Within(p.y, t.remote.y, t.remote.h)
                 => EntryPoint(t, p, d).y = p.y - t.remote.y
           /\ t.edge \notin {"Right", "Left"} /\ Within(p.x, t.remote.x, t.remote.w)
                 => EntryPoint(t, p, d).x = p.x - t.remote.x
  <1> DEFINE ax == p.x - t.remote.x
             ay == p.y - t.remote.y
             ex == CASE t.edge = "Right" -> 1 + d.x
                     [] t.edge = "Left" -> t.remote.w - 2 + d.x
                     [] OTHER -> ax
             ey == CASE t.edge = "Bottom" -> 1 + d.y
                     [] t.edge = "Top" -> t.remote.h - 2 + d.y
                     [] OTHER -> ay
             wx == t.remote.w - 1
             wy == t.remote.h - 1
             cx == Clamped(ex, 0, wx)
             cy == Clamped(ey, 0, wy)
  <1>1. /\ p.x \in Int /\ p.y \in Int /\ d.x \in Int /\ d.y \in Int
        /\ t.remote.x \in Int /\ t.remote.y \in Int /\ wx \in Nat /\ wy \in Nat
        /\ t.remote.w = wx + 1 /\ t.remote.h = wy + 1
    BY ScreenSides DEF PointType, IsTarget
  <1>2. ex \in Int /\ ey \in Int /\ ax \in Int /\ ay \in Int
    BY <1>1
  <1>3. EntryPoint(t, p, d) = Point(cx, cy)
    BY DEF EntryPoint, Along, Minus, Point
  <1>4. t.edge \in {"Right", "Left"} => ey = ay
    OBVIOUS
  <1>5. t.edge \notin {"Right", "Left"} => ex = ax
    OBVIOUS
  <1>6. /\ cx \in 0..wx /\ (ex \in 0..wx => cx = ex)
        /\ cy \in 0..wy /\ (ey \in 0..wy => cy = ey)
    <2>1. wx \in Int /\ wy \in Int /\ 0 <= wx /\ 0 <= wy /\ 0 \in Int
      BY <1>1
    <2> HIDE DEF ex, ey, wx, wy
    <2>2. cx \in 0..wx /\ (ex \in 0..wx => cx = ex)
      BY <1>2, <2>1, ClampsIn
    <2>3. cy \in 0..wy /\ (ey \in 0..wy => cy = ey)
      BY <1>2, <2>1, ClampsIn
    <2> QED
      BY <2>2, <2>3
  <1>7. /\ EntryPoint(t, p, d) \in PointType
        /\ EntryPoint(t, p, d).x = cx /\ EntryPoint(t, p, d).y = cy
    <2> HIDE DEF cx, cy, wx, wy
    <2> QED
      BY <1>1, <1>3, <1>6, PlacesAreTyped
  <1>8. InBounds(t.remote, EntryPoint(t, p, d))
    <2> HIDE DEF cx, cy
    <2> QED
      BY <1>6, <1>7 DEF InBounds
  <1>9. Within(p.y, t.remote.y, t.remote.h) => ay \in 0..wy
    BY <1>1 DEF Within
  <1>10. Within(p.x, t.remote.x, t.remote.w) => ax \in 0..wx
    BY <1>1 DEF Within
  <1> HIDE DEF cx, cy, ex, ey, wx, wy
  <1> QED
    BY <1>4, <1>5, <1>6, <1>7, <1>8, <1>9, <1>10

\* A candidate that is made on a screen is placed.
LEMMA CandidatesPlaced ==
    ASSUME NEW t, IsTarget(t), NEW at \in PointType, InBounds(t.remote, at)
    PROVE  /\ Placed(Candidate(t, at))
           /\ Candidate(t, at).target = t
           /\ Candidate(t, at).x = at.x /\ Candidate(t, at).y = at.y
  <1> DEFINE c == Candidate(t, at)
  <1>1. /\ c.target = t /\ c.screen = t.remote /\ c.x = at.x /\ c.y = at.y
        /\ DOMAIN c = {"target", "screen", "x", "y"}
    BY DEF Candidate
  <1>2. at.x \in Int /\ at.y \in Int
    BY DEF PointType
  <1>3. Position(c) \in PointType /\ Position(c).x = at.x /\ Position(c).y = at.y
    BY <1>1, <1>2, PlacesAreTyped DEF Position
  <1> HIDE DEF c
  <1>4. InBounds(c.screen, Position(c))
    BY <1>1, <1>3 DEF InBounds
  <1>5. Placed(c)
    BY <1>1, <1>3, <1>4 DEF Placed, IsCandidate, IsTarget
  <1> QED
    BY <1>1, <1>5 DEF c

\* centered_active_target
LEMMA CenteredPlaced ==
    ASSUME NEW t, IsTarget(t)
    PROVE  Placed(Centered(t))
  <1> DEFINE at == Point(t.remote.w \div 2, t.remote.h \div 2)
  <1>1. /\ t.remote.w \in Nat \ {0} /\ t.remote.h \in Nat \ {0}
    BY ScreenSides DEF IsTarget
  <1>2. /\ t.remote.w \div 2 \in 0..(t.remote.w - 1)
        /\ t.remote.h \div 2 \in 0..(t.remote.h - 1)
    BY <1>1
  <1>3. at \in PointType /\ InBounds(t.remote, at)
    BY <1>2, PlacesAreTyped DEF InBounds
  <1> QED
    BY <1>3, CandidatesPlaced DEF Centered

\* local_return_point: a return ends on the local screen that led there.
LEMMA ReturnsToPoint ==
    ASSUME NEW a, IsTarget(a.target), a.x \in Int, a.y \in Int
    PROVE  LocalReturnPoint(a) \in PointType /\ OnSomeScreen(a.target.local, LocalReturnPoint(a))
  <1> DEFINE s == a.target.local
             gx == a.target.remote.x + a.x
             gy == a.target.remote.y + a.y
             px == CASE a.target.edge = "Right" -> RightOf(s) - 1
                     [] a.target.edge = "Left" -> s.x
                     [] OTHER -> Clamped(gx, s.x, RightOf(s) - 1)
             py == CASE a.target.edge = "Bottom" -> BottomOf(s) - 1
                     [] a.target.edge = "Top" -> s.y
                     [] OTHER -> Clamped(gy, s.y, BottomOf(s) - 1)
  <1>1. /\ s.x \in Int /\ s.y \in Int /\ RightOf(s) \in Int /\ BottomOf(s) \in Int
        /\ s.x <= RightOf(s) - 1 /\ s.y <= BottomOf(s) - 1
        /\ gx \in Int /\ gy \in Int
    BY ScreenSides DEF IsTarget
  <1>2. /\ Clamped(gx, s.x, RightOf(s) - 1) \in s.x..(RightOf(s) - 1)
        /\ Clamped(gy, s.y, BottomOf(s) - 1) \in s.y..(BottomOf(s) - 1)
    <2> DEFINE right == RightOf(s) - 1
               bottom == BottomOf(s) - 1
    <2>1. right \in Int /\ bottom \in Int /\ s.x <= right /\ s.y <= bottom
      BY <1>1
    <2> HIDE DEF s, gx, gy, right, bottom
    <2>2. Clamped(gx, s.x, right) \in s.x..right /\ Clamped(gy, s.y, bottom) \in s.y..bottom
      BY <1>1, <2>1, ClampsIn
    <2> QED
      BY <2>2 DEF right, bottom
  <1>3. px \in s.x..(RightOf(s) - 1) /\ py \in s.y..(BottomOf(s) - 1)
    BY <1>1, <1>2
  <1>4. px \in Int /\ py \in Int
    BY <1>1, <1>3
  <1>5. LocalReturnPoint(a) = Point(px, py)
    BY DEF LocalReturnPoint
  <1> HIDE DEF px, py
  <1> QED
    BY <1>3, <1>4, <1>5, PlacesAreTyped DEF OnSomeScreen

\* The conjuncts of the invariant one by one, for steps that change a few.
PointerParts ==
    /\ arranged \in Layouts /\ cache \in Layouts \cup {Nowhere}
    /\ pointer \in PointType /\ fresh \in BOOLEAN
    /\ lastPoint \in PointType \cup {Nowhere} /\ anchor \in PointType \cup {Nowhere}
    /\ \A id \in DOMAIN points : points[id] \in PointType \cup {Nowhere}
    /\ pending # Nowhere => Placed(pending)
    /\ active # Nowhere => Placed(active) /\ PinnedAt(active.target)
    /\ asked # Nowhere => Placed(asked) /\ active = Nowhere /\ pending = Nowhere
    /\ fresh => lastPoint = Nowhere
    /\ \A l \in Layouts : \A s \in ScreensOf(l.local) : s.id \in DOMAIN points

\* The invariant of the pointer is the conjunction of its parts, now and next.
LEMMA PartsOfPointer == (PointerInv <=> PointerParts) /\ (PointerInv' <=> PointerParts')
  <1>1. PointerInv <=> PointerParts
    BY DEF PointerParts, PointerInv, CrossingTypeOK, Placed
  <1> QED
    BY <1>1, PTL

\* The cursor is kept on a screen, or where it is.
LEMMA KeptIsPoint ==
    ASSUME PointerInv, NEW p \in PointType
    PROVE  KeptTarget(p) \in PointType
  <1> DEFINE s == IF Under(pointer) = Nowhere THEN arranged.local[1] ELSE Under(pointer)
             k == Point(Clamped(p.x, s.x, RightOf(s) - 1), Clamped(p.y, s.y, BottomOf(s) - 1))
  <1>1. arranged \in Layouts
    BY PartsOfPointer DEF PointerParts
  <1>2. IsScreen(s)
    BY <1>1, ScreensHaveSize, FoundIsIn DEF Under
  <1>3. p.x \in Int /\ p.y \in Int
    BY DEF PointType
  <1>4. k \in PointType
    <2> HIDE DEF s
    <2>1. /\ s.x \in Int /\ s.y \in Int /\ RightOf(s) - 1 \in Int /\ BottomOf(s) - 1 \in Int
      BY <1>2, ScreenSides
    <2>2. /\ Clamped(p.x, s.x, RightOf(s) - 1) \in Int
          /\ Clamped(p.y, s.y, BottomOf(s) - 1) \in Int
      BY <1>3, <2>1 DEF Clamped
    <2> QED
      BY <2>2, PlacesAreTyped
  <1>5. KeptTarget(p) \in {p, k}
    BY DEF KeptTarget
  <1> QED
    BY <1>4, <1>5

\* handle_windows_mouse_move on this machine.
LEMMA LocalMoveKeeps ==
    ASSUME PointerInv, NEW d \in Deltas, LocalMove(d)
    PROVE  /\ PointerInv'
           /\ lastPoint' \in PointType
           /\ active = Nowhere
           /\ \/ asked' = Nowhere
              \/ \E t : \E moved \in PointType :
                    /\ IsTarget(t) /\ Crosses(t, lastPoint', moved)
                    /\ moved = MovedTo(lastPoint')
                    /\ asked' = Candidate(t, EntryPoint(t, lastPoint', moved))
  <1> DEFINE p == Plus(pointer, d)
             moved == MovedTo(p)
  <1>1. p \in PointType
    BY PartsOfPointer, CrossingAssumption, PlacesAreTyped DEF PointerParts, Plus, PointType
  <1>2. moved \in PointType
    <2>1. CASE lastPoint = Nowhere
      BY <2>1, PlacesAreTyped DEF MovedTo
    <2>2. CASE lastPoint # Nowhere
      <3>1. lastPoint \in PointType
        BY <2>2, PartsOfPointer DEF PointerParts
      <3> HIDE DEF p
      <3>2. Minus(p, lastPoint) \in PointType
        BY <1>1, <3>1, PlacesAreTyped DEF Minus, PointType
      <3> QED
        BY <2>2, <3>2 DEF MovedTo
    <2> QED
      BY <2>1, <2>2
  <1>3. /\ pointer' = KeptTarget(p) /\ lastPoint' = p /\ fresh' = FALSE /\ active = Nowhere
        /\ UNCHANGED <<arranged, points, pending, active, anchor>>
    BY DEF LocalMove
  <1>4. PICK used \in UsedCache :
          /\ cache' = used
          /\ LET t == FirstTarget(used, {tt \in TargetsIn(used) : Crosses(tt, p, moved)})
             IN asked' = IF t # Nowhere /\ pending = Nowhere
                         THEN Candidate(t, EntryPoint(t, p, moved)) ELSE Nowhere
    BY DEF LocalMove
  <1>5. used \in Layouts
    BY PartsOfPointer DEF PointerParts, UsedCache
  <1> DEFINE t == FirstTarget(used, {tt \in TargetsIn(used) : Crosses(tt, p, moved)})
  <1>6. t # Nowhere => IsTarget(t) /\ Crosses(t, p, moved)
    <2> DEFINE S == {tt \in TargetsIn(used) : Crosses(tt, p, moved)}
    <2>1. S \in SUBSET TargetsIn(used)
      OBVIOUS
    <2>2. FirstTarget(used, S) # Nowhere => FirstTarget(used, S) \in S /\ IsTarget(FirstTarget(used, S))
      <3> HIDE DEF S
      <3> QED
        BY <1>5, <2>1, FoundIsTarget
    <2> QED
      BY <2>2
  <1>7. \/ asked' = Nowhere
        \/ /\ t # Nowhere /\ pending = Nowhere
           /\ asked' = Candidate(t, EntryPoint(t, p, moved))
    BY <1>4
  <1> HIDE DEF t, moved, p
  <1>8. asked' = Nowhere \/ (Placed(asked') /\ pending = Nowhere)
    <2>1. CASE /\ t # Nowhere /\ pending = Nowhere
               /\ asked' = Candidate(t, EntryPoint(t, p, moved))
      <3>1. EntryPoint(t, p, moved) \in PointType /\ InBounds(t.remote, EntryPoint(t, p, moved))
        BY <1>1, <1>2, <1>6, <2>1, EntersOnScreen
      <3> QED
        BY <1>6, <2>1, <3>1, CandidatesPlaced
    <2> QED
      BY <1>7, <2>1
  <1>9. KeptTarget(p) \in PointType
    BY <1>1, KeptIsPoint
  <1>10. PointerInv'
    BY <1>1, <1>3, <1>4, <1>5, <1>8, <1>9, PartsOfPointer DEF PointerParts, Placed, Position, Point, IsTarget, IsCandidate, InBounds
  <1>11. moved = MovedTo(p)
    BY DEF moved
  <1> QED
    BY <1>1, <1>2, <1>3, <1>6, <1>7, <1>10, <1>11

\* What a step must show that leaves the layouts, the memory and the points.
LEMMA OthersKeep ==
    ASSUME PointerInv, UNCHANGED <<arranged, cache, points>>,
           pointer' \in PointType, fresh' \in BOOLEAN,
           lastPoint' \in PointType \cup {Nowhere}, anchor' \in PointType \cup {Nowhere},
           pending' # Nowhere => Placed(pending'),
           active' # Nowhere => Placed(active') /\ PinnedAt(active.target)',
           asked' # Nowhere => Placed(asked') /\ active' = Nowhere /\ pending' = Nowhere,
           fresh' => lastPoint' = Nowhere
    PROVE  PointerInv'
  BY PartsOfPointer
  DEF PointerParts, Placed, Position, Point, IsTarget, IsCandidate, InBounds

\* request_screen_switch and GoMac: a candidate in the middle of a screen.
LEMMA CenteredKeeps ==
    ASSUME PointerInv, AtHome, NEW t, IsTarget(t), pending' = Centered(t),
           UNCHANGED <<arranged, cache, local, active, anchor, asked, fresh, scenario>>
    PROVE  PointerInv'
  <1>1. Placed(pending')
    BY CenteredPlaced
  <1>2. PointerParts /\ active' = Nowhere /\ asked' = Nowhere
    BY PartsOfPointer DEF AtHome
  <1> QED
    BY <1>1, <1>2, OthersKeep DEF PointerParts, local

\* A switch to the remote desk, or to the other machine, asks for nothing at an edge.
LEMMA SwitchesKeep ==
    ASSUME PointerInv, GoMac \/ \E edge \in Edges : SwitchRemote(edge)
    PROVE  PointerInv' /\ asked' = asked /\ active' = active
  <1>1. arranged \in Layouts
    BY PartsOfPointer DEF PointerParts
  <1>2. ASSUME GoMac PROVE PointerInv' /\ asked' = asked /\ active' = active
    <2> DEFINE S == {t \in TargetsIn(arranged) : t.remote.id = Selected}
    <2>1. S \in SUBSET TargetsIn(arranged) /\ TargetsIn(arranged) \in SUBSET TargetsIn(arranged)
      OBVIOUS
    <2>2. Preferred \in {FirstTarget(arranged, S), FirstTarget(arranged, TargetsIn(arranged))}
      BY DEF Preferred
    <2>3. AtHome /\ Preferred # Nowhere /\ pending' = Centered(Preferred)
          /\ UNCHANGED <<arranged, cache, local, active, anchor, asked, fresh, scenario>>
      BY <1>2 DEF GoMac
    <2> HIDE DEF S
    <2>4. IsTarget(Preferred)
      BY <1>1, <2>1, <2>2, <2>3, FoundIsTarget
    <2> QED
      BY <2>3, <2>4, CenteredKeeps
  <1>3. ASSUME NEW edge \in Edges, SwitchRemote(edge)
        PROVE  PointerInv' /\ asked' = asked /\ active' = active
    <2> DEFINE S == {t \in TargetsIn(arranged) : t.edge = edge}
               T == {t \in S : t.local.id = SourceScreen.id}
    <2>1. S \in SUBSET TargetsIn(arranged) /\ T \in SUBSET TargetsIn(arranged)
      OBVIOUS
    <2>2. TargetAt(edge) \in {FirstTarget(arranged, S), FirstTarget(arranged, T)}
      BY DEF TargetAt
    <2>3. AtHome /\ TargetAt(edge) # Nowhere /\ pending' = Centered(TargetAt(edge))
          /\ UNCHANGED <<arranged, cache, local, active, anchor, asked, fresh, scenario>>
      BY <1>3 DEF SwitchRemote
    <2> HIDE DEF S, T
    <2>4. IsTarget(TargetAt(edge))
      BY <1>1, <2>1, <2>2, <2>3, FoundIsTarget
    <2> QED
      BY <2>3, <2>4, CenteredKeeps
  <1> QED
    BY <1>2, <1>3

\* A switch between local screens goes to a point that was remembered, or to
\* the middle of the screen.
LEMMA SwitchLocalKeeps ==
    ASSUME PointerInv, NEW edge \in Edges, SwitchLocal(edge)
    PROVE  PointerInv' /\ asked' = asked /\ active' = active
  <1> DEFINE s == Neighbour(edge)
  <1>1. PointerParts
    BY PartsOfPointer
  <1>2. AtHome /\ s # Nowhere /\ pointer' = Remembered(s)
        /\ points' = [points EXCEPT ![SourceScreen.id] = pointer]
        /\ UNCHANGED <<arranged, cache, lastPoint, remote, fresh, scenario>>
    BY DEF SwitchLocal
  <1>3. s \in ScreensOf(arranged.local)
    BY <1>2, FoundIsIn DEF Neighbour
  <1>4. IsScreen(s) /\ s.id \in DOMAIN points
    BY <1>1, <1>3, ScreensHaveSize DEF PointerParts
  <1> HIDE DEF s
  <1>5. Remembered(s) \in PointType
    <2>1. CASE points[s.id] # Nowhere
      BY <1>1, <1>4, <2>1 DEF Remembered, PointerParts
    <2>2. CASE points[s.id] = Nowhere
      <3>1. s.x + s.w \div 2 \in Int /\ s.y + s.h \div 2 \in Int
        BY <1>4, ScreenSides
      <3> QED
        BY <2>2, <3>1, PlacesAreTyped DEF Remembered
    <2> QED
      BY <2>1, <2>2
  <1>6. /\ \A id \in DOMAIN points' : points'[id] \in PointType \cup {Nowhere}
        /\ DOMAIN points' = DOMAIN points
    BY <1>1, <1>2 DEF PointerParts
  <1>7. PointerParts'
    BY <1>1, <1>2, <1>5, <1>6 DEF PointerParts, remote, AtHome
  <1> QED
    BY <1>2, <1>7, PartsOfPointer DEF remote

\* activate_capture pins the cursor where it will come back.
LEMMA ActivateKeeps ==
    ASSUME PointerInv, ActivateCapture PROVE PointerInv' /\ asked' = asked /\ active' # Nowhere
  <1>1. PointerParts
    BY PartsOfPointer
  <1>2. /\ pending # Nowhere /\ active' = pending /\ pending' = Nowhere
        /\ anchor' = LocalReturnPoint(pending) /\ pointer' = anchor'
        /\ UNCHANGED <<arranged, cache, lastPoint, points, asked, fresh>>
    BY DEF ActivateCapture
  <1>3. Placed(pending) /\ asked = Nowhere
    BY <1>1, <1>2 DEF PointerParts
  <1>4. pending.x \in Int /\ pending.y \in Int
    <2>1. Position(pending) \in PointType
      BY <1>3 DEF Placed, IsCandidate
    <2> QED
      BY <2>1 DEF Position, Point, PointType
  <1>5. anchor' \in PointType /\ OnSomeScreen(pending.target.local, anchor')
    BY <1>2, <1>3, <1>4, ReturnsToPoint DEF Placed
  <1>6. Placed(active') /\ PinnedAt(active.target)'
    BY <1>2, <1>3, <1>5 DEF PinnedAt
  <1>7. PointerInv'
    BY <1>1, <1>2, <1>3, <1>5, <1>6, OthersKeep DEF PointerParts
  <1> QED
    BY <1>2, <1>7

\* Every return forgets candidate, pin and last point.
LEMMA RestoreKeeps ==
    ASSUME PointerInv, Restore, pointer' \in PointType
    PROVE  PointerInv' /\ asked' = asked
  <1>1. /\ pending' = Nowhere /\ active' = Nowhere /\ anchor' = Nowhere
        /\ lastPoint' = Nowhere /\ fresh' = TRUE /\ UNCHANGED <<arranged, cache, points, asked>>
    BY DEF Restore, AfterReturn
  <1>2. asked # Nowhere => Placed(asked)
    BY PartsOfPointer DEF PointerParts
  <1> QED
    BY <1>1, <1>2, OthersKeep

\* A return to the local desk asks for nothing and leaves the cursor where it is.
LEMMA ReturnKeeps ==
    ASSUME PointerInv, ReturnLocal PROVE PointerInv' /\ asked' = asked /\ LandsWhereItLeft
  <1>1. Restore /\ pointer' = pointer /\ pointer \in PointType
    BY PartsOfPointer DEF ReturnLocal, PointerParts
  <1>2. active # Nowhere => OnSomeScreen(active.target.local, pointer)
    BY PartsOfPointer DEF PointerParts, PinnedAt
  <1> QED
    BY <1>1, <1>2, RestoreKeeps DEF LandsWhereItLeft

\* A new capture thread starts with a context of its own.
LEMMA RestartKeeps ==
    ASSUME PointerInv, RestartCapture
    PROVE  PointerInv' /\ asked' = Nowhere /\ LandsWhereItLeft
  <1>1. PointerParts
    BY PartsOfPointer
  <1>2. /\ lastPoint' = Nowhere /\ points' = NoPoints /\ pending' = Nowhere
        /\ active' = Nowhere /\ anchor' = Nowhere /\ asked' = Nowhere /\ fresh' = TRUE
        /\ UNCHANGED <<arranged, cache, pointer>>
    BY DEF RestartCapture
  <1>3. /\ \A id \in DOMAIN NoPoints : NoPoints[id] = Nowhere
        /\ \A l \in Layouts : \A s \in ScreensOf(l.local) : s.id \in DOMAIN NoPoints
    BY DEF NoPoints, ScreensOf
  <1>4. PointerInv'
    BY <1>1, <1>2, <1>3, PartsOfPointer DEF PointerParts
  <1>5. active # Nowhere => OnSomeScreen(active.target.local, pointer)
    BY <1>1 DEF PointerParts, PinnedAt
  <1> QED
    BY <1>2, <1>4, <1>5 DEF LandsWhereItLeft

\* Without a thread that listens, the cursor moves on a screen of this machine.
LEMMA UnseenKeeps ==
    ASSUME PointerInv, NEW d \in Deltas, MoveUnseen(d)
    PROVE  PointerInv' /\ asked' = asked /\ active = Nowhere
  <1>1. PointerParts
    BY PartsOfPointer
  <1>2. /\ asked # Nowhere /\ pointer' = KeptTarget(Plus(pointer, d))
        /\ UNCHANGED <<arranged, cache, lastPoint, points, pending, active, anchor, asked, fresh>>
    BY DEF MoveUnseen, remote
  <1>3. Plus(pointer, d) \in PointType
    BY <1>1, CrossingAssumption, PlacesAreTyped DEF PointerParts, Plus, PointType
  <1>4. pointer' \in PointType
    BY <1>2, <1>3, KeptIsPoint
  <1>5. active = Nowhere /\ pending = Nowhere /\ Placed(asked)
    BY <1>1, <1>2 DEF PointerParts
  <1> QED
    BY <1>1, <1>2, <1>4, <1>5, OthersKeep DEF PointerParts

\* What is controlled before it is pinned: it has a place, on a screen or not.
Roaming(a) ==
    /\ DOMAIN a = {"target", "screen", "x", "y"}
    /\ a.x \in Int /\ a.y \in Int
    /\ IsTarget(a.target) /\ IsScreen(a.screen)

\* A pointer that roams still roams after its layout changed.
LEMMA RoamedRoams ==
    ASSUME NEW a, Roaming(a), arranged \in Layouts
    PROVE  Roaming(Roamed(a)) /\ Roamed(a).target = a.target
  <1> DEFINE g == Global(a.screen, Position(a))
             S == {s \in ScreensOf(arranged.remote) : s.id # a.screen.id /\ OnSomeScreen(s, g)}
             next == FirstOf(arranged.remote, S)
             b == [a EXCEPT !.screen = next, !.x = g.x - next.x, !.y = g.y - next.y]
  <1>1. a.screen.x \in Int /\ a.screen.y \in Int
    BY ScreenSides DEF Roaming
  <1>2. g.x \in Int /\ g.y \in Int
    BY <1>1 DEF Global, Position, Point, Roaming
  <1>3. next # Nowhere => IsScreen(next)
    BY FoundIsIn, ScreensHaveSize
  <1>4. Roamed(a) = IF next = Nowhere THEN a ELSE b
    BY DEF Roamed
  <1>5. ASSUME next # Nowhere PROVE Roaming(b) /\ b.target = a.target
    <2>1. IsScreen(next) /\ next.x \in Int /\ next.y \in Int
      BY <1>3, <1>5, ScreenSides
    <2>2. g.x - next.x \in Int /\ g.y - next.y \in Int
      BY <1>2, <2>1
    <2> HIDE DEF next, g
    <2> QED
      BY <2>1, <2>2 DEF Roaming
  <1> QED
    BY <1>4, <1>5

\* The pin puts it on its screen.
LEMMA PinnedIsPlaced ==
    ASSUME NEW a, Roaming(a)
    PROVE  /\ Placed(Pinned(a))
           /\ IsTarget(Pinned(a).target) /\ Pinned(a).x \in Int /\ Pinned(a).y \in Int
           /\ Pinned(a).target = a.target
  <1> DEFINE b == Pinned(a)
             wx == a.screen.w - 1
             wy == a.screen.h - 1
             cx == Clamped(a.x, 0, wx)
             cy == Clamped(a.y, 0, wy)
  <1>1. /\ wx \in Int /\ 0 <= wx /\ wy \in Int /\ 0 <= wy
        /\ a.x \in Int /\ a.y \in Int /\ 0 \in Int
    BY ScreenSides DEF Roaming
  <1> HIDE DEF wx, wy
  <1>2. cx \in 0..wx
    BY <1>1, ClampsIn
  <1>3. cy \in 0..wy
    BY <1>1, ClampsIn
  <1>4. cx \in Int /\ cy \in Int
    BY <1>1, <1>2, <1>3
  <1>5. b = [a EXCEPT !.x = cx, !.y = cy]
    BY DEF Pinned, wx, wy
  <1> HIDE DEF cx, cy, b
  <1>6. /\ b.x = cx /\ b.y = cy /\ b.screen = a.screen /\ b.target = a.target
        /\ DOMAIN b = {"target", "screen", "x", "y"}
    BY <1>5 DEF Roaming
  <1>7. Position(b) \in PointType /\ Position(b).x = cx /\ Position(b).y = cy
    BY <1>4, <1>6, PlacesAreTyped DEF Position
  <1>8. InBounds(b.screen, Position(b))
    BY <1>2, <1>3, <1>6, <1>7 DEF InBounds, wx, wy
  <1>9. Placed(b)
    BY <1>6, <1>7, <1>8 DEF Placed, IsCandidate, Roaming, IsTarget
  <1> QED
    BY <1>4, <1>6, <1>9 DEF b, Roaming

\* handle_windows_mouse_move while the remote machine is controlled.
LEMMA RemoteMoveKeeps ==
    ASSUME PointerInv, NEW d \in Deltas, RemoteMove(d)
    PROVE  PointerInv' /\ asked' = asked /\ LandsWhereItLeft
  <1> DEFINE delta == Minus(Plus(pointer, d), anchor)
             moved == [active EXCEPT !.x = @ + delta.x, !.y = @ + delta.y]
             next == IF InBounds(moved.screen, Position(moved)) THEN moved ELSE Roamed(moved)
  <1>1. PointerParts
    BY PartsOfPointer
  <1>2. active # Nowhere
    BY DEF RemoteMove
  <1>3. /\ Placed(active) /\ PinnedAt(active.target) /\ anchor \in PointType
        /\ asked = Nowhere /\ pointer \in PointType /\ arranged \in Layouts
    BY <1>1, <1>2 DEF PointerParts, PinnedAt
  <1>4. delta.x \in Int /\ delta.y \in Int
    BY <1>3, CrossingAssumption DEF Minus, Plus, Point, PointType
  <1>5. Roaming(active)
    BY <1>3 DEF Placed, IsCandidate, Position, Point, PointType, Roaming
  <1>6. Roaming(moved) /\ moved.target = active.target
    <2> HIDE DEF delta
    <2>1. active.x + delta.x \in Int /\ active.y + delta.y \in Int
      BY <1>4, <1>5 DEF Roaming
    <2> QED
      BY <1>5, <2>1 DEF Roaming
  <1>7. Roaming(next) /\ next.target = active.target
    <2> HIDE DEF moved
    <2> QED
      BY <1>3, <1>6, RoamedRoams
  <1>8. \/ Restore /\ pointer' = LocalReturnPoint(Pinned(next))
        \/ /\ active' = Pinned(next) /\ pointer' = anchor
           /\ UNCHANGED <<arranged, cache, lastPoint, points, pending, anchor, asked, fresh>>
    BY DEF RemoteMove
  <1> HIDE DEF next
  <1>9. /\ Placed(Pinned(next)) /\ Pinned(next).target = active.target
        /\ IsTarget(Pinned(next).target) /\ Pinned(next).x \in Int /\ Pinned(next).y \in Int
    BY <1>7, PinnedIsPlaced
  <1>10. CASE Restore /\ pointer' = LocalReturnPoint(Pinned(next))
    <2>1. pointer' \in PointType /\ OnSomeScreen(active.target.local, pointer')
      BY <1>9, <1>10, ReturnsToPoint
    <2> QED
      BY <1>10, <2>1, RestoreKeeps DEF LandsWhereItLeft
  <1>11. CASE /\ active' = Pinned(next) /\ pointer' = anchor
              /\ UNCHANGED <<arranged, cache, lastPoint, points, pending, anchor, asked, fresh>>
    <2>1. Placed(active') /\ PinnedAt(active.target)'
      BY <1>3, <1>9, <1>11 DEF PinnedAt
    <2>2. pending' # Nowhere => Placed(pending')
      BY <1>1, <1>11 DEF PointerParts
    <2>3. PointerInv'
      BY <1>1, <1>3, <1>11, <2>1, <2>2, OthersKeep DEF PointerParts
    <2>4. LandsWhereItLeft
      BY <1>3, <1>11 DEF PinnedAt, LandsWhereItLeft
    <2> QED
      BY <1>11, <2>3, <2>4
  <1> QED
    BY <1>8, <1>10, <1>11

\* An edit of the layout moves nothing.
LEMMA IdleKeeps ==
    ASSUME PointerInv, ChangeLayout \/ UNCHANGED crossingVars
    PROVE  PointerInv' /\ asked' = asked /\ active' = active
  <1>1. /\ arranged' \in Layouts
        /\ UNCHANGED <<cache, pointer, lastPoint, points, pending, active, anchor, asked, fresh>>
    BY PartsOfPointer DEF PointerParts, ChangeLayout, crossingVars, local, remote
  <1>2. PointerParts'
    BY <1>1, PartsOfPointer DEF PointerParts, PinnedAt
  <1> QED
    BY <1>1, <1>2, PartsOfPointer

\* The invariant of the pointer holds at the start.
LEMMA InitPointerInv == CrossingInit => PointerInv
  <1> SUFFICES ASSUME CrossingInit PROVE PointerInv
    OBVIOUS
  <1>1. arranged \in Layouts /\ pointer = Point(arranged.local[1].x, arranged.local[1].y)
    BY DEF CrossingInit
  <1>2. pointer \in PointType
    BY <1>1, ScreensHaveSize, ScreenSides, PlacesAreTyped
  <1> DEFINE ids == UNION {{l.local[i].id : i \in DOMAIN l.local} : l \in Layouts}
  <1>3. points = [id \in ids |-> Nowhere]
    BY DEF CrossingInit, NoPoints
  <1>4. \A l \in Layouts : \A s \in ScreensOf(l.local) : s.id \in ids
    BY DEF ScreensOf
  <1> HIDE DEF ids
  <1>5. PointerParts
    BY <1>1, <1>2, <1>3, <1>4 DEF CrossingInit, PointerParts
  <1> QED
    BY <1>5, PartsOfPointer

\* One step: the invariant is kept, a handoff is asked for at an edge only by a move
\* of the pointer across it, and control ends on the screen it left from.
LEMMA StepPointer ==
    ASSUME PointerInv, [CrossingNext]_crossingVars
    PROVE  /\ PointerInv' /\ LandsWhereItLeft
           /\ \/ asked' = asked \/ asked' = Nowhere
              \/ \E d \in Deltas : LocalMove(d)
  <1>1. CASE ChangeLayout \/ UNCHANGED crossingVars
    BY <1>1, IdleKeeps DEF LandsWhereItLeft
  <1>2. CASE GoMac \/ \E edge \in Edges : SwitchRemote(edge)
    BY <1>2, SwitchesKeep DEF LandsWhereItLeft
  <1>3. CASE ActivateCapture
    BY <1>3, ActivateKeeps DEF LandsWhereItLeft
  <1>4. CASE ReturnLocal
    BY <1>4, ReturnKeeps
  <1>5. CASE RestartCapture
    BY <1>5, RestartKeeps
  <1>6. CASE \E d \in Deltas : LocalMove(d)
    BY <1>6, LocalMoveKeeps DEF LandsWhereItLeft
  <1>7. CASE \E d \in Deltas : RemoteMove(d)
    BY <1>7, RemoteMoveKeeps
  <1>8. CASE \E edge \in Edges : SwitchLocal(edge)
    BY <1>8, SwitchLocalKeeps DEF LandsWhereItLeft
  <1>9. CASE \E d \in Deltas : MoveUnseen(d)
    BY <1>9, UnseenKeeps DEF LandsWhereItLeft
  <1> QED
    BY <1>1, <1>2, <1>3, <1>4, <1>5, <1>6, <1>7, <1>8, <1>9 DEF CrossingNext

\* A displacement of nothing crosses no edge.
LEMMA NothingCrosses ==
    ASSUME NEW t, IsTarget(t), NEW p
    PROVE  ~Crosses(t, p, Point(0, 0))
  <1>1. t.edge \in {"Right", "Left", "Bottom", "Top"}
    BY DEF IsTarget, Edges
  <1>2. ~(Outward(t.edge, Point(0, 0)) >= 1)
    <2> DEFINE o == Point(0, 0)
    <2>1. o.x = 0 /\ o.y = 0
      BY DEF Point
    <2> HIDE DEF o
    <2>2. ~(Outward(t.edge, o) >= 1)
      BY <1>1, <2>1 DEF Outward
    <2> QED
      BY <2>2 DEF o
  <1> QED
    BY <1>2 DEF Crosses

\* What a move across an edge makes of the pointer.
LEMMA MoveCrosses ==
    ASSUME PointerInv, NEW d \in Deltas, LocalMove(d), asked' # Nowhere
    PROVE  NoBounce /\ EntryIsContinuous
  <1>1. PICK t : \E moved \in PointType :
          /\ IsTarget(t) /\ Crosses(t, lastPoint', moved)
          /\ moved = MovedTo(lastPoint')
          /\ asked' = Candidate(t, EntryPoint(t, lastPoint', moved))
    BY LocalMoveKeeps
  <1> DEFINE moved == MovedTo(lastPoint')
  <1>0. /\ moved \in PointType /\ IsTarget(t) /\ Crosses(t, lastPoint', moved)
        /\ asked' = Candidate(t, EntryPoint(t, lastPoint', moved))
    BY <1>1
  <1> HIDE DEF moved
  <1>2. lastPoint' \in PointType
    BY LocalMoveKeeps
  <1>3. ~fresh
    <2>1. CASE fresh
      <3>1. lastPoint = Nowhere
        BY <2>1 DEF PointerInv
      <3>2. moved = Point(0, 0)
        BY <3>1 DEF MovedTo, moved
      <3> QED
        BY <1>0, <3>2, NothingCrosses
    <2> QED
      BY <2>1
  <1> DEFINE e == EntryPoint(t, lastPoint', moved)
  <1>4. /\ e \in PointType /\ InBounds(t.remote, e)
        /\ t.edge \in {"Right", "Left"} /\ Within(lastPoint'.y, t.remote.y, t.remote.h)
              => e.y = lastPoint'.y - t.remote.y
        /\ t.edge \notin {"Right", "Left"} /\ Within(lastPoint'.x, t.remote.x, t.remote.w)
              => e.x = lastPoint'.x - t.remote.x
    BY <1>0, <1>2, EntersOnScreen
  <1>5. asked' = Candidate(t, e)
    BY <1>0
  <1> HIDE DEF e
  <1>10. asked'.target = t /\ asked'.x = e.x /\ asked'.y = e.y
    BY <1>5 DEF Candidate
  <1> DEFINE g == Global(t.remote, Position(asked'))
  <1>6. g.x = t.remote.x + e.x /\ g.y = t.remote.y + e.y
    BY <1>10 DEF Global, Position, Point
  <1>7. /\ t.remote.x \in Int /\ t.remote.y \in Int /\ e.x \in Int /\ e.y \in Int
        /\ lastPoint'.x \in Int /\ lastPoint'.y \in Int
    BY <1>0, <1>2, <1>4, ScreenSides DEF PointType, IsTarget
  <1> HIDE DEF g
  <1>8. /\ t.edge \in {"Right", "Left"} /\ Within(lastPoint'.y, t.remote.y, t.remote.h)
              => g.y = lastPoint'.y
        /\ t.edge \notin {"Right", "Left"} /\ Within(lastPoint'.x, t.remote.x, t.remote.w)
              => g.x = lastPoint'.x
    BY <1>4, <1>6, <1>7
  <1>9. EntryIsContinuous
    BY <1>10, <1>8 DEF EntryIsContinuous, g
  <1> QED
    BY <1>3, <1>9 DEF NoBounce

\* Every step asks without a bounce, enters where the pointer left, and returns there.
LEMMA StepAsks ==
    PointerInv /\ [CrossingNext]_crossingVars
        => [NoBounce /\ EntryIsContinuous /\ LandsWhereItLeft]_crossingVars
  <1> SUFFICES ASSUME PointerInv, [CrossingNext]_crossingVars
               PROVE  NoBounce /\ EntryIsContinuous /\ LandsWhereItLeft
    OBVIOUS
  <1>1. /\ LandsWhereItLeft
        /\ \/ asked' = asked \/ asked' = Nowhere
           \/ \E d \in Deltas : LocalMove(d)
    BY StepPointer
  <1>2. CASE asked' = asked \/ asked' = Nowhere
    BY <1>1, <1>2 DEF NoBounce, EntryIsContinuous, Asks
  <1>3. CASE asked' # Nowhere /\ \E d \in Deltas : LocalMove(d)
    BY <1>1, <1>3, MoveCrosses
  <1> QED
    BY <1>1, <1>2, <1>3

\* In every reachable state the pointer that is controlled, or asked for, lies on
\* the remote screen it names, and the cursor that is pinned meanwhile on the local
\* screen that led there (update_active_remote_screen, local_return_point).
THEOREM StaysOnScreen == CrossingSpec => []CrossingInv
  <1>1. CrossingInit => PointerInv
    BY InitPointerInv
  <1>2. PointerInv /\ [CrossingNext]_crossingVars => PointerInv'
    BY StepPointer
  <1>3. PointerInv => CrossingInv
    BY DEF PointerInv, CrossingInv, CrossingTypeOK, PointerOnScreen, Placed, PinnedAt
  <1> QED
    BY <1>1, <1>2, <1>3, PTL DEF CrossingSpec

\* A handoff is asked for at an edge when and where the pointer is moved across:
\* never with the first move after a return, and at the height where it left; and
\* control ends on the local screen it left from (handle_windows_mouse_move,
\* crossing_target_with_transform, local_return_point).
THEOREM AsksWhereMoved == CrossingSpec => AsksAsMoved
  <1>1. CrossingInit => PointerInv
    BY InitPointerInv
  <1>2. PointerInv /\ [CrossingNext]_crossingVars => PointerInv'
    BY StepPointer
  <1>3. PointerInv /\ [CrossingNext]_crossingVars
            => [NoBounce /\ EntryIsContinuous /\ LandsWhereItLeft]_crossingVars
    BY StepAsks
  <1> QED
    BY <1>1, <1>2, <1>3, PTL DEF CrossingSpec, AsksAsMoved

-----------------------------------------------------------------------------
(* The processes.                                                          *)

InstanceTypes ==
    /\ DOMAIN pc = Processes /\ DOMAIN inbox = Processes
    /\ platform \in {"unix", "windows"}
    /\ file \in Processes \cup {NoProcess} /\ bound \subseteq Processes

\* Each platform has its own way to start.
PlacePart ==
    \A p \in Processes : pc[p] \in StartingAt => (pc[p] = "acquire" <=> platform = "windows")

\* A socket takes connections until its process ends.
BoundPart == \A p \in bound : pc[p] \in {"protect", "owner", "serving", "quitting", "leaving"}

\* The path of a process that is leaving is gone, or another's.
LeavePart == \A p \in Processes : pc[p] = "leaving" => file # p

\* The mutex has one holder.
MutexPart == platform = "windows" => \A p, q \in Holders : p = q

\* Processes launched one after the other start one at a time; and whoever has
\* found the path free, or its socket dead, has no owner beside it.
TurnPart == ~together => \A p, q \in Starting : p = q
LockPart ==
    ~together /\ platform = "unix" =>
        /\ \A p \in Owners : file = p /\ p \in bound
        /\ \A p \in Processes : pc[p] \in {"remove", "rebind", "listen", "protect"} =>
              /\ Owners = {}
              /\ pc[p] \in {"listen", "protect"} => file = p
              /\ pc[p] = "protect" => p \in bound

LockInv == InstanceTypes /\ PlacePart /\ BoundPart /\ LeavePart /\ MutexPart /\ TurnPart /\ LockPart

\* While no process has ended: the one that removed the path is about to bind it,
\* and what it finds there instead is another that starts or runs.
RebindPart ==
    ~gone /\ file = NoProcess
          /\ (\E p \in Processes : pc[p] \in {"probe", "remove", "listen", "protect"})
        => \E r \in Processes : pc[r] = "rebind"
TakenPart ==
    ~gone /\ file # NoProcess /\ (\E p \in Processes : pc[p] = "rebind")
        => pc[file] \in {"listen", "protect", "owner", "serving", "quitting"}

\* Whoever gives up leaves another that starts or runs.
Going == StartingAt \cup {"owner", "serving", "quitting"}
GoingPart ==
    ~gone /\ (\E p \in Processes : pc[p] \in {"second", "done"})
        => \E q \in Processes : pc[q] \in Going

InstanceInv == LockInv /\ RebindPart /\ TakenPart /\ GoingPart

\* The invariant of the instances holds at the start.
LEMMA InitInstanceInv == InstanceInit => InstanceInv
  BY InstanceBounds
  DEF InstanceInit, InstanceInv, LockInv, InstanceTypes, PlacePart, BoundPart, LeavePart, MutexPart,
      TurnPart, LockPart, RebindPart, TakenPart, GoingPart, Owners, Holders, Starting, StartingAt

\* Steps that leave the lock alone.
Aside(p) ==
    \/ LaunchQuit(p) \/ TellUnix(p) \/ TellWindows(p) \/ Setup(p) \/ Activated(p) \/ ToldToQuit(p)
    \/ Hide(p) \/ Quit(p)
Moves(p) ==
    \/ UNCHANGED instanceVars
    \/ Launch(p) \/ Bind(p) \/ StartListening(p) \/ Protect(p) \/ Probe(p) \/ Unlink(p) \/ Rebind(p)
    \/ Acquire(p) \/ AcquireNothing(p) \/ RemoveSocket(p) \/ Exit(p) \/ Killed(p) \/ Aside(p)

\* A step is a step of one process, which any process can be compared with.
LEMMA NextMoves ==
    ASSUME [InstanceNext]_instanceVars, NEW p \in Processes
    PROVE  \E q \in Processes : Moves(q)
  BY DEF InstanceNext, Steps, Moves, Aside

\* The lock, while processes are launched one after the other.
LEMMA StepLock == ASSUME LockInv, NEW p \in Processes, Moves(p) PROVE LockInv'
  <1> USE InstanceBounds DEF LockInv, InstanceTypes, PlacePart, BoundPart, LeavePart, MutexPart,
          TurnPart, LockPart, Owners, Holders, Starting, StartingAt, Reachable, Enters, lockVars, channelVars,
          bookVars
  <1>1. CASE UNCHANGED instanceVars
    BY <1>1 DEF instanceVars
  <1>2. CASE Launch(p)
    BY <1>2 DEF Launch
  <1>3. CASE Bind(p)
    BY <1>3 DEF Bind
  <1>4. CASE StartListening(p)
    BY <1>4 DEF StartListening
  <1>5. CASE Protect(p)
    BY <1>5 DEF Protect
  <1>6. CASE Probe(p)
    BY <1>6 DEF Probe, AfterProbe
  <1>7. CASE Unlink(p)
    BY <1>7 DEF Unlink
  <1>8. CASE Rebind(p)
    BY <1>8 DEF Rebind
  <1>9. CASE Acquire(p) \/ AcquireNothing(p)
    BY <1>9 DEF Acquire, AcquireNothing
  <1>10. CASE RemoveSocket(p)
    BY <1>10 DEF RemoveSocket
  <1>11. CASE Exit(p) \/ Killed(p)
    BY <1>11 DEF Exit, Killed, EndsProcess
  <1>12. CASE Aside(p)
    BY <1>12 DEF Aside, LaunchQuit, TellUnix, TellWindows, Told, Setup, Activated, Consumed,
                 ToldToQuit, Hide, Quit
  <1> QED
    BY <1>1, <1>2, <1>3, <1>4, <1>5, <1>6, <1>7, <1>8, <1>9, <1>10, <1>11, <1>12 DEF Moves

\* The path, while no process ends.
LEMMA StepPath ==
    ASSUME InstanceInv, NEW p \in Processes, Moves(p)
    PROVE  RebindPart' /\ TakenPart'
  <1> USE InstanceBounds DEF InstanceInv, LockInv, InstanceTypes, LeavePart, RebindPart, TakenPart,
          Starting, StartingAt, Enters, lockVars, channelVars, bookVars
  <1>1. CASE UNCHANGED instanceVars
    BY <1>1 DEF instanceVars
  <1>2. CASE Launch(p)
    BY <1>2 DEF Launch
  <1>3. CASE Bind(p)
    BY <1>3 DEF Bind
  <1>4. CASE StartListening(p)
    BY <1>4 DEF StartListening
  <1>5. CASE Protect(p)
    BY <1>5 DEF Protect
  <1>6. CASE Probe(p)
    BY <1>6 DEF Probe, AfterProbe
  <1>7. CASE Unlink(p)
    BY <1>7 DEF Unlink
  <1>8. CASE Rebind(p)
    BY <1>8 DEF Rebind
  <1>9. CASE Acquire(p) \/ AcquireNothing(p)
    BY <1>9 DEF Acquire, AcquireNothing
  <1>10. CASE RemoveSocket(p)
    BY <1>10 DEF RemoveSocket
  <1>11. CASE Exit(p) \/ Killed(p)
    BY <1>11 DEF Exit, Killed, EndsProcess
  <1>12. CASE Aside(p)
    BY <1>12 DEF Aside, LaunchQuit, TellUnix, TellWindows, Told, Setup, Activated, Consumed,
                 ToldToQuit, Hide, Quit
  <1> QED
    BY <1>1, <1>2, <1>3, <1>4, <1>5, <1>6, <1>7, <1>8, <1>9, <1>10, <1>11, <1>12 DEF Moves

\* Nobody gives up without another that goes on.
LEMMA StepGoing == ASSUME InstanceInv, NEW p \in Processes, Moves(p) PROVE GoingPart'
  <1> USE InstanceBounds DEF InstanceInv, LockInv, InstanceTypes, PlacePart, BoundPart, LeavePart,
          RebindPart, TakenPart, GoingPart, Going, Owners, Holders, Starting, StartingAt, Reachable, Enters,
          lockVars, channelVars, bookVars
  <1>1. CASE UNCHANGED instanceVars
    BY <1>1 DEF instanceVars
  <1>2. CASE Launch(p)
    BY <1>2 DEF Launch
  <1>3. CASE Bind(p)
    BY <1>3 DEF Bind
  <1>4. CASE StartListening(p)
    BY <1>4 DEF StartListening
  <1>5. CASE Protect(p)
    BY <1>5 DEF Protect
  <1>6. CASE Probe(p)
    BY <1>6 DEF Probe, AfterProbe
  <1>7. CASE Unlink(p)
    BY <1>7 DEF Unlink
  <1>8. CASE Rebind(p)
    BY <1>8 DEF Rebind
  <1>9. CASE Acquire(p) \/ AcquireNothing(p)
    BY <1>9 DEF Acquire, AcquireNothing
  <1>10. CASE RemoveSocket(p)
    BY <1>10 DEF RemoveSocket
  <1>11. CASE Exit(p) \/ Killed(p)
    BY <1>11 DEF Exit, Killed, EndsProcess
  <1>12. CASE Aside(p)
    BY <1>12 DEF Aside, LaunchQuit, TellUnix, TellWindows, Told, Setup, Activated, Consumed,
                 ToldToQuit, Hide, Quit
  <1> QED
    BY <1>1, <1>2, <1>3, <1>4, <1>5, <1>6, <1>7, <1>8, <1>9, <1>10, <1>11, <1>12 DEF Moves

\* Every step keeps the invariant of the instances.
LEMMA StepInstanceInv == InstanceInv /\ [InstanceNext]_instanceVars => InstanceInv'
  <1> SUFFICES ASSUME InstanceInv, [InstanceNext]_instanceVars PROVE InstanceInv'
    OBVIOUS
  <1>1. CASE UNCHANGED instanceVars
    BY <1>1 DEF instanceVars, InstanceInv, LockInv, InstanceTypes, PlacePart, BoundPart, LeavePart,
        MutexPart, TurnPart, LockPart, RebindPart, TakenPart, GoingPart, Owners, Holders, Starting
  <1>2. CASE \E p \in Processes : Moves(p)
    BY <1>2, StepLock, StepPath, StepGoing DEF InstanceInv
  <1> QED
    BY <1>1, <1>2, NextMoves DEF InstanceNext

\* A set without two members has at most one.
LEMMA OneOrNone ==
    ASSUME NEW S, \A p, q \in S : p = q
    PROVE  Cardinality(S) <= 1
  <1>1. CASE S = {}
    BY <1>1, FS_EmptySet
  <1>2. CASE S # {}
    <2>1. \E p : p \in S
      BY <1>2
    <2>2. PICK p : S = {p}
      BY <2>1
    <2>3. Cardinality({p}) = 1
      BY FS_Singleton
    <2>4. Cardinality(S) = 1
      BY <2>2, <2>3
    <2> QED
      BY <2>4
  <1> QED
    BY <1>1, <1>2

\* The invariant gives what the guard of the instance promises.
LEMMA InstancePromises == InstanceInv => OneAfterTheOther /\ StartRuns
  <1> SUFFICES ASSUME InstanceInv PROVE OneAfterTheOther /\ StartRuns
    OBVIOUS
  <1> DEFINE S == Running \ unlocked
  <1>1. ASSUME ~together PROVE \A p, q \in S : p = q
    BY <1>1 DEF InstanceInv, LockInv, InstanceTypes, LockPart, MutexPart, Owners, Holders, Running
  <1>2. OneAfterTheOther
    <2> HIDE DEF S
    <2>1. ~together => Cardinality(S) <= 1
      BY <1>1, OneOrNone
    <2> QED
      BY <2>1 DEF OneAfterTheOther, S
  <1>3. StartRuns
    BY DEF StartRuns, AtRest, InstanceInv, GoingPart, Going, StartingAt
  <1> QED
    BY <1>2, <1>3

\* An activation that is taken up shows a window.
LEMMA StepShows == InstanceInv /\ [InstanceNext]_instanceVars => WindowShown
  <1> SUFFICES ASSUME InstanceInv, [InstanceNext]_instanceVars,
                      Activations' \subseteq Activations, Activations' # Activations
               PROVE  windows' # {} \/ gone' \/ \E q \in Processes : pc[q] = "leaving"
    BY DEF WindowShown
  <1>5. ~ UNCHANGED instanceVars
    BY DEF instanceVars, Activations
  <1>6. PICK p \in Processes : Moves(p)
    BY <1>5, NextMoves DEF InstanceNext
  <1> USE DEF InstanceInv, LockInv, InstanceTypes, Activations, Enters, lockVars, channelVars, bookVars
  <1>1. CASE Activated(p)
    BY <1>1 DEF Activated, ShownFor
  <1>2. CASE Exit(p) \/ Killed(p)
    BY <1>2 DEF Exit, Killed, EndsProcess
  <1>3. CASE ToldToQuit(p)
    BY <1>3 DEF ToldToQuit, Consumed
  <1>4. CASE TellUnix(p) \/ TellWindows(p)
    BY <1>4 DEF TellUnix, TellWindows
  <1> QED
    BY <1>1, <1>2, <1>3, <1>4, <1>5, <1>6 DEF Moves, Aside, Launch, LaunchQuit, Bind, StartListening, Protect,
       Probe, Unlink, Rebind, Acquire, AcquireNothing, Setup, Hide, Quit, RemoveSocket

\* What a launch promises, for any number of processes, tries and crashes, on
\* either platform: launches that follow each other never leave two instances but
\* where one could not make its mutex, a start is in vain only when an instance has ended since, and an activation
\* that is taken up shows a window.
THEOREM LaunchesArePromised == InstanceSpec => LaunchesAct
  <1>1. InstanceInv' => OneAfterTheOther' /\ StartRuns'
    BY InstancePromises, PTL
  <1>2. InstanceInv /\ [InstanceNext]_instanceVars => OneAfterTheOther' /\ StartRuns' /\ WindowShown
    BY <1>1, StepInstanceInv, StepShows
  <1> QED
    BY <1>2, InitInstanceInv, StepInstanceInv, PTL DEF InstanceSpec, LaunchesAct
=============================================================================
