----------------------------- MODULE Injection -----------------------------
(***************************************************************************)
(* The native injector behind InjectorPort (input.rs): what it tells the    *)
(* system for each command the receiver submits.  On a Mac every key event  *)
(* carries the modifiers held so far and every button event a click count,  *)
(* both kept by the programme; on Windows the system keeps them itself.     *)
(*                                                                          *)
(* The receiver submits one command at a time, under its session's mutex;   *)
(* stopping the input service resets the same records on another thread, at *)
(* any moment.  A submission the system refuses is reported as a success.   *)
(***************************************************************************)
EXTENDS Naturals, FiniteSets

CONSTANTS
    InjectedKeys,   \* key codes: Windows virtual keys
    ModifierFlag,   \* windows_vk_to_mac_flag: a function on the modifiers
    UnknownKeys,    \* those windows_vk_to_mac_key does not know
    ClickButtons,   \* left, right and middle
    SideButtons,    \* back and forward
    Points,         \* positions a button event may name
    NearPoints,     \* pairs of positions at most MAX_DISTANCE_PX apart
    Nothing         \* no call, no click

ASSUME InjectionAssumption ==
    /\ DOMAIN ModifierFlag \subseteq InjectedKeys
    /\ UnknownKeys \subseteq InjectedKeys
    /\ \A a, b \in Points : <<a, b>> \in NearPoints => <<b, a>> \in NearPoints
    /\ \A a \in Points : <<a, a>> \in NearPoints

VARIABLES
    machine,        \* "mac" or "windows"
    ready,          \* readiness(): the permission, and no secure input field
    keysHeld,       \* the receiver's ledger of keys
    call,           \* the inject_key under way
    flags,          \* MAC_INJECT_FLAGS
    lastDown,       \* MacClickTracker.last_down
    soon,           \* the double-click interval has not passed since
    pressed,        \* MacClickTracker.pressed
    resetting,      \* reset_injected_modifiers has cleared the flags only
    posted,         \* the last event the system took
    pressedAs       \* history: the count each button's press was posted with

injectionVars == <<machine, ready, keysHeld, call, flags, lastDown, soon,
                   pressed, resetting, posted, pressedAs>>

Modifiers == DOMAIN ModifierFlag
FlagsOf(keys) == {ModifierFlag[k] : k \in keys \cap Modifiers}

\* A call of inject_key: its key, the flags it has loaded, and its next step.
Calls == [key : InjectedKeys, down : BOOLEAN, seen : SUBSET FlagsOf(InjectedKeys),
          step : {"store", "post"}]

ASSUME NothingIsNoCall == Nothing \notin Calls

InjectionInit ==
    /\ machine \in {"mac", "windows"}
    /\ ready = TRUE
    /\ keysHeld = {}
    /\ call = Nothing
    /\ flags = {}
    /\ lastDown = Nothing
    /\ soon = FALSE
    /\ pressed = [b \in ClickButtons |-> Nothing]
    /\ resetting = FALSE
    /\ posted = Nothing
    /\ pressedAs = [b \in ClickButtons |-> 0]

-----------------------------------------------------------------------------
(* Keys, inject_key.                                                       *)

\* Fault: a key-up is stamped with the modifier it releases, and leaves it.
WithFlagUntilNext(seen, key, down) == seen \cup {ModifierFlag[key]}

\* The running modifier state after a key event.
WithFlag(seen, key, down) ==
    IF down THEN seen \cup {ModifierFlag[key]} ELSE seen \ {ModifierFlag[key]}

\* The command reaches inject_key: a modifier's flags are loaded first.  The
\* receiver repeats no press; it may repeat a release.
SubmitKey(key, down) ==
    /\ ready
    /\ call = Nothing
    /\ down => key \notin keysHeld
    /\ LET tracked == machine = "mac" /\ key \in Modifiers
       IN  call' = [key |-> key, down |-> down, seen |-> flags,
                    step |-> IF tracked THEN "store" ELSE "post"]
    /\ UNCHANGED <<machine, ready, keysHeld, flags, lastDown, soon, pressed,
                   resetting, posted, pressedAs>>

\* ... and stored: what another thread stored in between is overwritten.
StoreFlags ==
    /\ call # Nothing
    /\ call.step = "store"
    /\ flags' = WithFlag(call.seen, call.key, call.down)
    /\ call' = [call EXCEPT !.step = "post"]
    /\ UNCHANGED <<machine, ready, keysHeld, lastDown, soon, pressed,
                   resetting, posted, pressedAs>>

KeysAfter(key, down) ==
    IF down THEN keysHeld \cup {key} ELSE keysHeld \ {key}

\* windows_vk_to_mac_key: the keys the table has a Mac key for.
Known(key) == key \notin UnknownKeys

\* The event carries the flags of now.  post_event answers Ok whether or not
\* it was posted, and the receiver records the key.
PostKeyMac(taken) ==
    /\ machine = "mac"
    /\ posted' = IF taken /\ Known(call.key)
                 THEN [kind |-> "key", key |-> call.key, down |-> call.down,
                       flags |-> flags]
                 ELSE posted

PostKeyWindows(taken) ==
    /\ machine = "windows"
    /\ posted' = IF taken
                 THEN [kind |-> "key", key |-> call.key, down |-> call.down,
                       flags |-> {}]
                 ELSE posted

PostKey(taken) ==
    /\ call # Nothing
    /\ call.step = "post"
    /\ PostKeyMac(taken) \/ PostKeyWindows(taken)
    /\ keysHeld' = KeysAfter(call.key, call.down)
    /\ call' = Nothing
    /\ UNCHANGED <<machine, ready, flags, lastDown, soon, pressed, resetting,
                   pressedAs>>

-----------------------------------------------------------------------------
(* Buttons, MacClickTracker::event_count.                                  *)

Least(a, b) == IF a < b THEN a ELSE b

\* The count of a press: one more than the last press's, up to three, when
\* that was of this button, soon before and near.
PressCount(button, point) ==
    IF /\ lastDown # Nothing
       /\ soon
       /\ lastDown.button = button
       /\ <<lastDown.point, point>> \in NearPoints
    THEN Least(lastDown.count + 1, 3)
    ELSE 1

\* Fault: a release repeats the count of the last press of any button.
ReleaseCountOfLast(button, point) ==
    IF lastDown # Nothing /\ <<lastDown.point, point>> \in NearPoints
    THEN lastDown.count ELSE 0

\* The count of a release: its own press's, unless the pointer moved away.
ReleaseCount(button, point) ==
    IF /\ pressed[button] # Nothing
       /\ <<pressed[button].point, point>> \in NearPoints
    THEN pressed[button].count ELSE 0

\* What a release leaves of last_down: a drag chains into no double click.
LastDownAfter(button, point) ==
    IF /\ pressed[button] # Nothing
       /\ <<pressed[button].point, point>> \notin NearPoints
    THEN Nothing ELSE lastDown

TrackPress(button, point) ==
    LET count == PressCount(button, point)
    IN  /\ lastDown' = [button |-> button, point |-> point, count |-> count]
        /\ pressed' = [pressed EXCEPT
                          ![button] = [point |-> point, count |-> count]]
        /\ soon' = TRUE

TrackRelease(button, point) ==
    /\ lastDown' = LastDownAfter(button, point)
    /\ pressed' = [pressed EXCEPT ![button] = Nothing]
    /\ soon' = soon

ButtonEvent(button, down, count) ==
    [kind |-> "button", button |-> button, down |-> down, count |-> count]

\* inject_mouse_button: an event that cannot be built is not counted either.
PostButtonMac(button, down, point) ==
    /\ machine = "mac"
    /\ IF button \in ClickButtons
       THEN /\ posted' = ButtonEvent(button, down,
                             IF down THEN PressCount(button, point)
                             ELSE ReleaseCount(button, point))
            /\ IF down THEN TrackPress(button, point)
               ELSE TrackRelease(button, point)
            /\ pressedAs' = IF down
                  THEN [pressedAs EXCEPT ![button] = PressCount(button, point)]
                  ELSE pressedAs
       ELSE /\ posted' = ButtonEvent(button, down, IF down THEN 1 ELSE 0)
            /\ UNCHANGED <<lastDown, soon, pressed, pressedAs>>

PostButtonWindows(button, down, point) ==
    /\ machine = "windows"
    /\ posted' = ButtonEvent(button, down, 0)
    /\ UNCHANGED <<lastDown, soon, pressed, pressedAs>>

PostButton(button, down, point) ==
    /\ ready
    /\ call = Nothing
    /\ PostButtonMac(button, down, point) \/ PostButtonWindows(button, down, point)
    /\ UNCHANGED <<machine, ready, keysHeld, call, flags, resetting>>

\* inject_mouse_move and inject_scroll leave the records alone.
PostOther(kind) ==
    /\ ready
    /\ call = Nothing
    /\ posted' = [kind |-> kind]
    /\ UNCHANGED <<machine, ready, keysHeld, call, flags, lastDown, soon,
                   pressed, resetting, pressedAs>>

PostMove == PostOther("move")
PostScroll == PostOther("scroll")

\* The double-click interval passes.
IntervalPasses ==
    /\ soon
    /\ soon' = FALSE
    /\ UNCHANGED <<machine, ready, keysHeld, call, flags, lastDown, pressed,
                   resetting, posted, pressedAs>>

-----------------------------------------------------------------------------
(* The other threads.                                                      *)

\* reset_injected_modifiers, called by stop_input: the flags, and then the
\* clicks under their own mutex.
ResetFlags ==
    /\ machine = "mac"
    /\ ~resetting
    /\ flags' = {}
    /\ resetting' = TRUE
    /\ UNCHANGED <<machine, ready, keysHeld, call, lastDown, soon, pressed,
                   posted, pressedAs>>

ResetClicks ==
    /\ resetting
    /\ lastDown' = Nothing
    /\ pressed' = [b \in ClickButtons |-> Nothing]
    /\ resetting' = FALSE
    /\ UNCHANGED <<machine, ready, keysHeld, call, flags, soon, posted,
                   pressedAs>>

\* NativeInjector::readiness on a Mac: while it fails no command is taken.
ReadinessChanges ==
    /\ machine = "mac"
    /\ call = Nothing
    /\ ready' = ~ready
    /\ UNCHANGED <<machine, keysHeld, call, flags, lastDown, soon, pressed,
                   resetting, posted, pressedAs>>

InjectionNext ==
    \/ \E k \in InjectedKeys, down \in BOOLEAN : SubmitKey(k, down)
    \/ StoreFlags
    \/ \E taken \in BOOLEAN : PostKey(taken)
    \/ \E b \in ClickButtons \cup SideButtons, down \in BOOLEAN, p \in Points :
          PostButton(b, down, p)
    \/ PostMove \/ PostScroll
    \/ IntervalPasses
    \/ ResetFlags \/ ResetClicks
    \/ ReadinessChanges

InjectionSpec == InjectionInit /\ [][InjectionNext]_injectionVars

-----------------------------------------------------------------------------
(* Properties.                                                             *)

\* No modifier is stamped on a Mac's events that the receiver does not hold:
\* not after a reset between the load and the store of inject_key, not after
\* a submission the system refused, and not for a key the Mac does not know.
NoModifierLeftOver ==
    LET busy == IF call = Nothing THEN {} ELSE {call.key}
    IN  flags \subseteq FlagsOf(keysHeld \cup busy)

\* A release that counts as a click counts as the click its own press began,
\* whatever other buttons were pressed, dragged or reset meanwhile.
ClicksPair ==
    [][ \A b \in ClickButtons, p \in Points :
          (PostButton(b, FALSE, p) /\ machine = "mac")
             => posted'.count \in {0, pressedAs[b]} ]_injectionVars
=============================================================================
