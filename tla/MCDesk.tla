------------------------------- MODULE MCDesk --------------------------------
(* What the user of a machine has at hand: the clipboard, the hotkeys, the       *)
(* pointer between the screens, the injected keys and clicks, and the process    *)
(* itself.  They share no state in these models: one behaviour runs one of them, *)
(* chosen at the start.                                                          *)
EXTENDS MCClipboard, Hotkeys, Crossing, Injection, SingleInstance

CONSTANTS LeftShift, RightShift, Control, Letter, here, beside, far

VARIABLE part

allVars == <<vars, hotkeyVars, crossingVars, injectionVars, instanceVars, part>>

(* Crossing: two local screens side by side, a remote device with two screens,   *)
(* the second one larger; the remote device moves below them.                    *)
MCScreen(id, sx, sy, w, h, primary) ==
    [id |-> id, x |-> sx, y |-> sy, w |-> w, h |-> h, primary |-> primary]
Desk == <<MCScreen("L1", 0, 0, 3, 3, TRUE), MCScreen("L2", -2, 0, 2, 2, FALSE)>>
Beside1 == <<MCScreen("R1", 3, 1, 3, 3, TRUE), MCScreen("R2", 6, 1, 4, 2, FALSE)>>
Below1 == <<MCScreen("R1", 0, 3, 3, 3, TRUE), MCScreen("R2", 3, 3, 4, 2, FALSE)>>
TwoLayouts == {[local |-> Desk, remote |-> Beside1, online |-> TRUE],
               [local |-> Desk, remote |-> Below1, online |-> TRUE],
               [local |-> Desk, remote |-> Beside1, online |-> FALSE]}
OneAtATime == {{"switch"}, {"edit"}}
ShortMoves == {Point(-1, 0), Point(2, 1), Point(0, 2)}

(* Injection: both Shift keys set the same flag. *)
MCModifierFlag == LeftShift :> "Shift" @@ RightShift :> "Shift" @@ Control :> "Control"
MCNear == {<<here, here>>, <<beside, beside>>, <<far, far>>, <<here, beside>>, <<beside, here>>}

Parts == {"clipboard", "hotkeys", "crossing", "keys", "clicks", "instance"}

MCInit ==
    /\ part \in Parts
    /\ Init /\ HotkeysInit /\ CrossingInit /\ InjectionInit /\ InstanceInit
    /\ part # "crossing" => arranged = CHOOSE l \in Layouts : l.online
    /\ part # "crossing" => scenario = {"switch"}
    /\ part \notin {"keys", "clicks"} => machine = "mac"
    /\ part # "instance" => platform = "unix"

(* A behaviour of the injector exercises the keys or the clicks. *)
MCInjectionNext ==
    /\ InjectionNext
    /\ part = "keys" => lastDown' = lastDown /\ pressed' = pressed /\ soon' = soon
    /\ part = "clicks" => call' = call

(* A clipboard is stopped on the machine that can start it again: one that        *)
(* stopped for good only loses what is sent to it.                               *)
MCClipboardNext ==
    /\ Next
    /\ \A p \in Peers : engine[p] # None /\ engine'[p] = None => boots[p] # Boots[p]

MCNext ==
    \/ /\ part = "clipboard" /\ MCClipboardNext
       /\ UNCHANGED <<hotkeyVars, crossingVars, injectionVars, instanceVars, part>>
    \/ /\ part = "hotkeys" /\ HotkeysNext
       /\ UNCHANGED <<vars, crossingVars, injectionVars, instanceVars, part>>
    \/ /\ part = "crossing" /\ CrossingNext
       /\ UNCHANGED <<vars, hotkeyVars, injectionVars, instanceVars, part>>
    \/ /\ part \in {"keys", "clicks"} /\ MCInjectionNext
       /\ UNCHANGED <<vars, hotkeyVars, crossingVars, instanceVars, part>>
    \/ /\ part = "instance" /\ InstanceNext
       /\ UNCHANGED <<vars, hotkeyVars, crossingVars, injectionVars, part>>

MCSpec == MCInit /\ [][MCNext]_allVars
=============================================================================
