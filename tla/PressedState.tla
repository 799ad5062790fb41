--------------------------- MODULE PressedState ---------------------------
(***************************************************************************)
(* The receiver's ledger of held keys and buttons (pressed_state.rs).  A    *)
(* ledger says which physical key (its source) owns which target key; the  *)
(* commands an event produces are the difference it makes to the set of     *)
(* held targets.  Coordinates and drag buttons are left out.                *)
(***************************************************************************)
EXTENDS Naturals, FiniteSets

CONSTANTS
    Keys,       \* physical keys: a scan code with its extended bit
    ScanCoded,  \* those whose events carry a scan code
    Targets,    \* target key codes
    Buttons     \* mouse buttons

ASSUME PressedAssumption == ScanCoded \subseteq Keys

\* Fault: a key is identified by the code it was mapped to.
SourceByCode(key, code) == [by |-> "virtual_key", of |-> code]

\* KeySource::from_event: the virtual key stands in for a missing scan code.
\* `code' is the event's key code, already remapped by the session.
Source(key, code) ==
    IF key \in ScanCoded THEN [by |-> "scan_code", of |-> key]
                         ELSE [by |-> "virtual_key", of |-> code]

Sources == [by : {"scan_code"}, of : Keys]
           \cup [by : {"virtual_key"}, of : Targets]
HeldKeys == [source : Sources, target : Targets]
Ledgers == [keys : SUBSET HeldKeys, buttons : SUBSET Buttons]
EmptyLedger == [keys |-> {}, buttons |-> {}]

IsEmpty(ledger) == ledger.keys = {} /\ ledger.buttons = {}

\* What the operating system is to see held: one press however many owners.
HeldTargets(ledger) == {held.target : held \in ledger.keys}

OwnedBy(ledger, source) == {held \in ledger.keys : held.source = source}

KeysWithout(ledger, source) == ledger.keys \ OwnedBy(ledger, source)

\* apply_key: a repeat is ignored, and the target of the press is frozen.
AfterKey(ledger, source, code, down) ==
    [ledger EXCEPT !.keys =
        IF ~down THEN KeysWithout(ledger, source)
        ELSE IF OwnedBy(ledger, source) # {} THEN @
        ELSE @ \cup {[source |-> source, target |-> code]}]

\* apply_button.
AfterButton(ledger, button, down) ==
    [ledger EXCEPT !.buttons = IF down THEN @ \cup {button} ELSE @ \ {button}]

\* The commands that take the system from one ledger to another.
Presses(before, after) ==
    [keys |-> HeldTargets(after) \ HeldTargets(before),
     buttons |-> after.buttons \ before.buttons]
Releases(before, after) == Presses(after, before)

\* release_all: one release per held target and button.
ReleaseAll(ledger) == Releases(ledger, EmptyLedger)
=============================================================================
