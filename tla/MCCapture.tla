------------------------------ MODULE MCCapture ------------------------------
(* Bounds for Capture: two threads, or one for the edge that is crossed and *)
(* cancelled; the trigger keys of the default layout, where both returns    *)
(* use F10; the features of one behaviour.                                  *)
EXTENDS Capture

CONSTANTS t1, t2

Everyday == {{"moves", "keys", "switch", "tray"}, {"hotkeys"},
             {"moves", "overlap", "switch"}, {"moves", "overlap", "desktop"},
             {"moves", "keys", "desktop"}, {"moves", "keys", "game"}}
EdgeAndTray == {{"moves", "switch", "tray"}}
OneThread == {t1}
TwoThreads == {t1, t2}
DefaultKeys == [GoMac |-> "F11", GoLocal |-> "F10", EmergencyLocal |-> "F10"]
=============================================================================
