---------------------------- MODULE MCClipboard ----------------------------
(* A Windows controller and a Mac receiver that takes less.                  *)
EXTENDS ClipboardSync, TLC

CONSTANTS winHost, macHost

Machines == {winHost, macHost}
MacFirst == macHost :> 1 @@ winHost :> 2
Listening == {winHost}
OneSize == {1}
TwoSizes == {1, 2}
Limits == macHost :> 1 @@ winHost :> 2
OneBoot == macHost :> {1} @@ winHost :> {1}
MacRestarts == macHost :> {1, 2} @@ winHost :> {1}
=============================================================================
