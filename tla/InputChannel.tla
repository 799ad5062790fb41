----------------------------- MODULE InputChannel -----------------------------
(* What the critical input stream promises: the receiver handles a prefix of  *)
(* the frames the sender accepted, in their order, each once; and when the     *)
(* stream closes cleanly, all of them.                                         *)
EXTENDS Naturals, Sequences

CONSTANT Frames          \* frames that can be sent

VARIABLES accepted, delivered, closed

chanVars == <<accepted, delivered, closed>>

ChanInit == accepted = <<>> /\ delivered = 0 /\ closed = "no"

Accept(f) ==
    /\ accepted' = Append(accepted, f)
    /\ UNCHANGED <<delivered, closed>>

\* A chunk of the network may complete several frames, or none.
Deliver(n) ==
    /\ closed = "no" /\ delivered + n <= Len(accepted)
    /\ delivered' = delivered + n
    /\ UNCHANGED <<accepted, closed>>

CloseCleanly ==
    /\ closed = "no" /\ delivered = Len(accepted)
    /\ closed' = "clean"
    /\ UNCHANGED <<accepted, delivered>>

\* The handler refuses the last frame it is given, or the connection breaks.
CloseBroken(n) ==
    /\ closed = "no" /\ delivered + n <= Len(accepted)
    /\ closed' = "broken" /\ delivered' = delivered + n
    /\ UNCHANGED accepted

ChanNext ==
    \/ \E f \in Frames : Accept(f)
    \/ \E n \in 1..Len(accepted) : Deliver(n)
    \/ CloseCleanly
    \/ \E n \in 0..Len(accepted) : CloseBroken(n)

ChanSpec == ChanInit /\ [][ChanNext]_chanVars
=============================================================================
