----------------------------- MODULE MCForwarding -----------------------------
(* What stands between the hooks and the peer: the gate and the router, the    *)
(* motion slot, the critical input stream and the bulk streams beside it.      *)
(* They share no state in these models: one behaviour runs one of them, chosen *)
(* at the start.                                                               *)
EXTENDS Routing, MotionSlot, InputStream, BulkStreams

CONSTANTS mac, s1, s2

VARIABLE part

allVars == <<vars, slotVars, streamVars, bulkVars, part>>

(* Routing: one receiver, two sessions it may offer, five generations and seven *)
(* clock values: a handoff can time out, be overridden and retried, and the     *)
(* generations run out.                                                         *)
MCPeers == {mac}
MCSessions == {s1, s2}

(* Bulk: a pairing and an image to the Mac, an image back. *)
MCSends == {"pair", "image", "back"}
MCFrom(x) == IF x = "back" THEN "mac" ELSE "win"
MCTo(x) == IF x = "back" THEN "win" ELSE "mac"
MCBytes(x) == IF x = "pair" THEN 1 ELSE 3
MCPairing(x) == x = "pair"

MCInit ==
    /\ part \in {"routing", "motion", "input", "bulk"}
    /\ Init /\ SlotInit /\ StreamInit /\ BulkInit

(* The streams really come to rest, the router never: it must not deadlock. *)
MCNext ==
    \/ part = "routing" /\ Next /\ UNCHANGED <<slotVars, streamVars, bulkVars, part>>
    \/ part = "motion" /\ SlotNext /\ UNCHANGED <<vars, streamVars, bulkVars, part>>
    \/ part = "input" /\ StreamNext /\ UNCHANGED <<vars, slotVars, bulkVars, part>>
    \/ part = "bulk" /\ BulkNext /\ UNCHANGED <<vars, slotVars, streamVars, part>>
    \/ part # "routing" /\ UNCHANGED allVars

(* Routing's Fairness, for the part that runs: the clock would tick in any other. *)
(* No fair step of the other parts is enabled where they were not chosen.         *)
MCFairness ==
    /\ WF_vars(part = "routing" /\ CallStep)
    /\ WF_vars(part = "routing" /\ Advance)
    /\ WF_vars(part = "routing" /\ Tick)
    /\ SlotFairness /\ StreamFairness /\ BulkFairness

MCSpec == MCInit /\ [][MCNext]_allVars /\ MCFairness

\* Nothing of the three ways to the peer waits for ever: a position is taken up, the
\* end of an input stream reported, the memory of a payload given back.
TrafficMoves == TakenUp /\ CloseReported /\ BytesReturn
=============================================================================
