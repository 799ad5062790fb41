----------------------------- MODULE MCReceiver -----------------------------
(* Small receivers: keys k1 and k2 press the same target under one mapping   *)
(* and different targets under the other.  A behaviour keeps to one scope:   *)
(* the sessions of two connections and two requests, the keys of one long    *)
(* session, or its motion.                                                   *)
EXTENDS ReceiverSession, TLC

CONSTANTS c1, c2, b1, d1, d2, k1, k2, t1, t2, left

VARIABLE scope

TwoConnections == {c1, c2}
OneBoot == {b1}
TwoDisplays == {d1, d2}
TwoKeys == {k1, k2}
TwoTargets == {t1, t2}
OneButton == {left}

TwoMappings == {k1 :> t1 @@ k2 :> t1, k1 :> t2 @@ k2 :> t1}

MCInit ==
    /\ Init
    /\ scope \in {"sessions", "keys", "motion"}
    /\ scope # "keys" => mapping = k1 :> t1 @@ k2 :> t1

OneSessionOnly ==
    /\ binding' \in {c1, None}
    /\ issued'[b1] <= 1
    /\ d2 \in display'.layouts /\ display'.prepared # d2

(* What the steps of each scope leave out. *)
WithinSessions ==
    /\ ledger'.keys \subseteq {[source |-> Source(k1, t1), target |-> t1]}
    /\ ledger'.buttons = {} /\ mapping' = mapping
    /\ gate'.next <= 3 /\ motion'.highest <= 1 /\ pointer'.seq <= 1
    /\ motion'.pending # None => motion'.pending.seq = 1 /\ motion'.pending.required <= 3

WithinKeys ==
    /\ OneSessionOnly
    /\ motion'.highest <= 1 /\ pointer'.seq <= 1
    /\ motion'.pending # None => motion'.pending.seq = 1

WithinMotion ==
    /\ OneSessionOnly
    /\ ledger'.keys = {} /\ mapping' = mapping
    /\ gate'.next <= 4
    /\ motion'.pending # None => motion'.pending.required <= 4

MCNext ==
    /\ Next
    /\ scope = "sessions" => WithinSessions
    /\ scope = "keys" => WithinKeys
    /\ scope = "motion" => WithinMotion
    /\ scope' = scope

MCSpec ==
    MCInit /\ [][MCNext]_<<vars, scope>> /\ WF_vars(Tick) /\ WF_vars(Expire)
=============================================================================
