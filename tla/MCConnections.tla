---------------------------- MODULE MCConnections -----------------------------
(* The connection cache, the decoder of what the streams carry, and the pairing *)
(* that says whom a connection is taken from share no state in these models:    *)
(* one behaviour runs one of them, chosen at the start.                         *)
EXTENDS Transport, Codec, Pairing

VARIABLE part

allVars == <<transportVars, codecVars, pairingVars, part>>

MCInit ==
    /\ part \in {"transport", "codec", "one controller", "two controllers"}
    /\ TransportInit /\ CodecInit /\ PairingInit
    /\ part # "codec" => channel = "control" /\ version = "this"

(* Two confirmations and an upset with one controller, two of the three with two. *)
FewerPairingSteps ==
    IF part = "one controller" THEN asked' \subseteq {"c1"} \X {"sent", "heard"} ELSE confirms' + upsets' <= 2

MCNext ==
    \/ part = "transport" /\ TransportNext /\ UNCHANGED <<codecVars, pairingVars, part>>
    \/ part = "codec" /\ CodecNext /\ UNCHANGED <<transportVars, pairingVars, part>>
    \/ /\ part \in {"one controller", "two controllers"} /\ PairingNext /\ FewerPairingSteps
       /\ UNCHANGED <<transportVars, codecVars, part>>

MCSpec == MCInit /\ [][MCNext]_allVars
=============================================================================
