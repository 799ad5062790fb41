------------------------------- MODULE Pairing -------------------------------
(* Pairing of one client with controllers (lib.rs): the challenge a             *)
(* pair-request starts on the client, the pair-confirm that carries the code    *)
(* over an unauthenticated QUIC stream, and the trust both sides then keep in   *)
(* memory, on disk and in the TrustedPeerRegistry.  The commands of the client  *)
(* (dismiss, reset) run on another thread than discovery and the stream         *)
(* handler: steps are cut at every lock and file write.                         *)
EXTENDS Naturals, FiniteSets

CONSTANTS
    Controllers,   \* the machines that ask
    Codes,         \* verification codes
    MaxAttempts,   \* PAIRING_MAX_ATTEMPTS
    MaxConfirms,   \* confirmations a user sends off
    MaxUpsets,     \* expiries, dismissals, resets, reinstallations, failed writes
    NoOne

ASSUME PairingBounds ==
    /\ MaxAttempts \in Nat \ {0} /\ MaxConfirms \in Nat /\ MaxUpsets \in Nat
    /\ NoOne \notin Controllers /\ NoOne \notin Codes

VARIABLES
    challenge,  \* pairing_challenge, NoOne or a record
    layout,     \* paired controller and trusted certificates, in memory
    saved,       \* the same in layout.json
    registry,   \* the certificates TLS connections are authenticated with
    stream,     \* the stream handler of each controller's pair-confirm
    reset,      \* where reset_pairing is, with its snapshot
    cert,       \* certificate generation of each controller
    server,     \* the command of each controller, its code, and what came of it
    asked,      \* pair-requests in flight, and the one the discovery thread has let through
    confirms, upsets, \* bounded counters
    since,      \* history: a reset since the confirmation of c began
    raced       \* history: a write failed, or two writers were at the files at once

pairingVars == <<challenge, layout, saved, registry, stream, reset, cert, server, asked, confirms, upsets,
          since, raced>>

Certs == 0..MaxUpsets
Trust == [paired : Controllers \cup {NoOne}, trusted : SUBSET (Controllers \X Certs)]
Nobody == [paired |-> NoOne, trusted |-> {}]

Challenges == [from : Controllers, cert : Certs, code : Codes,
               attempts : 0..MaxAttempts, expired : BOOLEAN]
Handlers == [at : {"none", "arrived", "matched", "written", "replace", "done"},
             code : Codes \cup {NoOne}, cert : Certs, known : BOOLEAN,
             answer : {"none", "ok", "reject"}, snapshot : Trust]
Resets == [at : {"none", "disk", "registry", "challenge"}, snapshot : Trust]
Requests == Controllers \X {"sent", "heard"}
UserCommands == [at : {"idle", "request", "confirm", "sent", "probe"},
                 typed : Codes \cup {NoOne},
                 result : {"none", "paired", "wrong", "failed"}]

PairingTypeOK ==
    /\ challenge = NoOne \/ challenge \in Challenges
    /\ layout \in Trust /\ saved \in Trust /\ registry \subseteq Controllers \X Certs
    /\ stream \in [Controllers -> Handlers]
    /\ reset \in Resets
    /\ cert \in [Controllers -> Certs]
    /\ server \in [Controllers -> UserCommands]
    /\ asked \subseteq Requests
    /\ confirms \in 0..MaxConfirms /\ upsets \in 0..MaxUpsets
    /\ since \in [Controllers -> BOOLEAN] /\ raced \in BOOLEAN

NoStream == [at |-> "none", code |-> NoOne, cert |-> 0, known |-> FALSE, answer |-> "none",
             snapshot |-> Nobody]
NoCommand == [at |-> "idle", typed |-> NoOne, result |-> "none"]

PairingInit ==
    /\ challenge = NoOne /\ layout = Nobody /\ saved = Nobody /\ registry = {}
    /\ stream = [c \in Controllers |-> NoStream]
    /\ reset = [at |-> "none", snapshot |-> Nobody]
    /\ cert = [c \in Controllers |-> 0]
    /\ server = [c \in Controllers |-> NoCommand]
    /\ asked = {} /\ confirms = 0 /\ upsets = 0
    /\ since = [c \in Controllers |-> FALSE] /\ raced = FALSE

trust == <<layout, saved, registry>>
Upset == upsets < MaxUpsets /\ upsets' = upsets + 1

-----------------------------------------------------------------------------
(* The controller: request_lan_pairing and confirm_lan_pairing.              *)

Request(c) ==
    /\ server[c].at = "idle"
    /\ server' = [server EXCEPT ![c] = [NoCommand EXCEPT !.at = "request"]]
    /\ asked' = asked \cup {<<c, "sent">>}
    /\ UNCHANGED <<challenge, trust, stream, reset, cert, confirms, upsets, since, raced>>

\* The user types a code; the confirmation asks for a challenge of its own first.
Confirm(c, code) ==
    /\ server[c].at = "idle" /\ stream[c].at = "none" /\ confirms < MaxConfirms
    /\ confirms' = confirms + 1
    /\ server' = [server EXCEPT ![c] = [at |-> "confirm", typed |-> code, result |-> "none"]]
    /\ asked' = asked \cup {<<c, "sent">>}
    /\ since' = [since EXCEPT ![c] = FALSE]
    /\ UNCHANGED <<challenge, trust, stream, reset, cert, upsets, raced>>

EndCommand(c, r) == server' = [server EXCEPT ![c].at = "idle", ![c].result = r]

\* No challenge in 1.8 s, no ack in time, no answer to the probe.
GiveUp(c) ==
    /\ server[c].at # "idle" /\ EndCommand(c, "failed")
    /\ UNCHANGED <<challenge, trust, stream, reset, cert, asked, confirms, upsets, since, raced>>

\* The ack of the stream.
ReadAnswer(c) ==
    /\ server[c].at = "sent" /\ stream[c].at = "done"
    /\ IF stream[c].answer = "ok" THEN server' = [server EXCEPT ![c].at = "probe"]
                                  ELSE EndCommand(c, "wrong")
    /\ stream' = [stream EXCEPT ![c] = NoStream]
    /\ UNCHANGED <<challenge, trust, reset, cert, asked, confirms, upsets, since, raced>>

\* The stream ends unread when the controller has given up.
Forget(c) ==
    /\ server[c].at # "sent" /\ stream[c].at = "done"
    /\ stream' = [stream EXCEPT ![c] = NoStream]
    /\ UNCHANGED <<challenge, trust, reset, cert, server, asked, confirms, upsets, since, raced>>

\* probe_for_peer: the client must no longer ask to be paired; then it is trusted.
ProbePeer(c) ==
    /\ server[c].at = "probe"
    /\ EndCommand(c, IF layout.paired = NoOne THEN "failed" ELSE "paired")
    /\ UNCHANGED <<challenge, trust, stream, reset, cert, asked, confirms, upsets, since, raced>>

\* A reinstalled controller comes with a new certificate and forgets its command.
Reinstall(c) ==
    /\ Upset /\ server[c].at = "idle" /\ stream[c].at = "none"
    /\ cert' = [cert EXCEPT ![c] = @ + 1]
    /\ server' = [server EXCEPT ![c] = NoCommand]
    /\ UNCHANGED <<challenge, trust, stream, reset, asked, confirms, since, raced>>

-----------------------------------------------------------------------------
(* The discovery thread of the client: begin_pairing_challenge.              *)

\* A client that is paired takes requests of its own controller only.
Known(c) == layout.paired \in {NoOne, c}

\* The thread judges by a copy of the layout, and locks the challenge after that.
HearRequest(c) ==
    /\ <<c, "sent">> \in asked /\ \A d \in Controllers : <<d, "heard">> \notin asked
    /\ asked' = (asked \ {<<c, "sent">>}) \cup (IF Known(c) THEN {<<c, "heard">>} ELSE {})
    /\ UNCHANGED <<challenge, trust, stream, reset, cert, server, confirms, upsets, since, raced>>

\* The running challenge of the requester goes on, with a new code after a wrong
\* one; one of another requester is left alone; without one, a new one starts.
Begin(c, code) ==
    LET fresh == [from |-> c, cert |-> cert[c], code |-> code, attempts |-> 0, expired |-> FALSE]
    IN IF challenge = NoOne \/ challenge.expired THEN fresh
       ELSE IF challenge.attempts > 0 THEN fresh
       ELSE [challenge EXCEPT !.cert = cert[c]]

MayChallenge(c) == challenge = NoOne \/ challenge.expired \/ challenge.from = c

\* With the pair-challenge it gets, a confirmation sends code and certificate, over the
\* connection it has or a new one.  Whether the client knows the controller was settled
\* when that connection was made, whatever the registry says now.
AnswerRequest(c, code) ==
    /\ <<c, "heard">> \in asked /\ asked' = asked \ {<<c, "heard">>}
    /\ IF MayChallenge(c)
       THEN /\ challenge' = Begin(c, code)
            /\ CASE server[c].at = "request" ->
                        server' = [server EXCEPT ![c].at = "idle"] /\ UNCHANGED stream
                 [] server[c].at = "confirm" ->
                        /\ server' = [server EXCEPT ![c].at = "sent"]
                        /\ \E known \in BOOLEAN :
                             stream' = [stream EXCEPT ![c] = [NoStream EXCEPT !.at = "arrived",
                                 !.code = server[c].typed, !.cert = cert[c], !.known = known]]
                 [] OTHER -> UNCHANGED <<server, stream>>
       ELSE UNCHANGED <<challenge, server, stream>>
    /\ UNCHANGED <<trust, reset, cert, confirms, upsets, since, raced>>

Expire ==
    /\ Upset /\ challenge # NoOne /\ ~challenge.expired
    /\ challenge' = [challenge EXCEPT !.expired = TRUE]
    /\ UNCHANGED <<trust, stream, reset, cert, server, asked, confirms, since, raced>>

\* pairing_status_for_layout: a poll of the window drops what has expired.
ShowStatus ==
    /\ layout.paired = NoOne
    /\ challenge # NoOne /\ challenge.expired
    /\ challenge' = NoOne
    /\ UNCHANGED <<trust, stream, reset, cert, server, asked, confirms, upsets, since, raced>>

-----------------------------------------------------------------------------
(* The stream handler: complete_pairing_from_confirm and what on_stream adds. *)
StreamTo(c, at) == stream' = [stream EXCEPT ![c].at = at]
Reply(c, a) == stream' = [stream EXCEPT ![c].at = "done", ![c].answer = a]

\* Under the lock of the challenge: a match uses it up, a wrong code counts.
CheckCode(c) ==
    /\ stream[c].at = "arrived" /\ ~stream[c].known
    /\ IF challenge # NoOne /\ challenge.from = c /\ challenge.cert = stream[c].cert
            /\ ~challenge.expired
       THEN IF challenge.code = stream[c].code
            THEN challenge' = NoOne /\ StreamTo(c, "matched")
            ELSE /\ Reply(c, "reject")
                 /\ challenge' = IF challenge.attempts + 1 >= MaxAttempts THEN NoOne
                                 ELSE [challenge EXCEPT !.attempts = @ + 1]
       ELSE /\ Reply(c, "reject")
            /\ challenge' = IF challenge # NoOne /\ challenge.expired THEN NoOne ELSE challenge
    /\ UNCHANGED <<trust, reset, cert, server, asked, confirms, upsets, since, raced>>

\* A pair-confirm over an authenticated connection is taken by no handler.
TurnAway(c) ==
    /\ stream[c].at = "arrived" /\ stream[c].known
    /\ Reply(c, "reject")
    /\ UNCHANGED <<challenge, trust, reset, cert, server, asked, confirms, upsets, since, raced>>

AnyWriter == reset.at \in {"disk", "registry"} \/ \E c \in Controllers : stream[c].at \in {"written", "replace"}

\* upsert_trusted_peer: one certificate per machine, other machines stay.
Upsert(T, c, k) == {p \in T : p[1] # c} \cup {<<c, k>>}

TakeTrust(c) ==
    /\ stream[c].at = "matched"
    /\ LET t == [paired |-> c, trusted |-> Upsert(layout.trusted, c, stream[c].cert)] IN
        /\ layout' = t
        /\ stream' = [stream EXCEPT ![c].at = "written", ![c].snapshot = t]
    /\ raced' = (raced \/ AnyWriter)
    /\ UNCHANGED <<challenge, saved, registry, reset, cert, server, asked, confirms, upsets, since>>

\* write_layout_to_disk with the snapshot, whatever the layout has become.
WriteTrust(c) ==
    /\ stream[c].at = "written"
    /\ saved' = stream[c].snapshot /\ StreamTo(c, "replace")
    /\ UNCHANGED <<challenge, layout, registry, reset, cert, server, asked, confirms, upsets, since, raced>>

WriteTrustFails(c) ==
    /\ stream[c].at = "written" /\ Upset
    /\ Reply(c, "reject") /\ raced' = TRUE
    /\ UNCHANGED <<challenge, trust, reset, cert, server, asked, confirms, since>>

\* Fault: the registry is left for the next start to load.
RegistryKept == registry

Renewed == layout.trusted

\* The registry takes what the layout holds now.
ReplaceTrust(c) ==
    /\ stream[c].at = "replace"
    /\ registry' = Renewed /\ Reply(c, "ok")
    /\ UNCHANGED <<challenge, layout, saved, reset, cert, server, asked, confirms, upsets, since, raced>>

-----------------------------------------------------------------------------
(* Commands of the client's window.                                          *)
Dismiss ==
    /\ Upset /\ challenge # NoOne /\ challenge' = NoOne
    /\ UNCHANGED <<trust, stream, reset, cert, server, asked, confirms, since, raced>>

\* Fault: the reset is not saved.
DiskKept == saved

DiskAfterReset == reset.snapshot

\* reset_pairing: layout, disk, registry and challenge, one after the other.
ResetTrust ==
    /\ Upset /\ reset.at = "none"
    /\ layout' = Nobody /\ reset' = [at |-> "disk", snapshot |-> Nobody]
    /\ since' = [c \in Controllers |-> TRUE] /\ raced' = (raced \/ AnyWriter)
    /\ UNCHANGED <<challenge, saved, registry, stream, cert, server, asked, confirms>>

ResetDisk ==
    /\ reset.at = "disk" /\ saved' = DiskAfterReset
    /\ reset' = [reset EXCEPT !.at = "registry"]
    /\ UNCHANGED <<challenge, layout, registry, stream, cert, server, asked, confirms, upsets, since, raced>>

\* The command ends with the error; registry and challenge stay as they are.
ResetDiskFails ==
    /\ reset.at = "disk"
    /\ reset' = [reset EXCEPT !.at = "none"] /\ raced' = TRUE
    /\ UNCHANGED <<challenge, trust, stream, cert, server, asked, confirms, upsets, since>>

ResetRegistry ==
    /\ reset.at = "registry" /\ registry' = reset.snapshot.trusted
    /\ reset' = [reset EXCEPT !.at = "challenge"]
    /\ since' = [c \in Controllers |-> TRUE]
    /\ UNCHANGED <<challenge, layout, saved, stream, cert, server, asked, confirms, upsets, raced>>

ResetChallenge ==
    /\ reset.at = "challenge" /\ challenge' = NoOne
    /\ reset' = [reset EXCEPT !.at = "none"]
    /\ UNCHANGED <<trust, stream, cert, server, asked, confirms, upsets, since, raced>>

StreamStep(c) == CheckCode(c) \/ TurnAway(c) \/ TakeTrust(c) \/ WriteTrust(c) \/ ReplaceTrust(c)
ResetStep == ResetDisk \/ ResetDiskFails \/ ResetRegistry \/ ResetChallenge

PairingNext ==
    \/ \E c \in Controllers :
        \/ Request(c) \/ GiveUp(c) \/ ReadAnswer(c) \/ Forget(c) \/ ProbePeer(c) \/ Reinstall(c)
        \/ HearRequest(c) \/ StreamStep(c) \/ WriteTrustFails(c)
        \/ \E code \in Codes : Confirm(c, code) \/ AnswerRequest(c, code)
    \/ Expire \/ ShowStatus \/ Dismiss \/ ResetTrust \/ ResetStep

PairingSpec == PairingInit /\ [][PairingNext]_pairingVars

-----------------------------------------------------------------------------
(* Properties.                                                               *)

\* The code on the screen belongs to the controller that asked first: another
\* one that asks neither gets the challenge nor disturbs it.
ChallengeKeepsOwner ==
    [][challenge # NoOne /\ challenge' # NoOne /\ challenge'.from # challenge.from
        => challenge.expired]_pairingVars

\* A controller that was told "paired" is authenticated from its next connection
\* on, unless the pairing was reset since.
PairedIsTrusted ==
    \A c \in Controllers :
        server[c].result = "paired" /\ ~since[c] => <<c, cert[c]>> \in registry

\* One certificate per machine: TrustedPeerRegistry::replace would refuse the
\* list otherwise and leave the old one in force.
OneCertificate ==
    \A T \in {layout.trusted, saved.trusted, registry} : \A p, q \in T : p[1] = q[1] => p = q

\* Memory, disk and registry agree whenever nobody is changing them, unless two
\* commands were at it at once or a write failed: a restart of the client brings
\* no trust back that was reset and forgets none.
RestartKeepsTrust ==
    ~raced /\ ~AnyWriter => saved = layout /\ registry = layout.trusted
=============================================================================
