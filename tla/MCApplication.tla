---------------------------- MODULE MCApplication -----------------------------
(* Presence and settings share no state in these models: one behaviour runs one *)
(* of them, chosen at the start.                                                *)
EXTENDS Presence, Settings

VARIABLE part

allVars == <<presenceVars, settingsVars, part>>

(* Presence: three machines, one of them a stranger. *)
MCHome(m) == CASE m = "mac" -> "a1" [] m = "mini" -> "a2" [] OTHER -> "a3"

MCInit ==
    /\ part \in {"presence", "settings"}
    /\ PresenceInit /\ SettingsInit
    /\ part # "settings" => disk.role = "unset"

MCNext ==
    \/ part = "presence" /\ PresenceNext /\ UNCHANGED <<settingsVars, part>>
    \/ part = "settings" /\ SettingsNext /\ UNCHANGED <<presenceVars, part>>

(* PresenceFairness, for the part that runs: its clock would tick in any other.  *)
(* No fair step of the settings is enabled where they were not chosen.           *)
MCPresenceFairness ==
    /\ WF_presenceVars(part = "presence" /\ Turn)
    /\ \A m \in Ours : WF_presenceVars(part = "presence" /\ Heard(m))

MCSpec ==
    /\ MCInit /\ [][MCNext]_allVars
    /\ MCPresenceFairness /\ SettingsFairness
=============================================================================
