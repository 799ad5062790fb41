------------------------------ MODULE Settings -------------------------------
(* The settings as three places hold them: the window, which shows a whole      *)
(* snapshot, edits it at once and sends it back whole; the running program; and *)
(* layout.json. Commands of the window run one at a time and in order; pairing  *)
(* and the tray act beside them.                                                *)
EXTENDS Naturals, Sequences

CONSTANTS
    Peers,        \* the controllers this machine may be paired with
    Conflicting,  \* the edits that give a key to a second function
    MaxEdits,     \* bound: edits of the user
    MaxCalls,     \* bound: calls the window has under way
    MaxActs,      \* bound: pairings, resets, roles chosen, toggles, windows opened and starts
    MaxFaults     \* bound: writes that fail and crashes

ASSUME SettingsBounds ==
    /\ {MaxEdits, MaxCalls, MaxActs, MaxFaults} \subseteq Nat
    /\ Conflicting \subseteq 1..MaxEdits

VARIABLES
    window,   \* "closed", "loading", or "open"
    shown,    \* the snapshot of the window: a layout, and whether the runtime runs
    drag,     \* the edit a drag has under way, or 0
    calls,    \* commands on their way to the program
    answers,  \* answers and events on their way to the window
    polled,   \* what the first half of a poll read
    alive,       \* the program runs
    memory,   \* its layout
    running,  \* its runtime is started
    read,     \* what the thread of the commands has read of the file and not yet merged, or Nothing
    storing,  \* the layout a pairing is about to write, or Nothing
    disk,     \* layout.json
    edits, acts, faults

view == <<window, shown, drag>>
settingsVars == <<view, calls, answers, polled, alive, memory, running, read, storing, disk, edits, acts, faults>>

Nothing == [role |-> "none"]
\* What a file cut short reads as.
Torn == [role |-> "torn"]

\* A layout is the edits it has in it, and what the program itself keeps in it.
DetectedLayout == [role |-> "unset", edits |-> {}, paired |-> {}, trusted |-> {}]

Readable == disk # Torn

\* normalize_saved_layout leaves what is modelled of a layout as it is.
Loaded == IF Readable THEN disk ELSE DetectedLayout

Snapshot == [layout |-> memory, started |-> running]

SettingsInit ==
    /\ window = "closed" /\ drag = 0 /\ calls = <<>> /\ answers = <<>> /\ polled = FALSE
    /\ \E role \in {"unset", "server", "client"}, some \in {{}} \cup {{p} : p \in Peers} :
          /\ some = {} \/ role = "client"
          /\ disk = [DetectedLayout EXCEPT !.role = role, !.paired = some, !.trusted = some]
    /\ memory = disk /\ shown = [layout |-> disk, started |-> TRUE]
    /\ alive = TRUE /\ running = TRUE /\ read = Nothing /\ storing = Nothing
    /\ edits = 0 /\ acts = 0 /\ faults = 0

-----------------------------------------------------------------------------
\* merge_runtime_owned_layout_fields: trust always stays the program's; the
\* paired controllers of a client do when it has any.
MergeOwned(incoming, current) ==
    [incoming EXCEPT
        !.trusted = current.trusted,
        !.paired = IF current.role = "client" /\ incoming.role = "client" /\ current.paired # {}
                   THEN current.paired ELSE @]

\* Fault: what is on the disk is taken as it is.
MergeDiskPlain(stored, current) == stored

\* merge_disk_layout_into_runtime
MergeDisk(stored, current) ==
    [stored EXCEPT
        !.paired = IF current.role = "client" /\ stored.role = "client" /\ stored.paired = {}
                   THEN current.paired ELSE @,
        !.trusted = IF stored.trusted = {} THEN current.trusted ELSE @]

\* validate_layout_shortcut_conflicts
Valid(layout) == layout.role = "server" => layout.edits \cap Conflicting = {}

-----------------------------------------------------------------------------
(* The window. *)
Ask(op, layout) == calls' = Append(calls, [op |-> op, layout |-> layout])
MayAsk == alive /\ window = "open" /\ Len(calls) + Len(answers) < MaxCalls

\* show_main_window_handle; the first load of App.tsx.
OpenWindow ==
    /\ alive /\ window = "closed" /\ acts < MaxActs /\ Len(calls) < MaxCalls
    /\ window' = "loading" /\ acts' = acts + 1
    /\ Ask("load", Nothing)
    /\ UNCHANGED <<shown, drag, answers, polled, alive, memory, running, read, storing, disk, edits, faults>>

\* destroy_main_window_handle: calls already sent are still carried out.
CloseWindow ==
    /\ alive /\ window # "closed"
    /\ window' = "closed" /\ drag' = 0 /\ answers' = <<>>
    /\ UNCHANGED <<shown, calls, polled, alive, memory, running, read, storing, disk, edits, acts, faults>>

Saves(layout) == Ask("save", layout)

WithEdit(layout, e) == [layout EXCEPT !.edits = @ \cup {e}]

\* updateLayout
Edit ==
    /\ MayAsk /\ edits < MaxEdits
    /\ edits' = edits + 1
    /\ shown' = [shown EXCEPT !.layout = WithEdit(@, edits')]
    /\ Saves(shown'.layout)
    /\ UNCHANGED <<window, drag, answers, polled, alive, memory, running, read, storing, disk, acts, faults>>

\* handleGlobalPointerMove shows the place and saves nothing; endDrag saves what is shown.
Drag ==
    /\ MayAsk /\ edits < MaxEdits /\ drag = 0
    /\ edits' = edits + 1 /\ drag' = edits'
    /\ shown' = [shown EXCEPT !.layout = WithEdit(@, edits')]
    /\ UNCHANGED <<window, calls, answers, polled, alive, memory, running, read, storing, disk, acts, faults>>

EndDrag ==
    /\ MayAsk /\ drag # 0
    /\ drag' = 0 /\ Saves(shown.layout)
    /\ UNCHANGED <<window, shown, answers, polled, alive, memory, running, read, storing, disk, edits, acts, faults>>

\* setMachineRole: the role is shown only when the answer is in.  Whether a client is
\* started then is settled now, by what is shown.
SetRole(role) ==
    /\ MayAsk /\ acts < MaxActs /\ role # shown.layout.role
    /\ acts' = acts + 1
    /\ Ask(IF role = "client" /\ ~shown.started THEN "client" ELSE "save",
           [shown.layout EXCEPT !.role = role])
    /\ UNCHANGED <<view, answers, polled, alive, memory, running, read, storing, disk, edits, faults>>

\* handleResetPairing, setRuntimeState
UseButton(op) ==
    /\ MayAsk /\ acts < MaxActs
    /\ acts' = acts + 1
    /\ Ask(op, Nothing)
    /\ UNCHANGED <<view, answers, polled, alive, memory, running, read, storing, disk, edits, faults>>

\* refreshRuntime, every 2 s: the state of the runtime, then everything.
Poll ==
    /\ MayAsk
    /\ \A i \in 1..Len(calls) : calls[i].op \notin {"status", "poll"}
    /\ \A i \in 1..Len(answers) : answers[i].op # "poll"
    /\ calls' = calls \o <<[op |-> "status", layout |-> Nothing], [op |-> "poll", layout |-> Nothing]>>
    /\ UNCHANGED <<view, answers, polled, alive, memory, running, read, storing, disk, edits, acts, faults>>

-----------------------------------------------------------------------------
(* The program: the command at the head of the queue. *)
Answer(op, ok, snap) ==
    /\ calls' = Tail(calls)
    /\ answers' = IF window = "closed" THEN answers
                  ELSE Append(answers, [op |-> op, ok |-> ok, snap |-> snap])

AtHead(ops) == alive /\ calls # <<>> /\ Head(calls).op \in ops

\* refresh_layout_from_disk reads the file first, perhaps while a pairing writes it.
ReadDisk ==
    /\ read = Nothing
    /\ AtHead({"load", "poll", "start"}) \/ (AtHead({"toggle"}) /\ ~running)
    /\ read' \in {disk} \cup (IF storing = Nothing THEN {} ELSE {Torn})
    /\ UNCHANGED <<view, calls, answers, polled, alive, memory, running, storing, disk, edits, acts, faults>>

\* Then it merges what it read into the layout of now.
Refreshed == IF read = Torn THEN memory ELSE MergeDisk(read, memory)

\* load_app_state: the disk is read again, then everything is told.
Load ==
    /\ AtHead({"load", "poll"}) /\ read # Nothing
    /\ memory' = Refreshed /\ read' = Nothing
    /\ Answer(Head(calls).op, TRUE,
              [layout |-> memory', started |-> IF Head(calls).op = "poll" THEN polled ELSE running])
    /\ UNCHANGED <<view, polled, alive, running, storing, disk, edits, acts, faults>>

\* read_runtime_status
Status ==
    /\ AtHead({"status"})
    /\ polled' = running /\ calls' = Tail(calls)
    /\ UNCHANGED <<view, answers, alive, memory, running, read, storing, disk, edits, acts, faults>>

\* A write that fails has emptied the file, or has not opened it.
WriteFails == faults < MaxFaults /\ faults' = faults + 1 /\ disk' \in {disk, Torn}
Writes(layout) == disk' = layout /\ UNCHANGED faults

\* save_layout: checked, merged, written and only then taken over; what comes after may
\* fail, the restart of the runtime or a shortcut.
SaveLayout ==
    /\ AtHead({"save", "client"})
    /\ LET op == Head(calls).op
           incoming == Head(calls).layout
           saved == MergeOwned(incoming, memory)
       IN \/ /\ Valid(incoming) /\ Valid(saved)
             /\ Writes(saved) /\ memory' = saved
             /\ \E ok \in BOOLEAN : Answer(op, ok, [layout |-> saved, started |-> running])
          \/ /\ Valid(incoming) /\ Valid(saved)
             /\ WriteFails /\ UNCHANGED memory
             /\ Answer(op, FALSE, Snapshot)
          \/ /\ ~(Valid(incoming) /\ Valid(saved))
             /\ UNCHANGED <<memory, disk, faults>>
             /\ Answer(op, FALSE, Snapshot)
    /\ UNCHANGED <<view, polled, alive, running, read, storing, edits, acts>>

ResetLayout(layout) == [layout EXCEPT !.paired = {}, !.trusted = {}]

\* reset_pairing: taken over first, then written; the restart may fail.
ResetPairing ==
    /\ AtHead({"reset"})
    /\ memory' = ResetLayout(memory)
    /\ \/ /\ Writes(memory')
          /\ \E ok \in BOOLEAN : Answer("reset", ok, [layout |-> memory', started |-> running])
       \/ WriteFails /\ Answer("reset", FALSE, Snapshot)
    /\ UNCHANGED <<view, polled, alive, running, read, storing, edits, acts>>

\* start_runtime merges the file first, stop_runtime does not and may fail; toggle_runtime
\* does either.  The window is told by an event too.
StartStop ==
    /\ AtHead({"start", "stop", "toggle"})
    /\ LET op == Head(calls).op
           starts == op \in (IF running THEN {"start"} ELSE {"start", "toggle"})
       IN /\ starts => read # Nothing
          /\ memory' = (IF starts THEN Refreshed ELSE memory) /\ read' = Nothing
          /\ \E ok \in {starts, TRUE} :
                /\ running' = (IF ok THEN starts ELSE running)
                /\ Answer(op, ok, [layout |-> memory', started |-> running'])
    /\ UNCHANGED <<view, polled, alive, storing, disk, edits, acts, faults>>

\* The tray or the quick key: toggle_runtime_from_app comes on the thread of the commands,
\* between any two of them.
Toggle ==
    /\ alive /\ acts < MaxActs /\ Len(answers) < MaxCalls /\ read = Nothing
    /\ acts' = acts + 1
    /\ calls' = <<[op |-> "toggle", layout |-> Nothing]>> \o calls
    /\ UNCHANGED <<view, answers, polled, alive, memory, running, read, storing, disk, edits, faults>>

\* complete_pairing_from_confirm, on the thread of the stream: taken over under
\* the lock, written after it.
Pair(p) ==
    /\ alive /\ acts < MaxActs /\ memory.role = "client" /\ storing = Nothing
    /\ acts' = acts + 1
    /\ memory' = [memory EXCEPT !.paired = {p}, !.trusted = @ \cup {p}]
    /\ storing' = memory'
    /\ UNCHANGED <<view, calls, answers, polled, alive, running, read, disk, edits, faults>>

PairingWrites ==
    /\ alive /\ storing # Nothing
    /\ Writes(storing) \/ WriteFails
    /\ storing' = Nothing
    /\ UNCHANGED <<view, calls, answers, polled, alive, memory, running, read, edits, acts>>

\* The program ends, with all that was under way; a write may have been cut short.
PowerLoss ==
    /\ alive /\ faults < MaxFaults
    /\ alive' = FALSE /\ faults' = faults + 1
    /\ window' = "closed" /\ drag' = 0 /\ calls' = <<>> /\ answers' = <<>>
    /\ read' = Nothing /\ storing' = Nothing
    /\ disk' \in {disk} \cup (IF storing # Nothing \/ AtHead({"save", "client", "reset"})
                              THEN {Torn} ELSE {})
    /\ UNCHANGED <<shown, polled, memory, running, edits, acts>>

\* AppRuntime::new, and the start before the window.
Start ==
    /\ ~alive
    /\ alive' = TRUE /\ memory' = Loaded /\ running' = TRUE
    /\ UNCHANGED <<view, calls, answers, polled, read, storing, disk, edits, acts, faults>>

-----------------------------------------------------------------------------
(* The window takes an answer. *)
\* Fault: an answer brings the runtime up to date only.
TakesRuntimeOnly(op) == {"load", "save", "client", "reset"}

TakesLayout(op) == {"load", "poll", "save", "client", "reset"}

\* A client that is not started is started: after the first load, and when that role was
\* chosen, whatever came of its save.
StartsClient(a) ==
    \/ a.op = "load" /\ a.snap.layout.role = "client" /\ ~a.snap.started
    \/ a.op = "client"

Receive ==
    /\ alive /\ answers # <<>>
    /\ LET a == Head(answers) IN
          /\ answers' = Tail(answers)
          /\ shown' = IF ~a.ok THEN shown
                      ELSE IF a.op \in TakesLayout(a.op) THEN a.snap
                      ELSE [shown EXCEPT !.started = a.snap.started]
          /\ window' = IF a.op = "load" THEN "open" ELSE window
          /\ IF StartsClient(a) THEN Ask("start", Nothing) ELSE UNCHANGED calls
    /\ UNCHANGED <<drag, polled, alive, memory, running, read, storing, disk, edits, acts, faults>>

Serve == ReadDisk \/ Load \/ Status \/ SaveLayout \/ ResetPairing \/ StartStop

SettingsNext ==
    \/ OpenWindow \/ CloseWindow \/ Edit \/ Drag \/ EndDrag \/ Poll \/ Receive
    \/ \E role \in {"server", "client"} : SetRole(role)
    \/ \E op \in {"reset", "start", "stop"} : UseButton(op)
    \/ Serve \/ Toggle \/ PairingWrites \/ PowerLoss \/ Start
    \/ \E p \in Peers : Pair(p)

\* The main thread takes commands as they come, the window its answers; the
\* timer of the poll goes on; the thread of a pairing is not stopped.
SettingsFairness ==
    /\ WF_settingsVars(Serve) /\ WF_settingsVars(Receive)
    /\ WF_settingsVars(Poll) /\ WF_settingsVars(PairingWrites)

SettingsSpec == SettingsInit /\ [][SettingsNext]_settingsVars /\ SettingsFairness

-----------------------------------------------------------------------------
(* Properties. *)

\* What the window shows, what the program works with and what the file holds
\* are eventually one, whatever edits, pairings, toggles and polls overtook
\* each other, as long as the window stays open and no write failed.
AllAgree ==
    <>[](window = "open" /\ drag = 0 /\ faults = 0 => shown = Snapshot /\ disk = memory)

\* A paired client stays paired: no save of an older snapshot, no reading of a
\* file that is behind and no start of the runtime takes its controllers away.
SavesKeepPairing ==
    memory.role = "client" /\ memory'.role = "client" /\ memory.paired # {} /\ alive
        => memory'.paired # {} \/ AtHead({"reset"})

\* No snapshot of the window changes whom the machine trusts.
TrustIsTheProgrammes ==
    AtHead({"save", "client"}) /\ Len(calls') < Len(calls) => memory'.trusted = memory.trusted

\* Snapshots that are behind take no pairing away and give no trust.
PairingIsKept == [][SavesKeepPairing /\ TrustIsTheProgrammes]_settingsVars

\* SOURCE_AUDIT.md: pairing and trust are the program's own and no copy of the
\* window is adopted. A controller the user has removed does not come back.
NoCopyAdopted == alive /\ storing = Nothing => memory.paired \subseteq memory.trusted
=============================================================================
