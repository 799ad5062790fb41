---------------------------- MODULE SingleInstance ----------------------------
(* How one process of the program keeps others from running and is told to show *)
(* its window or to quit. On Unix a socket in the temporary directory is the    *)
(* lock and the channel; on Windows a named mutex is the lock and named events  *)
(* are the channel. Every system call is a step of its own.                     *)
EXTENDS Naturals, FiniteSets

CONSTANTS
    Platforms,  \* "unix", "windows"
    Processes,  \* each is launched once
    NoProcess,  \* no file under the path of the socket
    MaxTries,   \* the 20 attempts to open an event
    MaxCrashes  \* bound: processes killed

ASSUME InstanceBounds ==
    /\ Platforms \subseteq {"unix", "windows"} /\ NoProcess \notin Processes
    /\ MaxTries \in Nat /\ MaxCrashes \in Nat

VARIABLES
    platform,
    pc,         \* where each process is
    autostarted,     \* processes launched by the autostart
    file,       \* whose socket lies under the path
    bound,  \* processes whose socket takes connections
    unlocked,   \* processes that run although they could not make the mutex
    inbox,      \* messages a process has not read yet
    signals,    \* named events that are set
    tries,      \* attempts of each process to open an event
    windows,    \* processes that show their window
    crashes,
    gone,       \* since the first of the processes starting now was launched, one has ended
    together    \* two processes have been starting at the same time

instanceVars == <<platform, pc, autostarted, file, bound, unlocked, inbox, signals, tries, windows,
                  crashes, gone, together>>
lockVars == <<file, bound, unlocked>>
channelVars == <<inbox, signals, tries>>
bookVars == <<platform, autostarted, crashes, together>>

StartingAt == {"bind", "probe", "remove", "rebind", "listen", "protect", "acquire"}
Starting == {p \in Processes : pc[p] \in StartingAt}
Owners == {p \in Processes : pc[p] \in {"owner", "serving", "quitting"}}
Holders == Owners \ unlocked

InstanceInit ==
    /\ platform \in Platforms
    /\ pc = [p \in Processes |-> "off"] /\ autostarted = {}
    /\ file = NoProcess /\ bound = {} /\ unlocked = {}
    /\ inbox = [p \in Processes |-> {}] /\ signals = {} /\ tries = [p \in Processes |-> 0]
    /\ windows = {} /\ crashes = 0 /\ gone = FALSE /\ together = FALSE

Enters(p, place) == pc' = [pc EXCEPT ![p] = place]

\* main: an attempt to become the one instance.
Launch(p) ==
    /\ pc[p] = "off"
    /\ Enters(p, IF platform = "unix" THEN "bind" ELSE "acquire")
    /\ autostarted' \in {autostarted, autostarted \cup {p}}
    /\ gone' = (gone /\ Starting # {}) /\ together' = (together \/ Starting # {})
    /\ UNCHANGED <<lockVars, channelVars, windows, platform, crashes>>

\* main --quit-existing: told once and over.
LaunchQuit(p) ==
    /\ pc[p] = "off"
    /\ Enters(p, "telling")
    /\ UNCHANGED <<lockVars, channelVars, windows, bookVars, gone>>

-----------------------------------------------------------------------------
(* Unix: bind_unix_instance, one system call at a time. *)
Reachable == file # NoProcess /\ file \in bound

Bind(p) ==
    /\ pc[p] = "bind"
    /\ IF file = NoProcess THEN file' = p /\ Enters(p, "listen") ELSE UNCHANGED file /\ Enters(p, "probe")
    /\ UNCHANGED <<bound, unlocked, channelVars, windows, bookVars, gone>>

StartListening(p) ==
    /\ pc[p] = "listen"
    /\ bound' = bound \cup {p} /\ Enters(p, "protect")
    /\ UNCHANGED <<file, unlocked, channelVars, windows, bookVars, gone>>

\* set_permissions fails when the path is gone: the socket is closed again.
Protect(p) ==
    /\ pc[p] = "protect"
    /\ IF file # NoProcess THEN Enters(p, "owner") /\ UNCHANGED bound
       ELSE Enters(p, "second") /\ bound' = bound \ {p}
    /\ UNCHANGED <<file, unlocked, channelVars, windows, bookVars, gone>>

\* Fault: a name that is taken is taken for a stale one.
AfterProbeStale == "remove"

\* A connection tells a running instance from a socket that was left behind.
AfterProbe == IF Reachable THEN "second" ELSE "remove"

Probe(p) ==
    /\ pc[p] = "probe"
    /\ Enters(p, AfterProbe)
    /\ UNCHANGED <<lockVars, channelVars, windows, bookVars, gone>>

Unlink(p) ==
    /\ pc[p] = "remove"
    /\ file' = NoProcess
    /\ Enters(p, IF file = NoProcess THEN "second" ELSE "rebind")
    /\ UNCHANGED <<bound, unlocked, channelVars, windows, bookVars, gone>>

Rebind(p) ==
    /\ pc[p] = "rebind"
    /\ IF file = NoProcess THEN file' = p /\ Enters(p, "listen") ELSE UNCHANGED file /\ Enters(p, "second")
    /\ UNCHANGED <<bound, unlocked, channelVars, windows, bookVars, gone>>

-----------------------------------------------------------------------------
(* Windows: CreateMutexW. *)
Acquire(p) ==
    /\ pc[p] = "acquire"
    /\ Enters(p, IF Holders = {} THEN "owner" ELSE "second")
    /\ UNCHANGED <<lockVars, channelVars, windows, bookVars, gone>>

\* A mutex that cannot be made keeps nobody from running.
AcquireNothing(p) ==
    /\ pc[p] = "acquire"
    /\ Enters(p, "owner") /\ unlocked' = unlocked \cup {p}
    /\ UNCHANGED <<file, bound, channelVars, windows, bookVars, gone>>

-----------------------------------------------------------------------------
(* The messages of a second process. *)
Message(p) == IF pc[p] = "telling" THEN "quit" ELSE "activate"
Told(p) == IF pc[p] = "telling" THEN "told" ELSE "done"

\* signal_unix_instance: the connection waits for the listener to read it.
TellUnix(p) ==
    /\ platform = "unix" /\ pc[p] \in {"second", "telling"}
    /\ inbox' = IF Reachable THEN [inbox EXCEPT ![file] = @ \cup {Message(p)}] ELSE inbox
    /\ Enters(p, Told(p))
    /\ UNCHANGED <<lockVars, signals, tries, windows, bookVars, gone>>

\* An event lives as long as a process that has it open.
EventExists == \E q \in Processes : pc[q] \in {"serving", "quitting", "leaving"}

\* signal_named_instance_event: twenty attempts, 50 ms apart.
TellWindows(p) ==
    /\ platform = "windows" /\ pc[p] \in {"second", "telling"}
    /\ IF EventExists
       THEN signals' = signals \cup {Message(p)} /\ Enters(p, Told(p)) /\ UNCHANGED tries
       ELSE /\ tries' = [tries EXCEPT ![p] = @ + 1] /\ UNCHANGED signals
            /\ Enters(p, IF tries'[p] = MaxTries THEN Told(p) ELSE pc[p])
    /\ UNCHANGED <<lockVars, inbox, windows, bookVars, gone>>

-----------------------------------------------------------------------------
(* The instance. *)
\* run: the setup ends with the thread of the channel and with the window,
\* which an autostart leaves hidden.
Setup(p) ==
    /\ pc[p] = "owner"
    /\ Enters(p, "serving")
    /\ windows' = IF p \in autostarted THEN windows ELSE windows \cup {p}
    /\ UNCHANGED <<lockVars, channelVars, bookVars, gone>>

HasMessage(p, m) == m \in inbox[p] \/ (platform = "windows" /\ m \in signals)
Consumed(p, m) ==
    /\ inbox' = [inbox EXCEPT ![p] = @ \ {m}]
    /\ signals' = signals \ {m} /\ UNCHANGED tries

\* show_main_window_handle
ShownFor(p) == windows \cup {p}

\* setup_single_instance_events, spawn_instance_event_listener
Activated(p) ==
    /\ pc[p] \in {"serving", "leaving"} /\ HasMessage(p, "activate")
    /\ Consumed(p, "activate")
    /\ windows' = IF pc[p] = "serving" THEN ShownFor(p) ELSE windows
    /\ UNCHANGED <<pc, lockVars, bookVars, gone>>

ToldToQuit(p) ==
    /\ pc[p] = "serving" /\ HasMessage(p, "quit")
    /\ Consumed(p, "quit") /\ Enters(p, "quitting")
    /\ UNCHANGED <<lockVars, windows, bookVars, gone>>

\* The menu of the tray: hide, quit. Closing the window hides it.
Hide(p) ==
    /\ pc[p] = "serving" /\ p \in windows
    /\ windows' = windows \ {p}
    /\ UNCHANGED <<pc, lockVars, channelVars, bookVars, gone>>

Quit(p) ==
    /\ pc[p] = "serving"
    /\ Enters(p, "quitting")
    /\ UNCHANGED <<lockVars, channelVars, windows, bookVars, gone>>

\* release_single_instance: the path goes, whoever it belongs to.
RemoveSocket(p) ==
    /\ pc[p] = "quitting"
    /\ Enters(p, "leaving") /\ gone' = TRUE
    /\ file' = NoProcess
    /\ UNCHANGED <<bound, unlocked, channelVars, windows, bookVars>>

EndsProcess(p) ==
    /\ Enters(p, "done") /\ gone' = TRUE
    /\ bound' = bound \ {p} /\ windows' = windows \ {p}
    /\ inbox' = [inbox EXCEPT ![p] = {}]
    /\ signals' = IF \E q \in Processes \ {p} : pc[q] \in {"serving", "quitting", "leaving"}
                  THEN signals ELSE {}
    /\ UNCHANGED <<file, unlocked, tries, platform, autostarted, together>>

Exit(p) == pc[p] = "leaving" /\ EndsProcess(p) /\ UNCHANGED crashes

\* A process that is killed leaves its socket under the path.
Killed(p) ==
    /\ pc[p] \notin {"off", "done"} /\ crashes < MaxCrashes
    /\ crashes' = crashes + 1 /\ EndsProcess(p)

Steps(p) ==
    \/ Bind(p) \/ StartListening(p) \/ Protect(p) \/ Probe(p) \/ Unlink(p) \/ Rebind(p)
    \/ Acquire(p) \/ AcquireNothing(p)
    \/ TellUnix(p) \/ TellWindows(p) \/ Setup(p) \/ Activated(p) \/ ToldToQuit(p)
    \/ RemoveSocket(p) \/ Exit(p)

InstanceNext ==
    \E p \in Processes : Launch(p) \/ LaunchQuit(p) \/ Steps(p) \/ Hide(p) \/ Quit(p) \/ Killed(p)

InstanceSpec == InstanceInit /\ [][InstanceNext]_instanceVars

-----------------------------------------------------------------------------
(* Properties. *)

Running == {p \in Processes : pc[p] \in {"owner", "serving"}}

\* A second process ends before it runs anything of its own (T17, A41).  It does not:
\* see the runs that find this violated.
OneInstance == Cardinality(Running) <= 1

\* Processes that are launched one after the other never run side by side,
\* whatever sockets were left behind and however slowly an instance ends, unless
\* one of them could not make its mutex (bind_unix_instance, acquire_single_instance).
OneAfterTheOther == ~together => Cardinality(Running \ unlocked) <= 1

\* A start is never in vain: once nobody is on the way any more, an instance runs,
\* whatever lock was left behind, unless an instance ended since the start.
AtRest == \A p \in Processes : pc[p] \in {"off", "told", "done", "serving"}
StartRuns ==
    AtRest /\ (\E p \in Processes : pc[p] = "done")
        => gone \/ \E q \in Processes : pc[q] = "serving"

\* An activation is not lost: when it is taken up, by whichever instance and
\* however long after it was sent, a window is shown, unless an instance is ending.
Activations == {p \in Processes : "activate" \in inbox[p]}
               \cup {p \in {NoProcess} : "activate" \in signals}
WindowShown ==
    Activations' \subseteq Activations /\ Activations' # Activations
        => windows' # {} \/ gone' \/ \E p \in Processes : pc[p] = "leaving"

\* What a launch promises: one instance for each lock, and its window.
LaunchesAct == [][OneAfterTheOther' /\ StartRuns' /\ WindowShown]_instanceVars
=============================================================================
