------------------------------ MODULE Presence -------------------------------
(* LAN discovery as one machine runs it: the datagrams of the others, the table *)
(* of peers heard lately, and the device rows and paired controllers that are   *)
(* brought up to date from it. A tick is the announcement interval; a datagram  *)
(* arrives when it is sent or is lost, unless a scan keeps it for later.        *)
EXTENDS Naturals, FiniteSets, SequencesExt

CONSTANTS
    Machines,     \* the other machines
    Strangers,    \* those of them that belong to another cluster
    Addresses,    \* IP addresses
    HomeOf(_),    \* the address a machine starts with
    Reuse,        \* whether DHCP may hand out an address that another machine has left
    Ttl,          \* PEER_TTL_MS, in ticks
    UpgradeGrace, \* the 120 s a machine may be away for an upgrade, in ticks
    MaxPeers,     \* MAX_DISCOVERY_PEERS
    MaxEvents     \* bound: new addresses and keys, stops, upgrades, scans and held-up copies together

ASSUME PresenceBounds ==
    /\ Strangers \subseteq Machines /\ Reuse \in BOOLEAN
    /\ {Ttl, UpgradeGrace, MaxPeers} \subseteq Nat \ {0} /\ MaxEvents \in Nat
    /\ \A m \in Machines : HomeOf(m) \in Addresses /\ \A n \in Machines : HomeOf(m) = HomeOf(n) => m = n
    /\ Machines \cap Addresses = {}  \* a host name is not an address

VARIABLES
    address,     \* the address of each machine
    leases,      \* which machine has had which address
    keyNo,       \* which transport key each machine has
    present,     \* the machines that run
    upgrading,   \* the machines that say they are being upgraded
    events,      \* what has happened so far
    peers,       \* the table, in its order
    found,       \* what a scan has gathered: nothing, or a table of its own
    copy,        \* the copy of the table that a command holds between its two locks
    row,         \* the device row of each machine of the cluster
    controller,  \* what is stored of it as a paired controller
    listening,   \* discovery threads: the running one and one that was told to stop
    swept,       \* presence was brought up to date in this tick
    silent       \* history: ticks since a machine of the cluster was last heard

machineVars == <<address, leases, keyNo, present, upgrading>>
presenceVars == <<machineVars, events, peers, found, copy, row, controller, listening, swept, silent>>

Ours == Machines \ Strangers
AnnouncedKey(m) == <<m, keyNo[m]>>
\* local_peer_id: made of the host name and the address.
IdOf(m) == <<m, address[m]>>

Packet(m) ==
    [id |-> IdOf(m), host |-> m, ip |-> address[m], key |-> AnnouncedKey(m),
     upgrading |-> m \in upgrading, age |-> 0]

PresenceInit ==
    /\ address = [m \in Machines |-> HomeOf(m)] /\ leases = {<<m, address[m]>> : m \in Machines}
    /\ keyNo = [m \in Machines |-> 0]
    /\ present = Machines /\ upgrading = {} /\ events = 0
    /\ peers = <<>> /\ found = <<>> /\ copy = [held |-> FALSE, table |-> <<>>]
    /\ row = [m \in Ours |-> [id |-> IdOf(m), host |-> address[m], key |-> AnnouncedKey(m), online |-> FALSE,
                              upgrading |-> FALSE, grace |-> 0]]
    /\ controller = [m \in Ours |-> [id |-> IdOf(m), host |-> address[m], key |-> AnnouncedKey(m)]]
    /\ listening = [on |-> FALSE, draining |-> FALSE, scanning |-> FALSE]
    /\ swept = TRUE /\ silent = [m \in Ours |-> Ttl]

-----------------------------------------------------------------------------
Prune(table) ==
    LET live[i \in 0..Len(table)] ==
            IF i = 0 THEN <<>>
            ELSE IF table[i].age <= Ttl THEN Append(live[i - 1], table[i]) ELSE live[i - 1]
    IN live[Len(table)]

\* swap_remove: the last entry takes the place of the removed one.
SwapRemove(table, i) ==
    LET n == Len(table) IN [j \in 1..(n - 1) |-> IF j = i THEN table[n] ELSE table[j]]

\* min_by_key: the first of the oldest entries.
Oldest(table) ==
    CHOOSE i \in 1..Len(table) :
        \A j \in 1..Len(table) :
            table[j].age < table[i].age \/ (table[j].age = table[i].age /\ i <= j)

Merge(table, p) ==
    LET live == Prune(table)
        i == SelectInSeq(live, LAMBDA q : q.id = p.id)
    IN IF i # 0 THEN [live EXCEPT ![i] = p]
       ELSE Append(IF Len(live) < MaxPeers THEN live ELSE SwapRemove(live, Oldest(live)), p)

MergeAll(table, gathered) ==
    LET merged[i \in 0..Len(gathered)] == IF i = 0 THEN table ELSE Merge(merged[i - 1], gathered[i])
    IN merged[Len(gathered)]

Visible(p) == p.host \notin Strangers

-----------------------------------------------------------------------------
(* Bringing the rows up to date. *)
\* Fault: a machine of the cluster is matched whatever its address.
SameClusterHostAny(d, p) == p.host \notin Strangers

SameClusterHost(d, p) == p.host \notin Strangers /\ d.host \in {p.host, p.ip}

\* Fault: a new address makes another machine of it.
DeviceMatchesPlace(d, p) == d.id = p.id \/ SameClusterHost(d, p)

DeviceMatches(d, p) == d.id = p.id \/ d.key = p.key \/ SameClusterHost(d, p)

Unheard(d) ==
    [d EXCEPT !.online = FALSE, !.upgrading = d.upgrading /\ d.grace > 0]

Updated(d, p) ==
    [d EXCEPT !.online = TRUE, !.host = p.ip, !.key = p.key, !.upgrading = p.upgrading,
              !.grace = IF p.upgrading /\ ~d.upgrading THEN UpgradeGrace ELSE @]

DevicePresence(d, table) ==
    LET i == SelectInSeq(table, LAMBDA p : DeviceMatches(d, p))
    IN IF i = 0 THEN Unheard(d) ELSE Updated(d, table[i])

\* refresh_paired_controller_keys: also by name and by address, and the id moves too.
ControllerPresence(c, table) ==
    LET i == SelectInSeq(table, LAMBDA p : c.id = p.id \/ c.key = p.key \/ c.id[1] = p.host \/ c.host = p.ip)
    IN IF i = 0 THEN c ELSE [c EXCEPT !.key = table[i].key, !.id = table[i].id, !.host = table[i].ip]

\* apply_peer_presence, under the lock of the layout.
Apply(live) ==
    /\ row' = [m \in Ours |-> DevicePresence(row[m], live)]
    /\ controller' = [m \in Ours |-> ControllerPresence(controller[m], live)]

\* sync_layout_peer_presence, when nobody comes between its two locks.
Sync(table) ==
    \E merged \in {table} : \E live \in {Prune(merged)} :
        peers' = live /\ swept' = TRUE /\ Apply(live)

-----------------------------------------------------------------------------
(* The other machines. *)
Happens == events < MaxEvents /\ events' = events + 1

Moves(m) ==
    /\ Happens
    /\ \E a \in Addresses :
         /\ \A n \in Machines : address[n] # a /\ (Reuse \/ n = m \/ <<n, a>> \notin leases)
         /\ address' = [address EXCEPT ![m] = a] /\ leases' = leases \cup {<<m, a>>}
    /\ UNCHANGED <<keyNo, present, upgrading>>

Rotate(m) == Happens /\ keyNo' = [keyNo EXCEPT ![m] = @ + 1] /\ UNCHANGED <<address, leases, present, upgrading>>

Down(m) == m \in present /\ Happens /\ present' = present \ {m} /\ UNCHANGED <<address, leases, keyNo, upgrading>>

\* A new process is not upgrading.
Boot(m) ==
    /\ m \notin present /\ present' = present \cup {m} /\ upgrading' = upgrading \ {m}
    /\ UNCHANGED <<address, leases, keyNo, events>>

\* set_app_upgrading.
SetUpgrading(m) ==
    /\ m \in present
    /\ \/ m \notin upgrading /\ Happens /\ upgrading' = upgrading \cup {m}
       \/ m \in upgrading /\ upgrading' = upgrading \ {m} /\ UNCHANGED events
    /\ UNCHANGED <<address, leases, keyNo, present>>

MachineStep ==
    /\ \E m \in Machines : Moves(m) \/ Rotate(m) \/ Down(m) \/ Boot(m) \/ SetUpgrading(m)
    /\ UNCHANGED <<peers, found, copy, row, controller, listening, swept, silent>>

-----------------------------------------------------------------------------
(* The discovery thread and the commands. *)
HeardFrom(m) == [n \in Ours |-> IF n = m THEN 0 ELSE silent[n]]

\* start_discovery: one thread at a time, but not before the one told to stop has gone.
StartDiscovery ==
    /\ ~listening.on /\ listening' = [listening EXCEPT !.on = TRUE] /\ Sync(peers)
    /\ UNCHANGED <<machineVars, events, found, copy, silent>>

StopDiscovery ==
    /\ listening.on /\ ~listening.draining /\ Happens
    /\ listening' = [listening EXCEPT !.on = FALSE, !.draining = TRUE]
    /\ UNCHANGED <<machineVars, peers, found, copy, row, controller, swept, silent>>

\* One turn of the loop with an announcement or an answer, or a probe answered: merge, prune,
\* bring the rows up to date.
Heard(m) ==
    /\ m \in present /\ silent' = HeardFrom(m)
    /\ (listening.on \/ listening.draining)
    /\ Sync(IF Visible(Packet(m)) THEN Merge(peers, Packet(m)) ELSE peers)
    /\ UNCHANGED <<machineVars, events, found, copy, listening>>

\* One turn without a datagram, the last one of a stopped thread, or a snapshot for the UI.
Sweep ==
    /\ (~swept \/ listening.draining) /\ Sync(peers)
    /\ listening' = [listening EXCEPT !.draining = FALSE]
    /\ UNCHANGED <<machineVars, events, found, copy, silent>>

\* scan_lan_peers gathers for 1.4 s and merges afterwards what it gathered.
ScanBegins ==
    /\ listening.on /\ ~listening.scanning /\ Happens /\ listening' = [listening EXCEPT !.scanning = TRUE]
    /\ UNCHANGED <<machineVars, peers, found, copy, row, controller, swept, silent>>

ScanHears(m) ==
    /\ listening.scanning /\ m \in present \cap Ours
    /\ found' = Merge(found, Packet(m)) /\ silent' = HeardFrom(m)
    /\ UNCHANGED <<machineVars, events, peers, copy, row, controller, listening, swept>>

ScanEnds ==
    /\ listening.scanning /\ Sync(MergeAll(peers, found))
    /\ found' = <<>> /\ listening' = [listening EXCEPT !.scanning = FALSE]
    /\ UNCHANGED <<machineVars, events, copy, silent>>

\* A thread copies the table and is overtaken before it locks the layout: the rows may be
\* brought up to date from a newer table first.
TakeCopy ==
    /\ ~copy.held /\ Happens
    /\ peers' = Prune(peers) /\ copy' = [held |-> TRUE, table |-> peers']
    /\ UNCHANGED <<machineVars, found, row, controller, listening, swept, silent>>

UseCopy ==
    /\ copy.held /\ Apply(copy.table) /\ copy' = [held |-> FALSE, table |-> <<>>]
    /\ UNCHANGED <<machineVars, events, peers, found, listening, swept, silent>>

\* Everything sent in a tick has arrived or is lost, the loop has turned, and no copy is
\* held for longer.
Tick ==
    /\ ~listening.scanning /\ ~copy.held /\ (listening.on => swept)
    /\ peers' = [i \in 1..Len(peers) |-> [peers[i] EXCEPT !.age = IF @ > Ttl THEN @ ELSE @ + 1]]
    /\ row' = [m \in Ours |-> [row[m] EXCEPT !.grace = IF @ = 0 THEN 0 ELSE @ - 1]]
    /\ silent' = [m \in Ours |-> IF silent[m] > Ttl + 1 THEN silent[m] ELSE silent[m] + 1]
    /\ swept' = FALSE
    /\ UNCHANGED <<machineVars, events, found, copy, controller, listening>>

PresenceNext ==
    \/ MachineStep
    \/ \E m \in Machines : Heard(m) \/ ScanHears(m)
    \/ StartDiscovery \/ StopDiscovery \/ Sweep \/ ScanBegins \/ ScanEnds \/ TakeCopy \/ UseCopy \/ Tick

\* In each tick the loop sweeps once and a scan ends at most once; copies are bounded.
Turn == Sweep \/ ScanEnds \/ UseCopy \/ Tick

\* The loop turns, scans end, time passes, and of what a machine that keeps running sends
\* some arrives.
PresenceFairness ==
    /\ WF_presenceVars(Turn)
    /\ \A m \in Ours : WF_presenceVars(Heard(m))

PresenceSpec == PresenceInit /\ [][PresenceNext]_presenceVars /\ PresenceFairness

-----------------------------------------------------------------------------
(* Properties. *)

(* While discovery runs, a row is shown online only if its machine has been     *)
(* heard from within the time to live, however its datagrams, the sweeps and    *)
(* the merged results of a scan were ordered.                                    *)
OnlineIsRecent ==
    listening.on => \A m \in Ours : row[m].online => \E n \in Ours : row[m].key[1] = n /\ silent[n] <= Ttl + 1

(* A row and a paired controller keep to their own machine: the transport key   *)
(* they hold, by which input is sent and accepted, is one that machine has had.  *)
KeepsToMachine == \A m \in Ours : row[m].key[1] = m /\ controller[m].key[1] = m

(* What a row shows is true of the machine it stands for.                        *)
RowsAreTrue == OnlineIsRecent /\ KeepsToMachine

(* A machine that stays up and is still recognised by its id, its key or its     *)
(* address is shown online at the address it has whenever enough of what it says *)
(* arrives: entries it left under other addresses do not keep it out for ever.    *)
Rediscovered ==
    \A m \in Ours :
        (<>[](listening.on /\ m \in present) /\ []<>(row[m].key = AnnouncedKey(m) \/ row[m].host = address[m]))
            => []<>(row[m].online /\ row[m].host = address[m] /\ row[m].key = AnnouncedKey(m))

(* A machine that is gone is shown offline, and the mark that it is being        *)
(* upgraded comes off even when it never returns.                                 *)
GoneIsShown ==
    \A m \in Ours :
        <>[](listening.on /\ m \notin present) => <>[](~row[m].online /\ ~row[m].upgrading)

(* Whoever comes or goes, the rows follow.                                        *)
RowsSettle == Rediscovered /\ GoneIsShown
=============================================================================
