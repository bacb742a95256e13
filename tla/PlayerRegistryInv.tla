------------------------- MODULE PlayerRegistryInv -------------------------
(***************************************************************************)
(* The inductive invariants of PlayerRegistry.  OrphanInv and ChildrenInv  *)
(* hold whatever the clients do; ExclusiveInv and DialInv hold when nobody *)
(* resets a server that is in use.  TLC checks them on the instances of    *)
(* MCPlayerRegistry; PlayerRegistry_proofs and RegistryExclusive_proofs    *)
(* prove them for every value of the constants.                            *)
(***************************************************************************)
EXTENDS PlayerRegistry

StartupLocked  == {"spawn_lair", "lair_ready", "spawn_shim", "shim_ready",
                   "spawn_holochain"}
LairLabels     == StartupLocked \ {"spawn_lair"}
KillLabels     == {"wait_holochain", "wait_lair"}
ShutdownLabels == {"shutdown_check", "shutdown_get", "shutdown_lock"}
ResetLabels    == {"reset_take", "reset_kill"}

Killing(c, op) == pc[c] \in KillLabels /\ req[c].op = op

\* The lock discipline: which steps hold which guard.
HoldsLock(c) == pc[c] \in StartupLocked \/ Killing(c, "shutdown")
HoldsRead(c) == HoldsLock(c) \/ pc[c] \in {"startup_lock", "shutdown_lock"}

GuardsOf(c) ==
    /\ c \in readers <=> HoldsRead(c)
    /\ HoldsRead(c) => Id(c) \in players
    /\ HoldsLock(c) => processes_lock[Id(c)] = c

\* What the local variables of a handler hold at its steps.
FrameOf(c) ==
    /\ pc[c] \notin ResetLabels \cup {"idle"} =>
          Id(c) \in Ids \/ Killing(c, "reset")
    /\ pc[c] \in ShutdownLabels => req[c].op = "shutdown"
    /\ pc[c] \in ResetLabels => req[c].op = "reset"
    /\ pc[c] \in KillLabels => req[c].op \in {"shutdown", "reset"}
    /\ pc[c] \in LairLabels => frame[c].lair # None
    /\ pc[c] \in KillLabels <=> frame[c].victim # None
    /\ frame[c].taken # {} => pc[c] = "reset_kill" \/ Killing(c, "reset")

\* How the player's cell and the processes go with the steps of a handler.
CellOf(c) ==
    /\ pc[c] \in StartupLocked => processes[Id(c)] = None
    /\ Killing(c, "shutdown") => processes[Id(c)] = frame[c].victim
    /\ pc[c] = "wait_lair" => status[frame[c].victim.holochain] = "reaped"

GuardsInv == \A c \in Clients : GuardsOf(c)
FramesInv == \A c \in Clients : FrameOf(c)
CellsInv  == \A c \in Clients : CellOf(c)

\* Only a registered player has processes; a process that was spawned has a
\* player, and the ids from next_pid on are still to be spawned.
RegisteredInv == \A i \in Ids : processes[i] # None => i \in players

SpawnedInv ==
    \A p \in Pids :
        /\ status[p] = "unborn" <=> p >= next_pid
        /\ kind[p] # None => p < next_pid /\ owner[p] \in Ids

\* NoOrphanConductor, with the cell of any player: RegisteredInv says that
\* only registered players have a pair.
AnyHeld == ({processes[i] : i \in Ids} \cup {frame[c].victim : c \in Clients}
               \cup UNION {frame[c].taken : c \in Clients}) \ {None}

HeldInv ==
    \A p \in Pids : kind[p] = "holochain" /\ Unreaped(p) =>
        \E pair \in AnyHeld : pair.holochain = p

OrphanInv ==
    /\ TypeOK
    /\ GuardsInv /\ FramesInv /\ CellsInv /\ RegisteredInv /\ SpawnedInv
    /\ HeldInv

\* What a reset in progress holds: no other handler and no cell does.
Grip(c) == IF req[c].op = "reset"
           THEN frame[c].taken \cup ({frame[c].victim} \ {None}) ELSE {}

Holds(pair, p) == pair # None /\ p \in {pair.lair, pair.holochain}

\* A player's Mutex is held by a handler at work on that player.
LocksInv ==
    \A i \in Ids : processes_lock[i] # None =>
        HoldsLock(processes_lock[i]) /\ Id(processes_lock[i]) = i

\* The processes of a pair run the right programs.
PairsInv ==
    \A pair \in AnyHeld :
        kind[pair.lair] = "lair" /\ kind[pair.holochain] = "holochain"

\* Every process id is held in at most one place: by the cell of one player,
\* or by one pair that one reset has taken.
OnceInv ==
    /\ \A p \in Pids :
          /\ \A i, j \in Ids :
                Holds(processes[i], p) /\ Holds(processes[j], p) => i = j
          /\ \A c, d \in Clients : \A a \in Grip(c), b \in Grip(d) :
                Holds(a, p) /\ Holds(b, p) => a = b /\ c = d
          /\ \A c \in Clients : \A a \in Grip(c) : Holds(a, p) =>
                \A i \in Ids : ~Holds(processes[i], p)
    /\ \A c \in Clients : frame[c].victim \notin frame[c].taken

\* The lair of a startup in progress runs and belongs to no pair yet.
LairsInv ==
    \A c \in Clients : pc[c] \in LairLabels =>
        /\ kind[frame[c].lair] = "lair"
        /\ Unreaped(frame[c].lair)
        /\ \A pair \in AnyHeld : pair.lair # frame[c].lair
        /\ \A d \in Clients :
              pc[d] \in LairLabels /\ frame[d].lair = frame[c].lair => c = d

ChildrenInv ==
    OrphanInv /\ LocksInv /\ PairsInv /\ OnceInv /\ LairsInv /\ SignalsOwnChildren

-----------------------------------------------------------------------------
(* With ExclusiveReset: nobody resets a server that is in use *)

\* A reset in progress is alone.
AloneInv ==
    \A c \in Clients : Busy(c) /\ req[c].op = "reset" =>
        \A d \in Clients \ {c} : ~Busy(d)

\* Requests to stop something are only ever at the steps that do it.
StopInv ==
    \A c \in Clients : Busy(c) /\ req[c].op \in {"shutdown", "reset"} =>
        pc[c] \in ShutdownLabels \cup ResetLabels \cup KillLabels

\* A reset has emptied the map and is killing what it took.
ResetKills(c) == pc[c] = "reset_kill" \/ Killing(c, "reset")
Resetting     == \E c \in Clients : ResetKills(c)

Conductor(p) == kind[p] = "holochain" /\ Unreaped(p)

\* Outside of a reset the conductor of a player is the one in its cell.
ConductorsInv ==
    /\ Resetting => players = {} /\ config_files = {}
    /\ ~Resetting => \A p \in Pids : Conductor(p) =>
          processes[owner[p]] # None /\ processes[owner[p]].holochain = p
    /\ \A p, q \in Pids :
          Conductor(p) /\ Conductor(q) /\ owner[p] = owner[q] => p = q

\* A handler that writes the configuration of a player has inserted it, and
\* only files that exist are written.
FilesInv ==
    /\ ConfigMatchesRegistry
    /\ \A c \in Clients : pc[c] \in {"create_config", "write_config"} =>
          Id(c) \in players /\ admin_port[Id(c)] = frame[c].port
    /\ \A i \in Ids : i \notin config_files => config_port[i] = None
    /\ \A c \in attached : pc[c] = "write_config" /\ Id(c) \in config_files

ExclusiveInv ==
    OrphanInv /\ AloneInv /\ StopInv /\ ConductorsInv /\ FilesInv

\* The ports of the server suffice for the requests, and a reset that clears
\* the port counter clears the players too: remove_dir_all does not fail.
PortsSuffice == FirstPort + MaxRequests < PortSpace
CleanReset   == ExclusiveReset /\ "remove_dir" \notin Faults

\* The requests that have still to take a port: the counter stays below the
\* first port plus the requests that could have taken one, so it cannot wrap
\* before MaxRequests of them have.
Unfetched == {c \in Clients :
                 pc[c] \in {"create_dir", "config_exists", "load_port", "fetch_port"}}

CounterInv ==
    /\ IsFiniteSet(Unfetched)
    /\ next_admin_port + Cardinality(Unfetched) <= FirstPort + issued

\* The ports below the counter are taken once each.
Taken(port) == port \in FirstPort .. (next_admin_port - 1)

PortsInv ==
    /\ FirstPort <= next_admin_port
    /\ \A i \in players : Taken(admin_port[i])
    /\ \A c \in Clients : pc[c] = "insert" =>
          /\ Taken(frame[c].port)
          /\ \A i \in players : admin_port[i] # frame[c].port
          /\ \A d \in Clients :
                pc[d] = "insert" /\ frame[d].port = frame[c].port => c = d
    /\ UniqueAdminPorts

\* A conductor listens on the port of its player, and a handler dials it.
BoundInv ==
    \A p \in Pids : bound[p] # None =>
        /\ Alive(p) /\ kind[p] = "holochain"
        /\ ~Resetting => bound[p] = admin_port[owner[p]]

AdminInv ==
    \A c \in Clients : pc[c] = "admin_call" =>
        Id(c) \in players /\ frame[c].port = admin_port[Id(c)]

DialInv == ExclusiveInv /\ CounterInv /\ PortsInv /\ BoundInv /\ AdminInv

=============================================================================
