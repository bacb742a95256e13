--------------------------- MODULE PlayerRegistry ---------------------------
(***************************************************************************)
(* The players of a trycp server (src/crates/trycp_server/src): the        *)
(* PLAYERS map behind its RwLock, the Mutex around each player's pair of   *)
(* processes, the NEXT_ADMIN_PORT counter, the player directories with     *)
(* their configuration files, and the lair and holochain processes that    *)
(* startup spawns and that shutdown and reset kill.                        *)
(*                                                                         *)
(* Each client is a websocket session.  A session handles one request at a *)
(* time (ws_connection), sessions run concurrently, and a handler is the   *)
(* sequence of steps its program counter pc names.  A step is what the     *)
(* handler does between two points at which another session or a process   *)
(* can interfere.  A section under PLAYERS.write() is a single step that   *)
(* waits until nobody holds PLAYERS.read(); the handlers that keep the     *)
(* read guard across several steps are in readers while they do.           *)
(***************************************************************************)
EXTENDS Naturals, FiniteSets

CONSTANTS
    Clients,         \* websocket sessions
    Ids,             \* player ids
    MaxPids,         \* processes the instance can spawn; pids are not reused
    FirstPort,       \* FIRST_ADMIN_PORT
    PortSpace,       \* number of values of a u16; the counter wraps at it
    MaxRequests,     \* requests the sessions send in all
    Ops,             \* the kinds of request they send
    Faults,          \* the failures of the environment that may happen
    LairShim,        \* whether the server runs with --lair-shim
    ExclusiveReset,  \* whether clients send Reset only when the server is idle
    None             \* no value

OpNames    == {"configure", "startup", "shutdown", "reset", "admin"}
FaultNames == {"create_dir", "create_config", "write_config", "spawn", "tee",
               "output", "remove_dir", "bad_signal", "admin_call", "crash"}

ASSUME CountsAssumption == /\ MaxPids \in Nat
                           /\ MaxRequests \in Nat
                           /\ PortSpace \in Nat
                           /\ FirstPort \in 1..(PortSpace - 1)
ASSUME KindsAssumption  == /\ Ops \subseteq OpNames
                           /\ Faults \subseteq FaultNames
                           /\ LairShim \in BOOLEAN
                           /\ ExclusiveReset \in BOOLEAN

Pids == 1..MaxPids
Port == 0..(PortSpace - 1)

\* PlayerProcesses
PlayerProcesses == [lair : Pids, holochain : Pids]

\* The programs that startup spawns.
Kinds == {"lair", "shim", "holochain"}

ASSUME NoneAssumption == /\ None \notin Clients \cup Ids \cup Nat \cup Kinds
                         /\ None \notin PlayerProcesses

\* What a handler keeps in its local variables.
Frame   == [port   : Port \cup {None},   \* port
            lair   : Pids \cup {None},   \* lair
            child  : Pids \cup {None},   \* shim, then conductor
            victim : PlayerProcesses \cup {None}, \* player of kill_player
            taken  : SUBSET PlayerProcesses]      \* players of reset
NoFrame == [port |-> None, lair |-> None, child |-> None, victim |-> None,
            taken |-> {}]

Labels == {"idle", "create_dir", "config_exists", "load_port", "fetch_port",
           "insert", "create_config", "write_config",
           "startup_get", "startup_lock", "spawn_lair", "lair_ready",
           "spawn_shim", "shim_ready", "spawn_holochain", "spawn_tee",
           "holochain_ready", "shutdown_check", "shutdown_get",
           "shutdown_lock", "wait_holochain", "wait_lair", "reset_take",
           "reset_kill", "admin_get", "admin_call"}

VARIABLES
    players,          \* the keys of PLAYERS
    admin_port,       \* Player.admin_port
    processes,        \* Player.processes: the pair, or None
    processes_lock,   \* who holds the Mutex of Player.processes
    readers,          \* who holds PLAYERS.read()
    next_admin_port,  \* NEXT_ADMIN_PORT
    player_dirs,      \* the directories under PLAYERS_DIR_PATH
    config_files,     \* those with a conductor-config.yml
    config_port,      \* the port written in it; None while it is empty
    attached,         \* the sessions whose open config file is still linked
    next_pid,         \* the next process id
    status,           \* the life of a process
    kind,             \* the program it runs
    owner,            \* the player it was spawned for
    homed,            \* the processes whose working directory still exists
    printed,          \* the processes that printed that they are ready
    bound,            \* the port a conductor's admin interface listens on
    pc,               \* the step a session's handler is at
    req,              \* the request it handles
    frame,            \* its local variables
    reply,            \* how its last request was answered
    issued            \* requests sent so far

registry == <<players, admin_port, processes, next_admin_port>>
locks    == <<processes_lock, readers>>
files    == <<player_dirs, config_files, config_port, attached>>
system   == <<next_pid, status, kind, owner, homed, printed, bound>>
sessions == <<pc, req, frame, reply, issued>>
vars     == <<registry, locks, files, system, sessions>>

Init ==
    /\ players = {}
    /\ admin_port = [i \in Ids |-> None]
    /\ processes = [i \in Ids |-> None]
    /\ processes_lock = [i \in Ids |-> None]
    /\ readers = {}
    /\ next_admin_port = FirstPort
    /\ player_dirs = {}
    /\ config_files = {}
    /\ config_port = [i \in Ids |-> None]
    /\ attached = {}
    /\ next_pid = 1
    /\ status = [p \in Pids |-> "unborn"]
    /\ kind = [p \in Pids |-> None]
    /\ owner = [p \in Pids |-> None]
    /\ homed = {}
    /\ printed = {}
    /\ bound = [p \in Pids |-> None]
    /\ pc = [c \in Clients |-> "idle"]
    /\ req = [c \in Clients |-> [op |-> None, id |-> None]]
    /\ frame = [c \in Clients |-> NoFrame]
    /\ reply = [c \in Clients |-> None]
    /\ issued = 0

-----------------------------------------------------------------------------
(* Sessions *)

Id(c) == req[c].id

\* The handler of c moves on to label with the local variables f.
Goto(c, label, f) ==
    /\ pc' = [pc EXCEPT ![c] = label]
    /\ frame' = [frame EXCEPT ![c] = f]
    /\ UNCHANGED <<req, reply, issued>>

\* The handler of c returns r ("ok" or "error"), which answers the request.
Return(c, r) ==
    /\ pc' = [pc EXCEPT ![c] = "idle"]
    /\ frame' = [frame EXCEPT ![c] = NoFrame]
    /\ reply' = [reply EXCEPT ![c] = r]
    /\ UNCHANGED <<req, issued>>

Busy(c) == pc[c] # "idle"

\* The discipline of clients that share a server without disturbing each
\* other: nobody resets it while another request is being handled.
MayBegin(c, op) ==
    ExclusiveReset =>
        \A d \in Clients \ {c} :
            Busy(d) => op # "reset" /\ req[d].op # "reset"

FirstLabel == [configure |-> "create_dir", startup |-> "startup_get",
               shutdown |-> "shutdown_check", reset |-> "reset_take",
               admin |-> "admin_get"]

\* ws_message decodes the next request of session c.
Receive(c, op, id) ==
    /\ ~Busy(c)
    /\ issued < MaxRequests
    /\ MayBegin(c, op)
    /\ (op = "reset") <=> (id = None)
    /\ pc' = [pc EXCEPT ![c] = FirstLabel[op]]
    /\ req' = [req EXCEPT ![c] = [op |-> op, id |-> id]]
    /\ reply' = [reply EXCEPT ![c] = None]
    /\ issued' = issued + 1
    /\ UNCHANGED <<frame, registry, locks, files, system>>

-----------------------------------------------------------------------------
(* configure_player *)

CreateDir(c) ==
    /\ pc[c] = "create_dir"
    /\ \/ /\ player_dirs' = player_dirs \cup {Id(c)}
          /\ Goto(c, "config_exists", frame[c])
       \/ /\ "create_dir" \in Faults
          /\ Return(c, "error")
          /\ UNCHANGED player_dirs
    /\ UNCHANGED <<registry, locks, config_files, config_port, attached, system>>

ConfigExists(c) ==
    /\ pc[c] = "config_exists"
    /\ IF Id(c) \in config_files
       THEN Return(c, "error")
       ELSE Goto(c, "load_port", frame[c])
    /\ UNCHANGED <<registry, locks, files, system>>

LoadPort(c) ==
    /\ pc[c] = "load_port"
    /\ IF next_admin_port = 0
       THEN Return(c, "error")
       ELSE Goto(c, "fetch_port", frame[c])
    /\ UNCHANGED <<registry, locks, files, system>>

\* fetch_add(1) of a u16.
MutNotAdded(port) == port
MutWider(port) == port + 1
Added(port) == (port + 1) % PortSpace

FetchPort(c) ==
    /\ pc[c] = "fetch_port"
    /\ next_admin_port' = Added(next_admin_port)
    /\ Goto(c, "insert", [frame[c] EXCEPT !.port = next_admin_port])
    /\ UNCHANGED <<players, admin_port, processes, locks, files, system>>

\* players_guard.contains_key(&id)
MutKeyUnchecked(c) == FALSE
ContainsKey(c) == Id(c) \in players

InsertPlayer(c) ==
    /\ pc[c] = "insert"
    /\ readers = {}
    /\ \/ /\ ContainsKey(c)
          /\ Return(c, "error")
          /\ UNCHANGED <<players, admin_port>>
       \/ /\ ~ContainsKey(c)
          /\ players' = players \cup {Id(c)}
          /\ admin_port' = [admin_port EXCEPT ![Id(c)] = frame[c].port]
          /\ Goto(c, "create_config", frame[c])
    /\ UNCHANGED <<processes, next_admin_port, locks, files, system>>

\* File::create truncates a file that exists; it needs the directory.
CreateConfig(c) ==
    /\ pc[c] = "create_config"
    /\ \/ /\ Id(c) \in player_dirs
          /\ config_files' = config_files \cup {Id(c)}
          /\ config_port' = [config_port EXCEPT ![Id(c)] = None]
          /\ attached' = attached \cup {c}
          /\ Goto(c, "write_config", frame[c])
       \/ /\ Id(c) \notin player_dirs \/ "create_config" \in Faults
          /\ Return(c, "error")
          /\ UNCHANGED <<config_files, config_port, attached>>
    /\ UNCHANGED <<registry, locks, player_dirs, system>>

\* A write to a file that reset has unlinked in the meantime succeeds.
WriteConfig(c) ==
    /\ pc[c] = "write_config"
    /\ attached' = attached \ {c}
    /\ \/ /\ config_port' = IF c \in attached
                            THEN [config_port EXCEPT ![Id(c)] = frame[c].port]
                            ELSE config_port
          /\ Return(c, "ok")
       \/ /\ "write_config" \in Faults
          /\ Return(c, "error")
          /\ UNCHANGED config_port
    /\ UNCHANGED <<registry, locks, player_dirs, config_files, system>>

ConfigurePlayer(c) ==
    \/ CreateDir(c) \/ ConfigExists(c) \/ LoadPort(c) \/ FetchPort(c)
    \/ InsertPlayer(c) \/ CreateConfig(c) \/ WriteConfig(c)

-----------------------------------------------------------------------------
(* The guards of PLAYERS.read() and of a player's Mutex *)

\* PLAYERS.read() whose guard lives on after the player was looked up.
MutDropReadGuard(c) == UNCHANGED readers
KeepReadGuard(c) == readers' = readers \cup {c}

LockProcesses(c) ==
    /\ processes_lock[Id(c)] = None
    /\ processes_lock' = [processes_lock EXCEPT ![Id(c)] = c]
    /\ UNCHANGED readers

\* Both guards of c go out of scope.
DropGuards(c) ==
    /\ readers' = readers \ {c}
    /\ processes_lock' = [processes_lock EXCEPT ![Id(c)] = None]

-----------------------------------------------------------------------------
(* startup *)

\* Command::spawn of program k in the directory of the player of c.
Spawn(c, k) ==
    /\ next_pid <= MaxPids
    /\ next_pid' = next_pid + 1
    /\ status' = [status EXCEPT ![next_pid] = "running"]
    /\ kind' = [kind EXCEPT ![next_pid] = k]
    /\ owner' = [owner EXCEPT ![next_pid] = Id(c)]
    /\ homed' = IF Id(c) \in player_dirs THEN homed \cup {next_pid} ELSE homed
    /\ UNCHANGED <<printed, bound>>

SpawnMayFail == next_pid > MaxPids \/ "spawn" \in Faults

\* An error return from within the critical section: the guards are dropped,
\* and so are the Child handles, which neither kills nor reaps the processes.
AbortStartup(c) ==
    /\ DropGuards(c)
    /\ Return(c, "error")
    /\ UNCHANGED <<registry, files, system>>

StartupGet(c) ==
    /\ pc[c] = "startup_get"
    /\ \/ /\ Id(c) \notin players
          /\ Return(c, "error")
          /\ UNCHANGED readers
       \/ /\ Id(c) \in players
          /\ KeepReadGuard(c)
          /\ Goto(c, "startup_lock", frame[c])
    /\ UNCHANGED <<registry, processes_lock, files, system>>

\* processes.is_some()
MutNotRunning(c) == FALSE
Running(c) == processes[Id(c)] # None

StartupLock(c) ==
    /\ pc[c] = "startup_lock"
    /\ processes_lock[Id(c)] = None
    /\ \/ /\ Running(c)
          /\ DropGuards(c)
          /\ Return(c, "ok")
       \/ /\ ~Running(c)
          /\ LockProcesses(c)
          /\ Goto(c, "spawn_lair", frame[c])
    /\ UNCHANGED <<registry, files, system>>

\* The log file of lair is opened in the player's directory first.
SpawnLair(c) ==
    /\ pc[c] = "spawn_lair"
    /\ \/ /\ Id(c) \in player_dirs
          /\ Spawn(c, "lair")
          /\ Goto(c, "lair_ready", [frame[c] EXCEPT !.lair = next_pid])
          /\ UNCHANGED <<registry, locks, files>>
       \/ /\ SpawnMayFail \/ Id(c) \notin player_dirs
          /\ AbortStartup(c)

\* read_exact on the standard output of process p: it returns once a byte is
\* there, and fails when the process ended without printing any.
ReadFirstByte(c, p, label) ==
    \/ /\ p \in printed
       /\ Goto(c, label, frame[c])
       /\ UNCHANGED <<registry, locks, files, system>>
    \/ /\ p \notin printed
       /\ status[p] = "zombie"
       /\ AbortStartup(c)

LairReady(c) ==
    /\ pc[c] = "lair_ready"
    /\ ReadFirstByte(c, frame[c].lair,
                     IF LairShim THEN "spawn_shim" ELSE "spawn_holochain")

SpawnShim(c) ==
    /\ pc[c] = "spawn_shim"
    /\ \/ /\ Spawn(c, "shim")
          /\ Goto(c, "shim_ready", [frame[c] EXCEPT !.child = next_pid])
          /\ UNCHANGED <<registry, locks, files>>
       \/ /\ SpawnMayFail
          /\ AbortStartup(c)

ShimReady(c) ==
    /\ pc[c] = "shim_ready"
    /\ ReadFirstByte(c, frame[c].child, "spawn_holochain")

\* *processes = Some(PlayerProcesses { holochain: conductor, lair })
MutPairLost(c) == UNCHANGED processes
StorePair(c) == processes' = [processes EXCEPT ![Id(c)] =
                    [lair |-> frame[c].lair, holochain |-> next_pid]]

\* The pair is stored and the guards are dropped.
SpawnHolochain(c) ==
    /\ pc[c] = "spawn_holochain"
    /\ \/ /\ Spawn(c, "holochain")
          /\ StorePair(c)
          /\ DropGuards(c)
          /\ Goto(c, "spawn_tee", [frame[c] EXCEPT !.lair = None,
                                                   !.child = next_pid])
          /\ UNCHANGED <<players, admin_port, next_admin_port, files>>
       \/ /\ SpawnMayFail
          /\ AbortStartup(c)

\* The two tee processes that copy the output of the conductor.
SpawnTee(c) ==
    /\ pc[c] = "spawn_tee"
    /\ \/ Goto(c, "holochain_ready", frame[c])
       \/ "tee" \in Faults /\ Return(c, "error")
    /\ UNCHANGED <<registry, locks, files, system>>

\* The pipe of a process that ended gives end of file.
MutNoEndOfOutput(p) == FALSE
EndOfOutput(p) == status[p] \in {"zombie", "reaped"}

\* The loop over the lines of the conductor's output: it ends at the magic
\* string, and also at the end of the output.  A line that cannot be read, or
\* is not UTF-8, is an error; the pair is stored by then.
HolochainReady(c) ==
    /\ pc[c] = "holochain_ready"
    /\ \/ /\ frame[c].child \in printed \/ EndOfOutput(frame[c].child)
          /\ Return(c, "ok")
       \/ "output" \in Faults /\ Return(c, "error")
    /\ UNCHANGED <<registry, locks, files, system>>

Startup(c) ==
    \/ StartupGet(c) \/ StartupLock(c) \/ SpawnLair(c) \/ LairReady(c)
    \/ SpawnShim(c) \/ ShimReady(c) \/ SpawnHolochain(c) \/ SpawnTee(c)
    \/ HolochainReady(c)

-----------------------------------------------------------------------------
(* shutdown and kill_player *)

\* kill(2) on process p.  It fails only for a process that has been reaped;
\* SignalsOwnChildren shows that kill_player never meets one.
Signalled(p) == [status EXCEPT ![p] = IF @ = "running" THEN "dying" ELSE @]

ShutdownCheck(c) ==
    /\ pc[c] = "shutdown_check"
    /\ \/ /\ Id(c) \notin config_files \/ "bad_signal" \in Faults
          /\ Return(c, "error")
       \/ /\ Id(c) \in config_files
          /\ Goto(c, "shutdown_get", frame[c])
    /\ UNCHANGED <<registry, locks, files, system>>

ShutdownGet(c) ==
    /\ pc[c] = "shutdown_get"
    /\ \/ /\ Id(c) \notin players
          /\ Return(c, "ok")
          /\ UNCHANGED readers
       \/ /\ Id(c) \in players
          /\ KeepReadGuard(c)
          /\ Goto(c, "shutdown_lock", frame[c])
    /\ UNCHANGED <<registry, processes_lock, files, system>>

ShutdownLock(c) ==
    /\ pc[c] = "shutdown_lock"
    /\ processes_lock[Id(c)] = None
    /\ \/ /\ processes[Id(c)] = None
          /\ DropGuards(c)
          /\ Return(c, "ok")
          /\ UNCHANGED status
       \/ /\ processes[Id(c)] # None
          /\ LockProcesses(c)
          /\ status' = Signalled(processes[Id(c)].holochain)
          /\ Goto(c, "wait_holochain",
                  [frame[c] EXCEPT !.victim = processes[Id(c)]])
    /\ UNCHANGED <<registry, files, next_pid, kind, owner, homed, printed, bound>>

\* The rest of kill_player, for shutdown and for reset: wait for holochain,
\* signal lair, wait for lair, clear the cell.
\* Child::wait returns.
MutWaitNoHang(p) == status[p] \in {"dying", "zombie"}
Exited(p) == status[p] = "zombie"

WaitHolochain(c) ==
    LET pair == frame[c].victim IN
    /\ pc[c] = "wait_holochain"
    /\ Exited(pair.holochain)
    /\ status' = [Signalled(pair.lair) EXCEPT ![pair.holochain] = "reaped"]
    /\ Goto(c, "wait_lair", frame[c])
    /\ UNCHANGED <<registry, locks, files, next_pid, kind, owner, homed,
                   printed, bound>>

\* *player_cell = None
MutCellKept(c) == UNCHANGED processes
ClearCell(c) == processes' = [processes EXCEPT ![Id(c)] = None]

WaitLair(c) ==
    LET pair == frame[c].victim IN
    /\ pc[c] = "wait_lair"
    /\ Exited(pair.lair)
    /\ status' = [status EXCEPT ![pair.lair] = "reaped"]
    /\ \/ /\ req[c].op = "shutdown"
          /\ ClearCell(c)
          /\ DropGuards(c)
          /\ Return(c, "ok")
       \/ /\ req[c].op = "reset"
          /\ Goto(c, "reset_kill", [frame[c] EXCEPT !.victim = None])
          /\ UNCHANGED <<processes, locks>>
    /\ UNCHANGED <<players, admin_port, next_admin_port, files, next_pid,
                   kind, owner, homed, printed, bound>>

Shutdown(c) == ShutdownCheck(c) \/ ShutdownGet(c) \/ ShutdownLock(c)

-----------------------------------------------------------------------------
(* reset *)

\* What remove_dir_all leaves: the directories dirs and the files cfgs.
RemoveAllBut(dirs, cfgs) ==
    /\ player_dirs' = dirs
    /\ config_files' = cfgs
    /\ config_port' = [i \in Ids |-> IF i \in cfgs THEN config_port[i] ELSE None]
    /\ attached' = {c \in attached : Id(c) \in cfgs}
    /\ homed' = {p \in homed : owner[p] \in dirs}

\* std::mem::take(&mut *players_guard): the pairs of those that have one.
TakenPairs == {processes[i] : i \in players} \ {None}

\* The section under PLAYERS.write() and CONNECTIONS.lock().  No handler of
\* another session can tell it from three separate steps: of the state it
\* changes they see only the port counter and the files before they need
\* PLAYERS, the files always before the counter.
ResetTake(c) ==
    /\ pc[c] = "reset_take"
    /\ readers = {}
    /\ next_admin_port' = FirstPort
    /\ \/ /\ RemoveAllBut({}, {})
          /\ players' = {}
          /\ admin_port' = [i \in Ids |-> None]
          /\ processes' = [i \in Ids |-> None]
          /\ Goto(c, "reset_kill", [frame[c] EXCEPT !.taken = TakenPairs])
       \/ /\ "remove_dir" \in Faults
          /\ \E dirs \in SUBSET player_dirs :
                \E cfgs \in SUBSET (config_files \cap dirs) :
                    RemoveAllBut(dirs, cfgs)
          /\ Return(c, "error")
          /\ UNCHANGED <<players, admin_port, processes>>
    /\ UNCHANGED <<locks, next_pid, status, kind, owner, printed, bound>>

\* The players the loop has still to kill.
MutLoopEnds(c, pair) == {}
Remaining(c, pair) == frame[c].taken \ {pair}

\* The loop over the players that were taken.
ResetKill(c) ==
    /\ pc[c] = "reset_kill"
    /\ \/ /\ frame[c].taken = {}
          /\ Return(c, "ok")
          /\ UNCHANGED status
       \/ \E pair \in frame[c].taken :
            /\ status' = Signalled(pair.holochain)
            /\ Goto(c, "wait_holochain",
                    [frame[c] EXCEPT !.victim = pair,
                                      !.taken = Remaining(c, pair)])
    /\ UNCHANGED <<registry, locks, files, next_pid, kind, owner, homed,
                   printed, bound>>

-----------------------------------------------------------------------------
(* admin_call *)

AdminGet(c) ==
    /\ pc[c] = "admin_get"
    /\ IF Id(c) \in players
       THEN Goto(c, "admin_call",
                 [frame[c] EXCEPT !.port = admin_port[Id(c)]])
       ELSE Return(c, "error")
    /\ UNCHANGED <<registry, locks, files, system>>

\* Connect to the port, send the request and read the response: whichever
\* conductor listens there answers.
AdminCall(c) ==
    /\ pc[c] = "admin_call"
    /\ \/ /\ \E p \in Pids : bound[p] = frame[c].port
          /\ Return(c, "ok")
       \/ /\ (\A p \in Pids : bound[p] # frame[c].port) \/ "admin_call" \in Faults
          /\ Return(c, "error")
    /\ UNCHANGED <<registry, locks, files, system>>

-----------------------------------------------------------------------------
(* The processes *)

Alive(p) == status[p] \in {"running", "dying"}

\* lair and the shim print when they serve their socket.  A conductor reads
\* its configuration in its working directory, binds its admin port, which
\* must be free, and prints the magic string.
ProcessReady(p) ==
    /\ status[p] = "running"
    /\ p \notin printed
    /\ printed' = printed \cup {p}
    /\ \/ kind[p] # "holochain" /\ UNCHANGED bound
       \/ /\ kind[p] = "holochain"
          /\ p \in homed /\ config_port[owner[p]] # None
          /\ \A q \in Pids : bound[q] # config_port[owner[p]]
          /\ bound' = [bound EXCEPT ![p] = config_port[owner[p]]]
    /\ UNCHANGED <<registry, locks, files, sessions, next_pid, status, kind,
                   owner, homed>>

\* A process ends when it is told to, when it fails to start, or by a crash.
ProcessExits(p) ==
    /\ Alive(p)
    /\ status[p] = "dying" \/ p \notin printed \/ "crash" \in Faults
    /\ status' = [status EXCEPT ![p] = "zombie"]
    /\ bound' = [bound EXCEPT ![p] = None]
    /\ UNCHANGED <<registry, locks, files, sessions, next_pid, kind, owner,
                   homed, printed>>

-----------------------------------------------------------------------------
HandlerStep(c) ==
    \/ ConfigurePlayer(c) \/ Startup(c) \/ Shutdown(c)
    \/ WaitHolochain(c) \/ WaitLair(c)
    \/ ResetTake(c) \/ ResetKill(c)
    \/ AdminGet(c) \/ AdminCall(c)

\* Every request that the bound allows has been sent and answered.
Finished ==
    /\ issued = MaxRequests
    /\ \A c \in Clients : ~Busy(c)
    /\ UNCHANGED vars

Next ==
    \/ \E c \in Clients, op \in Ops, id \in Ids \cup {None} : Receive(c, op, id)
    \/ \E c \in Clients : HandlerStep(c)
    \/ \E p \in Pids : ProcessReady(p) \/ ProcessExits(p)
    \/ Finished

Spec == Init /\ [][Next]_vars

\* A process that was spawned prints or ends, and one that was signalled ends.
ProcessStarts(p) == p \notin printed /\ (ProcessReady(p) \/ ProcessExits(p))
ProcessDies(p)   == status[p] = "dying" /\ ProcessExits(p)

\* Threads of handlers are scheduled (weak fairness); the locks of
\* parking_lot are handed over to those who wait for them (strong fairness
\* for the steps that take one).
Fairness ==
    /\ \A c \in Clients :
         /\ WF_vars(HandlerStep(c))
         /\ SF_vars(InsertPlayer(c)) /\ SF_vars(ResetTake(c))
         /\ SF_vars(StartupLock(c))  /\ SF_vars(ShutdownLock(c))
    /\ \A p \in Pids : WF_vars(ProcessStarts(p)) /\ WF_vars(ProcessDies(p))

FairSpec == Spec /\ Fairness

-----------------------------------------------------------------------------
(* Properties *)

Unreaped(p) == status[p] \notin {"unborn", "reaped"}

\* The pairs of processes that the cell of a registered player holds, or a
\* kill_player in progress.
Held == ({processes[i] : i \in players} \cup {frame[c].victim : c \in Clients}
            \cup UNION {frame[c].taken : c \in Clients}) \ {None}

RegistryType ==
    /\ players \subseteq Ids
    /\ admin_port \in [Ids -> Port \cup {None}]
    /\ processes \in [Ids -> PlayerProcesses \cup {None}]
    /\ next_admin_port \in Port

LocksType ==
    /\ processes_lock \in [Ids -> Clients \cup {None}]
    /\ readers \subseteq Clients

FilesType ==
    /\ player_dirs \subseteq Ids
    /\ config_files \subseteq Ids
    /\ config_port \in [Ids -> Port \cup {None}]
    /\ attached \subseteq Clients

SystemType ==
    /\ next_pid \in 1..(MaxPids + 1)
    /\ status \in [Pids -> {"unborn", "running", "dying", "zombie", "reaped"}]
    /\ kind \in [Pids -> Kinds \cup {None}]
    /\ owner \in [Pids -> Ids \cup {None}]
    /\ homed \subseteq Pids
    /\ printed \subseteq Pids
    /\ bound \in [Pids -> Port \cup {None}]

SessionsType ==
    /\ pc \in [Clients -> Labels]
    /\ req \in [Clients -> [op : OpNames \cup {None}, id : Ids \cup {None}]]
    /\ frame \in [Clients -> Frame]
    /\ reply \in [Clients -> {"ok", "error", None}]
    /\ issued \in 0..MaxRequests

TypeOK == RegistryType /\ LocksType /\ FilesType /\ SystemType /\ SessionsType

\* Every conductor that startup spawned and nobody has reaped yet can still
\* be stopped: a player's cell holds it, or a shutdown or reset that is
\* killing it does.  This is what the read guard that startup keeps until it
\* has stored the pair is for: without it a reset that takes the map in the
\* meantime would leave a conductor running that no request reaches.
NoOrphanConductor ==
    \A p \in Pids : kind[p] = "holochain" /\ Unreaped(p) =>
        \E pair \in Held : pair.holochain = p

\* kill_player signals and waits for processes that are still its children.
\* A process id that was reaped may belong to a stranger by then.
SignalsOwnChildren ==
    /\ \A i \in Ids : processes[i] # None /\ processes_lock[i] = None =>
          Unreaped(processes[i].holochain) /\ Unreaped(processes[i].lair)
    /\ \A c \in Clients :
          /\ \A pair \in frame[c].taken :
                Unreaped(pair.holochain) /\ Unreaped(pair.lair)
          /\ pc[c] = "wait_holochain" => Unreaped(frame[c].victim.holochain)
          /\ pc[c] \in {"wait_holochain", "wait_lair"} =>
                Unreaped(frame[c].victim.lair)

\* The sessions of one server can get two players with the same admin port
\* only by racing with a reset, or after a reset that failed.
UniqueAdminPorts ==
    \A i, j \in players : i # j => admin_port[i] # admin_port[j]

\* The port a player's configuration file tells its conductor to serve is the
\* port that admin_call will dial.
ConfigMatchesRegistry ==
    \A i \in config_files :
        i \in players /\ config_port[i] \in {None, admin_port[i]}

\* Concurrent startups, shutdowns and restarts of a player never leave it
\* with two conductors in the same directory.
OneConductorPerPlayer ==
    \A p, q \in Pids :
        /\ kind[p] = "holochain" /\ Alive(p)
        /\ kind[q] = "holochain" /\ Alive(q)
        /\ owner[p] = owner[q]
        => p = q

\* The request of session c is answered ok in this step.
AnsweredOk(c) == Busy(c) /\ pc'[c] = "idle" /\ reply'[c] = "ok"

\* admin_call looks the port up, drops the guard and dials: the conductor
\* that answers is the one its player's cell holds.
AdminCallReachesOwnConductor ==
    [][\A c \in Clients : pc[c] = "admin_call" /\ AnsweredOk(c) =>
          \E p \in Pids : /\ bound[p] = frame[c].port
                          /\ processes[Id(c)] # None
                          /\ processes[Id(c)].holochain = p]_vars

\* "Shuts down all running conductors" (Request::Reset): when reset has
\* answered ok every conductor there was has been reaped.
ResetStopsConductors ==
    [][\A c \in Clients : req[c].op = "reset" /\ AnsweredOk(c) =>
          \A p \in Pids : kind[p] = "holochain" => status'[p] = "reaped"]_vars

\* When shutdown has answered ok the player has no conductor running, even
\* with other sessions starting and stopping the same player.
ShutdownStopsConductor ==
    [][\A c \in Clients : req[c].op = "shutdown" /\ AnsweredOk(c) =>
          \A p \in Pids : kind[p] = "holochain" /\ owner[p] = Id(c) =>
              status'[p] \notin {"running", "dying"}]_vars

\* Every request is answered: no session waits for a lock, or for a process
\* that will not print, forever.
EveryRequestAnswered == \A c \in Clients : Busy(c) ~> ~Busy(c)

=============================================================================
