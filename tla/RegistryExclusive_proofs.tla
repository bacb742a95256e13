---------------------- MODULE RegistryExclusive_proofs ----------------------
(***************************************************************************)
(* Proofs about PlayerRegistry when nobody resets a server that is in use  *)
(* (ExclusiveReset): the configuration files go with the registry, a       *)
(* player has one conductor, and a Shutdown or a Reset that is answered    *)
(* with ok has stopped what it says.  With CleanReset (the directories are *)
(* always removed) and PortsSuffice (the u16 counter does not wrap within  *)
(* the requests of the run) also: the players have different admin ports   *)
(* and a CallAdminInterface reaches the conductor of its player.           *)
(***************************************************************************)
EXTENDS PlayerRegistry_proofs, FiniteSetTheorems

USE DEF Pids, Port, Kinds, ContainsKey, Added, KeepReadGuard, Running,
        StorePair, EndOfOutput, Exited, ClearCell, TakenPairs, Remaining,
        Killing, StartupLocked, LairLabels, KillLabels, ShutdownLabels,
        ResetLabels, Id

\* What the steps of a handler do to its program counter: only those of a
\* reset lead to the steps of a reset that kill.
LEMMA Steps ==
    ASSUME OrphanInv, NEW c \in Clients, HandlerStep(c)
    PROVE  /\ Busy(c)
           /\ UNCHANGED <<req, issued>>
           /\ \A d \in Clients \ {c} : pc'[d] = pc[d] /\ frame'[d] = frame[d]
           /\ ResetKills(c)' => ResetKills(c) \/ pc[c] = "reset_take"
           /\ pc'[c] = "insert" => pc[c] = "fetch_port"
  <1>1. SUFFICES /\ Busy(c)
                 /\ UNCHANGED issued
                 /\ ResetKills(c)' => ResetKills(c) \/ pc[c] = "reset_take"
                 /\ pc'[c] = "insert" => pc[c] = "fetch_port"
    BY Others DEF OrphanInv
  <1>2. UNCHANGED req /\ FrameOf(c)
    BY Others DEF OrphanInv, FramesInv
  <1>3. ASSUME NEW label, NEW f, Goto(c, label, f)
        PROVE  pc'[c] = label /\ UNCHANGED issued
    BY <1>3, GotoLocals DEF OrphanInv, Goto
  <1>4. ASSUME NEW r, Return(c, r)
        PROVE  pc'[c] = "idle" /\ UNCHANGED issued
    BY <1>4, ReturnLocals DEF OrphanInv, Return
  <1> USE <1>2, <1>3, <1>4 DEF FrameOf, ResetKills, Busy
  <1>5. CASE CreateDir(c)
    BY <1>5 DEF CreateDir
  <1>6. CASE ConfigExists(c)
    BY <1>6 DEF ConfigExists
  <1>7. CASE LoadPort(c)
    BY <1>7 DEF LoadPort
  <1>8. CASE FetchPort(c)
    BY <1>8 DEF FetchPort
  <1>9. CASE InsertPlayer(c)
    BY <1>9 DEF InsertPlayer
  <1>10. CASE CreateConfig(c)
    BY <1>10 DEF CreateConfig
  <1>11. CASE WriteConfig(c)
    BY <1>11 DEF WriteConfig
  <1>12. CASE StartupGet(c)
    BY <1>12 DEF StartupGet
  <1>13. CASE StartupLock(c)
    BY <1>13 DEF StartupLock
  <1>14. CASE SpawnLair(c)
    BY <1>14 DEF SpawnLair, AbortStartup
  <1>15. CASE LairReady(c)
    BY <1>15 DEF LairReady, AbortStartup, ReadFirstByte
  <1>16. CASE SpawnShim(c)
    BY <1>16 DEF SpawnShim, AbortStartup
  <1>17. CASE ShimReady(c)
    BY <1>17 DEF ShimReady, AbortStartup, ReadFirstByte
  <1>18. CASE SpawnHolochain(c)
    BY <1>18 DEF SpawnHolochain, AbortStartup
  <1>19. CASE SpawnTee(c)
    BY <1>19 DEF SpawnTee
  <1>20. CASE HolochainReady(c)
    BY <1>20 DEF HolochainReady
  <1>21. CASE ShutdownCheck(c)
    BY <1>21 DEF ShutdownCheck
  <1>22. CASE ShutdownGet(c)
    BY <1>22 DEF ShutdownGet
  <1>23. CASE ShutdownLock(c)
    BY <1>23 DEF ShutdownLock
  <1>24. CASE WaitHolochain(c)
    BY <1>24 DEF WaitHolochain
  <1>25. CASE WaitLair(c)
    BY <1>25 DEF WaitLair
  <1>26. CASE ResetTake(c)
    BY <1>26 DEF ResetTake
  <1>27. CASE ResetKill(c)
    <2>1. pc'[c] \in {"idle", "wait_holochain"} /\ UNCHANGED issued
      <3>1. CASE Return(c, "ok")
        BY <3>1
      <3>2. ASSUME NEW pair \in frame[c].taken, NEW f, Goto(c, "wait_holochain", f)
            PROVE  pc'[c] = "wait_holochain" /\ UNCHANGED issued
        BY <3>2
      <3>3. QED
        BY <1>27, <3>1, <3>2 DEF ResetKill
    <2>2. QED
      BY <1>27, <2>1 DEF ResetKill
  <1>28. CASE AdminGet(c)
    BY <1>28 DEF AdminGet
  <1>29. CASE AdminCall(c)
    BY <1>29 DEF AdminCall
  <1>30. QED
    BY <1>5, <1>6, <1>7, <1>8, <1>9, <1>10, <1>11, <1>12, <1>13, <1>14, <1>15, <1>16,
       <1>17, <1>18, <1>19, <1>20, <1>21, <1>22, <1>23, <1>24, <1>25, <1>26, <1>27,
       <1>28, <1>29
       DEF HandlerStep, ConfigurePlayer, Startup, Shutdown

\* While a reset kills, everybody else is idle.
LEMMA Working ==
    ASSUME OrphanInv, AloneInv, NEW c \in Clients, Busy(c)
    PROVE  /\ ResetKills(c) \/ pc[c] = "reset_take" => \A d \in Clients \ {c} : ~Busy(d)
           /\ Resetting <=> ResetKills(c)
  <1>1. \A d \in Clients : ResetKills(d) \/ pc[d] = "reset_take" =>
            Busy(d) /\ req[d].op = "reset"
    BY DEF OrphanInv, FramesInv, FrameOf, ResetKills, Busy
  <1>2. QED
    BY <1>1 DEF AloneInv, Resetting

\* Who is idle has nothing in its local variables, and while a reset kills
\* no cell holds a pair.
LEMMA IdleFrames ==
    ASSUME OrphanInv, NEW d \in Clients, ~Busy(d)
    PROVE  frame[d].victim = None /\ frame[d].taken = {}
  BY DEF OrphanInv, FramesInv, FrameOf, Busy

\* A reset begins only when the others are idle, and nobody begins while it is
\* at work.
LEMMA AloneStep ==
    ASSUME ExclusiveReset, OrphanInv, AloneInv, [Next]_vars
    PROVE  AloneInv'
  <1>1. ASSUME NEW c \in Clients, NEW op \in Ops, NEW id \in Ids \cup {None},
               Receive(c, op, id)
        PROVE  AloneInv'
    BY <1>1 DEF Receive, MayBegin, AloneInv, Busy, OrphanInv, TypeOK, SessionsType
  <1>2. ASSUME NEW c \in Clients, HandlerStep(c)
        PROVE  AloneInv'
    BY <1>2, Steps DEF AloneInv, Busy
  <1>3. CASE UNCHANGED sessions
    BY <1>3 DEF AloneInv, Busy, sessions
  <1>4. QED
    BY <1>1, <1>2, <1>3 DEF Next, Finished, ProcessReady, ProcessExits, vars, sessions

\* A request to stop a player or all of them never leaves the steps that do it.
LEMMA StopStep ==
    ASSUME OrphanInv, StopInv, [Next]_vars
    PROVE  StopInv'
  <1>1. ASSUME NEW c \in Clients, NEW op \in Ops, NEW id \in Ids \cup {None},
               Receive(c, op, id)
        PROVE  StopInv'
    <2>1. op \in {"shutdown", "reset"} => FirstLabel[op] \in {"shutdown_check", "reset_take"}
      BY DEF FirstLabel
    <2>2. QED
      BY <1>1, <2>1 DEF Receive, StopInv, Busy, OrphanInv, TypeOK, SessionsType
  <1>2. ASSUME NEW c \in Clients, HandlerStep(c)
        PROVE  StopInv'
    <2>1. SUFFICES ASSUME pc'[c] # "idle", req[c].op \in {"shutdown", "reset"}
                   PROVE  pc'[c] \in ShutdownLabels \cup ResetLabels \cup KillLabels
      BY <1>2, Steps DEF StopInv, Busy
    <2>2. pc[c] \in ShutdownLabels \cup ResetLabels \cup KillLabels
      BY <1>2, <2>1, Steps DEF StopInv, Busy
    <2>3. Shutdown(c) \/ WaitHolochain(c) \/ WaitLair(c) \/ ResetTake(c) \/ ResetKill(c)
      BY <1>2, <2>2
         DEF HandlerStep, ConfigurePlayer, CreateDir, ConfigExists, LoadPort,
             FetchPort, InsertPlayer, CreateConfig, WriteConfig, Startup,
             StartupGet, StartupLock, SpawnLair, LairReady, SpawnShim, ShimReady,
             SpawnHolochain, SpawnTee, HolochainReady, AdminGet, AdminCall
    <2>4. ASSUME NEW label, NEW f, Goto(c, label, f)
          PROVE  pc'[c] = label
      BY <2>4, GotoLocals DEF OrphanInv
    <2>5. ASSUME NEW r, Return(c, r)
          PROVE  FALSE
      BY <2>1, <2>5, ReturnLocals DEF OrphanInv
    <2>6. CASE Shutdown(c)
      BY <2>4, <2>5, <2>6 DEF Shutdown, ShutdownCheck, ShutdownGet, ShutdownLock
    <2>7. CASE WaitHolochain(c)
      BY <2>4, <2>7 DEF WaitHolochain
    <2>8. CASE WaitLair(c)
      BY <2>4, <2>5, <2>8 DEF WaitLair
    <2>9. CASE ResetTake(c)
      BY <2>4, <2>5, <2>9 DEF ResetTake
    <2>10. CASE ResetKill(c)
      <3>1. ASSUME NEW f, Goto(c, "wait_holochain", f)
            PROVE  pc'[c] = "wait_holochain"
        BY <3>1, <2>4
      <3>2. QED
        BY <2>5, <2>10, <3>1 DEF ResetKill
    <2>11. QED
      BY <2>3, <2>6, <2>7, <2>8, <2>9, <2>10
  <1>3. CASE UNCHANGED sessions
    BY <1>3 DEF StopInv, Busy, sessions
  <1>4. QED
    BY <1>1, <1>2, <1>3 DEF Next, Finished, ProcessReady, ProcessExits, vars, sessions

\* After a step of a handler a reset is at work only if that handler's is.
LEMMA WorkingNext ==
    ASSUME OrphanInv, AloneInv, NEW c \in Clients, HandlerStep(c)
    PROVE  Resetting' <=> ResetKills(c)'
  <1>1. /\ Busy(c) /\ UNCHANGED req
        /\ \A d \in Clients \ {c} : pc'[d] = pc[d]
    BY Steps
  <1>2. \A d \in Clients \ {c} : ~ResetKills(d)
    BY <1>1, Working DEF ResetKills, Busy
  <1>3. QED
    BY <1>1, <1>2 DEF Resetting, ResetKills

\* The conductors after a step of a handler: those there were, and the one it
\* spawned and stored in the cell of its player.
LEMMA ConductorsNext ==
    ASSUME OrphanInv, NEW c \in Clients, HandlerStep(c), NEW p \in Pids, Conductor(p)'
    PROVE  \/ Conductor(p) /\ owner'[p] = owner[p]
           \/ /\ pc[c] = "spawn_holochain" /\ pc'[c] = "spawn_tee"
              /\ owner'[p] = Id(c)
              /\ processes'[Id(c)] # None /\ processes'[Id(c)].holochain = p
              /\ \A i \in Ids \ {Id(c)} : processes'[i] = processes[i]
              /\ \A q \in Pids : q # p => owner'[q] = owner[q] /\ (Conductor(q)' => Conductor(q))
  <1>1. SystemType /\ FrameOf(c) /\ SpawnedInv /\ RegistryType /\ frame[c] \in Frame
    BY DEF OrphanInv, TypeOK, FramesInv, SessionsType
  <1>2. CASE UNCHANGED system
    BY <1>2 DEF Conductor, Unreaped, system
  <1>3. ASSUME NEW k \in {"lair", "shim"}, Spawn(c, k)
        PROVE  Conductor(p) /\ owner'[p] = owner[p]
    BY <1>1, <1>3 DEF Spawn, SystemType, Conductor, Unreaped
  <1>4. ASSUME UNCHANGED <<kind, owner>>,
               \A q \in Pids : Unreaped(q)' => Unreaped(q)
        PROVE  Conductor(p) /\ owner'[p] = owner[p]
    BY <1>4 DEF Conductor
  <1>5. ASSUME NEW q \in Pids, status' = Signalled(q)
        PROVE  \A r \in Pids : Unreaped(r)' => Unreaped(r)
    BY <1>1, <1>5 DEF Signalled, SystemType, Unreaped
  <1> USE <1>1, <1>2
  <1>6. CASE CreateDir(c)
    BY <1>6 DEF CreateDir
  <1>7. CASE ConfigExists(c)
    BY <1>7 DEF ConfigExists
  <1>8. CASE LoadPort(c)
    BY <1>8 DEF LoadPort
  <1>9. CASE FetchPort(c)
    BY <1>9 DEF FetchPort
  <1>10. CASE InsertPlayer(c)
    BY <1>10 DEF InsertPlayer
  <1>11. CASE CreateConfig(c)
    BY <1>11 DEF CreateConfig
  <1>12. CASE WriteConfig(c)
    BY <1>12 DEF WriteConfig
  <1>13. CASE StartupGet(c)
    BY <1>13 DEF StartupGet
  <1>14. CASE StartupLock(c)
    BY <1>14 DEF StartupLock
  <1>15. CASE SpawnLair(c)
    BY <1>15, <1>3 DEF SpawnLair, AbortStartup
  <1>16. CASE LairReady(c)
    BY <1>16 DEF LairReady, AbortStartup, ReadFirstByte
  <1>17. CASE SpawnShim(c)
    BY <1>17, <1>3 DEF SpawnShim, AbortStartup
  <1>18. CASE ShimReady(c)
    BY <1>18 DEF ShimReady, AbortStartup, ReadFirstByte
  <1>19. CASE SpawnHolochain(c)
    <2>1. CASE AbortStartup(c)
      BY <2>1 DEF AbortStartup
    <2>2. CASE Spawn(c, "holochain") /\ StorePair(c) /\ pc[c] = "spawn_holochain"
               /\ Goto(c, "spawn_tee", [frame[c] EXCEPT !.lair = None,
                                                        !.child = next_pid])
      <3>1. /\ next_pid \in Pids /\ next_pid <= MaxPids /\ frame[c].lair \in Pids
            /\ Id(c) \in Ids
        BY <2>2 DEF Spawn, SystemType, FrameOf, Frame
      <3>2. pc'[c] = "spawn_tee"
        BY <2>2, GotoLocals DEF OrphanInv
      <3>3. /\ processes'[Id(c)] = [lair |-> frame[c].lair, holochain |-> next_pid]
            /\ \A i \in Ids \ {Id(c)} : processes'[i] = processes[i]
        BY <2>2, <3>1 DEF RegistryType
      <3>4. [lair |-> frame[c].lair, holochain |-> next_pid] # None
        BY <3>1, NoneAssumption DEF PlayerProcesses
      <3>5. /\ \A q \in Pids \ {next_pid} : /\ owner'[q] = owner[q]
                                            /\ Conductor(q)' => Conductor(q)
            /\ owner'[next_pid] = Id(c)
        BY <2>2, <3>1 DEF Spawn, SystemType, Conductor, Unreaped
      <3>6. QED
        BY <2>2, <3>1, <3>2, <3>3, <3>4, <3>5
    <2>3. QED
      BY <1>19, <2>1, <2>2 DEF SpawnHolochain
  <1>20. CASE SpawnTee(c)
    BY <1>20 DEF SpawnTee
  <1>21. CASE HolochainReady(c)
    BY <1>21 DEF HolochainReady
  <1>22. CASE ShutdownCheck(c)
    BY <1>22 DEF ShutdownCheck
  <1>23. CASE ShutdownGet(c)
    BY <1>23 DEF ShutdownGet
  <1>24. CASE ShutdownLock(c)
    <2>1. processes[Id(c)] # None => processes[Id(c)].holochain \in Pids
      BY <1>24 DEF ShutdownLock, RegistryType, PlayerProcesses, FrameOf
    <2>2. CASE UNCHANGED status
      BY <1>24, <2>2, <1>4 DEF ShutdownLock, Unreaped
    <2>3. CASE status' = Signalled(processes[Id(c)].holochain) /\ processes[Id(c)] # None
      BY <1>24, <2>1, <2>3, <1>4, <1>5 DEF ShutdownLock
    <2>4. QED
      BY <1>24, <2>2, <2>3 DEF ShutdownLock
  <1>25. CASE WaitHolochain(c)
    <2>1. frame[c].victim.lair \in Pids /\ frame[c].victim.holochain \in Pids
      BY <1>25 DEF WaitHolochain, FrameOf, Frame, PlayerProcesses
    <2>2. \A q \in Pids : Unreaped(q)' => Unreaped(q)
      BY <1>25, <2>1 DEF WaitHolochain, Signalled, SystemType, Unreaped
    <2>3. QED
      BY <1>25, <2>2, <1>4 DEF WaitHolochain
  <1>26. CASE WaitLair(c)
    <2>1. \A q \in Pids : Unreaped(q)' => Unreaped(q)
      BY <1>26 DEF WaitLair, SystemType, Unreaped
    <2>3. QED
      BY <1>26, <2>1, <1>4 DEF WaitLair
  <1>27. CASE ResetTake(c)
    <2>1. QED
      BY <1>27, <1>4 DEF ResetTake, Unreaped
  <1>28. CASE ResetKill(c)
    <2>1. CASE UNCHANGED status
      BY <1>28, <2>1, <1>4 DEF ResetKill, Unreaped
    <2>2. ASSUME NEW pair \in frame[c].taken, status' = Signalled(pair.holochain)
          PROVE  Conductor(p) /\ owner'[p] = owner[p]
      <3>1. pair.holochain \in Pids
        BY <2>2 DEF Frame, PlayerProcesses
      <3>2. QED
        BY <1>28, <2>2, <3>1, <1>4, <1>5 DEF ResetKill
    <2>3. QED
      BY <1>28, <2>1, <2>2 DEF ResetKill
  <1>29. CASE AdminGet(c)
    BY <1>29 DEF AdminGet
  <1>30. CASE AdminCall(c)
    BY <1>30 DEF AdminCall
  <1>31. QED
    BY <1>6, <1>7, <1>8, <1>9, <1>10, <1>11, <1>12, <1>13, <1>14, <1>15, <1>16, <1>17,
       <1>18, <1>19, <1>20, <1>21, <1>22, <1>23, <1>24, <1>25, <1>26, <1>27, <1>28,
       <1>29, <1>30
       DEF HandlerStep, ConfigurePlayer, Startup, Shutdown

\* When the loop of a reset ends there is no conductor left.
LEMMA NoneLeft ==
    ASSUME OrphanInv, AloneInv, ConductorsInv, NEW c \in Clients,
           pc[c] = "reset_kill", frame[c].taken = {}
    PROVE  \A p \in Pids : ~Conductor(p)
  <1>1. ResetKills(c) /\ Busy(c) /\ frame[c].victim = None
    BY DEF ResetKills, Busy, OrphanInv, FramesInv, FrameOf
  <1>2. players = {} /\ \A d \in Clients \ {c} : ~Busy(d)
    BY <1>1, Working DEF ConductorsInv
  <1>3. \A i \in Ids : processes[i] = None
    BY <1>2 DEF OrphanInv, RegisteredInv
  <1>4. \A d \in Clients : frame[d].victim = None /\ frame[d].taken = {}
    BY <1>1, <1>2, IdleFrames
  <1>5. AnyHeld = {}
    BY <1>3, <1>4, HeldCases
  <1>6. QED
    BY <1>5 DEF OrphanInv, HeldInv, Conductor

\* A reset that takes the map leaves no player and no file; only a reset can
\* end a reset's steps.
LEMMA TakeLeaves ==
    ASSUME OrphanInv, AloneInv, ConductorsInv, NEW c \in Clients, HandlerStep(c),
           Resetting'
    PROVE  players' = {} /\ config_files' = {}
  <1>1. ResetKills(c)' /\ Busy(c) /\ UNCHANGED req
    BY Steps, WorkingNext
  <1>2. ResetKills(c) \/ pc[c] = "reset_take"
    BY Steps, <1>1
  <1>3. CASE ResetTake(c)
    <2>1. ASSUME Return(c, "error")
          PROVE  FALSE
      BY <2>1, <1>1, ReturnLocals DEF OrphanInv, ResetKills
    <2>2. QED
      BY <1>3, <2>1 DEF ResetTake, RemoveAllBut
  <1>4. ASSUME ResetKills(c)
        PROVE  players = {} /\ config_files = {}
    BY <1>1, <1>4, Working DEF ConductorsInv
  <1>5. CASE WaitHolochain(c) \/ WaitLair(c) \/ ResetKill(c)
    <2>1. UNCHANGED <<players, config_files>>
      BY <1>5 DEF WaitHolochain, WaitLair, ResetKill, registry, files
    <2>2. QED
      BY <1>2, <1>4, <1>5, <2>1 DEF WaitHolochain, WaitLair, ResetKill
  <1>6. QED
    BY <1>2, <1>3, <1>5
       DEF ResetKills, HandlerStep, ConfigurePlayer, CreateDir, ConfigExists,
           LoadPort, FetchPort, InsertPlayer, CreateConfig, WriteConfig, Startup,
           StartupGet, StartupLock, SpawnLair, LairReady, SpawnShim, ShimReady,
           SpawnHolochain, SpawnTee, HolochainReady, Shutdown, ShutdownCheck,
           ShutdownGet, ShutdownLock, AdminGet, AdminCall

\* A reset's loop ends when there is no conductor left.
LEMMA ResetEnds ==
    ASSUME OrphanInv, AloneInv, ConductorsInv, NEW c \in Clients, HandlerStep(c),
           ~Resetting', NEW p \in Pids, Conductor(p)
    PROVE  ~Resetting
  <1>1. Busy(c) /\ UNCHANGED req /\ ~ResetKills(c)' /\ FrameOf(c)
    BY Steps, WorkingNext DEF OrphanInv, FramesInv
  <1>2. SUFFICES ASSUME ResetKills(c) PROVE FALSE
    BY <1>1, Working
  <1>3. ASSUME NEW f, Goto(c, "wait_holochain", f) \/ Goto(c, "wait_lair", f)
                      \/ Goto(c, "reset_kill", f)
        PROVE  FALSE
    BY <1>1, <1>2, <1>3, GotoLocals DEF OrphanInv, ResetKills, FrameOf
  <1>4. CASE WaitHolochain(c)
    BY <1>3, <1>4 DEF WaitHolochain
  <1>5. CASE WaitLair(c)
    BY <1>2, <1>3, <1>5 DEF WaitLair, ResetKills
  <1>6. CASE ResetKill(c)
    <2>1. pc[c] = "reset_kill" /\ frame[c].taken = {}
      BY <1>3, <1>6 DEF ResetKill
    <2>2. QED
      BY <2>1, NoneLeft
  <1>7. QED
    BY <1>2, <1>4, <1>5, <1>6
       DEF ResetKills, HandlerStep, ConfigurePlayer, CreateDir, ConfigExists,
           LoadPort, FetchPort, InsertPlayer, CreateConfig, WriteConfig, Startup,
           StartupGet, StartupLock, SpawnLair, LairReady, SpawnShim, ShimReady,
           SpawnHolochain, SpawnTee, HolochainReady, Shutdown, ShutdownCheck,
           ShutdownGet, ShutdownLock, ResetTake, AdminGet, AdminCall

\* Outside of a reset the conductors that stay keep their cells.
LEMMA CellsStay ==
    ASSUME OrphanInv, AloneInv, ConductorsInv, NEW c \in Clients, HandlerStep(c),
           ~Resetting', NEW p \in Pids, Conductor(p), Conductor(p)',
           owner'[p] = owner[p]
    PROVE  processes'[owner[p]] # None /\ processes'[owner[p]].holochain = p
  <1>1. Busy(c) /\ UNCHANGED req /\ ~ResetKills(c)' /\ FrameOf(c) /\ CellOf(c)
        /\ owner[p] \in Ids /\ RegistryType /\ SystemType /\ frame[c] \in Frame
    BY Steps, WorkingNext, NoneAssumption
       DEF OrphanInv, FramesInv, CellsInv, TypeOK, Conductor, Unreaped, SpawnedInv,
           SessionsType, SystemType
  <1>2. ~Resetting
    BY ResetEnds
  <1>3. processes[owner[p]] # None /\ processes[owner[p]].holochain = p
    BY <1>2 DEF ConductorsInv
  <1>4. UNCHANGED processes => processes'[owner[p]] # None /\ processes'[owner[p]].holochain = p
    BY <1>3
  <1>5. CASE CreateDir(c)
    BY <1>5, <1>4 DEF CreateDir, registry
  <1>6. CASE ConfigExists(c)
    BY <1>6, <1>4 DEF ConfigExists, registry
  <1>7. CASE LoadPort(c)
    BY <1>7, <1>4 DEF LoadPort, registry
  <1>8. CASE FetchPort(c)
    BY <1>8, <1>4 DEF FetchPort, registry
  <1>9. CASE InsertPlayer(c)
    BY <1>9, <1>4 DEF InsertPlayer, registry
  <1>10. CASE CreateConfig(c)
    BY <1>10, <1>4 DEF CreateConfig, registry
  <1>11. CASE WriteConfig(c)
    BY <1>11, <1>4 DEF WriteConfig, registry
  <1>12. CASE StartupGet(c)
    BY <1>12, <1>4 DEF StartupGet, registry
  <1>13. CASE StartupLock(c)
    BY <1>13, <1>4 DEF StartupLock, registry
  <1>14. CASE SpawnLair(c)
    BY <1>14, <1>4 DEF SpawnLair, AbortStartup, registry
  <1>15. CASE LairReady(c)
    BY <1>15, <1>4 DEF LairReady, AbortStartup, ReadFirstByte, registry
  <1>16. CASE SpawnShim(c)
    BY <1>16, <1>4 DEF SpawnShim, AbortStartup, registry
  <1>17. CASE ShimReady(c)
    BY <1>17, <1>4 DEF ShimReady, AbortStartup, ReadFirstByte, registry
  <1>18. CASE SpawnHolochain(c)
    <2>1. CASE AbortStartup(c)
      BY <1>4, <2>1 DEF AbortStartup, registry
    <2>2. CASE StorePair(c) /\ pc[c] = "spawn_holochain"
      BY <1>1, <1>3, <2>2 DEF CellOf, RegistryType
    <2>3. QED
      BY <1>18, <2>1, <2>2 DEF SpawnHolochain
  <1>19. CASE SpawnTee(c)
    BY <1>19, <1>4 DEF SpawnTee, registry
  <1>20. CASE HolochainReady(c)
    BY <1>20, <1>4 DEF HolochainReady, registry
  <1>21. CASE ShutdownCheck(c)
    BY <1>21, <1>4 DEF ShutdownCheck, registry
  <1>22. CASE ShutdownGet(c)
    BY <1>22, <1>4 DEF ShutdownGet, registry
  <1>23. CASE ShutdownLock(c)
    BY <1>23, <1>4 DEF ShutdownLock, registry
  <1>24. CASE WaitHolochain(c)
    BY <1>24, <1>4 DEF WaitHolochain, registry
  <1>25. CASE WaitLair(c)
    <2>1. CASE UNCHANGED processes
      BY <2>1, <1>4
    <2>2. CASE req[c].op = "shutdown" /\ ClearCell(c) /\ pc[c] = "wait_lair"
      <3>1. owner[p] # Id(c)
        <4>1. processes[Id(c)] = frame[c].victim
              /\ status[frame[c].victim.holochain] = "reaped"
          BY <1>1, <2>2 DEF CellOf
        <4>2. QED
          BY <1>3, <4>1 DEF Conductor, Unreaped
      <3>2. QED
        BY <1>1, <1>3, <2>2, <3>1 DEF RegistryType
    <2>3. QED
      BY <1>25, <2>1, <2>2 DEF WaitLair
  <1>26. CASE ResetTake(c)
    <2>1. ASSUME NEW f, Goto(c, "reset_kill", f)
          PROVE  FALSE
      BY <1>1, <2>1, GotoLocals DEF OrphanInv, ResetKills
    <2>2. QED
      BY <1>26, <1>4, <2>1 DEF ResetTake
  <1>27. CASE ResetKill(c)
    BY <1>27, <1>4 DEF ResetKill, registry
  <1>28. CASE AdminGet(c)
    BY <1>28, <1>4 DEF AdminGet, registry
  <1>29. CASE AdminCall(c)
    BY <1>29, <1>4 DEF AdminCall, registry
  <1>30. QED
    BY <1>5, <1>6, <1>7, <1>8, <1>9, <1>10, <1>11, <1>12, <1>13, <1>14, <1>15, <1>16,
       <1>17, <1>18, <1>19, <1>20, <1>21, <1>22, <1>23, <1>24, <1>25, <1>26, <1>27,
       <1>28, <1>29, <1>4
       DEF HandlerStep, ConfigurePlayer, Startup, Shutdown

\* The steps of handlers keep one conductor per player, in its cell.
LEMMA ConductorsStep ==
    ASSUME OrphanInv, AloneInv, ConductorsInv, NEW c \in Clients, HandlerStep(c)
    PROVE  ConductorsInv'
  <1>1. Resetting' => players' = {} /\ config_files' = {}
    BY TakeLeaves
  <1>2. ASSUME ~Resetting', NEW p \in Pids, Conductor(p)'
        PROVE  processes'[owner'[p]] # None /\ processes'[owner'[p]].holochain = p
    BY <1>2, ConductorsNext, CellsStay
  <1>3. ASSUME NEW p \in Pids, NEW q \in Pids, Conductor(p)', Conductor(q)',
               owner'[p] = owner'[q]
        PROVE  p = q
    <2>1. CASE pc'[c] = "spawn_tee"
      <3>1. ~Resetting'
        BY <2>1, WorkingNext DEF ResetKills
      <3>2. QED
        BY <1>2, <1>3, <3>1
    <2>2. CASE pc'[c] # "spawn_tee"
      BY <1>3, <2>2, ConductorsNext DEF ConductorsInv
    <2>3. QED
      BY <2>1, <2>2
  <1>4. QED
    BY <1>1, <1>2, <1>3 DEF ConductorsInv

\* A request that arrives disturbs no conductor.
LEMMA ConductorsReceive ==
    ASSUME OrphanInv, AloneInv, ConductorsInv, NEW c \in Clients, NEW op \in Ops,
           NEW id \in Ids \cup {None}, Receive(c, op, id)
    PROVE  ConductorsInv' /\ (Resetting' <=> Resetting)
  <1>1. /\ pc[c] = "idle" /\ pc'[c] \notin {"reset_kill", "wait_holochain", "wait_lair"}
        /\ \A d \in Clients \ {c} : pc'[d] = pc[d] /\ req'[d] = req[d]
        /\ UNCHANGED <<registry, files, system>>
    BY KindsAssumption
       DEF Receive, Busy, OrphanInv, TypeOK, SessionsType, FirstLabel, OpNames
  <1>2. Resetting' <=> Resetting
    BY <1>1 DEF Resetting, ResetKills
  <1>3. QED
    BY <1>1, <1>2 DEF ConductorsInv, Conductor, Unreaped, registry, files, system

\* Nor does a process that starts or ends, which stays to be reaped.
LEMMA ConductorsProcess ==
    ASSUME OrphanInv, ConductorsInv, NEW p \in Pids, ProcessReady(p) \/ ProcessExits(p)
    PROVE  ConductorsInv' /\ (Resetting' <=> Resetting)
  <1>1. /\ UNCHANGED <<registry, files, sessions, kind, owner>>
        /\ UNCHANGED status \/ (Alive(p) /\ status' = [status EXCEPT ![p] = "zombie"])
    BY DEF ProcessReady, ProcessExits
  <1>2. \A q \in Pids : Unreaped(q)' <=> Unreaped(q)
    BY <1>1 DEF OrphanInv, TypeOK, SystemType, Alive, Unreaped
  <1>3. Resetting' <=> Resetting
    BY <1>1 DEF Resetting, ResetKills, sessions
  <1>4. QED
    BY <1>1, <1>2, <1>3 DEF ConductorsInv, Conductor, registry, files

\* A player's file names the port the player got, with every step of a handler.
LEMMA FilesStep ==
    ASSUME OrphanInv, AloneInv, FilesInv, NEW c \in Clients, HandlerStep(c)
    PROVE  FilesInv'
  <1>1. /\ Busy(c) /\ UNCHANGED req /\ FrameOf(c) /\ frame[c] \in Frame
        /\ RegistryType /\ FilesType
        /\ \A d \in Clients \ {c} : pc'[d] = pc[d] /\ frame'[d] = frame[d]
    BY Steps DEF OrphanInv, FramesInv, TypeOK, SessionsType
  <1>2. ASSUME NEW label, NEW f, Goto(c, label, f)
        PROVE  pc'[c] = label /\ frame'[c] = f
    BY <1>2, GotoLocals DEF OrphanInv
  <1>3. ASSUME NEW r, Return(c, r)
        PROVE  pc'[c] = "idle"
    BY <1>3, ReturnLocals DEF OrphanInv
  <1>4. ASSUME UNCHANGED <<players, admin_port, config_files, config_port, attached>>,
               pc[c] # "write_config",
               pc'[c] \notin {"create_config", "write_config"}
        PROVE  FilesInv'
    <2>1. ConfigMatchesRegistry' /\ \A i \in Ids : i \notin config_files' => config_port'[i] = None
      BY <1>4 DEF FilesInv, ConfigMatchesRegistry
    <2>2. \A d \in Clients : pc'[d] \in {"create_config", "write_config"} =>
              pc'[d] = pc[d] /\ frame'[d] = frame[d]
      BY <1>1, <1>4
    <2>3. \A d \in Clients : pc'[d] \in {"create_config", "write_config"} =>
              req'[d].id \in players' /\ admin_port'[req'[d].id] = frame'[d].port
      BY <2>2, <1>1, <1>4 DEF FilesInv
    <2>4. \A d \in attached' : pc'[d] = "write_config" /\ req'[d].id \in config_files'
      BY <1>1, <1>4 DEF FilesInv, FilesType
    <2>5. QED
      BY <2>1, <2>3, <2>4 DEF FilesInv
  <1>5. CASE CreateDir(c)
    <2>1. pc'[c] \notin {"create_config", "write_config"}
      BY <1>5, <1>2, <1>3 DEF CreateDir
    <2>2. QED
      BY <1>5, <2>1, <1>4 DEF CreateDir, registry, files
  <1>6. CASE ConfigExists(c)
    <2>1. pc'[c] \notin {"create_config", "write_config"}
      BY <1>6, <1>2, <1>3 DEF ConfigExists
    <2>2. QED
      BY <1>6, <2>1, <1>4 DEF ConfigExists, registry, files
  <1>7. CASE LoadPort(c)
    <2>1. pc'[c] \notin {"create_config", "write_config"}
      BY <1>7, <1>2, <1>3 DEF LoadPort
    <2>2. QED
      BY <1>7, <2>1, <1>4 DEF LoadPort, registry, files
  <1>8. CASE FetchPort(c)
    <2>1. pc'[c] \notin {"create_config", "write_config"}
      BY <1>8, <1>2, <1>3 DEF FetchPort
    <2>2. QED
      BY <1>8, <2>1, <1>4 DEF FetchPort, registry, files
  <1>9. CASE InsertPlayer(c)
    <2>1. CASE Return(c, "error") /\ UNCHANGED <<players, admin_port>>
      BY <1>9, <1>3, <1>4, <2>1 DEF InsertPlayer, files
    <2>2. CASE /\ ~ContainsKey(c)
               /\ players' = players \cup {Id(c)}
               /\ admin_port' = [admin_port EXCEPT ![Id(c)] = frame[c].port]
               /\ Goto(c, "create_config", frame[c])
      <3>1. Id(c) \in Ids /\ pc[c] = "insert" /\ UNCHANGED files
        BY <1>9, <1>1 DEF InsertPlayer, FrameOf
      <3>2. /\ pc'[c] = "create_config" /\ frame'[c] = frame[c]
            /\ admin_port'[Id(c)] = frame[c].port
            /\ \A i \in Ids \ {Id(c)} : admin_port'[i] = admin_port[i]
        BY <2>2, <1>1, <1>2, <3>1 DEF RegistryType
      <3>3. Id(c) \notin players /\ players' = players \cup {Id(c)} /\ players \subseteq Ids
        BY <2>2, <1>1 DEF RegistryType
      <3>4. ConfigMatchesRegistry'
        BY <1>1, <3>1, <3>2, <3>3
           DEF FilesInv, ConfigMatchesRegistry, files, FilesType
      <3>5. \A d \in Clients : pc'[d] \in {"create_config", "write_config"} =>
                req[d].id \in players' /\ admin_port'[req[d].id] = frame'[d].port
        BY <1>1, <3>1, <3>2, <3>3 DEF FilesInv
      <3>6. \A d \in attached' : pc'[d] = "write_config" /\ req[d].id \in config_files'
        BY <1>1, <3>1 DEF FilesInv, FilesType, files
      <3>7. \A i \in Ids : i \notin config_files' => config_port'[i] = None
        BY <3>1 DEF FilesInv, files
      <3>8. QED
        BY <1>1, <3>4, <3>5, <3>6, <3>7 DEF FilesInv
    <2>3. QED
      BY <1>9, <2>1, <2>2 DEF InsertPlayer
  <1>10. CASE CreateConfig(c)
    <2>1. CASE Return(c, "error") /\ UNCHANGED <<config_files, config_port, attached>>
      BY <1>10, <1>3, <1>4, <2>1 DEF CreateConfig, registry
    <2>2. CASE /\ config_files' = config_files \cup {Id(c)}
               /\ config_port' = [config_port EXCEPT ![Id(c)] = None]
               /\ attached' = attached \cup {c}
               /\ Goto(c, "write_config", frame[c])
      <3>1. Id(c) \in Ids /\ pc[c] = "create_config" /\ UNCHANGED <<players, admin_port>>
        BY <1>10, <1>1 DEF CreateConfig, FrameOf, registry
      <3>2. pc'[c] = "write_config" /\ frame'[c] = frame[c]
        BY <2>2, <1>2
      <3>3. config_port'[Id(c)] = None /\ \A i \in Ids \ {Id(c)} : config_port'[i] = config_port[i]
        BY <2>2, <3>1, <1>1 DEF FilesType
      <3>4. QED
        BY <1>1, <2>2, <3>1, <3>2, <3>3 DEF FilesInv, ConfigMatchesRegistry, FilesType
    <2>3. QED
      BY <1>10, <2>1, <2>2 DEF CreateConfig
  <1>11. CASE WriteConfig(c)
    <2>1. /\ Id(c) \in Ids /\ pc[c] = "write_config" /\ UNCHANGED <<players, admin_port>>
          /\ UNCHANGED config_files /\ attached' = attached \ {c}
          /\ pc'[c] = "idle"
      BY <1>11, <1>1, <1>3 DEF WriteConfig, FrameOf, registry
    <2>2. \A i \in Ids : config_port'[i] = config_port[i]
              \/ (i = Id(c) /\ c \in attached /\ config_port'[i] = frame[c].port)
      BY <1>11, <1>1, <2>1 DEF WriteConfig, FilesType
    <2>3. QED
      BY <1>1, <2>1, <2>2 DEF FilesInv, ConfigMatchesRegistry, FilesType
  <1>12. CASE StartupGet(c)
    <2>1. pc'[c] \notin {"create_config", "write_config"}
      BY <1>12, <1>2, <1>3 DEF StartupGet
    <2>2. QED
      BY <1>12, <2>1, <1>4 DEF StartupGet, registry, files
  <1>13. CASE StartupLock(c)
    <2>1. pc'[c] \notin {"create_config", "write_config"}
      BY <1>13, <1>2, <1>3 DEF StartupLock
    <2>2. QED
      BY <1>13, <2>1, <1>4 DEF StartupLock, registry, files
  <1>14. CASE SpawnLair(c)
    <2>1. pc'[c] \notin {"create_config", "write_config"}
      BY <1>14, <1>2, <1>3 DEF SpawnLair, AbortStartup
    <2>2. QED
      BY <1>14, <2>1, <1>4 DEF SpawnLair, AbortStartup, registry, files
  <1>15. CASE LairReady(c)
    <2>1. pc'[c] \notin {"create_config", "write_config"}
      BY <1>15, <1>2, <1>3 DEF LairReady, AbortStartup, ReadFirstByte
    <2>2. QED
      BY <1>15, <2>1, <1>4 DEF LairReady, AbortStartup, ReadFirstByte, registry, files
  <1>16. CASE SpawnShim(c)
    <2>1. pc'[c] \notin {"create_config", "write_config"}
      BY <1>16, <1>2, <1>3 DEF SpawnShim, AbortStartup
    <2>2. QED
      BY <1>16, <2>1, <1>4 DEF SpawnShim, AbortStartup, registry, files
  <1>17. CASE ShimReady(c)
    <2>1. pc'[c] \notin {"create_config", "write_config"}
      BY <1>17, <1>2, <1>3 DEF ShimReady, AbortStartup, ReadFirstByte
    <2>2. QED
      BY <1>17, <2>1, <1>4 DEF ShimReady, AbortStartup, ReadFirstByte, registry, files
  <1>18. CASE SpawnHolochain(c)
    <2>1. pc'[c] \notin {"create_config", "write_config"}
      BY <1>18, <1>2, <1>3 DEF SpawnHolochain, AbortStartup
    <2>2. QED
      BY <1>18, <2>1, <1>4 DEF SpawnHolochain, AbortStartup, registry, files
  <1>19. CASE SpawnTee(c)
    <2>1. pc'[c] \notin {"create_config", "write_config"}
      BY <1>19, <1>2, <1>3 DEF SpawnTee
    <2>2. QED
      BY <1>19, <2>1, <1>4 DEF SpawnTee, registry, files
  <1>20. CASE HolochainReady(c)
    <2>1. pc'[c] \notin {"create_config", "write_config"}
      BY <1>20, <1>2, <1>3 DEF HolochainReady
    <2>2. QED
      BY <1>20, <2>1, <1>4 DEF HolochainReady, registry, files
  <1>21. CASE ShutdownCheck(c)
    <2>1. pc'[c] \notin {"create_config", "write_config"}
      BY <1>21, <1>2, <1>3 DEF ShutdownCheck
    <2>2. QED
      BY <1>21, <2>1, <1>4 DEF ShutdownCheck, registry, files
  <1>22. CASE ShutdownGet(c)
    <2>1. pc'[c] \notin {"create_config", "write_config"}
      BY <1>22, <1>2, <1>3 DEF ShutdownGet
    <2>2. QED
      BY <1>22, <2>1, <1>4 DEF ShutdownGet, registry, files
  <1>23. CASE ShutdownLock(c)
    <2>1. pc'[c] \notin {"create_config", "write_config"}
      BY <1>23, <1>2, <1>3 DEF ShutdownLock
    <2>2. QED
      BY <1>23, <2>1, <1>4 DEF ShutdownLock, registry, files
  <1>24. CASE WaitHolochain(c)
    <2>1. pc'[c] \notin {"create_config", "write_config"}
      BY <1>24, <1>2, <1>3 DEF WaitHolochain
    <2>2. QED
      BY <1>24, <2>1, <1>4 DEF WaitHolochain, registry, files
  <1>25. CASE WaitLair(c)
    <2>1. pc'[c] \notin {"create_config", "write_config"}
      BY <1>25, <1>2, <1>3 DEF WaitLair
    <2>2. QED
      BY <1>25, <2>1, <1>4 DEF WaitLair, registry, files
  <1>26. CASE ResetTake(c)
    <2>1. /\ pc'[c] \notin {"create_config", "write_config"} /\ pc[c] = "reset_take"
      BY <1>26, <1>2, <1>3 DEF ResetTake
    <2>2. \A d \in Clients : pc[d] \notin {"create_config", "write_config"}
      BY <1>1, <2>1, Working DEF Busy
    <2>3. attached = {}
      BY <1>1, <2>2 DEF FilesInv, FilesType
    <2>4. PICK dirs \in SUBSET player_dirs, cfgs \in SUBSET config_files : RemoveAllBut(dirs, cfgs)
      BY <1>26 DEF ResetTake
    <2>5. UNCHANGED <<players, admin_port>> \/ cfgs = {}
      <3>1. CASE RemoveAllBut({}, {})
        BY <2>4, <3>1 DEF RemoveAllBut
      <3>2. QED
        BY <1>26, <3>1 DEF ResetTake
    <2>6. /\ config_files' = cfgs /\ attached' = {}
          /\ \A i \in Ids : config_port'[i] = IF i \in cfgs THEN config_port[i] ELSE None
      BY <2>3, <2>4 DEF RemoveAllBut
    <2>7. \A d \in Clients : pc'[d] \notin {"create_config", "write_config"}
      BY <1>1, <2>1, <2>2
    <2>8. ConfigMatchesRegistry'
      BY <2>5, <2>6, <1>1 DEF FilesInv, ConfigMatchesRegistry, FilesType
    <2>9. QED
      BY <2>6, <2>7, <2>8 DEF FilesInv
  <1>27. CASE ResetKill(c)
    <2>1. pc'[c] \notin {"create_config", "write_config"}
      <3>1. ASSUME NEW f, Goto(c, "wait_holochain", f)
            PROVE  pc'[c] = "wait_holochain"
        BY <3>1, <1>2
      <3>2. QED
        BY <1>27, <1>3, <3>1 DEF ResetKill
    <2>2. QED
      BY <1>27, <2>1, <1>4 DEF ResetKill, registry, files
  <1>28. CASE AdminGet(c)
    <2>1. pc'[c] \notin {"create_config", "write_config"}
      BY <1>28, <1>2, <1>3 DEF AdminGet
    <2>2. QED
      BY <1>28, <2>1, <1>4 DEF AdminGet, registry, files
  <1>29. CASE AdminCall(c)
    <2>1. pc'[c] \notin {"create_config", "write_config"}
      BY <1>29, <1>2, <1>3 DEF AdminCall
    <2>2. QED
      BY <1>29, <2>1, <1>4 DEF AdminCall, registry, files
  <1>30. QED
    BY <1>5, <1>6, <1>7, <1>8, <1>9, <1>10, <1>11, <1>12, <1>13, <1>14, <1>15, <1>16,
       <1>17, <1>18, <1>19, <1>20, <1>21, <1>22, <1>23, <1>24, <1>25, <1>26, <1>27,
       <1>28, <1>29
       DEF HandlerStep, ConfigurePlayer, Startup, Shutdown

\* The rest of the steps touch no file and no player.
LEMMA FilesOthers ==
    ASSUME OrphanInv, FilesInv,
           \/ \E c \in Clients, op \in Ops, id \in Ids \cup {None} : Receive(c, op, id)
           \/ \E p \in Pids : ProcessReady(p) \/ ProcessExits(p)
           \/ UNCHANGED vars
    PROVE  FilesInv'
  <1>1. UNCHANGED <<players, admin_port, config_files, config_port, attached, frame>>
    BY DEF Receive, ProcessReady, ProcessExits, vars, registry, files, sessions
  <1>2. ASSUME NEW c \in Clients, NEW op \in Ops, NEW id \in Ids \cup {None},
               Receive(c, op, id)
        PROVE  FilesInv'
    <2>1. /\ pc[c] = "idle" /\ pc'[c] \notin {"create_config", "write_config"}
          /\ \A d \in Clients \ {c} : pc'[d] = pc[d] /\ req'[d] = req[d]
      BY <1>2, KindsAssumption
         DEF Receive, Busy, OrphanInv, TypeOK, SessionsType, FirstLabel, OpNames
    <2>2. QED
      BY <1>1, <2>1 DEF FilesInv, ConfigMatchesRegistry, OrphanInv, TypeOK, FilesType
  <1>3. CASE UNCHANGED <<pc, req>>
    BY <1>1, <1>3 DEF FilesInv, ConfigMatchesRegistry
  <1>4. QED
    BY <1>2, <1>3 DEF ProcessReady, ProcessExits, vars, sessions

\* The invariant holds initially.
LEMMA InitExclusive == Init => ExclusiveInv
  <1> SUFFICES ASSUME Init PROVE ExclusiveInv
    OBVIOUS
  <1>1. AloneInv /\ StopInv /\ FilesInv
    BY DEF Init, AloneInv, StopInv, FilesInv, ConfigMatchesRegistry, Busy
  <1>2. ConductorsInv
    BY DEF Init, ConductorsInv, Resetting, ResetKills, Conductor, Unreaped
  <1>3. QED
    BY <1>1, <1>2, InitOrphan DEF ExclusiveInv

\* Every step keeps the invariant, if resets are exclusive.
LEMMA StepExclusive ==
    ASSUME ExclusiveReset, ExclusiveInv, [Next]_vars
    PROVE  ExclusiveInv'
  <1>1. OrphanInv' /\ AloneInv' /\ StopInv'
    BY StepOrphan, AloneStep, StopStep DEF ExclusiveInv
  <1>2. OrphanInv /\ AloneInv /\ ConductorsInv /\ FilesInv
    BY DEF ExclusiveInv
  <1>3. ConductorsInv'
    <2>1. CASE UNCHANGED vars
      BY <2>1, <1>2
         DEF ConductorsInv, Conductor, Unreaped, Resetting, ResetKills, vars,
             registry, files, system, sessions
    <2>2. QED
      BY <2>1, <1>2, ConductorsStep, ConductorsReceive, ConductorsProcess
         DEF Next, Finished
  <1>4. FilesInv'
    BY <1>2, FilesStep, FilesOthers DEF Next, Finished
  <1>5. QED
    BY <1>1, <1>3, <1>4 DEF ExclusiveInv

\* With exclusive resets the invariant holds throughout.
LEMMA ExclusiveInductive == ExclusiveReset => (Spec => []ExclusiveInv)
  <1> SUFFICES ASSUME ExclusiveReset PROVE Spec => []ExclusiveInv
    OBVIOUS
  <1>1. ExclusiveInv /\ [Next]_vars => ExclusiveInv'
    BY StepExclusive
  <1>2. QED
    BY <1>1, InitExclusive, PTL DEF Spec

\* The configuration file of a player that exists is empty or names the port
\* under which the registry knows the player, if resets are exclusive.
THEOREM FilesMatch == ExclusiveReset => (Spec => []ConfigMatchesRegistry)
  <1>1. ExclusiveInv => ConfigMatchesRegistry
    BY DEF ExclusiveInv, FilesInv
  <1>2. QED
    BY <1>1, ExclusiveInductive, PTL

\* No interleaving of startups, shutdowns, crashes and restarts leaves a player
\* with two conductors, if resets are exclusive.
THEOREM OneConductor == ExclusiveReset => (Spec => []OneConductorPerPlayer)
  <1>1. ExclusiveInv => OneConductorPerPlayer
    BY DEF ExclusiveInv, ConductorsInv, OneConductorPerPlayer, Conductor, Unreaped,
           Alive
  <1>2. QED
    BY <1>1, ExclusiveInductive, PTL

\* An answer is given by a step of the handler itself.
LEMMA AnswerStep ==
    ASSUME OrphanInv, [Next]_vars, NEW c \in Clients, AnsweredOk(c)
    PROVE  HandlerStep(c) /\ \A label \in Labels \ {"idle"} : \A f : ~Goto(c, label, f)
  <1>1. ASSUME NEW d \in Clients, NEW op \in Ops, NEW id \in Ids \cup {None},
               Receive(d, op, id)
        PROVE  FALSE
    BY <1>1, KindsAssumption
       DEF Receive, AnsweredOk, Busy, OrphanInv, TypeOK, SessionsType, FirstLabel, OpNames
  <1>2. ASSUME UNCHANGED pc
        PROVE  FALSE
    BY <1>2 DEF AnsweredOk, Busy
  <1>3. ASSUME NEW d \in Clients, d # c, HandlerStep(d)
        PROVE  FALSE
    BY <1>3, Steps DEF AnsweredOk, Busy
  <1>4. ASSUME NEW label \in Labels \ {"idle"}, NEW f, Goto(c, label, f)
        PROVE  FALSE
    BY <1>4, GotoLocals DEF AnsweredOk, OrphanInv
  <1>5. QED
    BY <1>1, <1>2, <1>3, <1>4
       DEF Next, Finished, ProcessReady, ProcessExits, vars, sessions

\* The answer to a shutdown is given when its player has no conductor.
LEMMA ShutdownAnswer ==
    ASSUME ExclusiveInv, [Next]_vars, NEW c \in Clients, req[c].op = "shutdown",
           AnsweredOk(c), NEW p \in Pids, kind[p] = "holochain", owner[p] = Id(c)
    PROVE  status'[p] \notin {"running", "dying"}
  <1>1. /\ OrphanInv /\ HandlerStep(c) /\ Busy(c) /\ reply'[c] = "ok"
        /\ \A label \in Labels \ {"idle"} : \A f : ~Goto(c, label, f)
        /\ pc[c] \in ShutdownLabels \cup KillLabels
    BY AnswerStep
       DEF ExclusiveInv, AnsweredOk, StopInv, Busy, OrphanInv, FramesInv, FrameOf
  <1>2. /\ ~Resetting /\ FrameOf(c) /\ CellOf(c) /\ Id(c) \in Ids
        /\ status \in [Pids -> {"unborn", "running", "dying", "zombie", "reaped"}]
        /\ frame[c] \in Frame
    BY <1>1, Working
       DEF ExclusiveInv, OrphanInv, FramesInv, FrameOf, CellsInv, Busy, ResetKills,
           TypeOK, SystemType, SessionsType
  <1>3. Conductor(p) => processes[Id(c)] # None /\ processes[Id(c)].holochain = p
    BY <1>2 DEF ExclusiveInv, ConductorsInv
  <1>4. Shutdown(c) \/ WaitLair(c)
    BY <1>1
       DEF HandlerStep, ConfigurePlayer, CreateDir, ConfigExists, LoadPort,
           FetchPort, InsertPlayer, CreateConfig, WriteConfig, Startup, StartupGet,
           StartupLock, SpawnLair, LairReady, SpawnShim, ShimReady, SpawnHolochain,
           SpawnTee, HolochainReady, WaitHolochain, ResetTake, ResetKill, AdminGet,
           AdminCall, Labels
  <1>5. "ok" # "error" /\ \A r : Return(c, r) => r = "ok"
    BY <1>1 DEF Return, OrphanInv, TypeOK, SessionsType
  <1>6. CASE ShutdownCheck(c)
    BY <1>1, <1>5, <1>6 DEF ShutdownCheck, Labels
  <1>7. CASE ShutdownGet(c)
    <2>1. Id(c) \notin players /\ UNCHANGED status
      BY <1>1, <1>7 DEF ShutdownGet, Labels, system
    <2>2. ~Conductor(p)
      BY <1>2, <1>3, <2>1 DEF OrphanInv, ExclusiveInv, RegisteredInv
    <2>3. QED
      BY <2>1, <2>2 DEF Conductor, Unreaped
  <1>8. CASE ShutdownLock(c)
    <2>1. processes[Id(c)] = None /\ UNCHANGED status
      BY <1>1, <1>8 DEF ShutdownLock, Labels
    <2>2. QED
      BY <1>3, <2>1 DEF Conductor, Unreaped
  <1>9. CASE WaitLair(c)
    <2>1. /\ processes[Id(c)] = frame[c].victim
          /\ status[frame[c].victim.holochain] = "reaped"
          /\ frame[c].victim.lair \in Pids
      BY <1>2, <1>9 DEF WaitLair, CellOf, FrameOf, Frame, PlayerProcesses
    <2>2. ~Conductor(p)
      BY <1>3, <2>1 DEF Conductor, Unreaped
    <2>3. status[p] \in {"unborn", "reaped"}
      BY <2>2 DEF Conductor, Unreaped
    <2>4. QED
      BY <1>2, <1>9, <2>1, <2>3 DEF WaitLair
  <1>10. QED
    BY <1>4, <1>6, <1>7, <1>8, <1>9 DEF Shutdown

\* When shutdown has answered ok the conductor of the player is not running,
\* whatever other sessions do with the same player, if resets are exclusive.
THEOREM ShutdownStops == ExclusiveReset => (Spec => ShutdownStopsConductor)
  <1>1. ExclusiveInv /\ [Next]_vars =>
          [\A c \in Clients : req[c].op = "shutdown" /\ AnsweredOk(c) =>
              \A p \in Pids : kind[p] = "holochain" /\ owner[p] = Id(c) =>
                  status'[p] \notin {"running", "dying"}]_vars
    BY ShutdownAnswer
  <1>2. QED
    BY <1>1, ExclusiveInductive, PTL DEF Spec, ShutdownStopsConductor

\* The answer to a reset is given when every conductor has been reaped.
LEMMA ResetAnswer ==
    ASSUME ExclusiveInv, [Next]_vars, NEW c \in Clients, req[c].op = "reset",
           AnsweredOk(c), NEW p \in Pids, kind[p] = "holochain"
    PROVE  status'[p] = "reaped"
  <1>1. /\ OrphanInv /\ HandlerStep(c) /\ Busy(c) /\ reply'[c] = "ok"
        /\ \A label \in Labels \ {"idle"} : \A f : ~Goto(c, label, f)
        /\ pc[c] \in ResetLabels \cup KillLabels
    BY AnswerStep
       DEF ExclusiveInv, AnsweredOk, StopInv, Busy, OrphanInv, FramesInv, FrameOf
  <1>2. WaitHolochain(c) \/ WaitLair(c) \/ ResetTake(c) \/ ResetKill(c)
    BY <1>1
       DEF HandlerStep, ConfigurePlayer, CreateDir, ConfigExists, LoadPort,
           FetchPort, InsertPlayer, CreateConfig, WriteConfig, Startup, StartupGet,
           StartupLock, SpawnLair, LairReady, SpawnShim, ShimReady, SpawnHolochain,
           SpawnTee, HolochainReady, Shutdown, ShutdownCheck, ShutdownGet,
           ShutdownLock, AdminGet, AdminCall
  <1>3. \A r : Return(c, r) => r = "ok"
    BY <1>1 DEF Return, OrphanInv, TypeOK, SessionsType
  <1>4. ~WaitHolochain(c) /\ ~WaitLair(c) /\ ~ResetTake(c)
    BY <1>1, <1>3 DEF WaitHolochain, WaitLair, ResetTake, Labels
  <1>5. pc[c] = "reset_kill" /\ frame[c].taken = {} /\ UNCHANGED status
    <2>1. \A f : ~Goto(c, "wait_holochain", f)
      BY <1>1 DEF Labels
    <2>2. QED
      BY <1>2, <1>4, <2>1 DEF ResetKill
  <1>6. ~Conductor(p)
    BY <1>5, NoneLeft DEF ExclusiveInv
  <1>7. status[p] # "unborn"
    BY NoneAssumption DEF ExclusiveInv, OrphanInv, SpawnedInv, TypeOK, SystemType
  <1>8. QED
    BY <1>5, <1>6, <1>7 DEF Conductor, Unreaped

\* When reset has answered ok every conductor that was ever spawned has been
\* reaped, if resets are exclusive.
THEOREM ResetStops == ExclusiveReset => (Spec => ResetStopsConductors)
  <1>1. ExclusiveInv /\ [Next]_vars =>
          [\A c \in Clients : req[c].op = "reset" /\ AnsweredOk(c) =>
              \A p \in Pids : kind[p] = "holochain" => status'[p] = "reaped"]_vars
    BY ResetAnswer
  <1>2. QED
    BY <1>1, ExclusiveInductive, PTL DEF Spec, ResetStopsConductors

\* The initial ports.
LEMMA InitDial == Init => DialInv
  <1> SUFFICES ASSUME Init PROVE DialInv
    OBVIOUS
  <1>1. CounterInv
    <2>1. Unfetched = {}
      BY DEF Init, Unfetched
    <2>2. QED
      BY <2>1, FS_EmptySet, CountsAssumption DEF Init, CounterInv
  <1>2. PortsInv /\ BoundInv /\ AdminInv
    BY CountsAssumption DEF Init, PortsInv, UniqueAdminPorts, BoundInv, AdminInv
  <1>3. QED
    BY <1>1, <1>2, InitExclusive DEF DialInv

\* A handler leaves the requests that have a port to take when it takes one,
\* and never joins them again.
LEMMA UnfetchedNext ==
    ASSUME OrphanInv, NEW c \in Clients, HandlerStep(c)
    PROVE  Unfetched' \subseteq Unfetched /\ (FetchPort(c) => c \notin Unfetched')
  <1>1. SUFFICES /\ c \in Unfetched' => c \in Unfetched
                 /\ FetchPort(c) => c \notin Unfetched'
    BY Steps DEF Unfetched
  <1>2. ASSUME NEW label, NEW f, Goto(c, label, f)
        PROVE  pc'[c] = label
    BY <1>2, GotoLocals DEF OrphanInv
  <1>3. ASSUME NEW r, Return(c, r)
        PROVE  pc'[c] = "idle"
    BY <1>3, ReturnLocals DEF OrphanInv
  <1>4. CASE ConfigurePlayer(c)
    BY <1>2, <1>3, <1>4
       DEF Unfetched, ConfigurePlayer, CreateDir, ConfigExists, LoadPort, FetchPort,
           InsertPlayer, CreateConfig, WriteConfig
  <1>5. CASE Startup(c)
    BY <1>2, <1>3, <1>5
       DEF Unfetched, Startup, StartupGet, StartupLock, SpawnLair, LairReady,
           SpawnShim, ShimReady, SpawnHolochain, SpawnTee, HolochainReady,
           AbortStartup, ReadFirstByte, FetchPort
  <1>6. CASE Shutdown(c) \/ WaitHolochain(c) \/ WaitLair(c) \/ ResetTake(c) \/ AdminGet(c) \/ AdminCall(c)
    BY <1>2, <1>3, <1>6
       DEF Unfetched, Shutdown, ShutdownCheck, ShutdownGet, ShutdownLock,
           WaitHolochain, WaitLair, ResetTake, AdminGet, AdminCall, FetchPort
  <1>7. CASE ResetKill(c)
    <2>1. ASSUME NEW f, Goto(c, "wait_holochain", f)
          PROVE  pc'[c] = "wait_holochain"
      BY <2>1, <1>2
    <2>2. QED
      BY <1>3, <1>7, <2>1 DEF ResetKill, Unfetched, FetchPort
  <1>8. QED
    BY <1>4, <1>5, <1>6, <1>7 DEF HandlerStep

\* The counter is changed by a configure, which adds one, and by a reset.
LEMMA CounterNext ==
    ASSUME NEW c \in Clients, HandlerStep(c)
    PROVE  \/ UNCHANGED next_admin_port
           \/ FetchPort(c)
           \/ ResetTake(c) /\ next_admin_port' = FirstPort
  BY DEF HandlerStep, ConfigurePlayer, CreateDir, ConfigExists, LoadPort, FetchPort,
         InsertPlayer, CreateConfig, WriteConfig, Startup, StartupGet, StartupLock,
         SpawnLair, LairReady, SpawnShim, ShimReady, SpawnHolochain, SpawnTee,
         HolochainReady, AbortStartup, ReadFirstByte, Shutdown, ShutdownCheck,
         ShutdownGet, ShutdownLock, WaitHolochain, WaitLair, ResetTake, ResetKill,
         AdminGet, AdminCall, registry

\* While the counter obeys its bound the ports have not run out.
LEMMA NoWrapAround ==
    ASSUME PortsSuffice, TypeOK, CounterInv, NEW c \in Clients, FetchPort(c)
    PROVE  next_admin_port' = next_admin_port + 1
  <1>1. /\ c \in Unfetched /\ IsFiniteSet(Unfetched)
        /\ next_admin_port + Cardinality(Unfetched) <= FirstPort + issued
        /\ issued \in 0..MaxRequests /\ next_admin_port \in 0..(PortSpace - 1)
    BY DEF FetchPort, Unfetched, CounterInv, TypeOK, RegistryType, SessionsType
  <1>2. Cardinality(Unfetched) \in Nat /\ Cardinality(Unfetched) # 0
    BY <1>1, FS_CardinalityType, FS_EmptySet
  <1>3. next_admin_port + 1 < PortSpace /\ next_admin_port + 1 >= 0
    BY <1>1, <1>2, CountsAssumption DEF PortsSuffice
  <1>4. (next_admin_port + 1) % PortSpace = next_admin_port + 1
    BY <1>1, <1>3, CountsAssumption
  <1>5. QED
    BY <1>4 DEF FetchPort

\* The counter keeps its bound.
LEMMA CounterStep ==
    ASSUME PortsSuffice, OrphanInv, AloneInv, CounterInv, [Next]_vars
    PROVE  CounterInv'
  <1>1. /\ IsFiniteSet(Unfetched) /\ Cardinality(Unfetched) \in Nat
        /\ next_admin_port + Cardinality(Unfetched) <= FirstPort + issued
        /\ issued \in Nat /\ next_admin_port \in Nat /\ FirstPort \in Nat
        /\ TypeOK
    BY FS_CardinalityType, CountsAssumption
       DEF CounterInv, OrphanInv, TypeOK, RegistryType, SessionsType
  <1>2. ASSUME NEW c \in Clients, NEW op \in Ops, NEW id \in Ids \cup {None},
               Receive(c, op, id)
        PROVE  CounterInv'
    <2>1. /\ c \notin Unfetched /\ Unfetched' \subseteq Unfetched \cup {c}
          /\ issued' = issued + 1 /\ UNCHANGED next_admin_port
      BY <1>2 DEF Receive, Unfetched, Busy, OrphanInv, TypeOK, SessionsType, registry
    <2>2. /\ IsFiniteSet(Unfetched \cup {c})
          /\ Cardinality(Unfetched \cup {c}) = Cardinality(Unfetched) + 1
      BY <1>1, <2>1, FS_AddElement
    <2>3. /\ IsFiniteSet(Unfetched') /\ Cardinality(Unfetched') \in Nat
          /\ Cardinality(Unfetched') <= Cardinality(Unfetched) + 1
      BY <2>1, <2>2, FS_Subset, FS_CardinalityType
    <2>4. QED
      BY <1>1, <2>1, <2>3 DEF CounterInv
  <1>3. ASSUME NEW c \in Clients, HandlerStep(c)
        PROVE  CounterInv'
    <2>1. Unfetched' \subseteq Unfetched /\ UNCHANGED issued
      BY <1>3, UnfetchedNext, Steps
    <2>2. /\ IsFiniteSet(Unfetched') /\ Cardinality(Unfetched') \in Nat
          /\ Cardinality(Unfetched') <= Cardinality(Unfetched)
      BY <1>1, <2>1, FS_Subset, FS_CardinalityType
    <2>3. CASE FetchPort(c)
      <3>1. c \in Unfetched /\ Unfetched' \subseteq Unfetched \ {c}
        BY <1>3, <2>1, <2>3, UnfetchedNext DEF FetchPort, Unfetched
      <3>2. /\ IsFiniteSet(Unfetched \ {c})
            /\ Cardinality(Unfetched \ {c}) = Cardinality(Unfetched) - 1
        BY <1>1, <3>1, FS_RemoveElement
      <3>3. Cardinality(Unfetched') <= Cardinality(Unfetched) - 1
        BY <3>1, <3>2, FS_Subset
      <3>4. next_admin_port' = next_admin_port + 1
        BY <1>1, <2>3, NoWrapAround
      <3>5. QED
        BY <1>1, <2>1, <2>2, <3>3, <3>4 DEF CounterInv
    <2>4. CASE ResetTake(c) /\ next_admin_port' = FirstPort
      <3>1. Busy(c) /\ pc[c] = "reset_take"
        BY <2>4 DEF ResetTake, Busy
      <3>2. Unfetched = {}
        BY <3>1, Working DEF Unfetched, Busy
      <3>3. Unfetched' = {}
        BY <2>1, <3>2
      <3>4. Cardinality(Unfetched') = 0
        BY <3>3, FS_EmptySet
      <3>5. QED
        BY <1>1, <2>1, <2>2, <2>4, <3>4 DEF CounterInv
    <2>5. CASE UNCHANGED next_admin_port
      BY <1>1, <2>1, <2>2, <2>5 DEF CounterInv
    <2>6. QED
      BY <1>3, <2>3, <2>4, <2>5, CounterNext
  <1>4. CASE UNCHANGED <<pc, issued, next_admin_port>>
    BY <1>4 DEF CounterInv, Unfetched
  <1>5. QED
    BY <1>2, <1>3, <1>4
       DEF Next, Finished, ProcessReady, ProcessExits, vars, sessions, registry

\* The players change when one is inserted and when a reset takes the map.
LEMMA PlayersNext ==
    ASSUME CleanReset, NEW c \in Clients, HandlerStep(c)
    PROVE  \/ UNCHANGED <<players, admin_port>>
           \/ InsertPlayer(c)
           \/ ResetTake(c) /\ players' = {} /\ Goto(c, "reset_kill", [frame[c] EXCEPT !.taken = TakenPairs])
  BY DEF CleanReset, HandlerStep, ConfigurePlayer, CreateDir, ConfigExists, LoadPort,
         FetchPort, InsertPlayer, CreateConfig, WriteConfig, Startup, StartupGet,
         StartupLock, SpawnLair, LairReady, SpawnShim, ShimReady, SpawnHolochain,
         SpawnTee, HolochainReady, AbortStartup, ReadFirstByte, Shutdown,
         ShutdownCheck, ShutdownGet, ShutdownLock, WaitHolochain, WaitLair,
         ResetTake, ResetKill, AdminGet, AdminCall, registry

\* Where inserting a player leads.
LEMMA InsertNext ==
    ASSUME OrphanInv, NEW c \in Clients, InsertPlayer(c),
           ~UNCHANGED <<players, admin_port>>
    PROVE  /\ pc[c] = "insert" /\ pc'[c] = "create_config" /\ Id(c) \in Ids
           /\ Id(c) \notin players /\ players' = players \cup {Id(c)}
           /\ admin_port'[Id(c)] = frame[c].port
           /\ \A i \in Ids \ {Id(c)} : admin_port'[i] = admin_port[i]
           /\ UNCHANGED <<next_admin_port, processes, system>>
  <1>1. FrameOf(c) /\ RegistryType
    BY DEF OrphanInv, FramesInv, TypeOK
  <1>2. pc[c] = "insert" /\ Id(c) \in Ids /\ ~ContainsKey(c)
    BY <1>1 DEF InsertPlayer, FrameOf
  <1>3. pc'[c] = "create_config"
    BY <1>2, GotoLocals DEF InsertPlayer, OrphanInv
  <1>4. QED
    BY <1>1, <1>2, <1>3 DEF InsertPlayer, RegistryType

\* No port is given to two players, by a step of a handler.
LEMMA PortsStep ==
    ASSUME PortsSuffice, CleanReset, OrphanInv, AloneInv, CounterInv, PortsInv,
           NEW c \in Clients, HandlerStep(c)
    PROVE  PortsInv'
  <1>1. /\ \A d \in Clients \ {c} : pc'[d] = pc[d] /\ frame'[d] = frame[d]
        /\ pc'[c] = "insert" => pc[c] = "fetch_port"
        /\ TypeOK /\ RegistryType /\ next_admin_port \in Nat /\ FirstPort \in Nat
        /\ frame[c] \in Frame
    BY Steps, CountsAssumption DEF OrphanInv, TypeOK, RegistryType, SessionsType
  <1>2. CASE UNCHANGED <<players, admin_port, next_admin_port>> /\ pc'[c] # "insert"
    <2>1. FirstPort <= next_admin_port'
          /\ (\A i \in players' : Taken(admin_port[i])') /\ UniqueAdminPorts'
      BY <1>2 DEF PortsInv, Taken, UniqueAdminPorts
    <2>2. \A d \in Clients : pc'[d] = "insert" => d # c /\ pc[d] = "insert" /\ frame'[d] = frame[d]
      BY <1>1, <1>2
    <2>3. QED
      BY <1>2, <2>1, <2>2 DEF PortsInv, Taken
  <1>3. CASE FetchPort(c)
    <2>1. next_admin_port' = next_admin_port + 1
      BY <1>1, <1>3, NoWrapAround
    <2>2. /\ pc[c] = "fetch_port" /\ frame'[c].port = next_admin_port
          /\ UNCHANGED <<players, admin_port>>
      BY <1>1, <1>3, GotoLocals DEF FetchPort, Frame
    <2>3. \A i \in players : admin_port'[i] \in FirstPort .. (next_admin_port - 1)
      BY <2>2 DEF PortsInv, Taken
    <2>4. \A d \in Clients \ {c} : pc'[d] = "insert" =>
              pc[d] = "insert" /\ frame'[d].port \in FirstPort .. (next_admin_port - 1)
      BY <1>1 DEF PortsInv, Taken
    <2>5. UniqueAdminPorts' /\ FirstPort <= next_admin_port
      BY <2>2 DEF PortsInv, UniqueAdminPorts
    <2>6. ASSUME NEW d \in Clients, pc'[d] = "insert"
          PROVE  /\ Taken(frame[d].port)'
                 /\ \A i \in players' : admin_port'[i] # frame'[d].port
                 /\ \A e \in Clients :
                       pc'[e] = "insert" /\ frame'[e].port = frame'[d].port => d = e
      <3>1. CASE d = c
        BY <1>1, <2>1, <2>2, <2>3, <2>4, <2>5, <3>1 DEF Taken
      <3>2. CASE d # c
        BY <1>1, <2>1, <2>2, <2>4, <2>5, <2>6, <3>2 DEF Taken, PortsInv
      <3>3. QED
        BY <3>1, <3>2
    <2>7. \A i \in players' : Taken(admin_port[i])'
      BY <1>1, <2>1, <2>2, <2>3, <2>5 DEF Taken
    <2>8. FirstPort <= next_admin_port'
      BY <1>1, <2>1, <2>5
    <2>9. QED
      BY <2>5, <2>6, <2>7, <2>8 DEF PortsInv
  <1>4. CASE InsertPlayer(c) /\ ~UNCHANGED <<players, admin_port>>
    <2>1. /\ pc[c] = "insert" /\ pc'[c] = "create_config" /\ Id(c) \in Ids
          /\ Id(c) \notin players /\ players' = players \cup {Id(c)}
          /\ admin_port'[Id(c)] = frame[c].port
          /\ \A i \in Ids \ {Id(c)} : admin_port'[i] = admin_port[i]
          /\ UNCHANGED next_admin_port
      BY <1>4, InsertNext
    <2>2. \A i \in players : i \in Ids \ {Id(c)} /\ admin_port'[i] = admin_port[i]
      BY <1>1, <2>1 DEF RegistryType
    <2>3. UniqueAdminPorts'
      BY <2>1, <2>2 DEF PortsInv, UniqueAdminPorts
    <2>4. \A i \in players' : Taken(admin_port[i])'
      BY <2>1, <2>2 DEF PortsInv, Taken
    <2>5. \A d \in Clients : pc'[d] = "insert" => d # c /\ pc[d] = "insert" /\ frame'[d] = frame[d]
      BY <1>1, <2>1
    <2>6. \A d \in Clients : pc'[d] = "insert" =>
              /\ Taken(frame[d].port)'
              /\ \A i \in players' : admin_port'[i] # frame'[d].port
              /\ \A e \in Clients : pc'[e] = "insert" /\ frame'[e].port = frame'[d].port => d = e
      BY <2>1, <2>2, <2>5 DEF PortsInv, Taken
    <2>7. QED
      BY <2>1, <2>3, <2>4, <2>6 DEF PortsInv
  <1>5. CASE ResetTake(c) /\ next_admin_port' = FirstPort /\ players' = {}
    <2>1. \A d \in Clients : pc'[d] # "insert"
      <3>1. pc[c] = "reset_take" /\ Busy(c)
        BY <1>5 DEF ResetTake, Busy
      <3>2. QED
        BY <1>1, <3>1, Working DEF Busy
    <2>2. QED
      BY <1>1, <1>5, <2>1 DEF PortsInv, UniqueAdminPorts
  <1>6. FetchPort(c) \/ pc'[c] # "insert"
    <2>1. pc[c] = "fetch_port" => FetchPort(c)
      BY DEF HandlerStep, ConfigurePlayer, CreateDir, ConfigExists, LoadPort,
             InsertPlayer, CreateConfig, WriteConfig, Startup, StartupGet,
             StartupLock, SpawnLair, LairReady, SpawnShim, ShimReady, SpawnHolochain,
             SpawnTee, HolochainReady, Shutdown, ShutdownCheck, ShutdownGet,
             ShutdownLock, WaitHolochain, WaitLair, ResetTake, ResetKill, AdminGet,
             AdminCall
    <2>2. QED
      BY <1>1, <2>1
  <1>7. InsertPlayer(c) => UNCHANGED next_admin_port
    BY DEF InsertPlayer
  <1>8. ResetTake(c) => next_admin_port' = FirstPort /\ players' = {}
    BY DEF ResetTake, CleanReset
  <1>9. QED
    BY <1>2, <1>3, <1>4, <1>5, <1>6, <1>7, <1>8, PlayersNext, CounterNext

\* A handler that is about to dial the port of its player has the right one.
LEMMA AdminStep ==
    ASSUME CleanReset, OrphanInv, AloneInv, AdminInv, NEW c \in Clients, HandlerStep(c)
    PROVE  AdminInv'
  <1>1. /\ \A d \in Clients \ {c} : pc'[d] = pc[d] /\ frame'[d] = frame[d]
        /\ UNCHANGED req /\ RegistryType /\ TypeOK /\ frame[c] \in Frame /\ Busy(c)
    BY Steps DEF OrphanInv, TypeOK, SessionsType
  <1>2. ASSUME pc'[c] = "admin_call"
        PROVE  AdminGet(c) /\ Goto(c, "admin_call", [frame[c] EXCEPT !.port = admin_port[Id(c)]])
    <2>1. ASSUME NEW label \in Labels \ {"admin_call"}, NEW f, Goto(c, label, f)
          PROVE  FALSE
      BY <1>1, <1>2, <2>1, GotoLocals
    <2>2. ASSUME NEW r, Return(c, r)
          PROVE  FALSE
      BY <1>1, <1>2, <2>2, ReturnLocals
    <2>3. ~ConfigurePlayer(c)
      BY <2>1, <2>2
         DEF ConfigurePlayer, CreateDir, ConfigExists, LoadPort, FetchPort,
             InsertPlayer, CreateConfig, WriteConfig, Labels
    <2>4. ~Startup(c)
      BY <2>1, <2>2
         DEF Startup, StartupGet, StartupLock, SpawnLair, LairReady, SpawnShim,
             ShimReady, SpawnHolochain, SpawnTee, HolochainReady, AbortStartup,
             ReadFirstByte, Labels
    <2>5. ~Shutdown(c) /\ ~WaitHolochain(c) /\ ~WaitLair(c) /\ ~ResetTake(c) /\ ~AdminCall(c)
      BY <2>1, <2>2
         DEF Shutdown, ShutdownCheck, ShutdownGet, ShutdownLock, WaitHolochain,
             WaitLair, ResetTake, AdminCall, Labels
    <2>6. ~ResetKill(c)
      <3>1. \A f : ~Goto(c, "wait_holochain", f)
        BY <2>1 DEF Labels
      <3>2. QED
        BY <2>2, <3>1 DEF ResetKill
    <2>7. AdminGet(c)
      BY <2>3, <2>4, <2>5, <2>6 DEF HandlerStep
    <2>8. QED
      BY <2>2, <2>7 DEF AdminGet
  <1>3. CASE AdminGet(c)
    <2>1. UNCHANGED <<players, admin_port>> /\ pc[c] = "admin_get"
      BY <1>3 DEF AdminGet, registry
    <2>2. pc'[c] = "admin_call" => Id(c) \in players /\ frame'[c].port = admin_port[Id(c)]
      <3>1. SUFFICES ASSUME pc'[c] = "admin_call"
                     PROVE  Id(c) \in players /\ frame'[c].port = admin_port[Id(c)]
        OBVIOUS
      <3>2. frame'[c] = [frame[c] EXCEPT !.port = admin_port[Id(c)]]
        BY <1>1, <1>2, <3>1, GotoLocals
      <3>3. Id(c) \in players
        <4>1. ~Return(c, "error")
          BY <1>1, <3>1, ReturnLocals
        <4>2. QED
          BY <1>3, <4>1 DEF AdminGet
      <3>4. QED
        BY <1>1, <3>2, <3>3 DEF Frame
    <2>3. QED
      BY <1>1, <2>1, <2>2 DEF AdminInv
  <1>4. CASE pc'[c] # "admin_call"
    <2>1. CASE UNCHANGED <<players, admin_port>>
      BY <1>1, <1>4, <2>1 DEF AdminInv
    <2>2. CASE InsertPlayer(c) /\ ~UNCHANGED <<players, admin_port>>
      <3>1. /\ Id(c) \notin players /\ players' = players \cup {Id(c)}
            /\ \A i \in Ids \ {Id(c)} : admin_port'[i] = admin_port[i]
            /\ players \subseteq Ids
        BY <1>1, <2>2, InsertNext DEF RegistryType
      <3>2. QED
        BY <1>1, <1>4, <3>1 DEF AdminInv
    <2>3. CASE ResetTake(c)
      <3>1. \A d \in Clients \ {c} : pc[d] = "idle"
        BY <1>1, <2>3, Working DEF ResetTake, Busy
      <3>2. QED
        BY <1>1, <1>4, <3>1 DEF AdminInv
    <2>4. QED
      BY <2>1, <2>2, <2>3, PlayersNext
  <1>5. QED
    BY <1>2, <1>3, <1>4

\* A handler disturbs no process that is bound to a port: it reaps only those
\* that have ended.
LEMMA AliveStep ==
    ASSUME OrphanInv, NEW c \in Clients, HandlerStep(c), NEW p \in Pids, Alive(p)
    PROVE  /\ Alive(p)' /\ kind'[p] = kind[p] /\ owner'[p] = owner[p]
           /\ UNCHANGED bound
  <1>1. SystemType /\ FrameOf(c) /\ SpawnedInv /\ RegistryType /\ frame[c] \in Frame
    BY DEF OrphanInv, TypeOK, FramesInv, SessionsType
  <1>2. CASE UNCHANGED system
    BY <1>2 DEF Alive, system
  <1>3. ASSUME NEW k, Spawn(c, k)
        PROVE  /\ Alive(p)' /\ kind'[p] = kind[p] /\ owner'[p] = owner[p]
               /\ UNCHANGED bound
    <2>1. p # next_pid
      BY <1>1 DEF SpawnedInv, SystemType, Alive
    <2>2. QED
      BY <1>1, <1>3, <2>1 DEF Spawn, SystemType, Alive
  <1>4. ASSUME NEW q, status' = Signalled(q)
        PROVE  Alive(p)'
    BY <1>1, <1>4 DEF Signalled, SystemType, Alive
  <1> USE <1>2, <1>3
  <1>5. CASE CreateDir(c)
    BY <1>5 DEF CreateDir
  <1>6. CASE ConfigExists(c)
    BY <1>6 DEF ConfigExists
  <1>7. CASE LoadPort(c)
    BY <1>7 DEF LoadPort
  <1>8. CASE FetchPort(c)
    BY <1>8 DEF FetchPort
  <1>9. CASE InsertPlayer(c)
    BY <1>9 DEF InsertPlayer
  <1>10. CASE CreateConfig(c)
    BY <1>10 DEF CreateConfig
  <1>11. CASE WriteConfig(c)
    BY <1>11 DEF WriteConfig
  <1>12. CASE StartupGet(c)
    BY <1>12 DEF StartupGet
  <1>13. CASE StartupLock(c)
    BY <1>13 DEF StartupLock
  <1>14. CASE SpawnLair(c)
    BY <1>14 DEF SpawnLair, AbortStartup
  <1>15. CASE LairReady(c)
    BY <1>15 DEF LairReady, AbortStartup, ReadFirstByte
  <1>16. CASE SpawnShim(c)
    BY <1>16 DEF SpawnShim, AbortStartup
  <1>17. CASE ShimReady(c)
    BY <1>17 DEF ShimReady, AbortStartup, ReadFirstByte
  <1>18. CASE SpawnHolochain(c)
    BY <1>18 DEF SpawnHolochain, AbortStartup
  <1>19. CASE SpawnTee(c)
    BY <1>19 DEF SpawnTee
  <1>20. CASE HolochainReady(c)
    BY <1>20 DEF HolochainReady
  <1>21. CASE ShutdownCheck(c)
    BY <1>21 DEF ShutdownCheck
  <1>22. CASE ShutdownGet(c)
    BY <1>22 DEF ShutdownGet
  <1>23. CASE ShutdownLock(c)
    <2>1. Alive(p)'
      BY <1>23, <1>4 DEF ShutdownLock, Alive
    <2>2. QED
      BY <1>23, <2>1 DEF ShutdownLock
  <1>24. CASE WaitHolochain(c)
    <2>1. frame[c].victim.lair \in Pids /\ frame[c].victim.holochain \in Pids
      BY <1>1, <1>24 DEF WaitHolochain, FrameOf, Frame, PlayerProcesses
    <2>2. QED
      BY <1>1, <1>24, <2>1 DEF WaitHolochain, Signalled, SystemType, Alive
  <1>25. CASE WaitLair(c)
    <2>1. QED
      BY <1>1, <1>25 DEF WaitLair, SystemType, Alive
  <1>26. CASE ResetTake(c)
    <2>1. QED
      BY <1>26 DEF ResetTake, Alive
  <1>27. CASE ResetKill(c)
    <2>1. CASE UNCHANGED status
      BY <1>27, <2>1 DEF ResetKill, Alive
    <2>2. ASSUME NEW pair \in frame[c].taken, status' = Signalled(pair.holochain)
          PROVE  Alive(p)'
      BY <2>2, <1>4
    <2>3. QED
      BY <1>27, <2>1, <2>2 DEF ResetKill
  <1>28. CASE AdminGet(c)
    BY <1>28 DEF AdminGet
  <1>29. CASE AdminCall(c)
    BY <1>29 DEF AdminCall
  <1>30. QED
    BY <1>5, <1>6, <1>7, <1>8, <1>9, <1>10, <1>11, <1>12, <1>13, <1>14, <1>15, <1>16,
       <1>17, <1>18, <1>19, <1>20, <1>21, <1>22, <1>23, <1>24, <1>25, <1>26, <1>27,
       <1>28, <1>29
       DEF HandlerStep, ConfigurePlayer, Startup, Shutdown

\* A handler binds and unbinds nothing.
LEMMA BoundSame ==
    ASSUME NEW c \in Clients, HandlerStep(c)
    PROVE  UNCHANGED bound
  BY DEF HandlerStep, ConfigurePlayer, CreateDir, ConfigExists, LoadPort, FetchPort,
         InsertPlayer, CreateConfig, WriteConfig, Startup, StartupGet, StartupLock,
         SpawnLair, LairReady, SpawnShim, ShimReady, SpawnHolochain, Spawn, SpawnTee,
         HolochainReady, AbortStartup, ReadFirstByte, Shutdown, ShutdownCheck,
         ShutdownGet, ShutdownLock, WaitHolochain, WaitLair, ResetTake, ResetKill,
         AdminGet, AdminCall, system

\* A bound conductor listens on the port of its player.
LEMMA BoundStep ==
    ASSUME CleanReset, OrphanInv, AloneInv, ConductorsInv, BoundInv,
           NEW c \in Clients, HandlerStep(c)
    PROVE  BoundInv'
  <1>1. SUFFICES ASSUME NEW p \in Pids, bound'[p] # None
                 PROVE  /\ Alive(p)' /\ kind'[p] = "holochain"
                        /\ ~Resetting' => bound'[p] = admin_port'[owner'[p]]
    BY DEF BoundInv
  <1>2. bound[p] # None /\ Alive(p) /\ kind[p] = "holochain" /\ Conductor(p)
    BY <1>1, BoundSame DEF BoundInv, Conductor, Unreaped, Alive
  <1>3. /\ Alive(p)' /\ kind'[p] = "holochain" /\ owner'[p] = owner[p]
        /\ UNCHANGED bound /\ Conductor(p)'
    BY <1>2, AliveStep DEF Conductor, Unreaped, Alive
  <1>4. ASSUME ~Resetting'
        PROVE  bound[p] = admin_port'[owner[p]]
    <2>1. ~ResetTake(c) \/ UNCHANGED <<players, admin_port>>
      <3>1. ASSUME Goto(c, "reset_kill", [frame[c] EXCEPT !.taken = TakenPairs])
            PROVE  FALSE
        BY <1>4, <3>1, GotoLocals, WorkingNext DEF ResetKills, OrphanInv
      <3>2. QED
        BY <3>1, PlayersNext DEF ResetTake, CleanReset
    <2>2. processes'[owner[p]] # None
      BY <1>2, <1>3, <1>4, CellsStay
    <2>3. CASE ~Resetting
      <3>1. bound[p] = admin_port[owner[p]] /\ processes[owner[p]] # None /\ owner[p] \in Ids
        BY <1>2, <2>3, NoneAssumption
           DEF BoundInv, ConductorsInv, OrphanInv, SpawnedInv, TypeOK, SystemType
      <3>2. CASE InsertPlayer(c) /\ ~UNCHANGED <<players, admin_port>>
        <4>1. owner[p] # Id(c)
          BY <3>1, <3>2, InsertNext DEF OrphanInv, RegisteredInv
        <4>2. QED
          BY <3>1, <3>2, <4>1, InsertNext
      <3>3. CASE UNCHANGED <<players, admin_port>>
        BY <3>1, <3>3
      <3>4. QED
        BY <2>1, <3>2, <3>3, PlayersNext
    <2>4. CASE Resetting
      BY <1>2, <1>3, <1>4, <2>4, ResetEnds
    <2>5. QED
      BY <2>3, <2>4
  <1>5. QED
    BY <1>3, <1>4

\* Processes bind only the port in the configuration file of their player.
LEMMA BoundProcess ==
    ASSUME OrphanInv, ConductorsInv, FilesInv, BoundInv, NEW p \in Pids,
           ProcessReady(p) \/ ProcessExits(p)
    PROVE  BoundInv'
  <1>1. /\ UNCHANGED <<registry, files, sessions, kind, owner>>
        /\ SystemType /\ FilesType
        /\ Resetting' <=> Resetting
    BY ConductorsProcess DEF ProcessReady, ProcessExits, OrphanInv, TypeOK
  <1>2. CASE ProcessExits(p)
    BY <1>1, <1>2 DEF ProcessExits, BoundInv, Alive, SystemType, registry
  <1>3. CASE ProcessReady(p)
    <2>1. CASE UNCHANGED bound
      BY <1>1, <1>3, <2>1 DEF ProcessReady, BoundInv, Alive, SystemType, registry
    <2>2. CASE /\ kind[p] = "holochain" /\ config_port[owner[p]] # None
               /\ bound' = [bound EXCEPT ![p] = config_port[owner[p]]]
      <3>1. owner[p] \in Ids
        BY <2>2, NoneAssumption DEF OrphanInv, SpawnedInv
      <3>2. owner[p] \in config_files /\ config_port[owner[p]] = admin_port[owner[p]]
        BY <2>2, <3>1 DEF FilesInv, ConfigMatchesRegistry
      <3>3. QED
        BY <1>1, <1>3, <2>2, <3>2
           DEF ProcessReady, BoundInv, Alive, SystemType, registry
    <2>3. QED
      BY <1>3, <2>1, <2>2 DEF ProcessReady
  <1>4. QED
    BY <1>2, <1>3

\* The rest of the steps.
LEMMA DialOthers ==
    ASSUME OrphanInv, AloneInv, ConductorsInv, FilesInv, PortsInv, BoundInv, AdminInv,
           \/ \E c \in Clients, op \in Ops, id \in Ids \cup {None} : Receive(c, op, id)
           \/ \E p \in Pids : ProcessReady(p) \/ ProcessExits(p)
           \/ UNCHANGED vars
    PROVE  PortsInv' /\ BoundInv' /\ AdminInv'
  <1>1. UNCHANGED <<players, admin_port, next_admin_port, frame>>
    BY DEF Receive, ProcessReady, ProcessExits, vars, registry, sessions
  <1>2. \A c \in Clients :
            pc'[c] \in {"insert", "admin_call"} => pc'[c] = pc[c] /\ req'[c] = req[c]
    <2>1. ASSUME NEW c \in Clients, NEW op \in Ops, NEW id \in Ids \cup {None},
                 Receive(c, op, id), NEW d \in Clients, pc'[d] \in {"insert", "admin_call"}
          PROVE  pc'[d] = pc[d] /\ req'[d] = req[d]
      BY <2>1, KindsAssumption
         DEF Receive, OrphanInv, TypeOK, SessionsType, FirstLabel, OpNames
    <2>2. QED
      BY <2>1 DEF ProcessReady, ProcessExits, vars, sessions
  <1>3. PortsInv' /\ AdminInv'
    BY <1>1, <1>2 DEF PortsInv, Taken, UniqueAdminPorts, AdminInv
  <1>4. BoundInv'
    <2>1. ASSUME NEW c \in Clients, NEW op \in Ops, NEW id \in Ids \cup {None},
                 Receive(c, op, id)
          PROVE  BoundInv'
      BY <1>1, <2>1, ConductorsReceive DEF Receive, BoundInv, Alive, system
    <2>2. CASE UNCHANGED vars
      BY <2>2
         DEF vars, BoundInv, Alive, system, registry, sessions, Resetting, ResetKills
    <2>3. QED
      BY <2>1, <2>2, BoundProcess
  <1>5. QED
    BY <1>3, <1>4

\* Every step keeps the invariant of the ports.
LEMMA StepDial ==
    ASSUME PortsSuffice, CleanReset, DialInv, [Next]_vars
    PROVE  DialInv'
  <1>1. OrphanInv /\ AloneInv /\ ConductorsInv /\ FilesInv /\ CounterInv /\ PortsInv
        /\ BoundInv /\ AdminInv /\ ExclusiveInv
    BY DEF DialInv, ExclusiveInv
  <1>2. ExclusiveInv' /\ CounterInv'
    BY <1>1, StepExclusive, CounterStep DEF CleanReset
  <1>3. PortsInv' /\ BoundInv' /\ AdminInv'
    BY <1>1, PortsStep, BoundStep, AdminStep, DialOthers DEF Next, Finished
  <1>4. QED
    BY <1>2, <1>3 DEF DialInv

\* The invariant of the ports holds throughout.
LEMMA DialInductive == CleanReset /\ PortsSuffice => (Spec => []DialInv)
  <1> SUFFICES ASSUME CleanReset, PortsSuffice PROVE Spec => []DialInv
    OBVIOUS
  <1>1. DialInv /\ [Next]_vars => DialInv'
    BY StepDial
  <1>2. QED
    BY <1>1, InitDial, PTL DEF Spec

\* Two players never share an admin port, if resets are exclusive and succeed
\* and the ports suffice for the requests.
THEOREM PortsUnique == CleanReset /\ PortsSuffice => (Spec => []UniqueAdminPorts)
  <1>1. DialInv => UniqueAdminPorts
    BY DEF DialInv, PortsInv
  <1>2. QED
    BY <1>1, DialInductive, PTL

\* The conductor that answers an admin call is the one in the player's cell.
LEMMA DialsOwn ==
    ASSUME DialInv, [Next]_vars, NEW c \in Clients, pc[c] = "admin_call", AnsweredOk(c)
    PROVE  \E p \in Pids : /\ bound[p] = frame[c].port
                           /\ processes[Id(c)] # None
                           /\ processes[Id(c)].holochain = p
  <1>1. OrphanInv /\ AloneInv /\ ConductorsInv /\ PortsInv /\ BoundInv /\ AdminInv
    BY DEF DialInv, ExclusiveInv
  <1>2. HandlerStep(c) /\ reply'[c] = "ok"
    BY <1>1, AnswerStep DEF AnsweredOk
  <1>3. AdminCall(c)
    BY <1>2
       DEF HandlerStep, ConfigurePlayer, CreateDir, ConfigExists, LoadPort,
           FetchPort, InsertPlayer, CreateConfig, WriteConfig, Startup, StartupGet,
           StartupLock, SpawnLair, LairReady, SpawnShim, ShimReady, SpawnHolochain,
           SpawnTee, HolochainReady, Shutdown, ShutdownCheck, ShutdownGet,
           ShutdownLock, WaitHolochain, WaitLair, ResetTake, ResetKill, AdminGet
  <1>4. ~Return(c, "error")
    BY <1>1, <1>2 DEF Return, OrphanInv, TypeOK, SessionsType
  <1>5. PICK p \in Pids : bound[p] = frame[c].port
    BY <1>3, <1>4 DEF AdminCall
  <1>6. Id(c) \in players /\ frame[c].port = admin_port[Id(c)]
    BY <1>1 DEF AdminInv
  <1>7. frame[c].port # None
    BY <1>1, <1>6, CountsAssumption, NoneAssumption
       DEF PortsInv, Taken, OrphanInv, TypeOK, RegistryType
  <1>8. ~Resetting
    BY <1>1, Working DEF Busy, ResetKills
  <1>9. Conductor(p) /\ bound[p] = admin_port[owner[p]]
    BY <1>1, <1>5, <1>7, <1>8 DEF BoundInv, Conductor, Unreaped, Alive
  <1>10. processes[owner[p]] # None /\ processes[owner[p]].holochain = p
    BY <1>1, <1>8, <1>9 DEF ConductorsInv
  <1>11. owner[p] \in players
    BY <1>1, <1>9, <1>10, NoneAssumption
       DEF OrphanInv, SpawnedInv, RegisteredInv, Conductor
  <1>12. owner[p] = Id(c)
    BY <1>1, <1>5, <1>6, <1>9, <1>11 DEF PortsInv, UniqueAdminPorts
  <1>13. QED
    BY <1>5, <1>10, <1>12

\* An admin call that succeeds was answered by the conductor of its player.
THEOREM AdminReachesOwn ==
    CleanReset /\ PortsSuffice => (Spec => AdminCallReachesOwnConductor)
  <1>1. DialInv /\ [Next]_vars =>
          [\A c \in Clients : pc[c] = "admin_call" /\ AnsweredOk(c) =>
              \E p \in Pids : /\ bound[p] = frame[c].port
                              /\ processes[Id(c)] # None
                              /\ processes[Id(c)].holochain = p]_vars
    BY DialsOwn
  <1>2. QED
    BY <1>1, DialInductive, PTL DEF Spec, AdminCallReachesOwnConductor

=============================================================================
