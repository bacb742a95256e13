----------------------- MODULE PlayerRegistry_proofs -----------------------
(***************************************************************************)
(* Proofs about PlayerRegistry, for every number of sessions, players,     *)
(* processes and requests and every set of failures: OrphanInv is          *)
(* inductive, hence the types are right and no conductor is orphaned;      *)
(* ChildrenInv is inductive, hence the server signals only processes of    *)
(* its own that it has not reaped.                                         *)
(***************************************************************************)
EXTENDS PlayerRegistryInv, TLAPS

USE DEF Pids, Port, Kinds, ContainsKey, Added, KeepReadGuard, Running,
        StorePair, EndOfOutput, Exited, ClearCell, TakenPairs, Remaining,
        Killing, StartupLocked, LairLabels, KillLabels, ShutdownLabels,
        ResetLabels, Id

\* The initial state has the right types.
LEMMA InitType == Init => TypeOK
  <1> SUFFICES ASSUME Init PROVE TypeOK
    OBVIOUS
  <1>1. NoFrame \in Frame
    BY DEF NoFrame, Frame
  <1>2. RegistryType /\ LocksType /\ FilesType
    BY CountsAssumption DEF Init, RegistryType, LocksType, FilesType
  <1>3. SystemType
    BY CountsAssumption DEF Init, SystemType
  <1>4. SessionsType
    BY <1>1, CountsAssumption DEF Init, SessionsType, Labels
  <1>5. QED
    BY <1>2, <1>3, <1>4 DEF TypeOK

\* Going to a step with a well-formed frame keeps the types of a session.
LEMMA GotoType ==
    ASSUME TypeOK, NEW c \in Clients, NEW label \in Labels, NEW f \in Frame,
           Goto(c, label, f)
    PROVE  SessionsType'
  BY DEF TypeOK, SessionsType, Goto

\* Returning a reply keeps the types of a session.
LEMMA ReturnType ==
    ASSUME TypeOK, NEW c \in Clients, NEW r \in {"ok", "error"}, Return(c, r)
    PROVE  SessionsType'
  <1>1. NoFrame \in Frame /\ "idle" \in Labels
    BY DEF NoFrame, Frame, Labels
  <1>2. QED
    BY <1>1 DEF TypeOK, SessionsType, Return

\* The frames that the handlers build are frames.
LEMMA FrameType ==
    ASSUME TypeOK, NEW c \in Clients
    PROVE  /\ frame[c] \in Frame
           /\ \A p \in Port \cup {None} : [frame[c] EXCEPT !.port = p] \in Frame
           /\ \A p \in Pids \cup {None} : [frame[c] EXCEPT !.lair = p] \in Frame
           /\ \A p \in Pids \cup {None} : [frame[c] EXCEPT !.child = p] \in Frame
           /\ \A v \in PlayerProcesses \cup {None} :
                  [frame[c] EXCEPT !.victim = v] \in Frame
           /\ \A s \in SUBSET PlayerProcesses :
                  [frame[c] EXCEPT !.taken = s] \in Frame
  BY DEF TypeOK, SessionsType, Frame

\* Spawning a process keeps the types of the system, and its id is a Pid.
LEMMA SpawnType ==
    ASSUME TypeOK, NEW c \in Clients, NEW k \in {"lair", "shim", "holochain"},
           Id(c) \in Ids, Spawn(c, k)
    PROVE  SystemType' /\ next_pid \in Pids
  BY CountsAssumption DEF TypeOK, SystemType, Spawn

\* A group of variables that does not change keeps its types.
LEMMA UnchangedType ==
    ASSUME TypeOK
    PROVE  /\ UNCHANGED registry => RegistryType'
           /\ UNCHANGED locks => LocksType'
           /\ UNCHANGED files => FilesType'
           /\ UNCHANGED system => SystemType'
           /\ UNCHANGED sessions => SessionsType'
  BY DEF TypeOK, RegistryType, LocksType, FilesType, SystemType, SessionsType,
         registry, locks, files, system, sessions

\* Dropping the guards of a handler keeps the types of the locks.
LEMMA DropType ==
    ASSUME TypeOK, NEW c \in Clients, DropGuards(c)
    PROVE  LocksType'
  BY DEF TypeOK, LocksType, DropGuards

\* A startup that gives up keeps the types.
LEMMA AbortType ==
    ASSUME TypeOK, NEW c \in Clients, AbortStartup(c)
    PROVE  TypeOK'
  BY ReturnType, UnchangedType, DropType DEF AbortStartup, TypeOK

\* Spawning the conductor and storing the pair keeps the types.
LEMMA SpawnHolochainType ==
    ASSUME TypeOK, FramesInv, NEW c \in Clients, SpawnHolochain(c)
    PROVE  TypeOK'
  <1>0. Id(c) \in Ids /\ frame[c].lair \in Pids
    BY DEF SpawnHolochain, FramesInv, FrameOf, TypeOK, SessionsType, Frame
  <1>1. CASE AbortStartup(c)
    BY <1>1, AbortType
  <1>2. CASE Spawn(c, "holochain") /\ DropGuards(c)
         /\ UNCHANGED <<players, admin_port, next_admin_port, files>>
       /\ processes' = [processes EXCEPT ![Id(c)] =
                              [lair |-> frame[c].lair, holochain |-> next_pid]]
       /\ Goto(c, "spawn_tee", [frame[c] EXCEPT !.lair = None,
                                                   !.child = next_pid])
    <2>1. SystemType' /\ next_pid \in Pids
      BY <1>0, <1>2, SpawnType
    <2>2. [frame[c] EXCEPT !.lair = None, !.child = next_pid] \in Frame
      BY <2>1 DEF TypeOK, SessionsType, Frame
    <2>3. SessionsType'
      BY <1>2, <2>2, GotoType DEF Labels
    <2>4. RegistryType'
      BY <1>0, <1>2, <2>1 DEF TypeOK, RegistryType, PlayerProcesses
    <2> QED
      BY <1>2, <2>1, <2>3, <2>4, DropType, UnchangedType DEF TypeOK
  <1> QED
    BY <1>1, <1>2 DEF SpawnHolochain

\* A step of c changes the program counter and the locals of c only.
LEMMA Others ==
    ASSUME TypeOK, NEW c \in Clients, HandlerStep(c)
    PROVE  /\ \A d \in Clients \ {c} : pc'[d] = pc[d] /\ frame'[d] = frame[d]
           /\ UNCHANGED req
  <1>1. ASSUME NEW label, NEW f, Goto(c, label, f)
        PROVE  /\ \A d \in Clients \ {c} : pc'[d] = pc[d] /\ frame'[d] = frame[d]
               /\ UNCHANGED req
    BY <1>1 DEF Goto, TypeOK, SessionsType
  <1>2. ASSUME NEW r, Return(c, r)
        PROVE  /\ \A d \in Clients \ {c} : pc'[d] = pc[d] /\ frame'[d] = frame[d]
               /\ UNCHANGED req
    BY <1>2 DEF Return, TypeOK, SessionsType
  <1>3. CASE ConfigurePlayer(c)
    BY <1>3, <1>1, <1>2
       DEF ConfigurePlayer, CreateDir, ConfigExists, LoadPort, FetchPort,
           InsertPlayer, CreateConfig, WriteConfig
  <1>4. CASE Startup(c)
    BY <1>4, <1>1, <1>2
       DEF Startup, StartupGet, StartupLock, SpawnLair, LairReady, SpawnShim,
           ShimReady, SpawnHolochain, SpawnTee, HolochainReady, AbortStartup,
           ReadFirstByte
  <1>5. CASE Shutdown(c)
    BY <1>5, <1>1, <1>2 DEF Shutdown, ShutdownCheck, ShutdownGet, ShutdownLock
  <1>6. QED
    BY <1>1, <1>2, <1>3, <1>4, <1>5
       DEF HandlerStep, WaitHolochain, WaitLair, ResetTake, ResetKill, AdminGet,
           AdminCall

\* Where Goto leaves a session.
LEMMA GotoLocals ==
    ASSUME TypeOK, NEW c \in Clients, NEW label, NEW f, Goto(c, label, f)
    PROVE  pc'[c] = label /\ frame'[c] = f
  BY DEF Goto, TypeOK, SessionsType

\* Where Return leaves a session.
LEMMA ReturnLocals ==
    ASSUME TypeOK, NEW c \in Clients, NEW r, Return(c, r)
    PROVE  pc'[c] = "idle" /\ frame'[c] = NoFrame
  BY DEF Return, TypeOK, SessionsType

\* A handler keeps what FramesInv says of its local variables.
LEMMA FramesStep ==
    ASSUME OrphanInv, NEW c \in Clients, HandlerStep(c)
    PROVE  FramesInv'
  <1>1. SUFFICES FrameOf(c)'
    BY Others DEF OrphanInv, FramesInv, FrameOf
  <1>2. FrameOf(c) /\ UNCHANGED req /\ frame[c] \in Frame
    BY Others DEF OrphanInv, FramesInv, TypeOK, SessionsType
  <1>3. ASSUME NEW r, Return(c, r)
        PROVE  FrameOf(c)'
    BY <1>2, <1>3, ReturnLocals DEF FrameOf, NoFrame, OrphanInv
  <1>4. CASE SpawnLair(c)
    <2>1. CASE AbortStartup(c)
      BY <1>3, <2>1 DEF AbortStartup
    <2>2. CASE Goto(c, "lair_ready", [frame[c] EXCEPT !.lair = next_pid])
      <3>1. next_pid # None
        BY NoneAssumption DEF OrphanInv, TypeOK, SystemType
      <3>2. QED
        BY <1>4, <1>2, <2>2, <3>1, GotoLocals
           DEF SpawnLair, FrameOf, Frame, OrphanInv
    <2>3. QED
      BY <1>4, <2>1, <2>2 DEF SpawnLair
  <1>5. CASE SpawnHolochain(c)
    <2>1. CASE AbortStartup(c)
      BY <1>3, <2>1 DEF AbortStartup
    <2>2. CASE Goto(c, "spawn_tee", [frame[c] EXCEPT !.lair = None, !.child = next_pid])
      <3>1. /\ frame'[c].victim = frame[c].victim /\ frame'[c].taken = frame[c].taken
            /\ pc'[c] = "spawn_tee"
        BY <1>2, <2>2, GotoLocals DEF Frame, OrphanInv
      <3>2. QED
        BY <1>5, <1>2, <3>1 DEF SpawnHolochain, FrameOf
    <2>3. QED
      BY <1>5, <2>1, <2>2 DEF SpawnHolochain
  <1>6. CASE ResetKill(c)
    <2>1. CASE Return(c, "ok")
      BY <1>3, <2>1
    <2>2. ASSUME NEW pair \in frame[c].taken,
                 Goto(c, "wait_holochain",
                      [frame[c] EXCEPT !.victim = pair,
                                       !.taken = frame[c].taken \ {pair}])
          PROVE  FrameOf(c)'
      <3>1. pair # None
        BY <1>2, NoneAssumption DEF Frame
      <3>2. frame'[c].victim = pair /\ pc'[c] = "wait_holochain"
        BY <1>2, <2>2, GotoLocals DEF Frame, OrphanInv
      <3>3. QED
        BY <1>6, <1>2, <3>1, <3>2 DEF ResetKill, FrameOf
    <2>3. QED
      BY <1>6, <2>1, <2>2 DEF ResetKill
  <1> USE <1>2, <1>3, GotoLocals DEF FrameOf, Frame, OrphanInv
  <1>7. CASE CreateDir(c)
    BY <1>7 DEF CreateDir
  <1>8. CASE ConfigExists(c)
    BY <1>8 DEF ConfigExists
  <1>9. CASE LoadPort(c)
    BY <1>9 DEF LoadPort
  <1>10. CASE FetchPort(c)
    BY <1>10 DEF FetchPort
  <1>11. CASE InsertPlayer(c)
    BY <1>11 DEF InsertPlayer
  <1>12. CASE CreateConfig(c)
    BY <1>12 DEF CreateConfig
  <1>13. CASE WriteConfig(c)
    BY <1>13 DEF WriteConfig
  <1>14. CASE StartupGet(c)
    BY <1>14 DEF StartupGet
  <1>15. CASE StartupLock(c)
    BY <1>15 DEF StartupLock
  <1>16. CASE LairReady(c)
    BY <1>16 DEF LairReady, AbortStartup, ReadFirstByte
  <1>17. CASE SpawnShim(c)
    BY <1>17 DEF SpawnShim, AbortStartup, ReadFirstByte
  <1>18. CASE ShimReady(c)
    BY <1>18 DEF ShimReady, AbortStartup, ReadFirstByte
  <1>19. CASE SpawnTee(c)
    BY <1>19 DEF SpawnTee
  <1>20. CASE HolochainReady(c)
    BY <1>20 DEF HolochainReady
  <1>21. CASE ShutdownCheck(c)
    BY <1>21 DEF ShutdownCheck
  <1>22. CASE ShutdownGet(c)
    BY <1>22 DEF ShutdownGet
  <1>23. CASE ShutdownLock(c)
    BY <1>23 DEF ShutdownLock
  <1>24. CASE WaitHolochain(c)
    BY <1>24 DEF WaitHolochain
  <1>25. CASE WaitLair(c)
    BY <1>25 DEF WaitLair
  <1>26. CASE ResetTake(c)
    BY <1>26 DEF ResetTake
  <1>27. CASE AdminGet(c)
    BY <1>27 DEF AdminGet
  <1>28. CASE AdminCall(c)
    BY <1>28 DEF AdminCall
  <1>29. QED
    BY HandlerStep(c), <1>4, <1>5, <1>6, <1>7, <1>8, <1>9, <1>10, <1>11, <1>12,
       <1>13, <1>14, <1>15, <1>16, <1>17, <1>18, <1>19, <1>20, <1>21, <1>22, <1>23,
       <1>24, <1>25, <1>26, <1>27, <1>28
       DEF HandlerStep, ConfigurePlayer, Startup, Shutdown

\* A handler keeps the lock discipline: it takes no mutex that another holds,
\* and the map is written only when nobody has the read guard.
LEMMA GuardsStep ==
    ASSUME OrphanInv, NEW c \in Clients, HandlerStep(c)
    PROVE  GuardsInv'
  <1>1. GuardsInv /\ FramesInv /\ LocksType /\ SessionsType
    BY DEF OrphanInv, TypeOK
  <1>2. /\ UNCHANGED <<processes_lock, readers, players>>
        /\ HoldsRead(c)' <=> HoldsRead(c)
        /\ HoldsLock(c)' <=> HoldsLock(c)
        => GuardsInv'
    BY <1>1, Others DEF OrphanInv, GuardsInv, GuardsOf, HoldsRead, HoldsLock
  <1>3. DropGuards(c) /\ UNCHANGED players /\ pc'[c] \in {"idle", "spawn_tee"} /\ HoldsRead(c)
         /\ (HoldsLock(c) \/ processes_lock[Id(c)] = None) => GuardsInv'
    BY <1>1, Others, NoneAssumption
       DEF OrphanInv, GuardsInv, GuardsOf, HoldsRead, HoldsLock, DropGuards,
           LocksType, FramesInv, FrameOf
  <1>4. CASE ResetKill(c)
    <2>1. pc'[c] \in {"idle", "wait_holochain"}
      BY <1>4, GotoLocals, ReturnLocals DEF ResetKill, OrphanInv
    <2>2. QED
      BY <1>4, <1>1, <1>2, <2>1, Others
         DEF ResetKill, OrphanInv, FramesInv, FrameOf, HoldsRead, HoldsLock, locks,
             registry
  <1> USE <1>1, <1>2, <1>3, Others, GotoLocals, ReturnLocals, NoneAssumption DEF
          OrphanInv, GuardsInv, GuardsOf, FramesInv, FrameOf, HoldsRead, HoldsLock,
          LockProcesses, LocksType, registry, locks
  <1>5. CASE CreateDir(c)
    BY <1>5 DEF CreateDir
  <1>6. CASE ConfigExists(c)
    BY <1>6 DEF ConfigExists
  <1>7. CASE LoadPort(c)
    BY <1>7 DEF LoadPort
  <1>8. CASE FetchPort(c)
    BY <1>8 DEF FetchPort
  <1>9. CASE InsertPlayer(c)
    BY <1>9 DEF InsertPlayer
  <1>10. CASE CreateConfig(c)
    BY <1>10 DEF CreateConfig
  <1>11. CASE WriteConfig(c)
    BY <1>11 DEF WriteConfig
  <1>12. CASE StartupGet(c)
    BY <1>12 DEF StartupGet
  <1>13. CASE StartupLock(c)
    BY <1>13 DEF StartupLock
  <1>14. CASE SpawnLair(c)
    BY <1>14 DEF SpawnLair, AbortStartup, ReadFirstByte
  <1>15. CASE LairReady(c)
    BY <1>15 DEF LairReady, AbortStartup, ReadFirstByte
  <1>16. CASE SpawnShim(c)
    BY <1>16 DEF SpawnShim, AbortStartup, ReadFirstByte
  <1>17. CASE ShimReady(c)
    BY <1>17 DEF ShimReady, AbortStartup, ReadFirstByte
  <1>18. CASE SpawnHolochain(c)
    BY <1>18 DEF SpawnHolochain, AbortStartup, ReadFirstByte
  <1>19. CASE SpawnTee(c)
    BY <1>19 DEF SpawnTee
  <1>20. CASE HolochainReady(c)
    BY <1>20 DEF HolochainReady
  <1>21. CASE ShutdownCheck(c)
    BY <1>21 DEF ShutdownCheck
  <1>22. CASE ShutdownGet(c)
    BY <1>22 DEF ShutdownGet
  <1>23. CASE ShutdownLock(c)
    BY <1>23 DEF ShutdownLock
  <1>24. CASE WaitHolochain(c)
    BY <1>24 DEF WaitHolochain
  <1>25. CASE WaitLair(c)
    BY <1>25 DEF WaitLair
  <1>26. CASE ResetTake(c)
    BY <1>26 DEF ResetTake
  <1>27. CASE AdminGet(c)
    BY <1>27 DEF AdminGet
  <1>28. CASE AdminCall(c)
    BY <1>28 DEF AdminCall
  <1>29. QED
    BY HandlerStep(c), <1>4, <1>5, <1>6, <1>7, <1>8, <1>9, <1>10, <1>11, <1>12,
       <1>13, <1>14, <1>15, <1>16, <1>17, <1>18, <1>19, <1>20, <1>21, <1>22, <1>23,
       <1>24, <1>25, <1>26, <1>27, <1>28
       DEF HandlerStep, ConfigurePlayer, Startup, Shutdown

\* Only registered players have processes: reset takes the map with its cells.
LEMMA RegisteredStep ==
    ASSUME OrphanInv, NEW c \in Clients, HandlerStep(c)
    PROVE  RegisteredInv'
  <1>1. RegisteredInv /\ RegistryType /\ FrameOf(c)
    BY DEF OrphanInv, TypeOK, FramesInv
  <1>2. UNCHANGED registry => RegisteredInv'
    BY <1>1 DEF RegisteredInv, registry
  <1>3. HoldsRead(c) => Id(c) \in players
    BY DEF OrphanInv, GuardsInv, GuardsOf
  <1> USE <1>1, <1>2, <1>3 DEF RegisteredInv, registry, RegistryType, FrameOf,
          HoldsRead, HoldsLock
  <1>4. CASE CreateDir(c)
    BY <1>4 DEF CreateDir
  <1>5. CASE ConfigExists(c)
    BY <1>5 DEF ConfigExists
  <1>6. CASE LoadPort(c)
    BY <1>6 DEF LoadPort
  <1>7. CASE FetchPort(c)
    BY <1>7 DEF FetchPort
  <1>8. CASE InsertPlayer(c)
    BY <1>8 DEF InsertPlayer
  <1>9. CASE CreateConfig(c)
    BY <1>9 DEF CreateConfig
  <1>10. CASE WriteConfig(c)
    BY <1>10 DEF WriteConfig
  <1>11. CASE StartupGet(c)
    BY <1>11 DEF StartupGet
  <1>12. CASE StartupLock(c)
    BY <1>12 DEF StartupLock
  <1>13. CASE SpawnLair(c)
    BY <1>13 DEF SpawnLair, AbortStartup, ReadFirstByte
  <1>14. CASE LairReady(c)
    BY <1>14 DEF LairReady, AbortStartup, ReadFirstByte
  <1>15. CASE SpawnShim(c)
    BY <1>15 DEF SpawnShim, AbortStartup, ReadFirstByte
  <1>16. CASE ShimReady(c)
    BY <1>16 DEF ShimReady, AbortStartup, ReadFirstByte
  <1>17. CASE SpawnHolochain(c)
    BY <1>17 DEF SpawnHolochain, AbortStartup, ReadFirstByte
  <1>18. CASE SpawnTee(c)
    BY <1>18 DEF SpawnTee
  <1>19. CASE HolochainReady(c)
    BY <1>19 DEF HolochainReady
  <1>20. CASE ShutdownCheck(c)
    BY <1>20 DEF ShutdownCheck
  <1>21. CASE ShutdownGet(c)
    BY <1>21 DEF ShutdownGet
  <1>22. CASE ShutdownLock(c)
    BY <1>22 DEF ShutdownLock
  <1>23. CASE WaitHolochain(c)
    BY <1>23 DEF WaitHolochain
  <1>24. CASE WaitLair(c)
    BY <1>24 DEF WaitLair
  <1>25. CASE ResetTake(c)
    BY <1>25 DEF ResetTake
  <1>26. CASE ResetKill(c)
    BY <1>26 DEF ResetKill
  <1>27. CASE AdminGet(c)
    BY <1>27 DEF AdminGet
  <1>28. CASE AdminCall(c)
    BY <1>28 DEF AdminCall
  <1>29. QED
    BY HandlerStep(c), <1>4, <1>5, <1>6, <1>7, <1>8, <1>9, <1>10, <1>11, <1>12,
       <1>13, <1>14, <1>15, <1>16, <1>17, <1>18, <1>19, <1>20, <1>21, <1>22, <1>23,
       <1>24, <1>25, <1>26, <1>27, <1>28
       DEF HandlerStep, ConfigurePlayer, Startup, Shutdown

\* The ids from next_pid on stay unborn, and only they.
LEMMA SpawnedStep ==
    ASSUME OrphanInv, NEW c \in Clients, HandlerStep(c)
    PROVE  SpawnedInv'
  <1>1. SpawnedInv /\ SystemType /\ FrameOf(c) /\ SessionsType
    BY DEF OrphanInv, TypeOK, FramesInv
  <1>2. ASSUME UNCHANGED system
        PROVE  SpawnedInv'
    BY <1>1, <1>2 DEF SpawnedInv, system
  <1>3. ASSUME NEW k \in {"lair", "shim", "holochain"}, Spawn(c, k), Id(c) \in Ids
        PROVE  SpawnedInv'
    BY <1>1, <1>3, NoneAssumption, CountsAssumption
       DEF SpawnedInv, Spawn, SystemType
  <1>4. ASSUME UNCHANGED <<next_pid, kind, owner>>,
               \A p \in Pids : status'[p] = "unborn" <=> status[p] = "unborn"
        PROVE  SpawnedInv'
    BY <1>1, <1>4 DEF SpawnedInv
  <1>5. ASSUME NEW q, NEW p \in Pids
        PROVE  Signalled(q)[p] = "unborn" <=> status[p] = "unborn"
    BY <1>1 DEF Signalled, SystemType
  <1>6. CASE ConfigurePlayer(c)
    BY <1>2, <1>6 DEF ConfigurePlayer, CreateDir, ConfigExists, LoadPort, FetchPort,
       InsertPlayer, CreateConfig, WriteConfig, system
  <1>7. CASE AbortStartup(c)
    BY <1>2, <1>7 DEF AbortStartup
  <1>8. ASSUME NEW p, NEW label, ReadFirstByte(c, p, label)
        PROVE  SpawnedInv'
    BY <1>2, <1>7, <1>8 DEF ReadFirstByte
  <1>9. pc[c] \in StartupLocked => Id(c) \in Ids
    BY <1>1 DEF FrameOf, StartupLocked, ResetLabels, KillLabels, Killing
  <1>10. CASE Startup(c)
    <2>1. CASE StartupGet(c) \/ StartupLock(c)
      BY <1>2, <2>1 DEF StartupGet, StartupLock
    <2>2. CASE SpawnLair(c)
      BY <1>3, <1>7, <1>9, <2>2 DEF SpawnLair, StartupLocked
    <2>3. CASE LairReady(c) \/ ShimReady(c)
      BY <1>8, <2>3 DEF LairReady, ShimReady
    <2>4. CASE SpawnShim(c)
      BY <1>3, <1>7, <1>9, <2>4 DEF SpawnShim, StartupLocked
    <2>5. CASE SpawnHolochain(c)
      BY <1>3, <1>7, <1>9, <2>5 DEF SpawnHolochain, StartupLocked
    <2>6. CASE SpawnTee(c) \/ HolochainReady(c)
      BY <1>2, <2>6 DEF SpawnTee, HolochainReady
    <2>7. QED
      BY <1>10, <2>1, <2>2, <2>3, <2>4, <2>5, <2>6 DEF Startup
  <1>11. CASE ShutdownCheck(c) \/ ShutdownGet(c)
    BY <1>2, <1>11 DEF ShutdownCheck, ShutdownGet
  <1>12. CASE ShutdownLock(c)
    <2>1. \A p \in Pids : status'[p] = "unborn" <=> status[p] = "unborn"
      BY <1>5, <1>12 DEF ShutdownLock
    <2>2. QED
      BY <1>4, <1>12, <2>1 DEF ShutdownLock
  <1>13. CASE WaitHolochain(c) \/ WaitLair(c)
    <2>1. frame[c].victim \in PlayerProcesses
      BY <1>1, <1>13 DEF FrameOf, WaitHolochain, WaitLair, KillLabels,
         SessionsType, Frame
    <2>2. frame[c].victim.lair \in Pids /\ frame[c].victim.holochain \in Pids
      BY <2>1 DEF PlayerProcesses
    <2>3. CASE WaitHolochain(c)
      <3> DEFINE q == frame[c].victim.holochain
                 s == Signalled(frame[c].victim.lair)
      <3>1. status' = [s EXCEPT ![q] = "reaped"]
        BY <2>3 DEF WaitHolochain
      <3>2. s = [p \in Pids |-> s[p]]
        BY <1>1 DEF Signalled, SystemType
      <3>3. \A p \in Pids : s[p] = "unborn" <=> status[p] = "unborn"
        BY <1>5
      <3>4. status[q] # "unborn"
        BY <2>3 DEF WaitHolochain, Exited
      <3> HIDE DEF q, s
      <3>5. \A p \in Pids : status'[p] = IF p = q THEN "reaped" ELSE s[p]
        BY <3>1, <3>2
      <3>6. \A p \in Pids : status'[p] = "unborn" <=> status[p] = "unborn"
        BY <3>3, <3>4, <3>5
      <3>7. QED
        BY <1>4, <2>3, <3>6 DEF WaitHolochain
    <2>4. CASE WaitLair(c)
      <3>1. \A p \in Pids : status'[p] = "unborn" <=> status[p] = "unborn"
        BY <1>1, <2>2, <2>4 DEF WaitLair, Exited, SystemType
      <3>2. QED
        BY <1>4, <2>4, <3>1 DEF WaitLair
    <2>5. QED
      BY <1>13, <2>3, <2>4
  <1>14. CASE ResetTake(c)
    BY <1>4, <1>14 DEF ResetTake
  <1>15. CASE ResetKill(c)
    <2>1. \A p \in Pids : status'[p] = "unborn" <=> status[p] = "unborn"
      BY <1>5, <1>15 DEF ResetKill
    <2>2. QED
      BY <1>4, <1>15, <2>1 DEF ResetKill
  <1>16. CASE AdminGet(c) \/ AdminCall(c)
    BY <1>2, <1>16 DEF AdminGet, AdminCall
  <1>17. QED
    BY HandlerStep(c), <1>6, <1>10, <1>11, <1>12, <1>13, <1>14, <1>15, <1>16
       DEF HandlerStep, Shutdown

\* Where a pair of processes may be held.
LEMMA HeldCases ==
    ASSUME NEW pair
    PROVE  pair \in AnyHeld <=>
             /\ pair # None
             /\ \/ \E i \in Ids : pair = processes[i]
                \/ \E c \in Clients : pair = frame[c].victim \/ pair \in frame[c].taken
  BY DEF AnyHeld

\* Where a pair of processes may be held after a step.
LEMMA HeldCasesNext ==
    ASSUME NEW pair
    PROVE  pair \in AnyHeld' <=>
             /\ pair # None
             /\ \/ \E i \in Ids : pair = processes'[i]
                \/ \E c \in Clients : pair = frame'[c].victim \/ pair \in frame'[c].taken
  BY DEF AnyHeld

\* A reaped process stays reaped.
LEMMA ReapedStays ==
    ASSUME OrphanInv, NEW c \in Clients, HandlerStep(c)
    PROVE  \A p \in Pids : status[p] = "reaped" => status'[p] = "reaped"
  <1>1. SpawnedInv /\ SystemType
    BY DEF OrphanInv, TypeOK
  <1>2. ASSUME NEW k, Spawn(c, k), NEW p \in Pids, status[p] = "reaped"
        PROVE  status'[p] = "reaped"
    <2>1. p # next_pid
      BY <1>1, <1>2, CountsAssumption DEF SpawnedInv, SystemType
    <2>2. QED
      BY <1>1, <1>2, <2>1 DEF Spawn, SystemType
  <1> USE <1>1, <1>2 DEF system, SystemType, Signalled
  <1>3. CASE CreateDir(c)
    BY <1>3 DEF CreateDir
  <1>4. CASE ConfigExists(c)
    BY <1>4 DEF ConfigExists
  <1>5. CASE LoadPort(c)
    BY <1>5 DEF LoadPort
  <1>6. CASE FetchPort(c)
    BY <1>6 DEF FetchPort
  <1>7. CASE InsertPlayer(c)
    BY <1>7 DEF InsertPlayer
  <1>8. CASE CreateConfig(c)
    BY <1>8 DEF CreateConfig
  <1>9. CASE WriteConfig(c)
    BY <1>9 DEF WriteConfig
  <1>10. CASE StartupGet(c)
    BY <1>10 DEF StartupGet
  <1>11. CASE StartupLock(c)
    BY <1>11 DEF StartupLock
  <1>12. CASE SpawnLair(c)
    BY <1>12 DEF SpawnLair, AbortStartup, ReadFirstByte
  <1>13. CASE LairReady(c)
    BY <1>13 DEF LairReady, AbortStartup, ReadFirstByte
  <1>14. CASE SpawnShim(c)
    BY <1>14 DEF SpawnShim, AbortStartup, ReadFirstByte
  <1>15. CASE ShimReady(c)
    BY <1>15 DEF ShimReady, AbortStartup, ReadFirstByte
  <1>16. CASE SpawnHolochain(c)
    BY <1>16 DEF SpawnHolochain, AbortStartup, ReadFirstByte
  <1>17. CASE SpawnTee(c)
    BY <1>17 DEF SpawnTee
  <1>18. CASE HolochainReady(c)
    BY <1>18 DEF HolochainReady
  <1>19. CASE ShutdownCheck(c)
    BY <1>19 DEF ShutdownCheck
  <1>20. CASE ShutdownGet(c)
    BY <1>20 DEF ShutdownGet
  <1>21. CASE ShutdownLock(c)
    BY <1>21 DEF ShutdownLock
  <1>22. CASE WaitHolochain(c)
    BY <1>22 DEF WaitHolochain
  <1>23. CASE WaitLair(c)
    BY <1>23 DEF WaitLair
  <1>24. CASE ResetTake(c)
    BY <1>24 DEF ResetTake
  <1>25. CASE ResetKill(c)
    BY <1>25 DEF ResetKill
  <1>26. CASE AdminGet(c)
    BY <1>26 DEF AdminGet
  <1>27. CASE AdminCall(c)
    BY <1>27 DEF AdminCall
  <1>28. QED
    BY HandlerStep(c), <1>3, <1>4, <1>5, <1>6, <1>7, <1>8, <1>9, <1>10, <1>11,
       <1>12, <1>13, <1>14, <1>15, <1>16, <1>17, <1>18, <1>19, <1>20, <1>21, <1>22,
       <1>23, <1>24, <1>25, <1>26, <1>27
       DEF HandlerStep, ConfigurePlayer, Startup, Shutdown

\* The cell of a player changes only under its mutex, or when reset has the
\* write guard and nobody the mutex.
LEMMA CellsLocked ==
    ASSUME OrphanInv, NEW c \in Clients, HandlerStep(c)
    PROVE  \A d \in Clients \ {c} : HoldsLock(d) => processes'[Id(d)] = processes[Id(d)]
  <1>1. GuardsInv /\ RegistryType
    BY DEF OrphanInv, TypeOK
  <1>2. \A d \in Clients \ {c} : HoldsLock(d) =>
            /\ Id(d) \in Ids /\ d \in readers
            /\ ~(HoldsLock(c) /\ Id(c) = Id(d))
    BY <1>1 DEF GuardsInv, GuardsOf, HoldsRead, RegistryType
  <1>3. CASE SpawnHolochain(c)
    <2>1. \/ UNCHANGED processes
          \/ processes' = [processes EXCEPT ![Id(c)] =
                              [lair |-> frame[c].lair, holochain |-> next_pid]]
      BY <1>3 DEF SpawnHolochain, AbortStartup, registry
    <2>2. HoldsLock(c)
      BY <1>3 DEF SpawnHolochain, HoldsLock
    <2>3. QED
      BY <1>1, <1>2, <2>1, <2>2 DEF RegistryType
  <1>4. CASE WaitLair(c)
    <2>1. \/ UNCHANGED processes
          \/ HoldsLock(c) /\ processes' = [processes EXCEPT ![Id(c)] = None]
      BY <1>4 DEF WaitLair, HoldsLock
    <2>2. QED
      BY <1>1, <1>2, <2>1 DEF RegistryType
  <1> USE <1>1, <1>2 DEF registry, RegistryType, HoldsLock
  <1>5. CASE CreateDir(c)
    BY <1>5 DEF CreateDir
  <1>6. CASE ConfigExists(c)
    BY <1>6 DEF ConfigExists
  <1>7. CASE LoadPort(c)
    BY <1>7 DEF LoadPort
  <1>8. CASE FetchPort(c)
    BY <1>8 DEF FetchPort
  <1>9. CASE InsertPlayer(c)
    BY <1>9 DEF InsertPlayer
  <1>10. CASE CreateConfig(c)
    BY <1>10 DEF CreateConfig
  <1>11. CASE WriteConfig(c)
    BY <1>11 DEF WriteConfig
  <1>12. CASE StartupGet(c)
    BY <1>12 DEF StartupGet
  <1>13. CASE StartupLock(c)
    BY <1>13 DEF StartupLock
  <1>14. CASE SpawnLair(c)
    BY <1>14 DEF SpawnLair, AbortStartup, ReadFirstByte
  <1>15. CASE LairReady(c)
    BY <1>15 DEF LairReady, AbortStartup, ReadFirstByte
  <1>16. CASE SpawnShim(c)
    BY <1>16 DEF SpawnShim, AbortStartup, ReadFirstByte
  <1>17. CASE ShimReady(c)
    BY <1>17 DEF ShimReady, AbortStartup, ReadFirstByte
  <1>18. CASE SpawnTee(c)
    BY <1>18 DEF SpawnTee
  <1>19. CASE HolochainReady(c)
    BY <1>19 DEF HolochainReady
  <1>20. CASE ShutdownCheck(c)
    BY <1>20 DEF ShutdownCheck
  <1>21. CASE ShutdownGet(c)
    BY <1>21 DEF ShutdownGet
  <1>22. CASE ShutdownLock(c)
    BY <1>22 DEF ShutdownLock
  <1>23. CASE WaitHolochain(c)
    BY <1>23 DEF WaitHolochain
  <1>24. CASE ResetTake(c)
    BY <1>24 DEF ResetTake
  <1>25. CASE ResetKill(c)
    BY <1>25 DEF ResetKill
  <1>26. CASE AdminGet(c)
    BY <1>26 DEF AdminGet
  <1>27. CASE AdminCall(c)
    BY <1>27 DEF AdminCall
  <1>28. QED
    BY HandlerStep(c), <1>3, <1>4, <1>5, <1>6, <1>7, <1>8, <1>9, <1>10, <1>11,
       <1>12, <1>13, <1>14, <1>15, <1>16, <1>17, <1>18, <1>19, <1>20, <1>21, <1>22,
       <1>23, <1>24, <1>25, <1>26, <1>27
       DEF HandlerStep, ConfigurePlayer, Startup, Shutdown

\* A handler that has the mutex of a player finds in the cell what it left.
LEMMA CellsStep ==
    ASSUME OrphanInv, NEW c \in Clients, HandlerStep(c)
    PROVE  CellsInv'
  <1>1. /\ FrameOf(c) /\ CellOf(c) /\ UNCHANGED req
        /\ RegistryType /\ SystemType /\ frame[c] \in Frame
    BY Others DEF OrphanInv, CellsInv, FramesInv, TypeOK, SessionsType
  <1>2. ASSUME CellOf(c)' PROVE CellsInv'
    <2>1. SUFFICES ASSUME NEW d \in Clients \ {c} PROVE CellOf(d)'
      BY <1>2 DEF CellsInv
    <2>2. CellOf(d) /\ FrameOf(d) /\ frame[d] \in Frame
      BY DEF OrphanInv, CellsInv, FramesInv, TypeOK, SessionsType
    <2>3. pc[d] = "wait_lair" => frame[d].victim.holochain \in Pids
      BY <2>2 DEF FrameOf, Frame, PlayerProcesses
    <2>4. QED
      BY <2>2, <2>3, Others, CellsLocked, ReapedStays
         DEF CellOf, HoldsLock, OrphanInv
  <1>3. ASSUME NEW r, Return(c, r) PROVE CellOf(c)'
    BY <1>3, ReturnLocals DEF CellOf, OrphanInv
  <1>4. CASE ResetKill(c)
    <2>1. pc[c] = "reset_kill" /\ pc'[c] \in {"idle", "wait_holochain"}
      BY <1>4, GotoLocals, ReturnLocals DEF ResetKill, OrphanInv
    <2>2. req'[c].op = "reset"
      BY <1>1, <2>1 DEF FrameOf
    <2>3. QED
      BY <1>2, <2>1, <2>2 DEF CellOf
  <1> USE <1>1, <1>2, <1>3, GotoLocals DEF CellOf, FrameOf, Frame, PlayerProcesses,
          OrphanInv, registry, system, RegistryType, SystemType, Signalled
  <1>5. CASE CreateDir(c)
    BY <1>5 DEF CreateDir
  <1>6. CASE ConfigExists(c)
    BY <1>6 DEF ConfigExists
  <1>7. CASE LoadPort(c)
    BY <1>7 DEF LoadPort
  <1>8. CASE FetchPort(c)
    BY <1>8 DEF FetchPort
  <1>9. CASE InsertPlayer(c)
    BY <1>9 DEF InsertPlayer
  <1>10. CASE CreateConfig(c)
    BY <1>10 DEF CreateConfig
  <1>11. CASE WriteConfig(c)
    BY <1>11 DEF WriteConfig
  <1>12. CASE StartupGet(c)
    BY <1>12 DEF StartupGet
  <1>13. CASE StartupLock(c)
    BY <1>13 DEF StartupLock
  <1>14. CASE SpawnLair(c)
    BY <1>14 DEF SpawnLair, AbortStartup, ReadFirstByte
  <1>15. CASE LairReady(c)
    BY <1>15 DEF LairReady, AbortStartup, ReadFirstByte
  <1>16. CASE SpawnShim(c)
    BY <1>16 DEF SpawnShim, AbortStartup, ReadFirstByte
  <1>17. CASE ShimReady(c)
    BY <1>17 DEF ShimReady, AbortStartup, ReadFirstByte
  <1>18. CASE SpawnHolochain(c)
    BY <1>18 DEF SpawnHolochain, AbortStartup, ReadFirstByte
  <1>19. CASE SpawnTee(c)
    BY <1>19 DEF SpawnTee
  <1>20. CASE HolochainReady(c)
    BY <1>20 DEF HolochainReady
  <1>21. CASE ShutdownCheck(c)
    BY <1>21 DEF ShutdownCheck
  <1>22. CASE ShutdownGet(c)
    BY <1>22 DEF ShutdownGet
  <1>23. CASE ShutdownLock(c)
    BY <1>23 DEF ShutdownLock
  <1>24. CASE WaitHolochain(c)
    BY <1>24 DEF WaitHolochain
  <1>25. CASE WaitLair(c)
    BY <1>25 DEF WaitLair
  <1>26. CASE ResetTake(c)
    BY <1>26 DEF ResetTake
  <1>27. CASE AdminGet(c)
    BY <1>27 DEF AdminGet
  <1>28. CASE AdminCall(c)
    BY <1>28 DEF AdminCall
  <1>29. QED
    BY HandlerStep(c), <1>4, <1>5, <1>6, <1>7, <1>8, <1>9, <1>10, <1>11, <1>12,
       <1>13, <1>14, <1>15, <1>16, <1>17, <1>18, <1>19, <1>20, <1>21, <1>22, <1>23,
       <1>24, <1>25, <1>26, <1>27, <1>28
       DEF HandlerStep, ConfigurePlayer, Startup, Shutdown

\* A conductor that is not reaped stays in a cell, with a handler that stops it,
\* or with a reset that will.
LEMMA NoOrphanStep ==
    ASSUME OrphanInv, NEW c \in Clients, HandlerStep(c)
    PROVE  HeldInv'
  <1>1. FrameOf(c) /\ CellOf(c) /\ frame[c] \in Frame /\ RegistryType /\ SystemType
        /\ HeldInv
    BY DEF OrphanInv, CellsInv, FramesInv, TypeOK, SessionsType
  <1>2. /\ frame'[c].victim = frame[c].victim /\ frame'[c].taken = frame[c].taken
        /\ UNCHANGED processes
        => AnyHeld' = AnyHeld
    <2>1. SUFFICES ASSUME \A d \in Clients : frame'[d].victim = frame[d].victim
                                              /\ frame'[d].taken = frame[d].taken,
                          UNCHANGED processes
                   PROVE  AnyHeld' = AnyHeld
      BY Others DEF OrphanInv
    <2>2. QED
      BY <2>1 DEF AnyHeld
  <1>3. ASSUME NEW r, Return(c, r), ~(pc[c] \in KillLabels \cup {"reset_kill"}),
               UNCHANGED processes
        PROVE  AnyHeld' = AnyHeld
    <2>1. frame[c].victim = None /\ frame[c].taken = {}
      BY <1>1, <1>3 DEF FrameOf
    <2>2. frame'[c] = NoFrame
      BY <1>3, ReturnLocals DEF OrphanInv
    <2>3. frame'[c].victim = None /\ frame'[c].taken = {}
      BY <2>2 DEF NoFrame
    <2>4. QED
      BY <1>2, <1>3, <2>1, <2>3
  <1>4. ASSUME \A p \in Pids : kind'[p] = "holochain" /\ Unreaped(p)' =>
                   kind[p] = "holochain" /\ Unreaped(p),
               \A pair \in AnyHeld : Unreaped(pair.holochain)' => pair \in AnyHeld'
        PROVE  HeldInv'
    BY <1>1, <1>4 DEF HeldInv
  <1>5. ASSUME AnyHeld' = AnyHeld, UNCHANGED <<kind, status>>
        PROVE  HeldInv'
    BY <1>1, <1>5 DEF HeldInv, Unreaped
  <1>6. CASE SpawnLair(c)
    <2>1. CASE AbortStartup(c)
      BY <1>6, <1>3, <1>5, <2>1 DEF AbortStartup, SpawnLair, registry, system
    <2>2. CASE Goto(c, "lair_ready", [frame[c] EXCEPT !.lair = next_pid]) /\ ~AbortStartup(c)
      <3>1. frame'[c].victim = frame[c].victim /\ frame'[c].taken = frame[c].taken
        BY <1>1, <2>2, GotoLocals DEF Frame, OrphanInv
      <3>2. AnyHeld' = AnyHeld
        BY <1>6, <1>2, <2>2, <3>1 DEF SpawnLair, registry
      <3>3. QED
        BY <1>6, <1>1, <1>4, <2>2, <3>2 DEF SpawnLair, Spawn, Unreaped, SystemType
    <2>3. QED
      BY <1>6, <2>1, <2>2 DEF SpawnLair
  <1>7. CASE SpawnShim(c)
    <2>1. CASE AbortStartup(c)
      BY <1>7, <1>3, <1>5, <2>1 DEF AbortStartup, SpawnShim, registry, system
    <2>2. CASE Goto(c, "shim_ready", [frame[c] EXCEPT !.child = next_pid]) /\ ~AbortStartup(c)
      <3>1. frame'[c].victim = frame[c].victim /\ frame'[c].taken = frame[c].taken
        BY <1>1, <2>2, GotoLocals DEF Frame, OrphanInv
      <3>2. AnyHeld' = AnyHeld
        BY <1>7, <1>2, <2>2, <3>1 DEF SpawnShim, registry
      <3>3. QED
        BY <1>7, <1>1, <1>4, <2>2, <3>2 DEF SpawnShim, Spawn, Unreaped, SystemType
    <2>3. QED
      BY <1>7, <2>1, <2>2 DEF SpawnShim
  <1>8. CASE SpawnHolochain(c)
    <2>1. CASE AbortStartup(c)
      BY <1>8, <1>3, <1>5, <2>1 DEF AbortStartup, SpawnHolochain, registry, system
    <2>2. CASE ~AbortStartup(c)
      <3>1. /\ Spawn(c, "holochain")
            /\ processes' = [processes EXCEPT ![Id(c)] =
                               [lair |-> frame[c].lair, holochain |-> next_pid]]
            /\ processes[Id(c)] = None /\ Id(c) \in Ids
        BY <1>8, <1>1, <2>2 DEF SpawnHolochain, CellOf, FrameOf
      <3>2. frame'[c].victim = frame[c].victim /\ frame'[c].taken = frame[c].taken
        <4>1. Goto(c, "spawn_tee", [frame[c] EXCEPT !.lair = None, !.child = next_pid])
          BY <1>8, <2>2 DEF SpawnHolochain
        <4>2. QED
          BY <1>1, <4>1, GotoLocals DEF Frame, OrphanInv
      <3>3. \A pair \in AnyHeld : pair \in AnyHeld'
        <4>1. ASSUME NEW pair, NEW i \in Ids, pair = processes[i], pair # None
              PROVE  pair = processes'[i]
          BY <1>1, <3>1, <4>1 DEF RegistryType
        <4>2. QED
          BY <3>2, <4>1, Others, HeldCases, HeldCasesNext DEF OrphanInv
      <3>4. processes'[Id(c)].holochain = next_pid /\ processes'[Id(c)] \in AnyHeld'
        <4>1. [lair |-> frame[c].lair, holochain |-> next_pid] # None
          BY <1>8, <1>1, <2>2, NoneAssumption, CountsAssumption
             DEF PlayerProcesses, FrameOf, Frame, SpawnHolochain, SystemType, Spawn
        <4>2. QED
          BY <1>1, <3>1, <4>1, HeldCasesNext DEF RegistryType
      <3>5. ASSUME NEW p \in Pids, p # next_pid
            PROVE  kind'[p] = kind[p] /\ (Unreaped(p)' <=> Unreaped(p))
        BY <1>1, <3>1, <3>5 DEF Spawn, SystemType, Unreaped
      <3>6. QED
        BY <1>1, <3>3, <3>4, <3>5 DEF HeldInv
    <2>3. QED
      BY <2>1, <2>2
  <1>9. CASE ShutdownLock(c)
    <2>1. CASE processes[Id(c)] = None
      BY <1>9, <1>3, <1>5, <2>1 DEF ShutdownLock, registry
    <2>2. CASE processes[Id(c)] # None
      <3>1. frame'[c].victim = processes[Id(c)] /\ frame'[c].taken = frame[c].taken
        <4>1. Goto(c, "wait_holochain", [frame[c] EXCEPT !.victim = processes[Id(c)]])
          BY <1>9, <2>2 DEF ShutdownLock
        <4>2. QED
          BY <1>1, <4>1, GotoLocals DEF Frame, OrphanInv
      <3>2. frame[c].victim = None /\ UNCHANGED processes
        BY <1>9, <1>1 DEF ShutdownLock, FrameOf, registry
      <3>3. \A pair \in AnyHeld : pair \in AnyHeld'
        BY <3>1, <3>2, Others, HeldCases, HeldCasesNext DEF OrphanInv
      <3>4. QED
        BY <1>9, <1>1, <1>4, <2>2, <3>3
           DEF ShutdownLock, Signalled, Unreaped, SystemType
    <2>3. QED
      BY <2>1, <2>2
  <1>10. CASE WaitHolochain(c)
    <2>1. frame'[c].victim = frame[c].victim /\ frame'[c].taken = frame[c].taken
      BY <1>10, GotoLocals DEF WaitHolochain, OrphanInv
    <2>2. AnyHeld' = AnyHeld
      BY <1>10, <1>2, <2>1 DEF WaitHolochain, registry
    <2>3. QED
      BY <1>10, <1>1, <1>4, <2>2 DEF WaitHolochain, Signalled, Unreaped, SystemType
  <1>11. CASE WaitLair(c)
    <2>1. frame'[c].victim = None /\ (frame'[c].taken = frame[c].taken \/ frame[c].taken = {})
      BY <1>11, <1>1, GotoLocals, ReturnLocals
         DEF WaitLair, NoFrame, FrameOf, Frame, OrphanInv
    <2>2. status'[frame[c].victim.holochain] = "reaped"
      <3>1. frame[c].victim.holochain \in Pids
        BY <1>11, <1>1 DEF WaitLair, FrameOf, Frame, PlayerProcesses
      <3>2. QED
        BY <1>11, <1>1, <3>1, ReapedStays DEF WaitLair, CellOf
    <2>3. \/ UNCHANGED processes
          \/ /\ processes' = [processes EXCEPT ![Id(c)] = None]
             /\ processes[Id(c)] = frame[c].victim
      BY <1>11, <1>1 DEF WaitLair, CellOf
    <2>4. ASSUME NEW pair \in AnyHeld, pair # frame[c].victim
          PROVE  pair \in AnyHeld'
      <3>1. ASSUME NEW i \in Ids, pair = processes[i]
            PROVE  pair \in AnyHeld'
        BY <1>1, <2>3, <2>4, <3>1, HeldCases, HeldCasesNext DEF RegistryType
      <3>2. ASSUME NEW d \in Clients, pair = frame[d].victim \/ pair \in frame[d].taken
            PROVE  pair \in AnyHeld'
        BY <2>1, <2>4, <3>2, Others, HeldCases, HeldCasesNext DEF OrphanInv
      <3>3. QED
        BY <2>4, <3>1, <3>2, HeldCases
    <2>5. \A pair \in AnyHeld : Unreaped(pair.holochain)' => pair \in AnyHeld'
      BY <2>2, <2>4 DEF Unreaped
    <2>6. QED
      BY <1>11, <1>1, <1>4, <2>5 DEF WaitLair, Unreaped, SystemType
  <1>12. CASE ResetTake(c)
    <2>1. CASE Return(c, "error") /\ UNCHANGED processes
      BY <1>12, <1>3, <1>5, <2>1 DEF ResetTake
    <2>2. CASE Goto(c, "reset_kill", [frame[c] EXCEPT !.taken =
                      {processes[i] : i \in players} \ {None}])
      <3>1. /\ frame'[c].victim = None
            /\ frame'[c].taken = {processes[i] : i \in players} \ {None}
        BY <1>12, <1>1, <2>2, GotoLocals DEF ResetTake, FrameOf, Frame, OrphanInv
      <3>2. frame[c].victim = None /\ frame[c].taken = {}
        BY <1>12, <1>1 DEF ResetTake, FrameOf
      <3>3. ASSUME NEW pair \in AnyHeld
            PROVE  pair \in AnyHeld'
        <4>1. ASSUME NEW i \in Ids, pair = processes[i]
              PROVE  pair \in frame'[c].taken
          BY <3>1, <3>3, <4>1, HeldCases DEF OrphanInv, RegisteredInv
        <4>2. ASSUME NEW d \in Clients, pair = frame[d].victim \/ pair \in frame[d].taken
              PROVE  pair = frame'[d].victim \/ pair \in frame'[d].taken
          BY <3>2, <3>3, <4>2, Others, HeldCases DEF OrphanInv
        <4>3. QED
          BY <3>3, <4>1, <4>2, HeldCases, HeldCasesNext
      <3>4. QED
        BY <1>12, <1>4, <3>3 DEF ResetTake, Unreaped
    <2>3. QED
      BY <1>12, <2>1, <2>2 DEF ResetTake
  <1>13. CASE ResetKill(c)
    <2>1. CASE Return(c, "ok") /\ UNCHANGED status /\ frame[c].taken = {}
      <3>1. AnyHeld' = AnyHeld
        BY <1>13, <1>1, <1>2, <2>1, ReturnLocals
           DEF ResetKill, FrameOf, NoFrame, OrphanInv, registry
      <3>2. QED
        BY <1>13, <1>4, <2>1, <3>1 DEF ResetKill, Unreaped
    <2>2. ASSUME NEW pair \in frame[c].taken, status' = Signalled(pair.holochain),
                 Goto(c, "wait_holochain",
                      [frame[c] EXCEPT !.victim = pair, !.taken = frame[c].taken \ {pair}])
          PROVE  HeldInv'
      <3>1. frame'[c].victim = pair /\ frame'[c].taken = frame[c].taken \ {pair}
        <4>1. /\ frame[c] \in Frame
              /\ frame'[c] = [frame[c] EXCEPT !.victim = pair,
                                              !.taken = frame[c].taken \ {pair}]
          BY <1>1, <2>2, GotoLocals DEF OrphanInv
        <4>2. QED
          BY <4>1 DEF Frame
      <3>2. frame[c].victim = None /\ UNCHANGED <<processes, kind>>
        BY <1>13, <1>1 DEF ResetKill, FrameOf, registry
      <3>3. \A held \in AnyHeld : held \in AnyHeld'
        BY <3>1, <3>2, Others, HeldCases, HeldCasesNext DEF OrphanInv
      <3>4. QED
        BY <1>1, <1>4, <2>2, <3>2, <3>3 DEF Signalled, Unreaped, SystemType
    <2>3. CASE ~(Return(c, "ok") /\ UNCHANGED status /\ frame[c].taken = {})
      <3>1. PICK pair \in frame[c].taken :
              /\ status' = Signalled(pair.holochain)
              /\ Goto(c, "wait_holochain",
                      [frame[c] EXCEPT !.victim = pair, !.taken = frame[c].taken \ {pair}])
        BY <1>13, <2>3 DEF ResetKill
      <3>2. QED
        BY <2>2, <3>1
    <2>4. QED
      BY <2>1, <2>3
  <1> USE <1>1, <1>2, <1>3, <1>5, GotoLocals DEF OrphanInv, Frame, registry, system
  <1>14. CASE CreateDir(c)
    BY <1>14 DEF CreateDir
  <1>15. CASE ConfigExists(c)
    BY <1>15 DEF ConfigExists
  <1>16. CASE LoadPort(c)
    BY <1>16 DEF LoadPort
  <1>17. CASE FetchPort(c)
    BY <1>17 DEF FetchPort
  <1>18. CASE InsertPlayer(c)
    BY <1>18 DEF InsertPlayer
  <1>19. CASE CreateConfig(c)
    BY <1>19 DEF CreateConfig
  <1>20. CASE WriteConfig(c)
    BY <1>20 DEF WriteConfig
  <1>21. CASE StartupGet(c)
    BY <1>21 DEF StartupGet
  <1>22. CASE StartupLock(c)
    BY <1>22 DEF StartupLock
  <1>23. CASE LairReady(c)
    BY <1>23 DEF LairReady, AbortStartup, ReadFirstByte
  <1>24. CASE ShimReady(c)
    BY <1>24 DEF ShimReady, AbortStartup, ReadFirstByte
  <1>25. CASE SpawnTee(c)
    BY <1>25 DEF SpawnTee
  <1>26. CASE HolochainReady(c)
    BY <1>26 DEF HolochainReady
  <1>27. CASE ShutdownCheck(c)
    BY <1>27 DEF ShutdownCheck
  <1>28. CASE ShutdownGet(c)
    BY <1>28 DEF ShutdownGet
  <1>29. CASE AdminGet(c)
    BY <1>29 DEF AdminGet
  <1>30. CASE AdminCall(c)
    BY <1>30 DEF AdminCall
  <1>31. QED
    BY HandlerStep(c), <1>6, <1>7, <1>8, <1>9, <1>10, <1>11, <1>12, <1>13, <1>14,
       <1>15, <1>16, <1>17, <1>18, <1>19, <1>20, <1>21, <1>22, <1>23, <1>24, <1>25,
       <1>26, <1>27, <1>28, <1>29, <1>30
       DEF HandlerStep, ConfigurePlayer, Startup, Shutdown

\* Every handler keeps the types of the registry.
LEMMA RegistryTypeStep ==
    ASSUME OrphanInv, NEW c \in Clients, HandlerStep(c)
    PROVE  RegistryType'
  <1>1. TypeOK /\ RegistryType /\ FrameOf(c) /\ SessionsType /\ SystemType
    BY DEF OrphanInv, TypeOK, FramesInv
  <1>2. UNCHANGED registry => RegistryType'
    BY <1>1, UnchangedType
  <1>3. AbortStartup(c) => RegistryType'
    BY <1>1, AbortType DEF TypeOK
  <1>4. CASE FetchPort(c)
    BY <1>4, <1>1, <1>2, <1>3, CountsAssumption
       DEF FetchPort, RegistryType, SessionsType, FrameOf, Frame, PlayerProcesses,
           SystemType, Spawn
  <1>5. CASE InsertPlayer(c)
    BY <1>5, <1>1, <1>2, <1>3, CountsAssumption
       DEF InsertPlayer, RegistryType, SessionsType, FrameOf, Frame,
           PlayerProcesses, SystemType, Spawn
  <1>6. CASE SpawnHolochain(c)
    BY <1>6, SpawnHolochainType DEF OrphanInv, TypeOK
  <1>7. CASE WaitLair(c)
    BY <1>7, <1>1, <1>2, <1>3, CountsAssumption
       DEF WaitLair, RegistryType, SessionsType, FrameOf, Frame, PlayerProcesses,
           SystemType, Spawn
  <1>8. CASE ResetTake(c)
    BY <1>8, <1>1, <1>2, <1>3, CountsAssumption
       DEF ResetTake, RegistryType, SessionsType, FrameOf, Frame, PlayerProcesses,
           SystemType, Spawn
  <1>9. QED
    BY <1>2, <1>3, <1>4, <1>5, <1>6, <1>7, <1>8
       DEF HandlerStep, ConfigurePlayer, Startup, Shutdown, ReadFirstByte, registry,
           CreateDir, ConfigExists, LoadPort, CreateConfig, WriteConfig, StartupGet,
           StartupLock, SpawnLair, LairReady, SpawnShim, ShimReady, SpawnTee,
           HolochainReady, ShutdownCheck, ShutdownGet, ShutdownLock, WaitHolochain,
           ResetKill, AdminGet, AdminCall

\* Every handler keeps the types of the locks.
LEMMA LocksTypeStep ==
    ASSUME OrphanInv, NEW c \in Clients, HandlerStep(c)
    PROVE  LocksType'
  <1>1. TypeOK /\ LocksType /\ FrameOf(c) /\ SessionsType /\ SystemType
    BY DEF OrphanInv, TypeOK, FramesInv
  <1>2. UNCHANGED locks => LocksType'
    BY <1>1, UnchangedType
  <1>3. AbortStartup(c) => LocksType'
    BY <1>1, AbortType DEF TypeOK
  <1>4. CASE StartupGet(c)
    BY <1>4, <1>1, <1>2, <1>3, DropType DEF StartupGet, LocksType, LockProcesses
  <1>5. CASE StartupLock(c)
    BY <1>5, <1>1, <1>2, <1>3, DropType DEF StartupLock, LocksType, LockProcesses
  <1>6. CASE SpawnHolochain(c)
    BY <1>6, <1>1, <1>2, <1>3, DropType DEF SpawnHolochain, LocksType, LockProcesses
  <1>7. CASE ShutdownGet(c)
    BY <1>7, <1>1, <1>2, <1>3, DropType DEF ShutdownGet, LocksType, LockProcesses
  <1>8. CASE ShutdownLock(c)
    BY <1>8, <1>1, <1>2, <1>3, DropType DEF ShutdownLock, LocksType, LockProcesses
  <1>9. CASE WaitLair(c)
    BY <1>9, <1>1, <1>2, <1>3, DropType DEF WaitLair, LocksType, LockProcesses
  <1>10. QED
    BY <1>2, <1>3, <1>4, <1>5, <1>6, <1>7, <1>8, <1>9
       DEF HandlerStep, ConfigurePlayer, Startup, Shutdown, ReadFirstByte, locks,
           CreateDir, ConfigExists, LoadPort, FetchPort, InsertPlayer, CreateConfig,
           WriteConfig, SpawnLair, LairReady, SpawnShim, ShimReady, SpawnTee,
           HolochainReady, ShutdownCheck, WaitHolochain, ResetTake, ResetKill,
           AdminGet, AdminCall

\* Every handler keeps the types of the files.
LEMMA FilesTypeStep ==
    ASSUME OrphanInv, NEW c \in Clients, HandlerStep(c)
    PROVE  FilesType'
  <1>1. TypeOK /\ FilesType /\ FrameOf(c) /\ SessionsType /\ SystemType
    BY DEF OrphanInv, TypeOK, FramesInv
  <1>2. UNCHANGED files => FilesType'
    BY <1>1, UnchangedType
  <1>3. AbortStartup(c) => FilesType'
    BY <1>1, AbortType DEF TypeOK
  <1>4. CASE CreateDir(c)
    BY <1>4, <1>1, <1>2, <1>3
       DEF CreateDir, FilesType, FrameOf, SessionsType, Frame, RemoveAllBut
  <1>5. CASE CreateConfig(c)
    BY <1>5, <1>1, <1>2, <1>3
       DEF CreateConfig, FilesType, FrameOf, SessionsType, Frame, RemoveAllBut
  <1>6. CASE WriteConfig(c)
    BY <1>6, <1>1, <1>2, <1>3
       DEF WriteConfig, FilesType, FrameOf, SessionsType, Frame, RemoveAllBut
  <1>7. CASE ResetTake(c)
    BY <1>7, <1>1, <1>2, <1>3
       DEF ResetTake, FilesType, FrameOf, SessionsType, Frame, RemoveAllBut
  <1>8. QED
    BY <1>2, <1>3, <1>4, <1>5, <1>6, <1>7
       DEF HandlerStep, ConfigurePlayer, Startup, Shutdown, ReadFirstByte, files,
           ConfigExists, LoadPort, FetchPort, InsertPlayer, StartupGet, StartupLock,
           SpawnLair, LairReady, SpawnShim, ShimReady, SpawnHolochain, SpawnTee,
           HolochainReady, ShutdownCheck, ShutdownGet, ShutdownLock, WaitHolochain,
           WaitLair, ResetKill, AdminGet, AdminCall

\* Every handler keeps the types of the processes.
LEMMA SystemTypeStep ==
    ASSUME OrphanInv, NEW c \in Clients, HandlerStep(c)
    PROVE  SystemType'
  <1>1. TypeOK /\ SystemType /\ FrameOf(c) /\ SessionsType /\ SystemType
    BY DEF OrphanInv, TypeOK, FramesInv
  <1>2. UNCHANGED system => SystemType'
    BY <1>1, UnchangedType
  <1>3. AbortStartup(c) => SystemType'
    BY <1>1, AbortType DEF TypeOK
  <1>4. CASE SpawnLair(c)
    BY <1>4, <1>1, <1>2, <1>3, SpawnType
       DEF SpawnLair, FrameOf, SystemType, Signalled, RemoveAllBut
  <1>5. CASE SpawnShim(c)
    BY <1>5, <1>1, <1>2, <1>3, SpawnType
       DEF SpawnShim, FrameOf, SystemType, Signalled, RemoveAllBut
  <1>6. CASE SpawnHolochain(c)
    BY <1>6, <1>1, <1>2, <1>3, SpawnType
       DEF SpawnHolochain, FrameOf, SystemType, Signalled, RemoveAllBut
  <1>7. CASE ShutdownLock(c)
    BY <1>7, <1>1, <1>2, <1>3, SpawnType
       DEF ShutdownLock, FrameOf, SystemType, Signalled, RemoveAllBut
  <1>8. CASE WaitHolochain(c)
    BY <1>8, <1>1, <1>2, <1>3, SpawnType
       DEF WaitHolochain, FrameOf, SystemType, Signalled, RemoveAllBut
  <1>9. CASE WaitLair(c)
    BY <1>9, <1>1, <1>2, <1>3, SpawnType
       DEF WaitLair, FrameOf, SystemType, Signalled, RemoveAllBut
  <1>10. CASE ResetTake(c)
    BY <1>10, <1>1, <1>2, <1>3, SpawnType
       DEF ResetTake, FrameOf, SystemType, Signalled, RemoveAllBut
  <1>11. CASE ResetKill(c)
    BY <1>11, <1>1, <1>2, <1>3, SpawnType
       DEF ResetKill, FrameOf, SystemType, Signalled, RemoveAllBut
  <1>12. QED
    BY <1>2, <1>3, <1>4, <1>5, <1>6, <1>7, <1>8, <1>9, <1>10, <1>11
       DEF HandlerStep, ConfigurePlayer, Startup, Shutdown, ReadFirstByte, system,
           CreateDir, ConfigExists, LoadPort, FetchPort, InsertPlayer, CreateConfig,
           WriteConfig, StartupGet, StartupLock, LairReady, ShimReady, SpawnTee,
           HolochainReady, ShutdownCheck, ShutdownGet, AdminGet, AdminCall

\* Every handler keeps the types of the sessions.
LEMMA SessionsTypeStep ==
    ASSUME OrphanInv, NEW c \in Clients, HandlerStep(c)
    PROVE  SessionsType'
  <1>1. TypeOK /\ FrameOf(c) /\ SessionsType /\ SystemType /\ RegistryType
    BY DEF OrphanInv, TypeOK, FramesInv
  <1>2. ASSUME NEW r \in {"ok", "error"}, Return(c, r)
        PROVE  SessionsType'
    BY <1>1, <1>2, ReturnType
  <1>3. ASSUME NEW label \in Labels, NEW f \in Frame, Goto(c, label, f)
        PROVE  SessionsType'
    BY <1>1, <1>3, GotoType
  <1>4. CASE ResetKill(c)
    <2>1. CASE Return(c, "ok")
      BY <1>2, <2>1
    <2>2. ASSUME NEW pair \in frame[c].taken,
                 Goto(c, "wait_holochain",
                      [frame[c] EXCEPT !.victim = pair, !.taken = frame[c].taken \ {pair}])
          PROVE  SessionsType'
      <3>1. frame[c] \in Frame /\ pair \in PlayerProcesses
        BY <1>1 DEF SessionsType, Frame
      <3>2. [frame[c] EXCEPT !.victim = pair, !.taken = frame[c].taken \ {pair}] \in Frame
        BY <3>1 DEF Frame
      <3>3. QED
        BY <1>3, <2>2, <3>2 DEF Labels
    <2>3. QED
      BY <1>4, <2>1, <2>2 DEF ResetKill
  <1> USE <1>1, <1>2, <1>3, FrameType DEF Labels, FrameOf
  <1>5. CASE CreateDir(c)
    BY <1>5 DEF CreateDir
  <1>6. CASE ConfigExists(c)
    BY <1>6 DEF ConfigExists
  <1>7. CASE LoadPort(c)
    BY <1>7 DEF LoadPort
  <1>8. CASE FetchPort(c)
    BY <1>8 DEF FetchPort, RegistryType
  <1>9. CASE InsertPlayer(c)
    BY <1>9 DEF InsertPlayer
  <1>10. CASE CreateConfig(c)
    BY <1>10 DEF CreateConfig
  <1>11. CASE WriteConfig(c)
    BY <1>11 DEF WriteConfig
  <1>12. CASE StartupGet(c)
    BY <1>12 DEF StartupGet
  <1>13. CASE StartupLock(c)
    BY <1>13 DEF StartupLock
  <1>14. CASE SpawnLair(c)
    BY <1>14, SpawnType DEF SpawnLair, AbortStartup, ReadFirstByte
  <1>15. CASE LairReady(c)
    BY <1>15 DEF LairReady, AbortStartup, ReadFirstByte
  <1>16. CASE SpawnShim(c)
    BY <1>16, SpawnType DEF SpawnShim, AbortStartup, ReadFirstByte
  <1>17. CASE ShimReady(c)
    BY <1>17 DEF ShimReady, AbortStartup, ReadFirstByte
  <1>18. CASE SpawnHolochain(c)
    BY <1>18, SpawnHolochainType DEF OrphanInv, TypeOK
  <1>19. CASE SpawnTee(c)
    BY <1>19, SpawnType DEF SpawnTee
  <1>20. CASE HolochainReady(c)
    BY <1>20 DEF HolochainReady
  <1>21. CASE ShutdownCheck(c)
    BY <1>21 DEF ShutdownCheck
  <1>22. CASE ShutdownGet(c)
    BY <1>22 DEF ShutdownGet
  <1>23. CASE ShutdownLock(c)
    BY <1>23 DEF ShutdownLock, RegistryType
  <1>24. CASE WaitHolochain(c)
    BY <1>24 DEF WaitHolochain
  <1>25. CASE WaitLair(c)
    BY <1>25 DEF WaitLair
  <1>26. CASE ResetTake(c)
    BY <1>26 DEF ResetTake, RegistryType
  <1>27. CASE AdminGet(c)
    BY <1>27 DEF AdminGet, RegistryType
  <1>28. CASE AdminCall(c)
    BY <1>28 DEF AdminCall
  <1>29. QED
    BY HandlerStep(c), <1>4, <1>5, <1>6, <1>7, <1>8, <1>9, <1>10, <1>11, <1>12,
       <1>13, <1>14, <1>15, <1>16, <1>17, <1>18, <1>19, <1>20, <1>21, <1>22, <1>23,
       <1>24, <1>25, <1>26, <1>27, <1>28
       DEF HandlerStep, ConfigurePlayer, Startup, Shutdown

\* Every step of a handler keeps the invariant.
LEMMA HandlerKeeps ==
    ASSUME OrphanInv, NEW c \in Clients, HandlerStep(c)
    PROVE  OrphanInv'
  <1>1. TypeOK'
    BY RegistryTypeStep, LocksTypeStep, FilesTypeStep, SystemTypeStep,
       SessionsTypeStep
       DEF TypeOK
  <1>2. QED
    BY GuardsStep, FramesStep, CellsStep, RegisteredStep, SpawnedStep, NoOrphanStep,
       <1>1
       DEF OrphanInv

\* Receiving a request keeps the invariant.
LEMMA ReceiveKeeps ==
    ASSUME OrphanInv, NEW c \in Clients, NEW op \in Ops, NEW id \in Ids \cup {None},
           Receive(c, op, id)
    PROVE  OrphanInv'
  <1>1. pc[c] = "idle" /\ pc' = [pc EXCEPT ![c] = FirstLabel[op]]
        /\ req' = [req EXCEPT ![c] = [op |-> op, id |-> id]]
        /\ UNCHANGED <<frame, registry, locks, files, system>>
        /\ op \in OpNames /\ (op = "reset" <=> id = None)
    BY KindsAssumption DEF Receive, Busy
  <1>2. FirstLabel[op] \in {"create_dir", "startup_get", "shutdown_check",
                            "reset_take", "admin_get"}
        /\ (FirstLabel[op] = "reset_take" <=> op = "reset")
        /\ (FirstLabel[op] = "shutdown_check" <=> op = "shutdown")
    BY <1>1 DEF FirstLabel, OpNames
  <1>3. TypeOK'
    <2>1. SessionsType'
      BY <1>1, <1>2, CountsAssumption
         DEF OrphanInv, TypeOK, SessionsType, Receive, Labels
    <2>2. QED
      BY <1>1, <2>1, UnchangedType DEF OrphanInv, TypeOK
  <1>4. \A d \in Clients \ {c} : pc'[d] = pc[d] /\ req'[d] = req[d]
    BY <1>1 DEF OrphanInv, TypeOK, SessionsType
  <1>5. pc'[c] = FirstLabel[op] /\ req'[c].op = op /\ req'[c].id = id
    BY <1>1 DEF OrphanInv, TypeOK, SessionsType
  <1>6. GuardsInv'
    BY <1>1, <1>2, <1>4, <1>5
       DEF OrphanInv, GuardsInv, GuardsOf, HoldsRead, HoldsLock, registry, locks
  <1>7. FramesInv'
    <2>1. FrameOf(c)'
      BY <1>1, <1>2, <1>5 DEF OrphanInv, FramesInv, FrameOf
    <2>2. QED
      BY <1>1, <1>4, <2>1 DEF OrphanInv, FramesInv, FrameOf
  <1>8. CellsInv'
    BY <1>1, <1>2, <1>4, <1>5 DEF OrphanInv, CellsInv, CellOf, registry, system
  <1>9. RegisteredInv' /\ SpawnedInv' /\ HeldInv'
    BY <1>1
       DEF OrphanInv, RegisteredInv, SpawnedInv, HeldInv, AnyHeld, Unreaped,
           registry, system
  <1>10. QED
    BY <1>3, <1>6, <1>7, <1>8, <1>9 DEF OrphanInv

\* What processes do by themselves keeps the invariant.
LEMMA ProcessKeeps ==
    ASSUME OrphanInv, NEW p \in Pids, ProcessReady(p) \/ ProcessExits(p)
    PROVE  OrphanInv'
  <1>1. /\ UNCHANGED <<registry, locks, files, sessions, next_pid, kind, owner>>
        /\ \/ UNCHANGED status
           \/ Alive(p) /\ status' = [status EXCEPT ![p] = "zombie"]
    BY DEF ProcessReady, ProcessExits
  <1>2. TypeOK'
    <2>1. SystemType'
      <3>1. CASE ProcessReady(p)
        <4>1. kind[p] = "holochain" => owner[p] \in Ids
          BY NoneAssumption DEF OrphanInv, SpawnedInv, TypeOK, SystemType
        <4>2. kind[p] = "holochain" => config_port[owner[p]] \in Port \cup {None}
          BY <4>1 DEF OrphanInv, TypeOK, FilesType
        <4>3. QED
          BY <3>1, <4>2 DEF ProcessReady, OrphanInv, TypeOK, SystemType
      <3>2. CASE ProcessExits(p)
        BY <3>2 DEF ProcessExits, OrphanInv, TypeOK, SystemType
      <3>3. QED
        BY <3>1, <3>2
    <2>2. QED
      BY <1>1, <2>1, UnchangedType DEF OrphanInv, TypeOK
  <1>3. \A q \in Pids : /\ status[q] = "reaped" <=> status'[q] = "reaped"
                        /\ status[q] = "unborn" <=> status'[q] = "unborn"
    BY <1>1 DEF OrphanInv, TypeOK, SystemType, Alive
  <1>4. GuardsInv' /\ FramesInv' /\ RegisteredInv'
    BY <1>1
       DEF OrphanInv, GuardsInv, GuardsOf, HoldsRead, HoldsLock, FramesInv, FrameOf,
           RegisteredInv, registry, locks, sessions
  <1>5. CellsInv'
    <2>1. \A c \in Clients : pc[c] = "wait_lair" => frame[c].victim.holochain \in Pids
      BY DEF OrphanInv, FramesInv, FrameOf, TypeOK, SessionsType, Frame,
             PlayerProcesses
    <2>2. QED
      BY <1>1, <1>3, <2>1 DEF OrphanInv, CellsInv, CellOf, registry, sessions
  <1>6. SpawnedInv'
    BY <1>1, <1>3 DEF OrphanInv, SpawnedInv
  <1>7. HeldInv'
    <2>1. AnyHeld' = AnyHeld
      BY <1>1 DEF AnyHeld, registry, sessions
    <2>2. QED
      BY <1>1, <1>3, <2>1 DEF OrphanInv, HeldInv, Unreaped
  <1>8. QED
    BY <1>2, <1>4, <1>5, <1>6, <1>7 DEF OrphanInv

\* The invariant holds initially.
LEMMA InitOrphan == Init => OrphanInv
  <1> SUFFICES ASSUME Init PROVE OrphanInv
    OBVIOUS
  <1>1. TypeOK
    BY InitType
  <1>2. GuardsInv /\ FramesInv /\ CellsInv /\ RegisteredInv
    BY DEF Init, GuardsInv, GuardsOf, HoldsRead, HoldsLock, FramesInv, FrameOf,
           CellsInv, CellOf, RegisteredInv, NoFrame
  <1>3. SpawnedInv
    BY CountsAssumption DEF Init, SpawnedInv
  <1>4. HeldInv
    BY DEF Init, HeldInv, Unreaped
  <1>5. QED
    BY <1>1, <1>2, <1>3, <1>4 DEF OrphanInv

\* Every step keeps the invariant.
LEMMA StepOrphan == OrphanInv /\ [Next]_vars => OrphanInv'
  <1> SUFFICES ASSUME OrphanInv, [Next]_vars PROVE OrphanInv'
    OBVIOUS
  <1>1. ASSUME NEW c \in Clients, NEW op \in Ops, NEW id \in Ids \cup {None},
               Receive(c, op, id)
        PROVE  OrphanInv'
    BY <1>1, ReceiveKeeps
  <1>2. ASSUME NEW c \in Clients, HandlerStep(c)
        PROVE  OrphanInv'
    BY <1>2, HandlerKeeps
  <1>3. ASSUME NEW p \in Pids, ProcessReady(p) \/ ProcessExits(p)
        PROVE  OrphanInv'
    BY <1>3, ProcessKeeps
  <1>4. CASE UNCHANGED vars
    <2>1. TypeOK'
      BY <1>4, UnchangedType DEF OrphanInv, TypeOK, vars
    <2>2. QED
      BY <1>4, <2>1
         DEF OrphanInv, GuardsInv, GuardsOf, HoldsRead, HoldsLock, FramesInv,
             FrameOf, CellsInv, CellOf, RegisteredInv, SpawnedInv, HeldInv, AnyHeld,
             Unreaped, vars, registry, locks, system, sessions
  <1>5. QED
    BY <1>1, <1>2, <1>3, <1>4 DEF Next, Finished

\* Every reachable state of the registry has the right types.
THEOREM TypeCorrect == Spec => []TypeOK
  <1>1. OrphanInv => TypeOK
    BY DEF OrphanInv
  <1>2. QED
    BY <1>1, InitOrphan, StepOrphan, PTL DEF Spec

\* A conductor that was spawned and not reaped is always in the cell of its
\* player or in the hands of a handler that is about to stop it, whatever starts,
\* stops, resets, failures and crashes interleave.
THEOREM NoOrphan == Spec => []NoOrphanConductor
  <1>1. OrphanInv => NoOrphanConductor
    <2>1. OrphanInv => AnyHeld = Held
      BY DEF OrphanInv, RegistryType, TypeOK, RegisteredInv, AnyHeld, Held
    <2>2. QED
      BY <2>1 DEF OrphanInv, HeldInv, NoOrphanConductor
  <1>2. QED
    BY <1>1, InitOrphan, StepOrphan, PTL DEF Spec

-----------------------------------------------------------------------------
\* Whoever has a player's Mutex is at work on that player, after every step.
LEMMA LocksStep ==
    ASSUME OrphanInv, LocksInv, NEW c \in Clients, HandlerStep(c)
    PROVE  LocksInv'
  <1>1. /\ FrameOf(c) /\ LocksType /\ UNCHANGED req
        /\ \A d \in Clients \ {c} : HoldsLock(d)' <=> HoldsLock(d)
        /\ HoldsLock(c) => processes_lock[Id(c)] = c
    BY Others
       DEF OrphanInv, FramesInv, TypeOK, HoldsLock, GuardsInv, GuardsOf
  <1>2. ASSUME UNCHANGED processes_lock, HoldsLock(c) => HoldsLock(c)'
        PROVE  LocksInv'
    BY <1>1, <1>2 DEF LocksInv, LocksType
  <1>3. ASSUME DropGuards(c), Id(c) \in Ids
        PROVE  LocksInv'
    BY <1>1, <1>3 DEF LocksInv, LocksType, DropGuards
  <1>4. ASSUME LockProcesses(c), HoldsLock(c)', Id(c) \in Ids
        PROVE  LocksInv'
    BY <1>1, <1>4 DEF LocksInv, LocksType, LockProcesses
  <1>5. ASSUME NEW label, NEW f, Goto(c, label, f)
        PROVE  pc'[c] = label
    BY <1>5, GotoLocals DEF OrphanInv
  <1> USE <1>1, <1>2, <1>3, <1>4, <1>5 DEF HoldsLock, FrameOf, locks
  <1>6. CASE CreateDir(c)
    BY <1>6 DEF CreateDir
  <1>7. CASE ConfigExists(c)
    BY <1>7 DEF ConfigExists
  <1>8. CASE LoadPort(c)
    BY <1>8 DEF LoadPort
  <1>9. CASE FetchPort(c)
    BY <1>9 DEF FetchPort
  <1>10. CASE InsertPlayer(c)
    BY <1>10 DEF InsertPlayer
  <1>11. CASE CreateConfig(c)
    BY <1>11 DEF CreateConfig
  <1>12. CASE WriteConfig(c)
    BY <1>12 DEF WriteConfig
  <1>13. CASE StartupGet(c)
    BY <1>13 DEF StartupGet
  <1>14. CASE StartupLock(c)
    BY <1>14 DEF StartupLock
  <1>15. CASE SpawnLair(c)
    BY <1>15 DEF SpawnLair, AbortStartup
  <1>16. CASE LairReady(c)
    BY <1>16 DEF LairReady, AbortStartup, ReadFirstByte
  <1>17. CASE SpawnShim(c)
    BY <1>17 DEF SpawnShim, AbortStartup
  <1>18. CASE ShimReady(c)
    BY <1>18 DEF ShimReady, AbortStartup, ReadFirstByte
  <1>19. CASE SpawnHolochain(c)
    BY <1>19 DEF SpawnHolochain, AbortStartup
  <1>20. CASE SpawnTee(c)
    BY <1>20 DEF SpawnTee
  <1>21. CASE HolochainReady(c)
    BY <1>21 DEF HolochainReady
  <1>22. CASE ShutdownCheck(c)
    BY <1>22 DEF ShutdownCheck
  <1>23. CASE ShutdownGet(c)
    BY <1>23 DEF ShutdownGet
  <1>24. CASE ShutdownLock(c)
    BY <1>24 DEF ShutdownLock
  <1>25. CASE WaitHolochain(c)
    BY <1>25 DEF WaitHolochain
  <1>26. CASE WaitLair(c)
    BY <1>26 DEF WaitLair
  <1>27. CASE ResetTake(c)
    BY <1>27 DEF ResetTake
  <1>28. CASE ResetKill(c)
    <2>1. UNCHANGED processes_lock /\ ~HoldsLock(c)
      BY <1>28 DEF ResetKill
    <2>2. QED
      BY <2>1, <1>2
  <1>29. CASE AdminGet(c)
    BY <1>29 DEF AdminGet
  <1>30. CASE AdminCall(c)
    BY <1>30 DEF AdminCall
  <1>31. QED
    BY <1>6, <1>7, <1>8, <1>9, <1>10, <1>11, <1>12, <1>13, <1>14, <1>15, <1>16, <1>17,
       <1>18, <1>19, <1>20, <1>21, <1>22, <1>23, <1>24, <1>25, <1>26, <1>27, <1>28,
       <1>29, <1>30
       DEF HandlerStep, ConfigurePlayer, Startup, Shutdown

\* What is held is a pair of process ids.
LEMMA HeldPids ==
    ASSUME OrphanInv, NEW pair \in AnyHeld
    PROVE  pair # None /\ pair \in PlayerProcesses /\ pair.lair \in Pids /\ pair.holochain \in Pids
  <1>1. pair \in PlayerProcesses
    BY HeldCases DEF OrphanInv, TypeOK, RegistryType, SessionsType, Frame
  <1>2. QED
    BY <1>1, HeldCases DEF PlayerProcesses

\* A step that moves no pair, reaps nobody and begins no killing keeps what
\* is held in order.
LEMMA HoldingsStay ==
    ASSUME OrphanInv, PairsInv, OnceInv, SignalsOwnChildren,
           NEW c \in Clients, HandlerStep(c), UNCHANGED processes,
           frame'[c].victim = frame[c].victim, frame'[c].taken = frame[c].taken,
           \A p \in Pids : /\ Unreaped(p) => Unreaped(p)'
                           /\ kind[p] # None => kind'[p] = kind[p],
           \A i \in Ids : processes[i] # None /\ processes_lock'[i] = None =>
                              processes_lock[i] = None,
           pc'[c] \in KillLabels => pc'[c] = pc[c]
    PROVE  AnyHeld' = AnyHeld /\ PairsInv' /\ OnceInv' /\ SignalsOwnChildren'
  <1>1. /\ UNCHANGED req
        /\ \A d \in Clients : frame'[d].victim = frame[d].victim /\ frame'[d].taken = frame[d].taken
        /\ \A d \in Clients : pc'[d] \in KillLabels => pc'[d] = pc[d]
    BY Others DEF OrphanInv
  <1>2. AnyHeld' = AnyHeld
    BY <1>1 DEF AnyHeld
  <1>3. \A d \in Clients : Grip(d)' = Grip(d)
    BY <1>1 DEF Grip
  <1>4. PairsInv'
    BY <1>2, HeldPids, NoneAssumption DEF PairsInv
  <1>5. OnceInv'
    BY <1>1, <1>3 DEF OnceInv, Holds
  <1>6. \A pair \in AnyHeld : /\ Unreaped(pair.lair) => Unreaped(pair.lair)'
                              /\ Unreaped(pair.holochain) => Unreaped(pair.holochain)'
    BY HeldPids
  <1>7. \A i \in Ids : processes'[i] # None /\ processes_lock'[i] = None =>
            Unreaped(processes[i].holochain)' /\ Unreaped(processes[i].lair)'
    BY <1>6, HeldCases DEF SignalsOwnChildren
  <1>8. \A d \in Clients :
          /\ \A pair \in frame'[d].taken : Unreaped(pair.holochain)' /\ Unreaped(pair.lair)'
          /\ pc'[d] = "wait_holochain" => Unreaped(frame[d].victim.holochain)'
          /\ pc'[d] \in {"wait_holochain", "wait_lair"} => Unreaped(frame[d].victim.lair)'
    <2>1. \A d \in Clients : /\ \A pair \in frame[d].taken : pair # None => pair \in AnyHeld
                             /\ pc[d] \in KillLabels => frame[d].victim \in AnyHeld
      BY HeldCases DEF OrphanInv, FramesInv, FrameOf
    <2>2. \A d \in Clients : \A pair \in frame[d].taken : pair # None
      BY NoneAssumption DEF OrphanInv, TypeOK, SessionsType, Frame
    <2>3. QED
      BY <1>1, <1>6, <2>1, <2>2 DEF SignalsOwnChildren
  <1>9. SignalsOwnChildren'
    BY <1>1, <1>7, <1>8 DEF SignalsOwnChildren, Unreaped
  <1>10. QED
    BY <1>2, <1>4, <1>5, <1>9

\* A step that starts no lair and adds no pair keeps the lairs of the startups
\* in progress, if it reaps none of them.
LEMMA LairsStay ==
    ASSUME OrphanInv, LairsInv, NEW c \in Clients, HandlerStep(c),
           AnyHeld' \subseteq AnyHeld,
           \A p \in Pids : kind[p] # None => kind'[p] = kind[p],
           \A p \in Pids : Unreaped(p) /\ kind[p] = "lair"
                             /\ (\A pair \in AnyHeld : pair.lair # p) => Unreaped(p)',
           pc'[c] \in LairLabels => pc[c] \in LairLabels /\ frame'[c].lair = frame[c].lair
    PROVE  LairsInv'
  <1>1. \A d \in Clients : pc'[d] \in LairLabels =>
            pc[d] \in LairLabels /\ frame'[d].lair = frame[d].lair
    BY Others DEF OrphanInv
  <1>2. \A d \in Clients : pc[d] \in LairLabels => frame[d].lair \in Pids
    BY DEF OrphanInv, FramesInv, FrameOf, TypeOK, SessionsType, Frame
  <1>3. \A d \in Clients : pc'[d] \in LairLabels =>
            kind'[frame[d].lair] = "lair" /\ Unreaped(frame[d].lair)'
    BY <1>1, <1>2, NoneAssumption DEF LairsInv
  <1>4. QED
    BY <1>1, <1>3 DEF LairsInv, Unreaped

\* What a kill in progress waits for is held by nobody else.
LEMMA SoleHolder ==
    ASSUME OrphanInv, OnceInv, NEW c \in Clients, pc[c] \in KillLabels,
           NEW p \in Pids, Holds(frame[c].victim, p)
    PROVE  /\ \A i \in Ids : processes_lock[i] = None => ~Holds(processes[i], p)
           /\ \A d \in Clients : \A pair \in frame[d].taken : ~Holds(pair, p)
           /\ \A d \in Clients \ {c} :
                 pc[d] \in KillLabels => ~Holds(frame[d].victim, p)
  <1>1. \A d \in Clients :
          /\ pc[d] \in KillLabels /\ req[d].op = "reset" =>
                frame[d].victim \in Grip(d)
          /\ pc[d] \in KillLabels /\ req[d].op # "reset" =>
                /\ req[d].op = "shutdown" /\ Id(d) \in Ids
                /\ processes[Id(d)] = frame[d].victim /\ processes_lock[Id(d)] = d
          /\ frame[d].taken # {} => frame[d].taken \subseteq Grip(d)
    BY DEF OrphanInv, FramesInv, FrameOf, CellsInv, CellOf, GuardsInv, GuardsOf,
           HoldsLock, Grip
  <1>2. c # None
    BY NoneAssumption
  <1>3. CASE req[c].op = "reset"
    <2>1. frame[c].victim \in Grip(c)
      BY <1>1, <1>3
    <2>2. \A d \in Clients : \A pair \in Grip(d) :
              Holds(pair, p) => pair = frame[c].victim /\ d = c
      BY <2>1 DEF OnceInv
    <2>3. \A i \in Ids : ~Holds(processes[i], p)
      BY <2>1 DEF OnceInv
    <2>4. \A d \in Clients : \A pair \in frame[d].taken : ~Holds(pair, p)
      BY <1>1, <2>2 DEF OnceInv
    <2>5. \A d \in Clients \ {c} : pc[d] \in KillLabels => ~Holds(frame[d].victim, p)
      BY <1>1, <2>2, <2>3
    <2>6. QED
      BY <2>3, <2>4, <2>5
  <1>4. CASE req[c].op # "reset"
    <2>1. Holds(processes[Id(c)], p) /\ processes_lock[Id(c)] = c /\ Id(c) \in Ids
      BY <1>1, <1>4
    <2>2. \A i \in Ids : Holds(processes[i], p) => i = Id(c)
      BY <2>1 DEF OnceInv
    <2>3. \A d \in Clients : \A pair \in Grip(d) : ~Holds(pair, p)
      BY <2>1 DEF OnceInv
    <2>4. \A d \in Clients : \A pair \in frame[d].taken : ~Holds(pair, p)
      BY <1>1, <2>3
    <2>5. \A d \in Clients \ {c} : pc[d] \in KillLabels => ~Holds(frame[d].victim, p)
      BY <1>1, <2>1, <2>2, <2>3
    <2>6. QED
      BY <1>2, <2>1, <2>2, <2>4, <2>5
  <1>5. QED
    BY <1>3, <1>4

\* Reaping a process of the pair that c kills leaves all others unreaped.
LEMMA ReapStep ==
    ASSUME OrphanInv, PairsInv, OnceInv, SignalsOwnChildren,
           NEW c \in Clients, HandlerStep(c), pc[c] \in KillLabels,
           NEW p \in Pids, Holds(frame[c].victim, p),
           \A q \in Pids : q # p /\ Unreaped(q) => Unreaped(q)',
           \A i \in Ids : processes'[i] # None /\ processes_lock'[i] = None =>
               processes'[i] = processes[i] /\ processes_lock[i] = None,
           frame'[c].taken \subseteq frame[c].taken,
           \/ pc'[c] \notin KillLabels
           \/ /\ pc'[c] = "wait_lair" /\ frame'[c].victim = frame[c].victim
              /\ Unreaped(frame[c].victim.lair)'
    PROVE  SignalsOwnChildren'
  <1>1. /\ \A d \in Clients \ {c} : pc'[d] = pc[d] /\ frame'[d] = frame[d]
        /\ \A d \in Clients : frame'[d].taken \subseteq frame[d].taken
    BY Others DEF OrphanInv
  <1> DEFINE Left(q) == status'[q] \notin {"unborn", "reaped"}
  <1>2. ASSUME NEW pair \in AnyHeld, ~Holds(pair, p)
        PROVE  /\ Unreaped(pair.lair) => Left(pair.lair)
               /\ Unreaped(pair.holochain) => Left(pair.holochain)
    BY <1>2, HeldPids DEF Holds, Unreaped
  <1>3. ASSUME NEW i \in Ids, processes'[i] # None, processes_lock'[i] = None
        PROVE  Left(processes'[i].holochain) /\ Left(processes'[i].lair)
    <2>1. processes'[i] = processes[i] /\ processes_lock[i] = None
      BY <1>3
    <2>2. processes[i] \in AnyHeld /\ ~Holds(processes[i], p)
      BY <1>3, <2>1, HeldCases, SoleHolder
    <2>3. Unreaped(processes[i].holochain) /\ Unreaped(processes[i].lair)
      BY <1>3, <2>1 DEF SignalsOwnChildren
    <2>4. QED
      BY <1>2, <2>1, <2>2, <2>3
  <1>4. ASSUME NEW d \in Clients, NEW pair \in frame'[d].taken
        PROVE  Left(pair.holochain) /\ Left(pair.lair)
    <2>1. pair \in frame[d].taken /\ pair # None
      BY <1>1, <1>4, NoneAssumption DEF OrphanInv, TypeOK, SessionsType, Frame
    <2>2. pair \in AnyHeld /\ ~Holds(pair, p)
      BY <2>1, HeldCases, SoleHolder
    <2>3. QED
      BY <1>2, <2>1, <2>2 DEF SignalsOwnChildren
  <1>5. ASSUME NEW d \in Clients \ {c}, pc[d] \in KillLabels
        PROVE  /\ Unreaped(frame[d].victim.lair) => Left(frame[d].victim.lair)
               /\ Unreaped(frame[d].victim.holochain) => Left(frame[d].victim.holochain)
    <2>1. frame[d].victim \in AnyHeld /\ ~Holds(frame[d].victim, p)
      BY <1>5, HeldCases, SoleHolder DEF OrphanInv, FramesInv, FrameOf
    <2>2. QED
      BY <1>2, <2>1
  <1>6. ASSUME NEW d \in Clients
        PROVE  /\ pc'[d] = "wait_holochain" => Left(frame'[d].victim.holochain)
               /\ pc'[d] \in {"wait_holochain", "wait_lair"} => Left(frame'[d].victim.lair)
    <2>1. CASE d = c
      BY <2>1 DEF Unreaped
    <2>2. CASE d # c
      BY <1>1, <1>5, <2>2 DEF SignalsOwnChildren
    <2>3. QED
      BY <2>1, <2>2
  <1>7. QED
    BY <1>3, <1>4, <1>6 DEF SignalsOwnChildren, Unreaped

\* Holding less keeps what is held in order.
LEMMA HoldLess ==
    ASSUME OrphanInv, PairsInv, OnceInv, NEW c \in Clients, HandlerStep(c),
           UNCHANGED kind,
           \A i \in Ids : processes'[i] = processes[i] \/ processes'[i] = None,
           frame'[c].taken \subseteq frame[c].taken,
           frame'[c].victim \in {None, frame[c].victim}
    PROVE  AnyHeld' \subseteq AnyHeld /\ PairsInv' /\ OnceInv'
  <1>1. /\ UNCHANGED req
        /\ \A d \in Clients : /\ frame'[d].taken \subseteq frame[d].taken
                              /\ frame'[d].victim \in {None, frame[d].victim}
    BY Others DEF OrphanInv
  <1>2. AnyHeld' \subseteq AnyHeld
    <2>1. ASSUME NEW pair \in AnyHeld'
          PROVE  pair \in AnyHeld
      BY <1>1, <2>1, HeldCases, HeldCasesNext
    <2>2. QED
      BY <2>1
  <1>3. \A d \in Clients : Grip(d)' \subseteq Grip(d)
    BY <1>1 DEF Grip
  <1>4. PairsInv'
    BY <1>2 DEF PairsInv
  <1>5. \A i \in Ids, p \in Pids : Holds(processes'[i], p) => Holds(processes[i], p)
    BY DEF Holds
  <1>6. \A d \in Clients : frame'[d].victim \notin frame'[d].taken
    BY <1>1, NoneAssumption DEF OnceInv, OrphanInv, TypeOK, SessionsType, Frame
  <1>7. OnceInv'
    <2>1. \A p \in Pids : \A i, j \in Ids :
              Holds(processes'[i], p) /\ Holds(processes'[j], p) => i = j
      BY <1>5 DEF OnceInv
    <2>2. \A p \in Pids : \A d, e \in Clients : \A a \in Grip(d)', b \in Grip(e)' :
              Holds(a, p) /\ Holds(b, p) => a = b /\ d = e
      BY <1>3 DEF OnceInv
    <2>3. \A p \in Pids : \A d \in Clients : \A a \in Grip(d)' : Holds(a, p) =>
              \A i \in Ids : ~Holds(processes'[i], p)
      BY <1>3, <1>5 DEF OnceInv
    <2>4. QED
      BY <1>6, <2>1, <2>2, <2>3 DEF OnceInv, Holds
  <1>8. QED
    BY <1>2, <1>4, <1>7

\* kill_player reaps the conductor: it was this handler's to reap.
LEMMA WaitHolochainStep ==
    ASSUME OrphanInv, PairsInv, OnceInv, LairsInv, SignalsOwnChildren,
           NEW c \in Clients, WaitHolochain(c)
    PROVE  PairsInv' /\ OnceInv' /\ LairsInv' /\ SignalsOwnChildren'
  <1> DEFINE v == frame[c].victim
  <1>1. /\ HandlerStep(c) /\ pc[c] = "wait_holochain" /\ v # None
        /\ v \in AnyHeld /\ v.lair \in Pids /\ v.holochain \in Pids
        /\ kind[v.lair] = "lair" /\ kind[v.holochain] = "holochain"
        /\ SystemType
    BY HeldPids, HeldCases
       DEF HandlerStep, WaitHolochain, OrphanInv, FramesInv, FrameOf, PairsInv, TypeOK
  <1>2. pc'[c] = "wait_lair" /\ frame'[c] = frame[c]
    BY GotoLocals DEF WaitHolochain, OrphanInv
  <1>3. UNCHANGED <<kind, processes, processes_lock>>
    BY DEF WaitHolochain, registry, locks
  <1>4. \A q \in Pids : q # v.holochain /\ Unreaped(q) => Unreaped(q)'
    BY <1>1 DEF WaitHolochain, Signalled, SystemType, Unreaped
  <1>5. Unreaped(v.lair)'
    <2>1. v.lair # v.holochain
      BY <1>1
    <2>2. QED
      BY <1>1, <1>2, <1>4, <2>1 DEF SignalsOwnChildren, Unreaped
  <1>6. AnyHeld' \subseteq AnyHeld /\ PairsInv' /\ OnceInv'
    BY <1>1, <1>2, <1>3, HoldLess
  <1>7. SignalsOwnChildren'
    <2>1. Holds(v, v.holochain)
      BY <1>1 DEF Holds
    <2>2. QED
      BY <1>1, <1>2, <1>3, <1>4, <1>5, <2>1, ReapStep
  <1>8. LairsInv'
    BY <1>1, <1>2, <1>3, <1>4, <1>6, LairsStay
  <1>9. QED
    BY <1>6, <1>7, <1>8

\* And so was lair.
LEMMA WaitLairStep ==
    ASSUME OrphanInv, PairsInv, OnceInv, LairsInv, SignalsOwnChildren,
           NEW c \in Clients, WaitLair(c)
    PROVE  PairsInv' /\ OnceInv' /\ LairsInv' /\ SignalsOwnChildren'
  <1> DEFINE v == frame[c].victim
  <1>1. /\ HandlerStep(c) /\ pc[c] = "wait_lair" /\ v # None
        /\ v \in AnyHeld /\ v.lair \in Pids /\ v.holochain \in Pids
        /\ kind[v.lair] = "lair" /\ kind[v.holochain] = "holochain"
        /\ SystemType /\ RegistryType /\ LocksType /\ FrameOf(c) /\ frame[c] \in Frame
    BY HeldPids, HeldCases
       DEF HandlerStep, WaitLair, OrphanInv, FramesInv, FrameOf, PairsInv, TypeOK,
           SessionsType
  <1>2. /\ pc'[c] \in {"idle", "reset_kill"} /\ frame'[c].victim = None
        /\ frame'[c].taken \subseteq frame[c].taken
    <2>1. CASE Return(c, "ok")
      BY <2>1, ReturnLocals DEF OrphanInv, NoFrame
    <2>2. CASE Goto(c, "reset_kill", [frame[c] EXCEPT !.victim = None])
      BY <1>1, <2>2, GotoLocals DEF OrphanInv, Frame
    <2>3. QED
      BY <2>1, <2>2 DEF WaitLair
  <1>3. UNCHANGED kind
    BY DEF WaitLair
  <1>4. \A q \in Pids : q # v.lair /\ Unreaped(q) => Unreaped(q)'
    BY <1>1 DEF WaitLair, SystemType, Unreaped
  <1>5. /\ \A i \in Ids : processes'[i] = processes[i] \/ processes'[i] = None
        /\ \A i \in Ids : processes'[i] # None /\ processes_lock'[i] = None =>
               processes'[i] = processes[i] /\ processes_lock[i] = None
    <2>1. CASE UNCHANGED <<processes, locks>>
      BY <2>1 DEF locks
    <2>2. CASE req[c].op = "shutdown" /\ ClearCell(c) /\ DropGuards(c)
      BY <1>1, <2>2 DEF DropGuards, RegistryType, LocksType
    <2>3. QED
      BY <2>1, <2>2 DEF WaitLair
  <1>6. AnyHeld' \subseteq AnyHeld /\ PairsInv' /\ OnceInv'
    BY <1>1, <1>2, <1>3, <1>5, HoldLess
  <1>7. SignalsOwnChildren'
    <2>1. Holds(v, v.lair)
      BY <1>1 DEF Holds
    <2>2. QED
      BY <1>1, <1>2, <1>3, <1>4, <1>5, <2>1, ReapStep
  <1>8. LairsInv'
    BY <1>1, <1>2, <1>3, <1>4, <1>6, LairsStay
  <1>9. QED
    BY <1>6, <1>7, <1>8

\* A handler that turns to kill a pair whose processes are unreaped, of a cell
\* that it locks or of what it has taken, leaves the children as they are.
LEMMA ChildrenStay ==
    ASSUME OrphanInv, SignalsOwnChildren, NEW c \in Clients, HandlerStep(c),
           UNCHANGED processes, pc'[c] = "wait_holochain",
           \A q \in Pids : Unreaped(q) <=> Unreaped(q)',
           \A i \in Ids : processes[i] # None /\ processes_lock'[i] = None =>
               processes_lock[i] = None,
           frame'[c].taken \subseteq frame[c].taken,
           \/ frame'[c].victim \in frame[c].taken
           \/ \E i \in Ids : /\ frame'[c].victim = processes[i]
                             /\ processes[i] # None /\ processes_lock[i] = None
    PROVE  SignalsOwnChildren'
  <1> DEFINE Left(q) == status'[q] \notin {"unborn", "reaped"}
  <1>1. \A d \in Clients \ {c} : pc'[d] = pc[d] /\ frame'[d] = frame[d]
    BY Others DEF OrphanInv
  <1>2. \A pair \in AnyHeld : /\ Unreaped(pair.lair) => Left(pair.lair)
                              /\ Unreaped(pair.holochain) => Left(pair.holochain)
    BY HeldPids DEF Unreaped
  <1>3. ASSUME NEW i \in Ids, processes[i] # None, processes_lock[i] = None
        PROVE  Left(processes[i].holochain) /\ Left(processes[i].lair)
    BY <1>2, <1>3, HeldCases DEF SignalsOwnChildren
  <1>4. ASSUME NEW d \in Clients, NEW pair \in frame[d].taken
        PROVE  Left(pair.holochain) /\ Left(pair.lair)
    <2>1. pair \in AnyHeld
      BY <1>4, HeldCases, NoneAssumption DEF OrphanInv, TypeOK, SessionsType, Frame
    <2>2. QED
      BY <1>2, <1>4, <2>1 DEF SignalsOwnChildren
  <1>5. Left(frame'[c].victim.holochain) /\ Left(frame'[c].victim.lair)
    BY <1>3, <1>4
  <1>6. ASSUME NEW d \in Clients \ {c}, pc[d] \in KillLabels
        PROVE  /\ pc[d] = "wait_holochain" => Left(frame[d].victim.holochain)
               /\ Left(frame[d].victim.lair)
    <2>1. frame[d].victim \in AnyHeld
      BY <1>6, HeldCases DEF OrphanInv, FramesInv, FrameOf
    <2>2. QED
      BY <1>2, <1>6, <2>1 DEF SignalsOwnChildren
  <1> HIDE DEF Left
  <1>7. /\ \A i \in Ids : processes'[i] # None /\ processes_lock'[i] = None =>
              Left(processes'[i].holochain) /\ Left(processes'[i].lair)
        /\ \A d \in Clients :
              /\ \A pair \in frame'[d].taken : Left(pair.holochain) /\ Left(pair.lair)
              /\ pc'[d] = "wait_holochain" => Left(frame'[d].victim.holochain)
              /\ pc'[d] \in {"wait_holochain", "wait_lair"} => Left(frame'[d].victim.lair)
    <2>1. ASSUME NEW d \in Clients
          PROVE  /\ \A pair \in frame'[d].taken : Left(pair.holochain) /\ Left(pair.lair)
                 /\ pc'[d] = "wait_holochain" => Left(frame'[d].victim.holochain)
                 /\ pc'[d] \in {"wait_holochain", "wait_lair"} => Left(frame'[d].victim.lair)
      <3>1. CASE d = c
        BY <1>4, <1>5, <3>1
      <3>2. CASE d # c
        BY <1>1, <1>4, <1>6, <3>2
      <3>3. QED
        BY <3>1, <3>2
    <2>2. QED
      BY <1>3, <2>1
  <1>8. QED
    BY <1>7 DEF SignalsOwnChildren, Unreaped, Left

\* shutdown takes the pair of a cell whose processes are its children still.
LEMMA ShutdownLockStep ==
    ASSUME OrphanInv, PairsInv, OnceInv, LairsInv, SignalsOwnChildren,
           NEW c \in Clients, ShutdownLock(c), processes[Id(c)] # None
    PROVE  PairsInv' /\ OnceInv' /\ LairsInv' /\ SignalsOwnChildren'
  <1> DEFINE v == processes[Id(c)]
  <1>1. /\ HandlerStep(c) /\ pc[c] = "shutdown_lock" /\ Id(c) \in Ids
        /\ req[c].op = "shutdown" /\ processes_lock[Id(c)] = None
        /\ frame[c].victim = None /\ frame[c].taken = {}
        /\ SystemType /\ RegistryType /\ LocksType /\ frame[c] \in Frame
    BY DEF HandlerStep, Shutdown, ShutdownLock, OrphanInv, FramesInv, FrameOf, TypeOK,
           SessionsType
  <1>2. /\ pc'[c] = "wait_holochain" /\ frame'[c].victim = v /\ frame'[c].taken = {}
    <2>1. Goto(c, "wait_holochain", [frame[c] EXCEPT !.victim = processes[Id(c)]])
      BY DEF ShutdownLock
    <2>2. QED
      BY <1>1, <2>1, GotoLocals DEF OrphanInv, Frame
  <1>3. UNCHANGED <<kind, processes>> /\ v \in AnyHeld /\ v.holochain \in Pids
    BY <1>1, HeldCases, HeldPids DEF ShutdownLock, registry
  <1>4. /\ \A i \in Ids \ {Id(c)} : processes_lock'[i] = processes_lock[i]
        /\ processes_lock'[Id(c)] # None
    BY <1>1, NoneAssumption DEF ShutdownLock, LockProcesses, LocksType
  <1>5. \A q \in Pids : Unreaped(q) <=> Unreaped(q)'
    BY <1>1, <1>3 DEF ShutdownLock, Signalled, SystemType, Unreaped
  <1>6. /\ UNCHANGED req
        /\ \A d \in Clients \ {c} : pc'[d] = pc[d] /\ frame'[d] = frame[d]
    BY <1>1, Others DEF OrphanInv
  <1>7. AnyHeld' = AnyHeld
    <2>1. ASSUME NEW pair PROVE pair \in AnyHeld' <=> pair \in AnyHeld
      BY <1>1, <1>2, <1>3, <1>6, HeldCases, HeldCasesNext
    <2>2. QED
      BY <2>1
  <1>8. PairsInv'
    BY <1>3, <1>7 DEF PairsInv
  <1>9. \A d \in Clients : Grip(d)' = Grip(d)
    BY <1>1, <1>6 DEF Grip
  <1>10. OnceInv'
    BY <1>2, <1>3, <1>6, <1>9 DEF OnceInv, Holds
  <1>11. LairsInv'
    BY <1>1, <1>2, <1>3, <1>5, <1>7, LairsStay
  <1>12. SignalsOwnChildren'
    BY <1>1, <1>2, <1>3, <1>4, <1>5, <1>6, ChildrenStay
  <1>13. QED
    BY <1>8, <1>10, <1>11, <1>12

\* The loop of reset takes the next of its pairs.
LEMMA ResetKillStep ==
    ASSUME OrphanInv, PairsInv, OnceInv, LairsInv, SignalsOwnChildren,
           NEW c \in Clients, ResetKill(c), NEW pair \in frame[c].taken,
           status' = Signalled(pair.holochain),
           Goto(c, "wait_holochain",
                [frame[c] EXCEPT !.victim = pair, !.taken = Remaining(c, pair)])
    PROVE  PairsInv' /\ OnceInv' /\ LairsInv' /\ SignalsOwnChildren'
  <1>1. /\ HandlerStep(c) /\ pc[c] = "reset_kill" /\ req[c].op = "reset"
        /\ frame[c].victim = None /\ pair # None
        /\ SystemType /\ frame[c] \in Frame
    <2>1. HandlerStep(c) /\ pc[c] = "reset_kill"
      BY DEF HandlerStep, ResetKill
    <2>2. FrameOf(c) /\ SystemType /\ frame[c] \in Frame
      BY DEF OrphanInv, FramesInv, TypeOK, SessionsType
    <2>3. pair # None
      BY <2>2, NoneAssumption DEF Frame
    <2>4. QED
      BY <2>1, <2>2, <2>3 DEF FrameOf
  <1>2. /\ pc'[c] = "wait_holochain" /\ frame'[c].victim = pair
        /\ frame'[c].taken = frame[c].taken \ {pair}
    <2>1. frame'[c] = [frame[c] EXCEPT !.victim = pair, !.taken = frame[c].taken \ {pair}]
          /\ pc'[c] = "wait_holochain"
      BY GotoLocals DEF OrphanInv
    <2>2. QED
      BY <1>1, <2>1 DEF Frame
  <1>3. UNCHANGED <<kind, processes, processes_lock>> /\ pair \in AnyHeld /\ pair.holochain \in Pids
    BY <1>1, HeldCases, HeldPids DEF ResetKill, registry, locks
  <1>4. \A q \in Pids : Unreaped(q) <=> Unreaped(q)'
    BY <1>1, <1>3 DEF Signalled, SystemType, Unreaped
  <1>5. /\ UNCHANGED req
        /\ \A d \in Clients \ {c} : pc'[d] = pc[d] /\ frame'[d] = frame[d]
    BY <1>1, Others DEF OrphanInv
  <1>6. AnyHeld' = AnyHeld
    <2>1. ASSUME NEW a PROVE a \in AnyHeld' <=> a \in AnyHeld
      BY <1>1, <1>2, <1>3, <1>5, HeldCases, HeldCasesNext
    <2>2. QED
      BY <2>1
  <1>7. PairsInv'
    BY <1>3, <1>6 DEF PairsInv
  <1>8. \A d \in Clients : Grip(d)' = Grip(d)
    <2>1. Grip(c)' = Grip(c)
      BY <1>1, <1>2, <1>5 DEF Grip
    <2>2. \A d \in Clients \ {c} : Grip(d)' = Grip(d)
      BY <1>5 DEF Grip
    <2>3. QED
      BY <2>1, <2>2
  <1>9. OnceInv'
    BY <1>2, <1>3, <1>5, <1>8 DEF OnceInv, Holds
  <1>10. LairsInv'
    BY <1>1, <1>2, <1>3, <1>4, <1>6, LairsStay
  <1>11. SignalsOwnChildren'
    BY <1>1, <1>2, <1>3, <1>4, <1>5, ChildrenStay
  <1>12. QED
    BY <1>7, <1>9, <1>10, <1>11

\* A reset takes the pairs of all cells, none of which is being killed.
LEMMA ResetTakeStep ==
    ASSUME OrphanInv, LocksInv, PairsInv, OnceInv, LairsInv, SignalsOwnChildren,
           NEW c \in Clients, ResetTake(c), processes' = [i \in Ids |-> None],
           Goto(c, "reset_kill", [frame[c] EXCEPT !.taken = TakenPairs])
    PROVE  PairsInv' /\ OnceInv' /\ LairsInv' /\ SignalsOwnChildren'
  <1>1. /\ HandlerStep(c) /\ pc[c] = "reset_take" /\ req[c].op = "reset"
        /\ frame[c].victim = None /\ frame[c].taken = {} /\ readers = {}
        /\ SystemType /\ frame[c] \in Frame /\ players \subseteq Ids
    BY DEF HandlerStep, ResetTake, OrphanInv, FramesInv, FrameOf, TypeOK,
           SessionsType,
           RegistryType
  <1>2. /\ pc'[c] = "reset_kill" /\ frame'[c].victim = None
        /\ frame'[c].taken = TakenPairs
    BY <1>1, GotoLocals DEF OrphanInv, Frame
  <1>3. UNCHANGED <<kind, status, processes_lock>> /\ \A i \in Ids : processes'[i] = None
    BY DEF ResetTake, locks
  <1>4. /\ UNCHANGED req
        /\ \A d \in Clients \ {c} : pc'[d] = pc[d] /\ frame'[d] = frame[d]
    BY <1>1, Others DEF OrphanInv
  <1>5. \A a \in TakenPairs : a # None /\ \E i \in Ids : a = processes[i]
    BY <1>1
  <1>6. AnyHeld' \subseteq AnyHeld
    <2>1. ASSUME NEW a \in AnyHeld' PROVE a \in AnyHeld
      BY <1>1, <1>2, <1>3, <1>4, <1>5, <2>1, HeldCases, HeldCasesNext
    <2>2. QED
      BY <2>1
  <1>7. PairsInv'
    BY <1>3, <1>6 DEF PairsInv
  <1>8. /\ Grip(c)' = TakenPairs
        /\ \A d \in Clients \ {c} : Grip(d)' = Grip(d)
    BY <1>1, <1>2, <1>4 DEF Grip
  <1>9. ASSUME NEW p \in Pids, NEW a \in TakenPairs, NEW b \in TakenPairs,
               Holds(a, p), Holds(b, p)
        PROVE  a = b
    BY <1>5, <1>9 DEF OnceInv
  <1>10. ASSUME NEW p \in Pids, NEW a \in TakenPairs, Holds(a, p),
                NEW d \in Clients, NEW b \in Grip(d)
         PROVE  ~Holds(b, p)
    BY <1>5, <1>10 DEF OnceInv
  <1>11. OnceInv'
    <2>1. \A p \in Pids : \A i \in Ids : ~Holds(processes'[i], p)
      BY <1>3 DEF Holds
    <2>2. ASSUME NEW p \in Pids, NEW d \in Clients, NEW e \in Clients,
                 NEW a \in Grip(d)', NEW b \in Grip(e)', Holds(a, p), Holds(b, p)
          PROVE  a = b /\ d = e
      <3>1. CASE d = c /\ e = c
        BY <1>8, <1>9, <2>2, <3>1
      <3>2. CASE d = c /\ e # c
        BY <1>8, <1>10, <2>2, <3>2
      <3>3. CASE d # c /\ e = c
        BY <1>8, <1>10, <2>2, <3>3
      <3>4. CASE d # c /\ e # c
        BY <1>8, <2>2, <3>4 DEF OnceInv
      <3>5. QED
        BY <3>1, <3>2, <3>3, <3>4
    <2>3. \A d \in Clients : frame'[d].victim \notin frame'[d].taken
      BY <1>2, <1>4, <1>5 DEF OnceInv
    <2>4. QED
      BY <2>1, <2>2, <2>3 DEF OnceInv, Holds
  <1>12. LairsInv'
    BY <1>1, <1>2, <1>3, <1>6, LairsStay DEF Unreaped
  <1>13. SignalsOwnChildren'
    <2>1. \A i \in Ids : processes_lock[i] = None
      BY <1>1
         DEF LocksInv, OrphanInv, GuardsInv, GuardsOf, HoldsRead, TypeOK, LocksType
    <2>2. \A a \in TakenPairs : Unreaped(a.holochain) /\ Unreaped(a.lair)
      BY <1>5, <2>1 DEF SignalsOwnChildren
    <2>3. QED
      BY <1>2, <1>3, <1>4, <2>2 DEF SignalsOwnChildren, Unreaped
  <1>14. QED
    BY <1>7, <1>11, <1>12, <1>13

\* startup stores its lair with the conductor it spawned.
LEMMA StoreStep ==
    ASSUME OrphanInv, PairsInv, OnceInv, LairsInv, SignalsOwnChildren,
           NEW c \in Clients, SpawnHolochain(c), ~AbortStartup(c)
    PROVE  PairsInv' /\ OnceInv' /\ LairsInv' /\ SignalsOwnChildren'
  <1> DEFINE lair == frame[c].lair
             new  == [lair |-> lair, holochain |-> next_pid]
  <1>1. /\ HandlerStep(c) /\ pc[c] = "spawn_holochain" /\ Id(c) \in Ids
        /\ frame[c] \in Frame /\ lair \in Pids /\ next_pid \in Pids
        /\ processes[Id(c)] = None /\ Spawn(c, "holochain")
        /\ SystemType /\ RegistryType /\ LocksType
    <2>1. HandlerStep(c) /\ pc[c] = "spawn_holochain" /\ Spawn(c, "holochain")
      BY DEF HandlerStep, Startup, SpawnHolochain
    <2>2. FrameOf(c) /\ CellOf(c) /\ SystemType /\ RegistryType /\ LocksType /\ frame[c] \in Frame
      BY DEF OrphanInv, FramesInv, CellsInv, TypeOK, SessionsType
    <2>3. Id(c) \in Ids /\ lair \in Pids /\ processes[Id(c)] = None
      BY <2>1, <2>2 DEF FrameOf, CellOf, Frame
    <2>4. next_pid \in Pids
      BY <2>1, <2>2, CountsAssumption DEF Spawn, SystemType
    <2>5. QED
      BY <2>1, <2>2, <2>3, <2>4
  <1>2. /\ pc'[c] = "spawn_tee" /\ frame'[c].victim = frame[c].victim
        /\ frame'[c].taken = frame[c].taken
    <2>1. Goto(c, "spawn_tee", [frame[c] EXCEPT !.lair = None, !.child = next_pid])
      BY DEF SpawnHolochain
    <2>2. /\ frame'[c] = [frame[c] EXCEPT !.lair = None, !.child = next_pid]
          /\ pc'[c] = "spawn_tee"
      BY <2>1, GotoLocals DEF OrphanInv
    <2>3. QED
      BY <1>1, <2>2 DEF Frame
  <1>3. /\ processes'[Id(c)] = new /\ new # None
        /\ \A i \in Ids \ {Id(c)} : /\ processes'[i] = processes[i]
                                    /\ processes_lock'[i] = processes_lock[i]
    <2>1. new \in PlayerProcesses
      BY <1>1 DEF PlayerProcesses
    <2>2. new # None
      BY <2>1, NoneAssumption
    <2>3. QED
      BY <1>1, <2>2 DEF SpawnHolochain, RegistryType, LocksType, DropGuards
  <1> DEFINE Left(q) == status'[q] \notin {"unborn", "reaped"}
  <1>4. /\ kind'[next_pid] = "holochain" /\ Left(next_pid)
        /\ \A q \in Pids : q # next_pid => kind'[q] = kind[q] /\ (Left(q) <=> Unreaped(q))
        /\ kind[next_pid] = None
    BY <1>1 DEF Spawn, SystemType, Unreaped, OrphanInv, SpawnedInv
  <1>5. /\ kind[lair] = "lair" /\ Unreaped(lair) /\ lair # next_pid
        /\ \A pair \in AnyHeld : pair.lair # lair
    BY <1>1, <1>4, NoneAssumption DEF LairsInv
  <1>6. \A pair \in AnyHeld :
            /\ pair # None /\ pair.lair \in Pids \ {lair, next_pid}
            /\ pair.holochain \in Pids \ {lair, next_pid}
            /\ kind[pair.lair] = "lair" /\ kind[pair.holochain] = "holochain"
    BY <1>4, <1>5, HeldPids, NoneAssumption DEF PairsInv
  <1>7. /\ UNCHANGED req
        /\ \A d \in Clients : /\ frame'[d].victim = frame[d].victim
                              /\ frame'[d].taken = frame[d].taken
        /\ \A d \in Clients \ {c} : pc'[d] = pc[d] /\ frame'[d] = frame[d]
    BY <1>1, <1>2, Others DEF OrphanInv
  <1> HIDE DEF new
  <1>8. \A pair \in AnyHeld' : pair = new \/ pair \in AnyHeld
    BY <1>3, <1>7, HeldCases, HeldCasesNext
  <1>9. PairsInv'
    <2>1. kind'[new.lair] = "lair" /\ kind'[new.holochain] = "holochain"
      BY <1>1, <1>4, <1>5 DEF new
    <2>2. \A pair \in AnyHeld : kind'[pair.lair] = "lair" /\ kind'[pair.holochain] = "holochain"
      BY <1>4, <1>6
    <2>3. QED
      BY <1>8, <2>1, <2>2 DEF PairsInv
  <1>10. \A p \in Pids : Holds(new, p) => p \in {lair, next_pid}
    BY DEF Holds, new
  <1>11. \A pair \in AnyHeld, p \in {lair, next_pid} : ~Holds(pair, p)
    BY <1>6 DEF Holds
  <1>12. \A d \in Clients : Grip(d)' = Grip(d) /\ (\A pair \in Grip(d) : pair \in AnyHeld)
    <2>1. \A d \in Clients : Grip(d)' = Grip(d)
      BY <1>7 DEF Grip
    <2>2. ASSUME NEW d \in Clients, NEW pair \in Grip(d) PROVE pair \in AnyHeld
      BY <2>2, HeldCases, NoneAssumption
         DEF Grip, OrphanInv, TypeOK, SessionsType, Frame
    <2>3. QED
      BY <2>1, <2>2
  <1>13. \A i \in Ids : processes[i] = None \/ processes[i] \in AnyHeld
    BY HeldCases
  <1>14. OnceInv'
    <2>1. ASSUME NEW p \in Pids, NEW i \in Ids, NEW j \in Ids, Holds(processes'[i], p),
                 Holds(processes'[j], p)
          PROVE  i = j
      <3>1. ASSUME NEW k \in Ids, k # Id(c), Holds(processes'[k], p)
            PROVE  ~Holds(new, p)
        BY <1>3, <1>10, <1>11, <1>13, <3>1 DEF Holds
      <3>2. QED
        BY <1>3, <2>1, <3>1 DEF OnceInv
    <2>2. ASSUME NEW p \in Pids, NEW d \in Clients, NEW a \in Grip(d), Holds(a, p),
                 NEW i \in Ids
          PROVE  ~Holds(processes'[i], p)
      <3>1. CASE i = Id(c)
        BY <1>3, <1>10, <1>11, <1>12, <2>2, <3>1
      <3>2. CASE i # Id(c)
        BY <1>3, <2>2, <3>2 DEF OnceInv
      <3>3. QED
        BY <3>1, <3>2
    <2>3. QED
      BY <1>7, <1>12, <2>1, <2>2 DEF OnceInv, Holds
  <1>15. LairsInv'
    <2>1. \A d \in Clients : pc'[d] \in LairLabels =>
              /\ d # c /\ pc[d] \in LairLabels /\ frame'[d].lair = frame[d].lair
              /\ frame[d].lair \in Pids \ {lair, next_pid}
      BY <1>1, <1>2, <1>4, <1>7, NoneAssumption
         DEF LairsInv, OrphanInv, FramesInv, FrameOf, TypeOK, SessionsType, Frame
    <2>2. new.lair = lair
      BY DEF new
    <2>3. QED
      BY <1>4, <1>8, <2>1, <2>2 DEF LairsInv, Unreaped
  <1>16. SignalsOwnChildren'
    <2>1. \A pair \in AnyHeld : /\ Unreaped(pair.lair) => Left(pair.lair)
                                /\ Unreaped(pair.holochain) => Left(pair.holochain)
      BY <1>4, <1>6
    <2>2. ASSUME NEW i \in Ids, processes'[i] # None, processes_lock'[i] = None
          PROVE  Left(processes'[i].holochain) /\ Left(processes'[i].lair)
      <3>1. CASE i = Id(c)
        BY <1>1, <1>3, <1>4, <1>5, <3>1 DEF new
      <3>2. CASE i # Id(c)
        BY <1>3, <1>13, <2>1, <2>2, <3>2 DEF SignalsOwnChildren
      <3>3. QED
        BY <3>1, <3>2
    <2>3. ASSUME NEW d \in Clients, NEW pair \in frame[d].taken
          PROVE  Left(pair.holochain) /\ Left(pair.lair)
      <3>1. pair \in AnyHeld
        BY <2>3, HeldCases, NoneAssumption DEF OrphanInv, TypeOK, SessionsType, Frame
      <3>2. QED
        BY <2>1, <2>3, <3>1 DEF SignalsOwnChildren
    <2>4. ASSUME NEW d \in Clients, pc'[d] \in KillLabels
          PROVE  /\ pc'[d] = "wait_holochain" => Left(frame[d].victim.holochain)
                 /\ Left(frame[d].victim.lair)
      <3>1. pc[d] = pc'[d] /\ frame[d].victim \in AnyHeld
        BY <1>2, <1>7, <2>4, HeldCases DEF OrphanInv, FramesInv, FrameOf
      <3>2. QED
        BY <2>1, <2>4, <3>1 DEF SignalsOwnChildren
    <2>5. QED
      BY <1>7, <2>2, <2>3, <2>4 DEF SignalsOwnChildren, Unreaped
  <1>17. QED
    BY <1>9, <1>14, <1>15, <1>16

\* startup spawns a lair that nobody holds.
LEMMA SpawnLairStep ==
    ASSUME OrphanInv, PairsInv, OnceInv, LairsInv, SignalsOwnChildren,
           NEW c \in Clients, SpawnLair(c), ~AbortStartup(c)
    PROVE  PairsInv' /\ OnceInv' /\ LairsInv' /\ SignalsOwnChildren'
  <1>1. /\ HandlerStep(c) /\ pc[c] = "spawn_lair" /\ Spawn(c, "lair")
        /\ UNCHANGED <<processes, processes_lock>>
    BY DEF HandlerStep, Startup, SpawnLair, registry, locks
  <1>2. SystemType /\ frame[c] \in Frame /\ next_pid \in Pids /\ SpawnedInv
    BY <1>1, CountsAssumption DEF OrphanInv, TypeOK, SessionsType, SystemType, Spawn
  <1>3. /\ pc'[c] = "lair_ready" /\ frame'[c].lair = next_pid
        /\ frame'[c].victim = frame[c].victim /\ frame'[c].taken = frame[c].taken
    <2>1. Goto(c, "lair_ready", [frame[c] EXCEPT !.lair = next_pid])
      BY DEF SpawnLair
    <2>2. frame'[c] = [frame[c] EXCEPT !.lair = next_pid] /\ pc'[c] = "lair_ready"
      BY <2>1, GotoLocals DEF OrphanInv
    <2>3. QED
      BY <1>2, <2>2 DEF Frame
  <1>4. /\ kind[next_pid] = None /\ kind'[next_pid] = "lair"
        /\ status'[next_pid] \notin {"unborn", "reaped"}
        /\ \A p \in Pids \ {next_pid} : kind'[p] = kind[p] /\ (Unreaped(p)' <=> Unreaped(p))
        /\ ~Unreaped(next_pid)
    BY <1>1, <1>2 DEF Spawn, SystemType, SpawnedInv, Unreaped
  <1>5. AnyHeld' = AnyHeld /\ PairsInv' /\ OnceInv' /\ SignalsOwnChildren'
    BY <1>1, <1>3, <1>4, HoldingsStay
  <1>6. /\ \A pair \in AnyHeld : pair.lair # next_pid
        /\ \A d \in Clients : pc[d] \in LairLabels =>
              frame[d].lair \in Pids \ {next_pid}
    BY <1>4, NoneAssumption
       DEF PairsInv, LairsInv, OrphanInv, FramesInv, FrameOf, TypeOK, SessionsType, Frame
  <1>7. \A d \in Clients \ {c} : pc'[d] = pc[d] /\ frame'[d] = frame[d]
    BY <1>1, Others DEF OrphanInv
  <1>8. ASSUME NEW d \in Clients, pc'[d] \in LairLabels
        PROVE  /\ kind'[frame'[d].lair] = "lair"
               /\ status'[frame'[d].lair] \notin {"unborn", "reaped"}
               /\ \A pair \in AnyHeld : pair.lair # frame'[d].lair
               /\ \A e \in Clients :
                     pc'[e] \in LairLabels /\ frame'[e].lair = frame'[d].lair => d = e
    <2>1. CASE d = c
      BY <1>3, <1>4, <1>6, <1>7, <2>1 DEF Unreaped
    <2>2. CASE d # c
      <3>1. pc[d] \in LairLabels /\ frame'[d] = frame[d] /\ frame[d].lair \in Pids \ {next_pid}
        BY <1>6, <1>7, <1>8, <2>2
      <3>2. /\ kind[frame[d].lair] = "lair" /\ Unreaped(frame[d].lair)
            /\ \A pair \in AnyHeld : pair.lair # frame[d].lair
        BY <3>1 DEF LairsInv
      <3>3. \A e \in Clients : pc'[e] \in LairLabels /\ frame'[e].lair = frame[d].lair => d = e
        BY <1>3, <1>7, <2>2, <3>1 DEF LairsInv
      <3>4. QED
        BY <1>4, <3>1, <3>2, <3>3 DEF Unreaped
    <2>3. QED
      BY <2>1, <2>2
  <1>9. LairsInv'
    BY <1>5, <1>8 DEF LairsInv, Unreaped
  <1>10. QED
    BY <1>5, <1>9

\* The other steps of handlers move no pair and reap nobody.
LEMMA ChildrenQuiet ==
    ASSUME OrphanInv, PairsInv, OnceInv, LairsInv, SignalsOwnChildren,
           NEW c \in Clients, HandlerStep(c),
           UNCHANGED processes,
           frame'[c].victim = frame[c].victim, frame'[c].taken = frame[c].taken,
           \A p \in Pids : /\ Unreaped(p) => Unreaped(p)'
                           /\ kind[p] # None => kind'[p] = kind[p],
           \A i \in Ids : processes[i] # None /\ processes_lock'[i] = None =>
                              processes_lock[i] = None,
           pc'[c] \in KillLabels => pc'[c] = pc[c],
           pc'[c] \in LairLabels => pc[c] \in LairLabels /\ frame'[c].lair = frame[c].lair
    PROVE  PairsInv' /\ OnceInv' /\ LairsInv' /\ SignalsOwnChildren'
  BY HoldingsStay, LairsStay

\* Every step of a handler keeps the order in what is held.
LEMMA ChildrenStep ==
    ASSUME OrphanInv, LocksInv, PairsInv, OnceInv, LairsInv, SignalsOwnChildren,
           NEW c \in Clients, HandlerStep(c)
    PROVE  PairsInv' /\ OnceInv' /\ LairsInv' /\ SignalsOwnChildren'
  <1>1. /\ FrameOf(c) /\ CellOf(c) /\ frame[c] \in Frame /\ LocksType /\ SystemType
        /\ SpawnedInv
    BY DEF OrphanInv, FramesInv, CellsInv, TypeOK, SessionsType
  <1>2. ASSUME NEW r, Return(c, r), pc[c] \notin KillLabels, frame[c].taken = {}
        PROVE  /\ pc'[c] = "idle" /\ frame'[c].victim = frame[c].victim
               /\ frame'[c].taken = frame[c].taken
    BY <1>1, <1>2, ReturnLocals DEF OrphanInv, NoFrame, FrameOf
  <1>3. ASSUME NEW label \in Labels \ KillLabels, Goto(c, label, frame[c]),
               label \in LairLabels => pc[c] \in LairLabels,
               UNCHANGED <<processes, kind, status, processes_lock>>
        PROVE  PairsInv' /\ OnceInv' /\ LairsInv' /\ SignalsOwnChildren'
    BY <1>3, GotoLocals, ChildrenQuiet DEF OrphanInv, Unreaped
  <1>4. ASSUME NEW r, Return(c, r), pc[c] \notin KillLabels, frame[c].taken = {},
               UNCHANGED <<processes, kind, status>>,
               \A i \in Ids : processes[i] # None /\ processes_lock'[i] = None =>
                                  processes_lock[i] = None
        PROVE  PairsInv' /\ OnceInv' /\ LairsInv' /\ SignalsOwnChildren'
    BY <1>2, <1>4, ChildrenQuiet DEF Unreaped
  <1>5. ASSUME AbortStartup(c), pc[c] \in StartupLocked
        PROVE  PairsInv' /\ OnceInv' /\ LairsInv' /\ SignalsOwnChildren'
    <2>1. \A i \in Ids : processes[i] # None /\ processes_lock'[i] = None =>
              processes_lock[i] = None
      BY <1>1, <1>5 DEF AbortStartup, DropGuards, CellOf, LocksType
    <2>2. QED
      BY <1>1, <1>4, <1>5, <2>1 DEF AbortStartup, FrameOf, registry, system
  <1> DEFINE Done == PairsInv' /\ OnceInv' /\ LairsInv' /\ SignalsOwnChildren'
  <1> HIDE DEF Done
  <1>6. SUFFICES Done
    BY DEF Done
  <1>7. CASE CreateDir(c)
    <2>1. ASSUME NEW label \in Labels \ (KillLabels \cup LairLabels), Goto(c, label, frame[c])
          PROVE  Done
      BY <1>7, <1>3, <2>1 DEF CreateDir, Done, registry, locks, system
    <2>2. ASSUME NEW r, Return(c, r)
          PROVE  Done
      BY <1>7, <1>1, <1>4, <2>2 DEF CreateDir, FrameOf, Done, registry, locks, system
    <2>3. QED
      BY <1>7, <2>1, <2>2 DEF CreateDir, Labels
  <1>8. CASE ConfigExists(c)
    <2>1. ASSUME NEW label \in Labels \ (KillLabels \cup LairLabels), Goto(c, label, frame[c])
          PROVE  Done
      BY <1>8, <1>3, <2>1 DEF ConfigExists, Done, registry, locks, system
    <2>2. ASSUME NEW r, Return(c, r)
          PROVE  Done
      BY <1>8, <1>1, <1>4, <2>2
         DEF ConfigExists, FrameOf, Done, registry, locks, system
    <2>3. QED
      BY <1>8, <2>1, <2>2 DEF ConfigExists, Labels
  <1>9. CASE LoadPort(c)
    <2>1. ASSUME NEW label \in Labels \ (KillLabels \cup LairLabels), Goto(c, label, frame[c])
          PROVE  Done
      BY <1>9, <1>3, <2>1 DEF LoadPort, Done, registry, locks, system
    <2>2. ASSUME NEW r, Return(c, r)
          PROVE  Done
      BY <1>9, <1>1, <1>4, <2>2 DEF LoadPort, FrameOf, Done, registry, locks, system
    <2>3. QED
      BY <1>9, <2>1, <2>2 DEF LoadPort, Labels
  <1>10. CASE FetchPort(c)
    <2>1. /\ pc'[c] = "insert" /\ frame'[c].victim = frame[c].victim
          /\ frame'[c].taken = frame[c].taken
      BY <1>10, <1>1, GotoLocals DEF FetchPort, OrphanInv, Frame
    <2>2. UNCHANGED <<processes, kind, status, processes_lock>>
      BY <1>10 DEF FetchPort, locks, system
    <2>3. QED
      BY <2>1, <2>2, ChildrenQuiet DEF Unreaped, Done
  <1>11. CASE InsertPlayer(c)
    <2>1. ASSUME NEW label \in Labels \ (KillLabels \cup LairLabels), Goto(c, label, frame[c])
          PROVE  Done
      BY <1>11, <1>3, <2>1 DEF InsertPlayer, Done, registry, locks, system
    <2>2. ASSUME NEW r, Return(c, r)
          PROVE  Done
      BY <1>11, <1>1, <1>4, <2>2
         DEF InsertPlayer, FrameOf, Done, registry, locks, system
    <2>3. QED
      BY <1>11, <2>1, <2>2 DEF InsertPlayer, Labels
  <1>12. CASE CreateConfig(c)
    <2>1. ASSUME NEW label \in Labels \ (KillLabels \cup LairLabels), Goto(c, label, frame[c])
          PROVE  Done
      BY <1>12, <1>3, <2>1 DEF CreateConfig, Done, registry, locks, system
    <2>2. ASSUME NEW r, Return(c, r)
          PROVE  Done
      BY <1>12, <1>1, <1>4, <2>2
         DEF CreateConfig, FrameOf, Done, registry, locks, system
    <2>3. QED
      BY <1>12, <2>1, <2>2 DEF CreateConfig, Labels
  <1>13. CASE WriteConfig(c)
    <2>1. ASSUME NEW label \in Labels \ (KillLabels \cup LairLabels), Goto(c, label, frame[c])
          PROVE  Done
      BY <1>13, <1>3, <2>1 DEF WriteConfig, Done, registry, locks, system
    <2>2. ASSUME NEW r, Return(c, r)
          PROVE  Done
      BY <1>13, <1>1, <1>4, <2>2
         DEF WriteConfig, FrameOf, Done, registry, locks, system
    <2>3. QED
      BY <1>13, <2>1, <2>2 DEF WriteConfig, Labels
  <1>14. CASE StartupGet(c)
    <2>1. ASSUME NEW label \in Labels \ (KillLabels \cup LairLabels), Goto(c, label, frame[c])
          PROVE  Done
      BY <1>14, <1>3, <2>1 DEF StartupGet, Done, registry, locks, system
    <2>2. ASSUME NEW r, Return(c, r)
          PROVE  Done
      BY <1>14, <1>1, <1>4, <2>2
         DEF StartupGet, FrameOf, Done, registry, locks, system
    <2>3. QED
      BY <1>14, <2>1, <2>2 DEF StartupGet, Labels
  <1>15. CASE StartupLock(c)
    <2>1. CASE DropGuards(c) /\ Return(c, "ok")
      BY <1>15, <1>1, <1>4, <2>1
         DEF StartupLock, DropGuards, LocksType, FrameOf, Done, registry, system
    <2>2. CASE LockProcesses(c) /\ Goto(c, "spawn_lair", frame[c])
      <3>1. /\ pc'[c] = "spawn_lair" /\ frame'[c] = frame[c]
        BY <2>2, GotoLocals DEF OrphanInv
      <3>2. UNCHANGED <<processes, kind, status>>
        BY <1>15 DEF StartupLock, registry, system
      <3>3. \A i \in Ids : processes_lock'[i] = None => processes_lock[i] = None
        BY <1>15, <1>1, <2>2 DEF LockProcesses, LocksType, StartupLock
      <3>4. QED
        BY <3>1, <3>2, <3>3, ChildrenQuiet DEF Unreaped, Done
    <2>3. QED
      BY <1>15, <2>1, <2>2 DEF StartupLock
  <1>16. CASE SpawnLair(c)
    <2>1. CASE AbortStartup(c)
      BY <1>16, <1>5, <2>1 DEF SpawnLair, Done
    <2>2. CASE ~AbortStartup(c)
      BY <1>16, <2>2, SpawnLairStep DEF Done
    <2>3. QED
      BY <2>1, <2>2
  <1>17. CASE LairReady(c)
    <2>1. CASE AbortStartup(c)
      BY <1>17, <1>5, <2>1 DEF LairReady, Done
    <2>2. ASSUME NEW label \in LairLabels, Goto(c, label, frame[c]),
                 UNCHANGED <<registry, locks, files, system>>
          PROVE  Done
      BY <1>17, <1>3, <2>2 DEF LairReady, Labels, Done, registry, locks, system
    <2>3. QED
      BY <1>17, <2>1, <2>2 DEF LairReady, ReadFirstByte
  <1>18. CASE SpawnShim(c)
    <2>1. CASE AbortStartup(c)
      BY <1>18, <1>5, <2>1 DEF SpawnShim, Done
    <2>2. CASE /\ Spawn(c, "shim") /\ Goto(c, "shim_ready", [frame[c] EXCEPT !.child = next_pid])
               /\ UNCHANGED <<registry, locks>> /\ pc[c] = "spawn_shim"
      <3>1. /\ pc'[c] = "shim_ready" /\ frame'[c].victim = frame[c].victim
            /\ frame'[c].taken = frame[c].taken /\ frame'[c].lair = frame[c].lair
        BY <2>2, <1>1, GotoLocals DEF OrphanInv, Frame
      <3>2. UNCHANGED <<processes, processes_lock>>
        BY <2>2 DEF registry, locks
      <3>3. \A p \in Pids : /\ Unreaped(p) => Unreaped(p)'
                            /\ kind[p] # None => kind'[p] = kind[p]
        BY <1>1, <2>2 DEF Spawn, SystemType, SpawnedInv, Unreaped
      <3>4. QED
        BY <2>2, <3>1, <3>2, <3>3, ChildrenQuiet DEF Done
    <2>3. QED
      BY <1>18, <2>1, <2>2 DEF SpawnShim
  <1>19. CASE ShimReady(c)
    <2>1. CASE AbortStartup(c)
      BY <1>19, <1>5, <2>1 DEF ShimReady, Done
    <2>2. ASSUME NEW label \in LairLabels, Goto(c, label, frame[c]),
                 UNCHANGED <<registry, locks, files, system>>
          PROVE  Done
      BY <1>19, <1>3, <2>2 DEF ShimReady, Labels, Done, registry, locks, system
    <2>3. QED
      BY <1>19, <2>1, <2>2 DEF ShimReady, ReadFirstByte
  <1>20. CASE SpawnHolochain(c)
    <2>1. CASE AbortStartup(c)
      BY <1>20, <1>5, <2>1 DEF SpawnHolochain, Done
    <2>2. CASE ~AbortStartup(c)
      BY <1>20, <2>2, StoreStep DEF Done
    <2>3. QED
      BY <2>1, <2>2
  <1>21. CASE SpawnTee(c)
    <2>1. ASSUME NEW label \in Labels \ (KillLabels \cup LairLabels), Goto(c, label, frame[c])
          PROVE  Done
      BY <1>21, <1>3, <2>1 DEF SpawnTee, Done, registry, locks, system
    <2>2. ASSUME NEW r, Return(c, r)
          PROVE  Done
      BY <1>21, <1>1, <1>4, <2>2 DEF SpawnTee, FrameOf, Done, registry, locks, system
    <2>3. QED
      BY <1>21, <2>1, <2>2 DEF SpawnTee, Labels
  <1>22. CASE HolochainReady(c)
    <2>1. ASSUME NEW label \in Labels \ (KillLabels \cup LairLabels), Goto(c, label, frame[c])
          PROVE  Done
      BY <1>22, <1>3, <2>1 DEF HolochainReady, Done, registry, locks, system
    <2>2. ASSUME NEW r, Return(c, r)
          PROVE  Done
      BY <1>22, <1>1, <1>4, <2>2
         DEF HolochainReady, FrameOf, Done, registry, locks, system
    <2>3. QED
      BY <1>22, <2>1, <2>2 DEF HolochainReady, Labels
  <1>23. CASE ShutdownCheck(c)
    <2>1. ASSUME NEW label \in Labels \ (KillLabels \cup LairLabels), Goto(c, label, frame[c])
          PROVE  Done
      BY <1>23, <1>3, <2>1 DEF ShutdownCheck, Done, registry, locks, system
    <2>2. ASSUME NEW r, Return(c, r)
          PROVE  Done
      BY <1>23, <1>1, <1>4, <2>2
         DEF ShutdownCheck, FrameOf, Done, registry, locks, system
    <2>3. QED
      BY <1>23, <2>1, <2>2 DEF ShutdownCheck, Labels
  <1>24. CASE ShutdownGet(c)
    <2>1. ASSUME NEW label \in Labels \ (KillLabels \cup LairLabels), Goto(c, label, frame[c])
          PROVE  Done
      BY <1>24, <1>3, <2>1 DEF ShutdownGet, Done, registry, locks, system
    <2>2. ASSUME NEW r, Return(c, r)
          PROVE  Done
      BY <1>24, <1>1, <1>4, <2>2
         DEF ShutdownGet, FrameOf, Done, registry, locks, system
    <2>3. QED
      BY <1>24, <2>1, <2>2 DEF ShutdownGet, Labels
  <1>25. CASE ShutdownLock(c)
    <2>1. CASE processes[Id(c)] = None
      <3>1. DropGuards(c) /\ Return(c, "ok") /\ UNCHANGED status
        BY <1>25, <2>1 DEF ShutdownLock
      <3>2. QED
        BY <1>25, <1>1, <1>4, <3>1
           DEF ShutdownLock, DropGuards, LocksType, FrameOf, Done, registry
    <2>2. CASE processes[Id(c)] # None
      BY <1>25, <2>2, ShutdownLockStep DEF Done
    <2>3. QED
      BY <2>1, <2>2
  <1>26. CASE WaitHolochain(c)
    BY <1>26, WaitHolochainStep DEF Done
  <1>27. CASE WaitLair(c)
    BY <1>27, WaitLairStep DEF Done
  <1>28. CASE ResetTake(c)
    <2>1. CASE Return(c, "error") /\ UNCHANGED processes
      BY <1>28, <1>1, <1>4, <2>1 DEF ResetTake, FrameOf, Done, locks
    <2>2. CASE /\ processes' = [i \in Ids |-> None]
               /\ Goto(c, "reset_kill", [frame[c] EXCEPT !.taken = TakenPairs])
      BY <1>28, <2>2, ResetTakeStep DEF Done
    <2>3. QED
      BY <1>28, <2>1, <2>2 DEF ResetTake
  <1>29. CASE ResetKill(c)
    <2>1. CASE frame[c].taken = {} /\ Return(c, "ok") /\ UNCHANGED status
      BY <1>29, <1>1, <1>4, <2>1 DEF ResetKill, Done, registry, locks
    <2>2. ASSUME NEW pair \in frame[c].taken, status' = Signalled(pair.holochain),
                 Goto(c, "wait_holochain",
                      [frame[c] EXCEPT !.victim = pair, !.taken = Remaining(c, pair)])
          PROVE  Done
      BY <1>29, <2>2, ResetKillStep DEF Done
    <2>3. QED
      BY <1>29, <2>1, <2>2 DEF ResetKill
  <1>30. CASE AdminGet(c)
    <2>1. CASE Return(c, "error")
      BY <1>30, <1>1, <1>4, <2>1 DEF AdminGet, FrameOf, Done, registry, locks, system
    <2>2. CASE Goto(c, "admin_call", [frame[c] EXCEPT !.port = admin_port[Id(c)]])
      <3>1. /\ pc'[c] = "admin_call" /\ frame'[c].victim = frame[c].victim
            /\ frame'[c].taken = frame[c].taken
        BY <2>2, <1>1, GotoLocals DEF OrphanInv, Frame
      <3>2. UNCHANGED <<processes, kind, status, processes_lock>>
        BY <1>30 DEF AdminGet, registry, locks, system
      <3>3. QED
        BY <3>1, <3>2, ChildrenQuiet DEF Unreaped, Done
    <2>3. QED
      BY <1>30, <2>1, <2>2 DEF AdminGet
  <1>31. CASE AdminCall(c)
    <2>1. ASSUME NEW label \in Labels \ (KillLabels \cup LairLabels), Goto(c, label, frame[c])
          PROVE  Done
      BY <1>31, <1>3, <2>1 DEF AdminCall, Done, registry, locks, system
    <2>2. ASSUME NEW r, Return(c, r)
          PROVE  Done
      BY <1>31, <1>1, <1>4, <2>2 DEF AdminCall, FrameOf, Done, registry, locks, system
    <2>3. QED
      BY <1>31, <2>1, <2>2 DEF AdminCall, Labels
  <1>32. QED
    BY <1>7, <1>8, <1>9, <1>10, <1>11, <1>12, <1>13, <1>14, <1>15, <1>16, <1>17,
       <1>18, <1>19, <1>20, <1>21, <1>22, <1>23, <1>24, <1>25, <1>26, <1>27, <1>28,
       <1>29, <1>30, <1>31
       DEF HandlerStep, ConfigurePlayer, Startup, Shutdown

\* The steps of the sessions and of the processes themselves disturb nothing.
LEMMA ChildrenOthers ==
    ASSUME OrphanInv, LocksInv, PairsInv, OnceInv, LairsInv, SignalsOwnChildren,
           \/ \E c \in Clients, op \in Ops, id \in Ids \cup {None} : Receive(c, op, id)
           \/ \E p \in Pids : ProcessReady(p) \/ ProcessExits(p)
           \/ UNCHANGED vars
    PROVE  LocksInv' /\ PairsInv' /\ OnceInv' /\ LairsInv' /\ SignalsOwnChildren'
  <1>1. UNCHANGED <<processes, processes_lock, frame, kind>>
    BY DEF Receive, ProcessReady, ProcessExits, vars, registry, locks, sessions,
           system
  <1>2. \A p \in Pids : Unreaped(p)' <=> Unreaped(p)
    <2>1. ASSUME NEW p \in Pids, ProcessReady(p) \/ ProcessExits(p)
          PROVE  \A q \in Pids : Unreaped(q)' <=> Unreaped(q)
      BY <2>1
         DEF ProcessReady, ProcessExits, Alive, Unreaped, OrphanInv, TypeOK, SystemType
    <2>2. CASE UNCHANGED system
      BY <2>2 DEF Unreaped, system
    <2>3. QED
      BY <2>1, <2>2 DEF Receive, vars
  <1>3. \A c \in Clients :
          \/ pc'[c] = pc[c] /\ req'[c] = req[c]
          \/ /\ pc[c] = "idle"
             /\ pc'[c] \notin LairLabels \cup KillLabels \cup StartupLocked
    <2>1. ASSUME NEW c \in Clients, NEW op \in Ops, NEW id \in Ids \cup {None},
                 Receive(c, op, id), NEW d \in Clients
          PROVE  \/ pc'[d] = pc[d] /\ req'[d] = req[d]
                 \/ /\ pc[d] = "idle"
                    /\ pc'[d] \notin LairLabels \cup KillLabels \cup StartupLocked
      BY <2>1, KindsAssumption
         DEF Receive, Busy, OrphanInv, TypeOK, SessionsType, FirstLabel, OpNames
    <2>2. QED
      BY <2>1 DEF ProcessReady, ProcessExits, vars, sessions
  <1>4. \A c \in Clients : Grip(c)' = Grip(c)
    <2>1. \A c \in Clients : pc[c] = "idle" =>
              frame[c].victim = None /\ frame[c].taken = {}
      BY DEF OrphanInv, FramesInv, FrameOf
    <2>2. QED
      BY <1>1, <1>3, <2>1 DEF Grip
  <1>5. AnyHeld' = AnyHeld
    BY <1>1 DEF AnyHeld
  <1>6. LocksInv'
    <2>1. \A c \in Clients : HoldsLock(c) => HoldsLock(c)' /\ req'[c] = req[c]
      BY <1>3 DEF HoldsLock
    <2>2. QED
      BY <1>1, <2>1 DEF LocksInv, OrphanInv, TypeOK, LocksType
  <1>7. PairsInv'
    BY <1>1, <1>5 DEF PairsInv
  <1>8. OnceInv'
    BY <1>1, <1>4 DEF OnceInv, Holds
  <1>9. \A pair \in AnyHeld : /\ Unreaped(pair.lair) => status'[pair.lair] \notin {"unborn", "reaped"}
                              /\ Unreaped(pair.holochain) => status'[pair.holochain] \notin {"unborn", "reaped"}
    BY <1>2, HeldPids DEF Unreaped
  <1>10. LairsInv'
    <2>1. \A c \in Clients : pc[c] \in LairLabels => frame[c].lair \in Pids
      BY DEF OrphanInv, FramesInv, FrameOf, TypeOK, SessionsType, Frame
    <2>2. \A c \in Clients : pc'[c] \in LairLabels => pc[c] \in LairLabels
      BY <1>3
    <2>3. QED
      BY <1>1, <1>2, <1>5, <2>1, <2>2 DEF LairsInv, Unreaped
  <1>11. SignalsOwnChildren'
    <2>1. \A c \in Clients : /\ \A pair \in frame[c].taken : pair \in AnyHeld
                             /\ pc[c] \in KillLabels => frame[c].victim \in AnyHeld
      BY HeldCases, NoneAssumption
         DEF OrphanInv, FramesInv, FrameOf, TypeOK, SessionsType, Frame
    <2>2. \A i \in Ids : processes[i] # None => processes[i] \in AnyHeld
      BY HeldCases
    <2>3. \A c \in Clients : pc'[c] \in KillLabels => pc'[c] = pc[c]
      BY <1>3
    <2>4. QED
      BY <1>1, <1>9, <2>1, <2>2, <2>3 DEF SignalsOwnChildren, Unreaped
  <1>12. QED
    BY <1>6, <1>7, <1>8, <1>10, <1>11

\* The invariant of the children holds initially.
LEMMA InitChildren == Init => ChildrenInv
  <1> SUFFICES ASSUME Init PROVE ChildrenInv
    OBVIOUS
  <1>1. AnyHeld = {} /\ \A c \in Clients : Grip(c) = {}
    BY DEF Init, AnyHeld, Grip, NoFrame
  <1>2. LocksInv /\ PairsInv /\ OnceInv /\ LairsInv /\ SignalsOwnChildren
    BY <1>1
       DEF Init, LocksInv, PairsInv, OnceInv, LairsInv, SignalsOwnChildren, Holds, NoFrame
  <1>3. QED
    BY <1>2, InitOrphan DEF ChildrenInv

\* Every step keeps the invariant of the children.
LEMMA StepChildren == ChildrenInv /\ [Next]_vars => ChildrenInv'
  <1> SUFFICES ASSUME ChildrenInv, [Next]_vars PROVE ChildrenInv'
    OBVIOUS
  <1>1. OrphanInv /\ LocksInv /\ PairsInv /\ OnceInv /\ LairsInv /\ SignalsOwnChildren
    BY DEF ChildrenInv
  <1>2. LocksInv' /\ PairsInv' /\ OnceInv' /\ LairsInv' /\ SignalsOwnChildren'
    BY <1>1, LocksStep, ChildrenStep, ChildrenOthers DEF Next, Finished
  <1>3. QED
    BY <1>1, <1>2, StepOrphan DEF ChildrenInv

\* kill_player signals and waits for children that nobody has reaped: no process
\* id is held twice, and whoever kills a pair holds its player's Mutex or has
\* taken it out of the map.
THEOREM OwnChildren == Spec => []SignalsOwnChildren
  <1>1. ChildrenInv => SignalsOwnChildren
    BY DEF ChildrenInv
  <1>2. QED
    BY <1>1, InitChildren, StepChildren, PTL DEF Spec

=============================================================================
