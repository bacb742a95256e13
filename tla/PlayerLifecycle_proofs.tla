---------------------- MODULE PlayerLifecycle_proofs ----------------------
(***************************************************************************)
(* Proofs about PlayerLifecycle, for any number of tasks and startups: its *)
(* types, that subscriptions follow the handlers, and, for players that    *)
(* one task starts, that no conductor is forgotten, that a shutdown which  *)
(* resolves has stopped what it had to, and that one conductor serves an   *)
(* installation.                                                           *)
(***************************************************************************)
EXTENDS PlayerLifecycle, FiniteSetTheorems, TLAPS

ObjectType == [app_client : BOOLEAN, admin_client : BOOLEAN,
               on_signal : {"undefined", "handler", None}, app_port : BOOLEAN]
ProcessType == [Processes -> {"none", "up", "dying", "closed"}]

\* A task that waits has an object.
MineInv == \A t \in Tasks : pc[t] # "idle" => mine[t] \in Objects

\* Only remote conductors have their app port noted.
PortInv == \A k \in Objects : object[k].app_port => backend = "trycp"

HandlerInv == MineInv /\ PortInv /\ SubscribedIffWanted

USE NoneAssumption, SpawnsAssumption

-----------------------------------------------------------------------------
\* What changes when a task goes on.
LEMMA GoesStep ==
    ASSUME TypeOK, NEW t \in Tasks, NEW k \in Objects \cup {None},
           NEW label \in Waits \cup {"idle"}, NEW a \in {"ok", "err", None},
           Goes(t, k, label, a)
    PROVE  /\ pc' \in [Tasks -> Waits \cup {"idle"}]
           /\ mine' \in [Tasks -> Objects \cup {None}]
           /\ answer' \in [Tasks -> {"ok", "err", None}]
           /\ queue' \in Seq(Tasks)
           /\ pc'[t] = label /\ mine'[t] = k /\ answer'[t] = a
           /\ \A u \in Tasks : u # t => /\ pc'[u] = pc[u]
                                        /\ mine'[u] = mine[u]
                                        /\ answer'[u] = answer[u]
<1> USE DEF TypeOK
<1>1. pc' = [pc EXCEPT ![t] = label] /\ mine' = [mine EXCEPT ![t] = k]
      /\ answer' = [answer EXCEPT ![t] = a]
    BY DEF Goes
<1>2. queue' \in Seq(Tasks)
  <2> DEFINE others == IF queue # <<>> /\ Head(queue) = t THEN Tail(queue) ELSE queue
  <2>1. others \in Seq(Tasks)
        OBVIOUS
  <2>2. Append(others, t) \in Seq(Tasks)
        BY <2>1
  <2> QED BY <2>1, <2>2 DEF Goes
<1> QED BY <1>1, <1>2

\* The first message of a kill, or its signal, changes no handler and no port.
LEMMA TerminateStep ==
    ASSUME TypeOK, NEW t \in Tasks, NEW k \in Objects, Terminate(t, k)
    PROVE  /\ proc' \in [Objects -> ProcessType]
           /\ remote' \in Objects \cup {None}
           /\ awaiting' \in [Tasks -> SUBSET Processes]
           /\ remote' \in {remote, None}
           /\ \E a \in {"ok", "err", None} : Goes(t, k, "kill", a)
<1> USE DEF TypeOK, ProcessType, Processes
<1>1. CASE backend = "local"
  <2>1. Signalled(proc[k]) \in ProcessType
        BY DEF Signalled
  <2>2. /\ proc' = [proc EXCEPT ![k] = Signalled(proc[k])]
        /\ awaiting' = [awaiting EXCEPT ![t] = Processes]
        /\ Goes(t, k, "kill", "ok")
        /\ remote' = remote
        BY <1>1 DEF Terminate, Terminated
  <2> QED BY <2>1, <2>2
<1>2. CASE backend = "trycp"
  <2>1. proc' \in [Objects -> ProcessType] /\ remote' \in Objects \cup {None}
        /\ UNCHANGED awaiting /\ remote' \in {remote, None}
        BY <1>2 DEF Terminate, ServerStops
  <2>2. \E a \in {"ok", "err", None} : Goes(t, k, "kill", a)
        BY <1>2 DEF Terminate, Sent
  <2> QED BY <2>1, <2>2
<1> QED BY <1>1, <1>2

\* What the steps of kill up to closing the admin client do to the conductors.
LEMMA CloseAdminStep ==
    ASSUME TypeOK, NEW t \in Tasks, NEW k \in Objects, NEW obj \in [Objects -> ObjectType],
           CloseAdmin(t, k, obj)
    PROVE  /\ object' \in [Objects -> ObjectType]
           /\ \A j \in Objects : /\ object'[j].app_port = obj[j].app_port
                                 /\ object'[j].on_signal = obj[j].on_signal
           /\ \/ /\ backend = "local"
                 /\ Goes(t, k, "close_admin", "ok") /\ UNCHANGED <<proc, remote, awaiting>>
              \/ Terminate(t, k)
<1>1. AdminClosed(obj[k]) \in ObjectType
      /\ AdminClosed(obj[k]).app_port = obj[k].app_port
      /\ AdminClosed(obj[k]).on_signal = obj[k].on_signal
    BY DEF AdminClosed, ObjectType
<1>2. object' = obj \/ object' = [obj EXCEPT ![k] = AdminClosed(obj[k])]
    BY DEF CloseAdmin
<1>3. object' \in [Objects -> ObjectType]
      /\ \A j \in Objects : /\ object'[j].app_port = obj[j].app_port
                            /\ object'[j].on_signal = obj[j].on_signal
    BY <1>1, <1>2
<1> QED BY <1>3 DEF CloseAdmin

\* What the steps of kill do to the conductors.
LEMMA KillStep ==
    ASSUME TypeOK, NEW t \in Tasks, NEW k \in Objects, NEW obj \in [Objects -> ObjectType],
           Kill(t, k, obj)
    PROVE  /\ object' \in [Objects -> ObjectType]
           /\ \A j \in Objects : /\ object'[j].app_port = obj[j].app_port
                                 /\ object'[j].on_signal = obj[j].on_signal
           /\ \/ /\ \E a \in {"ok", "err", None} : Goes(t, k, "close_app", a)
                 /\ UNCHANGED <<proc, remote, awaiting>>
              \/ /\ backend = "local"
                 /\ Goes(t, k, "close_admin", "ok") /\ UNCHANGED <<proc, remote, awaiting>>
              \/ Terminate(t, k)
<1>1. CASE obj[k].app_client
  <2>1. object' = [obj EXCEPT ![k].app_client = FALSE]
        BY <1>1 DEF Kill
  <2>2. object' \in [Objects -> ObjectType]
        /\ \A j \in Objects : /\ object'[j].app_port = obj[j].app_port
                              /\ object'[j].on_signal = obj[j].on_signal
        BY <2>1 DEF ObjectType
  <2> QED BY <1>1, <2>2 DEF Kill, Sent
<1>2. CASE ~obj[k].app_client
    BY <1>2, CloseAdminStep DEF Kill
<1> QED BY <1>1, <1>2

-----------------------------------------------------------------------------
\* At the start no handler is wanted and nothing is subscribed.
LEMMA InitHandler == Init => TypeOK /\ HandlerInv
<1> SUFFICES ASSUME Init PROVE TypeOK /\ HandlerInv
    OBVIOUS
<1> USE DEF Init
<1>1. NewObject \in ObjectType /\ NewObject.app_port = FALSE
    BY DEF NewObject, ObjectType
<1>2. object \in [Objects -> ObjectType]
    BY <1>1
<1>3. proc \in [Objects -> ProcessType]
    BY DEF ProcessType, Processes
<1>4. TypeOK
    BY <1>2, <1>3 DEF TypeOK, ObjectType, ProcessType
<1>5. HandlerInv
    BY <1>1 DEF HandlerInv, MineInv, PortInv, SubscribedIffWanted
<1> QED BY <1>4, <1>5

\* A step of a task keeps that those that wait have an object.
LEMMA MineStep ==
    ASSUME TypeOK, MineInv, NEW t \in Tasks, NEW k \in Objects \cup {None},
           NEW label \in Waits \cup {"idle"}, NEW a \in {"ok", "err", None},
           Goes(t, k, label, a), k \in Objects \/ label = "idle"
    PROVE  /\ MineInv'
           /\ pc' \in [Tasks -> Waits \cup {"idle"}]
           /\ mine' \in [Tasks -> Objects \cup {None}]
           /\ answer' \in [Tasks -> {"ok", "err", None}]
           /\ queue' \in Seq(Tasks)
<1>1. /\ pc' \in [Tasks -> Waits \cup {"idle"}]
      /\ mine' \in [Tasks -> Objects \cup {None}]
      /\ answer' \in [Tasks -> {"ok", "err", None}]
      /\ queue' \in Seq(Tasks)
      /\ pc'[t] = label /\ mine'[t] = k
      /\ \A u \in Tasks : u # t => pc'[u] = pc[u] /\ mine'[u] = mine[u]
    BY GoesStep
<1>2. MineInv'
    BY <1>1 DEF MineInv
<1> QED BY <1>1, <1>2

\* What the awaits of a task are, and that its object is there.
LEMMA Waiting ==
    ASSUME TypeOK, MineInv, NEW t \in Tasks, NEW label \in Waits, pc[t] = label
    PROVE  mine[t] \in Objects
BY DEF MineInv, Waits

\* A server answers ok or an error, or not at all.
LEMMA AnswersType == ASSUME NEW k PROVE AnswersFor(k) \subseteq {"ok", "err", None}
BY DEF AnswersFor, Sent

\* The session and the histories of processes keep their types.
WorldTypes ==
    /\ session \in {"open", "reset", "closed"} /\ cleaned \in SUBSET Timers
    /\ forsaken \in SUBSET Objects /\ crashed \in SUBSET Objects

LEMMA WorldStep == ASSUME TypeOK, MineInv, Next PROVE WorldTypes'
<1>0. WorldTypes /\ remote \in Objects \cup {None}
    BY DEF TypeOK, WorldTypes
<1>1. ASSUME NEW k \in Objects PROVE Serving(k) \subseteq Objects
    BY <1>0 DEF Serving, Reached
<1>2. ASSUME NEW t \in Scripts,
             \/ Startup(t) \/ LairReady(t) \/ InterfaceReady(t) \/ InterfaceClosed(t)
             \/ AdminConnected(t) \/ Connecting(t) \/ Shutdown(t)
             \/ \E h \in {"handler", None} : SetSignalHandler(t, h)
      PROVE  WorldTypes'
  <2>t. t \in Tasks
        BY DEF Tasks
  <2>1. CASE LairReady(t)
    <3>1. mine[t] \in Objects
          BY <2>t, <2>1, Waiting DEF LairReady, Waits
    <3> QED BY <1>0, <2>1, <3>1 DEF LairReady, WorldTypes, machine
  <2>2. CASE StartupFails(t)
    <3>1. mine[t] \in Objects
          BY <2>t, <2>2, Waiting DEF StartupFails, Resumes, Waits
    <3>2. Serving(mine[t]) \subseteq Objects
          BY <1>1, <3>1
    <3> QED BY <1>0, <2>2, <3>2 DEF StartupFails, WorldTypes, machine
  <2> QED BY <1>0, <1>2, <2>1, <2>2
          DEF Startup, InterfaceReady, InterfaceClosed, AdminConnected, Connecting, Spawned,
              Attached, AppConnected, Shutdown, SetSignalHandler, WorldTypes, world, machine
<1>3. ASSUME NEW t \in Scripts \cup Timers, Cleanup(t) \/ CleanupIdle(t) \/ Killing(t)
      PROVE  WorldTypes'
  <2>t. t \in Tasks
        BY DEF Tasks
  <2>1. CASE KillFails(t)
    <3>1. mine[t] \in Objects
          BY <2>t, <2>1, Waiting DEF KillFails, Resumes, Waits
    <3>2. Serving(mine[t]) \subseteq Objects
          BY <1>1, <3>1
    <3> QED BY <1>0, <2>1, <3>2 DEF KillFails, WorldTypes, machine
  <2>2. CASE CleanupIdle(t) \/ KillReturns(t)
        BY <1>0, <2>2 DEF CleanupIdle, KillReturns, Cleaned, WorldTypes
  <2> QED BY <1>0, <1>3, <2>1, <2>2
          DEF Cleanup, Killing, AppClosed, AdminCloses, WorldTypes, machine
<1>4. ASSUME NEW t \in Helpers, Install(t) \/ InstallStep(t) \/ InstallEnds(t)
      PROVE  WorldTypes'
    BY <1>0, <1>4 DEF Install, InstallStep, InstallEnds, WorldTypes, world, machine
<1>5. ASSUME (\E t \in Timers : Reset(t)) \/ SessionCloses PROVE WorldTypes'
    BY <1>0, <1>5 DEF Reset, SessionCloses, WorldTypes
<1>6. ASSUME NEW k \in Objects, NEW p \in Processes, ProcessCloses(k, p) \/ Crash(k, p)
      PROVE  WorldTypes'
    BY <1>0, <1>6 DEF ProcessCloses, Crash, WorldTypes, machine
<1> QED BY <1>2, <1>3, <1>4, <1>5, <1>6 DEF Next

\* The actions of a startup.
LEMMA StartupHandler ==
    ASSUME TypeOK, HandlerInv, WorldTypes', NEW t \in Scripts,
           \/ Startup(t) \/ LairReady(t) \/ InterfaceReady(t) \/ InterfaceClosed(t)
           \/ AdminConnected(t) \/ Connecting(t)
    PROVE  TypeOK' /\ HandlerInv'
<1> USE DEF HandlerInv, WorldTypes
<1>t. t \in Tasks
    BY DEF Tasks
<1>q. ASSUME UNCHANGED <<object, subscribed, backend>> PROVE PortInv' /\ SubscribedIffWanted'
    BY <1>q DEF PortInv, SubscribedIffWanted, Wanted
<1>1. CASE Startup(t)
  <2> DEFINE k == spawned + 1
  <2>1. k \in Objects /\ k \in 0 .. MaxSpawns
        BY <1>1 DEF Startup, TypeOK, Objects
  <2>2. \E label \in {"lair", "spawn"}, a \in {"ok", "err", None} : Goes(t, k, label, a)
    <3>1. CASE backend = "local"
          BY <1>1, <3>1 DEF Startup
    <3>2. CASE backend # "local"
          BY <1>1, <3>2 DEF Startup, Sent
    <3> QED BY <3>1, <3>2
  <2>3. proc' \in [Objects -> ProcessType] /\ remote' \in Objects \cup {None}
    <3>1. /\ \/ UNCHANGED proc
             \/ proc' = [proc EXCEPT ![k].lair = "up"]
             \/ proc' = [proc EXCEPT ![k].holochain = "up"]
          /\ remote' \in {remote, k}
      <4>1. CASE backend = "local"
            BY <1>1, <4>1 DEF Startup
      <4>2. CASE backend # "local"
        <5>1. \/ proc' = [proc EXCEPT ![k].holochain = "up"] /\ remote' = k
              \/ proc' = proc /\ remote' = remote
              BY <1>1, <4>2 DEF Startup
        <5> QED BY <5>1
      <4> QED BY <4>1, <4>2
    <3> HIDE DEF k
    <3>2. /\ proc \in [Objects -> ProcessType] /\ remote \in Objects \cup {None}
          /\ \A x \in ProcessType : /\ [x EXCEPT !.lair = "up"] \in ProcessType
                                    /\ [x EXCEPT !.holochain = "up"] \in ProcessType
          BY DEF TypeOK, ProcessType, Processes
    <3> HIDE DEF ProcessType
    <3>3. \/ UNCHANGED proc
          \/ proc' = [proc EXCEPT ![k] = [proc[k] EXCEPT !.lair = "up"]]
          \/ proc' = [proc EXCEPT ![k] = [proc[k] EXCEPT !.holochain = "up"]]
          BY <3>1
    <3>4. proc[k] \in ProcessType
          BY <2>1, <3>2
    <3>5. proc' \in [Objects -> ProcessType]
          BY <2>1, <3>2, <3>3, <3>4
    <3> QED BY <2>1, <3>1, <3>2, <3>5
  <2>4. /\ MineInv'
        /\ pc' \in [Tasks -> Waits \cup {"idle"}] /\ mine' \in [Tasks -> Objects \cup {None}]
        /\ answer' \in [Tasks -> {"ok", "err", None}] /\ queue' \in Seq(Tasks)
        BY <1>t, <2>1, <2>2, MineStep DEF Waits
  <2> QED BY <1>1, <1>q, <2>1, <2>3, <2>4 DEF Startup, TypeOK, ProcessType
<1>2. CASE LairReady(t)
  <2>1. mine[t] \in Objects
        BY <1>2, <1>t, Waiting DEF LairReady, Waits
  <2>2. Goes(t, None, "idle", None) \/ Goes(t, mine[t], "ready", None)
        BY <1>2 DEF LairReady, Ends, Await
  <2>3. proc' \in [Objects -> ProcessType]
    <3>1. proc' = proc \/ proc' = [proc EXCEPT ![mine[t]].holochain = "up"]
          BY <1>2 DEF LairReady
    <3>2. proc \in [Objects -> ProcessType]
          BY DEF TypeOK, ProcessType
    <3> QED BY <2>1, <3>1, <3>2 DEF ProcessType, Processes
  <2>4. /\ MineInv'
        /\ pc' \in [Tasks -> Waits \cup {"idle"}] /\ mine' \in [Tasks -> Objects \cup {None}]
        /\ answer' \in [Tasks -> {"ok", "err", None}] /\ queue' \in Seq(Tasks)
        BY <1>t, <2>1, <2>2, MineStep DEF Waits
  <2> QED BY <1>2, <1>q, <2>3, <2>4 DEF LairReady, TypeOK, ProcessType
<1>3. CASE InterfaceReady(t) \/ InterfaceClosed(t)
  <2>1. mine[t] \in Objects
        BY <1>3, <1>t, Waiting DEF InterfaceReady, InterfaceClosed, Waits
  <2>2. Goes(t, None, "idle", None) \/ Goes(t, mine[t], "admin", None)
        BY <1>3 DEF InterfaceReady, InterfaceClosed, Ends, Await
  <2>4. /\ MineInv'
        /\ pc' \in [Tasks -> Waits \cup {"idle"}] /\ mine' \in [Tasks -> Objects \cup {None}]
        /\ answer' \in [Tasks -> {"ok", "err", None}] /\ queue' \in Seq(Tasks)
        BY <1>t, <2>1, <2>2, MineStep DEF Waits
  <2> QED BY <1>3, <1>q, <2>1, <2>4 DEF InterfaceReady, InterfaceClosed, TypeOK, world
<1>4. CASE AdminConnected(t)
  <2>1. mine[t] \in Objects
        BY <1>4, <1>t, Waiting DEF AdminConnected, Waits
  <2>2. Goes(t, None, "idle", None) \/ \E a \in {"ok", "err", None} : Goes(t, mine[t], "attach", a)
        BY <1>4, AnswersType DEF AdminConnected, Ends, Await
  <2>3. /\ object' \in [Objects -> ObjectType]
        /\ \A j \in Objects : /\ object'[j].app_port = object[j].app_port
                              /\ object'[j].on_signal = object[j].on_signal
    <3>1. object' = object \/ object' = [object EXCEPT ![mine[t]].admin_client = TRUE]
          BY <1>4 DEF AdminConnected
    <3>2. object \in [Objects -> ObjectType]
          BY DEF TypeOK, ObjectType
    <3>4. CASE object' = [object EXCEPT ![mine[t]].admin_client = TRUE]
      <4> DEFINE k == mine[t]
      <4> HIDE DEF k
      <4>1. k \in Objects /\ object' = [object EXCEPT ![k].admin_client = TRUE]
            BY <2>1, <3>4 DEF k
      <4> QED BY <3>2, <4>1 DEF ObjectType
    <3> QED BY <3>1, <3>2, <3>4
  <2>4. /\ MineInv'
        /\ pc' \in [Tasks -> Waits \cup {"idle"}] /\ mine' \in [Tasks -> Objects \cup {None}]
        /\ answer' \in [Tasks -> {"ok", "err", None}] /\ queue' \in Seq(Tasks)
        BY <1>t, <2>1, <2>2, MineStep DEF Waits
  <2>5. PortInv' /\ SubscribedIffWanted'
        BY <1>4, <2>3 DEF AdminConnected, PortInv, SubscribedIffWanted, Wanted
  <2> QED BY <1>4, <2>3, <2>4, <2>5 DEF AdminConnected, TypeOK, ObjectType, world
<1>5. CASE Spawned(t) \/ Attached(t) \/ StartupFails(t)
  <2>1. mine[t] \in Objects
        BY <1>5, <1>t, Waiting DEF Spawned, Attached, StartupFails, Resumes, Waits
  <2>2. \/ Goes(t, None, "idle", None)
        \/ \E label \in {"attach", "app"}, a \in {"ok", "err", None} : Goes(t, mine[t], label, a)
        BY <1>5, AnswersType DEF Spawned, Attached, StartupFails, Ends, Await
  <2>4. /\ MineInv'
        /\ pc' \in [Tasks -> Waits \cup {"idle"}] /\ mine' \in [Tasks -> Objects \cup {None}]
        /\ answer' \in [Tasks -> {"ok", "err", None}] /\ queue' \in Seq(Tasks)
        BY <1>t, <2>1, <2>2, MineStep DEF Waits
  <2> QED BY <1>5, <1>q, <2>1, <2>4 DEF Spawned, Attached, StartupFails, TypeOK, world
<1>6. CASE AppConnected(t)
  <2> DEFINE k == mine[t]
  <2>1. k \in Objects
        BY <1>6, <1>t, Waiting DEF AppConnected, Resumes, Waits
  <2>2. Goes(t, None, "idle", None)
        BY <1>6 DEF AppConnected, Ends
  <2>3. /\ object' \in [Objects -> ObjectType]
        /\ object'[k].app_port = (backend = "trycp")
        /\ object'[k].on_signal = object[k].on_signal
        /\ \A j \in Objects : j # k => object'[j] = object[j]
    <3> DEFINE port == backend = "trycp"
    <3>1. object' = [object EXCEPT ![k].app_client = TRUE, ![k].app_port = port]
          BY <1>6 DEF AppConnected
    <3>2. port \in BOOLEAN
          OBVIOUS
    <3> HIDE DEF port
    <3> DEFINE new == [object[k] EXCEPT !.app_client = TRUE, !.app_port = port]
    <3>4. object \in [Objects -> ObjectType]
          BY DEF TypeOK, ObjectType
    <3>5. new \in ObjectType /\ new.app_port = port /\ new.on_signal = object[k].on_signal
          BY <2>1, <3>2, <3>4 DEF ObjectType
    <3>6. object' = [object EXCEPT ![k] = new]
          BY <2>1, <3>1, <3>4 DEF ObjectType
    <3> HIDE DEF new
    <3>3. /\ object' \in [Objects -> ObjectType]
          /\ object'[k].app_port = port
          /\ object'[k].on_signal = object[k].on_signal
          /\ \A j \in Objects : j # k => object'[j] = object[j]
          BY <2>1, <3>4, <3>5, <3>6
    <3> QED BY <3>3 DEF port
  <2>4. /\ MineInv'
        /\ pc' \in [Tasks -> Waits \cup {"idle"}] /\ mine' \in [Tasks -> Objects \cup {None}]
        /\ answer' \in [Tasks -> {"ok", "err", None}] /\ queue' \in Seq(Tasks)
        BY <1>t, <2>2, MineStep DEF Waits
  <2>5. subscribed' = IF backend = "trycp" /\ Wanted(k) THEN subscribed \cup {k} ELSE subscribed
        BY <1>6 DEF AppConnected
  <2>6. backend' = backend
        BY <1>6 DEF AppConnected
  <2>7. PortInv'
        BY <2>3, <2>6 DEF PortInv
  <2>8. SubscribedIffWanted'
        BY <2>1, <2>3, <2>5 DEF PortInv, SubscribedIffWanted, Wanted
  <2> QED BY <1>6, <2>1, <2>3, <2>4, <2>5, <2>7, <2>8 DEF AppConnected, TypeOK, ObjectType, world
<1> QED BY <1>1, <1>2, <1>3, <1>4, <1>5, <1>6 DEF Connecting

\* The actions of a shutdown or cleanup, and of setSignalHandler.
LEMMA SignalStep ==
    ASSUME TypeOK, HandlerInv, NEW h \in {"handler", None}, SignalHandler(h),
           UNCHANGED <<backend, conductor>>
    PROVE  /\ on_signal' \in {"handler", None}
           /\ object' \in [Objects -> ObjectType]
           /\ subscribed' \in SUBSET Objects
           /\ PortInv' /\ SubscribedIffWanted'
<1> USE DEF HandlerInv
<1> DEFINE k == conductor
           remotely == k # None /\ object[k].app_port
<1>1. object \in [Objects -> ObjectType] /\ k \in Objects \cup {None}
      /\ subscribed \in SUBSET Objects
    BY DEF TypeOK, ObjectType
<1>2. /\ on_signal' = h
      /\ object' = IF k = None THEN object ELSE [object EXCEPT ![k].on_signal = h]
      /\ subscribed' = IF remotely /\ h = None THEN subscribed \ {k}
                       ELSE IF remotely /\ object[k].on_signal = None THEN subscribed \cup {k}
                       ELSE subscribed
    BY DEF SignalHandler, Previous
<1> HIDE DEF k
<1>3. CASE k = None
    BY <1>1, <1>2, <1>3 DEF PortInv, SubscribedIffWanted, Wanted
<1>4. CASE k # None
  <2>1. /\ object' \in [Objects -> ObjectType]
        /\ object'[k].on_signal = h
        /\ \A j \in Objects : object'[j].app_port = object[j].app_port
        /\ \A j \in Objects : j # k => object'[j] = object[j]
        BY <1>1, <1>2, <1>4 DEF ObjectType
  <2>2. PortInv'
        BY <2>1 DEF PortInv
  <2>3. SubscribedIffWanted'
        BY <1>1, <1>2, <1>4, <2>1 DEF SubscribedIffWanted, Wanted
  <2> QED BY <1>1, <1>2, <1>4, <2>1, <2>2, <2>3
<1> QED BY <1>3, <1>4

\* What Terminate, CloseAdmin and Kill leave of the invariants, once the handlers are done.
LEMMA KillTypes ==
    ASSUME TypeOK, MineInv, NEW t \in Tasks, NEW k \in Objects,
           \/ /\ \E label \in {"close_app", "close_admin"}, a \in {"ok", "err", None} :
                     Goes(t, k, label, a)
              /\ UNCHANGED <<proc, remote, awaiting>>
           \/ Terminate(t, k)
    PROVE  /\ MineInv'
           /\ pc' \in [Tasks -> Waits \cup {"idle"}]
           /\ mine' \in [Tasks -> Objects \cup {None}]
           /\ answer' \in [Tasks -> {"ok", "err", None}]
           /\ queue' \in Seq(Tasks)
           /\ proc' \in [Objects -> ProcessType]
           /\ remote' \in Objects \cup {None}
           /\ awaiting' \in [Tasks -> SUBSET Processes]
<1>1. \E label \in {"close_app", "close_admin", "kill"}, a \in {"ok", "err", None} : Goes(t, k, label, a)
    BY TerminateStep
<1>2. /\ MineInv'
      /\ pc' \in [Tasks -> Waits \cup {"idle"}]
      /\ mine' \in [Tasks -> Objects \cup {None}]
      /\ answer' \in [Tasks -> {"ok", "err", None}]
      /\ queue' \in Seq(Tasks)
    BY <1>1, MineStep DEF Waits
<1>3. /\ proc' \in [Objects -> ProcessType]
      /\ remote' \in Objects \cup {None}
      /\ awaiting' \in [Tasks -> SUBSET Processes]
    BY TerminateStep DEF TypeOK, ProcessType
<1> QED BY <1>2, <1>3

\* The steps that stop a player, or set its handler.
LEMMA StopHandler ==
    ASSUME TypeOK, HandlerInv, WorldTypes', NEW t \in Scripts \cup Timers,
           \/ Shutdown(t) \/ Cleanup(t) \/ CleanupIdle(t) \/ Killing(t)
           \/ \E h \in {"handler", None} : SetSignalHandler(t, h)
    PROVE  TypeOK' /\ HandlerInv'
<1> USE DEF HandlerInv, WorldTypes
<1>t. t \in Tasks /\ object \in [Objects -> ObjectType]
    BY DEF Tasks, TypeOK, ObjectType
<1>q. ASSUME UNCHANGED <<object, subscribed, backend>> PROVE PortInv' /\ SubscribedIffWanted'
    BY <1>q DEF PortInv, SubscribedIffWanted, Wanted
<1>1. CASE Shutdown(t)
  <2>1. conductor \in Objects /\ Kill(t, conductor, object)
        BY <1>1 DEF Shutdown, TypeOK
  <2>2. /\ object' \in [Objects -> ObjectType]
        /\ \A j \in Objects : /\ object'[j].app_port = object[j].app_port
                              /\ object'[j].on_signal = object[j].on_signal
        BY <1>t, <2>1, KillStep
  <2>3. /\ MineInv' /\ pc' \in [Tasks -> Waits \cup {"idle"}]
        /\ mine' \in [Tasks -> Objects \cup {None}] /\ answer' \in [Tasks -> {"ok", "err", None}]
        /\ queue' \in Seq(Tasks) /\ proc' \in [Objects -> ProcessType]
        /\ remote' \in Objects \cup {None} /\ awaiting' \in [Tasks -> SUBSET Processes]
        BY <1>t, <2>1, KillStep, KillTypes
  <2>4. PortInv' /\ SubscribedIffWanted'
        BY <1>1, <2>2 DEF Shutdown, PortInv, SubscribedIffWanted, Wanted
  <2> QED BY <1>1, <2>2, <2>3, <2>4 DEF Shutdown, TypeOK, ObjectType, ProcessType
<1>2. CASE Cleanup(t)
  <2> DEFINE obj == [object EXCEPT ![conductor].on_signal = None]
  <2>1. conductor \in Objects /\ Kill(t, conductor, obj)
        BY <1>2 DEF Cleanup, TypeOK
  <2>2. /\ obj \in [Objects -> ObjectType]
        /\ obj[conductor].on_signal = None
        /\ \A j \in Objects : obj[j].app_port = object[j].app_port
        /\ \A j \in Objects : j # conductor => obj[j] = object[j]
        BY <1>t, <2>1 DEF ObjectType
  <2> HIDE DEF obj
  <2>3. /\ object' \in [Objects -> ObjectType]
        /\ \A j \in Objects : /\ object'[j].app_port = obj[j].app_port
                              /\ object'[j].on_signal = obj[j].on_signal
        BY <1>t, <2>1, <2>2, KillStep
  <2>4. /\ MineInv' /\ pc' \in [Tasks -> Waits \cup {"idle"}]
        /\ mine' \in [Tasks -> Objects \cup {None}] /\ answer' \in [Tasks -> {"ok", "err", None}]
        /\ queue' \in Seq(Tasks) /\ proc' \in [Objects -> ProcessType]
        /\ remote' \in Objects \cup {None} /\ awaiting' \in [Tasks -> SUBSET Processes]
        BY <1>t, <2>1, <2>2, KillStep, KillTypes
  <2>5. subscribed' = subscribed \ {conductor} /\ backend' = backend
        BY <1>2 DEF Cleanup
  <2>6. PortInv' /\ SubscribedIffWanted'
        BY <2>1, <2>2, <2>3, <2>5 DEF PortInv, SubscribedIffWanted, Wanted
  <2> QED BY <1>2, <2>3, <2>4, <2>6 DEF Cleanup, TypeOK, ObjectType, ProcessType
<1>3. CASE CleanupIdle(t) \/ \E h \in {"handler", None} : SetSignalHandler(t, h)
  <2>1. PICK h \in {"handler", None} :
            /\ SignalHandler(h)
            /\ UNCHANGED <<backend, conductor, spawned, proc, remote, tasks, awaiting, served,
                           given_up>>
        BY <1>3 DEF CleanupIdle, SetSignalHandler, world
  <2>2. /\ on_signal' \in {"handler", None} /\ object' \in [Objects -> ObjectType]
        /\ subscribed' \in SUBSET Objects /\ PortInv' /\ SubscribedIffWanted'
        BY <2>1, SignalStep
  <2>3. MineInv'
        BY <2>1 DEF MineInv, tasks
  <2> QED BY <2>1, <2>2, <2>3 DEF TypeOK, ObjectType, tasks, world
<1>4. CASE AppClosed(t) \/ AdminCloses(t)
  <2>1. mine[t] \in Objects
        BY <1>4, <1>t, Waiting DEF AppClosed, AdminCloses, Resumes, Waits
  <2>2. \/ CloseAdmin(t, mine[t], object)
        \/ Terminate(t, mine[t]) /\ UNCHANGED object
        BY <1>4 DEF AppClosed, AdminCloses
  <2>3. /\ object' \in [Objects -> ObjectType]
        /\ \A j \in Objects : /\ object'[j].app_port = object[j].app_port
                              /\ object'[j].on_signal = object[j].on_signal
        BY <1>t, <2>1, <2>2, CloseAdminStep
  <2>4. /\ MineInv' /\ pc' \in [Tasks -> Waits \cup {"idle"}]
        /\ mine' \in [Tasks -> Objects \cup {None}] /\ answer' \in [Tasks -> {"ok", "err", None}]
        /\ queue' \in Seq(Tasks) /\ proc' \in [Objects -> ProcessType]
        /\ remote' \in Objects \cup {None} /\ awaiting' \in [Tasks -> SUBSET Processes]
        BY <1>t, <2>1, <2>2, CloseAdminStep, KillTypes
  <2>5. PortInv' /\ SubscribedIffWanted'
        BY <1>4, <2>3 DEF AppClosed, AdminCloses, PortInv, SubscribedIffWanted, Wanted
  <2> QED BY <1>4, <2>3, <2>4, <2>5 DEF AppClosed, AdminCloses, TypeOK, ObjectType, ProcessType
<1>5. CASE KillReturns(t) \/ KillFails(t)
  <2>1. mine[t] \in Objects
        BY <1>5, <1>t, Waiting DEF KillReturns, KillFails, Resumes, Waits
  <2>2. Goes(t, None, "idle", None)
        BY <1>5 DEF KillReturns, KillFails, Ends
  <2>4. /\ MineInv'
        /\ pc' \in [Tasks -> Waits \cup {"idle"}] /\ mine' \in [Tasks -> Objects \cup {None}]
        /\ answer' \in [Tasks -> {"ok", "err", None}] /\ queue' \in Seq(Tasks)
        BY <1>t, <2>2, MineStep DEF Waits
  <2> QED BY <1>5, <1>q, <2>1, <2>4 DEF KillReturns, KillFails, TypeOK, world
<1> QED BY <1>1, <1>2, <1>3, <1>4, <1>5 DEF Killing

\* An installation touches neither handlers nor processes.
LEMMA InstallEffect ==
    ASSUME TypeOK, MineInv, NEW t \in Helpers, Install(t) \/ InstallStep(t) \/ InstallEnds(t)
    PROVE  /\ \/ Goes(t, None, "idle", None)
              \/ \E k \in Objects \cap {conductor, mine[t]}, a \in {"ok", "err", None},
                    label \in {"key", "save", "register", "install", "enable"} :
                    Goes(t, k, label, a)
           /\ pc[t] \in {"idle", "key", "save", "register", "install", "enable"}
           /\ served' \in [Tasks -> SUBSET Objects]
           /\ UNCHANGED <<backend, conductor, on_signal, object, spawned, world, subscribed,
                          awaiting, given_up>>
<1>t. t \in Tasks
    BY DEF Tasks
<1> DEFINE Labels == {"key", "save", "register", "install", "enable"}
           Mine == Objects \cap {conductor, mine[t]}
           Effect == /\ \/ Goes(t, None, "idle", None)
                        \/ \E k \in Mine, a \in {"ok", "err", None}, label \in Labels :
                              Goes(t, k, label, a)
                     /\ served' \in [Tasks -> SUBSET Objects]
<1>0. /\ served \in [Tasks -> SUBSET Objects] /\ remote \in Objects \cup {None}
      /\ conductor \in Objects \cup {None}
    BY DEF TypeOK
<1>1. ASSUME NEW k \in Mine, NEW label \in Labels, NEW before \in SUBSET Objects,
             AdminCall(t, k, label, before)
      PROVE  Effect
  <2>1. Reached(k) \in Objects \cup {None}
        BY <1>0 DEF Reached
  <2>2. before \cup Serving(k) \in SUBSET Objects
        BY <2>1 DEF Serving
  <2>3. CASE object[k].admin_client
        BY <1>0, <1>1, <2>2, <2>3, AnswersType DEF AdminCall
  <2>4. CASE ~object[k].admin_client
        BY <1>0, <1>1, <2>4 DEF AdminCall, Ends
  <2> QED BY <2>3, <2>4
<1>2. ASSUME NEW k \in Mine, NEW before \in SUBSET Objects, SaveDna(t, k, before)
      PROVE  Effect
    BY <1>0, <1>2 DEF SaveDna, Sent
<1>d. DOMAIN AfterStep = {"key", "save", "register", "install"}
      /\ \A step \in DOMAIN AfterStep : AfterStep[step] \subseteq Labels
    BY DEF AfterStep
<1>3. CASE Install(t)
  <2>1. conductor \in Mine
        BY <1>0, <1>3 DEF Install
  <2>2. Effect
    <3>1. CASE \E first \in {"key", "register", "install"} : AdminCall(t, conductor, first, {})
          BY <1>1, <2>1, <3>1
    <3>2. CASE SaveDna(t, conductor, {})
          BY <1>2, <2>1, <3>2
    <3> QED BY <1>3, <3>1, <3>2 DEF Install
  <2> QED BY <1>3, <2>2 DEF Install
<1>4. CASE InstallStep(t)
  <2>1. pc[t] \in DOMAIN AfterStep
        BY <1>4, <1>d DEF InstallStep, Resumes
  <2>2. mine[t] \in Mine /\ served[t] \in SUBSET Objects
        BY <1>0, <1>t, <1>d, <2>1, Waiting DEF Waits
  <2>3. Effect
    <3>1. CASE \E step \in DOMAIN AfterStep : \E next \in AfterStep[step] :
                    Resumes(t, step, "ok") /\ AdminCall(t, mine[t], next, served[t])
          BY <1>1, <1>d, <2>2, <3>1
    <3>2. CASE SaveDna(t, mine[t], served[t])
          BY <1>2, <2>2, <3>2
    <3> QED BY <1>4, <3>1, <3>2 DEF InstallStep
  <2> QED BY <1>4, <1>d, <2>1, <2>3 DEF InstallStep
<1>5. CASE InstallEnds(t)
    BY <1>0, <1>5, <1>d DEF InstallEnds, Ends, Resumes
<1> QED BY <1>3, <1>4, <1>5

\* The steps of an installation.
LEMMA InstallHandler ==
    ASSUME TypeOK, HandlerInv, WorldTypes', NEW t \in Helpers,
           Install(t) \/ InstallStep(t) \/ InstallEnds(t)
    PROVE  TypeOK' /\ HandlerInv'
<1> USE DEF HandlerInv, WorldTypes
<1>t. t \in Tasks
    BY DEF Tasks
<1>1. /\ MineInv' /\ pc' \in [Tasks -> Waits \cup {"idle"}]
      /\ mine' \in [Tasks -> Objects \cup {None}] /\ answer' \in [Tasks -> {"ok", "err", None}]
      /\ queue' \in Seq(Tasks)
    BY <1>t, InstallEffect, MineStep DEF Waits
<1>2. PortInv' /\ SubscribedIffWanted'
    BY InstallEffect DEF PortInv, SubscribedIffWanted, Wanted
<1> QED BY <1>1, <1>2, InstallEffect DEF TypeOK, world

\* The end of a process.
LEMMA ProcessHandler ==
    ASSUME TypeOK, HandlerInv, WorldTypes', NEW k \in Objects, NEW p \in Processes,
           ProcessCloses(k, p) \/ Crash(k, p)
    PROVE  TypeOK' /\ HandlerInv'
<1>1. proc' = [proc EXCEPT ![k][p] = "closed"]
    BY DEF ProcessCloses, Crash
<1>2. proc' \in [Objects -> ProcessType]
    BY <1>1 DEF TypeOK, ProcessType
<1>3. awaiting' \in [Tasks -> SUBSET Processes]
  <2>1. awaiting \in [Tasks -> SUBSET Processes]
        BY DEF TypeOK
  <2>2. \/ awaiting' = awaiting
        \/ awaiting' = [t \in Tasks |-> IF mine[t] = k THEN awaiting[t] \ {p} ELSE awaiting[t]]
        BY DEF ProcessCloses, Crash
  <2> QED BY <2>1, <2>2
<1>4. HandlerInv'
    BY DEF ProcessCloses, Crash, HandlerInv, MineInv, PortInv, SubscribedIffWanted, Wanted, tasks
<1> QED BY <1>2, <1>3, <1>4 DEF ProcessCloses, Crash, TypeOK, ProcessType, tasks, WorldTypes

\* A reset of the server, and the end of the session.
LEMMA ResetHandler ==
    ASSUME TypeOK, HandlerInv, WorldTypes', (\E t \in Timers : Reset(t)) \/ SessionCloses
    PROVE  TypeOK' /\ HandlerInv'
<1>1. /\ UNCHANGED <<backend, conductor, on_signal, object, spawned, subscribed, tasks,
                     awaiting, served, given_up>>
      /\ ServerStops \/ UNCHANGED <<proc, remote>>
    BY DEF Reset, SessionCloses
<1>2. proc' \in [Objects -> ProcessType] /\ remote' \in Objects \cup {None}
    BY <1>1 DEF ServerStops, TypeOK, ProcessType, Processes
<1>3. HandlerInv'
    BY <1>1 DEF HandlerInv, MineInv, PortInv, SubscribedIffWanted, Wanted, tasks
<1> QED BY <1>1, <1>2, <1>3 DEF TypeOK, WorldTypes, ProcessType, tasks

\* Every step keeps the types and the subscriptions.
LEMMA HandlerStep == TypeOK /\ HandlerInv /\ [Next]_vars => TypeOK' /\ HandlerInv'
<1> SUFFICES ASSUME TypeOK, HandlerInv, [Next]_vars PROVE TypeOK' /\ HandlerInv'
    OBVIOUS
<1>1. CASE UNCHANGED vars
    BY <1>1 DEF vars, tasks, world, machine, TypeOK, HandlerInv, MineInv, PortInv,
                SubscribedIffWanted, Wanted
<1>2. CASE Next
  <2>1. WorldTypes'
        BY <1>2, WorldStep DEF HandlerInv
  <2> QED BY <1>2, <2>1, StartupHandler, StopHandler, InstallHandler, ProcessHandler,
             ResetHandler DEF Next
<1> QED BY <1>1, <1>2

\* They hold in every reachable state.
LEMMA HandlerInductive == Spec => [](TypeOK /\ HandlerInv)
<1>1. Init => TypeOK /\ HandlerInv
    BY InitHandler
<1>2. (TypeOK /\ HandlerInv) /\ [Next]_vars => (TypeOK /\ HandlerInv)'
    BY HandlerStep
<1> QED BY <1>1, <1>2, PTL DEF Spec

\* Every variable keeps its type, for any number of tasks and startups.
THEOREM TypeCorrect == Spec => []TypeOK
<1>1. TypeOK /\ HandlerInv => TypeOK
    OBVIOUS
<1> QED BY <1>1, HandlerInductive, PTL

\* The app port of a remote conductor has a subscription exactly while its handler is
\* wanted, in whatever order setSignalHandler, startup and cleanup of several tasks come.
THEOREM SubscriptionsFollow == Spec => []SubscribedIffWanted
<1>1. TypeOK /\ HandlerInv => SubscribedIffWanted
    BY DEF HandlerInv
<1> QED BY <1>1, HandlerInductive, PTL

-----------------------------------------------------------------------------
\* From here on, one task starts the player.
OneScript == \A s, t \in Scripts : s = t

\* Objects are numbered as they are created; the later ones have no process.
OrderInv ==
    /\ \A k \in Objects : k > spawned => \A p \in Processes : proc[k][p] = "none"
    /\ conductor # None => conductor <= spawned
    /\ remote # None => remote <= spawned
    /\ \A t \in Tasks : mine[t] # None => mine[t] <= spawned

Starting(t) == pc[t] \in {"lair", "ready", "spawn"}

\* Where a task can be, and that the player has no conductor while one is spawned.
PlaceInv ==
    \A t \in Tasks :
        /\ pc[t] \in {"lair", "ready", "admin", "close_admin"} => backend = "local"
        /\ pc[t] = "spawn" => backend = "trycp"
        /\ Starting(t) => t \in Scripts /\ conductor = None
        /\ pc[t] = "lair" => proc[mine[t]].holochain = "none"

\* A local conductor that can be stopped was spawned, and one whose kill has signalled its
\* processes waits for each that still closes.
LocalInv ==
    backend = "local" =>
        /\ conductor # None => proc[conductor].holochain # "none"
        /\ \A t \in Tasks :
            /\ Stopping(t) => proc[mine[t]].holochain # "none"
            /\ pc[t] = "kill" => \A p \in Processes :
                /\ proc[mine[t]][p] # "up"
                /\ proc[mine[t]][p] = "dying" => p \in awaiting[t]

\* The server keeps the only remote conductor that runs, and none that it stopped.
RemoteInv ==
    backend = "trycp" =>
        /\ \A j \in Objects : /\ proc[j].lair = "none" /\ proc[j].holochain # "dying"
                              /\ Up(j) => remote = j
        /\ \A t \in Tasks : pc[t] = "kill" /\ answer[t] = "ok" => ~Up(mine[t])

\* The await of t is one after which the conductor j is the player's, will be signalled, or
\* is forsaken.
Answerable(t, j) ==
    IF backend = "local"
    THEN mine[t] = j /\ pc[t] \in {"ready", "close_app", "close_admin"}
    ELSE pc[t] \in {"spawn", "close_app"} \/ (pc[t] = "kill" /\ answer[t] # "ok")

Kept(j) ==
    \/ j \in forsaken
    \/ \E k \in Objects : Reaches(k, j) /\ conductor = k
    \/ \E t \in Tasks : Answerable(t, j)

KeptInv == \A j \in Objects : Up(j) => Kept(j)

PlacesInv == OrderInv /\ PlaceInv /\ LocalInv /\ RemoteInv

\* At the start there is no conductor.
LEMMA InitKept == Init => PlacesInv /\ KeptInv
<1> SUFFICES ASSUME Init PROVE PlacesInv /\ KeptInv
    OBVIOUS
<1>1. /\ \A k \in Objects : proc[k].lair = "none" /\ proc[k].holochain = "none"
      /\ \A k \in Objects : \A p \in Processes : proc[k][p] = "none"
      /\ \A k \in Objects : ~Up(k)
      /\ \A t \in Tasks : pc[t] = "idle" /\ mine[t] = None
      /\ conductor = None /\ remote = None
    BY DEF Init, Up, Processes
<1> QED BY <1>1 DEF PlacesInv, OrderInv, PlaceInv, LocalInv, RemoteInv, KeptInv, Starting, Stopping

\* A step of t that spawns and signals nothing and puts t elsewhere than in a startup.
LEMMA QuietPlaces ==
    ASSUME TypeOK, PlacesInv, NEW t \in Tasks, NEW k \in Objects \cup {None},
           NEW label \in (Waits \cup {"idle"}) \ {"lair", "ready", "spawn", "kill"},
           NEW a \in {"ok", "err", None},
           Goes(t, k, label, a),
           UNCHANGED <<backend, spawned, proc, remote, awaiting>>,
           label \in {"admin", "close_admin"} => backend = "local",
           k # None => k <= spawned,
           label \in {"close_app", "close_admin"} /\ backend = "local"
                => k \in Objects /\ proc[k].holochain # "none",
           conductor' = conductor \/ conductor' = None
                \/ /\ conductor' \in Objects /\ conductor' <= spawned
                   /\ backend = "local" => proc[conductor'].holochain # "none"
                   /\ \A u \in Tasks : u # t => ~Starting(u)
    PROVE  PlacesInv'
<1>1. /\ pc'[t] = label /\ mine'[t] = k
      /\ \A u \in Tasks : u # t => pc'[u] = pc[u] /\ mine'[u] = mine[u] /\ answer'[u] = answer[u]
    BY GoesStep
<1> USE <1>1 DEF PlacesInv
<1>2. OrderInv'
    BY DEF OrderInv
<1>3. PlaceInv'
  <2> SUFFICES ASSUME NEW u \in Tasks
               PROVE  /\ pc'[u] \in {"lair", "ready", "admin", "close_admin"} => backend = "local"
                      /\ pc'[u] = "spawn" => backend = "trycp"
                      /\ Starting(u)' => u \in Scripts /\ conductor' = None
                      /\ pc'[u] = "lair" => proc[mine'[u]].holochain = "none"
      BY DEF PlaceInv
  <2>1. CASE u = t
        BY <2>1 DEF Starting
  <2>2. CASE u # t
        BY <2>2 DEF Starting, PlaceInv
  <2> QED BY <2>1, <2>2
<1>4. LocalInv'
    BY DEF LocalInv, Stopping
<1>5. RemoteInv'
    BY DEF RemoteInv, Up
<1> QED BY <1>2, <1>3, <1>4, <1>5

\* A step of t that brings up no process loses no conductor but the player's or its own.
LEMMA KeptStep ==
    ASSUME KeptInv, NEW t \in Tasks, backend' = backend, forsaken \subseteq forsaken',
           \A u \in Tasks : u # t => pc'[u] = pc[u] /\ mine'[u] = mine[u] /\ answer'[u] = answer[u],
           \A j \in Objects : Up(j)' => Up(j),
           \A j \in Objects : Up(j)' /\ Answerable(t, j) => Kept(j)',
           conductor' # conductor => \A j \in Objects : Up(j)' /\ Reaches(conductor, j) => Kept(j)'
    PROVE  KeptInv'
<1> SUFFICES ASSUME NEW j \in Objects, Up(j)' PROVE Kept(j)'
    BY DEF KeptInv
<1>1. Kept(j)
    BY DEF KeptInv
<1>2. CASE j \in forsaken
    BY <1>2 DEF Kept
<1>3. CASE \E k \in Objects : Reaches(k, j) /\ conductor = k
    BY <1>3 DEF Kept, Reaches
<1>4. CASE \E u \in Tasks : Answerable(u, j)
  <2>1. PICK u \in Tasks : Answerable(u, j)
        BY <1>4
  <2>2. CASE u # t
        BY <2>1, <2>2 DEF Answerable, Kept
  <2> QED BY <2>1, <2>2
<1> QED BY <1>1, <1>2, <1>3, <1>4 DEF Kept

\* The step that signals local processes, or asks the server to stop its conductor.
LEMMA TerminatePlaces ==
    ASSUME TypeOK, PlacesInv, NEW t \in Tasks, NEW k \in Objects, Terminate(t, k),
           UNCHANGED <<backend, spawned>>, k <= spawned,
           backend = "local" => proc[k].holochain # "none",
           conductor' = conductor \/ conductor' = None
    PROVE  /\ PlacesInv'
           /\ \A j \in Objects : Up(j)' => Up(j)
           /\ \A j \in Objects : Up(j)' => IF backend = "local" THEN j # k
                                           ELSE pc'[t] = "kill" /\ answer'[t] # "ok"
           /\ \A u \in Tasks : u # t => pc'[u] = pc[u] /\ mine'[u] = mine[u] /\ answer'[u] = answer[u]
<1>1. PICK a \in {"ok", "err", None} : Goes(t, k, "kill", a)
    BY TerminateStep
<1>2. /\ pc'[t] = "kill" /\ mine'[t] = k /\ answer'[t] = a
      /\ \A u \in Tasks : u # t => pc'[u] = pc[u] /\ mine'[u] = mine[u] /\ answer'[u] = answer[u]
    BY <1>1, GoesStep DEF Waits
<1>3. /\ proc \in [Objects -> ProcessType] /\ remote \in Objects \cup {None}
      /\ awaiting \in [Tasks -> SUBSET Processes] /\ backend \in {"local", "trycp"}
      /\ mine \in [Tasks -> Objects \cup {None}]
    BY DEF TypeOK, ProcessType
<1>n. \A j \in Objects : j # None
    BY DEF Objects
<1> USE DEF PlacesInv
<1>4. CASE backend = "local"
  <2>1. /\ proc' = [proc EXCEPT ![k] = Signalled(proc[k])]
        /\ awaiting' = [awaiting EXCEPT ![t] = Processes]
        /\ remote' = remote
        BY <1>4 DEF Terminate, Terminated
  <2>2. /\ Signalled(proc[k]).holochain # "none"
        /\ \A p \in Processes : /\ Signalled(proc[k])[p] # "up"
                                /\ proc[k][p] = "none" => Signalled(proc[k])[p] = "none"
    <3>1. /\ Signalled(proc[k]).lair = IF proc[k].lair = "up" THEN "dying" ELSE proc[k].lair
          /\ Signalled(proc[k]).holochain =
                IF proc[k].holochain = "up" THEN "dying" ELSE proc[k].holochain
          BY DEF Signalled
    <3> QED BY <1>4, <3>1 DEF Processes
  <2>3. proc' \in [Objects -> ProcessType] /\ proc'[k] = Signalled(proc[k])
        /\ \A j \in Objects : j # k => proc'[j] = proc[j]
        BY <1>3, <2>1, TerminateStep
  <2>4. OrderInv'
    <3>1. \A j \in Objects : j > spawned => proc'[j] = proc[j]
          BY <2>3 DEF TypeOK, Objects
    <3> QED BY <1>2, <2>1, <3>1 DEF OrderInv
  <2>5. PlaceInv'
    <3> SUFFICES ASSUME NEW u \in Tasks
                 PROVE  /\ pc'[u] \in {"lair", "ready", "admin", "close_admin"} => backend = "local"
                        /\ pc'[u] = "spawn" => backend = "trycp"
                        /\ Starting(u)' => u \in Scripts /\ conductor' = None
                        /\ pc'[u] = "lair" => proc'[mine'[u]].holochain = "none"
        BY DEF PlaceInv
    <3>1. CASE u = t
          BY <1>2, <3>1 DEF Starting
    <3>2. CASE u # t
      <4>1. pc'[u] = "lair" => proc'[mine'[u]].holochain = "none"
            BY <1>2, <1>3, <2>1, <3>2 DEF PlaceInv
      <4> QED BY <1>2, <3>2, <4>1 DEF Starting, PlaceInv
    <3> QED BY <3>1, <3>2
  <2>6. LocalInv'
    <3>1. conductor' # None => proc'[conductor'].holochain # "none"
          BY <1>4, <2>1, <2>2, <2>3 DEF LocalInv, TypeOK
    <3>2. ASSUME NEW u \in Tasks, Stopping(u)' PROVE proc'[mine'[u]].holochain # "none"
      <4>1. CASE u = t
            BY <1>2, <2>2, <2>3, <4>1
      <4>2. CASE u # t
            BY <1>2, <1>4, <2>1, <2>2, <2>3, <3>2, <4>2 DEF LocalInv, Stopping
      <4> QED BY <4>1, <4>2
    <3>3. ASSUME NEW u \in Tasks, pc'[u] = "kill", NEW p \in Processes
          PROVE  /\ proc'[mine'[u]][p] # "up"
                 /\ proc'[mine'[u]][p] = "dying" => p \in awaiting'[u]
      <4>1. CASE u = t
            BY <1>2, <1>3, <2>1, <2>2, <2>3, <4>1
      <4>2. CASE u # t
        <5>1. /\ proc[mine[u]][p] # "up"
              /\ proc[mine[u]][p] = "dying" => p \in awaiting[u]
              /\ mine'[u] = mine[u] /\ awaiting'[u] = awaiting[u]
              BY <1>2, <1>3, <1>4, <2>1, <3>3, <4>2 DEF LocalInv
        <5>2. CASE mine[u] = k
              BY <1>3, <2>2, <2>3, <5>1, <5>2 DEF Signalled, Processes, ProcessType
        <5>3. CASE mine[u] # k
              BY <1>3, <2>1, <5>1, <5>3
        <5> QED BY <5>2, <5>3
      <4> QED BY <4>1, <4>2
    <3> QED BY <3>1, <3>2, <3>3 DEF LocalInv
  <2>7. RemoteInv'
        BY <1>4 DEF RemoteInv
  <2>8. \A j \in Objects : Up(j)' => Up(j) /\ j # k
        BY <2>2, <2>3, <1>n DEF Up, Processes
  <2> QED BY <1>2, <1>4, <2>4, <2>5, <2>6, <2>7, <2>8
<1>5. CASE backend = "trycp"
  <2>1. \/ UNCHANGED <<proc, remote>> /\ a # "ok"
        \/ remote = None /\ UNCHANGED <<proc, remote>>
        \/ /\ remote # None /\ remote' = None
           /\ proc' = [proc EXCEPT ![remote].holochain = "closed"]
    <3>1. \/ \E x \in {"err", None} : Goes(t, k, "kill", x) /\ UNCHANGED <<proc, remote>>
          \/ remote = None /\ UNCHANGED <<proc, remote>>
          \/ /\ remote # None /\ remote' = None
             /\ proc' = [proc EXCEPT ![remote].holochain = "closed"]
          BY <1>5 DEF Terminate, ServerStops, Sent
    <3>2. \A x \in {"err", None} : Goes(t, k, "kill", x) => a # "ok"
          BY <1>2, GoesStep DEF Waits
    <3> QED BY <3>1, <3>2
  <2>2. \A j \in Objects : Up(j) => remote = j
        BY <1>5 DEF RemoteInv
  <2>3. /\ \A j \in Objects, p \in Processes : proc'[j][p] # proc[j][p] => j = remote /\ proc'[j][p] = "closed" /\ p = "holochain"
        /\ \A j \in Objects : Up(j)' => Up(j)
        /\ \A j \in Objects : Up(j)' => a # "ok"
    <3>1. CASE UNCHANGED <<proc, remote>>
          BY <2>1, <2>2, <3>1, <1>n DEF Up
    <3>2. CASE /\ remote # None /\ remote' = None
               /\ proc' = [proc EXCEPT ![remote].holochain = "closed"]
      <4>1. remote \in Objects
            BY <1>3, <3>2
      <4>2. /\ \A j \in Objects, p \in Processes :
                  proc'[j][p] = IF j = remote /\ p = "holochain" THEN "closed" ELSE proc[j][p]
            BY <1>3, <3>2, <4>1 DEF ProcessType
      <4>3. \A j \in Objects : ~Up(j)'
            BY <2>2, <4>2 DEF Up, Processes
      <4> QED BY <4>2, <4>3
    <3> QED BY <2>1, <3>1, <3>2
  <2>4. remote' = remote \/ remote' = None
        BY <2>1
  <2>5. OrderInv'
    <3>1. \A j \in Objects : j > spawned => \A p \in Processes : proc'[j][p] = "none"
      <4>1. \A j \in Objects : j > spawned => j # remote
            BY <1>n DEF OrderInv, Objects, TypeOK
      <4> QED BY <2>3, <4>1 DEF OrderInv
    <3> QED BY <1>2, <2>4, <3>1 DEF OrderInv
  <2>6. PlaceInv'
    <3> SUFFICES ASSUME NEW u \in Tasks
                 PROVE  /\ pc'[u] \in {"lair", "ready", "admin", "close_admin"} => backend = "local"
                        /\ pc'[u] = "spawn" => backend = "trycp"
                        /\ Starting(u)' => u \in Scripts /\ conductor' = None
                        /\ pc'[u] = "lair" => proc'[mine'[u]].holochain = "none"
        BY DEF PlaceInv
    <3>1. CASE u = t
          BY <1>2, <3>1 DEF Starting
    <3>2. CASE u # t
          BY <1>2, <1>5, <3>2 DEF Starting, PlaceInv
    <3> QED BY <3>1, <3>2
  <2>7. LocalInv'
        BY <1>5 DEF LocalInv
  <2>8. RemoteInv'
    <3>1. \A j \in Objects : proc'[j].lair = "none" /\ proc'[j].holochain # "dying"
          BY <1>5, <2>3 DEF RemoteInv, Processes
    <3>2. \A j \in Objects : Up(j)' => remote' = j
      <4> SUFFICES ASSUME NEW j \in Objects, Up(j)' PROVE remote' = j
          OBVIOUS
      <4>1. remote = j /\ a # "ok"
            BY <2>2, <2>3
      <4>2. CASE remote' = None /\ proc' = [proc EXCEPT ![remote].holochain = "closed"]
            BY <1>3, <4>1, <4>2 DEF Up
      <4> QED BY <2>1, <4>1, <4>2
    <3>3. \A u \in Tasks : pc'[u] = "kill" /\ answer'[u] = "ok" => ~Up(mine[u])'
      <4> SUFFICES ASSUME NEW u \in Tasks, pc'[u] = "kill", answer'[u] = "ok", Up(mine[u])'
                   PROVE  FALSE
          OBVIOUS
      <4>1. mine'[u] \in Objects
        <5>1. mine'[u] \in Objects \cup {None}
              BY <1>2, <1>3
        <5> QED BY <5>1 DEF Up
      <4>2. CASE u = t
            BY <1>2, <2>3, <4>1, <4>2 DEF Up
      <4>3. CASE u # t
        <5>1. ~Up(mine[u]) /\ mine'[u] = mine[u]
              BY <1>2, <1>5, <4>3 DEF RemoteInv
        <5>2. mine[u] \in Objects
              BY <4>1, <5>1
        <5>3. Up(mine[u])
              BY <2>3, <5>1, <5>2 DEF Up
        <5> QED BY <5>1, <5>3
      <4> QED BY <4>2, <4>3
    <3> QED BY <1>5, <3>1, <3>2, <3>3 DEF RemoteInv
  <2> QED BY <1>2, <1>5, <2>3, <2>5, <2>6, <2>7, <2>8
<1> QED BY <1>3, <1>4, <1>5

\* Startup spawns lair, or the server spawns the conductor.
LEMMA StartupKept ==
    ASSUME TypeOK, MineInv, PlacesInv, KeptInv, NEW t \in Scripts, Startup(t)
    PROVE  PlacesInv' /\ KeptInv'
<1> DEFINE k == spawned + 1
<1>1. /\ t \in Tasks /\ k \in Objects /\ k > spawned /\ conductor = None /\ spawned' = k
      /\ UNCHANGED <<backend, conductor, forsaken, awaiting>> /\ spawned \in Nat
      /\ proc \in [Objects -> ProcessType] /\ remote \in Objects \cup {None}
      /\ mine \in [Tasks -> Objects \cup {None}] /\ backend \in {"local", "trycp"}
      /\ None \notin Objects
    BY DEF Startup, NotRunning, Tasks, Objects, TypeOK, ProcessType
<1>2. PICK label \in {"lair", "spawn"}, a \in {"ok", "err", None} :
        /\ Goes(t, k, label, a)
        /\ \/ /\ backend = "local" /\ label = "lair" /\ remote' = remote
              /\ proc' = [proc EXCEPT ![k].lair = "up"]
           \/ /\ backend = "trycp" /\ label = "spawn" /\ remote = None
              /\ proc' = [proc EXCEPT ![k].holochain = "up"] /\ remote' = k
           \/ /\ backend = "trycp" /\ label = "spawn"
              /\ UNCHANGED <<proc, remote>>
  <2>1. CASE backend = "local"
        BY <1>1, <2>1 DEF Startup
  <2>2. CASE backend = "trycp"
        BY <1>1, <2>2 DEF Startup, Sent
  <2> QED BY <1>1, <2>1, <2>2
<1>3. /\ pc'[t] = label /\ mine'[t] = k /\ answer'[t] = a
      /\ \A u \in Tasks : u # t => pc'[u] = pc[u] /\ mine'[u] = mine[u] /\ answer'[u] = answer[u]
    BY <1>1, <1>2, GoesStep DEF Waits
<1>4. \A j \in Objects : j # k => proc'[j] = proc[j]
    BY <1>1, <1>2
<1>5. /\ \A p \in Processes : proc[k][p] = "none"
      /\ remote # k /\ conductor # k
      /\ \A u \in Tasks : mine[u] # k
    BY <1>1 DEF PlacesInv, OrderInv
<1>6. pc[t] = "idle"
    BY DEF Startup
<1> HIDE DEF k
<1> USE DEF PlacesInv
<1>7. OrderInv'
  <2>1. \A j \in Objects : j > spawned' => j > spawned /\ j # k
        BY <1>1 DEF k, Objects
  <2>2. \A u \in Tasks : mine'[u] # None => mine'[u] <= spawned'
    <3>1. \A u \in Tasks : mine[u] # None => mine[u] <= spawned'
          BY <1>1 DEF OrderInv, k, Objects
    <3>2. k <= spawned'
          BY <1>1 DEF Objects
    <3> QED BY <1>3, <3>1, <3>2
  <2>3. remote' # None => remote' <= spawned'
    <3>1. remote # None => remote <= spawned'
          BY <1>1 DEF OrderInv, k, Objects
    <3>2. k <= spawned'
          BY <1>1 DEF Objects
    <3> QED BY <1>2, <3>1, <3>2
  <2> QED BY <1>1, <1>4, <2>1, <2>2, <2>3 DEF OrderInv
<1>8. PlaceInv'
  <2> SUFFICES ASSUME NEW u \in Tasks
               PROVE  /\ pc'[u] \in {"lair", "ready", "admin", "close_admin"} => backend = "local"
                      /\ pc'[u] = "spawn" => backend = "trycp"
                      /\ Starting(u)' => u \in Scripts /\ conductor' = None
                      /\ pc'[u] = "lair" => proc'[mine'[u]].holochain = "none"
      BY <1>1 DEF PlaceInv
  <2>1. CASE u = t
    <3>1. proc'[k].holochain = "none" \/ backend = "trycp"
          BY <1>1, <1>2, <1>5 DEF Processes, ProcessType
    <3> QED BY <1>1, <1>2, <1>3, <2>1, <3>1 DEF Starting
  <2>2. CASE u # t
    <3>1. pc[u] = "lair" => mine[u] \in Objects
          BY DEF MineInv, Waits
    <3> QED BY <1>1, <1>3, <1>4, <1>5, <2>2, <3>1 DEF Starting, PlaceInv
  <2> QED BY <2>1, <2>2
<1>9. LocalInv'
  <2> SUFFICES ASSUME backend = "local" PROVE LocalInv'
      BY <1>1 DEF LocalInv
  <2>1. ASSUME NEW u \in Tasks, Stopping(u)' PROVE u # t /\ proc'[mine'[u]] = proc[mine[u]] /\ Stopping(u)
    <3>1. u # t
          BY <1>2, <1>3, <2>1 DEF Stopping
    <3>2. Stopping(u) /\ mine[u] \in Objects
          BY <1>3, <2>1, <3>1 DEF Stopping, MineInv, Waits
    <3> QED BY <1>3, <1>4, <1>5, <3>1, <3>2
  <2> QED BY <1>1, <1>3, <2>1 DEF LocalInv, Stopping
<1>10. RemoteInv'
  <2> SUFFICES ASSUME backend = "trycp" PROVE RemoteInv'
      BY <1>1 DEF RemoteInv
  <2>1. \A j \in Objects : proc'[j].lair = "none" /\ proc'[j].holochain # "dying"
        BY <1>1, <1>2, <1>4, <1>5 DEF RemoteInv, ProcessType, Processes
  <2>2. \A j \in Objects : Up(j)' => remote' = j
        BY <1>1, <1>2, <1>4, <1>5 DEF RemoteInv, Up, Processes
  <2>3. \A u \in Tasks : pc'[u] = "kill" /\ answer'[u] = "ok" => ~Up(mine[u])'
    <3> SUFFICES ASSUME NEW u \in Tasks, pc'[u] = "kill", answer'[u] = "ok" PROVE ~Up(mine[u])'
        OBVIOUS
    <3>1. u # t /\ pc[u] = "kill" /\ answer[u] = "ok" /\ mine'[u] = mine[u] /\ mine[u] \in Objects
          BY <1>2, <1>3 DEF MineInv, Waits
    <3>2. proc'[mine[u]] = proc[mine[u]] /\ ~Up(mine[u])
          BY <1>4, <1>5, <3>1 DEF RemoteInv
    <3> QED BY <3>1, <3>2 DEF Up
  <2> QED BY <1>1, <2>1, <2>2, <2>3 DEF RemoteInv
<1>11. KeptInv'
  <2> SUFFICES ASSUME NEW j \in Objects, Up(j)' PROVE Kept(j)'
      BY DEF KeptInv
  <2>1. CASE Up(j)
    <3>1. Kept(j)
          BY <2>1 DEF KeptInv
    <3>2. ASSUME NEW u \in Tasks, Answerable(u, j) PROVE Answerable(u, j)'
      <4>1. u # t
            BY <1>6, <3>2 DEF Answerable
      <4> QED BY <1>1, <1>3, <3>2, <4>1 DEF Answerable
    <3> QED BY <1>1, <3>1, <3>2 DEF Kept, Reaches
  <2>2. CASE ~Up(j)
    <3>1. j = k /\ backend = "trycp" /\ label = "spawn"
          BY <1>1, <1>2, <1>4, <1>5, <2>2 DEF Up, Processes, ProcessType
    <3> QED BY <1>1, <1>3, <3>1 DEF Kept, Answerable
  <2> QED BY <2>1, <2>2
<1> QED BY <1>7, <1>8, <1>9, <1>10, <1>11

\* With one script only one task starts conductors.
LEMMA StartsAlone ==
    ASSUME OneScript, PlaceInv, NEW t \in Scripts
    PROVE  \A u \in Tasks : u # t => ~Starting(u)
BY DEF OneScript, PlaceInv

\* lair is ready: holochain is spawned, which its startup answers for.
LEMMA LairKept ==
    ASSUME OneScript, TypeOK, MineInv, PlacesInv, KeptInv, NEW t \in Scripts, LairReady(t)
    PROVE  PlacesInv' /\ KeptInv'
<1> DEFINE k == mine[t]
<1>1. /\ t \in Tasks /\ pc[t] = "lair" /\ backend = "local" /\ conductor = None
      /\ UNCHANGED <<backend, conductor, spawned, remote, awaiting>>
      /\ forsaken \subseteq forsaken'
      /\ proc \in [Objects -> ProcessType] /\ None \notin Objects
    BY DEF LairReady, Tasks, PlacesInv, PlaceInv, Starting, TypeOK, ProcessType, Objects
<1>2. k \in Objects /\ proc[k].holochain = "none" /\ k <= spawned
    BY <1>1, Waiting DEF PlacesInv, PlaceInv, OrderInv, Waits
<1>3. \A u \in Tasks : u # t => ~Starting(u)
    BY StartsAlone DEF PlacesInv
<1>4. CASE Ends(t) /\ UNCHANGED proc
  <2>1. Goes(t, None, "idle", None)
        BY <1>4 DEF Ends
  <2>2. PlacesInv'
        BY <1>1, <1>4, <2>1, QuietPlaces
  <2>3. \A u \in Tasks : u # t => pc'[u] = pc[u] /\ mine'[u] = mine[u] /\ answer'[u] = answer[u]
        BY <1>1, <2>1, GoesStep
  <2>4. KeptInv'
        BY <1>1, <1>4, <2>3, KeptStep DEF Answerable, Up
  <2> QED BY <2>2, <2>4
<1>5. CASE /\ proc' = [proc EXCEPT ![k].holochain = "up"]
           /\ \/ Await(t, "ready", None)
              \/ Ends(t) /\ forsaken' = forsaken \cup {k}
  <2>1. /\ \/ pc'[t] = "ready" /\ mine'[t] = k
           \/ pc'[t] = "idle" /\ mine'[t] = None /\ k \in forsaken'
        /\ \A u \in Tasks : u # t => pc'[u] = pc[u] /\ mine'[u] = mine[u] /\ answer'[u] = answer[u]
        BY <1>1, <1>2, <1>5, GoesStep DEF Await, Ends, Waits
  <2>2. \A j \in Objects : j # k => proc'[j] = proc[j]
        BY <1>1, <1>5
  <2>3. OrderInv'
    <3>1. \A j \in Objects : j > spawned => j # k
          BY <1>2 DEF Objects, TypeOK
    <3>2. \A j \in Objects : j > spawned => \A p \in Processes : proc'[j][p] = "none"
          BY <2>2, <3>1 DEF PlacesInv, OrderInv
    <3> QED BY <1>1, <1>2, <2>1, <3>2 DEF PlacesInv, OrderInv
  <2>4. PlaceInv'
    <3> SUFFICES ASSUME NEW u \in Tasks
                 PROVE  /\ pc'[u] \in {"lair", "ready", "admin", "close_admin"} => backend = "local"
                        /\ pc'[u] = "spawn" => backend = "trycp"
                        /\ Starting(u)' => u \in Scripts /\ conductor' = None
                        /\ pc'[u] = "lair" => proc'[mine'[u]].holochain = "none"
        BY <1>1 DEF PlaceInv
    <3>1. CASE u = t
          BY <1>1, <2>1, <3>1 DEF Starting
    <3>2. CASE u # t
          BY <1>1, <1>3, <2>1, <3>2 DEF PlacesInv, PlaceInv, Starting
    <3> QED BY <3>1, <3>2
  <2>5. LocalInv'
    <3>1. ASSUME NEW u \in Tasks, Stopping(u)'
          PROVE  Stopping(u) /\ u # t /\ proc'[mine'[u]] = proc[mine[u]]
      <4>1. Stopping(u) /\ u # t
            BY <2>1, <3>1 DEF Stopping
      <4>2. mine[u] \in Objects /\ mine[u] # k
            BY <1>1, <1>2, <4>1 DEF Stopping, MineInv, Waits, PlacesInv, LocalInv
      <4> QED BY <2>1, <2>2, <4>1, <4>2
    <3> QED BY <1>1, <2>1, <3>1 DEF PlacesInv, LocalInv, Stopping
  <2>6. RemoteInv'
        BY <1>1 DEF RemoteInv
  <2>7. KeptInv'
    <3> SUFFICES ASSUME NEW j \in Objects, Up(j)' PROVE Kept(j)'
        BY DEF KeptInv
    <3>1. CASE j = k
          BY <1>1, <2>1, <3>1 DEF Kept, Answerable
    <3>2. CASE j # k
      <4>1. Kept(j)
            BY <2>2, <3>2 DEF KeptInv, Up
      <4>2. ASSUME NEW u \in Tasks, Answerable(u, j) PROVE Answerable(u, j)'
            BY <1>1, <2>1, <4>2 DEF Answerable
      <4> QED BY <1>1, <4>1, <4>2 DEF Kept, Reaches
    <3> QED BY <3>1, <3>2
  <2> QED BY <2>3, <2>4, <2>5, <2>6, <2>7 DEF PlacesInv
<1> QED BY <1>4, <1>5 DEF LairReady

\* The conductor is ready: it becomes the player's.  Or it has ended.
LEMMA ReadyKept ==
    ASSUME OneScript, TypeOK, MineInv, PlacesInv, KeptInv, NEW t \in Scripts,
           InterfaceReady(t) \/ InterfaceClosed(t) \/ Spawned(t)
    PROVE  PlacesInv' /\ KeptInv'
<1> DEFINE k == mine[t]
<1>1. /\ t \in Tasks /\ pc[t] \in {"ready", "spawn"} /\ conductor = None
      /\ pc[t] = "ready" => backend = "local"
      /\ pc[t] = "spawn" => backend = "trycp"
      /\ UNCHANGED <<backend, spawned, proc, remote, awaiting>>
      /\ pc[t] = "ready" => forsaken' = forsaken
      /\ None \notin Objects
    BY DEF InterfaceReady, InterfaceClosed, Spawned, Resumes, Tasks, PlacesInv, PlaceInv,
           Starting, world, Objects
<1>2. k \in Objects /\ k <= spawned
    BY <1>1, Waiting DEF PlacesInv, OrderInv, Waits
<1>3. \A u \in Tasks : u # t => ~Starting(u)
    BY StartsAlone DEF PlacesInv
<1>u. \A j \in Objects : Up(j)' => Up(j)
    BY <1>1 DEF Up
<1>4. CASE InterfaceReady(t)
  <2>1. Goes(t, k, "admin", None) /\ conductor' = k /\ proc[k].holochain = "up" /\ pc[t] = "ready"
        BY <1>4 DEF InterfaceReady, Await, Up
  <2>2. PlacesInv'
        BY <1>1, <1>2, <1>3, <2>1, QuietPlaces DEF Waits
  <2>3. \A u \in Tasks : u # t => pc'[u] = pc[u] /\ mine'[u] = mine[u] /\ answer'[u] = answer[u]
        BY <1>1, <1>2, <2>1, GoesStep DEF Waits
  <2>4. \A j \in Objects : Answerable(t, j) => Kept(j)'
        BY <1>1, <1>2, <2>1 DEF Answerable, Kept, Reaches
  <2>5. forsaken' = forsaken /\ \A j \in Objects : ~Reaches(conductor, j)
        BY <1>1, <2>1 DEF Reaches
  <2>6. KeptInv'
        BY <1>1, <1>u, <2>3, <2>4, <2>5, KeptStep
  <2> QED BY <2>2, <2>6
<1>5. CASE InterfaceClosed(t)
  <2>1. /\ Goes(t, None, "idle", None) /\ UNCHANGED conductor /\ proc[k].holochain = "closed"
        /\ pc[t] = "ready"
        BY <1>5 DEF InterfaceClosed, Ends
  <2>2. PlacesInv'
        BY <1>1, <2>1, QuietPlaces
  <2>3. \A u \in Tasks : u # t => pc'[u] = pc[u] /\ mine'[u] = mine[u] /\ answer'[u] = answer[u]
        BY <1>1, <2>1, GoesStep
  <2>4. \A j \in Objects : Up(j)' => ~Answerable(t, j)
        BY <1>1, <2>1 DEF Answerable, Up
  <2>5. forsaken' = forsaken
        BY <1>1, <2>1
  <2>6. KeptInv'
        BY <1>1, <1>u, <2>1, <2>3, <2>4, <2>5, KeptStep
  <2> QED BY <2>2, <2>6
<1>6. CASE Spawned(t)
  <2>1. PICK a \in {"ok", "err", None} : Goes(t, k, "attach", a)
        BY <1>6, AnswersType DEF Spawned, Await
  <2>2. conductor' = k /\ pc[t] = "spawn" /\ backend = "trycp"
        BY <1>1, <1>6 DEF Spawned, Resumes
  <2>3. PlacesInv'
        BY <1>1, <1>2, <1>3, <2>1, <2>2, QuietPlaces DEF Waits
  <2>4. \A u \in Tasks : u # t => pc'[u] = pc[u] /\ mine'[u] = mine[u] /\ answer'[u] = answer[u]
        BY <1>1, <1>2, <2>1, GoesStep DEF Waits
  <2>5. \A j \in Objects : Kept(j)'
        BY <1>1, <1>2, <2>2 DEF Kept, Reaches
  <2> QED BY <2>3, <2>5 DEF KeptInv
<1> QED BY <1>4, <1>5, <1>6

\* The rest of a startup leaves its conductor to the player.
LEMMA ConnectKept ==
    ASSUME TypeOK, MineInv, PlacesInv, KeptInv, NEW t \in Scripts,
           AdminConnected(t) \/ Attached(t) \/ AppConnected(t) \/ StartupFails(t)
    PROVE  PlacesInv' /\ KeptInv'
<1>1. /\ t \in Tasks /\ None \notin Objects
      /\ pc[t] \in {"admin", "attach", "app", "spawn"}
      /\ pc[t] = "spawn" => /\ Serving(mine[t]) \subseteq forsaken'
                            /\ backend = "trycp" /\ backend' = backend
      /\ UNCHANGED <<backend, conductor, spawned, proc, remote, awaiting>>
      /\ forsaken \subseteq forsaken'
    BY DEF PlacesInv, PlaceInv, AdminConnected, Attached, AppConnected, StartupFails, Resumes, Tasks, world, Objects
<1>2. mine[t] \in Objects /\ mine[t] <= spawned
    BY <1>1, Waiting DEF PlacesInv, OrderInv, Waits
<1>3. \/ Goes(t, None, "idle", None)
      \/ \E label \in {"attach", "app"}, a \in {"ok", "err", None} : Goes(t, mine[t], label, a)
    BY AnswersType DEF AdminConnected, Attached, AppConnected, StartupFails, Ends, Await
<1>4. PlacesInv'
    BY <1>1, <1>2, <1>3, QuietPlaces DEF Waits
<1>5. \A u \in Tasks : u # t => pc'[u] = pc[u] /\ mine'[u] = mine[u] /\ answer'[u] = answer[u]
    BY <1>1, <1>2, <1>3, GoesStep DEF Waits
<1>6. \A j \in Objects : Up(j)' => Up(j)
    BY <1>1 DEF Up
<1>7. \A j \in Objects : Up(j)' /\ Answerable(t, j) => Kept(j)'
  <2> SUFFICES ASSUME NEW j \in Objects, Up(j), Answerable(t, j) PROVE j \in forsaken'
      BY <1>6 DEF Kept
  <2>1. pc[t] = "spawn" /\ backend = "trycp"
        BY <1>1 DEF Answerable
  <2>2. j \in Serving(mine[t])
        BY <1>1, <2>1 DEF Serving, Reached, PlacesInv, RemoteInv
  <2> QED BY <1>1, <2>1, <2>2
<1>8. KeptInv'
    BY <1>1, <1>5, <1>6, <1>7, KeptStep
<1> QED BY <1>4, <1>8

\* The steps of a kill: what it closes before its signal, or the signal itself.
LEMMA KillKept ==
    ASSUME TypeOK, PlacesInv, KeptInv, NEW t \in Tasks, NEW k \in Objects,
           UNCHANGED <<backend, spawned, forsaken>>, k <= spawned,
           backend = "local" => proc[k].holochain # "none",
           \/ /\ \E a \in {"ok", "err", None} : Goes(t, k, "close_app", a)
              /\ UNCHANGED <<proc, remote, awaiting>>
           \/ /\ backend = "local"
              /\ Goes(t, k, "close_admin", "ok") /\ UNCHANGED <<proc, remote, awaiting>>
           \/ Terminate(t, k),
           \/ pc[t] = "idle" /\ conductor = k /\ conductor' = None
           \/ pc[t] \in {"close_app", "close_admin"} /\ mine[t] = k /\ conductor' = conductor
    PROVE  PlacesInv' /\ KeptInv'
<1>0. backend \in {"local", "trycp"} /\ None \notin Objects
    BY DEF TypeOK, Objects
<1>1. ASSUME NEW label \in {"close_app", "close_admin"}, NEW a \in {"ok", "err", None},
             Goes(t, k, label, a), UNCHANGED <<proc, remote, awaiting>>,
             label = "close_admin" => backend = "local"
      PROVE  PlacesInv' /\ KeptInv'
  <2>1. PlacesInv'
        BY <1>1, QuietPlaces DEF Waits
  <2>2. /\ pc'[t] = label /\ mine'[t] = k
        /\ \A u \in Tasks : u # t => pc'[u] = pc[u] /\ mine'[u] = mine[u] /\ answer'[u] = answer[u]
        BY <1>1, GoesStep DEF Waits
  <2>3. \A j \in Objects : backend = "trycp" \/ j = k => Kept(j)'
        BY <1>0, <1>1, <2>2 DEF Kept, Answerable
  <2>4. \A j \in Objects : Up(j)' /\ Answerable(t, j) => Kept(j)'
        BY <1>0, <2>3 DEF Answerable
  <2>5. conductor' # conductor => \A j \in Objects : Reaches(conductor, j) => Kept(j)'
        BY <2>3 DEF Reaches
  <2>6. \A j \in Objects : Up(j)' => Up(j)
        BY <1>1 DEF Up
  <2>7. KeptInv'
        BY <2>2, <2>4, <2>5, <2>6, KeptStep
  <2> QED BY <2>1, <2>7
<1>2. CASE Terminate(t, k)
  <2>1. /\ PlacesInv'
        /\ \A j \in Objects : Up(j)' => Up(j)
        /\ \A j \in Objects : Up(j)' => IF backend = "local" THEN j # k
                                        ELSE pc'[t] = "kill" /\ answer'[t] # "ok"
        /\ \A u \in Tasks : u # t => pc'[u] = pc[u] /\ mine'[u] = mine[u] /\ answer'[u] = answer[u]
        BY <1>2, TerminatePlaces
  <2>2. \A j \in Objects : Up(j)' /\ backend = "trycp" => Kept(j)'
        BY <2>1 DEF Kept, Answerable
  <2>3. \A j \in Objects : Up(j)' /\ Answerable(t, j) => Kept(j)'
        BY <1>0, <2>1, <2>2 DEF Answerable
  <2>4. conductor' # conductor => \A j \in Objects : Up(j)' /\ Reaches(conductor, j) => Kept(j)'
        BY <1>0, <2>1, <2>2 DEF Reaches
  <2>5. KeptInv'
        BY <2>1, <2>3, <2>4, KeptStep
  <2> QED BY <2>1, <2>5
<1> QED BY <1>1, <1>2

\* The steps that stop a player forget nothing that runs.
LEMMA StopKept ==
    ASSUME TypeOK, MineInv, PlacesInv, KeptInv, NEW t \in Scripts \cup Timers,
           Shutdown(t) \/ Cleanup(t) \/ Killing(t)
    PROVE  PlacesInv' /\ KeptInv'
<1>0. t \in Tasks /\ None \notin Objects /\ object \in [Objects -> ObjectType]
      /\ conductor \in Objects \cup {None}
    BY DEF Tasks, Objects, TypeOK, ObjectType
<1>1. CASE Shutdown(t) \/ Cleanup(t)
  <2> DEFINE k == conductor
  <2>1. /\ k \in Objects /\ pc[t] = "idle" /\ conductor' = None
        /\ UNCHANGED <<backend, spawned, forsaken>>
        BY <1>0, <1>1 DEF Shutdown, Cleanup
  <2>2. k <= spawned /\ (backend = "local" => proc[k].holochain # "none")
        BY <1>0, <2>1 DEF PlacesInv, OrderInv, LocalInv
  <2>3. \E obj \in [Objects -> ObjectType] : Kill(t, k, obj)
    <3>1. CASE Shutdown(t)
          BY <1>0, <3>1 DEF Shutdown
    <3>2. CASE Cleanup(t)
      <4>1. Kill(t, k, [object EXCEPT ![k].on_signal = None])
            BY <3>2 DEF Cleanup
      <4> HIDE DEF k
      <4>2. [object EXCEPT ![k].on_signal = None] \in [Objects -> ObjectType]
            BY <1>0, <2>1 DEF ObjectType
      <4> QED BY <4>1, <4>2
    <3> QED BY <1>1, <3>1, <3>2
  <2>4. \/ /\ \E a \in {"ok", "err", None} : Goes(t, k, "close_app", a)
           /\ UNCHANGED <<proc, remote, awaiting>>
        \/ /\ backend = "local"
           /\ Goes(t, k, "close_admin", "ok") /\ UNCHANGED <<proc, remote, awaiting>>
        \/ Terminate(t, k)
        BY <1>0, <2>1, <2>3, KillStep
  <2> QED BY <1>0, <2>1, <2>2, <2>4, KillKept
<1>2. CASE AppClosed(t) \/ AdminCloses(t)
  <2> DEFINE k == mine[t]
  <2>1. /\ pc[t] \in {"close_app", "close_admin"} /\ conductor' = conductor
        /\ UNCHANGED <<backend, spawned, forsaken>>
        BY <1>2 DEF AppClosed, AdminCloses, Resumes
  <2>2. k \in Objects
        BY <1>0, <2>1, Waiting DEF Waits
  <2>3. k <= spawned /\ (backend = "local" => proc[k].holochain # "none")
        BY <1>0, <2>1, <2>2 DEF PlacesInv, OrderInv, LocalInv, Stopping
  <2>4. \/ /\ backend = "local"
           /\ Goes(t, k, "close_admin", "ok") /\ UNCHANGED <<proc, remote, awaiting>>
        \/ Terminate(t, k)
        BY <1>0, <1>2, <2>2, CloseAdminStep DEF AppClosed, AdminCloses
  <2> QED BY <1>0, <2>1, <2>2, <2>3, <2>4, KillKept
<1>3. CASE KillReturns(t) \/ KillFails(t)
  <2>1. /\ Goes(t, None, "idle", None)
        /\ UNCHANGED <<backend, conductor, spawned, proc, remote, awaiting>>
        /\ forsaken \subseteq forsaken'
        BY <1>3 DEF KillReturns, KillFails, Ends
  <2>2. PlacesInv'
        BY <1>0, <2>1, QuietPlaces
  <2>3. \A u \in Tasks : u # t => pc'[u] = pc[u] /\ mine'[u] = mine[u] /\ answer'[u] = answer[u]
        BY <1>0, <2>1, GoesStep
  <2>4. \A j \in Objects : Up(j)' => Up(j)
        BY <2>1 DEF Up
  <2>5. \A j \in Objects : Up(j)' /\ Answerable(t, j) => Kept(j)'
    <3>1. CASE KillReturns(t)
          BY <3>1 DEF KillReturns, Resumes, Answerable
    <3>2. CASE KillFails(t)
      <4>1. Serving(mine[t]) \subseteq forsaken'
            BY <3>2 DEF KillFails
      <4>2. \A j \in Objects : Up(j)' /\ Answerable(t, j) => j \in Serving(mine[t])
            BY <1>0, <2>4 DEF Answerable, Serving, Reached, PlacesInv, RemoteInv, TypeOK
      <4> QED BY <4>1, <4>2 DEF Kept
    <3> QED BY <1>3, <3>1, <3>2
  <2>6. KeptInv'
        BY <1>0, <2>1, <2>3, <2>4, <2>5, KeptStep
  <2> QED BY <2>2, <2>6
<1> QED BY <1>1, <1>2, <1>3 DEF Killing

\* A process that ends is not up, and closed where it was awaited.
LEMMA ProcessKept ==
    ASSUME TypeOK, MineInv, PlacesInv, KeptInv, NEW k \in Objects, NEW p \in Processes,
           ProcessCloses(k, p) \/ Crash(k, p)
    PROVE  PlacesInv' /\ KeptInv'
<1>1. /\ proc[k][p] \in {"dying", "up"} /\ proc' = [proc EXCEPT ![k][p] = "closed"]
      /\ UNCHANGED <<backend, conductor, spawned, remote, tasks, forsaken>>
      /\ proc \in [Objects -> ProcessType] /\ None \notin Objects
    BY DEF ProcessCloses, Crash, TypeOK, ProcessType, Objects
<1>2. \A j \in Objects, q \in Processes :
        proc'[j][q] = IF j = k /\ q = p THEN "closed" ELSE proc[j][q]
    BY <1>1 DEF ProcessType
<1>3. /\ k <= spawned
      /\ \A j \in Objects : Up(j)' => Up(j)
  <2>1. ~(k > spawned)
        BY <1>1 DEF PlacesInv, OrderInv
  <2>2. k <= spawned
        BY <2>1 DEF Objects, TypeOK
  <2> QED BY <1>2, <2>2 DEF Up, Processes
<1>4. OrderInv'
    BY <1>1, <1>2, <1>3 DEF PlacesInv, OrderInv, tasks, Objects, TypeOK
<1>5. PlaceInv'
  <2>1. ASSUME NEW u \in Tasks, pc[u] = "lair" PROVE proc'[mine[u]].holochain = "none"
    <3>1. mine[u] \in Objects /\ proc[mine[u]].holochain = "none"
          BY <2>1, Waiting DEF PlacesInv, PlaceInv, Waits
    <3> QED BY <1>1, <1>2, <3>1 DEF Processes
  <2> QED BY <1>1, <2>1 DEF PlacesInv, PlaceInv, Starting, tasks
<1>6. LocalInv'
  <2> SUFFICES ASSUME backend = "local" PROVE LocalInv'
      BY <1>1 DEF LocalInv
  <2>1. \A j \in Objects : proc[j].holochain # "none" => proc'[j].holochain # "none"
        BY <1>2 DEF Processes
  <2>2. ASSUME NEW u \in Tasks, Stopping(u)
        PROVE  mine[u] \in Objects /\ proc'[mine[u]].holochain # "none"
    <3>1. mine[u] \in Objects
          BY <2>2, Waiting DEF Stopping, Waits
    <3> QED BY <2>1, <2>2, <3>1 DEF PlacesInv, LocalInv
  <2>3. ASSUME NEW u \in Tasks, pc[u] = "kill", NEW q \in Processes
        PROVE  /\ proc'[mine[u]][q] # "up"
               /\ proc'[mine[u]][q] = "dying" => q \in awaiting'[u]
    <3>1. mine[u] \in Objects
          BY <2>2, <2>3 DEF Stopping
    <3>2. /\ proc[mine[u]][q] # "up"
          /\ proc[mine[u]][q] = "dying" => q \in awaiting[u]
          BY <2>3 DEF PlacesInv, LocalInv
    <3>3. proc'[mine[u]][q] = "dying" => proc[mine[u]][q] = "dying" /\ ~(mine[u] = k /\ q = p)
          BY <1>2, <3>1
    <3>4. q \in awaiting[u] /\ ~(mine[u] = k /\ q = p) => q \in awaiting'[u]
          BY DEF ProcessCloses, Crash
    <3> QED BY <1>2, <3>1, <3>2, <3>3, <3>4
  <2>4. conductor # None => proc'[conductor].holochain # "none"
        BY <2>1 DEF PlacesInv, LocalInv, TypeOK
  <2> QED BY <1>1, <2>2, <2>3, <2>4 DEF LocalInv, Stopping, tasks
<1>7. RemoteInv'
  <2> SUFFICES ASSUME backend = "trycp" PROVE RemoteInv'
      BY <1>1 DEF RemoteInv
  <2>1. \A j \in Objects : /\ proc[j].lair = "none" /\ proc[j].holochain # "dying"
                           /\ Up(j) => remote = j
        BY DEF PlacesInv, RemoteInv
  <2>2. p = "holochain"
        BY <1>1, <2>1 DEF Processes
  <2>3. \A j \in Objects : proc'[j].lair = "none" /\ proc'[j].holochain # "dying"
        BY <1>2, <2>1, <2>2 DEF Processes
  <2>4. ASSUME NEW u \in Tasks, pc[u] = "kill", answer[u] = "ok", Up(mine[u])'
        PROVE  FALSE
    <3>1. mine[u] \in Objects /\ mine'[u] = mine[u]
          BY <1>1, <2>4, Waiting DEF Waits, tasks
    <3>2. Up(mine[u])
          BY <1>3, <2>4, <3>1 DEF Up
    <3> QED BY <2>4, <3>2 DEF PlacesInv, RemoteInv
  <2> QED BY <1>1, <1>3, <2>1, <2>3, <2>4 DEF RemoteInv, tasks
<1>8. KeptInv'
    BY <1>1, <1>3 DEF KeptInv, Kept, Answerable, Reaches, tasks
<1> QED BY <1>4, <1>5, <1>6, <1>7, <1>8 DEF PlacesInv

\* An installation changes no conductor.
LEMMA InstallKept ==
    ASSUME TypeOK, MineInv, PlacesInv, KeptInv, NEW t \in Helpers,
           Install(t) \/ InstallStep(t) \/ InstallEnds(t)
    PROVE  PlacesInv' /\ KeptInv'
<1>1. /\ t \in Tasks /\ None \notin Objects
      /\ UNCHANGED <<backend, conductor, spawned, proc, remote, awaiting, forsaken>>
    BY InstallEffect DEF Tasks, Objects, world
<1>2. /\ PlacesInv'
      /\ \A u \in Tasks : u # t => pc'[u] = pc[u] /\ mine'[u] = mine[u] /\ answer'[u] = answer[u]
  <2>1. CASE Goes(t, None, "idle", None)
        BY <1>1, <2>1, QuietPlaces, GoesStep
  <2>2. CASE \E k \in Objects \cap {conductor, mine[t]}, a \in {"ok", "err", None},
                label \in {"key", "save", "register", "install", "enable"} : Goes(t, k, label, a)
    <3>1. PICK k \in Objects \cap {conductor, mine[t]}, a \in {"ok", "err", None},
               label \in {"key", "save", "register", "install", "enable"} : Goes(t, k, label, a)
          BY <2>2
    <3>2. k <= spawned
          BY <1>1, <3>1 DEF PlacesInv, OrderInv
    <3> QED BY <1>1, <3>1, <3>2, QuietPlaces, GoesStep DEF Waits
  <2> QED BY <2>1, <2>2, InstallEffect
<1>3. \A j \in Objects : (Up(j)' => Up(j)) /\ ~Answerable(t, j)
    BY <1>1, InstallEffect DEF Up, Answerable
<1>4. KeptInv'
    BY <1>1, <1>2, <1>3, KeptStep
<1> QED BY <1>2, <1>4

\* A reset of the server stops the conductor it keeps.
LEMMA ResetKept ==
    ASSUME TypeOK, MineInv, PlacesInv, KeptInv, NEW t \in Timers, Reset(t)
    PROVE  PlacesInv' /\ KeptInv'
<1>1. /\ UNCHANGED <<backend, conductor, spawned, tasks, awaiting, forsaken>>
      /\ ServerStops \/ UNCHANGED <<proc, remote>>
      /\ proc \in [Objects -> ProcessType] /\ remote \in Objects \cup {None}
      /\ None \notin Objects /\ backend = "trycp"
    BY DEF Reset, TypeOK, ProcessType, Objects
<1>2. \A j \in Objects : Up(j) => remote = j
    BY <1>1 DEF PlacesInv, RemoteInv
<1>3. CASE UNCHANGED <<proc, remote>>
    BY <1>1, <1>3 DEF tasks, PlacesInv, OrderInv, PlaceInv, LocalInv, RemoteInv, KeptInv,
                      Kept, Answerable, Reaches, Starting, Stopping, Up
<1>4. CASE ServerStops /\ remote = None
    BY <1>1, <1>3, <1>4 DEF ServerStops
<1>5. CASE ServerStops /\ remote # None
  <2>1. remote' = None
        /\ \A j \in Objects, p \in Processes :
              proc'[j][p] = IF j = remote /\ p = "holochain" THEN "closed" ELSE proc[j][p]
        BY <1>1, <1>5 DEF ServerStops, ProcessType
  <2>2. \A j \in Objects : ~Up(j)'
        BY <1>2, <2>1 DEF Up, Processes
  <2>3. OrderInv'
    <3>1. \A j \in Objects : j > spawned => j # remote
          BY <1>1 DEF PlacesInv, OrderInv, Objects, TypeOK
    <3> QED BY <1>1, <2>1, <3>1 DEF PlacesInv, OrderInv, tasks
  <2>4. PlaceInv' /\ LocalInv'
    <3>1. /\ PlaceInv /\ pc' = pc /\ mine' = mine /\ conductor' = conductor
          /\ backend' = "trycp" /\ backend = "trycp"
          BY <1>1 DEF PlacesInv, tasks
    <3>2. \A u \in Tasks : pc[u] # "lair"
          BY <3>1 DEF PlaceInv
    <3>3. PlaceInv'
          BY <3>1, <3>2 DEF PlaceInv, Starting
    <3> QED BY <3>1, <3>3 DEF LocalInv
  <2>5. \A j \in Objects : proc'[j].lair = "none" /\ proc'[j].holochain # "dying"
        BY <1>1, <2>1 DEF PlacesInv, RemoteInv, Processes
  <2>6. \A u \in Tasks : ~Up(mine[u])'
        BY <1>1, <2>2 DEF tasks, Up, TypeOK
  <2> QED BY <2>2, <2>3, <2>4, <2>5, <2>6 DEF PlacesInv, RemoteInv, KeptInv
<1> QED BY <1>1, <1>3, <1>4, <1>5

\* Every step keeps the places, and what is kept.
LEMMA PlacesStep ==
    OneScript /\ (TypeOK /\ HandlerInv /\ PlacesInv /\ KeptInv) /\ [Next]_vars
        => PlacesInv' /\ KeptInv'
<1> SUFFICES ASSUME OneScript, TypeOK, HandlerInv, PlacesInv, KeptInv, [Next]_vars
             PROVE  PlacesInv' /\ KeptInv'
    OBVIOUS
<1>0. MineInv
    BY DEF HandlerInv
<1>1. ASSUME UNCHANGED <<backend, conductor, spawned, proc, remote, forsaken, tasks, awaiting>>
      PROVE  PlacesInv' /\ KeptInv'
    BY <1>1 DEF tasks, PlacesInv, OrderInv, PlaceInv, LocalInv, RemoteInv, KeptInv,
                Kept, Answerable, Reaches, Starting, Stopping, Up
<1>2. CASE UNCHANGED vars
    BY <1>1, <1>2 DEF vars, world
<1>3. ASSUME NEW t \in Scripts,
             \/ Startup(t) \/ LairReady(t) \/ InterfaceReady(t) \/ InterfaceClosed(t)
             \/ AdminConnected(t) \/ Connecting(t)
      PROVE  PlacesInv' /\ KeptInv'
    BY <1>0, <1>3, StartupKept, LairKept, ReadyKept, ConnectKept DEF Connecting
<1>4. ASSUME NEW t \in Tasks, CleanupIdle(t) \/ \E h \in {"handler", None} : SetSignalHandler(t, h)
      PROVE  PlacesInv' /\ KeptInv'
    BY <1>1, <1>4 DEF CleanupIdle, SetSignalHandler, world
<1>5. ASSUME NEW t \in Scripts \cup Timers, Shutdown(t) \/ Cleanup(t) \/ Killing(t)
      PROVE  PlacesInv' /\ KeptInv'
    BY <1>0, <1>5, StopKept
<1>6. ASSUME NEW t \in Helpers, Install(t) \/ InstallStep(t) \/ InstallEnds(t)
      PROVE  PlacesInv' /\ KeptInv'
    BY <1>0, <1>6, InstallKept
<1>7. ASSUME NEW k \in Objects, NEW p \in Processes, ProcessCloses(k, p) \/ Crash(k, p)
      PROVE  PlacesInv' /\ KeptInv'
    BY <1>0, <1>7, ProcessKept
<1>8. ASSUME NEW t \in Timers, Reset(t) PROVE PlacesInv' /\ KeptInv'
    BY <1>0, <1>8, ResetKept
<1>9. CASE SessionCloses
    BY <1>1, <1>9 DEF SessionCloses
<1>10. Scripts \cup Timers \subseteq Tasks
    BY DEF Tasks
<1> QED BY <1>2, <1>3, <1>4, <1>5, <1>6, <1>7, <1>8, <1>9, <1>10 DEF Next

StopInv == TypeOK /\ HandlerInv /\ PlacesInv /\ KeptInv

\* They hold in every reachable state, with one script.
LEMMA StopInductive == OneScript => (Spec => []StopInv)
<1> SUFFICES ASSUME OneScript PROVE Spec => []StopInv
    OBVIOUS
<1>1. Init => StopInv
    BY InitHandler, InitKept DEF StopInv
<1>2. StopInv /\ [Next]_vars => StopInv'
    BY HandlerStep, PlacesStep DEF StopInv
<1> QED BY <1>1, <1>2, PTL DEF Spec

\* A player that one task starts, however many install on it or clean it up, never forgets
\* a conductor that runs: each is the player's, about to be, being stopped, or was left by
\* a startup or kill that was rejected and has not been adopted since.
THEOREM NoneForgotten == OneScript => (Spec => []NoForgottenConductor)
<1> SUFFICES ASSUME OneScript PROVE Spec => []NoForgottenConductor
    OBVIOUS
<1>1. StopInv => NoForgottenConductor
  <2> SUFFICES ASSUME StopInv, NEW j \in Objects, Up(j)
               PROVE  \/ j \in forsaken
                      \/ \E k \in Objects :
                            /\ Reaches(k, j)
                            /\ conductor = k \/ \E t \in Tasks : Holds(t, k)
      BY DEF NoForgottenConductor
  <2>1. CASE j \in forsaken \/ \E k \in Objects : Reaches(k, j) /\ conductor = k
        BY <2>1
  <2>2. CASE \E t \in Tasks : Answerable(t, j)
    <3>1. PICK t \in Tasks : Answerable(t, j)
          BY <2>2
    <3>2. pc[t] \in {"ready", "spawn", "close_app", "close_admin", "kill"}
          BY <3>1 DEF Answerable
    <3>3. mine[t] \in Objects
          BY <3>2 DEF StopInv, HandlerInv, MineInv
    <3>4. Reaches(mine[t], j)
          BY <3>1 DEF Answerable, Reaches, StopInv, TypeOK
    <3> QED BY <3>2, <3>3, <3>4 DEF Holds
  <2> QED BY <2>1, <2>2 DEF StopInv, KeptInv, Kept
<1> QED BY <1>1, StopInductive, PTL

\* Only the steps that end a kill take a task from its await.
LEMMA KillEnds ==
    ASSUME TypeOK, MineInv, Next, NEW t \in Tasks, pc[t] = "kill", pc'[t] = "idle"
    PROVE  KillReturns(t) \/ KillFails(t)
<1>0. /\ pc \in [Tasks -> Waits \cup {"idle"}] /\ pc' # pc
      /\ Scripts \cup Timers \subseteq Tasks /\ Helpers \subseteq Tasks
      /\ conductor \in Objects \cup {None} /\ object \in [Objects -> ObjectType]
    BY DEF TypeOK, Tasks, ObjectType
<1>1. ASSUME NEW u \in Tasks, NEW k, NEW label, NEW a, Goes(u, k, label, a) PROVE u = t
    BY <1>0, <1>1 DEF Goes
<1>2. ASSUME NEW u \in Scripts,
             \/ Startup(u) \/ LairReady(u) \/ InterfaceReady(u) \/ InterfaceClosed(u)
             \/ AdminConnected(u) \/ Connecting(u)
      PROVE  FALSE
  <2>1. pc[u] # "kill"
        BY <1>2 DEF Startup, LairReady, InterfaceReady, InterfaceClosed, AdminConnected,
                    Connecting, Spawned, Attached, AppConnected, StartupFails, Resumes
  <2>2. \E k, label, a : Goes(u, k, label, a)
    <3>1. CASE Startup(u)
          BY <3>1 DEF Startup
    <3>2. CASE LairReady(u) \/ InterfaceReady(u) \/ InterfaceClosed(u) \/ AdminConnected(u)
          BY <3>2 DEF LairReady, InterfaceReady, InterfaceClosed, AdminConnected, Ends, Await
    <3>3. CASE Connecting(u)
          BY <3>3 DEF Connecting, Spawned, Attached, AppConnected, StartupFails, Ends, Await
    <3> QED BY <1>2, <3>1, <3>2, <3>3
  <2> QED BY <1>0, <1>1, <2>1, <2>2
<1>3. ASSUME NEW u \in Scripts \cup Timers, Shutdown(u) \/ Cleanup(u) PROVE FALSE
  <2>1. pc[u] = "idle" /\ conductor \in Objects
        BY <1>0, <1>3 DEF Shutdown, Cleanup
  <2>2. \E obj \in [Objects -> ObjectType] : Kill(u, conductor, obj)
    <3>1. CASE Shutdown(u)
          BY <1>0, <3>1 DEF Shutdown
    <3>2. CASE Cleanup(u)
      <4>1. Kill(u, conductor, [object EXCEPT ![conductor].on_signal = None])
            BY <3>2 DEF Cleanup
      <4> DEFINE k == conductor
      <4> HIDE DEF k
      <4>2. [object EXCEPT ![k].on_signal = None] \in [Objects -> ObjectType]
            BY <1>0, <2>1 DEF ObjectType
      <4> QED BY <4>1, <4>2 DEF k
    <3> QED BY <1>3, <3>1, <3>2
  <2>3. \/ \E k, label, a : Goes(u, k, label, a)
        \/ Terminate(u, conductor)
        BY <1>0, <2>1, <2>2, KillStep
  <2> QED BY <1>0, <1>1, <2>1, <2>3, TerminateStep
<1>4. ASSUME NEW u \in Scripts \cup Timers, AppClosed(u) \/ AdminCloses(u) PROVE FALSE
  <2>1. pc[u] \in {"close_app", "close_admin"}
        BY <1>4 DEF AppClosed, AdminCloses, Resumes
  <2>2. mine[u] \in Objects
        BY <1>0, <2>1, Waiting DEF Waits
  <2>3. \/ \E k, label, a : Goes(u, k, label, a)
        \/ Terminate(u, mine[u])
        BY <1>0, <1>4, <2>2, CloseAdminStep DEF AppClosed, AdminCloses
  <2> QED BY <1>0, <1>1, <2>1, <2>2, <2>3, TerminateStep
<1>5. ASSUME NEW u \in Scripts \cup Timers, KillReturns(u) \/ KillFails(u) PROVE u = t
    BY <1>0, <1>1, <1>5 DEF KillReturns, KillFails, Ends
<1>6. ASSUME NEW u \in Helpers, Install(u) \/ InstallStep(u) \/ InstallEnds(u) PROVE FALSE
  <2>1. pc[u] # "kill" /\ \E k, label, a : Goes(u, k, label, a)
        BY <1>0, <1>6, InstallEffect
  <2> QED BY <1>0, <1>1, <2>1
<1>7. ASSUME NEW u \in Tasks, CleanupIdle(u) \/ \E h \in {"handler", None} : SetSignalHandler(u, h)
      PROVE  FALSE
    BY <1>0, <1>7 DEF CleanupIdle, SetSignalHandler, tasks
<1>8. ASSUME NEW k \in Objects, NEW p \in Processes, ProcessCloses(k, p) \/ Crash(k, p)
      PROVE  FALSE
    BY <1>0, <1>8 DEF ProcessCloses, Crash, tasks
<1>9. ASSUME (\E u \in Timers : Reset(u)) \/ SessionCloses PROVE FALSE
    BY <1>0, <1>9 DEF Reset, SessionCloses, tasks
<1> QED BY <1>0, <1>2, <1>3, <1>4, <1>5, <1>6, <1>7, <1>8, <1>9 DEF Next, Killing

\* A shutdown that resolves has stopped both processes of a local conductor, and the
\* conductor that a trycp server keeps for the player.
THEOREM ShutdownHasStopped == OneScript => (Spec => ShutdownStops)
<1> SUFFICES ASSUME OneScript PROVE Spec => ShutdownStops
    OBVIOUS
<1> DEFINE Stops == \A t \in Tasks :
              (pc[t] = "kill" /\ pc'[t] = "idle" /\ mine[t] \notin given_up')
                  => \A p \in Processes : proc'[mine[t]][p] \notin {"up", "dying"}
<1>1. StopInv /\ [Next]_vars => [Stops]_vars
  <2> SUFFICES ASSUME StopInv, Next, NEW t \in Tasks, pc[t] = "kill", pc'[t] = "idle",
                      mine[t] \notin given_up', NEW p \in Processes
               PROVE  proc'[mine[t]][p] \notin {"up", "dying"}
      BY DEF vars
  <2>1. MineInv /\ TypeOK /\ LocalInv /\ RemoteInv /\ backend \in {"local", "trycp"}
        BY DEF StopInv, HandlerInv, PlacesInv, TypeOK
  <2>2. mine[t] \in Objects
        BY <2>1, Waiting DEF Waits
  <2>3. KillReturns(t)
        BY <2>1, KillEnds DEF KillFails
  <2>4. proc' = proc /\ answer[t] = "ok" /\ awaiting[t] = {}
        BY <2>3 DEF KillReturns, Resumes
  <2>5. CASE backend = "local"
        BY <2>1, <2>4, <2>5 DEF LocalInv
  <2>6. CASE backend = "trycp"
    <3>1. mine[t] # None /\ ~Up(mine[t])
          BY <2>1, <2>2, <2>4, <2>6 DEF RemoteInv, Objects
    <3>2. /\ proc[mine[t]].lair = "none"
          /\ proc[mine[t]].holochain \notin {"up", "dying"}
          BY <2>1, <2>2, <2>6, <3>1 DEF RemoteInv, Up
    <3> QED BY <2>4, <3>2 DEF Processes
  <2> QED BY <2>1, <2>5, <2>6
<1> QED BY <1>1, StopInductive, PTL DEF ShutdownStops, Spec

-----------------------------------------------------------------------------
\* Where the requests of tasks stand in the queue of a trycp server.
Queued(t) == \E i \in 1 .. Len(queue) : queue[i] = t
Before(t, u) == \E i, j \in 1 .. Len(queue) : i < j /\ queue[i] = t /\ queue[j] = u

\* A task that goes on leaves the others in their order, and is behind them if it asks again.
LEMMA GoesQueue ==
    ASSUME TypeOK, NEW t \in Tasks, NEW k, NEW label, NEW a, Goes(t, k, label, a)
    PROVE  /\ \A u \in Tasks \ {t} : Queued(u) => Queued(u)'
           /\ \A u, v \in Tasks \ {t} : Before(u, v) => Before(u, v)'
           /\ backend = "trycp" /\ label \in Requests
                => \A u \in Tasks \ {t} : Queued(u) => Before(u, t)'
<1> DEFINE others == IF queue # <<>> /\ Head(queue) = t THEN Tail(queue) ELSE queue
           new == IF backend = "trycp" /\ label \in Requests THEN Append(others, t) ELSE others
           Moved(i) == IF queue # <<>> /\ Head(queue) = t THEN i - 1 ELSE i
<1>1. queue' = new /\ queue \in Seq(Tasks)
    BY DEF Goes, TypeOK
<1>2. /\ others \in Seq(Tasks)
      /\ \A i \in 1 .. Len(queue) : queue[i] # t =>
            Moved(i) \in 1 .. Len(others) /\ others[Moved(i)] = queue[i]
    BY <1>1
<1>3. /\ new \in Seq(Tasks) /\ Len(new) >= Len(others)
      /\ \A i \in 1 .. Len(others) : new[i] = others[i]
      /\ backend = "trycp" /\ label \in Requests =>
            Len(new) = Len(others) + 1 /\ new[Len(new)] = t
    BY <1>2
<1>4. \A i, j \in 1 .. Len(queue) : i < j => Moved(i) < Moved(j)
    BY <1>1
<1>5. \A i \in 1 .. Len(queue) : queue[i] # t =>
            /\ Moved(i) \in 1 .. Len(new) /\ new[Moved(i)] = queue[i]
            /\ backend = "trycp" /\ label \in Requests => Moved(i) < Len(new)
    BY <1>1, <1>2, <1>3
<1>6. Len(new) \in Nat
    BY <1>3
<1> HIDE DEF others, new, Moved
<1>7. ASSUME NEW u \in Tasks \ {t}, Queued(u)
      PROVE  Queued(u)' /\ (backend = "trycp" /\ label \in Requests => Before(u, t)')
  <2>1. PICK i \in 1 .. Len(queue) : queue[i] = u
        BY <1>7 DEF Queued
  <2>2. Moved(i) \in 1 .. Len(new) /\ new[Moved(i)] = u
        BY <1>5, <2>1
  <2>3. backend = "trycp" /\ label \in Requests =>
            Moved(i) < Len(new) /\ Len(new) \in 1 .. Len(new) /\ new[Len(new)] = t
        BY <1>3, <1>5, <1>6, <2>1, <2>2
  <2> QED BY <1>1, <2>2, <2>3 DEF Queued, Before
<1>8. ASSUME NEW u \in Tasks \ {t}, NEW v \in Tasks \ {t}, Before(u, v) PROVE Before(u, v)'
  <2>1. PICK i \in 1 .. Len(queue), j \in 1 .. Len(queue) : i < j /\ queue[i] = u /\ queue[j] = v
        BY <1>8 DEF Before
  <2>2. /\ Moved(i) \in 1 .. Len(new) /\ new[Moved(i)] = u
        /\ Moved(j) \in 1 .. Len(new) /\ new[Moved(j)] = v
        /\ Moved(i) < Moved(j)
        BY <1>4, <1>5, <2>1
  <2> QED BY <1>1, <2>2 DEF Before
<1> QED BY <1>7, <1>8

\* What a task asks a trycp server for is in the queue.
LEMMA AskedQueued ==
    ASSUME TypeOK, NEW t \in Tasks, NEW k, NEW label \in Requests, NEW a, Goes(t, k, label, a),
           backend = "trycp"
    PROVE  Queued(t)'
<1> DEFINE others == IF queue # <<>> /\ Head(queue) = t THEN Tail(queue) ELSE queue
<1>1. others \in Seq(Tasks)
    BY DEF TypeOK
<1>2. queue' = Append(others, t)
    BY DEF Goes
<1> HIDE DEF others
<1>3. Len(queue') \in 1 .. Len(queue') /\ queue'[Len(queue')] = t
    BY <1>1, <1>2
<1> QED BY <1>3 DEF Queued

\* What is behind another request is not answered yet.
LEMMA NotInTurn ==
    ASSUME TypeOK, NEW t \in Tasks, NEW u \in Tasks, Before(t, u)
    PROVE  ~InTurn(u)
BY DEF Before, InTurn, TypeOK

-----------------------------------------------------------------------------
Installing(t) == t \in Helpers /\ pc[t] # "idle"

\* The object is the player's, or its app client is being closed.
Live(k) == conductor = k \/ \E t \in Tasks : pc[t] = "close_app" /\ mine[t] = k

\* An app client comes at the end of a startup.
ClientInv ==
    /\ \A k \in Objects : k > spawned => ~object[k].app_client
    /\ \A t \in Tasks : /\ pc[t] = "spawn" => ~object[mine[t]].app_client
                        /\ pc[t] \in {"attach", "app"} => t \in Scripts

\* The server keeps a conductor for the player, or will keep none any more.
Occupied == remote # None \/ session # "open"

\* While the player's conductor has an app client, or is about to, the server keeps one,
\* unless it was reset.
ReachInv ==
    /\ session # "open" => remote = None
    /\ conductor # None /\ object[conductor].app_client => Occupied
    /\ \A t \in Tasks : pc[t] = "app" /\ answer[t] = "ok" /\ conductor = mine[t] => Occupied

\* While one task waits for its app client to be closed the server keeps its conductor
\* unless it is reset: no other stops it, and the next startup is answered later.
ClosingInv ==
    \A t \in Tasks : pc[t] = "close_app" =>
        /\ Occupied /\ conductor = None /\ Queued(t)
        /\ \A u \in Tasks : pc[u] = "close_app" => u = t
        /\ \A u \in Tasks : pc[u] = "spawn" => Before(t, u)

\* One conductor served an installation: with a trycp server the one it keeps, as long as
\* the object of the installation has its admin client.
ServedInv ==
    /\ \A t \in Tasks : t \notin Helpers => served[t] = {}
    /\ \A t \in Tasks : Installing(t) /\ mine[t] \notin given_up =>
        IF backend = "local" THEN served[t] \subseteq {mine[t]}
        ELSE /\ \E j \in Objects : served[t] \subseteq {j}
             /\ object[mine[t]].admin_client =>
                    Live(mine[t]) /\ (session = "open" => served[t] \subseteq {remote})

\* The server goes on with the conductor it keeps, or is reset.
SameServer == session' = "open" => session = "open" /\ remote' = remote

ServingInv == ServedInv /\ (backend = "trycp" => ClientInv /\ ReachInv /\ ClosingInv)

\* At the start nothing is installed.
LEMMA InitServing == Init => ServingInv
<1> SUFFICES ASSUME Init PROVE ServingInv
    OBVIOUS
<1>1. /\ conductor = None /\ \A k \in Objects : ~object[k].app_client
      /\ \A t \in Tasks : pc[t] = "idle" /\ served[t] = {}
      /\ session = "open"
    BY DEF Init, NewObject
<1> QED BY <1>1 DEF ServingInv, ServedInv, ClientInv, ReachInv, ClosingInv, Installing

\* A step of others than an installation, which leaves the object of each where its
\* conductor is, or takes its admin client.
LEMMA ServedStep ==
    ASSUME TypeOK, MineInv, ServedInv, UNCHANGED <<backend, served>>, given_up \subseteq given_up',
           \A h \in Helpers : pc'[h] = pc[h] /\ mine'[h] = mine[h],
           \A k \in Objects : backend = "trycp" /\ k \notin given_up' /\ object'[k].admin_client
                => object[k].admin_client /\ (Live(k) => Live(k)' /\ SameServer)
    PROVE  ServedInv'
<1>1. \A t \in Tasks : t \notin Helpers => served'[t] = {}
    BY DEF ServedInv
<1>2. ASSUME NEW t \in Tasks, Installing(t)', mine'[t] \notin given_up'
      PROVE  IF backend = "local" THEN served'[t] \subseteq {mine'[t]}
             ELSE /\ \E j \in Objects : served'[t] \subseteq {j}
                  /\ object'[mine'[t]].admin_client =>
                        Live(mine[t])' /\ (session' = "open" => served'[t] \subseteq {remote'})
  <2>0. PICK k \in Objects : k = mine[t]
        BY <1>2 DEF Installing, MineInv
  <2>1. /\ t \in Helpers /\ pc[t] # "idle" /\ mine'[t] = k /\ k \notin given_up
        /\ served'[t] = served[t] /\ k \in Objects
        BY <1>2, <2>0 DEF Installing, MineInv
  <2>2. IF backend = "local" THEN served[t] \subseteq {k}
        ELSE /\ \E j \in Objects : served[t] \subseteq {j}
             /\ object[k].admin_client =>
                    Live(k) /\ (session = "open" => served[t] \subseteq {remote})
        BY <2>0, <2>1 DEF ServedInv, Installing
  <2>3. k \notin given_up'
        BY <1>2, <2>1
  <2>4. backend \in {"local", "trycp"}
        BY DEF TypeOK
  <2>5. backend = "trycp" /\ object'[k].admin_client =>
            object[k].admin_client /\ (Live(k) => Live(k)' /\ SameServer)
        BY <2>1, <2>3
  <2>6. backend = "trycp" /\ object'[k].admin_client =>
            Live(k)' /\ (session' = "open" => served[t] \subseteq {remote'})
        BY <2>2, <2>5 DEF SameServer
  <2>7. Live(mine[t])' <=> Live(k)'
        BY <2>1 DEF Live
  <2> QED BY <2>1, <2>2, <2>4, <2>6, <2>7
<1> QED BY <1>1, <1>2 DEF ServedInv

\* What the steps of kill do to the clients of a remote conductor.
LEMMA CloseRemote ==
    ASSUME TypeOK, backend = "trycp", NEW t \in Tasks, NEW k \in Objects,
           NEW obj \in [Objects -> ObjectType], CloseAdmin(t, k, obj)
    PROVE  /\ Terminate(t, k)
           /\ ~object'[k].admin_client /\ object'[k].app_client = obj[k].app_client
           /\ \A j \in Objects : j # k => object'[j] = obj[j]
<1>1. AdminClosed(obj[k]) \in ObjectType
      /\ ~AdminClosed(obj[k]).admin_client /\ AdminClosed(obj[k]).app_client = obj[k].app_client
    BY DEF AdminClosed, ObjectType
<1>2. object' = IF obj[k].admin_client THEN [obj EXCEPT ![k] = AdminClosed(obj[k])] ELSE obj
    BY DEF CloseAdmin
<1>3. obj[k].admin_client \in BOOLEAN
    BY DEF ObjectType
<1>4. Terminate(t, k)
    BY DEF CloseAdmin
<1>5. ~object'[k].admin_client /\ object'[k].app_client = obj[k].app_client
      /\ \A j \in Objects : j # k => object'[j] = obj[j]
    BY <1>1, <1>2
<1> QED BY <1>4, <1>5

\* A task that goes on to another await than these leaves what is said of them.
LEMMA AwaitsLeft ==
    ASSUME TypeOK, MineInv, ClientInv, NEW t \in Tasks, NEW k \in Objects \cup {None},
           NEW label \in (Waits \cup {"idle"}) \ {"spawn", "attach", "app", "close_app"},
           NEW a \in {"ok", "err", None}, Goes(t, k, label, a),
           UNCHANGED spawned,
           \A j \in Objects : object'[j].app_client => object[j].app_client
    PROVE  /\ ClientInv'
           /\ \A u \in Tasks : pc'[u] \in {"spawn", "attach", "app", "close_app"} =>
                /\ u # t /\ pc'[u] = pc[u] /\ mine'[u] = mine[u] /\ answer'[u] = answer[u]
                /\ Queued(u) => Queued(u)'
                /\ \A v \in Tasks : pc'[v] = "spawn" /\ Before(u, v) => Before(u, v)'
<1>1. /\ pc'[t] = label
      /\ \A u \in Tasks : u # t => pc'[u] = pc[u] /\ mine'[u] = mine[u] /\ answer'[u] = answer[u]
    BY GoesStep
<1>2. \A u \in Tasks : pc'[u] \in {"spawn", "attach", "app", "close_app"} =>
            /\ u # t /\ pc'[u] = pc[u] /\ mine'[u] = mine[u] /\ answer'[u] = answer[u]
            /\ mine[u] \in Objects
    BY <1>1 DEF MineInv
<1>3. ClientInv'
    BY <1>2 DEF ClientInv
<1>4. /\ \A u \in Tasks \ {t} : Queued(u) => Queued(u)'
      /\ \A u, v \in Tasks \ {t} : Before(u, v) => Before(u, v)'
    BY GoesQueue
<1>5. \A v \in Tasks : pc'[v] = "spawn" => v # t
    BY <1>2
<1> QED BY <1>2, <1>3, <1>4, <1>5

\* A shutdown or cleanup takes its conductor from the player: it is still the only one to
\* stop it, and the installations on its object go on or throw.
LEMMA StopServing ==
    ASSUME TypeOK, MineInv, PlacesInv, ServingInv, backend = "trycp",
           NEW t \in Scripts \cup Timers, Shutdown(t) \/ Cleanup(t)
    PROVE  ServingInv'
<1>0. /\ t \in Tasks /\ t \notin Helpers /\ Helpers \subseteq Tasks
      /\ None \notin Objects
      /\ object \in [Objects -> ObjectType] /\ conductor \in Objects
      /\ ServedInv /\ ClientInv /\ ReachInv /\ ClosingInv
    BY TasksAssumption DEF Tasks, Objects, TypeOK, ObjectType, Shutdown, Cleanup, ServingInv
<1>1. PICK k \in Objects : k = conductor
    BY <1>0
<1>2. /\ pc[t] = "idle" /\ conductor' = None
      /\ UNCHANGED <<backend, spawned, served, given_up, session>>
    BY DEF Shutdown, Cleanup, machine
<1>3. PICK obj \in [Objects -> ObjectType] :
            /\ Kill(t, k, obj)
            /\ \A j \in Objects : /\ obj[j].app_client = object[j].app_client
                                  /\ obj[j].admin_client = object[j].admin_client
  <2>1. CASE Shutdown(t)
        BY <1>0, <1>1, <2>1 DEF Shutdown
  <2>2. CASE Cleanup(t)
    <3>1. Kill(t, k, [object EXCEPT ![k].on_signal = None])
          BY <1>1, <2>2 DEF Cleanup
    <3>2. [object EXCEPT ![k].on_signal = None] \in [Objects -> ObjectType]
          /\ \A j \in Objects :
                /\ [object EXCEPT ![k].on_signal = None][j].app_client = object[j].app_client
                /\ [object EXCEPT ![k].on_signal = None][j].admin_client = object[j].admin_client
          BY <1>0 DEF ObjectType
    <3> QED BY <3>1, <3>2
  <2> QED BY <2>1, <2>2
<1>4. /\ \A u \in Tasks : pc[u] \notin {"spawn", "close_app"}
      /\ \A j \in Objects : Live(j) => j = k
    BY <1>0, <1>1 DEF PlacesInv, PlaceInv, Starting, ClosingInv, Live
<1>5. CASE obj[k].app_client
  <2>1. PICK a \in {"ok", "err", None} : Goes(t, k, "close_app", a)
        BY <1>3, <1>5 DEF Kill, Sent
  <2>2. /\ pc'[t] = "close_app" /\ mine'[t] = k
        /\ \A u \in Tasks : u # t => pc'[u] = pc[u] /\ mine'[u] = mine[u] /\ answer'[u] = answer[u]
        BY <1>0, <2>1, GoesStep DEF Waits
  <2>3. /\ remote' = remote /\ Occupied /\ Occupied' /\ SameServer
        /\ object' = [obj EXCEPT ![k].app_client = FALSE]
        BY <1>0, <1>1, <1>2, <1>3, <1>5 DEF Kill, ReachInv, Occupied, SameServer
  <2>4. \A j \in Objects : /\ object'[j].app_client => object[j].app_client
                           /\ object'[j].admin_client = object[j].admin_client
        BY <1>3, <2>3 DEF ObjectType
  <2>5. ClientInv'
        BY <1>0, <1>2, <1>4, <2>2, <2>4 DEF ClientInv
  <2>6. ReachInv'
        BY <1>0, <1>2, <2>3 DEF ReachInv
  <2>7. Queued(t)'
        BY <1>0, <2>1, AskedQueued DEF Requests
  <2>8. ClosingInv'
        BY <1>2, <1>4, <2>2, <2>3, <2>7 DEF ClosingInv
  <2>9. Live(k)'
        BY <1>0, <2>2 DEF Live
  <2>10. ServedInv'
        BY <1>0, <1>2, <1>4, <2>2, <2>3, <2>4, <2>9, ServedStep
  <2> QED BY <1>2, <2>5, <2>6, <2>8, <2>10 DEF ServingInv
<1>6. CASE ~obj[k].app_client
  <2>1. /\ Terminate(t, k) /\ ~object'[k].admin_client
        /\ object'[k].app_client = obj[k].app_client
        /\ \A j \in Objects : j # k => object'[j] = obj[j]
        BY <1>0, <1>3, <1>6, CloseRemote DEF Kill
  <2>2. \A j \in Objects : /\ object'[j].app_client => object[j].app_client
                           /\ object'[j].admin_client => object[j].admin_client /\ j # k
        BY <1>3, <2>1
  <2>3. PICK a \in {"ok", "err", None} : Goes(t, k, "kill", a) /\ remote' \in {remote, None}
        BY <1>0, <2>1, TerminateStep
  <2>4. /\ ClientInv'
        /\ \A u \in Tasks : pc'[u] \in {"spawn", "attach", "app", "close_app"} =>
             u # t /\ pc'[u] = pc[u] /\ mine'[u] = mine[u]
        BY <1>0, <1>2, <2>2, <2>3, AwaitsLeft DEF Waits
  <2>5. ReachInv' /\ ClosingInv'
        BY <1>0, <1>2, <1>4, <2>3, <2>4 DEF ReachInv, ClosingInv, MineInv
  <2>6. \A h \in Helpers : pc'[h] = pc[h] /\ mine'[h] = mine[h]
        BY <1>0, <2>3, GoesStep DEF Waits
  <2>7. ServedInv'
        BY <1>0, <1>2, <1>4, <2>2, <2>6, ServedStep
  <2> QED BY <1>2, <2>4, <2>5, <2>7 DEF ServingInv
<1>7. obj[k].app_client \in BOOLEAN
    BY DEF ObjectType
<1> QED BY <1>5, <1>6

\* A step of a task that closes no client leaves those that do, and whom they serve.
LEMMA OtherGoes ==
    ASSUME TypeOK, MineInv, ServedInv, ClosingInv, backend = "trycp",
           NEW t \in Tasks, t \notin Helpers, pc[t] # "close_app",
           NEW k, NEW label, NEW a, Goes(t, k, label, a),
           UNCHANGED <<backend, conductor, remote, session, served>>,
           given_up \subseteq given_up',
           pc'[t] \notin {"spawn", "close_app"},
           \A u \in Tasks : u # t => pc'[u] = pc[u] /\ mine'[u] = mine[u],
           \A j \in Objects : object'[j].admin_client => object[j].admin_client
    PROVE  ClosingInv' /\ ServedInv'
<1>1. /\ \A u \in Tasks \ {t} : Queued(u) => Queued(u)'
      /\ \A u, v \in Tasks \ {t} : Before(u, v) => Before(u, v)'
    BY GoesQueue
<1>2. ClosingInv'
  <2> SUFFICES ASSUME NEW u \in Tasks, pc'[u] = "close_app"
               PROVE  /\ Occupied /\ conductor = None /\ Queued(u)'
                      /\ \A v \in Tasks : pc'[v] = "close_app" => v = u
                      /\ \A v \in Tasks : pc'[v] = "spawn" => Before(u, v)'
      BY DEF ClosingInv, Occupied
  <2>1. u # t /\ pc[u] = "close_app"
        OBVIOUS
  <2>2. /\ Occupied /\ conductor = None /\ Queued(u)
        /\ \A v \in Tasks : pc[v] = "close_app" => v = u
        /\ \A v \in Tasks : pc[v] = "spawn" => Before(u, v)
        BY <2>1 DEF ClosingInv
  <2>3. \A v \in Tasks : pc'[v] \in {"spawn", "close_app"} => v # t /\ pc[v] = pc'[v]
        OBVIOUS
  <2> QED BY <1>1, <2>1, <2>2, <2>3
<1>3. ServedInv'
  <2>1. \A j \in Objects : Live(j) => Live(j)'
    <3>1. \A u \in Tasks : pc[u] = "close_app" => pc'[u] = "close_app" /\ mine'[u] = mine[u]
          OBVIOUS
    <3> QED BY <3>1 DEF Live
  <2>2. \A h \in Helpers : pc'[h] = pc[h] /\ mine'[h] = mine[h]
        BY DEF Tasks
  <2>3. SameServer
        BY DEF SameServer
  <2> QED BY <2>1, <2>2, <2>3, ServedStep
<1> QED BY <1>2, <1>3

\* The steps of a startup that a trycp server answers.
LEMMA StartServing ==
    ASSUME OneScript, TypeOK, MineInv, PlacesInv, ServingInv, backend = "trycp",
           NEW t \in Scripts, Startup(t) \/ Connecting(t)
    PROVE  ServingInv'
<1>0. /\ t \in Tasks /\ t \notin Helpers /\ Helpers \subseteq Tasks
      /\ None \notin Objects
      /\ object \in [Objects -> ObjectType] /\ conductor \in Objects \cup {None}
      /\ remote \in Objects \cup {None} /\ spawned \in Nat /\ MaxSpawns \in Nat
      /\ ServedInv /\ ClientInv /\ ReachInv /\ ClosingInv
    BY TasksAssumption DEF Tasks, Objects, TypeOK, ObjectType, ServingInv
<1>1. UNCHANGED <<backend, session, served, given_up>>
    BY DEF Startup, Connecting, Spawned, Attached, AppConnected, StartupFails, world, machine
<1>2. \A u \in Tasks : pc[u] = "spawn" => u \in Scripts /\ conductor = None
    BY DEF PlacesInv, PlaceInv, Starting
<1>3. CASE Startup(t)
  <2>1. PICK k \in Objects : k = spawned + 1
        BY <1>0, <1>3 DEF Startup, Objects
  <2>2. PICK a \in {"ok", "err", None} : Goes(t, k, "spawn", a)
        BY <1>3, <2>1 DEF Startup, Sent
  <2>3. /\ conductor = None /\ conductor' = None /\ spawned' = k /\ object' = object
        /\ session # "open" => remote' = remote
        /\ Occupied => SameServer
    <3>1. \/ remote = None /\ session = "open"
          \/ remote' = remote
          BY <1>3 DEF Startup
    <3>2. Occupied => SameServer
          BY <1>1, <3>1 DEF Occupied, SameServer
    <3>3. session # "open" => remote' = remote
          BY <3>1
    <3> QED BY <1>3, <2>1, <3>2, <3>3 DEF Startup, NotRunning
  <2>o. Occupied => Occupied'
        BY <1>1, <2>3 DEF Occupied, SameServer
  <2>4. /\ pc[t] = "idle" /\ pc'[t] = "spawn" /\ mine'[t] = k
        /\ \A u \in Tasks : u # t => pc'[u] = pc[u] /\ mine'[u] = mine[u] /\ answer'[u] = answer[u]
        BY <1>0, <1>3, <2>2, GoesStep DEF Startup, Waits
  <2>5. ClientInv'
    <3>1. ~object[k].app_client /\ \A j \in Objects : j > k => ~object[j].app_client
          BY <1>0, <2>1 DEF ClientInv, Objects
    <3> QED BY <1>0, <2>3, <2>4, <3>1 DEF ClientInv
  <2>6. ReachInv'
    <3>1. \A u \in Tasks : pc'[u] = "app" => pc[u] = "app" /\ mine'[u] \in Objects
          BY <2>4 DEF MineInv
    <3> QED BY <1>0, <1>1, <2>3, <3>1 DEF ReachInv
  <2>7. /\ \A u \in Tasks \ {t} : Queued(u) => Queued(u)' /\ Before(u, t)'
        /\ \A u, v \in Tasks \ {t} : Before(u, v) => Before(u, v)'
        BY <1>0, <2>2, GoesQueue DEF Requests
  <2>8. ClosingInv'
    <3> SUFFICES ASSUME NEW u \in Tasks, pc'[u] = "close_app"
                 PROVE  /\ Occupied' /\ conductor' = None /\ Queued(u)'
                        /\ \A v \in Tasks : pc'[v] = "close_app" => v = u
                        /\ \A v \in Tasks : pc'[v] = "spawn" => Before(u, v)'
        BY DEF ClosingInv
    <3>1. u # t /\ pc[u] = "close_app"
          BY <2>4
    <3>2. Occupied /\ Queued(u) /\ \A v \in Tasks : pc[v] = "close_app" => v = u
          BY <1>0, <3>1 DEF ClosingInv
    <3>3. \A v \in Tasks : v # t /\ pc[v] = "spawn" => Before(u, v)
          BY <1>0, <3>1 DEF ClosingInv
    <3>4. \A v \in Tasks : pc'[v] = "close_app" => v = u
          BY <2>4, <3>2
    <3>5. \A v \in Tasks : pc'[v] = "spawn" => Before(u, v)'
          BY <2>4, <2>7, <3>1, <3>2, <3>3
    <3> QED BY <2>3, <2>o, <2>7, <3>1, <3>2, <3>4, <3>5
  <2>9. \A j \in Objects : Live(j) => Live(j)' /\ SameServer
    <3>1. \A j \in Objects : Live(j) => \E u \in Tasks : pc[u] = "close_app" /\ mine[u] = j
          BY <1>0, <2>3 DEF Live
    <3>2. \A u \in Tasks : pc[u] = "close_app" =>
                pc'[u] = "close_app" /\ mine'[u] = mine[u] /\ Occupied
          BY <1>0, <2>4 DEF ClosingInv
    <3> QED BY <2>3, <3>1, <3>2 DEF Live
  <2>10. \A h \in Helpers : pc'[h] = pc[h] /\ mine'[h] = mine[h]
        BY <1>0, <2>4
  <2>11. ServedInv'
        BY <1>0, <1>1, <2>3, <2>9, <2>10, ServedStep
  <2> QED BY <1>1, <2>5, <2>6, <2>8, <2>11 DEF ServingInv
<1>4. CASE Spawned(t)
  <2>1. pc[t] = "spawn" /\ InTurn(t)
        BY <1>4 DEF Spawned, Resumes
  <2>2. PICK k \in Objects : k = mine[t]
        BY <1>0, <2>1, Waiting DEF Waits
  <2>3. PICK a \in {"ok", "err", None} : Goes(t, k, "attach", a)
        BY <1>4, <2>2, AnswersType DEF Spawned, Await
  <2>4. /\ conductor' = k /\ UNCHANGED <<object, spawned, remote>>
        BY <1>4, <2>2 DEF Spawned
  <2>5. /\ pc'[t] = "attach" /\ mine'[t] = k
        /\ \A u \in Tasks : u # t => pc'[u] = pc[u] /\ mine'[u] = mine[u] /\ answer'[u] = answer[u]
        BY <1>0, <2>3, GoesStep DEF Waits
  <2>6. \A u \in Tasks : pc[u] # "close_app"
    <3>1. ASSUME NEW u \in Tasks, pc[u] = "close_app" PROVE Before(u, t)
          BY <1>0, <2>1, <3>1 DEF ClosingInv
    <3> QED BY <1>0, <2>1, <3>1, NotInTurn
  <2>7. ClientInv'
        BY <1>0, <2>4, <2>5 DEF ClientInv
  <2>8. ReachInv'
    <3>1. ~object[k].app_client
          BY <1>0, <2>1, <2>2 DEF ClientInv
    <3>2. \A u \in Tasks : pc'[u] # "app"
      <4>1. \A u \in Tasks : pc'[u] = "app" => pc[u] = "app" /\ u # t
            BY <2>5
      <4> QED BY <1>0, <4>1 DEF ClientInv, OneScript
    <3> QED BY <1>0, <1>1, <2>4, <3>1, <3>2 DEF ReachInv
  <2>9. ClosingInv'
        BY <2>5, <2>6 DEF ClosingInv
  <2>10. \A j \in Objects : ~Live(j)
        BY <1>0, <1>2, <2>1, <2>6 DEF Live
  <2>11. ServedInv'
    <3>1. \A h \in Helpers : pc'[h] = pc[h] /\ mine'[h] = mine[h]
          BY <1>0, <2>5
    <3> QED BY <1>0, <1>1, <2>4, <2>10, <3>1, ServedStep
  <2> QED BY <1>1, <2>7, <2>8, <2>9, <2>11 DEF ServingInv
<1>5. CASE Attached(t)
  <2>1. PICK k \in Objects : k = mine[t]
        BY <1>0, <1>5, Waiting DEF Attached, Resumes, Waits
  <2>2. PICK a \in AnswersFor(k) : Goes(t, k, "app", a)
        BY <1>5, <2>1 DEF Attached, Await
  <2>3. pc[t] = "attach" /\ UNCHANGED <<conductor, object, spawned, remote>>
        BY <1>5 DEF Attached, Resumes, world
  <2>4. a \in {"ok", "err", None} /\ (a = "ok" => Occupied)
        BY <2>2, AnswersType DEF AnswersFor, Sent, Up, Reached, Occupied
  <2>5. /\ pc'[t] = "app" /\ mine'[t] = k /\ answer'[t] = a
        /\ \A u \in Tasks : u # t => pc'[u] = pc[u] /\ mine'[u] = mine[u] /\ answer'[u] = answer[u]
        BY <1>0, <2>2, <2>4, GoesStep DEF Waits
  <2>6. ClientInv'
        BY <1>0, <2>3, <2>5 DEF ClientInv
  <2>7. ReachInv'
    <3>1. Occupied' <=> Occupied
          BY <1>1, <2>3 DEF Occupied
    <3> QED BY <1>0, <1>1, <2>3, <2>4, <2>5, <3>1 DEF ReachInv
  <2>8. ClosingInv' /\ ServedInv'
        BY <1>0, <1>1, <2>2, <2>3, <2>5, OtherGoes
  <2> QED BY <1>1, <2>6, <2>7, <2>8 DEF ServingInv
<1>6. CASE AppConnected(t)
  <2>1. PICK k \in Objects : k = mine[t]
        BY <1>0, <1>6, Waiting DEF AppConnected, Resumes, Waits
  <2>2. /\ Goes(t, None, "idle", None) /\ pc[t] = "app" /\ answer[t] = "ok"
        /\ UNCHANGED <<conductor, spawned, remote>>
        BY <1>6 DEF AppConnected, Ends, Resumes, world
  <2>3. /\ pc'[t] = "idle"
        /\ \A u \in Tasks : u # t => pc'[u] = pc[u] /\ mine'[u] = mine[u] /\ answer'[u] = answer[u]
        BY <1>0, <2>2, GoesStep
  <2>4. \A j \in Objects : /\ object'[j].admin_client = object[j].admin_client
                           /\ j # k => object'[j] = object[j]
    <3> DEFINE port == backend = "trycp"
    <3>1. object' = [object EXCEPT ![k].app_client = TRUE, ![k].app_port = port]
          BY <1>6, <2>1 DEF AppConnected
    <3> HIDE DEF port
    <3> QED BY <1>0, <3>1 DEF ObjectType
  <2>5. k <= spawned /\ spawned \in Nat
        BY <1>0, <2>1 DEF PlacesInv, OrderInv, TypeOK
  <2>6. \A u \in Tasks : pc'[u] # "spawn"
    <3>1. \A u \in Tasks : pc'[u] = "spawn" => pc[u] = "spawn" /\ u # t
          BY <2>3
    <3> QED BY <1>2, <3>1 DEF OneScript
  <2>7. ClientInv'
        BY <1>0, <2>2, <2>3, <2>4, <2>5, <2>6 DEF ClientInv, Objects
  <2>8. ReachInv'
    <3>1. conductor # None => conductor \in Objects
          BY <1>0
    <3>2. Occupied' <=> Occupied
          BY <1>1, <2>2 DEF Occupied
    <3> QED BY <1>0, <1>1, <2>1, <2>2, <2>3, <2>4, <3>1, <3>2 DEF ReachInv
  <2>9. ClosingInv' /\ ServedInv'
        BY <1>0, <1>1, <2>2, <2>3, <2>4, <2>6, OtherGoes
  <2> QED BY <1>1, <2>7, <2>8, <2>9 DEF ServingInv
<1>7. CASE StartupFails(t)
  <2>1. /\ Goes(t, None, "idle", None) /\ pc[t] \in {"spawn", "attach", "app"}
        /\ UNCHANGED <<conductor, object, spawned, remote>>
        BY <1>7 DEF StartupFails, Ends, Resumes
  <2>2. /\ pc'[t] = "idle"
        /\ \A u \in Tasks : u # t => pc'[u] = pc[u] /\ mine'[u] = mine[u] /\ answer'[u] = answer[u]
        BY <1>0, <2>1, GoesStep
  <2>3. ClientInv'
        BY <1>0, <2>1, <2>2 DEF ClientInv
  <2>4. ReachInv'
    <3>1. Occupied' <=> Occupied
          BY <1>1, <2>1 DEF Occupied
    <3> QED BY <1>0, <1>1, <2>1, <2>2, <3>1 DEF ReachInv
  <2>5. ClosingInv' /\ ServedInv'
        BY <1>0, <1>1, <2>1, <2>2, OtherGoes
  <2> QED BY <1>1, <2>3, <2>4, <2>5 DEF ServingInv
<1> QED BY <1>3, <1>4, <1>5, <1>6, <1>7 DEF Connecting

\* The steps of a kill after its first.
LEMMA KillingServing ==
    ASSUME TypeOK, MineInv, PlacesInv, ServingInv, backend = "trycp",
           NEW t \in Scripts \cup Timers, Killing(t)
    PROVE  ServingInv'
<1>0. /\ t \in Tasks /\ t \notin Helpers /\ Helpers \subseteq Tasks
      /\ None \notin Objects
      /\ object \in [Objects -> ObjectType] /\ conductor \in Objects \cup {None}
      /\ ServedInv /\ ClientInv /\ ReachInv /\ ClosingInv
    BY TasksAssumption DEF Tasks, Objects, TypeOK, ObjectType, ServingInv
<1>1. ~AdminCloses(t)
    BY <1>0 DEF AdminCloses, Resumes, PlacesInv, PlaceInv
<1>2. CASE AppClosed(t)
  <2>1. /\ pc[t] = "close_app" /\ CloseAdmin(t, mine[t], object)
        /\ UNCHANGED <<backend, conductor, spawned, served, given_up, session>>
        BY <1>2 DEF AppClosed, Resumes, machine
  <2>2. PICK k \in Objects : k = mine[t]
        BY <1>0, <2>1, Waiting DEF Waits
  <2>3. /\ conductor = None /\ \A u \in Tasks : pc[u] = "close_app" => u = t
        BY <1>0, <2>1 DEF ClosingInv
  <2>4. /\ Terminate(t, k) /\ ~object'[k].admin_client
        /\ object'[k].app_client = object[k].app_client
        /\ \A j \in Objects : j # k => object'[j] = object[j]
        BY <1>0, <2>1, <2>2, CloseRemote
  <2>5. PICK a \in {"ok", "err", None} : Goes(t, k, "kill", a) /\ remote' \in {remote, None}
        BY <1>0, <2>4, TerminateStep
  <2>6. /\ pc'[t] = "kill"
        /\ \A u \in Tasks : u # t => pc'[u] = pc[u] /\ mine'[u] = mine[u]
        BY <1>0, <2>5, GoesStep DEF Waits
  <2>7. ClientInv'
        BY <1>0, <2>1, <2>4, <2>5, AwaitsLeft DEF Waits
  <2>8. ReachInv'
    <3>1. \A u \in Tasks : pc'[u] = "app" => mine'[u] \in Objects
          BY <2>6 DEF MineInv
    <3> QED BY <1>0, <2>1, <2>3, <2>5, <3>1 DEF ReachInv
  <2>9. ClosingInv'
        BY <2>3, <2>6 DEF ClosingInv
  <2>10. \A j \in Objects : object'[j].admin_client => object[j].admin_client /\ ~Live(j)
        BY <1>0, <2>2, <2>3, <2>4 DEF Live
  <2>11. ServedInv'
    <3>1. \A h \in Helpers : pc'[h] = pc[h] /\ mine'[h] = mine[h]
          BY <1>0, <2>6
    <3> QED BY <1>0, <2>1, <2>10, <3>1, ServedStep
  <2> QED BY <2>1, <2>7, <2>8, <2>9, <2>11 DEF ServingInv
<1>3. CASE KillReturns(t) \/ KillFails(t)
  <2>1. /\ Goes(t, None, "idle", None) /\ pc[t] \in {"close_app", "kill"}
        /\ UNCHANGED <<backend, conductor, object, spawned, remote, session, served>>
        /\ given_up \subseteq given_up'
        BY <1>3 DEF KillReturns, KillFails, Ends, Resumes, machine
  <2>2. /\ pc'[t] = "idle"
        /\ \A u \in Tasks : u # t => pc'[u] = pc[u] /\ mine'[u] = mine[u] /\ answer'[u] = answer[u]
        BY <1>0, <2>1, GoesStep
  <2>3. ClientInv'
        BY <1>0, <2>1, AwaitsLeft
  <2>4. ReachInv'
    <3>1. Occupied' <=> Occupied
          BY <2>1 DEF Occupied
    <3> QED BY <1>0, <2>1, <2>2, <3>1 DEF ReachInv
  <2>5. ClosingInv' /\ ServedInv'
    <3>1. CASE pc[t] = "kill"
          BY <1>0, <2>1, <2>2, <3>1, OtherGoes
    <3>2. CASE pc[t] = "close_app"
      <4>1. \A u \in Tasks : pc[u] = "close_app" => u = t
            BY <1>0, <3>2 DEF ClosingInv
      <4>2. given_up' = given_up \cup {mine[t]} /\ conductor = None
            BY <1>0, <1>3, <3>2 DEF KillReturns, KillFails, Resumes, ClosingInv
      <4>3. ClosingInv'
            BY <2>2, <4>1 DEF ClosingInv
      <4>4. \A j \in Objects : j \notin given_up' => ~Live(j)
            BY <1>0, <4>1, <4>2 DEF Live
      <4>5. \A h \in Helpers : pc'[h] = pc[h] /\ mine'[h] = mine[h]
            BY <1>0, <2>2
      <4>6. ServedInv'
            BY <1>0, <2>1, <4>4, <4>5, ServedStep
      <4> QED BY <4>3, <4>6
    <3> QED BY <2>1, <3>1, <3>2
  <2> QED BY <2>1, <2>3, <2>4, <2>5 DEF ServingInv
<1> QED BY <1>1, <1>2, <1>3 DEF Killing

\* A step of an installation is served by the conductor behind its object.
LEMMA InstallServing ==
    ASSUME TypeOK, MineInv, PlacesInv, ServingInv,
           NEW t \in Helpers, Install(t) \/ InstallStep(t) \/ InstallEnds(t)
    PROVE  ServingInv'
<1> DEFINE Labels == {"key", "save", "register", "install", "enable"}
           One(S, k) == IF backend = "local" THEN S \subseteq {k}
                        ELSE /\ \E j \in Objects : S \subseteq {j}
                             /\ object[k].admin_client =>
                                    Live(k) /\ (session = "open" => S \subseteq {remote})
<1>0. /\ t \in Tasks /\ None \notin Objects /\ ServedInv
      /\ backend \in {"local", "trycp"} /\ conductor \in Objects \cup {None}
      /\ served \in [Tasks -> SUBSET Objects] /\ remote \in Objects \cup {None}
      /\ UNCHANGED <<backend, conductor, object, spawned, proc, remote, session, given_up>>
      /\ pc[t] \in {"idle", "key", "save", "register", "install", "enable"}
    BY InstallEffect DEF Tasks, Objects, TypeOK, ServingInv, world, machine
<1>1. \/ Goes(t, None, "idle", None)
      \/ \E k \in Objects, a \in {"ok", "err", None}, label \in Labels : Goes(t, k, label, a)
    BY InstallEffect
<1>2. /\ pc'[t] \in Labels \cup {"idle"}
      /\ \A u \in Tasks : u # t => pc'[u] = pc[u] /\ mine'[u] = mine[u] /\ answer'[u] = answer[u]
    BY <1>0, <1>1, GoesStep DEF Waits
<1>3. \A k : Live(k)' <=> Live(k)
    BY <1>0, <1>2 DEF Live
<1>4. backend = "trycp" => ClientInv' /\ ReachInv' /\ ClosingInv'
  <2> SUFFICES ASSUME backend = "trycp" PROVE ClientInv' /\ ReachInv' /\ ClosingInv'
      OBVIOUS
  <2>0. ClientInv /\ ReachInv /\ ClosingInv
        BY DEF ServingInv
  <2>1. /\ ClientInv'
        /\ \A u \in Tasks : pc'[u] \in {"spawn", "attach", "app", "close_app"} =>
             /\ u # t /\ pc'[u] = pc[u] /\ mine'[u] = mine[u] /\ answer'[u] = answer[u]
             /\ Queued(u) => Queued(u)'
             /\ \A v \in Tasks : pc'[v] = "spawn" /\ Before(u, v) => Before(u, v)'
        BY <1>0, <1>1, <2>0, AwaitsLeft DEF Waits
  <2>o. Occupied' <=> Occupied
        BY <1>0 DEF Occupied
  <2>2. ReachInv'
        BY <1>0, <2>0, <2>1, <2>o DEF ReachInv
  <2>3. ClosingInv'
        BY <1>0, <1>2, <2>0, <2>1, <2>o DEF ClosingInv
  <2> QED BY <2>1, <2>2, <2>3
<1>5. ASSUME NEW k \in Objects, NEW label \in Labels, NEW before \in SUBSET Objects,
             One(before, k), AdminCall(t, k, label, before) \/ SaveDna(t, k, before)
      PROVE  pc'[t] = "idle" \/ (mine'[t] = k /\ One(served'[t], k))
  <2>1. CASE SaveDna(t, k, before)
    <3>1. PICK a \in {"ok", "err", None} : Goes(t, k, "save", a)
          BY <2>1 DEF SaveDna, Sent
    <3>2. mine'[t] = k /\ served'[t] = before
          BY <1>0, <2>1, <3>1, GoesStep DEF SaveDna, Waits
    <3> QED BY <1>5, <3>2
  <2>2. CASE AdminCall(t, k, label, before) /\ object[k].admin_client
    <3>1. PICK a \in {"ok", "err", None} : Goes(t, k, label, a)
          BY <2>2, AnswersType DEF AdminCall
    <3>2. mine'[t] = k /\ served'[t] = before \cup ({Reached(k)} \ {None})
          BY <1>0, <2>2, <3>1, GoesStep DEF AdminCall, Serving, Waits
    <3>3. CASE backend = "local"
          BY <1>5, <3>2, <3>3 DEF Reached
    <3>4. CASE backend # "local"
      <4>1. Live(k) /\ (session = "open" => served'[t] \subseteq {remote})
            BY <1>5, <2>2, <3>2, <3>4 DEF Reached
      <4>2. \E j \in Objects : served'[t] \subseteq {j}
        <5>1. CASE remote = None
              BY <1>5, <3>2, <3>4, <5>1 DEF Reached
        <5>2. CASE remote # None
          <6>1. session = "open"
                BY <1>0, <3>4, <5>2 DEF ServingInv, ReachInv
          <6> QED BY <1>0, <4>1, <5>2, <6>1
        <5> QED BY <5>1, <5>2
      <4> QED BY <3>2, <3>4, <4>1, <4>2
    <3> QED BY <3>3, <3>4
  <2>3. CASE AdminCall(t, k, label, before) /\ ~object[k].admin_client
    <3>1. Goes(t, None, "idle", None)
          BY <2>3 DEF AdminCall, Ends
    <3> QED BY <1>0, <3>1, GoesStep
  <2> QED BY <1>5, <2>1, <2>2, <2>3
<1>6. \/ pc'[t] = "idle"
      \/ \E k \in Objects : mine'[t] = k /\ (k \notin given_up => One(served'[t], k))
  <2> HIDE DEF One
  <2>1. CASE Install(t)
    <3>1. PICK k \in Objects : k = conductor
          BY <1>0, <2>1 DEF Install
    <3>2. One({}, k)
          BY <3>1 DEF One, Live
    <3>3. SaveDna(t, k, {}) \/ \E label \in Labels : AdminCall(t, k, label, {})
          BY <2>1, <3>1 DEF Install
    <3> QED BY <1>5, <3>2, <3>3
  <2>2. CASE InstallStep(t)
    <3>0. /\ DOMAIN AfterStep = {"key", "save", "register", "install"}
          /\ \A step \in DOMAIN AfterStep : AfterStep[step] \subseteq Labels
          BY DEF AfterStep
    <3>1. pc[t] \in DOMAIN AfterStep
          BY <2>2, <3>0 DEF InstallStep, Resumes
    <3>2. PICK k \in Objects : k = mine[t]
          BY <1>0, <3>0, <3>1, Waiting DEF Waits
    <3>3. k \notin given_up => One(served[t], k)
          BY <1>0, <3>0, <3>1, <3>2 DEF ServedInv, Installing, One
    <3>4. /\ SaveDna(t, k, served[t]) \/ \E label \in Labels : AdminCall(t, k, label, served[t])
          /\ served[t] \in SUBSET Objects
          BY <1>0, <2>2, <3>0, <3>2 DEF InstallStep
    <3>5. \/ Goes(t, None, "idle", None)
          \/ \E label \in Labels, a \in {"ok", "err", None} : Goes(t, k, label, a)
          BY <3>4, AnswersType DEF AdminCall, SaveDna, Sent, Ends
    <3>6. pc'[t] = "idle" \/ mine'[t] = k
          BY <1>0, <3>5, GoesStep DEF Waits
    <3> QED BY <1>5, <3>3, <3>4, <3>6
  <2>3. CASE InstallEnds(t)
    <3>1. Goes(t, None, "idle", None)
          BY <2>3 DEF InstallEnds, Ends
    <3> QED BY <1>0, <3>1, GoesStep
  <2> QED BY <2>1, <2>2, <2>3
<1>7. \A u \in Tasks : u # t => served'[u] = served[u]
    BY <1>0 DEF Install, InstallStep, InstallEnds, AdminCall, SaveDna
<1>8. ServedInv'
  <2>1. \A u \in Tasks : u \notin Helpers => served'[u] = {}
        BY <1>0, <1>7 DEF ServedInv
  <2>2. ASSUME NEW u \in Tasks, Installing(u)', mine'[u] \notin given_up
        PROVE  IF backend = "local" THEN served'[u] \subseteq {mine'[u]}
               ELSE /\ \E j \in Objects : served'[u] \subseteq {j}
                    /\ object[mine'[u]].admin_client =>
                          Live(mine[u])' /\ (session = "open" => served'[u] \subseteq {remote})
    <3>1. CASE u = t
      <4>1. pc'[t] # "idle"
            BY <2>2, <3>1 DEF Installing
      <4>2. PICK k \in Objects : mine'[t] = k /\ (k \notin given_up => One(served'[t], k))
            BY <1>6, <4>1
      <4>3. Live(mine[u])' <=> Live(k)
        <5>1. Live(mine[u])' <=> Live(k)'
              BY <3>1, <4>2 DEF Live
        <5> QED BY <1>3, <5>1
      <4> QED BY <2>2, <3>1, <4>2, <4>3
    <3>2. CASE u # t
      <4>1. PICK k \in Objects : k = mine[u] /\ mine'[u] = k /\ Installing(u)
            BY <1>2, <2>2, <3>2 DEF Installing, MineInv
      <4>2. One(served[u], k)
            BY <1>0, <2>2, <4>1 DEF ServedInv
      <4>3. Live(mine[u])' <=> Live(k)
        <5>1. Live(mine[u])' <=> Live(k)'
              BY <4>1 DEF Live
        <5> QED BY <1>3, <5>1
      <4> QED BY <1>7, <2>2, <3>2, <4>1, <4>2, <4>3
    <3> QED BY <3>1, <3>2
  <2> QED BY <1>0, <2>1, <2>2 DEF ServedInv
<1> QED BY <1>0, <1>4, <1>8 DEF ServingInv

\* The steps that change neither awaits nor clients, a reset of the server among them.
LEMMA QuietServing ==
    ASSUME TypeOK, MineInv, ServingInv,
           UNCHANGED <<backend, conductor, spawned, tasks, served, given_up>>,
           \/ UNCHANGED <<remote, session>>
           \/ remote' = None /\ session' # "open",
           \A j \in Objects : /\ object'[j].app_client = object[j].app_client
                              /\ object'[j].admin_client = object[j].admin_client
    PROVE  ServingInv'
<1>1. /\ Helpers \subseteq Tasks /\ ServedInv /\ conductor \in Objects \cup {None}
      /\ \A k : Live(k)' <=> Live(k)
    BY DEF Tasks, TypeOK, ServingInv, Live, tasks
<1>s. SameServer /\ (Occupied => Occupied')
    BY DEF SameServer, Occupied
<1>2. ServedInv'
    BY <1>1, <1>s, ServedStep DEF tasks
<1>3. backend = "trycp" => ClientInv' /\ ReachInv' /\ ClosingInv'
  <2> SUFFICES ASSUME backend = "trycp" PROVE ClientInv' /\ ReachInv' /\ ClosingInv'
      OBVIOUS
  <2>1. ClientInv /\ ReachInv /\ ClosingInv
        BY DEF ServingInv
  <2>2. ClientInv'
        BY <2>1 DEF ClientInv, MineInv, tasks
  <2>3. ReachInv'
        BY <1>1, <1>s, <2>1 DEF ReachInv, tasks
  <2>4. ClosingInv'
        BY <1>s, <2>1 DEF ClosingInv, Queued, Before, tasks
  <2> QED BY <2>2, <2>3, <2>4
<1> QED BY <1>2, <1>3 DEF ServingInv

\* Steps of others than an installation, on a player with local conductors.
LEMMA LocalServing ==
    ASSUME TypeOK, MineInv, ServingInv, backend = "local", NEW t \in Scripts \cup Timers,
           \/ Startup(t) \/ LairReady(t) \/ InterfaceReady(t) \/ InterfaceClosed(t)
           \/ AdminConnected(t) \/ Connecting(t)
           \/ Shutdown(t) \/ Cleanup(t) \/ Killing(t)
    PROVE  ServingInv'
<1>0. t \in Tasks /\ t \notin Helpers /\ Helpers \subseteq Tasks /\ ServedInv
    BY TasksAssumption DEF Tasks, ServingInv
<1>1. UNCHANGED <<backend, served>> /\ given_up \subseteq given_up'
    BY DEF Startup, LairReady, InterfaceReady, InterfaceClosed, AdminConnected, Connecting,
           Spawned, Attached, AppConnected, StartupFails, Shutdown, Cleanup, Killing,
           AppClosed, AdminCloses, KillReturns, KillFails
<1>2. \E k, label, a : Goes(t, k, label, a)
  <2>1. CASE Startup(t)
        BY <2>1 DEF Startup
  <2>2. CASE \/ LairReady(t) \/ InterfaceReady(t) \/ InterfaceClosed(t) \/ AdminConnected(t)
             \/ Connecting(t) \/ KillReturns(t) \/ KillFails(t)
        BY <2>2 DEF LairReady, InterfaceReady, InterfaceClosed, AdminConnected, Connecting,
                    Spawned, Attached, AppConnected, StartupFails, KillReturns, KillFails,
                    Ends, Await
  <2>3. CASE Shutdown(t) \/ Cleanup(t) \/ AppClosed(t) \/ AdminCloses(t)
        BY <2>3 DEF Shutdown, Cleanup, AppClosed, AdminCloses, Kill, CloseAdmin, Terminate
  <2> QED BY <2>1, <2>2, <2>3 DEF Killing
<1>3. \A h \in Helpers : pc'[h] = pc[h] /\ mine'[h] = mine[h]
    BY <1>0, <1>2 DEF Goes, TypeOK
<1>4. ServedInv'
    BY <1>0, <1>1, <1>3, ServedStep
<1> QED BY <1>1, <1>4 DEF ServingInv

\* Every step keeps that one conductor served each installation.
LEMMA ServingStep ==
    OneScript /\ StopInv /\ ServingInv /\ [Next]_vars => ServingInv'
<1> SUFFICES ASSUME OneScript, StopInv, ServingInv, [Next]_vars PROVE ServingInv'
    OBVIOUS
<1>0. /\ TypeOK /\ MineInv /\ PlacesInv /\ backend \in {"local", "trycp"}
      /\ object \in [Objects -> ObjectType]
    BY DEF StopInv, HandlerInv, TypeOK, ObjectType
<1>1. CASE UNCHANGED vars
    BY <1>0, <1>1, QuietServing DEF vars, world, machine
<1>2. ASSUME NEW t \in Scripts,
             \/ Startup(t) \/ LairReady(t) \/ InterfaceReady(t) \/ InterfaceClosed(t)
             \/ AdminConnected(t) \/ Connecting(t)
      PROVE  ServingInv'
  <2>1. CASE backend = "local"
        BY <1>0, <1>2, <2>1, LocalServing
  <2>2. CASE backend = "trycp"
    <3>1. pc[t] \notin {"lair", "ready", "admin"}
          BY <1>0, <2>2 DEF PlacesInv, PlaceInv, Tasks
    <3>2. Startup(t) \/ Connecting(t)
          BY <1>2, <3>1 DEF LairReady, InterfaceReady, InterfaceClosed, AdminConnected
    <3> QED BY <1>0, <2>2, <3>2, StartServing
  <2> QED BY <1>0, <2>1, <2>2
<1>3. ASSUME NEW t \in Scripts \cup Timers, Shutdown(t) \/ Cleanup(t) \/ Killing(t)
      PROVE  ServingInv'
    BY <1>0, <1>3, LocalServing, StopServing, KillingServing
<1>4. ASSUME NEW t \in Tasks, CleanupIdle(t) \/ \E h \in {"handler", None} : SetSignalHandler(t, h)
      PROVE  ServingInv'
  <2>1. PICK h \in {"handler", None} :
            /\ SignalHandler(h)
            /\ UNCHANGED <<backend, conductor, spawned, remote, session, tasks, served, given_up>>
        BY <1>4 DEF CleanupIdle, SetSignalHandler, world, machine
  <2>2. PICK k : k = conductor
        OBVIOUS
  <2>3. object' = IF k = None THEN object ELSE [object EXCEPT ![k].on_signal = h]
        BY <2>1, <2>2 DEF SignalHandler
  <2>4. \A j \in Objects : /\ object'[j].app_client = object[j].app_client
                           /\ object'[j].admin_client = object[j].admin_client
        BY <1>0, <2>3 DEF ObjectType
  <2> QED BY <1>0, <2>1, <2>4, QuietServing
<1>5. ASSUME NEW t \in Helpers, Install(t) \/ InstallStep(t) \/ InstallEnds(t)
      PROVE  ServingInv'
    BY <1>0, <1>5, InstallServing
<1>6. ASSUME NEW k \in Objects, NEW p \in Processes, ProcessCloses(k, p) \/ Crash(k, p)
      PROVE  ServingInv'
    BY <1>0, <1>6, QuietServing DEF ProcessCloses, Crash, machine
<1>8. ASSUME (\E t \in Timers : Reset(t)) \/ SessionCloses PROVE ServingInv'
  <2>1. CASE SessionCloses
    <3>1. UNCHANGED <<backend, conductor, object, spawned, tasks, served, given_up, remote>>
          /\ session = "reset" /\ session' = "closed"
          BY <2>1 DEF SessionCloses
    <3>2. CASE remote = None
          BY <1>0, <3>1, <3>2, QuietServing
    <3>3. CASE remote # None
      <4>1. backend # "trycp"
            BY <3>1, <3>3 DEF ServingInv, ReachInv
      <4>2. ServedInv'
            BY <1>0, <3>1, <4>1, ServedStep DEF ServingInv, tasks, Tasks
      <4> QED BY <3>1, <4>1, <4>2 DEF ServingInv
    <3> QED BY <3>2, <3>3
  <2>2. CASE \E t \in Timers : Reset(t)
    <3>1. /\ UNCHANGED <<backend, conductor, object, spawned, tasks, served, given_up>>
          /\ \/ UNCHANGED <<remote, session>>
             \/ remote' = None /\ session' # "open"
          BY <2>2 DEF Reset, ServerStops
    <3> QED BY <1>0, <3>1, QuietServing
  <2> QED BY <1>8, <2>1, <2>2
<1>7. Scripts \cup Timers \subseteq Tasks
    BY DEF Tasks
<1> QED BY <1>1, <1>2, <1>3, <1>4, <1>5, <1>6, <1>7, <1>8 DEF Next

\* The steps of an installation are served by one conductor, however the player is shut
\* down, cleaned up and started again meanwhile, unless a kill of its object was rejected.
THEOREM InstallsOnOne == OneScript => (Spec => []OneConductorPerInstall)
<1> SUFFICES ASSUME OneScript PROVE Spec => []OneConductorPerInstall
    OBVIOUS
<1>1. StopInv /\ ServingInv => OneConductorPerInstall
  <2> SUFFICES ASSUME StopInv, ServingInv, NEW t \in Tasks, pc[t] # "idle", mine[t] \notin given_up
               PROVE  Cardinality(served[t]) <= 1
      BY DEF OneConductorPerInstall
  <2>1. \E x : served[t] \subseteq {x}
    <3>1. CASE t \in Helpers
          BY <3>1 DEF ServingInv, ServedInv, Installing
    <3>2. CASE t \notin Helpers
          BY <3>2 DEF ServingInv, ServedInv
    <3> QED BY <3>1, <3>2
  <2>2. served[t] = {} \/ \E x : served[t] = {x}
        BY <2>1
  <2>3. /\ Cardinality({}) = 0
        /\ \A x : Cardinality({x}) = 1
        BY FS_EmptySet, FS_Singleton
  <2>4. Cardinality(served[t]) \in {0, 1}
        BY <2>2, <2>3, Zenon
  <2> QED BY <2>4
<1>2. Init => ServingInv
    BY InitServing
<1>3. StopInv /\ ServingInv /\ [Next]_vars => ServingInv'
    BY ServingStep
<1> QED BY <1>1, <1>2, <1>3, StopInductive, PTL DEF Spec
=============================================================================
