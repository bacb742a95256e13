--------------------------- MODULE PlayerLifecycle ---------------------------
(***************************************************************************)
(* One player of a scenario (player.ts), the Conductor objects it creates  *)
(* (conductor.ts) and the conductors behind them: child processes of the   *)
(* test (spawnLocal) or of a trycp server (spawnRemote, spawn.ts).         *)
(*                                                                         *)
(* The scenario and the activity timer of the ScenarioApi run as tasks: a  *)
(* step is what one does up to its next await.  A trycp server handles the *)
(* requests of a session in the order they were sent: its answer is chosen *)
(* when a request is sent, and received after those to earlier requests.   *)
(* A request that is sent after the session has closed has no answer: the  *)
(* timer closes it, whatever the scenario waits for (_cleanup of api.ts).  *)
(***************************************************************************)
EXTENDS Naturals, Sequences, FiniteSets

CONSTANTS
    Scripts,    \* tasks that start and stop the player: the scenario
    Helpers,    \* tasks that install happs while the scenario goes on
    Timers,     \* tasks that only clean it up: the activity timer, a failed scenario
    MaxSpawns,  \* bound: how often the player is started
    None

ASSUME TasksAssumption == (Scripts \cup Timers) \cap Helpers = {}
ASSUME SpawnsAssumption == MaxSpawns \in Nat
ASSUME NoneAssumption == None \notin Nat \cup {"ok", "err", "handler", "undefined"}

Tasks == Scripts \cup Helpers \cup Timers
Objects == 1 .. MaxSpawns
Processes == {"lair", "holochain"}

VARIABLES
    backend,        \* "local" or "trycp", the same for all conductors of a player
    conductor,      \* _conductor of the player
    on_signal,      \* onSignal of the player: "handler" or None
    object,         \* the Conductor objects
    spawned,        \* how many were created
    proc,           \* the processes that the startup of an object spawned
    remote,         \* trycp: whose startup spawned the conductor the server keeps
    session,        \* trycp: "open", "reset" (the server has forgotten the player), or
                    \*   "closed" for all requests to come
    cleaned,        \* timers that have cleaned the player up and reset the server next
    subscribed,     \* objects whose app port has a subscription
    pc, mine, answer,   \* of a task: its await, its object, the answer to come
    queue,          \* trycp: the tasks that wait for an answer, in the order they asked
    awaiting,       \* the close events that a kill still waits for
    served,         \* history: the processes that served the installation of a task
    given_up,       \* history: objects whose kill was rejected
    forsaken,       \* history: conductors whose startup or kill was rejected and that
                    \*   no later startup has adopted
    crashed         \* history: local objects one of whose processes ended by itself

tasks == <<pc, mine, answer, queue>>
machine == <<session, cleaned>>
world == <<proc, remote, crashed, forsaken, machine>>
vars == <<backend, conductor, on_signal, object, spawned, world, subscribed, tasks,
          awaiting, served, given_up>>

\* "undefined": the constructor does not assign _onSignal, whatever it is given.
NewObject == [app_client |-> FALSE, admin_client |-> backend = "trycp",
              on_signal |-> "undefined", app_port |-> FALSE]

Init ==
    /\ backend \in {"local", "trycp"}
    /\ conductor = None
    /\ on_signal = None
    /\ object = [k \in Objects |-> NewObject]
    /\ spawned = 0
    /\ proc = [k \in Objects |-> [lair |-> "none", holochain |-> "none"]]
    /\ remote = None
    /\ subscribed = {}
    /\ pc = [t \in Tasks |-> "idle"]
    /\ mine = [t \in Tasks |-> None]
    /\ answer = [t \in Tasks |-> None]
    /\ queue = <<>>
    /\ awaiting = [t \in Tasks |-> {}]
    /\ served = [t \in Tasks |-> {}]
    /\ session = "open"
    /\ cleaned = {}
    /\ given_up = {}
    /\ forsaken = {}
    /\ crashed = {}

-----------------------------------------------------------------------------
\* What the server is asked for.  A DNA is read before it is asked to save it, which it
\* may have done long ago: that answer comes whenever it comes.
Requests == {"spawn", "attach", "app", "close_app", "kill", "key", "register", "install",
             "enable"}

\* t goes on, with object k, and awaits at label what was answered with a.
Goes(t, k, label, a) ==
    LET others == IF queue # <<>> /\ Head(queue) = t THEN Tail(queue) ELSE queue IN
    /\ pc' = [pc EXCEPT ![t] = label]
    /\ mine' = [mine EXCEPT ![t] = k]
    /\ answer' = [answer EXCEPT ![t] = a]
    /\ queue' = IF backend = "trycp" /\ label \in Requests THEN Append(others, t) ELSE others

Await(t, label, a) == Goes(t, mine[t], label, a)
Ends(t) == Goes(t, None, "idle", None)

\* The process that a request made through object k reaches.
Reached(k) == IF backend = "local" THEN k ELSE remote
Up(k) == k # None /\ proc[k].holochain = "up"
\* What is asked for now is answered with one of answers, unless the session has closed.
Sent(answers) == IF session = "closed" THEN {None} ELSE answers
AnswersFor(k) == Sent(IF Up(Reached(k)) THEN {"ok", "err"} ELSE {"err"})
Serving(k) == {Reached(k)} \ {None}

InTurn(t) == \A i \in 1 .. Len(queue) : queue[i] = t => i = 1

Resumes(t, label, a) == pc[t] = label /\ answer[t] = a /\ InTurn(t)

-----------------------------------------------------------------------------
\* startup: a guard, then the spawn function of the player's machine.

MutUnguarded == TRUE
NotRunning == conductor = None

Startup(t) ==
    LET k == spawned + 1 IN
    /\ pc[t] = "idle" /\ NotRunning /\ spawned < MaxSpawns
    /\ spawned' = k
    /\ IF backend = "local"
       THEN /\ proc' = [proc EXCEPT ![k].lair = "up"]
            /\ Goes(t, k, "lair", None)
            /\ UNCHANGED remote
       ELSE \* the server answers ok without spawning when it keeps a conductor already;
            \* an error may come after it has spawned and stored one
            \/ /\ remote = None /\ session = "open"
               /\ proc' = [proc EXCEPT ![k].holochain = "up"]
               /\ remote' = k
               /\ \E a \in {"ok", "err"} : Goes(t, k, "spawn", a)
            \/ /\ \E a \in Sent(IF remote = None THEN {"err"} ELSE {"ok"}) :
                      Goes(t, k, "spawn", a)
               /\ UNCHANGED <<proc, remote>>
    /\ UNCHANGED <<backend, conductor, on_signal, object, subscribed, awaiting, served,
                   given_up, forsaken, crashed, machine>>

\* lair has written to its output: holochain --version may throw, holochain is spawned and
\* handed to the caller's handleHook, which may throw.
LairReady(t) ==
    LET running == [proc EXCEPT ![mine[t]].holochain = "up"] IN
    /\ pc[t] = "lair" /\ proc[mine[t]].lair = "up"
    /\ \/ Ends(t) /\ UNCHANGED <<proc, forsaken>>
       \/ Await(t, "ready", None) /\ proc' = running /\ UNCHANGED forsaken
       \/ Ends(t) /\ proc' = running /\ forsaken' = forsaken \cup {mine[t]}
    /\ UNCHANGED <<backend, conductor, on_signal, object, spawned, remote, subscribed,
                   awaiting, served, given_up, crashed, machine>>

\* awaitInterfaceReady: the conductor's output says that it is ready, or it has exited.
\* A Conductor is made of it and initialize connects to its admin interface.
InterfaceReady(t) ==
    /\ pc[t] = "ready" /\ Up(mine[t])
    /\ conductor' = mine[t]
    /\ Await(t, "admin", None)
    /\ UNCHANGED <<backend, on_signal, object, spawned, world, subscribed, awaiting,
                   served, given_up>>

InterfaceClosed(t) ==
    /\ pc[t] = "ready" /\ proc[mine[t]].holochain = "closed"
    /\ Ends(t)
    /\ UNCHANGED <<backend, conductor, on_signal, object, spawned, world, subscribed,
                   awaiting, served, given_up>>

\* A trycp conductor has its admin client from the start: initialize attaches at once.
Spawned(t) ==
    /\ Resumes(t, "spawn", "ok")
    /\ conductor' = mine[t]
    /\ forsaken' = {}
    /\ \E a \in AnswersFor(mine[t]) : Await(t, "attach", a)
    /\ UNCHANGED <<backend, on_signal, object, spawned, proc, remote, crashed, machine,
                   subscribed, awaiting, served, given_up>>

AdminConnected(t) ==
    LET k == mine[t] IN
    /\ pc[t] = "admin"
    /\ IF Up(k)
       THEN /\ object' = [object EXCEPT ![k].admin_client = TRUE]
            /\ \E a \in AnswersFor(k) : Await(t, "attach", a)
       ELSE Ends(t) /\ UNCHANGED object
    /\ UNCHANGED <<backend, conductor, on_signal, spawned, world, subscribed, awaiting,
                   served, given_up>>

Attached(t) ==
    /\ Resumes(t, "attach", "ok")
    /\ \E a \in AnswersFor(mine[t]) : Await(t, "app", a)
    /\ UNCHANGED <<backend, conductor, on_signal, object, spawned, world, subscribed,
                   awaiting, served, given_up>>

Wanted(k) == object[k].on_signal # None

AppConnected(t) ==
    LET k == mine[t] IN
    /\ Resumes(t, "app", "ok")
    /\ object' = [object EXCEPT ![k].app_client = TRUE,
                                ![k].app_port = (backend = "trycp")]
    /\ subscribed' = IF backend = "trycp" /\ Wanted(k) THEN subscribed \cup {k} ELSE subscribed
    /\ Ends(t)
    /\ UNCHANGED <<backend, conductor, on_signal, spawned, world, awaiting, served, given_up>>

\* What is answered with an error rejects startup; _conductor stays as it is: None after a
\* rejected spawn, whatever the server has spawned and keeps.
StartupFails(t) ==
    /\ \/ \E label \in {"attach", "app"} : Resumes(t, label, "err") /\ UNCHANGED forsaken
       \/ Resumes(t, "spawn", "err") /\ forsaken' = forsaken \cup Serving(mine[t])
    /\ Ends(t)
    /\ UNCHANGED <<backend, conductor, on_signal, object, spawned, proc, remote, crashed,
                   machine, subscribed, awaiting, served, given_up>>

-----------------------------------------------------------------------------
\* setSignalHandler of the player and of its conductor, which subscribes or not depending
\* on the handler it had before h is assigned.
MutCurrent(k, h) == h
Previous(k, h) == object[k].on_signal

SignalHandler(h) ==
    LET k == conductor
        remotely == k # None /\ object[k].app_port
    IN
    /\ on_signal' = h
    /\ object' = IF k = None THEN object ELSE [object EXCEPT ![k].on_signal = h]
    /\ subscribed' = IF remotely /\ h = None THEN subscribed \ {k}
                     ELSE IF remotely /\ Previous(k, h) = None THEN subscribed \cup {k}
                     ELSE subscribed

SetSignalHandler(t, h) ==
    /\ pc[t] = "idle"
    /\ SignalHandler(h)
    /\ UNCHANGED <<backend, conductor, spawned, world, tasks, awaiting, served, given_up>>

-----------------------------------------------------------------------------
\* kill of a Conductor: the app client is closed, then the admin client, then the
\* processes are killed.  obj is the object as the code before this step left it.

MutLairNotKilled(p) == [p EXCEPT !.holochain = "dying"]
Signalled(p) ==
    [lair |-> IF p.lair = "up" THEN "dying" ELSE p.lair,
     holochain |-> IF p.holochain = "up" THEN "dying" ELSE p.holochain]

MutConductorOnly == {"holochain"}
Terminated == Processes

\* kill_player for the conductor that the server keeps.
ServerStops ==
    /\ proc' = IF remote = None THEN proc ELSE [proc EXCEPT ![remote].holochain = "closed"]
    /\ remote' = None

\* Local: listens for the close events of both processes and signals them.  trycp: the
\* server stops the conductor it keeps, unless it does not know the signal.
Terminate(t, k) ==
    /\ IF backend = "local"
       THEN /\ proc' = [proc EXCEPT ![k] = Signalled(@)]
            /\ awaiting' = [awaiting EXCEPT ![t] = Terminated]
            /\ Goes(t, k, "kill", "ok")
            /\ UNCHANGED remote
       ELSE /\ \/ session # "closed" /\ Goes(t, k, "kill", "ok") /\ ServerStops
               \/ /\ \E a \in Sent({"err"}) : Goes(t, k, "kill", a)
                  /\ UNCHANGED <<proc, remote>>
            /\ UNCHANGED awaiting

MutAdminKept(o) == o
MutAdminDeleted(o) == [field \in DOMAIN o \ {"admin_client"} |-> o[field]]
AdminClosed(o) == [o EXCEPT !.admin_client = FALSE]

\* The close of a tunneled admin client has nothing to wait for.
CloseAdmin(t, k, obj) ==
    LET closed == IF obj[k].admin_client THEN [obj EXCEPT ![k] = AdminClosed(@)] ELSE obj
    IN  /\ object' = closed
        /\ IF obj[k].admin_client /\ backend = "local"
           THEN Goes(t, k, "close_admin", "ok") /\ UNCHANGED <<proc, remote, awaiting>>
           ELSE Terminate(t, k)

\* disconnect_app_interface may be answered with an error, whoever else may serve the port.
Kill(t, k, obj) ==
    IF obj[k].app_client
    THEN /\ object' = [obj EXCEPT ![k].app_client = FALSE]
         /\ \E a \in Sent(IF backend = "local" THEN {"ok"} ELSE {"ok", "err"}) :
                Goes(t, k, "close_app", a)
         /\ UNCHANGED <<proc, remote, awaiting>>
    ELSE CloseAdmin(t, k, obj)

Shutdown(t) ==
    /\ pc[t] = "idle" /\ conductor # None
    /\ conductor' = None
    /\ Kill(t, conductor, object)
    /\ UNCHANGED <<backend, on_signal, spawned, subscribed, served, given_up, forsaken,
                   crashed, machine>>

\* cleanup: the handler is removed, then the player is shut down if it runs.
Cleanup(t) ==
    /\ pc[t] = "idle" /\ conductor # None
    /\ on_signal' = None
    /\ conductor' = None
    /\ LET obj == [object EXCEPT ![conductor].on_signal = None]
       IN  Kill(t, conductor, obj)
    /\ subscribed' = subscribed \ {conductor}
    /\ UNCHANGED <<backend, spawned, served, given_up, forsaken, crashed, machine>>

\* The cleanup of t has returned: _cleanup resets the server of a remote player next.
Cleaned(t) ==
    cleaned' = IF backend = "trycp" /\ t \in Timers THEN cleaned \cup {t} ELSE cleaned

CleanupIdle(t) ==
    /\ pc[t] = "idle" /\ conductor = None
    /\ SignalHandler(None)
    /\ Cleaned(t)
    /\ UNCHANGED <<backend, conductor, spawned, proc, remote, crashed, forsaken, session,
                   tasks, awaiting, served, given_up>>

AppClosed(t) ==
    /\ Resumes(t, "close_app", "ok")
    /\ CloseAdmin(t, mine[t], object)
    /\ UNCHANGED <<backend, conductor, on_signal, spawned, subscribed, served, given_up,
                   forsaken, crashed, machine>>

AdminCloses(t) ==
    /\ Resumes(t, "close_admin", "ok")
    /\ Terminate(t, mine[t])
    /\ UNCHANGED <<backend, conductor, on_signal, object, spawned, subscribed, served,
                   given_up, forsaken, crashed, machine>>

KillReturns(t) ==
    /\ Resumes(t, "kill", "ok") /\ awaiting[t] = {}
    /\ Ends(t)
    /\ Cleaned(t)
    /\ UNCHANGED <<backend, conductor, on_signal, object, spawned, proc, remote, crashed,
                   forsaken, session, subscribed, awaiting, served, given_up>>

\* A rejected disconnect or shutdown rejects kill: nothing else will stop the conductor.
KillFails(t) ==
    /\ Resumes(t, "close_app", "err") \/ Resumes(t, "kill", "err")
    /\ Ends(t)
    /\ given_up' = given_up \cup {mine[t]}
    /\ forsaken' = forsaken \cup Serving(mine[t])
    /\ UNCHANGED <<backend, conductor, on_signal, object, spawned, proc, remote, crashed,
                   machine, subscribed, awaiting, served>>

-----------------------------------------------------------------------------
\* _cleanup after its players: the server is reset, which fails before it has stopped
\* anything or forgets the player, and the session is closed.
Reset(t) ==
    /\ backend = "trycp" /\ pc[t] = "idle" /\ t \in cleaned /\ session = "open"
    /\ cleaned' = cleaned \ {t}
    /\ \/ session' = "reset" /\ ServerStops
       \/ UNCHANGED <<session, proc, remote>>
    /\ UNCHANGED <<backend, conductor, on_signal, object, spawned, crashed, forsaken,
                   subscribed, tasks, awaiting, served, given_up>>

SessionCloses ==
    /\ session = "reset"
    /\ session' = "closed"
    /\ UNCHANGED <<backend, conductor, on_signal, object, spawned, proc, remote, cleaned,
                   crashed, forsaken, subscribed, tasks, awaiting, served, given_up>>

-----------------------------------------------------------------------------
\* installHapp, installBundledHapp: a key is generated, DNAs are saved on the server if it
\* is remote and registered, the app is installed and enabled, each with the admin client
\* of the object the player had at the beginning; without one the next step throws.
AdminCall(t, k, label, before) ==
    /\ IF object[k].admin_client
       THEN /\ \E a \in AnswersFor(k) : Goes(t, k, label, a)
            /\ served' = [served EXCEPT ![t] = before \cup Serving(k)]
       ELSE Ends(t) /\ served' = [served EXCEPT ![t] = {}]

\* saveDna or downloadDna, which the server serves without the conductor.
SaveDna(t, k, before) ==
    /\ backend = "trycp"
    /\ \E a \in Sent({"ok", "err"}) : Goes(t, k, "save", a)
    /\ served' = [served EXCEPT ![t] = before]

\* What comes after what: a caller may bring the key, a DNA may be given by its hash, and
\* a bundle brings its DNAs.
AfterStep == [key |-> {"register", "install"}, save |-> {"register"},
              register |-> {"install"}, install |-> {"enable"}]

Install(t) ==
    /\ pc[t] = "idle" /\ conductor # None
    /\ \/ \E first \in {"key", "register", "install"} : AdminCall(t, conductor, first, {})
       \/ SaveDna(t, conductor, {})
    /\ UNCHANGED <<backend, conductor, on_signal, object, spawned, world, subscribed,
                   awaiting, given_up>>

InstallStep(t) ==
    /\ \/ \E step \in DOMAIN AfterStep : \E next \in AfterStep[step] :
            Resumes(t, step, "ok") /\ AdminCall(t, mine[t], next, served[t])
       \/ Resumes(t, "key", "ok") /\ SaveDna(t, mine[t], served[t])
    /\ UNCHANGED <<backend, conductor, on_signal, object, spawned, world, subscribed,
                   awaiting, given_up>>

InstallEnds(t) ==
    /\ \/ Resumes(t, "enable", "ok")
       \/ \E step \in DOMAIN AfterStep \cup {"enable"} : Resumes(t, step, "err")
    /\ Ends(t)
    /\ served' = [served EXCEPT ![t] = {}]
    /\ UNCHANGED <<backend, conductor, on_signal, object, spawned, world, subscribed,
                   awaiting, given_up>>

-----------------------------------------------------------------------------
\* The close event of a local process that was signalled.
ProcessCloses(k, p) ==
    /\ proc[k][p] = "dying"
    /\ proc' = [proc EXCEPT ![k][p] = "closed"]
    /\ awaiting' = [t \in Tasks |-> IF mine[t] = k THEN awaiting[t] \ {p} ELSE awaiting[t]]
    /\ UNCHANGED <<backend, conductor, on_signal, object, spawned, remote, crashed,
                   forsaken, machine, subscribed, tasks, served, given_up>>

\* A process ends by itself.
Crash(k, p) ==
    /\ proc[k][p] = "up"
    /\ proc' = [proc EXCEPT ![k][p] = "closed"]
    /\ crashed' = IF backend = "local" THEN crashed \cup {k} ELSE crashed
    /\ UNCHANGED <<backend, conductor, on_signal, object, spawned, remote, forsaken,
                   machine, subscribed, tasks, awaiting, served, given_up>>

-----------------------------------------------------------------------------
Killing(t) ==
    AppClosed(t) \/ AdminCloses(t) \/ KillReturns(t) \/ KillFails(t)

Connecting(t) == Spawned(t) \/ Attached(t) \/ AppConnected(t) \/ StartupFails(t)

Next ==
    \/ \E t \in Scripts :
        \/ Startup(t) \/ LairReady(t) \/ InterfaceReady(t) \/ InterfaceClosed(t)
        \/ AdminConnected(t) \/ Connecting(t)
        \/ Shutdown(t)
        \/ \E h \in {"handler", None} : SetSignalHandler(t, h)
    \/ \E t \in Scripts \cup Timers : Cleanup(t) \/ CleanupIdle(t) \/ Killing(t)
    \/ \E t \in Timers : Reset(t)
    \/ SessionCloses
    \/ \E t \in Helpers : Install(t) \/ InstallStep(t) \/ InstallEnds(t)
    \/ \E k \in Objects, p \in Processes : ProcessCloses(k, p) \/ Crash(k, p)

\* Node resumes a task whose answer came, a server answers what it was asked for, a
\* signalled process ends.
Fairness ==
    /\ \A t \in Scripts : WF_vars(Connecting(t))
    /\ \A t \in Scripts \cup Timers : WF_vars(Killing(t))
    /\ \A t \in Helpers : WF_vars(InstallStep(t) \/ InstallEnds(t))
    /\ \A k \in Objects, p \in Processes : WF_vars(ProcessCloses(k, p))

Spec == Init /\ [][Next]_vars

FairSpec == Spec /\ Fairness

-----------------------------------------------------------------------------
Waits == {"lair", "ready", "spawn", "admin", "attach", "app", "close_app", "close_admin",
          "kill", "key", "save", "register", "install", "enable"}

TypeOK ==
    /\ backend \in {"local", "trycp"}
    /\ conductor \in Objects \cup {None}
    /\ on_signal \in {"handler", None}
    /\ object \in [Objects -> [app_client : BOOLEAN, admin_client : BOOLEAN,
                               on_signal : {"undefined", "handler", None}, app_port : BOOLEAN]]
    /\ spawned \in 0 .. MaxSpawns
    /\ proc \in [Objects -> [Processes -> {"none", "up", "dying", "closed"}]]
    /\ remote \in Objects \cup {None}
    /\ subscribed \in SUBSET Objects
    /\ pc \in [Tasks -> Waits \cup {"idle"}]
    /\ mine \in [Tasks -> Objects \cup {None}]
    /\ answer \in [Tasks -> {"ok", "err", None}]
    /\ queue \in Seq(Tasks)
    /\ awaiting \in [Tasks -> SUBSET Processes]
    /\ served \in [Tasks -> SUBSET Objects]
    /\ session \in {"open", "reset", "closed"}
    /\ cleaned \in SUBSET Timers
    /\ given_up \in SUBSET Objects
    /\ forsaken \in SUBSET Objects
    /\ crashed \in SUBSET Objects

\* k reaches the process that the startup of j spawned.
Reaches(k, j) == backend = "trycp" \/ k = j

Holds(t, k) == mine[t] = k /\ pc[t] \in {"ready", "spawn", "close_app", "close_admin", "kill"}

\* A conductor that runs is never forgotten: the player refers to an object that can stop
\* it, or a startup or shutdown under way does; only a startup or kill that was rejected
\* leaves one behind, until a later startup adopts it.  Startups that fail while they
\* connect and a timer that cleans up in the middle of one leave none (startup, shutdown,
\* cleanup of player.ts, kill of conductor.ts).
NoForgottenConductor ==
    \A j \in Objects : Up(j) =>
        \/ j \in forsaken
        \/ \E k \in Objects : /\ Reaches(k, j)
                             /\ (conductor = k \/ \E t \in Tasks : Holds(t, k))

\* When the shutdown of a conductor resolves, the processes that its startup spawned have
\* ended, lair included: the next startup can take their ports and database
\* (spawn.ts 82-94, player.ts 99-112).
ShutdownStops ==
    [][\A t \in Tasks :
         (pc[t] = "kill" /\ pc'[t] = "idle" /\ mine[t] \notin given_up')
            => \A p \in Processes : proc'[mine[t]][p] \notin {"up", "dying"}]_vars

\* The app port of a remote conductor has a subscription exactly while the conductor has a
\* handler that is not null, in whatever order the handler is set and the port is
\* connected (setSignalHandler and _connectInterfaces of conductor.ts).
SubscribedIffWanted ==
    \A k \in Objects : k \in subscribed <=> object[k].app_port /\ Wanted(k)

\* All steps of an installation are served by one conductor: when the player is shut down,
\* or shut down and started again in the middle, the installation throws rather than go on
\* in the next conductor; unless a kill of its object was rejected and left its admin
\* client as it was (kill and installHapp of conductor.ts).
OneConductorPerInstall ==
    \A t \in Tasks : pc[t] # "idle" /\ mine[t] \notin given_up => Cardinality(served[t]) <= 1

Stopping(t) == pc[t] \in {"close_app", "close_admin", "kill"}

\* A shutdown ends, whatever other tasks do to the player, unless a process of a local
\* conductor ended by itself (spawn.ts 82-94) or the session of a remote one closes before
\* it has its answers (trycp.ts 91-103).
ShutdownReturns ==
    \A t \in Tasks :
        (Stopping(t) /\ mine[t] \notin crashed)
            ~> (~Stopping(t) \/ mine[t] \in crashed \/ session = "closed")

\* The handler given to a player is that of the conductor it is connected to
\* (setSignalHandler of player.ts).
HandlerKept ==
    \A k \in Objects :
        conductor = k /\ object[k].app_client /\ on_signal # None
            => object[k].on_signal = on_signal
=============================================================================
