----------------------------- MODULE Orchestrator -----------------------------
(***************************************************************************)
(* A run of the orchestrator (orchestrator.ts) over its registered         *)
(* scenarios with the middleware of a mode (middleware.ts), and the        *)
(* ScenarioApi of each scenario (api.ts): its players, its session to a    *)
(* trycp server, its activity timer and its cleanup.                       *)
(*                                                                         *)
(* A scenario function creates players in one or more calls of s.players,  *)
(* starts and stops them, calls their conductors, and returns or throws.   *)
(* The cleanup at its end and the one the timer forces may overlap.  How a *)
(* player starts and stops is in PlayerLifecycle, what a session does in   *)
(* TrycpSession: here they succeed, fail or never settle.                  *)
(***************************************************************************)
EXTENDS Naturals, Sequences, FiniteSets, SequencesExt

CONSTANTS
    Registered,     \* the scenarios, a sequence in the order of registration
    Players,        \* the players of each scenario, a function
    None

Scenarios == ToSet(Registered)

ASSUME RegisteredAssumption ==
    Registered \in Seq(Scenarios) /\ Len(Registered) = Cardinality(Scenarios)

VARIABLES
    modifier,       \* "only", "skip" or None
    executor,       \* "series" (runSeries, mode none), "tape", or "unit" (no executor)
    todo, current, stage,   \* the loop of _executeSeries
    last_promise,   \* runSeries: the promise the next scenario is chained to
    fn,             \* the scenario function: "none", "returned", "threw", or its await
    callee,         \* the player it starts, calls or shuts down, or None
    execution,      \* the promise of execute(): "none", "pending", "resolved", "rejected"
    successes, errors,
    batch,          \* the players that the call under way builds or has to start
    auto_start,     \* startupArg of that call
    player,         \* "none", "down" (no _conductor) or "up"
    local_players,  \* _localPlayers, remote ones included
    remote,         \* the players on a trycp server
    forsaken,       \* those a conductor of which may run that nobody will stop
    session,        \* to a trycp server: "none", "open", "closing" (since a reset), "closed"
    clients,        \* whether the session is in _trycpClients
    timer,          \* whether _activityTimer is set
    cleaning,       \* what each cleanup awaits: "none", "players", "reset", "close";
                    \* "hung" if one of its kills never settles, "failed" if it was rejected
    stopping        \* the players a cleanup is stopping

run == <<todo, current, stage, last_promise, successes, errors>>
script == <<fn, callee, execution, batch, auto_start>>
machine == <<player, local_players, remote, forsaken, session, clients>>
cleanups == <<cleaning, stopping>>
vars == <<modifier, executor, run, script, machine, timer, cleanups>>

Cleanups == {"end", "forced"}

\* .only excludes all others, .skip excludes one.
SomeOnly == \E t \in Scenarios : modifier[t] = "only"
MutSkippedToo(s) == IF SomeOnly THEN modifier[s] = "only" ELSE TRUE
Wanted(s) == IF SomeOnly THEN modifier[s] = "only" ELSE modifier[s] # "skip"

\* The scenarios that are wanted, in the order of registration.
Kept     == {i \in 1 .. Len(Registered) : Wanted(Registered[i])}
Place(i) == Cardinality({j \in Kept : j <= i})
Tests    == [n \in 1 .. Cardinality(Kept) |->
                Registered[CHOOSE i \in Kept : Place(i) = n]]

Init ==
    /\ modifier \in [Scenarios -> {"only", "skip", None}]
    /\ executor \in {"series", "tape", "unit"}
    /\ todo = Tests
    /\ current = None
    /\ stage = "loop"
    /\ last_promise = "resolved"
    /\ fn = [s \in Scenarios |-> "none"]
    /\ callee = [s \in Scenarios |-> None]
    /\ execution = [s \in Scenarios |-> "none"]
    /\ successes = 0
    /\ errors = <<>>
    /\ batch = [s \in Scenarios |-> {}]
    /\ auto_start = [s \in Scenarios |-> FALSE]
    /\ player = [s \in Scenarios |-> [p \in Players[s] |-> "none"]]
    /\ local_players = [s \in Scenarios |-> {}]
    /\ remote = [s \in Scenarios |-> {}]
    /\ forsaken = [s \in Scenarios |-> {}]
    /\ session = [s \in Scenarios |-> "none"]
    /\ clients = [s \in Scenarios |-> FALSE]
    /\ timer = [s \in Scenarios |-> FALSE]
    /\ cleaning = [s \in Scenarios |-> [c \in Cleanups |-> "none"]]
    /\ stopping = [s \in Scenarios |-> [c \in Cleanups |-> {}]]

-----------------------------------------------------------------------------
\* The loop of _executeSeries.

\* execute() applies the middleware.  runSeries runs the function when the previous
\* promise resolves, and is rejected with it otherwise; tapeExecutor refuses a function
\* that does not take two arguments; localOnly and unit run it as it is.
Execute ==
    /\ stage = "loop" /\ todo # <<>>
    /\ LET s == Head(todo)
           Runs == fn' = [fn EXCEPT ![s] = "script"]
                   /\ execution' = [execution EXCEPT ![s] = "pending"]
           Refuses == fn' = fn /\ execution' = [execution EXCEPT ![s] = "rejected"]
       IN  /\ current' = s
           /\ \/ executor = "tape" /\ Refuses
              \/ executor = "series" /\ last_promise = "rejected" /\ Refuses
              \/ ~(executor = "series" /\ last_promise = "rejected") /\ Runs
    /\ todo' = Tail(todo)
    /\ stage' = "executing"
    /\ UNCHANGED <<modifier, executor, last_promise, successes, errors, callee, batch,
                   auto_start, machine, timer, cleanups>>

\* The cleanup asks every player for its conductor and stops those there are, all at once:
\* a player has none from then on, whatever comes of the kill.
Stops(s, c) ==
    LET up == {p \in local_players[s] : player[s][p] = "up"} IN
    /\ player' = [player EXCEPT ![s] = [p \in Players[s] |-> IF p \in up THEN "down" ELSE @[p]]]
    /\ stopping' = [stopping EXCEPT ![s][c] = up]
    /\ cleaning' = [cleaning EXCEPT ![s][c] = "players"]

\* The scenario is counted, and finally cleans up.
Executed ==
    LET s == current IN
    /\ stage = "executing" /\ execution[s] \in {"resolved", "rejected"}
    /\ IF execution[s] = "resolved"
       THEN successes' = successes + 1 /\ UNCHANGED errors
       ELSE errors' = Append(errors, s) /\ UNCHANGED successes
    /\ stage' = "cleanup"
    /\ Stops(s, "end")
    /\ UNCHANGED <<modifier, executor, todo, current, last_promise, script, local_players, remote,
                   forsaken, session, clients, timer>>

Report ==
    /\ stage = "loop" /\ todo = <<>>
    /\ stage' = "done"
    /\ UNCHANGED <<modifier, executor, todo, current, last_promise, successes, errors,
                   script, machine, timer, cleanups>>

-----------------------------------------------------------------------------
\* The scenario function of s, and s.players.

At(s, label) == fn[s] = label

\* A trycp server answers for a player until its session is closed.
Answers(s, ps) == ps \cap remote[s] # {} => session[s] \in {"open", "closing"}
FnGoes(s, label) == fn' = [fn EXCEPT ![s] = label]

Settled(how) == IF how = "returned" THEN "resolved" ELSE "rejected"

FnEnds(s, how) ==
    /\ FnGoes(s, how)
    /\ execution' = [execution EXCEPT ![s] = Settled(how)]
    /\ last_promise' = IF executor = "series" THEN Settled(how) ELSE last_promise

Throws(s) ==
    /\ FnEnds(s, "threw")
    /\ callee' = [callee EXCEPT ![s] = None]
    /\ batch' = [batch EXCEPT ![s] = {}]
    /\ auto_start' = [auto_start EXCEPT ![s] = FALSE]

Return(s) ==
    /\ At(s, "script")
    /\ \E how \in {"returned", "threw"} : FnEnds(s, how)
    /\ UNCHANGED <<modifier, executor, todo, current, stage, successes, errors, callee, batch,
                   auto_start, machine, timer, cleanups>>

\* One call of a scenario may be for a trycp server: it opens a session and resets the
\* server, or does not when resetTrycp is false.
CallPlayers(s, ps, start) ==
    /\ At(s, "script")
    /\ ps # {} /\ \A p \in ps : player[s][p] = "none"
    /\ batch' = [batch EXCEPT ![s] = ps]
    /\ auto_start' = [auto_start EXCEPT ![s] = start]
    /\ \/ FnGoes(s, "building") /\ UNCHANGED <<session, clients, remote>>
       \/ /\ session[s] = "none"
          /\ session' = [session EXCEPT ![s] = "open"]
          /\ remote' = [remote EXCEPT ![s] = ps]
          /\ \/ FnGoes(s, "reset") /\ UNCHANGED clients
             \/ FnGoes(s, "building") /\ clients' = [clients EXCEPT ![s] = TRUE]
    /\ UNCHANGED <<modifier, executor, run, execution, callee, player, local_players, forsaken,
                   timer, cleanups>>

\* The session is remembered for the cleanup only when its first reset was answered ok.
PlayersReset(s) ==
    /\ At(s, "reset")
    /\ \/ /\ FnGoes(s, "building")
          /\ clients' = [clients EXCEPT ![s] = TRUE]
          /\ UNCHANGED <<last_promise, execution, callee, batch, auto_start>>
       \/ Throws(s) /\ UNCHANGED clients
    /\ UNCHANGED <<modifier, executor, todo, current, stage, successes, errors, player,
                   local_players, remote, forsaken, session, timer, cleanups>>

\* Configurations are generated and written, locally or by the server.
Built(s) ==
    /\ At(s, "building") /\ Answers(s, batch[s])
    /\ player' = [player EXCEPT ![s] = [p \in Players[s] |->
                                            IF p \in batch[s] THEN "down" ELSE @[p]]]
    /\ local_players' = [local_players EXCEPT ![s] = @ \cup batch[s]]
    /\ FnGoes(s, IF auto_start[s] THEN "starting" ELSE "script")
    /\ batch' = [batch EXCEPT ![s] = IF auto_start[s] THEN @ ELSE {}]
    /\ auto_start' = [auto_start EXCEPT ![s] = FALSE]
    /\ UNCHANGED <<modifier, executor, run, execution, callee, remote, forsaken, session,
                   clients, timer, cleanups>>

BuildFails(s) ==
    /\ At(s, "building") /\ Answers(s, batch[s])
    /\ Throws(s)
    /\ UNCHANGED <<modifier, executor, todo, current, stage, successes, errors, machine,
                   timer, cleanups>>

\* The players of a batch are started one after the other; a script may start one too.
Start(s, p) ==
    /\ player[s][p] = "down"
    /\ \/ At(s, "starting") /\ p \in batch[s]
       \/ At(s, "script") /\ p \in local_players[s]
    /\ batch' = [batch EXCEPT ![s] = @ \ {p}]
    /\ callee' = [callee EXCEPT ![s] = p]
    /\ FnGoes(s, "spawning")
    /\ UNCHANGED <<modifier, executor, run, execution, auto_start, machine, timer, cleanups>>

\* The conductor is the player's: initialize begins and tells the api of activity, which
\* restarts the timer.  A server on which a reset has been answered has no player to start.
Spawned(s, p) ==
    /\ At(s, "spawning") /\ callee[s] = p
    /\ p \in remote[s] => session[s] = "open"
    /\ player' = [player EXCEPT ![s][p] = "up"]
    /\ timer' = [timer EXCEPT ![s] = TRUE]
    /\ FnGoes(s, "initializing")
    /\ UNCHANGED <<modifier, executor, run, execution, callee, batch, auto_start,
                   local_players, remote, forsaken, session, clients, cleanups>>

\* A startup that is rejected may leave a conductor that no object refers to.
SpawnFails(s, p) ==
    /\ At(s, "spawning") /\ callee[s] = p /\ Answers(s, {p})
    /\ \E left \in SUBSET {p} : forsaken' = [forsaken EXCEPT ![s] = @ \cup left]
    /\ Throws(s)
    /\ UNCHANGED <<modifier, executor, todo, current, stage, successes, errors, player,
                   local_players, remote, session, clients, timer, cleanups>>

\* The answers of a remote conductor are activity too.
Initialized(s, p) ==
    /\ At(s, "initializing") /\ callee[s] = p /\ Answers(s, {p})
    /\ callee' = [callee EXCEPT ![s] = None]
    /\ FnGoes(s, IF batch[s] = {} THEN "script" ELSE "starting")
    /\ timer' = [timer EXCEPT ![s] = @ \/ p \in remote[s]]
    /\ UNCHANGED <<modifier, executor, run, execution, batch, auto_start, machine, cleanups>>

InitializeFails(s, p) ==
    /\ At(s, "initializing") /\ callee[s] = p /\ Answers(s, {p})
    /\ Throws(s)
    /\ UNCHANGED <<modifier, executor, todo, current, stage, successes, errors, machine,
                   timer, cleanups>>

\* A call of a conductor.
Call(s, p) ==
    /\ At(s, "script") /\ player[s][p] = "up"
    /\ callee' = [callee EXCEPT ![s] = p]
    /\ FnGoes(s, "calling")
    /\ UNCHANGED <<modifier, executor, run, execution, batch, auto_start, machine, timer,
                   cleanups>>

CallReturns(s, p) ==
    /\ At(s, "calling") /\ callee[s] = p /\ Answers(s, {p})
    /\ callee' = [callee EXCEPT ![s] = None]
    /\ FnGoes(s, "script")
    /\ timer' = [timer EXCEPT ![s] = @ \/ p \in remote[s]]
    /\ UNCHANGED <<modifier, executor, run, execution, batch, auto_start, machine, cleanups>>

\* The script shuts a player down.
Shutdown(s, p) ==
    /\ At(s, "script") /\ player[s][p] = "up"
    /\ player' = [player EXCEPT ![s][p] = "down"]
    /\ callee' = [callee EXCEPT ![s] = p]
    /\ FnGoes(s, "shutdown")
    /\ UNCHANGED <<modifier, executor, run, execution, batch, auto_start, local_players, remote,
                   forsaken, session, clients, timer, cleanups>>

ShutdownReturns(s, p) ==
    /\ At(s, "shutdown") /\ callee[s] = p /\ Answers(s, {p})
    /\ callee' = [callee EXCEPT ![s] = None]
    /\ FnGoes(s, "script")
    /\ UNCHANGED <<modifier, executor, run, execution, batch, auto_start, machine, timer,
                   cleanups>>

\* A disconnect or shutdown that the server refuses.
ShutdownFails(s, p) ==
    /\ At(s, "shutdown") /\ callee[s] = p /\ p \in remote[s] /\ Answers(s, {p})
    /\ forsaken' = [forsaken EXCEPT ![s] = @ \cup {p}]
    /\ Throws(s)
    /\ UNCHANGED <<modifier, executor, todo, current, stage, successes, errors, player,
                   local_players, remote, session, clients, timer, cleanups>>

\* What is never settled: the start of a local player whose lair prints nothing, its kill
\* when one of its processes had ended, a remote call whose app connection ends.
NeverSettles(s, p) ==
    /\ callee[s] = p
    /\ IF p \in remote[s] THEN At(s, "calling") ELSE At(s, "spawning") \/ At(s, "shutdown")
    /\ FnGoes(s, "stuck")
    /\ UNCHANGED <<modifier, executor, run, callee, execution, batch, auto_start, machine,
                   timer, cleanups>>

-----------------------------------------------------------------------------
\* _cleanup, at the end of the scenario or forced by the timer.

\* Conductors that are up, or are being stopped and still have a client.
Open(s) ==
    {p \in Players[s] :
        \/ player[s][p] = "up"
        \/ \E c \in Cleanups : p \in stopping[s][c]
        \/ At(s, "shutdown") /\ callee[s] = p}

\* A signal, or the answer to a call that nobody awaits, restarts the timer at any time.
Activity(s) ==
    /\ \E p \in Open(s) : Answers(s, {p})
    /\ timer' = [timer EXCEPT ![s] = TRUE]
    /\ UNCHANGED <<modifier, executor, run, script, machine, cleanups>>

\* A timer may fire again when the cleanup it forced before is over.
TimerFires(s) ==
    /\ timer[s]
    /\ cleaning[s]["forced"] \in {"none", "hung", "failed"} /\ stopping[s]["forced"] = {}
    /\ timer' = [timer EXCEPT ![s] = FALSE]
    /\ Stops(s, "forced")
    /\ UNCHANGED <<modifier, executor, run, script, local_players, remote, forsaken, session,
                   clients>>

CleanupGoes(s, c, label) == cleaning' = [cleaning EXCEPT ![s][c] = label]

PlayerStopped(s, c, p) ==
    /\ p \in stopping[s][c] /\ Answers(s, {p})
    /\ stopping' = [stopping EXCEPT ![s][c] = @ \ {p}]
    /\ UNCHANGED <<modifier, executor, run, script, machine, timer, cleaning>>

\* A process of a local conductor had ended before it was killed: the others end, and
\* the kill waits for ever.
KillHangs(s, c, p) ==
    /\ p \in stopping[s][c] \ remote[s]
    /\ stopping' = [stopping EXCEPT ![s][c] = @ \ {p}]
    /\ CleanupGoes(s, c, IF cleaning[s][c] = "players" THEN "hung" ELSE cleaning[s][c])
    /\ UNCHANGED <<modifier, executor, run, script, machine, timer>>

\* A disconnect or shutdown is refused: nobody will stop that conductor, and _cleanup is
\* rejected, and with it the run.
KillFails(s, c, p) ==
    /\ p \in stopping[s][c] \cap remote[s] /\ Answers(s, {p})
    /\ stopping' = [stopping EXCEPT ![s][c] = @ \ {p}]
    /\ forsaken' = [forsaken EXCEPT ![s] = @ \cup {p}]
    /\ CleanupGoes(s, c, "failed")
    /\ stage' = IF c = "end" THEN "rejected" ELSE stage
    /\ UNCHANGED <<modifier, executor, todo, current, last_promise, successes, errors,
                   script, player, local_players, remote, session, clients, timer>>

TimerCleared(s) == [timer EXCEPT ![s] = FALSE]

\* The cleanup at the end resumes the loop.
CleanupEnds(s, c) ==
    /\ CleanupGoes(s, c, "none")
    /\ timer' = TimerCleared(s)
    /\ stage' = IF c = "end" THEN "loop" ELSE stage

MutNotAwaited(s, c) == TRUE
AllStopped(s, c) == stopping[s][c] = {}

PlayersStopped(s, c) ==
    /\ cleaning[s][c] = "players" /\ AllStopped(s, c)
    /\ IF clients[s] THEN CleanupGoes(s, c, "reset") /\ UNCHANGED <<timer, stage>>
       ELSE CleanupEnds(s, c)
    /\ UNCHANGED <<modifier, executor, todo, current, last_promise, successes, errors,
                   script, machine, stopping>>

\* The server has stopped what it still ran, and closeSession begins: what is sent on the
\* session from now on is lost.
ResetAnswered(s, c) ==
    /\ cleaning[s][c] = "reset" /\ session[s] \in {"open", "closing"}
    /\ session' = [session EXCEPT ![s] = "closing"]
    /\ CleanupGoes(s, c, "close")
    /\ UNCHANGED <<modifier, executor, run, script, player, local_players, remote, forsaken,
                   clients, timer, stopping>>

\* The reset is refused: so are _cleanup and the run.
ResetFails(s, c) ==
    /\ cleaning[s][c] = "reset" /\ session[s] \in {"open", "closing"}
    /\ CleanupGoes(s, c, "failed")
    /\ stage' = IF c = "end" THEN "rejected" ELSE stage
    /\ UNCHANGED <<modifier, executor, todo, current, last_promise, successes, errors,
                   script, machine, timer, stopping>>

SessionClosed(s, c) ==
    /\ cleaning[s][c] = "close"
    /\ session' = [session EXCEPT ![s] = "closed"]
    /\ CleanupEnds(s, c)
    /\ UNCHANGED <<modifier, executor, todo, current, last_promise, successes, errors,
                   script, player, local_players, remote, forsaken, clients, stopping>>

-----------------------------------------------------------------------------
ScriptStep(s) ==
    \/ \E ps \in SUBSET Players[s], start \in BOOLEAN : CallPlayers(s, ps, start)
    \/ \E p \in Players[s] : Call(s, p) \/ Shutdown(s, p) \/ (At(s, "script") /\ Start(s, p))

AwaitedStep(s) ==
    \/ PlayersReset(s) \/ Built(s) \/ BuildFails(s)
    \/ \E p \in Players[s] :
        \/ (At(s, "starting") /\ Start(s, p))
        \/ Spawned(s, p) \/ SpawnFails(s, p) \/ Initialized(s, p) \/ InitializeFails(s, p)
        \/ CallReturns(s, p) \/ ShutdownReturns(s, p) \/ ShutdownFails(s, p)
        \/ NeverSettles(s, p)

CleanupStep(s, c) ==
    \/ PlayersStopped(s, c) \/ ResetAnswered(s, c) \/ ResetFails(s, c) \/ SessionClosed(s, c)
    \/ \E p \in Players[s] : PlayerStopped(s, c, p) \/ KillHangs(s, c, p) \/ KillFails(s, c, p)

Next ==
    \/ Execute \/ Executed \/ Report
    \/ \E s \in Scenarios :
        \/ ScriptStep(s) \/ AwaitedStep(s) \/ Return(s) \/ Activity(s) \/ TimerFires(s)
        \/ \E c \in Cleanups : CleanupStep(s, c)

\* A scenario function that is not kept waiting ends, also when it calls again and again;
\* what conductors, servers and files owe an answer for is answered, or never will be.
Fairness ==
    /\ WF_vars(Execute) /\ WF_vars(Executed) /\ WF_vars(Report)
    /\ \A s \in Scenarios :
        /\ SF_vars(Return(s)) /\ WF_vars(AwaitedStep(s))
        /\ \A c \in Cleanups : WF_vars(CleanupStep(s, c))

Spec == Init /\ [][Next]_vars

FairSpec == Spec /\ Fairness

-----------------------------------------------------------------------------
TypeOK ==
    /\ modifier \in [Scenarios -> {"only", "skip", None}]
    /\ executor \in {"series", "tape", "unit"}
    /\ todo \in Seq(Scenarios) /\ errors \in Seq(Scenarios) /\ successes \in Nat
    /\ current \in Scenarios \cup {None}
    /\ stage \in {"loop", "executing", "cleanup", "done", "rejected"}
    /\ last_promise \in {"resolved", "rejected"}
    /\ fn \in [Scenarios -> {"none", "script", "reset", "building", "starting", "spawning",
                             "initializing", "calling", "shutdown", "stuck", "returned", "threw"}]
    /\ \A s \in Scenarios : callee[s] \in Players[s] \cup {None}
    /\ execution \in [Scenarios -> {"none", "pending", "resolved", "rejected"}]
    /\ \A s \in Scenarios :
        batch[s] \cup local_players[s] \cup remote[s] \cup forsaken[s] \subseteq Players[s]
    /\ auto_start \in [Scenarios -> BOOLEAN]
    /\ \A s \in Scenarios : player[s] \in [Players[s] -> {"none", "down", "up"}]
    /\ session \in [Scenarios -> {"none", "open", "closing", "closed"}]
    /\ clients \in [Scenarios -> BOOLEAN]
    /\ timer \in [Scenarios -> BOOLEAN]
    /\ cleaning \in [Scenarios -> [Cleanups -> {"none", "players", "reset", "close", "hung",
                                                "failed"}]]
    /\ \A s \in Scenarios : stopping[s] \in [Cleanups -> SUBSET Players[s]]

\* A conductor of p may run: an object refers to it, it is being spawned or stopped, or
\* was left by what failed.  A reset of the server has ended those it kept.
Runs(s, p) ==
    /\ \/ player[s][p] = "up"
       \/ callee[s] = p /\ fn[s] \in {"spawning", "shutdown"}
       \/ \E c \in Cleanups : p \in stopping[s][c]
       \/ p \in forsaken[s]
    /\ p \in remote[s] => session[s] \notin {"closing", "closed"}

Clean(s) ==
    /\ \A p \in Players[s] :
        /\ player[s][p] # "up"
        /\ Runs(s, p) => p \notin remote[s] /\ p \in forsaken[s] \cup stopping[s]["forced"]
    /\ timer[s] => cleaning[s]["forced"] # "none"
    /\ clients[s] => session[s] = "closed"

\* "Each scenario will automatically shutdown all running conductors" (README.md:247):
\* before the next scenario runs and before the run ends, every conductor of an earlier one
\* has ended, its timer is off and its session is closed, however it ended and whether or
\* not the timer cleaned up in the middle (_executeSeries, _cleanup).  The code ensures it
\* but for three cases, which the property names: a local conductor that a rejected
\* startup forgot, those that a cleanup forced by the timer is still killing while the
\* cleanup at the end no longer finds them, and a timer that these have set.  The session
\* of a first reset that failed is in no list and stays open, with no conductor.
NothingLeft ==
    \A s \in Scenarios : s # current \/ stage \in {"loop", "done"} => Clean(s)

\* The report of a run accounts for every scenario that was selected, once, as a success
\* exactly when its function returned; and without runSeries a scenario that fails does not
\* keep another from being run (run, _executeSeries, the executors).
HonestReport ==
    stage = "done" =>
        /\ successes = Cardinality({s \in Scenarios : fn[s] = "returned"})
        /\ successes + Len(errors) = Len(Tests)
        /\ \A s \in Scenarios :
            /\ s \in ToSet(errors) => execution[s] = "rejected"
            /\ (executor = "unit" /\ s \in ToSet(Tests)) => fn[s] \in {"returned", "threw"}
            /\ fn[s] # "none" => modifier[s] # "skip"

Ended == stage \in {"done", "rejected"}

\* The timer has closed the session under the scenario or under the cleanup at its end.
SessionLost(s) ==
    /\ session[s] = "closed"
    /\ stage = "executing" \/ cleaning[s]["end"] \in {"players", "hung", "reset"}

\* What the scenario or the cleanup at its end awaits will never be settled.
Stuck(s) == fn[s] = "stuck" \/ cleaning[s]["end"] = "hung"


\* A conductor self-destructs after some time of inactivity "to allow the tests to complete
\* even if the conductor hangs/deadlocks" (CHANGELOG.md:117).  Apart from awaits that
\* nothing settles, with or without the timer, it would at least never keep a run from
\* ending (_destroyLocalConductors).
TestsComplete == <>(Ended \/ \E s \in Scenarios : Stuck(s))
=============================================================================
