-------------------------- MODULE Orchestrator_proofs --------------------------
(***************************************************************************)
(* Proofs about Orchestrator, for any scenarios with any players: the      *)
(* types, what of a scenario is left running when the next one starts or   *)
(* the run ends, and that the report of a run is right.                    *)
(***************************************************************************)
EXTENDS Orchestrator, FiniteSetTheorems, FunctionTheorems, SequenceTheorems, TLAPS

\* What a scenario function that is under way awaits.
Active == {"script", "reset", "building", "starting", "spawning", "initializing", "calling",
           "shutdown", "stuck"}

PlayerStates == {"none", "down", "up"}
AllPlayers == UNION {Players[s] : s \in Scenarios}
Tables == UNION {[Players[s] -> PlayerStates] : s \in Scenarios}

RunOK ==
    /\ modifier \in [Scenarios -> {"only", "skip", None}]
    /\ executor \in {"series", "tape", "unit"}
    /\ stage \in {"loop", "executing", "cleanup", "done", "rejected"}
    /\ last_promise \in {"resolved", "rejected"}
    /\ successes \in Nat

ScriptOK ==
    /\ fn \in [Scenarios -> Active \cup {"none", "returned", "threw"}]
    /\ execution \in [Scenarios -> {"none", "pending", "resolved", "rejected"}]
    /\ auto_start \in [Scenarios -> BOOLEAN]

SessionOK ==
    /\ session \in [Scenarios -> {"none", "open", "closing", "closed"}]
    /\ clients \in [Scenarios -> BOOLEAN]
    /\ timer \in [Scenarios -> BOOLEAN]
    /\ cleaning \in [Scenarios -> [Cleanups -> {"none", "players", "reset", "close", "hung",
                                                "failed"}]]

BatchesOK ==
    /\ batch \in [Scenarios -> SUBSET AllPlayers]
    /\ local_players \in [Scenarios -> SUBSET AllPlayers]
    /\ remote \in [Scenarios -> SUBSET AllPlayers]
    /\ forsaken \in [Scenarios -> SUBSET AllPlayers]
    /\ callee \in [Scenarios -> AllPlayers \cup {None}]
    /\ \A s \in Scenarios :
        /\ batch[s] \cup local_players[s] \cup remote[s] \cup forsaken[s] \subseteq Players[s]
        /\ callee[s] \in Players[s] \cup {None}

PlayersOK ==
    /\ player \in [Scenarios -> Tables]
    /\ \A s \in Scenarios : player[s] \in [Players[s] -> PlayerStates]

StoppingOK ==
    /\ stopping \in [Scenarios -> [Cleanups -> SUBSET AllPlayers]]
    /\ \A s \in Scenarios : stopping[s] \in [Cleanups -> SUBSET Players[s]]

\* The types, but for those of the loop's queue and its report.
MachineOK == RunOK /\ ScriptOK /\ SessionOK /\ BatchesOK /\ PlayersOK /\ StoppingOK

\* How far the function of a scenario and its players are: only the scenario the loop
\* awaits is under way, and the cleanup knows the players that have a conductor.
ScriptOf(s) ==
    /\ fn[s] \in Active => s = current /\ stage = "executing" /\ execution[s] = "pending"
    /\ fn[s] \notin {"reset", "building"} => batch[s] \subseteq local_players[s]
    /\ fn[s] \in {"spawning", "initializing", "calling", "shutdown"} => callee[s] \in local_players[s]
    /\ \A p \in Players[s] : player[s][p] = "up" => p \in local_players[s]

\* What is left of a scenario, and until when.
LeftOf(s) ==
    /\ \A p \in Players[s] : player[s][p] = "up" => s = current /\ stage = "executing"
    /\ timer[s] => \/ s = current /\ stage \in {"executing", "cleanup", "rejected"}
                   \/ cleaning[s]["forced"] # "none"
    /\ clients[s] /\ session[s] # "closed" =>
            s = current /\ stage \in {"executing", "cleanup", "rejected"}
    /\ cleaning[s]["end"] \notin {"none", "failed"} => s = current /\ stage = "cleanup"
    /\ stopping[s]["end"] # {} => s = current /\ stage \in {"cleanup", "rejected"}
    /\ \A c \in Cleanups :
        stopping[s][c] # {} => cleaning[s][c] \in {"players", "hung", "failed"}

ScenarioInv(s) == ScriptOf(s) /\ LeftOf(s)

-----------------------------------------------------------------------------
\* What a new table of the players of one scenario, or of what a cleanup stops, leaves.
LEMMA NewTable ==
    ASSUME PlayersOK, NEW s \in Scenarios, NEW t \in [Players[s] -> PlayerStates],
           player' = [player EXCEPT ![s] = t]
    PROVE  PlayersOK'
  <1>1. t \in Tables
      BY DEF Tables
  <1> QED BY <1>1 DEF PlayersOK

\* A player that changes state keeps the tables well formed.
LEMMA NewState ==
    ASSUME PlayersOK, NEW s \in Scenarios, NEW p \in Players[s], NEW state \in PlayerStates,
           player' = [player EXCEPT ![s][p] = state]
    PROVE  PlayersOK' /\ player' = [player EXCEPT ![s] = [player[s] EXCEPT ![p] = state]]
  <1>1. [player[s] EXCEPT ![p] = state] \in [Players[s] -> PlayerStates]
      BY DEF PlayersOK
  <1>2. player' = [player EXCEPT ![s] = [player[s] EXCEPT ![p] = state]]
      OBVIOUS
  <1> QED BY <1>1, <1>2, NewTable

\* A cleanup that stops some players keeps the sets well formed.
LEMMA NewStopping ==
    ASSUME StoppingOK, NEW s \in Scenarios, NEW c \in Cleanups, NEW ps \in SUBSET Players[s],
           stopping' = [stopping EXCEPT ![s][c] = ps]
    PROVE  StoppingOK'
  <1>1. ps \in SUBSET AllPlayers
      BY DEF AllPlayers
  <1>2. stopping' = [stopping EXCEPT ![s] = [stopping[s] EXCEPT ![c] = ps]]
      OBVIOUS
  <1>3. [stopping[s] EXCEPT ![c] = ps] \in [Cleanups -> SUBSET AllPlayers]
      BY <1>1 DEF StoppingOK
  <1>4. [stopping[s] EXCEPT ![c] = ps] \in [Cleanups -> SUBSET Players[s]]
      BY DEF StoppingOK
  <1> QED BY <1>2, <1>3, <1>4 DEF StoppingOK

\* A cleanup that goes on keeps the states of the sessions well formed.
LEMMA NewCleaning ==
    ASSUME SessionOK, NEW s \in Scenarios, NEW c \in Cleanups,
           NEW label \in {"none", "players", "reset", "close", "hung", "failed"},
           CleanupGoes(s, c, label), UNCHANGED <<session, clients>>,
           timer' \in [Scenarios -> BOOLEAN]
    PROVE  SessionOK'
  BY DEF SessionOK, CleanupGoes

\* A cleanup shuts down players of its scenario.
LEMMA StopsType ==
    ASSUME PlayersOK, StoppingOK, BatchesOK, NEW s \in Scenarios, NEW c \in Cleanups, Stops(s, c)
    PROVE  PlayersOK' /\ StoppingOK'
  <1> DEFINE up == {p \in local_players[s] : player[s][p] = "up"}
             table == [p \in Players[s] |-> IF p \in up THEN "down" ELSE player[s][p]]
  <1>1. player' = [player EXCEPT ![s] = table] /\ stopping' = [stopping EXCEPT ![s][c] = up]
      BY DEF Stops
  <1>2. table \in [Players[s] -> PlayerStates]
      BY DEF PlayersOK, PlayerStates
  <1>3. up \in SUBSET Players[s]
      BY DEF BatchesOK
  <1> HIDE DEF up, table
  <1> QED BY <1>1, <1>2, <1>3, NewTable, NewStopping

\* Every step keeps the types.
LEMMA TypeStep == MachineOK /\ [Next]_vars => MachineOK'
  <1> SUFFICES ASSUME MachineOK, [Next]_vars PROVE MachineOK'
      OBVIOUS
  <1>1. CASE Execute
    <2>1. RunOK'
      BY <1>1 DEF MachineOK, RunOK, Execute
    <2>2. ScriptOK'
      BY <1>1 DEF MachineOK, ScriptOK, Execute, Active
    <2>3. SessionOK'
      BY <1>1 DEF MachineOK, SessionOK, Execute, machine, cleanups
    <2>4. BatchesOK'
      BY <1>1 DEF MachineOK, BatchesOK, Execute, machine
    <2>5. PlayersOK'
      BY <1>1 DEF MachineOK, PlayersOK, Execute, machine
    <2>6. StoppingOK'
      BY <1>1 DEF MachineOK, StoppingOK, Execute, cleanups
    <2> QED BY <2>1, <2>2, <2>3, <2>4, <2>5, <2>6 DEF MachineOK
  <1>2. CASE Executed
    <2>1. RunOK'
      BY <1>2 DEF MachineOK, RunOK, Executed
    <2>2. ScriptOK'
      BY <1>2 DEF MachineOK, ScriptOK, Executed, script
    <2>3. SessionOK'
      BY <1>2 DEF MachineOK, SessionOK, Executed, Stops
    <2>4. BatchesOK'
      BY <1>2 DEF MachineOK, BatchesOK, Executed, script
    <2>5. PlayersOK'
      <3>1. CASE current \in Scenarios
            BY <1>2, <3>1, StopsType DEF MachineOK, Executed, Cleanups
      <3>2. CASE current \notin Scenarios
            BY <1>2, <3>2 DEF MachineOK, PlayersOK, Executed, Stops
      <3> QED BY <3>1, <3>2
    <2>6. StoppingOK'
      <3>1. CASE current \in Scenarios
            BY <1>2, <3>1, StopsType DEF MachineOK, Executed, Cleanups
      <3>2. CASE current \notin Scenarios
            BY <1>2, <3>2 DEF MachineOK, StoppingOK, Executed, Stops
      <3> QED BY <3>1, <3>2
    <2> QED BY <2>1, <2>2, <2>3, <2>4, <2>5, <2>6 DEF MachineOK
  <1>3. CASE Report
    <2>1. RunOK'
      BY <1>3 DEF MachineOK, RunOK, Report
    <2>2. ScriptOK'
      BY <1>3 DEF MachineOK, ScriptOK, Report, script
    <2>3. SessionOK'
      BY <1>3 DEF MachineOK, SessionOK, Report, machine, cleanups
    <2>4. BatchesOK'
      BY <1>3 DEF MachineOK, BatchesOK, Report, script, machine
    <2>5. PlayersOK'
      BY <1>3 DEF MachineOK, PlayersOK, Report, machine
    <2>6. StoppingOK'
      BY <1>3 DEF MachineOK, StoppingOK, Report, cleanups
    <2> QED BY <2>1, <2>2, <2>3, <2>4, <2>5, <2>6 DEF MachineOK
  <1>4. ASSUME NEW s \in Scenarios, NEW ps \in SUBSET Players[s],
               NEW start \in BOOLEAN, CallPlayers(s, ps, start)
        PROVE  MachineOK'
    <2>1. RunOK'
      BY <1>4 DEF MachineOK, RunOK, CallPlayers, run
    <2>2. ScriptOK'
      BY <1>4 DEF MachineOK, ScriptOK, CallPlayers, FnGoes, script, Active
    <2>3. SessionOK'
      BY <1>4 DEF MachineOK, SessionOK, CallPlayers, cleanups
    <2>4. BatchesOK'
      BY <1>4 DEF MachineOK, BatchesOK, CallPlayers, script, AllPlayers
    <2>5. PlayersOK'
      BY <1>4 DEF MachineOK, PlayersOK, CallPlayers
    <2>6. StoppingOK'
      BY <1>4 DEF MachineOK, StoppingOK, CallPlayers, cleanups
    <2> QED BY <2>1, <2>2, <2>3, <2>4, <2>5, <2>6 DEF MachineOK
  <1>5. ASSUME NEW s \in Scenarios, PlayersReset(s) PROVE MachineOK'
    <2>1. RunOK'
      BY <1>5 DEF MachineOK, RunOK, PlayersReset, Throws, FnEnds, Settled
    <2>2. ScriptOK'
      BY <1>5 DEF MachineOK, ScriptOK, PlayersReset, FnGoes, Throws, FnEnds, Settled, Active
    <2>3. SessionOK'
      BY <1>5 DEF MachineOK, SessionOK, PlayersReset, cleanups
    <2>4. BatchesOK'
      BY <1>5 DEF MachineOK, BatchesOK, PlayersReset, Throws
    <2>5. PlayersOK'
      BY <1>5 DEF MachineOK, PlayersOK, PlayersReset
    <2>6. StoppingOK'
      BY <1>5 DEF MachineOK, StoppingOK, PlayersReset, cleanups
    <2> QED BY <2>1, <2>2, <2>3, <2>4, <2>5, <2>6 DEF MachineOK
  <1>6. ASSUME NEW s \in Scenarios, Built(s) PROVE MachineOK'
    <2>1. RunOK'
      BY <1>6 DEF MachineOK, RunOK, Built, run
    <2>2. ScriptOK'
      BY <1>6 DEF MachineOK, ScriptOK, Built, FnGoes, script, Active
    <2>3. SessionOK'
      BY <1>6 DEF MachineOK, SessionOK, Built, cleanups
    <2>4. BatchesOK'
      BY <1>6 DEF MachineOK, BatchesOK, Built, script
    <2>5. PlayersOK'
      <3> DEFINE table == [p \in Players[s] |-> IF p \in batch[s] THEN "down" ELSE player[s][p]]
      <3>1. player' = [player EXCEPT ![s] = table]
            BY <1>6 DEF Built
      <3>2. table \in [Players[s] -> PlayerStates]
            BY DEF MachineOK, PlayersOK, PlayerStates
      <3> HIDE DEF table
      <3> QED BY <3>1, <3>2, NewTable DEF MachineOK
    <2>6. StoppingOK'
      BY <1>6 DEF MachineOK, StoppingOK, Built, cleanups
    <2> QED BY <2>1, <2>2, <2>3, <2>4, <2>5, <2>6 DEF MachineOK
  <1>7. ASSUME NEW s \in Scenarios, BuildFails(s) PROVE MachineOK'
    <2>1. RunOK'
      BY <1>7 DEF MachineOK, RunOK, BuildFails, Throws, FnEnds, Settled
    <2>2. ScriptOK'
      BY <1>7 DEF MachineOK, ScriptOK, BuildFails, Throws, FnEnds, FnGoes, Settled, Active
    <2>3. SessionOK'
      BY <1>7 DEF MachineOK, SessionOK, BuildFails, machine, cleanups
    <2>4. BatchesOK'
      BY <1>7 DEF MachineOK, BatchesOK, BuildFails, Throws, machine
    <2>5. PlayersOK'
      BY <1>7 DEF MachineOK, PlayersOK, BuildFails, machine
    <2>6. StoppingOK'
      BY <1>7 DEF MachineOK, StoppingOK, BuildFails, cleanups
    <2> QED BY <2>1, <2>2, <2>3, <2>4, <2>5, <2>6 DEF MachineOK
  <1>8. ASSUME NEW s \in Scenarios, Return(s) PROVE MachineOK'
    <2>1. RunOK'
      BY <1>8 DEF MachineOK, RunOK, Return, FnEnds, Settled
    <2>2. ScriptOK'
      BY <1>8 DEF MachineOK, ScriptOK, Return, FnEnds, FnGoes, Settled, script, Active
    <2>3. SessionOK'
      BY <1>8 DEF MachineOK, SessionOK, Return, machine, cleanups
    <2>4. BatchesOK'
      BY <1>8 DEF MachineOK, BatchesOK, Return, script, machine
    <2>5. PlayersOK'
      BY <1>8 DEF MachineOK, PlayersOK, Return, machine
    <2>6. StoppingOK'
      BY <1>8 DEF MachineOK, StoppingOK, Return, cleanups
    <2> QED BY <2>1, <2>2, <2>3, <2>4, <2>5, <2>6 DEF MachineOK
  <1>9. ASSUME NEW s \in Scenarios, Activity(s) PROVE MachineOK'
    <2>1. RunOK'
      BY <1>9 DEF MachineOK, RunOK, Activity, run
    <2>2. ScriptOK'
      BY <1>9 DEF MachineOK, ScriptOK, Activity, script
    <2>3. SessionOK'
      BY <1>9 DEF MachineOK, SessionOK, Activity, machine, cleanups
    <2>4. BatchesOK'
      BY <1>9 DEF MachineOK, BatchesOK, Activity, script, machine
    <2>5. PlayersOK'
      BY <1>9 DEF MachineOK, PlayersOK, Activity, machine
    <2>6. StoppingOK'
      BY <1>9 DEF MachineOK, StoppingOK, Activity, cleanups
    <2> QED BY <2>1, <2>2, <2>3, <2>4, <2>5, <2>6 DEF MachineOK
  <1>10. ASSUME NEW s \in Scenarios, TimerFires(s) PROVE MachineOK'
    <2>1. RunOK'
      BY <1>10 DEF MachineOK, RunOK, TimerFires, run
    <2>2. ScriptOK'
      BY <1>10 DEF MachineOK, ScriptOK, TimerFires, script
    <2>3. SessionOK'
      BY <1>10 DEF MachineOK, SessionOK, TimerFires, Stops
    <2>4. BatchesOK'
      BY <1>10 DEF MachineOK, BatchesOK, TimerFires, script
    <2>5. PlayersOK'
      BY <1>10, StopsType DEF MachineOK, TimerFires, Cleanups
    <2>6. StoppingOK'
      BY <1>10, StopsType DEF MachineOK, TimerFires, Cleanups
    <2> QED BY <2>1, <2>2, <2>3, <2>4, <2>5, <2>6 DEF MachineOK
  <1>11. ASSUME NEW s \in Scenarios, NEW p \in Players[s], Start(s, p) PROVE MachineOK'
    <2>1. RunOK'
      BY <1>11 DEF MachineOK, RunOK, Start, run
    <2>2. ScriptOK'
      BY <1>11 DEF MachineOK, ScriptOK, Start, FnGoes, script, Active
    <2>3. SessionOK'
      BY <1>11 DEF MachineOK, SessionOK, Start, machine, cleanups
    <2>4. BatchesOK'
      BY <1>11 DEF MachineOK, BatchesOK, Start, script, machine, AllPlayers
    <2>5. PlayersOK'
      BY <1>11 DEF MachineOK, PlayersOK, Start, machine
    <2>6. StoppingOK'
      BY <1>11 DEF MachineOK, StoppingOK, Start, cleanups
    <2> QED BY <2>1, <2>2, <2>3, <2>4, <2>5, <2>6 DEF MachineOK
  <1>12. ASSUME NEW s \in Scenarios, NEW p \in Players[s], Spawned(s, p) PROVE MachineOK'
    <2>1. RunOK'
      BY <1>12 DEF MachineOK, RunOK, Spawned, run
    <2>2. ScriptOK'
      BY <1>12 DEF MachineOK, ScriptOK, Spawned, FnGoes, Active
    <2>3. SessionOK'
      BY <1>12 DEF MachineOK, SessionOK, Spawned, cleanups
    <2>4. BatchesOK'
      BY <1>12 DEF MachineOK, BatchesOK, Spawned
    <2>5. PlayersOK'
      <3>1. player' = [player EXCEPT ![s][p] = "up"]
            BY <1>12 DEF Spawned
      <3> QED BY <3>1, NewState DEF MachineOK, PlayerStates
    <2>6. StoppingOK'
      BY <1>12 DEF MachineOK, StoppingOK, Spawned, cleanups
    <2> QED BY <2>1, <2>2, <2>3, <2>4, <2>5, <2>6 DEF MachineOK
  <1>13. ASSUME NEW s \in Scenarios, NEW p \in Players[s], SpawnFails(s, p) PROVE MachineOK'
    <2>1. RunOK'
      BY <1>13 DEF MachineOK, RunOK, SpawnFails, Throws, FnEnds, Settled
    <2>2. ScriptOK'
      BY <1>13 DEF MachineOK, ScriptOK, SpawnFails, Throws, FnEnds, FnGoes, Settled, Active
    <2>3. SessionOK'
      BY <1>13 DEF MachineOK, SessionOK, SpawnFails, cleanups
    <2>4. BatchesOK'
      <3>1. PICK left \in SUBSET {p} : forsaken' = [forsaken EXCEPT ![s] = forsaken[s] \cup left]
            BY <1>13 DEF SpawnFails
      <3>2. left \in SUBSET Players[s] /\ left \in SUBSET AllPlayers
            BY DEF AllPlayers
      <3>3. /\ UNCHANGED <<local_players, remote>>
            /\ \A t \in Scenarios : batch'[t] \in {batch[t], {}} /\ callee'[t] \in {callee[t], None}
            /\ batch' \in [Scenarios -> SUBSET AllPlayers]
            /\ callee' \in [Scenarios -> AllPlayers \cup {None}]
            BY <1>13 DEF MachineOK, BatchesOK, SpawnFails, Throws
      <3> QED BY <3>1, <3>2, <3>3 DEF MachineOK, BatchesOK
    <2>5. PlayersOK'
      BY <1>13 DEF MachineOK, PlayersOK, SpawnFails
    <2>6. StoppingOK'
      BY <1>13 DEF MachineOK, StoppingOK, SpawnFails, cleanups
    <2> QED BY <2>1, <2>2, <2>3, <2>4, <2>5, <2>6 DEF MachineOK
  <1>14. ASSUME NEW s \in Scenarios, NEW p \in Players[s], Initialized(s, p) PROVE MachineOK'
    <2>1. RunOK'
      BY <1>14 DEF MachineOK, RunOK, Initialized, run
    <2>2. ScriptOK'
      BY <1>14 DEF MachineOK, ScriptOK, Initialized, FnGoes, script, Active
    <2>3. SessionOK'
      BY <1>14 DEF MachineOK, SessionOK, Initialized, machine, cleanups
    <2>4. BatchesOK'
      BY <1>14 DEF MachineOK, BatchesOK, Initialized, script, machine
    <2>5. PlayersOK'
      BY <1>14 DEF MachineOK, PlayersOK, Initialized, machine
    <2>6. StoppingOK'
      BY <1>14 DEF MachineOK, StoppingOK, Initialized, cleanups
    <2> QED BY <2>1, <2>2, <2>3, <2>4, <2>5, <2>6 DEF MachineOK
  <1>15. ASSUME NEW s \in Scenarios, NEW p \in Players[s], InitializeFails(s, p)
        PROVE  MachineOK'
    <2>1. RunOK'
      BY <1>15 DEF MachineOK, RunOK, InitializeFails, Throws, FnEnds, Settled
    <2>2. ScriptOK'
      BY <1>15
         DEF MachineOK, ScriptOK, InitializeFails, Throws, FnEnds, FnGoes, Settled, Active
    <2>3. SessionOK'
      BY <1>15 DEF MachineOK, SessionOK, InitializeFails, machine, cleanups
    <2>4. BatchesOK'
      BY <1>15 DEF MachineOK, BatchesOK, InitializeFails, Throws, machine
    <2>5. PlayersOK'
      BY <1>15 DEF MachineOK, PlayersOK, InitializeFails, machine
    <2>6. StoppingOK'
      BY <1>15 DEF MachineOK, StoppingOK, InitializeFails, cleanups
    <2> QED BY <2>1, <2>2, <2>3, <2>4, <2>5, <2>6 DEF MachineOK
  <1>16. ASSUME NEW s \in Scenarios, NEW p \in Players[s], Call(s, p) PROVE MachineOK'
    <2>1. RunOK'
      BY <1>16 DEF MachineOK, RunOK, Call, run
    <2>2. ScriptOK'
      BY <1>16 DEF MachineOK, ScriptOK, Call, FnGoes, script, Active
    <2>3. SessionOK'
      BY <1>16 DEF MachineOK, SessionOK, Call, machine, cleanups
    <2>4. BatchesOK'
      BY <1>16 DEF MachineOK, BatchesOK, Call, script, machine, AllPlayers
    <2>5. PlayersOK'
      BY <1>16 DEF MachineOK, PlayersOK, Call, machine
    <2>6. StoppingOK'
      BY <1>16 DEF MachineOK, StoppingOK, Call, cleanups
    <2> QED BY <2>1, <2>2, <2>3, <2>4, <2>5, <2>6 DEF MachineOK
  <1>17. ASSUME NEW s \in Scenarios, NEW p \in Players[s], CallReturns(s, p) PROVE MachineOK'
    <2>1. RunOK'
      BY <1>17 DEF MachineOK, RunOK, CallReturns, run
    <2>2. ScriptOK'
      BY <1>17 DEF MachineOK, ScriptOK, CallReturns, FnGoes, script, Active
    <2>3. SessionOK'
      BY <1>17 DEF MachineOK, SessionOK, CallReturns, machine, cleanups
    <2>4. BatchesOK'
      BY <1>17 DEF MachineOK, BatchesOK, CallReturns, script, machine
    <2>5. PlayersOK'
      BY <1>17 DEF MachineOK, PlayersOK, CallReturns, machine
    <2>6. StoppingOK'
      BY <1>17 DEF MachineOK, StoppingOK, CallReturns, cleanups
    <2> QED BY <2>1, <2>2, <2>3, <2>4, <2>5, <2>6 DEF MachineOK
  <1>18. ASSUME NEW s \in Scenarios, NEW p \in Players[s], Shutdown(s, p) PROVE MachineOK'
    <2>1. RunOK'
      BY <1>18 DEF MachineOK, RunOK, Shutdown, run
    <2>2. ScriptOK'
      BY <1>18 DEF MachineOK, ScriptOK, Shutdown, FnGoes, script, Active
    <2>3. SessionOK'
      BY <1>18 DEF MachineOK, SessionOK, Shutdown, cleanups
    <2>4. BatchesOK'
      BY <1>18 DEF MachineOK, BatchesOK, Shutdown, script, AllPlayers
    <2>5. PlayersOK'
      <3>1. player' = [player EXCEPT ![s][p] = "down"]
            BY <1>18 DEF Shutdown
      <3> QED BY <3>1, NewState DEF MachineOK, PlayerStates
    <2>6. StoppingOK'
      BY <1>18 DEF MachineOK, StoppingOK, Shutdown, cleanups
    <2> QED BY <2>1, <2>2, <2>3, <2>4, <2>5, <2>6 DEF MachineOK
  <1>19. ASSUME NEW s \in Scenarios, NEW p \in Players[s], ShutdownReturns(s, p)
        PROVE  MachineOK'
    <2>1. RunOK'
      BY <1>19 DEF MachineOK, RunOK, ShutdownReturns, run
    <2>2. ScriptOK'
      BY <1>19 DEF MachineOK, ScriptOK, ShutdownReturns, FnGoes, script, Active
    <2>3. SessionOK'
      BY <1>19 DEF MachineOK, SessionOK, ShutdownReturns, machine, cleanups
    <2>4. BatchesOK'
      BY <1>19 DEF MachineOK, BatchesOK, ShutdownReturns, script, machine
    <2>5. PlayersOK'
      BY <1>19 DEF MachineOK, PlayersOK, ShutdownReturns, machine
    <2>6. StoppingOK'
      BY <1>19 DEF MachineOK, StoppingOK, ShutdownReturns, cleanups
    <2> QED BY <2>1, <2>2, <2>3, <2>4, <2>5, <2>6 DEF MachineOK
  <1>20. ASSUME NEW s \in Scenarios, NEW p \in Players[s], ShutdownFails(s, p) PROVE MachineOK'
    <2>1. RunOK'
      BY <1>20 DEF MachineOK, RunOK, ShutdownFails, Throws, FnEnds, Settled
    <2>2. ScriptOK'
      BY <1>20 DEF MachineOK, ScriptOK, ShutdownFails, Throws, FnEnds, FnGoes, Settled, Active
    <2>3. SessionOK'
      BY <1>20 DEF MachineOK, SessionOK, ShutdownFails, cleanups
    <2>4. BatchesOK'
      <3>1. PICK left \in SUBSET {p} : forsaken' = [forsaken EXCEPT ![s] = forsaken[s] \cup left]
            BY <1>20 DEF ShutdownFails
      <3>2. left \in SUBSET Players[s] /\ left \in SUBSET AllPlayers
            BY DEF AllPlayers
      <3>3. /\ UNCHANGED <<local_players, remote>>
            /\ \A t \in Scenarios : batch'[t] \in {batch[t], {}} /\ callee'[t] \in {callee[t], None}
            /\ batch' \in [Scenarios -> SUBSET AllPlayers]
            /\ callee' \in [Scenarios -> AllPlayers \cup {None}]
            BY <1>20 DEF MachineOK, BatchesOK, ShutdownFails, Throws
      <3> QED BY <3>1, <3>2, <3>3 DEF MachineOK, BatchesOK
    <2>5. PlayersOK'
      BY <1>20 DEF MachineOK, PlayersOK, ShutdownFails
    <2>6. StoppingOK'
      BY <1>20 DEF MachineOK, StoppingOK, ShutdownFails, cleanups
    <2> QED BY <2>1, <2>2, <2>3, <2>4, <2>5, <2>6 DEF MachineOK
  <1>21. ASSUME NEW s \in Scenarios, NEW p \in Players[s], NeverSettles(s, p) PROVE MachineOK'
    <2>1. RunOK'
      BY <1>21 DEF MachineOK, RunOK, NeverSettles, run
    <2>2. ScriptOK'
      BY <1>21 DEF MachineOK, ScriptOK, NeverSettles, FnGoes, Active
    <2>3. SessionOK'
      BY <1>21 DEF MachineOK, SessionOK, NeverSettles, machine, cleanups
    <2>4. BatchesOK'
      BY <1>21 DEF MachineOK, BatchesOK, NeverSettles, machine
    <2>5. PlayersOK'
      BY <1>21 DEF MachineOK, PlayersOK, NeverSettles, machine
    <2>6. StoppingOK'
      BY <1>21 DEF MachineOK, StoppingOK, NeverSettles, cleanups
    <2> QED BY <2>1, <2>2, <2>3, <2>4, <2>5, <2>6 DEF MachineOK
  <1>22. ASSUME NEW s \in Scenarios, NEW c \in Cleanups, PlayersStopped(s, c) PROVE MachineOK'
    <2>1. RunOK'
      BY <1>22 DEF MachineOK, RunOK, PlayersStopped, CleanupEnds
    <2>2. ScriptOK'
      BY <1>22 DEF MachineOK, ScriptOK, PlayersStopped, script
    <2>3. SessionOK'
      <3>1. /\ timer' \in [Scenarios -> BOOLEAN] /\ UNCHANGED clients
            /\ session' \in [Scenarios -> {"none", "open", "closing", "closed"}]
            BY <1>22
               DEF MachineOK, SessionOK, PlayersStopped, CleanupEnds, TimerCleared, machine
      <3>2. \E label \in {"none", "reset"} : CleanupGoes(s, c, label)
            BY <1>22 DEF PlayersStopped, CleanupEnds
      <3> QED BY <3>1, <3>2 DEF MachineOK, SessionOK, CleanupGoes
    <2>4. BatchesOK'
      BY <1>22 DEF MachineOK, BatchesOK, PlayersStopped, script, machine
    <2>5. PlayersOK'
      BY <1>22 DEF MachineOK, PlayersOK, PlayersStopped, machine
    <2>6. StoppingOK'
      BY <1>22 DEF MachineOK, StoppingOK, PlayersStopped
    <2> QED BY <2>1, <2>2, <2>3, <2>4, <2>5, <2>6 DEF MachineOK
  <1>23. ASSUME NEW s \in Scenarios, NEW c \in Cleanups, ResetAnswered(s, c) PROVE MachineOK'
    <2>1. RunOK'
      BY <1>23 DEF MachineOK, RunOK, ResetAnswered, run
    <2>2. ScriptOK'
      BY <1>23 DEF MachineOK, ScriptOK, ResetAnswered, script
    <2>3. SessionOK'
      BY <1>23 DEF MachineOK, SessionOK, ResetAnswered, CleanupGoes
    <2>4. BatchesOK'
      BY <1>23 DEF MachineOK, BatchesOK, ResetAnswered, script
    <2>5. PlayersOK'
      BY <1>23 DEF MachineOK, PlayersOK, ResetAnswered
    <2>6. StoppingOK'
      BY <1>23 DEF MachineOK, StoppingOK, ResetAnswered
    <2> QED BY <2>1, <2>2, <2>3, <2>4, <2>5, <2>6 DEF MachineOK
  <1>24. ASSUME NEW s \in Scenarios, NEW c \in Cleanups, ResetFails(s, c) PROVE MachineOK'
    <2>1. RunOK'
      BY <1>24 DEF MachineOK, RunOK, ResetFails
    <2>2. ScriptOK'
      BY <1>24 DEF MachineOK, ScriptOK, ResetFails, script
    <2>3. SessionOK'
      BY <1>24 DEF MachineOK, SessionOK, ResetFails, CleanupGoes, machine
    <2>4. BatchesOK'
      BY <1>24 DEF MachineOK, BatchesOK, ResetFails, script, machine
    <2>5. PlayersOK'
      BY <1>24 DEF MachineOK, PlayersOK, ResetFails, machine
    <2>6. StoppingOK'
      BY <1>24 DEF MachineOK, StoppingOK, ResetFails
    <2> QED BY <2>1, <2>2, <2>3, <2>4, <2>5, <2>6 DEF MachineOK
  <1>25. ASSUME NEW s \in Scenarios, NEW c \in Cleanups, SessionClosed(s, c) PROVE MachineOK'
    <2>1. RunOK'
      BY <1>25 DEF MachineOK, RunOK, SessionClosed, CleanupEnds
    <2>2. ScriptOK'
      BY <1>25 DEF MachineOK, ScriptOK, SessionClosed, script
    <2>3. SessionOK'
      <3>1. /\ timer' \in [Scenarios -> BOOLEAN] /\ UNCHANGED clients
            /\ session' \in [Scenarios -> {"none", "open", "closing", "closed"}]
            BY <1>25
               DEF MachineOK, SessionOK, SessionClosed, CleanupEnds, TimerCleared
      <3>2. \E label \in {"none", "reset"} : CleanupGoes(s, c, label)
            BY <1>25 DEF SessionClosed, CleanupEnds
      <3> QED BY <3>1, <3>2 DEF MachineOK, SessionOK, CleanupGoes
    <2>4. BatchesOK'
      BY <1>25 DEF MachineOK, BatchesOK, SessionClosed, script
    <2>5. PlayersOK'
      BY <1>25 DEF MachineOK, PlayersOK, SessionClosed
    <2>6. StoppingOK'
      BY <1>25 DEF MachineOK, StoppingOK, SessionClosed
    <2> QED BY <2>1, <2>2, <2>3, <2>4, <2>5, <2>6 DEF MachineOK
  <1>26. ASSUME NEW s \in Scenarios, NEW c \in Cleanups,
                NEW p \in Players[s], PlayerStopped(s, c, p)
        PROVE  MachineOK'
    <2>1. RunOK'
      BY <1>26 DEF MachineOK, RunOK, PlayerStopped, run
    <2>2. ScriptOK'
      BY <1>26 DEF MachineOK, ScriptOK, PlayerStopped, script
    <2>3. SessionOK'
      BY <1>26 DEF MachineOK, SessionOK, PlayerStopped, machine
    <2>4. BatchesOK'
      BY <1>26 DEF MachineOK, BatchesOK, PlayerStopped, script, machine
    <2>5. PlayersOK'
      BY <1>26 DEF MachineOK, PlayersOK, PlayerStopped, machine
    <2>6. StoppingOK'
      <3>1. stopping' = [stopping EXCEPT ![s][c] = stopping[s][c] \ {p}]
            BY <1>26 DEF PlayerStopped
      <3>2. stopping[s][c] \ {p} \in SUBSET Players[s]
            BY DEF MachineOK, StoppingOK
      <3> QED BY <3>1, <3>2, NewStopping DEF MachineOK
    <2> QED BY <2>1, <2>2, <2>3, <2>4, <2>5, <2>6 DEF MachineOK
  <1>27. ASSUME NEW s \in Scenarios, NEW c \in Cleanups,
                NEW p \in Players[s], KillHangs(s, c, p)
        PROVE  MachineOK'
    <2>1. RunOK'
      BY <1>27 DEF MachineOK, RunOK, KillHangs, run
    <2>2. ScriptOK'
      BY <1>27 DEF MachineOK, ScriptOK, KillHangs, script
    <2>3. SessionOK'
      <3>1. UNCHANGED <<session, clients, timer>>
            BY <1>27 DEF KillHangs, machine
      <3>2. \E label \in {"none", "players", "reset", "close", "hung", "failed"} :
                CleanupGoes(s, c, label)
            BY <1>27 DEF KillHangs, MachineOK, SessionOK
      <3> QED BY <3>1, <3>2 DEF MachineOK, SessionOK, CleanupGoes
    <2>4. BatchesOK'
      BY <1>27 DEF MachineOK, BatchesOK, KillHangs, script, machine
    <2>5. PlayersOK'
      BY <1>27 DEF MachineOK, PlayersOK, KillHangs, machine
    <2>6. StoppingOK'
      <3>1. stopping' = [stopping EXCEPT ![s][c] = stopping[s][c] \ {p}]
            BY <1>27 DEF KillHangs
      <3>2. stopping[s][c] \ {p} \in SUBSET Players[s]
            BY DEF MachineOK, StoppingOK
      <3> QED BY <3>1, <3>2, NewStopping DEF MachineOK
    <2> QED BY <2>1, <2>2, <2>3, <2>4, <2>5, <2>6 DEF MachineOK
  <1>28. ASSUME NEW s \in Scenarios, NEW c \in Cleanups,
                NEW p \in Players[s], KillFails(s, c, p)
        PROVE  MachineOK'
    <2>1. RunOK'
      BY <1>28 DEF MachineOK, RunOK, KillFails
    <2>2. ScriptOK'
      BY <1>28 DEF MachineOK, ScriptOK, KillFails, script
    <2>3. SessionOK'
      BY <1>28 DEF MachineOK, SessionOK, KillFails, CleanupGoes
    <2>4. BatchesOK'
      <3>1. PICK left \in SUBSET {p} : forsaken' = [forsaken EXCEPT ![s] = forsaken[s] \cup left]
            BY <1>28 DEF KillFails
      <3>2. left \in SUBSET Players[s] /\ left \in SUBSET AllPlayers
            BY DEF AllPlayers
      <3>3. /\ UNCHANGED <<local_players, remote>>
            /\ \A t \in Scenarios : batch'[t] \in {batch[t], {}} /\ callee'[t] \in {callee[t], None}
            /\ batch' \in [Scenarios -> SUBSET AllPlayers]
            /\ callee' \in [Scenarios -> AllPlayers \cup {None}]
            BY <1>28 DEF MachineOK, BatchesOK, KillFails, script
      <3> QED BY <3>1, <3>2, <3>3 DEF MachineOK, BatchesOK
    <2>5. PlayersOK'
      BY <1>28 DEF MachineOK, PlayersOK, KillFails
    <2>6. StoppingOK'
      <3>1. stopping' = [stopping EXCEPT ![s][c] = stopping[s][c] \ {p}]
            BY <1>28 DEF KillFails
      <3>2. stopping[s][c] \ {p} \in SUBSET Players[s]
            BY DEF MachineOK, StoppingOK
      <3> QED BY <3>1, <3>2, NewStopping DEF MachineOK
    <2> QED BY <2>1, <2>2, <2>3, <2>4, <2>5, <2>6 DEF MachineOK
  <1>29. CASE UNCHANGED vars
      BY <1>29
         DEF MachineOK, RunOK, ScriptOK, SessionOK, BatchesOK, PlayersOK, StoppingOK,
             vars, run, script, machine, cleanups
  <1> QED
    BY <1>1, <1>2, <1>3, <1>4, <1>5, <1>6, <1>7, <1>8, <1>9, <1>10, <1>11, <1>12, <1>13,
       <1>14, <1>15, <1>16, <1>17, <1>18, <1>19, <1>20, <1>21, <1>22, <1>23, <1>24, <1>25,
       <1>26, <1>27, <1>28, <1>29
       DEF Next, ScriptStep, AwaitedStep, CleanupStep

-----------------------------------------------------------------------------
\* What the steps of one scenario leave of the others.
Same(t) ==
    /\ fn'[t] = fn[t] /\ callee'[t] = callee[t] /\ execution'[t] = execution[t]
    /\ batch'[t] = batch[t] /\ local_players'[t] = local_players[t] /\ remote'[t] = remote[t]
    /\ forsaken'[t] = forsaken[t] /\ player'[t] = player[t] /\ timer'[t] = timer[t]
    /\ clients'[t] = clients[t] /\ session'[t] = session[t]
    /\ cleaning'[t] = cleaning[t] /\ stopping'[t] = stopping[t]

StepOf(s) ==
    \/ ScriptStep(s) \/ AwaitedStep(s) \/ Return(s) \/ Activity(s) \/ TimerFires(s)
    \/ \E c \in Cleanups : CleanupStep(s, c)

\* A step of a scenario leaves the others alone, and the loop too unless it is the end of
\* the cleanup the loop awaits.
LEMMA OthersSame ==
    ASSUME MachineOK, NEW s \in Scenarios, ScenarioInv(s), StepOf(s)
    PROVE  /\ \A t \in Scenarios : t # s => Same(t)
           /\ UNCHANGED current
           /\ stage' = stage \/ s = current
  <1> DEFINE Only == /\ \A t \in Scenarios : t # s => Same(t)
                     /\ UNCHANGED current
                     /\ stage' = stage \/ s = current
  <1>1. ASSUME NEW ps \in SUBSET Players[s], NEW start \in BOOLEAN, CallPlayers(s, ps, start)
        PROVE  Only
      BY <1>1
         DEF MachineOK, ScriptOK, SessionOK, BatchesOK, PlayersOK, StoppingOK, Same,
             CallPlayers, FnGoes, run, script, cleanups
  <1>2. ASSUME PlayersReset(s) PROVE Only
      BY <1>2
         DEF MachineOK, ScriptOK, SessionOK, BatchesOK, PlayersOK, StoppingOK, Same,
             PlayersReset, FnGoes, Throws, FnEnds, cleanups
  <1>3. ASSUME Built(s) PROVE Only
      BY <1>3
         DEF MachineOK, ScriptOK, SessionOK, BatchesOK, PlayersOK, StoppingOK, Same, Built,
             FnGoes, run, script, cleanups
  <1>4. ASSUME BuildFails(s) PROVE Only
      BY <1>4
         DEF MachineOK, ScriptOK, SessionOK, BatchesOK, PlayersOK, StoppingOK, Same,
             BuildFails, Throws, FnEnds, FnGoes, machine, cleanups
  <1>5. ASSUME Return(s) PROVE Only
      BY <1>5
         DEF MachineOK, ScriptOK, SessionOK, BatchesOK, PlayersOK, StoppingOK, Same, Return,
             FnEnds, FnGoes, script, machine, cleanups
  <1>6. ASSUME Activity(s) PROVE Only
      BY <1>6
         DEF MachineOK, ScriptOK, SessionOK, BatchesOK, PlayersOK, StoppingOK, Same,
             Activity, run, script, machine, cleanups
  <1>7. ASSUME TimerFires(s) PROVE Only
      BY <1>7
         DEF MachineOK, ScriptOK, SessionOK, BatchesOK, PlayersOK, StoppingOK, Same,
             TimerFires, Stops, run, script
  <1>8. ASSUME NEW p \in Players[s], Start(s, p) PROVE Only
      BY <1>8
         DEF MachineOK, ScriptOK, SessionOK, BatchesOK, PlayersOK, StoppingOK, Same, Start,
             FnGoes, run, script, machine, cleanups
  <1>9. ASSUME NEW p \in Players[s], Spawned(s, p) PROVE Only
      BY <1>9
         DEF MachineOK, ScriptOK, SessionOK, BatchesOK, PlayersOK, StoppingOK, Same,
             Spawned, FnGoes, run, cleanups
  <1>10. ASSUME NEW p \in Players[s], SpawnFails(s, p) PROVE Only
      BY <1>10
         DEF MachineOK, ScriptOK, SessionOK, BatchesOK, PlayersOK, StoppingOK, Same,
             SpawnFails, Throws, FnEnds, FnGoes, cleanups
  <1>11. ASSUME NEW p \in Players[s], Initialized(s, p) PROVE Only
      BY <1>11
         DEF MachineOK, ScriptOK, SessionOK, BatchesOK, PlayersOK, StoppingOK, Same,
             Initialized, FnGoes, run, script, machine, cleanups
  <1>12. ASSUME NEW p \in Players[s], InitializeFails(s, p) PROVE Only
      BY <1>12
         DEF MachineOK, ScriptOK, SessionOK, BatchesOK, PlayersOK, StoppingOK, Same,
             InitializeFails, Throws, FnEnds, FnGoes, machine, cleanups
  <1>13. ASSUME NEW p \in Players[s], Call(s, p) PROVE Only
      BY <1>13
         DEF MachineOK, ScriptOK, SessionOK, BatchesOK, PlayersOK, StoppingOK, Same, Call,
             FnGoes, run, script, machine, cleanups
  <1>14. ASSUME NEW p \in Players[s], CallReturns(s, p) PROVE Only
      BY <1>14
         DEF MachineOK, ScriptOK, SessionOK, BatchesOK, PlayersOK, StoppingOK, Same,
             CallReturns, FnGoes, run, script, machine, cleanups
  <1>15. ASSUME NEW p \in Players[s], Shutdown(s, p) PROVE Only
      BY <1>15
         DEF MachineOK, ScriptOK, SessionOK, BatchesOK, PlayersOK, StoppingOK, Same,
             Shutdown, FnGoes, run, script, cleanups
  <1>16. ASSUME NEW p \in Players[s], ShutdownReturns(s, p) PROVE Only
      BY <1>16
         DEF MachineOK, ScriptOK, SessionOK, BatchesOK, PlayersOK, StoppingOK, Same,
             ShutdownReturns, FnGoes, run, script, machine, cleanups
  <1>17. ASSUME NEW p \in Players[s], ShutdownFails(s, p) PROVE Only
      BY <1>17
         DEF MachineOK, ScriptOK, SessionOK, BatchesOK, PlayersOK, StoppingOK, Same,
             ShutdownFails, Throws, FnEnds, FnGoes, cleanups
  <1>18. ASSUME NEW p \in Players[s], NeverSettles(s, p) PROVE Only
      BY <1>18
         DEF MachineOK, ScriptOK, SessionOK, BatchesOK, PlayersOK, StoppingOK, Same,
             NeverSettles, FnGoes, run, machine, cleanups
  <1>19. ASSUME NEW c \in Cleanups, PlayersStopped(s, c) PROVE Only
      BY <1>19
         DEF MachineOK, ScriptOK, SessionOK, BatchesOK, PlayersOK, StoppingOK, Same,
             PlayersStopped, CleanupGoes, CleanupEnds, TimerCleared, script, machine,
             ScenarioInv, LeftOf
  <1>20. ASSUME NEW c \in Cleanups, ResetAnswered(s, c) PROVE Only
      BY <1>20
         DEF MachineOK, ScriptOK, SessionOK, BatchesOK, PlayersOK, StoppingOK, Same,
             ResetAnswered, CleanupGoes, run, script
  <1>21. ASSUME NEW c \in Cleanups, ResetFails(s, c) PROVE Only
      BY <1>21
         DEF MachineOK, ScriptOK, SessionOK, BatchesOK, PlayersOK, StoppingOK, Same,
             ResetFails, CleanupGoes, script, machine, ScenarioInv, LeftOf
  <1>22. ASSUME NEW c \in Cleanups, SessionClosed(s, c) PROVE Only
      BY <1>22
         DEF MachineOK, ScriptOK, SessionOK, BatchesOK, PlayersOK, StoppingOK, Same,
             SessionClosed, CleanupEnds, CleanupGoes, TimerCleared, script, ScenarioInv,
             LeftOf
  <1>23. ASSUME NEW c \in Cleanups, NEW p \in Players[s], PlayerStopped(s, c, p) PROVE Only
      BY <1>23
         DEF MachineOK, ScriptOK, SessionOK, BatchesOK, PlayersOK, StoppingOK, Same,
             PlayerStopped, run, script, machine
  <1>24. ASSUME NEW c \in Cleanups, NEW p \in Players[s], KillHangs(s, c, p) PROVE Only
      BY <1>24
         DEF MachineOK, ScriptOK, SessionOK, BatchesOK, PlayersOK, StoppingOK, Same,
             KillHangs, CleanupGoes, run, script, machine
  <1>25. ASSUME NEW c \in Cleanups, NEW p \in Players[s], KillFails(s, c, p) PROVE Only
      BY <1>25
         DEF MachineOK, ScriptOK, SessionOK, BatchesOK, PlayersOK, StoppingOK, Same,
             KillFails, CleanupGoes, script, ScenarioInv, LeftOf
  <1> QED
    BY <1>1, <1>2, <1>3, <1>4, <1>5, <1>6, <1>7, <1>8, <1>9, <1>10, <1>11, <1>12, <1>13,
       <1>14, <1>15, <1>16, <1>17, <1>18, <1>19, <1>20, <1>21, <1>22, <1>23, <1>24, <1>25
       DEF StepOf, ScriptStep, AwaitedStep, CleanupStep

\* A scenario that a step leaves alone keeps its invariant.
LEMMA OthersKeep ==
    ASSUME NEW t \in Scenarios, ScenarioInv(t), Same(t), UNCHANGED current,
           stage' = stage \/ t # current
    PROVE  ScenarioInv(t)'
  BY DEF ScenarioInv, ScriptOf, LeftOf, Same

\* The steps of a scenario keep its own.
LEMMA ScenarioStep ==
    ASSUME MachineOK, NEW s \in Scenarios, ScenarioInv(s), StepOf(s)
    PROVE  ScenarioInv(s)'
  <1>1. ASSUME NEW ps \in SUBSET Players[s], NEW start \in BOOLEAN, CallPlayers(s, ps, start)
        PROVE  ScenarioInv(s)'
    <2>1. ScriptOf(s)'
      BY <1>1
         DEF MachineOK, ScriptOK, BatchesOK, PlayersOK, CallPlayers, FnGoes, run, script,
             At, ScenarioInv, ScriptOf, LeftOf, Active
    <2>2. LeftOf(s)'
      BY <1>1
         DEF MachineOK, SessionOK, StoppingOK, PlayersOK, CallPlayers, FnGoes, run, script,
             cleanups, At, ScenarioInv, ScriptOf, LeftOf, Active, Cleanups
    <2> QED BY <2>1, <2>2 DEF ScenarioInv
  <1>2. ASSUME PlayersReset(s) PROVE ScenarioInv(s)'
    <2>1. ScriptOf(s)'
      BY <1>2
         DEF MachineOK, ScriptOK, BatchesOK, PlayersOK, PlayersReset, FnGoes, Throws,
             FnEnds, Settled, At, ScenarioInv, ScriptOf, LeftOf, Active
    <2>2. LeftOf(s)'
      BY <1>2
         DEF MachineOK, SessionOK, StoppingOK, PlayersOK, PlayersReset, FnGoes, Throws,
             FnEnds, cleanups, At, ScenarioInv, ScriptOf, LeftOf, Active, Cleanups
    <2> QED BY <2>1, <2>2 DEF ScenarioInv
  <1>3. ASSUME Built(s) PROVE ScenarioInv(s)'
    <2>1. ScriptOf(s)'
      BY <1>3
         DEF MachineOK, ScriptOK, BatchesOK, PlayersOK, Built, FnGoes, run, script, At,
             ScenarioInv, ScriptOf, LeftOf, Active
    <2>2. LeftOf(s)'
      BY <1>3
         DEF MachineOK, SessionOK, StoppingOK, PlayersOK, Built, FnGoes, run, script,
             cleanups, At, ScenarioInv, ScriptOf, LeftOf, Active, Cleanups
    <2> QED BY <2>1, <2>2 DEF ScenarioInv
  <1>4. ASSUME BuildFails(s) PROVE ScenarioInv(s)'
    <2>1. ScriptOf(s)'
      BY <1>4
         DEF MachineOK, ScriptOK, BatchesOK, PlayersOK, BuildFails, Throws, FnEnds, FnGoes,
             Settled, machine, At, ScenarioInv, ScriptOf, LeftOf, Active
    <2>2. LeftOf(s)'
      BY <1>4
         DEF MachineOK, SessionOK, StoppingOK, PlayersOK, BuildFails, Throws, FnEnds,
             FnGoes, machine, cleanups, At, ScenarioInv, ScriptOf, LeftOf, Active, Cleanups
    <2> QED BY <2>1, <2>2 DEF ScenarioInv
  <1>5. ASSUME Return(s) PROVE ScenarioInv(s)'
    <2>1. ScriptOf(s)'
      BY <1>5
         DEF MachineOK, ScriptOK, BatchesOK, PlayersOK, Return, FnEnds, FnGoes, Settled,
             script, machine, At, ScenarioInv, ScriptOf, LeftOf, Active
    <2>2. LeftOf(s)'
      BY <1>5
         DEF MachineOK, SessionOK, StoppingOK, PlayersOK, Return, FnEnds, FnGoes, script,
             machine, cleanups, At, ScenarioInv, ScriptOf, LeftOf, Active, Cleanups
    <2> QED BY <2>1, <2>2 DEF ScenarioInv
  <1>6. ASSUME Activity(s) PROVE ScenarioInv(s)'
    <2>1. ScriptOf(s)'
      BY <1>6
         DEF MachineOK, ScriptOK, BatchesOK, PlayersOK, Activity, run, script, machine,
             ScenarioInv, ScriptOf, LeftOf, Active
    <2>2. LeftOf(s)'
      BY <1>6
         DEF MachineOK, SessionOK, StoppingOK, PlayersOK, Activity, run, script, machine,
             cleanups, Open, At, ScenarioInv, ScriptOf, LeftOf, Active, Cleanups
    <2> QED BY <2>1, <2>2 DEF ScenarioInv
  <1>7. ASSUME TimerFires(s) PROVE ScenarioInv(s)'
    <2>1. ScriptOf(s)'
      BY <1>7
         DEF MachineOK, ScriptOK, BatchesOK, PlayersOK, TimerFires, Stops, run, script,
             ScenarioInv, ScriptOf, LeftOf, Active
    <2>2. LeftOf(s)'
      BY <1>7
         DEF MachineOK, SessionOK, StoppingOK, PlayersOK, TimerFires, Stops, run, script,
             ScenarioInv, ScriptOf, LeftOf, Active, Cleanups
    <2> QED BY <2>1, <2>2 DEF ScenarioInv
  <1>8. ASSUME NEW p \in Players[s], Start(s, p) PROVE ScenarioInv(s)'
    <2>1. ScriptOf(s)'
      BY <1>8
         DEF MachineOK, ScriptOK, BatchesOK, PlayersOK, Start, FnGoes, run, script, machine,
             At, ScenarioInv, ScriptOf, LeftOf, Active
    <2>2. LeftOf(s)'
      BY <1>8
         DEF MachineOK, SessionOK, StoppingOK, PlayersOK, Start, FnGoes, run, script,
             machine, cleanups, At, ScenarioInv, ScriptOf, LeftOf, Active, Cleanups
    <2> QED BY <2>1, <2>2 DEF ScenarioInv
  <1>9. ASSUME NEW p \in Players[s], Spawned(s, p) PROVE ScenarioInv(s)'
    <2>1. ScriptOf(s)'
      BY <1>9
         DEF MachineOK, ScriptOK, BatchesOK, PlayersOK, Spawned, FnGoes, run, At,
             ScenarioInv, ScriptOf, LeftOf, Active
    <2>2. LeftOf(s)'
      BY <1>9
         DEF MachineOK, SessionOK, StoppingOK, PlayersOK, Spawned, FnGoes, run, cleanups,
             At, ScenarioInv, ScriptOf, LeftOf, Active, Cleanups
    <2> QED BY <2>1, <2>2 DEF ScenarioInv
  <1>10. ASSUME NEW p \in Players[s], SpawnFails(s, p) PROVE ScenarioInv(s)'
    <2>1. ScriptOf(s)'
      BY <1>10
         DEF MachineOK, ScriptOK, BatchesOK, PlayersOK, SpawnFails, Throws, FnEnds, FnGoes,
             Settled, At, ScenarioInv, ScriptOf, LeftOf, Active
    <2>2. LeftOf(s)'
      BY <1>10
         DEF MachineOK, SessionOK, StoppingOK, PlayersOK, SpawnFails, Throws, FnEnds,
             FnGoes, cleanups, At, ScenarioInv, ScriptOf, LeftOf, Active, Cleanups
    <2> QED BY <2>1, <2>2 DEF ScenarioInv
  <1>11. ASSUME NEW p \in Players[s], Initialized(s, p) PROVE ScenarioInv(s)'
    <2>1. ScriptOf(s)'
      BY <1>11
         DEF MachineOK, ScriptOK, BatchesOK, PlayersOK, Initialized, FnGoes, run, script,
             machine, At, ScenarioInv, ScriptOf, LeftOf, Active
    <2>2. LeftOf(s)'
      BY <1>11
         DEF MachineOK, SessionOK, StoppingOK, PlayersOK, Initialized, FnGoes, run, script,
             machine, cleanups, At, ScenarioInv, ScriptOf, LeftOf, Active, Cleanups
    <2> QED BY <2>1, <2>2 DEF ScenarioInv
  <1>12. ASSUME NEW p \in Players[s], InitializeFails(s, p) PROVE ScenarioInv(s)'
    <2>1. ScriptOf(s)'
      BY <1>12
         DEF MachineOK, ScriptOK, BatchesOK, PlayersOK, InitializeFails, Throws, FnEnds,
             FnGoes, Settled, machine, At, ScenarioInv, ScriptOf, LeftOf, Active
    <2>2. LeftOf(s)'
      BY <1>12
         DEF MachineOK, SessionOK, StoppingOK, PlayersOK, InitializeFails, Throws, FnEnds,
             FnGoes, machine, cleanups, At, ScenarioInv, ScriptOf, LeftOf, Active, Cleanups
    <2> QED BY <2>1, <2>2 DEF ScenarioInv
  <1>13. ASSUME NEW p \in Players[s], Call(s, p) PROVE ScenarioInv(s)'
    <2>1. ScriptOf(s)'
      BY <1>13
         DEF MachineOK, ScriptOK, BatchesOK, PlayersOK, Call, FnGoes, run, script, machine,
             At, ScenarioInv, ScriptOf, LeftOf, Active
    <2>2. LeftOf(s)'
      BY <1>13
         DEF MachineOK, SessionOK, StoppingOK, PlayersOK, Call, FnGoes, run, script,
             machine, cleanups, At, ScenarioInv, ScriptOf, LeftOf, Active, Cleanups
    <2> QED BY <2>1, <2>2 DEF ScenarioInv
  <1>14. ASSUME NEW p \in Players[s], CallReturns(s, p) PROVE ScenarioInv(s)'
    <2>1. ScriptOf(s)'
      BY <1>14
         DEF MachineOK, ScriptOK, BatchesOK, PlayersOK, CallReturns, FnGoes, run, script,
             machine, At, ScenarioInv, ScriptOf, LeftOf, Active
    <2>2. LeftOf(s)'
      BY <1>14
         DEF MachineOK, SessionOK, StoppingOK, PlayersOK, CallReturns, FnGoes, run, script,
             machine, cleanups, At, ScenarioInv, ScriptOf, LeftOf, Active, Cleanups
    <2> QED BY <2>1, <2>2 DEF ScenarioInv
  <1>15. ASSUME NEW p \in Players[s], Shutdown(s, p) PROVE ScenarioInv(s)'
    <2>1. ScriptOf(s)'
      BY <1>15
         DEF MachineOK, ScriptOK, BatchesOK, PlayersOK, Shutdown, FnGoes, run, script, At,
             ScenarioInv, ScriptOf, LeftOf, Active
    <2>2. LeftOf(s)'
      BY <1>15
         DEF MachineOK, SessionOK, StoppingOK, PlayersOK, Shutdown, FnGoes, run, script,
             cleanups, At, ScenarioInv, ScriptOf, LeftOf, Active, Cleanups
    <2> QED BY <2>1, <2>2 DEF ScenarioInv
  <1>16. ASSUME NEW p \in Players[s], ShutdownReturns(s, p) PROVE ScenarioInv(s)'
    <2>1. ScriptOf(s)'
      BY <1>16
         DEF MachineOK, ScriptOK, BatchesOK, PlayersOK, ShutdownReturns, FnGoes, run,
             script, machine, At, ScenarioInv, ScriptOf, LeftOf, Active
    <2>2. LeftOf(s)'
      BY <1>16
         DEF MachineOK, SessionOK, StoppingOK, PlayersOK, ShutdownReturns, FnGoes, run,
             script, machine, cleanups, At, ScenarioInv, ScriptOf, LeftOf, Active, Cleanups
    <2> QED BY <2>1, <2>2 DEF ScenarioInv
  <1>17. ASSUME NEW p \in Players[s], ShutdownFails(s, p) PROVE ScenarioInv(s)'
    <2>1. ScriptOf(s)'
      BY <1>17
         DEF MachineOK, ScriptOK, BatchesOK, PlayersOK, ShutdownFails, Throws, FnEnds,
             FnGoes, Settled, At, ScenarioInv, ScriptOf, LeftOf, Active
    <2>2. LeftOf(s)'
      BY <1>17
         DEF MachineOK, SessionOK, StoppingOK, PlayersOK, ShutdownFails, Throws, FnEnds,
             FnGoes, cleanups, At, ScenarioInv, ScriptOf, LeftOf, Active, Cleanups
    <2> QED BY <2>1, <2>2 DEF ScenarioInv
  <1>18. ASSUME NEW p \in Players[s], NeverSettles(s, p) PROVE ScenarioInv(s)'
    <2>1. ScriptOf(s)'
      BY <1>18
         DEF MachineOK, ScriptOK, BatchesOK, PlayersOK, NeverSettles, FnGoes, run, machine,
             At, ScenarioInv, ScriptOf, LeftOf, Active
    <2>2. LeftOf(s)'
      BY <1>18
         DEF MachineOK, SessionOK, StoppingOK, PlayersOK, NeverSettles, FnGoes, run,
             machine, cleanups, At, ScenarioInv, ScriptOf, LeftOf, Active, Cleanups
    <2> QED BY <2>1, <2>2 DEF ScenarioInv
  <1>19. ASSUME NEW c \in Cleanups, PlayersStopped(s, c) PROVE ScenarioInv(s)'
    <2>1. ScriptOf(s)'
      BY <1>19
         DEF MachineOK, ScriptOK, BatchesOK, PlayersOK, PlayersStopped, CleanupEnds, script,
             machine, ScenarioInv, ScriptOf, LeftOf, Active
    <2>2. LeftOf(s)'
      BY <1>19
         DEF MachineOK, SessionOK, StoppingOK, PlayersOK, PlayersStopped, CleanupGoes,
             CleanupEnds, TimerCleared, script, machine, AllStopped, ScenarioInv, ScriptOf,
             LeftOf, Active, Cleanups
    <2> QED BY <2>1, <2>2 DEF ScenarioInv
  <1>20. ASSUME NEW c \in Cleanups, ResetAnswered(s, c) PROVE ScenarioInv(s)'
    <2>1. ScriptOf(s)'
      BY <1>20
         DEF MachineOK, ScriptOK, BatchesOK, PlayersOK, ResetAnswered, run, script,
             ScenarioInv, ScriptOf, LeftOf, Active
    <2>2. LeftOf(s)'
      BY <1>20
         DEF MachineOK, SessionOK, StoppingOK, PlayersOK, ResetAnswered, CleanupGoes, run,
             script, ScenarioInv, ScriptOf, LeftOf, Active, Cleanups
    <2> QED BY <2>1, <2>2 DEF ScenarioInv
  <1>21. ASSUME NEW c \in Cleanups, ResetFails(s, c) PROVE ScenarioInv(s)'
    <2>1. ScriptOf(s)'
      BY <1>21
         DEF MachineOK, ScriptOK, BatchesOK, PlayersOK, ResetFails, script, machine,
             ScenarioInv, ScriptOf, LeftOf, Active
    <2>2. LeftOf(s)'
      BY <1>21
         DEF MachineOK, SessionOK, StoppingOK, PlayersOK, ResetFails, CleanupGoes, script,
             machine, ScenarioInv, ScriptOf, LeftOf, Active, Cleanups
    <2> QED BY <2>1, <2>2 DEF ScenarioInv
  <1>22. ASSUME NEW c \in Cleanups, SessionClosed(s, c) PROVE ScenarioInv(s)'
    <2>1. ScriptOf(s)'
      BY <1>22
         DEF MachineOK, ScriptOK, BatchesOK, PlayersOK, SessionClosed, CleanupEnds, script,
             ScenarioInv, ScriptOf, LeftOf, Active
    <2>2. LeftOf(s)'
      BY <1>22
         DEF MachineOK, SessionOK, StoppingOK, PlayersOK, SessionClosed, CleanupEnds,
             CleanupGoes, TimerCleared, script, ScenarioInv, ScriptOf, LeftOf, Active,
             Cleanups
    <2> QED BY <2>1, <2>2 DEF ScenarioInv
  <1>23. ASSUME NEW c \in Cleanups, NEW p \in Players[s], PlayerStopped(s, c, p)
        PROVE  ScenarioInv(s)'
    <2>1. ScriptOf(s)'
      BY <1>23
         DEF MachineOK, ScriptOK, BatchesOK, PlayersOK, PlayerStopped, run, script, machine,
             ScenarioInv, ScriptOf, LeftOf, Active
    <2>2. LeftOf(s)'
      BY <1>23
         DEF MachineOK, SessionOK, StoppingOK, PlayersOK, PlayerStopped, run, script,
             machine, ScenarioInv, ScriptOf, LeftOf, Active, Cleanups
    <2> QED BY <2>1, <2>2 DEF ScenarioInv
  <1>24. ASSUME NEW c \in Cleanups, NEW p \in Players[s], KillHangs(s, c, p)
        PROVE  ScenarioInv(s)'
    <2>1. ScriptOf(s)'
      BY <1>24
         DEF MachineOK, ScriptOK, BatchesOK, PlayersOK, KillHangs, run, script, machine,
             ScenarioInv, ScriptOf, LeftOf, Active
    <2>2. LeftOf(s)'
      BY <1>24
         DEF MachineOK, SessionOK, StoppingOK, PlayersOK, KillHangs, CleanupGoes, run,
             script, machine, ScenarioInv, ScriptOf, LeftOf, Active, Cleanups
    <2> QED BY <2>1, <2>2 DEF ScenarioInv
  <1>25. ASSUME NEW c \in Cleanups, NEW p \in Players[s], KillFails(s, c, p)
        PROVE  ScenarioInv(s)'
    <2>1. ScriptOf(s)'
      BY <1>25
         DEF MachineOK, ScriptOK, BatchesOK, PlayersOK, KillFails, script, ScenarioInv,
             ScriptOf, LeftOf, Active
    <2>2. LeftOf(s)'
      BY <1>25
         DEF MachineOK, SessionOK, StoppingOK, PlayersOK, KillFails, CleanupGoes, script,
             ScenarioInv, ScriptOf, LeftOf, Active, Cleanups
    <2> QED BY <2>1, <2>2 DEF ScenarioInv
  <1> QED
    BY <1>1, <1>2, <1>3, <1>4, <1>5, <1>6, <1>7, <1>8, <1>9, <1>10, <1>11, <1>12, <1>13,
       <1>14, <1>15, <1>16, <1>17, <1>18, <1>19, <1>20, <1>21, <1>22, <1>23, <1>24, <1>25
       DEF StepOf, ScriptStep, AwaitedStep, CleanupStep

\* The loop keeps all of them: it goes on when what it awaited is clean.
LEMMA LoopStep ==
    ASSUME MachineOK, \A s \in Scenarios : ScenarioInv(s), Execute \/ Executed \/ Report,
           NEW t \in Scenarios
    PROVE  ScenarioInv(t)'
  <1>1. CASE Execute
    <2>1. /\ stage = "loop" /\ stage' = "executing"
          /\ UNCHANGED <<callee, batch, local_players, player, timer, clients, session, cleaning,
                         stopping>>
          /\ fn'[t] = fn[t] \/ (fn'[t] = "script" /\ execution'[t] = "pending" /\ current' = t)
          BY <1>1 DEF Execute, machine, cleanups, MachineOK, ScriptOK
    <2> QED BY <2>1 DEF ScenarioInv, ScriptOf, LeftOf, Active
  <1>2. CASE Executed
    <2>1. /\ stage = "executing" /\ stage' = "cleanup" /\ current' = current
          /\ execution[current] \in {"resolved", "rejected"}
          /\ UNCHANGED <<fn, callee, execution, batch, local_players, timer, clients, session>>
          BY <1>2 DEF Executed, script
    <2>2. CASE t # current
      <3>1. player'[t] = player[t] /\ cleaning'[t] = cleaning[t] /\ stopping'[t] = stopping[t]
            BY <1>2, <2>2 DEF Executed, Stops, MachineOK
      <3> QED BY <2>1, <2>2, <3>1 DEF ScenarioInv, ScriptOf, LeftOf
    <2>3. CASE t = current
      <3>1. fn[t] \notin Active
            BY <2>1, <2>3 DEF ScenarioInv, ScriptOf
      <3>2. \A p \in Players[t] : player'[t][p] # "up"
            BY <1>2, <2>3 DEF Executed, Stops, MachineOK, PlayersOK, ScenarioInv, ScriptOf
      <3>3. stopping'[t]["forced"] = stopping[t]["forced"] /\ cleaning'[t]["forced"] = cleaning[t]["forced"]
            BY <1>2, <2>3 DEF Executed, Stops, MachineOK, StoppingOK, SessionOK, Cleanups
      <3>4. cleaning'[t]["end"] = "players"
            BY <1>2, <2>3 DEF Executed, Stops, MachineOK, SessionOK, Cleanups
      <3> QED BY <2>1, <2>3, <3>1, <3>2, <3>3, <3>4
             DEF ScenarioInv, ScriptOf, LeftOf, Active, Cleanups
    <2> QED BY <2>2, <2>3
  <1>3. CASE Report
      BY <1>3 DEF Report, script, machine, cleanups, ScenarioInv, ScriptOf, LeftOf
  <1> QED BY <1>1, <1>2, <1>3

CleanupInv == MachineOK /\ \A s \in Scenarios : ScenarioInv(s)

\* The types and the invariants of the scenarios hold in every reachable state.
LEMMA CleanupInductive == Spec => []CleanupInv
  <1>1. Init => CleanupInv
    <2> SUFFICES ASSUME Init PROVE CleanupInv
        OBVIOUS
    <2>1. PlayersOK
      <3>1. \A s \in Scenarios : [p \in Players[s] |-> "none"] \in [Players[s] -> PlayerStates]
            BY DEF PlayerStates
      <3> QED BY <3>1 DEF Init, PlayersOK, Tables
    <2>2. MachineOK
          BY <2>1
             DEF Init, MachineOK, RunOK, ScriptOK, SessionOK, BatchesOK, StoppingOK
    <2>3. \A s \in Scenarios : ScenarioInv(s)
          BY DEF Init, ScenarioInv, ScriptOf, LeftOf, Active, Cleanups
    <2> QED BY <2>2, <2>3 DEF CleanupInv
  <1>2. CleanupInv /\ [Next]_vars => CleanupInv'
    <2> SUFFICES ASSUME CleanupInv, [Next]_vars PROVE CleanupInv'
        OBVIOUS
    <2>1. MachineOK /\ MachineOK'
          BY TypeStep DEF CleanupInv
    <2>2. ASSUME NEW t \in Scenarios PROVE ScenarioInv(t)'
      <3>1. CASE Execute \/ Executed \/ Report
            BY <3>1, LoopStep DEF CleanupInv
      <3>2. ASSUME NEW s \in Scenarios, StepOf(s) PROVE ScenarioInv(t)'
        <4>1. CASE t = s
              BY <3>2, <4>1, ScenarioStep DEF CleanupInv
        <4>2. CASE t # s
          <5>1. Same(t) /\ UNCHANGED current
                BY <2>1, <3>2, <4>2, OthersSame DEF CleanupInv
          <5>2. stage' = stage \/ s = current
                BY <2>1, <3>2, OthersSame DEF CleanupInv, ScenarioInv, LeftOf
          <5> QED BY <4>2, <5>1, <5>2, OthersKeep DEF CleanupInv
        <4> QED BY <4>1, <4>2
      <3>3. CASE UNCHANGED vars
            BY <3>3
               DEF CleanupInv, vars, run, script, machine, cleanups, ScenarioInv,
                   ScriptOf, LeftOf
      <3> QED BY <3>1, <3>2, <3>3 DEF Next, StepOf
    <2> QED BY <2>1, <2>2 DEF CleanupInv
  <1> QED BY <1>1, <1>2, PTL DEF Spec

-----------------------------------------------------------------------------
\* How many numbers there are from 1 to n.
LEMMA UpToN ==
    ASSUME NEW n \in Nat
    PROVE  IsFiniteSet(1 .. n) /\ Cardinality(1 .. n) = n
  <1>1. n \in Int /\ 1 \in Int
    OBVIOUS
  <1>2. QED
    BY <1>1, FS_Interval

\* The registered scenarios are finitely many and registered once each.
LEMMA ScenariosFinite ==
    /\ IsFiniteSet(Scenarios)
    /\ Registered \in [1 .. Len(Registered) -> Scenarios]
    /\ \A i, j \in 1 .. Len(Registered) : Registered[i] = Registered[j] => i = j
  <1>1. Registered \in [1 .. Len(Registered) -> Scenarios] /\ Len(Registered) \in Nat
    BY RegisteredAssumption, LenProperties
  <1>2. \A s \in Scenarios : \E i \in 1 .. Len(Registered) : Registered[i] = s
    BY <1>1 DEF Scenarios, ToSet
  <1>3. Registered \in Surjection(1 .. Len(Registered), Scenarios)
    BY <1>1, <1>2 DEF Surjection
  <1>4. /\ IsFiniteSet(1 .. Len(Registered))
        /\ Cardinality(1 .. Len(Registered)) = Len(Registered)
    BY <1>1, UpToN
  <1>5. IsFiniteSet(Scenarios)
    BY <1>3, <1>4, FS_Surjection
  <1>6. Registered \in Injection(1 .. Len(Registered), Scenarios)
    BY <1>3, <1>4, FS_Surjection, RegisteredAssumption
  <1>7. QED
    BY <1>1, <1>5, <1>6, Fun_InjectionProperties

\* The places of the wanted scenarios are the numbers up to how many they are.
LEMMA PlacesFilled ==
    /\ Cardinality(Kept) \in Nat
    /\ \A n \in 1 .. Cardinality(Kept) : \E i \in Kept : Place(i) = n
  <1> DEFINE Upto(i) == {j \in Kept : j <= i}
             place == [i \in Kept |-> Cardinality(Upto(i))]
  <1>1. Kept \subseteq 1 .. Len(Registered) /\ Kept \subseteq Nat
    BY RegisteredAssumption, LenProperties DEF Kept
  <1>2. IsFiniteSet(Kept) /\ Cardinality(Kept) \in Nat
    <2>1. IsFiniteSet(1 .. Len(Registered))
      BY RegisteredAssumption, LenProperties, UpToN
    <2>2. QED
      BY <1>1, <2>1, FS_Subset, FS_CardinalityType
  <1>3. \A i \in Kept : /\ IsFiniteSet(Upto(i))
                        /\ Cardinality(Upto(i)) \in 1 .. Cardinality(Kept)
    <2> SUFFICES ASSUME NEW i \in Kept
                 PROVE  /\ IsFiniteSet(Upto(i))
                        /\ Cardinality(Upto(i)) \in 1 .. Cardinality(Kept)
      OBVIOUS
    <2>1. Upto(i) \in SUBSET Kept /\ i \in Upto(i)
      BY <1>1
    <2>2. /\ IsFiniteSet(Upto(i)) /\ Cardinality(Upto(i)) \in Nat
          /\ Cardinality(Upto(i)) <= Cardinality(Kept)
      BY <1>2, <2>1, FS_Subset, FS_CardinalityType
    <2>3. Cardinality(Upto(i)) # 0
      BY <2>1, <2>2, FS_EmptySet
    <2> HIDE DEF Upto
    <2>4. QED
      BY <1>2, <2>2, <2>3
  <1>4. \A i, j \in Kept : i < j => Cardinality(Upto(i)) # Cardinality(Upto(j))
    <2> SUFFICES ASSUME NEW i \in Kept, NEW j \in Kept, i < j,
                        Cardinality(Upto(i)) = Cardinality(Upto(j))
                 PROVE  FALSE
      OBVIOUS
    <2>1. i \in Nat /\ j \in Nat /\ \A k \in Kept : k \in Nat
      BY <1>1
    <2>2. j \in Upto(j) /\ j \notin Upto(i)
      BY <2>1
    <2>3. \A k \in Kept : k <= i => k <= j
      BY <2>1
    <2>4. Upto(i) \in SUBSET Upto(j)
      BY <2>3
    <2>5. IsFiniteSet(Upto(j))
      BY <1>3
    <2> HIDE DEF Upto
    <2>6. Upto(i) = Upto(j)
      BY <2>4, <2>5, FS_Subset
    <2>7. QED
      BY <2>2, <2>6
  <1> HIDE DEF Upto
  <1>5. \A i, j \in Kept : Cardinality(Upto(i)) = Cardinality(Upto(j)) => i = j
    <2> SUFFICES ASSUME NEW i \in Kept, NEW j \in Kept, i # j
                 PROVE  Cardinality(Upto(i)) # Cardinality(Upto(j))
      OBVIOUS
    <2>1. i < j \/ j < i
      BY <1>1
    <2>2. QED
      BY <1>4, <2>1
  <1>6. place \in Injection(Kept, 1 .. Cardinality(Kept))
    <2>1. place \in [Kept -> 1 .. Cardinality(Kept)]
      BY <1>3
    <2>2. \A i, j \in Kept : place[i] = place[j] => i = j
      BY <1>5
    <2> HIDE DEF place
    <2>3. QED
      BY <2>1, <2>2, Fun_IsInj
  <1>7. /\ IsFiniteSet(1 .. Cardinality(Kept))
        /\ Cardinality(1 .. Cardinality(Kept)) = Cardinality(Kept)
    BY <1>2, UpToN
  <1>8. place \in Surjection(Kept, 1 .. Cardinality(Kept))
    <2> HIDE DEF place
    <2>1. QED
      BY <1>6, <1>7, FS_Injection
  <1>9. \A n \in 1 .. Cardinality(Kept) : \E i \in Kept : place[i] = n
    <2> HIDE DEF place
    <2>1. QED
      BY <1>8, Fun_SurjectionProperties
  <1>10. QED
    BY <1>2, <1>9 DEF Place, Upto

\* The tests are registered scenarios that are not skipped, each once.
LEMMA TestsSelected ==
    /\ Tests \in Seq(Scenarios)
    /\ \A i, j \in 1 .. Len(Tests) : Tests[i] = Tests[j] => i = j
    /\ \A i \in 1 .. Len(Tests) : modifier[Tests[i]] # "skip"
  <1> DEFINE Index(n) == CHOOSE i \in Kept : Place(i) = n
  <1>1. \A n \in 1 .. Cardinality(Kept) : Index(n) \in Kept /\ Place(Index(n)) = n
    BY PlacesFilled
  <1>2. \A n \in 1 .. Cardinality(Kept) :
            /\ Index(n) \in 1 .. Len(Registered) /\ Wanted(Registered[Index(n)])
            /\ Registered[Index(n)] \in Scenarios
    BY <1>1, ScenariosFinite DEF Kept
  <1>3. \A s \in Scenarios : Wanted(s) => modifier[s] # "skip"
    BY DEF Wanted
  <1>4. Tests = [n \in 1 .. Cardinality(Kept) |-> Registered[Index(n)]]
    BY DEF Tests
  <1> HIDE DEF Index
  <1>5. Tests \in Seq(Scenarios) /\ Len(Tests) = Cardinality(Kept)
    <2>1. Tests \in [1 .. Cardinality(Kept) -> Scenarios]
      BY <1>2, <1>4
    <2>2. QED
      BY <1>4, <2>1, PlacesFilled, IsASeq, LenProperties
  <1>6. \A n \in 1 .. Len(Tests) : Tests[n] = Registered[Index(n)]
    BY <1>4, <1>5
  <1>7. ASSUME NEW n \in 1 .. Len(Tests), NEW m \in 1 .. Len(Tests), Tests[n] = Tests[m]
        PROVE  n = m
    <2>1. Index(n) = Index(m)
      BY <1>2, <1>5, <1>6, <1>7, ScenariosFinite
    <2>2. QED
      BY <1>1, <1>5, <2>1
  <1>8. QED
    BY <1>2, <1>3, <1>5, <1>6, <1>7

\* How many of the tests the loop has taken, and which successes it has counted.
Taken == Len(Tests) - Len(todo)
Counted == {s \in Scenarios : fn[s] = "returned" /\ ~(stage = "executing" /\ s = current)}

\* The tests are taken in order: only those are run, and without an executor all of them.
QueueInv ==
    /\ todo \in Seq(Scenarios) /\ Len(todo) <= Len(Tests)
    /\ \A i \in 1 .. Len(todo) : todo[i] = Tests[Taken + i]
    /\ stage \in {"loop", "done"} \/ (Taken # 0 /\ current = Tests[Taken])
    /\ stage = "done" => todo = <<>>
    /\ current = None \/ current \in Scenarios
    /\ \A s \in Scenarios : fn[s] # "none" => \E i \in 1 .. Taken : s = Tests[i]
    /\ executor = "unit" => \A i \in 1 .. Taken : fn[Tests[i]] # "none"

\* The counts go with what was taken and with how the functions ended.
CountInv ==
    /\ errors \in Seq(Scenarios)
    /\ successes = Cardinality(Counted)
    /\ successes + Len(errors) + (IF stage = "executing" THEN 1 ELSE 0) = Taken
    /\ \A i \in 1 .. Len(errors) :
        /\ execution[errors[i]] = "rejected"
        /\ \E j \in 1 .. Taken : errors[i] = Tests[j]
        /\ stage = "executing" => errors[i] # current
    /\ \A s \in Scenarios : fn[s] = "returned" <=> execution[s] = "resolved"

ReportInv == CleanupInv /\ QueueInv /\ CountInv

\* The tests of a run stay the same.
LEMMA TestsSame == UNCHANGED modifier => Tests' = Tests
  BY DEF Tests, Kept, Place, Wanted, SomeOnly

\* How a function goes on.
LEMMA FnStep ==
    ASSUME MachineOK, NEW s \in Scenarios, ScenarioInv(s), StepOf(s)
    PROVE  /\ UNCHANGED <<modifier, executor, todo, current, successes, errors>>
           /\ stage' = stage \/ (stage = "cleanup" /\ stage' \in {"loop", "rejected"})
           /\ \/ UNCHANGED <<fn, execution>>
              \/ /\ fn[s] \in Active
                 /\ \A t \in Scenarios : t # s => fn'[t] = fn[t] /\ execution'[t] = execution[t]
                 /\ \/ fn'[s] \in Active /\ execution' = execution
                    \/ fn'[s] = "returned" /\ execution'[s] = "resolved"
                    \/ fn'[s] = "threw" /\ execution'[s] = "rejected"
  <1> DEFINE Goes == 
               /\ UNCHANGED <<modifier, executor, todo, current, successes, errors>>
               /\ stage' = stage \/ (stage = "cleanup" /\ stage' \in {"loop", "rejected"})
               /\ \/ UNCHANGED <<fn, execution>>
                  \/ /\ fn[s] \in Active
                     /\ \A t \in Scenarios : t # s => fn'[t] = fn[t] /\ execution'[t] = execution[t]
                     /\ \/ fn'[s] \in Active /\ execution' = execution
                        \/ fn'[s] = "returned" /\ execution'[s] = "resolved"
                        \/ fn'[s] = "threw" /\ execution'[s] = "rejected"
  <1>0. /\ fn \in [Scenarios -> Active \cup {"none", "returned", "threw"}]
        /\ execution \in [Scenarios -> {"none", "pending", "resolved", "rejected"}]
        /\ cleaning[s]["end"] \notin {"none", "failed"} => stage = "cleanup"
        /\ stopping[s]["end"] # {} => stage \in {"cleanup", "rejected"}
      BY DEF MachineOK, ScriptOK, ScenarioInv, ScriptOf, LeftOf
  <1>1. ASSUME NEW ps \in SUBSET Players[s], NEW start \in BOOLEAN, CallPlayers(s, ps, start)
        PROVE  Goes
      BY <1>0, <1>1 DEF CallPlayers, FnGoes, run, script, At, Active
  <1>2. ASSUME PlayersReset(s) PROVE Goes
      BY <1>0, <1>2 DEF PlayersReset, FnGoes, Throws, FnEnds, Settled, At, Active
  <1>3. ASSUME Built(s) PROVE Goes
      BY <1>0, <1>3 DEF Built, FnGoes, run, script, At, Active
  <1>4. ASSUME BuildFails(s) PROVE Goes
      BY <1>0, <1>4 DEF BuildFails, Throws, FnEnds, FnGoes, Settled, At, Active
  <1>5. ASSUME Return(s) PROVE Goes
      BY <1>0, <1>5 DEF Return, FnEnds, FnGoes, Settled, script, At, Active
  <1>6. ASSUME Activity(s) PROVE Goes
      BY <1>0, <1>6 DEF Activity, run, script, Active
  <1>7. ASSUME TimerFires(s) PROVE Goes
      BY <1>0, <1>7 DEF TimerFires, run, script, Active
  <1>8. ASSUME NEW p \in Players[s], Start(s, p) PROVE Goes
      BY <1>0, <1>8 DEF Start, FnGoes, run, script, At, Active
  <1>9. ASSUME NEW p \in Players[s], Spawned(s, p) PROVE Goes
      BY <1>0, <1>9 DEF Spawned, FnGoes, run, At, Active
  <1>10. ASSUME NEW p \in Players[s], SpawnFails(s, p) PROVE Goes
      BY <1>0, <1>10 DEF SpawnFails, Throws, FnEnds, FnGoes, Settled, At, Active
  <1>11. ASSUME NEW p \in Players[s], Initialized(s, p) PROVE Goes
      BY <1>0, <1>11 DEF Initialized, FnGoes, run, script, At, Active
  <1>12. ASSUME NEW p \in Players[s], InitializeFails(s, p) PROVE Goes
      BY <1>0, <1>12 DEF InitializeFails, Throws, FnEnds, FnGoes, Settled, At, Active
  <1>13. ASSUME NEW p \in Players[s], Call(s, p) PROVE Goes
      BY <1>0, <1>13 DEF Call, FnGoes, run, script, At, Active
  <1>14. ASSUME NEW p \in Players[s], CallReturns(s, p) PROVE Goes
      BY <1>0, <1>14 DEF CallReturns, FnGoes, run, script, At, Active
  <1>15. ASSUME NEW p \in Players[s], Shutdown(s, p) PROVE Goes
      BY <1>0, <1>15 DEF Shutdown, FnGoes, run, script, At, Active
  <1>16. ASSUME NEW p \in Players[s], ShutdownReturns(s, p) PROVE Goes
      BY <1>0, <1>16 DEF ShutdownReturns, FnGoes, run, script, At, Active
  <1>17. ASSUME NEW p \in Players[s], ShutdownFails(s, p) PROVE Goes
      BY <1>0, <1>17 DEF ShutdownFails, Throws, FnEnds, FnGoes, Settled, At, Active
  <1>18. ASSUME NEW p \in Players[s], NeverSettles(s, p) PROVE Goes
      BY <1>0, <1>18 DEF NeverSettles, FnGoes, run, At, Active
  <1>19. ASSUME NEW c \in Cleanups, PlayersStopped(s, c) PROVE Goes
      BY <1>0, <1>19 DEF PlayersStopped, CleanupEnds, script, Active
  <1>20. ASSUME NEW c \in Cleanups, ResetAnswered(s, c) PROVE Goes
      BY <1>0, <1>20 DEF ResetAnswered, run, script, Active
  <1>21. ASSUME NEW c \in Cleanups, ResetFails(s, c) PROVE Goes
      BY <1>0, <1>21 DEF ResetFails, script, Active
  <1>22. ASSUME NEW c \in Cleanups, SessionClosed(s, c) PROVE Goes
      BY <1>0, <1>22 DEF SessionClosed, CleanupEnds, script, Active
  <1>23. ASSUME NEW c \in Cleanups, NEW p \in Players[s], PlayerStopped(s, c, p) PROVE Goes
      BY <1>0, <1>23 DEF PlayerStopped, run, script, Active
  <1>24. ASSUME NEW c \in Cleanups, NEW p \in Players[s], KillHangs(s, c, p) PROVE Goes
      BY <1>0, <1>24 DEF KillHangs, run, script, Active
  <1>25. ASSUME NEW c \in Cleanups, NEW p \in Players[s], KillFails(s, c, p) PROVE Goes
      BY <1>0, <1>25 DEF KillFails, script, Active
  <1> QED
    BY <1>1, <1>2, <1>3, <1>4, <1>5, <1>6, <1>7, <1>8, <1>9, <1>10, <1>11, <1>12, <1>13,
       <1>14, <1>15, <1>16, <1>17, <1>18, <1>19, <1>20, <1>21, <1>22, <1>23, <1>24, <1>25
       DEF StepOf, ScriptStep, AwaitedStep, CleanupStep

\* A scenario is taken once: its function has not run before.
LEMMA TakenOnce ==
    ASSUME ReportInv, Execute
    PROVE  current' \in Scenarios /\ current' = Head(todo) /\ fn[current'] = "none"
  <1>1. todo # <<>> /\ current' = Head(todo)
      BY DEF Execute
  <1>2. /\ todo \in Seq(Scenarios) /\ Len(todo) <= Len(Tests) /\ Tests \in Seq(Scenarios)
        /\ Len(todo) \in Nat /\ Len(Tests) \in Nat /\ Taken \in Nat
        /\ \A i \in 1 .. Len(todo) : todo[i] = Tests[Taken + i]
      BY TestsSelected, LenProperties DEF ReportInv, QueueInv, Taken
  <1>3. Len(todo) # 0 /\ Head(todo) = todo[1] /\ Head(todo) \in Scenarios
      BY <1>1, <1>2, HeadTailProperties, EmptySeq
  <1>4. current' = Tests[Taken + 1] /\ Taken + 1 \in 1 .. Len(Tests)
      BY <1>1, <1>2, <1>3 DEF Taken
  <1>5. \A i \in 1 .. Taken : Tests[i] # current'
      BY <1>2, <1>4, TestsSelected
  <1> QED BY <1>1, <1>3, <1>5 DEF ReportInv, QueueInv

\* Taking the next test, or ending the loop, keeps the account.
LEMMA ExecuteReport ==
    ASSUME ReportInv, Execute
    PROVE  QueueInv' /\ CountInv'
  <1>1. /\ stage = "loop" /\ stage' = "executing" /\ todo # <<>>
        /\ current' = Head(todo) /\ todo' = Tail(todo)
        /\ UNCHANGED <<modifier, executor, successes, errors>>
        /\ \/ /\ fn' = [fn EXCEPT ![current'] = "script"]
              /\ execution' = [execution EXCEPT ![current'] = "pending"]
           \/ /\ executor # "unit" /\ fn' = fn
              /\ execution' = [execution EXCEPT ![current'] = "rejected"]
      BY DEF Execute
  <1>2. Tests' = Tests
      BY <1>1, TestsSame
  <1>3. /\ todo \in Seq(Scenarios) /\ Len(todo) <= Len(Tests) /\ Tests \in Seq(Scenarios)
        /\ Len(todo) \in Nat /\ Len(Tests) \in Nat /\ Taken \in Nat
        /\ \A i \in 1 .. Len(todo) : todo[i] = Tests[Taken + i]
      BY TestsSelected, LenProperties DEF ReportInv, QueueInv, Taken
  <1>4. /\ Head(todo) \in Scenarios /\ todo' \in Seq(Scenarios) /\ Len(todo') = Len(todo) - 1
        /\ \A i \in 1 .. Len(todo') : todo'[i] = todo[i + 1]
        /\ Len(todo) # 0 /\ Head(todo) = todo[1]
      BY <1>1, <1>3, HeadTailProperties, EmptySeq
  <1>5. /\ Taken' = Taken + 1 /\ current' \in Scenarios /\ current' = Tests[Taken + 1]
        /\ Taken + 1 \in 1 .. Len(Tests)
      BY <1>1, <1>2, <1>3, <1>4 DEF Taken
  <1>6. \A i \in 1 .. Taken : Tests[i] # current' /\ Tests[i] \in Scenarios
      BY <1>3, <1>5, TestsSelected DEF ReportInv
  <1>7. fn[current'] = "none"
      BY <1>5, <1>6 DEF ReportInv, QueueInv
  <1>8. /\ \A s \in Scenarios : s # current' => fn'[s] = fn[s] /\ execution'[s] = execution[s]
        /\ \/ fn'[current'] = "script" /\ execution'[current'] = "pending"
           \/ executor # "unit" /\ fn'[current'] = "none" /\ execution'[current'] = "rejected"
      BY <1>1, <1>5, <1>7 DEF ReportInv, CleanupInv, MachineOK, ScriptOK
  <1>9. QueueInv'
    <2>1. todo' \in Seq(Scenarios) /\ Len(todo') <= Len(Tests)
          BY <1>3, <1>4
    <2>2. \A i \in 1 .. Len(todo') : todo'[i] = Tests[Taken + 1 + i]
          BY <1>3, <1>4
    <2>3. \A s \in Scenarios : fn'[s] # "none" => \E i \in 1 .. Taken + 1 : s = Tests[i]
          BY <1>3, <1>5, <1>8 DEF ReportInv, QueueInv
    <2>4. executor = "unit" => \A i \in 1 .. Taken + 1 : fn'[Tests[i]] # "none"
      <3> SUFFICES ASSUME executor = "unit", NEW i \in 1 .. Taken + 1 PROVE fn'[Tests[i]] # "none"
          OBVIOUS
      <3>1. CASE i = Taken + 1
            BY <1>5, <1>8, <3>1
      <3>2. CASE i # Taken + 1
        <4>1. i \in 1 .. Taken
              BY <1>3, <3>2
        <4> QED BY <1>6, <1>8, <4>1 DEF ReportInv, QueueInv
      <3> QED BY <3>1, <3>2
    <2>5. Taken + 1 # 0 /\ current' = Tests[Taken + 1]
          BY <1>3, <1>5
    <2> QED BY <1>1, <1>2, <1>5, <2>1, <2>2, <2>3, <2>4, <2>5 DEF QueueInv
  <1>10. CountInv'
    <2>1. Counted' = Counted
          BY <1>1, <1>5, <1>7, <1>8 DEF Counted
    <2>2. /\ errors \in Seq(Scenarios) /\ successes = Cardinality(Counted)
          /\ successes + Len(errors) = Taken
          BY <1>1, LenProperties DEF ReportInv, CountInv, CleanupInv, MachineOK, RunOK
    <2>3. ASSUME NEW i \in 1 .. Len(errors)
          PROVE  /\ execution'[errors[i]] = "rejected" /\ errors[i] # current'
                 /\ \E j \in 1 .. Taken + 1 : errors[i] = Tests[j]
      <3>1. errors[i] \in Scenarios /\ execution[errors[i]] = "rejected"
            BY <2>2 DEF ReportInv, CountInv
      <3>2. PICK j \in 1 .. Taken : errors[i] = Tests[j]
            BY DEF ReportInv, CountInv
      <3> QED BY <1>3, <1>6, <1>8, <3>1, <3>2
    <2>4. \A s \in Scenarios : fn'[s] = "returned" <=> execution'[s] = "resolved"
          BY <1>5, <1>8 DEF ReportInv, CountInv
    <2>5. successes + Len(errors) + 1 = Taken + 1
          BY <2>2
    <2> QED BY <1>1, <1>2, <1>5, <2>1, <2>2, <2>3, <2>4, <2>5 DEF CountInv
  <1> QED BY <1>9, <1>10

\* Counting the test that has ended keeps the account.
LEMMA ExecutedReport ==
    ASSUME ReportInv, Executed
    PROVE  QueueInv' /\ CountInv'
  <1>1. /\ stage = "executing" /\ stage' = "cleanup"
        /\ UNCHANGED <<modifier, executor, todo, current, fn, execution>>
        /\ IF execution[current] = "resolved"
           THEN successes' = successes + 1 /\ UNCHANGED errors
           ELSE errors' = Append(errors, current) /\ UNCHANGED successes
        /\ execution[current] \in {"resolved", "rejected"}
      BY DEF Executed, script
  <1>2. Tests' = Tests /\ Taken' = Taken
      BY <1>1, TestsSame DEF Taken
  <1>3. /\ Tests \in Seq(Scenarios) /\ Taken \in 1 .. Len(Tests) /\ current = Tests[Taken]
        /\ current \in Scenarios
      BY <1>1, TestsSelected, LenProperties DEF ReportInv, QueueInv, Taken
  <1>4. QueueInv'
      BY <1>1, <1>2, <1>3 DEF ReportInv, QueueInv
  <1>5. /\ errors \in Seq(Scenarios) /\ Len(errors) \in Nat /\ successes \in Nat
        /\ successes = Cardinality(Counted) /\ successes + Len(errors) + 1 = Taken
      BY <1>1, LenProperties DEF ReportInv, CountInv, CleanupInv, MachineOK, RunOK
  <1>6. IsFiniteSet(Counted)
      BY ScenariosFinite, FS_Subset DEF Counted
  <1>7. current \notin Counted
      BY <1>1 DEF Counted
  <1>8. CASE execution[current] = "resolved"
    <2>1. Counted' = Counted \cup {current}
          BY <1>1, <1>3, <1>8 DEF Counted, ReportInv, CountInv
    <2>2. Cardinality(Counted') = successes + 1
          BY <1>5, <1>6, <1>7, <2>1, FS_AddElement
    <2>3. errors' = errors /\ successes' = successes + 1
          BY <1>1, <1>8
    <2>4. successes' + Len(errors') + 0 = Taken
          BY <1>5, <2>3
    <2> QED BY <1>1, <1>2, <1>4, <2>2, <2>3, <2>4 DEF ReportInv, CountInv
  <1>9. CASE execution[current] = "rejected"
    <2>1. Counted' = Counted
          BY <1>1, <1>3, <1>9 DEF Counted, ReportInv, CountInv
    <2>2. errors' = Append(errors, current) /\ successes' = successes
          BY <1>1, <1>9
    <2>3. /\ errors' \in Seq(Scenarios) /\ Len(errors') = Len(errors) + 1
          /\ \A i \in 1 .. Len(errors) : errors'[i] = errors[i]
          /\ errors'[Len(errors) + 1] = current
          BY <1>3, <1>5, <2>2, AppendProperties
    <2>4. ASSUME NEW i \in 1 .. Len(errors')
          PROVE  execution[errors'[i]] = "rejected" /\ \E j \in 1 .. Taken : errors'[i] = Tests[j]
      <3>1. CASE i \in 1 .. Len(errors)
            BY <2>3, <3>1 DEF ReportInv, CountInv
      <3>2. CASE i = Len(errors) + 1
            BY <1>3, <1>9, <2>3, <3>2
      <3> QED BY <1>5, <2>3, <3>1, <3>2
    <2>5. successes' + Len(errors') + 0 = Taken
          BY <1>5, <2>2, <2>3
    <2>6. successes' = Cardinality(Counted')
          BY <1>5, <2>1, <2>2
    <2> QED BY <1>1, <1>2, <1>4, <2>3, <2>4, <2>5, <2>6 DEF ReportInv, CountInv
  <1> QED BY <1>1, <1>4, <1>8, <1>9

\* What a scenario does between being taken and being counted keeps the account.
LEMMA ScenarioReport ==
    ASSUME ReportInv, NEW s \in Scenarios, StepOf(s)
    PROVE  QueueInv' /\ CountInv'
  <1>1. /\ UNCHANGED <<modifier, executor, todo, current, successes, errors>>
        /\ stage' = stage \/ (stage = "cleanup" /\ stage' \in {"loop", "rejected"})
        /\ \/ UNCHANGED <<fn, execution>>
           \/ /\ fn[s] \in Active
              /\ \A t \in Scenarios : t # s => fn'[t] = fn[t] /\ execution'[t] = execution[t]
              /\ \/ fn'[s] \in Active /\ execution' = execution
                 \/ fn'[s] = "returned" /\ execution'[s] = "resolved"
                 \/ fn'[s] = "threw" /\ execution'[s] = "rejected"
      BY FnStep DEF ReportInv, CleanupInv
  <1>2. Tests' = Tests /\ Taken' = Taken
      BY <1>1, TestsSame DEF Taken
  <1>3. /\ \A t \in Scenarios : t # s => fn'[t] = fn[t] /\ execution'[t] = execution[t]
        /\ fn[s] \in Active => s = current /\ stage = "executing" /\ execution[s] = "pending"
        /\ fn[s] \notin Active => fn' = fn /\ execution' = execution
        /\ fn[s] # "none" <=> fn'[s] # "none"
      BY <1>1 DEF ReportInv, CleanupInv, ScenarioInv, ScriptOf, Active
  <1>4. \A i \in 1 .. Taken : Tests[i] \in Scenarios
      BY TestsSelected, LenProperties DEF ReportInv, QueueInv, Taken
  <1>5. QueueInv'
    <2>1. \A t \in Scenarios : fn'[t] # "none" <=> fn[t] # "none"
          BY <1>3
    <2> QED BY <1>1, <1>2, <1>4, <2>1 DEF ReportInv, QueueInv
  <1>6. CountInv'
    <2>1. Counted' = Counted
          BY <1>1, <1>3 DEF Counted
    <2>2. \A t \in Scenarios : fn'[t] = "returned" <=> execution'[t] = "resolved"
          BY <1>1, <1>3 DEF ReportInv, CountInv, Active
    <2>3. ASSUME NEW i \in 1 .. Len(errors) PROVE execution'[errors[i]] = "rejected"
      <3>1. errors[i] \in Scenarios /\ execution[errors[i]] = "rejected"
            BY DEF ReportInv, CountInv
      <3>2. errors[i] = s => fn[s] \notin Active
            BY <1>3, <3>1
      <3> QED BY <1>3, <3>1, <3>2
    <2> QED BY <1>1, <1>2, <2>1, <2>2, <2>3 DEF ReportInv, CountInv
  <1> QED BY <1>5, <1>6

\* At the start no test is taken and nothing is counted.
LEMMA InitReport == Init => QueueInv /\ CountInv
  <1> SUFFICES ASSUME Init PROVE QueueInv /\ CountInv
      OBVIOUS
  <1>1. Len(Tests) \in Nat /\ todo = Tests /\ Taken = 0
      BY TestsSelected, LenProperties DEF Init, Taken
  <1>2. QueueInv
      BY <1>1, TestsSelected DEF Init, QueueInv
  <1>3. Counted = {} /\ Cardinality({}) = 0
      BY FS_EmptySet DEF Init, Counted
  <1>4. errors = <<>> /\ <<>> \in Seq(Scenarios) /\ Len(errors) = 0 /\ 1 .. 0 = {}
      BY DEF Init
  <1> QED BY <1>1, <1>2, <1>3, <1>4 DEF Init, CountInv

\* The counts and the queue go together in every reachable state.
LEMMA ReportInductive == Spec => []ReportInv
  <1>1. CleanupInv /\ Init => ReportInv
      BY InitReport DEF ReportInv
  <1>2. ReportInv /\ CleanupInv' /\ [Next]_vars => ReportInv'
    <2> SUFFICES ASSUME ReportInv, CleanupInv', [Next]_vars
                 PROVE  QueueInv' /\ CountInv'
        BY DEF ReportInv
    <2>1. ASSUME UNCHANGED <<modifier, executor, todo, current, successes, errors, fn, execution>>,
                 stage' = stage \/ (stage = "loop" /\ todo = <<>> /\ stage' = "done")
          PROVE  QueueInv' /\ CountInv'
      <3>1. Tests' = Tests /\ Taken' = Taken
            BY <2>1, TestsSame DEF Taken
      <3>2. Counted' = Counted
            BY <2>1 DEF Counted
      <3>3. QueueInv'
            BY <2>1, <3>1 DEF ReportInv, QueueInv
      <3>4. CountInv'
            BY <2>1, <3>1, <3>2 DEF ReportInv, CountInv
      <3> QED BY <3>3, <3>4
    <2>2. CASE Report
          BY <2>1, <2>2 DEF Report, script
    <2>3. CASE UNCHANGED vars
          BY <2>1, <2>3 DEF vars, run, script
    <2> QED
      BY <2>2, <2>3, ExecuteReport, ExecutedReport, ScenarioReport
         DEF Next, StepOf
  <1> QED BY <1>1, <1>2, CleanupInductive, PTL DEF Spec

\* The variables have their types.
THEOREM TypeCorrect == Spec => []TypeOK
  <1>1. ReportInv => TypeOK
      BY DEF ReportInv, CleanupInv, MachineOK, RunOK, ScriptOK, SessionOK, BatchesOK,
             PlayersOK,
             PlayerStates, StoppingOK, QueueInv, CountInv, TypeOK, Active
  <1> QED BY <1>1, ReportInductive, PTL

\* The report of a run accounts for every test, once and as it ended, and for no test that
\* is skipped (run, _executeSeries).
THEOREM ReportIsHonest == Spec => []HonestReport
  <1>1. ReportInv => HonestReport
    <2> SUFFICES ASSUME ReportInv, stage = "done"
                 PROVE  /\ successes = Cardinality({s \in Scenarios : fn[s] = "returned"})
                        /\ successes + Len(errors) = Len(Tests)
                        /\ \A s \in Scenarios :
                            /\ s \in ToSet(errors) => execution[s] = "rejected"
                            /\ (executor = "unit" /\ s \in ToSet(Tests)) => fn[s] \in {"returned", "threw"}
                            /\ fn[s] # "none" => modifier[s] # "skip"
        BY DEF HonestReport
    <2>1. Counted = {s \in Scenarios : fn[s] = "returned"}
          BY DEF Counted
    <2>2. todo = <<>> /\ Len(Tests) \in Nat
          BY TestsSelected, LenProperties DEF ReportInv, QueueInv
    <2>3. Taken = Len(Tests)
          BY <2>2 DEF Taken
    <2>4. successes = Cardinality(Counted) /\ successes + Len(errors) = Taken
          BY LenProperties DEF ReportInv, CountInv, CleanupInv, MachineOK, RunOK
    <2>5. ASSUME NEW s \in Scenarios
          PROVE  /\ s \in ToSet(errors) => execution[s] = "rejected"
                 /\ (executor = "unit" /\ s \in ToSet(Tests)) => fn[s] \in {"returned", "threw"}
                 /\ fn[s] # "none" => modifier[s] # "skip"
      <3>1. s \in ToSet(errors) => execution[s] = "rejected"
            BY LenProperties DEF ToSet, ReportInv, CountInv
      <3>2. s \in ToSet(Tests) => \E i \in 1 .. Len(Tests) : Tests[i] = s
            BY TestsSelected, LenProperties DEF ToSet
      <3>3. fn[s] \notin Active /\ fn[s] \in Active \cup {"none", "returned", "threw"}
            BY DEF ReportInv, CleanupInv, ScenarioInv, ScriptOf, MachineOK, ScriptOK
      <3>4. (executor = "unit" /\ s \in ToSet(Tests)) => fn[s] \in {"returned", "threw"}
            BY <2>3, <3>2, <3>3 DEF ReportInv, QueueInv
      <3>5. fn[s] # "none" => modifier[s] # "skip"
            BY <2>3, TestsSelected DEF ReportInv, QueueInv
      <3> QED BY <3>1, <3>4, <3>5
    <2> QED BY <2>1, <2>3, <2>4, <2>5
  <1> QED BY <1>1, ReportInductive, PTL

-----------------------------------------------------------------------------
\* Which conductors may be left: those of players of the scenario that were built, and
\* remote ones only with a session that the cleanup knows.
HeldOf(s) ==
    /\ fn[s] = "none" => remote[s] = {}
    /\ fn[s] \in Active \ {"reset"} /\ remote[s] # {} => clients[s]
    /\ local_players[s] \cap remote[s] # {} => clients[s]
    /\ \A p \in local_players[s] : player[s][p] # "none"
    /\ forsaken[s] \subseteq local_players[s]
    /\ \A c \in Cleanups : stopping[s][c] \subseteq local_players[s]

\* The steps of a scenario keep what it holds.
LEMMA HeldStep ==
    ASSUME MachineOK, NEW s \in Scenarios, ScenarioInv(s), HeldOf(s), StepOf(s)
    PROVE  HeldOf(s)'
  <1>1. ASSUME NEW ps \in SUBSET Players[s], NEW start \in BOOLEAN, CallPlayers(s, ps, start)
        PROVE  HeldOf(s)'
      BY <1>1
         DEF MachineOK, ScriptOK, SessionOK, BatchesOK, PlayersOK, StoppingOK, CallPlayers,
             FnGoes, script, cleanups, At, ScenarioInv, ScriptOf, HeldOf, Active
  <1>2. ASSUME PlayersReset(s) PROVE HeldOf(s)'
      BY <1>2
         DEF MachineOK, ScriptOK, SessionOK, BatchesOK, PlayersOK, StoppingOK, PlayersReset,
             FnGoes, Throws, FnEnds, cleanups, At, ScenarioInv, ScriptOf, HeldOf, Active
  <1>3. ASSUME Built(s) PROVE HeldOf(s)'
      BY <1>3
         DEF MachineOK, ScriptOK, SessionOK, BatchesOK, PlayersOK, StoppingOK, Built,
             FnGoes, script, cleanups, At, ScenarioInv, ScriptOf, HeldOf, Active
  <1>4. ASSUME BuildFails(s) PROVE HeldOf(s)'
      BY <1>4
         DEF MachineOK, ScriptOK, SessionOK, BatchesOK, PlayersOK, StoppingOK, BuildFails,
             Throws, FnEnds, FnGoes, machine, cleanups, At, ScenarioInv, ScriptOf, HeldOf,
             Active
  <1>5. ASSUME Return(s) PROVE HeldOf(s)'
      BY <1>5
         DEF MachineOK, ScriptOK, SessionOK, BatchesOK, PlayersOK, StoppingOK, Return,
             FnEnds, FnGoes, script, machine, cleanups, At, ScenarioInv, ScriptOf, HeldOf,
             Active
  <1>6. ASSUME Activity(s) PROVE HeldOf(s)'
      BY <1>6
         DEF MachineOK, ScriptOK, SessionOK, BatchesOK, PlayersOK, StoppingOK, Activity,
             script, machine, cleanups, ScenarioInv, ScriptOf, HeldOf, Active
  <1>7. ASSUME TimerFires(s) PROVE HeldOf(s)'
      BY <1>7
         DEF MachineOK, ScriptOK, SessionOK, BatchesOK, PlayersOK, StoppingOK, TimerFires,
             Stops, script, ScenarioInv, ScriptOf, HeldOf, Active
  <1>8. ASSUME NEW p \in Players[s], Start(s, p) PROVE HeldOf(s)'
      BY <1>8
         DEF MachineOK, ScriptOK, SessionOK, BatchesOK, PlayersOK, StoppingOK, Start,
             FnGoes, script, machine, cleanups, At, ScenarioInv, ScriptOf, HeldOf, Active
  <1>9. ASSUME NEW p \in Players[s], Spawned(s, p) PROVE HeldOf(s)'
      BY <1>9
         DEF MachineOK, ScriptOK, SessionOK, BatchesOK, PlayersOK, StoppingOK, Spawned,
             FnGoes, cleanups, At, ScenarioInv, ScriptOf, HeldOf, Active
  <1>10. ASSUME NEW p \in Players[s], SpawnFails(s, p) PROVE HeldOf(s)'
      BY <1>10
         DEF MachineOK, ScriptOK, SessionOK, BatchesOK, PlayersOK, StoppingOK, SpawnFails,
             Throws, FnEnds, FnGoes, cleanups, At, ScenarioInv, ScriptOf, HeldOf, Active
  <1>11. ASSUME NEW p \in Players[s], Initialized(s, p) PROVE HeldOf(s)'
      BY <1>11
         DEF MachineOK, ScriptOK, SessionOK, BatchesOK, PlayersOK, StoppingOK, Initialized,
             FnGoes, script, machine, cleanups, At, ScenarioInv, ScriptOf, HeldOf, Active
  <1>12. ASSUME NEW p \in Players[s], InitializeFails(s, p) PROVE HeldOf(s)'
      BY <1>12
         DEF MachineOK, ScriptOK, SessionOK, BatchesOK, PlayersOK, StoppingOK,
             InitializeFails, Throws, FnEnds, FnGoes, machine, cleanups, At, ScenarioInv,
             ScriptOf, HeldOf, Active
  <1>13. ASSUME NEW p \in Players[s], Call(s, p) PROVE HeldOf(s)'
      BY <1>13
         DEF MachineOK, ScriptOK, SessionOK, BatchesOK, PlayersOK, StoppingOK, Call, FnGoes,
             script, machine, cleanups, At, ScenarioInv, ScriptOf, HeldOf, Active
  <1>14. ASSUME NEW p \in Players[s], CallReturns(s, p) PROVE HeldOf(s)'
      BY <1>14
         DEF MachineOK, ScriptOK, SessionOK, BatchesOK, PlayersOK, StoppingOK, CallReturns,
             FnGoes, script, machine, cleanups, At, ScenarioInv, ScriptOf, HeldOf, Active
  <1>15. ASSUME NEW p \in Players[s], Shutdown(s, p) PROVE HeldOf(s)'
      BY <1>15
         DEF MachineOK, ScriptOK, SessionOK, BatchesOK, PlayersOK, StoppingOK, Shutdown,
             FnGoes, script, cleanups, At, ScenarioInv, ScriptOf, HeldOf, Active
  <1>16. ASSUME NEW p \in Players[s], ShutdownReturns(s, p) PROVE HeldOf(s)'
      BY <1>16
         DEF MachineOK, ScriptOK, SessionOK, BatchesOK, PlayersOK, StoppingOK,
             ShutdownReturns, FnGoes, script, machine, cleanups, At, ScenarioInv, ScriptOf,
             HeldOf, Active
  <1>17. ASSUME NEW p \in Players[s], ShutdownFails(s, p) PROVE HeldOf(s)'
      BY <1>17
         DEF MachineOK, ScriptOK, SessionOK, BatchesOK, PlayersOK, StoppingOK,
             ShutdownFails, Throws, FnEnds, FnGoes, cleanups, At, ScenarioInv, ScriptOf,
             HeldOf, Active
  <1>18. ASSUME NEW p \in Players[s], NeverSettles(s, p) PROVE HeldOf(s)'
      BY <1>18
         DEF MachineOK, ScriptOK, SessionOK, BatchesOK, PlayersOK, StoppingOK, NeverSettles,
             FnGoes, machine, cleanups, At, ScenarioInv, ScriptOf, HeldOf, Active
  <1>19. ASSUME NEW c \in Cleanups, PlayersStopped(s, c) PROVE HeldOf(s)'
      BY <1>19
         DEF MachineOK, ScriptOK, SessionOK, BatchesOK, PlayersOK, StoppingOK,
             PlayersStopped, script, machine, ScenarioInv, ScriptOf, HeldOf, Active
  <1>20. ASSUME NEW c \in Cleanups, ResetAnswered(s, c) PROVE HeldOf(s)'
      BY <1>20
         DEF MachineOK, ScriptOK, SessionOK, BatchesOK, PlayersOK, StoppingOK,
             ResetAnswered, script, ScenarioInv, ScriptOf, HeldOf, Active
  <1>21. ASSUME NEW c \in Cleanups, ResetFails(s, c) PROVE HeldOf(s)'
      BY <1>21
         DEF MachineOK, ScriptOK, SessionOK, BatchesOK, PlayersOK, StoppingOK, ResetFails,
             script, machine, ScenarioInv, ScriptOf, HeldOf, Active
  <1>22. ASSUME NEW c \in Cleanups, SessionClosed(s, c) PROVE HeldOf(s)'
      BY <1>22
         DEF MachineOK, ScriptOK, SessionOK, BatchesOK, PlayersOK, StoppingOK,
             SessionClosed, script, ScenarioInv, ScriptOf, HeldOf, Active
  <1>23. ASSUME NEW c \in Cleanups, NEW p \in Players[s], PlayerStopped(s, c, p)
        PROVE  HeldOf(s)'
      BY <1>23
         DEF MachineOK, ScriptOK, SessionOK, BatchesOK, PlayersOK, StoppingOK,
             PlayerStopped, script, machine, ScenarioInv, ScriptOf, HeldOf, Active
  <1>24. ASSUME NEW c \in Cleanups, NEW p \in Players[s], KillHangs(s, c, p) PROVE HeldOf(s)'
      BY <1>24
         DEF MachineOK, ScriptOK, SessionOK, BatchesOK, PlayersOK, StoppingOK, KillHangs,
             script, machine, ScenarioInv, ScriptOf, HeldOf, Active
  <1>25. ASSUME NEW c \in Cleanups, NEW p \in Players[s], KillFails(s, c, p) PROVE HeldOf(s)'
      BY <1>25
         DEF MachineOK, ScriptOK, SessionOK, BatchesOK, PlayersOK, StoppingOK, KillFails,
             script, ScenarioInv, ScriptOf, HeldOf, Active
  <1> QED
    BY <1>1, <1>2, <1>3, <1>4, <1>5, <1>6, <1>7, <1>8, <1>9, <1>10, <1>11, <1>12, <1>13,
       <1>14, <1>15, <1>16, <1>17, <1>18, <1>19, <1>20, <1>21, <1>22, <1>23, <1>24, <1>25
       DEF StepOf, ScriptStep, AwaitedStep, CleanupStep

\* The loop keeps it: a scenario is taken once, and Executed stops players that were built.
LEMMA LoopHeld ==
    ASSUME ReportInv, NEW t \in Scenarios, HeldOf(t), Execute \/ Executed \/ Report
    PROVE  HeldOf(t)'
  <1>1. CASE Execute
    <2>1. UNCHANGED <<local_players, remote, forsaken, clients, player, stopping>>
          BY <1>1 DEF Execute, machine, cleanups
    <2>2. fn'[t] = fn[t] \/ (fn[t] = "none" /\ fn'[t] = "script")
          BY <1>1, TakenOnce DEF Execute, ReportInv, CleanupInv, MachineOK, ScriptOK
    <2> QED BY <2>1, <2>2 DEF HeldOf
  <1>2. CASE Executed
    <2>1. UNCHANGED <<fn, local_players, remote, forsaken, clients>>
          BY <1>2 DEF Executed, script
    <2>2. CASE t # current
      <3>1. player'[t] = player[t] /\ stopping'[t] = stopping[t]
            BY <1>2, <2>2 DEF Executed, Stops, ReportInv, CleanupInv, MachineOK
      <3> QED BY <2>1, <3>1 DEF HeldOf
    <2>3. CASE t = current
      <3>1. local_players[t] \subseteq Players[t] /\ current \in Scenarios
            BY <2>3 DEF ReportInv, CleanupInv, MachineOK, BatchesOK
      <3>2. /\ \A p \in local_players[t] : player'[t][p] \in {player[t][p], "down"}
            /\ stopping'[t]["end"] \subseteq local_players[t]
            /\ stopping'[t]["forced"] = stopping[t]["forced"]
            BY <1>2, <2>3, <3>1
               DEF Executed, Stops, ReportInv, CleanupInv, MachineOK, PlayersOK, StoppingOK,
                   Cleanups
      <3> QED BY <2>1, <3>2 DEF HeldOf, Cleanups
    <2> QED BY <2>2, <2>3
  <1>3. CASE Report
        BY <1>3 DEF Report, script, machine, cleanups, HeldOf
  <1> QED BY <1>1, <1>2, <1>3

HeldInv == \A s \in Scenarios : HeldOf(s)

\* It holds in every reachable state.
LEMMA HeldInductive == Spec => [](ReportInv /\ HeldInv)
  <1>1. Init => HeldInv
        BY DEF Init, HeldInv, HeldOf, Active, Cleanups
  <1>2. ReportInv /\ HeldInv /\ [Next]_vars => HeldInv'
    <2> SUFFICES ASSUME ReportInv, HeldInv, [Next]_vars, NEW t \in Scenarios
                 PROVE  HeldOf(t)'
        BY DEF HeldInv
    <2>1. CASE Execute \/ Executed \/ Report
          BY <2>1, LoopHeld DEF HeldInv
    <2>2. ASSUME NEW s \in Scenarios, StepOf(s) PROVE HeldOf(t)'
      <3>1. MachineOK /\ ScenarioInv(s)
            BY DEF ReportInv, CleanupInv
      <3>2. CASE t = s
            BY <2>2, <3>1, <3>2, HeldStep DEF HeldInv
      <3>3. CASE t # s
        <4>1. Same(t) /\ HeldOf(t)
              BY <2>2, <3>1, <3>3, OthersSame DEF HeldInv
        <4> QED BY <4>1 DEF Same, HeldOf
      <3> QED BY <3>2, <3>3
    <2>3. CASE UNCHANGED vars
          BY <2>3 DEF HeldInv, HeldOf, vars, script, machine, cleanups
    <2> QED BY <2>1, <2>2, <2>3 DEF Next, StepOf
  <1> QED BY <1>1, <1>2, ReportInductive, PTL DEF Spec

\* Before the next scenario runs and before the run ends nothing of an earlier one is left
\* but what the property names.
THEOREM NothingIsLeft == Spec => []NothingLeft
  <1>1. ReportInv /\ HeldInv => NothingLeft
    <2> SUFFICES ASSUME ReportInv, HeldInv, NEW s \in Scenarios,
                        s # current \/ stage \in {"loop", "done"}
                 PROVE  Clean(s)
        BY DEF NothingLeft
    <2>1. /\ fn[s] \notin Active
          /\ \A p \in Players[s] : player[s][p] # "up"
          /\ timer[s] => cleaning[s]["forced"] # "none"
          /\ clients[s] => session[s] = "closed"
          /\ stopping[s]["end"] = {}
          BY DEF ReportInv, CleanupInv, ScenarioInv, ScriptOf, LeftOf
    <2>2. ASSUME NEW p \in Players[s], Runs(s, p)
          PROVE  p \notin remote[s] /\ p \in forsaken[s] \cup stopping[s]["forced"]
      <3>1. p \in forsaken[s] \cup stopping[s]["forced"]
            BY <2>1, <2>2 DEF Runs, Active, Cleanups
      <3>2. p \in local_players[s]
            BY <3>1 DEF HeldInv, HeldOf, Cleanups
      <3>3. p \in remote[s] => session[s] = "closed"
            BY <2>1, <3>2 DEF HeldInv, HeldOf
      <3> QED BY <2>2, <3>1, <3>3 DEF Runs
    <2> QED BY <2>1, <2>2 DEF Clean
  <1> QED BY <1>1, HeldInductive, PTL
=============================================================================
