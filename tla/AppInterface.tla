---------------------------- MODULE AppInterface ----------------------------
(***************************************************************************)
(* The connections of a trycp server to the app interfaces of conductors   *)
(* (src/crates/trycp_server/src/app_interface.rs): the CONNECTIONS map from *)
(* ports to slots (an Arc<Mutex<Option<Connection>>>), the pending requests *)
(* of a connection, and the listen task that forwards what the conductor    *)
(* sends to the session that opened the connection.                        *)
(*                                                                         *)
(* Sessions handle one request at a time and run concurrently.  A step of a *)
(* handler or of a listen task is what it does between two awaits; locks of *)
(* CONNECTIONS are never held across one, the lock of a slot is.  A call    *)
(* that was sent is not answered by its handler: the listen task forwards   *)
(* the response of the conductor later.                                     *)
(***************************************************************************)
EXTENDS Naturals, FiniteSets

CONSTANTS
    Sessions,        \* websocket sessions of clients
    Ports,           \* ports on which conductors serve an app interface
    Users,           \* the sessions that use a port
    MaxRequests,     \* requests the sessions send in all
    MaxKeys,         \* calls that can be pending on a connection
    MaxSignals,      \* signals the conductors emit in all
    Ops,             \* the kinds of request they send
    Faults,          \* the failures of the environment that may happen
    ExclusiveReset,  \* whether clients send Reset only when the server is idle
    None             \* no value

OpNames    == {"connect", "disconnect", "call", "reset"}
FaultNames == {"conductor_dies", "session_ends", "remove_dir_fails"}

ASSUME SizesAssumption == /\ MaxRequests \in Nat
                           /\ MaxKeys \in Nat
                           /\ MaxSignals \in Nat
ASSUME KindsAssumption == /\ Ops \subseteq OpNames
                          /\ Faults \subseteq FaultNames
                          /\ ExclusiveReset \in BOOLEAN
                          /\ Users \in [Ports -> SUBSET Sessions]

\* Every request makes at most one slot and one connection.
Ids   == 1..MaxRequests
Slots == Ids
Conns == Ids
Keys  == 1..MaxKeys

\* The request a session sent, and the request that a conductor gets for it:
\* HolochainMessage::Request has the key only, origin is what it is about.
Origins  == [session : Sessions, id : Ids]
Requests == [key : Keys, origin : Origins]

ASSUME NoneAssumption ==
    None \notin Sessions \cup Ports \cup Nat \cup Origins \cup {"ok", "error"}

\* What the websocket of a connection delivers to the listen task.
Messages == [type : {"response"}, request : Requests]
                \cup [type : {"signal", "close"}]

\* What the listen task sends to the session: a response, with the id of a
\* request, or a signal.
Signal    == [id |-> None, origin |-> None]
Forwarded == [id : Ids, origin : Origins] \cup {Signal}

\* A response that was sent, and the session it was sent to.
Deliveries == [to : Sessions, origin : Origins]

Listening == {"unborn", "running", "failed", "aborted"}

Frame   == [slot : Slots \cup {None}, conn : Conns \cup {None},
            key : Keys \cup {None}, closed : BOOLEAN, taken : SUBSET Slots]
NoFrame == [slot |-> None, conn |-> None, key |-> None, closed |-> FALSE,
            taken |-> {}]

Labels == {"idle", "connect_get", "connect_lock", "connect_dial",
           "disconnect_get", "take", "send_close", "abort", "await_listener",
           "call_get", "call_lock", "call_send", "reset_take", "reset_next"}

VARIABLES
    connections,  \* CONNECTIONS
    slot_conn,    \* the Option<Connection> in a slot
    slot_lock,    \* who holds the Mutex of a slot
    next_slot, next_conn,
    listener,     \* the listen task of a connection
    aborting,     \* the connections whose listen task was told to abort
    writer,       \* the session whose response_writer the listen task has
    port_of,      \* the port of a connection
    pending,      \* pending_requests: the request ids by key
    holding,      \* what the listen task is about to send to the session
    closing,      \* the connections on which a Close frame was sent
    alive,        \* the connections whose conductor still answers
    sent,         \* the requests that a conductor has still to answer
    arrived,      \* the messages that the listen task has still to read
    served,       \* the ports on which a conductor serves
    signals,      \* signals emitted so far
    open,         \* the sessions whose websocket is open
    answered,     \* the responses that were sent, and to which session
    pc, req, frame, reply, issued

slots    == <<connections, slot_conn, slot_lock, next_slot>>
links    == <<next_conn, listener, aborting, writer, port_of, pending, holding,
              closing>>
peers    == <<alive, sent, arrived, served, signals>>
clients  == <<open, answered>>
sessions == <<pc, req, frame, reply, issued>>
vars     == <<slots, links, peers, clients, sessions>>

Init ==
    /\ connections = [p \in Ports |-> None]
    /\ slot_conn = [t \in Slots |-> None]
    /\ slot_lock = [t \in Slots |-> None]
    /\ next_slot = 1
    /\ next_conn = 1
    /\ listener = [k \in Conns |-> "unborn"]
    /\ aborting = {}
    /\ writer = [k \in Conns |-> None]
    /\ port_of = [k \in Conns |-> None]
    /\ pending = [k \in Conns |-> [key \in Keys |-> None]]
    /\ holding = [k \in Conns |-> None]
    /\ closing = {}
    /\ alive = {}
    /\ sent = [k \in Conns |-> {}]
    /\ arrived = [k \in Conns |-> {}]
    /\ served = Ports
    /\ signals = 0
    /\ open = Sessions
    /\ answered = {}
    /\ pc = [s \in Sessions |-> "idle"]
    /\ req = [s \in Sessions |-> [op |-> None, port |-> None, id |-> None]]
    /\ frame = [s \in Sessions |-> NoFrame]
    /\ reply = [s \in Sessions |-> None]
    /\ issued = 0

-----------------------------------------------------------------------------
(* Sessions *)

Goto(s, label, f) ==
    /\ pc' = [pc EXCEPT ![s] = label]
    /\ frame' = [frame EXCEPT ![s] = f]
    /\ UNCHANGED <<req, reply, issued>>

\* The handler of s returns r: "ok", "error", or None when no reply is sent.
Return(s, r) ==
    /\ pc' = [pc EXCEPT ![s] = "idle"]
    /\ frame' = [frame EXCEPT ![s] = NoFrame]
    /\ reply' = [reply EXCEPT ![s] = r]
    /\ UNCHANGED <<req, issued>>

Busy(s) == pc[s] # "idle"

FirstLabel == [connect |-> "connect_get", disconnect |-> "disconnect_get",
               call |-> "call_get", reset |-> "reset_take"]

\* ws_message decodes the next request of session s.  The ids of a session
\* are the ones its client counts: another session has the same.
Receive(s, op, p) ==
    /\ ~Busy(s) /\ s \in open
    /\ issued < MaxRequests
    /\ \/ op = "reset" /\ p = None
       \/ op # "reset" /\ p # None /\ s \in Users[p]
    /\ ExclusiveReset => \A d \in Sessions \ {s} :
                            Busy(d) => op # "reset" /\ req[d].op # "reset"
    /\ pc' = [pc EXCEPT ![s] = FirstLabel[op]]
    /\ req' = [req EXCEPT ![s] =
                  [op |-> op, port |-> p,
                   id |-> IF req[s].id = None THEN 1 ELSE req[s].id + 1]]
    /\ reply' = [reply EXCEPT ![s] = None]
    /\ issued' = issued + 1
    /\ UNCHANGED <<frame, slots, links, peers, clients>>

Lock(s, t)  == slot_lock[t] = None /\ slot_lock' = [slot_lock EXCEPT ![t] = s]
Unlock(t)   == slot_lock' = [slot_lock EXCEPT ![t] = None]

-----------------------------------------------------------------------------
(* connect *)

\* CONNECTIONS.lock().await.entry(port).or_default()
ConnectGet(s) ==
    LET p == req[s].port
        t == IF connections[p] = None THEN next_slot ELSE connections[p] IN
    /\ pc[s] = "connect_get"
    /\ t \in Slots
    /\ connections' = [connections EXCEPT ![p] = t]
    /\ next_slot' = IF connections[p] = None THEN next_slot + 1 ELSE next_slot
    /\ Goto(s, "connect_lock", [frame[s] EXCEPT !.slot = t])
    /\ UNCHANGED <<slot_conn, slot_lock, links, peers, clients>>

\* connection.is_some(); the listen task of that connection may have ended.
MutNotConnected(t) == FALSE
Connected(t) == slot_conn[t] # None

ConnectLock(s) ==
    LET t == frame[s].slot IN
    /\ pc[s] = "connect_lock"
    /\ slot_lock[t] = None
    /\ \/ /\ Connected(t)
          /\ Return(s, "ok")
          /\ UNCHANGED slot_lock
       \/ /\ ~Connected(t)
          /\ Lock(s, t)
          /\ Goto(s, "connect_dial", frame[s])
    /\ UNCHANGED <<connections, slot_conn, next_slot, links, peers, clients>>

\* connect_async, and then the listen task is spawned and the slot filled.
ConnectDial(s) ==
    LET t == frame[s].slot
        k == next_conn IN
    /\ pc[s] = "connect_dial"
    /\ \/ /\ req[s].port \in served /\ k \in Conns
          /\ next_conn' = k + 1
          /\ listener' = [listener EXCEPT ![k] = "running"]
          /\ writer' = [writer EXCEPT ![k] = s]
          /\ port_of' = [port_of EXCEPT ![k] = req[s].port]
          /\ alive' = alive \cup {k}
          /\ slot_conn' = [slot_conn EXCEPT ![t] = k]
          /\ Return(s, "ok")
       \/ /\ req[s].port \notin served
          /\ Return(s, "error")
          /\ UNCHANGED <<next_conn, listener, writer, port_of, alive, slot_conn>>
    /\ Unlock(t)
    /\ UNCHANGED <<connections, next_slot, aborting, pending, holding, closing,
                   sent, arrived, served, signals, clients>>

-----------------------------------------------------------------------------
(* disconnect, for a client and for reset *)

DisconnectGet(s) ==
    LET t == connections[req[s].port] IN
    /\ pc[s] = "disconnect_get"
    /\ IF t = None THEN Return(s, "ok")
                   ELSE Goto(s, "take", [frame[s] EXCEPT !.slot = t])
    /\ UNCHANGED <<slots, links, peers, clients>>

\* The handler of s is done with a slot; reset logs an error and goes on.
Finish(s, r) ==
    \/ req[s].op = "disconnect" /\ Return(s, r)
    \/ /\ req[s].op = "reset"
       /\ Goto(s, "reset_next", [NoFrame EXCEPT !.taken = frame[s].taken])

\* connection_guard.take()
Take(s) ==
    LET t == frame[s].slot IN
    /\ pc[s] = "take"
    /\ slot_lock[t] = None
    /\ \/ /\ slot_conn[t] = None
          /\ Finish(s, "ok")
          /\ UNCHANGED <<slot_conn, slot_lock>>
       \/ /\ slot_conn[t] # None
          /\ Lock(s, t)
          /\ slot_conn' = [slot_conn EXCEPT ![t] = None]
          /\ Goto(s, "send_close", [frame[s] EXCEPT !.conn = slot_conn[t]])
    /\ UNCHANGED <<connections, next_slot, links, peers, clients>>

\* The Close frame: on a dead connection sending it may succeed all the same.
SendClose(s) ==
    /\ pc[s] = "send_close"
    /\ closing' = closing \cup {frame[s].conn}
    /\ \/ Goto(s, "abort", [frame[s] EXCEPT !.closed = TRUE])
       \/ /\ frame[s].conn \notin alive
          /\ Goto(s, "abort", frame[s])
    /\ UNCHANGED <<slots, next_conn, listener, aborting, writer, port_of,
                   pending, holding, peers, clients>>

\* cancel_listen_task.abort()
MutNotAborted(k) == UNCHANGED aborting
AbortTask(k) == aborting' = aborting \cup {k}

Abort(s) ==
    /\ pc[s] = "abort"
    /\ AbortTask(frame[s].conn)
    /\ Goto(s, "await_listener", frame[s])
    /\ UNCHANGED <<slots, next_conn, listener, writer, port_of, pending, holding,
                   closing, peers, clients>>

\* listen_task.await
MutNotAwaited(k) == TRUE
Joined(k) == listener[k] # "running"

AwaitListener(s) ==
    LET k == frame[s].conn IN
    /\ pc[s] = "await_listener"
    /\ Joined(k)
    /\ Unlock(frame[s].slot)
    /\ Finish(s, IF listener[k] # "failed" /\ frame[s].closed THEN "ok" ELSE "error")
    /\ UNCHANGED <<connections, slot_conn, next_slot, links, peers, clients>>

-----------------------------------------------------------------------------
(* call *)

CallGet(s) ==
    LET t == connections[req[s].port] IN
    /\ pc[s] = "call_get"
    /\ IF t = None THEN Return(s, "error")
                   ELSE Goto(s, "call_lock", [frame[s] EXCEPT !.slot = t])
    /\ UNCHANGED <<slots, links, peers, clients>>

\* Slab::insert returns a key that is vacant; a slab grows, up to MaxKeys here.
MutKeyReused(k) == {1}
VacantKeys(k) == {key \in Keys : pending[k][key] = None}

CallLock(s) ==
    LET t == frame[s].slot
        k == slot_conn[t] IN
    /\ pc[s] = "call_lock"
    /\ slot_lock[t] = None
    /\ \/ /\ k = None
          /\ Return(s, "error")
          /\ UNCHANGED <<slot_lock, pending>>
       \/ /\ k # None
          /\ Lock(s, t)
          /\ \E key \in VacantKeys(k) :
                /\ pending' = [pending EXCEPT ![k] =
                                  [pending[k] EXCEPT ![key] = req[s].id]]
                /\ Goto(s, "call_send", [frame[s] EXCEPT !.conn = k, !.key = key])
    /\ UNCHANGED <<connections, slot_conn, next_slot, next_conn, listener,
                   aborting, writer, port_of, holding, closing, peers, clients>>

\* pending_requests.remove(holochain_request_id), if it is still there
MutKeyLeft(k, key) == UNCHANGED pending
FreeKey(k, key) == pending' = [pending EXCEPT ![k] =
                                  [pending[k] EXCEPT ![key] = None]]

\* A request sent on a dead connection fails or is lost.
CallSend(s) ==
    LET k == frame[s].conn
        r == [key |-> frame[s].key,
              origin |-> [session |-> s, id |-> req[s].id]] IN
    /\ pc[s] = "call_send"
    /\ \/ /\ sent' = IF k \in alive THEN [sent EXCEPT ![k] = sent[k] \cup {r}]
                                    ELSE sent
          /\ Return(s, None)
          /\ UNCHANGED pending
       \/ /\ k \notin alive
          /\ FreeKey(k, frame[s].key)
          /\ Return(s, "error")
          /\ UNCHANGED sent
    /\ Unlock(frame[s].slot)
    /\ UNCHANGED <<connections, slot_conn, next_slot, next_conn, listener,
                   aborting, writer, port_of, holding, closing,
                   alive, arrived, served, signals, clients>>

-----------------------------------------------------------------------------
(* reset: its part in CONNECTIONS *)

\* std::mem::take(&mut *connections_guard)
TakenSlots == {connections[p] : p \in Ports} \ {None}

\* When the players directory cannot be removed reset answers an error, and
\* leaves the connections as they are.
ResetTake(s) ==
    /\ pc[s] = "reset_take"
    /\ \/ /\ connections' = [p \in Ports |-> None]
          /\ Goto(s, "reset_next",
                  [frame[s] EXCEPT !.taken = TakenSlots])
       \/ /\ "remove_dir_fails" \in Faults
          /\ Return(s, "error")
          /\ UNCHANGED connections
    /\ UNCHANGED <<slot_conn, slot_lock, next_slot, links, peers, clients>>

\* The connections that the loop has still to disconnect.
MutLoopEnds(s, t) == {}
Remaining(s, t) == frame[s].taken \ {t}

ResetNext(s) ==
    /\ pc[s] = "reset_next"
    /\ \/ frame[s].taken = {} /\ Return(s, "ok")
       \/ \E t \in frame[s].taken :
            Goto(s, "take", [NoFrame EXCEPT !.slot = t, !.taken = Remaining(s, t)])
    /\ UNCHANGED <<slots, links, peers, clients>>

HandlerStep(s) ==
    \/ ConnectGet(s) \/ ConnectLock(s) \/ ConnectDial(s)
    \/ DisconnectGet(s) \/ Take(s) \/ SendClose(s) \/ Abort(s) \/ AwaitListener(s)
    \/ CallGet(s) \/ CallLock(s) \/ CallSend(s)
    \/ ResetTake(s) \/ ResetNext(s)

-----------------------------------------------------------------------------
(* The listen task *)

\* The task of k ends; what it was about to send or to read is dropped.
Stop(k, how) ==
    /\ listener' = [listener EXCEPT ![k] = how]
    /\ holding' = [holding EXCEPT ![k] = None]
    /\ arrived' = [arrived EXCEPT ![k] = {}]

Consume(k, m) == arrived' = [arrived EXCEPT ![k] = arrived[k] \ {m}]

ListenResponse(k, m) ==
    LET r == m.request IN
    /\ m.type = "response"
    /\ Consume(k, m)
    /\ IF pending[k][r.key] # None
       THEN /\ holding' = [holding EXCEPT ![k] =
                              [id |-> pending[k][r.key], origin |-> r.origin]]
            /\ FreeKey(k, r.key)
       ELSE UNCHANGED <<holding, pending>>
    /\ UNCHANGED listener

ListenSignal(k, m) ==
    /\ m.type = "signal"
    /\ Consume(k, m)
    /\ holding' = [holding EXCEPT ![k] = Signal]
    /\ UNCHANGED <<listener, pending>>

\* "Expected a binary message"
ListenClose(k, m) ==
    /\ m.type = "close"
    /\ Stop(k, "failed")
    /\ UNCHANGED pending

ListenRead(k) ==
    /\ listener[k] = "running" /\ holding[k] = None
    /\ \E m \in arrived[k] :
          ListenResponse(k, m) \/ ListenSignal(k, m) \/ ListenClose(k, m)
    /\ UNCHANGED <<slots, next_conn, aborting, writer, port_of, closing,
                   alive, sent, served, signals, clients, sessions>>

\* The websocket of a conductor that died without a closing handshake.
ListenReadFails(k) ==
    /\ listener[k] = "running" /\ holding[k] = None
    /\ k \notin alive /\ arrived[k] = {}
    /\ Stop(k, "failed")
    /\ UNCHANGED <<slots, next_conn, aborting, writer, port_of, pending, closing,
                   alive, sent, served, signals, clients, sessions>>

\* response_writer.lock().await.send(..).await: to the session that opened the
\* connection, whichever session made the call.
Delivered(k) == answered \cup {[to |-> writer[k], origin |-> holding[k].origin]}

ListenSend(k) ==
    /\ listener[k] = "running" /\ holding[k] # None
    /\ \/ /\ writer[k] \in open
          /\ answered' = IF holding[k] = Signal THEN answered ELSE Delivered(k)
          /\ holding' = [holding EXCEPT ![k] = None]
          /\ UNCHANGED <<listener, arrived>>
       \/ /\ writer[k] \notin open
          /\ Stop(k, "failed")
          /\ UNCHANGED answered
    /\ UNCHANGED <<slots, next_conn, aborting, writer, port_of, pending, closing,
                   alive, sent, served, signals, open, sessions>>

\* The abort takes effect when the task is next polled.
ListenAborted(k) ==
    /\ listener[k] = "running" /\ k \in aborting
    /\ Stop(k, "aborted")
    /\ UNCHANGED <<slots, next_conn, aborting, writer, port_of, pending, closing,
                   alive, sent, served, signals, clients, sessions>>

ListenStep(k) ==
    ListenRead(k) \/ ListenReadFails(k) \/ ListenSend(k) \/ ListenAborted(k)

-----------------------------------------------------------------------------
(* Conductors and clients *)

\* A message reaches the listen task, if it still runs.
Deliver(k, m) ==
    arrived' = IF listener[k] = "running"
               THEN [arrived EXCEPT ![k] = arrived[k] \cup {m}] ELSE arrived

\* A conductor answers a request once, with the key the request has.
Respond(k) ==
    /\ k \in alive
    /\ \E r \in sent[k] :
          /\ sent' = [sent EXCEPT ![k] = sent[k] \ {r}]
          /\ Deliver(k, [type |-> "response", request |-> r])
    /\ UNCHANGED <<alive, served, signals, slots, links, clients, sessions>>

EmitSignal(k) ==
    /\ k \in alive /\ signals < MaxSignals
    /\ signals' = signals + 1
    /\ Deliver(k, [type |-> "signal"])
    /\ UNCHANGED <<alive, sent, served, slots, links, clients, sessions>>

\* A conductor that gets a Close frame answers it and serves no further.
PeerCloses(k) ==
    /\ k \in alive /\ k \in closing
    /\ alive' = alive \ {k}
    /\ sent' = [sent EXCEPT ![k] = {}]
    /\ Deliver(k, [type |-> "close"])
    /\ UNCHANGED <<served, signals, slots, links, clients, sessions>>

\* A conductor is killed or crashes; another may get its port.
ConductorDies(p) ==
    /\ "conductor_dies" \in Faults /\ p \in served
    /\ served' = served \ {p}
    /\ alive' = {k \in alive : port_of[k] # p}
    /\ sent' = [k \in Conns |-> IF port_of[k] = p THEN {} ELSE sent[k]]
    /\ UNCHANGED <<arrived, signals, slots, links, clients, sessions>>

ConductorStarts(p) ==
    /\ p \notin served
    /\ served' = served \cup {p}
    /\ UNCHANGED <<alive, sent, arrived, signals, slots, links, clients, sessions>>

SessionEnds(s) ==
    /\ "session_ends" \in Faults /\ s \in open
    /\ open' = open \ {s}
    /\ UNCHANGED <<answered, slots, links, peers, sessions>>

\* Every request that the bound allows has been handled.
Finished ==
    /\ \A s \in Sessions : ~Busy(s) /\ (issued = MaxRequests \/ s \notin open)
    /\ UNCHANGED vars

Next ==
    \/ \E s \in Sessions, op \in Ops, p \in Ports \cup {None} : Receive(s, op, p)
    \/ \E s \in Sessions : HandlerStep(s) \/ SessionEnds(s)
    \/ \E k \in Conns : ListenStep(k) \/ Respond(k) \/ EmitSignal(k) \/ PeerCloses(k)
    \/ \E p \in Ports : ConductorDies(p) \/ ConductorStarts(p)
    \/ Finished

Spec == Init /\ [][Next]_vars

\* Tasks are polled when they can go on (weak fairness), the futures Mutex of
\* a slot is handed to those who wait for it (strong fairness for the steps
\* that lock one), and conductors that live answer.
Fairness ==
    /\ \A s \in Sessions :
          /\ WF_vars(HandlerStep(s))
          /\ SF_vars(ConnectLock(s)) /\ SF_vars(Take(s)) /\ SF_vars(CallLock(s))
    /\ \A k \in Conns :
          /\ WF_vars(ListenRead(k) \/ ListenReadFails(k) \/ ListenSend(k))
          /\ WF_vars(ListenAborted(k)) /\ WF_vars(Respond(k))

FairSpec == Spec /\ Fairness

-----------------------------------------------------------------------------
(* Properties *)

TypeOK ==
    /\ connections \in [Ports -> Slots \cup {None}]
    /\ slot_conn \in [Slots -> Conns \cup {None}]
    /\ slot_lock \in [Slots -> Sessions \cup {None}]
    /\ next_slot \in 1..(MaxRequests + 1)
    /\ next_conn \in 1..(MaxRequests + 1)
    /\ listener \in [Conns -> Listening]
    /\ aborting \subseteq Conns /\ closing \subseteq Conns /\ alive \subseteq Conns
    /\ writer \in [Conns -> Sessions \cup {None}]
    /\ port_of \in [Conns -> Ports \cup {None}]
    /\ pending \in [Conns -> [Keys -> Ids \cup {None}]]
    /\ holding \in [Conns -> Forwarded \cup {None}]
    /\ sent \in [Conns -> SUBSET Requests]
    /\ arrived \in [Conns -> SUBSET Messages]
    /\ served \subseteq Ports /\ open \subseteq Sessions
    /\ signals \in 0..MaxSignals
    /\ answered \subseteq Deliveries
    /\ pc \in [Sessions -> Labels]
    /\ req \in [Sessions -> [op : OpNames \cup {None}, port : Ports \cup {None},
                             id : Ids \cup {None}]]
    /\ frame \in [Sessions -> Frame]
    /\ reply \in [Sessions -> {"ok", "error", None}]
    /\ issued \in 0..MaxRequests

\* The requests on the connection k that the conductor has not answered, or
\* whose response the listen task has not read.
InFlight(k) == sent[k] \cup {m.request : m \in {m \in arrived[k] : m.type = "response"}}

\* A response carries the id of the call it answers, however calls, failed
\* calls and responses interleave and keys are reused.
ResponseHasId ==
    \A k \in Conns : holding[k] \notin {None, Signal} =>
        holding[k].id = holding[k].origin.id

\* No key is leaked: a pending request is being sent, or the conductor has it,
\* or has died with it.
PendingIsInFlight ==
    \A k \in alive, key \in Keys :
        listener[k] = "running" /\ pending[k][key] # None =>
        \/ \E r \in InFlight(k) : r.key = key
        \/ \E s \in Sessions : /\ pc[s] = "call_send"
                               /\ frame[s].conn = k /\ frame[s].key = key

\* A call that is answered with an error is not pending any more: the ids that
\* are left belong to calls of another session with the same id.
FailedCallFreed ==
    \A s \in Sessions, k \in Conns, key \in Keys :
        /\ ~Busy(s) /\ req[s].op = "call" /\ reply[s] = "error"
        /\ pending[k][key] # None /\ pending[k][key] = req[s].id
        => \E d \in Sessions \ {s} : req[d].id # None /\ req[d].id >= req[s].id

\* Every running listen task is in a slot of the map, or a disconnect that
\* will end it has taken it from there.
NoStrayListener ==
    \A k \in Conns : listener[k] = "running" =>
        \/ \E p \in Ports : connections[p] # None /\ slot_conn[connections[p]] = k
        \/ \E s \in Sessions : frame[s].conn = k \/
              \E t \in frame[s].taken \cup {frame[s].slot} :
                  t # None /\ slot_conn[t] = k /\ req[s].op = "reset"

Ends(s, op) == req[s].op = op /\ Busy(s) /\ pc'[s] = "idle"

\* When a disconnect is answered nothing that the conductor sent before is
\* forwarded any more: no listen task for the port is running.
DisconnectSilences ==
    [][\A s \in Sessions : Ends(s, "disconnect") =>
          \A k \in Conns : port_of[k] = req[s].port => listener'[k] # "running"]_vars

\* When reset succeeds no listen task is running.
ResetSilences ==
    [][\A s \in Sessions : Ends(s, "reset") /\ reply'[s] = "ok" =>
          \A k \in Conns : listener'[k] # "running"]_vars

\* No handler waits forever for a slot or for a listen task.
EveryRequestReturns == \A s \in Sessions : Busy(s) ~> ~Busy(s)

\* A call that reached the conductor is answered, unless its connection ends:
\* to the session that opened the connection, and so to the caller when its
\* port is not shared.
CallAnswered ==
    \A k \in Conns, o \in Origins :
        (\E r \in sent[k] : r.origin = o) ~>
            \/ [to |-> writer[k], origin |-> o] \in answered
            \/ k \in closing \/ k \notin alive \/ listener[k] # "running"

=============================================================================
