--------------------------- MODULE AppInterfaceInv ---------------------------
(***************************************************************************)
(* The inductive invariants of AppInterface: ResponseInv and LeakInv hold  *)
(* whatever the clients do, SlotsInv when nobody resets a server that is in *)
(* use.  AppInterface_proofs proves them for every value of the constants;  *)
(* MCAppInterface extends this module, so that TLC can check them too.      *)
(***************************************************************************)
EXTENDS AppInterface

GetLabels  == {"connect_get", "disconnect_get", "call_get"}
ConnLabels == {"send_close", "abort", "await_listener", "call_send"}
SlotLabels == ConnLabels \cup {"connect_lock", "connect_dial", "take", "call_lock"}

\* What the local variables of a handler hold at its steps.
LocalsOf(s) ==
    /\ pc[s] # "idle" => req[s].id # None
    /\ req[s].id # None => req[s].id <= issued
    /\ pc[s] \in GetLabels => req[s].port # None
    /\ pc[s] \in SlotLabels => frame[s].slot # None
    /\ pc[s] \in ConnLabels => frame[s].conn # None
    /\ pc[s] = "call_send" => frame[s].key # None

LocalsInv == \A s \in Sessions : LocalsOf(s)

\* A request whose response the listen task has still to read.
Answer(r)    == [type |-> "response", request |-> r]
Unread(k, r) == Answer(r) \in arrived[k]
Flies(k, r)  == r \in sent[k] \/ Unread(k, r)

\* s is about to send a request on k with this key.
Sends(s, k, key) == pc[s] = "call_send" /\ frame[s].conn = k /\ frame[s].key = key

\* A request in flight owns its key, and so does a call about to be sent: the
\* slab has its id there, and no other request and no other call has the key.
FlightInv ==
    \A k \in Conns, r \in Requests : Flies(k, r) =>
        /\ pending[k][r.key] = r.origin.id
        /\ ~(r \in sent[k] /\ Unread(k, r))
        /\ \A q \in Requests : Flies(k, q) /\ q.key = r.key => q = r

SendInv ==
    \A s \in Sessions : pc[s] = "call_send" =>
        /\ pending[frame[s].conn][frame[s].key] = req[s].id
        /\ \A r \in Requests : Flies(frame[s].conn, r) => r.key # frame[s].key
        /\ \A d \in Sessions \ {s} : ~Sends(d, frame[s].conn, frame[s].key)

KeysInv == FlightInv /\ SendInv

ResponseInv == TypeOK /\ LocalsInv /\ KeysInv /\ ResponseHasId

-----------------------------------------------------------------------------
(* Keys are not leaked *)

\* A connection that has still to be made is as new, and in no slot.
FreshInv ==
    /\ \A k \in Conns : k >= next_conn =>
          /\ listener[k] = "unborn"
          /\ \A key \in Keys : pending[k][key] = None
    /\ \A t \in Slots : slot_conn[t] # None => slot_conn[t] < next_conn

LeakInv == ResponseInv /\ FreshInv /\ PendingIsInFlight

-----------------------------------------------------------------------------
(* Failed calls *)

\* The id under a key is that of a call that is being sent with this key, of one
\* that was sent and has no reply yet, or of an earlier request of its session.
PendsFor(s, k, key) ==
    /\ req[s].id # None
    /\ \/ req[s].id > pending[k][key]
       \/ /\ req[s].id = pending[k][key]
          /\ IF Busy(s) THEN Sends(s, k, key) ELSE reply[s] = None

FailureInv ==
    \A k \in Conns, key \in Keys :
        pending[k][key] # None => \E s \in Sessions : PendsFor(s, k, key)

-----------------------------------------------------------------------------
(* With ExclusiveReset: nobody resets a server that is in use *)

ClosingLabels == {"send_close", "abort", "await_listener"}
StartLabels   == {"idle", "connect_get", "disconnect_get", "call_get", "reset_take"}

Closes(s) == pc[s] \in ClosingLabels

\* A reset in progress is alone.
AloneInv ==
    \A s \in Sessions : Busy(s) /\ req[s].op = "reset" =>
        \A d \in Sessions \ {s} : ~Busy(d)

\* What a handler is at goes with the request, and with its local variables.
StepsOf(s) ==
    /\ pc[s] \in {"connect_get", "connect_lock", "connect_dial"} => req[s].op = "connect"
    /\ pc[s] = "disconnect_get" => req[s].op = "disconnect"
    /\ pc[s] \in ClosingLabels \cup {"take"} => req[s].op \in {"disconnect", "reset"}
    /\ pc[s] \in {"call_get", "call_lock", "call_send"} => req[s].op = "call"
    /\ pc[s] \in {"reset_take", "reset_next"} => req[s].op = "reset"
    /\ pc[s] \in StartLabels => frame[s] = NoFrame
    /\ pc[s] = "reset_next" => frame[s].slot = None
    /\ Busy(s) => req[s].op = "reset" \/ req[s].port # None

StepsInv == \A s \in Sessions : StepsOf(s)

\* A handler that fills or has emptied a slot, or sends on its connection, has
\* the slot locked.
LockInv ==
    \A s \in Sessions :
        /\ pc[s] \in ClosingLabels \cup {"connect_dial", "call_send"} =>
              slot_lock[frame[s].slot] = s
        /\ pc[s] \in ClosingLabels \cup {"connect_dial"} =>
              slot_conn[frame[s].slot] = None

\* The slot of a handler is the one of its port; a reset has emptied the map.
MapInv ==
    /\ \A s \in Sessions :
          pc[s] \in SlotLabels /\ req[s].op \in {"connect", "disconnect"} =>
              connections[req[s].port] = frame[s].slot
    /\ \A s \in Sessions :
          Busy(s) /\ req[s].op = "reset" /\ pc[s] # "reset_take" =>
              \A p \in Ports : connections[p] = None

\* A connection is in one slot.
OneSlotInv ==
    \A t, u \in Slots : slot_conn[t] # None /\ slot_conn[t] = slot_conn[u] => t = u

\* A connection whose listen task runs is in the slot of its port, or the
\* disconnect that took it from there is closing it, or a reset has it.
InPlace(k) ==
    LET t == connections[port_of[k]] IN
    /\ port_of[k] # None /\ t # None
    /\ \/ slot_conn[t] = k
       \/ \E s \in Sessions : Closes(s) /\ frame[s].conn = k /\ frame[s].slot = t

InReset(k) ==
    \E s \in Sessions :
        /\ req[s].op = "reset"
        /\ \/ Closes(s) /\ frame[s].conn = k
           \/ \E t \in frame[s].taken \cup {frame[s].slot} : t # None /\ slot_conn[t] = k

PlacesInv ==
    \A k \in Conns : listener[k] = "running" => InPlace(k) \/ InReset(k)

SlotsInv ==
    LeakInv /\ AloneInv /\ StepsInv /\ LockInv /\ MapInv /\ OneSlotInv /\ PlacesInv

=============================================================================
