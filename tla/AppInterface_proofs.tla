------------------------ MODULE AppInterface_proofs ------------------------
(***************************************************************************)
(* Proofs about AppInterface, for every number of sessions, ports, requests *)
(* and keys.  ResponseInv is inductive, hence the types are right and every *)
(* forwarded response has the id of the call it answers; so is LeakInv,     *)
(* hence no key is leaked; and with exclusive resets SlotsInv, hence every  *)
(* running listen task can still be ended, and disconnect and reset end     *)
(* those that they are for.  FailureInv is inductive on top of ResponseInv: *)
(* a failed call leaves nothing pending.                                    *)
(***************************************************************************)
EXTENDS AppInterfaceInv, TLAPS

USE DEF Ids, Slots, Conns, Keys, Connected, Joined, VacantKeys, FreeKey, AbortTask,
        TakenSlots, Remaining, Consume, Answer, Unread, Flies

-----------------------------------------------------------------------------
(* Types *)

\* TypeOK by groups of variables, so that a step that leaves a group alone
\* keeps its types at once.
SlotsType ==
    /\ connections \in [Ports -> Slots \cup {None}]
    /\ slot_conn \in [Slots -> Conns \cup {None}]
    /\ slot_lock \in [Slots -> Sessions \cup {None}]
    /\ next_slot \in 1..(MaxRequests + 1)

LinksType ==
    /\ next_conn \in 1..(MaxRequests + 1)
    /\ listener \in [Conns -> Listening]
    /\ aborting \subseteq Conns /\ closing \subseteq Conns
    /\ writer \in [Conns -> Sessions \cup {None}]
    /\ port_of \in [Conns -> Ports \cup {None}]
    /\ pending \in [Conns -> [Keys -> Ids \cup {None}]]
    /\ holding \in [Conns -> Forwarded \cup {None}]

PeersType ==
    /\ alive \subseteq Conns
    /\ sent \in [Conns -> SUBSET Requests]
    /\ arrived \in [Conns -> SUBSET Messages]
    /\ served \subseteq Ports
    /\ signals \in 0..MaxSignals

ClientsType == open \subseteq Sessions /\ answered \subseteq Deliveries

SessionsType ==
    /\ pc \in [Sessions -> Labels]
    /\ req \in [Sessions -> [op : OpNames \cup {None}, port : Ports \cup {None},
                             id : Ids \cup {None}]]
    /\ frame \in [Sessions -> Frame]
    /\ reply \in [Sessions -> {"ok", "error", None}]
    /\ issued \in 0..MaxRequests

\* The groups make up TypeOK, before a step and after it.
LEMMA TypeGroups ==
    /\ TypeOK <=> SlotsType /\ LinksType /\ PeersType /\ ClientsType /\ SessionsType
    /\ TypeOK' <=>
          SlotsType' /\ LinksType' /\ PeersType' /\ ClientsType' /\ SessionsType'
  BY DEF TypeOK, SlotsType, LinksType, PeersType, ClientsType, SessionsType

\* A group of variables that does not change keeps its types.
LEMMA UnchangedType ==
    ASSUME TypeOK
    PROVE  /\ UNCHANGED slots => SlotsType'
           /\ UNCHANGED links => LinksType'
           /\ UNCHANGED peers => PeersType'
           /\ UNCHANGED clients => ClientsType'
           /\ UNCHANGED sessions => SessionsType'
  BY TypeGroups DEF SlotsType, LinksType, PeersType, ClientsType, SessionsType,
         slots, links, peers, clients, sessions

\* The initial state has the right types.
LEMMA InitType == Init => TypeOK
  <1> SUFFICES ASSUME Init PROVE TypeOK
    OBVIOUS
  <1>1. NoFrame \in Frame
    BY DEF NoFrame, Frame
  <1>2. SlotsType /\ ClientsType
    BY SizesAssumption DEF Init, SlotsType, ClientsType
  <1>3. LinksType /\ PeersType
    BY SizesAssumption DEF Init, LinksType, PeersType, Listening
  <1>4. SessionsType
    BY <1>1, SizesAssumption DEF Init, SessionsType, Labels
  <1>5. QED
    BY <1>2, <1>3, <1>4, TypeGroups

\* Going to a step with a well-formed frame keeps the types of a session.
LEMMA GotoType ==
    ASSUME TypeOK, NEW s \in Sessions, NEW label \in Labels, NEW f \in Frame,
           Goto(s, label, f)
    PROVE  SessionsType'
  BY TypeGroups DEF SessionsType, Goto

\* Returning a reply keeps the types of a session.
LEMMA ReturnType ==
    ASSUME TypeOK, NEW s \in Sessions, NEW r \in {"ok", "error", None}, Return(s, r)
    PROVE  SessionsType'
  <1>1. NoFrame \in Frame /\ "idle" \in Labels
    BY DEF NoFrame, Frame, Labels
  <1>2. QED
    BY <1>1, TypeGroups DEF SessionsType, Return

\* The frames that the handlers build are frames.
LEMMA FrameType ==
    ASSUME TypeOK, NEW s \in Sessions
    PROVE  /\ frame[s] \in Frame
           /\ \A t \in Slots : [frame[s] EXCEPT !.slot = t] \in Frame
           /\ \A k \in Conns : [frame[s] EXCEPT !.conn = k] \in Frame
           /\ \A k \in Conns, key \in Keys :
                  [frame[s] EXCEPT !.conn = k, !.key = key] \in Frame
           /\ [frame[s] EXCEPT !.closed = TRUE] \in Frame
           /\ \A T \in SUBSET Slots : [frame[s] EXCEPT !.taken = T] \in Frame
           /\ \A T \in SUBSET Slots : [NoFrame EXCEPT !.taken = T] \in Frame
           /\ \A t \in Slots, T \in SUBSET Slots :
                  [NoFrame EXCEPT !.slot = t, !.taken = T] \in Frame
  <1>1. frame[s] \in Frame
    BY TypeGroups DEF SessionsType
  <1>2. QED
    BY <1>1 DEF Frame, NoFrame

\* The handler of a disconnect or of reset is done with a slot.
LEMMA FinishType ==
    ASSUME TypeOK, NEW s \in Sessions, NEW r \in {"ok", "error"}, Finish(s, r)
    PROVE  SessionsType'
  <1>1. frame[s].taken \in SUBSET Slots /\ "reset_next" \in Labels
    BY TypeGroups DEF SessionsType, Frame, Labels
  <1>2. QED
    BY <1>1, GotoType, ReturnType, FrameType DEF Finish

\* A slab with one entry changed is a slab.
LEMMA PendingType ==
    ASSUME TypeOK, NEW k \in Conns, NEW key \in Keys, NEW v \in Ids \cup {None}
    PROVE  [pending EXCEPT ![k] = [pending[k] EXCEPT ![key] = v]]
              \in [Conns -> [Keys -> Ids \cup {None}]]
  <1>1. pending \in [Conns -> [Keys -> Ids \cup {None}]]
    BY TypeGroups DEF LinksType
  <1>2. [pending[k] EXCEPT ![key] = v] \in [Keys -> Ids \cup {None}]
    BY <1>1
  <1>3. QED
    BY <1>1, <1>2

\* What a handler finds in its local variables at its steps.
LEMMA Locals ==
    ASSUME TypeOK, LocalsInv, NEW s \in Sessions
    PROVE  /\ pc[s] # "idle" => req[s].id \in Ids
           /\ pc[s] \in GetLabels => req[s].port \in Ports
           /\ pc[s] \in SlotLabels => frame[s].slot \in Slots
           /\ pc[s] \in ConnLabels => frame[s].conn \in Conns
           /\ pc[s] = "call_send" => frame[s].key \in Keys
           /\ frame[s].taken \in SUBSET Slots
           /\ req[s] \in [op : OpNames \cup {None}, port : Ports \cup {None},
                          id : Ids \cup {None}]
           /\ frame[s] \in Frame
  <1>1. /\ req[s] \in [op : OpNames \cup {None}, port : Ports \cup {None},
                       id : Ids \cup {None}]
        /\ frame[s] \in Frame
    BY TypeGroups DEF SessionsType
  <1>2. LocalsOf(s)
    BY DEF LocalsInv
  <1>3. QED
    BY <1>1, <1>2 DEF LocalsOf, Frame

\* The next request of a session has the right types.
LEMMA ReceiveType ==
    ASSUME ResponseInv, NEW s \in Sessions, NEW op \in Ops, NEW p \in Ports \cup {None},
           Receive(s, op, p)
    PROVE  TypeOK'
  <1>1. TypeOK /\ LocalsOf(s) /\ SessionsType
    BY TypeGroups DEF ResponseInv, LocalsInv
  <1>2. op \in OpNames /\ FirstLabel[op] \in Labels
    BY KindsAssumption DEF OpNames, FirstLabel, Labels
  <1>3. (IF req[s].id = None THEN 1 ELSE req[s].id + 1) \in Ids
    BY <1>1, SizesAssumption DEF SessionsType, LocalsOf, Receive
  <1>4. SessionsType'
    BY <1>1, <1>2, <1>3, SizesAssumption DEF SessionsType, Receive
  <1>5. QED
    BY <1>1, <1>4, UnchangedType, TypeGroups
       DEF Receive, slots, links, peers, clients

\* Every step of a handler has the right types.
LEMMA HandlerType ==
    ASSUME TypeOK, LocalsInv, NEW s \in Sessions, HandlerStep(s)
    PROVE  TypeOK'
  <1>0. SlotsType /\ LinksType /\ PeersType /\ ClientsType /\ SessionsType
    BY TypeGroups
  <1>l. {"idle", "connect_lock", "connect_dial", "take", "send_close", "abort",
         "await_listener", "call_lock", "call_send", "reset_next"} \subseteq Labels
    BY DEF Labels
  <1>1. CASE ConnectGet(s)
    <2>1. SessionsType'
      BY GotoType, ReturnType, FinishType, FrameType,
         Locals, <1>1, <1>l DEF ConnectGet
    <2>2. SlotsType'
      <3>1. next_slot' \in 1..(MaxRequests + 1)
        BY <1>0, <1>1, SizesAssumption DEF ConnectGet, SlotsType
      <3>2. connections' \in [Ports -> Slots \cup {None}]
        BY <1>0, <1>1 DEF ConnectGet, SlotsType
      <3> QED
        BY <1>0, <1>1, <3>1, <3>2 DEF ConnectGet, SlotsType
    <2> QED
      BY UnchangedType, <1>1, <2>1, <2>2, TypeGroups DEF ConnectGet
  <1>2. CASE ConnectLock(s)
    <2>1. SessionsType'
      BY GotoType, ReturnType, FinishType, FrameType,
         Locals, <1>2, <1>l DEF ConnectLock
    <2>2. SlotsType'
      BY <1>0, <1>2 DEF ConnectLock, SlotsType, Lock
    <2> QED
      BY UnchangedType, <1>2, <2>1, <2>2, TypeGroups DEF ConnectLock
  <1>3. CASE ConnectDial(s)
    <2>1. SessionsType'
      BY GotoType, ReturnType, FinishType, FrameType,
         Locals, <1>3 DEF ConnectDial
    <2>2. SlotsType'
      BY <1>0, <1>3 DEF ConnectDial, SlotsType, Unlock
    <2>3. LinksType'
      <3>1. next_conn' \in 1..(MaxRequests + 1)
        BY <1>0, <1>3, SizesAssumption DEF ConnectDial, LinksType
      <3>2. /\ listener' \in [Conns -> Listening]
            /\ writer' \in [Conns -> Sessions \cup {None}]
        BY <1>0, <1>3 DEF ConnectDial, LinksType, Listening
      <3>3. port_of' \in [Conns -> Ports \cup {None}]
        BY <1>0, <1>3 DEF ConnectDial, LinksType, PeersType
      <3> QED
        BY <1>0, <1>3, <3>1, <3>2, <3>3 DEF ConnectDial, LinksType
    <2>4. PeersType'
      BY <1>0, <1>3 DEF ConnectDial, PeersType
    <2> QED
      BY UnchangedType, <1>3, <2>1, <2>2, <2>3, <2>4, TypeGroups DEF ConnectDial
  <1>4. CASE DisconnectGet(s)
    <2>1. SessionsType'
      BY GotoType, ReturnType, FinishType, FrameType,
         Locals, <1>0, <1>4, <1>l DEF DisconnectGet, SlotsType, GetLabels
    <2> QED
      BY UnchangedType, <1>4, <2>1, TypeGroups DEF DisconnectGet
  <1>5. CASE Take(s)
    <2>0. frame[s].slot \in Slots
      BY Locals, <1>5 DEF Take, SlotLabels
    <2>1. SessionsType'
      BY GotoType, ReturnType, FinishType, FrameType,
         Locals, <1>0, <1>5, <1>l, <2>0 DEF Take, SlotsType
    <2>2. SlotsType'
      BY <1>0, <1>5 DEF Take, SlotsType, Lock
    <2> QED
      BY UnchangedType, <1>5, <2>1, <2>2, TypeGroups DEF Take
  <1>6. CASE SendClose(s)
    <2>0. frame[s].conn \in Conns
      BY Locals, <1>6 DEF SendClose, ConnLabels
    <2>1. SessionsType'
      BY GotoType, ReturnType, FinishType, FrameType,
         Locals, <1>6, <1>l DEF SendClose
    <2>2. LinksType'
      BY <1>0, <1>6, <2>0 DEF SendClose, LinksType
    <2> QED
      BY UnchangedType, <1>6, <2>1, <2>2, TypeGroups DEF SendClose
  <1>7. CASE Abort(s)
    <2>0. frame[s].conn \in Conns
      BY Locals, <1>7 DEF Abort, ConnLabels
    <2>1. SessionsType'
      BY GotoType, ReturnType, FinishType, FrameType,
         Locals, <1>7, <1>l DEF Abort
    <2>2. LinksType'
      BY <1>0, <1>7, <2>0 DEF Abort, LinksType
    <2> QED
      BY UnchangedType, <1>7, <2>1, <2>2, TypeGroups DEF Abort
  <1>8. CASE AwaitListener(s)
    <2>1. SessionsType'
      BY GotoType, ReturnType, FinishType, FrameType,
         Locals, <1>8 DEF AwaitListener
    <2>2. SlotsType'
      BY <1>0, <1>8 DEF AwaitListener, SlotsType, Unlock
    <2> QED
      BY UnchangedType, <1>8, <2>1, <2>2, TypeGroups DEF AwaitListener
  <1>9. CASE CallGet(s)
    <2>1. SessionsType'
      BY GotoType, ReturnType, FinishType, FrameType,
         Locals, <1>0, <1>9, <1>l DEF CallGet, SlotsType, GetLabels
    <2> QED
      BY UnchangedType, <1>9, <2>1, TypeGroups DEF CallGet
  <1>10. CASE CallLock(s)
    <2>0. frame[s].slot \in Slots /\ req[s].id \in Ids
      BY Locals, <1>10 DEF CallLock, SlotLabels
    <2>1. SessionsType'
      BY GotoType, ReturnType, FinishType, FrameType,
         Locals, <1>0, <1>10, <1>l, <2>0 DEF CallLock, SlotsType
    <2>2. SlotsType'
      BY <1>0, <1>10 DEF CallLock, SlotsType, Lock
    <2>3. LinksType'
      <3>1. slot_conn[frame[s].slot] \in Conns \cup {None}
        BY <1>0, <2>0 DEF SlotsType
      <3>2. pending' \in [Conns -> [Keys -> Ids \cup {None}]]
        <4>1. CASE UNCHANGED pending
          BY <1>0, <4>1 DEF LinksType
        <4>2. CASE slot_conn[frame[s].slot] # None
          <5> DEFINE k == slot_conn[frame[s].slot]
          <5>1. PICK key \in VacantKeys(k) :
                   pending' = [pending EXCEPT ![k] =
                                  [pending[k] EXCEPT ![key] = req[s].id]]
            BY <1>10, <4>2 DEF CallLock
          <5>2. k \in Conns /\ key \in Keys
            BY <3>1, <4>2
          <5>3. [pending EXCEPT ![k] = [pending[k] EXCEPT ![key] = req[s].id]]
                   \in [Conns -> [Keys -> Ids \cup {None}]]
            BY <2>0, <5>2, PendingType
          <5> QED
            BY <5>1, <5>3
        <4> QED
          BY <1>10, <4>1, <4>2 DEF CallLock
      <3> QED
        BY <1>0, <1>10, <3>2 DEF CallLock, LinksType
    <2> QED
      BY UnchangedType, <1>10, <2>1, <2>2, <2>3, TypeGroups DEF CallLock
  <1>11. CASE CallSend(s)
    <2>0. /\ frame[s].conn \in Conns /\ frame[s].key \in Keys
          /\ req[s].id \in Ids
      BY Locals, <1>11 DEF CallSend, ConnLabels
    <2>1. SessionsType'
      BY GotoType, ReturnType, FinishType, FrameType,
         Locals, <1>11 DEF CallSend
    <2>2. SlotsType'
      BY <1>0, <1>11 DEF CallSend, SlotsType, Unlock
    <2>3. LinksType'
      <3>1. pending' \in [Conns -> [Keys -> Ids \cup {None}]]
        <4>1. CASE UNCHANGED pending
          BY <1>0, <4>1 DEF LinksType
        <4>2. CASE FreeKey(frame[s].conn, frame[s].key)
          BY <2>0, <4>2, PendingType
        <4> QED
          BY <1>11, <4>1, <4>2 DEF CallSend
      <3> QED
        BY <1>0, <1>11, <3>1 DEF CallSend, LinksType
    <2>4. PeersType'
      BY <1>0, <1>11, <2>0 DEF CallSend, PeersType, Requests, Origins
    <2> QED
      BY UnchangedType, <1>11, <2>1, <2>2, <2>3, <2>4, TypeGroups DEF CallSend
  <1>12. CASE ResetTake(s)
    <2>1. TakenSlots \in SUBSET Slots
      BY <1>0 DEF SlotsType
    <2>2. SessionsType'
      BY GotoType, ReturnType, FinishType, FrameType,
         Locals, <1>12, <1>l, <2>1 DEF ResetTake
    <2>3. SlotsType'
      BY <1>0, <1>12 DEF ResetTake, SlotsType
    <2> QED
      BY UnchangedType, <1>12, <2>2, <2>3, TypeGroups DEF ResetTake
  <1>13. CASE ResetNext(s)
    <2>1. SessionsType'
      BY GotoType, ReturnType, FinishType, FrameType,
         Locals, <1>13, <1>l DEF ResetNext
    <2> QED
      BY UnchangedType, <1>13, <2>1, TypeGroups DEF ResetNext
  <1>14. QED
    BY <1>1, <1>2, <1>3, <1>4, <1>5, <1>6, <1>7, <1>8, <1>9, <1>10, <1>11, <1>12,
       <1>13 DEF HandlerStep
\* Every step of a listen task has the right types.
LEMMA ListenType ==
    ASSUME TypeOK, NEW k \in Conns, ListenStep(k)
    PROVE  TypeOK'
  <1>0. SlotsType /\ LinksType /\ PeersType /\ ClientsType /\ SessionsType
    BY TypeGroups
  <1>1. ASSUME NEW how \in {"failed", "aborted"}, Stop(k, how)
        PROVE  /\ listener' \in [Conns -> Listening]
               /\ holding' \in [Conns -> Forwarded \cup {None}]
               /\ arrived' \in [Conns -> SUBSET Messages]
    BY <1>0, <1>1 DEF Stop, LinksType, PeersType, Listening
  <1>2. CASE ListenRead(k)
    <2>1. PICK m \in arrived[k] :
             ListenResponse(k, m) \/ ListenSignal(k, m) \/ ListenClose(k, m)
      BY <1>2 DEF ListenRead
    <2>2. m \in Messages
      BY <1>0, <2>1 DEF PeersType
    <2>3. CASE ListenResponse(k, m)
      <3>1. m.request \in Requests
        BY <2>2, <2>3 DEF Messages, ListenResponse
      <3>2. arrived' \in [Conns -> SUBSET Messages]
        BY <1>0, <2>3 DEF ListenResponse, PeersType
      <3>3. m.request.key \in Keys /\ m.request.origin \in Origins
        BY <3>1 DEF Requests
      <3>4. CASE pending[k][m.request.key] # None
        <4> DEFINE f == [id |-> pending[k][m.request.key], origin |-> m.request.origin]
        <4>1. f \in Forwarded
          <5>0. pending[k] \in [Keys -> Ids \cup {None}]
            BY <1>0 DEF LinksType
          <5>1. pending[k][m.request.key] \in Ids
            BY <3>3, <3>4, <5>0
          <5> QED
            BY <3>3, <5>1 DEF Forwarded
        <4>2. holding' = [holding EXCEPT ![k] = f] /\ FreeKey(k, m.request.key)
          BY <2>3, <3>4 DEF ListenResponse
        <4>3. pending' \in [Conns -> [Keys -> Ids \cup {None}]]
          BY <3>3, <4>2, PendingType
        <4>4. holding' \in [Conns -> Forwarded \cup {None}]
          BY <1>0, <4>1, <4>2 DEF LinksType
        <4>5. UNCHANGED <<listener, clients, sessions, slots>>
          BY <1>2, <2>3 DEF ListenRead, ListenResponse
        <4> QED
          BY <1>0, <1>2, <3>2, <4>3, <4>4, <4>5, UnchangedType, TypeGroups
             DEF ListenRead, LinksType, PeersType
      <3>5. CASE pending[k][m.request.key] = None
        BY <1>0, <1>2, <2>3, <3>2, <3>5, UnchangedType, TypeGroups
           DEF ListenRead, ListenResponse, LinksType, PeersType
      <3> QED
        BY <3>4, <3>5
    <2>4. CASE ListenSignal(k, m)
      <3>1. holding' \in [Conns -> Forwarded \cup {None}]
        BY <1>0, <2>4 DEF ListenSignal, Forwarded, LinksType
      <3>2. arrived' \in [Conns -> SUBSET Messages]
        BY <1>0, <2>4 DEF ListenSignal, PeersType
      <3> QED
        BY <1>0, <1>2, <2>4, <3>1, <3>2, UnchangedType, TypeGroups
           DEF ListenRead, ListenSignal, LinksType, PeersType
    <2>5. CASE ListenClose(k, m)
      BY <1>0, <1>1, <1>2, <2>5, UnchangedType, TypeGroups
         DEF ListenRead, ListenClose, LinksType, PeersType
    <2> QED
      BY <2>1, <2>3, <2>4, <2>5
  <1>3. CASE ListenReadFails(k)
    BY <1>0, <1>1, <1>3, UnchangedType, TypeGroups
       DEF ListenReadFails, LinksType, PeersType
  <1>4. CASE ListenAborted(k)
    BY <1>0, <1>1, <1>4, UnchangedType, TypeGroups
       DEF ListenAborted, LinksType, PeersType
  <1>5. CASE ListenSend(k)
    <2>1. UNCHANGED <<slots, sessions>>
      BY <1>5 DEF ListenSend
    <2>2. /\ listener' \in [Conns -> Listening]
          /\ holding' \in [Conns -> Forwarded \cup {None}]
          /\ arrived' \in [Conns -> SUBSET Messages]
      BY <1>0, <1>1, <1>5 DEF ListenSend, LinksType, PeersType
    <2>3. LinksType' /\ PeersType'
      BY <1>0, <1>5, <2>2 DEF ListenSend, LinksType, PeersType
    <2>4. ClientsType'
      <3>1. holding[k] \in Forwarded
        BY <1>0, <1>5 DEF ListenSend, LinksType
      <3>2. holding[k] # Signal => holding[k].origin \in Origins
        BY <3>1 DEF Forwarded
      <3>3. open \subseteq Sessions /\ open' = open
        BY <1>0, <1>5 DEF ListenSend, ClientsType
      <3>4. CASE writer[k] \in open /\ holding[k] # Signal
        <4>1. [to |-> writer[k], origin |-> holding[k].origin] \in Deliveries
          BY <3>2, <3>3, <3>4 DEF Deliveries
        <4> QED
          BY <1>0, <1>5, <3>3, <3>4, <4>1 DEF ListenSend, Delivered, ClientsType
      <3>5. CASE ~(writer[k] \in open /\ holding[k] # Signal)
        BY <1>0, <1>5, <3>3, <3>5 DEF ListenSend, ClientsType
      <3> QED
        BY <3>4, <3>5
    <2> QED
      BY <2>1, <2>3, <2>4, UnchangedType, TypeGroups
  <1>6. QED
    BY <1>2, <1>3, <1>4, <1>5 DEF ListenStep

\* Every step of a conductor or of a client has the right types.
LEMMA EnvironmentType ==
    ASSUME TypeOK,
           \/ \E k \in Conns : Respond(k) \/ EmitSignal(k) \/ PeerCloses(k)
           \/ \E p \in Ports : ConductorDies(p) \/ ConductorStarts(p)
           \/ \E s \in Sessions : SessionEnds(s)
    PROVE  TypeOK'
  <1>0. SlotsType /\ LinksType /\ PeersType /\ ClientsType /\ SessionsType
    BY TypeGroups
  <1>1. ASSUME NEW k \in Conns, NEW m \in Messages, Deliver(k, m)
        PROVE  arrived' \in [Conns -> SUBSET Messages]
    BY <1>0, <1>1 DEF Deliver, PeersType
  <1>2. ASSUME NEW k \in Conns, Respond(k) PROVE TypeOK'
    <2>1. PICK r \in sent[k] : /\ sent' = [sent EXCEPT ![k] = sent[k] \ {r}]
                               /\ Deliver(k, [type |-> "response", request |-> r])
      BY <1>2 DEF Respond
    <2>2. [type |-> "response", request |-> r] \in Messages
      BY <1>0, <2>1 DEF PeersType, Messages
    <2>3. arrived' \in [Conns -> SUBSET Messages]
      BY <1>1, <2>1, <2>2
    <2>4. PeersType'
      BY <1>0, <1>2, <2>1, <2>3 DEF Respond, PeersType
    <2> QED
      BY <1>2, <2>4, UnchangedType, TypeGroups DEF Respond
  <1>3. ASSUME NEW k \in Conns, EmitSignal(k) PROVE TypeOK'
    <2>1. [type |-> "signal"] \in Messages
      BY DEF Messages
    <2>2. arrived' \in [Conns -> SUBSET Messages]
      BY <1>1, <1>3, <2>1 DEF EmitSignal
    <2>3. PeersType'
      BY <1>0, <1>3, <2>2, SizesAssumption DEF EmitSignal, PeersType
    <2> QED
      BY <1>3, <2>3, UnchangedType, TypeGroups DEF EmitSignal
  <1>4. ASSUME NEW k \in Conns, PeerCloses(k) PROVE TypeOK'
    <2>1. [type |-> "close"] \in Messages
      BY DEF Messages
    <2>2. arrived' \in [Conns -> SUBSET Messages]
      BY <1>1, <1>4, <2>1 DEF PeerCloses
    <2>3. PeersType'
      BY <1>0, <1>4, <2>2 DEF PeerCloses, PeersType
    <2> QED
      BY <1>4, <2>3, UnchangedType, TypeGroups DEF PeerCloses
  <1>5. ASSUME NEW p \in Ports, ConductorDies(p) \/ ConductorStarts(p) PROVE TypeOK'
    <2>1. PeersType'
      BY <1>0, <1>5 DEF ConductorDies, ConductorStarts, PeersType
    <2> QED
      BY <1>5, <2>1, UnchangedType, TypeGroups DEF ConductorDies, ConductorStarts
  <1>6. ASSUME NEW s \in Sessions, SessionEnds(s) PROVE TypeOK'
    <2>1. ClientsType'
      BY <1>0, <1>6 DEF SessionEnds, ClientsType
    <2> QED
      BY <1>6, <2>1, UnchangedType, TypeGroups DEF SessionEnds
  <1>7. QED
    BY <1>2, <1>3, <1>4, <1>5, <1>6

-----------------------------------------------------------------------------
(* Local variables *)

\* A step of s changes the program counter and the local variables of s only.
LEMMA Others ==
    ASSUME TypeOK, NEW s \in Sessions, HandlerStep(s)
    PROVE  /\ \A d \in Sessions \ {s} : pc'[d] = pc[d] /\ frame'[d] = frame[d]
           /\ UNCHANGED <<req, issued>>
  <1>1. ASSUME NEW label, NEW f, Goto(s, label, f)
        PROVE  /\ \A d \in Sessions \ {s} : pc'[d] = pc[d] /\ frame'[d] = frame[d]
               /\ UNCHANGED <<req, issued>>
    BY <1>1, TypeGroups DEF Goto, SessionsType
  <1>2. ASSUME NEW r, Return(s, r)
        PROVE  /\ \A d \in Sessions \ {s} : pc'[d] = pc[d] /\ frame'[d] = frame[d]
               /\ UNCHANGED <<req, issued>>
    BY <1>2, TypeGroups DEF Return, SessionsType
  <1>3. ASSUME NEW r, Finish(s, r)
        PROVE  /\ \A d \in Sessions \ {s} : pc'[d] = pc[d] /\ frame'[d] = frame[d]
               /\ UNCHANGED <<req, issued>>
    BY <1>1, <1>2, <1>3 DEF Finish
  <1>4. CASE ConnectGet(s) \/ ConnectLock(s) \/ ConnectDial(s)
    BY <1>1, <1>2, <1>4 DEF ConnectGet, ConnectLock, ConnectDial
  <1>5. CASE DisconnectGet(s) \/ Take(s) \/ SendClose(s) \/ Abort(s) \/ AwaitListener(s)
    BY <1>1, <1>2, <1>3, <1>5
       DEF DisconnectGet, Take, SendClose, Abort, AwaitListener
  <1>6. CASE CallGet(s) \/ CallLock(s) \/ CallSend(s)
    BY <1>1, <1>2, <1>6 DEF CallGet, CallLock, CallSend
  <1>7. CASE ResetTake(s) \/ ResetNext(s)
    BY <1>1, <1>2, <1>7 DEF ResetTake, ResetNext
  <1>8. QED
    BY <1>4, <1>5, <1>6, <1>7 DEF HandlerStep

\* Where Goto leaves a session.
LEMMA GotoLocals ==
    ASSUME TypeOK, NEW s \in Sessions, NEW label, NEW f, Goto(s, label, f)
    PROVE  pc'[s] = label /\ frame'[s] = f
  BY TypeGroups DEF Goto, SessionsType

\* Where Return leaves a session.
LEMMA ReturnLocals ==
    ASSUME TypeOK, NEW s \in Sessions, NEW r, Return(s, r)
    PROVE  pc'[s] = "idle"
  BY TypeGroups DEF Return, SessionsType

\* Where Finish leaves a session.
LEMMA FinishLocals ==
    ASSUME TypeOK, NEW s \in Sessions, NEW r, Finish(s, r)
    PROVE  pc'[s] \in {"idle", "reset_next"}
  BY GotoLocals, ReturnLocals DEF Finish

\* What a frame holds after a field was assigned.
LEMMA FrameFields ==
    ASSUME TypeOK, NEW s \in Sessions
    PROVE  /\ \A t \in Slots : [frame[s] EXCEPT !.slot = t].slot = t
           /\ \A k \in Conns : /\ [frame[s] EXCEPT !.conn = k].conn = k
                               /\ [frame[s] EXCEPT !.conn = k].slot = frame[s].slot
           /\ \A k \in Conns, key \in Keys :
                 LET f == [frame[s] EXCEPT !.conn = k, !.key = key]
                 IN  f.conn = k /\ f.key = key /\ f.slot = frame[s].slot
           /\ [frame[s] EXCEPT !.closed = TRUE].conn = frame[s].conn
           /\ [frame[s] EXCEPT !.closed = TRUE].slot = frame[s].slot
  <1>1. frame[s] \in Frame
    BY TypeGroups DEF SessionsType
  <1>2. QED
    BY <1>1 DEF Frame

\* A handler keeps what LocalsInv says of its local variables.
LEMMA LocalsStep ==
    ASSUME TypeOK, LocalsInv, NEW s \in Sessions, HandlerStep(s)
    PROVE  LocalsInv'
  <1>1. SUFFICES LocalsOf(s)'
    BY Others DEF LocalsInv, LocalsOf
  <1>2. LocalsOf(s) /\ UNCHANGED <<req, issued>> /\ frame[s] \in Frame
    BY Others, Locals DEF LocalsInv
  <1>3. pc[s] # "idle"
    BY DEF HandlerStep, ConnectGet, ConnectLock, ConnectDial, DisconnectGet, Take,
           SendClose, Abort, AwaitListener, CallGet, CallLock, CallSend, ResetTake,
           ResetNext
  <1>4. ASSUME pc'[s] \in {"idle", "reset_next"} PROVE LocalsOf(s)'
    BY <1>2, <1>3, <1>4 DEF LocalsOf, GetLabels, SlotLabels, ConnLabels
  <1>5. ASSUME NEW r, Return(s, r) PROVE LocalsOf(s)'
    BY <1>4, <1>5, ReturnLocals
  <1>6. ASSUME NEW r, Finish(s, r) PROVE LocalsOf(s)'
    BY <1>4, <1>6, FinishLocals
  <1>7. ASSUME pc'[s] \in SlotLabels, frame'[s].slot # None,
               pc'[s] \in ConnLabels => frame'[s].conn # None,
               pc'[s] = "call_send" => frame'[s].key # None
        PROVE  LocalsOf(s)'
    BY <1>2, <1>3, <1>7 DEF LocalsOf, GetLabels, SlotLabels, ConnLabels
  <1>n. \A i \in Slots \cup Conns \cup Keys : i # None
    BY NoneAssumption
  <1> USE DEF GetLabels, SlotLabels, ConnLabels
  <1>8. CASE ConnectGet(s)
    <2>1. PICK t \in Slots : Goto(s, "connect_lock", [frame[s] EXCEPT !.slot = t])
      BY <1>8 DEF ConnectGet
    <2>2. pc'[s] = "connect_lock" /\ frame'[s] = [frame[s] EXCEPT !.slot = t]
      BY <2>1, GotoLocals
    <2> QED
      BY <1>7, <1>n, <2>2, FrameFields
  <1>9. CASE ConnectLock(s)
    <2>1. CASE Goto(s, "connect_dial", frame[s])
      BY <1>2, <1>7, <1>9, <2>1, GotoLocals DEF ConnectLock, LocalsOf
    <2> QED
      BY <1>5, <1>9, <2>1 DEF ConnectLock
  <1>10. CASE ConnectDial(s)
    BY <1>5, <1>10 DEF ConnectDial
  <1>11. CASE DisconnectGet(s)
    <2> DEFINE t == connections[req[s].port]
    <2>1. t \in Slots \cup {None}
      BY <1>11, TypeGroups, Locals DEF DisconnectGet, SlotsType
    <2>2. CASE t # None
      <3>1. pc'[s] = "take" /\ frame'[s] = [frame[s] EXCEPT !.slot = t]
        BY <1>11, <2>2, GotoLocals DEF DisconnectGet
      <3> QED
        BY <1>7, <2>1, <2>2, <3>1, FrameFields
    <2> QED
      BY <1>5, <1>11, <2>2 DEF DisconnectGet
  <1>12. CASE Take(s)
    <2> DEFINE k == slot_conn[frame[s].slot]
    <2>1. k \in Conns \cup {None}
      BY <1>12, TypeGroups, Locals DEF Take, SlotsType
    <2>2. CASE k # None
      <3>1. CASE Goto(s, "send_close", [frame[s] EXCEPT !.conn = k])
        <4>1. pc'[s] = "send_close" /\ frame'[s] = [frame[s] EXCEPT !.conn = k]
          BY <3>1, GotoLocals
        <4>2. frame'[s].conn # None /\ frame'[s].slot # None
          BY <1>2, <1>12, <2>1, <2>2, <4>1, FrameFields DEF Take, LocalsOf
        <4> QED
          BY <1>7, <4>1, <4>2
      <3> QED
        BY <1>12, <2>2, <3>1 DEF Take
    <2> QED
      BY <1>6, <1>12, <2>2 DEF Take
  <1>13. CASE SendClose(s)
    <2>1. /\ pc'[s] = "abort"
          /\ frame'[s] = frame[s] \/ frame'[s] = [frame[s] EXCEPT !.closed = TRUE]
      BY <1>13, GotoLocals DEF SendClose
    <2>2. frame'[s].conn # None /\ frame'[s].slot # None
      BY <1>2, <1>13, <2>1, FrameFields DEF SendClose, LocalsOf
    <2> QED
      BY <1>7, <2>1, <2>2
  <1>14. CASE Abort(s)
    BY <1>2, <1>7, <1>14, GotoLocals DEF Abort, LocalsOf
  <1>15. CASE AwaitListener(s)
    BY <1>6, <1>15 DEF AwaitListener
  <1>16. CASE CallGet(s)
    <2> DEFINE t == connections[req[s].port]
    <2>1. t \in Slots \cup {None}
      BY <1>16, TypeGroups, Locals DEF CallGet, SlotsType
    <2>2. CASE t # None
      <3>1. pc'[s] = "call_lock" /\ frame'[s] = [frame[s] EXCEPT !.slot = t]
        BY <1>16, <2>2, GotoLocals DEF CallGet
      <3> QED
        BY <1>7, <2>1, <2>2, <3>1, FrameFields
    <2> QED
      BY <1>5, <1>16, <2>2 DEF CallGet
  <1>17. CASE CallLock(s)
    <2> DEFINE k == slot_conn[frame[s].slot]
    <2>1. CASE Return(s, "error")
      BY <1>5, <2>1
    <2>2. CASE k # None
      <3>1. k \in Conns /\ frame[s].slot # None
        BY <1>2, <1>17, <2>2, TypeGroups, Locals DEF CallLock, SlotsType, LocalsOf
      <3>2. PICK key \in Keys :
               Goto(s, "call_send", [frame[s] EXCEPT !.conn = k, !.key = key])
        BY <1>17, <2>2 DEF CallLock
      <3>3. /\ pc'[s] = "call_send"
            /\ frame'[s] = [frame[s] EXCEPT !.conn = k, !.key = key]
        BY <3>2, GotoLocals
      <3>4. /\ frame'[s].slot # None /\ frame'[s].conn # None
            /\ frame'[s].key # None
        BY <1>n, <3>1, <3>2, <3>3, FrameFields
      <3> QED
        BY <1>7, <3>3, <3>4
    <2> QED
      BY <1>17, <2>1, <2>2 DEF CallLock
  <1>18. CASE CallSend(s)
    BY <1>5, <1>18 DEF CallSend
  <1>19. CASE ResetTake(s)
    BY <1>4, <1>5, <1>19, GotoLocals DEF ResetTake
  <1>20. CASE ResetNext(s)
    <2>1. CASE Return(s, "ok")
      BY <1>5, <2>1
    <2>2. CASE \E t \in frame[s].taken :
                 Goto(s, "take", [NoFrame EXCEPT !.slot = t, !.taken = Remaining(s, t)])
      <3>1. PICK t \in frame[s].taken :
                 Goto(s, "take", [NoFrame EXCEPT !.slot = t, !.taken = Remaining(s, t)])
        BY <2>2
      <3>2. t \in Slots
        BY <1>2 DEF Frame
      <3>3. /\ pc'[s] = "take"
            /\ frame'[s] = [NoFrame EXCEPT !.slot = t, !.taken = Remaining(s, t)]
        BY <3>1, GotoLocals
      <3>4. frame'[s].slot = t
        BY <3>3 DEF NoFrame
      <3> QED
        BY <1>7, <1>n, <3>2, <3>3, <3>4
    <2> QED
      BY <1>20, <2>1, <2>2 DEF ResetNext
  <1>21. QED
    BY <1>8, <1>9, <1>10, <1>11, <1>12, <1>13, <1>14, <1>15, <1>16, <1>17, <1>18,
       <1>19, <1>20 DEF HandlerStep

-----------------------------------------------------------------------------
(* Keys *)

\* What is known of a session that is about to send a request.
LEMMA Sender ==
    ASSUME TypeOK, LocalsInv, NEW s \in Sessions, pc[s] = "call_send"
    PROVE  frame[s].conn \in Conns /\ frame[s].key \in Keys /\ req[s].id \in Ids
  BY Locals DEF ConnLabels

\* What the slab of a connection holds.
LEMMA SlabType ==
    ASSUME TypeOK
    PROVE  \A k \in Conns, key \in Keys : pending[k][key] \in Ids \cup {None}
  <1>1. pending \in [Conns -> [Keys -> Ids \cup {None}]]
    BY TypeGroups DEF LinksType
  <1>2. QED
    BY <1>1

\* The parts of a request.
LEMMA RequestType ==
    ASSUME NEW r \in Requests
    PROVE  r.key \in Keys /\ r.origin.id \in Ids /\ r.origin.id # None
  BY NoneAssumption DEF Requests, Origins

\* A step that leaves the slabs alone, lets no request fly that did not fly,
\* has no request in two places and starts no call, keeps the keys.
LEMMA KeysKept ==
    ASSUME TypeOK, LocalsInv, KeysInv, UNCHANGED pending,
           \A k \in Conns, r \in Requests : Flies(k, r)' => Flies(k, r),
           \A k \in Conns, r \in Requests : ~(r \in sent'[k] /\ Unread(k, r)'),
           \A s \in Sessions : pc'[s] = "call_send" =>
               pc[s] = "call_send" /\ frame'[s] = frame[s] /\ req'[s] = req[s]
    PROVE  KeysInv'
  <1>1. FlightInv'
    <2> SUFFICES ASSUME NEW k \in Conns, NEW r \in Requests, Flies(k, r)'
                 PROVE  /\ pending'[k][r.key] = r.origin.id
                        /\ ~(r \in sent'[k] /\ Unread(k, r)')
                        /\ \A q \in Requests : Flies(k, q)' /\ q.key = r.key => q = r
      BY DEF FlightInv
    <2>1. Flies(k, r)
      OBVIOUS
    <2>2. pending[k][r.key] = r.origin.id
      BY <2>1 DEF KeysInv, FlightInv
    <2>3. \A q \in Requests : Flies(k, q) /\ q.key = r.key => q = r
      BY <2>1 DEF KeysInv, FlightInv
    <2> QED
      BY <2>2, <2>3
  <1>2. SendInv'
    BY Sender DEF KeysInv, SendInv, Sends
  <1>3. QED
    BY <1>1, <1>2 DEF KeysInv

\* When the requests of the conductors and the messages to read only get less.
LEMMA KeysShrink ==
    ASSUME TypeOK, LocalsInv, KeysInv, UNCHANGED pending,
           \A k \in Conns : sent'[k] \subseteq sent[k],
           \A k \in Conns, r \in Requests : Unread(k, r)' => Unread(k, r),
           \A s \in Sessions : pc'[s] = "call_send" =>
               pc[s] = "call_send" /\ frame'[s] = frame[s] /\ req'[s] = req[s]
    PROVE  KeysInv'
  <1>1. \A k \in Conns, r \in Requests : Flies(k, r)' => Flies(k, r)
    OBVIOUS
  <1>2. \A k \in Conns, r \in Requests : ~(r \in sent'[k] /\ Unread(k, r)')
    BY DEF KeysInv, FlightInv
  <1>3. QED
    BY <1>1, <1>2, KeysKept

\* A call takes a vacant key, so that no request in flight and no other call
\* about to be sent has it.
LEMMA CallLockKeys ==
    ASSUME TypeOK, LocalsInv, KeysInv, NEW s \in Sessions, CallLock(s)
    PROVE  KeysInv'
  <1> DEFINE k == slot_conn[frame[s].slot]
  <1>1. \A d \in Sessions \ {s} : pc'[d] = pc[d] /\ frame'[d] = frame[d]
    BY Others DEF HandlerStep
  <1>2. UNCHANGED <<req, sent, arrived>>
    BY Others DEF HandlerStep, CallLock, peers
  <1>3. CASE Return(s, "error") /\ UNCHANGED pending
    <2>1. pc'[s] = "idle"
      BY <1>3, ReturnLocals
    <2> QED
      BY <1>1, <1>2, <1>3, <2>1, KeysShrink
  <1>4. CASE k # None
    <2>1. k \in Conns /\ req[s].id \in Ids
      BY <1>4, TypeGroups, Locals DEF CallLock, SlotLabels, SlotsType
    <2>2. PICK key \in Keys :
             /\ pending[k][key] = None
             /\ pending' = [pending EXCEPT ![k] =
                               [pending[k] EXCEPT ![key] = req[s].id]]
             /\ Goto(s, "call_send", [frame[s] EXCEPT !.conn = k, !.key = key])
      BY <1>4 DEF CallLock
    <2>3. pc'[s] = "call_send" /\ frame'[s].conn = k /\ frame'[s].key = key
      <3>1. /\ pc'[s] = "call_send"
            /\ frame'[s] = [frame[s] EXCEPT !.conn = k, !.key = key]
        BY <2>2, GotoLocals
      <3> QED
        BY <2>1, <3>1, FrameFields
    <2>4. /\ pending'[k][key] = req[s].id
          /\ \A j \in Conns, l \in Keys :
                j # k \/ l # key => pending'[j][l] = pending[j][l]
      <3>1. pending \in [Conns -> [Keys -> Ids \cup {None}]]
        BY TypeGroups DEF LinksType
      <3> QED
        BY <2>1, <2>2, <3>1
    <2>5. \A r \in Requests : Flies(k, r) => r.key # key
      BY <2>1, <2>2, RequestType DEF KeysInv, FlightInv
    <2>6. \A d \in Sessions : ~Sends(d, k, key)
      <3>1. \A i \in Ids : i # None
        BY NoneAssumption
      <3> QED
        BY <2>2, <3>1, Sender DEF KeysInv, SendInv, Sends
    <2>7. FlightInv'
      <3>1. \A j, r : Flies(j, r)' <=> Flies(j, r)
        BY <1>2
      <3>2. ASSUME NEW j \in Conns, NEW r \in Requests, Flies(j, r)
            PROVE  /\ pending'[j][r.key] = r.origin.id
                   /\ ~(r \in sent'[j] /\ Unread(j, r)')
                   /\ \A q \in Requests : Flies(j, q) /\ q.key = r.key => q = r
        <4>1. r.key \in Keys /\ (j # k \/ r.key # key)
          BY <2>5, <3>2, RequestType
        <4>2. pending'[j][r.key] = pending[j][r.key]
          BY <2>4, <4>1
        <4>3. /\ pending[j][r.key] = r.origin.id
              /\ ~(r \in sent[j] /\ Unread(j, r))
              /\ \A q \in Requests : Flies(j, q) /\ q.key = r.key => q = r
          BY <3>2 DEF KeysInv, FlightInv
        <4> QED
          BY <1>2, <4>2, <4>3
      <3> HIDE DEF Flies
      <3> QED
        BY <3>1, <3>2 DEF FlightInv
    <2>8. SendInv'
      <3> SUFFICES ASSUME NEW d \in Sessions, pc'[d] = "call_send"
                   PROVE  /\ pending'[frame'[d].conn][frame'[d].key] = req'[d].id
                          /\ \A r \in Requests :
                                Flies(frame[d].conn, r)' => r.key # frame'[d].key
                          /\ \A e \in Sessions \ {d} :
                                ~Sends(e, frame[d].conn, frame[d].key)'
        BY DEF SendInv
      <3>1. CASE d = s
        BY <1>1, <1>2, <2>3, <2>4, <2>5, <2>6, <3>1 DEF Sends
      <3>2. CASE d # s
        <4>1. /\ pc[d] = "call_send" /\ frame'[d] = frame[d]
              /\ frame[d].conn # k \/ frame[d].key # key
          BY <1>1, <2>6, <3>2 DEF Sends
        <4>2. frame[d].conn \in Conns /\ frame[d].key \in Keys
          BY <4>1, Sender
        <4> QED
          BY <1>1, <1>2, <2>3, <2>4, <4>1, <4>2 DEF KeysInv, SendInv, Sends
      <3> QED
        BY <3>1, <3>2
    <2> QED
      BY <2>7, <2>8 DEF KeysInv
  <1>5. QED
    BY <1>3, <1>4 DEF CallLock

\* A call that is sent flies with the key it has; one that fails frees it.
LEMMA CallSendKeys ==
    ASSUME TypeOK, LocalsInv, KeysInv, NEW s \in Sessions, CallSend(s)
    PROVE  KeysInv'
  <1> DEFINE k == frame[s].conn
             key == frame[s].key
             r == [key |-> key, origin |-> [session |-> s, id |-> req[s].id]]
  <1>1. \A d \in Sessions \ {s} : pc'[d] = pc[d] /\ frame'[d] = frame[d]
    BY Others DEF HandlerStep
  <1>2. UNCHANGED <<req, arrived>> /\ pc'[s] = "idle"
    BY Others, ReturnLocals DEF HandlerStep, CallSend
  <1>3. k \in Conns /\ key \in Keys /\ req[s].id \in Ids /\ r \in Requests
    BY Sender DEF CallSend, Requests, Origins
  <1>4. /\ pending[k][key] = req[s].id
        /\ \A q \in Requests : Flies(k, q) => q.key # key
        /\ \A d \in Sessions \ {s} : ~Sends(d, k, key)
    BY DEF CallSend, KeysInv, SendInv
  <1>5. sent \in [Conns -> SUBSET Requests]
        /\ pending \in [Conns -> [Keys -> Ids \cup {None}]]
    BY TypeGroups DEF PeersType, LinksType
  <1>6. CASE UNCHANGED pending /\ sent' = [sent EXCEPT ![k] = sent[k] \cup {r}]
    <2>1. \A j \in Conns, q \in Requests :
             Flies(j, q)' => Flies(j, q) \/ (j = k /\ q = r)
      BY <1>2, <1>3, <1>5, <1>6
    <2>2. ~Unread(k, r)
      BY <1>3, <1>4
    <2>3. FlightInv'
      <3> SUFFICES ASSUME NEW j \in Conns, NEW q \in Requests, Flies(j, q)'
                   PROVE  /\ pending'[j][q.key] = q.origin.id
                          /\ ~(q \in sent'[j] /\ Unread(j, q)')
                          /\ \A p \in Requests : Flies(j, p)' /\ p.key = q.key => p = q
        BY DEF FlightInv
      <3>1. CASE j = k /\ q = r
        BY <1>2, <1>3, <1>4, <1>6, <2>1, <2>2, <3>1
      <3>2. CASE ~(j = k /\ q = r)
        <4>1. Flies(j, q) /\ (j = k => q.key # key)
          BY <1>4, <2>1, <3>2
        <4>2. q \in sent'[j] => q \in sent[j]
          BY <1>5, <1>6, <3>2
        <4>3. /\ pending[j][q.key] = q.origin.id
              /\ ~(q \in sent[j] /\ Unread(j, q))
              /\ \A p \in Requests : Flies(j, p) /\ p.key = q.key => p = q
          BY <4>1 DEF KeysInv, FlightInv
        <4>4. ASSUME NEW p \in Requests, Flies(j, p)', p.key = q.key PROVE p = q
          <5>1. ~(j = k /\ p = r)
            BY <4>1, <4>4
          <5> QED
            BY <2>1, <4>3, <4>4, <5>1
        <4> QED
          BY <1>2, <1>6, <4>2, <4>3, <4>4
      <3> QED
        BY <3>1, <3>2
    <2>4. SendInv'
      <3> SUFFICES ASSUME NEW d \in Sessions, pc'[d] = "call_send"
                   PROVE  /\ pending'[frame'[d].conn][frame'[d].key] = req'[d].id
                          /\ \A q \in Requests :
                                Flies(frame[d].conn, q)' => q.key # frame'[d].key
                          /\ \A e \in Sessions \ {d} :
                                ~Sends(e, frame[d].conn, frame[d].key)'
        BY DEF SendInv
      <3>1. d # s /\ pc[d] = "call_send" /\ frame'[d] = frame[d]
        BY <1>1, <1>2
      <3>2. frame[d].conn \in Conns /\ (frame[d].conn = k => frame[d].key # key)
        BY <1>4, <3>1, Sender DEF Sends
      <3> QED
        BY <1>1, <1>2, <1>6, <2>1, <3>1, <3>2 DEF KeysInv, SendInv, Sends
    <2> QED
      BY <2>3, <2>4 DEF KeysInv
  <1>7. CASE FreeKey(k, key) /\ UNCHANGED sent
    <2>1. \A j \in Conns, l \in Keys :
             j # k \/ l # key => pending'[j][l] = pending[j][l]
      BY <1>3, <1>5, <1>7
    <2>2. FlightInv'
      BY <1>2, <1>4, <1>7, <2>1, RequestType DEF KeysInv, FlightInv
    <2>3. SendInv'
      <3> SUFFICES ASSUME NEW d \in Sessions, pc'[d] = "call_send"
                   PROVE  /\ pending'[frame'[d].conn][frame'[d].key] = req'[d].id
                          /\ \A q \in Requests :
                                Flies(frame[d].conn, q)' => q.key # frame'[d].key
                          /\ \A e \in Sessions \ {d} :
                                ~Sends(e, frame[d].conn, frame[d].key)'
        BY DEF SendInv
      <3>1. d # s /\ pc[d] = "call_send" /\ frame'[d] = frame[d]
        BY <1>1, <1>2
      <3>2. /\ frame[d].conn \in Conns /\ frame[d].key \in Keys
            /\ frame[d].conn = k => frame[d].key # key
        BY <1>4, <3>1, Sender DEF Sends
      <3> QED
        BY <1>1, <1>2, <1>7, <2>1, <3>1, <3>2 DEF KeysInv, SendInv, Sends
    <2> QED
      BY <2>2, <2>3 DEF KeysInv
  <1>8. CASE UNCHANGED <<pending, sent>>
    BY <1>1, <1>2, <1>8, KeysShrink
  <1>9. QED
    BY <1>6, <1>7, <1>8 DEF CallSend

\* Every step of a handler keeps the keys.
LEMMA HandlerKeys ==
    ASSUME TypeOK, LocalsInv, KeysInv, NEW s \in Sessions, HandlerStep(s)
    PROVE  KeysInv'
  <1>1. CASE CallLock(s) \/ CallSend(s)
    BY <1>1, CallLockKeys, CallSendKeys
  <1>2. CASE ~(CallLock(s) \/ CallSend(s))
    <2>1. UNCHANGED <<pending, sent, arrived>>
      BY <1>2
         DEF HandlerStep, ConnectGet, ConnectLock, ConnectDial, DisconnectGet, Take,
           SendClose, Abort, AwaitListener, CallGet, ResetTake, ResetNext, links, peers
    <2>2. pc'[s] # "call_send"
      <3>1. CASE ConnectGet(s) \/ ConnectLock(s) \/ ConnectDial(s)
        BY <3>1, GotoLocals, ReturnLocals DEF ConnectGet, ConnectLock, ConnectDial
      <3>2. CASE DisconnectGet(s) \/ SendClose(s) \/ Abort(s) \/ CallGet(s)
        BY <3>2, GotoLocals, ReturnLocals
           DEF DisconnectGet, SendClose, Abort, CallGet
      <3>3. CASE Take(s) \/ AwaitListener(s)
        BY <3>3, GotoLocals, FinishLocals DEF Take, AwaitListener
      <3>4. CASE ResetTake(s)
        BY <3>4, GotoLocals, ReturnLocals DEF ResetTake
      <3>5. CASE ResetNext(s)
        <4>1. CASE Return(s, "ok")
          BY <4>1, ReturnLocals
        <4>2. CASE \E f : Goto(s, "take", f)
          BY <4>2, GotoLocals
        <4> QED
          BY <3>5, <4>1, <4>2 DEF ResetNext
      <3> QED
        BY <1>2, <3>1, <3>2, <3>3, <3>4, <3>5 DEF HandlerStep
    <2> QED
      BY <2>1, <2>2, Others, KeysShrink
  <1>3. QED
    BY <1>1, <1>2

\* Reading a response takes the request out of flight and frees its key; what
\* the listen task then holds has the id of the call.
LEMMA ReadResponse ==
    ASSUME TypeOK, LocalsInv, KeysInv, NEW k \in Conns, ListenRead(k),
           NEW m \in arrived[k], ListenResponse(k, m)
    PROVE  /\ KeysInv'
           /\ holding'[k].id = holding'[k].origin.id
           /\ \A j \in Conns \ {k} : holding'[j] = holding[j]
  <1> DEFINE r == m.request
  <1>1. m \in Messages /\ holding \in [Conns -> Forwarded \cup {None}]
    BY TypeGroups DEF PeersType, LinksType
  <1>2. r \in Requests /\ m = Answer(r)
    BY <1>1 DEF Messages, ListenResponse
  <1>3. UNCHANGED <<pc, req, frame, sent>>
    BY DEF ListenRead, sessions
  <1>4. /\ pending[k][r.key] = r.origin.id
        /\ r \notin sent[k]
        /\ \A q \in Requests : Flies(k, q) /\ q.key = r.key => q = r
    BY <1>2 DEF KeysInv, FlightInv
  <1>5. /\ holding' = [holding EXCEPT ![k] = [id |-> r.origin.id, origin |-> r.origin]]
        /\ FreeKey(k, r.key)
    BY <1>2, <1>4, RequestType DEF ListenResponse
  <1>6. \A j \in Conns, l \in Keys :
             j # k \/ l # r.key => pending'[j][l] = pending[j][l]
    <2>1. pending \in [Conns -> [Keys -> Ids \cup {None}]]
      BY TypeGroups DEF LinksType
    <2> QED
      BY <1>5, <2>1
  <1>7. /\ \A j \in Conns, q \in Requests : Unread(j, q)' => Unread(j, q)
        /\ ~Unread(k, r)'
    BY <1>2, TypeGroups DEF ListenResponse, PeersType
  <1>8. \A j \in Conns, q \in Requests : Flies(j, q)' =>
             Flies(j, q) /\ (j = k => q.key # r.key)
    BY <1>2, <1>3, <1>4, <1>7
  <1>9. FlightInv'
    <2> SUFFICES ASSUME NEW j \in Conns, NEW q \in Requests, Flies(j, q)'
                 PROVE  /\ pending'[j][q.key] = q.origin.id
                        /\ ~(q \in sent'[j] /\ Unread(j, q)')
                        /\ \A p \in Requests : Flies(j, p)' /\ p.key = q.key => p = q
      BY DEF FlightInv
    <2>1. Flies(j, q) /\ (j = k => q.key # r.key)
      BY <1>8
    <2>2. /\ pending[j][q.key] = q.origin.id
          /\ ~(q \in sent[j] /\ Unread(j, q))
          /\ \A p \in Requests : Flies(j, p) /\ p.key = q.key => p = q
      BY <2>1 DEF KeysInv, FlightInv
    <2>3. pending'[j][q.key] = q.origin.id
      BY <1>6, <2>1, <2>2, RequestType
    <2>4. ~(q \in sent'[j] /\ Unread(j, q)')
      BY <1>3, <1>7, <2>2
    <2> QED
      BY <1>8, <2>2, <2>3, <2>4
  <1>10. SendInv'
    <2>1. \A d \in Sessions : pc[d] = "call_send" =>
              /\ frame[d].conn \in Conns /\ frame[d].key \in Keys
              /\ frame[d].conn = k => frame[d].key # r.key
      BY <1>2, Sender DEF KeysInv, SendInv
    <2> QED
      BY <1>3, <1>6, <1>8, <2>1 DEF KeysInv, SendInv, Sends
  <1>11. /\ holding'[k].id = holding'[k].origin.id
         /\ \A j \in Conns \ {k} : holding'[j] = holding[j]
    BY <1>1, <1>5
  <1>12. QED
    BY <1>9, <1>10, <1>11 DEF KeysInv

\* Every step of a listen task keeps the keys, and the ids of what it holds.
LEMMA ListenKeys ==
    ASSUME TypeOK, LocalsInv, KeysInv, ResponseHasId, NEW k \in Conns, ListenStep(k)
    PROVE  KeysInv' /\ ResponseHasId'
  <1>0. /\ holding \in [Conns -> Forwarded \cup {None}]
        /\ arrived \in [Conns -> SUBSET Messages]
    BY TypeGroups DEF PeersType, LinksType
  <1>1. ASSUME UNCHANGED <<pending, sent, sessions>>,
               \/ UNCHANGED arrived \/ \E m : Consume(k, m)
               \/ arrived' = [arrived EXCEPT ![k] = {}]
        PROVE  KeysInv'
    <2>1. \A j \in Conns, q \in Requests : Unread(j, q)' => Unread(j, q)
      BY <1>0, <1>1
    <2> QED
      BY <1>1, <2>1, KeysShrink DEF sessions
  <1>2. ASSUME \/ holding' = [holding EXCEPT ![k] = None]
               \/ holding' = [holding EXCEPT ![k] = Signal]
               \/ UNCHANGED holding
        PROVE  ResponseHasId'
    <2>1. \A j \in Conns : holding'[j] \in {None, Signal} \/ holding'[j] = holding[j]
      BY <1>0, <1>2
    <2> QED
      BY <2>1 DEF ResponseHasId
  <1>3. CASE ListenRead(k)
    <2>1. PICK m \in arrived[k] :
             ListenResponse(k, m) \/ ListenSignal(k, m) \/ ListenClose(k, m)
      BY <1>3 DEF ListenRead
    <2>2. CASE ListenResponse(k, m)
      BY <1>3, <2>2, ReadResponse DEF ResponseHasId
    <2>3. CASE ListenSignal(k, m) \/ ListenClose(k, m)
      BY <1>1, <1>2, <1>3, <2>3 DEF ListenRead, ListenSignal, ListenClose, Stop
    <2> QED
      BY <2>1, <2>2, <2>3
  <1>4. CASE ListenReadFails(k) \/ ListenAborted(k)
    BY <1>1, <1>2, <1>4 DEF ListenReadFails, ListenAborted, Stop
  <1>5. CASE ListenSend(k)
    BY <1>1, <1>2, <1>5 DEF ListenSend, Stop
  <1>6. QED
    BY <1>3, <1>4, <1>5 DEF ListenStep

\* A response takes the place of its request; other steps of conductors and
\* clients only lose requests.
LEMMA EnvironmentKeys ==
    ASSUME TypeOK, LocalsInv, KeysInv,
           \/ \E k \in Conns : Respond(k) \/ EmitSignal(k) \/ PeerCloses(k)
           \/ \E p \in Ports : ConductorDies(p) \/ ConductorStarts(p)
           \/ \E s \in Sessions : SessionEnds(s)
    PROVE  KeysInv'
  <1>0. /\ sent \in [Conns -> SUBSET Requests]
        /\ arrived \in [Conns -> SUBSET Messages]
    BY TypeGroups DEF PeersType
  <1>1. UNCHANGED <<pending, pc, req, frame>>
    BY DEF Respond, EmitSignal, PeerCloses, ConductorDies, ConductorStarts,
           SessionEnds,
           links, sessions
  <1>2. ASSUME NEW k \in Conns, NEW m, m.type # "response", Deliver(k, m)
        PROVE  \A j \in Conns, q \in Requests : Unread(j, q)' => Unread(j, q)
    BY <1>0, <1>2 DEF Deliver
  <1>3. ASSUME NEW k \in Conns, Respond(k) PROVE KeysInv'
    <2>1. PICK r \in sent[k] : /\ sent' = [sent EXCEPT ![k] = sent[k] \ {r}]
                               /\ Deliver(k, Answer(r))
      BY <1>3 DEF Respond
    <2>2. r \in Requests
      BY <1>0, <2>1
    <2>3. \A j \in Conns, q \in Requests :
             /\ q \in sent'[j] => q \in sent[j] /\ ~(j = k /\ q = r)
             /\ Unread(j, q)' => Unread(j, q) \/ (j = k /\ q = r)
      BY <1>0, <2>1 DEF Deliver
    <2>4. \A j \in Conns, q \in Requests : Flies(j, q)' => Flies(j, q)
      BY <2>1, <2>3
    <2>5. \A j \in Conns, q \in Requests : ~(q \in sent'[j] /\ Unread(j, q)')
      BY <2>3 DEF KeysInv, FlightInv
    <2> QED
      BY <1>1, <2>4, <2>5, KeysKept
  <1>4. ASSUME NEW k \in Conns, EmitSignal(k) PROVE KeysInv'
    <2>1. UNCHANGED sent /\ Deliver(k, [type |-> "signal"])
      BY <1>4 DEF EmitSignal
    <2> QED
      BY <1>1, <1>2, <2>1, KeysShrink
  <1>5. ASSUME NEW k \in Conns, PeerCloses(k) PROVE KeysInv'
    <2>1. sent' = [sent EXCEPT ![k] = {}] /\ Deliver(k, [type |-> "close"])
      BY <1>5 DEF PeerCloses
    <2> QED
      BY <1>0, <1>1, <1>2, <2>1, KeysShrink
  <1>6. ASSUME NEW p \in Ports, ConductorDies(p) \/ ConductorStarts(p) PROVE KeysInv'
    <2>1. UNCHANGED arrived /\ \A j \in Conns : sent'[j] \subseteq sent[j]
      BY <1>6 DEF ConductorDies, ConductorStarts
    <2> QED
      BY <1>1, <2>1, KeysShrink
  <1>7. ASSUME NEW s \in Sessions, SessionEnds(s) PROVE KeysInv'
    <2>1. UNCHANGED <<sent, arrived>>
      BY <1>7 DEF SessionEnds, peers
    <2> QED
      BY <1>1, <2>1, KeysShrink
  <1>8. QED
    BY <1>3, <1>4, <1>5, <1>6, <1>7

-----------------------------------------------------------------------------
(* The theorems *)

\* ResponseInv holds initially.
LEMMA ResponseInit == Init => ResponseInv
  <1> SUFFICES ASSUME Init PROVE ResponseInv
    OBVIOUS
  <1>1. LocalsInv
    BY DEF Init, LocalsInv, LocalsOf, GetLabels, SlotLabels, ConnLabels
  <1>2. KeysInv
    BY DEF Init, KeysInv, FlightInv, SendInv
  <1>3. ResponseHasId
    BY DEF Init, ResponseHasId
  <1>4. QED
    BY <1>1, <1>2, <1>3, InitType DEF ResponseInv

\* Every step keeps ResponseInv.
LEMMA ResponseStep == ResponseInv /\ [Next]_vars => ResponseInv'
  <1> SUFFICES ASSUME ResponseInv, [Next]_vars PROVE ResponseInv'
    OBVIOUS
  <1>0. TypeOK /\ LocalsInv /\ KeysInv /\ ResponseHasId
    BY DEF ResponseInv
  <1>1. ASSUME UNCHANGED <<holding, sessions>> PROVE LocalsInv' /\ ResponseHasId'
    BY <1>0, <1>1 DEF LocalsInv, LocalsOf, ResponseHasId, sessions
  <1>2. ASSUME NEW s \in Sessions, NEW op \in Ops, NEW p \in Ports \cup {None},
               Receive(s, op, p)
        PROVE  ResponseInv'
    <2>1. TypeOK'
      BY <1>2, ReceiveType
    <2>2. pc'[s] \in GetLabels \cup {"reset_take"} /\ (pc'[s] \in GetLabels => p # None)
      BY <1>0, <1>2, TypeGroups, KindsAssumption
         DEF Receive, SessionsType, FirstLabel, GetLabels, OpNames
    <2>3. /\ req'[s].port = p
          /\ req'[s].id = IF req[s].id = None THEN 1 ELSE req[s].id + 1
          /\ issued' = issued + 1 /\ frame' = frame
          /\ \A d \in Sessions \ {s} : pc'[d] = pc[d] /\ req'[d] = req[d]
      BY <1>0, <1>2, TypeGroups DEF Receive, SessionsType
    <2>4. LocalsInv'
      <3> SUFFICES ASSUME NEW d \in Sessions PROVE LocalsOf(d)'
        BY DEF LocalsInv
      <3>1. issued \in Nat /\ req[d].id \in Ids \cup {None} /\ LocalsOf(d)
        BY <1>0, TypeGroups DEF SessionsType, LocalsInv
      <3>2. CASE d = s
        <4>1. req'[s].id # None /\ req'[s].id <= issued'
          BY <2>3, <3>1, <3>2, NoneAssumption DEF LocalsOf
        <4> QED
          BY <2>2, <2>3, <3>2, <4>1
             DEF LocalsOf, GetLabels, SlotLabels, ConnLabels
      <3>3. CASE d # s
        BY <2>3, <3>1, <3>3 DEF LocalsOf
      <3> QED
        BY <3>2, <3>3
    <2>5. KeysInv'
      <3>1. UNCHANGED <<pending, sent, arrived>>
        BY <1>2 DEF Receive, links, peers
      <3>2. \A d \in Sessions : pc'[d] = "call_send" =>
               pc[d] = "call_send" /\ frame'[d] = frame[d] /\ req'[d] = req[d]
        BY <2>2, <2>3 DEF GetLabels
      <3> QED
        BY <1>0, <3>1, <3>2, KeysShrink
    <2>6. ResponseHasId'
      BY <1>0, <1>2 DEF Receive, links, ResponseHasId
    <2> QED
      BY <2>1, <2>4, <2>5, <2>6 DEF ResponseInv
  <1>3. ASSUME NEW s \in Sessions, HandlerStep(s) PROVE ResponseInv'
    <2>1. UNCHANGED holding
      BY <1>3 DEF HandlerStep, ConnectGet, ConnectLock, ConnectDial, DisconnectGet,
           Take, SendClose, Abort, AwaitListener, CallGet, CallLock, CallSend, ResetTake,
           ResetNext, links
    <2>2. ResponseHasId'
      BY <1>0, <2>1 DEF ResponseHasId
    <2> QED
      BY <1>0, <1>3, <2>2, HandlerType, LocalsStep, HandlerKeys DEF ResponseInv
  <1>4. ASSUME NEW k \in Conns, ListenStep(k) PROVE ResponseInv'
    <2>1. UNCHANGED sessions
      BY <1>4 DEF ListenStep, ListenRead, ListenReadFails, ListenSend, ListenAborted
    <2>2. LocalsInv'
      BY <1>0, <2>1 DEF LocalsInv, LocalsOf, sessions
    <2> QED
      BY <1>0, <1>4, <2>2, ListenType, ListenKeys DEF ResponseInv
  <1>5. ASSUME \/ \E k \in Conns : Respond(k) \/ EmitSignal(k) \/ PeerCloses(k)
               \/ \E p \in Ports : ConductorDies(p) \/ ConductorStarts(p)
               \/ \E s \in Sessions : SessionEnds(s)
        PROVE  ResponseInv'
    <2>1. UNCHANGED <<holding, sessions>>
      BY <1>5 DEF Respond, EmitSignal, PeerCloses, ConductorDies, ConductorStarts,
           SessionEnds, links
    <2> QED
      BY <1>0, <1>1, <1>5, <2>1, EnvironmentType, EnvironmentKeys DEF ResponseInv
  <1>6. ASSUME UNCHANGED vars PROVE ResponseInv'
    <2>1. UNCHANGED <<slots, links, peers, clients, sessions>>
      BY <1>6 DEF vars
    <2>2. TypeOK'
      BY <1>0, <2>1, UnchangedType, TypeGroups
    <2>3. KeysInv'
      BY <1>0, <2>1, KeysShrink DEF links, peers, sessions
    <2> QED
      BY <1>1, <2>1, <2>2, <2>3 DEF ResponseInv, links
  <1>7. QED
    BY <1>2, <1>3, <1>4, <1>5, <1>6 DEF Next, Finished

\* Every reachable state has the right types.
THEOREM TypeCorrect == Spec => []TypeOK
  <1>1. ResponseInv => TypeOK
    BY DEF ResponseInv
  <1>2. QED
    BY <1>1, ResponseInit, ResponseStep, PTL DEF Spec

\* A response that a listen task forwards has the id of the call it answers,
\* for any number of sessions, connections, pipelined and failed calls.
THEOREM ResponsesHaveTheirId == Spec => []ResponseHasId
  <1>1. ResponseInv => ResponseHasId
    BY DEF ResponseInv
  <1>2. QED
    BY <1>1, ResponseInit, ResponseStep, PTL DEF Spec

-----------------------------------------------------------------------------
(* Keys are not leaked *)

\* What the handler steps other than ConnectDial, CallLock and CallSend leave
\* alone of connections and of what is in flight.
LEMMA QuietStep ==
    ASSUME TypeOK, NEW s \in Sessions, HandlerStep(s),
           ~ConnectDial(s), ~CallLock(s), ~CallSend(s)
    PROVE  /\ UNCHANGED <<next_conn, listener, port_of, pending, alive, sent, arrived>>
           /\ pc[s] \notin {"connect_dial", "call_send"}
           /\ pc'[s] # "call_send"
  <1>1. ASSUME NEW label, NEW f, Goto(s, label, f)
        PROVE  pc'[s] = label
    BY <1>1, GotoLocals
  <1>2. ASSUME NEW r, Return(s, r)
        PROVE  pc'[s] = "idle"
    BY <1>2, ReturnLocals
  <1>3. ASSUME NEW r, Finish(s, r)
        PROVE  pc'[s] \in {"idle", "reset_next"}
    BY <1>3, FinishLocals
  <1>4. CASE ConnectGet(s) \/ ConnectLock(s) \/ DisconnectGet(s)
    BY <1>1, <1>2, <1>4
       DEF ConnectGet, ConnectLock, DisconnectGet, links, peers
  <1>5. CASE Take(s) \/ SendClose(s) \/ Abort(s) \/ AwaitListener(s)
    BY <1>1, <1>3, <1>5
       DEF Take, SendClose, Abort, AwaitListener, links, peers
  <1>6. CASE CallGet(s) \/ ResetTake(s) \/ ResetNext(s)
    BY <1>1, <1>2, <1>6 DEF CallGet, ResetTake, ResetNext, links, peers
  <1>7. QED
    BY <1>4, <1>5, <1>6 DEF HandlerStep

\* The handlers make connections one after the other.
LEMMA HandlerFresh ==
    ASSUME TypeOK, LocalsInv, FreshInv, NEW s \in Sessions, HandlerStep(s)
    PROVE  FreshInv'
  <1>0. SlotsType /\ LinksType
    BY TypeGroups
  <1>1. CASE ConnectDial(s)
    <2>1. frame[s].slot \in Slots
      BY <1>1, Locals DEF ConnectDial, SlotLabels
    <2>2. CASE UNCHANGED <<next_conn, listener, slot_conn, pending>>
      BY <2>2 DEF FreshInv
    <2>3. CASE ~UNCHANGED <<next_conn, listener, slot_conn, pending>>
      <3>1. /\ next_conn \in Conns /\ next_conn' = next_conn + 1
            /\ listener' = [listener EXCEPT ![next_conn] = "running"]
            /\ slot_conn' = [slot_conn EXCEPT ![frame[s].slot] = next_conn]
            /\ UNCHANGED pending
        BY <1>1, <2>3 DEF ConnectDial
      <3>2. QED
        BY <1>0, <2>1, <3>1, NoneAssumption DEF FreshInv, SlotsType, LinksType
    <2>4. QED
      BY <2>2, <2>3
  <1>2. CASE CallLock(s)
    <2>1. frame[s].slot \in Slots
      BY <1>2, Locals DEF CallLock, SlotLabels
    <2>2. CASE UNCHANGED pending
      BY <1>2, <2>2 DEF CallLock, FreshInv
    <2>3. ASSUME NEW k, k = slot_conn[frame[s].slot], k # None, NEW key \in Keys,
                 pending' = [pending EXCEPT ![k] = [pending[k] EXCEPT ![key] = req[s].id]]
          PROVE  FreshInv'
      <3>1. k < next_conn /\ k \in Conns
        BY <1>0, <2>1, <2>3 DEF FreshInv, SlotsType
      <3>2. \A j \in Conns : j >= next_conn => pending'[j] = pending[j]
        BY <1>0, <2>3, <3>1 DEF LinksType
      <3>3. UNCHANGED <<next_conn, listener, slot_conn>>
        BY <1>2 DEF CallLock
      <3>4. QED
        BY <3>2, <3>3 DEF FreshInv
    <2>4. \/ UNCHANGED pending
          \/ \E key \in Keys :
                pending' = [pending EXCEPT ![slot_conn[frame[s].slot]] =
                               [pending[slot_conn[frame[s].slot]] EXCEPT ![key] = req[s].id]]
      BY <1>2 DEF CallLock
    <2>5. slot_conn[frame[s].slot] # None \/ UNCHANGED pending
      BY <1>2 DEF CallLock
    <2>6. QED
      BY <2>2, <2>3, <2>4, <2>5
  <1>3. CASE CallSend(s)
    <2>1. CASE UNCHANGED pending
      BY <1>3, <2>1 DEF CallSend, FreshInv
    <2>2. CASE FreeKey(frame[s].conn, frame[s].key)
      <3>1. pending' = [pending EXCEPT ![frame[s].conn] =
                           [pending[frame[s].conn] EXCEPT ![frame[s].key] = None]]
        BY <2>2
      <3>2. \A j \in Conns : \/ pending'[j] = pending[j]
                             \/ pending'[j] = [pending[j] EXCEPT ![frame[s].key] = None]
        BY <1>0, <3>1 DEF LinksType
      <3>3. ASSUME NEW j \in Conns, NEW key \in Keys
            PROVE  pending'[j][key] \in {None, pending[j][key]}
        <4>1. pending[j] \in [Keys -> Ids \cup {None}]
          BY <1>0 DEF LinksType
        <4>2. QED
          BY <3>2, <4>1
      <3>4. QED
        BY <1>3, <3>3 DEF CallSend, FreshInv
    <2>3. QED
      BY <1>3, <2>1, <2>2 DEF CallSend
  <1>4. CASE ~ConnectDial(s) /\ ~CallLock(s) /\ ~CallSend(s)
    <2>1. UNCHANGED <<next_conn, listener, pending>>
      BY <1>4, QuietStep
    <2>2. \A t \in Slots : slot_conn'[t] \in {None, slot_conn[t]}
      BY <1>0, <1>4
         DEF SlotsType, HandlerStep, ConnectGet, ConnectLock, DisconnectGet, Take,
             SendClose, Abort, AwaitListener, CallGet, ResetTake, ResetNext, slots
    <2>3. QED
      BY <2>1, <2>2 DEF FreshInv
  <1>5. QED
    BY <1>1, <1>2, <1>3, <1>4

\* A listen task that runs has been spawned.
LEMMA ListenFresh ==
    ASSUME TypeOK, FreshInv, NEW k \in Conns, ListenStep(k)
    PROVE  FreshInv'
  <1>0. LinksType
    BY TypeGroups
  <1>1. listener[k] = "running" /\ UNCHANGED <<next_conn, slot_conn>>
    BY DEF ListenStep, ListenRead, ListenReadFails, ListenSend, ListenAborted, slots
  <1>2. ~(k >= next_conn)
    BY <1>1 DEF FreshInv
  <1>3. \A j \in Conns \ {k} : listener'[j] = listener[j] /\ pending'[j] = pending[j]
    BY <1>0
       DEF ListenStep, ListenRead, ListenReadFails, ListenSend, ListenAborted, Stop,
           ListenResponse, ListenSignal, ListenClose, LinksType
  <1>4. QED
    BY <1>1, <1>2, <1>3 DEF FreshInv

\* Every step keeps FreshInv.
LEMMA FreshStep ==
    ASSUME ResponseInv, FreshInv, [Next]_vars
    PROVE  FreshInv'
  <1>0. TypeOK /\ LocalsInv
    BY DEF ResponseInv
  <1>1. CASE UNCHANGED <<next_conn, listener, pending, slot_conn>>
    BY <1>1 DEF FreshInv
  <1>2. ASSUME NEW s \in Sessions, NEW op \in Ops, NEW p \in Ports \cup {None},
               Receive(s, op, p)
        PROVE  FreshInv'
    BY <1>1, <1>2 DEF Receive, links, slots
  <1>3. CASE \/ \E k \in Conns : Respond(k) \/ EmitSignal(k) \/ PeerCloses(k)
             \/ \E p \in Ports : ConductorDies(p) \/ ConductorStarts(p)
             \/ \E s \in Sessions : SessionEnds(s)
    BY <1>1, <1>3
       DEF Respond, EmitSignal, PeerCloses, ConductorDies, ConductorStarts,
           SessionEnds, links, slots
  <1>4. CASE UNCHANGED vars
    BY <1>1, <1>4 DEF vars, links, slots
  <1>5. QED
    BY <1>0, <1>2, <1>3, <1>4, HandlerFresh, ListenFresh DEF Next, Finished

\* A key that is taken is about to be sent or is in flight.
Owned(k, key) ==
    \/ \E r \in Requests : Flies(k, r) /\ r.key = key
    \/ \E s \in Sessions : Sends(s, k, key)

OwnedInv ==
    \A k \in alive, key \in Keys :
        listener[k] = "running" /\ pending[k][key] # None => Owned(k, key)

\* This is what PendingIsInFlight says.
LEMMA OwnedIsInFlight ==
    ASSUME TypeOK
    PROVE  PendingIsInFlight <=> OwnedInv
  <1>1. /\ alive \subseteq Conns /\ sent \in [Conns -> SUBSET Requests]
        /\ arrived \in [Conns -> SUBSET Messages]
    BY TypeGroups DEF PeersType
  <1>2. ASSUME NEW k \in Conns, NEW r
        PROVE  r \in InFlight(k) <=> r \in Requests /\ Flies(k, r)
    <2>1. \A m \in arrived[k] : m.type = "response" =>
              m.request \in Requests /\ m = Answer(m.request)
      BY <1>1 DEF Messages
    <2>2. r \in Requests /\ Unread(k, r) =>
              \E m \in arrived[k] : m.type = "response" /\ m.request = r
      OBVIOUS
    <2>3. sent[k] \subseteq Requests
      BY <1>1
    <2>4. QED
      BY <2>1, <2>2, <2>3 DEF InFlight
  <1>3. \A k \in Conns, key \in Keys :
            (\E r \in InFlight(k) : r.key = key)
                <=> \E r \in Requests : Flies(k, r) /\ r.key = key
    BY <1>2
  <1>4. \A k \in Conns, key \in Keys :
            Owned(k, key) <=>
                \/ \E r \in InFlight(k) : r.key = key
                \/ \E s \in Sessions : /\ pc[s] = "call_send"
                                       /\ frame[s].conn = k /\ frame[s].key = key
    <2> HIDE DEF Flies
    <2>1. QED
      BY <1>3 DEF Owned, Sends
  <1> HIDE DEF Flies
  <1>5. \A k \in alive, key \in Keys : k \in Conns
    BY <1>1
  <1>6. QED
    BY <1>4, <1>5 DEF PendingIsInFlight, OwnedInv

\* A step that frees or fills no key and starts no connection, and leaves in
\* flight what is in flight on the connections that go on, keeps OwnedInv.
LEMMA OwnedKept ==
    ASSUME OwnedInv,
           \A k \in alive', key \in Keys :
               listener'[k] = "running" /\ pending'[k][key] # None =>
                   /\ k \in alive /\ listener[k] = "running" /\ pending[k][key] # None
                   /\ \A r \in Requests : Flies(k, r) /\ r.key = key => Flies(k, r)',
           \A s \in Sessions : pc[s] = "call_send" =>
               pc'[s] = "call_send" /\ frame'[s] = frame[s]
    PROVE  OwnedInv'
  <1> SUFFICES ASSUME NEW k \in alive', NEW key \in Keys,
                      listener'[k] = "running", pending'[k][key] # None
               PROVE  Owned(k, key)'
    BY DEF OwnedInv
  <1>1. Owned(k, key)
    BY DEF OwnedInv
  <1>2. \A r \in Requests : Flies(k, r) /\ r.key = key => Flies(k, r)'
    OBVIOUS
  <1>3. \A s \in Sessions : Sends(s, k, key) => Sends(s, k, key)'
    BY DEF Sends
  <1> HIDE DEF Flies
  <1>4. QED
    BY <1>1, <1>2, <1>3 DEF Owned

\* A call takes a key and is about to send it.
LEMMA CallLockOwned ==
    ASSUME TypeOK, LocalsInv, OwnedInv, NEW s \in Sessions, CallLock(s)
    PROVE  OwnedInv'
  <1>0. /\ pending \in [Conns -> [Keys -> Ids \cup {None}]]
        /\ slot_conn \in [Slots -> Conns \cup {None}]
    BY TypeGroups DEF LinksType, SlotsType
  <1>1. /\ UNCHANGED <<alive, listener, sent, arrived>> /\ pc[s] = "call_lock"
        /\ \A d \in Sessions \ {s} : pc'[d] = pc[d] /\ frame'[d] = frame[d]
    BY Others DEF CallLock, HandlerStep, peers
  <1>2. CASE UNCHANGED pending
    <2>1. \A d \in Sessions : pc[d] = "call_send" =>
              pc'[d] = "call_send" /\ frame'[d] = frame[d]
      BY <1>1
    <2>2. \A k \in Conns, r \in Requests : Flies(k, r)' <=> Flies(k, r)
      BY <1>1
    <2>3. alive \subseteq Conns
      BY TypeGroups DEF PeersType
    <2>4. QED
      BY <1>1, <1>2, <2>1, <2>2, <2>3, OwnedKept
  <1>3. CASE ~UNCHANGED pending
    <2>1. frame[s].slot \in Slots
      BY <1>1, Locals DEF SlotLabels
    <2>2. PICK key \in Keys :
              /\ pending' = [pending EXCEPT ![slot_conn[frame[s].slot]] =
                     [pending[slot_conn[frame[s].slot]] EXCEPT ![key] = req[s].id]]
              /\ Goto(s, "call_send",
                      [frame[s] EXCEPT !.conn = slot_conn[frame[s].slot], !.key = key])
              /\ slot_conn[frame[s].slot] # None
      BY <1>3 DEF CallLock
    <2>3. PICK k \in Conns : k = slot_conn[frame[s].slot]
      BY <1>0, <2>1, <2>2
    <2>4. Sends(s, k, key)'
      <3>1. /\ pc'[s] = "call_send"
            /\ frame'[s] = [frame[s] EXCEPT !.conn = k, !.key = key]
        BY <2>2, <2>3, GotoLocals
      <3>2. frame'[s].conn = k /\ frame'[s].key = key
        BY <3>1, FrameFields
      <3>3. QED
        BY <3>1, <3>2 DEF Sends
    <2>5. SUFFICES ASSUME NEW j \in alive, NEW i \in Keys,
                          listener[j] = "running", pending'[j][i] # None
                   PROVE  Owned(j, i)'
      BY <1>1 DEF OwnedInv
    <2>6. CASE j = k /\ i = key
      BY <2>4, <2>6 DEF Owned
    <2>7. CASE ~(j = k /\ i = key)
      <3>1. j \in Conns
        BY TypeGroups DEF PeersType
      <3>2. pending'[j][i] = pending[j][i]
        BY <1>0, <2>2, <2>3, <2>7, <3>1
      <3>3. Owned(j, i)
        BY <2>5, <3>2 DEF OwnedInv
      <3>4. \A d \in Sessions : Sends(d, j, i) => Sends(d, j, i)'
        BY <1>1 DEF Sends
      <3>5. \A r \in Requests : Flies(j, r)' <=> Flies(j, r)
        BY <1>1
      <3> HIDE DEF Flies
      <3>6. QED
        BY <3>3, <3>4, <3>5 DEF Owned
    <2>8. QED
      BY <2>6, <2>7
  <1>4. QED
    BY <1>2, <1>3

\* A call that is sent is in flight, unless its conductor is dead.
LEMMA CallSendOwned ==
    ASSUME TypeOK, LocalsInv, OwnedInv, NEW s \in Sessions, CallSend(s)
    PROVE  OwnedInv'
  <1>0. /\ pending \in [Conns -> [Keys -> Ids \cup {None}]]
        /\ sent \in [Conns -> SUBSET Requests]
        /\ alive \subseteq Conns
    BY TypeGroups DEF LinksType, PeersType
  <1>1. pc[s] = "call_send" /\ req[s].id \in Ids
    BY Sender DEF CallSend
  <1>2. PICK k \in Conns, key \in Keys : k = frame[s].conn /\ key = frame[s].key
    BY <1>1, Sender
  <1>3. PICK r \in Requests :
            r = [key |-> key, origin |-> [session |-> s, id |-> req[s].id]]
    BY <1>1 DEF Requests, Origins
  <1>4. /\ UNCHANGED <<alive, listener, arrived>>
        /\ \A d \in Sessions \ {s} : pc'[d] = pc[d] /\ frame'[d] = frame[d]
        /\ \/ /\ sent' = IF k \in alive THEN [sent EXCEPT ![k] = sent[k] \cup {r}]
                                        ELSE sent
              /\ UNCHANGED pending
           \/ /\ k \notin alive /\ UNCHANGED sent
              /\ pending' = [pending EXCEPT ![k] = [pending[k] EXCEPT ![key] = None]]
    BY <1>2, <1>3, Others DEF CallSend, HandlerStep
  <1>5. SUFFICES ASSUME NEW j \in alive, NEW i \in Keys,
                        listener[j] = "running", pending'[j][i] # None
                 PROVE  Owned(j, i)'
    <2>1. alive' = alive /\ listener' = listener
      BY <1>4
    <2>2. QED
      BY <2>1 DEF OwnedInv
  <1>6. j \in Conns /\ pending'[j][i] = pending[j][i]
    BY <1>0, <1>4, <1>5
  <1>7. Owned(j, i)
    BY <1>5, <1>6 DEF OwnedInv
  <1>8. \A q \in Requests : Flies(j, q) => Flies(j, q)'
    <2>1. sent[j] \subseteq sent'[j] /\ arrived' = arrived
      BY <1>0, <1>4, <1>6
    <2>2. QED
      BY <2>1
  <1>9. CASE j = k /\ i = key
    <2>1. r \in sent'[k] /\ r.key = i
      BY <1>0, <1>3, <1>4, <1>5, <1>9
    <2>2. QED
      BY <1>9, <2>1 DEF Owned
  <1>10. CASE ~(j = k /\ i = key)
    <2>1. \A d \in Sessions : Sends(d, j, i) => Sends(d, j, i)'
      BY <1>2, <1>4, <1>10 DEF Sends
    <2> HIDE DEF Flies
    <2>2. QED
      BY <1>7, <1>8, <2>1 DEF Owned
  <1>11. QED
    BY <1>9, <1>10

\* Every step of a handler keeps OwnedInv.
LEMMA HandlerOwned ==
    ASSUME TypeOK, LocalsInv, FreshInv, OwnedInv, NEW s \in Sessions, HandlerStep(s)
    PROVE  OwnedInv'
  <1>0. /\ LinksType /\ PeersType
        /\ \A d \in Sessions \ {s} : pc'[d] = pc[d] /\ frame'[d] = frame[d]
    BY TypeGroups, Others
  <1>1. CASE ConnectDial(s)
    <2>1. /\ UNCHANGED <<pending, sent, arrived>> /\ pc[s] = "connect_dial"
          /\ alive' \subseteq alive \cup {next_conn}
          /\ \A k \in Conns : k # next_conn => listener'[k] = listener[k]
      BY <1>0, <1>1 DEF ConnectDial, LinksType
    <2>2. \A key \in Keys : next_conn \in Conns => pending[next_conn][key] = None
      BY <1>0 DEF FreshInv, LinksType
    <2>3. alive' \subseteq Conns
      BY <1>0, <1>1 DEF ConnectDial, PeersType
    <2>4. ASSUME NEW k \in alive', NEW key \in Keys,
                 listener'[k] = "running", pending'[k][key] # None
          PROVE  /\ k \in alive /\ listener[k] = "running" /\ pending[k][key] # None
                 /\ \A r \in Requests : Flies(k, r) /\ r.key = key => Flies(k, r)'
      BY <2>1, <2>2, <2>3, <2>4
    <2>5. \A d \in Sessions : pc[d] = "call_send" =>
              pc'[d] = "call_send" /\ frame'[d] = frame[d]
      BY <1>0, <2>1
    <2>6. QED
      BY <2>4, <2>5, OwnedKept
  <1>2. CASE ~ConnectDial(s) /\ ~CallLock(s) /\ ~CallSend(s)
    <2>1. /\ UNCHANGED <<listener, pending, alive, sent, arrived>>
          /\ pc[s] # "call_send"
      BY <1>2, QuietStep
    <2>2. \A k, r : Flies(k, r)' <=> Flies(k, r)
      BY <2>1
    <2>3. \A d \in Sessions : pc[d] = "call_send" =>
              pc'[d] = "call_send" /\ frame'[d] = frame[d]
      BY <1>0, <2>1
    <2> HIDE DEF Flies
    <2>4. QED
      BY <2>1, <2>2, <2>3, OwnedKept
  <1>3. QED
    BY <1>1, <1>2, CallLockOwned, CallSendOwned

\* Every step of a listen task keeps OwnedInv: a response that is read frees
\* its key.
LEMMA ListenOwned ==
    ASSUME TypeOK, OwnedInv, NEW k \in Conns, ListenStep(k)
    PROVE  OwnedInv'
  <1>0. LinksType /\ PeersType
    BY TypeGroups
  <1>1. /\ UNCHANGED <<alive, sent, sessions>>
        /\ \A j \in Conns \ {k} : /\ listener'[j] = listener[j]
                                  /\ pending'[j] = pending[j]
                                  /\ arrived'[j] = arrived[j]
        /\ listener[k] = "running"
    BY <1>0
       DEF ListenStep, ListenRead, ListenReadFails, ListenSend, ListenAborted, Stop,
           ListenResponse, ListenSignal, ListenClose, LinksType, PeersType
  <1>2. ASSUME NEW key \in Keys, listener'[k] = "running", pending'[k][key] # None
        PROVE  /\ pending[k][key] # None
               /\ \A r \in Requests : Unread(k, r) /\ r.key = key => Unread(k, r)'
    <2>1. ASSUME NEW how, how # "running", Stop(k, how)
          PROVE  FALSE
      BY <1>0, <1>2, <2>1 DEF Stop, LinksType
    <2>2. ASSUME NEW m \in arrived[k], ListenResponse(k, m)
          PROVE  /\ pending[k][key] # None
                 /\ \A r \in Requests : Unread(k, r) /\ r.key = key => Unread(k, r)'
      <3>1. arrived'[k] = arrived[k] \ {m} /\ m \in Messages /\ m.type = "response"
        BY <1>0, <2>2 DEF ListenResponse, PeersType
      <3>2. m.request.key \in Keys /\ \A r : m = Answer(r) => r = m.request
        BY <3>1, RequestType DEF Messages
      <3>3. pending[k] \in [Keys -> Ids \cup {None}]
        BY <1>0 DEF LinksType
      <3>4. \/ pending'[k] = [pending[k] EXCEPT ![m.request.key] = None]
            \/ pending'[k] = pending[k] /\ pending[k][m.request.key] = None
        BY <1>0, <2>2 DEF ListenResponse, LinksType
      <3>5. pending[k][key] # None /\ key # m.request.key
        BY <1>2, <3>2, <3>3, <3>4
      <3>6. QED
        BY <3>1, <3>2, <3>5
    <2>3. ASSUME NEW m \in arrived[k], ListenSignal(k, m)
          PROVE  /\ pending[k][key] # None
                 /\ \A r \in Requests : Unread(k, r) => Unread(k, r)'
      BY <1>0, <1>2, <2>3 DEF ListenSignal, PeersType
    <2>4. CASE ListenSend(k)
      BY <1>2, <2>1, <2>4 DEF ListenSend
    <2>5. QED
      BY <2>1, <2>2, <2>3, <2>4
         DEF ListenStep, ListenRead, ListenReadFails, ListenAborted, ListenClose
  <1>3. ASSUME NEW j \in alive', NEW key \in Keys,
               listener'[j] = "running", pending'[j][key] # None
        PROVE  /\ j \in alive /\ listener[j] = "running" /\ pending[j][key] # None
               /\ \A r \in Requests : Flies(j, r) /\ r.key = key => Flies(j, r)'
    <2>1. j \in Conns /\ j \in alive
      BY <1>0, <1>1, <1>3 DEF PeersType
    <2>2. CASE j = k
      BY <1>1, <1>2, <1>3, <2>1, <2>2
    <2>3. CASE j # k
      BY <1>1, <1>3, <2>1, <2>3
    <2>4. QED
      BY <2>2, <2>3
  <1>4. \A s \in Sessions : pc[s] = "call_send" =>
            pc'[s] = "call_send" /\ frame'[s] = frame[s]
    BY <1>1 DEF sessions
  <1>5. QED
    BY <1>3, <1>4, OwnedKept

\* Whatever conductors and clients do keeps OwnedInv: a conductor that answers
\* lives, and its listen task gets the answer.
LEMMA EnvironmentOwned ==
    ASSUME TypeOK, OwnedInv,
           \/ \E k \in Conns : Respond(k) \/ EmitSignal(k) \/ PeerCloses(k)
           \/ \E p \in Ports : ConductorDies(p) \/ ConductorStarts(p)
           \/ \E s \in Sessions : SessionEnds(s)
    PROVE  OwnedInv'
  <1>0. LinksType /\ PeersType
    BY TypeGroups
  <1>1. UNCHANGED <<listener, pending, pc, frame>> /\ alive' \subseteq alive
    BY DEF Respond, EmitSignal, PeerCloses, ConductorDies, ConductorStarts,
           SessionEnds, links, peers, sessions
  <1>2. ASSUME NEW j \in alive', NEW r \in Requests, listener[j] = "running", Flies(j, r)
        PROVE  Flies(j, r)'
    <2>1. j \in Conns
      BY <1>0, <1>1, <1>2 DEF PeersType
    <2>2. ASSUME NEW k \in Conns, NEW m, Deliver(k, m)
          PROVE  /\ \A i \in Conns : arrived[i] \subseteq arrived'[i]
                 /\ listener[k] = "running" => m \in arrived'[k]
      BY <1>0, <2>2 DEF Deliver, PeersType
    <2>3. ASSUME NEW k \in Conns, Respond(k)
          PROVE  Flies(j, r)'
      <3>1. PICK q \in sent[k] : /\ sent' = [sent EXCEPT ![k] = sent[k] \ {q}]
                                 /\ Deliver(k, Answer(q))
        BY <2>3 DEF Respond
      <3>2. \A i \in Conns : arrived[i] \subseteq arrived'[i]
        BY <2>2, <3>1
      <3>3. listener[k] = "running" => Answer(q) \in arrived'[k]
        BY <2>2, <3>1
      <3>4. r \in sent[j] => r \in sent'[j] \/ (j = k /\ r = q)
        BY <1>0, <2>1, <3>1 DEF PeersType
      <3>5. QED
        BY <1>2, <2>1, <3>2, <3>3, <3>4
    <2>4. ASSUME NEW k \in Conns, EmitSignal(k)
          PROVE  Flies(j, r)'
      BY <1>2, <2>1, <2>2, <2>4 DEF EmitSignal
    <2>5. ASSUME NEW k \in Conns, PeerCloses(k)
          PROVE  Flies(j, r)'
      <3>1. sent'[j] = sent[j]
        BY <1>0, <1>2, <2>1, <2>5 DEF PeerCloses, PeersType
      <3>2. arrived[j] \subseteq arrived'[j]
        BY <2>1, <2>2, <2>5 DEF PeerCloses
      <3>3. QED
        BY <1>2, <3>1, <3>2
    <2>6. ASSUME NEW p \in Ports, ConductorDies(p)
          PROVE  Flies(j, r)'
      BY <1>2, <2>1, <2>6 DEF ConductorDies
    <2>7. ASSUME UNCHANGED <<sent, arrived>>
          PROVE  Flies(j, r)'
      BY <1>2, <2>7
    <2>8. QED
      BY <2>3, <2>4, <2>5, <2>6, <2>7 DEF ConductorStarts, SessionEnds, peers
  <1>3. alive \subseteq Conns
    BY <1>0 DEF PeersType
  <1> HIDE DEF Flies
  <1>4. QED
    BY <1>1, <1>2, OwnedKept

\* The initial state has no keys.
LEMMA LeakInit == Init => LeakInv
  <1> SUFFICES ASSUME Init PROVE LeakInv
    OBVIOUS
  <1>1. FreshInv
    BY DEF Init, FreshInv
  <1>2. PendingIsInFlight
    BY DEF Init, PendingIsInFlight
  <1>3. QED
    BY <1>1, <1>2, ResponseInit DEF LeakInv

\* Every step keeps LeakInv.
LEMMA LeakStep == LeakInv /\ [Next]_vars => LeakInv'
  <1> SUFFICES ASSUME LeakInv, [Next]_vars PROVE LeakInv'
    OBVIOUS
  <1>1. ResponseInv' /\ FreshInv'
    BY ResponseStep, FreshStep DEF LeakInv
  <1>2. TypeOK /\ TypeOK' /\ LocalsInv /\ FreshInv
    BY <1>1 DEF LeakInv, ResponseInv
  <1>3. OwnedInv
    BY <1>2, OwnedIsInFlight DEF LeakInv
  <1>4. ASSUME UNCHANGED <<listener, pending, alive, sent, arrived, frame>>,
               \A s \in Sessions : pc[s] = "call_send" => pc'[s] = "call_send"
        PROVE  OwnedInv'
    <2>1. \A k, r : Flies(k, r)' <=> Flies(k, r)
      BY <1>4
    <2> HIDE DEF Flies
    <2>2. QED
      BY <1>3, <1>4, <2>1, OwnedKept
  <1>5. ASSUME NEW s \in Sessions, NEW op \in Ops, NEW p \in Ports \cup {None},
               Receive(s, op, p)
        PROVE  OwnedInv'
    <2>1. \A d \in Sessions : pc[d] = "call_send" => pc'[d] = "call_send"
      BY <1>2, <1>5, TypeGroups DEF Receive, Busy, SessionsType
    <2>2. QED
      BY <1>4, <1>5, <2>1 DEF Receive, links, peers
  <1>6. ASSUME UNCHANGED vars
        PROVE  OwnedInv'
    BY <1>4, <1>6 DEF vars, links, peers, sessions
  <1>7. OwnedInv'
    BY <1>2, <1>3, <1>5, <1>6, HandlerOwned, ListenOwned, EnvironmentOwned
       DEF Next, Finished
  <1>8. PendingIsInFlight'
    <2>1. TypeOK' => (PendingIsInFlight' <=> OwnedInv')
      BY OwnedIsInFlight, PTL
    <2>2. QED
      BY <1>2, <1>7, <2>1
  <1>9. QED
    BY <1>1, <1>8 DEF LeakInv

\* LeakInv holds in every reachable state.
LEMMA LeakInductive == Spec => []LeakInv
  BY LeakInit, LeakStep, PTL DEF Spec

\* No key of the slab of a connection is leaked: while its conductor lives and
\* its listen task runs, a pending request is being sent or in flight, for any
\* number of calls that fail, and of responses that come in any order.
THEOREM NoKeyLeaks == Spec => []PendingIsInFlight
  <1>1. LeakInv => PendingIsInFlight
    BY DEF LeakInv
  <1>2. QED
    BY <1>1, LeakInductive, PTL

-----------------------------------------------------------------------------
(* Slots and connections, when resets are exclusive *)

\* What a frame holds after a field was assigned, and when it is new.
LEMMA FrameUpdates ==
    ASSUME TypeOK, NEW s \in Sessions
    PROVE  /\ \A t : LET f == [frame[s] EXCEPT !.slot = t]
                     IN  f.slot = t /\ f.conn = frame[s].conn /\ f.taken = frame[s].taken
           /\ \A k : LET f == [frame[s] EXCEPT !.conn = k]
                     IN  f.conn = k /\ f.slot = frame[s].slot /\ f.taken = frame[s].taken
           /\ \A k, key :
                LET f == [frame[s] EXCEPT !.conn = k, !.key = key]
                IN  f.conn = k /\ f.slot = frame[s].slot /\ f.taken = frame[s].taken
           /\ LET f == [frame[s] EXCEPT !.closed = TRUE]
              IN  /\ f.conn = frame[s].conn /\ f.slot = frame[s].slot
                  /\ f.taken = frame[s].taken
           /\ \A ts : LET f == [frame[s] EXCEPT !.taken = ts]
                      IN  f.taken = ts /\ f.slot = frame[s].slot /\ f.conn = frame[s].conn
  <1>1. frame[s] \in Frame
    BY FrameType
  <1>2. QED
    BY <1>1 DEF Frame

\* The same for NoFrame.
LEMMA NewFrames ==
    /\ NoFrame.slot = None /\ NoFrame.conn = None /\ NoFrame.taken = {}
    /\ \A ts : LET f == [NoFrame EXCEPT !.taken = ts]
               IN  f.taken = ts /\ f.slot = None /\ f.conn = None
    /\ \A t, ts : LET f == [NoFrame EXCEPT !.slot = t, !.taken = ts]
                  IN  f.taken = ts /\ f.slot = t /\ f.conn = None
  BY DEF NoFrame

\* What Finish leaves: the handler is idle, or a reset that goes on.
LEMMA FinishFrame ==
    ASSUME TypeOK, NEW s \in Sessions, NEW r, Finish(s, r)
    PROVE  /\ pc'[s] \in {"idle", "reset_next"} /\ frame'[s].slot = None
           /\ req[s].op = "reset" <=> pc'[s] = "reset_next"
           /\ req[s].op = "reset" => frame'[s].taken = frame[s].taken
           /\ pc'[s] = "idle" => frame'[s] = NoFrame
  <1>1. CASE req[s].op = "reset"
    <2>1. /\ pc'[s] = "reset_next"
          /\ frame'[s] = [NoFrame EXCEPT !.taken = frame[s].taken]
      BY <1>1, GotoLocals DEF Finish
    <2>2. QED
      BY <1>1, <2>1, NewFrames
  <1>2. CASE req[s].op # "reset"
    <2>1. pc'[s] = "idle" /\ frame'[s] = NoFrame
      BY <1>2, TypeGroups DEF Finish, Return, SessionsType
    <2>2. QED
      BY <1>2, <2>1, NewFrames
  <1>3. QED
    BY <1>1, <1>2

\* What Return leaves.
LEMMA ReturnFrame ==
    ASSUME TypeOK, NEW s \in Sessions, NEW r, Return(s, r)
    PROVE  pc'[s] = "idle" /\ frame'[s] = NoFrame
  BY TypeGroups DEF Return, SessionsType

\* A handler that takes a step is busy.
LEMMA HandlerBusy ==
    ASSUME NEW s \in Sessions, HandlerStep(s)
    PROVE  Busy(s)
  BY DEF HandlerStep, ConnectGet, ConnectLock, ConnectDial, DisconnectGet, Take,
         SendClose, Abort, AwaitListener, CallGet, CallLock, CallSend, ResetTake,
         ResetNext, Busy

\* Every step of a handler keeps what its steps go with.
LEMMA HandlerSteps ==
    ASSUME TypeOK, StepsInv, NEW s \in Sessions, HandlerStep(s)
    PROVE  StepsInv'
  <1>0. /\ \A d \in Sessions \ {s} : pc'[d] = pc[d] /\ frame'[d] = frame[d]
        /\ UNCHANGED req /\ StepsOf(s)
        /\ req[s].op = "reset" \/ req[s].port # None
    BY Others, HandlerBusy DEF StepsInv, StepsOf
  <1>1. SUFFICES StepsOf(s)'
    BY <1>0 DEF StepsInv, StepsOf, Busy
  <1>2. ASSUME NEW r, Return(s, r)
        PROVE  StepsOf(s)'
    BY <1>2, ReturnFrame DEF StepsOf, ClosingLabels, Busy
  <1>3. ASSUME NEW r, Finish(s, r)
        PROVE  StepsOf(s)'
    BY <1>0, <1>3, FinishFrame DEF StepsOf, ClosingLabels, StartLabels
  <1>4. ASSUME NEW label \in {"connect_lock", "connect_dial", "take", "send_close",
                              "abort", "await_listener", "call_lock", "call_send"},
               NEW f, Goto(s, label, f),
               label \in {"connect_lock", "connect_dial"} => req[s].op = "connect",
               label \in {"take", "send_close", "abort", "await_listener"} =>
                   req[s].op \in {"disconnect", "reset"},
               label \in {"call_lock", "call_send"} => req[s].op = "call"
        PROVE  StepsOf(s)'
    BY <1>0, <1>4, GotoLocals DEF StepsOf, ClosingLabels, StartLabels
  <1>5. CASE ConnectGet(s)
    BY <1>0, <1>4, <1>5 DEF ConnectGet, StepsOf
  <1>6. CASE ConnectLock(s)
    BY <1>0, <1>2, <1>4, <1>6 DEF ConnectLock, StepsOf
  <1>7. CASE ConnectDial(s)
    BY <1>2, <1>7 DEF ConnectDial
  <1>8. CASE DisconnectGet(s)
    BY <1>0, <1>2, <1>4, <1>8 DEF DisconnectGet, StepsOf
  <1>9. CASE Take(s)
    BY <1>0, <1>3, <1>4, <1>9 DEF Take, StepsOf
  <1>10. CASE SendClose(s)
    BY <1>0, <1>4, <1>10 DEF SendClose, StepsOf, ClosingLabels
  <1>11. CASE Abort(s)
    BY <1>0, <1>4, <1>11 DEF Abort, StepsOf, ClosingLabels
  <1>12. CASE AwaitListener(s)
    BY <1>3, <1>12 DEF AwaitListener
  <1>13. CASE CallGet(s)
    BY <1>0, <1>2, <1>4, <1>13 DEF CallGet, StepsOf
  <1>14. CASE CallLock(s)
    BY <1>0, <1>2, <1>4, <1>14 DEF CallLock, StepsOf
  <1>15. CASE CallSend(s)
    BY <1>2, <1>15 DEF CallSend
  <1>16. CASE ResetTake(s)
    <2>1. CASE Return(s, "error")
      BY <1>2, <2>1
    <2>2. CASE Goto(s, "reset_next", [frame[s] EXCEPT !.taken = TakenSlots])
      <3>1. /\ pc'[s] = "reset_next" /\ req[s].op = "reset" /\ frame[s] = NoFrame
            /\ frame'[s] = [frame[s] EXCEPT !.taken = TakenSlots]
        BY <1>0, <1>16, <2>2, GotoLocals DEF ResetTake, StepsOf, StartLabels
      <3>2. frame'[s].slot = None
        BY <3>1, FrameUpdates, NewFrames
      <3>3. QED
        BY <1>0, <3>1, <3>2 DEF StepsOf, ClosingLabels, StartLabels
    <2>3. QED
      BY <1>16, <2>1, <2>2 DEF ResetTake
  <1>17. CASE ResetNext(s)
    BY <1>0, <1>2, <1>4, <1>17 DEF ResetNext, StepsOf
  <1>18. QED
    BY <1>5, <1>6, <1>7, <1>8, <1>9, <1>10, <1>11, <1>12, <1>13, <1>14, <1>15,
       <1>16, <1>17 DEF HandlerStep

\* What a step of a handler does to the map, to the slots and to their locks: it
\* changes only the slot it has, which nobody else has locked.
LEMMA HandlerSlots ==
    ASSUME TypeOK, LocalsInv, LockInv, NEW s \in Sessions, HandlerStep(s)
    PROVE  /\ \A t \in Slots : slot_lock'[t] # slot_lock[t] => slot_lock[t] \in {None, s}
           /\ \A t \in Slots : slot_conn'[t] # slot_conn[t] =>
                  t = frame[s].slot /\ slot_lock[t] \in {None, s}
  <1>0. SlotsType
    BY TypeGroups
  <1>1. CASE UNCHANGED <<slot_conn, slot_lock>>
    BY <1>1
  <1>2. CASE ConnectGet(s) \/ DisconnectGet(s) \/ SendClose(s) \/ Abort(s)
             \/ CallGet(s) \/ ResetTake(s) \/ ResetNext(s)
    BY <1>1, <1>2
       DEF ConnectGet, DisconnectGet, SendClose, Abort, CallGet, ResetTake, ResetNext,
           slots
  <1>3. ASSUME pc[s] \in {"connect_lock", "connect_dial", "take", "await_listener",
                          "call_lock", "call_send"}
        PROVE  frame[s].slot \in Slots
    BY <1>3, Locals DEF SlotLabels, ConnLabels
  <1>4. CASE ConnectLock(s) \/ Take(s) \/ CallLock(s)
    BY <1>0, <1>3, <1>4 DEF ConnectLock, Take, CallLock, Lock, SlotsType
  <1>5. CASE ConnectDial(s) \/ AwaitListener(s) \/ CallSend(s)
    <2>1. slot_lock[frame[s].slot] = s
      BY <1>5 DEF ConnectDial, AwaitListener, CallSend, LockInv, ClosingLabels
    <2>2. QED
      BY <1>0, <1>3, <1>5, <2>1
         DEF ConnectDial, AwaitListener, CallSend, Unlock, SlotsType
  <1>6. QED
    BY <1>2, <1>4, <1>5 DEF HandlerStep

\* A step that closes goes on with the slot and the connection that it has.
LEMMA ClosingSteps ==
    ASSUME TypeOK, NEW s \in Sessions, SendClose(s) \/ Abort(s)
    PROVE  /\ Closes(s) /\ Closes(s)'
           /\ frame'[s].slot = frame[s].slot /\ frame'[s].conn = frame[s].conn
           /\ frame'[s].taken = frame[s].taken
           /\ UNCHANGED slots
  <1>1. CASE SendClose(s)
    <2>1. pc'[s] = "abort"
      BY <1>1, GotoLocals DEF SendClose
    <2>2. frame'[s] = frame[s] \/ frame'[s] = [frame[s] EXCEPT !.closed = TRUE]
      BY <1>1, GotoLocals DEF SendClose
    <2>3. QED
      BY <1>1, <2>1, <2>2, FrameUpdates DEF SendClose, Closes, ClosingLabels
  <1>2. CASE Abort(s)
    BY <1>2, GotoLocals DEF Abort, Closes, ClosingLabels
  <1>3. QED
    BY <1>1, <1>2

\* What Take does: the slot is empty and the handler is done with it, or the
\* handler locks it and closes the connection it took from there.
LEMMA TakeSteps ==
    ASSUME TypeOK, LocalsInv, NEW s \in Sessions, Take(s)
    PROVE  /\ frame[s].slot \in Slots /\ pc[s] = "take"
           /\ slot_lock[frame[s].slot] = None
           /\ frame'[s].taken = frame[s].taken \/ req[s].op # "reset"
           /\ \/ /\ slot_conn[frame[s].slot] = None
                 /\ UNCHANGED <<slot_conn, slot_lock>>
                 /\ pc'[s] \in {"idle", "reset_next"}
              \/ /\ slot_conn[frame[s].slot] # None
                 /\ slot_lock' = [slot_lock EXCEPT ![frame[s].slot] = s]
                 /\ slot_conn' = [slot_conn EXCEPT ![frame[s].slot] = None]
                 /\ pc'[s] = "send_close" /\ frame'[s].slot = frame[s].slot
                 /\ frame'[s].conn = slot_conn[frame[s].slot]
  <1>1. frame[s].slot \in Slots /\ pc[s] = "take"
    BY Locals DEF Take, SlotLabels
  <1>2. CASE slot_conn[frame[s].slot] = None
    <2>1. PICK r : Finish(s, r) /\ UNCHANGED <<slot_conn, slot_lock>>
      BY <1>2 DEF Take
    <2>2. QED
      BY <1>1, <1>2, <2>1, FinishFrame DEF Take
  <1>3. CASE slot_conn[frame[s].slot] # None
    <2>1. /\ pc'[s] = "send_close"
          /\ frame'[s] = [frame[s] EXCEPT !.conn = slot_conn[frame[s].slot]]
      BY <1>3, GotoLocals DEF Take
    <2>2. QED
      BY <1>1, <1>3, <2>1, FrameUpdates DEF Take, Lock
  <1>4. QED
    BY <1>2, <1>3

\* Every step of a handler keeps the locks.
LEMMA HandlerLocks ==
    ASSUME TypeOK, LocalsInv, LockInv, NEW s \in Sessions, HandlerStep(s)
    PROVE  LockInv'
  <1> DEFINE Holds(d) ==
          /\ pc[d] \in ClosingLabels \cup {"connect_dial", "call_send"} =>
                slot_lock[frame[d].slot] = d
          /\ pc[d] \in ClosingLabels \cup {"connect_dial"} =>
                slot_conn[frame[d].slot] = None
  <1>0. SlotsType
    BY TypeGroups
  <1>1. ASSUME NEW d \in Sessions \ {s}
        PROVE  Holds(d)'
    <2>1. pc'[d] = pc[d] /\ frame'[d] = frame[d] /\ Holds(d)
      BY Others DEF LockInv
    <2>2. pc[d] \in ClosingLabels \cup {"connect_dial", "call_send"} =>
              frame[d].slot \in Slots
      BY Locals DEF ClosingLabels, SlotLabels, ConnLabels
    <2>3. QED
      BY <2>1, <2>2, HandlerSlots, NoneAssumption
  <1>2. Holds(s)'
    <2>1. CASE pc'[s] \notin ClosingLabels \cup {"connect_dial", "call_send"}
      BY <2>1
    <2>2. CASE ConnectLock(s)
      <3>1. frame[s].slot \in Slots
        BY <2>2, Locals DEF ConnectLock, SlotLabels
      <3>2. CASE Connected(frame[s].slot)
        BY <2>1, <2>2, <3>2, ReturnLocals DEF ConnectLock, ClosingLabels
      <3>3. CASE ~Connected(frame[s].slot)
        BY <1>0, <2>2, <3>1, <3>3, GotoLocals DEF ConnectLock, Lock, SlotsType, ClosingLabels
      <3>4. QED
        BY <3>2, <3>3
    <2>3. CASE Take(s)
      <3>1. CASE pc'[s] = "send_close"
        <4>1. /\ frame[s].slot \in Slots /\ frame'[s].slot = frame[s].slot
              /\ slot_lock' = [slot_lock EXCEPT ![frame[s].slot] = s]
              /\ slot_conn' = [slot_conn EXCEPT ![frame[s].slot] = None]
          BY <2>3, <3>1, TakeSteps
        <4>2. slot_lock'[frame[s].slot] = s /\ slot_conn'[frame[s].slot] = None
          BY <1>0, <4>1 DEF SlotsType
        <4>3. QED
          BY <4>1, <4>2
      <3>2. CASE pc'[s] # "send_close"
        BY <2>1, <2>3, <3>2, TakeSteps DEF ClosingLabels
      <3>3. QED
        BY <3>1, <3>2
    <2>4. CASE SendClose(s) \/ Abort(s)
      <3>1. Holds(s)
        BY DEF LockInv
      <3>2. QED
        BY <2>4, <3>1, ClosingSteps DEF Closes, slots, ClosingLabels
    <2>5. CASE CallLock(s)
      <3>1. frame[s].slot \in Slots
        BY <2>5, Locals DEF CallLock, SlotLabels
      <3>2. CASE Return(s, "error")
        BY <2>1, <3>2, ReturnLocals DEF ClosingLabels
      <3>3. CASE ~Return(s, "error")
        <4>1. PICK k, key : Goto(s, "call_send", [frame[s] EXCEPT !.conn = k, !.key = key])
          BY <2>5, <3>3 DEF CallLock
        <4>2. /\ pc'[s] = "call_send"
              /\ frame'[s] = [frame[s] EXCEPT !.conn = k, !.key = key]
          BY <4>1, GotoLocals
        <4>3. frame'[s].slot = frame[s].slot
          BY <4>2, FrameUpdates
        <4>4. slot_lock'[frame[s].slot] = s
          BY <1>0, <2>5, <3>1, <3>3 DEF CallLock, Lock, SlotsType
        <4>5. QED
          BY <4>2, <4>3, <4>4 DEF ClosingLabels
      <3>4. QED
        BY <3>2, <3>3
    <2>6. CASE ConnectDial(s) \/ AwaitListener(s) \/ CallSend(s)
      <3>1. pc'[s] \in {"idle", "reset_next"}
        BY <2>6, ReturnLocals, FinishLocals DEF ConnectDial, AwaitListener, CallSend
      <3>2. QED
        BY <2>1, <3>1 DEF ClosingLabels
    <2>7. CASE ConnectGet(s) \/ DisconnectGet(s) \/ CallGet(s) \/ ResetTake(s) \/ ResetNext(s)
      <3>1. pc'[s] \in {"idle", "connect_lock", "take", "call_lock", "reset_next"}
        <4>1. \A label, f : Goto(s, label, f) => pc'[s] = label
          BY GotoLocals
        <4>2. \A r : Return(s, r) => pc'[s] = "idle"
          BY ReturnLocals
        <4>3. CASE ConnectGet(s) \/ DisconnectGet(s) \/ CallGet(s)
          BY <4>1, <4>2, <4>3 DEF ConnectGet, DisconnectGet, CallGet
        <4>4. CASE ResetTake(s) \/ ResetNext(s)
          BY <4>1, <4>2, <4>4 DEF ResetTake, ResetNext
        <4>5. QED
          BY <2>7, <4>3, <4>4
      <3>2. QED
        BY <2>1, <3>1 DEF ClosingLabels
    <2>8. QED
      BY <2>2, <2>3, <2>4, <2>5, <2>6, <2>7 DEF HandlerStep
  <1>3. \A d \in Sessions : Holds(d)'
    BY <1>1, <1>2
  <1>4. QED
    BY <1>3 DEF LockInv

\* Every step of a handler keeps the map and the slots of the handlers.
LEMMA HandlerMap ==
    ASSUME TypeOK, LocalsInv, AloneInv, StepsInv, MapInv,
           NEW s \in Sessions, HandlerStep(s)
    PROVE  MapInv'
  <1>0. /\ SlotsType /\ UNCHANGED req /\ StepsOf(s) /\ Busy(s)
        /\ \A d \in Sessions \ {s} : pc'[d] = pc[d] /\ frame'[d] = frame[d]
        /\ \A d \in Sessions : Busy(d) /\ req[d].op # "reset" => req[d].port \in Ports
    <2>1. \A d \in Sessions : req[d].port \in Ports \cup {None}
      BY TypeGroups DEF SessionsType
    <2>2. QED
      BY <2>1, TypeGroups, Others, HandlerBusy DEF StepsInv, StepsOf
  <1> DEFINE Has(d) == pc[d] \in SlotLabels /\ req[d].op \in {"connect", "disconnect"} =>
                           connections[req[d].port] = frame[d].slot
             Empty(d) == Busy(d) /\ req[d].op = "reset" /\ pc[d] # "reset_take" =>
                             \A p \in Ports : connections[p] = None
  <1>1. SUFFICES \A d \in Sessions : Has(d)' /\ Empty(d)'
    BY DEF MapInv
  <1>2. \A d \in Sessions : Has(d) /\ Empty(d)
    BY DEF MapInv
  <1>3. ASSUME NEW d \in Sessions, pc[d] \in SlotLabels
        PROVE  frame[d].slot # None /\ Busy(d)
    BY <1>3, Locals, NoneAssumption DEF SlotLabels, ConnLabels, Busy
  <1>4. CASE ConnectGet(s)
    <2>1. req[s].port \in Ports /\ req[s].op = "connect"
      BY <1>0, <1>4 DEF ConnectGet, StepsOf
    <2>2. PICK t \in Slots :
              /\ t = IF connections[req[s].port] = None THEN next_slot
                     ELSE connections[req[s].port]
              /\ connections' = [connections EXCEPT ![req[s].port] = t]
              /\ pc'[s] = "connect_lock" /\ frame'[s] = [frame[s] EXCEPT !.slot = t]
      BY <1>4, GotoLocals DEF ConnectGet
    <2>3. frame'[s].slot = t
      BY <2>2, FrameUpdates
    <2>4. connections'[req[s].port] = t
      BY <1>0, <2>1, <2>2 DEF SlotsType
    <2>5. Has(s)' /\ Empty(s)'
      BY <1>0, <2>1, <2>3, <2>4
    <2>6. ASSUME NEW d \in Sessions \ {s}
          PROVE  Has(d)'
      <3>1. CASE pc[d] \in SlotLabels /\ req[d].op \in {"connect", "disconnect"}
        <4>1. req[d].port \in Ports /\ connections[req[d].port] # None
          BY <1>0, <1>2, <1>3, <3>1
        <4>2. connections'[req[d].port] = connections[req[d].port]
          BY <1>0, <2>1, <2>2, <4>1 DEF SlotsType
        <4>3. QED
          BY <1>0, <1>2, <2>6, <3>1, <4>2
      <3>2. QED
        BY <1>0, <2>6, <3>1
    <2>7. ASSUME NEW d \in Sessions \ {s}
          PROVE  Empty(d)'
      BY <1>0, <2>7 DEF AloneInv, Busy
    <2>8. QED
      BY <2>5, <2>6, <2>7
  <1>5. CASE ResetTake(s)
    <2>1. /\ req[s].op = "reset"
          /\ \/ (\A p \in Ports : connections'[p] = None) /\ pc'[s] = "reset_next"
             \/ pc'[s] = "idle"
      BY <1>0, <1>5, GotoLocals, ReturnLocals DEF ResetTake, StepsOf
    <2>2. \A d \in Sessions \ {s} : ~Busy(d)
      BY <1>0, <2>1 DEF AloneInv
    <2>3. QED
      <3>1. Has(s)' /\ Empty(s)'
        BY <1>0, <2>1 DEF Busy, SlotLabels, ConnLabels
      <3>2. ASSUME NEW d \in Sessions \ {s}
            PROVE  Has(d)' /\ Empty(d)'
        <4>1. pc'[d] = "idle"
          BY <1>0, <2>2, <3>2 DEF Busy
        <4>2. QED
          BY <4>1 DEF Busy, SlotLabels, ConnLabels
      <3>3. QED
        BY <3>1, <3>2
  <1>6. CASE UNCHANGED connections /\ ~ConnectGet(s) /\ ~ResetTake(s)
    <2>1. \A d \in Sessions \ {s} : Has(d)' /\ Empty(d)'
      BY <1>0, <1>2, <1>6 DEF Busy
    <2>2. Empty(s)'
      BY <1>0, <1>2, <1>6 DEF StepsOf, Busy, HandlerStep, ConnectGet, ConnectLock,
         ConnectDial, DisconnectGet, Take, SendClose, Abort, AwaitListener, CallGet,
         CallLock, CallSend, ResetTake, ResetNext
    <2>3. CASE pc'[s] \notin SlotLabels \/ req[s].op \notin {"connect", "disconnect"}
      BY <1>0, <2>1, <2>2, <2>3
    <2>4. CASE ConnectLock(s)
      BY <1>0, <1>2, <1>6, <2>1, <2>2, <2>3, <2>4, GotoLocals, ReturnLocals
         DEF ConnectLock, SlotLabels, ConnLabels
    <2>5. CASE DisconnectGet(s)
      <3>1. CASE connections[req[s].port] = None
        BY <2>3, <2>5, <3>1, ReturnLocals DEF DisconnectGet, SlotLabels, ConnLabels
      <3>2. CASE connections[req[s].port] # None
        <4>1. frame'[s] = [frame[s] EXCEPT !.slot = connections[req[s].port]]
          BY <2>5, <3>2, GotoLocals DEF DisconnectGet
        <4>2. frame'[s].slot = connections[req[s].port]
          BY <4>1, FrameUpdates
        <4>3. QED
          BY <1>0, <1>6, <2>1, <2>2, <4>2
      <3>3. QED
        BY <3>1, <3>2
    <2>6. CASE Take(s)
      BY <1>0, <1>2, <1>6, <2>1, <2>2, <2>3, <2>6, TakeSteps DEF SlotLabels, ConnLabels
    <2>7. CASE SendClose(s) \/ Abort(s)
      BY <1>0, <1>2, <1>6, <2>1, <2>2, <2>3, <2>7, ClosingSteps
         DEF Closes, ClosingLabels, SlotLabels, ConnLabels
    <2>8. CASE ConnectDial(s) \/ AwaitListener(s) \/ ResetNext(s) \/ CallGet(s)
               \/ CallLock(s) \/ CallSend(s)
      <3>1. CASE ConnectDial(s) \/ AwaitListener(s)
        BY <2>3, <3>1, ReturnLocals, FinishLocals
           DEF ConnectDial, AwaitListener, SlotLabels, ConnLabels
      <3>2. CASE ~(ConnectDial(s) \/ AwaitListener(s))
        BY <1>0, <2>3, <2>8, <3>2 DEF ResetNext, CallGet, CallLock, CallSend, StepsOf
      <3>3. QED
        BY <3>1, <3>2
    <2>9. QED
      BY <1>6, <2>4, <2>5, <2>6, <2>7, <2>8 DEF HandlerStep
  <1>7. QED
    <2>1. CASE ~ConnectGet(s) /\ ~ResetTake(s)
      BY <1>6, <2>1 DEF HandlerStep, ConnectLock, ConnectDial, DisconnectGet, Take,
         SendClose, Abort, AwaitListener, CallGet, CallLock, CallSend, ResetNext, slots
    <2>2. QED
      BY <1>4, <1>5, <2>1

\* A handler puts no connection in two slots: the one it makes is new.
LEMMA HandlerOneSlot ==
    ASSUME TypeOK, LocalsInv, FreshInv, OneSlotInv, NEW s \in Sessions, HandlerStep(s)
    PROVE  OneSlotInv'
  <1>0. SlotsType /\ LinksType
    BY TypeGroups
  <1>1. CASE \A t \in Slots : slot_conn'[t] \in {None, slot_conn[t]}
    BY <1>1 DEF OneSlotInv
  <1>2. CASE ConnectDial(s)
    <2>1. frame[s].slot \in Slots
      BY <1>2, Locals DEF ConnectDial, SlotLabels
    <2>2. CASE UNCHANGED slot_conn
      BY <1>1, <2>2
    <2>3. CASE slot_conn' = [slot_conn EXCEPT ![frame[s].slot] = next_conn]
      <3>1. \A t \in Slots : slot_conn[t] # None =>
                slot_conn[t] < next_conn /\ slot_conn[t] \in Conns
        BY <1>0 DEF FreshInv, SlotsType
      <3>2. QED
        BY <1>0, <2>1, <2>3, <3>1 DEF OneSlotInv, SlotsType, LinksType
    <2>4. QED
      BY <1>2, <2>2, <2>3 DEF ConnectDial
  <1>3. CASE ~ConnectDial(s)
    BY <1>0, <1>1, <1>3
       DEF SlotsType, HandlerStep, ConnectGet, ConnectLock, DisconnectGet, Take,
           SendClose, Abort, AwaitListener, CallGet, CallLock, CallSend, ResetTake,
           ResetNext, slots
  <1>4. QED
    BY <1>2, <1>3

\* A handler that takes a step leaves the others as they are, idle or busy.
LEMMA HandlerAlone ==
    ASSUME TypeOK, AloneInv, NEW s \in Sessions, HandlerStep(s)
    PROVE  AloneInv'
  BY Others, HandlerBusy DEF AloneInv, Busy

\* A reset that has a connection, or is about to close one, is in progress.
LEMMA ResetIsBusy ==
    ASSUME TypeOK, StepsInv, NEW s \in Sessions,
           Closes(s) \/ \E t \in frame[s].taken \cup {frame[s].slot} : t # None
    PROVE  Busy(s) /\ pc[s] # "reset_take"
  BY NewFrames DEF StepsInv, StepsOf, StartLabels, Closes, ClosingLabels, Busy

\* A connection stays in the slot of its port, or with the handler that closes it.
LEMMA PlaceKept ==
    ASSUME NEW k \in Conns, InPlace(k), port_of'[k] = port_of[k],
           connections[port_of[k]] # None =>
               connections'[port_of[k]] = connections[port_of[k]],
           slot_conn[connections[port_of[k]]] = k =>
               slot_conn'[connections[port_of[k]]] = k,
           \A s \in Sessions : Closes(s) /\ frame[s].conn = k =>
               /\ Closes(s)' /\ frame'[s].conn = k
               /\ frame'[s].slot = frame[s].slot
    PROVE  InPlace(k)'
  <1>1. PICK t : t = connections[port_of[k]]
    OBVIOUS
  <1>2. connections'[port_of'[k]] = t /\ port_of'[k] # None /\ t # None
    BY <1>1 DEF InPlace
  <1>3. \/ slot_conn[t] = k
        \/ \E s \in Sessions : Closes(s) /\ frame[s].conn = k /\ frame[s].slot = t
    BY <1>1 DEF InPlace
  <1>4. \/ slot_conn'[t] = k
        \/ \E s \in Sessions : Closes(s)' /\ frame'[s].conn = k /\ frame'[s].slot = t
    BY <1>1, <1>3
  <1>5. QED
    BY <1>2, <1>4 DEF InPlace

\* A connection stays with the reset that has it.
LEMMA ResetKept ==
    ASSUME NEW k \in Conns, InReset(k), UNCHANGED req,
           \A s \in Sessions : req[s].op = "reset" =>
               /\ Closes(s) /\ frame[s].conn = k => Closes(s)' /\ frame'[s].conn = k
               /\ \A t \in frame[s].taken \cup {frame[s].slot} :
                     t # None /\ slot_conn[t] = k =>
                         \/ /\ t \in frame'[s].taken \cup {frame'[s].slot}
                            /\ slot_conn'[t] = k
                         \/ Closes(s)' /\ frame'[s].conn = k
    PROVE  InReset(k)'
  <1>1. PICK s \in Sessions :
            /\ req[s].op = "reset"
            /\ \/ Closes(s) /\ frame[s].conn = k
               \/ \E t \in frame[s].taken \cup {frame[s].slot} :
                     t # None /\ slot_conn[t] = k
    BY DEF InReset
  <1>2. \/ Closes(s)' /\ frame'[s].conn = k
        \/ \E t \in frame'[s].taken \cup {frame'[s].slot} :
              t # None /\ slot_conn'[t] = k
    BY <1>1
  <1>3. QED
    BY <1>1, <1>2 DEF InReset

\* A new connection is in the slot of its port, and disturbs no other.
LEMMA DialPlaces ==
    ASSUME TypeOK, LocalsInv, FreshInv, StepsInv, LockInv, MapInv, PlacesInv,
           NEW s \in Sessions, ConnectDial(s)
    PROVE  PlacesInv'
  <1>0. /\ SlotsType /\ LinksType /\ StepsOf(s) /\ HandlerStep(s)
        /\ pc[s] = "connect_dial" /\ req[s].op = "connect"
    BY TypeGroups DEF StepsInv, StepsOf, HandlerStep, ConnectDial
  <1>1. /\ UNCHANGED <<req, connections>>
        /\ \A d \in Sessions \ {s} : pc'[d] = pc[d] /\ frame'[d] = frame[d]
    BY <1>0, Others DEF ConnectDial
  <1>2. /\ frame[s].slot \in Slots /\ slot_conn[frame[s].slot] = None
        /\ connections[req[s].port] = frame[s].slot
    BY <1>0, Locals DEF LockInv, MapInv, SlotLabels
  <1>3. req[s].port \in Ports /\ ~Closes(s)
    <2>1. req[s].port \in Ports \cup {None}
      BY TypeGroups DEF SessionsType
    <2>2. QED
      BY <1>0, <2>1 DEF StepsOf, Busy, Closes, ClosingLabels
  <1>4. SUFFICES ASSUME NEW k \in Conns, listener'[k] = "running"
                 PROVE  InPlace(k)' \/ InReset(k)'
    BY DEF PlacesInv
  <1>5. CASE /\ k = next_conn
             /\ port_of' = [port_of EXCEPT ![k] = req[s].port]
             /\ slot_conn' = [slot_conn EXCEPT ![frame[s].slot] = k]
    <2>1. port_of'[k] = req[s].port /\ slot_conn'[frame[s].slot] = k
      BY <1>0, <1>2, <1>5 DEF SlotsType, LinksType
    <2>2. connections'[port_of'[k]] = frame[s].slot
      BY <1>1, <1>2, <2>1
    <2>3. QED
      BY <1>2, <1>3, <2>1, <2>2, NoneAssumption DEF InPlace
  <1>6. CASE /\ listener[k] = "running" /\ port_of'[k] = port_of[k]
             /\ \A t \in Slots : slot_conn[t] = k => slot_conn'[t] = k
    <2>1. ASSUME InPlace(k)
          PROVE  InPlace(k)'
      <3>1. connections[port_of[k]] \in Slots
        BY <1>0, <2>1 DEF InPlace, SlotsType, LinksType
      <3>2. QED
        BY <1>1, <1>3, <1>6, <2>1, <3>1, PlaceKept DEF Closes
    <2>2. ASSUME InReset(k)
          PROVE  InReset(k)'
      <3>1. \A d \in Sessions : req[d].op = "reset" =>
                /\ d # s /\ frame'[d] = frame[d] /\ pc'[d] = pc[d]
                /\ \A t \in frame[d].taken \cup {frame[d].slot} : t # None => t \in Slots
        <4>1. \A d \in Sessions : frame[d] \in Frame
          BY FrameType
        <4>2. QED
          BY <1>0, <1>1, <4>1 DEF Frame
      <3>2. QED
        BY <1>1, <1>6, <2>2, <3>1, ResetKept DEF Closes
    <2>3. QED
      BY <1>6, <2>1, <2>2 DEF PlacesInv
  <1>7. CASE UNCHANGED <<listener, port_of, slot_conn>>
    BY <1>4, <1>6, <1>7
  <1>8. QED
    <2>1. CASE UNCHANGED <<listener, port_of, slot_conn>>
      BY <1>7, <2>1
    <2>2. CASE /\ next_conn \in Conns
               /\ listener' = [listener EXCEPT ![next_conn] = "running"]
               /\ port_of' = [port_of EXCEPT ![next_conn] = req[s].port]
               /\ slot_conn' = [slot_conn EXCEPT ![frame[s].slot] = next_conn]
      <3>1. CASE k = next_conn
        BY <1>5, <2>2, <3>1
      <3>2. CASE k # next_conn
        BY <1>0, <1>2, <1>4, <1>6, <2>2, <3>2, NoneAssumption DEF SlotsType, LinksType
      <3>3. QED
        BY <3>1, <3>2
    <2>3. QED
      BY <2>1, <2>2 DEF ConnectDial

\* A handler that takes a connection from a slot closes it.
LEMMA TakePlaces ==
    ASSUME TypeOK, LocalsInv, AloneInv, StepsInv, OneSlotInv, PlacesInv,
           NEW s \in Sessions, Take(s)
    PROVE  PlacesInv'
  <1>0. /\ SlotsType /\ LinksType /\ HandlerStep(s) /\ ~Closes(s) /\ Busy(s)
        /\ UNCHANGED <<req, connections, listener, port_of>>
        /\ \A d \in Sessions \ {s} : pc'[d] = pc[d] /\ frame'[d] = frame[d]
        /\ req[s].op \in {"disconnect", "reset"}
    <2>1. HandlerStep(s)
      BY DEF HandlerStep
    <2>2. QED
      BY <2>1, Others, TypeGroups
         DEF Take, Closes, ClosingLabels, Busy, links, StepsInv, StepsOf
  <1>1. PICK t \in Slots : t = frame[s].slot
    BY TakeSteps
  <1>2. SUFFICES ASSUME NEW k \in Conns, listener[k] = "running"
                 PROVE  InPlace(k)' \/ InReset(k)'
    BY <1>0 DEF PlacesInv
  <1>3. InPlace(k) \/ InReset(k)
    BY <1>2 DEF PlacesInv
  <1>4. CASE slot_conn[t] = k
    <2>1. /\ Closes(s)' /\ frame'[s].conn = k /\ frame'[s].slot = t
      BY <1>1, <1>4, TakeSteps, NoneAssumption DEF Closes, ClosingLabels
    <2>2. CASE req[s].op = "reset"
      BY <1>0, <2>1, <2>2 DEF InReset
    <2>3. CASE req[s].op = "disconnect"
      <3>1. InPlace(k)
        <4>1. ASSUME InReset(k)
              PROVE  FALSE
          <5>1. PICK d \in Sessions :
                    /\ req[d].op = "reset"
                    /\ \/ Closes(d)
                       \/ \E u \in frame[d].taken \cup {frame[d].slot} : u # None
            BY <4>1 DEF InReset
          <5>2. Busy(d)
            BY <5>1, ResetIsBusy
          <5>3. QED
            BY <1>0, <2>3, <5>1, <5>2 DEF AloneInv
        <4>2. QED
          BY <1>3, <4>1
      <3>2. PICK u \in Slots : u = connections[port_of[k]]
        BY <1>0, <3>1 DEF InPlace, SlotsType, LinksType
      <3>3. connections'[port_of'[k]] = u /\ port_of'[k] # None /\ u # None
        BY <1>0, <3>1, <3>2 DEF InPlace
      <3>4. \E d \in Sessions : Closes(d)' /\ frame'[d].conn = k /\ frame'[d].slot = u
        <4>1. CASE slot_conn[u] = k
          <5>1. t = u
            BY <1>4, <4>1, NoneAssumption DEF OneSlotInv
          <5>2. QED
            BY <2>1, <5>1
        <4>2. CASE \E d \in Sessions :
                       Closes(d) /\ frame[d].conn = k /\ frame[d].slot = u
          BY <1>0, <4>2 DEF Closes
        <4>3. QED
          BY <3>1, <3>2, <4>1, <4>2 DEF InPlace
      <3>5. QED
        BY <3>3, <3>4 DEF InPlace
    <2>4. QED
      BY <1>0, <2>2, <2>3
  <1>5. CASE slot_conn[t] # k
    <2>1. \A u \in Slots : slot_conn[u] = k => slot_conn'[u] = k
      BY <1>0, <1>1, <1>5, TakeSteps DEF SlotsType
    <2>2. ASSUME InPlace(k)
          PROVE  InPlace(k)'
      <3>1. connections[port_of[k]] \in Slots
        BY <1>0, <2>2 DEF InPlace, SlotsType, LinksType
      <3>2. QED
        BY <1>0, <2>1, <2>2, <3>1, PlaceKept DEF Closes
    <2>3. ASSUME InReset(k)
          PROVE  InReset(k)'
      <3>1. \A d \in Sessions \ {s} : frame'[d] = frame[d] /\ pc'[d] = pc[d]
        BY <1>0
      <3>2. \A d \in Sessions : \A u \in frame[d].taken \cup {frame[d].slot} :
                u # None => u \in Slots
        <4>1. \A d \in Sessions : frame[d] \in Frame
          BY FrameType
        <4>2. QED
          BY <4>1 DEF Frame
      <3>3. req[s].op = "reset" => frame'[s].taken = frame[s].taken
        BY TakeSteps
      <3>4. QED
        BY <1>0, <1>1, <1>5, <2>1, <2>3, <3>1, <3>2, <3>3, ResetKept DEF Closes
    <2>4. QED
      BY <1>3, <2>2, <2>3
  <1>6. QED
    BY <1>4, <1>5

\* A step that leaves the map and the slots alone, and after which a handler that
\* closed a running connection or that reset still has what it had.
LEMMA PlacesKept ==
    ASSUME TypeOK, StepsInv, PlacesInv, UNCHANGED <<connections, slot_conn, port_of, req>>,
           \A k \in Conns : listener'[k] = "running" => listener[k] = "running",
           \A s \in Sessions, k \in Conns :
               listener'[k] = "running" /\ Closes(s) /\ frame[s].conn = k =>
                   /\ Closes(s)' /\ frame'[s].conn = k
                   /\ frame'[s].slot = frame[s].slot,
           \A s \in Sessions : req[s].op = "reset" =>
               \A t \in frame[s].taken \cup {frame[s].slot} :
                  t # None /\ slot_conn[t] # None =>
                      t \in frame'[s].taken \cup {frame'[s].slot}
    PROVE  PlacesInv'
  <1>1. SUFFICES ASSUME NEW k \in Conns, listener'[k] = "running"
                 PROVE  InPlace(k)' \/ InReset(k)'
    BY DEF PlacesInv
  <1>2. InPlace(k) => InPlace(k)'
    BY <1>1, PlaceKept
  <1>3. InReset(k) => InReset(k)'
    BY <1>1, ResetKept, NoneAssumption
  <1>4. QED
    BY <1>1, <1>2, <1>3 DEF PlacesInv

\* A handler that waited for a listen task has nothing more to close.
LEMMA AwaitPlaces ==
    ASSUME TypeOK, LocalsInv, StepsInv, LockInv, PlacesInv,
           NEW s \in Sessions, AwaitListener(s)
    PROVE  PlacesInv'
  <1>1. /\ UNCHANGED <<connections, slot_conn, listener, port_of, req>>
        /\ listener[frame[s].conn] # "running" /\ slot_conn[frame[s].slot] = None
        /\ \A d \in Sessions \ {s} : pc'[d] = pc[d] /\ frame'[d] = frame[d]
    BY Others DEF AwaitListener, HandlerStep, links, LockInv, ClosingLabels
  <1>2. req[s].op = "reset" => frame'[s].taken = frame[s].taken
    BY FinishFrame DEF AwaitListener
  <1>3. QED
    BY <1>1, <1>2, PlacesKept DEF Closes

\* A reset has the slots that it took out of the map, with what is in them.
LEMMA ResetTakePlaces ==
    ASSUME TypeOK, AloneInv, StepsInv, PlacesInv, NEW s \in Sessions, ResetTake(s),
           ~Return(s, "error")
    PROVE  PlacesInv'
  <1>1. /\ UNCHANGED <<slot_conn, listener, port_of, req>>
        /\ req[s].op = "reset" /\ Busy(s) /\ frame[s] = NoFrame
        /\ pc[s] = "reset_take"
    BY Others
       DEF ResetTake, HandlerStep, links, StepsInv, StepsOf, StartLabels, Busy
  <1>2. frame'[s].taken = TakenSlots
    <2>1. frame'[s] = [frame[s] EXCEPT !.taken = TakenSlots]
      BY GotoLocals DEF ResetTake
    <2>2. QED
      BY <2>1, FrameUpdates
  <1>3. ASSUME NEW d \in Sessions, req[d].op = "reset",
               Closes(d) \/ \E t \in frame[d].taken \cup {frame[d].slot} : t # None
        PROVE  FALSE
    BY <1>1, <1>3, ResetIsBusy DEF AloneInv
  <1>4. ASSUME NEW d \in Sessions, Closes(d)
        PROVE  FALSE
    BY <1>1, <1>4, ResetIsBusy DEF AloneInv
  <1>5. SUFFICES ASSUME NEW k \in Conns, listener[k] = "running"
                 PROVE  InReset(k)'
    BY <1>1 DEF PlacesInv
  <1>6. InPlace(k)
    BY <1>3, <1>5 DEF PlacesInv, InReset
  <1>7. PICK t : t = connections[port_of[k]] /\ t # None /\ slot_conn[t] = k
    BY <1>4, <1>6 DEF InPlace
  <1>8. t \in TakenSlots
    <2>1. port_of[k] \in Ports
      BY <1>6, TypeGroups DEF InPlace, LinksType
    <2>2. QED
      BY <1>7, <2>1
  <1>9. QED
    BY <1>1, <1>2, <1>7, <1>8 DEF InReset

\* A reset goes on with the slots that are left and with the one that it picked.
LEMMA ResetNextPlaces ==
    ASSUME TypeOK, StepsInv, PlacesInv, NEW s \in Sessions, ResetNext(s)
    PROVE  PlacesInv'
  <1>1. /\ UNCHANGED <<connections, slot_conn, listener, port_of, req>>
        /\ frame[s].slot = None /\ ~Closes(s)
        /\ \A d \in Sessions \ {s} : pc'[d] = pc[d] /\ frame'[d] = frame[d]
    BY Others
       DEF ResetNext, HandlerStep, slots, links, StepsInv, StepsOf, Closes, ClosingLabels
  <1>2. frame[s].taken \subseteq frame'[s].taken \cup {frame'[s].slot}
    <2>1. CASE frame[s].taken = {}
      BY <2>1
    <2>2. ASSUME NEW t \in frame[s].taken,
                 Goto(s, "take", [NoFrame EXCEPT !.slot = t, !.taken = Remaining(s, t)])
          PROVE  frame[s].taken \subseteq frame'[s].taken \cup {frame'[s].slot}
      <3>1. frame'[s] = [NoFrame EXCEPT !.slot = t, !.taken = frame[s].taken \ {t}]
        BY <2>2, GotoLocals
      <3>2. frame'[s].slot = t /\ frame'[s].taken = frame[s].taken \ {t}
        BY <3>1, NewFrames
      <3>3. QED
        BY <3>2
    <2>3. QED
      BY <2>1, <2>2 DEF ResetNext
  <1>3. QED
    BY <1>1, <1>2, PlacesKept DEF Closes

\* Every step of a handler keeps the running connections where they are.
LEMMA HandlerPlaces ==
    ASSUME TypeOK, LocalsInv, FreshInv, AloneInv, StepsInv, LockInv, MapInv,
           OneSlotInv, PlacesInv, NEW s \in Sessions, HandlerStep(s)
    PROVE  PlacesInv'
  <1>0. /\ UNCHANGED req
        /\ \A d \in Sessions \ {s} : pc'[d] = pc[d] /\ frame'[d] = frame[d]
    BY Others
  <1>1. CASE ConnectGet(s)
    <2>1. /\ UNCHANGED <<slot_conn, listener, port_of>> /\ ~Closes(s)
          /\ req[s].op = "connect"
      BY <1>1 DEF ConnectGet, links, Closes, ClosingLabels, StepsInv, StepsOf
    <2>2. \A p \in Ports : connections[p] # None => connections'[p] = connections[p]
      BY <1>1, TypeGroups DEF ConnectGet, SlotsType
    <2>3. SUFFICES ASSUME NEW k \in Conns, listener[k] = "running"
                   PROVE  InPlace(k)' \/ InReset(k)'
      BY <2>1 DEF PlacesInv
    <2>4. ASSUME InPlace(k)
          PROVE  InPlace(k)'
      <3>1. port_of[k] \in Ports
        BY <2>4, TypeGroups DEF InPlace, LinksType
      <3>2. QED
        BY <1>0, <2>1, <2>2, <2>4, <3>1, PlaceKept DEF Closes
    <2>5. ASSUME InReset(k)
          PROVE  InReset(k)'
      <3>1. \A d \in Sessions : req[d].op = "reset" =>
                pc'[d] = pc[d] /\ frame'[d] = frame[d]
        BY <1>0, <2>1
      <3>2. QED
        BY <1>0, <2>1, <2>5, <3>1, ResetKept DEF Closes
    <2>6. QED
      BY <2>3, <2>4, <2>5 DEF PlacesInv
  <1>2. CASE ConnectLock(s) \/ DisconnectGet(s) \/ CallGet(s) \/ CallLock(s) \/ CallSend(s)
    <2>1. /\ UNCHANGED <<connections, slot_conn, listener, port_of>> /\ ~Closes(s)
          /\ req[s].op # "reset"
      BY <1>2
         DEF ConnectLock, DisconnectGet, CallGet, CallLock, CallSend, slots, links,
             Closes, ClosingLabels, StepsInv, StepsOf
    <2>2. QED
      BY <1>0, <2>1, PlacesKept DEF Closes
  <1>3. CASE SendClose(s) \/ Abort(s)
    <2>1. UNCHANGED <<listener, port_of>>
      BY <1>3 DEF SendClose, Abort
    <2>2. QED
      BY <1>0, <1>3, <2>1, ClosingSteps, PlacesKept DEF Closes, slots
  <1>4. CASE ResetTake(s) /\ Return(s, "error")
    <2>1. /\ UNCHANGED <<connections, slot_conn, listener, port_of>> /\ ~Closes(s)
          /\ frame[s] = NoFrame
      <3>1. pc[s] = "reset_take" /\ UNCHANGED <<slot_conn, listener, port_of>>
        BY <1>4 DEF ResetTake, links
      <3>2. frame[s] = NoFrame /\ ~Closes(s)
        BY <3>1 DEF StepsInv, StepsOf, StartLabels, Closes, ClosingLabels
      <3>3. connections' = connections
        <4>1. CASE Goto(s, "reset_next", [frame[s] EXCEPT !.taken = TakenSlots])
          BY <1>0, <1>4, <4>1, GotoLocals, ReturnLocals
        <4> QED
          BY <1>4, <4>1 DEF ResetTake
      <3> QED
        BY <3>1, <3>2, <3>3
    <2>2. frame[s].taken = {} /\ frame[s].slot = None
      BY <2>1 DEF NoFrame
    <2>3. QED
      BY <1>0, <2>1, <2>2, PlacesKept DEF Closes
  <1>5. QED
    BY <1>1, <1>2, <1>3, <1>4, DialPlaces, TakePlaces, AwaitPlaces, ResetTakePlaces,
       ResetNextPlaces DEF HandlerStep

\* A request is received by a session that is idle, and not while a reset is in
\* progress or to reset a server that is in use.
LEMMA ReceiveSlots ==
    ASSUME ExclusiveReset, SlotsInv, NEW s \in Sessions, NEW op \in Ops,
           NEW p \in Ports \cup {None}, Receive(s, op, p)
    PROVE  /\ AloneInv' /\ StepsInv' /\ LockInv' /\ MapInv' /\ OneSlotInv'
           /\ PlacesInv'
  <1>0. /\ TypeOK /\ SessionsType /\ AloneInv /\ StepsInv /\ LockInv /\ MapInv
        /\ OneSlotInv /\ PlacesInv
    BY TypeGroups DEF SlotsInv, LeakInv, ResponseInv
  <1>1. /\ UNCHANGED <<frame, slots, links>> /\ pc[s] = "idle"
        /\ \A d \in Sessions \ {s} : pc'[d] = pc[d] /\ req'[d] = req[d]
        /\ pc'[s] = FirstLabel[op] /\ req'[s].op = op /\ req'[s].port = p
        /\ op = "reset" \/ p # None
        /\ \A d \in Sessions \ {s} : Busy(d) => op # "reset" /\ req[d].op # "reset"
    BY <1>0 DEF Receive, Busy, SessionsType
  <1>2. frame[s] = NoFrame
    BY <1>0, <1>1 DEF StepsInv, StepsOf, StartLabels
  <1>3. FirstLabel[op] = CASE op = "connect" -> "connect_get"
                           [] op = "disconnect" -> "disconnect_get"
                           [] op = "call" -> "call_get"
                           [] op = "reset" -> "reset_take"
    BY KindsAssumption DEF FirstLabel, OpNames
  <1>4. op \in OpNames
    BY KindsAssumption
  <1>5. pc'[s] \in {"connect_get", "disconnect_get", "call_get", "reset_take"}
    BY <1>1, <1>3, <1>4 DEF OpNames
  <1>6. AloneInv'
    BY <1>0, <1>1 DEF AloneInv, Busy
  <1>7. StepsInv'
    <2>1. StepsOf(s)'
      BY <1>1, <1>2, <1>3, <1>4 DEF StepsOf, StartLabels, ClosingLabels, Busy, OpNames
    <2>2. ASSUME NEW d \in Sessions \ {s} PROVE StepsOf(d)'
      BY <1>0, <1>1 DEF StepsInv, StepsOf, Busy
    <2>3. QED
      BY <2>1, <2>2 DEF StepsInv
  <1>8. LockInv'
    BY <1>0, <1>1, <1>5 DEF LockInv, slots, ClosingLabels
  <1>9. MapInv'
    <2>1. pc'[s] \notin SlotLabels /\ (req'[s].op = "reset" => pc'[s] = "reset_take")
      BY <1>1, <1>3, <1>5 DEF SlotLabels, ConnLabels
    <2>2. QED
      BY <1>0, <1>1, <2>1 DEF MapInv, slots, Busy
  <1>10. OneSlotInv'
    BY <1>0, <1>1 DEF OneSlotInv, slots
  <1>11. PlacesInv'
    <2>1. ASSUME NEW k \in Conns, InPlace(k)
          PROVE  InPlace(k)'
      <3>1. \A d \in Sessions : Closes(d) => Closes(d)'
        BY <1>1 DEF Closes, ClosingLabels
      <3>2. QED
        BY <1>1, <2>1, <3>1, PlaceKept DEF slots, links
    <2>2. ASSUME NEW k \in Conns, InReset(k)
          PROVE  InReset(k)'
      <3>1. PICK d \in Sessions :
                /\ req[d].op = "reset"
                /\ \/ Closes(d) /\ frame[d].conn = k
                   \/ \E t \in frame[d].taken \cup {frame[d].slot} :
                         t # None /\ slot_conn[t] = k
        BY <2>2 DEF InReset
      <3>2. d # s
        BY <1>0, <1>1, <3>1, ResetIsBusy DEF Busy
      <3>3. req'[d].op = "reset" /\ (Closes(d) => Closes(d)')
        BY <1>1, <3>1, <3>2 DEF Closes
      <3>4. QED
        BY <1>1, <3>1, <3>3 DEF InReset, slots
    <2>3. QED
      BY <1>0, <1>1, <2>1, <2>2 DEF PlacesInv, links
  <1>12. QED
    BY <1>6, <1>7, <1>8, <1>9, <1>10, <1>11

\* A step that is not of a session leaves the slots and starts no connection.
LEMMA QuietSlots ==
    ASSUME SlotsInv, UNCHANGED <<slots, sessions, port_of>>,
           \A k \in Conns : listener'[k] = "running" => listener[k] = "running"
    PROVE  /\ AloneInv' /\ StepsInv' /\ LockInv' /\ MapInv' /\ OneSlotInv'
           /\ PlacesInv'
  <1>1. /\ AloneInv /\ StepsInv /\ LockInv /\ MapInv /\ OneSlotInv /\ PlacesInv
        /\ TypeOK /\ UNCHANGED <<connections, slot_conn, slot_lock, pc, req, frame>>
    BY DEF SlotsInv, LeakInv, ResponseInv, slots, sessions
  <1>2. AloneInv' /\ StepsInv'
    BY <1>1 DEF AloneInv, StepsInv, StepsOf, Busy
  <1>3. LockInv' /\ MapInv' /\ OneSlotInv'
    BY <1>1 DEF LockInv, MapInv, OneSlotInv, Busy
  <1>4. PlacesInv'
    BY <1>1, PlacesKept DEF Closes
  <1>5. QED
    BY <1>2, <1>3, <1>4

\* SlotsInv holds in every reachable state, when resets are exclusive.
LEMMA SlotsInductive == ExclusiveReset => (Spec => []SlotsInv)
  <1> SUFFICES ASSUME ExclusiveReset PROVE Spec => []SlotsInv
    OBVIOUS
  <1>1. Init => SlotsInv
    <2> SUFFICES ASSUME Init PROVE SlotsInv
      OBVIOUS
    <2>1. AloneInv /\ StepsInv
      BY DEF Init, AloneInv, StepsInv, StepsOf, ClosingLabels, StartLabels, Busy
    <2>2. LockInv /\ MapInv
      BY DEF Init, LockInv, MapInv, ClosingLabels, SlotLabels, ConnLabels, Busy
    <2>3. OneSlotInv /\ PlacesInv
      BY DEF Init, OneSlotInv, PlacesInv
    <2>4. LeakInv
      BY LeakInit
    <2>5. QED
      BY <2>1, <2>2, <2>3, <2>4 DEF SlotsInv
  <1>2. SlotsInv /\ [Next]_vars => SlotsInv'
    <2> SUFFICES ASSUME SlotsInv, [Next]_vars PROVE SlotsInv'
      OBVIOUS
    <2> DEFINE Rest == /\ AloneInv /\ StepsInv /\ LockInv /\ MapInv /\ OneSlotInv
                       /\ PlacesInv
    <2>1. LeakInv'
      BY LeakStep DEF SlotsInv
    <2>2. TypeOK /\ LocalsInv /\ FreshInv /\ Rest
      BY DEF SlotsInv, LeakInv, ResponseInv
    <2>3. ASSUME NEW s \in Sessions, HandlerStep(s)
          PROVE  Rest'
      BY <2>2, <2>3, HandlerAlone, HandlerSteps, HandlerLocks, HandlerMap,
         HandlerOneSlot, HandlerPlaces
    <2>4. ASSUME NEW k \in Conns, ListenStep(k)
          PROVE  Rest'
      <3>1. UNCHANGED <<slots, sessions, port_of>>
        BY <2>4 DEF ListenStep, ListenRead, ListenReadFails, ListenSend, ListenAborted
      <3>2. listener[k] = "running" /\ \A j \in Conns \ {k} : listener'[j] = listener[j]
        BY <2>2, <2>4, TypeGroups
           DEF ListenStep, ListenRead, ListenReadFails, ListenSend, ListenAborted,
               Stop, ListenResponse, ListenSignal, ListenClose, LinksType
      <3>3. QED
        BY <3>1, <3>2, QuietSlots
    <2>5. ASSUME \/ \E k \in Conns : Respond(k) \/ EmitSignal(k) \/ PeerCloses(k)
                 \/ \E p \in Ports : ConductorDies(p) \/ ConductorStarts(p)
                 \/ \E s \in Sessions : SessionEnds(s)
          PROVE  Rest'
      BY <2>5, QuietSlots
         DEF Respond, EmitSignal, PeerCloses, ConductorDies, ConductorStarts,
             SessionEnds, links
    <2>6. ASSUME UNCHANGED vars
          PROVE  Rest'
      BY <2>6, QuietSlots DEF vars, links
    <2>7. Rest'
      BY <2>3, <2>4, <2>5, <2>6, ReceiveSlots DEF Next, Finished
    <2>8. QED
      BY <2>1, <2>7 DEF SlotsInv
  <1>3. QED
    BY <1>1, <1>2, PTL DEF Spec

\* Every running listen task is in a slot of the map or about to be ended, if
\* resets are exclusive: no interleaving of connects, disconnects and calls
\* leaves one that nothing can end any more.
THEOREM NoStray == ExclusiveReset => (Spec => []NoStrayListener)
  <1>1. SlotsInv => NoStrayListener
    <2> SUFFICES ASSUME SlotsInv, NEW k \in Conns, listener[k] = "running"
                 PROVE  \/ \E p \in Ports :
                              connections[p] # None /\ slot_conn[connections[p]] = k
                        \/ \E s \in Sessions : frame[s].conn = k \/
                              \E t \in frame[s].taken \cup {frame[s].slot} :
                                 t # None /\ slot_conn[t] = k /\ req[s].op = "reset"
      BY DEF NoStrayListener
    <2>1. port_of[k] \in Ports \cup {None}
      BY TypeGroups DEF SlotsInv, LeakInv, ResponseInv, LinksType
    <2>2. InPlace(k) \/ InReset(k)
      BY DEF SlotsInv, PlacesInv
    <2>3. QED
      BY <2>1, <2>2 DEF InPlace, InReset
  <1>2. QED
    BY <1>1, SlotsInductive, PTL

\* The step that ends a request is one of its handler.
LEMMA EndsByHandler ==
    ASSUME TypeOK, [Next]_vars, NEW s \in Sessions, NEW op, Ends(s, op)
    PROVE  HandlerStep(s)
  <1>1. pc[s] # "idle" /\ pc'[s] = "idle"
    BY DEF Ends, Busy
  <1>2. ASSUME NEW d \in Sessions, HandlerStep(d)
        PROVE  HandlerStep(s)
    BY <1>1, <1>2, Others
  <1>3. ASSUME NEW d \in Sessions, NEW o \in Ops, NEW p \in Ports \cup {None},
               Receive(d, o, p)
        PROVE  FALSE
    BY <1>1, <1>3, TypeGroups DEF Receive, Busy, SessionsType
  <1>4. CASE UNCHANGED pc
    BY <1>1, <1>4
  <1>5. QED
    BY <1>2, <1>3, <1>4
       DEF Next, SessionEnds, ListenStep, ListenRead, ListenReadFails, ListenSend,
           ListenAborted, Respond, EmitSignal, PeerCloses, ConductorDies,
           ConductorStarts, Finished, vars, sessions

\* When a disconnect ends no listen task for its port runs.
LEMMA DisconnectAnswer ==
    ASSUME SlotsInv, [Next]_vars, NEW s \in Sessions, Ends(s, "disconnect"),
           NEW k \in Conns, port_of[k] = req[s].port
    PROVE  listener'[k] # "running"
  <1>1. /\ TypeOK /\ LocalsInv /\ AloneInv /\ StepsInv /\ LockInv /\ MapInv /\ PlacesInv
        /\ req[s].op = "disconnect" /\ pc'[s] = "idle" /\ Busy(s)
    BY DEF SlotsInv, LeakInv, ResponseInv, Ends
  <1>2. HandlerStep(s)
    BY <1>1, EndsByHandler
  <1>3. SUFFICES ASSUME listener'[k] = "running"
                 PROVE  FALSE
    OBVIOUS
  <1>4. DisconnectGet(s) \/ Take(s) \/ AwaitListener(s)
    <2>1. StepsOf(s)
      BY <1>1 DEF StepsInv
    <2>2. ~SendClose(s) /\ ~Abort(s)
      BY <1>1, ClosingSteps DEF Closes, ClosingLabels
    <2>3. QED
      BY <1>1, <1>2, <2>1, <2>2
         DEF HandlerStep, StepsOf, ConnectGet, ConnectLock, ConnectDial, CallGet,
             CallLock, CallSend, ResetTake, ResetNext
  <1>5. listener[k] = "running"
    BY <1>3, <1>4 DEF DisconnectGet, Take, AwaitListener, links
  <1>6. ~InReset(k)
    <2>1. ASSUME NEW d \in Sessions, req[d].op = "reset",
                 Closes(d) \/ \E t \in frame[d].taken \cup {frame[d].slot} : t # None
          PROVE  FALSE
      BY <1>1, <2>1, ResetIsBusy DEF AloneInv
    <2>2. QED
      BY <2>1 DEF InReset
  <1>7. InPlace(k)
    BY <1>1, <1>5, <1>6 DEF PlacesInv
  <1>8. PICK t : /\ t = connections[req[s].port] /\ t # None
                 /\ \/ slot_conn[t] = k
                    \/ \E d \in Sessions :
                          Closes(d) /\ frame[d].conn = k /\ frame[d].slot = t
    BY <1>7 DEF InPlace
  <1>9. ASSUME NEW d \in Sessions, Closes(d), frame[d].slot = t
        PROVE  slot_lock[t] = d /\ slot_conn[t] = None
    BY <1>1, <1>9 DEF LockInv, Closes
  <1>10. CASE DisconnectGet(s)
    <2>1. pc'[s] = "take"
      BY <1>1, <1>8, <1>10, GotoLocals DEF DisconnectGet
    <2>2. QED
      BY <1>1, <2>1
  <1>11. CASE Take(s)
    <2>1. slot_conn[t] = None /\ slot_lock[t] = None
      BY <1>1, <1>8, <1>11, TakeSteps DEF MapInv, SlotLabels
    <2>2. QED
      BY <1>5, <1>8, <1>9, <2>1, NoneAssumption
  <1>12. CASE AwaitListener(s)
    <2>1. frame[s].slot = t /\ Closes(s) /\ listener[frame[s].conn] # "running"
      BY <1>1, <1>8, <1>12
         DEF AwaitListener, MapInv, SlotLabels, ConnLabels, Closes, ClosingLabels
    <2>2. QED
      BY <1>5, <1>8, <1>9, <2>1, NoneAssumption
  <1>13. QED
    BY <1>4, <1>10, <1>11, <1>12

\* A handler that answers an error does not answer ok.
LEMMA ErrorReply ==
    ASSUME TypeOK, NEW s \in Sessions, Return(s, "error")
    PROVE  reply'[s] # "ok"
  BY TypeGroups DEF Return, SessionsType

\* When a reset succeeds no listen task runs.
LEMMA ResetAnswer ==
    ASSUME SlotsInv, [Next]_vars, NEW s \in Sessions, Ends(s, "reset"),
           reply'[s] = "ok", NEW k \in Conns
    PROVE  listener'[k] # "running"
  <1>1. /\ TypeOK /\ LocalsInv /\ AloneInv /\ StepsInv /\ MapInv /\ PlacesInv
        /\ req[s].op = "reset" /\ pc'[s] = "idle" /\ Busy(s)
    BY DEF SlotsInv, LeakInv, ResponseInv, Ends
  <1>2. HandlerStep(s) /\ StepsOf(s)
    BY <1>1, EndsByHandler DEF StepsInv
  <1>3. ResetNext(s)
    <2>1. ~SendClose(s) /\ ~Abort(s)
      BY <1>1, ClosingSteps DEF Closes, ClosingLabels
    <2>2. ~Take(s) /\ ~AwaitListener(s)
      <3>1. ASSUME NEW r, Finish(s, r)
            PROVE  FALSE
        BY <1>1, <3>1, FinishFrame
      <3>2. ASSUME Take(s) PROVE FALSE
        BY <1>1, <3>1, <3>2, GotoLocals DEF Take
      <3>3. QED
        BY <3>1, <3>2 DEF AwaitListener
    <2>3. ~ResetTake(s)
      BY <1>1, GotoLocals, ErrorReply DEF ResetTake
    <2>4. QED
      BY <1>1, <1>2, <2>1, <2>2, <2>3
         DEF HandlerStep, StepsOf, ConnectGet, ConnectLock, ConnectDial, DisconnectGet,
             CallGet, CallLock, CallSend
  <1>4. /\ frame[s].taken = {} /\ frame[s].slot = None /\ ~Closes(s)
        /\ pc[s] = "reset_next" /\ UNCHANGED listener
    <2>1. \A f : ~Goto(s, "take", f)
      BY <1>1, GotoLocals
    <2>2. frame[s].taken = {}
      BY <1>3, <2>1 DEF ResetNext
    <2>3. QED
      BY <1>2, <1>3, <2>2 DEF ResetNext, StepsOf, Closes, ClosingLabels, links
  <1>5. SUFFICES ASSUME listener[k] = "running"
                 PROVE  FALSE
    BY <1>4
  <1>6. ~InReset(k)
    <2>1. ASSUME NEW d \in Sessions, req[d].op = "reset",
                 Closes(d) \/ \E t \in frame[d].taken \cup {frame[d].slot} : t # None
          PROVE  d = s
      BY <1>1, <2>1, ResetIsBusy DEF AloneInv
    <2>2. QED
      BY <1>4, <2>1 DEF InReset
  <1>7. port_of[k] \in Ports \cup {None}
    BY <1>1, TypeGroups DEF LinksType
  <1>8. QED
    BY <1>1, <1>4, <1>5, <1>6, <1>7 DEF PlacesInv, InPlace, MapInv

\* When a disconnect is answered the session that was connected hears nothing
\* more of that port, whichever other sessions use it, if resets are exclusive.
THEOREM DisconnectsSilence == ExclusiveReset => (Spec => DisconnectSilences)
  <1>1. SlotsInv /\ [Next]_vars =>
            [\A s \in Sessions : Ends(s, "disconnect") =>
                \A k \in Conns : port_of[k] = req[s].port =>
                    listener'[k] # "running"]_vars
    BY DisconnectAnswer
  <1>2. QED
    BY <1>1, SlotsInductive, PTL DEF Spec, DisconnectSilences

\* When a reset succeeds no listen task runs, if resets are exclusive.
THEOREM ResetsSilence == ExclusiveReset => (Spec => ResetSilences)
  <1>1. SlotsInv /\ [Next]_vars =>
            [\A s \in Sessions : Ends(s, "reset") /\ reply'[s] = "ok" =>
                \A k \in Conns : listener'[k] # "running"]_vars
    BY ResetAnswer
  <1>2. QED
    BY <1>1, SlotsInductive, PTL DEF Spec, ResetSilences

-----------------------------------------------------------------------------
(* Failed calls *)

\* A step that frees keys or leaves them, and keeps who called, keeps FailureInv.
LEMMA PendsKept ==
    ASSUME FailureInv,
           \A k \in Conns, key \in Keys :
               pending'[k][key] = pending[k][key] \/ pending'[k][key] = None,
           \A d \in Sessions, k \in Conns, key \in Keys :
               pending'[k][key] # None /\ PendsFor(d, k, key) => PendsFor(d, k, key)'
    PROVE  FailureInv'
  <1> SUFFICES ASSUME NEW k \in Conns, NEW key \in Keys, pending'[k][key] # None
               PROVE  \E d \in Sessions : PendsFor(d, k, key)'
    BY DEF FailureInv
  <1>1. pending[k][key] # None
    OBVIOUS
  <1>2. PICK d \in Sessions : PendsFor(d, k, key)
    BY <1>1 DEF FailureInv
  <1> QED
    BY <1>2

\* A step of a handler replies to its own session only.
LEMMA HandlerReplies ==
    ASSUME TypeOK, NEW s \in Sessions, HandlerStep(s)
    PROVE  \A d \in Sessions \ {s} : reply'[d] = reply[d]
  <1>1. ASSUME NEW label, NEW f, Goto(s, label, f)
        PROVE  \A d \in Sessions \ {s} : reply'[d] = reply[d]
    BY <1>1 DEF Goto
  <1>2. ASSUME NEW r, Return(s, r)
        PROVE  \A d \in Sessions \ {s} : reply'[d] = reply[d]
    BY <1>2, TypeGroups DEF Return, SessionsType
  <1>3. ASSUME NEW r, Finish(s, r)
        PROVE  \A d \in Sessions \ {s} : reply'[d] = reply[d]
    BY <1>1, <1>2, <1>3 DEF Finish
  <1>4. CASE ConnectGet(s) \/ ConnectLock(s) \/ ConnectDial(s)
    BY <1>1, <1>2, <1>4 DEF ConnectGet, ConnectLock, ConnectDial
  <1>5. CASE DisconnectGet(s) \/ Take(s) \/ SendClose(s) \/ Abort(s) \/ AwaitListener(s)
    BY <1>1, <1>2, <1>3, <1>5
       DEF DisconnectGet, Take, SendClose, Abort, AwaitListener
  <1>6. CASE CallGet(s) \/ CallLock(s) \/ CallSend(s)
    BY <1>1, <1>2, <1>6 DEF CallGet, CallLock, CallSend
  <1>7. CASE ResetTake(s) \/ ResetNext(s)
    BY <1>1, <1>2, <1>7 DEF ResetTake, ResetNext
  <1> QED
    BY <1>4, <1>5, <1>6, <1>7 DEF HandlerStep

\* A handler that is not about to send a call does not answer one that is pending.
LEMMA QuietPends ==
    ASSUME TypeOK, LocalsInv, FailureInv, NEW s \in Sessions, HandlerStep(s),
           pc[s] # "call_send", NEW d \in Sessions, NEW k \in Conns, NEW key \in Keys,
           PendsFor(d, k, key), pending'[k][key] = pending[k][key]
    PROVE  PendsFor(d, k, key)'
  <1>1. UNCHANGED req /\ \A e \in Sessions \ {s} : pc'[e] = pc[e] /\ frame'[e] = frame[e]
    BY Others
  <1>2. CASE d = s
    <2>1. Busy(s)
      BY HandlerBusy
    <2>2. req[s].id > pending[k][key]
      BY <1>2, <2>1 DEF PendsFor, Sends
    <2> QED
      BY <1>1, <1>2, <2>2 DEF PendsFor
  <1>3. CASE d # s
    <2>1. reply'[d] = reply[d]
      BY <1>3, HandlerReplies
    <2> QED
      BY <1>1, <1>3, <2>1 DEF PendsFor, Sends, Busy
  <1> QED
    BY <1>2, <1>3

\* A call that gets a key, one that is sent and one that fails keep FailureInv.
LEMMA HandlerPends ==
    ASSUME ResponseInv, FailureInv, NEW s \in Sessions, HandlerStep(s)
    PROVE  FailureInv'
  <1>0. /\ TypeOK /\ LocalsInv /\ KeysInv
        /\ \A d \in Sessions \ {s} : pc'[d] = pc[d] /\ frame'[d] = frame[d]
                                       /\ reply'[d] = reply[d]
        /\ UNCHANGED req /\ Busy(s)
    BY Others, HandlerReplies, HandlerBusy DEF ResponseInv
  <1>1. CASE CallLock(s) /\ ~(UNCHANGED pending)
    <2> DEFINE k == slot_conn[frame[s].slot]
    <2>0. CallLock(s)
      BY <1>1
    <2>1. k # None /\ pc[s] = "call_lock"
      BY <1>1 DEF CallLock
    <2>2. k \in Conns /\ req[s].id \in Ids
      BY <1>0, <2>1, TypeGroups, Locals DEF SlotLabels, SlotsType
    <2>3. PICK key \in Keys :
             /\ pending' = [pending EXCEPT ![k] =
                               [pending[k] EXCEPT ![key] = req[s].id]]
             /\ Goto(s, "call_send", [frame[s] EXCEPT !.conn = k, !.key = key])
      BY <2>0, <2>1 DEF CallLock
    <2>4. pc'[s] = "call_send" /\ frame'[s].conn = k /\ frame'[s].key = key
      <3>1. /\ pc'[s] = "call_send"
            /\ frame'[s] = [frame[s] EXCEPT !.conn = k, !.key = key]
        BY <1>0, <2>3, GotoLocals
      <3> QED
        BY <1>0, <2>2, <3>1, FrameFields
    <2>5. pending \in [Conns -> [Keys -> Ids \cup {None}]]
      BY <1>0, TypeGroups DEF LinksType
    <2> HIDE DEF k
    <2> SUFFICES ASSUME NEW j \in Conns, NEW l \in Keys, pending'[j][l] # None
                 PROVE  \E d \in Sessions : PendsFor(d, j, l)'
      BY DEF FailureInv
    <2>6. CASE j = k /\ l = key
      <3>1. pending'[j][l] = req[s].id
        BY <2>2, <2>3, <2>5, <2>6
      <3>2. PendsFor(s, j, l)'
        BY <1>0, <2>2, <2>4, <2>6, <3>1, NoneAssumption DEF PendsFor, Sends, Busy
      <3> QED
        BY <3>2
    <2>7. CASE ~(j = k /\ l = key)
      <3>1. pending'[j][l] = pending[j][l]
        BY <2>2, <2>3, <2>5, <2>7
      <3>2. PICK d \in Sessions : PendsFor(d, j, l)
        BY <3>1 DEF FailureInv
      <3>3. PendsFor(d, j, l)'
        BY <1>0, <1>1, <2>1, <3>1, <3>2, QuietPends
      <3> QED
        BY <3>3
    <2> QED
      BY <2>6, <2>7
  <1>2. CASE CallSend(s)
    <2> DEFINE k == frame[s].conn
               key == frame[s].key
    <2>1. k \in Conns /\ key \in Keys /\ pc[s] = "call_send"
      BY <1>0, <1>2, Sender DEF CallSend
    <2>2. pending \in [Conns -> [Keys -> Ids \cup {None}]]
      BY <1>0, TypeGroups DEF LinksType
    <2>3. pc'[s] = "idle"
      BY <1>0, <1>2, ReturnLocals DEF CallSend
    <2>4. \/ pending' = pending /\ reply'[s] = None
          \/ pending' = [pending EXCEPT ![k] = [pending[k] EXCEPT ![key] = None]]
      <3>1. ASSUME Return(s, None) PROVE reply'[s] = None
        BY <1>0, <3>1, TypeGroups DEF Return, SessionsType
      <3> QED
        BY <1>2, <3>1 DEF CallSend
    <2> HIDE DEF k, key
    <2>5. \A j \in Conns, l \in Keys :
             pending'[j][l] = pending[j][l] \/ pending'[j][l] = None
      BY <2>1, <2>2, <2>4
    <2>6. ASSUME NEW d \in Sessions, NEW j \in Conns, NEW l \in Keys,
                 pending'[j][l] # None, PendsFor(d, j, l)
          PROVE  PendsFor(d, j, l)'
      <3>1. pending'[j][l] = pending[j][l]
        BY <2>5, <2>6
      <3>2. CASE d # s
        BY <1>0, <2>6, <3>1, <3>2 DEF PendsFor, Sends, Busy
      <3>3. CASE d = s /\ req[s].id > pending[j][l]
        BY <1>0, <3>1, <3>3, <2>6 DEF PendsFor
      <3>4. CASE d = s /\ ~(req[s].id > pending[j][l])
        <4>1. req[s].id = pending[j][l] /\ j = k /\ l = key
          BY <1>0, <2>6, <3>4 DEF PendsFor, Sends, k, key
        <4>2. reply'[s] = None
          BY <2>1, <2>2, <2>4, <2>6, <4>1
        <4> QED
          BY <1>0, <2>3, <2>6, <3>1, <3>4, <4>1, <4>2 DEF PendsFor, Busy
      <3> QED
        BY <3>2, <3>3, <3>4
    <2> QED
      BY <2>5, <2>6, PendsKept
  <1>3. CASE ~CallSend(s) /\ UNCHANGED pending
    <2>1. CASE pc[s] = "call_send"
      BY <1>3, <2>1
         DEF HandlerStep, ConnectGet, ConnectLock, ConnectDial, DisconnectGet, Take,
             SendClose, Abort, AwaitListener, CallGet, CallLock, ResetTake, ResetNext
    <2>2. CASE pc[s] # "call_send"
      BY <1>0, <1>3, <2>2, QuietPends, PendsKept
    <2> QED
      BY <2>1, <2>2
  <1> QED
    BY <1>1, <1>2, <1>3
       DEF HandlerStep, ConnectGet, ConnectLock, ConnectDial, DisconnectGet, Take,
           SendClose, Abort, AwaitListener, CallGet, ResetTake, ResetNext, links

\* The ids under the keys are right, whatever fails.
LEMMA FailureInductive == Spec => [](ResponseInv /\ FailureInv)
  <1>1. Init => FailureInv
    BY DEF Init, FailureInv
  <1>2. (ResponseInv /\ FailureInv) /\ [Next]_vars => FailureInv'
    <2> SUFFICES ASSUME ResponseInv, FailureInv, [Next]_vars PROVE FailureInv'
      OBVIOUS
    <2>0. TypeOK /\ LocalsInv
      BY DEF ResponseInv
    <2>1. ASSUME NEW s \in Sessions, NEW op \in Ops, NEW p \in Ports \cup {None},
                 Receive(s, op, p)
          PROVE  FailureInv'
      <3>1. /\ UNCHANGED <<pending, frame>> /\ ~Busy(s)
            /\ req'[s].id = IF req[s].id = None THEN 1 ELSE req[s].id + 1
            /\ \A d \in Sessions \ {s} :
                   pc'[d] = pc[d] /\ req'[d] = req[d] /\ reply'[d] = reply[d]
        BY <2>0, <2>1, TypeGroups DEF Receive, SessionsType, links
      <3>2. /\ req[s].id \in Ids \cup {None}
            /\ pending \in [Conns -> [Keys -> Ids \cup {None}]]
        BY <2>0, TypeGroups DEF SessionsType, LinksType
      <3>3. ASSUME NEW d \in Sessions, NEW k \in Conns, NEW key \in Keys,
                   pending'[k][key] # None, PendsFor(d, k, key)
            PROVE  PendsFor(d, k, key)'
        <4>1. pending[k][key] \in Ids
          <5>1. pending[k][key] # None
            BY <3>1, <3>3
          <5> QED
            BY <3>2, <5>1
        <4>2. CASE d = s
          <5>1. req[s].id \in Ids /\ req[s].id >= pending[k][key]
            BY <3>2, <3>3, <4>1, <4>2, SizesAssumption DEF PendsFor
          <5>2. req'[s].id > pending[k][key] /\ req'[s].id # None
            BY <3>1, <4>1, <5>1, NoneAssumption, SizesAssumption
          <5> QED
            BY <3>1, <4>2, <5>2 DEF PendsFor
        <4>3. CASE d # s
          BY <3>1, <3>3, <4>3 DEF PendsFor, Sends, Busy
        <4> QED
          BY <4>2, <4>3
      <3> QED
        BY <3>1, <3>3, PendsKept
    <2>2. ASSUME NEW s \in Sessions, HandlerStep(s) PROVE FailureInv'
      BY <2>2, HandlerPends
    <2>3. ASSUME UNCHANGED sessions,
                 \A k \in Conns, key \in Keys :
                     pending'[k][key] = pending[k][key] \/ pending'[k][key] = None
          PROVE  FailureInv'
      BY <2>3, PendsKept DEF PendsFor, Sends, Busy, sessions
    <2>4. ASSUME NEW k \in Conns, ListenStep(k) PROVE FailureInv'
      <3>1. UNCHANGED sessions
        BY <2>4 DEF ListenStep, ListenRead, ListenReadFails, ListenSend, ListenAborted
      <3>2. \A j \in Conns, l \in Keys :
               pending'[j][l] = pending[j][l] \/ pending'[j][l] = None
        <4>1. CASE UNCHANGED pending
          BY <4>1
        <4>2. ASSUME NEW l \in Keys, pending' = [pending EXCEPT ![k] =
                                           [pending[k] EXCEPT ![l] = None]]
              PROVE  \A j \in Conns, i \in Keys :
                        pending'[j][i] = pending[j][i] \/ pending'[j][i] = None
          <5>1. pending \in [Conns -> [Keys -> Ids \cup {None}]]
            BY <2>0, TypeGroups DEF LinksType
          <5> QED
            BY <4>2, <5>1
        <4>3. CASE ~(UNCHANGED pending)
          <5>1. ListenRead(k)
            BY <2>4, <4>3 DEF ListenStep, ListenReadFails, ListenSend, ListenAborted
          <5>2. PICK m \in arrived[k] : ListenResponse(k, m)
            BY <4>3, <5>1 DEF ListenRead, ListenSignal, ListenClose
          <5>3. m.request.key \in Keys
            BY <2>0, <5>2, TypeGroups DEF PeersType, Messages, Requests, ListenResponse
          <5> QED
            BY <4>2, <4>3, <5>2, <5>3 DEF ListenResponse
        <4> QED
          BY <4>1, <4>3
      <3> QED
        BY <2>3, <3>1, <3>2
    <2>5. ASSUME \/ \E k \in Conns : Respond(k) \/ EmitSignal(k) \/ PeerCloses(k)
                 \/ \E p \in Ports : ConductorDies(p) \/ ConductorStarts(p)
                 \/ \E s \in Sessions : SessionEnds(s)
          PROVE  FailureInv'
      <3>1. UNCHANGED <<pending, sessions>>
        BY <2>5 DEF Respond, EmitSignal, PeerCloses, ConductorDies, ConductorStarts,
             SessionEnds, links
      <3> QED
        BY <2>3, <3>1
    <2>6. ASSUME UNCHANGED vars PROVE FailureInv'
      BY <2>3, <2>6 DEF vars, links
    <2> QED
      BY <2>1, <2>2, <2>4, <2>5, <2>6 DEF Next, Finished
  <1> QED
    BY <1>1, <1>2, ResponseInit, ResponseStep, PTL DEF Spec

\* A call that is answered with an error is not pending any more, for any number of
\* sessions that share the connection and any conductors that die under it.
THEOREM FailedCallsFreed == Spec => []FailedCallFreed
  <1>1. ResponseInv /\ FailureInv => FailedCallFreed
    <2> SUFFICES ASSUME ResponseInv, FailureInv,
                        NEW s \in Sessions, NEW k \in Conns, NEW key \in Keys,
                        ~Busy(s), reply[s] = "error",
                        pending[k][key] # None, pending[k][key] = req[s].id
                 PROVE  \E d \in Sessions \ {s} : req[d].id # None /\ req[d].id >= req[s].id
      BY DEF FailedCallFreed
    <2>1. PICK d \in Sessions : PendsFor(d, k, key)
      BY DEF FailureInv
    <2>2. req[s].id \in Ids /\ req[d].id \in Ids
      BY <2>1, TypeGroups DEF ResponseInv, SessionsType, PendsFor
    <2>3. d # s
      BY <2>1, <2>2, NoneAssumption, SizesAssumption DEF PendsFor
    <2> QED
      BY <2>1, <2>2, <2>3, SizesAssumption DEF PendsFor
  <1> QED
    BY <1>1, FailureInductive, PTL

=============================================================================
