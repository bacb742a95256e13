------------------------- MODULE TrycpSession_proofs -------------------------
(***************************************************************************)
(* Proofs about TrycpSession: its type invariant, that a DNA is sent once, *)
(* and that the session implements Rpc, for any number of tasks, DNAs and  *)
(* ports, without the bounds of the runs playing a part.                   *)
(*                                                                         *)
(* The invariant follows a call by its id: a request on the wire that is   *)
(* the current call of a caller has no answer yet (WireInv), a response    *)
(* that is unread and would be taken for the answer to the current call of *)
(* a caller is that answer (InboxInv), and as long as no response to a     *)
(* call of another session came, so is what a promise was resolved with    *)
(* (OwnInv).  Ids are what tells calls apart, so no two callers have the   *)
(* same and a new one is fresh (IdInv).                                    *)
(***************************************************************************)
EXTENDS TrycpSession, SequenceTheorems, TLAPS

\* The places of the unread responses.
Responses == {i \in 1 .. Len(inbox) : inbox[i].type = "response"}

\* Ids of calls, requests and unread responses are below next_id, and identify the call.
IdInv ==
    /\ \A c \in Callers : call[c] # None => call[c].id < next_id /\ call[c].by = c
    /\ \A i \in Responses : inbox[i].id < next_id
    /\ \A m \in wire : m.id < next_id
    /\ \A c, d \in Callers :
        call[c] # None /\ call[d] # None /\ call[c].id = call[d].id => c = d

\* Whoever waits, or is waited for, has a call under way; and only they.
CallInv ==
    /\ \A a \in awaited : call[a.by] # None /\ call[a.by].id = a.id
    /\ \A c \in Callers : Calling(c) <=> call[c] # None

WireInv ==
    \A m \in wire, c \in Callers :
        call[c] # None /\ call[c].id = m.id => call[c] = m /\ answered[c] = None

InboxInv ==
    \A i \in Responses, c \in Callers :
        call[c] # None /\ call[c].id = inbox[i].id /\ resolved[c] = None
            => answered[c] = inbox[i].reply

AnswerInv ==
    \A c \in Callers :
        /\ resolved[c] # None => call[c] # None /\ resolved[c] \in AnswersTo(call[c].kind)
        /\ answered[c] # None => call[c] # None /\ answered[c] \in AnswersTo(call[c].kind)

OwnInv == others = 0 => \A c \in Callers : resolved[c] # None => answered[c] = resolved[c]

\* The one call that the promise of a DNA makes.
SaveInv ==
    \A d \in Dnas :
        /\ Calling(d) => saved[d] = "calling"
        /\ call[d] # None => call[d].kind = "plain"
        /\ saved[d] \in {"none", "reading"} => uploads[d] = 0
        /\ uploads[d] <= 1
        /\ answered[d] = "ok" => d \in stored
        /\ saved[d] = "returned" => d \in stored \/ others > 0

CallsInv == IdInv /\ CallInv /\ WireInv /\ InboxInv /\ AnswerInv /\ OwnInv

SessionInv == CallsInv /\ SaveInv

USE DisjointAssumption, NoneAssumption DEF Callers, Answers, Kinds, AnswersTo

-----------------------------------------------------------------------------
\* They hold at the start.
LEMMA InitInv == Init => TypeOK /\ SessionInv
<1> SUFFICES ASSUME Init PROVE TypeOK /\ SessionInv
    OBVIOUS
<1>1. TypeOK
    BY DEF Init, TypeOK
<1>2. Responses = {}
    BY DEF Init, Responses
<1>3. \A c \in Callers : call[c] = None /\ resolved[c] = None /\ answered[c] = None
                          /\ ~Calling(c)
    BY DEF Init, Calling
<1>4. IdInv /\ CallInv /\ InboxInv
    BY <1>2, <1>3 DEF Init, IdInv, CallInv, InboxInv
<1>5. WireInv /\ AnswerInv /\ OwnInv
    BY <1>3 DEF Init, WireInv, AnswerInv, OwnInv
<1>6. SaveInv
    BY <1>3 DEF Init, SaveInv
<1> QED BY <1>1, <1>4, <1>5, <1>6 DEF SessionInv, CallsInv

\* What a message does to the promises keeps their type.
LEMMA ResolveType ==
    ASSUME TypeOK, NEW message \in Incoming, Resolve(message)
    PROVE  resolved' \in [Callers -> Answers \cup {None}]
<1>1. message.type = "response" => message.reply \in Answers
    BY DEF Incoming
<1>2. \A kind, reply : reply \in Answers => Seen(kind, reply) \in Answers
    BY DEF Seen
<1> QED BY <1>1, <1>2 DEF TypeOK, Resolve

\* A response to a call of another session is a message.
LEMMA OtherIsIncoming ==
    ASSUME NEW id \in 0 .. MaxCalls, NEW a \in OtherAnswers
    PROVE  [type |-> "response", id |-> id, reply |-> a] \in Incoming
BY BoundsAssumption, OtherAnswersAssumption DEF Incoming

\* The variables keep their types.
LEMMA TypeStep == TypeOK /\ [Next]_vars => TypeOK'
<1> SUFFICES ASSUME TypeOK, [Next]_vars PROVE TypeOK'
    OBVIOUS
<1> USE DEF TypeOK
<1>1. ASSUME NEW c \in Callers, NEW kind \in Kinds, CallAs(c, kind)
      PROVE  /\ next_id' \in Nat /\ awaited' \in SUBSET [id : Nat, by : Callers]
             /\ pc' \in [Callers -> {"idle", "sending", "waiting", "saving", "closing"}]
             /\ call' \in [Callers -> Messages \cup {None}]
             /\ resolved' \in [Callers -> Answers \cup {None}]
             /\ answered' \in [Callers -> Answers \cup {None}]
             /\ wire' \in SUBSET Messages
             /\ abandoned' \subseteq Callers
             /\ UNCHANGED <<outcome, others, stored>>
    BY <1>1 DEF CallAs, FreshId, Messages
<1>2. ASSUME NEW t \in Tasks, Plain(t) \/ Tunneled(t) PROVE TypeOK'
  <2>1. PICK kind \in Kinds : CallAs(t, kind)
        BY <1>2, TunnelsAssumption DEF Plain, Tunneled
  <2> QED BY <1>1, <1>2, <2>1 DEF Plain, Tunneled, saves
<1>3. ASSUME NEW t \in Tasks, SaveReturns(t) \/ CloseSession(t) PROVE TypeOK'
    BY <1>3 DEF SaveReturns, CloseSession, calls, saves
<1>4. ASSUME NEW t \in Tasks, NEW d \in Dnas, SaveDna(t, d) PROVE TypeOK'
    BY <1>4 DEF SaveDna, calls
<1>5. ASSUME NEW t \in Tasks, NEW p \in Ports, Subscribe(t, p) \/ Unsubscribe(t, p)
      PROVE TypeOK'
    BY <1>5 DEF Subscribe, Unsubscribe, calls, saves
<1>6. ASSUME NEW d \in Dnas, ContentsRead(d) PROVE TypeOK'
    BY <1>1, <1>6 DEF ContentsRead
<1>7. ASSUME NEW d \in Dnas, ContentsFail(d) PROVE TypeOK'
    BY <1>7 DEF ContentsFail, calls
<1>8. ASSUME NEW c \in Callers, Sent(c) PROVE TypeOK'
    BY <1>8 DEF Sent, calls, saves
<1>9. ASSUME NEW c \in Callers, CallReturns(c) PROVE TypeOK'
    BY <1>9 DEF CallReturns, Decode
<1>10. ASSUME NEW c \in Callers, Serve(c) PROVE TypeOK'
  <2>1. PICK m \in wire, a \in Answers :
            /\ wire' = wire \ {m}
            /\ inbox' = Append(inbox, [type |-> "response", id |-> m.id, reply |-> a])
            /\ answered' = IF call[c] = m THEN [answered EXCEPT ![c] = a] ELSE answered
            /\ stored' = IF c \in Dnas /\ a = "ok" THEN stored \cup {c} ELSE stored
        BY <1>10 DEF Serve
  <2>2. [type |-> "response", id |-> m.id, reply |-> a] \in Incoming
        BY DEF Messages, Incoming
  <2>3. inbox' \in Seq(Incoming)
        BY <2>1, <2>2
  <2> QED BY <1>10, <2>1, <2>3 DEF Serve, saves
<1>11. ASSUME NEW c \in Callers, Abandon(c) PROVE TypeOK'
    BY <1>11 DEF Abandon, saves
<1>12. ASSUME NEW p \in Ports, EmitSignal(p) PROVE TypeOK'
  <2>1. [type |-> "signal", port |-> p] \in Incoming
        BY DEF Incoming
  <2> QED BY <1>12, <2>1 DEF EmitSignal, calls, saves
<1>13. CASE OnMessage
  <2>1. Head(inbox) \in Incoming /\ Tail(inbox) \in Seq(Incoming)
        BY <1>13, HeadTailProperties DEF OnMessage
  <2>2. resolved' \in [Callers -> Answers \cup {None}]
        BY <1>13, <2>1, ResolveType DEF OnMessage
  <2> QED BY <1>13, <2>1, <2>2 DEF OnMessage, Unread, saves
<1>14. CASE OnOtherResponse
  <2>1. resolved' \in [Callers -> Answers \cup {None}]
        BY <1>14, OtherIsIncoming, ResolveType DEF OnOtherResponse
  <2> QED BY <1>14, <2>1 DEF OnOtherResponse, saves
<1>15. CASE CloseEvent \/ ConnectionLost
  <2>1. <<>> \in Seq(Incoming)
        OBVIOUS
  <2>2. pc' \in [Callers -> {"idle", "sending", "waiting", "saving", "closing"}]
        BY <1>15 DEF CloseEvent, ConnectionLost, Closed
  <2> QED BY <1>15, <2>1, <2>2 DEF CloseEvent, ConnectionLost, Closed, saves
<1>16. CASE UNCHANGED vars
    BY <1>16 DEF vars
<1> QED BY <1>2, <1>3, <1>4, <1>5, <1>6, <1>7, <1>8, <1>9, <1>10, <1>11, <1>12, <1>13,
           <1>14, <1>15, <1>16 DEF Next

-----------------------------------------------------------------------------
\* What a new call does to the invariant: its id is fresh, and no message has it.
LEMMA CallAsInv ==
    ASSUME TypeOK, CallsInv, NEW c \in Callers, NEW kind \in Kinds,
           CallAs(c, kind), inbox' = inbox, ~Calling(c)
    PROVE  CallsInv'
<1> DEFINE message == [id |-> next_id, by |-> c, kind |-> kind]
<1> USE DEF TypeOK, CallsInv
<1>1. /\ message \in Messages /\ message # None
      /\ message.id = next_id /\ message.by = c /\ message.kind = kind
    BY DEF Messages
<1> HIDE DEF message
<1>2. /\ next_id' = next_id + 1
      /\ awaited' = {a \in awaited : a.id # next_id} \cup {[id |-> next_id, by |-> c]}
      /\ call' = [call EXCEPT ![c] = message]
      /\ resolved' = [resolved EXCEPT ![c] = None]
      /\ answered' = [answered EXCEPT ![c] = None]
      /\ wire' \subseteq wire \cup {message}
      /\ pc' = [pc EXCEPT ![c] = "sending"]
      /\ others' = others
    BY DEF CallAs, FreshId, message
<1>3. \A d \in Callers : call[d] # None => call[d].id \in Nat
    BY DEF Messages
<1>4. \A i \in Responses : inbox[i].id \in Nat
    BY DEF Responses, Incoming
<1>5. \A m \in wire : m.id \in Nat
    BY DEF Messages
<1>6. Responses' = Responses
    BY DEF Responses
<1>7. IdInv'
    BY <1>1, <1>2, <1>3, <1>4, <1>5, <1>6 DEF IdInv
<1>8. CallInv'
  <2>1. \A a \in awaited : a.by # c /\ a.by \in Callers
        BY DEF CallInv
  <2> QED BY <1>1, <1>2, <2>1 DEF CallInv, Calling
<1>9. WireInv'
  <2> SUFFICES ASSUME NEW m \in wire', NEW d \in Callers, call'[d] # None,
                      call'[d].id = m.id
               PROVE  call'[d] = m /\ answered'[d] = None
        BY DEF WireInv
  <2>1. CASE m = message
        BY <1>1, <1>2, <1>3, <2>1 DEF IdInv
  <2>2. CASE m # message
    <3>1. m \in wire
          BY <1>2, <2>2
    <3>2. d # c
          BY <1>1, <1>2, <1>5, <3>1 DEF IdInv
    <3> QED BY <1>2, <3>1, <3>2 DEF WireInv
  <2> QED BY <2>1, <2>2
<1>10. InboxInv'
  <2> SUFFICES \A i \in Responses', d \in Callers :
                    call'[d] # None /\ call'[d].id = inbox'[i].id /\ resolved'[d] = None
                        => answered'[d] = inbox'[i].reply
        BY DEF InboxInv
  <2> TAKE i \in Responses', d \in Callers
  <2> HAVE call'[d] # None /\ call'[d].id = inbox'[i].id /\ resolved'[d] = None
  <2>1. d # c
        BY <1>1, <1>2, <1>4, <1>6 DEF IdInv
  <2>2. /\ call[d] = call'[d] /\ resolved[d] = resolved'[d] /\ answered'[d] = answered[d]
        /\ i \in Responses
        BY <1>2, <1>6, <2>1
  <2>3. InboxInv /\ inbox'[i] = inbox[i]
        OBVIOUS
  <2> HIDE DEF TypeOK, CallsInv
  <2> QED BY <2>2, <2>3 DEF InboxInv
<1>11. AnswerInv' /\ OwnInv'
    BY <1>1, <1>2 DEF AnswerInv, OwnInv
<1> QED BY <1>7, <1>8, <1>9, <1>10, <1>11

\* A step that starts and ends no call, answers none and delivers no response keeps it.
LEMMA QuietInv ==
    ASSUME TypeOK, CallsInv,
           UNCHANGED <<next_id, awaited, call, resolved, answered, others>>,
           wire' \subseteq wire,
           \A i \in Responses' : i \in Responses /\ inbox'[i] = inbox[i],
           \A c \in Callers : Calling(c)' <=> Calling(c)
    PROVE  CallsInv'
<1> USE DEF CallsInv
<1>1. call' = call /\ resolved' = resolved /\ answered' = answered
    OBVIOUS
<1>2. IdInv' /\ CallInv'
    BY DEF IdInv, CallInv
<1>3. WireInv'
    BY DEF WireInv
<1>4. AnswerInv' /\ OwnInv'
    BY DEF AnswerInv, OwnInv
<1>5. InboxInv'
  <2> SUFFICES \A i \in Responses', c \in Callers :
                    call'[c] # None /\ call'[c].id = inbox'[i].id /\ resolved'[c] = None
                        => answered'[c] = inbox'[i].reply
        BY DEF InboxInv
  <2> TAKE i \in Responses', c \in Callers
  <2>1. i \in Responses /\ inbox'[i] = inbox[i]
        OBVIOUS
  <2> QED BY <1>1, <2>1 DEF InboxInv
<1> QED BY <1>2, <1>3, <1>4, <1>5

\* The end of a call: what it leaves on the wire and unread concerns no caller.
LEMMA ReturnInv ==
    ASSUME TypeOK, CallsInv, NEW c \in Callers, CallReturns(c)
    PROVE  CallsInv'
<1> USE DEF TypeOK, CallsInv
<1>1. /\ pc' = [pc EXCEPT ![c] = "idle"]
      /\ awaited' = {a \in awaited : a.by # c}
      /\ call' = [call EXCEPT ![c] = None]
      /\ resolved' = [resolved EXCEPT ![c] = None]
      /\ answered' = [answered EXCEPT ![c] = None]
      /\ UNCHANGED <<next_id, wire, inbox, others>>
    BY DEF CallReturns
<1>2. Responses' = Responses
    BY <1>1 DEF Responses
<1>3. /\ call'[c] = None /\ resolved'[c] = None /\ answered'[c] = None /\ ~Calling(c)'
      /\ \A d \in Callers : d # c =>
            /\ call'[d] = call[d] /\ resolved'[d] = resolved[d] /\ answered'[d] = answered[d]
            /\ (Calling(d)' <=> Calling(d))
    BY <1>1 DEF Calling
<1>4. IdInv'
    BY <1>1, <1>2, <1>3 DEF IdInv
<1>5. CallInv'
    BY <1>1, <1>3 DEF CallInv
<1>6. WireInv'
    BY <1>1, <1>3 DEF WireInv
<1>7. InboxInv'
    BY <1>1, <1>2, <1>3 DEF InboxInv
<1>8. AnswerInv' /\ OwnInv'
    BY <1>1, <1>3 DEF AnswerInv, OwnInv
<1> QED BY <1>4, <1>5, <1>6, <1>7, <1>8

\* The server's answer to a request.
LEMMA ServeInv ==
    ASSUME TypeOK, CallsInv, NEW c \in Callers, Serve(c)
    PROVE  CallsInv'
<1> USE DEF TypeOK, CallsInv
<1>1. PICK m \in wire, a \in Answers :
        /\ m.by = c /\ a \in AnswersTo(m.kind)
        /\ wire' = wire \ {m}
        /\ inbox' = Append(inbox, [type |-> "response", id |-> m.id, reply |-> a])
        /\ answered' = IF call[c] = m THEN [answered EXCEPT ![c] = a] ELSE answered
        /\ UNCHANGED <<next_id, awaited, pc, call, resolved, others>>
    BY DEF Serve
<1>2. m \in Messages /\ m # None /\ m.id \in Nat
    BY DEF Messages
<1>3. \A i \in Responses' :
        \/ i \in Responses /\ inbox'[i] = inbox[i]
        \/ i = Len(inbox) + 1 /\ inbox'[i] = [type |-> "response", id |-> m.id, reply |-> a]
    BY <1>1 DEF Responses
<1>4. \A d \in Callers : answered'[d] # answered[d] =>
            d = c /\ call[d] = m /\ answered[d] = None /\ answered'[d] = a
    BY <1>1, <1>2 DEF WireInv
<1>5. \A d \in Callers : call[d] # None /\ call[d].id = m.id =>
            call[d] = m /\ d = c /\ answered'[d] = a
    BY <1>1 DEF WireInv, IdInv
<1>6. CallInv'
    BY <1>1 DEF CallInv, Calling
<1>7. IdInv'
  <2>1. ASSUME NEW i \in Responses' PROVE inbox'[i].id < next_id
    <3>1. CASE i \in Responses /\ inbox'[i] = inbox[i]
        BY <3>1 DEF IdInv
    <3>2. CASE inbox'[i] = [type |-> "response", id |-> m.id, reply |-> a]
        BY <3>2 DEF IdInv
    <3> QED BY <1>3, <3>1, <3>2
  <2> QED BY <1>1, <2>1 DEF IdInv
<1>8. WireInv'
  <2> SUFFICES ASSUME NEW n \in wire', NEW d \in Callers, call'[d] # None,
                      call'[d].id = n.id
               PROVE  call'[d] = n /\ answered'[d] = None
        BY DEF WireInv
  <2>1. n \in wire /\ n # m /\ call'[d] = call[d]
        BY <1>1
  <2>2. call[d] = n /\ answered[d] = None
        BY <1>1, <2>1 DEF WireInv
  <2> QED BY <1>4, <2>1, <2>2
<1>9. InboxInv'
  <2> SUFFICES \A i \in Responses', d \in Callers :
                    call'[d] # None /\ call'[d].id = inbox'[i].id /\ resolved'[d] = None
                        => answered'[d] = inbox'[i].reply
        BY DEF InboxInv
  <2> TAKE i \in Responses', d \in Callers
  <2> HAVE call'[d] # None /\ call'[d].id = inbox'[i].id /\ resolved'[d] = None
  <2>1. call[d] = call'[d] /\ resolved[d] = resolved'[d]
        BY <1>1
  <2>2. CASE i \in Responses /\ inbox'[i] = inbox[i]
      <3>1. answered[d] = inbox[i].reply
            BY <2>1, <2>2 DEF InboxInv
      <3>2. inbox[i].reply \in Answers
            BY <2>2 DEF Responses, Incoming
      <3>3. answered[d] # None
            BY <3>1, <3>2
      <3>4. answered'[d] = answered[d]
            BY <1>4, <3>3
      <3> QED BY <2>2, <3>1, <3>4
  <2>3. CASE i = Len(inbox) + 1 /\ inbox'[i] = [type |-> "response", id |-> m.id, reply |-> a]
        BY <1>5, <2>1, <2>3
  <2> QED BY <1>3, <2>2, <2>3
<1>10. AnswerInv'
    BY <1>1, <1>2, <1>4 DEF AnswerInv
<1>11. OwnInv'
  <2> SUFFICES ASSUME others = 0, NEW d \in Callers, resolved[d] # None
               PROVE  answered'[d] = resolved[d]
        BY <1>1 DEF OwnInv
  <2>1. answered[d] = resolved[d]
        BY DEF OwnInv
  <2> QED BY <1>4, <2>1
<1> QED BY <1>6, <1>7, <1>8, <1>9, <1>10, <1>11

\* What a message does to the promises: it resolves the one that is awaited for its id.
LEMMA ResolveOne ==
    ASSUME TypeOK, CallsInv, NEW message \in Incoming, Resolve(message)
    PROVE  /\ \A c \in Callers : resolved'[c] # resolved[c] =>
                /\ message.type = "response" /\ resolved[c] = None
                /\ call[c] # None /\ call[c].id = message.id
                /\ resolved'[c] = Seen(call[c].kind, message.reply)
           /\ \A c \in Callers : resolved'[c] = None => resolved[c] = None
           /\ \A c \in Callers : resolved'[c] # resolved[c] =>
                resolved'[c] \in AnswersTo(call[c].kind)
<1> USE DEF TypeOK, CallsInv
<1>1. \A c \in Callers :
        resolved'[c] =
            IF /\ message.type = "response" /\ resolved[c] = None
               /\ [id |-> message.id, by |-> c] \in awaited
            THEN Seen(call[c].kind, message.reply) ELSE resolved[c]
    BY DEF Resolve
<1>2. \A c \in Callers : resolved'[c] # resolved[c] =>
        /\ message.type = "response" /\ resolved[c] = None
        /\ call[c] # None /\ call[c].id = message.id
        /\ resolved'[c] = Seen(call[c].kind, message.reply)
  <2> SUFFICES ASSUME NEW c \in Callers, resolved'[c] # resolved[c]
               PROVE  /\ message.type = "response" /\ resolved[c] = None
                      /\ call[c] # None /\ call[c].id = message.id
                      /\ resolved'[c] = Seen(call[c].kind, message.reply)
        OBVIOUS
  <2>1. /\ message.type = "response" /\ resolved[c] = None
        /\ [id |-> message.id, by |-> c] \in awaited
        /\ resolved'[c] = Seen(call[c].kind, message.reply)
        BY <1>1
  <2>2. call[c] # None /\ call[c].id = message.id
        BY <2>1 DEF CallInv
  <2> QED BY <2>1, <2>2
<1>3. message.type = "response" => message.reply \in Answers
    BY DEF Incoming
<1>4. \A c \in Callers : resolved'[c] # resolved[c] =>
        resolved'[c] \in AnswersTo(call[c].kind) /\ resolved'[c] # None
    BY <1>2, <1>3 DEF Seen
<1>5. \A c \in Callers : resolved'[c] = None => resolved[c] = None
  <2> SUFFICES ASSUME NEW c \in Callers, resolved'[c] = None, resolved[c] # None PROVE FALSE
        OBVIOUS
  <2> QED BY <1>4
<1> QED BY <1>2, <1>4, <1>5

\* An unread response is read by the caller whose call it answers.
LEMMA HeadIsOwn ==
    ASSUME TypeOK, CallsInv, OnMessage, NEW c \in Callers, resolved'[c] # resolved[c]
    PROVE  answered[c] = resolved'[c]
<1> USE DEF TypeOK, CallsInv
<1>1. /\ inbox # <<>> /\ Resolve(Head(inbox))
      /\ Head(inbox) \in Incoming /\ 1 \in 1 .. Len(inbox) /\ Head(inbox) = inbox[1]
    BY HeadTailProperties DEF OnMessage
<1>2. /\ inbox[1].type = "response" /\ resolved[c] = None
      /\ call[c] # None /\ call[c].id = inbox[1].id
      /\ resolved'[c] = Seen(call[c].kind, inbox[1].reply)
    BY <1>1, ResolveOne
<1>3. 1 \in Responses
    BY <1>1, <1>2 DEF Responses
<1>4. answered[c] = inbox[1].reply
    BY <1>2, <1>3 DEF InboxInv
<1>5. inbox[1].reply \in Answers
    BY <1>1, <1>2 DEF Incoming
<1>6. answered[c] \in AnswersTo(call[c].kind)
    BY <1>4, <1>5 DEF AnswerInv
<1> QED BY <1>2, <1>4, <1>6 DEF Seen

\* A message of the server reaches the client.
LEMMA OnMessageInv ==
    ASSUME TypeOK, CallsInv, OnMessage
    PROVE  CallsInv'
<1> USE DEF TypeOK, CallsInv
<1>1. /\ inbox # <<>> /\ inbox' = Tail(inbox) /\ Resolve(Head(inbox))
      /\ Head(inbox) \in Incoming
      /\ UNCHANGED <<next_id, awaited, pc, call, answered, wire, others>>
    BY HeadTailProperties DEF OnMessage, Unread
<1>2. /\ Len(inbox') = Len(inbox) - 1
      /\ \A i \in 1 .. Len(inbox') : inbox'[i] = inbox[i + 1]
    BY <1>1, HeadTailProperties
<1>3. \A i \in Responses' : i + 1 \in Responses /\ inbox'[i] = inbox[i + 1]
  <2> TAKE i \in Responses'
  <2>1. i \in 1 .. Len(inbox') /\ inbox'[i].type = "response"
        BY DEF Responses
  <2>2. i + 1 \in 1 .. Len(inbox)
        BY <1>2, <2>1
  <2> QED BY <1>2, <2>1, <2>2 DEF Responses
<1>4. /\ \A c \in Callers : resolved'[c] # resolved[c] =>
            call[c] # None /\ resolved'[c] \in AnswersTo(call[c].kind)
      /\ \A c \in Callers : resolved'[c] = None => resolved[c] = None
    BY <1>1, ResolveOne
<1>5. IdInv'
    BY <1>1, <1>3 DEF IdInv
<1>6. CallInv' /\ WireInv'
    BY <1>1 DEF CallInv, WireInv, Calling
<1>7. InboxInv'
  <2> SUFFICES \A i \in Responses', c \in Callers :
                    call'[c] # None /\ call'[c].id = inbox'[i].id /\ resolved'[c] = None
                        => answered'[c] = inbox'[i].reply
        BY DEF InboxInv
  <2> TAKE i \in Responses', c \in Callers
  <2> HAVE call'[c] # None /\ call'[c].id = inbox'[i].id /\ resolved'[c] = None
  <2>1. i + 1 \in Responses /\ inbox'[i] = inbox[i + 1] /\ resolved[c] = None
        BY <1>3, <1>4
  <2>2. call[c] # None /\ call[c].id = inbox[i + 1].id /\ answered'[c] = answered[c]
        BY <1>1, <2>1
  <2>3. answered[c] = inbox[i + 1].reply
        BY <2>1, <2>2 DEF InboxInv
  <2> QED BY <2>1, <2>2, <2>3
<1>8. AnswerInv'
    BY <1>1, <1>4 DEF AnswerInv
<1>9. OwnInv'
    BY <1>1, HeadIsOwn DEF OwnInv
<1> QED BY <1>5, <1>6, <1>7, <1>8, <1>9

\* A response to a call of another session reaches the client.
LEMMA OnOtherInv ==
    ASSUME TypeOK, CallsInv, OnOtherResponse
    PROVE  CallsInv'
<1> USE DEF TypeOK, CallsInv
<1>1. /\ others' = others + 1
      /\ UNCHANGED <<inbox, next_id, awaited, pc, call, answered, wire>>
      /\ \E message \in Incoming : Resolve(message)
    BY OtherIsIncoming DEF OnOtherResponse
<1>2. /\ \A c \in Callers : resolved'[c] # resolved[c] =>
            call[c] # None /\ resolved'[c] \in AnswersTo(call[c].kind)
      /\ \A c \in Callers : resolved'[c] = None => resolved[c] = None
    BY <1>1, ResolveOne
<1>3. Responses' = Responses
    BY <1>1 DEF Responses
<1>4. IdInv'
    BY <1>1, <1>3 DEF IdInv
<1>5. CallInv' /\ WireInv'
    BY <1>1 DEF CallInv, WireInv, Calling
<1>6. InboxInv'
    BY <1>1, <1>2, <1>3 DEF InboxInv
<1>7. AnswerInv' /\ OwnInv'
    BY <1>1, <1>2 DEF AnswerInv, OwnInv
<1> QED BY <1>4, <1>5, <1>6, <1>7

-----------------------------------------------------------------------------
\* A step that keeps what the invariant of saves is about keeps it.
LEMMA SaveKept ==
    ASSUME SaveInv, UNCHANGED <<saved, uploads>>, stored \subseteq stored',
           others > 0 => others' > 0,
           \A d \in Dnas : /\ Calling(d)' => Calling(d)
                           /\ call'[d] # None => call'[d] = call[d]
                           /\ answered'[d] = "ok" => answered[d] = "ok" \/ d \in stored'
    PROVE  SaveInv'
BY DEF SaveInv

\* Every step keeps the invariant.
LEMMA InvStep == TypeOK /\ SessionInv /\ [Next]_vars => SessionInv'
<1> SUFFICES ASSUME TypeOK, SessionInv, [Next]_vars PROVE SessionInv'
    OBVIOUS
<1> USE DEF SessionInv
<1> DEFINE Quiet ==
        /\ UNCHANGED <<next_id, awaited, call, resolved, answered, others>>
        /\ wire' \subseteq wire
        /\ \A i \in Responses' : i \in Responses /\ inbox'[i] = inbox[i]
        /\ \A c \in Callers : Calling(c)' <=> Calling(c)
<1>1. Quiet => CallsInv'
    BY QuietInv
<1>2. Quiet /\ UNCHANGED <<saved, uploads, stored>> => SessionInv'
  <2> HAVE Quiet /\ UNCHANGED <<saved, uploads, stored>>
  <2> QED BY <1>1, SaveKept
<1>3. ASSUME NEW t \in Tasks, Plain(t) \/ Tunneled(t) PROVE SessionInv'
  <2>1. PICK kind \in Kinds : CallAs(t, kind)
        BY <1>3, TunnelsAssumption DEF Plain, Tunneled
  <2>2. /\ ~Calling(t) /\ inbox' = inbox /\ saved' = saved /\ uploads' = uploads
        /\ others' = others /\ stored' = stored
        BY <1>3, <2>1 DEF Plain, Tunneled, Calling, saves, CallAs
  <2>3. \A d \in Dnas : /\ call'[d] = call[d] /\ answered'[d] = answered[d]
                        /\ (Calling(d)' <=> Calling(d))
        BY <2>1 DEF CallAs, TypeOK, Calling
  <2>4. SaveInv'
        BY <2>2, <2>3, SaveKept
  <2> QED BY <2>1, <2>2, <2>4, CallAsInv
<1>4. ASSUME NEW d \in Dnas, ContentsRead(d) PROVE SessionInv'
  <2>1. /\ CallAs(d, "plain") /\ inbox' = inbox
        /\ saved[d] = "reading" /\ saved' = [saved EXCEPT ![d] = "calling"]
        /\ uploads' = [uploads EXCEPT ![d] = @ + 1]
        /\ stored' = stored /\ others' = others
        BY <1>4 DEF ContentsRead, CallAs
  <2>2. ~Calling(d) /\ uploads[d] = 0
        BY <2>1 DEF SaveInv, Calling
  <2>3. /\ saved'[d] = "calling" /\ uploads'[d] = 1 /\ call'[d].kind = "plain"
        /\ answered'[d] = None
        BY <2>1, <2>2 DEF CallAs, TypeOK
  <2>4. \A e \in Dnas : e # d =>
            /\ call'[e] = call[e] /\ answered'[e] = answered[e]
            /\ (Calling(e)' <=> Calling(e))
            /\ saved'[e] = saved[e] /\ uploads'[e] = uploads[e]
        BY <2>1 DEF CallAs, TypeOK, Calling
  <2>5. SaveInv'
        BY <2>1, <2>3, <2>4 DEF SaveInv
  <2> QED BY <2>1, <2>2, <2>5, CallAsInv
<1>5. ASSUME NEW t \in Tasks, SaveReturns(t) \/ CloseSession(t) PROVE SessionInv'
  <2>1. /\ UNCHANGED <<next_id, awaited, call, resolved, answered, others, wire, inbox>>
        /\ UNCHANGED <<saved, uploads, stored>>
        /\ \A c \in Callers : Calling(c)' <=> Calling(c)
        BY <1>5 DEF SaveReturns, CloseSession, calls, saves, TypeOK, Calling
  <2> QED BY <1>2, <2>1 DEF Responses
<1>6. ASSUME NEW t \in Tasks, NEW d \in Dnas, SaveDna(t, d) PROVE SessionInv'
  <2>1. /\ UNCHANGED <<next_id, awaited, call, resolved, answered, others, wire, inbox>>
        /\ UNCHANGED <<uploads, stored>>
        /\ \A c \in Callers : Calling(c)' <=> Calling(c)
        BY <1>6 DEF SaveDna, calls, TypeOK, Calling
  <2>2. \A e \in Dnas : \/ saved'[e] = saved[e]
                        \/ saved[e] = "none" /\ saved'[e] = "reading"
        BY <1>6 DEF SaveDna, Memoized, TypeOK
  <2>3. SaveInv'
        BY <2>1, <2>2 DEF SaveInv
  <2> QED BY <1>1, <2>1, <2>3 DEF Responses
<1>7. ASSUME NEW t \in Tasks, NEW p \in Ports, Subscribe(t, p) \/ Unsubscribe(t, p)
      PROVE SessionInv'
  <2>1. /\ UNCHANGED <<next_id, awaited, call, resolved, answered, others, wire, inbox, pc>>
        /\ UNCHANGED <<saved, uploads, stored>>
        BY <1>7 DEF Subscribe, Unsubscribe, calls, saves
  <2> QED BY <1>2, <2>1 DEF Responses, Calling
<1>8. ASSUME NEW d \in Dnas, ContentsFail(d) PROVE SessionInv'
  <2>1. /\ UNCHANGED <<next_id, awaited, call, resolved, answered, others, wire, inbox, pc>>
        /\ UNCHANGED <<uploads, stored>>
        /\ saved[d] = "reading" /\ saved' = [saved EXCEPT ![d] = "threw"]
        BY <1>8 DEF ContentsFail, calls
  <2>2. SaveInv'
        BY <2>1 DEF SaveInv, Calling, TypeOK
  <2> QED BY <1>1, <2>1, <2>2 DEF Responses, Calling
<1>9. ASSUME NEW c \in Callers, Sent(c) PROVE SessionInv'
  <2>1. /\ UNCHANGED <<next_id, awaited, call, resolved, answered, others, wire, inbox>>
        /\ UNCHANGED <<saved, uploads, stored>>
        /\ \A d \in Callers : Calling(d)' <=> Calling(d)
        BY <1>9 DEF Sent, calls, saves, TypeOK, Calling
  <2> QED BY <1>2, <2>1 DEF Responses
<1>10. ASSUME NEW c \in Callers, CallReturns(c) PROVE SessionInv'
  <2>1. /\ UNCHANGED <<others, stored, uploads>>
        /\ resolved[c] # None /\ Calling(c)
        /\ call'[c] = None /\ answered'[c] = None /\ ~Calling(c)'
        /\ \A d \in Callers : d # c =>
              /\ call'[d] = call[d] /\ answered'[d] = answered[d]
              /\ (Calling(d)' <=> Calling(d))
        BY <1>10 DEF CallReturns, TypeOK, Calling
  <2>2. \A d \in Dnas : d # c => saved'[d] = saved[d]
        BY <1>10 DEF CallReturns, TypeOK
  <2>3. c \in Dnas => saved'[c] = Decode(call[c].kind, resolved[c])
        BY <1>10 DEF CallReturns, TypeOK
  <2>4. c \in Dnas => /\ call[c].kind = "plain" /\ resolved[c] \in {"ok", "err"}
                      /\ uploads[c] <= 1
                      /\ resolved[c] = "ok" => c \in stored \/ others > 0
        BY <2>1 DEF CallsInv, AnswerInv, OwnInv, SaveInv, CallInv, TypeOK
  <2>5. SaveInv'
        BY <2>1, <2>2, <2>3, <2>4 DEF SaveInv, Decode
  <2> QED BY <1>10, <2>5, ReturnInv
<1>11. ASSUME NEW c \in Callers, Serve(c) PROVE SessionInv'
  <2>1. PICK m \in wire, a \in Answers :
            /\ answered' = IF call[c] = m THEN [answered EXCEPT ![c] = a] ELSE answered
            /\ stored' = IF c \in Dnas /\ a = "ok" THEN stored \cup {c} ELSE stored
            /\ UNCHANGED <<call, pc, saved, uploads, others>>
        BY <1>11 DEF Serve, saves
  <2>2. \A d \in Dnas : answered'[d] = "ok" => answered[d] = "ok" \/ d \in stored'
        BY <2>1 DEF TypeOK
  <2>3. SaveInv'
        BY <2>1, <2>2, SaveKept DEF Calling
  <2> QED BY <1>11, <2>3, ServeInv
<1>12. ASSUME NEW c \in Callers, Abandon(c) PROVE SessionInv'
  <2>1. /\ UNCHANGED <<next_id, awaited, call, resolved, answered, others, inbox, pc>>
        /\ UNCHANGED <<saved, uploads, stored>>
        /\ wire' \subseteq wire
        BY <1>12 DEF Abandon, saves
  <2> QED BY <1>2, <2>1 DEF Responses, Calling
<1>13. ASSUME NEW p \in Ports, EmitSignal(p) PROVE SessionInv'
  <2>1. /\ UNCHANGED <<next_id, awaited, call, resolved, answered, others, wire, pc>>
        /\ UNCHANGED <<saved, uploads, stored>>
        /\ inbox' = Append(inbox, [type |-> "signal", port |-> p])
        BY <1>13 DEF EmitSignal, calls, saves
  <2>2. \A i \in Responses' : i \in Responses /\ inbox'[i] = inbox[i]
        BY <2>1 DEF Responses, TypeOK
  <2> QED BY <1>2, <2>1, <2>2 DEF Calling
<1>14. CASE OnMessage
  <2>1. UNCHANGED <<call, answered, pc, saved, uploads, stored, others>>
        BY <1>14 DEF OnMessage, saves
  <2>2. SaveInv'
        BY <2>1, SaveKept DEF Calling
  <2> QED BY <1>14, <2>2, OnMessageInv
<1>15. CASE OnOtherResponse
  <2>1. /\ UNCHANGED <<call, answered, pc, saved, uploads, stored>>
        /\ others' = others + 1
        BY <1>15 DEF OnOtherResponse, saves
  <2>2. others > 0 => others' > 0
        BY <2>1 DEF TypeOK
  <2>3. SaveInv'
        BY <2>1, <2>2, SaveKept DEF Calling
  <2> QED BY <1>15, <2>3, OnOtherInv
<1>16. CASE CloseEvent \/ ConnectionLost
  <2>1. /\ UNCHANGED <<next_id, awaited, call, resolved, answered, others>>
        /\ UNCHANGED <<saved, uploads, stored>>
        /\ wire' = {} /\ inbox' = <<>>
        /\ \A c \in Callers : Calling(c)' <=> Calling(c)
        BY <1>16 DEF CloseEvent, ConnectionLost, Closed, saves, TypeOK, Calling
  <2> QED BY <1>2, <2>1 DEF Responses
<1>17. CASE UNCHANGED vars
  <2>1. /\ UNCHANGED <<next_id, awaited, call, resolved, answered, others, wire, inbox, pc>>
        /\ UNCHANGED <<saved, uploads, stored>>
        BY <1>17 DEF vars
  <2> QED BY <1>2, <2>1 DEF Responses, Calling
<1> QED BY <1>3, <1>4, <1>5, <1>6, <1>7, <1>8, <1>9, <1>10, <1>11, <1>12, <1>13, <1>14,
           <1>15, <1>16, <1>17 DEF Next

-----------------------------------------------------------------------------
\* They hold in every reachable state.
LEMMA Inductive == Spec => [](TypeOK /\ SessionInv)
<1>1. Init => TypeOK /\ SessionInv
    BY InitInv
<1>2. TypeOK /\ SessionInv /\ [Next]_vars => (TypeOK /\ SessionInv)'
    BY TypeStep, InvStep
<1> QED BY <1>1, <1>2, PTL DEF Spec

\* Every variable of a session keeps its type, for any number of tasks, DNAs and ports.
THEOREM TypeCorrect == Spec => []TypeOK
BY Inductive, PTL

\* A DNA is sent at most once, and its save returns only if the server stored it, unless
\* the answer to a call of another session came (saveDna, trycp.ts 141-146).
THEOREM SentOnce == Spec => []UploadOnce
<1>1. TypeOK /\ SessionInv => UploadOnce
    BY DEF SessionInv, SaveInv, UploadOnce
<1> QED BY <1>1, Inductive, PTL

-----------------------------------------------------------------------------
(* The refinement of Rpc *)

\* A step that neither starts, answers nor ends a call stutters in Rpc.
LEMMA Stutter ==
    ASSUME outcome' = outcome, others' = others,
           \A c \in Callers : (Calling(c)' <=> Calling(c)) /\ Given(c)' = Given(c)
    PROVE  UNCHANGED R!vars
BY DEF R!vars

\* The start of a call is Ask, whatever it is sent for.
LEMMA CallIsAsk ==
    ASSUME TypeOK, SessionInv, NEW c \in Callers, NEW kind \in Kinds, CallAs(c, kind),
           ~Calling(c)
    PROVE  R!Ask(c)
<1>1. /\ pc' = [pc EXCEPT ![c] = "sending"] /\ answered' = [answered EXCEPT ![c] = None]
      /\ resolved' = [resolved EXCEPT ![c] = None]
      /\ outcome' = outcome /\ others' = others
    BY DEF CallAs
<1>2. resolved[c] = None /\ answered[c] = None
    BY DEF SessionInv, CallsInv, CallInv, AnswerInv
<1>3. Calling(c)' /\ Given(c)' = None /\ Given(c) = None
    BY <1>1, <1>2 DEF Calling, Given, TypeOK
<1>4. \A d \in Callers : d # c => (Calling(d)' <=> Calling(d)) /\ Given(d)' = Given(d)
    BY <1>1 DEF Calling, Given, TypeOK
<1> QED BY <1>1, <1>3, <1>4 DEF R!Ask

\* The server's answer is Answer, unless the caller has another one or has gone on.
LEMMA ServeIsAnswer ==
    ASSUME TypeOK, SessionInv, NEW c \in Callers, Serve(c)
    PROVE  (\E a \in Answers : R!Answer(c, a)) \/ UNCHANGED R!vars
<1>1. PICK m \in wire, a \in Answers :
        /\ m.by = c
        /\ answered' = IF call[c] = m THEN [answered EXCEPT ![c] = a] ELSE answered
        /\ UNCHANGED <<pc, resolved, outcome, others>>
    BY DEF Serve
<1>2. \A d \in Callers : Calling(d)' <=> Calling(d)
    BY <1>1 DEF Calling
<1>3. CASE call[c] = m /\ resolved[c] = None
  <2>1. Calling(c) /\ answered[c] = None
        BY <1>1, <1>3 DEF SessionInv, CallsInv, CallInv, WireInv, TypeOK
  <2>2. /\ Given(c) = None /\ Given(c)' = a /\ a # None
        /\ \A d \in Callers : d # c => Given(d)' = Given(d)
        BY <1>1, <1>3, <2>1 DEF Given, TypeOK
  <2>3. R!Answer(c, a)
        BY <1>1, <1>2, <2>1, <2>2 DEF R!Answer, R!Give
  <2> QED BY <2>3
<1>4. CASE call[c] # m \/ resolved[c] # None
  <2>1. \A d \in Callers : Given(d)' = Given(d)
        BY <1>1, <1>4 DEF Given, TypeOK
  <2> QED BY <1>1, <1>2, <2>1, Stutter
<1> QED BY <1>3, <1>4

\* A response to a call of another session is given to one caller at most.
LEMMA OtherIsConfuse ==
    ASSUME TypeOK, SessionInv, OnOtherResponse
    PROVE  R!Stray \/ (\E c \in Callers, a \in Answers : R!Confuse(c, a))
<1> USE DEF SessionInv
<1>1. PICK message \in Incoming : Resolve(message)
    BY OtherIsIncoming DEF OnOtherResponse
<1>2. /\ others' = others + 1 /\ UNCHANGED <<pc, answered, outcome>>
      /\ \A d \in Callers : Calling(d)' <=> Calling(d)
    BY DEF OnOtherResponse, Calling
<1>3. \A c \in Callers : resolved'[c] # resolved[c] =>
        /\ resolved[c] = None /\ call[c] # None /\ call[c].id = message.id
        /\ resolved'[c] \in AnswersTo(call[c].kind)
    BY <1>1, ResolveOne
<1>4. CASE \E c \in Callers : resolved'[c] # resolved[c]
  <2>1. PICK c \in Callers : resolved'[c] # resolved[c]
        BY <1>4
  <2>2. \A d \in Callers : d # c => resolved'[d] = resolved[d]
        BY <1>3, <2>1 DEF CallsInv, IdInv
  <2>3. resolved'[c] \in Answers /\ resolved'[c] # None /\ Calling(c)
        BY <1>3, <2>1 DEF CallsInv, CallInv
  <2>4. /\ Given(c)' = resolved'[c]
        /\ \A d \in Callers : d # c => Given(d)' = Given(d)
        BY <1>2, <2>2, <2>3 DEF Given
  <2>5. R!Confuse(c, resolved'[c])
        BY <1>2, <2>3, <2>4 DEF R!Confuse, R!Give
  <2> QED BY <2>3, <2>5
<1>5. CASE \A c \in Callers : resolved'[c] = resolved[c]
  <2>1. \A c \in Callers : Given(c)' = Given(c)
        BY <1>2, <1>5 DEF Given
  <2> QED BY <1>2, <2>1 DEF R!Stray
<1> QED BY <1>4, <1>5

\* A message of the server tells nobody anything but the answer to his call.
LEMMA MessageIsNone ==
    ASSUME TypeOK, SessionInv, OnMessage
    PROVE  UNCHANGED R!vars
<1>1. UNCHANGED <<pc, answered, outcome, others>>
    BY DEF OnMessage
<1>2. \A c \in Callers : resolved'[c] # resolved[c] =>
        answered[c] = resolved'[c] /\ resolved[c] = None
  <2>1. Head(inbox) \in Incoming /\ Resolve(Head(inbox))
        BY HeadTailProperties DEF OnMessage, TypeOK
  <2> QED BY <2>1, HeadIsOwn, ResolveOne DEF SessionInv
<1>3. \A c \in Callers : (Calling(c)' <=> Calling(c)) /\ Given(c)' = Given(c)
    BY <1>1, <1>2 DEF Calling, Given
<1> QED BY <1>1, <1>3, Stutter

\* The end of a call is End: it ends with what it was given.
LEMMA ReturnIsEnd ==
    ASSUME TypeOK, SessionInv, NEW c \in Callers, CallReturns(c)
    PROVE  R!End(c)
<1>1. /\ pc[c] = "waiting" /\ resolved[c] # None /\ pc' = [pc EXCEPT ![c] = "idle"]
      /\ outcome' = Decode(call[c].kind, resolved[c])
      /\ answered' = [answered EXCEPT ![c] = None]
      /\ resolved' = [resolved EXCEPT ![c] = None]
      /\ others' = others
    BY DEF CallReturns
<1>2. call[c] # None /\ resolved[c] \in AnswersTo(call[c].kind)
    BY <1>1 DEF SessionInv, CallsInv, AnswerInv
<1>3. call[c] \in Messages
    BY <1>2 DEF TypeOK
<1>4. Decode(call[c].kind, resolved[c]) = IF resolved[c] = "ok" THEN "returned" ELSE "threw"
    BY <1>2, <1>3 DEF Decode, Messages
<1>5. /\ Calling(c) /\ ~Calling(c)'
      /\ Given(c) = resolved[c] /\ Given(c) # None /\ Given(c)' = None
      /\ \A d \in Callers : d # c => (Calling(d)' <=> Calling(d)) /\ Given(d)' = Given(d)
    BY <1>1 DEF Calling, Given, TypeOK
<1> QED BY <1>1, <1>4, <1>5 DEF R!End

\* Every step of a session is a step of Rpc, or none.
LEMMA RefineStep == TypeOK /\ SessionInv /\ [Next]_vars => [R!Next]_(R!vars)
<1> SUFFICES ASSUME TypeOK, SessionInv, [Next]_vars PROVE [R!Next]_(R!vars)
    OBVIOUS
<1>1. ASSUME NEW c \in Callers, NEW kind \in Kinds, CallAs(c, kind), ~Calling(c)
      PROVE  R!Next
    BY <1>1, CallIsAsk DEF R!Next
<1>2. ASSUME NEW t \in Tasks, Plain(t) \/ Tunneled(t) PROVE R!Next
  <2>1. (\E kind \in Kinds : CallAs(t, kind)) /\ ~Calling(t)
        BY <1>2, TunnelsAssumption DEF Plain, Tunneled, Calling
  <2> QED BY <1>1, <2>1
<1>3. ASSUME NEW d \in Dnas, ContentsRead(d) PROVE R!Next
  <2>1. ~Calling(d)
        BY <1>3 DEF ContentsRead, SessionInv, SaveInv
  <2> QED BY <1>1, <1>3, <2>1 DEF ContentsRead
<1>4. ASSUME NEW c \in Callers, Serve(c) PROVE [R!Next]_(R!vars)
    BY <1>4, ServeIsAnswer DEF R!Next
<1>5. ASSUME NEW c \in Callers, CallReturns(c) PROVE R!Next
    BY <1>5, ReturnIsEnd DEF R!Next
<1>6. ASSUME UNCHANGED <<answered, resolved, outcome, others>>,
             \A c \in Callers : Calling(c)' <=> Calling(c)
      PROVE  UNCHANGED R!vars
  <2>1. \A c \in Callers : Given(c)' = Given(c)
        BY <1>6 DEF Given
  <2> QED BY <1>6, <2>1, Stutter
<1>7. ASSUME NEW t \in Tasks, SaveReturns(t) \/ CloseSession(t) \/ (\E d \in Dnas : SaveDna(t, d))
      PROVE  UNCHANGED R!vars
  <2>1. UNCHANGED <<answered, resolved, outcome, others>>
        BY <1>7 DEF SaveReturns, CloseSession, SaveDna, calls
  <2>2. \A c \in Callers : Calling(c)' <=> Calling(c)
        BY <1>7 DEF SaveReturns, CloseSession, SaveDna, Calling, TypeOK
  <2> QED BY <1>6, <2>1, <2>2
<1>8. ASSUME NEW c \in Callers, Sent(c) PROVE UNCHANGED R!vars
  <2>1. UNCHANGED <<answered, resolved, outcome, others>>
        BY <1>8 DEF Sent, calls
  <2>2. \A d \in Callers : Calling(d)' <=> Calling(d)
        BY <1>8 DEF Sent, Calling, TypeOK
  <2> QED BY <1>6, <2>1, <2>2
<1>9. CASE CloseEvent \/ ConnectionLost
  <2>1. UNCHANGED <<answered, resolved, outcome, others>>
        BY <1>9 DEF CloseEvent, ConnectionLost, Closed
  <2>2. \A d \in Callers : Calling(d)' <=> Calling(d)
        BY <1>9 DEF CloseEvent, ConnectionLost, Closed, Calling, TypeOK
  <2> QED BY <1>6, <2>1, <2>2
<1>10. ASSUME UNCHANGED <<answered, resolved, outcome, others, pc>> PROVE UNCHANGED R!vars
  <2>1. \A d \in Callers : Calling(d)' <=> Calling(d)
        BY <1>10 DEF Calling
  <2> QED BY <1>6, <1>10, <2>1
<1>11. ASSUME NEW t \in Tasks, NEW p \in Ports, Subscribe(t, p) \/ Unsubscribe(t, p)
       PROVE  UNCHANGED R!vars
    BY <1>10, <1>11 DEF Subscribe, Unsubscribe, calls
<1>12. ASSUME NEW d \in Dnas, ContentsFail(d) PROVE UNCHANGED R!vars
    BY <1>10, <1>12 DEF ContentsFail, calls
<1>13. ASSUME NEW p \in Ports, EmitSignal(p) PROVE UNCHANGED R!vars
    BY <1>10, <1>13 DEF EmitSignal, calls
<1>14. ASSUME NEW c \in Callers, Abandon(c) PROVE UNCHANGED R!vars
    BY <1>10, <1>14 DEF Abandon
<1>15. CASE OnMessage
    BY <1>15, MessageIsNone
<1>16. CASE OnOtherResponse
    BY <1>16, OtherIsConfuse DEF R!Next
<1>17. CASE UNCHANGED vars
    BY <1>10, <1>17 DEF vars
<1> QED BY <1>2, <1>3, <1>4, <1>5, <1>7, <1>8, <1>9, <1>11, <1>12, <1>13, <1>14, <1>15,
           <1>16, <1>17 DEF Next

\* The session implements Rpc: ids never mix up the answers of concurrent calls
\* (responsesAwaited, call, makeCall, holochainInterfaceCall).
THEOREM Refinement == Spec => ImplementsRpc
<1>1. Init => R!Init
  <2> SUFFICES ASSUME Init PROVE R!Init
        OBVIOUS
  <2>1. \A c \in Callers : ~Calling(c) /\ Given(c) = None
        BY DEF Init, Calling, Given
  <2> QED BY <2>1 DEF Init, R!Init
<1>2. TypeOK /\ SessionInv /\ [Next]_vars => [R!Next]_(R!vars)
    BY RefineStep
<1> QED BY <1>1, <1>2, Inductive, PTL DEF Spec, ImplementsRpc, R!Spec
=============================================================================
