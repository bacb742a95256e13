---------------------------- MODULE TrycpSession ----------------------------
(***************************************************************************)
(* The client side of one connection to a trycp server: the object that    *)
(* trycpSession (trycp.ts) returns, once its websocket is open.  Tasks are *)
(* the asynchronous functions of a test that use it.  A task makes a call  *)
(* that the server handles itself ("plain", makeCall) or passes on to an   *)
(* interface of a conductor ("admin", "app", holochainInterfaceCall),      *)
(* saves a DNA, subscribes to the signals of a port, or closes the         *)
(* session.  The promise that savedDnas keeps for a DNA makes a call of    *)
(* its own, so that DNAs are callers too.                                  *)
(*                                                                         *)
(* Of the server (main.rs, app_interface.rs) the module has what it sends  *)
(* to the session.  It answers a call to an app interface only while the   *)
(* connection to that interface lasts, and sends the answer to the session *)
(* that opened the connection: when sessions share a port, one may get the *)
(* answers to the calls of another, whose ids count from 0 as its own do.  *)
(***************************************************************************)
EXTENDS Naturals, Sequences

CONSTANTS
    Tasks, Dnas, Ports,
    Tunnels,    \* the interfaces of conductors that tasks call: "admin", "app" or both
    MaxCalls,   \* bound: tasks start a call only below this id
    MaxInbox,   \* bound: the server sends what was not asked for only below this many
                \* unread messages
    MaxOthers,  \* bound: the responses to calls of other sessions that are read
    OtherAnswers,   \* what these answer: "ok", "call_error" or both
    None

ASSUME BoundsAssumption == MaxCalls \in Nat /\ MaxInbox \in Nat /\ MaxOthers \in Nat
ASSUME OtherAnswersAssumption == OtherAnswers \subseteq {"ok", "call_error"}
ASSUME TunnelsAssumption == Tunnels \subseteq {"admin", "app"}
ASSUME DisjointAssumption == Tasks \cap Dnas = {}

Callers == Tasks \cup Dnas
Answers == {"ok", "err", "call_error"}
Kinds   == {"plain", "admin", "app"}

VARIABLES
    ready_state,    \* of the websocket: "open", "closing" or "closed"
    next_id,        \* nextId
    awaited,        \* responsesAwaited: whose promise the response with an id resolves; an
                    \* entry whose promise is resolved has no effect and is left out
    pc,             \* what each caller awaits
    call,           \* the message [id, by, kind] of its call, or None
    resolved,       \* the response its promise was resolved with, or None
    outcome,        \* how the last call that ended did, or None
    saved,          \* savedDnas: "none", "reading", "calling", "returned" or "threw"
    saving,         \* the DNA a task waits for, or None
    subscriptions,  \* the ports in signalSubscriptions
    wire,           \* requests on their way to the server or being handled
    inbox,          \* messages of the server on their way to the client
    answered,       \* history: the server's answer to the current call, or None
    abandoned,      \* history: the callers whose current call is never answered
    others,         \* history: how many responses to calls of other sessions came
    stored,         \* history: the DNAs the server said it stored
    uploads         \* history: how often a DNA was sent

vars == <<ready_state, next_id, awaited, pc, call, resolved, outcome, saved, saving,
          subscriptions, wire, inbox, answered, abandoned, others, stored, uploads>>

calls == <<next_id, awaited, call, resolved, answered, abandoned, others, stored,
           wire>>
saves == <<saved, saving, uploads>>

Messages == [id : Nat, by : Callers, kind : Kinds]
Incoming == [type : {"response"}, id : Nat, reply : Answers]
            \cup [type : {"signal"}, port : Ports]

ASSUME NoneAssumption == None \notin Answers \cup Messages

\* A response of the server is {0: value} or {1: error}; the value of a tunneled call
\* may be an error of the conductor.  makeCall and holochainInterfaceCall look at both.
AnswersTo(kind) == IF kind = "plain" THEN {"ok", "err"} ELSE Answers

Init ==
    /\ ready_state = "open"
    /\ next_id = 0
    /\ awaited = {}
    /\ pc = [c \in Callers |-> "idle"]
    /\ call = [c \in Callers |-> None]
    /\ resolved = [c \in Callers |-> None]
    /\ outcome = None
    /\ saved = [d \in Dnas |-> "none"]
    /\ saving = [t \in Tasks |-> None]
    /\ subscriptions = {}
    /\ wire = {}
    /\ inbox = <<>>
    /\ answered = [c \in Callers |-> None]
    /\ abandoned = {}
    /\ others = 0
    /\ stored = {}
    /\ uploads = [d \in Dnas |-> 0]

-----------------------------------------------------------------------------
\* call: everything up to the first await runs at once.  A send on a websocket that
\* is not open only reports an error to the callback, which call ignores.

MutIdKept == next_id
FreshId == next_id + 1

CallAs(c, kind) ==
    LET message == [id |-> next_id, by |-> c, kind |-> kind]
    IN  /\ next_id' = FreshId
        /\ awaited' = {a \in awaited : a.id # next_id} \cup {[id |-> next_id, by |-> c]}
        /\ call' = [call EXCEPT ![c] = message]
        /\ resolved' = [resolved EXCEPT ![c] = None]
        /\ answered' = [answered EXCEPT ![c] = None]
        /\ abandoned' = abandoned \ {c}
        /\ UNCHANGED <<outcome, others, stored>>
        /\ wire' = IF ready_state = "open" THEN wire \cup {message} ELSE wire
        /\ pc' = [pc EXCEPT ![c] = "sending"]

Plain(t) ==
    /\ pc[t] = "idle" /\ next_id < MaxCalls
    /\ CallAs(t, "plain")
    /\ UNCHANGED <<ready_state, saves, subscriptions, inbox>>

Tunneled(t) ==
    /\ pc[t] = "idle" /\ next_id < MaxCalls
    /\ \E kind \in Tunnels : CallAs(t, kind)
    /\ UNCHANGED <<ready_state, saves, subscriptions, inbox>>

\* The callback of ws.send, with an error or without.
Sent(c) ==
    /\ pc[c] = "sending"
    /\ pc' = [pc EXCEPT ![c] = "waiting"]
    /\ UNCHANGED <<ready_state, calls, outcome, saves, subscriptions, inbox>>

MutRawResult(kind, reply) == reply
Decode(kind, reply) ==
    IF reply = "err" \/ (kind # "plain" /\ reply = "call_error") THEN "threw" ELSE "returned"

\* The promise of the response is resolved and the call goes on.
CallReturns(c) ==
    /\ pc[c] = "waiting" /\ resolved[c] # None
    /\ pc' = [pc EXCEPT ![c] = "idle"]
    /\ outcome' = Decode(call[c].kind, resolved[c])
    /\ saved' = IF c \in Dnas THEN [saved EXCEPT ![c] = outcome'] ELSE saved
    /\ awaited' = {a \in awaited : a.by # c}
    /\ call' = [call EXCEPT ![c] = None]
    /\ resolved' = [resolved EXCEPT ![c] = None]
    /\ answered' = [answered EXCEPT ![c] = None]
    /\ abandoned' = abandoned \ {c}
    /\ UNCHANGED <<ready_state, next_id, wire, others, stored, saving, uploads,
                   subscriptions, inbox>>

-----------------------------------------------------------------------------
\* saveDna: the first task to save a DNA starts its promise, all await it.

MutOnlyWhenSettled(d) == saved[d] \in {"returned", "threw"}
Memoized(d) == saved[d] # "none"

SaveDna(t, d) ==
    /\ pc[t] = "idle"
    /\ saved' = IF Memoized(d) THEN saved ELSE [saved EXCEPT ![d] = "reading"]
    /\ saving' = [saving EXCEPT ![t] = d]
    /\ pc' = [pc EXCEPT ![t] = "saving"]
    /\ UNCHANGED <<ready_state, calls, outcome, uploads, subscriptions, inbox>>

\* contents() has read the file; the rest of the promise is a call of its own.
ContentsRead(d) ==
    /\ saved[d] = "reading"
    /\ CallAs(d, "plain")
    /\ saved' = [saved EXCEPT ![d] = "calling"]
    /\ uploads' = [uploads EXCEPT ![d] = @ + 1]
    /\ UNCHANGED <<ready_state, saving, subscriptions, inbox>>

ContentsFail(d) ==
    /\ saved[d] = "reading"
    /\ saved' = [saved EXCEPT ![d] = "threw"]
    /\ UNCHANGED <<ready_state, calls, pc, outcome, saving, uploads, subscriptions, inbox>>

SaveReturns(t) ==
    /\ pc[t] = "saving" /\ saved[saving[t]] \in {"returned", "threw"}
    /\ pc' = [pc EXCEPT ![t] = "idle"]
    /\ saving' = [saving EXCEPT ![t] = None]
    /\ UNCHANGED <<ready_state, calls, outcome, saved, uploads, subscriptions, inbox>>

-----------------------------------------------------------------------------
Subscribe(t, p) ==
    /\ pc[t] = "idle"
    /\ subscriptions' = subscriptions \cup {p}
    /\ UNCHANGED <<ready_state, calls, pc, outcome, saves, inbox>>

Unsubscribe(t, p) ==
    /\ pc[t] = "idle"
    /\ subscriptions' = subscriptions \ {p}
    /\ UNCHANGED <<ready_state, calls, pc, outcome, saves, inbox>>

\* A response resolves the promise that is awaited for its id.  A signal for a port
\* without a subscription throws inside the handler, which catches it: the message is
\* dropped and the next one is handled all the same.
MutUncaught ==
    IF Head(inbox).type = "signal" /\ Head(inbox).port \notin subscriptions
    THEN inbox ELSE Tail(inbox)
Unread == Tail(inbox)

\* What a caller makes of a response: only a tunneled call looks into the value.
Seen(kind, reply) == IF kind = "plain" /\ reply = "call_error" THEN "ok" ELSE reply

Resolve(message) ==
    resolved' = [c \in Callers |->
        IF /\ message.type = "response" /\ resolved[c] = None
           /\ [id |-> message.id, by |-> c] \in awaited
        THEN Seen(call[c].kind, message.reply) ELSE resolved[c]]

OnMessage ==
    /\ inbox # <<>> /\ ready_state # "closed"
    /\ Resolve(Head(inbox))
    /\ inbox' = Unread
    /\ UNCHANGED <<ready_state, next_id, awaited, pc, call, outcome, saves, subscriptions,
                   wire, answered, abandoned, others, stored>>

\* What the conductor answers to a call of another session, on a connection that this
\* session opened.  Nothing of this session tells when it was sent: it has a step only
\* where it is read.
OnOtherResponse ==
    /\ others < MaxOthers /\ ready_state # "closed"
    /\ others' = others + 1
    /\ \E id \in 0 .. MaxCalls, a \in OtherAnswers :
          Resolve([type |-> "response", id |-> id, reply |-> a])
    /\ UNCHANGED <<ready_state, next_id, awaited, pc, call, outcome, saves, subscriptions,
                   inbox, wire, answered, abandoned, stored>>

-----------------------------------------------------------------------------
\* closeSession listens for the close event and waits for it, unless the websocket is
\* closed already: the event does not come a second time.
MutAlwaysAwaited == TRUE
CloseAwaited == ready_state # "closed"

CloseSession(t) ==
    /\ pc[t] = "idle"
    /\ ready_state' = IF ready_state = "open" THEN "closing" ELSE ready_state
    /\ pc' = IF CloseAwaited THEN [pc EXCEPT ![t] = "closing"] ELSE pc
    /\ UNCHANGED <<calls, outcome, saves, subscriptions, inbox>>

\* The close event, after closeSession or because the server or the network went away:
\* whatever is unread or unanswered is lost.
Closed ==
    /\ ready_state' = "closed"
    /\ pc' = [c \in Callers |-> IF pc[c] = "closing" THEN "idle" ELSE pc[c]]
    /\ inbox' = <<>>
    /\ wire' = {}
    /\ UNCHANGED <<next_id, awaited, call, resolved, answered, abandoned, others,
                   stored, outcome, saves, subscriptions>>

CloseEvent == ready_state = "closing" /\ Closed
ConnectionLost == ready_state = "open" /\ Closed

-----------------------------------------------------------------------------
\* The server answers a request of the session, once.
Serve(c) ==
    \E m \in wire, a \in Answers :
        /\ m.by = c
        /\ a \in AnswersTo(m.kind)
        /\ wire' = wire \ {m}
        /\ inbox' = Append(inbox, [type |-> "response", id |-> m.id, reply |-> a])
        /\ answered' = IF call[c] = m THEN [answered EXCEPT ![c] = a] ELSE answered
        /\ stored' = IF c \in Dnas /\ a = "ok" THEN stored \cup {c} ELSE stored
        /\ UNCHANGED <<ready_state, next_id, awaited, pc, call, resolved, outcome,
                       saves, subscriptions, abandoned, others>>

\* The connection to the app interface ends before the answer, or another session opened
\* it and gets the answer: the server sends this session nothing.
Abandon(c) ==
    \E m \in wire :
        /\ m.by = c /\ m.kind = "app"
        /\ wire' = wire \ {m}
        /\ abandoned' = IF call[c] = m THEN abandoned \cup {c} ELSE abandoned
        /\ UNCHANGED <<ready_state, next_id, awaited, pc, call, resolved, outcome,
                       saves, subscriptions, inbox, answered, others, stored>>

EmitSignal(p) ==
    /\ ready_state # "closed" /\ Len(inbox) < MaxInbox
    /\ inbox' = Append(inbox, [type |-> "signal", port |-> p])
    /\ UNCHANGED <<ready_state, calls, pc, outcome, saves, subscriptions>>

-----------------------------------------------------------------------------
Next ==
    \/ \E t \in Tasks :
        \/ Plain(t) \/ Tunneled(t) \/ SaveReturns(t) \/ CloseSession(t)
        \/ \E d \in Dnas : SaveDna(t, d)
        \/ \E p \in Ports : Subscribe(t, p) \/ Unsubscribe(t, p)
    \/ \E d \in Dnas : ContentsRead(d) \/ ContentsFail(d)
    \/ \E c \in Callers : Sent(c) \/ CallReturns(c) \/ Serve(c) \/ Abandon(c)
    \/ \E p \in Ports : EmitSignal(p)
    \/ OnMessage \/ OnOtherResponse \/ CloseEvent \/ ConnectionLost

\* The step that c awaits: at any time there is at most one.
Continues(c) ==
    \/ Sent(c) \/ CallReturns(c)
    \/ c \in Tasks /\ SaveReturns(c)
    \/ c \in Dnas /\ (ContentsRead(c) \/ ContentsFail(c))

\* Node runs every callback that is due; a websocket that is closing closes, at the
\* latest when the library's close timeout ends; the server handles one request after the
\* other, and conductors answer or end: what is not abandoned is answered.
Fairness ==
    /\ \A c \in Callers : WF_vars(Continues(c))
    /\ WF_vars(\E c \in Callers : Serve(c))
    /\ WF_vars(OnMessage)
    /\ WF_vars(CloseEvent)

Spec == Init /\ [][Next]_vars

FairSpec == Spec /\ Fairness

-----------------------------------------------------------------------------
\* Every variable keeps its type: in particular a call of trycpSession (trycp.ts 82-134)
\* ends in nothing but a return or a throw, and its id is that of the message it sent.
TypeOK ==
    /\ ready_state \in {"open", "closing", "closed"}
    /\ next_id \in Nat
    /\ awaited \in SUBSET [id : Nat, by : Callers]
    /\ pc \in [Callers -> {"idle", "sending", "waiting", "saving", "closing"}]
    /\ call \in [Callers -> Messages \cup {None}]
    /\ resolved \in [Callers -> Answers \cup {None}]
    /\ outcome \in {"returned", "threw", None}
    /\ saved \in [Dnas -> {"none", "reading", "calling", "returned", "threw"}]
    /\ saving \in [Tasks -> Dnas \cup {None}]
    /\ subscriptions \in SUBSET Ports
    /\ wire \in SUBSET Messages
    /\ inbox \in Seq(Incoming)
    /\ answered \in [Callers -> Answers \cup {None}]
    /\ abandoned \subseteq Callers
    /\ others \in Nat
    /\ stored \subseteq Dnas
    /\ uploads \in [Dnas -> Nat]

Calling(c) == pc[c] \in {"sending", "waiting"}

\* The session implements Rpc: whatever the order of the answers, however many calls
\* share the websocket and whenever it closes, a call ends once, with the server's answer
\* to that very call; only an answer to a call of another session that comes here, and
\* has its id, replaces that, and no such answer does so to two calls; and a call returns
\* only if both the server and the conductor accepted what was answered
\* (responsesAwaited, call, makeCall, holochainInterfaceCall).
Given(c) == IF resolved[c] # None THEN resolved[c] ELSE answered[c]

R == INSTANCE Rpc WITH
        strays <- others,
        status <- [c \in Callers |-> IF ~Calling(c) THEN "idle"
                                     ELSE IF Given(c) = None THEN "asked" ELSE "answered"],
        answer <- [c \in Callers |-> Given(c)]

ImplementsRpc == R!Spec

\* A session sends a DNA to the server at most once, however many players save it and
\* however their saves overlap with the reading of the file; and the save that all of
\* them await returns only if the server stored the DNA, unless the answer to a call of
\* another session came (saveDna, trycp.ts 141-146).
UploadOnce ==
    \A d \in Dnas :
        /\ uploads[d] <= 1
        /\ saved[d] = "returned" => d \in stored \/ others > 0

\* While its websocket stays open every call ends, unless the server abandons it: a
\* signal nobody subscribed to, which throws in the message handler, does not keep the
\* responses behind it from their callers, and a response that comes before the callback
\* of ws.send is not lost.
EveryCallReturns ==
    \A c \in Callers :
        Calling(c) ~> (~Calling(c) \/ ready_state # "open" \/ c \in abandoned)

\* closeSession always resolves: also when the server closed the websocket before,
\* while it was closing, or when several tasks close it (trycp.ts 170-176).
CloseSessionReturns ==
    (\E t \in Tasks : pc[t] = "closing") ~> (\A t \in Tasks : pc[t] # "closing")
=============================================================================
