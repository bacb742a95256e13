--------------------------------- MODULE Rpc ---------------------------------
(***************************************************************************)
(* What a session to a trycp server promises to those who call through it: *)
(* a caller asks, the server answers that request at most once, and the    *)
(* call ends with the answer the server gave to it: it returns when the    *)
(* server accepted the request and throws otherwise.  An answer to a call  *)
(* of another session that comes may be given to one caller instead.       *)
(***************************************************************************)
EXTENDS Naturals

CONSTANTS
    Callers,    \* whoever has at most one call under way
    Answers,    \* what the server can answer
    None

VARIABLES
    strays,     \* how many answers to calls of other sessions came
    status,     \* status[c]: "idle", "asked" or "answered"
    answer,     \* answer[c]: the answer given to the call c has under way, or None
    outcome     \* how the last call that ended did, or None

vars == <<strays, status, answer, outcome>>

Init ==
    /\ strays = 0
    /\ status = [c \in Callers |-> "idle"]
    /\ answer = [c \in Callers |-> None]
    /\ outcome = None

Ask(c) ==
    /\ status[c] = "idle"
    /\ status' = [status EXCEPT ![c] = "asked"]
    /\ UNCHANGED <<strays, answer, outcome>>

\* c is given the answer a.
Give(c, a) ==
    /\ status' = [status EXCEPT ![c] = "answered"]
    /\ answer' = [answer EXCEPT ![c] = a]
    /\ outcome' = outcome

Answer(c, a) == status[c] = "asked" /\ Give(c, a) /\ strays' = strays

\* The answer to a call of another session, with whom a port is shared, comes here: to c
\* if it has the id of its call, else to nobody.
Confuse(c, a) == status[c] # "idle" /\ Give(c, a) /\ strays' = strays + 1

Stray == strays' = strays + 1 /\ UNCHANGED <<status, answer, outcome>>

End(c) ==
    /\ status[c] = "answered"
    /\ status' = [status EXCEPT ![c] = "idle"]
    /\ outcome' = IF answer[c] = "ok" THEN "returned" ELSE "threw"
    /\ answer' = [answer EXCEPT ![c] = None]
    /\ UNCHANGED strays

Next ==
    \/ Stray
    \/ \E c \in Callers :
        \/ Ask(c)
        \/ \E a \in Answers : Answer(c, a) \/ Confuse(c, a)
        \/ End(c)

Spec == Init /\ [][Next]_vars
=============================================================================
