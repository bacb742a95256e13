------------------------------ MODULE LocalPorts ------------------------------
(***************************************************************************)
(* How the local players of a scenario get their admin port and their      *)
(* directory: the builder that api.ts makes of each player configuration,  *)
(* localConfigSeedArgs (config/args.ts), getPort with its mutex and its    *)
(* parked ports (config/get-port-cautiously.ts), and tempDir               *)
(* (config/common.ts).  players() starts all builders before it awaits the *)
(* first, so that they run concurrently.                                   *)
(*                                                                         *)
(* A Player is never told its admin port (_adminInterfacePort stays        *)
(* undefined), so that cleanup never unparks one: ports stay parked.       *)
(***************************************************************************)
EXTENDS Naturals, Sequences, Functions

CONSTANTS
    Batches,      \* the builders of each call of players(), in their order
    range_lo, range_hi,
    Ephemeral,    \* ports the system gives out when no port of the range is free; they
                  \* may lie in the range, as env.ts's 33000 to 34000 does on Linux
    MaxReleases,  \* bound on how often get-port forgets the ports it gave out
    None

Builders == UNION {Range(s) : s \in Batches}

ASSUME BatchesAssumption ==
    /\ Batches \subseteq Seq(Builders)
    /\ \A s \in Batches : IsInjective(s)
    /\ \A s, t \in Batches : s # t => Range(s) \cap Range(t) = {}
ASSUME RangeAssumption == range_lo \in Nat /\ range_hi \in Nat /\ range_lo < range_hi
ASSUME PortsAssumption == Ephemeral \subseteq Nat
ASSUME ReleasesAssumption == MaxReleases \in Nat
ASSUME NoneAssumption == None \notin Nat

VARIABLES
    pc,         \* what a builder awaits
    waiting,    \* portMutex: who waits for it, its holder first
    parked,     \* PARKED_PORTS
    next_port,  \* nextPort
    port,       \* adminInterfacePort of a builder, or None
    busy,       \* ports of the range that conductors or other processes are bound to
    locked,     \* get-port: the ports it gave out in the last seconds
    releases,   \* how often it forgot them
    base_made   \* the directory tempDirBase exists

vars == <<pc, waiting, parked, next_port, port, busy, locked, releases, base_made>>

Ports == (range_lo .. range_hi) \cup Ephemeral

\* tempDirBase is there from an earlier run, or is being made: the mkdir that the module
\* starts when it is loaded, as the one of every tempDir, is awaited by nobody.
Init ==
    /\ pc = [b \in Builders |-> "new"]
    /\ waiting = <<>>
    /\ parked = {}
    /\ next_port = range_lo
    /\ port = [b \in Builders |-> None]
    /\ busy \in SUBSET (range_lo .. range_hi)
    /\ locked = {}
    /\ releases = 0
    /\ base_made \in BOOLEAN

Goto(b, label) == pc' = [pc EXCEPT ![b] = label]

-----------------------------------------------------------------------------
(* getPort *)

\* players() calls its builders one after the other and awaits none of them yet: each
\* asks for the mutex.
Begin(batch) ==
    /\ \A b \in Range(batch) : pc[b] = "new"
    /\ waiting' = waiting \o batch
    /\ pc' = [b \in Builders |-> IF b \in Range(batch) THEN "port" ELSE pc[b]]
    /\ UNCHANGED <<parked, next_port, port, busy, locked, releases, base_made>>

\* What getPortRaw may answer: the first port from next_port on that nobody is bound to
\* and that it did not give out a moment ago, or else a port the system chooses.
Offered ==
    LET free == (next_port .. range_hi) \ (busy \cup locked)
    IN  IF free # {} THEN {p \in free : \A q \in free : p <= q} ELSE Ephemeral \ (busy \cup locked)

MutNoWrap == next_port + 1

\* nextPort after a round of the loop.
Advanced == IF next_port + 1 >= range_hi THEN range_lo ELSE next_port + 1

MutNotParked(p) == p \in Ports

\* The condition that ends the loop.
Accepted(p) == p \notin parked

MutMutexKept == waiting

\* The queue when the holder of the mutex releases it.
Released == Tail(waiting)

\* One round of the loop of the builder that holds the mutex.
TryPort(b) ==
    /\ waiting # <<>> /\ Head(waiting) = b
    /\ pc[b] = "port"
    /\ \E p \in Offered :
        /\ locked' = locked \cup {p}
        /\ next_port' = Advanced
        /\ IF Accepted(p)
           THEN /\ parked' = parked \cup {p}
                /\ port' = [port EXCEPT ![b] = p]
                /\ waiting' = Released
                /\ Goto(b, "dir")
           ELSE UNCHANGED <<parked, port, waiting, pc>>
    /\ UNCHANGED <<busy, releases, base_made>>

-----------------------------------------------------------------------------
(* The rest of a builder *)

\* tempDir, and then the seed is called with the port and the directory; what it gives is
\* written into the directory and the Player made. mkdtemp fails when tempDirBase is not
\* there yet, and the seed, which is the user's, may throw or set no environment_path:
\* the builder rejects, and its port stays parked.
DirMade(b) ==
    /\ pc[b] = "dir"
    /\ \/ base_made /\ Goto(b, "config")
       \/ ~base_made /\ Goto(b, "failed")
    /\ UNCHANGED <<waiting, parked, next_port, port, busy, locked, releases, base_made>>

Configured(b) ==
    /\ pc[b] = "config"
    /\ \E end \in {"built", "failed"} : Goto(b, end)
    /\ UNCHANGED <<waiting, parked, next_port, port, busy, locked, releases, base_made>>

-----------------------------------------------------------------------------
(* The machine *)

MkdirDone ==
    /\ ~base_made
    /\ base_made' = TRUE
    /\ UNCHANGED <<pc, waiting, parked, next_port, port, busy, locked, releases>>

\* A conductor, or a process that has nothing to do with the run, binds or gives back a
\* port of the range, a parked one or not.
BindOrFree(p) ==
    /\ busy' = (busy \cup {p}) \ (busy \cap {p})
    /\ UNCHANGED <<pc, waiting, parked, next_port, port, locked, releases, base_made>>

\* get-port forgets, by a timer, what it gave out.
ForgetLocked ==
    /\ releases < MaxReleases
    /\ locked # {}
    /\ \E kept \in SUBSET locked : kept # locked /\ locked' = kept
    /\ releases' = releases + 1
    /\ UNCHANGED <<pc, waiting, parked, next_port, port, busy, base_made>>

BuilderStep(b) == TryPort(b) \/ DirMade(b) \/ Configured(b)

Next ==
    \/ \E batch \in Batches : Begin(batch)
    \/ \E b \in Builders : BuilderStep(b)
    \/ \E p \in range_lo .. range_hi : BindOrFree(p)
    \/ MkdirDone
    \/ ForgetLocked

Spec == Init /\ [][Next]_vars

\* Node's event loop runs what is ready to run: an awaited answer of the system comes,
\* and the builder goes on. Nobody has to bind a port, or to call a builder.
FairSpec == Spec /\ \A b \in Builders : WF_vars(BuilderStep(b))

-----------------------------------------------------------------------------
(* Properties *)

TypeOK ==
    /\ pc \in [Builders -> {"new", "port", "dir", "config", "built", "failed"}]
    /\ waiting \in Seq(Builders)
    /\ parked \subseteq Ports
    /\ next_port \in range_lo .. (range_hi - 1)
    /\ port \in [Builders -> Ports \cup {None}]
    /\ busy \subseteq range_lo .. range_hi
    /\ locked \subseteq Ports
    /\ releases \in 0 .. MaxReleases
    /\ base_made \in BOOLEAN

\* No two local players get the same admin port, however long the first waits before its
\* conductor binds it: by then get-port has long forgotten that it gave the port out.
UniquePorts ==
    \A b, c \in Builders : b # c /\ port[b] # None => port[b] # port[c]

\* A builder that asks for a port gets one, also when all ports of the range are taken or
\* parked and although those that ask after it wait for the mutex it holds.
PortGiven ==
    \A b \in Builders : pc[b] = "port" ~> port[b] # None
=============================================================================
