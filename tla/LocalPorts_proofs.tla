-------------------------- MODULE LocalPorts_proofs --------------------------
(***************************************************************************)
(* Proofs about LocalPorts: types, and that no two builders are given the  *)
(* same port, for any number of players, any range of ports and however    *)
(* often get-port forgets.                                                 *)
(*                                                                         *)
(* A port that was given is parked (Parked), and one that is parked is     *)
(* never given: that, and that nothing unparks a port, is all it takes.    *)
(* get-port's own memory is not needed.                                    *)
(***************************************************************************)
EXTENDS LocalPorts, SequenceTheorems, TLAPS

Parked == \A b \in Builders : port[b] # None => port[b] \in parked

PortsInv == Parked /\ UniquePorts

USE RangeAssumption, PortsAssumption, NoneAssumption

-----------------------------------------------------------------------------
\* What getPortRaw offers is a port.
LEMMA OfferedArePorts == next_port \in range_lo .. (range_hi - 1) => Offered \subseteq Ports
<1> SUFFICES ASSUME next_port \in range_lo .. (range_hi - 1), NEW p \in Offered
             PROVE  p \in Ports
    OBVIOUS
<1> DEFINE free == (next_port .. range_hi) \ (busy \cup locked)
<1>1. CASE free = {}
    BY <1>1 DEF Offered, Ports
<1>2. CASE free # {}
  <2>1. p \in free
        BY <1>2 DEF Offered
  <2> QED BY <2>1 DEF Ports
<1> QED BY <1>1, <1>2

\* The invariant holds when the module is loaded.
LEMMA InitInv == Init => TypeOK /\ PortsInv
<1> SUFFICES ASSUME Init PROVE TypeOK /\ PortsInv
    OBVIOUS
<1>1. waiting \in Seq(Builders)
    BY DEF Init
<1>2. 0 \in 0 .. MaxReleases
    BY ReleasesAssumption
<1> QED BY <1>1, <1>2 DEF Init, TypeOK, PortsInv, Parked, UniquePorts

\* Trying a port keeps the types and the places of the ports.
LEMMA TryPortStep ==
    ASSUME TypeOK, PortsInv, NEW b \in Builders, TryPort(b)
    PROVE  TypeOK' /\ PortsInv'
<1> USE DEF TypeOK
<1>1. PICK p \in Offered :
        /\ locked' = locked \cup {p}
        /\ next_port' = Advanced
        /\ IF Accepted(p)
           THEN /\ parked' = parked \cup {p}
                /\ port' = [port EXCEPT ![b] = p]
                /\ waiting' = Released
                /\ pc' = [pc EXCEPT ![b] = "dir"]
           ELSE UNCHANGED <<parked, port, waiting, pc>>
    BY DEF TryPort, Goto
<1>2. p \in Ports /\ p # None
  <2>1. p \in Ports
        BY OfferedArePorts
  <2>2. Ports \subseteq Nat
        BY DEF Ports
  <2> QED BY <2>1, <2>2
<1>3. Advanced \in range_lo .. (range_hi - 1)
    BY DEF Advanced
<1>4. waiting # <<>> /\ Tail(waiting) \in Seq(Builders)
    BY HeadTailProperties DEF TryPort
<1>5. CASE Accepted(p)
  <2>1. TypeOK'
        BY <1>1, <1>2, <1>3, <1>4, <1>5 DEF TryPort, Released
  <2>2. \A c \in Builders : port[c] # p
        BY <1>2, <1>5 DEF PortsInv, Parked, Accepted
  <2>3. Parked'
        BY <1>1, <1>5 DEF PortsInv, Parked
  <2>4. UniquePorts'
        BY <1>1, <1>2, <1>5, <2>2 DEF PortsInv, UniquePorts
  <2> QED BY <2>1, <2>3, <2>4 DEF PortsInv
<1>6. CASE ~Accepted(p)
  <2>1. TypeOK'
        BY <1>1, <1>2, <1>3, <1>6 DEF TryPort
  <2> QED BY <1>1, <1>6, <2>1 DEF PortsInv, Parked, UniquePorts
<1> QED BY <1>5, <1>6

\* Every step keeps them.
LEMMA InvStep == TypeOK /\ PortsInv /\ [Next]_vars => TypeOK' /\ PortsInv'
<1> SUFFICES ASSUME TypeOK, PortsInv, [Next]_vars PROVE TypeOK' /\ PortsInv'
    OBVIOUS
<1>1. UNCHANGED <<parked, port>> => PortsInv'
    BY DEF PortsInv, Parked, UniquePorts
<1>2. ASSUME NEW batch \in Batches, Begin(batch) PROVE TypeOK' /\ PortsInv'
  <2>1. batch \in Seq(Builders) /\ waiting' \in Seq(Builders)
        BY <1>2, BatchesAssumption, ConcatProperties DEF Begin, TypeOK
  <2>2. pc' \in [Builders -> {"new", "port", "dir", "config", "built", "failed"}]
        BY <1>2 DEF Begin, TypeOK
  <2> QED BY <1>1, <1>2, <2>1, <2>2 DEF Begin, TypeOK
<1>3. ASSUME NEW b \in Builders, DirMade(b) \/ Configured(b) PROVE TypeOK' /\ PortsInv'
    BY <1>1, <1>3 DEF DirMade, Configured, Goto, TypeOK
<1>4. ASSUME NEW p \in range_lo .. range_hi, BindOrFree(p) PROVE TypeOK' /\ PortsInv'
    BY <1>1, <1>4 DEF BindOrFree, TypeOK
<1>5. CASE MkdirDone
    BY <1>1, <1>5 DEF MkdirDone, TypeOK
<1>6. CASE ForgetLocked
  <2>1. locked' \subseteq locked /\ releases' = releases + 1 /\ releases < MaxReleases
        BY <1>6 DEF ForgetLocked
  <2>2. releases' \in 0 .. MaxReleases
        BY <2>1, ReleasesAssumption DEF TypeOK
  <2> QED BY <1>1, <1>6, <2>1, <2>2 DEF ForgetLocked, TypeOK
<1>7. CASE UNCHANGED vars
    BY <1>1, <1>7 DEF vars, TypeOK
<1> QED BY <1>2, <1>3, <1>4, <1>5, <1>6, <1>7, TryPortStep DEF Next, BuilderStep

\* They hold in every reachable state.
LEMMA Inductive == Spec => [](TypeOK /\ PortsInv)
<1> QED BY InitInv, InvStep, PTL DEF Spec

\* The variables keep their types; in particular nextPort stays in the range.
THEOREM TypeCorrect == Spec => []TypeOK
BY Inductive, PTL

\* No two local players are given the same admin port (getPort of
\* get-port-cautiously.ts), whatever get-port remembers.
THEOREM PortsDiffer == Spec => []UniquePorts
<1>1. PortsInv => UniquePorts
    BY DEF PortsInv
<1> QED BY <1>1, Inductive, PTL
=============================================================================
