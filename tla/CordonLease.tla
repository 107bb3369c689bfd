---------------------------- MODULE CordonLease ----------------------------
(***************************************************************************)
(* What the consolidation pass promises about the nodes it takes out of    *)
(* service, without runs, API calls or pods: a cordon of the tool is a     *)
(* lease on a node.  A pool has at most one lease, the tool ends a lease   *)
(* no sooner than TTL, and a lease the tool ended bars the whole pool from *)
(* new leases for Cooldown.                                                *)
(***************************************************************************)
EXTENDS Integers

CONSTANTS Nodes, PoolOf, TTL, Cooldown, MaxLag

VARIABLES
  state,   \* what holds each node; "held": cordoned by somebody else
  age,     \* how long the lease has run, up to TTL + MaxLag
  rest     \* ticks since the tool last ended a lease here, up to the top

leaseVars == <<state, age, rest>>

States == {"open", "leased", "held", "gone"}
AgeTop  == TTL + MaxLag
RestTop == Cooldown + MaxLag

LeaseInit ==
  /\ state = [n \in Nodes |-> "open"]
  /\ age = [n \in Nodes |-> 0]
  /\ rest = [n \in Nodes |-> RestTop]

Peers(n) == {m \in Nodes : PoolOf[m] = PoolOf[n] /\ state[m] # "gone"}

\* A node is leased only when its whole pool is free of leases and rested.
\* A lease may start up to MaxLag old: its clock was read before it.
Grant(n) ==
  /\ state[n] = "open"
  /\ \A m \in Peers(n) : state[m] # "leased" /\ rest[m] >= Cooldown
  /\ state' = [state EXCEPT ![n] = "leased"]
  /\ \E a \in 0..MaxLag : age' = [age EXCEPT ![n] = a]
  /\ rest' = [rest EXCEPT ![n] = RestTop]

Rests(n) == \E a \in 0..MaxLag : rest' = [rest EXCEPT ![n] = a]

\* The tool ends a lease that ran for TTL, and none when TTL is zero.
Expire(n) ==
  /\ state[n] = "leased"
  /\ TTL > 0 /\ age[n] >= TTL
  /\ state' = [state EXCEPT ![n] = "open"]
  /\ age' = [age EXCEPT ![n] = 0]
  /\ Rests(n)

\* The tool tidies up after a lease somebody else ended.  The node is left
\* as it is, or opened when it has been cordoned again meanwhile.
Tidy(n) ==
  /\ state[n] \in {"open", "held"}
  /\ state' \in {state, [state EXCEPT ![n] = "open"]}
  /\ Rests(n)
  /\ UNCHANGED age

\* Somebody else changes a node.  That never starts a lease, and it leaves
\* the pool's rest alone.
Foreign(n) ==
  /\ \E s \in States \ {"leased"} :
       /\ state' = [state EXCEPT ![n] = s]
       /\ rest' = [rest EXCEPT ![n] = IF s = "gone" THEN RestTop ELSE @]
  /\ age' = [age EXCEPT ![n] = 0]

\* A lease whose start can no longer be read is overdue.
Overdue(n) ==
  /\ state[n] = "leased"
  /\ age' = [age EXCEPT ![n] = AgeTop]
  /\ UNCHANGED <<state, rest>>

Later(a, top) == IF a < top THEN a + 1 ELSE top

TimePasses ==
  /\ age' = [n \in Nodes |-> IF state[n] = "leased" THEN Later(age[n], AgeTop) ELSE 0]
  /\ rest' = [n \in Nodes |-> Later(rest[n], RestTop)]
  /\ UNCHANGED state

LeaseNext ==
  \/ TimePasses
  \/ \E n \in Nodes : Grant(n) \/ Expire(n) \/ Tidy(n) \/ Foreign(n) \/ Overdue(n)

LeaseSpec == LeaseInit /\ [][LeaseNext]_leaseVars
=============================================================================
