---------------------------- MODULE WitnessLedger ----------------------------
(***************************************************************************)
(* What the registry promises a consumer of qualified identity witnesses,  *)
(* without saying how: proofs are issued one at a time under a growing     *)
(* proof number, every operation advances the observation generation, a    *)
(* proof that is retired never comes back, and at any time the proofs that *)
(* stand partition their addresses by authority just as the groups do.     *)
(***************************************************************************)
EXTENDS Naturals

CONSTANTS
    Address,      \* bus addresses
    Authority,    \* qualified identities
    NoAuthority,  \* the authority of an address without a proof
    Group,        \* physical devices
    NoGroup       \* the group of an address that does not resolve

VARIABLES
    clock,   \* the observation generation
    issued,  \* the number of proofs issued
    group,   \* the device each address resolves to
    proof    \* the standing proof of each address

vars == <<clock, issued, group, proof>>

NoProof ==
    [authorityKey |-> NoAuthority,
     RegistryObservationGeneration |-> 0, RegistryProofGeneration |-> 0]

Proof(k, observation, number) ==
    [authorityKey |-> k,
     RegistryObservationGeneration |-> observation, RegistryProofGeneration |-> number]

Proved(p) == {a \in Address : p[a] # NoProof}

(* Same authority, same device; same device, same authority. *)
Consistent(g, p) ==
    \A a, b \in Proved(p) :
        /\ g[a] # NoGroup
        /\ p[a].authorityKey = p[b].authorityKey <=> g[a] = g[b]

Init ==
    /\ clock = 0
    /\ issued = 0
    /\ group = [a \in Address |-> NoGroup]
    /\ proof = [a \in Address |-> NoProof]

(* Devices are found, split or merged; some proofs may be retired. *)
Regroup ==
    /\ clock' = clock + 1
    /\ group' \in [Address -> Group \union {NoGroup}]
    /\ Consistent(group', proof')

Observe ==
    /\ Regroup
    /\ UNCHANGED issued
    /\ \E retired \in SUBSET Address :
          proof' = [a \in Address |-> IF a \in retired THEN NoProof ELSE proof[a]]

Prove(a, k) ==
    /\ Regroup
    /\ issued' = issued + 1
    /\ \E retired \in SUBSET Address :
          proof' = [b \in Address |->
                       CASE b = a -> Proof(k, clock + 1, issued + 1)
                         [] b # a /\ b \in retired -> NoProof
                         [] OTHER -> proof[b]]

Next == Observe \/ \E a \in Address, k \in Authority : Prove(a, k)

Spec == Init /\ [][Next]_vars
=============================================================================
