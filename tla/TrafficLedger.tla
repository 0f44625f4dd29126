---------------------------- MODULE TrafficLedger ----------------------------
(***************************************************************************)
(* What a collector in delta mode promises about the bytes of each group:  *)
(* once collected, a byte waits; from there it goes to a client, in one    *)
(* response with everything else that waits, or it is lost; and it never   *)
(* comes back.                                                             *)
(***************************************************************************)
EXTENDS Integers

CONSTANT Groups

VARIABLES
    collected,  \* bytes ever collected
    pending,    \* bytes that wait to be sent
    received,   \* bytes a client has received
    lost        \* bytes no client will receive

ledger == <<collected, pending, received, lost>>

Init ==
    /\ collected = [g \in Groups |-> 0]
    /\ pending = [g \in Groups |-> 0]
    /\ received = [g \in Groups |-> 0]
    /\ lost = [g \in Groups |-> 0]

\* Some number of bytes is collected for one group.
Collect(g) ==
    /\ collected'[g] >= collected[g]
    /\ collected' = [collected EXCEPT ![g] = collected'[g]]
    /\ pending' = [pending EXCEPT ![g] = @ + (collected'[g] - collected[g])]
    /\ UNCHANGED <<received, lost>>

\* A client receives all that waits.
Deliver ==
    /\ received' = [g \in Groups |-> received[g] + pending[g]]
    /\ pending' = [g \in Groups |-> 0]
    /\ UNCHANGED <<collected, lost>>

\* What waits for some of the groups is lost.
Lose(S) ==
    /\ lost' = [g \in Groups |-> IF g \in S THEN lost[g] + pending[g] ELSE lost[g]]
    /\ pending' = [g \in Groups |-> IF g \in S THEN 0 ELSE pending[g]]
    /\ UNCHANGED <<collected, received>>

Next ==
    \/ \E g \in Groups : Collect(g)
    \/ Deliver
    \/ \E S \in SUBSET Groups : Lose(S)

Spec == Init /\ [][Next]_ledger
=============================================================================
