-------------------------------- MODULE QueueOps --------------------------------
(* The queue of a tree (_SnapshotQueue of messaging/trees/data.py). *)
EXTENDS Integers, Sequences, FiniteSets

(* q without the members of S, in the order of q. *)
Without(q, S) ==
    LET keep    == {i \in DOMAIN q : q[i] \notin S}
        rank(i) == Cardinality({j \in keep : j <= i})
    IN  [k \in 1 .. Cardinality(keep) |-> q[CHOOSE i \in keep : rank(i) = k]]
=============================================================================
