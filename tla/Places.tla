------------------------------- MODULE Places -------------------------------
(***************************************************************************)
(* Places of a sequence taken in their order, which is what a query with   *)
(* ORDER BY gives of a table that is modelled as a sequence, and in any    *)
(* order, which is what UPDATE ... RETURNING gives.                        *)
(***************************************************************************)
EXTENDS Integers, Sequences, FiniteSets

InOrder(P) ==
  {order \in [1 .. Cardinality(P) -> P] :
     \A i, j \in DOMAIN order : i < j => order[i] < order[j]}

AnyOrder(P) ==
  {order \in [1 .. Cardinality(P) -> P] : {order[i] : i \in DOMAIN order} = P}

At(seq, order) == [i \in DOMAIN order |-> seq[order[i]]]

\* What is left of a sequence without x.
Without(seq, x) == {At(seq, order) : order \in InOrder({i \in 1 .. Len(seq) : seq[i] # x})}
=============================================================================
