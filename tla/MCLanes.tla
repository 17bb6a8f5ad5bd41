------------------------------ MODULE MCLanes ------------------------------
(***************************************************************************)
(* Instances of TransferLane: three transfers of two payers, two lanes.    *)
(***************************************************************************)
EXTENDS TransferLane, TLC

CONSTANTS t1, t2, t3, payerA, payerB, lane1, lane2, proc1, proc2

MCPayerOf == (t1 :> payerA) @@ (t2 :> payerA) @@ (t3 :> payerB)

MCOnePayer == (t1 :> payerA) @@ (t2 :> payerA)

\* Each lane in a process of its own, or both in one.
MCApart == (lane1 :> proc1) @@ (lane2 :> proc2)
MCTogether == (lane1 :> proc1) @@ (lane2 :> proc1)

\* The transfers of one payer are interchangeable, and so are the lanes of MCApart
\* with their processes.
MCSymmetry ==
  Permutations({t1, t2}) \cup
    {(lane1 :> lane2) @@ (lane2 :> lane1) @@ (proc1 :> proc2) @@ (proc2 :> proc1)}
============================================================================
