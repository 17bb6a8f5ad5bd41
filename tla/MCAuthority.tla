---------------------------- MODULE MCAuthority ----------------------------
(***************************************************************************)
(* Instances of TransferLane with administrators: one payer, one lane, one *)
(* attempt, so that every failure is a dead letter.                        *)
(***************************************************************************)
EXTENDS TransferLane, TLC

CONSTANTS t1, t2, r1, r2, payerA, lane1, proc1, admin1, admin2

MCPayerOf == [t \in Transfers |-> payerA]
MCProcessOf == lane1 :> proc1

\* Administrators are interchangeable, and so are the transfers of one payer and the
\* replacements, whose states are all reported from outside.
MCSymmetry == Permutations(Admins) \cup Permutations(Replacements)
                \cup Permutations(Transfers)
============================================================================
