------------------------------ MODULE MCPreflight ------------------------------
(***************************************************************************)
(* Instances of Preflight for TLC.                                         *)
(***************************************************************************)
EXTENDS Preflight, TLC

CONSTANTS k1, k2, k3, r1, r2, r3

\* Every key comes back from the file as it was typed.
MCStrip == [k \in Key |-> k]

\* k3 is k1 typed with blanks around it.
MCPadded == [k \in Key |-> IF k = k3 THEN k1 ELSE k]

\* Sound only where no other constant tells a key from another.
MCRequestsAndKeys == Permutations(Request) \cup Permutations(Key)

MCRequests == Permutations(Request)
===============================================================================
