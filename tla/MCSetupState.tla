------------------------------ MODULE MCSetupState ------------------------------
(***************************************************************************)
(* Instances of SetupState for TLC.                                        *)
(***************************************************************************)
EXTENDS SetupState, TLC

CONSTANTS k1, k2, r1, r2, r3

MCStrip == [k \in Key |-> k]

\* One address, with each of the passwords.
MCLogin == {<<k1, k>> : k \in Key}

\* Nothing in the environment.
MCNothing == [n \in Name |-> NoKey]

\* The API key of embeddings in the environment, and nothing else.
MCEmbeddings == [n \in Name |-> IF n = ApiKeyOf("embeddings") THEN k1 ELSE NoKey]

MCRequests == Permutations(Request)
===============================================================================
