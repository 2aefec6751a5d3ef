------------------------------- MODULE MCWizard --------------------------------
(***************************************************************************)
(* Instances of Wizard for TLC.                                            *)
(***************************************************************************)
EXTENDS Wizard, TLC

\* The matrix of the repository, and one provider somebody verified before anybody
\* implemented it.
MCMatrix ==
    [p \in Provider |->
        CASE p = "google" ->
                [structured_output |-> "yes", respects_null_in_optionals |-> "yes",
                 embeddings |-> "yes", embedding_dim |-> {768}, verified |-> TRUE]
          [] p = "openai" ->
                [structured_output |-> "yes", respects_null_in_optionals |-> "yes",
                 embeddings |-> "yes", embedding_dim |-> {}, verified |-> TRUE]
          [] p = "anthropic" ->
                [structured_output |-> "unmeasured", respects_null_in_optionals |-> "unmeasured",
                 embeddings |-> "no", embedding_dim |-> {}, verified |-> FALSE]
          [] OTHER ->
                [structured_output |-> "unmeasured", respects_null_in_optionals |-> "unmeasured",
                 embeddings |-> "unmeasured", embedding_dim |-> {}, verified |-> FALSE]]

MCModel == [c \in Capability |-> IF c = "generation" THEN "gemini" ELSE "gemini-embedding"]

Preflighted(result) == [result |-> result, credential_matches |-> TRUE, degradation_acknowledged |-> FALSE]

MCFacts(acknowledged, generation, email) ==
    [current |-> "v1", acknowledged |-> acknowledged, generation |-> generation,
     embeddings |-> {}, email |-> email]

\* A fresh installation, and one whose candidate left before the providers.
MCFresh == {MCFacts({}, {}, "pending"), MCFacts({"v1"}, {}, "pending")}

\* One whose candidate left with generation verified, before or after the email.
MCVerified == {MCFacts({"v1"}, {Preflighted("verified")}, e) : e \in {"pending", "skipped"}}

\* Also one that was concluded, and whose provider lost a capability since.
MCStart == MCFresh \cup MCVerified
           \cup {MCFacts({"v1"}, {Preflighted("capability_unverified")}, "skipped")}
===============================================================================
