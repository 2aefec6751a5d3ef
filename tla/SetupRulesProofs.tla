---------------------------- MODULE SetupRulesProofs ----------------------------
(***************************************************************************)
(* What the rules of domain/setup.py agree on, for every set of facts.     *)
(***************************************************************************)
EXTENDS SetupRules, TLAPS

\* The equivalence that domain/setup.py calls worth keeping and the HTTP contract
\* promises: there is no pending step exactly when the first run is complete.
THEOREM NullIffComplete ==
    ASSUME NEW Version, NEW facts \in SetupFacts(Version)
    PROVE  PendingStep(facts) = {} <=> IsComplete(facts)
BY DEF PendingStep, IsComplete, DisclosureAcknowledged

\* A first run that is complete stays so whatever becomes of the embeddings: the
\* optional capability degrades and never reopens the wizard (FR-010).
THEOREM EmbeddingsNeverReopen ==
    ASSUME NEW Version, NEW facts \in SetupFacts(Version), NEW e \in Optional(ProviderFacts),
           PendingStep(facts) = {}
    PROVE  PendingStep([facts EXCEPT !.embeddings = e]) = {}
<1> DEFINE changed == [facts EXCEPT !.embeddings = e]
<1>1. /\ changed.current = facts.current /\ changed.acknowledged = facts.acknowledged
      /\ changed.generation = facts.generation /\ changed.email = facts.email
      /\ changed \in SetupFacts(Version)
  BY DEF SetupFacts
<1>2. IsComplete(facts)
  BY NullIffComplete
<1>3. IsComplete(changed)
  BY <1>1, <1>2 DEF IsComplete, DisclosureAcknowledged
<1> QED BY <1>1, <1>3, NullIffComplete

\* With an acknowledged disclosure and a usable generation, the only thing that
\* sends the candidate back to the providers is an unfinished email step.
THEOREM ProvidersOnlyWhileNeeded ==
    ASSUME NEW Version, NEW facts \in SetupFacts(Version),
           PendingStep(facts) = {"providers"}, SomeUsable(facts.generation)
    PROVE  facts.email = "pending" /\ ~ SomeUsable(facts.embeddings)
BY DEF PendingStep, SetupFacts
===============================================================================
