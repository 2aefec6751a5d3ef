------------------------------ MODULE SetupRules ------------------------------
(***************************************************************************)
(* The rules of the first run: domain/capability.py, domain/disclosure.py  *)
(* and domain/setup.py.  They keep no state: every operator derives an     *)
(* answer from facts that other modules hold.                              *)
(***************************************************************************)

\* What Vokara needs from a provider, configured independently.
Capability == {"generation", "embeddings"}

\* The four results a preflight may record about a capability.
Result == {"verified", "capability_unverified", "credential_rejected",
           "quota_exceeded"}

\* Not a result about the capability: nothing is ever persisted for it.
Unreachable == "provider_unreachable"

EmailStatus == {"pending", "linked", "skipped"}

Step == {"disclosure", "providers", "email"}

\* An optional fact (a Python None) is a set with at most one element.
Optional(S) == {{}} \cup {{x} : x \in S}

\* What the derivation reads about one capability.
ProviderFacts == [result : Result,
                  credential_matches : BOOLEAN,
                  degradation_acknowledged : BOOLEAN]

\* `verified`, or `capability_unverified` with its own acknowledgement; and in
\* both cases only while the credential in force is the one that was probed.
IsUsable(facts) ==
    /\ facts.credential_matches
    /\ \/ facts.result = "verified"
       \/ facts.result = "capability_unverified" /\ facts.degradation_acknowledged

\* A capability that was never configured has no facts.
SomeUsable(optional) == \E facts \in optional : IsUsable(facts)

\* Only an exact match of the version covers the current text.
Covers(current, acknowledged) == acknowledged = {current}

SetupFacts(Version) ==
    [current : Version, acknowledged : Optional(Version),
     generation : Optional(ProviderFacts), embeddings : Optional(ProviderFacts),
     email : EmailStatus]

DisclosureAcknowledged(facts) == Covers(facts.current, facts.acknowledged)

\* The first unmet condition in wizard order; {} stands for null.  An unusable
\* embeddings capability only counts while the email step is still pending.
PendingStep(facts) ==
    CASE ~ DisclosureAcknowledged(facts) -> {"disclosure"}
      [] DisclosureAcknowledged(facts) /\ ~ SomeUsable(facts.generation) -> {"providers"}
      [] OTHER -> IF facts.email # "pending" THEN {}
                  ELSE IF SomeUsable(facts.embeddings) THEN {"email"} ELSE {"providers"}

IsComplete(facts) ==
    /\ DisclosureAcknowledged(facts)
    /\ SomeUsable(facts.generation)
    /\ facts.email # "pending"
===============================================================================
