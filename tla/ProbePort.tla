------------------------------- MODULE ProbePort -------------------------------
(***************************************************************************)
(* domain/capability.py and the probe port of adapters/llm/base.py: what a *)
(* preflight may report about a capability, whoever the provider is.  The  *)
(* preflight service is modelled over this port and the Google adapter is  *)
(* shown to keep it.                                                       *)
(***************************************************************************)
EXTENDS SetupRules

CONSTANTS
    Outcome,      \* how the provider may answer a probe in this instance
    Reason, Dim,  \* degradation reasons and embedding dimensions it may report
    None

\* MODEL_NOT_AVAILABLE: no result about the capability, it leaves as an error.
ModelGone == "model_not_available"

ASSUME OutcomeAssumption == Outcome \subseteq Result \cup {Unreachable, ModelGone}

\* The variants of PreflightAttempt, told apart by `result`, and the error.
Attempt == [result : Outcome, reasons : Reason \cup {None}, dim : Dim \cup {None}]

\* What each adapter can report: reasons exactly when the capability came back
\* unverified, a dimension exactly when embeddings came back verified.
AttemptOf(c) ==
    {a \in Attempt :
        /\ a.reasons # None <=> a.result = "capability_unverified"
        /\ a.dim # None <=> c = "embeddings" /\ a.result = "verified"}
===============================================================================
