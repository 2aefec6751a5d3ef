---------------------- MODULE ProviderVerificationProofs -----------------------
(***************************************************************************)
(* The script and the product certify the same providers, for every reply. *)
(***************************************************************************)
EXTENDS ProviderVerification, GoogleProbeProofs

\* The five expectations as the product lists them and as the script does.
LEMMA SameExpectations ==
  ASSUME NEW e \in Extraction PROVE CheckNulls(e) = Unmet(e)
<1>1. \A x \in Expectation : x \in CheckNulls(e) <=> ~ Holds(x, e)
  <2>1. "phone_absent" \in CheckNulls(e) <=> ~ Holds("phone_absent", e)
    BY DEF CheckNulls, Holds
  <2>2. "years_of_experience_not_declared" \in CheckNulls(e)
          <=> ~ Holds("years_of_experience_not_declared", e)
    BY DEF CheckNulls, Holds
  <2>3. "degree_absent" \in CheckNulls(e) <=> ~ Holds("degree_absent", e)
    BY DEF CheckNulls, Holds, Extraction
  <2>4. "second_job_without_dates" \in CheckNulls(e) <=> ~ Holds("second_job_without_dates", e)
    BY DEF CheckNulls, Holds, SecondJob
  <2>5. "second_job_without_achievements" \in CheckNulls(e)
          <=> ~ Holds("second_job_without_achievements", e)
    BY DEF CheckNulls, Holds, SecondJob
  <2> QED BY <2>1, <2>2, <2>3, <2>4, <2>5 DEF Expectation
<1>2. CheckNulls(e) \subseteq Expectation
  BY DEF CheckNulls, Expectation
<1> QED BY <1>1, <1>2 DEF Unmet

\* The row the script prints for the reply that decided a probe certifies the
\* capability exactly when the probe did (verify_providers.py, check_nulls; schemas.py,
\* unmet_null_expectations).
THEOREM ScriptVerifiesTheSameHolds == Spec => []ScriptVerifiesTheSame
<1>1. Inv => ScriptVerifiesTheSame
  <2> SUFFICES ASSUME Inv, report # None PROVE ScriptVerifiesTheSame
    BY DEF ScriptVerifiesTheSame
  <2>1. pc = "done" /\ reply \in RepliesTo(cap)
    BY DEF Inv, TypeOK, PhaseInv
  <2>2. CASE Succeeded(reply) /\ cap = "generation"
    <3>1. reply.value \in Extraction /\ reply.kind = "extraction"
      BY <2>1, <2>2 DEF RepliesTo, Raised, Extracted, Unreadable, Succeeded
    <3>2. report = Judged(reply) /\ CheckNulls(reply.value) = Unmet(reply.value)
      BY <2>1, <2>2, <3>1, SameExpectations DEF Inv, FailureInv
    <3>3. Malformed \notin Unmet(reply.value)
      BY DEF Unmet, Expectation, Malformed
    <3> QED BY <2>2, <3>1, <3>2, <3>3 DEF ScriptVerifiesTheSame, StructuredCell, NullCell, Blocked,
                                          Judged, Report
  <2>3. CASE Succeeded(reply) /\ cap = "embeddings"
    <3>1. reply.kind = "vectors" /\ report = Judged(reply)
      BY <2>1, <2>3 DEF Inv, FailureInv, RepliesTo, Raised, Vectors, Succeeded
    <3>2. reply.length \in Dim \cup {0, None} /\ None \notin Dim /\ Dim \subseteq Nat \ {0}
      BY <2>1, <2>3, <3>1, RepliesAssumption DEF RepliesTo, Raised, Vectors
    <3> QED BY <2>3, <3>1, <3>2 DEF ScriptVerifiesTheSame, EmbeddingsCell, DimensionCell, Judged, Report
  <2>4. CASE ~ Succeeded(reply)
    <3>1. report = AsAttempt(Classify(ErrorOf(reply))) /\ cap \in Capability
      BY <2>1, <2>4 DEF Inv, FailureInv, PhaseInv
    <3>2. Classify(ErrorOf(reply)) \in ProviderFailure
      BY <2>1, <2>4, <3>1, ErrorType, ClassifyType
    <3>3. /\ report.result # "verified" /\ report.dim = None
          /\ report.result = "capability_unverified" => report.reasons = {Malformed}
      BY <3>1, <3>2 DEF AsAttempt, Report, ProviderFailure, Unreachable, ModelGone
    <3>4. NullCell(reply) = "n/a" /\ DimensionCell(reply) = None
      BY <2>4 DEF NullCell, DimensionCell
    <3> QED BY <3>3, <3>4 DEF ScriptVerifiesTheSame, Blocked
  <2>5. cap \in Capability
    BY <2>1 DEF Inv, PhaseInv
  <2> QED BY <2>2, <2>3, <2>4, <2>5 DEF Capability
<1> QED BY <1>1, InvHolds, PTL

\* Where it does not take the text of the error to tell, the script and the product
\* call a failure by the same name.
LEMMA SameClassification ==
  ASSUME NEW e \in Error, e.kind # "missing", ~ OnlyTextTells(e)
  PROVE  Label(ClassifyFailure(e)) = ScriptLabelOf(Classify(e))
<1>1. CASE e.kind \in {"validation", "parser"}
  BY <1>1 DEF ClassifyFailure, Classify, Label, ScriptLabelOf, ModelGone
<1>2. CASE e.kind \notin {"validation", "parser"} /\ e.status # None
  <2>1. Classify(e) = FailureOfStatus(e) /\ e.status \in Status
    BY <1>2 DEF Classify, Error
  <2>2. e.status = 400 => (MentionsTheCredential(e) <=> e.message)
    BY DEF OnlyTextTells, MentionsTheCredential, Error
  <2>3. CASE e.status = 400
    <3>1. FailureOfStatus(e) = IF e.message THEN "credential_rejected" ELSE "unreachable"
      BY <2>2, <2>3 DEF FailureOfStatus
    <3>2. ClassifyFailure(e) = IF e.message THEN "credential" ELSE "unreachable"
      BY <1>2, <2>3 DEF ClassifyFailure
    <3> QED BY <2>1, <3>1, <3>2 DEF Label, ScriptLabelOf, ModelGone
  <2>4. CASE e.status # 400
    <3>1. FailureOfStatus(e) = CASE e.status \in {401, 403} -> "credential_rejected"
                                 [] e.status = 404 -> ModelGone
                                 [] e.status = 429 -> "quota_exceeded"
                                 [] OTHER -> "unreachable"
      BY <2>4 DEF FailureOfStatus
    <3>2. CASE e.status \in {401, 403}
      <4>1. ClassifyFailure(e) = "credential" /\ FailureOfStatus(e) = "credential_rejected"
        BY <1>2, <3>1, <3>2 DEF ClassifyFailure
      <4> QED BY <2>1, <4>1 DEF Label, ScriptLabelOf, ModelGone
    <3>3. CASE e.status = 404
      <4>1. ClassifyFailure(e) = "model_not_available" /\ FailureOfStatus(e) = ModelGone
        BY <1>2, <3>1, <3>3 DEF ClassifyFailure
      <4> QED BY <2>1, <4>1 DEF Label, ScriptLabelOf, ModelGone
    <3>4. CASE e.status = 429
      <4>1. ClassifyFailure(e) = "quota" /\ FailureOfStatus(e) = "quota_exceeded"
        BY <1>2, <3>1, <3>4 DEF ClassifyFailure
      <4> QED BY <2>1, <4>1 DEF Label, ScriptLabelOf, ModelGone
    <3>5. CASE e.status = 500
      <4>1. ClassifyFailure(e) = "unreachable" /\ FailureOfStatus(e) = "unreachable"
        BY <1>2, <3>1, <3>5 DEF ClassifyFailure
      <4> QED BY <2>1, <4>1 DEF Label, ScriptLabelOf, ModelGone
    <3> QED BY <2>1, <2>4, <3>2, <3>3, <3>4, <3>5 DEF Status
  <2> QED BY <2>3, <2>4
<1>3. CASE e.kind \notin {"validation", "parser"} /\ e.status = None
  <2>1. e.text = {}
    BY <1>3 DEF OnlyTextTells
  <2>2. Classify(e) = "unreachable"
    BY <1>3, <2>1 DEF Classify, FailureOfText
  <2>3. None \notin Status
    BY RepliesAssumption
  <2>4. ClassifyFailure(e) = "unreachable"
    BY <1>3, <2>3 DEF ClassifyFailure, Status
  <2> QED BY <2>2, <2>4 DEF Label, ScriptLabelOf, ModelGone
<1> QED BY <1>1, <1>2, <1>3

\* The label in the row of the matrix is the failure the retries went by
\* (verify_providers.py, classify_failure; google.py, classify).
THEOREM ScriptNamesTheSameFailureHolds == Spec => []ScriptNamesTheSameFailure
<1>1. Inv => ScriptNamesTheSameFailure
  <2> SUFFICES ASSUME Inv, report # None, cap = "generation", ~ Succeeded(reply),
                      ~ OnlyTextTells(ErrorOf(reply))
               PROVE  StructuredCell(reply) = ScriptLabelOf(failures[attempt])
    BY DEF ScriptNamesTheSameFailure
  <2>1. failures[attempt] = Classify(ErrorOf(reply)) /\ reply \in RepliesTo(cap)
    BY DEF Inv, TypeOK, PhaseInv, FailureInv
  <2>2. cap \in Capability
    BY DEF Capability
  <2>3. ErrorOf(reply) \in Error
    BY <2>1, <2>2, ErrorType
  <2>4. StructuredCell(reply) = Label(ClassifyFailure(ScriptErrorOf(reply)))
    BY DEF StructuredCell
  <2>5. CASE reply.kind \in {"raised", "parsing_error"}
    <3>1. ScriptErrorOf(reply) = ErrorOf(reply) /\ ErrorOf(reply).kind # "missing"
      BY <2>1, <2>5 DEF ScriptErrorOf, ErrorOf, RepliesTo, Raised, Extracted, Unreadable
    <3> QED BY <2>1, <2>3, <2>4, <3>1, SameClassification
  <2>6. CASE reply.kind \notin {"raised", "parsing_error"}
    <3>1. ScriptErrorOf(reply) = OwnError("validation")
          /\ ErrorOf(reply) \in {OwnError("missing"), OwnError("validation")}
      BY <2>6 DEF ScriptErrorOf, ErrorOf
    <3>2. Classify(ErrorOf(reply)) = "schema_violation"
      BY <3>1 DEF OwnError, Classify
    <3>3. ClassifyFailure(ScriptErrorOf(reply)) = "schema"
      BY <3>1 DEF OwnError, ClassifyFailure
    <3> QED BY <2>1, <2>4, <3>2, <3>3 DEF Label, ScriptLabelOf
  <2> QED BY <2>5, <2>6
<1> QED BY <1>1, InvHolds, PTL
===============================================================================
