-------------------------------- MODULE Replies --------------------------------
(***************************************************************************)
(* What one call to the provider may come back with, and how               *)
(* adapters/llm/google.py, schemas.py and tracing.py read it: the raw      *)
(* object, its classification, the report of the preflight and the line of *)
(* the trace.  No state: GoogleProbe holds the attempts.                   *)
(***************************************************************************)
EXTENDS ProbePort, Naturals

\* ProviderFailure, the one classification the rest of the app sees.
ProviderFailure == {"credential_rejected", "quota_exceeded", "unreachable", ModelGone,
                    "schema_violation"}

TraceOutcome == {"ok", "schema_error", "provider_error", "timeout"}

(* ------------------------- the answer of generation ---------------------- *)

\* The holes of the sample CV.
Expectation == {"phone_absent", "years_of_experience_not_declared", "degree_absent",
                "second_job_without_dates", "second_job_without_achievements"}

\* An extracted job: whether its company is the one of the sample's second job, and
\* whether its dates and its achievements were filled.
Job == [second : BOOLEAN, dated : BOOLEAN, achieved : BOOLEAN]

\* PreflightExtraction: TRUE is a field with a value.  Of education, whether some
\* entry has its degree filled and some has not; of the jobs, the sorts present.
Extraction == [phone : BOOLEAN, years : BOOLEAN, degrees : SUBSET BOOLEAN, jobs : SUBSET Job]

SecondJob(e) == {j \in e.jobs : j.second}

Holds(x, e) ==
    CASE x = "phone_absent" -> ~ e.phone
      [] x = "years_of_experience_not_declared" -> ~ e.years
      [] x = "degree_absent" -> \A filled \in e.degrees : ~ filled
      [] x = "second_job_without_dates" -> \A j \in SecondJob(e) : ~ j.dated
      [] x = "second_job_without_achievements" -> \A j \in SecondJob(e) : ~ j.achieved

\* unmet_null_expectations: what the model made up.
Unmet(e) == {x \in Expectation : ~ Holds(x, e)}

Malformed == "structure"
NoVector  == "no_vector"

\* reasons_es: the descriptions of the unmet expectations, or a fixed sentence.
Reasons == ((SUBSET Expectation) \ {{}}) \cup {{Malformed}, {NoVector}}

(* -------------------------------- the errors ----------------------------- *)

ErrorKind == {"validation", "missing", "parser", "timeout", "other"}

\* Names a message may carry: canonical RPC statuses, and a mention of the key.
Marker == {"API_KEY_INVALID", "UNAUTHENTICATED", "PERMISSION_DENIED", "RESOURCE_EXHAUSTED",
           "NOT_FOUND", "INVALID_ARGUMENT", "api key"}

Status == {400, 401, 403, 404, 429, 500}

\* `status` is `code` or `status_code` when it is a number, `text` what str(error)
\* carries, and `message` says that its .message attribute mentions the key.
Error == [kind : ErrorKind, status : Status \cup {None}, text : SUBSET Marker,
          message : BOOLEAN]

ASSUME RepliesAssumption ==
    /\ Result \cup {Unreachable, ModelGone} \subseteq Outcome
    /\ Reasons \subseteq Reason
    /\ Dim \subseteq Nat \ {0}
    /\ None \notin Reason /\ None \notin Dim
    /\ None \notin Capability \cup ProviderFailure /\ None \notin Status

OwnError(kind) == [kind |-> kind, status |-> None, text |-> {}, message |-> FALSE]

\* API_KEY_INVALID in lower case contains one of the markers itself.
MentionsTheCredential(e) == e.message \/ e.text \cap {"api key", "API_KEY_INVALID"} # {}

\* With a numeric status: a 400 is the key only if the text says so, and a 5xx is
\* nobody's key.
FailureOfStatus(e) ==
    CASE e.status \in {401, 403} -> "credential_rejected"
      [] e.status = 404 -> ModelGone
      [] e.status = 429 -> "quota_exceeded"
      [] OTHER -> IF e.status = 400 /\ MentionsTheCredential(e) THEN "credential_rejected"
                  ELSE "unreachable"

\* Without one: the first canonical status the text carries.
FailureOfText(e) ==
    IF e.text \cap {"API_KEY_INVALID", "UNAUTHENTICATED", "PERMISSION_DENIED"} # {}
    THEN "credential_rejected"
    ELSE IF "RESOURCE_EXHAUSTED" \in e.text THEN "quota_exceeded"
    ELSE IF "NOT_FOUND" \in e.text THEN ModelGone
    ELSE IF "INVALID_ARGUMENT" \in e.text /\ MentionsTheCredential(e) THEN "credential_rejected"
    ELSE "unreachable"

\* Slip: every 400 is a bad key.
SlipClassify(e) ==
    IF e.kind \in {"validation", "missing", "parser"} THEN "schema_violation"
    ELSE IF e.status = 400 THEN "credential_rejected"
    ELSE IF e.status # None THEN FailureOfStatus(e)
    ELSE FailureOfText(e)

Classify(e) ==
    IF e.kind \in {"validation", "missing", "parser"} THEN "schema_violation"
    ELSE IF e.status # None THEN FailureOfStatus(e)
    ELSE FailureOfText(e)

\* Slip: an answer without a parsed object is traced as the provider's failure.
SlipOutcomeOf(e) ==
    CASE e.kind \in {"validation", "parser"} -> "schema_error"
      [] e.kind = "timeout" -> "timeout"
      [] OTHER -> "provider_error"

\* _outcome_of, which reads the shape of the failure and not the provider.
OutcomeOf(e) ==
    CASE e.kind \in {"validation", "missing", "parser"} -> "schema_error"
      [] e.kind = "timeout" -> "timeout"
      [] OTHER -> "provider_error"

(* -------------------------------- the replies ---------------------------- *)

\* Either the client raises, though never the adapter's own exception; or the
\* payload holds an exception under parsing_error, or no parsed object, or one that
\* does not validate; or an extraction, with the tokens it reported.  Embeddings come
\* back as the length of the first vector, which may be 0, or None with no vector.
Raised     == [kind : {"raised"}, error : {e \in Error : e.kind # "missing"}]
Extracted  == [kind : {"extraction"}, value : Extraction, counted : BOOLEAN]
Vectors    == [kind : {"vectors"}, length : Dim \cup {0, None}]
Unreadable == [kind : {"parsing_error"}, error : {e \in Error : e.kind \in {"parser", "validation"}}]
              \cup [kind : {"unparsed", "invalid"}]

RepliesTo(c) == IF c = "generation" THEN Raised \cup Extracted \cup Unreadable
                ELSE Raised \cup Vectors

Succeeded(r) == r.kind \in {"extraction", "vectors"}

\* _unwrap: the exception that leaves the call when no value does.
ErrorOf(r) ==
    CASE r.kind \in {"raised", "parsing_error"} -> r.error
      [] r.kind = "unparsed" -> OwnError("missing")
      [] OTHER -> OwnError("validation")

\* The trace of one attempt.
Traced(n, r) ==
    [attempt |-> n,
     outcome |-> IF Succeeded(r) THEN "ok" ELSE OutcomeOf(ErrorOf(r)),
     tokens |-> r.kind = "extraction" /\ r.counted]

(* -------------------------------- the report ----------------------------- *)

Report(result, reasons, dim) == [result |-> result, reasons |-> reasons, dim |-> dim]

\* Slip: a first vector with nothing in it passes for a vector.
SlipJudged(r) ==
    IF r.kind = "extraction"
    THEN IF Unmet(r.value) = {} THEN Report("verified", None, None)
         ELSE Report("capability_unverified", Unmet(r.value), None)
    ELSE Report("verified", None, r.length)

\* probe() of each capability, with the value in hand.
Judged(r) ==
    IF r.kind = "extraction"
    THEN IF Unmet(r.value) = {} THEN Report("verified", None, None)
         ELSE Report("capability_unverified", Unmet(r.value), None)
    ELSE IF r.length \in {0, None} THEN Report("capability_unverified", {NoVector}, None)
         ELSE Report("verified", None, r.length)

\* _as_attempt; a retired model is raised again.
AsAttempt(failure) ==
    CASE failure = "schema_violation" -> Report("capability_unverified", {Malformed}, None)
      [] failure = "unreachable" -> Report(Unreachable, None, None)
      [] OTHER -> Report(failure, None, None)
===============================================================================
