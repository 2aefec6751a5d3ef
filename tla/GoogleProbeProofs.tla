--------------------------- MODULE GoogleProbeProofs ---------------------------
(***************************************************************************)
(* What a probe guarantees for every set of replies and every set of sinks *)
(* with those that fail: the inductive invariant, the port it keeps, and   *)
(* the safety properties of GoogleProbe as consequences.                   *)
(***************************************************************************)
EXTENDS GoogleProbe, TLAPS

(* ------------------------- reading a single reply ------------------------ *)

\* Every failure has one classification.
LEMMA ClassifyType ==
  ASSUME NEW e \in Error PROVE Classify(e) \in ProviderFailure
BY DEF Error, Classify, FailureOfStatus, FailureOfText, ProviderFailure, ModelGone, Status

LEMMA OutcomeType ==
  ASSUME NEW e \in Error PROVE OutcomeOf(e) \in TraceOutcome \ {"ok"}
BY DEF Error, OutcomeOf, ErrorKind, TraceOutcome

\* The trace and the classification call the same failures a failure of the schema.
LEMMA TwoReadingsAgree ==
  ASSUME NEW e \in Error
  PROVE  OutcomeOf(e) = "schema_error" <=> Classify(e) = "schema_violation"
BY DEF Error, ErrorKind, OutcomeOf, Classify, FailureOfStatus, FailureOfText, ModelGone

\* A call that gave no value gave an error to classify.
LEMMA ErrorType ==
  ASSUME NEW c \in Capability, NEW r \in RepliesTo(c), ~ Succeeded(r)
  PROVE  ErrorOf(r) \in Error
<1>1. \A kind \in ErrorKind : OwnError(kind) \in Error
  BY DEF OwnError, Error
<1>2. r.kind \in {"raised", "parsing_error", "unparsed", "invalid"}
  BY DEF RepliesTo, Raised, Extracted, Vectors, Unreadable, Succeeded
<1>3. r.kind \in {"raised", "parsing_error"} => r.error \in Error
  BY DEF RepliesTo, Raised, Extracted, Vectors, Unreadable
<1> QED BY <1>1, <1>2, <1>3 DEF ErrorOf, ErrorKind

\* A classified failure is reported as the port allows, for either capability.
LEMMA FailureInPort ==
  ASSUME NEW c \in Capability, NEW f \in ProviderFailure
  PROVE  AsAttempt(f) \in AttemptOf(c)
<1>1. {Malformed} \in Reason /\ {Malformed} # None
  BY RepliesAssumption DEF Reasons
<1>2. AsAttempt(f).result \in Outcome
  BY RepliesAssumption DEF AsAttempt, Report, ProviderFailure, Result, Unreachable, ModelGone
<1> QED BY <1>1, <1>2 DEF AsAttempt, Report, AttemptOf, Attempt, ProviderFailure, ModelGone,
                          Unreachable

\* So is a value: every reason given is a hole of the sample, and only embeddings
\* carry a dimension.
LEMMA ValueInPort ==
  ASSUME NEW c \in Capability, NEW r \in RepliesTo(c), Succeeded(r)
  PROVE  Judged(r) \in AttemptOf(c)
<1>1. {"verified", "capability_unverified"} \subseteq Outcome
  BY RepliesAssumption DEF Result
<1>2. CASE c = "generation"
  <2>1. r.kind = "extraction" /\ r.value \in Extraction
    BY <1>2 DEF RepliesTo, Raised, Extracted, Unreadable, Succeeded
  <2>2. CASE Unmet(r.value) = {}
    BY <1>1, <1>2, <2>1, <2>2 DEF Judged, Report, AttemptOf, Attempt
  <2>3. CASE Unmet(r.value) # {}
    <3>1. Unmet(r.value) \subseteq Expectation
      BY DEF Unmet
    <3>2. Unmet(r.value) \in Reason /\ Unmet(r.value) # None
      BY <2>3, <3>1, RepliesAssumption DEF Reasons
    <3> QED BY <1>1, <1>2, <2>1, <2>3, <3>2 DEF Judged, Report, AttemptOf, Attempt
  <2> QED BY <2>2, <2>3
<1>3. CASE c = "embeddings"
  <2>1. r.kind = "vectors" /\ r.length \in Dim \cup {0, None}
    BY <1>3 DEF RepliesTo, Raised, Vectors, Succeeded
  <2>2. {NoVector} \in Reason /\ {NoVector} # None
    BY RepliesAssumption DEF Reasons
  <2>3. None \notin Dim
    BY RepliesAssumption
  <2> QED BY <1>1, <1>3, <2>1, <2>2, <2>3 DEF Judged, Report, AttemptOf, Attempt
<1> QED BY <1>2, <1>3 DEF Capability

\* The adapter only blames a key that the provider's answer blames.
LEMMA RejectionIsBlame ==
  ASSUME NEW e \in Error, Classify(e) = "credential_rejected" PROVE Blames(e)
<1>1. CASE e.status # None
  <2>1. FailureOfStatus(e) = "credential_rejected"
    BY <1>1 DEF Classify
  <2>2. ASSUME e.status \notin {401, 403} PROVE e.status = 400 /\ MentionsTheCredential(e)
    <3>1. e.status \notin {404, 429}
      <4>1. e.status = 404 => FailureOfStatus(e) = ModelGone
        BY DEF FailureOfStatus
      <4>2. e.status = 429 => FailureOfStatus(e) = "quota_exceeded"
        BY DEF FailureOfStatus
      <4> QED BY <2>1, <4>1, <4>2 DEF ModelGone
    <3>2. FailureOfStatus(e) = IF e.status = 400 /\ MentionsTheCredential(e)
                               THEN "credential_rejected" ELSE "unreachable"
      BY <2>2, <3>1 DEF FailureOfStatus
    <3> QED BY <2>1, <3>2
  <2>3. CASE e.status \in {401, 403}
    BY <2>3 DEF Blames
  <2>4. CASE e.status = 400 /\ MentionsTheCredential(e)
    <3>1. e.message \/ e.text \cap {"api key", "API_KEY_INVALID"} # {}
      BY <2>4 DEF MentionsTheCredential
    <3>2. CASE e.message
      BY <2>4, <3>2 DEF Blames
    <3>3. CASE e.text \cap {"api key", "API_KEY_INVALID"} # {}
      <4>1. e.text \cap {"api key", "API_KEY_INVALID", "UNAUTHENTICATED",
                        "PERMISSION_DENIED"} # {}
        BY <3>3
      <4> QED BY <2>4, <4>1 DEF Blames
    <3> QED BY <3>1, <3>2, <3>3
  <2> QED BY <2>2, <2>3, <2>4
<1>2. CASE e.status = None
  <2>1. FailureOfText(e) = "credential_rejected"
    BY <1>2 DEF Classify
  <2>2. e.text \cap {"api key", "API_KEY_INVALID", "UNAUTHENTICATED", "PERMISSION_DENIED"} # {}
        \/ MentionsTheCredential(e)
    BY <2>1 DEF FailureOfText, ModelGone
  <2> QED BY <1>2, <2>2 DEF MentionsTheCredential, Blames
<1> QED BY <1>1, <1>2

(* ------------------------- the inductive invariant ----------------------- *)

\* The attempts whose outcome has been read.
Concluded(n) == n < attempt \/ (n = attempt /\ pc \in {"backoff", "done"})

\* Where the probe is says what it holds.
PhaseInv ==
    /\ pc = "idle" => cap = None /\ attempt = 0
    /\ pc # "idle" => cap \in Capability /\ attempt \in 1 .. MaxAttempts
    /\ pc # "done" => report = None
    /\ pc # "emit" => pending = {}
    /\ pc \in {"idle", "called"} <=> reply = None

\* The history of classifications, and the report that closes it.
FailureInv ==
    /\ \A n \in 1 .. MaxAttempts : ~ Concluded(n) => failures[n] = None
    /\ \A n \in 1 .. MaxAttempts : n < attempt => failures[n] \in Retryable
    /\ pc = "backoff" => attempt < MaxAttempts /\ failures[attempt] \in Retryable
    /\ pc = "done" =>
        IF Succeeded(reply) THEN report = Judged(reply) /\ failures[attempt] = None
        ELSE /\ failures[attempt] = Classify(ErrorOf(reply))
             /\ report = AsAttempt(failures[attempt])
             /\ failures[attempt] \notin Retryable \/ attempt = MaxAttempts

\* The row of attempt n in sink s, alone and in agreement with the classification.
RowAgrees(s, n) ==
    \E t \in rows[s] :
        /\ t.attempt = n /\ \A u \in rows[s] : u.attempt = n => u = t
        /\ t.outcome = "ok" <=> failures[n] = None
        /\ t.outcome = "schema_error" <=> failures[n] = "schema_violation"

TraceInv ==
    \A s \in Sink :
        /\ \A t \in rows[s] : t.attempt <= attempt
        /\ pc = "called" => \A t \in rows[s] : t.attempt < attempt
        /\ pc = "emit" => \A t \in rows[s] : t.attempt = attempt => t = Traced(attempt, reply)
        /\ s \notin Faulty =>
            /\ pc = "emit" /\ s \notin pending => Traced(attempt, reply) \in rows[s]
            /\ \A n \in 1 .. MaxAttempts : Concluded(n) => RowAgrees(s, n)

Inv == TypeOK /\ PhaseInv /\ FailureInv /\ TraceInv

LEMMA InitInv == Init => Inv
<1> SUFFICES ASSUME Init PROVE Inv
  OBVIOUS
<1>1. TypeOK
  BY DEF Init, TypeOK, MaxAttempts
<1>2. PhaseInv /\ FailureInv
  BY DEF Init, PhaseInv, FailureInv, Concluded, MaxAttempts
<1>3. TraceInv
  BY DEF Init, TraceInv, Concluded, MaxAttempts
<1> QED BY <1>1, <1>2, <1>3 DEF Inv

LEMMA AskStep == Inv /\ Ask => Inv'
<1> SUFFICES ASSUME Inv, Ask PROVE Inv'
  OBVIOUS
<1>1. \A s \in Sink : rows[s] = {}
  <2>1. \A s \in Sink : \A t \in rows[s] : t.attempt \in 1 .. MaxAttempts /\ t.attempt <= attempt
    BY DEF Inv, TypeOK, TraceInv
  <2>2. attempt = 0
    BY DEF Inv, Ask, PhaseInv
  <2> QED BY <2>1, <2>2 DEF MaxAttempts
<1>2. TypeOK'
  BY DEF Inv, Ask, TypeOK, PhaseInv, MaxAttempts
<1>3. PhaseInv' /\ FailureInv'
  BY DEF Inv, Ask, TypeOK, PhaseInv, FailureInv, Concluded, MaxAttempts
<1>4. TraceInv'
  BY <1>1 DEF Inv, Ask, PhaseInv, TraceInv, Concluded, MaxAttempts
<1> QED BY <1>2, <1>3, <1>4 DEF Inv

LEMMA AnswerStep == Inv /\ Answer => Inv'
<1> SUFFICES ASSUME Inv, Answer PROVE Inv'
  OBVIOUS
<1>1. reply' # None /\ reply' \in Answers /\ reply' \in RepliesTo(cap)
  BY ProbeAssumption DEF Answer
<1>2. TypeOK'
  BY <1>1 DEF Inv, Answer, TypeOK
<1>3. PhaseInv' /\ FailureInv'
  BY <1>1 DEF Inv, Answer, TypeOK, PhaseInv, FailureInv, Concluded, MaxAttempts
<1>4. \A n \in 1 .. MaxAttempts : Concluded(n)' => Concluded(n)
  BY DEF Answer, Concluded
<1>5. \A s \in Sink, n \in 1 .. MaxAttempts : RowAgrees(s, n)' <=> RowAgrees(s, n)
  BY DEF Answer, RowAgrees
<1>6. TraceInv'
  <2> SUFFICES ASSUME NEW s \in Sink
               PROVE  /\ \A t \in rows'[s] : t.attempt <= attempt'
                      /\ \A t \in rows'[s] : t.attempt = attempt' => t = Traced(attempt, reply)'
                      /\ s \in pending'
                      /\ s \notin Faulty =>
                          \A n \in 1 .. MaxAttempts : Concluded(n)' => RowAgrees(s, n)'
    BY DEF TraceInv, Answer
  <2>1. \A t \in rows[s] : t.attempt \in Nat /\ t.attempt < attempt
    BY DEF Inv, Answer, TraceInv, TypeOK, MaxAttempts
  <2> QED BY <1>4, <1>5, <2>1 DEF Inv, Answer, TraceInv, TypeOK
<1> QED BY <1>2, <1>3, <1>6 DEF Inv

LEMMA RecordStep == ASSUME NEW s \in Sink, Inv, Record(s) PROVE Inv'
<1> DEFINE T == Traced(attempt, reply)
<1>1. /\ pc = "emit" /\ s \in pending /\ pending' = pending \ {s}
      /\ UNCHANGED <<cap, pc, attempt, reply, failures, report>>
      /\ rows' = [rows EXCEPT ![s] = @ \cup {T}] \/ (s \in Faulty /\ rows' = rows)
  BY DEF Record
<1>2. reply # None /\ reply \in RepliesTo(cap) /\ cap \in Capability /\ attempt \in 1 .. MaxAttempts
  BY <1>1 DEF Inv, TypeOK, PhaseInv
<1>3. T \in [attempt : 1 .. MaxAttempts, outcome : TraceOutcome, tokens : BOOLEAN]
  <2>1. CASE Succeeded(reply)
    <3>1. reply.kind = "extraction" => reply.counted \in BOOLEAN
      BY <1>2 DEF RepliesTo, Raised, Extracted, Vectors, Unreadable
    <3> QED BY <1>2, <2>1, <3>1 DEF Traced, TraceOutcome
  <2>2. CASE ~ Succeeded(reply)
    <3>1. OutcomeOf(ErrorOf(reply)) \in TraceOutcome
      BY <1>2, <2>2, ErrorType, OutcomeType
    <3>2. reply.kind # "extraction"
      BY <2>2 DEF Succeeded
    <3> QED BY <1>2, <2>2, <3>1, <3>2 DEF Traced
  <2> QED BY <2>1, <2>2
<1>4. \A q \in Sink : rows'[q] = rows[q] \/ (q = s /\ rows'[q] = rows[q] \cup {T})
  BY <1>1 DEF Inv, TypeOK
<1>5. s \notin Faulty => T \in rows'[s]
  BY <1>1 DEF Inv, TypeOK
<1>6. TypeOK'
  BY <1>1, <1>3 DEF Inv, TypeOK
<1>7. PhaseInv' /\ FailureInv'
  BY <1>1 DEF Inv, PhaseInv, FailureInv, Concluded
<1>8. TraceInv'
  <2> SUFFICES ASSUME NEW q \in Sink
               PROVE  /\ \A t \in rows'[q] : t.attempt <= attempt
                      /\ \A t \in rows'[q] : t.attempt = attempt => t = T
                      /\ q \notin Faulty =>
                          /\ q \notin pending' => T \in rows'[q]
                          /\ \A n \in 1 .. MaxAttempts : Concluded(n)' => RowAgrees(q, n)'
    BY <1>1 DEF TraceInv
  <2>1. T.attempt = attempt /\ attempt \in Nat
    BY <1>2 DEF Traced, MaxAttempts
  <2>2. /\ \A t \in rows[q] : t.attempt <= attempt
        /\ \A t \in rows[q] : t.attempt = attempt => t = T
        /\ q \notin Faulty => (q \notin pending => T \in rows[q])
    BY <1>1 DEF Inv, TraceInv
  <2>3. ASSUME NEW n \in 1 .. MaxAttempts, Concluded(n)', q \notin Faulty PROVE RowAgrees(q, n)'
    <3>1. n < attempt /\ Concluded(n)
      BY <1>1, <2>3 DEF Concluded
    <3>2. RowAgrees(q, n)
      BY <2>3, <3>1 DEF Inv, TraceInv
    <3>3. T.attempt # n
      BY <2>1, <3>1
    <3> QED BY <1>1, <1>4, <3>2, <3>3 DEF RowAgrees
  <2> QED BY <1>1, <1>4, <1>5, <2>1, <2>2, <2>3
<1> QED BY <1>6, <1>7, <1>8 DEF Inv

LEMMA ConcludeStep == Inv /\ Conclude => Inv'
<1> SUFFICES ASSUME Inv, Conclude PROVE Inv'
  OBVIOUS
<1>1. pc = "emit" /\ pending = {} /\ UNCHANGED <<cap, attempt, reply, pending, rows>>
  BY DEF Conclude
<1>2. reply # None /\ reply \in RepliesTo(cap) /\ cap \in Capability /\ attempt \in 1 .. MaxAttempts
  BY <1>1 DEF Inv, TypeOK, PhaseInv
<1>3. failures \in [1 .. MaxAttempts -> ProviderFailure \cup {None}] /\ failures[attempt] = None
  BY <1>1, <1>2 DEF Inv, TypeOK, FailureInv, Concluded, MaxAttempts
<1> DEFINE f == Classify(ErrorOf(reply))
<1>4. ~ Succeeded(reply) => ErrorOf(reply) \in Error /\ f \in ProviderFailure
  BY <1>2, ErrorType, ClassifyType
<1>5. \/ /\ Succeeded(reply) /\ failures' = failures
         /\ report' = Judged(reply) /\ pc' = "done"
      \/ /\ ~ Succeeded(reply) /\ failures' = [failures EXCEPT ![attempt] = f]
         /\ f \notin Retryable \/ attempt = MaxAttempts
         /\ report' = AsAttempt(f) /\ pc' = "done"
      \/ /\ ~ Succeeded(reply) /\ failures' = [failures EXCEPT ![attempt] = f]
         /\ f \in Retryable /\ attempt # MaxAttempts
         /\ report' = report /\ pc' = "backoff"
  BY DEF Conclude, Fail, End
<1>6. pc' \in {"done", "backoff"} /\ \A n \in 1 .. MaxAttempts : n # attempt => failures'[n] = failures[n]
  BY <1>2, <1>3, <1>5
<1>7. failures'[attempt] = IF Succeeded(reply) THEN None ELSE f
  BY <1>2, <1>3, <1>5
<1>8. TypeOK'
  <2>1. failures' \in [1 .. MaxAttempts -> ProviderFailure \cup {None}]
    BY <1>3, <1>4, <1>5
  <2>2. report' \in Attempt \cup {None}
    BY <1>2, <1>4, <1>5, ValueInPort, FailureInPort DEF AttemptOf, Inv, TypeOK
  <2> QED BY <1>1, <1>6, <2>1, <2>2 DEF Inv, TypeOK
<1>9. PhaseInv'
  BY <1>1, <1>2, <1>5 DEF Inv, PhaseInv, MaxAttempts
<1>10. FailureInv'
  <2>1. \A n \in 1 .. MaxAttempts : ~ Concluded(n)' => failures'[n] = None
    BY <1>1, <1>6 DEF Inv, FailureInv, Concluded
  <2>2. \A n \in 1 .. MaxAttempts : n < attempt => failures'[n] \in Retryable
    BY <1>2, <1>6 DEF Inv, FailureInv, MaxAttempts
  <2> QED BY <1>1, <1>2, <1>5, <1>7, <2>1, <2>2 DEF FailureInv, MaxAttempts
<1>11. TraceInv'
  <2> SUFFICES ASSUME NEW s \in Sink
               PROVE  /\ \A t \in rows[s] : t.attempt <= attempt
                      /\ s \notin Faulty =>
                          \A n \in 1 .. MaxAttempts : Concluded(n)' => RowAgrees(s, n)'
    BY <1>1, <1>6 DEF TraceInv
  <2>1. /\ \A t \in rows[s] : t.attempt <= attempt
        /\ \A t \in rows[s] : t.attempt = attempt => t = Traced(attempt, reply)
        /\ s \notin Faulty => Traced(attempt, reply) \in rows[s]
    BY <1>1 DEF Inv, TraceInv
  <2>2. ASSUME NEW n \in 1 .. MaxAttempts, Concluded(n)', s \notin Faulty, n < attempt
        PROVE  RowAgrees(s, n)'
    <3>1. RowAgrees(s, n)
      BY <2>2 DEF Inv, TraceInv, Concluded
    <3>2. failures'[n] = failures[n]
      BY <1>2, <1>6, <2>2 DEF MaxAttempts
    <3> QED BY <1>1, <3>1, <3>2 DEF RowAgrees
  <2>3. ASSUME s \notin Faulty PROVE RowAgrees(s, attempt)'
    <3> DEFINE T == Traced(attempt, reply)
    <3>1. T.attempt = attempt /\ T \in rows[s]
      BY <2>1, <2>3 DEF Traced
    <3>2. T.outcome = "ok" <=> failures'[attempt] = None
      <4>1. CASE Succeeded(reply)
        BY <1>7, <4>1 DEF Traced
      <4>2. CASE ~ Succeeded(reply)
        <5>1. T.outcome = OutcomeOf(ErrorOf(reply)) /\ failures'[attempt] = f /\ f # None
          BY <1>4, <1>7, <4>2, RepliesAssumption DEF Traced
        <5>2. T.outcome # "ok"
          BY <1>4, <4>2, <5>1, OutcomeType
        <5> QED BY <5>1, <5>2
      <4> QED BY <4>1, <4>2
    <3>3. T.outcome = "schema_error" <=> failures'[attempt] = "schema_violation"
      <4>1. CASE Succeeded(reply)
        BY <1>7, <4>1, RepliesAssumption DEF Traced, ProviderFailure
      <4>2. CASE ~ Succeeded(reply)
        BY <1>4, <1>7, <4>2, TwoReadingsAgree DEF Traced
      <4> QED BY <4>1, <4>2
    <3> QED BY <1>1, <2>1, <3>1, <3>2, <3>3 DEF RowAgrees
  <2> QED BY <1>1, <1>2, <2>1, <2>2, <2>3 DEF Concluded, MaxAttempts
<1> QED BY <1>8, <1>9, <1>10, <1>11 DEF Inv

LEMMA CallAgainStep == Inv /\ CallAgain => Inv'
<1> SUFFICES ASSUME Inv, CallAgain PROVE Inv'
  OBVIOUS
<1>1. /\ pc = "backoff" /\ attempt' = attempt + 1 /\ reply' = None /\ pc' = "called"
      /\ UNCHANGED <<cap, pending, rows, failures, report>>
  BY DEF CallAgain
<1>2. attempt \in 1 .. MaxAttempts /\ attempt < MaxAttempts /\ failures[attempt] \in Retryable
  BY <1>1 DEF Inv, PhaseInv, FailureInv
<1>3. \A n \in 1 .. MaxAttempts : Concluded(n)' <=> Concluded(n)
  BY <1>1, <1>2 DEF Concluded, MaxAttempts
<1>4. TypeOK'
  BY <1>1, <1>2 DEF Inv, TypeOK, MaxAttempts
<1>5. PhaseInv'
  BY <1>1, <1>2 DEF Inv, PhaseInv, MaxAttempts
<1>6. FailureInv'
  BY <1>1, <1>2, <1>3 DEF Inv, FailureInv, MaxAttempts
<1>7. TraceInv'
  <2> SUFFICES ASSUME NEW s \in Sink
               PROVE  /\ \A t \in rows[s] : t.attempt <= attempt + 1 /\ t.attempt < attempt + 1
                      /\ s \notin Faulty =>
                          \A n \in 1 .. MaxAttempts : Concluded(n) => RowAgrees(s, n)'
    BY <1>1, <1>3 DEF TraceInv
  <2>1. \A t \in rows[s] : t.attempt \in 1 .. MaxAttempts /\ t.attempt <= attempt
    BY DEF Inv, TypeOK, TraceInv
  <2>2. \A n \in 1 .. MaxAttempts : RowAgrees(s, n)' <=> RowAgrees(s, n)
    BY <1>1 DEF RowAgrees
  <2> QED BY <1>2, <2>1, <2>2 DEF Inv, TraceInv, MaxAttempts
<1> QED BY <1>4, <1>5, <1>6, <1>7 DEF Inv

LEMMA StepInv == Inv /\ [Next]_vars => Inv'
<1> SUFFICES ASSUME Inv, [Next]_vars PROVE Inv'
  OBVIOUS
<1>1. CASE UNCHANGED vars
  BY <1>1 DEF vars, Inv, TypeOK, PhaseInv, FailureInv, TraceInv, RowAgrees, Concluded
<1> QED BY <1>1, AskStep, AnswerStep, RecordStep, ConcludeStep, CallAgainStep DEF Next, Advance

\* The invariant of the probe, for every set of replies and of sinks.
THEOREM InvHolds == Spec => []Inv
BY InitInv, StepInv, PTL DEF Spec

(* ------------------------------ the properties --------------------------- *)

\* Every variable keeps its type (the locals of _with_retries and the columns of
\* llm_call_logs).
THEOREM TypeOKHolds == Spec => []TypeOK
<1>1. Inv => TypeOK
  BY DEF Inv
<1> QED BY <1>1, InvHolds, PTL

\* Whatever the provider answers and whichever sinks fail, probe() keeps the port the
\* preflight service is modelled over: one report, allowed for its capability.
THEOREM KeepsThePortHolds == Spec => KeepsThePort
<1>1. Init => Port!Init
  BY DEF Init, Port!Init
<1>2. Inv /\ [Next]_vars => [Port!Next]_Port!vars
  <2> SUFFICES ASSUME Inv, [Next]_vars PROVE Port!Next \/ UNCHANGED Port!vars
    OBVIOUS
  <2>1. CASE Ask
    <3>1. cap = None /\ cap' \in Capability /\ report' = report
      BY <2>1 DEF Ask, Inv, PhaseInv
    <3>2. Port!Ask
      BY <3>1 DEF Port!Ask, Port!Capability, Capability
    <3> QED BY <3>2 DEF Port!Next
  <2>2. CASE Conclude
    <3>1. cap \in Capability /\ cap # None /\ reply \in RepliesTo(cap) /\ report = None /\ UNCHANGED cap
      BY <2>2, RepliesAssumption DEF Conclude, Inv, TypeOK, PhaseInv
    <3>2. CASE Succeeded(reply)
      BY <2>2, <3>1, <3>2, ValueInPort DEF Conclude, End, Port!Next, Port!Report, Port!AttemptOf,
         Port!Attempt, AttemptOf, Attempt
    <3>3. CASE ~ Succeeded(reply)
      <4>1. Classify(ErrorOf(reply)) \in ProviderFailure
        BY <3>1, <3>3, ErrorType, ClassifyType
      <4> QED BY <2>2, <3>1, <3>3, <4>1, FailureInPort DEF Conclude, Fail, End, Port!Next, Port!Report,
              Port!AttemptOf, Port!Attempt, AttemptOf, Attempt, Port!vars
    <3> QED BY <3>2, <3>3
  <2>3. ASSUME Answer \/ (\E s \in Sink : Record(s)) \/ CallAgain PROVE UNCHANGED Port!vars
    BY <2>3 DEF Answer, Record, CallAgain, Port!vars
  <2>4. CASE UNCHANGED vars
    BY <2>4 DEF vars, Port!vars
  <2> QED BY <2>1, <2>2, <2>3, <2>4 DEF Next, Advance
<1> QED BY <1>1, <1>2, InvHolds, PTL DEF Spec, KeepsThePort, Port!Safe

\* Every attempt leaves exactly one row in every sink that works, in agreement with
\* the classification the retries went by.
THEOREM EveryCallIsTracedHolds == Spec => []EveryCallIsTraced
<1>1. Inv => EveryCallIsTraced
  <2> SUFFICES ASSUME Inv, NEW s \in Sink \ Faulty, NEW n \in 1 .. MaxAttempts,
                      pc \in {"backoff", "done"}, n <= attempt
               PROVE  RowAgrees(s, n)
    BY DEF EveryCallIsTraced, RowAgrees
  <2>1. Concluded(n)
    BY DEF Inv, PhaseInv, Concluded, MaxAttempts
  <2> QED BY <2>1 DEF Inv, TraceInv
<1> QED BY <1>1, InvHolds, PTL

\* A key is only reported rejected on an answer that blamed it.
THEOREM RejectedOnlyIfBlamedHolds == Spec => []RejectedOnlyIfBlamed
<1>1. Inv => RejectedOnlyIfBlamed
  <2> SUFFICES ASSUME Inv, report # None, report.result = "credential_rejected"
               PROVE  Blames(ErrorOf(reply))
    BY DEF RejectedOnlyIfBlamed
  <2>1. pc = "done" /\ cap \in Capability /\ reply \in RepliesTo(cap)
    BY DEF Inv, TypeOK, PhaseInv
  <2>2. ~ Succeeded(reply)
    BY <2>1 DEF Inv, FailureInv, Judged, Report
  <2>3. ErrorOf(reply) \in Error
    BY <2>1, <2>2, ErrorType
  <2>4. Classify(ErrorOf(reply)) \in ProviderFailure /\ report = AsAttempt(Classify(ErrorOf(reply)))
    BY <2>1, <2>2, <2>3, ClassifyType DEF Inv, FailureInv
  <2>5. Classify(ErrorOf(reply)) = "credential_rejected"
    BY <2>4 DEF AsAttempt, Report, ProviderFailure, Unreachable, ModelGone
  <2> QED BY <2>3, <2>5, RejectionIsBlame
<1> QED BY <1>1, InvHolds, PTL

\* No call follows a conclusive answer, giving up takes every attempt, and the failure
\* reported is the last one.
THEOREM NothingCalledInVainHolds == Spec => []NothingCalledInVain
<1>1. Inv => NothingCalledInVain
  <2> SUFFICES ASSUME Inv PROVE NothingCalledInVain
    OBVIOUS
  <2>1. \A n \in 1 .. MaxAttempts :
           n < attempt => failures[n] \in {"unreachable", "quota_exceeded", "schema_violation"}
    BY DEF Inv, FailureInv, Retryable
  <2>2. ASSUME report # None, report.result \in {Unreachable, "quota_exceeded"}
        PROVE  attempt = MaxAttempts
    <3>1. pc = "done" /\ cap \in Capability /\ reply \in RepliesTo(cap)
      BY <2>2 DEF Inv, TypeOK, PhaseInv
    <3>2. ~ Succeeded(reply)
      BY <2>2, <3>1 DEF Inv, FailureInv, Judged, Report, Unreachable
    <3>3. ErrorOf(reply) \in Error
      BY <3>1, <3>2, ErrorType
    <3>4. /\ Classify(ErrorOf(reply)) \in ProviderFailure
          /\ report = AsAttempt(Classify(ErrorOf(reply)))
          /\ Classify(ErrorOf(reply)) \notin Retryable \/ attempt = MaxAttempts
      BY <3>1, <3>2, <3>3, ClassifyType DEF Inv, FailureInv
    <3> QED BY <2>2, <3>4 DEF AsAttempt, Report, ProviderFailure, Unreachable, ModelGone, Retryable
  <2>3. (report # None /\ ~ Succeeded(reply)) => report = AsAttempt(failures[attempt])
    BY DEF Inv, PhaseInv, TypeOK, FailureInv
  <2> QED BY <2>1, <2>2, <2>3 DEF NothingCalledInVain
<1> QED BY <1>1, InvHolds, PTL
===============================================================================
