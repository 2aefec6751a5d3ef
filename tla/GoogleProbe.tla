------------------------------ MODULE GoogleProbe ------------------------------
(***************************************************************************)
(* One probe() of adapters/llm/google.py: _with_retries around the call to *)
(* the provider, with every attempt traced (adapters/llm/tracing.py) to    *)
(* the sinks of db/repositories/llm_call_log_repository.py.                *)
(*                                                                         *)
(* The provider may answer each attempt with any reply of Replies; nothing *)
(* relates one answer to the next.                                         *)
(***************************************************************************)
EXTENDS Replies

CONSTANTS
    Answers,  \* bound: the replies of this instance
    Sink,     \* the registered trace sinks
    Faulty    \* those whose database may refuse the row

MaxAttempts == 3

Retryable == {"unreachable", "quota_exceeded", "schema_violation"}

ASSUME ProbeAssumption ==
    /\ \A r \in Answers : \E c \in Capability : r \in RepliesTo(c)
    /\ None \notin Answers
    /\ Faulty \subseteq Sink

VARIABLES
    cap,      \* the capability probed, None before
    pc,       \* the next step of the probe
    attempt,  \* number of the attempt under way
    reply,    \* what the last call came back with, None while it is out
    pending,  \* sinks the trace of this attempt has not reached
    rows,     \* per sink: the rows it stored
    failures, \* history: the classification of each failed attempt, None if none
    report    \* what the probe reported, None until it ends

vars == <<cap, pc, attempt, reply, pending, rows, failures, report>>

Init ==
    /\ cap = None /\ pc = "idle" /\ attempt = 0 /\ reply = None
    /\ pending = {}
    /\ rows = [s \in Sink |-> {}]
    /\ failures = [n \in 1 .. MaxAttempts |-> None]
    /\ report = None

\* probe() of either port, up to its first call.
Ask ==
    /\ pc = "idle"
    /\ cap' \in Capability
    /\ attempt' = 1
    /\ pc' = "called"
    /\ UNCHANGED <<reply, pending, rows, failures, report>>

\* The call ends, with a value or an exception, and its trace is on the way out.
Answer ==
    /\ pc = "called"
    /\ \E r \in Answers : r \in RepliesTo(cap) /\ reply' = r
    /\ pending' = Sink
    /\ pc' = "emit"
    /\ UNCHANGED <<cap, attempt, rows, failures, report>>

\* emit, for one sink: its own transaction, whose failure goes no further.
Record(s) ==
    /\ pc = "emit" /\ s \in pending
    /\ pending' = pending \ {s}
    /\ \/ rows' = [rows EXCEPT ![s] = @ \cup {Traced(attempt, reply)}]
       \/ s \in Faulty /\ UNCHANGED rows
    /\ UNCHANGED <<cap, pc, attempt, reply, failures, report>>

End(result) == /\ report' = result
               /\ pc' = "done"

\* Slip: the last failure is retried as well.
SlipFail(failure) ==
    /\ failures' = [failures EXCEPT ![attempt] = failure]
    /\ IF failure \notin Retryable
       THEN End(AsAttempt(failure))
       ELSE pc' = "backoff" /\ UNCHANGED report

\* Slip: of several failures the first is kept, not the last.
SlipLastFailure(failure) ==
    /\ failures' = [failures EXCEPT ![attempt] = failure]
    /\ IF failure \notin Retryable \/ attempt = MaxAttempts
       THEN End(AsAttempt(failures'[1]))
       ELSE pc' = "backoff" /\ UNCHANGED report

\* Another attempt if the failure is worth it and there is one left.
Fail(failure) ==
    /\ failures' = [failures EXCEPT ![attempt] = failure]
    /\ IF failure \notin Retryable \/ attempt = MaxAttempts
       THEN End(AsAttempt(failure))
       ELSE pc' = "backoff" /\ UNCHANGED report

\* The trace is out: the value, or the exception that was held back.
Conclude ==
    /\ pc = "emit" /\ pending = {}
    /\ IF Succeeded(reply)
       THEN End(Judged(reply)) /\ UNCHANGED failures
       ELSE Fail(Classify(ErrorOf(reply)))
    /\ UNCHANGED <<cap, attempt, reply, pending, rows>>

\* Slip: the attempts are not counted.
SlipCallAgain ==
    /\ pc = "backoff"
    /\ reply' = None
    /\ pc' = "called"
    /\ UNCHANGED <<cap, attempt, pending, rows, failures, report>>

\* The backoff is over.
CallAgain ==
    /\ pc = "backoff"
    /\ attempt' = attempt + 1
    /\ reply' = None
    /\ pc' = "called"
    /\ UNCHANGED <<cap, pending, rows, failures, report>>

Advance == Answer \/ (\E s \in Sink : Record(s)) \/ Conclude \/ CallAgain

Next == Ask \/ Advance

Spec == Init /\ [][Next]_vars

\* asyncio.run gives the coroutine its turns, and every call comes back: no deadline
\* of this code ends one that the provider leaves open.
FairSpec == Spec /\ WF_vars(Advance)

(* ------------------------------ the properties --------------------------- *)

\* Every variable keeps the type its locals and columns have in the code.
TypeOK ==
    /\ cap \in Capability \cup {None}
    /\ pc \in {"idle", "called", "emit", "backoff", "done"}
    /\ attempt \in 0 .. MaxAttempts
    /\ reply \in Answers \cup {None}
    /\ reply # None => reply \in RepliesTo(cap)
    /\ pending \subseteq Sink
    /\ rows \in [Sink -> SUBSET [attempt : 1 .. MaxAttempts, outcome : TraceOutcome,
                                 tokens : BOOLEAN]]
    /\ failures \in [1 .. MaxAttempts -> ProviderFailure \cup {None}]
    /\ report \in Attempt \cup {None}

\* What the probe reports is an attempt of the port, for every sequence of replies,
\* and it reports once (base.py: CapabilityProbePort).
Port == INSTANCE CapabilityProbe

KeepsThePort == Port!Safe

\* Every call the user pays for leaves one row in every sink that works, even when a
\* sink before it failed and even when the call did, and the outcome column agrees
\* with the classification the retries went by (tracing.py and google.py each read
\* the exception on their own).
EveryCallIsTraced ==
    \A s \in Sink \ Faulty, n \in 1 .. MaxAttempts :
        pc \in {"backoff", "done"} /\ n <= attempt =>
            \E t \in rows[s] :
                /\ t.attempt = n /\ \A u \in rows[s] : u.attempt = n => u = t
                /\ t.outcome = "ok" <=> failures[n] = None
                /\ t.outcome = "schema_error" <=> failures[n] = "schema_violation"

\* A rejection is only ever reported on an answer that blamed the key, never after
\* a timeout, a 5xx or an unexplained 400, whatever earlier attempts came back with
\* and whatever a 429 or a 5xx says about keys in its text: the candidate would
\* regenerate a key that works (google.py:133-135).
Blames(e) ==
    \/ e.status \in {401, 403}
    \/ /\ e.status \in {400, None}
       /\ \/ e.message
          \/ e.text \cap {"api key", "API_KEY_INVALID", "UNAUTHENTICATED",
                          "PERMISSION_DENIED"} # {}

RejectedOnlyIfBlamed ==
    (report # None /\ report.result = "credential_rejected") => Blames(ErrorOf(reply))

\* What is reported never forgets a conclusive answer: an attempt follows another
\* only after failures that another call may cure, giving up takes the three
\* attempts, and of several failures it is the one that stopped the calls that is
\* reported, not one before it (google.py: the `last` of _with_retries).
NothingCalledInVain ==
    /\ \A n \in 1 .. MaxAttempts : n < attempt =>
        failures[n] \in {"unreachable", "quota_exceeded", "schema_violation"}
    /\ (report # None /\ report.result \in {Unreachable, "quota_exceeded"}) =>
        attempt = MaxAttempts
    /\ (report # None /\ ~ Succeeded(reply)) => report = AsAttempt(failures[attempt])

\* Every probe ends, if the provider answers every call one way or another.
EveryProbeEnds == pc = "called" ~> pc = "done"
===============================================================================
