---------------------------- MODULE PreflightProofs ----------------------------
(***************************************************************************)
(* What the preflight guarantees for every number of requests, keys and    *)
(* edits: the inductive invariant, and the safety properties of Preflight  *)
(* as its consequences.                                                    *)
(***************************************************************************)
EXTENDS Preflight, TLAPS

\* Some probe of capability c was made with key k.
Earned(c, k) == \E p \in probed : p.cap = c /\ p.key = k

\* The report of its own probe that a PUT is about to store.
OwnReport(r) == [cap |-> op[r].cap, key |-> op[r].key, model |-> ModelOf(op[r]),
                 outcome |-> attempt[r]]

Reading == {"file", "digest", "mint", "mint_write", "ack_select", "ack_commit"}

\* What was submitted matches where the request is.
KindInv(r) ==
    /\ pc[r] # "idle" => op[r] \in Op
    /\ pc[r] \in {"truncate", "write", "probe", "select", "commit"} => op[r].kind = "put"
    /\ pc[r] \in {"row", "file"} => op[r].kind # "put"
    /\ pc[r] \in {"ack_select", "ack_commit"} => op[r].kind = "ack"
    /\ pc[r] \in {"ack_select", "ack_commit"} => ~ acked[r]
    /\ pc[r] # "done" => answer[r] = None

\* A PUT past its probe holds the report of that probe and the key it was made with.
PutInv(r) ==
    (Running(r) /\ op[r].kind = "put") =>
        /\ cred[r] = op[r].key
        /\ pc[r] \notin {"truncate", "write", "probe"} =>
            /\ attempt[r] \in AttemptOf(op[r].cap)
            /\ attempt[r].result # ModelGone
            /\ OwnReport(r) \in probed
        /\ pc[r] \in {"select", "commit"} =>
            /\ attempt[r].result # Unreachable
            /\ digest[r] \in Digest /\ digest[r][2] = op[r].key

\* A read holds a row whose credential was probed; one that nobody has overtaken
\* holds the current row, and an acknowledgement the preflight it was checked on.
ReadInv(r) ==
    (pc[r] \in Reading /\ op[r].kind # "put") =>
        /\ seen[r] # NoRow
        /\ row[op[r].cap] # NoRow
        /\ Earned(op[r].cap, seen[r].digest[2])
        /\ pc[r] \in {"digest", "mint", "mint_write"} => cred[r] \in Key
        /\ (op[r].kind = "ack" /\ ~ acked[r] /\ ~ raced[r]) =>
            /\ seen[r] = row[op[r].cap]
            /\ agreed[r] = row[op[r].cap].at
            /\ pc[r] \in {"ack_select", "ack_commit"} =>
                row[op[r].cap].result = "capability_unverified"

\* A save that nobody has overtaken holds the current row; one that was overtaken
\* finds some row there.
SaveInv(r) ==
    pc[r] = "commit" =>
        /\ raced[r] \/ seen[r] # NoRow => row[op[r].cap] # NoRow
        /\ ~ raced[r] => seen[r] = row[op[r].cap]

RowInv(c) ==
    row[c] # NoRow =>
        /\ RowAllowed(c, row[c])
        /\ Earned(c, row[c].digest[2])
        /\ row[c].ack # None => acked[row[c].ack]
        /\ ~ tainted[c] =>
            /\ SaysOf(c, row[c].digest[2])
            /\ row[c].ack # None => agreed[row[c].ack] = row[c].at

AnswerInv(r) ==
    /\ answer[r] = "usable" => Earned(op[r].cap, cred[r])
    /\ answer[r] = "integrity_error" => raced[r]

RequestInv(r) ==
    /\ KindInv(r)
    /\ PutInv(r)
    /\ ReadInv(r)
    /\ SaveInv(r)
    /\ AnswerInv(r)

Inv == /\ TypeOK
       /\ \A r \in Request : RequestInv(r)
       /\ \A c \in Touched : RowInv(c)

(* ------------------- steps that leave the rows alone --------------------- *)

\* What all steps of request r but its two commits have in common.
Quiet(r) ==
    /\ UNCHANGED <<row, tainted, configured, acked>>
    /\ probed \subseteq probed'
    /\ acked[r] => agreed'[r] = agreed[r]
    /\ \A q \in Request \ {r} :
        /\ pc'[q] = pc[q] /\ op'[q] = op[q] /\ cred'[q] = cred[q]
        /\ attempt'[q] = attempt[q] /\ digest'[q] = digest[q] /\ seen'[q] = seen[q]
        /\ answer'[q] = answer[q] /\ agreed'[q] = agreed[q] /\ raced'[q] = raced[q]

\* Such a step can only disturb what is known of r itself.
LEMMA QuietStep ==
    ASSUME Inv, NEW r \in Request, Quiet(r), TypeOK', RequestInv(r)' PROVE Inv'
<1> USE DEF Inv, Quiet
<1>1. ASSUME NEW q \in Request, q # r PROVE RequestInv(q)'
  <2>1. RequestInv(q)
    OBVIOUS
  <2>2. KindInv(q)'
    BY <1>1, <2>1 DEF RequestInv, KindInv
  <2>3. PutInv(q)'
    BY <1>1, <2>1 DEF RequestInv, PutInv, OwnReport, ModelOf, Running
  <2>4. ReadInv(q)'
    BY <1>1, <2>1 DEF RequestInv, ReadInv, Earned
  <2>5. SaveInv(q)'
    BY <1>1, <2>1 DEF RequestInv, SaveInv
  <2>6. AnswerInv(q)'
    BY <1>1, <2>1 DEF RequestInv, AnswerInv, Earned
  <2> QED BY <2>2, <2>3, <2>4, <2>5, <2>6 DEF RequestInv
<1>2. ASSUME NEW c \in Touched PROVE RowInv(c)'
  <2>1. RowInv(c)
    OBVIOUS
  <2>2. ASSUME row[c] # NoRow, row[c].ack # None PROVE agreed'[row[c].ack] = agreed[row[c].ack]
    BY <2>1, <2>2 DEF RowInv, TypeOK, Row
  <2> QED BY <2>1, <2>2 DEF RowInv, Earned, SaysOf
<1> QED BY <1>1, <1>2

LEMMA TruncateFileStep ==
    ASSUME Inv, NEW r \in Request, TruncateFile(r) PROVE Inv'
<1> USE DEF TruncateFile, Truncate, Goto, Running, Ended, outside, held, history
<1>1. TypeOK'
  BY DEF Inv, TypeOK, Content, EmptyFile, Stored
<1>2. Quiet(r)
  BY DEF Inv, Quiet, TypeOK
<1>3. RequestInv(r)'
  BY DEF Inv, TypeOK, RequestInv, KindInv, PutInv, ReadInv, Reading, SaveInv, AnswerInv, Earned
<1> QED BY <1>1, <1>2, <1>3, QuietStep

LEMMA WriteFileStep ==
    ASSUME Inv, NEW r \in Request, WriteFile(r) PROVE Inv'
<1> USE DEF WriteFile, Goto, Running, Ended, outside, held, history
<1>1. TypeOK'
  BY DEF Inv, TypeOK, WriteOver, Content
<1>2. Quiet(r)
  BY DEF Inv, Quiet, TypeOK
<1>3. RequestInv(r)'
  BY DEF Inv, TypeOK, RequestInv, KindInv, PutInv, ReadInv, Reading, SaveInv, AnswerInv, Earned
<1> QED BY <1>1, <1>2, <1>3, QuietStep

LEMMA PutStep ==
    ASSUME Inv, NEW r \in Request, Put(r) PROVE Inv'
<1> USE DEF Put, Begins, Goto, End, outside, history
<1>1. PICK o \in Op : /\ o.kind = "put"
                     /\ op' = [op EXCEPT ![r] = o]
                     /\ cred' = [cred EXCEPT ![r] = o.key]
                     /\ \/ /\ End(r, "provider_not_offered") \/ End(r, "value_error")
                           /\ UNCHANGED body
                        \/ /\ body' = [body EXCEPT ![r] = Replaced(file, ApiKeyOf(o.cap), o.key)]
                           /\ Goto(r, "truncate") /\ UNCHANGED answer
  OBVIOUS
<1>2. o.key \in Key /\ o.cap \in Touched
  BY <1>1 DEF Op
<1>3. Replaced(file, ApiKeyOf(o.cap), o.key) \in Content
  BY <1>2 DEF Inv, TypeOK, Replaced, Content, Stored
<1>4. TypeOK'
  BY <1>1, <1>2, <1>3 DEF Inv, TypeOK, Answer
<1>5. Quiet(r)
  BY <1>1 DEF Inv, Quiet, TypeOK
<1>6. RequestInv(r)'
  <2>1. pc[r] = "idle" /\ answer[r] = None /\ op'[r] = o /\ cred'[r] = o.key
    BY <1>1 DEF Inv, TypeOK, RequestInv, KindInv
  <2>2. CASE UNCHANGED body /\ (End(r, "provider_not_offered") \/ End(r, "value_error"))
    <3>1. pc'[r] = "done" /\ answer'[r] \in {"provider_not_offered", "value_error"}
      BY <1>1, <2>2 DEF Inv, TypeOK
    <3> QED BY <1>1, <2>1, <3>1 DEF RequestInv, KindInv, PutInv, ReadInv, Reading, SaveInv,
               AnswerInv, Running, Ended
  <2>3. CASE Goto(r, "truncate") /\ UNCHANGED answer
    <3>1. pc'[r] = "truncate" /\ answer'[r] = None
      BY <1>1, <2>1, <2>3 DEF Inv, TypeOK
    <3> QED BY <1>1, <2>1, <3>1, PreflightAssumption DEF RequestInv, KindInv, PutInv, ReadInv,
               Reading, SaveInv, AnswerInv, Running, Ended, Answer
  <2> QED BY <1>1, <2>2, <2>3
<1> QED BY <1>4, <1>5, <1>6, QuietStep

LEMMA SubmitStep ==
    ASSUME Inv, NEW r \in Request, Submit(r) PROVE Inv'
<1> USE DEF Submit, Begins, Goto, outside, history
<1>1. TypeOK'
  BY DEF Inv, TypeOK
<1>2. Quiet(r)
  BY DEF Inv, Quiet, TypeOK
<1>3. RequestInv(r)'
  <2>1. pc[r] = "idle" /\ answer'[r] = None /\ pc'[r] = "row"
    BY DEF Inv, TypeOK, RequestInv, KindInv
  <2>2. op'[r] \in Op /\ op'[r].kind # "put"
    BY DEF Inv, TypeOK
  <2> QED BY <2>1, <2>2, PreflightAssumption DEF RequestInv, KindInv, PutInv, ReadInv, Reading,
             SaveInv, AnswerInv, Running, Ended, Answer
<1> QED BY <1>1, <1>2, <1>3, QuietStep

LEMMA ProbeStep ==
    ASSUME Inv, NEW r \in Request, Probe(r) PROVE Inv'
<1> USE DEF Probe, Goto, End, outside
<1>1. op[r] \in Op /\ op[r].kind = "put" /\ cred[r] = op[r].key /\ answer[r] = None
  BY DEF Inv, RequestInv, KindInv, PutInv, Running, Ended
<1>2. op[r].cap \in Touched /\ op[r].key \in Key /\ ModelOf(op[r]) \in Model
  BY <1>1, PreflightAssumption DEF Op, ModelOf, Inv, TypeOK
<1>3. PICK a \in AttemptOf(op[r].cap) :
        IF a.result = ModelGone
        THEN End(r, ModelGone) /\ UNCHANGED <<attempt, probed>>
        ELSE /\ attempt' = [attempt EXCEPT ![r] = a]
             /\ probed' = probed \cup {[cap |-> op[r].cap, key |-> op[r].key,
                                        model |-> ModelOf(op[r]), outcome |-> a]}
             /\ Goto(r, "digest") /\ UNCHANGED answer
  OBVIOUS
<1>4. a \in Attempt
  BY DEF AttemptOf
<1>5. TypeOK'
  BY <1>2, <1>3, <1>4 DEF Inv, TypeOK, Answer
<1>6. Quiet(r)
  BY <1>3 DEF Inv, Quiet, TypeOK
<1>7. CASE a.result = ModelGone
  <2>1. RequestInv(r)'
    BY <1>1, <1>3, <1>7 DEF Inv, TypeOK, RequestInv, KindInv, PutInv, ReadInv, Reading,
       SaveInv, AnswerInv, Earned, Running, Ended, ModelGone
  <2> QED BY <2>1, <1>5, <1>6, QuietStep
<1>8. CASE a.result # ModelGone
  <2>1. pc'[r] = "digest" /\ attempt'[r] = a
    BY <1>3, <1>8 DEF Inv, TypeOK
  <2>2. OwnReport(r)' \in probed'
    BY <1>3, <1>8, <2>1 DEF OwnReport, ModelOf
  <2>3. PutInv(r)'
    BY <1>1, <1>8, <2>1, <2>2 DEF PutInv, AttemptOf
  <2>4. KindInv(r)' /\ ReadInv(r)' /\ SaveInv(r)'
    BY <1>1, <1>3, <1>8, <2>1 DEF KindInv, ReadInv, SaveInv
  <2>5. AnswerInv(r)'
    BY <1>1, <1>3, <1>8, PreflightAssumption DEF AnswerInv, Answer
  <2> QED BY <2>3, <2>4, <2>5, <1>5, <1>6, QuietStep DEF RequestInv
<1> QED BY <1>7, <1>8

\* A response is one of the answers, and says usable only of a credential that
\* matched.
LEMMA ViewOfAnswers ==
    ASSUME NEW w, NEW m \in BOOLEAN
    PROVE /\ ViewOf(w, m) \in Answer
          /\ ViewOf(w, m) # "integrity_error"
          /\ ViewOf(w, m) = "usable" => m
BY DEF ViewOf, Answer

\* A read that ends, or an acknowledgement that goes on, keeps what is known of it.
LEMMA ViewedStep ==
    ASSUME Inv, NEW r \in Request, NEW m \in BOOLEAN, pc[r] \in Reading, op[r].kind # "put",
           Viewed(r, m), UNCHANGED <<row, op, acked, seen, history>>,
           m => Earned(op[r].cap, cred'[r])
    PROVE /\ RequestInv(r)'
          /\ pc' \in [Request -> {pc[q] : q \in Request} \cup {"done", "ack_select"}]
          /\ answer' \in [Request -> Answer \cup {None}]
          /\ \A q \in Request \ {r} : pc'[q] = pc[q] /\ answer'[q] = answer[q]
<1> USE DEF history
<1>1. /\ op[r] \in Op /\ answer[r] = None /\ seen[r] # NoRow /\ ReadInv(r)
      /\ pc \in [Request -> {pc[q] : q \in Request}]
      /\ answer \in [Request -> Answer \cup {None}]
  BY DEF Inv, TypeOK, RequestInv, KindInv, ReadInv, Reading
<1>2. CASE op[r].kind = "get" \/ acked[r]
  <2>1. /\ pc' = [pc EXCEPT ![r] = "done"]
        /\ answer' = [answer EXCEPT ![r] = ViewOf(seen[r], m)]
    BY <1>2 DEF Viewed, End
  <2>2. AnswerInv(r)'
    BY <1>1, <2>1, ViewOfAnswers DEF AnswerInv, Earned
  <2>3. KindInv(r)' /\ PutInv(r)' /\ ReadInv(r)' /\ SaveInv(r)'
    BY <1>1, <2>1 DEF KindInv, PutInv, ReadInv, SaveInv, Running, Ended, Reading
  <2> QED BY <1>1, <2>1, <2>2, <2>3, ViewOfAnswers DEF RequestInv
<1>3. CASE ~ (op[r].kind = "get" \/ acked[r]) /\ seen[r].result = "capability_unverified"
  <2>1. pc' = [pc EXCEPT ![r] = "ack_select"] /\ answer' = answer
    BY <1>3 DEF Viewed, Goto
  <2>2. op[r].kind = "ack"
    BY <1>1, <1>3 DEF Op
  <2>3. ReadInv(r)'
    BY <1>1, <1>3, <2>1, <2>2 DEF ReadInv, Reading, Earned
  <2>4. KindInv(r)' /\ PutInv(r)' /\ SaveInv(r)'
    BY <1>1, <1>3, <2>1, <2>2 DEF KindInv, PutInv, SaveInv
  <2>5. AnswerInv(r)'
    BY <1>1, <2>1, PreflightAssumption DEF AnswerInv, Answer
  <2> QED BY <1>1, <2>1, <2>3, <2>4, <2>5 DEF RequestInv
<1>4. CASE ~ (op[r].kind = "get" \/ acked[r]) /\ seen[r].result # "capability_unverified"
  <2>1. /\ pc' = [pc EXCEPT ![r] = "done"]
        /\ answer' = [answer EXCEPT ![r] = "degradation_ack_required"]
    BY <1>4 DEF Viewed, End
  <2>2. RequestInv(r)'
    BY <1>1, <2>1 DEF RequestInv, KindInv, PutInv, ReadInv, SaveInv, AnswerInv, Running, Ended, Reading
  <2> QED BY <1>1, <2>1, <2>2 DEF Answer
<1> QED BY <1>2, <1>3, <1>4

\* Whichever installation key it uses, a request that computes its fingerprint
\* keeps what is known of it.
LEMMA DigestedStep ==
    ASSUME Inv, NEW r \in Request, NEW i \in InstallationKey,
           pc[r] \in {"digest", "mint_write"}, Digested(r, i),
           ikey' \in InstallationKey \cup {None},
           UNCHANGED <<file, edits, configured, row, held, seen, history>>
    PROVE Inv'
<1> DEFINE d == Fingerprint(cred[r], i)
<1> USE DEF held, history
<1>1. /\ op[r] \in Op /\ answer[r] = None /\ PutInv(r) /\ ReadInv(r)
      /\ pc[r] \notin {"idle", "done"} /\ Running(r)
  BY DEF Inv, TypeOK, RequestInv, KindInv, Running, Ended
<1>2. cred[r] \in Key
  BY <1>1 DEF PutInv, ReadInv, Reading, Op, Running, Ended
<1>3. d \in Digest /\ d[2] = cred[r]
  BY <1>2 DEF Fingerprint, Digest
<1>4. digest' = [digest EXCEPT ![r] = d]
  BY DEF Digested
<1>5. digest' \in [Request -> Digest \cup {None}] /\ digest'[r] = d
  BY <1>3, <1>4 DEF Inv, TypeOK
<1>6. CASE op[r].kind # "put"
  <2> DEFINE m == (d = seen[r].digest)
  <2>1. Viewed(r, m)
    BY <1>6 DEF Digested
  <2>2. m => Earned(op[r].cap, cred'[r])
    BY <1>1, <1>3, <1>6 DEF ReadInv, Reading
  <2> HIDE DEF m
  <2>3. m \in BOOLEAN
    BY DEF m
  <2>4. /\ RequestInv(r)'
        /\ pc' \in [Request -> {pc[q] : q \in Request} \cup {"done", "ack_select"}]
        /\ answer' \in [Request -> Answer \cup {None}]
        /\ \A q \in Request \ {r} : pc'[q] = pc[q] /\ answer'[q] = answer[q]
    BY <1>6, <2>1, <2>2, <2>3, ViewedStep DEF Reading
  <2>5. TypeOK'
    BY <1>5, <2>4 DEF Inv, TypeOK
  <2>6. Quiet(r)
    BY <1>4, <2>4 DEF Inv, TypeOK, Quiet
  <2> QED BY <2>4, <2>5, <2>6, QuietStep
<1>7. CASE op[r].kind = "put" /\ attempt[r].result = Unreachable
  <2>1. pc' = [pc EXCEPT ![r] = "done"] /\ answer' = [answer EXCEPT ![r] = Unreachable]
    BY <1>7 DEF Digested, End
  <2>2. TypeOK'
    BY <1>5, <2>1 DEF Inv, TypeOK, Answer
  <2>3. Quiet(r)
    BY <1>4, <2>1 DEF Inv, TypeOK, Quiet
  <2>4. pc'[r] = "done" /\ answer'[r] = Unreachable
    BY <2>1 DEF Inv, TypeOK
  <2>5. RequestInv(r)'
    BY <1>1, <2>4 DEF RequestInv, KindInv, PutInv, ReadInv, SaveInv, AnswerInv, Running, Ended,
       Reading, Unreachable
  <2> QED BY <2>2, <2>3, <2>5, QuietStep
<1>8. CASE op[r].kind = "put" /\ attempt[r].result # Unreachable
  <2>1. pc' = [pc EXCEPT ![r] = "select"] /\ answer' = answer
    BY <1>8 DEF Digested, Goto
  <2>2. TypeOK'
    BY <1>5, <2>1 DEF Inv, TypeOK
  <2>3. Quiet(r)
    BY <1>4, <2>1 DEF Inv, TypeOK, Quiet
  <2>4. pc'[r] = "select" /\ answer'[r] = None
    BY <1>1, <2>1 DEF Inv, TypeOK
  <2>5. PutInv(r)'
    BY <1>1, <1>3, <1>5, <1>8, <2>4 DEF PutInv, OwnReport, ModelOf
  <2>6. KindInv(r)' /\ ReadInv(r)' /\ SaveInv(r)' /\ AnswerInv(r)'
    BY <1>1, <1>8, <2>4, PreflightAssumption DEF KindInv, ReadInv, SaveInv, AnswerInv, Answer
  <2> QED BY <2>2, <2>3, <2>5, <2>6, QuietStep DEF RequestInv
<1> QED BY <1>6, <1>7, <1>8

LEMMA DigestCredentialStep ==
    ASSUME Inv, NEW r \in Request, DigestCredential(r) PROVE Inv'
<1> USE DEF DigestCredential, outside
<1>1. CASE ikey # None
  <2>1. ikey \in InstallationKey
    BY <1>1 DEF Inv, TypeOK
  <2> QED BY <1>1, <2>1, DigestedStep
<1>2. CASE ikey = None
  <2> USE DEF Goto, held, history
  <2>1. TypeOK'
    BY <1>2 DEF Inv, TypeOK
  <2>2. Quiet(r)
    BY <1>2 DEF Inv, TypeOK, Quiet
  <2>3. RequestInv(r)'
    BY <1>2 DEF Inv, TypeOK, RequestInv, KindInv, PutInv, OwnReport, ModelOf, ReadInv, Reading,
       SaveInv, AnswerInv, Earned, Running, Ended
  <2> QED BY <2>1, <2>2, <2>3, QuietStep
<1> QED BY <1>1, <1>2

LEMMA TruncateInstallationKeyStep ==
    ASSUME Inv, NEW r \in Request, TruncateInstallationKey(r) PROVE Inv'
<1> USE DEF TruncateInstallationKey, Goto, held, history
<1>1. TypeOK'
  BY DEF Inv, TypeOK
<1>2. Quiet(r)
  BY DEF Inv, TypeOK, Quiet
<1>3. RequestInv(r)'
  BY DEF Inv, TypeOK, RequestInv, KindInv, PutInv, OwnReport, ModelOf, ReadInv, Reading, SaveInv,
     AnswerInv, Earned, Running, Ended
<1> QED BY <1>1, <1>2, <1>3, QuietStep

LEMMA WriteInstallationKeyStep ==
    ASSUME Inv, NEW r \in Request, WriteInstallationKey(r) PROVE Inv'
<1>1. <<r, acked[r]>> \in InstallationKey
  BY DEF Inv, TypeOK, InstallationKey
<1> QED BY <1>1, DigestedStep DEF WriteInstallationKey

LEMMA SelectForSaveStep ==
    ASSUME Inv, NEW r \in Request, SelectForSave(r) PROVE Inv'
<1> USE DEF SelectForSave, Goto, outside, held
<1>1. op[r] \in Op /\ op[r].cap \in Touched /\ op[r].kind = "put" /\ answer[r] = None
  BY DEF Inv, RequestInv, KindInv, Op
<1>2. TypeOK'
  BY <1>1 DEF Inv, TypeOK
<1>3. Quiet(r)
  BY DEF Inv, TypeOK, Quiet
<1>4. /\ pc'[r] = "commit" /\ seen'[r] = row[op[r].cap] /\ op'[r] = op[r]
      /\ row' = row /\ ~ raced'[r]
  BY DEF Inv, TypeOK
<1>5. PutInv(r)'
  BY <1>1, <1>4 DEF Inv, RequestInv, PutInv, OwnReport, ModelOf, Running, Ended
<1>6. KindInv(r)' /\ ReadInv(r)' /\ SaveInv(r)'
  BY <1>1, <1>4 DEF KindInv, ReadInv, SaveInv
<1>7. AnswerInv(r)'
  BY <1>1, PreflightAssumption DEF AnswerInv, Answer
<1> QED BY <1>2, <1>3, <1>5, <1>6, <1>7, QuietStep DEF RequestInv

LEMMA SelectForAckStep ==
    ASSUME Inv, NEW r \in Request, SelectForAck(r) PROVE Inv'
<1> USE DEF SelectForAck, Goto, outside, held, history
<1>1. op[r] \in Op /\ op[r].cap \in Touched /\ op[r].kind = "ack" /\ answer[r] = None /\ ~ acked[r]
  BY DEF Inv, RequestInv, KindInv, Op
<1>2. TypeOK'
  BY <1>1 DEF Inv, TypeOK
<1>3. Quiet(r)
  BY DEF Inv, TypeOK, Quiet
<1>4. pc'[r] = "ack_commit" /\ seen'[r] = row[op[r].cap] /\ op'[r] = op[r]
  BY DEF Inv, TypeOK
<1>5. ReadInv(r)'
  <2>1. row[op[r].cap] # NoRow /\ RowInv(op[r].cap) /\ ReadInv(r)
    BY <1>1 DEF Inv, RequestInv, ReadInv, Reading
  <2> QED BY <1>1, <1>4, <2>1 DEF ReadInv, Reading, RowInv, Earned
<1>6. KindInv(r)' /\ PutInv(r)' /\ SaveInv(r)'
  BY <1>1, <1>4 DEF KindInv, PutInv, SaveInv
<1>7. AnswerInv(r)'
  BY <1>1, PreflightAssumption DEF AnswerInv, Answer
<1> QED BY <1>2, <1>3, <1>5, <1>6, <1>7, QuietStep DEF RequestInv

LEMMA ReadRowStep ==
    ASSUME Inv, NEW r \in Request, ReadRow(r) PROVE Inv'
<1> USE DEF ReadRow, outside, held
<1>1. op[r] \in Op /\ op[r].cap \in Touched /\ op[r].kind # "put" /\ answer[r] = None
  BY DEF Inv, RequestInv, KindInv, Op
<1>2. seen'[r] = row[op[r].cap] /\ row[op[r].cap] \in Row \cup {NoRow}
  BY <1>1 DEF Inv, TypeOK
<1>3. \A q \in Request \ {r} : agreed'[q] = agreed[q] /\ raced'[q] = raced[q]
  BY DEF Inv, TypeOK
<1>4. raced' \in [Request -> BOOLEAN] /\ seen' \in [Request -> Row \cup {NoRow}]
  BY <1>2 DEF Inv, TypeOK
<1>5. CASE row[op[r].cap] = NoRow
  <2> DEFINE response == IF op[r].kind = "get" THEN "null" ELSE "degradation_ack_required"
  <2>1. /\ pc' = [pc EXCEPT ![r] = "done"] /\ agreed' = agreed
        /\ answer' = [answer EXCEPT ![r] = response]
    BY <1>5 DEF End
  <2>2. response \in Answer /\ response \notin {"usable", "integrity_error"}
    BY DEF Answer
  <2> HIDE DEF response
  <2>3. TypeOK'
    BY <1>4, <2>1, <2>2 DEF Inv, TypeOK
  <2>4. Quiet(r)
    BY <1>3, <2>1 DEF Inv, TypeOK, Quiet
  <2>5. pc'[r] = "done" /\ answer'[r] = response
    BY <2>1 DEF Inv, TypeOK
  <2>6. RequestInv(r)'
    BY <1>1, <2>2, <2>5 DEF RequestInv, KindInv, PutInv, ReadInv, SaveInv, AnswerInv, Running,
       Ended, Reading
  <2> QED BY <2>3, <2>4, <2>6, QuietStep
<1>6. CASE row[op[r].cap] # NoRow
  <2>1. pc' = [pc EXCEPT ![r] = "file"] /\ answer' = answer
    BY <1>6 DEF Goto
  <2>2. row[op[r].cap].at \in Request
    BY <1>2, <1>6 DEF Row
  <2>3. TypeOK'
    BY <1>4, <1>6, <2>1, <2>2 DEF Inv, TypeOK
  <2>4. Quiet(r)
    BY <1>3, <1>6, <2>1 DEF Inv, TypeOK, Quiet
  <2>5. pc'[r] = "file" /\ answer'[r] = None
    BY <1>1, <2>1 DEF Inv, TypeOK
  <2>6. ~ acked[r] => agreed'[r] = row[op[r].cap].at
    BY <1>6 DEF Inv, TypeOK
  <2>7. RowInv(op[r].cap)
    BY <1>1 DEF Inv
  <2>8. ReadInv(r)'
    BY <1>1, <1>2, <1>6, <2>5, <2>6, <2>7 DEF ReadInv, RowInv, Earned
  <2>9. KindInv(r)' /\ PutInv(r)' /\ SaveInv(r)' /\ AnswerInv(r)'
    BY <1>1, <2>5, PreflightAssumption DEF KindInv, PutInv, SaveInv, AnswerInv, Answer
  <2> QED BY <2>3, <2>4, <2>8, <2>9, QuietStep DEF RequestInv
<1> QED BY <1>5, <1>6

LEMMA ReadCredentialStep ==
    ASSUME Inv, NEW r \in Request, ReadCredential(r) PROVE Inv'
<1> DEFINE k == Credential(op[r].cap)
<1> USE DEF ReadCredential, outside, history
<1>1. op[r] \in Op /\ op[r].cap \in Touched /\ op[r].kind # "put" /\ answer[r] = None
  BY DEF Inv, RequestInv, KindInv, Op
<1>2. k \in Key \cup {NoKey}
  <2>1. ApiKeyOf(op[r].cap) \in Name
    BY DEF ApiKeyOf, Name
  <2> QED BY <2>1, CredentialAssumption, PreflightAssumption
          DEF Credential, Inv, TypeOK, Content, Stored
<1> HIDE DEF k
<1>3. cred' = [cred EXCEPT ![r] = k] /\ cred'[r] = k
  BY DEF Inv, TypeOK, k
<1>4. cred' \in [Request -> Key \cup Stored]
  BY <1>2, <1>3 DEF Inv, TypeOK, Stored
<1>5. CASE k = NoKey
  <2>1. Viewed(r, FALSE)
    BY <1>5 DEF k
  <2>2. /\ RequestInv(r)'
        /\ pc' \in [Request -> {pc[q] : q \in Request} \cup {"done", "ack_select"}]
        /\ answer' \in [Request -> Answer \cup {None}]
        /\ \A q \in Request \ {r} : pc'[q] = pc[q] /\ answer'[q] = answer[q]
    BY <1>1, <2>1, ViewedStep DEF Reading
  <2>3. TypeOK'
    BY <1>4, <2>2 DEF Inv, TypeOK
  <2>4. Quiet(r)
    BY <1>3, <2>2 DEF Inv, TypeOK, Quiet
  <2> QED BY <2>2, <2>3, <2>4, QuietStep
<1>6. CASE k # NoKey
  <2>1. pc' = [pc EXCEPT ![r] = "digest"] /\ answer' = answer
    BY <1>6 DEF Goto, k
  <2>2. TypeOK'
    BY <1>4, <2>1 DEF Inv, TypeOK
  <2>3. Quiet(r)
    BY <1>3, <2>1 DEF Inv, TypeOK, Quiet
  <2>4. pc'[r] = "digest" /\ answer'[r] = None
    BY <1>1, <2>1 DEF Inv, TypeOK
  <2>5. ReadInv(r)'
    BY <1>1, <1>2, <1>3, <1>6, <2>4 DEF Inv, RequestInv, ReadInv, Reading, Earned
  <2>6. KindInv(r)' /\ PutInv(r)' /\ SaveInv(r)' /\ AnswerInv(r)'
    BY <1>1, <2>4, PreflightAssumption DEF KindInv, PutInv, SaveInv, AnswerInv, Answer
  <2> QED BY <2>2, <2>3, <2>5, <2>6, QuietStep DEF RequestInv
<1> QED BY <1>5, <1>6

(* ---------------------- steps that commit to a row ----------------------- *)

\* What the two commits of request r have in common.
Committed(r, t, lost) ==
    /\ row' = [row EXCEPT ![op[r].cap] = t]
    /\ tainted' = [tainted EXCEPT ![op[r].cap] = lost]
    /\ Overtaken(op[r].cap, r)
    /\ UNCHANGED <<configured, op, cred, attempt, digest, seen, probed, agreed>>
    /\ \A q \in Request : acked[q] => acked'[q]
    /\ \A q \in Request \ {r} :
        pc'[q] = pc[q] /\ answer'[q] = answer[q] /\ acked'[q] = acked[q]

\* A commit overtakes the other requests on its row, and disturbs nothing else of
\* them.
LEMMA CommitStep ==
    ASSUME Inv, NEW r \in Request, NEW t \in Row, NEW lost, Committed(r, t, lost),
           op[r].cap \in Touched, TypeOK', RequestInv(r)', RowInv(op[r].cap)'
    PROVE Inv'
<1> USE DEF Inv, Committed
<1>1. t # NoRow
  BY NoRowAssumption
<1>2. ASSUME NEW q \in Request, q # r PROVE RequestInv(q)'
  <2>1. RequestInv(q)
    OBVIOUS
  <2>2. KindInv(q)'
    BY <1>2, <2>1 DEF RequestInv, KindInv
  <2>3. PutInv(q)'
    BY <1>2, <2>1 DEF RequestInv, PutInv, OwnReport, ModelOf, Running
  <2>4. raced'[q] = (raced[q] \/ (Running(q) /\ op[q].cap = op[r].cap))
    BY <1>2 DEF Overtaken
  <2>5. ASSUME Running(q), ~ raced'[q]
        PROVE  ~ raced[q] /\ (op[q].cap \in Touched => row'[op[q].cap] = row[op[q].cap])
    BY <2>4, <2>5 DEF TypeOK
  <2>6. op[q] \in Op => op[q].cap \in Touched
    BY DEF Op
  <2>7. \A c \in Touched : row[c] # NoRow => row'[c] # NoRow
    BY <1>1 DEF TypeOK
  <2>8. ReadInv(q)'
    BY <1>2, <2>1, <2>5, <2>6, <2>7 DEF RequestInv, ReadInv, KindInv, Reading, Earned, Running, Ended
  <2>9. SaveInv(q)'
    <3> SUFFICES ASSUME pc'[q] = "commit" PROVE SaveInv(q)'
      BY DEF SaveInv
    <3>1. pc[q] = "commit" /\ Running(q) /\ op[q] \in Op /\ op'[q] = op[q] /\ seen'[q] = seen[q]
      BY <1>2, <2>1 DEF RequestInv, KindInv, Running, Ended
    <3>2. SaveInv(q) /\ op[q].cap \in Touched
      BY <2>1, <2>6, <3>1 DEF RequestInv
    <3>3. op[q].cap = op[r].cap => row'[op[q].cap] # NoRow
      BY <1>1 DEF TypeOK
    <3>4. raced'[q] \/ seen[q] # NoRow => row'[op[q].cap] # NoRow
      BY <2>4, <2>7, <3>1, <3>2, <3>3 DEF SaveInv
    <3> QED BY <2>5, <3>1, <3>2, <3>4 DEF SaveInv
  <2>10. AnswerInv(q)'
    BY <1>2, <2>1, <2>4 DEF RequestInv, AnswerInv, Earned
  <2> QED BY <2>2, <2>3, <2>8, <2>9, <2>10 DEF RequestInv
<1>3. ASSUME NEW c \in Touched, c # op[r].cap PROVE RowInv(c)'
  <2>1. RowInv(c) /\ row'[c] = row[c] /\ tainted'[c] = tainted[c]
    BY <1>3 DEF TypeOK
  <2>2. row[c] # NoRow /\ row[c].ack # None => row[c].ack \in Request
    BY DEF TypeOK, Row
  <2> QED BY <2>1, <2>2 DEF RowInv, Earned, SaysOf
<1> QED BY <1>2, <1>3

\* Writing every column that differs from what was loaded writes the whole row, if
\* what was loaded is what is there.
LEMMA UpdateOfCurrent ==
    ASSUME NEW new \in Row, NEW current \in Row PROVE Update(new, current, current) = new
BY DEF Update, Column, Row

LEMMA UpdateIsRow ==
    ASSUME NEW new \in Row, NEW loaded \in Row, NEW current \in Row
    PROVE  /\ Update(new, loaded, current) \in Row
           /\ Update(new, loaded, current).digest \in {new.digest, current.digest}
           /\ Update(new, loaded, current).ack \in {new.ack, current.ack}
BY DEF Update, Column, Row

\* What a save that is about to commit holds: its own report, in a row of its own that
\* every constraint allows, and that is the whole row it writes unless it was overtaken.
LEMMA AboutToSave ==
    ASSUME Inv, NEW r \in Request, pc[r] = "commit", NEW c, c = op[r].cap
    PROVE  /\ op[r] \in Op /\ op[r].kind = "put" /\ answer[r] = None
           /\ c \in Touched /\ RowInv(c) /\ SaveInv(r)
           /\ seen[r] \in Row \cup {NoRow} /\ row[c] \in Row \cup {NoRow}
           /\ cred[r] = op[r].key /\ OwnReport(r) \in probed
           /\ digest[r] \in Digest /\ digest[r][2] = op[r].key
           /\ attempt[r] \in Attempt /\ attempt[r].result \in Result
           /\ Saved(r) \in Row /\ RowAllowed(c, Saved(r))
           /\ ~ raced[r] => /\ seen[r] = row[c]
                            /\ seen[r] # NoRow => Update(Saved(r), seen[r], row[c]) = Saved(r)
<1>1. /\ op[r] \in Op /\ op[r].kind = "put" /\ answer[r] = None
      /\ c \in Touched /\ RowInv(c) /\ SaveInv(r)
      /\ seen[r] \in Row \cup {NoRow} /\ row[c] \in Row \cup {NoRow}
  BY DEF Inv, TypeOK, RequestInv, KindInv, Op
<1>2. /\ cred[r] = op[r].key /\ attempt[r] \in AttemptOf(c) /\ attempt[r].result # ModelGone
      /\ OwnReport(r) \in probed /\ attempt[r].result # Unreachable
      /\ digest[r] \in Digest /\ digest[r][2] = op[r].key
  BY <1>1 DEF Inv, RequestInv, PutInv, Running, Ended
<1>3. ModelOf(op[r]) \in Model
  BY <1>1, PreflightAssumption DEF Op, ModelOf, Inv, TypeOK
<1>4. /\ attempt[r] \in Attempt /\ attempt[r].result \in Result
      /\ attempt[r].reasons # None <=> attempt[r].result = "capability_unverified"
      /\ attempt[r].dim # None <=> c = "embeddings" /\ attempt[r].result = "verified"
  BY <1>2, OutcomeAssumption DEF AttemptOf, Attempt
<1>5. Saved(r) \in Row
  BY <1>2, <1>3, <1>4 DEF Saved, Row, Attempt
<1>6. RowAllowed(c, Saved(r))
  BY <1>4 DEF RowAllowed, ReasonsAllowed, Saved
<1>7. ~ raced[r] => /\ seen[r] = row[c]
                    /\ seen[r] # NoRow => Update(Saved(r), seen[r], row[c]) = Saved(r)
  BY <1>1, <1>5, UpdateOfCurrent DEF SaveInv
<1> QED BY <1>1, <1>2, <1>4, <1>5, <1>6, <1>7

LEMMA CommitSaveStep ==
    ASSUME Inv, NEW r \in Request, CommitSave(r) PROVE Inv'
<1> DEFINE fresh == seen[r] = NoRow
<1>0. PICK c, t : /\ c = op[r].cap
                  /\ t = IF fresh THEN Saved(r) ELSE Update(Saved(r), seen[r], row[c])
  OBVIOUS
<1> USE <1>0
<1>1. /\ pc[r] = "commit" /\ op[r] \in Op /\ op[r].kind = "put" /\ answer[r] = None
      /\ c \in Touched /\ RowInv(c) /\ SaveInv(r)
      /\ seen[r] \in Row \cup {NoRow} /\ row[c] \in Row \cup {NoRow}
  BY AboutToSave DEF CommitSave
<1>2. /\ cred[r] = op[r].key /\ OwnReport(r) \in probed
      /\ digest[r] \in Digest /\ digest[r][2] = op[r].key
  BY <1>1, AboutToSave
<1>4. attempt[r] \in Attempt /\ attempt[r].result \in Result
  BY <1>1, AboutToSave
<1>5. Saved(r) \in Row
  BY <1>1, AboutToSave
<1>6. RowAllowed(c, Saved(r))
  BY <1>1, AboutToSave
<1>7. ~ raced[r] => (fresh => row[c] = NoRow) /\ t = Saved(r)
  BY <1>1, AboutToSave
<1>8. Earned(c, op[r].key)
  BY <1>2 DEF Earned, OwnReport
<1>9. CASE (fresh => row[c] = NoRow) /\ RowAllowed(c, t)
  <2>1. /\ row' = [row EXCEPT ![c] = t]
        /\ tainted' = [tainted EXCEPT ![c] = raced[r]]
        /\ Overtaken(c, r)
        /\ pc' = [pc EXCEPT ![r] = "done"]
        /\ answer' = [answer EXCEPT ![r] = SavedAnswer(attempt[r])]
        /\ UNCHANGED <<outside, held, digest, seen, probed, agreed, lone>>
    BY <1>9 DEF CommitSave, End
  <2>2. /\ t \in Row
        /\ t.digest = digest[r] \/ (row[c] # NoRow /\ t.digest = row[c].digest)
        /\ t.ack = None \/ (row[c] # NoRow /\ t.ack = row[c].ack)
    <3>1. Saved(r).digest = digest[r] /\ Saved(r).ack = None
      BY DEF Saved
    <3>2. CASE fresh
      BY <1>5, <3>1, <3>2
    <3>3. CASE ~ fresh
      <4>1. row[c] # NoRow
        BY <1>1, <3>3 DEF SaveInv
      <4> QED BY <1>1, <1>5, <3>1, <3>3, <4>1, UpdateIsRow
    <3> QED BY <3>2, <3>3
  <2>3. SavedAnswer(attempt[r]) \in Answer /\ SavedAnswer(attempt[r]) # "integrity_error"
    BY <1>4 DEF SavedAnswer, Answer, Result
  <2>4. Committed(r, t, raced[r])
    BY <2>1 DEF Committed, outside, held, Inv, TypeOK
  <2>5. raced' \in [Request -> BOOLEAN] /\ raced'[r] = raced[r]
    BY <2>1 DEF Overtaken, Inv, TypeOK
  <2>6. TypeOK'
    <3>1. raced[r] \in BOOLEAN
      BY DEF Inv, TypeOK
    <3>2. row' \in [Touched -> Row \cup {NoRow}] /\ tainted' \in [Touched -> BOOLEAN]
      BY <2>1, <2>2, <3>1 DEF Inv, TypeOK
    <3> QED BY <2>1, <2>3, <2>5, <3>2 DEF Inv, TypeOK, outside, held
  <2>7. RequestInv(r)'
    <3>1. /\ pc'[r] = "done" /\ answer'[r] = SavedAnswer(attempt[r])
          /\ op' = op /\ cred' = cred /\ probed' = probed
      BY <2>1 DEF Inv, TypeOK, held
    <3>2. AnswerInv(r)'
      BY <1>2, <1>8, <2>3, <3>1 DEF AnswerInv, Earned
    <3> QED BY <1>1, <3>1, <3>2 DEF RequestInv, KindInv, PutInv, ReadInv, SaveInv, Running,
               Ended, Reading
  <2>8. RowInv(c)'
    <3>1. /\ row'[c] = t /\ tainted'[c] = raced[r] /\ op'[r].cap = c
          /\ acked' = acked /\ agreed' = agreed /\ probed' = probed
      BY <1>1, <2>1 DEF Inv, TypeOK, held
    <3>2. Earned(c, t.digest[2])'
      BY <1>1, <1>2, <1>8, <2>2, <3>1 DEF Earned, RowInv
    <3>3. t.ack # None => acked'[t.ack]
      BY <1>1, <2>2, <3>1 DEF RowInv
    <3>4. ASSUME ~ raced[r]
          PROVE  SaysOf(c, t.digest[2])' /\ t.ack = None
      <4>1. t = Saved(r)
        BY <1>7, <3>4
      <4>2. [result |-> t.result, reasons |-> t.reasons, dim |-> t.dim] = attempt[r]
        BY <1>4, <4>1 DEF Saved, Attempt
      <4>3. t.model = ModelOf(op[r]) /\ t.digest[2] = op[r].key /\ t.ack = None
        BY <1>2, <4>1 DEF Saved
      <4> QED BY <1>2, <3>1, <4>2, <4>3 DEF SaysOf, OwnReport
    <3>5. RowAllowed(c, t)
      BY <1>9
    <3> QED BY <3>1, <3>2, <3>3, <3>4, <3>5 DEF RowInv, RowAllowed, ReasonsAllowed, SaysOf, Earned
  <2>9. RowInv(op[r].cap)'
    BY <2>1, <2>8 DEF held
  <2> QED BY <1>1, <2>2, <2>4, <2>6, <2>7, <2>9, CommitStep
<1>10. CASE ~ ((fresh => row[c] = NoRow) /\ RowAllowed(c, t))
  <2>1. /\ pc' = [pc EXCEPT ![r] = "done"]
        /\ answer' = [answer EXCEPT ![r] = "integrity_error"]
        /\ UNCHANGED <<outside, row, held, digest, seen, history>>
    BY <1>10 DEF CommitSave, End, history
  <2>2. raced[r]
    BY <1>6, <1>7, <1>10
  <2>3. TypeOK'
    BY <2>1 DEF Inv, TypeOK, Answer, outside, held, history
  <2>4. Quiet(r)
    BY <2>1 DEF Inv, TypeOK, Quiet, outside, held, history
  <2>5. pc'[r] = "done" /\ answer'[r] = "integrity_error" /\ raced'[r] /\ op' = op
    BY <2>1, <2>2 DEF Inv, TypeOK, held, history
  <2>6. RequestInv(r)'
    BY <1>1, <2>5 DEF RequestInv, KindInv, PutInv, ReadInv, SaveInv, AnswerInv, Running,
       Ended, Reading
  <2> QED BY <2>3, <2>4, <2>6, QuietStep
<1> QED BY <1>9, <1>10

LEMMA CommitAckStep ==
    ASSUME Inv, NEW r \in Request, CommitAck(r) PROVE Inv'
<1>0. PICK c, t : /\ c = op[r].cap
                  /\ t = Update([seen[r] EXCEPT !.ack = r], seen[r], row[c])
  OBVIOUS
<1> USE <1>0
<1>1. /\ pc[r] = "ack_commit" /\ op[r] \in Op /\ op[r].kind = "ack" /\ answer[r] = None
      /\ ~ acked[r] /\ c \in Touched /\ RowInv(c) /\ ReadInv(r)
  BY DEF CommitAck, Inv, RequestInv, KindInv, Op
<1>2. seen[r] \in Row /\ row[c] \in Row /\ row[c] # NoRow
  BY <1>1 DEF ReadInv, Reading, Inv, TypeOK
<1>3. [seen[r] EXCEPT !.ack = r] \in Row
  BY <1>2 DEF Row
<1>4. /\ t \in Row /\ t.digest \in {seen[r].digest, row[c].digest} /\ t.ack \in {r, row[c].ack}
  <2>1. /\ [seen[r] EXCEPT !.ack = r].ack = r
        /\ [seen[r] EXCEPT !.ack = r].digest = seen[r].digest
    BY <1>2 DEF Row
  <2> QED BY <1>2, <1>3, <2>1, UpdateIsRow
\* Unless it was overtaken, it holds the row, and writes the acknowledgement only.
<1>5. ASSUME ~ raced[r]
      PROVE  /\ t = [row[c] EXCEPT !.ack = r]
             /\ agreed[r] = row[c].at
             /\ row[c].result = "capability_unverified"
  <2>1. /\ seen[r] = row[c] /\ agreed[r] = row[c].at
        /\ row[c].result = "capability_unverified"
    BY <1>1, <1>5 DEF ReadInv, Reading
  <2> QED BY <1>2, <1>3, <2>1, UpdateOfCurrent
<1>6. CASE RowAllowed(c, t)
  <2>1. /\ row' = [row EXCEPT ![c] = t]
        /\ tainted' = [tainted EXCEPT ![c] = tainted[c] \/ raced[r]]
        /\ Overtaken(c, r)
        /\ acked' = [acked EXCEPT ![r] = TRUE]
        /\ pc' = [pc EXCEPT ![r] = "row"] /\ answer' = answer
        /\ UNCHANGED <<outside, op, body, cred, attempt, digest, seen, probed, agreed, lone>>
    BY <1>1, <1>6 DEF CommitAck, Goto, Inv, TypeOK
  <2>2. Committed(r, t, tainted[c] \/ raced[r])
    BY <2>1 DEF Committed, outside, Inv, TypeOK
  <2>3. raced' \in [Request -> BOOLEAN] /\ acked' \in [Request -> BOOLEAN]
    BY <2>1 DEF Overtaken, Inv, TypeOK
  <2>4. TypeOK'
    <3>1. (tainted[c] \/ raced[r]) \in BOOLEAN
      OBVIOUS
    <3>2. row' \in [Touched -> Row \cup {NoRow}] /\ tainted' \in [Touched -> BOOLEAN]
      BY <1>4, <2>1, <3>1 DEF Inv, TypeOK
    <3> QED BY <2>1, <2>3, <3>2 DEF Inv, TypeOK, outside
  <2>5. RequestInv(r)'
    <3>1. pc'[r] = "row" /\ answer'[r] = None /\ op' = op
      BY <1>1, <2>1 DEF Inv, TypeOK
    <3> QED BY <1>1, <3>1, PreflightAssumption DEF RequestInv, KindInv, PutInv, ReadInv, SaveInv,
               AnswerInv, Running, Ended, Reading, Answer
  <2>6. RowInv(c)'
    <3>1. /\ row'[c] = t /\ tainted'[c] = (tainted[c] \/ raced[r])
          /\ \A q \in Request : acked'[q] = (q = r \/ acked[q])
          /\ agreed' = agreed /\ probed' = probed
      BY <1>1, <2>1 DEF Inv, TypeOK
    <3>2. Earned(c, t.digest[2])'
      BY <1>1, <1>2, <1>4, <3>1 DEF Earned, RowInv, ReadInv, Reading
    <3>3. t.ack # None => acked'[t.ack]
      BY <1>1, <1>2, <1>4, <3>1 DEF RowInv, Row
    <3>4. ASSUME ~ tainted[c], ~ raced[r]
          PROVE  SaysOf(c, t.digest[2])' /\ t.ack = r /\ agreed[r] = t.at
      <4>1. /\ t.result = row[c].result /\ t.reasons = row[c].reasons /\ t.dim = row[c].dim
            /\ t.model = row[c].model /\ t.digest = row[c].digest /\ t.at = row[c].at
            /\ t.ack = r /\ agreed[r] = t.at
        BY <1>2, <1>5, <3>4 DEF Row
      <4>2. SaysOf(c, row[c].digest[2])
        BY <1>1, <1>2, <3>4 DEF RowInv
      <4> QED BY <3>1, <4>1, <4>2 DEF SaysOf
    <3> QED BY <1>6, <3>1, <3>2, <3>3, <3>4 DEF RowInv, RowAllowed, ReasonsAllowed, SaysOf, Earned
  <2>7. RowInv(op[r].cap)'
    BY <2>1, <2>6
  <2> QED BY <1>1, <1>4, <2>2, <2>4, <2>5, <2>7, CommitStep
<1>7. CASE ~ RowAllowed(c, t)
  <2>1. /\ pc' = [pc EXCEPT ![r] = "done"]
        /\ answer' = [answer EXCEPT ![r] = "integrity_error"]
        /\ UNCHANGED <<outside, row, held, digest, seen, history>>
    BY <1>7 DEF CommitAck, End, history, held
  <2>2. raced[r]
    BY <1>1, <1>2, <1>5, <1>7 DEF RowInv, RowAllowed, ReasonsAllowed, Row
  <2>3. TypeOK'
    BY <2>1 DEF Inv, TypeOK, Answer, outside, held, history
  <2>4. Quiet(r)
    BY <2>1 DEF Inv, TypeOK, Quiet, outside, held, history
  <2>5. pc'[r] = "done" /\ answer'[r] = "integrity_error" /\ raced'[r] /\ op' = op
    BY <2>1, <2>2 DEF Inv, TypeOK, held, history
  <2>6. RequestInv(r)'
    BY <1>1, <2>5 DEF RequestInv, KindInv, PutInv, ReadInv, SaveInv, AnswerInv, Running,
       Ended, Reading
  <2> QED BY <2>3, <2>4, <2>6, QuietStep
<1> QED BY <1>6, <1>7

(* ----------------------- the world outside, and Init --------------------- *)

\* A restart may change the configured model, but no PUT survives it.
LEMMA RestartStep ==
    ASSUME Inv, Restart PROVE Inv'
<1> USE DEF Restart, Running, Ended, held, history
<1>1. TypeOK'
  BY DEF Inv, TypeOK
<1>2. ASSUME NEW r \in Request PROVE RequestInv(r)'
  <2>1. RequestInv(r) /\ pc'[r] \in {"idle", "done", "dead"} /\ (pc'[r] = pc[r] \/ pc'[r] = "dead")
    BY DEF Inv, TypeOK
  <2>2. (pc'[r] = "idle" <=> pc[r] = "idle") /\ (pc'[r] = "done" <=> pc[r] = "done")
    BY DEF Inv, TypeOK
  <2> QED BY <2>1, <2>2 DEF RequestInv, KindInv, PutInv, ReadInv, SaveInv, AnswerInv, Reading, Earned
<1>3. ASSUME NEW c \in Touched PROVE RowInv(c)'
  BY DEF Inv, RowInv, Earned, SaysOf
<1> QED BY <1>1, <1>2, <1>3 DEF Inv

LEMMA EditFileStep ==
    ASSUME Inv, EditFile PROVE Inv'
<1> USE DEF EditFile, held, history
<1>1. TypeOK'
  <2>1. edits' \in 0 .. MaxEdits
    BY PreflightAssumption DEF Inv, TypeOK
  <2>2. file' \in Content
    BY DEF Inv, TypeOK, Content
  <2> QED BY <2>1, <2>2 DEF Inv, TypeOK
<1>2. ASSUME NEW r \in Request PROVE RequestInv(r)'
  <2>1. RequestInv(r)
    BY DEF Inv
  <2> QED BY <2>1 DEF RequestInv, KindInv, PutInv, OwnReport, ModelOf, ReadInv, SaveInv, AnswerInv,
             Running, Earned
<1>3. ASSUME NEW c \in Touched PROVE RowInv(c)'
  BY DEF Inv, RowInv, Earned, SaysOf
<1> QED BY <1>1, <1>2, <1>3 DEF Inv

LEMMA StutterStep ==
    ASSUME Inv, UNCHANGED vars PROVE Inv'
<1> USE DEF vars, outside, held, history
<1>1. TypeOK'
  BY DEF Inv, TypeOK
<1>2. ASSUME NEW r \in Request PROVE RequestInv(r)'
  <2>1. RequestInv(r)
    BY DEF Inv
  <2> QED BY <2>1 DEF RequestInv, KindInv, PutInv, OwnReport, ModelOf, ReadInv, SaveInv, AnswerInv,
             Running, Earned
<1>3. ASSUME NEW c \in Touched PROVE RowInv(c)'
  BY DEF Inv, RowInv, Earned, SaysOf
<1> QED BY <1>1, <1>2, <1>3 DEF Inv

LEMMA InitInv == Init => Inv
<1> SUFFICES ASSUME Init PROVE Inv
  OBVIOUS
<1> USE DEF Init
<1>1. TypeOK
  BY PreflightAssumption DEF TypeOK, Content, EmptyFile, Stored
<1>2. ASSUME NEW r \in Request PROVE RequestInv(r)
  <2>1. pc[r] = "idle" /\ answer[r] = None
    OBVIOUS
  <2> QED BY <2>1, PreflightAssumption DEF RequestInv, KindInv, PutInv, ReadInv, SaveInv, AnswerInv,
             Running, Ended, Reading, Answer
<1>3. ASSUME NEW c \in Touched PROVE RowInv(c)
  BY DEF RowInv
<1> QED BY <1>1, <1>2, <1>3 DEF Inv

LEMMA NextInv == Inv /\ [Next]_vars => Inv'
<1> SUFFICES ASSUME Inv, [Next]_vars PROVE Inv'
  OBVIOUS
<1>1. ASSUME NEW r \in Request, Put(r) \/ Submit(r) PROVE Inv'
  BY <1>1, PutStep, SubmitStep
<1>2. ASSUME NEW r \in Request, Advance(r) PROVE Inv'
  BY <1>2, TruncateFileStep, WriteFileStep, ProbeStep, DigestCredentialStep,
     TruncateInstallationKeyStep, WriteInstallationKeyStep, SelectForSaveStep, CommitSaveStep,
     ReadRowStep, ReadCredentialStep, SelectForAckStep, CommitAckStep DEF Advance
<1> QED BY <1>1, <1>2, RestartStep, EditFileStep, StutterStep DEF Next

(* ----------------------------- the theorems ------------------------------ *)

\* The invariant holds of every behaviour, for every set of requests and keys.
THEOREM Invariance == Spec => []Inv
<1>1. Init => Inv
  BY InitInv
<1>2. Inv /\ [Next]_vars => Inv'
  BY NextInv
<1> QED BY <1>1, <1>2, PTL DEF Spec

\* Every variable keeps the type its columns, files and locals have in the code.
THEOREM TypeCorrect == Spec => []TypeOK
<1>1. Inv => TypeOK
  BY DEF Inv
<1> QED BY <1>1, Invariance, PTL

\* A usable capability was verified, with that model and that result, on the very
\* credential in force, unless the last save of its row was overtaken between its
\* SELECT and its UPDATE (preflight_service.py, "a result that lies").
THEOREM UsableIsHonestUnlessRacedHolds == Spec => []UsableIsHonestUnlessRaced
<1>1. Inv => UsableIsHonestUnlessRaced
  <2> SUFFICES ASSUME Inv, NEW c \in Touched, Usable(c), ~ tainted[c]
               PROVE  SaysOf(c, Credential(c))
    BY DEF UsableIsHonestUnlessRaced
  <2>1. row[c] # NoRow /\ Matches(c)
    BY ViewOfAnswers DEF Usable, ViewOf
  <2>2. row[c].digest[2] = Credential(c)
    BY <2>1 DEF Matches, Fingerprint
  <2>3. RowInv(c)
    BY DEF Inv
  <2> QED BY <2>1, <2>2, <2>3 DEF RowInv
<1> QED BY <1>1, Invariance, PTL

\* An acknowledgement in the row covers the preflight its request was checked
\* against, unless a commit on the row lost its race (save_preflight: "always
\* clears the degradation acknowledgement").
THEOREM AckIsInformedUnlessRacedHolds == Spec => []AckIsInformedUnlessRaced
<1>1. Inv => AckIsInformedUnlessRaced
  BY DEF Inv, RowInv, AckIsInformedUnlessRaced
<1> QED BY <1>1, Invariance, PTL

\* No response ever calls a credential usable for a capability that it was never
\* probed for, however the reads it was built from interleaved.
THEOREM NoUseWithoutProbeHolds == Spec => []NoUseWithoutProbe
<1>1. Inv => NoUseWithoutProbe
  BY DEF Inv, RequestInv, AnswerInv, Earned, NoUseWithoutProbe
<1> QED BY <1>1, Invariance, PTL

\* The constraints of provider_configurations refuse no write that had the row to
\* itself: save_preflight and acknowledge_degradation respect them all.
THEOREM RefusedOnlyIfRacedHolds == Spec => []RefusedOnlyIfRaced
<1>1. Inv => RefusedOnlyIfRaced
  BY DEF Inv, RequestInv, AnswerInv, RefusedOnlyIfRaced
<1> QED BY <1>1, Invariance, PTL

(* ------------------------- a save that runs alone ------------------------ *)

\* No key is typed with blanks around it: parsing the file gives back what was written.
Unpadded == \A k \in Key \ LineBreak : Strip[k] = k

\* A PUT that has had the installation to itself finds in the file the key it probed,
\* and digests it under the installation key that stays.
LoneInv(r) ==
    (Alone(r) /\ pc[r] # "idle" /\ op[r].kind = "put") =>
        /\ pc[r] \in {"truncate", "write"} => body[r][ApiKeyOf(op[r].cap)] = op[r].key
        /\ pc[r] = "write" => file = EmptyFile
        /\ pc[r] \in {"probe", "digest", "mint", "mint_write", "select", "commit"} =>
            file[ApiKeyOf(op[r].cap)] = op[r].key
        /\ pc[r] \in {"select", "commit"} =>
            ikey # None /\ digest[r] = Fingerprint(op[r].key, ikey)
        /\ pc[r] = "commit" => seen[r] = row[op[r].cap]
        /\ answer[r] = "usable" => Usable(op[r].cap)

\* Whoever has the installation to itself is the only one at work.
LoneAlone == lone # None => \A q \in Request : Running(q) => q = lone

\* A step of a request moves nobody else, and only what begins changes who is alone.
LEMMA Moves ==
    ASSUME Inv, NEW q \in Request, Put(q) \/ Submit(q) \/ Advance(q)
    PROVE  /\ \A r \in Request \ {q} : pc'[r] = pc[r]
           /\ Advance(q) => Running(q) /\ lone' = lone
<1> USE DEF Goto, End, Running, Ended
<1>1. pc \in [Request -> {"idle", "truncate", "write", "probe", "digest", "mint", "mint_write",
                          "select", "commit", "row", "file", "ack_select", "ack_commit", "done",
                          "dead"}]
  BY DEF Inv, TypeOK
<1>2. CASE TruncateFile(q) \/ WriteFile(q) \/ TruncateInstallationKey(q) \/ SelectForSave(q)
           \/ SelectForAck(q)
  BY <1>1, <1>2 DEF TruncateFile, WriteFile, TruncateInstallationKey, SelectForSave,
     SelectForAck, history
<1>3. CASE Probe(q)
  BY <1>1, <1>3 DEF Probe
<1>4. CASE DigestCredential(q) \/ WriteInstallationKey(q)
  BY <1>1, <1>4 DEF DigestCredential, WriteInstallationKey, Digested, Viewed, history
<1>5. CASE CommitSave(q) \/ CommitAck(q)
  BY <1>1, <1>5 DEF CommitSave, CommitAck
<1>6. CASE ReadRow(q) \/ ReadCredential(q)
  BY <1>1, <1>6 DEF ReadRow, ReadCredential, Viewed, history
<1>7. Advance(q) => (\A r \in Request \ {q} : pc'[r] = pc[r]) /\ Running(q) /\ lone' = lone
  BY <1>2, <1>3, <1>4, <1>5, <1>6 DEF Advance
<1>8. Put(q) \/ Submit(q) => \A r \in Request \ {q} : pc'[r] = pc[r]
  BY <1>1 DEF Put, Submit
<1> QED BY <1>7, <1>8

LEMMA LoneAloneStep == Inv /\ LoneAlone /\ [Next]_vars => LoneAlone'
<1> SUFFICES ASSUME Inv, LoneAlone, [Next]_vars PROVE LoneAlone'
  OBVIOUS
<1>1. ASSUME NEW q \in Request, Put(q) \/ Submit(q) PROVE LoneAlone'
  <2>1. lone' = IF \E p \in Request \ {q} : Running(p) THEN None ELSE q
    BY <1>1 DEF Put, Submit, Begins
  <2>2. \A p \in Request \ {q} : Running(p)' <=> Running(p)
    BY <1>1, Moves DEF Running, Ended
  <2> QED BY <2>1, <2>2 DEF LoneAlone
<1>2. ASSUME NEW q \in Request, Advance(q) PROVE LoneAlone'
  <2>1. lone' = lone /\ Running(q) /\ \A p \in Request \ {q} : Running(p)' <=> Running(p)
    BY <1>2, Moves DEF Running, Ended
  <2> QED BY <2>1 DEF LoneAlone
<1>3. CASE Restart
  <2>1. \A p \in Request : ~ Running(p)'
    BY <1>3 DEF Restart, Running, Ended
  <2> QED BY <2>1 DEF LoneAlone
<1>4. CASE EditFile
  BY <1>4 DEF EditFile, LoneAlone
<1>5. CASE UNCHANGED vars
  BY <1>5 DEF vars, history, LoneAlone, Running
<1> QED BY <1>1, <1>2, <1>3, <1>4, <1>5 DEF Next

\* Who has the installation to itself after a step took the step, or had it before.
LEMMA AloneBefore ==
    ASSUME Inv, LoneAlone, NEW r \in Request, [Next]_vars, Alone(r)'
    PROVE  \/ Put(r) \/ Submit(r)
           \/ Alone(r) /\ (Advance(r) \/ Restart \/ UNCHANGED vars)
<1>1. r # None
  BY PreflightAssumption
<1>2. ASSUME NEW q \in Request, Put(q) \/ Submit(q) PROVE q = r
  BY <1>1, <1>2 DEF Put, Submit, Begins, Alone
<1>3. ASSUME NEW q \in Request, Advance(q) PROVE q = r /\ Alone(r)
  BY <1>1, <1>3, Moves DEF LoneAlone, Alone
<1>4. ~ EditFile
  BY <1>1 DEF EditFile, Alone
<1>5. CASE Restart
  BY <1>5 DEF Restart, history, Alone
<1>6. CASE UNCHANGED vars
  BY <1>6 DEF vars, history, Alone
<1> QED BY <1>2, <1>3, <1>4, <1>5, <1>6 DEF Next

\* What is in the file is the credential in force.
LEMMA FileInForce ==
    ASSUME NEW c, NEW k \in Key, file[ApiKeyOf(c)] = k PROVE Credential(c) = k /\ k # NoKey
BY CredentialAssumption DEF Credential

\* The commit of a save that ran alone leaves its capability usable, if it says so.
LEMMA LoneCommit ==
    ASSUME Inv, NEW r \in Request, LoneInv(r), Alone(r), CommitSave(r), answer'[r] = "usable"
    PROVE  Usable(op[r].cap)'
<1>1. PICK c : c = op[r].cap
  OBVIOUS
<1> USE <1>1
<1>2. /\ pc[r] = "commit" /\ op[r] \in Op /\ op[r].kind = "put" /\ c \in Touched
      /\ op[r].key \in Key
  BY DEF CommitSave, Inv, RequestInv, KindInv, Op
<1>3. /\ attempt[r] \in AttemptOf(c) /\ attempt[r].result # ModelGone
      /\ attempt[r].result # Unreachable
  BY <1>2 DEF Inv, RequestInv, PutInv, Running, Ended
<1>4. /\ file[ApiKeyOf(c)] = op[r].key /\ ikey # None
      /\ digest[r] = Fingerprint(op[r].key, ikey) /\ seen[r] = row[c]
  BY <1>2 DEF LoneInv
<1>5. Saved(r) \in Row
  <2>1. attempt[r].result \in Result /\ attempt[r].reasons \in Reason \cup {None}
        /\ attempt[r].dim \in Dim \cup {None}
    BY <1>3, OutcomeAssumption DEF AttemptOf, Attempt
  <2>2. digest[r] \in Digest
    BY <1>2 DEF Inv, RequestInv, PutInv, Running, Ended
  <2>3. ModelOf(op[r]) \in Model
    BY <1>2, PreflightAssumption DEF Op, ModelOf, Inv, TypeOK
  <2> QED BY <2>1, <2>2, <2>3 DEF Saved, Row
<1>6. row[c] \in Row \cup {NoRow}
  BY <1>2 DEF Inv, TypeOK
<1>7. (IF seen[r] = NoRow THEN Saved(r) ELSE Update(Saved(r), seen[r], row[c])) = Saved(r)
  BY <1>4, <1>5, <1>6, UpdateOfCurrent
<1>8. CASE RowAllowed(c, Saved(r))
  <2>1. /\ row' = [row EXCEPT ![c] = Saved(r)]
        /\ answer' = [answer EXCEPT ![r] = SavedAnswer(attempt[r])]
        /\ UNCHANGED <<outside, held>>
    BY <1>4, <1>7, <1>8 DEF CommitSave, End
  <2>2. /\ row'[c] = Saved(r) /\ SavedAnswer(attempt[r]) = "usable"
        /\ file' = file /\ ikey' = ikey /\ op' = op
    BY <1>2, <2>1 DEF Inv, TypeOK, outside, held
  <2>3. attempt[r].result = "verified"
    BY <1>3, <2>2, OutcomeAssumption DEF SavedAnswer, AttemptOf, Attempt, Result
  <2>4. Credential(c)' = op[r].key /\ Credential(c)' # NoKey
    BY <1>2, <1>4, <2>2, FileInForce DEF Credential
  <2>5. Matches(c)'
    BY <1>4, <2>2, <2>4 DEF Matches, Saved
  <2>6. Saved(r) # NoRow /\ Saved(r).result = "verified"
    BY <1>5, <2>3, NoRowAssumption DEF Saved
  <2>7. Usable(c)'
    BY <2>2, <2>5, <2>6 DEF Usable, ViewOf, IsUsable, FactsOf
  <2> QED BY <2>2, <2>7
<1>9. CASE ~ RowAllowed(c, Saved(r))
  <2>1. answer' = [answer EXCEPT ![r] = "integrity_error"]
    BY <1>7, <1>9 DEF CommitSave, End
  <2> QED BY <2>1 DEF Inv, TypeOK
<1> QED BY <1>8, <1>9

LEMMA LoneStep ==
    ASSUME Unpadded, Inv, LoneAlone, NEW r \in Request, LoneInv(r), [Next]_vars
    PROVE  LoneInv(r)'
<1> SUFFICES ASSUME Alone(r)', pc'[r] # "idle", op'[r].kind = "put"
             PROVE  LoneInv(r)'
  BY DEF LoneInv
<1>1. \/ Put(r) \/ Submit(r)
      \/ Alone(r) /\ (Advance(r) \/ Restart \/ UNCHANGED vars)
  BY AloneBefore
<1>2. /\ pc[r] # "idle" => op[r] \in Op
      /\ pc[r] # "done" => answer[r] = None
      /\ None # "usable"
  BY PreflightAssumption DEF Inv, RequestInv, KindInv, Answer
<1>3. \A c : ApiKeyOf(c) \in Name
  BY DEF ApiKeyOf, Name
<1> USE DEF Goto, End
<1>4. CASE Put(r)
  <2>1. PICK o \in Op : /\ o.kind = "put"
                       /\ op' = [op EXCEPT ![r] = o]
                       /\ \/ End(r, "provider_not_offered") \/ End(r, "value_error")
                          \/ /\ o.key \notin LineBreak
                             /\ body' = [body EXCEPT ![r] = Replaced(file, ApiKeyOf(o.cap), o.key)]
                             /\ Goto(r, "truncate") /\ UNCHANGED answer
    BY <1>4 DEF Put
  <2>2. op'[r] = o /\ o.key \in Key /\ pc[r] = "idle"
    BY <1>4, <2>1 DEF Put, Inv, TypeOK, Op
  <2>3. CASE End(r, "provider_not_offered") \/ End(r, "value_error")
    BY <2>1, <2>2, <2>3 DEF LoneInv, Inv, TypeOK
  <2>4. CASE /\ o.key \notin LineBreak
             /\ body' = [body EXCEPT ![r] = Replaced(file, ApiKeyOf(o.cap), o.key)]
             /\ Goto(r, "truncate") /\ UNCHANGED answer
    <3>1. body'[r] = [file EXCEPT ![ApiKeyOf(o.cap)] = o.key]
      BY <2>1, <2>2, <2>4 DEF Replaced, Unpadded, Inv, TypeOK
    <3>2. body'[r][ApiKeyOf(o.cap)] = o.key
      BY <1>3, <3>1 DEF Inv, TypeOK, Content
    <3>3. pc'[r] = "truncate" /\ answer'[r] = None
      BY <1>2, <2>1, <2>2, <2>4 DEF Inv, TypeOK
    <3> QED BY <1>2, <2>2, <3>2, <3>3 DEF LoneInv
  <2> QED BY <2>1, <2>3, <2>4
<1>5. CASE Alone(r) /\ TruncateFile(r)
  BY <1>2, <1>5 DEF TruncateFile, Truncate, LoneInv, Inv, TypeOK, held
<1>6. CASE Alone(r) /\ WriteFile(r)
  <2>1. /\ file = EmptyFile /\ body[r][ApiKeyOf(op[r].cap)] = op[r].key /\ op' = op
        /\ pc'[r] = "probe" /\ answer'[r] = None
    BY <1>2, <1>6 DEF WriteFile, LoneInv, Inv, TypeOK, held
  <2>2. file' = [n \in Name |-> body[r][n]]
    BY <1>6, <2>1 DEF WriteFile, WriteOver, EmptyFile
  <2> QED BY <1>2, <1>3, <2>1, <2>2 DEF LoneInv
<1>7. CASE Alone(r) /\ Probe(r)
  <2>1. /\ pc[r] = "probe" /\ op' = op /\ file' = file
        /\ \/ pc'[r] = "done" /\ answer'[r] = ModelGone
           \/ pc'[r] = "digest" /\ answer'[r] = None
    BY <1>2, <1>7 DEF Probe, Inv, TypeOK, outside
  <2> QED BY <1>2, <1>7, <2>1 DEF LoneInv, ModelGone
<1>8. CASE Alone(r) /\ (DigestCredential(r) \/ WriteInstallationKey(r))
  <2>1. /\ op' = op /\ file' = file /\ op[r].kind = "put"
        /\ pc[r] \in {"digest", "mint_write"} /\ answer[r] = None
    BY <1>2, <1>8 DEF DigestCredential, WriteInstallationKey, held, outside
  <2>2. cred[r] = op[r].key /\ file[ApiKeyOf(op[r].cap)] = op[r].key
    BY <1>8, <2>1 DEF Inv, RequestInv, PutInv, Running, Ended, LoneInv
  <2>3. \/ pc'[r] = "mint" /\ answer' = answer
        \/ ikey' # None /\ Digested(r, ikey')
    <3>1. CASE DigestCredential(r)
      BY <3>1 DEF DigestCredential, Inv, TypeOK, outside
    <3>2. CASE WriteInstallationKey(r)
      <4>1. ikey' = <<r, acked[r]>> /\ Digested(r, ikey')
        BY <3>2 DEF WriteInstallationKey
      <4>2. ikey' \in InstallationKey
        BY <4>1 DEF Inv, TypeOK, InstallationKey
      <4> QED BY <4>1, <4>2, NoKeyYetAssumption
    <3> QED BY <1>8, <3>1, <3>2
  <2>4. CASE pc'[r] = "mint" /\ answer' = answer
    BY <1>2, <2>1, <2>2, <2>4 DEF LoneInv
  <2>5. CASE ikey' # None /\ Digested(r, ikey')
    <3>1. digest'[r] = Fingerprint(op[r].key, ikey')
      BY <2>2, <2>5 DEF Digested, Inv, TypeOK
    <3>2. \/ pc'[r] = "done" /\ answer'[r] = Unreachable
          \/ pc'[r] = "select" /\ answer'[r] = None
      BY <2>1, <2>5 DEF Digested, Inv, TypeOK
    <3> QED BY <1>2, <2>1, <2>2, <2>5, <3>1, <3>2 DEF LoneInv, Unreachable
  <2> QED BY <2>3, <2>4, <2>5
<1>9. CASE Alone(r) /\ TruncateInstallationKey(r)
  BY <1>2, <1>9 DEF TruncateInstallationKey, LoneInv, Inv, TypeOK, held
<1>10. CASE Alone(r) /\ SelectForSave(r)
  <2>1. /\ op' = op /\ file' = file /\ ikey' = ikey /\ digest' = digest /\ row' = row
        /\ pc[r] = "select" /\ pc'[r] = "commit" /\ seen'[r] = row[op[r].cap] /\ answer' = answer
    BY <1>10 DEF SelectForSave, Inv, TypeOK, held, outside
  <2> QED BY <1>2, <1>10, <2>1 DEF LoneInv
<1>11. CASE Alone(r) /\ CommitSave(r)
  <2>1. pc'[r] = "done" /\ op' = op
    BY <1>11 DEF CommitSave, Inv, TypeOK, held
  <2> QED BY <1>11, <2>1, LoneCommit DEF LoneInv
\* The other steps are of reads and acknowledgements.
<1>12. CASE Submit(r)
  BY <1>12 DEF Submit, Inv, TypeOK
<1>13. CASE ReadRow(r) \/ ReadCredential(r) \/ SelectForAck(r) \/ CommitAck(r)
  <2>1. op' = op
    BY <1>13 DEF ReadRow, ReadCredential, SelectForAck, CommitAck, held
  <2>2. op[r].kind # "put"
    BY <1>13 DEF ReadRow, ReadCredential, SelectForAck, CommitAck, Inv, RequestInv, KindInv
  <2> QED BY <2>1, <2>2
<1>14. CASE Alone(r) /\ Restart
  <2>1. /\ op' = op /\ answer' = answer /\ file' = file /\ ikey' = ikey /\ row' = row
        /\ pc'[r] \in {"idle", "done", "dead"} /\ (pc[r] = "idle" => pc'[r] = "idle")
    BY <1>14 DEF Restart, Running, Ended, held, Inv, TypeOK
  <2>2. Usable(op[r].cap)' = Usable(op[r].cap)
    BY <2>1 DEF Usable, Matches, Credential
  <2> QED BY <1>14, <2>1, <2>2 DEF LoneInv
<1>15. CASE Alone(r) /\ UNCHANGED vars
  <2>1. /\ op' = op /\ answer' = answer /\ file' = file /\ ikey' = ikey /\ row' = row
        /\ pc' = pc /\ body' = body /\ digest' = digest /\ seen' = seen
    BY <1>15 DEF vars, held, outside
  <2>2. Usable(op[r].cap)' = Usable(op[r].cap)
    BY <2>1 DEF Usable, Matches, Credential
  <2> QED BY <1>15, <2>1, <2>2 DEF LoneInv
<1> QED BY <1>1, <1>4, <1>5, <1>6, <1>7, <1>8, <1>9, <1>10, <1>11, <1>12, <1>13, <1>14, <1>15
        DEF Advance

\* If no key is typed with blanks around it, a PUT that answered usable and has had the
\* installation to itself since it was submitted, whatever earlier requests, crashes and
\* edits had left there, left its capability usable: what it verified is what is read
\* back (factory.py, credential_for: "what gets verified is what gets used").  The run
\* preflight_padded_key shows that the hypothesis is needed.
THEOREM SavedIsUsableHolds == ASSUME Unpadded PROVE Spec => []SavedIsUsable
<1> DEFINE Lone == LoneAlone /\ \A r \in Request : LoneInv(r)
<1>1. Init => Lone
  BY DEF Init, LoneAlone, LoneInv
<1>2. Inv /\ Lone /\ [Next]_vars => Lone'
  BY LoneAloneStep, LoneStep
<1>3. Inv /\ Lone => SavedIsUsable
  <2> SUFFICES ASSUME Inv, Lone, NEW r \in Request,
                      answer[r] = "usable", op[r].kind = "put", Alone(r)
               PROVE  Usable(op[r].cap)
    BY DEF SavedIsUsable
  <2>1. pc[r] = "done"
    BY PreflightAssumption DEF Inv, RequestInv, KindInv, Answer
  <2> QED BY <2>1 DEF LoneInv
<1> QED BY <1>1, <1>2, <1>3, Invariance, PTL DEF Spec
(* ----------------------- the promise of the rows ------------------------- *)

Records == [c \in Touched |-> RecordOf(c)]

Lost == {c \in Touched : tainted[c]}

LEMMA SameRecords ==
    ASSUME UNCHANGED <<row, tainted>> PROVE UNCHANGED <<Records, Lost>>
BY DEF Records, Lost, RecordOf

\* A commit changes the record of the one capability whose row it writes.
LEMMA OneRecord ==
    ASSUME Inv, NEW r \in Request, NEW t, NEW b \in BOOLEAN, Committed(r, t, b),
           NEW c \in Touched, c = op[r].cap
    PROVE  /\ row'[c] = t /\ tainted'[c] = b /\ probed' = probed
           /\ Records' = [Records EXCEPT ![c] = RecordOf(c)']
           /\ Lost' = (IF b THEN Lost \cup {c} ELSE Lost \ {c})
<1>1. /\ row'[c] = t /\ tainted'[c] = b /\ probed' = probed
      /\ \A other \in Touched \ {c} :
            row'[other] = row[other] /\ tainted'[other] = tainted[other]
  BY DEF Committed, Inv, TypeOK
<1>2. \A other \in Touched \ {c} : RecordOf(other)' = RecordOf(other)
  BY <1>1 DEF RecordOf
<1>3. Records' = [Records EXCEPT ![c] = RecordOf(c)']
  BY <1>2 DEF Records
<1>4. Lost' = (IF b THEN Lost \cup {c} ELSE Lost \ {c})
  BY <1>1 DEF Lost
<1> QED BY <1>1, <1>3, <1>4

\* A commit that lost its race leaves nothing on record that was not lost before.
LEMMA LostIsPromised ==
    ASSUME Inv, NEW r \in Request, NEW t, Committed(r, t, TRUE), op[r].cap \in Touched,
           row[op[r].cap] # NoRow
    PROVE  [Promise!Next]_(Promise!vars)
<1>1. PICK c \in Touched : c = op[r].cap
  OBVIOUS
<1>2. /\ RecordOf(c)' = {} /\ Lost' = Lost \cup {c} /\ probed' = probed
      /\ Records' = [Records EXCEPT ![c] = {}]
  BY <1>1, OneRecord DEF RecordOf
<1>3. CASE tainted[c]
  <2>1. Records[c] = {} /\ c \in Lost
    BY <1>3 DEF Records, RecordOf, Lost
  <2>2. UNCHANGED <<probed, Records, Lost>>
    BY <1>2, <2>1 DEF Records
  <2> QED BY <2>2 DEF Promise!vars, Records, Lost
<1>4. CASE ~ tainted[c]
  <2>1. Records[c] # {}
    BY <1>1, <1>4 DEF Records, RecordOf
  <2>2. Promise!Lose(c)
    BY <1>2, <2>1 DEF Promise!Lose, Records, Lost
  <2> QED BY <2>2 DEF Promise!Next
<1> QED BY <1>3, <1>4

LEMMA ProbeIsPromised ==
    ASSUME Inv, NEW r \in Request, Probe(r) PROVE [Promise!Next]_(Promise!vars)
<1>1. op[r] \in Op /\ op[r].kind = "put" /\ UNCHANGED <<row, tainted>>
  BY DEF Probe, Inv, RequestInv, KindInv
<1>2. op[r].cap \in Touched /\ op[r].key \in Key /\ ModelOf(op[r]) \in Model
  BY <1>1, PreflightAssumption DEF Op, ModelOf, Inv, TypeOK
<1>3. CASE UNCHANGED probed
  BY <1>1, <1>3, SameRecords DEF Promise!vars, Records, Lost
<1>4. CASE ~ UNCHANGED probed
  <2>1. PICK p \in Report : probed' = probed \cup {p}
    BY <1>2, <1>4 DEF Probe, Report, AttemptOf
  <2>2. Promise!Probe(p)
    BY <1>1, <2>1, SameRecords DEF Promise!Probe, Records, Lost
  <2> QED BY <2>2 DEF Promise!Next
<1> QED BY <1>3, <1>4

\* A save puts its own report on record, unless it was overtaken.
LEMMA CommitSaveIsPromised ==
    ASSUME Inv, NEW r \in Request, CommitSave(r) PROVE [Promise!Next]_(Promise!vars)
<1> DEFINE fresh == seen[r] = NoRow
<1>1. PICK c, t : /\ c = op[r].cap
                  /\ t = IF fresh THEN Saved(r) ELSE Update(Saved(r), seen[r], row[c])
  OBVIOUS
<1> USE <1>1
<1>2. /\ op[r] \in Op /\ c \in Touched /\ SaveInv(r)
      /\ OwnReport(r) \in probed /\ digest[r][2] = op[r].key
      /\ attempt[r] \in Attempt /\ attempt[r].result \in Result /\ Saved(r) \in Row
      /\ ~ raced[r] => t = Saved(r)
      /\ pc[r] = "commit" /\ raced[r] \in BOOLEAN
  BY AboutToSave DEF CommitSave, Inv, TypeOK
<1>3. CASE UNCHANGED <<row, tainted>>
  BY <1>3, SameRecords DEF Promise!vars, CommitSave, Records, Lost
<1>4. CASE ~ UNCHANGED <<row, tainted>>
  <2>1. /\ fresh => row[c] = NoRow
        /\ row' = [row EXCEPT ![c] = t]
        /\ tainted' = [tainted EXCEPT ![c] = raced[r]]
        /\ Overtaken(c, r)
        /\ End(r, SavedAnswer(attempt[r]))
        /\ UNCHANGED <<outside, held, digest, seen, probed, agreed>>
    BY <1>4 DEF CommitSave
  <2>2. Committed(r, t, raced[r])
    BY <2>1 DEF Committed, End, outside, held, Inv, TypeOK
  <2>3. CASE raced[r]
    <3>1. row[c] # NoRow
      BY <1>2, <2>3 DEF SaveInv
    <3>2. Committed(r, t, TRUE)
      BY <2>2, <2>3, <1>2
    <3> QED BY <1>2, <3>1, <3>2, LostIsPromised
  <2>4. CASE ~ raced[r]
    <3>0. PICK p \in Report : p = OwnReport(r)
      BY <1>2 DEF Inv, TypeOK, Report
    <3>1. Committed(r, t, FALSE)
      BY <1>2, <2>2, <2>4
    <3>2. /\ row'[c] = Saved(r) /\ ~ tainted'[c] /\ probed' = probed /\ Lost' = Lost \ {c}
          /\ Records' = [Records EXCEPT ![c] = RecordOf(c)']
      <4>1. PICK b \in BOOLEAN : b = FALSE /\ Committed(r, t, b)
        BY <3>1
      <4>2. /\ row'[c] = t /\ tainted'[c] = b /\ probed' = probed
            /\ Records' = [Records EXCEPT ![c] = RecordOf(c)']
            /\ Lost' = (IF b THEN Lost \cup {c} ELSE Lost \ {c})
        BY <1>2, <4>1, OneRecord
      <4> QED BY <1>2, <2>4, <4>1, <4>2
    <3>3. /\ Saved(r) # NoRow /\ Saved(r).ack = None /\ Saved(r).digest = digest[r]
          /\ Saved(r).model = ModelOf(op[r])
          /\ [result |-> Saved(r).result, reasons |-> Saved(r).reasons, dim |-> Saved(r).dim]
                = attempt[r]
      BY <1>2, NoRowAssumption DEF Saved, Attempt
    <3>4. RecordOf(c)' = {[report |-> p, acknowledged |-> FALSE]}
      BY <1>2, <3>0, <3>2, <3>3 DEF RecordOf, OwnReport
    <3>5. p \in probed /\ p.outcome.result \in Result /\ p.cap = c
      BY <1>2, <3>0 DEF OwnReport
    <3>6. Promise!Keep(c, p)
      BY <3>2, <3>4, <3>5 DEF Promise!Keep, Records, Lost
    <3> QED BY <1>2, <3>6 DEF Promise!Next
  <2> QED BY <2>3, <2>4
<1> QED BY <1>3, <1>4

\* Acknowledging an entry changes nothing else of it.
LEMMA Stamped ==
    ASSUME NEW p \in Report, NEW flag \in BOOLEAN
    PROVE  [[report |-> p, acknowledged |-> flag] EXCEPT !.acknowledged = TRUE]
                = [report |-> p, acknowledged |-> TRUE]
<1> DEFINE Entry == [report : Report, acknowledged : BOOLEAN]
           was == [report |-> p, acknowledged |-> flag]
           now == [report |-> p, acknowledged |-> TRUE]
           written == [was EXCEPT !.acknowledged = TRUE]
<1>1. was \in Entry /\ now \in Entry
  OBVIOUS
<1>2. written \in Entry /\ written.report = now.report /\ written.acknowledged = now.acknowledged
  BY <1>1
<1> HIDE DEF now, written
<1>3. written = now
  BY <1>1, <1>2
<1> QED BY <1>3 DEF now, written

\* An acknowledgement adds itself to the report that was there, unless it was
\* overtaken.
LEMMA CommitAckIsPromised ==
    ASSUME Inv, NEW r \in Request, CommitAck(r) PROVE [Promise!Next]_(Promise!vars)
<1>1. PICK c, t : /\ c = op[r].cap
                  /\ t = Update([seen[r] EXCEPT !.ack = r], seen[r], row[c])
  OBVIOUS
<1> USE <1>1
<1>2. /\ pc[r] = "ack_commit" /\ op[r] \in Op /\ op[r].kind = "ack" /\ ~ acked[r]
      /\ c \in Touched /\ RowInv(c) /\ ReadInv(r)
  BY DEF CommitAck, Inv, RequestInv, KindInv, Op
<1>3. seen[r] \in Row /\ row[c] \in Row /\ row[c] # NoRow
  BY <1>2 DEF ReadInv, Reading, Inv, TypeOK
<1>4. CASE UNCHANGED <<row, tainted>>
  BY <1>4, SameRecords DEF Promise!vars, CommitAck, Records, Lost
<1>5. CASE ~ UNCHANGED <<row, tainted>>
  <2>1. /\ row' = [row EXCEPT ![c] = t]
        /\ tainted' = [tainted EXCEPT ![c] = tainted[c] \/ raced[r]]
        /\ Overtaken(c, r)
        /\ acked' = [acked EXCEPT ![r] = TRUE]
        /\ pc' = [pc EXCEPT ![r] = "row"] /\ answer' = answer
        /\ UNCHANGED <<outside, op, body, cred, attempt, digest, seen, probed, agreed>>
    BY <1>2, <1>5 DEF CommitAck, Goto, Inv, TypeOK
  <2>2. Committed(r, t, tainted[c] \/ raced[r])
    BY <2>1 DEF Committed, outside, Inv, TypeOK
  <2>3. CASE tainted[c] \/ raced[r]
    <3>1. Committed(r, t, TRUE)
      BY <2>2, <2>3
    <3> QED BY <1>2, <1>3, <3>1, LostIsPromised
  <2>4. CASE ~ tainted[c] /\ ~ raced[r]
    <3>0. PICK p \in Report : /\ p \in probed
                              /\ p = [cap |-> c, key |-> row[c].digest[2], model |-> row[c].model,
                                      outcome |-> [result |-> row[c].result,
                                                   reasons |-> row[c].reasons,
                                                   dim |-> row[c].dim]]
      BY <1>2, <1>3, <2>4 DEF RowInv, SaysOf, Inv, TypeOK, Report
    <3>1. Committed(r, t, FALSE)
      BY <2>2, <2>4
    <3>2. /\ row'[c] = t /\ ~ tainted'[c] /\ probed' = probed /\ Lost' = Lost \ {c}
          /\ Records' = [Records EXCEPT ![c] = RecordOf(c)']
      <4>1. PICK b \in BOOLEAN : b = FALSE /\ Committed(r, t, b)
        BY <3>1
      <4>2. /\ row'[c] = t /\ tainted'[c] = b /\ probed' = probed
            /\ Records' = [Records EXCEPT ![c] = RecordOf(c)']
            /\ Lost' = (IF b THEN Lost \cup {c} ELSE Lost \ {c})
        BY <1>2, <4>1, OneRecord
      <4> QED BY <4>1, <4>2
    <3>3. /\ row[c].result = "capability_unverified" /\ t = [row[c] EXCEPT !.ack = r]
      <4>1. seen[r] = row[c] /\ row[c].result = "capability_unverified"
        BY <1>2, <2>4 DEF ReadInv, Reading
      <4>2. [row[c] EXCEPT !.ack = r] \in Row
        BY <1>3 DEF Row
      <4> QED BY <1>3, <4>1, <4>2, UpdateOfCurrent
    <3>4. /\ t.digest = row[c].digest /\ t.model = row[c].model /\ t.result = row[c].result
          /\ t.reasons = row[c].reasons /\ t.dim = row[c].dim /\ t.ack = r
          /\ t # NoRow /\ r # None
      <4>1. [row[c] EXCEPT !.ack = r] \in Row
        BY <1>3 DEF Row
      <4> QED BY <1>3, <3>3, <4>1, NoRowAssumption, PreflightAssumption DEF Row
    <3>5. RecordOf(c)' = {[report |-> p, acknowledged |-> TRUE]}
      <4>1. p = [cap |-> c, key |-> t.digest[2], model |-> t.model,
                 outcome |-> [result |-> t.result, reasons |-> t.reasons, dim |-> t.dim]]
        BY <3>0, <3>4
      <4>2. (t.ack # None) = TRUE
        BY <3>4
      <4> QED BY <3>2, <3>4, <4>1, <4>2 DEF RecordOf
    <3>6. PICK entry : /\ Records[c] = {entry} /\ entry.report = p
                       /\ [entry EXCEPT !.acknowledged = TRUE]
                             = [report |-> p, acknowledged |-> TRUE]
      <4>1. PICK flag \in BOOLEAN : flag = (row[c].ack # None)
        OBVIOUS
      <4>2. Records[c] = {[report |-> p, acknowledged |-> flag]}
        BY <1>2, <1>3, <2>4, <3>0, <4>1, NoRowAssumption DEF Records, RecordOf
      <4> QED BY <4>1, <4>2, Stamped
    <3>7. p \in Report /\ p.outcome.result = "capability_unverified"
      BY <3>0, <3>3
    <3>8. Lost' = Lost
      BY <2>4, <3>2 DEF Lost
    <3>9. Promise!Acknowledge(c)
      <4>1. entry.report \in {q \in Report : q.outcome.result = "capability_unverified"}
        BY <3>6, <3>7
      <4>2. Records' = [Records EXCEPT ![c] = {[entry EXCEPT !.acknowledged = TRUE]}]
        BY <3>2, <3>5, <3>6
      <4>3. entry \in Records[c] /\ UNCHANGED <<probed, Lost>>
        BY <3>2, <3>6, <3>8
      <4> QED BY <4>1, <4>2, <4>3 DEF Promise!Acknowledge, Records, Lost
    <3> QED BY <1>2, <3>9 DEF Promise!Next
  <2> QED BY <2>3, <2>4
<1> QED BY <1>4, <1>5

LEMMA InitIsPromised == Init => Promise!Init
  BY DEF Init, Promise!Init, RecordOf

LEMMA StepIsPromised ==
    ASSUME Inv, [Next]_vars PROVE [Promise!Next]_(Promise!vars)
<1>1. ASSUME UNCHANGED <<row, tainted, probed>> PROVE [Promise!Next]_(Promise!vars)
  BY <1>1, SameRecords DEF Promise!vars, Records, Lost
<1>2. ASSUME NEW r \in Request, Put(r) \/ Submit(r) PROVE UNCHANGED <<row, tainted, probed>>
  BY <1>2 DEF Put, Submit, history
<1>3. ASSUME NEW r \in Request, Advance(r), ~ Probe(r), ~ CommitSave(r), ~ CommitAck(r)
      PROVE  UNCHANGED <<row, tainted, probed>>
  BY <1>3 DEF Advance, TruncateFile, WriteFile, DigestCredential, TruncateInstallationKey,
     WriteInstallationKey, SelectForSave, ReadRow, ReadCredential, SelectForAck, history
<1>4. CASE Restart \/ EditFile \/ UNCHANGED vars
  BY <1>1, <1>4 DEF Restart, EditFile, vars, history
<1> QED BY <1>1, <1>2, <1>3, <1>4, ProbeIsPromised, CommitSaveIsPromised, CommitAckIsPromised
        DEF Next

\* The preflight implements the promise of the rows: every step of every thread puts at
\* most one report on record, whole and unacknowledged, or acknowledges the degraded one
\* that is there, unless the commit lost its race (provider_configuration_repository.py).
THEOREM ImplementsCapabilityPromise == Spec => KeepsItsPromise
<1>1. Init => Promise!Init
  BY InitIsPromised
<1>2. Inv /\ [Next]_vars => [Promise!Next]_(Promise!vars)
  BY StepIsPromised
<1> QED BY <1>1, <1>2, Invariance, PTL DEF Spec, KeepsItsPromise, Promise!Spec
===============================================================================
