---------------------------- MODULE SetupStateProofs ----------------------------
(***************************************************************************)
(* What setup_state guarantees for every number of requests, versions and  *)
(* labels: the inductive invariant, the safety properties of SetupState as *)
(* its consequences, and that it implements FirstRun.                      *)
(***************************************************************************)
EXTENDS SetupState, SetupRulesProofs

Checked == {v.label : v \in verified}

Writing == {"truncate_address", "write_address", "password", "truncate_password",
            "write_password", "verify", "login", "list", "logout"}

\* What an exchange with the mailbox may come to.
Exchanged == {"email_unreachable", "internal_error", "app_password_rejected",
              "label_not_found", "found"}

\* What was submitted matches where the request is; what is about to be recorded
\* is the version in force, or a label that was checked.
KindInv(r) ==
    /\ pc[r] # "idle" => op[r] \in Op
    /\ pc[r] = "check" => op[r].kind = "ack"
    /\ pc[r] \in Writing => op[r].kind = "link"
    /\ pc[r] \in {"select", "commit"} => op[r].kind \in {"ack", "link", "skip"}
    /\ pc[r] \in {"check", "select", "commit"} /\ op[r].kind = "ack" => op[r].version = current
    /\ pc[r] \in {"select", "commit"} /\ op[r].kind = "link" => op[r].label \in Checked
    /\ pc[r] # "done" => answer[r] = None
    /\ pc[r] \in {"login", "list"} => op[r].label \notin Wildcard
    /\ pc[r] = "logout" =>
        /\ outcome[r] \in Exchanged
        /\ outcome[r] = "found" => op[r].label \in Checked
    /\ connection[r] = "open" => pc[r] \in {"login", "list", "logout"}

\* What the constraints allow, and no label before the email step was taken.
RowSound(w) == RowAllowed(w) /\ (w.status = "pending" => w.label = None)

\* Where a request has read the row and derives the pending step from it.
Comparing == {"generation_row", "generation_file", "embeddings_row", "embeddings_file"}

\* What a request read can be overtaken, but not undone; and the preflight of
\* generation it compares with the file is the stored one, or was superseded.
SeenInv(r) ==
    /\ (pc[r] \in Comparing \cup {"commit"} /\ seen[r] # NoRow) =>
        /\ row # NoRow
        /\ RowSound(seen[r])
        /\ seen[r].status # "pending" => row.status # "pending"
        /\ seen[r].version = current => row.version = current
    /\ pc[r] = "commit" =>
        /\ seen[r] # NoRow => seen[r].linked_at # r
        /\ ~ raced[r] => seen[r] = row
    /\ pc[r] = "generation_file" => superseded[r] \/ recalled[r] = vouched["generation"]
    /\ pc[r] \in {"embeddings_row", "embeddings_file"} =>
        /\ found[r] \subseteq {"generation"}
        /\ (Acknowledged(seen[r]) = current /\ EmailOf(seen[r]) # "pending"
               /\ "generation" \in found[r]) => truth[r] \/ superseded[r]

Recording == {"idle", "check", "select", "commit"} \cup Writing

RowInv ==
    row # NoRow =>
        /\ RowSound(row)
        /\ row.status = "linked" => row.label \in Checked
        /\ \A r \in Request : pc[r] \in Recording => row.linked_at # r

AnswerInv(r) ==
    /\ answer[r] = "integrity_error" => raced[r]
    /\ answer[r] = "null" => truth[r] \/ superseded[r]

RequestInv(r) == KindInv(r) /\ SeenInv(r) /\ AnswerInv(r)

Inv == TypeOK /\ RowInv /\ \A r \in Request : RequestInv(r)

(* ---------------------- the columns of an UPDATE ------------------------- *)

\* Which columns of the current row an UPDATE leaves alone.
LEMMA UpdateIsRow ==
    ASSUME NEW new \in Row, NEW loaded \in Row, NEW now \in Row
    PROVE  LET t == Update(new, loaded, now)
               Column(n, l, w) == IF n # l THEN n ELSE w
           IN  /\ t \in Row
               /\ t.version = Column(new.version, loaded.version, now.version)
               /\ t.acked_at = Column(new.acked_at, loaded.acked_at, now.acked_at)
               /\ t.status = Column(new.status, loaded.status, now.status)
               /\ t.label = Column(new.label, loaded.label, now.label)
               /\ t.linked_at = Column(new.linked_at, loaded.linked_at, now.linked_at)
<1> DEFINE t == Update(new, loaded, now)
<1>1. DOMAIN now = {"version", "acked_at", "status", "label", "linked_at"}
  BY DEF Row
<1>2. t = [version |-> IF new.version # loaded.version THEN new.version ELSE now.version,
           acked_at |-> IF new.acked_at # loaded.acked_at THEN new.acked_at ELSE now.acked_at,
           status |-> IF new.status # loaded.status THEN new.status ELSE now.status,
           label |-> IF new.label # loaded.label THEN new.label ELSE now.label,
           linked_at |-> IF new.linked_at # loaded.linked_at THEN new.linked_at
                         ELSE now.linked_at]
  BY <1>1 DEF Update
<1> QED BY <1>2 DEF Row

LEMMA UpdateOfCurrent ==
    ASSUME NEW new \in Row, NEW now \in Row PROVE Update(new, now, now) = new
<1>1. DOMAIN now = DOMAIN new
  BY DEF Row
<1>2. \A column \in DOMAIN now : Update(new, now, now)[column] = new[column]
  BY DEF Update
<1> QED BY <1>1, <1>2 DEF Update, Row

(* -------------------- steps that leave the row alone --------------------- *)

\* What all steps of request r but its commit have in common.
Quiet(r) ==
    /\ UNCHANGED <<row, current, vouched>>
    /\ verified \subseteq verified'
    /\ pc'[r] \in Recording => pc[r] \in Recording
    /\ \A q \in Request \ {r} :
        /\ pc'[q] = pc[q] /\ op'[q] = op[q] /\ seen'[q] = seen[q] /\ found'[q] = found[q]
        /\ recalled'[q] = recalled[q]
        /\ answer'[q] = answer[q] /\ raced'[q] = raced[q] /\ truth'[q] = truth[q]
        /\ superseded'[q] = superseded[q]
        /\ connection'[q] = connection[q] /\ outcome'[q] = outcome[q]

\* Such a step can only disturb what is known of r itself.
LEMMA QuietStep ==
    ASSUME Inv, NEW r \in Request, Quiet(r), TypeOK', RequestInv(r)' PROVE Inv'
<1> USE DEF Inv, Quiet
<1>1. Checked \subseteq Checked'
  BY DEF Checked
<1>2. ASSUME NEW q \in Request, q # r PROVE RequestInv(q)'
  <2>1. RequestInv(q)
    OBVIOUS
  <2>2. KindInv(q)'
    BY <1>1, <1>2, <2>1 DEF RequestInv, KindInv
  <2>3. SeenInv(q)'
    BY <1>2, <2>1 DEF RequestInv, SeenInv, Comparing
  <2>4. AnswerInv(q)'
    BY <1>2, <2>1 DEF RequestInv, AnswerInv
  <2> QED BY <2>2, <2>3, <2>4 DEF RequestInv
<1>3. RowInv'
  BY <1>1 DEF RowInv, RowSound, RowAllowed
<1> QED BY <1>2, <1>3

LEMMA SubmitStep ==
    ASSUME Inv, NEW r \in Request, Submit(r) PROVE Inv'
<1> USE DEF Submit, Goto, mail, history, disk, read
<1>1. PICK o \in [kind : {"skip", "state", "step"}] :
        /\ op' = [op EXCEPT ![r] = o]
        /\ pc' = [pc EXCEPT ![r] = CASE o.kind = "skip" -> "select"
                                     [] o.kind = "state" -> "state_row"
                                     [] o.kind = "step" -> "step_row"]
  OBVIOUS
<1>2. /\ o \in Op /\ o.kind \in {"skip", "state", "step"}
      /\ pc'[r] \in {"select", "state_row", "step_row"} /\ op'[r] = o
      /\ pc'[r] = "select" => o.kind = "skip"
      /\ pc' = [pc EXCEPT ![r] = pc'[r]]
  BY <1>1 DEF Inv, TypeOK, Op
<1>3. TypeOK'
  BY <1>1, <1>2 DEF Inv, TypeOK
<1>4. Quiet(r)
  BY <1>1, <1>2 DEF Inv, Quiet, TypeOK, Recording
<1>5. KindInv(r)'
  BY <1>2 DEF Inv, RequestInv, KindInv, Writing
<1>6. SeenInv(r)' /\ AnswerInv(r)'
  BY <1>2 DEF Inv, RequestInv, SeenInv, Comparing, AnswerInv
<1> QED BY <1>3, <1>4, <1>5, <1>6, QuietStep DEF RequestInv

LEMMA SubmitAcknowledgementStep ==
    ASSUME Inv, NEW r \in Request, SubmitAcknowledgement(r) PROVE Inv'
<1> USE DEF SubmitAcknowledgement, Goto, End, mail, history, disk, read
<1>1. PICK v \in Version :
        /\ op' = [op EXCEPT ![r] = [kind |-> "ack", version |-> v]]
        /\ IF Covers(current, {v}) THEN Goto(r, "check") /\ UNCHANGED answer
           ELSE End(r, "disclosure_ack_required")
  OBVIOUS
<1>2. /\ [kind |-> "ack", version |-> v] \in Op
      /\ op'[r] = [kind |-> "ack", version |-> v] /\ answer[r] = None /\ connection'[r] # "open"
  BY <1>1 DEF Inv, TypeOK, Op, RequestInv, KindInv
<1>3. TypeOK'
  BY <1>1, <1>2 DEF Inv, TypeOK, Answer, Failure, Ended
<1>4. Quiet(r)
  BY <1>1 DEF Inv, Quiet, TypeOK, Recording
<1>5. \/ pc'[r] = "check" /\ answer'[r] = None /\ v = current
      \/ pc'[r] = "done" /\ answer'[r] = "disclosure_ack_required"
  BY <1>1, <1>2 DEF Inv, TypeOK, Covers
<1>6. RequestInv(r)'
  BY <1>2, <1>5, SetupStateAssumption DEF RequestInv, KindInv, SeenInv, AnswerInv, Writing, Comparing,
     Answer, Failure
<1> QED BY <1>3, <1>4, <1>6, QuietStep

LEMMA CheckAcknowledgementStep ==
    ASSUME Inv, NEW r \in Request, CheckAcknowledgement(r) PROVE Inv'
<1> USE DEF CheckAcknowledgement, Goto, End, held, mail, history, disk, read
<1>1. TypeOK'
  BY DEF Inv, TypeOK, Answer, Failure, Ended
<1>2. Quiet(r)
  BY DEF Inv, Quiet, TypeOK, Recording
<1>3. /\ op[r] \in Op /\ op[r].kind = "ack" /\ op[r].version = current /\ answer[r] = None
      /\ op' = op /\ connection'[r] # "open"
  BY DEF Inv, RequestInv, KindInv
<1>4. \/ pc'[r] = "select" /\ answer'[r] = None
      \/ pc'[r] = "done" /\ answer'[r] = "already_acknowledged"
  BY <1>3 DEF Inv, TypeOK
<1>5. RequestInv(r)'
  BY <1>3, <1>4, SetupStateAssumption DEF RequestInv, KindInv, SeenInv, AnswerInv, Writing, Comparing,
     Answer, Failure
<1> QED BY <1>1, <1>2, <1>5, QuietStep

\* Nothing but its own place and content changes when a request begins a write.
LEMMA BeginWriteStep ==
    ASSUME Inv, NEW r \in Request, NEW name \in Name, NEW value \in Key,
           NEW next \in Truncating, BeginWrite(r, name, value, next),
           pc[r] \in {"idle", "password"}, op'[r] \in Op,
           next \in Writing => op'[r].kind = "link", op' = [op EXCEPT ![r] = op'[r]],
           UNCHANGED <<row, current, vouched, mail, read, history>>
    PROVE  Inv'
<1> USE DEF BeginWrite, Goto, End, mail, history, disk, read
<1>1. Replaced(file, name, value) \in Content
  BY DEF Inv, TypeOK, Replaced, Content, Stored
<1>2. TypeOK'
  <2>1. torn' \in BOOLEAN
    BY DEF Inv, TypeOK
  <2>2. op' \in [Request -> Op \cup {None}]
    BY DEF Inv, TypeOK
  <2>3. /\ body' \in [Request -> Content] /\ answer' \in [Request -> Answer \cup {None}]
        /\ pc' \in [Request -> Ended \cup Truncating \cup Landing \cup
              {"check", "password", "verify", "login", "list", "logout", "select", "commit",
               "step_row", "step_file", "state_row", "generation_row", "generation_file",
               "embeddings_row", "embeddings_file"}]
    BY <1>1 DEF Inv, TypeOK, Answer, Failure, Ended
  <2> QED BY <2>1, <2>2, <2>3 DEF Inv, TypeOK
<1>3. Quiet(r)
  BY DEF Inv, Quiet, TypeOK, Recording, Writing
<1>4. answer[r] = None /\ connection'[r] # "open"
  BY DEF Inv, RequestInv, KindInv
<1>5. \/ pc'[r] = next /\ answer'[r] = None
      \/ pc'[r] = "done" /\ answer'[r] = "value_error"
  BY <1>4 DEF Inv, TypeOK
<1>6. RequestInv(r)'
  BY <1>4, <1>5, SetupStateAssumption DEF RequestInv, KindInv, SeenInv, AnswerInv, Writing, Comparing,
     Truncating, Answer, Failure
<1> QED BY <1>2, <1>3, <1>6, QuietStep

LEMMA SubmitLinkStep ==
    ASSUME Inv, NEW r \in Request, SubmitLink(r) PROVE Inv'
<1>1. PICK l \in Login, b \in Label :
        /\ op' = [op EXCEPT ![r] = [kind |-> "link", login |-> l, label |-> b]]
        /\ BeginWrite(r, "GMAIL_ADDRESS", l[1], "truncate_address")
  BY DEF SubmitLink
<1>2. /\ op'[r] = [kind |-> "link", login |-> l, label |-> b] /\ op'[r] \in Op
      /\ l[1] \in Key /\ op'[r].kind = "link" /\ op' = [op EXCEPT ![r] = op'[r]]
  BY <1>1, SetupStateAssumption DEF Inv, TypeOK, Op
<1>3. /\ pc[r] \in {"idle", "password"} /\ "GMAIL_ADDRESS" \in Name
      /\ UNCHANGED <<row, current, vouched, mail, read, history>>
      /\ "truncate_address" \in Truncating
  BY DEF SubmitLink, Name, Truncating
<1> QED BY <1>1, <1>2, <1>3, BeginWriteStep

LEMMA SubmitSaveStep ==
    ASSUME Inv, NEW r \in Request, SubmitSave(r) PROVE Inv'
<1>1. PICK c \in Capability, k \in Key :
        /\ op' = [op EXCEPT ![r] = [kind |-> "save", capability |-> c, key |-> k]]
        /\ BeginWrite(r, ApiKeyOf(c), k, "truncate_key")
  BY DEF SubmitSave
<1>2. op'[r] \in Op /\ op' = [op EXCEPT ![r] = op'[r]]
  BY <1>1 DEF Inv, TypeOK, Op
<1>3. /\ pc[r] \in {"idle", "password"} /\ ApiKeyOf(c) \in Name
      /\ UNCHANGED <<row, current, vouched, mail, read, history>>
      /\ "truncate_key" \in Truncating /\ "truncate_key" \notin Writing
  BY DEF SubmitSave, Name, ApiKeyOf, Truncating, Writing
<1> QED BY <1>1, <1>2, <1>3, BeginWriteStep

LEMMA ReadForPasswordStep ==
    ASSUME Inv, NEW r \in Request, ReadForPassword(r) PROVE Inv'
<1>1. op[r] \in Op /\ op[r].kind = "link"
  BY DEF Inv, RequestInv, KindInv, ReadForPassword, Writing
<1>2. op[r].login[2] \in Key
  BY <1>1, SetupStateAssumption DEF Op
<1>3. op' = [op EXCEPT ![r] = op'[r]] /\ op'[r] \in Op /\ op'[r].kind = "link"
  BY <1>1 DEF ReadForPassword, Inv, TypeOK
<1> QED BY <1>2, <1>3, BeginWriteStep DEF ReadForPassword, Name, Truncating

LEMMA TruncateFileStep ==
    ASSUME Inv, NEW r \in Request, TruncateFile(r) PROVE Inv'
<1> USE DEF TruncateFile, Truncate, Goto, held, mail, history, disk, read
<1>1. TypeOK'
  BY DEF Inv, TypeOK, Content, EmptyFile, Stored, Truncating, Landing
<1>2. Quiet(r)
  BY DEF Inv, Quiet, TypeOK, Recording, Writing, Truncating
<1>3. /\ pc'[r] \in {"write_address", "write_password", "write_key"}
      /\ pc'[r] # "write_key" => pc[r] \in Writing
      /\ pc[r] \in Truncating /\ answer' = answer /\ op' = op
  BY DEF Inv, TypeOK, Writing, Truncating
<1>4. KindInv(r)'
  BY <1>3 DEF Inv, RequestInv, KindInv, Writing, Truncating
<1>5. SeenInv(r)' /\ AnswerInv(r)'
  BY <1>3 DEF Inv, RequestInv, SeenInv, Comparing, AnswerInv
<1> QED BY <1>1, <1>2, <1>4, <1>5, QuietStep DEF RequestInv

LEMMA WriteFileStep ==
    ASSUME Inv, NEW r \in Request, WriteFile(r) PROVE Inv'
<1> USE DEF WriteFile, Goto, End, held, mail, history, disk, read
<1>1. TypeOK'
  <2>1. file' \in Content /\ body[r] \in Content
    BY DEF Inv, TypeOK, WriteOver, Content
  <2>2. UNCHANGED <<torn, row, current, vouched, op, body, connection, outcome, refused, seen,
                    recalled, found, verified, raced, superseded, truth>>
    OBVIOUS
  <2>3. /\ pc' \in [Request -> Ended \cup Truncating \cup Landing \cup
              {"check", "password", "verify", "login", "list", "logout", "select", "commit",
               "step_row", "step_file", "state_row", "generation_row", "generation_file",
               "embeddings_row", "embeddings_file"}]
        /\ answer' \in [Request -> Answer \cup {None}]
    BY DEF Inv, TypeOK, Landing, Ended, Answer
  <2> QED BY <2>1, <2>2, <2>3 DEF Inv, TypeOK
<1>2. Quiet(r)
  BY DEF Inv, Quiet, TypeOK, Recording, Writing, Landing
<1>3. /\ pc[r] \in Landing /\ op' = op /\ answer[r] = None
      /\ \/ pc'[r] \in {"password", "verify"} /\ pc[r] \in Writing /\ answer'[r] = None
         \/ pc'[r] = "done" /\ answer'[r] = "key_written"
  BY DEF Inv, TypeOK, RequestInv, KindInv, Writing, Landing
<1>4. KindInv(r)'
  BY <1>3 DEF Inv, RequestInv, KindInv, Writing, Landing
<1>5. SeenInv(r)' /\ AnswerInv(r)'
  BY <1>3, SetupStateAssumption DEF Inv, RequestInv, SeenInv, Comparing, AnswerInv, Answer, Failure
<1> QED BY <1>1, <1>2, <1>4, <1>5, QuietStep DEF RequestInv

LEMMA VerifyLabelStep ==
    ASSUME Inv, NEW r \in Request, VerifyLabel(r) PROVE Inv'
<1> USE DEF VerifyLabel, Goto, End, history, disk, read
<1>1. op[r] \in Op /\ op[r].kind = "link" /\ answer[r] = None /\ connection[r] # "open"
  BY DEF Inv, RequestInv, KindInv, Writing
<1>2. TypeOK'
  BY DEF Inv, TypeOK, Answer, Failure, Ended
<1>3. Quiet(r)
  BY DEF Inv, Quiet, TypeOK, Recording, Writing
<1>4. \/ /\ pc'[r] = "login" /\ answer'[r] = None /\ op[r].label \notin Wildcard
      \/ /\ pc'[r] = "done" /\ connection'[r] # "open"
         /\ answer'[r] \in {"email_unreachable", "internal_error", "label_not_found"}
  BY <1>1 DEF Inv, TypeOK
<1>5. RequestInv(r)'
  BY <1>1, <1>4, SetupStateAssumption DEF RequestInv, KindInv, SeenInv, AnswerInv, Writing,
     Comparing, Answer, Failure
<1> QED BY <1>2, <1>3, <1>5, QuietStep

LEMMA LogInStep ==
    ASSUME Inv, NEW r \in Request, LogIn(r) PROVE Inv'
<1> USE DEF LogIn, Conclude, Breaks, Goto, mail, history, disk, read
<1>1. /\ op[r] \in Op /\ op[r].kind = "link" /\ answer[r] = None
      /\ op[r].label \notin Wildcard /\ pc[r] = "login"
  BY DEF Inv, RequestInv, KindInv, Writing
<1>2. TypeOK'
  BY DEF Inv, TypeOK, Failure
<1>3. Quiet(r)
  BY DEF Inv, Quiet, TypeOK, Recording, Writing
<1>4. /\ \/ pc'[r] = "list"
         \/ pc'[r] = "logout" /\ outcome'[r] \in Exchanged \ {"found"}
      /\ op' = op /\ answer' = answer
  BY DEF Inv, TypeOK, Exchanged
<1>6. RequestInv(r)'
  BY <1>1, <1>4, SetupStateAssumption DEF RequestInv, KindInv, SeenInv, AnswerInv, Writing,
     Comparing, Answer, Failure
<1> QED BY <1>2, <1>3, <1>6, QuietStep

LEMMA ListLabelStep ==
    ASSUME Inv, NEW r \in Request, ListLabel(r) PROVE Inv'
<1> DEFINE v == [login |-> op[r].login, label |-> op[r].label, by |-> r]
<1> USE DEF ListLabel, Conclude, Breaks, Goto
<1>1. /\ op[r] \in Op /\ op[r].kind = "link" /\ answer[r] = None
      /\ op[r].label \notin Wildcard /\ pc[r] = "list"
  BY DEF Inv, RequestInv, KindInv, Writing
<1>2. v \in [login : Login, label : Label \ Wildcard, by : Request]
  BY <1>1 DEF Op
<1>3. /\ pc' = [pc EXCEPT ![r] = "logout"]
      /\ \/ /\ verified' = verified
            /\ \E failure \in {"email_unreachable", "internal_error", "label_not_found"} :
                  outcome' = [outcome EXCEPT ![r] = failure]
         \/ verified' = verified \cup {v} /\ outcome' = [outcome EXCEPT ![r] = "found"]
      /\ connection' \in {connection, [connection EXCEPT ![r] = "lost"]}
      /\ UNCHANGED <<disk, row, current, vouched, op, body, refused, read, answer, raced, superseded,
                     truth>>
  OBVIOUS
<1>4. v.label = op[r].label
  OBVIOUS
<1> HIDE DEF v, ListLabel, Conclude, Breaks, Goto
<1> USE DEF disk, read
<1>5. TypeOK'
  BY <1>2, <1>3 DEF Inv, TypeOK, Failure
<1>6. Quiet(r)
  BY <1>1, <1>3 DEF Inv, Quiet, TypeOK, Recording, Writing
<1>7. v \in verified' => op[r].label \in Checked'
  BY <1>4 DEF Checked
<1>8. /\ pc'[r] = "logout" /\ op' = op /\ answer' = answer
      /\ outcome'[r] \in Exchanged
      /\ outcome'[r] = "found" => op[r].label \in Checked'
  BY <1>3, <1>7 DEF Inv, TypeOK, Exchanged
<1>9. RequestInv(r)'
  BY <1>1, <1>8, SetupStateAssumption DEF RequestInv, KindInv, SeenInv, AnswerInv, Writing,
     Comparing, Answer, Failure
<1> QED BY <1>5, <1>6, <1>9, QuietStep

LEMMA LogOutStep ==
    ASSUME Inv, NEW r \in Request, LogOut(r) PROVE Inv'
<1> USE DEF LogOut, Breaks, Goto, End, history, disk, read
<1>1. /\ op[r] \in Op /\ op[r].kind = "link" /\ answer[r] = None /\ pc[r] = "logout"
      /\ outcome[r] \in Exchanged
      /\ outcome[r] = "found" => op[r].label \in Checked
  BY DEF Inv, RequestInv, KindInv, Writing
<1>2. TypeOK'
  BY <1>1 DEF Inv, TypeOK, Answer, Failure, Exchanged, Ended
<1>3. Quiet(r)
  BY DEF Inv, Quiet, TypeOK, Recording, Writing
<1>4. /\ op' = op /\ connection'[r] # "open" /\ Checked' = Checked
      /\ \/ pc'[r] = "select" /\ answer'[r] = None /\ op[r].label \in Checked
         \/ pc'[r] = "done" /\ answer'[r] \in Exchanged \ {"found"}
  BY <1>1 DEF Inv, TypeOK, Checked
<1>5. RequestInv(r)'
  BY <1>1, <1>4, SetupStateAssumption DEF RequestInv, KindInv, SeenInv, AnswerInv, Writing,
     Comparing, Answer, Failure, Exchanged
<1> QED BY <1>2, <1>3, <1>5, QuietStep

LEMMA SelectRowStep ==
    ASSUME Inv, NEW r \in Request, SelectRow(r) PROVE Inv'
<1> USE DEF SelectRow, Goto, held, mail, disk, read
<1>1. TypeOK'
  BY DEF Inv, TypeOK
<1>2. Quiet(r)
  BY DEF Inv, Quiet, TypeOK, Recording
<1>3. pc'[r] = "commit" /\ seen'[r] = row /\ op' = op /\ answer' = answer /\ verified' = verified
  BY DEF Inv, TypeOK
<1>4. KindInv(r)'
  BY <1>3 DEF Inv, RequestInv, KindInv, Writing, Checked
<1>5. SeenInv(r)'
  BY <1>3 DEF Inv, SeenInv, Comparing, RowInv, Recording
<1>6. AnswerInv(r)'
  BY <1>3, SetupStateAssumption DEF Inv, RequestInv, KindInv, AnswerInv, Answer, Failure
<1> QED BY <1>1, <1>2, <1>4, <1>5, <1>6, QuietStep DEF RequestInv

LEMMA ReadStepRowStep ==
    ASSUME Inv, NEW r \in Request, ReadStepRow(r) PROVE Inv'
<1> USE DEF ReadStepRow, Goto, held, mail, history, disk, read
<1>1. TypeOK'
  BY DEF Inv, TypeOK
<1>2. Quiet(r)
  BY DEF Inv, Quiet, TypeOK, Recording, Writing
<1>3. pc[r] = "step_row" /\ pc'[r] = "step_file" /\ op' = op /\ answer' = answer
  BY DEF Inv, TypeOK
<1>4. RequestInv(r)'
  BY <1>3, SetupStateAssumption DEF Inv, RequestInv, KindInv, SeenInv, AnswerInv, Writing, Comparing,
     Answer, Failure
<1> QED BY <1>1, <1>2, <1>4, QuietStep

LEMMA ReadStepFileStep ==
    ASSUME Inv, NEW r \in Request, ReadStepFile(r) PROVE Inv'
<1> USE DEF ReadStepFile, Goto, End, held, mail, history, disk, read
<1>1. TypeOK'
  BY DEF Inv, TypeOK, Answer, Ended
<1>2. Quiet(r)
  BY DEF Inv, Quiet, TypeOK, Recording, Writing
<1>3. op[r] \in Op /\ answer[r] = None /\ op' = op /\ connection'[r] # "open"
  BY DEF Inv, RequestInv, KindInv
<1>4. \/ pc'[r] = "state_row" /\ answer'[r] = None
      \/ pc'[r] = "done" /\ answer'[r] = "view"
  BY <1>3 DEF Inv, TypeOK
<1>5. RequestInv(r)'
  BY <1>3, <1>4, SetupStateAssumption DEF RequestInv, KindInv, SeenInv, AnswerInv, Writing, Comparing,
     Answer, Failure
<1> QED BY <1>1, <1>2, <1>5, QuietStep

LEMMA ReadStateRowStep ==
    ASSUME Inv, NEW r \in Request, ReadStateRow(r) PROVE Inv'
<1> USE DEF ReadStateRow, Goto, held, mail, history, disk, read
<1>1. TypeOK'
  BY DEF Inv, TypeOK
<1>2. Quiet(r)
  BY DEF Inv, Quiet, TypeOK, Recording, Writing
<1>3. /\ pc[r] = "state_row" /\ pc'[r] = "generation_row" /\ seen'[r] = row /\ op' = op
      /\ answer' = answer
  BY DEF Inv, TypeOK
<1>4. SeenInv(r)'
  BY <1>3 DEF Inv, SeenInv, Comparing, RowInv
<1>5. KindInv(r)' /\ AnswerInv(r)'
  BY <1>3, SetupStateAssumption DEF Inv, RequestInv, KindInv, AnswerInv, Writing, Answer, Failure
<1> QED BY <1>1, <1>2, <1>4, <1>5, QuietStep DEF RequestInv

LEMMA ReadGenerationRowStep ==
    ASSUME Inv, NEW r \in Request, ReadGenerationRow(r) PROVE Inv'
<1> USE DEF ReadGenerationRow, Goto, held, mail, disk, read
<1>1. vouched["generation"] \in Vouchable
  BY DEF Inv, TypeOK, Capability
<1>2. TypeOK'
  BY <1>1 DEF Inv, TypeOK
<1>3. Quiet(r)
  BY DEF Inv, Quiet, TypeOK, Recording, Writing
<1>4. /\ pc[r] = "generation_row" /\ pc'[r] = "generation_file" /\ op' = op /\ answer' = answer
      /\ recalled'[r] = vouched["generation"] /\ answer[r] = None
  BY DEF Inv, TypeOK, RequestInv, KindInv
<1>5. SeenInv(r)'
  BY <1>4 DEF Inv, RequestInv, SeenInv, Comparing
<1>6. KindInv(r)' /\ AnswerInv(r)'
  BY <1>4, SetupStateAssumption DEF Inv, RequestInv, KindInv, AnswerInv, Writing, Answer, Failure
<1> QED BY <1>2, <1>3, <1>5, <1>6, QuietStep DEF RequestInv

\* When a request compares generation with the file, setup_state says at least what the
\* request read, and the preflight it read is the stored one or was superseded.
LEMMA ReadGenerationFileStep ==
    ASSUME Inv, NEW r \in Request, ReadGenerationFile(r) PROVE Inv'
<1> USE DEF ReadGenerationFile, Goto, held, mail, disk, read
<1>1. IsComplete(FactsOf(row, UsableNow)) \in BOOLEAN
  BY DEF IsComplete
<1>2. PICK f : f = IF Matches(r, "generation") THEN {"generation"} ELSE {}
  OBVIOUS
<1>3. TypeOK'
  <2>1. f \in SUBSET (Capability \cup {"credential"})
    BY <1>2 DEF Capability
  <2> QED BY <1>1, <1>2, <2>1, SetupStateAssumption DEF Inv, TypeOK
<1>4. Quiet(r)
  BY DEF Inv, Quiet, TypeOK, Recording, Writing
<1>5. /\ pc[r] = "generation_file" /\ pc'[r] = "embeddings_row" /\ op' = op /\ answer' = answer
      /\ found'[r] = f /\ seen' = seen /\ row' = row /\ superseded' = superseded
      /\ current' = current /\ truth'[r] = IsComplete(FactsOf(row, UsableNow))
  BY <1>2 DEF Inv, TypeOK
<1>6. ASSUME Acknowledged(seen[r]) = current, EmailOf(seen[r]) # "pending",
             "generation" \in f, ~ superseded[r]
      PROVE  IsComplete(FactsOf(row, UsableNow))
  <2>1. Acknowledged(row) = current /\ EmailOf(row) # "pending" /\ current # None
    BY <1>5, <1>6, SetupStateAssumption
       DEF Inv, TypeOK, RequestInv, SeenInv, Comparing, Acknowledged, EmailOf
  <2>2. recalled[r] = vouched["generation"]
    BY <1>5, <1>6 DEF Inv, RequestInv, SeenInv
  <2>3. "generation" \in UsableNow
    BY <1>2, <1>6, <2>2 DEF Matches, UsableNow, Capability
  <2> QED BY <2>1, <2>3 DEF IsComplete, FactsOf, DisclosureAcknowledged, Covers, SomeUsable, IsUsable
<1>7. SeenInv(r)'
  <2>1. f \subseteq {"generation"}
    BY <1>2
  <2> QED BY <1>5, <1>6, <2>1 DEF Inv, RequestInv, SeenInv, Comparing, Acknowledged, EmailOf
<1>8. KindInv(r)' /\ AnswerInv(r)'
  BY <1>5, SetupStateAssumption DEF Inv, RequestInv, KindInv, AnswerInv, Writing, Answer, Failure
<1> QED BY <1>3, <1>4, <1>7, <1>8, QuietStep DEF RequestInv

LEMMA ReadEmbeddingsRowStep ==
    ASSUME Inv, NEW r \in Request, ReadEmbeddingsRow(r) PROVE Inv'
<1> USE DEF ReadEmbeddingsRow, Goto, held, mail, history, disk, read
<1>1. vouched["embeddings"] \in Vouchable
  BY DEF Inv, TypeOK, Capability
<1>2. TypeOK'
  BY <1>1 DEF Inv, TypeOK
<1>3. Quiet(r)
  BY DEF Inv, Quiet, TypeOK, Recording, Writing
<1>4. /\ pc[r] = "embeddings_row" /\ pc'[r] = "embeddings_file" /\ op' = op /\ answer' = answer
  BY DEF Inv, TypeOK
<1>5. SeenInv(r)'
  BY <1>4 DEF Inv, RequestInv, SeenInv, Comparing
<1>6. KindInv(r)' /\ AnswerInv(r)'
  BY <1>4, SetupStateAssumption DEF Inv, RequestInv, KindInv, AnswerInv, Writing, Answer, Failure
<1> QED BY <1>2, <1>3, <1>5, <1>6, QuietStep DEF RequestInv

\* The facts a request assembles are facts, whatever it read them from.
LEMMA FactsOfType ==
    ASSUME Inv, NEW w \in Row \cup {NoRow}, NEW u
    PROVE  FactsOf(w, u) \in SetupFacts(Version)
<1> DEFINE of(c) == IF c \in u THEN {[result |-> "verified", credential_matches |-> TRUE,
                                     degradation_acknowledged |-> FALSE]}
                   ELSE {}
<1>1. of("generation") \in Optional(ProviderFacts) /\ of("embeddings") \in Optional(ProviderFacts)
  BY DEF Optional, ProviderFacts, Result
<1>2. (IF Acknowledged(w) = None THEN {} ELSE {Acknowledged(w)}) \in Optional(Version)
  BY DEF Acknowledged, Row, Optional
<1>3. EmailOf(w) \in EmailStatus /\ current \in Version
  BY DEF EmailOf, Row, EmailStatus, Inv, TypeOK
<1> HIDE DEF of
<1>4. FactsOf(w, u) = [current |-> current,
                       acknowledged |-> IF Acknowledged(w) = None THEN {} ELSE {Acknowledged(w)},
                       generation |-> of("generation"), embeddings |-> of("embeddings"),
                       email |-> EmailOf(w)]
  BY DEF FactsOf, of
<1> QED BY <1>1, <1>2, <1>3, <1>4 DEF SetupFacts

LEMMA ReadEmbeddingsFileStep ==
    ASSUME Inv, NEW r \in Request, ReadEmbeddingsFile(r) PROVE Inv'
<1> DEFINE both == found[r] \cup (IF Matches(r, "embeddings") THEN {"embeddings"} ELSE {})
           facts == FactsOf(seen[r], both)
<1> USE DEF ReadEmbeddingsFile, End, held, mail, history, disk, read
<1>1. facts \in SetupFacts(Version)
  BY FactsOfType DEF Inv, TypeOK
<1>2. Shown(facts) \in Step \cup {"null"} /\ (Shown(facts) = "null" => IsComplete(facts))
  <2> HIDE DEF facts
  <2>1. PendingStep(facts) = {} \/ \E s \in Step : PendingStep(facts) = {s}
    BY DEF PendingStep, Step
  <2> QED BY <1>1, <2>1, NullIffComplete DEF Shown, Step
<1>3. /\ pc'[r] = "done" /\ answer'[r] = Shown(facts) /\ op' = op /\ truth' = truth
      /\ superseded' = superseded
      /\ answer' = [answer EXCEPT ![r] = Shown(facts)]
  BY DEF Inv, TypeOK
<1>4. ASSUME IsComplete(facts) PROVE truth[r] \/ superseded[r]
  <2>1. /\ Acknowledged(seen[r]) = current /\ EmailOf(seen[r]) # "pending"
        /\ "generation" \in both
    BY <1>4, SetupStateAssumption DEF IsComplete, FactsOf, DisclosureAcknowledged, Covers, SomeUsable
  <2>2. "generation" \in found[r]
    BY <2>1
  <2> QED BY <2>1, <2>2 DEF Inv, RequestInv, SeenInv
<1> HIDE DEF facts, both
<1>5. TypeOK'
  BY <1>2, <1>3, SetupStateAssumption DEF Inv, TypeOK, Answer, Ended
<1>6. Quiet(r)
  BY <1>3 DEF Inv, Quiet, TypeOK, Recording, Writing
<1>7. RequestInv(r)'
  BY <1>2, <1>3, <1>4 DEF Inv, RequestInv, KindInv, SeenInv, Comparing, AnswerInv, Writing, Step
<1> QED BY <1>5, <1>6, <1>7, QuietStep

(* ------------------------------- the commit ------------------------------ *)

Target(r) == IF seen[r] = NoRow THEN Recorded(r, NewRow)
             ELSE Update(Recorded(r, seen[r]), seen[r], row)

\* One fact at a time: row w becomes t by an acknowledgement of the version in
\* force, by a link to a checked label, by a skip, or not at all.
OneFact(w, t) ==
    \/ /\ t.version = current
       /\ t.status = EmailOf(w) /\ t.label = LabelOf(w)
    \/ /\ t.version = Acknowledged(w)
       /\ t.status = "linked" /\ t.label \in Checked
    \/ /\ t.version = Acknowledged(w)
       /\ t.status = "skipped" /\ t.label = None
    \/ /\ t.version = Acknowledged(w)
       /\ t.status = EmailOf(w) /\ t.label = LabelOf(w)

\* Columns of two writers can only meet where the constraints refuse the result.
LEMMA TargetIsSound ==
    ASSUME Inv, NEW r \in Request, pc[r] = "commit", seen[r] = NoRow => row = NoRow,
           RowAllowed(Target(r))
    PROVE  /\ Target(r) \in Row /\ RowSound(Target(r)) /\ OneFact(row, Target(r))
           /\ Target(r).status = "linked" => Target(r).label \in Checked
           /\ EmailOf(row) # "pending" => Target(r).status # "pending"
           /\ Acknowledged(row) = current => Target(r).version = current
           /\ Target(r).linked_at \in {r, None} \/ (row # NoRow /\ Target(r).linked_at = row.linked_at)
<1> DEFINE o == op[r]
           t == Target(r)
<1>1. /\ o \in Op /\ o.kind \in {"ack", "link", "skip"} /\ current \in Version
      /\ o.kind = "ack" => o.version = current
      /\ o.kind = "link" => o.label \in Checked /\ o.label \in Label
      /\ row \in Row \cup {NoRow} /\ seen[r] \in Row \cup {NoRow} /\ SeenInv(r) /\ RowInv
      /\ r \notin {None}
  BY SetupStateAssumption DEF Inv, TypeOK, RequestInv, KindInv, Op
<1>2. NewRow \in Row
  BY DEF NewRow, Row, EmailStatus
<1>3. ASSUME NEW w \in Row
      PROVE  /\ Recorded(r, w) \in Row
             /\ o.kind = "ack" =>
                 /\ Recorded(r, w).version = current /\ Recorded(r, w).status = w.status
                 /\ Recorded(r, w).label = w.label /\ Recorded(r, w).linked_at = w.linked_at
             /\ o.kind = "link" =>
                 /\ Recorded(r, w).version = w.version /\ Recorded(r, w).status = "linked"
                 /\ Recorded(r, w).label = o.label /\ Recorded(r, w).linked_at = r
             /\ o.kind = "skip" =>
                 /\ Recorded(r, w).version = w.version /\ Recorded(r, w).status = "skipped"
                 /\ Recorded(r, w).label = None /\ Recorded(r, w).linked_at = None
  <2>1. CASE o.kind = "ack"
    BY <1>1, <2>1 DEF Recorded, Row
  <2>2. CASE o.kind = "link"
    BY <1>1, <2>2 DEF Recorded, Row, EmailStatus
  <2>3. CASE o.kind = "skip"
    BY <1>1, <2>3 DEF Recorded, Row, EmailStatus
  <2> QED BY <1>1, <2>1, <2>2, <2>3
<1>4. CASE seen[r] = NoRow
  <2>1. row = NoRow /\ t = Recorded(r, NewRow)
    BY <1>4 DEF Target
  <2> HIDE DEF t
  <2>2. EmailOf(row) = "pending" /\ LabelOf(row) = None /\ Acknowledged(row) = None
    BY <2>1 DEF EmailOf, LabelOf, Acknowledged
  <2>3. /\ NewRow.version = None /\ NewRow.acked_at = None /\ NewRow.status = "pending"
        /\ NewRow.label = None /\ NewRow.linked_at = None
    BY DEF NewRow
  <2>4. t \in Row /\ RowAllowed(t)
    BY <1>2, <1>3, <2>1 DEF t
  <2>5. current # None
    BY <1>1, SetupStateAssumption
  <2>6. CASE o.kind = "ack"
    <3>1. /\ t.version = current /\ t.status = "pending" /\ t.label = None /\ t.linked_at = None
      BY <1>2, <1>3, <2>1, <2>3, <2>6
    <3> QED BY <2>1, <2>2, <2>4, <2>5, <3>1 DEF OneFact, RowSound, t
  <2>7. CASE o.kind = "link"
    <3>1. t.version = None /\ t.status = "linked" /\ t.label = o.label /\ t.linked_at = r
      BY <1>2, <1>3, <2>1, <2>3, <2>7
    <3> QED BY <1>1, <2>1, <2>2, <2>4, <2>5, <2>7, <3>1 DEF OneFact, RowSound, t
  <2>8. CASE o.kind = "skip"
    <3>1. t.version = None /\ t.status = "skipped" /\ t.label = None /\ t.linked_at = None
      BY <1>2, <1>3, <2>1, <2>3, <2>8
    <3> QED BY <2>1, <2>2, <2>4, <2>5, <3>1 DEF OneFact, RowSound, t
  <2> QED BY <1>1, <2>6, <2>7, <2>8
<1>5. CASE seen[r] # NoRow
  <2> DEFINE l == seen[r]
             n == Recorded(r, l)
  <2>1. /\ l \in Row /\ row \in Row /\ row # NoRow /\ RowSound(l) /\ RowSound(row) /\ n \in Row
        /\ t = Update(n, l, row)
        /\ l.status # "pending" => row.status # "pending"
        /\ l.version = current => row.version = current
        /\ l.linked_at # r
        /\ row.status = "linked" => row.label \in Checked
    BY <1>1, <1>3, <1>5 DEF Target, SeenInv, Comparing, RowInv
  <2>2. /\ t \in Row
        /\ t.version = IF n.version # l.version THEN n.version ELSE row.version
        /\ t.status = IF n.status # l.status THEN n.status ELSE row.status
        /\ t.label = IF n.label # l.label THEN n.label ELSE row.label
        /\ t.linked_at = IF n.linked_at # l.linked_at THEN n.linked_at ELSE row.linked_at
    BY <2>1, UpdateIsRow
  <2>3. EmailOf(row) = row.status /\ LabelOf(row) = row.label /\ Acknowledged(row) = row.version
    BY <2>1 DEF EmailOf, LabelOf, Acknowledged
  <2>4. RowAllowed(t) /\ (row.status \in EmailStatus) /\ (l.status \in EmailStatus)
    BY <2>1 DEF Row
  <2>5. CASE o.kind = "ack"
    <3>1. n.version = current /\ n.status = l.status /\ n.label = l.label /\ n.linked_at = l.linked_at
      BY <1>3, <2>1, <2>5
    <3>2. /\ t.version = current /\ t.status = row.status /\ t.label = row.label
          /\ t.linked_at = row.linked_at
      BY <2>1, <2>2, <3>1
    <3> QED BY <2>1, <2>2, <2>3, <2>4, <3>2 DEF OneFact, RowSound
  <2>6. CASE o.kind = "link"
    <3>1. n.version = l.version /\ n.status = "linked" /\ n.label = o.label /\ n.linked_at = r
      BY <1>3, <2>1, <2>6
    <3>2. t.version = row.version /\ t.linked_at = r
      BY <2>1, <2>2, <3>1
    <3>3. t.status = "linked"
      BY <1>1, <2>1, <2>2, <2>4, <3>1, <3>2 DEF RowAllowed, EmailStatus
    <3>4. t.label \in Checked
      BY <1>1, <2>1, <2>2, <2>4, <2>6, <3>1, <3>3 DEF RowAllowed, RowSound, EmailStatus
    <3> QED BY <2>2, <2>3, <2>4, <3>2, <3>3, <3>4 DEF OneFact, RowSound
  <2>7. CASE o.kind = "skip"
    <3>1. n.version = l.version /\ n.status = "skipped" /\ n.label = None /\ n.linked_at = None
      BY <1>3, <2>1, <2>7
    <3>2. t.version = row.version /\ t.linked_at \in {None, row.linked_at}
      BY <2>2, <3>1
    <3>3. CASE l.status = "skipped"
      <4>1. t.status = row.status /\ t.label = row.label
        BY <2>1, <2>2, <3>1, <3>3 DEF RowSound, RowAllowed
      <4> QED BY <2>1, <2>2, <2>3, <2>4, <3>2, <4>1 DEF OneFact, RowSound
    <3>4. CASE l.status # "skipped"
      <4>1. t.status = "skipped" /\ t.label = None
        BY <2>2, <2>4, <3>1, <3>4 DEF RowAllowed
      <4> QED BY <2>1, <2>2, <2>3, <2>4, <3>2, <4>1 DEF OneFact, RowSound
    <3> QED BY <3>3, <3>4
  <2> QED BY <1>1, <2>5, <2>6, <2>7
<1> QED BY <1>4, <1>5

\* A request that has the row to itself writes what it meant to, and that is allowed.
LEMMA AloneIsAllowed ==
    ASSUME Inv, NEW r \in Request, pc[r] = "commit", seen[r] = row
    PROVE  RowAllowed(Target(r))
<1>1. /\ op[r] \in Op /\ op[r].kind \in {"ack", "link", "skip"} /\ current \in Version
      /\ op[r].kind = "ack" => op[r].version = current
      /\ op[r].kind = "link" => op[r].label \in Label
      /\ row \in Row \cup {NoRow} /\ RowInv /\ r # None
  BY SetupStateAssumption DEF Inv, TypeOK, RequestInv, KindInv, Op
<1>2. PICK w : w = IF row = NoRow THEN NewRow ELSE row
  OBVIOUS
<1>3. w \in Row /\ RowAllowed(w)
  BY <1>1, <1>2 DEF NewRow, Row, EmailStatus, RowAllowed, RowInv, RowSound
<1>4. Recorded(r, w) \in Row /\ RowAllowed(Recorded(r, w))
  <2>1. CASE op[r].kind = "ack"
    BY <1>1, <1>3, <2>1, SetupStateAssumption DEF Recorded, Row, RowAllowed
  <2>2. CASE op[r].kind = "link"
    BY <1>1, <1>3, <2>2, SetupStateAssumption DEF Recorded, Row, RowAllowed, EmailStatus
  <2>3. CASE op[r].kind = "skip"
    BY <1>1, <1>3, <2>3 DEF Recorded, Row, RowAllowed, EmailStatus
  <2> QED BY <1>1, <2>1, <2>2, <2>3
<1>5. Target(r) = Recorded(r, w)
  BY <1>2, <1>3, <1>4, UpdateOfCurrent DEF Target
<1> QED BY <1>4, <1>5

LEMMA CommitStep ==
    ASSUME Inv, NEW r \in Request, Commit(r) PROVE Inv'
<1> USE DEF disk, read
<1>1. PICK t : t = Target(r)
  OBVIOUS
<1>2. pc[r] = "commit" /\ op[r] \in Op /\ answer[r] = None /\ SeenInv(r) /\ connection[r] # "open"
  BY DEF Commit, Inv, RequestInv, KindInv
<1>3. CASE (seen[r] = NoRow => row = NoRow) /\ RowAllowed(t)
  <2>1. /\ row' = t
        /\ raced' = [q \in Request |-> raced[q] \/ (q # r /\ Running(q))]
        /\ pc' = [pc EXCEPT ![r] = IF op[r].kind = "ack" THEN "state_row" ELSE "step_row"]
        /\ answer' = answer
        /\ UNCHANGED <<disk, current, vouched, op, body, mail, read, verified, superseded, truth>>
    BY <1>1, <1>3 DEF Commit, Target, Goto, held
  <2>2. /\ t \in Row /\ RowSound(t)
        /\ t.status = "linked" => t.label \in Checked
        /\ EmailOf(row) # "pending" => t.status # "pending"
        /\ Acknowledged(row) = current => t.version = current
        /\ t.linked_at \in {r, None} \/ (row # NoRow /\ t.linked_at = row.linked_at)
    BY <1>1, <1>2, <1>3, TargetIsSound
  <2>3. t # NoRow
    BY <2>2, NoRowAssumption
  <2>4. TypeOK'
    BY <2>1, <2>2 DEF Inv, TypeOK, mail
  <2>5. pc'[r] \in {"state_row", "step_row"} /\ Checked' = Checked
    BY <2>1 DEF Inv, TypeOK, Checked
  <2>6. \A q \in Request \ {r} : pc'[q] = pc[q]
    BY <2>1 DEF Inv, TypeOK
  <2>7. RowInv'
    <3>1. ASSUME NEW q \in Request, pc'[q] \in Recording PROVE t.linked_at # q
      <4>1. q # r /\ pc[q] \in Recording
        BY <2>5, <2>6, <3>1 DEF Recording, Writing
      <4> QED BY <2>2, <4>1, SetupStateAssumption DEF Inv, RowInv
    <3> QED BY <2>1, <2>2, <2>5, <3>1 DEF RowInv, RowSound, RowAllowed
  <2>8. RequestInv(r)'
    BY <1>2, <2>1, <2>5, SetupStateAssumption
       DEF RequestInv, KindInv, SeenInv, Comparing, AnswerInv, Writing, Answer, Failure, mail
  <2>9. ASSUME NEW q \in Request, q # r PROVE RequestInv(q)'
    <3>1. RequestInv(q) /\ pc'[q] = pc[q]
      BY <2>6, <2>9 DEF Inv
    <3>2. raced'[q] = (raced[q] \/ Running(q))
      BY <2>1, <2>9
    <3>3. KindInv(q)'
      BY <2>1, <2>5, <3>1 DEF RequestInv, KindInv, mail
    <3>4. SeenInv(q)'
      BY <2>1, <2>2, <2>3, <3>1, <3>2
         DEF RequestInv, SeenInv, Comparing, RowSound, RowAllowed, EmailOf, Acknowledged, Running, Ended
    <3>5. AnswerInv(q)'
      BY <2>1, <3>1, <3>2 DEF RequestInv, AnswerInv
    <3> QED BY <3>3, <3>4, <3>5 DEF RequestInv
  <2> QED BY <2>4, <2>7, <2>8, <2>9 DEF Inv
<1>4. CASE ~ ((seen[r] = NoRow => row = NoRow) /\ RowAllowed(t))
  <2>1. /\ pc' = [pc EXCEPT ![r] = "done"]
        /\ answer' = [answer EXCEPT ![r] = "integrity_error"]
        /\ UNCHANGED <<disk, row, current, vouched, op, body, mail, read, history>>
    BY <1>1, <1>4 DEF Commit, Target, End, held, history
  <2>2. raced[r]
    BY <1>1, <1>2, <1>4, AloneIsAllowed DEF SeenInv, Comparing
  <2>3. TypeOK'
    BY <2>1 DEF Inv, TypeOK, Answer, Failure, Ended, mail, history
  <2>4. Quiet(r)
    BY <2>1 DEF Inv, Quiet, TypeOK, Recording, Writing, mail, history
  <2>5. /\ pc'[r] = "done" /\ answer'[r] = "integrity_error" /\ raced'[r] /\ op' = op
        /\ connection' = connection
    BY <2>1, <2>2 DEF Inv, TypeOK, mail, history
  <2>6. RequestInv(r)'
    BY <1>2, <2>5 DEF RequestInv, KindInv, SeenInv, Comparing, AnswerInv, Writing
  <2> QED BY <2>3, <2>4, <2>6, QuietStep
<1> QED BY <1>3, <1>4

(* ----------------------- the world outside, and Init --------------------- *)

\* A restart may ship another text, but no request that read the old one survives.
LEMMA RestartStep ==
    ASSUME Inv, Restart PROVE Inv'
<1> USE DEF Restart, held, mail, history, disk, read
<1>1. TypeOK'
  BY DEF Inv, TypeOK, Ended
<1>2. ASSUME NEW r \in Request
      PROVE  pc'[r] \in {"idle", "done", "dead"} /\ (pc'[r] = pc[r] \/ pc'[r] = "dead")
  BY DEF Inv, TypeOK, Running, Ended
<1>3. ASSUME NEW r \in Request PROVE RequestInv(r)'
  <2>1. RequestInv(r)
    BY DEF Inv
  <2>2. (pc'[r] = "idle" => pc[r] = "idle") /\ (pc'[r] = "dead" => pc[r] # "done")
        /\ (pc'[r] = "dead" => pc[r] # "idle")
    BY DEF Inv, TypeOK, Running, Ended
  <2> QED BY <1>2, <2>1, <2>2 DEF RequestInv, KindInv, SeenInv, Comparing, AnswerInv, Writing
<1>4. RowInv'
  BY <1>2 DEF Inv, RowInv, RowSound, RowAllowed, Checked, Recording, Writing
<1> QED BY <1>1, <1>3, <1>4 DEF Inv

\* A request whose preflight of generation is stored anew is marked.
LEMMA ReconfigureStep ==
    ASSUME Inv, Reconfigure PROVE Inv'
<1> USE DEF Reconfigure, held, mail, disk, read
<1>1. TypeOK'
  BY DEF Inv, TypeOK
<1>2. ASSUME NEW r \in Request PROVE RequestInv(r)'
  <2>1. /\ RequestInv(r) /\ pc' = pc /\ op' = op /\ seen' = seen /\ row' = row
        /\ superseded[r] => superseded'[r]
        /\ pc[r] = "generation_file" =>
                superseded'[r] \/ vouched'["generation"] = vouched["generation"]
    BY DEF Inv
  <2>2. KindInv(r)' /\ AnswerInv(r)'
    BY <2>1 DEF RequestInv, KindInv, AnswerInv, Checked
  <2>3. SeenInv(r)'
    BY <2>1 DEF RequestInv, SeenInv
  <2> QED BY <2>2, <2>3 DEF RequestInv
<1>3. RowInv'
  BY DEF Inv, RowInv, Checked
<1> QED BY <1>1, <1>2, <1>3 DEF Inv

\* Nothing stored or read vouches for a credential under another installation key.
LEMMA MintAgainStep ==
    ASSUME Inv, MintAgain PROVE Inv'
<1> USE DEF MintAgain, held, mail, history, disk
<1>1. TypeOK'
  BY SetupStateAssumption DEF Inv, TypeOK
<1>2. ASSUME NEW r \in Request PROVE RequestInv(r)'
  <2>1. RequestInv(r) /\ recalled'[r] = vouched'["generation"]
    BY DEF Inv, Capability
  <2>2. KindInv(r)' /\ AnswerInv(r)'
    BY <2>1 DEF RequestInv, KindInv, AnswerInv, Checked
  <2>3. SeenInv(r)'
    BY <2>1 DEF RequestInv, SeenInv
  <2> QED BY <2>2, <2>3 DEF RequestInv
<1>3. RowInv'
  BY DEF Inv, RowInv, Checked
<1> QED BY <1>1, <1>2, <1>3 DEF Inv

LEMMA StutterStep ==
    ASSUME Inv, UNCHANGED vars PROVE Inv'
<1> USE DEF vars, held, mail, history, disk, read
<1>1. TypeOK'
  BY DEF Inv, TypeOK
<1>2. ASSUME NEW r \in Request PROVE RequestInv(r)'
  BY DEF Inv, RequestInv, KindInv, SeenInv, Comparing, AnswerInv, Checked
<1>3. RowInv'
  BY DEF Inv, RowInv, Checked
<1> QED BY <1>1, <1>2, <1>3 DEF Inv

\* What an earlier visit may have left is sound, and has not touched the mailbox.
LEMMA InitialRow ==
    ASSUME Init
    PROVE  /\ row \in Row \cup {NoRow}
           /\ row # NoRow => RowSound(row) /\ row.status = "pending" /\ row.linked_at = None
           /\ Acknowledged(row) \in Version \cup {None}
           /\ EmailOf(row) = "pending" /\ LabelOf(row) = None
<1>1. CASE row = NoRow
  BY <1>1 DEF Acknowledged, EmailOf, LabelOf
<1>2. CASE row # NoRow
  <2>1. PICK v \in Version :
            row = [version |-> v, acked_at |-> "earlier", status |-> "pending",
                   label |-> None, linked_at |-> None]
    BY <1>2 DEF Init
  <2>2. "earlier" # None /\ v # None
    BY SetupStateAssumption
  <2>3. row \in Row
    BY <2>1 DEF Row, EmailStatus
  <2>4. RowSound(row)
    BY <2>1, <2>2 DEF RowSound, RowAllowed
  <2> QED BY <1>2, <2>1, <2>3, <2>4 DEF Acknowledged, EmailOf, LabelOf
<1> QED BY <1>1, <1>2

LEMMA InitInv == Init => Inv
<1> SUFFICES ASSUME Init PROVE Inv
  OBVIOUS
<1>1. /\ row \in Row \cup {NoRow}
      /\ row # NoRow => RowSound(row) /\ row.status = "pending" /\ row.linked_at = None
  BY InitialRow
<1>2. RowInv
  BY <1>1, SetupStateAssumption DEF RowInv
<1>3. TypeOK
  BY <1>1, SetupStateAssumption DEF Init, TypeOK, Content, EmptyFile, Stored, Ended
<1> USE DEF Init
<1>4. ASSUME NEW r \in Request PROVE RequestInv(r)
  <2>1. pc[r] = "idle" /\ answer[r] = None
    OBVIOUS
  <2> QED BY <2>1, SetupStateAssumption DEF RequestInv, KindInv, SeenInv, Comparing, AnswerInv, Writing, Answer,
             Failure
<1> QED BY <1>2, <1>3, <1>4 DEF Inv

LEMMA NextInv == Inv /\ [Next]_vars => Inv'
<1> SUFFICES ASSUME Inv, [Next]_vars PROVE Inv'
  OBVIOUS
<1>1. ASSUME NEW r \in Request,
             Submit(r) \/ SubmitAcknowledgement(r) \/ SubmitLink(r) \/ SubmitSave(r)
      PROVE  Inv'
  BY <1>1, SubmitStep, SubmitAcknowledgementStep, SubmitLinkStep, SubmitSaveStep
<1>2. ASSUME NEW r \in Request, Advance(r) PROVE Inv'
  BY <1>2, CheckAcknowledgementStep, ReadForPasswordStep, TruncateFileStep, WriteFileStep,
     VerifyLabelStep, LogInStep, ListLabelStep, LogOutStep, SelectRowStep, CommitStep,
     ReadStepRowStep, ReadStepFileStep, ReadStateRowStep, ReadGenerationRowStep,
     ReadGenerationFileStep, ReadEmbeddingsRowStep, ReadEmbeddingsFileStep DEF Advance
<1> QED BY <1>1, <1>2, ReconfigureStep, MintAgainStep, RestartStep, StutterStep DEF Next

(* ------------------------------ refinement ------------------------------- *)

\* What a step that writes neither the row nor the history of checked labels means
\* to the promise.
LEMMA SameFacts ==
    ASSUME UNCHANGED <<row, verified>>
    PROVE  /\ UNCHANGED <<Acknowledged(row), EmailOf(row), LabelOf(row), Checked>>
           /\ UNCHANGED current => UNCHANGED Promise!vars
<1>1. UNCHANGED <<Acknowledged(row), EmailOf(row), LabelOf(row), Checked>>
  BY DEF Acknowledged, EmailOf, LabelOf, Checked
<1> QED BY <1>1 DEF Promise!vars, Checked

LEMMA ListIsCheck ==
    ASSUME Inv, NEW r \in Request, ListLabel(r) PROVE [Promise!Next]_(Promise!vars)
<1>1. op[r] \in Op /\ op[r].kind = "link" /\ op[r].label \in Label \ Wildcard
  BY DEF ListLabel, Inv, RequestInv, KindInv, Writing, Op
<1>2. UNCHANGED <<row, current>>
  BY DEF ListLabel
<1>3. CASE verified' = verified
  BY <1>2, <1>3, SameFacts
<1>4. CASE verified' = verified \cup {[login |-> op[r].login, label |-> op[r].label, by |-> r]}
  <2>1. PICK x : x = [login |-> op[r].login, label |-> op[r].label, by |-> r]
    OBVIOUS
  <2>2. PICK l : l = op[r].label
    OBVIOUS
  <2>3. x.label = l /\ l \in Label \ Wildcard
    BY <1>1, <2>1, <2>2
  <2>4. verified' = verified \cup {x}
    BY <1>4, <2>1
  <2>5. {v.label : v \in verified'} = {v.label : v \in verified} \cup {l}
    BY <2>3, <2>4
  <2>6. Promise!Check(l)
    BY <1>2, <2>5 DEF Promise!Check, Acknowledged, EmailOf, LabelOf
  <2> QED BY <2>3, <2>6 DEF Promise!Next
<1> QED BY <1>3, <1>4 DEF ListLabel

LEMMA CommitIsOneFact ==
    ASSUME Inv, NEW r \in Request, Commit(r) PROVE [Promise!Next]_(Promise!vars)
<1>1. PICK t : t = Target(r)
  OBVIOUS
<1>2. UNCHANGED <<current, verified>> /\ pc[r] = "commit"
  BY DEF Commit
<1>3. CASE row' = row
  BY <1>2, <1>3, SameFacts
<1>4. CASE /\ seen[r] = NoRow => row = NoRow
           /\ RowAllowed(t) /\ row' = t
  <2>1. t \in Row /\ OneFact(row, t)
    BY <1>1, <1>2, <1>4, TargetIsSound
  <2>2. Acknowledged(row)' = t.version /\ EmailOf(row)' = t.status /\ LabelOf(row)' = t.label
    BY <1>4, <2>1, NoRowAssumption DEF Acknowledged, EmailOf, LabelOf
  <2>3. Checked' = Checked /\ current' = current
    BY <1>2 DEF Checked
  <2>4. Checked \subseteq Label \ Wildcard
    BY DEF Checked, Inv, TypeOK
  <2>5. CASE UNCHANGED Promise!vars
    BY <2>5
  <2>6. CASE Promise!Acknowledge \/ Promise!Skip
    BY <2>6 DEF Promise!Next
  <2>7. CASE \E l \in Checked : Promise!Link(l)
    BY <2>4, <2>7 DEF Promise!Next
  <2>8. UNCHANGED Promise!vars \/ Promise!Acknowledge \/ Promise!Skip
        \/ \E l \in Checked : Promise!Link(l)
    BY <2>1, <2>2, <2>3
       DEF OneFact, Promise!Acknowledge, Promise!Link, Promise!Skip, Promise!vars, Checked
  <2> QED BY <2>5, <2>6, <2>7, <2>8
<1> QED BY <1>1, <1>3, <1>4 DEF Commit, Target

LEMMA InitIsPromised == Init => Promise!Init
  BY InitialRow DEF Init, Promise!Init

LEMMA StepIsPromised ==
    ASSUME Inv, [Next]_vars PROVE [Promise!Next]_(Promise!vars)
<1>1. ASSUME NEW r \in Request,
             Submit(r) \/ SubmitAcknowledgement(r) \/ SubmitLink(r) \/ SubmitSave(r)
      PROVE UNCHANGED <<row, verified, current>>
  BY <1>1 DEF Submit, SubmitAcknowledgement, SubmitLink, SubmitSave, history
<1>2. ASSUME NEW r \in Request, Advance(r), ~ ListLabel(r), ~ Commit(r)
      PROVE UNCHANGED <<row, verified, current>>
  BY <1>2 DEF Advance, CheckAcknowledgement, ReadForPassword, TruncateFile, WriteFile,
     VerifyLabel, LogIn, LogOut, SelectRow, ReadStepRow, ReadStepFile, ReadStateRow,
     ReadGenerationRow, ReadGenerationFile, ReadEmbeddingsRow, ReadEmbeddingsFile, history
<1>3. CASE Reconfigure \/ MintAgain \/ UNCHANGED vars
  BY <1>3, SameFacts DEF Reconfigure, MintAgain, vars, history
<1>4. CASE Restart
  <2>1. UNCHANGED <<row, verified>> /\ current' \in Version
    BY <1>4 DEF Restart, history
  <2>2. Promise!Publish
    BY <2>1, SameFacts DEF Promise!Publish, Checked
  <2> QED BY <2>2 DEF Promise!Next
<1> QED BY <1>1, <1>2, <1>3, <1>4, SameFacts, ListIsCheck, CommitIsOneFact DEF Next

(* ------------------------------- theorems -------------------------------- *)

\* The inductive invariant holds in every reachable state: what each thread of
\* setup_service.py and email_link_service.py holds, and what the row may be.
THEOREM Invariance == Spec => []Inv
  BY InitInv, NextInv, PTL DEF Spec

\* Every variable keeps its type whatever the interleaving and the restarts: no
\* wildcard label is ever among those that were verified.
THEOREM TypeCorrect == Spec => []TypeOK
<1>1. Inv => TypeOK
  BY DEF Inv
<1> QED BY <1>1, Invariance, PTL

\* read_state gathers its facts from three rows and two reads of the file, each on its
\* own; yet a first run it reports concluded was concluded when it compared generation
\* with the file, unless another preflight of generation was stored between that row and
\* that read: neither an acknowledgement nor an email step already recorded is ever taken
\* back under the same text.
THEOREM NullWasCompleteHolds == Spec => []NullWasComplete
<1>1. Inv => NullWasComplete
  BY DEF Inv, NullWasComplete, RequestInv, AnswerInv
<1> QED BY <1>1, Invariance, PTL

\* Whatever the mailbox server does, an answered request has closed the connection its
\* link opened, or that connection broke or was refused a goodbye: no way out of the
\* exchange leaves a working connection behind.
THEOREM ClosedUnlessLostHolds == Spec => []ClosedUnlessLost
<1>1. Inv => ClosedUnlessLost
  BY DEF Inv, ClosedUnlessLost, RequestInv, KindInv, Running, Ended
<1> QED BY <1>1, Invariance, PTL

\* A link, a skip or an acknowledgement is refused by the constraints of setup_state
\* only after another one committed between its SELECT and its UPDATE.
THEOREM RefusedOnlyIfRacedHolds == Spec => []RefusedOnlyIfRaced
<1>1. Inv => RefusedOnlyIfRaced
  BY DEF Inv, RefusedOnlyIfRaced, RequestInv, AnswerInv
<1> QED BY <1>1, Invariance, PTL

\* The services implement the promise of the first run: every step of every thread
\* records at most one fact, of a text in force or of a label that was checked.
THEOREM ImplementsFirstRun == Spec => KeepsItsPromise
<1>1. Init => Promise!Init
  BY InitIsPromised
<1>2. Inv /\ [Next]_vars => [Promise!Next]_(Promise!vars)
  BY StepIsPromised
<1> QED BY <1>1, <1>2, Invariance, PTL DEF Spec, KeepsItsPromise, Promise!Spec
(* ------------------------ a link that nobody repeats --------------------- *)

\* Rewrites of the file follow one another, and one that has truncated it finds it empty.
TornInv == ~ torn => /\ \A p, q \in Rewriting : p = q
                     /\ \A q \in Request : pc[q] \in Landing => file = EmptyFile

SavePhase == {"truncate_key", "write_key"}

\* The file has value v under a name, and so has what every save under way puts back.
Kept(name, v) ==
    /\ \A q \in Request : pc[q] \in SavePhase => body[q][name] = v
    /\ (\A q \in Request : pc[q] # "write_key") => file[name] = v

\* Both halves of the login of r are stored.
InFile(r) == /\ Kept("GMAIL_ADDRESS", Strip[op[r].login[1]])
             /\ Kept("GMAIL_APP_PASSWORD", Strip[op[r].login[2]])

\* What the mailbox confirmed of r.
Confirmed(r) == [login |-> op[r].login, label |-> op[r].label, by |-> r]

RecordsLink(r) == pc[r] \in {"select", "commit"} /\ op[r].kind = "link"

\* As long as no rewrites overlapped, the only link finds what it wrote where it wrote
\* it, records nothing that was not confirmed, and nobody else links the step.
LinkInv(r) == (OnlyLink(r) /\ ~ torn) =>
    /\ pc[r] \in {"truncate_address", "write_address", "truncate_password", "write_password"} =>
        body[r]["GMAIL_ADDRESS"] = Strip[op[r].login[1]]
    /\ pc[r] \in {"truncate_password", "write_password"} =>
        body[r]["GMAIL_APP_PASSWORD"] = Strip[op[r].login[2]]
    /\ pc[r] = "password" => Kept("GMAIL_ADDRESS", Strip[op[r].login[1]])
    /\ pc[r] \in {"verify", "login", "list", "logout"} \/ RecordsLink(r) => InFile(r)
    /\ (pc[r] = "logout" /\ outcome[r] = "found") \/ RecordsLink(r) => Confirmed(r) \in verified
    /\ pc[r] = "commit" => EmailOf(seen[r]) # "linked"
    /\ EmailOf(row) = "linked" =>
        /\ pc[r] \notin Recording
        /\ InFile(r) /\ Confirmed(r) \in verified /\ row.label = op[r].label

\* A step of request q.
Acts(q) == \/ Submit(q) \/ SubmitAcknowledgement(q) \/ SubmitLink(q) \/ SubmitSave(q)
            \/ Advance(q)

\* The steps of q that have nothing to do with the file.
Elsewhere(q) ==
    \/ Submit(q) \/ SubmitAcknowledgement(q) \/ CheckAcknowledgement(q)
    \/ VerifyLabel(q) \/ LogIn(q) \/ ListLabel(q) \/ LogOut(q) \/ SelectRow(q) \/ Commit(q)
    \/ ReadStepRow(q) \/ ReadStepFile(q) \/ ReadStateRow(q)
    \/ ReadGenerationRow(q) \/ ReadGenerationFile(q)
    \/ ReadEmbeddingsRow(q) \/ ReadEmbeddingsFile(q)

\* The steps of q as a save.
Saving(q) == \/ SubmitSave(q)
             \/ TruncateFile(q) /\ pc[q] = "truncate_key"
             \/ WriteFile(q) /\ pc[q] = "write_key"

\* Every step of a request leaves it somewhere, and only a request that was idle
\* comes to ask for something.
LEMMA Moves ==
    ASSUME Inv, NEW q \in Request, Acts(q)
    PROVE  /\ pc'[q] # "idle"
           /\ pc[q] # "idle" => op' = op
           /\ torn => torn'
           /\ \A r \in Request \ {q} :
                /\ pc'[r] = pc[r] /\ op'[r] = op[r] /\ body'[r] = body[r]
                /\ outcome'[r] = outcome[r] /\ seen'[r] = seen[r]
<1> USE DEF Goto, End, held, mail, disk, read, Acts
<1>1. /\ pc \in [Request -> Ended \cup Truncating \cup Landing \cup
              {"check", "password", "verify", "login", "list", "logout", "select", "commit",
               "step_row", "step_file", "state_row", "generation_row", "generation_file",
               "embeddings_row", "embeddings_file"}]
      /\ op \in [Request -> Op \cup {None}] /\ DOMAIN body = Request
      /\ DOMAIN outcome = Request /\ DOMAIN seen = Request
  BY DEF Inv, TypeOK
<1>2. CASE Submit(q)
  BY <1>1, <1>2 DEF Submit
<1>3. CASE SubmitAcknowledgement(q)
  BY <1>1, <1>3 DEF SubmitAcknowledgement
<1>4. CASE SubmitLink(q) \/ SubmitSave(q)
  BY <1>1, <1>4 DEF SubmitLink, SubmitSave, BeginWrite
<1>5. CASE CheckAcknowledgement(q) \/ ReadForPassword(q)
  BY <1>1, <1>5 DEF CheckAcknowledgement, ReadForPassword, BeginWrite
<1>6. CASE TruncateFile(q) \/ WriteFile(q)
  <2>1. UNCHANGED <<op, body, outcome, seen, torn>>
    BY <1>6 DEF TruncateFile, WriteFile
  <2>2. \E step \in {"write_address", "write_password", "write_key", "password", "verify", "done"} :
          pc' = [pc EXCEPT ![q] = step]
    BY <1>6 DEF TruncateFile, WriteFile, Truncating, Landing
  <2> QED BY <1>1, <2>1, <2>2
<1>7. CASE VerifyLabel(q) \/ LogIn(q) \/ ListLabel(q) \/ LogOut(q)
  BY <1>1, <1>7 DEF VerifyLabel, LogIn, ListLabel, LogOut, Conclude
<1>8. CASE SelectRow(q) \/ Commit(q)
  BY <1>1, <1>8 DEF SelectRow, Commit
<1>9. CASE ReadStepRow(q) \/ ReadStepFile(q) \/ ReadStateRow(q)
  BY <1>1, <1>9 DEF ReadStepRow, ReadStepFile, ReadStateRow
<1>10. CASE ReadGenerationRow(q) \/ ReadGenerationFile(q) \/ ReadEmbeddingsRow(q)
            \/ ReadEmbeddingsFile(q)
  BY <1>1, <1>10 DEF ReadGenerationRow, ReadGenerationFile, ReadEmbeddingsRow, ReadEmbeddingsFile
<1> QED BY <1>2, <1>3, <1>4, <1>5, <1>6, <1>7, <1>8, <1>9, <1>10 DEF Advance

(* ---------------------- the rewrites of the file ------------------------- *)

LEMMA ElsewhereMoves ==
    ASSUME Inv, NEW q \in Request, Elsewhere(q)
    PROVE  /\ UNCHANGED <<file, torn, body>>
           /\ pc[q] \notin Truncating \cup Landing /\ pc'[q] \notin Truncating \cup Landing
           /\ pc[q] \notin SavePhase /\ pc'[q] \notin SavePhase /\ pc'[q] # "password"
<1> USE DEF Elsewhere, Truncating, Landing, SavePhase, Goto, End, held, disk
<1>1. DOMAIN pc = Request
  BY DEF Inv, TypeOK
<1>2. CASE Submit(q)
  BY <1>1, <1>2 DEF Submit
<1>3. CASE SubmitAcknowledgement(q) \/ CheckAcknowledgement(q)
  BY <1>1, <1>3 DEF SubmitAcknowledgement, CheckAcknowledgement
<1>4. CASE VerifyLabel(q) \/ LogIn(q) \/ ListLabel(q) \/ LogOut(q)
  BY <1>1, <1>4 DEF VerifyLabel, LogIn, ListLabel, LogOut, Conclude
<1>5. CASE SelectRow(q) \/ Commit(q)
  BY <1>1, <1>5 DEF SelectRow, Commit
<1>6. CASE ReadStepRow(q) \/ ReadStepFile(q) \/ ReadStateRow(q)
  BY <1>1, <1>6 DEF ReadStepRow, ReadStepFile, ReadStateRow
<1>7. CASE ReadGenerationRow(q) \/ ReadGenerationFile(q) \/ ReadEmbeddingsRow(q)
           \/ ReadEmbeddingsFile(q)
  BY <1>1, <1>7 DEF ReadGenerationRow, ReadGenerationFile, ReadEmbeddingsRow, ReadEmbeddingsFile
<1> QED BY <1>2, <1>3, <1>4, <1>5, <1>6, <1>7

\* A rewrite that begins beside another one is what torn records.
LEMMA BeginMoves ==
    ASSUME Inv, NEW q \in Request, SubmitLink(q) \/ SubmitSave(q) \/ ReadForPassword(q)
    PROVE  /\ file' = file /\ pc[q] \in {"idle", "password"}
           /\ \/ pc'[q] = "done" /\ torn' = torn /\ body' = body
              \/ pc'[q] \in Truncating /\ (~ torn' => ~ torn /\ Rewriting = {})
<1>1. PICK name, value, next :
          /\ BeginWrite(q, name, value, next)
          /\ next \in {"truncate_address", "truncate_key", "truncate_password"}
  BY DEF SubmitLink, SubmitSave, ReadForPassword
<1>2. DOMAIN pc = Request
  BY DEF Inv, TypeOK
<1>3. /\ file' = file
      /\ \/ pc'[q] = "done" /\ torn' = torn /\ body' = body
         \/ pc'[q] = next /\ torn' = (torn \/ Rewriting # {})
  BY <1>1, <1>2 DEF BeginWrite, Goto, End
<1> QED BY <1>1, <1>3 DEF SubmitLink, SubmitSave, ReadForPassword, Truncating

LEMMA TornStep ==
    ASSUME Inv, TornInv, [Next]_vars PROVE TornInv'
<1> SUFFICES ASSUME ~ torn' PROVE TornInv'
  BY DEF TornInv
<1>1. ASSUME NEW q \in Request, Acts(q) PROVE TornInv'
  <2>1. /\ ~ torn /\ \A r \in Request \ {q} : pc'[r] = pc[r]
    BY <1>1, Moves
  <2>2. CASE Elsewhere(q)
    BY <2>1, <2>2, ElsewhereMoves DEF TornInv, Rewriting
  <2>3. CASE SubmitLink(q) \/ SubmitSave(q) \/ ReadForPassword(q)
    <3>1. CASE pc'[q] = "done" /\ torn' = torn
      BY <2>1, <2>3, <3>1, BeginMoves DEF TornInv, Rewriting, Truncating, Landing
    <3>2. CASE pc'[q] \in Truncating /\ Rewriting = {}
      BY <2>1, <3>2 DEF TornInv, Rewriting, Truncating, Landing
    <3> QED BY <2>3, <3>1, <3>2, BeginMoves
  <2>4. CASE TruncateFile(q)
    <3>1. file' = EmptyFile /\ q \in Rewriting
      BY <2>4 DEF TruncateFile, Truncate, Rewriting
    <3> QED BY <2>1, <3>1 DEF TornInv, Rewriting
  <2>5. CASE WriteFile(q)
    <3>1. q \in Rewriting /\ pc'[q] \notin Truncating \cup Landing
      BY <2>5 DEF WriteFile, Goto, End, Rewriting, Truncating, Landing, Inv, TypeOK
    <3> QED BY <2>1, <3>1 DEF TornInv, Rewriting
  <2> QED BY <1>1, <2>2, <2>3, <2>4, <2>5 DEF Acts, Advance, Elsewhere
<1>2. CASE Restart
  <2>1. \A q \in Request : pc'[q] \notin Truncating \cup Landing
    BY <1>2 DEF Restart, Running, Ended, Truncating, Landing
  <2> QED BY <2>1 DEF TornInv, Rewriting
<1>3. CASE Reconfigure \/ MintAgain \/ UNCHANGED vars
  BY <1>3 DEF Reconfigure, MintAgain, vars, disk, TornInv, Rewriting
<1> QED BY <1>1, <1>2, <1>3 DEF Next, Acts

\* What is kept stays kept while nobody writes the file.
LEMMA KeptElsewhere ==
    ASSUME Inv, NEW q \in Request, Elsewhere(q), NEW name, NEW v, Kept(name, v)
    PROVE  Kept(name, v)'
<1>1. \A r \in Request \ {q} : pc'[r] = pc[r]
  BY Moves DEF Elsewhere, Acts, Advance
<1> QED BY <1>1, ElsewhereMoves DEF Kept, SavePhase

\* A save puts the two names of the mailbox back as it parsed them.
LEMMA KeptBySave ==
    ASSUME Inv, TornInv, ~ torn', NEW q \in Request, Saving(q), NEW v,
           NEW name \in {"GMAIL_ADDRESS", "GMAIL_APP_PASSWORD"}, Kept(name, v)
    PROVE  Kept(name, v)'
<1>1. /\ ~ torn /\ \A r \in Request \ {q} : pc'[r] = pc[r] /\ body'[r] = body[r]
  BY Moves DEF Saving, Acts, Advance
<1>2. /\ name \in Name /\ file \in Content /\ body[q] \in Content /\ DOMAIN pc = Request
      /\ DOMAIN body = Request
  BY DEF Name, Inv, TypeOK
<1>3. CASE SubmitSave(q)
  <2>1. PICK c \in Capability, k \in Key : BeginWrite(q, ApiKeyOf(c), k, "truncate_key")
    BY <1>3 DEF SubmitSave
  <2>2. CASE pc'[q] = "done" /\ body' = body
    BY <1>1, <1>3, <2>2, BeginMoves DEF Kept, SavePhase
  <2>3. CASE pc'[q] \in Truncating
    <3>1. Rewriting = {} /\ file' = file
      BY <1>3, <2>3, BeginMoves DEF Truncating
    <3>2. body'[q] = Replaced(file, ApiKeyOf(c), k) /\ pc'[q] = "truncate_key"
      BY <1>2, <2>1, <2>3 DEF BeginWrite, Goto, End, Truncating
    <3>3. Replaced(file, ApiKeyOf(c), k)[name] = file[name]
      BY <1>2 DEF Replaced, ApiKeyOf, Content
    <3>4. file[name] = v
      BY <3>1 DEF Kept, Rewriting, Landing
    <3>5. \A r \in Request : pc[r] \notin SavePhase
      BY <3>1 DEF Rewriting, Landing, Truncating, SavePhase
    <3> QED BY <1>1, <3>1, <3>2, <3>3, <3>4, <3>5 DEF Kept
  <2> QED BY <1>3, <2>2, <2>3, BeginMoves
<1>4. CASE TruncateFile(q) /\ pc[q] = "truncate_key"
  <2>1. pc'[q] = "write_key" /\ body' = body
    BY <1>2, <1>4 DEF TruncateFile, Goto, held
  <2> QED BY <1>1, <1>4, <2>1 DEF Kept, SavePhase
<1>5. CASE WriteFile(q) /\ pc[q] = "write_key"
  <2>1. pc'[q] = "done" /\ body' = body /\ WriteOver(body[q])
    BY <1>2, <1>5 DEF WriteFile, End, held
  <2>2. file = EmptyFile
    BY <1>1, <1>5 DEF TornInv, Landing
  <2>3. file' = [n \in Name |-> body[q][n]]
    BY <2>1, <2>2 DEF WriteOver, EmptyFile
  <2>4. file'[name] = v
    BY <1>2, <1>5, <2>3 DEF Kept, SavePhase
  <2> QED BY <1>1, <2>1, <2>4 DEF Kept, SavePhase
<1> QED BY <1>3, <1>4, <1>5 DEF Saving

\* Only a link links the step: what another recorder commits over a stale row keeps the
\* label of the link that is there.
LEMMA OthersLinkNothing ==
    ASSUME Inv, NEW q \in Request, Commit(q), op[q].kind # "link", EmailOf(row)' = "linked"
    PROVE  EmailOf(row) = "linked" /\ row'.label = row.label
<1>1. /\ pc[q] = "commit" /\ op[q] \in Op /\ op[q].kind \in {"ack", "skip"}
      /\ seen[q] \in Row \cup {NoRow} /\ row \in Row \cup {NoRow}
      /\ seen[q] # NoRow => row # NoRow /\ RowSound(seen[q])
  BY DEF Commit, Inv, TypeOK, RequestInv, KindInv, SeenInv, Comparing
<1>2. CASE UNCHANGED row
  BY <1>2
<1>3. CASE ~ UNCHANGED row /\ seen[q] = NoRow
  <2>1. row' = Recorded(q, NewRow)
    BY <1>3 DEF Commit
  <2>2. row'.status # "linked"
    BY <1>1, <2>1 DEF Recorded, NewRow
  <2>3. row' # NoRow
    BY <1>1, <2>1, SetupStateAssumption, NoRowAssumption DEF Recorded, NewRow, Row, EmailStatus, Op
  <2> QED BY <2>2, <2>3 DEF EmailOf
<1>4. CASE ~ UNCHANGED row /\ seen[q] # NoRow
  <2>1. row' = Update(Recorded(q, seen[q]), seen[q], row)
    BY <1>4 DEF Commit
  <2>2. seen[q] \in Row /\ row \in Row /\ row # NoRow
    BY <1>1, <1>4
  <2>3. CASE op[q].kind = "ack"
    <3>1. /\ Recorded(q, seen[q]) \in Row
          /\ Recorded(q, seen[q]).status = seen[q].status
          /\ Recorded(q, seen[q]).label = seen[q].label
      BY <1>1, <2>2, <2>3 DEF Recorded, Row, Op
    <3>2. row' \in Row /\ row'.status = row.status /\ row'.label = row.label
      BY <2>1, <2>2, <3>1, UpdateIsRow
    <3> QED BY <2>2, <3>2 DEF EmailOf
  <2>4. CASE op[q].kind = "skip"
    <3>1. /\ Recorded(q, seen[q]) \in Row
          /\ Recorded(q, seen[q]).status = "skipped"
          /\ Recorded(q, seen[q]).label = None
      BY <1>1, <2>2, <2>4 DEF Recorded, Row, EmailStatus
    <3>2. /\ row' \in Row
          /\ row'.status = IF "skipped" # seen[q].status THEN "skipped" ELSE row.status
          /\ row'.label = IF None # seen[q].label THEN None ELSE row.label
      BY <2>1, <2>2, <3>1, UpdateIsRow
    <3>3. row' # NoRow /\ row'.status = "linked"
      BY <3>2, NoRowAssumption DEF EmailOf
    <3>4. seen[q].status = "skipped" /\ row.status = "linked"
      BY <3>2, <3>3
    <3>5. seen[q].label = None
      BY <1>1, <1>4, <3>4 DEF RowSound, RowAllowed
    <3> QED BY <2>2, <3>2, <3>4, <3>5 DEF EmailOf
  <2> QED BY <1>1, <2>3, <2>4
<1> QED BY <1>2, <1>3, <1>4

\* The other requests, none of which links, leave the only link what it has.
LEMMA OthersKeepLink ==
    ASSUME Inv, TornInv, NEW r \in Request, LinkInv(r), NEW q \in Request, q # r, Acts(q)
    PROVE  LinkInv(r)'
<1> SUFFICES ASSUME OnlyLink(r)', ~ torn' PROVE LinkInv(r)'
  BY DEF LinkInv
<1>1. /\ pc'[q] # "idle" /\ (pc[q] # "idle" => op' = op) /\ ~ torn
      /\ pc'[r] = pc[r] /\ op'[r] = op[r] /\ body'[r] = body[r]
      /\ outcome'[r] = outcome[r] /\ seen'[r] = seen[r]
      /\ \A other \in Request \ {q} : pc'[other] = pc[other] /\ op'[other] = op[other]
  BY Moves
<1>2. op'[q].kind # "link"
  BY <1>1 DEF OnlyLink
<1>3. OnlyLink(r)
  BY <1>1, <1>2 DEF OnlyLink
<1>4. pc[q] \notin Writing
  BY <1>1, <1>2 DEF Inv, RequestInv, KindInv, Writing
<1>5. Elsewhere(q) \/ Saving(q)
  <2>1. ~ SubmitLink(q)
    BY <1>2 DEF SubmitLink, Inv, TypeOK
  <2>2. ~ ReadForPassword(q)
    BY <1>4 DEF ReadForPassword, Writing
  <2>3. TruncateFile(q) => pc[q] = "truncate_key"
    BY <1>4 DEF TruncateFile, Truncating, Writing
  <2>4. WriteFile(q) => pc[q] = "write_key"
    BY <1>4 DEF WriteFile, Landing, Writing
  <2> QED BY <2>1, <2>2, <2>3, <2>4 DEF Acts, Advance, Elsewhere, Saving
<1>6. \A name \in {"GMAIL_ADDRESS", "GMAIL_APP_PASSWORD"} : \A v : Kept(name, v) => Kept(name, v)'
  BY <1>5, KeptElsewhere, KeptBySave
<1>7. /\ verified' = verified
      /\ EmailOf(row)' = "linked" => EmailOf(row) = "linked" /\ row'.label = row.label
  <2>1. CASE Saving(q)
    BY <2>1 DEF Saving, SubmitSave, TruncateFile, WriteFile, history, EmailOf
  <2>2. CASE Submit(q) \/ SubmitAcknowledgement(q) \/ CheckAcknowledgement(q)
    BY <2>2 DEF Submit, SubmitAcknowledgement, CheckAcknowledgement, history, EmailOf
  <2>3. CASE VerifyLabel(q) \/ LogIn(q) \/ ListLabel(q) \/ LogOut(q)
    BY <1>4, <2>3 DEF VerifyLabel, LogIn, ListLabel, LogOut, Writing
  <2>4. CASE SelectRow(q) \/ ReadStepRow(q) \/ ReadStepFile(q) \/ ReadStateRow(q)
             \/ ReadGenerationRow(q) \/ ReadGenerationFile(q) \/ ReadEmbeddingsRow(q)
             \/ ReadEmbeddingsFile(q)
    BY <2>4 DEF SelectRow, ReadStepRow, ReadStepFile, ReadStateRow, ReadGenerationRow,
       ReadGenerationFile, ReadEmbeddingsRow, ReadEmbeddingsFile, history, EmailOf
  <2>5. CASE Commit(q)
    <3>1. op[q].kind # "link"
      BY <1>2, <2>5 DEF Commit, held
    <3> QED BY <2>5, <3>1, OthersLinkNothing DEF Commit
  <2> QED BY <1>5, <2>1, <2>2, <2>3, <2>4, <2>5 DEF Elsewhere
<1> DEFINE address == Strip[op[r].login[1]]
           password == Strip[op[r].login[2]]
<1>8. /\ Kept("GMAIL_ADDRESS", address) => Kept("GMAIL_ADDRESS", address)'
      /\ InFile(r) => InFile(r)'
  <2>1. op'[r] = op[r]
    BY <1>1
  <2> QED BY <1>6, <2>1 DEF InFile, Kept
<1> QED BY <1>1, <1>3, <1>7, <1>8 DEF LinkInv, Confirmed, RecordsLink, Kept

\* The only link finds the two names as it wrote them.
LEMMA WritesItsLogin ==
    ASSUME Inv, TornInv, NEW r \in Request, LinkInv(r), OnlyLink(r), ~ torn', pc[r] \notin SavePhase,
           SubmitLink(r) \/ ReadForPassword(r) \/ TruncateFile(r) \/ WriteFile(r)
    PROVE  LinkInv(r)'
<1> USE DEF Goto, End, held, mail, read, history
<1>1. /\ {"GMAIL_ADDRESS", "GMAIL_APP_PASSWORD"} \subseteq Name /\ file \in Content
      /\ body[r] \in Content /\ DOMAIN pc = Request /\ DOMAIN body = Request
  BY DEF Name, Inv, TypeOK
<1>2. ASSUME UNCHANGED row, pc'[r] \in {"truncate_address", "write_address", "password",
                                        "truncate_password", "write_password", "verify", "done"}
      PROVE  /\ ~ RecordsLink(r)' /\ pc'[r] \notin {"logout", "commit"}
             /\ pc[r] \in Recording => EmailOf(row)' # "linked"
  <2>1. ~ torn
    BY Moves DEF Acts, Advance
  <2> QED BY <1>2, <2>1 DEF RecordsLink, LinkInv, EmailOf
<1>3. /\ pc[r] \in Recording /\ row' = row /\ ~ torn
      /\ \A q \in Request \ {r} : pc'[q] = pc[q] /\ body'[q] = body[q]
  <2>1. ~ torn /\ \A q \in Request \ {r} : pc'[q] = pc[q] /\ body'[q] = body[q]
    BY Moves DEF Acts, Advance
  <2> QED BY <2>1 DEF Recording, Writing, SavePhase, SubmitLink, ReadForPassword, TruncateFile,
             WriteFile, Truncating, Landing
<1>4. CASE SubmitLink(r)
  <2>1. PICK l \in Login, b \in Label :
          /\ op' = [op EXCEPT ![r] = [kind |-> "link", login |-> l, label |-> b]]
          /\ BeginWrite(r, "GMAIL_ADDRESS", l[1], "truncate_address")
    BY <1>4 DEF SubmitLink
  <2>2. /\ op'[r].login = l
        /\ \/ pc'[r] = "done"
           \/ /\ pc'[r] = "truncate_address"
              /\ body'[r] = Replaced(file, "GMAIL_ADDRESS", l[1])
    BY <2>1 DEF BeginWrite, Inv, TypeOK
  <2>3. Replaced(file, "GMAIL_ADDRESS", l[1])["GMAIL_ADDRESS"] = Strip[l[1]]
    BY <1>1 DEF Replaced, Content
  <2> QED BY <1>2, <1>3, <2>2, <2>3 DEF LinkInv
<1>5. CASE ReadForPassword(r)
  <2>1. /\ op' = op /\ pc[r] = "password"
        /\ \/ pc'[r] = "done"
           \/ /\ pc'[r] = "truncate_password"
              /\ body'[r] = Replaced(file, "GMAIL_APP_PASSWORD", op[r].login[2])
    BY <1>1, <1>5 DEF ReadForPassword, BeginWrite
  <2>2. LET b == Replaced(file, "GMAIL_APP_PASSWORD", op[r].login[2])
        IN  /\ b["GMAIL_APP_PASSWORD"] = Strip[op[r].login[2]]
            /\ b["GMAIL_ADDRESS"] = file["GMAIL_ADDRESS"]
    BY <1>1 DEF Replaced, Content
  <2>3. CASE pc'[r] = "done"
    BY <1>2, <1>3, <2>3 DEF LinkInv
  <2>4. CASE pc'[r] = "truncate_password"
    <3>1. Rewriting = {}
      BY <1>5, <2>4, BeginMoves
    <3>2. \A q \in Request : pc[q] # "write_key"
      BY <3>1 DEF Rewriting, Landing
    <3>3. file["GMAIL_ADDRESS"] = Strip[op[r].login[1]]
      BY <1>3, <2>1, <3>2 DEF LinkInv, Kept
    <3> QED BY <1>2, <1>3, <2>1, <2>2, <2>4, <3>3 DEF LinkInv
  <2> QED BY <2>1, <2>3, <2>4
<1>6. CASE TruncateFile(r)
  <2>1. /\ op' = op /\ body' = body
        /\ \/ pc[r] = "truncate_address" /\ pc'[r] = "write_address"
           \/ pc[r] = "truncate_password" /\ pc'[r] = "write_password"
    BY <1>1, <1>6 DEF TruncateFile, Truncating, SavePhase
  <2> QED BY <1>2, <1>3, <2>1 DEF LinkInv
<1>7. CASE WriteFile(r)
  <2>1. /\ op' = op /\ body' = body /\ WriteOver(body[r])
        /\ \/ pc[r] = "write_address" /\ pc'[r] = "password"
           \/ pc[r] = "write_password" /\ pc'[r] = "verify"
    BY <1>1, <1>7 DEF WriteFile, Landing, SavePhase
  <2>2. file = EmptyFile
    BY <1>3, <1>7 DEF TornInv, WriteFile
  <2>3. file' = [n \in Name |-> body[r][n]]
    BY <2>1, <2>2 DEF WriteOver, EmptyFile
  <2>4. /\ file'["GMAIL_ADDRESS"] = body[r]["GMAIL_ADDRESS"]
        /\ file'["GMAIL_APP_PASSWORD"] = body[r]["GMAIL_APP_PASSWORD"]
    BY <1>1, <2>3
  <2>5. \A q \in Request : pc'[q] \notin SavePhase
    <3>1. r \in Rewriting
      BY <1>7 DEF WriteFile, Rewriting
    <3>2. \A q \in Request \ {r} : pc[q] \notin SavePhase
      BY <1>3, <3>1 DEF TornInv, Rewriting, SavePhase, Truncating, Landing
    <3> QED BY <1>3, <2>1, <3>2 DEF SavePhase
  <2>6. /\ Kept("GMAIL_ADDRESS", body[r]["GMAIL_ADDRESS"])'
        /\ Kept("GMAIL_APP_PASSWORD", body[r]["GMAIL_APP_PASSWORD"])'
    BY <2>1, <2>4, <2>5 DEF Kept
  <2>7. CASE pc[r] = "write_address" /\ pc'[r] = "password"
    <3>1. body[r]["GMAIL_ADDRESS"] = Strip[op[r].login[1]]
      BY <1>3, <2>7 DEF LinkInv
    <3>2. Kept("GMAIL_ADDRESS", Strip[op[r].login[1]])'
      BY <2>1, <2>6, <3>1 DEF Kept
    <3> QED BY <1>2, <1>3, <2>7, <3>2 DEF LinkInv, Recording, Writing
  <2>8. CASE pc[r] = "write_password" /\ pc'[r] = "verify"
    <3>1. /\ body[r]["GMAIL_ADDRESS"] = Strip[op[r].login[1]]
          /\ body[r]["GMAIL_APP_PASSWORD"] = Strip[op[r].login[2]]
      BY <1>3, <2>8 DEF LinkInv
    <3>2. InFile(r)'
      BY <2>1, <2>6, <3>1 DEF InFile, Kept
    <3> QED BY <1>2, <1>3, <2>8, <3>2 DEF LinkInv, Recording, Writing
  <2> QED BY <2>1, <2>7, <2>8
<1> QED BY <1>4, <1>5, <1>6, <1>7

\* A request that only saves is no link, and keeps what one stored.
LEMMA SavesItsKey ==
    ASSUME Inv, TornInv, NEW r \in Request, LinkInv(r), OnlyLink(r), ~ torn', Saving(r)
    PROVE  LinkInv(r)'
<1>1. /\ ~ torn /\ row' = row /\ verified' = verified
      /\ pc'[r] \in {"truncate_key", "write_key", "done"}
      /\ pc[r] \in Recording \/ op' = op
  <2>1. CASE SubmitSave(r)
    <3>1. pc'[r] \in {"truncate_key", "done"}
      BY <2>1 DEF SubmitSave, BeginWrite, Goto, End, Inv, TypeOK
    <3> QED BY <2>1, <3>1, Moves DEF SubmitSave, history, Recording, Acts
  <2>2. CASE TruncateFile(r) /\ pc[r] = "truncate_key"
    BY <2>2 DEF TruncateFile, Goto, held, history, Inv, TypeOK
  <2>3. CASE WriteFile(r) /\ pc[r] = "write_key"
    BY <2>3 DEF WriteFile, End, held, history, Inv, TypeOK
  <2> QED BY <2>1, <2>2, <2>3 DEF Saving
<1>2. ~ RecordsLink(r)' /\ pc'[r] \notin Recording
  BY <1>1 DEF RecordsLink, Recording, Writing
<1>3. CASE EmailOf(row) = "linked"
  <2>1. op' = op /\ InFile(r) /\ Confirmed(r) \in verified /\ row.label = op[r].label
    BY <1>1, <1>3 DEF LinkInv
  <2>2. \A name \in {"GMAIL_ADDRESS", "GMAIL_APP_PASSWORD"} : \A v : Kept(name, v) => Kept(name, v)'
    BY KeptBySave
  <2>3. InFile(r)'
    BY <2>1, <2>2 DEF InFile, Kept
  <2> QED BY <1>1, <1>2, <2>1, <2>3 DEF LinkInv, Confirmed
<1>4. CASE EmailOf(row) # "linked"
  BY <1>1, <1>2, <1>4 DEF LinkInv, EmailOf
<1> QED BY <1>3, <1>4

\* It goes on to record the link only on the word of the mailbox.
LEMMA RecordsWhatWasConfirmed ==
    ASSUME Inv, NEW r \in Request, LinkInv(r), OnlyLink(r),
           ~ torn, VerifyLabel(r) \/ LogIn(r) \/ ListLabel(r) \/ LogOut(r) \/ SelectRow(r)
    PROVE  LinkInv(r)'
<1> USE DEF Goto, End, held, mail, read, history, Conclude
<1>1. /\ op' = op /\ row' = row /\ verified \subseteq verified'
      /\ pc[r] \in Recording
  BY DEF VerifyLabel, LogIn, ListLabel, LogOut, SelectRow, Recording, Writing
<1>0. InFile(r) => InFile(r)'
  <2>1. \A name, v : Kept(name, v) => Kept(name, v)'
    BY KeptElsewhere DEF Elsewhere
  <2> QED BY <1>1, <2>1 DEF InFile, Kept
<1>2. EmailOf(row) # "linked" /\ EmailOf(row)' # "linked"
  BY <1>1 DEF LinkInv, EmailOf
<1>3. ASSUME pc[r] \in {"verify", "login", "list", "logout"}
      PROVE  InFile(r) /\ InFile(r)' /\ op[r].kind = "link"
  BY <1>0, <1>1, <1>3 DEF LinkInv, Inv, RequestInv, KindInv, Writing
<1>4. CASE VerifyLabel(r)
  <2>1. pc[r] = "verify" /\ pc'[r] \in {"login", "done"}
    BY <1>4 DEF VerifyLabel, Inv, TypeOK
  <2> QED BY <1>2, <1>3, <2>1 DEF LinkInv, RecordsLink
<1>5. CASE LogIn(r)
  <2>1. /\ pc[r] = "login"
        /\ pc'[r] = "list" \/ (pc'[r] = "logout" /\ outcome'[r] # "found")
    BY <1>5 DEF LogIn, Inv, TypeOK
  <2> QED BY <1>2, <1>3, <2>1 DEF LinkInv, RecordsLink
<1>6. CASE ListLabel(r)
  <2>1. /\ pc[r] = "list" /\ pc'[r] = "logout"
        /\ outcome'[r] = "found" => Confirmed(r) \in verified'
    BY <1>6 DEF ListLabel, Inv, TypeOK, Confirmed
  <2>2. Confirmed(r)' = Confirmed(r)
    BY <1>1 DEF Confirmed
  <2> QED BY <1>2, <1>3, <2>1, <2>2 DEF LinkInv, RecordsLink
<1>7. CASE LogOut(r)
  <2>1. /\ pc[r] = "logout" /\ outcome' = outcome /\ verified' = verified
        /\ pc'[r] = "done" \/ (pc'[r] = "select" /\ outcome[r] = "found")
    BY <1>7 DEF LogOut, Inv, TypeOK
  <2> QED BY <1>1, <1>2, <1>3, <2>1 DEF LinkInv, RecordsLink, Confirmed
<1>8. CASE SelectRow(r)
  <2>1. /\ pc[r] = "select" /\ pc'[r] = "commit" /\ seen'[r] = row /\ verified' = verified
    BY <1>8 DEF SelectRow, Inv, TypeOK
  <2> QED BY <1>0, <1>1, <1>2, <2>1 DEF LinkInv, RecordsLink, Confirmed, EmailOf
<1> QED BY <1>4, <1>5, <1>6, <1>7, <1>8

\* The commit of the only link records its own label.
LEMMA CommitLinks ==
    ASSUME Inv, NEW r \in Request, LinkInv(r), OnlyLink(r), ~ torn, Commit(r) PROVE LinkInv(r)'
<1>0. UNCHANGED <<op, file, body, verified>>
  BY DEF Commit, held, disk
<1>1. /\ pc[r] = "commit" /\ op[r] \in Op /\ op' = op /\ verified' = verified
      /\ pc'[r] \in {"state_row", "step_row", "done"}
      /\ seen[r] \in Row \cup {NoRow} /\ row \in Row \cup {NoRow}
      /\ seen[r] # NoRow => row # NoRow /\ RowSound(seen[r])
      /\ EmailOf(seen[r]) # "linked" /\ EmailOf(row) # "linked"
  BY DEF Commit, Goto, End, held, Inv, TypeOK, RequestInv, KindInv, SeenInv, Comparing, LinkInv, Recording
<1>2. SUFFICES ASSUME EmailOf(row)' = "linked"
               PROVE  InFile(r)' /\ Confirmed(r)' \in verified' /\ row'.label = op'[r].label
  BY <1>1 DEF LinkInv, RecordsLink, Recording, Writing
<1>3. op[r].kind = "link" /\ ~ UNCHANGED row
  BY <1>1, <1>2, OthersLinkNothing DEF EmailOf
<1>4. InFile(r)' /\ Confirmed(r)' \in verified'
  <2>1. InFile(r) /\ Confirmed(r) \in verified
    BY <1>1, <1>3 DEF LinkInv, RecordsLink
  <2>2. PICK a, p : a = Strip[op[r].login[1]] /\ p = Strip[op[r].login[2]]
    OBVIOUS
  <2>3. Kept("GMAIL_ADDRESS", a)' /\ Kept("GMAIL_APP_PASSWORD", p)'
    <3>1. Kept("GMAIL_ADDRESS", a) /\ Kept("GMAIL_APP_PASSWORD", p)
      BY <2>1, <2>2 DEF InFile, Kept
    <3> QED BY <3>1, KeptElsewhere DEF Elsewhere
  <2>4. InFile(r)'
    BY <1>0, <2>2, <2>3 DEF InFile, Kept
  <2> QED BY <1>0, <1>1, <2>1, <2>4 DEF Confirmed
<1>5. row'.label = op[r].label
  <2>1. CASE seen[r] = NoRow
    <3>1. row' = [NewRow EXCEPT !.status = "linked", !.label = op[r].label, !.linked_at = r]
      BY <1>3, <2>1 DEF Commit, Recorded
    <3> QED BY <3>1 DEF NewRow
  <2>2. CASE seen[r] # NoRow
    <3>1. /\ row' = Update(Recorded(r, seen[r]), seen[r], row)
          /\ seen[r] \in Row /\ row \in Row /\ op[r].label \in Label
      BY <1>1, <1>3, <2>2 DEF Commit, Op
    <3>2. /\ Recorded(r, seen[r]) \in Row /\ Recorded(r, seen[r]).label = op[r].label
      BY <1>3, <3>1 DEF Recorded, Row, EmailStatus
    <3>3. seen[r].label = None
      BY <1>1, <2>2, <3>1 DEF RowSound, RowAllowed, EmailOf, Row, EmailStatus
    <3>4. op[r].label # None
      BY <3>1, SetupStateAssumption
    <3> QED BY <3>1, <3>2, <3>3, <3>4, UpdateIsRow
  <2> QED BY <2>1, <2>2
<1> QED BY <1>1, <1>4, <1>5

\* What is submitted besides a link, and every read, changes nothing of it.
LEMMA ReadsKeepLink ==
    ASSUME Inv, NEW r \in Request, LinkInv(r), OnlyLink(r), ~ torn,
           Submit(r) \/ SubmitAcknowledgement(r) \/ CheckAcknowledgement(r) \/ ReadStepRow(r)
           \/ ReadStepFile(r) \/ ReadStateRow(r) \/ ReadGenerationRow(r) \/ ReadGenerationFile(r)
           \/ ReadEmbeddingsRow(r) \/ ReadEmbeddingsFile(r)
    PROVE  LinkInv(r)'
<1> USE DEF Goto, End, held, mail, read, history
<1>0. InFile(r) /\ op' = op => InFile(r)'
  <2>1. \A name, v : Kept(name, v) => Kept(name, v)'
    BY KeptElsewhere DEF Elsewhere
  <2> QED BY <2>1 DEF InFile, Kept
<1>1. row' = row /\ verified' = verified
  BY DEF Submit, SubmitAcknowledgement, CheckAcknowledgement, ReadStepRow, ReadStepFile,
     ReadStateRow, ReadGenerationRow, ReadGenerationFile, ReadEmbeddingsRow, ReadEmbeddingsFile
<1>2. /\ pc'[r] \in {"check", "select", "state_row", "step_row", "step_file", "generation_row",
                     "generation_file", "embeddings_row", "embeddings_file", "done"}
      /\ pc'[r] = "select" => op'[r].kind # "link"
      /\ pc[r] \in Recording \/ (op' = op /\ pc'[r] \notin Recording)
  <2>1. CASE Submit(r)
    <3>1. PICK o \in [kind : {"skip", "state", "step"}] :
            /\ op' = [op EXCEPT ![r] = o]
            /\ pc' = [pc EXCEPT ![r] = CASE o.kind = "skip" -> "select"
                                         [] o.kind = "state" -> "state_row"
                                         [] o.kind = "step" -> "step_row"]
      BY <2>1 DEF Submit
    <3>2. op'[r] = o /\ pc'[r] \in {"select", "state_row", "step_row"} /\ pc[r] = "idle"
      BY <2>1, <3>1 DEF Submit, Inv, TypeOK
    <3> QED BY <3>2 DEF Recording
  <2>2. CASE SubmitAcknowledgement(r)
    BY <2>2 DEF SubmitAcknowledgement, Inv, TypeOK, Recording
  <2>3. CASE CheckAcknowledgement(r)
    BY <2>3 DEF CheckAcknowledgement, Inv, TypeOK, Recording, RequestInv, KindInv
  <2>4. CASE ReadStepRow(r) \/ ReadStepFile(r) \/ ReadStateRow(r) \/ ReadGenerationRow(r)
             \/ ReadGenerationFile(r) \/ ReadEmbeddingsRow(r) \/ ReadEmbeddingsFile(r)
    BY <2>4 DEF ReadStepRow, ReadStepFile, ReadStateRow, ReadGenerationRow, ReadGenerationFile,
       ReadEmbeddingsRow, ReadEmbeddingsFile, Inv, TypeOK, Recording, Writing
  <2> QED BY <2>1, <2>2, <2>3, <2>4
<1>3. EmailOf(row)' = "linked" => /\ pc'[r] \notin Recording
                                  /\ InFile(r)' /\ Confirmed(r)' \in verified'
                                  /\ row'.label = op'[r].label
  BY <1>0, <1>1, <1>2 DEF LinkInv, Confirmed, EmailOf
<1> QED BY <1>2, <1>3 DEF LinkInv, RecordsLink

LEMMA LinkStep ==
    ASSUME Inv, TornInv, NEW r \in Request, LinkInv(r), [Next]_vars PROVE LinkInv(r)'
<1> SUFFICES ASSUME OnlyLink(r)', ~ torn' PROVE LinkInv(r)'
  BY DEF LinkInv
<1>1. ASSUME NEW q \in Request, q # r, Acts(q) PROVE LinkInv(r)'
  BY <1>1, OthersKeepLink
<1>2. CASE Acts(r)
  <2>1. ~ torn
    BY <1>2, Moves
  <2>2. OnlyLink(r)
    BY <1>2, Moves DEF OnlyLink
  <2>3. CASE Saving(r)
    BY <2>2, <2>3, SavesItsKey
  <2>4. CASE /\ ~ Saving(r)
             /\ SubmitLink(r) \/ ReadForPassword(r) \/ TruncateFile(r) \/ WriteFile(r)
    <3>1. pc[r] \notin SavePhase
      BY <2>4 DEF Saving, SubmitLink, ReadForPassword, TruncateFile, WriteFile, Truncating, Landing,
         SavePhase
    <3> QED BY <2>2, <2>4, <3>1, WritesItsLogin
  <2>5. CASE VerifyLabel(r) \/ LogIn(r) \/ ListLabel(r) \/ LogOut(r) \/ SelectRow(r)
    BY <2>1, <2>2, <2>5, RecordsWhatWasConfirmed
  <2>6. CASE Commit(r)
    BY <2>1, <2>2, <2>6, CommitLinks
  <2>7. CASE \/ Submit(r) \/ SubmitAcknowledgement(r) \/ CheckAcknowledgement(r) \/ ReadStepRow(r)
             \/ ReadStepFile(r) \/ ReadStateRow(r) \/ ReadGenerationRow(r)
             \/ ReadGenerationFile(r) \/ ReadEmbeddingsRow(r) \/ ReadEmbeddingsFile(r)
    BY <2>1, <2>2, <2>7, ReadsKeepLink
  <2> QED BY <1>2, <2>3, <2>4, <2>5, <2>6, <2>7 DEF Acts, Advance, Saving
<1>3. CASE Reconfigure \/ MintAgain \/ UNCHANGED vars
  BY <1>3 DEF Reconfigure, MintAgain, vars, held, mail, disk, read, history, LinkInv, OnlyLink,
     InFile, Kept, Confirmed, RecordsLink, EmailOf
<1>4. CASE Restart
  <2>1. /\ \A q \in Request : pc'[q] = "idle" <=> pc[q] = "idle"
        /\ \A q \in Request : pc'[q] \notin SavePhase
        /\ pc'[r] \in Ended /\ (pc'[r] \in Recording => pc[r] \in Recording)
        /\ UNCHANGED <<op, file, row, verified>>
    BY <1>4 DEF Restart, Running, Ended, SavePhase, Recording, Writing, history, Inv, TypeOK
  <2>2. ~ torn /\ \A q \in Request : pc[q] # "write_key"
    BY <1>4 DEF Restart, Landing, Inv, TypeOK
  <2>3. InFile(r) => InFile(r)'
    BY <2>1, <2>2 DEF InFile, Kept, SavePhase
  <2> QED BY <2>1, <2>2, <2>3 DEF LinkInv, OnlyLink, Confirmed, RecordsLink, EmailOf, Ended
<1> QED BY <1>1, <1>2, <1>3, <1>4 DEF Next, Acts

\* If one link at most was asked for, the mailbox of a linked step was verified with the
\* address, the password and the label that are stored ("Verify the designated label
\* exists, and only then call it linked", email_link_service.py), whatever ran beside it,
\* the saves that rewrite the same file included; except while a rewrite is under way,
\* and once rewrites overlapped or one was cut short by a crash.  The run setup_relink
\* shows what a second link does.
THEOREM LinkedOnceIsVerifiedHolds == Spec => []LinkedOnceIsVerified
<1> DEFINE Links == \A r \in Request : LinkInv(r)
<1>1. Init => Links /\ TornInv
  <2> SUFFICES ASSUME Init PROVE Links /\ TornInv
    OBVIOUS
  <2>1. EmailOf(row) # "linked"
    BY InitialRow
  <2> QED BY <2>1 DEF Init, LinkInv, RecordsLink, TornInv, Rewriting, Truncating, Landing
<1>2. Inv /\ TornInv /\ Links /\ [Next]_vars => Links' /\ TornInv'
  BY LinkStep, TornStep
<1>3. Links => LinkedOnceIsVerified
  <2> SUFFICES ASSUME Links, NEW r \in Request, OnlyLink(r), EmailOf(row) = "linked", ~ torn,
                      Rewriting = {}
               PROVE  VerifiedAsStored
    BY DEF LinkedOnceIsVerified
  <2>1. InFile(r) /\ Confirmed(r) \in verified /\ row.label = op[r].label
    BY DEF LinkInv
  <2>2. /\ file["GMAIL_ADDRESS"] = Strip[op[r].login[1]]
        /\ file["GMAIL_APP_PASSWORD"] = Strip[op[r].login[2]]
    BY <2>1 DEF InFile, Kept, Rewriting, Landing
  <2> QED BY <2>1, <2>2 DEF VerifiedAsStored, Confirmed
<1> QED BY <1>1, <1>2, <1>3, Invariance, PTL DEF Spec
===============================================================================
