------------------------------- MODULE SetupState -------------------------------
(***************************************************************************)
(* The setup_state row of an installation and the services that read and   *)
(* write it: services/setup_service.py (acknowledging the disclosure, the  *)
(* state of the wizard) and services/email_link_service.py (linking and    *)
(* skipping the mailbox), with the credentials file and the IMAP adapter   *)
(* they call.                                                              *)
(*                                                                         *)
(* As in Preflight, a request is a thread of its own that is submitted     *)
(* once; a step is what other threads see as one.  What a preflight says   *)
(* belongs to Preflight: here a save of the providers step is the rewrite  *)
(* it makes of the file, which is the mailbox's too, and the credential a  *)
(* stored preflight vouches for changes at will.                           *)
(***************************************************************************)
EXTENDS SetupRules, CredentialFile

CONSTANTS
    Request,     \* requests, each submitted at most once
    Version,     \* the versions of the disclosure text
    Label,       \* labels a candidate may designate
    Wildcard,    \* those of them with a wildcard in them, or blank
    Login,       \* bound: the pairs of address and password a candidate types
    NonAscii,    \* keys and labels imaplib cannot encode
    Vouchable,   \* bound: the credentials a stored preflight may vouch for
    Environment, \* what the environment has under each name, NoKey for nothing
    NoRow, None

Failure == {"disclosure_ack_required", "already_acknowledged", "value_error",
            "integrity_error", "internal_error", "email_unreachable",
            "app_password_rejected", "label_not_found"}

\* A request that did not fail answers with the view of the email step, or with
\* the pending step of the wizard; the rewrite of a save ends with the key in its place.
Answer == Failure \cup Step \cup {"view", "null", "key_written"}

ASSUME SetupStateAssumption ==
    /\ Version # {}
    /\ Wildcard \subseteq Label
    /\ Login \subseteq Key \X Key
    /\ NonAscii \subseteq Key \cup Label
    /\ Vouchable \subseteq Key \cup {NoKey} /\ NoKey \in Vouchable
    /\ Environment \in [Name -> Key \cup {NoKey}]
    /\ None \notin Request \cup Version \cup Label \cup Answer \cup {"earlier"}

VARIABLES
    row,        \* setup_state: the one row of the candidate, or NoRow
    current,    \* the version of the text this build ships
    vouched,    \* per capability: the credential its stored preflight vouches for
    pc,         \* per request: its next step
    op,         \* per request: what was submitted, None before
    body,       \* per writer of the file: the content it will write back
    connection, \* per link: "lost" once it broke and nothing closes it any more
    outcome,    \* per link: what the exchange came to, None before that
    seen,       \* per request: the row of setup_state its last SELECT returned
    recalled,   \* per request: the credential vouched for by the preflight it read
    found,      \* per request: what it knows of credentials and capabilities
    answer,     \* per request: the outcome, None until it ends
    torn,       \* history: rewrites of the file overlapped, or one was cut short
    verified,   \* history: the mailboxes and labels that were verified
    refused,    \* history: the server said no to the login of this request
    raced,      \* history: another commit on the row since this request read it
    superseded, \* history: another preflight of generation since this request read it
    truth       \* history: the first run was complete when generation was read

disk    == <<file, torn>>
mail    == <<connection, outcome, refused>>
held    == <<op, body, mail>>
read    == <<seen, recalled, found>>
history == <<verified, raced, superseded, truth>>
vars    == <<disk, row, current, vouched, pc, held, read, answer, history>>

(* --------------------------------- types --------------------------------- *)

Op == [kind : {"ack"}, version : Version]
      \cup [kind : {"link"}, login : Login, label : Label]
      \cup [kind : {"save"}, capability : Capability, key : Key]
      \cup [kind : {"skip", "state", "step"}]

\* A date is named by the request whose clock it was read from, or is of a visit
\* before all of these.
Row == [version : Version \cup {None}, acked_at : Request \cup {"earlier", None},
        status : EmailStatus, label : Label \cup {None}, linked_at : Request \cup {None}]

ASSUME NoRowAssumption == NoRow \notin Row

\* The CHECK constraints of setup_state.
RowAllowed(r) ==
    /\ r.acked_at = None <=> r.version = None
    /\ r.status = "linked" => r.label # None /\ r.linked_at # None
    /\ r.status = "skipped" => r.label = None /\ r.linked_at = None

(* ------------------------------ the helpers ------------------------------ *)

\* Slip: the email step has no default.
SlipNewRow == [version |-> None, acked_at |-> None, status |-> None,
               label |-> None, linked_at |-> None]

\* ensure() inserts the defaults and what is set next goes with them.
NewRow == [version |-> None, acked_at |-> None, status |-> "pending",
           label |-> None, linked_at |-> None]

\* A column reaches the UPDATE only if its value differs from the loaded one.
Update(new, loaded, now) ==
    [column \in DOMAIN now |->
        IF new[column] # loaded[column] THEN new[column] ELSE now[column]]

\* Slip: a skip only sets the status.
SlipRecorded(r, loaded) ==
    CASE op[r].kind = "ack" ->
            [loaded EXCEPT !.version = op[r].version, !.acked_at = r]
      [] op[r].kind = "link" ->
            [loaded EXCEPT !.status = "linked", !.label = op[r].label, !.linked_at = r]
      [] op[r].kind = "skip" ->
            [loaded EXCEPT !.status = "skipped"]

\* What record_disclosure_acknowledgement, record_email_linked and
\* record_email_skipped make of the row they loaded.
Recorded(r, loaded) ==
    CASE op[r].kind = "ack" ->
            [loaded EXCEPT !.version = op[r].version, !.acked_at = r]
      [] op[r].kind = "link" ->
            [loaded EXCEPT !.status = "linked", !.label = op[r].label, !.linked_at = r]
      [] op[r].kind = "skip" ->
            [loaded EXCEPT !.status = "skipped", !.label = None, !.linked_at = None]

Acknowledged(w) == IF w = NoRow THEN None ELSE w.version
EmailOf(w) == IF w = NoRow THEN "pending" ELSE w.status
LabelOf(w) == IF w = NoRow THEN None ELSE w.label

\* The facts the two derivations are given: those of row w, and the capabilities
\* in u as usable.
FactsOf(w, u) ==
    LET of(c) == IF c \in u THEN {[result |-> "verified", credential_matches |-> TRUE,
                                   degradation_acknowledged |-> FALSE]}
                 ELSE {}
    IN  [current |-> current,
         acknowledged |-> IF Acknowledged(w) = None THEN {} ELSE {Acknowledged(w)},
         generation |-> of("generation"), embeddings |-> of("embeddings"),
         email |-> EmailOf(w)]

\* pending_step as the response carries it.
Shown(facts) == IF PendingStep(facts) = {} THEN "null"
                ELSE CHOOSE step \in PendingStep(facts) : TRUE

\* The credential in force: the file shadows the environment.
InForce(c) == IF file[ApiKeyOf(c)] # NoKey THEN file[ApiKeyOf(c)]
              ELSE Environment[ApiKeyOf(c)]

\* The capabilities that are usable at this instant.
UsableNow == {c \in Capability : vouched[c] # NoKey /\ InForce(c) = vouched[c]}

\* Slip: the stored result is repeated, whatever credential is in force by now.
SlipMatches(r, c) == recalled[r] # NoKey

\* _credential_still_matches: the credential in force is the one that was probed.
Matches(r, c) == recalled[r] # NoKey /\ InForce(c) = recalled[r]

Ended == {"idle", "done", "dead"}

Running(r) == pc[r] \notin Ended

Truncating == {"truncate_address", "truncate_password", "truncate_key"}

Landing == {"write_address", "write_password", "write_key"}

\* The requests that have parsed the file and not yet written it back.
Rewriting == {r \in Request : pc[r] \in Truncating \cup Landing}

Goto(r, step) == pc' = [pc EXCEPT ![r] = step]

End(r, response) == /\ pc' = [pc EXCEPT ![r] = "done"]
                    /\ answer' = [answer EXCEPT ![r] = response]

(* ------------------------------- the actions ----------------------------- *)

\* A fresh installation, or one whose candidate left after the disclosure.
Init ==
    /\ file = EmptyFile
    /\ \/ row = NoRow
       \/ \E v \in Version :
            row = [version |-> v, acked_at |-> "earlier", status |-> "pending",
                   label |-> None, linked_at |-> None]
    /\ current \in Version
    /\ vouched = [c \in Capability |-> NoKey]
    /\ pc = [r \in Request |-> "idle"]
    /\ op = [r \in Request |-> None]
    /\ body = [r \in Request |-> EmptyFile]
    /\ connection = [r \in Request |-> "closed"]
    /\ outcome = [r \in Request |-> None]
    /\ refused = [r \in Request |-> FALSE]
    /\ seen = [r \in Request |-> NoRow]
    /\ recalled = [r \in Request |-> NoKey]
    /\ found = [r \in Request |-> {}]
    /\ answer = [r \in Request |-> None]
    /\ torn = FALSE
    /\ verified = {}
    /\ raced = [r \in Request |-> FALSE]
    /\ superseded = [r \in Request |-> FALSE]
    /\ truth = [r \in Request |-> FALSE]

\* GET /state, GET /email and POST /email/skip go straight to the database.
Submit(r) ==
    /\ pc[r] = "idle"
    /\ \E o \in [kind : {"skip", "state", "step"}] :
        /\ op' = [op EXCEPT ![r] = o]
        /\ Goto(r, CASE o.kind = "skip" -> "select"
                     [] o.kind = "state" -> "state_row"
                     [] o.kind = "step" -> "step_row")
    /\ UNCHANGED <<disk, row, current, vouched, body, mail, read, answer, history>>

\* Slip: any text the SPA still shows may be acknowledged.
SlipSubmitAcknowledgement(r) ==
    /\ pc[r] = "idle"
    /\ \E v \in Version : op' = [op EXCEPT ![r] = [kind |-> "ack", version |-> v]]
    /\ Goto(r, "check")
    /\ UNCHANGED <<disk, row, current, vouched, body, mail, read, answer, history>>

\* acknowledge_disclosure: only the text in force may be acknowledged.
SubmitAcknowledgement(r) ==
    /\ pc[r] = "idle"
    /\ \E v \in Version :
        /\ op' = [op EXCEPT ![r] = [kind |-> "ack", version |-> v]]
        /\ IF Covers(current, {v}) THEN Goto(r, "check") /\ UNCHANGED answer
           ELSE End(r, "disclosure_ack_required")
    /\ UNCHANGED <<disk, row, current, vouched, body, mail, read, history>>

\* Whether it is already acknowledged is read in a transaction of its own.
CheckAcknowledgement(r) ==
    /\ pc[r] = "check"
    /\ IF Acknowledged(row) = current THEN End(r, "already_acknowledged")
       ELSE Goto(r, "select") /\ UNCHANGED answer
    /\ UNCHANGED <<disk, row, current, vouched, held, read, history>>

\* write_credential, up to its truncation: a line break is a plain ValueError, and
\* the password is only looked at once the address has been written.
BeginWrite(r, name, value, next) ==
    /\ IF value \in LineBreak THEN End(r, "value_error") /\ UNCHANGED <<body, torn>>
       ELSE /\ body' = [body EXCEPT ![r] = Replaced(file, name, value)]
            /\ torn' = (torn \/ Rewriting # {})
            /\ Goto(r, next) /\ UNCHANGED answer
    /\ UNCHANGED file

SubmitLink(r) ==
    /\ pc[r] = "idle"
    /\ \E l \in Login, b \in Label :
        /\ op' = [op EXCEPT ![r] = [kind |-> "link", login |-> l, label |-> b]]
        /\ BeginWrite(r, "GMAIL_ADDRESS", l[1], "truncate_address")
    /\ UNCHANGED <<row, current, vouched, mail, read, history>>

\* PUT /providers, as far as the file is concerned.
SubmitSave(r) ==
    /\ pc[r] = "idle"
    /\ \E c \in Capability, k \in Key :
        /\ op' = [op EXCEPT ![r] = [kind |-> "save", capability |-> c, key |-> k]]
        /\ BeginWrite(r, ApiKeyOf(c), k, "truncate_key")
    /\ UNCHANGED <<row, current, vouched, mail, read, history>>

ReadForPassword(r) ==
    /\ pc[r] = "password"
    /\ BeginWrite(r, "GMAIL_APP_PASSWORD", op[r].login[2], "truncate_password")
    /\ UNCHANGED <<row, current, vouched, op, mail, read, history>>

TruncateFile(r) ==
    /\ pc[r] \in Truncating
    /\ Truncate
    /\ Goto(r, CASE pc[r] = "truncate_address" -> "write_address"
                 [] pc[r] = "truncate_password" -> "write_password"
                 [] pc[r] = "truncate_key" -> "write_key")
    /\ UNCHANGED <<torn, row, current, vouched, held, read, answer, history>>

WriteFile(r) ==
    /\ pc[r] \in Landing
    /\ WriteOver(body[r])
    /\ CASE pc[r] = "write_address" -> Goto(r, "password") /\ UNCHANGED answer
         [] pc[r] = "write_password" -> Goto(r, "verify") /\ UNCHANGED answer
         [] pc[r] = "write_key" -> End(r, "key_written")
    /\ UNCHANGED <<torn, row, current, vouched, held, read, history>>

\* verify_label, up to the greeting: a wildcard never leaves the process.  To
\* imaplib a connection that drops is an IMAP4.abort, an IMAP4.error and no
\* OSError: while the server greets nothing catches it.
VerifyLabel(r) ==
    /\ pc[r] = "verify"
    /\ \/ /\ op[r].label \in Wildcard /\ End(r, "label_not_found")
          /\ UNCHANGED connection
       \/ /\ op[r].label \notin Wildcard
          /\ \E failure \in {"email_unreachable", "internal_error"} : End(r, failure)
          /\ UNCHANGED connection
       \/ /\ op[r].label \notin Wildcard
          /\ connection' = [connection EXCEPT ![r] = "open"]
          /\ Goto(r, "login") /\ UNCHANGED answer
    /\ UNCHANGED <<disk, row, current, vouched, op, body, outcome, refused, read, history>>

\* Slip: a failed exchange answers at once.
SlipConclude(r, result) == /\ outcome' = [outcome EXCEPT ![r] = result]
                           /\ IF result = "found" THEN Goto(r, "logout") /\ UNCHANGED answer
                              ELSE End(r, result)

\* What the exchange came to is only answered once goodbye was said, or tried.
Conclude(r, result) == /\ outcome' = [outcome EXCEPT ![r] = result]
                       /\ Goto(r, "logout")
                       /\ UNCHANGED answer

\* The connection drops or hangs: no goodbye can succeed on it any more.
Breaks(r) == connection' = [connection EXCEPT ![r] = "lost"]

\* _login: the server says no; or the connection drops, which is an IMAP4.error
\* too; or it hangs until the timeout, an OSError.  imaplib encodes as ASCII, and
\* nothing catches what it raises for a login it cannot encode.
LogIn(r) ==
    /\ pc[r] = "login"
    /\ \/ /\ {op[r].login[1], op[r].login[2]} \cap NonAscii # {}
          /\ Conclude(r, "internal_error") /\ UNCHANGED <<connection, refused>>
       \/ /\ {op[r].login[1], op[r].login[2]} \cap NonAscii = {}
          /\ \/ Goto(r, "list") /\ UNCHANGED <<mail, answer>>
             \/ /\ Conclude(r, "app_password_rejected") /\ UNCHANGED connection
                /\ refused' = [refused EXCEPT ![r] = TRUE]
             \/ /\ \E failure \in {"app_password_rejected", "email_unreachable"} :
                      Conclude(r, failure)
                /\ Breaks(r) /\ UNCHANGED refused
    /\ UNCHANGED <<disk, row, current, vouched, op, body, read, history>>

\* _assert_label_exists: a server that refuses, a drop and a timeout are all
\* unreachable here.
ListLabel(r) ==
    /\ pc[r] = "list"
    /\ \/ /\ op[r].label \in NonAscii
          /\ Conclude(r, "internal_error") /\ UNCHANGED <<connection, verified>>
       \/ /\ op[r].label \notin NonAscii
          /\ \/ /\ \E failure \in {"email_unreachable", "label_not_found"} : Conclude(r, failure)
                /\ UNCHANGED connection
             \/ Conclude(r, "email_unreachable") /\ Breaks(r)
          /\ UNCHANGED verified
       \/ /\ op[r].label \notin NonAscii
          /\ Conclude(r, "found") /\ UNCHANGED connection
          /\ verified' = verified \cup {[login |-> op[r].login, label |-> op[r].label, by |-> r]}
    /\ UNCHANGED <<disk, row, current, vouched, op, body, refused, read, raced, superseded, truth>>

\* _close, in the finally: imaplib lets go of the socket once the server has said
\* goodbye.  When it does not, the failure is swallowed and the socket stays.
LogOut(r) ==
    /\ pc[r] = "logout"
    /\ \/ connection[r] = "open" /\ connection' = [connection EXCEPT ![r] = "closed"]
       \/ Breaks(r)
    /\ IF outcome[r] = "found" THEN Goto(r, "select") /\ UNCHANGED answer
       ELSE End(r, outcome[r])
    /\ UNCHANGED <<disk, row, current, vouched, op, body, outcome, refused, read, history>>

\* The SELECT of ensure().
SelectRow(r) ==
    /\ pc[r] = "select"
    /\ seen' = [seen EXCEPT ![r] = row]
    /\ raced' = [raced EXCEPT ![r] = FALSE]
    /\ Goto(r, "commit")
    /\ UNCHANGED <<disk, row, current, vouched, held, recalled, found, answer, verified,
                   superseded, truth>>

\* The INSERT or the UPDATE, and the COMMIT.  The unique and the CHECK constraints
\* turn into a rollback and an unclassified error.
Commit(r) ==
    /\ pc[r] = "commit"
    /\ LET fresh == seen[r] = NoRow
           target == IF fresh THEN Recorded(r, NewRow)
                     ELSE Update(Recorded(r, seen[r]), seen[r], row)
       IN  IF (fresh => row = NoRow) /\ RowAllowed(target)
           THEN /\ row' = target
                /\ raced' = [q \in Request |-> raced[q] \/ (q # r /\ Running(q))]
                /\ Goto(r, IF op[r].kind = "ack" THEN "state_row" ELSE "step_row")
                /\ UNCHANGED answer
           ELSE End(r, "integrity_error") /\ UNCHANGED <<row, raced>>
    /\ UNCHANGED <<disk, current, vouched, held, read, verified, superseded, truth>>

\* read_step: the row, then the file.
ReadStepRow(r) ==
    /\ pc[r] = "step_row"
    /\ seen' = [seen EXCEPT ![r] = row]
    /\ Goto(r, "step_file")
    /\ UNCHANGED <<disk, row, current, vouched, held, recalled, found, answer, history>>

\* A skip throws this view away and answers with the state of the wizard.
ReadStepFile(r) ==
    /\ pc[r] = "step_file"
    /\ found' = [found EXCEPT ![r] =
                    IF file["GMAIL_APP_PASSWORD"] # NoKey
                          \/ Environment["GMAIL_APP_PASSWORD"] # NoKey
                    THEN {"credential"} ELSE {}]
    /\ IF op[r].kind = "skip" THEN Goto(r, "state_row") /\ UNCHANGED answer
       ELSE End(r, "view")
    /\ UNCHANGED <<disk, row, current, vouched, held, seen, recalled, history>>

\* read_state: the row, then one capability and the other.
ReadStateRow(r) ==
    /\ pc[r] = "state_row"
    /\ seen' = [seen EXCEPT ![r] = row]
    /\ found' = [found EXCEPT ![r] = {}]
    /\ Goto(r, "generation_row")
    /\ UNCHANGED <<disk, row, current, vouched, held, recalled, answer, history>>

\* current_configuration of generation: its stored preflight, in a transaction of
\* its own, and then the file it is compared with.
ReadGenerationRow(r) ==
    /\ pc[r] = "generation_row"
    /\ recalled' = [recalled EXCEPT ![r] = vouched["generation"]]
    /\ superseded' = [superseded EXCEPT ![r] = FALSE]
    /\ Goto(r, "generation_file")
    /\ UNCHANGED <<disk, row, current, vouched, held, seen, found, answer, verified, raced, truth>>

ReadGenerationFile(r) ==
    /\ pc[r] = "generation_file"
    /\ found' = [found EXCEPT ![r] = IF Matches(r, "generation") THEN {"generation"} ELSE {}]
    /\ recalled' = [recalled EXCEPT ![r] = NoKey]
    /\ truth' = [truth EXCEPT ![r] = IsComplete(FactsOf(row, UsableNow))]
    /\ Goto(r, "embeddings_row")
    /\ UNCHANGED <<disk, row, current, vouched, held, seen, answer, verified, raced, superseded>>

ReadEmbeddingsRow(r) ==
    /\ pc[r] = "embeddings_row"
    /\ recalled' = [recalled EXCEPT ![r] = vouched["embeddings"]]
    /\ Goto(r, "embeddings_file")
    /\ UNCHANGED <<disk, row, current, vouched, held, seen, found, answer, history>>

ReadEmbeddingsFile(r) ==
    /\ pc[r] = "embeddings_file"
    /\ LET both == found[r] \cup (IF Matches(r, "embeddings") THEN {"embeddings"} ELSE {})
       IN  End(r, Shown(FactsOf(seen[r], both)))
    /\ recalled' = [recalled EXCEPT ![r] = NoKey]
    /\ UNCHANGED <<disk, row, current, vouched, held, seen, found, history>>

\* Another preflight is stored, or an acknowledgement of one: Preflight says how.
Reconfigure ==
    /\ vouched' \in [Capability -> Vouchable]
    /\ superseded' = [r \in Request |->
            superseded[r] \/ (/\ pc[r] = "generation_file"
                              /\ vouched'["generation"] # vouched["generation"])]
    /\ UNCHANGED <<disk, row, current, pc, held, read, answer, verified, raced, truth>>

\* The installation key is lost and minted anew: no fingerprint stored or already
\* read matches any credential any more.
MintAgain ==
    /\ vouched' = [c \in Capability |-> NoKey]
    /\ recalled' = [r \in Request |-> NoKey]
    /\ UNCHANGED <<disk, row, current, pc, held, seen, found, answer, history>>

\* The process dies and is started again, perhaps as a build with another text.
Restart ==
    /\ pc' = [r \in Request |-> IF Running(r) THEN "dead" ELSE pc[r]]
    /\ current' \in Version
    /\ connection' = [r \in Request |-> "closed"]
    /\ torn' = (torn \/ \E r \in Request : pc[r] \in Landing)
    /\ UNCHANGED <<file, row, vouched, op, body, outcome, refused, read, answer, history>>

Advance(r) ==
    \/ CheckAcknowledgement(r) \/ ReadForPassword(r) \/ TruncateFile(r) \/ WriteFile(r)
    \/ VerifyLabel(r) \/ LogIn(r) \/ ListLabel(r) \/ LogOut(r)
    \/ SelectRow(r) \/ Commit(r)
    \/ ReadStepRow(r) \/ ReadStepFile(r)
    \/ ReadStateRow(r) \/ ReadGenerationRow(r) \/ ReadGenerationFile(r)
    \/ ReadEmbeddingsRow(r) \/ ReadEmbeddingsFile(r)

Next == \/ \E r \in Request :
            Submit(r) \/ SubmitAcknowledgement(r) \/ SubmitLink(r) \/ SubmitSave(r) \/ Advance(r)
        \/ Reconfigure
        \/ MintAgain
        \/ Restart

Spec == Init /\ [][Next]_vars

(* ------------------------------ the properties --------------------------- *)

\* Every variable keeps the type its columns, files and locals have in the code.
TypeOK ==
    /\ file \in Content
    /\ row \in Row \cup {NoRow}
    /\ current \in Version
    /\ vouched \in [Capability -> Vouchable]
    /\ pc \in [Request -> Ended \cup Truncating \cup Landing \cup
            {"check", "password", "verify", "login", "list", "logout", "select", "commit",
             "step_row", "step_file", "state_row", "generation_row", "generation_file",
             "embeddings_row", "embeddings_file"}]
    /\ op \in [Request -> Op \cup {None}]
    /\ body \in [Request -> Content]
    /\ connection \in [Request -> {"closed", "open", "lost"}]
    /\ outcome \in [Request -> Failure \cup {"found", None}]
    /\ refused \in [Request -> BOOLEAN]
    /\ seen \in [Request -> Row \cup {NoRow}]
    /\ recalled \in [Request -> Vouchable]
    /\ found \in [Request -> SUBSET (Capability \cup {"credential"})]
    /\ answer \in [Request -> Answer \cup {None}]
    /\ verified \subseteq [login : Login, label : Label \ Wildcard, by : Request]
    /\ torn \in BOOLEAN
    /\ raced \in [Request -> BOOLEAN]
    /\ superseded \in [Request -> BOOLEAN]
    /\ truth \in [Request -> BOOLEAN]

\* The facts of setup_state keep the promises of the first run: concurrent writers
\* of its one row undo nothing, and no two of them ever meet in the middle.
Promise == INSTANCE FirstRun WITH
    acknowledged <- Acknowledged(row), email <- EmailOf(row), label <- LabelOf(row),
    checked <- {v.label : v \in verified}, Label <- Label \ Wildcard

KeepsItsPromise == Promise!Spec

\* read_state is no snapshot: it reads three rows in three transactions, and the file
\* after each of the two preflights.  Even so, the first run it reports concluded was,
\* at the moment it compared generation with the file; unless that very preflight was
\* stored anew between its row and its file, in which case the answer may be true of no
\* instant.
NullWasComplete ==
    \A r \in Request : answer[r] = "null" => truth[r] \/ superseded[r]

\* The database only ever refuses a write that lost a race: alone, neither a skip
\* nor a link nor an acknowledgement offends its constraints.
RefusedOnlyIfRaced == \A r \in Request : answer[r] = "integrity_error" => raced[r]

\* Everything that was submitted has been answered.
Settled == \A r \in Request : pc[r] \in {"idle", "done"}

\* The stored address and password and the designated label were verified together.
VerifiedAsStored ==
    \E v \in verified : /\ file["GMAIL_ADDRESS"] = Strip[v.login[1]]
                        /\ file["GMAIL_APP_PASSWORD"] = Strip[v.login[2]]
                        /\ row.label = v.label

\* Once everything is answered, a linked step is one whose stored address, password
\* and designated label were verified together.
LinkedIsVerified == (Settled /\ EmailOf(row) = "linked") => VerifiedAsStored

\* Nobody but r has asked for a link.
OnlyLink(r) == \A q \in Request \ {r} : pc[q] = "idle" \/ op[q].kind # "link"

\* As long as one link at most was asked for, a linked step is at every moment one that
\* was verified as it is stored, whatever skips, acknowledgements, saves of API keys and
\* restarts ran beside it: "Verify the designated label exists, and only then call it
\* linked" (email_link_service.py:143).  The two names are written one after the other,
\* each from a parse of its own of a file that saves rewrite whole, and the row is
\* written from a SELECT that may be stale.  What this cannot promise is what the file
\* itself cannot: rewrites that overlap, a crash between a truncation and its write,
\* and the moment a rewrite is under way.
LinkedOnceIsVerified ==
    \A r \in Request :
        (OnlyLink(r) /\ EmailOf(row) = "linked" /\ ~ torn /\ Rewriting = {}) => VerifiedAsStored

\* However the exchange ends, an answered request has closed its connection, unless the
\* connection broke or the server did not say goodbye: that one nothing closes.
ClosedUnlessLost == \A r \in Request : connection[r] = "open" => Running(r)

\* "No connection says nothing about the password": it is only called rejected
\* when the server did reject it.
RejectedByServer == \A r \in Request : answer[r] = "app_password_rejected" => refused[r]
===============================================================================
