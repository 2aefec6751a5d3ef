------------------------------- MODULE Preflight -------------------------------
(***************************************************************************)
(* services/preflight_service.py with everything it calls: the credentials *)
(* file, the installation key, the probe and provider_configurations.      *)
(*                                                                         *)
(* Endpoints are plain `def` functions, so every HTTP request runs on a    *)
(* thread of its own (db/session.py).  A request here is one such thread:  *)
(* it is submitted once, advances by the steps below and ends with an      *)
(* answer.  A step is what other threads see as one: a read of the file, a *)
(* truncation, a write, a SELECT, an UPDATE with its COMMIT (the row stays *)
(* locked between the two).                                                *)
(***************************************************************************)
EXTENDS ProbePort, CredentialFile, Naturals

CONSTANTS
    Request,      \* requests, each submitted at most once
    Touched,      \* the capabilities the requests are about
    Model,        \* model names the installation may be configured with
    Named,        \* bound: the models a request may name instead
    EnvKey,       \* the credential in the environment, NoKey if there is none
    MaxEdits,     \* bound: edits of the file made outside the application
    NoRow

\* The responses, told apart as far as the properties need.
Answer == Result \cup {Unreachable, ModelGone, "usable", "configured", "rejected",
           "not_configured", "null", "value_error", "integrity_error",
           "degradation_ack_required", "provider_not_offered"}

ASSUME PreflightAssumption ==
    /\ Touched \subseteq Capability
    /\ Named \subseteq Model /\ Model # {}
    /\ EnvKey \in Key \cup {NoKey}
    /\ MaxEdits \in Nat
    /\ None \notin Request \cup Reason \cup Dim \cup Model \cup Answer

VARIABLES
    ikey,      \* the content of .installation-key, None while missing or empty
    row,       \* provider_configurations, one row or NoRow per capability
    edits,     \* edits made outside the application so far
    configured,\* the model each capability is configured with (environment)
    pc,        \* per request: its next step
    op,        \* per request: what was submitted, None before
    body,      \* per PUT: the content it will write back
    cred,      \* per request: the credential to digest, as it holds it
    attempt,   \* per PUT: what the probe reported
    digest,    \* per request: the last fingerprint it computed
    seen,      \* per request: the row its last SELECT returned
    acked,     \* per acknowledgement: it is committed, only the response is left
    answer,    \* per request: the response, None until it ends
    probed,    \* history: every probe the provider answered
    agreed,    \* history: the preflight an acknowledgement was checked against
    raced,     \* history: another commit on the row since this request read it
    tainted,   \* history: the row was last saved over such a commit
    lone       \* history: the last request submitted, if it has had the installation
               \* to itself since, else None

outside == <<file, ikey, edits, configured>>
held    == <<op, body, cred, attempt, acked>>
history == <<probed, agreed, raced, tainted, lone>>
vars    == <<outside, row, pc, held, digest, seen, answer, history>>

(* --------------------------------- types --------------------------------- *)

\* What a request asks for; a PUT that names no model gets the configured one.
Op == [kind : {"put"}, cap : Touched, key : Key, model : Named \cup {None}]
      \cup [kind : {"get", "ack"}, cap : Touched]

\* An installation key is 32 random bytes: it is named by the request that minted
\* it and by whether that was in its last read, so no two of them coincide.
InstallationKey == Request \X BOOLEAN

\* HMAC-SHA256 of the raw key, truncated: taken to be injective.
Digest == InstallationKey \X Key

\* `at` is preflight_at and `ack` is degradation_acknowledged_at, each named by
\* the request whose clock it was read from.
Row == [result : Result, model : Model, digest : Digest, reasons : Reason \cup {None},
        dim : Dim \cup {None}, at : Request, ack : Request \cup {None}]

ASSUME NoRowAssumption == NoRow \notin Row

ASSUME NoKeyYetAssumption == None \notin InstallationKey

\* The CHECK constraint a later migration adds to provider_configurations.
ReasonsAllowed(r) == r.reasons # None => r.result = "capability_unverified"

\* Its CHECK constraints, those of the first migration and that one.
RowAllowed(c, r) ==
    /\ c = "embeddings" /\ r.result = "verified" => r.dim # None
    /\ r.dim # None => c = "embeddings"
    /\ r.ack # None => r.result = "capability_unverified"
    /\ ReasonsAllowed(r)

(* ------------------------------ the helpers ------------------------------ *)

\* Slip: the environment shadows the wizard's file.
SlipCredential(c) == IF EnvKey # NoKey THEN EnvKey ELSE file[ApiKeyOf(c)]

\* credential_for: the wizard's file first, the environment as a fallback.
Credential(c) == IF file[ApiKeyOf(c)] # NoKey THEN file[ApiKeyOf(c)] ELSE EnvKey

ModelOf(o) == IF o.model # None THEN o.model ELSE configured[o.cap]

Fingerprint(k, i) == <<i, k>>

FactsOf(r, matches) == [result |-> r.result, credential_matches |-> matches,
                        degradation_acknowledged |-> r.ack # None]

\* Slip: the status is that of the stored row, whatever the credential is now.
SlipViewOf(r, matches) ==
    IF IsUsable(FactsOf(r, TRUE)) THEN "usable"
    ELSE IF r.result = "credential_rejected" THEN "rejected" ELSE "configured"

\* What the response says about a stored row: the three-valued status, told apart
\* further by is_usable.
ViewOf(r, matches) ==
    IF ~ matches THEN "not_configured"
    ELSE IF IsUsable(FactsOf(r, matches)) THEN "usable"
    ELSE IF r.result = "credential_rejected" THEN "rejected"
    ELSE "configured"

\* The response of configure_capability once the row is committed.
SavedAnswer(a) == CASE a.result = "verified" -> "usable"
                    [] a.result = "capability_unverified" -> "configured"
                    [] OTHER -> a.result

\* A column reaches the UPDATE only if its value differs from the loaded one.
Column(new, loaded, current) == IF new # loaded THEN new ELSE current

Update(new, loaded, current) ==
    [result  |-> Column(new.result, loaded.result, current.result),
     model   |-> Column(new.model, loaded.model, current.model),
     digest  |-> Column(new.digest, loaded.digest, current.digest),
     reasons |-> Column(new.reasons, loaded.reasons, current.reasons),
     dim     |-> Column(new.dim, loaded.dim, current.dim),
     at      |-> Column(new.at, loaded.at, current.at),
     ack     |-> Column(new.ack, loaded.ack, current.ack)]

\* Slip: an acknowledgement outlives the preflight it was given for.
SlipSaved(r) == [result |-> attempt[r].result, model |-> ModelOf(op[r]), digest |-> digest[r],
                 reasons |-> attempt[r].reasons, dim |-> attempt[r].dim,
                 at |-> r, ack |-> IF seen[r] = NoRow THEN None ELSE seen[r].ack]

\* The row save_preflight asks for; a new preflight clears the acknowledgement.
Saved(r) == [result |-> attempt[r].result, model |-> ModelOf(op[r]), digest |-> digest[r],
             reasons |-> attempt[r].reasons, dim |-> attempt[r].dim,
             at |-> r, ack |-> None]

Ended == {"idle", "done", "dead"}

Running(r) == pc[r] \notin Ended

Goto(r, step) == pc' = [pc EXCEPT ![r] = step]

End(r, response) == /\ pc' = [pc EXCEPT ![r] = "done"]
                    /\ answer' = [answer EXCEPT ![r] = response]

\* A commit on the row of c: every other request at work on c has been overtaken.
Overtaken(c, r) ==
    raced' = [q \in Request |-> raced[q] \/ (q # r /\ Running(q) /\ op[q].cap = c)]

\* Request r begins: is anything else at work?
Begins(r) == lone' = IF \E q \in Request \ {r} : Running(q) THEN None ELSE r

(* ------------------------------- the actions ----------------------------- *)

Init ==
    /\ file = EmptyFile /\ ikey = None /\ edits = 0
    /\ configured \in [Touched -> Model]
    /\ row = [c \in Touched |-> NoRow]
    /\ pc = [r \in Request |-> "idle"]
    /\ op = [r \in Request |-> None]
    /\ body = [r \in Request |-> EmptyFile]
    /\ cred = [r \in Request |-> NoKey]
    /\ attempt = [r \in Request |-> None]
    /\ digest = [r \in Request |-> None]
    /\ seen = [r \in Request |-> NoRow]
    /\ acked = [r \in Request |-> FALSE]
    /\ answer = [r \in Request |-> None]
    /\ probed = {}
    /\ agreed = [r \in Request |-> None]
    /\ raced = [r \in Request |-> FALSE]
    /\ tainted = [c \in Touched |-> FALSE]
    /\ lone = None

\* PUT /providers/{capability}, up to the read that starts write_credential.  A
\* provider that is not on offer is refused first, and then a line break, as a plain
\* ValueError: neither touches anything.
Put(r) ==
    /\ pc[r] = "idle"
    /\ \E o \in Op, offered \in BOOLEAN :
        /\ o.kind = "put"
        /\ op' = [op EXCEPT ![r] = o]
        /\ cred' = [cred EXCEPT ![r] = o.key]
        /\ \/ ~ offered /\ End(r, "provider_not_offered") /\ UNCHANGED body
           \/ /\ offered /\ o.key \in LineBreak
              /\ End(r, "value_error") /\ UNCHANGED body
           \/ /\ offered /\ o.key \notin LineBreak
              /\ body' = [body EXCEPT ![r] = Replaced(file, ApiKeyOf(o.cap), o.key)]
              /\ Goto(r, "truncate") /\ UNCHANGED answer
    /\ Begins(r)
    /\ UNCHANGED <<outside, row, attempt, acked, digest, seen, probed, agreed, raced, tainted>>

TruncateFile(r) ==
    /\ pc[r] = "truncate"
    /\ Truncate
    /\ Goto(r, "write")
    /\ UNCHANGED <<ikey, edits, configured, row, held, digest, seen, answer, history>>

WriteFile(r) ==
    /\ pc[r] = "write"
    /\ WriteOver(body[r])
    /\ Goto(r, "probe")
    /\ UNCHANGED <<ikey, edits, configured, row, held, digest, seen, answer, history>>

\* The provider is asked with the key as it was typed.  A retired model leaves as
\* an error of its own, before any fingerprint is computed.
Probe(r) ==
    /\ pc[r] = "probe"
    /\ \E a \in AttemptOf(op[r].cap) :
        IF a.result = ModelGone
        THEN End(r, ModelGone) /\ UNCHANGED <<attempt, probed>>
        ELSE /\ attempt' = [attempt EXCEPT ![r] = a]
             /\ probed' = probed \cup {[cap |-> op[r].cap, key |-> op[r].key,
                                        model |-> ModelOf(op[r]), outcome |-> a]}
             /\ Goto(r, "digest") /\ UNCHANGED answer
    /\ UNCHANGED <<outside, row, op, body, cred, acked, digest, seen, agreed, raced, tainted,
                   lone>>

\* Slip: whatever the preflight found can be acknowledged.
SlipViewedAnything(r, matches) ==
    IF op[r].kind = "get" \/ acked[r] THEN End(r, ViewOf(seen[r], matches))
    ELSE Goto(r, "ack_select") /\ UNCHANGED answer

\* Slip: the view of a recorded acknowledgement goes back to recording it.
SlipViewedAgain(r, matches) ==
    IF op[r].kind = "get" THEN End(r, ViewOf(seen[r], matches))
    ELSE IF seen[r].result = "capability_unverified" THEN Goto(r, "ack_select") /\ UNCHANGED answer
    ELSE End(r, "degradation_ack_required")

\* The end of a read: the response, or for an acknowledgement that has not been
\* recorded yet the check that there is a degradation to acknowledge.
Viewed(r, matches) ==
    IF op[r].kind = "get" \/ acked[r] THEN End(r, ViewOf(seen[r], matches))
    ELSE IF seen[r].result = "capability_unverified" THEN Goto(r, "ack_select") /\ UNCHANGED answer
    ELSE End(r, "degradation_ack_required")

\* Slip: an unreachable provider is recorded like any other result.
SlipDigestedUnreachable(r, i) ==
    LET d == Fingerprint(cred[r], i)
    IN  /\ digest' = [digest EXCEPT ![r] = d]
        /\ IF op[r].kind # "put" THEN Viewed(r, d = seen[r].digest)
           ELSE Goto(r, "select") /\ UNCHANGED answer

\* Slip: the digest is taken of the credential in force, not of the one probed.
SlipDigestedFile(r, i) ==
    LET d == Fingerprint(Credential(op[r].cap), i)
    IN  /\ digest' = [digest EXCEPT ![r] = d]
        /\ IF op[r].kind # "put" THEN Viewed(r, d = seen[r].digest)
           ELSE IF attempt[r].result = Unreachable THEN End(r, Unreachable)
           ELSE Goto(r, "select") /\ UNCHANGED answer

\* With the fingerprint under installation key i: a PUT goes on to save, unless the
\* provider was unreachable, and a read compares.
Digested(r, i) ==
    LET d == Fingerprint(cred[r], i)
    IN  /\ digest' = [digest EXCEPT ![r] = d]
        /\ IF op[r].kind # "put" THEN Viewed(r, d = seen[r].digest)
           ELSE IF attempt[r].result = Unreachable THEN End(r, Unreachable)
           ELSE Goto(r, "select") /\ UNCHANGED answer

\* installation_key: the stored one, or on its way to a new one.
DigestCredential(r) ==
    /\ pc[r] = "digest"
    /\ IF ikey # None THEN Digested(r, ikey)
       ELSE Goto(r, "mint") /\ UNCHANGED <<digest, answer>>
    /\ UNCHANGED <<outside, row, held, seen, history>>

TruncateInstallationKey(r) ==
    /\ pc[r] = "mint"
    /\ ikey' = None
    /\ Goto(r, "mint_write")
    /\ UNCHANGED <<file, edits, configured, row, held, digest, seen, answer, history>>

\* Whatever another thread stored meanwhile is replaced, and this thread digests
\* with the key it generated itself.
WriteInstallationKey(r) ==
    /\ pc[r] = "mint_write"
    /\ ikey' = <<r, acked[r]>>
    /\ Digested(r, <<r, acked[r]>>)
    /\ UNCHANGED <<file, edits, configured, row, held, seen, history>>

\* save_preflight, the SELECT.
SelectForSave(r) ==
    /\ pc[r] = "select"
    /\ seen' = [seen EXCEPT ![r] = row[op[r].cap]]
    /\ raced' = [raced EXCEPT ![r] = FALSE]
    /\ Goto(r, "commit")
    /\ UNCHANGED <<outside, row, held, digest, answer, probed, agreed, tainted, lone>>

\* save_preflight, the INSERT or the UPDATE, and the COMMIT.  The unique and the
\* CHECK constraints turn into a rollback and an unclassified error.
CommitSave(r) ==
    /\ pc[r] = "commit"
    /\ LET c == op[r].cap
           fresh == seen[r] = NoRow
           target == IF fresh THEN Saved(r) ELSE Update(Saved(r), seen[r], row[c])
       IN  IF (fresh => row[c] = NoRow) /\ RowAllowed(c, target)
           THEN /\ row' = [row EXCEPT ![c] = target]
                /\ tainted' = [tainted EXCEPT ![c] = raced[r]]
                /\ Overtaken(c, r)
                /\ End(r, SavedAnswer(attempt[r]))
           ELSE End(r, "integrity_error") /\ UNCHANGED <<row, tainted, raced>>
    /\ UNCHANGED <<outside, held, digest, seen, probed, agreed, lone>>

\* GET /providers/{capability} and the degradation acknowledgement both begin with
\* a read of the current configuration.
Submit(r) ==
    /\ pc[r] = "idle"
    /\ \E o \in Op : o.kind # "put" /\ op' = [op EXCEPT ![r] = o]
    /\ Goto(r, "row")
    /\ Begins(r)
    /\ UNCHANGED <<outside, row, body, cred, attempt, acked, digest, seen, answer, probed,
                   agreed, raced, tainted>>

\* current_configuration, its transaction.
ReadRow(r) ==
    /\ pc[r] = "row"
    /\ LET found == row[op[r].cap]
       IN  /\ seen' = [seen EXCEPT ![r] = found]
           /\ IF found = NoRow
              THEN End(r, IF op[r].kind = "get" THEN "null" ELSE "degradation_ack_required")
              ELSE Goto(r, "file") /\ UNCHANGED answer
           /\ agreed' = IF acked[r] \/ found = NoRow THEN agreed
                        ELSE [agreed EXCEPT ![r] = found.at]
    /\ raced' = IF acked[r] THEN raced ELSE [raced EXCEPT ![r] = FALSE]
    /\ UNCHANGED <<outside, row, held, digest, probed, tainted, lone>>

\* _credential_still_matches, after the transaction: no credential matches nothing.
ReadCredential(r) ==
    /\ pc[r] = "file"
    /\ LET k == Credential(op[r].cap)
       IN  /\ cred' = [cred EXCEPT ![r] = k]
           /\ IF k = NoKey THEN Viewed(r, FALSE) ELSE Goto(r, "digest") /\ UNCHANGED answer
    /\ UNCHANGED <<outside, row, op, body, attempt, acked, digest, seen, history>>

\* acknowledge_degradation, the SELECT of its own transaction.
SelectForAck(r) ==
    /\ pc[r] = "ack_select"
    /\ seen' = [seen EXCEPT ![r] = row[op[r].cap]]
    /\ Goto(r, "ack_commit")
    /\ UNCHANGED <<outside, row, held, digest, answer, history>>

\* Only the acknowledgement differs from what was loaded, so only it is written.
CommitAck(r) ==
    /\ pc[r] = "ack_commit"
    /\ LET c == op[r].cap
           target == Update([seen[r] EXCEPT !.ack = r], seen[r], row[c])
       IN  IF RowAllowed(c, target)
           THEN /\ row' = [row EXCEPT ![c] = target]
                /\ tainted' = [tainted EXCEPT ![c] = @ \/ raced[r]]
                /\ Overtaken(c, r)
                /\ acked' = [acked EXCEPT ![r] = TRUE]
                /\ Goto(r, "row") /\ UNCHANGED answer
           ELSE End(r, "integrity_error") /\ UNCHANGED <<row, tainted, raced, acked>>
    /\ UNCHANGED <<outside, op, body, cred, attempt, digest, seen, probed, agreed, lone>>

\* The process dies and is started again, perhaps with other model names in its
\* environment: every thread in flight is gone, its open transaction rolled back,
\* and the files are as its last system call left them.
Restart ==
    /\ pc' = [r \in Request |-> IF Running(r) THEN "dead" ELSE pc[r]]
    /\ configured' \in [Touched -> Model]
    /\ UNCHANGED <<file, ikey, edits, row, held, digest, seen, answer, history>>

\* The candidate edits the file by hand.
EditFile ==
    /\ edits < MaxEdits
    /\ edits' = edits + 1
    /\ \E c \in Touched, k \in Stored : file' = [file EXCEPT ![ApiKeyOf(c)] = k]
    /\ lone' = None
    /\ UNCHANGED <<ikey, configured, row, pc, held, digest, seen, answer, probed, agreed, raced,
                   tainted>>

Advance(r) ==
    \/ TruncateFile(r) \/ WriteFile(r) \/ Probe(r)
    \/ DigestCredential(r) \/ TruncateInstallationKey(r) \/ WriteInstallationKey(r)
    \/ SelectForSave(r) \/ CommitSave(r)
    \/ ReadRow(r) \/ ReadCredential(r) \/ SelectForAck(r) \/ CommitAck(r)

Next == \/ \E r \in Request : Put(r) \/ Submit(r) \/ Advance(r)
        \/ Restart
        \/ EditFile

Spec == Init /\ [][Next]_vars

\* A submitted request keeps its thread until it has answered.
FairSpec == Spec /\ \A r \in Request : WF_vars(Advance(r))

(* ------------------------------ the properties --------------------------- *)

\* Every variable keeps the type its columns, files and locals have in the code.
TypeOK ==
    /\ file \in Content
    /\ ikey \in InstallationKey \cup {None}
    /\ edits \in 0 .. MaxEdits
    /\ configured \in [Touched -> Model]
    /\ row \in [Touched -> Row \cup {NoRow}]
    /\ pc \in [Request -> {"idle", "truncate", "write", "probe", "digest", "mint",
                           "mint_write", "select", "commit", "row", "file",
                           "ack_select", "ack_commit", "done", "dead"}]
    /\ op \in [Request -> Op \cup {None}]
    /\ body \in [Request -> Content]
    /\ cred \in [Request -> Key \cup Stored]
    /\ attempt \in [Request -> Attempt \cup {None}]
    /\ digest \in [Request -> Digest \cup {None}]
    /\ seen \in [Request -> Row \cup {NoRow}]
    /\ acked \in [Request -> BOOLEAN]
    /\ answer \in [Request -> Answer \cup {None}]
    /\ probed \subseteq [cap : Touched, key : Key, model : Model, outcome : Attempt]
    /\ agreed \in [Request -> Request \cup {None}]
    /\ raced \in [Request -> BOOLEAN]
    /\ tainted \in [Touched -> BOOLEAN]
    /\ lone \in Request \cup {None}

\* current_configuration, taken of one instant.  A missing installation key would
\* be minted anew, and match nothing.
Matches(c) ==
    /\ Credential(c) # NoKey
    /\ ikey # None
    /\ row[c].digest = Fingerprint(Credential(c), ikey)

Usable(c) == row[c] # NoRow /\ ViewOf(row[c], Matches(c)) = "usable"

\* What the row says about key k is what one probe of that key reported.
SaysOf(c, k) ==
    [cap |-> c, key |-> k, model |-> row[c].model,
     outcome |-> [result |-> row[c].result, reasons |-> row[c].reasons,
                  dim |-> row[c].dim]] \in probed

\* A usable capability was verified, with that model and that result, on the very
\* credential in force (preflight_service.py:304-308, "a result that lies"), wherever
\* the last save did not lose the race between its SELECT and its UPDATE, whatever
\* else ran, crashed or was edited meanwhile.
UsableIsHonestUnlessRaced ==
    \A c \in Touched : Usable(c) /\ ~ tainted[c] => SaysOf(c, Credential(c))

\* A degradation acknowledgement covers the preflight the candidate was shown, unless a
\* save came between the check and the stamp (provider_configuration_repository.py:54).
AckIsInformedUnlessRaced ==
    \A c \in Touched : row[c] # NoRow /\ ~ tainted[c] =>
        (row[c].ack # None => agreed[row[c].ack] = row[c].at)

\* What is on record of c: a row that lost a race counts for nothing, and the
\* fingerprint stands for the key it was taken of.
RecordOf(c) ==
    IF row[c] = NoRow \/ tainted[c] THEN {}
    ELSE {[report |-> [cap |-> c, key |-> row[c].digest[2], model |-> row[c].model,
                       outcome |-> [result |-> row[c].result, reasons |-> row[c].reasons,
                                    dim |-> row[c].dim]],
           acknowledged |-> row[c].ack # None]}

Report == [cap : Touched, key : Key, model : Model, outcome : Attempt]

\* The rows keep the promise of the providers step: every commit that did not lose the
\* race between its SELECT and its UPDATE puts one report of one probe on record, whole
\* and unacknowledged (provider_configuration_repository.py:54-59), or acknowledges the
\* one that is there, and the record is never empty again.
Promise == INSTANCE CapabilityPromise WITH
    Subject <- Touched,
    Kept <- {p \in Report : p.outcome.result \in Result},
    Degraded <- {p \in Report : p.outcome.result = "capability_unverified"},
    reported <- probed, record <- [c \in Touched |-> RecordOf(c)],
    lost <- {c \in Touched : tainted[c]}

KeepsItsPromise == Promise!Spec

\* No credential is ever reported usable for a capability it was not probed for,
\* however stale the row, the file or the installation key a response was built from.
NoUseWithoutProbe ==
    \A r \in Request : answer[r] = "usable" =>
        \E p \in probed : p.cap = op[r].cap /\ p.key = cred[r]

\* The database only ever refuses a write that lost a race: run one at a time, no
\* sequence of requests makes the code offend its own constraints.
RefusedOnlyIfRaced ==
    \A r \in Request : answer[r] = "integrity_error" => raced[r]

\* A PUT that answered usable left the capability usable, if nothing ran beside it
\* or after it: on an empty installation or over the row, the file and the installation
\* key that earlier requests, crashes and edits left behind.
Alone(r) == lone = r

SavedIsUsable ==
    \A r \in Request :
        (answer[r] = "usable" /\ op[r].kind = "put" /\ Alone(r)) => Usable(op[r].cap)

\* Once nothing is running, and if nothing crashed or was edited, the credential of
\* each capability is one that was submitted for it.
WroteKey(r) ==
    /\ op[r] # None /\ op[r].kind = "put" /\ op[r].key \notin LineBreak
    /\ answer[r] # "provider_not_offered"

SavedCredentialSurvives ==
    (edits = 0 /\ \A r \in Request : pc[r] \in {"idle", "done"}) =>
        \A c \in Touched :
            LET puts == {r \in Request : WroteKey(r) /\ op[r].cap = c}
            IN  puts # {} => \E r \in puts : file[ApiKeyOf(c)] = Strip[op[r].key]

\* Every submitted request is answered, or its process dies.
EveryRequestEnds == \A r \in Request : Running(r) ~> ~ Running(r)
===============================================================================
