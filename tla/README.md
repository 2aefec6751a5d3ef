# The first run of Vokara AI in TLA+

Vokara AI is a local, single-candidate application: a FastAPI backend, a React SPA, one
PostgreSQL database and a directory of local files. At this commit the part that is written is
the **first run**: a disclosure to acknowledge, two model providers to configure and verify, a
mailbox to link or skip. This directory specifies it: what it derives, what it stores, and what
its concurrent requests, crashes and partial failures can do to what it stores.

Everything is translated from the source; paths below are under `src/`, and without a prefix
under `src/backend/app/`.

## 1. Inventory

| Component | State | Operations | Modelled |
|---|---|---|---|
| First-run rules (`domain/setup.py`, `capability.py`, `disclosure.py`) | none | `is_usable`, `covers`, `pending_step`, `is_complete` | `SetupRules` |
| Credentials file (`core/credentials.py`) | `credentials.env`, `.installation-key` | parse, rewrite one name, mint the installation key | `CredentialFile`, and as steps in the two below |
| Preflight service (`services/preflight_service.py`) | none of its own | configure, read, acknowledge degradation | `Preflight` |
| Provider configurations (`db/repositories/provider_configuration_repository.py`) | one row per capability | SELECT, INSERT/UPDATE, constraints | `Preflight` |
| Provider factory (`adapters/llm/factory.py`) | none | `credential_for`, `default_model`, `build_probe`, what is implemented | `Preflight`, `Catalog` |
| Setup service (`services/setup_service.py`) | none | acknowledge the disclosure, state of the wizard | `SetupState` |
| Email link service (`services/email_link_service.py`) | none | read, link, skip | `SetupState` |
| Setup state (`db/repositories/setup_state_repository.py`) | one row | `ensure` and three recorders, constraints | `SetupState` |
| IMAP adapter (`adapters/email/gmail_imap.py`) | a connection | `verify_label`: connect, login, list, log out | `SetupState` |
| Google adapter (`adapters/llm/google.py`, `schemas.py`, `base.py`) | attempt, last failure | probe with retries, classification, report | `ProbePort`, `CapabilityProbe` (abstract), `Replies`, `GoogleProbe` |
| Call tracing (`adapters/llm/tracing.py`, `db/repositories/llm_call_log_repository.py`) | the registered sinks, one row per call | outcome, emit | `Replies`, `GoogleProbe` |
| Provider catalogue (`services/provider_catalog_service.py`, `adapters/llm/capabilities.py`, `directory.py`, `pricing.py`) | static tables | filters and views | `Catalog` |
| Verification script (`../../scripts/verify_providers.py`) | none | reads a reply, prints a row of the matrix | `VerifyProviders`, `ProviderVerification` |
| HTTP layer (`api/v1/setup.py`, `api/errors.py`) | none | one endpoint per operation | partly: as the submission and the answer of a request |
| SPA guard (`../../frontend/src/routes`) | what was true on arrival | redirects | `FirstRunGuard` |
| SPA screens and hooks (`../../frontend/src/features/setup`, `main.tsx`) | query cache, mutations in flight, remembered failures | clicks, refetches, navigation | `Wizard` |
| Startup, data directory, settings (`main.py`, `core/`) | environment | read at start | only a restart with other settings |
| Profile schema, worker, health, logging | tables nothing writes yet; none | none that changes the state of the first run | not modelled |

**How they interact.** The SPA calls one endpoint per operation. Endpoints are plain `def`
functions, so FastAPI runs each on a thread of its pool (`db/session.py` says so and sizes the
engine for it). A service opens a short transaction through `session_scope`, *closes it*, touches
the file or the provider outside any transaction, and opens another. Rows and files are joined
only by a fingerprint, an HMAC of the credential under an installation key that is itself a file.
Nothing locks the files; no SELECT is `FOR UPDATE`; the isolation is PostgreSQL's default READ
COMMITTED. SQLAlchemy's unit of work writes only the columns whose value differs from the one it
loaded.

**What is hard here**, and what each component must therefore get right:

* *Files.* A rewrite is a parse, a truncation in place and a write. Two rewrites may interleave at
  each of those points and a crash may fall between any two. Correct: nothing is invented, and no
  reader ever takes what it finds for a verified credential that is not one.
* *Preflight.* A result belongs to one credential, and everything may change between the probe, the
  fingerprint, the SELECT and the UPDATE. Correct: a usable capability was verified with what is
  in force; an acknowledged degradation is the one that was shown; a key that just answered
  "usable" is usable; every request ends; the code does not offend its own constraints.
* *Setup state.* Three recorders write columns of the same row, and `read_state` assembles its facts
  from three transactions and two reads of a file, and every save of an API key rewrites the file the mailbox's
  login is in. Correct: no recorder undoes another; the wizard is never reported concluded unless it
  was; a linked step is a verified one, and stays it while others write the file in turn; an
  acknowledgement is recorded once; a skip leaves nothing.
* *Rules.* Two derivations, `pending_step` and `is_complete`, must agree on every input, and embeddings
  must never reopen a concluded first run.
* *Adapters.* Transport failures must not be taken for answers about a credential; a conclusive
  answer is never asked for again, the failure reported is the one that stopped the calls, and every paid
  call leaves its row whatever else fails. An answered request has closed its connection to the mailbox, if
  there was still a server to close it with.
* *Catalogue.* Matrix, directory, prices and factory are kept by hand and filtered in two places: what
  is offered must be served. The criterion behind the matrix is written twice, in the script and
  in the product, and the two must agree.
* *SPA.* The guard latches facts on arrival and reads a cache the mutations invalidate: it must
  neither send the candidate in a circle, nor back, nor past a step; what a screen remembers of a save and what
  the server stores come back in an order nobody chose.

The `hazards` of `PROJECT.json` place each of these at the line where it bites.

## 2. The modules

```
                     SetupRules
      ________________/   |   \____________________________
     |          |                    |                     |
 ProbePort   FirstRun (abstract)  FirstRunGuard          Catalog
     |            ^  refinement       \___________________/
     |            |                             |
     |        SetupState (+ CredentialFile)   Wizard
     |
     |--- Preflight   (+ CredentialFile) --- refinement ---> CapabilityPromise (abstract)
     |--- CapabilityProbe (abstract) <--- refinement --- GoogleProbe
     |--- Replies --- GoogleProbe ----- ProviderVerification
              \------ VerifyProviders ------/
```

`MCPreflight`, `MCSetupState`, `MCProviderVerification` and `MCWizard` instantiate the leaves for TLC;
`SetupRulesProofs`, `PreflightProofs`, `SetupStateProofs`, `GoogleProbeProofs`, `ProviderVerificationProofs`,
`WizardProofs` and, on top of it, `WizardTabProofs` hold the theorems.

**SetupRules** has the derivations as operators over records of facts; an optional fact is a set
with at most one element.

**CredentialFile** is the file as a parse finds it: one value per name. `Replaced` is
`write_credential` between its read and its write, `Truncate` the `open(O_TRUNC)`, `WriteOver` the
write. `Strip` maps what is typed to what a parse gives back, and is where the asymmetry of
`_parse` (it strips) and `write_credential` (it does not) lives. Every writer writes from offset 0 of its own
descriptor, so of a longer body written since the truncation some whole lines can survive below;
`WriteOver` lets any subset of them survive. `splitlines` separators other than line feed and
carriage return, and a tail cut in the middle of a line, are left out.

**Preflight** is one thread per request. The steps of a `PUT` are `Put` (whether the provider is on offer, which is
`Catalog`'s to say and a choice here; the line break; the parse),
`TruncateFile`, `WriteFile`, `Probe`, `DigestCredential` (with `TruncateInstallationKey` and
`WriteInstallationKey` when there is no installation key), `SelectForSave`, `CommitSave`. A read is
`ReadRow`, `ReadCredential`, `DigestCredential`; an acknowledgement is a read, `SelectForAck`,
`CommitAck` and a read again. `Restart` kills all threads and may bring another configured model.
`EditFile` is the candidate editing the file, as its own header invites. An UPDATE and its COMMIT
are one step, because the row is locked in between; a SELECT and the UPDATE after it are two,
because nothing is. `Update` writes a column only if it differs from the loaded one.
A date is named by the request whose clock it was read from; an installation key by the request
that minted it; the HMAC is injective.

**CapabilityPromise** is what the providers step promises about the record of each capability, with no threads, files,
fingerprints or columns: the record is one report of one probe, whole; a new one begins unacknowledged
(`save_preflight`); only a degraded one is acknowledged; nothing is forgotten. `Preflight` implements it under the mapping in its `Promise`:
the record of a capability is its row, with the key that the fingerprint was taken of in its place, and a row that
lost a race (`tainted`) counts as lost until the next preflight that loses none. `Lose` is the price of the missing lock: what such a row holds is
not promised to be anything.

**SetupState** has the same shape for acknowledgement, link, skip and the two reads. Everything that writes
`credentials.env` is in it: a save of the providers step (`SubmitSave`) is there as the rewrite it makes of the whole file,
by the same steps as a link's (`BeginWrite`, `TruncateFile`, `WriteFile`); what it does to its row is `Preflight`. What stays of a
stored preflight is the credential it vouches for (`vouched`), which changes at will (`Reconfigure`), and with it whether a capability
is usable is a matter of the file (`UsableNow`). `MintAgain` is the loss of the installation key, after which no fingerprint matches.
`read_state` is five steps: the row of the first run, and for each capability the row in a transaction (`ReadGenerationRow`,
`ReadEmbeddingsRow`) and then the file it is compared with (`ReadGenerationFile`, `ReadEmbeddingsFile`).
The IMAP exchange is split where the server can fail it: `VerifyLabel` (connection and greeting),
`LogIn`, `ListLabel`, `LogOut`; each lets through what its handlers do, and `Conclude` is the `finally` that holds
an outcome back until goodbye was said or tried. imaplib shuts the socket down only after a LOGOUT that succeeded, and `_close` swallows
one that did not: a connection that broke before, or on which the goodbye fails, is `"lost"` and nothing closes it before the
process ends. `NonAscii` marks the names that imaplib cannot encode.

**FirstRun** is what the disclosure and email steps promise, with no threads, files or rows: one fact changes at a
time; an acknowledgement is of the text in force and never undone; a step is linked only to a
label that was checked; the email step never becomes pending again. `SetupState` implements it under
the mapping in `Promise`.

**ProbePort** is `domain/capability.py` and the probe port: what an attempt may report. `Preflight` is
modelled over it. **CapabilityProbe** is the promise of the port as a specification: asked once, one
report, of a shape allowed for the capability.

**Replies** has the replies of a provider and everything the code reads in one: whether it is a value, the
classification of its error by status or by text, the outcome column of its trace, the expectations an
extraction breaks and the report of the preflight. A message is the set of markers it carries, an
extraction the presence of each field the expectations look at.

**GoogleProbe** is `_with_retries` around the calls of one probe: `Ask`, `Answer` (any reply), `Record` (one sink
of `emit`, in any order, possibly failing), `Conclude` (a value, or the `except` block, `Fail`), `CallAgain`. It implements
`CapabilityProbe` (`KeepsThePort`), which closes the loop with `Preflight`.

**VerifyProviders** reads the same replies as `scripts/verify_providers.py` does, and **ProviderVerification** puts the
two side by side on the reply that decided a probe.

**Catalog** is the matrix, the directory, the prices, the factory and the catalogue service. The matrix is a
parameter: every verification of a provider is an edit of it. `ProviderNotImplementedError` is an empty set. Both readers of the
list are there: what the wizard lists (`OptionsFor`) and what a save accepts (`ResolveOfferable`).

**FirstRunGuard** has the redirects as operators over facts and the arrival latch. **Wizard** is one tab: a
route, the latch, the two queries (state and email) with their fetches and errors, and a flow per click, which goes through
`Serve` (the server answers), `Receive` (the hook's callback), the awaited invalidations, and the `onSuccess` or the next
save (`Conclude`, `NextSave`). `Render` is what a render does: it latches, and a screen that changes forgets its state and
mounts the queries of the next. The server is atomic here: what happens inside a call is `Preflight`
and `SetupState`; that the result is stored with its credential or the credential may be another is what `AfterProbe` takes
from them. A query is read and arrives in one step; the disclosure and catalogue queries are always
answered, and the second await of `useAcknowledgeDisclosure` (of the disclosure) is left out. A reload comes back
to the route it was on or to `/`. Dismissing an unverified capability forgets nothing and is left out.
`Remounts` says whether the router mounts another guard on a change of route. The comment at `FirstRunGuard.tsx:113-114` says it
does; the router of `package.json`, react-router-dom 6.30.4, keeps one instance between sibling routes whose element has the same type, and a
fresh one comes only with a reload or on leaving `/`. All runs have the router as it is (`Remounts = {FALSE}`); the theorems hold for both.

Abstractions common to all: wording, logging and HTTP bodies are left out; responses are told apart
as far as a property needs; one candidate and one implemented provider, as in the code; the two
capabilities and the four names in the file are the real ones; keys, models and labels are model values. An
UPDATE in which no column differs is not sent by SQLAlchemy; here it counts as a commit that
changed nothing, which only makes `raced` true more often for others.

The history variables (`probed`, `agreed`, `raced`, `tainted`, `lone`, `torn`, `verified`, `refused`, `superseded`, `truth`; in the probe
`failures`, in the tab `reused`, `heading`, `crossed`) are read by
properties and never by a guard. `raced` is the definition of *losing a race*: another request
committed on the row since this one read it.

## 3. What TLC checks

Passing runs:

| Run | Instance | Shows |
|---|---|---|
| `preflight_races` | three requests, two keys, embeddings, five outcomes of a probe, two models; 1.2 million states | `TypeOK`, `UsableIsHonestUnlessRaced`, `AckIsInformedUnlessRaced`, `RefusedOnlyIfRaced`: every lie about a credential and every refused write comes from the window between one SELECT and its UPDATE; and `KeepsItsPromise`, the refinement of `CapabilityPromise` |
| `preflight_outside` | two requests, both capabilities, three keys (one in the environment, one with a line break), one edit by hand, fairness; 670 thousand states | `NoUseWithoutProbe`, `EveryRequestEnds`, and `SavedIsUsable` for keys without blanks: a save that had the installation to itself, over whatever an earlier request, a crash or the edit left, is usable if it answered so |
| `setup` | two requests (an acknowledgement, a link, a skip, a read or a save of a key), two texts, a good, a wildcard and an unencodable label, a password with a line break, an API key of embeddings in the environment; 1.2 million states | `TypeOK`, `NullWasComplete` with saves and stored preflights between any two of the five steps of a read, `RefusedOnlyIfRaced`, `ClosedUnlessLost`, `LinkedOnceIsVerified` (the half of `setup_relink` that holds), and `KeepsItsPromise`: the refinement of `FirstRun` |
| `probe` | one probe, every status against up to two markers, every extraction with up to two sorts of job, a sink that works and one that may not, fairness; 730 thousand states | `TypeOK`, `KeepsThePort` (the refinement of `CapabilityProbe`), `EveryCallIsTraced`, `RejectedOnlyIfBlamed`, `NothingCalledInVain`, `ScriptVerifiesTheSame`, `ScriptNamesTheSameFailure`, `EveryProbeEnds` |
| `wizard` | one tab, two calls, a degraded and an unreachable outcome of a probe, a verified and an unverified capability from earlier, an internal error, lost answers, failed refetches, reloads, a verified provider without code, fairness; 350 thousand states | `TypeOK`, `OptionNeverRefused`, `LatestUnlessCrossed`, `SentBackOnlyByOldLatch` (the half of `wizard_sent_back` that holds), `RedirectsSettle`, `EveryClickEnds` |

Runs that find a sentence of the repository violated, each with the shortest instance that shows it:

| Run | Sentence | What happens |
|---|---|---|
| `preflight_padded_key` | "what gets verified is what gets used" (`factory.py:142`) | a key typed with blanks answers usable and reads back as not configured |
| `preflight_other_capability` | a change invalidates "that capability, and only that one" (`preflight_service.py:30`) | two saves at once restore each other's old file |
| `setup_relink` | "A link that was not verified is never recorded" (`email_link_service.py:147`) | a failed second link replaces the login under a step that stays linked |
| `setup_dropped_login` | "No connection says nothing about the password, so it is not reported as a rejection" (`gmail_imap.py:158`) | `IMAP4.abort` is an `IMAP4.error`: a dropped connection is a rejected App Password |
| `wizard_sent_back` | "React Router mounts a fresh guard per route, so moving to another step asks it again" (`FirstRunGuard.tsx:113`), "deja llegar al correo con embeddings sin resolver (FR-010)" (`guard.test.tsx:74`) | a candidate who came back with generation verified and embeddings pending continues to the email step and is sent back by what the kept guard latched on the providers |
| `wizard_taken_away` | "redirect on arrival, never on a change that happens while they stand here" (`FirstRunGuard.tsx:90`) | a candidate who came back with generation usable saves both capabilities; the refetch moves the pending step and the screen is gone before its result is read |
| `wizard_told_apart` | "The five outcomes of a preflight, kept apart" (`PreflightResult.tsx:10`) | a stored rejection or exhausted quota is shown as verified |

`NoUseWithoutProbe` and the `...UnlessRaced` properties are the other half of the findings about the
preflight: they say how far the damage can go. No interleaving, crash or edit makes the application *call usable* a
credential that was never probed for that capability.

**Bounds.** A request is submitted once, so the requests of an instance bound its work; three are what a
lost update needs (a row to lose, a save that reads it, a save that overtakes) while a race on a fresh row, or of two
writers of the file, already happens with two. Two keys tell "the credential in force" from "another"; the third is
the one in the environment or with the line break. Two texts and two models are what a restart needs to
change something. One edit by hand is enough to make a stored digest stale, and `EditFile` may
set any value. Restarts are not bounded. A probe makes its three real attempts; markers matter to the code one by one and by precedence, which pairs
show, and the jobs of an extraction by the second one's fields. `MaxClicks` bounds the calls of one tab. Two are
what a crossing, a bounce or a second refetch needs; a crossing of two saves of one capability, one of them the second half
of a shared key, needs three and is not in the run. The tab starts on any route: of a fresh installation, of one left before the providers, of one left with generation verified, and of one that was concluded and whose provider lost a capability since. A save of this run never comes back verified: what a verified capability does to the tab is met from a start that has one and from an acknowledged degradation. The three violated runs of the tab start where generation was verified, and reloads are not bounded. In `setup`
two requests are a link beside any other writer of the row or of the file. It starts on a fresh installation or on one whose
candidate left after the disclosure, and with the key of embeddings in place, so that a skip, which reads the state itself at
its end, and a save of the other key are what it takes to report a first run concluded on a preflight that is being replaced. The empty list of options, whose preselection is the empty
string and would be refused, is excluded by `Offered` in the proof and by the matrix in the runs. Symmetry is used on requests, and on keys only where no
other constant names one; the runs with a liveness property use none. The refinement in `preflight_races` is safety
alone, a condition on the initial states and on single steps that treats requests and keys alike, and is
checked on one of each class of symmetric states; the theorem `ImplementsCapabilityPromise` needs no symmetry. `CHECK_DEADLOCK FALSE` because the system
comes to rest once every request was submitted and has answered.

**Fairness.** `WF_vars(Advance(r))`: a thread that has been handed a request keeps running until it answers.
FastAPI's pool gives each request a thread for its duration and the code takes no lock that another request
could hold. The model adapter sets no deadline, so for `Probe` the
assumption is that the SDK or the transport eventually gives up; the repository does not guarantee it. There is no fairness on the
submission of requests, the restart or an edit; `~ Running(r)` includes dying with the process. `SetupState` states no fairness: the code of its requests is a straight line and none waits for another, so that
termination would say nothing there. `GoogleProbe` has
`WF_vars(Advance)`: `asyncio.run` gives its only coroutine its turns and the same assumption stands behind the call. `Wizard` has weak
fairness of `Follow` (a rendered `Navigate` navigates), of the progress of each flow, and of the end of each fetch, with an answer or an
error: `Arrive \/ Fail`, never `Arrive` alone. There is none on clicks or reloads.

## 4. What is proved

TLAPS checks these for every value of the constants, from the assumptions named beside
them (`CredentialAssumption`, `OutcomeAssumption`, `PreflightAssumption`, `SetupStateAssumption`, `NoRowAssumption`, `NoKeyYetAssumption`,
`RepliesAssumption`, `ProbeAssumption`, `MatrixAssumption`, `ModelAssumption`, `WizardAssumption`; TLC evaluates them on every run).
What they say of the code is little: a value that stands for "none yet" (`None`, `NoKey`, `NoRow`) is no value of its type, the bounds are numbers,
what is stored is stripped once and for all.

* `SetupRulesProofs`: `NullIffComplete` (`pending_step` is null exactly when the first run is complete, the
  equivalence the HTTP contract promises and no code enforces), `EmbeddingsNeverReopen`,
  `ProvidersOnlyWhileNeeded`.
* `PreflightProofs`: `Invariance` and from it `TypeCorrect`, `UsableIsHonestUnlessRacedHolds`,
  `AckIsInformedUnlessRacedHolds`, `NoUseWithoutProbeHolds`, `RefusedOnlyIfRacedHolds`; `ImplementsCapabilityPromise`, the
  refinement itself; and `SavedIsUsableHolds`, from the hypothesis `Unpadded` that no key is typed with blanks around it.
* `SetupStateProofs`: `Invariance`, `TypeCorrect`, `NullWasCompleteHolds`, `RefusedOnlyIfRacedHolds`,
  `ClosedUnlessLostHolds`, `LinkedOnceIsVerifiedHolds` and `ImplementsFirstRun`, the refinement itself.
* `GoogleProbeProofs`: `InvHolds` and from it `TypeOKHolds`, `KeepsThePortHolds` (the refinement of the port),
  `EveryCallIsTracedHolds`, `RejectedOnlyIfBlamedHolds`, `NothingCalledInVainHolds`, for every reply, sink and set of faulty sinks.
* `ProviderVerificationProofs`: `ScriptVerifiesTheSameHolds`, `ScriptNamesTheSameFailureHolds`, for every reply.
* `WizardProofs`: `FreshRedirectSettles` (for all facts, a guard mounted afresh sends the candidate where the next one keeps
  them), `ListedIsServed` and `OfferableIsPriced` (for every matrix), and `OptionNeverRefusedHolds` (for every number of
  clicks, if each capability has an option).
* `WizardTabProofs`: `Invariance` and from it `TypeOKHolds`, `LatestUnlessCrossedHolds`, `SentBackOnlyByOldLatchHolds`, for every number of
  clicks, every matrix and every set of disclosure texts, under both routers; and `NeverSentBackIfRemounted`: the property that `wizard_sent_back` refutes, from the
  hypothesis that the router does what the comment says.

**The argument for Preflight.** None of the properties is inductive: whether a row is honest depends on what the
request about to write it holds. `Inv` therefore follows a request along its path. `PutInv`: past its
probe a PUT holds the report of that probe and the key it was made with. `ReadInv`: a read holds a
row whose digest is of a probed key, and, until overtaken, the row that is still there. `SaveInv`: a
save that nobody has overtaken holds the current row, so that its column-wise UPDATE is the whole row. `RowInv`: a
stored row is allowed by its constraints, of a probed key, and honest unless tainted. Every step but the two commits
leaves the rows and the other requests alone (`QuietStep`), so each has one lemma about its own request; the
commits have the rest.

**Who ran alone.** `SavedIsUsable` speaks of a save that had the installation to itself since it was submitted: `lone` names the last request
submitted if nothing was running then, and neither an edit of the file nor another request has come since. `LoneInv` says of such a PUT that the file
holds the key it probed from the write on, whatever it held before, that its digest is under the installation key that is stored, and that what it selected is the row,
its own to come or one of an earlier request; `LoneCommit` puts the three together, for the INSERT and for the column-wise UPDATE. `Unpadded` is needed where the file is parsed, and
nowhere else: the run `preflight_padded_key` is what happens without it.
The other parts of the theorem need no hypothesis, and an instance with blanks satisfies all of `Inv`.

**The refinement of CapabilityPromise.** Three steps change what is on record. A probe that was answered adds a report. A save that nobody overtook
writes its own report whole (`AboutToSave`, then `Keep`); an acknowledgement that nobody overtook finds the degraded row it was checked on
and adds itself (`Acknowledge`). A commit that was overtaken finds some row there, which is the half of `SaveInv` about `raced`: it
loses a record that existed, or one that was lost already (`LostIsPromised`). Every other step stutters.

**The argument for SetupState.** `SeenInv` says what a recorder knows between SELECT and UPDATE, and for
`read_state` that an acknowledgement it has seen in force is still in force when it compares generation with the file (a
version only changes with a restart, which kills it) and that its email step was already concluded. Email
never returns to pending, which is why facts read at different instants still add up to
one at which the run was complete. Between the row of generation and its file the preflight that was read is the stored one, or `superseded`: in that
case there may be no such instant (the row read vouches for a key the file does not hold yet, the row is replaced, and then the file gets that key), which is why
`NullWasComplete` leaves it out. Without `superseded` TLC refutes it. For the refinement, `ListIsCheck` and `CommitIsOneFact` map the
two steps that change an abstract fact; every other step stutters.

**The only link.** A link writes two names of the file, each over a parse of its own, asks the mailbox, and records the label over
a row it selected before others may have committed, while saves of API keys rewrite the whole file, the two names included. As long as no two rewrites
overlapped and none was cut short (`~ torn`), one request at most is between its parse and its write (`TornInv`), so that what each writes back of a name that is not its own is what
is stored: `Kept` says so of a value in the file and in the body of the save under way. `LinkInv` follows the only link there is: past its writes both names are
kept as it wrote them, past the check the mailbox has confirmed that login with its label, and a linked row carries that label. Whoever is the only link
after a step was it before (`Moves`). The commits of the others link nothing and, over a stale row, unlink or leave the label
as it is (`OthersLinkNothing`, `OthersKeepLink`), because `Update` touches only the columns that differ. A second link breaks the first clause at
once, which is the run `setup_relink`; rewrites that do overlap lose a name, which is the run `preflight_other_capability`.

**The argument for GoogleProbe.** `Inv` says where the probe is in its attempt (`PhaseInv`), that every attempt that
concluded has its one row in each working sink (`TraceInv`), and that the report is the reading of the last reply. The
classification of an error and the outcome of its trace are two readings of one exception; that they agree on what is an
answer outside the schema is a lemma about operators. The script theorems need the same invariant and that the two lists of expectations are one.

**The argument for Wizard.** `OptionNeverRefused` rests on `Flows`: every save still to be sent was chosen among what the
screen offers, for every click. A save is served because both sides filter with `ImplementedAndOfferable`.

`SentBackOnlyByOldLatch` and `LatestUnlessCrossed` need to know what a tab may hold while calls are in flight. `LatchInv`: the guard has latched as
soon as it had an answer, so what it decides is a function of route, latch and cache. `HereInv`: a
flow whose callbacks still run belongs to the screen in front of the candidate, because whatever replaces the screen orphans it. `EffectInv`: a
call that succeeded has had its effect on the facts, and once the refetch it awaits has ended with its screen still there, the cache knows
of that effect; a failed refetch replaces the screen, which is why the clause asks for `here`. `HeadingInv` is then
the property before the step: unless `Outdated`, the guard does not redirect to the route whose button sent the candidate on. A new guard does not, given what the tab knows, and
one that was kept and latched a step that was not done sends nowhere that a new one would not (`KeptGuard`): on a first run, where each step is arrived at before it is done, the
kept guard is harmless, and it is a candidate who comes back that it sends back (`wizard_sent_back`). `SavesInv`: two saves of one capability in flight have crossed, and
otherwise nothing is remembered of a capability being saved, so that what is remembered next is the answer of this save. The proof
has one lemma per action; `StandKeeps`, `RenderKeeps` and `GoKeeps` are shared by all the actions that end in a render of the same screen, of
any screen, or of the next one. Of a minimum over unused clicks the proof needs that it exists, which is `MinIsUnused`, from the well-foundedness of the naturals.

**Only model-checked.** `EveryRequestEnds`, `EveryProbeEnds`, `RedirectsSettle` and `EveryClickEnds`: liveness under fairness is out of
TLAPS's reach. And the properties of the violated runs, which are false. Every safety property of a passing run
is a theorem.

## 5. What the models do not say

Observed in the code, listed as hazards, and not stated as properties of a run:

* two saves of one capability that overlap merge column by column into a row neither asked for, the
  result of one beside the fingerprint of another (`preflight_service.py:304-308` says such a row "would be a result that
  lies"), and an acknowledgement may be stamped on a preflight nobody saw
  (`provider_configuration_repository.py:54`). The `...UnlessRaced` properties are their complement: without
  `~ tainted` and `~ raced` TLC refutes both;
* a skip leaves the App Password of an earlier attempt in `credentials.env`, against `email_link_service.py:174-176`;
* two tabs may both record an acknowledgement, the second over the date of the first (`domain/errors.py:97`);
* the stored preflight does not follow the configured model: `_credential_still_matches` compares only the
  fingerprint, while `specs/001-candidate-onboarding/research.md:492` would have a change of provider or
  model invalidate it;
* `IMAP4.abort`, while the server greets, is caught by nothing (`gmail_imap.py:157`): an internal error;
* no code registers a trace sink, so `llm_call_logs` stays empty (`tracing.py:99`);
* two of the five expectations hold of an extraction without the second job. `PreflightWorkExperience` makes the company
  required so that a job cannot lose its name (`schemas.py:35-40`), but a list without that job still passes;
* on an error whose status is only in its text the script says "sin respuesta" where the product names the failure, although
  `verify_providers.py:230-231` asks for both to agree. `ScriptNamesTheSameFailure` is about the rest;
* the guard that the router keeps sends nobody in a circle (`RedirectsSettle`), because in a tab that arrives when the first run is over nothing asks for the state
  again. TanStack Query also refetches when the browser comes back online (`main.tsx:23` turns off only the refetch on focus); that is
  not modelled, and with it a kept guard that latched a concluded first run could send on for ever between `/onboarding` and a step;
* continuing from the confirmation of a link before the state was refetched (`useEmailStep.ts:51-54`) meets a guard that
  does not know of it yet and sends the candidate back; `SentBackOnlyByOldLatch` is not about that button;
* a goodbye that the mailbox does not answer leaves the socket to the collector (`gmail_imap.py:191-193`): `ClosedUnlessLost` says after which exchanges;
* nothing compares a linked step with the file: what `LinkedOnceIsVerified` leaves out (rewrites that overlap, a crash between a truncation and its write, the moment of a
  rewrite) the application does not notice either.

Not modelled: the profile tables (nothing writes them yet), the Celery application (no tasks),
health checks and log redaction (no state), the startup (migrations, then one process), `forget_credential` (no caller), the
sample and the clients of the verification script, styling and wording of the SPA.

## 6. Plan

Done, in this order because everything else reads what they store: `SetupRules`, `CredentialFile`,
`Preflight`, `SetupState`, `FirstRun`; then `ProbePort` and `CapabilityProbe`, `Replies`, `GoogleProbe`,
`VerifyProviders`, the mailbox exchange in `SetupState`, `Catalog`, `FirstRunGuard`, `Wizard`, `CapabilityPromise`, with their proofs. Left:

1. The replies of `AfterProbe` in `Wizard` taken over from `CapabilityPromise`, with `Degraded` and `Kept` as they are here, so that
   the tab is modelled over the promise of the server as `Preflight` is over the port.
2. The startup and the data directory, if they come to decide something.

## 7. Running it

```
tlc -workers 2 -config preflight_races.cfg MCPreflight      # any run: its cfg and its MC module
tlapm PreflightProofs.tla                                   # any *Proofs module
```

Each property of a passing run has a *slip*, an operator named `Slip...` beside the definition it
stands in for, that a plausible mistake in that code would turn it into; with it TLC refutes the property.
`PROJECT.json` lists runs, slips, the lines each definition translates, hazards, findings and theorems.
