-------------------------------- MODULE Wizard ---------------------------------
(***************************************************************************)
(* One tab of the SPA running the first run: the router and the guard      *)
(* (routes/), the two queries whose answers it caches, the three screens   *)
(* (features/setup/) and the calls they make, against the facts the server *)
(* keeps.  The server answers each call in one step here; what happens     *)
(* inside that step is Preflight and SetupState.                           *)
(***************************************************************************)
EXTENDS FirstRunGuard, Catalog, Naturals, Sequences, FiniteSetsExt

CONSTANTS Version,     \* texts of the disclosure
          Start,       \* the facts a tab may be opened on
          Outcome,     \* what a probe may come back with
          Remounts,    \* whether the router mounts another guard when the route changes
          MaxClicks,   \* bound on the calls one tab makes
          None

VARIABLES
    facts,     \* what the server would answer to GET /state, and to GET /email
    route,     \* where the tab is
    arrival,   \* the ref of the guard: what was true when the candidate arrived
    cache,     \* the two queries of this tab
    flow,      \* flow[n] is what the nth click set going
    latest,    \* the last flow to send a save from this screen, 0 once it ended
    failures,  \* the failed save the providers screen remembers of each capability
    reused,    \* history: the guard stood in front of another route before this one
    heading,   \* history: the screen whose button sent the candidate on
    crossed    \* history: capabilities with two saves of this screen in flight at once

tab     == <<route, arrival, cache, flow, latest, failures>>
history == <<reused, heading, crossed>>
vars    == <<facts, tab, history>>

Query == {"state", "email"}

NoFailure == [c \in Capability |-> None]

\* The codes the PUT may answer, success, any other error of the API, and no answer at all.
Answer == {"ok", "PROVIDER_CREDENTIAL_REJECTED", "PROVIDER_QUOTA_EXCEEDED",
           "PROVIDER_UNREACHABLE", "MODEL_NOT_AVAILABLE", "PROVIDER_NOT_OFFERED",
           "refused", "lost"}

\* The three results that do not allow progress leave as errors.
CodeOf(outcome) ==
    CASE outcome = "credential_rejected" -> "PROVIDER_CREDENTIAL_REJECTED"
      [] outcome = "quota_exceeded" -> "PROVIDER_QUOTA_EXCEEDED"
      [] outcome = Unreachable -> "PROVIDER_UNREACHABLE"
      [] outcome = "model_not_available" -> "MODEL_NOT_AVAILABLE"
      [] OTHER -> "ok"

Click == 1..MaxClicks

\* What a click set going: what it asks for, the capabilities still to save (with the
\* provider chosen for each), how far it is, and whether its screen is still mounted.
Flow == [kind : {"acknowledge", "configure", "degrade", "link", "skip", "over"},
         saves : Seq([capability : Capability, provider : Provider \cup {""}]),
         phase : {"sent", "answered", "email", "state", "done", "orphan"},
         fetched : BOOLEAN, answer : Answer \cup {None}, here : BOOLEAN]

ASSUME WizardAssumption ==
    /\ Start \subseteq SetupFacts(Version)
    /\ Outcome \subseteq Result \cup {Unreachable, "model_not_available"}
    /\ Remounts \subseteq BOOLEAN
    /\ MaxClicks \in Nat
    /\ None \notin Flow /\ None \notin Answer /\ None \notin Route

\* All that is left of a flow that ended.
Over == [kind |-> "over", saves |-> <<>>, phase |-> "done", fetched |-> FALSE,
         answer |-> None, here |-> FALSE]

Busy(n) == flow[n] # None /\ flow[n].phase \notin {"done", "orphan"}

(* ------------------------------- the screens ----------------------------- *)

\* Where the guard of r, with the arrival in a and the queries in c, sends the candidate.
RedirectOn(r, a, c) ==
    IF c["state"].failed THEN {} ELSE UNION {RedirectOf(r, seen, a) : seen \in c["state"].data}

\* The page on screen: a guard with no answer, an error or a redirect shows none.
Page(r, a, c) ==
    IF c["state"].data = {} \/ c["state"].failed \/ RedirectOn(r, a, c) # {} THEN None ELSE r

Showing(r) == Page(route, arrival, cache) = r

Seen == CHOOSE seen \in cache["state"].data : TRUE

ConfigurationOf(c, seen) == IF c = "generation" THEN seen.generation ELSE seen.embeddings

\* viewOfError: a code that is no result of a preflight shows nothing.
ViewOfError(code) ==
    CASE code \in {"PROVIDER_CREDENTIAL_REJECTED", "MODEL_NOT_AVAILABLE"} -> "credential_rejected"
      [] code = "PROVIDER_QUOTA_EXCEEDED" -> "quota_exceeded"
      [] code = "PROVIDER_UNREACHABLE" -> "provider_unreachable"
      [] OTHER -> None

\* viewOfConfiguration: what is not unverified is verified.
ViewOfConfiguration(configuration) ==
    IF configuration.result = "capability_unverified" THEN "capability_unverified" ELSE "verified"

\* What the providers screen shows of a capability: the failed save it remembers, or
\* else what is stored.
View(c) ==
    IF failures[c] # None THEN ViewOfError(failures[c])
    ELSE IF ConfigurationOf(c, Seen) = {} THEN None
    ELSE ViewOfConfiguration(CHOOSE stored \in ConfigurationOf(c, Seen) : TRUE)

(* ------------------------- the queries and the guard --------------------- *)

\* A fetch with nothing to show goes back to pending.
Fetching(c, q) ==
    [c EXCEPT ![q].fetching = TRUE, ![q].failed = @ /\ c[q].data # {}]

\* Whoever awaited the fetch of q goes on when it ends; when another replaced it, they
\* await the other (query-core 5.101: a silent cancellation piggybacks on the new fetch).
Release(fl, q) ==
    [n \in Click |-> IF fl[n] # None /\ fl[n].phase = q THEN [fl[n] EXCEPT !.fetched = TRUE]
                     ELSE fl[n]]

\* The first render that has an answer latches what was true on arrival.
Latched(r, a, c) ==
    IF a = {} /\ r \in Step /\ ~ c["state"].failed
    THEN {ArrivalAt(r, seen) : seen \in c["state"].data} ELSE a

\* A render: r is the route, a the ref of its guard, c the queries, fl the flows.  The
\* screen that leaves forgets its state and its callbacks; the one that comes asks
\* its queries again, because cached data is stale at once.
Render(r, a, c, fl) ==
    LET latched == Latched(r, a, c)
        page    == Page(r, latched, c)
        another == page # Page(route, arrival, cache)
    IN  /\ route' = r
        /\ arrival' = latched
        /\ cache' = IF another /\ page = "email" THEN Fetching(c, "email")
                    ELSE IF another /\ page = "providers" THEN Fetching(c, "state")
                    ELSE c
        /\ IF another
           THEN /\ flow' = [n \in Click |-> IF fl[n] = None THEN None
                                            ELSE [fl[n] EXCEPT !.here = FALSE]]
                /\ failures' = NoFailure
                /\ crossed' = {}
                /\ latest' = 0
           ELSE flow' = fl /\ UNCHANGED <<failures, crossed, latest>>

\* A navigation inside the tab.  A new guard subscribes to the state again; one that
\* the router keeps goes on with the arrival it latched, and with the answers it has.
\* `/` has a component of its own.
Go(r, fl) ==
    \E fresh \in IF route = "entry" THEN {TRUE} ELSE Remounts :
        /\ Render(r, IF fresh THEN {} ELSE arrival,
                  IF fresh THEN Fetching(cache, "state") ELSE cache, fl)
        /\ reused' = ~ fresh

\* navigate(): a push, decided by the page on screen.
Push(r, fl) == Go(r, fl) /\ heading' = {route}

(* -------------------------------- the clicks ----------------------------- *)

Unused == {n \in Click : flow[n] = None}

\* useMutation: a click sends a call.
Send(kind, saves) ==
    /\ Unused # {}
    /\ flow' = [flow EXCEPT ![Min(Unused)] =
          [kind |-> kind, saves |-> saves, phase |-> "sent", fetched |-> FALSE,
           answer |-> None, here |-> TRUE]]

Awaiting(kind) == \E n \in Click : Busy(n) /\ flow[n].kind = kind /\ flow[n].here

\* The checkbox starts false and must be ticked, then the button pressed.
Acknowledge ==
    /\ Showing("disclosure") /\ ~ Awaiting("acknowledge")
    /\ Send("acknowledge", <<>>)
    /\ UNCHANGED <<facts, route, arrival, cache, latest, failures, history>>

\* c, if this screen already has a save of it in flight.
Crossing(c) ==
    {x \in {c} : \E n \in Click : /\ Busy(n) /\ flow[n].kind = "configure" /\ flow[n].here
                                  /\ Head(flow[n].saves).capability = x}

\* Slip: the failure of the last save stays until it is dismissed.
SlipForgotten(remembered, c) == remembered

\* submit() reaches a capability: the failure it had is forgotten.
Forgotten(remembered, c) == [remembered EXCEPT ![c] = None]

Submit(saves) ==
    LET c == Head(saves).capability
    IN  /\ Send("configure", saves)
        /\ latest' = Min(Unused)
        /\ failures' = Forgotten(failures, c)
        /\ crossed' = crossed \cup Crossing(c)
        /\ UNCHANGED <<facts, route, arrival, cache, reused, heading>>

\* providerOf: an option on screen, or whatever is preselected.
Choice(c) == {o.provider : o \in OptionsFor(c)} \cup Suggested(OptionsFor(c))

Save(c, p) == [capability |-> c, provider |-> p]

\* One key when both capabilities have the same provider, and one button for both; the
\* buttons wait for the last save that was sent.
Verify ==
    /\ Showing("providers")
    /\ latest = 0
    /\ \E p \in Choice("generation"), q \in Choice("embeddings") :
          IF p = q THEN Submit(<<Save("generation", p), Save("embeddings", q)>>)
          ELSE Submit(<<Save("generation", p)>>) \/ Submit(<<Save("embeddings", q)>>)

\* A result with its own button, which waits for nobody.
Retry(c) ==
    /\ Showing("providers") /\ View(c) = "provider_unreachable"
    /\ \E p \in Choice(c) : Submit(<<Save(c, p)>>)

\* On an unverified capability the button has nothing to forget.
ChangeProvider(c) ==
    /\ Showing("providers") /\ View(c) = "quota_exceeded"
    /\ failures' = [failures EXCEPT ![c] = None]
    /\ UNCHANGED <<facts, route, arrival, cache, flow, latest, history>>

AcknowledgeDegradation(c) ==
    /\ Showing("providers") /\ View(c) = "capability_unverified" /\ ~ Awaiting("degrade")
    /\ \A stored \in ConfigurationOf(c, Seen) : ~ stored.degradation_acknowledged
    /\ Send("degrade", <<Save(c, "")>>)
    /\ UNCHANGED <<facts, route, arrival, cache, latest, failures, history>>

\* Generation, and only generation, opens the next step.
Continue ==
    /\ Showing("providers") /\ SomeUsable(Seen.generation)
    /\ Push("email", flow)
    /\ UNCHANGED facts

\* The email screen renders once its own query has answered.
Deciding == Showing("email") /\ cache["email"].data # {} /\ ~ cache["email"].failed

\* Both buttons wait for whichever of the two calls was made.
Offering == /\ Deciding /\ "linked" \notin cache["email"].data
            /\ ~ Awaiting("link") /\ ~ Awaiting("skip")

\* The form, complete.
Link ==
    /\ Offering
    /\ Send("link", <<>>)
    /\ UNCHANGED <<facts, route, arrival, cache, latest, failures, history>>

Skip ==
    /\ Offering
    /\ Send("skip", <<>>)
    /\ UNCHANGED <<facts, route, arrival, cache, latest, failures, history>>

\* Continuing from the confirmation of a link, which nothing disables.
Finish ==
    /\ Deciding /\ "linked" \in cache["email"].data
    /\ Go("onboarding", flow)
    /\ heading' = {}
    /\ UNCHANGED facts

(* -------------------------------- the server ----------------------------- *)

Reply(f, answer) == [facts |-> f, answer |-> answer]

Stored(f, c, optional) ==
    IF c = "generation" THEN [f EXCEPT !.generation = optional] ELSE [f EXCEPT !.embeddings = optional]

\* Slip: a call that got no answer is stored like a result.
SlipRepliesToSave(c, p) ==
    {Reply(Stored(facts, c, {[result |-> o, credential_matches |-> TRUE,
                              degradation_acknowledged |-> FALSE]}), CodeOf(o)) : o \in Outcome}

\* A result is stored beside its credential, whatever it says; without one the key was
\* stored all the same, and may not be the one that was probed.
AfterProbe(c, outcome) ==
    IF outcome \in Result
    THEN {{[result |-> outcome, credential_matches |-> TRUE, degradation_acknowledged |-> FALSE]}}
    ELSE {{[x EXCEPT !.credential_matches = same] : x \in ConfigurationOf(c, facts)} :
            same \in BOOLEAN}

\* PUT, which may also fail for a reason of its own once the key was stored.
RepliesToSave(c, p) ==
    IF ResolveOfferable(p, c) = {} THEN {Reply(facts, "PROVIDER_NOT_OFFERED")}
    ELSE {Reply(Stored(facts, c, optional), "refused") : optional \in AfterProbe(c, Unreachable)}
         \cup (UNION {{Reply(Stored(facts, c, optional), CodeOf(o)) : optional \in AfterProbe(c, o)} :
                       o \in Outcome})

RepliesToDegrade(c) ==
    IF \E x \in ConfigurationOf(c, facts) : x.result = "capability_unverified"
    THEN {Reply(Stored(facts, c, {[x EXCEPT !.degradation_acknowledged = TRUE] :
                                  x \in ConfigurationOf(c, facts)}), "ok")}
    ELSE {Reply(facts, "refused")}

RepliesToAcknowledge ==
    IF DisclosureAcknowledged(facts) THEN {Reply(facts, "refused")}
    ELSE {Reply([facts EXCEPT !.acknowledged = {facts.current}], "ok")}

Replies(n) ==
    CASE flow[n].kind = "configure" -> RepliesToSave(Head(flow[n].saves).capability,
                                                     Head(flow[n].saves).provider)
      [] flow[n].kind = "degrade" -> RepliesToDegrade(Head(flow[n].saves).capability)
      [] flow[n].kind = "acknowledge" -> RepliesToAcknowledge
      [] flow[n].kind = "link" -> {Reply([facts EXCEPT !.email = "linked"], "ok"),
                                   Reply(facts, "refused")}
      [] flow[n].kind = "skip" -> {Reply([facts EXCEPT !.email = "skipped"], "ok")}

\* The answer may be lost, after the fact or before it.
Serve(n) ==
    /\ flow[n] # None /\ flow[n].phase \in {"sent", "orphan"}
    /\ \E r \in Replies(n) \cup {Reply(facts, "lost")}, lost \in BOOLEAN :
          /\ facts' = r.facts
          /\ flow' = [flow EXCEPT ![n] =
                IF @.phase = "orphan" THEN Over
                ELSE [@ EXCEPT !.phase = "answered", !.answer = IF lost THEN "lost" ELSE r.answer]]
    /\ UNCHANGED <<route, arrival, cache, latest, failures, history>>

(* ---------------------------- the answers arrive ------------------------- *)

\* Slip: the state is not refetched before the screen goes on.
SlipInvalidate(n, q) ==
    /\ cache' = Fetching(cache, q)
    /\ flow' = [flow EXCEPT ![n].phase = q, ![n].fetched = TRUE]

\* invalidateQueries: a query on screen is fetched again, in place of a fetch in
\* flight, and awaited; the email query off screen is only marked.
Invalidate(n, q) ==
    LET active == q = "state" \/ Showing("email")
    IN  /\ cache' = IF active THEN Fetching(cache, q) ELSE cache
        /\ flow' = [flow EXCEPT ![n].phase = q, ![n].fetched = ~ active]

Ended(n) == [flow EXCEPT ![n] = Over]

\* onSettled of the two provider hooks, onSuccess of the other three.
Receive(n) ==
    /\ flow[n] # None /\ flow[n].phase = "answered"
    /\ IF flow[n].kind \in {"configure", "degrade"} THEN Invalidate(n, "state")
       ELSE IF flow[n].answer # "ok"
            THEN flow' = Ended(n) /\ UNCHANGED cache
            ELSE Invalidate(n, IF flow[n].kind = "acknowledge" THEN "state" ELSE "email")
    /\ UNCHANGED <<facts, route, arrival, latest, failures, history>>

\* After the email query, the state.
InvalidateState(n) ==
    /\ flow[n] # None /\ flow[n].phase = "email" /\ flow[n].fetched
    /\ Invalidate(n, "state")
    /\ UNCHANGED <<facts, route, arrival, latest, failures, history>>

Awaited(n) == flow[n] # None /\ flow[n].phase = "state" /\ flow[n].fetched

\* mutateAsync comes back to submit(): an answer of the API is remembered as a failure,
\* a call that never got one is not; then the next capability.
NextSave(n) ==
    LET c    == Head(flow[n].saves).capability
        rest == Tail(flow[n].saves)
        sent == [flow EXCEPT ![n].phase = "sent", ![n].saves = rest, ![n].fetched = FALSE,
                             ![n].answer = None]
        kept == IF flow[n].answer \in {"ok", "lost"} THEN failures
                ELSE [failures EXCEPT ![c] = flow[n].answer]
        next == Head(rest).capability
    IN  /\ Awaited(n) /\ flow[n].kind = "configure"
        /\ flow' = IF rest = <<>> THEN Ended(n) ELSE sent
        /\ IF ~ flow[n].here THEN UNCHANGED <<failures, latest, crossed>>
           ELSE IF rest = <<>>
                THEN /\ failures' = kept
                     /\ latest' = IF latest = n THEN 0 ELSE latest
                     /\ UNCHANGED crossed
           ELSE /\ failures' = Forgotten(kept, next)
                /\ latest' = n
                /\ crossed' = crossed \cup Crossing(next)
        /\ UNCHANGED <<facts, route, arrival, cache, reused, heading>>

\* The callbacks of mutate() run only for a screen that is still there.
Conclude(n) ==
    /\ Awaited(n) /\ flow[n].kind # "configure"
    /\ IF flow[n].here /\ flow[n].kind \in {"acknowledge", "skip"}
       THEN Push(IF flow[n].kind = "skip" THEN "onboarding" ELSE "providers", Ended(n))
       ELSE /\ flow' = Ended(n)
            /\ UNCHANGED <<route, arrival, cache, latest, failures, history>>
    /\ UNCHANGED facts

\* Slip: a fetch that fails leaves whoever awaits it waiting.
SlipFail(q) ==
    /\ cache[q].fetching
    /\ Render(route, arrival, [cache EXCEPT ![q].failed = TRUE, ![q].fetching = FALSE], flow)
    /\ UNCHANGED <<facts, reused, heading>>

\* The answer of a query: it is read and it arrives in one step.
Arrive(q) ==
    /\ cache[q].fetching
    /\ Render(route, arrival,
              [cache EXCEPT ![q] = [data |-> {IF q = "state" THEN facts ELSE facts.email},
                                    failed |-> FALSE, fetching |-> FALSE]],
              Release(flow, q))
    /\ heading' = IF q = "state" THEN {} ELSE heading
    /\ UNCHANGED <<facts, reused>>

\* retry: false, and the data it had is kept beside the error.
Fail(q) ==
    /\ cache[q].fetching
    /\ Render(route, arrival, [cache EXCEPT ![q].failed = TRUE, ![q].fetching = FALSE],
              Release(flow, q))
    /\ UNCHANGED <<facts, reused, heading>>

(* ------------------------------ the navigation --------------------------- *)

Follow ==
    /\ \E r \in RedirectOn(route, arrival, cache) : Go(r, flow)
    /\ heading' = {}
    /\ UNCHANGED facts

NoAnswer == [data |-> {}, failed |-> FALSE, fetching |-> FALSE]

\* A tab just opened: the guard asks for the state.
Unasked == [q \in Query |-> [NoAnswer EXCEPT !.fetching = q = "state"]]

\* F5, or the app opened again at its address: nothing of the tab survives, and what it
\* had sent may still be served.
Reload ==
    /\ route' \in {route, "entry"}
    /\ arrival' = {} /\ cache' = Unasked /\ latest' = 0 /\ failures' = NoFailure
    /\ reused' = FALSE /\ heading' = {} /\ crossed' = {}
    /\ flow' = [n \in Click |->
          IF flow[n] = None THEN None
          ELSE IF flow[n].phase \in {"sent", "orphan"}
               THEN [flow[n] EXCEPT !.here = FALSE, !.phase = "orphan"]
               ELSE Over]
    /\ UNCHANGED facts

Init ==
    /\ facts \in Start
    /\ route \in Route
    /\ arrival = {} /\ cache = Unasked /\ latest = 0 /\ failures = NoFailure
    /\ reused = FALSE /\ heading = {} /\ crossed = {}
    /\ flow = [n \in Click |-> None]

\* One of them at most is enabled for a flow.
Progress(n) == Serve(n) \/ Receive(n) \/ InvalidateState(n) \/ NextSave(n) \/ Conclude(n)

Next ==
    \/ Acknowledge \/ Verify \/ Continue \/ Link \/ Skip \/ Finish
    \/ \E c \in Capability : Retry(c) \/ ChangeProvider(c) \/ AcknowledgeDegradation(c)
    \/ \E n \in Click : Progress(n)
    \/ \E q \in Query : Arrive(q) \/ Fail(q)
    \/ Follow \/ Reload

Spec == Init /\ [][Next]_vars

\* The server answers every call, a fetch ends, and the tab goes on with what arrived.
Fairness ==
    /\ WF_vars(Follow)
    /\ \A n \in Click : WF_vars(Progress(n))
    /\ \A q \in Query : WF_vars(Arrive(q) \/ Fail(q))

FairSpec == Spec /\ Fairness

(* ------------------------------ the properties --------------------------- *)

TypeOK ==
    /\ facts \in SetupFacts(Version)
    /\ route \in Route /\ heading \subseteq Route
    /\ \A was \in arrival : was \in Arrival
    /\ \A seen \in cache["state"].data : seen \in SetupFacts(Version)
    /\ cache["email"].data \subseteq EmailStatus
    /\ \A n \in Click : flow[n] # None => flow[n] \in Flow
    /\ latest \in Click \cup {0}
    /\ \A c \in Capability : failures[c] \in Answer \cup {None}
    /\ reused \in BOOLEAN /\ crossed \subseteq Capability

\* The guard stands in front of another route than the one it arrived at, and what it
\* latched there was a step already done.
Outdated == reused /\ \E was \in arrival : was.finished \/ was.satisfied

\* "React Router mounts a fresh guard per route, so moving to another step asks it again"
\* (FirstRunGuard.tsx:113-114): no guard sends the candidate back to the screen whose
\* button sent them on, on what the tab knew then.
NeverSentBack == [][Follow => route' \notin heading]_vars

\* "The mutation awaits its own invalidation, so by the time this runs the guard on the
\* next step already sees the acknowledgement and will not bounce back"
\* (DisclosureScreen.tsx:24-25), for every way a screen sends the candidate on: they are
\* sent back at once only by a guard that still holds that an earlier step was done when
\* they arrived at it.  Not claimed of the confirmation of a link, whose button works
\* while the state is still being refetched (useEmailStep.ts:51-54).
SentBackOnlyByOldLatch == [][Follow => route' \notin heading \/ Outdated]_vars

\* What the screen remembers of a capability is the answer to the save that came back
\* last, unless two saves of it were in flight at once: the buttons under a result do
\* not wait (PreflightResult.tsx:195) and a success does not erase
\* (ProvidersScreen.tsx:89-104).
LatestUnlessCrossed ==
    [][\A n \in Click : NextSave(n) /\ flow[n].here =>
          LET c == Head(flow[n].saves).capability
          IN  failures'[c] \in {None, flow[n].answer} \/ c \in crossed]_vars

\* FR-009: what the wizard lists, or preselects, can be configured; no save of an option
\* on screen is refused as not offered (preflight_service.py:157-168).
OptionNeverRefused ==
    \A n \in Click : flow[n] # None => flow[n].answer # "PROVIDER_NOT_OFFERED"

\* Wherever the candidate arrives, the guards stop sending them on and there is no circle
\* (/onboarding sends to what is pending, and a step already done sends away from it),
\* also with the one guard the router keeps and what it holds of an earlier step.
RedirectsSettle ==
    (RedirectOn(route, arrival, cache) # {}) ~> (RedirectOn(route, arrival, cache) = {})

\* Every button a click disabled is released, whatever became of the call and of the
\* refetch it awaits.
EveryClickEnds == \A n \in Click : Busy(n) ~> ~ Busy(n)

\* "redirect on arrival, never on a change that happens while they stand here"
\* (FirstRunGuard.tsx:90-91): nothing that comes back takes away the screen they see,
\* unless what that step needs is gone.
NeverTakenAway ==
    [][\A r \in Step : Showing(r) /\ route' = r =>
          \/ RedirectOn(route, arrival, cache)' = {}
          \/ \E seen \in cache["state"].data' : PrerequisiteOf(r, seen) # {}]_vars

\* "The five outcomes of a preflight, kept apart because they are five situations"
\* (PreflightResult.tsx:10): a capability is shown as verified only if it is.
ToldApart ==
    Showing("providers") => \A c \in Capability :
        View(c) = "verified" => \A stored \in ConfigurationOf(c, Seen) : stored.result = "verified"
===============================================================================
