---------------------------- MODULE WizardTabProofs ----------------------------
(***************************************************************************)
(* What one tab keeps for every matrix, every text of the disclosure and   *)
(* any number of clicks: the types of its state, what the providers screen *)
(* remembers of a save, and that no screen sends the candidate on to be    *)
(* sent back.                                                              *)
(***************************************************************************)
EXTENDS WizardProofs, WellFoundedInduction

(* ------------------------------ the invariant ---------------------------- *)

QueryOf(S) == [data : Optional(S), failed : BOOLEAN, fetching : BOOLEAN]

Cache == {c \in [Query -> QueryOf(SetupFacts(Version)) \cup QueryOf(EmailStatus)] :
             c["state"] \in QueryOf(SetupFacts(Version)) /\ c["email"] \in QueryOf(EmailStatus)}

\* TypeOK, with the domains of the functions and one answer at most in each query.
Typed ==
    /\ facts \in SetupFacts(Version)
    /\ route \in Route /\ heading \subseteq Route
    /\ arrival \in Optional(Arrival)
    /\ cache \in Cache
    /\ flow \in Flows
    /\ latest \in Click \cup {0}
    /\ failures \in [Capability -> Answer \cup {None}]
    /\ reused \in BOOLEAN /\ crossed \subseteq Capability

\* The guard has latched as soon as it had an answer.
LatchInv == arrival = Latched(route, arrival, cache)

ScreenOf(kind) ==
    CASE kind = "acknowledge" -> "disclosure"
      [] kind \in {"configure", "degrade"} -> "providers"
      [] kind \in {"link", "skip"} -> "email"
      [] OTHER -> None

\* A flow whose callbacks still run belongs to the screen in front of the candidate.
HereInv == \A n \in Click :
    flow[n] # None /\ flow[n].here => ScreenOf(flow[n].kind) = route /\ Showing(route)

\* Flow f is saving c from the screen in front of the candidate.
Saving(f, c) == /\ f # None /\ f.kind = "configure" /\ f.here
                /\ f.phase \notin {"done", "orphan"} /\ Head(f.saves).capability = c

\* Two saves of one capability at once have crossed, and what was remembered of a
\* capability was forgotten when its save was sent.
SavesInv == \A n \in Click, c \in Capability : Saving(flow[n], c) =>
    /\ \A m \in Click \ {n} : Saving(flow[m], c) => c \in crossed
    /\ failures[c] = None \/ c \in crossed

\* What a successful call of this kind has made true of the facts.
Effected(kind, f) ==
    /\ kind = "acknowledge" => DisclosureAcknowledged(f)
    /\ kind = "skip" => f.email # "pending"

\* What was latched in a is a step already done.
Done(a) == \E was \in a : was.finished \/ was.satisfied

\* What is so of a flow while the facts are f and the state the tab knows is in data: a
\* call that succeeded has had its effect, only such a call awaits a refetch, and once
\* the refetch of the state ended the tab knows of the effect.
Told(fl, f, data) == (fl # None /\ fl.kind \in {"acknowledge", "skip"}) =>
    /\ fl.phase \in {"email", "state"} => fl.answer = "ok"
    /\ fl.phase \in {"answered", "email", "state"} /\ fl.answer = "ok" => Effected(fl.kind, f)
    /\ fl.phase = "state" /\ fl.fetched /\ fl.here => \A seen \in data : Effected(fl.kind, seen)

EffectInv == \A n \in Click : Told(flow[n], facts, cache["state"].data)

\* Until it is told otherwise, a guard that holds nothing of an earlier step does not
\* send back to the screen that sent on.
HeadingInv == Outdated \/ heading \cap RedirectOn(route, arrival, cache) = {}

Inv == Typed /\ LatchInv /\ HereInv /\ SavesInv /\ EffectInv /\ HeadingInv

(* --------------------------- queries and screens ------------------------- *)

LEMMA MinIsUnused == Unused # {} => Min(Unused) \in Unused
<1> SUFFICES ASSUME Unused # {} PROVE Min(Unused) \in Unused
  OBVIOUS
<1>1. Unused \subseteq Nat
  BY DEF Unused, Click
<1> DEFINE Below == OpToRel(<, Nat)
<1>2. ASSUME NEW x \in Nat, NEW y \in Nat, y < x PROVE <<y, x>> \in Below
  BY <1>2, Zenon DEF OpToRel
<1>3. IsWellFoundedOn(Below, Nat)
  BY NatLessThanWellFounded
<1> HIDE DEF Below
<1>4. PICK x \in Unused : \A y \in Unused : <<y, x>> \notin Below
  BY <1>1, <1>3, WFMin
<1>5. ASSUME NEW y \in Unused PROVE x <= y
  <2>1. x \in Nat /\ y \in Nat
    BY <1>1
  <2>2. ~ (y < x)
    BY <1>2, <1>4, <2>1
  <2> QED BY <2>1, <2>2
<1> QED BY <1>5 DEF Min

LEMMA LatchedTyped ==
  ASSUME NEW r, NEW a \in Optional(Arrival), NEW c \in Cache
  PROVE  Latched(r, a, c) \in Optional(Arrival)
<1>1. ASSUME NEW seen, r \in Step PROVE ArrivalAt(r, seen) \in Arrival
  BY <1>1 DEF ArrivalAt, Arrival, IsSatisfied, Step, DisclosureAcknowledged, Covers, SomeUsable
<1>2. c["state"].data \in Optional(SetupFacts(Version))
  BY DEF Cache, QueryOf
<1> QED BY <1>1, <1>2 DEF Latched, Optional

\* What was latched stays.
LEMMA LatchedTwice ==
  ASSUME NEW r, NEW a, NEW c PROVE Latched(r, Latched(r, a, c), c) = Latched(r, a, c)
BY DEF Latched

\* To ask again changes nothing that the guard reads.
LEMMA FetchingSeen ==
  ASSUME NEW c \in Cache, NEW q \in Query
  PROVE  /\ Fetching(c, q) \in Cache
         /\ Fetching(c, q)["state"].data = c["state"].data
         /\ \A r, a : /\ Latched(r, a, Fetching(c, q)) = Latched(r, a, c)
                      /\ RedirectOn(r, a, Fetching(c, q)) = RedirectOn(r, a, c)
                      /\ Page(r, a, Fetching(c, q)) = Page(r, a, c)
<1> DEFINE f == Fetching(c, q)
<1>1. f = [c EXCEPT ![q] = [c[q] EXCEPT !.fetching = TRUE, !.failed = c[q].failed /\ c[q].data # {}]]
  BY DEF Fetching, Cache
<1> DEFINE asked(x) == [x EXCEPT !.fetching = TRUE, !.failed = x.failed /\ x.data # {}]
<1>2. f \in Cache
  <2>1. ASSUME NEW S, NEW x \in QueryOf(S) PROVE asked(x) \in QueryOf(S)
    BY DEF QueryOf
  <2>2. f[q] = asked(c[q]) /\ f = [c EXCEPT ![q] = asked(c[q])]
    BY <1>1 DEF Cache
  <2> HIDE DEF f, asked
  <2>3. CASE q = "state"
    BY <2>1, <2>2, <2>3 DEF Cache, Query
  <2>4. CASE q = "email"
    BY <2>1, <2>2, <2>4 DEF Cache, Query
  <2> QED BY <2>3, <2>4 DEF Query
<1>3. /\ f["state"].data = c["state"].data
      /\ f["state"].failed = c["state"].failed \/ c["state"].data = {}
  BY <1>1 DEF Cache, Query, QueryOf
<1> HIDE DEF f
<1>4. ASSUME NEW r, NEW a PROVE Latched(r, a, f) = Latched(r, a, c) /\ RedirectOn(r, a, f) = RedirectOn(r, a, c)
  BY <1>3 DEF Latched, RedirectOn
<1>5. ASSUME NEW r, NEW a PROVE Page(r, a, f) = Page(r, a, c)
  BY <1>3, <1>4 DEF Page
<1> QED BY <1>2, <1>3, <1>4, <1>5 DEF f

LEMMA RedirectInRoute ==
  ASSUME NEW r, NEW a, NEW c PROVE RedirectOn(r, a, c) \subseteq Route
<1>1. \A seen : PendingStep(seen) \subseteq Route /\ PrerequisiteOf(r, seen) \subseteq Route
  BY DEF PendingStep, PrerequisiteOf, Route, Step
<1>2. \A seen : RedirectOf(r, seen, a) \subseteq Route
  BY <1>1 DEF RedirectOf, Route
<1> QED BY <1>2 DEF RedirectOn

\* The screen in front of the candidate is the one of the route.
LEMMA ShowingRoute ==
  ASSUME NEW r \in Route, Showing(r) PROVE r = route
BY WizardAssumption DEF Showing, Page

(* ------------------ steps that leave the screen where it is -------------- *)

\* While nothing renders, all that can change for the guard is a query asked again: the
\* invariant is kept if it is kept of the flows.
LEMMA StandKeeps ==
  ASSUME Inv, UNCHANGED <<route, arrival, heading, reused>>,
         cache' = cache \/ \E q \in Query : cache' = Fetching(cache, q),
         facts' \in SetupFacts(Version), flow' \in Flows, latest' \in Click \cup {0},
         failures' \in [Capability -> Answer \cup {None}], crossed' \subseteq Capability,
         \A n \in Click : flow'[n] # None /\ flow'[n].here =>
            \/ flow[n] # None /\ flow[n].here /\ flow[n].kind = flow'[n].kind
            \/ ScreenOf(flow'[n].kind) = route /\ Showing(route),
         SavesInv',
         \A n \in Click : Told(flow'[n], facts', cache["state"].data)
  PROVE  Inv'
<1>1. /\ cache' \in Cache
      /\ cache'["state"].data = cache["state"].data
      /\ \A r, a : /\ Latched(r, a, cache') = Latched(r, a, cache)
                   /\ RedirectOn(r, a, cache') = RedirectOn(r, a, cache)
                   /\ Page(r, a, cache') = Page(r, a, cache)
  BY FetchingSeen DEF Inv, Typed
<1>2. Typed'
  BY <1>1 DEF Inv, Typed
<1>3. LatchInv'
  BY <1>1 DEF Inv, LatchInv
<1>4. HereInv'
  BY <1>1 DEF Inv, HereInv, Showing
<1>5. EffectInv'
  BY <1>1 DEF EffectInv
<1>6. HeadingInv'
  BY <1>1 DEF Inv, HeadingInv, Outdated
<1> QED BY <1>2, <1>3, <1>4, <1>5, <1>6 DEF Inv

(* ------------------------------- a render -------------------------------- *)

LEMMA RenderCache ==
  ASSUME NEW r \in Route, NEW a \in Optional(Arrival), NEW c \in Cache, NEW fl, Render(r, a, c, fl)
  PROVE  /\ route' = r /\ arrival' = Latched(r, a, c) /\ arrival' \in Optional(Arrival)
         /\ cache' \in Cache /\ cache'["state"].data = c["state"].data
         /\ LatchInv'
         /\ Page(route', arrival', cache') = Page(r, Latched(r, a, c), c)
         /\ RedirectOn(route', arrival', cache') = RedirectOn(r, Latched(r, a, c), c)
<1>1. /\ route' = r /\ arrival' = Latched(r, a, c)
      /\ cache' = c \/ \E q \in Query : cache' = Fetching(c, q)
  BY DEF Render, Query
<1>2. /\ cache' \in Cache /\ cache'["state"].data = c["state"].data
      /\ \A x, y : /\ Latched(x, y, cache') = Latched(x, y, c)
                   /\ RedirectOn(x, y, cache') = RedirectOn(x, y, c)
                   /\ Page(x, y, cache') = Page(x, y, c)
  BY <1>1, FetchingSeen
<1>3. LatchInv'
  BY <1>1, <1>2, LatchedTwice DEF LatchInv
<1> QED BY <1>1, <1>2, <1>3, LatchedTyped

LEMMA RenderFlows ==
  ASSUME NEW r, NEW a, NEW c, NEW fl \in Flows, Render(r, a, c, fl)
  PROVE  \/ /\ Page(r, Latched(r, a, c), c) = Page(route, arrival, cache)
            /\ flow' = fl /\ UNCHANGED <<failures, crossed, latest>>
         \/ /\ \A n \in Click : \/ fl[n] = None /\ flow'[n] = None
                                \/ fl[n] # None /\ flow'[n] = [fl[n] EXCEPT !.here = FALSE]
            /\ failures' = NoFailure /\ crossed' = {} /\ latest' = 0
BY DEF Render

\* A render keeps the invariant if the flows it begins with come from those there were,
\* and know what the state that is rendered says.
LEMMA RenderKeeps ==
  ASSUME Inv, NEW r \in Route, NEW a \in Optional(Arrival), NEW c \in Cache, NEW fl \in Flows,
         Render(r, a, c, fl), facts' = facts, reused' \in BOOLEAN, heading' \subseteq Route,
         \A n \in Click : fl[n] # None /\ fl[n].here =>
            flow[n] # None /\ flow[n].here /\ flow[n].kind = fl[n].kind,
         \A n \in Click, cap \in Capability : Saving(fl[n], cap) => Saving(flow[n], cap),
         \A n \in Click : Told(fl[n], facts, IF c["state"].failed THEN {} ELSE c["state"].data),
         \/ reused' /\ Done(Latched(r, a, c))
         \/ heading' \cap RedirectOn(r, Latched(r, a, c), c) = {}
  PROVE  Inv'
<1> DEFINE same    == /\ Page(r, Latched(r, a, c), c) = Page(route, arrival, cache)
                      /\ flow' = fl /\ UNCHANGED <<failures, crossed, latest>>
           another == /\ \A n \in Click :
                            \/ fl[n] = None /\ flow'[n] = None
                            \/ fl[n] # None /\ flow'[n] = [fl[n] EXCEPT !.here = FALSE]
                      /\ failures' = NoFailure /\ crossed' = {} /\ latest' = 0
<1>1. same \/ another
  BY RenderFlows
<1>2. \A n \in Click : fl[n] # None => fl[n] \in Flow
  BY DEF Flows, Sound
<1>3. another => \A n \in Click : flow'[n] # None => ~ flow'[n].here
  BY <1>2 DEF Flow
<1>4. Typed'
  <2>1. NoFailure \in [Capability -> Answer \cup {None}]
    BY DEF NoFailure
  <2> QED BY <1>1, <2>1, RenderCache, RenderSound DEF Inv, Typed
<1>5. HereInv'
  <2> SUFFICES ASSUME NEW n \in Click, flow'[n] # None, flow'[n].here
               PROVE  ScreenOf(flow'[n].kind) = r /\ Page(route', arrival', cache') = r
    BY RenderCache DEF HereInv, Showing
  <2>1. same
    BY <1>1, <1>3
  <2>2. ScreenOf(fl[n].kind) = route /\ Page(route, arrival, cache) = route
    BY <2>1 DEF Inv, HereInv, Showing
  <2>3. Page(r, Latched(r, a, c), c) \in {None, r}
    BY DEF Page
  <2>4. r = route
    BY <2>1, <2>2, <2>3, WizardAssumption DEF Inv, Typed
  <2> QED BY <2>1, <2>2, <2>4, RenderCache
<1>6. SavesInv'
  <2>1. CASE another
    BY <1>3, <2>1 DEF SavesInv, Saving
  <2>2. CASE same
    <3> HIDE DEF same, another
    <3>1. flow' = fl /\ failures' = failures /\ crossed' = crossed
      BY <2>2 DEF same
    <3> QED BY <3>1 DEF Inv, SavesInv
  <2> QED BY <1>1, <2>1, <2>2
<1>7. EffectInv'
  <2> SUFFICES ASSUME NEW n \in Click PROVE Told(flow'[n], facts, c["state"].data)
    BY RenderCache DEF EffectInv
  <2>1. CASE another
    <3>1. Told(fl[n], facts, IF c["state"].failed THEN {} ELSE c["state"].data)
      OBVIOUS
    <3>2. /\ flow'[n] # None => fl[n] # None /\ flow'[n].kind = fl[n].kind
                 /\ flow'[n].phase = fl[n].phase /\ flow'[n].answer = fl[n].answer
                 /\ ~ flow'[n].here
      BY <1>2, <2>1 DEF Flow
    <3> QED BY <3>1, <3>2 DEF Told
  <2>2. CASE same /\ c["state"].failed
    <3>1. Page(route', arrival', cache') = None
      BY <2>2, RenderCache DEF Page
    <3>2. flow'[n] # None => ~ flow'[n].here
      BY <1>5, <3>1, RenderCache, WizardAssumption DEF HereInv, Showing
    <3>3. flow'[n] = fl[n] /\ Told(fl[n], facts, {})
      BY <2>2
    <3> HIDE DEF same, another
    <3> QED BY <3>2, <3>3 DEF Told
  <2>3. CASE same /\ ~ c["state"].failed
    BY <2>3
  <2> QED BY <1>1, <2>1, <2>2, <2>3
<1>8. HeadingInv'
  BY RenderCache DEF HeadingInv, Outdated, Done
<1> HIDE DEF same, another
<1> QED BY <1>4, <1>5, <1>6, <1>7, <1>8, RenderCache DEF Inv

(* ----------------------------- the navigation ---------------------------- *)

\* What the guard of r does when it is new and the tab knows the facts `seen`.
LEMMA FreshGuard ==
  ASSUME Typed, NEW r \in Route, NEW seen \in cache["state"].data
  PROVE  RedirectOn(r, Latched(r, {}, cache), cache) =
            IF cache["state"].failed THEN {} ELSE RedirectOf(r, seen, Fresh(r, seen))
<1>1. cache["state"].data = {seen}
  BY DEF Typed, Cache, QueryOf, Optional
<1>2. CASE ~ cache["state"].failed
  <2>1. Latched(r, {}, cache) = Fresh(r, seen)
    BY <1>1, <1>2 DEF Latched, Fresh
  <2> QED BY <1>1, <1>2, <2>1 DEF RedirectOn
<1> QED BY <1>2 DEF RedirectOn

\* A guard that the router keeps, and that holds of the step before that it was not done,
\* sends nowhere that a new one would not send.
LEMMA KeptGuard ==
  ASSUME NEW r \in Route, NEW seen, NEW a, ~ Done(a)
  PROVE  RedirectOf(r, seen, a) \subseteq RedirectOf(r, seen, Fresh(r, seen))
<1>1. CASE r \notin Step
  BY <1>1 DEF RedirectOf, Route
<1>2. CASE r \in Step
  <2>1. RedirectOf(r, seen, a) = PrerequisiteOf(r, seen)
    BY <1>2 DEF RedirectOf, Done, Step
  <2>2. CASE PendingStep(seen) = {}
    <3>1. PrerequisiteOf(r, seen) = {}
      BY <2>2 DEF PendingStep, PrerequisiteOf
    <3> QED BY <2>1, <3>1
  <2>3. CASE PendingStep(seen) # {}
    <3>1. ~ ArrivalAt(r, seen).finished /\ Fresh(r, seen) = {ArrivalAt(r, seen)}
      BY <1>2, <2>3 DEF Fresh, ArrivalAt
    <3>2. PrerequisiteOf(r, seen) \subseteq RedirectOf(r, seen, Fresh(r, seen))
      BY <1>2, <3>1 DEF RedirectOf, Step
    <3> QED BY <2>1, <3>2
  <2> QED BY <2>2, <2>3
<1> QED BY <1>1, <1>2

LEMMA GoKeeps ==
  ASSUME Inv, NEW r \in Route, NEW fl \in Flows, Go(r, fl), facts' = facts, heading' \subseteq Route,
         \A n \in Click : fl[n] \in {flow[n], Over},
         heading' = {} \/ \E seen \in cache["state"].data :
                              heading' \cap RedirectOf(r, seen, Fresh(r, seen)) = {}
  PROVE  Inv'
<1>1. PICK fresh \in IF route = "entry" THEN {TRUE} ELSE Remounts :
         /\ Render(r, IF fresh THEN {} ELSE arrival,
                      IF fresh THEN Fetching(cache, "state") ELSE cache, fl)
         /\ reused' = ~ fresh
  BY DEF Go
<1>2. fresh \in BOOLEAN
  BY WizardAssumption
<1> DEFINE a == IF fresh THEN {} ELSE arrival
           c == IF fresh THEN Fetching(cache, "state") ELSE cache
<1>3. a \in Optional(Arrival)
  BY DEF Inv, Typed, Optional
<1>4. c \in Cache /\ c["state"].data = cache["state"].data
  BY FetchingSeen DEF Inv, Typed, Query
<1>5. \A n \in Click, cap \in Capability : Saving(fl[n], cap) => Saving(flow[n], cap)
  BY DEF Saving, Over
<1>6. \A n \in Click : fl[n] # None /\ fl[n].here =>
         flow[n] # None /\ flow[n].here /\ flow[n].kind = fl[n].kind
  BY DEF Over
<1>7. \A n \in Click : Told(fl[n], facts, IF c["state"].failed THEN {} ELSE c["state"].data)
  <2> SUFFICES ASSUME NEW n \in Click
               PROVE  Told(fl[n], facts, IF c["state"].failed THEN {} ELSE c["state"].data)
    OBVIOUS
  <2>1. \A f, x : Told(Over, f, x)
    BY DEF Told, Over
  <2>2. Told(flow[n], facts, cache["state"].data)
    BY DEF Inv, EffectInv
  <2>3. Told(flow[n], facts, cache["state"].data) => Told(flow[n], facts, {})
    BY DEF Told
  <2> HIDE DEF c
  <2> QED BY <1>4, <2>1, <2>2, <2>3
<1>8. \/ reused' /\ Done(Latched(r, a, c))
      \/ heading' \cap RedirectOn(r, Latched(r, a, c), c) = {}
  <2> SUFFICES ASSUME fresh \/ ~ Done(Latched(r, a, c)), heading' # {}
               PROVE  heading' \cap RedirectOn(r, Latched(r, a, c), c) = {}
    BY <1>1, <1>2
  <2>1. \A x : /\ Latched(r, x, c) = Latched(r, x, cache)
               /\ RedirectOn(r, x, c) = RedirectOn(r, x, cache)
    BY FetchingSeen DEF Inv, Typed, Query
  <2>2. PICK seen \in cache["state"].data : heading' \cap RedirectOf(r, seen, Fresh(r, seen)) = {}
    OBVIOUS
  <2>3. CASE a = {}
    <3>1. RedirectOn(r, Latched(r, {}, cache), cache) \in {{}, RedirectOf(r, seen, Fresh(r, seen))}
      BY FreshGuard DEF Inv
    <3> QED BY <2>1, <2>2, <2>3, <3>1
  <2>4. CASE a # {}
    <3>1. Latched(r, a, c) = a /\ ~ Done(a)
      BY <2>4 DEF Latched
    <3>2. cache["state"].data = {seen}
      BY DEF Inv, Typed, Cache, QueryOf, Optional
    <3>3. RedirectOn(r, a, cache) \subseteq RedirectOf(r, seen, a)
      BY <3>2 DEF RedirectOn
    <3>4. RedirectOf(r, seen, a) \subseteq RedirectOf(r, seen, Fresh(r, seen))
      BY <3>1, KeptGuard
    <3> QED BY <2>1, <2>2, <3>1, <3>3, <3>4
  <2> QED BY <2>3, <2>4
<1>9. Render(r, a, c, fl) /\ reused' \in BOOLEAN
  BY <1>1, <1>2
<1> HIDE DEF a, c
<1> QED BY <1>3, <1>4, <1>5, <1>6, <1>7, <1>8, <1>9, RenderKeeps

\* With a usable generation the guard of the email step never sends back to the providers.
LEMMA ContinueKeeps == ASSUME Inv, Continue PROVE Inv'
<1>1. /\ Showing("providers") /\ SomeUsable(Seen.generation)
      /\ Go("email", flow) /\ heading' = {route} /\ facts' = facts
  BY DEF Continue, Push
<1>2. route = "providers" /\ cache["state"].data # {}
  BY <1>1, ShowingRoute, WizardAssumption DEF Showing, Page, Route, Step
<1>3. Seen \in cache["state"].data
  BY <1>2 DEF Seen
<1>4. "providers" \notin RedirectOf("email", Seen, Fresh("email", Seen))
  BY <1>1 DEF RedirectOf, PrerequisiteOf, PendingStep, Fresh, Step, ArrivalAt, IsSatisfied
<1>5. "email" \in Route
  BY DEF Route, Step
<1> QED BY <1>1, <1>2, <1>3, <1>4, <1>5, GoKeeps DEF Inv, Typed

LEMMA FinishKeeps == ASSUME Inv, Finish PROVE Inv'
<1>1. "onboarding" \in Route
  BY DEF Route
<1> QED BY <1>1, GoKeeps DEF Finish, Inv, Typed

LEMMA FollowKeeps == ASSUME Inv, Follow PROVE Inv'
<1>1. PICK r \in RedirectOn(route, arrival, cache) : Go(r, flow)
  BY DEF Follow
<1>2. r \in Route
  BY <1>1, RedirectInRoute
<1> QED BY <1>1, <1>2, GoKeeps DEF Follow, Inv, Typed

\* A flow that goes on from a screen still there knows what it has made true: the guard
\* it goes to knows it too.
LEMMA ConcludeKeeps == ASSUME Inv, NEW n \in Click, Conclude(n) PROVE Inv'
<1> DEFINE kind == flow[n].kind
           to   == IF kind = "skip" THEN "onboarding" ELSE "providers"
<1>1. /\ flow[n] # None /\ flow[n].phase = "state" /\ flow[n].fetched
      /\ facts' = facts
  BY DEF Conclude, Awaited
<1>2. Ended(n) \in Flows /\ \A m \in Click : Ended(n)[m] \in {flow[m], Over}
  BY EndedSound DEF Inv, Typed, Ended, Flows
<1>3. CASE flow[n].here /\ kind \in {"acknowledge", "skip"}
  <2>1. Go(to, Ended(n)) /\ heading' = {route}
    BY <1>3 DEF Conclude, Push
  <2>2. ScreenOf(kind) = route /\ Showing(route)
    BY <1>1, <1>3 DEF Inv, HereInv
  <2>3. cache["state"].data # {}
    BY <2>2, WizardAssumption DEF Showing, Page, Inv, Typed
  <2>4. PICK seen \in cache["state"].data : TRUE
    BY <2>3
  <2>5. Effected(kind, seen)
    BY <1>1, <1>3, <2>4 DEF Inv, EffectInv, Told
  <2>6. CASE kind = "acknowledge"
    <3>1. DisclosureAcknowledged(seen) /\ route = "disclosure" /\ to = "providers"
      BY <2>2, <2>5, <2>6 DEF Effected, ScreenOf
    <3>2. "disclosure" \notin RedirectOf("providers", seen, Fresh("providers", seen))
      BY <3>1 DEF RedirectOf, PrerequisiteOf, PendingStep, Fresh, Step
    <3> QED BY <1>1, <1>2, <2>1, <2>4, <3>1, <3>2, GoKeeps DEF Inv, Typed, Route, Step
  <2>7. CASE kind = "skip"
    <3>1. seen.email # "pending" /\ route = "email" /\ to = "onboarding"
      BY <2>2, <2>5, <2>7 DEF Effected, ScreenOf
    <3>2. "email" \notin RedirectOf("onboarding", seen, Fresh("onboarding", seen))
      BY <3>1 DEF RedirectOf, PendingStep
    <3> QED BY <1>1, <1>2, <2>1, <2>4, <3>1, <3>2, GoKeeps DEF Inv, Typed, Route, Step
  <2> QED BY <1>3, <2>6, <2>7
<1>4. CASE ~ (flow[n].here /\ kind \in {"acknowledge", "skip"})
  <2>1. /\ flow' = Ended(n)
        /\ UNCHANGED <<route, arrival, cache, latest, failures, reused, heading, crossed>>
    BY <1>4 DEF Conclude, history
  <2>2. SavesInv'
    BY <1>2, <2>1 DEF Inv, SavesInv, Saving, Over
  <2>3. \A m \in Click : Told(flow'[m], facts', cache["state"].data)
    BY <1>1, <1>2, <2>1 DEF Inv, EffectInv, Told, Over
  <2>4. \A m \in Click : flow'[m] # None /\ flow'[m].here => flow'[m] = flow[m]
    BY <1>2, <2>1 DEF Over
  <2> QED BY <1>1, <1>2, <2>1, <2>2, <2>3, <2>4, StandKeeps DEF Inv, Typed
<1> QED BY <1>3, <1>4

(* -------------------------------- the clicks ----------------------------- *)

\* A call that saves nothing, sent from its own screen.
LEMMA SendKeeps ==
  ASSUME Inv, NEW kind \in {"acknowledge", "degrade", "link", "skip"},
         NEW saves \in Seq([capability : Capability, provider : Provider \cup {""}]),
         Send(kind, saves), kind # "degrade" => ScreenOf(kind) = route /\ Showing(route),
         kind = "degrade" => Showing("providers"),
         UNCHANGED <<facts, route, arrival, cache, latest, failures, history>>
  PROVE  Inv'
<1>1. flow' \in Flows
  BY SendSound DEF Inv, Typed
<1>2. PICK f : /\ f.kind = kind /\ f.phase = "sent" /\ f # None
               /\ \A n \in Click : flow'[n] \in {flow[n], f}
  <2> DEFINE f == [kind |-> kind, saves |-> saves, phase |-> "sent", fetched |-> FALSE,
                   answer |-> None, here |-> TRUE]
  <2>1. f \in Flow
    BY DEF Flow
  <2>2. f # None
    BY <2>1, WizardAssumption
  <2>3. \A n \in Click : flow'[n] \in {flow[n], f}
    BY DEF Send, Inv, Typed, Flows
  <2> QED BY <2>2, <2>3
<1>3. ScreenOf(kind) = route /\ Showing(route)
  BY ShowingRoute DEF ScreenOf, Route, Step
<1>4. SavesInv'
  BY <1>2 DEF Inv, SavesInv, Saving, history
<1>5. \A n \in Click : Told(flow'[n], facts', cache["state"].data)
  BY <1>2 DEF Inv, EffectInv, Told
<1> QED BY <1>1, <1>2, <1>3, <1>4, <1>5, StandKeeps DEF Inv, Typed, history

LEMMA CallKeeps ==
  ASSUME Inv, Acknowledge \/ Link \/ Skip \/ \E c \in Capability : AcknowledgeDegradation(c)
  PROVE  Inv'
<1> DEFINE All == [capability : Capability, provider : Provider \cup {""}]
<1>1. <<>> \in Seq(All) /\ \A c \in Capability : <<Save(c, "")>> \in Seq(All)
  BY DEF Save
<1>2. "disclosure" \in Route /\ "email" \in Route
  BY DEF Route, Step
<1>3. CASE Acknowledge
  BY <1>1, <1>2, <1>3, ShowingRoute, SendKeeps DEF Acknowledge, ScreenOf
<1>4. CASE Link
  BY <1>1, <1>2, <1>4, ShowingRoute, SendKeeps DEF Link, Offering, Deciding, ScreenOf
<1>5. CASE Skip
  BY <1>1, <1>2, <1>5, ShowingRoute, SendKeeps DEF Skip, Offering, Deciding, ScreenOf
<1>6. ASSUME NEW c \in Capability, AcknowledgeDegradation(c) PROVE Inv'
  BY <1>1, <1>6, SendKeeps DEF AcknowledgeDegradation
<1> QED BY <1>3, <1>4, <1>5, <1>6

\* A save just sent: the failure of its capability is forgotten, and the capability has
\* crossed if the screen was saving it already.
LEMMA SubmitKeeps ==
  ASSUME Inv, NEW saves \in Seq(Choosable), saves # <<>>, Submit(saves), Showing("providers")
  PROVE  Inv'
<1> DEFINE c == Head(saves).capability
           m == Min(Unused)
           f == [kind |-> "configure", saves |-> saves, phase |-> "sent", fetched |-> FALSE,
                 answer |-> None, here |-> TRUE]
<1>1. /\ Unused # {} /\ flow' = [flow EXCEPT ![m] = f] /\ latest' = m
      /\ failures' = [failures EXCEPT ![c] = None]
      /\ crossed' = crossed \cup Crossing(c)
      /\ UNCHANGED <<facts, route, arrival, cache, reused, heading>>
  BY DEF Submit, Send, Forgotten
<1>2. m \in Click /\ flow[m] = None
  BY <1>1, MinIsUnused DEF Unused
<1>3. c \in Capability
  <2>1. Head(saves) \in Choosable
    OBVIOUS
  <2> QED BY <2>1 DEF Choosable
<1>4. flow' \in Flows
  BY SubmitSound DEF Inv, Typed
<1>5. f # None
  <2>1. flow'[m] \in Sound \cup {None} /\ flow'[m] = f
    BY <1>1, <1>2, <1>4 DEF Flows, Inv, Typed
  <2>2. saves \in Seq([capability : Capability, provider : Provider \cup {""}])
    <3> DEFINE All == [capability : Capability, provider : Provider \cup {""}]
    <3>1. Choosable \subseteq All
      BY DEF Choosable
    <3> HIDE DEF All
    <3>2. saves \in Seq(All)
      BY <3>1
    <3> QED BY <3>2 DEF All
  <2>3. f \in Flow
    BY <2>2 DEF Flow
  <2> QED BY <2>3, WizardAssumption
<1>6. /\ flow'[m] = f /\ f.kind = "configure" /\ f.phase = "sent" /\ Head(f.saves).capability = c
      /\ \A n \in Click \ {m} : flow'[n] = flow[n]
  BY <1>1, <1>2 DEF Inv, Typed, Flows
<1> HIDE DEF m, f, c
<1>7. \A n \in Click, d \in Capability : Saving(flow'[n], d) =>
         IF n = m THEN d = c ELSE Saving(flow[n], d)
  BY <1>6 DEF Saving
<1>8. \A n \in Click : Saving(flow[n], c) => c \in crossed'
  BY <1>1, <1>3 DEF Crossing, Saving, Busy
<1>9. SavesInv'
  <2> SUFFICES ASSUME NEW n \in Click, NEW d \in Capability, Saving(flow'[n], d)
               PROVE  /\ \A k \in Click \ {n} : Saving(flow'[k], d) => d \in crossed'
                      /\ failures'[d] = None \/ d \in crossed'
    BY DEF SavesInv
  <2>1. ASSUME NEW k \in Click \ {n}, Saving(flow'[k], d) PROVE d \in crossed'
    <3>1. CASE n = m
      BY <1>7, <1>8, <2>1, <3>1
    <3>2. CASE k = m
      BY <1>7, <1>8, <2>1, <3>2
    <3>3. CASE n # m /\ k # m
      BY <1>1, <1>7, <2>1, <3>3 DEF Inv, SavesInv
    <3> QED BY <3>1, <3>2, <3>3
  <2>2. failures'[d] = None \/ d \in crossed'
    <3>1. failures'[d] = IF d = c THEN None ELSE failures[d]
      BY <1>1 DEF Inv, Typed
    <3>2. n # m => failures[d] = None \/ d \in crossed
      BY <1>7 DEF Inv, SavesInv
    <3> QED BY <1>1, <1>7, <3>1, <3>2
  <2> QED BY <2>1, <2>2
<1>10. ScreenOf("configure") = route /\ Showing(route)
  BY ShowingRoute DEF ScreenOf, Route, Step
<1>11. \A n \in Click : Told(flow'[n], facts', cache["state"].data)
  BY <1>1, <1>6 DEF Inv, EffectInv, Told
<1>12. failures' \in [Capability -> Answer \cup {None}] /\ crossed' \subseteq Capability
  BY <1>1, <1>3 DEF Inv, Typed, Crossing
<1>13. \A n \in Click : flow'[n] # None /\ flow'[n].here =>
          \/ flow[n] # None /\ flow[n].here /\ flow[n].kind = flow'[n].kind
          \/ ScreenOf(flow'[n].kind) = route /\ Showing(route)
  BY <1>6, <1>10
<1> QED BY <1>1, <1>2, <1>4, <1>9, <1>11, <1>12, <1>13, StandKeeps DEF Inv, Typed

LEMMA VerifyKeeps == ASSUME Inv, Verify PROVE Inv'
<1>1. PICK p \in Choice("generation"), q \in Choice("embeddings") :
         \/ Submit(<<Save("generation", p), Save("embeddings", q)>>)
         \/ Submit(<<Save("generation", p)>>) \/ Submit(<<Save("embeddings", q)>>)
  BY DEF Verify
<1>2. Save("generation", p) \in Choosable /\ Save("embeddings", q) \in Choosable
  BY SaveChoosable DEF Capability
<1>3. /\ <<Save("generation", p), Save("embeddings", q)>> \in Seq(Choosable) \ {<<>>}
      /\ <<Save("generation", p)>> \in Seq(Choosable) \ {<<>>}
      /\ <<Save("embeddings", q)>> \in Seq(Choosable) \ {<<>>}
  BY <1>2
<1> QED BY <1>1, <1>3, SubmitKeeps DEF Verify

LEMMA RetryKeeps == ASSUME Inv, NEW c \in Capability, Retry(c) PROVE Inv'
<1>1. PICK p \in Choice(c) : Submit(<<Save(c, p)>>)
  BY DEF Retry
<1>2. <<Save(c, p)>> \in Seq(Choosable) \ {<<>>}
  BY SaveChoosable
<1> QED BY <1>1, <1>2, SubmitKeeps DEF Retry

LEMMA ChangeProviderKeeps == ASSUME Inv, NEW c \in Capability, ChangeProvider(c) PROVE Inv'
<1>1. /\ failures' = [failures EXCEPT ![c] = None]
      /\ UNCHANGED <<facts, route, arrival, cache, flow, latest, reused, heading, crossed>>
  BY DEF ChangeProvider, history
<1>2. failures' \in [Capability -> Answer \cup {None}]
  BY <1>1 DEF Inv, Typed
<1>3. SavesInv'
  <2>1. \A d \in Capability : failures'[d] \in {failures[d], None}
    BY <1>1 DEF Inv, Typed
  <2>2. flow' = flow /\ crossed' = crossed
    BY <1>1
  <2> QED BY <2>1, <2>2 DEF Inv, SavesInv
<1>4. \A n \in Click : Told(flow'[n], facts', cache["state"].data)
  BY <1>1 DEF Inv, EffectInv
<1> QED BY <1>1, <1>2, <1>3, <1>4, StandKeeps DEF Inv, Typed

(* -------------------------------- the server ----------------------------- *)

LEMMA StoredFacts ==
  ASSUME NEW f \in SetupFacts(Version), NEW c \in Capability, NEW optional \in Optional(ProviderFacts)
  PROVE  /\ Stored(f, c, optional) \in SetupFacts(Version)
         /\ \A kind : Effected(kind, f) => Effected(kind, Stored(f, c, optional))
<1>1. Stored(f, c, optional) \in SetupFacts(Version)
  BY DEF Stored, SetupFacts
<1>2. /\ Stored(f, c, optional).current = f.current
      /\ Stored(f, c, optional).acknowledged = f.acknowledged
      /\ Stored(f, c, optional).email = f.email
  BY DEF Stored, SetupFacts
<1> QED BY <1>1, <1>2 DEF Effected, DisclosureAcknowledged

LEMMA ConfigurationFacts ==
  ASSUME facts \in SetupFacts(Version), NEW c
  PROVE  ConfigurationOf(c, facts) \in Optional(ProviderFacts)
BY DEF ConfigurationOf, SetupFacts

LEMMA AfterProbeFacts ==
  ASSUME facts \in SetupFacts(Version), NEW c, NEW o, NEW optional \in AfterProbe(c, o)
  PROVE  optional \in Optional(ProviderFacts)
<1>1. CASE o \in Result
  BY <1>1 DEF AfterProbe, Optional, ProviderFacts
<1>2. CASE o \notin Result
  <2>1. PICK same \in BOOLEAN :
           optional = {[x EXCEPT !.credential_matches = same] : x \in ConfigurationOf(c, facts)}
    BY <1>2 DEF AfterProbe
  <2>2. \A x \in ProviderFacts : [x EXCEPT !.credential_matches = same] \in ProviderFacts
    BY DEF ProviderFacts
  <2> QED BY <2>1, <2>2, ConfigurationFacts DEF Optional
<1> QED BY <1>1, <1>2

\* No call undoes what an acknowledgement or a skip made true, and one of those that
\* succeeds has made it true.
LEMMA ServedFacts ==
  ASSUME facts \in SetupFacts(Version), flow \in Flows, NEW n \in Click, flow[n] # None,
         flow[n].phase \in {"sent", "orphan"}, NEW r \in Replies(n)
  PROVE  /\ r.facts \in SetupFacts(Version)
         /\ \A kind : Effected(kind, facts) => Effected(kind, r.facts)
         /\ r.answer = "ok" => Effected(flow[n].kind, r.facts)
<1>0. \A f, a : Reply(f, a).facts = f /\ Reply(f, a).answer = a
  BY DEF Reply
<1>1. flow[n] \in Sound /\ flow[n].kind \in {"acknowledge", "configure", "degrade", "link", "skip"}
  BY DEF Flows, Sound, Flow
<1>2. CASE flow[n].kind = "configure"
  <2> DEFINE c == Head(flow[n].saves).capability
  <2>1. Head(flow[n].saves) \in Choosable
    BY <1>1, <1>2 DEF Sound
  <2>2. c \in Capability
    BY <2>1 DEF Choosable
  <2>3. r \in RepliesToSave(c, Head(flow[n].saves).provider)
    BY <1>2 DEF Replies
  <2> HIDE DEF c
  <2>4. r.facts = facts \/ \E o, optional : optional \in AfterProbe(c, o) /\ r.facts = Stored(facts, c, optional)
    BY <1>0, <2>3 DEF RepliesToSave
  <2> QED BY <1>2, <2>2, <2>4, AfterProbeFacts, StoredFacts DEF Effected
<1>3. CASE flow[n].kind = "degrade"
  <2> DEFINE c == Head(flow[n].saves).capability
  <2>1. r \in RepliesToDegrade(c)
    BY <1>3 DEF Replies
  <2> HIDE DEF c
  <2> DEFINE acked == {[x EXCEPT !.degradation_acknowledged = TRUE] : x \in ConfigurationOf(c, facts)}
  <2>2. \A x \in ProviderFacts : [x EXCEPT !.degradation_acknowledged = TRUE] \in ProviderFacts
    BY DEF ProviderFacts
  <2>3. acked \in Optional(ProviderFacts)
    <3>1. ConfigurationOf(c, facts) = {} \/ \E x \in ProviderFacts : ConfigurationOf(c, facts) = {x}
      BY ConfigurationFacts DEF Optional
    <3>2. ASSUME NEW x \in ProviderFacts, ConfigurationOf(c, facts) = {x}
          PROVE  acked = {[x EXCEPT !.degradation_acknowledged = TRUE]}
      BY <3>2
    <3> QED BY <2>2, <3>1, <3>2 DEF Optional
  <2>4. r.facts \in {facts, Stored(facts, c, acked)}
    BY <1>0, <2>1 DEF RepliesToDegrade
  <2>5. Stored(facts, c, acked) = Stored(facts, IF c = "generation" THEN c ELSE "embeddings", acked)
    BY DEF Stored
  <2> HIDE DEF acked
  <2> QED BY <1>3, <2>3, <2>4, <2>5, StoredFacts DEF Effected, Capability
<1>4. CASE flow[n].kind = "acknowledge"
  <2>1. \/ r.facts = facts /\ r.answer # "ok"
        \/ r.facts = [facts EXCEPT !.acknowledged = {facts.current}]
    BY <1>0, <1>4 DEF Replies, RepliesToAcknowledge
  <2>2. CASE r.facts = [facts EXCEPT !.acknowledged = {facts.current}]
    <3>1. r.facts \in SetupFacts(Version)
      BY <2>2 DEF SetupFacts, Optional
    <3>2. r.facts.acknowledged = {r.facts.current} /\ r.facts.email = facts.email
      BY <2>2 DEF SetupFacts
    <3> QED BY <1>4, <3>1, <3>2 DEF Effected, DisclosureAcknowledged, Covers
  <2> QED BY <2>1, <2>2
<1>5. CASE flow[n].kind \in {"link", "skip"}
  <2>1. \/ r.facts = facts /\ r.answer # "ok"
        \/ \E e \in {"linked", "skipped"} : r.facts = [facts EXCEPT !.email = e]
    BY <1>0, <1>5 DEF Replies
  <2>2. ASSUME NEW e \in {"linked", "skipped"}, r.facts = [facts EXCEPT !.email = e]
        PROVE  /\ r.facts \in SetupFacts(Version) /\ r.facts.email # "pending"
               /\ r.facts.current = facts.current /\ r.facts.acknowledged = facts.acknowledged
    BY <2>2 DEF SetupFacts, EmailStatus
  <2> QED BY <1>5, <2>1, <2>2 DEF Effected, DisclosureAcknowledged
<1> QED BY <1>1, <1>2, <1>3, <1>4, <1>5

LEMMA ServeKeeps == ASSUME Inv, NEW n \in Click, Serve(n) PROVE Inv'
<1>1. flow[n] # None /\ flow[n].phase \in {"sent", "orphan"} /\ flow[n] \in Flow
  BY DEF Serve, Inv, Typed, Flows, Sound
<1>2. PICK r \in Replies(n) \cup {Reply(facts, "lost")}, lost \in BOOLEAN :
         /\ facts' = r.facts
         /\ flow' = [flow EXCEPT ![n] =
               IF @.phase = "orphan" THEN Over
               ELSE [@ EXCEPT !.phase = "answered", !.answer = IF lost THEN "lost" ELSE r.answer]]
  BY DEF Serve
<1>3. /\ r.facts \in SetupFacts(Version)
      /\ \A kind : Effected(kind, facts) => Effected(kind, r.facts)
      /\ r.answer = "ok" => Effected(flow[n].kind, r.facts)
  <2>1. CASE r = Reply(facts, "lost")
    BY <2>1 DEF Reply, Inv, Typed
  <2>2. CASE r \in Replies(n)
    BY <1>1, <2>2, ServedFacts DEF Inv, Typed
  <2> QED BY <2>1, <2>2
<1>4. /\ \A m \in Click \ {n} : flow'[m] = flow[m]
      /\ \/ flow'[n] = Over
         \/ /\ flow'[n].phase = "answered" /\ flow'[n].answer \in {"lost", r.answer}
            /\ flow'[n].kind = flow[n].kind /\ flow'[n].saves = flow[n].saves
            /\ flow'[n].here = flow[n].here /\ flow[n].phase = "sent"
  BY <1>1, <1>2 DEF Inv, Typed, Flows, Flow
<1>5. UNCHANGED <<route, arrival, cache, latest, failures, reused, heading, crossed>>
  BY DEF Serve, history
<1>6. \A m \in Click, c \in Capability : Saving(flow'[m], c) => Saving(flow[m], c)
  BY <1>1, <1>4 DEF Saving, Over
<1>7. SavesInv'
  BY <1>5, <1>6 DEF Inv, SavesInv
<1>8. \A m \in Click : Told(flow'[m], facts', cache["state"].data)
  <2>1. \A m \in Click : Told(flow[m], facts, cache["state"].data)
    BY DEF Inv, EffectInv
  <2>2. ASSUME NEW m \in Click \ {n} PROVE Told(flow'[m], facts', cache["state"].data)
    BY <1>2, <1>3, <1>4, <2>1 DEF Told
  <2>3. Told(flow'[n], facts', cache["state"].data)
    <3>1. CASE flow'[n] = Over
      BY <3>1 DEF Told, Over
    <3>2. CASE flow'[n] # Over
      <4>1. /\ flow'[n].phase = "answered" /\ flow'[n].kind = flow[n].kind
            /\ flow'[n].answer = "ok" => r.answer = "ok"
        BY <1>4, <3>2
      <4>2. flow'[n].answer = "ok" => Effected(flow'[n].kind, facts')
        BY <1>2, <1>3, <4>1
      <4> QED BY <4>1, <4>2 DEF Told
    <3> QED BY <3>1, <3>2
  <2> QED BY <2>2, <2>3
<1>9. \A m \in Click : flow'[m] # None /\ flow'[m].here =>
         flow[m] # None /\ flow[m].here /\ flow[m].kind = flow'[m].kind
  BY <1>1, <1>4 DEF Over
<1>10. flow' \in Flows
  BY ServeSound DEF Inv, Typed
<1> QED BY <1>2, <1>3, <1>5, <1>7, <1>8, <1>9, <1>10, StandKeeps DEF Inv, Typed

(* ---------------------------- the answers arrive ------------------------- *)

\* A refetch that a flow starts to await has not ended.
LEMMA InvalidateKeeps ==
  ASSUME Inv, NEW n \in Click, flow[n] # None, flow[n].phase \in {"answered", "email"},
         flow[n].kind \in {"acknowledge", "skip"} => flow[n].answer = "ok",
         NEW q \in Query, Invalidate(n, q),
         UNCHANGED <<facts, route, arrival, latest, failures, history>>
  PROVE  Inv'
<1>1. flow[n] \in Sound /\ flow[n] \in Flow /\ flow[n].kind # "over"
  BY DEF Inv, Typed, Flows, Sound
<1>2. flow' \in Flows
  BY <1>1, InvalidateSound DEF Inv, Typed
<1> DEFINE b == ~ (q = "state" \/ Showing("email"))
<1>3. flow' = [flow EXCEPT ![n].phase = q, ![n].fetched = b]
  BY DEF Invalidate
<1>0. b \in BOOLEAN /\ (q = "state" => ~ b)
  OBVIOUS
<1> HIDE DEF b
<1>4. /\ \A m \in Click \ {n} : flow'[m] = flow[m]
      /\ flow'[n] = [flow[n] EXCEPT !.phase = q, !.fetched = b]
  BY <1>3 DEF Inv, Typed, Flows
<1>5. /\ flow'[n].phase = q /\ (q = "state" => ~ flow'[n].fetched)
      /\ flow'[n].kind = flow[n].kind /\ flow'[n].saves = flow[n].saves
      /\ flow'[n].answer = flow[n].answer /\ flow'[n].here = flow[n].here
  BY <1>1, <1>0, <1>4 DEF Flow
<1>6. cache' = cache \/ cache' = Fetching(cache, q)
  BY DEF Invalidate
<1>7. UNCHANGED <<facts, route, arrival, latest, failures, reused, heading, crossed>>
  BY DEF history
<1>8. \A m \in Click, c \in Capability : Saving(flow'[m], c) => Saving(flow[m], c)
  BY <1>4, <1>5 DEF Saving
<1>9. SavesInv'
  BY <1>7, <1>8 DEF Inv, SavesInv
<1>10. \A m \in Click : Told(flow'[m], facts', cache["state"].data)
  <2>1. \A m \in Click : Told(flow[m], facts, cache["state"].data)
    BY DEF Inv, EffectInv
  <2>2. Told(flow'[n], facts, cache["state"].data)
    BY <1>5, <2>1 DEF Told
  <2> QED BY <1>4, <1>7, <2>1, <2>2
<1>11. \A m \in Click : flow'[m] # None /\ flow'[m].here =>
          flow[m] # None /\ flow[m].here /\ flow[m].kind = flow'[m].kind
  BY <1>4, <1>5
<1> QED BY <1>2, <1>6, <1>7, <1>9, <1>10, <1>11, StandKeeps DEF Inv, Typed

\* A flow that ends while its screen stands.
LEMMA EndKeeps ==
  ASSUME Inv, NEW n \in Click, flow' = Ended(n),
         UNCHANGED <<facts, route, arrival, cache, latest, failures, history>>
  PROVE  Inv'
<1>1. flow' \in Flows /\ \A m \in Click : flow'[m] \in {flow[m], Over}
  BY EndedSound DEF Inv, Typed, Ended, Flows
<1>2. SavesInv'
  BY <1>1 DEF Inv, SavesInv, Saving, Over, history
<1>3. \A m \in Click : Told(flow'[m], facts', cache["state"].data)
  BY <1>1 DEF Inv, EffectInv, Told, Over
<1>4. \A m \in Click : flow'[m] # None /\ flow'[m].here => flow'[m] = flow[m]
  BY <1>1 DEF Over
<1> QED BY <1>1, <1>2, <1>3, <1>4, StandKeeps DEF Inv, Typed, history

LEMMA ReceiveKeeps == ASSUME Inv, NEW n \in Click, Receive(n) PROVE Inv'
<1>1. /\ flow[n] # None /\ flow[n].phase = "answered"
      /\ UNCHANGED <<facts, route, arrival, latest, failures, history>>
  BY DEF Receive
<1>2. CASE flow[n].kind \in {"configure", "degrade"}
  BY <1>1, <1>2, InvalidateKeeps DEF Receive, Query
<1>3. CASE flow[n].kind \notin {"configure", "degrade"} /\ flow[n].answer # "ok"
  BY <1>1, <1>3, EndKeeps DEF Receive
<1>4. CASE flow[n].kind \notin {"configure", "degrade"} /\ flow[n].answer = "ok"
  BY <1>1, <1>4, InvalidateKeeps DEF Receive, Query
<1> QED BY <1>2, <1>3, <1>4

LEMMA InvalidateStateKeeps == ASSUME Inv, NEW n \in Click, InvalidateState(n) PROVE Inv'
<1>1. flow[n].kind \in {"acknowledge", "skip"} => flow[n].answer = "ok"
  BY DEF InvalidateState, Inv, EffectInv, Told
<1> QED BY <1>1, InvalidateKeeps DEF InvalidateState, Query

\* What comes back of a save, and the save that follows it.
LEMMA NextSaveKeeps == ASSUME Inv, NEW n \in Click, NextSave(n) PROVE Inv'
<1> DEFINE c    == Head(flow[n].saves).capability
           rest == Tail(flow[n].saves)
           next == Head(rest).capability
           kept == IF flow[n].answer \in {"ok", "lost"} THEN failures
                   ELSE [failures EXCEPT ![c] = flow[n].answer]
           sent == [flow[n] EXCEPT !.phase = "sent", !.saves = rest, !.fetched = FALSE,
                                   !.answer = None]
<1>1. /\ flow[n] # None /\ flow[n].phase = "state" /\ flow[n].kind = "configure"
      /\ flow[n] \in Sound /\ flow[n] \in Flow
  BY DEF NextSave, Awaited, Inv, Typed, Flows, Sound
<1>2. flow[n].saves \in Seq(Choosable) /\ flow[n].saves # <<>>
  BY <1>1 DEF Sound
<1>3. c \in Capability
  <2>1. Head(flow[n].saves) \in Choosable
    BY <1>2
  <2> QED BY <2>1 DEF Choosable
<1>4. rest \in Seq(Choosable) /\ (rest # <<>> => Head(rest) \in Choosable)
  BY <1>2
<1>5. rest # <<>> => next \in Capability
  BY <1>4 DEF Choosable
<1>6. flow' \in Flows
  BY NextSaveSound DEF Inv, Typed
<1>7. /\ flow' = IF rest = <<>> THEN Ended(n)
                 ELSE [flow EXCEPT ![n].phase = "sent", ![n].saves = rest, ![n].fetched = FALSE,
                                   ![n].answer = None]
      /\ UNCHANGED <<facts, route, arrival, cache, reused, heading>>
  BY DEF NextSave
<1>8. /\ \A m \in Click \ {n} : flow'[m] = flow[m]
      /\ rest = <<>> => flow'[n] = Over
      /\ rest # <<>> => flow'[n] = sent
  BY <1>7 DEF Ended, Inv, Typed, Flows
<1>9. /\ sent.kind = "configure" /\ sent.here = flow[n].here /\ sent.phase = "sent"
      /\ sent.saves = rest
  BY <1>1 DEF Flow
<1>10. \/ ~ flow[n].here /\ UNCHANGED <<failures, latest, crossed>>
       \/ /\ flow[n].here /\ rest = <<>>
          /\ failures' = kept /\ latest' \in {0, latest} /\ crossed' = crossed
       \/ /\ flow[n].here /\ rest # <<>>
          /\ failures' = [kept EXCEPT ![next] = None] /\ latest' = n
          /\ crossed' = crossed \cup Crossing(next)
  BY DEF NextSave, Forgotten
<1>11. kept \in [Capability -> Answer \cup {None}]
  BY <1>1, <1>3 DEF Inv, Typed, Flow
<1>12. /\ failures' \in [Capability -> Answer \cup {None}] /\ latest' \in Click \cup {0}
       /\ crossed' \subseteq Capability
  BY <1>5, <1>10, <1>11 DEF Inv, Typed, Crossing
<1>13. \A d \in Capability : d # c => kept[d] = failures[d]
  BY <1>3 DEF Inv, Typed
<1>14. Saving(flow[n], c) <=> flow[n].here
  BY <1>1 DEF Saving
<1> HIDE DEF kept, sent, c, rest, next
<1>15. \A m \in Click \ {n}, d \in Capability : Saving(flow'[m], d) => Saving(flow[m], d)
  BY <1>8
<1>16. \A d \in Capability : Saving(flow'[n], d) => rest # <<>> /\ flow[n].here /\ d = next
  BY <1>8, <1>9 DEF Saving, Over, next
<1>17. ASSUME flow[n].here, rest # <<>>, NEW m \in Click, Saving(flow[m], next) PROVE next \in crossed'
  BY <1>5, <1>10, <1>17 DEF Crossing, Saving, Busy
<1>18. crossed \subseteq crossed'
  BY <1>10
<1>19. \A d \in Capability : Saving(flow[n], d) => d = c
  BY DEF Saving, c
<1>20. SavesInv'
  <2> SUFFICES ASSUME NEW m \in Click, NEW d \in Capability, Saving(flow'[m], d)
               PROVE  /\ \A k \in Click \ {m} : Saving(flow'[k], d) => d \in crossed'
                      /\ failures'[d] = None \/ d \in crossed'
    BY DEF SavesInv
  <2>1. ASSUME NEW k \in Click \ {m}, Saving(flow'[k], d) PROVE d \in crossed'
    <3>1. CASE m = n
      BY <1>15, <1>16, <1>17, <2>1, <3>1
    <3>2. CASE k = n
      BY <1>15, <1>16, <1>17, <2>1, <3>2
    <3>3. CASE m # n /\ k # n
      BY <1>15, <1>18, <2>1, <3>3 DEF Inv, SavesInv
    <3> QED BY <3>1, <3>2, <3>3
  <2>2. failures'[d] = None \/ d \in crossed'
    <3>1. CASE m = n
      <4>1. failures' = [kept EXCEPT ![next] = None] /\ d = next
        BY <1>10, <1>16, <3>1
      <4> QED BY <1>11, <4>1
    <3>2. CASE m # n /\ ~ flow[n].here
      BY <1>10, <1>15, <3>2 DEF Inv, SavesInv
    <3>3. CASE m # n /\ flow[n].here
      <4>1. failures[d] = None \/ d \in crossed
        BY <1>15, <3>3 DEF Inv, SavesInv
      <4>2. d = c => d \in crossed
        BY <1>14, <1>15, <3>3 DEF Inv, SavesInv
      <4>3. failures'[d] \in {None, kept[d]}
        BY <1>10, <1>11, <3>3
      <4> QED BY <1>13, <1>18, <4>1, <4>2, <4>3
    <3> QED BY <3>1, <3>2, <3>3
  <2> QED BY <2>1, <2>2
<1>21. \A m \in Click : Told(flow'[m], facts', cache["state"].data)
  <2>1. \A m \in Click : Told(flow[m], facts, cache["state"].data)
    BY DEF Inv, EffectInv
  <2>2. Told(flow'[n], facts', cache["state"].data)
    BY <1>8, <1>9 DEF Told, Over
  <2> QED BY <1>7, <1>8, <2>1, <2>2
<1>22. \A m \in Click : flow'[m] # None /\ flow'[m].here =>
          flow[m] # None /\ flow[m].here /\ flow[m].kind = flow'[m].kind
  BY <1>1, <1>8, <1>9 DEF Over
<1> QED BY <1>6, <1>7, <1>12, <1>20, <1>21, <1>22, StandKeeps DEF Inv, Typed

\* Whoever awaited a fetch goes on, and nothing else of a flow changes.
LEMMA Released ==
  ASSUME flow \in Flows, NEW q \in Query, NEW n \in Click, Release(flow, q)[n] # None
  PROVE  LET f == Release(flow, q)[n]
         IN  /\ flow[n] # None /\ f.kind = flow[n].kind /\ f.saves = flow[n].saves
             /\ f.phase = flow[n].phase /\ f.answer = flow[n].answer /\ f.here = flow[n].here
             /\ flow[n].phase # q => f.fetched = flow[n].fetched
<1> DEFINE f == Release(flow, q)[n]
<1>1. f = IF flow[n] # None /\ flow[n].phase = q THEN [flow[n] EXCEPT !.fetched = TRUE] ELSE flow[n]
  BY DEF Release
<1>2. flow[n] # None => flow[n] \in Flow
  BY DEF Flows, Sound
<1>3. flow[n] # None
  BY <1>1
<1> HIDE DEF f
<1>4. /\ flow[n] # None /\ f.kind = flow[n].kind /\ f.saves = flow[n].saves
      /\ f.phase = flow[n].phase /\ f.answer = flow[n].answer /\ f.here = flow[n].here
      /\ flow[n].phase # q => f.fetched = flow[n].fetched
  BY <1>1, <1>2, <1>3 DEF Flow
<1> QED BY <1>4 DEF f

\* The end of a fetch of the email changes nothing that the guard reads.
LEMMA EmailUnseen ==
  ASSUME Inv, NEW c \in Cache, c["state"] = cache["state"]
  PROVE  /\ Latched(route, arrival, c) = arrival
         /\ RedirectOn(route, arrival, c) = RedirectOn(route, arrival, cache)
BY DEF Inv, LatchInv, Latched, RedirectOn

\* The end of a fetch, whatever it brings: c is what the cache becomes.
LEMMA FetchEnds ==
  ASSUME Inv, NEW q \in Query, NEW c \in Cache, Render(route, arrival, c, Release(flow, q)),
         facts' = facts, reused' = reused, heading' \subseteq Route,
         q = "email" => c["state"] = cache["state"] /\ heading' = heading,
         q = "state" => \/ c["state"].failed
                        \/ c["state"].data = {facts} /\ heading' = {}
  PROVE  Inv'
<1> DEFINE fl   == Release(flow, q)
           data == IF c["state"].failed THEN {} ELSE c["state"].data
<1>1. fl \in Flows
  BY ReleaseSound DEF Inv, Typed
<1>2. \A n \in Click : fl[n] # None /\ fl[n].here =>
         flow[n] # None /\ flow[n].here /\ flow[n].kind = fl[n].kind
  BY Released DEF Inv, Typed
<1>3. \A n \in Click, cap \in Capability : Saving(fl[n], cap) => Saving(flow[n], cap)
  BY Released DEF Saving, Inv, Typed
<1>4. \A n \in Click : Told(fl[n], facts, data)
  <2> SUFFICES ASSUME NEW n \in Click, fl[n] # None PROVE Told(fl[n], facts, data)
    BY DEF Told
  <2>1. /\ flow[n] # None /\ fl[n].kind = flow[n].kind /\ fl[n].phase = flow[n].phase
        /\ fl[n].answer = flow[n].answer /\ fl[n].here = flow[n].here
        /\ flow[n].phase # q => fl[n].fetched = flow[n].fetched
    BY Released DEF Inv, Typed
  <2>2. Told(flow[n], facts, cache["state"].data)
    BY DEF Inv, EffectInv
  <2>3. q = "state" => data \subseteq {facts}
    OBVIOUS
  <2>4. q = "email" => data \subseteq cache["state"].data
    OBVIOUS
  <2> HIDE DEF fl, data
  <2> QED BY <2>1, <2>2, <2>3, <2>4 DEF Told, Query
<1>5. \/ reused' /\ Done(Latched(route, arrival, c))
      \/ heading' \cap RedirectOn(route, Latched(route, arrival, c), c) = {}
  <2>1. CASE q = "email"
    BY <2>1, EmailUnseen DEF Inv, HeadingInv, Outdated, Done
  <2>2. CASE q = "state"
    BY <2>2 DEF RedirectOn
  <2> QED BY <2>1, <2>2 DEF Query
<1> HIDE DEF fl
<1>6. Render(route, arrival, c, fl)
  BY DEF fl
<1> QED BY <1>1, <1>2, <1>3, <1>4, <1>5, <1>6, RenderKeeps DEF Inv, Typed

LEMMA ArriveKeeps == ASSUME Inv, NEW q \in Query, Arrive(q) PROVE Inv'
<1> DEFINE answered == [data |-> {IF q = "state" THEN facts ELSE facts.email},
                        failed |-> FALSE, fetching |-> FALSE]
           c == [cache EXCEPT ![q] = answered]
<1>1. /\ Render(route, arrival, c, Release(flow, q))
      /\ heading' = (IF q = "state" THEN {} ELSE heading)
      /\ facts' = facts /\ reused' = reused
  BY DEF Arrive
<1>2. c \in Cache
  <2>1. q = "state" => answered \in QueryOf(SetupFacts(Version))
    BY DEF QueryOf, Optional, Inv, Typed
  <2>2. q = "email" => answered \in QueryOf(EmailStatus)
    BY DEF QueryOf, Optional, Inv, Typed, SetupFacts
  <2> HIDE DEF answered
  <2> QED BY <2>1, <2>2 DEF Cache, Query, Inv, Typed
<1>3. q = "email" => c["state"] = cache["state"]
  BY DEF Inv, Typed, Cache, Query
<1>4. q = "state" => c["state"].data = {facts}
  BY DEF Inv, Typed, Cache, Query
<1> HIDE DEF c
<1> QED BY <1>1, <1>2, <1>3, <1>4, FetchEnds DEF Inv, Typed, Query

LEMMA FailKeeps == ASSUME Inv, NEW q \in Query, Fail(q) PROVE Inv'
<1> DEFINE c == [cache EXCEPT ![q].failed = TRUE, ![q].fetching = FALSE]
<1>1. /\ Render(route, arrival, c, Release(flow, q))
      /\ facts' = facts /\ reused' = reused /\ heading' = heading
  BY DEF Fail
<1>2. c = [cache EXCEPT ![q] = [cache[q] EXCEPT !.failed = TRUE, !.fetching = FALSE]]
  BY DEF Inv, Typed, Cache
<1> HIDE DEF c
<1>3. \A S : \A x \in QueryOf(S) : /\ [x EXCEPT !.failed = TRUE, !.fetching = FALSE] \in QueryOf(S)
                                   /\ [x EXCEPT !.failed = TRUE, !.fetching = FALSE].failed
  BY DEF QueryOf
<1>4. /\ c \in Cache
      /\ q = "email" => c["state"] = cache["state"]
      /\ q = "state" => c["state"].failed
  <2> DEFINE failed(x) == [x EXCEPT !.failed = TRUE, !.fetching = FALSE]
  <2>1. \A S : \A x \in QueryOf(S) : failed(x) \in QueryOf(S) /\ failed(x).failed
    BY <1>3
  <2>2. c = [cache EXCEPT ![q] = failed(cache[q])]
    BY <1>2
  <2> HIDE DEF failed
  <2>3. CASE q = "state"
    BY <2>1, <2>2, <2>3 DEF Cache, Query, Inv, Typed
  <2>4. CASE q = "email"
    BY <2>1, <2>2, <2>4 DEF Cache, Query, Inv, Typed
  <2> QED BY <2>3, <2>4 DEF Query
<1> QED BY <1>1, <1>4, FetchEnds DEF Inv, Typed

(* ------------------------------ the theorems ----------------------------- *)

LEMMA UnaskedCache ==
  /\ Unasked \in Cache /\ Unasked["state"].data = {}
  /\ \A r : Latched(r, {}, Unasked) = {} /\ RedirectOn(r, {}, Unasked) = {}
<1>1. Unasked["state"].data = {}
  BY DEF Unasked, NoAnswer, Query
<1>2. Unasked \in Cache
  BY DEF Unasked, NoAnswer, Query, Cache, QueryOf, Optional
<1> QED BY <1>1, <1>2 DEF Latched, RedirectOn

LEMMA ReloadKeeps == ASSUME Inv, Reload PROVE Inv'
<1>1. /\ route' \in Route /\ arrival' = {} /\ cache' = Unasked /\ latest' = 0
      /\ failures' = NoFailure /\ reused' = FALSE /\ heading' = {} /\ crossed' = {}
      /\ facts' = facts
  BY DEF Reload, Inv, Typed, Route
<1>2. \A n \in Click : flow'[n] # None => ~ flow'[n].here /\ flow'[n].phase \in {"orphan", "done"}
  <2> SUFFICES ASSUME NEW n \in Click, flow[n] # None
               PROVE  ~ flow'[n].here /\ flow'[n].phase \in {"orphan", "done"}
    BY DEF Reload
  <2>1. flow[n] \in Flow
    BY DEF Inv, Typed, Flows, Sound
  <2>2. flow'[n] \in {Over, [flow[n] EXCEPT !.here = FALSE, !.phase = "orphan"]}
    BY DEF Reload
  <2>3. CASE flow'[n] = Over
    BY <2>3 DEF Over
  <2>4. CASE flow'[n] = [flow[n] EXCEPT !.here = FALSE, !.phase = "orphan"]
    BY <2>1, <2>4 DEF Flow
  <2> QED BY <2>2, <2>3, <2>4
<1>3. Typed'
  <2>1. NoFailure \in [Capability -> Answer \cup {None}]
    BY DEF NoFailure
  <2> QED BY <1>1, <2>1, UnaskedCache, ReloadSound DEF Inv, Typed, Optional
<1>4. HereInv' /\ SavesInv'
  BY <1>2 DEF HereInv, SavesInv, Saving
<1>5. EffectInv'
  BY <1>2 DEF EffectInv, Told
<1>6. LatchInv' /\ HeadingInv'
  BY <1>1, UnaskedCache DEF LatchInv, HeadingInv, Outdated
<1> QED BY <1>3, <1>4, <1>5, <1>6 DEF Inv

LEMMA InitInv == Init => Inv
<1> SUFFICES ASSUME Init PROVE Inv
  OBVIOUS
<1>1. Typed
  <2>1. NoFailure \in [Capability -> Answer \cup {None}]
    BY DEF NoFailure
  <2> QED BY <2>1, UnaskedCache, WizardAssumption DEF Init, Typed, Optional, Flows
<1>2. HereInv /\ SavesInv /\ EffectInv
  BY DEF Init, HereInv, SavesInv, Saving, EffectInv, Told
<1>3. LatchInv /\ HeadingInv
  BY UnaskedCache DEF Init, LatchInv, HeadingInv
<1> QED BY <1>1, <1>2, <1>3 DEF Inv

LEMMA StutterKeeps == ASSUME Inv, UNCHANGED vars PROVE Inv'
<1>1. UNCHANGED <<facts, route, arrival, cache, flow, latest, failures, reused, heading, crossed>>
  BY DEF vars, tab, history
<1>2. SavesInv'
  BY <1>1 DEF Inv, SavesInv
<1>3. \A n \in Click : Told(flow'[n], facts', cache["state"].data)
  BY <1>1 DEF Inv, EffectInv
<1> QED BY <1>1, <1>2, <1>3, StandKeeps DEF Inv, Typed

LEMMA NextInv == Inv /\ [Next]_vars => Inv'
<1> SUFFICES ASSUME Inv, [Next]_vars PROVE Inv'
  OBVIOUS
<1>1. CASE Acknowledge \/ Link \/ Skip
  BY <1>1, CallKeeps
<1>2. CASE Verify
  BY <1>2, VerifyKeeps
<1>3. CASE Continue
  BY <1>3, ContinueKeeps
<1>4. CASE Finish
  BY <1>4, FinishKeeps
<1>5. ASSUME NEW c \in Capability, Retry(c) \/ ChangeProvider(c) \/ AcknowledgeDegradation(c)
      PROVE  Inv'
  BY <1>5, RetryKeeps, ChangeProviderKeeps, CallKeeps
<1>6. ASSUME NEW n \in Click, Progress(n) PROVE Inv'
  BY <1>6, ServeKeeps, ReceiveKeeps, InvalidateStateKeeps, NextSaveKeeps, ConcludeKeeps DEF Progress
<1>7. ASSUME NEW q \in Query, Arrive(q) \/ Fail(q) PROVE Inv'
  BY <1>7, ArriveKeeps, FailKeeps
<1>8. CASE Follow
  BY <1>8, FollowKeeps
<1>9. CASE Reload
  BY <1>9, ReloadKeeps
<1>10. CASE UNCHANGED vars
  BY <1>10, StutterKeeps
<1> QED BY <1>1, <1>2, <1>3, <1>4, <1>5, <1>6, <1>7, <1>8, <1>9, <1>10 DEF Next

\* The invariant of one tab: its types, what each flow in flight has made true of the
\* facts, and what the guard, the screen and the providers' failures have to do with it.
THEOREM Invariance == Spec => []Inv
BY InitInv, NextInv, PTL DEF Spec

\* Every variable of a tab keeps its type, for any matrix and any number of clicks.
THEOREM TypeOKHolds == Spec => []TypeOK
<1>1. Inv => TypeOK
  BY DEF Inv, Typed, TypeOK, Cache, QueryOf, Optional, Flows, Sound
<1> QED BY <1>1, Invariance, PTL

\* What the providers screen remembers of a capability is the answer to the save that
\* came back last, unless two saves of it were in flight at once
\* (ProvidersScreen.tsx:89-104), however many saves the screen has sent.
THEOREM LatestUnlessCrossedHolds == Spec => LatestUnlessCrossed
<1> DEFINE Latest == \A n \in Click : NextSave(n) /\ flow[n].here =>
              LET c == Head(flow[n].saves).capability
              IN  failures'[c] \in {None, flow[n].answer} \/ c \in crossed
<1>1. Inv => Latest
  <2> SUFFICES ASSUME Inv, NEW n \in Click, NextSave(n), flow[n].here,
                      NEW c, c = Head(flow[n].saves).capability
               PROVE  failures'[c] \in {None, flow[n].answer} \/ c \in crossed
    OBVIOUS
  <2> DEFINE rest == Tail(flow[n].saves)
             kept == IF flow[n].answer \in {"ok", "lost"} THEN failures
                     ELSE [failures EXCEPT ![c] = flow[n].answer]
             next == Head(rest).capability
  <2>1. /\ flow[n] # None /\ flow[n].phase = "state" /\ flow[n].kind = "configure"
        /\ flow[n] \in Sound
    BY DEF NextSave, Awaited, Inv, Typed, Flows
  <2>2. c \in Capability
    <3>1. Head(flow[n].saves) \in Choosable
      BY <2>1 DEF Sound
    <3> QED BY <3>1 DEF Choosable
  <2>3. failures[c] = None \/ c \in crossed
    BY <2>1, <2>2 DEF Inv, SavesInv, Saving
  <2>4. failures' = kept \/ failures' = [kept EXCEPT ![next] = None]
    BY DEF NextSave, Forgotten
  <2>5. kept[c] \in {failures[c], flow[n].answer} /\ c \in DOMAIN kept
    BY <2>2 DEF Inv, Typed
  <2> HIDE DEF kept, next
  <2> QED BY <2>3, <2>4, <2>5
<1>2. Inv => [Latest]_vars
  BY <1>1
<1> HIDE DEF Latest
<1>3. Spec => [][Latest]_vars
  BY <1>2, Invariance, PTL
<1> QED BY <1>3 DEF LatestUnlessCrossed, Latest

\* By the time a button sends the candidate on, the guard of the next step already sees
\* what they did (DisclosureScreen.tsx:24-25): they are sent back on what the tab knew
\* then only by a guard that the router kept and that latched, on arrival at an earlier
\* route, that the step there was done or the first run over.  The confirmation of a
\* link is not claimed to be such a button (useEmailStep.ts:51-54).
THEOREM SentBackOnlyByOldLatchHolds == Spec => SentBackOnlyByOldLatch
<1> DEFINE Onward == Follow => route' \notin heading \/ Outdated
<1>1. Inv => Onward
  <2> SUFFICES ASSUME Inv, Follow PROVE route' \notin heading \/ Outdated
    OBVIOUS
  <2>1. route' \in RedirectOn(route, arrival, cache)
    BY DEF Follow, Go, Render
  <2> QED BY <2>1 DEF Inv, HeadingInv
<1>2. Inv => [Onward]_vars
  BY <1>1
<1> HIDE DEF Onward
<1>3. Spec => [][Onward]_vars
  BY <1>2, Invariance, PTL
<1> QED BY <1>3 DEF SentBackOnlyByOldLatch, Onward

\* "React Router mounts a fresh guard per route" (FirstRunGuard.tsx:113-114): if it did,
\* nobody would ever be sent back to the screen whose button sent them on.
THEOREM NeverSentBackIfRemounted == ASSUME FALSE \notin Remounts PROVE Spec => NeverSentBack
<1> DEFINE Mounted == ~ reused
           Onward  == Follow => route' \notin heading
<1>1. Init => Mounted
  BY DEF Init
<1>2. Mounted /\ [Next]_vars => Mounted'
  <2> SUFFICES ASSUME Mounted, [Next]_vars PROVE Mounted'
    OBVIOUS
  <2>1. ASSUME NEW r, NEW fl, Go(r, fl) PROVE Mounted'
    <3>1. PICK fresh \in IF route = "entry" THEN {TRUE} ELSE Remounts : reused' = ~ fresh
      BY <2>1 DEF Go
    <3>2. fresh = TRUE
      BY <3>1, WizardAssumption
    <3> QED BY <3>1, <3>2
  <2>2. CASE Continue \/ Finish \/ Follow
    BY <2>1, <2>2 DEF Continue, Push, Finish, Follow
  <2>3. CASE Acknowledge \/ Link \/ Skip
    BY <2>3 DEF Acknowledge, Link, Skip, history
  <2>4. CASE Verify
    BY <2>4 DEF Verify, Submit
  <2>5. ASSUME NEW c \in Capability, Retry(c) \/ ChangeProvider(c) \/ AcknowledgeDegradation(c)
        PROVE  Mounted'
    BY <2>5 DEF Retry, Submit, ChangeProvider, AcknowledgeDegradation, history
  <2>6. ASSUME NEW n \in Click, Progress(n) PROVE Mounted'
    <3>1. CASE Serve(n) \/ Receive(n) \/ InvalidateState(n) \/ NextSave(n)
      BY <3>1 DEF Serve, Receive, InvalidateState, NextSave, history
    <3>2. CASE Conclude(n)
      BY <2>1, <3>2 DEF Conclude, Push, history
    <3> QED BY <2>6, <3>1, <3>2 DEF Progress
  <2>7. ASSUME NEW q \in Query, Arrive(q) \/ Fail(q) PROVE Mounted'
    BY <2>7 DEF Arrive, Fail
  <2>8. CASE Reload
    BY <2>8 DEF Reload
  <2>9. CASE UNCHANGED vars
    BY <2>9 DEF vars, history
  <2> QED BY <2>2, <2>3, <2>4, <2>5, <2>6, <2>7, <2>8, <2>9 DEF Next
<1>3. Mounted /\ [Follow => route' \notin heading \/ Outdated]_vars => [Onward]_vars
  BY DEF Outdated
<1> HIDE DEF Mounted, Onward
<1>4. Spec => []Mounted
  BY <1>1, <1>2, PTL DEF Spec
<1>5. Spec => [][Follow => route' \notin heading \/ Outdated]_vars
  BY SentBackOnlyByOldLatchHolds DEF SentBackOnlyByOldLatch
<1>6. Spec => [][Onward]_vars
  BY <1>3, <1>4, <1>5, PTL
<1> QED BY <1>6 DEF NeverSentBack, Onward
===============================================================================
