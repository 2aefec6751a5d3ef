------------------------------ MODULE WizardProofs -----------------------------
(***************************************************************************)
(* What holds of the wizard for every matrix, every set of facts and any   *)
(* number of clicks: where the guards send the candidate, and what the     *)
(* catalogue offers.                                                       *)
(***************************************************************************)
EXTENDS Wizard, TLAPS

(* ------------------------------- the guards ------------------------------ *)

\* What a guard just mounted on r has latched.
Fresh(r, seen) == IF r \in Step THEN {ArrivalAt(r, seen)} ELSE {}

\* A guard mounted afresh sends the candidate where the next one keeps them: there is
\* no chain of two redirects, and so no circle, whatever the facts
\* (FirstRunGuard.tsx:129-171).
THEOREM FreshRedirectSettles ==
  ASSUME NEW seen \in SetupFacts(Version), NEW r \in Route,
         NEW t \in RedirectOf(r, seen, Fresh(r, seen))
  PROVE  RedirectOf(t, seen, Fresh(t, seen)) = {}
<1> DEFINE acknowledged == DisclosureAcknowledged(seen)
           able         == SomeUsable(seen.generation)
           pending      == PendingStep(seen)
<1>1. /\ ~ acknowledged => pending = {"disclosure"}
      /\ acknowledged /\ ~ able => pending = {"providers"}
      /\ acknowledged /\ able /\ seen.email # "pending" => pending = {}
      /\ acknowledged /\ able /\ seen.email = "pending" =>
            pending = {"providers"} \/ pending = {"email"}
  BY DEF PendingStep
<1>2. \A s \in Step : RedirectOf(s, seen, Fresh(s, seen)) =
         IF pending = {} THEN {"onboarding"}
         ELSE IF PrerequisiteOf(s, seen) # {} THEN PrerequisiteOf(s, seen)
         ELSE IF IsSatisfied(s, seen) THEN pending \ {s} ELSE {}
  <2> SUFFICES ASSUME NEW s \in Step
               PROVE  RedirectOf(s, seen, {ArrivalAt(s, seen)}) =
                         IF pending = {} THEN {"onboarding"}
                         ELSE IF PrerequisiteOf(s, seen) # {} THEN PrerequisiteOf(s, seen)
                         ELSE IF IsSatisfied(s, seen) THEN pending \ {s} ELSE {}
    BY DEF Fresh
  <2>1. s # "entry" /\ s # "onboarding"
    BY DEF Step
  <2>2. /\ ArrivalAt(s, seen).finished <=> pending = {}
        /\ ArrivalAt(s, seen).satisfied = IsSatisfied(s, seen)
    BY DEF ArrivalAt
  <2> QED BY <2>1, <2>2 DEF RedirectOf
<1>3. RedirectOf("onboarding", seen, Fresh("onboarding", seen)) = pending
  BY DEF RedirectOf
<1>4. CASE pending = {}
  <2>1. t = "onboarding"
    BY <1>2, <1>3, <1>4 DEF Route, RedirectOf
  <2> QED BY <1>3, <1>4, <2>1
<1>5. CASE ~ acknowledged
  <2>1. t = "disclosure"
    BY <1>1, <1>2, <1>3, <1>5 DEF Route, RedirectOf, PrerequisiteOf, Step, IsSatisfied
  <2> QED BY <1>1, <1>2, <1>5, <2>1 DEF PrerequisiteOf, IsSatisfied, Step
<1>6. CASE acknowledged /\ pending = {"providers"}
  <2>1. t = "providers"
    BY <1>1, <1>2, <1>3, <1>6 DEF Route, RedirectOf, PrerequisiteOf, Step
  <2> QED BY <1>2, <1>6, <2>1 DEF PrerequisiteOf, Step
<1>7. CASE acknowledged /\ pending = {"email"}
  <2>1. able /\ seen.email = "pending"
    BY <1>1, <1>7
  <2>2. t = "email"
    BY <1>2, <1>3, <1>7, <2>1 DEF Route, RedirectOf, PrerequisiteOf, Step
  <2> QED BY <1>2, <1>7, <2>1, <2>2 DEF PrerequisiteOf, Step
<1> QED BY <1>1, <1>4, <1>5, <1>6, <1>7

(* ------------------------------ the catalogue ---------------------------- *)

\* Whatever the matrix says, an option the wizard lists can be configured: the
\* preflight accepts it, the factory builds its probe with the model the option shows,
\* it has a price (provider_catalog_service.py:102-123), and a rejection of its key
\* names the console where to get another (preflight_service.py:294).
THEOREM ListedIsServed ==
  ASSUME NEW c \in Capability, NEW o \in OptionsFor(c)
  PROVE  /\ ResolveOfferable(o.provider, c) = {o.provider}
         /\ BuildProbe(o.provider, c, {}) = o.default_model /\ o.default_model # {}
         /\ PricingFor(o.provider, c) # {} /\ ConsoleUrlOf(o.provider) # {}
<1>1. PICK p \in ImplementedAndOfferable(c) : o = OptionView(p, c)
  BY DEF OptionsFor
<1>2. o.provider = p /\ o.default_model = DefaultModel(p, c)
  BY <1>1 DEF OptionView
<1>3. ResolveOfferable(p, c) = {p}
  BY <1>1 DEF ResolveOfferable
<1>4. BuildProbe(p, c, {}) = DefaultModel(p, c) /\ DefaultModel(p, c) = {Model[c]}
  BY <1>1 DEF BuildProbe, DefaultModel, ImplementedAndOfferable
<1>5. ~ (p = "anthropic" /\ c = "embeddings")
  BY <1>1 DEF ImplementedAndOfferable, IsImplemented
<1>6. p \in Provider
  BY <1>1 DEF ImplementedAndOfferable, OfferableFor
<1> QED BY <1>2, <1>3, <1>4, <1>5, <1>6 DEF PricingFor, ConsoleUrlOf

\* The matrix, what it offers and the prices are three tables kept by hand: nothing is
\* offered that a row denies, and nothing that is not denied lacks a price
\* (capabilities.py:134-167, pricing.py:83-113).
THEOREM OfferableIsPriced ==
  ASSUME NEW c \in Capability, NEW p \in Provider
  PROVE  /\ p \in OfferableFor(c) => DeclaresCapability(p, c)
         /\ DeclaresCapability(p, c) => p \in PricedOptions(c)
<1>1. p \in OfferableFor(c) => DeclaresCapability(p, c)
  BY DEF OfferableFor, Supports, DeclaresCapability
<1>2. DeclaresCapability(p, c) => ~ (p = "anthropic" /\ c = "embeddings")
  BY MatrixAssumption DEF DeclaresCapability
<1> QED BY <1>1, <1>2 DEF PricedOptions, PricingFor

(* ------------------------------ the saves -------------------------------- *)

\* The matrix leaves every capability an option.
Offered == \A c \in Capability : OptionsFor(c) # {}

LEMMA ChoiceIsServed ==
  ASSUME Offered, NEW c \in Capability, NEW p \in Choice(c)
  PROVE  ResolveOfferable(p, c) # {}
<1>1. PICK o \in OptionsFor(c) : p = o.provider
  <2>1. \A x \in Suggested(OptionsFor(c)) : \E o \in OptionsFor(c) : x = o.provider
    BY DEF Suggested, Offered
  <2> QED BY <2>1 DEF Choice
<1> QED BY <1>1, ListedIsServed

\* A save of something on screen.
Choosable == {s \in [capability : Capability, provider : Provider \cup {""}] :
                 s.provider \in Choice(s.capability)}

\* A flow saves what was on screen, has always one save to make, and was never refused
\* as not offered if there is an option for every capability.
Sound == {f \in Flow : /\ f.kind = "configure" => f.saves \in Seq(Choosable) /\ f.saves # <<>>
                       /\ f.kind = "over" => f.phase = "done"
                       /\ Offered => f.answer # "PROVIDER_NOT_OFFERED"}

Flows == [Click -> Sound \cup {None}]

LEMMA OverSound == Over \in Sound
<1>1. <<>> \in Seq([capability : Capability, provider : Provider \cup {""}])
  OBVIOUS
<1>2. Over \in Flow
  BY <1>1 DEF Over, Flow
<1>3. None # "PROVIDER_NOT_OFFERED"
  BY WizardAssumption DEF Answer
<1> QED BY <1>2, <1>3 DEF Over, Sound

LEMMA SoundStep ==
  ASSUME NEW f \in Sound, f.kind # "over"
  PROVE  /\ \A here \in BOOLEAN : [f EXCEPT !.here = here] \in Sound
         /\ [f EXCEPT !.fetched = TRUE] \in Sound
         /\ \A q \in {"email", "state"}, b \in BOOLEAN :
               [f EXCEPT !.phase = q, !.fetched = b] \in Sound
         /\ \A a \in Answer : (Offered => a # "PROVIDER_NOT_OFFERED") =>
               [f EXCEPT !.phase = "answered", !.answer = a] \in Sound
         /\ [f EXCEPT !.here = FALSE, !.phase = "orphan"] \in Sound
BY DEF Sound, Flow

LEMMA EndedSound == ASSUME flow \in Flows, NEW n \in Click PROVE Ended(n) \in Flows
BY OverSound DEF Ended, Flows

LEMMA ReleaseSound == ASSUME flow \in Flows, NEW q \in Query PROVE Release(flow, q) \in Flows
<1> SUFFICES ASSUME NEW n \in Click, flow[n] # None, flow[n].phase = q
             PROVE  [flow[n] EXCEPT !.fetched = TRUE] \in Sound
  BY DEF Release, Flows
<1>1. flow[n] \in Sound /\ flow[n].kind # "over"
  BY DEF Flows, Sound, Query
<1> QED BY <1>1, SoundStep

LEMMA RenderSound ==
  ASSUME NEW r, NEW a, NEW c, NEW fl \in Flows, Render(r, a, c, fl)
  PROVE  flow' \in Flows
<1>1. \/ flow' = fl
      \/ flow' = [n \in Click |-> IF fl[n] = None THEN None ELSE [fl[n] EXCEPT !.here = FALSE]]
  BY DEF Render
<1>2. \A f \in Sound : [f EXCEPT !.here = FALSE] \in Sound
  BY DEF Sound, Flow
<1> QED BY <1>1, <1>2 DEF Flows

LEMMA GoSound ==
  ASSUME NEW r, NEW fl \in Flows, Go(r, fl) PROVE flow' \in Flows
BY RenderSound DEF Go

LEMMA InvalidateSound ==
  ASSUME flow \in Flows, NEW n \in Click, flow[n] # None, flow[n].kind # "over",
         NEW q \in Query, Invalidate(n, q)
  PROVE  flow' \in Flows
<1>1. PICK b \in BOOLEAN : flow' = [flow EXCEPT ![n].phase = q, ![n].fetched = b]
  BY DEF Invalidate
<1>2. flow' = [flow EXCEPT ![n] = [flow[n] EXCEPT !.phase = q, !.fetched = b]]
  BY <1>1 DEF Flows
<1>3. [flow[n] EXCEPT !.phase = q, !.fetched = b] \in Sound
  BY SoundStep DEF Flows, Query
<1> QED BY <1>2, <1>3 DEF Flows

LEMMA SendSound ==
  ASSUME flow \in Flows, NEW kind \in {"acknowledge", "degrade", "link", "skip", "configure"},
         NEW saves \in Seq([capability : Capability, provider : Provider \cup {""}]),
         kind = "configure" => saves \in Seq(Choosable) /\ saves # <<>>,
         Send(kind, saves)
  PROVE  flow' \in Flows
<1> DEFINE f == [kind |-> kind, saves |-> saves, phase |-> "sent", fetched |-> FALSE,
                 answer |-> None, here |-> TRUE]
<1>1. f \in Flow
  BY DEF Flow
<1>2. f \in Sound
  BY <1>1, WizardAssumption DEF Sound, Answer
<1>3. flow' = [flow EXCEPT ![Min(Unused)] = f]
  BY DEF Send
<1> QED BY <1>2, <1>3 DEF Flows

LEMMA SubmitSound ==
  ASSUME flow \in Flows, NEW saves \in Seq(Choosable), saves # <<>>, Submit(saves)
  PROVE  flow' \in Flows
<1> DEFINE All == [capability : Capability, provider : Provider \cup {""}]
<1>1. Choosable \subseteq All
  BY DEF Choosable
<1>2. saves \in Seq(All)
  <2> HIDE DEF All
  <2> QED BY <1>1
<1> QED BY <1>2, SendSound DEF Submit

LEMMA SaveChoosable ==
  ASSUME NEW c \in Capability, NEW p \in Choice(c) PROVE Save(c, p) \in Choosable
<1>1. Provider # {} /\ \A o \in OptionsFor(c) : o.provider \in Provider
  BY DEF OptionsFor, OptionView, ImplementedAndOfferable, OfferableFor, Provider
<1>2. Suggested(OptionsFor(c)) \subseteq Provider \cup {""}
  BY <1>1 DEF Suggested
<1>3. p \in Provider \cup {""}
  BY <1>1, <1>2 DEF Choice
<1> QED BY <1>3 DEF Save, Choosable

\* The answers that do not come from a save.
LEMMA OtherAnswers ==
  ASSUME flow \in Flows, NEW n \in Click, flow[n] # None,
         flow[n].kind \in {"acknowledge", "degrade", "link", "skip"}, NEW r \in Replies(n)
  PROVE  r.answer \in {"ok", "refused"}
<1>1. CASE flow[n].kind = "acknowledge"
  BY <1>1 DEF Replies, RepliesToAcknowledge, Reply
<1>2. CASE flow[n].kind = "degrade"
  BY <1>2 DEF Replies, RepliesToDegrade, Reply
<1>3. CASE flow[n].kind \in {"link", "skip"}
  BY <1>3 DEF Replies, Reply
<1> QED BY <1>1, <1>2, <1>3

LEMMA SaveAnswers ==
  ASSUME NEW c \in Capability, NEW p \in Choice(c), NEW r \in RepliesToSave(c, p)
  PROVE  r.answer \in Answer /\ (Offered => r.answer # "PROVIDER_NOT_OFFERED")
<1>1. Offered => ResolveOfferable(p, c) # {}
  BY ChoiceIsServed
<1>2. \A o : CodeOf(o) \in Answer \ {"PROVIDER_NOT_OFFERED"}
  BY DEF CodeOf, Answer
<1>3. \A f, a : Reply(f, a).answer = a
  BY DEF Reply
<1>4. CASE r \in {Reply(Stored(facts, c, optional), "refused") : optional \in AfterProbe(c, Unreachable)}
  BY <1>3, <1>4 DEF Answer
<1>5. CASE \E o \in Outcome :
            r \in {Reply(Stored(facts, c, optional), CodeOf(o)) : optional \in AfterProbe(c, o)}
  <2>1. PICK o \in Outcome :
           r \in {Reply(Stored(facts, c, optional), CodeOf(o)) : optional \in AfterProbe(c, o)}
    BY <1>5
  <2> QED BY <1>2, <1>3, <2>1
<1>6. CASE r = Reply(facts, "PROVIDER_NOT_OFFERED") /\ ResolveOfferable(p, c) = {}
  BY <1>1, <1>3, <1>6 DEF Answer
<1> QED BY <1>4, <1>5, <1>6 DEF RepliesToSave

LEMMA ServeSound ==
  ASSUME flow \in Flows, NEW n \in Click, Serve(n) PROVE flow' \in Flows
<1>1. flow[n] \in Sound /\ flow[n].kind # "over" /\ flow[n] # None
  BY DEF Serve, Flows, Sound
<1>2. PICK r \in Replies(n) \cup {Reply(facts, "lost")}, lost \in BOOLEAN :
         flow' = [flow EXCEPT ![n] =
            IF @.phase = "orphan" THEN Over
            ELSE [@ EXCEPT !.phase = "answered", !.answer = IF lost THEN "lost" ELSE r.answer]]
  BY DEF Serve
<1>3. r.answer \in Answer /\ (Offered => r.answer # "PROVIDER_NOT_OFFERED")
  <2>1. CASE r = Reply(facts, "lost")
    BY <2>1 DEF Reply, Answer
  <2>2. CASE r \in Replies(n) /\ flow[n].kind = "configure"
    <3>1. Head(flow[n].saves) \in Choosable
      BY <1>1, <2>2 DEF Sound
    <3> DEFINE save == Head(flow[n].saves)
    <3>2. r \in RepliesToSave(save.capability, save.provider)
      BY <2>2 DEF Replies
    <3>3. save.capability \in Capability /\ save.provider \in Choice(save.capability)
      BY <3>1 DEF Choosable
    <3> QED BY <3>2, <3>3, SaveAnswers
  <2>3. CASE r \in Replies(n) /\ flow[n].kind # "configure"
    <3>1. flow[n].kind \in {"acknowledge", "degrade", "link", "skip"}
      BY <1>1, <2>3 DEF Sound, Flow
    <3> QED BY <1>1, <2>3, <3>1, OtherAnswers DEF Answer
  <2> QED BY <2>1, <2>2, <2>3
<1>4. /\ (IF lost THEN "lost" ELSE r.answer) \in Answer
      /\ Offered => (IF lost THEN "lost" ELSE r.answer) # "PROVIDER_NOT_OFFERED"
  BY <1>3 DEF Answer
<1>5. [flow[n] EXCEPT !.phase = "answered", !.answer = IF lost THEN "lost" ELSE r.answer] \in Sound
  BY <1>1, <1>4, SoundStep
<1> QED BY <1>2, <1>5, OverSound DEF Flows

LEMMA NextSaveSound ==
  ASSUME flow \in Flows, NEW n \in Click, NextSave(n) PROVE flow' \in Flows
<1> DEFINE rest == Tail(flow[n].saves)
           sent == [flow[n] EXCEPT !.phase = "sent", !.saves = rest, !.fetched = FALSE,
                                   !.answer = None]
<1>1. flow[n] \in Sound /\ flow[n].kind = "configure"
  BY DEF NextSave, Awaited, Flows
<1>2. flow[n].saves \in Seq(Choosable) /\ flow[n].saves # <<>>
  BY <1>1 DEF Sound
<1>3. rest \in Seq(Choosable)
  BY <1>2
<1>4. flow' = IF rest = <<>> THEN Ended(n) ELSE [flow EXCEPT ![n] = sent]
  <2>1. flow' = IF rest = <<>> THEN Ended(n)
                ELSE [flow EXCEPT ![n].phase = "sent", ![n].saves = rest, ![n].fetched = FALSE,
                                  ![n].answer = None]
    BY DEF NextSave
  <2> QED BY <2>1 DEF Flows
<1>5. CASE rest = <<>>
  BY <1>4, <1>5, EndedSound
<1>6. CASE rest # <<>>
  <2> DEFINE All == [capability : Capability, provider : Provider \cup {""}]
  <2>1. Choosable \subseteq All
    BY DEF Choosable
  <2>2. rest \in Seq(All)
    <3> HIDE DEF All, rest
    <3> QED BY <1>3, <2>1
  <2>3. sent \in Flow
    <3> HIDE DEF rest
    <3> QED BY <1>1, <2>2 DEF Sound, Flow
  <2>4. None # "PROVIDER_NOT_OFFERED"
    BY WizardAssumption DEF Answer
  <2>5. sent.kind = "configure" /\ sent.saves = rest /\ sent.answer = None
    BY <1>1 DEF Sound, Flow
  <2>6. sent \in Sound
    BY <1>3, <1>6, <2>3, <2>4, <2>5 DEF Sound
  <2> QED BY <1>4, <1>6, <2>6 DEF Flows
<1> QED BY <1>5, <1>6

LEMMA ProgressSound ==
  ASSUME flow \in Flows, NEW n \in Click, Progress(n) PROVE flow' \in Flows
<1>1. CASE Serve(n)
  BY <1>1, ServeSound
<1>2. CASE Receive(n)
  <2>1. flow[n] # None /\ flow[n].kind # "over"
    BY <1>2 DEF Receive, Flows, Sound
  <2>2. flow' = Ended(n) \/ \E q \in Query : Invalidate(n, q)
    BY <1>2 DEF Receive, Query
  <2> QED BY <2>1, <2>2, EndedSound, InvalidateSound
<1>3. CASE InvalidateState(n)
  <2>1. flow[n] # None /\ flow[n].kind # "over"
    BY <1>3 DEF InvalidateState, Flows, Sound
  <2> QED BY <1>3, <2>1, InvalidateSound DEF InvalidateState, Query
<1>4. CASE NextSave(n)
  BY <1>4, NextSaveSound
<1>5. CASE Conclude(n)
  <2>1. flow' = Ended(n) \/ \E r : Go(r, Ended(n))
    BY <1>5 DEF Conclude, Push
  <2> QED BY <2>1, EndedSound, GoSound
<1> QED BY <1>1, <1>2, <1>3, <1>4, <1>5 DEF Progress

LEMMA VerifySound == ASSUME flow \in Flows, Verify PROVE flow' \in Flows
<1>1. PICK p \in Choice("generation"), q \in Choice("embeddings") :
         \/ Submit(<<Save("generation", p), Save("embeddings", q)>>)
         \/ Submit(<<Save("generation", p)>>) \/ Submit(<<Save("embeddings", q)>>)
  BY DEF Verify
<1>2. Save("generation", p) \in Choosable /\ Save("embeddings", q) \in Choosable
  BY SaveChoosable DEF Capability
<1>3. /\ <<Save("generation", p), Save("embeddings", q)>> \in Seq(Choosable)
      /\ <<Save("generation", p)>> \in Seq(Choosable) /\ <<Save("embeddings", q)>> \in Seq(Choosable)
  BY <1>2
<1> QED BY <1>1, <1>3, SubmitSound

LEMMA ReloadSound == ASSUME flow \in Flows, Reload PROVE flow' \in Flows
<1> SUFFICES ASSUME NEW n \in Click, flow[n] # None, flow[n].phase \in {"sent", "orphan"}
             PROVE  [flow[n] EXCEPT !.here = FALSE, !.phase = "orphan"] \in Sound
  BY OverSound DEF Reload, Flows
<1>1. flow[n] \in Sound /\ flow[n].kind # "over"
  BY DEF Flows, Sound
<1> QED BY <1>1, SoundStep

LEMMA NextSound == ASSUME flow \in Flows, [Next]_vars PROVE flow' \in Flows
<1>0. <<>> \in Seq([capability : Capability, provider : Provider \cup {""}])
  OBVIOUS
<1>1. CASE Acknowledge
  <2>1. Send("acknowledge", <<>>)
    BY <1>1 DEF Acknowledge
  <2> QED BY <1>0, <2>1, SendSound
<1>2. CASE Verify
  BY <1>2, VerifySound
<1>3. CASE Continue
  BY <1>3, GoSound DEF Continue, Push
<1>4. CASE Link \/ Skip
  <2>1. Send("link", <<>>) \/ Send("skip", <<>>)
    BY <1>4 DEF Link, Skip
  <2> QED BY <1>0, <2>1, SendSound
<1>5. CASE Finish
  BY <1>5, GoSound DEF Finish
<1>6. ASSUME NEW c \in Capability, Retry(c) PROVE flow' \in Flows
  <2>1. PICK p \in Choice(c) : Submit(<<Save(c, p)>>)
    BY <1>6 DEF Retry
  <2>2. <<Save(c, p)>> \in Seq(Choosable)
    BY SaveChoosable
  <2> QED BY <2>1, <2>2, SubmitSound
<1>7. ASSUME NEW c \in Capability, ChangeProvider(c) PROVE flow' \in Flows
  BY <1>7 DEF ChangeProvider
<1>8. ASSUME NEW c \in Capability, AcknowledgeDegradation(c) PROVE flow' \in Flows
  <2>1. <<Save(c, "")>> \in Seq([capability : Capability, provider : Provider \cup {""}])
    BY DEF Save
  <2> QED BY <1>8, <2>1, SendSound DEF AcknowledgeDegradation
<1>9. ASSUME NEW n \in Click, Progress(n) PROVE flow' \in Flows
  BY <1>9, ProgressSound
<1>10. ASSUME NEW q \in Query, Arrive(q) \/ Fail(q) PROVE flow' \in Flows
  <2>1. \E r, a, c : Render(r, a, c, Release(flow, q))
    BY <1>10 DEF Arrive, Fail
  <2> QED BY <2>1, ReleaseSound, RenderSound
<1>11. CASE Follow
  BY <1>11, GoSound DEF Follow
<1>12. CASE Reload
  BY <1>12, ReloadSound
<1>13. CASE UNCHANGED vars
  BY <1>13 DEF vars, tab
<1> QED BY <1>1, <1>2, <1>3, <1>4, <1>5, <1>6, <1>7, <1>8, <1>9, <1>10, <1>11, <1>12, <1>13 DEF Next

\* No save of an option on screen is refused as not offered, for every matrix that
\* leaves each capability an option, however many clicks are in flight
\* (ProvidersScreen.tsx, providerOf; preflight_service.py, _resolve_offerable).
THEOREM OptionNeverRefusedHolds == ASSUME Offered PROVE Spec => []OptionNeverRefused
<1>1. Init => flow \in Flows
  BY DEF Init, Flows
<1>2. flow \in Flows /\ [Next]_vars => (flow \in Flows)'
  BY NextSound
<1>3. Offered /\ flow \in Flows => OptionNeverRefused
  BY DEF Flows, Sound, OptionNeverRefused
<1> QED BY <1>1, <1>2, <1>3, PTL DEF Spec
===============================================================================
