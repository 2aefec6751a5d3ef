----------------------------- MODULE FirstRunGuard -----------------------------
(***************************************************************************)
(* Where the guard of the SPA sends the candidate: routes/FirstRunGuard.tsx*)
(* and the routes it stands in front of.  No state: every operator reads   *)
(* the facts the tab has cached and what was latched on arrival.           *)
(***************************************************************************)
EXTENDS SetupRules

\* `/`, the three pages of the wizard, and what a concluded first run opens.
Route == {"entry", "onboarding"} \cup Step

\* The mandatory step that `step` needs and the facts lack; {} stands for null.
PrerequisiteOf(step, seen) ==
    IF ~ DisclosureAcknowledged(seen) /\ step # "disclosure" THEN {"disclosure"}
    ELSE IF step = "email" /\ ~ SomeUsable(seen.generation) THEN {"providers"}
    ELSE {}

\* Nothing left to ask for; embeddings is optional.
IsSatisfied(step, seen) ==
    CASE step = "disclosure" -> DisclosureAcknowledged(seen)
      [] step = "providers" -> SomeUsable(seen.generation)
      [] step = "email" -> seen.email # "pending"

Arrival == [finished : BOOLEAN, satisfied : BOOLEAN]

\* What the first render of a guard that has an answer latches.
ArrivalAt(step, seen) ==
    [finished |-> PendingStep(seen) = {}, satisfied |-> IsSatisfied(step, seen)]

\* Slip: a step that was already done sends to the end, whatever is still pending.
SlipRedirectOf(route, seen, arrival) ==
    CASE route = "entry" -> IF PendingStep(seen) = {} THEN {"onboarding"} ELSE PendingStep(seen)
      [] route = "onboarding" -> PendingStep(seen)
      [] OTHER ->
            IF \E was \in arrival : was.finished \/ was.satisfied THEN {"onboarding"}
            ELSE PrerequisiteOf(route, seen)

\* Where the guard of a route navigates instead of rendering its screen; {} is the
\* screen.  `arrival` is {} until something was latched.
RedirectOf(route, seen, arrival) ==
    CASE route = "entry" -> IF PendingStep(seen) = {} THEN {"onboarding"} ELSE PendingStep(seen)
      [] route = "onboarding" -> PendingStep(seen)
      [] OTHER ->
            IF \E was \in arrival : was.finished THEN {"onboarding"}
            ELSE IF PrerequisiteOf(route, seen) # {} THEN PrerequisiteOf(route, seen)
            ELSE IF \E was \in arrival : was.satisfied THEN PendingStep(seen) \ {route} ELSE {}
===============================================================================
