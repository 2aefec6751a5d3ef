--------------------------- MODULE CapabilityPromise ---------------------------
(***************************************************************************)
(* What the providers step promises about the record of each capability,   *)
(* whatever runs beside what: it holds one report of one probe and nothing *)
(* made up, a new one begins unacknowledged, only a degraded one is ever   *)
(* acknowledged, and none is forgotten.  Of a write that was overtaken it  *)
(* promises only that what it leaves counts for nothing until the next     *)
(* preflight.                                                              *)
(***************************************************************************)

CONSTANTS Subject,   \* the capabilities
          Report,    \* what a probe may come back with
          Kept,      \* the reports that say something of a capability
          Degraded   \* those of them that can be acknowledged

VARIABLES
    reported,   \* every report there was
    record,     \* what is on record of each capability, one entry at most
    lost        \* the capabilities whose record was overtaken

vars == <<reported, record, lost>>

Init == reported = {} /\ record = [c \in Subject |-> {}] /\ lost = {}

Probe(p) ==
    /\ reported' = reported \cup {p}
    /\ UNCHANGED <<record, lost>>

Keep(c, p) ==
    /\ p \in reported \cap Kept /\ p.cap = c
    /\ record' = [record EXCEPT ![c] = {[report |-> p, acknowledged |-> FALSE]}]
    /\ lost' = lost \ {c}
    /\ UNCHANGED reported

Acknowledge(c) ==
    /\ \E entry \in record[c] :
          /\ entry.report \in Degraded
          /\ record' = [record EXCEPT ![c] = {[entry EXCEPT !.acknowledged = TRUE]}]
    /\ UNCHANGED <<reported, lost>>

Lose(c) ==
    /\ record[c] # {}
    /\ record' = [record EXCEPT ![c] = {}]
    /\ lost' = lost \cup {c}
    /\ UNCHANGED reported

Next == \/ \E p \in Report : Probe(p)
        \/ \E c \in Subject : Acknowledge(c) \/ Lose(c) \/ \E p \in Report : Keep(c, p)

Spec == Init /\ [][Next]_vars
===============================================================================
