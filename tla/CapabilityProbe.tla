---------------------------- MODULE CapabilityProbe ----------------------------
(***************************************************************************)
(* What `probe()` promises its caller: asked once about a capability, it   *)
(* ends, and with one report that the port allows for that capability.     *)
(***************************************************************************)
EXTENDS ProbePort

VARIABLES cap,    \* the capability asked about, None before
          report  \* what the probe reported, None before

vars == <<cap, report>>

Init == cap = None /\ report = None

Ask == /\ cap = None
       /\ cap' \in Capability
       /\ UNCHANGED report

Report == /\ cap # None /\ report = None
          /\ report' \in AttemptOf(cap)
          /\ UNCHANGED cap

Next == Ask \/ Report

Safe == Init /\ [][Next]_vars

Spec == Safe /\ WF_vars(Report)
===============================================================================
