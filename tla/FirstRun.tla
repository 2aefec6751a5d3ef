-------------------------------- MODULE FirstRun --------------------------------
(***************************************************************************)
(* What the first run promises about the facts it records, whatever runs   *)
(* beside what: an acknowledgement is of the text in force and is never    *)
(* undone, the email step never becomes pending again, and it is linked to *)
(* nothing but a label that was checked.  One fact changes at a time.      *)
(***************************************************************************)

CONSTANTS Version,   \* the versions of the disclosure
          Label,     \* the labels a mailbox may have
          None

VARIABLES
    current,        \* the version in force
    acknowledged,   \* the version the candidate acknowledged, None before
    email,          \* the email step
    label,          \* the label it is linked to, None unless it is
    checked         \* every label found in the mailbox it was looked up in

vars == <<current, acknowledged, email, label, checked>>

Init ==
    /\ current \in Version
    /\ acknowledged \in Version \cup {None}
    /\ email = "pending" /\ label = None
    /\ checked = {}

\* A new release may ship a new text.
Publish ==
    /\ current' \in Version
    /\ UNCHANGED <<acknowledged, email, label, checked>>

Acknowledge ==
    /\ acknowledged' = current
    /\ UNCHANGED <<current, email, label, checked>>

Check(l) ==
    /\ checked' = checked \cup {l}
    /\ UNCHANGED <<current, acknowledged, email, label>>

Link(l) ==
    /\ l \in checked
    /\ email' = "linked" /\ label' = l
    /\ UNCHANGED <<current, acknowledged, checked>>

Skip ==
    /\ email' = "skipped" /\ label' = None
    /\ UNCHANGED <<current, acknowledged, checked>>

Next == Publish \/ Acknowledge \/ Skip \/ \E l \in Label : Check(l) \/ Link(l)

Spec == Init /\ [][Next]_vars
===============================================================================
