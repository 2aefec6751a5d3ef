------------------------ MODULE MCProviderVerification ------------------------
(***************************************************************************)
(* Instances of ProviderVerification for TLC.                              *)
(***************************************************************************)
EXTENDS ProviderVerification

\* Every outcome and reason of the adapter, enumerated: TLC asks whether None is one.
MCOutcome == Result \cup {Unreachable, ModelGone}
MCReason == {x : x \in Reasons}

\* Errors with at most two markers in their text: each marker alone and against
\* every other.
MCText == {{a, b} : a, b \in Marker} \cup {{}}

MCError ==
    [kind : {"other"}, status : Status \cup {None}, text : MCText, message : BOOLEAN]
    \cup [kind : {"timeout", "validation", "parser"}, status : {None},
          text : {{}}, message : {FALSE}]

\* Extractions with at most two sorts of job.
MCJobs == {{a, b} : a, b \in Job} \cup {{}}

MCExtraction == [phone : BOOLEAN, years : BOOLEAN, degrees : SUBSET BOOLEAN, jobs : MCJobs]

MCAnswers ==
    [kind : {"raised"}, error : {e \in MCError : e.kind \in {"other", "timeout"}}]
    \cup [kind : {"extraction"}, value : MCExtraction, counted : {TRUE}]
    \cup [kind : {"extraction"}, value : [phone : BOOLEAN, years : {FALSE}, degrees : {{FALSE}},
                                         jobs : {{}}], counted : {FALSE}]
    \cup [kind : {"vectors"}, length : Dim \cup {0, None}]
    \cup [kind : {"parsing_error"}, error : {e \in MCError : e.kind \in {"parser", "validation"}}]
    \cup [kind : {"unparsed", "invalid"}]
===============================================================================
