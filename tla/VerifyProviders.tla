---------------------------- MODULE VerifyProviders ----------------------------
(***************************************************************************)
(* scripts/verify_providers.py, which fills the capability matrix: how it  *)
(* reads the replies of a provider and the row it prints for them.  It     *)
(* makes one call per capability, retries nothing and keeps no state.      *)
(***************************************************************************)
EXTENDS Replies

\* Without include_raw the client raises what the product finds under parsing_error,
\* and an answer with no parsed object fails to validate.
ScriptErrorOf(r) ==
    IF r.kind \in {"raised", "parsing_error"} THEN r.error ELSE OwnError("validation")

\* Slip: only pydantic's own exception is a failure of the answer.
SlipClassifyFailure(e) ==
    CASE e.kind = "validation" -> "schema"
      [] e.kind # "validation" /\ e.status \in {401, 403} -> "credential"
      [] e.kind # "validation" /\ e.status = 404 -> "model_not_available"
      [] e.kind # "validation" /\ e.status = 429 -> "quota"
      [] OTHER -> IF e.status = 400 /\ e.message THEN "credential" ELSE "unreachable"

\* classify_failure: no text is read unless the status is 400, and of that only
\* the .message.
ClassifyFailure(e) ==
    CASE e.kind \in {"validation", "parser"} -> "schema"
      [] e.kind \notin {"validation", "parser"} /\ e.status \in {401, 403} -> "credential"
      [] e.kind \notin {"validation", "parser"} /\ e.status = 404 -> "model_not_available"
      [] e.kind \notin {"validation", "parser"} /\ e.status = 429 -> "quota"
      [] OTHER -> IF e.status = 400 /\ e.message THEN "credential" ELSE "unreachable"

\* Slip: an answer that parsed is as good as one that respects the holes.
SlipCheckNulls(e) == {}

\* check_nulls: the product's five expectations, written a second time.
CheckNulls(e) ==
    (IF e.phone THEN {"phone_absent"} ELSE {})
    \cup (IF e.years THEN {"years_of_experience_not_declared"} ELSE {})
    \cup (IF TRUE \in e.degrees THEN {"degree_absent"} ELSE {})
    \cup (IF \E j \in e.jobs : j.second /\ j.dated THEN {"second_job_without_dates"} ELSE {})
    \cup (IF \E j \in e.jobs : j.second /\ j.achieved
          THEN {"second_job_without_achievements"} ELSE {})

Label(failure) ==
    CASE failure = "schema" -> "No"
      [] failure = "credential" -> "error de llave"
      [] failure = "model_not_available" -> "modelo no disponible"
      [] failure = "quota" -> "cuota agotada"
      [] failure = "unreachable" -> "sin respuesta"

\* verify and render_table, the two cells of generation.
StructuredCell(r) ==
    IF Succeeded(r) THEN "Si" ELSE Label(ClassifyFailure(ScriptErrorOf(r)))

NullCell(r) ==
    IF ~ Succeeded(r) THEN "n/a" ELSE IF CheckNulls(r.value) = {} THEN "Si" ELSE "No"

\* probe_embeddings and the two cells of embeddings; None is n/a.  embed_query takes
\* the first of the vectors, and there is an IndexError to print when there is none.
EmbeddingsCell(r) == IF Succeeded(r) /\ r.length # None THEN "OK" ELSE "ERROR"

DimensionCell(r) == IF Succeeded(r) /\ r.length \notin {0, None} THEN r.length ELSE None

\* What the closing warning lists: providers that make data up.
Blocked(r) == StructuredCell(r) = "Si" /\ NullCell(r) = "No"
===============================================================================
