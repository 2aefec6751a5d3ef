-------------------------- MODULE ProviderVerification -------------------------
(***************************************************************************)
(* The product's probe beside the script that certifies providers: the     *)
(* reply that decided the probe, read by both.                             *)
(***************************************************************************)
EXTENDS GoogleProbe, VerifyProviders

\* The row the script would paste into the matrix calls a capability good exactly
\* when the product's own preflight does, with the same dimension, and blocks a
\* provider exactly when the product names what it made up: two implementations of
\* one criterion (verify_providers.py:134-135, schemas.py:116-146).
ScriptVerifiesTheSame ==
    /\ (report # None /\ cap = "generation") =>
        /\ report.result = "verified" <=> StructuredCell(reply) = "Si" /\ NullCell(reply) = "Si"
        /\ Blocked(reply) <=> report.result = "capability_unverified" /\ report.reasons # {Malformed}
    /\ (report # None /\ cap = "embeddings") =>
        /\ report.result = "verified" <=> EmbeddingsCell(reply) = "OK" /\ DimensionCell(reply) # None
        /\ DimensionCell(reply) = report.dim

ScriptLabelOf(failure) ==
    CASE failure = "schema_violation" -> "No"
      [] failure = "credential_rejected" -> "error de llave"
      [] failure = ModelGone -> "modelo no disponible"
      [] failure = "quota_exceeded" -> "cuota agotada"
      [] failure = "unreachable" -> "sin respuesta"

\* The script reads no text: neither a canonical status without a number, nor what a
\* 400 says outside its .message.
OnlyTextTells(e) == e.text # {} /\ (e.status = None \/ (e.status = 400 /\ ~ e.message))

\* "Este script y el adapter tienen que estar de acuerdo sobre que significa cada
\* fallo" (verify_providers.py:230-231): the failure the row names is the one the
\* product classified, wherever anything but the text of the error tells them apart.
ScriptNamesTheSameFailure ==
    (report # None /\ cap = "generation" /\ ~ Succeeded(reply) /\ ~ OnlyTextTells(ErrorOf(reply))) =>
        StructuredCell(reply) = ScriptLabelOf(failures[attempt])
===============================================================================
