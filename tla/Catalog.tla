-------------------------------- MODULE Catalog --------------------------------
(***************************************************************************)
(* What the wizard may offer: the capability matrix, the directory and the *)
(* prices of adapters/llm, the factory that turns an identifier into an    *)
(* implementation, and services/provider_catalog_service.py over them.     *)
(* Static data and pure views: the matrix is a parameter, because every    *)
(* verification of a provider is an edit of it.                            *)
(***************************************************************************)
EXTENDS SetupRules

CONSTANTS Matrix,   \* CAPABILITY_MATRIX, as a function of the provider
          Model,    \* google_model and google_embed, the configured model of each capability
          Vector    \* the dimensions a row may declare

\* The closed list of ADR-011.
Provider == {"google", "openai", "anthropic", "deepseek", "moonshot"}

\* bool | None: None is a statement about our measurements, not about the provider.
Cell == {"yes", "no", "unmeasured"}

ProviderCapabilities ==
    [structured_output : Cell, respects_null_in_optionals : Cell, embeddings : Cell,
     embedding_dim : Optional(Vector), verified : BOOLEAN]

ASSUME MatrixAssumption ==
    /\ Matrix \in [Provider -> ProviderCapabilities]
    /\ Matrix["anthropic"].embeddings = "no"

ASSUME ModelAssumption == DOMAIN Model = Capability

\* Only False denies it.
DeclaresCapability(p, c) ==
    IF c = "embeddings" THEN Matrix[p].embeddings # "no" ELSE Matrix[p].structured_output # "no"

\* Structured output alone is not enough to extract a CV.
Supports(row, c) ==
    IF c = "embeddings" THEN row.embeddings = "yes"
    ELSE row.structured_output = "yes" /\ row.respects_null_in_optionals = "yes"

OfferableFor(c) == {p \in Provider : Matrix[p].verified /\ Supports(Matrix[p], c)}

\* A row can be verified and still have no code behind it.
IsImplemented(p) == p = "google"

ImplementedAndOfferable(c) == {p \in OfferableFor(c) : IsImplemented(p)}

\* default_model, and build_probe, build_structured_output and build_embeddings, raise
\* ProviderNotImplementedError for any other provider: {} stands for raising.
DefaultModel(p, c) == IF IsImplemented(p) THEN {Model[c]} ELSE {}

BuildProbe(p, c, model) ==
    IF ~ IsImplemented(p) THEN {} ELSE IF model = {} THEN DefaultModel(p, c) ELSE model

\* The row of the directory, of which only the preselection is told apart.
ProfileOf(p) == [is_suggested_default |-> p = "google"]

\* console_url_of answers a plain string: nothing for what is not in the list.
ConsoleUrlOf(name) == IF name \in Provider THEN {name} ELSE {}

(* -------------------------------- the prices ----------------------------- *)

\* Every row is pending; only Google is known to have a free tier.
Pending(p) == [has_free_tier |-> IF p = "google" THEN {TRUE} ELSE {}, is_estimated |-> FALSE]

\* Anthropic has no embeddings to price.
PricingFor(p, c) == IF p = "anthropic" /\ c = "embeddings" THEN {} ELSE {Pending(p)}

PricedOptions(c) == {p \in Provider : PricingFor(p, c) # {}}

\* A figure only if one was estimated, and otherwise the note that says it is pending.
CostOf(p, c) ==
    [has_free_tier |-> UNION {row.has_free_tier : row \in PricingFor(p, c)},
     is_estimated |-> \E row \in PricingFor(p, c) : row.is_estimated]

(* ------------------------------- the catalogue --------------------------- *)

OptionView(p, c) ==
    [provider |-> p, is_suggested_default |-> ProfileOf(p).is_suggested_default,
     default_model |-> DefaultModel(p, c),
     embedding_dim |-> IF c = "embeddings" THEN Matrix[p].embedding_dim ELSE {},
     estimated_cost |-> CostOf(p, c)]

\* Slip: everything verified is listed, whether or not there is code behind it.
SlipOptionsFor(c) == {OptionView(p, c) : p \in OfferableFor(c)}

OptionsFor(c) == {OptionView(p, c) : p \in ImplementedAndOfferable(c)}

\* _resolve_offerable of the preflight: {} stands for ProviderNotOfferedError.
ResolveOfferable(name, c) == {p \in ImplementedAndOfferable(c) : p = name}

\* What the screen preselects: the suggested option, else the first, else nothing.
\* Which is first is left open, because the order of the rows carries no meaning.
Suggested(options) ==
    IF options = {} THEN {""}
    ELSE IF \E o \in options : o.is_suggested_default
         THEN {o.provider : o \in {x \in options : x.is_suggested_default}}
         ELSE {o.provider : o \in options}
===============================================================================
