--------------------------- MODULE Normalization ---------------------------
(***************************************************************************)
(* How a provider's failure event becomes a PaymentFailure: its            *)
(* vocabularies are mapped onto the domain's, what is missing is defaulted *)
(* or derived, an unknown payment method is refused.  A text is the words  *)
(* it is written in and the separator it is spelled with; letter case and  *)
(* blanks around it are gone.  Amounts, currencies and instants are left   *)
(* out, and so are the notes for the audit trail.                          *)
(***************************************************************************)
EXTENDS Sequences, SequencesExt

\* What a field the provider left out, or left empty, looks like.
Missing == [words |-> <<>>, sep |-> ""]
Text(words, sep) == [words |-> words, sep |-> sep]

Join(words, sep) ==
    FoldLeft(LAMBDA acc, w : IF acc = "" THEN w ELSE acc \o sep \o w, "", words)

\* canonical, normalizeKey: blanks and hyphens become underscores.
Canonical(text) == Join(text.words, "_")
\* A text as written, in lower case.
Spelled(text) == Join(text.words, text.sep)

\* Provider vocabularies.  "-" and blanks are already underscores.
SourceMap ==
    [customer |-> "CUSTOMER", business |-> "BUSINESS", merchant |-> "BUSINESS",
     bank |-> "BANK", issuer |-> "BANK", gateway |-> "GATEWAY", network |-> "GATEWAY",
     npci |-> "GATEWAY"]
StepMap ==
    [authentication |-> "AUTHENTICATION", payment_authentication |-> "AUTHENTICATION",
     authorization |-> "AUTHORIZATION", payment_authorization |-> "AUTHORIZATION",
     payment_initiation |-> "AUTHORIZATION", capture |-> "CAPTURE", payment_capture |-> "CAPTURE"]
MethodMap ==
    [card |-> "CARD", upi |-> "UPI", upi_collect |-> "UPI", upi_intent |-> "UPI",
     netbanking |-> "NETBANKING", wallet |-> "WALLET", emandate |-> "MANDATE",
     nach |-> "MANDATE", upi_mandate |-> "MANDATE", mandate |-> "MANDATE"]

Mapped(map, key, default) == IF key \in DOMAIN map THEN map[key] ELSE default

Supported(event) == event.method \in DOMAIN MethodMap

NormalizedSource(event) == Mapped(SourceMap, event.source, "GATEWAY")
NormalizedStep(event) == Mapped(StepMap, event.step, "AUTHORIZATION")

\* normalizeFailure, for a supported method.
Normalize(event) ==
    LET reason == IF event.reason # Missing THEN event.reason
                  ELSE Text(event.code.words, "_")
    IN  [method |-> MethodMap[event.method],
         code |-> event.code,
         reason |-> reason,
         source |-> NormalizedSource(event),
         step |-> NormalizedStep(event),
         description |-> IF event.description # Missing THEN event.description ELSE reason]

=============================================================================
