----------------------------- MODULE Classifier -----------------------------
(***************************************************************************)
(* The deterministic classifier: every rule of the table is evaluated on   *)
(* the normalised failure, and of those that match the one with the least  *)
(* priority number gives the root cause.  A rule tries its strengths in    *)
(* turn, from the exact reason to phrases of the description.  Ids,         *)
(* explanations and evidence are wording; confidences are percentages.     *)
(***************************************************************************)
EXTENDS Normalization, Integers

RuleCause == {"MANDATE_INVALID", "PAYMENT_METHOD_INVALID", "CUSTOMER_FUNDS_LOW",
              "CUSTOMER_AUTH_FAILURE", "CUSTOMER_ABANDONMENT", "ISSUER_TEMPORARY_FAILURE",
              "GATEWAY_FAILURE"}
Strengths == {"EXACT_REASON", "ERROR_CODE", "COMPOSITE", "DESCRIPTION"}

\* normalizeInput.
NormalizeInput(failure) ==
    [reason |-> Canonical(failure.reason),
     tokens |-> ToSet(failure.reason.words),
     code |-> Canonical(failure.code),
     description |-> Spelled(failure.description),
     source |-> failure.source, step |-> failure.step, method |-> failure.method]

-----------------------------------------------------------------------------
(* Matchers.                                                                *)

\* Strings are sequences of characters.
Includes(string, part) ==
    \E i \in 1..(Len(string) - Len(part) + 1) : SubSeq(string, i, i + Len(part) - 1) = part

Mentions(n, needle) == Includes(n.reason, needle) \/ Includes(n.description, needle)
AnyText(n, needles) == \E needle \in needles : Mentions(n, needle)
AnyToken(n, keys) == \E k \in keys : k \in n.tokens \/ Includes(n.reason, k)
AnyTokenGroup(n, groups) == \E g \in groups : g \subseteq n.tokens

-----------------------------------------------------------------------------
(* The rules: what each looks for.                                          *)

MandateInvalid ==
    [keys |-> {"mandate_revoked", "mandate_cancelled", "mandate_canceled", "mandate_paused",
               "mandate_invalid", "mandate_not_found", "mandate_inactive",
               "subscription_cancelled"},
     groups |-> {{"mandate", s} : s \in {"revoked", "cancelled", "canceled", "paused", "inactive"}}
                \cup {{"emandate", "revoked"}},
     codes |-> {},
     phrases |-> {"mandate revoked", "mandate cancelled", "mandate is cancelled",
                  "mandate not registered", "mandate no longer valid", "emandate revoked"},
     confidence |-> [EXACT_REASON |-> 99, COMPOSITE |-> 95, DESCRIPTION |-> 85]]

PaymentMethodInvalid ==
    [keys |-> {"expired_card", "card_expired", "invalid_card", "card_invalid",
               "invalid_card_number", "incorrect_card_number", "incorrect_card_details",
               "dead_card", "card_not_supported"},
     groups |-> {{"card", "expired"}, {"card", "invalid"}, {"expired", "instrument"}},
     codes |-> {"expired_card", "invalid_card"},
     phrases |-> {"card has expired", "expired card", "card expired", "invalid card number",
                  "card number is invalid", "card is invalid", "incorrect card details"},
     confidence |-> [EXACT_REASON |-> 97, ERROR_CODE |-> 95, DESCRIPTION |-> 80]]

CustomerFundsLow ==
    [keys |-> {"insufficient_funds", "insufficient_balance", "low_balance",
               "not_enough_balance", "not_enough_funds", "nsf"},
     groups |-> {{"insufficient", "funds"}, {"insufficient", "balance"},
                 {"not", "enough", "balance"}, {"not", "enough", "funds"}},
     codes |-> {"insufficient_funds", "insufficient_balance"},
     phrases |-> {"insufficient fund", "insufficient balance", "not enough balance",
                  "not enough funds", "low balance", "balance is low"},
     confidence |-> [EXACT_REASON |-> 98, ERROR_CODE |-> 95, DESCRIPTION |-> 80]]

CustomerAuthFailure ==
    [keys |-> {"authentication_failed", "auth_failed", "3ds_failed", "three_ds_failed",
               "otp_incorrect", "incorrect_otp", "invalid_otp", "otp_failed", "pin_incorrect",
               "incorrect_pin", "wrong_password", "authentication_error"},
     groups |-> {{"authentication", "failed"}, {"auth", "failed"}, {"incorrect", "otp"},
                 {"wrong", "otp"}, {"invalid", "otp"}, {"incorrect", "pin"}, {"3ds", "failed"}},
     codes |-> {},
     phrases |-> {"authentication failed", "3d secure authentication failed",
                  "3ds authentication failed", "incorrect otp", "otp validation failed",
                  "failed to authenticate", "authentication unsuccessful"},
     confidence |-> [EXACT_REASON |-> 90, COMPOSITE |-> 82, DESCRIPTION |-> 75]]

CustomerAbandonment ==
    [keys |-> {"3ds_abandoned", "three_ds_abandoned", "authentication_abandoned",
               "auth_abandoned", "user_abandoned", "payment_abandoned", "checkout_abandoned",
               "abandoned", "customer_dropped", "user_dropped", "not_completed",
               "user_cancelled", "cancelled_by_user", "upi_collect_expired",
               "collect_request_expired"},
     groups |-> {{"3ds", "abandoned"}, {"authentication", "abandoned"},
                 {"authentication", "not", "completed"}, {"user", "cancelled"},
                 {"user", "dropped"}, {"customer", "abandoned"}, {"collect", "expired"},
                 {"collect", "timeout"}},
     codes |-> {},
     phrases |-> {"customer did not complete", "abandoned the payment",
                  "authentication was not completed", "user cancelled the payment",
                  "collect request expired"},
     confidence |-> [EXACT_REASON |-> 85, COMPOSITE |-> 80, DESCRIPTION |-> 72]]

IssuerTemporaryFailure ==
    [keys |-> {"issuer_timeout", "issuer_unavailable", "issuer_down", "bank_timeout",
               "issuer_temporarily_unavailable", "auth_timeout", "authorization_timeout",
               "issuer_not_available", "try_again_later"},
     groups |-> {},
     codes |-> {},
     phrases |-> {"please try again", "temporarily unavailable", "issuer not available",
                  "bank did not respond"},
     confidence |-> [EXACT_REASON |-> 94, COMPOSITE |-> 92, DESCRIPTION |-> 80]]

GatewayFailure ==
    [keys |-> {"gateway_timeout", "gateway_error", "gateway_5xx", "server_error",
               "internal_server_error", "service_unavailable", "bad_gateway",
               "upstream_error", "connection_error"},
     groups |-> {},
     codes |-> {},
     phrases |-> {"error", "timeout", "unavailable", "fail"},
     confidence |-> [EXACT_REASON |-> 92, COMPOSITE |-> 90, DESCRIPTION |-> 78]]

Rules ==
    [MANDATE_INVALID |-> MandateInvalid, PAYMENT_METHOD_INVALID |-> PaymentMethodInvalid,
     CUSTOMER_FUNDS_LOW |-> CustomerFundsLow, CUSTOMER_AUTH_FAILURE |-> CustomerAuthFailure,
     CUSTOMER_ABANDONMENT |-> CustomerAbandonment,
     ISSUER_TEMPORARY_FAILURE |-> IssuerTemporaryFailure, GATEWAY_FAILURE |-> GatewayFailure]

-----------------------------------------------------------------------------
(* Evaluating a rule.                                                       *)

\* What points at the gateway: it reports the failure and a text says how.
GatewaySignals(n) ==
    /\ n.source = "GATEWAY"
    /\ AnyText(n, {"5xx", "500", "502", "503", "504", "server error", "internal error",
                   "gateway timeout", "bad gateway", "service unavailable", "upstream",
                   "connection reset", "processing error", "could not be processed"})

\* The composite signals: the reporting party or step together with a text.
MatchesComposite(n, cause) ==
    CASE cause = "MANDATE_INVALID" ->
             /\ n.source = "BUSINESS" /\ Mentions(n, "mandate")
             /\ AnyText(n, {"revoked", "cancel", "stopped", "withdrawn", "no longer valid"})
      [] cause = "CUSTOMER_AUTH_FAILURE" ->
             /\ n.step = "AUTHENTICATION" /\ n.source = "CUSTOMER"
             /\ AnyText(n, {"failed", "incorrect", "invalid", "declined", "mismatch"})
             /\ ~Mentions(n, "abandon")
      [] cause = "CUSTOMER_ABANDONMENT" ->
             /\ n.step = "AUTHENTICATION" \/ n.method = "UPI"
             /\ AnyText(n, {"abandon", "not completed", "did not complete", "cancelled by user",
                            "user dropped", "no response from customer",
                            "customer did not respond", "collect request expired",
                            "request expired", "timed out waiting for"})
      [] cause = "ISSUER_TEMPORARY_FAILURE" ->
             /\ n.source = "BANK"
             /\ AnyText(n, {"timeout", "timed out", "temporarily", "temporary", "try again",
                            "unavailable", "did not respond", "no response", "issuer down",
                            "system error", "processing error", "please retry", "5xx"})
      [] cause = "GATEWAY_FAILURE" -> GatewaySignals(n)
      [] OTHER -> FALSE

\* Two rules read the description only of the party they are about.
MatchesDescription(n, cause) ==
    /\ cause = "ISSUER_TEMPORARY_FAILURE" => n.source = "BANK"
    /\ cause = "GATEWAY_FAILURE" => n.source = "GATEWAY" /\ Mentions(n, "gateway")
    /\ AnyText(n, Rules[cause].phrases)

Matches(n, cause, strength) ==
    CASE strength = "EXACT_REASON" -> \/ AnyToken(n, Rules[cause].keys)
                                      \/ AnyTokenGroup(n, Rules[cause].groups)
      [] strength = "ERROR_CODE" -> \E c \in Rules[cause].codes : Includes(n.code, c)
      [] strength = "COMPOSITE" -> MatchesComposite(n, cause)
      [] OTHER -> MatchesDescription(n, cause)

\* rule.evaluate tries the strengths in this order.
StrengthOrder == [EXACT_REASON |-> 1, ERROR_CODE |-> 2, COMPOSITE |-> 3, DESCRIPTION |-> 4]

\* The first strength by which the rule matches, or NONE.
Evaluate(n, cause) ==
    LET matched == {s \in Strengths : Matches(n, cause, s)}
    IN  IF matched = {} THEN "NONE"
        ELSE CHOOSE s \in matched : \A t \in matched : StrengthOrder[s] <= StrengthOrder[t]

-----------------------------------------------------------------------------
(* Precedence.                                                              *)

Priority ==
    [MANDATE_INVALID |-> 10, PAYMENT_METHOD_INVALID |-> 20, CUSTOMER_FUNDS_LOW |-> 30,
     CUSTOMER_AUTH_FAILURE |-> 40, CUSTOMER_ABANDONMENT |-> 50,
     ISSUER_TEMPORARY_FAILURE |-> 60, GATEWAY_FAILURE |-> 70]

Candidates(n) == {c \in RuleCause : Evaluate(n, c) # "NONE"}

\* Mutant: sorted the other way round, the last of the table wins.
Winner_Last(found) == CHOOSE c \in found : \A d \in found : Priority[c] >= Priority[d]

Winner(found) == CHOOSE c \in found : \A d \in found : Priority[c] <= Priority[d]

\* The fallback diagnosis is deliberately unsure.
UnknownConfidence == 20

Classify(failure) ==
    LET n == NormalizeInput(failure)
        found == Candidates(n)
    IN  IF found = {} THEN [cause |-> "UNKNOWN", confidence |-> UnknownConfidence]
        ELSE [cause |-> Winner(found),
              confidence |-> Rules[Winner(found)].confidence[Evaluate(n, Winner(found))]]

=============================================================================
