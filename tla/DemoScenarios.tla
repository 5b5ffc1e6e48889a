---------------------------- MODULE DemoScenarios ----------------------------
(***************************************************************************)
(* The curated dataset of the demo: twelve failed payments, the texts of   *)
(* each in the words they are written in, with the cause it is there to    *)
(* show.  Amounts, customers and notes are left out.                       *)
(***************************************************************************)
EXTENDS Triage

Payment(method, code, reason, source, step, description, expected) ==
    [failure |-> [method |-> method, code |-> Text(code, "_"), reason |-> Text(reason, "_"),
                  source |-> source, step |-> step, description |-> Text(description, " ")],
     expected |-> expected]

\* Temporary issuer failures and a customer low on funds, who recover on a retry.
TransientPayments ==
  << Payment("UPI", <<"bank", "timeout">>, <<"issuer", "timeout">>, "BANK", "AUTHORIZATION",
             <<"bank", "did", "not", "respond", "within", "the", "authorization", "window.">>,
             "ISSUER_TEMPORARY_FAILURE"),
     Payment("CARD", <<"bad", "request", "error">>, <<"insufficient", "funds">>, "BANK",
             "AUTHORIZATION", <<"insufficient", "funds", "in", "the", "account.">>,
             "CUSTOMER_FUNDS_LOW"),
     Payment("CARD", <<"bank", "timeout">>, <<"issuer", "timeout">>, "BANK", "AUTHORIZATION",
             <<"issuer", "did", "not", "respond", "within", "the", "authorization", "window.">>,
             "ISSUER_TEMPORARY_FAILURE"),
     Payment("UPI", <<"bank", "timeout">>, <<"issuer", "timeout">>, "BANK", "AUTHORIZATION",
             <<"bank", "timed", "out", "processing", "the", "authorization.">>,
             "ISSUER_TEMPORARY_FAILURE") >>

\* Gateway-side failures: the ones the storm will catch.
GatewayPayments ==
  << Payment("NETBANKING", <<"gateway", "error">>, <<"gateway", "timeout">>, "GATEWAY",
             "AUTHORIZATION", <<"gateway", "timeout", "-", "upstream", "did", "not", "respond.">>,
             "GATEWAY_FAILURE"),
     Payment("WALLET", <<"gateway", "error">>, <<"gateway", "5xx">>, "GATEWAY", "CAPTURE",
             <<"gateway", "returned", "a", "502", "bad", "gateway", "error.">>,
             "GATEWAY_FAILURE") >>

\* Customer-side failures: a message, not a retry.
CustomerPayments ==
  << Payment("CARD", <<"gateway", "error">>, <<"authentication", "failed">>, "CUSTOMER",
             "AUTHENTICATION",
             <<"3-d", "secure", "authentication", "failed,", "incorrect", "otp.">>,
             "CUSTOMER_AUTH_FAILURE"),
     Payment("CARD", <<"gateway", "error">>, <<"3ds", "abandoned">>, "CUSTOMER",
             "AUTHENTICATION",
             <<"customer", "did", "not", "complete", "3-d", "secure", "authentication.">>,
             "CUSTOMER_ABANDONMENT") >>

\* Structurally terminal: stopping is the correct answer.
TerminalPayments ==
  << Payment("CARD", <<"gateway", "error">>, <<"expired", "card">>, "CUSTOMER", "AUTHORIZATION",
             <<"card", "has", "expired.">>, "PAYMENT_METHOD_INVALID"),
     Payment("MANDATE", <<"business", "error">>, <<"mandate", "revoked">>, "BUSINESS",
             "AUTHORIZATION", <<"mandate", "has", "been", "revoked", "by", "the", "customer.">>,
             "MANDATE_INVALID") >>

\* The one nothing explains, and a second one low on funds.
RemainingPayments ==
  << Payment("CARD", <<"resp", "77">>, <<"response", "code", "77">>, "GATEWAY", "AUTHORIZATION",
             <<"acquirer", "switch", "returned", "response", "code", "77;", "reconciliation",
             "mismatch", "flagged.">>, "UNKNOWN"),
     Payment("UPI", <<"bad", "request", "error">>, <<"insufficient", "funds">>, "BANK",
             "AUTHORIZATION",
             <<"not", "enough", "balance", "to", "complete", "the", "transaction.">>,
             "CUSTOMER_FUNDS_LOW") >>

DEMO_PAYMENTS ==
    TransientPayments \o GatewayPayments \o CustomerPayments \o TerminalPayments
        \o RemainingPayments

\* The payment the message is written for, and the one the reviewer is shown.
DEMO_AI_MESSAGE_PAYMENT_ID == 8
DEMO_UNKNOWN_PAYMENT_ID == 11

=============================================================================
