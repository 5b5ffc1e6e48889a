\* Two failures of one UPI payment, over a night and a morning.
SPECIFICATION Spec
CONSTANTS
    Failure = {f1, f2}
    Method = "UPI"
    Causes = {"CUSTOMER_ABANDONMENT", "CUSTOMER_AUTH_FAILURE", "UNKNOWN"}
    Suggestable = {"MANDATE_INVALID"}
    HumanCauses = {"CUSTOMER_AUTH_FAILURE", "ISSUER_TEMPORARY_FAILURE"}
    Instants = {23, 32}
    Immediate = {FALSE, TRUE}
    NoCause = NoCause
    MaxAttempts = 3
    MaxMessagesPerDay = 2
    QuietStart = 22
    QuietEnd = 8
    Hour = 1
CHECK_DEADLOCK FALSE
INVARIANT BudgetsHold
INVARIANT AttemptsExplained
INVARIANT NightsAreSilent
INVARIANT OnlyRetriesCharge
