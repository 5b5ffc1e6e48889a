SPECIFICATION Spec
CONSTANTS
    Failure = {f1, f2}
    Method = "CARD"
    Causes = {"UNKNOWN"}
    Suggestable = {"MANDATE_INVALID"}
    HumanCauses = {}
    Instants = {10}
    Immediate = {FALSE}
    NoCause = NoCause
    MaxAttempts = 3
    MaxMessagesPerDay = 2
    QuietStart = 22
    QuietEnd = 8
    Hour = 1
CHECK_DEADLOCK FALSE
PROPERTY SuggestionHasNoAuthority
