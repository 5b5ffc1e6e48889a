\* Two overlapping requests, two failure events, one death.
SPECIFICATION Spec
CONSTANTS
    MaxAttempts = 3
    MaxMessagesPerDay = 2
    QuietStart = 22
    QuietEnd = 8
    Hour = 60
    Calendar <- MCCalendar
    UnknownDay = 99
    k1 = k1
    k2 = k2
    Client = {c1, c2}
    Key = {k1, k2}
    Payload <- MCPayload
    Reports <- MCReports
    Occurred <- MCOccurred
    Method = "CARD"
    Suggestions = {"CUSTOMER_AUTH_FAILURE"}
    Verdicts = {"MANDATE_INVALID"}
    Now = 720
    MaxRows = 5
SYMMETRY ClientSymmetry
CHECK_DEADLOCK FALSE
INVARIANT TypeOK
INVARIANT AttemptsAreReports
INVARIANT DecidedByAuthority
INVARIANT StopsCancel
INVARIANT TrailIsTrue
INVARIANT AnswersAgree
PROPERTY ReviewsStay
