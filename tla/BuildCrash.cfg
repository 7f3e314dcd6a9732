SPECIFICATION Spec
CONSTANTS
    Sources <- MCSources
    Headers <- MCHeaders
    Texts <- MCTexts
    FirstTexts <- MCFirstTexts
    Includes <- MCIncludes
    FirstLine = {}
    Config <- Small
    Requests <- SmallRequests
    MaxKills = 1
    MaxFailures = 1
    Reverts = FALSE
    EditsUnderTool = FALSE
    PartialOutputs = FALSE
    KillsInWrite = TRUE
    Absent = Absent
    Torn = Torn
    Unset = Unset
    Partial = Partial
    a = a
    b = b
    h = h
    a1 = a1
    b1 = b1
    h1 = h1
    t1 = t1
    t2 = t2
INVARIANTS TypeOK
PROPERTIES SkippedIsFresh
