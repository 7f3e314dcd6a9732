SPECIFICATION LiveSpec
CONSTANTS
    Sources <- MCSources
    Headers <- MCHeaders
    Texts <- FewTexts
    FirstTexts <- MCFirstTexts
    Includes <- MCIncludes
    FirstLine = {}
    Config <- Diamond
    Requests <- DiamondRequests
    MaxKills = 1
    MaxFailures = 1
    Reverts = FALSE
    EditsUnderTool = FALSE
    PartialOutputs = TRUE
    KillsInWrite = FALSE
    Absent = Absent
    Torn = Torn
    Unset = Unset
    Partial = Partial
    a = a
    b = b
    h = h
    a1 = a1
    b1 = b1
    h1 = h1
    t1 = t1
    t2 = t2
INVARIANTS BuiltIsFresh NoNeedlessWork
PROPERTIES EventuallyBuilt
