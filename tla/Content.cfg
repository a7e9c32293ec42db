CONSTANTS
    MaxTokens = 6
    MaxLength = 18
    MaxRun = 2
    MaxRepeats = 2
    EnoughWords = 4
    ShortText = 2
SPECIFICATION Spec
CHECK_DEADLOCK FALSE
INVARIANTS
    NoTagSurvives
    ScriptTextIsDropped
    PlainTextKeepsRules
