\* Pipes of one line, up to three lines to each.
CONSTANTS
    Capacity = 1
    MaxLines <- MCMaxLines
    Bad <- MCBad
SPECIFICATION FairScriptSpec
INVARIANTS
    ScriptTypeOK
    LogsWhole
PROPERTIES
    ModuleEnds
    TimeLimitReports
    ScriptUnblocked
CHECK_DEADLOCK FALSE
