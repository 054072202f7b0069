SPECIFICATION PreflightSpec
CONSTANTS
    Tools <- OneTool
    Answers = {"success", "refused"}
    MaxChanges = 1
INVARIANT ReadyMeansReady
