CONSTANTS
    Tools <- OneTool
    Answers = {"success", "forbidden", "refused"}
    MaxChanges = 1
SPECIFICATION FreePorts
INVARIANTS
    VerdictsAgree
