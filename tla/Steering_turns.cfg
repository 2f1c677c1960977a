\* The conversation of a bot with its routines: sends, holds, continuations.
SPECIFICATION Spec
CONSTANTS
    r1 = r1  r2 = r2  r3 = r3  r4 = r4
    Run <- Four
    NoRun = NoRun
    NoRow = NoRow
    MaxMsg = 3
    MaxExtra = 1
    Chats = {"app"}
    Parallel = {}
    Withdrawals = {}
    GroupThread = FALSE
SYMMETRY RunSymmetry
INVARIANTS
    NoStrandedSteering
PROPERTIES
    ConversationStartsAlone
CHECK_DEADLOCK FALSE
