\* All of it: group thread, parallel runs, withdrawn runs, three chats.
SPECIFICATION Spec
CONSTANTS
    r1 = r1  r2 = r2  r3 = r3  r4 = r4
    Run <- Three
    NoRun = NoRun
    NoRow = NoRow
    MaxMsg = 2
    MaxExtra = 2
    Chats = {"app", "dm", "channel"}
    Parallel = {"bot_message", "messaging"}
    Withdrawals = {"rollback", "abandon", "teach"}
    GroupThread = TRUE
SYMMETRY RunSymmetry
INVARIANTS
    TypeOK
    ClaimedIsShown
CHECK_DEADLOCK FALSE
