\* Tool calls, the outbox and a cloud agent, each in its settings.
SPECIFICATION DlvSpec
CONSTANTS
    shell = shell  deploy = deploy  purge = purge  purge2 = purge2
    a1 = a1  a2 = a2  m1 = m1  i1 = i1  i2 = i2  d1 = d1  d2 = d2  p1 = p1  p2 = p2
    Effect <- ToolCalls
    Policy <- Gates
    Repeats <- Again
    Attempt <- Attempts
    NoAttempt = NoAttempt
    MaxStart = 3
    Chat <- Chats
    Invite <- Invites
    Drain <- Drains
    NoDrain = NoDrain
    NoRow = NoRow
    MaxAttempts = 2
    DmCap = 1
    MaxDrainCrash = 1
    MaxInbound = 1
    Poller <- Pollers
    NoPoller = NoPoller
    MaxReply = 1
    MaxCancel = 1
    MaxRun = 3
    MaxLoss = 1
INVARIANTS
    DlvTypeOK
    ConsequentialOnce
    
    CompletedDidAct
    AskCanBeAnswered
    CopyIsExplained
    WokenOnce
    FollowedToTheEnd
PROPERTIES
    NoApprovalForgotten
    InviteOnlyWhilePending
    RowsSettle
    SoleUnwantedStops
CHECK_DEADLOCK FALSE
