CONSTANTS
    Attempts = {"a1", "a2"}
    Emails = {"e1"}
    Passwords = {"p1", "p2"}
    Sessions = {"s1"}
    AtAge = 1
    RtAge = 3
    VerifyTime = 1
    MaxTime = 3
    MaxChanges = 2
    MaxFaults = 1
SPECIFICATION FairSpec
INVARIANTS TypeOK OneAccountPerEmail SignUpTruth SessionOfOneAccount AdminGrantRecent
PROPERTIES Answered
