SPECIFICATION MembershipFairSpec
CONSTANTS
    Sessions = {s1}
    Bundles = {b1}
    Handlers = {h1, h2}
    Term = 2
    Window = 1
    Early = 1
    Horizon = 5
    MaxFaults = 1
INVARIANTS
    TermsAddUp
    RemindedOnce

    
CHECK_DEADLOCK FALSE
