SPECIFICATION WebhookFairSpec
CONSTANTS
    Events = {e1, e2}
    Deliveries = {d1, d2, d3}
    Swallowed = {e1}
    Faulty = {e1}
    Overlapping = {e1}
INVARIANTS
    OneHandler
PROPERTIES
    ProcessedIsFinal
    CalmIsHandled
CHECK_DEADLOCK FALSE
