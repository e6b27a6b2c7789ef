SPECIFICATION DeliveryFairSpec
CONSTANTS
    Alerts = {a1}
    Hooks = {h1}
    Polls = {p1, p2}
    Callers = {c1}
    MaxRetries = 3
    TroubleCases <- SomeFaults
    MaxExtras = 1
CHECK_DEADLOCK FALSE
INVARIANTS
    AttemptsFormAChain
    NoDeliveryForgotten
PROPERTIES
    DeliveriesSettle
