\* Two deliverers drive the two messages of one event.
SPECIFICATION OutboxSpec
CONSTANTS
    Events = {e1}
    Deliverers = {d1, d2}
    MaxAttempts = 2
    MaxRetries = 1
    MaxCrashes = 1
    NoTask = NoTask
INVARIANTS AttemptsCounted StatusTellsAttempt
PROPERTIES ClaimsDoNotOverlap 
\* The model stops when every message has ended.
CHECK_DEADLOCK FALSE
