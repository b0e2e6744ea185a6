CONSTANTS
    Deliveries = {site_webhook, global_smtp}
    Required = {site_webhook, global_smtp}
    Sessions = {w1, w2}
    NoOne = NoOne
    MaxAttempts = 2
    MaxCrashes = 1
    MaxResends = 1
CHECK_DEADLOCK FALSE
SPECIFICATION Spec
INVARIANTS CrmAgrees
