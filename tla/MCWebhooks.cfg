CONSTANTS
    hook = hook
    created = created
    updated = updated
    job = job
    Hooks = {hook}
    Fanouts = {created, updated}
    RetryJobs = {job}
    RetryDelays = 3
    HookFailures = 0
SPECIFICATION WebhooksSpec
CHECK_DEADLOCK FALSE
INVARIANTS
    EveryUpdateFires
