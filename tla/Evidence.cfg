\* One client at a time: a report or audit, an output waiter, a replay waiter,
\* the take feed, or the stage with two callers and a lease.
SPECIFICATION EvidenceSpec
CONSTANTS
    MaxEvents <- ChangesPerClient
    Items = 2
    Clients = {"sample", "output", "replay", "take", "stage"}
    Callers = {"a"}
    Anonymous = "anonymous"
    MaxStages = 1
    MaxTakes = 2
INVARIANTS
    EvidenceTypeOK
    SampleIsOneMoment
    TakeFenceMeansApplied
    OutputOutcomeIsHonest
    ReplayPathIsTheOnlyOne
    EffectRestsOnFreshEvidence
    StageReceiptIsHonest
CHECK_DEADLOCK FALSE
