\* A journal of two fields with one crash, small scenes, recordings of up to
\* eight pictures, and one or two interferences of other programs.
SPECIFICATION Spec
CONSTANTS
    NumFields = 2
    MaxOps = 1
    MaxRecoveryAttempts = 2
    MaxUserChanges = 1
    MaxRuns = 2
    MaxCrashes = 1
    Sources = {1, 2}
    Scenarios <- SceneScenarios
    MaxAuto = 1
    MaxUser = 1
    MaxResamples = 1
    Noise = 1
    Resized = 10
    MaxFrames = 8
    TrimRequests <- Recordings
    MaxChunks = 1
    MediaRequests <- Tools
    MaxOutside = 2
    MaxSaves = 2
    MaxStarts = 2
    MaxMeddling = 1
INVARIANTS
    PlanReceiptsAreHonest
    ExportsAreFaithful
PROPERTIES
    EffectsHaveTheirGrounds
    PlansAreSound
CHECK_DEADLOCK FALSE
