SPECIFICATION FairRuntime
CONSTANTS
    BatchJobs = {j1, j2}
    MaxFailures = 2
INVARIANTS
    DrainedIsQuiet
    OutcomesAreFinalized
PROPERTIES
    Stops
