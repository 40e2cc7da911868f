SPECIFICATION RuntimeSpec
CONSTANTS
    BatchJobs = {j1}
    MaxFailures = 1
INVARIANTS
    FailureIsNonzero
