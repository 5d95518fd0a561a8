SPECIFICATION FairSpec
CONSTANTS
    NDims = 3
    Smoke = {1, 2}
INVARIANTS TypeOK GetNeverEmpty CompleteOrReported StrayThreadsAreReported
PROPERTIES FieldsAreFinal TimeoutEnds
