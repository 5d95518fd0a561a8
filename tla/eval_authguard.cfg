SPECIFICATION Spec
CONSTANTS
    a = a
    b = b
    big = big
    Items = {a, b, big}
    Hidden = {b}
    Cyclomatic <- ComplexityOf
    Plans <- AuthGuardPlans
    Worlds <- PartialWorlds
INVARIANTS TimedOutMeansUnknown
