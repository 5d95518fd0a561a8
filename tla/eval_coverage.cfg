SPECIFICATION Spec
CONSTANTS
    a = a
    b = b
    big = big
    Items = {a, b, big}
    Hidden = {b}
    Cyclomatic <- ComplexityOf
    Plans <- CoveragePlans
    Worlds <- PartialWorlds
INVARIANTS CompiledNeverAuthoring
