SPECIFICATION SpecFlow
CONSTANTS
    a = a
    b = b
    Items = {a, b}
    Hidden = {b}
    Cyclomatic <- ComplexityOf
    Plans <- TargetPlans
    Worlds <- Comparisons
    Requests <- CommandLines
INVARIANTS TypeOK VerdictIsFull PlanExplainsVerdict ReportsNameBlockers RiskSummaryComplete SummaryCountsEachResult
