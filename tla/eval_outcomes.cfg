SPECIFICATION Spec
CONSTANTS
    a = a
    b = b
    big = big
    Items = {a, b, big}
    Hidden = {b}
    Cyclomatic <- ComplexityOf
    Plans <- OutcomePlans
    Worlds <- OutcomeWorlds
INVARIANTS NoJudgementFromDefaults CompiledNeverAuthoring AllowRulesOnlyRelax VerdictAsAdvised DuplicateIsRedundant
