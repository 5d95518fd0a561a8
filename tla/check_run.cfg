SPECIFICATION Spec
CONSTANTS
    Procs = {p1}
    c1 = c1
    c2 = c2
    Commits = {c1, c2}
    Drafts = {d1}
    None = None
    Partial = Partial
    Requests <- Lines
    Repos <- Clones
    MaxChanges = 2
    MaxFaults = 1
INVARIANTS TypeOK CacheExact ReportNamesWhatWasJudged NoResidue ExitZeroMeansPassed
