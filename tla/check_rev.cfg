SPECIFICATION Spec
CONSTANTS
    Procs = {p1, p2}
    c1 = c1
    c2 = c2
    Commits = {c1, c2}
    Drafts = {d1}
    None = None
    Partial = Partial
    Requests <- CiLine
    Repos <- Clone
    MaxChanges = 1
    MaxFaults = 0
INVARIANTS RevIsJudged
