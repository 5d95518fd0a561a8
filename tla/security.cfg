SPECIFICATION Spec
CONSTANTS
    s1 = s1
    s2 = s2
    s3 = s3
    v1 = v1
    v2 = v2
    v3 = v3
    r1 = r1
    r2 = r2
    SastGroups = {s1, s2, s3}
    ScaGroups = {v1, v2, v3}
    Rule <- RuleOf
    File <- FileOf
    Level <- LevelOf
    Vuln <- VulnOf
    Files <- RepoFiles
    Target <- Src
    Detects <- RulesetFinds
    Known <- DatabaseKnows
    Worlds <- AllWorlds
    Requests <- AllRequests
    MaxFaults = 1
    Days = 2
INVARIANTS TypeOK CompleteScanIsWhole SspAddsTheGrowth ExitZeroMeansNothingNew SspAndGateAgree SarifShowsFailure AdvisoryAccounted
PROPERTIES LaterNeverMoreLenient
