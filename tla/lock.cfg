SPECIFICATION FairSpec
CONSTANTS
    app = app
    a = a
    b = b
    x = x
    NoName = NoName
    Names = {app, a, b}
    Extras = {x}
    Environment <- MCEnvironment
    Directories <- MCDirectories
PROPERTIES ClosureIsReachability ScanReturns
