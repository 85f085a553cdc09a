CONSTANTS
    Workspaces <- MCWorkspaces
    Oversized <- MCOversized
    Dirty <- MCDirty
    Idents <- MCIdents
    LowerCase <- MCLowerCase
    Basenames <- MCBasenames
    MaxMetadata = 1
    Null = Null
    MaxPatterns <- MCMaxPatterns
    BadGlobs <- MCBadGlobs
    BadArguments <- MCBadArguments
    Slashed <- MCSlashed
    Requests <- MCRequests
    Documents <- MCDocuments
    MaxTrace = 2
    MaxLoads = 2
    MaxFiles = 2
    NoEngine = NoEngine
    NoAnswer = NoAnswer
SPECIFICATION Spec
INVARIANTS
    EngineWellFormed
    RelocationInvariant
PROPERTY ImplementsDecision
CHECK_DEADLOCK FALSE
