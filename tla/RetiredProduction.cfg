SPECIFICATION PromptsSpec
CONSTANTS
    Prompts = 2
    Opened = 1
    PageSize = 1
    MaxAttempts = 2
    MaxVersions = 2
    MaxLoads = 2
    MaxActs = 3
INVARIANT RetiredIsNotProduction
CHECK_DEADLOCK FALSE
