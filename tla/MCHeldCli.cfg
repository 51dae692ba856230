SPECIFICATION Spec
CONSTANTS
    Plans <- CliWrite
    Retries = 2
INVARIANT WriteOnce
