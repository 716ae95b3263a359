CONSTANTS
    LibMajor = 1
    LibMinor = 14
    LibRelease = 2
    Exceptions <- MCExceptions
    HeaderVersions <- MCHeaders
    EnvValues <- MCEnv
SPECIFICATION Spec
INVARIANTS
    MismatchAborts

