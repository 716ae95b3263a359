CONSTANTS
    Pkgs <- MCPkgs
    EnvInputs <- MCEnvInputs
    OpenFds = {1, 2, 3, 8}
SPECIFICATION Spec
INVARIANTS
    OpenStreamsTracked
    StreamsOwned
PROPERTIES
    StreamRegistryRefined
