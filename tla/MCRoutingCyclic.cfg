SPECIFICATION Spec
CONSTANTS
    ClientCount = 2
    ServerCount = 2
    UsedServers = 2
    Keys = {"t850", "q850", "sst"}
    Hash <- MCHash
    Broadcasts = {"flush"}
    Distributions = {"hashed_cyclic"}
    Programs <- MCSame
INVARIANT SameServer
