SPECIFICATION Spec
CONSTANTS
    ClientCount = 3
    ServerCount = 2
    UsedServers = 2
    Keys = {"t850", "q850", "sst"}
    Hash <- MCHash
    Broadcasts = {"flush"}
    Distributions = {"hashed_cyclic", "hashed_to_single", "even"}
    Programs <- MCBoth
INVARIANTS SameServerWhenAgreed RouteStable EvenSpread
