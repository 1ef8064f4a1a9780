SPECIFICATION Spec
CONSTANTS
    c1 = c1
    c2 = c2
    Clients = {c1, c2}
    ServerCount = 2
    ClientPool = 2
    ServerPool = 1
    QueueSize = 1
    Rounds = 1
    MaxSent <- MCMaxSent
    Eager = {c1}
INVARIANTS TypeOK NoStranger PipelineFifo StopsDrained
PROPERTIES ImplementsService Termination
