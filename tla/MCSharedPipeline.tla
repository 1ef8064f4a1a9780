-------------------------- MODULE MCSharedPipeline --------------------------
EXTENDS SharedPipeline, TLC

CONSTANTS p1, p2, q1, q2

MCPlanOrder == <<p1, p2>>
MCScaleTo == q1 :> q2
MCRateTo == q2 :> q1
MCMaxCalls == "client" :> 2 @@ "server" :> 5

\* Each plan changes what the other one shares with it, or keeps it.
Chains(first, second) == p1 :> first @@ p2 :> second

\* In the second chain of a server the fields q1 and q2 become one.
MCConfigs ==
    {[role |-> "client", chain |-> c] : c \in
        {Chains(<<"print", "metadata-mapping", "print", "debug-sink">>,
                <<"select", "scale", "encode", "sink">>),
         Chains(<<"scale", "mask", "debug-sink">>,
                <<"average-rate", "print", "encode-mtg2", "sink">>)}}
    \cup
    {[role |-> "server", chain |-> c] : c \in
        {Chains(<<"metadata-mapping", "aggregate", "print", "sink">>,
                <<"aggregate", "mask", "debug-sink">>),
         Chains(<<"print", "mask", "aggregate", "scale", "sink">>,
                <<"aggregate", "print", "average-rate", "debug-sink">>),
         Chains(<<"print", "scale", "aggregate", "sink">>,
                <<"select", "mask", "aggregate", "encode", "sink">>)}}

Symmetry == Permutations(Mds) \cup Permutations(Data) \cup Permutations(Parts)
=============================================================================
