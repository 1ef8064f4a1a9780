---------------------------- MODULE MCStatistics ----------------------------
EXTENDS Statistics, TLC

CONSTANTS s1, s2, k1, k2

\* k1 has a field at every step, k2 between any two checkpoints (Often) or not (Seldom).
Often  == k1 :> Steps @@ k2 :> {0, 1, 4, 6}
Seldom == k1 :> Steps @@ k2 :> {0, 1, 5, 6}

Together == [k \in Keys |-> s1]
Apart    == k1 :> s1 @@ k2 :> s2

Plan(home, due) ==
    [home |-> home, due |-> due, dated |-> TRUE, masters |-> Servers,
     lib |-> "eckit_codec", window |-> "forward-offset"]

MCOptions ==
    {Plan(h, d) : h \in {Together, Apart}, d \in {Often, Seldom}} \cup
    {[Plan(h, Often) EXCEPT !.dated = FALSE] : h \in {Together, Apart}} \cup
    {[Plan(Apart, Often) EXCEPT !.masters = {s1}],
     [Plan(Together, Often) EXCEPT !.lib = "fstream_io"],
     [Plan(Together, Often) EXCEPT !.window = "backward-offset"]}

\* Two masters, each with one key that covers every hour
RaceOptions == {Plan(Apart, [k \in Keys |-> 1 .. LastStep])}
=============================================================================
