----------------------------- MODULE MCRouting -----------------------------
(* Hash values that collide modulo the number of servers; a program that    *)
(* comes back to a field id, and clients without a part of one of them.     *)
EXTENDS Routing, TLC

MCHash == "t850" :> 7 @@ "q850" :> 4 @@ "sst" :> 10

Full   == <<"sst", "t850", "q850", "q850", "t850">>
Inland == SelectSeq(Full, LAMBDA k : k # "sst")   \* no part of an ocean field

MCSame   == {[c \in Clients |-> Full]}
MCInland == {[c \in Clients |-> IF c = 1 THEN Inland ELSE Full]}
MCBoth   == MCSame \cup MCInland
=============================================================================
