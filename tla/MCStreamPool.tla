---------------------------- MODULE MCStreamPool ----------------------------
(* Two servers and one buffer to spare, messages that fill a third and more  *)
(* than half of a buffer.                                                    *)
EXTENDS StreamPool

MCFields == {"small", "large"}
MCSize   == [m \in MCFields \cup Control |-> CASE m = "small" -> 3
                                                [] m = "large" -> 6
                                                [] OTHER       -> 0]
MCHeader == [m \in MCFields \cup Control |-> 2]

\* a field whose encoding is larger than a buffer
MCBigSize == [MCSize EXCEPT !["large"] = 12]
=============================================================================
