----------------------------- MODULE MCIOServer -----------------------------
EXTENDS IOServer, TLC

CONSTANTS c1, c2

\* Fields of both clients meet at the first server, two of c2 follow each other; the
\* second server has the calls of all clients only.
MCMaxSent == c1 :> <<1, 0>> @@ c2 :> <<2, 0>>
=============================================================================
