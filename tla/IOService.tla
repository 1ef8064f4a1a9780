------------------------------ MODULE IOService ------------------------------
(***************************************************************************)
(* What the I/O server promises its clients, whatever transports, buffers  *)
(* and queues lie between them: every message a client sends to a server   *)
(* is dispatched there exactly once and in the order it was sent;          *)
(* synchronize returns to anyone only when everything sent before it has   *)
(* been dispatched everywhere; a server stops only when every client has   *)
(* closed and nothing is left to dispatch.                                 *)
(***************************************************************************)
EXTENDS Naturals

CONSTANTS Clients, Servers

VARIABLES
    sent,     \* sent[c][s]: messages client c has sent to server s
    handled,  \* handled[c][s]: number of the last one s has dispatched
    rounds,   \* synchronizations completed by everyone
    closed,   \* clients that have closed their connections
    stopped   \* servers that have stopped

vars == <<sent, handled, rounds, closed, stopped>>

Init ==
    /\ sent = [c \in Clients |-> [s \in Servers |-> 0]]
    /\ handled = [c \in Clients |-> [s \in Servers |-> 0]]
    /\ rounds = 0
    /\ closed = {}
    /\ stopped = {}

Send(c, s) ==
    /\ c \notin closed
    /\ sent' = [sent EXCEPT ![c][s] = @ + 1]
    /\ UNCHANGED <<handled, rounds, closed, stopped>>

Dispatch(c, s) ==
    /\ s \notin stopped
    /\ handled[c][s] < sent[c][s]
    /\ handled' = [handled EXCEPT ![c][s] = @ + 1]
    /\ UNCHANGED <<sent, rounds, closed, stopped>>

Synchronize ==
    /\ handled = sent
    /\ rounds' = rounds + 1
    /\ UNCHANGED <<sent, handled, closed, stopped>>

Close(c) ==
    /\ c \notin closed
    /\ closed' = closed \cup {c}
    /\ UNCHANGED <<sent, handled, rounds, stopped>>

Stop(s) ==
    /\ s \notin stopped
    /\ closed = Clients
    /\ \A c \in Clients : handled[c][s] = sent[c][s]
    /\ stopped' = stopped \cup {s}
    /\ UNCHANGED <<sent, handled, rounds, closed>>

Next ==
    \/ \E c \in Clients, s \in Servers : Send(c, s) \/ Dispatch(c, s)
    \/ \E c \in Clients : Close(c)
    \/ \E s \in Servers : Stop(s)
    \/ Synchronize

Spec == Init /\ [][Next]_vars
=============================================================================
