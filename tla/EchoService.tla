---------------------------- MODULE EchoService ----------------------------
(***************************************************************************)
(* What every echo server of the repository promises, in the words of the  *)
(* header comment all of them carry: "When this application receives data  *)
(* from a client, it simply echos the data back in its original form until *)
(* the client closes the connection."                                      *)
(*                                                                         *)
(* Per connection: what has been echoed is always a prefix of what was     *)
(* sent, and the server gives a connection up only when it was reset, or   *)
(* when the client shut it down and everything it sent has been echoed.    *)
(* The set lossy is what a server takes back of that promise: connections  *)
(* it may close all the same.  A server that keeps it has lossy = {}.      *)
(***************************************************************************)
EXTENDS Integers, Sequences

CONSTANT Conns

VARIABLES conn, sent, fin, rst, echo, lossy

vars == <<conn, sent, fin, rst, echo>>

Init ==
  /\ conn = [c \in Conns |-> "new"]
  /\ sent = [c \in Conns |-> 0]
  /\ fin = [c \in Conns |-> FALSE]
  /\ rst = [c \in Conns |-> FALSE]
  /\ echo = [c \in Conns |-> <<>>]

Connect(c) ==
  /\ conn[c] = "new"
  /\ conn' = [conn EXCEPT ![c] = "pending"]
  /\ UNCHANGED <<sent, fin, rst, echo>>

ClientSend(c) ==
  /\ ~fin[c] /\ ~rst[c]
  /\ sent' = [sent EXCEPT ![c] = @ + 1]
  /\ UNCHANGED <<conn, fin, rst, echo>>

Shutdown(c) ==
  /\ fin' = [fin EXCEPT ![c] = TRUE]
  /\ UNCHANGED <<conn, sent, rst, echo>>

Reset(c) ==
  /\ rst' = [rst EXCEPT ![c] = TRUE]
  /\ UNCHANGED <<conn, sent, fin, echo>>

Accept(c) ==
  /\ conn[c] = "pending"
  /\ conn' = [conn EXCEPT ![c] = "open"]
  /\ UNCHANGED <<sent, fin, rst, echo>>

\* The next n bytes of the client's stream go back to it, in order.
Echo(c, n) ==
  /\ conn[c] = "open" /\ ~rst[c]
  /\ Len(echo[c]) + n <= sent[c]
  /\ echo' = [echo EXCEPT ![c] = @ \o [k \in 1..n |-> Len(@) + k]]
  /\ UNCHANGED <<conn, sent, fin, rst>>

Close(c) ==
  /\ \/ conn[c] \in {"pending", "open"} /\ rst[c]
     \/ conn[c] = "open" /\ fin[c] /\ Len(echo[c]) = sent[c]
     \/ conn[c] = "open" /\ c \in lossy
  /\ conn' = [conn EXCEPT ![c] = "closed"]
  /\ UNCHANGED <<sent, fin, rst, echo>>

Next ==
  \E c \in Conns :
     \/ Connect(c) \/ ClientSend(c) \/ Shutdown(c) \/ Reset(c)
     \/ Accept(c) \/ Close(c)
     \/ \E n \in 1..sent[c] : Echo(c, n)

Spec == Init /\ [][Next]_vars
=============================================================================
