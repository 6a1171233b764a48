----------------------------- MODULE AcceptExIO -----------------------------
(***************************************************************************)
(* What the two servers that accept with AcceptEx share: one AcceptEx in   *)
(* flight on the listening socket, and the event that its completion       *)
(* signals, successful or not.                                             *)
(***************************************************************************)
EXTENDS OverlappedIO

VARIABLES
  AcceptSocket,  \* the socket the AcceptEx has connected, once it is done
  acceptOp       \* "none", "pending", "done" or "failed"

acceptVars == <<AcceptSocket, acceptOp>>

AcceptTypeOK ==
  /\ AcceptSocket \in Conns \cup {NoSocket}
  /\ acceptOp \in {"none", "pending", "done", "failed"}

\* A new AcceptSocket, the event reset, AcceptEx posted.
PostAcceptEx ==
  /\ AcceptSocket' = NoSocket
  /\ acceptOp' = "pending"

\* The event of ListenOverlapped is signalled until it is reset.
AcceptSignalled == acceptOp \in {"done", "failed"}

CompleteAccept ==
  /\ acceptOp = "pending" /\ backlog # <<>>
  /\ AcceptSocket' = Head(backlog)
  /\ acceptOp' = "done"
  /\ conn' = [conn EXCEPT ![Head(backlog)] = "open"]
  /\ backlog' = Tail(backlog)
  /\ UNCHANGED <<clientVars, taken, echo, infoVars>>

\* The connection was reset before it was accepted: AcceptEx fails.
CompleteAcceptFailed ==
  /\ acceptOp = "pending" /\ backlog # <<>> /\ rst[Head(backlog)]
  /\ acceptOp' = "failed"
  /\ conn' = [conn EXCEPT ![Head(backlog)] = "closed"]
  /\ backlog' = Tail(backlog)
  /\ UNCHANGED <<clientVars, taken, echo, infoVars, AcceptSocket>>

AcceptStack == CompleteAccept \/ CompleteAcceptFailed

\* AcceptSocket can be received from.
AcceptedAlive == AcceptSocket \in {c \in Conns : ~Dead(c)}
=============================================================================
