---------------------------- MODULE RequestLine ----------------------------
(***************************************************************************)
(* A client object's requests to rebear-server, as its calls see them:     *)
(* what NetworkClient and NetworkServer make of a connection between them. *)
(* The object calls NetworkClient::sendRequest and waits; the server's     *)
(* handleClient thread handles the requests of the connection one by one,  *)
(* in order, and the responses come back in that order.                    *)
(*                                                                         *)
(* A call that gives up leaves its request behind: it may be handled late, *)
(* while later calls are made, or be lost with the connection.  Responses  *)
(* are matched by their type alone: a late response ends a later call of   *)
(* the same type.  It is thrown away when no such call waits, or when it   *)
(* comes before that call has begun to wait.                               *)
(*                                                                         *)
(* A request is a record [op, arg]; a response carries the op it answers.  *)
(***************************************************************************)
EXTENDS Naturals, Sequences

CONSTANTS Users,   \* client objects, each with a connection of its own
          MaxSent  \* bound: requests and responses of a user on their way

VARIABLES
    call,  \* call[u]: the request u waits for, or NoCall
    sent,  \* sent[u]: the requests of u that are not handled yet
    back,  \* back[u]: the responses on their way to u
    here   \* here[u]: the client of u has not gone away

line == <<call, sent, back, here>>

NoCall == [op |-> "none", arg |-> <<>>]

LineInit ==
    /\ call = [u \in Users |-> NoCall]
    /\ sent = [u \in Users |-> <<>>] /\ back = [u \in Users |-> <<>>]
    /\ here = [u \in Users |-> TRUE]

-----------------------------------------------------------------------------
(* sendRequest.                                                            *)

Idle(u) == here[u] /\ call[u] = NoCall

Send(u, r) ==
    /\ Idle(u)
    /\ Len(sent[u]) + Len(back[u]) < MaxSent[u]
    /\ call' = [call EXCEPT ![u] = r]
    /\ sent' = [sent EXCEPT ![u] = Append(@, r)]
    /\ UNCHANGED <<back, here>>

\* Fault: any response ends the call.
ReceiveAny(u) ==
    /\ call[u] # NoCall /\ back[u] # <<>>
    /\ call' = [call EXCEPT ![u] = NoCall]
    /\ back' = [back EXCEPT ![u] = Tail(@)]
    /\ UNCHANGED <<sent, here>>

\* A response of the type that u waits for ends its call.
Receive(u) ==
    /\ call[u] # NoCall /\ back[u] # <<>>
    /\ Head(back[u]).op = call[u].op
    /\ call' = [call EXCEPT ![u] = NoCall]
    /\ back' = [back EXCEPT ![u] = Tail(@)]
    /\ UNCHANGED <<sent, here>>

\* A response that nobody waits for yet or any more, or that is lost.
Discard(u) ==
    /\ back[u] # <<>>
    /\ back' = [back EXCEPT ![u] = Tail(@)]
    /\ UNCHANGED <<call, sent, here>>

\* What the server has not begun to handle may be lost.
Cut(u, begun) ==
    \E n \in begun..Len(sent[u]) :
        sent' = [sent EXCEPT ![u] = SubSeq(@, 1, n)]

\* sendRequest returns false: the deadline has passed, or the connection is
\* lost.
GiveUp(u, begun) ==
    /\ here[u] /\ call[u] # NoCall
    /\ call' = [call EXCEPT ![u] = NoCall]
    /\ Cut(u, begun)
    /\ UNCHANGED <<back, here>>

\* The client process ends, or is killed.
Depart(u, begun) ==
    /\ here[u]
    /\ here' = [here EXCEPT ![u] = FALSE]
    /\ call' = [call EXCEPT ![u] = NoCall]
    /\ back' = [back EXCEPT ![u] = <<>>]
    /\ Cut(u, begun)

-----------------------------------------------------------------------------
(* handleClient.                                                           *)

\* The next request of u is an o.
Due(u, o) == sent[u] # <<>> /\ Head(sent[u]).op = o

\* The request has been handled; its response goes out.
Respond(u, response) ==
    /\ sent' = [sent EXCEPT ![u] = Tail(@)]
    /\ back' = [back EXCEPT ![u] = Append(@, response)]
    /\ UNCHANGED <<call, here>>
=============================================================================
