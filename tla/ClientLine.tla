----------------------------- MODULE ClientLine -----------------------------
(***************************************************************************)
(* What a client object sees of its NetworkClient when no other object     *)
(* uses the same client: the steps of RequestLine, with a server that      *)
(* answers every request.  Requests and responses are reduced to their     *)
(* types.                                                                  *)
(*                                                                         *)
(* Requests and responses are lost in more ways here than the modules that *)
(* compose RequestLine let them be: with the connection, at any time and   *)
(* several at once, and with the call that gives up.  What never happens   *)
(* is the same: nothing is answered twice, nothing overtakes, a call never *)
(* ends with a response of another type.                                   *)
(***************************************************************************)
EXTENDS RequestLine

CONSTANT Ops  \* the request types

Requests == [op : Ops, arg : {<<>>}]

Ask(u) == \E r \in Requests : Send(u, r)

Serve(u) ==
    /\ sent[u] # <<>>
    /\ Respond(u, [op |-> Head(sent[u]).op])

\* A call may end without a response, the last requests may never reach the
\* server, and responses that follow each other may be dropped.
Fail(u) ==
    /\ call' \in {call, [call EXCEPT ![u] = NoCall]}
    /\ Cut(u, 0)
    /\ \E n \in 0..Len(back[u]) : \E m \in n..Len(back[u]) :
          back' = [back EXCEPT ![u] =
                      SubSeq(@, 1, n) \o SubSeq(@, m + 1, Len(@))]
    /\ UNCHANGED here

Next == \E u \in Users : Ask(u) \/ Serve(u) \/ Receive(u) \/ Fail(u)

Spec == LineInit /\ [][Next]_line
=============================================================================
