------------------------- MODULE RequestLineProofs -------------------------
(* What the steps of RequestLine do to a user's requests and responses.    *)
EXTENDS RequestLine, TLAPS, SequenceTheorems

\* The requests and responses that remain keep their order.
LEMMA TailElements ==
    ASSUME NEW S, NEW s \in Seq(S), s # <<>>
    PROVE  /\ Tail(s) \in Seq(S) /\ Len(s) \in Nat \ {0}
           /\ Len(Tail(s)) = Len(s) - 1
           /\ \A i \in 1..(Len(s) - 1) : Tail(s)[i] = s[i + 1]
           /\ Head(s) = s[1] /\ Head(s) \in S
  BY HeadTailProperties, LenProperties, EmptySeq

LEMMA AppendElements ==
    ASSUME NEW S, NEW s \in Seq(S), NEW e \in S
    PROVE  /\ Append(s, e) \in Seq(S) /\ Len(s) \in Nat
           /\ Len(Append(s, e)) = Len(s) + 1
           /\ \A i \in 1..Len(s) : Append(s, e)[i] = s[i]
           /\ Append(s, e)[Len(s) + 1] = e
  BY AppendProperties, LenProperties

LEMMA PrefixElements ==
    ASSUME NEW S, NEW s \in Seq(S), NEW n \in 0..Len(s)
    PROVE  /\ SubSeq(s, 1, n) \in Seq(S)
           /\ Len(SubSeq(s, 1, n)) = n
           /\ \A i \in 1..n : SubSeq(s, 1, n)[i] = s[i]
  BY SubSeqProperties, LenProperties

LineType(R, A) ==
    /\ call \in [Users -> R \cup {NoCall}]
    /\ sent \in [Users -> Seq(R)] /\ back \in [Users -> Seq(A)]
    /\ here \in [Users -> BOOLEAN]

\* A call keeps the types of the line.
LEMMA SendType ==
    ASSUME NEW R, NEW A, LineType(R, A), NEW u \in Users, NEW r \in R,
           Send(u, r)
    PROVE  LineType(R, A)'
  BY AppendElements DEF LineType, Send

LEMMA CutType ==
    ASSUME NEW R, NEW A, LineType(R, A), NEW u \in Users, NEW b \in Nat,
           Cut(u, b)
    PROVE  sent' \in [Users -> Seq(R)]
  <1>1. PICK n \in b..Len(sent[u]) :
            sent' = [sent EXCEPT ![u] = SubSeq(sent[u], 1, n)]
    BY DEF Cut
  <1>2. sent[u] \in Seq(R) /\ Len(sent[u]) \in Nat
    BY LenProperties DEF LineType
  <1>3. SubSeq(sent[u], 1, n) \in Seq(R)
    BY <1>2, PrefixElements
  <1> QED
    BY <1>1, <1>3 DEF LineType

LEMMA EndType ==
    ASSUME NEW R, NEW A, LineType(R, A), NEW u \in Users, NEW b \in Nat,
           Receive(u) \/ Discard(u) \/ GiveUp(u, b) \/ Depart(u, b)
    PROVE  LineType(R, A)'
  <1>1. back[u] # <<>> => Tail(back[u]) \in Seq(A)
    BY TailElements DEF LineType
  <1>2. CASE Receive(u) \/ Discard(u)
    BY <1>1, <1>2 DEF LineType, Receive, Discard
  <1>3. CASE GiveUp(u, b) \/ Depart(u, b)
    <2>1. sent' \in [Users -> Seq(R)]
      BY <1>3, CutType DEF GiveUp, Depart
    <2>2. CASE GiveUp(u, b)
      BY <2>1, <2>2 DEF LineType, GiveUp
    <2>3. CASE Depart(u, b)
      <3>1. <<>> \in Seq(A)
        BY EmptySeq
      <3> QED
        BY <2>1, <2>3, <3>1 DEF LineType, Depart
    <2> QED
      BY <1>3, <2>2, <2>3
  <1> QED
    BY <1>2, <1>3

LEMMA RespondType ==
    ASSUME NEW R, NEW A, LineType(R, A), NEW u \in Users, NEW a \in A,
           sent[u] # <<>>, Respond(u, a)
    PROVE  LineType(R, A)'
  <1>1. Tail(sent[u]) \in Seq(R) /\ Append(back[u], a) \in Seq(A)
    BY TailElements, AppendElements DEF LineType
  <1> QED
    BY <1>1 DEF LineType, Respond
=============================================================================
