------------------------ MODULE NetworkServerProofs ------------------------
(***************************************************************************)
(* Proofs about NetworkServer: when stop() is back no thread runs, only a  *)
(* client that closes with requests unanswered kills the process, and each *)
(* connection implements ConnectionService.  For any number of             *)
(* connections, any max_clients_ and any number of requests.               *)
(***************************************************************************)
EXTENDS NetworkServer, FiniteSetTheorems, FunctionTheorems, SequenceTheorems,
        TLAPS

-----------------------------------------------------------------------------
(* The inductive invariant.                                                *)

\* A connection reaches acceptLoop once: before ClientConnect it is nowhere,
\* and until Accept it has no thread.
Connected ==
    \A c \in Conns :
        /\ client[c] = "new" => /\ hpc[c] = "none"
                                /\ c \notin backlog /\ c \notin threads
        /\ c \in backlog => hpc[c] = "none"

\* stop() knows every thread that runs, and gets to the clients' threads only
\* when acceptLoop can add no more.
Joined ==
    /\ \A c \in Conns : hpc[c] \notin {"none", "done"} => c \in threads
    /\ mpc \in {"joinClients", "stopped"} => apc = "exited"
    /\ mpc = "stopped" => threads = {}

\* The parts of s that complete a request.
Complete(s) == {i \in 1..Len(s) : s[i] # "head"}

\* The requests handleClient has read and not answered.
Held(c) == IF hpc[c] \in {"handle", "send"} THEN 1 ELSE 0

\* Every request on the wire, held or answered was asked.
Accounted ==
    \A c \in Conns :
        served[c] + Held(c) + Cardinality(Complete(wire[c])) <= asked[c]

Killed == mpc = "killed" => \E c \in Conns : reset[c] /\ asked[c] > served[c]

Inv == TypeOK /\ Connected /\ Joined /\ Accounted /\ Killed

-----------------------------------------------------------------------------
(* Counting the complete requests of a wire.                               *)

LEMMA CompleteFinite ==
    ASSUME NEW s \in Seq(Parts)
    PROVE  /\ IsFiniteSet(Complete(s)) /\ Cardinality(Complete(s)) \in Nat
           /\ Len(s) \in Nat
  <1>1. Len(s) \in Nat
    BY LenProperties
  <1>2. IsFiniteSet(1..Len(s))
    BY <1>1, FS_Interval
  <1>3. Complete(s) \in SUBSET (1..Len(s))
    BY DEF Complete
  <1>4. IsFiniteSet(Complete(s))
    BY <1>2, <1>3, FS_Subset
  <1> QED
    BY <1>1, <1>4, FS_CardinalityType

LEMMA CompleteEmpty == Cardinality(Complete(<<>>)) = 0
  <1>1. Complete(<<>>) = {}
    BY DEF Complete
  <1> QED
    BY <1>1, FS_EmptySet

LEMMA CompleteAppend ==
    ASSUME NEW s \in Seq(Parts), NEW e \in Parts
    PROVE  /\ Append(s, e) \in Seq(Parts)
           /\ Cardinality(Complete(Append(s, e)))
                = Cardinality(Complete(s)) + (IF e = "head" THEN 0 ELSE 1)
  <1> DEFINE t == Append(s, e)
  <1>1. /\ t \in Seq(Parts) /\ Len(s) \in Nat /\ Len(t) = Len(s) + 1
        /\ \A i \in 1..Len(s) : t[i] = s[i]
        /\ t[Len(s) + 1] = e
    BY AppendProperties, LenProperties
  <1>2. IsFiniteSet(Complete(s)) /\ Cardinality(Complete(s)) \in Nat
    BY CompleteFinite
  <1>3. Len(s) + 1 \notin Complete(s)
    BY <1>1 DEF Complete
  <1>4. CASE e = "head"
    <2>1. Complete(t) = Complete(s)
      BY <1>1, <1>4 DEF Complete
    <2> QED
      BY <1>1, <1>2, <1>4, <2>1
  <1>5. CASE e # "head"
    <2>1. Complete(t) = Complete(s) \cup {Len(s) + 1}
      BY <1>1, <1>5 DEF Complete
    <2>2. Cardinality(Complete(t)) = Cardinality(Complete(s)) + 1
      BY <1>2, <1>3, <2>1, FS_AddElement
    <2> QED
      BY <1>1, <1>5, <2>2
  <1> QED
    BY <1>4, <1>5

LEMMA CompleteTail ==
    ASSUME NEW s \in Seq(Parts), s # <<>>
    PROVE  /\ Tail(s) \in Seq(Parts)
           /\ Cardinality(Complete(Tail(s)))
                = Cardinality(Complete(s)) - (IF Head(s) = "head" THEN 0 ELSE 1)
  <1> DEFINE t == Tail(s)
             rest == Complete(s) \ {1}
             shift == [i \in Complete(t) |-> i + 1]
  <1>1. /\ t \in Seq(Parts) /\ Len(s) \in Nat \ {0} /\ Len(t) = Len(s) - 1
        /\ \A i \in 1..(Len(s) - 1) : t[i] = s[i + 1]
        /\ Head(s) = s[1]
    BY HeadTailProperties, LenProperties, EmptySeq
  <1>2. shift \in Bijection(Complete(t), rest)
    <2>1. shift \in [Complete(t) -> rest]
      BY <1>1 DEF Complete
    <2>2. \A a, b \in Complete(t) : shift[a] = shift[b] => a = b
      BY <1>1 DEF Complete
    <2>3. ASSUME NEW j \in rest
          PROVE  \E i \in Complete(t) : shift[i] = j
      <3>1. j - 1 \in Complete(t)
        BY <1>1 DEF Complete
      <3>2. shift[j - 1] = j
        BY <1>1, <3>1 DEF Complete
      <3> QED
        BY <3>1, <3>2
    <2> HIDE DEF shift
    <2> QED
      BY <2>1, <2>2, <2>3, Fun_IsBij
  <1>3. ExistsBijection(Complete(t), rest)
    BY <1>2, Fun_ExistsBij
  <1>4. IsFiniteSet(Complete(t))
    BY <1>1, CompleteFinite
  <1>5. Cardinality(Complete(t)) = Cardinality(rest)
    BY <1>3, <1>4, FS_Bijection
  <1>6. 1 \in Complete(s) <=> Head(s) # "head"
    BY <1>1 DEF Complete
  <1>7. IsFiniteSet(Complete(s)) /\ Cardinality(Complete(s)) \in Nat
    BY CompleteFinite
  <1>8. Cardinality(rest) = Cardinality(Complete(s))
                              - (IF Head(s) = "head" THEN 0 ELSE 1)
    <2>1. Cardinality(rest) = IF 1 \in Complete(s)
                                THEN Cardinality(Complete(s)) - 1
                                ELSE Cardinality(Complete(s))
      BY <1>7, FS_RemoveElement
    <2> QED
      BY <1>6, <1>7, <2>1
  <1> QED
    BY <1>1, <1>5, <1>8

-----------------------------------------------------------------------------
(* Types, and connections that are accepted once.                          *)

LEMMA InvInit == Init => Inv
  <1> SUFFICES ASSUME Init PROVE Inv
    OBVIOUS
  <1>1. <<>> \in Seq(Parts)
    BY EmptySeq
  <1>2. TypeOK
    BY <1>1 DEF Init, TypeOK
  <1>3. Accounted
    BY CompleteEmpty DEF Init, Accounted, Held
  <1> QED
    BY <1>2, <1>3 DEF Init, Inv, Connected, Joined, Killed

MainMoves == Start \/ StopFlag \/ MainStep
AcceptMoves == AcceptTop \/ AcceptPoll \/ AcceptError

LEMMA NextCases ==
    ASSUME Next
    PROVE  \/ MainMoves \/ AcceptMoves
           \/ \E c \in Conns : Accept(c) \/ HandlerStep(c) \/ ClientStep(c)
  BY DEF Next, MainMoves, AcceptMoves, AcceptStep

LEMMA MainType ==
    ASSUME Inv, MainMoves \/ AcceptMoves
    PROVE  TypeOK' /\ Connected'
  <1>1. CASE MainMoves
    BY <1>1 DEF Inv, TypeOK, Connected, MainMoves, Start, StopFlag, MainStep,
                StopClose, StopJoinAccept, StopJoinClients, conversation
  <1>2. CASE AcceptMoves
    BY <1>2 DEF Inv, TypeOK, Connected, AcceptMoves, AcceptTop, AcceptPoll,
                AcceptError, conversation
  <1> QED
    BY <1>1, <1>2

LEMMA AcceptType ==
    ASSUME Inv, NEW c \in Conns, Accept(c)
    PROVE  TypeOK' /\ Connected'
  BY DEF Inv, TypeOK, Connected, Accept, conversation

\* What a step of handleClient leaves alone, and the control points it has.
LEMMA HandlerMoves ==
    ASSUME Inv, NEW c \in Conns, HandlerStep(c)
    PROVE  /\ UNCHANGED <<running, sfd, apc, backlog, threads, client, asked>>
           /\ hpc[c] \notin {"none", "done"}
           /\ \/ UNCHANGED hpc
              \/ \E p \in {"top", "poll", "body", "handle", "send", "done"} :
                     hpc' = [hpc EXCEPT ![c] = p]
           /\ Alive /\ mpc' \in {mpc, "killed"}
           /\ wire' = wire \/ (wire[c] # <<>> /\ Consume(c))
           /\ \/ UNCHANGED <<served, reset>>
              \/ SendResponse(c)
  <1> USE DEF Inv, TypeOK, server, conversation, Goto
  <1>1. CASE HandleTop(c)
    BY <1>1 DEF HandleTop
  <1>2. CASE PollTimeout(c)
    BY <1>2 DEF PollTimeout
  <1>3. CASE ReadHeader(c)
    BY <1>3 DEF ReadHeader, Arrived
  <1>4. CASE ReadBody(c)
    BY <1>4 DEF ReadBody, Arrived
  <1>5. CASE ReadEnd(c)
    BY <1>5 DEF ReadEnd
  <1>6. CASE Handle(c)
    BY <1>6 DEF Handle
  <1>7. CASE SendResponse(c)
    BY <1>7 DEF SendResponse
  <1>8. CASE SendError(c)
    BY <1>8 DEF SendError
  <1>9. CASE SendSigpipe(c)
    BY <1>9 DEF SendSigpipe
  <1> QED
    BY <1>1, <1>2, <1>3, <1>4, <1>5, <1>6, <1>7, <1>8, <1>9 DEF HandlerStep

LEMMA HandlerType ==
    ASSUME Inv, NEW c \in Conns, HandlerStep(c)
    PROVE  TypeOK' /\ Connected'
  <1>1. wire' \in [Conns -> Seq(Parts)]
    <2>1. wire[c] # <<>> => Tail(wire[c]) \in Seq(Parts)
      BY CompleteTail DEF Inv, TypeOK
    <2> QED
      BY ZenonT(40), <2>1, HandlerMoves DEF Inv, TypeOK, Consume
  <1>2. served' \in [Conns -> Nat] /\ reset' \in [Conns -> BOOLEAN]
    <2>1. CASE UNCHANGED <<served, reset>>
      BY <2>1 DEF Inv, TypeOK
    <2>2. CASE SendResponse(c)
      BY <2>2 DEF Inv, TypeOK, SendResponse
    <2> QED
      BY <2>1, <2>2, HandlerMoves
  <1>3. TypeOK'
    BY <1>1, <1>2, HandlerMoves DEF Inv, TypeOK
  <1>4. Connected'
    BY HandlerMoves DEF Inv, TypeOK, Connected
  <1> QED
    BY <1>3, <1>4

LEMMA ClientType ==
    ASSUME Inv, NEW c \in Conns, ClientStep(c)
    PROVE  TypeOK' /\ Connected'
  <1> USE DEF Inv, TypeOK, Connected
  <1>1. CASE ClientConnect(c)
    BY <1>1 DEF ClientConnect
  <1>2. ASSUME NEW part \in {"head", "short"}, ClientAsk(c, part)
        PROVE  TypeOK' /\ Connected'
    <2>1. Append(wire[c], part) \in Seq(Parts)
      BY CompleteAppend DEF Parts
    <2> QED
      BY <1>2, <2>1 DEF ClientAsk, server
  <1>3. CASE ClientFinish(c)
    <2>1. Append(wire[c], "body") \in Seq(Parts)
      BY CompleteAppend DEF Parts
    <2> QED
      BY <1>3, <2>1 DEF ClientFinish, server
  <1>4. CASE ClientClose(c)
    BY <1>4 DEF ClientClose, server
  <1> QED
    BY <1>1, <1>2, <1>3, <1>4 DEF ClientStep

LEMMA TypeStep ==
    ASSUME Inv, [Next]_vars
    PROVE  TypeOK' /\ Connected'
  <1>1. CASE UNCHANGED vars
    BY <1>1 DEF vars, Inv, TypeOK, Connected
  <1>2. CASE Next
    BY <1>2, NextCases, MainType, AcceptType, HandlerType, ClientType
  <1> QED
    BY <1>1, <1>2

-----------------------------------------------------------------------------
(* stop() and the threads it joins.                                        *)

LEMMA JoinedStep ==
    ASSUME Inv, [Next]_vars
    PROVE  Joined'
  <1> USE DEF Inv, TypeOK, Joined
  <1>1. CASE UNCHANGED vars
    BY <1>1 DEF vars
  <1>2. CASE MainMoves
    BY <1>2 DEF MainMoves, Start, StopFlag, MainStep, StopClose,
                StopJoinAccept, StopJoinClients, conversation
  <1>3. CASE AcceptMoves
    BY <1>3 DEF AcceptMoves, AcceptTop, AcceptPoll, AcceptError, conversation
  \* acceptLoop runs, so stop() has not come to the clients' threads.
  <1>4. ASSUME NEW c \in Conns, Accept(c)
        PROVE  Joined'
    BY <1>4 DEF Accept, conversation
  <1>5. ASSUME NEW c \in Conns, HandlerStep(c)
        PROVE  Joined'
    BY <1>5, HandlerMoves
  <1>6. ASSUME NEW c \in Conns, ClientStep(c)
        PROVE  Joined'
    BY <1>6 DEF ClientStep, ClientConnect, ClientAsk, ClientFinish,
                ClientClose, server
  <1> QED
    BY <1>1, <1>2, <1>3, <1>4, <1>5, <1>6, NextCases

-----------------------------------------------------------------------------
(* Requests asked, held and answered.                                      *)

\* The account of one connection.
Even(c) == served[c] + Held(c) + Cardinality(Complete(wire[c])) <= asked[c]

LEMMA AccountTypes ==
    ASSUME Inv, NEW c \in Conns
    PROVE  /\ served[c] \in Nat /\ asked[c] \in Nat /\ Held(c) \in 0..1
           /\ Cardinality(Complete(wire[c])) \in Nat
           /\ wire[c] \in Seq(Parts) /\ Even(c)
  BY CompleteFinite DEF Inv, TypeOK, Held, Accounted, Even

LEMMA HandlerAccount ==
    ASSUME Inv, NEW c \in Conns, HandlerStep(c)
    PROVE  Accounted'
  <1> DEFINE n == Cardinality(Complete(wire[c]))
  <1>1. SUFFICES Even(c)'
    <2>1. ASSUME NEW d \in Conns, d # c
          PROVE  UNCHANGED <<served[d], hpc[d], wire[d], asked[d]>>
      <3>1. UNCHANGED <<hpc[d], asked[d]>>
        BY <2>1, HandlerMoves DEF Inv, TypeOK
      <3>2. UNCHANGED wire[d]
        BY <2>1, HandlerMoves DEF Inv, TypeOK, Consume
      <3>3. UNCHANGED served[d]
        <4>1. CASE SendResponse(c)
          BY <2>1, <4>1 DEF Inv, TypeOK, SendResponse
        <4> QED
          BY <4>1, HandlerMoves
      <3> QED
        BY <3>1, <3>2, <3>3
    <2>2. ASSUME NEW d \in Conns, d # c
          PROVE  Even(d)'
      BY <2>1, <2>2, AccountTypes DEF Even, Held
    <2> QED
      BY <2>2 DEF Accounted, Even
  <1>2. /\ served[c] \in Nat /\ asked[c] \in Nat /\ n \in Nat
        /\ wire[c] \in Seq(Parts) /\ asked' = asked
        /\ served[c] + Held(c) + n <= asked[c]
    BY AccountTypes, HandlerMoves DEF Even
  \* A step that reads nothing and answers nothing.
  <1>3. ASSUME UNCHANGED <<served, wire>>, Held(c)' <= Held(c), Held(c)' \in 0..1
        PROVE  Even(c)'
    BY <1>2, <1>3, AccountTypes DEF Even
  <1> USE DEF Inv, TypeOK, Goto, server, conversation
  <1>4. CASE HandleTop(c) \/ PollTimeout(c) \/ ReadEnd(c)
    BY <1>3, <1>4 DEF HandleTop, PollTimeout, ReadEnd, Held
  <1>5. CASE Handle(c) \/ SendError(c) \/ SendSigpipe(c)
    BY <1>3, <1>5 DEF Handle, SendError, SendSigpipe, Held
  <1>6. CASE ReadHeader(c) \/ ReadBody(c)
    <2>1. wire[c] # <<>> /\ wire'[c] = Tail(wire[c])
      BY <1>6 DEF ReadHeader, ReadBody, Arrived, Consume
    <2>2. Cardinality(Complete(wire[c]))'
              = n - (IF Head(wire[c]) = "head" THEN 0 ELSE 1)
      BY <1>2, <2>1, CompleteTail
    <2>3. Held(c) = 0 /\ served' = served
      BY <1>6 DEF ReadHeader, ReadBody, Held
    <2>4. Held(c)' \in 0..1 /\ (Head(wire[c]) = "head" => Held(c)' = 0)
      BY <1>6 DEF ReadHeader, ReadBody, Held, Arrived
    <2> HIDE DEF n, Held, Inv, TypeOK
    <2>5. CASE Head(wire[c]) = "head"
      BY <1>2, <2>2, <2>3, <2>4, <2>5 DEF Even
    <2>6. CASE Head(wire[c]) # "head"
      <3>1. Cardinality(Complete(wire[c]))' = n - 1
        BY <2>2, <2>6
      <3> QED
        BY <1>2, <2>3, <2>4, <3>1 DEF Even
    <2> QED
      BY <2>5, <2>6
  <1>7. CASE SendResponse(c)
    <2>1. Held(c) = 1 /\ Held(c)' = 0 /\ served'[c] = served[c] + 1
          /\ Cardinality(Complete(wire[c]))' = n
      BY <1>7 DEF SendResponse, Held
    <2> HIDE DEF n, Held
    <2> QED
      BY <1>2, <2>1 DEF Even
  <1> QED
    BY <1>4, <1>5, <1>6, <1>7 DEF HandlerStep

LEMMA ClientAccount ==
    ASSUME Inv, NEW c \in Conns, ClientStep(c)
    PROVE  Accounted'
  <1> USE DEF Inv, TypeOK, server
  <1>1. CASE ClientConnect(c) \/ ClientClose(c)
    BY <1>1 DEF ClientConnect, ClientClose, Accounted, Held
  \* A part is sent, and counted when it completes a request.
  <1>2. ASSUME NEW part \in Parts,
               wire' = [wire EXCEPT ![c] = Append(@, part)],
               asked' = [asked EXCEPT ![c] = IF part = "head" THEN @ ELSE @ + 1],
               UNCHANGED <<served, hpc>>
        PROVE  Accounted'
    <2>1. ASSUME NEW d \in Conns, d # c
          PROVE  Even(d)'
      BY <1>2, <2>1, AccountTypes DEF Even, Held
    <2>2. /\ Cardinality(Complete(wire[c]))'
               = Cardinality(Complete(wire[c])) + (IF part = "head" THEN 0 ELSE 1)
          /\ Held(c)' = Held(c)
      BY <1>2, CompleteAppend DEF Held
    <2>3. asked'[c] = asked[c] + (IF part = "head" THEN 0 ELSE 1)
          /\ served' = served
      BY <1>2
    <2>4. Even(c)'
      <3> HIDE DEF Inv, TypeOK
      <3>1. /\ served[c] \in Nat /\ asked[c] \in Nat /\ Held(c) \in 0..1
            /\ Cardinality(Complete(wire[c])) \in Nat /\ Even(c)
        BY AccountTypes
      <3>2. CASE part = "head"
        BY <2>2, <2>3, <3>1, <3>2 DEF Even
      <3>3. CASE part # "head"
        BY <2>2, <2>3, <3>1, <3>3 DEF Even
      <3> QED
        BY <3>2, <3>3
    <2> QED
      BY <2>1, <2>4 DEF Accounted, Even
  <1>3. ASSUME NEW part \in {"head", "short"}, ClientAsk(c, part)
        PROVE  Accounted'
    BY <1>2, <1>3 DEF ClientAsk, Parts
  <1>4. CASE ClientFinish(c)
    BY <1>2, <1>4 DEF ClientFinish, Parts
  <1> QED
    BY <1>1, <1>3, <1>4 DEF ClientStep

LEMMA AccountStep ==
    ASSUME Inv, [Next]_vars
    PROVE  Accounted'
  <1>1. CASE UNCHANGED vars
    BY <1>1 DEF vars, Inv, Accounted, Held
  <1>2. CASE MainMoves
    BY <1>2 DEF MainMoves, Start, StopFlag, MainStep, StopClose,
                StopJoinAccept, StopJoinClients, conversation,
                Inv, Accounted, Held
  <1>3. CASE AcceptMoves
    BY <1>3 DEF AcceptMoves, AcceptTop, AcceptPoll, AcceptError, conversation,
                Inv, Accounted, Held
  <1>4. ASSUME NEW c \in Conns, Accept(c)
        PROVE  Accounted'
    BY <1>4 DEF Accept, conversation, Inv, TypeOK, Connected, Accounted, Held
  <1> QED
    BY <1>1, <1>2, <1>3, <1>4, HandlerAccount, ClientAccount, NextCases

-----------------------------------------------------------------------------
(* Only SendSigpipe kills, and then nothing moves any more.                *)

LEMMA KilledStep ==
    ASSUME Inv, [Next]_vars
    PROVE  Killed'
  <1>1. CASE UNCHANGED vars
    BY <1>1 DEF vars, Inv, Killed
  <1>2. CASE MainMoves
    BY <1>2 DEF MainMoves, Start, StopFlag, MainStep, StopClose,
                StopJoinAccept, StopJoinClients, Killed
  <1>3. CASE AcceptMoves
    BY <1>3 DEF AcceptMoves, AcceptTop, AcceptPoll, AcceptError, Alive, Killed
  <1>4. ASSUME NEW c \in Conns, Accept(c)
        PROVE  Killed'
    BY <1>4 DEF Accept, Alive, Killed
  <1>5. ASSUME NEW c \in Conns, HandlerStep(c)
        PROVE  Killed'
    <2>1. Alive /\ mpc' \in {mpc, "killed"}
      BY <1>5, HandlerMoves
    \* The response that is being sent is owed.
    <2>2. CASE SendSigpipe(c)
      <3>1. Held(c) = 1
        BY <2>2 DEF SendSigpipe, Held
      <3>2. asked[c] > served[c]
        BY <3>1, AccountTypes DEF Even
      <3>3. reset'[c] /\ asked'[c] > served'[c]
        BY <2>2, <3>2 DEF SendSigpipe, conversation
      <3> QED
        BY <3>3 DEF Killed
    <2>3. CASE ~SendSigpipe(c)
      <3>1. mpc' = mpc
        BY <1>5, <2>3 DEF HandlerStep, HandleTop, PollTimeout, ReadHeader,
           ReadBody, ReadEnd, Handle, SendResponse, SendError, server
      <3> QED
        BY <2>1, <3>1 DEF Alive, Killed
    <2> QED
      BY <2>2, <2>3
  <1>6. ASSUME NEW c \in Conns, ClientStep(c)
        PROVE  Killed'
    BY <1>6 DEF ClientStep, ClientConnect, ClientAsk, ClientFinish,
                ClientClose, server, Alive, Killed
  <1> QED
    BY <1>1, <1>2, <1>3, <1>4, <1>5, <1>6, NextCases

-----------------------------------------------------------------------------
(* The invariant and what it means.                                        *)

\* Inv holds in every state of the server.
THEOREM Invariance == Spec => []Inv
  <1>1. Init => Inv
    BY InvInit
  <1>2. Inv /\ [Next]_vars => Inv'
    BY TypeStep, JoinedStep, AccountStep, KilledStep DEF Inv
  <1> QED
    BY <1>1, <1>2, PTL DEF Spec

\* Every variable keeps its type, and no connection that was accepted is in
\* the listening socket's queue again.
THEOREM TypeCorrect == Spec => []TypeOK
  <1>1. Inv => TypeOK
    BY DEF Inv
  <1> QED
    BY <1>1, Invariance, PTL

\* When stop() is back no thread of the server runs any more, whatever was
\* accepted while it was under way.
THEOREM StopJoined == Spec => []StopJoinsAll
  <1>1. Inv => StopJoinsAll
    BY DEF Inv, Joined, StopJoinsAll
  <1> QED
    BY <1>1, Invariance, PTL

\* The process is killed only by the answer to a request of a client that had
\* closed and whose reset was already met.
THEOREM OnlyImpatienceKills == Spec => []KilledByImpatience
  <1>1. Inv => KilledByImpatience
    BY DEF Inv, Killed, KilledByImpatience
  <1> QED
    BY <1>1, Invariance, PTL

-----------------------------------------------------------------------------
(* Each connection implements ConnectionService.                           *)

\* A step that ends no connection and sends no response.
LEMMA Stutter ==
    ASSUME UNCHANGED <<asked, served>>, (mpc' = "killed") <=> (mpc = "killed"),
           \A c \in Conns : (hpc'[c] = "done") <=> (hpc[c] = "done")
    PROVE  UNCHANGED Service!vars
  BY DEF Service!vars, Up, Alive

LEMMA ServiceInit == Init => Service!Init
  BY DEF Init, Service!Init, Up, Alive

LEMMA HandlerService ==
    ASSUME Inv, NEW c \in Conns, HandlerStep(c)
    PROVE  [Service!Next]_Service!vars
  <1> USE DEF Inv, TypeOK
  <1>1. Alive /\ hpc[c] \notin {"none", "done"} /\ asked' = asked
    BY HandlerMoves
  <1>2. CASE SendResponse(c)
    <2>1. Held(c) = 1
      BY <1>2 DEF SendResponse, Held
    <2>2. served[c] < asked[c]
      BY <2>1, AccountTypes DEF Even
    <2>3. UNCHANGED Up
      BY <1>1, <1>2 DEF SendResponse, Goto, server, Up, Alive
    <2>4. Service!Serve(c)
      BY <1>1, <1>2, <2>2, <2>3 DEF SendResponse, Service!Serve, Up
    <2> QED
      BY <2>4 DEF Service!Next
  <1>3. CASE SendSigpipe(c)
    <2>1. Up' = [d \in Conns |-> Up[d] /\ d \notin Conns]
      BY <1>3 DEF SendSigpipe, Up, Alive
    <2>2. Service!Drop(Conns)
      BY <1>3, <2>1 DEF SendSigpipe, conversation, Service!Drop
    <2> QED
      BY <2>2 DEF Service!Next
  <1>4. CASE ~SendResponse(c) /\ ~SendSigpipe(c)
    <2>1. UNCHANGED <<asked, served, mpc>>
      BY <1>4 DEF HandlerStep, HandleTop, PollTimeout, ReadHeader, ReadBody,
                  ReadEnd, Handle, SendError, server, conversation
    <2>2. UNCHANGED hpc \/ \E p \in {"top", "poll", "body", "handle", "send",
                                     "done"} : hpc' = [hpc EXCEPT ![c] = p]
      BY HandlerMoves
    <2>3. CASE hpc'[c] = "done"
      <3>1. Up' = [d \in Conns |-> Up[d] /\ d \notin {c}]
        BY <1>1, <2>1, <2>2, <2>3 DEF Up, Alive
      <3>2. Service!Drop({c})
        BY <2>1, <3>1 DEF Service!Drop
      <3> QED
        BY <3>2 DEF Service!Next
    <2>4. CASE hpc'[c] # "done"
      BY <1>1, <2>1, <2>2, <2>4, Stutter
    <2> QED
      BY <2>3, <2>4
  <1> QED
    BY <1>2, <1>3, <1>4

LEMMA ClientService ==
    ASSUME Inv, NEW c \in Conns, ClientStep(c)
    PROVE  [Service!Next]_Service!vars
  <1>1. UNCHANGED <<mpc, hpc, served>>
    BY DEF ClientStep, ClientConnect, ClientAsk, ClientFinish, ClientClose,
           server
  <1>2. UNCHANGED asked \/ asked' = [asked EXCEPT ![c] = @ + 1]
    BY DEF Inv, TypeOK, ClientStep, ClientConnect, ClientAsk, ClientFinish,
           ClientClose
  <1>3. CASE UNCHANGED asked
    BY <1>1, <1>3, Stutter
  <1>4. CASE asked' = [asked EXCEPT ![c] = @ + 1]
    <2>1. UNCHANGED Up
      BY <1>1 DEF Up, Alive
    <2>2. Service!Ask(c)
      BY <1>1, <1>4, <2>1 DEF Service!Ask
    <2> QED
      BY <2>2 DEF Service!Next
  <1> QED
    BY <1>2, <1>3, <1>4

\* Requests of a connection are answered one by one, in order, none before it
\* was asked and none after the server's end has closed.
THEOREM ServesConnections == Spec => ServiceSpec
  <1>1. Init => Service!Init
    BY ServiceInit
  <1>2. Inv /\ [Next]_vars => [Service!Next]_Service!vars
    <2> SUFFICES ASSUME Inv, [Next]_vars
                 PROVE  [Service!Next]_Service!vars
      OBVIOUS
    <2>1. CASE UNCHANGED vars
      BY <2>1, Stutter DEF vars
    <2>2. CASE MainMoves
      BY <2>2, Stutter DEF MainMoves, Start, StopFlag, MainStep, StopClose,
                           StopJoinAccept, StopJoinClients, conversation
    <2>3. CASE AcceptMoves
      BY <2>3, Stutter DEF AcceptMoves, AcceptTop, AcceptPoll, AcceptError,
                           conversation
    <2>4. ASSUME NEW c \in Conns, Accept(c)
          PROVE  [Service!Next]_Service!vars
      <3>1. hpc[c] = "none"
        BY <2>4 DEF Inv, Connected, Accept
      <3> QED
        BY <2>4, <3>1, Stutter DEF Accept, conversation, Inv, TypeOK
    <2> QED
      BY <2>1, <2>2, <2>3, <2>4, HandlerService, ClientService, NextCases
  <1> QED
    BY <1>1, <1>2, Invariance, PTL DEF Spec, ServiceSpec, Service!Spec
=============================================================================
