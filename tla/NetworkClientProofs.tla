------------------------ MODULE NetworkClientProofs ------------------------
(***************************************************************************)
(* Proofs about NetworkClient, for any set of threads, any request types,  *)
(* shared or not, and any bounds.                                          *)
(***************************************************************************)
EXTENDS NetworkClient, SequenceTheorems, FiniteSetTheorems,
        WellFoundedInduction, TLAPS

-----------------------------------------------------------------------------
(* How sendRequest changes the history of requests.                        *)

\* A call that returns changes its own entry only.
LEMMA UpdateSeq ==
    ASSUME NEW s \in Seq(Outcome), NEW k \in 1..Len(s), NEW e \in Outcome,
           NEW r, r = [s EXCEPT ![k] = e]
    PROVE  /\ r \in Seq(Outcome) /\ Len(r) = Len(s)
           /\ r[k] = e
           /\ \A i \in 1..Len(s) : i # k => r[i] = s[i]
  OBVIOUS

\* A request sent is the last one, unanswered; the others stay.
LEMMA SendSeq ==
    ASSUME NEW s \in Seq(Outcome), NEW e \in Outcome, NEW r, r = Append(s, e)
    PROVE  /\ r \in Seq(Outcome) /\ Len(r) = Len(s) + 1
           /\ r[Len(s) + 1] = e
           /\ \A i \in 1..Len(s) : r[i] = s[i]
  OBVIOUS

-----------------------------------------------------------------------------
(* Type correctness.                                                       *)

\* What the control points say about the counters: a thread that waits has
\* sent a request, a response being read has been sent by the server.
Links ==
    /\ \A c \in Callers : pc[c] \in {"sent", "wait", "check"} => curr[c] # 0
    /\ rpc = "body" => taken < served
    /\ rpc = "store" => taken # 0

TypeInv == TypeOK /\ Links

\* A call that returns changes the outcome of its own request only, and
\* keeps the history well formed.
LEMMA ReturnKeeps ==
    ASSUME TypeInv, NEW c \in Callers, NEW a \in Nat,
           pc[c] \in {"sent", "wait", "check"}, Return(c, a)
    PROVE  /\ reqs' \in Seq(Outcome) /\ Len(reqs') = Len(reqs)
           /\ curr[c] \in 1..Len(reqs)
           /\ reqs'[curr[c]].answer = a
           /\ \A i \in 1..Len(reqs) : i # curr[c] => reqs'[i] = reqs[i]
           /\ \A i \in 1..Len(reqs) : reqs'[i].type = reqs[i].type
           /\ pc' = [pc EXCEPT ![c] = "idle"]
  <1> DEFINE k == curr[c]
             e == [reqs[k] EXCEPT !.returned = TRUE, !.answer = a]
  <1>1. k \in 1..Len(reqs) /\ reqs \in Seq(Outcome)
    BY DEF TypeInv, TypeOK, Links
  <1>2. reqs[k] \in Outcome
    BY <1>1
  <1>3. e \in Outcome /\ e.type = reqs[k].type /\ e.answer = a
    BY <1>2 DEF Outcome
  <1>4. reqs' = [reqs EXCEPT ![k] = e] /\ pc' = [pc EXCEPT ![c] = "idle"]
    BY DEF Return
  <1> HIDE DEF k, e
  <1>5. /\ reqs' \in Seq(Outcome) /\ Len(reqs') = Len(reqs)
        /\ reqs'[k] = e
        /\ \A i \in 1..Len(reqs) : i # k => reqs'[i] = reqs[i]
    BY <1>1, <1>3, <1>4, UpdateSeq
  <1> QED
    BY <1>1, <1>3, <1>4, <1>5 DEF k

LEMMA TypeInit == Init => TypeInv
  <1> SUFFICES ASSUME Init PROVE TypeInv
    OBVIOUS
  <1>1. reqs \in Seq(Outcome) /\ Len(reqs) = 0
    BY DEF Init
  <1>2. pending \in [Types -> [received : BOOLEAN, data : Nat]]
    BY DEF Init
  <1>3. curr \in [Callers -> 0..Len(reqs)]
    BY <1>1 DEF Init
  <1>4. pc \in [Callers -> {"idle", "send", "sent", "wait", "check"}]
        /\ \A c \in Callers : pc[c] = "idle"
    BY DEF Init
  <1>5. /\ ctl = "idle" /\ rpc = "none" /\ dtor = FALSE
        /\ connected = FALSE /\ running = FALSE /\ fd = FALSE
        /\ conns = 0 /\ peerUp = FALSE /\ served = 0 /\ taken = 0
    BY DEF Init
  <1>6. 0 \in Nat /\ 0 <= Len(reqs)
    BY <1>1
  <1>7. TypeOK
    BY <1>1, <1>2, <1>3, <1>4, <1>5, <1>6 DEF TypeOK
  <1>8. Links
    BY <1>4, <1>5 DEF Links
  <1> QED
    BY <1>7, <1>8 DEF TypeInv

LEMMA TypeStep == TypeInv /\ [Next]_vars => TypeInv'
  <1> SUFFICES ASSUME TypeInv, [Next]_vars PROVE TypeInv'
    OBVIOUS
  <1> USE DEF TypeInv, TypeOK, Links, Alive, owner, flags, clients, net,
              receiver
  <1>1. CASE ConnectOk
    <2>1. CASE rpc # "none"
      BY <1>1, <2>1 DEF ConnectOk, Abort
    <2>2. CASE rpc = "none"
      BY <1>1, <2>2 DEF ConnectOk
    <2> QED
      BY <2>1, <2>2
  <1>2. CASE ConnectFail
    BY <1>2 DEF ConnectFail
  <1>3. CASE Disconnect
    BY <1>3 DEF Disconnect, DisconnectFlags
  <1>4. CASE Destroy
    BY <1>4 DEF Destroy, DisconnectFlags
  <1>5. CASE DisconnectNotify
    BY <1>5 DEF DisconnectNotify, NotifyAll
  <1>6. CASE DisconnectClose
    BY <1>6 DEF DisconnectClose
  <1>7. CASE DisconnectJoin
    BY <1>7 DEF DisconnectJoin
  <1>8. CASE Destruct
    BY <1>8 DEF Destruct, Abort
  <1>9. ASSUME NEW c \in Callers, StartRequest(c) PROVE TypeInv'
    BY <1>9 DEF StartRequest
  <1>10. ASSUME NEW c \in Callers, NEW t \in TypesOf[c], SendMessage(c, t)
         PROVE  TypeInv'
    <2>1. t \in Types
      BY TypesOfAssumption
    <2>2. [caller |-> c, type |-> t, conn |-> conns, answer |-> 0,
           returned |-> FALSE] \in Outcome
      BY <2>1 DEF Outcome
    <2>3. reqs' \in Seq(Outcome) /\ Len(reqs') = Len(reqs) + 1
      BY <1>10, <2>2, SendSeq DEF SendMessage
    <2>4. UNCHANGED <<owner, flags, receiver, pending, net>>
      BY <1>10 DEF SendMessage
    <2>5. curr' = [curr EXCEPT ![c] = Len(reqs) + 1]
          /\ pc' = [pc EXCEPT ![c] = "sent"]
      BY <1>10 DEF SendMessage
    <2> QED
      BY <2>3, <2>4, <2>5
  <1>11. ASSUME NEW c \in Callers, SendFail(c) PROVE TypeInv'
    BY <1>11 DEF SendFail
  <1>12. ASSUME NEW c \in Callers, SendSigpipe(c) PROVE TypeInv'
    BY <1>12 DEF SendSigpipe
  <1>13. ASSUME NEW c \in Callers, BeginWait(c) PROVE TypeInv'
    <2>0. pending' \in [Types -> [received : BOOLEAN, data : Nat]]
      BY <1>13 DEF BeginWait
    <2>1. CASE running /\ connected
      BY <1>13, <2>0, <2>1 DEF BeginWait
    <2>2. CASE ~(running /\ connected)
      <3>1. Return(c, 0) /\ pc[c] = "sent"
        BY <1>13, <2>2 DEF BeginWait
      <3>2. reqs' \in Seq(Outcome) /\ Len(reqs') = Len(reqs)
            /\ pc' = [pc EXCEPT ![c] = "idle"]
        BY <3>1, ReturnKeeps
      <3> QED
        BY <1>13, <2>0, <3>2 DEF BeginWait
    <2> QED
      BY <2>1, <2>2
  <1>14. ASSUME NEW c \in Callers, Recheck(c) PROVE TypeInv'
    <2>1. /\ pc[c] = "check"
          /\ UNCHANGED <<owner, flags, receiver, curr, net>>
          /\ \/ Return(c, 0) /\ UNCHANGED pending
             \/ /\ Return(c, pending[CType(c)].data)
                /\ pending' = [pending EXCEPT ![CType(c)].received = FALSE]
             \/ /\ pc' = [pc EXCEPT ![c] = "wait"]
                /\ UNCHANGED <<pending, reqs>>
      BY <1>14 DEF Recheck
    <2>2. CType(c) \in Types
      <3>1. reqs[curr[c]] \in Outcome
        BY <2>1
      <3> QED
        BY <3>1 DEF CType, Outcome
    <2>3. pending' \in [Types -> [received : BOOLEAN, data : Nat]]
      BY <2>1, <2>2
    <2>4. CASE UNCHANGED reqs /\ pc' = [pc EXCEPT ![c] = "wait"]
      BY <2>1, <2>3, <2>4
    <2>5. ASSUME NEW a \in Nat, Return(c, a) PROVE TypeInv'
      <3>1. reqs' \in Seq(Outcome) /\ Len(reqs') = Len(reqs)
            /\ pc' = [pc EXCEPT ![c] = "idle"]
        BY <2>1, <2>5, ReturnKeeps
      <3> QED
        BY <2>1, <2>3, <3>1
    <2>6. pending[CType(c)].data \in Nat
      BY <2>2
    <2> QED
      BY <2>1, <2>4, <2>5, <2>6
  <1>15. ASSUME NEW c \in Callers, Timeout(c) PROVE TypeInv'
    <2>1. Return(c, 0) /\ pc[c] \in {"sent", "wait", "check"}
      BY <1>15 DEF Timeout
    <2>2. reqs' \in Seq(Outcome) /\ Len(reqs') = Len(reqs)
          /\ pc' = [pc EXCEPT ![c] = "idle"]
      BY <2>1, ReturnKeeps
    <2> QED
      BY <1>15, <2>2 DEF Timeout
  <1>16. ASSUME NEW c \in Callers, SpuriousWakeup(c) PROVE TypeInv'
    BY <1>16 DEF SpuriousWakeup
  <1>17. CASE RecvTop
    BY <1>17 DEF RecvTop
  <1>18. CASE RecvPollTimeout
    BY <1>18 DEF RecvPollTimeout
  <1>19. CASE RecvHeader
    BY <1>19 DEF RecvHeader, DataReady
  <1>20. CASE RecvBody
    BY <1>20 DEF RecvBody
  <1>21. CASE RecvLost
    BY <1>21 DEF RecvLost
  <1>22. CASE RecvStore
    BY <1>22 DEF RecvStore, NotifyAll
  <1>23. CASE Serve
    BY <1>23 DEF Serve
  <1>24. CASE PeerClose
    BY ZenonT(40), <1>24 DEF PeerClose
  <1>25. CASE UNCHANGED vars
    BY <1>25 DEF vars
  <1> QED
    BY <1>1, <1>2, <1>3, <1>4, <1>5, <1>6, <1>7, <1>8, <1>9, <1>10, <1>11,
       <1>12, <1>13, <1>14, <1>15, <1>16, <1>17, <1>18, <1>19, <1>20, <1>21,
       <1>22, <1>23, <1>24, <1>25
    DEF Next, OwnerStep, RecvStep, CallStep

\* Every variable keeps its type, and the three counters their order: the
\* client never reads a response the server has not sent, the server never
\* answers a request that was not sent.
THEOREM TypeCorrect == Spec => []TypeOK
  <1>1. Spec => []TypeInv
    BY TypeInit, TypeStep, PTL DEF Spec
  <1> QED
    BY <1>1, PTL DEF TypeInv

-----------------------------------------------------------------------------
(* What a call may return.  The invariant follows a response from the      *)
(* socket (taken) through pending_responses_ to the call that takes it: at *)
(* each place it is newer than everything handed over before.              *)

\* Nothing is handed over before it was read, nor to a call of another type.
AnswersRead ==
    \A i \in 1..Len(reqs) :
        /\ reqs[i].answer <= taken
        /\ reqs[i].answer # 0 => reqs[reqs[i].answer].type = reqs[i].type

\* The response the receive thread is about to store is newer than all
\* responses stored or handed over.
StoreFresh ==
    rpc = "store" =>
        /\ \A i \in 1..Len(reqs) : reqs[i].answer < taken
        /\ \A t \in Types : pending[t].received => pending[t].data < taken

\* A stored response has the type of its slot and is newer than all that
\* calls of this type were given.
SlotFresh ==
    \A t \in Types : pending[t].received =>
        /\ pending[t].data \in 1..taken
        /\ reqs[pending[t].data].type = t
        /\ \A j \in 1..Len(reqs) :
              reqs[j].type = t => reqs[j].answer < pending[t].data

DeliveryInv == AnswersRead /\ StoreFresh /\ SlotFresh /\ AtMostOnce

LEMMA DeliveryInit == Init => DeliveryInv
  <1> SUFFICES ASSUME Init PROVE DeliveryInv
    OBVIOUS
  <1>1. Len(reqs) = 0 /\ rpc = "none"
        /\ \A t \in Types : pending[t].received = FALSE
    BY DEF Init
  <1> QED
    BY <1>1 DEF DeliveryInv, AnswersRead, StoreFresh, SlotFresh, AtMostOnce

LEMMA EntryTypes ==
    ASSUME NEW s \in Seq(Outcome), NEW i \in 1..Len(s)
    PROVE  s[i].answer \in Nat /\ s[i].type \in Types
  <1>1. s[i] \in Outcome
    OBVIOUS
  <1> QED
    BY <1>1 DEF Outcome

\* The steps that return no call and store nothing: slots may be emptied,
\* responses skipped (a new connection) or read.
LEMMA DeliveryFrame ==
    ASSUME TypeInv, DeliveryInv, UNCHANGED reqs,
           \A t \in Types : pending'[t].received =>
               pending[t].received /\ pending'[t].data = pending[t].data,
           taken' \in Nat, taken <= taken',
           rpc' = "store" => \/ rpc = "store" /\ taken' = taken
                             \/ taken < taken'
    PROVE  DeliveryInv'
  <1> USE DEF TypeInv, TypeOK
  <1>0. \A i \in 1..Len(reqs) : reqs[i].answer \in Nat
    BY EntryTypes
  <1>1. AnswersRead'
    BY <1>0 DEF DeliveryInv, AnswersRead
  <1>2. StoreFresh'
    <2>1. \A i \in 1..Len(reqs) : reqs[i].answer \in Nat
      BY <1>0
    <2>2. \A t \in Types : pending[t].data \in Nat
      OBVIOUS
    <2> QED
      BY <2>1, <2>2 DEF DeliveryInv, AnswersRead, StoreFresh, SlotFresh
  <1>3. SlotFresh'
    BY DEF DeliveryInv, SlotFresh
  <1>4. AtMostOnce'
    BY DEF DeliveryInv, AtMostOnce
  <1> QED
    BY <1>1, <1>2, <1>3, <1>4 DEF DeliveryInv

\* A call returns: with no response, or with the one stored for its type,
\* which it consumes.
LEMMA DeliveryReturn ==
    ASSUME TypeInv, DeliveryInv, UNCHANGED <<taken, rpc>>,
           NEW c \in Callers, pc[c] \in {"sent", "wait", "check"},
           NEW a \in Nat, Return(c, a),
           pending' \in [Types -> [received : BOOLEAN, data : Nat]],
           \A t \in Types : pending'[t].received =>
               pending[t].received /\ pending'[t].data = pending[t].data,
           a # 0 => /\ pending[CType(c)].received
                    /\ a = pending[CType(c)].data
                    /\ ~pending'[CType(c)].received
    PROVE  DeliveryInv'
  <1> DEFINE k == curr[c]
  <1>1. /\ reqs' \in Seq(Outcome) /\ Len(reqs') = Len(reqs)
        /\ k \in 1..Len(reqs)
        /\ reqs'[k].answer = a
        /\ \A i \in 1..Len(reqs) : i # k => reqs'[i] = reqs[i]
        /\ \A i \in 1..Len(reqs) : reqs'[i].type = reqs[i].type
    BY ReturnKeeps
  <1>2. \A i \in 1..Len(reqs) : reqs[i].answer \in Nat /\ reqs[i].type \in Types
    BY EntryTypes DEF TypeInv, TypeOK
  <1>3. CType(c) = reqs[k].type /\ CType(c) \in Types
    BY <1>1, <1>2 DEF CType
  <1>4. taken \in Nat /\ taken <= Len(reqs)
    BY DEF TypeInv, TypeOK
  <1>5. a # 0 => /\ a \in 1..taken
                 /\ reqs[a].type = CType(c)
                 /\ \A j \in 1..Len(reqs) :
                       reqs[j].type = CType(c) => reqs[j].answer < a
                 /\ rpc = "store" => a < taken
    BY <1>3 DEF DeliveryInv, SlotFresh, StoreFresh
  <1> HIDE DEF k
  <1>6. AnswersRead'
    <2>1. ASSUME NEW i \in 1..Len(reqs)
          PROVE  /\ reqs'[i].answer <= taken
                 /\ reqs'[i].answer # 0 =>
                       reqs'[reqs'[i].answer].type = reqs'[i].type
      <3>1. CASE i = k
        BY <1>1, <1>3, <1>4, <1>5, <3>1
      <3>2. CASE i # k
        <4>1. reqs'[i] = reqs[i] /\ reqs'[i].type = reqs[i].type
          BY <1>1, <3>2
        <4>2. reqs[i].answer <= taken
              /\ (reqs[i].answer # 0 =>
                     reqs[reqs[i].answer].type = reqs[i].type)
          BY DEF DeliveryInv, AnswersRead
        <4>3. reqs[i].answer # 0 => reqs[i].answer \in 1..Len(reqs)
          BY <1>2, <1>4, <4>2
        <4> QED
          BY <1>1, <4>1, <4>2, <4>3
      <3> QED
        BY <3>1, <3>2
    <2> QED
      BY <1>1, <2>1 DEF AnswersRead
  <1>7. StoreFresh'
    <2>1. ASSUME rpc = "store", NEW i \in 1..Len(reqs)
          PROVE  reqs'[i].answer < taken
      <3>1. 0 < taken
        BY <2>1, <1>4 DEF TypeInv, Links
      <3>2. CASE i = k
        BY <1>1, <1>5, <2>1, <3>1, <3>2
      <3>3. CASE i # k
        BY <1>1, <2>1, <3>3 DEF DeliveryInv, StoreFresh
      <3> QED
        BY <3>2, <3>3
    <2> QED
      BY <1>1, <2>1 DEF DeliveryInv, StoreFresh
  <1>8. SlotFresh'
    <2>1. ASSUME NEW t \in Types, pending'[t].received
          PROVE  /\ pending'[t].data \in 1..taken
                 /\ reqs'[pending'[t].data].type = t
                 /\ \A j \in 1..Len(reqs) : reqs'[j].type = t =>
                       reqs'[j].answer < pending'[t].data
      <3>1. /\ pending[t].received /\ pending'[t].data = pending[t].data
            /\ pending[t].data \in 1..taken
            /\ reqs[pending[t].data].type = t
            /\ \A j \in 1..Len(reqs) :
                  reqs[j].type = t => reqs[j].answer < pending[t].data
        BY <2>1 DEF DeliveryInv, SlotFresh
      <3>2. reqs'[pending[t].data].type = t
        BY <1>1, <1>4, <3>1
      <3>3. ASSUME NEW j \in 1..Len(reqs), reqs'[j].type = t
            PROVE  reqs'[j].answer < pending[t].data
        <4>1. CASE j # k
          BY <1>1, <3>1, <3>3, <4>1
        <4>2. CASE j = k
          <5>1. CType(c) = t
            BY <1>1, <1>3, <3>3, <4>2
          <5>2. a = 0
            BY <5>1, <2>1
          <5> QED
            BY <1>1, <3>1, <4>2, <5>2
        <4> QED
          BY <4>1, <4>2
      <3> QED
        BY <3>1, <3>2, <3>3
    <2> QED
      BY <1>1, <2>1 DEF SlotFresh
  <1>9. AtMostOnce'
    <2>1. ASSUME NEW i \in 1..Len(reqs), NEW j \in 1..Len(reqs),
                 reqs'[i].answer = reqs'[j].answer, reqs'[i].answer # 0
          PROVE  i = j
      <3>1. ASSUME NEW m \in 1..Len(reqs), m # k, a # 0
            PROVE  reqs[m].answer # a
        <4>1. CASE reqs[m].type = CType(c)
          BY <1>2, <1>5, <3>1, <4>1
        <4>2. CASE reqs[m].type # CType(c)
          BY <1>5, <3>1, <4>2 DEF DeliveryInv, AnswersRead
        <4> QED
          BY <4>1, <4>2
      <3>2. CASE i # k /\ j # k
        BY <1>1, <2>1, <3>2 DEF DeliveryInv, AtMostOnce
      <3>3. CASE i = k /\ j # k
        BY <1>1, <2>1, <3>1, <3>3
      <3>4. CASE i # k /\ j = k
        BY <1>1, <2>1, <3>1, <3>4
      <3> QED
        BY <3>2, <3>3, <3>4
    <2> QED
      BY <1>1, <2>1 DEF AtMostOnce
  <1> QED
    BY <1>6, <1>7, <1>8, <1>9 DEF DeliveryInv

\* A request sent is new: no response answers it yet.
LEMMA DeliverySend ==
    ASSUME TypeInv, DeliveryInv, UNCHANGED <<taken, rpc, pending>>,
           NEW e \in Outcome, e.answer = 0, reqs' = Append(reqs, e)
    PROVE  DeliveryInv'
  <1>1. /\ reqs \in Seq(Outcome) /\ taken \in Nat /\ taken <= Len(reqs)
        /\ rpc = "store" => taken # 0
        /\ pending \in [Types -> [received : BOOLEAN, data : Nat]]
    BY DEF TypeInv, TypeOK, Links
  <1>2. /\ Len(reqs') = Len(reqs) + 1 /\ reqs'[Len(reqs) + 1] = e
        /\ \A i \in 1..Len(reqs) : reqs'[i] = reqs[i]
    BY <1>1, SendSeq
  <1>3. \A i \in 1..Len(reqs) : reqs[i].answer \in Nat
    BY <1>1, EntryTypes
  <1>4. ASSUME NEW i \in 1..Len(reqs')
        PROVE  i \in 1..Len(reqs) \/ (i = Len(reqs) + 1 /\ reqs'[i].answer = 0)
    BY <1>1, <1>2, <1>4
  <1>5. AnswersRead'
    <2>1. ASSUME NEW i \in 1..Len(reqs)
          PROVE  /\ reqs'[i].answer <= taken
                 /\ reqs'[i].answer # 0 =>
                       reqs'[reqs'[i].answer].type = reqs'[i].type
      <3>1. /\ reqs[i].answer <= taken
            /\ reqs[i].answer # 0 => reqs[reqs[i].answer].type = reqs[i].type
        BY DEF DeliveryInv, AnswersRead
      <3>2. reqs[i].answer # 0 => reqs[i].answer \in 1..Len(reqs)
        BY <1>1, <1>3, <3>1
      <3> QED
        BY <1>2, <3>1, <3>2
    <2>2. ASSUME NEW i \in 1..Len(reqs')
          PROVE  /\ reqs'[i].answer <= taken
                 /\ reqs'[i].answer # 0 =>
                       reqs'[reqs'[i].answer].type = reqs'[i].type
      <3>1. CASE i \in 1..Len(reqs)
        BY <2>1, <3>1
      <3>2. CASE reqs'[i].answer = 0
        BY <1>1, <3>2
      <3> QED
        BY <1>4, <3>1, <3>2
    <2> QED
      BY <2>2 DEF AnswersRead
  <1>6. StoreFresh'
    BY <1>1, <1>2, <1>4 DEF DeliveryInv, StoreFresh
  <1>7. SlotFresh'
    <2>1. ASSUME NEW t \in Types, pending[t].received
          PROVE  /\ pending[t].data \in 1..taken
                 /\ reqs'[pending[t].data].type = t
                 /\ \A j \in 1..Len(reqs') : reqs'[j].type = t =>
                       reqs'[j].answer < pending[t].data
      <3>1. /\ pending[t].data \in 1..taken
            /\ reqs[pending[t].data].type = t
            /\ \A j \in 1..Len(reqs) :
                  reqs[j].type = t => reqs[j].answer < pending[t].data
        BY <2>1 DEF DeliveryInv, SlotFresh
      <3>2. reqs'[pending[t].data].type = t
        BY <1>1, <1>2, <3>1
      <3> QED
        BY <1>1, <1>2, <1>4, <3>1, <3>2
    <2> QED
      BY <2>1 DEF SlotFresh
  <1>8. AtMostOnce'
    BY <1>2, <1>4 DEF DeliveryInv, AtMostOnce
  <1> QED
    BY <1>5, <1>6, <1>7, <1>8 DEF DeliveryInv

\* The receive thread stores the response it has read under its type.
LEMMA DeliveryStore ==
    ASSUME TypeInv, DeliveryInv, RecvStore
    PROVE  DeliveryInv'
  <1>1. /\ reqs \in Seq(Outcome) /\ taken \in Nat /\ taken <= Len(reqs)
        /\ taken # 0 /\ taken \in 1..Len(reqs)
        /\ pending \in [Types -> [received : BOOLEAN, data : Nat]]
    BY DEF TypeInv, TypeOK, Links, RecvStore
  <1>2. rpc = "store" /\ rpc' = "top" /\ reqs' = reqs /\ taken' = taken
    BY DEF RecvStore
  <1>3. reqs[taken].type \in Types
    BY <1>1, EntryTypes
  <1>4. \A t \in Types : pending'[t] = IF t = reqs[taken].type
                                      THEN [received |-> TRUE, data |-> taken]
                                      ELSE pending[t]
    BY <1>1, <1>3 DEF RecvStore
  <1>5. AnswersRead' /\ AtMostOnce'
    BY <1>2 DEF DeliveryInv, AnswersRead, AtMostOnce
  <1>6. StoreFresh'
    BY <1>2 DEF StoreFresh
  <1>7. SlotFresh'
    <2>1. ASSUME NEW t \in Types, pending'[t].received
          PROVE  /\ pending'[t].data \in 1..taken
                 /\ reqs[pending'[t].data].type = t
                 /\ \A j \in 1..Len(reqs) : reqs[j].type = t =>
                       reqs[j].answer < pending'[t].data
      <3>1. CASE t = reqs[taken].type
        BY <1>1, <1>2, <1>4, <3>1 DEF DeliveryInv, StoreFresh
      <3>2. CASE t # reqs[taken].type
        BY <1>4, <2>1, <3>2 DEF DeliveryInv, SlotFresh
      <3> QED
        BY <3>1, <3>2
    <2> QED
      BY <1>2, <2>1 DEF SlotFresh
  <1> QED
    BY <1>5, <1>6, <1>7 DEF DeliveryInv

LEMMA DeliveryStep == TypeInv /\ DeliveryInv /\ [Next]_vars => DeliveryInv'
  <1> SUFFICES ASSUME TypeInv, DeliveryInv, [Next]_vars PROVE DeliveryInv'
    OBVIOUS
  <1> USE DEF TypeInv, TypeOK, owner, flags, clients, net, receiver
  <1>1. CASE /\ UNCHANGED <<reqs, pending, taken>>
             /\ rpc' = "store" => rpc = "store"
    BY <1>1, DeliveryFrame
  <1>2. CASE ConnectOk
    <2>1. CASE rpc # "none"
      BY <1>1, <1>2, <2>1 DEF ConnectOk, Abort
    <2>2. CASE rpc = "none"
      BY <1>2, <2>2, DeliveryFrame DEF ConnectOk
    <2> QED
      BY <2>1, <2>2
  <1>3. ASSUME NEW c \in Callers, NEW t \in TypesOf[c], SendMessage(c, t)
        PROVE  DeliveryInv'
    <2> DEFINE e == [caller |-> c, type |-> t, conn |-> conns, answer |-> 0,
                     returned |-> FALSE]
    <2>1. e \in Outcome /\ e.answer = 0
      BY TypesOfAssumption DEF Outcome
    <2>2. reqs' = Append(reqs, e) /\ UNCHANGED <<taken, rpc, pending>>
      BY <1>3 DEF SendMessage
    <2> HIDE DEF e
    <2> QED
      BY <2>1, <2>2, DeliverySend
  <1>4. ASSUME NEW c \in Callers, BeginWait(c) PROVE DeliveryInv'
    <2>1. /\ pending' \in [Types -> [received : BOOLEAN, data : Nat]]
          /\ \A t \in Types : pending'[t].received =>
               pending[t].received /\ pending'[t].data = pending[t].data
          /\ UNCHANGED <<taken, rpc>> /\ pc[c] = "sent"
      BY <1>4 DEF BeginWait
    <2>2. CASE Return(c, 0)
      BY <2>1, <2>2, DeliveryReturn
    <2>3. CASE UNCHANGED reqs
      BY <2>1, <2>3, DeliveryFrame
    <2> QED
      BY <1>4, <2>2, <2>3 DEF BeginWait
  <1>5. ASSUME NEW c \in Callers, Recheck(c) PROVE DeliveryInv'
    <2>1. /\ pc[c] = "check"
          /\ UNCHANGED <<rpc, taken>>
          /\ \/ Return(c, 0) /\ UNCHANGED pending
             \/ /\ Return(c, pending[CType(c)].data)
                /\ pending[CType(c)].received
                /\ pending' = [pending EXCEPT ![CType(c)].received = FALSE]
             \/ UNCHANGED <<pending, reqs>>
      BY <1>5 DEF Recheck
    <2>2. CType(c) \in Types
      BY <2>1, EntryTypes DEF CType, Links
    <2>3. CASE Return(c, 0) /\ UNCHANGED pending
      BY <2>1, <2>3, DeliveryReturn
    <2>4. CASE /\ Return(c, pending[CType(c)].data)
               /\ pending[CType(c)].received
               /\ pending' = [pending EXCEPT ![CType(c)].received = FALSE]
      <3>1. /\ pending' \in [Types -> [received : BOOLEAN, data : Nat]]
            /\ ~pending'[CType(c)].received
            /\ pending[CType(c)].data \in Nat
            /\ \A t \in Types : pending'[t].received =>
                 pending[t].received /\ pending'[t].data = pending[t].data
        BY <2>2, <2>4
      <3> QED
        BY <2>1, <2>4, <3>1, DeliveryReturn
    <2>5. CASE UNCHANGED <<pending, reqs>>
      BY <2>1, <2>5, DeliveryFrame
    <2> QED
      BY <2>1, <2>3, <2>4, <2>5
  <1>6. ASSUME NEW c \in Callers, Timeout(c) PROVE DeliveryInv'
    BY <1>6, DeliveryReturn DEF Timeout
  <1>7. CASE RecvBody
    BY <1>7, DeliveryFrame DEF RecvBody
  <1>8. CASE RecvStore
    BY <1>8, DeliveryStore
  <1>9. CASE OwnerStep \/ ConnectFail \/ Disconnect \/ Destroy
    BY <1>1, <1>9
    DEF OwnerStep, DisconnectNotify, DisconnectClose, DisconnectJoin,
        Destruct, Abort, ConnectFail, Disconnect, Destroy, DisconnectFlags
  <1>10. ASSUME NEW c \in Callers,
                \/ StartRequest(c) \/ SendFail(c) \/ SendSigpipe(c)
                \/ SpuriousWakeup(c)
         PROVE  DeliveryInv'
    BY <1>1, <1>10
    DEF StartRequest, SendFail, SendSigpipe, SpuriousWakeup
  <1>11. CASE RecvTop \/ RecvPollTimeout \/ RecvHeader \/ RecvLost
    BY <1>1, <1>11 DEF RecvTop, RecvPollTimeout, RecvHeader, RecvLost
  <1>12. CASE Serve \/ PeerClose \/ UNCHANGED vars
    BY <1>1, <1>12 DEF Serve, PeerClose, vars
  <1> QED
    BY <1>2, <1>3, <1>4, <1>5, <1>6, <1>7, <1>8, <1>9, <1>10, <1>11, <1>12
    DEF Next, RecvStep, CallStep

\* Everything about who was handed which response is inductive together with
\* the types: the entry stored for a type, and the answers given, are those of
\* requests of that type, and a stored entry is newer than every answer.
THEOREM Delivery == Spec => [](TypeInv /\ DeliveryInv)
  <1>1. Init => TypeInv /\ DeliveryInv
    BY TypeInit, DeliveryInit
  <1>2. TypeInv /\ DeliveryInv /\ [Next]_vars => (TypeInv /\ DeliveryInv)'
    BY TypeStep, DeliveryStep
  <1> QED
    BY <1>1, <1>2, PTL DEF Spec

\* No response is handed to two calls, however many threads share a type.
THEOREM DeliveredOnce == Spec => []AtMostOnce
  BY Delivery, PTL DEF DeliveryInv

\* No call gets the response to a request of another type.
THEOREM DeliveredToItsType == Spec => []AnswerHasType
  <1>1. TypeInv /\ DeliveryInv => AnswerHasType
    <2> SUFFICES ASSUME TypeInv, DeliveryInv,
                        NEW i \in 1..Len(reqs), Delivered(i)
                 PROVE  /\ reqs[i].answer \in 1..Len(reqs)
                        /\ reqs[reqs[i].answer].type = reqs[i].type
      BY DEF AnswerHasType
    <2>1. reqs[i].answer \in Nat
      BY EntryTypes DEF TypeInv, TypeOK
    <2>2. reqs[i].answer <= taken
          /\ (reqs[i].answer # 0 =>
                 reqs[reqs[i].answer].type = reqs[i].type)
      BY DEF DeliveryInv, AnswersRead
    <2> QED
      BY <2>1, <2>2 DEF Delivered, TypeInv, TypeOK
  <1> QED
    BY <1>1, Delivery, PTL

\* What is handed over is newer than all that calls of the type got before.
THEOREM DeliveredInOrder == Spec => AnswersAdvance
  <1> DEFINE A == \A i \in 1..Len(reqs) :
          reqs[i].answer = 0 /\ reqs'[i].answer # 0 =>
            \A j \in 1..Len(reqs) : reqs[j].type = reqs[i].type =>
                reqs[j].answer < reqs'[i].answer
  <1>1. TypeInv /\ DeliveryInv /\ [Next]_vars => [A]_vars
    <2> SUFFICES ASSUME TypeInv, DeliveryInv, Next,
                        NEW i \in 1..Len(reqs),
                        reqs[i].answer = 0, reqs'[i].answer # 0,
                        NEW j \in 1..Len(reqs), reqs[j].type = reqs[i].type
                 PROVE  reqs[j].answer < reqs'[i].answer
      OBVIOUS
    <2>1. reqs' # reqs
      OBVIOUS
    <2>2. ASSUME NEW c \in Callers, NEW a \in Nat, Return(c, a),
                 pc[c] \in {"sent", "wait", "check"}
          PROVE  i = curr[c] /\ reqs'[i].answer = a
      BY <2>2, ReturnKeeps
    <2>3. ASSUME NEW c \in Callers, NEW t \in TypesOf[c], SendMessage(c, t)
          PROVE  FALSE
      <3>1. [caller |-> c, type |-> t, conn |-> conns, answer |-> 0,
             returned |-> FALSE] \in Outcome
        BY TypesOfAssumption DEF Outcome, TypeInv, TypeOK
      <3>2. reqs'[i] = reqs[i]
        BY <2>3, <3>1, SendSeq DEF SendMessage, TypeInv, TypeOK
      <3> QED
        BY <3>2
    <2>4. ASSUME NEW c \in Callers, BeginWait(c) \/ Timeout(c) PROVE FALSE
      <3>1. Return(c, 0) /\ pc[c] \in {"sent", "wait", "check"}
        BY <2>1, <2>4 DEF BeginWait, Timeout
      <3> QED
        BY <2>2, <3>1
    <2>5. ASSUME NEW c \in Callers, Recheck(c)
          PROVE  reqs[j].answer < reqs'[i].answer
      <3>1. pc[c] \in {"sent", "wait", "check"}
        BY <2>5 DEF Recheck
      <3>2. CASE Return(c, 0)
        BY <2>2, <3>1, <3>2
      <3>3. CASE /\ Return(c, pending[CType(c)].data)
                 /\ pending[CType(c)].received
        <4>1. curr[c] \in 1..Len(reqs)
          BY <3>1 DEF TypeInv, TypeOK, Links
        <4>2. CType(c) \in Types
          BY <4>1, EntryTypes DEF CType, TypeInv, TypeOK
        <4>3. pending[CType(c)].data \in Nat
          BY <4>2 DEF TypeInv, TypeOK
        <4>4. i = curr[c] /\ reqs'[i].answer = pending[CType(c)].data
          BY <2>2, <3>1, <3>3, <4>3
        <4> QED
          BY <3>3, <4>2, <4>4 DEF CType, DeliveryInv, SlotFresh
      <3> QED
        BY <2>1, <2>5, <3>2, <3>3 DEF Recheck
    <2> QED
      BY <2>1, <2>3, <2>4, <2>5
      DEF Next, OwnerStep, RecvStep, CallStep, ConnectOk, ConnectFail,
          Disconnect, Destroy, DisconnectFlags, DisconnectNotify,
          DisconnectClose, DisconnectJoin, Destruct, Abort, StartRequest,
          SendFail, SendSigpipe, SpuriousWakeup, RecvTop, RecvPollTimeout,
          RecvHeader, RecvBody, RecvLost, RecvStore, Serve, PeerClose
  <1>2. Spec => [][A]_vars
    BY <1>1, Delivery, PTL DEF Spec
  <1> QED
    BY <1>2 DEF AnswersAdvance

-----------------------------------------------------------------------------
(* Late responses, when no two threads share a type: which earlier call a  *)
(* response belongs to that is not the call's own.                         *)

TypesApart == \A c, d \in Callers : c # d => TypesOf[c] \cap TypesOf[d] = {}

\* Every request but the one a thread is in the call of has returned, and
\* the connections of the requests follow each other.
EntryOK(i) ==
    /\ reqs[i].type \in TypesOf[reqs[i].caller]
    /\ i <= curr[reqs[i].caller]
    /\ reqs[i].answer # 0 => reqs[i].returned
    /\ ~reqs[i].returned =>
          InCall(reqs[i].caller) /\ i = curr[reqs[i].caller]
    /\ reqs[i].conn <= conns
    /\ \A j \in 1..Len(reqs) : i < j => reqs[i].conn <= reqs[j].conn

\* A response that is not stored yet is one of this connection.
ToCome(i) == taken < i \/ (rpc = "store" /\ taken = i)

HistoryInv ==
    /\ \A i \in 1..Len(reqs) :
          EntryOK(i) /\ (ToCome(i) => reqs[i].conn = conns)
    /\ \A c \in Callers : InCall(c) =>
          reqs[curr[c]].caller = c /\ ~reqs[curr[c]].returned

\* A response that a waiting thread finds is not of an earlier connection
\* than its request: what was stored before is dropped when the wait begins.
SlotNew ==
    \A c \in Callers :
        InSlot(c) => reqs[curr[c]].conn <= reqs[pending[CType(c)].data].conn

LEMMA EntryParts ==
    ASSUME NEW s \in Seq(Outcome), NEW i \in 1..Len(s)
    PROVE  /\ s[i].caller \in Callers /\ s[i].type \in Types
           /\ s[i].conn \in Nat /\ s[i].answer \in Nat
           /\ s[i].returned \in BOOLEAN
  <1>1. s[i] \in Outcome
    OBVIOUS
  <1> QED
    BY <1>1 DEF Outcome

LEMMA HistoryInit == Init => HistoryInv /\ SlotNew
  <1> SUFFICES ASSUME Init PROVE HistoryInv /\ SlotNew
    OBVIOUS
  <1>1. Len(reqs) = 0 /\ \A c \in Callers : pc[c] = "idle"
    BY DEF Init
  <1> QED
    BY <1>1 DEF HistoryInv, SlotNew, InCall, InSlot

\* Steps that neither send nor return: the receive thread may go on, the
\* thread of a call stays in it.
LEMMA HistoryFrame ==
    ASSUME TypeInv, HistoryInv, UNCHANGED <<reqs, curr, conns>>,
           \A c \in Callers : InCall(c)' <=> InCall(c),
           \A i \in 1..Len(reqs) : ToCome(i)' => ToCome(i)
    PROVE  HistoryInv'
  <1>1. \A i \in 1..Len(reqs) : reqs[i].caller \in Callers
    BY EntryParts DEF TypeInv, TypeOK
  <1>2. ASSUME NEW i \in 1..Len(reqs)
        PROVE  EntryOK(i)' /\ (ToCome(i)' => reqs'[i].conn = conns')
    <2>1. EntryOK(i) /\ (ToCome(i) => reqs[i].conn = conns)
      BY DEF HistoryInv
    <2>2. EntryOK(i)'
      BY <1>1, <2>1 DEF EntryOK
    <2> QED
      BY <2>1, <2>2
  <1>3. \A c \in Callers : InCall(c)' =>
            reqs'[curr'[c]].caller = c /\ ~reqs'[curr'[c]].returned
    BY DEF HistoryInv
  <1> QED
    BY <1>2, <1>3 DEF HistoryInv

\* What is sent is the last request of its thread and of its connection.
LEMMA HistorySend ==
    ASSUME TypeInv, HistoryInv, NEW c \in Callers, NEW t \in TypesOf[c],
           SendMessage(c, t)
    PROVE  HistoryInv'
  <1> DEFINE e == [caller |-> c, type |-> t, conn |-> conns, answer |-> 0,
                   returned |-> FALSE]
  <1>1. e \in Outcome /\ reqs \in Seq(Outcome) /\ Len(reqs) \in Nat
    BY TypesOfAssumption DEF Outcome, TypeInv, TypeOK
  <1> PICK n \in Nat : n = Len(reqs) + 1
    BY <1>1
  <1>2. /\ Len(reqs') = n /\ reqs'[n] = e
        /\ \A i \in 1..Len(reqs) : reqs'[i] = reqs[i]
    BY <1>1, SendSeq DEF SendMessage
  <1>3. /\ curr' = [curr EXCEPT ![c] = n] /\ pc[c] = "send"
        /\ pc' = [pc EXCEPT ![c] = "sent"]
        /\ rpc' = rpc /\ taken' = taken /\ conns' = conns
    BY DEF SendMessage, receiver, net
  <1>4. /\ curr \in [Callers -> 0..Len(reqs)]
        /\ pc \in [Callers -> {"idle", "send", "sent", "wait", "check"}]
        /\ conns \in Nat
    BY DEF TypeInv, TypeOK
  <1>5. e.caller = c /\ e.type = t /\ e.conn = conns /\ e.answer = 0
        /\ ~e.returned
    OBVIOUS
  <1>6. /\ \A d \in Callers : d # c => curr'[d] = curr[d] /\ pc'[d] = pc[d]
        /\ curr'[c] = n /\ pc'[c] = "sent"
    BY <1>3, <1>4
  <1> HIDE DEF e
  <1>7. ~InCall(c) /\ InCall(c)'
        /\ \A d \in Callers : d # c => (InCall(d)' <=> InCall(d))
    BY <1>3, <1>6 DEF InCall
  <1>8. ASSUME NEW i \in 1..Len(reqs)
        PROVE  EntryOK(i)' /\ (ToCome(i)' => reqs'[i].conn = conns')
    <2>1. EntryOK(i) /\ (ToCome(i) => reqs[i].conn = conns)
      BY DEF HistoryInv
    <2>2. reqs'[i] = reqs[i] /\ reqs[i].caller \in Callers
          /\ reqs[i].conn \in Nat
      BY <1>1, <1>2, EntryParts
    <2>3. ToCome(i)' <=> ToCome(i)
      BY <1>3 DEF ToCome
    <2>4. i <= curr'[reqs[i].caller]
      BY <1>1, <1>4, <1>6, <2>1, <2>2 DEF EntryOK
    <2>5. ~reqs[i].returned => /\ InCall(reqs[i].caller)'
                               /\ i = curr'[reqs[i].caller]
      BY <1>6, <1>7, <2>1, <2>2 DEF EntryOK
    <2>6. ASSUME NEW j \in 1..Len(reqs'), i < j
          PROVE  reqs'[i].conn <= reqs'[j].conn
      <3>1. CASE j \in 1..Len(reqs)
        BY <1>2, <2>1, <2>2, <2>6, <3>1 DEF EntryOK
      <3>2. CASE j = n
        BY <1>2, <1>5, <2>1, <2>2, <3>2 DEF EntryOK
      <3> QED
        BY <1>1, <1>2, <3>1, <3>2
    <2>7. EntryOK(i)'
      BY <1>3, <2>1, <2>2, <2>4, <2>5, <2>6 DEF EntryOK
    <2> QED
      BY <1>3, <2>1, <2>2, <2>3, <2>7
  <1>9. EntryOK(n)' /\ (ToCome(n)' => reqs'[n].conn = conns')
    <2>1. \A j \in 1..Len(reqs') : ~(n < j)
      BY <1>1, <1>2
    <2>2. t \in TypesOf[c] /\ n <= curr'[c] /\ conns' <= conns'
      BY <1>1, <1>3, <1>4, <1>6
    <2> QED
      BY <1>2, <1>3, <1>5, <1>6, <1>7, <2>1, <2>2 DEF EntryOK
  <1>10. ASSUME NEW d \in Callers, InCall(d)'
         PROVE  reqs'[curr'[d]].caller = d /\ ~reqs'[curr'[d]].returned
    <2>1. CASE d = c
      BY <1>2, <1>5, <1>6, <2>1
    <2>2. CASE d # c
      <3>1. InCall(d) /\ curr'[d] = curr[d]
        BY <1>6, <1>7, <1>10, <2>2
      <3>2. curr[d] \in 1..Len(reqs)
        BY <1>1, <1>4, <3>1 DEF TypeInv, Links, InCall
      <3> QED
        BY <1>2, <3>1, <3>2 DEF HistoryInv
    <2> QED
      BY <2>1, <2>2
  <1>11. \A i \in 1..Len(reqs') : i \in 1..Len(reqs) \/ i = n
    BY <1>1, <1>2
  <1> QED
    BY <1>8, <1>9, <1>10, <1>11 DEF HistoryInv

\* A call that returns marks its own request, and no other.
LEMMA ReturnMarks ==
    ASSUME TypeInv, HistoryInv, NEW c \in Callers, NEW a \in Nat,
           InCall(c), Return(c, a)
    PROVE  /\ reqs' \in Seq(Outcome) /\ Len(reqs') = Len(reqs)
           /\ curr[c] \in 1..Len(reqs)
           /\ reqs'[curr[c]].answer = a /\ reqs'[curr[c]].returned
           /\ \A i \in 1..Len(reqs) :
                 /\ i # curr[c] => reqs'[i] = reqs[i]
                 /\ reqs'[i].caller = reqs[i].caller
                 /\ reqs'[i].type = reqs[i].type
                 /\ reqs'[i].conn = reqs[i].conn
           /\ pc' = [pc EXCEPT ![c] = "idle"]
           /\ \A d \in Callers : d # c => (InCall(d)' <=> InCall(d))
           /\ ~InCall(c)'
           /\ reqs[curr[c]].caller = c /\ ~reqs[curr[c]].returned
  <1> DEFINE k == curr[c]
             e == [reqs[k] EXCEPT !.returned = TRUE, !.answer = a]
  <1>1. k \in 1..Len(reqs) /\ reqs \in Seq(Outcome)
        /\ pc \in [Callers -> {"idle", "send", "sent", "wait", "check"}]
    BY DEF TypeInv, TypeOK, Links, InCall
  <1>2. reqs[k] \in Outcome
    BY <1>1
  <1>3. /\ e \in Outcome /\ e.answer = a /\ e.returned
        /\ e.type = reqs[k].type /\ e.caller = reqs[k].caller
        /\ e.conn = reqs[k].conn
    BY <1>2 DEF Outcome
  <1>4. reqs' = [reqs EXCEPT ![k] = e] /\ pc' = [pc EXCEPT ![c] = "idle"]
    BY DEF Return
  <1>5. reqs[k].caller = c /\ ~reqs[k].returned
    BY DEF HistoryInv
  <1> HIDE DEF k, e
  <1>6. /\ reqs' \in Seq(Outcome) /\ Len(reqs') = Len(reqs)
        /\ reqs'[k] = e
        /\ \A i \in 1..Len(reqs) : i # k => reqs'[i] = reqs[i]
    BY <1>1, <1>3, <1>4, UpdateSeq
  <1>7. pc'[c] = "idle" /\ \A d \in Callers : d # c => pc'[d] = pc[d]
    BY <1>1, <1>4
  <1>8. ~InCall(c)' /\ \A d \in Callers : d # c => (InCall(d)' <=> InCall(d))
    BY <1>7 DEF InCall
  <1>9. \A i \in 1..Len(reqs) :
           /\ i # k => reqs'[i] = reqs[i]
           /\ reqs'[i].caller = reqs[i].caller
           /\ reqs'[i].type = reqs[i].type
           /\ reqs'[i].conn = reqs[i].conn
    BY <1>3, <1>6
  <1> QED
    BY <1>1, <1>3, <1>4, <1>5, <1>6, <1>8, <1>9 DEF k

LEMMA HistoryReturn ==
    ASSUME TypeInv, HistoryInv, NEW c \in Callers, NEW a \in Nat,
           InCall(c), Return(c, a), UNCHANGED <<curr, conns, taken, rpc>>
    PROVE  HistoryInv'
  <1>1. \A i \in 1..Len(reqs) : reqs[i].caller \in Callers
    BY EntryParts DEF TypeInv, TypeOK
  <1>2. ASSUME NEW i \in 1..Len(reqs)
        PROVE  EntryOK(i)' /\ (ToCome(i)' => reqs'[i].conn = conns')
    <2>1. EntryOK(i) /\ (ToCome(i) => reqs[i].conn = conns)
      BY DEF HistoryInv
    <2>2. /\ reqs'[i].caller = reqs[i].caller /\ reqs'[i].type = reqs[i].type
          /\ reqs'[i].conn = reqs[i].conn
          /\ Len(reqs') = Len(reqs)
          /\ \A j \in 1..Len(reqs) : reqs'[j].conn = reqs[j].conn
      BY ReturnMarks
    <2>3. CASE i = curr[c]
      <3>1. reqs'[i].returned
        BY <2>3, ReturnMarks
      <3> QED
        BY <2>1, <2>2, <3>1 DEF EntryOK, ToCome
    <2>4. CASE i # curr[c]
      <3>1. reqs'[i] = reqs[i]
        BY <2>4, ReturnMarks
      <3>2. ~reqs[i].returned => InCall(reqs[i].caller)'
        <4>1. ~reqs[i].returned => /\ InCall(reqs[i].caller)
                                   /\ reqs[i].caller # c
          BY <2>1, <2>4 DEF EntryOK
        <4> QED
          BY <1>1, <4>1, ReturnMarks
      <3> QED
        BY <2>1, <2>2, <3>1, <3>2 DEF EntryOK, ToCome
    <2> QED
      BY <2>3, <2>4
  <1>3. ASSUME NEW d \in Callers, InCall(d)'
        PROVE  reqs'[curr'[d]].caller = d /\ ~reqs'[curr'[d]].returned
    <2>1. d # c /\ InCall(d)
      BY <1>3, ReturnMarks
    <2>2. reqs[curr[d]].caller = d /\ ~reqs[curr[d]].returned
      BY <2>1 DEF HistoryInv
    <2>3. curr[d] \in 1..Len(reqs)
      BY <2>1 DEF TypeInv, TypeOK, Links, InCall
    <2>4. curr[d] # curr[c]
      BY <2>1, <2>2, ReturnMarks
    <2> QED
      BY <2>2, <2>3, <2>4, ReturnMarks
  <1>4. Len(reqs') = Len(reqs)
    BY ReturnMarks
  <1> QED
    BY <1>2, <1>3, <1>4 DEF HistoryInv

LEMMA HistoryStep == TypeInv /\ HistoryInv /\ [Next]_vars => HistoryInv'
  <1> SUFFICES ASSUME TypeInv, HistoryInv, [Next]_vars PROVE HistoryInv'
    OBVIOUS
  <1> USE DEF owner, flags, clients, net, receiver
  <1>0. /\ pc \in [Callers -> {"idle", "send", "sent", "wait", "check"}]
        /\ taken \in Nat /\ Len(reqs) \in Nat /\ conns \in Nat
    BY DEF TypeInv, TypeOK
  <1>1. CASE /\ UNCHANGED <<reqs, curr, conns, pc, taken>>
             /\ rpc' = "store" => rpc = "store"
    BY <1>1, HistoryFrame DEF InCall, ToCome
  <1>2. CASE ConnectOk
    <2>1. CASE rpc # "none"
      BY <1>1, <1>2, <2>1 DEF ConnectOk, Abort
    <2>2. CASE rpc = "none"
      <3>1. /\ UNCHANGED <<reqs, curr, pc>> /\ conns' = conns + 1
            /\ taken' = Len(reqs) /\ rpc' = "top"
        BY <1>2, <2>2 DEF ConnectOk
      <3>2. ASSUME NEW i \in 1..Len(reqs) PROVE EntryOK(i)' /\ ~ToCome(i)'
        <4>1. EntryOK(i)
          BY DEF HistoryInv
        <4>2. reqs[i].conn \in Nat
          BY EntryParts DEF TypeInv, TypeOK
        <4>3. EntryOK(i)'
          BY <1>0, <3>1, <4>1, <4>2 DEF EntryOK, InCall
        <4>4. ~ToCome(i)'
          BY <1>0, <3>1 DEF ToCome
        <4> QED
          BY <4>3, <4>4
      <3> QED
        BY <3>1, <3>2 DEF HistoryInv, InCall
    <2> QED
      BY <2>1, <2>2
  <1>3. ASSUME NEW c \in Callers, NEW t \in TypesOf[c], SendMessage(c, t)
        PROVE  HistoryInv'
    BY <1>3, HistorySend
  <1>4. ASSUME NEW c \in Callers, BeginWait(c) PROVE HistoryInv'
    <2>1. pc[c] = "sent" /\ UNCHANGED <<curr, conns, taken, rpc>>
      BY <1>4 DEF BeginWait
    <2>2. CASE Return(c, 0)
      BY <2>1, <2>2, HistoryReturn DEF InCall
    <2>3. CASE UNCHANGED reqs /\ pc' = [pc EXCEPT ![c] = "wait"]
      BY <1>0, <2>1, <2>3, HistoryFrame DEF InCall, ToCome
    <2> QED
      BY <1>4, <2>2, <2>3 DEF BeginWait
  <1>5. ASSUME NEW c \in Callers, Recheck(c) PROVE HistoryInv'
    <2>1. pc[c] = "check" /\ UNCHANGED <<curr, conns, taken, rpc>>
      BY <1>5 DEF Recheck
    <2>2. CASE Return(c, 0)
      BY <2>1, <2>2, HistoryReturn DEF InCall
    <2>3. CASE Return(c, pending[CType(c)].data)
      <3>1. CType(c) \in Types
        BY <2>1, EntryParts DEF CType, TypeInv, TypeOK, Links
      <3>2. pending[CType(c)].data \in Nat
        BY <3>1 DEF TypeInv, TypeOK
      <3> QED
        BY <2>1, <2>3, <3>2, HistoryReturn DEF InCall
    <2>4. CASE UNCHANGED reqs /\ pc' = [pc EXCEPT ![c] = "wait"]
      BY <1>0, <2>1, <2>4, HistoryFrame DEF InCall, ToCome
    <2> QED
      BY <1>5, <2>2, <2>3, <2>4 DEF Recheck
  <1>6. ASSUME NEW c \in Callers, Timeout(c) PROVE HistoryInv'
    BY <1>6, HistoryReturn DEF Timeout, InCall
  <1>7. ASSUME NEW c \in Callers,
               \/ StartRequest(c) \/ SendFail(c) \/ SendSigpipe(c)
               \/ SpuriousWakeup(c)
        PROVE  HistoryInv'
    <2>1. UNCHANGED <<reqs, curr, conns, taken, rpc>>
          /\ \A d \in Callers : InCall(d)' <=> InCall(d)
      BY <1>0, <1>7
      DEF StartRequest, SendFail, SendSigpipe, SpuriousWakeup, InCall
    <2> QED
      BY <2>1, HistoryFrame DEF ToCome
  <1>8. CASE DisconnectNotify \/ RecvStore
    <2>1. UNCHANGED <<reqs, curr, conns, taken>>
          /\ (rpc' = "store" => rpc = "store")
          /\ \A d \in Callers : InCall(d)' <=> InCall(d)
      BY <1>0, <1>8 DEF DisconnectNotify, RecvStore, NotifyAll, InCall
    <2> QED
      BY <2>1, HistoryFrame DEF ToCome
  <1>9. CASE RecvBody
    BY <1>0, <1>9, HistoryFrame DEF RecvBody, InCall, ToCome
  <1>10. CASE \/ ConnectFail \/ Disconnect \/ Destroy \/ DisconnectClose
              \/ DisconnectJoin \/ Destruct
    BY <1>1, <1>10
    DEF ConnectFail, Disconnect, Destroy, DisconnectFlags, DisconnectClose,
        DisconnectJoin, Destruct, Abort
  <1>11. CASE \/ RecvTop \/ RecvPollTimeout \/ RecvHeader \/ RecvLost
              \/ Serve \/ PeerClose \/ UNCHANGED vars
    BY <1>1, <1>11
    DEF RecvTop, RecvPollTimeout, RecvHeader, RecvLost, Serve, PeerClose, vars
  <1> QED
    BY <1>2, <1>3, <1>4, <1>5, <1>6, <1>7, <1>8, <1>9, <1>10, <1>11
    DEF Next, OwnerStep, RecvStep, CallStep

\* Where a waiting thread finds a response in its slot.
LEMMA FoundEntry ==
    ASSUME TypeInv, DeliveryInv, NEW c \in Callers, InSlot(c)
    PROVE  LET d == pending[CType(c)].data
           IN  /\ CType(c) \in Types
               /\ d \in 1..taken /\ d \in 1..Len(reqs)
               /\ curr[c] \in 1..Len(reqs)
               /\ reqs[d].type = reqs[curr[c]].type
               /\ \A j \in 1..Len(reqs) :
                     reqs[j].type = reqs[curr[c]].type => reqs[j].answer < d
  <1>1. curr[c] \in 1..Len(reqs)
    BY DEF InSlot, TypeInv, TypeOK, Links
  <1>2. CType(c) = reqs[curr[c]].type /\ CType(c) \in Types
    BY <1>1, EntryParts DEF CType, TypeInv, TypeOK
  <1>3. taken \in Nat /\ taken <= Len(reqs) /\ Len(reqs) \in Nat
    BY DEF TypeInv, TypeOK
  <1> QED
    BY <1>1, <1>2, <1>3 DEF DeliveryInv, SlotFresh, InSlot

\* Steps that put nothing into a slot whose thread waits.
LEMMA SlotFrame ==
    ASSUME TypeInv, DeliveryInv, SlotNew,
           \A i \in 1..Len(reqs) : /\ reqs'[i].type = reqs[i].type
                                   /\ reqs'[i].conn = reqs[i].conn,
           \A c \in Callers : pc'[c] \in {"wait", "check"} =>
               /\ curr'[c] = curr[c]
               /\ \/ pc[c] \in {"wait", "check"}
                  \/ pc[c] = "sent" /\ ~pending'[CType(c)].received,
           \A t \in Types : pending'[t].received =>
               pending[t].received /\ pending'[t].data = pending[t].data
    PROVE  SlotNew'
  <1> SUFFICES ASSUME NEW c \in Callers, InSlot(c)'
               PROVE  (reqs[curr[c]].conn <= reqs[pending[CType(c)].data].conn)'
    BY DEF SlotNew
  <1>1. pc'[c] \in {"wait", "check"} /\ curr'[c] = curr[c]
        /\ pc[c] \in {"sent", "wait", "check"}
    BY DEF InSlot
  <1>2. curr[c] \in 1..Len(reqs)
    BY <1>1 DEF TypeInv, TypeOK, Links
  <1>3. CType(c)' = CType(c) /\ CType(c) \in Types
    BY <1>1, <1>2, EntryParts DEF CType, TypeInv, TypeOK
  <1>4. pending'[CType(c)].received /\ pc[c] \in {"wait", "check"}
    BY <1>3 DEF InSlot
  <1>5. InSlot(c) /\ pending'[CType(c)].data = pending[CType(c)].data
    BY <1>3, <1>4 DEF InSlot
  <1>6. pending[CType(c)].data \in 1..Len(reqs)
    BY <1>5, FoundEntry
  <1>7. reqs[curr[c]].conn <= reqs[pending[CType(c)].data].conn
    BY <1>5 DEF SlotNew
  <1> QED
    BY <1>1, <1>2, <1>3, <1>5, <1>6, <1>7

LEMMA SlotStep ==
    TypeInv /\ DeliveryInv /\ HistoryInv /\ SlotNew /\ [Next]_vars => SlotNew'
  <1> SUFFICES ASSUME TypeInv, DeliveryInv, HistoryInv, SlotNew, [Next]_vars
               PROVE  SlotNew'
    OBVIOUS
  <1> USE DEF owner, flags, clients, net, receiver
  <1>0. /\ pc \in [Callers -> {"idle", "send", "sent", "wait", "check"}]
        /\ pending \in [Types -> [received : BOOLEAN, data : Nat]]
        /\ curr \in [Callers -> 0..Len(reqs)] /\ reqs \in Seq(Outcome)
    BY DEF TypeInv, TypeOK
  <1>1. CASE UNCHANGED <<reqs, curr, pc, pending>>
    BY <1>1, SlotFrame
  <1>2. ASSUME NEW c \in Callers, NEW t \in TypesOf[c], SendMessage(c, t)
        PROVE  SlotNew'
    <2>1. [caller |-> c, type |-> t, conn |-> conns, answer |-> 0,
           returned |-> FALSE] \in Outcome
      BY TypesOfAssumption DEF Outcome, TypeInv, TypeOK
    <2>2. \A i \in 1..Len(reqs) : reqs'[i] = reqs[i]
      BY <1>0, <1>2, <2>1, SendSeq DEF SendMessage
    <2>3. \A d \in Callers : pc'[d] \in {"wait", "check"} =>
              pc[d] \in {"wait", "check"} /\ curr'[d] = curr[d]
      BY <1>0, <1>2 DEF SendMessage
    <2>4. pending' = pending
      BY <1>2 DEF SendMessage
    <2> QED
      BY <2>2, <2>3, <2>4, SlotFrame
  <1>3. ASSUME NEW c \in Callers, NEW a \in Nat, Return(c, a), InCall(c),
               curr' = curr,
               \A t \in Types : pending'[t].received =>
                   pending[t].received /\ pending'[t].data = pending[t].data
        PROVE  SlotNew'
    <2>1. /\ \A i \in 1..Len(reqs) : /\ reqs'[i].type = reqs[i].type
                                     /\ reqs'[i].conn = reqs[i].conn
          /\ pc' = [pc EXCEPT ![c] = "idle"]
      BY <1>3, ReturnMarks
    <2>2. \A d \in Callers : pc'[d] \in {"wait", "check"} =>
              pc[d] \in {"wait", "check"}
      BY <1>0, <2>1
    <2> QED
      BY <1>3, <2>1, <2>2, SlotFrame
  <1>4. ASSUME NEW c \in Callers, BeginWait(c) PROVE SlotNew'
    <2>1. pc[c] = "sent" /\ curr' = curr
          /\ pending' = [pending EXCEPT ![CType(c)].received = FALSE]
      BY <1>4 DEF BeginWait
    <2>2. CType(c) \in Types
      BY <2>1, EntryParts DEF CType, TypeInv, TypeOK, Links
    <2>3. /\ ~pending'[CType(c)].received
          /\ \A t \in Types : pending'[t].received =>
               pending[t].received /\ pending'[t].data = pending[t].data
      BY <1>0, <2>1, <2>2
    <2>4. CASE Return(c, 0)
      BY <1>3, <2>1, <2>3, <2>4 DEF InCall
    <2>5. CASE UNCHANGED reqs /\ pc' = [pc EXCEPT ![c] = "wait"]
      BY <1>0, <2>1, <2>3, <2>5, SlotFrame
    <2> QED
      BY <1>4, <2>4, <2>5 DEF BeginWait
  <1>5. ASSUME NEW c \in Callers, Recheck(c) PROVE SlotNew'
    <2>1. pc[c] = "check" /\ curr' = curr
      BY <1>5 DEF Recheck
    <2>2. CType(c) \in Types
      BY <2>1, EntryParts DEF CType, TypeInv, TypeOK, Links
    <2>3. CASE Return(c, 0) /\ UNCHANGED pending
      BY <1>3, <2>1, <2>3 DEF InCall
    <2>4. CASE /\ Return(c, pending[CType(c)].data)
               /\ pending' = [pending EXCEPT ![CType(c)].received = FALSE]
      <3>1. /\ pending[CType(c)].data \in Nat
            /\ \A t \in Types : pending'[t].received =>
                 pending[t].received /\ pending'[t].data = pending[t].data
        BY <1>0, <2>2, <2>4
      <3> QED
        BY <1>3, <2>1, <2>4, <3>1 DEF InCall
    <2>5. CASE UNCHANGED <<pending, reqs>> /\ pc' = [pc EXCEPT ![c] = "wait"]
      BY <1>0, <2>1, <2>5, SlotFrame
    <2> QED
      BY <1>5, <2>3, <2>4, <2>5 DEF Recheck
  <1>6. ASSUME NEW c \in Callers, Timeout(c) PROVE SlotNew'
    BY <1>3, <1>6 DEF Timeout, InCall
  <1>7. ASSUME NEW c \in Callers,
               \/ StartRequest(c) \/ SendFail(c) \/ SendSigpipe(c)
               \/ SpuriousWakeup(c)
        PROVE  SlotNew'
    <2>1. UNCHANGED <<reqs, curr, pending>>
          /\ \A d \in Callers : pc'[d] \in {"wait", "check"} =>
                 pc[d] \in {"wait", "check"}
      BY <1>0, <1>7 DEF StartRequest, SendFail, SendSigpipe, SpuriousWakeup
    <2> QED
      BY <2>1, SlotFrame
  <1>8. CASE DisconnectNotify
    <2>1. UNCHANGED <<reqs, curr, pending>>
          /\ \A d \in Callers : pc'[d] \in {"wait", "check"} =>
                 pc[d] \in {"wait", "check"}
      BY <1>0, <1>8 DEF DisconnectNotify, NotifyAll
    <2> QED
      BY <2>1, SlotFrame
  <1>9. CASE RecvStore
    <2>1. /\ UNCHANGED <<reqs, curr>> /\ rpc = "store"
          /\ \A d \in Callers : pc'[d] \in {"wait", "check"} =>
                 pc[d] \in {"wait", "check"}
      BY <1>0, <1>9 DEF RecvStore, NotifyAll
    <2>2. taken \in 1..Len(reqs)
      BY <2>1 DEF TypeInv, TypeOK, Links
    <2>3. reqs[taken].conn = conns /\ reqs[taken].type \in Types
      BY <2>1, <2>2, EntryParts DEF HistoryInv, ToCome, TypeInv, TypeOK
    <2>4. \A t \in Types : pending'[t] = IF t = reqs[taken].type
                                        THEN [received |-> TRUE, data |-> taken]
                                        ELSE pending[t]
      BY <1>0, <1>9, <2>3 DEF RecvStore
    <2> SUFFICES ASSUME NEW c \in Callers, InSlot(c)'
                 PROVE  reqs[curr[c]].conn <= reqs[pending'[CType(c)].data].conn
      BY <2>1 DEF SlotNew, CType
    <2>5. pc[c] \in {"wait", "check"} /\ pending'[CType(c)].received
      BY <2>1 DEF InSlot, CType
    <2>6. curr[c] \in 1..Len(reqs)
      BY <2>5 DEF TypeInv, TypeOK, Links
    <2>7. CType(c) \in Types
      BY <2>6, EntryParts DEF CType, TypeInv, TypeOK
    <2>8. CASE CType(c) = reqs[taken].type
      BY <2>3, <2>4, <2>6, <2>7, <2>8 DEF HistoryInv, EntryOK
    <2>9. CASE CType(c) # reqs[taken].type
      <3>1. pending'[CType(c)] = pending[CType(c)]
        BY <2>4, <2>7, <2>9
      <3>2. InSlot(c)
        BY <2>5, <3>1 DEF InSlot
      <3> QED
        BY <3>1, <3>2 DEF SlotNew
    <2> QED
      BY <2>8, <2>9
  <1>10. CASE ConnectOk
    BY <1>1, <1>10 DEF ConnectOk, Abort
  <1>11. CASE \/ ConnectFail \/ Disconnect \/ Destroy \/ DisconnectClose
              \/ DisconnectJoin \/ Destruct
    BY <1>1, <1>11
    DEF ConnectFail, Disconnect, Destroy, DisconnectFlags, DisconnectClose,
        DisconnectJoin, Destruct, Abort
  <1>12. CASE \/ RecvTop \/ RecvPollTimeout \/ RecvHeader \/ RecvLost
              \/ RecvBody \/ Serve \/ PeerClose \/ UNCHANGED vars
    BY <1>1, <1>12
    DEF RecvTop, RecvPollTimeout, RecvHeader, RecvLost, RecvBody, Serve,
        PeerClose, vars
  <1> QED
    BY <1>2, <1>4, <1>5, <1>6, <1>7, <1>8, <1>9, <1>10, <1>11, <1>12
    DEF Next, OwnerStep, RecvStep, CallStep

\* A call that finds the response to another request in its slot: it is one
\* of its own, of the same type and connection, which failed, or which was
\* itself given the response to another one before.
LEMMA FoundLate ==
    ASSUME TypesApart, TypeInv, DeliveryInv, HistoryInv, SlotNew,
           StaleOnlyAfterFailure, NEW c \in Callers, InSlot(c),
           pending[CType(c)].data # curr[c]
    PROVE  LET d == pending[CType(c)].data
               i == curr[c]
           IN  /\ d < i /\ d \in 1..Len(reqs) /\ Alike(i, d)
               /\ \E k \in 1..(i - 1) : Failed(k) /\ Alike(i, k)
  <1> PICK d \in Nat : d = pending[CType(c)].data
    BY FoundEntry
  <1> PICK i \in Nat : i = curr[c]
    BY FoundEntry
  <1>1. /\ d \in 1..Len(reqs) /\ i \in 1..Len(reqs)
        /\ reqs[d].type = reqs[i].type
        /\ reqs[d].answer < d
    BY FoundEntry
  <1>2. InCall(c) /\ reqs[i].caller = c
    BY DEF InSlot, InCall, HistoryInv
  <1>3. reqs[d].caller \in Callers /\ reqs[d].caller = c
    <2>1. reqs[d].caller \in Callers
      BY <1>1, EntryParts DEF TypeInv, TypeOK
    <2>2. /\ reqs[d].type \in TypesOf[reqs[d].caller]
          /\ reqs[i].type \in TypesOf[c]
      BY <1>1, <1>2 DEF HistoryInv, EntryOK
    <2> QED
      BY <1>1, <2>1, <2>2 DEF TypesApart
  <1>4. d < i
    BY <1>1, <1>3 DEF HistoryInv, EntryOK
  <1>5. reqs[d].conn = reqs[i].conn
    <2>1. reqs[d].conn \in Nat /\ reqs[i].conn \in Nat
      BY <1>1, EntryParts DEF TypeInv, TypeOK
    <2>2. reqs[d].conn <= reqs[i].conn
      BY <1>1, <1>4 DEF HistoryInv, EntryOK
    <2>3. reqs[i].conn <= reqs[d].conn
      BY DEF SlotNew
    <2> QED
      BY <2>1, <2>2, <2>3
  <1>6. Alike(i, d)
    BY <1>1, <1>2, <1>3, <1>5 DEF Alike
  <1>7. reqs[d].returned /\ reqs[d].answer \in Nat
    BY <1>1, <1>3, <1>4, EntryParts DEF HistoryInv, EntryOK, TypeInv, TypeOK
  <1>8. \E k \in 1..(i - 1) : Failed(k) /\ Alike(i, k)
    <2>1. CASE reqs[d].answer = 0
      BY <1>1, <1>4, <1>6, <1>7, <2>1 DEF Failed
    <2>2. CASE reqs[d].answer # 0
      <3>1. Delivered(d) /\ reqs[d].answer # d
        BY <1>1, <1>7, <2>2 DEF Delivered
      <3>2. PICK k \in 1..(d - 1) : Failed(k) /\ Alike(d, k)
        BY <1>1, <3>1 DEF StaleOnlyAfterFailure
      <3>3. Alike(i, k)
        BY <1>6, <3>2 DEF Alike
      <3>4. k \in 1..(i - 1)
        BY <1>1, <1>4
      <3> QED
        BY <3>2, <3>3, <3>4
    <2> QED
      BY <2>1, <2>2
  <1> QED
    BY <1>1, <1>4, <1>6, <1>8

LEMMA StaleReturn ==
    ASSUME TypesApart, TypeInv, DeliveryInv, HistoryInv, SlotNew,
           StaleOnlyAfterFailure, NEW c \in Callers, NEW a \in Nat,
           InCall(c), Return(c, a),
           a # 0 => InSlot(c) /\ a = pending[CType(c)].data
    PROVE  StaleOnlyAfterFailure'
  <1> PICK n \in Nat : n = curr[c]
    BY DEF TypeInv, TypeOK
  <1>1. /\ Len(reqs') = Len(reqs) /\ n \in 1..Len(reqs)
        /\ reqs'[n].answer = a /\ ~reqs[n].returned
        /\ \A i \in 1..Len(reqs) :
              /\ i # n => reqs'[i] = reqs[i]
              /\ reqs'[i].caller = reqs[i].caller
              /\ reqs'[i].type = reqs[i].type
              /\ reqs'[i].conn = reqs[i].conn
    BY ReturnMarks
  <1>2. \A i, j \in 1..Len(reqs) : Alike(i, j)' <=> Alike(i, j)
    BY <1>1 DEF Alike
  <1>3. \A i \in 1..Len(reqs) : Failed(i) => Failed(i)'
    BY <1>1 DEF Failed
  <1> SUFFICES ASSUME NEW i \in 1..Len(reqs), Delivered(i)',
                      reqs'[i].answer # i
               PROVE  /\ reqs'[i].answer < i
                      /\ Alike(i, reqs[i].answer)'
                      /\ \E k \in 1..(i - 1) : Failed(k)' /\ Alike(i, k)'
    BY <1>1 DEF StaleOnlyAfterFailure
  <1>4. PICK d \in 1..Len(reqs) :
            /\ reqs'[i].answer = d /\ d < i /\ Alike(i, d)
            /\ \E k \in 1..(i - 1) : Failed(k) /\ Alike(i, k)
    <2>1. CASE i = n
      <3>1. reqs'[i].answer = a /\ a # 0
        BY <1>1, <2>1 DEF Delivered
      <3> QED
        BY <2>1, <3>1, FoundLate
    <2>2. CASE i # n
      <3>1. reqs'[i] = reqs[i]
        BY <1>1, <2>2
      <3>2. Delivered(i) /\ reqs[i].answer # i
        BY <3>1 DEF Delivered
      <3>3. /\ reqs[i].answer < i /\ Alike(i, reqs[i].answer)
            /\ \E k \in 1..(i - 1) : Failed(k) /\ Alike(i, k)
        BY <3>2 DEF StaleOnlyAfterFailure
      <3>4. reqs[i].answer \in Nat /\ reqs[i].answer # 0
        BY <3>2, EntryParts DEF Delivered, TypeInv, TypeOK
      <3>5. reqs[i].answer \in 1..Len(reqs)
        BY <3>3, <3>4
      <3> QED
        BY <3>1, <3>3, <3>5
    <2> QED
      BY <2>1, <2>2
  <1>5. PICK k \in 1..(i - 1) : Failed(k) /\ Alike(i, k)
    BY <1>4
  <1>6. k \in 1..Len(reqs)
    OBVIOUS
  <1>7. Failed(k)' /\ Alike(i, k)'
    BY <1>2, <1>3, <1>5, <1>6
  <1>8. Alike(i, d)'
    BY <1>2, <1>4
  <1>9. Alike(i, reqs[i].answer)'
    BY <1>4, <1>8 DEF Alike
  <1> QED
    BY <1>4, <1>7, <1>9

LEMMA StaleStep ==
    ASSUME TypesApart, TypeInv, DeliveryInv, HistoryInv, SlotNew,
           StaleOnlyAfterFailure, [Next]_vars
    PROVE  StaleOnlyAfterFailure'
  <1>1. CASE UNCHANGED reqs
    BY <1>1 DEF StaleOnlyAfterFailure, Delivered, Failed, Alike
  <1>2. ASSUME NEW c \in Callers, NEW t \in TypesOf[c], SendMessage(c, t)
        PROVE  StaleOnlyAfterFailure'
    <2> DEFINE e == [caller |-> c, type |-> t, conn |-> conns, answer |-> 0,
                     returned |-> FALSE]
    <2>1. e \in Outcome /\ reqs \in Seq(Outcome) /\ Len(reqs) \in Nat
      BY TypesOfAssumption DEF Outcome, TypeInv, TypeOK
    <2>2. /\ Len(reqs') = Len(reqs) + 1 /\ reqs'[Len(reqs) + 1] = e
          /\ \A i \in 1..Len(reqs) : reqs'[i] = reqs[i]
      BY <1>2, <2>1, SendSeq DEF SendMessage
    <2> SUFFICES ASSUME NEW i \in 1..Len(reqs'), Delivered(i)',
                        reqs'[i].answer # i
                 PROVE  /\ reqs'[i].answer < i
                        /\ Alike(i, reqs[i].answer)'
                        /\ \E k \in 1..(i - 1) : Failed(k)' /\ Alike(i, k)'
      BY DEF StaleOnlyAfterFailure
    <2>3. i \in 1..Len(reqs)
      <3>1. e.answer = 0
        OBVIOUS
      <3>2. i # Len(reqs) + 1
        BY <2>2, <3>1 DEF Delivered
      <3> QED
        BY <2>1, <2>2, <3>2
    <2>4. /\ reqs[i].answer < i /\ Alike(i, reqs[i].answer)
          /\ \E k \in 1..(i - 1) : Failed(k) /\ Alike(i, k)
      BY <2>2, <2>3 DEF StaleOnlyAfterFailure, Delivered
    <2>5. reqs[i].answer \in 1..Len(reqs)
      <3>1. reqs[i].answer \in Nat /\ reqs[i].answer # 0
        BY <2>1, <2>2, <2>3, EntryParts DEF Delivered
      <3> QED
        BY <2>1, <2>3, <2>4, <3>1
    <2>6. Alike(i, reqs[i].answer)'
      BY <2>2, <2>3, <2>4, <2>5 DEF Alike
    <2>7. PICK k \in 1..(i - 1) : Failed(k) /\ Alike(i, k)
      BY <2>4
    <2>8. k \in 1..Len(reqs)
      BY <2>1, <2>3
    <2>9. Failed(k)' /\ Alike(i, k)'
      BY <2>2, <2>3, <2>7, <2>8 DEF Failed, Alike
    <2> QED
      BY <2>2, <2>3, <2>4, <2>6, <2>9
  <1>3. ASSUME NEW c \in Callers, BeginWait(c) \/ Timeout(c)
        PROVE  StaleOnlyAfterFailure'
    BY <1>1, <1>3, StaleReturn DEF BeginWait, Timeout, InCall
  <1>4. ASSUME NEW c \in Callers, Recheck(c) PROVE StaleOnlyAfterFailure'
    <2>1. pc[c] = "check" /\ InCall(c)
      BY <1>4 DEF Recheck, InCall
    <2>2. CASE Return(c, 0)
      BY <2>1, <2>2, StaleReturn
    <2>3. CASE /\ Return(c, pending[CType(c)].data)
               /\ pending[CType(c)].received
      <3>1. InSlot(c)
        BY <2>1, <2>3 DEF InSlot
      <3>2. pending[CType(c)].data \in Nat
        BY <3>1, FoundEntry
      <3> QED
        BY <2>1, <2>3, <3>1, <3>2, StaleReturn
    <2> QED
      BY <1>1, <1>4, <2>2, <2>3 DEF Recheck
  <1> QED
    BY <1>1, <1>2, <1>3, <1>4
    DEF Next, vars, OwnerStep, RecvStep, CallStep, ConnectOk, ConnectFail,
        Disconnect, Destroy, DisconnectFlags, DisconnectNotify,
        DisconnectClose, DisconnectJoin, Destruct, Abort, StartRequest,
        SendFail, SendSigpipe, SpuriousWakeup, RecvTop, RecvPollTimeout,
        RecvHeader, RecvBody, RecvLost, RecvStore, Serve, PeerClose

\* When no two threads share a type, a call is given a response that is not
\* its own only after an earlier call of the thread, of the same type and on
\* the same connection, failed: nothing else makes responses late.
THEOREM LateAfterFailure ==
    ASSUME TypesApart PROVE Spec => []StaleOnlyAfterFailure
  <1> DEFINE Inv == /\ TypeInv /\ DeliveryInv
                    /\ HistoryInv /\ SlotNew /\ StaleOnlyAfterFailure
  <1>1. Init => Inv
    BY TypeInit, DeliveryInit, HistoryInit DEF Init, StaleOnlyAfterFailure
  <1>2. Inv /\ [Next]_vars => Inv'
    BY TypeStep, DeliveryStep, HistoryStep, SlotStep, StaleStep
  <1>3. Inv => StaleOnlyAfterFailure
    OBVIOUS
  <1> HIDE DEF Inv
  <1> QED
    BY <1>1, <1>2, <1>3, PTL DEF Spec

-----------------------------------------------------------------------------
(* The requests of one thread among those sent.                            *)

LEMMA SmallestNumber ==
    ASSUME NEW S \in SUBSET Nat, S # {}
    PROVE  \E n \in S : \A k \in S : n <= k
  <1>1. PICK n \in S : \A k \in S : <<k, n>> \notin OpToRel(<, Nat)
    BY NatLessThanWellFounded, WFMin
  <1>2. \A k \in S : ~(k < n)
    BY <1>1 DEF OpToRel
  <1> QED
    BY <1>2

\* The function that RequestsOf is read off.
UpTo(g, c, rs, first, last) ==
    g = [i \in 0..last |->
            IF i < first THEN <<>>
            ELSE IF rs[i].caller = c THEN Append(g[i - 1], rs[i].type)
            ELSE g[i - 1]]

LEMMA UpToExists ==
    ASSUME NEW c, NEW rs, NEW first \in Nat \ {0}, NEW last \in Nat
    PROVE  \E g : UpTo(g, c, rs, first, last)
  <1> DEFINE B == {n \in Nat : ~\E g : UpTo(g, c, rs, first, n)}
  <1>1. SUFFICES ASSUME B # {} PROVE FALSE
    <2>1. B = {} => last \notin B
      OBVIOUS
    <2> QED
      BY <2>1
  <1>2. PICK n \in B : \A k \in B : n <= k
    <2>1. B \in SUBSET Nat
      OBVIOUS
    <2> HIDE DEF B
    <2> QED
      BY <1>1, <2>1, SmallestNumber
  <1>3. n \in Nat /\ ~\E g : UpTo(g, c, rs, first, n)
    OBVIOUS
  <1>4. n # 0
    <2>1. UpTo([i \in 0..0 |-> <<>>], c, rs, first, 0)
      BY DEF UpTo
    <2> QED
      BY <1>3, <2>1
  <1>5. PICK g : UpTo(g, c, rs, first, n - 1)
    <2>1. n - 1 \in Nat /\ ~(n <= n - 1)
      BY <1>3, <1>4
    <2> QED
      BY <1>2, <2>1
  <1> DEFINE step(i) == IF i < first THEN <<>>
                        ELSE IF rs[i].caller = c
                             THEN Append(g[i - 1], rs[i].type)
                        ELSE g[i - 1]
             h == [i \in 0..n |-> step(i)]
  <1>6. g = [i \in 0..(n - 1) |-> step(i)]
    BY <1>5 DEF UpTo
  <1> HIDE DEF step
  <1>7. \A i \in 0..(n - 1) : h[i] = g[i]
    <2>1. \A i \in 0..(n - 1) : i \in 0..n
      BY <1>3
    <2> QED
      BY <1>6, <2>1
  <1>8. ASSUME NEW i \in 0..n
        PROVE  h[i] = IF i < first THEN <<>>
                      ELSE IF rs[i].caller = c
                           THEN Append(h[i - 1], rs[i].type)
                      ELSE h[i - 1]
    <2>1. CASE i < first
      BY <2>1 DEF step
    <2>2. CASE ~(i < first)
      <3>1. i - 1 \in 0..(n - 1)
        BY <1>3, <2>2
      <3>2. h[i - 1] = g[i - 1]
        BY <1>7, <3>1
      <3>3. h[i] = step(i)
        OBVIOUS
      <3> HIDE DEF h
      <3> QED
        BY <2>2, <3>2, <3>3 DEF step
    <2> QED
      BY <2>1, <2>2
  <1>9. UpTo(h, c, rs, first, n)
    <2>1. h = [i \in 0..n |-> h[i]]
      OBVIOUS
    <2> HIDE DEF h
    <2> QED
      BY <1>8, <2>1 DEF UpTo
  <1> QED
    BY <1>3, <1>9

\* Only the requests up to the last count, and what is the same of them.
LEMMA UpToAgree ==
    ASSUME NEW c, NEW rs, NEW ss, NEW first \in Nat \ {0},
           NEW m \in Nat, NEW n \in Nat, NEW g, NEW h,
           UpTo(g, c, rs, first, m), UpTo(h, c, ss, first, n),
           NEW k \in Nat, k <= m, k <= n,
           \A i \in first..k :
               rs[i].caller = ss[i].caller /\ rs[i].type = ss[i].type
    PROVE  g[k] = h[k]
  <1> DEFINE B == {i \in 0..k : g[i] # h[i]}
  <1>1. SUFFICES ASSUME B # {} PROVE FALSE
    <2>1. B = {} => k \notin B
      OBVIOUS
    <2> QED
      BY <2>1
  <1>2. PICK i \in B : \A j \in B : i <= j
    <2>1. B \in SUBSET Nat
      OBVIOUS
    <2> HIDE DEF B
    <2> QED
      BY <1>1, <2>1, SmallestNumber
  <1>3. i \in 0..k /\ i \in 0..m /\ i \in 0..n /\ g[i] # h[i]
    OBVIOUS
  <1>4. /\ g[i] = IF i < first THEN <<>>
                  ELSE IF rs[i].caller = c THEN Append(g[i - 1], rs[i].type)
                  ELSE g[i - 1]
        /\ h[i] = IF i < first THEN <<>>
                  ELSE IF ss[i].caller = c THEN Append(h[i - 1], ss[i].type)
                  ELSE h[i - 1]
    BY <1>3 DEF UpTo
  <1>5. ~(i < first)
    BY <1>3, <1>4
  <1>6. i - 1 \in 0..k /\ i \in first..k /\ ~(i <= i - 1)
    BY <1>3, <1>5
  <1>7. g[i - 1] = h[i - 1]
    BY <1>2, <1>6
  <1>8. rs[i].caller = ss[i].caller /\ rs[i].type = ss[i].type
    BY <1>6
  <1> HIDE DEF B
  <1> QED
    BY <1>3, <1>4, <1>7, <1>8

LEMMA RequestsUpTo ==
    ASSUME NEW c, NEW rs, NEW first \in Nat \ {0}, NEW last \in Nat
    PROVE  \E g : UpTo(g, c, rs, first, last)
                  /\ RequestsOf(c, rs, first, last) = g[last]
  <1> DEFINE g == CHOOSE h : UpTo(h, c, rs, first, last)
  <1>1. RequestsOf(c, rs, first, last) = g[last]
    BY DEF RequestsOf, UpTo
  <1>2. UpTo(g, c, rs, first, last)
    BY UpToExists
  <1> QED
    BY <1>1, <1>2

\* q with request r when it is of caller c; the requests of c in <<r>>.
WithRequest(q, c, r) == IF r.caller = c THEN Append(q, r.type) ELSE q
OneRequest(c, r) == IF r.caller = c THEN <<r.type>> ELSE <<>>

\* What RequestsOf returns: nothing, or the last request after the others.
LEMMA NoRequests ==
    ASSUME NEW c, NEW rs, NEW first \in Nat \ {0}, NEW last \in Nat,
           last < first
    PROVE  RequestsOf(c, rs, first, last) = <<>>
  <1>1. PICK g : UpTo(g, c, rs, first, last)
                 /\ RequestsOf(c, rs, first, last) = g[last]
    BY RequestsUpTo
  <1> QED
    BY <1>1 DEF UpTo

LEMMA LastRequest ==
    ASSUME NEW c, NEW rs, NEW first \in Nat \ {0}, NEW last \in Nat,
           first <= last
    PROVE  RequestsOf(c, rs, first, last)
               = WithRequest(RequestsOf(c, rs, first, last - 1), c, rs[last])
  <1>0. last - 1 \in Nat
    OBVIOUS
  <1>1. PICK g : UpTo(g, c, rs, first, last)
                 /\ RequestsOf(c, rs, first, last) = g[last]
    BY RequestsUpTo
  <1>2. PICK h : UpTo(h, c, rs, first, last - 1)
                 /\ RequestsOf(c, rs, first, last - 1) = h[last - 1]
    BY <1>0, RequestsUpTo
  <1>3. h[last - 1] = g[last - 1]
    BY <1>0, <1>1, <1>2, UpToAgree
  <1>4. g[last] = WithRequest(g[last - 1], c, rs[last])
    <2>1. last \in 0..last /\ ~(last < first)
      OBVIOUS
    <2> QED
      BY <1>1, <2>1 DEF UpTo, WithRequest
  <1> QED
    BY <1>1, <1>2, <1>3, <1>4

\* The outcomes of the requests do not matter.
LEMMA SameRequests ==
    ASSUME NEW c, NEW rs, NEW ss, NEW first \in Nat \ {0}, NEW last \in Nat,
           \A i \in first..last :
               rs[i].caller = ss[i].caller /\ rs[i].type = ss[i].type
    PROVE  RequestsOf(c, rs, first, last) = RequestsOf(c, ss, first, last)
  <1>1. PICK g : UpTo(g, c, rs, first, last)
                 /\ RequestsOf(c, rs, first, last) = g[last]
    BY RequestsUpTo
  <1>2. PICK h : UpTo(h, c, ss, first, last)
                 /\ RequestsOf(c, ss, first, last) = h[last]
    BY RequestsUpTo
  <1> QED
    BY <1>1, <1>2, UpToAgree

LEMMA RequestsType ==
    ASSUME NEW c, NEW rs \in Seq(Outcome), NEW first \in Nat \ {0},
           NEW last \in 0..Len(rs), first <= last + 1
    PROVE  /\ RequestsOf(c, rs, first, last) \in Seq(Types)
           /\ Len(RequestsOf(c, rs, first, last)) <= last - first + 1
  <1> DEFINE R(n) == RequestsOf(c, rs, first, n)
             Good(n) == R(n) \in Seq(Types) /\ Len(R(n)) <= n - first + 1
             B == {n \in Nat : n <= Len(rs) /\ first <= n + 1 /\ ~Good(n)}
  <1>0. Len(rs) \in Nat /\ last \in Nat /\ last <= Len(rs)
    OBVIOUS
  <1> HIDE DEF R
  <1>1. SUFFICES ASSUME B # {} PROVE FALSE
    <2>1. B = {} => Good(last)
      BY <1>0
    <2> QED
      BY <2>1 DEF R
  <1>2. PICK n \in B : \A k \in B : n <= k
    <2>1. B \in SUBSET Nat
      OBVIOUS
    <2> HIDE DEF B
    <2> QED
      BY <1>1, <2>1, SmallestNumber
  <1>3. n \in Nat /\ n <= Len(rs) /\ first <= n + 1 /\ ~Good(n)
    OBVIOUS
  <1>4. CASE n < first
    <2>1. R(n) = <<>>
      BY <1>3, <1>4, NoRequests DEF R
    <2>2. <<>> \in Seq(Types) /\ Len(<<>>) = 0
      BY EmptySeq
    <2>3. 0 <= n - first + 1
      BY <1>3
    <2> QED
      BY <1>3, <2>1, <2>2, <2>3
  <1>5. CASE first <= n
    <2>1. n - 1 \in Nat /\ n - 1 <= Len(rs) /\ first <= n - 1 + 1
          /\ ~(n <= n - 1)
      BY <1>0, <1>3, <1>5
    <2>2. Good(n - 1)
      BY <1>2, <2>1
    <2>3. R(n) = WithRequest(R(n - 1), c, rs[n])
      BY <1>3, <1>5, LastRequest DEF R
    <2>4. rs[n].type \in Types
      <3>1. n \in 1..Len(rs)
        BY <1>0, <1>3, <1>5
      <3> QED
        BY <3>1, EntryParts
    <2>5. PICK l \in Seq(Types) : l = R(n - 1)
      BY <2>2
    <2>6. PICK m \in Nat : m = Len(l)
      BY LenProperties
    <2>7. m <= n - 1 - first + 1
      BY <2>2, <2>5, <2>6
    <2>8. /\ Append(l, rs[n].type) \in Seq(Types)
          /\ Len(Append(l, rs[n].type)) = m + 1
      BY <2>4, <2>6, AppendProperties
    <2>9. m + 1 <= n - first + 1 /\ m <= n - first + 1
      BY <1>3, <2>7
    <2> QED
      BY <1>3, <2>3, <2>5, <2>6, <2>8, <2>9 DEF WithRequest
  <1> QED
    BY <1>3, <1>4, <1>5

LEMMA ConcatAppend ==
    ASSUME NEW s \in Seq(Types), NEW r \in Seq(Types), NEW t \in Types
    PROVE  s \o Append(r, t) = Append(s \o r, t)
  <1>0. <<t>> \in Seq(Types)
    OBVIOUS
  <1>1. PICK y \in Seq(Types) : y = <<t>>
    BY <1>0
  <1>2. s \o r \in Seq(Types)
    BY ConcatProperties
  <1>3. Append(r, t) = r \o y /\ Append(s \o r, t) = (s \o r) \o y
    BY <1>1, <1>2, AppendIsConcat
  <1>4. (s \o r) \o y = s \o (r \o y)
    BY <1>1, ConcatAssociative
  <1> QED
    BY <1>3, <1>4

\* The first request before the others.
LEMMA FirstRequest ==
    ASSUME NEW c, NEW rs \in Seq(Outcome), NEW first \in Nat \ {0},
           NEW last \in 0..Len(rs), first <= last
    PROVE  RequestsOf(c, rs, first, last)
               = OneRequest(c, rs[first]) \o RequestsOf(c, rs, first + 1, last)
  <1> DEFINE F == OneRequest(c, rs[first])
             R(n) == RequestsOf(c, rs, first, n)
             S(n) == RequestsOf(c, rs, first + 1, n)
             Good(n) == R(n) = F \o S(n)
             B == {n \in Nat : n <= Len(rs) /\ first <= n /\ ~Good(n)}
  <1>0. /\ Len(rs) \in Nat /\ last \in Nat /\ last <= Len(rs)
        /\ first \in 1..Len(rs) /\ first + 1 \in Nat \ {0}
    OBVIOUS
  <1>1. F \in Seq(Types) /\ <<>> \in Seq(Types)
    <2>1. rs[first].type \in Types
      BY <1>0, EntryParts
    <2>2. <<rs[first].type>> \in Seq(Types) /\ <<>> \in Seq(Types)
      BY <2>1, EmptySeq
    <2> QED
      BY <2>2 DEF OneRequest
  <1> HIDE DEF R, S, F
  <1>2. SUFFICES ASSUME B # {} PROVE FALSE
    <2>1. B = {} => Good(last)
      BY <1>0
    <2> QED
      BY <2>1 DEF R, S, F
  <1>3. PICK n \in B : \A k \in B : n <= k
    <2>1. B \in SUBSET Nat
      OBVIOUS
    <2> HIDE DEF B
    <2> QED
      BY <1>2, <2>1, SmallestNumber
  <1>4. n \in Nat /\ n <= Len(rs) /\ first <= n /\ ~Good(n)
    OBVIOUS
  <1>5. R(n) = WithRequest(R(n - 1), c, rs[n])
    BY <1>4, LastRequest DEF R
  <1>6. n - 1 \in Nat /\ n \in 1..Len(rs)
    BY <1>0, <1>4
  <1>7. CASE n = first
    <2>1. R(n - 1) = <<>>
      BY <1>4, <1>6, <1>7, NoRequests DEF R
    <2>2. S(n) = <<>>
      BY <1>0, <1>4, <1>7, NoRequests DEF S
    <2>3. F \o <<>> = F
      BY <1>1, ConcatEmptySeq
    <2>4. R(n) = F
      <3>1. Append(<<>>, rs[n].type) = <<rs[n].type>>
        OBVIOUS
      <3> QED
        BY <1>5, <1>7, <2>1, <3>1 DEF F, WithRequest, OneRequest
    <2> QED
      BY <1>4, <2>2, <2>3, <2>4
  <1>8. CASE n # first
    <2>1. n - 1 <= Len(rs) /\ first <= n - 1 /\ ~(n <= n - 1)
          /\ first + 1 <= n
      BY <1>0, <1>4, <1>8
    <2>2. R(n - 1) = F \o S(n - 1)
      BY <1>3, <1>6, <2>1
    <2>3. S(n) = WithRequest(S(n - 1), c, rs[n])
      BY <1>0, <1>4, <2>1, LastRequest DEF S
    <2>4. S(n - 1) \in Seq(Types)
      <3>1. n - 1 \in 0..Len(rs) /\ first + 1 <= n - 1 + 1
        BY <1>0, <1>6, <2>1
      <3> QED
        BY <1>0, <3>1, RequestsType DEF S
    <2>5. rs[n].type \in Types
      BY <1>6, EntryParts
    <2>6. PICK x \in Types : x = rs[n].type
      BY <2>5
    <2>7. PICK a \in Seq(Types) : a = F
      BY <1>1
    <2>8. PICK b \in Seq(Types) : b = S(n - 1)
      BY <2>4
    <2>9. Append(a \o b, x) = a \o Append(b, x)
      BY <2>6, <2>7, <2>8, ConcatAppend
    <2> QED
      BY <1>4, <1>5, <2>2, <2>3, <2>6, <2>7, <2>8, <2>9 DEF WithRequest
  <1> QED
    BY <1>7, <1>8

-----------------------------------------------------------------------------
(* Requests and responses as records that hold a type.                     *)

\* f of every element of s.
Image(f, s) == [i \in 1..Len(s) |-> f[s[i]]]

LEMMA ImageType ==
    ASSUME NEW T, NEW f \in [Types -> T], NEW s \in Seq(Types)
    PROVE  /\ Image(f, s) \in Seq(T) /\ Len(Image(f, s)) = Len(s)
           /\ \A i \in 1..Len(s) : Image(f, s)[i] = f[s[i]]
  <1>1. Len(s) \in Nat /\ \A i \in 1..Len(s) : s[i] \in Types
    BY LenProperties
  <1>2. \A i \in 1..Len(s) : f[s[i]] \in T
    BY <1>1
  <1> QED
    BY <1>1, <1>2, IsASeq DEF Image

LEMMA ImageAppend ==
    ASSUME NEW T, NEW f \in [Types -> T], NEW s \in Seq(Types), NEW t \in Types
    PROVE  Image(f, Append(s, t)) = Append(Image(f, s), f[t])
  <1> DEFINE r == Append(s, t)
  <1>1. PICK n \in Nat : n = Len(s)
    BY LenProperties
  <1>2. /\ r \in Seq(Types) /\ Len(r) = n + 1 /\ r[n + 1] = t
        /\ \A i \in 1..n : r[i] = s[i]
    BY <1>1, AppendProperties
  <1>3. /\ Image(f, s) \in Seq(T) /\ Len(Image(f, s)) = n
        /\ \A i \in 1..n : Image(f, s)[i] = f[s[i]]
    BY ZenonT(40), <1>1, ImageType
  <1> HIDE DEF r
  <1>4. /\ Image(f, r) \in Seq(T) /\ Len(Image(f, r)) = n + 1
        /\ \A i \in 1..(n + 1) : Image(f, r)[i] = f[r[i]]
    <2>1. PICK q \in Seq(Types) : q = r
      BY <1>2
    <2>2. /\ Image(f, q) \in Seq(T) /\ Len(Image(f, q)) = Len(q)
          /\ \A i \in 1..Len(q) : Image(f, q)[i] = f[q[i]]
      BY ZenonT(40), <2>1, ImageType
    <2> QED
      BY <1>2, <2>1, <2>2
  <1>5. PICK x \in Seq(T) : x = Image(f, s)
    BY <1>3
  <1>6. f[t] \in T
    OBVIOUS
  <1>7. /\ Append(x, f[t]) \in Seq(T) /\ Len(Append(x, f[t])) = n + 1
        /\ Append(x, f[t])[n + 1] = f[t]
        /\ \A i \in 1..n : Append(x, f[t])[i] = x[i]
    BY <1>3, <1>5, <1>6, AppendProperties
  <1>8. PICK y \in Seq(T) : y = Append(x, f[t])
    BY <1>7
  <1>9. PICK z \in Seq(T) : z = Image(f, r)
    BY <1>4
  <1>10. \A i \in 1..(n + 1) : i \in 1..n \/ i = n + 1
    BY <1>1
  <1>11. \A i \in 1..(n + 1) : z[i] = y[i]
    BY <1>2, <1>3, <1>4, <1>5, <1>7, <1>8, <1>9, <1>10
  <1>12. z = y
    BY <1>4, <1>7, <1>8, <1>9, <1>11, SeqEqual
  <1> QED
    BY <1>5, <1>8, <1>9, <1>12 DEF r

LEMMA ImageTail ==
    ASSUME NEW T, NEW f \in [Types -> T], NEW s \in Seq(Types), s # <<>>
    PROVE  /\ Image(f, s) # <<>>
           /\ Head(Image(f, s)) = f[Head(s)]
           /\ Tail(Image(f, s)) = Image(f, Tail(s))
  <1>1. PICK n \in Nat : n = Len(s) /\ n # 0
    BY LenProperties, EmptySeq
  <1>2. /\ Image(f, s) \in Seq(T) /\ Len(Image(f, s)) = n
        /\ \A i \in 1..n : Image(f, s)[i] = f[s[i]]
    BY ZenonT(40), <1>1, ImageType
  <1>3. PICK x \in Seq(T) : x = Image(f, s)
    BY <1>2
  <1>4. x # <<>>
    BY <1>1, <1>2, <1>3, EmptySeq
  <1>5. Head(x) = x[1] /\ Head(s) = s[1]
    BY <1>4
  <1>6. /\ Tail(s) \in Seq(Types) /\ Len(Tail(s)) = n - 1
        /\ \A i \in 1..(n - 1) : Tail(s)[i] = s[i + 1]
    BY <1>1, HeadTailProperties
  <1>7. /\ Tail(x) \in Seq(T) /\ Len(Tail(x)) = n - 1
        /\ \A i \in 1..(n - 1) : Tail(x)[i] = x[i + 1]
    BY <1>1, <1>2, <1>3, <1>4, HeadTailProperties
  <1>8. PICK r \in Seq(Types) : r = Tail(s)
    BY <1>6
  <1>9. /\ Image(f, r) \in Seq(T) /\ Len(Image(f, r)) = n - 1
        /\ \A i \in 1..(n - 1) : Image(f, r)[i] = f[r[i]]
    <2>1. /\ Image(f, r) \in Seq(T) /\ Len(Image(f, r)) = Len(r)
          /\ \A i \in 1..Len(r) : Image(f, r)[i] = f[r[i]]
      BY ZenonT(40), <1>8, ImageType
    <2> QED
      BY <1>6, <1>8, <2>1
  <1>10. \A i \in 1..(n - 1) : i + 1 \in 1..n
    BY <1>1
  <1>11. \A i \in 1..(n - 1) : Tail(x)[i] = Image(f, r)[i]
    BY <1>2, <1>3, <1>6, <1>7, <1>8, <1>9, <1>10
  <1>12. Tail(x) = Image(f, r)
    <2>1. PICK y \in Seq(T) : y = Tail(x)
      BY <1>7
    <2>2. PICK z \in Seq(T) : z = Image(f, r)
      BY <1>9
    <2> QED
      BY <1>7, <1>9, <1>11, <2>1, <2>2, SeqEqual
  <1>13. 1 \in 1..n
    BY <1>1
  <1> QED
    BY <1>2, <1>3, <1>4, <1>5, <1>8, <1>12, <1>13

LEMMA ImageConcat ==
    ASSUME NEW T, NEW f \in [Types -> T],
           NEW s \in Seq(Types), NEW r \in Seq(Types)
    PROVE  Image(f, s \o r) = Image(f, s) \o Image(f, r)
  <1>1. PICK n \in Nat : n = Len(s)
    BY LenProperties
  <1>2. PICK m \in Nat : m = Len(r)
    BY LenProperties
  <1>3. /\ s \o r \in Seq(Types) /\ Len(s \o r) = n + m
        /\ \A i \in 1..(n + m) :
              (s \o r)[i] = IF i <= n THEN s[i] ELSE r[i - n]
    BY <1>1, <1>2, ConcatProperties
  <1>4. PICK q \in Seq(Types) : q = s \o r
    BY <1>3
  <1>5. /\ Image(f, q) \in Seq(T) /\ Len(Image(f, q)) = n + m
        /\ \A i \in 1..(n + m) : Image(f, q)[i] = f[q[i]]
    <2>1. /\ Image(f, q) \in Seq(T) /\ Len(Image(f, q)) = Len(q)
          /\ \A i \in 1..Len(q) : Image(f, q)[i] = f[q[i]]
      BY ZenonT(40), <1>4, ImageType
    <2> QED
      BY <1>3, <1>4, <2>1
  <1>6. PICK x \in Seq(T) : /\ x = Image(f, s) /\ Len(x) = n
                            /\ \A i \in 1..n : x[i] = f[s[i]]
    <2>1. /\ Image(f, s) \in Seq(T) /\ Len(Image(f, s)) = Len(s)
          /\ \A i \in 1..Len(s) : Image(f, s)[i] = f[s[i]]
      BY ZenonT(40), ImageType
    <2> QED
      BY <1>1, <2>1
  <1>7. PICK y \in Seq(T) : /\ y = Image(f, r) /\ Len(y) = m
                            /\ \A i \in 1..m : y[i] = f[r[i]]
    <2>1. /\ Image(f, r) \in Seq(T) /\ Len(Image(f, r)) = Len(r)
          /\ \A i \in 1..Len(r) : Image(f, r)[i] = f[r[i]]
      BY ZenonT(40), ImageType
    <2> QED
      BY <1>2, <2>1
  <1>8. /\ x \o y \in Seq(T) /\ Len(x \o y) = n + m
        /\ \A i \in 1..(n + m) :
              (x \o y)[i] = IF i <= n THEN x[i] ELSE y[i - n]
    <2>1. /\ x \o y \in Seq(T) /\ Len(x \o y) = Len(x) + Len(y)
          /\ \A i \in 1..(Len(x) + Len(y)) :
                (x \o y)[i] = IF i <= Len(x) THEN x[i] ELSE y[i - Len(x)]
      <3>1. x \in Seq(T) /\ y \in Seq(T)
        BY <1>6, <1>7
      <3> QED
        BY <3>1, ConcatProperties
    <2> QED
      BY <1>6, <1>7, <2>1
  <1>9. \A i \in 1..(n + m) : IF i <= n THEN i \in 1..n ELSE i - n \in 1..m
    BY <1>1, <1>2
  <1>10. ASSUME NEW i \in 1..(n + m) PROVE Image(f, q)[i] = (x \o y)[i]
    <2>1. Image(f, q)[i] = f[q[i]] /\ q[i] = IF i <= n THEN s[i] ELSE r[i - n]
      BY <1>3, <1>4, <1>5
    <2>2. (x \o y)[i] = IF i <= n THEN x[i] ELSE y[i - n]
      BY <1>8
    <2>3. CASE i <= n
      <3>1. x[i] = f[s[i]]
        BY <1>6, <1>9, <2>3
      <3> QED
        BY <2>1, <2>2, <2>3, <3>1
    <2>4. CASE ~(i <= n)
      <3>1. y[i - n] = f[r[i - n]]
        BY <1>7, <1>9, <2>4
      <3> QED
        BY <2>1, <2>2, <2>4, <3>1
    <2> QED
      BY <2>3, <2>4
  <1>11. Image(f, q) = x \o y
    <2>1. PICK u \in Seq(T) : u = Image(f, q)
      BY <1>5
    <2>2. PICK v \in Seq(T) : v = x \o y
      BY <1>8
    <2> QED
      BY <1>5, <1>8, <1>10, <2>1, <2>2, SeqEqual
  <1> QED
    BY <1>4, <1>6, <1>7, <1>11

\* A run of responses that follow each other is gone.
Dropped(xs, ys) ==
    \E n \in 0..Len(xs) : \E m \in n..Len(xs) :
        ys = SubSeq(xs, 1, n) \o SubSeq(xs, m + 1, Len(xs))

\* What stands between two others can be dropped.
LEMMA DropMiddle ==
    ASSUME NEW T, NEW x \in Seq(T), NEW y \in Seq(T), NEW z \in Seq(T)
    PROVE  Dropped(x \o (y \o z), x \o z)
  <1>1. PICK i \in Nat : i = Len(x)
    BY LenProperties
  <1>2. PICK j \in Nat : j = Len(y)
    BY LenProperties
  <1>3. PICK k \in Nat : k = Len(z)
    BY LenProperties
  <1>4. PICK w \in Seq(T) :
            /\ w = y \o z /\ Len(w) = j + k
            /\ \A l \in 1..(j + k) :
                  w[l] = IF l <= j THEN y[l] ELSE z[l - j]
    <2>1. /\ y \o z \in Seq(T) /\ Len(y \o z) = Len(y) + Len(z)
          /\ \A l \in 1..(Len(y) + Len(z)) :
                (y \o z)[l] = IF l <= Len(y) THEN y[l] ELSE z[l - Len(y)]
      BY ConcatProperties
    <2> QED
      BY <1>2, <1>3, <2>1
  <1>5. PICK a \in Seq(T) :
            /\ a = x \o w /\ Len(a) = i + (j + k)
            /\ \A l \in 1..(i + (j + k)) :
                  a[l] = IF l <= i THEN x[l] ELSE w[l - i]
    <2>1. /\ x \o w \in Seq(T) /\ Len(x \o w) = Len(x) + Len(w)
          /\ \A l \in 1..(Len(x) + Len(w)) :
                (x \o w)[l] = IF l <= Len(x) THEN x[l] ELSE w[l - Len(x)]
      BY <1>4, ConcatProperties
    <2>2. /\ x \o w \in Seq(T) /\ Len(x \o w) = i + (j + k)
          /\ \A l \in 1..(i + (j + k)) :
                (x \o w)[l] = IF l <= i THEN x[l] ELSE w[l - i]
      BY SMTT(30), <1>1, <1>4, <2>1
    <2> QED
      BY ZenonT(40), <2>2
  <1>6. SubSeq(a, 1, i) = x
    <2>1. \A l \in 1..i : l \in 1..(i + (j + k)) /\ l <= i
      BY <1>1, <1>2, <1>3
    <2>2. \A l \in 1..i : a[l] = x[l] /\ x[l] \in T
      BY <1>1, <1>5, <2>1
    <2>3. /\ SubSeq(a, 1, i) \in Seq(T) /\ Len(SubSeq(a, 1, i)) = i
          /\ \A l \in 1..i : SubSeq(a, 1, i)[l] = a[l]
      <3>1. \A l \in 1..i : a[l] \in T
        BY <2>2
      <3>2. /\ SubSeq(a, 1, i) \in Seq(T)
            /\ Len(SubSeq(a, 1, i)) = IF 1 <= i THEN i - 1 + 1 ELSE 0
            /\ \A l \in 1..(i - 1 + 1) : SubSeq(a, 1, i)[l] = a[1 + l - 1]
        BY <1>1, <3>1, SubSeqProperties
      <3>3. i - 1 + 1 = i /\ \A l \in 1..i : 1 + l - 1 = l
        BY <1>1
      <3> QED
        BY <1>1, <3>2, <3>3
    <2>4. PICK b \in Seq(T) : b = SubSeq(a, 1, i)
      BY <2>3
    <2> QED
      BY <1>1, <2>2, <2>3, <2>4, SeqEqual
  <1>7. SubSeq(a, i + j + 1, i + (j + k)) = z
    <2>1. \A l \in 1..k : /\ i + j + 1 + l - 1 \in 1..(i + (j + k))
                          /\ ~(i + j + 1 + l - 1 <= i)
                          /\ i + j + 1 + l - 1 - i \in 1..(j + k)
                          /\ ~(i + j + 1 + l - 1 - i <= j)
                          /\ i + j + 1 + l - 1 - i - j = l
      BY <1>1, <1>2, <1>3
    <2>2. ASSUME NEW l \in 1..k PROVE a[i + j + 1 + l - 1] = z[l]
      <3>0. i + j + 1 + l - 1 \in Int /\ i + j + 1 + l - 1 - i \in Int
        BY <1>1, <1>2, <1>3
      <3>1. PICK g \in Int : g = i + j + 1 + l - 1
        BY <3>0
      <3>2. PICK h \in Int : h = g - i
        BY <3>0, <3>1
      <3>3. /\ g \in 1..(i + (j + k)) /\ ~(g <= i)
            /\ h \in 1..(j + k) /\ ~(h <= j) /\ h - j = l
        BY <2>1, <3>1, <3>2
      <3>4. a[g] = w[h]
        BY <1>5, <3>2, <3>3
      <3>5. w[h] = z[l]
        BY <1>4, <3>3
      <3> QED
        BY <3>1, <3>4, <3>5
    <2>3. \A l \in (i + j + 1)..(i + (j + k)) : a[l] \in T
      <3>1. \A l \in (i + j + 1)..(i + (j + k)) : l \in 1..(i + (j + k))
        BY <1>1, <1>2, <1>3
      <3> QED
        BY SMTT(30), <1>5, <3>1
    <2>4. /\ i + j + 1 \in Int /\ i + (j + k) \in Int
          /\ i + (j + k) - (i + j + 1) + 1 = k
          /\ (IF i + j + 1 <= i + (j + k) THEN k ELSE 0) = k
      BY <1>1, <1>2, <1>3
    <2>5. PICK p \in Int : p = i + j + 1
      BY <2>4
    <2>6. PICK q \in Int : q = i + (j + k)
      BY <2>4
    <2>7. /\ SubSeq(a, p, q) \in Seq(T)
          /\ Len(SubSeq(a, p, q)) = IF p <= q THEN q - p + 1 ELSE 0
          /\ \A l \in 1..(q - p + 1) : SubSeq(a, p, q)[l] = a[p + l - 1]
      BY <2>3, <2>5, <2>6, SubSeqProperties
    <2>8. PICK b \in Seq(T) : b = SubSeq(a, p, q)
      BY <2>7
    <2>9. Len(b) = k /\ \A l \in 1..k : b[l] = z[l]
      BY <2>2, <2>4, <2>5, <2>6, <2>7, <2>8
    <2>10. b = z
      BY <1>3, <2>8, <2>9, SeqEqual
    <2> QED
      BY <2>5, <2>6, <2>8, <2>10
  <1>8. i \in 0..(i + (j + k)) /\ i + j \in i..(i + (j + k))
    BY <1>1, <1>2, <1>3
  <1>9. Dropped(a, x \o z)
    BY <1>5, <1>6, <1>7, <1>8 DEF Dropped
  <1> QED
    BY <1>4, <1>5, <1>9

\* The steps of a line in terms of the types: of the call, of the requests
\* the server has not answered, of the responses on their way.
LineMove(k, w, a, k2, w2, a2) ==
    \/ k2 = k /\ w2 = w /\ a2 = a
    \/ /\ k = "none" /\ k2 \in Types
       /\ Len(w) + Len(a) < MaxRequests
       /\ w2 = Append(w, k2) /\ a2 = a
    \/ /\ w # <<>> /\ k2 = k
       /\ w2 = Tail(w) /\ a2 = Append(a, Head(w))
    \/ /\ k # "none" /\ a # <<>> /\ Head(a) = k
       /\ k2 = "none" /\ w2 = w /\ a2 = Tail(a)
    \/ /\ k2 \in {k, "none"} /\ w2 \in {w, <<>>}
       /\ Dropped(a, a2)

Ops == Types \cup {"none"}
AsCall == [t \in Ops |-> [op |-> t, arg |-> <<>>]]
AsRequest == [t \in Types |-> [op |-> t, arg |-> <<>>]]
AsResponse == [t \in Types |-> [op |-> t]]

\* The same steps, of records.
RecordMove(k, w, a, k2, w2, a2) ==
    \/ k2 = k /\ w2 = w /\ a2 = a
    \/ /\ k = [op |-> "none", arg |-> <<>>]
       /\ k2 \in [op : Types, arg : {<<>>}]
       /\ Len(w) + Len(a) < MaxRequests
       /\ w2 = Append(w, k2) /\ a2 = a
    \/ /\ w # <<>> /\ k2 = k
       /\ w2 = Tail(w) /\ a2 = Append(a, [op |-> Head(w).op])
    \/ /\ k # [op |-> "none", arg |-> <<>>]
       /\ a # <<>> /\ Head(a).op = k.op
       /\ k2 = [op |-> "none", arg |-> <<>>] /\ w2 = w /\ a2 = Tail(a)
    \/ /\ k2 \in {k, [op |-> "none", arg |-> <<>>]}
       /\ \E n \in 0..Len(w) : w2 = SubSeq(w, 1, n)
       /\ Dropped(a, a2)

LEMMA ImageDropped ==
    ASSUME NEW T, NEW f \in [Types -> T], NEW a \in Seq(Types), NEW b,
           Dropped(a, b)
    PROVE  Dropped(Image(f, a), Image(f, b))
  <1>1. PICK l \in Nat : l = Len(a)
    BY LenProperties
  <1>2. PICK n \in 0..l : \E m \in n..l :
            b = SubSeq(a, 1, n) \o SubSeq(a, m + 1, l)
    BY <1>1 DEF Dropped
  <1>11. PICK m \in n..l : b = SubSeq(a, 1, n) \o SubSeq(a, m + 1, l)
    BY <1>2
  <1>3. /\ n \in Nat /\ m \in Nat /\ n <= m /\ m <= l
        /\ \A i \in 1..n : i \in 1..l
        /\ \A i \in (m + 1)..l : i \in 1..l
        /\ l \in Int /\ n \in Int /\ m + 1 \in Int /\ 1 \in Int
    BY <1>1, <1>2, <1>11
  <1>4. PICK p \in Int : p = m + 1
    BY <1>3
  <1>5. \A i \in 1..l : a[i] \in Types
    BY <1>1
  <1>6. ASSUME NEW i \in Int, NEW j \in Int,
               \A q \in i..j : q \in 1..l
        PROVE  /\ SubSeq(a, i, j) \in Seq(Types)
               /\ Image(f, SubSeq(a, i, j)) = SubSeq(Image(f, a), i, j)
    <2>1. \A q \in i..j : a[q] \in Types
      BY <1>5, <1>6
    <2>2. /\ SubSeq(a, i, j) \in Seq(Types)
          /\ Len(SubSeq(a, i, j)) = IF i <= j THEN j - i + 1 ELSE 0
          /\ \A q \in 1..(j - i + 1) : SubSeq(a, i, j)[q] = a[i + q - 1]
      BY <2>1, SubSeqProperties
    <2>3. /\ Image(f, a) \in Seq(T) /\ Len(Image(f, a)) = l
          /\ \A q \in 1..l : Image(f, a)[q] = f[a[q]]
      <3>1. /\ Image(f, a) \in Seq(T) /\ Len(Image(f, a)) = Len(a)
            /\ \A q \in 1..Len(a) : Image(f, a)[q] = f[a[q]]
        BY ZenonT(40), ImageType
      <3> QED
        BY <1>1, <3>1
    <2>4. PICK x \in Seq(T) : x = Image(f, a)
      BY <2>3
    <2>5. \A q \in i..j : x[q] \in T
      <3>1. \A q \in i..j : f[a[q]] \in T
        BY <2>1
      <3> QED
        BY <1>6, <2>3, <2>4, <3>1
    <2>6. /\ SubSeq(x, i, j) \in Seq(T)
          /\ Len(SubSeq(x, i, j)) = IF i <= j THEN j - i + 1 ELSE 0
          /\ \A q \in 1..(j - i + 1) : SubSeq(x, i, j)[q] = x[i + q - 1]
      BY <2>5, SubSeqProperties
    <2>7. PICK y \in Seq(Types) : y = SubSeq(a, i, j)
      BY <2>2
    <2>8. /\ Image(f, y) \in Seq(T) /\ Len(Image(f, y)) = Len(y)
          /\ \A q \in 1..Len(y) : Image(f, y)[q] = f[y[q]]
      BY ZenonT(40), <2>7, ImageType
    <2>9. PICK u \in Seq(T) : u = Image(f, y)
      BY <2>8
    <2>10. PICK v \in Seq(T) : v = SubSeq(x, i, j)
      BY <2>6
    <2>11. Len(u) = Len(v)
      BY <2>2, <2>6, <2>7, <2>8, <2>9, <2>10
    <2>12. ASSUME NEW q \in 1..Len(u) PROVE u[q] = v[q]
      <3>1. PICK z \in Nat : z = Len(u)
        BY <2>9, LenProperties
      <3>2. z = IF i <= j THEN j - i + 1 ELSE 0
        BY <2>6, <2>10, <2>11, <3>1
      <3>3. q \in 1..(j - i + 1) /\ i + q - 1 \in i..j
        BY <3>1, <3>2
      <3>4. u[q] = f[a[i + q - 1]]
        BY <2>2, <2>7, <2>8, <2>9, <3>3
      <3>5. v[q] = x[i + q - 1]
        BY <2>6, <2>10, <3>3
      <3> QED
        BY <1>6, <2>3, <2>4, <3>3, <3>4, <3>5
    <2>13. u = v
      BY <2>9, <2>10, <2>11, <2>12, SeqEqual
    <2> QED
      BY <2>2, <2>4, <2>7, <2>9, <2>10, <2>13
  <1>7. /\ SubSeq(a, 1, n) \in Seq(Types)
        /\ Image(f, SubSeq(a, 1, n)) = SubSeq(Image(f, a), 1, n)
    BY <1>3, <1>6
  <1>8. /\ SubSeq(a, p, l) \in Seq(Types)
        /\ Image(f, SubSeq(a, p, l)) = SubSeq(Image(f, a), p, l)
    BY <1>3, <1>4, <1>6
  <1>9. Image(f, b) = SubSeq(Image(f, a), 1, n) \o SubSeq(Image(f, a), p, l)
    <2>1. PICK y \in Seq(Types) : y = SubSeq(a, 1, n)
      BY <1>7
    <2>2. PICK z \in Seq(Types) : z = SubSeq(a, p, l)
      BY <1>8
    <2>3. Image(f, y \o z) = Image(f, y) \o Image(f, z)
      BY <2>1, <2>2, ImageConcat
    <2> QED
      BY <1>4, <1>7, <1>8, <1>11, <2>1, <2>2, <2>3
  <1>10. Len(Image(f, a)) = l
    BY ZenonT(40), <1>1, ImageType
  <1> QED
    BY <1>2, <1>11, <1>4, <1>9, <1>10 DEF Dropped

LEMMA RecordsMove ==
    ASSUME NEW k \in Ops, NEW w \in Seq(Types), NEW a \in Seq(Types),
           NEW k2, NEW w2, NEW a2,
           LineMove(k, w, a, k2, w2, a2)
    PROVE  RecordMove(AsCall[k], Image(AsRequest, w), Image(AsResponse, a),
                      AsCall[k2], Image(AsRequest, w2), Image(AsResponse, a2))
  <1> DEFINE Q == [op : Types, arg : {<<>>}]
             P == [op : Types]
  <1>1. AsRequest \in [Types -> Q] /\ AsResponse \in [Types -> P]
    BY DEF AsRequest, AsResponse
  <1>2. /\ Len(Image(AsRequest, w)) = Len(w)
        /\ Len(Image(AsResponse, a)) = Len(a)
    BY ZenonT(40), <1>1, ImageType
  <1>3. /\ AsCall["none"] = [op |-> "none", arg |-> <<>>]
        /\ \A t \in Types : AsCall[t] = AsRequest[t] /\ AsCall[t] \in Q
        /\ \A t \in Ops : AsCall[t].op = t
        /\ \A t \in Types : AsRequest[t].op = t /\ AsResponse[t].op = t
                            /\ AsResponse[t] = [op |-> t]
    BY DEF AsCall, AsRequest, AsResponse, Ops
  <1>4. CASE k2 = k /\ w2 = w /\ a2 = a
    BY <1>4 DEF RecordMove
  <1>5. CASE /\ k = "none" /\ k2 \in Types
             /\ Len(w) + Len(a) < MaxRequests
             /\ w2 = Append(w, k2) /\ a2 = a
    <2>1. Image(AsRequest, w2) = Append(Image(AsRequest, w), AsRequest[k2])
      BY ZenonT(40), <1>1, <1>5, ImageAppend
    <2> QED
      BY <1>2, <1>3, <1>5, <2>1 DEF RecordMove
  <1>6. CASE /\ w # <<>> /\ k2 = k
             /\ w2 = Tail(w) /\ a2 = Append(a, Head(w))
    <2>1. Head(w) \in Types
      BY <1>6
    <2>2. /\ Image(AsRequest, w) # <<>>
          /\ Head(Image(AsRequest, w)) = AsRequest[Head(w)]
          /\ Tail(Image(AsRequest, w)) = Image(AsRequest, w2)
      BY <1>1, <1>6, ImageTail
    <2>3. Image(AsResponse, a2)
              = Append(Image(AsResponse, a), AsResponse[Head(w)])
      BY ZenonT(40), <1>1, <1>6, <2>1, ImageAppend
    <2>4. Head(Image(AsRequest, w)).op = Head(w)
          /\ AsResponse[Head(w)] = [op |-> Head(w)]
      BY <1>3, <2>1, <2>2
    <2>5. /\ Image(AsRequest, w) # <<>> /\ AsCall[k2] = AsCall[k]
          /\ Image(AsRequest, w2) = Tail(Image(AsRequest, w))
          /\ Image(AsResponse, a2)
                = Append(Image(AsResponse, a),
                         [op |-> Head(Image(AsRequest, w)).op])
      BY <1>6, <2>2, <2>3, <2>4
    <2> QED
      BY <2>5 DEF RecordMove
  <1>7. CASE /\ k # "none" /\ a # <<>> /\ Head(a) = k
             /\ k2 = "none" /\ w2 = w /\ a2 = Tail(a)
    <2>1. Head(a) \in Types
      BY <1>7
    <2>2. /\ Image(AsResponse, a) # <<>>
          /\ Head(Image(AsResponse, a)) = AsResponse[Head(a)]
          /\ Tail(Image(AsResponse, a)) = Image(AsResponse, a2)
      BY <1>1, <1>7, ImageTail
    <2>3. AsCall[k] # AsCall["none"]
      <3>1. "none" \in Ops /\ k \in Ops
        BY DEF Ops
      <3> QED
        BY <1>3, <1>7, <3>1
    <2> QED
      BY <1>3, <1>7, <2>1, <2>2, <2>3 DEF RecordMove
  <1>8. CASE /\ k2 \in {k, "none"} /\ w2 \in {w, <<>>}
             /\ Dropped(a, a2)
    <2>1. Dropped(Image(AsResponse, a), Image(AsResponse, a2))
      BY <1>1, <1>8, ImageDropped
    <2>2. \E n \in 0..Len(Image(AsRequest, w)) :
             Image(AsRequest, w2) = SubSeq(Image(AsRequest, w), 1, n)
      <3>1. PICK q \in Seq(Q) : q = Image(AsRequest, w)
        BY ZenonT(40), <1>1, ImageType
      <3>2. CASE w2 = w
        <4>1. SubSeq(q, 1, Len(q)) = q /\ Len(q) \in 0..Len(q)
          BY SMTT(30), <3>1
        <4> QED
          BY ZenonT(40), <3>1, <3>2, <4>1
      <3>3. CASE w2 = <<>>
        <4>1. Image(AsRequest, <<>>) = <<>>
          BY DEF Image
        <4>2. SubSeq(q, 1, 0) = <<>> /\ 0 \in 0..Len(q)
          BY <3>1
        <4> QED
          BY ZenonT(40), <3>1, <3>3, <4>1, <4>2
      <3> QED
        BY <1>8, <3>2, <3>3
    <2>3. AsCall[k2] \in {AsCall[k], AsCall["none"]}
      BY <1>8
    <2> QED
      BY <1>3, <2>1, <2>2, <2>3 DEF RecordMove
  <1> QED
    BY <1>4, <1>5, <1>6, <1>7, <1>8 DEF LineMove

\* What a thread waits for.
CallType(c) == IF InCall(c) THEN CType(c) ELSE "none"

\* What the types do, the records of the line do.
LEMMA MoveOfLine ==
    ASSUME NEW c,
           CallType(c) \in Ops, CallType(c)' \in Ops,
           Waiting(c) \in Seq(Types), Waiting(c)' \in Seq(Types),
           Arriving(c) \in Seq(Types), Arriving(c)' \in Seq(Types),
           LineMove(CallType(c), Waiting(c), Arriving(c),
                    CallType(c)', Waiting(c)', Arriving(c)')
    PROVE  [Line(c)!Next]_(Line(c)!line)
  <1>1. PICK k, w, a, k2, w2, a2 :
            /\ k = CallOf(c) /\ w = SentOf(c) /\ a = BackOf(c)
            /\ k2 = CallOf(c)' /\ w2 = SentOf(c)' /\ a2 = BackOf(c)'
    OBVIOUS
  <1>2. k = AsCall[CallType(c)] /\ k2 = AsCall[CallType(c)']
    BY <1>1 DEF CallOf, CallType, AsCall
  <1>3. /\ w = Image(AsRequest, Waiting(c))
        /\ w2 = Image(AsRequest, Waiting(c)')
    <2>1. \A s \in Seq(Types) :
              [i \in 1..Len(s) |-> [op |-> s[i], arg |-> <<>>]]
                  = Image(AsRequest, s)
      BY DEF Image, AsRequest
    <2> QED
      BY <1>1, <2>1 DEF SentOf
  <1>4. /\ a = Image(AsResponse, Arriving(c))
        /\ a2 = Image(AsResponse, Arriving(c)')
    <2>1. \A s \in Seq(Types) :
              [i \in 1..Len(s) |-> [op |-> s[i]]] = Image(AsResponse, s)
      BY DEF Image, AsResponse
    <2> QED
      BY <1>1, <2>1 DEF BackOf
  <1>5. RecordMove(k, w, a, k2, w2, a2)
    BY <1>2, <1>3, <1>4, RecordsMove
  <1> USE DEF Line!NoCall, Line!line
  <1>6. CASE k2 = k /\ w2 = w /\ a2 = a
    <2>1. UNCHANGED Line(c)!line
      BY <1>1, <1>6
    <2> QED
      BY <2>1
  <1>7. CASE /\ k = [op |-> "none", arg |-> <<>>]
             /\ k2 \in [op : Types, arg : {<<>>}]
             /\ Len(w) + Len(a) < MaxRequests
             /\ w2 = Append(w, k2) /\ a2 = a
    <2>1. Line(c)!Send(c, k2)
      BY <1>1, <1>7 DEF Line!Send, Line!Idle
    <2> QED
      BY <1>7, <2>1 DEF Line!Next, Line!Ask, Line!Requests
  <1>8. CASE /\ w # <<>> /\ k2 = k
             /\ w2 = Tail(w) /\ a2 = Append(a, [op |-> Head(w).op])
    <2>1. Line(c)!Serve(c)
      BY <1>1, <1>8 DEF Line!Serve, Line!Respond
    <2> QED
      BY <2>1 DEF Line!Next
  <1>9. CASE /\ k # [op |-> "none", arg |-> <<>>]
             /\ a # <<>> /\ Head(a).op = k.op
             /\ k2 = [op |-> "none", arg |-> <<>>] /\ w2 = w /\ a2 = Tail(a)
    <2>1. Line(c)!Receive(c)
      BY <1>1, <1>9 DEF Line!Receive
    <2> QED
      BY <2>1 DEF Line!Next
  <1>10. CASE /\ k2 \in {k, [op |-> "none", arg |-> <<>>]}
              /\ \E n \in 0..Len(w) : w2 = SubSeq(w, 1, n)
              /\ Dropped(a, a2)
    <2>1. Line(c)!Fail(c)
      BY <1>1, <1>10 DEF Line!Fail, Line!Cut, Dropped
    <2> QED
      BY <2>1 DEF Line!Next
  <1> QED
    BY <1>5, <1>6, <1>7, <1>8, <1>9, <1>10 DEF RecordMove

-----------------------------------------------------------------------------
(* The bound on the requests.                                              *)

Senders == {d \in Callers : pc[d] = "send"}

\* Who is about to send has been counted: there is room for its request.
SendersInv ==
    IsFiniteSet(Senders) /\ Len(reqs) + Cardinality(Senders) <= MaxRequests

LEMMA SendersInit == Init => SendersInv
  <1> SUFFICES ASSUME Init PROVE SendersInv
    OBVIOUS
  <1>1. Senders = {} /\ Len(reqs) = 0
    BY DEF Init, Senders
  <1> QED
    BY <1>1, FS_EmptySet, TypesOfAssumption DEF SendersInv

\* Nobody new is about to send.
LEMMA SendersFrame ==
    ASSUME TypeInv, SendersInv, Len(reqs') = Len(reqs),
           \A d \in Callers : pc'[d] = "send" => pc[d] = "send"
    PROVE  SendersInv'
  <1>1. Senders' \subseteq Senders
    BY DEF Senders
  <1>2. /\ IsFiniteSet(Senders')
        /\ Cardinality(Senders') <= Cardinality(Senders)
        /\ Cardinality(Senders) \in Nat /\ Cardinality(Senders') \in Nat
    BY <1>1, FS_Subset, FS_CardinalityType DEF SendersInv
  <1>3. Len(reqs) \in Nat
    BY DEF TypeInv, TypeOK
  <1> QED
    BY <1>2, <1>3, TypesOfAssumption DEF SendersInv

LEMMA SendersStep == TypeInv /\ SendersInv /\ [Next]_vars => SendersInv'
  <1> SUFFICES ASSUME TypeInv, SendersInv, [Next]_vars PROVE SendersInv'
    OBVIOUS
  <1> USE DEF owner, flags, clients, net, receiver
  <1>0. /\ pc \in [Callers -> {"idle", "send", "sent", "wait", "check"}]
        /\ Len(reqs) \in Nat
    BY DEF TypeInv, TypeOK
  <1>1. CASE UNCHANGED <<reqs, pc>>
    BY <1>1, SendersFrame
  <1>2. ASSUME NEW c \in Callers, StartRequest(c) PROVE SendersInv'
    <2>1. Senders' = Senders \cup {c} /\ c \notin Senders /\ reqs' = reqs
      BY <1>0, <1>2 DEF StartRequest, Senders
    <2>2. Len(reqs) + Cardinality(Senders) < MaxRequests
      BY <1>2 DEF StartRequest, Senders
    <2>3. /\ IsFiniteSet(Senders')
          /\ Cardinality(Senders') = Cardinality(Senders) + 1
          /\ Cardinality(Senders) \in Nat
      BY <2>1, FS_AddElement, FS_CardinalityType DEF SendersInv
    <2> QED
      BY <1>0, <2>1, <2>2, <2>3, TypesOfAssumption DEF SendersInv
  <1>3. ASSUME NEW c \in Callers, NEW t \in TypesOf[c], SendMessage(c, t)
        PROVE  SendersInv'
    <2>1. Senders' = Senders \ {c} /\ c \in Senders
      BY <1>0, <1>3 DEF SendMessage, Senders
    <2>2. Len(reqs') = Len(reqs) + 1
      <3>1. [caller |-> c, type |-> t, conn |-> conns, answer |-> 0,
             returned |-> FALSE] \in Outcome
        BY TypesOfAssumption DEF Outcome, TypeInv, TypeOK
      <3> QED
        BY <1>3, <3>1, SendSeq DEF SendMessage, TypeInv, TypeOK
    <2>3. /\ IsFiniteSet(Senders')
          /\ Cardinality(Senders') = Cardinality(Senders) - 1
          /\ Cardinality(Senders) \in Nat
      BY <2>1, FS_RemoveElement, FS_CardinalityType DEF SendersInv
    <2> QED
      BY <1>0, <2>2, <2>3, TypesOfAssumption DEF SendersInv
  <1>4. ASSUME NEW c \in Callers, NEW a \in Nat, Return(c, a),
               pc[c] \in {"sent", "wait", "check"}
        PROVE  SendersInv'
    <2>1. Len(reqs') = Len(reqs) /\ pc' = [pc EXCEPT ![c] = "idle"]
      BY <1>4, ReturnKeeps
    <2>2. \A d \in Callers : pc'[d] = "send" => pc[d] = "send"
      BY <1>0, <2>1
    <2> QED
      BY <2>1, <2>2, SendersFrame
  <1>5. ASSUME NEW c \in Callers, BeginWait(c) \/ Timeout(c) PROVE SendersInv'
    <2>1. CASE Return(c, 0)
      BY <1>4, <1>5, <2>1 DEF BeginWait, Timeout
    <2>2. CASE reqs' = reqs /\ pc' = [pc EXCEPT ![c] = "wait"]
      BY <1>0, <2>2, SendersFrame
    <2> QED
      BY <1>5, <2>1, <2>2 DEF BeginWait, Timeout
  <1>6. ASSUME NEW c \in Callers, Recheck(c) PROVE SendersInv'
    <2>1. CASE Return(c, 0)
      BY <1>4, <1>6, <2>1 DEF Recheck
    <2>2. CASE Return(c, pending[CType(c)].data)
      <3>1. CType(c) \in Types
        BY <1>6, EntryParts DEF Recheck, CType, TypeInv, TypeOK, Links
      <3>2. pending[CType(c)].data \in Nat
        BY <3>1 DEF TypeInv, TypeOK
      <3> QED
        BY <1>4, <1>6, <2>2, <3>2 DEF Recheck
    <2>3. CASE reqs' = reqs /\ pc' = [pc EXCEPT ![c] = "wait"]
      BY <1>0, <2>3, SendersFrame
    <2> QED
      BY <1>6, <2>1, <2>2, <2>3 DEF Recheck
  <1>7. ASSUME NEW c \in Callers,
               SendFail(c) \/ SendSigpipe(c) \/ SpuriousWakeup(c)
        PROVE  SendersInv'
    BY <1>0, <1>7, SendersFrame DEF SendFail, SendSigpipe, SpuriousWakeup
  <1>8. CASE DisconnectNotify \/ RecvStore
    BY <1>0, <1>8, SendersFrame DEF DisconnectNotify, RecvStore, NotifyAll
  <1>9. CASE \/ ConnectOk \/ ConnectFail \/ Disconnect \/ Destroy
             \/ DisconnectClose \/ DisconnectJoin \/ Destruct
    BY <1>1, <1>9
    DEF ConnectOk, ConnectFail, Disconnect, Destroy, DisconnectFlags,
        DisconnectClose, DisconnectJoin, Destruct, Abort
  <1>10. CASE \/ RecvTop \/ RecvPollTimeout \/ RecvHeader \/ RecvBody
              \/ RecvLost \/ Serve \/ PeerClose \/ UNCHANGED vars
    BY <1>1, <1>10
    DEF RecvTop, RecvPollTimeout, RecvHeader, RecvBody, RecvLost, Serve,
        PeerClose, vars
  <1> QED
    BY <1>2, <1>3, <1>5, <1>6, <1>7, <1>8, <1>9, <1>10
    DEF Next, OwnerStep, RecvStep, CallStep

-----------------------------------------------------------------------------
(* The line of one thread.                                                 *)

\* The first response that is not stored, and those of c from there on.
First == IF rpc = "store" THEN taken ELSE taken + 1
Coming(c) == RequestsOf(c, reqs, First, served)
Slot(c) == IF InSlot(c) THEN <<CType(c)>> ELSE <<>>

Move(c) == LineMove(CallType(c), Waiting(c), Arriving(c),
                    CallType(c)', Waiting(c)', Arriving(c)')

LEMMA ArrivingParts ==
    ASSUME NEW c
    PROVE  /\ Arriving(c) = Slot(c) \o Coming(c)
           /\ Arriving(c)' = Slot(c)' \o Coming(c)'
  BY DEF Arriving, Slot, Coming, First

\* Types and bounds of what a line is read off.
Lines ==
    /\ served \in Nat /\ taken \in Nat /\ Len(reqs) \in Nat
    /\ First \in 1..(served + 1) /\ served \in 0..Len(reqs)
    /\ \A c \in Callers :
          /\ InCall(c) => /\ curr[c] \in 1..Len(reqs)
                          /\ CType(c) = reqs[curr[c]].type
                          /\ CType(c) \in Types
          /\ CallType(c) \in Ops
          /\ Waiting(c) \in Seq(Types) /\ Len(Waiting(c)) <= Len(reqs) - served
          /\ Coming(c) \in Seq(Types) /\ Len(Coming(c)) <= served
          /\ Slot(c) \in Seq(Types) /\ Arriving(c) \in Seq(Types)

LEMMA LinesTyped == TypeInv => Lines
  <1> SUFFICES ASSUME TypeInv PROVE Lines
    OBVIOUS
  <1>1. /\ served \in Nat /\ taken \in Nat /\ Len(reqs) \in Nat
        /\ taken <= served /\ served <= Len(reqs) /\ reqs \in Seq(Outcome)
        /\ rpc = "store" => taken # 0
        /\ curr \in [Callers -> 0..Len(reqs)]
    BY DEF TypeInv, TypeOK, Links
  <1>2. First \in 1..(served + 1) /\ served \in 0..Len(reqs)
    BY <1>1 DEF First
  <1> SUFFICES ASSUME NEW c \in Callers
               PROVE
          /\ InCall(c) => /\ curr[c] \in 1..Len(reqs)
                          /\ CType(c) = reqs[curr[c]].type
                          /\ CType(c) \in Types
          /\ CallType(c) \in Ops
          /\ Waiting(c) \in Seq(Types) /\ Len(Waiting(c)) <= Len(reqs) - served
          /\ Coming(c) \in Seq(Types) /\ Len(Coming(c)) <= served
          /\ Slot(c) \in Seq(Types) /\ Arriving(c) \in Seq(Types)
    BY <1>1, <1>2 DEF Lines
  <1>3. InCall(c) => /\ curr[c] \in 1..Len(reqs)
                     /\ CType(c) = reqs[curr[c]].type
                     /\ CType(c) \in Types
    <2> SUFFICES ASSUME InCall(c)
                 PROVE  /\ curr[c] \in 1..Len(reqs)
                        /\ CType(c) = reqs[curr[c]].type
                        /\ CType(c) \in Types
      OBVIOUS
    <2>1. curr[c] \in 1..Len(reqs)
      BY <1>1 DEF InCall, TypeInv, Links
    <2> QED
      BY <1>1, <2>1, EntryParts DEF CType
  <1>4. CallType(c) \in Ops
    BY <1>3 DEF CallType, Ops
  <1>5. Waiting(c) \in Seq(Types) /\ Len(Waiting(c)) <= Len(reqs) - served
    <2>1. served + 1 \in Nat \ {0} /\ Len(reqs) \in 0..Len(reqs)
          /\ served + 1 <= Len(reqs) + 1
      BY <1>1
    <2>2. /\ Waiting(c) \in Seq(Types)
          /\ Len(Waiting(c)) <= Len(reqs) - (served + 1) + 1
      BY <1>1, <2>1, RequestsType DEF Waiting
    <2>3. PICK n \in Nat : n = Len(Waiting(c))
      BY <2>2, LenProperties
    <2> QED
      BY <1>1, <2>2, <2>3
  <1>6. Coming(c) \in Seq(Types) /\ Len(Coming(c)) <= served
    <2>1. First \in Nat \ {0} /\ First <= served + 1
      BY <1>1, <1>2
    <2>2. /\ Coming(c) \in Seq(Types)
          /\ Len(Coming(c)) <= served - First + 1
      BY <1>1, <1>2, <2>1, RequestsType DEF Coming
    <2>3. PICK n \in Nat : n = Len(Coming(c))
      BY <2>2, LenProperties
    <2> QED
      BY <1>1, <2>1, <2>2, <2>3
  <1>7. Slot(c) \in Seq(Types)
    <2>1. InSlot(c) => InCall(c)
      BY DEF InSlot, InCall
    <2>2. CASE InSlot(c)
      BY <1>3, <2>1, <2>2 DEF Slot
    <2>3. CASE ~InSlot(c)
      BY <2>3, EmptySeq DEF Slot
    <2> QED
      BY <2>2, <2>3
  <1>8. Arriving(c) \in Seq(Types)
    BY <1>6, <1>7, ArrivingParts, ConcatProperties
  <1> QED
    BY <1>3, <1>4, <1>5, <1>6, <1>7, <1>8

LEMMA LinesNext == TypeInv' => Lines'
  BY LinesTyped, PTL

\* The requests and the responses to come stay.
LEMMA QueueFrame ==
    ASSUME Lines, NEW c \in Callers, Len(reqs') = Len(reqs),
           \A i \in 1..Len(reqs) : /\ reqs'[i].caller = reqs[i].caller
                                   /\ reqs'[i].type = reqs[i].type,
           served' = served, First' = First
    PROVE  Waiting(c)' = Waiting(c) /\ Coming(c)' = Coming(c)
  <1>1. /\ served + 1 \in Nat \ {0} /\ Len(reqs) \in Nat
        /\ \A i \in (served + 1)..Len(reqs) : i \in 1..Len(reqs)
        /\ First \in Nat \ {0} /\ served \in Nat
        /\ \A i \in First..served : i \in 1..Len(reqs)
    BY DEF Lines
  <1>2. RequestsOf(c, reqs', served + 1, Len(reqs))
            = RequestsOf(c, reqs, served + 1, Len(reqs))
    BY <1>1, SameRequests
  <1>3. RequestsOf(c, reqs', First, served) = RequestsOf(c, reqs, First, served)
    BY <1>1, SameRequests
  <1> QED
    BY <1>2, <1>3 DEF Waiting, Coming

\* So does all of the line, when the call and the slot stay, too.
LEMMA LineFrame ==
    ASSUME Lines, NEW c \in Callers, Len(reqs') = Len(reqs),
           \A i \in 1..Len(reqs) : /\ reqs'[i].caller = reqs[i].caller
                                   /\ reqs'[i].type = reqs[i].type,
           served' = served, First' = First,
           InCall(c)' <=> InCall(c), InCall(c) => curr'[c] = curr[c],
           InSlot(c)' <=> InSlot(c)
    PROVE  Move(c)
  <1>1. Waiting(c)' = Waiting(c) /\ Coming(c)' = Coming(c)
    BY QueueFrame
  <1>2. InCall(c) => CType(c)' = CType(c)
    BY DEF Lines, CType
  <1>3. InSlot(c) => InCall(c)
    BY DEF InSlot, InCall
  <1>4. CallType(c)' = CallType(c)
    BY <1>2 DEF CallType
  <1>5. Slot(c)' = Slot(c)
    BY <1>2, <1>3 DEF Slot
  <1>6. Arriving(c)' = Arriving(c)
    BY <1>1, <1>5, ArrivingParts
  <1> QED
    BY <1>1, <1>4, <1>6 DEF Move, LineMove

\* A step of nobody's call: the entries, the slots and what is to come stay.
LEMMA QuietMove ==
    ASSUME Lines, NEW c \in Callers,
           UNCHANGED <<reqs, curr, pending, served>>, First' = First,
           InCall(c)' <=> InCall(c),
           pc'[c] \in {"wait", "check"} <=> pc[c] \in {"wait", "check"}
    PROVE  Move(c)
  <1>1. InSlot(c)' <=> InSlot(c)
    BY DEF InSlot, CType
  <1> QED
    BY <1>1, LineFrame

\* The call of the thread ends: what is in its slot goes with it.
LEMMA OwnReturn ==
    ASSUME TypeInv, HistoryInv, Lines, NEW c \in Callers, NEW a \in Nat,
           InCall(c), Return(c, a), UNCHANGED <<curr, served, rpc, taken>>
    PROVE  /\ CallType(c)' = "none" /\ Waiting(c)' = Waiting(c)
           /\ Coming(c)' = Coming(c) /\ Arriving(c)' = Coming(c)
  <1>1. /\ Len(reqs') = Len(reqs)
        /\ \A i \in 1..Len(reqs) : /\ reqs'[i].caller = reqs[i].caller
                                   /\ reqs'[i].type = reqs[i].type
        /\ ~InCall(c)'
    BY ReturnMarks
  <1>2. First' = First
    BY DEF First
  <1>3. Waiting(c)' = Waiting(c) /\ Coming(c)' = Coming(c)
    BY <1>1, <1>2, QueueFrame
  <1>4. CallType(c)' = "none" /\ Slot(c)' = <<>>
    BY <1>1 DEF CallType, Slot, InSlot, InCall
  <1>5. <<>> \o Coming(c) = Coming(c)
    BY ConcatEmptySeq DEF Lines
  <1> QED
    BY <1>3, <1>4, <1>5, ArrivingParts

\* The call gives up.
LEMMA FailMove ==
    ASSUME TypeInv, HistoryInv, Lines, NEW c \in Callers,
           InCall(c), Return(c, 0), UNCHANGED <<curr, served, rpc, taken>>
    PROVE  Move(c)
  <1>1. /\ CallType(c)' = "none" /\ Waiting(c)' = Waiting(c)
        /\ Arriving(c)' = Coming(c)
    BY OwnReturn
  <1>2. PICK s \in Seq(Types) : s = Slot(c)
    BY DEF Lines
  <1>3. PICK r \in Seq(Types) : r = Coming(c)
    BY DEF Lines
  <1>4. Dropped(<<>> \o (s \o r), <<>> \o r)
    BY <1>2, <1>3, EmptySeq, DropMiddle
  <1>5. <<>> \o (s \o r) = s \o r /\ <<>> \o r = r
    BY <1>2, <1>3, ConcatProperties, ConcatEmptySeq
  <1>6. Dropped(Arriving(c), Arriving(c)')
    BY <1>1, <1>2, <1>3, <1>4, <1>5, ArrivingParts
  <1> QED
    BY <1>1, <1>6 DEF Move, LineMove

LEMMA HeadOfOne ==
    ASSUME NEW t \in Types, NEW r \in Seq(Types)
    PROVE  <<t>> \o r # <<>> /\ Head(<<t>> \o r) = t /\ Tail(<<t>> \o r) = r
  <1>0. <<t>> \in Seq(Types)
    OBVIOUS
  <1>1. PICK s \in Seq(Types) : s = <<t>>
    BY <1>0
  <1>2. Len(s) = 1 /\ s[1] = t
    BY <1>1
  <1>3. PICK n \in Nat : n = Len(r)
    BY LenProperties
  <1>4. /\ s \o r \in Seq(Types) /\ Len(s \o r) = 1 + n
        /\ \A i \in 1..(1 + n) :
              (s \o r)[i] = IF i <= 1 THEN s[i] ELSE r[i - 1]
    <2>1. /\ s \o r \in Seq(Types) /\ Len(s \o r) = Len(s) + Len(r)
          /\ \A i \in 1..(Len(s) + Len(r)) :
                (s \o r)[i] = IF i <= Len(s) THEN s[i] ELSE r[i - Len(s)]
      BY <1>1, ConcatProperties
    <2> QED
      BY <1>2, <1>3, <2>1
  <1>5. PICK y \in Seq(Types) : y = s \o r
    BY <1>4
  <1>6. y # <<>> /\ y[1] = t
    <2>1. 1 \in 1..(1 + n)
      BY <1>3
    <2>2. 1 + n # 0
      BY <1>3
    <2> QED
      BY <1>2, <1>4, <1>5, <2>1, <2>2, EmptySeq
  <1>7. Head(y) = t
    BY <1>5, <1>6
  <1>8. /\ Tail(y) \in Seq(Types) /\ Len(Tail(y)) = n
        /\ \A i \in 1..n : Tail(y)[i] = y[i + 1]
    <2>1. /\ Tail(y) \in Seq(Types) /\ Len(Tail(y)) = Len(y) - 1
          /\ \A i \in 1..Len(Tail(y)) : Tail(y)[i] = y[i + 1]
      BY <1>5, <1>6, HeadTailProperties
    <2> QED
      BY <1>3, <1>4, <1>5, <2>1
  <1>9. \A i \in 1..n : i + 1 \in 1..(1 + n) /\ ~(i + 1 <= 1) /\ i + 1 - 1 = i
    BY <1>3
  <1>10. \A i \in 1..n : Tail(y)[i] = r[i]
    BY <1>4, <1>5, <1>8, <1>9
  <1>11. Tail(y) = r
    BY <1>3, <1>8, <1>10, SeqEqual
  <1> QED
    BY <1>1, <1>5, <1>6, <1>7, <1>11

\* The call takes what is in its slot.
LEMMA ReceiveMove ==
    ASSUME TypeInv, HistoryInv, Lines, NEW c \in Callers, NEW a \in Nat,
           InSlot(c), Return(c, a), UNCHANGED <<curr, served, rpc, taken>>
    PROVE  Move(c)
  <1>0. InCall(c)
    BY DEF InSlot, InCall
  <1>1. /\ CallType(c)' = "none" /\ Waiting(c)' = Waiting(c)
        /\ Arriving(c)' = Coming(c)
    BY <1>0, OwnReturn
  <1>2. PICK t \in Types : t = CType(c)
    BY <1>0 DEF Lines
  <1>3. PICK r \in Seq(Types) : r = Coming(c)
    BY DEF Lines
  <1>4. Arriving(c) = <<t>> \o r
    BY <1>2, <1>3, ArrivingParts DEF Slot
  <1>5. <<t>> \o r # <<>> /\ Head(<<t>> \o r) = t /\ Tail(<<t>> \o r) = r
    BY <1>2, <1>3, HeadOfOne
  <1>6. CallType(c) = t /\ t # "none"
    BY <1>0, <1>2, TypesOfAssumption DEF CallType
  <1> QED
    BY <1>1, <1>3, <1>4, <1>5, <1>6 DEF Move, LineMove

\* Another thread's call ends: it has no type in common with this one.
LEMMA TypeOfCall ==
    ASSUME HistoryInv, Lines, NEW c \in Callers, InCall(c)
    PROVE  CType(c) \in TypesOf[c]
  <1>1. curr[c] \in 1..Len(reqs) /\ CType(c) = reqs[curr[c]].type
    BY DEF Lines
  <1>2. reqs[curr[c]].caller = c
    BY DEF HistoryInv
  <1>3. reqs[curr[c]].type \in TypesOf[reqs[curr[c]].caller]
    BY <1>1 DEF HistoryInv, EntryOK
  <1> QED
    BY <1>1, <1>2, <1>3

LEMMA OtherReturn ==
    ASSUME TypesApart, TypeInv, HistoryInv, Lines,
           NEW c \in Callers, NEW d \in Callers, c # d, NEW a \in Nat,
           InCall(d), Return(d, a), UNCHANGED <<curr, served, rpc, taken>>,
           \A t \in Types : t # CType(d) => pending'[t] = pending[t]
    PROVE  Move(c)
  <1>1. /\ Len(reqs') = Len(reqs)
        /\ \A i \in 1..Len(reqs) : /\ reqs'[i].caller = reqs[i].caller
                                   /\ reqs'[i].type = reqs[i].type
        /\ InCall(c)' <=> InCall(c)
        /\ pc' = [pc EXCEPT ![d] = "idle"]
    BY ReturnMarks
  <1>2. First' = First
    BY DEF First
  <1>3. pc'[c] = pc[c]
    BY <1>1 DEF TypeInv, TypeOK
  <1>4. ASSUME InCall(c) PROVE InSlot(c)' <=> InSlot(c)
    <2>1. CType(c) # CType(d) /\ CType(c) \in Types
      BY <1>4, TypeOfCall DEF TypesApart, Lines
    <2>2. pending'[CType(c)] = pending[CType(c)]
      BY <2>1
    <2>3. CType(c)' = CType(c)
      BY <1>1, <1>4 DEF CType, Lines
    <2> QED
      BY <1>3, <2>2, <2>3 DEF InSlot
  <1>5. InSlot(c)' <=> InSlot(c)
    BY <1>3, <1>4 DEF InSlot, InCall
  <1> QED
    BY <1>1, <1>2, <1>5, LineFrame

\* A thread begins to wait, or goes on waiting: its slot is empty.
LEMMA WaitMove ==
    ASSUME TypesApart, TypeInv, HistoryInv, Lines,
           NEW c \in Callers, NEW d \in Callers,
           pc[d] \in {"sent", "check"}, InSlot(d) = FALSE,
           pc' = [pc EXCEPT ![d] = "wait"],
           UNCHANGED <<reqs, curr, served, rpc, taken>>,
           \A t \in Types : t # CType(d) => pending'[t] = pending[t],
           pending'[CType(d)].received = FALSE
    PROVE  Move(c)
  <1>1. pc \in [Callers -> {"idle", "send", "sent", "wait", "check"}]
    BY DEF TypeInv, TypeOK
  <1>2. InCall(d) /\ First' = First /\ CType(c)' = CType(c)
    BY DEF InCall, First, CType
  <1>3. InCall(c)' <=> InCall(c)
    BY <1>1, <1>2 DEF InCall
  <1>4. InSlot(c)' <=> InSlot(c)
    <2>1. CASE c = d
      BY <1>2, <2>1 DEF InSlot, CType
    <2>2. CASE c # d /\ InCall(c)
      <3>1. CType(c) # CType(d) /\ CType(c) \in Types
        BY <1>2, <2>2, TypeOfCall DEF TypesApart, Lines
      <3>2. pending'[CType(c)] = pending[CType(c)] /\ pc'[c] = pc[c]
        BY <1>1, <2>2, <3>1
      <3> QED
        BY <1>2, <3>2 DEF InSlot
    <2>3. CASE ~InCall(c)
      BY <1>3, <2>3 DEF InSlot, InCall
    <2> QED
      BY <2>1, <2>2, <2>3
  <1> QED
    BY <1>2, <1>3, <1>4, LineFrame

\* The thread sends: its request is the last of those to be answered.
LEMMA SendMove ==
    ASSUME TypeInv, HistoryInv, SendersInv, Lines,
           NEW c \in Callers, NEW d \in Callers, NEW t \in TypesOf[d],
           SendMessage(d, t)
    PROVE  Move(c)
  <1> DEFINE e == [caller |-> d, type |-> t, conn |-> conns, answer |-> 0,
                   returned |-> FALSE]
  <1>1. e \in Outcome /\ t \in Types /\ e.caller = d /\ e.type = t
    BY TypesOfAssumption DEF Outcome, TypeInv, TypeOK
  <1>2. PICK n \in Nat : n = Len(reqs)
    BY DEF Lines
  <1>3. /\ Len(reqs') = n + 1 /\ reqs'[n + 1] = e
        /\ \A i \in 1..n : reqs'[i] = reqs[i]
    BY <1>1, <1>2, SendSeq DEF SendMessage, TypeInv, TypeOK
  <1>4. /\ curr' = [curr EXCEPT ![d] = n + 1] /\ pc[d] = "send"
        /\ pc' = [pc EXCEPT ![d] = "sent"]
        /\ UNCHANGED <<rpc, taken, served, pending>>
    BY <1>2 DEF SendMessage, receiver, net
  <1>5. /\ curr \in [Callers -> 0..Len(reqs)]
        /\ pc \in [Callers -> {"idle", "send", "sent", "wait", "check"}]
    BY DEF TypeInv, TypeOK
  <1>6. First' = First
    BY <1>4 DEF First
  <1> HIDE DEF e
  <1>7. /\ served \in Nat /\ served <= n /\ First \in Nat \ {0}
        /\ served + 1 \in Nat \ {0} /\ n + 1 \in Nat /\ served + 1 <= n + 1
        /\ \A i \in (served + 1)..n : i \in 1..n
        /\ \A i \in First..served : i \in 1..n
        /\ n + 1 - 1 = n
    <2>1. PICK f \in Nat \ {0} : f = First
      BY DEF Lines
    <2>2. served \in Nat /\ served <= n
      BY <1>2 DEF Lines
    <2>3. \A i \in f..served : i \in 1..n
      BY <1>2, <2>1, <2>2
    <2> QED
      BY <1>2, <2>1, <2>2, <2>3
  <1>8. Coming(c)' = Coming(c)
    <2>1. \A i \in First..served :
              reqs'[i].caller = reqs[i].caller /\ reqs'[i].type = reqs[i].type
      BY <1>3, <1>7
    <2>2. RequestsOf(c, reqs', First, served)
              = RequestsOf(c, reqs, First, served)
      BY <1>7, <2>1, SameRequests
    <2> QED
      BY <1>4, <1>6, <2>2 DEF Coming
  <1>9. Waiting(c)' = IF c = d THEN Append(Waiting(c), t) ELSE Waiting(c)
    <2>1. \A i \in (served + 1)..n :
              reqs'[i].caller = reqs[i].caller /\ reqs'[i].type = reqs[i].type
      BY <1>3, <1>7
    <2>2. RequestsOf(c, reqs', served + 1, n)
              = RequestsOf(c, reqs, served + 1, n)
      BY <1>7, <2>1, SameRequests
    <2>3. RequestsOf(c, reqs', served + 1, n + 1)
              = WithRequest(RequestsOf(c, reqs', served + 1, n + 1 - 1), c,
                            reqs'[n + 1])
      <3>1. PICK rs : rs = reqs'
        OBVIOUS
      <3>2. PICK k \in Nat : k = n + 1
        BY <1>7
      <3>3. PICK f \in Nat \ {0} : f = served + 1
        BY <1>7
      <3>4. RequestsOf(c, rs, f, k)
                = WithRequest(RequestsOf(c, rs, f, k - 1), c, rs[k])
        <4>1. f <= k
          BY <1>7, <3>2, <3>3
        <4> QED
          BY <3>2, <3>3, <4>1, LastRequest
      <3> QED
        BY <3>1, <3>2, <3>3, <3>4
    <2> QED
      BY <1>1, <1>2, <1>3, <1>4, <1>7, <2>2, <2>3
         DEF Waiting, WithRequest
  <1>10. CASE c = d
    <2>1. /\ CallType(c) = "none" /\ Slot(c) = <<>> /\ Slot(c)' = <<>>
          /\ CallType(c)' = t
      <3>1. pc'[c] = "sent" /\ curr'[c] = n + 1
        BY <1>4, <1>5, <1>10
      <3>2. CType(c)' = t
        BY <1>1, <1>3, <3>1 DEF CType
      <3> QED
        BY <1>4, <1>10, <3>1, <3>2 DEF CallType, Slot, InSlot, InCall
    <2>2. Arriving(c) = Coming(c) /\ Arriving(c)' = Arriving(c)
      <3>1. <<>> \o Coming(c) = Coming(c)
        BY ConcatEmptySeq DEF Lines
      <3> QED
        BY <1>8, <2>1, <3>1, ArrivingParts
    <2>3. Len(Waiting(c)) + Len(Coming(c)) < MaxRequests
      <3>1. n < MaxRequests
        <4>1. d \in Senders /\ IsFiniteSet(Senders)
          BY <1>4 DEF Senders, SendersInv
        <4>2. Cardinality(Senders) \in Nat /\ Cardinality(Senders) # 0
          BY <4>1, FS_CardinalityType, FS_EmptySet
        <4> QED
          BY <1>2, <4>2, TypesOfAssumption DEF SendersInv
      <3>2. PICK i \in Nat : i = Len(Waiting(c))
        BY LenProperties DEF Lines
      <3>3. PICK j \in Nat : j = Len(Coming(c))
        BY LenProperties DEF Lines
      <3>4. i <= n - served /\ j <= served
        BY <1>2, <3>2, <3>3 DEF Lines
      <3> QED
        BY <1>7, <3>1, <3>2, <3>3, <3>4, TypesOfAssumption
    <2> QED
      BY <1>1, <1>9, <1>10, <2>1, <2>2, <2>3 DEF Move, LineMove
  <1>11. CASE c # d
    <2>1. pc'[c] = pc[c] /\ curr'[c] = curr[c] /\ pending' = pending
      BY <1>4, <1>5, <1>11
    <2>2. InCall(c) => CType(c)' = CType(c)
      <3>1. InCall(c) => curr[c] \in 1..n
        BY <1>2 DEF Lines
      <3> QED
        BY <1>3, <2>1, <3>1 DEF CType
    <2>3. InCall(c)' <=> InCall(c)
      BY <2>1 DEF InCall
    <2>4. InSlot(c) => InCall(c)
      BY DEF InSlot, InCall
    <2>5. InSlot(c)' <=> InSlot(c)
      BY <2>1, <2>2, <2>3 DEF InSlot, InCall
    <2>6. CallType(c)' = CallType(c)
      BY <2>2, <2>3 DEF CallType
    <2>7. Slot(c)' = Slot(c)
      BY <2>2, <2>4, <2>5 DEF Slot
    <2>8. Arriving(c)' = Arriving(c)
      BY <1>8, <2>7, ArrivingParts
    <2> QED
      BY <1>9, <1>11, <2>6, <2>8 DEF Move, LineMove
  <1> QED
    BY <1>10, <1>11

\* The server answers: the first request of the line, if it is the thread's.
LEMMA ServeMove ==
    ASSUME TypeInv, Lines, NEW c \in Callers, Serve
    PROVE  Move(c)
  <1>1. /\ served < Len(reqs) /\ served' = served + 1
        /\ UNCHANGED <<reqs, curr, pending, pc, rpc, taken>>
    BY DEF Serve, receiver, clients
  <1>2. PICK n \in Nat : n = Len(reqs)
    BY DEF Lines
  <1>3. /\ First' = First /\ CType(c)' = CType(c)
        /\ CallType(c)' = CallType(c) /\ Slot(c)' = Slot(c)
    BY <1>1 DEF First, CType, CallType, Slot, InSlot, InCall
  <1>4. PICK k \in Nat \ {0} : k = served + 1
    BY DEF Lines
  <1>5. /\ k \in 1..n /\ n \in 0..n /\ k <= n /\ k + 1 \in Nat \ {0}
        /\ First \in Nat \ {0} /\ First <= k /\ k \in Nat /\ k - 1 = served
    BY <1>1, <1>2, <1>4 DEF Lines
  <1>6. reqs \in Seq(Outcome)
    BY DEF TypeInv, TypeOK
  <1>7. PICK t \in Types : t = reqs[k].type
    BY <1>2, <1>5, <1>6, EntryParts
  <1>8. Waiting(c) = (IF reqs[k].caller = c THEN <<t>> ELSE <<>>) \o Waiting(c)'
    <2>1. RequestsOf(c, reqs, k, n)
              = OneRequest(c, reqs[k]) \o RequestsOf(c, reqs, k + 1, n)
      BY <1>2, <1>5, <1>6, FirstRequest
    <2> QED
      BY <1>1, <1>2, <1>4, <1>7, <2>1 DEF Waiting, OneRequest
  <1>9. Coming(c)' = IF reqs[k].caller = c THEN Append(Coming(c), t)
                     ELSE Coming(c)
    <2>1. RequestsOf(c, reqs, First, k)
              = WithRequest(RequestsOf(c, reqs, First, k - 1), c, reqs[k])
      BY <1>5, LastRequest
    <2> QED
      BY <1>1, <1>3, <1>4, <1>5, <1>7, <2>1 DEF Coming, WithRequest
  <1>10. PICK w \in Seq(Types) : w = Waiting(c)'
    <2>1. RequestsOf(c, reqs, k + 1, n) \in Seq(Types)
      <3>1. k + 1 <= n + 1
        BY <1>5
      <3> QED
        BY <1>2, <1>5, <1>6, <3>1, RequestsType
    <2>2. Waiting(c)' = RequestsOf(c, reqs, k + 1, n)
      BY <1>1, <1>2, <1>4 DEF Waiting
    <2> QED
      BY <2>1, <2>2
  <1>11. PICK s \in Seq(Types) : s = Slot(c)
    BY DEF Lines
  <1>12. PICK r \in Seq(Types) : r = Coming(c)
    BY DEF Lines
  <1>13. CASE reqs[k].caller = c
    <2>1. /\ Waiting(c) # <<>> /\ Head(Waiting(c)) = t
          /\ Waiting(c)' = Tail(Waiting(c))
      BY <1>7, <1>8, <1>10, <1>13, HeadOfOne
    <2>2. s \o Append(r, t) = Append(s \o r, t)
      BY <1>7, <1>11, <1>12, ConcatAppend
    <2>3. Arriving(c)' = Append(Arriving(c), t)
      BY <1>3, <1>9, <1>11, <1>12, <1>13, <2>2, ArrivingParts
    <2> QED
      BY <1>3, <2>1, <2>3 DEF Move, LineMove
  <1>14. CASE reqs[k].caller # c
    <2>1. <<>> \o w = w
      BY <1>10, ConcatEmptySeq
    <2>2. Waiting(c)' = Waiting(c) /\ Arriving(c)' = Arriving(c)
      BY <1>3, <1>8, <1>9, <1>10, <1>14, <2>1, ArrivingParts
    <2> QED
      BY <1>3, <2>2 DEF Move, LineMove
  <1> QED
    BY <1>13, <1>14

\* A new connection: what was to be answered, or to be read, is gone.
LEMMA ConnectMove ==
    ASSUME Lines, NEW c \in Callers, ConnectOk, rpc = "none"
    PROVE  Move(c)
  <1>1. /\ served' = Len(reqs) /\ taken' = Len(reqs) /\ rpc' = "top"
        /\ UNCHANGED <<reqs, curr, pending, pc>>
    BY DEF ConnectOk, clients
  <1>2. PICK n \in Nat : n = Len(reqs)
    BY DEF Lines
  <1>3. CallType(c)' = CallType(c) /\ Slot(c)' = Slot(c)
    BY <1>1 DEF CType, CallType, Slot, InSlot, InCall
  <1>4. RequestsOf(c, reqs, n + 1, n) = <<>>
    <2>1. n + 1 \in Nat \ {0} /\ n < n + 1
      BY <1>2
    <2> QED
      BY <1>2, <2>1, NoRequests
  <1>5. Waiting(c)' = <<>> /\ Coming(c)' = <<>>
    BY <1>1, <1>2, <1>4 DEF Waiting, Coming, First
  <1>6. PICK s \in Seq(Types) : s = Slot(c)
    BY DEF Lines
  <1>7. PICK r \in Seq(Types) : r = Coming(c)
    BY DEF Lines
  <1>8. Dropped(s \o (r \o <<>>), s \o <<>>)
    BY <1>6, <1>7, EmptySeq, DropMiddle
  <1>9. r \o <<>> = r
    BY <1>7, ConcatEmptySeq
  <1>10. Dropped(Arriving(c), Arriving(c)')
    BY <1>3, <1>5, <1>6, <1>7, <1>8, <1>9, ArrivingParts
  <1> QED
    BY <1>3, <1>5, <1>10 DEF Move, LineMove

\* A response is stored: in place of the one in the slot of its type, or
\* where no call waits for it.
LEMMA StoreMove ==
    ASSUME TypesApart, TypeInv, HistoryInv, Lines, NEW c \in Callers, RecvStore
    PROVE  Move(c)
  <1>1. /\ rpc = "store" /\ rpc' = "top" /\ pc' = NotifyAll
        /\ pending' = [pending EXCEPT ![reqs[taken].type] =
                                      [received |-> TRUE, data |-> taken]]
        /\ UNCHANGED <<reqs, curr, taken, served>>
    BY DEF RecvStore, net
  <1>2. PICK k \in Nat \ {0} : k = taken
    BY <1>1 DEF TypeInv, TypeOK, Links
  <1>3. /\ First = k /\ First' = k + 1 /\ k <= served
        /\ k \in 1..Len(reqs) /\ served \in 0..Len(reqs)
    BY <1>1, <1>2 DEF First, Lines, TypeInv, TypeOK
  <1>4. /\ reqs \in Seq(Outcome)
        /\ pc \in [Callers -> {"idle", "send", "sent", "wait", "check"}]
        /\ pending \in [Types -> [received : BOOLEAN, data : Nat]]
    BY DEF TypeInv, TypeOK
  <1>5. PICK t \in Types : t = reqs[k].type
    BY <1>3, <1>4, EntryParts
  <1>6. PICK r \in Seq(Types) : r = Coming(c)'
    <2>1. k + 1 \in Nat \ {0} /\ k + 1 <= served + 1
      BY <1>2, <1>3 DEF Lines
    <2>2. RequestsOf(c, reqs, k + 1, served) \in Seq(Types)
      BY <1>3, <1>4, <2>1, RequestsType
    <2> QED
      BY <1>1, <1>3, <2>2 DEF Coming
  <1>7. Coming(c) = (IF reqs[k].caller = c THEN <<t>> ELSE <<>>) \o r
    <2>1. RequestsOf(c, reqs, k, served)
              = OneRequest(c, reqs[k]) \o RequestsOf(c, reqs, k + 1, served)
      BY <1>2, <1>3, <1>4, FirstRequest
    <2> QED
      BY <1>1, <1>3, <1>5, <1>6, <2>1 DEF Coming, OneRequest
  <1>8. /\ InCall(c)' <=> InCall(c)
        /\ CType(c)' = CType(c)
        /\ pc'[c] \in {"wait", "check"} <=> pc[c] \in {"wait", "check"}
    BY <1>1, <1>4 DEF NotifyAll, InCall, CType
  <1>9. /\ pending'[t].received
        /\ \A u \in Types : u # t => pending'[u] = pending[u]
    BY <1>1, <1>2, <1>4, <1>5
  <1>10. CallType(c)' = CallType(c) /\ Waiting(c)' = Waiting(c)
    BY <1>1, <1>8 DEF CallType, Waiting
  <1>11. PICK s \in Seq(Types) : s = Slot(c)
    BY DEF Lines
  <1>12. /\ <<>> \in Seq(Types) /\ <<t>> \in Seq(Types)
         /\ <<>> \o r = r /\ <<>> \o s = s
    BY <1>5, <1>6, <1>11, EmptySeq, ConcatEmptySeq
  <1>13. ASSUME \/ ~InCall(c) \/ CType(c) # t
                \/ pc[c] \notin {"wait", "check"}
         PROVE  Slot(c)' = Slot(c)
    <2>1. InSlot(c)' <=> InSlot(c)
      BY <1>8, <1>9, <1>13 DEF InSlot, InCall, Lines
    <2> QED
      BY <1>8, <2>1 DEF Slot
  <1>14. CASE reqs[k].caller # c
    <2>1. ~InCall(c) \/ CType(c) # t
      <3>1. reqs[k].caller \in Callers /\ t \in TypesOf[reqs[k].caller]
        BY <1>3, <1>4, <1>5, EntryParts DEF HistoryInv, EntryOK
      <3> QED
        BY <1>14, <3>1, TypeOfCall DEF TypesApart
    <2>2. Arriving(c)' = Arriving(c)
      BY <1>6, <1>7, <1>12, <1>13, <1>14, <2>1, ArrivingParts
    <2> QED
      BY <1>10, <2>2 DEF Move, LineMove
  <1>15. CASE reqs[k].caller = c
    <2>0. PICK y \in Seq(Types) : y = <<t>>
      BY <1>12
    <2>1. Coming(c) = y \o r
      BY <1>7, <1>15, <2>0
    <2>2. Dropped(Arriving(c), Arriving(c)') \/ Arriving(c)' = Arriving(c)
      <3>1. CASE Slot(c)' = Slot(c)
        <4>1. Dropped(s \o (y \o r), s \o r)
          BY <1>6, <1>11, <2>0, DropMiddle
        <4> QED
          BY <1>6, <1>11, <2>1, <3>1, <4>1, ArrivingParts
      <3>2. CASE InCall(c) /\ CType(c) = t /\ pc[c] \in {"wait", "check"}
        <4>1. Slot(c)' = y
          BY <1>8, <1>9, <2>0, <3>2 DEF Slot, InSlot
        <4>2. Arriving(c)' = y \o r
          BY <1>6, <4>1, ArrivingParts
        <4>3. CASE InSlot(c)
          <5>1. Slot(c) = y
            BY <2>0, <3>2, <4>3 DEF Slot
          <5> QED
            BY <3>1, <4>1, <5>1
        <4>4. CASE ~InSlot(c)
          <5>1. s = <<>>
            BY <1>11, <4>4 DEF Slot
          <5>2. <<>> \o (y \o r) = y \o r
            BY <1>6, <2>0, ConcatProperties, ConcatEmptySeq
          <5> QED
            BY <1>11, <2>1, <4>2, <5>1, <5>2, ArrivingParts
        <4> QED
          BY <4>3, <4>4
      <3> QED
        BY <1>13, <3>1, <3>2
    <2> QED
      BY <1>10, <2>2 DEF Move, LineMove
  <1> QED
    BY <1>14, <1>15

\* Every step is one of every line, or leaves it alone.
LEMMA NextMove ==
    ASSUME TypesApart, TypeInv, HistoryInv, SendersInv, Lines,
           [Next]_vars, NEW c \in Callers
    PROVE  Move(c)
  <1> USE DEF owner, flags, clients, net, receiver
  <1>0. pc \in [Callers -> {"idle", "send", "sent", "wait", "check"}]
        /\ pending \in [Types -> [received : BOOLEAN, data : Nat]]
    BY DEF TypeInv, TypeOK
  <1>1. ASSUME UNCHANGED <<reqs, curr, pending, served>>, First' = First,
               pc' = pc
        PROVE  Move(c)
    BY <1>1, QuietMove DEF InCall
  <1>2. CASE ConnectOk
    <2>1. CASE rpc = "none"
      BY <1>2, <2>1, ConnectMove
    <2>2. CASE rpc # "none"
      BY <1>1, <1>2, <2>2 DEF ConnectOk, Abort, First
    <2> QED
      BY <2>1, <2>2
  <1>3. ASSUME NEW d \in Callers, NEW t \in TypesOf[d], SendMessage(d, t)
        PROVE  Move(c)
    BY <1>3, SendMove
  <1>4. ASSUME NEW d \in Callers, InCall(d), Return(d, 0),
               UNCHANGED <<curr, served, rpc, taken>>,
               \A t \in Types : t # CType(d) => pending'[t] = pending[t]
        PROVE  Move(c)
    <2>1. CASE c = d
      BY <1>4, <2>1, FailMove
    <2>2. CASE c # d
      BY <1>4, <2>2, OtherReturn
    <2> QED
      BY <2>1, <2>2
  <1>5. ASSUME NEW d \in Callers, BeginWait(d) PROVE Move(c)
    <2>1. /\ pc[d] = "sent" /\ UNCHANGED <<curr, served, rpc, taken>>
          /\ pending' = [pending EXCEPT ![CType(d)].received = FALSE]
      BY <1>5 DEF BeginWait
    <2>2. InCall(d) /\ ~InSlot(d)
      BY <2>1 DEF InCall, InSlot
    <2>3. CType(d) \in Types
      BY <2>2 DEF Lines
    <2>4. /\ \A t \in Types : t # CType(d) => pending'[t] = pending[t]
          /\ pending'[CType(d)].received = FALSE
      BY <1>0, <2>1, <2>3
    <2>5. CASE Return(d, 0)
      BY <1>4, <2>1, <2>2, <2>4, <2>5
    <2>6. CASE reqs' = reqs /\ pc' = [pc EXCEPT ![d] = "wait"]
      <3>1. InSlot(d) = FALSE
        BY <1>0, <2>1, <2>3 DEF InSlot
      <3> QED
        BY <2>1, <2>4, <2>6, <3>1, WaitMove
    <2> QED
      BY <1>5, <2>5, <2>6 DEF BeginWait
  <1>6. ASSUME NEW d \in Callers, Recheck(d) PROVE Move(c)
    <2>1. pc[d] = "check" /\ UNCHANGED <<curr, served, rpc, taken>>
      BY <1>6 DEF Recheck
    <2>2. InCall(d)
      BY <2>1 DEF InCall
    <2>3. CType(d) \in Types
      BY <2>2 DEF Lines
    <2>4. CASE Return(d, 0) /\ UNCHANGED pending
      BY <1>4, <2>1, <2>2, <2>4
    <2>5. CASE /\ Return(d, pending[CType(d)].data)
               /\ pending[CType(d)].received
               /\ pending' = [pending EXCEPT ![CType(d)].received = FALSE]
      <3>1. /\ pending[CType(d)].data \in Nat
            /\ \A t \in Types : t # CType(d) => pending'[t] = pending[t]
        BY <1>0, <2>3, <2>5
      <3>2. CASE c = d
        <4>1. InSlot(c)
          BY <2>1, <2>5, <3>2 DEF InSlot
        <4> QED
          BY <2>1, <2>5, <3>1, <3>2, <4>1, ReceiveMove
      <3>3. CASE c # d
        BY <2>1, <2>2, <2>5, <3>1, <3>3, OtherReturn
      <3> QED
        BY <3>2, <3>3
    <2>6. CASE /\ ~pending[CType(d)].received
               /\ pc' = [pc EXCEPT ![d] = "wait"]
               /\ UNCHANGED <<pending, reqs>>
      <3>1. InSlot(d) = FALSE /\ pending'[CType(d)].received = FALSE
        <4>1. pending[CType(d)].received \in BOOLEAN
          BY <1>0, <2>3
        <4> QED
          BY <2>6, <4>1 DEF InSlot
      <3>2. \A t \in Types : t # CType(d) => pending'[t] = pending[t]
        BY <2>6
      <3> QED
        BY <2>1, <2>6, <3>1, <3>2, WaitMove
    <2> QED
      BY <1>6, <2>4, <2>5, <2>6 DEF Recheck
  <1>7. ASSUME NEW d \in Callers, Timeout(d) PROVE Move(c)
    <2>1. /\ Return(d, 0) /\ pending' = pending
          /\ UNCHANGED <<curr, served, rpc, taken>>
      BY <1>7 DEF Timeout
    <2>2. InCall(d)
      BY <1>7 DEF Timeout, InCall
    <2> QED
      BY <1>4, <2>1, <2>2
  <1>8. ASSUME NEW d \in Callers,
               \/ StartRequest(d) \/ SendFail(d) \/ SendSigpipe(d)
               \/ SpuriousWakeup(d)
        PROVE  Move(c)
    <2>1. /\ UNCHANGED <<reqs, curr, pending, served>> /\ First' = First
      BY <1>8
      DEF StartRequest, SendFail, SendSigpipe, SpuriousWakeup, First
    <2>2. InCall(c)' <=> InCall(c)
      BY <1>0, <1>8
      DEF StartRequest, SendFail, SendSigpipe, SpuriousWakeup, InCall
    <2>3. pc'[c] \in {"wait", "check"} <=> pc[c] \in {"wait", "check"}
      BY <1>0, <1>8
      DEF StartRequest, SendFail, SendSigpipe, SpuriousWakeup
    <2> QED
      BY <2>1, <2>2, <2>3, QuietMove
  <1>9. CASE DisconnectNotify
    <2>1. /\ UNCHANGED <<reqs, curr, pending, served>> /\ First' = First
      BY <1>9 DEF DisconnectNotify, First
    <2>2. InCall(c)' <=> InCall(c)
      BY <1>0, <1>9 DEF DisconnectNotify, NotifyAll, InCall
    <2>3. pc'[c] \in {"wait", "check"} <=> pc[c] \in {"wait", "check"}
      BY <1>0, <1>9 DEF DisconnectNotify, NotifyAll
    <2> QED
      BY <2>1, <2>2, <2>3, QuietMove
  <1>10. CASE RecvStore
    BY <1>10, StoreMove
  <1>11. CASE Serve
    BY <1>11, ServeMove
  <1>12. CASE RecvBody
    <2>1. First' = First
      BY <1>12 DEF RecvBody, First
    <2> QED
      BY <1>1, <1>12, <2>1 DEF RecvBody
  <1>13. CASE \/ ConnectFail \/ Disconnect \/ Destroy \/ DisconnectClose
              \/ DisconnectJoin \/ Destruct
    <2>1. First' = First
      BY <1>13
      DEF ConnectFail, Disconnect, Destroy, DisconnectFlags, DisconnectClose,
          DisconnectJoin, Destruct, Abort, First
    <2> QED
      BY <1>1, <1>13, <2>1
      DEF ConnectFail, Disconnect, Destroy, DisconnectFlags, DisconnectClose,
          DisconnectJoin, Destruct, Abort
  <1>14. CASE \/ RecvTop \/ RecvPollTimeout \/ RecvHeader \/ RecvLost
              \/ PeerClose \/ UNCHANGED vars
    <2>1. First' = First
      BY <1>14
      DEF RecvTop, RecvPollTimeout, RecvHeader, RecvLost, PeerClose, vars, First
    <2> QED
      BY <1>1, <1>14, <2>1
      DEF RecvTop, RecvPollTimeout, RecvHeader, RecvLost, PeerClose, vars
  <1> QED
    BY <1>2, <1>3, <1>5, <1>6, <1>7, <1>8, <1>9, <1>10, <1>11, <1>12, <1>13,
       <1>14
    DEF Next, OwnerStep, RecvStep, CallStep

LEMMA LineInits == Init => \A c \in Callers : Line(c)!LineInit
  <1> SUFFICES ASSUME Init, NEW c \in Callers PROVE Line(c)!LineInit
    OBVIOUS
  <1>1. /\ pc[c] = "idle" /\ Len(reqs) = 0 /\ served = 0 /\ taken = 0
        /\ rpc = "none"
    BY DEF Init
  <1>2. CallOf(c) = [op |-> "none", arg |-> <<>>]
    BY <1>1 DEF CallOf, InCall
  <1>3. RequestsOf(c, reqs, 1, 0) = <<>>
    BY NoRequests
  <1>4. Waiting(c) = <<>>
    BY <1>1, <1>3 DEF Waiting
  <1>5. Arriving(c) = <<>>
    <2>1. <<>> \o <<>> = <<>>
      OBVIOUS
    <2> QED
      BY <1>1, <1>3, <2>1 DEF Arriving, InSlot
  <1>6. SentOf(c) = <<>> /\ BackOf(c) = <<>>
    BY <1>4, <1>5 DEF SentOf, BackOf
  <1> QED
    BY <1>2, <1>6 DEF Line!LineInit, Line!NoCall

\* When no two threads share a type, each of them sees a line of its own
\* under all that the other threads, the receive thread, disconnect() and
\* new connections do: NetworkClient implements ClientLine.
THEOREM ImplementsLine == ASSUME TypesApart PROVE Spec => LineSpec
  <1> DEFINE Inv == TypeInv /\ HistoryInv /\ SendersInv
             Lined == \A c \in Callers : [Line(c)!Next]_(Line(c)!line)
  <1>1. Init => Inv /\ \A c \in Callers : Line(c)!LineInit
    BY TypeInit, HistoryInit, SendersInit, LineInits
  <1>2. Inv /\ [Next]_vars => Inv'
    BY TypeStep, HistoryStep, SendersStep
  <1>3. ASSUME Inv, Inv', [Next]_vars, NEW c \in Callers
        PROVE  [Line(c)!Next]_(Line(c)!line)
    <2>1. Lines /\ Lines'
      BY <1>3, LinesTyped, LinesNext
    <2>2. Move(c)
      BY <1>3, <2>1, NextMove
    <2>3. /\ CallType(c) \in Ops /\ CallType(c)' \in Ops
          /\ Waiting(c) \in Seq(Types) /\ Waiting(c)' \in Seq(Types)
          /\ Arriving(c) \in Seq(Types) /\ Arriving(c)' \in Seq(Types)
      BY <2>1 DEF Lines
    <2> QED
      BY <2>2, <2>3, MoveOfLine DEF Move
  <1>4. Inv /\ Inv' /\ [Next]_vars => [Lined]_vars
    BY <1>3
  <1> HIDE DEF Inv, Lined
  <1>5. Spec => [][Lined]_vars
    BY <1>1, <1>2, <1>4, PTL DEF Spec
  <1>6. Spec => \A c \in Callers : Line(c)!LineInit
    BY <1>1 DEF Spec
  <1> QED
    BY <1>5, <1>6 DEF LineSpec, Lined

-----------------------------------------------------------------------------
(* The life of the receive thread.                                         *)

LifeInv ==
    /\ ConnectedMeansServiced
    /\ StoppedMeansJoined
    /\ ctl \in {"notify", "close", "join"} => ~connected /\ ~running

LEMMA LifeInit == Init => LifeInv
  BY DEF Init, LifeInv, ConnectedMeansServiced, StoppedMeansJoined

LEMMA LifeStep == TypeInv /\ LifeInv /\ [Next]_vars => LifeInv'
  <1> SUFFICES ASSUME TypeInv, LifeInv, [Next]_vars PROVE LifeInv'
    OBVIOUS
  <1> USE DEF LifeInv, ConnectedMeansServiced, StoppedMeansJoined, TypeInv,
              TypeOK, Alive, owner, flags, clients, net, receiver
  <1>1. CASE ConnectOk \/ ConnectFail \/ Disconnect \/ Destroy
    BY <1>1 DEF ConnectOk, ConnectFail, Disconnect, Destroy, DisconnectFlags,
                Abort
  <1>2. CASE OwnerStep
    BY <1>2 DEF OwnerStep, DisconnectNotify, DisconnectClose, DisconnectJoin,
                Destruct, Abort
  <1>3. CASE RecvStep
    BY <1>3 DEF RecvStep, RecvTop, RecvPollTimeout, RecvHeader, RecvBody,
                RecvLost, RecvStore
  <1>4. ASSUME NEW c \in Callers,
               StartRequest(c) \/ CallStep(c) \/ Timeout(c) \/ SpuriousWakeup(c)
        PROVE  LifeInv'
    <2>1. CASE UNCHANGED <<owner, flags, rpc>>
      BY <2>1
    <2>2. CASE SendFail(c)
      BY <2>2 DEF SendFail
    <2>3. CASE SendSigpipe(c)
      BY <2>3 DEF SendSigpipe
    <2> QED
      BY <1>4, <2>1, <2>2, <2>3
      DEF StartRequest, CallStep, SendMessage, BeginWait, Recheck, Timeout,
          SpuriousWakeup
  <1>5. CASE Serve \/ PeerClose \/ UNCHANGED vars
    BY <1>5 DEF Serve, PeerClose, vars
  <1> QED
    BY <1>1, <1>2, <1>3, <1>4, <1>5 DEF Next

\* The flags of the connection and the control points of the receive thread
\* and of disconnect() stay in step: the strengthening from which the next
\* two theorems follow.
THEOREM Life == Spec => [](TypeInv /\ LifeInv)
  <1>1. Init => TypeInv /\ LifeInv
    BY TypeInit, LifeInit
  <1>2. TypeInv /\ LifeInv /\ [Next]_vars => (TypeInv /\ LifeInv)'
    BY TypeStep, LifeStep
  <1> QED
    BY <1>1, <1>2, PTL DEF Spec

\* isConnected() implies a socket and a live receive thread.
THEOREM ConnectedIsServiced == Spec => []ConnectedMeansServiced
  BY Life, PTL DEF LifeInv

\* When disconnect() is back, the receive thread has ended.
THEOREM StoppedIsJoined == Spec => []StoppedMeansJoined
  BY Life, PTL DEF LifeInv

-----------------------------------------------------------------------------
(* Waiting and waking.                                                     *)

LEMMA NotifyInit == Init => NoMissedNotify
  BY DEF Init, NoMissedNotify

LEMMA NotifyStep ==
    TypeInv /\ LifeInv /\ NoMissedNotify /\ [Next]_vars => NoMissedNotify'
  <1> SUFFICES ASSUME TypeInv, LifeInv, NoMissedNotify, [Next]_vars,
                      NEW c \in Callers, pc'[c] = "wait"
               PROVE  /\ ~pending'[(CType(c))'].received
                      /\ Alive' => running' \/ ctl' = "notify"
    BY DEF NoMissedNotify
  <1> USE DEF TypeInv, TypeOK, owner, flags, clients, net, receiver, Alive
  <1>1. pc[c] = "wait" =>
          /\ curr[c] \in 1..Len(reqs)
          /\ CType(c) \in Types
          /\ ~pending[CType(c)].received
          /\ Alive => running \/ ctl = "notify"
    BY EntryTypes DEF NoMissedNotify, Links, CType
  <1> HIDE DEF TypeInv, TypeOK
  <1>0. ASSUME NEW d \in Callers, pc[d] \in {"sent", "wait", "check"},
               NEW a \in Nat, Return(d, a)
        PROVE  /\ c # d /\ pc[c] = "wait"
               /\ reqs'[curr[c]].type = reqs[curr[c]].type
    <2>1. c # d /\ pc[c] = "wait"
      BY <1>0 DEF Return, TypeInv, TypeOK
    <2>2. \A i \in 1..Len(reqs) : reqs'[i].type = reqs[i].type
      BY <1>0, ReturnKeeps
    <2>3. curr[c] \in 1..Len(reqs)
      BY <1>1, <2>1
    <2>4. reqs'[curr[c]].type = reqs[curr[c]].type
      BY <2>2, <2>3
    <2> QED
      BY <2>1, <2>4
  \* The thread c was waiting, its slot stays as empty as it was.
  <1>2. CASE /\ pc[c] = "wait" /\ curr'[c] = curr[c]
             /\ reqs'[curr[c]].type = reqs[curr[c]].type
             /\ pending'[CType(c)].received => pending[CType(c)].received
             /\ Alive' => Alive /\ (running \/ ctl = "notify" =>
                                       running' \/ ctl' = "notify")
    BY <1>1, <1>2 DEF CType
  <1>3. CASE ConnectOk \/ ConnectFail \/ Disconnect \/ Destroy
    <2>1. pc[c] = "wait" /\ UNCHANGED <<pc, curr, reqs, pending>>
      BY <1>3 DEF ConnectOk, ConnectFail, Disconnect, Destroy,
                  DisconnectFlags, Abort
    <2>2. Alive' => Alive /\ (running \/ ctl = "notify" =>
                                 running' \/ ctl' = "notify")
      BY <1>3, <2>1 DEF ConnectOk, ConnectFail, Disconnect, Destroy,
                        DisconnectFlags, Abort, LifeInv
    <2> QED
      BY <1>2, <2>1, <2>2
  <1>4. CASE DisconnectNotify
    BY <1>4 DEF DisconnectNotify, NotifyAll, TypeInv, TypeOK
  <1>5. CASE DisconnectClose \/ DisconnectJoin \/ Destruct
    BY <1>1, <1>2, <1>5 DEF DisconnectClose, DisconnectJoin, Destruct, Abort
  <1>6. ASSUME NEW d \in Callers,
               StartRequest(d) \/ SendFail(d) \/ SendSigpipe(d)
        PROVE  /\ ~pending'[(CType(c))'].received
               /\ Alive' => running' \/ ctl' = "notify"
    BY <1>2, <1>6 DEF StartRequest, SendFail, SendSigpipe, TypeInv, TypeOK
  <1>7. ASSUME NEW d \in Callers, NEW t \in TypesOf[d], SendMessage(d, t)
        PROVE  /\ ~pending'[(CType(c))'].received
               /\ Alive' => running' \/ ctl' = "notify"
    <2>1. c # d /\ pc[c] = "wait" /\ curr'[c] = curr[c]
      BY <1>7 DEF SendMessage, TypeInv, TypeOK
    <2>2. [caller |-> d, type |-> t, conn |-> conns, answer |-> 0,
           returned |-> FALSE] \in Outcome
      BY TypesOfAssumption DEF Outcome, TypeInv, TypeOK
    <2>3. \A i \in 1..Len(reqs) : reqs'[i] = reqs[i]
      BY <1>7, <2>2, SendSeq DEF SendMessage, TypeInv, TypeOK
    <2>4. reqs'[curr[c]] = reqs[curr[c]]
      BY <1>1, <2>1, <2>3
    <2> QED
      BY <1>2, <2>4, <1>7, <2>1, <2>3 DEF SendMessage, TypeInv, TypeOK
  <1>8. ASSUME NEW d \in Callers, BeginWait(d)
        PROVE  /\ ~pending'[(CType(c))'].received
               /\ Alive' => running' \/ ctl' = "notify"
    <2>1. curr[d] \in 1..Len(reqs) /\ CType(d) \in Types /\ pc[d] = "sent"
      BY <1>8, EntryTypes DEF BeginWait, Links, CType, TypeInv, TypeOK
    <2>2. /\ \A t \in Types :
               pending'[t].received => pending[t].received
          /\ ~pending'[CType(d)].received
          /\ UNCHANGED <<ctl, running, curr>>
      BY <1>8, <2>1 DEF BeginWait, TypeInv, TypeOK
    <2>3. CASE Return(d, 0)
      <3>1. /\ c # d /\ pc[c] = "wait"
            /\ reqs'[curr[c]].type = reqs[curr[c]].type
        BY <1>0, <2>1, <2>3
      <3> QED
        BY <1>1, <1>2, <2>2, <3>1
    <2>5. CASE /\ running /\ UNCHANGED reqs
               /\ pc' = [pc EXCEPT ![d] = "wait"]
      <3>1. CASE c = d
        BY <2>2, <2>5, <3>1 DEF CType
      <3>2. CASE c # d
        BY <1>1, <1>2, <2>2, <2>5, <3>2
      <3> QED
        BY <3>1, <3>2
    <2> QED
      BY <1>8, <2>3, <2>5 DEF BeginWait
  <1>9. ASSUME NEW d \in Callers, Recheck(d)
        PROVE  /\ ~pending'[(CType(c))'].received
               /\ Alive' => running' \/ ctl' = "notify"
    <2>1. curr[d] \in 1..Len(reqs) /\ CType(d) \in Types /\ pc[d] = "check"
      BY <1>9, EntryTypes DEF Recheck, Links, CType, TypeInv, TypeOK
    <2>2. /\ \A t \in Types :
               pending'[t].received => pending[t].received
          /\ UNCHANGED <<ctl, running, curr>>
      BY <1>9, <2>1 DEF Recheck, TypeInv, TypeOK
    <2>3. ASSUME NEW a \in Nat, Return(d, a)
          PROVE  /\ ~pending'[(CType(c))'].received
                 /\ Alive' => running' \/ ctl' = "notify"
      <3>1. /\ c # d /\ pc[c] = "wait"
            /\ reqs'[curr[c]].type = reqs[curr[c]].type
        BY <1>0, <2>1, <2>3
      <3> QED
        BY <1>1, <1>2, <2>2, <3>1
    <2>4. CASE /\ ~pending[CType(d)].received /\ running
               /\ UNCHANGED <<pending, reqs>>
               /\ pc' = [pc EXCEPT ![d] = "wait"]
      <3>1. CASE c = d
        BY <2>2, <2>4, <3>1 DEF CType
      <3>2. CASE c # d
        BY <1>1, <1>2, <2>2, <2>4, <3>2
      <3> QED
        BY <3>1, <3>2
    <2>5. pending[CType(d)].data \in Nat
      BY <2>1 DEF TypeInv, TypeOK
    <2> QED
      BY <1>9, <2>3, <2>4, <2>5 DEF Recheck
  <1>10. ASSUME NEW d \in Callers, Timeout(d)
         PROVE  /\ ~pending'[(CType(c))'].received
                /\ Alive' => running' \/ ctl' = "notify"
    <2>1. /\ Return(d, 0) /\ pc[d] \in {"sent", "wait", "check"}
          /\ UNCHANGED <<owner, flags, receiver, pending, curr, net>>
      BY <1>10 DEF Timeout
    <2>2. /\ pc[c] = "wait"
          /\ reqs'[curr[c]].type = reqs[curr[c]].type
      BY <1>0, <2>1
    <2> QED
      BY <1>2, <2>1, <2>2
  <1>11. ASSUME NEW d \in Callers, SpuriousWakeup(d)
         PROVE  /\ ~pending'[(CType(c))'].received
                /\ Alive' => running' \/ ctl' = "notify"
    BY <1>2, <1>11 DEF SpuriousWakeup, TypeInv, TypeOK
  <1>12. CASE RecvStore
    BY <1>12 DEF RecvStore, NotifyAll, TypeInv, TypeOK
  <1>13. CASE RecvTop \/ RecvPollTimeout \/ RecvHeader \/ RecvBody \/ RecvLost
    BY <1>2, <1>13 DEF RecvTop, RecvPollTimeout, RecvHeader, RecvBody, RecvLost
  <1>14. CASE Serve \/ PeerClose \/ UNCHANGED vars
    BY <1>2, <1>14 DEF Serve, PeerClose, vars
  <1> QED
    BY <1>3, <1>4, <1>5, <1>6, <1>7, <1>8, <1>9, <1>10, <1>11, <1>12, <1>13,
       <1>14
    DEF Next, OwnerStep, RecvStep, CallStep

\* A blocked thread never has a response of its type stored, nor a
\* disconnect() that has already notified: no wakeup is lost.
THEOREM NoLostWakeup == Spec => []NoMissedNotify
  <1>1. Spec => [](TypeInv /\ LifeInv /\ NoMissedNotify)
    <2>1. Init => TypeInv /\ LifeInv /\ NoMissedNotify
      BY TypeInit, LifeInit, NotifyInit
    <2>2. TypeInv /\ LifeInv /\ NoMissedNotify /\ [Next]_vars
            => (TypeInv /\ LifeInv /\ NoMissedNotify)'
      BY TypeStep, LifeStep, NotifyStep
    <2> QED
      BY <2>1, <2>2, PTL DEF Spec
  <1> QED
    BY <1>1, PTL
=============================================================================
