------------------------- MODULE GpioServiceProofs -------------------------
(***************************************************************************)
(* Proofs about GpioService: with a GPIO character device the lines the    *)
(* server holds are exactly those of gpio_pins_, an object stays until its *)
(* pin is closed, and a client that shares its pin with nobody is never    *)
(* wrong about having it open; with either back end the init of a pin that *)
(* nobody has registered yields one that works.  For any number of users,  *)
(* pins, objects and calls under way.                                      *)
(***************************************************************************)
EXTENDS GpioService, RequestLineProofs

USE GpioAssumption

-----------------------------------------------------------------------------
(* Types.                                                                  *)

ServiceType ==
    /\ charDev \in BOOLEAN
    /\ ctrl \in [Pins -> [id : Nat, epoch : Nat]]
    /\ made \in Nat
    /\ holder \in [Pins -> Nat] /\ export \in [Pins -> Nat] /\ up \in BOOLEAN
    /\ wait \in [Users -> Nat]
    /\ isOpen \in [Users -> BOOLEAN]

WaitsForHead == \A u \in Users : wait[u] # 0 => Due(u, "wait")

LEMMA TypeParts ==
    TypeOK <=> ServiceType /\ LineType(Requests, Responses) /\ WaitsForHead
  BY DEF TypeOK, ServiceType, LineType, WaitsForHead

LEMMA InitType == Init => TypeOK
  <1> SUFFICES ASSUME Init PROVE TypeOK
    OBVIOUS
  <1>1. <<>> \in Seq(Requests) /\ <<>> \in Seq(Responses)
    BY EmptySeq
  <1> QED
    BY <1>1 DEF Init, LineInit, TypeOK, NoObject

LEMMA UserType ==
    ASSUME TypeOK, UNCHANGED charDev, NEW u \in Users, UserStep(u)
    PROVE  TypeOK'
  <1>0. LineType(Requests, Responses) /\ ServiceType /\ WaitsForHead
    BY TypeParts
  <1>1. Begun(u) \in Nat
    BY DEF Begun
  <1>2. LineType(Requests, Responses)'
    <2>1. ASSUME NEW r \in Requests, Ask(u, r)
          PROVE  LineType(Requests, Responses)'
      BY <1>0, <2>1, SendType DEF Ask
    <2>2. CASE Take(u) \/ Lose(u) \/ Drop(u) \/ Leave(u)
      BY <1>0, <1>1, <2>2, EndType DEF Take, Lose, Drop, Leave
    <2> QED
      BY <2>1, <2>2 DEF UserStep
  <1>3. ServiceType'
    BY <1>0 DEF ServiceType, UserStep, Ask, Take, Lose, Drop, Leave, service
  <1>4. WaitsForHead'
    <2> SUFFICES ASSUME NEW v \in Users, wait[v] # 0
                 PROVE  Due(v, "wait")'
      BY DEF WaitsForHead, UserStep, Ask, Take, Lose, Drop, Leave
    <2>1. /\ sent[v] \in Seq(Requests) /\ sent[v] # <<>>
          /\ Head(sent[v]).op = "wait"
      BY <1>0 DEF WaitsForHead, Due, LineType
    <2>2. Len(sent[v]) \in Nat \ {0} /\ Head(sent[v]) = sent[v][1]
      BY <2>1, TailElements
    <2>3. ASSUME NEW r \in Requests, Ask(u, r)
          PROVE  Due(v, "wait")'
      <3>1. CASE v = u
        <4>1. sent'[v] = Append(sent[v], r)
          BY <1>0, <2>3, <3>1 DEF Ask, Send, LineType
        <4>2. /\ Len(sent'[v]) = Len(sent[v]) + 1
              /\ sent'[v][1] = sent[v][1]
              /\ sent'[v] \in Seq(Requests)
          BY <2>1, <2>2, <4>1, AppendElements
        <4> QED
          BY <2>1, <2>2, <4>2, EmptySeq, TailElements DEF Due
      <3>2. CASE v # u
        BY <1>0, <2>1, <2>3, <3>2 DEF Ask, Send, LineType, Due
      <3> QED
        BY <3>1, <3>2
    <2>4. CASE Take(u) \/ Drop(u)
      BY <2>1, <2>4 DEF Take, Drop, Receive, Discard, Due
    <2>5. CASE Lose(u) \/ Leave(u)
      <3>1. Cut(u, Begun(u))
        BY <2>5 DEF Lose, Leave, GiveUp, Depart
      <3>2. CASE v = u
        <4>1. PICK n \in 1..Len(sent[v]) : sent'[v] = SubSeq(sent[v], 1, n)
          BY <1>0, <2>2, <3>1, <3>2 DEF Cut, Begun, LineType
        <4>2. /\ sent'[v] \in Seq(Requests) /\ Len(sent'[v]) = n
              /\ sent'[v][1] = sent[v][1]
          BY <2>1, <2>2, <4>1, PrefixElements
        <4> QED
          BY <2>1, <2>2, <4>2, EmptySeq, TailElements DEF Due
      <3>3. CASE v # u
        BY <1>0, <2>1, <3>1, <3>3 DEF Cut, LineType, Due
      <3> QED
        BY <3>2, <3>3
    <2> QED
      BY <2>3, <2>4, <2>5 DEF UserStep
  <1> QED
    BY <1>2, <1>3, <1>4 DEF TypeOK, ServiceType, LineType, WaitsForHead

LEMMA AnswerType ==
    ASSUME TypeOK, NEW u \in Users, NEW b \in BOOLEAN,
           sent[u] # <<>>, Answer(u, b), wait'[u] = 0,
           \A v \in Users : v # u => wait'[v] = wait[v]
    PROVE  LineType(Requests, Responses)' /\ WaitsForHead'
  <1>1. LineType(Requests, Responses) /\ WaitsForHead
    BY TypeParts
  <1>2. Head(sent[u]) \in Requests
    BY <1>1, TailElements DEF LineType
  <1>3. [op |-> Head(sent[u]).op, ok |-> b] \in Responses
    BY <1>2 DEF Requests, Responses
  <1>4. LineType(Requests, Responses)'
    BY <1>1, <1>3, RespondType DEF Answer
  <1>5. ASSUME NEW v \in Users, v # u PROVE sent'[v] = sent[v]
    BY <1>1, <1>5 DEF Answer, Respond, LineType
  <1> QED
    BY <1>1, <1>4, <1>5 DEF WaitsForHead, Due

LEMMA HandleType ==
    ASSUME TypeOK, UNCHANGED charDev, NEW u \in Users, Handle(u)
    PROVE  TypeOK'
  <1> DEFINE p == PinOf[u]
  <1>0. ServiceType /\ LineType(Requests, Responses) /\ WaitsForHead
        /\ p \in Pins
    BY TypeParts
  <1>1. ServiceType'
    <2>1. CASE InitCharDev(u)
      BY <1>0, <2>1 DEF ServiceType, InitCharDev, Answer
    <2>2. CASE InitSysfs(u) \/ InitDenied(u)
      <3>1. Exported(p) \in Nat
        BY <1>0 DEF ServiceType, Exported
      <3>2. CASE InitSysfs(u)
        BY <1>0, <2>2, <3>1, <3>2 DEF ServiceType, InitSysfs, Answer
      <3>3. CASE InitDenied(u)
        BY <1>0, <2>2, <3>1, <3>3 DEF ServiceType, InitDenied, Answer
      <3> QED
        BY <2>2, <3>2, <3>3
    <2>3. CASE Close(u)
      BY <1>0, <2>3 DEF ServiceType, Close, NoObject, Answer
    <2>4. CASE WaitLookup(u) \/ WaitEnd(u)
      <3>1. CASE WaitLookup(u)
        BY <1>0, <3>1 DEF ServiceType, WaitLookup, service
      <3>2. CASE WaitEnd(u)
        BY <1>0, <3>2 DEF ServiceType, WaitEnd, Answer
      <3> QED
        BY <2>4, <3>1, <3>2
    <2>5. CASE UNCHANGED <<service, wait, isOpen>>
      BY <1>0, <2>5 DEF ServiceType, service
    <2> QED
      BY <2>1, <2>2, <2>3, <2>4, <2>5
      DEF Handle, InitBusy, InitRefused, Write, Read, WaitMissing, Answer
  <1>2. LineType(Requests, Responses)' /\ WaitsForHead'
    <2>1. CASE WaitLookup(u)
      BY <1>0, <2>1 DEF WaitLookup, Asked, LineType, WaitsForHead, ServiceType,
             line, Due
    <2>2. CASE WaitEnd(u)
      <3>1. sent[u] # <<>> /\ wait'[u] = 0
            /\ \A v \in Users : v # u => wait'[v] = wait[v]
        BY <1>0, <2>2 DEF WaitEnd, WaitsForHead, ServiceType, Due
      <3> QED
        BY <2>2, <3>1, AnswerType DEF WaitEnd
    <2>3. ASSUME NEW b \in BOOLEAN, NEW o \in {"init", "close", "write", "read"},
                 Asked(u, o), Answer(u, b), UNCHANGED wait
          PROVE  LineType(Requests, Responses)' /\ WaitsForHead'
      <3>1. sent[u] # <<>> /\ wait[u] = 0
        BY <1>0, <2>3 DEF Asked, WaitsForHead, Due
      <3> QED
        BY <2>3, <3>1, AnswerType
    <2>4. CASE WaitMissing(u)
      BY <2>4, AnswerType DEF WaitMissing, Asked, Due
    <2>5. CASE Write(u)
      <3>1. Works(PinOf[u]) \in BOOLEAN
        BY DEF Works, Has
      <3> QED
        BY <2>3, <2>5, <3>1 DEF Write
    <2>6. CASE Read(u)
      <3>1. Has(PinOf[u]) \in BOOLEAN
        BY DEF Has
      <3> QED
        BY <2>3, <2>6, <3>1 DEF Read
    <2>7. CASE InitCharDev(u) \/ InitBusy(u) \/ InitRefused(u)
               \/ InitSysfs(u) \/ InitDenied(u) \/ Close(u)
      BY <2>3, <2>7 DEF InitCharDev, InitBusy, InitRefused, InitSysfs,
             InitDenied, Close
    <2> QED
      BY <2>1, <2>2, <2>4, <2>5, <2>6, <2>7 DEF Handle
  <1> QED
    BY <1>1, <1>2 DEF TypeOK, ServiceType, LineType, WaitsForHead

LEMMA NextType == TypeOK /\ [Next]_vars => TypeOK'
  <1> SUFFICES ASSUME TypeOK, [Next]_vars PROVE TypeOK'
    OBVIOUS
  <1>1. CASE UNCHANGED vars
    BY <1>1 DEF TypeOK, vars, service, line, Due
  <1>2. ASSUME NEW u \in Users, UserStep(u) \/ Handle(u), UNCHANGED charDev
        PROVE  TypeOK'
    BY <1>2, UserType, HandleType
  <1> QED
    BY <1>1, <1>2 DEF Next

\* Every variable keeps its type, and a handler that waits has the request it
\* waits for before it, in both back ends.
THEOREM TypeCorrect == Spec => []TypeOK
  <1> QED
    BY InitType, NextType, PTL DEF Spec

-----------------------------------------------------------------------------
(* The lines held are those of gpio_pins_.                                 *)

\* A client step does not touch the service.
LEMMA ClientStep ==
    ASSUME NEW u \in Users, UserStep(u)
    PROVE  UNCHANGED service
  BY DEF UserStep, Ask, Take, Lose, Drop, Leave

\* With a character device, two handlers change the map and the lines.
LEMMA MapSteps ==
    ASSUME charDev, NEW u \in Users, Handle(u)
    PROVE  InitCharDev(u) \/ Close(u) \/ UNCHANGED <<ctrl, holder>>
  BY DEF Handle, InitBusy, InitRefused, InitSysfs, InitDenied, Write, Read,
         WaitMissing, WaitLookup, WaitEnd, service

LEMMA HandleLine ==
    ASSUME TypeOK, LineMatchesMap, charDev, NEW u \in Users, Handle(u)
    PROVE  LineMatchesMap'
  <1> DEFINE p == PinOf[u]
  <1>0. p \in Pins
    OBVIOUS
  <1>1. CASE InitCharDev(u)
    BY <1>0, <1>1 DEF TypeOK, LineMatchesMap, InitCharDev
  <1>2. CASE Close(u)
    BY <1>0, <1>2 DEF TypeOK, LineMatchesMap, Close, NoObject
  <1>3. CASE UNCHANGED <<ctrl, holder>>
    BY <1>3 DEF LineMatchesMap
  <1> QED
    BY <1>1, <1>2, <1>3, MapSteps

LEMMA NextLine == TypeOK /\ LineMatchesMap /\ [Next]_vars => LineMatchesMap'
  <1> SUFFICES ASSUME TypeOK, LineMatchesMap, charDev, [Next]_vars
               PROVE  LineMatchesMap'
    BY DEF LineMatchesMap, Next, vars
  <1>1. CASE UNCHANGED vars
    BY <1>1 DEF LineMatchesMap, vars, service
  <1>2. ASSUME NEW u \in Users, UserStep(u)
        PROVE  LineMatchesMap'
    BY <1>2, ClientStep DEF LineMatchesMap, service
  <1> QED
    BY <1>1, <1>2, HandleLine DEF Next

\* With a character device, the lines the server process holds are the lines
\* of the objects in gpio_pins_, whatever clients come, fail and go.
THEOREM LinesAreRegistered == Spec => []LineMatchesMap
  <1>1. Init => LineMatchesMap
    BY DEF Init, LineMatchesMap, NoObject
  <1> QED
    BY <1>1, NextLine, TypeCorrect, PTL DEF Spec

LEMMA StepHeld ==
    ASSUME TypeOK, LineMatchesMap, charDev, [Next]_vars,
           NEW p \in Pins, Has(p), ctrl'[p] # ctrl[p]
    PROVE  \E u \in Users : PinOf[u] = p /\ Due(u, "close")
  <1>1. PICK u \in Users : Handle(u)
    BY ClientStep DEF Next, vars, service
  <1>2. ~InitCharDev(u) \/ PinOf[u] # p
    BY DEF LineMatchesMap, InitCharDev, Has
  <1>3. PinOf[u] = p /\ Close(u)
    BY <1>1, <1>2, MapSteps DEF TypeOK, InitCharDev, Close
  <1> QED
    BY <1>3 DEF Close, Asked

\* With a character device, only a GPIO_CLOSE for its pin takes an object out
\* of gpio_pins_: the assignment in handleGpioInit never replaces one.
THEOREM InitNeverReplaces == Spec => HeldUntilClosed
  <1>1. TypeOK /\ LineMatchesMap /\ [Next]_vars =>
          [charDev => \A p \in Pins :
              Has(p) /\ ctrl'[p] # ctrl[p] =>
                  \E u \in Users : PinOf[u] = p /\ Due(u, "close")]_vars
    BY StepHeld
  <1> QED
    BY <1>1, TypeCorrect, LinesAreRegistered, PTL DEF Spec, HeldUntilClosed

\* Only the two inits that succeed register an object where there was none,
\* and what they leave in the kernel is what the object was made with.
LEMMA StepFresh ==
    ASSUME TypeOK, [Next]_vars, NEW p \in Pins, ~Has(p), Has(p)'
    PROVE  Works(p)'
  <1>1. ctrl'[p] # ctrl[p]
    BY DEF Has
  <1>2. PICK u \in Users : Handle(u) /\ charDev' = charDev
    BY <1>1, ClientStep DEF Next, vars, service
  <1>3. PinOf[u] = p /\ (InitCharDev(u) \/ InitSysfs(u) \/ Close(u))
    <2>1. InitCharDev(u) \/ InitSysfs(u) \/ Close(u) \/ UNCHANGED ctrl
      BY <1>2 DEF Handle, InitBusy, InitRefused, InitDenied, Write, Read,
             WaitMissing, WaitLookup, WaitEnd, service
    <2>2. InitCharDev(u) \/ InitSysfs(u) \/ Close(u)
      BY <1>1, <2>1
    <2>3. \E o : ctrl' = [ctrl EXCEPT ![PinOf[u]] = o]
      BY <2>2 DEF InitCharDev, InitSysfs, Close
    <2> QED
      BY <1>1, <2>2, <2>3 DEF TypeOK
  <1>4. CASE InitCharDev(u)
    <2>1. charDev /\ holder'[p] = made + 1 /\ ctrl'[p].id = made + 1
      BY <1>3, <1>4 DEF InitCharDev, TypeOK
    <2> QED
      BY <1>2, <2>1 DEF Works
  <1>5. CASE InitSysfs(u)
    <2>1. /\ ~charDev /\ export'[p] = Exported(p)
          /\ ctrl'[p].epoch = Exported(p)
      BY <1>3, <1>5 DEF InitSysfs, TypeOK
    <2> QED
      BY <1>2, <2>1 DEF Works
  <1>6. CASE Close(u)
    <2>1. ctrl'[p] = NoObject
      BY <1>3, <1>6 DEF Close, TypeOK
    <2> QED
      BY <2>1 DEF Has, NoObject
  <1> QED
    BY <1>3, <1>4, <1>5, <1>6

\* With either back end: whatever exports and dead objects earlier clients
\* left behind, an init of a pin that nobody has registered yields one that
\* works.
THEOREM FreshPinWorks == Spec => FreshInitWorks
  <1>1. TypeOK /\ [Next]_vars =>
            [\A p \in Pins : ~Has(p) /\ Has(p)' => Works(p)']_vars
    BY StepFresh
  <1> QED
    BY <1>1, TypeCorrect, PTL DEF Spec, FreshInitWorks

-----------------------------------------------------------------------------
(* Init and close are a lock on the pin.                                   *)

\* The closes of u, and its closes and waits, that are not handled yet; the
\* responses of granted inits that have not arrived.
Closes(u) == {i \in 1..Len(sent[u]) : sent[u][i].op = "close"}
Uses(u) == {i \in 1..Len(sent[u]) : sent[u][i].op \in {"close", "wait"}}
Grants(u) == {i \in 1..Len(back[u]) : back[u][i].op = "init" /\ back[u][i].ok}

\* u acts on the pin, or will.
Claims(u) == Uses(u) # {} \/ Grants(u) # {} \/ Believes(u)

\* The strengthening, for one user: its pin is registered while it claims it;
\* a close is the last use that is under way; at most one grant is under way,
\* and then u neither believes the pin open nor closes it; while u waits for
\* the response to a close, that close is its last request or is handled.
Own(u) == LET n == Len(sent[u]) IN
    /\ Claims(u) => Has(PinOf[u])
    /\ \A i \in Closes(u), j \in Uses(u) : j <= i
    /\ \A i \in Grants(u) : /\ Closes(u) = {} /\ ~isOpen[u]
                            /\ \A j \in Grants(u) : i = j
    /\ Believes(u) => Closes(u) = {}
    /\ isOpen[u] /\ call[u].op = "close" => n = 0 \/ Closes(u) = {n}
    /\ wait[u] # 0 => wait[u] = ctrl[PinOf[u]].id

\* ... and for all: a pin is claimed by one user at most.
OneClaim ==
    \A u, w \in Users : Claims(u) /\ Claims(w) /\ PinOf[u] = PinOf[w] => u = w

OwnInv == charDev => OneClaim /\ \A u \in Users : Own(u)

LEMMA OwnTypes ==
    ASSUME TypeOK, NEW u \in Users
    PROVE  /\ sent[u] \in Seq(Requests) /\ Len(sent[u]) \in Nat
           /\ back[u] \in Seq(Responses) /\ Len(back[u]) \in Nat
           /\ isOpen[u] \in BOOLEAN /\ PinOf[u] \in Pins
           /\ Closes(u) \subseteq Uses(u)
  BY LenProperties DEF TypeOK, Closes, Uses

\* A handler that waits claims its user's pin.
LEMMA WaiterClaims ==
    ASSUME TypeOK, NEW u \in Users, wait[u] # 0
    PROVE  1 \in Uses(u)
  <1>1. Due(u, "wait")
    BY DEF TypeOK
  <1> QED
    BY <1>1, OwnTypes, TailElements DEF Due, Uses

LEMMA Unmoved ==
    ASSUME NEW u \in Users, call'[u] = call[u], sent'[u] = sent[u],
           back'[u] = back[u], isOpen'[u] = isOpen[u]
    PROVE  /\ Closes(u)' = Closes(u) /\ Uses(u)' = Uses(u)
           /\ Grants(u)' = Grants(u) /\ (Believes(u)' <=> Believes(u))
           /\ (Claims(u)' <=> Claims(u))
  BY DEF Closes, Uses, Grants, Believes, Claims

LEMMA OwnSame ==
    ASSUME NEW u \in Users, Own(u), wait'[u] = wait[u],
           ctrl'[PinOf[u]] = ctrl[PinOf[u]], call'[u] = call[u],
           sent'[u] = sent[u], back'[u] = back[u], isOpen'[u] = isOpen[u]
    PROVE  Own(u)'
  BY Unmoved DEF Own, Has

-----------------------------------------------------------------------------
(* The steps of the client.                                                *)

\* What is left of the requests and responses of u.
LEMMA FewerGrants ==
    ASSUME TypeOK, NEW u \in Users, back[u] # <<>>, back'[u] = Tail(back[u])
    PROVE  \A i \in Grants(u)' : i + 1 \in Grants(u) /\ i \in Nat \ {0}
  BY OwnTypes, TailElements DEF Grants

LEMMA FewerUses ==
    ASSUME TypeOK, NEW u \in Users, sent[u] # <<>>, sent'[u] = Tail(sent[u])
    PROVE  /\ \A i \in Closes(u)' : i + 1 \in Closes(u) /\ i \in Nat \ {0}
           /\ \A i \in Uses(u)' : i + 1 \in Uses(u) /\ i \in Nat \ {0}
           /\ \A i \in Closes(u) : i = 1 \/ i - 1 \in Closes(u)'
           /\ Len(sent'[u]) = Len(sent[u]) - 1 /\ Len(sent[u]) \in Nat \ {0}
           /\ 1 \in Closes(u) <=> Head(sent[u]).op = "close"
  BY OwnTypes, TailElements DEF Closes, Uses

LEMMA CutUses ==
    ASSUME TypeOK, NEW u \in Users, NEW b \in Nat, Cut(u, b)
    PROVE  Closes(u)' \subseteq Closes(u) /\ Uses(u)' \subseteq Uses(u)
  <1>1. PICK n \in b..Len(sent[u]) : sent'[u] = SubSeq(sent[u], 1, n)
    BY DEF Cut, TypeOK
  <1>2. /\ n \in 0..Len(sent[u]) /\ Len(sent'[u]) = n
        /\ \A i \in 1..n : sent'[u][i] = sent[u][i]
    BY <1>1, OwnTypes, PrefixElements
  <1> QED
    BY <1>2, OwnTypes DEF Closes, Uses

\* A call that is made while u claims the pin, or an init.
LEMMA OwnAsk ==
    ASSUME TypeOK, NEW u \in Users, Own(u), NEW r \in Requests, Ask(u, r)
    PROVE  Own(u)' /\ (Claims(u)' => Claims(u))
  <1>1. /\ call[u] = NoCall /\ call'[u] = r
        /\ sent'[u] = Append(sent[u], r) /\ back'[u] = back[u]
        /\ isOpen'[u] = isOpen[u] /\ ctrl' = ctrl /\ wait' = wait
        /\ r.op # "init" => isOpen[u]
    BY DEF Ask, Send, Idle, TypeOK, service
  <1>2. Believes(u) <=> isOpen[u]
    BY <1>1 DEF NoCall, Believes
  <1>3. Grants(u)' = Grants(u)
    BY <1>1 DEF Grants
  <1>4. /\ Len(sent'[u]) = Len(sent[u]) + 1
        /\ \A i \in 1..Len(sent[u]) : sent'[u][i] = sent[u][i]
        /\ sent'[u][Len(sent[u]) + 1] = r
    BY <1>1, OwnTypes, AppendElements
  <1>5. CASE r.op = "close"
    <2>0. r.op \in {"close", "wait"}
      BY <1>5
    <2>1. /\ Closes(u)' = Closes(u) \cup {Len(sent'[u])}
          /\ Uses(u)' = Uses(u) \cup {Len(sent'[u])}
      <3>1. Closes(u)' = Closes(u) \cup {Len(sent'[u])}
        BY <1>4, <1>5, OwnTypes DEF Closes
      <3>2. Uses(u)' = Uses(u) \cup {Len(sent'[u])}
        BY <1>4, <2>0, OwnTypes DEF Uses
      <3> QED
        BY <3>1, <3>2
    <2>2. /\ Claims(u) /\ Has(PinOf[u]) /\ Closes(u) = {} /\ Grants(u) = {}
          /\ \A j \in Uses(u) : j <= Len(sent[u]) /\ j \in Nat
      BY <1>1, <1>2, <1>5, OwnTypes DEF Own, Claims, Uses
    <2>3. ~Believes(u)'
      BY <1>1, <1>5 DEF Believes
    <2> QED
      BY <1>1, <1>3, <1>4, <2>1, <2>2, <2>3, OwnTypes DEF Own, Has
  <1>6. CASE r.op = "wait"
    <2>0. r.op \in {"close", "wait"} /\ r.op # "close"
      BY <1>6
    <2>1. Closes(u)' = Closes(u) /\ Uses(u)' = Uses(u) \cup {Len(sent'[u])}
      <3>1. Closes(u)' = Closes(u)
        BY SMTT(30), <1>4, <2>0, OwnTypes DEF Closes
      <3>2. Uses(u)' = Uses(u) \cup {Len(sent'[u])}
        BY <1>4, <2>0, OwnTypes DEF Uses
      <3> QED
        BY <3>1, <3>2
    <2>2. Claims(u) /\ Has(PinOf[u]) /\ Closes(u) = {} /\ Grants(u) = {}
      BY <1>1, <1>2, <1>6 DEF Own, Claims
    <2> QED
      BY <1>1, <1>3, <1>6, <2>1, <2>2 DEF Own, Has
  <1>7. CASE r.op \notin {"close", "wait"}
    <2>1. Closes(u)' = Closes(u) /\ Uses(u)' = Uses(u)
      BY SMTT(30), <1>4, <1>7, OwnTypes DEF Closes, Uses
    <2>2. Believes(u)' <=> Believes(u)
      BY <1>1, <1>2, <1>7 DEF Believes
    <2>3. Claims(u)' <=> Claims(u)
      BY <1>3, <2>1, <2>2 DEF Claims
    <2> QED
      BY <1>1, <1>3, <1>7, <2>1, <2>2, <2>3 DEF Own, Has
  <1> QED
    BY <1>5, <1>6, <1>7

LEMMA OwnTake ==
    ASSUME TypeOK, NEW u \in Users, Own(u), Take(u)
    PROVE  Own(u)' /\ (Claims(u)' => Claims(u))
  <1>1. /\ call'[u] = NoCall /\ sent'[u] = sent[u]
        /\ back[u] # <<>> /\ back'[u] = Tail(back[u])
        /\ Head(back[u]).op = call[u].op
        /\ isOpen'[u] = ((isOpen[u] \/ (call[u].op = "init" /\ Head(back[u]).ok))
                            /\ call[u].op # "close")
        /\ ctrl' = ctrl /\ wait' = wait
    BY DEF Take, Receive, TypeOK, service
  <1>2. /\ call'[u].op # "close" /\ (Believes(u)' <=> isOpen'[u])
        /\ Closes(u)' = Closes(u) /\ Uses(u)' = Uses(u)
    BY <1>1 DEF NoCall, Closes, Uses, Believes
  <1>3. \A i \in Grants(u)' : i + 1 \in Grants(u) /\ i \in Nat \ {0}
    BY <1>1, FewerGrants
  <1>4. CASE call[u].op = "init" /\ Head(back[u]).ok
    <2>1. 1 \in Grants(u)
      BY <1>1, <1>4, OwnTypes, TailElements DEF Grants
    <2>2. Grants(u)' = {}
      BY <1>3, <2>1 DEF Own
    <2>3. Claims(u) /\ Has(PinOf[u]) /\ Closes(u) = {}
      BY <2>1 DEF Own, Claims
    <2> QED
      BY <1>1, <1>2, <2>2, <2>3 DEF Own, Has
  <1>5. CASE ~(call[u].op = "init" /\ Head(back[u]).ok)
    <2>1. Believes(u)' => Believes(u)
      BY <1>1, <1>2, <1>5 DEF Believes
    <2>2. isOpen'[u] => isOpen[u]
      BY <1>1, <1>5
    <2>3. Claims(u)' => Claims(u)
      BY <1>2, <1>3, <2>1 DEF Claims
    <2> QED
      BY <1>1, <1>2, <1>3, <2>1, <2>2, <2>3 DEF Own, Has
  <1> QED
    BY <1>4, <1>5

LEMMA OwnDrop ==
    ASSUME TypeOK, NEW u \in Users, Own(u), Drop(u)
    PROVE  Own(u)' /\ (Claims(u)' => Claims(u))
  <1>1. /\ call'[u] = call[u] /\ sent'[u] = sent[u] /\ isOpen'[u] = isOpen[u]
        /\ back[u] # <<>> /\ back'[u] = Tail(back[u])
        /\ ctrl' = ctrl /\ wait' = wait
    BY DEF Drop, Discard, TypeOK, service
  <1>2. /\ Closes(u)' = Closes(u) /\ Uses(u)' = Uses(u)
        /\ (Believes(u)' <=> Believes(u))
    BY <1>1 DEF Closes, Uses, Believes
  <1>3. \A i \in Grants(u)' : i + 1 \in Grants(u) /\ i \in Nat \ {0}
    BY <1>1, FewerGrants
  <1>4. Claims(u)' => Claims(u)
    BY <1>2, <1>3 DEF Claims
  <1> QED
    BY <1>1, <1>2, <1>3, <1>4 DEF Own, Has

LEMMA OwnEnd ==
    ASSUME TypeOK, NEW u \in Users, Own(u), Lose(u) \/ Leave(u)
    PROVE  Own(u)' /\ (Claims(u)' => Claims(u))
  <1>1. Closes(u)' \subseteq Closes(u) /\ Uses(u)' \subseteq Uses(u)
    BY CutUses DEF Lose, Leave, GiveUp, Depart, Begun
  <1>2. /\ call'[u].op # "close" /\ ctrl' = ctrl /\ wait' = wait
        /\ isOpen'[u] => isOpen[u] /\ call[u].op # "close"
        /\ back'[u] = back[u] \/ back'[u] = <<>>
    <2>1. CASE Lose(u)
      BY <2>1 DEF Lose, GiveUp, NoCall, TypeOK, service
    <2>2. CASE Leave(u)
      BY <2>2 DEF Leave, Depart, NoCall, TypeOK, service
    <2> QED
      BY <2>1, <2>2
  <1>3. Grants(u)' \subseteq Grants(u)
    BY <1>2, OwnTypes DEF Grants
  <1>4. Believes(u)' => Believes(u)
    BY <1>2 DEF Believes
  <1>5. Claims(u)' => Claims(u)
    BY <1>1, <1>3, <1>4 DEF Claims
  <1> QED
    BY <1>1, <1>2, <1>3, <1>4, <1>5 DEF Own, Has

LEMMA OwnUser ==
    ASSUME TypeOK, NEW u \in Users, Own(u), NEW w \in Users, UserStep(w)
    PROVE  Own(u)' /\ (Claims(u)' => Claims(u))
  <1>1. CASE w = u
    BY <1>1, OwnAsk, OwnTake, OwnDrop, OwnEnd DEF UserStep
  <1>2. CASE w # u
    <2>1. /\ call'[u] = call[u] /\ back'[u] = back[u]
          /\ isOpen'[u] = isOpen[u] /\ wait'[u] = wait[u]
      BY <1>2 DEF UserStep, Ask, Send, Take, Receive, Lose, GiveUp, Drop,
             Discard, Leave, Depart, TypeOK
    <2>2. sent'[u] = sent[u]
      BY <1>2 DEF UserStep, Ask, Send, Take, Receive, Lose, GiveUp, Drop,
             Discard, Leave, Depart, Cut, TypeOK
    <2>3. ctrl' = ctrl
      BY ClientStep DEF service
    <2> QED
      BY <2>1, <2>2, <2>3, OwnSame, Unmoved
  <1> QED
    BY <1>1, <1>2

-----------------------------------------------------------------------------
(* The steps of the handlers.                                              *)

\* A handler of u takes its first request away and adds a response.
LEMMA OwnAnswer ==
    ASSUME TypeOK, NEW u \in Users, sent[u] # <<>>, NEW b \in BOOLEAN,
           Answer(u, b)
    PROVE  /\ call'[u] = call[u] /\ isOpen'[u] = isOpen[u]
           /\ Believes(u)' <=> Believes(u)
           /\ sent'[u] = Tail(sent[u])
           /\ Grants(u)' \subseteq Grants(u) \cup {Len(back[u]) + 1}
           /\ (b /\ Head(sent[u]).op = "init") \/ Grants(u)' = Grants(u)
  <1> DEFINE a == [op |-> Head(sent[u]).op, ok |-> b]
  <1>1. a \in Responses
    <2>1. Head(sent[u]) \in Requests
      BY OwnTypes, TailElements
    <2> QED
      BY <2>1 DEF Requests, Responses
  <1>2. /\ call' = call /\ isOpen' = isOpen
        /\ sent'[u] = Tail(sent[u]) /\ back'[u] = Append(back[u], a)
    BY DEF Answer, Respond, TypeOK
  <1>3. /\ Len(back'[u]) = Len(back[u]) + 1
        /\ \A i \in 1..Len(back[u]) : back'[u][i] = back[u][i]
        /\ back'[u][Len(back[u]) + 1] = a
    BY <1>1, <1>2, OwnTypes, AppendElements
  <1>4. /\ Grants(u)' \subseteq Grants(u) \cup {Len(back[u]) + 1}
        /\ (b /\ Head(sent[u]).op = "init") \/ Grants(u)' = Grants(u)
    <2>1. Grants(u)' \subseteq Grants(u) \cup {Len(back[u]) + 1}
      BY SMTT(30), <1>3, OwnTypes DEF Grants
    <2>2. Grants(u) \subseteq Grants(u)'
      BY <1>3, OwnTypes DEF Grants
    <2>3. (b /\ Head(sent[u]).op = "init") \/ Len(back[u]) + 1 \notin Grants(u)'
      BY <1>3 DEF Grants
    <2> QED
      BY <2>1, <2>2, <2>3
  <1> QED
    BY <1>2, <1>4 DEF Believes

\* A handler that leaves the registration as it is, grants no init and is no
\* close.
LEMMA OwnKeep ==
    ASSUME TypeOK, NEW u \in Users, Own(u), sent[u] # <<>>, NEW b \in BOOLEAN,
           Answer(u, b), ctrl' = ctrl, wait'[u] \in {0, wait[u]},
           ~b \/ Head(sent[u]).op # "init", Head(sent[u]).op # "close"
    PROVE  Own(u)' /\ (Claims(u)' => Claims(u))
  <1>1. /\ call'[u] = call[u] /\ isOpen'[u] = isOpen[u]
        /\ (Believes(u)' <=> Believes(u)) /\ Grants(u)' = Grants(u)
        /\ sent'[u] = Tail(sent[u])
    BY OwnAnswer
  <1>2. /\ \A i \in Closes(u)' : i + 1 \in Closes(u) /\ i \in Nat \ {0}
        /\ \A i \in Uses(u)' : i + 1 \in Uses(u) /\ i \in Nat \ {0}
        /\ \A i \in Closes(u) : i = 1 \/ i - 1 \in Closes(u)'
        /\ Len(sent'[u]) = Len(sent[u]) - 1 /\ Len(sent[u]) \in Nat \ {0}
        /\ 1 \notin Closes(u)
    BY <1>1, FewerUses
  <1>3. Claims(u)' => Claims(u)
    BY <1>1, <1>2 DEF Claims
  <1>4. \A i \in Closes(u)', j \in Uses(u)' : j <= i
    BY <1>2 DEF Own
  <1>5. isOpen[u] /\ call[u].op = "close"
            => Len(sent'[u]) = 0 \/ Closes(u)' = {Len(sent'[u])}
    BY <1>2 DEF Own
  <1>6. Closes(u) = {} => Closes(u)' = {}
    BY <1>2
  <1> QED
    BY <1>1, <1>3, <1>4, <1>5, <1>6 DEF Own, Has

\* An init that is granted: the pin was free, so that nobody claimed it.
LEMMA OwnGrant ==
    ASSUME TypeOK, LineMatchesMap, OwnInv, charDev, NEW w \in Users,
           InitCharDev(w), NEW u \in Users
    PROVE  Own(u)' /\ (Claims(u)' => Claims(u) \/ u = w)
           /\ (PinOf[u] = PinOf[w] => ~Claims(u))
  <1>1. /\ sent[w] # <<>> /\ Answer(w, TRUE) /\ holder[PinOf[w]] = 0
        /\ wait' = wait
    BY DEF InitCharDev, Asked, Due
  <1>2. ~Has(PinOf[w])
    BY <1>1, OwnTypes DEF Has, LineMatchesMap
  <1>3. ASSUME NEW v \in Users, PinOf[v] = PinOf[w]
        PROVE  ~Claims(v) /\ wait[v] = 0
    BY <1>2, <1>3, WaiterClaims DEF OwnInv, Own, Claims
  <1>4. /\ ctrl'[PinOf[w]].id = made + 1 /\ made + 1 # 0
        /\ \A q \in Pins : q # PinOf[w] => ctrl'[q] = ctrl[q]
    BY OwnTypes DEF InitCharDev, TypeOK
  <1>5. CASE u = w
    <2>1. Uses(u) = {} /\ Closes(u) = {} /\ Grants(u) = {} /\ wait'[u] = 0
      BY <1>1, <1>3, <1>5, OwnTypes DEF Claims
    <2>2. Uses(u)' = {} /\ Closes(u)' = {}
          /\ Grants(u)' \subseteq {Len(back[u]) + 1}
          /\ isOpen'[u] = isOpen[u] /\ call'[u] = call[u]
          /\ (Believes(u)' <=> Believes(u))
      BY <1>1, <1>5, <2>1, FewerUses, OwnAnswer
    <2>3. Len(sent[u]) # 0
      BY <1>1, <1>5, OwnTypes, TailElements
    <2>4. ~isOpen[u]
      BY <1>3, <1>5, <2>1, <2>3 DEF OwnInv, Own, Claims, Believes
    <2> QED
      BY <1>3, <1>4, <1>5, <2>1, <2>2, <2>4 DEF Own, Has, Believes
  <1>6. CASE u # w
    <2>1. /\ call'[u] = call[u] /\ sent'[u] = sent[u] /\ back'[u] = back[u]
          /\ isOpen'[u] = isOpen[u] /\ wait'[u] = wait[u]
      BY <1>1, <1>6 DEF Answer, Respond, TypeOK
    <2>2. CASE PinOf[u] = PinOf[w]
      <3>1. wait'[u] = 0 /\ ~Claims(u)
        BY <1>3, <2>1, <2>2
      <3> QED
        BY <2>1, <3>1, Unmoved DEF Own, OwnInv
    <2>3. CASE PinOf[u] # PinOf[w]
      BY <1>4, <2>1, <2>3, OwnSame, OwnTypes, Unmoved DEF OwnInv
    <2> QED
      BY <2>2, <2>3
  <1> QED
    BY <1>3, <1>5, <1>6

\* A close: nobody else claimed the pin, and its user stops claiming it.
LEMMA OwnClose ==
    ASSUME TypeOK, OwnInv, charDev, NEW w \in Users, Close(w), NEW u \in Users
    PROVE  Own(u)' /\ (Claims(u)' => Claims(u))
  <1>1. /\ sent[w] # <<>> /\ Head(sent[w]).op = "close" /\ Answer(w, TRUE)
        /\ wait' = wait
    BY DEF Close, Asked, Due
  <1>2. /\ \A i \in Closes(w)' : i + 1 \in Closes(w) /\ i \in Nat \ {0}
        /\ \A i \in Uses(w)' : i + 1 \in Uses(w) /\ i \in Nat \ {0}
        /\ Len(sent'[w]) = Len(sent[w]) - 1 /\ Len(sent[w]) \in Nat \ {0}
        /\ 1 \in Closes(w)
    BY <1>1, OwnAnswer, FewerUses
  <1>3. Claims(w)
    BY <1>2, OwnTypes DEF Claims
  <1>4. \A q \in Pins : q # PinOf[w] => ctrl'[q] = ctrl[q]
    BY OwnTypes DEF Close, TypeOK
  <1>5. CASE u = w
    <2>1. Uses(u)' = {} /\ Closes(u)' = {}
      <3>1. \A j \in Uses(u) : j <= 1
        BY <1>2, <1>5 DEF OwnInv, Own
      <3>2. Closes(u) \subseteq Uses(u)
        BY OwnTypes
      <3> QED
        BY <1>2, <1>5, <3>1, <3>2
    <2>2. Grants(u) = {}
      BY <1>2, <1>5 DEF OwnInv, Own
    <2>3. Grants(u)' = {} /\ call'[u] = call[u] /\ isOpen'[u] = isOpen[u]
          /\ (Believes(u)' <=> Believes(u))
      BY <1>1, <1>5, <2>2, OwnAnswer
    <2>4. ~Believes(u)
      BY <1>2, <1>5 DEF OwnInv, Own
    <2>5. isOpen[u] /\ call[u].op = "close" => Len(sent'[u]) = 0
      BY <1>2, <1>5 DEF OwnInv, Own
    <2>6. wait[u] = 0
      BY <1>1, <1>5 DEF TypeOK, Due
    <2> QED
      BY <1>1, <2>1, <2>3, <2>4, <2>5, <2>6 DEF Own, Claims
  <1>6. CASE u # w
    <2>1. /\ call'[u] = call[u] /\ sent'[u] = sent[u] /\ back'[u] = back[u]
          /\ isOpen'[u] = isOpen[u] /\ wait'[u] = wait[u]
      BY <1>1, <1>6 DEF Answer, Respond, TypeOK
    <2>2. CASE PinOf[u] = PinOf[w]
      <3>1. ~Claims(u)
        BY <1>3, <1>6, <2>2 DEF OwnInv, OneClaim
      <3>2. wait[u] = 0
        BY <3>1, WaiterClaims DEF Claims
      <3> QED
        BY <2>1, <3>1, <3>2, Unmoved DEF Own, OwnInv
    <2>3. CASE PinOf[u] # PinOf[w]
      BY <1>4, <2>1, <2>3, OwnSame, OwnTypes, Unmoved DEF OwnInv
    <2> QED
      BY <2>2, <2>3
  <1> QED
    BY <1>5, <1>6

LEMMA HandleOwn ==
    ASSUME TypeOK, LineMatchesMap, OwnInv, charDev, NEW w \in Users, Handle(w)
    PROVE  OwnInv'
  <1>0. charDev' => charDev
    OBVIOUS
  <1>1. CASE InitCharDev(w)
    <2>1. \A u \in Users : Own(u)'
      BY <1>1, OwnGrant
    <2>2. ASSUME NEW u \in Users, NEW v \in Users, Claims(u)', Claims(v)',
                 PinOf[u] = PinOf[v]
          PROVE  u = v
      <3>1. (Claims(u) \/ u = w) /\ (Claims(v) \/ v = w)
        BY <1>1, <2>2, OwnGrant
      <3>2. PinOf[u] = PinOf[w] => ~Claims(u) /\ ~Claims(v)
        BY <1>1, <2>2, OwnGrant
      <3> QED
        BY <2>2, <3>1, <3>2 DEF OwnInv, OneClaim
    <2> QED
      BY <2>1, <2>2 DEF OwnInv, OneClaim
  <1>2. CASE ~InitCharDev(w)
    <2> SUFFICES ASSUME NEW u \in Users
                 PROVE  Own(u)' /\ (Claims(u)' => Claims(u))
      BY DEF OwnInv, OneClaim
    <2>1. Own(u)
      BY DEF OwnInv
    <2>2. CASE Close(w)
      BY <2>2, OwnClose
    <2>3. CASE ~Close(w) /\ w # u
      <3>1. /\ call'[u] = call[u] /\ sent'[u] = sent[u] /\ back'[u] = back[u]
            /\ isOpen'[u] = isOpen[u] /\ wait'[u] = wait[u]
        BY <2>3 DEF Handle, InitCharDev, InitBusy, InitRefused, InitSysfs,
               InitDenied, Close, Write, Read, WaitMissing, WaitLookup,
               WaitEnd, Answer, Respond, line, TypeOK
      <3>2. ctrl' = ctrl
        BY <1>2, <2>3, MapSteps
      <3> QED
        BY <2>1, <3>1, <3>2, OwnSame, Unmoved
    <2>4. CASE ~Close(w) /\ w = u
      <3>0. ctrl' = ctrl
        BY <1>2, <2>4, MapSteps
      <3>1. CASE WaitLookup(u)
        <4>1. /\ call' = call /\ sent' = sent /\ back' = back
              /\ isOpen' = isOpen /\ wait'[u] = ctrl[PinOf[u]].id
          BY <3>1 DEF WaitLookup, line, TypeOK
        <4> QED
          BY <2>1, <3>0, <4>1, Unmoved DEF Own, Has
      <3>2. CASE InitBusy(u) \/ InitRefused(u)
        BY <2>1, <3>0, <3>2, OwnKeep
        DEF InitBusy, InitRefused, Asked, Due, service
      <3>3. CASE Write(u)
        <4>1. Works(PinOf[u]) \in BOOLEAN
          BY DEF Works, Has
        <4> QED
          BY <2>1, <3>0, <3>3, <4>1, OwnKeep DEF Write, Asked, Due
      <3>4. CASE Read(u) \/ WaitMissing(u)
        <4>1. Has(PinOf[u]) \in BOOLEAN
          BY DEF Has
        <4> QED
          BY <2>1, <3>0, <3>4, <4>1, OwnKeep
          DEF Read, WaitMissing, Asked, Due
      <3>5. CASE WaitEnd(u)
        BY <2>1, <3>0, <3>5, OwnKeep DEF WaitEnd, TypeOK, Due
      <3>6. ~InitSysfs(u) /\ ~InitDenied(u)
        BY DEF InitSysfs, InitDenied
      <3> QED
        BY <1>2, <2>4, <3>1, <3>2, <3>3, <3>4, <3>5, <3>6 DEF Handle
    <2> QED
      BY <2>2, <2>3, <2>4
  <1> QED
    BY <1>1, <1>2

LEMMA NextOwn == TypeOK /\ LineMatchesMap /\ OwnInv /\ [Next]_vars => OwnInv'
  <1> SUFFICES ASSUME TypeOK, LineMatchesMap, OwnInv, charDev, [Next]_vars
               PROVE  OwnInv'
    BY DEF OwnInv, Next, vars
  <1>1. CASE UNCHANGED vars
    BY <1>1, OwnSame, Unmoved DEF OwnInv, OneClaim, vars, line, service
  <1>2. ASSUME NEW w \in Users, UserStep(w)
        PROVE  OwnInv'
    BY <1>2, OwnUser DEF OwnInv, OneClaim
  <1> QED
    BY <1>1, <1>2, HandleOwn DEF Next

LEMMA OwnHolds == Spec => []OwnInv
  <1>1. Init => OwnInv
    BY DEF Init, LineInit, OwnInv, OneClaim, Own, Claims, Closes, Uses, Grants,
           Believes
  <1> QED
    BY <1>1, NextOwn, TypeCorrect, LinesAreRegistered, PTL DEF Spec

\* With a character device, a client that believes its pin open has it, and
\* no close of its own is under way: with calls that were given up on and
\* handled late, responses taken for others, refused and repeated inits.
THEOREM OpenIsHeld == Spec => []OpenMeansHeld
  <1>1. TypeOK /\ LineMatchesMap /\ OwnInv => OpenMeansHeld
    <2> SUFFICES ASSUME TypeOK, LineMatchesMap, OwnInv, charDev,
                        NEW u \in Users, Believes(u)
                 PROVE  /\ Works(PinOf[u])
                        /\ \A i \in 1..Len(sent[u]) : sent[u][i].op # "close"
      BY DEF OpenMeansHeld
    <2>1. Has(PinOf[u]) /\ Closes(u) = {}
      BY DEF OwnInv, Own, Claims
    <2> QED
      BY <2>1, OwnTypes DEF Works, LineMatchesMap, Closes
  <1> QED
    BY <1>1, OwnHolds, TypeCorrect, LinesAreRegistered, PTL

\* With a character device, init and close are a lock on the pin: no two
\* clients believe that it is open for them.
THEOREM PinHasOneOwner == Spec => []OneOwner
  <1>1. OwnInv => OneOwner
    BY DEF OwnInv, OneClaim, OneOwner, Claims
  <1> QED
    BY <1>1, OwnHolds, PTL

\* With a character device, no handler waits on an object that was destroyed.
THEOREM WaitIsSafe == Spec => []WaitKeepsObject
  <1>1. OwnInv => WaitKeepsObject
    BY DEF OwnInv, Own, WaitKeepsObject, Destroyed
  <1> QED
    BY <1>1, OwnHolds, PTL
=============================================================================
