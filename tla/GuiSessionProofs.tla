-------------------------- MODULE GuiSessionProofs --------------------------
(***************************************************************************)
(* Proofs about GuiSession, for any number of reads per poll, transactions *)
(* and losses.                                                             *)
(***************************************************************************)
EXTENDS GuiSession, RequestLineProofs

-----------------------------------------------------------------------------
(* The calls of the handlers.                                              *)

CallNames == {"openSpi", "initButton", "initMonitor", "level", "read", "clear",
              "press", "release", "clickPress", "clickRelease", "closeSpi",
              "closeButton", "closeMonitor"}

LEMMA CallFacts ==
    /\ DOMAIN Calls = CallNames
    /\ \A a \in CallNames :
          /\ Calls[a].user \in Users
          /\ Calls[a].req \in Requests
          /\ Calls[a].req.op # NoCall.op
          /\ Calls[a].req.op = "open" <=> a \in Connecting
          /\ Calls[a].req.op = "close" <=> a \in Closing
          /\ Calls[a].req.op = "clear" <=> a = "clear"
          /\ Calls[a].req.op = "read" /\ Calls[a].user = "spi" <=> a = "read"
          /\ Calls[a].req.op = "write" => Calls[a].user = "button"
          /\ Calls[a].needed <=> a \notin Connecting
    /\ Calls["openSpi"].user = "spi" /\ Calls["initButton"].user = "button"
    /\ Calls["initMonitor"].user = "monitor" /\ Calls["clear"].user = "spi"
    /\ Calls["closeSpi"].user = "spi" /\ Calls["closeButton"].user = "button"
    /\ Calls["closeMonitor"].user = "monitor"
  <1>1. DOMAIN Calls = CallNames
    BY DEF Calls, CallNames
  <1>2. \A a \in CallNames : Calls[a].req \in Requests
    BY <1>1 DEF Requests
  <1>3. \A a \in CallNames :
          /\ Calls[a].user \in Users
          /\ Calls[a].req.op # NoCall.op
          /\ Calls[a].req.op = "open" <=> a \in Connecting
          /\ Calls[a].req.op = "close" <=> a \in Closing
          /\ Calls[a].req.op = "clear" <=> a = "clear"
          /\ Calls[a].req.op = "read" /\ Calls[a].user = "spi" <=> a = "read"
          /\ Calls[a].req.op = "write" => Calls[a].user = "button"
          /\ Calls[a].needed <=> a \notin Connecting
    BY SessionAssumption
    DEF Calls, Call, CallNames, Connecting, Closing, NoCall
  <1>4. /\ Calls["openSpi"].user = "spi" /\ Calls["initButton"].user = "button"
        /\ Calls["initMonitor"].user = "monitor" /\ Calls["clear"].user = "spi"
        /\ Calls["closeSpi"].user = "spi"
        /\ Calls["closeButton"].user = "button"
        /\ Calls["closeMonitor"].user = "monitor"
    BY DEF Calls, Call
  <1> QED
    BY <1>1, <1>2, <1>3, <1>4

LEMMA RequestFacts ==
    ASSUME NEW r \in Requests, NEW ok \in BOOLEAN, NEW v \in 0..MaxRecords
    PROVE  /\ r # NoCall
           /\ [op |-> r.op, ok |-> ok, val |-> v] \in Responses
  <1>1. r # NoCall
    BY CallFacts DEF Requests
  <1>2. [op |-> r.op, ok |-> ok, val |-> v] \in Responses
    BY DEF Responses
  <1> QED
    BY <1>1, <1>2

LEMMA ResponseParts ==
    ASSUME NEW r \in Responses
    PROVE  r.ok \in BOOLEAN /\ r.val \in 0..MaxRecords
  BY DEF Responses

-----------------------------------------------------------------------------
(* What holds whatever is lost.                                            *)

\* The FPGA has the latest transactions; a response carries, and the table
\* shows, recorded ones.
Numbers ==
    /\ \A i \in 1..Len(queue) : queue[i] = recorded - Len(queue) + i
    /\ \A k \in Coming : Number(k) \in 1..recorded
    /\ \A x \in Shown : x \in 1..recorded

\* Connecting begins, and disconnecting ends, with everything closed; a call
\* that needs its object open has it open until it ends.
Phases ==
    /\ at \in {"off", "openSpi"} => \A u \in Users : ~isOpen[u]
    /\ at = "initButton" => ~isOpen["button"] /\ ~isOpen["monitor"]
    /\ at = "initMonitor" => ~isOpen["monitor"]
    /\ at = "closeButton" => ~isOpen["spi"]
    /\ at = "closeMonitor" => ~isOpen["spi"] /\ ~isOpen["button"]
    /\ \A u \in Users : call[u] # NoCall /\ Calls[at].needed => isOpen[u]

Types == TypeOK /\ LineType(Requests, Responses)

BaseInv == Types /\ Numbers /\ Phases /\ InOrder

\* What a handler changes when a call ends.
LEMMA ProceedFacts ==
    ASSUME TypeOK, NEW r, r.ok \in BOOLEAN, Proceed(r),
           at = "read" /\ r.ok => r.val \in 1..MaxRecords
    PROVE  /\ at \in CallNames
           /\ at' \in CallNames \cup {"idle", "off"} /\ at' # "clear"
           /\ remote' \in BOOLEAN /\ saidUp' \in BOOLEAN
           /\ reads' \in 0..(MaxReads - 1) /\ (at' # "read" => reads' = 0)
           /\ isOpen' = IF at \in Connecting \cup Closing
                        THEN [isOpen EXCEPT ![Calls[at].user] =
                                  at \in Connecting /\ r.ok]
                        ELSE isOpen
           /\ table' = IF at = "read" /\ Shows(r) THEN Append(table, r.val)
                       ELSE IF at = "clear" /\ r.ok THEN <<>> ELSE table
           /\ at' = "off" => (at = "openSpi" /\ ~r.ok) \/ at = "closeMonitor"
           /\ at' # "openSpi"
           /\ at' = "initButton" => at = "openSpi"
           /\ at' = "initMonitor" => at = "initButton"
           /\ at' = "closeButton" => at = "closeSpi"
           /\ at' = "closeMonitor" => at = "closeButton"
  <1>0. MaxReads \in Nat \ {0} /\ reads \in 0..(MaxReads - 1)
        /\ (at # "read" => reads = 0) /\ remote \in BOOLEAN
        /\ saidUp \in BOOLEAN
    BY SessionAssumption DEF TypeOK
  <1> USE DEF CallNames, Connecting, Closing
  <1>1. CASE Opened(r)
    <2>1. CASE at = "openSpi"
      BY <1>0, <1>1, <2>1 DEF Opened
    <2>2. CASE at = "initButton"
      BY <1>0, <1>1, <2>2 DEF Opened
    <2>3. CASE at = "initMonitor"
      BY <1>0, <1>1, <2>3 DEF Opened
    <2> QED
      BY <1>1, <2>1, <2>2, <2>3 DEF Opened
  <1>2. CASE Closed(r)
    <2>1. CASE at = "closeSpi"
      BY <1>0, <1>2, <2>1 DEF Closed
    <2>2. CASE at = "closeButton"
      BY <1>0, <1>2, <2>2 DEF Closed
    <2>3. CASE at = "closeMonitor"
      BY <1>0, <1>2, <2>3 DEF Closed
    <2> QED
      BY <1>2, <2>1, <2>2, <2>3 DEF Closed
  <1>3. CASE LevelRead(r)
    BY <1>0, <1>3 DEF LevelRead, gui
  <1>4. CASE TransactionRead(r)
    <2>1. CASE Shows(r) /\ reads + 1 < MaxReads
      BY <1>0, <1>4, <2>1 DEF TransactionRead
    <2>2. CASE ~(Shows(r) /\ reads + 1 < MaxReads)
      BY <1>0, <1>4, <2>2 DEF TransactionRead
    <2> QED
      BY <2>1, <2>2
  <1>5. CASE Cleared(r)
    BY <1>0, <1>5 DEF Cleared
  <1>6. CASE Written(r)
    BY <1>0, <1>6 DEF Written
  <1> QED
    BY <1>1, <1>2, <1>3, <1>4, <1>5, <1>6 DEF Proceed

\* Whoever is in a call is at the place of the GUI thread.
LEMMA OneCaller ==
    ASSUME TypeOK, NEW u \in Users, call[u] # NoCall
    PROVE  /\ at \in CallNames /\ Calls[at].user = u /\ Calls[at].req = call[u]
           /\ \A v \in Users : v # u => call[v] = NoCall
  BY SMTT(30), CallFacts DEF TypeOK

-----------------------------------------------------------------------------
(* The transactions on their way.                                          *)

InLine == \A j, k \in Coming : j < k => Number(j) < Number(k)

LEMMA ComingSame ==
    ASSUME back'["spi"] = back["spi"]
    PROVE  /\ Coming' = Coming /\ OnTheWay' = OnTheWay
           /\ \A k \in Coming : Number(k)' = Number(k)
  BY DEF Coming, OnTheWay, Number

\* The first response goes.
LEMMA ComingTail ==
    ASSUME LineType(Requests, Responses), "spi" \in Users,
           back["spi"] # <<>>, back'["spi"] = Tail(back["spi"])
    PROVE  /\ Head(back["spi"]) \in Responses
           /\ \A k \in Coming' : /\ k + 1 \in Coming /\ k \in Nat \ {0}
                                 /\ Number(k)' = Number(k + 1)
           /\ \A k \in Coming : \/ k = 1
                                \/ k - 1 \in Coming' /\ Number(k - 1)' = Number(k)
           /\ 1 \in Coming <=> Head(back["spi"]).op = "read"
                               /\ Head(back["spi"]).ok
           /\ Number(1) = Head(back["spi"]).val
  <1> DEFINE s == back["spi"]
             t == Tail(s)
  <1>1. s \in Seq(Responses) /\ s # <<>>
    BY DEF LineType
  <1>2. /\ t \in Seq(Responses) /\ Len(s) \in Nat \ {0} /\ Len(t) = Len(s) - 1
        /\ \A i \in 1..(Len(s) - 1) : t[i] = s[i + 1]
        /\ Head(s) = s[1] /\ Head(s) \in Responses
    BY <1>1, TailElements
  <1>3. DOMAIN s = 1..Len(s) /\ DOMAIN t = 1..Len(t)
    BY <1>1, <1>2
  <1>4. ASSUME NEW k \in Coming'
        PROVE  /\ k + 1 \in Coming /\ k \in Nat \ {0}
               /\ Number(k)' = Number(k + 1)
    <2>1. k \in 1..(Len(s) - 1) /\ t[k].op = "read" /\ t[k].ok
      BY <1>2, <1>3, <1>4 DEF Coming
    <2> QED
      BY <1>2, <1>3, <2>1 DEF Coming, Number
  <1>5. ASSUME NEW k \in Coming, k # 1
        PROVE  k - 1 \in Coming' /\ Number(k - 1)' = Number(k)
    <2>1. k \in 1..Len(s) /\ s[k].op = "read" /\ s[k].ok
      BY <1>3 DEF Coming
    <2>2. k - 1 \in 1..(Len(s) - 1) /\ t[k - 1] = s[(k - 1) + 1]
          /\ (k - 1) + 1 = k
      BY <1>2, <1>5, <2>1
    <2> QED
      BY <1>2, <1>3, <2>1, <2>2 DEF Coming, Number
  <1>6. 1 \in Coming <=> Head(s).op = "read" /\ Head(s).ok
    BY <1>2, <1>3 DEF Coming
  <1>7. Number(1) = Head(s).val
    BY <1>2 DEF Number
  <1> QED
    BY <1>2, <1>4, <1>5, <1>6, <1>7

LEMMA ComingAppend ==
    ASSUME LineType(Requests, Responses), "spi" \in Users,
           NEW a \in Responses, back'["spi"] = Append(back["spi"], a)
    PROVE  LET n == Len(back["spi"]) + 1
           IN  /\ n \in Nat /\ \A k \in Coming : k \in Nat /\ k < n
               /\ Coming' = Coming
                            \cup (IF a.op = "read" /\ a.ok THEN {n} ELSE {})
               /\ \A k \in Coming : Number(k)' = Number(k)
               /\ back'["spi"][n].val = a.val
  <1> DEFINE s == back["spi"]
             t == Append(s, a)
  <1>1. s \in Seq(Responses)
    BY DEF LineType
  <1>2. /\ t \in Seq(Responses) /\ Len(s) \in Nat /\ Len(t) = Len(s) + 1
        /\ \A i \in 1..Len(s) : t[i] = s[i]
        /\ t[Len(s) + 1] = a
    BY <1>1, AppendElements
  <1>3. DOMAIN s = 1..Len(s) /\ DOMAIN t = 1..(Len(s) + 1)
    BY <1>1, <1>2
  <1>4. \A k : k \in 1..(Len(s) + 1) <=> k \in 1..Len(s) \/ k = Len(s) + 1
    BY <1>2
  <1>5. \A k \in Coming : k \in 1..Len(s)
    BY <1>3 DEF Coming
  <1>6. \A k : k \in Coming' <=>
                \/ k \in Coming
                \/ (k = Len(s) + 1 /\ a.op = "read" /\ a.ok)
    <2> TAKE k
    <2>1. CASE k \in 1..Len(s)
      BY <1>2, <1>3, <1>4, <2>1 DEF Coming
    <2>2. CASE k = Len(s) + 1
      BY <1>2, <1>3, <1>4, <2>2 DEF Coming
    <2>3. CASE k \notin 1..(Len(s) + 1)
      BY <1>2, <1>3, <1>4, <2>3 DEF Coming
    <2> QED
      BY <1>4, <2>1, <2>2, <2>3
  <1>7. \A k \in Coming : Number(k)' = Number(k)
    BY <1>2, <1>5 DEF Number
  <1> QED
    BY <1>2, <1>5, <1>6, <1>7

\* Responses that go leave the others in order.
LEMMA LineShrinks ==
    ASSUME LineType(Requests, Responses), "spi" \in Users, Numbers, InLine,
           recorded \in Nat,
           \/ back'["spi"] = back["spi"]
           \/ back["spi"] # <<>> /\ back'["spi"] = Tail(back["spi"])
    PROVE  /\ OnTheWay' \subseteq OnTheWay /\ InLine'
           /\ \A k \in Coming' : Number(k)' \in 1..recorded
  <1>1. CASE back'["spi"] = back["spi"]
    <2>1. /\ Coming' = Coming /\ OnTheWay' = OnTheWay
          /\ \A k \in Coming : Number(k)' = Number(k)
      BY <1>1, ComingSame
    <2> QED
      BY <2>1 DEF InLine, Numbers
  <1>2. CASE back["spi"] # <<>> /\ back'["spi"] = Tail(back["spi"])
    <2>1. \A k \in Coming' : /\ k + 1 \in Coming /\ k \in Nat
                             /\ Number(k)' = Number(k + 1)
      BY <1>2, ComingTail
    <2>2. OnTheWay' \subseteq OnTheWay
      BY <2>1 DEF OnTheWay
    <2>3. ASSUME NEW j \in Coming', NEW k \in Coming', j < k
          PROVE  Number(j)' < Number(k)'
      <3>1. j + 1 < k + 1
        BY <2>1, <2>3
      <3> QED
        BY <2>1, <3>1 DEF InLine
    <2>4. \A k \in Coming' : Number(k)' \in 1..recorded
      BY <2>1 DEF Numbers
    <2> QED
      BY <2>2, <2>3, <2>4 DEF InLine
  <1> QED
    BY <1>1, <1>2

\* A call ends, or is refused: the handler goes on.
LEMMA EndTypes ==
    ASSUME BaseInv, NEW r, r.ok \in BOOLEAN, Proceed(r),
           at = "read" /\ r.ok => r.val \in 1..recorded,
           LineType(Requests, Responses)', UNCHANGED device,
           losses' \in 0..MaxLosses,
           \A u \in Users : call'[u] = NoCall
    PROVE  Types' /\ Phases'
  <1>1. TypeOK /\ MaxRecords \in Nat /\ recorded \in 0..MaxRecords
        /\ MaxReads \in Nat \ {0}
    BY SessionAssumption DEF BaseInv, Types, TypeOK
  <1>2. r.ok /\ at = "read" => r.val \in 1..MaxRecords
    BY <1>1
  <1>3. /\ at \in CallNames
        /\ at' \in CallNames \cup {"idle", "off"} /\ at' # "clear"
        /\ remote' \in BOOLEAN /\ saidUp' \in BOOLEAN
        /\ reads' \in 0..(MaxReads - 1) /\ (at' # "read" => reads' = 0)
        /\ isOpen' = IF at \in Connecting \cup Closing
                     THEN [isOpen EXCEPT ![Calls[at].user] =
                               at \in Connecting /\ r.ok]
                     ELSE isOpen
        /\ table' = IF at = "read" /\ Shows(r) THEN Append(table, r.val)
                    ELSE IF at = "clear" /\ r.ok THEN <<>> ELSE table
        /\ at' = "off" => (at = "openSpi" /\ ~r.ok) \/ at = "closeMonitor"
        /\ at' # "openSpi"
        /\ at' = "initButton" => at = "openSpi"
        /\ at' = "initMonitor" => at = "initButton"
        /\ at' = "closeButton" => at = "closeSpi"
        /\ at' = "closeMonitor" => at = "closeButton"
    BY <1>1, <1>2, ProceedFacts
  <1>4. table' \in Seq(1..MaxRecords)
    <2>1. table \in Seq(1..MaxRecords)
      BY <1>1 DEF TypeOK
    <2>2. CASE at = "read" /\ Shows(r)
      BY <1>2, <1>3, <2>1, <2>2, AppendElements DEF Shows
    <2>3. CASE ~(at = "read" /\ Shows(r))
      BY <1>3, <2>1, <2>3, EmptySeq
    <2> QED
      BY <2>2, <2>3
  <1>5. isOpen \in [Users -> BOOLEAN] /\ isOpen' \in [Users -> BOOLEAN]
    BY <1>1, <1>3 DEF TypeOK
  <1>6. /\ queue' \in Seq(1..MaxRecords) /\ recorded' \in 0..MaxRecords
        /\ held' \subseteq Users /\ dead' \subseteq held' \ {"spi"}
        /\ high' \in BOOLEAN /\ (high' => "button" \in held' \ dead')
    BY <1>1 DEF TypeOK, device
  <1>7. TypeOK'
    BY <1>3, <1>4, <1>5, <1>6, CallFacts DEF TypeOK, LineType
  <1>8. Phases'
    <2>1. Users = {"spi", "button", "monitor"}
      BY SessionAssumption
    <2>2. CASE at = "openSpi"
      BY ZenonT(40), <1>3, <1>5, <2>1, <2>2, CallFacts
      DEF BaseInv, Phases, Connecting, Closing, CallNames
    <2>3. CASE at = "initButton"
      BY ZenonT(40), <1>3, <1>5, <2>1, <2>3, CallFacts
      DEF BaseInv, Phases, Connecting, Closing, CallNames
    <2>4. CASE at = "closeSpi"
      BY ZenonT(40), <1>3, <1>5, <2>1, <2>4, CallFacts
      DEF BaseInv, Phases, Connecting, Closing, CallNames
    <2>5. CASE at = "closeButton"
      BY ZenonT(40), <1>3, <1>5, <2>1, <2>5, CallFacts
      DEF BaseInv, Phases, Connecting, Closing, CallNames
    <2>6. CASE at = "closeMonitor"
      BY SMTT(30), <1>3, <1>5, <2>1, <2>6, CallFacts
      DEF BaseInv, Phases, Connecting, Closing, CallNames
    <2>7. CASE at \notin {"openSpi", "initButton", "closeSpi", "closeButton",
                          "closeMonitor"}
      BY <1>3, <2>7 DEF Phases
    <2> QED
      BY <2>2, <2>3, <2>4, <2>5, <2>6, <2>7
  <1> QED
    BY <1>7, <1>8 DEF Types

\* The transactions keep their order when a call ends.
LEMMA EndOrder ==
    ASSUME BaseInv, NEW r, r.ok \in BOOLEAN, Proceed(r), UNCHANGED device,
           \/ back'["spi"] = back["spi"]
           \/ back["spi"] # <<>> /\ back'["spi"] = Tail(back["spi"]),
           at = "read" /\ r.ok =>
               /\ back["spi"] # <<>> /\ back'["spi"] = Tail(back["spi"])
               /\ Head(back["spi"]).op = "read" /\ Head(back["spi"]).ok
               /\ r.val = Head(back["spi"]).val
    PROVE  /\ Numbers' /\ InOrder'
           /\ at = "read" /\ r.ok =>
                 /\ r.val \in OnTheWay /\ r.val \in 1..recorded
                 /\ Shown' = Shown \cup ({r.val} \ Blank)
                 /\ OnTheWay \subseteq OnTheWay' \cup {r.val}
           /\ ~r.ok => table' = table
  <1>1. /\ LineType(Requests, Responses) /\ recorded \in Nat
        /\ recorded \in 0..MaxRecords /\ MaxRecords \in Nat
        /\ table \in Seq(1..MaxRecords) /\ "spi" \in Users
        /\ UNCHANGED <<queue, recorded>>
    BY SessionAssumption DEF BaseInv, Types, TypeOK, device
  <1>2. InLine /\ Numbers
    BY DEF BaseInv, InOrder, InLine
  <1>3. /\ OnTheWay' \subseteq OnTheWay /\ InLine'
        /\ \A k \in Coming' : Number(k)' \in 1..recorded
    BY <1>1, <1>2, LineShrinks
  <1>4. (\A x \in Shown' : x \in 1..recorded) => Numbers'
    BY <1>1, <1>2, <1>3 DEF Numbers
  <1>5. Queued' = Queued /\ Ascending(queue)'
    BY <1>1 DEF Queued, BaseInv, InOrder, Ascending
  <1>6. CASE at = "read" /\ Shows(r)
    <2> USE DEF Shows
    <2>1. /\ \A k \in Coming' : /\ k + 1 \in Coming /\ k \in Nat \ {0}
                                /\ Number(k)' = Number(k + 1)
          /\ \A k \in Coming :
                \/ k = 1
                \/ k - 1 \in Coming' /\ Number(k - 1)' = Number(k)
          /\ 1 \in Coming /\ Number(1) = r.val
      BY <1>1, <1>6, ComingTail
    <2>2. r.val \in OnTheWay /\ r.val \in 1..recorded
      BY <1>2, <2>1 DEF OnTheWay, Numbers
    <2>3. table' = Append(table, r.val)
      <3>1. TypeOK /\ (at = "read" /\ r.ok => r.val \in 1..MaxRecords)
        BY <1>1, <2>2 DEF BaseInv, Types
      <3>2. table' = IF at = "read" /\ Shows(r) THEN Append(table, r.val)
                     ELSE IF at = "clear" /\ r.ok THEN <<>> ELSE table
        BY <3>1, ProceedFacts
      <3> QED
        BY <1>6, <3>2
    <2>4. /\ table' \in Seq(1..MaxRecords) /\ Len(table') = Len(table) + 1
          /\ \A i \in 1..Len(table) : table'[i] = table[i]
          /\ table'[Len(table) + 1] = r.val /\ Len(table) \in Nat
          /\ DOMAIN table = 1..Len(table) /\ DOMAIN table' = 1..Len(table')
      <3>1. r.val \in 1..MaxRecords
        BY <1>1, <2>2
      <3> QED
        BY <1>1, <2>3, <3>1, AppendElements
    <2>5. \A i \in DOMAIN table' : i \in DOMAIN table \/ i = Len(table) + 1
      BY <2>4
    <2>6. Shown' = Shown \cup {r.val}
      BY <2>4, <2>5 DEF Shown
    <2>7. \A x \in Shown : x < r.val
      BY <2>2 DEF BaseInv, InOrder, Before
    <2>8. Ascending(table)'
      <3> SUFFICES ASSUME NEW i \in DOMAIN table', NEW j \in DOMAIN table',
                          i < j
                   PROVE  table'[i] < table'[j]
        BY DEF Ascending
      <3>1. i \in DOMAIN table
        BY <2>4, <2>5
      <3>2. table'[i] = table[i] /\ table[i] \in Shown
        BY <2>4, <3>1 DEF Shown
      <3>3. CASE j \in DOMAIN table
        BY <2>4, <3>1, <3>2, <3>3 DEF BaseInv, InOrder, Ascending
      <3>4. CASE j = Len(table) + 1
        BY <2>4, <2>7, <3>2, <3>4
      <3> QED
        BY <2>5, <3>3, <3>4
    <2>9. \A x \in OnTheWay' : r.val < x
      <3> SUFFICES ASSUME NEW k \in Coming' PROVE r.val < Number(k)'
        BY DEF OnTheWay
      <3>1. k + 1 \in Coming /\ 1 \in Coming /\ 1 < k + 1
            /\ Number(k)' = Number(k + 1)
        BY <2>1
      <3> QED
        BY <1>2, <2>1, <3>1 DEF InLine
    <2>10. \A x \in Queued : r.val < x
      BY <2>2 DEF BaseInv, InOrder, Before
    <2>11. Before(Shown, OnTheWay \cup Queued)' /\ Before(OnTheWay, Queued)'
      BY <1>3, <1>5, <2>6, <2>9, <2>10 DEF BaseInv, InOrder, Before
    <2>12. InOrder'
      BY <1>3, <1>5, <2>8, <2>11 DEF InOrder, InLine
    <2>13. OnTheWay \subseteq OnTheWay' \cup {r.val}
      BY <2>1 DEF OnTheWay
    <2>14. Numbers'
      BY <1>2, <1>4, <2>2, <2>6 DEF Numbers
    <2> QED
      BY <1>6, <2>2, <2>6, <2>12, <2>13, <2>14
  <1>7. CASE ~(at = "read" /\ Shows(r))
    <2>0. /\ at = "read" /\ r.ok => r.val \in Blank /\ 1 \in Coming
                                     /\ Number(1) = r.val
          /\ at = "read" /\ r.ok => OnTheWay \subseteq OnTheWay' \cup {r.val}
      <3> SUFFICES ASSUME at = "read", r.ok
                   PROVE  /\ r.val \in Blank /\ 1 \in Coming
                          /\ Number(1) = r.val
                          /\ OnTheWay \subseteq OnTheWay' \cup {r.val}
        OBVIOUS
      <3>1. /\ \A k \in Coming :
                  \/ k = 1
                  \/ k - 1 \in Coming' /\ Number(k - 1)' = Number(k)
            /\ 1 \in Coming /\ Number(1) = r.val
        BY <1>1, ComingTail
      <3> QED
        BY <1>7, <3>1 DEF Shows, OnTheWay
    <2>1. \/ table' = table
          \/ table' = <<>> /\ r.ok /\ at # "read"
      <3>1. at = "read" /\ r.ok => r.val \in 1..MaxRecords
        BY <1>1, <1>2, <2>0 DEF Numbers
      <3>2. table' = IF at = "read" /\ Shows(r) THEN Append(table, r.val)
                     ELSE IF at = "clear" /\ r.ok THEN <<>> ELSE table
        BY <3>1, ProceedFacts DEF BaseInv, Types
      <3> QED
        BY <1>7, <3>2
    <2>2. Ascending(table)' /\ Shown' \subseteq Shown
      BY <2>1 DEF Ascending, Shown, BaseInv, InOrder
    <2>3. Before(Shown, OnTheWay \cup Queued)' /\ Before(OnTheWay, Queued)'
      BY <1>3, <1>5, <2>2 DEF BaseInv, InOrder, Before
    <2>4. InOrder'
      BY <1>3, <1>5, <2>2, <2>3 DEF InOrder, InLine
    <2>5. Numbers'
      BY <1>2, <1>4, <2>2 DEF Numbers
    <2>6. at = "read" /\ r.ok =>
              /\ r.val \in OnTheWay /\ r.val \in 1..recorded
              /\ Shown' = Shown \cup ({r.val} \ Blank)
      BY <1>2, <2>0, <2>1 DEF OnTheWay, Numbers, Shown
    <2> QED
      BY <2>0, <2>1, <2>4, <2>5, <2>6
  <1> QED
    BY <1>6, <1>7

-----------------------------------------------------------------------------
(* The other steps keep what holds whatever is lost.                       *)

\* Nothing happens to the transactions and the requests.
LEMMA EventBase ==
    ASSUME BaseInv,
           \/ Connect \/ Disconnect \/ Poll \/ UserAction \/ UNCHANGED vars
    PROVE  BaseInv'
  <1>1. /\ UNCHANGED <<isOpen, reads, table, saidUp, device, losses, line>>
        /\ \/ UNCHANGED <<at, remote>>
           \/ /\ remote' \in BOOLEAN /\ at \in {"idle", "off"}
              /\ at' \in CallNames /\ at' # "read"
              /\ at' \in {"initButton", "initMonitor", "closeButton",
                          "closeMonitor"} => FALSE
              /\ at' \in {"off", "openSpi"} => at = "off"
    BY ZenonT(40), CallFacts
    DEF Connect, Disconnect, Poll, UserAction, vars, gui, CallNames, BaseInv,
        Types, TypeOK
  <1>2. LineType(Requests, Responses)' /\ Numbers' /\ InOrder'
    <2>1. /\ UNCHANGED <<call, sent, back, here, table, queue, recorded>>
      BY <1>1 DEF line, device
    <2>2. Coming' = Coming /\ OnTheWay' = OnTheWay
          /\ \A k \in Coming : Number(k)' = Number(k)
      BY <2>1, ComingSame
    <2> QED
      BY <2>1, <2>2
      DEF BaseInv, Types, LineType, Numbers, InOrder, Ascending, Before, Shown,
          Queued
  <1>3. CASE UNCHANGED <<at, remote>>
    BY <1>1, <1>2, <1>3
    DEF BaseInv, Types, TypeOK, Phases, device, line
  <1>4. CASE /\ remote' \in BOOLEAN /\ at \in {"idle", "off"}
             /\ at' \in CallNames /\ at' # "read"
             /\ at' \in {"initButton", "initMonitor", "closeButton",
                         "closeMonitor"} => FALSE
             /\ at' \in {"off", "openSpi"} => at = "off"
    <2>1. \A u \in Users : call[u] = NoCall
      BY <1>4, OneCaller DEF BaseInv, Types, CallNames
    <2>2. Types'
      BY <1>1, <1>2, <1>4, <2>1, CallFacts
      DEF BaseInv, Types, TypeOK, device, line
    <2>3. Phases'
      BY <1>1, <1>4, <2>1 DEF BaseInv, Phases, line
    <2> QED
      BY <1>2, <2>2, <2>3 DEF BaseInv
  <1> QED
    BY <1>1, <1>3, <1>4

LEMMA AskBase == ASSUME BaseInv, Ask PROVE BaseInv'
  <1>1. at \in CallNames /\ UNCHANGED <<at, gui, device, losses>>
    BY CallFacts DEF Ask
  <1> DEFINE c == Calls[at]
             u == Calls[at].user
  <1>2. /\ u \in Users /\ c.req \in Requests
        /\ (c.needed => isOpen[u]) /\ Send(u, c.req)
    BY <1>1, CallFacts DEF Ask
  <1> HIDE DEF c, u
  <1>3. LineType(Requests, Responses)'
    BY <1>2, SendType DEF BaseInv, Types
  <1>4. /\ call \in [Users -> Requests \cup {NoCall}] /\ back' = back
        /\ call' = [call EXCEPT ![u] = c.req]
    BY <1>2 DEF BaseInv, Types, LineType, Send
  <1>5. \A v \in Users : call'[v] # NoCall => v = u \/ call[v] # NoCall
    BY <1>4
  <1>6. Types'
    <2>1. ASSUME NEW v \in Users, call'[v] # NoCall
          PROVE  /\ at \in DOMAIN Calls /\ Calls[at].user = v
                 /\ Calls[at].req = call'[v]
      <3>1. CASE v = u
        BY <1>1, <1>2, <1>4, <3>1, CallFacts DEF u, c
      <3>2. CASE v # u
        <4>1. call[v] # NoCall
          BY <1>5, <2>1, <3>2
        <4>2. Calls[at].user = v
          BY <4>1, OneCaller DEF BaseInv, Types
        <4> QED
          BY <3>2, <4>2 DEF u
      <3> QED
        BY <3>1, <3>2
    <2> QED
      BY <1>1, <1>3, <2>1
      DEF BaseInv, Types, TypeOK, LineType, gui, device
  <1>7. Phases'
    <2>1. ASSUME NEW v \in Users, call'[v] # NoCall, Calls[at].needed
          PROVE  isOpen[v]
      BY <1>2, <1>5, <2>1 DEF BaseInv, Phases, u, c
    <2> QED
      BY <1>1, <2>1 DEF BaseInv, Phases, gui
  <1>8. Coming' = Coming /\ OnTheWay' = OnTheWay
        /\ \A k \in Coming : Number(k)' = Number(k)
    BY <1>4, ComingSame
  <1>9. Numbers' /\ InOrder'
    BY <1>1, <1>8
    DEF BaseInv, Numbers, InOrder, Ascending, Before, Shown, Queued, gui, device
  <1> QED
    BY <1>6, <1>7, <1>9 DEF BaseInv

LEMMA DropBase ==
    ASSUME BaseInv, NEW u \in Users, Drop(u) \/ DropEarly(u)
    PROVE  BaseInv'
  <1>1. /\ Discard(u) /\ UNCHANGED <<at, gui, device>>
        /\ losses' = losses \/ (losses < MaxLosses /\ losses' = losses + 1)
    BY DEF Drop, DropEarly, CountLoss
  <1>2. losses' \in 0..MaxLosses
    BY SMTT(30), <1>1, SessionAssumption DEF BaseInv, Types, TypeOK
  <1>3. LineType(Requests, Responses)'
    BY <1>1, EndType DEF BaseInv, Types
  <1>4. call' = call /\ back[u] # <<>> /\ back' = [back EXCEPT ![u] = Tail(@)]
    BY <1>1 DEF Discard
  <1>5. Types'
    BY <1>1, <1>2, <1>3, <1>4 DEF BaseInv, Types, TypeOK, LineType, gui, device
  <1>6. Phases'
    BY <1>1, <1>4 DEF BaseInv, Phases, gui
  <1>7. "spi" \in Users /\ LineType(Requests, Responses) /\ recorded \in Nat
    BY SessionAssumption DEF BaseInv, Types, TypeOK
  <1>8. \/ back'["spi"] = back["spi"]
        \/ back["spi"] # <<>> /\ back'["spi"] = Tail(back["spi"])
    BY <1>4, <1>7 DEF LineType
  <1>9. /\ OnTheWay' \subseteq OnTheWay /\ InLine'
        /\ \A k \in Coming' : Number(k)' \in 1..recorded
    BY <1>7, <1>8, LineShrinks DEF BaseInv, InOrder, InLine
  <1>10. Numbers'
    BY <1>1, <1>9 DEF BaseInv, Numbers, Shown, gui, device
  <1>11. InOrder'
    BY <1>1, <1>9
    DEF BaseInv, InOrder, InLine, Ascending, Before, Shown, Queued, gui, device
  <1> QED
    BY <1>5, <1>6, <1>10, <1>11 DEF BaseInv

LEMMA RecordBase ==
    ASSUME BaseInv, Record
    PROVE  /\ BaseInv' /\ recorded' = recorded + 1 /\ recorded \in Nat
           /\ Shown' = Shown /\ OnTheWay' = OnTheWay
           /\ Queued' = Queued \cup {recorded'}
           /\ \A x \in Kept : x \in 1..recorded
  <1>1. /\ recorded < MaxRecords /\ recorded' = recorded + 1
        /\ queue' = Append(queue, recorded + 1)
        /\ UNCHANGED <<at, gui, held, dead, high, losses, line>>
    BY DEF Record
  <1>2. /\ queue \in Seq(1..MaxRecords) /\ recorded \in 0..MaxRecords
        /\ MaxRecords \in Nat /\ recorded + 1 \in 1..MaxRecords
    BY SMTT(30), <1>1, SessionAssumption DEF BaseInv, Types, TypeOK
  <1>3. /\ queue' \in Seq(1..MaxRecords) /\ Len(queue) \in Nat
        /\ Len(queue') = Len(queue) + 1
        /\ \A i \in 1..Len(queue) : queue'[i] = queue[i]
        /\ queue'[Len(queue) + 1] = recorded + 1
        /\ DOMAIN queue = 1..Len(queue) /\ DOMAIN queue' = 1..Len(queue')
    BY <1>1, <1>2, AppendElements
  <1>4. \A i \in 1..Len(queue') : i \in 1..Len(queue) \/ i = Len(queue) + 1
    BY <1>3
  <1>5. Types'
    BY <1>1, <1>2, <1>3 DEF BaseInv, Types, TypeOK, LineType, gui, line
  <1>6. Phases'
    BY <1>1 DEF BaseInv, Phases, gui, line
  <1>7. Coming' = Coming /\ OnTheWay' = OnTheWay
        /\ \A k \in Coming : Number(k)' = Number(k)
    BY <1>1, ComingSame DEF line
  <1>8. \A i \in 1..Len(queue) : queue[i] = recorded - Len(queue) + i
    BY DEF BaseInv, Numbers
  <1>9. \A i \in 1..Len(queue') : queue'[i] = recorded' - Len(queue') + i
    BY <1>1, <1>2, <1>3, <1>4, <1>8
  <1>10. Shown' = Shown /\ Ascending(table)'
    BY <1>1 DEF gui, Shown, Ascending, BaseInv, InOrder
  <1>11. Numbers'
    <2>1. \A k \in Coming : Number(k) \in 1..recorded'
      BY <1>1, <1>2 DEF BaseInv, Numbers
    <2>2. \A x \in Shown : x \in 1..recorded'
      BY <1>1, <1>2 DEF BaseInv, Numbers
    <2> QED
      BY <1>7, <1>9, <1>10, <2>1, <2>2 DEF Numbers
  <1>12. Ascending(queue)'
    BY <1>1, <1>2, <1>3, <1>9 DEF Ascending
  <1>13. Queued' = Queued \cup {recorded'}
    BY <1>1, <1>3, <1>4 DEF Queued
  <1>14. \A x \in Kept : x \in 1..recorded
    <2>1. \A x \in Queued : x \in 1..recorded
      <3> SUFFICES ASSUME NEW i \in DOMAIN queue PROVE queue[i] \in 1..recorded
        BY DEF Queued
      <3>1. i \in 1..Len(queue) /\ queue[i] \in 1..MaxRecords
        BY <1>2, <1>3
      <3> QED
        BY <1>2, <1>3, <1>8, <3>1
    <2> QED
      BY <2>1 DEF BaseInv, Numbers, OnTheWay, Kept
  <1>15. \A x \in Kept : x < recorded'
    BY <1>1, <1>2, <1>14
  <1>16. Before(Shown, OnTheWay \cup Queued)' /\ Before(OnTheWay, Queued)'
    BY <1>7, <1>10, <1>13, <1>15 DEF BaseInv, InOrder, Before, Kept
  <1>17. InOrder'
    BY <1>7, <1>10, <1>12, <1>16 DEF BaseInv, InOrder
  <1> QED
    BY <1>1, <1>2, <1>5, <1>6, <1>7, <1>10, <1>11, <1>13, <1>14, <1>17
    DEF BaseInv

\* A request is handled: the transactions stay, all go, or the oldest goes
\* into the response.
LEMMA AnswerBase ==
    ASSUME BaseInv, NEW u \in Users, sent[u] # <<>>,
           NEW ok \in BOOLEAN, NEW v \in 0..MaxRecords, Answer(u, ok, v),
           held' \subseteq Users, dead' \subseteq held' \ {"spi"},
           high' \in BOOLEAN, high' => "button" \in held' \ dead',
           \/ /\ ~(u = "spi" /\ Head(sent[u]).op = "read" /\ ok)
              /\ queue' = queue \/ queue' = <<>>
           \/ /\ u = "spi" /\ Head(sent[u]).op = "read" /\ ok
              /\ queue # <<>> /\ queue' = Tail(queue) /\ v = Head(queue)
    PROVE  /\ BaseInv'
           /\ \/ Kept' = Kept
              \/ /\ queue' = <<>> /\ queue # <<>>
                 /\ ~(u = "spi" /\ Head(sent[u]).op = "read" /\ ok)
  <1> DEFINE a == [op |-> Head(sent[u]).op, ok |-> ok, val |-> v]
             carries == u = "spi" /\ a.op = "read" /\ a.ok
  <1>1. /\ Respond(u, a) /\ UNCHANGED <<at, gui, recorded, losses>>
        /\ a.op = Head(sent[u]).op /\ a.ok = ok /\ a.val = v
    BY DEF Answer
  <1>2. /\ LineType(Requests, Responses) /\ "spi" \in Users
        /\ queue \in Seq(1..MaxRecords) /\ recorded \in 0..MaxRecords
        /\ MaxRecords \in Nat
    BY SessionAssumption DEF BaseInv, Types, TypeOK
  <1>3. sent[u] \in Seq(Requests) /\ Head(sent[u]) \in Requests
    <2>1. sent[u] \in Seq(Requests)
      BY <1>2 DEF LineType
    <2> QED
      BY <2>1, TailElements
  <1>4. a \in Responses
    BY <1>3, RequestFacts
  <1>5. \/ queue' = queue /\ ~carries
        \/ queue' = <<>> /\ ~carries
        \/ carries /\ queue # <<>> /\ queue' = Tail(queue) /\ v = Head(queue)
    BY <1>1
  <1> HIDE DEF a
  <1>6. LineType(Requests, Responses)'
    BY <1>1, <1>2, <1>4, RespondType
  <1>7. call' = call /\ back' = [back EXCEPT ![u] = Append(@, a)]
    BY <1>1 DEF Respond
  <1>8. queue # <<>> => /\ Tail(queue) \in Seq(1..MaxRecords)
                        /\ Len(queue) \in Nat \ {0}
                        /\ Len(Tail(queue)) = Len(queue) - 1
                        /\ \A i \in 1..(Len(queue) - 1) :
                              Tail(queue)[i] = queue[i + 1]
                        /\ Head(queue) = queue[1]
                        /\ DOMAIN queue = 1..Len(queue)
                        /\ DOMAIN Tail(queue) = 1..Len(Tail(queue))
    BY <1>2, TailElements
  <1>9. queue' \in Seq(1..MaxRecords)
    BY <1>2, <1>5, <1>8, EmptySeq
  <1>10. Types'
    BY <1>1, <1>6, <1>7, <1>9 DEF BaseInv, Types, TypeOK, LineType, gui
  <1>11. Phases'
    BY <1>1, <1>7 DEF BaseInv, Phases, gui
  <1>12. Shown' = Shown /\ Ascending(table)'
    BY <1>1 DEF gui, Shown, Ascending, BaseInv, InOrder
  <1>13. CASE ~carries
    <2>1. Coming' = Coming /\ \A k \in Coming : Number(k)' = Number(k)
      <3>1. CASE u = "spi"
        <4>1. back'["spi"] = Append(back["spi"], a)
          BY <1>2, <1>7, <3>1 DEF LineType
        <4> QED
          BY <1>2, <1>4, <1>13, <3>1, <4>1, ComingAppend
      <3>2. CASE u # "spi"
        <4>1. back'["spi"] = back["spi"]
          BY <1>2, <1>7, <3>2 DEF LineType
        <4> QED
          BY <4>1, ComingSame
      <3> QED
        BY <3>1, <3>2
    <2>2. OnTheWay' = OnTheWay
      BY <2>1 DEF OnTheWay
    <2>3. CASE queue' = queue
      <3>1. Queued' = Queued /\ Ascending(queue)'
        BY <2>3 DEF Queued, Ascending, BaseInv, InOrder
      <3>2. Numbers' /\ InOrder' /\ Kept' = Kept
        BY <1>1, <1>12, <2>1, <2>2, <2>3, <3>1
        DEF BaseInv, Numbers, InOrder, Before, Kept
      <3> QED
        BY <1>10, <1>11, <3>2 DEF BaseInv
    <2>4. CASE queue' = <<>> /\ queue' # queue
      <3>1. Queued' = {} /\ Ascending(queue)' /\ Len(queue') = 0
        BY <2>4 DEF Queued, Ascending
      <3>2. Numbers' /\ InOrder'
        BY <1>1, <1>12, <2>1, <2>2, <3>1
        DEF BaseInv, Numbers, InOrder, Before
      <3> QED
        BY <1>1, <1>10, <1>11, <1>13, <2>4, <3>2 DEF BaseInv
    <2> QED
      BY <1>5, <1>13, <2>3, <2>4
  <1>14. CASE carries
    <2> DEFINE h == Head(queue)
    <2>1. queue # <<>> /\ queue' = Tail(queue) /\ v = h /\ u = "spi"
      BY <1>5, <1>14
    <2>2. back'["spi"] = Append(back["spi"], a)
      BY <1>2, <1>7, <2>1 DEF LineType
    <2>0. /\ Len(queue) \in Nat \ {0} /\ Len(queue') = Len(queue) - 1
          /\ \A i \in 1..(Len(queue) - 1) : queue'[i] = queue[i + 1]
          /\ h = queue[1]
          /\ DOMAIN queue = 1..Len(queue) /\ DOMAIN queue' = 1..Len(queue')
      BY <1>8, <2>1
    <2>3. PICK n \in Nat :
              /\ \A k \in Coming : k \in Nat /\ k < n
              /\ Coming' = Coming \cup {n}
              /\ \A k \in Coming : Number(k)' = Number(k)
              /\ back'["spi"][n].val = a.val
      BY <1>2, <1>4, <1>14, <2>2, ComingAppend
    <2>4. Number(n)' = h
      BY <1>1, <2>1, <2>3 DEF Number
    <2>5. OnTheWay' = OnTheWay \cup {h}
      BY <2>3, <2>4 DEF OnTheWay
    <2>6. \A i \in 1..Len(queue) : queue[i] = recorded - Len(queue) + i
      BY DEF BaseInv, Numbers
    <2>7. h \in Queued /\ h = queue[1] /\ queue[1] \in 1..MaxRecords
      <3>1. 1 \in DOMAIN queue
        BY <2>0
      <3>2. queue[1] \in Queued /\ queue[1] \in 1..MaxRecords
        BY <1>2, <3>1 DEF Queued
      <3> QED
        BY <2>0, <3>2
    <2>8. h = recorded - Len(queue) + 1 /\ h \in 1..recorded
      <3>1. queue[1] = recorded - Len(queue) + 1
        BY <2>0, <2>6
      <3> QED
        BY <1>2, <2>0, <2>7, <3>1
    <2>9. \A i \in 1..Len(queue') :
              /\ queue'[i] = recorded - Len(queue') + i /\ queue'[i] \in Queued
              /\ h < queue'[i]
      <3> TAKE i \in 1..Len(queue')
      <3>1. i \in 1..(Len(queue) - 1) /\ i + 1 \in 1..Len(queue)
        BY <2>0
      <3>2. queue'[i] = queue[i + 1] /\ queue[i + 1] \in Queued
            /\ queue[i + 1] = recorded - Len(queue) + (i + 1)
        BY <2>0, <2>6, <3>1 DEF Queued
      <3> QED
        BY <1>2, <2>0, <2>8, <3>1, <3>2
    <2>10. DOMAIN queue' = 1..Len(queue') /\ Len(queue') \in Nat
      BY <2>0
    <2>11. Queued' \subseteq Queued /\ \A x \in Queued' : h < x
      BY <2>9, <2>10 DEF Queued
    <2>12. Queued \subseteq Queued' \cup {h}
      <3> SUFFICES ASSUME NEW i \in DOMAIN queue, i # 1
                   PROVE  queue[i] \in Queued'
        BY <2>7 DEF Queued
      <3>1. i - 1 \in 1..(Len(queue) - 1) /\ (i - 1) + 1 = i
        BY <2>0
      <3>2. queue'[i - 1] = queue[i] /\ i - 1 \in DOMAIN queue'
        BY <2>0, <3>1
      <3> QED
        BY <3>2 DEF Queued
    <2>13. Ascending(queue)'
      BY <1>2, <2>9, <2>10 DEF Ascending
    <2> HIDE DEF h
    <2>14. Numbers'
      <3>1. \A k \in Coming' : Number(k)' \in 1..recorded
        BY <2>3, <2>4, <2>8 DEF BaseInv, Numbers
      <3>2. \A i \in 1..Len(queue') : queue'[i] = recorded' - Len(queue') + i
        BY <1>1, <2>9
      <3> QED
        BY <1>1, <1>12, <3>1, <3>2 DEF BaseInv, Numbers
    <2>15. InLine'
      <3>1. \A k \in Coming : Number(k) < h
        BY <2>7 DEF BaseInv, InOrder, Before, OnTheWay
      <3> QED
        BY <2>3, <2>4, <3>1 DEF InLine, BaseInv, InOrder
    <2>16. Before(Shown, OnTheWay \cup Queued)' /\ Before(OnTheWay, Queued)'
      BY <1>12, <2>5, <2>7, <2>11 DEF BaseInv, InOrder, Before
    <2>17. InOrder'
      BY <1>12, <2>13, <2>15, <2>16 DEF InOrder, InLine
    <2>18. Kept' = Kept
      BY <1>12, <2>5, <2>7, <2>11, <2>12 DEF Kept
    <2> QED
      BY <1>10, <1>11, <2>14, <2>17, <2>18 DEF BaseInv
  <1> QED
    BY <1>13, <1>14

\* Only the button is written to.
Harmless == {r \in Requests : r.op # "write"}
NoWrites == \A u \in Users \ {"button"} : sent[u] \in Seq(Harmless)

\* Every handler does so, and only that of clear empties the FPGA.
LEMMA HandleBase ==
    ASSUME BaseInv, NoWrites, NEW u \in Users, Handle(u)
    PROVE  /\ BaseInv'
           /\ \/ Kept' = Kept
              \/ /\ u = "spi" /\ HandleClear /\ "spi" \in held
  <1>0. /\ held \subseteq Users /\ dead \subseteq held \ {"spi"}
        /\ high \in BOOLEAN /\ (high => "button" \in held \ dead)
        /\ queue \in Seq(1..MaxRecords)
        /\ MaxRecords \in Nat
    BY SessionAssumption DEF BaseInv, Types, TypeOK
  <1>1. 0 \in 0..MaxRecords
    BY <1>0
  <1>2. CASE HandleOpen(u)
    <2>1. sent[u] # <<>> /\ Head(sent[u]).op = "open" /\ queue' = queue
      BY <1>2 DEF HandleOpen, Due
    <2>2. \/ /\ held' = held \cup {u} /\ Answer(u, TRUE, 0)
             /\ dead' = dead \ {u} \/ (u # "spi" /\ dead' = dead \cup {u})
             /\ high' = (high /\ u # "button")
          \/ /\ held' = (IF u = "spi" THEN held \ {u} ELSE held)
             /\ Answer(u, FALSE, 0) /\ dead' = dead /\ high' = high
      BY <1>2 DEF HandleOpen
    <2>3. /\ held' \subseteq Users /\ dead' \subseteq held' \ {"spi"}
          /\ high' \in BOOLEAN /\ (high' => "button" \in held' \ dead')
      <3>1. "button" # "spi"
        OBVIOUS
      <3>2. CASE dead' = dead /\ high' = high
        BY <1>0, <2>2, <3>1, <3>2
      <3>3. CASE /\ held' = held \cup {u} /\ high' = (high /\ u # "button")
                 /\ dead' = dead \ {u}
        BY <1>0, <3>1, <3>3
      <3>4. CASE /\ held' = held \cup {u} /\ high' = (high /\ u # "button")
                 /\ u # "spi" /\ dead' = dead \cup {u}
        BY <1>0, <3>1, <3>4
      <3> QED
        BY <2>2, <3>2, <3>3, <3>4
    <2>4. PICK ok \in BOOLEAN : Answer(u, ok, 0)
      BY <2>2
    <2> QED
      BY <1>1, <2>1, <2>3, <2>4, AnswerBase
  <1>3. CASE HandleClose(u)
    <2>1. sent[u] # <<>> /\ Head(sent[u]).op = "close" /\ queue' = queue
          /\ Answer(u, TRUE, 0) /\ held' \subseteq Users
          /\ dead' \subseteq held' \ {"spi"}
          /\ high' \in BOOLEAN /\ (high' => "button" \in held' \ dead')
      BY <1>0, <1>3 DEF HandleClose, Due
    <2> QED
      BY <1>1, <2>1, AnswerBase
  <1>4. CASE HandleWrite(u)
    <2>1. sent[u] # <<>> /\ Head(sent[u]).op = "write" /\ queue' = queue
          /\ held' = held /\ dead' = dead /\ Answer(u, Live(u), 0)
          /\ high' = IF Live(u) THEN Head(sent[u]).arg = "high" ELSE high
      BY <1>4 DEF HandleWrite, Due
    <2>2. u = "button"
      <3>1. u # "button" => Head(sent[u]) \in Harmless
        BY <2>1, TailElements DEF NoWrites
      <3> QED
        BY <2>1, <3>1 DEF Harmless
    <2>3. /\ high' \in BOOLEAN /\ held' \subseteq Users
          /\ dead' \subseteq held' \ {"spi"}
          /\ high' => "button" \in held' \ dead'
      BY <1>0, <2>1, <2>2 DEF Live
    <2>4. \E ok \in BOOLEAN : Answer(u, ok, 0)
      <3> WITNESS (u \in held \ dead) \in BOOLEAN
      <3> QED
        BY <2>1 DEF Live
    <2>5. PICK ok \in BOOLEAN : Answer(u, ok, 0)
      BY <2>4
    <2> QED
      BY <1>1, <2>1, <2>3, <2>5, AnswerBase
  <1>5. CASE u = "monitor" /\ HandleLevel
    <2>1. sent[u] # <<>> /\ UNCHANGED <<queue, held, dead, high>>
          /\ Answer(u, "monitor" \in held \ dead /\ queue # <<>>, 0)
      BY <1>5 DEF HandleLevel, Due, Live
    <2> QED
      BY <1>0, <1>1, <1>5, <2>1, AnswerBase
  <1>6. CASE u = "spi" /\ HandleRead
    <2>1. sent[u] # <<>> /\ Head(sent[u]).op = "read"
          /\ UNCHANGED <<held, dead, high>>
      BY <1>6 DEF HandleRead, Due
    <2>2. CASE "spi" \in held /\ queue # <<>>
      <3>1. queue' = Tail(queue) /\ Answer(u, TRUE, Head(queue))
        BY <1>6, <2>2 DEF HandleRead
      <3>2. Head(queue) \in 0..MaxRecords
        BY <1>0, <2>2, TailElements
      <3>3. PICK v \in 0..MaxRecords : v = Head(queue) /\ Answer(u, TRUE, v)
        BY <3>1, <3>2
      <3>4. PICK ok \in BOOLEAN : ok /\ Answer(u, ok, v)
        BY <3>3
      <3> QED
        BY <1>0, <1>6, <2>1, <2>2, <3>1, <3>3, <3>4, AnswerBase
    <2>3. CASE ~("spi" \in held /\ queue # <<>>)
      <3>1. queue' = queue /\ Answer(u, FALSE, 0)
        BY <1>6, <2>3 DEF HandleRead
      <3> QED
        BY <1>0, <1>1, <2>1, <3>1, AnswerBase
    <2> QED
      BY <2>2, <2>3
  <1>7. CASE u = "spi" /\ HandleClear
    <2>1. sent[u] # <<>> /\ Head(sent[u]).op = "clear"
          /\ UNCHANGED <<held, dead, high>>
          /\ queue' = (IF "spi" \in held THEN <<>> ELSE queue)
          /\ Answer(u, "spi" \in held, 0)
      BY <1>7 DEF HandleClear, Due
    <2>2. \E ok \in BOOLEAN : Answer(u, ok, 0)
      <3> WITNESS ("spi" \in held) \in BOOLEAN
      <3> QED
        BY <2>1
    <2>3. PICK ok \in BOOLEAN : Answer(u, ok, 0)
      BY <2>2
    <2>4. BaseInv' /\ (Kept' = Kept \/ (queue' = <<>> /\ queue # <<>>))
      BY <1>0, <1>1, <2>1, <2>3, AnswerBase
    <2> QED
      BY <1>7, <2>1, <2>4
  <1> QED
    BY <1>2, <1>3, <1>4, <1>5, <1>6, <1>7 DEF Handle

-----------------------------------------------------------------------------
(* All steps.                                                              *)

LEMMA SpiUser == "spi" \in Users
  BY SessionAssumption

\* The GUI thread comes out of a call with the result r.
EndsWith(r) ==
    /\ r.ok \in BOOLEAN /\ Proceed(r) /\ UNCHANGED device
    /\ losses' \in 0..MaxLosses
    /\ LineType(Requests, Responses)'
    /\ \A v \in Users : call'[v] = NoCall
    /\ \/ back'["spi"] = back["spi"]
       \/ back["spi"] # <<>> /\ back'["spi"] = Tail(back["spi"])
    /\ r.ok => \E u \in Users : Take(u) /\ Calls[at].user = u
                                /\ r = Head(back[u])
    /\ at = "read" /\ r.ok =>
          /\ back["spi"] # <<>> /\ back'["spi"] = Tail(back["spi"])
          /\ Head(back["spi"]).op = "read" /\ Head(back["spi"]).ok
          /\ r.val = Head(back["spi"]).val

\* There are three ways: a refusal, a response, and none.
LEMMA EndFacts ==
    ASSUME BaseInv
    PROVE  /\ Refuse => EndsWith(Nothing)
           /\ \A u \in Users : \A r :
                 Take(u) /\ r = Head(back[u]) => EndsWith(r)
           /\ \A u \in Users : Lose(u) => EndsWith(Nothing)
  <1>1. TypeOK /\ LineType(Requests, Responses) /\ losses \in 0..MaxLosses
        /\ MaxLosses \in Nat
    BY SessionAssumption DEF BaseInv, Types, TypeOK
  <1>2. ASSUME Refuse PROVE EndsWith(Nothing)
    <2>1. /\ at \in CallNames /\ Proceed(Nothing) /\ Nothing.ok = FALSE
          /\ UNCHANGED <<device, losses, line>>
          /\ Calls[at].needed /\ ~isOpen[Calls[at].user]
      BY <1>2, CallFacts DEF Refuse, Nothing
    <2>2. \A v \in Users : call[v] = NoCall
      BY <1>1, <2>1, OneCaller DEF BaseInv, Phases
    <2>3. LineType(Requests, Responses)' /\ call' = call /\ back' = back
      BY <1>1, <2>1 DEF LineType, line
    <2> QED
      BY <1>1, <2>1, <2>2, <2>3 DEF EndsWith
  <1>3. ASSUME NEW u \in Users, Lose(u)
        PROVE  /\ Proceed(Nothing) /\ Nothing.ok = FALSE /\ UNCHANGED device
               /\ losses' \in 0..MaxLosses /\ LineType(Requests, Responses)'
               /\ \A v \in Users : call'[v] = NoCall
               /\ back' = back
    <2>1. GiveUp(u, 0) /\ Proceed(Nothing) /\ UNCHANGED device /\ CountLoss
          /\ Nothing.ok = FALSE
      BY <1>3 DEF Lose, Nothing
    <2>2. LineType(Requests, Responses)'
      BY <1>1, <2>1, EndType
    <2>3. call[u] # NoCall /\ call' = [call EXCEPT ![u] = NoCall] /\ back' = back
      BY <2>1 DEF GiveUp
    <2>4. \A v \in Users : call'[v] = NoCall
      BY <1>1, <2>3, OneCaller DEF LineType
    <2>5. losses' \in 0..MaxLosses
      BY <1>1, <2>1 DEF CountLoss
    <2> QED
      BY <2>1, <2>2, <2>3, <2>4, <2>5
  <1>4. ASSUME NEW u \in Users, Take(u)
        PROVE  LET r == Head(back[u])
               IN  /\ r.ok \in BOOLEAN /\ Proceed(r) /\ UNCHANGED device
                   /\ losses' \in 0..MaxLosses
                   /\ LineType(Requests, Responses)'
                   /\ \A v \in Users : call'[v] = NoCall
                   /\ \/ back'["spi"] = back["spi"]
                      \/ /\ back["spi"] # <<>>
                         /\ back'["spi"] = Tail(back["spi"])
                   /\ Calls[at].user = u
                   /\ at = "read" =>
                         /\ u = "spi" /\ r.op = "read"
                         /\ back["spi"] # <<>>
                         /\ back'["spi"] = Tail(back["spi"])
    <2>1. Receive(u) /\ Proceed(Head(back[u])) /\ UNCHANGED <<device, losses>>
      BY <1>4 DEF Take
    <2>2. LineType(Requests, Responses)'
      BY <1>1, <2>1, EndType
    <2>3. /\ call[u] # NoCall /\ call' = [call EXCEPT ![u] = NoCall]
          /\ back[u] # <<>> /\ back' = [back EXCEPT ![u] = Tail(@)]
          /\ Head(back[u]).op = call[u].op
      BY <2>1 DEF Receive
    <2>4. /\ at \in CallNames /\ Calls[at].user = u /\ Calls[at].req = call[u]
          /\ \A v \in Users : v # u => call[v] = NoCall
      BY <1>1, <2>3, OneCaller
    <2>5. \A v \in Users : call'[v] = NoCall
      BY <1>1, <2>3, <2>4 DEF LineType
    <2>6. Head(back[u]).ok \in BOOLEAN
      <3>1. back[u] \in Seq(Responses)
        BY <1>1 DEF LineType
      <3> QED
        BY <2>3, <3>1, TailElements, ResponseParts
    <2>7. /\ u = "spi" => back'["spi"] = Tail(back["spi"])
          /\ u # "spi" => back'["spi"] = back["spi"]
      BY <1>1, <2>3, SpiUser DEF LineType
    <2>8. at = "read" => u = "spi" /\ Head(back[u]).op = "read"
      BY <2>3, <2>4, CallFacts
    <2> QED
      BY <1>1, <2>1, <2>2, <2>3, <2>4, <2>5, <2>6, <2>7, <2>8
  <1>5. ASSUME NEW u \in Users, Take(u), NEW r, r = Head(back[u])
        PROVE  EndsWith(r)
    BY <1>4, <1>5 DEF EndsWith
  <1>6. ASSUME NEW u \in Users, Lose(u)
        PROVE  EndsWith(Nothing)
    BY <1>3, <1>6 DEF EndsWith
  <1> QED
    BY <1>2, <1>5, <1>6

LEMMA EndBase ==
    ASSUME BaseInv, NEW r, EndsWith(r) PROVE BaseInv'
  <1>1. Numbers' /\ InOrder'
        /\ (at = "read" /\ r.ok => r.val \in 1..recorded)
    BY EndOrder DEF EndsWith
  <1>2. Types' /\ Phases'
    BY <1>1, EndTypes DEF EndsWith
  <1> QED
    BY <1>1, <1>2 DEF BaseInv

LEMMA BaseInit == Init => BaseInv /\ NoWrites
  <1> SUFFICES ASSUME Init PROVE BaseInv /\ NoWrites
    OBVIOUS
  <1>1. /\ at = "off" /\ remote \in BOOLEAN /\ reads = 0 /\ table = <<>>
        /\ saidUp = FALSE /\ queue = <<>> /\ recorded = 0 /\ held = {}
        /\ dead = {} /\ high = FALSE /\ losses = 0
        /\ isOpen = [u \in Users |-> FALSE]
        /\ call = [u \in Users |-> NoCall] /\ sent = [u \in Users |-> <<>>]
        /\ back = [u \in Users |-> <<>>] /\ here = [u \in Users |-> TRUE]
    BY DEF Init, LineInit
  <1>2. MaxReads \in Nat \ {0} /\ MaxRecords \in Nat /\ MaxLosses \in Nat
    BY SessionAssumption
  <1>3. \A S : <<>> \in Seq(S)
    BY EmptySeq
  <1>4. Types
    <2>1. TypeOK
      <3>1. /\ at \in DOMAIN Calls \cup {"idle", "off"} /\ at # "read"
            /\ remote \in BOOLEAN /\ saidUp \in BOOLEAN /\ high = FALSE
            /\ reads \in 0..(MaxReads - 1) /\ reads = 0
            /\ recorded \in 0..MaxRecords /\ losses \in 0..MaxLosses
        <4>1. MaxReads - 1 \in Nat /\ 0 \in 0..(MaxReads - 1)
              /\ 0 \in 0..MaxRecords /\ 0 \in 0..MaxLosses
          BY <1>2
        <4> QED
          BY <1>1, <4>1
      <3>2. table \in Seq(1..MaxRecords) /\ queue \in Seq(1..MaxRecords)
            /\ held \subseteq Users /\ dead \subseteq held \ {"spi"}
        BY <1>1, <1>3
      <3>3. isOpen \in [Users -> BOOLEAN]
        BY <1>1
      <3>4. /\ call \in [Users -> Requests \cup {NoCall}]
            /\ \A u \in Users : call[u] = NoCall
        BY <1>1
      <3>5. sent \in [Users -> Seq(Requests)] /\ back \in [Users -> Seq(Responses)]
        BY <1>1, <1>3
      <3> QED
        BY <3>1, <3>2, <3>3, <3>4, <3>5 DEF TypeOK
    <2>2. here \in [Users -> BOOLEAN]
      BY <1>1
    <2> QED
      BY <2>1, <2>2 DEF Types, LineType, TypeOK
  <1>5. Coming = {} /\ Shown = {} /\ Queued = {} /\ Len(queue) = 0
    BY <1>1, SpiUser DEF Coming, Shown, Queued
  <1>6. Numbers /\ InOrder
    BY <1>1, <1>5 DEF Numbers, InOrder, Ascending, Before, OnTheWay
  <1>7. Phases
    BY <1>1 DEF Phases
  <1>8. NoWrites
    BY <1>1, <1>3 DEF NoWrites
  <1> QED
    BY <1>4, <1>6, <1>7, <1>8 DEF BaseInv

\* A request is only added by Ask, which has no write but the button's.
LEMMA NoWritesStep == BaseInv /\ NoWrites /\ [Next]_vars => NoWrites'
  <1> SUFFICES ASSUME BaseInv, NoWrites, [Next]_vars,
                      NEW u \in Users, u # "button"
               PROVE  sent'[u] \in Seq(Harmless)
    BY DEF NoWrites
  <1>1. sent[u] \in Seq(Harmless) /\ sent \in [Users -> Seq(Requests)]
    BY DEF NoWrites, BaseInv, Types, LineType
  <1>2. CASE Ask
    <2>1. at \in CallNames /\ Send(Calls[at].user, Calls[at].req)
      BY <1>2, CallFacts DEF Ask
    <2>2. CASE u = Calls[at].user
      <3>1. Calls[at].req \in Harmless
        BY <2>1, <2>2, CallFacts DEF Harmless
      <3>2. sent'[u] = Append(sent[u], Calls[at].req)
        BY <1>1, <2>1, <2>2 DEF Send
      <3> QED
        BY <1>1, <3>1, <3>2, AppendElements
    <2>3. CASE u # Calls[at].user
      BY <1>1, <2>1, <2>3 DEF Send
    <2> QED
      BY <2>2, <2>3
  <1>3. ASSUME NEW v \in Users, Lose(v) PROVE sent'[u] \in Seq(Harmless)
    <2>1. PICK n \in 0..Len(sent[v]) :
              sent' = [sent EXCEPT ![v] = SubSeq(sent[v], 1, n)]
      BY <1>3 DEF Lose, GiveUp, Cut
    <2>2. CASE u = v
      BY <1>1, <2>1, <2>2, PrefixElements
    <2>3. CASE u # v
      BY <1>1, <2>1, <2>3
    <2> QED
      BY <2>2, <2>3
  <1>4. ASSUME NEW v \in Users, Handle(v) PROVE sent'[u] \in Seq(Harmless)
    <2>1. sent[v] # <<>> /\ sent' = [sent EXCEPT ![v] = Tail(sent[v])]
      BY <1>4
      DEF Handle, HandleOpen, HandleClose, HandleWrite, HandleLevel,
          HandleRead, HandleClear, Due, Answer, Respond
    <2>2. CASE u = v
      BY <1>1, <2>1, <2>2, TailElements
    <2>3. CASE u # v
      BY <1>1, <2>1, <2>3
    <2> QED
      BY <2>2, <2>3
  <1>5. CASE sent' = sent
    BY <1>1, <1>5
  <1>6. ASSUME NEW v \in Users, Take(v) \/ Drop(v) \/ DropEarly(v)
        PROVE  sent' = sent
    BY <1>6 DEF Take, Drop, DropEarly, Receive, Discard
  <1>7. Refuse \/ Connect \/ Disconnect \/ Poll \/ UserAction \/ Record
        \/ UNCHANGED vars => sent' = sent
    BY DEF Refuse, Connect, Disconnect, Poll, UserAction, Record, vars, line
  <1> QED
    BY <1>2, <1>3, <1>4, <1>5, <1>6, <1>7 DEF Next

LEMMA BaseStep == BaseInv /\ NoWrites /\ [Next]_vars => BaseInv'
  <1> SUFFICES ASSUME BaseInv, NoWrites, [Next]_vars PROVE BaseInv'
    OBVIOUS
  <1>1. ASSUME NEW r, EndsWith(r) PROVE BaseInv'
    BY <1>1, EndBase
  <1>2. CASE Refuse
    BY <1>2, <1>1, EndFacts
  <1>3. ASSUME NEW u \in Users, Take(u) \/ Lose(u) PROVE BaseInv'
    <2>1. PICK r : r = Head(back[u])
      OBVIOUS
    <2> QED
      BY <1>3, <1>1, <2>1, EndFacts
  <1>4. CASE Ask
    BY <1>4, AskBase
  <1>5. ASSUME NEW u \in Users, Drop(u) \/ DropEarly(u) PROVE BaseInv'
    BY <1>5, DropBase
  <1>6. ASSUME NEW u \in Users, Handle(u) PROVE BaseInv'
    BY <1>6, HandleBase
  <1>7. CASE Record
    BY <1>7, RecordBase
  <1>8. CASE Connect \/ Disconnect \/ Poll \/ UserAction \/ UNCHANGED vars
    BY <1>8, EventBase
  <1> QED
    BY <1>2, <1>3, <1>4, <1>5, <1>6, <1>7, <1>8 DEF Next

-----------------------------------------------------------------------------
(* What holds as long as nothing is lost.                                  *)

\* The call of u is the only one on its way, as a request or as a response.
Asked(u) == Len(sent[u]) = 1 /\ Head(sent[u]) = call[u] /\ back[u] = <<>>
Answered(u) ==
    sent[u] = <<>> /\ Len(back[u]) = 1 /\ Head(back[u]).op = call[u].op

Alone(u) ==
    \/ call[u] = NoCall /\ sent[u] = <<>> /\ back[u] = <<>>
    \/ call[u] # NoCall /\ (Asked(u) \/ Answered(u))

\* The device is held if the object is open, or will be with the response.
Holds(u) ==
    IF back[u] # <<>> /\ call[u].op = "open" THEN Head(back[u]).ok
    ELSE IF back[u] # <<>> /\ call[u].op = "close" THEN FALSE
    ELSE isOpen[u]

AllAlone == \A u \in Users : Alone(u)
AllHeld == \A u \in Users : u \in held <=> Holds(u)

\* The FPGA has been cleared, and the table not yet.
Gap == at = "clear" /\ back["spi"] # <<>> /\ Head(back["spi"]).ok

Complete == NoneMissing \/ Gap

CleanInv == losses = 0 => AllAlone /\ AllHeld /\ Complete

\* As long as nothing is lost, only these steps happen.
LEMMA NoLoss ==
    ASSUME BaseInv, AllAlone, losses' = 0, NEW u \in Users
    PROVE  ~(Lose(u) \/ Drop(u) \/ DropEarly(u))
  <1>1. losses \in Nat /\ MaxLosses \in Nat
    BY SessionAssumption DEF BaseInv, Types, TypeOK
  <1>2. Alone(u)
    BY DEF AllAlone
  <1>3. ASSUME Lose(u) PROVE FALSE
    <2>1. /\ losses < MaxLosses \/ (sent[u] = <<>> /\ back[u] = <<>>)
          /\ call[u] # NoCall
          /\ losses' = IF losses < MaxLosses THEN losses + 1 ELSE losses
      BY <1>3 DEF Lose, GiveUp, CountLoss
    <2>2. ~(losses < MaxLosses)
      BY <1>1, <2>1
    <2>3. Len(sent[u]) = 1 \/ Len(back[u]) = 1
      BY <1>2, <2>1 DEF Alone, Asked, Answered
    <2>4. sent[u] # <<>> \/ back[u] # <<>>
      BY <2>3
    <2> QED
      BY <2>1, <2>2, <2>4
  <1>4. ASSUME Drop(u) PROVE FALSE
    BY <1>2, <1>4 DEF Drop, Discard, Alone, Asked, Answered
  <1>5. ASSUME DropEarly(u) PROVE FALSE
    BY <1>1, <1>5 DEF DropEarly, CountLoss
  <1> QED
    BY <1>3, <1>4, <1>5

LEMMA StillClean ==
    ASSUME BaseInv, [Next]_vars, losses' = 0 PROVE losses = 0
  <1>1. losses \in Nat
    BY DEF BaseInv, Types, TypeOK
  <1>2. losses' = losses \/ losses' = losses + 1
    BY DEF Next, Ask, Refuse, Take, Lose, Drop, DropEarly, CountLoss, Handle,
           HandleOpen, HandleClose, HandleWrite, HandleLevel, HandleRead,
           HandleClear, Answer, Connect, Disconnect, Poll, UserAction, Record,
           vars
  <1> QED
    BY <1>1, <1>2

-----------------------------------------------------------------------------
(* The steps that are left, as far as the line and the devices go.         *)

\* A request goes out on an empty line.
LEMMA AskClean ==
    ASSUME BaseInv, AllAlone, AllHeld, Complete, Ask
    PROVE  AllAlone' /\ AllHeld' /\ Complete'
  <1>1. at \in CallNames
    BY CallFacts DEF Ask
  <1>a. PICK c : c = Calls[at]
    OBVIOUS
  <1>2. c.user \in Users /\ c.req \in Requests /\ c.req # NoCall
    BY <1>1, <1>a, CallFacts, RequestFacts
  <1>3. /\ Idle(c.user)
        /\ call' = [call EXCEPT ![c.user] = c.req]
        /\ sent' = [sent EXCEPT ![c.user] = Append(@, c.req)]
        /\ UNCHANGED <<back, at, gui, device, losses>>
    BY <1>a DEF Ask, Send
  <1>4. /\ sent \in [Users -> Seq(Requests)] /\ back \in [Users -> Seq(Responses)]
        /\ call \in [Users -> Requests \cup {NoCall}]
    BY DEF BaseInv, Types, LineType
  <1>5. call[c.user] = NoCall /\ sent[c.user] = <<>> /\ back[c.user] = <<>>
    BY <1>2, <1>3 DEF Idle, AllAlone, Alone
  <1>6. /\ call'[c.user] = c.req /\ back' = back
        /\ sent'[c.user] = Append(<<>>, c.req)
    BY <1>2, <1>3, <1>4, <1>5
  <1>7. Len(sent'[c.user]) = 1 /\ Head(sent'[c.user]) = c.req
    BY <1>6
  <1>8. Alone(c.user)'
    BY <1>2, <1>5, <1>6, <1>7 DEF Alone, Asked
  <1>9. ASSUME NEW v \in Users, v # c.user
        PROVE  call'[v] = call[v] /\ sent'[v] = sent[v] /\ back'[v] = back[v]
    BY <1>2, <1>3, <1>4, <1>9
  <1>10. AllAlone'
    <2>1. ASSUME NEW v \in Users, v # c.user PROVE Alone(v)'
      BY <1>9, <2>1 DEF AllAlone, Alone, Asked, Answered
    <2> QED
      BY <1>8, <2>1 DEF AllAlone
  <1>11. AllHeld'
    <2> SUFFICES ASSUME NEW v \in Users PROVE (v \in held <=> Holds(v))'
      BY DEF AllHeld
    <2>1. held' = held /\ isOpen' = isOpen /\ (v \in held <=> Holds(v))
      BY <1>3 DEF gui, device, AllHeld
    <2>2. CASE v = c.user
      BY <1>5, <1>6, <2>1, <2>2 DEF Holds
    <2>3. CASE v # c.user
      BY <1>9, <2>1, <2>3 DEF Holds
    <2> QED
      BY <2>2, <2>3
  <1>12. Complete'
    <2>1. back' = back /\ at' = at /\ table' = table /\ queue' = queue
          /\ recorded' = recorded
      BY <1>3 DEF gui, device
    <2>2. Kept' = Kept
      BY <2>1 DEF Kept, Shown, OnTheWay, Queued, Coming, Number
    <2> QED
      BY <2>1, <2>2 DEF Complete, NoneMissing, Gap
  <1> QED
    BY <1>10, <1>11, <1>12

\* Steps that leave the line, the devices and the table alone.
LEMMA IdleClean ==
    ASSUME BaseInv, AllAlone, AllHeld, Complete,
           \/ Connect \/ Disconnect \/ Poll \/ UserAction \/ UNCHANGED vars
    PROVE  AllAlone' /\ AllHeld' /\ Complete'
  <1>1. /\ UNCHANGED <<isOpen, table, queue, recorded, held, line>>
        /\ at' = at \/ at \in {"idle", "off"}
    BY DEF Connect, Disconnect, Poll, UserAction, vars, gui, device
  <1>2. UNCHANGED <<call, sent, back>>
    BY <1>1 DEF line
  <1>3. AllAlone'
    BY <1>2 DEF AllAlone, Alone, Asked, Answered
  <1>4. AllHeld'
    BY <1>1, <1>2 DEF AllHeld, Holds
  <1>5. Kept' = Kept /\ recorded' = recorded /\ back' = back
    BY <1>1, <1>2 DEF Kept, Shown, OnTheWay, Queued, Coming, Number
  <1>6. Complete'
    BY <1>1, <1>5 DEF Complete, NoneMissing, Gap
  <1> QED
    BY <1>3, <1>4, <1>6

LEMMA RecordClean ==
    ASSUME BaseInv, AllAlone, AllHeld, Complete, Record
    PROVE  AllAlone' /\ AllHeld' /\ Complete'
  <1>1. UNCHANGED <<at, isOpen, held, call, sent, back>>
    BY DEF Record, gui, line
  <1>2. AllAlone'
    BY <1>1 DEF AllAlone, Alone, Asked, Answered
  <1>3. AllHeld'
    BY <1>1 DEF AllHeld, Holds
  <1>4. /\ recorded' = recorded + 1 /\ recorded \in Nat
        /\ Kept' = Kept \cup {recorded'} /\ \A x \in Kept : x \in 1..recorded
    BY RecordBase DEF Kept
  <1>5. NoneMissing => NoneMissing'
    <2> SUFFICES ASSUME NoneMissing, NEW t \in (1..recorded') \ Blank,
                        NEW s \in Kept', s <= t
                 PROVE  t \in Kept'
      BY DEF NoneMissing
    <2>1. CASE t = recorded'
      BY <1>4, <2>1
    <2>2. CASE t # recorded'
      <3>1. t \in 1..recorded /\ s # recorded'
        BY <1>4, <2>2
      <3> QED
        BY <1>4, <3>1 DEF NoneMissing
    <2> QED
      BY <2>1, <2>2
  <1>6. Gap => Gap'
    BY <1>1 DEF Gap
  <1> QED
    BY <1>2, <1>3, <1>5, <1>6 DEF Complete

LEMMA OneElement ==
    ASSUME NEW S, NEW s \in Seq(S), Len(s) = 1
    PROVE  s # <<>> /\ Tail(s) = <<>>
  <1>1. s # <<>>
    BY EmptySeq
  <1>2. Tail(s) \in Seq(S) /\ Len(Tail(s)) = 0
    BY <1>1, TailElements
  <1> QED
    BY <1>1, <1>2, EmptySeq

\* What a handler does, whichever request it is for.
HandledAs(u, a) ==
    /\ sent[u] # <<>>
    /\ sent' = [sent EXCEPT ![u] = Tail(@)]
    /\ back' = [back EXCEPT ![u] = Append(@, a)]
    /\ UNCHANGED <<call, at, isOpen, recorded>>
    /\ a.op = Head(sent[u]).op
    /\ \A v \in Users : v # u => (v \in held' <=> v \in held)
    /\ a.op = "open" => \/ a.ok = TRUE /\ u \in held'
                        \/ a.ok = FALSE /\ (u \in held' => u # "spi" /\ u \in held)
    /\ a.op = "close" => u \notin held'
    /\ a.op \notin {"open", "close"} => held' = held
    /\ HandleClear /\ "spi" \in held /\ u = "spi" =>
          a.op = "clear" /\ a.ok = TRUE

LEMMA HandleFacts ==
    ASSUME BaseInv, NEW u \in Users, Handle(u)
    PROVE  \E a : HandledAs(u, a)
  <1>1. ASSUME NEW ok, NEW v, Answer(u, ok, v)
        PROVE  LET a == [op |-> Head(sent[u]).op, ok |-> ok, val |-> v]
               IN  /\ sent' = [sent EXCEPT ![u] = Tail(@)]
                   /\ back' = [back EXCEPT ![u] = Append(@, a)]
                   /\ UNCHANGED <<call, at, isOpen, recorded>>
                   /\ a.op = Head(sent[u]).op /\ a.ok = ok
    BY <1>1 DEF Answer, Respond, gui
  <1>2. CASE HandleOpen(u)
    <2>1. /\ sent[u] # <<>> /\ Head(sent[u]).op = "open"
          /\ \/ held' = held \cup {u} /\ Answer(u, TRUE, 0)
             \/ /\ held' = IF u = "spi" THEN held \ {u} ELSE held
                /\ Answer(u, FALSE, 0)
      BY <1>2 DEF HandleOpen, Due
    <2>2. CASE held' = held \cup {u} /\ Answer(u, TRUE, 0)
      <3> WITNESS [op |-> Head(sent[u]).op, ok |-> TRUE, val |-> 0]
      <3> QED
        BY <1>1, <2>1, <2>2 DEF HandledAs, HandleClear, Due
    <2>3. CASE /\ held' = IF u = "spi" THEN held \ {u} ELSE held
               /\ Answer(u, FALSE, 0)
      <3> WITNESS [op |-> Head(sent[u]).op, ok |-> FALSE, val |-> 0]
      <3> QED
        BY <1>1, <2>1, <2>3 DEF HandledAs, HandleClear, Due
    <2> QED
      BY <2>1, <2>2, <2>3
  <1>3. CASE HandleClose(u)
    <2>1. sent[u] # <<>> /\ Head(sent[u]).op = "close"
          /\ held' = held \ {u} /\ Answer(u, TRUE, 0)
      BY <1>3 DEF HandleClose, Due
    <2> WITNESS [op |-> Head(sent[u]).op, ok |-> TRUE, val |-> 0]
    <2> QED
      BY <1>1, <2>1 DEF HandledAs, HandleClear, Due
  <1>4. CASE HandleWrite(u)
    <2>1. sent[u] # <<>> /\ Head(sent[u]).op = "write"
          /\ held' = held /\ Answer(u, Live(u), 0)
      BY <1>4 DEF HandleWrite, Due
    <2> WITNESS [op |-> Head(sent[u]).op, ok |-> Live(u), val |-> 0]
    <2> QED
      BY <1>1, <2>1 DEF HandledAs, HandleClear, Due
  <1>5. CASE u = "monitor" /\ HandleLevel
    <2>1. sent[u] # <<>> /\ Head(sent[u]).op = "read" /\ held' = held
          /\ Answer(u, Live("monitor") /\ queue # <<>>, 0)
      BY <1>5 DEF HandleLevel, Due
    <2> WITNESS [op |-> Head(sent[u]).op,
                 ok |-> Live("monitor") /\ queue # <<>>, val |-> 0]
    <2> QED
      BY <1>1, <1>5, <2>1 DEF HandledAs
  <1>6. CASE u = "spi" /\ HandleRead
    <2>1. sent[u] # <<>> /\ Head(sent[u]).op = "read" /\ held' = held
          /\ (Answer(u, TRUE, Head(queue)) \/ Answer(u, FALSE, 0))
      BY <1>6 DEF HandleRead, Due
    <2>2. CASE Answer(u, TRUE, Head(queue))
      <3> WITNESS [op |-> Head(sent[u]).op, ok |-> TRUE, val |-> Head(queue)]
      <3> QED
        BY <1>1, <1>6, <2>1, <2>2 DEF HandledAs, HandleClear, Due
    <2>3. CASE Answer(u, FALSE, 0)
      <3> WITNESS [op |-> Head(sent[u]).op, ok |-> FALSE, val |-> 0]
      <3> QED
        BY <1>1, <1>6, <2>1, <2>3 DEF HandledAs, HandleClear, Due
    <2> QED
      BY <2>1, <2>2, <2>3
  <1>7. CASE u = "spi" /\ HandleClear
    <2>1. sent[u] # <<>> /\ Head(sent[u]).op = "clear" /\ held' = held
          /\ Answer(u, "spi" \in held, 0)
      BY <1>7 DEF HandleClear, Due
    <2> WITNESS [op |-> Head(sent[u]).op, ok |-> "spi" \in held, val |-> 0]
    <2> QED
      BY <1>1, <1>7, <2>1 DEF HandledAs
  <1> QED
    BY <1>2, <1>3, <1>4, <1>5, <1>6, <1>7 DEF Handle

LEMMA HandleClean ==
    ASSUME BaseInv, NoWrites, AllAlone, AllHeld, Complete,
           NEW u \in Users, Handle(u)
    PROVE  AllAlone' /\ AllHeld' /\ Complete'
  <1>1. PICK a : HandledAs(u, a)
    BY HandleFacts
  <1>2. /\ sent \in [Users -> Seq(Requests)] /\ back \in [Users -> Seq(Responses)]
        /\ TypeOK
    BY DEF BaseInv, Types, LineType
  <1>3. /\ Len(sent[u]) = 1 /\ Head(sent[u]) = call[u] /\ back[u] = <<>>
        /\ call[u] # NoCall
    BY <1>1 DEF HandledAs, AllAlone, Alone, Asked, Answered
  <1>4. sent'[u] = Tail(sent[u]) /\ back'[u] = Append(<<>>, a)
        /\ call' = call
    BY <1>1, <1>2, <1>3 DEF HandledAs
  <1>5. sent'[u] = <<>>
    <2>1. sent[u] \in Seq(Requests) /\ sent[u] # <<>>
      BY <1>1, <1>2 DEF HandledAs
    <2> QED
      BY <1>3, <1>4, <2>1, OneElement
  <1>6. Len(back'[u]) = 1 /\ Head(back'[u]) = a /\ back'[u] # <<>>
    BY <1>4
  <1>7. a.op = call[u].op
    BY <1>1, <1>3 DEF HandledAs
  <1>8. ASSUME NEW v \in Users, v # u
        PROVE  call'[v] = call[v] /\ sent'[v] = sent[v] /\ back'[v] = back[v]
    BY <1>1, <1>2, <1>8 DEF HandledAs
  <1>9. AllAlone'
    <2>1. Alone(u)'
      BY <1>3, <1>4, <1>5, <1>6, <1>7 DEF Alone, Answered
    <2>2. ASSUME NEW v \in Users, v # u PROVE Alone(v)'
      BY <1>8, <2>2 DEF AllAlone, Alone, Asked, Answered
    <2> QED
      BY <2>1, <2>2 DEF AllAlone
  <1>10. /\ a.op = "clear" => at = "clear"
         /\ a.op = "open" => at \in Connecting /\ Calls[at].user = u
    <2>1. at \in CallNames /\ Calls[at].user = u /\ Calls[at].req = call[u]
      BY <1>2, <1>3, OneCaller
    <2>2. /\ Calls[at].req.op = "open" <=> at \in Connecting
          /\ Calls[at].req.op = "clear" <=> at = "clear"
      BY <2>1, CallFacts
    <2> QED
      BY <1>7, <2>1, <2>2
  <1>11. AllHeld'
    <2>1. (u \in held <=> isOpen[u]) /\ isOpen' = isOpen
      BY <1>1, <1>3 DEF AllHeld, Holds, HandledAs
    <2>2. (u \in held <=> Holds(u))'
      <3>1. CASE a.op = "open"
        <4>1. u # "spi" => ~isOpen[u]
          <5>1. at \in {"openSpi", "initButton", "initMonitor"}
                /\ Calls[at].user = u
            BY <1>10, <3>1 DEF Connecting
          <5>2. /\ Calls["openSpi"].user = "spi"
                /\ Calls["initButton"].user = "button"
                /\ Calls["initMonitor"].user = "monitor"
            BY CallFacts
          <5> QED
            BY <5>1, <5>2 DEF BaseInv, Phases
        <4> QED
          BY <1>1, <1>4, <1>6, <1>7, <2>1, <3>1, <4>1 DEF HandledAs, Holds
      <3>2. CASE a.op = "close"
        BY <1>1, <1>4, <1>6, <1>7, <2>1, <3>2 DEF HandledAs, Holds
      <3>3. CASE a.op \notin {"open", "close"}
        BY <1>1, <1>4, <1>6, <1>7, <2>1, <3>3 DEF HandledAs, Holds
      <3> QED
        BY <3>1, <3>2, <3>3
    <2>3. ASSUME NEW v \in Users, v # u PROVE (v \in held <=> Holds(v))'
      <3>1. (v \in held' <=> v \in held) /\ (v \in held <=> Holds(v))
        BY <1>1, <2>3 DEF HandledAs, AllHeld
      <3> QED
        BY <1>8, <2>1, <2>3, <3>1 DEF Holds
    <2> QED
      BY <2>2, <2>3 DEF AllHeld
  <1>12. Complete'
    <2>1. CASE Kept' = Kept
      <3>1. NoneMissing => NoneMissing'
        BY <1>1, <2>1 DEF NoneMissing, HandledAs
      <3>2. Gap => Gap'
        <4>1. Gap => u # "spi"
          BY <1>3 DEF Gap
        <4> QED
          BY <1>1, <1>8, <4>1, SpiUser DEF Gap, HandledAs
      <3> QED
        BY <3>1, <3>2 DEF Complete
    <2>2. CASE u = "spi" /\ HandleClear /\ "spi" \in held
      <3>1. a.op = "clear" /\ a.ok = TRUE /\ at' = at
        BY <1>1, <2>2 DEF HandledAs
      <3>2. at = "clear"
        BY <1>10, <3>1
      <3> QED
        BY <1>6, <2>2, <3>1, <3>2 DEF Complete, Gap
    <2> QED
      BY <2>1, <2>2, HandleBase
  <1> QED
    BY <1>9, <1>11, <1>12

\* A call that ends leaves an empty line behind, and the object as open as
\* the device is held.
LEMMA TakeClean ==
    ASSUME BaseInv, AllAlone, AllHeld, NEW u \in Users, Take(u)
    PROVE  AllAlone' /\ AllHeld'
  <1>1. Receive(u) /\ Proceed(Head(back[u])) /\ UNCHANGED device
    BY DEF Take
  <1>2. /\ sent \in [Users -> Seq(Requests)] /\ back \in [Users -> Seq(Responses)]
        /\ call \in [Users -> Requests \cup {NoCall}] /\ TypeOK
        /\ isOpen \in [Users -> BOOLEAN]
    BY DEF BaseInv, Types, LineType, TypeOK
  <1>3. /\ call[u] # NoCall /\ back[u] # <<>> /\ sent' = sent
        /\ call' = [call EXCEPT ![u] = NoCall]
        /\ back' = [back EXCEPT ![u] = Tail(@)]
    BY <1>1 DEF Receive
  <1>4. sent[u] = <<>> /\ Len(back[u]) = 1 /\ Head(back[u]).op = call[u].op
    BY <1>3 DEF AllAlone, Alone, Asked, Answered
  <1>5. call'[u] = NoCall /\ sent'[u] = <<>> /\ back'[u] = <<>>
    BY <1>2, <1>3, <1>4, OneElement
  <1>6. ASSUME NEW v \in Users, v # u
        PROVE  call'[v] = call[v] /\ sent'[v] = sent[v] /\ back'[v] = back[v]
    BY <1>2, <1>3, <1>6
  <1>7. AllAlone'
    <2>1. Alone(u)'
      BY <1>5 DEF Alone
    <2>2. ASSUME NEW v \in Users, v # u PROVE Alone(v)'
      BY <1>6, <2>2 DEF AllAlone, Alone, Asked, Answered
    <2> QED
      BY <2>1, <2>2 DEF AllAlone
  <1>8. /\ at \in CallNames /\ Calls[at].user = u
        /\ call[u].op = "open" <=> at \in Connecting
        /\ call[u].op = "close" <=> at \in Closing
    <2>1. at \in CallNames /\ Calls[at].user = u /\ Calls[at].req = call[u]
      BY <1>2, <1>3, OneCaller
    <2>2. /\ Calls[at].req.op = "open" <=> at \in Connecting
          /\ Calls[at].req.op = "close" <=> at \in Closing
      BY <2>1, CallFacts
    <2> QED
      BY <2>1, <2>2
  <1>9. PICK r : r = Head(back[u])
    OBVIOUS
  <1>10. r \in Responses /\ r.ok \in BOOLEAN /\ Proceed(r)
    <2>1. back[u] \in Seq(Responses)
      BY <1>2
    <2>2. r \in Responses
      BY <1>3, <1>9, <2>1, TailElements
    <2> QED
      BY <1>1, <1>9, <2>2, ResponseParts
  <1>11. isOpen' = IF at \in Connecting \cup Closing
                   THEN [isOpen EXCEPT ![u] = at \in Connecting /\ r.ok]
                   ELSE isOpen
    BY <1>8, <1>10
    DEF Proceed, Opened, Closed, LevelRead, TransactionRead, Cleared, Written,
        Connecting, Closing, gui
  <1>12. AllHeld'
    <2>1. held' = held
      BY <1>1 DEF device
    <2>2. (u \in held <=> Holds(u))'
      <3>1. u \in held <=> Holds(u)
        BY DEF AllHeld
      <3>2. Holds(u)' <=> isOpen'[u]
        BY <1>5 DEF Holds
      <3>3. CASE at \in Connecting
        <4>1. Holds(u) <=> r.ok
          BY <1>3, <1>8, <1>9, <3>3 DEF Holds
        <4>2. isOpen'[u] <=> r.ok
          BY <1>2, <1>10, <1>11, <3>3
        <4> QED
          BY <2>1, <3>1, <3>2, <4>1, <4>2
      <3>4. CASE at \in Closing
        <4>1. at \notin Connecting
          BY <3>4 DEF Closing, Connecting
        <4>2. ~Holds(u)
          BY <1>3, <1>8, <3>4, <4>1 DEF Holds
        <4>3. ~isOpen'[u]
          BY <1>2, <1>11, <3>4, <4>1
        <4> QED
          BY <2>1, <3>1, <3>2, <4>2, <4>3
      <3>5. CASE at \notin Connecting \cup Closing
        BY <1>8, <1>11, <2>1, <3>1, <3>2, <3>5 DEF Holds
      <3> QED
        BY <3>3, <3>4, <3>5
    <2>3. ASSUME NEW v \in Users, v # u PROVE (v \in held <=> Holds(v))'
      <3>1. isOpen'[v] = isOpen[v]
        BY <1>2, <1>11, <2>3
      <3>2. v \in held <=> Holds(v)
        BY DEF AllHeld
      <3> QED
        BY <1>6, <2>1, <2>3, <3>1, <3>2 DEF Holds
    <2> QED
      BY <2>2, <2>3 DEF AllHeld
  <1> QED
    BY <1>7, <1>12

LEMMA RefuseClean ==
    ASSUME BaseInv, AllAlone, AllHeld, Refuse
    PROVE  AllAlone' /\ AllHeld' /\ back' = back /\ back["spi"] = <<>>
  <1>1. /\ at \in CallNames /\ Proceed(Nothing) /\ Nothing.ok = FALSE
        /\ UNCHANGED <<device, line>>
        /\ Calls[at].needed /\ ~isOpen[Calls[at].user]
    BY CallFacts DEF Refuse, Nothing
  <1>2. TypeOK /\ isOpen \in [Users -> BOOLEAN]
    BY DEF BaseInv, Types, TypeOK
  <1>3. \A v \in Users : call[v] = NoCall /\ back[v] = <<>>
    <2>1. \A v \in Users : call[v] = NoCall
      BY <1>1, <1>2, OneCaller DEF BaseInv, Phases
    <2> QED
      BY <2>1 DEF AllAlone, Alone
  <1>4. UNCHANGED <<call, sent, back, held>>
    BY <1>1 DEF line, device
  <1>5. isOpen' = isOpen
    <2>1. at \notin Connecting
      BY <1>1, CallFacts
    <2>2. isOpen' = isOpen \/ isOpen' = [isOpen EXCEPT ![Calls[at].user] = FALSE]
      BY <1>1, <2>1
      DEF Proceed, Opened, Closed, LevelRead, TransactionRead, Cleared,
          Written, gui
    <2> QED
      BY <1>1, <1>2, <2>2
  <1>6. AllAlone'
    BY <1>4 DEF AllAlone, Alone, Asked, Answered
  <1>7. AllHeld'
    BY <1>4, <1>5 DEF AllHeld, Holds
  <1> QED
    BY <1>3, <1>4, <1>6, <1>7, SpiUser

\* A read moves a transaction from the line to the table; a clear that worked
\* leaves what the FPGA has, which are the latest transactions.
LEMMA EndComplete ==
    ASSUME BaseInv, AllAlone, AllHeld, Complete,
           Refuse \/ \E u \in Users : Take(u)
    PROVE  NoneMissing'
  <1>0. PICK r : /\ EndsWith(r)
                 /\ Refuse \/ \E u \in Users : Take(u) /\ r = Head(back[u])
    <2>1. CASE Refuse
      BY <2>1, EndFacts
    <2>2. ASSUME NEW u \in Users, Take(u), NEW r, r = Head(back[u])
          PROVE  EndsWith(r)
      BY <2>2, EndFacts
    <2> QED
      BY <2>1, <2>2
  <1>1. /\ LineType(Requests, Responses) /\ TypeOK /\ queue' = queue
        /\ recorded' = recorded /\ recorded \in Nat
        /\ queue \in Seq(1..MaxRecords) /\ table \in Seq(1..MaxRecords)
        /\ at \in CallNames
    <2>1. TypeOK /\ LineType(Requests, Responses)
          /\ UNCHANGED <<queue, recorded>>
      BY <1>0 DEF BaseInv, Types, EndsWith, device
    <2>2. at \in CallNames
      BY <1>0, CallFacts
      DEF EndsWith, Proceed, Opened, Closed, LevelRead, TransactionRead,
          Cleared, Written, CallNames, Connecting, Closing
    <2>3. MaxRecords \in Nat
      BY SessionAssumption
    <2> QED
      BY <2>1, <2>2, <2>3 DEF TypeOK
  <1>2. Queued' = Queued
    BY <1>1 DEF Queued
  <1>3. /\ r.ok \in BOOLEAN /\ Proceed(r)
        /\ ~r.ok => table' = table
        /\ at = "read" /\ r.ok => /\ r.val \in OnTheWay
                                  /\ Shown' = Shown \cup ({r.val} \ Blank)
                                  /\ OnTheWay \subseteq OnTheWay' \cup {r.val}
    BY <1>0, EndOrder DEF EndsWith
  <1>4. OnTheWay' \subseteq OnTheWay
    BY <1>0, <1>1, SpiUser, LineShrinks
    DEF BaseInv, InOrder, InLine, EndsWith
  <1>5. Kept' \subseteq Kept /\ Kept \subseteq Kept' \cup Blank /\ NoneMissing
        => NoneMissing'
    BY <1>1 DEF NoneMissing
  <1>6. CASE at = "read" /\ r.ok
    <2>1. Kept' \subseteq Kept /\ Kept \subseteq Kept' \cup Blank
      BY <1>2, <1>3, <1>4, <1>6 DEF Kept
    <2>2. ~Gap
      BY <1>6 DEF Gap
    <2> QED
      BY <1>5, <2>1, <2>2 DEF Complete
  <1>7. CASE at = "clear" /\ r.ok
    <2>1. table' = <<>>
      BY <1>3, <1>7
      DEF Proceed, Opened, Closed, LevelRead, TransactionRead, Cleared,
          Written, Connecting, Closing
    <2>2. OnTheWay' = {}
      <3>1. PICK u \in Users : Take(u) /\ Calls[at].user = u
        BY <1>0, <1>7 DEF EndsWith
      <3>2. u = "spi"
        BY <1>7, <3>1, CallFacts
      <3>3. /\ call["spi"] # NoCall /\ back["spi"] # <<>>
            /\ back'["spi"] = Tail(back["spi"])
        BY <1>1, <3>1, <3>2, SpiUser DEF Take, Receive, LineType
      <3>4. Len(back["spi"]) = 1 /\ back["spi"] \in Seq(Responses)
        BY <1>1, <3>3, SpiUser
        DEF AllAlone, Alone, Asked, Answered, LineType
      <3>5. back'["spi"] = <<>>
        BY <3>3, <3>4, OneElement
      <3> QED
        BY <3>5 DEF OnTheWay, Coming
    <2>3. Kept' = Queued /\ recorded' = recorded
      BY <1>1, <1>2, <2>1, <2>2 DEF Kept, Shown
    <2> SUFFICES ASSUME NEW t \in 1..recorded, NEW s \in Queued, s <= t
                 PROVE  t \in Queued
      BY <2>3 DEF NoneMissing
    <2>4. PICK i \in 1..Len(queue) : s = queue[i]
      BY <1>1, LenProperties DEF Queued
    <2>5. PICK m \in Nat : m = Len(queue)
      BY <1>1, LenProperties
    <2>6. DOMAIN queue = 1..m /\ (\A j \in 1..m : queue[j] = recorded - m + j)
      BY <1>1, <2>5, LenProperties DEF BaseInv, Numbers
    <2>7. PICK j \in 1..m : t = recorded - m + j
      <3>1. s = recorded - m + i /\ i \in 1..m
        BY <2>4, <2>5, <2>6
      <3>2. t - recorded + m \in 1..m /\ t = recorded - m + (t - recorded + m)
        BY <1>1, <3>1
      <3> QED
        BY <3>2
    <2> QED
      BY <2>6, <2>7 DEF Queued
  <1>8. CASE ~r.ok \/ at \notin {"read", "clear"}
    <2>1. table' = table
      <3>1. CASE ~r.ok
        BY <1>3, <3>1
      <3>2. CASE at \notin {"read", "clear"}
        BY <1>3, <3>2
        DEF Proceed, Opened, Closed, LevelRead, TransactionRead, Cleared,
            Written, gui
      <3> QED
        BY <1>8, <3>1, <3>2
    <2>2. OnTheWay' = OnTheWay /\ ~Gap
      <3>1. CASE Refuse
        BY <3>1, RefuseClean, ComingSame DEF Gap
      <3>2. ASSUME NEW u \in Users, Take(u), r = Head(back[u])
            PROVE  OnTheWay' = OnTheWay /\ ~Gap
        <4>1. /\ call[u] # NoCall /\ back[u] # <<>> /\ r.op = call[u].op
              /\ back' = [back EXCEPT ![u] = Tail(@)]
          BY <3>2 DEF Take, Receive
        <4>2. Calls[at].user = u /\ Calls[at].req = call[u]
          BY <1>1, <4>1, OneCaller
        <4>3. /\ at = "clear" => u = "spi"
              /\ r.op = "read" /\ u = "spi" => at = "read"
          BY <1>1, <4>1, <4>2, CallFacts
        <4>4. CASE u = "spi"
          <5>1. /\ \A k \in Coming' : /\ k + 1 \in Coming
                                       /\ Number(k)' = Number(k + 1)
                /\ \A k \in Coming :
                      \/ k = 1
                      \/ k - 1 \in Coming' /\ Number(k - 1)' = Number(k)
                /\ 1 \in Coming <=> r.op = "read" /\ r.ok
            <6>1. back'["spi"] = Tail(back["spi"])
              BY <1>1, <4>1, <4>4 DEF LineType
            <6> QED
              BY <1>1, <3>2, <4>1, <4>4, <6>1, SpiUser, ComingTail
          <5>2. 1 \notin Coming
            BY <1>8, <4>3, <4>4, <5>1
          <5>3. OnTheWay' = OnTheWay
            BY <5>1, <5>2 DEF OnTheWay
          <5>4. ~Gap
            BY <1>8, <3>2, <4>4 DEF Gap
          <5> QED
            BY <5>3, <5>4
        <4>5. CASE u # "spi"
          <5>1. back'["spi"] = back["spi"]
            BY <1>1, <4>1, <4>5, SpiUser DEF LineType
          <5> QED
            BY <4>3, <4>5, <5>1, ComingSame DEF Gap
        <4> QED
          BY <4>4, <4>5
      <3> QED
        BY <1>0, <3>1, <3>2
    <2>3. Kept' = Kept
      BY <1>2, <2>1, <2>2 DEF Kept, Shown
    <2> QED
      BY <1>5, <2>2, <2>3 DEF Complete
  <1> QED
    BY <1>3, <1>6, <1>7, <1>8

-----------------------------------------------------------------------------
(* The theorems.                                                           *)

LEMMA CleanInit == Init => CleanInv
  <1> SUFFICES ASSUME Init PROVE AllAlone /\ AllHeld /\ Complete
    BY DEF CleanInv
  <1>1. /\ held = {} /\ recorded = 0
        /\ \A u \in Users : /\ call[u] = NoCall /\ sent[u] = <<>>
                            /\ back[u] = <<>> /\ isOpen[u] = FALSE
    BY DEF Init, LineInit
  <1>2. AllAlone
    BY <1>1 DEF AllAlone, Alone
  <1>3. AllHeld
    BY <1>1 DEF AllHeld, Holds
  <1>4. NoneMissing
    BY <1>1 DEF NoneMissing
  <1> QED
    BY <1>2, <1>3, <1>4 DEF Complete

LEMMA CleanStep == BaseInv /\ NoWrites /\ CleanInv /\ [Next]_vars => CleanInv'
  <1> SUFFICES ASSUME BaseInv, NoWrites, CleanInv, [Next]_vars, losses' = 0
               PROVE  AllAlone' /\ AllHeld' /\ Complete'
    BY DEF CleanInv
  <1>1. AllAlone /\ AllHeld /\ Complete
    BY StillClean DEF CleanInv
  <1>2. \A u \in Users : ~(Lose(u) \/ Drop(u) \/ DropEarly(u))
    BY <1>1, NoLoss
  <1>3. CASE Ask
    BY <1>1, <1>3, AskClean
  <1>4. CASE Refuse
    BY <1>1, <1>4, RefuseClean, EndComplete DEF Complete
  <1>5. ASSUME NEW u \in Users, Take(u) PROVE AllAlone' /\ AllHeld' /\ Complete'
    BY <1>1, <1>5, TakeClean, EndComplete DEF Complete
  <1>6. ASSUME NEW u \in Users, Handle(u)
        PROVE  AllAlone' /\ AllHeld' /\ Complete'
    BY <1>1, <1>6, HandleClean
  <1>7. CASE Connect \/ Disconnect \/ Poll \/ UserAction \/ UNCHANGED vars
    BY <1>1, <1>7, IdleClean
  <1>8. CASE Record
    BY <1>1, <1>8, RecordClean
  <1> QED
    BY <1>2, <1>3, <1>4, <1>5, <1>6, <1>7, <1>8 DEF Next

\* All of it is inductive.
SessionInv == BaseInv /\ NoWrites /\ CleanInv

LEMMA SessionInductive ==
    /\ Init => SessionInv
    /\ SessionInv /\ [Next]_vars => SessionInv'
  BY BaseInit, BaseStep, NoWritesStep, CleanInit, CleanStep DEF SessionInv

\* The variables of the GUI and the devices keep their types, and nobody has
\* a call but the GUI thread at its place.
THEOREM TypeCorrect == Spec => []TypeOK
  <1>1. SessionInv => TypeOK
    BY DEF SessionInv, BaseInv, Types
  <1> QED
    BY <1>1, SessionInductive, PTL DEF Spec

\* onPollTransactions shows the transactions in the order of recording, and
\* however many there are for one poll, and whenever the user disconnects,
\* clears or clicks, none is missing but those at the address 0xFFFFFF, as
\* long as no response is lost.
THEOREM ShownComplete == Spec => []ShownInOrder
  <1>1. SessionInv => ShownInOrder
    BY DEF SessionInv, BaseInv, CleanInv, Complete, Gap, ShownInOrder
  <1> QED
    BY <1>1, SessionInductive, PTL DEF Spec

\* onDisconnect, and an onConnect that fails, leave no device of the session
\* open on the server, as long as no call was lost.
THEOREM OffCloses == Spec => []OffMeansClosed
  <1>1. SessionInv => OffMeansClosed
    <2> SUFFICES ASSUME SessionInv, at = "off", losses = 0 PROVE held = {}
      BY DEF OffMeansClosed
    <2>1. held \subseteq Users /\ TypeOK /\ AllAlone /\ AllHeld
          /\ \A u \in Users : ~isOpen[u]
      BY DEF SessionInv, BaseInv, Types, TypeOK, CleanInv, Phases
    <2>2. \A u \in Users : call[u] = NoCall
      <3>1. "off" \notin CallNames
        BY DEF CallNames
      <3> QED
        BY <2>1, <3>1, OneCaller
    <2>3. \A u \in Users : back[u] = <<>>
      BY <2>1, <2>2 DEF AllAlone, Alone
    <2>4. \A u \in Users : u \notin held
      BY <2>1, <2>3 DEF AllHeld, Holds
    <2> QED
      BY <2>1, <2>4
  <1> QED
    BY <1>1, SessionInductive, PTL DEF Spec
=============================================================================
