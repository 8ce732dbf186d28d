----------------------------- MODULE GuiSession -----------------------------
(***************************************************************************)
(* A session of the GUI with the hardware: MainWindow's connecting,        *)
(* disconnecting, polling of transactions and button handlers              *)
(* (gui/mainwindow.cpp), and the transaction table                         *)
(* (gui/widgets/transaction_viewer.cpp).                                   *)
(*                                                                         *)
(* The GUI has one thread; a handler calls the device objects one after    *)
(* the other and waits for each.  In network mode these are an             *)
(* SPIProtocolNetwork and two GPIOControlNetworks, whose calls travel as   *)
(* RequestLine says: a call may give up, and its request be handled late.  *)
(* In local mode they are SPIProtocol, ButtonControl and                   *)
(* BufferReadyMonitor, and a call always ends with its own result.  What   *)
(* several clients do to each other is said by GpioService and SpiService: *)
(* here the GUI is alone.                                                  *)
(*                                                                         *)
(* A transaction is its number in the order of recording; those of Blank   *)
(* are at the address 0xFFFFFF.  The FPGA raises the buffer-ready line as  *)
(* long as it has transactions.                                            *)
(*                                                                         *)
(* The devices of the server and of the program are the same: it runs on   *)
(* the server's machine when it uses its own.                              *)
(***************************************************************************)
EXTENDS RequestLine, SequencesExt

CONSTANTS MaxReads,   \* transactions that are read in one poll: 10
          Blank,      \* the transactions at address 0xFFFFFF
          MaxRecords, \* bound: transactions recorded
          MaxLosses   \* bound: calls that give up, responses that are lost

ASSUME SessionAssumption ==
    /\ Users = {"spi", "button", "monitor"}
    /\ MaxReads \in Nat \ {0} /\ Blank \subseteq Nat
    /\ {MaxRecords, MaxLosses} \subseteq Nat

VARIABLES
    at,       \* where the GUI thread is: a call it makes, "idle" or "off"
    remote,   \* useNetwork_
    isOpen,   \* isOpen[u]: connected_ or is_open_ of the object
    reads,    \* i of onPollTransactions
    table,    \* transactions_ of the table's model
    saidUp,   \* the GUI has last said that the button was released
    queue,    \* transactions in the FPGA
    recorded, \* number of transactions ever recorded
    held,     \* the devices that the server, or the program, has open
    dead,     \* those of them whose object has lost its line
    high,     \* the button's line is driven high
    losses    \* history: calls that gave up, responses that were lost

gui == <<remote, isOpen, reads, table, saidUp>>
device == <<queue, recorded, held, dead, high>>
vars == <<at, gui, device, losses, line>>

\* The calls of the handlers: the object, the type of the request and its
\* argument, and whether the object must be open.
Call(u, o, a, needed) == [user |-> u, req |-> [op |-> o, arg |-> a],
                          needed |-> needed]

Calls ==
    [openSpi      |-> Call("spi", "open", "none", FALSE),
     initButton   |-> Call("button", "open", "none", FALSE),
     initMonitor  |-> Call("monitor", "open", "none", FALSE),
     level        |-> Call("monitor", "read", "none", TRUE),
     read         |-> Call("spi", "read", "none", TRUE),
     clear        |-> Call("spi", "clear", "none", TRUE),
     press        |-> Call("button", "write", "high", TRUE),
     release      |-> Call("button", "write", "low", TRUE),
     clickPress   |-> Call("button", "write", "high", TRUE),
     clickRelease |-> Call("button", "write", "low", TRUE),
     closeSpi     |-> Call("spi", "close", "none", TRUE),
     closeButton  |-> Call("button", "close", "none", TRUE),
     closeMonitor |-> Call("monitor", "close", "none", TRUE)]

Requests == {Calls[c].req : c \in DOMAIN Calls}
Responses == [op : {r.op : r \in Requests}, ok : BOOLEAN, val : 0..MaxRecords]

Connecting == {"openSpi", "initButton", "initMonitor"}
Closing == {"closeSpi", "closeButton", "closeMonitor"}

\* isConnected_, as it is seen by events; the timer runs just as long.
Connected == at \notin {"off"} \cup Connecting \cup Closing

TypeOK ==
    /\ at \in DOMAIN Calls \cup {"idle", "off"}
    /\ remote \in BOOLEAN /\ isOpen \in [Users -> BOOLEAN]
    /\ reads \in 0..(MaxReads - 1) /\ (at # "read" => reads = 0)
    /\ table \in Seq(1..MaxRecords)
    /\ saidUp \in BOOLEAN
    /\ queue \in Seq(1..MaxRecords) /\ recorded \in 0..MaxRecords
    /\ held \subseteq Users /\ dead \subseteq held \ {"spi"}
    /\ high \in BOOLEAN /\ (high => "button" \in held \ dead)
    /\ losses \in 0..MaxLosses
    /\ call \in [Users -> Requests \cup {NoCall}]
    /\ sent \in [Users -> Seq(Requests)] /\ back \in [Users -> Seq(Responses)]
    \* One call at a time, the one that the GUI thread is at.
    /\ \A u \in Users : call[u] # NoCall =>
          at \in DOMAIN Calls /\ Calls[at].user = u /\ Calls[at].req = call[u]

Init ==
    /\ at = "off" /\ remote \in BOOLEAN
    /\ isOpen = [u \in Users |-> FALSE]
    /\ reads = 0 /\ table = <<>> /\ saidUp = FALSE
    /\ queue = <<>> /\ recorded = 0 /\ held = {} /\ dead = {} /\ high = FALSE
    /\ losses = 0
    /\ LineInit

-----------------------------------------------------------------------------
(* What a handler makes of the end of a call.                              *)

\* The end of a call that got no response, or could not be made.
Nothing == [ok |-> FALSE, val |-> 0]

Opened(r) ==
    /\ at \in Connecting
    /\ isOpen' = [isOpen EXCEPT ![Calls[at].user] = r.ok]
    /\ at' = CASE at = "openSpi" -> IF r.ok THEN "initButton" ELSE "off"
               [] at = "initButton" -> "initMonitor"
               [] at = "initMonitor" -> "idle"
    /\ UNCHANGED <<remote, reads, table, saidUp>>

\* close() forgets that it was open whatever the server says.
Closed(r) ==
    /\ at \in Closing
    /\ isOpen' = [isOpen EXCEPT ![Calls[at].user] = FALSE]
    /\ at' = CASE at = "closeSpi" -> "closeButton"
               [] at = "closeButton" -> "closeMonitor"
               [] at = "closeMonitor" -> "off"
    /\ saidUp' = FALSE
    /\ UNCHANGED <<remote, reads, table>>

LevelRead(r) ==
    /\ at = "level"
    /\ at' = IF r.ok THEN "read" ELSE "idle"
    /\ UNCHANGED gui

\* trans && trans->address != 0xFFFFFF
Shows(r) == r.ok /\ r.val \notin Blank

\* A transaction is shown; the loop ends without one, with one of Blank,
\* which is not shown, or when MaxReads have been read.
TransactionRead(r) ==
    /\ at = "read"
    /\ table' = IF Shows(r) THEN Append(table, r.val) ELSE table
    /\ IF Shows(r) /\ reads + 1 < MaxReads
       THEN reads' = reads + 1 /\ at' = "read"
       ELSE reads' = 0 /\ at' = "idle"
    /\ UNCHANGED <<remote, isOpen, saidUp>>

Cleared(r) ==
    /\ at = "clear"
    /\ IF r.ok THEN table' = <<>> ELSE UNCHANGED table
    /\ at' = "idle"
    /\ UNCHANGED <<remote, isOpen, reads, saidUp>>

\* Fault: a click ends when the button is pressed.
WrittenOnce(r) ==
    /\ at \in {"press", "release", "clickPress", "clickRelease"}
    /\ saidUp' = (r.ok /\ at # "press")
    /\ at' = "idle"
    /\ UNCHANGED <<remote, isOpen, reads, table>>

\* A click goes on to the release if the press was reported to have worked.
Written(r) ==
    /\ at \in {"press", "release", "clickPress", "clickRelease"}
    /\ saidUp' = (r.ok /\ at \in {"release", "clickRelease"})
    /\ at' = IF at = "clickPress" /\ r.ok THEN "clickRelease" ELSE "idle"
    /\ UNCHANGED <<remote, isOpen, reads, table>>

Proceed(r) ==
    \/ Opened(r) \/ Closed(r) \/ LevelRead(r) \/ TransactionRead(r)
    \/ Cleared(r) \/ Written(r)

-----------------------------------------------------------------------------
(* The GUI thread in a call.                                               *)

Ask ==
    /\ at \in DOMAIN Calls
    /\ LET c == Calls[at]
       IN  (c.needed => isOpen[c.user]) /\ Send(c.user, c.req)
    /\ UNCHANGED <<at, gui, device, losses>>

\* The object is not open: the call returns at once.
Refuse ==
    /\ at \in DOMAIN Calls
    /\ Calls[at].needed /\ ~isOpen[Calls[at].user]
    /\ Proceed(Nothing)
    /\ UNCHANGED <<device, losses, line>>

Take(u) ==
    /\ Receive(u)
    /\ Proceed(Head(back[u]))
    /\ UNCHANGED <<device, losses>>

CountLoss == losses' = IF losses < MaxLosses THEN losses + 1 ELSE losses

\* sendRequest returns false.  When the bound is reached, only if nothing is
\* on its way any more.
Lose(u) ==
    /\ remote
    /\ losses < MaxLosses \/ (sent[u] = <<>> /\ back[u] = <<>>)
    /\ GiveUp(u, 0)
    /\ Proceed(Nothing)
    /\ CountLoss
    /\ UNCHANGED device

\* A response is dropped that ends no call.
Drop(u) ==
    /\ remote
    /\ Discard(u)
    /\ call[u] = NoCall \/ Head(back[u]).op # call[u].op
    /\ UNCHANGED <<at, gui, device, losses>>

\* The response that u waits for is dropped, as u did not wait yet.
DropEarly(u) ==
    /\ remote /\ losses < MaxLosses
    /\ Discard(u)
    /\ call[u] # NoCall /\ Head(back[u]).op = call[u].op
    /\ CountLoss
    /\ UNCHANGED <<at, gui, device>>

-----------------------------------------------------------------------------
(* Events.  The program is at the event loop.                              *)

\* onConnect, with new objects; the connections of the old ones are over.
Connect ==
    /\ at = "off"
    /\ \A u \in Users : sent[u] = <<>> /\ back[u] = <<>>
    /\ remote' \in BOOLEAN
    /\ at' = "openSpi"
    /\ UNCHANGED <<isOpen, reads, table, saidUp, device, losses, line>>

\* Fault: onDisconnect leaves the button to its object.
DisconnectKeepButton ==
    /\ at = "idle"
    /\ at' = "closeSpi"
    /\ isOpen' = [isOpen EXCEPT !["button"] = FALSE]
    /\ UNCHANGED <<remote, reads, table, saidUp, device, losses, line>>

\* Fault: events are processed while a read waits, and onDisconnect runs.
DisconnectInRead ==
    /\ at \in {"idle", "read"}
    /\ at' = "closeSpi" /\ reads' = 0
    /\ UNCHANGED <<remote, isOpen, table, saidUp, device, losses, line>>

Disconnect ==
    /\ at = "idle"
    /\ at' = "closeSpi"
    /\ UNCHANGED <<gui, device, losses, line>>

\* Fault: the timer runs once.
PollOnce ==
    /\ at = "idle" /\ table = <<>>
    /\ at' = "level"
    /\ UNCHANGED <<gui, device, losses, line>>

\* pollTimer_ fires: onPollTransactions.
Poll ==
    /\ at = "idle"
    /\ at' = "level"
    /\ UNCHANGED <<gui, device, losses, line>>

\* The button's actions, and onClearTransactions.
UserAction ==
    /\ at = "idle"
    /\ at' \in {"press", "release", "clickPress", "clear"}
    /\ UNCHANGED <<gui, device, losses, line>>

-----------------------------------------------------------------------------
(* The devices, behind the server's handlers or the local objects.         *)

Answer(u, success, v) ==
    /\ Respond(u, [op |-> Head(sent[u]).op, ok |-> success, val |-> v])
    /\ UNCHANGED <<at, gui, recorded, losses>>

\* A pin that is held already: a character device refuses it.  With sysfs it
\* is exported already and the init works, but when the old object is
\* replaced, its destructor takes the export from the new one; not so when a
\* local object takes over what the server has exported.  An output starts
\* low.  Another process may have the device.
HandleOpen(u) ==
    /\ Due(u, "open")
    /\ \/ /\ held' = held \cup {u}
          /\ dead' \in {dead \ {u}} \cup
                      (IF u \in held \ {"spi"} THEN {dead \cup {u}} ELSE {})
          /\ high' = (high /\ u # "button")
          /\ Answer(u, TRUE, 0)
       \/ /\ held' = IF u = "spi" THEN held \ {u} ELSE held
          /\ Answer(u, FALSE, 0)
          /\ UNCHANGED <<dead, high>>
    /\ UNCHANGED queue

HandleClose(u) ==
    /\ Due(u, "close")
    /\ held' = held \ {u} /\ dead' = dead \ {u}
    /\ high' = (high /\ u # "button")
    /\ Answer(u, TRUE, 0)
    /\ UNCHANGED queue

Live(u) == u \in held \ dead

HandleWrite(u) ==
    /\ Due(u, "write")
    /\ high' = IF Live(u) THEN Head(sent[u]).arg = "high" ELSE high
    /\ Answer(u, Live(u), 0)
    /\ UNCHANGED <<queue, held, dead>>

\* readInput() of an object without its line is low.
HandleLevel ==
    /\ Due("monitor", "read")
    /\ Answer("monitor", Live("monitor") /\ queue # <<>>, 0)
    /\ UNCHANGED <<queue, held, dead, high>>

HandleRead ==
    /\ Due("spi", "read")
    /\ IF "spi" \in held /\ queue # <<>>
       THEN queue' = Tail(queue) /\ Answer("spi", TRUE, Head(queue))
       ELSE UNCHANGED queue /\ Answer("spi", FALSE, 0)
    /\ UNCHANGED <<held, dead, high>>

HandleClear ==
    /\ Due("spi", "clear")
    /\ queue' = IF "spi" \in held THEN <<>> ELSE queue
    /\ Answer("spi", "spi" \in held, 0)
    /\ UNCHANGED <<held, dead, high>>

Handle(u) ==
    \/ HandleOpen(u) \/ HandleClose(u) \/ HandleWrite(u)
    \/ u = "monitor" /\ HandleLevel
    \/ u = "spi" /\ (HandleRead \/ HandleClear)

\* The bear reads its Flash.
Record ==
    /\ recorded < MaxRecords
    /\ recorded' = recorded + 1
    /\ queue' = Append(queue, recorded + 1)
    /\ UNCHANGED <<at, gui, held, dead, high, losses, line>>

-----------------------------------------------------------------------------

Next ==
    \/ Ask \/ Refuse
    \/ \E u \in Users : Take(u) \/ Lose(u) \/ Drop(u) \/ DropEarly(u) \/ Handle(u)
    \/ Connect \/ Disconnect \/ Poll \/ UserAction
    \/ Record

Ends == Ask \/ Refuse \/ \E u \in Users : Take(u) \/ Lose(u)

\* Every call ends, by its response or its deadline; what the server has
\* received is handled, and responses that nobody waits for any more arrive
\* and are dropped; and Qt delivers an expired timer between the events
\* of the user, however many of them there are.
Fairness ==
    /\ WF_vars(Ends)
    /\ \A u \in Users : WF_vars(Handle(u)) /\ WF_vars(Drop(u))
    /\ SF_vars(Poll)

Spec == Init /\ [][Next]_vars /\ Fairness

-----------------------------------------------------------------------------
(* What the code promises.                                                 *)

\* The responses on their way that carry a transaction.
Coming == {k \in DOMAIN back["spi"] :
              back["spi"][k].op = "read" /\ back["spi"][k].ok}
Number(k) == back["spi"][k].val

\* Where a transaction can be that was neither cleared nor lost.
Shown == {table[i] : i \in DOMAIN table}
OnTheWay == {Number(k) : k \in Coming}
Queued == {queue[i] : i \in DOMAIN queue}
Kept == Shown \cup OnTheWay \cup Queued

Ascending(s) == \A i, j \in DOMAIN s : i < j => s[i] < s[j]
Before(S, T) == \A x \in S, y \in T : x < y

InOrder ==
    /\ Ascending(table) /\ Ascending(queue)
    /\ \A j, k \in Coming : j < k => Number(j) < Number(k)
    /\ Before(Shown, OnTheWay \cup Queued) /\ Before(OnTheWay, Queued)

NoneMissing ==
    \A t \in (1..recorded) \ Blank : (\E s \in Kept : s <= t) => t \in Kept

\* The table and what is still to come is in the order of recording, without
\* repetition; and as long as no response was lost and nothing is just being
\* cleared, nothing is missing but what is at the address 0xFFFFFF: neither
\* the limit of a poll, nor the end of one at such a transaction, nor a
\* disconnect loses another one.
ShownInOrder == InOrder /\ (losses = 0 /\ at # "clear" => NoneMissing)

\* When the GUI says that it is disconnected, nothing is held that belongs
\* to it, also after a connection that failed half-way, as long as no call
\* was lost.
OffMeansClosed == at = "off" /\ losses = 0 => held = {}

\* "Read ALL available transactions in the buffer" (mainwindow.cpp:673): a
\* recorded transaction is read in the end while the GUI is connected and
\* the ready line is monitored, whatever else the user does, however many
\* there are for one poll and although earlier calls were lost, if only so
\* many of them.  The line is not monitored when, with sysfs, the pin was
\* still held at the init (a lost close, or an init given up that worked): the
\* GUI is told that its init worked, but then nothing is ever read.
RecordedIsRead ==
    \A t \in 1..MaxRecords :
        (/\ Contains(queue, t) /\ Connected
         /\ isOpen["monitor"] /\ "monitor" \notin dead /\ isOpen["spi"])
            ~> (~Contains(queue, t) \/ ~Connected)

\* When the GUI says that the button was released or clicked, it comes up,
\* although the success that was reported may have been that of an earlier
\* call, unless a later call for the button fails or presses it.
ButtonComesUp ==
    saidUp ~> (~high \/ ~saidUp)
=============================================================================
