---------------------------- MODULE GpioService ----------------------------
(***************************************************************************)
(* GPIO over the network: who holds which pin.  The GPIO handlers of       *)
(* rebear::server::CommandHandler (server/command_handler.cpp) with the    *)
(* GPIOControl objects they keep (lib/src/gpio_control.cpp), and the       *)
(* GPIOControlNetwork objects of the clients                               *)
(* (lib/src/gpio_control_network.cpp).                                     *)
(*                                                                         *)
(* A user is one GPIOControlNetwork with a pin of its own choice; its      *)
(* requests travel as RequestLine says.  Every handler runs under          *)
(* gpio_mutex_ and is one action, except GPIO_WAIT_EDGE, which looks the   *)
(* pin up under the mutex and waits without it.  Levels and edges are left *)
(* out: a write and a read only need the pin, and a wait may end at any    *)
(* time.                                                                   *)
(*                                                                         *)
(* The kernel is modelled as the code uses it: a line of /dev/gpiochip0    *)
(* has one holder at a time; a pin exported in sysfs may be opened often,  *)
(* and unexporting it kills every descriptor that is open on it.           *)
(***************************************************************************)
EXTENDS RequestLine, FiniteSets

CONSTANTS Pins,       \* GPIO pins
          PinOf,      \* pin_ of each user
          DirOf,      \* direction_ of each user: "in" or "out"
          MaxObjects  \* bound: GPIOControl objects ever initialised

ASSUME GpioAssumption ==
    /\ PinOf \in [Users -> Pins]
    /\ DirOf \in [Users -> {"in", "out"}]
    /\ MaxObjects \in Nat

VARIABLES
    charDev, \* there is a /dev/gpiochip0; otherwise sysfs is used
    ctrl,    \* ctrl[p]: the object in gpio_pins_[p]; id 0 for none
    made,    \* number of objects that were initialised
    holder,  \* holder[p]: id of the object whose handle holds line p, or 0
    export,  \* export[p]: the export of p in sysfs that is in force, or 0
    up,      \* the server process is alive
    wait,    \* wait[u]: id of the object the handler of u is waiting on, or 0
    isOpen   \* is_open_ of u

service == <<ctrl, made, holder, export, up>>
vars == <<charDev, service, wait, isOpen, line>>

NoObject == [id |-> 0, epoch |-> 0]

Requests == [op : {"init", "close", "write", "read", "wait"}, arg : {<<>>}]

Responses == [op : {"init", "close", "write", "read", "wait"}, ok : BOOLEAN]

TypeOK ==
    /\ charDev \in BOOLEAN
    /\ ctrl \in [Pins -> [id : Nat, epoch : Nat]]
    /\ made \in Nat
    /\ holder \in [Pins -> Nat] /\ export \in [Pins -> Nat] /\ up \in BOOLEAN
    /\ wait \in [Users -> Nat]
    /\ isOpen \in [Users -> BOOLEAN]
    /\ call \in [Users -> Requests \cup {NoCall}]
    /\ sent \in [Users -> Seq(Requests)] /\ back \in [Users -> Seq(Responses)]
    /\ here \in [Users -> BOOLEAN]
    \* A handler that waits has the request it waits for before it.
    /\ \A u \in Users : wait[u] # 0 => Due(u, "wait")

Init ==
    /\ charDev \in BOOLEAN
    /\ ctrl = [p \in Pins |-> NoObject] /\ made = 0
    /\ holder = [p \in Pins |-> 0] /\ export = [p \in Pins |-> 0]
    /\ up = TRUE
    /\ wait = [u \in Users |-> 0]
    /\ isOpen = [u \in Users |-> FALSE]
    /\ LineInit

Has(p) == ctrl[p].id # 0

\* The descriptor of the object in gpio_pins_[p] still reaches the pin.
Works(p) ==
    /\ Has(p)
    /\ IF charDev THEN holder[p] = ctrl[p].id
                  ELSE export[p] = ctrl[p].epoch

-----------------------------------------------------------------------------
(* The clients.                                                            *)

\* init() asks whatever is_open_ says; every other call needs is_open_ and
\* the direction of the user.
Ask(u, r) ==
    /\ r.op # "init" => isOpen[u]
    /\ r.op = "write" => DirOf[u] = "out"
    /\ r.op \in {"read", "wait"} => DirOf[u] = "in"
    /\ Send(u, r)
    /\ UNCHANGED <<service, wait, isOpen>>

\* Fault: any response is taken for the one the call waits for.
TakeAny(u) ==
    /\ ReceiveAny(u)
    /\ isOpen' = [isOpen EXCEPT
          ![u] = (@ \/ (call[u].op = "init" /\ Head(back[u]).ok))
                    /\ call[u].op # "close"]
    /\ UNCHANGED <<service, wait>>

\* The end of a call that got a response.
Take(u) ==
    /\ Receive(u)
    /\ isOpen' = [isOpen EXCEPT
          ![u] = (@ \/ (call[u].op = "init" /\ Head(back[u]).ok))
                    /\ call[u].op # "close"]
    /\ UNCHANGED <<service, wait>>

\* What the handler of u has begun: the wait it is in.
Begun(u) == IF wait[u] = 0 THEN 0 ELSE 1

\* Fault: a close that got no response leaves the user open.
LoseKeepOpen(u) ==
    /\ GiveUp(u, Begun(u))
    /\ UNCHANGED <<service, wait, isOpen>>

\* The end of a call that sendRequest gave up on.
Lose(u) ==
    /\ GiveUp(u, Begun(u))
    /\ isOpen' = [isOpen EXCEPT ![u] = @ /\ call[u].op # "close"]
    /\ UNCHANGED <<service, wait>>

\* A response that ends no call.
Drop(u) ==
    /\ Discard(u)
    /\ UNCHANGED <<service, wait, isOpen>>

\* The client process ends; the server does nothing about it.
Leave(u) ==
    /\ Depart(u, Begun(u))
    /\ isOpen' = [isOpen EXCEPT ![u] = FALSE]
    /\ UNCHANGED <<service, wait>>

-----------------------------------------------------------------------------
(* The handlers.                                                           *)

Asked(u, o) == up /\ Due(u, o)

Answer(u, success) ==
    /\ Respond(u, [op |-> Head(sent[u]).op, ok |-> success])
    /\ UNCHANGED isOpen

InitCharDev(u) == LET p == PinOf[u] IN
    /\ Asked(u, "init") /\ charDev /\ holder[p] = 0
    /\ made < MaxObjects /\ made' = made + 1
    /\ ctrl' = [ctrl EXCEPT ![p] = [id |-> made + 1, epoch |-> 0]]
    /\ holder' = [holder EXCEPT ![p] = made + 1]
    /\ Answer(u, TRUE)
    /\ UNCHANGED <<export, up, wait>>

\* Fault: the old object is destroyed before the new one is initialised.
InitBusyDrop(u) == LET p == PinOf[u] IN
    /\ Asked(u, "init") /\ charDev /\ holder[p] # 0
    /\ ctrl' = [ctrl EXCEPT ![p] = NoObject]
    /\ holder' = [holder EXCEPT ![p] = 0]
    /\ Answer(u, FALSE)
    /\ UNCHANGED <<made, export, up, wait>>

\* The line is held: EBUSY, and a held line cannot be exported either.
InitBusy(u) ==
    /\ Asked(u, "init") /\ charDev /\ holder[PinOf[u]] # 0
    /\ Answer(u, FALSE)
    /\ UNCHANGED <<service, wait>>

\* Neither the chip nor the export file could be opened.
InitRefused(u) ==
    /\ Asked(u, "init")
    /\ Answer(u, FALSE)
    /\ UNCHANGED <<service, wait>>

\* The export of p that is in force once p has been exported.
Exported(p) == IF export[p] = 0 THEN made + 1 ELSE export[p]

\* Fault: what the init exported is unexported again at its end.
InitSysfsTidy(u) == LET p == PinOf[u] IN
    /\ Asked(u, "init") /\ ~charDev
    /\ made < MaxObjects /\ made' = made + 1
    /\ ctrl' = [ctrl EXCEPT ![p] = [id |-> made + 1, epoch |-> Exported(p)]]
    /\ export' = [export EXCEPT ![p] = 0]
    /\ Answer(u, TRUE)
    /\ UNCHANGED <<holder, up, wait>>

\* The new object is initialised first; the assignment to gpio_pins_[p] then
\* destroys the old one, and its destructor unexports the pin.
InitSysfs(u) == LET p == PinOf[u] IN
    /\ Asked(u, "init") /\ ~charDev
    /\ made < MaxObjects /\ made' = made + 1
    /\ ctrl' = [ctrl EXCEPT ![p] = [id |-> made + 1, epoch |-> Exported(p)]]
    /\ export' = [export EXCEPT ![p] = IF Has(p) THEN 0 ELSE Exported(p)]
    /\ Answer(u, TRUE)
    /\ UNCHANGED <<holder, up, wait>>

\* The pin was exported, but its files could not be opened: nothing unexports
\* it, as the object never became open.
InitDenied(u) == LET p == PinOf[u] IN
    /\ Asked(u, "init") /\ ~charDev
    /\ made < MaxObjects /\ made' = made + 1
    /\ export' = [export EXCEPT ![p] = Exported(p)]
    /\ Answer(u, FALSE)
    /\ UNCHANGED <<ctrl, holder, up, wait>>

\* Fault: the entry is erased, the line is not released.
CloseKeepLine(u) == LET p == PinOf[u] IN
    /\ Asked(u, "close")
    /\ ctrl' = [ctrl EXCEPT ![p] = NoObject]
    /\ Answer(u, TRUE)
    /\ UNCHANGED <<made, holder, export, up, wait>>

\* erase() destroys the object, if there is one, and that releases the pin.
Close(u) == LET p == PinOf[u] IN
    /\ Asked(u, "close")
    /\ ctrl' = [ctrl EXCEPT ![p] = NoObject]
    /\ holder' = [holder EXCEPT ![p] = 0]
    /\ export' = [export EXCEPT ![p] = IF Has(p) THEN 0 ELSE @]
    /\ Answer(u, TRUE)
    /\ UNCHANGED <<made, up, wait>>

Write(u) ==
    /\ Asked(u, "write")
    /\ Answer(u, Works(PinOf[u]))
    /\ UNCHANGED <<service, wait>>

\* A descriptor that does not work reads as 0, with success.
Read(u) ==
    /\ Asked(u, "read")
    /\ Answer(u, Has(PinOf[u]))
    /\ UNCHANGED <<service, wait>>

WaitMissing(u) ==
    /\ Asked(u, "wait") /\ wait[u] = 0 /\ ~Has(PinOf[u])
    /\ Answer(u, FALSE)
    /\ UNCHANGED <<service, wait>>

\* The pointer is read under the mutex ...
WaitLookup(u) ==
    /\ Asked(u, "wait") /\ wait[u] = 0 /\ Has(PinOf[u])
    /\ wait' = [wait EXCEPT ![u] = ctrl[PinOf[u]].id]
    /\ UNCHANGED <<service, isOpen, line>>

Destroyed(u) == wait[u] # ctrl[PinOf[u]].id

\* Fault: the request is answered, the handler goes on waiting.
WaitEndNot(u) ==
    /\ up /\ wait[u] # 0
    /\ up' \in IF Destroyed(u) THEN BOOLEAN ELSE {TRUE}
    /\ Answer(u, TRUE)
    /\ UNCHANGED <<ctrl, made, holder, export, wait>>

\* ... and used without it.  An object that was destroyed meanwhile is read
\* after its memory was freed: the process may crash or may go on.
WaitEnd(u) ==
    /\ up /\ wait[u] # 0
    /\ wait' = [wait EXCEPT ![u] = 0]
    /\ up' \in IF Destroyed(u) THEN BOOLEAN ELSE {TRUE}
    /\ Answer(u, TRUE)
    /\ UNCHANGED <<ctrl, made, holder, export>>

-----------------------------------------------------------------------------

Handle(u) ==
    \/ InitCharDev(u) \/ InitBusy(u) \/ InitRefused(u)
    \/ InitSysfs(u) \/ InitDenied(u)
    \/ Close(u) \/ Write(u) \/ Read(u)
    \/ WaitMissing(u) \/ WaitLookup(u) \/ WaitEnd(u)

UserStep(u) ==
    \/ \E r \in Requests : Ask(u, r)
    \/ Take(u) \/ Lose(u) \/ Drop(u) \/ Leave(u)

Next ==
    /\ \E u \in Users : UserStep(u) \/ Handle(u)
    /\ UNCHANGED charDev

Spec == Init /\ [][Next]_vars

-----------------------------------------------------------------------------
(* What the code promises.                                                 *)

\* What the process holds in the kernel is what gpio_pins_ says: a line is
\* held by the object registered for its pin and by nothing else, whatever
\* the order of inits, refused inits and closes of several clients.
LineMatchesMap ==
    charDev => \A p \in Pins : holder[p] = ctrl[p].id

\* A pin that is in use is left alone by the inits of other clients: only a
\* GPIO_CLOSE for that pin takes its object away.
HeldUntilClosed ==
    [][charDev => \A p \in Pins :
          Has(p) /\ ctrl'[p] # ctrl[p] =>
              \E u \in Users : PinOf[u] = p /\ Due(u, "close")]_vars

\* A client that believes its pin is open has a pin that works, and no close
\* of its own under way: whatever calls clients gave up on are handled late,
\* and whichever response ended a call.
Believes(u) == isOpen[u] /\ call[u].op # "close"

OpenMeansHeld ==
    charDev => \A u \in Users : Believes(u) =>
        /\ Works(PinOf[u])
        /\ \A i \in 1..Len(sent[u]) : sent[u][i].op # "close"

\* A pin is a lock that init takes and close releases: no two clients believe
\* that it is open for them.
OneOwner ==
    charDev => \A u, w \in Users :
        Believes(u) /\ Believes(w) /\ PinOf[u] = PinOf[w] => u = w

\* Whatever earlier clients left behind (an export that leaked, an object
\* whose export is gone), the init of a pin for which no object is registered
\* yields a pin that works.
FreshInitWorks ==
    [][\A p \in Pins : ~Has(p) /\ Has(p)' => Works(p)']_vars

\* With a character device, the object a handler waits on without the mutex
\* stays alive: its pin is the waiting client's until that handler is done.
WaitKeepsObject == charDev => \A u \in Users : wait[u] # 0 => ~Destroyed(u)

-----------------------------------------------------------------------------
(* A statement the code does not keep.                                     *)

\* plans/PHASE_1.8_COMPLETE.md:72 says "Thread-safe command execution": no
\* handler waits on an object that another handler has destroyed.  With sysfs
\* a second init of the pin replaces the object.
WaitsOnLiveObject == \A u \in Users : wait[u] # 0 => ~Destroyed(u)
=============================================================================
