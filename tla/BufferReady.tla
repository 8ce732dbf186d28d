----------------------------- MODULE BufferReady -----------------------------
(***************************************************************************)
(* The buffer-ready line and who is told of it: rebear::BufferReadyMonitor *)
(* and the edge detection of rebear::GPIOControl (lib/src/gpio_control.cpp) *)
(* after init().                                                           *)
(*                                                                         *)
(* The line is high while the FPGA holds transactions.  With sysfs, the    *)
(* kernel keeps one mark per descriptor, set by a rising edge and removed  *)
(* by a read of the value file.  The threads that setCallback starts and   *)
(* the caller of waitReady share the descriptor and so the mark.           *)
(*                                                                         *)
(* The callback reads until the FPGA holds nothing, so that only a new     *)
(* edge can call for it again.  What a timeout is worth is left open: a    *)
(* wait without an event may end at any time.                              *)
(***************************************************************************)
EXTENDS Naturals

CONSTANTS Threads,  \* the threads that setCallback may start
          MaxTrans  \* bound: transactions ever recorded

VARIABLES
    sysfs,    \* using_sysfs_
    queue,    \* number of transactions in the FPGA
    made,     \* number of transactions ever recorded
    edge,     \* the edge that is detected: "none" or "rising"
    mark,     \* a detected edge that no read has removed yet
    callback, \* callback_ is not empty
    thread,   \* thread[t]: where the loop of t is, or "none"
    wait,     \* where the caller of waitReady is, or "idle"
    untold    \* history: the line rose when a callback had read everything and
              \* was about to return, and is high since, but no callback has
              \* started and no waitReady returned true

vars == <<sysfs, queue, made, edge, mark, callback, thread, wait, untold>>

TypeOK ==
    /\ sysfs \in BOOLEAN /\ mark \in BOOLEAN
    /\ callback \in BOOLEAN /\ untold \in BOOLEAN
    /\ made \in 0..MaxTrans /\ queue \in 0..made
    /\ edge \in {"none", "rising"}
    /\ thread \in [Threads -> {"none", "top", "poll", "seen", "call", "return"}]
    /\ wait \in {"idle", "clear", "poll", "seen", "look"}

Init ==
    /\ sysfs \in BOOLEAN
    /\ queue = 0 /\ made = 0
    /\ edge = "none" /\ mark = FALSE
    /\ callback = FALSE
    /\ thread = [t \in Threads |-> "none"]
    /\ wait = "idle"
    /\ untold = FALSE

isReady == queue > 0

Returning == callback /\ \E t \in Threads : thread[t] = "return"

-----------------------------------------------------------------------------
(* The FPGA, and a program that reads it without being told.               *)

Record ==
    /\ made < MaxTrans /\ made' = made + 1
    /\ queue' = queue + 1
    /\ mark' = (mark \/ (~isReady /\ edge = "rising"))
    /\ untold' = (untold \/ (~isReady /\ Returning))
    /\ UNCHANGED <<sysfs, edge, callback, thread, wait>>

ReadOne ==
    /\ isReady
    /\ queue' = queue - 1
    /\ untold' = (untold /\ queue > 1)

ReadTransaction ==
    /\ ReadOne
    /\ UNCHANGED <<sysfs, made, edge, mark, callback, thread, wait>>

-----------------------------------------------------------------------------
(* setCallback and the thread it starts.                                   *)

\* Without sysfs there is no edge detection: the callback is stored, no
\* thread starts.
SetCallback(given) ==
    /\ callback' = given
    /\ untold' = (untold /\ given)
    /\ IF sysfs
       THEN /\ edge' = "rising"
            /\ \E t \in Threads :
                  thread[t] = "none" /\ thread' = [thread EXCEPT ![t] = "top"]
       ELSE UNCHANGED <<edge, thread>>
    /\ UNCHANGED <<sysfs, queue, made, mark, wait>>

Goto(t, there) == thread' = [thread EXCEPT ![t] = there]

\* The loop ends without a callback; otherwise waitForEdge begins by a read.
LoopTop(t) ==
    /\ thread[t] = "top"
    /\ IF callback THEN Goto(t, "poll") /\ mark' = FALSE
                   ELSE Goto(t, "none") /\ UNCHANGED mark
    /\ UNCHANGED <<sysfs, queue, made, edge, callback, wait, untold>>

\* poll() returns with the event, or without one after a second.
LoopPoll(t) ==
    /\ thread[t] = "poll"
    /\ Goto(t, IF mark THEN "seen" ELSE "top")
    /\ UNCHANGED <<sysfs, queue, made, edge, mark, callback, wait, untold>>

LoopRead(t) ==
    /\ thread[t] = "seen"
    /\ mark' = FALSE
    /\ Goto(t, IF callback THEN "call" ELSE "top")
    /\ untold' = (untold /\ ~callback)
    /\ UNCHANGED <<sysfs, queue, made, edge, callback, wait>>

\* The read that finds nothing is the callback's last.
CallbackRead(t) ==
    /\ thread[t] = "call"
    /\ \/ ReadOne /\ UNCHANGED thread
       \/ ~isReady /\ Goto(t, "return") /\ UNCHANGED <<queue, untold>>
    /\ UNCHANGED <<sysfs, made, edge, mark, callback, wait>>

CallbackEnd(t) ==
    /\ thread[t] = "return"
    /\ Goto(t, "top")
    /\ UNCHANGED <<sysfs, queue, made, edge, mark, callback, wait, untold>>

ThreadStep(t) ==
    LoopTop(t) \/ LoopPoll(t) \/ LoopRead(t) \/ CallbackRead(t) \/ CallbackEnd(t)

-----------------------------------------------------------------------------
(* waitReady.                                                              *)

WaitReady ==
    /\ wait = "idle"
    /\ IF sysfs THEN edge' = "rising" /\ wait' = "clear"
                ELSE wait' = "look" /\ UNCHANGED edge
    /\ UNCHANGED <<sysfs, queue, made, mark, callback, thread, untold>>

\* Without edge detection the level is looked at every 10 ms.
WaitLook ==
    /\ wait = "look"
    /\ wait' \in IF isReady THEN {"idle"} ELSE {"look", "idle"}
    /\ untold' = (untold /\ ~isReady)
    /\ UNCHANGED <<sysfs, queue, made, edge, mark, callback, thread>>

WaitClear ==
    /\ wait = "clear" /\ wait' = "poll"
    /\ mark' = FALSE
    /\ UNCHANGED <<sysfs, queue, made, edge, callback, thread, untold>>

WaitPoll ==
    /\ wait = "poll" /\ wait' = IF mark THEN "seen" ELSE "idle"
    /\ UNCHANGED <<sysfs, queue, made, edge, mark, callback, thread, untold>>

WaitRead ==
    /\ wait = "seen" /\ wait' = "idle"
    /\ mark' = FALSE /\ untold' = FALSE
    /\ UNCHANGED <<sysfs, queue, made, edge, callback, thread>>

WaitStep == WaitLook \/ WaitClear \/ WaitPoll \/ WaitRead

-----------------------------------------------------------------------------

Next ==
    \/ Record \/ ReadTransaction
    \/ \E given \in BOOLEAN : SetCallback(given)
    \/ \E t \in Threads : ThreadStep(t)
    \/ WaitReady \/ WaitStep

\* The threads are scheduled, poll() returns when its time is over, and a
\* callback makes its calls.  Nobody has to call waitReady or to read.
Spec ==
    /\ Init /\ [][Next]_vars
    /\ \A t \in Threads : WF_vars(ThreadStep(t))
    /\ WF_vars(WaitStep)

-----------------------------------------------------------------------------
(* A statement the code does not keep.                                     *)

\* gpio_control.h:230 says of setCallback's argument "Function to call when
\* buffer becomes ready".  When the line rises after a callback's last read and
\* before it has returned, it does not stay high without the callback being
\* called again (or a waitReady returning true).  But that edge is removed by
\* the read at the beginning of the next waitForEdge, and there is no further
\* edge while the line is high.
CallbackOnReady == untold ~> ~untold
=============================================================================
