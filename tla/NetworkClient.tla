--------------------------- MODULE NetworkClient ---------------------------
(***************************************************************************)
(* rebear::NetworkClient (lib/src/network_client.cpp): one TCP connection  *)
(* to rebear-server, shared by a controlling thread (connect, disconnect,  *)
(* the destructor), any number of threads inside sendRequest, and the      *)
(* receive thread that connect() starts.                                   *)
(*                                                                         *)
(* Every critical section under mutex_ is one action; whatever the code    *)
(* does between two critical sections is a control state.  The connection  *)
(* is abstracted by what the server guarantees: network_server.cpp handles *)
(* the requests of one connection one after the other, so the k-th         *)
(* response of a connection answers its k-th request.  Requests are        *)
(* numbered in the order in which they are sent; `served' is the last one  *)
(* the server has answered and `taken' the last one whose response the     *)
(* receive thread has read.  Payloads are abstracted to the number of the  *)
(* request that a response answers.                                        *)
(***************************************************************************)
EXTENDS Integers, Sequences, FiniteSets

CONSTANTS Callers,      \* threads that call sendRequest
          Types,        \* the request types (command bytes) in use
          TypesOf,      \* TypesOf[c]: the types that thread c sends
          MaxRequests,  \* bound: requests sent in one behaviour
          MaxConns      \* bound: successful connect() calls

ASSUME TypesOfAssumption ==
    /\ TypesOf \in [Callers -> SUBSET Types] /\ "none" \notin Types
    /\ MaxRequests \in Nat

VARIABLES
    ctl,        \* control point of the controlling thread
    dtor,       \* TRUE once ~NetworkClient has been entered
    connected,  \* connected_
    running,    \* running_
    fd,         \* socket_fd_ >= 0
    rpc,        \* control point of recv_thread_, "none" when not joinable
    pending,    \* pending_responses_, indexed by the request type
    pc,         \* pc[c]: control point of c inside sendRequest
    curr,       \* curr[c]: number of the request c sent last
    reqs,       \* history: reqs[i] is the i-th request sent, its outcome
    conns,      \* number of the current connection
    peerUp,     \* the server's end of the connection is open
    served,     \* last request the server has answered
    taken       \* last request whose response recv_thread_ has read

flags    == <<connected, running, fd>>
owner    == <<ctl, dtor>>
clients  == <<pc, curr>>
net      == <<conns, peerUp, served>>
receiver == <<rpc, taken>>
vars == <<owner, flags, receiver, pending, clients, reqs, net>>

Outcome == [caller : Callers, type : Types, conn : Nat, answer : Nat,
            returned : BOOLEAN]

TypeOK ==
    /\ ctl \in {"idle", "notify", "close", "join", "destruct", "destroyed",
                "aborted", "killed"}
    /\ dtor \in BOOLEAN
    /\ connected \in BOOLEAN /\ running \in BOOLEAN /\ fd \in BOOLEAN
    /\ rpc \in {"none", "top", "poll", "body", "store", "exited"}
    /\ pending \in [Types -> [received : BOOLEAN, data : Nat]]
    /\ pc \in [Callers -> {"idle", "send", "sent", "wait", "check"}]
    /\ reqs \in Seq(Outcome)
    /\ curr \in [Callers -> 0..Len(reqs)]
    /\ conns \in Nat /\ peerUp \in BOOLEAN
    /\ taken \in Nat /\ served \in Nat
    /\ taken <= served /\ served <= Len(reqs)

Init ==
    /\ ctl = "idle" /\ dtor = FALSE
    /\ connected = FALSE /\ running = FALSE /\ fd = FALSE
    /\ rpc = "none"
    /\ pending = [t \in Types |-> [received |-> FALSE, data |-> 0]]
    /\ pc = [c \in Callers |-> "idle"]
    /\ curr = [c \in Callers |-> 0]
    /\ reqs = <<>>
    /\ conns = 0 /\ peerUp = FALSE
    /\ served = 0 /\ taken = 0

Alive == ctl \notin {"aborted", "killed", "destroyed"}

CType(c) == reqs[curr[c]].type

\* response_cv_.notify_all(): everyone blocked in wait_until wakes and is
\* going to re-acquire mutex_.
NotifyAll == [c \in Callers |-> IF pc[c] = "wait" THEN "check" ELSE pc[c]]

-----------------------------------------------------------------------------
(* The controlling thread: connect, disconnect, the destructor.            *)

\* std::terminate: the process ends in the middle of the call.
Abort == /\ ctl' = "aborted"
         /\ UNCHANGED <<dtor, flags, receiver, pending, clients, reqs, net>>

\* connect() reaches the server.  The assignment to recv_thread_ terminates
\* the process when the previous thread was never joined.
ConnectOk ==
    /\ ctl = "idle" /\ ~connected /\ conns < MaxConns
    /\ IF rpc # "none"
         THEN Abort
         ELSE /\ connected' = TRUE /\ running' = TRUE /\ fd' = TRUE
              /\ rpc' = "top" /\ taken' = Len(reqs)
              /\ conns' = conns + 1 /\ peerUp' = TRUE /\ served' = Len(reqs)
              /\ UNCHANGED <<owner, pending, clients, reqs>>

\* connect() fails: resolution, refusal, timeout.  The new descriptor has
\* replaced socket_fd_ and is closed again.
ConnectFail ==
    /\ ctl = "idle" /\ ~connected
    /\ fd' = FALSE
    /\ UNCHANGED <<owner, connected, running, receiver, pending, clients,
                   reqs, net>>

\* Fault: running_ stays set.
DisconnectFlagsKeepRunning(next) ==
    /\ connected' = FALSE
    /\ ctl' = next
    /\ UNCHANGED <<running, fd, receiver, pending, clients, reqs, net>>

\* disconnect(), the critical section: nothing happens when not connected.
DisconnectFlags(next) ==
    /\ connected' = FALSE
    /\ running' = FALSE
    /\ ctl' = next
    /\ UNCHANGED <<fd, receiver, pending, clients, reqs, net>>

Disconnect ==
    /\ ctl = "idle" /\ connected
    /\ DisconnectFlags("notify")
    /\ UNCHANGED dtor

\* ~NetworkClient: the user calls it when no other thread is in the object.
Destroy ==
    /\ ctl = "idle" /\ \A c \in Callers : pc[c] = "idle"
    /\ dtor' = TRUE
    /\ IF connected
         THEN DisconnectFlags("notify")
         ELSE /\ ctl' = "destruct"
              /\ UNCHANGED <<flags, receiver, pending, clients, reqs, net>>

\* Fault: no notify_all.
DisconnectNotifyNobody ==
    /\ ctl = "notify"
    /\ ctl' = "close"
    /\ UNCHANGED <<dtor, flags, receiver, pending, clients, reqs, net>>

DisconnectNotify ==
    /\ ctl = "notify"
    /\ pc' = NotifyAll
    /\ ctl' = "close"
    /\ UNCHANGED <<dtor, flags, receiver, pending, curr, reqs, net>>

DisconnectClose ==
    /\ ctl = "close"
    /\ fd' = FALSE
    /\ ctl' = "join"
    /\ UNCHANGED <<dtor, connected, running, receiver, pending, clients, reqs,
                   net>>

\* Fault: the receive thread is not waited for.
DisconnectJoinNot ==
    /\ ctl = "join"
    /\ ctl' = IF dtor THEN "destruct" ELSE "idle"
    /\ UNCHANGED <<dtor, flags, receiver, pending, clients, reqs, net>>

DisconnectJoin ==
    /\ ctl = "join" /\ rpc \in {"none", "exited"}
    /\ rpc' = "none"
    /\ ctl' = IF dtor THEN "destruct" ELSE "idle"
    /\ UNCHANGED <<dtor, flags, taken, pending, clients, reqs, net>>

\* The members' destructors: ~thread terminates the process when the thread
\* is still joinable.
Destruct ==
    /\ ctl = "destruct"
    /\ IF rpc # "none"
         THEN Abort
         ELSE /\ ctl' = "destroyed"
              /\ UNCHANGED <<dtor, flags, receiver, pending, clients, reqs,
                             net>>

-----------------------------------------------------------------------------
(* A thread in sendRequest.                                                *)

\* The unlocked test of connected_.  Bounds the number of requests.
StartRequest(c) ==
    /\ Alive /\ ~dtor
    /\ pc[c] = "idle" /\ connected
    /\ Len(reqs) + Cardinality({d \in Callers : pc[d] = "send"}) < MaxRequests
    /\ pc' = [pc EXCEPT ![c] = "send"]
    /\ UNCHANGED <<owner, flags, receiver, pending, curr, reqs, net>>

\* sendMessage writes the whole message; the peer need not be there to read
\* it.
SendMessage(c, t) ==
    /\ Alive
    /\ pc[c] = "send" /\ fd
    /\ reqs' = Append(reqs, [caller |-> c, type |-> t, conn |-> conns,
                             answer |-> 0, returned |-> FALSE])
    /\ curr' = [curr EXCEPT ![c] = Len(reqs) + 1]
    /\ pc' = [pc EXCEPT ![c] = "sent"]
    /\ UNCHANGED <<owner, flags, receiver, pending, net>>

\* sendMessage fails: the socket is closed on this side, or on the other.
SendFail(c) ==
    /\ Alive
    /\ pc[c] = "send" /\ (~fd \/ ~peerUp)
    /\ connected' = (connected /\ ~fd)
    /\ pc' = [pc EXCEPT ![c] = "idle"]
    /\ UNCHANGED <<owner, running, fd, receiver, pending, curr, reqs, net>>

\* send() without MSG_NOSIGNAL on a connection the peer has reset: SIGPIPE
\* ends the process (POSIX builds; nothing in the code ignores the signal).
SendSigpipe(c) ==
    /\ Alive
    /\ pc[c] = "send" /\ fd /\ ~peerUp
    /\ ctl' = "killed"
    /\ UNCHANGED <<dtor, flags, receiver, pending, clients, reqs, net>>

\* sendRequest returns, with the response to request a or (0) with failure.
Return(c, a) ==
    /\ pc' = [pc EXCEPT ![c] = "idle"]
    /\ reqs' = [reqs EXCEPT ![curr[c]] =
                    [@ EXCEPT !.returned = TRUE, !.answer = a]]

\* Fault: a response left from an earlier call is not dropped.
BeginWaitKeepOld(c) ==
    /\ Alive
    /\ pc[c] = "sent"
    /\ IF running /\ connected
         THEN /\ pc' = [pc EXCEPT ![c] = IF pending[CType(c)].received
                                          THEN "check" ELSE "wait"]
              /\ UNCHANGED reqs
         ELSE Return(c, 0)
    /\ UNCHANGED <<owner, flags, receiver, pending, curr, net>>

\* waitForResponse, up to the first wait_until: drops what is stored for the
\* type and waits if the connection is up.
BeginWait(c) ==
    /\ Alive
    /\ pc[c] = "sent"
    /\ pending' = [pending EXCEPT ![CType(c)].received = FALSE]
    /\ IF running /\ connected
         THEN pc' = [pc EXCEPT ![c] = "wait"] /\ UNCHANGED reqs
         ELSE Return(c, 0)
    /\ UNCHANGED <<owner, flags, receiver, curr, net>>

\* Fault: pending.received is not reset by the call that takes the response.
RecheckKeepReceived(c) ==
    /\ Alive
    /\ pc[c] = "check"
    /\ IF ~(running /\ connected)
         THEN Return(c, 0)
         ELSE IF pending[CType(c)].received
         THEN Return(c, pending[CType(c)].data)
         ELSE /\ pc' = [pc EXCEPT ![c] = "wait"]
              /\ UNCHANGED reqs
    /\ UNCHANGED <<owner, flags, receiver, pending, curr, net>>

\* Back from wait_until without a timeout: the loop condition, then the test
\* of pending.received.
Recheck(c) ==
    /\ Alive
    /\ pc[c] = "check"
    /\ IF ~(running /\ connected)
         THEN Return(c, 0) /\ UNCHANGED pending
         ELSE IF pending[CType(c)].received
         THEN /\ Return(c, pending[CType(c)].data)
              /\ pending' = [pending EXCEPT ![CType(c)].received = FALSE]
         ELSE /\ pc' = [pc EXCEPT ![c] = "wait"]
              /\ UNCHANGED <<pending, reqs>>
    /\ UNCHANGED <<owner, flags, receiver, curr, net>>

\* Fault: the deadline is only looked at after a notification.
TimeoutWhenNotified(c) ==
    /\ Alive
    /\ pc[c] = "check"
    /\ Return(c, 0)
    /\ UNCHANGED <<owner, flags, receiver, pending, curr, net>>

\* wait_until reports a timeout, also when a notification came too late for
\* the deadline; pending is not looked at again.
Timeout(c) ==
    /\ Alive
    /\ pc[c] \in {"wait", "check"}
    /\ Return(c, 0)
    /\ UNCHANGED <<owner, flags, receiver, pending, curr, net>>

\* A condition variable may wake without a notification.
SpuriousWakeup(c) ==
    /\ Alive
    /\ pc[c] = "wait"
    /\ pc' = [pc EXCEPT ![c] = "check"]
    /\ UNCHANGED <<owner, flags, receiver, pending, curr, reqs, net>>

-----------------------------------------------------------------------------
(* receiveLoop, receiveMessage.                                            *)

\* while (running_): the thread ends, or polls its socket.  poll() of a
\* descriptor of -1 times out, which leaves the thread at the top.
RecvTop ==
    /\ Alive
    /\ rpc = "top" /\ (running => fd)
    /\ rpc' = IF running THEN "poll" ELSE "exited"
    /\ UNCHANGED <<owner, flags, taken, pending, clients, reqs, net>>

DataReady == taken < served

\* 100 ms without data.
RecvPollTimeout ==
    /\ Alive
    /\ rpc = "poll" /\ (fd => peerUp /\ ~DataReady)
    /\ rpc' = "top"
    /\ UNCHANGED <<owner, flags, taken, pending, clients, reqs, net>>

\* Fault: poll() that timed out is taken for data.
RecvHeaderAnyway ==
    /\ Alive
    /\ rpc = "poll"
    /\ rpc' = "body"
    /\ UNCHANGED <<owner, flags, taken, pending, clients, reqs, net>>

\* The first bytes of a response are there.
RecvHeader ==
    /\ Alive
    /\ rpc = "poll" /\ DataReady
    /\ rpc' = "body"
    /\ UNCHANGED <<owner, flags, taken, pending, clients, reqs, net>>

\* The rest of the response has been read.
RecvBody ==
    /\ Alive
    /\ rpc = "body"
    /\ rpc' = "store"
    /\ taken' = taken + 1
    /\ UNCHANGED <<owner, flags, pending, clients, reqs, net>>

\* Fault: a lost connection clears running_ instead of connected_.
RecvLostStops ==
    /\ Alive
    /\ rpc \in {"poll", "body"} /\ (~peerUp \/ ~fd)
    /\ running' = FALSE
    /\ rpc' = "top"
    /\ UNCHANGED <<owner, connected, fd, taken, pending, clients, reqs, net>>

\* poll or recv fails, or the peer has closed: no notification, and the
\* thread goes on because running_ is still set.
RecvLost ==
    /\ Alive
    /\ rpc \in {"poll", "body"} /\ (~peerUp \/ ~fd)
    /\ connected' = FALSE
    /\ rpc' = "top"
    /\ UNCHANGED <<owner, running, fd, taken, pending, clients, reqs, net>>

\* Fault: nobody is notified.
RecvStoreSilently ==
    /\ Alive
    /\ rpc = "store"
    /\ pending' = [pending EXCEPT ![reqs[taken].type] =
                                      [received |-> TRUE, data |-> taken]]
    /\ rpc' = "top"
    /\ UNCHANGED <<owner, flags, taken, clients, reqs, net>>

\* Fault: one slot for the responses of all types.
RecvStoreUntyped ==
    /\ Alive
    /\ rpc = "store"
    /\ pending' = [t \in Types |-> [received |-> TRUE, data |-> taken]]
    /\ pc' = NotifyAll
    /\ rpc' = "top"
    /\ UNCHANGED <<owner, flags, taken, curr, reqs, net>>

\* The critical section of receiveLoop.
RecvStore ==
    /\ Alive
    /\ rpc = "store"
    /\ pending' = [pending EXCEPT ![reqs[taken].type] =
                                      [received |-> TRUE, data |-> taken]]
    /\ pc' = NotifyAll
    /\ rpc' = "top"
    /\ UNCHANGED <<owner, flags, taken, curr, reqs, net>>

-----------------------------------------------------------------------------
(* The server's end, as the client sees it (NetworkServer.tla).            *)

\* handleClient answers the next request of this connection.
Serve ==
    /\ Alive
    /\ peerUp /\ served < Len(reqs)
    /\ served' = served + 1
    /\ UNCHANGED <<owner, flags, receiver, pending, clients, reqs, conns,
                   peerUp>>

\* The server stops, drops the client or crashes, or the network breaks.
PeerClose ==
    /\ Alive
    /\ peerUp
    /\ peerUp' = FALSE
    /\ UNCHANGED <<owner, flags, receiver, pending, clients, reqs, conns,
                   served>>

-----------------------------------------------------------------------------
OwnerStep == DisconnectNotify \/ DisconnectClose \/ DisconnectJoin \/ Destruct

RecvStep == \/ RecvTop \/ RecvPollTimeout \/ RecvHeader \/ RecvBody
            \/ RecvLost \/ RecvStore

CallStep(c) == \/ \E t \in TypesOf[c] : SendMessage(c, t)
               \/ SendFail(c) \/ SendSigpipe(c) \/ BeginWait(c) \/ Recheck(c)

Next == \/ ConnectOk \/ ConnectFail \/ Disconnect \/ Destroy
        \/ OwnerStep
        \/ \E c \in Callers : \/ StartRequest(c) \/ CallStep(c)
                              \/ Timeout(c) \/ SpuriousWakeup(c)
        \/ RecvStep
        \/ Serve \/ PeerClose

Spec == Init /\ [][Next]_vars

\* The threads that have something to do run; a response that has begun to
\* arrive arrives, or the connection breaks (RecvStep in "body").  Nothing
\* is assumed of the server, nor that a deadline ever passes.
ThreadFairness ==
    /\ WF_vars(OwnerStep)
    /\ WF_vars(RecvStep)
    /\ \A c \in Callers : WF_vars(CallStep(c))

FairSpec == Spec /\ ThreadFairness

\* Every deadline passes: timeout_ms is finite.
DeadlinesPass == \A c \in Callers : WF_vars(Timeout(c))

-----------------------------------------------------------------------------
(* Properties.                                                             *)

Delivered(i) == reqs[i].returned /\ reqs[i].answer # 0
Failed(i) == reqs[i].returned /\ reqs[i].answer = 0

\* A response is handed to at most one sendRequest call, whatever threads
\* share a request type: pending.received is consumed under the lock.
AtMostOnce ==
    \A i, j \in 1..Len(reqs) :
        reqs[i].answer = reqs[j].answer /\ reqs[i].answer # 0 => i = j

\* What sendRequest returns is the response to a request of the type it
\* sent: responses are stored under the type the command maps to.
AnswerHasType ==
    \A i \in 1..Len(reqs) : Delivered(i) =>
        /\ reqs[i].answer \in 1..Len(reqs)
        /\ reqs[reqs[i].answer].type = reqs[i].type

\* When no two threads share a type, a call that gets a response other than
\* its own gets one to an earlier call of the same type on the same
\* connection, and only because some earlier such call returned without its
\* response.  Nothing crosses a reconnection.
Alike(i, j) == /\ reqs[j].caller = reqs[i].caller
               /\ reqs[j].type = reqs[i].type
               /\ reqs[j].conn = reqs[i].conn

StaleOnlyAfterFailure ==
    \A i \in 1..Len(reqs) : Delivered(i) /\ reqs[i].answer # i =>
        /\ reqs[i].answer < i
        /\ Alike(i, reqs[i].answer)
        /\ \E k \in 1..(i - 1) : Failed(k) /\ Alike(i, k)

\* A response handed over is newer than every response of its type handed
\* over before: an old answer never overtakes or replaces a newer one.
AnswersAdvance ==
    [][\A i \in 1..Len(reqs) :
          reqs[i].answer = 0 /\ reqs'[i].answer # 0 =>
            \A j \in 1..Len(reqs) : reqs[j].type = reqs[i].type =>
                reqs[j].answer < reqs'[i].answer]_vars

\* No thread stays blocked in wait_until with a response of its type in
\* pending_responses_, nor once disconnect() has notified.
NoMissedNotify ==
    \A c \in Callers : pc[c] = "wait" =>
        /\ ~pending[CType(c)].received
        /\ Alive => running \/ ctl = "notify"

\* isConnected() says true only while there is a socket and a live receive
\* thread that will deliver responses.
ConnectedMeansServiced ==
    connected => running /\ fd /\ rpc \notin {"none", "exited"}

\* After disconnect() has returned (or found nothing to do on a client that
\* was never connected) no receive thread touches the object any more.
StoppedMeansJoined ==
    ~running /\ ctl \in {"idle", "destruct", "destroyed"} => rpc = "none"

\* sendRequest always returns once deadlines pass, whatever the server and
\* the other threads do.
RequestReturns ==
    DeadlinesPass =>
        \A c \in Callers : (pc[c] # "idle") ~> (pc[c] = "idle" \/ ~Alive)

\* disconnect() (the destructor's too) always returns: the receive thread
\* sees running_ and ends.
DisconnectReturns ==
    (ctl \in {"notify", "close", "join"})
        ~> (ctl \notin {"notify", "close", "join"})

\* disconnect() frees every thread that waits for a response without the
\* help of its deadline, unless a new connect() comes first: then the thread
\* finds running_ and connected_ set again and goes on waiting.
DisconnectReleasesWaiters ==
    \A c \in Callers, n \in 1..MaxConns :
        (ctl = "notify" /\ conns = n /\ pc[c] \in {"wait", "check"})
            ~> (pc[c] = "idle" \/ conns > n \/ ~Alive)

-----------------------------------------------------------------------------
(* What a caller sees, when its types are its own: RequestLine.            *)

InCall(c) == pc[c] \in {"sent", "wait", "check"}

\* A response in pending_responses_ counts from the time its caller waits:
\* what is stored before is dropped when the wait begins.
InSlot(c) == pc[c] \in {"wait", "check"} /\ pending[CType(c)].received

\* The types of the requests of c from the first to the last.
RequestsOf(c, rs, first, last) ==
    LET upTo[i \in 0..last] ==
            IF i < first THEN <<>>
            ELSE IF rs[i].caller = c THEN Append(upTo[i - 1], rs[i].type)
            ELSE upTo[i - 1]
    IN  upTo[last]

Waiting(c) == RequestsOf(c, reqs, served + 1, Len(reqs))

\* The receive thread may have a response in its hands.
Arriving(c) ==
    (IF InSlot(c) THEN <<CType(c)>> ELSE <<>>)
        \o RequestsOf(c, reqs, IF rpc = "store" THEN taken ELSE taken + 1,
                      served)

CallOf(c) == [op |-> IF InCall(c) THEN CType(c) ELSE "none", arg |-> <<>>]
SentOf(c) ==
    [i \in 1..Len(Waiting(c)) |-> [op |-> Waiting(c)[i], arg |-> <<>>]]
BackOf(c) == [i \in 1..Len(Arriving(c)) |-> [op |-> Arriving(c)[i]]]

Line(c) == INSTANCE ClientLine WITH
    Users   <- {c},
    MaxSent <- [u \in {c} |-> MaxRequests],
    Ops     <- Types,
    call    <- [u \in {c} |-> CallOf(u)],
    sent    <- [u \in {c} |-> SentOf(u)],
    back    <- [u \in {c} |-> BackOf(u)],
    here    <- [u \in {c} |-> TRUE]

\* Each caller sees a line of its own, on which requests are handled and
\* answered in order and nothing is answered twice, whatever the other
\* callers, the receive thread, disconnect() and new connections do: the
\* RequestLine that the protocol objects build on.
LineSpec ==
    /\ \A c \in Callers : Line(c)!LineInit
    /\ [][\A c \in Callers : [Line(c)!Next]_(Line(c)!line)]_vars

-----------------------------------------------------------------------------
(* What the documentation says and the code does not do.                   *)

\* "automatic reconnection" (network_client.h:25): connecting again after
\* the connection was lost never terminates the process.
ReconnectSurvives == ~dtor => ctl # "aborted"
=============================================================================
