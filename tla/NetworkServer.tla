--------------------------- MODULE NetworkServer ---------------------------
(***************************************************************************)
(* rebear::server::NetworkServer (server/network_server.cpp) as main.cpp   *)
(* drives it: the main thread starts and stops the server, acceptLoop runs *)
(* in a thread of its own and starts one handleClient thread per accepted  *)
(* connection.  What a command does is said by GpioService and SpiService; *)
(* here it is a step that may take its time (GPIO_WAIT_EDGE).              *)
(*                                                                         *)
(* A request is a header ("head") followed by a payload ("body"), or a     *)
(* header alone ("short").  The client sends them at its own pace and may  *)
(* close its end at any time, also between the two.                        *)
(***************************************************************************)
EXTENDS Naturals, Sequences, FiniteSets

CONSTANTS Conns,       \* client connections
          MaxClients,  \* max_clients_
          MaxRequests  \* bound: MaxRequests[c] requests are sent on c

VARIABLES
    running,   \* running_
    sfd,       \* server_fd_ >= 0
    mpc,       \* control point of the main thread
    apc,       \* control point of accept_thread_
    backlog,   \* connections the kernel has completed, not accepted
    threads,   \* client_threads_
    hpc,       \* hpc[c]: control point of handleClient for c
    client,    \* client[c]: the client's end of c
    wire,      \* wire[c]: what the client has sent and nobody has read
    asked,     \* asked[c]: complete requests sent on c
    served,    \* served[c]: responses sent on c
    reset      \* reset[c]: a response was sent after the client closed

vars == <<running, sfd, mpc, apc, backlog, threads, hpc, client, wire, asked,
          served, reset>>

Parts == {"head", "body", "short"}

TypeOK ==
    /\ running \in BOOLEAN /\ sfd \in BOOLEAN
    /\ mpc \in {"init", "serving", "close", "joinAccept", "joinClients",
                "stopped", "killed"}
    /\ apc \in {"none", "top", "poll", "accept", "exited"}
    /\ backlog \subseteq Conns /\ threads \subseteq Conns
    /\ hpc \in [Conns -> {"none", "top", "poll", "body", "handle", "send",
                          "done"}]
    /\ client \in [Conns -> {"new", "open", "closed"}]
    /\ wire \in [Conns -> Seq(Parts)]
    /\ asked \in [Conns -> Nat] /\ served \in [Conns -> Nat]
    /\ reset \in [Conns -> BOOLEAN]
    \* A connection is accepted once.
    /\ backlog \cap threads = {}

Init ==
    /\ running = FALSE /\ sfd = FALSE
    /\ mpc = "init" /\ apc = "none"
    /\ backlog = {} /\ threads = {}
    /\ hpc = [c \in Conns |-> "none"]
    /\ client = [c \in Conns |-> "new"]
    /\ wire = [c \in Conns |-> <<>>]
    /\ asked = [c \in Conns |-> 0] /\ served = [c \in Conns |-> 0]
    /\ reset = [c \in Conns |-> FALSE]

Alive == mpc # "killed"

conversation == <<client, wire, asked, served, reset>>

-----------------------------------------------------------------------------
(* main(): start(), the wait for a signal, stop().                         *)

Start ==
    /\ mpc = "init"
    /\ running' = TRUE /\ sfd' = TRUE
    /\ mpc' = "serving" /\ apc' = "top"
    /\ UNCHANGED <<backlog, threads, hpc, conversation>>

StopFlag ==
    /\ mpc = "serving"
    /\ running' = FALSE
    /\ mpc' = "close"
    /\ UNCHANGED <<sfd, apc, backlog, threads, hpc, conversation>>

\* Closing the listening socket resets what was never accepted.
StopClose ==
    /\ mpc = "close"
    /\ sfd' = FALSE
    /\ backlog' = {}
    /\ mpc' = "joinAccept"
    /\ UNCHANGED <<running, apc, threads, hpc, conversation>>

\* Fault: the client threads are joined while acceptLoop may still run.
StopJoinAcceptNot ==
    /\ mpc = "joinAccept"
    /\ mpc' = "joinClients"
    /\ UNCHANGED <<running, sfd, apc, backlog, threads, hpc, conversation>>

StopJoinAccept ==
    /\ mpc = "joinAccept" /\ apc = "exited"
    /\ mpc' = "joinClients"
    /\ UNCHANGED <<running, sfd, apc, backlog, threads, hpc, conversation>>

StopJoinClients ==
    /\ mpc = "joinClients"
    /\ \A c \in threads : hpc[c] = "done"
    /\ threads' = {}
    /\ mpc' = "stopped"
    /\ UNCHANGED <<running, sfd, apc, backlog, hpc, conversation>>

-----------------------------------------------------------------------------
(* acceptLoop.                                                             *)

\* while (running_), then poll; a descriptor of -1 only times out.
AcceptTop ==
    /\ Alive /\ apc = "top" /\ (running => sfd)
    /\ apc' = IF running THEN "poll" ELSE "exited"
    /\ UNCHANGED <<running, sfd, mpc, backlog, threads, hpc, conversation>>

AcceptPoll ==
    /\ Alive /\ apc = "poll"
    /\ apc' = IF sfd /\ backlog # {} THEN "accept" ELSE "top"
    /\ UNCHANGED <<running, sfd, mpc, backlog, threads, hpc, conversation>>

\* accept() and the new thread, without a look at max_clients_; an error when
\* stop() has closed the socket meanwhile.
Accept(c) ==
    /\ Alive /\ apc = "accept" /\ sfd /\ c \in backlog
    /\ backlog' = backlog \ {c}
    /\ threads' = threads \cup {c}
    /\ hpc' = [hpc EXCEPT ![c] = "top"]
    /\ apc' = "top"
    /\ UNCHANGED <<running, sfd, mpc, conversation>>

AcceptError ==
    /\ Alive /\ apc = "accept" /\ ~sfd
    /\ apc' = "top"
    /\ UNCHANGED <<running, sfd, mpc, backlog, threads, hpc, conversation>>

-----------------------------------------------------------------------------
(* handleClient.                                                           *)

server == <<running, sfd, mpc, apc, backlog, threads>>

Goto(c, p) == hpc' = [hpc EXCEPT ![c] = p]

Arrived(c, part) == wire[c] # <<>> /\ Head(wire[c]) = part

Ended(c) == wire[c] = <<>> /\ client[c] = "closed"

Consume(c) == wire' = [wire EXCEPT ![c] = Tail(@)]

HandleTop(c) ==
    /\ Alive /\ hpc[c] = "top"
    /\ Goto(c, IF running THEN "poll" ELSE "done")
    /\ UNCHANGED <<server, conversation>>

\* Fault: a poll that times out does not look at running_.
PollTimeoutDeaf(c) ==
    /\ Alive /\ hpc[c] = "poll"
    /\ wire[c] = <<>> /\ client[c] = "open"
    /\ UNCHANGED <<server, hpc, conversation>>

\* One second without data: back to poll, or out when stop() was called.
PollTimeout(c) ==
    /\ Alive /\ hpc[c] = "poll"
    /\ wire[c] = <<>> /\ client[c] = "open" /\ ~running
    /\ Goto(c, "done")
    /\ UNCHANGED <<server, conversation>>

\* A header: the connection closes instead when stop() was called.
ReadHeader(c) ==
    /\ Alive /\ hpc[c] = "poll"
    /\ Arrived(c, "head") \/ Arrived(c, "short")
    /\ Consume(c)
    /\ Goto(c, IF ~running THEN "done"
               ELSE IF Arrived(c, "head") THEN "body" ELSE "handle")
    /\ UNCHANGED <<server, client, asked, served, reset>>

\* The payload: recv blocks until it is there, without a look at running_.
ReadBody(c) ==
    /\ Alive /\ hpc[c] = "body"
    /\ Arrived(c, "body")
    /\ Consume(c)
    /\ Goto(c, "handle")
    /\ UNCHANGED <<server, client, asked, served, reset>>

\* The client has closed its end: "Client disconnected".
ReadEnd(c) ==
    /\ Alive /\ hpc[c] \in {"poll", "body"}
    /\ Ended(c)
    /\ Goto(c, "done")
    /\ UNCHANGED <<server, conversation>>

\* command_handler_.handleCommand: fills in the response.
Handle(c) ==
    /\ Alive /\ hpc[c] = "handle"
    /\ Goto(c, "send")
    /\ UNCHANGED <<server, conversation>>

\* Fault: an interrupted send is repeated from the start.
SendResponseTwice(c) ==
    /\ Alive /\ hpc[c] = "send"
    /\ client[c] = "closed" => ~reset[c]
    /\ served' = [served EXCEPT ![c] = @ + 1]
    /\ reset' = [reset EXCEPT ![c] = client[c] = "closed"]
    /\ \E p \in {"send", "top"} : Goto(c, p)
    /\ UNCHANGED <<server, client, wire, asked>>

\* Fault: the command failed, so nothing is sent.
SendResponseNot(c) ==
    /\ Alive /\ hpc[c] = "send"
    /\ Goto(c, "top")
    /\ UNCHANGED <<server, conversation>>

\* The response: the first one after the client has closed still goes out,
\* and is answered with a reset.
SendResponse(c) ==
    /\ Alive /\ hpc[c] = "send"
    /\ client[c] = "closed" => ~reset[c]
    /\ served' = [served EXCEPT ![c] = @ + 1]
    /\ reset' = [reset EXCEPT ![c] = client[c] = "closed"]
    /\ Goto(c, "top")
    /\ UNCHANGED <<server, client, wire, asked>>

\* send() reports an error: the client closed with data unread.
SendError(c) ==
    /\ Alive /\ hpc[c] = "send" /\ client[c] = "closed"
    /\ Goto(c, "done")
    /\ UNCHANGED <<server, conversation>>

\* send() on a connection that was reset: SIGPIPE, which nothing ignores,
\* ends the server process.
SendSigpipe(c) ==
    /\ Alive /\ hpc[c] = "send" /\ reset[c]
    /\ mpc' = "killed"
    /\ UNCHANGED <<running, sfd, apc, backlog, threads, hpc, conversation>>

-----------------------------------------------------------------------------
(* The clients.                                                            *)

\* The kernel completes a connection while its queue has room: listen() was
\* given max_clients_, and Linux queues one more.
ClientConnect(c) ==
    /\ Alive /\ sfd /\ client[c] = "new"
    /\ Cardinality(backlog) <= MaxClients
    /\ client' = [client EXCEPT ![c] = "open"]
    /\ backlog' = backlog \cup {c}
    /\ UNCHANGED <<running, sfd, mpc, apc, threads, hpc, wire, asked, served,
                   reset>>

\* The client has sent a header and owes its payload.
Midway(c) == IF wire[c] = <<>> THEN hpc[c] = "body"
                               ELSE wire[c][Len(wire[c])] = "head"

\* The first part of the next request, which may be all of it.
ClientAsk(c, part) ==
    /\ Alive /\ client[c] = "open" /\ ~Midway(c)
    /\ asked[c] < MaxRequests[c]
    /\ wire' = [wire EXCEPT ![c] = Append(@, part)]
    /\ asked' = [asked EXCEPT ![c] = IF part = "short" THEN @ + 1 ELSE @]
    /\ UNCHANGED <<server, hpc, client, served, reset>>

ClientFinish(c) ==
    /\ Alive /\ client[c] = "open" /\ Midway(c)
    /\ wire' = [wire EXCEPT ![c] = Append(@, "body")]
    /\ asked' = [asked EXCEPT ![c] = @ + 1]
    /\ UNCHANGED <<server, hpc, client, served, reset>>

ClientClose(c) ==
    /\ Alive /\ client[c] = "open"
    /\ client' = [client EXCEPT ![c] = "closed"]
    /\ UNCHANGED <<server, hpc, wire, asked, served, reset>>

-----------------------------------------------------------------------------
MainStep == StopClose \/ StopJoinAccept \/ StopJoinClients

AcceptStep == \/ AcceptTop \/ AcceptPoll \/ AcceptError
              \/ \E c \in Conns : Accept(c)

HandlerStep(c) ==
    \/ HandleTop(c) \/ PollTimeout(c) \/ ReadHeader(c) \/ ReadBody(c)
    \/ ReadEnd(c) \/ Handle(c) \/ SendResponse(c) \/ SendError(c)
    \/ SendSigpipe(c)

ClientStep(c) ==
    \/ ClientConnect(c) \/ ClientFinish(c) \/ ClientClose(c)
    \/ \E part \in {"head", "short"} : ClientAsk(c, part)

Next == \/ Start \/ StopFlag \/ MainStep \/ AcceptStep
        \/ \E c \in Conns : HandlerStep(c) \/ ClientStep(c)

Spec == Init /\ [][Next]_vars

\* Every thread of the server that can run runs; every command ends.  accept
\* serves its queue in order, so that every connection has its turn.
ServerFairness ==
    /\ WF_vars(MainStep)
    /\ WF_vars(AcceptStep)
    /\ \A c \in Conns : SF_vars(Accept(c))
    /\ \A c \in Conns : WF_vars(HandlerStep(c))

FairSpec == Spec /\ ServerFairness

\* No client stays silent in the middle of a request.
ClientsFinish ==
    \A c \in Conns : WF_vars(Midway(c) /\ (ClientFinish(c) \/ ClientClose(c)))

-----------------------------------------------------------------------------
(* Properties.                                                             *)

Up == [c \in Conns |-> Alive /\ hpc[c] # "done"]

Service == INSTANCE ConnectionService WITH up <- Up

\* Each connection keeps the promise NetworkClient builds on: one response
\* per complete request, in order, none after the server's end has closed.
ServiceSpec == Service!Spec

\* When stop() is back no thread of the server runs any more, also for a
\* connection that was accepted while stop() was already under way.
StopJoinsAll ==
    mpc = "stopped" =>
        /\ apc = "exited"
        /\ \A c \in Conns : hpc[c] \in {"none", "done"}

\* Nothing but a client that closes with two complete requests unanswered can
\* kill the process: the answer to the first is met by a reset, the answer to
\* the second raises SIGPIPE.  A client that closes with one request under
\* way, or inside one, does no harm to the others.
KilledByImpatience ==
    mpc = "killed" => \E c \in Conns : reset[c] /\ asked[c] > served[c]

\* stop() returns (or the process was killed) as long as no client stays
\* silent in the middle of a request.
Returns == (mpc = "close") ~> (mpc \in {"stopped", "killed"})

StopReturns == ClientsFinish => Returns

\* A complete request is answered, unless the connection or the server ends
\* first.
RequestsAnswered ==
    \A c \in Conns : \A n \in 1..MaxRequests[c] :
        (asked[c] >= n) ~> \/ served[c] >= n \/ ~Up[c] \/ ~running
                           \/ client[c] = "closed"
=============================================================================
