----------------------------- MODULE SpiService -----------------------------
(***************************************************************************)
(* The FPGA over the network: the SPI handlers of                          *)
(* rebear::server::CommandHandler (server/command_handler.cpp) on their    *)
(* one SPIProtocol (lib/src/spi_protocol.cpp), and the SPIProtocolNetwork  *)
(* objects of the clients (lib/src/spi_protocol_network.cpp).              *)
(*                                                                         *)
(* A user is one SPIProtocolNetwork; its requests travel as RequestLine    *)
(* says.  Every handler runs under spi_mutex_ and is one action.  The FPGA *)
(* is modelled as the code uses it: a patch buffer that an upload replaces *)
(* and a queue of transactions that a read takes the oldest from.          *)
(***************************************************************************)
EXTENDS PatchBuffer, RequestLine

CONSTANTS Uploads,   \* what the users pass to uploadPatchBuffer
          Singles,   \* what they pass to setPatch
          Found,     \* the uploads that may be in the FPGA from before
          MaxTrans   \* bound: transactions the FPGA records

ASSUME SpiAssumption ==
    /\ \A ps \in Uploads : PatchList(ps)
    /\ \A p \in Singles : PatchList(<<p>>)
    /\ Found \subseteq Uploads \cup {<<>>} /\ MaxTrans \in Nat

VARIABLES
    fd,     \* the server's SPIProtocol is open
    fpga,   \* the patch buffer in the FPGA
    fifo,   \* the transactions in the FPGA, numbered as recorded
    made,   \* number of transactions recorded
    conn,   \* connected_ of each user
    got     \* got[u]: the transactions readTransaction returned to u

device == <<fd, fpga, fifo, made>>
vars == <<device, conn, got, line>>

Ops == {"open", "close", "clear", "read", "dump", "unpatch", "upload", "set"}

Requests ==
    [op : Ops \ {"upload", "set"}, arg : {<<>>}]
    \cup [op : {"upload"}, arg : Uploads]
    \cup [op : {"set"}, arg : {<<p>> : p \in Singles}]

TypeOK ==
    /\ fd \in BOOLEAN
    /\ DOMAIN fpga = {"headers", "chunks", "size"}
    /\ fifo \in Seq(1..made) /\ made \in Nat
    /\ conn \in [Users -> BOOLEAN]
    /\ got \in [Users -> Seq(1..made)]
    /\ call \in [Users -> Requests \cup {NoCall}]
    /\ sent \in [Users -> Seq(Requests)]
    /\ \A u \in Users : \A i \in 1..Len(back[u]) :
          LET r == back[u][i]
          IN  /\ r.op \in Ops /\ r.ok \in BOOLEAN
              \* Reads answer with a transaction, dumps with a buffer.
              /\ CASE r.op = "read" -> r.val \in 0..made
                   [] r.op = "dump" -> DOMAIN r.val = DOMAIN fpga
                   [] OTHER -> r.val = 0
    /\ here \in [Users -> BOOLEAN]

Init ==
    /\ fd = FALSE /\ \E ps \in Found : fpga = Build(ps)
    /\ fifo = <<>> /\ made = 0
    /\ conn = [u \in Users |-> FALSE] /\ got = [u \in Users |-> <<>>]
    /\ LineInit

-----------------------------------------------------------------------------
(* The clients.                                                            *)

\* open asks whatever connected_ says; everything else needs connected_.  An
\* upload is validated before it is sent, a single patch is not.
Ask(u, r) ==
    /\ r.op # "open" => conn[u]
    /\ r.op = "upload" => ValidUpload(r.arg)
    /\ Send(u, r)
    /\ UNCHANGED <<device, conn, got>>

\* The end of a call that got a response.  An open that fails leaves
\* connected_ as it was.
Take(u) ==
    /\ Receive(u)
    /\ conn' = [conn EXCEPT
          ![u] = (@ \/ (call[u].op = "open" /\ Head(back[u]).ok))
                    /\ call[u].op # "close"]
    /\ got' = [got EXCEPT
          ![u] = IF call[u].op = "read" /\ Head(back[u]).val # 0
                 THEN Append(@, Head(back[u]).val) ELSE @]
    /\ UNCHANGED device

\* The end of a call that sendRequest gave up on.
Lose(u) ==
    /\ GiveUp(u, 0)
    /\ conn' = [conn EXCEPT ![u] = @ /\ call[u].op # "close"]
    /\ UNCHANGED <<device, got>>

\* A response that ends no call.
Drop(u) ==
    /\ Discard(u)
    /\ UNCHANGED <<device, conn, got>>

\* The client process ends; the server does nothing about it.
Leave(u) ==
    /\ Depart(u, 0)
    /\ conn' = [conn EXCEPT ![u] = FALSE]
    /\ UNCHANGED <<device, got>>

-----------------------------------------------------------------------------
(* The handlers.                                                           *)

AnswerWith(u, success, v) ==
    /\ Respond(u, [op |-> Head(sent[u]).op, ok |-> success, val |-> v])
    /\ UNCHANGED <<conn, got>>

Answer(u, success) == AnswerWith(u, success, 0)

\* open() closes first, and fails on a speed above 100 kHz, on a device that
\* cannot be opened, or on one that refuses the mode.
Open(u) ==
    /\ Due(u, "open")
    /\ \E ok \in BOOLEAN : fd' = ok /\ Answer(u, ok)
    /\ UNCHANGED <<fpga, fifo, made>>

Close(u) ==
    /\ Due(u, "close")
    /\ fd' = FALSE
    /\ Answer(u, TRUE)
    /\ UNCHANGED <<fpga, fifo, made>>

ClearTransactions(u) ==
    /\ Due(u, "clear")
    /\ \/ fd /\ fifo' = <<>> /\ Answer(u, TRUE)
       \/ UNCHANGED fifo /\ Answer(u, FALSE)
    /\ UNCHANGED <<fd, fpga, made>>

\* Fault: a transaction that was read stays in the queue.
ReadTransactionAgain(u) ==
    /\ Due(u, "read") /\ fd /\ fifo # <<>>
    /\ AnswerWith(u, TRUE, Head(fifo))
    /\ UNCHANGED device

ReadTransaction(u) ==
    /\ Due(u, "read") /\ fd /\ fifo # <<>>
    /\ fifo' = Tail(fifo)
    /\ AnswerWith(u, TRUE, Head(fifo))
    /\ UNCHANGED <<fd, fpga, made>>

\* No transaction, a closed device and a failed transfer are answered alike.
ReadNothing(u) ==
    /\ Due(u, "read")
    /\ Answer(u, TRUE)
    /\ UNCHANGED device

\* Fault: the new patches are added to those in the FPGA.
PutMore(u, ps) ==
    \/ /\ fd /\ ValidUpload(ps)
       /\ fpga' = Build(Active(fpga) \o ps)
       /\ Answer(u, TRUE)
    \/ UNCHANGED fpga /\ Answer(u, FALSE)

\* SPIProtocol::uploadPatchBuffer, or setPatch, which is the same for one
\* patch; a transfer may fail.
Put(u, ps) ==
    \/ fd /\ ValidUpload(ps) /\ fpga' = Build(ps) /\ Answer(u, TRUE)
    \/ UNCHANGED fpga /\ Answer(u, FALSE)

\* handleSpiSetPatch with a buffer.  A length below the minimum closes the
\* connection instead.
UploadPatchBuffer(u) ==
    /\ Due(u, "upload")
    /\ LET b == Carried(Build(Head(sent[u]).arg)) IN
       /\ b.size >= 0
       /\ \/ \E ps \in Understood(b) : Put(u, ps)
          \/ Understood(b) = {} /\ UNCHANGED fpga /\ Answer(u, FALSE)
    /\ UNCHANGED <<fd, fifo, made>>

\* handleSpiSetPatch with the 14 bytes of setPatch.
SetPatch(u) ==
    /\ Due(u, "set")
    /\ \E ps \in UnderstoodSingle(Head(sent[u]).arg[1]) : Put(u, ps)
    /\ UNCHANGED <<fd, fifo, made>>

MaxDump == 512

\* The dump holds what the FPGA holds, or there is no dump.
DumpPatchBuffer(u) ==
    /\ Due(u, "dump")
    /\ \/ fd /\ fpga.size <= MaxDump /\ AnswerWith(u, TRUE, fpga)
       \/ AnswerWith(u, FALSE, EmptyBuffer)
    /\ UNCHANGED device

ClearPatches(u) ==
    /\ Due(u, "unpatch")
    /\ \/ fd /\ fpga' = EmptyBuffer /\ Answer(u, TRUE)
       \/ UNCHANGED fpga /\ Answer(u, FALSE)
    /\ UNCHANGED <<fd, fifo, made>>

-----------------------------------------------------------------------------

\* The FPGA sees the bear read its Flash.
Record ==
    /\ made < MaxTrans
    /\ made' = made + 1
    /\ fifo' = Append(fifo, made + 1)
    /\ UNCHANGED <<fd, fpga, conn, got, line>>

Handle(u) ==
    \/ Open(u) \/ Close(u)
    \/ ClearTransactions(u) \/ ReadTransaction(u) \/ ReadNothing(u)
    \/ UploadPatchBuffer(u) \/ SetPatch(u)
    \/ DumpPatchBuffer(u) \/ ClearPatches(u)

UserStep(u) ==
    \/ \E r \in Requests : Ask(u, r)
    \/ Take(u) \/ Lose(u) \/ Drop(u) \/ Leave(u)

Next == (\E u \in Users : UserStep(u) \/ Handle(u)) \/ Record

Spec == Init /\ [][Next]_vars

-----------------------------------------------------------------------------
(* What the code promises.                                                 *)

\* The handler of u answers an upload of ps with success.
Uploaded(u, ps) ==
    /\ Due(u, "upload") /\ Head(sent[u]).arg = ps
    /\ Len(back'[u]) > Len(back[u]) /\ back'[u][Len(back'[u])].ok

AllEnabled(ps) == ps # <<>> /\ \A i \in 1..Len(ps) : ps[i].enabled

\* An upload of enabled patches that is answered with success has made the
\* FPGA apply these patches, with their data, in their order, and no others:
\* through the client's layout, the server's parser and the second layout.
\* Their ids do not matter, as the order is all that is sent of them.
UploadExact ==
    [][\A u \in Users, ps \in Uploads :
          Uploaded(u, ps) /\ AllEnabled(ps) /\ FitsMessage(ps) =>
              Active(fpga') = Numbered(ps)]_vars

\* The server understands the message that carries ps.
Legible(ps) == FitsMessage(ps) /\ ~LooksOld(Build(ps))

EnabledPart(ps) == Active(Build(ps))

Applicable == {EnabledPart(ps) : ps \in Uploads \cup {<<>>}}
              \cup {EnabledPart(<<p>>) : p \in Singles}

\* The server finds no patch in a single one that it takes for a buffer.
LegibleSingle(p) == p.id = Stored => p.addr % 256 # 0

AllLegible == /\ \A ps \in Uploads : Legible(ps)
              /\ \A p \in Singles : LegibleSingle(p)

\* The FPGA never applies bytes that nobody sent, nor a mixture of what
\* several clients sent: its patches are one upload, up to its first disabled
\* patch, or one single patch.  AllLegible leaves out what the server takes
\* for something else, where this is not so: buffers of 14 bytes that begin
\* with a disabled patch, uploads that are cut at the message's length, and
\* single patches with the id 0x80 whose address ends in 0x00.
WholeUploads == AllLegible => Active(fpga) \in Applicable

\* A transaction is handed to one client at most, and each client gets its
\* transactions in the order in which the FPGA recorded them, also when it
\* gives up on reads and gets the response to an earlier one.
Increasing(s) == \A i, j \in 1..Len(s) : i < j => s[i] < s[j]
Members(s) == {s[i] : i \in 1..Len(s)}

ReadOnceInOrder ==
    /\ \A u \in Users : Increasing(got[u])
    /\ \A u, w \in Users : u # w => Members(got[u]) \cap Members(got[w]) = {}
=============================================================================
