-------------------------------- MODULE Cli --------------------------------
(***************************************************************************)
(* Programs for the FPGA on one rebear-server: rebear-cli (cli/main.cpp)   *)
(* with --remote, and programs written with the library as those of        *)
(* lib/example_patch_buffer.cpp.  Several processes run, each with one     *)
(* command and a connection of its own.                                    *)
(*                                                                         *)
(* A command opens the SPI device, makes its calls, closes the device and  *)
(* ends with an exit status; a process may also be killed, by SIGINT too   *)
(* unless it monitors.  Without --remote the calls are those of            *)
(* SPIProtocol: a process then behaves as one does here that shares the    *)
(* server with nobody and loses no call.                                   *)
(***************************************************************************)
EXTENDS SpiService

CONSTANTS Jobs,   \* Jobs[p]: the commands that process p may be started with
          Asked,  \* Asked[p]: the patches on the command line of p
          Mixed   \* the patches that a program uploads, enabled or not

\* The commands of rebear-cli, and the calls a program makes.
Commands == {"monitor", "monitor json", "export", "clear", "patch set",
             "patch set dry", "patch list", "patch clear", "refused"}
Programs == {"uploadPatchBuffer", "setPatch"}

ASSUME CliAssumption ==
    /\ Jobs \in [Users -> SUBSET (Commands \cup Programs)]
    \* patch set numbers the patches of its line.
    /\ \A p \in Users : \A i \in 1..Len(Asked[p]) :
          Asked[p][i].enabled /\ Asked[p][i].id = (i - 1) % 256
    /\ \A p \in Users :
          Asked[p] # <<>> /\ ValidUpload(Asked[p]) => Asked[p] \in Uploads
    /\ Mixed \subseteq Uploads /\ \A ps \in Mixed : ValidUpload(ps)

VARIABLES
    job,    \* job[p]: the command
    at,     \* at[p]: the call that p makes, "write", or "exit"
    status, \* status[p]: the exit status, once it is settled
    shown,  \* shown[p]: what p has written to the terminal or the file
    truth,  \* history: what was in the FPGA when a call of p was handled
    upset   \* history: a call was lost, or a process killed

process == <<job, at, status, shown>>
cliVars == <<vars, process, truth, upset>>

\* The status is not settled yet, or never will be: p was killed.
NoStatus == -1

Reading(p) == job[p] \in {"monitor", "monitor json", "export"}

\* A wrong subcommand or option, no patches, too many or invalid ones: all
\* this is seen when the device is open already.
Refused(p) ==
    \/ job[p] = "refused"
    \/ /\ job[p] \in {"patch set", "patch set dry"}
       /\ Asked[p] = <<>> \/ ~ValidUpload(Asked[p])

\* The call that a command is about.  --dry stops a set, and nothing but a
\* set, before the call.
Work == [j \in (Commands \cup Programs) \ {"refused"} |->
    CASE j \in {"monitor", "monitor json", "export"} -> "read"
      [] j = "clear" -> "clear"
      [] j \in {"patch set", "uploadPatchBuffer"} -> "upload"
      [] j = "setPatch" -> "set"
      [] j = "patch set dry" -> "close"
      [] j = "patch list" -> "dump"
      [] j = "patch clear" -> "unpatch"]

CliInit ==
    /\ Init
    /\ job \in {j \in [Users -> Commands \cup Programs] :
                  \A p \in Users : j[p] \in Jobs[p]}
    /\ at = [p \in Users |-> "open"]
    /\ status = [p \in Users |-> NoStatus]
    /\ shown = [p \in Users |-> <<>>]
    /\ truth = [p \in Users |-> <<>>]
    /\ upset = FALSE

-----------------------------------------------------------------------------
(* What a command makes of the end of a call.  r is the response, or       *)
(* Nothing.                                                                *)

Nothing == [ok |-> FALSE, val |-> 0]

Goto(p, there) == at' = [at EXCEPT ![p] = there]
Settle(p, n) == status' = [status EXCEPT ![p] = n]
Show(p, what) == shown' = [shown EXCEPT ![p] = what]

\* The command does its work; one that needs no call ends, and so does a
\* monitor to which SIGINT comes before its first read.
Begin(p) ==
    \E there \in {Work[job[p]]}
                 \cup (IF job[p] \in {"monitor", "monitor json"}
                       THEN {"close"} ELSE {}) :
        /\ Goto(p, there)
        /\ IF there = "close" THEN Settle(p, 0) ELSE UNCHANGED status

\* Fault: a refused command leaves the device open.
OpenedForGood(p, r) ==
    /\ at[p] = "open"
    /\ \/ r.ok /\ ~Refused(p) /\ Begin(p)
       \/ (~r.ok \/ Refused(p)) /\ Goto(p, "exit") /\ Settle(p, 1)
    /\ UNCHANGED shown

Opened(p, r) ==
    /\ at[p] = "open"
    /\ \/ ~r.ok /\ Goto(p, "exit") /\ Settle(p, 1)
       \/ r.ok /\ Refused(p) /\ Goto(p, "close") /\ Settle(p, 1)
       \/ r.ok /\ ~Refused(p) /\ Begin(p)
    /\ UNCHANGED shown

\* Fault: the time is looked at before the transaction is kept.
ReadLate(p, r) ==
    /\ at[p] = "read"
    /\ \/ /\ UNCHANGED at
          /\ IF job[p] = "monitor" THEN Show(p, got'[p]) ELSE UNCHANGED shown
       \/ /\ Goto(p, "close")
          /\ IF job[p] = "monitor json" THEN Show(p, got[p])
             ELSE UNCHANGED shown
    /\ IF at'[p] = "close" /\ job[p] # "export" THEN Settle(p, 0)
       ELSE UNCHANGED status

\* One turn of the loop: it goes on, or the time is over or, for a monitor,
\* SIGINT has come.  A monitor shows a transaction at once, or all of them
\* at the end.
Read(p, r) ==
    /\ at[p] = "read"
    /\ \/ /\ UNCHANGED at
          /\ IF job[p] = "monitor" THEN Show(p, got'[p]) ELSE UNCHANGED shown
       \/ /\ Goto(p, "close")
          /\ IF job[p] # "export" THEN Show(p, got'[p]) ELSE UNCHANGED shown
    /\ IF at'[p] = "close" /\ job[p] # "export" THEN Settle(p, 0)
       ELSE UNCHANGED status

\* Fault: whatever the call says, the command has worked.
WorkedAnyway(p, r) ==
    /\ at[p] \in {"clear", "upload", "set", "dump", "unpatch"}
    /\ Goto(p, "close")
    /\ Settle(p, 0)
    /\ UNCHANGED shown

\* The list subcommand reads the headers that the dump holds, as the server
\* reads those of an upload; the dump subcommand shows the bytes instead.
Worked(p, r) ==
    /\ at[p] \in {"clear", "upload", "set", "dump", "unpatch"}
    /\ Goto(p, "close")
    /\ Settle(p, IF r.ok THEN 0 ELSE 1)
    /\ IF at[p] = "dump" /\ r.ok THEN Show(p, Parse(r.val))
       ELSE UNCHANGED shown

Closed(p) ==
    /\ at[p] = "close"
    /\ Goto(p, IF job[p] = "export" THEN "write" ELSE "exit")
    /\ UNCHANGED <<status, shown>>

Proceed(p, r) ==
    /\ Opened(p, r) \/ Read(p, r) \/ Worked(p, r) \/ Closed(p)
    /\ UNCHANGED job

-----------------------------------------------------------------------------
(* A process.                                                              *)

Arguments(p) ==
    CASE job[p] = "patch set" -> {Asked[p]}
      [] job[p] = "uploadPatchBuffer" -> Mixed
      [] job[p] = "setPatch" -> {<<q>> : q \in Singles}

CliAsk(p) ==
    /\ at[p] \in Ops
    /\ \E a \in IF at[p] \in {"upload", "set"} THEN Arguments(p) ELSE {<<>>} :
          Ask(p, [op |-> at[p], arg |-> a])
    /\ UNCHANGED <<process, truth, upset>>

CliTake(p) ==
    /\ Take(p)
    /\ Proceed(p, Head(back[p]))
    /\ UNCHANGED <<truth, upset>>

CliLose(p) ==
    /\ Lose(p)
    /\ Proceed(p, Nothing)
    /\ upset' = TRUE
    /\ UNCHANGED truth

CliDrop(p) ==
    /\ Drop(p)
    /\ upset' = TRUE
    /\ UNCHANGED <<process, truth>>

\* cmdExportImpl writes its file when the device is closed already.
Write(p) ==
    /\ at[p] = "write"
    /\ \/ Show(p, got[p]) /\ Settle(p, 0)
       \/ UNCHANGED shown /\ Settle(p, 1)
    /\ Goto(p, "exit")
    /\ UNCHANGED <<vars, job, truth, upset>>

Kill(p) ==
    /\ at[p] # "exit"
    /\ Leave(p)
    /\ Goto(p, "exit") /\ Settle(p, NoStatus)
    /\ upset' = TRUE
    /\ UNCHANGED <<job, shown, truth>>

-----------------------------------------------------------------------------

\* The server, and what it finds in the FPGA.
CliHandle(p) ==
    /\ Handle(p)
    /\ truth' = IF Head(sent[p]).op \in {"upload", "set", "dump", "unpatch"}
                THEN [truth EXCEPT ![p] = Active(fpga')] ELSE truth
    /\ UNCHANGED <<process, upset>>

CliRecord == Record /\ UNCHANGED <<process, truth, upset>>

ProcessStep(p) == CliAsk(p) \/ CliTake(p) \/ CliLose(p) \/ Write(p)

CliNext ==
    \/ \E p \in Users : ProcessStep(p) \/ CliDrop(p) \/ Kill(p) \/ CliHandle(p)
    \/ CliRecord

CliSpec == CliInit /\ [][CliNext]_cliVars

-----------------------------------------------------------------------------
(* What the code promises.                                                 *)

\* Exit status 0 can be relied on: when the server handled the call, exactly
\* the patches of a set command were in the FPGA, none after a clear, and
\* those that a list shows, whatever the other processes were doing.
ExitZeroIsTrue ==
    \A p \in Users : at[p] = "exit" /\ status[p] = 0 =>
        CASE job[p] = "patch set"   -> truth[p] = Asked[p]
          [] job[p] = "patch clear" -> truth[p] = <<>>
          [] job[p] = "patch list"  -> truth[p] = shown[p]
          [] OTHER -> TRUE

\* What a process holds of the transactions: those it has shown, or those it
\* has collected to show them later.
Kept(p) == IF at[p] = "exit" \/ job[p] = "monitor" THEN shown[p] ELSE got[p]

OnItsWay(p) ==
    {back[p][i].val : i \in {j \in 1..Len(back[p]) : back[p][j].op = "read"}}
        \ {0}

\* No transaction goes missing between several readers: it is in the queue,
\* on its way, or with one of them, until it is shown, as long as no call is
\* lost, nobody is killed, nobody clears the queue and every file can be
\* written.
NothingGoesMissing ==
    (/\ ~upset
     /\ \A p \in Users : /\ job[p] # "clear"
                         /\ job[p] = "export" => status[p] # 1) =>
        1..made = Members(fifo)
                  \cup (UNION {OnItsWay(p) : p \in Users})
                  \cup (UNION {Members(Kept(p)) : p \in {q \in Users : Reading(q)}})

\* The last process to end leaves the device closed, also when it found it
\* closed by another, or was refused its command.
ClosedBehind ==
    ~upset /\ (\A p \in Users : at[p] = "exit") => ~fd
=============================================================================
