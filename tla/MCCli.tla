------------------------------- MODULE MCCli -------------------------------
(* An instance of Cli: two processes, one that monitors, exports, sets or   *)
(* uploads patches and one with any command; patches of 3, 8 and 600 bytes, *)
(* the last too long for a dump; a disabled patch between others in what is *)
(* uploaded and in what is found; single patches with an id that is taken,  *)
(* one that is refused and one that makes the server read a buffer.         *)
EXTENDS Cli, TLC

CONSTANTS p1, p2

Patch(k, a, n, d, e) ==
    [id |-> k, addr |-> a, len |-> n, data |-> d, enabled |-> e]

A(k) == Patch(k, 4096, 8, "a", TRUE)
B(k) == Patch(k, 8192, 3, "b", TRUE)
Off(k) == Patch(k, 12288, 8, "o", FALSE)
Long(k) == Patch(k, 16384, 600, "l", TRUE)
Single(k) == Patch(k, 4097, 8, "a", TRUE)

TwoShells ==
    (p1 :> {"monitor", "export", "patch set", "uploadPatchBuffer"})
    @@ (p2 :> Commands \cup Programs)
Lines == (p1 :> <<Long(0), A(1)>>) @@ (p2 :> <<B(0), A(1)>>)
MixedLists == {<<A(7), Off(7), B(2)>>}
Earlier == {<<B(0), A(1), Off(2), A(3)>>}
Lists == MixedLists \cup Earlier \cup {Lines[p] : p \in {p1, p2}}
SomeSingles == {Single(3), Single(16), Single(128)}

\* A process may go on after a call it gave up on.
Room == (p1 :> 2) @@ (p2 :> 1)
=============================================================================
