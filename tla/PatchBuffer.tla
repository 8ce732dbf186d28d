---------------------------- MODULE PatchBuffer ----------------------------
(***************************************************************************)
(* The patch buffer: how uploadPatchBuffer lays patches out                *)
(* (lib/src/spi_protocol.cpp, and the same in spi_protocol_network.cpp),   *)
(* how the message that carries it is cut (lib/src/protocol.cpp), how the  *)
(* server reads it back (server/command_handler.cpp) and what the FPGA     *)
(* makes of it (PATCH_BUFFER_FORMAT.md).                                   *)
(*                                                                         *)
(* A patch is [id, addr, len, data, enabled]: its replacement bytes are    *)
(* one value `data' of length `len'.  A buffer is kept as its headers, the *)
(* chunks of its data section with their positions, and its size, so that  *)
(* offsets and sizes are those of the code and bytes are not spelled out.  *)
(* It has no ids: whoever reads it numbers the patches as they come.       *)
(***************************************************************************)
EXTENDS Integers, Sequences, FiniteSetsExt

\* Bytes that no patch asked for: read where no chunk starts, or taken from
\* a header.
Junk == "junk"

\* A list of patches; an id is a byte.
PatchList(ps) ==
    /\ Len(ps) \in Nat
    /\ \A i \in 1..Len(ps) : /\ ps[i].id \in 0..255
                              /\ ps[i].addr \in Nat /\ ps[i].len \in Nat
                              /\ ps[i].enabled \in BOOLEAN
    /\ ps = [i \in 1..Len(ps) |->
               [id |-> ps[i].id, addr |-> ps[i].addr, len |-> ps[i].len,
                data |-> ps[i].data, enabled |-> ps[i].enabled]]

\* The same patches as a reader of their buffer numbers them.
Numbered(ps) == [i \in 1..Len(ps) |-> [ps[i] EXCEPT !.id = i - 1]]

MaxId == 15
MaxAddress == 2^24 - 1
MaxLength == 65535

ValidPatch(p) ==
    p.id \in 0..MaxId /\ p.addr \in 0..MaxAddress /\ p.len \in 1..MaxLength

MaxPatches == 8

ValidUpload(ps) ==
    Len(ps) <= MaxPatches /\ \A i \in 1..Len(ps) : ValidPatch(ps[i])

\* Before(ps)[i]: length of the data of the first i patches.
Before(ps) ==
    LET sum[i \in 0..Len(ps)] == IF i = 0 THEN 0 ELSE sum[i - 1] + ps[i].len
    IN  sum

\* Fault: no room for the terminator.
DataStartTight(ps) == 8 * Len(ps)

\* dataOffset: 8 bytes per header and the terminator.
DataStart(ps) == 8 * Len(ps) + 1

\* Length and offset are 16 bits wide in a header; the data itself follows
\* the terminator whatever the headers say.
Build(ps) ==
    [headers |-> [i \in 1..Len(ps) |->
                     [stored |-> ps[i].enabled,
                      addr   |-> ps[i].addr,
                      len    |-> ps[i].len % 65536,
                      off    |-> (DataStart(ps) + Before(ps)[i - 1]) % 65536]],
     chunks  |-> {[at   |-> 8 * Len(ps) + 1 + Before(ps)[i - 1],
                   len  |-> ps[i].len,
                   data |-> ps[i].data] : i \in 1..Len(ps)},
     size    |-> 8 * Len(ps) + 1 + Before(ps)[Len(ps)]]

\* clearPatches sends the terminator alone.
EmptyBuffer == Build(<<>>)

\* The bytes from off on.
Slice(b, off, len) ==
    LET there == {c \in b.chunks : c.at = off /\ c.len = len}
    IN  IF there = {} THEN Junk ELSE (CHOOSE c \in there : TRUE).data

\* The patches of the headers before the first one in `stop'.
ReadHeaders(b, stop) ==
    LET n == Min({Len(b.headers) + 1} \cup stop) - 1
    IN  [i \in 1..n |-> [id      |-> i - 1,
                         addr    |-> b.headers[i].addr,
                         len     |-> b.headers[i].len,
                         data    |-> Slice(b, b.headers[i].off,
                                              b.headers[i].len),
                         enabled |-> TRUE]]

\* Header i starts with STORED = 0x00, which is also the terminator.
Terminates(b, i) == ~b.headers[i].stored

\* What the FPGA applies: the headers up to the terminator.
Active(b) == ReadHeaders(b, {i \in 1..Len(b.headers) : Terminates(b, i)})

-----------------------------------------------------------------------------
(* The way over the network.                                               *)

HeaderSize == 5  \* MIN_MESSAGE_SIZE

\* The length of the message that carries ps fits its field.
FitsMessage(ps) == HeaderSize + Build(ps).size < 65536

\* The 16-bit length of the message wraps; the receiver takes that many
\* bytes, and what follows is no message.
CarriedSize(size) == ((HeaderSize + size) % 65536) - HeaderSize

\* The size is negative when the length that arrives is below the minimum.
Carried(b) == [b EXCEPT !.size = CarriedSize(b.size)]

\* handleSpiSetPatch takes 14 bytes that do not start with 0x80 for a patch
\* in the old format, and 9 bytes or more for a buffer.
LooksOld(b) == b.size = 14 /\ ~b.headers[1].stored

LooksNew(b) == b.size >= 9 /\ ~LooksOld(b)

\* The server's loop over the headers ends at the end of the payload, at a
\* STORED of 0x00, and at data that is not all there.
Parse(b) ==
    ReadHeaders(b, {i \in 1..Len(b.headers) :
                       \/ 8 * i > b.size
                       \/ Terminates(b, i)
                       \/ b.headers[i].off + b.headers[i].len > b.size})

\* A buffer of 14 bytes in the old format: its first five bytes, 0x00 and
\* the header's address and length, are read as id and 32-bit address; the
\* last data byte as the enabled flag.
ParseOld(b) ==
    {<<[id |-> 0,
        addr |-> b.headers[1].addr * 256 + b.headers[1].len \div 256,
        len |-> 8, data |-> Junk, enabled |-> e]>> : e \in BOOLEAN}

\* What the server may understand; nothing when the payload cannot be read.
Understood(b) ==
    IF LooksNew(b) THEN {Parse(b)}
    ELSE IF LooksOld(b) THEN ParseOld(b)
    ELSE {}

\* setPatch on the network sends the first 8 bytes of the data, as they are
\* for patches of 8 bytes.
SentSingle(p) == [p EXCEPT !.len = 8,
                           !.data = IF p.len = 8 THEN @ ELSE Junk]

\* The id that is taken for the STORED byte of a buffer.
Stored == 128

\* What the server may understand of it: with that id not the patch but the
\* buffer its 14 bytes would be.  The last byte of the address is then the
\* upper one of a length, and the first three of the data are the rest of
\* the length and the offset: a patch of some of the 14 bytes, or nothing,
\* if these are not all there.
UnderstoodSingle(p) ==
    IF p.id # Stored THEN {<<SentSingle(p)>>}
    ELSE {<<>>} \cup {<<[id |-> 0, addr |-> p.addr \div 256, len |-> n,
                        data |-> Junk, enabled |-> TRUE]>> :
                          n \in IF p.addr % 256 = 0 THEN 0..14 ELSE {}}
=============================================================================
