------------------------------- MODULE Codecs -------------------------------
(***************************************************************************)
(* The byte-level codecs of the program: the escape codec of the FPGA's    *)
(* SPI core (lib/src/escape_codec.cpp) as SPIProtocol::transfer uses it,   *)
(* the transaction that is read with it (lib/src/transaction.cpp), the     *)
(* messages of the network protocol (lib/src/protocol.cpp), and the        *)
(* address coder of the GUI (gui/mainwindow.cpp).                          *)
(*                                                                         *)
(* The state is what the codecs are given: the response that the FPGA is   *)
(* about to send, the fields and the block of data that make up the        *)
(* payload of a message, or the 24-bit address in the GUI's input field,   *)
(* which each press of a button replaces.                                  *)
(***************************************************************************)
EXTENDS Integers, SequencesExt

CONSTANTS AnyBytes,  \* bytes of a response
          Fillers,   \* bytes the FPGA may send after its response
          Addresses, \* addresses the user types
          Values,    \* numbers in a payload
          Lengths,   \* lengths of strings in a payload
          Blocks,    \* lengths of the data behind the fields of a payload
          MaxFields, \* bound: fields of a payload
          MaxLength, \* bound: bytes of a response
          MaxPresses \* bound: presses of Encode and Decode

Modulus == 16777216

\* The most that 16 bits hold.
MaxShort == 65535

ASSUME CodecsAssumption ==
    /\ AnyBytes \cup Fillers \subseteq 0..255
    /\ Addresses \subseteq 0..(Modulus - 1)
    /\ Values \subseteq Nat /\ Lengths \subseteq 0..MaxShort
    /\ Blocks \subseteq Nat
    /\ {MaxFields, MaxLength, MaxPresses} \subseteq Nat

VARIABLES response, \* the bytes the FPGA sends, before they are escaped
          fields,   \* the fields of the payload
          block,    \* the length of the data behind them
          address,  \* the input field of the address coder
          presses   \* history: presses of its buttons

message == <<fields, block>>
vars == <<response, message, address, presses>>

Bit(x, i) == (x \div 2^i) % 2 = 1

-----------------------------------------------------------------------------
(* The escape codec.                                                       *)

IDLE_CHAR == 74
ESCAPE_CHAR == 77

\* byte ^ XOR_MASK.
Masked(b) == IF Bit(b, 5) THEN b - 32 ELSE b + 32

NeedsEscape(b) == b \in {IDLE_CHAR, ESCAPE_CHAR}

Escaped(b) == IF NeedsEscape(b) THEN <<ESCAPE_CHAR, Masked(b)>> ELSE <<b>>

\* Loops are functions of the number of rounds.
Encode(s) ==
    LET out[n \in 0..Len(s)] ==
            IF n = 0 THEN <<>> ELSE out[n - 1] \o Escaped(s[n])
    IN  out[Len(s)]

\* What is decoded, and whether an escape sequence has begun.
Unescape(acc, b) ==
    IF acc.escape THEN [out |-> Append(acc.out, Masked(b)), escape |-> FALSE]
    ELSE IF b = ESCAPE_CHAR THEN [out |-> acc.out, escape |-> TRUE]
    ELSE [out |-> Append(acc.out, b), escape |-> FALSE]

\* An escape character at the end stands for itself.
Decode(s) ==
    LET acc[n \in 0..Len(s)] ==
            IF n = 0 THEN [out |-> <<>>, escape |-> FALSE]
            ELSE Unescape(acc[n - 1], s[n])
        end == acc[Len(s)]
    IN  IF end.escape THEN Append(end.out, ESCAPE_CHAR) ELSE end.out

\* Fault: room for one escape sequence only.
WindowTight(rxLen) == rxLen + 1

\* The bytes that are clocked for a response of rxLen bytes.
Window(rxLen) == 2 * rxLen

\* What transfer() makes of a response s, when f fills the rest of the
\* window.
Transfer(s, f) ==
    LET sent == Encode(s) \o [i \in 1..Window(Len(s)) |-> f]
        rx == Decode(SubSeq(sent, 1, Window(Len(s))))
    IN  SubSeq(rx, 1, IF Len(rx) > Len(s) THEN Len(s) ELSE Len(rx))

-----------------------------------------------------------------------------
(* Transactions.                                                           *)

FromBytes(d) == [address |-> 65536 * d[1] + 256 * d[2] + d[3],
                 count |-> 65536 * d[4] + 256 * d[5] + d[6],
                 timestamp |-> 256 * d[7] + d[8]]

ToBytes(t) ==
    <<t.address \div 65536, (t.address \div 256) % 256, t.address % 256,
      t.count \div 65536, (t.count \div 256) % 256, t.count % 256,
      t.timestamp \div 256, t.timestamp % 256>>

IsDummy(t) == t = [address |-> 16777215, count |-> 16777215,
                   timestamp |-> 65535]

\* readTransaction: the transaction, or none.
ReadTransaction(rx) ==
    IF Len(rx) # 8 \/ IsDummy(FromBytes(rx)) THEN {} ELSE {FromBytes(rx)}

-----------------------------------------------------------------------------
(* Messages: two magic bytes, a length of 16 bits, a type, the payload.    *)

HeaderSize == 5

\* The most that a length of 16 bits leaves to the payload.
MaxPayload == MaxShort - HeaderSize

\* The bytes of a number, the highest first.
BigEndian(v, width) == [i \in 1..width |-> (v \div 256^(width - i)) % 256]

Width == [byte |-> 1, uint16 |-> 2, uint32 |-> 4]

\* The numbers of 32 bits, said without one that is too large for TLC.
Fields ==
    [kind : {"byte"}, value : {v \in Values : v < 256}]
    \cup [kind : {"uint16"}, value : {v \in Values : v < 65536}]
    \cup [kind : {"uint32"}, value : {v \in Values : v \div 65536 < 65536}]
    \cup [kind : {"string"}, value : Lengths]

\* A string is known by its length; its characters are all the same.
Bytes(f) ==
    IF f.kind = "string"
    THEN BigEndian(f.value, 2) \o [i \in 1..f.value |-> 82]
    ELSE BigEndian(f.value, Width[f.kind])

Payload(fs) ==
    LET bytes[n \in 0..Len(fs)] ==
            IF n = 0 THEN <<>> ELSE bytes[n - 1] \o Bytes(fs[n])
    IN  bytes[Len(fs)]

NumberAt(buffer, offset, width) ==
    LET v[n \in 0..width] ==
            IF n = 0 THEN 0 ELSE 256 * v[n - 1] + buffer[offset + n]
    IN  v[width]

\* What decodeByte, decodeUint16, decodeUint32 and decodeString leave of
\* values and offset; ok is FALSE once a field is not all there.
DecodeField(buffer, acc, kind) ==
    LET width == IF kind = "string" THEN 2 ELSE Width[kind]
        there == acc.ok /\ acc.offset + width <= Len(buffer)
        value == NumberAt(buffer, acc.offset, width)
        end == acc.offset + width + IF kind = "string" THEN value ELSE 0
    IN  IF there /\ end <= Len(buffer)
        THEN [ok |-> TRUE, offset |-> end,
              values |-> Append(acc.values, value)]
        ELSE [acc EXCEPT !.ok = FALSE]

DecodeFields(buffer, kinds) ==
    LET acc[n \in 0..Len(kinds)] ==
            IF n = 0 THEN [ok |-> TRUE, offset |-> 0, values |-> <<>>]
            ELSE DecodeField(buffer, acc[n - 1], kinds[n])
    IN  acc[Len(kinds)]

\* Fault: the length is that of the payload alone.
EncodeHeaderBare(size) == <<82, 66>> \o BigEndian(size % 65536, 2)

\* The header of encodeMessage without the type, for a payload of that size.
EncodeHeader(size) == <<82, 66>> \o BigEndian((HeaderSize + size) % 65536, 2)

\* decodeMessage, and the receive loops before it: the size of the payload
\* when so many bytes come after the header, or none.
DecodeSize(header, more) ==
    LET length == NumberAt(header, 2, 2)
    IN  IF header[1] = 82 /\ header[2] = 66
           /\ length >= HeaderSize /\ HeaderSize + more >= length
        THEN {length - HeaderSize} ELSE {}

-----------------------------------------------------------------------------
(* The address coder.                                                      *)

\* coeffs[i - 1] of the source, as a sum of powers of two with signs: each
\* is an odd multiple of 2^(i - 1), modulo 2^24.
Coeffs ==
    <<65535, 16646146, 262140, 524280, 1048560, 14680096, 12582976, 8388736,
      256, 16776704, 1024, 2048, 4096, 8192, 16384, 32768, 16711680, 131072,
      16515072, 16252928, 15728640, 2097152, 4194304, 8388608>>

Offset == 541

\* The input field is empty: both buttons warn and do nothing.
Empty == -1

\* std::swap of the bytes 0 and 2.
SwapEnds(x) == 65536 * (x % 256) + 256 * ((x \div 256) % 256) + x \div 65536

\* Fault: the bits of the address itself are looked at.
EncodeAddressPlain(a) ==
    SwapEnds(MapThenFoldSet(+, 0, LAMBDA i : 2^i,
                            LAMBDA S : CHOOSE i \in S : TRUE,
                            {i \in 0..23 : Bit((a - Offset) % Modulus, i)}))

\* From the lowest bit: a bit that is left in the rest is taken out with its
\* coefficient.
TakeOut(acc, i) ==
    IF Bit(acc.rest, i)
    THEN [rest |-> (acc.rest - Coeffs[i + 1]) % Modulus,
          code |-> acc.code + 2^i]
    ELSE acc

EncodeAddress(a) ==
    LET acc[n \in 0..24] ==
            IF n = 0 THEN [rest |-> (a - Offset) % Modulus, code |-> 0]
            ELSE TakeOut(acc[n - 1], n - 1)
    IN  SwapEnds(acc[24].code)

\* The sum of the coefficients of the bits that are set.
DecodeAddress(e) ==
    LET sum[n \in 0..24] ==
            IF n = 0 THEN Offset
            ELSE IF Bit(SwapEnds(e), n - 1)
            THEN (sum[n - 1] + Coeffs[n]) % Modulus
            ELSE sum[n - 1]
    IN  sum[24]

-----------------------------------------------------------------------------

Init ==
    /\ response = <<>>
    /\ fields = <<>> /\ block = 0
    /\ address \in Addresses \cup {Empty}
    /\ presses = 0

\* The FPGA's response gets longer; an exchange ends and another begins.
Grow ==
    /\ address = Empty /\ fields = <<>> /\ Len(response) < MaxLength
    /\ \E b \in AnyBytes : response' = Append(response, b)
    /\ UNCHANGED <<message, address, presses>>

EndExchange ==
    /\ response # <<>>
    /\ response' = <<>>
    /\ UNCHANGED <<message, address, presses>>

\* Another field of a message; the data is its last part.
AddField ==
    /\ address = Empty /\ response = <<>>
    /\ Len(fields) < MaxFields /\ block = 0
    /\ \E f \in Fields : fields' = Append(fields, f)
    /\ UNCHANGED <<response, block, address, presses>>

AddBlock ==
    /\ fields # <<>> /\ block = 0
    /\ block' \in Blocks
    /\ UNCHANGED <<response, fields, address, presses>>

SendMessage ==
    /\ fields # <<>>
    /\ fields' = <<>> /\ block' = 0
    /\ UNCHANGED <<response, address, presses>>

Press(result) ==
    /\ address # Empty /\ presses < MaxPresses
    /\ address' = result /\ presses' = presses + 1
    /\ UNCHANGED <<response, message>>

OnEncodeAddress == Press(EncodeAddress(address))
OnDecodeAddress == Press(DecodeAddress(address))

\* The user types another address.
Type ==
    /\ address # Empty
    /\ address' \in Addresses /\ presses' = 0
    /\ UNCHANGED <<response, message>>

Next ==
    \/ Grow \/ EndExchange
    \/ AddField \/ AddBlock \/ SendMessage
    \/ OnEncodeAddress \/ OnDecodeAddress \/ Type

Spec == Init /\ [][Next]_vars

TypeOK ==
    /\ response \in Seq(AnyBytes)
    /\ fields \in Seq(Fields) /\ block \in Blocks \cup {0}
    /\ address = Empty \/ address \in 0..(Modulus - 1)
    /\ presses \in 0..MaxPresses

-----------------------------------------------------------------------------
(* What the code promises.                                                 *)

\* Reading a transaction gives the one that the FPGA sent, in all its bits,
\* and none only for the eight 0xFF of an empty buffer.
TransactionExact ==
    Len(response) = 8 =>
        \A f \in Fillers :
            {ToBytes(t) : t \in ReadTransaction(Transfer(response, f))}
                = {response} \ {[i \in 1..8 |-> 255]}

\* What is received is what was sent, whatever the bytes are and whatever
\* follows the response: the window holds the response however much of it
\* is escaped, and an escape sequence that the window cuts does no harm.
TransferExact ==
    /\ \A f \in Fillers : Transfer(response, f) = response
    /\ TransactionExact

\* A payload of at most MaxPayload bytes arrives as it was sent: its fields
\* are read back in order to the end, a payload that is cut anywhere is
\* refused, and the message is taken for complete with its last byte and
\* not before, whatever follows it.  A longer one is never taken for what it
\* is: the length wraps.
MessageExact ==
    LET payload == Payload(fields)
        read(n) == DecodeFields(SubSeq(payload, 1, n),
                                [i \in 1..Len(fields) |-> fields[i].kind])
        size == Len(payload) + block
        arrived(more) == DecodeSize(EncodeHeader(size), more)
    IN  /\ \A n \in 0..Len(payload) : read(n).ok <=> n = Len(payload)
        /\ read(Len(payload)).offset = Len(payload)
        /\ \A i \in 1..Len(fields) :
              read(Len(payload)).values[i] = fields[i].value
        /\ IF size <= MaxPayload
           THEN /\ \A more \in size..(size + 9) : arrived(more) = {size}
                /\ \A more \in {0, size - 1} \ {size} : arrived(more) = {}
           ELSE arrived(size) # {size}

\* Encode and Decode undo each other on 24-bit addresses: the coefficients
\* are a basis of the numbers modulo 2^24.
AddressesInverse ==
    address # Empty =>
        /\ DecodeAddress(EncodeAddress(address)) = address
        /\ EncodeAddress(DecodeAddress(address)) = address
=============================================================================
