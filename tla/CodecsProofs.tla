---------------------------- MODULE CodecsProofs ----------------------------
(***************************************************************************)
(* Proofs about Codecs, for any bytes, fields, data and addresses: what is *)
(* decoded is what was encoded.                                            *)
(***************************************************************************)
EXTENDS Codecs, SequenceTheorems, WellFoundedInduction, TLAPS

-----------------------------------------------------------------------------
(* Loops.  A smallest counterexample stands in for induction.              *)

LEMMA SmallestNumber ==
    ASSUME NEW S \in SUBSET Nat, S # {}
    PROVE  \E n \in S : \A k \in S : n <= k
  <1>1. PICK n \in S : \A k \in S : <<k, n>> \notin OpToRel(<, Nat)
    BY NatLessThanWellFounded, WFMin
  <1>2. \A k \in S : ~(k < n)
    BY <1>1 DEF OpToRel
  <1> QED
    BY <1>2

\* A set of rounds that has round 0 and the next of each of its rounds.
LEMMA Rounds ==
    ASSUME NEW m \in Nat, NEW G, 0 \in G,
           \A n \in 1..m : n - 1 \in G => n \in G
    PROVE  \A n \in 0..m : n \in G
  <1> DEFINE B == {n \in 0..m : n \notin G}
  <1>1. SUFFICES ASSUME B # {} PROVE FALSE
    OBVIOUS
  <1>2. PICK n \in B : \A k \in B : n <= k
    <2>1. B \in SUBSET Nat
      OBVIOUS
    <2> HIDE DEF B
    <2> QED
      BY <1>1, <2>1, SmallestNumber
  <1>3. n \in 1..m /\ n - 1 \in 0..m /\ ~(n <= n - 1)
    OBVIOUS
  <1>4. n - 1 \in G
    BY <1>2, <1>3
  <1> QED
    BY <1>3, <1>4

\* The same downwards, from the last round.
LEMMA RoundsDown ==
    ASSUME NEW m \in Nat, NEW G, m \in G,
           \A n \in 1..m : n \in G => n - 1 \in G
    PROVE  \A n \in 0..m : n \in G
  <1> DEFINE H == {k \in 0..m : m - k \in G}
  <1>1. 0 \in H
    BY SMT
  <1>2. \A k \in 1..m : k - 1 \in H => k \in H
    <2>1. ASSUME NEW k \in 1..m, k - 1 \in H
          PROVE  k \in H
      <3>1. /\ m - (k - 1) \in G /\ m - (k - 1) \in 1..m
            /\ m - (k - 1) - 1 = m - k
        BY <2>1
      <3>2. m - k \in G
        BY <3>1
      <3> QED
        BY <3>2
    <2> QED
      BY <2>1
  <1>3. \A k \in 0..m : k \in H
    <2> HIDE DEF H
    <2> QED
      BY <1>1, <1>2, Rounds
  <1>4. ASSUME NEW n \in 0..m
        PROVE  n \in G
    <2>1. m - n \in 0..m /\ m - (m - n) = n
      OBVIOUS
    <2> QED
      BY <1>3, <2>1
  <1> QED
    BY <1>4

LoopOf(g, T, base, m, step) ==
    /\ g \in [0..m -> T] /\ g[0] = base
    /\ \A n \in 1..m : g[n] = step[<<g[n - 1], n>>]

LEMMA LoopExists ==
    ASSUME NEW T, NEW base \in T, NEW m \in Nat,
           NEW step \in [T \X (1..m) -> T]
    PROVE  \E g : LoopOf(g, T, base, m, step)
  <1> DEFINE G == {n \in 0..m : \E g : LoopOf(g, T, base, n, step)}
  <1>1. 0 \in G
    <2>1. LoopOf([i \in 0..0 |-> base], T, base, 0, step)
      BY DEF LoopOf
    <2> QED
      BY <2>1
  <1>2. ASSUME NEW n \in 1..m, n - 1 \in G
        PROVE  n \in G
    <2>1. PICK g : LoopOf(g, T, base, n - 1, step)
      BY <1>2
    <2> DEFINE last == step[<<g[n - 1], n>>]
               h == [i \in 0..n |-> IF i = n THEN last ELSE g[i]]
    <2>2. n \in 0..m /\ n - 1 \in 0..(n - 1) /\ n \in 0..n /\ 0 \in 0..n /\ 0 # n
      OBVIOUS
    <2>3. g[n - 1] \in T
      BY <2>1, <2>2 DEF LoopOf
    <2>4. last \in T
      BY <2>3
    <2> HIDE DEF last
    <2>5. h \in [0..n -> T]
      <3>1. \A i \in 0..n : i # n => g[i] \in T
        <4>1. \A i \in 0..n : i # n => i \in 0..(n - 1)
          OBVIOUS
        <4> QED
          BY <2>1, <4>1 DEF LoopOf
      <3> QED
        BY <2>4, <3>1
    <2>6. h[0] = base
      BY <2>1, <2>2 DEF LoopOf
    <2>7. \A i \in 0..(n - 1) : h[i] = g[i]
      <3>1. \A i \in 0..(n - 1) : i # n /\ i \in 0..n
        OBVIOUS
      <3> QED
        BY <3>1
    <2>8. h[n] = last
      BY <2>2
    <2> HIDE DEF h
    <2>9. ASSUME NEW i \in 1..n
          PROVE  h[i] = step[<<h[i - 1], i>>]
      <3>1. CASE i = n
        BY <2>2, <2>7, <2>8, <3>1 DEF last
      <3>2. CASE i # n
        <4>1. i \in 1..(n - 1) /\ i \in 0..(n - 1) /\ i - 1 \in 0..(n - 1)
          BY <3>2
        <4> QED
          BY <2>1, <2>7, <4>1 DEF LoopOf
      <3> QED
        BY <3>1, <3>2
    <2>10. LoopOf(h, T, base, n, step)
      BY <2>5, <2>6, <2>9 DEF LoopOf
    <2> QED
      BY <2>2, <2>10
  <1>3. \A n \in 0..m : n \in G
    <2> HIDE DEF G
    <2> QED
      BY <1>1, <1>2, Rounds
  <1>4. m \in 0..m
    OBVIOUS
  <1> QED
    BY <1>3, <1>4

\* A function that takes the steps of a loop is typed like it.
LEMMA LoopTyped ==
    ASSUME NEW T, NEW base \in T, NEW m \in Nat,
           NEW step \in [T \X (1..m) -> T],
           NEW d, d = [n \in 0..m |-> d[n]], d[0] = base,
           \A n \in 1..m : d[n - 1] \in T => d[n] = step[<<d[n - 1], n>>]
    PROVE  LoopOf(d, T, base, m, step)
  <1> DEFINE G == {n \in 0..m : d[n] \in T}
  <1>1. 0 \in G
    OBVIOUS
  <1>2. ASSUME NEW n \in 1..m, n - 1 \in G
        PROVE  n \in G
    <2>1. n \in 0..m /\ d[n - 1] \in T
      BY <1>2
    <2>2. d[n] = step[<<d[n - 1], n>>]
      BY <2>1
    <2>3. d[n] \in T
      BY <2>1, <2>2
    <2> QED
      BY <2>1, <2>3
  <1>3. \A n \in 0..m : n \in G
    <2> HIDE DEF G
    <2> QED
      BY <1>1, <1>2, Rounds
  <1>4. \A n \in 0..m : d[n] \in T
    BY <1>3
  <1>5. \A n \in 1..m : n - 1 \in 0..m
    OBVIOUS
  <1>6. d \in [0..m -> T]
    BY <1>4
  <1> QED
    BY <1>4, <1>5, <1>6 DEF LoopOf

-----------------------------------------------------------------------------
(* The escape codec.                                                       *)

LEMMA EscapedByte ==
    ASSUME NEW b \in Int
    PROVE  \/ /\ b \in {IDLE_CHAR, ESCAPE_CHAR}
              /\ Escaped(b) = <<ESCAPE_CHAR, Masked(b)>>
              /\ Masked(b) \in Int /\ Masked(Masked(b)) = b
           \/ /\ b # ESCAPE_CHAR
              /\ Escaped(b) = <<b>>
  <1>1. Masked(74) = 106 /\ Masked(106) = 74
    BY DEF Masked, Bit
  <1>2. Masked(77) = 109 /\ Masked(109) = 77
    BY DEF Masked, Bit
  <1> QED
    BY <1>1, <1>2 DEF Escaped, NeedsEscape, IDLE_CHAR, ESCAPE_CHAR

\* What Encode has put out after n bytes.
EncodeRuns(e, s) ==
    e = [n \in 0..Len(s) |->
            IF n = 0 THEN <<>> ELSE e[n - 1] \o Escaped(s[n])]

Encodes(e, s, m) ==
    /\ e \in [0..m -> Seq(Int)] /\ e[0] = <<>>
    /\ \A n \in 1..m : e[n] = e[n - 1] \o Escaped(s[n])

LEMMA EscapedType ==
    ASSUME NEW b \in Int
    PROVE  Escaped(b) \in Seq(Int)
  <1>1. ASSUME NEW x \in Int, NEW y \in Int
        PROVE  <<x>> \in Seq(Int) /\ <<x, y>> \in Seq(Int)
    OBVIOUS
  <1>2. PICK x \in Int : x = ESCAPE_CHAR
    BY DEF ESCAPE_CHAR
  <1> QED
    BY <1>1, <1>2, EscapedByte

LEMMA EncodeLoop ==
    ASSUME NEW s \in Seq(Int), NEW m \in Nat, m = Len(s)
    PROVE  \E e : Encodes(e, s, m) /\ Encode(s) = e[m]
  <1> DEFINE T == Seq(Int)
             step == [p \in T \X (1..m) |-> p[1] \o Escaped(s[p[2]])]
             d == CHOOSE e : EncodeRuns(e, s)
  <1>1. <<>> \in T
    BY EmptySeq
  <1>2. \A n \in 1..m : Escaped(s[n]) \in T
    <2>1. ASSUME NEW n \in 1..m
          PROVE  Escaped(s[n]) \in T
      <3>1. PICK b \in Int : b = s[n]
        OBVIOUS
      <3> QED
        BY <3>1, EscapedType
    <2> QED
      BY <2>1
  <1>3. step \in [T \X (1..m) -> T]
    <2>1. \A p \in T \X (1..m) : p[1] \o Escaped(s[p[2]]) \in T
      BY <1>2
    <2> QED
      BY <2>1
  <1>4. PICK e : LoopOf(e, T, <<>>, m, step)
    <2> HIDE DEF T, step
    <2> QED
      BY <1>1, <1>3, LoopExists
  <1>5. EncodeRuns(e, s)
    <2>1. ASSUME NEW n \in 1..m
          PROVE  e[n] = e[n - 1] \o Escaped(s[n])
      <3>1. n - 1 \in 0..m
        OBVIOUS
      <3>2. <<e[n - 1], n>> \in T \X (1..m)
        BY <1>4, <3>1 DEF LoopOf
      <3> QED
        BY <1>4, <3>2 DEF LoopOf
    <2>2. \A n \in 0..m : n = 0 \/ n \in 1..m
      OBVIOUS
    <2> QED
      BY <1>4, <2>1, <2>2 DEF LoopOf, EncodeRuns
  <1>6. Encode(s) = d[m] /\ EncodeRuns(d, s)
    BY <1>5 DEF Encode, EncodeRuns
  <1> HIDE DEF d
  <1>7. /\ d[0] = <<>>
        /\ \A n \in 1..m : d[n] = d[n - 1] \o Escaped(s[n])
    <2>1. \A n \in 1..m : n \in 0..m /\ n # 0
      OBVIOUS
    <2>2. 0 \in 0..m
      OBVIOUS
    <2> QED
      BY <1>6, <2>1, <2>2 DEF EncodeRuns
  <1>8. LoopOf(d, T, <<>>, m, step)
    <2>1. d = [n \in 0..m |-> d[n]]
      BY <1>6 DEF EncodeRuns
    <2>2. \A n \in 1..m : d[n - 1] \in T => d[n] = step[<<d[n - 1], n>>]
      BY <1>7
    <2> HIDE DEF T, step
    <2> QED
      BY <1>1, <1>3, <1>7, <2>1, <2>2, LoopTyped
  <1> QED
    BY <1>6, <1>7, <1>8 DEF LoopOf, Encodes

\* What Decode has put out after n bytes, and whether an escape sequence
\* has begun.
DecodeRuns(a, x) ==
    a = [n \in 0..Len(x) |->
            IF n = 0 THEN [out |-> <<>>, escape |-> FALSE]
            ELSE Unescape(a[n - 1], x[n])]

Decoding == [out : Seq(Int), escape : BOOLEAN]

Decodes(a, x, m) ==
    /\ a \in [0..m -> Decoding]
    /\ a[0] = [out |-> <<>>, escape |-> FALSE]
    /\ \A n \in 1..m : a[n] = Unescape(a[n - 1], x[n])

LEMMA UnescapeType ==
    ASSUME NEW a \in Decoding, NEW b \in Int
    PROVE  Unescape(a, b) \in Decoding
  <1>1. PICK q \in Seq(Int) : q = a.out
    BY DEF Decoding
  <1>2. Masked(b) \in Int
    BY DEF Masked
  <1>3. Append(q, Masked(b)) \in Seq(Int) /\ Append(q, b) \in Seq(Int)
    BY <1>2
  <1> QED
    BY <1>1, <1>3 DEF Decoding, Unescape

LEMMA DecodeLoop ==
    ASSUME NEW x \in Seq(Int), NEW m \in Nat, m = Len(x)
    PROVE  \E a : /\ Decodes(a, x, m)
                  /\ Decode(x) = IF a[m].escape
                                 THEN Append(a[m].out, ESCAPE_CHAR)
                                 ELSE a[m].out
  <1> DEFINE T == Decoding
             base == [out |-> <<>>, escape |-> FALSE]
             step == [p \in T \X (1..m) |-> Unescape(p[1], x[p[2]])]
             d == CHOOSE a : DecodeRuns(a, x)
  <1>1. base \in T
    BY EmptySeq DEF Decoding
  <1>2. \A n \in 1..m : x[n] \in Int
    OBVIOUS
  <1>3. step \in [T \X (1..m) -> T]
    <2>1. \A p \in T \X (1..m) : Unescape(p[1], x[p[2]]) \in T
      BY <1>2, UnescapeType
    <2> QED
      BY <2>1
  <1>4. PICK a : LoopOf(a, T, base, m, step)
    <2> HIDE DEF T, step, base
    <2> QED
      BY <1>1, <1>3, LoopExists
  <1>5. DecodeRuns(a, x)
    <2>1. ASSUME NEW n \in 1..m
          PROVE  a[n] = Unescape(a[n - 1], x[n])
      <3>1. n - 1 \in 0..m
        OBVIOUS
      <3>2. <<a[n - 1], n>> \in T \X (1..m)
        BY <1>4, <3>1 DEF LoopOf
      <3> QED
        BY <1>4, <3>2 DEF LoopOf
    <2>2. \A n \in 0..m : n = 0 \/ n \in 1..m
      OBVIOUS
    <2> QED
      BY <1>4, <2>1, <2>2 DEF LoopOf, DecodeRuns
  <1>6. DecodeRuns(d, x)
        /\ Decode(x) = IF d[m].escape THEN Append(d[m].out, ESCAPE_CHAR)
                       ELSE d[m].out
    <2>1. DecodeRuns(d, x)
      BY <1>5
    <2>2. Decode(x) = IF d[Len(x)].escape
                      THEN Append(d[Len(x)].out, ESCAPE_CHAR)
                      ELSE d[Len(x)].out
      BY DEF Decode, DecodeRuns
    <2> QED
      BY <2>1, <2>2
  <1> HIDE DEF d
  <1>7. /\ d[0] = base
        /\ \A n \in 1..m : d[n] = Unescape(d[n - 1], x[n])
    <2>1. \A n \in 1..m : n \in 0..m /\ n # 0
      OBVIOUS
    <2>2. 0 \in 0..m
      OBVIOUS
    <2> QED
      BY <1>6, <2>1, <2>2 DEF DecodeRuns
  <1>8. LoopOf(d, T, base, m, step)
    <2>1. d = [n \in 0..m |-> d[n]]
      BY <1>6 DEF DecodeRuns
    <2>2. \A n \in 1..m : d[n - 1] \in T => d[n] = step[<<d[n - 1], n>>]
      BY <1>7
    <2> HIDE DEF T, step, base
    <2> QED
      BY <1>1, <1>3, <1>7, <2>1, <2>2, LoopTyped
  <1> QED
    BY <1>6, <1>7, <1>8 DEF LoopOf, Decodes

\* The bytes of r that encoding b adds to those of a.
AddsByte(r, a, b) ==
    /\ r \in Seq(Int)
    /\ \A i \in 1..Len(a) : r[i] = a[i]
    /\ \/ /\ Len(r) = Len(a) + 2
          /\ r[Len(a) + 1] = ESCAPE_CHAR /\ r[Len(a) + 2] = Masked(b)
          /\ Masked(Masked(b)) = b
       \/ /\ Len(r) = Len(a) + 1
          /\ r[Len(a) + 1] = b /\ b # ESCAPE_CHAR

LEMMA EncodeByte ==
    ASSUME NEW a \in Seq(Int), NEW b \in Int
    PROVE  AddsByte(a \o Escaped(b), a, b)
  <1>1. PICK l \in Nat : l = Len(a)
    BY LenProperties
  <1>2. PICK t \in Seq(Int) : t = Escaped(b)
    BY EscapedType
  <1>3. /\ a \o t \in Seq(Int) /\ Len(a \o t) = l + Len(t)
        /\ \A i \in 1..(l + Len(t)) :
              (a \o t)[i] = IF i <= l THEN a[i] ELSE t[i - l]
    BY <1>1, ConcatProperties
  <1>4. PICK r \in Seq(Int) : r = a \o t
    BY <1>3
  <1>5. ASSUME NEW j \in (l + 1)..(l + Len(t))
        PROVE  r[j] = t[j - l]
    <2>1. j \in 1..(l + Len(t)) /\ ~(j <= l)
      OBVIOUS
    <2> QED
      BY <1>3, <1>4, <2>1
  <1>6. CASE /\ t = <<ESCAPE_CHAR, Masked(b)>>
             /\ Masked(Masked(b)) = b
    <2>1. Len(t) = 2 /\ t[1] = ESCAPE_CHAR /\ t[2] = Masked(b)
      BY <1>6
    <2>2. Len(r) = l + 2 /\ \A i \in 1..l : r[i] = a[i]
      BY <1>3, <1>4, <2>1
    <2>3. r[l + 1] = t[1] /\ r[l + 2] = t[2]
      <3>1. /\ l + 1 \in (l + 1)..(l + 2) /\ l + 1 - l = 1
            /\ l + 2 \in (l + 1)..(l + 2) /\ l + 2 - l = 2
        OBVIOUS
      <3>2. r[l + 1] = t[l + 1 - l] /\ r[l + 2] = t[l + 2 - l]
        BY <1>5, <2>1, <3>1
      <3> QED
        BY <3>1, <3>2
    <2> QED
      BY <1>1, <1>2, <1>4, <1>6, <2>1, <2>2, <2>3 DEF AddsByte
  <1>7. CASE t = <<b>> /\ b # ESCAPE_CHAR
    <2>1. Len(t) = 1 /\ t[1] = b
      BY <1>7
    <2>2. Len(r) = l + 1 /\ \A i \in 1..l : r[i] = a[i]
      BY <1>3, <1>4, <2>1
    <2>3. r[l + 1] = t[1]
      <3>1. l + 1 \in (l + 1)..(l + 1) /\ l + 1 - l = 1
        OBVIOUS
      <3>2. r[l + 1] = t[l + 1 - l]
        BY <1>5, <2>1, <3>1
      <3> QED
        BY <3>1, <3>2
    <2> QED
      BY <1>1, <1>2, <1>4, <1>7, <2>1, <2>2, <2>3 DEF AddsByte
  <1> QED
    BY <1>2, <1>6, <1>7, EscapedByte

\* The output of an earlier round is the beginning of the last one's.
Grows(e, m) ==
    \A n \in 0..m : /\ Len(e[n]) <= Len(e[m])
                    /\ \A i \in 1..Len(e[n]) : e[m][i] = e[n][i]

Longer(r, a) == Len(a) <= Len(r) /\ \A i \in 1..Len(a) : r[i] = a[i]

LEMMA RoundsGrow ==
    ASSUME NEW m \in Nat, NEW e, \A n \in 0..m : Len(e[n]) \in Nat,
           \A n \in 1..m : Longer(e[n], e[n - 1])
    PROVE  Grows(e, m)
  <1>1. \A n \in 0..m : Len(e[n]) \in Nat
    OBVIOUS
  <1>2. \A n \in 1..m : n - 1 \in 0..m /\ n \in 0..m
    OBVIOUS
  <1> DEFINE H == {n \in 0..m : Longer(e[m], e[n])}
  <1>3. m \in H
    BY <1>1 DEF Longer
  <1>4. ASSUME NEW n \in 1..m, n \in H
        PROVE  n - 1 \in H
    <2>1. PICK k \in Nat : k = Len(e[n - 1])
      BY <1>1, <1>2
    <2>2. PICK l \in Nat : l = Len(e[n])
      BY <1>1, <1>2
    <2>3. k <= l /\ \A i \in 1..k : e[n][i] = e[n - 1][i]
      BY <2>1, <2>2 DEF Longer
    <2>4. l <= Len(e[m]) /\ \A i \in 1..l : e[m][i] = e[n][i]
      BY <1>4, <2>2 DEF Longer
    <2>5. \A i \in 1..k : i \in 1..l
      BY <2>3
    <2>6. Len(e[m]) \in Nat
      BY <1>1
    <2>7. k <= Len(e[m]) /\ \A i \in 1..k : e[m][i] = e[n - 1][i]
      BY <2>3, <2>4, <2>5, <2>6
    <2> QED
      BY <1>2, <2>1, <2>7 DEF Longer
  <1>5. \A n \in 0..m : n \in H
    <2> HIDE DEF H
    <2> QED
      BY <1>3, <1>4, RoundsDown
  <1> QED
    BY <1>5 DEF Grows, Longer

LEMMA EncodeRounds ==
    ASSUME NEW s \in Seq(Int), NEW m \in Nat, m = Len(s), NEW e, Encodes(e, s, m)
    PROVE  /\ \A n \in 1..m : e[n - 1] \in Seq(Int) /\ s[n] \in Int
                              /\ AddsByte(e[n], e[n - 1], s[n])
           /\ \A n \in 0..m : e[n] \in Seq(Int) /\ Len(e[n]) \in n..(2 * n)
           /\ Grows(e, m)
  <1>1. \A n \in 0..m : e[n] \in Seq(Int) /\ Len(e[n]) \in Nat
    BY LenProperties DEF Encodes
  <1>2. \A n \in 1..m : n - 1 \in 0..m /\ n \in 0..m
    OBVIOUS
  <1>3. ASSUME NEW n \in 1..m
        PROVE  e[n - 1] \in Seq(Int) /\ s[n] \in Int /\ AddsByte(e[n], e[n - 1], s[n])
    <2>1. PICK a \in Seq(Int) : a = e[n - 1]
      BY <1>1, <1>2
    <2>2. PICK b \in Int : b = s[n]
      OBVIOUS
    <2>3. AddsByte(a \o Escaped(b), a, b)
      BY EncodeByte
    <2>4. e[n] = a \o Escaped(b)
      BY <2>1, <2>2 DEF Encodes
    <2> QED
      BY <2>1, <2>2, <2>3, <2>4
  <1> DEFINE G == {n \in 0..m : Len(e[n]) \in n..(2 * n)}
  <1>4. 0 \in G
    BY EmptySeq DEF Encodes
  <1>5. ASSUME NEW n \in 1..m, n - 1 \in G
        PROVE  n \in G
    <2>1. PICK k \in Nat : k = Len(e[n - 1])
      BY <1>1, <1>2
    <2>2. k \in (n - 1)..(2 * (n - 1))
      BY <1>5, <2>1
    <2>3. Len(e[n]) \in {k + 1, k + 2}
      BY <1>3, <2>1 DEF AddsByte
    <2>4. k + 1 \in n..(2 * n) /\ k + 2 \in n..(2 * n)
      BY <2>2
    <2> QED
      BY <1>2, <2>3, <2>4
  <1>6. \A n \in 0..m : n \in G
    <2> HIDE DEF G
    <2> QED
      BY <1>4, <1>5, Rounds
  <1>7. ASSUME NEW n \in 1..m
        PROVE  Longer(e[n], e[n - 1])
    <2>1. PICK k \in Nat : k = Len(e[n - 1])
      BY <1>1, <1>2
    <2>2. AddsByte(e[n], e[n - 1], s[n])
      BY <1>3
    <2>3. Len(e[n]) = k + 2 \/ Len(e[n]) = k + 1
      BY <2>1, <2>2 DEF AddsByte
    <2>4. k <= Len(e[n]) /\ \A i \in 1..k : e[n][i] = e[n - 1][i]
      BY <2>1, <2>2, <2>3 DEF AddsByte
    <2> QED
      BY <2>1, <2>4 DEF Longer
  <1>8. Grows(e, m)
    BY <1>1, <1>7, RoundsGrow
  <1> QED
    BY <1>1, <1>3, <1>6, <1>8

\* The first n bytes are decoded, and no escape sequence has begun.
HasDecoded(acc, s, n) ==
    /\ acc.escape = FALSE /\ Len(acc.out) = n
    /\ \A k \in 1..n : acc.out[k] = s[k]

LEMMA OneMore ==
    ASSUME NEW s, NEW n \in Nat \ {0}, NEW acc \in Decoding, NEW b \in Int,
           b = s[n], HasDecoded(acc, s, n - 1)
    PROVE  HasDecoded([out |-> Append(acc.out, b), escape |-> FALSE], s, n)
  <1>1. PICK q \in Seq(Int) : q = acc.out
    BY DEF Decoding
  <1>2. PICK k \in Nat : k = n - 1
    OBVIOUS
  <1>3. Len(q) = k /\ \A i \in 1..k : q[i] = s[i]
    BY <1>1, <1>2 DEF HasDecoded
  <1>4. PICK r \in Seq(Int) : r = Append(q, b)
    <2>1. Append(q, b) \in Seq(Int)
      OBVIOUS
    <2> QED
      BY <2>1
  <1>5. Len(r) = k + 1 /\ r[k + 1] = b /\ \A i \in 1..k : r[i] = q[i]
    BY <1>3, <1>4
  <1>6. k + 1 = n /\ \A i \in 1..n : i \in 1..k \/ i = n
    BY <1>2
  <1>7. Len(r) = n /\ \A i \in 1..n : r[i] = s[i]
    BY <1>3, <1>5, <1>6
  <1> QED
    BY <1>1, <1>4, <1>7 DEF HasDecoded

\* Decoding undoes encoding, byte by byte.
LEMMA DecodeEncoded ==
    ASSUME NEW s \in Seq(Int), NEW m \in Nat, m = Len(s),
           NEW e, Encodes(e, s, m),
           NEW x \in Seq(Int), NEW w \in Nat, w = Len(x),
           Len(e[m]) <= w, \A i \in 1..Len(e[m]) : x[i] = e[m][i],
           NEW a, Decodes(a, x, w)
    PROVE  HasDecoded(a[Len(e[m])], s, m)
  <1> DEFINE G == {n \in 0..m : HasDecoded(a[Len(e[n])], s, n)}
  <1>0. Grows(e, m)
    BY EncodeRounds
  <1>1. PICK z \in Nat : z = Len(e[m])
    <2>1. m \in 0..m
      OBVIOUS
    <2> QED
      BY <2>1, EncodeRounds
  <1>2. z <= w /\ \A i \in 1..z : x[i] = e[m][i]
    BY <1>1
  <1>3. 0 \in G
    <2>1. Len(e[0]) = 0
      BY EmptySeq DEF Encodes
    <2>2. HasDecoded([out |-> <<>>, escape |-> FALSE], s, 0)
      BY EmptySeq DEF HasDecoded
    <2>3. a[Len(e[0])] = [out |-> <<>>, escape |-> FALSE]
      BY <2>1 DEF Decodes
    <2>4. 0 \in 0..m
      OBVIOUS
    <2> QED
      BY <2>2, <2>3, <2>4
  <1>4. ASSUME NEW n \in 1..m, n - 1 \in G
        PROVE  n \in G
    <2>1. n - 1 \in 0..m /\ n \in 0..m /\ n \in Nat \ {0}
      OBVIOUS
    <2>2. PICK l \in Nat : l = Len(e[n - 1])
      BY <2>1, LenProperties DEF Encodes
    <2>3. PICK h \in Nat : h = Len(e[n])
      BY <2>1, LenProperties DEF Encodes
    <2>4. h <= z /\ \A i \in 1..h : e[m][i] = e[n][i]
      <3>1. /\ Len(e[n]) <= Len(e[m])
            /\ \A i \in 1..Len(e[n]) : e[m][i] = e[n][i]
        BY <1>0, <2>1 DEF Grows
      <3> QED
        BY <1>1, <2>3, <3>1
    <2>5. \A i \in 1..h : i \in 1..z /\ i \in 1..w /\ i - 1 \in 0..w /\ i \in 0..w
      BY <1>2, <2>4
    <2>6. \A i \in 1..h : x[i] = e[n][i]
      BY <1>2, <2>4, <2>5
    <2>7. PICK b \in Int : b = s[n]
      BY <2>1
    <2>8. AddsByte(e[n], e[n - 1], b)
      BY <2>7, EncodeRounds
    <2>9. HasDecoded(a[l], s, n - 1)
      BY <1>4, <2>2
    <2>10. \A i \in 0..w : a[i] \in Decoding
      BY DEF Decodes
    <2>11. \A i \in 1..h : a[i] = Unescape(a[i - 1], e[n][i])
      BY <2>5, <2>6 DEF Decodes
    <2>12. CASE /\ h = l + 2
                /\ e[n][l + 1] = ESCAPE_CHAR /\ e[n][l + 2] = Masked(b)
                /\ Masked(Masked(b)) = b
      <3>1. /\ l + 1 \in 1..h /\ l + 2 \in 1..h
            /\ l + 1 - 1 = l /\ l + 2 - 1 = l + 1
        BY <2>12
      <3>2. PICK p \in Decoding : p = a[l]
        BY <2>5, <2>10, <3>1
      <3>3. PICK r \in Decoding : r = a[l + 1]
        BY <2>5, <2>10, <3>1
      <3>4. r = Unescape(p, ESCAPE_CHAR)
        BY SMTT(30), <2>11, <2>12, <3>1, <3>2, <3>3
      <3>5. r.out = p.out /\ r.escape = TRUE
        BY <2>9, <3>2, <3>4 DEF HasDecoded, Unescape
      <3>6. a[h] = Unescape(r, Masked(b))
        BY SMTT(30), <2>11, <2>12, <3>1, <3>3
      <3>7. a[h] = [out |-> Append(p.out, b), escape |-> FALSE]
        BY <2>12, <3>5, <3>6 DEF Unescape
      <3>8. HasDecoded(a[h], s, n)
        BY <2>1, <2>7, <2>9, <3>2, <3>7, OneMore
      <3> QED
        BY <2>1, <2>3, <3>8
    <2>13. CASE h = l + 1 /\ e[n][l + 1] = b /\ b # ESCAPE_CHAR
      <3>1. l + 1 \in 1..h /\ l + 1 - 1 = l
        BY <2>13
      <3>2. PICK p \in Decoding : p = a[l]
        BY <2>5, <2>10, <3>1
      <3>3. a[h] = Unescape(p, b)
        BY <2>11, <2>13, <3>1, <3>2
      <3>4. a[h] = [out |-> Append(p.out, b), escape |-> FALSE]
        BY <2>9, <2>13, <3>2, <3>3 DEF Unescape, HasDecoded
      <3>5. HasDecoded(a[h], s, n)
        BY <2>1, <2>7, <2>9, <3>2, <3>4, OneMore
      <3> QED
        BY <2>1, <2>3, <3>5
    <2> QED
      BY <2>2, <2>3, <2>8, <2>12, <2>13 DEF AddsByte
  <1>5. \A n \in 0..m : n \in G
    <2> HIDE DEF G
    <2> QED
      BY <1>3, <1>4, Rounds
  <1>6. m \in 0..m
    OBVIOUS
  <1> QED
    BY <1>5, <1>6

\* Whatever follows adds to what has been decoded.
StartsWith(q, s, n) ==
    q \in Seq(Int) /\ Len(q) >= n /\ \A k \in 1..n : q[k] = s[k]

LEMMA AppendStarts ==
    ASSUME NEW s, NEW n \in Nat, NEW q, StartsWith(q, s, n), NEW b \in Int
    PROVE  StartsWith(Append(q, b), s, n)
  <1>1. PICK r \in Seq(Int) : r = Append(q, b)
    <2>1. PICK p \in Seq(Int) : p = q
      BY DEF StartsWith
    <2>2. Append(p, b) \in Seq(Int)
      OBVIOUS
    <2> QED
      BY <2>1, <2>2
  <1>2. PICK l \in Nat : l = Len(q)
    BY LenProperties DEF StartsWith
  <1>3. Len(r) = l + 1 /\ \A i \in 1..l : r[i] = q[i]
    BY <1>1, <1>2 DEF StartsWith
  <1>4. l >= n /\ \A k \in 1..n : q[k] = s[k]
    BY <1>2 DEF StartsWith
  <1>5. \A k \in 1..n : k \in 1..l
    BY <1>4
  <1>6. l + 1 >= n /\ \A k \in 1..n : r[k] = s[k]
    BY <1>3, <1>4, <1>5
  <1> QED
    BY <1>1, <1>3, <1>6 DEF StartsWith

LEMMA DecodeMore ==
    ASSUME NEW s, NEW n \in Nat, NEW x \in Seq(Int), NEW w \in Nat, w = Len(x),
           NEW a, Decodes(a, x, w), NEW z \in 0..w,
           StartsWith(a[z].out, s, n)
    PROVE  StartsWith(a[w].out, s, n)
  <1> DEFINE G == {k \in 0..(w - z) : StartsWith(a[z + k].out, s, n)}
  <1>1. 0 \in G
    BY SMT
  <1>2. ASSUME NEW k \in 1..(w - z), k - 1 \in G
        PROVE  k \in G
    <2>1. PICK i \in Nat : i = z + k
      OBVIOUS
    <2>2. /\ i \in 1..w /\ i - 1 \in 0..w /\ z + (k - 1) = i - 1
          /\ k \in 0..(w - z)
      BY <2>1
    <2>3. StartsWith(a[i - 1].out, s, n)
      BY <1>2, <2>2
    <2>4. PICK p \in Decoding : p = a[i - 1]
      BY <2>2 DEF Decodes
    <2>5. PICK b \in Int : b = x[i]
      BY <2>2
    <2>6. a[i] = Unescape(p, b)
      BY <2>2, <2>4, <2>5 DEF Decodes
    <2>7. Masked(b) \in Int
      BY DEF Masked
    <2>8. PICK q : q = p.out
      OBVIOUS
    <2>9. /\ StartsWith(q, s, n) /\ StartsWith(Append(q, b), s, n)
          /\ StartsWith(Append(q, Masked(b)), s, n)
      BY <2>3, <2>4, <2>7, <2>8, AppendStarts
    <2>10. a[i].out \in {q, Append(q, b), Append(q, Masked(b))}
      BY <2>6, <2>8 DEF Unescape
    <2>11. StartsWith(a[i].out, s, n)
      BY <2>9, <2>10
    <2> QED
      BY <2>1, <2>2, <2>11
  <1>3. w - z \in Nat
    OBVIOUS
  <1>4. \A k \in 0..(w - z) : k \in G
    <2> HIDE DEF G
    <2> QED
      BY <1>1, <1>2, <1>3, Rounds
  <1>5. w - z \in 0..(w - z) /\ z + (w - z) = w
    BY <1>3
  <1> QED
    BY <1>4, <1>5

\* The bytes of two sequences, one after the other.
LEMMA Joined ==
    ASSUME NEW S, NEW a \in Seq(S), NEW b \in Seq(S),
           NEW k \in Nat, k = Len(a), NEW l \in Nat, l = Len(b)
    PROVE  /\ a \o b \in Seq(S) /\ Len(a \o b) = k + l
           /\ \A i \in 1..k : (a \o b)[i] = a[i]
           /\ \A i \in 1..l : (a \o b)[k + i] = b[i]
  <1>1. /\ a \o b \in Seq(S) /\ Len(a \o b) = k + l
        /\ \A i \in 1..(k + l) :
              (a \o b)[i] = IF i <= k THEN a[i] ELSE b[i - k]
    BY ConcatProperties
  <1>2. \A i \in 1..k : i \in 1..(k + l) /\ i <= k
    OBVIOUS
  <1>3. \A i \in 1..l : /\ k + i \in 1..(k + l) /\ ~(k + i <= k)
                        /\ k + i - k = i
    OBVIOUS
  <1>4. PICK r : r = a \o b
    OBVIOUS
  <1>5. \A i \in 1..k : r[i] = a[i]
    BY <1>1, <1>2, <1>4
  <1>6. ASSUME NEW i \in 1..l
        PROVE  r[k + i] = b[i]
    <2>1. r[k + i] = b[k + i - k]
      BY <1>1, <1>3, <1>4
    <2> QED
      BY <1>3, <2>1
  <1> QED
    BY <1>1, <1>4, <1>5, <1>6

\* r is a, of length k, and then b, of length l.
Follow(r, a, b, k, l) ==
    /\ r \in Seq(Nat) /\ Len(r) = k + l
    /\ \A i \in 1..k : r[i] = a[i]
    /\ \A i \in 1..l : r[k + i] = b[i]

LEMMA NumbersJoined ==
    ASSUME NEW a, NEW b, NEW k, NEW l,
           a \in Seq(Nat) /\ b \in Seq(Nat) /\ k \in Nat /\ l \in Nat
           /\ k = Len(a) /\ l = Len(b)
    PROVE  Follow(a \o b, a, b, k, l)
  BY Joined, SMT DEF Follow

\* What transfer() returns is the response, and neither what follows it nor
\* a sequence that the window cuts makes a difference.
LEMMA TransferIs ==
    ASSUME NEW s \in Seq(Int), NEW f \in Int
    PROVE  Transfer(s, f) = s
  <1>1. PICK m \in Nat : m = Len(s)
    BY LenProperties
  <1>2. PICK e : Encodes(e, s, m) /\ Encode(s) = e[m]
    BY <1>1, EncodeLoop
  <1>3. m \in 0..m
    BY <1>1
  <1>4. PICK c \in Seq(Int) : c = Encode(s)
    BY <1>2, <1>3 DEF Encodes
  <1>5. PICK z \in Nat : z = Len(c)
    BY LenProperties
  <1>6. z \in m..(2 * m)
    <2>1. \A n \in 0..m : e[n] \in Seq(Int) /\ Len(e[n]) \in n..(2 * n)
      BY <1>1, <1>2, EncodeRounds
    <2> QED
      BY <1>2, <1>3, <1>4, <1>5, <2>1
  <1>7. PICK w \in Nat : w = 2 * m
    BY <1>1
  <1>8. PICK fill \in Seq(Int) :
            fill = [i \in 1..Window(Len(s)) |-> f] /\ Len(fill) = w
    <2>1. Window(Len(s)) = w
      BY <1>1, <1>7 DEF Window
    <2>2. [i \in 1..w |-> f] \in Seq(Int) /\ Len([i \in 1..w |-> f]) = w
      OBVIOUS
    <2> QED
      BY <2>1, <2>2
  <1>9. PICK sent \in Seq(Int) :
            /\ sent = c \o fill /\ Len(sent) = z + w
            /\ \A i \in 1..z : sent[i] = c[i]
    <2>1. /\ c \o fill \in Seq(Int) /\ Len(c \o fill) = z + w
          /\ \A i \in 1..z : (c \o fill)[i] = c[i]
      <3>1. /\ c \in Seq(Int) /\ fill \in Seq(Int) /\ z \in Nat /\ w \in Nat
            /\ z = Len(c) /\ w = Len(fill)
        BY <1>4, <1>5, <1>7, <1>8
      <3> QED
        BY <3>1, Joined
    <2> QED
      BY <2>1
  <1>10. PICK x \in Seq(Int) :
            /\ x = SubSeq(sent, 1, Window(Len(s))) /\ Len(x) = w
            /\ \A i \in 1..w : x[i] = sent[i]
    <2>1. Window(Len(s)) = w
      BY <1>1, <1>7 DEF Window
    <2>2. \A i \in 1..w : sent[i] \in Int
      BY <1>5, <1>7, <1>9
    <2>3. /\ SubSeq(sent, 1, w) \in Seq(Int)
          /\ Len(SubSeq(sent, 1, w)) = IF 1 <= w THEN w - 1 + 1 ELSE 0
          /\ \A i \in 1..(w - 1 + 1) : SubSeq(sent, 1, w)[i] = sent[1 + i - 1]
      BY <1>7, <2>2, SubSeqProperties
    <2>4. Len(SubSeq(sent, 1, w)) = w
      BY <1>7, <2>3
    <2>5. \A i \in 1..w : i \in 1..(w - 1 + 1) /\ 1 + i - 1 = i
      BY <1>7
    <2>6. \A i \in 1..w : SubSeq(sent, 1, w)[i] = sent[i]
      BY <2>3, <2>5
    <2> QED
      BY <2>1, <2>3, <2>4, <2>6
  <1>11. PICK a : /\ Decodes(a, x, w)
                  /\ Decode(x) = IF a[w].escape
                                 THEN Append(a[w].out, ESCAPE_CHAR)
                                 ELSE a[w].out
    BY <1>7, <1>10, DecodeLoop
  <1>12. \A i \in 1..Len(e[m]) : x[i] = e[m][i]
    <2>1. \A i \in 1..z : i \in 1..w
      BY <1>5, <1>6, <1>7
    <2> QED
      BY <1>2, <1>4, <1>5, <1>9, <1>10, <2>1
  <1>13. HasDecoded(a[z], s, m)
    <2>1. Len(e[m]) = z /\ Len(e[m]) <= w
      BY <1>2, <1>4, <1>5, <1>6, <1>7
    <2>2. HasDecoded(a[Len(e[m])], s, m)
      BY <1>1, <1>2, <1>7, <1>10, <1>11, <1>12, <2>1, DecodeEncoded
    <2> QED
      BY <2>1, <2>2
  <1>14. StartsWith(a[z].out, s, m)
    <2>1. z \in 0..w
      BY <1>5, <1>6, <1>7
    <2>2. a[z].out \in Seq(Int)
      BY <1>11, <2>1 DEF Decodes, Decoding
    <2> QED
      BY <1>1, <1>13, <2>2 DEF HasDecoded, StartsWith
  <1>15. StartsWith(a[w].out, s, m)
    <2>1. z \in 0..w
      BY <1>5, <1>6, <1>7
    <2> QED
      BY <1>1, <1>7, <1>10, <1>11, <1>14, <2>1, DecodeMore
  <1>16. PICK q : q = Decode(x)
    OBVIOUS
  <1>17. StartsWith(q, s, m)
    <2>1. ESCAPE_CHAR \in Int
      BY DEF ESCAPE_CHAR
    <2>2. StartsWith(Append(a[w].out, ESCAPE_CHAR), s, m)
      BY <1>1, <1>15, <2>1, AppendStarts
    <2> QED
      BY <1>11, <1>15, <1>16, <2>2
  <1>18. PICK l \in Nat : l = Len(q)
    BY <1>17, LenProperties DEF StartsWith
  <1>19. Transfer(s, f) = SubSeq(q, 1, m)
    <2>1. Transfer(s, f) = SubSeq(q, 1, IF Len(q) > Len(s) THEN Len(s) ELSE Len(q))
      BY <1>4, <1>8, <1>9, <1>10, <1>16 DEF Transfer
    <2>2. (IF Len(q) > Len(s) THEN Len(s) ELSE Len(q)) = m
      BY <1>1, <1>17, <1>18 DEF StartsWith
    <2> QED
      BY <2>1, <2>2
  <1>20. \A i \in 1..m : q[i] = s[i] /\ s[i] \in Int
    BY <1>1, <1>17 DEF StartsWith
  <1>21. /\ SubSeq(q, 1, m) \in Seq(Int)
         /\ Len(SubSeq(q, 1, m)) = m
         /\ \A i \in 1..m : SubSeq(q, 1, m)[i] = s[i]
    <2>1. \A i \in 1..m : q[i] \in Int
      BY <1>20
    <2>2. /\ SubSeq(q, 1, m) \in Seq(Int)
          /\ Len(SubSeq(q, 1, m)) = IF 1 <= m THEN m - 1 + 1 ELSE 0
          /\ \A i \in 1..(m - 1 + 1) : SubSeq(q, 1, m)[i] = q[1 + i - 1]
      BY <1>1, <2>1, SubSeqProperties
    <2>3. Len(SubSeq(q, 1, m)) = m
      BY <1>1, <2>2
    <2>4. \A i \in 1..m : i \in 1..(m - 1 + 1) /\ 1 + i - 1 = i
      BY <1>1
    <2> QED
      BY <1>20, <2>2, <2>3, <2>4
  <1>22. SubSeq(q, 1, m) = s
    <2>1. PICK r \in Seq(Int) : r = SubSeq(q, 1, m)
      BY <1>21
    <2> QED
      BY <1>1, <1>21, <2>1, SeqEqual
  <1> QED
    BY <1>19, <1>22

-----------------------------------------------------------------------------
(* Transactions.                                                           *)

Byte == 0..255

LEMMA ThreeBytes ==
    ASSUME NEW a \in Byte, NEW b \in Byte, NEW c \in Byte
    PROVE  LET n == 65536 * a + 256 * b + c
           IN  /\ n \div 65536 = a /\ (n \div 256) % 256 = b /\ n % 256 = c
               /\ n = 16777215 <=> a = 255 /\ b = 255 /\ c = 255
  <1>1. PICK n \in Nat : n = 65536 * a + 256 * b + c
    BY SMT DEF Byte
  <1>2. n \div 65536 = a
    BY <1>1, SMTT(30) DEF Byte
  <1>3. n \div 256 = 256 * a + b
    BY <1>1, SMTT(30) DEF Byte
  <1>4. (256 * a + b) % 256 = b
    BY SMTT(30) DEF Byte
  <1>5. n % 256 = c
    BY <1>1, SMTT(30) DEF Byte
  <1>6. n = 16777215 <=> a = 255 /\ b = 255 /\ c = 255
    BY <1>1, SMTT(30) DEF Byte
  <1> QED
    BY <1>1, <1>2, <1>3, <1>4, <1>5, <1>6, SMT

LEMMA TwoBytes ==
    ASSUME NEW a \in Byte, NEW b \in Byte
    PROVE  LET n == 256 * a + b
           IN  /\ n \div 256 = a /\ n % 256 = b
               /\ n = 65535 <=> a = 255 /\ b = 255
  <1>1. PICK n \in Nat : n = 256 * a + b
    BY SMT DEF Byte
  <1> QED
    BY <1>1, SMTT(30) DEF Byte

LEMMA EightBytes ==
    ASSUME NEW d \in Seq(Byte), Len(d) = 8
    PROVE  /\ ToBytes(FromBytes(d)) = d
           /\ IsDummy(FromBytes(d)) <=> d = [i \in 1..8 |-> 255]
  <1>1. \A i \in 1..8 : d[i] \in Byte
    BY ElementOfSeq
  <1>2. /\ d[1] \in Byte /\ d[2] \in Byte /\ d[3] \in Byte /\ d[4] \in Byte
        /\ d[5] \in Byte /\ d[6] \in Byte /\ d[7] \in Byte /\ d[8] \in Byte
    BY <1>1
  <1>3. d = <<d[1], d[2], d[3], d[4], d[5], d[6], d[7], d[8]>>
    OBVIOUS
  <1>4. d = [i \in 1..8 |-> d[i]]
    OBVIOUS
  <1>5. PICK t : t = FromBytes(d)
    OBVIOUS
  <1>6. /\ t.address = 65536 * d[1] + 256 * d[2] + d[3]
        /\ t.count = 65536 * d[4] + 256 * d[5] + d[6]
        /\ t.timestamp = 256 * d[7] + d[8]
        /\ t = [address |-> t.address, count |-> t.count,
                timestamp |-> t.timestamp]
    BY <1>5, SMT DEF FromBytes
  <1>7. /\ t.address \div 65536 = d[1] /\ (t.address \div 256) % 256 = d[2]
        /\ t.address % 256 = d[3]
        /\ t.address = 16777215 <=> d[1] = 255 /\ d[2] = 255 /\ d[3] = 255
    BY <1>2, <1>6, ThreeBytes, SMT
  <1>8. /\ t.count \div 65536 = d[4] /\ (t.count \div 256) % 256 = d[5]
        /\ t.count % 256 = d[6]
        /\ t.count = 16777215 <=> d[4] = 255 /\ d[5] = 255 /\ d[6] = 255
    BY <1>2, <1>6, ThreeBytes, SMT
  <1>9. /\ t.timestamp \div 256 = d[7] /\ t.timestamp % 256 = d[8]
        /\ t.timestamp = 65535 <=> d[7] = 255 /\ d[8] = 255
    BY <1>2, <1>6, TwoBytes, SMT
  <1>10. ToBytes(t) = d
    BY <1>3, <1>7, <1>8, <1>9, SMT DEF ToBytes
  <1>11. IsDummy(t) <=> /\ t.address = 16777215 /\ t.count = 16777215
                        /\ t.timestamp = 65535
    BY <1>6, SMT DEF IsDummy
  <1>12. d = [i \in 1..8 |-> 255] <=> \A i \in 1..8 : d[i] = 255
    BY <1>4
  <1>13. (\A i \in 1..8 : d[i] = 255)
           <=> /\ d[1] = 255 /\ d[2] = 255 /\ d[3] = 255 /\ d[4] = 255
               /\ d[5] = 255 /\ d[6] = 255 /\ d[7] = 255 /\ d[8] = 255
    BY SMT
  <1>14. IsDummy(t) <=> d = [i \in 1..8 |-> 255]
    BY <1>7, <1>8, <1>9, <1>11, <1>12, <1>13, SMT
  <1> QED
    BY <1>5, <1>10, <1>14

LEMMA BytesAssumption ==
    AnyBytes \subseteq Byte /\ Fillers \subseteq Byte
  <1>1. AnyBytes \cup Fillers \subseteq 0..255
    BY CodecsAssumption, SMT
  <1> QED
    BY <1>1 DEF Byte

LEMMA AnyBytesSeq ==
    ASSUME NEW s \in Seq(AnyBytes)
    PROVE  s \in Seq(Byte) /\ s \in Seq(Int)
  <1>1. Byte \subseteq Int
    BY DEF Byte
  <1>2. s \in Seq(Byte)
    BY BytesAssumption, SeqMonotonic
  <1>3. s \in Seq(Int)
    BY <1>1, <1>2, SeqMonotonic
  <1> QED
    BY <1>2, <1>3

LEMMA TypedTransfer == TypeOK => TransferExact
  <1> SUFFICES ASSUME TypeOK PROVE TransferExact
    OBVIOUS
  <1>1. PICK s \in Seq(AnyBytes) : s = response
    BY DEF TypeOK
  <1>2. s \in Seq(Byte) /\ s \in Seq(Int)
    BY <1>1, AnyBytesSeq
  <1>3. \A f \in Fillers : f \in Int
    BY BytesAssumption DEF Byte
  <1>4. \A f \in Fillers : Transfer(s, f) = s
    BY <1>2, <1>3, TransferIs
  <1>5. ASSUME Len(s) = 8, NEW f \in Fillers
        PROVE  {ToBytes(t) : t \in ReadTransaction(Transfer(s, f))}
                   = {s} \ {[i \in 1..8 |-> 255]}
    <2>1. PICK dummy : dummy = [i \in 1..8 |-> 255]
      OBVIOUS
    <2>2. /\ ToBytes(FromBytes(s)) = s
          /\ IsDummy(FromBytes(s)) <=> s = dummy
      BY <1>2, <1>5, <2>1, EightBytes
    <2>3. ReadTransaction(s) = IF s = dummy THEN {} ELSE {FromBytes(s)}
      BY <1>5, <2>2 DEF ReadTransaction
    <2>4. Transfer(s, f) = s
      BY <1>4
    <2>5. {ToBytes(t) : t \in ReadTransaction(s)} = {s} \ {dummy}
      BY <2>2, <2>3
    <2> QED
      BY <2>1, <2>4, <2>5
  <1> QED
    BY <1>1, <1>4, <1>5 DEF TransferExact, TransactionExact

-----------------------------------------------------------------------------
(* The address coder.  Remainders with respect to powers of two.           *)

LEMMA DivMod ==
    ASSUME NEW p \in Nat \ {0}, NEW x \in Int
    PROVE  x = p * (x \div p) + (x % p) /\ x \div p \in Int /\ x % p \in 0..(p - 1)
  BY SMTT(30)

LEMMA Quotient ==
    ASSUME NEW p \in Nat \ {0}, NEW q \in Int, NEW r \in 0..(p - 1)
    PROVE  (p * q + r) \div p = q /\ (p * q + r) % p = r
  <1>1. (p * q + r) \div p = q
    BY SMTT(30)
  <1>2. (p * q + r) % p = r
    BY SMTT(30)
  <1> QED
    BY <1>1, <1>2, SMT

\* Each coefficient is an odd multiple of its power of two.
PowerAt(n) ==
    /\ 2^(n - 1) \in Nat \ {0} /\ 2^n = 2 * 2^(n - 1)
    /\ Modulus % 2^n = 0
    /\ Coeffs[n] \in Int /\ Coeffs[n] % 2^n = 2^(n - 1)

LEMMA PowersOfTwo ==
    ASSUME NEW n \in 1..24
    PROVE  PowerAt(n)
  <1>1. CASE n = 1
    BY <1>1, SMT DEF PowerAt, Modulus, Coeffs
  <1>2. CASE n = 2
    BY <1>2, SMT DEF PowerAt, Modulus, Coeffs
  <1>3. CASE n = 3
    BY <1>3, SMT DEF PowerAt, Modulus, Coeffs
  <1>4. CASE n = 4
    BY <1>4, SMT DEF PowerAt, Modulus, Coeffs
  <1>5. CASE n = 5
    BY <1>5, SMT DEF PowerAt, Modulus, Coeffs
  <1>6. CASE n = 6
    BY <1>6, SMT DEF PowerAt, Modulus, Coeffs
  <1>7. CASE n = 7
    BY <1>7, SMT DEF PowerAt, Modulus, Coeffs
  <1>8. CASE n = 8
    BY <1>8, SMT DEF PowerAt, Modulus, Coeffs
  <1>9. CASE n = 9
    BY <1>9, SMT DEF PowerAt, Modulus, Coeffs
  <1>10. CASE n = 10
    BY <1>10, SMT DEF PowerAt, Modulus, Coeffs
  <1>11. CASE n = 11
    BY <1>11, SMT DEF PowerAt, Modulus, Coeffs
  <1>12. CASE n = 12
    BY <1>12, SMT DEF PowerAt, Modulus, Coeffs
  <1>13. CASE n = 13
    BY <1>13, SMT DEF PowerAt, Modulus, Coeffs
  <1>14. CASE n = 14
    BY <1>14, SMT DEF PowerAt, Modulus, Coeffs
  <1>15. CASE n = 15
    BY <1>15, SMT DEF PowerAt, Modulus, Coeffs
  <1>16. CASE n = 16
    BY <1>16, SMT DEF PowerAt, Modulus, Coeffs
  <1>17. CASE n = 17
    BY <1>17, SMT DEF PowerAt, Modulus, Coeffs
  <1>18. CASE n = 18
    BY <1>18, SMT DEF PowerAt, Modulus, Coeffs
  <1>19. CASE n = 19
    BY <1>19, SMT DEF PowerAt, Modulus, Coeffs
  <1>20. CASE n = 20
    BY <1>20, SMT DEF PowerAt, Modulus, Coeffs
  <1>21. CASE n = 21
    BY <1>21, SMT DEF PowerAt, Modulus, Coeffs
  <1>22. CASE n = 22
    BY <1>22, SMT DEF PowerAt, Modulus, Coeffs
  <1>23. CASE n = 23
    BY <1>23, SMT DEF PowerAt, Modulus, Coeffs
  <1>24. CASE n = 24
    BY <1>24, SMT DEF PowerAt, Modulus, Coeffs
  <1> QED
    BY <1>1, <1>2, <1>3, <1>4, <1>5, <1>6, <1>7, <1>8, <1>9, <1>10, <1>11,
       <1>12, <1>13, <1>14, <1>15, <1>16, <1>17, <1>18, <1>19, <1>20,
       <1>21, <1>22, <1>23, <1>24, SMT

LEMMA Distributes ==
    ASSUME NEW a \in Int, NEW b \in Int, NEW c \in Int
    PROVE  /\ a * b \in Int
           /\ a * (b + c) = a * b + a * c /\ a * (b - c) = a * b - a * c
           /\ (a * b) * c = a * (b * c)
  BY SMT

LEMMA Halving ==
    ASSUME NEW p \in Nat \ {0}, NEW x \in Int
    PROVE  x % (2 * p) = (x % p) + (IF (x \div p) % 2 = 1 THEN p ELSE 0)
  <1>1. PICK q \in Int : q = x \div p
    BY DivMod
  <1>2. PICK r \in 0..(p - 1) : r = x % p
    BY DivMod
  <1>3. PICK u \in Int : q = 2 * u \/ q = 2 * u + 1
    <2>1. /\ q = 2 * (q \div 2) + (q % 2)
          /\ q \div 2 \in Int /\ q % 2 \in 0..1
      BY SMT
    <2> QED
      BY <2>1
  <1>4. x = p * q + r
    BY <1>1, <1>2, DivMod
  <1>5. 2 * p \in Nat \ {0} /\ r \in 0..(2 * p - 1) /\ p + r \in 0..(2 * p - 1)
    BY <1>2
  <1>6. CASE q = 2 * u
    <2>1. x = (2 * p) * u + r
      BY <1>2, <1>3, <1>4, <1>6, SMT
    <2>2. x % (2 * p) = r
      BY <1>3, <1>5, <2>1, Quotient
    <2>3. q % 2 = 0
      BY <1>3, <1>6
    <2> QED
      BY <1>1, <1>2, <2>2, <2>3
  <1>7. CASE q = 2 * u + 1
    <2>1. x = (2 * p) * u + (p + r)
      BY <1>2, <1>3, <1>4, <1>7, SMT
    <2>2. x % (2 * p) = p + r
      BY <1>3, <1>5, <2>1, Quotient
    <2>3. q % 2 = 1
      BY <1>3, <1>7
    <2> QED
      BY <1>1, <1>2, <2>2, <2>3
  <1> QED
    BY <1>3, <1>6, <1>7

LEMMA SameRemainder ==
    ASSUME NEW m \in Nat \ {0}, NEW q \in Int, NEW z \in Int
    PROVE  (m * q + z) % m = z % m
  <1>1. PICK v \in Int : v = z \div m
    BY DivMod
  <1>2. PICK w \in 0..(m - 1) : w = z % m
    BY DivMod
  <1>3. z = m * v + w
    BY <1>1, <1>2, DivMod
  <1>4. PICK s \in Int : s = q + v
    BY SMTT(30), <1>1
  <1>5. m * s = m * q + m * v /\ m * q \in Int /\ m * v \in Int
    BY <1>1, <1>4, Distributes
  <1>6. (m * s + w) % m = w
    BY <1>2, <1>4, Quotient
  <1>7. PICK a \in Int, b \in Int : a = m * q /\ b = m * v
    BY <1>5
  <1>8. w \in Int
    BY <1>2
  <1>9. m * q + z = m * s + w
    BY <1>3, <1>5, <1>7, <1>8
  <1> QED
    BY <1>2, <1>6, <1>9

LEMMA ModModulus ==
    ASSUME NEW p \in Nat \ {0}, NEW m \in Nat \ {0}, m % p = 0, NEW y \in Int
    PROVE  (y % m) % p = y % p
  <1>1. PICK h \in Int : h = m \div p
    BY DivMod
  <1>2. PICK w \in Int : w = y \div m
    BY DivMod
  <1>3. PICK v \in Int : v = y % m
    <2>1. y % m \in 0..(m - 1)
      BY DivMod
    <2> QED
      BY <2>1
  <1>4. m = p * h
    <2>1. m = p * h + 0 /\ p * h \in Int
      BY <1>1, DivMod, Distributes
    <2> QED
      BY <2>1
  <1>5. y = m * w + v
    BY <1>2, <1>3, DivMod
  <1>6. PICK u \in Int : u = h * w
    BY <1>1, <1>2, Distributes
  <1>7. m * w = p * u
    <2>1. (p * h) * w = p * (h * w)
      BY <1>1, <1>2, Distributes
    <2> QED
      BY <1>4, <1>6, <2>1, Zenon
  <1>8. (p * u + v) % p = v % p
    BY <1>3, <1>6, SameRemainder
  <1> QED
    BY <1>3, <1>5, <1>7, <1>8

LEMMA ModPlus ==
    ASSUME NEW m \in Nat \ {0}, NEW x \in Int, NEW y \in Int
    PROVE  /\ (x + y) % m = ((x % m) + (y % m)) % m
           /\ (x - y) % m = ((x % m) - (y % m)) % m
  <1>1. PICK q \in Int, s \in Int : q = x \div m /\ s = y \div m
    BY DivMod
  <1>2. PICK r \in Int, t \in Int : r = x % m /\ t = y % m
    <2>1. x % m \in 0..(m - 1) /\ y % m \in 0..(m - 1)
      BY DivMod
    <2> QED
      BY <2>1
  <1>3. x = m * q + r /\ y = m * s + t
    BY <1>1, <1>2, DivMod
  <1>4. /\ m * (q + s) = m * q + m * s /\ m * (q - s) = m * q - m * s
        /\ m * q \in Int /\ m * s \in Int
    BY <1>1, Distributes
  <1>5. PICK a \in Int, b \in Int : a = m * q /\ b = m * s
    BY <1>4
  <1>6. PICK i \in Int, j \in Int : i = q + s /\ j = q - s
    BY <1>1
  <1>7. PICK k \in Int, l \in Int : k = r + t /\ l = r - t
    BY <1>2
  <1>8. (m * i + k) % m = k % m /\ (m * j + l) % m = l % m
    BY <1>6, <1>7, SameRemainder, ZenonT(60)
  <1>9. m * i = a + b /\ m * j = a - b
    BY <1>4, <1>5, <1>6
  <1>10. x = a + r /\ y = b + t
    BY <1>3, <1>5
  <1>11. x + y = m * i + k /\ x - y = m * j + l
    <2>1. (a + r) + (b + t) = (a + b) + (r + t) /\ (a + r) - (b + t) = (a - b) + (r - t)
      BY <1>2, <1>5, SMT
    <2>2. x + y = m * i + k
      BY <1>7, <1>9, <1>10, <2>1, Zenon
    <2>3. x - y = m * j + l
      BY <1>7, <1>9, <1>10, <2>1, Zenon
    <2> QED
      BY <2>2, <2>3
  <1> QED
    BY <1>2, <1>7, <1>8, <1>11

\* A number below the divisor is its own remainder.
LEMMA ModSmall ==
    ASSUME NEW m \in Nat \ {0}, NEW x \in 0..(m - 1)
    PROVE  x % m = x
  <1>1. x = m * 0 + x
    OBVIOUS
  <1> QED
    BY <1>1, Quotient

Word24 == {x \in Nat : x < Modulus}

LEMMA SwapTwice ==
    ASSUME NEW x \in Word24
    PROVE  SwapEnds(x) \in Word24 /\ SwapEnds(SwapEnds(x)) = x
  <1>1. PICK a \in Byte, b \in Byte, c \in Byte : x = 65536 * a + 256 * b + c
    <2> DEFINE a == x \div 65536
               b == (x \div 256) % 256
               c == x % 256
    <2>1. a \in Byte /\ b \in Byte /\ c \in Byte
      BY SMT DEF Byte, Word24, Modulus
    <2>2. x = 65536 * a + 256 * b + c
      BY SMT DEF Word24, Modulus
    <2> HIDE DEF a, b, c
    <2> QED
      BY <2>1, <2>2, SMT
  <1>2. SwapEnds(x) = 65536 * c + 256 * b + a
    BY <1>1, ThreeBytes, SMT DEF SwapEnds
  <1>3. SwapEnds(65536 * c + 256 * b + a) = 65536 * a + 256 * b + c
    BY <1>1, ThreeBytes, SMT DEF SwapEnds
  <1>4. 65536 * c + 256 * b + a \in Word24
    BY <1>1, SMT DEF Byte, Word24, Modulus
  <1> QED
    BY <1>1, <1>2, <1>3, <1>4, SMT

\* What EncodeAddress has taken out after n rounds.
TakeRuns(t, a) ==
    t = [n \in 0..24 |->
            IF n = 0 THEN [rest |-> (a - Offset) % Modulus, code |-> 0]
            ELSE TakeOut(t[n - 1], n - 1)]

Taking == [rest : Word24, code : Nat]

Takes(t, a) ==
    /\ t \in [0..24 -> Taking]
    /\ t[0] = [rest |-> (a - Offset) % Modulus, code |-> 0]
    /\ \A n \in 1..24 :
          t[n] = IF Bit(t[n - 1].rest, n - 1)
                 THEN [rest |-> (t[n - 1].rest - Coeffs[n]) % Modulus,
                       code |-> t[n - 1].code + 2^(n - 1)]
                 ELSE t[n - 1]

LEMMA ModWord24 ==
    ASSUME NEW y \in Int
    PROVE  y % Modulus \in Word24
  BY SMT DEF Word24, Modulus

LEMMA TakeOutIs ==
    ASSUME NEW acc \in Taking, NEW n \in 1..24
    PROVE  /\ TakeOut(acc, n - 1) \in Taking
           /\ TakeOut(acc, n - 1) =
                 IF Bit(acc.rest, n - 1)
                 THEN [rest |-> (acc.rest - Coeffs[n]) % Modulus,
                       code |-> acc.code + 2^(n - 1)]
                 ELSE acc
  <1>1. PICK c \in Int, p \in Nat : c = Coeffs[n] /\ p = 2^(n - 1)
    BY PowersOfTwo DEF PowerAt
  <1>2. PICK r \in Word24, d \in Nat : r = acc.rest /\ d = acc.code
    BY DEF Taking
  <1>3. r \in Int
    BY <1>2, SMT DEF Word24, Modulus
  <1>4. (r - c) % Modulus \in Word24
    BY <1>1, <1>3, ModWord24
  <1>5. n - 1 + 1 = n
    OBVIOUS
  <1>6. TakeOut(acc, n - 1) =
            IF Bit(r, n - 1)
            THEN [rest |-> (r - c) % Modulus, code |-> d + p] ELSE acc
    BY <1>1, <1>2, <1>5 DEF TakeOut
  <1>7. [rest |-> (r - c) % Modulus, code |-> d + p] \in Taking
    BY <1>1, <1>2, <1>4 DEF Taking
  <1> QED
    BY <1>1, <1>2, <1>6, <1>7

LEMMA EncodeAddressLoop ==
    ASSUME NEW a \in Word24
    PROVE  \E t : Takes(t, a) /\ EncodeAddress(a) = SwapEnds(t[24].code)
  <1> DEFINE T == Taking
             base == [rest |-> (a - Offset) % Modulus, code |-> 0]
             step == [p \in T \X (1..24) |-> TakeOut(p[1], p[2] - 1)]
             d == CHOOSE t : TakeRuns(t, a)
  <1>1. base \in T
    <2>1. a - Offset \in Int
      BY SMT DEF Word24, Offset, Modulus
    <2>2. (a - Offset) % Modulus \in Word24
      BY <2>1, ModWord24
    <2> QED
      BY <2>2 DEF Taking
  <1>2. step \in [T \X (1..24) -> T]
    <2>1. \A p \in T \X (1..24) : TakeOut(p[1], p[2] - 1) \in T
      BY TakeOutIs
    <2> QED
      BY <2>1
  <1>3. 24 \in Nat
    OBVIOUS
  <1>4. PICK t : LoopOf(t, T, base, 24, step)
    <2> HIDE DEF T, step, base
    <2> QED
      BY <1>1, <1>2, <1>3, LoopExists
  <1>5. TakeRuns(t, a)
    <2>1. ASSUME NEW n \in 1..24
          PROVE  t[n] = TakeOut(t[n - 1], n - 1)
      <3>1. n - 1 \in 0..24
        OBVIOUS
      <3>2. <<t[n - 1], n>> \in T \X (1..24)
        BY <1>4, <3>1 DEF LoopOf
      <3> QED
        BY <1>4, <3>2 DEF LoopOf
    <2>2. \A n \in 0..24 : n = 0 \/ n \in 1..24
      OBVIOUS
    <2> QED
      BY <1>4, <2>1, <2>2 DEF LoopOf, TakeRuns
  <1>6. TakeRuns(d, a) /\ EncodeAddress(a) = SwapEnds(d[24].code)
    <2>1. TakeRuns(d, a)
      BY <1>5
    <2>2. EncodeAddress(a) = SwapEnds(d[24].code)
      BY DEF EncodeAddress, TakeRuns
    <2> QED
      BY <2>1, <2>2
  <1> HIDE DEF d
  <1>7. /\ d[0] = base
        /\ \A n \in 1..24 : d[n] = TakeOut(d[n - 1], n - 1)
    <2>1. \A n \in 1..24 : n \in 0..24 /\ n # 0
      OBVIOUS
    <2>2. 0 \in 0..24
      OBVIOUS
    <2> QED
      BY <1>6, <2>1, <2>2 DEF TakeRuns
  <1>8. LoopOf(d, T, base, 24, step)
    <2>1. d = [n \in 0..24 |-> d[n]]
      BY <1>6 DEF TakeRuns
    <2>2. \A n \in 1..24 : d[n - 1] \in T => d[n] = step[<<d[n - 1], n>>]
      BY <1>7
    <2> HIDE DEF T, step, base
    <2> QED
      BY <1>1, <1>2, <1>3, <1>7, <2>1, <2>2, LoopTyped
  <1>9. d \in [0..24 -> Taking]
    BY <1>8 DEF LoopOf
  <1>10. ASSUME NEW n \in 1..24
         PROVE  d[n] = IF Bit(d[n - 1].rest, n - 1)
                       THEN [rest |-> (d[n - 1].rest - Coeffs[n]) % Modulus,
                             code |-> d[n - 1].code + 2^(n - 1)]
                       ELSE d[n - 1]
    <2>1. n - 1 \in 0..24
      OBVIOUS
    <2>2. PICK acc \in Taking : acc = d[n - 1]
      BY <1>9, <2>1
    <2>3. d[n] = TakeOut(acc, n - 1)
      BY <1>7, <2>2
    <2> QED
      BY <2>2, <2>3, TakeOutIs
  <1> QED
    BY <1>6, <1>7, <1>9, <1>10 DEF Takes

\* The sums of DecodeAddress after n rounds.
SumRuns(u, e) ==
    u = [n \in 0..24 |->
            IF n = 0 THEN Offset
            ELSE IF Bit(SwapEnds(e), n - 1)
            THEN (u[n - 1] + Coeffs[n]) % Modulus
            ELSE u[n - 1]]

Sums(u, x) ==
    /\ u \in [0..24 -> Word24] /\ u[0] = Offset
    /\ \A n \in 1..24 :
          u[n] = IF Bit(x, n - 1) THEN (u[n - 1] + Coeffs[n]) % Modulus
                 ELSE u[n - 1]

LEMMA DecodeAddressLoop ==
    ASSUME NEW e, NEW x, x = SwapEnds(e)
    PROVE  \E u : Sums(u, x) /\ DecodeAddress(e) = u[24]
  <1> DEFINE T == Word24
             add(y, n) == IF Bit(x, n - 1) THEN (y + Coeffs[n]) % Modulus ELSE y
             step == [p \in T \X (1..24) |-> add(p[1], p[2])]
             d == CHOOSE u : SumRuns(u, e)
  <1>1. Offset \in T
    BY SMT DEF Offset, Word24, Modulus
  <1>2. step \in [T \X (1..24) -> T]
    <2>1. ASSUME NEW y \in T, NEW n \in 1..24
          PROVE  add(y, n) \in T
      <3>1. PICK c \in Int : c = Coeffs[n]
        BY PowersOfTwo DEF PowerAt
      <3>2. y + c \in Int
        BY <2>1, <3>1, SMT DEF Word24, Modulus
      <3> QED
        BY <2>1, <3>1, <3>2, ModWord24
    <2> HIDE DEF add, T
    <2> QED
      BY <2>1
  <1>3. 24 \in Nat
    OBVIOUS
  <1>4. PICK u : LoopOf(u, T, Offset, 24, step)
    <2> HIDE DEF T, step
    <2> QED
      BY <1>1, <1>2, <1>3, LoopExists
  <1>5. SumRuns(u, e)
    <2>1. ASSUME NEW n \in 1..24
          PROVE  u[n] = add(u[n - 1], n)
      <3>1. n - 1 \in 0..24
        OBVIOUS
      <3>2. <<u[n - 1], n>> \in T \X (1..24)
        BY <1>4, <3>1 DEF LoopOf
      <3> HIDE DEF add
      <3> QED
        BY <1>4, <3>2 DEF LoopOf
    <2>2. \A n \in 0..24 : n = 0 \/ n \in 1..24
      OBVIOUS
    <2> QED
      BY <1>4, <2>1, <2>2 DEF LoopOf, SumRuns
  <1>6. SumRuns(d, e) /\ DecodeAddress(e) = d[24]
    <2>1. SumRuns(d, e)
      BY <1>5
    <2>2. DecodeAddress(e) = d[24]
      BY DEF DecodeAddress, SumRuns
    <2> QED
      BY <2>1, <2>2
  <1> HIDE DEF d
  <1>7. /\ d[0] = Offset
        /\ \A n \in 1..24 : d[n] = add(d[n - 1], n)
    <2>1. \A n \in 1..24 : n \in 0..24 /\ n # 0
      OBVIOUS
    <2>2. 0 \in 0..24
      OBVIOUS
    <2> QED
      BY <1>6, <2>1, <2>2 DEF SumRuns
  <1>8. LoopOf(d, T, Offset, 24, step)
    <2>1. d = [n \in 0..24 |-> d[n]]
      BY <1>6 DEF SumRuns
    <2>2. \A n \in 1..24 : d[n - 1] \in T => d[n] = step[<<d[n - 1], n>>]
      <3> HIDE DEF T, add
      <3> QED
        BY <1>7
    <2> HIDE DEF T, step
    <2> QED
      BY <1>1, <1>2, <1>3, <1>7, <2>1, <2>2, LoopTyped
  <1> QED
    BY <1>6, <1>7, <1>8 DEF LoopOf, Sums

LEMMA ModulusIs ==
    /\ Modulus \in Nat \ {0} /\ Modulus = 2^24 /\ 2^0 = 1
    /\ \A x : x \in Word24 <=> x \in 0..(Modulus - 1)
  <1>1. Modulus \in Nat \ {0} /\ Modulus = 2^24 /\ 2^0 = 1
    BY SMT DEF Modulus
  <1> QED
    BY <1>1 DEF Word24

LEMMA PowerIs ==
    ASSUME NEW n \in 0..24
    PROVE  2^n \in Nat \ {0}
  <1>1. CASE n = 0
    BY <1>1, ModulusIs
  <1>2. CASE n \in 1..24
    <2>1. PICK p \in Nat \ {0} : p = 2^(n - 1) /\ 2^n = 2 * p
      BY <1>2, PowersOfTwo DEF PowerAt
    <2>2. 2 * p \in Nat \ {0}
      OBVIOUS
    <2> QED
      BY <2>1, <2>2
  <1> QED
    BY <1>1, <1>2

\* A remainder within a difference makes no difference.
LEMMA ModInner ==
    ASSUME NEW m \in Nat \ {0}, NEW x \in Int, NEW y \in Int
    PROVE  /\ (x - (y % m)) % m = (x - y) % m
           /\ ((x % m) - y) % m = (x - y) % m
  <1>1. PICK r \in 0..(m - 1), t \in 0..(m - 1) : r = x % m /\ t = y % m
    BY DivMod
  <1>2. r % m = r /\ t % m = t /\ r \in Int /\ t \in Int
    <2>1. \A z \in 0..(m - 1) : z % m = z /\ z \in Int
      BY ModSmall
    <2> QED
      BY <1>1, <2>1, Zenon
  <1>3. (x - y) % m = (r - t) % m
    BY <1>1, ModPlus
  <1>4. (x - t) % m = (r - (t % m)) % m
    BY <1>1, <1>2, ModPlus
  <1>5. (r - y) % m = ((r % m) - t) % m
    BY <1>1, <1>2, ModPlus
  <1> QED
    BY <1>1, <1>2, <1>3, <1>4, <1>5, Zenon

\* The remainder grows by the bit.
LEMMA BitSplit ==
    ASSUME NEW n \in 1..24, NEW x \in Int
    PROVE  /\ x % 2^n = (x % 2^(n - 1)) + (IF Bit(x, n - 1) THEN 2^(n - 1) ELSE 0)
           /\ x % 2^(n - 1) \in 0..(2^(n - 1) - 1)
  <1>1. PICK p \in Nat \ {0} : p = 2^(n - 1) /\ 2^n = 2 * p
    BY PowersOfTwo DEF PowerAt
  <1>2. x % (2 * p) = (x % p) + (IF (x \div p) % 2 = 1 THEN p ELSE 0)
    BY Halving
  <1>3. x % p \in 0..(p - 1)
    BY DivMod
  <1>4. Bit(x, n - 1) <=> (x \div p) % 2 = 1
    BY <1>1 DEF Bit
  <1> QED
    BY <1>1, <1>2, <1>3, <1>4, Zenon

\* A number with that remainder has that bit.
LEMMA BitOf ==
    ASSUME NEW n \in 1..24, NEW x \in Int, NEW bit \in BOOLEAN,
           NEW c \in 0..(2^(n - 1) - 1),
           x % 2^n = c + (IF bit THEN 2^(n - 1) ELSE 0)
    PROVE  (Bit(x, n - 1) <=> bit) /\ x % 2^(n - 1) = c
  <1>1. PICK p \in Nat \ {0} : p = 2^(n - 1) /\ 2^n = 2 * p
    BY PowersOfTwo DEF PowerAt
  <1>2. PICK r \in 0..(p - 1) : r = x % 2^(n - 1)
    BY <1>1, DivMod
  <1>3. c \in 0..(p - 1)
    BY <1>1
  <1>4. x % 2^n = r + (IF Bit(x, n - 1) THEN p ELSE 0)
    BY <1>1, <1>2, BitSplit
  <1>5. x % 2^n = c + (IF bit THEN p ELSE 0)
    BY <1>1
  <1>6. CASE Bit(x, n - 1)
    <2>1. x % 2^n = r + p
      BY <1>4, <1>6
    <2>2. CASE bit
      BY <1>2, <1>3, <1>5, <1>6, <2>1, <2>2
    <2>3. CASE ~bit
      <3>1. r + p = c
        BY <1>3, <1>5, <2>1, <2>3
      <3> QED
        BY <1>1, <1>2, <1>3, <3>1
    <2> QED
      BY <2>2, <2>3
  <1>7. CASE ~Bit(x, n - 1)
    <2>1. x % 2^n = r
      BY <1>2, <1>4, <1>7
    <2>2. CASE bit
      <3>1. r = c + p
        BY <1>5, <2>1, <2>2
      <3> QED
        BY <1>1, <1>2, <1>3, <3>1
    <2>3. CASE ~bit
      BY <1>2, <1>3, <1>5, <1>7, <2>1, <2>3
    <2> QED
      BY <2>2, <2>3
  <1> QED
    BY <1>6, <1>7

\* A bit is taken out with its coefficient.
LEMMA RestStep ==
    ASSUME NEW n \in 1..24, NEW r \in Int, r % 2^(n - 1) = 0
    PROVE  IF Bit(r, n - 1) THEN ((r - Coeffs[n]) % Modulus) % 2^n = 0
           ELSE r % 2^n = 0
  <1>1. PICK p \in Nat \ {0} : p = 2^(n - 1)
    BY PowersOfTwo DEF PowerAt
  <1>2. PICK w \in Nat \ {0} : w = 2^n
    <2>1. n \in 0..24
      OBVIOUS
    <2> QED
      BY <2>1, PowerIs
  <1>3. PICK c \in Int : c = Coeffs[n] /\ c % w = p
    BY <1>1, <1>2, PowersOfTwo DEF PowerAt
  <1>4. r % w = 0 + (IF Bit(r, n - 1) THEN p ELSE 0)
    BY <1>1, <1>2, BitSplit
  <1>5. CASE Bit(r, n - 1)
    <2>1. r % w = p
      BY <1>4, <1>5
    <2>2. (r - c) % w = (p - p) % w
      <3>1. (r - c) % w = ((r % w) - (c % w)) % w
        BY ZenonT(40), <1>2, <1>3, ModPlus
      <3> QED
        BY <1>3, <2>1, <3>1, Zenon
    <2>3. p - p = 0 /\ 0 \in 0..(w - 1)
      OBVIOUS
    <2>4. (r - c) % w = 0
      BY <2>2, <2>3, ModSmall
    <2>5. Modulus % w = 0 /\ r - c \in Int
      <3>1. Modulus % w = 0
        BY <1>2, PowersOfTwo DEF PowerAt
      <3>2. \A k \in Int : r - k \in Int
        OBVIOUS
      <3> QED
        BY <1>3, <3>1, <3>2, Zenon
    <2>6. ((r - c) % Modulus) % w = 0
      BY <2>4, <2>5, ModulusIs, ModModulus
    <2> QED
      BY <1>2, <1>3, <1>5, <2>6
  <1>6. CASE ~Bit(r, n - 1)
    BY <1>1, <1>2, <1>4, <1>6
  <1> QED
    BY <1>5, <1>6

\* The rounds of EncodeAddress, one by one.
LEMMA TakeRounds ==
    ASSUME NEW a \in Word24, NEW t, Takes(t, a)
    PROVE  /\ \A n \in 0..24 : /\ t[n].rest \in Word24 /\ t[n].rest \in Int
                               /\ t[n].rest % 2^n = 0
                               /\ t[n].code \in 0..(2^n - 1)
           /\ t[24].rest = 0
  <1> DEFINE G == {n \in 0..24 : /\ t[n].rest % 2^n = 0
                                 /\ t[n].code \in 0..(2^n - 1)}
  <1>1. \A n \in 0..24 : /\ t[n].rest \in Word24 /\ t[n].rest \in Int
                         /\ t[n].code \in Nat
    BY DEF Takes, Taking, Word24
  <1>2. 0 \in G
    <2>1. t[0].code = 0 /\ t[0].rest \in Int
      BY <1>1 DEF Takes
    <2>2. \A x \in Int : x % 1 = 0
      OBVIOUS
    <2>3. 2^0 = 1 /\ 0 \in 0..(1 - 1)
      BY ModulusIs
    <2> QED
      BY <2>1, <2>2, <2>3
  <1>3. ASSUME NEW n \in 1..24, n - 1 \in G
        PROVE  n \in G
    <2>1. n - 1 \in 0..24 /\ n \in 0..24
      OBVIOUS
    <2>2. PICK r \in Int, k \in Nat : r = t[n - 1].rest /\ k = t[n - 1].code
      BY <1>1, <2>1
    <2>3. PICK p \in Nat \ {0} : p = 2^(n - 1) /\ 2^n = 2 * p
      BY PowersOfTwo DEF PowerAt
    <2>4. r % 2^(n - 1) = 0 /\ k \in 0..(p - 1)
      BY <1>3, <2>2, <2>3
    <2>5. k \in 0..(2 * p - 1) /\ k + p \in 0..(2 * p - 1)
      BY <2>4
    <2>6. IF Bit(r, n - 1) THEN ((r - Coeffs[n]) % Modulus) % 2^n = 0
          ELSE r % 2^n = 0
      BY <2>4, RestStep
    <2>7. t[n] = IF Bit(r, n - 1)
                 THEN [rest |-> (r - Coeffs[n]) % Modulus, code |-> k + p]
                 ELSE t[n - 1]
      BY <2>2, <2>3 DEF Takes
    <2>8. CASE Bit(r, n - 1)
      <3>1. t[n].rest = (r - Coeffs[n]) % Modulus /\ t[n].code = k + p
        BY <2>7, <2>8
      <3>2. t[n].rest % 2^n = 0
        BY <2>6, <2>8, <3>1, Zenon
      <3>3. t[n].code \in 0..(2^n - 1)
        BY <2>3, <2>5, <3>1, Zenon
      <3> QED
        BY <2>1, <3>2, <3>3, Zenon
    <2>9. CASE ~Bit(r, n - 1)
      <3>1. t[n].rest = r /\ t[n].code = k
        BY <2>2, <2>7, <2>9
      <3>2. t[n].rest % 2^n = 0
        BY <2>6, <2>9, <3>1, Zenon
      <3>3. t[n].code \in 0..(2^n - 1)
        BY <2>3, <2>5, <3>1, Zenon
      <3> QED
        BY <2>1, <3>2, <3>3, Zenon
    <2> QED
      BY <2>8, <2>9
  <1>4. \A n \in 0..24 : n \in G
    <2>1. 24 \in Nat
      OBVIOUS
    <2> HIDE DEF G
    <2> QED
      BY <1>2, <1>3, <2>1, Rounds
  <1>5. t[24].rest = 0
    <2>1. 24 \in 0..24
      OBVIOUS
    <2>2. PICK r \in Word24 : r = t[24].rest
      BY <1>1, <2>1
    <2>3. r % Modulus = 0
      BY <1>4, <2>1, <2>2, ModulusIs, Zenon
    <2>4. r % Modulus = r
      BY ModSmall, ModulusIs
    <2> QED
      BY <2>2, <2>3, <2>4
  <1> QED
    BY <1>1, <1>4, <1>5

\* The code has the bits that were taken out.
LEMMA CodeBits ==
    ASSUME NEW a \in Word24, NEW t, Takes(t, a), NEW x, x = t[24].code
    PROVE  /\ x \in Word24 /\ x \in Int
           /\ \A n \in 1..24 : Bit(x, n - 1) <=> Bit(t[n - 1].rest, n - 1)
  <1>1. \A n \in 0..24 : t[n].code \in 0..(2^n - 1)
    BY TakeRounds
  <1>2. x \in 0..(Modulus - 1)
    <2>1. 24 \in 0..24
      OBVIOUS
    <2> QED
      BY <1>1, <2>1, ModulusIs, Zenon
  <1>3. x \in Word24 /\ x \in Int
    BY <1>2, ModulusIs
  <1> DEFINE G == {n \in 0..24 : x % 2^n = t[n].code}
  <1>4. ASSUME NEW n \in 1..24, x % 2^n = t[n].code
        PROVE  /\ x % 2^(n - 1) = t[n - 1].code
               /\ Bit(x, n - 1) <=> Bit(t[n - 1].rest, n - 1)
    <2>1. n - 1 \in 0..24
      OBVIOUS
    <2>2. PICK c \in 0..(2^(n - 1) - 1) : c = t[n - 1].code
      BY <1>1, <2>1
    <2>3. PICK bit \in BOOLEAN : bit <=> Bit(t[n - 1].rest, n - 1)
      OBVIOUS
    <2>4. c \in Nat
      BY <2>1, <2>2, PowerIs
    <2>5. t[n].code = c + (IF bit THEN 2^(n - 1) ELSE 0)
      <3>1. CASE bit
        <4>1. t[n] = [rest |-> (t[n - 1].rest - Coeffs[n]) % Modulus,
                      code |-> t[n - 1].code + 2^(n - 1)]
          BY <2>3, <3>1, Zenon DEF Takes
        <4>2. t[n].code = t[n - 1].code + 2^(n - 1)
          BY <4>1
        <4>3. t[n].code = c + 2^(n - 1)
          BY <2>2, <4>2, Zenon
        <4> QED
          BY <3>1, <4>3, Zenon
      <3>2. CASE ~bit
        <4>1. t[n] = t[n - 1]
          BY <2>3, <3>2, Zenon DEF Takes
        <4> QED
          BY <2>2, <2>4, <3>2, <4>1
      <3> QED
        BY <3>1, <3>2
    <2>6. x % 2^n = c + (IF bit THEN 2^(n - 1) ELSE 0)
      BY <1>4, <2>5
    <2>7. (Bit(x, n - 1) <=> bit) /\ x % 2^(n - 1) = c
      BY <1>3, <2>2, <2>3, <2>6, BitOf, ZenonT(60)
    <2> QED
      BY <2>2, <2>3, <2>7
  <1>5. 24 \in G
    <2>1. x % Modulus = x
      BY <1>2, ModSmall, ModulusIs
    <2>2. 24 \in 0..24
      OBVIOUS
    <2> QED
      BY <2>1, <2>2, ModulusIs, Zenon
  <1>6. \A n \in 1..24 : n \in G => n - 1 \in G
    <2>1. \A n \in 1..24 : n - 1 \in 0..24
      OBVIOUS
    <2> QED
      BY <1>4, <2>1
  <1>7. \A n \in 0..24 : n \in G
    <2>1. 24 \in Nat
      OBVIOUS
    <2> HIDE DEF G
    <2> QED
      BY <1>5, <1>6, <2>1, RoundsDown
  <1>8. \A n \in 1..24 : x % 2^n = t[n].code
    <2>1. \A n \in 1..24 : n \in 0..24
      OBVIOUS
    <2> QED
      BY <1>7, <2>1
  <1> QED
    BY <1>3, <1>4, <1>8

\* The sum of what was taken out and of the rest stays the address.
LEMMA DecodeOfEncode ==
    ASSUME NEW a \in Word24
    PROVE  EncodeAddress(a) \in Word24 /\ DecodeAddress(EncodeAddress(a)) = a
  <1>1. PICK t : Takes(t, a) /\ EncodeAddress(a) = SwapEnds(t[24].code)
    BY EncodeAddressLoop
  <1>2. PICK x : x = t[24].code
    OBVIOUS
  <1>3. /\ x \in Word24
        /\ \A n \in 1..24 : Bit(x, n - 1) <=> Bit(t[n - 1].rest, n - 1)
    BY <1>1, <1>2, CodeBits
  <1>4. PICK e \in Word24 : e = EncodeAddress(a) /\ SwapEnds(e) = x
    BY <1>1, <1>2, <1>3, SwapTwice
  <1>5. PICK u : Sums(u, x) /\ DecodeAddress(e) = u[24]
    BY <1>4, DecodeAddressLoop
  <1> DEFINE G == {n \in 0..24 : (u[n] + t[n].rest) % Modulus = a}
  <1>6. \A n \in 0..24 : u[n] \in Int /\ t[n].rest \in Int
    <2>1. \A n \in 0..24 : t[n].rest \in Int
      BY <1>1, TakeRounds, ZenonT(40)
    <2>2. \A n \in 0..24 : u[n] \in Word24
      BY <1>5, SMT DEF Sums
    <2>3. \A z \in Word24 : z \in Int
      BY SMT DEF Word24
    <2> QED
      BY <2>1, <2>2, <2>3, Zenon
  <1>7. 0 \in G
    <2>1. a \in Int /\ a \in 0..(Modulus - 1)
      BY ModulusIs DEF Word24
    <2>2. PICK y \in Int : y = a - Offset
      BY <2>1 DEF Offset
    <2>3. (Offset + (y % Modulus)) % Modulus = (Offset + y) % Modulus
      BY SMT DEF Modulus, Offset
    <2>4. Offset + y = a
      BY <2>1, <2>2 DEF Offset
    <2>5. a % Modulus = a
      BY <2>1, ModulusIs, ModSmall
    <2>6. u[0] = Offset /\ t[0].rest = y % Modulus /\ 0 \in 0..24
      BY <1>1, <1>5, <2>2 DEF Sums, Takes
    <2> QED
      BY <2>3, <2>4, <2>5, <2>6, Zenon
  <1>8. ASSUME NEW n \in 1..24, n - 1 \in G
        PROVE  n \in G
    <2>1. n - 1 \in 0..24 /\ n \in 0..24
      OBVIOUS
    <2>2. PICK v \in Int, r \in Int : v = u[n - 1] /\ r = t[n - 1].rest
      BY <1>6, <2>1
    <2>3. PICK c \in Int : c = Coeffs[n]
      BY PowersOfTwo DEF PowerAt
    <2>4. (v + r) % Modulus = a
      BY <1>8, <2>2
    <2>5. CASE Bit(x, n - 1)
      <3>1. u[n] = (v + c) % Modulus
        BY <1>5, <2>2, <2>3, <2>5 DEF Sums
      <3>2. t[n].rest = (r - c) % Modulus
        BY <1>1, <1>3, <2>2, <2>3, <2>5 DEF Takes
      <3>3. PICK y \in Int, z \in Int : y = v + c /\ z = r - c
        BY <2>2, <2>3
      <3>4. (y + z) % Modulus = ((y % Modulus) + (z % Modulus)) % Modulus
        BY <3>3, ModulusIs, ModPlus
      <3>5. y + z = v + r
        BY <2>2, <2>3, <3>3
      <3> QED
        BY <2>1, <2>4, <3>1, <3>2, <3>3, <3>4, <3>5, Zenon
    <2>6. CASE ~Bit(x, n - 1)
      <3>1. u[n] = v
        BY <1>5, <2>2, <2>6 DEF Sums
      <3>2. t[n].rest = r
        BY <1>1, <1>3, <2>2, <2>6 DEF Takes
      <3> QED
        BY <2>1, <2>4, <3>1, <3>2, Zenon
    <2> QED
      BY <2>5, <2>6
  <1>9. \A n \in 0..24 : n \in G
    <2>1. 24 \in Nat
      OBVIOUS
    <2> HIDE DEF G
    <2> QED
      BY <1>7, <1>8, <2>1, Rounds
  <1>10. u[24] = a
    <2>1. 24 \in 0..24
      OBVIOUS
    <2>2. PICK v \in Word24 : v = u[24]
      BY <1>5, <2>1 DEF Sums
    <2>3. (v + 0) % Modulus = a
      BY <1>1, <1>9, <2>1, <2>2, TakeRounds, Zenon
    <2>4. v \in 0..(Modulus - 1) /\ v + 0 = v
      BY <2>2, ModulusIs DEF Word24
    <2>5. v % Modulus = v
      BY <2>4, ModSmall, ModulusIs
    <2> QED
      BY <2>2, <2>3, <2>4, <2>5, Zenon
  <1> QED
    BY <1>4, <1>5, <1>10

\* What round n and the later ones add is a multiple of 2^(n - 1), with the
\* bit of round n.
LEMMA SumsDown ==
    ASSUME NEW x \in Word24, NEW u, Sums(u, x)
    PROVE  \A n \in 1..24 :
               (u[24] - u[n - 1]) % 2^n
                   = IF Bit(x, n - 1) THEN 2^(n - 1) ELSE 0
  <1> DEFINE G == {n \in 0..24 : (u[24] - u[n]) % 2^n = 0}
  <1>1. \A n \in 0..24 : u[n] \in Int
    BY DEF Sums, Word24
  <1>2. PICK a \in Int : a = u[24]
    <2>1. 24 \in 0..24
      OBVIOUS
    <2> QED
      BY <1>1, <2>1
  <1>3. ASSUME NEW n \in 1..24, (u[24] - u[n]) % 2^n = 0
        PROVE  (u[24] - u[n - 1]) % 2^n
                   = IF Bit(x, n - 1) THEN 2^(n - 1) ELSE 0
    <2>1. n - 1 \in 0..24 /\ n \in 0..24
      OBVIOUS
    <2>2. PICK v \in Int, z \in Int : v = u[n - 1] /\ z = u[n]
      BY <1>1, <2>1
    <2>3. PICK w \in Nat \ {0} : w = 2^n
      BY <2>1, PowerIs
    <2>4. PICK p \in Nat \ {0} : p = 2^(n - 1) /\ w = 2 * p
      BY <2>3, PowersOfTwo DEF PowerAt
    <2>5. (a - z) % w = 0
      BY <1>2, <1>3, <2>2, <2>3
    <2>6. CASE Bit(x, n - 1)
      <3>1. PICK c \in Int : c = Coeffs[n] /\ c % w = p
        BY <2>3, <2>4, PowersOfTwo DEF PowerAt
      <3>2. PICK y \in Int : y = v + c
        BY <2>2, <3>1
      <3>3. z = y % Modulus
        BY <2>2, <2>6, <3>1, <3>2 DEF Sums
      <3>4. Modulus % w = 0
        BY <2>3, PowersOfTwo DEF PowerAt
      <3>5. z % w = y % w
        BY ZenonT(40), <3>2, <3>3, <3>4, ModulusIs, ModModulus
      <3>6. (z - v) % w = p
        <4>1. (z - v) % w = ((z % w) - (v % w)) % w
          BY ZenonT(40), <2>2, <2>3, ModPlus
        <4>2. (y - v) % w = ((y % w) - (v % w)) % w
          BY ZenonT(40), <2>2, <2>3, <3>2, ModPlus
        <4>3. y - v = c
          BY <2>2, <3>1, <3>2
        <4> QED
          BY <3>1, <3>5, <4>1, <4>2, <4>3, Zenon
      <3>7. PICK i \in Int, j \in Int : i = a - z /\ j = z - v
        BY <1>2, <2>2
      <3>8. (i + j) % w = ((i % w) + (j % w)) % w
        BY ZenonT(40), <2>3, <3>7, ModPlus
      <3>9. i + j = a - v
        BY <1>2, <2>2, <3>7
      <3>10. 0 + p = p /\ p \in 0..(w - 1)
        BY <2>4
      <3>11. p % w = p
        BY <2>3, <3>10, ModSmall
      <3>12. (a - v) % w = p
        BY <2>5, <3>6, <3>7, <3>8, <3>9, <3>10, <3>11, Zenon
      <3> QED
        BY <1>2, <2>2, <2>3, <2>4, <2>6, <3>12, Zenon
    <2>7. CASE ~Bit(x, n - 1)
      <3>1. z = v
        BY <2>2, <2>7 DEF Sums
      <3> QED
        BY <1>2, <2>2, <2>3, <2>5, <2>7, <3>1, Zenon
    <2> QED
      BY <2>6, <2>7
  <1>4. 24 \in G
    <2>1. a - a = 0 /\ 24 \in 0..24
      BY <1>2
    <2>2. PICK w \in Nat \ {0} : w = 2^24
      BY <2>1, PowerIs
    <2>3. 0 \in 0..(w - 1)
      BY <2>2
    <2>4. 0 % w = 0
      BY <2>3, ModSmall
    <2> QED
      BY <1>2, <2>1, <2>2, <2>4, Zenon
  <1>5. ASSUME NEW n \in 1..24, n \in G
        PROVE  n - 1 \in G
    <2>1. n - 1 \in 0..24
      OBVIOUS
    <2>2. PICK y \in Int : y = u[24] - u[n - 1]
      BY <1>1, <1>2, <2>1
    <2>3. PICK bit \in BOOLEAN : bit <=> Bit(x, n - 1)
      OBVIOUS
    <2>4. 2^(n - 1) \in Nat \ {0}
      BY <2>1, PowerIs
    <2>5. 0 \in 0..(2^(n - 1) - 1) /\ 0 + 2^(n - 1) = 2^(n - 1)
      BY <2>4
    <2>6. y % 2^n = IF bit THEN 2^(n - 1) ELSE 0
      BY <1>3, <1>5, <2>2, <2>3, Zenon
    <2>7. y % 2^n = 0 + (IF bit THEN 2^(n - 1) ELSE 0)
      BY <2>5, <2>6
    <2>8. y % 2^(n - 1) = 0
      BY ZenonT(40), <2>2, <2>3, <2>5, <2>7, BitOf
    <2> QED
      BY <2>1, <2>2, <2>8
  <1>6. \A n \in 0..24 : n \in G
    <2>1. 24 \in Nat
      OBVIOUS
    <2> HIDE DEF G
    <2> QED
      BY <1>4, <1>5, <2>1, RoundsDown
  <1>7. \A n \in 1..24 : n \in 0..24
    OBVIOUS
  <1> QED
    BY <1>3, <1>6, <1>7

\* Encoding a sum finds its bits again.
LEMMA EncodeOfDecode ==
    ASSUME NEW e \in Word24
    PROVE  DecodeAddress(e) \in Word24 /\ EncodeAddress(DecodeAddress(e)) = e
  <1>1. PICK x \in Word24 : x = SwapEnds(e)
    BY SwapTwice
  <1>2. PICK u : Sums(u, x) /\ DecodeAddress(e) = u[24]
    BY <1>1, DecodeAddressLoop
  <1>3. PICK a \in Word24 : a = u[24]
    <2>1. 24 \in 0..24
      OBVIOUS
    <2> QED
      BY <1>2, <2>1 DEF Sums
  <1>4. PICK t : Takes(t, a) /\ EncodeAddress(a) = SwapEnds(t[24].code)
    BY EncodeAddressLoop
  <1>5. a \in Int /\ x \in Int
    BY <1>1, <1>3 DEF Word24
  <1>6. \A n \in 0..24 : u[n] \in Int /\ t[n].rest \in Int
    <2>1. \A n \in 0..24 : t[n].rest \in Int
      BY <1>4, TakeRounds, ZenonT(40)
    <2>2. \A n \in 0..24 : u[n] \in Word24
      BY <1>2, SMT DEF Sums
    <2>3. \A z \in Word24 : z \in Int
      BY SMT DEF Word24
    <2> QED
      BY <2>1, <2>2, <2>3, Zenon
  <1> DEFINE G == {n \in 0..24 : /\ t[n].rest = (a - u[n]) % Modulus
                                 /\ t[n].code = x % 2^n}
  <1>7. 0 \in G
    <2>1. 0 \in 0..24 /\ \A k \in Int : k % 1 = 0
      OBVIOUS
    <2>2. x % 2^0 = 0
      BY <1>5, <2>1, ModulusIs
    <2>3. t[0].rest = (a - Offset) % Modulus /\ t[0].code = 0
      BY <1>4 DEF Takes
    <2>4. u[0] = Offset
      BY <1>2 DEF Sums
    <2> QED
      BY <2>1, <2>2, <2>3, <2>4, Zenon
  <1>8. ASSUME NEW n \in 1..24, n - 1 \in G
        PROVE  n \in G
    <2>1. n - 1 \in 0..24 /\ n \in 0..24
      OBVIOUS
    <2>2. PICK v \in Int, r \in Int : v = u[n - 1] /\ r = t[n - 1].rest
      BY <1>6, <2>1
    <2>3. PICK y \in Int : y = a - v
      BY <1>5, <2>2
    <2>4. PICK w \in Nat \ {0} : w = 2^n
      BY <2>1, PowerIs
    <2>5. PICK p \in Nat \ {0} : p = 2^(n - 1)
      BY <2>1, PowerIs
    <2>6. r = y % Modulus /\ t[n - 1].code = x % p
      BY <1>8, <2>2, <2>3, <2>5, Zenon
    <2>7. y % w = IF Bit(x, n - 1) THEN p ELSE 0
      BY <1>2, <1>3, <2>2, <2>3, <2>4, <2>5, SumsDown, Zenon
    <2>8. r % w = y % w
      <3>1. Modulus % w = 0
        BY <2>4, PowersOfTwo DEF PowerAt
      <3> QED
        BY <2>3, <2>6, <3>1, ModulusIs, ModModulus
    <2>9. Bit(r, n - 1) <=> Bit(x, n - 1)
      <3>1. PICK bit \in BOOLEAN : bit <=> Bit(x, n - 1)
        OBVIOUS
      <3>2. 0 \in 0..(p - 1) /\ 0 + p = p
        BY <2>5
      <3>3. r % 2^n = IF bit THEN 2^(n - 1) ELSE 0
        BY <2>4, <2>5, <2>7, <2>8, <3>1, Zenon
      <3>4. r % 2^n = 0 + (IF bit THEN 2^(n - 1) ELSE 0)
        BY <2>5, <3>2, <3>3
      <3>5. Bit(r, n - 1) <=> bit
        BY <2>2, <2>5, <3>1, <3>2, <3>4, BitOf
      <3> QED
        BY <3>1, <3>5
    <2>10. x % 2^n = (x % p) + (IF Bit(x, n - 1) THEN p ELSE 0)
      BY <1>5, <2>5, BitSplit
    <2>11. CASE Bit(x, n - 1)
      <3>1. PICK c \in Int : c = Coeffs[n]
        BY PowersOfTwo DEF PowerAt
      <3>2. u[n] = (v + c) % Modulus
        BY <1>2, <2>2, <2>11, <3>1, Zenon DEF Sums
      <3>3. t[n] = [rest |-> (r - c) % Modulus, code |-> (x % p) + p]
        BY <1>4, <2>2, <2>5, <2>6, <2>9, <2>11, <3>1, Zenon DEF Takes
      <3>4. t[n].rest = (r - c) % Modulus /\ t[n].code = (x % p) + p
        BY <3>3
      <3>5. (r - c) % Modulus = (y - c) % Modulus
        BY <2>3, <2>6, <3>1, ModInner, ModulusIs
      <3>6. PICK z \in Int : z = v + c
        BY <2>2, <3>1
      <3>7. (a - (z % Modulus)) % Modulus = (a - z) % Modulus
        BY <1>5, <3>6, ModInner, ModulusIs
      <3>8. a - z = y - c
        BY <1>5, <2>2, <2>3, <3>1, <3>6
      <3>9. t[n].rest = (a - u[n]) % Modulus
        BY <3>2, <3>4, <3>5, <3>6, <3>7, <3>8, Zenon
      <3>10. t[n].code = x % 2^n
        BY <2>10, <2>11, <3>4, Zenon
      <3> QED
        BY <2>1, <3>9, <3>10, Zenon
    <2>12. CASE ~Bit(x, n - 1)
      <3>1. u[n] = v
        BY <1>2, <2>2, <2>12, Zenon DEF Sums
      <3>2. t[n] = t[n - 1]
        BY <1>4, <2>2, <2>9, <2>12, Zenon DEF Takes
      <3>3. x % 2^n = x % p
        <4>1. x % p \in Int
          BY <1>5, <2>5, DivMod
        <4>2. (x % p) + 0 = x % p
          BY <4>1
        <4> QED
          BY <2>10, <2>12, <4>2, Zenon
      <3> QED
        BY <2>1, <2>2, <2>3, <2>6, <3>1, <3>2, <3>3, Zenon
    <2> QED
      BY <2>11, <2>12
  <1>9. \A n \in 0..24 : n \in G
    <2>1. 24 \in Nat
      OBVIOUS
    <2> HIDE DEF G
    <2> QED
      BY <1>7, <1>8, <2>1, Rounds
  <1>10. t[24].code = x
    <2>1. 24 \in 0..24 /\ x \in 0..(Modulus - 1)
      BY <1>1, ModulusIs
    <2>2. x % Modulus = x
      BY <2>1, ModSmall, ModulusIs
    <2> QED
      BY <1>9, <2>1, <2>2, ModulusIs, Zenon
  <1>11. SwapEnds(x) = e
    BY <1>1, SwapTwice
  <1> QED
    BY <1>2, <1>3, <1>4, <1>10, <1>11

-----------------------------------------------------------------------------
(* Messages.                                                               *)

\* The bytes of NumberAt, the highest first.
NumberRuns(d, buffer, offset, width) ==
    d = [n \in 0..width |->
            IF n = 0 THEN 0 ELSE 256 * d[n - 1] + buffer[offset + n]]

Numbers(v, buffer, offset, width) ==
    /\ v[0] = 0
    /\ \A n \in 1..width :
          v[n - 1] \in Nat /\ v[n] = 256 * v[n - 1] + buffer[offset + n]

LEMMA NumberLoop ==
    ASSUME NEW buffer, NEW offset \in Nat, NEW width \in Nat,
           \A n \in 1..width : buffer[offset + n] \in Nat
    PROVE  \E v : /\ Numbers(v, buffer, offset, width)
                  /\ NumberAt(buffer, offset, width) = v[width]
                  /\ NumberAt(buffer, offset, width) \in Nat
  <1> DEFINE T == Nat
             step == [p \in T \X (1..width) |-> 256 * p[1] + buffer[offset + p[2]]]
             d == CHOOSE v : NumberRuns(v, buffer, offset, width)
  <1>1. 0 \in T
    OBVIOUS
  <1>2. step \in [T \X (1..width) -> T]
    <2>1. ASSUME NEW x \in T, NEW n \in 1..width
          PROVE  256 * x + buffer[offset + n] \in T
      <3>1. PICK b \in Nat : b = buffer[offset + n]
        OBVIOUS
      <3>2. 256 * x + b \in Nat
        OBVIOUS
      <3> QED
        BY <3>1, <3>2
    <2> HIDE DEF T
    <2> QED
      BY <2>1
  <1>4. PICK v : LoopOf(v, T, 0, width, step)
    <2> HIDE DEF T, step
    <2> QED
      BY <1>1, <1>2, LoopExists
  <1>5. NumberRuns(v, buffer, offset, width)
    <2>1. ASSUME NEW n \in 1..width
          PROVE  v[n] = 256 * v[n - 1] + buffer[offset + n]
      <3>1. n - 1 \in 0..width
        OBVIOUS
      <3>2. <<v[n - 1], n>> \in T \X (1..width)
        BY <1>4, <3>1 DEF LoopOf
      <3> QED
        BY <1>4, <3>2 DEF LoopOf
    <2>2. \A n \in 0..width : n = 0 \/ n \in 1..width
      OBVIOUS
    <2> QED
      BY <1>4, <2>1, <2>2 DEF LoopOf, NumberRuns
  <1>6. /\ NumberRuns(d, buffer, offset, width)
        /\ NumberAt(buffer, offset, width) = d[width]
    <2>1. NumberRuns(d, buffer, offset, width)
      BY <1>5
    <2>2. NumberAt(buffer, offset, width) = d[width]
      BY DEF NumberAt, NumberRuns
    <2> QED
      BY <2>1, <2>2
  <1> HIDE DEF d
  <1>7. /\ d[0] = 0
        /\ \A n \in 1..width : d[n] = 256 * d[n - 1] + buffer[offset + n]
    <2>1. \A n \in 1..width : n \in 0..width /\ n # 0
      OBVIOUS
    <2>2. 0 \in 0..width
      OBVIOUS
    <2> QED
      BY <1>6, <2>1, <2>2 DEF NumberRuns
  <1>8. LoopOf(d, T, 0, width, step)
    <2>1. d = [n \in 0..width |-> d[n]]
      BY <1>6 DEF NumberRuns
    <2>2. \A n \in 1..width : d[n - 1] \in T => d[n] = step[<<d[n - 1], n>>]
      BY <1>7
    <2> HIDE DEF T, step
    <2> QED
      BY <1>1, <1>2, <1>7, <2>1, <2>2, LoopTyped
  <1>9. d[width] \in Nat /\ \A n \in 1..width : d[n - 1] \in Nat
    <2>1. width \in 0..width /\ \A n \in 1..width : n - 1 \in 0..width
      OBVIOUS
    <2> QED
      BY <1>8, <2>1 DEF LoopOf
  <1> QED
    BY <1>6, <1>7, <1>9 DEF Numbers

\* The numbers that a field of so many bytes holds.
Holds(width, v) ==
    \/ width = 1 /\ v < 256
    \/ width = 2 /\ v < 65536
    \/ width = 4 /\ v \div 65536 < 65536

LEMMA BigEndianType ==
    ASSUME NEW v \in Nat, NEW width \in {1, 2, 4}
    PROVE  /\ BigEndian(v, width) \in Seq(Nat) /\ Len(BigEndian(v, width)) = width
           /\ \A i \in 1..width : BigEndian(v, width)[i] \in Nat
  <1>1. ASSUME NEW i \in 1..width
        PROVE  (v \div 256^(width - i)) % 256 \in Nat
    BY SMT
  <1>2. width \in Nat
    OBVIOUS
  <1> QED
    BY <1>1, <1>2, SMT DEF BigEndian

LEMMA NumberIs ==
    ASSUME NEW buffer, NEW offset \in Nat, NEW width, NEW v \in Nat,
           Holds(width, v),
           \A i \in 1..width : buffer[offset + i] = BigEndian(v, width)[i]
    PROVE  NumberAt(buffer, offset, width) = v
  <1>1. width \in {1, 2, 4} /\ width \in Nat
    BY SMT DEF Holds
  <1>2. \A i \in 1..width : BigEndian(v, width)[i] = (v \div 256^(width - i)) % 256
    BY DEF BigEndian
  <1>3. \A i \in 1..width : buffer[offset + i] \in Nat
    BY <1>1, BigEndianType
  <1>10. PICK d : /\ Numbers(d, buffer, offset, width)
                  /\ NumberAt(buffer, offset, width) = d[width]
                  /\ NumberAt(buffer, offset, width) \in Nat
    BY <1>1, <1>3, NumberLoop
  <1>4. /\ d[0] = 0 /\ NumberAt(buffer, offset, width) = d[width]
        /\ \A n \in 1..width :
              d[n - 1] \in Nat /\ d[n] = 256 * d[n - 1] + buffer[offset + n]
    BY <1>10 DEF Numbers
  <1>5. \A n \in 1..width :
            d[n] = 256 * d[n - 1] + ((v \div 256^(width - n)) % 256)
    BY <1>2, <1>4
  <1>6. CASE width = 1
    <2>1. d[1] = 256 * d[0] + ((v \div 256^0) % 256)
      BY <1>5, <1>6, SMT
    <2>2. v < 256
      BY <1>6 DEF Holds
    <2> QED
      BY <1>4, <1>6, <2>1, <2>2, SMT
  <1>7. CASE width = 2
    <2>1. d[1] = 256 * d[0] + ((v \div 256^1) % 256)
      BY <1>5, <1>7, SMT
    <2>2. d[2] = 256 * d[1] + ((v \div 256^0) % 256)
      BY <1>5, <1>7, SMT
    <2>3. v < 65536
      BY <1>7, SMT DEF Holds
    <2> QED
      BY <1>4, <1>7, <2>1, <2>2, <2>3, SMT
  <1>8. CASE width = 4
    <2>1. d[1] = 256 * d[0] + ((v \div 256^3) % 256)
      BY <1>5, <1>8, SMT
    <2>2. d[2] = 256 * d[1] + ((v \div 256^2) % 256)
      BY <1>5, <1>8, SMT
    <2>3. d[3] = 256 * d[2] + ((v \div 256^1) % 256)
      BY <1>5, <1>8, SMT
    <2>4. d[4] = 256 * d[3] + ((v \div 256^0) % 256)
      BY <1>5, <1>8, SMT
    <2>5. v \div 65536 < 65536
      BY <1>8, SMT DEF Holds
    <2> QED
      BY <1>4, <1>8, <2>1, <2>2, <2>3, <2>4, <2>5, SMT
  <1> QED
    BY <1>1, <1>6, <1>7, <1>8

\* The bytes of a field before those of a string, and those.
WidthOf(kind) == IF kind = "string" THEN 2 ELSE Width[kind]

Rest(f) == IF f.kind = "string" THEN f.value ELSE 0

FieldBytes(b, f) ==
    /\ b \in Seq(Nat) /\ Len(b) = WidthOf(f.kind) + Rest(f)
    /\ \A i \in 1..WidthOf(f.kind) : b[i] = BigEndian(f.value, WidthOf(f.kind))[i]

LEMMA FieldIs ==
    ASSUME NEW f \in Fields
    PROVE  /\ f.value \in Nat /\ WidthOf(f.kind) \in {1, 2, 4} /\ Rest(f) \in Nat
           /\ Holds(WidthOf(f.kind), f.value)
           /\ FieldBytes(Bytes(f), f)
  <1>1. PICK k, v : /\ k = f.kind /\ v = f.value
                    /\ \/ k = "byte" /\ v \in Values /\ v < 256
                       \/ k = "uint16" /\ v \in Values /\ v < 65536
                       \/ k = "uint32" /\ v \in Values /\ v \div 65536 < 65536
                       \/ k = "string" /\ v \in Lengths
    BY SMT DEF Fields
  <1>2. \A x \in Values : x \in Nat
    BY CodecsAssumption, SMT
  <1>3. \A x \in Lengths : x \in Nat /\ x < 65536
    <2>1. \A x \in 0..MaxShort : x \in Nat /\ x <= MaxShort
      <3>1. PICK w \in Nat : w = MaxShort
        BY SMT DEF MaxShort
      <3>2. \A x \in 0..w : x \in Nat /\ x <= w
        OBVIOUS
      <3> QED
        BY <3>1, <3>2, Zenon
    <2>2. Lengths \subseteq 0..MaxShort
      BY CodecsAssumption, SMT
    <2>3. \A x \in Lengths : x \in Nat /\ x <= MaxShort
      BY <2>1, <2>2
    <2> QED
      BY <2>3, SMT DEF MaxShort
  <1>4. v \in Nat
    BY <1>1, <1>2, <1>3, SMT
  <1>5. PICK w \in {1, 2, 4} : w = WidthOf(k) /\ Holds(w, v)
    BY <1>1, <1>2, <1>3, SMT DEF WidthOf, Width, Holds
  <1>10. f.kind = k /\ f.value = v
    BY <1>1
  <1>6. WidthOf(f.kind) = w /\ f.value = v
    BY <1>5, <1>10, Zenon
  <1>7. PICK b \in Seq(Nat) : b = BigEndian(v, w) /\ w = Len(b)
    BY <1>4, BigEndianType
  <1>8. CASE k # "string"
    <2>1. Bytes(f) = b /\ Rest(f) = 0
      BY <1>1, <1>5, <1>7, <1>8 DEF Bytes, Rest, WidthOf
    <2>2. Len(b) = w + 0
      BY <1>5, <1>7
    <2>3. FieldBytes(Bytes(f), f)
      BY <1>6, <1>7, <2>1, <2>2, Zenon DEF FieldBytes
    <2>4. Rest(f) \in Nat
      BY <2>1
    <2> QED
      BY <1>4, <1>5, <1>6, <2>3, <2>4, Zenon
  <1>9. CASE k = "string"
    <2>1. PICK z \in Seq(Nat) : z = [i \in 1..v |-> 82] /\ v = Len(z)
      <3>1. [i \in 1..v |-> 82] \in Seq(Nat) /\ Len([i \in 1..v |-> 82]) = v
        BY <1>4
      <3> QED
        BY <3>1
    <2>2. w = 2
      BY <1>5, <1>9, Zenon DEF WidthOf
    <2>3. f.kind = "string" /\ b = BigEndian(f.value, 2)
          /\ z = [i \in 1..f.value |-> 82]
      BY <1>7, <1>9, <1>10, <2>1, <2>2, Zenon
    <2>4. Bytes(f) = b \o z
      BY <2>3, Zenon DEF Bytes
    <2>5. Rest(f) = v
      BY <1>10, <2>3, Zenon DEF Rest
    <2>6. /\ b \o z \in Seq(Nat) /\ Len(b \o z) = w + v
          /\ \A i \in 1..w : (b \o z)[i] = b[i]
      <3>1. /\ b \in Seq(Nat) /\ z \in Seq(Nat) /\ w \in Nat /\ v \in Nat
            /\ w = Len(b) /\ v = Len(z)
        BY <1>4, <1>7, <2>1, <2>2
      <3> QED
        BY <3>1, Joined
    <2>7. FieldBytes(Bytes(f), f)
      BY <1>6, <1>7, <2>4, <2>5, <2>6, Zenon DEF FieldBytes
    <2> QED
      BY <1>4, <1>5, <1>6, <2>5, <2>7, Zenon
  <1> QED
    BY <1>8, <1>9

\* What Payload has put together after n fields.
PayloadRuns(p, fs) ==
    p = [n \in 0..Len(fs) |->
            IF n = 0 THEN <<>> ELSE p[n - 1] \o Bytes(fs[n])]

Payloads(p, fs, m) ==
    /\ p \in [0..m -> Seq(Nat)] /\ p[0] = <<>>
    /\ \A n \in 1..m : p[n] = p[n - 1] \o Bytes(fs[n])

LEMMA PayloadLoop ==
    ASSUME NEW fs \in Seq(Fields), NEW m \in Nat, m = Len(fs)
    PROVE  \E p : Payloads(p, fs, m) /\ Payload(fs) = p[m]
  <1> DEFINE T == Seq(Nat)
             step == [p \in T \X (1..m) |-> p[1] \o Bytes(fs[p[2]])]
             d == CHOOSE p : PayloadRuns(p, fs)
  <1>1. <<>> \in T
    BY EmptySeq
  <1>2. \A n \in 1..m : Bytes(fs[n]) \in T
    <2>1. ASSUME NEW n \in 1..m
          PROVE  Bytes(fs[n]) \in T
      <3>1. PICK f \in Fields : f = fs[n]
        BY ElementOfSeq
      <3> QED
        BY <3>1, FieldIs DEF FieldBytes
    <2> QED
      BY <2>1
  <1>3. step \in [T \X (1..m) -> T]
    <2>1. \A p \in T \X (1..m) : p[1] \o Bytes(fs[p[2]]) \in T
      BY <1>2
    <2> QED
      BY <2>1
  <1>4. PICK p : LoopOf(p, T, <<>>, m, step)
    <2> HIDE DEF T, step
    <2> QED
      BY <1>1, <1>3, LoopExists
  <1>5. PayloadRuns(p, fs)
    <2>1. ASSUME NEW n \in 1..m
          PROVE  p[n] = p[n - 1] \o Bytes(fs[n])
      <3>1. n - 1 \in 0..m
        OBVIOUS
      <3>2. <<p[n - 1], n>> \in T \X (1..m)
        BY <1>4, <3>1 DEF LoopOf
      <3> QED
        BY <1>4, <3>2 DEF LoopOf
    <2>2. \A n \in 0..m : n = 0 \/ n \in 1..m
      OBVIOUS
    <2> QED
      BY <1>4, <2>1, <2>2 DEF LoopOf, PayloadRuns
  <1>6. Payload(fs) = d[m] /\ PayloadRuns(d, fs)
    BY <1>5 DEF Payload, PayloadRuns
  <1> HIDE DEF d
  <1>7. /\ d[0] = <<>>
        /\ \A n \in 1..m : d[n] = d[n - 1] \o Bytes(fs[n])
    <2>1. \A n \in 1..m : n \in 0..m /\ n # 0
      OBVIOUS
    <2>2. 0 \in 0..m
      OBVIOUS
    <2> QED
      BY <1>6, <2>1, <2>2 DEF PayloadRuns
  <1>8. LoopOf(d, T, <<>>, m, step)
    <2>1. d = [n \in 0..m |-> d[n]]
      BY <1>6 DEF PayloadRuns
    <2>2. \A n \in 1..m : d[n - 1] \in T => d[n] = step[<<d[n - 1], n>>]
      BY <1>7
    <2> HIDE DEF T, step
    <2> QED
      BY <1>1, <1>3, <1>7, <2>1, <2>2, LoopTyped
  <1> QED
    BY <1>6, <1>7, <1>8 DEF LoopOf, Payloads

\* A field adds its number, in width bytes from offset on, and rest more.
AddsField(r, offset, f) ==
    /\ r \in Seq(Nat)
    /\ Len(r) = offset + WidthOf(f.kind) + Rest(f)
    /\ \A i \in 1..WidthOf(f.kind) :
          r[offset + i] = BigEndian(f.value, WidthOf(f.kind))[i]

LEMMA PayloadField ==
    ASSUME NEW a \in Seq(Nat), NEW k \in Nat, k = Len(a), NEW f \in Fields
    PROVE  AddsField(a \o Bytes(f), k, f) /\ Longer(a \o Bytes(f), a)
  <1>1. PICK b \in Seq(Nat) : b = Bytes(f) /\ FieldBytes(b, f)
    BY FieldIs DEF FieldBytes
  <1>2. PICK w \in Nat, x \in Nat : w = WidthOf(f.kind) /\ x = Rest(f)
    BY FieldIs
  <1>3. PICK l \in Nat : l = Len(b)
    BY LenProperties
  <1>4. l = w + x /\ \A i \in 1..w : b[i] = BigEndian(f.value, w)[i]
    BY <1>1, <1>2, <1>3, Zenon DEF FieldBytes
  <1>5. /\ a \o b \in Seq(Nat) /\ Len(a \o b) = k + l
        /\ \A i \in 1..k : (a \o b)[i] = a[i]
        /\ \A i \in 1..l : (a \o b)[k + i] = b[i]
    <2>1. /\ a \in Seq(Nat) /\ b \in Seq(Nat) /\ k \in Nat /\ l \in Nat
          /\ k = Len(a) /\ l = Len(b)
      BY <1>1, <1>3
    <2>2. Follow(a \o b, a, b, k, l)
      BY <2>1, NumbersJoined
    <2> QED
      BY <2>2, Zenon DEF Follow
  <1>6. PICK r \in Seq(Nat) : r = a \o b
    BY <1>5
  <1>7. k + l = k + w + x /\ k <= k + l /\ \A i \in 1..w : i \in 1..l
    BY <1>2, <1>3, <1>4
  <1>8. \A i \in 1..w : r[k + i] = BigEndian(f.value, w)[i]
    BY <1>4, <1>5, <1>6, <1>7
  <1>9. AddsField(r, k, f)
    BY <1>2, <1>5, <1>6, <1>7, <1>8, Zenon DEF AddsField
  <1>10. Longer(r, a)
    BY <1>5, <1>6, <1>7, Zenon DEF Longer
  <1> QED
    BY <1>1, <1>6, <1>9, <1>10

LEMMA PayloadRounds ==
    ASSUME NEW fs \in Seq(Fields), NEW m \in Nat, m = Len(fs),
           NEW p, Payloads(p, fs, m)
    PROVE  /\ \A n \in 0..m : p[n] \in Seq(Nat) /\ Len(p[n]) \in Nat
           /\ \A n \in 1..m : fs[n] \in Fields
                              /\ AddsField(p[n], Len(p[n - 1]), fs[n])
           /\ Grows(p, m)
  <1>1. \A n \in 0..m : p[n] \in Seq(Nat) /\ Len(p[n]) \in Nat
    BY LenProperties DEF Payloads
  <1>2. ASSUME NEW n \in 1..m
        PROVE  /\ fs[n] \in Fields /\ AddsField(p[n], Len(p[n - 1]), fs[n])
               /\ Longer(p[n], p[n - 1])
    <2>1. n - 1 \in 0..m
      OBVIOUS
    <2>2. PICK a \in Seq(Nat) : a = p[n - 1]
      BY <1>1, <2>1
    <2>3. PICK k \in Nat : k = Len(a)
      BY LenProperties
    <2>4. PICK f \in Fields : f = fs[n]
      BY ElementOfSeq
    <2>5. p[n] = a \o Bytes(f)
      BY <2>2, <2>4 DEF Payloads
    <2>6. AddsField(a \o Bytes(f), k, f) /\ Longer(a \o Bytes(f), a)
      BY <2>3, PayloadField
    <2> QED
      BY <2>2, <2>3, <2>4, <2>5, <2>6
  <1>3. Grows(p, m)
    BY <1>1, <1>2, RoundsGrow
  <1> QED
    BY <1>1, <1>2, <1>3

\* The fields that have been read, and where the next one begins.
Reading == [ok : BOOLEAN, offset : Nat, values : Seq(Nat)]

LEMMA NumberType ==
    ASSUME NEW buffer \in Seq(Nat), NEW offset \in Nat, NEW width \in {1, 2, 4},
           offset + width <= Len(buffer)
    PROVE  NumberAt(buffer, offset, width) \in Nat
  <1>1. PICK l \in Nat : l = Len(buffer)
    BY LenProperties
  <1>2. \A i \in 1..width : offset + i \in 1..l
    BY <1>1
  <1>3. \A i \in 1..width : buffer[offset + i] \in Nat
    BY <1>1, <1>2, ElementOfSeq
  <1>4. width \in Nat
    OBVIOUS
  <1> QED
    BY <1>3, <1>4, NumberLoop

\* A field of width + rest bytes is read, when it is all there.
Read(buffer, acc, width, rest, value) ==
    IF /\ acc.ok /\ acc.offset + width <= Len(buffer)
       /\ acc.offset + width + rest <= Len(buffer)
    THEN [ok |-> TRUE, offset |-> acc.offset + width + rest,
          values |-> Append(acc.values, value)]
    ELSE [acc EXCEPT !.ok = FALSE]

RestOf(kind, value) == IF kind = "string" THEN value ELSE 0

LEMMA DecodeFieldIs ==
    ASSUME NEW buffer, NEW acc, NEW kind
    PROVE  LET width == WidthOf(kind)
               value == NumberAt(buffer, acc.offset, width)
           IN  DecodeField(buffer, acc, kind)
                   = Read(buffer, acc, width, RestOf(kind, value), value)
  BY Zenon DEF DecodeField, WidthOf, RestOf, Read

LEMMA DecodeFieldType ==
    ASSUME NEW buffer \in Seq(Nat), NEW acc \in Reading, NEW kind,
           WidthOf(kind) \in {1, 2, 4}
    PROVE  DecodeField(buffer, acc, kind) \in Reading
  <1>1. PICK width \in {1, 2, 4} : width = WidthOf(kind)
    OBVIOUS
  <1>2. PICK value : value = NumberAt(buffer, acc.offset, width)
    OBVIOUS
  <1>3. PICK rest : rest = RestOf(kind, value)
    OBVIOUS
  <1>4. PICK o \in Nat, q \in Seq(Nat) : o = acc.offset /\ q = acc.values
    BY DEF Reading
  <1>5. DecodeField(buffer, acc, kind) =
            IF acc.ok /\ o + width <= Len(buffer) /\ o + width + rest <= Len(buffer)
            THEN [ok |-> TRUE, offset |-> o + width + rest,
                  values |-> Append(q, value)]
            ELSE [acc EXCEPT !.ok = FALSE]
    <2>1. DecodeField(buffer, acc, kind) = Read(buffer, acc, width, rest, value)
      BY <1>1, <1>2, <1>3, DecodeFieldIs, Zenon
    <2> QED
      BY <1>4, <2>1, Zenon DEF Read
  <1>6. [acc EXCEPT !.ok = FALSE] \in Reading
    BY DEF Reading
  <1>7. ASSUME o + width <= Len(buffer)
        PROVE  [ok |-> TRUE, offset |-> o + width + rest,
                values |-> Append(q, value)] \in Reading
    <2>1. value \in Nat
      BY <1>1, <1>2, <1>4, <1>7, NumberType
    <2>2. rest \in Nat
      BY <1>3, <2>1 DEF RestOf
    <2>3. o + width + rest \in Nat
      BY <1>1, <1>4, <2>2
    <2>4. Append(q, value) \in Seq(Nat)
      BY <1>4, <2>1
    <2> QED
      BY <2>3, <2>4 DEF Reading
  <1> QED
    BY <1>5, <1>6, <1>7

\* Of n bytes, the first k fields have been read, which take o bytes; or
\* they are not all there.
HasRead(r, o, fs, k, n) ==
    IF o <= n
    THEN /\ r.ok = TRUE /\ r.offset = o /\ Len(r.values) = k
         /\ \A i \in 1..k : r.values[i] = fs[i].value
    ELSE r.ok = FALSE

\* The number of a field lies at offset o, as far as there are n bytes.
NumberThere(buffer, o, f, n) ==
    \A i \in 1..WidthOf(f.kind) :
        o + i <= n => buffer[o + i] = BigEndian(f.value, WidthOf(f.kind))[i]

LEMMA FieldRound ==
    ASSUME NEW buffer \in Seq(Nat), NEW n \in Nat, n = Len(buffer),
           NEW acc \in Reading, NEW f \in Fields, NEW fs,
           NEW k \in Nat \ {0}, f = fs[k],
           NEW o \in Nat, HasRead(acc, o, fs, k - 1, n),
           NEW end, end = o + WidthOf(f.kind) + Rest(f),
           NumberThere(buffer, o, f, n)
    PROVE  HasRead(DecodeField(buffer, acc, f.kind), end, fs, k, n)
  <1>1. PICK width \in {1, 2, 4} : width = WidthOf(f.kind)
    BY FieldIs
  <1>2. PICK v \in Nat, x \in Nat : v = f.value /\ x = Rest(f)
    BY FieldIs
  <1>3. end = o + width + x /\ end \in Nat
    BY <1>1, <1>2
  <1>4. CASE o + width <= n
    <2>1. o <= n /\ \A i \in 1..width : o + i <= n
      BY <1>1, <1>4
    <2>2. /\ acc.ok = TRUE /\ acc.offset = o /\ Len(acc.values) = k - 1
          /\ \A i \in 1..(k - 1) : acc.values[i] = fs[i].value
      BY <2>1 DEF HasRead
    <2>3. \A i \in 1..width : buffer[o + i] = BigEndian(v, width)[i]
      BY <1>1, <1>2, <2>1, Zenon DEF NumberThere
    <2>4. Holds(width, v)
      BY <1>1, <1>2, FieldIs, Zenon
    <2>5. v = NumberAt(buffer, o, width)
      BY <2>3, <2>4, NumberIs
    <2>6. x = RestOf(f.kind, v)
      BY <1>2, Zenon DEF Rest, RestOf
    <2>7. DecodeField(buffer, acc, f.kind) =
              IF acc.ok /\ o + width <= n /\ o + width + x <= n
              THEN [ok |-> TRUE, offset |-> o + width + x,
                    values |-> Append(acc.values, v)]
              ELSE [acc EXCEPT !.ok = FALSE]
      <3>1. v = NumberAt(buffer, acc.offset, width)
        BY <2>2, <2>5, Zenon
      <3>2. DecodeField(buffer, acc, f.kind) = Read(buffer, acc, width, x, v)
        BY <1>1, <2>6, <3>1, DecodeFieldIs, Zenon
      <3> QED
        BY <2>2, <3>2, Zenon DEF Read
    <2>8. CASE end <= n
      <3>1. PICK r : r = DecodeField(buffer, acc, f.kind)
        OBVIOUS
      <3>2. PICK q \in Seq(Nat) : q = acc.values
        BY DEF Reading
      <3>3. r = [ok |-> TRUE, offset |-> end, values |-> Append(q, v)]
        BY <1>3, <1>4, <2>2, <2>7, <2>8, <3>1, <3>2, Zenon
      <3>4. PICK j \in Nat : j = k - 1
        OBVIOUS
      <3>5. Len(q) = j /\ \A i \in 1..j : q[i] = fs[i].value
        BY <2>2, <3>2, <3>4
      <3>6. PICK s \in Seq(Nat) : s = Append(q, v)
        <4>1. Append(q, v) \in Seq(Nat)
          BY <1>2, <3>2
        <4> QED
          BY <4>1
      <3>7. Len(s) = j + 1 /\ s[j + 1] = v /\ \A i \in 1..j : s[i] = q[i]
        BY <1>2, <3>2, <3>4, <3>5, <3>6
      <3>8. j + 1 = k /\ \A i \in 1..k : i \in 1..j \/ i = k
        BY <3>4
      <3>9. Len(s) = k /\ \A i \in 1..k : s[i] = fs[i].value
        BY <1>2, <3>5, <3>7, <3>8
      <3>10. r.ok = TRUE /\ r.offset = end /\ r.values = s
        BY <3>3, <3>6
      <3> QED
        BY <2>8, <3>1, <3>9, <3>10, Zenon DEF HasRead
    <2>9. CASE ~(end <= n)
      <3>1. DecodeField(buffer, acc, f.kind) = [acc EXCEPT !.ok = FALSE]
        BY <1>3, <2>7, <2>9, Zenon
      <3>2. DecodeField(buffer, acc, f.kind).ok = FALSE
        BY <3>1 DEF Reading
      <3> QED
        BY <2>9, <3>2, Zenon DEF HasRead
    <2> QED
      BY <2>8, <2>9
  <1>5. CASE ~(o + width <= n)
    <2>1. ~(end <= n)
      BY <1>1, <1>2, <1>3, <1>5
    <2>2. PICK value : value = NumberAt(buffer, acc.offset, width)
      OBVIOUS
    <2>3. PICK rest : rest = RestOf(f.kind, value)
      OBVIOUS
    <2>4. acc.ok => acc.offset = o
      BY DEF HasRead
    <2>5. DecodeField(buffer, acc, f.kind) =
              IF acc.ok /\ acc.offset + width <= n /\ acc.offset + width + rest <= n
              THEN [ok |-> TRUE, offset |-> acc.offset + width + rest,
                    values |-> Append(acc.values, value)]
              ELSE [acc EXCEPT !.ok = FALSE]
      <3>1. DecodeField(buffer, acc, f.kind) = Read(buffer, acc, width, rest, value)
        BY <1>1, <2>2, <2>3, DecodeFieldIs, Zenon
      <3> QED
        BY <3>1, Zenon DEF Read
    <2>6. DecodeField(buffer, acc, f.kind) = [acc EXCEPT !.ok = FALSE]
      BY <1>5, <2>4, <2>5, Zenon
    <2>7. DecodeField(buffer, acc, f.kind).ok = FALSE
      BY <2>6 DEF Reading
    <2> QED
      BY <2>1, <2>7, Zenon DEF HasRead
  <1> QED
    BY <1>4, <1>5

\* What DecodeFields has read after n fields.
ReadRuns(r, buffer, kinds) ==
    r = [n \in 0..Len(kinds) |->
            IF n = 0 THEN [ok |-> TRUE, offset |-> 0, values |-> <<>>]
            ELSE DecodeField(buffer, r[n - 1], kinds[n])]

Reads(r, buffer, kinds, m) ==
    /\ r \in [0..m -> Reading]
    /\ r[0] = [ok |-> TRUE, offset |-> 0, values |-> <<>>]
    /\ \A n \in 1..m : r[n] = DecodeField(buffer, r[n - 1], kinds[n])

LEMMA DecodeFieldsLoop ==
    ASSUME NEW buffer \in Seq(Nat), NEW kinds, NEW m \in Nat, m = Len(kinds),
           \A n \in 1..m : WidthOf(kinds[n]) \in {1, 2, 4}
    PROVE  \E r : Reads(r, buffer, kinds, m) /\ DecodeFields(buffer, kinds) = r[m]
  <1> DEFINE T == Reading
             base == [ok |-> TRUE, offset |-> 0, values |-> <<>>]
             step == [p \in T \X (1..m) |-> DecodeField(buffer, p[1], kinds[p[2]])]
             d == CHOOSE r : ReadRuns(r, buffer, kinds)
  <1>1. base \in T
    BY EmptySeq DEF Reading
  <1>2. step \in [T \X (1..m) -> T]
    <2>1. \A p \in T \X (1..m) : DecodeField(buffer, p[1], kinds[p[2]]) \in T
      BY DecodeFieldType
    <2> QED
      BY <2>1
  <1>3. PICK r : LoopOf(r, T, base, m, step)
    <2> HIDE DEF T, step, base
    <2> QED
      BY <1>1, <1>2, LoopExists
  <1>4. ReadRuns(r, buffer, kinds)
    <2>1. ASSUME NEW n \in 1..m
          PROVE  r[n] = DecodeField(buffer, r[n - 1], kinds[n])
      <3>1. n - 1 \in 0..m
        OBVIOUS
      <3>2. <<r[n - 1], n>> \in T \X (1..m)
        BY <1>3, <3>1 DEF LoopOf
      <3> QED
        BY <1>3, <3>2 DEF LoopOf
    <2>2. \A n \in 0..m : n = 0 \/ n \in 1..m
      OBVIOUS
    <2> QED
      BY <1>3, <2>1, <2>2 DEF LoopOf, ReadRuns
  <1>5. DecodeFields(buffer, kinds) = d[m] /\ ReadRuns(d, buffer, kinds)
    BY <1>4 DEF DecodeFields, ReadRuns
  <1> HIDE DEF d
  <1>6. /\ d[0] = base
        /\ \A n \in 1..m : d[n] = DecodeField(buffer, d[n - 1], kinds[n])
    <2>1. \A n \in 1..m : n \in 0..m /\ n # 0
      OBVIOUS
    <2>2. 0 \in 0..m
      OBVIOUS
    <2> QED
      BY <1>5, <2>1, <2>2 DEF ReadRuns
  <1>7. LoopOf(d, T, base, m, step)
    <2>1. d = [n \in 0..m |-> d[n]]
      BY <1>5 DEF ReadRuns
    <2>2. \A n \in 1..m : d[n - 1] \in T => d[n] = step[<<d[n - 1], n>>]
      BY <1>6
    <2> HIDE DEF T, step, base
    <2> QED
      BY <1>1, <1>2, <1>6, <2>1, <2>2, LoopTyped
  <1> QED
    BY <1>5, <1>6, <1>7 DEF LoopOf, Reads

\* Of the first n bytes of a payload, the fields are read that are all there.
LEMMA FieldsRead ==
    ASSUME NEW fs \in Seq(Fields), NEW m \in Nat, m = Len(fs),
           NEW p, Payloads(p, fs, m),
           NEW n \in 0..Len(p[m])
    PROVE  HasRead(DecodeFields(SubSeq(p[m], 1, n), [i \in 1..m |-> fs[i].kind]),
                   Len(p[m]), fs, m, n)
  <1>1. PICK kinds : kinds = [i \in 1..m |-> fs[i].kind]
    OBVIOUS
  <1>2. m = Len(kinds) /\ \A i \in 1..m : kinds[i] = fs[i].kind
    BY <1>1
  <1>3. /\ \A k \in 0..m : p[k] \in Seq(Nat) /\ Len(p[k]) \in Nat
        /\ \A k \in 1..m : fs[k] \in Fields
                           /\ AddsField(p[k], Len(p[k - 1]), fs[k])
        /\ Grows(p, m)
    BY PayloadRounds
  <1>4. PICK payload \in Seq(Nat), size \in Nat : payload = p[m] /\ size = Len(payload)
    <2>1. m \in 0..m
      OBVIOUS
    <2> QED
      BY <1>3, <2>1
  <1>5. n \in Nat /\ n <= size
    BY <1>4
  <1>6. PICK buffer \in Seq(Nat) : /\ buffer = SubSeq(payload, 1, n) /\ n = Len(buffer)
                                   /\ \A i \in 1..n : buffer[i] = payload[i]
    <2>1. \A i \in 1..n : i \in 1..Len(payload)
      BY <1>4, <1>5
    <2>2. \A i \in 1..n : payload[i] \in Nat
      BY <1>4, <2>1, ElementOfSeq
    <2>3. /\ SubSeq(payload, 1, n) \in Seq(Nat)
          /\ Len(SubSeq(payload, 1, n)) = IF 1 <= n THEN n - 1 + 1 ELSE 0
          /\ \A i \in 1..(n - 1 + 1) :
                SubSeq(payload, 1, n)[i] = payload[1 + i - 1]
      BY <1>5, <2>2, SubSeqProperties
    <2>4. n = Len(SubSeq(payload, 1, n))
      BY <1>5, <2>3
    <2>5. \A i \in 1..n : i \in 1..(n - 1 + 1) /\ 1 + i - 1 = i
      BY <1>5
    <2>6. \A i \in 1..n : SubSeq(payload, 1, n)[i] = payload[i]
      BY <2>3, <2>5
    <2> QED
      BY <2>3, <2>4, <2>6
  <1>7. \A i \in 1..m : WidthOf(kinds[i]) \in {1, 2, 4}
    BY <1>2, <1>3, FieldIs
  <1>8. PICK r : Reads(r, buffer, kinds, m) /\ DecodeFields(buffer, kinds) = r[m]
    BY <1>2, <1>7, DecodeFieldsLoop
  <1> DEFINE G == {k \in 0..m : HasRead(r[k], Len(p[k]), fs, k, n)}
  <1>9. 0 \in G
    <2>1. p[0] = <<>> /\ Len(p[0]) = 0
      BY EmptySeq DEF Payloads
    <2>2. r[0] = [ok |-> TRUE, offset |-> 0, values |-> <<>>]
      BY <1>8 DEF Reads
    <2>3. /\ r[0].ok = TRUE /\ r[0].offset = 0 /\ Len(r[0].values) = 0
          /\ \A i \in 1..0 : r[0].values[i] = fs[i].value
      BY <2>2, EmptySeq
    <2>4. 0 \in 0..m /\ 0 <= n
      BY <1>5
    <2> QED
      BY <2>1, <2>3, <2>4, Zenon DEF HasRead
  <1>10. ASSUME NEW k \in 1..m, k - 1 \in G
         PROVE  k \in G
    <2>1. k - 1 \in 0..m /\ k \in 0..m /\ k \in Nat \ {0}
      OBVIOUS
    <2>2. PICK acc \in Reading : acc = r[k - 1]
      BY <1>8, <2>1 DEF Reads
    <2>3. PICK f \in Fields : f = fs[k]
      BY <1>3
    <2>4. PICK o \in Nat, end \in Nat : o = Len(p[k - 1]) /\ end = Len(p[k])
      BY <1>3, <2>1
    <2>5. PICK width \in {1, 2, 4} : width = WidthOf(f.kind)
      BY FieldIs
    <2>6. AddsField(p[k], o, f)
      BY <1>3, <2>3, <2>4
    <2>7. /\ end = o + width + Rest(f)
          /\ \A i \in 1..width : p[k][o + i] = BigEndian(f.value, width)[i]
      BY <2>4, <2>5, <2>6, Zenon DEF AddsField
    <2>8. Rest(f) \in Nat
      BY FieldIs
    <2>9. \A i \in 1..width : /\ o + i \in 1..end
                              /\ o + i <= n => o + i \in 1..n
      BY SMTT(30), <1>5, <2>4, <2>5, <2>7, <2>8
    <2>10. \A i \in 1..end : p[k][i] = payload[i]
      BY <1>3, <1>4, <2>1, <2>4, Zenon DEF Grows
    <2>11. \A i \in 1..width :
               o + i <= n => buffer[o + i] = BigEndian(f.value, width)[i]
      BY <1>6, <2>7, <2>9, <2>10, Zenon
    <2>12. HasRead(acc, o, fs, k - 1, n)
      BY <1>10, <2>2, <2>4, Zenon
    <2>13. HasRead(DecodeField(buffer, acc, f.kind), end, fs, k, n)
      <3>1. /\ n \in Nat /\ n = Len(buffer) /\ k \in Nat \ {0} /\ f = fs[k]
            /\ buffer \in Seq(Nat) /\ acc \in Reading /\ f \in Fields /\ o \in Nat
        BY <1>5, <1>6, <2>1, <2>2, <2>3, <2>4
      <3>2. end = o + WidthOf(f.kind) + Rest(f)
        BY <2>5, <2>7, Zenon
      <3>3. NumberThere(buffer, o, f, n)
        BY <2>5, <2>11, Zenon DEF NumberThere
      <3> QED
        BY <2>12, <3>1, <3>2, <3>3, FieldRound
    <2>14. r[k] = DecodeField(buffer, acc, f.kind)
      BY <1>2, <1>8, <2>2, <2>3, Zenon DEF Reads
    <2> QED
      BY <2>1, <2>4, <2>13, <2>14, Zenon
  <1>11. \A k \in 0..m : k \in G
    <2> HIDE DEF G
    <2> QED
      BY <1>9, <1>10, Rounds
  <1>12. m \in 0..m
    OBVIOUS
  <1> QED
    BY <1>1, <1>4, <1>6, <1>8, <1>11, <1>12, Zenon

LEMMA PayloadRead ==
    ASSUME NEW fs \in Seq(Fields)
    PROVE  /\ Payload(fs) \in Seq(Nat) /\ Len(Payload(fs)) \in Nat
           /\ \A n \in 0..Len(Payload(fs)) :
                 HasRead(DecodeFields(SubSeq(Payload(fs), 1, n),
                                      [i \in 1..Len(fs) |-> fs[i].kind]),
                         Len(Payload(fs)), fs, Len(fs), n)
  <1>1. PICK m \in Nat : m = Len(fs)
    BY LenProperties
  <1>2. PICK p : Payloads(p, fs, m) /\ Payload(fs) = p[m]
    BY <1>1, PayloadLoop
  <1>3. m \in 0..m
    OBVIOUS
  <1>4. p[m] \in Seq(Nat) /\ Len(p[m]) \in Nat
    BY <1>1, <1>2, <1>3, PayloadRounds
  <1>5. ASSUME NEW n \in 0..Len(p[m])
        PROVE  HasRead(DecodeFields(SubSeq(p[m], 1, n), [i \in 1..m |-> fs[i].kind]),
                       Len(p[m]), fs, m, n)
    BY <1>1, <1>2, FieldsRead
  <1> QED
    BY <1>1, <1>2, <1>4, <1>5, Zenon

\* What the length in the header says to the receiver.
LengthOf(size) == (HeaderSize + size) % 65536

LEMMA LengthIs ==
    ASSUME NEW size \in Nat
    PROVE  /\ LengthOf(size) \in Nat /\ Holds(2, LengthOf(size))
           /\ EncodeHeader(size) = <<82, 66>> \o BigEndian(LengthOf(size), 2)
  <1>1. LengthOf(size) \in Nat /\ Holds(2, LengthOf(size))
    BY SMT DEF LengthOf, Holds, HeaderSize
  <1>2. EncodeHeader(size) = <<82, 66>> \o BigEndian(LengthOf(size), 2)
    BY SMT DEF LengthOf, EncodeHeader
  <1> QED
    BY <1>1, <1>2

LEMMA SizeDecoded ==
    ASSUME NEW size \in Nat, NEW more \in Int,
           NEW length, length = LengthOf(size)
    PROVE  DecodeSize(EncodeHeader(size), more) =
               IF length >= HeaderSize /\ HeaderSize + more >= length
               THEN {length - HeaderSize} ELSE {}
  <1>1. length \in Nat /\ Holds(2, length)
    BY LengthIs
  <1>2. PICK b \in Seq(Nat) : b = BigEndian(length, 2) /\ Len(b) = 2
    BY <1>1, BigEndianType
  <1>3. PICK h : h = <<82, 66>> \o b
    OBVIOUS
  <1>4. PICK s \in Seq(Nat) : s = <<82, 66>> /\ Len(s) = 2 /\ s[1] = 82 /\ s[2] = 66
    <2>1. <<82, 66>> \in Seq(Nat)
      OBVIOUS
    <2> QED
      BY <2>1
  <1>5. /\ \A i \in 1..2 : h[i] = s[i]
        /\ \A i \in 1..2 : h[2 + i] = b[i]
    <2>1. 2 \in Nat /\ 2 = Len(s) /\ 2 = Len(b)
      BY <1>2, <1>4
    <2> QED
      BY <1>2, <1>3, <1>4, <2>1, Joined
  <1>6. h[1] = 82 /\ h[2] = 66
    BY <1>4, <1>5
  <1>7. EncodeHeader(size) = h
    BY <1>2, <1>3, LengthIs, Zenon
  <1>8. NumberAt(h, 2, 2) = length
    <2>2. \A i \in 1..2 : h[2 + i] = BigEndian(length, 2)[i]
      BY <1>2, <1>5, Zenon
    <2>3. 2 \in Nat
      OBVIOUS
    <2> QED
      BY <1>1, <2>2, <2>3, NumberIs, SMTT(60)
  <1> QED
    BY <1>6, <1>7, <1>8, Zenon DEF DecodeSize

\* The length is right for a payload that it leaves room for, and wraps for
\* a longer one.
LEMMA SizeExact ==
    ASSUME NEW size \in Nat
    PROVE  IF size <= MaxPayload
           THEN /\ \A more \in size..(size + 9) :
                      DecodeSize(EncodeHeader(size), more) = {size}
                /\ \A more \in {0, size - 1} \ {size} :
                      DecodeSize(EncodeHeader(size), more) = {}
           ELSE DecodeSize(EncodeHeader(size), size) # {size}
  <1>1. PICK length \in Nat : length = LengthOf(size)
    BY LengthIs
  <1>2. \A more \in Int :
            DecodeSize(EncodeHeader(size), more) =
                IF length >= HeaderSize /\ HeaderSize + more >= length
                THEN {length - HeaderSize} ELSE {}
    BY <1>1, SizeDecoded
  <1>3. CASE size <= MaxPayload
    <2>1. length = HeaderSize + size
      BY <1>1, <1>3, SMT DEF LengthOf, HeaderSize, MaxPayload, MaxShort
    <2>2. \A more \in Int :
              /\ more >= size => DecodeSize(EncodeHeader(size), more) = {size}
              /\ more < size => DecodeSize(EncodeHeader(size), more) = {}
      <3>1. HeaderSize \in Nat
        BY DEF HeaderSize
      <3>2. \A more \in Int : HeaderSize + more >= length <=> more >= size
        BY <2>1, <3>1
      <3>3. length >= HeaderSize /\ length - HeaderSize = size
        BY <2>1, <3>1
      <3>4. \A more \in Int : more < size <=> ~(more >= size)
        OBVIOUS
      <3> QED
        BY <1>2, <3>2, <3>3, <3>4, Zenon
    <2>3. \A more \in size..(size + 9) : more \in Int /\ more >= size
      OBVIOUS
    <2>4. \A more \in {0, size - 1} \ {size} : more \in Int /\ more < size
      OBVIOUS
    <2> QED
      BY <1>3, <2>2, <2>3, <2>4, Zenon
  <1>4. CASE ~(size <= MaxPayload)
    <2>1. length - HeaderSize # size
      BY <1>1, <1>4, SMT DEF LengthOf, HeaderSize, MaxPayload, MaxShort
    <2>2. \/ DecodeSize(EncodeHeader(size), size) = {length - HeaderSize}
          \/ DecodeSize(EncodeHeader(size), size) = {}
      BY <1>2
    <2> QED
      BY <1>4, <2>1, <2>2, Zenon
  <1> QED
    BY <1>3, <1>4

LEMMA TypedMessage == TypeOK => MessageExact
  <1> SUFFICES ASSUME TypeOK PROVE MessageExact
    OBVIOUS
  <1>1. fields \in Seq(Fields) /\ block \in Nat
    BY CodecsAssumption, SMT DEF TypeOK
  <1>2. PICK m \in Nat : m = Len(fields)
    BY <1>1, LenProperties
  <1>3. PICK payload : payload = Payload(fields)
    OBVIOUS
  <1>9. PICK l \in Nat : l = Len(payload)
    BY <1>1, <1>3, PayloadRead
  <1> DEFINE read(n) == DecodeFields(SubSeq(payload, 1, n),
                                     [i \in 1..Len(fields) |-> fields[i].kind])
  <1>4. \A n \in 0..l : HasRead(read(n), l, fields, m, n)
    BY <1>1, <1>2, <1>3, <1>9, PayloadRead, Zenon
  <1> HIDE DEF read
  <1>5. \A n \in 0..l : read(n).ok <=> n = l
    <2>1. ASSUME NEW n \in 0..l
          PROVE  read(n).ok <=> n = l
      <3>1. l <= n <=> n = l
        OBVIOUS
      <3> QED
        BY <1>4, <3>1, Zenon DEF HasRead
    <2> QED
      BY <2>1
  <1>6. read(l).offset = l /\ \A i \in 1..m : read(l).values[i] = fields[i].value
    <2>1. l \in 0..l /\ l <= l
      OBVIOUS
    <2> QED
      BY <1>4, <2>1, Zenon DEF HasRead
  <1>7. PICK size \in Nat : size = l + block
    BY <1>1
  <1>8. IF size <= MaxPayload
        THEN /\ \A more \in size..(size + 9) :
                   DecodeSize(EncodeHeader(size), more) = {size}
             /\ \A more \in {0, size - 1} \ {size} :
                   DecodeSize(EncodeHeader(size), more) = {}
        ELSE DecodeSize(EncodeHeader(size), size) # {size}
    BY SizeExact
  <1>10. /\ m = Len(fields) /\ l = Len(Payload(fields))
         /\ size = Len(Payload(fields)) + block
    BY <1>2, <1>3, <1>7, <1>9, Zenon
  <1>11. \A n : read(n) = DecodeFields(SubSeq(Payload(fields), 1, n),
                                     [i \in 1..Len(fields) |-> fields[i].kind])
    BY <1>3, Zenon DEF read
  <1> QED
    BY <1>5, <1>6, <1>8, <1>10, <1>11, ZenonT(60) DEF MessageExact

-----------------------------------------------------------------------------
(* The specification.                                                      *)

LEMMA TypedAddresses == TypeOK => AddressesInverse
  <1> SUFFICES ASSUME TypeOK, address # Empty
               PROVE  /\ DecodeAddress(EncodeAddress(address)) = address
                      /\ EncodeAddress(DecodeAddress(address)) = address
    BY DEF AddressesInverse
  <1>1. address \in Word24
    BY ModulusIs DEF TypeOK
  <1> QED
    BY <1>1, DecodeOfEncode, EncodeOfDecode

\* What the coder puts into the input field is an address of 24 bits again.
LEMMA PressType ==
    ASSUME TypeOK, address # Empty
    PROVE  /\ EncodeAddress(address) \in 0..(Modulus - 1)
           /\ DecodeAddress(address) \in 0..(Modulus - 1)
  <1>1. address \in Word24
    BY ModulusIs DEF TypeOK
  <1>2. EncodeAddress(address) \in Word24 /\ DecodeAddress(address) \in Word24
    BY <1>1, DecodeOfEncode, EncodeOfDecode
  <1> QED
    BY <1>2, ModulusIs

LEMMA InitType == Init => TypeOK
  <1> SUFFICES ASSUME Init PROVE TypeOK
    OBVIOUS
  <1>1. response \in Seq(AnyBytes) /\ fields \in Seq(Fields)
    BY EmptySeq DEF Init
  <1>2. Addresses \subseteq 0..(Modulus - 1) /\ MaxPresses \in Nat
    BY CodecsAssumption
  <1>3. address = Empty \/ address \in 0..(Modulus - 1)
    BY <1>2 DEF Init
  <1>4. block \in Blocks \cup {0} /\ presses \in 0..MaxPresses
    BY <1>2 DEF Init
  <1> QED
    BY <1>1, <1>3, <1>4 DEF TypeOK

LEMMA NextType == TypeOK /\ [Next]_vars => TypeOK'
  <1> SUFFICES ASSUME TypeOK, [Next]_vars PROVE TypeOK'
    OBVIOUS
  <1>1. /\ response \in Seq(AnyBytes)
        /\ fields \in Seq(Fields) /\ block \in Blocks \cup {0}
        /\ address = Empty \/ address \in 0..(Modulus - 1)
        /\ presses \in 0..MaxPresses
    BY DEF TypeOK
  <1>2. CASE Grow
    <2>1. PICK b \in AnyBytes : response' = Append(response, b)
      BY <1>2 DEF Grow
    <2>2. response' \in Seq(AnyBytes)
      BY <1>1, <2>1
    <2>3. UNCHANGED <<fields, block, address, presses>>
      BY <1>2 DEF Grow, message
    <2> QED
      BY <1>1, <2>2, <2>3 DEF TypeOK
  <1>3. CASE EndExchange
    <2>1. response' \in Seq(AnyBytes)
      BY <1>3, EmptySeq DEF EndExchange
    <2>2. UNCHANGED <<fields, block, address, presses>>
      BY <1>3 DEF EndExchange, message
    <2> QED
      BY <1>1, <2>1, <2>2 DEF TypeOK
  <1>4. CASE AddField
    <2>1. PICK f \in Fields : fields' = Append(fields, f)
      BY <1>4 DEF AddField
    <2>2. fields' \in Seq(Fields)
      BY <1>1, <2>1
    <2>3. UNCHANGED <<response, block, address, presses>>
      BY <1>4 DEF AddField
    <2> QED
      BY <1>1, <2>2, <2>3 DEF TypeOK
  <1>5. CASE AddBlock
    <2>1. block' \in Blocks \cup {0} /\ UNCHANGED <<response, fields, address, presses>>
      BY <1>5 DEF AddBlock
    <2> QED
      BY <1>1, <2>1 DEF TypeOK
  <1>6. CASE SendMessage
    <2>1. fields' \in Seq(Fields) /\ block' \in Blocks \cup {0}
      BY <1>6, EmptySeq DEF SendMessage
    <2>2. UNCHANGED <<response, address, presses>>
      BY <1>6 DEF SendMessage
    <2> QED
      BY <1>1, <2>1, <2>2 DEF TypeOK
  <1>7. ASSUME NEW result \in 0..(Modulus - 1), Press(result)
        PROVE  TypeOK'
    <2>1. presses < MaxPresses /\ presses' = presses + 1 /\ address' = result
      BY <1>7 DEF Press
    <2>2. MaxPresses \in Nat
      BY CodecsAssumption
    <2>3. presses' \in 0..MaxPresses
      BY <1>1, <2>1, <2>2
    <2>4. UNCHANGED <<response, fields, block>>
      BY <1>7 DEF Press, message
    <2> QED
      BY <1>1, <1>7, <2>1, <2>3, <2>4 DEF TypeOK
  <1>8. CASE OnEncodeAddress
    <2>1. address # Empty
      BY <1>8 DEF OnEncodeAddress, Press
    <2> QED
      BY <1>7, <1>8, <2>1, PressType DEF OnEncodeAddress
  <1>9. CASE OnDecodeAddress
    <2>1. address # Empty
      BY <1>9 DEF OnDecodeAddress, Press
    <2> QED
      BY <1>7, <1>9, <2>1, PressType DEF OnDecodeAddress
  <1>10. CASE Type
    <2>1. Addresses \subseteq 0..(Modulus - 1) /\ MaxPresses \in Nat
      BY CodecsAssumption
    <2>2. address' \in 0..(Modulus - 1) /\ presses' \in 0..MaxPresses
      BY <1>10, <2>1 DEF Type
    <2>3. UNCHANGED <<response, fields, block>>
      BY <1>10 DEF Type, message
    <2> QED
      BY <1>1, <2>2, <2>3 DEF TypeOK
  <1>11. CASE UNCHANGED vars
    <2>1. UNCHANGED <<response, fields, block, address, presses>>
      BY <1>11 DEF vars, message
    <2> QED
      BY <1>1, <2>1 DEF TypeOK
  <1> QED
    BY <1>2, <1>3, <1>4, <1>5, <1>6, <1>8, <1>9, <1>10, <1>11 DEF Next

\* The state stays what the codecs are made for: bytes, fields that fit
\* their widths, and addresses of 24 bits, those included that the coder's
\* buttons put into its input field.
THEOREM CodecsTypeCorrect == Spec => []TypeOK
  <1> QED
    BY InitType, NextType, PTL DEF Spec

\* Escaped, cut by the window, followed by anything and decoded again, any
\* response is what was sent, and a transaction keeps all its bits.
THEOREM TransferIsExact == Spec => []TransferExact
  <1> QED
    BY CodecsTypeCorrect, TypedTransfer, PTL

\* Any payload of any fields is read back field by field to its end, refused
\* when it is cut, and framed by its length exactly as long as 16 bits hold
\* that.
THEOREM MessageIsExact == Spec => []MessageExact
  <1> QED
    BY CodecsTypeCorrect, TypedMessage, PTL

\* The coefficients are a basis of the numbers modulo 2^24: for every address,
\* encoding and decoding undo each other.
THEOREM AddressesAreInverse == Spec => []AddressesInverse
  <1> QED
    BY CodecsTypeCorrect, TypedAddresses, PTL
=============================================================================
