-------------------------- MODULE SpiServiceProofs --------------------------
(***************************************************************************)
(* Proofs about PatchBuffer: what uploadPatchBuffer lays out, the server   *)
(* reads back and the FPGA applies, for lists of any patches that          *)
(* uploadPatchBuffer lets pass and that fit a message.                     *)
(*                                                                         *)
(* Proofs about SpiService: a transaction is read once and in order, an    *)
(* upload that is answered with success is in the FPGA as it was asked     *)
(* for, and the FPGA never applies a mixture.  For any number of users,    *)
(* any uploads and any number of transactions and of calls under way.      *)
(*                                                                         *)
(* Proofs about Cli: a command is a user of SpiService, an exit status of  *)
(* 0 can be relied on, and no transaction goes missing between several     *)
(* readers.  For any processes, commands and patches.                      *)
(***************************************************************************)
EXTENDS Cli, FiniteSetTheorems, RequestLineProofs

-----------------------------------------------------------------------------
(* Least elements.  They stand in for induction: a statement about          *)
(* positions fails nowhere when it has no first position at which it fails. *)

LEMMA LeastElement ==
    ASSUME NEW n \in Nat, NEW T \in SUBSET (0..n), T # {}
    PROVE  \E m \in T : \A k \in T : m <= k
  <1> DEFINE U == 0..n
             Below == {0..k : k \in T}
  <1>1. IsFiniteSet(U)
    BY FS_Interval
  <1>2. IsWellFoundedOn(StrictSubsetOrdering(U), SUBSET U)
    BY <1>1, FS_StrictSubsetOrderingWellFounded, FS_FiniteSubsetsOfFinite
  <1>3. Below \subseteq SUBSET U /\ Below # {}
    <2>1. ASSUME NEW k \in T PROVE 0..k \in SUBSET U
      <3>1. k \in 0..n
        OBVIOUS
      <3> QED
        BY <3>1
    <2> QED
      BY <2>1
  <1>4. PICK x \in Below :
            \A y \in Below : <<y, x>> \notin StrictSubsetOrdering(U)
    <2> HIDE DEF Below, U
    <2> QED
      BY <1>2, <1>3, WFMin
  <1>5. PICK m \in T : x = 0..m
    OBVIOUS
  <1>6. ASSUME NEW k \in T, k < m
        PROVE  FALSE
    <2>1. 0..k \in SUBSET U /\ 0..m \in SUBSET U
      OBVIOUS
    <2>2. 0..k \subseteq 0..m /\ m \in 0..m /\ m \notin 0..k
      BY <1>6
    <2>3. <<0..k, 0..m>> \in StrictSubsetOrdering(U)
      BY <2>1, <2>2 DEF StrictSubsetOrdering
    <2> QED
      BY <1>4, <1>5, <2>3
  <1> QED
    BY <1>6

LEMMA MinLeast ==
    ASSUME NEW n \in Nat, NEW T \in SUBSET (0..n), T # {}
    PROVE  Min(T) \in T /\ \A k \in T : Min(T) <= k
  BY LeastElement DEF Min

-----------------------------------------------------------------------------
(* The positions of the data.                                              *)

\* f holds the lengths of the data before each patch, up to the n-th.
Sums(f, ps, n) ==
    /\ f \in [0..n -> Nat] /\ f[0] = 0
    /\ \A i \in 1..n : f[i] = f[i - 1] + ps[i].len

LEMMA SumsExist ==
    ASSUME NEW ps, PatchList(ps)
    PROVE  \A n \in 0..Len(ps) : \E f : Sums(f, ps, n)
  <1> DEFINE T == {n \in 0..Len(ps) : ~\E f : Sums(f, ps, n)}
  <1>1. Len(ps) \in Nat /\ \A i \in 1..Len(ps) : ps[i].len \in Nat
    BY DEF PatchList
  <1>2. SUFFICES ASSUME T # {}
                 PROVE  FALSE
    OBVIOUS
  <1>3. PICK m \in T : \A k \in T : m <= k
    <2>1. T \in SUBSET (0..Len(ps))
      OBVIOUS
    <2> HIDE DEF T
    <2> QED
      BY <1>1, <1>2, <2>1, LeastElement
  <1>4. CASE m = 0
    <2>1. Sums([i \in 0..0 |-> 0], ps, 0)
      BY DEF Sums
    <2> QED
      BY <1>4, <2>1
  <1>5. CASE m # 0
    <2>1. m - 1 \in 0..Len(ps) /\ m - 1 \notin T
      <3>1. m \in 0..Len(ps)
        OBVIOUS
      <3> HIDE DEF T
      <3>2. m - 1 \in 0..Len(ps) /\ ~(m <= m - 1)
        BY <1>1, <1>5, <3>1
      <3> QED
        BY <1>3, <3>2
    <2>2. PICK f : Sums(f, ps, m - 1)
      BY <2>1
    <2> DEFINE g == [i \in 0..m |->
                        IF i = m THEN f[m - 1] + ps[m].len ELSE f[i]]
    <2>3. Sums(g, ps, m)
      BY <1>1, <1>5, <2>2 DEF Sums
    <2> QED
      BY <2>3
  <1> QED
    BY <1>4, <1>5

LEMMA BeforeSums ==
    ASSUME NEW ps, PatchList(ps)
    PROVE  Sums(Before(ps), ps, Len(ps))
  <1> DEFINE n == Len(ps)
  <1>1. n \in Nat
    BY DEF PatchList
  <1>2. PICK f : Sums(f, ps, n)
    BY <1>1, SumsExist
  <1>3. f = [i \in 0..n |-> IF i = 0 THEN 0 ELSE f[i - 1] + ps[i].len]
    BY <1>1, <1>2 DEF Sums
  <1>4. Before(ps) = [i \in 0..n |->
            IF i = 0 THEN 0 ELSE Before(ps)[i - 1] + ps[i].len]
    BY <1>3 DEF Before
  <1> DEFINE T == {i \in 0..n : Before(ps)[i] \notin Nat}
  <1>5. T = {}
    <2>1. SUFFICES ASSUME T # {}
                   PROVE  FALSE
      OBVIOUS
    <2>2. PICK m \in T : \A k \in T : m <= k
      <3>1. T \in SUBSET (0..n)
        OBVIOUS
      <3> HIDE DEF T
      <3> QED
        BY <1>1, <2>1, <3>1, LeastElement
    <2>3. m \in 0..n /\ Before(ps)[m] \notin Nat
      OBVIOUS
    <2>4. m # 0
      BY <1>1, <1>4, <2>3
    <2>5. m - 1 \in 0..n /\ ~(m <= m - 1)
      BY <1>1, <2>3, <2>4
    <2>6. Before(ps)[m - 1] \in Nat
      BY <2>2, <2>5
    <2>7. Before(ps)[m] = Before(ps)[m - 1] + ps[m].len
      BY <1>4, <2>3, <2>4
    <2> QED
      BY <1>1, <2>3, <2>4, <2>6, <2>7 DEF PatchList
  <1>6. Before(ps) \in [0..n -> Nat]
    <2>1. \A i \in 0..n : Before(ps)[i] \in Nat
      BY <1>5
    <2> QED
      BY <1>4, <2>1
  <1>7. Before(ps)[0] = 0
    BY <1>1, <1>4
  <1>8. ASSUME NEW i \in 1..n
        PROVE  Before(ps)[i] = Before(ps)[i - 1] + ps[i].len
    BY <1>1, <1>4
  <1> QED
    BY <1>6, <1>7, <1>8 DEF Sums

LEMMA BeforeFacts ==
    ASSUME NEW ps, PatchList(ps)
    PROVE  /\ Len(ps) \in Nat /\ Before(ps) \in [0..Len(ps) -> Nat]
           /\ \A i \in 1..Len(ps) :
                 /\ ps[i].len \in Nat /\ i - 1 \in 0..Len(ps)
                 /\ Before(ps)[i] \in Nat /\ Before(ps)[i - 1] \in Nat
                 /\ Before(ps)[i] = Before(ps)[i - 1] + ps[i].len
  <1>1. Len(ps) \in Nat /\ \A i \in 1..Len(ps) : ps[i].len \in Nat
    BY DEF PatchList
  <1>2. Sums(Before(ps), ps, Len(ps))
    BY BeforeSums
  <1>3. \A i \in 1..Len(ps) : i \in 0..Len(ps) /\ i - 1 \in 0..Len(ps)
    BY <1>1
  <1> QED
    BY <1>1, <1>2, <1>3 DEF Sums

LEMMA ValidLengths ==
    ASSUME NEW ps, ValidUpload(ps), NEW i \in 1..Len(ps)
    PROVE  ps[i].len \in Nat /\ ps[i].len >= 1
  <1>1. MaxLength \in Nat
    BY DEF MaxLength
  <1>2. ps[i].len \in 1..MaxLength
    BY DEF ValidUpload, ValidPatch
  <1> QED
    BY <1>1, <1>2

\* Later data starts no earlier; as no patch that is valid is empty, no two
\* of them start at the same place.
LEMMA BeforeGrows ==
    ASSUME NEW ps, PatchList(ps)
    PROVE  \A i, j \in 0..Len(ps) : i < j =>
               /\ Before(ps)[i] <= Before(ps)[j]
               /\ ValidUpload(ps) => Before(ps)[i] < Before(ps)[j]
  <1> DEFINE n == Len(ps)
             B == Before(ps)
             less(x, y) == B[x] <= B[y] /\ (ValidUpload(ps) => B[x] < B[y])
             T == {j \in 0..n : \E i \in 0..n : i < j /\ ~less(i, j)}
  <1>1. /\ n \in Nat /\ B \in [0..n -> Nat]
        /\ \A i \in 1..n : /\ B[i] = B[i - 1] + ps[i].len
                           /\ ps[i].len \in Nat
                           /\ B[i] \in Nat /\ B[i - 1] \in Nat
                           /\ ValidUpload(ps) => ps[i].len >= 1
    <2>1. ValidUpload(ps) => \A i \in 1..n : ps[i].len >= 1
      BY ValidLengths
    <2> QED
      BY <2>1, BeforeFacts
  <1> HIDE DEF B
  <1>2. T = {}
    <2>1. SUFFICES ASSUME T # {}
                   PROVE  FALSE
      OBVIOUS
    <2>2. PICK m \in T : \A k \in T : m <= k
      <3>1. T \in SUBSET (0..n)
        OBVIOUS
      <3> HIDE DEF T
      <3> QED
        BY <1>1, <2>1, <3>1, LeastElement
    <2>3. PICK i \in 0..n : i < m /\ ~less(i, m)
      OBVIOUS
    <2>4. m \in 1..n
      BY <1>1, <2>3
    <2>5. less(m - 1, m) /\ B[m - 1] \in Nat /\ B[m] \in Nat
      <3>1. /\ B[m] = B[m - 1] + ps[m].len /\ ps[m].len \in Nat
            /\ B[m - 1] \in Nat /\ B[m] \in Nat
            /\ ValidUpload(ps) => ps[m].len >= 1
        BY <1>1, <2>4
      <3> QED
        BY <3>1
    <2>6. i # m - 1
      BY <2>3, <2>5
    <2>7. i < m - 1 /\ m - 1 \in 0..n
      <3>1. i < m
        BY <2>3
      <3> HIDE DEF T
      <3> QED
        BY <1>1, <2>4, <2>6, <3>1
    <2>8. m - 1 \notin T
      <3> HIDE DEF T
      <3>1. ~(m <= m - 1)
        BY <2>4
      <3> QED
        BY <2>2, <3>1
    <2>9. less(i, m - 1)
      BY <2>3, <2>7, <2>8
    <2>10. B[i] \in Nat
      BY <1>1
    <2> QED
      BY <2>3, <2>5, <2>9, <2>10
  <1>3. ASSUME NEW i \in 0..n, NEW j \in 0..n, i < j
        PROVE  less(i, j)
    BY <1>2, <1>3
  <1> QED
    BY <1>3 DEF B

-----------------------------------------------------------------------------
(* The layout.                                                             *)

LEMMA SixteenBits ==
    ASSUME NEW k \in Nat, k < 65536
    PROVE  k % 65536 = k
  OBVIOUS

\* Where the data of patch i starts.
Position(ps, i) == 8 * Len(ps) + 1 + Before(ps)[i - 1]

LEMMA Layout ==
    ASSUME NEW ps, PatchList(ps), FitsMessage(ps),
           NEW i \in 1..Len(ps)
    PROVE  /\ Build(ps).headers[i].stored = ps[i].enabled
           /\ Build(ps).headers[i].addr = ps[i].addr
           /\ Build(ps).headers[i].len = ps[i].len
           /\ Build(ps).headers[i].off = Position(ps, i)
           /\ Position(ps, i) \in Nat /\ Build(ps).size \in Nat
           /\ Position(ps, i) + ps[i].len <= Build(ps).size
           /\ 8 * i <= Build(ps).size
  <1> DEFINE n == Len(ps)
             B == Before(ps)
  <1>1. /\ n \in Nat /\ B \in [0..n -> Nat]
        /\ B[i] = B[i - 1] + ps[i].len
        /\ ps[i].len \in Nat /\ B[i - 1] \in Nat /\ B[i] \in Nat
    BY BeforeFacts
  <1>2. Build(ps).size = 8 * n + 1 + B[n]
    BY DEF Build
  <1>3. B[i] <= B[n] /\ B[i] \in Nat /\ B[n] \in Nat /\ B[i - 1] \in Nat
    <2>1. CASE i = n
      BY <1>1, <2>1
    <2>2. CASE i # n
      <3>1. i < n /\ i \in 0..n /\ n \in 0..n
        BY <1>1, <2>2
      <3> QED
        BY <1>1, <3>1, BeforeGrows
    <2> QED
      BY <2>1, <2>2
  <1>4. /\ Position(ps, i) = 8 * n + 1 + B[i - 1]
        /\ Position(ps, i) \in Nat
    BY <1>1, <1>3 DEF Position
  <1>5. /\ Build(ps).headers[i].stored = ps[i].enabled
        /\ Build(ps).headers[i].addr = ps[i].addr
        /\ Build(ps).headers[i].len = ps[i].len % 65536
        /\ Build(ps).headers[i].off = Position(ps, i) % 65536
    BY <1>4 DEF Build, DataStart
  <1> HIDE DEF n, B
  <1>6. /\ Build(ps).size \in Nat /\ 8 * i <= Build(ps).size
        /\ Position(ps, i) + ps[i].len <= Build(ps).size
    <2>1. i \in Nat /\ i <= n
      BY <1>1 DEF n
    <2>2. Build(ps).size \in Nat
      BY <1>1, <1>2, <1>3
    <2>3. 8 * i <= 8 * n
      BY <1>1, <2>1
    <2>4. 8 * i <= Build(ps).size
      BY <1>1, <1>2, <1>3, <2>1, <2>3
    <2>5. Position(ps, i) + ps[i].len = 8 * n + 1 + B[i]
      BY SMTT(30), <1>1, <1>3, <1>4
    <2> QED
      BY <1>1, <1>2, <1>3, <2>2, <2>4, <2>5
  <1>7. Position(ps, i) < 65536 /\ ps[i].len < 65536
    <2>1. Build(ps).size < 65536
      BY <1>6 DEF FitsMessage, HeaderSize
    <2>2. /\ Position(ps, i) + ps[i].len <= Build(ps).size
          /\ Build(ps).size \in Nat /\ Position(ps, i) \in Nat
          /\ ps[i].len \in Nat
      BY <1>1, <1>4, <1>6
    <2> QED
      BY <2>1, <2>2
  <1>8. /\ ps[i].len % 65536 = ps[i].len
        /\ Position(ps, i) % 65536 = Position(ps, i)
    <2>1. ps[i].len \in Nat /\ Position(ps, i) \in Nat
      BY <1>1, <1>4
    <2> QED
      BY <1>7, <2>1, SixteenBits
  <1> QED
    BY <1>4, <1>5, <1>6, <1>8

\* A header leads to the data of its patch and to no other.
LEMMA SliceExact ==
    ASSUME NEW ps, PatchList(ps), ValidUpload(ps), FitsMessage(ps),
           NEW i \in 1..Len(ps)
    PROVE  Slice(Build(ps), Position(ps, i), ps[i].len) = ps[i].data
  <1> DEFINE chunk(j) == [at |-> Position(ps, j), len |-> ps[j].len,
                          data |-> ps[j].data]
             there == {c \in Build(ps).chunks :
                          c.at = Position(ps, i) /\ c.len = ps[i].len}
  <1>1. Build(ps).chunks = {chunk(j) : j \in 1..Len(ps)}
    BY DEF Build, Position
  <1>2. ASSUME NEW j \in 1..Len(ps), Position(ps, j) = Position(ps, i)
        PROVE  j = i
    <2>1. Len(ps) \in Nat
      BY BeforeFacts
    <2>2. /\ i - 1 \in 0..Len(ps) /\ j - 1 \in 0..Len(ps)
          /\ Before(ps)[i - 1] \in Nat /\ Before(ps)[j - 1] \in Nat
      BY BeforeFacts
    <2>3. Before(ps)[i - 1] = Before(ps)[j - 1]
      BY <1>2, <2>1, <2>2 DEF Position
    <2>4. ~(i - 1 < j - 1) /\ ~(j - 1 < i - 1)
      BY <2>2, <2>3, BeforeGrows
    <2> QED
      BY <2>4
  <1>3. there = {chunk(i)}
    BY <1>1, <1>2
  <1>4. Slice(Build(ps), Position(ps, i), ps[i].len)
            = IF there = {} THEN Junk ELSE (CHOOSE c \in there : TRUE).data
    BY DEF Slice
  <1> HIDE DEF there
  <1>5. (CHOOSE c \in there : TRUE) = chunk(i)
    BY <1>3
  <1> QED
    BY <1>3, <1>4, <1>5

-----------------------------------------------------------------------------
(* What the FPGA applies, and what the server reads.                       *)

LEMMA LengthOf ==
    ASSUME NEW n \in Nat, NEW f, f = [i \in 1..n |-> f[i]]
    PROVE  Len(f) = n
  <1> DEFINE S == {f[i] : i \in 1..n}
  <1>1. f \in [1..n -> S]
    OBVIOUS
  <1>2. f \in Seq(S)
    BY <1>1, SeqDef
  <1>3. DOMAIN f = 1..n /\ DOMAIN f = 1..Len(f) /\ Len(f) \in Nat
    BY <1>1, <1>2, LenProperties
  <1> QED
    BY <1>3

LEMMA HeaderCount ==
    ASSUME NEW ps, PatchList(ps)
    PROVE  Len(Build(ps).headers) = Len(ps)
  <1>1. Len(ps) \in Nat
    BY DEF PatchList
  <1>2. Build(ps).headers = [i \in 1..Len(ps) |-> Build(ps).headers[i]]
    BY DEF Build
  <1> QED
    BY <1>1, <1>2, LengthOf

\* The first disabled patch, or the end of the list.
Disabled(ps) == {i \in 1..Len(ps) : ~ps[i].enabled}
FirstDisabled(ps) == Min({Len(ps) + 1} \cup Disabled(ps))

\* The patches before it, numbered by whoever reads them.
EnabledPrefix(ps) ==
    [i \in 1..(FirstDisabled(ps) - 1) |-> [ps[i] EXCEPT !.id = i - 1]]

LEMMA FirstDisabledFacts ==
    ASSUME NEW ps, Len(ps) \in Nat
    PROVE  /\ FirstDisabled(ps) \in 1..(Len(ps) + 1)
           /\ \A i \in 1..(FirstDisabled(ps) - 1) :
                 i \in 1..Len(ps) /\ i \notin Disabled(ps)
           /\ Disabled(ps) = {} => FirstDisabled(ps) = Len(ps) + 1
  <1> DEFINE T == {Len(ps) + 1} \cup Disabled(ps)
             m == Min(T)
  <1>1. T \in SUBSET (0..(Len(ps) + 1)) /\ T # {} /\ Len(ps) + 1 \in Nat
    BY DEF Disabled
  <1>2. m \in T /\ \A k \in T : m <= k
    <2> HIDE DEF T
    <2> QED
      BY <1>1, MinLeast
  <1>3. m \in 1..(Len(ps) + 1)
    BY <1>2 DEF Disabled
  <1>4. FirstDisabled(ps) = m
    BY DEF FirstDisabled
  <1>5. ASSUME NEW i \in 1..(m - 1)
        PROVE  i \in 1..Len(ps) /\ i \notin Disabled(ps)
    <2>1. i \in 1..Len(ps) /\ ~(m <= i)
      BY <1>3
    <2> QED
      BY <1>2, <2>1
  <1>6. Disabled(ps) = {} => m = Len(ps) + 1
    BY <1>2
  <1> HIDE DEF m
  <1> QED
    BY <1>3, <1>4, <1>5, <1>6

LEMMA UpToEight ==
    ASSUME NEW n \in Nat, n <= 8
    PROVE  n \in 0..8
  OBVIOUS

LEMMA FewPatches ==
    ASSUME NEW ps, PatchList(ps), ValidUpload(ps)
    PROVE  Len(ps) \in 0..8
  <1>1. Len(ps) \in Nat
    BY DEF PatchList
  <1>2. Len(ps) <= 8
    BY DEF ValidUpload, MaxPatches
  <1> QED
    BY <1>1, <1>2, UpToEight

\* The numbers of the first n of m patches.
LEMMA FewIds ==
    ASSUME NEW m \in 0..8, NEW n \in 0..m, NEW i \in 1..n
    PROVE  i \in 1..m /\ i - 1 \in 0..255
  OBVIOUS

\* Numbering a patch changes its id alone.
LEMMA Renumbered ==
    ASSUME NEW p, NEW n, NEW a, NEW l, NEW d, NEW e, NEW j,
           p = [id |-> j, addr |-> a, len |-> l, data |-> d, enabled |-> e]
    PROVE  [p EXCEPT !.id = n] =
               [id |-> n, addr |-> a, len |-> l, data |-> d, enabled |-> e]
  OBVIOUS

LEMMA Fields ==
    ASSUME NEW p, NEW j, NEW a, NEW l, NEW d, NEW e,
           p = [id |-> j, addr |-> a, len |-> l, data |-> d, enabled |-> e]
    PROVE  /\ p.id = j /\ p.addr = a /\ p.len = l /\ p.enabled = e
           /\ p = [id |-> p.id, addr |-> p.addr, len |-> p.len,
                   data |-> p.data, enabled |-> p.enabled]
  OBVIOUS

\* What PatchList says, put together and taken apart.
LEMMA MakeList ==
    ASSUME NEW qs, Len(qs) \in Nat,
           \A i \in 1..Len(qs) : /\ qs[i].id \in 0..255
                                 /\ qs[i].addr \in Nat /\ qs[i].len \in Nat
                                 /\ qs[i].enabled \in BOOLEAN,
           qs = [i \in 1..Len(qs) |->
                    [id |-> qs[i].id, addr |-> qs[i].addr, len |-> qs[i].len,
                     data |-> qs[i].data, enabled |-> qs[i].enabled]]
    PROVE  PatchList(qs)
  BY DEF PatchList

LEMMA OnePatch ==
    ASSUME NEW n \in 0..255, NEW a \in Nat, NEW c \in Nat, NEW d,
           NEW e \in BOOLEAN
    PROVE  PatchList(<<[id |-> n, addr |-> a, len |-> c, data |-> d,
                        enabled |-> e]>>)
  <1> DEFINE q == [id |-> n, addr |-> a, len |-> c, data |-> d, enabled |-> e]
             qs == <<q>>
  <1>1. /\ q.id = n /\ q.addr = a /\ q.len = c /\ q.enabled = e
        /\ q = [id |-> q.id, addr |-> q.addr, len |-> q.len,
                data |-> q.data, enabled |-> q.enabled]
    BY Fields
  <1> HIDE DEF q
  <1>2. Len(qs) = 1 /\ qs[1] = q /\ qs = [i \in 1..1 |-> q]
    OBVIOUS
  <1> HIDE DEF qs
  <1>3. Len(qs) \in Nat
    BY <1>2
  <1>4. \A i \in 1..Len(qs) : i = 1 /\ qs[i] = q
    BY <1>2
  <1>5. \A i \in 1..Len(qs) : /\ qs[i].id \in 0..255
                              /\ qs[i].addr \in Nat /\ qs[i].len \in Nat
                              /\ qs[i].enabled \in BOOLEAN
    BY <1>1, <1>4
  <1>6. qs = [i \in 1..Len(qs) |->
                 [id |-> qs[i].id, addr |-> qs[i].addr, len |-> qs[i].len,
                  data |-> qs[i].data, enabled |-> qs[i].enabled]]
    BY <1>1, <1>2, <1>4
  <1>7. PatchList(qs)
    BY <1>3, <1>5, <1>6, MakeList
  <1> QED
    BY <1>7 DEF qs, q

LEMMA NewPatch ==
    ASSUME NEW a \in Nat, NEW c \in Nat, NEW d, NEW e \in BOOLEAN
    PROVE  PatchList(<<[id |-> 0, addr |-> a, len |-> c, data |-> d,
                        enabled |-> e]>>)
  <1>1. 0 \in 0..255
    OBVIOUS
  <1> QED
    BY <1>1, OnePatch

LEMMA OfList ==
    ASSUME NEW ps, PatchList(ps), NEW i \in 1..Len(ps)
    PROVE  /\ ps[i] = [id |-> ps[i].id, addr |-> ps[i].addr,
                       len |-> ps[i].len, data |-> ps[i].data,
                       enabled |-> ps[i].enabled]
           /\ ps[i].id \in 0..255 /\ ps[i].addr \in Nat
           /\ ps[i].len \in Nat /\ ps[i].enabled \in BOOLEAN
  BY DEF PatchList

LEMMA OfSingle ==
    ASSUME NEW p, PatchList(<<p>>)
    PROVE  /\ p = [id |-> p.id, addr |-> p.addr, len |-> p.len,
                   data |-> p.data, enabled |-> p.enabled]
           /\ p.id \in 0..255 /\ p.addr \in Nat
           /\ p.len \in Nat /\ p.enabled \in BOOLEAN
  <1> DEFINE s == <<p>>
  <1>1. 1 \in 1..Len(s) /\ s[1] = p
    OBVIOUS
  <1> HIDE DEF s
  <1>2. PatchList(s)
    BY DEF s
  <1>3. /\ s[1] = [id |-> s[1].id, addr |-> s[1].addr, len |-> s[1].len,
                   data |-> s[1].data, enabled |-> s[1].enabled]
        /\ s[1].id \in 0..255 /\ s[1].addr \in Nat
        /\ s[1].len \in Nat /\ s[1].enabled \in BOOLEAN
    BY <1>1, <1>2, OfList
  <1> QED
    BY <1>1, <1>3

\* Reading the headers before the first in stop gives the patches there.
LEMMA ReadExact ==
    ASSUME NEW ps, PatchList(ps), ValidUpload(ps), FitsMessage(ps),
           NEW stop, stop = Disabled(ps)
    PROVE  ReadHeaders(Build(ps), stop) = EnabledPrefix(ps)
  <1> DEFINE k == FirstDisabled(ps) - 1
             b == Build(ps)
             read(i) == [id      |-> i - 1,
                         addr    |-> b.headers[i].addr,
                         len     |-> b.headers[i].len,
                         data    |-> Slice(b, b.headers[i].off,
                                              b.headers[i].len),
                         enabled |-> TRUE]
  <1>1. ReadHeaders(b, stop) = [i \in 1..k |-> read(i)]
    BY HeaderCount DEF ReadHeaders, FirstDisabled
  <1>2. ASSUME NEW i \in 1..k
        PROVE  read(i) = [ps[i] EXCEPT !.id = i - 1]
    <2>1. i \in 1..Len(ps) /\ ps[i].enabled
      <3>1. Len(ps) \in Nat
        BY DEF PatchList
      <3> QED
        BY <3>1, FirstDisabledFacts DEF Disabled
    <2>2. /\ b.headers[i].addr = ps[i].addr /\ b.headers[i].len = ps[i].len
          /\ b.headers[i].off = Position(ps, i)
      BY <2>1, Layout
    <2>3. Slice(b, b.headers[i].off, b.headers[i].len) = ps[i].data
      BY <2>1, <2>2, SliceExact
    <2>4. ps[i].enabled = TRUE
      BY <2>1 DEF PatchList
    <2>5. ps[i] = [id |-> ps[i].id, addr |-> ps[i].addr, len |-> ps[i].len,
                   data |-> ps[i].data, enabled |-> ps[i].enabled]
      BY <2>1 DEF PatchList
    <2>6. [ps[i] EXCEPT !.id = i - 1] =
              [id |-> i - 1, addr |-> ps[i].addr, len |-> ps[i].len,
               data |-> ps[i].data, enabled |-> ps[i].enabled]
      BY <2>5, Renumbered
    <2> HIDE DEF b, k
    <2> QED
      BY <2>2, <2>3, <2>4, <2>6
  <1> HIDE DEF read, b, k
  <1>3. ReadHeaders(b, stop) = [i \in 1..k |-> [ps[i] EXCEPT !.id = i - 1]]
    BY <1>1, <1>2
  <1> QED
    BY <1>3 DEF EnabledPrefix, b, k

LEMMA TerminatorsDisabled ==
    ASSUME NEW ps, PatchList(ps), FitsMessage(ps)
    PROVE  /\ \A i \in 1..Len(ps) : Terminates(Build(ps), i) <=> ~ps[i].enabled
           /\ Len(Build(ps).headers) = Len(ps)
  BY HeaderCount, Layout DEF Terminates

LEMMA ActiveExact ==
    ASSUME NEW ps, PatchList(ps), ValidUpload(ps), FitsMessage(ps)
    PROVE  Active(Build(ps)) = EnabledPrefix(ps)
  <1>1. {i \in 1..Len(Build(ps).headers) : Terminates(Build(ps), i)}
            = Disabled(ps)
    BY TerminatorsDisabled DEF Disabled
  <1> QED
    BY <1>1, ReadExact DEF Active

LEMMA SizeFacts ==
    ASSUME NEW ps, PatchList(ps), FitsMessage(ps)
    PROVE  /\ Build(ps).size \in Nat /\ Carried(Build(ps)) = Build(ps)
           /\ Build(ps).size = 8 * Len(ps) + 1 + Before(ps)[Len(ps)]
  <1> DEFINE b == Build(ps)
  <1>1. b.size = 8 * Len(ps) + 1 + Before(ps)[Len(ps)]
    BY DEF Build
  <1>2. b.size \in Nat
    <2>1. Len(ps) \in Nat /\ Before(ps)[Len(ps)] \in Nat
      BY BeforeFacts
    <2> HIDE DEF b
    <2> QED
      BY <1>1, <2>1
  <1>3. CarriedSize(b.size) = b.size
    <2>1. 5 + b.size \in Nat /\ 5 + b.size < 65536
      BY <1>2 DEF FitsMessage, HeaderSize
    <2>2. (5 + b.size) % 65536 = 5 + b.size
      BY <2>1, SixteenBits
    <2> HIDE DEF b
    <2> QED
      BY <1>2, <2>2 DEF CarriedSize, HeaderSize
  <1>4. b = [headers |-> b.headers, chunks |-> b.chunks, size |-> b.size]
    BY DEF Build
  <1>5. Carried(b) = b
    <2> HIDE DEF b
    <2> QED
      BY <1>3, <1>4 DEF Carried
  <1> QED
    BY <1>1, <1>2, <1>5

\* A parser that goes by the size of the buffer reads what the FPGA applies.
LEMMA ParseIsActive ==
    ASSUME NEW ps, PatchList(ps), FitsMessage(ps)
    PROVE  Parse(Build(ps)) = Active(Build(ps))
  <1> DEFINE b == Build(ps)
             beyond(i) == \/ 8 * i > b.size
                          \/ Terminates(b, i)
                          \/ b.headers[i].off + b.headers[i].len > b.size
  <1>1. ASSUME NEW i \in 1..Len(ps)
        PROVE  beyond(i) <=> ~ps[i].enabled
    <2>1. /\ b.headers[i].len = ps[i].len /\ b.headers[i].off = Position(ps, i)
          /\ Position(ps, i) + ps[i].len <= b.size /\ 8 * i <= b.size
          /\ b.size \in Nat /\ Position(ps, i) \in Nat
      BY Layout
    <2>2. ps[i].len \in Nat
      BY BeforeFacts
    <2>3. Terminates(b, i) <=> ~ps[i].enabled
      BY TerminatorsDisabled
    <2> HIDE DEF b
    <2>4. ~(8 * i > b.size)
      BY <2>1
    <2>5. ~(b.headers[i].off + b.headers[i].len > b.size)
      BY <2>1, <2>2
    <2> QED
      BY <2>3, <2>4, <2>5
  <1>2. {i \in 1..Len(b.headers) : beyond(i)} = Disabled(ps)
    <2>1. Len(b.headers) = Len(ps)
      BY HeaderCount
    <2> HIDE DEF beyond, b
    <2> QED
      BY <1>1, <2>1 DEF Disabled
  <1>3. {i \in 1..Len(b.headers) : Terminates(b, i)} = Disabled(ps)
    BY TerminatorsDisabled DEF Disabled
  <1>4. Parse(b) = ReadHeaders(b, {i \in 1..Len(b.headers) : beyond(i)})
    BY DEF Parse
  <1> HIDE DEF beyond
  <1> QED
    BY <1>2, <1>3, <1>4 DEF Active

\* The server reads what the client has laid out.
LEMMA ParseExact ==
    ASSUME NEW ps, PatchList(ps), ValidUpload(ps), FitsMessage(ps)
    PROVE  Parse(Carried(Build(ps))) = EnabledPrefix(ps)
  BY ParseIsActive, ActiveExact, SizeFacts

-----------------------------------------------------------------------------
(* The patches up to the first disabled one, laid out again.               *)

\* The data of the first patches of a list have the positions that they have
\* in a list of their own.
LEMMA SamePositions ==
    ASSUME NEW ps, PatchList(ps), NEW qs, PatchList(qs),
           Len(qs) <= Len(ps), \A i \in 1..Len(qs) : qs[i].len = ps[i].len
    PROVE  \A i \in 0..Len(qs) : Before(qs)[i] = Before(ps)[i]
  <1> DEFINE k == Len(qs)
             A == Before(qs)
             B == Before(ps)
             T == {i \in 0..k : A[i] # B[i]}
  <1>1. /\ k \in Nat /\ A[0] = 0 /\ B[0] = 0
        /\ \A i \in 1..k : A[i] = A[i - 1] + qs[i].len
        /\ \A i \in 1..k : B[i] = B[i - 1] + qs[i].len
    <2>1. Sums(A, qs, Len(qs)) /\ Sums(B, ps, Len(ps))
      BY BeforeSums
    <2>2. Len(ps) \in Nat /\ Len(qs) \in Nat
      BY BeforeFacts
    <2> HIDE DEF A, B
    <2>3. \A i \in 1..k : i \in 1..Len(ps)
      BY <2>2
    <2> QED
      BY <2>1, <2>2, <2>3 DEF Sums
  <1> HIDE DEF A, B, k
  <1>2. T = {}
    <2>1. SUFFICES ASSUME T # {}
                   PROVE  FALSE
      OBVIOUS
    <2>2. PICK m \in T : \A j \in T : m <= j
      <3>1. T \in SUBSET (0..k)
        OBVIOUS
      <3> HIDE DEF T
      <3> QED
        BY <1>1, <2>1, <3>1, LeastElement
    <2>3. m \in 0..k /\ A[m] # B[m]
      OBVIOUS
    <2>4. m \in 1..k
      BY <1>1, <2>3
    <2>5. m - 1 \in 0..k /\ ~(m <= m - 1)
      BY <1>1, <2>4
    <2>6. A[m - 1] = B[m - 1]
      BY <2>2, <2>5
    <2> QED
      BY <1>1, <2>3, <2>4, <2>6
  <1>3. \A i \in 0..k : A[i] = B[i]
    BY <1>2
  <1> QED
    BY <1>3 DEF A, B, k

LEMMA PrefixFacts ==
    ASSUME NEW ps, PatchList(ps), ValidUpload(ps), FitsMessage(ps)
    PROVE  LET qs == EnabledPrefix(ps)
           IN  /\ PatchList(qs) /\ ValidUpload(qs) /\ FitsMessage(qs)
               /\ EnabledPrefix(qs) = qs
               /\ \A i \in 1..Len(qs) : qs[i].enabled
  <1> DEFINE k == FirstDisabled(ps) - 1
             qs == EnabledPrefix(ps)
  <1>1. Len(ps) \in Nat
    BY DEF PatchList
  <1>2. k \in 0..Len(ps) /\ \A i \in 1..k : i \in 1..Len(ps) /\ ps[i].enabled
    BY <1>1, FirstDisabledFacts DEF Disabled
  <1>3. qs = [i \in 1..k |-> [ps[i] EXCEPT !.id = i - 1]]
    BY DEF EnabledPrefix
  <1>4. Len(qs) = k
    <2>1. qs = [i \in 1..k |-> qs[i]]
      BY <1>3
    <2> HIDE DEF qs, k
    <2> QED
      BY <1>1, <1>2, <2>1, LengthOf
  <1> HIDE DEF k, qs
  <1>10. ASSUME NEW i \in 1..k
         PROVE  /\ qs[i] = [id |-> i - 1, addr |-> ps[i].addr,
                            len |-> ps[i].len, data |-> ps[i].data,
                            enabled |-> ps[i].enabled]
                /\ i \in 1..Len(ps) /\ ps[i].addr \in Nat
                /\ ps[i].len \in Nat /\ ps[i].enabled \in BOOLEAN
    <2>1. i \in 1..Len(ps)
      BY <1>2
    <2>2. /\ ps[i].addr \in Nat /\ ps[i].len \in Nat
          /\ ps[i].enabled \in BOOLEAN
          /\ ps[i] = [id |-> ps[i].id, addr |-> ps[i].addr, len |-> ps[i].len,
                      data |-> ps[i].data, enabled |-> ps[i].enabled]
      BY <2>1 DEF PatchList
    <2>3. [ps[i] EXCEPT !.id = i - 1] =
              [id |-> i - 1, addr |-> ps[i].addr, len |-> ps[i].len,
               data |-> ps[i].data, enabled |-> ps[i].enabled]
      BY <2>2, Renumbered
    <2> QED
      BY <1>3, <2>1, <2>2, <2>3
  <1>11. ASSUME NEW i \in 1..k
         PROVE  /\ qs[i].id = i - 1 /\ qs[i].addr = ps[i].addr
                /\ qs[i].len = ps[i].len /\ qs[i].enabled = ps[i].enabled
                /\ qs[i] = [id |-> qs[i].id, addr |-> qs[i].addr,
                            len |-> qs[i].len, data |-> qs[i].data,
                            enabled |-> qs[i].enabled]
    <2>1. qs[i] = [id |-> i - 1, addr |-> ps[i].addr, len |-> ps[i].len,
                   data |-> ps[i].data, enabled |-> ps[i].enabled]
      BY <1>10
    <2> QED
      BY <2>1, Fields
  <1>12. k <= MaxPatches
    BY <1>1, <1>2 DEF ValidUpload, MaxPatches
  <1>5. PatchList(qs)
    <2>2. Len(qs) \in Nat
      BY <1>1, <1>2, <1>4
    <2>4. qs = [i \in 1..Len(qs) |->
                 [id |-> qs[i].id, addr |-> qs[i].addr, len |-> qs[i].len,
                  data |-> qs[i].data, enabled |-> qs[i].enabled]]
      <3>1. qs = [i \in 1..k |-> qs[i]]
        BY <1>3
      <3> QED
        BY <1>4, <1>11, <3>1
    <2>5. \A i \in 1..Len(qs) : /\ qs[i].id \in 0..255
                                /\ qs[i].addr \in Nat /\ qs[i].len \in Nat
                                /\ qs[i].enabled \in BOOLEAN
      <3>1. \A i \in 1..k : i - 1 \in 0..255
        BY <1>1, <1>2, <1>12 DEF MaxPatches
      <3>2. ASSUME NEW i \in 1..k
            PROVE  /\ qs[i].id \in 0..255 /\ qs[i].addr \in Nat
                   /\ qs[i].len \in Nat /\ qs[i].enabled \in BOOLEAN
        <4>1. i - 1 \in 0..255
          BY <3>1
        <4>2. /\ ps[i].addr \in Nat /\ ps[i].len \in Nat
              /\ ps[i].enabled \in BOOLEAN
          BY <1>10
        <4>3. /\ qs[i].id = i - 1 /\ qs[i].addr = ps[i].addr
              /\ qs[i].len = ps[i].len /\ qs[i].enabled = ps[i].enabled
          BY <1>11
        <4> QED
          BY <4>1, <4>2, <4>3
      <3> QED
        BY <1>4, <3>2
    <2> QED
      BY <2>2, <2>4, <2>5, MakeList
  <1>6. ValidUpload(qs)
    <2>1. ASSUME NEW i \in 1..k
          PROVE  ValidPatch(qs[i])
      <3>1. ValidPatch(ps[i])
        BY <1>10 DEF ValidUpload
      <3>2. i - 1 \in 0..MaxId
        BY <1>1, <1>2, <1>12 DEF MaxPatches, MaxId
      <3> QED
        BY <1>11, <3>1, <3>2 DEF ValidPatch
    <2> QED
      BY <1>4, <1>12, <2>1 DEF ValidUpload
  <1>7. FitsMessage(qs)
    <2>1. Before(qs)[k] = Before(ps)[k]
      <3>1. Len(qs) <= Len(ps) /\ \A i \in 1..Len(qs) : qs[i].len = ps[i].len
        BY <1>1, <1>2, <1>4, <1>11
      <3>2. k \in 0..Len(qs)
        BY <1>1, <1>2, <1>4
      <3> QED
        BY <1>5, <3>1, <3>2, SamePositions
    <2>2. /\ Before(ps)[k] \in Nat /\ Before(ps)[Len(ps)] \in Nat
          /\ Before(ps)[k] <= Before(ps)[Len(ps)]
      <3>1. Before(ps)[k] \in Nat /\ Before(ps)[Len(ps)] \in Nat
        BY <1>1, <1>2, BeforeFacts
      <3>2. k < Len(ps) => Before(ps)[k] < Before(ps)[Len(ps)]
        BY <1>1, <1>2, BeforeGrows
      <3> QED
        BY <1>1, <1>2, <3>1, <3>2
    <2>3. Build(qs).size = 8 * k + 1 + Before(ps)[k]
      BY <1>4, <2>1 DEF Build
    <2>4. Build(ps).size = 8 * Len(ps) + 1 + Before(ps)[Len(ps)]
      BY SizeFacts
    <2>5. Build(qs).size <= Build(ps).size /\ Build(qs).size \in Nat
          /\ Build(ps).size \in Nat
      BY <1>1, <1>2, <2>2, <2>3, <2>4
    <2>6. HeaderSize + Build(ps).size < 65536
      BY DEF FitsMessage
    <2> QED
      BY <2>5, <2>6 DEF FitsMessage, HeaderSize
  <1>8. \A i \in 1..Len(qs) : qs[i].enabled
    BY <1>2, <1>4, <1>11
  <1>9. EnabledPrefix(qs) = qs
    <2>1. Disabled(qs) = {} /\ Len(qs) \in Nat
      BY <1>1, <1>2, <1>4, <1>8 DEF Disabled
    <2>2. FirstDisabled(qs) = k + 1
      BY <1>4, <2>1, FirstDisabledFacts
    <2>3. FirstDisabled(qs) - 1 = k
      BY <1>1, <1>2, <2>2
    <2>4. ASSUME NEW i \in 1..k
          PROVE  [qs[i] EXCEPT !.id = i - 1] = qs[i]
      <3>1. qs[i] = [id |-> i - 1, addr |-> qs[i].addr, len |-> qs[i].len,
                     data |-> qs[i].data, enabled |-> qs[i].enabled]
        BY <1>11
      <3> QED
        BY <3>1, Renumbered
    <2>5. qs = [i \in 1..k |-> qs[i]]
      BY <1>3
    <2> QED
      BY <2>3, <2>4, <2>5 DEF EnabledPrefix
  <1> QED
    BY <1>5, <1>6, <1>7, <1>8, <1>9 DEF qs

\* uploadPatchBuffer on the client, the parser of handleSpiSetPatch and
\* uploadPatchBuffer on the server: two layouts and a parser between them
\* make the FPGA apply what the client's layout says, with its data.
THEOREM LayoutsAgree ==
    ASSUME NEW ps, PatchList(ps), ValidUpload(ps), FitsMessage(ps)
    PROVE  LET qs == Parse(Carried(Build(ps)))
           IN  qs = Active(Build(ps)) /\ Active(Build(qs)) = qs
  <1> DEFINE qs == EnabledPrefix(ps)
  <1>1. Parse(Carried(Build(ps))) = qs /\ Active(Build(ps)) = qs
    BY ParseExact, ActiveExact
  <1>2. Active(Build(qs)) = qs
    <2>1. /\ PatchList(qs) /\ ValidUpload(qs) /\ FitsMessage(qs)
          /\ EnabledPrefix(qs) = qs
      BY PrefixFacts
    <2> HIDE DEF qs
    <2> QED
      BY <2>1, ActiveExact
  <1> HIDE DEF qs
  <1> QED
    BY <1>1, <1>2

\* A list of enabled patches arrives whole, numbered in its order.
THEOREM EnabledListArrives ==
    ASSUME NEW ps, PatchList(ps), ValidUpload(ps), FitsMessage(ps),
           \A i \in 1..Len(ps) : ps[i].enabled
    PROVE  /\ Parse(Carried(Build(ps))) = Numbered(ps)
           /\ Active(Build(ps)) = Numbered(ps)
           /\ Active(Build(Numbered(ps))) = Numbered(ps)
  <1>1. Len(ps) \in Nat
    BY DEF PatchList
  <1>2. FirstDisabled(ps) - 1 = Len(ps)
    <2>1. Disabled(ps) = {}
      BY DEF Disabled
    <2> QED
      BY <1>1, <2>1, FirstDisabledFacts
  <1>3. EnabledPrefix(ps) = Numbered(ps)
    BY <1>1, <1>2 DEF EnabledPrefix, Numbered
  <1> QED
    BY <1>3, ParseExact, ActiveExact, LayoutsAgree

USE SpiAssumption

-----------------------------------------------------------------------------
(* Types.                                                                  *)

\* uploadPatchBuffer has validated every upload that is sent.
CheckedRequests == {r \in Requests : r.op = "upload" => ValidUpload(r.arg)}

\* What the server may make of the single patches and of the uploads.
FromSingles == UNION {UnderstoodSingle(p) : p \in Singles}
FromUploads == UNION {Understood(Carried(Build(ps))) :
                         ps \in {us \in Uploads : ValidUpload(us)}}

\* What it may pass to its own SPIProtocol.
Understandable == Found \cup {<<>>} \cup FromSingles \cup FromUploads

Layouts == {Build(ps) : ps \in Understandable}

Responses ==
    [op : Ops \ {"read", "dump"}, ok : BOOLEAN, val : {0}]
    \cup [op : {"read"}, ok : BOOLEAN, val : Nat]
    \cup [op : {"dump"}, ok : BOOLEAN, val : Layouts]

\* The transaction in the i-th response on its way to u, if there is one.
Carries(u, i) == back[u][i].op = "read" /\ back[u][i].val # 0

ServiceType ==
    /\ fd \in BOOLEAN /\ fpga \in Layouts
    /\ fifo \in Seq(Nat) /\ made \in Nat
    /\ conn \in [Users -> BOOLEAN] /\ got \in [Users -> Seq(Nat)]

\* Transactions are numbered from 1 up to the last one recorded.
Dated ==
    /\ \A i \in 1..Len(fifo) : fifo[i] \in 1..made
    /\ \A u \in Users : \A i \in 1..Len(got[u]) : got[u][i] \in 1..made
    /\ \A u \in Users : \A i \in 1..Len(back[u]) :
          Carries(u, i) => back[u][i].val \in 1..made

Types == ServiceType /\ LineType(CheckedRequests, Responses) /\ Dated

-----------------------------------------------------------------------------
(* Order.                                                                  *)

\* What is on its way to u, oldest first.
BackOrdered(u) ==
    \A i, j \in 1..Len(back[u]) :
        i < j /\ Carries(u, i) /\ Carries(u, j) =>
            back[u][i].val < back[u][j].val

\* What u has is older than what is on its way to it ...
GotBeforeBack(u) ==
    \A i \in 1..Len(got[u]), j \in 1..Len(back[u]) :
        Carries(u, j) => got[u][i] < back[u][j].val

\* ... and all that was read is older than what is in the queue.
ReadBeforeQueue(u) ==
    /\ \A i \in 1..Len(got[u]), j \in 1..Len(fifo) : got[u][i] < fifo[j]
    /\ \A i \in 1..Len(back[u]), j \in 1..Len(fifo) :
          Carries(u, i) => back[u][i].val < fifo[j]

\* The transactions that left the queue for u.
Has(u, t) ==
    \/ \E i \in 1..Len(got[u]) : got[u][i] = t
    \/ \E i \in 1..Len(back[u]) : Carries(u, i) /\ back[u][i].val = t

Apart == \A u, w \in Users : \A t \in 1..made : Has(u, t) /\ Has(w, t) => u = w

Ordered ==
    /\ Increasing(fifo)
    /\ \A u \in Users : /\ Increasing(got[u]) /\ BackOrdered(u)
                        /\ GotBeforeBack(u) /\ ReadBeforeQueue(u)
    /\ Apart

Inv == Types /\ Ordered

-----------------------------------------------------------------------------
(* What a step does.                                                       *)

LEMMA InitInv == Init => Inv
  <1> SUFFICES ASSUME Init PROVE Inv
    OBVIOUS
  <1>1. /\ <<>> \in Seq(Nat) /\ <<>> \in Seq(CheckedRequests)
        /\ <<>> \in Seq(Responses) /\ Len(<<>>) = 0
    BY EmptySeq
  <1>2. fpga \in Layouts
    BY DEF Init, Layouts, Understandable
  <1>3. ServiceType
    BY <1>1, <1>2 DEF Init, ServiceType
  <1>4. LineType(CheckedRequests, Responses)
    BY <1>1 DEF Init, LineInit, LineType
  <1>5. Dated
    BY <1>1 DEF Init, LineInit, Dated
  <1>6. Ordered
    BY <1>1 DEF Init, LineInit, Ordered, Increasing, BackOrdered,
                GotBeforeBack, ReadBeforeQueue, Apart, Has
  <1> QED
    BY <1>3, <1>4, <1>5, <1>6 DEF Inv, Types

\* A handler answers with a; fifo keeps its transactions, loses them all, or
\* gives the first one to a.
Answered(u, a) ==
    /\ sent[u] # <<>> /\ a \in Responses /\ Respond(u, a)
    /\ \/ /\ fifo' = fifo \/ fifo' = <<>>
          /\ ~(a.op = "read" /\ a.val # 0)
       \/ /\ fifo # <<>> /\ fifo' = Tail(fifo)
          /\ a.op = "read" /\ a.val = Head(fifo)

Settled ==
    /\ UNCHANGED <<made, conn, got>>
    /\ fd' \in BOOLEAN /\ fpga' \in Layouts

LEMMA OpTypes ==
    /\ \A o \in Ops \ {"read", "dump"}, b \in BOOLEAN :
          [op |-> o, ok |-> b, val |-> 0] \in Responses
    /\ \A b \in BOOLEAN, n \in Nat :
          [op |-> "read", ok |-> b, val |-> n] \in Responses
    /\ \A b \in BOOLEAN, l \in Layouts :
          [op |-> "dump", ok |-> b, val |-> l] \in Responses
    /\ EmptyBuffer \in Layouts
  BY DEF Responses, EmptyBuffer, Layouts, Understandable

\* What Put may leave in the FPGA.
LEMMA PutTypes ==
    ASSUME Types, NEW u \in Users, NEW ps \in Understandable, Put(u, ps)
    PROVE  /\ fpga' \in Layouts
           /\ \E b \in BOOLEAN : Answer(u, b)
  BY DEF Put, Types, ServiceType, Layouts

LEMMA DueRequest ==
    ASSUME Types, NEW u \in Users, NEW o, Due(u, o)
    PROVE  /\ sent[u] # <<>> /\ Head(sent[u]) \in CheckedRequests
           /\ Head(sent[u]).op = o
  BY TailElements DEF Due, Types, LineType

LEMMA AnswerPlain ==
    ASSUME Types, NEW u \in Users, NEW o \in Ops \ {"read", "dump"}, Due(u, o),
           NEW b \in BOOLEAN, Answer(u, b), fifo' = fifo \/ fifo' = <<>>
    PROVE  \E a : Answered(u, a)
  <1> DEFINE a == [op |-> o, ok |-> b, val |-> 0]
  <1>1. Respond(u, a) /\ sent[u] # <<>> /\ a.op # "read"
    BY DueRequest DEF Answer, AnswerWith
  <1>2. a \in Responses
    BY OpTypes
  <1> HIDE DEF a
  <1> QED
    BY <1>1, <1>2 DEF Answered

LEMMA HandleEffect ==
    ASSUME Types, NEW u \in Users, Handle(u)
    PROVE  Settled /\ \E a : Answered(u, a)
  <1> USE DEF Types, ServiceType
  <1>1. CASE Open(u) \/ Close(u)
    <2>1. /\ \E o \in {"open", "close"} : Due(u, o)
          /\ \E b \in BOOLEAN : Answer(u, b)
          /\ fd' \in BOOLEAN /\ UNCHANGED <<fpga, fifo, made>>
      BY <1>1 DEF Open, Close
    <2> QED
      BY <2>1, AnswerPlain DEF Ops, Settled, Answer, AnswerWith
  <1>2. CASE ClearTransactions(u)
    <2>1. /\ Due(u, "clear") /\ \E b \in BOOLEAN : Answer(u, b)
          /\ fifo' = fifo \/ fifo' = <<>>
          /\ UNCHANGED <<fd, fpga, made>>
      BY <1>2 DEF ClearTransactions
    <2> QED
      BY <2>1, AnswerPlain DEF Ops, Settled, Answer, AnswerWith
  <1>3. CASE UploadPatchBuffer(u)
    <2>1. Head(sent[u]).arg \in {us \in Uploads : ValidUpload(us)}
      BY <1>3, DueRequest DEF UploadPatchBuffer, CheckedRequests, Requests
    <2>2. /\ Due(u, "upload") /\ UNCHANGED <<fd, fifo, made>>
          /\ \/ \E ps \in Understood(Carried(Build(Head(sent[u]).arg))) :
                   Put(u, ps)
             \/ UNCHANGED fpga /\ Answer(u, FALSE)
      BY <1>3 DEF UploadPatchBuffer
    <2>3. fpga' \in Layouts /\ \E b \in BOOLEAN : Answer(u, b)
      <3>1. CASE \E ps \in Understood(Carried(Build(Head(sent[u]).arg))) :
                   Put(u, ps)
        <4>1. PICK ps \in Understood(Carried(Build(Head(sent[u]).arg))) :
                   Put(u, ps)
          BY <3>1
        <4>2. ps \in FromUploads
          BY <2>1, <4>1 DEF FromUploads
        <4>3. ps \in Understandable
          BY <4>2 DEF Understandable
        <4> QED
          BY <4>1, <4>3, PutTypes
      <3> QED
        BY <2>2, <3>1
    <2> QED
      BY <2>2, <2>3, AnswerPlain DEF Ops, Settled, Answer, AnswerWith
  <1>4. CASE SetPatch(u)
    <2>1. \E p \in Singles : Head(sent[u]).arg = <<p>>
      BY SMTT(30), <1>4, DueRequest DEF SetPatch, CheckedRequests, Requests, Ops
    <2>2. PICK ps \in UnderstoodSingle(Head(sent[u]).arg[1]) : Put(u, ps)
      BY <1>4 DEF SetPatch
    <2>3. fpga' \in Layouts /\ \E b \in BOOLEAN : Answer(u, b)
      <3>1. PICK p \in Singles : Head(sent[u]).arg = <<p>>
        BY <2>1
      <3>2. Head(sent[u]).arg[1] = p
        BY <3>1
      <3>3. ps \in Understandable
        BY <2>2, <3>2 DEF FromSingles, Understandable
      <3> QED
        BY <2>2, <3>3, PutTypes
    <2> QED
      BY <1>4, <2>3, AnswerPlain DEF SetPatch, Ops, Settled, Answer, AnswerWith
  <1>5. CASE ClearPatches(u)
    <2>1. /\ Due(u, "unpatch") /\ \E b \in BOOLEAN : Answer(u, b)
          /\ fpga' \in Layouts /\ UNCHANGED <<fd, fifo, made>>
      BY <1>5, OpTypes DEF ClearPatches
    <2> QED
      BY <2>1, AnswerPlain DEF Ops, Settled, Answer, AnswerWith
  <1>6. CASE ReadTransaction(u) \/ ReadNothing(u)
    <2>1. Due(u, "read") /\ sent[u] # <<>> /\ Head(sent[u]).op = "read"
      BY <1>6, DueRequest DEF ReadTransaction, ReadNothing
    <2>2. CASE ReadTransaction(u)
      <3> DEFINE a == [op |-> "read", ok |-> TRUE, val |-> Head(fifo)]
      <3>1. Head(fifo) \in Nat
        BY <2>2, TailElements DEF ReadTransaction
      <3>2. a \in Responses
        BY <3>1, OpTypes
      <3>3. Answered(u, a)
        BY <2>1, <2>2, <3>2 DEF ReadTransaction, AnswerWith, Answered
      <3> QED
        BY <2>2, <3>3 DEF ReadTransaction, AnswerWith, Settled
    <2>3. CASE ReadNothing(u)
      <3> DEFINE a == [op |-> "read", ok |-> TRUE, val |-> 0]
      <3>1. a \in Responses
        BY OpTypes
      <3>2. Answered(u, a)
        BY <2>1, <2>3, <3>1 DEF ReadNothing, Answer, AnswerWith, Answered,
                                device
      <3> QED
        BY <2>3, <3>2 DEF ReadNothing, Answer, AnswerWith, Settled, device
    <2> QED
      BY <1>6, <2>2, <2>3
  <1>7. CASE DumpPatchBuffer(u)
    <2>1. sent[u] # <<>> /\ Head(sent[u]).op = "dump"
      BY <1>7, DueRequest DEF DumpPatchBuffer
    <2>2. PICK b \in BOOLEAN, l \in Layouts : AnswerWith(u, b, l)
      BY <1>7, OpTypes DEF DumpPatchBuffer
    <2> DEFINE a == [op |-> "dump", ok |-> b, val |-> l]
    <2>3. a \in Responses
      BY OpTypes
    <2>4. Answered(u, a)
      BY <1>7, <2>1, <2>2, <2>3 DEF DumpPatchBuffer, AnswerWith, Answered,
                                    device
    <2> QED
      BY <1>7, <2>2, <2>4 DEF DumpPatchBuffer, AnswerWith, Settled, device
  <1> QED
    BY <1>1, <1>2, <1>3, <1>4, <1>5, <1>6, <1>7 DEF Handle

-----------------------------------------------------------------------------
(* Responses that go away.                                                 *)

\* What is left of the responses on their way to u, after the first k.
Left(u, k) ==
    /\ k \in Nat /\ Len(back'[u]) + k <= Len(back[u])
    /\ \A i \in 1..Len(back'[u]) : back'[u][i] = back[u][i + k]
    /\ \A w \in Users : w # u => back'[w] = back[w]

\* The transactions of the responses that are left were there before.
LEMMA LeftCarries ==
    ASSUME Types, LineType(CheckedRequests, Responses)', NEW u \in Users,
           NEW k, Left(u, k), NEW w \in Users, NEW i \in 1..Len(back'[w])
    PROVE  \E j \in 1..Len(back[w]) :
               /\ back'[w][i] = back[w][j] /\ (Carries(w, i)' <=> Carries(w, j))
               /\ j = IF w = u THEN i + k ELSE i
  <1>1. Len(back[u]) \in Nat /\ Len(back'[u]) \in Nat
    BY LenProperties DEF Types, LineType
  <1>2. CASE w = u
    <2>1. i + k \in 1..Len(back[u]) /\ back'[u][i] = back[u][i + k]
      BY SMTT(30), <1>1, <1>2 DEF Left
    <2> QED
      BY <1>2, <2>1 DEF Carries
  <1>3. CASE w # u
    BY <1>3 DEF Left, Carries
  <1> QED
    BY <1>2, <1>3

LEMMA LeftOrdered ==
    ASSUME Inv, LineType(CheckedRequests, Responses)', NEW u \in Users,
           NEW k, Left(u, k), UNCHANGED <<fifo, made, got>>
    PROVE  Dated' /\ Ordered'
  <1> USE DEF Inv
  <1>1. Dated'
    BY SMTT(30), LeftCarries DEF Types, Dated
  <1>2. ASSUME NEW w \in Users
        PROVE  BackOrdered(w)'
    <2> SUFFICES ASSUME NEW i \in 1..Len(back'[w]), NEW j \in 1..Len(back'[w]),
                        i < j, Carries(w, i)', Carries(w, j)'
                 PROVE  back'[w][i].val < back'[w][j].val
      BY DEF BackOrdered
    <2>1. PICK x \in 1..Len(back[w]) :
              /\ back'[w][i] = back[w][x] /\ Carries(w, x)
              /\ x = IF w = u THEN i + k ELSE i
      BY LeftCarries
    <2>2. PICK y \in 1..Len(back[w]) :
              /\ back'[w][j] = back[w][y] /\ Carries(w, y)
              /\ y = IF w = u THEN j + k ELSE j
      BY LeftCarries
    <2>3. x < y
      BY <2>1, <2>2 DEF Left
    <2> QED
      BY <2>1, <2>2, <2>3 DEF Ordered, BackOrdered
  <1>3. ASSUME NEW w \in Users
        PROVE  GotBeforeBack(w)' /\ ReadBeforeQueue(w)'
    <2>1. GotBeforeBack(w) /\ ReadBeforeQueue(w)
      BY DEF Ordered
    <2>2. ASSUME NEW j \in 1..Len(back'[w]), Carries(w, j)'
          PROVE  \E x \in 1..Len(back[w]) :
                    back'[w][j] = back[w][x] /\ Carries(w, x)
      BY <2>2, LeftCarries
    <2> QED
      BY <2>1, <2>2 DEF GotBeforeBack, ReadBeforeQueue
  <1>4. ASSUME NEW w \in Users, NEW t, Has(w, t)'
        PROVE  Has(w, t)
    <2>1. CASE \E i \in 1..Len(got[w]) : got[w][i] = t
      BY <2>1 DEF Has
    <2>2. CASE \E i \in 1..Len(back'[w]) : Carries(w, i)' /\ back'[w][i].val = t
      BY <2>2, LeftCarries DEF Has
    <2> QED
      BY <1>4, <2>1, <2>2 DEF Has
  <1>5. Apart'
    BY <1>4 DEF Ordered, Apart
  <1> QED
    BY <1>1, <1>2, <1>3, <1>5 DEF Ordered, Increasing

-----------------------------------------------------------------------------
(* A transaction is recorded.                                              *)

LEMMA RecordInv ==
    ASSUME Inv, Record
    PROVE  Inv'
  <1> USE DEF Inv, Types
  <1>1. /\ made \in Nat /\ made' = made + 1 /\ made + 1 \in Nat
        /\ fifo \in Seq(Nat) /\ fifo' = Append(fifo, made + 1)
        /\ UNCHANGED <<fd, fpga, conn, got, call, sent, back, here>>
    BY DEF ServiceType, Record, line
  <1>2. /\ fifo' \in Seq(Nat) /\ Len(fifo) \in Nat
        /\ Len(fifo') = Len(fifo) + 1
        /\ \A i \in 1..Len(fifo) : fifo'[i] = fifo[i]
        /\ fifo'[Len(fifo) + 1] = made + 1
    BY <1>1, AppendElements
  <1>3. \A i \in 1..Len(fifo') : i \in 1..Len(fifo) \/ i = Len(fifo) + 1
    BY <1>2
  <1>4. ServiceType' /\ LineType(CheckedRequests, Responses)'
    BY <1>1, <1>2 DEF ServiceType, LineType
  <1>5. \A n \in 1..made : n \in 1..made' /\ n < made + 1
    BY <1>1
  <1>6. Dated'
    <2>1. \A i \in 1..Len(fifo') : fifo'[i] \in 1..made'
      BY <1>1, <1>2, <1>3, <1>5 DEF Dated
    <2>2. \A u \in Users : \A i \in 1..Len(got[u]) : got[u][i] \in 1..made'
      BY <1>5 DEF Dated
    <2>3. \A u \in Users : \A i \in 1..Len(back[u]) :
              Carries(u, i) => back[u][i].val \in 1..made'
      BY <1>5 DEF Dated
    <2> QED
      BY <1>1, <2>1, <2>2, <2>3 DEF Dated, Carries
  <1>7. Increasing(fifo)'
    BY SMTT(30), <1>2, <1>3, <1>5 DEF Ordered, Increasing, Dated
  <1>8. ASSUME NEW u \in Users
        PROVE  ReadBeforeQueue(u)'
    BY ZenonT(40), <1>1, <1>2, <1>3, <1>5, <1>8
       DEF Ordered, ReadBeforeQueue, Dated, Carries
  <1>9. Apart'
    <2> SUFFICES ASSUME NEW u \in Users, NEW w \in Users,
                        NEW t, Has(u, t), Has(w, t)
                 PROVE  u = w
      <3>1. \A u \in Users : \A t : Has(u, t)' <=> Has(u, t)
        BY <1>1 DEF Has, Carries
      <3> QED
        BY <3>1 DEF Apart
    <2>1. t \in 1..made
      BY DEF Has, Dated
    <2> QED
      BY <2>1 DEF Ordered, Apart
  <1> QED
    BY <1>1, <1>4, <1>6, <1>7, <1>8, <1>9
       DEF Ordered, Increasing, BackOrdered, GotBeforeBack, Carries

-----------------------------------------------------------------------------
(* A response is taken.                                                    *)

LEMMA TailLeft ==
    ASSUME Types, NEW u \in Users, back[u] # <<>>,
           back' = [back EXCEPT ![u] = Tail(@)]
    PROVE  /\ Left(u, 1) /\ 1 \in 1..Len(back[u])
           /\ Head(back[u]) = back[u][1] /\ back[u][1] \in Responses
           /\ \A i \in 1..Len(back'[u]) : i + 1 \in 1..Len(back[u])
  <1>1. back \in [Users -> Seq(Responses)]
    BY DEF Types, LineType
  <1>2. back'[u] = Tail(back[u])
    BY <1>1
  <1>3. /\ Len(back[u]) \in Nat \ {0} /\ Len(Tail(back[u])) = Len(back[u]) - 1
        /\ \A i \in 1..(Len(back[u]) - 1) : Tail(back[u])[i] = back[u][i + 1]
        /\ Head(back[u]) = back[u][1] /\ Head(back[u]) \in Responses
    BY <1>1, TailElements
  <1> QED
    BY <1>1, <1>2, <1>3 DEF Left

LEMMA TakeInv ==
    ASSUME Inv, LineType(CheckedRequests, Responses)', NEW u \in Users, Take(u)
    PROVE  got' \in [Users -> Seq(Nat)] /\ Dated' /\ Ordered'
  <1> USE DEF Inv
  <1> DEFINE r == Head(back[u])
             reads == call[u].op = "read" /\ r.val # 0
  <1>1. /\ Left(u, 1) /\ 1 \in 1..Len(back[u]) /\ r = back[u][1]
        /\ r \in Responses
        /\ \A i \in 1..Len(back'[u]) : i + 1 \in 1..Len(back[u])
    BY TailLeft DEF Take, Receive
  <1>2. UNCHANGED <<fifo, made>> /\ r.op = call[u].op
    BY DEF Take, Receive, device
  <1>3. got \in [Users -> Seq(Nat)] /\ back \in [Users -> Seq(Responses)]
    BY DEF Types, ServiceType, LineType
  <1>4. CASE ~reads
    <2>1. got' = got
      BY <1>3, <1>4 DEF Take
    <2> HIDE DEF r, reads
    <2> QED
      BY <1>1, <1>2, <1>3, <2>1, LeftOrdered
  <1>5. CASE reads
    <2> DEFINE s == got[u]
               n == Len(s)
               v == r.val
    <2>1. v \in Nat /\ Carries(u, 1)
      BY <1>1, <1>2, <1>5 DEF Responses, Ops, Carries
    <2>2. got' = [got EXCEPT ![u] = Append(s, v)]
      BY <1>5 DEF Take
    <2> HIDE DEF r, reads
    <2>3. /\ s \in Seq(Nat) /\ n \in Nat /\ got'[u] \in Seq(Nat)
          /\ Len(got'[u]) = n + 1 /\ got'[u][n + 1] = v
          /\ \A i \in 1..n : got'[u][i] = s[i]
          /\ \A w \in Users : w # u => got'[w] = got[w]
      BY <1>3, <2>1, <2>2, AppendElements
    <2>4. \A i \in 1..Len(got'[u]) : i \in 1..n \/ i = n + 1
      BY <2>3
    <2>5. got' \in [Users -> Seq(Nat)]
      BY <1>3, <2>2, <2>3
    <2> HIDE DEF s, n
    \* v was among the transactions on their way to u, the oldest one.
    <2>6. v \in 1..made
      BY <1>1, <2>1 DEF Types, Dated
    <2>7. \A i \in 1..n : s[i] < v /\ s[i] \in 1..made
      BY <1>1, <2>1 DEF Ordered, GotBeforeBack, Types, Dated, s, n
    <2>8. ASSUME NEW j \in 1..Len(back'[u]), Carries(u, j)'
          PROVE  /\ j + 1 \in 1..Len(back[u]) /\ Carries(u, j + 1)
                 /\ back'[u][j] = back[u][j + 1] /\ v < back'[u][j].val
      <3>1. /\ j + 1 \in 1..Len(back[u]) /\ back'[u][j] = back[u][j + 1]
            /\ 1 < j + 1
        BY <1>1 DEF Left
      <3>2. Carries(u, j + 1)
        BY <2>8, <3>1 DEF Carries
      <3> QED
        BY <1>1, <2>1, <3>1, <3>2 DEF Ordered, BackOrdered
    <2>9. ASSUME NEW w \in Users, NEW i \in 1..Len(back'[w]), Carries(w, i)'
          PROVE  \E j \in 1..Len(back[w]) :
                     back'[w][i] = back[w][j] /\ Carries(w, j)
      BY <1>1, <2>9, LeftCarries
    <2>10. Dated'
      <3>1. \A w \in Users : \A i \in 1..Len(got'[w]) : got'[w][i] \in 1..made
        BY <2>3, <2>4, <2>6, <2>7 DEF Types, Dated
      <3>2. \A w \in Users : \A i \in 1..Len(back'[w]) :
                Carries(w, i)' => back'[w][i].val \in 1..made
        BY <2>9 DEF Types, Dated
      <3> QED
        BY <1>2, <3>1, <3>2 DEF Types, Dated
    <2>11. ASSUME NEW w \in Users
           PROVE  /\ Increasing(got[w])' /\ BackOrdered(w)'
                  /\ GotBeforeBack(w)' /\ ReadBeforeQueue(w)'
      <3>1. /\ Increasing(got[w]) /\ BackOrdered(w)
            /\ GotBeforeBack(w) /\ ReadBeforeQueue(w)
        BY DEF Ordered
      <3>2. CASE w = u
        <4>1. Increasing(got[u])'
          <5>1. SUFFICES ASSUME NEW i \in 1..Len(got'[u]),
                                NEW j \in 1..Len(got'[u]), i < j
                         PROVE  got'[u][i] < got'[u][j]
            BY DEF Increasing
          <5>2. i \in 1..n
            BY <2>3, <2>4, <5>1
          <5>3. CASE j \in 1..n
            BY <2>3, <3>1, <3>2, <5>1, <5>2, <5>3 DEF Increasing, s, n
          <5>4. CASE j = n + 1
            BY <2>3, <2>7, <5>2, <5>4
          <5> QED
            BY <2>4, <5>3, <5>4
        <4>2. BackOrdered(u)'
          <5> SUFFICES ASSUME NEW i \in 1..Len(back'[u]),
                              NEW j \in 1..Len(back'[u]),
                              i < j, Carries(u, i)', Carries(u, j)'
                       PROVE  back'[u][i].val < back'[u][j].val
            BY DEF BackOrdered
          <5>1. i + 1 < j + 1
            BY <1>1
          <5> QED
            BY <2>8, <3>1, <3>2, <5>1 DEF BackOrdered
        <4>3. GotBeforeBack(u)'
          <5> SUFFICES ASSUME NEW i \in 1..Len(got'[u]),
                              NEW j \in 1..Len(back'[u]), Carries(u, j)'
                       PROVE  got'[u][i] < back'[u][j].val
            BY DEF GotBeforeBack
          <5>1. CASE i \in 1..n
            BY <2>3, <2>8, <3>1, <3>2, <5>1 DEF GotBeforeBack, s, n
          <5>2. CASE i = n + 1
            BY <2>3, <2>8, <5>2
          <5> QED
            BY <2>4, <5>1, <5>2
        <4>4. ReadBeforeQueue(u)'
          <5>1. \A j \in 1..Len(fifo) : v < fifo[j]
            BY <1>1, <2>1, <3>1, <3>2 DEF ReadBeforeQueue
          <5>2. \A i \in 1..Len(got'[u]), j \in 1..Len(fifo) :
                    got'[u][i] < fifo[j]
            BY <2>3, <2>4, <3>1, <3>2, <5>1 DEF ReadBeforeQueue, s, n
          <5>3. \A i \in 1..Len(back'[u]), j \in 1..Len(fifo) :
                    Carries(u, i)' => back'[u][i].val < fifo[j]
            BY <2>9, <3>1, <3>2 DEF ReadBeforeQueue
          <5> QED
            BY <1>2, <5>2, <5>3 DEF ReadBeforeQueue
        <4> QED
          BY <3>2, <4>1, <4>2, <4>3, <4>4
      <3>3. CASE w # u
        <4>1. got'[w] = got[w] /\ back'[w] = back[w]
          BY <1>1, <2>3, <3>3 DEF Left
        <4> QED
          BY <1>2, <3>1, <4>1 DEF Increasing, BackOrdered, GotBeforeBack,
                                  ReadBeforeQueue, Carries
      <3> QED
        BY <3>2, <3>3
    <2>12. ASSUME NEW w \in Users, NEW t, Has(w, t)'
           PROVE  Has(w, t)
      <3>1. CASE \E i \in 1..Len(got'[w]) : got'[w][i] = t
        <4>1. CASE w = u /\ t = v
          BY <1>1, <2>1, <4>1 DEF Has
        <4>2. CASE ~(w = u /\ t = v)
          BY <2>3, <2>4, <3>1, <4>2 DEF Has, s, n
        <4> QED
          BY <4>1, <4>2
      <3>2. CASE \E i \in 1..Len(back'[w]) :
                    Carries(w, i)' /\ back'[w][i].val = t
        BY <2>9, <3>2 DEF Has
      <3> QED
        BY <2>12, <3>1, <3>2 DEF Has
    <2>13. Apart'
      BY <1>2, <2>12 DEF Ordered, Apart
    <2> QED
      BY <1>2, <2>5, <2>10, <2>11, <2>13 DEF Ordered, Increasing
  <1> QED
    BY <1>4, <1>5

-----------------------------------------------------------------------------
(* A request is handled.                                                   *)

LEMMA AnswerInv ==
    ASSUME Inv, LineType(CheckedRequests, Responses)', NEW u \in Users,
           NEW a, Answered(u, a), UNCHANGED <<made, got>>
    PROVE  fifo' \in Seq(Nat) /\ Dated' /\ Ordered'
  <1> USE DEF Inv
  <1> DEFINE s == back[u]
             carried == a.op = "read" /\ a.val # 0
  <1>1. /\ fifo \in Seq(Nat) /\ back \in [Users -> Seq(Responses)]
        /\ a \in Responses /\ back' = [back EXCEPT ![u] = Append(s, a)]
    BY DEF Types, ServiceType, LineType, Answered, Respond
  <1>0. PICK n \in Nat : n = Len(back[u])
    BY <1>1, LenProperties
  <1>2. /\ s \in Seq(Responses)
        /\ Len(back'[u]) = n + 1 /\ back'[u][n + 1] = a
        /\ \A i \in 1..n : back'[u][i] = s[i]
        /\ \A w \in Users : w # u => back'[w] = back[w]
    BY <1>0, <1>1, AppendElements
  <1>3. \A i \in 1..Len(back'[u]) : i \in 1..n \/ i = n + 1
    BY <1>2
  <1>4. \A i \in 1..n : Carries(u, i)' <=> Carries(u, i)
    BY <1>2 DEF Carries
  <1>5. Carries(u, n + 1)' <=> carried
    BY <1>2 DEF Carries
  <1> HIDE DEF s
  \* What the queue keeps was in it before, in the same order.
  <1>6. PICK k \in {0, 1} :
            /\ fifo' \in Seq(Nat)
            /\ \A i \in 1..Len(fifo') : /\ i + k \in 1..Len(fifo)
                                        /\ fifo'[i] = fifo[i + k]
            /\ carried => k = 1 /\ 1 \in 1..Len(fifo) /\ a.val = fifo[1]
    <2>1. CASE fifo' = fifo /\ ~carried
      <3>1. \A i \in 1..Len(fifo) : i + 0 = i
        OBVIOUS
      <3> QED
        BY <1>1, <2>1, <3>1
    <2>2. CASE fifo' = <<>> /\ ~carried
      <3>1. fifo' \in Seq(Nat) /\ Len(fifo') = 0
        BY <2>2, EmptySeq
      <3> QED
        BY <2>2, <3>1
    <2>3. CASE fifo # <<>> /\ fifo' = Tail(fifo) /\ a.val = Head(fifo)
      <3>1. /\ fifo' \in Seq(Nat) /\ Len(fifo) \in Nat \ {0}
            /\ Len(fifo') = Len(fifo) - 1 /\ a.val = fifo[1]
            /\ \A i \in 1..(Len(fifo) - 1) : fifo'[i] = fifo[i + 1]
        BY <1>1, <2>3, TailElements
      <3> HIDE DEF carried
      <3> QED
        BY <3>1
    <2> QED
      BY <2>1, <2>2, <2>3 DEF Answered
  <1>7. Len(fifo) \in Nat /\ Len(fifo') \in Nat
    BY <1>1, <1>6, LenProperties
  \* A transaction that a carries was the oldest in the queue, and newer
  \* than all that had been read.
  <1>8. ASSUME carried
        PROVE  /\ a.val \in 1..made
               /\ \A i \in 1..Len(fifo') : a.val < fifo'[i]
               /\ \A w \in Users : \A i \in 1..Len(got[w]) : got[w][i] < a.val
               /\ \A w \in Users : \A i \in 1..Len(back[w]) :
                     Carries(w, i) => back[w][i].val < a.val
    <2>1. /\ k = 1 /\ 1 \in 1..Len(fifo) /\ a.val = fifo[1]
          /\ \A i \in 1..Len(fifo') : i + 1 \in 1..Len(fifo)
                                      /\ fifo'[i] = fifo[i + 1]
      BY <1>6, <1>8
    <2> HIDE DEF carried
    <2>2. a.val \in 1..made
      BY <2>1 DEF Types, Dated
    <2>3. \A i \in 1..Len(fifo') : 1 < i + 1
      OBVIOUS
    <2>4. \A i \in 1..Len(fifo') : a.val < fifo'[i]
      BY <2>1, <2>3 DEF Ordered, Increasing
    <2> QED
      BY <2>1, <2>2, <2>4 DEF Ordered, ReadBeforeQueue
  <1> HIDE DEF carried
  <1>9. ASSUME NEW i \in 1..Len(back'[u]), Carries(u, i)'
        PROVE  \/ i \in 1..n /\ Carries(u, i) /\ back'[u][i] = back[u][i]
               \/ i = n + 1 /\ carried /\ back'[u][i] = a
    BY <1>2, <1>3, <1>4, <1>5, <1>9 DEF s
  <1>10. Dated'
    <2>1. \A i \in 1..Len(fifo') : fifo'[i] \in 1..made
      BY <1>6 DEF Types, Dated
    <2>2. ASSUME NEW w \in Users, NEW i \in 1..Len(back'[w]), Carries(w, i)'
          PROVE  back'[w][i].val \in 1..made
      <3>1. CASE w = u
        BY <1>0, <1>8, <1>9, <2>2, <3>1 DEF Types, Dated, s
      <3>2. CASE w # u
        BY <1>2, <2>2, <3>2 DEF Types, Dated, Carries
      <3> QED
        BY <3>1, <3>2
    <2> QED
      BY <2>1, <2>2 DEF Types, Dated
  <1>11. Increasing(fifo)'
    <2> SUFFICES ASSUME NEW i \in 1..Len(fifo'), NEW j \in 1..Len(fifo'), i < j
                 PROVE  fifo'[i] < fifo'[j]
      BY DEF Increasing
    <2>1. /\ i + k \in 1..Len(fifo) /\ fifo'[i] = fifo[i + k]
          /\ j + k \in 1..Len(fifo) /\ fifo'[j] = fifo[j + k]
          /\ i + k < j + k
      BY SMTT(30), <1>6
    <2> QED
      BY <2>1 DEF Ordered, Increasing
  <1>12. ASSUME NEW w \in Users
         PROVE  /\ Increasing(got[w])' /\ BackOrdered(w)'
                /\ GotBeforeBack(w)' /\ ReadBeforeQueue(w)'
    <2>1. /\ Increasing(got[w]) /\ BackOrdered(w)
          /\ GotBeforeBack(w) /\ ReadBeforeQueue(w)
      BY DEF Ordered
    <2>2. \A i \in 1..Len(got[w]), j \in 1..Len(fifo') : got[w][i] < fifo'[j]
      BY <1>6, <2>1 DEF ReadBeforeQueue
    <2>3. CASE w = u
      <3>1. BackOrdered(u)'
        <4> SUFFICES ASSUME NEW i \in 1..Len(back'[u]),
                            NEW j \in 1..Len(back'[u]),
                            i < j, Carries(u, i)', Carries(u, j)'
                     PROVE  back'[u][i].val < back'[u][j].val
          BY DEF BackOrdered
        <4>1. i \in 1..n /\ Carries(u, i) /\ back'[u][i] = back[u][i]
          BY <1>2, <1>9
        <4>2. CASE j \in 1..n
          <5>1. Carries(u, j) /\ back'[u][j] = back[u][j]
            BY <1>2, <1>4, <4>2 DEF s
          <5> QED
            BY <1>0, <2>1, <2>3, <4>1, <4>2, <5>1 DEF BackOrdered, s
        <4>3. CASE j = n + 1
          <5>1. carried /\ back'[u][j] = a
            BY <1>2, <1>5, <4>3
          <5> QED
            BY <1>0, <1>8, <4>1, <5>1 DEF s
        <4> QED
          BY <1>3, <4>2, <4>3
      <3>2. GotBeforeBack(u)'
        BY <1>0, <1>8, <1>9, <2>1, <2>3 DEF GotBeforeBack, s
      <3>3. \A i \in 1..Len(back'[u]), j \in 1..Len(fifo') :
                Carries(u, i)' => back'[u][i].val < fifo'[j]
        BY <1>0, <1>6, <1>8, <1>9, <2>1, <2>3 DEF ReadBeforeQueue, s
      <3> QED
        BY <2>1, <2>2, <2>3, <3>1, <3>2, <3>3 DEF Increasing, ReadBeforeQueue
    <2>4. CASE w # u
      <3>1. back'[w] = back[w]
        BY <1>2, <2>4
      <3>2. \A i \in 1..Len(back'[w]), j \in 1..Len(fifo') :
                Carries(w, i)' => back'[w][i].val < fifo'[j]
        BY <1>6, <2>1, <3>1 DEF ReadBeforeQueue, Carries
      <3> QED
        BY <2>1, <2>2, <3>1, <3>2
           DEF Increasing, BackOrdered, GotBeforeBack, ReadBeforeQueue, Carries
    <2> QED
      BY <2>3, <2>4
  \* Nobody else has the transaction that a carries.
  <1>13. Apart'
    <2>1. ASSUME NEW w \in Users, NEW t, Has(w, t)'
          PROVE  Has(w, t) \/ (w = u /\ carried /\ t = a.val)
      <3>1. CASE \E i \in 1..Len(got[w]) : got[w][i] = t
        BY <3>1 DEF Has
      <3>2. CASE \E i \in 1..Len(back'[w]) : Carries(w, i)' /\ back'[w][i].val = t
        <4>1. CASE w = u
          BY <1>0, <1>9, <3>2, <4>1 DEF Has, s
        <4>2. CASE w # u
          BY <1>2, <3>2, <4>2 DEF Has, Carries
        <4> QED
          BY <4>1, <4>2
      <3> QED
        BY <2>1, <3>1, <3>2 DEF Has
    <2>2. ASSUME carried, NEW w \in Users
          PROVE  ~Has(w, a.val)
      BY <1>8, <2>2 DEF Has
    <2> QED
      BY <2>1, <2>2 DEF Ordered, Apart
  <1> QED
    BY <1>6, <1>10, <1>11, <1>12, <1>13 DEF Ordered

-----------------------------------------------------------------------------
(* The invariant.                                                          *)

LEMMA UserInv ==
    ASSUME Inv, NEW u \in Users, UserStep(u)
    PROVE  Inv'
  <1> USE DEF Inv
  <1>1. LineType(CheckedRequests, Responses) /\ ServiceType /\ 0 \in Nat
    BY DEF Types
  <1>2. UNCHANGED <<fd, fpga, fifo, made>>
    BY DEF UserStep, Ask, Take, Lose, Drop, Leave, device
  <1>3. conn' \in [Users -> BOOLEAN]
    BY DEF Types, ServiceType, UserStep, Ask, Take, Lose, Drop, Leave
  <1>4. CASE Take(u)
    <2>1. LineType(CheckedRequests, Responses)'
      BY <1>1, <1>4, EndType DEF Take
    <2>2. got' \in [Users -> Seq(Nat)] /\ Dated' /\ Ordered'
      BY <1>4, <2>1, TakeInv
    <2> QED
      BY <1>1, <1>2, <1>3, <2>1, <2>2 DEF Types, ServiceType
  <1>5. ASSUME LineType(CheckedRequests, Responses)', UNCHANGED got,
               NEW k, Left(u, k)
        PROVE  Inv'
    <2>1. Dated' /\ Ordered'
      BY <1>2, <1>5, LeftOrdered
    <2> QED
      BY <1>1, <1>2, <1>3, <1>5, <2>1 DEF Types, ServiceType
  <1>6. ASSUME NEW r \in Requests, Ask(u, r)
        PROVE  Inv'
    <2>1. r \in CheckedRequests /\ Send(u, r) /\ UNCHANGED <<got, back>>
      BY <1>6 DEF Ask, CheckedRequests, Send
    <2>2. LineType(CheckedRequests, Responses)'
      BY <1>1, <2>1, SendType
    <2>3. Len(back[u]) \in Nat
      BY <1>1, LenProperties DEF LineType
    <2>4. Left(u, 0)
      BY <2>1, <2>3 DEF Left
    <2> QED
      BY <1>5, <2>1, <2>2, <2>4
  <1>7. CASE Lose(u)
    <2>1. LineType(CheckedRequests, Responses)'
      BY <1>1, <1>7, EndType DEF Lose
    <2>2. Len(back[u]) \in Nat
      BY <1>1, LenProperties DEF LineType
    <2>3. Left(u, 0)
      BY <1>7, <2>2 DEF Left, Lose, GiveUp
    <2> QED
      BY <1>5, <1>7, <2>1, <2>3 DEF Lose
  <1>8. CASE Drop(u)
    <2>1. LineType(CheckedRequests, Responses)'
      BY <1>1, <1>8, EndType DEF Drop
    <2>2. Left(u, 1)
      BY <1>8, TailLeft DEF Drop, Discard
    <2> QED
      BY <1>5, <1>8, <2>1, <2>2 DEF Drop
  <1>9. CASE Leave(u)
    <2>1. LineType(CheckedRequests, Responses)'
      BY <1>1, <1>9, EndType DEF Leave
    <2>2. Len(back[u]) \in Nat /\ Len(<<>>) = 0
      BY <1>1, LenProperties, EmptySeq DEF LineType
    <2>3. /\ back'[u] = <<>>
          /\ \A w \in Users : w # u => back'[w] = back[w]
      BY <1>1, <1>9 DEF Leave, Depart, LineType
    <2>4. Left(u, 0)
      BY <2>2, <2>3 DEF Left
    <2> QED
      BY <1>5, <1>9, <2>1, <2>4 DEF Leave
  <1> QED
    BY <1>4, <1>6, <1>7, <1>8, <1>9 DEF UserStep

LEMMA HandleInv ==
    ASSUME Inv, NEW u \in Users, Handle(u)
    PROVE  Inv'
  <1> USE DEF Inv
  <1>1. Settled /\ \E a : Answered(u, a)
    BY HandleEffect
  <1>2. PICK a : Answered(u, a)
    BY <1>1
  <1>3. LineType(CheckedRequests, Responses)'
    BY <1>2, RespondType DEF Types, Answered
  <1>4. fifo' \in Seq(Nat) /\ Dated' /\ Ordered'
    BY <1>1, <1>2, <1>3, AnswerInv DEF Settled
  <1> QED
    BY <1>1, <1>3, <1>4 DEF Types, ServiceType, Settled

LEMMA StepInv ==
    ASSUME Inv, [Next]_vars
    PROVE  Inv'
  <1>1. CASE UNCHANGED vars
    BY <1>1 DEF vars, device, line, Inv, Types, ServiceType, LineType, Dated,
                Ordered, Increasing, BackOrdered, GotBeforeBack,
                ReadBeforeQueue, Apart, Has, Carries
  <1> QED
    BY <1>1, UserInv, HandleInv, RecordInv DEF Next

\* Inv holds in every state of the service.
THEOREM Invariance == Spec => []Inv
  <1>1. Init => Inv
    BY InitInv
  <1>2. Inv /\ [Next]_vars => Inv'
    BY StepInv
  <1> QED
    BY <1>1, <1>2, PTL DEF Spec

-----------------------------------------------------------------------------
(* What it means.                                                          *)

LEMMA Narrower ==
    ASSUME NEW S, NEW T, NEW s \in Seq(S), \A i \in 1..Len(s) : s[i] \in T
    PROVE  s \in Seq(T)
  <1>1. Len(s) \in Nat /\ s \in [1..Len(s) -> S]
    BY LenProperties
  <1>2. s \in [1..Len(s) -> T]
    BY <1>1
  <1> QED
    BY <1>1, <1>2, SeqDef

LEMMA InvType == Inv => TypeOK
  <1> SUFFICES ASSUME Inv PROVE TypeOK
    OBVIOUS
  <1>1. ServiceType /\ LineType(CheckedRequests, Responses) /\ Dated
    BY DEF Inv, Types
  <1>2. DOMAIN fpga = {"headers", "chunks", "size"}
    BY <1>1 DEF ServiceType, Layouts, Build
  <1>3. fifo \in Seq(1..made)
    BY <1>1, Narrower DEF ServiceType, Dated
  <1>4. \A u \in Users : got[u] \in Seq(1..made)
    BY <1>1, Narrower DEF ServiceType, Dated
  <1>5. \A u \in Users : sent[u] \in Seq(Requests)
    <2>1. CheckedRequests \subseteq Requests
      BY DEF CheckedRequests
    <2> QED
      BY <1>1, <2>1, SeqMonotonic DEF LineType
  <1>6. call \in [Users -> Requests \cup {NoCall}]
    BY <1>1 DEF LineType, CheckedRequests
  <1>7. ASSUME NEW u \in Users, NEW i \in 1..Len(back[u])
        PROVE  LET r == back[u][i]
               IN  /\ r.op \in Ops /\ r.ok \in BOOLEAN
                   /\ CASE r.op = "read" -> r.val \in 0..made
                        [] r.op = "dump" -> DOMAIN r.val = DOMAIN fpga
                        [] OTHER -> r.val = 0
    <2> DEFINE r == back[u][i]
    <2>1. r \in Responses
      BY <1>1, ElementOfSeq DEF LineType
    <2>2. r.op \in Ops /\ r.ok \in BOOLEAN
      BY <2>1 DEF Responses, Ops
    <2>3. r.op = "read" => r.val \in 0..made
      <3>1. r.op = "read" => r.val = 0 \/ r.val \in 1..made
        BY <1>1 DEF Dated, Carries
      <3>2. made \in Nat
        BY <1>1 DEF ServiceType
      <3> QED
        BY <3>1, <3>2
    <2>4. r.op = "dump" => DOMAIN r.val = DOMAIN fpga
      <3>1. r.op = "dump" => r.val \in Layouts
        BY <2>1 DEF Responses, Ops
      <3> QED
        BY <1>2, <3>1 DEF Layouts, Build
    <2>5. r.op # "read" /\ r.op # "dump" => r.val = 0
      BY <2>1 DEF Responses, Ops
    <2> HIDE DEF r
    <2>6. (CASE r.op = "read" -> r.val \in 0..made
             [] r.op = "dump" -> DOMAIN r.val = DOMAIN fpga
             [] OTHER -> r.val = 0)
      <3>1. CASE r.op = "read"
        BY <2>3, <3>1
      <3>2. CASE r.op = "dump"
        BY <2>4, <3>2
      <3>3. CASE r.op # "read" /\ r.op # "dump"
        BY <2>5, <3>3
      <3> QED
        BY <3>1, <3>2, <3>3
    <2> QED
      BY <2>2, <2>6 DEF r
  <1> QED
    BY <1>1, <1>2, <1>3, <1>4, <1>5, <1>6, <1>7
       DEF TypeOK, ServiceType, LineType

\* Every variable keeps its type: what a read answers is a number that was
\* recorded, what a dump answers is a buffer.
THEOREM TypeCorrect == Spec => []TypeOK
  BY InvType, Invariance, PTL

\* A transaction is handed to one client at most, and in the order in which
\* the FPGA recorded them.
THEOREM ReadOnce == Spec => []ReadOnceInOrder
  <1>1. Inv => ReadOnceInOrder
    <2> SUFFICES ASSUME Inv PROVE ReadOnceInOrder
      OBVIOUS
    <2>1. \A u \in Users : Increasing(got[u])
      BY DEF Inv, Ordered
    <2>2. ASSUME NEW u \in Users, NEW w \in Users, u # w,
                 NEW t, t \in Members(got[u]), t \in Members(got[w])
          PROVE  FALSE
      <3>1. Has(u, t) /\ Has(w, t) /\ t \in 1..made
        BY <2>2 DEF Members, Has, Inv, Types, Dated
      <3> QED
        BY <2>2, <3>1 DEF Inv, Ordered, Apart
    <2> QED
      BY <2>1, <2>2 DEF ReadOnceInOrder
  <1> QED
    BY <1>1, Invariance, PTL

-----------------------------------------------------------------------------
(* Uploads.                                                                *)

\* Only its handler sends a user a response.
LEMMA OnlyHandlers ==
    ASSUME Inv, [Next]_vars, NEW u \in Users, Len(back'[u]) > Len(back[u])
    PROVE  Handle(u)
  <1>1. back \in [Users -> Seq(Responses)] /\ Len(back[u]) \in Nat
    BY LenProperties DEF Inv, Types, LineType
  <1>2. back'[u] # back[u]
    BY <1>1
  <1>3. ~UNCHANGED vars /\ ~Record
    BY <1>2 DEF vars, line, Record
  <1>4. ASSUME NEW w \in Users, UserStep(w)
        PROVE  FALSE
    <2>1. CASE (\E r \in Requests : Ask(w, r)) \/ Lose(w)
      BY <1>2, <2>1 DEF Ask, Send, Lose, GiveUp
    <2>2. CASE Take(w) \/ Drop(w)
      <3>1. back[w] # <<>> /\ back' = [back EXCEPT ![w] = Tail(@)]
        BY <2>2 DEF Take, Drop, Receive, Discard
      <3>2. w = u
        BY <1>1, <1>2, <3>1
      <3>3. Len(Tail(back[u])) = Len(back[u]) - 1
        BY <1>1, <3>1, <3>2, TailElements
      <3> QED
        BY <1>1, <3>1, <3>2, <3>3
    <2>3. CASE Leave(w)
      <3>1. back'[u] = <<>> \/ back'[u] = back[u]
        BY <1>1, <2>3 DEF Leave, Depart
      <3>2. Len(<<>>) = 0
        BY EmptySeq
      <3> QED
        BY <1>1, <1>2, <3>1, <3>2
    <2> QED
      BY <1>4, <2>1, <2>2, <2>3 DEF UserStep
  <1>5. ASSUME NEW w \in Users, Handle(w)
        PROVE  w = u
    <2>1. PICK a : Answered(w, a)
      BY <1>5, HandleEffect DEF Inv
    <2> QED
      BY <1>1, <1>2, <2>1 DEF Answered, Respond
  <1> QED
    BY <1>3, <1>4, <1>5 DEF Next

LEMMA AnswerLast ==
    ASSUME Inv, NEW u \in Users, NEW b, Answer(u, b)
    PROVE  Len(back'[u]) > Len(back[u]) /\ back'[u][Len(back'[u])].ok = b
  <1> DEFINE a == [op |-> Head(sent[u]).op, ok |-> b, val |-> 0]
             S == Responses \cup {a}
  <1>1. back[u] \in Seq(S)
    <2>1. back[u] \in Seq(Responses)
      BY DEF Inv, Types, LineType
    <2> QED
      BY <2>1, SeqMonotonic
  <1>2. back'[u] = Append(back[u], a)
    BY DEF Answer, AnswerWith, Respond, Inv, Types, LineType
  <1>3. Len(back'[u]) = Len(back[u]) + 1 /\ Len(back[u]) \in Nat
        /\ back'[u][Len(back[u]) + 1] = a
    <2>1. a \in S
      OBVIOUS
    <2> HIDE DEF a, S
    <2> QED
      BY <1>1, <1>2, <2>1, AppendElements
  <1> QED
    BY <1>3

\* What the handler makes of an upload that fits its message.
LEMMA UploadEffect ==
    ASSUME Inv, NEW u \in Users, UploadPatchBuffer(u),
           FitsMessage(Head(sent[u]).arg), ~LooksOld(Build(Head(sent[u]).arg))
    PROVE  LET ps == Head(sent[u]).arg
               qs == Active(Build(ps))
           IN  /\ PatchList(ps) /\ ValidUpload(ps) /\ ps \in Uploads
               /\ \/ Put(u, qs) /\ Active(Build(qs)) = qs
                  \/ UNCHANGED fpga /\ Answer(u, FALSE)
  <1> DEFINE ps == Head(sent[u]).arg
             qs == Active(Build(ps))
  <1>1. Due(u, "upload") /\ Types
    BY DEF UploadPatchBuffer, Inv
  <1>2. /\ Head(sent[u]) \in CheckedRequests /\ Head(sent[u]).op = "upload"
    BY <1>1, DueRequest
  <1>3. ps \in Uploads /\ ValidUpload(ps)
    BY <1>2 DEF CheckedRequests, Requests
  <1>4. PatchList(ps)
    BY <1>3
  <1>5. Carried(Build(ps)) = Build(ps)
    BY <1>4, SizeFacts
  <1>6. Parse(Build(ps)) = qs /\ Active(Build(qs)) = qs
    BY <1>3, <1>4, <1>5, LayoutsAgree
  <1>7. \/ \E q \in Understood(Build(ps)) : Put(u, q)
        \/ UNCHANGED fpga /\ Answer(u, FALSE)
    BY <1>5 DEF UploadPatchBuffer
  <1>8. Understood(Build(ps)) \subseteq {qs}
    BY <1>6 DEF Understood
  <1> HIDE DEF ps, qs
  <1>9. \/ Put(u, qs)
        \/ UNCHANGED fpga /\ Answer(u, FALSE)
    BY <1>7, <1>8
  <1> QED
    BY <1>3, <1>4, <1>6, <1>9 DEF ps, qs

\* An upload of enabled patches that fits its message and is answered with
\* success.
LEMMA UploadLands ==
    ASSUME Inv, [Next]_vars, NEW u \in Users, NEW ps \in Uploads,
           Uploaded(u, ps), AllEnabled(ps), FitsMessage(ps)
    PROVE  Active(fpga') = Numbered(ps)
  <1>1. Due(u, "upload") /\ Head(sent[u]).arg = ps
    BY DEF Uploaded
  <1>2. Handle(u)
    BY OnlyHandlers DEF Uploaded
  <1>3. UploadPatchBuffer(u)
    BY <1>1, <1>2 DEF Handle, Due, Open, Close, ClearTransactions,
       ReadTransaction, ReadNothing, SetPatch, DumpPatchBuffer, ClearPatches
  <1>4. PatchList(ps)
    OBVIOUS
  <1>5. ~LooksOld(Build(ps))
    <2>1. ValidUpload(ps) /\ 1 \in 1..Len(ps) /\ ps[1].enabled
      <3>1. ValidUpload(ps)
        BY <1>1, DueRequest DEF CheckedRequests, Inv
      <3>2. Len(ps) \in Nat /\ Len(ps) # 0
        <4>1. Len(ps) \in Nat /\ ps = [i \in 1..Len(ps) |-> ps[i]]
          BY <1>4 DEF PatchList
        <4>2. Len(ps) = 0 => ps = <<>>
          BY <4>1
        <4> QED
          BY <4>1, <4>2 DEF AllEnabled
      <3> QED
        BY <3>1, <3>2 DEF AllEnabled
    <2>2. Build(ps).headers[1].stored = ps[1].enabled
      BY <1>4, <2>1, Layout
    <2> QED
      BY <2>1, <2>2 DEF LooksOld
  <1>6. /\ ValidUpload(ps)
        /\ \/ Put(u, Active(Build(ps)))
           \/ Answer(u, FALSE)
    BY <1>1, <1>3, <1>5, UploadEffect
  <1>7. Active(Build(ps)) = Numbered(ps)
        /\ Active(Build(Numbered(ps))) = Numbered(ps)
    BY <1>4, <1>6, EnabledListArrives DEF AllEnabled
  <1>8. ~Answer(u, FALSE)
    BY AnswerLast DEF Uploaded
  <1>9. fpga' = Build(Numbered(ps))
    BY <1>6, <1>7, <1>8 DEF Put
  <1> QED
    BY <1>7, <1>9

\* An upload of enabled patches that is answered with success has made the
\* FPGA apply these patches, with their data, in their order, and no others.
\* Ids are not sent, they follow from the order.
THEOREM UploadsArrive == Spec => UploadExact
  <1>1. Inv /\ [Next]_vars =>
            [\A u \in Users, ps \in Uploads :
                Uploaded(u, ps) /\ AllEnabled(ps) /\ FitsMessage(ps) =>
                    Active(fpga') = Numbered(ps)]_vars
    BY UploadLands
  <1> QED
    BY <1>1, Invariance, PTL DEF Spec, UploadExact

-----------------------------------------------------------------------------
(* What the FPGA applies.                                                  *)

\* SPIProtocolNetwork::setPatch sends 8 bytes of data.
SinglesOfEight == \A p \in Singles : p.len = 8

LEMMA WholeStep ==
    ASSUME SinglesOfEight, Inv, WholeUploads, [Next]_vars
    PROVE  WholeUploads'
  <1> SUFFICES ASSUME AllLegible PROVE Active(fpga') \in Applicable
    BY DEF WholeUploads, AllLegible
  <1>1. Active(fpga) \in Applicable
    BY DEF WholeUploads
  <1>2. CASE UNCHANGED fpga
    BY <1>1, <1>2
  <1>3. ASSUME NEW u \in Users, UploadPatchBuffer(u)
        PROVE  Active(fpga') \in Applicable
    <2> DEFINE ps == Head(sent[u]).arg
    <2>1. ps \in Uploads
      <3>1. Due(u, "upload") /\ Types
        BY <1>3 DEF UploadPatchBuffer, Inv
      <3> QED
        BY <3>1, DueRequest DEF CheckedRequests, Requests
    <2>2. FitsMessage(ps) /\ ~LooksOld(Build(ps))
      BY <2>1 DEF AllLegible, Legible
    <2>3. \/ /\ Put(u, Active(Build(ps)))
             /\ Active(Build(Active(Build(ps)))) = Active(Build(ps))
          \/ UNCHANGED fpga
      BY <1>3, <2>2, UploadEffect
    <2>4. Active(Build(ps)) \in Applicable
      BY <2>1 DEF Applicable, EnabledPart
    <2> HIDE DEF ps
    <2> QED
      BY <1>1, <2>3, <2>4 DEF Put
  <1>4. ASSUME NEW u \in Users, SetPatch(u)
        PROVE  Active(fpga') \in Applicable
    <2>1. PICK p \in Singles : Head(sent[u]).arg = <<p>>
      <3>1. Due(u, "set") /\ Types
        BY <1>4 DEF SetPatch, Inv
      <3> QED
        BY <3>1, DueRequest DEF CheckedRequests, Requests, Ops
    <2>2. SentSingle(p) = p
      <3>1. PatchList(<<p>>) /\ p.len = 8
        BY DEF SinglesOfEight
      <3>2. p = [id |-> p.id, addr |-> p.addr, len |-> p.len,
                 data |-> p.data, enabled |-> p.enabled]
        BY <3>1, OfSingle
      <3> QED
        BY <3>1, <3>2 DEF SentSingle
    <2>3. UnderstoodSingle(p) \subseteq {<<p>>, <<>>}
      BY <2>2 DEF UnderstoodSingle, AllLegible, LegibleSingle
    <2>4. fpga' \in {Build(<<p>>), Build(<<>>)} \/ UNCHANGED fpga
      <3>1. Head(sent[u]).arg[1] = p
        BY <2>1
      <3>2. Put(u, <<p>>) \/ Put(u, <<>>)
        BY <1>4, <2>3, <3>1 DEF SetPatch
      <3> QED
        BY <3>2 DEF Put
    <2> QED
      BY <1>1, <2>4 DEF Applicable, EnabledPart
  <1>5. ASSUME NEW u \in Users, ClearPatches(u)
        PROVE  Active(fpga') \in Applicable
    BY <1>1, <1>5 DEF ClearPatches, EmptyBuffer, Applicable, EnabledPart
  <1>6. \/ UNCHANGED fpga
        \/ \E u \in Users :
              UploadPatchBuffer(u) \/ SetPatch(u) \/ ClearPatches(u)
    BY DEF Next, vars, device, Record, UserStep, Ask, Take, Lose, Drop, Leave,
           Handle, Open, Close, ClearTransactions, ReadTransaction,
           ReadNothing, DumpPatchBuffer
  <1> QED
    BY <1>2, <1>3, <1>4, <1>5, <1>6

\* As long as the server understands the messages that carry the uploads and
\* finds no patch in a single one that it takes for a buffer, the FPGA applies
\* one upload, up to its first disabled patch, or one single patch, and never
\* bytes that nobody sent or a mixture.
THEOREM UploadsStayWhole == SinglesOfEight => (Spec => []WholeUploads)
  <1> SUFFICES ASSUME SinglesOfEight PROVE Spec => []WholeUploads
    OBVIOUS
  <1>1. Init => WholeUploads
    BY DEF Init, WholeUploads, Applicable, EnabledPart
  <1>2. Inv /\ WholeUploads /\ [Next]_vars => WholeUploads'
    BY WholeStep
  <1> QED
    BY <1>1, <1>2, Invariance, PTL DEF Spec

-----------------------------------------------------------------------------
(* Cli.  Types.                                                            *)

\* What a list subcommand may show, and a handler find.
Listings == {Parse(b) : b \in Layouts}
Truths == {<<>>} \cup {Active(b) : b \in Layouts}

ProcessType ==
    /\ job \in [Users -> Commands \cup Programs]
    /\ \A p \in Users : job[p] \in Jobs[p]
    /\ at \in [Users -> Ops \cup {"write", "exit"}]
    /\ status \in [Users -> {NoStatus, 0, 1}]
    /\ shown \in [Users -> Seq(Nat) \cup Listings]
    /\ truth \in [Users -> Truths]
    /\ upset \in BOOLEAN

\* A process works on its command, which was not refused, and waits for the
\* answer to the call that it is at.
Doing ==
    \A p \in Users :
        /\ at[p] \in Ops \ {"open", "close"} => ~Refused(p) /\ at[p] = Work[job[p]]
        /\ call[p] # NoCall => call[p].op = at[p]
        /\ at[p] = "write" => job[p] = "export"

CliTypes == Inv /\ ProcessType /\ Doing

-----------------------------------------------------------------------------
(* One call at a time.                                                     *)

\* p waits for nothing, and nothing of p is under way.
Quiet(p) == call[p] = NoCall /\ sent[p] = <<>> /\ back[p] = <<>>

\* The call of p is under way: its request, or its response, and nothing else.
Asking(p) == call[p] # NoCall /\ sent[p] = <<call[p]>> /\ back[p] = <<>>
Answering(p) == /\ call[p] # NoCall /\ sent[p] = <<>>
                /\ Len(back[p]) = 1 /\ back[p][1].op = call[p].op

\* The response was lost.
Waiting(p) == call[p] # NoCall /\ sent[p] = <<>> /\ back[p] = <<>>

InStep(p) == Quiet(p) \/ Asking(p) \/ Answering(p)

Undisturbed == ~upset => \A p \in Users : InStep(p)

-----------------------------------------------------------------------------
(* The exit status.                                                        *)

\* The requests at which a handler looks what is in the FPGA.
Looks == {"upload", "set", "dump", "unpatch"}

\* What p would show of a dump is what the handler found; and what a set or
\* clear of p asked for was there.
Right(p, listing) ==
    CASE job[p] = "patch set"   -> truth[p] = Asked[p]
      [] job[p] = "patch clear" -> truth[p] = <<>>
      [] job[p] = "patch list"  -> truth[p] = listing

Patching(p) == job[p] \in {"patch set", "patch clear", "patch list"}

\* Until its work is done p has one call under way at most; a success that is
\* on its way to p is right, and so is one that p has settled for, and no
\* request is left that would change what was found.
Reliable(p) ==
    /\ at[p] \in {"open"} \cup Looks => InStep(p) \/ Waiting(p)
    /\ at[p] = "upload" /\ call[p] # NoCall => call[p].arg = Asked[p]
    /\ at[p] \in Looks /\ Answering(p) /\ back[p][1].ok =>
           Right(p, Parse(back[p][1].val))
    /\ at[p] \in {"close", "exit"} /\ status[p] = 0 =>
           /\ Right(p, shown[p])
           /\ \A i \in 1..Len(sent[p]) : sent[p][i].op \notin Looks

Honest == \A p \in Users : Patching(p) => Reliable(p)

-----------------------------------------------------------------------------
(* The device.                                                             *)

\* p has opened the device, or is about to learn that it has, and its request
\* to close it is not handled yet.
Holds(p) ==
    \/ at[p] = "open" /\ Answering(p) /\ back[p][1].ok
    \/ at[p] \in Ops \ {"open", "close"}
    \/ at[p] = "close" /\ ~Answering(p)

Held == ~upset /\ fd => \E p \in Users : Holds(p)

-----------------------------------------------------------------------------
(* The transactions.                                                       *)

\* What a reader has shown, or will show, is what it has read.
ShowsRead(p) ==
    /\ ~Reading(p) \/ at[p] = "open" => got[p] = <<>>
    /\ job[p] = "monitor" => shown[p] = got[p]
    /\ ~upset /\ job[p] = "monitor json" /\ at[p] \in {"open", "close", "exit"} =>
           shown[p] = got[p]
    /\ ~upset /\ job[p] = "export" /\ at[p] = "exit" /\ status[p] # 1 =>
           shown[p] = got[p]

Showing == \A p \in Users : ShowsRead(p)

\* Every transaction is in the queue, or left it for a process.
Somewhere ==
    ~upset /\ (\A p \in Users : job[p] # "clear") =>
        \A t \in 1..made :
            \/ \E i \in 1..Len(fifo) : fifo[i] = t
            \/ \E p \in Users : Has(p, t)

-----------------------------------------------------------------------------
(* What a step does.                                                       *)

LEMMA WorkOf ==
    /\ \A j \in {"monitor", "monitor json", "export"} : Work[j] = "read"
    /\ Work["clear"] = "clear" /\ Work["setPatch"] = "set"
    /\ Work["patch set"] = "upload" /\ Work["uploadPatchBuffer"] = "upload"
    /\ Work["patch set dry"] = "close" /\ Work["patch list"] = "dump"
    /\ Work["patch clear"] = "unpatch"
  BY DEF Work, Commands, Programs

\* The step of p leaves the other processes alone.
Frame(p) ==
    /\ job' = job
    /\ \A w \in Users : w # p =>
          /\ at'[w] = at[w] /\ status'[w] = status[w] /\ shown'[w] = shown[w]
          /\ truth'[w] = truth[w] /\ got'[w] = got[w]
          /\ call'[w] = call[w] /\ sent'[w] = sent[w] /\ back'[w] = back[w]

Kept4 == UNCHANGED <<at, status, shown, truth>>

\* What is left of the requests of p is a prefix of them.
Shortened(p) ==
    \A i \in 1..Len(sent'[p]) : i \in 1..Len(sent[p]) /\ sent'[p][i] = sent[p][i]

LEMMA CutShortens ==
    ASSUME CliTypes, NEW p \in Users, Cut(p, 0)
    PROVE  Shortened(p) /\ \A w \in Users : w # p => sent'[w] = sent[w]
  <1>1. sent \in [Users -> Seq(CheckedRequests)] /\ Len(sent[p]) \in Nat
    BY LenProperties DEF CliTypes, Inv, Types, LineType
  <1>2. PICK n \in 0..Len(sent[p]) :
            sent' = [sent EXCEPT ![p] = SubSeq(sent[p], 1, n)]
    BY DEF Cut
  <1>3. /\ Len(SubSeq(sent[p], 1, n)) = n
        /\ \A i \in 1..n : SubSeq(sent[p], 1, n)[i] = sent[p][i]
    BY <1>1, PrefixElements
  <1> QED
    BY <1>1, <1>2, <1>3 DEF Shortened

LEMMA AskEffect ==
    ASSUME CliTypes, NEW p \in Users, CliAsk(p)
    PROVE  /\ \E r \in CheckedRequests :
                 /\ Ask(p, r) /\ r.op = at[p] /\ call'[p] = r /\ r # NoCall
                 /\ sent'[p] = Append(sent[p], r)
                 /\ job[p] = "patch set" /\ at[p] = "upload" => r.arg = Asked[p]
           /\ call[p] = NoCall /\ Kept4 /\ Frame(p)
           /\ UNCHANGED <<back, got, device, upset>>
  <1> USE DEF CliTypes
  <1>1. PICK a \in IF at[p] \in {"upload", "set"} THEN Arguments(p)
                   ELSE {<<>>} : Ask(p, [op |-> at[p], arg |-> a])
    BY DEF CliAsk
  <1> DEFINE r == [op |-> at[p], arg |-> a]
  <1>2. at[p] \in Ops /\ UNCHANGED <<process, truth, upset>>
    BY DEF CliAsk
  <1>3. /\ job[p] \in Commands \cup Programs
        /\ at[p] \in Ops \ {"open", "close"} =>
               ~Refused(p) /\ at[p] = Work[job[p]]
    BY DEF ProcessType, Doing
  <1>4. r \in CheckedRequests
    <2>1. CASE at[p] = "upload"
      <3>1. job[p] \in {"patch set", "uploadPatchBuffer"}
        BY <1>3, <2>1, WorkOf DEF Commands, Programs, Ops, Refused
      <3>2. a \in Uploads /\ ValidUpload(a)
        <4>1. CASE job[p] = "patch set"
          <5>1. a = Asked[p]
            BY <1>1, <2>1, <4>1 DEF Arguments
          <5>2. Asked[p] # <<>> /\ ValidUpload(Asked[p])
            BY <1>3, <2>1, <4>1 DEF Refused, Ops
          <5> QED
            BY <5>1, <5>2, CliAssumption
        <4>2. CASE job[p] = "uploadPatchBuffer"
          BY <1>1, <2>1, <4>2, CliAssumption DEF Arguments
        <4> QED
          BY <3>1, <4>1, <4>2
      <3> QED
        BY <2>1, <3>2 DEF CheckedRequests, Requests
    <2>2. CASE at[p] = "set"
      <3>1. job[p] = "setPatch"
        BY <1>3, <2>2, WorkOf DEF Commands, Programs, Ops, Refused
      <3>2. a \in {<<q>> : q \in Singles}
        BY <1>1, <2>2, <3>1 DEF Arguments
      <3> QED
        BY <2>2, <3>2 DEF CheckedRequests, Requests
    <2>3. CASE at[p] \notin {"upload", "set"}
      <3>1. a = <<>>
        BY <1>1, <2>3
      <3> QED
        BY <1>2, <2>3, <3>1 DEF CheckedRequests, Requests
    <2> QED
      BY <2>1, <2>2, <2>3
  <1>5. job[p] = "patch set" /\ at[p] = "upload" => a = Asked[p]
    BY <1>1 DEF Arguments
  <1>6. r # NoCall
    BY <1>2 DEF Ops, NoCall
  <1>7. /\ call' = [call EXCEPT ![p] = r]
        /\ sent' = [sent EXCEPT ![p] = Append(sent[p], r)]
        /\ call[p] = NoCall /\ UNCHANGED <<back, device, got>>
    BY <1>1 DEF Ask, Send, Idle
  <1>8. call'[p] = r /\ sent'[p] = Append(sent[p], r)
    BY <1>7 DEF Inv, Types, LineType
  <1>9. Frame(p) /\ Kept4
    BY <1>2, <1>7 DEF Frame, Kept4, process, Inv, Types, LineType
  <1> QED
    BY <1>1, <1>2, <1>4, <1>5, <1>6, <1>7, <1>8, <1>9

\* Proceed moves p alone.  What it shows is a sequence of transactions that p
\* has read, or a dump.
LEMMA ProceedEffect ==
    ASSUME CliTypes, NEW p \in Users, NEW r, Proceed(p, r)
    PROVE  /\ job' = job
           /\ \E a \in Ops \cup {"write", "exit"} : at' = [at EXCEPT ![p] = a]
           /\ \E n \in {NoStatus, 0, 1} : status' = [status EXCEPT ![p] = n]
           /\ \E x : /\ shown' = [shown EXCEPT ![p] = x]
                     /\ \/ x = shown[p]
                        \/ x = got'[p]
                        \/ at[p] = "dump" /\ r.ok /\ x = Parse(r.val)
  <1> USE DEF CliTypes, ProcessType
  <1> DEFINE Some(a, n, x) ==
                 /\ at' = [at EXCEPT ![p] = a]
                 /\ status' = [status EXCEPT ![p] = n]
                 /\ shown' = [shown EXCEPT ![p] = x]
  <1>1. /\ at = [at EXCEPT ![p] = at[p]]
        /\ status = [status EXCEPT ![p] = status[p]]
        /\ shown = [shown EXCEPT ![p] = shown[p]]
        /\ at[p] \in Ops \cup {"write", "exit"}
        /\ status[p] \in {NoStatus, 0, 1}
    OBVIOUS
  <1>2. ASSUME Begin(p), at[p] = "open", ~Refused(p)
        PROVE  /\ \E a \in Ops : at' = [at EXCEPT ![p] = a]
               /\ \E n \in {NoStatus, 0, 1} : status' = [status EXCEPT ![p] = n]
    <2>1. Work[job[p]] \in Ops
      <3>1. job[p] \in (Commands \cup Programs) \ {"refused"}
        BY <1>2 DEF Refused
      <3> QED
        BY ZenonT(40), <3>1, WorkOf DEF Commands, Programs, Ops
    <2>2. PICK a \in {Work[job[p]], "close"} :
              /\ at' = [at EXCEPT ![p] = a]
              /\ status' = [status EXCEPT ![p] = 0] \/ status' = status
      BY <1>2 DEF Begin, Goto, Settle
    <2>3. a \in Ops
      BY <2>1, <2>2 DEF Ops
    <2> QED
      BY <1>1, <2>2, <2>3
  <1>3. CASE Opened(p, r)
    <2>1. shown' = [shown EXCEPT ![p] = shown[p]]
      BY <1>1, <1>3 DEF Opened
    <2>2. CASE ~r.ok \/ Refused(p)
      <3>1. /\ \E a \in {"exit", "close"} : at' = [at EXCEPT ![p] = a]
            /\ status' = [status EXCEPT ![p] = 1]
        BY <1>3, <2>2 DEF Opened, Goto, Settle
      <3> QED
        BY <2>1, <3>1 DEF Proceed, Ops
    <2>3. CASE r.ok /\ ~Refused(p)
      <3>1. Begin(p) /\ at[p] = "open"
        BY <1>3, <2>3 DEF Opened
      <3> QED
        BY <1>2, <2>1, <2>3, <3>1 DEF Proceed
    <2> QED
      BY <2>2, <2>3
  <1>4. CASE Read(p, r)
    <2>1. \E a \in Ops : at' = [at EXCEPT ![p] = a]
      BY <1>1, <1>4 DEF Read, Goto, Ops
    <2>2. \E n \in {NoStatus, 0, 1} : status' = [status EXCEPT ![p] = n]
      BY <1>1, <1>4 DEF Read, Settle
    <2>3. \E x \in {shown[p], got'[p]} : shown' = [shown EXCEPT ![p] = x]
      BY <1>1, <1>4 DEF Read, Show
    <2> QED
      BY <2>1, <2>2, <2>3 DEF Proceed
  <1>5. CASE Worked(p, r)
    <2>1. /\ at' = [at EXCEPT ![p] = "close"]
          /\ \E n \in {0, 1} : status' = [status EXCEPT ![p] = n]
      BY <1>5 DEF Worked, Goto, Settle
    <2>2. \/ shown' = [shown EXCEPT ![p] = shown[p]]
          \/ /\ at[p] = "dump" /\ r.ok
             /\ shown' = [shown EXCEPT ![p] = Parse(r.val)]
      BY <1>1, <1>5 DEF Worked, Show
    <2> QED
      BY <2>1, <2>2 DEF Proceed, Ops
  <1>6. CASE Closed(p)
    <2>1. /\ \E a \in {"write", "exit"} : at' = [at EXCEPT ![p] = a]
          /\ status' = status /\ shown' = shown
      BY <1>6 DEF Closed, Goto
    <2> QED
      BY <1>1, <2>1 DEF Proceed
  <1> QED
    BY <1>3, <1>4, <1>5, <1>6 DEF Proceed

LEMMA TakeEffect ==
    ASSUME CliTypes, NEW p \in Users, CliTake(p)
    PROVE  /\ call[p] # NoCall /\ back[p] # <<>>
           /\ Head(back[p]).op = at[p] /\ call[p].op = at[p]
           /\ call'[p] = NoCall /\ back'[p] = Tail(back[p])
           /\ UNCHANGED <<sent, device, truth, upset>>
           /\ got'[p] = IF at[p] = "read" /\ Head(back[p]).val # 0
                        THEN Append(got[p], Head(back[p]).val) ELSE got[p]
           /\ Proceed(p, Head(back[p])) /\ Frame(p)
  <1> USE DEF CliTypes
  <1>1. Take(p) /\ Proceed(p, Head(back[p])) /\ UNCHANGED <<truth, upset>>
    BY DEF CliTake
  <1>2. call[p] # NoCall /\ back[p] # <<>> /\ Head(back[p]).op = call[p].op
    BY <1>1 DEF Take, Receive
  <1>3. call[p].op = at[p]
    BY <1>2 DEF Doing
  <1>4. /\ call' = [call EXCEPT ![p] = NoCall]
        /\ back' = [back EXCEPT ![p] = Tail(back[p])]
        /\ got' = [got EXCEPT
              ![p] = IF call[p].op = "read" /\ Head(back[p]).val # 0
                     THEN Append(got[p], Head(back[p]).val) ELSE got[p]]
        /\ UNCHANGED <<sent, device>>
    BY <1>1 DEF Take, Receive
  <1>5. /\ call'[p] = NoCall /\ back'[p] = Tail(back[p])
        /\ got'[p] = IF at[p] = "read" /\ Head(back[p]).val # 0
                     THEN Append(got[p], Head(back[p]).val) ELSE got[p]
    BY <1>3, <1>4 DEF Inv, Types, LineType, ServiceType
  <1>6. Frame(p)
    <2>1. \A w \in Users :
              w # p => /\ call'[w] = call[w] /\ back'[w] = back[w]
                       /\ got'[w] = got[w]
      BY <1>4 DEF Inv, Types, LineType, ServiceType
    <2>2. /\ job' = job
          /\ \A w \in Users : w # p => /\ at'[w] = at[w] /\ shown'[w] = shown[w]
                                       /\ status'[w] = status[w]
      BY <1>1, ProceedEffect DEF ProcessType
    <2> QED
      BY <1>1, <1>4, <2>1, <2>2 DEF Frame
  <1> QED
    BY <1>1, <1>2, <1>3, <1>4, <1>5, <1>6

LEMMA LoseEffect ==
    ASSUME CliTypes, NEW p \in Users, CliLose(p)
    PROVE  /\ call[p] # NoCall /\ call[p].op = at[p] /\ call'[p] = NoCall
           /\ UNCHANGED <<back, got, device, truth>> /\ upset' = TRUE
           /\ Shortened(p) /\ Proceed(p, Nothing) /\ Frame(p)
  <1> USE DEF CliTypes
  <1>1. /\ call[p] # NoCall /\ Cut(p, 0) /\ upset' = TRUE
        /\ call' = [call EXCEPT ![p] = NoCall]
        /\ UNCHANGED <<back, got, device, truth>>
        /\ Proceed(p, Nothing)
    BY DEF CliLose, Lose, GiveUp
  <1>2. call'[p] = NoCall /\ call[p].op = at[p]
    BY <1>1 DEF Doing, Inv, Types, LineType
  <1>3. Shortened(p) /\ \A w \in Users : w # p => sent'[w] = sent[w]
    BY <1>1, CutShortens
  <1>4. Frame(p)
    <2>1. \A w \in Users : w # p => call'[w] = call[w]
      BY <1>1 DEF Inv, Types, LineType
    <2>2. /\ job' = job
          /\ \A w \in Users : w # p => /\ at'[w] = at[w] /\ shown'[w] = shown[w]
                                       /\ status'[w] = status[w]
      BY <1>1, ProceedEffect DEF ProcessType
    <2> QED
      BY <1>1, <1>3, <2>1, <2>2 DEF Frame
  <1> QED
    BY <1>1, <1>2, <1>3, <1>4

LEMMA DropEffect ==
    ASSUME CliTypes, NEW p \in Users, CliDrop(p)
    PROVE  /\ back[p] # <<>> /\ back'[p] = Tail(back[p]) /\ upset' = TRUE
           /\ UNCHANGED <<call, sent, got, device>> /\ Kept4 /\ Frame(p)
  BY DEF CliTypes, CliDrop, Drop, Discard, Kept4, Frame, process, Inv, Types,
         LineType

LEMMA KillEffect ==
    ASSUME CliTypes, NEW p \in Users, Kill(p)
    PROVE  /\ at' = [at EXCEPT ![p] = "exit"]
           /\ status' = [status EXCEPT ![p] = NoStatus]
           /\ call'[p] = NoCall /\ back'[p] = <<>> /\ Shortened(p)
           /\ upset' = TRUE /\ UNCHANGED <<shown, truth, got, device>>
           /\ Frame(p)
  <1> USE DEF CliTypes
  <1>1. /\ Cut(p, 0) /\ upset' = TRUE
        /\ call' = [call EXCEPT ![p] = NoCall]
        /\ back' = [back EXCEPT ![p] = <<>>]
        /\ at' = [at EXCEPT ![p] = "exit"]
        /\ status' = [status EXCEPT ![p] = NoStatus]
        /\ UNCHANGED <<job, shown, truth, got, device>>
    BY DEF Kill, Leave, Depart, Goto, Settle
  <1>2. call'[p] = NoCall /\ back'[p] = <<>>
    BY <1>1 DEF Inv, Types, LineType
  <1>3. Shortened(p) /\ \A w \in Users : w # p => sent'[w] = sent[w]
    BY <1>1, CutShortens
  <1>4. Frame(p)
    <2>1. \A w \in Users : w # p => call'[w] = call[w] /\ back'[w] = back[w]
      BY <1>1 DEF Inv, Types, LineType
    <2>2. /\ job' = job
          /\ \A w \in Users : w # p => /\ at'[w] = at[w] /\ shown'[w] = shown[w]
                                       /\ status'[w] = status[w]
      BY <1>1 DEF ProcessType
    <2> QED
      BY <1>1, <1>3, <2>1, <2>2 DEF Frame
  <1> QED
    BY <1>1, <1>2, <1>3, <1>4

LEMMA WriteEffect ==
    ASSUME CliTypes, NEW p \in Users, Write(p)
    PROVE  /\ at[p] = "write" /\ at' = [at EXCEPT ![p] = "exit"]
           /\ \/ /\ shown' = [shown EXCEPT ![p] = got[p]]
                 /\ status' = [status EXCEPT ![p] = 0]
              \/ shown' = shown /\ status' = [status EXCEPT ![p] = 1]
           /\ UNCHANGED <<vars, truth, upset>> /\ Frame(p)
  BY DEF CliTypes, Write, Goto, Settle, Show, Frame, ProcessType, vars, line

\* The handler answers the request that was due.
LEMMA HandleAnswers ==
    ASSUME NEW p, Handle(p)
    PROVE  \E ok, v : AnswerWith(p, ok, v)
  BY DEF Handle, Open, Close, ClearTransactions, ReadTransaction, ReadNothing,
         UploadPatchBuffer, SetPatch, Put, DumpPatchBuffer, ClearPatches, Answer

LEMMA CliHandleEffect ==
    ASSUME CliTypes, NEW p \in Users, CliHandle(p)
    PROVE  /\ \E a : /\ Answered(p, a) /\ a.op = Head(sent[p]).op
                     /\ back'[p] = Append(back[p], a)
           /\ sent[p] # <<>> /\ sent'[p] = Tail(sent[p])
           /\ truth' = IF Head(sent[p]).op \in Looks
                       THEN [truth EXCEPT ![p] = Active(fpga')] ELSE truth
           /\ UNCHANGED <<at, status, shown, got, made, call, upset>>
           /\ Settled /\ Frame(p)
  <1> USE DEF CliTypes
  <1>1. /\ Handle(p) /\ UNCHANGED <<process, upset>>
        /\ truth' = IF Head(sent[p]).op \in Looks
                    THEN [truth EXCEPT ![p] = Active(fpga')] ELSE truth
    BY DEF CliHandle, Looks
  <1>2. Settled /\ \E a : Answered(p, a)
    BY <1>1, HandleEffect DEF Inv
  <1>3. PICK a : Answered(p, a)
    BY <1>2
  <1>4. PICK ok, v : Respond(p, [op |-> Head(sent[p]).op, ok |-> ok, val |-> v])
    BY <1>1, HandleAnswers DEF AnswerWith
  <1> DEFINE b == [op |-> Head(sent[p]).op, ok |-> ok, val |-> v]
             S == Responses \cup {b}
  <1>5. back'[p] = Append(back[p], a) /\ back'[p] = Append(back[p], b)
    BY <1>3, <1>4 DEF Answered, Respond, Inv, Types, LineType
  <1>6. a = b
    <2>1. back[p] \in Seq(S) /\ a \in S /\ b \in S
      <3>1. back[p] \in Seq(Responses)
        BY DEF Inv, Types, LineType
      <3>2. Seq(Responses) \subseteq Seq(S)
        BY SeqMonotonic
      <3> QED
        BY <1>3, <3>1, <3>2 DEF Answered
    <2>2. b \in S /\ back[p] \in Seq(S)
      BY <2>1
    <2> HIDE DEF b, S
    <2>3. /\ Append(back[p], a)[Len(back[p]) + 1] = a
          /\ Append(back[p], b)[Len(back[p]) + 1] = b
      BY <2>1, AppendElements
    <2> QED
      BY <1>5, <2>3
  <1>7. a.op = Head(sent[p]).op
    BY <1>6
  <1>8. /\ sent[p] # <<>> /\ sent'[p] = Tail(sent[p])
        /\ UNCHANGED <<at, status, shown, got, made, call>>
    BY <1>1, <1>2, <1>3
       DEF Answered, Respond, Settled, process, Inv, Types, LineType
  <1>9. Frame(p)
    BY <1>1, <1>2, <1>3
       DEF Frame, Answered, Respond, Settled, process, ProcessType, Inv, Types,
           LineType
  <1> QED
    BY <1>1, <1>2, <1>3, <1>5, <1>7, <1>8, <1>9

-----------------------------------------------------------------------------
(* A command is a user of the service.                                     *)

LEMMA StepIsService ==
    ASSUME CliTypes, [CliNext]_cliVars
    PROVE  [Next]_vars
  <1>1. CASE UNCHANGED cliVars
    BY <1>1 DEF cliVars
  <1>2. ASSUME NEW p \in Users, ProcessStep(p) \/ CliDrop(p) \/ Kill(p)
        PROVE  UserStep(p) \/ UNCHANGED vars
    <2>1. CASE CliAsk(p)
      BY <2>1, AskEffect DEF UserStep, CheckedRequests
    <2>2. CASE CliTake(p) \/ CliLose(p) \/ CliDrop(p) \/ Kill(p)
      BY <2>2 DEF CliTake, CliLose, CliDrop, Kill, UserStep
    <2>3. CASE Write(p)
      BY <2>3 DEF Write
    <2> QED
      BY <1>2, <2>1, <2>2, <2>3 DEF ProcessStep
  <1>3. ASSUME NEW p \in Users, CliHandle(p)
        PROVE  Handle(p)
    BY <1>3 DEF CliHandle
  <1>4. CliRecord => Record
    BY DEF CliRecord
  <1> QED
    BY <1>1, <1>2, <1>3, <1>4 DEF CliNext, Next

\* The process goes on to a call of its command.
LEMMA ProceedDoing ==
    ASSUME CliTypes, NEW p \in Users, NEW r, Proceed(p, r)
    PROVE  /\ at'[p] \in Ops \ {"open", "close"} =>
                  ~Refused(p) /\ at'[p] = Work[job[p]]
           /\ at'[p] = "write" => job[p] = "export"
  <1> USE DEF CliTypes
  <1>1. /\ at \in [Users -> Ops \cup {"write", "exit"}]
        /\ at[p] \in Ops \ {"open", "close"} =>
               ~Refused(p) /\ at[p] = Work[job[p]]
        /\ at[p] = "write" => job[p] = "export"
    BY DEF ProcessType, Doing
  <1>2. CASE Opened(p, r)
    <2>1. \/ at'[p] \in {"exit", "close"}
          \/ ~Refused(p) /\ at'[p] \in {Work[job[p]], "close"}
      BY <1>1, <1>2 DEF Opened, Begin, Goto
    <2>2. ~Refused(p) => Work[job[p]] # "write"
      <3>1. job[p] \in Commands \cup Programs
        BY DEF ProcessType
      <3> QED
        BY <3>1, WorkOf DEF Refused, Commands, Programs
    <2> QED
      BY <2>1, <2>2 DEF Ops
  <1>3. CASE Read(p, r)
    <2>1. at'[p] \in {at[p], "close"}
      BY <1>1, <1>3 DEF Read, Goto
    <2> QED
      BY <1>1, <2>1
  <1>4. CASE Worked(p, r)
    BY <1>1, <1>4 DEF Worked, Goto
  <1>5. CASE Closed(p)
    BY <1>1, <1>5 DEF Closed, Goto, Ops
  <1> QED
    BY <1>2, <1>3, <1>4, <1>5 DEF Proceed

LEMMA TypesStep ==
    ASSUME CliTypes, [CliNext]_cliVars
    PROVE  CliTypes'
  <1>1. Inv'
    BY StepIsService, StepInv DEF CliTypes
  <1> DEFINE doing(w) ==
                 /\ at[w] \in Ops \ {"open", "close"} =>
                        ~Refused(w) /\ at[w] = Work[job[w]]
                 /\ call[w] # NoCall => call[w].op = at[w]
                 /\ at[w] = "write" => job[w] = "export"
             typed == /\ at' \in [Users -> Ops \cup {"write", "exit"}]
                      /\ status' \in [Users -> {NoStatus, 0, 1}]
                      /\ shown' \in [Users -> Seq(Nat) \cup Listings]
  <1>2. ProcessType /\ \A w \in Users : doing(w)
    BY DEF CliTypes, Doing
  <1>3. ASSUME NEW p \in Users, Frame(p), doing(p)', typed,
               truth' \in [Users -> Truths], upset' \in BOOLEAN
        PROVE  CliTypes'
    <2>1. ProcessType'
      BY <1>2, <1>3 DEF ProcessType, Frame
    <2>2. ASSUME NEW w \in Users, w # p
          PROVE  doing(w)'
      BY ZenonT(40), <1>2, <1>3, <2>2 DEF Frame, Refused
    <2> HIDE DEF doing
    <2>3. \A w \in Users : doing(w)'
      BY <1>3, <2>2
    <2> QED
      BY <1>1, <2>1, <2>3 DEF CliTypes, Doing, doing
  <1>4. ASSUME NEW p \in Users, NEW r, Proceed(p, r), call'[p] = NoCall,
               got'[p] \in Seq(Nat),
               at[p] = "dump" /\ r.ok => r.val \in Layouts
        PROVE  doing(p)' /\ typed
    <2>1. doing(p)'
      BY <1>4, ProceedDoing, ProceedEffect DEF Refused
    <2>2. typed
      <3>1. \E a \in Ops \cup {"write", "exit"} : at' = [at EXCEPT ![p] = a]
        BY <1>4, ProceedEffect
      <3>2. \E n \in {NoStatus, 0, 1} : status' = [status EXCEPT ![p] = n]
        BY <1>4, ProceedEffect
      <3>3. PICK x : /\ shown' = [shown EXCEPT ![p] = x]
                     /\ \/ x = shown[p]
                        \/ x = got'[p]
                        \/ at[p] = "dump" /\ r.ok /\ x = Parse(r.val)
        BY <1>4, ProceedEffect
      <3>4. x \in Seq(Nat) \cup Listings
        BY <1>2, <1>4, <3>3 DEF ProcessType, Listings
      <3> QED
        BY <1>2, <3>1, <3>2, <3>3, <3>4 DEF ProcessType
    <2> QED
      BY <2>1, <2>2
  <1>5. ASSUME NEW p \in Users, CliAsk(p)
        PROVE  CliTypes'
    <2>1. doing(p)'
      BY ZenonT(90), <1>2, <1>5, AskEffect DEF Frame, Kept4, Refused
    <2> QED
      BY <1>2, <1>3, <1>5, <2>1, AskEffect DEF Kept4, ProcessType
  <1>6. ASSUME NEW p \in Users, CliTake(p)
        PROVE  CliTypes'
    <2>1. got'[p] \in Seq(Nat)
      BY <1>1 DEF Inv, Types, ServiceType
    <2>2. at[p] = "dump" => Head(back[p]).val \in Layouts
      <3>1. Head(back[p]) \in Responses /\ Head(back[p]).op = at[p]
        BY <1>6, TakeEffect, TailElements DEF CliTypes, Inv, Types, LineType
      <3> QED
        BY <3>1 DEF Responses
    <2>3. /\ Proceed(p, Head(back[p])) /\ call'[p] = NoCall /\ Frame(p)
          /\ UNCHANGED <<truth, upset>>
      BY <1>6, TakeEffect
    <2>4. doing(p)' /\ typed
      BY <1>4, <2>1, <2>2, <2>3
    <2> HIDE DEF doing, typed
    <2> QED
      BY <1>2, <1>3, <2>3, <2>4 DEF ProcessType
  <1>7. ASSUME NEW p \in Users, CliLose(p)
        PROVE  CliTypes'
    <2>1. got'[p] \in Seq(Nat)
      BY <1>1 DEF Inv, Types, ServiceType
    <2>2. /\ Proceed(p, Nothing) /\ call'[p] = NoCall /\ Frame(p)
          /\ UNCHANGED truth /\ upset' = TRUE
      BY <1>7, LoseEffect
    <2>3. doing(p)' /\ typed
      BY <1>4, <2>1, <2>2 DEF Nothing
    <2> HIDE DEF doing, typed
    <2> QED
      BY <1>2, <1>3, <2>2, <2>3 DEF ProcessType
  <1>8. ASSUME NEW p \in Users, CliDrop(p)
        PROVE  CliTypes'
    <2>1. doing(p)'
      BY ZenonT(90), <1>2, <1>8, DropEffect DEF Frame, Kept4, Refused
    <2> QED
      BY <1>2, <1>3, <1>8, <2>1, DropEffect DEF Kept4, ProcessType
  <1>9. ASSUME NEW p \in Users, Kill(p)
        PROVE  CliTypes'
    <2>1. at'[p] = "exit"
      BY <1>2, <1>9, KillEffect DEF ProcessType
    <2>2. doing(p)'
      BY <1>9, <2>1, KillEffect DEF Ops
    <2> QED
      BY ZenonT(40), <1>2, <1>3, <1>9, <2>2, KillEffect DEF ProcessType
  <1>10. ASSUME NEW p \in Users, Write(p)
         PROVE  CliTypes'
    <2>1. at'[p] = "exit" /\ call' = call
      BY <1>2, <1>10, WriteEffect DEF ProcessType, vars, line
    <2>2. call[p] = NoCall
      <3>1. call[p] # NoCall => call[p].op \in Ops
        BY DEF CliTypes, Inv, Types, LineType, CheckedRequests, Requests, Ops
      <3>2. at[p] = "write"
        BY <1>10, WriteEffect
      <3> QED
        BY <1>2, <3>1, <3>2 DEF Ops
    <2>3. doing(p)'
      BY <2>1, <2>2 DEF Ops
    <2>4. got[p] \in Seq(Nat)
      BY DEF CliTypes, Inv, Types, ServiceType
    <2>5. typed
      <3>1. /\ at' = [at EXCEPT ![p] = "exit"]
            /\ \E n \in {0, 1} : status' = [status EXCEPT ![p] = n]
            /\ shown' = shown \/ shown' = [shown EXCEPT ![p] = got[p]]
        BY <1>10, WriteEffect
      <3> QED
        BY <1>2, <2>4, <3>1 DEF ProcessType
    <2> HIDE DEF doing, typed
    <2> QED
      BY <1>2, <1>3, <1>10, <2>3, <2>5, WriteEffect DEF ProcessType
  <1>11. ASSUME NEW p \in Users, CliHandle(p)
         PROVE  CliTypes'
    <2>1. doing(p)'
      BY ZenonT(40), <1>2, <1>11, CliHandleEffect DEF Frame, Refused
    <2>2. truth' \in [Users -> Truths]
      <3>1. Active(fpga') \in Truths
        BY <1>11, CliHandleEffect DEF Settled, Truths
      <3> QED
        BY <1>2, <1>11, <3>1, CliHandleEffect DEF ProcessType
    <2> QED
      BY <1>2, <1>3, <1>11, <2>1, <2>2, CliHandleEffect DEF ProcessType
  <1>12. CASE CliRecord \/ UNCHANGED cliVars
    <2>1. UNCHANGED <<process, truth, upset, call>>
      BY <1>12 DEF CliRecord, Record, line, cliVars, vars
    <2> QED
      BY <1>1, <1>2, <2>1 DEF CliTypes, Doing, ProcessType, process, Refused
  <1> QED
    BY <1>5, <1>6, <1>7, <1>8, <1>9, <1>10, <1>11, <1>12
       DEF CliNext, ProcessStep

LEMMA CliInitTypes == CliInit => CliTypes
  <1> SUFFICES ASSUME CliInit PROVE CliTypes
    OBVIOUS
  <1>1. Inv
    BY InitInv DEF CliInit
  <1>2. /\ <<>> \in Seq(Nat) /\ <<>> \in Truths
        /\ \A p \in Users : at[p] = "open" /\ call[p] = NoCall
    BY EmptySeq DEF CliInit, Init, LineInit, Truths
  <1>3. ProcessType
    BY <1>2 DEF CliInit, ProcessType, Ops
  <1>4. Doing
    BY <1>2 DEF Doing
  <1> QED
    BY <1>1, <1>3, <1>4 DEF CliTypes

\* What the invariants below rest on.
THEOREM CliInvariance == CliSpec => []CliTypes
  <1>1. CliInit => CliTypes
    BY CliInitTypes
  <1>2. CliTypes /\ [CliNext]_cliVars => CliTypes'
    BY TypesStep
  <1> QED
    BY <1>1, <1>2, PTL DEF CliSpec

\* Whatever a command does is what a user of the service may do: it passes
\* valid uploads only, and makes its calls one after the other.
THEOREM CommandsUseService == CliSpec => Spec
  <1>1. CliInit => Init
    BY DEF CliInit
  <1>2. CliTypes /\ [CliNext]_cliVars => [Next]_vars
    BY StepIsService
  <1> QED
    BY <1>1, <1>2, CliInvariance, PTL DEF CliSpec, Spec

\* What the service promises its users holds for the commands: each gets its
\* transactions once and in order, and an upload that succeeds is applied as
\* it was asked for.
THEOREM PromisesKept == CliSpec => []ReadOnceInOrder /\ UploadExact
  BY CommandsUseService, ReadOnce, UploadsArrive, PTL

\* The FPGA never applies a mixture of what several commands sent.
THEOREM CommandsStayWhole == SinglesOfEight => (CliSpec => []WholeUploads)
  BY CommandsUseService, UploadsStayWhole, PTL

-----------------------------------------------------------------------------
(* What is in the FPGA.                                                    *)

LEMMA EmptyList == PatchList(<<>>) /\ ValidUpload(<<>>) /\ FitsMessage(<<>>)
  <1>1. Len(<<>>) = 0
    BY EmptySeq
  <1>2. PatchList(<<>>)
    BY <1>1 DEF PatchList
  <1>3. ValidUpload(<<>>)
    BY <1>1 DEF ValidUpload, MaxPatches
  <1>4. Before(<<>>)[0] = 0
    BY <1>1, <1>2, BeforeSums DEF Sums
  <1>5. FitsMessage(<<>>)
    BY <1>1, <1>4 DEF FitsMessage, HeaderSize, Build
  <1> QED
    BY <1>2, <1>3, <1>5

\* Whatever the headers are read for, they are read as patches.
LEMMA ReadList ==
    ASSUME NEW ps, PatchList(ps), ValidUpload(ps),
           NEW b, b.headers = Build(ps).headers, NEW stop \in SUBSET (1..Len(ps))
    PROVE  PatchList(ReadHeaders(b, stop))
  <1> DEFINE T == {Len(b.headers) + 1} \cup stop
             n == Min(T) - 1
             qs == ReadHeaders(b, stop)
  <1>1. Len(b.headers) = Len(ps) /\ Len(ps) \in 0..8
    BY HeaderCount, FewPatches
  <1>2. n \in 0..Len(ps)
    <2>1. \A k \in T : k \in 1..(Len(ps) + 1) /\ k \in 0..(Len(ps) + 1)
      BY <1>1
    <2>2. T # {} /\ Len(ps) + 1 \in Nat
      BY <1>1
    <2> HIDE DEF T
    <2>3. T \in SUBSET (0..(Len(ps) + 1))
      BY <2>1
    <2>4. Min(T) \in T
      BY <2>2, <2>3, MinLeast
    <2>5. Min(T) \in 1..(Len(ps) + 1)
      BY <2>1, <2>4
    <2> QED
      BY <1>1, <2>5
  <1> HIDE DEF n
  <1>3. ASSUME NEW i \in 1..n
        PROVE  /\ b.headers[i].addr \in Nat /\ b.headers[i].len \in Nat
               /\ i - 1 \in 0..255
    <2>1. i \in 1..Len(ps) /\ i - 1 \in 0..255
      BY <1>1, <1>2, FewIds
    <2>2. ps[i].addr \in Nat /\ ps[i].len \in Nat
      BY <2>1 DEF PatchList
    <2>3. /\ b.headers[i].addr = ps[i].addr
          /\ b.headers[i].len = ps[i].len % 65536
      BY <2>1 DEF Build
    <2> QED
      BY <2>1, <2>2, <2>3
  <1>4. qs = [i \in 1..n |-> [id      |-> i - 1,
                              addr    |-> b.headers[i].addr,
                              len     |-> b.headers[i].len,
                              data    |-> Slice(b, b.headers[i].off,
                                                   b.headers[i].len),
                              enabled |-> TRUE]]
    BY DEF ReadHeaders, n
  <1>5. n \in Nat /\ qs = [i \in 1..n |-> qs[i]]
    BY <1>1, <1>2, <1>4
  <1>6. Len(qs) = n
    <2> HIDE DEF qs
    <2> QED
      BY <1>5, LengthOf
  <1>7. ASSUME NEW i \in 1..n
        PROVE  /\ qs[i].id \in 0..255
               /\ qs[i].addr \in Nat /\ qs[i].len \in Nat
               /\ qs[i].enabled \in BOOLEAN
               /\ qs[i] = [id |-> qs[i].id, addr |-> qs[i].addr,
                           len |-> qs[i].len, data |-> qs[i].data,
                           enabled |-> qs[i].enabled]
    <2>1. PICK a, c, d : /\ a = b.headers[i].addr /\ c = b.headers[i].len
                         /\ d = Slice(b, b.headers[i].off, b.headers[i].len)
      OBVIOUS
    <2>2. qs[i] = [id |-> i - 1, addr |-> a, len |-> c, data |-> d,
                   enabled |-> TRUE]
      BY <1>4, <2>1
    <2> HIDE DEF qs
    <2>3. /\ a \in Nat /\ c \in Nat /\ i - 1 \in 0..255
      BY <1>3, <2>1
    <2>4. /\ qs[i].id = i - 1 /\ qs[i].addr = a /\ qs[i].len = c
          /\ qs[i].enabled = TRUE
          /\ qs[i] = [id |-> qs[i].id, addr |-> qs[i].addr,
                      len |-> qs[i].len, data |-> qs[i].data,
                      enabled |-> qs[i].enabled]
      BY <2>2, Fields
    <2> QED
      BY <2>3, <2>4
  <1> HIDE DEF qs
  <1>8. qs = [i \in 1..n |->
                 [id |-> qs[i].id, addr |-> qs[i].addr, len |-> qs[i].len,
                  data |-> qs[i].data, enabled |-> qs[i].enabled]]
    BY <1>5, <1>7
  <1>9. PatchList(qs)
    <2>1. Len(qs) \in Nat
      BY <1>5, <1>6
    <2>2. \A i \in 1..Len(qs) : /\ qs[i].id \in 0..255
                                /\ qs[i].addr \in Nat /\ qs[i].len \in Nat
                                /\ qs[i].enabled \in BOOLEAN
      BY <1>6, <1>7
    <2>3. qs = [i \in 1..Len(qs) |->
                 [id |-> qs[i].id, addr |-> qs[i].addr, len |-> qs[i].len,
                  data |-> qs[i].data, enabled |-> qs[i].enabled]]
      BY <1>6, <1>8
    <2> QED
      BY <2>1, <2>2, <2>3, MakeList
  <1> QED
    BY <1>9 DEF qs

LEMMA LayoutList ==
    ASSUME NEW l \in Layouts
    PROVE  \E ps : PatchList(ps) /\ l = Build(ps)
  <1>1. PICK ps \in Understandable : l = Build(ps)
    BY DEF Layouts
  <1>2. CASE ps \in Found \cup {<<>>}
    BY <1>1, <1>2, EmptyList, SpiAssumption
  <1>3. CASE ps \in FromSingles
    <2>1. PICK p \in Singles : ps \in UnderstoodSingle(p)
      BY <1>3 DEF FromSingles
    <2>2. PatchList(<<p>>)
      BY SpiAssumption
    <2>4. /\ p = [id |-> p.id, addr |-> p.addr, len |-> p.len,
                  data |-> p.data, enabled |-> p.enabled]
          /\ p.id \in 0..255
          /\ p.addr \in Nat /\ p.len \in Nat /\ p.enabled \in BOOLEAN
      BY <2>2, OfSingle
    <2>5. CASE ps = <<SentSingle(p)>>
      <3> DEFINE q == SentSingle(p)
      <3>1. PICK n, a, c, d, e : p = [id |-> n, addr |-> a, len |-> c,
                                      data |-> d, enabled |-> e]
        BY <2>4
      <3>2. PICK x : x = IF p.len = 8 THEN p.data ELSE Junk
        OBVIOUS
      <3>3. q = [[p EXCEPT !.len = 8] EXCEPT !.data = x]
        BY <3>1, <3>2 DEF SentSingle
      <3>4. q = [id |-> n, addr |-> a, len |-> 8, data |-> x, enabled |-> e]
        BY <3>1, <3>3
      <3> HIDE DEF q
      <3>5. n \in 0..255 /\ a \in Nat /\ e \in BOOLEAN
        BY <2>4, <3>1
      <3>6. PatchList(<<q>>)
        BY <3>4, <3>5, OnePatch
      <3> QED
        BY <1>1, <2>5, <3>6 DEF q
    <2>6. CASE \E n \in 0..14 :
                  ps = <<[id |-> 0, addr |-> p.addr \div 256, len |-> n,
                          data |-> Junk, enabled |-> TRUE]>>
      <3>1. PICK n \in 0..14 :
                    ps = <<[id |-> 0, addr |-> p.addr \div 256, len |-> n,
                            data |-> Junk, enabled |-> TRUE]>>
        BY <2>6
      <3>2. PICK a : a = p.addr \div 256
        OBVIOUS
      <3>3. a \in Nat
        BY <2>4, <3>2
      <3>4. PatchList(<<[id |-> 0, addr |-> a, len |-> n, data |-> Junk,
                         enabled |-> TRUE]>>)
        <4>1. n \in Nat
          OBVIOUS
        <4> QED
          BY <3>3, <4>1, NewPatch
      <3> QED
        BY <1>1, <3>1, <3>2, <3>4
    <2>7. \/ ps = <<SentSingle(p)>> \/ ps = <<>>
          \/ \E n \in 0..14 :
                ps = <<[id |-> 0, addr |-> p.addr \div 256, len |-> n,
                        data |-> Junk, enabled |-> TRUE]>>
      BY <2>1 DEF UnderstoodSingle
    <2> QED
      BY <1>1, <2>5, <2>6, <2>7, EmptyList
  <1>4. CASE ps \in FromUploads
    <2>1. PICK us \in Uploads :
                /\ ValidUpload(us) /\ ps \in Understood(Carried(Build(us)))
      BY <1>4 DEF FromUploads
    <2> DEFINE b == Carried(Build(us))
    <2>2. PatchList(us) /\ b.headers = Build(us).headers
      BY SpiAssumption DEF Carried, Build
    <2>3. Len(b.headers) = Len(us)
      BY <2>2, HeaderCount
    <2> HIDE DEF b
    <2>4. CASE ps = Parse(b)
      BY <1>1, <2>1, <2>2, <2>3, <2>4, ReadList DEF Parse
    <2>5. CASE LooksOld(b) /\ ps \in ParseOld(b)
      <3>1. 1 \in 1..Len(us)
        <4>1. Len(us) \in Nat /\ Before(us)[0] = 0
          BY <2>2, BeforeSums DEF PatchList, Sums
        <4>2. Len(us) = 0 => Build(us).size = 1
          BY <4>1 DEF Build
        <4>3. b.size = CarriedSize(Build(us).size)
          BY DEF b, Carried, Build
        <4>4. Len(us) = 0 => b.size = 1
          BY <4>2, <4>3 DEF CarriedSize, HeaderSize
        <4> QED
          BY <2>5, <4>1, <4>4 DEF LooksOld
      <3>2. b.headers[1].addr \in Nat /\ b.headers[1].len \in Nat
        <4>1. us[1].addr \in Nat /\ us[1].len \in Nat
          BY <2>2, <3>1 DEF PatchList
        <4>2. /\ b.headers[1].addr = us[1].addr
              /\ b.headers[1].len = us[1].len % 65536
          BY <2>2, <3>1 DEF Build
        <4> QED
          BY <4>1, <4>2
      <3>3. PICK e \in BOOLEAN :
                ps = <<[id |-> 0,
                        addr |-> b.headers[1].addr * 256
                                     + b.headers[1].len \div 256,
                        len |-> 8, data |-> Junk, enabled |-> e]>>
        BY <2>5 DEF ParseOld
      <3>4. PICK a : a = b.headers[1].addr * 256 + b.headers[1].len \div 256
        OBVIOUS
      <3>5. a \in Nat
        BY <3>2, <3>4
      <3>6. ps = <<[id |-> 0, addr |-> a, len |-> 8, data |-> Junk,
                    enabled |-> e]>>
        BY <3>3, <3>4
      <3>7. PatchList(ps)
        <4>1. 8 \in Nat
          OBVIOUS
        <4>2. PatchList(<<[id |-> 0, addr |-> a, len |-> 8, data |-> Junk,
                           enabled |-> e]>>)
          BY <3>5, <4>1, NewPatch
        <4> QED
          BY <3>6, <4>2
      <3> QED
        BY <1>1, <3>7
    <2> QED
      BY <2>1, <2>4, <2>5 DEF Understood, b
  <1> QED
    BY <1>1, <1>2, <1>3, <1>4 DEF Understandable

\* A dump is read as the FPGA reads what is dumped.
LEMMA DumpExact ==
    ASSUME NEW l \in Layouts, l.size <= MaxDump
    PROVE  Parse(l) = Active(l)
  <1>1. PICK ps : PatchList(ps) /\ l = Build(ps)
    BY LayoutList
  <1>2. Build(ps).size \in Nat
    <2>1. Len(ps) \in Nat /\ Before(ps)[Len(ps)] \in Nat
      BY <1>1, BeforeFacts
    <2>2. Build(ps).size = 8 * Len(ps) + 1 + Before(ps)[Len(ps)]
      BY DEF Build
    <2> QED
      BY <2>1, <2>2
  <1>3. FitsMessage(ps)
    BY <1>1, <1>2 DEF FitsMessage, HeaderSize, MaxDump
  <1> QED
    BY <1>1, <1>3, ParseIsActive

LEMMA ClearedExact == Active(EmptyBuffer) = <<>>
  <1>1. Len(<<>>) = 0
    BY EmptySeq
  <1>2. Numbered(<<>>) = <<>>
    BY <1>1 DEF Numbered
  <1> QED
    BY <1>1, <1>2, EmptyList, EnabledListArrives DEF EmptyBuffer

-----------------------------------------------------------------------------
(* The exit status.                                                        *)

\* The messages that carry what is on the command lines fit their length.
AskedFits == \A p \in Users : FitsMessage(Asked[p])

LEMMA HandlerOf ==
    ASSUME NEW p, Handle(p)
    PROVE  /\ Due(p, "open") => Open(p)
           /\ Due(p, "close") => Close(p)
           /\ Due(p, "clear") => ClearTransactions(p)
           /\ Due(p, "read") => ReadTransaction(p) \/ ReadNothing(p)
           /\ Due(p, "upload") => UploadPatchBuffer(p)
           /\ Due(p, "dump") => DumpPatchBuffer(p)
           /\ Due(p, "unpatch") => ClearPatches(p)
  BY DEF Handle, Due, Open, Close, ClearTransactions, ReadTransaction,
         ReadNothing, UploadPatchBuffer, SetPatch, DumpPatchBuffer, ClearPatches

\* The response to the only call under way.
LEMMA OnlyAnswer ==
    ASSUME NEW a, NEW s, s = Append(<<>>, a)
    PROVE  Len(s) = 1 /\ s[1] = a
  <1>1. <<>> \in Seq({a}) /\ Len(<<>>) = 0
    BY EmptySeq
  <1> QED
    BY <1>1, AppendElements

LEMMA OnlyElement ==
    ASSUME NEW S, NEW s \in Seq(S), Len(s) = 1
    PROVE  s # <<>> /\ Head(s) = s[1] /\ Tail(s) = <<>>
  <1>1. s # <<>>
    BY EmptySeq
  <1>2. Tail(s) \in Seq(S) /\ Len(Tail(s)) = 0 /\ Head(s) = s[1]
    BY <1>1, TailElements
  <1> QED
    BY <1>1, <1>2, EmptySeq

\* patch set numbers the patches as the reader of their buffer does.
LEMMA AskedNumbered ==
    ASSUME NEW p \in Users, ValidUpload(Asked[p]), Asked[p] \in Uploads
    PROVE  Numbered(Asked[p]) = Asked[p]
  <1> DEFINE ps == Asked[p]
  <1>1. PatchList(ps)
    OBVIOUS
  <1>2. Len(ps) \in 0..8
    BY <1>1, FewPatches
  <1> HIDE DEF ps
  <1>3. ASSUME NEW i \in 1..Len(ps)
        PROVE  [ps[i] EXCEPT !.id = i - 1] = ps[i]
    <2>1. ps[i].id = (i - 1) % 256
      BY CliAssumption DEF ps
    <2>2. ps[i].id = i - 1
      BY <1>2, <2>1
    <2>3. ps[i] = [id |-> ps[i].id, addr |-> ps[i].addr, len |-> ps[i].len,
                   data |-> ps[i].data, enabled |-> ps[i].enabled]
      BY <1>1 DEF PatchList
    <2> QED
      BY <2>2, <2>3, Renumbered
  <1>4. ps = [i \in 1..Len(ps) |-> ps[i]]
    <2>1. DOMAIN ps = 1..Len(ps) /\ ps = [i \in DOMAIN ps |-> ps[i]]
      BY <1>1 DEF PatchList
    <2> QED
      BY <2>1
  <1>5. Numbered(ps) = ps
    BY <1>3, <1>4 DEF Numbered
  <1> QED
    BY <1>5 DEF ps

\* A success is right when it is sent.
LEMMA HandleRight ==
    ASSUME CliTypes, AskedFits, NEW p \in Users, CliHandle(p), Patching(p),
           at[p] \in Looks, Asking(p),
           at[p] = "upload" => call[p].arg = Asked[p],
           NEW a, back'[p] = Append(<<>>, a), a.ok
    PROVE  Right(p, Parse(a.val))'
  <1>1. /\ Handle(p) /\ sent[p] # <<>> /\ back[p] = <<>>
        /\ Head(sent[p]) = call[p] /\ call[p].op = at[p]
    BY DEF CliHandle, Asking, CliTypes, Doing
  <1>2. ~Refused(p) /\ at[p] = Work[job[p]] /\ job' = job
    BY CliHandleEffect DEF CliTypes, Doing, Looks, Ops, Frame
  <1>3. truth'[p] = Active(fpga')
    <2>1. truth' = [truth EXCEPT ![p] = Active(fpga')]
      BY <1>1, CliHandleEffect
    <2> QED
      BY <2>1 DEF CliTypes, ProcessType
  <1>4. Len(back'[p]) = 1 /\ Len(back[p]) = 0 /\ back'[p][1] = a
    BY <1>1, OnlyAnswer, EmptySeq
  <1>5. CASE job[p] = "patch set"
    <2>1. at[p] = "upload" /\ Due(p, "upload") /\ Head(sent[p]).arg = Asked[p]
      BY <1>1, <1>2, <1>5, WorkOf DEF Due
    <2>2. Uploaded(p, Asked[p])
      BY <1>4, <2>1 DEF Uploaded
    <2>3. Asked[p] # <<>> /\ ValidUpload(Asked[p])
      BY <1>2, <1>5 DEF Refused
    <2>4. AllEnabled(Asked[p]) /\ Asked[p] \in Uploads
      BY <2>3, CliAssumption DEF AllEnabled
    <2>5. Inv /\ [Next]_vars
      BY <1>1 DEF CliTypes, Next
    <2>6. Active(fpga') = Numbered(Asked[p])
      BY <2>2, <2>4, <2>5, UploadLands DEF AskedFits
    <2>7. Numbered(Asked[p]) = Asked[p]
      BY <2>3, <2>4, AskedNumbered
    <2> QED
      BY <1>2, <1>3, <1>5, <2>6, <2>7 DEF Right
  <1>6. CASE job[p] = "patch clear"
    <2>1. Due(p, "unpatch") /\ ClearPatches(p)
      BY <1>1, <1>2, <1>6, WorkOf, HandlerOf DEF Due
    <2>2. fpga' = EmptyBuffer \/ Answer(p, FALSE)
      BY <2>1 DEF ClearPatches
    <2>3. ~Answer(p, FALSE)
      BY <1>4, AnswerLast DEF CliTypes
    <2> QED
      BY <1>2, <1>3, <1>6, <2>2, <2>3, ClearedExact DEF Right
  <1>7. CASE job[p] = "patch list"
    <2>1. Due(p, "dump") /\ DumpPatchBuffer(p)
      BY <1>1, <1>2, <1>7, WorkOf, HandlerOf DEF Due
    <2>2. PICK ok, v : /\ AnswerWith(p, ok, v) /\ UNCHANGED fpga
                       /\ ok => v = fpga /\ fpga.size <= MaxDump
      BY <2>1 DEF DumpPatchBuffer, device
    <2> DEFINE r == [op |-> Head(sent[p]).op, ok |-> ok, val |-> v]
    <2>3. back'[p] = Append(<<>>, r)
      BY <1>1, <2>2 DEF AnswerWith, Respond, CliTypes, Inv, Types, LineType
    <2>4. a = r
      <3> HIDE DEF r
      <3> QED
        BY <1>4, <2>3, OnlyAnswer
    <2>5. a.val = fpga /\ fpga.size <= MaxDump
      BY <2>2, <2>4
    <2>6. Parse(a.val) = Active(fpga')
      BY <2>2, <2>5, DumpExact DEF CliTypes, Inv, Types, ServiceType
    <2> QED
      BY <1>2, <1>3, <1>7, <2>6 DEF Right
  <1> QED
    BY <1>5, <1>6, <1>7 DEF Patching

LEMMA LineTypes ==
    ASSUME CliTypes, NEW p \in Users
    PROVE  /\ sent[p] \in Seq(CheckedRequests) /\ back[p] \in Seq(Responses)
           /\ Len(sent[p]) \in Nat /\ Len(back[p]) \in Nat
           /\ Len(<<>>) = 0
  BY EmptySeq, LenProperties DEF CliTypes, Inv, Types, LineType

\* A call begins with nothing under way, and ends so when its response is
\* taken.
LEMMA LineSteps ==
    ASSUME CliTypes, NEW p \in Users
    PROVE  /\ CliAsk(p) /\ (InStep(p) \/ Waiting(p)) => Quiet(p) /\ Asking(p)'
           /\ CliTake(p) /\ (InStep(p) \/ Waiting(p)) =>
                  /\ Answering(p) /\ Quiet(p)'
                  /\ Head(back[p]) = back[p][1]
           /\ CliHandle(p) /\ (InStep(p) \/ Waiting(p)) =>
                  /\ Asking(p) /\ Answering(p)'
                  /\ \E a : /\ back'[p] = Append(<<>>, a) /\ back'[p][1] = a
                            /\ Answered(p, a) /\ a.op = at[p]
           /\ CliDrop(p) /\ (InStep(p) \/ Waiting(p)) => Waiting(p)'
  <1>1. ASSUME CliAsk(p), InStep(p) \/ Waiting(p)
        PROVE  Quiet(p) /\ Asking(p)'
    <2>1. PICK r \in CheckedRequests :
              /\ call'[p] = r /\ r # NoCall /\ sent'[p] = Append(sent[p], r)
      BY <1>1, AskEffect
    <2>2. Quiet(p) /\ back' = back
      BY <1>1, AskEffect DEF InStep, Quiet, Asking, Answering, Waiting
    <2>3. sent'[p] = <<r>>
      BY <2>1, <2>2 DEF Quiet
    <2> QED
      BY <2>1, <2>2, <2>3 DEF Quiet, Asking
  <1>2. ASSUME CliTake(p), InStep(p) \/ Waiting(p)
        PROVE  /\ Answering(p) /\ Quiet(p)' /\ Head(back[p]) = back[p][1]
    <2>1. Answering(p)
      BY <1>2, TakeEffect DEF InStep, Quiet, Asking, Answering, Waiting
    <2>2. Tail(back[p]) = <<>> /\ Head(back[p]) = back[p][1]
      BY <2>1, LineTypes, OnlyElement DEF Answering
    <2> QED
      BY <1>2, <2>1, <2>2, TakeEffect DEF Quiet, Answering
  <1>3. ASSUME CliHandle(p), InStep(p) \/ Waiting(p)
        PROVE  /\ Asking(p) /\ Answering(p)'
               /\ \E a : /\ back'[p] = Append(<<>>, a) /\ back'[p][1] = a
                         /\ Answered(p, a) /\ a.op = at[p]
    <2>1. PICK a : /\ back'[p] = Append(back[p], a) /\ Answered(p, a)
                   /\ a.op = Head(sent[p]).op
      BY <1>3, CliHandleEffect
    <2>2. sent[p] # <<>> /\ sent'[p] = Tail(sent[p]) /\ call' = call
      BY <1>3, CliHandleEffect
    <2>3. Asking(p)
      BY <1>3, <2>2 DEF InStep, Quiet, Asking, Answering, Waiting
    <2>4. Head(sent[p]) = call[p] /\ Tail(sent[p]) = <<>>
      BY <2>3 DEF Asking
    <2>5. back'[p] = Append(<<>>, a)
      BY <2>1, <2>3 DEF Asking
    <2>6. Len(back'[p]) = 1 /\ back'[p][1] = a
      BY <2>5, OnlyAnswer
    <2>7. call[p].op = at[p]
      BY <2>3 DEF Asking, CliTypes, Doing
    <2> QED
      BY <2>1, <2>2, <2>3, <2>4, <2>5, <2>6, <2>7 DEF Answering, Asking
  <1>4. ASSUME CliDrop(p), InStep(p) \/ Waiting(p)
        PROVE  Waiting(p)'
    <2>1. Answering(p)
      BY <1>4, DropEffect DEF InStep, Quiet, Asking, Answering, Waiting
    <2>2. Tail(back[p]) = <<>>
      BY <2>1, LineTypes, OnlyElement DEF Answering
    <2> QED
      BY <1>4, <2>1, <2>2, DropEffect DEF Waiting, Answering
  <1> QED
    BY <1>1, <1>2, <1>3, <1>4

\* What has no request to look into the FPGA keeps none.
LEMMA NoLooks ==
    ASSUME CliTypes, NEW p \in Users,
           \A i \in 1..Len(sent[p]) : sent[p][i].op \notin Looks
    PROVE  /\ Shortened(p) =>
                  \A i \in 1..Len(sent'[p]) : sent'[p][i].op \notin Looks
           /\ \A r \in CheckedRequests :
                  r.op \notin Looks /\ sent'[p] = Append(sent[p], r) =>
                      \A i \in 1..Len(sent'[p]) : sent'[p][i].op \notin Looks
           /\ sent[p] # <<>> => Head(sent[p]).op \notin Looks
           /\ sent[p] # <<>> /\ sent'[p] = Tail(sent[p]) =>
                  \A i \in 1..Len(sent'[p]) : sent'[p][i].op \notin Looks
  <1>1. sent[p] \in Seq(CheckedRequests) /\ Len(sent[p]) \in Nat
    BY LineTypes
  <1>2. Shortened(p) => \A i \in 1..Len(sent'[p]) : sent'[p][i].op \notin Looks
    BY DEF Shortened
  <1>3. ASSUME NEW r \in CheckedRequests, r.op \notin Looks,
               sent'[p] = Append(sent[p], r), NEW i \in 1..Len(sent'[p])
        PROVE  sent'[p][i].op \notin Looks
    <2>1. /\ Len(sent'[p]) = Len(sent[p]) + 1
          /\ \A j \in 1..Len(sent[p]) : sent'[p][j] = sent[p][j]
          /\ sent'[p][Len(sent[p]) + 1] = r
      BY <1>1, <1>3, AppendElements
    <2>2. i \in 1..Len(sent[p]) \/ i = Len(sent[p]) + 1
      BY <1>1, <2>1
    <2> QED
      BY <1>3, <2>1, <2>2
  <1>4. ASSUME sent[p] # <<>>
        PROVE  Head(sent[p]).op \notin Looks
    <2>1. Head(sent[p]) = sent[p][1] /\ 1 \in 1..Len(sent[p])
      BY <1>1, <1>4, TailElements
    <2> QED
      BY <2>1
  <1>5. ASSUME sent[p] # <<>>, sent'[p] = Tail(sent[p]),
               NEW i \in 1..Len(sent'[p])
        PROVE  sent'[p][i].op \notin Looks
    <2>1. /\ Len(sent'[p]) = Len(sent[p]) - 1
          /\ \A j \in 1..(Len(sent[p]) - 1) : sent'[p][j] = sent[p][j + 1]
      BY <1>1, <1>5, TailElements
    <2>2. i \in 1..(Len(sent[p]) - 1) /\ i + 1 \in 1..Len(sent[p])
      BY <1>1, <2>1
    <2> QED
      BY <2>1, <2>2
  <1> QED
    BY <1>2, <1>3, <1>4, <1>5

LEMMA ReliableAsk ==
    ASSUME CliTypes, NEW p \in Users, CliAsk(p), Patching(p), Reliable(p)
    PROVE  Reliable(p)'
  <1>1. PICK r \in CheckedRequests :
            /\ r.op = at[p] /\ call'[p] = r /\ sent'[p] = Append(sent[p], r)
            /\ job[p] = "patch set" /\ at[p] = "upload" => r.arg = Asked[p]
    BY AskEffect
  <1>2. Kept4 /\ Frame(p) /\ at[p] \in Ops
    BY AskEffect DEF CliAsk
  <1>3. at[p] \in {"open"} \cup Looks => Asking(p)'
    BY LineSteps DEF Reliable
  <1>4. Asking(p)' => ~Answering(p)'
    BY EmptySeq DEF Asking, Answering
  <1>5. at[p] = "upload" => job[p] = "patch set"
    <2>1. at[p] = "upload" => at[p] = Work[job[p]]
      BY DEF CliTypes, Doing, Ops
    <2> QED
      BY <2>1, WorkOf DEF Patching
  <1>6. ASSUME at[p] \in {"close", "exit"}, status[p] = 0
        PROVE  \A i \in 1..Len(sent'[p]) : sent'[p][i].op \notin Looks
    BY <1>1, <1>2, <1>6, NoLooks DEF Reliable, Looks
  <1> QED
    BY <1>1, <1>2, <1>3, <1>4, <1>5, <1>6
       DEF Reliable, Kept4, Frame, Right, InStep, Looks

LEMMA ReliableTake ==
    ASSUME CliTypes, NEW p \in Users, CliTake(p), Patching(p), Reliable(p)
    PROVE  Reliable(p)'
  <1> DEFINE r == Head(back[p])
  <1>1. /\ Proceed(p, r) /\ Frame(p) /\ UNCHANGED <<truth, sent>>
        /\ job' = job /\ call'[p] = NoCall /\ call[p] # NoCall
    BY TakeEffect DEF Frame
  <1>2. at[p] \in {"open"} \cup Looks =>
            Answering(p) /\ Quiet(p)' /\ r = back[p][1]
    BY LineSteps DEF Reliable
  <1>3. /\ at \in [Users -> Ops \cup {"write", "exit"}]
        /\ status \in [Users -> {NoStatus, 0, 1}]
        /\ shown \in [Users -> Seq(Nat) \cup Listings]
    BY DEF CliTypes, ProcessType
  <1>4. Quiet(p)' => ~Answering(p)'
    BY DEF Quiet, Answering
  <1>5. Quiet(p)' => \A i \in 1..Len(sent'[p]) : sent'[p][i].op \notin Looks
    BY EmptySeq DEF Quiet
  <1> HIDE DEF r
  <1>6. CASE Opened(p, r)
    <2>1. Quiet(p)'
      BY <1>2, <1>6 DEF Opened
    <2>2. \/ at'[p] \in {"exit", "close"} /\ status'[p] = 1
          \/ at'[p] = Work[job[p]] /\ at'[p] \in Looks
      <3>1. \/ at'[p] \in {"exit", "close"} /\ status'[p] = 1
            \/ Begin(p)
        BY <1>3, <1>6 DEF Opened, Goto, Settle
      <3>2. Work[job[p]] \in Looks
        BY WorkOf DEF Patching, Looks
      <3>3. Begin(p) => at'[p] = Work[job[p]]
        BY <1>3 DEF Begin, Goto, Patching
      <3> QED
        BY <3>1, <3>2, <3>3
    <2> QED
      BY <1>1, <1>4, <2>1, <2>2 DEF Reliable, InStep, Looks
  <1>7. CASE Read(p, r)
    <2>1. at[p] = Work[job[p]] /\ at[p] = "read"
      BY <1>7 DEF Read, CliTypes, Doing, Ops
    <2> QED
      BY <2>1, WorkOf DEF Patching
  <1>8. CASE Worked(p, r)
    <2>1. /\ Quiet(p)' /\ Answering(p) /\ r = back[p][1]
          /\ at[p] \in {"clear", "upload", "set", "dump", "unpatch"}
          /\ at[p] = Work[job[p]] /\ at[p] \in Looks
      <3>1. at[p] \in {"clear", "upload", "set", "dump", "unpatch"}
        BY <1>8 DEF Worked
      <3>2. at[p] = Work[job[p]]
        BY <3>1 DEF CliTypes, Doing, Ops
      <3>3. at[p] \in Looks
        BY <3>2, WorkOf DEF Patching, Looks
      <3> QED
        BY <1>2, <3>1, <3>2, <3>3
    <2>2. at'[p] = "close" /\ status'[p] = IF r.ok THEN 0 ELSE 1
      BY <1>3, <1>8 DEF Worked, Goto, Settle
    <2>3. ASSUME status'[p] = 0
          PROVE  Right(p, shown[p])'
      <3>1. r.ok /\ Right(p, Parse(r.val))
        BY <2>1, <2>2, <2>3 DEF Reliable
      <3>2. job[p] = "patch list" => shown'[p] = Parse(r.val)
        BY <1>3, <1>8, <2>1, <3>1, WorkOf DEF Worked, Show
      <3> QED
        BY <1>1, <3>1, <3>2 DEF Right, Patching
    <2> QED
      BY <1>1, <1>4, <1>5, <2>1, <2>2, <2>3 DEF Reliable, Looks
  <1>9. CASE Closed(p)
    <2>1. at[p] = "close" /\ at'[p] = "exit" /\ UNCHANGED <<status, shown>>
      BY <1>3, <1>9 DEF Closed, Goto, Patching
    <2> QED
      BY <1>1, <2>1 DEF Reliable, Right, Looks
  <1> QED
    BY <1>1, <1>6, <1>7, <1>8, <1>9 DEF Proceed

LEMMA ReliableLose ==
    ASSUME CliTypes, NEW p \in Users, CliLose(p), Patching(p), Reliable(p)
    PROVE  Reliable(p)'
  <1>1. /\ Proceed(p, Nothing) /\ Frame(p) /\ UNCHANGED truth /\ Shortened(p)
        /\ job' = job /\ call'[p] = NoCall /\ ~Nothing.ok
    BY LoseEffect DEF Frame, Nothing
  <1>2. /\ at \in [Users -> Ops \cup {"write", "exit"}]
        /\ status \in [Users -> {NoStatus, 0, 1}]
    BY DEF CliTypes, ProcessType
  <1>3. CASE Opened(p, Nothing)
    <2>1. at'[p] = "exit" /\ status'[p] = 1
      BY <1>1, <1>2, <1>3 DEF Opened, Goto, Settle
    <2> QED
      BY <2>1 DEF Reliable, Looks
  <1>4. CASE Read(p, Nothing)
    <2>1. at[p] = Work[job[p]] /\ at[p] = "read"
      BY <1>4 DEF Read, CliTypes, Doing, Ops
    <2> QED
      BY <2>1, WorkOf DEF Patching
  <1>5. CASE Worked(p, Nothing)
    <2>1. at'[p] = "close" /\ status'[p] = 1
      BY <1>1, <1>2, <1>5 DEF Worked, Goto, Settle
    <2> QED
      BY <2>1 DEF Reliable, Looks
  <1>6. CASE Closed(p)
    <2>1. at[p] = "close" /\ at'[p] = "exit" /\ UNCHANGED <<status, shown>>
      BY <1>2, <1>6 DEF Closed, Goto, Patching
    <2> QED
      BY <1>1, <2>1, NoLooks DEF Reliable, Right, Looks
  <1> QED
    BY <1>1, <1>3, <1>4, <1>5, <1>6 DEF Proceed

LEMMA ReliableHandle ==
    ASSUME CliTypes, AskedFits, NEW p \in Users, CliHandle(p), Patching(p),
           Reliable(p)
    PROVE  Reliable(p)'
  <1>1. /\ UNCHANGED <<at, status, shown, call>> /\ job' = job
        /\ sent[p] # <<>> /\ sent'[p] = Tail(sent[p])
        /\ truth' = IF Head(sent[p]).op \in Looks
                    THEN [truth EXCEPT ![p] = Active(fpga')] ELSE truth
    BY CliHandleEffect DEF Frame
  <1>2. CASE at[p] \in {"open"} \cup Looks
    <2>1. Asking(p) /\ Answering(p)'
      BY <1>2, LineSteps DEF Reliable
    <2>2. PICK a : back'[p] = Append(<<>>, a) /\ back'[p][1] = a
      BY <1>2, LineSteps DEF Reliable
    <2>3. ASSUME at[p] \in Looks, a.ok
          PROVE  Right(p, Parse(a.val))'
      BY <2>1, <2>2, <2>3, HandleRight DEF Reliable, Asking
    <2> QED
      BY <1>1, <1>2, <2>1, <2>2, <2>3 DEF Reliable, InStep, Right, Looks
  <1>3. CASE at[p] \in {"close", "exit"} /\ status[p] = 0
    <2>1. \A i \in 1..Len(sent[p]) : sent[p][i].op \notin Looks
      BY <1>3 DEF Reliable
    <2>2. Head(sent[p]).op \notin Looks
      BY <1>1, <2>1, NoLooks
    <2>3. \A i \in 1..Len(sent'[p]) : sent'[p][i].op \notin Looks
      BY <1>1, <2>1, NoLooks
    <2> QED
      BY <1>1, <1>3, <2>2, <2>3 DEF Reliable, Right, Looks
  <1>4. CASE /\ at[p] \notin {"open"} \cup Looks
             /\ ~(at[p] \in {"close", "exit"} /\ status[p] = 0)
    BY <1>1, <1>4 DEF Reliable, Looks
  <1> QED
    BY <1>2, <1>3, <1>4

LEMMA HonestStep ==
    ASSUME CliTypes, AskedFits, Honest, [CliNext]_cliVars
    PROVE  Honest'
  <1>1. ASSUME NEW p \in Users, Frame(p), Patching(p) => Reliable(p)'
        PROVE  Honest'
    <2>1. ASSUME NEW w \in Users, w # p, Patching(w)
          PROVE  Reliable(w)'
      <3>1. /\ at'[w] = at[w] /\ status'[w] = status[w] /\ shown'[w] = shown[w]
            /\ truth'[w] = truth[w] /\ call'[w] = call[w] /\ sent'[w] = sent[w]
            /\ back'[w] = back[w] /\ job'[w] = job[w] /\ Reliable(w)
        BY <1>1, <2>1 DEF Frame, Honest
      <3>2. /\ (InStep(w) \/ Waiting(w)) => (InStep(w) \/ Waiting(w))'
            /\ Answering(w)' => Answering(w)
        BY <3>1 DEF InStep, Quiet, Asking, Answering, Waiting
      <3>3. \A x : Right(w, x) => Right(w, x)'
        BY <2>1, <3>1 DEF Right, Patching
      <3> QED
        BY <3>1, <3>2, <3>3 DEF Reliable
    <2>2. \A w \in Users : Patching(w)' <=> Patching(w)
      BY <1>1 DEF Frame, Patching
    <2> QED
      BY <1>1, <2>1, <2>2 DEF Honest
  <1>2. ASSUME NEW p \in Users, CliAsk(p)
        PROVE  Honest'
    BY <1>1, <1>2, AskEffect, ReliableAsk DEF Honest
  <1>3. ASSUME NEW p \in Users, CliTake(p)
        PROVE  Honest'
    BY <1>1, <1>3, TakeEffect, ReliableTake DEF Honest
  <1>4. ASSUME NEW p \in Users, CliLose(p)
        PROVE  Honest'
    BY <1>1, <1>4, LoseEffect, ReliableLose DEF Honest
  <1>5. ASSUME NEW p \in Users, CliHandle(p)
        PROVE  Honest'
    BY <1>1, <1>5, CliHandleEffect, ReliableHandle DEF Honest
  <1>6. ASSUME NEW p \in Users, CliDrop(p)
        PROVE  Honest'
    <2>1. ASSUME Patching(p)
          PROVE  Reliable(p)'
      <3>1. /\ UNCHANGED <<call, sent>> /\ Kept4 /\ job' = job
        BY <1>6, DropEffect DEF Frame
      <3>2. at[p] \in {"open"} \cup Looks => Waiting(p)'
        BY <1>6, <2>1, LineSteps DEF Honest, Reliable
      <3>3. Waiting(p)' => ~Answering(p)'
        BY EmptySeq DEF Waiting, Answering
      <3> QED
        BY <2>1, <3>1, <3>2, <3>3 DEF Honest, Reliable, Right, Kept4, Looks
    <2> QED
      BY <1>1, <1>6, <2>1, DropEffect
  <1>7. ASSUME NEW p \in Users, Kill(p)
        PROVE  Honest'
    <2>1. at'[p] = "exit" /\ status'[p] = NoStatus
      BY <1>7, KillEffect DEF CliTypes, ProcessType
    <2>2. Reliable(p)'
      BY <2>1 DEF Reliable, NoStatus, Looks
    <2> QED
      BY <1>1, <1>7, <2>2, KillEffect
  <1>8. ASSUME NEW p \in Users, Write(p)
        PROVE  Honest'
    <2>1. ~Patching(p)
      BY <1>8, WriteEffect DEF CliTypes, Doing, Patching
    <2> QED
      BY <1>1, <1>8, <2>1, WriteEffect
  <1>9. CASE CliRecord \/ UNCHANGED cliVars
    <2>1. UNCHANGED <<process, truth, call, sent, back>>
      BY <1>9 DEF CliRecord, Record, line, cliVars, vars
    <2> QED
      BY <2>1 DEF Honest, Reliable, Right, InStep, Quiet, Asking, Answering,
                  Waiting, Patching, process
  <1> QED
    BY <1>2, <1>3, <1>4, <1>5, <1>6, <1>7, <1>8, <1>9 DEF CliNext, ProcessStep

LEMMA HonestInit == CliInit => Honest
  <1> SUFFICES ASSUME CliInit, NEW p \in Users, Patching(p)
               PROVE  Reliable(p)
    BY DEF Honest
  <1>1. at[p] = "open" /\ Quiet(p)
    BY DEF CliInit, Init, LineInit, Quiet
  <1> QED
    BY <1>1 DEF Reliable, InStep, Quiet, Looks

\* Exit status 0 can be relied on.  The hypothesis is that the messages fit
\* their length, which eight patches of the greatest length do not.
THEOREM ExitZeroHolds == AskedFits => (CliSpec => []ExitZeroIsTrue)
  <1> SUFFICES ASSUME AskedFits PROVE CliSpec => []ExitZeroIsTrue
    OBVIOUS
  <1>1. CliInit => Honest
    BY HonestInit
  <1>2. CliTypes /\ Honest /\ [CliNext]_cliVars => Honest'
    BY HonestStep
  <1>3. Honest => ExitZeroIsTrue
    BY DEF Honest, Reliable, Patching, Right, ExitZeroIsTrue
  <1> QED
    BY <1>1, <1>2, <1>3, CliInvariance, PTL DEF CliSpec

-----------------------------------------------------------------------------
(* The device.                                                             *)

LEMMA UndisturbedStep ==
    ASSUME CliTypes, Undisturbed, [CliNext]_cliVars
    PROVE  Undisturbed'
  <1> SUFFICES ASSUME ~upset', NEW w \in Users
               PROVE  InStep(w)'
    BY DEF Undisturbed
  <1>1. ASSUME NEW p \in Users, Frame(p), ~upset, InStep(p)'
        PROVE  InStep(w)'
    <2>1. CASE w = p
      BY <1>1, <2>1
    <2>2. CASE w # p
      BY <1>1, <2>2 DEF Undisturbed, Frame, InStep, Quiet, Asking, Answering
    <2> QED
      BY <2>1, <2>2
  <1>2. ASSUME NEW p \in Users, CliAsk(p) \/ CliTake(p) \/ CliHandle(p)
        PROVE  InStep(w)'
    <2>1. upset' = upset /\ Frame(p)
      BY <1>2, AskEffect, TakeEffect, CliHandleEffect
    <2>2. InStep(p)
      BY <2>1 DEF Undisturbed
    <2>3. InStep(p)'
      BY <1>2, <2>2, LineSteps DEF InStep
    <2> QED
      BY <1>1, <2>1, <2>3
  <1>3. ASSUME NEW p \in Users, CliLose(p) \/ CliDrop(p) \/ Kill(p)
        PROVE  FALSE
    BY <1>3, LoseEffect, DropEffect, KillEffect
  <1>4. CASE CliRecord \/ UNCHANGED cliVars \/ \E p \in Users : Write(p)
    <2>1. UNCHANGED <<upset, call, sent, back>>
      BY <1>4 DEF CliRecord, Record, Write, line, cliVars, vars
    <2> QED
      BY <2>1 DEF Undisturbed, InStep, Quiet, Asking, Answering
  <1> QED
    BY <1>2, <1>3, <1>4 DEF CliNext, ProcessStep

\* The handler of a process that is in step.
LEMMA HandleDevice ==
    ASSUME CliTypes, NEW p \in Users, CliHandle(p), InStep(p), fd'
    PROVE  \/ at[p] = "open" /\ back'[p][1].ok
           \/ at[p] \in Ops \ {"open", "close"} /\ fd
  <1>1. /\ Handle(p) /\ sent[p] = <<call[p]>> /\ call[p].op = at[p]
        /\ call[p] # NoCall /\ back[p] = <<>>
    BY LineSteps DEF CliHandle, Asking, CliTypes, Doing
  <1>2. Due(p, at[p]) /\ at[p] \in Ops
    <2>1. call[p] \in CheckedRequests
      BY <1>1 DEF CliTypes, Inv, Types, LineType
    <2> QED
      BY <1>1, <2>1 DEF Due, CheckedRequests, Requests, Ops
  <1>3. CASE at[p] = "open"
    <2>1. Answer(p, TRUE)
      BY <1>1, <1>2, <1>3, HandlerOf DEF Open
    <2>2. back'[p][Len(back'[p])].ok = TRUE
      BY <2>1, AnswerLast DEF CliTypes
    <2>3. Len(back'[p]) = 1
      BY LineSteps DEF Answering
    <2> QED
      BY <1>3, <2>2, <2>3
  <1>4. CASE at[p] = "close"
    BY <1>1, <1>2, <1>4, HandlerOf DEF Close
  <1>5. CASE at[p] \notin {"open", "close"}
    <2>1. fd' = fd
      BY <1>1, <1>2, <1>5 DEF Handle, Due, Open, Close, ClearTransactions,
         ReadTransaction, ReadNothing, UploadPatchBuffer, SetPatch,
         DumpPatchBuffer, ClearPatches, device
    <2> QED
      BY <1>2, <1>5, <2>1
  <1> QED
    BY <1>3, <1>4, <1>5

LEMMA HeldStep ==
    ASSUME CliTypes, Undisturbed, Held, [CliNext]_cliVars
    PROVE  Held'
  <1> SUFFICES ASSUME ~upset', fd'
               PROVE  \E p \in Users : Holds(p)'
    BY DEF Held
  <1>1. ASSUME NEW p \in Users, Frame(p), NEW h \in Users, Holds(h),
               h = p => Holds(p)'
        PROVE  \E w \in Users : Holds(w)'
    <2>1. CASE h = p
      BY <1>1, <2>1
    <2>2. CASE h # p
      <3>1. Holds(h)'
        BY <1>1, <2>2 DEF Frame, Holds, Answering
      <3> QED
        BY <3>1
    <2> QED
      BY <2>1, <2>2
  <1>2. ASSUME NEW p \in Users, CliAsk(p)
        PROVE  \E w \in Users : Holds(w)'
    <2>1. /\ ~upset /\ fd /\ Frame(p) /\ call[p] = NoCall /\ at'[p] = at[p]
      BY <1>2, AskEffect DEF Kept4, device
    <2>2. InStep(p)
      BY <2>1 DEF Undisturbed
    <2>3. ~Answering(p)'
      BY <1>2, <2>2, LineSteps, EmptySeq DEF Asking, Answering
    <2>4. Holds(p) => Holds(p)'
      BY <2>1, <2>3 DEF Holds, Answering
    <2> QED
      BY <1>1, <2>1, <2>4 DEF Held
  <1>3. ASSUME NEW p \in Users, CliTake(p)
        PROVE  \E w \in Users : Holds(w)'
    <2>1. ~upset /\ fd /\ Frame(p) /\ Proceed(p, Head(back[p]))
      BY <1>3, TakeEffect DEF device
    <2>2. InStep(p)
      BY <2>1 DEF Undisturbed
    <2>3. Answering(p) /\ ~Answering(p)' /\ Head(back[p]) = back[p][1]
      BY <1>3, <2>2, LineSteps DEF Quiet, Answering
    <2>4. at \in [Users -> Ops \cup {"write", "exit"}]
      BY DEF CliTypes, ProcessType
    <2>5. ASSUME Holds(p)
          PROVE  Holds(p)'
      <3>1. CASE at[p] = "open" /\ back[p][1].ok
        <4>1. Opened(p, Head(back[p]))
          BY <2>1, <3>1 DEF Proceed, Read, Worked, Closed
        <4>2. at'[p] = "close" \/ (at'[p] = Work[job[p]] /\ ~Refused(p))
          BY <2>3, <2>4, <3>1, <4>1 DEF Opened, Begin, Goto
        <4>3. ~Refused(p) => Work[job[p]] \in Ops \ {"open"}
          <5>1. job[p] \in Commands \cup Programs
            BY DEF CliTypes, ProcessType
          <5> QED
            BY <5>1, WorkOf DEF Refused, Commands, Programs, Ops
        <4> QED
          BY <2>3, <4>2, <4>3 DEF Holds
      <3>2. CASE at[p] \in Ops \ {"open", "close"}
        <4>1. at'[p] \in {at[p], "close"}
          BY <2>1, <2>4, <3>2 DEF Proceed, Opened, Read, Worked, Closed, Goto
        <4> QED
          BY <2>3, <3>2, <4>1 DEF Holds
      <3> QED
        BY <2>3, <2>5, <3>1, <3>2 DEF Holds
    <2> QED
      BY <1>1, <2>1, <2>5 DEF Held
  <1>4. ASSUME NEW p \in Users, Write(p)
        PROVE  \E w \in Users : Holds(w)'
    <2>1. /\ ~upset /\ fd /\ Frame(p) /\ at[p] = "write"
      BY <1>4, WriteEffect DEF vars, device
    <2>2. ~Holds(p)
      BY <2>1 DEF Holds, Ops
    <2> QED
      BY <1>1, <2>1, <2>2 DEF Held
  <1>5. ASSUME NEW p \in Users, CliHandle(p)
        PROVE  \E w \in Users : Holds(w)'
    <2>1. ~upset /\ Frame(p) /\ at'[p] = at[p]
      BY <1>5, CliHandleEffect
    <2>2. InStep(p)
      BY <2>1 DEF Undisturbed
    <2>3. Answering(p)'
      BY <1>5, <2>2, LineSteps
    <2> QED
      BY <1>5, <2>1, <2>2, <2>3, HandleDevice DEF Holds
  <1>6. ASSUME NEW p \in Users, CliLose(p) \/ CliDrop(p) \/ Kill(p)
        PROVE  FALSE
    BY <1>6, LoseEffect, DropEffect, KillEffect
  <1>7. CASE CliRecord \/ UNCHANGED cliVars
    <2>1. UNCHANGED <<upset, fd, at, call, sent, back>>
      BY <1>7 DEF CliRecord, Record, process, line, cliVars, vars, device
    <2> QED
      BY <2>1 DEF Held, Holds, Answering
  <1> QED
    BY <1>2, <1>3, <1>4, <1>5, <1>6, <1>7 DEF CliNext, ProcessStep

\* The last process to end leaves the device closed.
THEOREM ClosedAtEnd == CliSpec => []ClosedBehind
  <1>1. CliInit => Undisturbed /\ Held
    BY DEF CliInit, Init, LineInit, Undisturbed, Held, InStep, Quiet
  <1>2. CliTypes /\ Undisturbed /\ Held /\ [CliNext]_cliVars =>
            Undisturbed' /\ Held'
    BY UndisturbedStep, HeldStep
  <1>3. Held => ClosedBehind
    BY DEF Held, Holds, ClosedBehind, Ops
  <1> QED
    BY <1>1, <1>2, <1>3, CliInvariance, PTL DEF CliSpec

-----------------------------------------------------------------------------
(* The transactions.                                                       *)

LEMMA ShowsTake ==
    ASSUME CliTypes, NEW p \in Users, CliTake(p), ShowsRead(p)
    PROVE  ShowsRead(p)'
  <1> DEFINE r == Head(back[p])
  <1>1. /\ Proceed(p, r) /\ job' = job /\ upset' = upset
        /\ at[p] # "read" => got'[p] = got[p]
    BY TakeEffect DEF Frame
  <1>2. /\ at \in [Users -> Ops \cup {"write", "exit"}]
        /\ status \in [Users -> {NoStatus, 0, 1}]
        /\ shown \in [Users -> Seq(Nat) \cup Listings]
    BY DEF CliTypes, ProcessType
  <1>3. at[p] \in Ops \ {"open", "close"} => at[p] = Work[job[p]]
    BY DEF CliTypes, Doing
  <1> HIDE DEF r
  <1>4. CASE Opened(p, r)
    <2>1. at[p] = "open" /\ shown'[p] = shown[p] /\ got'[p] = <<>> /\ got[p] = <<>>
      BY <1>1, <1>4 DEF Opened, ShowsRead
    <2>2. at'[p] = "exit" => status'[p] = 1 \/ Work[job[p]] = "exit"
      BY <1>2, <1>4 DEF Opened, Begin, Goto, Settle
    <2>3. job[p] = "export" => Work[job[p]] # "exit"
      BY WorkOf
    <2> QED
      BY <1>1, <2>1, <2>2, <2>3 DEF ShowsRead, Reading
  <1>5. CASE Read(p, r)
    <2>1. at[p] = "read" /\ Reading(p)
      <3>1. job[p] \in Commands \cup Programs /\ ~Refused(p)
        BY <1>5 DEF CliTypes, ProcessType, Doing, Read, Ops
      <3>2. at[p] = "read" /\ at[p] = Work[job[p]]
        BY <1>3, <1>5 DEF Read, Ops
      <3> QED
        BY <3>1, <3>2, WorkOf DEF Commands, Programs, Refused, Reading
    <2>2. \/ /\ at'[p] = "read"
             /\ job[p] = "monitor" => shown'[p] = got'[p]
          \/ /\ at'[p] = "close"
             /\ job[p] # "export" => shown'[p] = got'[p]
      BY <1>2, <1>5 DEF Read, Goto, Show
    <2> QED
      BY <1>1, <2>1, <2>2 DEF ShowsRead, Reading
  <1>6. CASE Worked(p, r)
    <2>1. ~Reading(p) /\ got'[p] = got[p]
      BY <1>1, <1>3, <1>6, WorkOf DEF Worked, Reading, Ops
    <2> QED
      BY <1>1, <2>1 DEF ShowsRead, Reading
  <1>7. CASE Closed(p)
    <2>1. /\ at[p] = "close" /\ got'[p] = got[p] /\ shown' = shown
          /\ at'[p] \in {"write", "exit"}
          /\ job[p] = "export" => at'[p] = "write"
      BY <1>1, <1>2, <1>7 DEF Closed, Goto
    <2> QED
      BY <1>1, <2>1 DEF ShowsRead, Reading
  <1> QED
    BY <1>1, <1>4, <1>5, <1>6, <1>7 DEF Proceed

LEMMA ShowsLose ==
    ASSUME CliTypes, NEW p \in Users, CliLose(p), ShowsRead(p)
    PROVE  ShowsRead(p)'
  <1>1. /\ Proceed(p, Nothing) /\ job' = job /\ upset' /\ got' = got
        /\ ~Nothing.ok
    BY LoseEffect DEF Frame, Nothing
  <1>2. /\ at \in [Users -> Ops \cup {"write", "exit"}]
        /\ shown \in [Users -> Seq(Nat) \cup Listings]
    BY DEF CliTypes, ProcessType
  <1>3. at'[p] # "open"
    BY <1>1, <1>2
       DEF Proceed, Opened, Read, Worked, Closed, Goto
  <1>4. job[p] = "monitor" => shown'[p] \in {shown[p], got'[p]}
    <2>1. at[p] = "dump" => at[p] = Work[job[p]]
      BY DEF CliTypes, Doing, Ops
    <2> QED
      BY <1>1, <1>2, <2>1, WorkOf
         DEF Proceed, Opened, Read, Worked, Closed, Show
  <1>5. Reading(p)' <=> Reading(p)
    BY <1>1 DEF Reading
  <1> QED
    BY <1>1, <1>3, <1>4, <1>5 DEF ShowsRead

LEMMA ShowingStep ==
    ASSUME CliTypes, Showing, [CliNext]_cliVars
    PROVE  Showing'
  <1>1. ASSUME NEW p \in Users, Frame(p), upset => upset', upset \in BOOLEAN,
               ShowsRead(p)'
        PROVE  Showing'
    <2>1. ASSUME NEW w \in Users, w # p
          PROVE  ShowsRead(w)'
      <3>1. /\ at'[w] = at[w] /\ status'[w] = status[w] /\ shown'[w] = shown[w]
            /\ got'[w] = got[w] /\ job'[w] = job[w] /\ ShowsRead(w)
        BY <1>1, <2>1 DEF Frame, Showing
      <3> QED
        BY <1>1, <3>1 DEF ShowsRead, Reading
    <2> QED
      BY <1>1, <2>1 DEF Showing
  <1>2. upset \in BOOLEAN /\ \A p \in Users : ShowsRead(p)
    BY DEF CliTypes, ProcessType, Showing
  <1>3. ASSUME NEW p \in Users, CliAsk(p) \/ CliHandle(p) \/ CliDrop(p)
        PROVE  Showing'
    <2>1. Frame(p) /\ (upset => upset') /\ UNCHANGED <<at, status, shown, got>>
      BY <1>3, AskEffect, CliHandleEffect, DropEffect DEF Kept4
    <2>2. ShowsRead(p)'
      BY <1>2, <2>1 DEF ShowsRead, Reading, Frame
    <2> QED
      BY <1>1, <1>2, <2>1, <2>2
  <1>4. ASSUME NEW p \in Users, CliTake(p)
        PROVE  Showing'
    BY <1>1, <1>2, <1>4, TakeEffect, ShowsTake
  <1>5. ASSUME NEW p \in Users, CliLose(p)
        PROVE  Showing'
    BY <1>1, <1>2, <1>5, LoseEffect, ShowsLose
  <1>6. ASSUME NEW p \in Users, Write(p)
        PROVE  Showing'
    <2>1. /\ Frame(p) /\ upset' = upset /\ got' = got /\ at[p] = "write"
          /\ at' = [at EXCEPT ![p] = "exit"]
          /\ \/ /\ shown' = [shown EXCEPT ![p] = got[p]]
                /\ status' = [status EXCEPT ![p] = 0]
             \/ shown' = shown /\ status' = [status EXCEPT ![p] = 1]
      BY <1>6, WriteEffect DEF vars
    <2>2. job[p] = "export" /\ job' = job
      BY <2>1 DEF CliTypes, Doing, Frame
    <2>3. at'[p] = "exit" /\ (shown'[p] = got'[p] \/ status'[p] = 1)
      BY <2>1 DEF CliTypes, ProcessType
    <2>4. ShowsRead(p)'
      BY <2>2, <2>3 DEF ShowsRead, Reading
    <2> QED
      BY <1>1, <1>2, <2>1, <2>4
  <1>7. ASSUME NEW p \in Users, Kill(p)
        PROVE  Showing'
    <2>1. /\ Frame(p) /\ upset' /\ UNCHANGED <<shown, got>> /\ at'[p] = "exit"
      BY <1>7, KillEffect DEF CliTypes, ProcessType
    <2>2. ShowsRead(p)'
      BY <1>2, <2>1 DEF ShowsRead, Reading, Frame
    <2> QED
      BY <1>1, <1>2, <2>1, <2>2
  <1>8. CASE CliRecord \/ UNCHANGED cliVars
    <2>1. UNCHANGED <<upset, process, got>>
      BY <1>8 DEF CliRecord, Record, cliVars, vars
    <2> QED
      BY <2>1 DEF Showing, ShowsRead, Reading, process
  <1> QED
    BY <1>3, <1>4, <1>5, <1>6, <1>7, <1>8 DEF CliNext, ProcessStep

\* Only the handler of a clear empties the queue.
LEMMA HandleQueue ==
    ASSUME CliTypes, NEW p \in Users, CliHandle(p), InStep(p),
           job[p] # "clear",
           NEW t, \E i \in 1..Len(fifo) : fifo[i] = t
    PROVE  (\E i \in 1..Len(fifo') : fifo'[i] = t) \/ Has(p, t)'
  <1>1. /\ Handle(p) /\ sent[p] = <<call[p]>> /\ call[p] # NoCall
        /\ call[p].op = at[p] /\ back[p] = <<>>
    BY LineSteps DEF CliHandle, Asking, CliTypes, Doing
  <1>2. PICK a : back'[p] = Append(<<>>, a) /\ back'[p][1] = a
    BY LineSteps
  <1>3. Len(back'[p]) = 1
    BY LineSteps DEF Answering
  <1>4. /\ fifo \in Seq(Nat) /\ made \in Nat
        /\ \A i \in 1..Len(fifo) : fifo[i] \in 1..made
        /\ job[p] \in Commands \cup Programs
    BY DEF CliTypes, Inv, Types, ServiceType, Dated, ProcessType
  <1>5. ~ClearTransactions(p)
    <2>1. at[p] = "clear" => job[p] \in (Commands \cup Programs) \ {"refused"}
                             /\ Work[job[p]] = "clear"
      BY <1>4 DEF CliTypes, Doing, Ops, Refused
    <2>2. at[p] # "clear"
      BY <2>1, WorkOf DEF Commands, Programs
    <2>3. Head(sent[p]) = call[p]
      BY <1>1
    <2> QED
      BY <1>1, <2>2, <2>3 DEF ClearTransactions, Due
  <1>6. fifo' = fifo \/ ReadTransaction(p)
    BY <1>1, <1>5 DEF Handle, Open, Close, ReadNothing, UploadPatchBuffer,
                      SetPatch, DumpPatchBuffer, ClearPatches, device
  <1>7. CASE ReadTransaction(p)
    <2> DEFINE r == [op |-> Head(sent[p]).op, ok |-> TRUE, val |-> Head(fifo)]
    <2>1. /\ fifo # <<>> /\ fifo' = Tail(fifo) /\ Head(sent[p]).op = "read"
          /\ back'[p] = Append(<<>>, r)
      BY <1>1, <1>7 DEF ReadTransaction, AnswerWith, Respond, Due, CliTypes,
                        Inv, Types, LineType
    <2>2. a = r
      <3> HIDE DEF r
      <3> QED
        BY <1>2, <2>1, OnlyAnswer
    <2>3. /\ Head(fifo) = fifo[1] /\ Len(fifo) \in Nat \ {0}
          /\ Len(fifo') = Len(fifo) - 1
          /\ \A i \in 1..(Len(fifo) - 1) : fifo'[i] = fifo[i + 1]
      BY <1>4, <2>1, TailElements
    <2>4. PICK i \in 1..Len(fifo) : fifo[i] = t
      OBVIOUS
    <2>5. CASE i = 1
      <3>1. a.op = "read" /\ a.val = t /\ t # 0
        BY <1>4, <2>1, <2>2, <2>3, <2>4, <2>5
      <3> QED
        BY <1>2, <1>3, <3>1 DEF Has, Carries
    <2>6. CASE i # 1
      <3>1. i - 1 \in 1..(Len(fifo) - 1) /\ i - 1 + 1 = i
        BY <2>3, <2>6
      <3>2. fifo'[i - 1] = t
        BY <2>3, <2>4, <3>1
      <3> QED
        BY <2>3, <3>1, <3>2
    <2> QED
      BY <2>5, <2>6
  <1> QED
    BY <1>6, <1>7

LEMMA SomewhereStep ==
    ASSUME CliTypes, Undisturbed, Somewhere, [CliNext]_cliVars
    PROVE  Somewhere'
  <1> SUFFICES ASSUME ~upset', \A p \in Users : job'[p] # "clear",
                      NEW t \in 1..made'
               PROVE  \/ \E i \in 1..Len(fifo') : fifo'[i] = t
                      \/ \E p \in Users : Has(p, t)'
    BY DEF Somewhere
  <1> DEFINE Queued == \E i \in 1..Len(fifo) : fifo[i] = t
  <1>1. ASSUME ~upset, job' = job, t \in 1..made
        PROVE  Queued \/ \E w \in Users : Has(w, t)
    BY <1>1 DEF Somewhere
  <1>2. ASSUME NEW p \in Users, Frame(p), NEW w \in Users, Has(w, t),
               Has(p, t) => Has(p, t)'
        PROVE  \E h \in Users : Has(h, t)'
    <2>1. CASE w = p
      BY <1>2, <2>1
    <2>2. CASE w # p
      <3>1. Has(w, t)'
        BY <1>2, <2>2 DEF Frame, Has, Carries
      <3> QED
        BY <3>1
    <2> QED
      BY <2>1, <2>2
  <1>3. ASSUME NEW p \in Users, CliTake(p)
        PROVE  Queued' \/ \E h \in Users : Has(h, t)'
    <2>1. /\ ~upset /\ Frame(p) /\ job' = job
          /\ made' = made /\ fifo' = fifo
          /\ Head(back[p]).op = at[p]
          /\ got'[p] = IF at[p] = "read" /\ Head(back[p]).val # 0
                       THEN Append(got[p], Head(back[p]).val) ELSE got[p]
      BY <1>3, TakeEffect DEF device, Frame
    <2>2. InStep(p)
      BY <2>1 DEF Undisturbed
    <2>3. Len(back[p]) = 1 /\ Head(back[p]) = back[p][1]
      BY <1>3, <2>2, LineSteps DEF Answering
    <2>4. got[p] \in Seq(Nat) /\ back[p][1] \in Responses
      <3>1. back[p] \in Seq(Responses)
        BY LineTypes
      <3> QED
        BY <2>3, <3>1, ElementOfSeq DEF CliTypes, Inv, Types, ServiceType
    <2>5. ASSUME Has(p, t)
          PROVE  Has(p, t)'
      <3>1. CASE \E i \in 1..Len(got[p]) : got[p][i] = t
        <4>1. CASE got'[p] = got[p]
          BY <3>1, <4>1 DEF Has
        <4>2. CASE /\ at[p] = "read"
                   /\ got'[p] = Append(got[p], back[p][1].val)
          <5>1. back[p][1].val \in Nat
            BY <2>1, <2>3, <2>4, <4>2 DEF Responses
          <5>2. /\ Len(got'[p]) = Len(got[p]) + 1 /\ Len(got[p]) \in Nat
                /\ \A i \in 1..Len(got[p]) : got'[p][i] = got[p][i]
            BY <2>4, <4>2, <5>1, AppendElements
          <5> QED
            BY <3>1, <5>2 DEF Has
        <4> QED
          BY <2>1, <2>3, <4>1, <4>2
      <3>2. CASE \E i \in 1..Len(back[p]) : Carries(p, i) /\ back[p][i].val = t
        <4>1. /\ at[p] = "read" /\ back[p][1].val = t
              /\ got'[p] = Append(got[p], t)
          BY <2>1, <2>3, <3>2 DEF Carries
        <4>2. t \in Nat
          BY <2>1, <2>3, <2>4, <4>1 DEF Responses
        <4>3. /\ Len(got'[p]) = Len(got[p]) + 1 /\ Len(got[p]) \in Nat
              /\ got'[p][Len(got[p]) + 1] = t
          BY <2>4, <4>1, <4>2, AppendElements
        <4> QED
          BY <4>3 DEF Has
      <3> QED
        BY <2>5, <3>1, <3>2 DEF Has
    <2> QED
      BY <1>1, <1>2, <2>1, <2>5
  <1>4. ASSUME NEW p \in Users, CliHandle(p)
        PROVE  Queued' \/ \E h \in Users : Has(h, t)'
    <2>1. ~upset /\ Frame(p) /\ job' = job /\ made' = made /\ got' = got
      BY <1>4, CliHandleEffect DEF Frame
    <2>2. InStep(p)
      BY <2>1 DEF Undisturbed
    <2>3. Has(p, t) => Has(p, t)'
      <3>1. Len(back[p]) = 0
        BY <1>4, <2>2, LineSteps, EmptySeq DEF Asking
      <3>2. Has(p, t) => \E i \in 1..Len(got[p]) : got[p][i] = t
        BY <3>1 DEF Has
      <3> QED
        BY <2>1, <3>2 DEF Has
    <2>4. Queued => Queued' \/ Has(p, t)'
      BY <1>4, <2>1, <2>2, HandleQueue
    <2> QED
      BY <1>1, <1>2, <2>1, <2>3, <2>4
  <1>5. ASSUME NEW p \in Users, CliAsk(p) \/ Write(p)
        PROVE  Queued' \/ \E h \in Users : Has(h, t)'
    <2>1. /\ ~upset /\ job' = job
          /\ UNCHANGED <<made, fifo, got, back>>
      BY <1>5, AskEffect, WriteEffect DEF Frame, device, vars, line
    <2> QED
      BY <1>1, <2>1 DEF Has, Carries
  <1>6. ASSUME NEW p \in Users, CliLose(p) \/ CliDrop(p) \/ Kill(p)
        PROVE  FALSE
    BY <1>6, LoseEffect, DropEffect, KillEffect
  <1>7. CASE CliRecord
    <2>1. /\ ~upset /\ job' = job /\ made' = made + 1
          /\ fifo' = Append(fifo, made + 1) /\ UNCHANGED <<got, back>>
      BY <1>7 DEF CliRecord, Record, process, line
    <2>2. made \in Nat /\ fifo \in Seq(Nat)
      BY DEF CliTypes, Inv, Types, ServiceType
    <2>3. /\ Len(fifo') = Len(fifo) + 1 /\ Len(fifo) \in Nat
          /\ \A i \in 1..Len(fifo) : fifo'[i] = fifo[i]
          /\ fifo'[Len(fifo) + 1] = made + 1
      BY <2>1, <2>2, AppendElements
    <2>4. t \in 1..made \/ t = made + 1
      BY <2>1, <2>2
    <2>5. CASE t = made + 1
      BY <2>3, <2>5
    <2>6. CASE t \in 1..made
      <3>1. Queued \/ \E w \in Users : Has(w, t)
        BY <1>1, <2>1, <2>6
      <3>2. Queued => Queued'
        BY <2>3
      <3>3. \A w \in Users : Has(w, t) => Has(w, t)'
        BY <2>1 DEF Has, Carries
      <3> QED
        BY <3>1, <3>2, <3>3
    <2> QED
      BY <2>4, <2>5, <2>6
  <1>8. CASE UNCHANGED cliVars
    BY <1>1, <1>8
       DEF cliVars, vars, process, device, line, Has, Carries
  <1> QED
    BY <1>3, <1>4, <1>5, <1>6, <1>7, <1>8 DEF CliNext, ProcessStep

\* What a reader holds is what it has read.
LEMMA KeptIsGot ==
    ASSUME CliTypes, Showing, ~upset, NEW p \in Users, Reading(p),
           job[p] = "export" => status[p] # 1
    PROVE  Kept(p) = got[p]
  BY DEF Showing, ShowsRead, Kept, Reading

\* No transaction goes missing between several readers, as long as no call is
\* lost, nobody is killed, nobody clears the queue and every file can be
\* written.
THEOREM NothingMissing == CliSpec => []NothingGoesMissing
  <1>1. CliInit => Undisturbed /\ Showing /\ Somewhere
    BY DEF CliInit, Init, LineInit, Undisturbed, InStep, Quiet, Showing,
           ShowsRead, Somewhere
  <1>2. CliTypes /\ Undisturbed /\ Showing /\ Somewhere /\ [CliNext]_cliVars =>
            Undisturbed' /\ Showing' /\ Somewhere'
    BY UndisturbedStep, ShowingStep, SomewhereStep
  <1>3. CliTypes /\ Showing /\ Somewhere => NothingGoesMissing
    <2> SUFFICES ASSUME CliTypes, Showing, Somewhere, ~upset,
                        \A p \in Users : /\ job[p] # "clear"
                                         /\ job[p] = "export" => status[p] # 1
                 PROVE  1..made = Members(fifo)
                            \cup (UNION {OnItsWay(p) : p \in Users})
                            \cup (UNION {Members(Kept(p)) :
                                            p \in {q \in Users : Reading(q)}})
      BY DEF NothingGoesMissing
    <2>1. \A p \in Users : Reading(p) => Kept(p) = got[p]
      BY KeptIsGot
    <2>2. \A p \in Users : ~Reading(p) => got[p] = <<>>
      BY DEF Showing, ShowsRead
    <2>3. ASSUME NEW t \in 1..made
          PROVE  t \in Members(fifo)
                         \cup (UNION {OnItsWay(p) : p \in Users})
                         \cup (UNION {Members(Kept(p)) :
                                         p \in {q \in Users : Reading(q)}})
      <3>1. CASE \E i \in 1..Len(fifo) : fifo[i] = t
        BY <3>1 DEF Members
      <3>2. CASE \E p \in Users : Has(p, t)
        <4>1. PICK p \in Users : Has(p, t)
          BY <3>2
        <4>2. CASE \E i \in 1..Len(got[p]) : got[p][i] = t
          <5>1. Reading(p)
            BY <2>2, <4>2, EmptySeq
          <5>2. t \in Members(Kept(p))
            BY <2>1, <4>2, <5>1 DEF Members
          <5> QED
            BY <5>1, <5>2
        <4>3. CASE \E i \in 1..Len(back[p]) :
                      Carries(p, i) /\ back[p][i].val = t
          <5>1. t \in OnItsWay(p)
            BY <4>3 DEF OnItsWay, Carries
          <5> QED
            BY <5>1
        <4> QED
          BY <4>1, <4>2, <4>3 DEF Has
      <3> QED
        BY <3>1, <3>2 DEF Somewhere
    <2>4. Dated
      BY DEF CliTypes, Inv, Types
    <2>5. Members(fifo) \subseteq 1..made
      BY <2>4 DEF Members, Dated
    <2>6. ASSUME NEW p \in Users
          PROVE  OnItsWay(p) \subseteq 1..made
      BY <2>4 DEF OnItsWay, Dated, Carries
    <2>7. ASSUME NEW p \in Users, Reading(p)
          PROVE  Members(Kept(p)) \subseteq 1..made
      BY <2>1, <2>4, <2>7 DEF Members, Dated
    <2> QED
      BY <2>3, <2>5, <2>6, <2>7
  <1> QED
    BY <1>1, <1>2, <1>3, CliInvariance, PTL DEF CliSpec
=============================================================================
