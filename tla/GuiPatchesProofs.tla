-------------------------- MODULE GuiPatchesProofs --------------------------
(***************************************************************************)
(* Proofs about GuiPatches: the groups that calculateOptimizedPatches      *)
(* makes, and what the hex viewer's timer does to the list and the FPGA.   *)
(* For any addresses and values, any patches entered by hand, any limits   *)
(* of gap and size and any length of the list.                             *)
(***************************************************************************)
EXTENDS GuiPatches, FiniteSetTheorems, SequenceTheorems, TLAPS

-----------------------------------------------------------------------------
(* Finite sets.  A smallest counterexample stands in for induction.        *)

LEMMA SmallestSet ==
    ASSUME NEW S, IsFiniteSet(S), NEW B \in SUBSET (SUBSET S), B # {}
    PROVE  \E T \in B : \A U \in SUBSET T : U # T => U \notin B
  <1>1. IsWellFoundedOn(StrictSubsetOrdering(S), SUBSET S)
    BY FS_StrictSubsetOrderingWellFounded, FS_FiniteSubsetsOfFinite
  <1>2. PICK T \in B : \A U \in B : <<U, T>> \notin StrictSubsetOrdering(S)
    BY <1>1, WFMin
  <1>3. ASSUME NEW U \in SUBSET T, U # T, U \in B
        PROVE  FALSE
    <2>1. <<U, T>> \in StrictSubsetOrdering(S)
      BY <1>3 DEF StrictSubsetOrdering
    <2> QED
      BY <1>2, <1>3, <2>1
  <1> QED
    BY <1>2, <1>3

LEMMA MaxGreatest ==
    ASSUME NEW S \in SUBSET Nat, IsFiniteSet(S), S # {}
    PROVE  Max(S) \in S /\ \A k \in S : k <= Max(S)
  <1> DEFINE Above(k) == {j \in S : j > k}
             B == {Above(k) : k \in S}
  <1>1. PICK T \in B : \A U \in SUBSET T : U # T => U \notin B
    <2>1. B \in SUBSET (SUBSET S) /\ B # {}
      OBVIOUS
    <2> HIDE DEF B
    <2> QED
      BY <2>1, SmallestSet
  <1>2. PICK m \in S : T = Above(m)
    OBVIOUS
  <1>3. ASSUME NEW k \in S, k > m
        PROVE  FALSE
    <2>1. \A j \in S : j > k => j > m
      BY <1>3
    <2>2. Above(k) \in SUBSET Above(m)
      BY <2>1
    <2>3. k \in Above(m) /\ k \notin Above(k)
      BY <1>3
    <2>4. Above(k) \in B /\ Above(k) # Above(m)
      BY <2>3
    <2> HIDE DEF B, Above
    <2> QED
      BY <1>1, <1>2, <2>2, <2>4
  <1>4. \A k \in S : m >= k
    BY <1>3
  <1> QED
    BY <1>4 DEF Max

LEMMA MinLeast ==
    ASSUME NEW S \in SUBSET Nat, IsFiniteSet(S), S # {}
    PROVE  Min(S) \in S /\ \A k \in S : Min(S) <= k
  <1> DEFINE Below(k) == {j \in S : j < k}
             B == {Below(k) : k \in S}
  <1>1. PICK T \in B : \A U \in SUBSET T : U # T => U \notin B
    <2>1. B \in SUBSET (SUBSET S) /\ B # {}
      OBVIOUS
    <2> HIDE DEF B
    <2> QED
      BY <2>1, SmallestSet
  <1>2. PICK m \in S : T = Below(m)
    OBVIOUS
  <1>3. ASSUME NEW k \in S, k < m
        PROVE  FALSE
    <2>1. \A j \in S : j < k => j < m
      BY <1>3
    <2>2. Below(k) \in SUBSET Below(m)
      BY <2>1
    <2>3. k \in Below(m) /\ k \notin Below(k)
      BY <1>3
    <2>4. Below(k) \in B /\ Below(k) # Below(m)
      BY <2>3
    <2> HIDE DEF B, Below
    <2> QED
      BY <1>1, <1>2, <2>2, <2>4
  <1>4. \A k \in S : m <= k
    BY <1>3
  <1> QED
    BY <1>4 DEF Min

\* What is left of a set without its greatest element.
LEMMA BelowMax ==
    ASSUME NEW S \in SUBSET Nat, IsFiniteSet(S), S # {}
    PROVE  /\ S \ {Max(S)} \in SUBSET S /\ S \ {Max(S)} # S
           /\ \A k \in S \ {Max(S)} : k < Max(S)
  <1>1. Max(S) \in S /\ \A k \in S : k <= Max(S)
    BY MaxGreatest
  <1>2. PICK m : m = Max(S)
    OBVIOUS
  <1>3. m \in Nat /\ \A k \in S : k <= m
    BY <1>1, <1>2
  <1>4. \A k \in S \ {m} : k < m
    BY <1>3
  <1> QED
    BY <1>1, <1>2, <1>4

-----------------------------------------------------------------------------
(* Folds over finite sets of numbers, from the least to the greatest.      *)

FoldOf(g, S, T, base, op) ==
    /\ g \in [SUBSET S -> T] /\ g[{}] = base
    /\ \A s \in SUBSET S :
          s # {} => g[s] = op[<<Max(s), g[s \ {Max(s)}]>>]

LEMMA FoldExists ==
    ASSUME NEW T, NEW base \in T, NEW S \in SUBSET Nat, IsFiniteSet(S),
           NEW op \in [S \X T -> T]
    PROVE  \E g : FoldOf(g, S, T, base, op)
  <1> USE DEF FoldOf
  <1> DEFINE Folds(g, U) == FoldOf(g, U, T, base, op)
             B == {U \in SUBSET S : ~\E g : Folds(g, U)}
  <1>1. SUFFICES ASSUME B # {}
                 PROVE  FALSE
    <2>1. CASE B = {}
      <3>1. S \notin B /\ S \in SUBSET S
        BY <2>1
      <3>2. PICK g : Folds(g, S)
        BY <3>1
      <3> QED
        BY <3>2
    <2> QED
      BY <2>1
  <1>2. PICK U \in B : \A V \in SUBSET U : V # U => V \notin B
    <2>1. B \in SUBSET (SUBSET S)
      OBVIOUS
    <2> HIDE DEF B
    <2> QED
      BY <1>1, <2>1, SmallestSet
  <1>3. U \in SUBSET S /\ ~\E g : Folds(g, U)
    OBVIOUS
  <1>4. U # {}
    <2>1. Folds([s \in SUBSET {} |-> base], {})
      OBVIOUS
    <2> HIDE DEF Folds
    <2> QED
      BY <1>3, <2>1
  <1>5. PICK m : m = Max(U)
    OBVIOUS
  <1> DEFINE V == U \ {m}
  <1>6. m \in U /\ V \in SUBSET U /\ V # U /\ \A k \in V : k < m
    BY <1>3, <1>4, <1>5, FS_Subset, BelowMax, MaxGreatest
  <1>7. PICK g : Folds(g, V)
    <2>1. V \notin B /\ V \in SUBSET S
      BY <1>2, <1>3, <1>6
    <2> HIDE DEF Folds
    <2> QED
      BY <2>1
  <1> DEFINE h == [s \in SUBSET U |->
                      IF m \in s THEN op[<<m, g[s \ {m}]>>] ELSE g[s]]
  <1>8. \A s \in SUBSET U : (m \in s => s \ {m} \in SUBSET V)
                            /\ (m \notin s => s \in SUBSET V)
    OBVIOUS
  <1>9. h \in [SUBSET U -> T]
    <2>1. ASSUME NEW s \in SUBSET U PROVE h[s] \in T
      BY <1>3, <1>6, <1>7, <1>8
    <2> HIDE DEF V, Folds
    <2> QED
      BY <2>1
  <1>10. ASSUME NEW s \in SUBSET U, s # {}
         PROVE  h[s] = op[<<Max(s), h[s \ {Max(s)}]>>]
    <2>1. s \in SUBSET Nat /\ IsFiniteSet(s)
      BY <1>3, FS_Subset
    <2>2. Max(s) \in s /\ \A k \in s : k <= Max(s)
      BY <1>10, <2>1, MaxGreatest
    <2>3. CASE m \in s
      <3>1. Max(s) = m
        <4>1. PICK k \in s : k = Max(s)
          BY <2>2
        <4>2. m \in Nat /\ k \in Nat
          BY <1>3, <1>6
        <4>3. m <= k
          BY <2>2, <2>3, <4>1
        <4>4. k # m => k < m
          BY <1>6
        <4> QED
          BY <4>1, <4>2, <4>3, <4>4
      <3>2. h[s] = op[<<m, g[s \ {m}]>>]
        BY <2>3
      <3>3. s \ {m} \in SUBSET U /\ m \notin s \ {m}
        OBVIOUS
      <3>4. h[s \ {m}] = g[s \ {m}]
        BY <3>3
      <3> QED
        BY <3>1, <3>2, <3>4
    <2>4. CASE m \notin s
      <3>1. h[s] = g[s] /\ s \in SUBSET V
        BY <1>8, <2>4
      <3>2. g[s] = op[<<Max(s), g[s \ {Max(s)}]>>]
        BY <1>7, <1>10, <3>1
      <3>3. s \ {Max(s)} \in SUBSET U /\ m \notin s \ {Max(s)}
        BY <2>4
      <3>4. h[s \ {Max(s)}] = g[s \ {Max(s)}]
        BY <3>3
      <3> QED
        BY <3>1, <3>2, <3>4
    <2> QED
      BY <2>3, <2>4
  <1>11. h[{}] = base
    BY <1>7
  <1>12. Folds(h, U)
    <2> HIDE DEF h
    <2> QED
      BY <1>9, <1>10, <1>11
  <1> HIDE DEF Folds
  <1> QED
    BY <1>3, <1>12

-----------------------------------------------------------------------------
(* The groups of the modified addresses.                                   *)

Ranges == [from : Nat, to : Nat]

\* The body of the loop of calculateOptimizedPatches.
Put(a, gs) ==
    IF gs # <<>> /\ Joins(Last(gs), a)
    THEN Append(Front(gs), [Last(gs) EXCEPT !.to = a])
    ELSE Append(gs, [from |-> a, to |-> a])

GroupFold(g, S) ==
    g = [s \in SUBSET S |->
            IF s = {} THEN <<>> ELSE Put(Max(s), g[s \ {Max(s)}])]

\* With the next address the last group grows, or a new one begins.
LEMMA PutElements ==
    ASSUME NEW a \in Nat, NEW gs \in Seq(Ranges)
    PROVE  /\ Put(a, gs) \in Seq(Ranges)
           /\ gs # <<>> /\ Joins(Last(gs), a) =>
                 /\ Len(Put(a, gs)) = Len(gs)
                 /\ Put(a, gs)[Len(gs)] = [from |-> Last(gs).from, to |-> a]
                 /\ \A i \in 1..(Len(gs) - 1) : Put(a, gs)[i] = gs[i]
           /\ ~(gs # <<>> /\ Joins(Last(gs), a)) =>
                 /\ Len(Put(a, gs)) = Len(gs) + 1
                 /\ Put(a, gs)[Len(gs) + 1] = [from |-> a, to |-> a]
                 /\ \A i \in 1..Len(gs) : Put(a, gs)[i] = gs[i]
  <1>1. CASE gs # <<>> /\ Joins(Last(gs), a)
    <2>1. Len(gs) \in Nat \ {0} /\ Last(gs) \in Ranges
      BY <1>1 DEF Last
    <2>2. PICK e : e = [Last(gs) EXCEPT !.to = a]
      OBVIOUS
    <2>3. e = [from |-> Last(gs).from, to |-> a] /\ e \in Ranges
      BY <2>1, <2>2 DEF Ranges
    <2>4. /\ Front(gs) \in Seq(Ranges) /\ Len(Front(gs)) = Len(gs) - 1
          /\ \A i \in 1..(Len(gs) - 1) : Front(gs)[i] = gs[i]
      <3>1. PICK n \in Nat \ {0} : n = Len(gs)
        BY <2>1
      <3>2. \A i \in 1..(n - 1) : gs[i] \in Ranges
        BY <3>1
      <3>3. /\ SubSeq(gs, 1, n - 1) \in Seq(Ranges)
            /\ Len(SubSeq(gs, 1, n - 1)) = n - 1
            /\ \A i \in 1..(n - 1) : SubSeq(gs, 1, n - 1)[i] = gs[i]
        <4> HIDE DEF Ranges
        <4> QED
          BY <3>1, <3>2
      <3> QED
        BY <3>1, <3>3 DEF Front
    <2>5. Put(a, gs) = Append(Front(gs), e)
      BY <1>1, <2>2 DEF Put
    <2> HIDE DEF Ranges
    <2>6. /\ Put(a, gs) \in Seq(Ranges) /\ Len(Put(a, gs)) = Len(gs)
          /\ Put(a, gs)[Len(gs)] = e
          /\ \A i \in 1..(Len(gs) - 1) : Put(a, gs)[i] = gs[i]
      BY <2>1, <2>3, <2>4, <2>5
    <2> QED
      BY <1>1, <2>3, <2>6
  <1>2. CASE ~(gs # <<>> /\ Joins(Last(gs), a))
    <2>1. PICK e : e = [from |-> a, to |-> a]
      OBVIOUS
    <2>2. e \in Ranges
      BY <2>1 DEF Ranges
    <2>3. Put(a, gs) = Append(gs, e)
      BY <1>2, <2>1 DEF Put
    <2> QED
      BY <1>2, <2>1, <2>2, <2>3
  <1> QED
    BY <1>1, <1>2

LEMMA GroupFoldExists ==
    ASSUME NEW S \in SUBSET Nat, IsFiniteSet(S)
    PROVE  \E g : GroupFold(g, S)
  <1> DEFINE op == [d \in S \X Seq(Ranges) |-> Put(d[1], d[2])]
  <1>1. op \in [S \X Seq(Ranges) -> Seq(Ranges)]
    <2>1. ASSUME NEW d \in S \X Seq(Ranges)
          PROVE  Put(d[1], d[2]) \in Seq(Ranges)
      BY PutElements
    <2> QED
      BY <2>1
  <1>2. <<>> \in Seq(Ranges)
    BY EmptySeq
  <1> HIDE DEF op
  <1>3. PICK g \in [SUBSET S -> Seq(Ranges)] :
            /\ g[{}] = <<>>
            /\ \A s \in SUBSET S :
                  s # {} => g[s] = op[<<Max(s), g[s \ {Max(s)}]>>]
    <2>1. PICK T : T = Seq(Ranges)
      OBVIOUS
    <2>2. PICK b : b = <<>>
      OBVIOUS
    <2>3. b \in T /\ op \in [S \X T -> T]
      BY <1>1, <1>2, <2>1, <2>2
    <2>4. \E g : FoldOf(g, S, T, b, op)
      BY <2>3, FoldExists
    <2> QED
      BY <2>1, <2>2, <2>4 DEF FoldOf
  <1>4. ASSUME NEW s \in SUBSET S, s # {}
        PROVE  g[s] = Put(Max(s), g[s \ {Max(s)}])
    <2>1. Max(s) \in S
      BY <1>4, FS_Subset, MaxGreatest
    <2>2. g[s \ {Max(s)}] \in Seq(Ranges)
      BY <1>3
    <2> QED
      BY <1>3, <1>4, <2>1, <2>2 DEF op
  <1>5. GroupFold(g, S)
    BY <1>3, <1>4 DEF GroupFold
  <1> QED
    BY <1>5

\* What holds of the groups of the addresses in s.
Grouped(s, gs) ==
    /\ gs \in Seq(Ranges)
    /\ gs = <<>> <=> s = {}
    /\ \A i \in 1..Len(gs) :
          /\ gs[i].from \in s /\ gs[i].to \in s /\ gs[i].from <= gs[i].to
          /\ gs[i].to - gs[i].from < MaxSize
          /\ \A a \in s : gs[i].from <= a /\ a < gs[i].to =>
                \E b \in s : a < b /\ b <= gs[i].to /\ b - a - 1 <= MaxGap
    /\ \A a \in s : \E i \in 1..Len(gs) : gs[i].from <= a /\ a <= gs[i].to
    /\ \A i, j \in 1..Len(gs) : i < j => gs[i].to < gs[j].from
    /\ \A i \in 1..Len(gs) : i # Len(gs) => ~Joins(gs[i], gs[i + 1].from)
    /\ \A a \in s : a <= gs[Len(gs)].to

LEMMA GroupedEmpty == Grouped({}, <<>>)
  <1>1. PICK b : b = <<>>
    OBVIOUS
  <1>2. b \in Seq(Ranges) /\ Len(b) = 0
    BY <1>1, EmptySeq
  <1>3. 1..0 = {} /\ 1..Len(b) = {}
    BY <1>2
  <1>4. Grouped({}, b)
    BY Zenon, <1>1, <1>2, <1>3 DEF Grouped
  <1> QED
    BY <1>1, <1>4

LEMMA GroupedNext ==
    ASSUME NEW s \in SUBSET Nat, NEW m \in Nat, \A k \in s : k < m,
           NEW gs, Grouped(s, gs)
    PROVE  Grouped(s \cup {m}, Put(m, gs))
  <1> DEFINE t == s \cup {m}
  <1>0. MaxGap \in Nat /\ MaxSize \in Nat /\ MaxSize > 0
    BY GuiAssumption
  <1>1. PICK hs : hs = Put(m, gs)
    OBVIOUS
  <1>2. PICK n \in Nat : n = Len(gs)
    BY DEF Grouped
  <1>3. /\ gs \in Seq(Ranges) /\ hs \in Seq(Ranges)
        /\ \A i \in 1..n : gs[i] \in Ranges
    <2>1. gs \in Seq(Ranges)
      BY DEF Grouped
    <2>2. Put(m, gs) \in Seq(Ranges)
      BY <2>1, PutElements
    <2> QED
      BY <1>1, <1>2, <2>1, <2>2
  <1>4. \A i \in 1..n : /\ gs[i].from \in s /\ gs[i].to \in s
                        /\ gs[i].from < m /\ gs[i].to < m
                        /\ gs[i].from \in Nat /\ gs[i].to \in Nat
    BY <1>2 DEF Grouped
  <1>5. CASE gs # <<>> /\ Joins(Last(gs), m)
    <2> DEFINE e == [from |-> gs[n].from, to |-> m]
    <2>1. n \in 1..n /\ Last(gs) = gs[n]
      BY <1>2, <1>3, <1>5 DEF Last
    <2>2. /\ Len(hs) = n /\ hs[n] = e
          /\ \A i \in 1..(n - 1) : hs[i] = gs[i]
      <3>1. /\ Len(Put(m, gs)) = Len(gs)
            /\ Put(m, gs)[Len(gs)] = [from |-> Last(gs).from, to |-> m]
            /\ \A i \in 1..(Len(gs) - 1) : Put(m, gs)[i] = gs[i]
        BY Zenon, <1>3, <1>5, PutElements
      <3> QED
        BY <1>1, <1>2, <2>1, <3>1
    <2>3. /\ m - (gs[n].to + 1) <= MaxGap
          /\ m - gs[n].from + 1 <= MaxSize
      BY <1>5, <2>1 DEF Joins
    <2>4. ASSUME NEW i \in 1..n
          PROVE  /\ hs[i].from \in t /\ hs[i].to \in t
                 /\ hs[i].from <= hs[i].to
                 /\ hs[i].to - hs[i].from < MaxSize
      <3>1. CASE i = n
        BY <1>0, <1>4, <2>1, <2>2, <2>3, <3>1
      <3>2. CASE i # n
        BY <1>2, <2>2, <3>2 DEF Grouped
      <3> QED
        BY <3>1, <3>2
    <2>5. ASSUME NEW i \in 1..n, NEW a \in t,
                 hs[i].from <= a, a < hs[i].to
          PROVE  \E b \in t : a < b /\ b <= hs[i].to /\ b - a - 1 <= MaxGap
      <3>1. CASE i = n /\ a < gs[n].to
        <4>1. gs[n].from <= a /\ a \in s
          BY <1>4, <2>1, <2>2, <2>5, <3>1
        <4>2. PICK b \in s : a < b /\ b <= gs[n].to /\ b - a - 1 <= MaxGap
          BY <1>2, <2>1, <3>1, <4>1 DEF Grouped
        <4>3. b <= m
          OBVIOUS
        <4> QED
          BY <2>2, <3>1, <4>2, <4>3
      <3>2. CASE i = n /\ ~(a < gs[n].to)
        <4>1. m \in t /\ a < m /\ m <= hs[i].to
          BY <2>2, <2>5, <3>2
        <4>2. a \in Nat /\ gs[n].to \in Nat
          BY <1>4, <2>1
        <4>3. m - a - 1 <= MaxGap
          BY <1>0, <2>3, <3>2, <4>2
        <4> QED
          BY <4>1, <4>3
      <3>3. CASE i # n
        <4>1. i \in 1..(n - 1) /\ hs[i] = gs[i]
          BY <2>2, <3>3
        <4>2. a \in s
          BY <1>4, <2>5, <4>1
        <4>3. PICK b \in s : a < b /\ b <= gs[i].to /\ b - a - 1 <= MaxGap
          BY <1>2, <2>5, <4>1, <4>2 DEF Grouped
        <4> QED
          BY <4>1, <4>3
      <3> QED
        BY <3>1, <3>2, <3>3
    <2>6. ASSUME NEW a \in t
          PROVE  \E i \in 1..n : hs[i].from <= a /\ a <= hs[i].to
      <3>1. CASE a = m
        BY <1>4, <2>1, <2>2, <3>1
      <3>2. CASE a \in s
        <4>1. PICK i \in 1..n : gs[i].from <= a /\ a <= gs[i].to
          BY <1>2, <3>2 DEF Grouped
        <4>2. CASE i = n
          BY <2>1, <2>2, <3>2, <4>1, <4>2
        <4>3. CASE i # n
          BY <2>2, <4>1, <4>3
        <4> QED
          BY <4>2, <4>3
      <3> QED
        BY <3>1, <3>2
    <2>7. ASSUME NEW i \in 1..n, NEW j \in 1..n, i < j
          PROVE  hs[i].to < hs[j].from
      <3>1. gs[i].to < gs[j].from /\ hs[i] = gs[i]
        BY <1>2, <2>2, <2>7 DEF Grouped
      <3>2. hs[j].from = gs[j].from
        BY <2>2
      <3> QED
        BY <3>1, <3>2
    <2>8. ASSUME NEW i \in 1..n, i # n
          PROVE  ~Joins(hs[i], hs[i + 1].from)
      <3>1. hs[i] = gs[i] /\ hs[i + 1].from = gs[i + 1].from
        BY <2>2, <2>8
      <3> QED
        BY <1>2, <2>8, <3>1 DEF Grouped
    <2>9. \A a \in t : a <= hs[n].to
      BY <2>2
    <2>10. hs # <<>>
      BY <1>3, <2>1, <2>2
    <2> HIDE DEF Ranges, Joins
    <2> QED
      BY <1>1, <1>3, <2>2, <2>4, <2>5, <2>6, <2>7, <2>8, <2>9, <2>10
      DEF Grouped
  <1>6. CASE ~(gs # <<>> /\ Joins(Last(gs), m))
    <2> DEFINE e == [from |-> m, to |-> m]
    <2>1. /\ Len(hs) = n + 1 /\ hs[n + 1] = e
          /\ \A i \in 1..n : hs[i] = gs[i]
      <3>1. /\ Len(Put(m, gs)) = Len(gs) + 1
            /\ Put(m, gs)[Len(gs) + 1] = [from |-> m, to |-> m]
            /\ \A i \in 1..Len(gs) : Put(m, gs)[i] = gs[i]
        BY Zenon, <1>3, <1>6, PutElements
      <3> QED
        BY <1>1, <1>2, <3>1
    <2>2. ASSUME NEW i \in 1..(n + 1)
          PROVE  i = n + 1 \/ i \in 1..n
      OBVIOUS
    <2>3. ASSUME NEW i \in 1..(n + 1)
          PROVE  /\ hs[i].from \in t /\ hs[i].to \in t
                 /\ hs[i].from <= hs[i].to
                 /\ hs[i].to - hs[i].from < MaxSize
      <3>1. CASE i = n + 1
        BY <1>0, <2>1, <3>1
      <3>2. CASE i \in 1..n
        BY <1>2, <2>1, <3>2 DEF Grouped
      <3> QED
        BY <2>2, <3>1, <3>2
    <2>4. ASSUME NEW i \in 1..(n + 1), NEW a \in t,
                 hs[i].from <= a, a < hs[i].to
          PROVE  \E b \in t : a < b /\ b <= hs[i].to /\ b - a - 1 <= MaxGap
      <3>1. i \in 1..n /\ a \in s
        <4>1. PICK f : f = hs[i].from
          OBVIOUS
        <4>2. PICK g : g = hs[i].to
          OBVIOUS
        <4>3. a \in Nat /\ a <= m /\ f <= a /\ a < g
          BY <2>4, <4>1, <4>2
        <4>4. i # n + 1
          <5>1. i = n + 1 => f = m /\ g = m
            BY <2>1, <4>1, <4>2
          <5> QED
            BY <4>3, <5>1
        <4>5. g \in Nat /\ g < m
          BY <1>4, <2>1, <2>2, <4>2, <4>4
        <4>6. a # m
          BY <4>3, <4>5
        <4> QED
          BY <2>2, <4>4, <4>6
      <3>2. PICK b \in s : a < b /\ b <= gs[i].to /\ b - a - 1 <= MaxGap
        BY <1>2, <2>1, <2>4, <3>1 DEF Grouped
      <3> QED
        BY <2>1, <3>1, <3>2
    <2>5. ASSUME NEW a \in t
          PROVE  \E i \in 1..(n + 1) : hs[i].from <= a /\ a <= hs[i].to
      <3>1. CASE a = m
        BY <2>1, <3>1
      <3>2. CASE a \in s
        <4>1. PICK i \in 1..n : gs[i].from <= a /\ a <= gs[i].to
          BY <1>2, <3>2 DEF Grouped
        <4> QED
          BY <2>1, <4>1
      <3> QED
        BY <3>1, <3>2
    <2>6. ASSUME NEW i \in 1..(n + 1), NEW j \in 1..(n + 1), i < j
          PROVE  hs[i].to < hs[j].from
      <3>1. i \in 1..n
        BY <2>6
      <3>2. CASE j = n + 1
        BY <1>4, <2>1, <3>1, <3>2
      <3>3. CASE j \in 1..n
        BY <1>2, <2>1, <2>6, <3>1, <3>3 DEF Grouped
      <3> QED
        BY <2>2, <3>2, <3>3
    <2>7. ASSUME NEW i \in 1..(n + 1), i # n + 1
          PROVE  ~Joins(hs[i], hs[i + 1].from)
      <3>1. i \in 1..n /\ hs[i] = gs[i]
        BY <2>1, <2>7
      <3>2. CASE i = n
        <4>1. gs # <<>> /\ Last(gs) = gs[n]
          BY <1>2, <1>3, <3>1 DEF Last
        <4> QED
          BY <1>6, <2>1, <3>1, <3>2, <4>1
      <3>3. CASE i # n
        <4>1. i + 1 \in 1..n
          BY <3>1, <3>3
        <4> QED
          BY <1>2, <2>1, <3>1, <3>3, <4>1 DEF Grouped
      <3> QED
        BY <3>2, <3>3
    <2>8. \A a \in t : a <= hs[n + 1].to
      BY <2>1
    <2>9. hs # <<>>
      BY <1>3, <2>1
    <2> HIDE DEF Ranges, Joins
    <2> QED
      BY <1>1, <1>3, <2>1, <2>3, <2>4, <2>5, <2>6, <2>7, <2>8, <2>9
      DEF Grouped
  <1> QED
    BY <1>5, <1>6

LEMMA ModifiedFinite == Modified \in SUBSET Nat /\ IsFiniteSet(Modified)
  BY GuiAssumption, FS_Subset DEF Modified

LEMMA GroupsGrouped == Grouped(Modified, Groups)
  <1> DEFINE M == Modified
             I == CHOOSE g : GroupFold(g, M)
  <1>1. M \in SUBSET Nat /\ IsFiniteSet(M)
    BY ModifiedFinite
  <1>2. Groups = I[M]
    BY DEF Groups, MapThenFoldSet, GroupFold, Put
  <1>3. GroupFold(I, M)
    BY <1>1, GroupFoldExists
  <1> HIDE DEF I, M
  <1> DEFINE B == {s \in SUBSET M : ~Grouped(s, I[s])}
  <1>4. CASE B # {}
    <2>1. PICK s \in B : \A u \in SUBSET s : u # s => u \notin B
      <3>1. B \in SUBSET (SUBSET M)
        OBVIOUS
      <3> HIDE DEF B
      <3> QED
        BY <1>1, <1>4, <3>1, SmallestSet
    <2>2. s \in SUBSET M /\ s \in SUBSET Nat /\ IsFiniteSet(s)
          /\ ~Grouped(s, I[s])
      BY <1>1, FS_Subset
    <2>3. I[s] = IF s = {} THEN <<>> ELSE Put(Max(s), I[s \ {Max(s)}])
      BY <1>3, <2>2 DEF GroupFold
    <2>4. s # {}
      <3>1. Grouped({}, <<>>)
        BY GroupedEmpty
      <3> QED
        BY <2>2, <2>3, <3>1
    <2>5. PICK m : m = Max(s)
      OBVIOUS
    <2> DEFINE u == s \ {m}
    <2>6. m \in s /\ u \in SUBSET s /\ u # s /\ \A k \in u : k < m
      BY <2>2, <2>4, <2>5, BelowMax, MaxGreatest
    <2>7. Grouped(u, I[u])
      <3>1. u \notin B /\ u \in SUBSET M
        BY <2>1, <2>2, <2>6
      <3> QED
        BY <3>1
    <2>8. u \in SUBSET Nat /\ m \in Nat /\ u \cup {m} = s
      BY <2>2, <2>6
    <2> HIDE DEF u
    <2>9. Grouped(s, Put(m, I[u]))
      BY <2>6, <2>7, <2>8, GroupedNext
    <2> QED
      BY <2>2, <2>3, <2>4, <2>5, <2>9 DEF u
  <1>5. CASE B = {}
    <2>1. M \in SUBSET M /\ M \notin B
      BY <1>5
    <2> QED
      BY <1>2, <2>1 DEF M
  <1> QED
    BY <1>4, <1>5

\* A range within the rules covers the beginning of at most one group.
LEMMA OneGroupEach ==
    ASSUME NEW gs, Grouped(Modified, gs), NEW r \in Ranges, WithinRules(r),
           NEW i \in 1..Len(gs), NEW j \in 1..Len(gs), i < j,
           r.from <= gs[i].from, gs[j].from <= r.to
    PROVE  FALSE
  <1>0. MaxGap \in Nat /\ MaxSize \in Nat /\ Modified \in SUBSET Nat
    BY GuiAssumption, ModifiedFinite
  <1>1. PICK n \in Nat : n = Len(gs)
    BY DEF Grouped
  <1>2. /\ i \in 1..n /\ i # n /\ i + 1 \in 1..n
        /\ \A k \in 1..n : /\ gs[k].from \in Modified /\ gs[k].to \in Modified
                           /\ gs[k].from \in Nat /\ gs[k].to \in Nat
                           /\ gs[k].from <= gs[k].to
    <2>1. i \in 1..n /\ j \in 1..n
      BY <1>1
    <2>2. i # n /\ i + 1 \in 1..n
      BY <1>1, <2>1
    <2>3. ASSUME NEW k \in 1..n
          PROVE  /\ gs[k].from \in Modified /\ gs[k].to \in Modified
                 /\ gs[k].from <= gs[k].to
      BY <1>1 DEF Grouped
    <2> QED
      BY <1>0, <2>1, <2>2, <2>3
  <1> DEFINE a == gs[i].to
             c == gs[i + 1].from
  <1>3. a < c /\ ~Joins(gs[i], c)
    BY <1>1, <1>2 DEF Grouped
  <1>4. c <= gs[j].from
    <2>1. CASE j = i + 1
      BY <1>2, <2>1
    <2>2. CASE j # i + 1
      <3>1. i + 1 < j /\ j \in 1..n
        BY <1>1, <1>2, <2>2
      <3>2. gs[i + 1].to < gs[j].from
        BY <1>1, <1>2, <3>1 DEF Grouped
      <3> QED
        BY <1>2, <3>1, <3>2
    <2> QED
      BY <2>1, <2>2
  <1>5. /\ r.from \in Nat /\ r.to \in Nat /\ a \in Nat /\ c \in Nat
        /\ gs[i].from \in Nat /\ gs[j].from \in Nat /\ gs[i].from <= a
    BY <1>1, <1>2 DEF Ranges
  <1> HIDE DEF c
  <1>6. c - gs[i].from + 1 <= MaxSize
    BY SMTT(30), <1>0, <1>4, <1>5 DEF WithinRules
  <1>7. c - (a + 1) <= MaxGap
    <2>1. a \in Modified \cap (r.from..(r.to - 1))
      BY SMTT(30), <1>2, <1>3, <1>4, <1>5
    <2>2. PICK b \in Modified \cap ((a + 1)..r.to) : b - a - 1 <= MaxGap
      BY <2>1 DEF WithinRules
    <2>3. b \in Nat /\ a < b
      BY <1>5, <2>2
    <2>4. PICK k \in 1..n : gs[k].from <= b /\ b <= gs[k].to
      BY <1>1, <2>2 DEF Grouped
    <2>5. ~(k <= i)
      <3>1. CASE k = i
        BY <1>2, <1>5, <2>3, <2>4, <3>1
      <3>2. CASE k < i
        <4>1. gs[k].to < gs[i].from
          BY <1>1, <1>2, <3>2 DEF Grouped
        <4> QED
          BY SMTT(30), <1>2, <1>5, <2>3, <2>4, <4>1
      <3> QED
        BY <1>2, <3>1, <3>2
    <2>6. c <= gs[k].from
      <3>1. CASE k = i + 1
        BY <1>2, <3>1 DEF c
      <3>2. CASE k # i + 1
        <4>1. i + 1 < k
          BY <1>2, <2>5, <3>2
        <4>2. gs[i + 1].to < gs[k].from
          BY <1>1, <1>2, <4>1 DEF Grouped
        <4> QED
          BY SMTT(30), <1>2, <4>2 DEF c
      <3> QED
        BY <3>1, <3>2
    <2>7. PICK f \in Nat : f = gs[k].from
      BY <1>2
    <2>8. c <= f /\ f <= b
      BY <2>4, <2>6, <2>7
    <2>9. a \in Nat /\ c \in Nat /\ MaxGap \in Nat
      BY <1>0, <1>5
    <2> HIDE DEF a
    <2> QED
      BY <2>2, <2>3, <2>7, <2>8, <2>9
  <1> QED
    BY <1>3, <1>6, <1>7 DEF Joins

\* No fewer ranges than groups cover the modified addresses.
LEMMA NoFewerRanges ==
    ASSUME NEW gs, Grouped(Modified, gs), NEW rs \in SUBSET Ranges,
           IsFiniteSet(rs), \A r \in rs : WithinRules(r),
           \A a \in Modified : \E r \in rs : a \in r.from..r.to
    PROVE  Len(gs) <= Cardinality(rs)
  <1>1. PICK n \in Nat : n = Len(gs)
    BY DEF Grouped
  <1>2. Cardinality(rs) \in Nat /\ IsFiniteSet(1..n) /\ Cardinality(1..n) = n
    <2>1. Cardinality(rs) \in Nat
      BY FS_CardinalityType
    <2>2. 0 \in Int /\ 1 \in Int /\ n \in Int
      OBVIOUS
    <2>3. IsFiniteSet(1..n) /\ Cardinality(1..n) = IF 1 > n THEN 0 ELSE n - 1 + 1
      BY <2>2, FS_Interval
    <2> QED
      BY <2>1, <2>3
  <1> DEFINE f == [i \in 1..n |->
                      CHOOSE r \in rs : gs[i].from \in r.from..r.to]
  <1>3. ASSUME NEW i \in 1..n
        PROVE  f[i] \in rs /\ gs[i].from \in f[i].from..f[i].to
    <2>1. gs[i].from \in Modified
      BY <1>1 DEF Grouped
    <2> QED
      BY <2>1
  <1> HIDE DEF f
  <1>4. ASSUME NEW i \in 1..n, NEW j \in 1..n, i < j, f[i] = f[j]
        PROVE  FALSE
    <2>1. PICK r \in rs : r = f[i] /\ r = f[j]
      BY <1>3, <1>4
    <2>2. r \in Ranges /\ WithinRules(r)
      OBVIOUS
    <2>3. r.from \in Nat /\ r.to \in Nat
      BY <2>2 DEF Ranges
    <2>4. r.from <= gs[i].from /\ gs[j].from <= r.to
      <3>1. gs[i].from \in r.from..r.to /\ gs[j].from \in r.from..r.to
        BY <1>3, <2>1
      <3> QED
        BY <2>3, <3>1
    <2> QED
      BY <1>1, <1>4, <2>2, <2>4, OneGroupEach
  <1>5. CASE Cardinality(rs) < n
    <2>1. f \in [1..n -> rs]
      BY <1>3 DEF f
    <2>2. PICK i \in 1..n, j \in 1..n : i # j /\ f[i] = f[j]
      BY <1>2, <1>5, <2>1, FS_PigeonHole
    <2>3. i < j \/ j < i
      BY <2>2
    <2> QED
      BY <1>4, <2>2, <2>3
  <1> QED
    BY <1>1, <1>2, <1>5

LEMMA GroupsAreExact == GroupsExact
  <1> DEFINE ranges == {r \in [from : Modified, to : Modified] :
                           r.from <= r.to /\ WithinRules(r)}
             made == {Groups[i] : i \in 1..Len(Groups)}
  <1>1. Grouped(Modified, Groups)
    BY GroupsGrouped
  <1>2. Modified \in SUBSET Nat /\ IsFiniteSet(Modified)
        /\ MaxGap \in Nat /\ MaxSize \in Nat
    BY GuiAssumption, ModifiedFinite
  <1>3. PICK gs : gs = Groups
    OBVIOUS
  <1>4. PICK n \in Nat : n = Len(gs)
    BY <1>1, <1>3 DEF Grouped
  <1>5. gs \in Seq(Ranges) /\ Grouped(Modified, gs)
    BY <1>1, <1>3 DEF Grouped
  <1>6. ASSUME NEW i \in 1..n
        PROVE  gs[i] \in ranges
    <2>1. PICK r \in Ranges : r = gs[i]
      BY <1>4, <1>5
    <2>2. /\ r.from \in Modified /\ r.to \in Modified /\ r.from <= r.to
          /\ r.to - r.from < MaxSize
          /\ \A a \in Modified : r.from <= a /\ a < r.to =>
                \E b \in Modified : /\ a < b /\ b <= r.to
                                    /\ b - a - 1 <= MaxGap
      BY <1>4, <1>5, <2>1 DEF Grouped
    <2>3. r = [from |-> r.from, to |-> r.to]
          /\ r.from \in Nat /\ r.to \in Nat
      BY DEF Ranges
    <2>4. ASSUME NEW a \in Modified \cap (r.from..(r.to - 1))
          PROVE  \E b \in Modified \cap ((a + 1)..r.to) : b - a - 1 <= MaxGap
      <3>1. a \in Nat /\ a \in Modified /\ r.from <= a /\ a < r.to
        BY <1>2, <2>3
      <3>2. PICK b \in Modified : a < b /\ b <= r.to /\ b - a - 1 <= MaxGap
        BY <2>2, <3>1
      <3>3. b \in Nat /\ b \in (a + 1)..r.to
        BY <1>2, <2>3, <3>1, <3>2
      <3> QED
        BY <3>2, <3>3
    <2>5. WithinRules(r)
      BY <2>2, <2>4 DEF WithinRules
    <2>6. r \in [from : Modified, to : Modified]
      BY <2>2, <2>3
    <2> QED
      BY <2>1, <2>2, <2>5, <2>6
  <1>7. made \in SUBSET ranges
    BY <1>3, <1>4, <1>6
  <1>8. ASSUME NEW a \in Modified
        PROVE  \E r \in made : a \in r.from..r.to
    <2>1. PICK i \in 1..n : gs[i].from <= a /\ a <= gs[i].to
      BY <1>4, <1>5 DEF Grouped
    <2>2. gs[i] \in made
      BY <1>3, <1>4
    <2>3. gs[i].from \in Nat /\ gs[i].to \in Nat /\ a \in Nat
      <3>1. gs[i] \in Ranges
        BY <1>4, <1>5
      <3> QED
        BY <1>2, <3>1 DEF Ranges
    <2> QED
      BY <2>1, <2>2, <2>3
  <1>9. ASSUME NEW i \in 1..(Len(Groups) - 1)
        PROVE  Groups[i].to < Groups[i + 1].from
    <2>1. i \in 1..n /\ i + 1 \in 1..n /\ i < i + 1
      BY <1>3, <1>4
    <2> QED
      BY <1>3, <1>4, <1>5, <2>1 DEF Grouped
  <1>10. ASSUME NEW rs \in kSubset(Len(Groups) - 1, ranges),
                \A a \in Modified : \E r \in rs : a \in r.from..r.to
         PROVE  FALSE
    <2>1. rs \in SUBSET ranges /\ Cardinality(rs) = n - 1
      BY <1>3, <1>4 DEF kSubset
    <2>2. rs \in SUBSET Ranges /\ \A r \in rs : WithinRules(r)
      BY <1>2, <2>1 DEF Ranges
    <2>3. IsFiniteSet(rs)
      <3>1. IsFiniteSet(Modified \X Modified)
        BY <1>2, FS_Product
      <3> DEFINE h == [d \in Modified \X Modified |->
                          [from |-> d[1], to |-> d[2]]]
      <3>2. \A r \in rs : \E d \in Modified \X Modified : h[d] = r
        <4> SUFFICES ASSUME NEW r \in rs
                     PROVE  \E d \in Modified \X Modified : h[d] = r
          OBVIOUS
        <4>1. r.from \in Modified /\ r.to \in Modified
              /\ r = [from |-> r.from, to |-> r.to]
          BY <2>1
        <4>2. h[<<r.from, r.to>>] = r
          BY <4>1
        <4> QED
          BY <4>1, <4>2
      <3> DEFINE D == {d \in Modified \X Modified : h[d] \in rs}
      <3>3. IsFiniteSet(D)
        BY <3>1, FS_Subset
      <3>4. [d \in D |-> h[d]] \in Surjection(D, rs)
        BY SMTT(30), <3>2 DEF Surjection
      <3> QED
        BY <3>3, <3>4, FS_Surjection
    <2>4. Len(gs) <= Cardinality(rs)
      BY <1>5, <1>10, <2>2, <2>3, NoFewerRanges
    <2> QED
      BY <1>4, <2>1, <2>4
  <1> QED
    BY <1>7, <1>8, <1>9, <1>10 DEF GroupsExact

\* The grouping is within its rules, complete, and as small as they allow,
\* whatever addresses are modified.
THEOREM GroupsOptimal == Spec => []GroupsExact
  BY GroupsAreExact, PTL

-----------------------------------------------------------------------------
(* What is left of the list when patches go.                               *)

KeepFold(g, S) ==
    g = [s \in SUBSET S |->
            IF s = {} THEN <<>>
            ELSE Append(g[s \ {Max(s)}], patches[Max(s)])]

LEMMA PositionsFinite ==
    ASSUME patches \in Seq(Patches), NEW S \in SUBSET (1..Len(patches))
    PROVE  S \in SUBSET Nat /\ IsFiniteSet(S)
  <1> HIDE DEF Patches
  <1>1. PICK n \in Nat : n = Len(patches)
    OBVIOUS
  <1>2. IsFiniteSet(1..n) /\ 1..n \in SUBSET Nat
    BY FS_Interval
  <1> QED
    BY <1>1, <1>2, FS_Subset

LEMMA KeepFoldExists ==
    ASSUME patches \in Seq(Patches), NEW S \in SUBSET (1..Len(patches))
    PROVE  \E g : KeepFold(g, S)
  <1> DEFINE op == [d \in S \X Seq(Patches) |-> Append(d[2], patches[d[1]])]
  <1>0. S \in SUBSET Nat /\ IsFiniteSet(S)
    BY PositionsFinite
  <1>1. op \in [S \X Seq(Patches) -> Seq(Patches)]
    <2>1. ASSUME NEW d \in S \X Seq(Patches)
          PROVE  Append(d[2], patches[d[1]]) \in Seq(Patches)
      <3>1. d[1] \in 1..Len(patches) /\ d[2] \in Seq(Patches)
        OBVIOUS
      <3> HIDE DEF Patches
      <3> QED
        BY <3>1
    <2> QED
      BY <2>1
  <1>2. PICK T : T = Seq(Patches)
    OBVIOUS
  <1>3. PICK b : b = <<>>
    OBVIOUS
  <1> HIDE DEF op
  <1>4. b \in T /\ op \in [S \X T -> T]
    BY <1>1, <1>2, <1>3, EmptySeq
  <1>5. PICK g : FoldOf(g, S, T, b, op)
    BY <1>0, <1>4, FoldExists
  <1>6. ASSUME NEW s \in SUBSET S, s # {}
        PROVE  g[s] = Append(g[s \ {Max(s)}], patches[Max(s)])
    <2>1. Max(s) \in S
      BY <1>0, <1>6, FS_Subset, MaxGreatest
    <2>2. g[s \ {Max(s)}] \in Seq(Patches)
      BY <1>2, <1>5 DEF FoldOf
    <2> QED
      BY <1>5, <1>6, <2>1, <2>2 DEF FoldOf, op
  <1>7. KeepFold(g, S)
    BY <1>3, <1>5, <1>6 DEF FoldOf, KeepFold
  <1> QED
    BY <1>7

\* The list holds the patches at the positions s.
Holds(s, list) ==
    /\ list \in Seq(Patches)
    /\ \A k \in 1..Len(list) : \E i \in s : list[k] = patches[i]
    /\ \A i \in s : \E k \in 1..Len(list) : list[k] = patches[i]

LEMMA WithoutHolds ==
    ASSUME patches \in Seq(Patches), NEW ids
    PROVE  Holds({i \in 1..Len(patches) : patches[i].id \notin ids},
                 Without(ids))
  <1> DEFINE S == {i \in 1..Len(patches) : patches[i].id \notin ids}
             I == CHOOSE g : KeepFold(g, S)
  <1>1. S \in SUBSET (1..Len(patches)) /\ S \in SUBSET Nat /\ IsFiniteSet(S)
    BY PositionsFinite
  <1>2. Without(ids) = I[S]
    BY DEF Without, MapThenFoldSet, KeepFold
  <1>3. KeepFold(I, S)
    BY <1>1, KeepFoldExists
  <1> HIDE DEF I, S
  <1> DEFINE B == {s \in SUBSET S : ~Holds(s, I[s])}
  <1>4. ASSUME B # {}
        PROVE  FALSE
    <2>1. PICK s \in B : \A u \in SUBSET s : u # s => u \notin B
      <3>1. B \in SUBSET (SUBSET S)
        OBVIOUS
      <3> HIDE DEF B
      <3> QED
        BY <1>1, <1>4, <3>1, SmallestSet
    <2>2. s \in SUBSET S /\ s \in SUBSET Nat /\ IsFiniteSet(s)
          /\ ~Holds(s, I[s])
      BY <1>1, FS_Subset
    <2>3. I[s] = IF s = {} THEN <<>>
                 ELSE Append(I[s \ {Max(s)}], patches[Max(s)])
      BY <1>3, <2>2 DEF KeepFold
    <2>4. s # {}
      <3>1. <<>> \in Seq(Patches) /\ Len(<<>>) = 0
        BY EmptySeq
      <3> QED
        BY <2>2, <2>3, <3>1 DEF Holds
    <2>5. PICK m : m = Max(s)
      OBVIOUS
    <2> DEFINE u == s \ {m}
    <2>6. m \in s /\ u \in SUBSET s /\ u # s
      BY <2>2, <2>4, <2>5, BelowMax, MaxGreatest
    <2>7. Holds(u, I[u])
      <3>1. u \notin B /\ u \in SUBSET S
        BY <2>1, <2>2, <2>6
      <3> QED
        BY <3>1
    <2>8. PICK l : l = I[u]
      OBVIOUS
    <2>9. PICK p \in Patches : p = patches[m]
      BY <1>1, <2>2, <2>6
    <2> HIDE DEF Patches
    <2>10. l \in Seq(Patches)
      BY <2>7, <2>8 DEF Holds
    <2>11. PICK n \in Nat : n = Len(l)
      BY <2>10
    <2>12. /\ Append(l, p) \in Seq(Patches) /\ Len(Append(l, p)) = n + 1
           /\ Append(l, p)[n + 1] = p
           /\ \A k \in 1..n : Append(l, p)[k] = l[k]
      BY <2>10, <2>11
    <2>13. \A k \in 1..(n + 1) : \E i \in s : Append(l, p)[k] = patches[i]
      <3>1. \A k \in 1..(n + 1) : k = n + 1 \/ k \in 1..n
        OBVIOUS
      <3>2. \A k \in 1..n : \E i \in u : l[k] = patches[i]
        BY <2>7, <2>8, <2>11 DEF Holds
      <3> QED
        BY <2>6, <2>9, <2>12, <3>1, <3>2
    <2>14. ASSUME NEW i \in s
           PROVE  \E k \in 1..(n + 1) : Append(l, p)[k] = patches[i]
      <3>1. CASE i = m
        BY <2>9, <2>12, <3>1
      <3>2. CASE i \in u
        <4>1. PICK k \in 1..n : l[k] = patches[i]
          BY <2>7, <2>8, <2>11, <3>2 DEF Holds
        <4> QED
          BY <2>12, <4>1
      <3> QED
        BY <3>1, <3>2
    <2>15. I[s] = Append(l, p)
      BY <2>3, <2>4, <2>5, <2>8, <2>9
    <2> QED
      BY ZenonT(40), <2>2, <2>12, <2>13, <2>14, <2>15 DEF Holds
  <1>5. S \in SUBSET S /\ S \notin B
    BY <1>4
  <1>6. Holds(S, Without(ids))
    BY <1>2, <1>5
  <1> QED
    BY <1>6 DEF S

LEMMA WithoutAll ==
    ASSUME patches \in Seq(Patches), NEW ids,
           \A i \in 1..Len(patches) : patches[i].id \in ids
    PROVE  Without(ids) = <<>>
  <1>1. Holds({}, Without(ids))
    <2>1. {i \in 1..Len(patches) : patches[i].id \notin ids} = {}
      OBVIOUS
    <2> QED
      BY <2>1, WithoutHolds
  <1>2. PICK l \in Seq(Patches) : l = Without(ids)
    BY <1>1 DEF Holds
  <1>3. Holds({}, l)
    BY <1>1, <1>2
  <1>4. PICK n \in Nat : n = Len(l)
    BY <1>2
  <1>5. n = 0
    <2>1. CASE n > 0
      <3>1. 1 \in 1..n
        BY <2>1
      <3> QED
        BY <1>3, <1>4, <3>1 DEF Holds
    <2> QED
      BY <2>1
  <1>6. Without(ids) \in Seq(Patches) /\ Len(Without(ids)) = 0
    BY <1>2, <1>4, <1>5
  <1> HIDE DEF Patches
  <1> QED
    BY <1>6, EmptySeq

-----------------------------------------------------------------------------
(* Lists of patches, the FPGA, and what the two have in common.            *)

Cells == [at : Nat, bytes : Seq(AnyByte)]

\* Bytes of the image are anywhere, others where the user has chosen them.
OwnPatch(p) ==
    \A k \in 1..Len(p.bytes) :
        p.bytes[k] # "orig" => <<p.at + k - 1, p.bytes[k]>> \in Given

Own(ps) == \A i \in 1..Len(ps) : OwnPatch(ps[i])

SameCells(xs, ys) ==
    /\ Len(xs) = Len(ys)
    /\ \A i \in 1..Len(xs) : xs[i].at = ys[i].at /\ xs[i].bytes = ys[i].bytes

LEMMA OwnBytes ==
    ASSUME NEW ps, Own(ps), NEW b \in BytesOf(ps), b[2] # "orig"
    PROVE  b \in Given
  <1>1. PICK i \in 1..Len(ps) :
            b \in {<<ps[i].at + k - 1, ps[i].bytes[k]>> :
                      k \in 1..Len(ps[i].bytes)}
    BY DEF BytesOf
  <1>2. PICK k \in 1..Len(ps[i].bytes) :
            b = <<ps[i].at + k - 1, ps[i].bytes[k]>>
    BY <1>1
  <1>3. OwnPatch(ps[i])
    BY DEF Own
  <1> QED
    BY <1>2, <1>3 DEF OwnPatch

LEMMA SameBytes ==
    ASSUME NEW xs, NEW ys, SameCells(xs, ys)
    PROVE  BytesOf(xs) \subseteq BytesOf(ys)
  <1> SUFFICES ASSUME NEW b \in BytesOf(xs)
               PROVE  b \in BytesOf(ys)
    OBVIOUS
  <1>1. PICK i \in 1..Len(xs) :
            b \in {<<xs[i].at + k - 1, xs[i].bytes[k]>> :
                      k \in 1..Len(xs[i].bytes)}
    BY DEF BytesOf
  <1>2. /\ i \in 1..Len(ys)
        /\ b \in {<<ys[i].at + k - 1, ys[i].bytes[k]>> :
                     k \in 1..Len(ys[i].bytes)}
    BY <1>1 DEF SameCells
  <1> QED
    BY <1>2 DEF BytesOf

LEMMA SameOwn ==
    ASSUME NEW xs, NEW ys, SameCells(xs, ys), Own(xs)
    PROVE  Own(ys)
  BY DEF SameCells, Own, OwnPatch

LEMMA ManualOwn ==
    ASSUME NEW p \in Manual
    PROVE  OwnPatch(p)
  <1>1. Len(<<p>>) = 1 /\ <<p>>[1] = p
    OBVIOUS
  <1>2. ASSUME NEW k \in 1..Len(p.bytes)
        PROVE  <<p.at + k - 1, p.bytes[k]>> \in BytesOf(<<p>>)
    <2>1. 1 \in 1..1
      OBVIOUS
    <2> QED
      BY <1>1, <2>1 DEF BytesOf
  <1> HIDE DEF BytesOf
  <1> QED
    BY <1>2 DEF OwnPatch, Given

LEMMA ContentsCells ==
    ASSUME NEW ps \in Seq(Patches)
    PROVE  /\ Contents(ps) \in Seq(Cells) /\ Len(Contents(ps)) = Len(ps)
           /\ SameCells(ps, Contents(ps)) /\ SameCells(Contents(ps), ps)
  <1>1. PICK n \in Nat : n = Len(ps)
    OBVIOUS
  <1>2. ASSUME NEW i \in 1..n
        PROVE  /\ Content(ps[i]) \in Cells
               /\ Content(ps[i]).at = ps[i].at
               /\ Content(ps[i]).bytes = ps[i].bytes
    <2>1. PICK p \in Patches : p = ps[i]
      BY <1>1
    <2>2. p.at \in Nat /\ p.bytes \in Seq(AnyByte)
      BY DEF Patches
    <2> QED
      BY <2>1, <2>2 DEF Content, Cells
  <1>3. PICK cs : cs = Contents(ps)
    OBVIOUS
  <1>4. cs = [i \in 1..n |-> Content(ps[i])]
    BY <1>1, <1>3 DEF Contents
  <1> HIDE DEF Cells, Patches
  <1>5. cs \in Seq(Cells) /\ Len(cs) = n
    BY <1>2, <1>4
  <1>6. \A i \in 1..n : cs[i].at = ps[i].at /\ cs[i].bytes = ps[i].bytes
    BY <1>2, <1>4
  <1> QED
    BY <1>1, <1>3, <1>5, <1>6 DEF SameCells

LEMMA NumberedPatches ==
    ASSUME NEW cs \in Seq(Cells), Len(cs) <= MaxHw
    PROVE  /\ Numbered(cs) \in Seq(Patches) /\ Len(Numbered(cs)) = Len(cs)
           /\ SameCells(cs, Numbered(cs)) /\ SameCells(Numbered(cs), cs)
           /\ \A i \in 1..Len(cs) : Numbered(cs)[i].id = i - 1
  <1>1. PICK n \in Nat : n = Len(cs)
    OBVIOUS
  <1>2. n <= 16
    BY <1>1, GuiAssumption
  <1> DEFINE e(i) == [id |-> i - 1, at |-> cs[i].at, bytes |-> cs[i].bytes]
  <1>3. ASSUME NEW i \in 1..n
        PROVE  e(i) \in Patches
    <2>1. PICK c \in Cells : c = cs[i]
      BY <1>1
    <2>2. c.at \in Nat /\ c.bytes \in Seq(AnyByte) /\ i - 1 \in 0..15
      BY <1>2 DEF Cells
    <2> QED
      BY <2>1, <2>2 DEF Patches
  <1>4. \A i \in 1..n : /\ e(i).at = cs[i].at /\ e(i).bytes = cs[i].bytes
                        /\ e(i).id = i - 1
    OBVIOUS
  <1>5. PICK ps : ps = Numbered(cs)
    OBVIOUS
  <1>6. ps = [i \in 1..n |-> e(i)]
    BY <1>1, <1>5 DEF Numbered
  <1> HIDE DEF e, Cells, Patches
  <1>7. ps \in Seq(Patches) /\ Len(ps) = n
    BY <1>3, <1>6
  <1>8. \A i \in 1..n : /\ ps[i].at = cs[i].at /\ ps[i].bytes = cs[i].bytes
                        /\ ps[i].id = i - 1
    BY <1>4, <1>6
  <1> QED
    BY <1>1, <1>5, <1>7, <1>8 DEF SameCells

-----------------------------------------------------------------------------
(* The patches made of the modified bytes.                                 *)

\* What is at an address is a modified byte, one of a patch, or the image's.
LEMMA ByteValueIs ==
    ASSUME patches \in Seq(Patches), mods \in [Addrs -> Bytes], Own(patches),
           NEW a \in Nat
    PROVE  /\ ByteValue(a) \in AnyByte
           /\ a \in Modified => ByteValue(a) = mods[a]
           /\ ByteValue(a) # "orig" => <<a, ByteValue(a)>> \in Given
  <1>1. CASE a \in Modified
    <2>1. a \in Addrs /\ mods[a] \in Bytes /\ mods[a] # "orig"
      BY <1>1 DEF Modified
    <2>2. ByteValue(a) = mods[a]
      BY <1>1 DEF ByteValue
    <2>3. mods[a] \in Values /\ mods[a] \in AnyByte
      BY <2>1 DEF Bytes, AnyByte
    <2> QED
      BY <2>1, <2>2, <2>3 DEF Given
  <1>2. CASE a \notin Modified
    <2> DEFINE over == {i \in 1..Len(patches) : Covers(patches[i], a)}
    <2>1. CASE over = {}
      <3>1. ByteValue(a) = "orig"
        BY <1>2, <2>1 DEF ByteValue
      <3> QED
        BY <1>2, <3>1 DEF Bytes, AnyByte
    <2>2. CASE over # {}
      <3>1. over \in SUBSET Nat /\ IsFiniteSet(over)
        BY PositionsFinite
      <3>2. PICK m \in over : m = Min(over)
        <4> HIDE DEF over
        <4> QED
          BY <2>2, <3>1, MinLeast
      <3>3. PICK p \in Patches : p = patches[m]
        OBVIOUS
      <3>4. a \in p.at..(p.at + Len(p.bytes) - 1)
        BY <3>3 DEF Covers
      <3>5. p.at \in Nat /\ p.bytes \in Seq(AnyByte)
        BY DEF Patches
      <3>6. PICK k \in 1..Len(p.bytes) : k = a - p.at + 1
        BY <3>4, <3>5
      <3>7. ByteValue(a) = p.bytes[k]
        BY <1>2, <2>2, <3>2, <3>3, <3>6 DEF ByteValue
      <3>8. OwnPatch(p)
        BY <3>3 DEF Own
      <3>9. p.at + k - 1 = a
        BY <3>5, <3>6
      <3>10. p.bytes[k] # "orig" => <<a, p.bytes[k]>> \in Given
        BY <3>8, <3>9 DEF OwnPatch
      <3> QED
        BY <1>2, <3>5, <3>7, <3>10
    <2> QED
      BY <2>1, <2>2
  <1> QED
    BY <1>1, <1>2

LEMMA OptimizedPatches ==
    ASSUME patches \in Seq(Patches), mods \in [Addrs -> Bytes], Own(patches),
           Len(Groups) <= MaxAuto
    PROVE  /\ Optimized \in Seq(Patches) /\ Len(Optimized) = Len(Groups)
           /\ \A i \in 1..Len(Groups) : Optimized[i].id = i - 1
           /\ Own(Optimized)
           /\ {<<a, mods[a]>> : a \in Modified} \subseteq BytesOf(Optimized)
  <1>1. Grouped(Modified, Groups)
    BY GroupsGrouped
  <1>2. PICK gs \in Seq(Ranges) : gs = Groups
    BY <1>1 DEF Grouped
  <1>3. PICK n \in Nat : n = Len(gs)
    OBVIOUS
  <1>4. n <= 16 /\ Modified \in SUBSET Nat
    BY SMTT(30), <1>2, <1>3, GuiAssumption, ModifiedFinite
  <1>5. ASSUME NEW i \in 1..n
        PROVE  /\ gs[i].from \in Nat /\ gs[i].to \in Nat
               /\ gs[i].from <= gs[i].to
    <2>1. gs[i].from \in Modified /\ gs[i].to \in Modified
          /\ gs[i].from <= gs[i].to
      BY <1>1, <1>2, <1>3 DEF Grouped
    <2> QED
      BY <1>4, <2>1
  <1> DEFINE size(i) == gs[i].to - gs[i].from + 1
             run(i) == [k \in 1..size(i) |-> ByteValue(gs[i].from + k - 1)]
             e(i) == [id |-> i - 1, at |-> gs[i].from, bytes |-> run(i)]
  <1>6. PICK ps : ps = Optimized
    OBVIOUS
  <1>7. ps = [i \in 1..n |-> e(i)]
    BY <1>2, <1>3, <1>6 DEF Optimized
  <1>8. ASSUME NEW i \in 1..n
        PROVE  /\ size(i) \in Nat
               /\ run(i) \in Seq(AnyByte) /\ Len(run(i)) = size(i)
               /\ \A k \in 1..size(i) :
                     /\ gs[i].from + k - 1 \in Nat
                     /\ run(i)[k] = ByteValue(gs[i].from + k - 1)
    <2>1. PICK f \in Nat, s \in Nat : f = gs[i].from /\ s = size(i)
      <3>1. gs[i].from \in Nat
        BY <1>5
      <3>2. size(i) \in Nat
        <4>1. PICK f \in Nat, g \in Nat : f = gs[i].from /\ g = gs[i].to
          BY <1>5
        <4>2. f <= g
          BY <1>5, <4>1
        <4>3. g - f + 1 \in Nat
          BY <4>2
        <4> QED
          BY <4>1, <4>3
      <3> QED
        BY <3>1, <3>2
    <2>2. ASSUME NEW k \in 1..s
          PROVE  f + k - 1 \in Nat /\ ByteValue(f + k - 1) \in AnyByte
      <3>1. f + k - 1 \in Nat
        OBVIOUS
      <3> QED
        BY <3>1, ByteValueIs
    <2>3. run(i) = [k \in 1..s |-> ByteValue(f + k - 1)]
      BY <2>1
    <2>4. PICK r : r = run(i)
      OBVIOUS
    <2> HIDE DEF run, size
    <2>5. r = [k \in 1..s |-> ByteValue(f + k - 1)]
      BY <2>3, <2>4
    <2>6. r \in Seq(AnyByte) /\ Len(r) = s
      <3>1. r \in [1..s -> AnyByte]
        BY <2>2, <2>5
      <3> QED
        BY <3>1
    <2>7. \A k \in 1..s : r[k] = ByteValue(f + k - 1)
      BY <2>5
    <2> QED
      BY <2>1, <2>2, <2>4, <2>6, <2>7
  <1> HIDE DEF run, size
  <1>9. ASSUME NEW i \in 1..n
        PROVE  e(i) \in Patches
    <2>1. i - 1 \in 0..15
      BY <1>4
    <2> QED
      BY <1>5, <1>8, <2>1 DEF Patches
  <1>10. ASSUME NEW i \in 1..n
         PROVE  OwnPatch(e(i))
    <2> SUFFICES ASSUME NEW k \in 1..Len(run(i)), run(i)[k] # "orig"
                 PROVE  <<gs[i].from + k - 1, run(i)[k]>> \in Given
      BY DEF OwnPatch
    <2>1. k \in 1..size(i)
      BY <1>8
    <2>2. PICK a \in Nat : a = gs[i].from + k - 1
      BY <1>8, <2>1
    <2>3. run(i)[k] = ByteValue(a)
      BY <1>8, <2>1, <2>2
    <2> QED
      BY <2>2, <2>3, ByteValueIs
  <1>11. \A i \in 1..n : /\ e(i).id = i - 1 /\ e(i).at = gs[i].from
                         /\ e(i).bytes = run(i)
    OBVIOUS
  <1> HIDE DEF e, Patches
  <1>12. ps \in Seq(Patches) /\ Len(ps) = n
    BY <1>7, <1>9
  <1>13. Own(ps)
    BY <1>7, <1>10, <1>12 DEF Own
  <1>14. \A i \in 1..n : /\ ps[i].id = i - 1 /\ ps[i].at = gs[i].from
                         /\ ps[i].bytes = run(i)
    BY <1>7, <1>11
  <1>15. ASSUME NEW a \in Modified
         PROVE  <<a, mods[a]>> \in BytesOf(ps)
    <2>1. PICK i \in 1..n : gs[i].from <= a /\ a <= gs[i].to
      BY <1>1, <1>2, <1>3 DEF Grouped
    <2>2. a \in Nat /\ gs[i].from \in Nat /\ gs[i].to \in Nat
      BY <1>4, <1>5
    <2>3. PICK k \in 1..size(i) : k = a - gs[i].from + 1
      <3>1. PICK f \in Nat, g \in Nat : f = gs[i].from /\ g = gs[i].to
        BY <2>2
      <3>2. a \in Nat /\ f <= a /\ a <= g
        BY <2>1, <2>2, <3>1
      <3>3. a - f + 1 \in 1..(g - f + 1)
        BY <3>2
      <3> QED
        BY <3>1, <3>3 DEF size
    <2>4. gs[i].from + k - 1 = a
      BY SMTT(30), <2>2, <2>3
    <2>5. run(i)[k] = mods[a]
      BY <1>8, <2>2, <2>4, ByteValueIs
    <2>6. k \in 1..Len(ps[i].bytes) /\ ps[i].at + k - 1 = a
          /\ ps[i].bytes[k] = mods[a]
      BY <1>8, <1>14, <2>4, <2>5
    <2>7. i \in 1..Len(ps)
      BY <1>12
    <2> QED
      BY <2>6, <2>7 DEF BytesOf
  <1> HIDE DEF BytesOf, Own
  <1> QED
    BY <1>2, <1>3, <1>6, <1>12, <1>13, <1>14, <1>15

-----------------------------------------------------------------------------
(* Joining lists, and an upload of one.                                    *)

LEMMA JoinedLists ==
    ASSUME NEW xs \in Seq(Patches), NEW ys \in Seq(Patches)
    PROVE  /\ xs \o ys \in Seq(Patches)
           /\ Own(xs) /\ Own(ys) => Own(xs \o ys)
           /\ BytesOf(ys) \subseteq BytesOf(xs \o ys)
  <1>1. PICK n \in Nat, m \in Nat : n = Len(xs) /\ m = Len(ys)
    <2>1. Len(xs) \in Nat /\ Len(ys) \in Nat
      BY LenProperties
    <2> QED
      BY <2>1
  <1>2. PICK cs : cs = xs \o ys
    OBVIOUS
  <1>3. /\ cs \in Seq(Patches) /\ Len(cs) = n + m
        /\ \A i \in 1..n : cs[i] = xs[i]
        /\ \A i \in 1..m : cs[n + i] = ys[i]
    <2>1. xs \in Seq(Patches) /\ ys \in Seq(Patches)
      OBVIOUS
    <2>2. /\ xs \o ys \in Seq(Patches) /\ Len(xs \o ys) = n + m
          /\ \A i \in 1..(n + m) : (xs \o ys)[i] =
                IF i <= n THEN xs[i] ELSE ys[i - n]
      BY <1>1, <2>1, ConcatProperties
    <2>3. \A i \in 1..n : i \in 1..(n + m) /\ i <= n
      BY <1>1
    <2>4. \A i \in 1..m : /\ n + i \in 1..(n + m) /\ ~(n + i <= n)
                          /\ n + i - n = i
      BY <1>1
    <2> QED
      BY <1>2, <2>2, <2>3, <2>4
  <1>4. ASSUME Own(xs), Own(ys), NEW i \in 1..Len(cs)
        PROVE  OwnPatch(cs[i])
    <2>1. CASE i \in 1..n
      BY <1>1, <1>3, <1>4, <2>1 DEF Own
    <2>2. CASE i \notin 1..n
      <3>1. PICK j \in 1..m : i = n + j
        <4>1. i - n \in 1..m
          BY <1>3, <2>2
        <4> QED
          BY <4>1
      <3>2. cs[i] = ys[j] /\ OwnPatch(ys[j])
        BY <1>1, <1>3, <1>4, <3>1 DEF Own
      <3> QED
        BY <3>2
    <2> QED
      BY <2>1, <2>2
  <1>5. ASSUME NEW b \in BytesOf(ys)
        PROVE  b \in BytesOf(cs)
    <2>1. PICK i \in 1..m :
              b \in {<<ys[i].at + k - 1, ys[i].bytes[k]>> :
                        k \in 1..Len(ys[i].bytes)}
      BY <1>1 DEF BytesOf
    <2>2. n + i \in 1..Len(cs) /\ cs[n + i] = ys[i]
      BY <1>3
    <2>3. PICK j \in 1..Len(cs) : cs[j] = ys[i]
      BY <2>2
    <2>4. b \in {<<cs[j].at + k - 1, cs[j].bytes[k]>> :
                    k \in 1..Len(cs[j].bytes)}
      BY <2>1, <2>3
    <2> QED
      BY SMTT(30), <2>4 DEF BytesOf
  <1> QED
    BY <1>2, <1>3, <1>4, <1>5 DEF Own

\* Whatever fails, the list is the one that was uploaded, but for its ids.
LEMMA UploadLists ==
    ASSUME NEW ps \in Seq(Patches), Upload(ps)
    PROVE  /\ patches' \in Seq(Patches) /\ SameCells(ps, patches')
           /\ \/ patches' = ps
              \/ \A i \in 1..Len(ps) : patches'[i].id = i - 1
           /\ \/ fpga' = fpga
              \/ /\ fpga' \in Seq(Cells) /\ Len(fpga') <= MaxHw
                 /\ SameCells(ps, fpga')
  <1>1. SameCells(ps, ps)
    BY DEF SameCells
  <1>2. PICK cs \in Seq(Cells) : /\ cs = Contents(ps) /\ Len(cs) = Len(ps)
                                 /\ SameCells(ps, cs)
    BY ContentsCells
  <1>3. CASE Len(ps) <= MaxHw
    <2>1. PICK ns \in Seq(Patches) :
              /\ ns = Numbered(cs) /\ Len(ns) = Len(cs) /\ SameCells(cs, ns)
              /\ \A i \in 1..Len(cs) : ns[i].id = i - 1
      BY <1>2, <1>3, NumberedPatches
    <2>2. SameCells(ps, ns)
      BY <1>2, <2>1 DEF SameCells
    <2> HIDE DEF Patches, Cells, SameCells
    <2> QED
      BY <1>1, <1>2, <1>3, <2>1, <2>2 DEF Upload
  <1>4. CASE ~(Len(ps) <= MaxHw)
    <2> HIDE DEF Patches, Cells, SameCells
    <2> QED
      BY <1>1, <1>4 DEF Upload
  <1> QED
    BY <1>3, <1>4

-----------------------------------------------------------------------------
(* The inductive invariant.                                                *)

SafeList(ps) == ps \in Seq(Patches) /\ Own(ps)
SafeFpga(cs) == cs \in Seq(Cells) /\ Len(cs) <= MaxHw /\ Own(cs)

Lists == SafeList(patches) /\ SafeFpga(fpga) /\ mods \in [Addrs -> Bytes]

Flags ==
    /\ connected \in BOOLEAN /\ timer \in BOOLEAN /\ stale \in BOOLEAN
    /\ autoIds \subseteq 0..(MaxAuto - 1)
    /\ hand \in 0..MaxHand

Shown ==
    Editing /\ ~stale => \E i \in 1..Len(patches) : Key(patches[i]) = selected

\* While only bytes are edited, the list is what the hex viewer made last,
\* and it is numbered as the hex viewer remembers it.
Replaced ==
    hand = 0 =>
        /\ selected = NoKey
        /\ autoIds = 0..(Len(patches) - 1)
        /\ \A i \in 1..Len(patches) : patches[i].id = i - 1

IInv == Lists /\ Flags /\ Shown /\ Replaced

LEMMA ManualSafe ==
    ASSUME NEW p \in Manual
    PROVE  p \in Patches /\ OwnPatch(p)
  BY GuiAssumption, ManualOwn

LEMMA WithoutSafe ==
    ASSUME SafeList(patches), NEW ids
    PROVE  SafeList(Without(ids))
  <1> DEFINE S == {i \in 1..Len(patches) : patches[i].id \notin ids}
  <1>1. Holds(S, Without(ids))
    BY WithoutHolds DEF SafeList
  <1>2. \A i \in S : OwnPatch(patches[i])
    BY DEF SafeList, Own
  <1> HIDE DEF S
  <1> QED
    BY <1>1, <1>2 DEF SafeList, Own, Holds

LEMMA OptimizedSafe ==
    ASSUME Lists, Len(Groups) <= MaxAuto
    PROVE  SafeList(Optimized)
  BY OptimizedPatches DEF Lists, SafeList

LEMMA JoinedSafe ==
    ASSUME NEW xs, NEW ys, SafeList(xs), SafeList(ys)
    PROVE  SafeList(xs \o ys)
  BY JoinedLists DEF SafeList

LEMMA UploadSafe ==
    ASSUME NEW ps, SafeList(ps), SafeFpga(fpga), Upload(ps)
    PROVE  SafeList(patches') /\ SafeFpga(fpga')
  <1>1. patches' \in Seq(Patches) /\ SameCells(ps, patches')
    BY UploadLists DEF SafeList
  <1>2. \/ fpga' = fpga
        \/ /\ fpga' \in Seq(Cells) /\ Len(fpga') <= MaxHw
           /\ SameCells(ps, fpga')
    BY UploadLists DEF SafeList
  <1>3. Own(ps)
    BY DEF SafeList
  <1>4. SafeList(patches')
    BY <1>1, <1>3, SameOwn DEF SafeList
  <1>5. SafeFpga(fpga')
    BY <1>2, <1>3, SameOwn DEF SafeFpga
  <1> QED
    BY <1>4, <1>5

LEMMA PartSafe ==
    ASSUME NEW ps, SafeList(ps), NEW i \in 1..(Len(ps) + 1), NEW j \in 0..Len(ps)
    PROVE  SafeList(SubSeq(ps, i, j))
  <1>1. ps \in Seq(Patches) /\ Own(ps)
    BY DEF SafeList
  <1>2. PICK n \in Nat : n = Len(ps)
    BY <1>1, LenProperties
  <1>3. PICK qs : qs = SubSeq(ps, i, j)
    OBVIOUS
  <1>4. /\ qs \in Seq(Patches)
        /\ Len(qs) = IF i <= j THEN j - i + 1 ELSE 0
        /\ \A k \in 1..(j - i + 1) : qs[k] = ps[i + k - 1]
    BY <1>1, <1>3, SubSeqProperties
  <1>5. ASSUME NEW k \in 1..Len(qs)
        PROVE  OwnPatch(qs[k])
    <2>1. k \in 1..(j - i + 1) /\ i + k - 1 \in 1..n
      BY <1>2, <1>4
    <2> QED
      BY <1>1, <1>2, <1>4, <2>1 DEF Own
  <1> QED
    BY <1>3, <1>4, <1>5 DEF SafeList, Own

LEMMA FirstAlikeIn ==
    ASSUME patches \in Seq(Patches), NEW key, NEW i \in 1..Len(patches),
           Key(patches[i]) = key
    PROVE  FirstAlike(key) \in 1..Len(patches)
  <1> DEFINE S == {j \in 1..Len(patches) : Key(patches[j]) = key}
  <1>1. S \in SUBSET (1..Len(patches)) /\ S # {}
    OBVIOUS
  <1>2. S \in SUBSET Nat /\ IsFiniteSet(S)
    BY <1>1, PositionsFinite
  <1>3. FirstAlike(key) = Min(S)
    BY DEF FirstAlike
  <1> HIDE DEF S
  <1> QED
    BY <1>1, <1>2, <1>3, MinLeast

LEMMA EditSafe ==
    ASSUME SafeList(patches), NEW p \in Manual, NEW n \in 1..Len(patches)
    PROVE  SafeList([patches EXCEPT ![n] = p])
  <1>1. patches \in Seq(Patches) /\ Own(patches)
    BY DEF SafeList
  <1>2. p \in Patches /\ OwnPatch(p)
    BY ManualSafe
  <1>3. PICK qs : qs = [patches EXCEPT ![n] = p]
    OBVIOUS
  <1>4. /\ qs \in Seq(Patches) /\ Len(qs) = Len(patches)
        /\ \A j \in 1..Len(patches) : qs[j] = IF j = n THEN p ELSE patches[j]
    BY <1>1, <1>2, <1>3, ExceptSeq
  <1>5. Own(qs)
    BY <1>1, <1>2, <1>4 DEF Own
  <1> QED
    BY <1>3, <1>4, <1>5 DEF SafeList

LEMMA AddSafe ==
    ASSUME SafeList(patches), NEW p \in Manual
    PROVE  SafeList(Append(patches, p))
  <1>1. patches \in Seq(Patches) /\ Own(patches)
    BY DEF SafeList
  <1>2. p \in Patches /\ OwnPatch(p)
    BY ManualSafe
  <1>3. PICK n \in Nat : n = Len(patches)
    BY <1>1, LenProperties
  <1>4. PICK qs : qs = Append(patches, p)
    OBVIOUS
  <1>5. /\ qs \in Seq(Patches) /\ Len(qs) = n + 1
        /\ \A j \in 1..n : qs[j] = patches[j]
        /\ qs[n + 1] = p
    BY <1>1, <1>2, <1>3, <1>4, AppendProperties
  <1>6. \A j \in 1..(n + 1) : j \in 1..n \/ j = n + 1
    BY <1>3
  <1>7. Own(qs)
    BY <1>1, <1>2, <1>3, <1>5, <1>6 DEF Own
  <1> QED
    BY <1>4, <1>5, <1>7 DEF SafeList

LEMMA EmptySafe == SafeList(<<>>)
  BY EmptySeq DEF SafeList, Own

LEMMA RefreshSafe ==
    ASSUME SafeFpga(fpga)
    PROVE  SafeList(Numbered(fpga))
  BY NumberedPatches, SameOwn DEF SafeFpga, SafeList

LEMMA IInvInit ==
    ASSUME Init
    PROVE  IInv
  <1>1. patches = <<>> /\ Len(patches) = 0
    BY EmptySeq DEF Init
  <1>2. SafeFpga(fpga)
    <2>1. MaxHw \in Nat /\ 0 <= MaxHw /\ 1 <= MaxHw
      BY GuiAssumption
    <2>2. CASE fpga = <<>>
      BY <2>1, <2>2, EmptySeq DEF SafeFpga, Own
    <2>3. ASSUME NEW p \in Manual, fpga = <<Content(p)>>
          PROVE  SafeFpga(fpga)
      <3>1. p \in Patches /\ OwnPatch(p)
        BY ManualSafe
      <3>2. PICK c : c = Content(p)
        OBVIOUS
      <3>3. c \in Cells /\ c.at = p.at /\ c.bytes = p.bytes
        BY <3>1, <3>2 DEF Content, Cells, Patches
      <3>4. fpga \in Seq(Cells) /\ Len(fpga) = 1 /\ fpga[1] = c
        BY <2>3, <3>2, <3>3
      <3>5. OwnPatch(c)
        BY <3>1, <3>3 DEF OwnPatch
      <3> QED
        BY <2>1, <3>4, <3>5 DEF SafeFpga, Own
    <2> QED
      BY <2>2, <2>3 DEF Init
  <1>3. Lists
    <2>1. mods \in [Addrs -> Bytes]
      BY DEF Init, Bytes
    <2> QED
      BY <1>1, <1>2, <2>1, EmptySafe DEF Lists
  <1>4. Flags
    <2>1. MaxHand \in Nat
      BY GuiAssumption
    <2>2. autoIds \subseteq 0..(MaxAuto - 1) /\ hand \in 0..MaxHand
      BY <2>1 DEF Init
    <2>3. connected \in BOOLEAN /\ timer \in BOOLEAN /\ stale \in BOOLEAN
      BY Zenon DEF Init
    <2> QED
      BY <2>2, <2>3 DEF Flags
  <1>5. Shown
    BY DEF Init, Shown, Editing
  <1>6. Replaced
    BY <1>1 DEF Init, Replaced
  <1> QED
    BY <1>3, <1>4, <1>5, <1>6 DEF IInv

LEMMA ListsStep ==
    ASSUME IInv, [Next]_vars
    PROVE  Lists'
  <1> USE DEF Lists
  <1>0. Lists /\ SafeList(patches) /\ SafeFpga(fpga)
        /\ mods \in [Addrs -> Bytes]
    BY DEF IInv
  <1>1. ASSUME SafeList(patches'), SafeFpga(fpga'), mods' \in [Addrs -> Bytes]
        PROVE  Lists'
    BY <1>1 DEF SafeList, SafeFpga, Own, OwnPatch, Given, BytesOf
  <1> HIDE DEF Lists
  <1>2. CASE UNCHANGED vars \/ Connect \/ Disconnect \/ Cancel \/ AutoTooMany
             \/ \E i \in 1..Len(patches) : OpenEdit(i)
    BY <1>0, <1>1, <1>2
       DEF vars, Connect, Disconnect, Cancel, AutoTooMany, OpenEdit
  <1>3. CASE Refresh
    BY <1>0, <1>1, <1>3, RefreshSafe DEF Refresh
  <1>4. CASE ApplyAll
    BY <1>0, <1>1, <1>4, UploadSafe DEF ApplyAll
  <1>5. CASE Clear
    BY <1>0, <1>1, <1>5, UploadSafe, EmptySafe DEF Clear
  <1>6. ASSUME NEW p \in Manual, Add(p)
        PROVE  Lists'
    BY <1>0, <1>1, <1>6, AddSafe DEF Add
  <1>7. ASSUME NEW p \in Manual, Edit(p)
        PROVE  Lists'
    <2>1. FirstAlike(selected) \in 1..Len(patches)
      BY <1>0, <1>7, FirstAlikeIn DEF IInv, Shown, Edit, SafeList
    <2> QED
      BY <1>0, <1>1, <1>7, <2>1, EditSafe DEF Edit
  <1>8. ASSUME NEW p \in Manual, EditStale(p)
        PROVE  Lists'
    <2>1. ASSUME NEW i \in 1..Len(patches)
          PROVE  FirstAlike(Key(patches[i])) \in 1..Len(patches)
      BY <1>0, FirstAlikeIn DEF SafeList
    <2> QED
      BY <1>0, <1>1, <1>8, <2>1, EditSafe DEF EditStale
  <1>9. ASSUME NEW i \in 1..Len(patches), Remove(i)
        PROVE  Lists'
    <2>1. PICK n \in 1..Len(patches) : n = FirstAlike(Key(patches[i]))
      BY <1>0, FirstAlikeIn DEF SafeList
    <2>2. PICK m \in Nat : m = Len(patches)
      BY <1>0, LenProperties DEF SafeList
    <2>3. /\ 1 \in 1..(m + 1) /\ n - 1 \in 0..m
          /\ n + 1 \in 1..(m + 1) /\ m \in 0..m
      BY <2>1, <2>2
    <2>4. SafeList(SubSeq(patches, 1, n - 1))
          /\ SafeList(SubSeq(patches, n + 1, Len(patches)))
      BY <1>0, <2>2, <2>3, PartSafe
    <2>5. SafeList(patches')
      BY <1>9, <2>1, <2>4, JoinedSafe DEF Remove
    <2> QED
      BY <1>0, <1>1, <1>9, <2>5 DEF Remove
  <1>10. CASE \E a \in Addrs, v \in Bytes : SetByte(a, v)
    <2>1. mods' \in [Addrs -> Bytes]
      BY <1>0, <1>10 DEF SetByte
    <2> QED
      BY <1>0, <1>1, <1>10, <2>1 DEF SetByte
  <1>11. CASE ClearModifications
    <2>1. mods' \in [Addrs -> Bytes]
      BY <1>11 DEF ClearModifications, Bytes
    <2> QED
      BY <1>0, <1>1, <1>11, <2>1 DEF ClearModifications
  <1>12. CASE ApplyModifications
    BY <1>0, <1>1, <1>12, OptimizedSafe, JoinedSafe DEF ApplyModifications
  <1>13. CASE AutoClear
    BY <1>0, <1>1, <1>13, WithoutSafe DEF AutoClear
  <1>14. CASE AutoApply
    <2>1. PICK list : list = Without(autoIds) \o Optimized
      OBVIOUS
    <2>2. SafeList(list)
      BY <1>0, <1>14, <2>1, WithoutSafe, OptimizedSafe, JoinedSafe
         DEF AutoApply
    <2>3. \/ Upload(list)
          \/ patches' = list /\ UNCHANGED fpga
      BY <1>14, <2>1 DEF AutoApply
    <2>4. SafeList(patches') /\ SafeFpga(fpga')
      BY <1>0, <2>2, <2>3, UploadSafe
    <2> QED
      BY <1>0, <1>1, <1>14, <2>4 DEF AutoApply
  <1> QED
    BY <1>2, <1>3, <1>4, <1>5, <1>6, <1>7, <1>8, <1>9, <1>10, <1>11, <1>12,
       <1>13, <1>14 DEF Next

LEMMA FlagsStep ==
    ASSUME IInv, [Next]_vars
    PROVE  Flags'
  <1>1. Flags /\ {MaxAuto, MaxHand} \subseteq Nat
    BY GuiAssumption DEF IInv
  <1>2. CASE UNCHANGED vars
    BY <1>1, <1>2 DEF Flags, vars, editor
  <1>3. CASE Refresh \/ Clear \/ ApplyModifications
             \/ (\E p \in Manual : Add(p))
             \/ (\E i \in 1..Len(patches) : OpenEdit(i) \/ Remove(i))
    <2>1. hand < MaxHand /\ hand' = hand + 1
      BY <1>3 DEF Refresh, Clear, ApplyModifications, Add, OpenEdit, Remove,
                  ByHand
    <2>2. UNCHANGED <<connected, timer, autoIds, stale>>
      BY <1>3 DEF editor, Refresh, Clear, ApplyModifications, Add, OpenEdit,
                  Remove
    <2>3. hand' \in 0..MaxHand
      BY <1>1, <2>1 DEF Flags
    <2> QED
      BY <1>1, <2>2, <2>3 DEF Flags
  <1>4. CASE Connect \/ Disconnect \/ ApplyAll \/ Cancel \/ ClearModifications
             \/ AutoTooMany
             \/ (\E p \in Manual : Edit(p) \/ EditStale(p))
             \/ (\E a \in Addrs, v \in Bytes : SetByte(a, v))
    BY <1>1, <1>4 DEF Flags, editor, Connect, Disconnect, ApplyAll, Cancel,
                      ClearModifications, AutoTooMany, Edit, EditStale, SetByte
  <1>5. CASE AutoClear
    <2>1. stale' \in BOOLEAN
      BY <1>1, <1>5, Zenon DEF Flags, AutoClear, Refreshed, Editing
    <2> QED
      BY <1>1, <1>5, <2>1 DEF Flags, AutoClear
  <1>6. CASE AutoApply
    <2>1. PICK n \in Nat : n = Len(Groups)
      <3>1. Groups \in Seq(Ranges)
        BY GroupsGrouped DEF Grouped
      <3> QED
        BY <3>1, LenProperties
    <2>2. 0..(n - 1) \subseteq 0..(MaxAuto - 1)
      BY <1>1, <1>6, <2>1 DEF AutoApply
    <2>3. stale' \in BOOLEAN
      BY <1>1, <1>6, Zenon DEF Flags, AutoApply, Refreshed, Editing
    <2>4. autoIds' \subseteq 0..(MaxAuto - 1)
      BY <1>6, <2>1, <2>2 DEF AutoApply
    <2> QED
      BY <1>1, <1>6, <2>3, <2>4 DEF Flags, AutoApply
  <1> QED
    BY <1>2, <1>3, <1>4, <1>5, <1>6 DEF Next

LEMMA ShownStep ==
    ASSUME IInv, [Next]_vars
    PROVE  Shown'
  <1>1. Shown /\ SafeList(patches) /\ stale \in BOOLEAN
    BY DEF IInv, Lists, Flags
  <1>2. CASE UNCHANGED vars \/ AutoTooMany
    BY <1>1, <1>2 DEF Shown, Editing, vars, editor, AutoTooMany
  <1>3. CASE Connect \/ Disconnect \/ Refresh \/ ApplyAll \/ Clear
             \/ ClearModifications \/ ApplyModifications
             \/ (\E p \in Manual : Add(p))
             \/ (\E i \in 1..Len(patches) : Remove(i))
             \/ (\E a \in Addrs, v \in Bytes : SetByte(a, v))
    BY <1>3 DEF Shown, Editing, editor, Connect, Disconnect, Refresh,
                ApplyAll, Clear, ClearModifications, ApplyModifications, Add,
                Remove, SetByte, ByHand
  <1>4. CASE Cancel \/ (\E p \in Manual : Edit(p) \/ EditStale(p))
    BY <1>4 DEF Shown, Editing, Cancel, Edit, EditStale
  <1>5. CASE \E i \in 1..Len(patches) : OpenEdit(i)
    BY <1>5 DEF Shown, OpenEdit
  <1>6. CASE AutoClear
    <2>1. CASE autoIds = {} /\ Editing /\ ~stale
      <3>1. PICK i \in 1..Len(patches) : Key(patches[i]) = selected
        BY <1>1, <2>1 DEF Shown
      <3>2. Holds({j \in 1..Len(patches) : patches[j].id \notin {}}, patches')
        BY <1>1, <1>6, <2>1, WithoutHolds DEF AutoClear, SafeList
      <3>3. PICK k \in 1..Len(patches') : patches'[k] = patches[i]
        BY <3>2 DEF Holds
      <3> QED
        BY <1>6, <3>1, <3>3 DEF Shown, AutoClear, Key
    <2>2. CASE ~(autoIds = {} /\ Editing /\ ~stale)
      BY <1>1, <1>6, <2>2 DEF Shown, Editing, AutoClear, Refreshed
    <2> QED
      BY <2>1, <2>2
  <1>7. CASE AutoApply
    BY <1>1, <1>7 DEF Shown, Editing, AutoApply, Refreshed
  <1> QED
    BY <1>2, <1>3, <1>4, <1>5, <1>6, <1>7 DEF Next

LEMMA NoGroups ==
    ASSUME Modified = {}
    PROVE  Groups = <<>>
  BY GroupsGrouped DEF Grouped

\* The patches of one auto-apply go, those of the next come.
LEMMA AutoApplyList ==
    ASSUME IInv, AutoApply
    PROVE  \E list \in Seq(Patches) :
              /\ list = Without(autoIds) \o Optimized
              /\ SameCells(list, patches')
              /\ patches' = list \/ \A i \in 1..Len(list) : patches'[i].id = i - 1
              /\ fpga' = fpga \/ SameCells(list, fpga')
  <1>1. Lists
    BY DEF IInv
  <1>2. PICK list : list = Without(autoIds) \o Optimized
    OBVIOUS
  <1>3. SafeList(list)
    BY <1>1, <1>2, WithoutSafe, OptimizedSafe, JoinedSafe DEF AutoApply, Lists
  <1>4. list \in Seq(Patches)
    BY <1>3 DEF SafeList
  <1>5. CASE Upload(list)
    BY <1>2, <1>4, <1>5, UploadLists
  <1>6. CASE patches' = list /\ UNCHANGED fpga
    BY <1>2, <1>4, <1>6 DEF SameCells
  <1> QED
    BY <1>2, <1>5, <1>6 DEF AutoApply

\* While only bytes are edited, the whole list is of the last auto-apply.
LEMMA AllGo ==
    ASSUME SafeList(patches), Replaced, hand = 0
    PROVE  Without(autoIds) = <<>>
  <1>1. PICK n \in Nat : n = Len(patches)
    BY LenProperties DEF SafeList
  <1>2. \A i \in 1..n : patches[i].id = i - 1 /\ i - 1 \in 0..(n - 1)
    BY <1>1 DEF Replaced
  <1>3. autoIds = 0..(n - 1)
    BY <1>1 DEF Replaced
  <1> QED
    BY <1>1, <1>2, <1>3, WithoutAll DEF SafeList

LEMMA AutoApplyOnly ==
    ASSUME IInv, AutoApply, hand = 0
    PROVE  /\ Len(patches') = Len(Groups)
           /\ \A i \in 1..Len(patches') : patches'[i].id = i - 1
  <1>1. Lists /\ Replaced /\ Len(Groups) <= MaxAuto
    BY DEF IInv, AutoApply
  <1>2. patches \in Seq(Patches) /\ mods \in [Addrs -> Bytes] /\ Own(patches)
    BY <1>1 DEF Lists, SafeList
  <1>3. Without(autoIds) = <<>>
    BY <1>1, AllGo DEF Lists
  <1>4. PICK list \in Seq(Patches) :
            /\ list = Without(autoIds) \o Optimized
            /\ SameCells(list, patches')
            /\ patches' = list \/ \A i \in 1..Len(list) : patches'[i].id = i - 1
    BY AutoApplyList
  <1>5. /\ Optimized \in Seq(Patches) /\ Len(Optimized) = Len(Groups)
        /\ \A i \in 1..Len(Groups) : Optimized[i].id = i - 1
    BY <1>1, <1>2, OptimizedPatches
  <1>6. list = Optimized
    BY <1>3, <1>4, <1>5, ConcatEmptySeq
  <1> QED
    BY <1>4, <1>5, <1>6 DEF SameCells

LEMMA ReplacedStep ==
    ASSUME IInv, [Next]_vars
    PROVE  Replaced'
  <1>1. Replaced /\ SafeList(patches) /\ hand \in Nat
    BY DEF IInv, Lists, Flags
  <1>2. CASE UNCHANGED vars \/ Connect \/ Disconnect \/ ClearModifications
             \/ AutoTooMany \/ (\E a \in Addrs, v \in Bytes : SetByte(a, v))
    BY <1>1, <1>2 DEF Replaced, vars, editor, Connect, Disconnect,
                      ClearModifications, AutoTooMany, SetByte
  <1>3. CASE Refresh \/ Clear \/ ApplyModifications
             \/ (\E p \in Manual : Add(p))
             \/ (\E i \in 1..Len(patches) : OpenEdit(i) \/ Remove(i))
    <2>1. hand' = hand + 1
      BY <1>3 DEF Refresh, Clear, ApplyModifications, Add, OpenEdit, Remove,
                  ByHand
    <2> QED
      BY <1>1, <2>1 DEF Replaced
  <1>4. CASE Cancel \/ (\E p \in Manual : Edit(p) \/ EditStale(p))
    BY <1>1, <1>4 DEF Replaced, Editing, Cancel, Edit, EditStale
  <1>5. CASE ApplyAll
    <2>1. /\ SameCells(patches, patches')
          /\ \/ patches' = patches
             \/ \A i \in 1..Len(patches) : patches'[i].id = i - 1
      BY <1>1, <1>5, UploadLists DEF ApplyAll, SafeList
    <2>2. Len(patches') = Len(patches)
      BY <2>1 DEF SameCells
    <2>3. UNCHANGED <<selected, autoIds, hand>>
      BY <1>5 DEF ApplyAll, editor
    <2> QED
      BY <1>1, <2>1, <2>2, <2>3 DEF Replaced
  <1>6. CASE AutoClear
    <2>1. ASSUME hand = 0
          PROVE  patches' = <<>>
      <3>1. Without(autoIds) = <<>>
        BY <1>1, <2>1, AllGo
      <3> QED
        BY <1>6, <3>1 DEF AutoClear
    <2>2. autoIds' = {} /\ UNCHANGED <<selected, hand>>
      BY <1>6 DEF AutoClear
    <2>3. Len(<<>>) = 0 /\ 0..(0 - 1) = {} /\ 1..0 = {}
      OBVIOUS
    <2> QED
      BY <1>1, <2>1, <2>2, <2>3 DEF Replaced
  <1>7. CASE AutoApply
    <2>1. ASSUME hand = 0
          PROVE  /\ Len(patches') = Len(Groups)
                 /\ \A i \in 1..Len(patches') : patches'[i].id = i - 1
      BY <1>7, <2>1, AutoApplyOnly
    <2>2. autoIds' = 0..(Len(Groups) - 1) /\ UNCHANGED <<selected, hand>>
      BY <1>7 DEF AutoApply
    <2> QED
      BY <1>1, <2>1, <2>2 DEF Replaced
  <1> QED
    BY <1>2, <1>3, <1>4, <1>5, <1>6, <1>7 DEF Next

LEMMA IInvNext ==
    ASSUME IInv, [Next]_vars
    PROVE  IInv'
  BY ListsStep, FlagsStep, ShownStep, ReplacedStep DEF IInv

-----------------------------------------------------------------------------
(* What holds of the list and the FPGA.                                    *)

\* Every patch of the list and of the FPGA is one the hardware can take, the
\* ids fit their four bits after every renumbering, and the patch that an
\* open edit dialog shows is in the list as long as the table behind it has
\* not been refreshed (patch_editor.cpp keeps a pointer to it).
THEOREM TypeCorrect == Spec => []TypeOK
  <1>1. IInv => TypeOK
    BY DEF IInv, Lists, Flags, Shown, SafeList, SafeFpga, Cells, TypeOK
  <1> QED
    BY <1>1, IInvInit, IInvNext, PTL DEF Spec

\* Of the steps the timer's are the only ones that stop it.
LEMMA FiredSteps ==
    ASSUME IInv, [Next]_vars, Fired
    PROVE  AutoClear \/ AutoApply
  <1>1. timer /\ ~timer' /\ Len(Groups) <= MaxAuto
    BY DEF Fired
  <1>2. ~UNCHANGED vars /\ ~Connect /\ ~Disconnect /\ ~Refresh /\ ~ApplyAll
        /\ ~Clear /\ ~Cancel /\ ~ClearModifications /\ ~ApplyModifications
    BY <1>1, Zenon DEF vars, Connect, Disconnect, Refresh, ApplyAll, Clear,
                       Cancel, ClearModifications, ApplyModifications
  <1>3. /\ ~\E p \in Manual : Add(p) \/ Edit(p) \/ EditStale(p)
        /\ ~\E i \in 1..Len(patches) : OpenEdit(i) \/ Remove(i)
        /\ ~\E a \in Addrs, v \in Bytes : SetByte(a, v)
    BY <1>1, Zenon DEF Add, Edit, EditStale, OpenEdit, Remove, SetByte
  <1>4. ~AutoTooMany
    <2>1. Len(Groups) \in Nat /\ MaxAuto \in Nat
      <3>1. Groups \in Seq(Ranges)
        BY GroupsGrouped DEF Grouped
      <3> QED
        BY <3>1, LenProperties, GuiAssumption
    <2> QED
      BY <1>1, <2>1 DEF AutoTooMany
  <1> QED
    BY <1>2, <1>3, <1>4 DEF Next

\* While the user edits bytes only, the patches of one auto-apply replace
\* those of the one before (onAutoApplyTimeout of hex_viewer.cpp, the slots
\* of mainwindow.cpp), whether connected or not, whatever fails, and although
\* refreshPatchesFromFPGA numbers the list anew.
THEOREM AutoApplyReplacesAll == Spec => AutoApplyReplaces
  <1>1. ASSUME IInv, [Next]_vars
        PROVE  [Fired /\ hand = 0 => Len(patches') = Len(Groups)]_vars
    <2> SUFFICES ASSUME Fired, hand = 0
                 PROVE  Len(patches') = Len(Groups)
      OBVIOUS
    <2>1. CASE AutoClear
      <3>1. Without(autoIds) = <<>>
        BY <1>1, AllGo DEF IInv, Lists
      <3> QED
        BY <2>1, <3>1, NoGroups DEF AutoClear
    <2>2. CASE AutoApply
      BY <1>1, <2>2, AutoApplyOnly
    <2> QED
      BY <1>1, <2>1, <2>2, FiredSteps
  <1> QED
    BY <1>1, IInvInit, IInvNext, PTL DEF Spec, AutoApplyReplaces

\* When the timer fires, every modified byte is in the list with the value it
\* was given, and in the FPGA if that is changed; and no byte is where it does
\* not belong: through calculateOptimizedPatches and getByteValue, the exchange
\* of the patches, the upload that may fail and what is read back.
THEOREM AutoApplyIsComplete == Spec => AutoApplyComplete
  <1> DEFINE Showing(ps) == {<<a, mods[a]>> : a \in Modified} \subseteq BytesOf(ps)
  <1>1. ASSUME IInv, IInv', [Next]_vars, Fired
        PROVE  /\ Showing(patches')
               /\ fpga' # fpga => Showing(fpga')
               /\ \A b \in BytesOf(patches') \cup BytesOf(fpga') :
                     b[2] # "orig" => b \in Given
    <2>1. Own(patches') /\ Own(fpga')
      BY <1>1 DEF IInv, Lists, SafeList, SafeFpga
    <2>2. \A b \in BytesOf(patches') \cup BytesOf(fpga') :
             b[2] # "orig" => b \in Given
      BY <2>1, OwnBytes
    <2>3. CASE AutoClear
      BY <2>2, <2>3 DEF AutoClear
    <2>4. CASE AutoApply
      <3>1. PICK list \in Seq(Patches) :
                /\ list = Without(autoIds) \o Optimized
                /\ SameCells(list, patches')
                /\ fpga' = fpga \/ SameCells(list, fpga')
        BY <1>1, <2>4, AutoApplyList
      <3>2. Showing(Optimized) /\ Optimized \in Seq(Patches)
        BY <1>1, <2>4, OptimizedPatches
           DEF IInv, Lists, SafeList, AutoApply
      <3>3. Without(autoIds) \in Seq(Patches)
        BY <1>1, WithoutSafe DEF IInv, Lists, SafeList
      <3>4. Showing(list)
        BY <3>1, <3>2, <3>3, JoinedLists
      <3> QED
        BY <2>2, <3>1, <3>4, SameBytes
    <2> QED
      BY <1>1, <2>3, <2>4, FiredSteps
  <1>2. ASSUME IInv, IInv', [Next]_vars
        PROVE  [Fired =>
                  /\ Showing(patches')
                  /\ fpga' # fpga => Showing(fpga')
                  /\ \A b \in BytesOf(patches') \cup BytesOf(fpga') :
                        b[2] # "orig" => b \in Given]_vars
    BY <1>1, <1>2
  <1> QED
    BY <1>2, IInvInit, IInvNext, PTL DEF Spec, AutoApplyComplete

=============================================================================
