---------------------- MODULE NavigationCursorsProofs ----------------------
(***************************************************************************)
(* Proofs about NavigationCursors, for any source, its changes, budgets,   *)
(* callers and sizes of the two stores.  How far a walk has come (IsWalk)  *)
(* is said of what its cursor is bound to, a query and the name of a       *)
(* snapshot, and so holds of a cursor whoever uses it next, and of a call  *)
(* whatever becomes of its cursor and of the pinned snapshot; a page       *)
(* (IsPage) takes a walk on by what it shows.                              *)
(***************************************************************************)
EXTENDS NavigationCursors, SequenceTheorems, FiniteSetTheorems,
        WellFoundedInduction, TLAPS

-----------------------------------------------------------------------------
(* Numbers and lists *)

\* A set that has zero and with a number the next one has all up to a bound.
LEMMA CountingUp ==
    ASSUME NEW N \in Nat, NEW S, 0 \in S, \A n \in 0..N : n \in S /\ n < N => n + 1 \in S
    PROVE  \A n \in 0..N : n \in S
<1> DEFINE T == (0..N) \ S
<1> SUFFICES ASSUME T # {} PROVE FALSE
  OBVIOUS
<1>1. T \subseteq Nat
  OBVIOUS
<1>2. PICK m \in T : \A k \in T : ~(k < m)
  <2>1. PICK m \in T : \A k \in T : ~(<<k, m>> \in OpToRel(<, Nat))
    BY <1>1, NatLessThanWellFounded, WFMin
  <2>2. ASSUME NEW k \in T, k < m
        PROVE  FALSE
    <3>1. <<k, m>> \in Nat \X Nat
      BY <1>1
    <3>2. <<k, m>> \in OpToRel(<, Nat)
      BY <2>2, <3>1, Zenon DEF OpToRel
    <3> QED
      BY <2>1, <2>2, <3>2
  <2> QED
    BY <2>2
<1>3. m # 0 /\ m \in Nat /\ m <= N
  BY <1>2
<1>4. m - 1 \in 0..N /\ m - 1 < m /\ m - 1 < N
  BY <1>3
<1>5. m - 1 \in S
  BY <1>2, <1>4
<1>6. (m - 1) + 1 \in S
  BY <1>4, <1>5
<1> QED
  BY <1>2, <1>3, <1>6

\* What the n-th member of a list adds to what was selected before it.
WithMember(s, list, S, n) == IF list[n] \in S THEN Append(s, list[n]) ELSE s

Selects(f, m, list, S) ==
    f = [n \in 0..m |-> IF n = 0 THEN << >> ELSE WithMember(f[n - 1], list, S, n)]

LEMMA SelectionExists ==
    ASSUME NEW m \in Nat, NEW list, NEW S
    PROVE  \E f : Selects(f, m, list, S)
<1> DEFINE T == {n \in Nat : \E f : Selects(f, n, list, S)}
<1>1. 0 \in T
  <2> DEFINE f == [n \in 0..0 |-> << >>]
  <2>1. Selects(f, 0, list, S)
    BY DEF Selects
  <2> QED
    BY <2>1
<1>2. ASSUME NEW n \in 0..m, n \in T
      PROVE  n + 1 \in T
  <2>1. PICK g : Selects(g, n, list, S)
    BY <1>2
  <2> DEFINE f == [i \in 0..n + 1 |-> IF i = n + 1 THEN WithMember(g[n], list, S, n + 1) ELSE g[i]]
             step(h) == [i \in 0..n + 1 |-> IF i = 0 THEN << >> ELSE WithMember(h[i - 1], list, S, i)]
  <2>2. \A i \in 0..n : g[i] = IF i = 0 THEN << >> ELSE WithMember(g[i - 1], list, S, i)
    BY <2>1 DEF Selects
  <2>3. ASSUME NEW i \in 0..n + 1
        PROVE  f[i] = step(f)[i]
    <3>1. CASE i = n + 1
      <4>1. i # 0 /\ i - 1 = n /\ n \in 0..n + 1 /\ n # n + 1
        BY <3>1
      <4> QED
        BY <3>1, <4>1
    <3>2. CASE i # n + 1
      <4>1. i \in 0..n /\ (i # 0 => i - 1 \in 0..n + 1 /\ i - 1 # n + 1)
        BY <3>2
      <4> QED
        BY <2>2, <3>2, <4>1
    <3> QED
      BY <3>1, <3>2
  <2>4. f = step(f)
    BY <2>3
  <2> HIDE DEF f
  <2>5. Selects(f, n + 1, list, S)
    BY <2>4 DEF Selects
  <2> QED
    BY <2>5
<1> HIDE DEF T
<1>3. \A n \in 0..m : n \in T
  BY <1>1, <1>2, CountingUp
<1>4. m \in T
  BY <1>3
<1> QED
  BY <1>4 DEF T

\* What has been selected of the first n members: those in the set, in their order.
Picked(s, n, list, D, S) ==
    /\ s \in Seq(D)
    /\ Len(s) <= n
    /\ \A j \in 1..Len(s) : \E k \in 1..n : s[j] = list[k] /\ list[k] \in S
    /\ \A k \in 1..n : list[k] \in S => \E j \in 1..Len(s) : s[j] = list[k]
    /\ \A i, j \in 1..Len(s) : i < j => \E a, b \in 1..n : a < b /\ s[i] = list[a] /\ s[j] = list[b]

LEMMA PickedNext ==
    ASSUME NEW D, NEW list \in Seq(D), NEW S, NEW n \in Nat, n < Len(list),
           NEW s, Picked(s, n, list, D, S)
    PROVE  Picked(WithMember(s, list, S, n + 1), n + 1, list, D, S)
<1>1. Len(s) \in Nat /\ Len(list) \in Nat /\ s \in Seq(D) /\ Len(s) <= n
  BY LenProperties DEF Picked
<1>2. n + 1 \in 1..Len(list) /\ list[n + 1] \in D /\ n + 1 # 0
  BY <1>1, ElementOfSeq
<1>3. \A k \in 1..n + 1 : k = n + 1 \/ k \in 1..n
  OBVIOUS
<1>4. \A k \in 1..n : k \in 1..n + 1 /\ k < n + 1
  OBVIOUS
<1>5. CASE list[n + 1] \notin S
  <2>1. WithMember(s, list, S, n + 1) = s
    BY <1>5 DEF WithMember
  <2>2. ASSUME NEW j \in 1..Len(s)
        PROVE  \E k \in 1..n + 1 : s[j] = list[k] /\ list[k] \in S
    <3>1. PICK k \in 1..n : s[j] = list[k] /\ list[k] \in S
      BY DEF Picked
    <3> QED
      BY <1>4, <3>1
  <2>3. ASSUME NEW k \in 1..n + 1, list[k] \in S
        PROVE  \E j \in 1..Len(s) : s[j] = list[k]
    BY <1>3, <1>5, <2>3 DEF Picked
  <2>4. ASSUME NEW i \in 1..Len(s), NEW j \in 1..Len(s), i < j
        PROVE  \E a, b \in 1..n + 1 : a < b /\ s[i] = list[a] /\ s[j] = list[b]
    <3>1. PICK a \in 1..n, b \in 1..n : a < b /\ s[i] = list[a] /\ s[j] = list[b]
      BY <2>4 DEF Picked
    <3> QED
      BY <1>4, <3>1
  <2>5. Len(s) <= n + 1
    BY <1>1
  <2>6. Picked(s, n + 1, list, D, S)
    BY <1>1, <2>2, <2>3, <2>4, <2>5 DEF Picked
  <2> QED
    BY <2>1, <2>6
<1>6. CASE list[n + 1] \in S
  <2> DEFINE t == Append(s, list[n + 1])
             m == Len(s) + 1
  <2>1. WithMember(s, list, S, n + 1) = t
    BY <1>6 DEF WithMember
  <2>2. /\ t \in Seq(D) /\ Len(t) = m /\ t[m] = list[n + 1]
        /\ \A j \in 1..Len(s) : t[j] = s[j]
    BY <1>1, <1>2, AppendProperties
  <2>3. /\ m \in Nat /\ m # 0 /\ m <= n + 1 /\ m \in 1..m
        /\ \A j \in 1..m : j = m \/ (j \in 1..Len(s) /\ j < m)
        /\ \A j \in 1..Len(s) : j \in 1..m /\ j < m
    BY <1>1
  <2> HIDE DEF t, m
  <2>4. ASSUME NEW j \in 1..m
        PROVE  \E k \in 1..n + 1 : t[j] = list[k] /\ list[k] \in S
    <3>1. CASE j = m
      BY <1>2, <1>6, <2>2, <3>1
    <3>2. CASE j # m
      <4>1. j \in 1..Len(s)
        BY <2>3, <3>2
      <4>2. PICK k \in 1..n : s[j] = list[k] /\ list[k] \in S
        BY <4>1 DEF Picked
      <4> QED
        BY <1>4, <2>2, <4>1, <4>2
    <3> QED
      BY <3>1, <3>2
  <2>5. ASSUME NEW k \in 1..n + 1, list[k] \in S
        PROVE  \E j \in 1..m : t[j] = list[k]
    <3>1. CASE k = n + 1
      BY <2>2, <2>3, <3>1
    <3>2. CASE k # n + 1
      <4>1. PICK j \in 1..Len(s) : s[j] = list[k]
        BY <1>3, <2>5, <3>2 DEF Picked
      <4> QED
        BY <2>2, <2>3, <4>1
    <3> QED
      BY <3>1, <3>2
  <2>6. ASSUME NEW i \in 1..m, NEW j \in 1..m, i < j
        PROVE  \E a, b \in 1..n + 1 : a < b /\ t[i] = list[a] /\ t[j] = list[b]
    <3>0. i \in 1..Len(s) /\ t[i] = s[i]
      BY <1>1, <2>2, <2>3, <2>6
    <3>1. CASE j = m
      <4>1. PICK a \in 1..n : s[i] = list[a]
        BY <3>0 DEF Picked
      <4>2. a \in 1..n + 1 /\ a < n + 1 /\ n + 1 \in 1..n + 1
        BY <1>4
      <4> QED
        BY <2>2, <3>0, <3>1, <4>1, <4>2
    <3>2. CASE j # m
      <4>1. j \in 1..Len(s) /\ t[j] = s[j]
        BY <2>2, <2>3, <3>2
      <4>2. PICK a \in 1..n, b \in 1..n : a < b /\ s[i] = list[a] /\ s[j] = list[b]
        BY <2>6, <3>0, <4>1 DEF Picked
      <4> QED
        BY <1>4, <3>0, <4>1, <4>2
    <3> QED
      BY <3>1, <3>2
  <2>7. Picked(t, n + 1, list, D, S)
    BY <2>2, <2>3, <2>4, <2>5, <2>6 DEF Picked
  <2> QED
    BY <2>1, <2>7
<1> QED
  BY <1>5, <1>6

\* The lists that Selected goes through.
LEMMA SelectionPicks ==
    ASSUME NEW D, NEW list \in Seq(D), NEW S
    PROVE  \E f : /\ Selects(f, Len(list), list, S)
                  /\ Selected(list, S) = f[Len(list)]
                  /\ \A n \in 0..Len(list) : Picked(f[n], n, list, D, S)
<1> DEFINE N == Len(list)
           f == CHOOSE g : Selects(g, N, list, S)
           T == {n \in Nat : n <= N => Picked(f[n], n, list, D, S)}
<1>1. N \in Nat
  BY LenProperties
<1>2. Selects(f, N, list, S)
  BY <1>1, SelectionExists
<1>3. Selected(list, S) = f[N]
  BY DEF Selected, Selects, WithMember
<1> HIDE DEF N, f
<1>4. 0 \in T
  <2>1. f[0] = << >>
    BY <1>1, <1>2 DEF Selects
  <2>2. << >> \in Seq(D) /\ Len(<< >>) = 0 /\ 1..0 = {}
    OBVIOUS
  <2>3. Picked(f[0], 0, list, D, S)
    BY <2>1, <2>2 DEF Picked
  <2> QED
    BY <2>3
<1>5. ASSUME NEW n \in 0..N, n \in T, n < N
      PROVE  n + 1 \in T
  <2>1. n \in Nat /\ n + 1 \in 0..N /\ n + 1 # 0 /\ (n + 1) - 1 = n
    BY <1>1, <1>5
  <2>2. f[n + 1] = WithMember(f[n], list, S, n + 1)
    BY <1>2, <2>1 DEF Selects
  <2>3. Picked(f[n], n, list, D, S)
    BY <1>1, <1>5
  <2>4. Picked(f[n + 1], n + 1, list, D, S)
    BY <1>5, <2>1, <2>2, <2>3, PickedNext DEF N
  <2> QED
    BY <2>1, <2>4
<1>6. \A n \in 0..N : n \in T
  <2> HIDE DEF T
  <2> QED
    BY <1>1, <1>4, <1>5, CountingUp
<1>7. \A n \in 0..N : Picked(f[n], n, list, D, S)
  BY <1>1, <1>6
<1> QED
  BY <1>2, <1>3, <1>7 DEF N
LEMMA SelectedPicks ==
    ASSUME NEW D, NEW list \in Seq(D), NEW S
    PROVE  Picked(Selected(list, S), Len(list), list, D, S)
<1>1. Len(list) \in 0..Len(list)
  BY LenProperties
<1> QED
  BY <1>1, SelectionPicks

LEMMA SelectedMembers ==
    ASSUME NEW D, NEW list \in Seq(D), NEW S
    PROVE  /\ Selected(list, S) \in Seq(D) /\ Len(Selected(list, S)) <= Len(list)
           /\ ToSet(Selected(list, S)) = ToSet(list) \cap S
<1> DEFINE s == Selected(list, S)
<1>1. Picked(s, Len(list), list, D, S)
  BY SelectedPicks
<1> HIDE DEF s
<1>2. s \in Seq(D) /\ DOMAIN s = 1..Len(s) /\ DOMAIN list = 1..Len(list)
  BY <1>1, LenProperties DEF Picked
<1>3. ASSUME NEW d \in ToSet(s)
      PROVE  d \in ToSet(list) \cap S
  <2>1. PICK j \in 1..Len(s) : d = s[j]
    BY <1>2 DEF ToSet
  <2>2. PICK k \in 1..Len(list) : s[j] = list[k] /\ list[k] \in S
    BY <1>1, <2>1 DEF Picked
  <2> QED
    BY <1>2, <2>1, <2>2 DEF ToSet
<1>4. ASSUME NEW d \in ToSet(list) \cap S
      PROVE  d \in ToSet(s)
  <2>1. PICK k \in 1..Len(list) : d = list[k] /\ list[k] \in S
    BY <1>2 DEF ToSet
  <2>2. PICK j \in 1..Len(s) : s[j] = list[k]
    BY <1>1, <2>1 DEF Picked
  <2> QED
    BY <1>2, <2>1, <2>2 DEF ToSet
<1>5. Len(s) <= Len(list)
  BY <1>1 DEF Picked
<1> QED
  BY <1>2, <1>3, <1>4, <1>5 DEF s

LEMMA FirstPart ==
    ASSUME NEW D, NEW list \in Seq(D), NEW n \in Nat
    PROVE  /\ FirstOf(list, n) \in Seq(D)
           /\ Len(FirstOf(list, n)) = Least(n, Len(list))
           /\ \A k \in 1..Least(n, Len(list)) : FirstOf(list, n)[k] = list[k]
           /\ n >= Len(list) => FirstOf(list, n) = list
           /\ ToSet(FirstOf(list, n)) \subseteq ToSet(list)
<1> DEFINE m == Least(n, Len(list))
           s == FirstOf(list, n)
<1>0. Len(list) \in Nat
  BY LenProperties
<1>1. Len(list) \in Nat /\ DOMAIN list = 1..Len(list)
  BY LenProperties
<1>2. m \in Nat /\ m <= Len(list) /\ (n >= Len(list) => m = Len(list))
  <2>1. CASE n < Len(list)
    BY <1>0, <2>1 DEF Least
  <2>2. CASE ~(n < Len(list))
    BY <1>0, <2>2 DEF Least
  <2> QED
    BY <2>1, <2>2
<1>3. s = SubSeq(list, 1, m)
  BY DEF FirstOf
<1> HIDE DEF m, s
<1>4. ASSUME NEW k \in 1..m
      PROVE  list[k] \in D /\ k \in 1..Len(list)
  <2>1. k \in 1..Len(list)
    BY <1>0, <1>2
  <2> QED
    BY <2>1, ElementOfSeq
<1>5. s \in Seq(D) /\ Len(s) = m /\ \A k \in 1..m : s[k] = list[k]
  BY <1>2, <1>3, <1>4, SubSeqProperties
<1>6. n >= Len(list) => s = list
  BY <1>1, <1>2, <1>3, SubSeqFull
<1>7. ToSet(s) \subseteq ToSet(list)
  <2>1. DOMAIN s = 1..m
    BY <1>5, LenProperties
  <2> QED
    BY <1>1, <1>4, <1>5, <2>1 DEF ToSet
<1> QED
  BY <1>5, <1>6, <1>7 DEF m, s

\* What is selected from the first members of a list comes first in what is
\* selected from all of it.
LEMMA SelectedOfFirst ==
    ASSUME NEW D, NEW list \in Seq(D), NEW S, NEW n \in Nat
    PROVE  \E m \in 0..Len(Selected(list, S)) :
              Selected(FirstOf(list, n), S) = FirstOf(Selected(list, S), m)
<1> DEFINE N == Len(list)
           short == FirstOf(list, n)
           M == Len(short)
<1>1. N \in Nat /\ short \in Seq(D) /\ M \in Nat /\ M <= N /\ \A k \in 1..M : short[k] = list[k]
  BY FirstPart, LenProperties DEF Least
<1>2. PICK f : /\ Selects(f, N, list, S) /\ Selected(list, S) = f[N]
               /\ \A k \in 0..N : Picked(f[k], k, list, D, S)
  BY SelectionPicks
<1>3. PICK g : Selects(g, M, short, S) /\ Selected(short, S) = g[M]
  BY <1>1, SelectionPicks
<1> HIDE DEF N, short, M
<1>4. \A k \in 0..N : f[k] = IF k = 0 THEN << >> ELSE WithMember(f[k - 1], list, S, k)
  BY <1>2 DEF Selects
<1>5. \A k \in 0..M : g[k] = IF k = 0 THEN << >> ELSE WithMember(g[k - 1], short, S, k)
  BY <1>3 DEF Selects
<1> DEFINE T == {k \in Nat : k <= M => g[k] = f[k]}
           s == f[M]
           Begins(t) == t \in Seq(D) /\ Len(s) <= Len(t) /\ \A j \in 1..Len(s) : t[j] = s[j]
           U == {k \in Nat : k \in M..N => Begins(f[k])}
<1>6. 0 \in T
  BY <1>1, <1>4, <1>5
<1>7. ASSUME NEW k \in 0..M, k \in T, k < M
      PROVE  k + 1 \in T
  <2>1. k + 1 \in 1..M /\ k + 1 \in 0..M /\ k + 1 \in 0..N /\ k + 1 # 0 /\ (k + 1) - 1 = k /\ k \in Nat
    BY <1>1, <1>7
  <2>2. g[k] = f[k] /\ short[k + 1] = list[k + 1]
    BY <1>1, <1>7, <2>1
  <2>3. g[k + 1] = WithMember(g[k], short, S, k + 1) /\ f[k + 1] = WithMember(f[k], list, S, k + 1)
    BY <1>4, <1>5, <2>1
  <2>4. g[k + 1] = f[k + 1]
    BY <2>2, <2>3 DEF WithMember
  <2> QED
    BY <2>1, <2>4
<1>8. M \in T
  <2> HIDE DEF T
  <2>1. \A k \in 0..M : k \in T
    BY <1>1, <1>6, <1>7, CountingUp
  <2> QED
    BY <1>1, <2>1
<1>9. Selected(short, S) = s
  BY <1>1, <1>3, <1>8
<1>10. s \in Seq(D) /\ Len(s) \in Nat
  <2>1. M \in 0..N
    BY <1>1
  <2> QED
    BY <1>2, <2>1, LenProperties DEF Picked
<1> HIDE DEF s
<1>11. 0 \in U
  <2>1. 0 \in M..N => M = 0
    BY <1>1
  <2>2. Begins(s)
    BY <1>10
  <2> QED
    BY <2>1, <2>2 DEF s
<1>12. ASSUME NEW k \in 0..N, k \in U, k < N
       PROVE  k + 1 \in U
  <2>1. k \in Nat /\ k + 1 \in Nat /\ k + 1 \in 0..N /\ k + 1 # 0 /\ (k + 1) - 1 = k
    BY <1>1, <1>12
  <2>2. SUFFICES ASSUME k + 1 \in M..N
                 PROVE  Begins(f[k + 1])
    BY <2>1
  <2>3. CASE k + 1 = M
    BY <1>10, <2>3 DEF s
  <2>4. CASE k + 1 # M
    <3>1. k \in M..N
      BY <1>1, <2>1, <2>2, <2>4
    <3>2. Begins(f[k])
      BY <1>12, <3>1
    <3>3. f[k + 1] = WithMember(f[k], list, S, k + 1)
      BY <1>4, <2>1
    <3>4. CASE list[k + 1] \notin S
      BY <3>2, <3>3, <3>4 DEF WithMember
    <3>5. CASE list[k + 1] \in S
      <4>1. f[k + 1] = Append(f[k], list[k + 1])
        BY <3>3, <3>5 DEF WithMember
      <4>2. k + 1 \in 1..N
        BY <1>1, <2>1
      <4>3. list[k + 1] \in D
        BY <4>2, ElementOfSeq DEF N
      <4>4. /\ f[k + 1] \in Seq(D) /\ Len(f[k + 1]) = Len(f[k]) + 1
            /\ \A j \in 1..Len(f[k]) : f[k + 1][j] = f[k][j]
        BY <3>2, <4>1, <4>3, AppendProperties
      <4>5. Len(f[k]) \in Nat /\ \A j \in 1..Len(s) : j \in 1..Len(f[k])
        BY <1>10, <3>2, LenProperties
      <4>6. \A j \in 1..Len(s) : f[k + 1][j] = s[j]
        BY <3>2, <4>4, <4>5
      <4>7. Len(s) <= Len(f[k + 1])
        BY <1>10, <3>2, <4>4, <4>5
      <4> QED
        BY <4>4, <4>6, <4>7
    <3> QED
      BY <3>4, <3>5
  <2> QED
    BY <2>3, <2>4
<1>13. Begins(f[N])
  <2> HIDE DEF U
  <2>1. \A k \in 0..N : k \in U
    BY <1>1, <1>11, <1>12, CountingUp
  <2>2. N \in U /\ N \in M..N
    BY <1>1, <2>1
  <2> QED
    BY <2>2 DEF U
<1>14. s = FirstOf(f[N], Len(s))
  <2>1. Len(f[N]) \in Nat
    BY <1>13, LenProperties
  <2>2. Least(Len(s), Len(f[N])) = Len(s)
    BY <1>10, <1>13, <2>1 DEF Least
  <2>3. /\ FirstOf(f[N], Len(s)) \in Seq(D) /\ Len(FirstOf(f[N], Len(s))) = Len(s)
        /\ \A j \in 1..Len(s) : FirstOf(f[N], Len(s))[j] = f[N][j]
    BY <1>10, <1>13, <2>2, FirstPart
  <2> QED
    BY <1>10, <1>13, <2>3, SeqEqual
<1>15. Len(s) \in 0..Len(f[N])
  BY <1>10, <1>13, LenProperties
<1> QED
  BY <1>2, <1>9, <1>14, <1>15 DEF short

-----------------------------------------------------------------------------
(* The invariant *)

Pairs == Entities \X Entities
Reasons == {"none", "entity_limit", "relation_limit", "time_limit", "result_limit", "byte_limit"}

\* The reasons for which relations may be missing.
Cuts == {"relation_limit", "time_limit", "byte_limit"}

Ids == [generation: 1..Len(Listing), entities: Seq(Entities), relations: Seq(Pairs),
        budget: Nat \X Nat]

\* A snapshot that is not truncated is the source as it was in its generation.
IsWhole(id) ==
    /\ id.entities = Listing[id.generation]
    /\ id.relations = Relations(id.generation)
Snapshots == {s \in [id: Ids, reason: Reasons] : s.reason = "none" => IsWhole(s.id)}

\* A walk over a snapshot has shown what is wanted up to where it goes on, and
\* all relations of that unless it was told of a cut.
IsWalk(q, id, w) ==
    LET all == Wanted(q, id.entities)
    IN /\ w.offset <= Len(all)
       /\ w.seen = FirstOf(all, w.offset)
       /\ w.cuts \cap Cuts = {} => ToSet(Touching(id.relations, ToSet(w.seen))) \subseteq w.told

\* A page has what is wanted from where it begins, and with its relations unless
\* it says why not; a page without a reason is the last one of a whole snapshot.
Pages == [entities: Seq(Entities), relations: Seq(Pairs), reason: Reasons, tooLarge: BOOLEAN]
IsPage(q, s, offset, page) ==
    LET all == Wanted(q, s.id.entities)
        next == offset + Len(page.entities)
    IN /\ next <= Len(all)
       /\ page.entities = SubSeq(all, offset + 1, next)
       /\ page.reason = "none" => next = Len(all) /\ s.reason = "none"
       /\ page.reason \notin Cuts =>
            ToSet(Touching(s.id.relations, ToSet(page.entities))) \subseteq ToSet(page.relations)

Cursors == {x \in [token: Nat \ {NoToken}, query: Queries, snapshot: Ids, offset: Nat \ {0},
                   life: 0..Ttl, seen: Seq(Entities), told: SUBSET Pairs, cuts: SUBSET Reasons] :
               IsWalk(x.query, x.snapshot, x)}

Places == {"reading", "unpinned", "answering", "settling"}
Calls == [at: Places, query: Queries, token: Nat, offset: Nat, since: 1..Len(Listing),
          aborted: BOOLEAN, late: BOOLEAN, seen: Seq(Entities), told: SUBSET Pairs,
          cuts: SUBSET Reasons, snapshot: Snapshots \cup {NoSnapshot}, page: Pages \cup {NoPage}]

\* What a call has come to: a first page goes on from nothing, and a page that is
\* read is of the snapshot that was found for it.
Follows(k) ==
    /\ k.at = "reading" => k.offset = 0 /\ k.seen = << >>
    /\ k.at \in {"answering", "settling"} =>
         k.snapshot \in Snapshots /\ IsWalk(k.query, k.snapshot.id, k)
    /\ k.at = "settling" => k.page \in Pages /\ IsPage(k.query, k.snapshot, k.offset, k.page)

Walks == [token: {NoToken}] \cup [token: Nat, query: Queries]

PinsAre(s) ==
    /\ s \in Seq(Snapshots) /\ Len(s) <= MaxPins
    /\ \A i, j \in DOMAIN s : s[i].id = s[j].id => i = j
CursorsAre(s) ==
    /\ s \in Seq(Cursors) /\ Len(s) <= MaxCursors
    /\ \A i, j \in DOMAIN s : s[i].token = s[j].token => i = j
CallsAre ==
    /\ call \in [Callers -> Calls \cup {NoCall}]
    /\ \A c \in Callers : ~Idle(c) => Follows(call[c]) /\ call[c].since <= generation
Counted ==
    /\ generation \in 1..Len(Listing)
    /\ walks \in 0..MaxWalks /\ aborts \in 0..MaxAborts

IInv ==
    /\ Counted /\ PinsAre(pins) /\ CursorsAre(cursors)
    /\ walk \in [Callers -> Walks]
    /\ CallsAre
    /\ WalksAreComplete

-----------------------------------------------------------------------------
(* What is read *)

LEMMA Sources ==
    /\ Len(Listing) \in Nat /\ 1 \in 1..Len(Listing)
    /\ \A g \in 1..Len(Listing) : Listing[g] \in Seq(Entities) /\ Links[g] \in Seq(Pairs)
<1>1. /\ Listing \in Seq(Seq(Entities)) /\ Listing # << >>
      /\ Links \in Seq(Seq(Pairs)) /\ Len(Links) = Len(Listing)
  BY CursorsAssumption DEF Pairs
<1>2. Len(Listing) \in Nat \ {0}
  BY <1>1, EmptySeq
<1> QED
  BY <1>1, <1>2, ElementOfSeq

LEMMA QueriesAreTyped ==
    ASSUME NEW q \in Queries
    PROVE  /\ q.limit \in Nat \ {0} /\ q.entities \in Nat \ {0} /\ q.relations \in Nat \ {0}
           /\ q.bytes \in Nat
  BY CursorsAssumption

LEMMA TurnsAreNumbers ==
    ASSUME NEW D, NEW list \in Seq(D), NEW n \in Turns(list)
    PROVE  n \in Nat /\ n <= Len(list)
<1>1. Len(list) \in Nat
  BY LenProperties
<1> QED
  BY <1>1, CursorsAssumption DEF Turns

LEMMA ListsAreTyped ==
    /\ \A q, entities : entities \in Seq(Entities) =>
         /\ Wanted(q, entities) \in Seq(Entities)
         /\ Len(Wanted(q, entities)) \in Nat
    /\ \A links, S : links \in Seq(Pairs) =>
         /\ Touching(links, S) \in Seq(Pairs) /\ Within(links, S) \in Seq(Pairs)
         /\ Len(Touching(links, S)) \in Nat
         /\ ToSet(Touching(links, S)) = {l \in ToSet(links) : l[1] \in S \/ l[2] \in S}
         /\ ToSet(Within(links, S)) = {l \in ToSet(links) : l[1] \in S /\ l[2] \in S}
<1>1. ASSUME NEW q, NEW entities \in Seq(Entities)
      PROVE  Wanted(q, entities) \in Seq(Entities) /\ Len(Wanted(q, entities)) \in Nat
  <2>1. Wanted(q, entities) \in Seq(Entities)
    BY SelectedMembers DEF Wanted
  <2> QED
    BY <2>1, LenProperties
<1>2. ASSUME NEW links \in Seq(Pairs), NEW S
      PROVE  /\ Touching(links, S) \in Seq(Pairs) /\ Within(links, S) \in Seq(Pairs)
             /\ Len(Touching(links, S)) \in Nat
             /\ ToSet(Touching(links, S)) = {l \in ToSet(links) : l[1] \in S \/ l[2] \in S}
             /\ ToSet(Within(links, S)) = {l \in ToSet(links) : l[1] \in S /\ l[2] \in S}
  <2> DEFINE A == {l \in ToSet(links) : l[1] \in S \/ l[2] \in S}
             B == {l \in ToSet(links) : l[1] \in S /\ l[2] \in S}
  <2>1. /\ Selected(links, A) \in Seq(Pairs) /\ ToSet(Selected(links, A)) = ToSet(links) \cap A
        /\ Selected(links, B) \in Seq(Pairs) /\ ToSet(Selected(links, B)) = ToSet(links) \cap B
    BY SelectedMembers
  <2>2. ToSet(links) \cap A = A /\ ToSet(links) \cap B = B
    OBVIOUS
  <2>3. Touching(links, S) = Selected(links, A) /\ Within(links, S) = Selected(links, B)
    BY DEF Touching, Within
  <2> HIDE DEF A, B
  <2>4. Len(Touching(links, S)) \in Nat
    BY <2>1, <2>3, LenProperties
  <2> QED
    BY <2>1, <2>2, <2>3, <2>4 DEF A, B
<1> QED
  BY <1>1, <1>2

\* A snapshot that the provider has read.
LEMMA SnapshotIsRead ==
    ASSUME NEW g \in 1..Len(Listing), NEW q \in Queries,
           NEW records \in Turns(Listing[g]), NEW links \in Turns(Links[g])
    PROVE  ReadSnapshot(g, q, records, links) \in Snapshots
<1> DEFINE parsed == FirstOf(Listing[g], records)
           visible == FirstOf(parsed, q.entities)
           examined == IF records < Len(Listing[g]) THEN << >> ELSE FirstOf(Links[g], links)
           between == Within(examined, ToSet(visible))
           full == Len(between) > q.relations
           late == records < Len(Listing[g]) \/ (~full /\ links < Len(Links[g]))
           relations == FirstOf(between, q.relations)
           s == ReadSnapshot(g, q, records, links)
<1>1. /\ Listing[g] \in Seq(Entities) /\ Links[g] \in Seq(Pairs)
      /\ Len(Listing[g]) \in Nat /\ Len(Links[g]) \in Nat
  BY Sources, LenProperties
<1>2. records \in Nat /\ records <= Len(Listing[g]) /\ links \in Nat
  BY <1>1, TurnsAreNumbers
<1>3. q.entities \in Nat \ {0} /\ q.relations \in Nat \ {0}
  BY QueriesAreTyped
<1>4. /\ parsed \in Seq(Entities) /\ Len(parsed) \in Nat
      /\ records >= Len(Listing[g]) => parsed = Listing[g]
  BY <1>1, <1>2, FirstPart, LenProperties
<1> HIDE DEF parsed
<1>5. visible \in Seq(Entities) /\ (q.entities >= Len(parsed) => visible = parsed)
  BY <1>3, <1>4, FirstPart
<1> HIDE DEF visible
<1>6. /\ examined \in Seq(Pairs)
      /\ ~(records < Len(Listing[g])) /\ links >= Len(Links[g]) => examined = Links[g]
  <2>1. /\ FirstOf(Links[g], links) \in Seq(Pairs)
        /\ links >= Len(Links[g]) => FirstOf(Links[g], links) = Links[g]
    BY <1>1, <1>2, FirstPart
  <2>2. << >> \in Seq(Pairs)
    OBVIOUS
  <2> QED
    BY <2>1, <2>2
<1> HIDE DEF examined
<1>7. between \in Seq(Pairs) /\ Len(between) \in Nat
  BY <1>6, ListsAreTyped, LenProperties
<1> HIDE DEF between
<1>8. /\ relations \in Seq(Pairs)
      /\ q.relations >= Len(between) => relations = between
  BY <1>3, <1>7, FirstPart
<1> HIDE DEF relations
<1>9. s = [id |-> [generation |-> g, entities |-> visible, relations |-> relations,
                   budget |-> <<q.entities, q.relations>>],
           reason |-> CASE late -> "time_limit"
                        [] ~late /\ Len(parsed) > q.entities -> "entity_limit"
                        [] ~late /\ Len(parsed) <= q.entities /\ full -> "relation_limit"
                        [] OTHER -> "none"]
  BY DEF ReadSnapshot, parsed, visible, examined, between, relations
<1>10. s.id \in Ids
  BY <1>3, <1>5, <1>8, <1>9 DEF Ids
<1>11. s \in [id: Ids, reason: Reasons]
  <2>1. DOMAIN s = {"id", "reason"} /\ s = [id |-> s.id, reason |-> s.reason]
    BY <1>9
  <2>2. s.reason \in Reasons
    BY <1>9 DEF Reasons
  <2> QED
    BY <1>10, <2>1, <2>2
<1>12. ASSUME s.reason = "none"
       PROVE  IsWhole(s.id)
  <2>1. ~late /\ Len(parsed) <= q.entities /\ Len(between) <= q.relations
    BY <1>3, <1>4, <1>7, <1>9, <1>12
  <2>2. records >= Len(Listing[g]) /\ ~(records < Len(Listing[g]))
    BY <1>1, <1>2, <2>1
  <2>3. visible = Listing[g]
    BY <1>3, <1>4, <1>5, <2>1, <2>2
  <2>4. examined = Links[g]
    <3>1. ~(links < Len(Links[g]))
      BY <1>3, <1>7, <2>1
    <3> QED
      BY <1>1, <1>2, <1>6, <2>2, <3>1
  <2>5. relations = between
    BY <1>3, <1>7, <1>8, <2>1
  <2>6. between = Relations(g)
    BY <2>3, <2>4 DEF between, Relations
  <2> QED
    BY <1>9, <2>3, <2>5, <2>6 DEF IsWhole
<1> QED
  BY <1>11, <1>12 DEF Snapshots

\* A part of a part of a list.
LEMMA PartOfPart ==
    ASSUME NEW D, NEW list \in Seq(D), NEW first \in Nat, NEW last \in Nat, NEW n \in Nat,
           first <= last, last <= Len(list), n <= last - first
    PROVE  /\ SubSeq(list, first + 1, last) \in Seq(D)
           /\ Len(SubSeq(list, first + 1, last)) = last - first
           /\ SubSeq(SubSeq(list, first + 1, last), 1, n) = SubSeq(list, first + 1, first + n)
           /\ SubSeq(list, first + 1, first + n) \in Seq(D)
           /\ Len(SubSeq(list, first + 1, first + n)) = n
<1> DEFINE s == SubSeq(list, first + 1, last)
           r == SubSeq(list, first + 1, first + n)
           u == SubSeq(s, 1, n)
<1>1. Len(list) \in Nat
  BY LenProperties
<1>2. ASSUME NEW i \in (first + 1)..last
      PROVE  list[i] \in D
  <2>1. i \in 1..Len(list)
    BY <1>1
  <2> QED
    BY <2>1, ElementOfSeq
<1>3. /\ s \in Seq(D) /\ Len(s) = last - first
      /\ \A i \in 1..(last - first) : s[i] = list[first + i]
  <2>1. /\ s \in Seq(D)
        /\ Len(s) = IF first + 1 <= last THEN last - (first + 1) + 1 ELSE 0
        /\ \A i \in 1..(last - (first + 1) + 1) : s[i] = list[(first + 1) + i - 1]
    BY <1>2, SubSeqProperties
  <2>2. ASSUME NEW i \in 1..(last - first)
        PROVE  s[i] = list[first + i]
    <3>1. i \in 1..(last - (first + 1) + 1) /\ (first + 1) + i - 1 = first + i
      OBVIOUS
    <3> QED
      BY <2>1, <3>1
  <2> QED
    BY <2>1, <2>2
<1>4. /\ r \in Seq(D) /\ Len(r) = n
      /\ \A i \in 1..n : r[i] = list[first + i]
  <2>1. \A i \in (first + 1)..(first + n) : list[i] \in D
    BY <1>2
  <2>2. /\ r \in Seq(D)
        /\ Len(r) = IF first + 1 <= first + n THEN first + n - (first + 1) + 1 ELSE 0
        /\ \A i \in 1..(first + n - (first + 1) + 1) : r[i] = list[(first + 1) + i - 1]
    BY <2>1, SubSeqProperties
  <2>3. ASSUME NEW i \in 1..n
        PROVE  r[i] = list[first + i]
    <3>1. i \in 1..(first + n - (first + 1) + 1) /\ (first + 1) + i - 1 = first + i
      OBVIOUS
    <3> QED
      BY <2>2, <3>1
  <2>4. Len(r) = n
    BY <2>2
  <2> QED
    BY <2>2, <2>3, <2>4
<1>5. u \in Seq(D) /\ Len(u) = n /\ \A i \in 1..n : u[i] = s[i]
  <2> HIDE DEF s
  <2>1. Least(n, Len(s)) = n /\ FirstOf(s, n) = u
    BY <1>3 DEF FirstOf, Least
  <2> HIDE DEF u
  <2> QED
    BY <1>3, <2>1, FirstPart
<1>6. u = r
  <2>1. \A i \in 1..n : u[i] = r[i]
    BY <1>3, <1>4, <1>5
  <2> HIDE DEF u, r
  <2> QED
    BY <1>4, <1>5, <2>1, SeqEqual
<1> QED
  BY <1>3, <1>4, <1>6

\* What the facade makes of a snapshot is a page of it.
LEMMA ResultIsPage ==
    ASSUME NEW q \in Queries, NEW s \in Snapshots, NEW offset \in Nat,
           offset <= Len(Wanted(q, s.id.entities)), NEW turns \in Nat, NEW links \in Nat
    PROVE  LET result == Result(q, s, offset, turns, links)
           IN /\ result.entities \in Seq(Entities) /\ result.relations \in Seq(Pairs)
              /\ result.reason \in Reasons
              /\ IsPage(q, s, offset, result)
<1> DEFINE entities == s.id.entities
           all == Wanted(q, entities)
           matches == Wanted(q, FirstOf(entities, turns))
           last == Least(Len(matches), offset + q.limit)
           more == Len(matches) > offset + q.limit
           timed == ~more /\ turns < Len(s.id.entities)
           page == SubSeq(matches, offset + 1, last)
           examined == IF timed THEN << >> ELSE FirstOf(s.id.relations, links)
           touching == Touching(examined, ToSet(page))
           full == Len(touching) >= q.relations
           result == Result(q, s, offset, turns, links)
<1>1. /\ entities \in Seq(Entities) /\ s.id.relations \in Seq(Pairs) /\ s.reason \in Reasons
      /\ Len(entities) \in Nat /\ Len(s.id.relations) \in Nat
  BY LenProperties DEF Snapshots, Ids
<1>2. q.limit \in Nat \ {0} /\ q.relations \in Nat \ {0}
  BY QueriesAreTyped
<1>3. all \in Seq(Entities) /\ Len(all) \in Nat /\ offset <= Len(all)
  BY <1>1, ListsAreTyped
<1>4. PICK m \in 0..Len(all) : matches = FirstOf(all, m)
  BY <1>1, SelectedOfFirst DEF Wanted
<1>5. turns >= Len(entities) => matches = all
  BY <1>1, FirstPart
<1>6. result = [entities |-> page,
                relations |-> FirstOf(touching, q.relations),
                reason |-> CASE full -> "relation_limit"
                     [] ~full /\ Len(examined) < Len(s.id.relations) -> "time_limit"
                     [] ~full /\ Len(examined) = Len(s.id.relations) /\ more -> "result_limit"
                     [] ~full /\ Len(examined) = Len(s.id.relations) /\ timed -> "time_limit"
                     [] OTHER -> s.reason]
  BY DEF Result
<1>7. Len(matches) = m /\ m \in Nat /\ m <= Len(all) /\ matches \in Seq(Entities)
      /\ matches = SubSeq(all, 1, m)
  <2>1. Least(m, Len(all)) = m
    BY <1>3, <1>4 DEF Least
  <2> HIDE DEF all, matches
  <2> QED
    BY <1>3, <1>4, <2>1, FirstPart DEF FirstOf
<1> HIDE DEF all, matches
<1>8. /\ page \in Seq(Entities) /\ Len(page) \in Nat /\ offset + Len(page) <= Len(all)
      /\ page = SubSeq(all, offset + 1, offset + Len(page))
      /\ m = Len(all) /\ ~more => offset + Len(page) = Len(all)
  <2>1. CASE m <= offset
    <3>1. last <= offset /\ last \in Nat
      BY <1>2, <1>7, <2>1 DEF Least
    <3>2. page = << >>
      BY <3>1, SubSeqEmpty
    <3>3. SubSeq(all, offset + 1, offset) = << >>
      BY SubSeqEmpty
    <3>4. Len(<< >>) = 0 /\ << >> \in Seq(Entities) /\ offset + 0 = offset
      OBVIOUS
    <3>5. Len(page) = 0 /\ page \in Seq(Entities) /\ offset + Len(page) = offset
      BY <3>2, <3>4
    <3>6. m = Len(all) => offset = Len(all)
      BY <1>3, <1>7, <2>1
    <3> HIDE DEF page, more
    <3> QED
      BY <1>3, <3>2, <3>3, <3>5, <3>6
  <2>2. CASE ~(m <= offset)
    <3>1. last \in Nat /\ offset < last /\ last <= m /\ (~more => last = m)
      <4>1. offset \in Nat /\ q.limit \in Nat /\ q.limit > 0 /\ offset < m
        BY <1>2, <1>7, <2>2
      <4>2. last = Least(m, offset + q.limit) /\ (more <=> m > offset + q.limit)
        BY <1>7
      <4> HIDE DEF last, more
      <4> QED
        BY <1>7, <4>1, <4>2 DEF Least
    <3> DEFINE n == last - offset
    <3>2. n \in Nat /\ offset <= last /\ last <= Len(matches) /\ n <= last - offset
          /\ offset + n = last
      BY <1>7, <3>1
    <3> HIDE DEF last
    <3>3. page \in Seq(Entities) /\ Len(page) = n
      BY <1>7, <3>1, <3>2, PartOfPart
    <3>4. page = SubSeq(all, offset + 1, last)
      <4>1. \A i \in 1..n : offset + i \in 1..m
        BY <1>7, <3>1, <3>2
      <4> DEFINE r == SubSeq(all, offset + 1, last)
      <4>2. r \in Seq(Entities) /\ Len(r) = n
        BY <1>3, <1>7, <3>1, <3>2, PartOfPart
      <4>3. ASSUME NEW i \in 1..n
            PROVE  page[i] = matches[offset + i] /\ r[i] = all[offset + i]
        <5>1. \A j \in (offset + 1)..last : j \in 1..Len(matches) /\ j \in 1..Len(all)
          BY <1>3, <1>7, <3>1
        <5>2. \A j \in (offset + 1)..last : matches[j] \in Entities /\ all[j] \in Entities
          BY <1>3, <1>7, <5>1, ElementOfSeq
        <5>3. i \in 1..(last - (offset + 1) + 1) /\ (offset + 1) + i - 1 = offset + i
          BY <3>1
        <5>4. page[i] = matches[(offset + 1) + i - 1]
          BY <3>1, <5>2, <5>3, SubSeqProperties
        <5>5. r[i] = all[(offset + 1) + i - 1]
          BY <3>1, <5>2, <5>3, SubSeqProperties
        <5> QED
          BY <5>3, <5>4, <5>5
      <4>4. \A j \in 1..m : matches[j] = all[j]
        <5>1. Least(m, Len(all)) = m
          BY <1>3, <1>7 DEF Least
        <5> QED
          BY <1>3, <1>4, <1>7, <5>1, FirstPart
      <4>5. \A i \in 1..n : page[i] = r[i]
        BY <4>1, <4>3, <4>4
      <4> HIDE DEF page, r
      <4> QED
        BY <3>3, <4>2, <4>5, SeqEqual DEF r
    <3>5. offset + Len(page) = last
      BY <3>2, <3>3
    <3>6. last <= Len(all)
      BY <1>7, <3>1
    <3> HIDE DEF page, more
    <3> QED
      BY <3>1, <3>2, <3>3, <3>4, <3>5, <3>6
  <2> QED
    BY <2>1, <2>2
<1> HIDE DEF page
<1>9. /\ examined \in Seq(Pairs) /\ Len(examined) \in Nat
      /\ Len(examined) <= Len(s.id.relations)
      /\ Len(examined) = Len(s.id.relations) => examined = s.id.relations
  <2>1. CASE timed
    <3>1. examined = << >>
      BY <2>1
    <3>2. << >> \in Seq(Pairs) /\ Len(<< >>) = 0
      OBVIOUS
    <3>3. Len(s.id.relations) = 0 => s.id.relations = << >>
      BY <1>1, EmptySeq
    <3>4. Len(examined) = 0 /\ examined \in Seq(Pairs)
      BY <3>1, <3>2
    <3> HIDE DEF examined, timed
    <3> QED
      BY <1>1, <3>1, <3>3, <3>4
  <2>2. CASE ~timed
    <3>1. examined = FirstOf(s.id.relations, links)
      BY <2>2
    <3>2. /\ examined \in Seq(Pairs) /\ Len(examined) = Least(links, Len(s.id.relations))
          /\ links >= Len(s.id.relations) => examined = s.id.relations
      BY <1>1, <3>1, FirstPart
    <3> HIDE DEF examined, timed
    <3> QED
      BY <1>1, <3>2 DEF Least
  <2> QED
    BY <2>1, <2>2
<1> HIDE DEF examined
<1>10. touching \in Seq(Pairs) /\ Len(touching) \in Nat
  BY <1>9, ListsAreTyped
<1>11. /\ FirstOf(touching, q.relations) \in Seq(Pairs)
       /\ ~full => FirstOf(touching, q.relations) = touching
  <2>1. ~full => q.relations >= Len(touching)
    BY <1>2, <1>10
  <2> HIDE DEF touching, full
  <2> QED
    BY <1>2, <1>10, <2>1, FirstPart
<1>12. result.reason \in Reasons
  BY <1>1, <1>6 DEF Reasons
<1>13. ASSUME result.reason = "none"
       PROVE  offset + Len(result.entities) = Len(all) /\ s.reason = "none"
  <2>1. ~full /\ ~(Len(examined) < Len(s.id.relations))
    BY <1>6, <1>13
  <2>2. Len(examined) = Len(s.id.relations)
    BY <1>1, <1>9, <2>1
  <2>3. ~more /\ ~timed /\ s.reason = "none"
    BY <1>6, <1>13, <2>1, <2>2
  <2>4. turns >= Len(entities)
    BY <1>1, <2>3
  <2>5. m = Len(all)
    BY <1>5, <1>7, <2>4
  <2> QED
    BY <1>6, <1>8, <2>3, <2>5
<1>14. ASSUME result.reason \notin Cuts
       PROVE  ToSet(Touching(s.id.relations, ToSet(result.entities))) \subseteq ToSet(result.relations)
  <2>1. ~full /\ ~(Len(examined) < Len(s.id.relations))
    BY <1>6, <1>14 DEF Cuts
  <2>2. examined = s.id.relations
    BY <1>1, <1>9, <2>1
  <2>3. result.relations = Touching(s.id.relations, ToSet(result.entities))
    BY <1>6, <1>11, <2>1, <2>2
  <2> QED
    BY <2>3
<1>15. /\ result.entities = page /\ result.entities \in Seq(Entities)
       /\ result.relations \in Seq(Pairs)
  BY <1>6, <1>8, <1>11
<1> HIDE DEF result, last, more, timed, full, touching
<1>16. IsPage(q, s, offset, result)
  BY <1>8, <1>13, <1>14, <1>15 DEF IsPage, all, entities
<1> QED
  BY <1>12, <1>15, <1>16 DEF result

-----------------------------------------------------------------------------
(* What fits into a response *)

\* A set of numbers up to a bound has a greatest one.
LEMMA GreatestExists ==
    ASSUME NEW L \in Nat, NEW S \in SUBSET (0..L), S # {}
    PROVE  \E n \in S : \A k \in S : k <= n
<1> DEFINE T == {n \in Nat : (\E k \in S : k >= n)}
<1> SUFFICES ASSUME \A n \in S : \E k \in S : k > n
             PROVE  FALSE
  <2>1. ASSUME ~(\E n \in S : \A k \in S : k <= n), NEW n \in S
        PROVE  \E k \in S : k > n
    <3>1. PICK k \in S : ~(k <= n)
      BY <2>1
    <3>2. k \in Nat /\ n \in Nat
      OBVIOUS
    <3> QED
      BY <3>1, <3>2
  <2> QED
    BY <2>1
<1>1. 0 \in T
  <2>1. PICK k : k \in S
    OBVIOUS
  <2>2. k \in 0..L
    BY <2>1
  <2>3. k >= 0
    BY <2>2
  <2> QED
    BY <2>1, <2>3
<1>2. ASSUME NEW n \in 0..(L + 1), n \in T
      PROVE  n + 1 \in T
  <2>1. PICK k \in S : k >= n
    BY <1>2
  <2>2. PICK j \in S : j > k
    OBVIOUS
  <2>3. j \in Nat /\ k \in Nat /\ n \in Nat
    OBVIOUS
  <2>4. j >= n + 1
    BY <2>1, <2>2, <2>3
  <2> QED
    BY <2>3, <2>4
<1>3. L + 1 \in T
  <2> HIDE DEF T
  <2>1. \A n \in 0..(L + 1) : n \in T
    BY <1>1, <1>2, CountingUp
  <2> QED
    BY <2>1
<1> QED
  BY <1>3

\* What a prefix of a page shows is a page, and can be told from the whole.
LEMMA PrefixIsPage ==
    ASSUME NEW q \in Queries, NEW s \in Snapshots, NEW offset \in Nat, NEW page,
           page.entities \in Seq(Entities), page.relations \in Seq(Pairs), page.reason \in Reasons,
           IsPage(q, s, offset, page), NEW n \in 0..Len(page.entities)
    PROVE  Prefix(page, n) \in Pages /\ IsPage(q, s, offset, Prefix(page, n))
<1> DEFINE all == Wanted(q, s.id.entities)
           entities == FirstOf(page.entities, n)
           short == Prefix(page, n)
           next == offset + Len(page.entities)
<1>1. s.id.entities \in Seq(Entities) /\ s.id.relations \in Seq(Pairs)
  BY DEF Snapshots, Ids
<1>2. all \in Seq(Entities) /\ Len(all) \in Nat
  BY <1>1, ListsAreTyped
<1>3. Len(page.entities) \in Nat /\ n \in Nat /\ n <= Len(page.entities)
  BY LenProperties
<1>4. next <= Len(all) /\ page.entities = SubSeq(all, offset + 1, next)
  BY DEF IsPage
<1> HIDE DEF all
<1>5. entities \in Seq(Entities) /\ Len(entities) = n
      /\ (n = Len(page.entities) => entities = page.entities)
  <2>1. Least(n, Len(page.entities)) = n
    BY <1>3 DEF Least
  <2> QED
    BY <1>3, <2>1, FirstPart
<1>6. entities = SubSeq(all, offset + 1, offset + n)
  <2>1. next \in Nat /\ offset <= next /\ n <= next - offset
    BY <1>3
  <2>2. SubSeq(SubSeq(all, offset + 1, next), 1, n) = SubSeq(all, offset + 1, offset + n)
    BY <1>2, <1>3, <1>4, <2>1, PartOfPart
  <2>3. Least(n, Len(page.entities)) = n
    BY <1>3 DEF Least
  <2>4. entities = SubSeq(page.entities, 1, n)
    BY <2>3 DEF FirstOf
  <2> QED
    BY <1>4, <2>2, <2>4
<1> HIDE DEF entities
<1>7. short = [entities |-> entities,
               relations |-> Touching(page.relations, ToSet(entities)),
               reason |-> IF n < Len(page.entities) THEN "byte_limit" ELSE page.reason,
               tooLarge |-> n = 0 /\ page.entities # << >>]
  BY DEF Prefix, entities
<1>8. Touching(page.relations, ToSet(entities)) \in Seq(Pairs)
  BY ListsAreTyped
<1>9. short \in Pages
  BY <1>5, <1>7, <1>8 DEF Pages, Reasons
<1> HIDE DEF short
<1>10. offset + n <= Len(all)
  BY <1>2, <1>3, <1>4
<1>11. ASSUME short.reason = "none"
       PROVE  offset + n = Len(all) /\ s.reason = "none"
  <2>1. n = Len(page.entities) /\ page.reason = "none"
    BY <1>3, <1>7, <1>11
  <2> QED
    BY <2>1 DEF IsPage, all
<1>12. ASSUME short.reason \notin Cuts
       PROVE  ToSet(Touching(s.id.relations, ToSet(short.entities))) \subseteq ToSet(short.relations)
  <2>1. n = Len(page.entities) /\ page.reason \notin Cuts
    BY <1>3, <1>7, <1>12 DEF Cuts
  <2>2. short.entities = page.entities
    BY <1>5, <1>7, <2>1
  <2>3. ToSet(Touching(s.id.relations, ToSet(page.entities))) \subseteq ToSet(page.relations)
    BY <2>1 DEF IsPage
  <2> DEFINE S == ToSet(page.entities)
  <2>4. /\ ToSet(Touching(s.id.relations, S)) = {l \in ToSet(s.id.relations) : l[1] \in S \/ l[2] \in S}
        /\ ToSet(Touching(page.relations, S)) = {l \in ToSet(page.relations) : l[1] \in S \/ l[2] \in S}
    BY <1>1, ListsAreTyped
  <2>5. short.relations = Touching(page.relations, S)
    BY <1>5, <1>7, <2>1
  <2> HIDE DEF S
  <2> QED
    BY <2>2, <2>3, <2>4, <2>5 DEF S
<1>13. short.entities = entities /\ Len(short.entities) = n
  BY <1>5, <1>7
<1>14. IsPage(q, s, offset, short)
  BY <1>6, <1>10, <1>11, <1>12, <1>13 DEF IsPage, all
<1> QED
  BY <1>9, <1>14 DEF short

\* Nothing at all always fits.
LEMMA FittingCountFits ==
    ASSUME NEW page, page.entities \in Seq(Entities), page.relations \in Seq(Pairs),
           NEW bytes \in Nat
    PROVE  FittingCount(page, bytes) \in 0..Len(page.entities)
<1> DEFINE L == Len(page.entities)
           S == {n \in 0..L : Fits(page, n, bytes)}
<1>1. L \in Nat
  BY LenProperties
<1>2. 0 \in S
  <2>1. FirstOf(page.entities, 0) = << >>
    <3>1. Least(0, L) = 0
      BY <1>1 DEF Least
    <3> QED
      BY <3>1, SubSeqEmpty DEF FirstOf
  <2>2. /\ Prefix(page, 0).entities = << >>
        /\ Prefix(page, 0).relations = Touching(page.relations, ToSet(<< >>))
    BY <2>1 DEF Prefix
  <2>3. Len(Wanted([wanted |-> Large], << >>)) = 0
    <3>1. << >> \in Seq(Entities) /\ Len(<< >>) = 0
      OBVIOUS
    <3>2. Len(Wanted([wanted |-> Large], << >>)) <= 0
      BY <3>1, SelectedMembers DEF Wanted
    <3>3. Len(Wanted([wanted |-> Large], << >>)) \in Nat
      BY <3>1, ListsAreTyped
    <3> QED
      BY <3>2, <3>3
  <2>4. Touching(page.relations, ToSet(<< >>)) = << >>
    <3> DEFINE t == Touching(page.relations, ToSet(<< >>))
    <3>1. ToSet(<< >>) = {}
      BY DEF ToSet
    <3>2. t \in Seq(Pairs) /\ ToSet(t) = {}
      <4>1. t = Touching(page.relations, {})
        BY <3>1
      <4> HIDE DEF t
      <4>2. t \in Seq(Pairs) /\ ToSet(t) = {l \in ToSet(page.relations) : l[1] \in {} \/ l[2] \in {}}
        BY <4>1, ListsAreTyped
      <4> QED
        BY <4>2
    <3> HIDE DEF t
    <3>3. Len(t) \in Nat /\ DOMAIN t = 1..Len(t)
      BY <3>2, LenProperties
    <3>4. Len(t) = 0
      <4>1. DOMAIN t = {}
        BY <3>2 DEF ToSet
      <4>2. ~(1 \in 1..Len(t))
        BY <3>3, <4>1
      <4> QED
        BY <3>3, <4>2
    <3>5. t = << >>
      BY <3>2, <3>4, EmptySeq
    <3> QED
      BY <3>5 DEF t
  <2>5. Len(<< >>) = 0
    OBVIOUS
  <2>6. Bytes(Prefix(page, 0)) = 0
    <3> DEFINE short == Prefix(page, 0)
    <3>1. short.entities = << >> /\ short.relations = << >>
      BY <2>2, <2>4
    <3> HIDE DEF short
    <3>2. Bytes(short) = Len(<< >>) + Len(Wanted([wanted |-> Large], << >>)) + Len(<< >>)
      BY <3>1 DEF Bytes
    <3>3. Bytes(short) = 0
      BY <2>3, <2>5, <3>2
    <3> QED
      BY <3>3 DEF short
  <2>7. Fits(page, 0, bytes)
    BY <2>6 DEF Fits
  <2> QED
    BY <1>1, <2>7
<1>3. PICK n \in S : \A k \in S : k <= n
  <2> HIDE DEF L
  <2>1. S \in SUBSET (0..L) /\ S # {}
    BY <1>2
  <2> HIDE DEF S
  <2> QED
    BY <1>1, <2>1, GreatestExists
<1>4. ASSUME NEW k \in (n + 1)..L, Fits(page, k, bytes)
      PROVE  FALSE
  <2>1. n \in Nat /\ k \in 0..L /\ ~(k <= n)
    BY <1>1
  <2>2. k \in S
    BY <1>4, <2>1
  <2> HIDE DEF S
  <2> QED
    BY <1>3, <2>1, <2>2
<1>5. \E m \in 0..L : Fits(page, m, bytes) /\ \A k \in (m + 1)..L : ~Fits(page, k, bytes)
  BY <1>4
<1> QED
  BY <1>5 DEF FittingCount

LEMMA ResponseIsPage ==
    ASSUME NEW q \in Queries, NEW s \in Snapshots, NEW offset \in Nat,
           offset <= Len(Wanted(q, s.id.entities)), NEW turns \in Nat, NEW links \in Nat
    PROVE  LET page == FitResponse(Result(q, s, offset, turns, links), q.bytes)
           IN page \in Pages /\ IsPage(q, s, offset, page)
<1> DEFINE result == Result(q, s, offset, turns, links)
           n == FittingCount(result, q.bytes)
<1>1. /\ result.entities \in Seq(Entities) /\ result.relations \in Seq(Pairs)
      /\ result.reason \in Reasons
      /\ IsPage(q, s, offset, result)
  BY ResultIsPage
<1>2. q.bytes \in Nat
  BY QueriesAreTyped
<1> HIDE DEF result
<1>3. n \in 0..Len(result.entities)
  BY <1>1, <1>2, FittingCountFits
<1> HIDE DEF n
<1>4. Prefix(result, n) \in Pages /\ IsPage(q, s, offset, Prefix(result, n))
  BY <1>1, <1>3, PrefixIsPage
<1> QED
  BY <1>4 DEF FitResponse, result, n

\* A walk that is taken on by a page: it has shown what is wanted up to the end of
\* the page, and all relations of that unless one of its pages was cut.
LEMMA WalkGoesOn ==
    ASSUME NEW q \in Queries, NEW s \in Snapshots, NEW k, NEW page \in Pages,
           k.offset \in Nat, k.seen \in Seq(Entities),
           IsWalk(q, s.id, k), IsPage(q, s, k.offset, page),
           NEW w,
           w.offset = k.offset + Len(page.entities),
           w.seen = k.seen \o page.entities,
           w.told = k.told \cup ToSet(page.relations),
           w.cuts = k.cuts \cup ({page.reason} \ {"none", "result_limit"})
    PROVE  IsWalk(q, s.id, w) /\ w.seen \in Seq(Entities)
<1> DEFINE all == Wanted(q, s.id.entities)
           relations == s.id.relations
           next == k.offset + Len(page.entities)
<1>1. s.id.entities \in Seq(Entities) /\ relations \in Seq(Pairs)
  BY DEF Snapshots, Ids
<1>2. all \in Seq(Entities) /\ Len(all) \in Nat
  BY <1>1, ListsAreTyped
<1>3. page.entities \in Seq(Entities) /\ Len(page.entities) \in Nat
  BY LenProperties DEF Pages
<1>4. next <= Len(all) /\ page.entities = SubSeq(all, k.offset + 1, next)
  BY DEF IsPage
<1>5. k.seen = FirstOf(all, k.offset)
  BY DEF IsWalk
<1>6. w.seen \in Seq(Entities) /\ ToSet(w.seen) = ToSet(k.seen) \cup ToSet(page.entities)
  <2> DEFINE s1 == k.seen
             s2 == page.entities
             t == s1 \o s2
  <2>1. s1 \in Seq(Entities) /\ s2 \in Seq(Entities) /\ Len(s1) \in Nat /\ Len(s2) \in Nat
        /\ DOMAIN s1 = 1..Len(s1) /\ DOMAIN s2 = 1..Len(s2)
    BY <1>3, LenProperties
  <2>2. w.seen = t
    OBVIOUS
  <2> HIDE DEF s1, s2
  <2>3. /\ t \in Seq(Entities) /\ Len(t) = Len(s1) + Len(s2)
        /\ \A i \in 1..Len(s1) + Len(s2) : t[i] = IF i <= Len(s1) THEN s1[i] ELSE s2[i - Len(s1)]
    BY <2>1, ConcatProperties
  <2>4. DOMAIN t = 1..Len(s1) + Len(s2)
    BY <2>3, LenProperties
  <2> HIDE DEF t
  <2>5. ASSUME NEW d \in ToSet(t)
        PROVE  d \in ToSet(s1) \cup ToSet(s2)
    <3>1. PICK i \in 1..Len(s1) + Len(s2) : d = t[i]
      BY <2>4 DEF ToSet
    <3>2. i <= Len(s1) => i \in DOMAIN s1 /\ d = s1[i]
      BY <2>1, <2>3, <3>1
    <3>3. ~(i <= Len(s1)) => i - Len(s1) \in DOMAIN s2 /\ d = s2[i - Len(s1)]
      BY <2>1, <2>3, <3>1
    <3> QED
      BY <3>2, <3>3 DEF ToSet
  <2>6. ASSUME NEW d \in ToSet(s1) \cup ToSet(s2)
        PROVE  d \in ToSet(t)
    <3>1. CASE d \in ToSet(s1)
      <4>1. PICK i \in 1..Len(s1) : d = s1[i]
        BY <2>1, <3>1 DEF ToSet
      <4>2. i \in 1..Len(s1) + Len(s2) /\ i <= Len(s1)
        BY <2>1
      <4> QED
        BY <2>3, <2>4, <4>1, <4>2 DEF ToSet
    <3>2. CASE d \in ToSet(s2)
      <4>1. PICK i \in 1..Len(s2) : d = s2[i]
        BY <2>1, <3>2 DEF ToSet
      <4>2. Len(s1) + i \in 1..Len(s1) + Len(s2) /\ ~(Len(s1) + i <= Len(s1)) /\ (Len(s1) + i) - Len(s1) = i
        BY <2>1
      <4> QED
        BY <2>3, <2>4, <4>1, <4>2 DEF ToSet
    <3> QED
      BY <3>1, <3>2
  <2> QED
    BY <2>2, <2>3, <2>5, <2>6 DEF s1, s2
<1>7. w.seen = FirstOf(all, next)
  <2>1. k.offset <= Len(all) /\ k.offset \in Nat /\ next \in Nat /\ k.offset <= next
    BY <1>3 DEF IsWalk
  <2> HIDE DEF all
  <2>2. FirstOf(all, k.offset) = SubSeq(all, 1, k.offset) /\ FirstOf(all, next) = SubSeq(all, 1, next)
    BY <1>2, <1>4, <2>1 DEF FirstOf, Least
  <2>3. SubSeq(all, 1, k.offset) \o SubSeq(all, k.offset + 1, next) = SubSeq(all, 1, next)
    <3> DEFINE m == 1
               n == k.offset
    <3>1. m \in 1..Len(all) + 1 /\ n \in (m - 1)..Len(all) /\ next \in n..Len(all)
      BY <1>2, <1>4, <2>1
    <3> HIDE DEF m, n, next
    <3>2. SubSeq(all, m, n) \o SubSeq(all, n + 1, next) = SubSeq(all, m, next)
      BY <1>2, <3>1, ConcatAdjacentSubSeq
    <3> QED
      BY <3>2 DEF m, n
  <2> QED
    BY <1>4, <1>5, <2>2, <2>3
<1>8. ASSUME w.cuts \cap Cuts = {}
      PROVE  ToSet(Touching(relations, ToSet(w.seen))) \subseteq w.told
  <2>1. k.cuts \cap Cuts = {} /\ page.reason \notin Cuts
    BY <1>8 DEF Cuts
  <2>2. /\ ToSet(Touching(relations, ToSet(k.seen))) \subseteq k.told
        /\ ToSet(Touching(relations, ToSet(page.entities))) \subseteq ToSet(page.relations)
    BY <2>1 DEF IsWalk, IsPage
  <2>3. \A S : ToSet(Touching(relations, S)) = {l \in ToSet(relations) : l[1] \in S \/ l[2] \in S}
    BY <1>1, ListsAreTyped
  <2> HIDE DEF relations
  <2> QED
    BY <1>6, <2>2, <2>3
<1> QED
  BY <1>4, <1>6, <1>7, <1>8 DEF IsWalk

-----------------------------------------------------------------------------
(* The two stores *)

LEMMA NewestIsLast ==
    ASSUME NEW D, NEW s \in Seq(D), NEW n \in Nat
    PROVE  /\ Newest(s, n) \in Seq(D) /\ Len(Newest(s, n)) <= n
           /\ \E d \in Nat : \A i \in DOMAIN Newest(s, n) :
                 d + i \in DOMAIN s /\ Newest(s, n)[i] = s[d + i]
<1> DEFINE t == Newest(s, n)
<1>1. Len(s) \in Nat /\ DOMAIN s = 1..Len(s)
  BY LenProperties
<1>2. CASE ~(Len(s) > n)
  <2>1. t = s
    BY <1>2 DEF Newest
  <2>2. \A i \in DOMAIN s : 0 + i \in DOMAIN s /\ s[i] = s[0 + i]
    BY <1>1
  <2>3. Len(s) <= n
    BY <1>1, <1>2
  <2> HIDE DEF t
  <2>4. \E d \in Nat : \A i \in DOMAIN t : d + i \in DOMAIN t /\ t[i] = t[d + i]
    BY <2>1, <2>2
  <2> QED
    BY <2>1, <2>3, <2>4 DEF t
<1>3. CASE Len(s) > n
  <2> DEFINE d == Len(s) - n
  <2>1. d \in Nat /\ d + 1 \in Int /\ Len(s) = d + n
    BY <1>1, <1>3
  <2>2. t = SubSeq(s, d + 1, Len(s))
    BY <1>3 DEF Newest
  <2>3. ASSUME NEW i \in (d + 1)..Len(s)
        PROVE  s[i] \in D
    <3>1. i \in 1..Len(s)
      BY <1>1, <2>1
    <3> QED
      BY <3>1, ElementOfSeq
  <2> HIDE DEF d, t
  <2>4. /\ t \in Seq(D)
        /\ Len(t) = IF d + 1 <= Len(s) THEN Len(s) - (d + 1) + 1 ELSE 0
        /\ \A i \in 1..(Len(s) - (d + 1) + 1) : t[i] = s[(d + 1) + i - 1]
    BY <1>1, <2>1, <2>2, <2>3, SubSeqProperties
  <2>5. Len(t) = n
    BY <1>1, <2>1, <2>4
  <2>6. DOMAIN t = 1..n
    BY <2>4, <2>5, LenProperties
  <2>7. ASSUME NEW i \in DOMAIN t
        PROVE  d + i \in DOMAIN s /\ t[i] = s[d + i]
    <3>1. i \in 1..(Len(s) - (d + 1) + 1) /\ (d + 1) + i - 1 = d + i /\ d + i \in 1..Len(s)
      BY <1>1, <2>1, <2>6
    <3> QED
      BY <1>1, <2>4, <3>1
  <2>8. \E e \in Nat : \A i \in DOMAIN t : e + i \in DOMAIN s /\ t[i] = s[e + i]
    BY <2>1, <2>7
  <2>9. Len(t) <= n
    BY <2>5
  <2> QED
    BY <2>4, <2>8, <2>9 DEF t
<1> QED
  BY <1>2, <1>3

\* A snapshot that has been read is pinned, in the place of what was.
LEMMA PinKeeps ==
    ASSUME PinsAre(pins), NEW s \in Snapshots
    PROVE  PinsAre(Pin(s))
<1>1. /\ pins \in Seq(Snapshots) /\ Len(pins) \in Nat /\ DOMAIN pins = 1..Len(pins)
      /\ Len(pins) <= MaxPins
      /\ \A i, j \in DOMAIN pins : pins[i].id = pins[j].id => i = j
  BY LenProperties DEF PinsAre
<1>2. CASE Pinned(s.id) # {}
  <2> DEFINE t == [i \in DOMAIN pins |-> IF pins[i].id = s.id THEN s ELSE pins[i]]
  <2>1. Pin(s) = t
    BY <1>2 DEF Pin
  <2>2. \A i \in 1..Len(pins) : t[i] \in Snapshots
    BY <1>1, ElementOfSeq
  <2>3. t \in Seq(Snapshots) /\ Len(t) = Len(pins) /\ DOMAIN t = DOMAIN pins
    <3>1. t = [i \in 1..Len(pins) |-> t[i]]
      BY <1>1
    <3> HIDE DEF t
    <3>2. [i \in 1..Len(pins) |-> t[i]] \in Seq(Snapshots)
      BY <1>1, <2>2, IsASeq
    <3>3. t \in Seq(Snapshots)
      BY <3>1, <3>2
    <3>4. DOMAIN t = 1..Len(pins)
      BY <3>1
    <3>5. Len(t) = Len(pins)
      BY <1>1, <3>3, <3>4
    <3> QED
      BY <1>1, <3>3, <3>4, <3>5
  <2>4. \A i \in DOMAIN pins : t[i].id = pins[i].id
    OBVIOUS
  <2> HIDE DEF t
  <2>5. PinsAre(t)
    BY <1>1, <2>3, <2>4 DEF PinsAre
  <2> QED
    BY <2>1, <2>5
<1>3. CASE Pinned(s.id) = {}
  <2> DEFINE t == Append(pins, s)
             u == Newest(t, MaxPins)
  <2>1. /\ t \in Seq(Snapshots) /\ Len(t) = Len(pins) + 1 /\ DOMAIN t = 1..Len(pins) + 1
        /\ \A i \in 1..Len(pins) : t[i] = pins[i]
        /\ t[Len(pins) + 1] = s
    BY <1>1, AppendProperties, LenProperties
  <2>2. Pin(s) = u
    BY <1>3 DEF Pin
  <2> HIDE DEF t
  <2>3. \A i \in 1..Len(pins) : t[i].id # s.id
    BY <1>1, <1>3, <2>1 DEF Pinned
  <2>4. \A i \in DOMAIN t : i = Len(pins) + 1 \/ i \in 1..Len(pins)
    BY <1>1, <2>1
  <2>5. \A i, j \in DOMAIN t : t[i].id = t[j].id => i = j
    BY <1>1, <2>1, <2>3, <2>4
  <2>6. MaxPins \in Nat
    BY CursorsAssumption
  <2> HIDE DEF u
  <2>7. /\ u \in Seq(Snapshots) /\ Len(u) <= MaxPins
        /\ \E d \in Nat : \A i \in DOMAIN u : d + i \in DOMAIN t /\ u[i] = t[d + i]
    <3> DEFINE n == MaxPins
    <3>1. t \in Seq(Snapshots) /\ n \in Nat /\ u = Newest(t, n)
      BY <2>1, <2>6 DEF u
    <3> HIDE DEF n
    <3>2. /\ Newest(t, n) \in Seq(Snapshots) /\ Len(Newest(t, n)) <= n
          /\ \E d \in Nat : \A i \in DOMAIN Newest(t, n) :
               d + i \in DOMAIN t /\ Newest(t, n)[i] = t[d + i]
      BY <3>1, NewestIsLast
    <3> QED
      BY <3>1, <3>2 DEF n
  <2>8. PICK d \in Nat : \A i \in DOMAIN u : d + i \in DOMAIN t /\ u[i] = t[d + i]
    BY <2>7
  <2>9. ASSUME NEW i \in DOMAIN u, NEW j \in DOMAIN u, u[i].id = u[j].id
        PROVE  i = j
    <3>1. d + i = d + j
      BY <2>5, <2>8, <2>9
    <3>2. i \in Nat /\ j \in Nat
      BY <2>7, LenProperties
    <3> QED
      BY <3>1, <3>2
  <2>10. PinsAre(u)
    BY <2>7, <2>9 DEF PinsAre
  <2> QED
    BY <2>2, <2>10
<1> QED
  BY <1>2, <1>3

LEMMA WithoutKeeps ==
    ASSUME CursorsAre(cursors), NEW t
    PROVE  /\ CursorsAre(WithoutCursor(t))
           /\ ToSet(WithoutCursor(t)) \subseteq ToSet(cursors)
<1> DEFINE S == {x \in ToSet(cursors) : x.token # t}
           s == WithoutCursor(t)
<1>1. /\ cursors \in Seq(Cursors) /\ Len(cursors) \in Nat /\ DOMAIN cursors = 1..Len(cursors)
      /\ Len(cursors) <= MaxCursors
      /\ \A i, j \in DOMAIN cursors : cursors[i].token = cursors[j].token => i = j
  BY LenProperties DEF CursorsAre
<1>2. s = Selected(cursors, S)
  BY DEF WithoutCursor
<1> HIDE DEF S, s
<1>3. Picked(s, Len(cursors), cursors, Cursors, S) /\ ToSet(s) = ToSet(cursors) \cap S
  BY <1>1, <1>2, SelectedPicks, SelectedMembers
<1>4. s \in Seq(Cursors) /\ Len(s) \in Nat /\ DOMAIN s = 1..Len(s) /\ Len(s) <= Len(cursors)
  BY <1>3, LenProperties DEF Picked
<1>5. ASSUME NEW i \in 1..Len(s), NEW j \in 1..Len(s), i < j, s[i].token = s[j].token
      PROVE  FALSE
  <2>1. PICK a \in 1..Len(cursors), b \in 1..Len(cursors) :
           a < b /\ s[i] = cursors[a] /\ s[j] = cursors[b]
    BY <1>3, <1>5 DEF Picked
  <2>2. a = b
    BY <1>1, <1>5, <2>1
  <2> QED
    BY <2>1, <2>2
<1>6. \A i, j \in DOMAIN s : s[i].token = s[j].token => i = j
  <2>1. \A i, j \in 1..Len(s) : i < j \/ j < i \/ i = j
    BY <1>4
  <2> QED
    BY <1>4, <1>5, <2>1
<1>7. MaxCursors \in Nat
  BY CursorsAssumption
<1>8. Len(s) <= MaxCursors
  BY <1>1, <1>4, <1>7
<1>9. CursorsAre(s)
  BY <1>4, <1>6, <1>8 DEF CursorsAre
<1> QED
  BY <1>3, <1>9 DEF s

\* A cursor with a new token is put in.
LEMMA PutKeeps ==
    ASSUME NEW s, CursorsAre(s), NEW x \in Cursors, \A y \in ToSet(s) : y.token # x.token
    PROVE  CursorsAre(Newest(Append(s, x), MaxCursors))
<1> DEFINE t == Append(s, x)
           u == Newest(t, MaxCursors)
<1>1. /\ s \in Seq(Cursors) /\ Len(s) \in Nat /\ DOMAIN s = 1..Len(s)
      /\ \A i, j \in DOMAIN s : s[i].token = s[j].token => i = j
  BY LenProperties DEF CursorsAre
<1>2. /\ t \in Seq(Cursors) /\ Len(t) = Len(s) + 1 /\ DOMAIN t = 1..Len(s) + 1
      /\ \A i \in 1..Len(s) : t[i] = s[i]
      /\ t[Len(s) + 1] = x
  BY <1>1, AppendProperties, LenProperties
<1> HIDE DEF t
<1>3. \A i \in 1..Len(s) : t[i].token # x.token
  BY <1>1, <1>2 DEF ToSet
<1>4. \A i \in DOMAIN t : i = Len(s) + 1 \/ i \in 1..Len(s)
  BY <1>1, <1>2
<1>5. \A i, j \in DOMAIN t : t[i].token = t[j].token => i = j
  BY <1>1, <1>2, <1>3, <1>4
<1>6. MaxCursors \in Nat
  BY CursorsAssumption
<1> HIDE DEF u
<1>7. /\ u \in Seq(Cursors) /\ Len(u) <= MaxCursors
      /\ \E d \in Nat : \A i \in DOMAIN u : d + i \in DOMAIN t /\ u[i] = t[d + i]
  <2> DEFINE n == MaxCursors
  <2>1. t \in Seq(Cursors) /\ n \in Nat /\ u = Newest(t, n)
    BY <1>2, <1>6 DEF u
  <2> HIDE DEF n
  <2>2. /\ Newest(t, n) \in Seq(Cursors) /\ Len(Newest(t, n)) <= n
        /\ \E d \in Nat : \A i \in DOMAIN Newest(t, n) :
             d + i \in DOMAIN t /\ Newest(t, n)[i] = t[d + i]
    BY <2>1, NewestIsLast
  <2> QED
    BY <2>1, <2>2 DEF n
<1>8. PICK d \in Nat : \A i \in DOMAIN u : d + i \in DOMAIN t /\ u[i] = t[d + i]
  BY <1>7
<1>9. ASSUME NEW i \in DOMAIN u, NEW j \in DOMAIN u, u[i].token = u[j].token
      PROVE  i = j
  <2>1. d + i = d + j
    BY <1>5, <1>8, <1>9
  <2>2. i \in Nat /\ j \in Nat
    BY <1>7, LenProperties
  <2> QED
    BY <2>1, <2>2
<1>10. CursorsAre(u)
  BY <1>7, <1>9 DEF CursorsAre
<1> QED
  BY <1>10 DEF t, u

LEMMA ImageIsFinite ==
    ASSUME NEW S, IsFiniteSet(S), NEW g, DOMAIN g = S
    PROVE  IsFiniteSet({g[x] : x \in S})
<1> DEFINE image == {g[x] : x \in S}
<1>1. [x \in S |-> g[x]] \in Surjection(S, image)
  BY DEF Surjection
<1> HIDE DEF image
<1>2. IsFiniteSet(image)
  BY <1>1, FS_Surjection
<1> QED
  BY <1>2 DEF image

\* There is a token that nobody has, and FreshToken is one.
LEMMA TokenIsFresh ==
    ASSUME CursorsAre(cursors), walk \in [Callers -> Walks], CallsAre
    PROVE  /\ FreshToken \in Nat \ {NoToken}
           /\ \A x \in ToSet(cursors) : x.token # FreshToken
<1> DEFINE kept == {cursors[i].token : i \in DOMAIN cursors}
           held == {walk[c].token : c \in Callers}
           busy == {d \in Callers : ~Idle(d)}
           asked == {call[c].token : c \in busy}
           used == kept \cup held \cup asked
           n == Cardinality(used)
<1>1. IsFiniteSet(kept)
  <2> DEFINE g == [i \in DOMAIN cursors |-> cursors[i].token]
             D == DOMAIN cursors
  <2>1. IsFiniteSet(D)
    BY LenProperties, FS_Interval DEF CursorsAre
  <2>2. DOMAIN g = D /\ kept = {g[i] : i \in D}
    OBVIOUS
  <2> HIDE DEF g, D, kept
  <2> QED
    BY <2>1, <2>2, ImageIsFinite
<1>2. IsFiniteSet(held)
  <2> DEFINE g == [c \in Callers |-> walk[c].token]
  <2>1. IsFiniteSet(Callers)
    BY CursorsAssumption
  <2>2. DOMAIN g = Callers /\ held = {g[c] : c \in Callers}
    OBVIOUS
  <2> HIDE DEF g, held
  <2> QED
    BY <2>1, <2>2, ImageIsFinite
<1>3. IsFiniteSet(asked)
  <2> DEFINE g == [c \in busy |-> call[c].token]
  <2>1. IsFiniteSet(busy)
    BY CursorsAssumption, FS_Subset
  <2>2. DOMAIN g = busy /\ asked = {g[c] : c \in busy}
    OBVIOUS
  <2> HIDE DEF g, busy, asked
  <2> QED
    BY <2>1, <2>2, ImageIsFinite
<1>4. IsFiniteSet(used)
  <2> HIDE DEF kept, held, asked
  <2>1. IsFiniteSet(kept \cup held)
    BY <1>1, <1>2, FS_Union
  <2> QED
    BY <1>3, <2>1, FS_Union
<1>5. FreshToken = CHOOSE t \in 1..(n + 1) : t \notin used
  BY DEF FreshToken
<1>6. \A x \in ToSet(cursors) : x.token \in used
  BY DEF ToSet
<1> HIDE DEF used
<1>7. n \in Nat
  BY <1>4, FS_CardinalityType
<1>8. \E t \in 1..(n + 1) : t \notin used
  <2> SUFFICES ASSUME 1..(n + 1) \subseteq used PROVE FALSE
    OBVIOUS
  <2>1. Cardinality(1..(n + 1)) <= n
    BY <1>4, FS_Subset
  <2>2. Cardinality(1..(n + 1)) = n + 1
    <3>1. 1 \in Int /\ n + 1 \in Int /\ 1 <= n + 1
      BY <1>7
    <3>2. Cardinality(1..(n + 1)) = (n + 1) - 1 + 1
      BY <3>1, FS_Interval
    <3> QED
      BY <1>7, <3>2
  <2> QED
    BY <1>7, <2>1, <2>2
<1>9. FreshToken \in 1..(n + 1) /\ FreshToken \notin used
  BY <1>5, <1>8
<1> QED
  BY <1>6, <1>7, <1>9 DEF NoToken

-----------------------------------------------------------------------------
(* The steps *)

LEMMA NothingIsNoCall == NoCall \notin Calls /\ NoCall.at \notin Places
  BY DEF Calls, Places, NoCall

\* A step that replaces one call has only that one to account for.
LEMMA OneCallKeeps ==
    ASSUME CallsAre, NEW c \in Callers, NEW k \in Calls \cup {NoCall},
           k # NoCall => Follows(k) /\ k.since <= generation,
           call' = [call EXCEPT ![c] = k], UNCHANGED generation
    PROVE  CallsAre'
<1>1. call \in [Callers -> Calls \cup {NoCall}]
  BY DEF CallsAre
<1>2. call' \in [Callers -> Calls \cup {NoCall}]
  BY <1>1
<1>3. \A d \in Callers : call'[d] = IF d = c THEN k ELSE call[d]
  BY <1>1
<1>4. ASSUME NEW d \in Callers, call'[d] # NoCall
      PROVE  Follows(call'[d]) /\ call'[d].since <= generation'
  BY <1>3, <1>4 DEF CallsAre, Idle
<1> QED
  BY <1>2, <1>4 DEF CallsAre, Idle

LEMMA CallEnds ==
    ASSUME CallsAre, NEW c \in Callers, EndCall(c), UNCHANGED generation
    PROVE  CallsAre'
<1> DEFINE k == NoCall
<1>1. k \in Calls \cup {NoCall} /\ k = NoCall /\ call' = [call EXCEPT ![c] = k]
  BY DEF EndCall
<1> HIDE DEF k
<1> QED
  BY <1>1, OneCallKeeps

LEMMA WalkEnds ==
    ASSUME walk \in [Callers -> Walks], NEW c \in Callers, EndWalk(c)
    PROVE  walk' \in [Callers -> Walks]
<1>1. NoWalk \in Walks
  BY DEF NoWalk, Walks
<1> QED
  BY <1>1 DEF EndWalk

LEMMA UnansweredKeeps ==
    ASSUME Unanswered
    PROVE  WalksAreComplete'
  BY DEF Unanswered, WalksAreComplete

\* A call that is not idle has what is said of it.
LEMMA BusyCall ==
    ASSUME CallsAre, NEW c \in Callers, call[c].at \in Places
    PROVE  call[c] \in Calls /\ Follows(call[c]) /\ call[c].since <= generation
  BY NothingIsNoCall DEF CallsAre, Idle

LEMMA NewCallIsTyped ==
    ASSUME Counted, NEW q \in Queries, NEW t \in Nat, NEW offset \in Nat
    PROVE  /\ NewCall(q, t, offset) \in Calls
           /\ NewCall(q, t, offset).at = "reading"
           /\ NewCall(q, t, offset).offset = offset
           /\ NewCall(q, t, offset).seen = << >>
           /\ NewCall(q, t, offset).since = generation
<1>1. << >> \in Seq(Entities) /\ {} \in SUBSET Pairs /\ {} \in SUBSET Reasons
  BY EmptySeq
<1> QED
  BY <1>1 DEF NewCall, Calls, Places, Counted

LEMMA AskKeeps ==
    ASSUME IInv, NEW c \in Callers, NEW q \in Queries, Ask(c, q)
    PROVE  IInv'
<1>1. /\ Counted /\ PinsAre(pins) /\ CursorsAre(cursors) /\ walk \in [Callers -> Walks]
      /\ CallsAre
  BY DEF IInv
<1>2. /\ call' = [call EXCEPT ![c] = NewCall(q, NoToken, 0)]
      /\ walk' = [walk EXCEPT ![c] = [token |-> NoToken, query |-> q]]
      /\ walks < MaxWalks /\ walks' = walks + 1
      /\ UNCHANGED <<generation, pins, cursors, aborts>>
      /\ Unanswered
  BY DEF Ask
<1> DEFINE k == NewCall(q, NoToken, 0)
<1>3. k \in Calls /\ k.at = "reading" /\ k.offset = 0 /\ k.seen = << >> /\ k.since = generation
  <2> DEFINE t == NoToken
             o == 0
  <2>1. t \in Nat /\ o \in Nat /\ o = 0 /\ k = NewCall(q, t, o)
    BY DEF NoToken
  <2> HIDE DEF t, o, k
  <2> QED
    BY <1>1, <2>1, NewCallIsTyped
<1>4. call' = [call EXCEPT ![c] = k] /\ k.since <= generation
  BY <1>1, <1>2, <1>3, Sources DEF Counted
<1> HIDE DEF k
<1>5. Follows(k)
  BY <1>3 DEF Follows
<1>6. CallsAre'
  BY <1>1, <1>2, <1>3, <1>4, <1>5, OneCallKeeps
<1>7. Counted'
  BY <1>1, <1>2, CursorsAssumption DEF Counted
<1>8. walk' \in [Callers -> Walks]
  BY <1>1, <1>2 DEF Walks, NoToken
<1>9. WalksAreComplete'
  BY <1>2, UnansweredKeeps
<1> QED
  BY <1>1, <1>2, <1>6, <1>7, <1>8, <1>9 DEF IInv

\* A page is begun where the walk to its cursor has come to, over the snapshot
\* that is pinned under the name that the cursor is bound to.
LEMMA BeginPageKeeps ==
    ASSUME Counted, PinsAre(pins), CursorsAre(cursors), walk \in [Callers -> Walks], CallsAre,
           NEW c \in Callers, NEW t, NEW q \in Queries, BeginPage(c, t, q), UNCHANGED generation
    PROVE  CallsAre' /\ walk' \in [Callers -> Walks]
<1>1. PICK i \in DOMAIN cursors :
         /\ cursors[i].token = t
         /\ call' = [call EXCEPT ![c] =
               [NewCall(q, t, cursors[i].offset) EXCEPT
                   !.at = IF Pinned(cursors[i].snapshot) = {} THEN "unpinned" ELSE "answering",
                   !.seen = cursors[i].seen, !.told = cursors[i].told,
                   !.cuts = cursors[i].cuts,
                   !.snapshot = IF Pinned(cursors[i].snapshot) = {} THEN NoSnapshot
                                ELSE pins[CHOOSE k \in Pinned(cursors[i].snapshot) : TRUE]]]
         /\ cursors[i].query = q
  BY DEF BeginPage, CursorsOf
<1>2. walk' = [walk EXCEPT ![c] = [token |-> t, query |-> q]]
  BY DEF BeginPage
<1> DEFINE x == cursors[i]
<1>3. x \in Cursors
  BY ElementOfSeq, LenProperties DEF CursorsAre
<1>4. /\ x.token = t /\ x.query = q /\ t \in Nat /\ x.offset \in Nat
      /\ x.seen \in Seq(Entities) /\ x.told \in SUBSET Pairs /\ x.cuts \in SUBSET Reasons
      /\ IsWalk(q, x.snapshot, x)
  BY <1>1, <1>3 DEF Cursors
<1> DEFINE found == Pinned(x.snapshot)
           p == CHOOSE k \in found : TRUE
           at == IF found = {} THEN "unpinned" ELSE "answering"
           s == IF found = {} THEN NoSnapshot ELSE pins[p]
           m == NewCall(q, t, x.offset)
           k == [m EXCEPT !.at = at, !.seen = x.seen, !.told = x.told, !.cuts = x.cuts,
                          !.snapshot = s]
<1>5. call' = [call EXCEPT ![c] = k]
  BY <1>1
<1>6. found # {} => s \in Snapshots /\ s.id = x.snapshot
  <2> SUFFICES ASSUME found # {} PROVE s \in Snapshots /\ s.id = x.snapshot
    OBVIOUS
  <2>1. p \in found
    OBVIOUS
  <2>2. p \in DOMAIN pins /\ pins[p].id = x.snapshot
    BY <2>1 DEF Pinned
  <2> HIDE DEF p
  <2>3. pins[p] \in Snapshots
    BY <2>2, ElementOfSeq, LenProperties DEF PinsAre
  <2> QED
    BY <2>2, <2>3
<1>7. m \in Calls /\ m.since = generation /\ m.offset = x.offset /\ m.query = q
  <2> DEFINE o == x.offset
  <2>1. o \in Nat /\ m = NewCall(q, t, o)
    BY <1>4
  <2> HIDE DEF o, m
  <2>2. m \in Calls /\ m.since = generation /\ m.offset = o
    BY <1>4, <2>1, NewCallIsTyped
  <2>3. m.query = q
    BY <2>1 DEF NewCall
  <2> QED
    BY <2>2, <2>3 DEF o
<1>8. at \in Places /\ s \in Snapshots \cup {NoSnapshot}
  BY <1>6 DEF Places
<1>9. at = "unpinned" \/ (at = "answering" /\ s \in Snapshots /\ s.id = x.snapshot)
  BY <1>6
<1> HIDE DEF at, s, m, x, found, p
<1>10. /\ k.at = at /\ k.seen = x.seen /\ k.told = x.told /\ k.cuts = x.cuts /\ k.snapshot = s
       /\ k.since = generation /\ k.offset = x.offset /\ k.query = q
       /\ k \in Calls
  BY <1>4, <1>7, <1>8 DEF Calls
<1> HIDE DEF k
<1>11. at = "answering" => k.snapshot \in Snapshots /\ IsWalk(k.query, k.snapshot.id, k)
  BY <1>4, <1>9, <1>10 DEF IsWalk
<1>12. Follows(k)
  BY <1>9, <1>10, <1>11 DEF Follows
<1>13. k.since <= generation
  BY <1>10, Sources DEF Counted
<1>14. CallsAre'
  BY <1>5, <1>10, <1>12, <1>13, OneCallKeeps
<1>15. [token |-> t, query |-> q] \in Walks
  BY <1>4 DEF Walks
<1> QED
  BY <1>2, <1>14, <1>15

LEMMA UseCursorKeeps ==
    ASSUME IInv, NEW c \in Callers, NEW t, NEW q \in Queries, UseCursor(c, t, q)
    PROVE  CallsAre' /\ CursorsAre(cursors') /\ walk' \in [Callers -> Walks] /\ PinsAre(pins')
           /\ WalksAreComplete' /\ UNCHANGED <<generation, aborts>>
<1>1. /\ Counted /\ PinsAre(pins) /\ CursorsAre(cursors) /\ walk \in [Callers -> Walks]
      /\ CallsAre
  BY DEF IInv
<1>2. UNCHANGED <<generation, pins, aborts>> /\ Unanswered
  BY DEF UseCursor
<1>3. WalksAreComplete'
  BY <1>2, UnansweredKeeps
<1>4. ASSUME UNCHANGED call
      PROVE  CallsAre'
  BY <1>1, <1>2, <1>4 DEF CallsAre, Idle
<1>5. CASE RefuseStale(c, t)
  <2>1. UNCHANGED call /\ cursors' = WithoutCursor(t) /\ EndWalk(c)
    BY <1>5 DEF RefuseStale
  <2>2. CursorsAre(WithoutCursor(t))
    BY <1>1, WithoutKeeps
  <2>3. CursorsAre(cursors')
    BY <2>1, <2>2
  <2> QED
    BY <1>1, <1>2, <1>3, <1>4, <2>1, <2>3, WalkEnds
<1>6. CASE RefuseBinding(c, t, q)
  <2>1. UNCHANGED <<cursors, call>> /\ EndWalk(c)
    BY <1>6 DEF RefuseBinding
  <2> QED
    BY <1>1, <1>2, <1>3, <1>4, <2>1, WalkEnds
<1>7. CASE BeginPage(c, t, q)
  <2>1. UNCHANGED cursors
    BY <1>7 DEF BeginPage
  <2>2. CallsAre' /\ walk' \in [Callers -> Walks]
    BY <1>1, <1>2, <1>7, BeginPageKeeps
  <2> QED
    BY <1>1, <1>2, <1>3, <2>1, <2>2
<1> QED
  BY <1>5, <1>6, <1>7 DEF UseCursor

LEMMA ContinueKeeps ==
    ASSUME IInv, NEW c \in Callers, Continue(c)
    PROVE  IInv'
<1> DEFINE t == walk[c].token
           q == walk[c].query
<1>1. Counted /\ walk[c] \in Walks /\ t # NoToken
  BY DEF IInv, Continue, InWalk
<1>2. q \in Queries
  BY <1>1 DEF Walks
<1>3. UseCursor(c, t, q) /\ UNCHANGED walks
  BY DEF Continue
<1> HIDE DEF t, q
<1>4. CallsAre' /\ CursorsAre(cursors') /\ walk' \in [Callers -> Walks] /\ PinsAre(pins')
      /\ WalksAreComplete' /\ UNCHANGED <<generation, aborts>>
  BY <1>2, <1>3, UseCursorKeeps
<1>5. Counted'
  BY <1>1, <1>3, <1>4 DEF Counted
<1> QED
  BY <1>4, <1>5 DEF IInv

LEMMA UseAgainKeeps ==
    ASSUME IInv, NEW c \in Callers, NEW d \in Callers, NEW q \in Queries, UseAgain(c, d, q)
    PROVE  IInv'
<1> DEFINE t == walk[d].token
<1>1. Counted /\ UseCursor(c, t, q) /\ walks < MaxWalks /\ walks' = walks + 1
  BY DEF IInv, UseAgain
<1> HIDE DEF t
<1>2. CallsAre' /\ CursorsAre(cursors') /\ walk' \in [Callers -> Walks] /\ PinsAre(pins')
      /\ WalksAreComplete' /\ UNCHANGED <<generation, aborts>>
  BY <1>1, UseCursorKeeps
<1>3. Counted'
  BY <1>1, <1>2, CursorsAssumption DEF Counted
<1> QED
  BY <1>2, <1>3 DEF IInv

\* What the provider has read in time is what the call goes on with.
LEMMA ProviderAnswersKeeps ==
    ASSUME IInv, NEW c \in Callers, ProviderAnswers(c)
    PROVE  IInv'
<1> DEFINE k == call[c]
<1>1. /\ Counted /\ PinsAre(pins) /\ CursorsAre(cursors) /\ walk \in [Callers -> Walks]
      /\ CallsAre
  BY DEF IInv
<1>2. /\ k.at = "reading"
      /\ UNCHANGED <<generation, cursors, walk, walks, aborts>>
      /\ Unanswered
  BY DEF ProviderAnswers
<1>3. k \in Calls /\ Follows(k) /\ k.since <= generation
  <2>1. k.at \in Places
    BY <1>2 DEF Places
  <2> QED
    BY <1>1, <2>1, BusyCall
<1>4. /\ k.query \in Queries /\ k.since \in 1..Len(Listing) /\ k.offset = 0 /\ k.seen = << >>
      /\ k.told \in SUBSET Pairs
  BY <1>2, <1>3 DEF Calls, Follows
<1>5. PICK g \in k.since..generation :
         \E records \in Turns(Listing[g]), links \in Turns(Links[g]) :
         \E s \in {ReadSnapshot(g, k.query, records, links)} :
            pins' = Pin(s) /\ Answering(c, s, s.reason = "time_limit")
  BY DEF ProviderAnswers
<1>6. PICK records \in Turns(Listing[g]), links \in Turns(Links[g]) :
         \E s \in {ReadSnapshot(g, k.query, records, links)} :
            pins' = Pin(s) /\ Answering(c, s, s.reason = "time_limit")
  BY <1>5
<1> DEFINE s == ReadSnapshot(g, k.query, records, links)
           late == s.reason = "time_limit"
           j == [k EXCEPT !.at = "answering", !.late = late, !.snapshot = s]
<1>7. pins' = Pin(s) /\ call' = [call EXCEPT ![c] = j]
  <2>1. pins' = Pin(s) /\ Answering(c, s, s.reason = "time_limit")
    BY <1>6
  <2>2. call \in [Callers -> Calls \cup {NoCall}]
    BY <1>1 DEF CallsAre
  <2> HIDE DEF s
  <2> QED
    BY <2>1, <2>2 DEF Answering
<1>8. s \in Snapshots
  <2>1. g \in 1..Len(Listing)
    BY <1>1, <1>4, <1>5, Sources DEF Counted
  <2> DEFINE q == k.query
  <2>2. q \in Queries /\ s = ReadSnapshot(g, q, records, links)
    BY <1>4
  <2> HIDE DEF q, s
  <2> QED
    BY <1>6, <2>1, <2>2, SnapshotIsRead
<1> HIDE DEF s
<1>9. PinsAre(pins')
  <2>1. PinsAre(Pin(s))
    BY <1>1, <1>8, PinKeeps
  <2> QED
    BY <1>7, <2>1
<1>10. late \in BOOLEAN
  OBVIOUS
<1> HIDE DEF late, k
<1>11. /\ j \in Calls /\ j.at = "answering" /\ j.snapshot = s /\ j.query = k.query
       /\ j.seen = k.seen /\ j.told = k.told /\ j.cuts = k.cuts /\ j.offset = k.offset
       /\ j.since = k.since
  BY <1>3, <1>8, <1>10 DEF Calls, Places
<1> HIDE DEF j
<1>12. IsWalk(j.query, s.id, j)
  <2> DEFINE all == Wanted(j.query, s.id.entities)
             shown == ToSet(Touching(s.id.relations, ToSet(j.seen)))
  <2>1. s.id.entities \in Seq(Entities) /\ s.id.relations \in Seq(Pairs)
    BY <1>8 DEF Snapshots, Ids
  <2>2. all \in Seq(Entities) /\ Len(all) \in Nat
    BY <2>1, ListsAreTyped
  <2>3. j.offset = 0 /\ j.seen = << >>
    BY <1>4, <1>11
  <2>4. ToSet(j.seen) = {}
    BY <2>3 DEF ToSet
  <2>5. shown = {}
    <3> DEFINE S == ToSet(j.seen)
               links2 == s.id.relations
    <3>1. ToSet(Touching(links2, S)) = {l \in ToSet(links2) : l[1] \in S \/ l[2] \in S}
      BY <2>1, ListsAreTyped
    <3>2. S = {}
      BY <2>4
    <3> HIDE DEF S
    <3> QED
      BY <3>1, <3>2 DEF S
  <2> HIDE DEF all
  <2>6. FirstOf(all, 0) = << >>
    <3>1. FirstOf(all, 0) = SubSeq(all, 1, 0)
      BY <2>2 DEF FirstOf, Least
    <3>2. SubSeq(all, 1, 0) = << >>
      BY <2>2, SubSeqEmpty
    <3> QED
      BY <3>1, <3>2
  <2> QED
    BY <2>2, <2>3, <2>5, <2>6 DEF IsWalk, all
<1>13. Follows(j)
  BY <1>8, <1>11, <1>12 DEF Follows
<1>14. CallsAre'
  BY <1>1, <1>2, <1>3, <1>7, <1>11, <1>13, OneCallKeeps
<1>15. Counted' /\ WalksAreComplete'
  BY <1>1, <1>2, UnansweredKeeps DEF Counted
<1> QED
  BY <1>1, <1>2, <1>9, <1>14, <1>15 DEF IInv

\* A call that ends without a page, by whatever it does to its cursor and walk.
LEMMA WithoutPageKeeps ==
    ASSUME IInv, NEW c \in Callers, EndCall(c), UNCHANGED walk \/ EndWalk(c),
           UNCHANGED cursors \/ \E t : cursors' = WithoutCursor(t),
           UNCHANGED <<generation, pins, walks, aborts>>, Unanswered
    PROVE  IInv'
<1>1. /\ Counted /\ PinsAre(pins) /\ CursorsAre(cursors) /\ walk \in [Callers -> Walks]
      /\ CallsAre
  BY DEF IInv
<1>2. CallsAre'
  BY <1>1, CallEnds
<1>3. walk' \in [Callers -> Walks]
  BY <1>1, WalkEnds
<1>4. CursorsAre(cursors')
  <2>1. \A t : CursorsAre(WithoutCursor(t))
    BY <1>1, WithoutKeeps
  <2> QED
    BY <1>1, <2>1
<1>5. Counted' /\ WalksAreComplete'
  BY <1>1, UnansweredKeeps DEF Counted
<1> QED
  BY <1>1, <1>2, <1>3, <1>4, <1>5 DEF IInv

LEMMA FailuresKeep ==
    ASSUME IInv, NEW c \in Callers,
           ProviderFails(c) \/ SnapshotIsGone(c) \/ QueryIsCancelled(c) \/ SettleTooLarge(c)
    PROVE  IInv'
<1>1. CASE ProviderFails(c)
  BY <1>1, WithoutPageKeeps DEF ProviderFails
<1>2. CASE SnapshotIsGone(c)
  <2>1. \E t : cursors' = WithoutCursor(t)
    BY <1>2 DEF SnapshotIsGone
  <2> QED
    BY <1>2, <2>1, WithoutPageKeeps DEF SnapshotIsGone
<1>3. CASE QueryIsCancelled(c)
  BY <1>3, WithoutPageKeeps DEF QueryIsCancelled
<1>4. CASE SettleTooLarge(c)
  <2>1. UNCHANGED walk \/ EndWalk(c)
    BY <1>4 DEF SettleTooLarge
  <2> QED
    BY <1>4, <2>1, WithoutPageKeeps DEF SettleTooLarge
<1> QED
  BY <1>1, <1>2, <1>3, <1>4

\* The page that is answered is of the snapshot that was found, from where the
\* walk has come to.
LEMMA AnswerKeeps ==
    ASSUME IInv, NEW c \in Callers, Answer(c)
    PROVE  IInv'
<1> DEFINE k == call[c]
           s == k.snapshot
<1>1. /\ Counted /\ PinsAre(pins) /\ CursorsAre(cursors) /\ walk \in [Callers -> Walks]
      /\ CallsAre
  BY DEF IInv
<1>2. /\ k.at = "answering"
      /\ UNCHANGED <<generation, pins, cursors, walk, walks, aborts>>
      /\ Unanswered
  BY DEF Answer
<1>3. k \in Calls /\ Follows(k) /\ k.since <= generation
  <2>1. k.at \in Places
    BY <1>2 DEF Places
  <2> QED
    BY <1>1, <2>1, BusyCall
<1>4. /\ k.query \in Queries /\ k.offset \in Nat /\ s \in Snapshots
      /\ IsWalk(k.query, s.id, k)
  BY <1>2, <1>3 DEF Calls, Follows
<1>5. PICK turns \in IF k.late THEN {0} ELSE Turns(s.id.entities),
           links \in IF k.late THEN {0} ELSE Turns(s.id.relations) :
         \E result \in {Result(k.query, s, k.offset, turns, links)} :
         \E page \in {FitResponse(result, k.query.bytes)} :
            call' = [call EXCEPT ![c] = [@ EXCEPT !.at = "settling", !.page = page]]
  BY DEF Answer
<1> DEFINE page == FitResponse(Result(k.query, s, k.offset, turns, links), k.query.bytes)
           j == [k EXCEPT !.at = "settling", !.page = page]
<1>6. call' = [call EXCEPT ![c] = j]
  <2>1. call' = [call EXCEPT ![c] = [@ EXCEPT !.at = "settling", !.page = page]]
    BY <1>5
  <2>2. call \in [Callers -> Calls \cup {NoCall}]
    BY <1>1 DEF CallsAre
  <2> HIDE DEF page
  <2> QED
    BY <2>1, <2>2
<1>7. turns \in Nat /\ links \in Nat
  <2>1. s.id.entities \in Seq(Entities) /\ s.id.relations \in Seq(Pairs)
    BY <1>4 DEF Snapshots, Ids
  <2>2. \A n \in Turns(s.id.entities) : n \in Nat
    BY <2>1, TurnsAreNumbers
  <2>3. \A n \in Turns(s.id.relations) : n \in Nat
    BY <2>1, TurnsAreNumbers
  <2> HIDE DEF s, k
  <2> QED
    BY <1>5, <2>2, <2>3
<1>8. page \in Pages /\ IsPage(k.query, s, k.offset, page)
  <2> DEFINE q == k.query
             offset == k.offset
  <2>1. /\ q \in Queries /\ offset \in Nat /\ offset <= Len(Wanted(q, s.id.entities))
        /\ page = FitResponse(Result(q, s, offset, turns, links), q.bytes)
    BY <1>4 DEF IsWalk
  <2> HIDE DEF q, offset, s, k, page
  <2>2. page \in Pages /\ IsPage(q, s, offset, page)
    BY <1>4, <1>7, <2>1, ResponseIsPage
  <2> QED
    BY <2>2 DEF q, offset
<1> HIDE DEF page, k, s
<1>9. k.snapshot = s
  BY DEF s
<1>10. /\ j \in Calls /\ j.at = "settling" /\ j.snapshot = s /\ j.query = k.query
       /\ j.seen = k.seen /\ j.told = k.told /\ j.cuts = k.cuts /\ j.offset = k.offset
       /\ j.since = k.since /\ j.page = page
  BY <1>3, <1>8, <1>9 DEF Calls, Places
<1> HIDE DEF j
<1>11. IsWalk(j.query, s.id, j)
  BY <1>4, <1>10 DEF IsWalk
<1>12. Follows(j)
  BY <1>4, <1>8, <1>10, <1>11 DEF Follows
<1>13. CallsAre'
  BY <1>1, <1>2, <1>3, <1>6, <1>10, <1>12, OneCallKeeps
<1>14. Counted' /\ WalksAreComplete'
  BY <1>1, <1>2, UnansweredKeeps DEF Counted
<1> QED
  BY <1>1, <1>2, <1>13, <1>14 DEF IInv

\* What a page brings a walk to: the walk has shown the first part of what is
\* wanted, and all of it with its relations if it ends without a reason.
LEMMA WalkIsComplete ==
    ASSUME NEW q \in Queries, NEW s \in Snapshots, NEW offset \in Nat, NEW page \in Pages,
           IsPage(q, s, offset, page), NEW w, IsWalk(q, s.id, w), w.offset \in Nat,
           w.offset = offset + Len(page.entities),
           answer' = [final |-> answer'.final, query |-> q, snapshot |-> s.id,
                      seen |-> w.seen, told |-> w.told, cuts |-> w.cuts,
                      reason |-> page.reason]
    PROVE  WalksAreComplete'
<1> DEFINE all == Wanted(q, s.id.entities)
           next == w.offset
<1>1. s.id.entities \in Seq(Entities)
  BY DEF Snapshots, Ids
<1>2. all \in Seq(Entities) /\ Len(all) \in Nat
  BY <1>1, ListsAreTyped
<1>3. next <= Len(all) /\ w.seen = FirstOf(all, next)
  BY DEF IsWalk
<1>4. /\ answer'.query = q /\ answer'.snapshot = s.id /\ answer'.seen = w.seen
      /\ answer'.told = w.told /\ answer'.cuts = w.cuts /\ answer'.reason = page.reason
  <2> DEFINE f == answer'.final
             a == [final |-> f, query |-> q, snapshot |-> s.id,
                   seen |-> w.seen, told |-> w.told, cuts |-> w.cuts, reason |-> page.reason]
  <2>1. answer' = a
    OBVIOUS
  <2>2. /\ a.query = q /\ a.snapshot = s.id /\ a.seen = w.seen
        /\ a.told = w.told /\ a.cuts = w.cuts /\ a.reason = page.reason
    OBVIOUS
  <2> HIDE DEF a
  <2> QED
    BY <2>1, <2>2
<1>5. page.reason = "none" => next = Len(all) /\ IsWhole(s.id)
  <2> SUFFICES ASSUME page.reason = "none" PROVE next = Len(all) /\ IsWhole(s.id)
    OBVIOUS
  <2>1. next = Len(all) /\ s.reason = "none"
    BY DEF IsPage
  <2> QED
    BY <2>1 DEF Snapshots
<1>6. PagesAreOfOneSnapshot'
  <2> HIDE DEF all
  <2>1. w.seen = SubSeq(all, 1, next)
    BY <1>2, <1>3 DEF FirstOf, Least
  <2>2. w.seen \in Seq(Entities) /\ Len(w.seen) = next
    <3>1. \A i \in 1..next : all[i] \in Entities
      BY <1>2, <1>3, ElementOfSeq
    <3>2. SubSeq(all, 1, next) \in Seq(Entities) /\ Len(SubSeq(all, 1, next)) = next
      <4> DEFINE m == 1
      <4>1. m \in Int /\ m = 1 /\ next \in Int /\ \A i \in m..next : all[i] \in Entities
        BY <3>1
      <4> HIDE DEF m
      <4>2. /\ SubSeq(all, m, next) \in Seq(Entities)
            /\ Len(SubSeq(all, m, next)) = IF m <= next THEN next - m + 1 ELSE 0
        BY <4>1, SubSeqProperties
      <4> QED
        BY <4>1, <4>2
    <3> QED
      BY <2>1, <3>2
  <2>3. Len(w.seen) <= Len(all) /\ SubSeq(w.seen, 1, Len(w.seen)) = SubSeq(all, 1, Len(w.seen))
    <3>1. SubSeq(w.seen, 1, Len(w.seen)) = w.seen
      BY <2>2, SubSeqFull
    <3> QED
      BY <1>3, <2>1, <2>2, <3>1
  <2>4. IsPrefix(w.seen, all)
    BY <2>3 DEF IsPrefix
  <2> QED
    BY <1>4, <2>4 DEF PagesAreOfOneSnapshot, all
<1>7. EndIsTheEnd'
  <2> SUFFICES ASSUME page.reason = "none"
               PROVE  w.seen = Wanted(q, Listing[s.id.generation])
    BY <1>4 DEF EndIsTheEnd
  <2>1. next = Len(all) /\ Wanted(q, Listing[s.id.generation]) = all
    BY <1>5 DEF IsWhole
  <2> HIDE DEF all
  <2>2. w.seen = SubSeq(all, 1, Len(all))
    BY <1>2, <1>3, <2>1 DEF FirstOf, Least
  <2> QED
    BY <1>2, <2>1, <2>2, SubSeqFull
<1>8. RelationsAreShown({"relation_limit", "time_limit", "byte_limit"})'
  <2> SUFFICES ASSUME page.reason = "none", w.cuts \cap Cuts = {}
               PROVE  ToSet(Touching(Relations(s.id.generation), ToSet(w.seen))) \subseteq w.told
    BY <1>4 DEF RelationsAreShown, Cuts
  <2>1. Relations(s.id.generation) = s.id.relations
    BY <1>5 DEF IsWhole
  <2> QED
    BY <2>1 DEF IsWalk
<1> QED
  BY <1>6, <1>7, <1>8 DEF WalksAreComplete

LEMMA SettleKeeps ==
    ASSUME IInv, NEW c \in Callers, Settle(c)
    PROVE  IInv'
<1> DEFINE k == call[c]
           q == k.query
           s == k.snapshot
           page == k.page
           next == k.offset + Len(page.entities)
           on == GoesOn(page, k.offset, next)
           seen == k.seen \o page.entities
           told == k.told \cup ToSet(page.relations)
           cuts == k.cuts \cup ({page.reason} \ {"none", "result_limit"})
           cursor == [token |-> FreshToken, query |-> q, snapshot |-> s.id,
                      offset |-> next, life |-> Ttl,
                      seen |-> seen, told |-> told, cuts |-> cuts]
           rest == WithoutCursor(k.token)
<1>1. /\ Counted /\ PinsAre(pins) /\ CursorsAre(cursors) /\ walk \in [Callers -> Walks]
      /\ CallsAre
  BY DEF IInv
<1>2. k.at = "settling" /\ EndCall(c) /\ UNCHANGED <<generation, pins, walks, aborts>>
  BY DEF Settle
<1>3. cursors' = IF on THEN Newest(Append(rest, cursor), MaxCursors) ELSE rest
  BY DEF Settle, NextOffset
<1>4. IF k.aborted THEN Unanswered /\ UNCHANGED walk
      ELSE /\ walk' = [walk EXCEPT ![c] =
                          IF on THEN [token |-> cursor.token, query |-> q] ELSE NoWalk]
           /\ answer' = [final |-> ~on, query |-> q, snapshot |-> s.id,
                         seen |-> seen, told |-> told, cuts |-> cuts, reason |-> page.reason]
  BY DEF Settle, NextOffset
<1>5. k \in Calls /\ Follows(k)
  <2>1. k.at \in Places
    BY <1>2 DEF Places
  <2> QED
    BY <1>1, <2>1, BusyCall
<1>6. /\ q \in Queries /\ k.offset \in Nat /\ s \in Snapshots /\ k.seen \in Seq(Entities)
      /\ k.told \in SUBSET Pairs /\ k.cuts \in SUBSET Reasons /\ k.token \in Nat
      /\ IsWalk(q, s.id, k) /\ page \in Pages /\ IsPage(q, s, k.offset, page)
  BY <1>2, <1>5 DEF Calls, Follows
<1>7. FreshToken \in Nat \ {NoToken} /\ \A x \in ToSet(cursors) : x.token # FreshToken
  BY <1>1, TokenIsFresh
<1>8. s.id \in Ids /\ page.reason \in Reasons /\ page.relations \in Seq(Pairs)
      /\ page.entities \in Seq(Entities) /\ Len(page.entities) \in Nat
  BY <1>6, LenProperties DEF Snapshots, Pages
<1>9. /\ cursor.offset = next /\ cursor.seen = seen /\ cursor.told = told
      /\ cursor.cuts = cuts /\ cursor.token = FreshToken
  OBVIOUS
<1>10. told \in SUBSET Pairs /\ cuts \in SUBSET Reasons /\ next \in Nat
  <2>1. ToSet(page.relations) \subseteq Pairs
    BY <1>8, LenProperties, ElementOfSeq DEF ToSet
  <2> QED
    BY <1>6, <1>8, <2>1
<1> HIDE DEF cursor
<1>11. IsWalk(q, s.id, cursor) /\ cursor.seen \in Seq(Entities)
  <2> HIDE DEF k, q, s, page
  <2> QED
    BY <1>6, <1>9, WalkGoesOn
<1>12. CursorsAre(rest) /\ ToSet(rest) \subseteq ToSet(cursors)
  BY <1>1, WithoutKeeps
<1>13. on => next \in Nat \ {0}
  BY <1>6, <1>10 DEF GoesOn
<1> HIDE DEF rest, on, k, q, s, page
<1>14. on => cursor \in Cursors
  <2> SUFFICES ASSUME on PROVE cursor \in Cursors
    OBVIOUS
  <2>1. Ttl \in 0..Ttl
    BY CursorsAssumption
  <2>2. next \in Nat \ {0} /\ seen \in Seq(Entities)
    BY <1>9, <1>11, <1>13
  <2>3. cursor.query = q /\ cursor.snapshot = s.id
    BY DEF cursor
  <2> HIDE DEF next, seen, told, cuts
  <2>4. cursor \in [token: Nat \ {NoToken}, query: Queries, snapshot: Ids, offset: Nat \ {0},
                    life: 0..Ttl, seen: Seq(Entities), told: SUBSET Pairs, cuts: SUBSET Reasons]
    BY <1>6, <1>7, <1>8, <1>10, <2>1, <2>2 DEF cursor
  <2> QED
    BY <1>11, <2>3, <2>4 DEF Cursors
<1>15. CursorsAre(cursors')
  <2>1. CASE on
    <3>1. \A x \in ToSet(rest) : x.token # cursor.token
      BY <1>7, <1>9, <1>12
    <3>2. CursorsAre(Newest(Append(rest, cursor), MaxCursors))
      BY <1>12, <1>14, <2>1, <3>1, PutKeeps
    <3> QED
      BY <1>3, <2>1, <3>2
  <2>2. CASE ~on
    BY <1>3, <1>12, <2>2
  <2> QED
    BY <2>1, <2>2
<1>16. CallsAre'
  BY <1>1, <1>2, CallEnds
<1>17. walk' \in [Callers -> Walks]
  <2>1. NoWalk \in Walks /\ [token |-> cursor.token, query |-> q] \in Walks
    BY <1>6, <1>7, <1>9 DEF NoWalk, Walks
  <2> QED
    BY <1>1, <1>4, <2>1
<1>18. WalksAreComplete'
  <2>1. CASE k.aborted
    BY <1>4, <2>1, UnansweredKeeps
  <2>2. CASE ~k.aborted
    <3>1. answer' = [final |-> ~on, query |-> q, snapshot |-> s.id,
                     seen |-> cursor.seen, told |-> cursor.told, cuts |-> cursor.cuts,
                     reason |-> page.reason]
      BY <1>4, <1>9, <2>2
    <3>2. answer' = [final |-> answer'.final, query |-> q, snapshot |-> s.id,
                     seen |-> cursor.seen, told |-> cursor.told, cuts |-> cursor.cuts,
                     reason |-> page.reason]
      BY <3>1
    <3> DEFINE offset == k.offset
    <3>3. /\ offset \in Nat /\ IsPage(q, s, offset, page) /\ cursor.offset \in Nat
          /\ cursor.offset = offset + Len(page.entities)
      BY <1>6, <1>9, <1>10
    <3> HIDE DEF offset
    <3> QED
      BY <1>6, <1>11, <3>2, <3>3, WalkIsComplete
  <2> QED
    BY <2>1, <2>2
<1>19. Counted'
  BY <1>1, <1>2 DEF Counted
<1> QED
  BY <1>1, <1>2, <1>15, <1>16, <1>17, <1>18, <1>19 DEF IInv

LEMMA AbortKeeps ==
    ASSUME IInv, NEW c \in Callers, Abort(c)
    PROVE  IInv'
<1> DEFINE k == call[c]
           j == [k EXCEPT !.aborted = TRUE]
<1>1. /\ Counted /\ PinsAre(pins) /\ CursorsAre(cursors) /\ walk \in [Callers -> Walks]
      /\ CallsAre
  BY DEF IInv
<1>2. /\ k # NoCall /\ aborts < MaxAborts /\ aborts' = aborts + 1
      /\ UNCHANGED <<generation, pins, cursors, walk, walks>>
      /\ Unanswered
  BY DEF Abort, Idle
<1>3. call' = [call EXCEPT ![c] = j]
  BY <1>1 DEF Abort, CallsAre
<1>4. k \in Calls /\ Follows(k) /\ k.since <= generation
  BY <1>1, <1>2 DEF CallsAre, Idle
<1> HIDE DEF k
<1>5. /\ j \in Calls /\ j.at = k.at /\ j.snapshot = k.snapshot /\ j.query = k.query
      /\ j.seen = k.seen /\ j.told = k.told /\ j.cuts = k.cuts /\ j.offset = k.offset
      /\ j.since = k.since /\ j.page = k.page
  BY <1>4 DEF Calls
<1> HIDE DEF j
<1>6. Follows(j)
  BY <1>4, <1>5 DEF Follows, IsWalk
<1>7. CallsAre'
  BY <1>1, <1>2, <1>3, <1>4, <1>5, <1>6, OneCallKeeps
<1>8. Counted' /\ WalksAreComplete'
  BY <1>1, <1>2, CursorsAssumption, UnansweredKeeps DEF Counted
<1> QED
  BY <1>1, <1>2, <1>7, <1>8 DEF IInv

\* The name of a snapshot has the generation that it was read in.
LEMMA SourceChangesKeeps ==
    ASSUME IInv, SourceChanges
    PROVE  IInv'
<1>1. /\ Counted /\ PinsAre(pins) /\ CursorsAre(cursors) /\ walk \in [Callers -> Walks]
      /\ CallsAre
  BY DEF IInv
<1>2. /\ generation < Len(Listing) /\ generation' = generation + 1
      /\ UNCHANGED <<pins, cursors, call, walk, walks, aborts>>
      /\ Unanswered
  BY DEF SourceChanges
<1>3. Counted'
  BY <1>1, <1>2, Sources DEF Counted
<1>4. CallsAre'
  <2>1. call' \in [Callers -> Calls \cup {NoCall}]
    BY <1>1, <1>2 DEF CallsAre
  <2>2. ASSUME NEW c \in Callers, call[c] # NoCall
        PROVE  Follows(call[c]) /\ call[c].since <= generation'
    <3>1. Follows(call[c]) /\ call[c].since <= generation /\ call[c] \in Calls
      BY <1>1, <2>2 DEF CallsAre, Idle
    <3>2. call[c].since \in Nat
      BY <3>1, Sources DEF Calls
    <3> QED
      BY <1>1, <1>2, <3>1, <3>2, Sources DEF Counted
  <2> QED
    BY <1>2, <2>1, <2>2 DEF CallsAre, Idle
<1>5. WalksAreComplete'
  BY <1>2, UnansweredKeeps
<1> QED
  BY <1>1, <1>2, <1>3, <1>4, <1>5 DEF IInv

\* What a cursor is bound to does not change as it grows old.
LEMMA TimePassesKeeps ==
    ASSUME IInv, TimePasses
    PROVE  IInv'
<1>1. /\ Counted /\ PinsAre(pins) /\ CursorsAre(cursors) /\ walk \in [Callers -> Walks]
      /\ CallsAre
  BY DEF IInv
<1>2. /\ cursors' = [i \in DOMAIN cursors |->
                        [cursors[i] EXCEPT !.life = IF @ = 0 THEN 0 ELSE @ - 1]]
      /\ UNCHANGED <<generation, pins, call, walk, walks, aborts>>
      /\ Unanswered
  BY DEF TimePasses
<1>3. /\ Len(cursors) \in Nat /\ DOMAIN cursors = 1..Len(cursors) /\ Len(cursors) <= MaxCursors
      /\ \A i, j \in DOMAIN cursors : cursors[i].token = cursors[j].token => i = j
      /\ \A i \in DOMAIN cursors : cursors[i] \in Cursors
  BY <1>1, LenProperties, ElementOfSeq DEF CursorsAre
<1>4. ASSUME NEW x \in Cursors
      PROVE  LET y == [x EXCEPT !.life = IF @ = 0 THEN 0 ELSE @ - 1]
             IN y \in Cursors /\ y.token = x.token
  <2> DEFINE l == IF x.life = 0 THEN 0 ELSE x.life - 1
             y == [x EXCEPT !.life = l]
  <2>1. l \in 0..Ttl
    BY CursorsAssumption DEF Cursors
  <2> HIDE DEF l
  <2>2. /\ y.token = x.token /\ y.query = x.query /\ y.snapshot = x.snapshot
        /\ y.offset = x.offset /\ y.seen = x.seen /\ y.told = x.told /\ y.cuts = x.cuts
        /\ y \in [token: Nat \ {NoToken}, query: Queries, snapshot: Ids, offset: Nat \ {0},
                  life: 0..Ttl, seen: Seq(Entities), told: SUBSET Pairs, cuts: SUBSET Reasons]
    BY <2>1 DEF Cursors
  <2>3. IsWalk(x.query, x.snapshot, x)
    BY DEF Cursors
  <2> HIDE DEF y
  <2>4. IsWalk(y.query, y.snapshot, y)
    BY <2>2, <2>3 DEF IsWalk
  <2>5. y \in Cursors /\ y.token = x.token
    BY <2>2, <2>4 DEF Cursors
  <2> QED
    BY <2>5 DEF y, l
<1>5. \A i \in 1..Len(cursors) : cursors'[i] \in Cursors /\ cursors'[i].token = cursors[i].token
  BY <1>2, <1>3, <1>4
<1>6. cursors' \in Seq(Cursors) /\ Len(cursors') = Len(cursors) /\ DOMAIN cursors' = DOMAIN cursors
  <2> DEFINE t == cursors'
  <2>1. t = [i \in 1..Len(cursors) |-> t[i]]
    BY <1>2, <1>3
  <2>2. \A i \in 1..Len(cursors) : t[i] \in Cursors
    BY <1>5
  <2> HIDE DEF t
  <2>3. [i \in 1..Len(cursors) |-> t[i]] \in Seq(Cursors)
    BY <1>3, <2>2, IsASeq
  <2>4. t \in Seq(Cursors) /\ DOMAIN t = 1..Len(cursors)
    BY <2>1, <2>3
  <2>5. Len(t) = Len(cursors)
    BY <1>3, <2>4
  <2> QED
    BY <1>3, <2>4, <2>5 DEF t
<1>7. CursorsAre(cursors')
  BY <1>3, <1>5, <1>6 DEF CursorsAre
<1>8. Counted' /\ WalksAreComplete' /\ CallsAre'
  BY <1>1, <1>2, UnansweredKeeps DEF Counted, CallsAre, Idle
<1> QED
  BY <1>1, <1>2, <1>7, <1>8 DEF IInv

-----------------------------------------------------------------------------
(* The theorems *)

LEMMA InitEstablishes == Init => IInv
<1> SUFFICES ASSUME Init PROVE IInv
  OBVIOUS
<1>1. /\ generation = 1 /\ pins = << >> /\ cursors = << >>
      /\ call = [c \in Callers |-> NoCall] /\ walk = [c \in Callers |-> NoWalk]
      /\ answer = NoAnswer /\ walks = 0 /\ aborts = 0
  BY DEF Init
<1>2. Counted
  BY <1>1, Sources, CursorsAssumption DEF Counted
<1>3. PinsAre(pins) /\ CursorsAre(cursors)
  BY <1>1, EmptySeq, CursorsAssumption DEF PinsAre, CursorsAre
<1>4. walk \in [Callers -> Walks] /\ CallsAre
  BY <1>1 DEF NoWalk, Walks, CallsAre, Idle
<1>5. WalksAreComplete
  BY <1>1 DEF WalksAreComplete
<1> QED
  BY <1>2, <1>3, <1>4, <1>5 DEF IInv

LEMMA NextKeeps == IInv /\ [Next]_vars => IInv'
<1> SUFFICES ASSUME IInv, [Next]_vars PROVE IInv'
  OBVIOUS
<1>1. ASSUME NEW c \in Callers, Serve(c)
      PROVE  IInv'
  BY <1>1, ProviderAnswersKeeps, FailuresKeep, AnswerKeeps, SettleKeeps DEF Serve
<1>2. ASSUME NEW c \in Callers, Continue(c)
      PROVE  IInv'
  BY <1>2, ContinueKeeps
<1>3. ASSUME NEW c \in Callers, Abort(c)
      PROVE  IInv'
  BY <1>3, AbortKeeps
<1>4. ASSUME NEW c \in Callers, NEW q \in Queries, Ask(c, q)
      PROVE  IInv'
  BY <1>4, AskKeeps
<1>5. ASSUME NEW c \in Callers, NEW d \in Callers, NEW q \in Queries, UseAgain(c, d, q)
      PROVE  IInv'
  BY <1>5, UseAgainKeeps
<1>6. CASE SourceChanges
  BY <1>6, SourceChangesKeeps
<1>7. CASE TimePasses
  BY <1>7, TimePassesKeeps
<1>8. CASE UNCHANGED vars
  BY <1>8 DEF vars, IInv, Counted, CallsAre, Idle, WalksAreComplete, PagesAreOfOneSnapshot,
              EndIsTheEnd, RelationsAreShown
<1> QED
  BY <1>1, <1>2, <1>3, <1>4, <1>5, <1>6, <1>7, <1>8 DEF Next

\* The inductive invariant: every cursor and every call, whoever made it, stands
\* where a walk over one snapshot of the source has come to.
THEOREM Invariance == Spec => []IInv
  BY InitEstablishes, NextKeeps, PTL DEF Spec

\* Whatever is pinned, let go of, expired, aborted or asked with one cursor twice
\* in between, the pages a caller is given are those of one snapshot, each where
\* the last one ended; a walk that ends without a word has shown all entities of
\* the source, and its relations if no page was said to be cut
\* (mcp-navigation-adapter.ts:244-320).
THEOREM WalksHold == Spec => []WalksAreComplete
<1>1. IInv => WalksAreComplete
  BY DEF IInv
<1> QED
  BY <1>1, Invariance, PTL

\* Both stores stay within their sizes, a token and the name of a snapshot stand
\* for one entry, and a call is always of a generation that there has been.
THEOREM TypeCorrect == Spec => []TypeOK
<1>1. IInv => TypeOK
  <2> SUFFICES ASSUME IInv PROVE TypeOK
    OBVIOUS
  <2>1. /\ Counted /\ PinsAre(pins) /\ CursorsAre(cursors) /\ walk \in [Callers -> Walks]
        /\ CallsAre
    BY DEF IInv
  <2>2. \A c \in Callers : walk[c].token \in Nat /\ (InWalk(c) => walk[c].query \in Queries)
    BY <2>1 DEF Walks, InWalk, NoToken
  <2>3. CursorsAreTyped
    <3>1. \A i \in DOMAIN cursors : cursors[i] \in Cursors
      BY <2>1, LenProperties, ElementOfSeq DEF CursorsAre
    <3> QED
      BY <3>1 DEF CursorsAreTyped, Cursors
  <2>4. CallsAreTyped
    <3> SUFFICES ASSUME NEW c \in Callers, call[c] # NoCall
                 PROVE  /\ call[c].at \in Places
                        /\ call[c].query \in Queries
                        /\ {call[c].token, call[c].offset} \subseteq Nat
                        /\ call[c].since \in 1..generation
                        /\ {call[c].aborted, call[c].late} \subseteq BOOLEAN
      BY DEF CallsAreTyped, Places, Idle
    <3>1. call[c] \in Calls /\ call[c].since <= generation
      BY <2>1 DEF CallsAre, Idle
    <3> QED
      BY <2>1, <3>1, Sources DEF Calls, Counted
  <2> QED
    BY <2>1, <2>2, <2>3, <2>4 DEF TypeOK, Counted, PinsAre, CursorsAre, CallsAre
<1> QED
  BY <1>1, Invariance, PTL
=============================================================================
