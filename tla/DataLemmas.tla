----------------------------- MODULE DataLemmas -----------------------------
(***************************************************************************)
(* Facts about the data of the models, for the proofs to cite: the lists   *)
(* of the server, what is counted in them, sums over the clients, and the  *)
(* network as a bag.  The set counted is a parameter, so that the lemmas   *)
(* can be cited for every property that counts.                            *)
(***************************************************************************)
EXTENDS Integers, SequencesExt, Bags, WellFoundedInduction, SequenceTheorems,
        FiniteSetTheorems, FunctionTheorems, TLAPS

(***************************************************************************)
(* The two operations on the linked lists of the server: a node is linked  *)
(* in at the head (Cons), and unlinked anywhere (RemoveAt).                *)
(***************************************************************************)
\* Linking an element in at the head shifts the others by one.
LEMMA ConsProperties ==
  ASSUME NEW S, NEW s \in Seq(S), NEW e \in S
  PROVE  /\ Cons(e, s) \in Seq(S)
         /\ Len(Cons(e, s)) = Len(s) + 1
         /\ DOMAIN Cons(e, s) = 1 .. Len(s) + 1
         /\ Cons(e, s)[1] = e
         /\ \A i \in 2 .. Len(s) + 1 : Cons(e, s)[i] = s[i - 1]
BY DEF Cons

\* Unlinking the element at one position closes the gap.
LEMMA RemoveAtProperties ==
  ASSUME NEW S, NEW s \in Seq(S), NEW i \in DOMAIN s
  PROVE  /\ RemoveAt(s, i) \in Seq(S)
         /\ Len(RemoveAt(s, i)) = Len(s) - 1
         /\ DOMAIN RemoveAt(s, i) = 1 .. Len(s) - 1
         /\ \A j \in 1 .. Len(s) - 1 :
              RemoveAt(s, i)[j] = IF j < i THEN s[j] ELSE s[j + 1]
<1>1. i \in 1 .. Len(s) /\ Len(s) \in Nat
  BY LenProperties
<1> DEFINE front == SubSeq(s, 1, i - 1)
           back  == SubSeq(s, i + 1, Len(s))
<1>2. /\ front \in Seq(S) /\ Len(front) = i - 1
      /\ \A j \in 1 .. i - 1 : front[j] = s[j]
  BY <1>1, SubSeqProperties
<1>3. /\ back \in Seq(S) /\ Len(back) = Len(s) - i
      /\ \A j \in 1 .. Len(s) - i : back[j] = s[j + i]
  BY <1>1, SubSeqProperties
<1> HIDE DEF front, back
<1>4. /\ front \o back \in Seq(S)
      /\ Len(front \o back) = Len(s) - 1
  BY <1>1, <1>2, <1>3, ConcatProperties
<1>5. ASSUME NEW j \in 1 .. Len(s) - 1
      PROVE  (front \o back)[j] = IF j < i THEN s[j] ELSE s[j + 1]
  <2>1. CASE j < i
    BY <2>1, <1>1, <1>2, <1>3, ConcatProperties
  <2>2. CASE j >= i
    <3>1. (front \o back)[j] = back[j - (i - 1)]
      BY <2>2, <1>1, <1>2, <1>3, ConcatProperties, SMTT(20)
    <3>2. j - (i - 1) \in 1 .. Len(s) - i /\ (j - (i - 1)) + i = j + 1
      BY <2>2, <1>1
    <3>3. back[j - (i - 1)] = s[(j - (i - 1)) + i]
      BY <3>2, <1>3
    <3>4. s[(j - (i - 1)) + i] = s[j + 1]
      BY <3>2
    <3>5. ~(j < i)
      BY <2>2, <1>1
    <3> QED
      BY <3>1, <3>3, <3>4, <3>5
  <2>3. j < i \/ j >= i
    BY <1>1
  <2> QED
    BY <2>1, <2>2, <2>3
<1>6. RemoveAt(s, i) = front \o back
  BY DEF RemoveAt, front, back
<1> QED
  BY <1>4, <1>5, <1>6, <1>1, LenProperties

\* What remains after unlinking one element: the others, each of them once.
LEMMA RemoveAtElements ==
  ASSUME NEW S, NEW s \in Seq(S), NEW i \in DOMAIN s
  PROVE  /\ \A j \in DOMAIN RemoveAt(s, i) :
              LET k == IF j < i THEN j ELSE j + 1
              IN  k \in DOMAIN s /\ k # i /\ RemoveAt(s, i)[j] = s[k]
         /\ \A k \in DOMAIN s : k # i =>
              LET j == IF k < i THEN k ELSE k - 1
              IN  j \in DOMAIN RemoveAt(s, i) /\ RemoveAt(s, i)[j] = s[k]
<1>1. i \in 1 .. Len(s) /\ Len(s) \in Nat /\ DOMAIN s = 1 .. Len(s)
  BY LenProperties
<1>2. /\ DOMAIN RemoveAt(s, i) = 1 .. Len(s) - 1
      /\ \A j \in 1 .. Len(s) - 1 :
           RemoveAt(s, i)[j] = IF j < i THEN s[j] ELSE s[j + 1]
  BY RemoveAtProperties
<1> QED
  BY <1>1, <1>2

\* The same two facts element by element.
LEMMA ConsMembers ==
  ASSUME NEW S, NEW s \in Seq(S), NEW e \in S, NEW i \in DOMAIN Cons(e, s)
  PROVE  \/ i = 1 /\ Cons(e, s)[i] = e
         \/ i # 1 /\ i - 1 \in DOMAIN s /\ Cons(e, s)[i] = s[i - 1]
<1>1. DOMAIN s = 1 .. Len(s) /\ Len(s) \in Nat
  BY LenProperties
<1>2. i \in 1 .. Len(s) + 1
  BY ConsProperties
<1>3. CASE i = 1
  BY <1>3, ConsProperties
<1>4. CASE i # 1
  <2>1. i \in 2 .. Len(s) + 1 /\ i - 1 \in 1 .. Len(s)
    BY <1>1, <1>2, <1>4
  <2>2. \A k \in 2 .. Len(s) + 1 : Cons(e, s)[k] = s[k - 1]
    BY ConsProperties
  <2>3. Cons(e, s)[i] = s[i - 1]
    BY <2>1, <2>2
  <2> QED
    BY <1>1, <1>4, <2>1, <2>3
<1> QED
  BY <1>3, <1>4

LEMMA RemoveAtMembers ==
  ASSUME NEW S, NEW s \in Seq(S), NEW i \in DOMAIN s, NEW j \in DOMAIN RemoveAt(s, i)
  PROVE  \E k \in DOMAIN s : k # i /\ RemoveAt(s, i)[j] = s[k]
BY RemoveAtElements

-----------------------------------------------------------------------------
(***************************************************************************)
(* Lists of records that point to a block each, or hold a null pointer.    *)
(***************************************************************************)
Points(s, b) == \E i \in DOMAIN s : s[i].data = b

Distinct(s, null) ==
  \A i, j \in DOMAIN s : s[i].data # null /\ s[i].data = s[j].data => i = j

\* Linking a record in adds its pointer.
LEMMA ConsPointers ==
  ASSUME NEW S, NEW s \in Seq(S), NEW e \in S
  PROVE  \A b : Points(Cons(e, s), b) <=> e.data = b \/ Points(s, b)
<1> DEFINE t == Cons(e, s)
<1>1. DOMAIN s = 1 .. Len(s) /\ Len(s) \in Nat
  BY LenProperties
<1>2. /\ DOMAIN t = 1 .. Len(s) + 1
      /\ t[1] = e
      /\ \A k \in 2 .. Len(s) + 1 : t[k] = s[k - 1]
  BY ConsProperties
<1>3. \A i \in DOMAIN t : \/ i = 1 /\ t[i] = e
                          \/ i # 1 /\ i - 1 \in DOMAIN s /\ t[i] = s[i - 1]
  BY ConsMembers
<1> HIDE DEF t
<1>4. \A k \in DOMAIN s : k + 1 \in DOMAIN t /\ t[k + 1] = s[k]
  BY <1>1, <1>2
<1>5. ASSUME NEW b
      PROVE  Points(t, b) <=> e.data = b \/ Points(s, b)
  <2>1. Points(t, b) => e.data = b \/ Points(s, b)
    BY <1>3 DEF Points
  <2>2. e.data = b => Points(t, b)
    <3>1. 1 \in DOMAIN t
      BY <1>1, <1>2
    <3> QED
      BY <1>2, <3>1 DEF Points
  <2>3. Points(s, b) => Points(t, b)
    BY <1>4 DEF Points
  <2> QED
    BY <2>1, <2>2, <2>3
<1> QED
  BY <1>5 DEF t

\* The pointers stay distinct if the one linked in is null or new.
LEMMA ConsDistinct ==
  ASSUME NEW S, NEW s \in Seq(S), NEW e \in S, NEW null,
         Distinct(s, null), e.data = null \/ ~Points(s, e.data)
  PROVE  Distinct(Cons(e, s), null)
<1> DEFINE t == Cons(e, s)
<1>1. \A i \in DOMAIN t : \/ i = 1 /\ t[i] = e
                          \/ i # 1 /\ i - 1 \in DOMAIN s /\ t[i] = s[i - 1]
  BY ConsMembers
<1>2. DOMAIN t \subseteq Int
  BY ConsProperties, LenProperties
<1> HIDE DEF t
<1>3. ASSUME NEW i \in DOMAIN t, NEW j \in DOMAIN t,
             t[i].data # null, t[i].data = t[j].data
      PROVE  i = j
  <2>1. CASE i = 1 \/ j = 1
    BY <1>1, <1>3, <2>1 DEF Points
  <2>2. CASE i # 1 /\ j # 1
    <3>1. /\ i - 1 \in DOMAIN s /\ t[i] = s[i - 1]
          /\ j - 1 \in DOMAIN s /\ t[j] = s[j - 1]
      BY <1>1, <2>2
    <3>2. i - 1 = j - 1
      BY <1>3, <3>1 DEF Distinct
    <3> QED
      BY <1>2, <3>2
  <2> QED
    BY <2>1, <2>2
<1> QED
  BY <1>3 DEF Distinct, t

\* Unlinking a record drops its pointer and no other.
LEMMA RemoveAtPointers ==
  ASSUME NEW S, NEW s \in Seq(S), NEW i \in DOMAIN s
  PROVE  \A b : Points(s, b) <=> s[i].data = b \/ Points(RemoveAt(s, i), b)
<1>1. \A k \in DOMAIN s : k # i => \E j \in DOMAIN RemoveAt(s, i) : RemoveAt(s, i)[j] = s[k]
  BY RemoveAtElements
<1>2. \A j \in DOMAIN RemoveAt(s, i) : \E k \in DOMAIN s : RemoveAt(s, i)[j] = s[k]
  BY RemoveAtMembers
<1> QED
  BY <1>1, <1>2 DEF Points

\* If the pointers were distinct, they still are, and none is the dropped one.
LEMMA RemoveAtDistinct ==
  ASSUME NEW S, NEW s \in Seq(S), NEW i \in DOMAIN s, NEW null, Distinct(s, null)
  PROVE  /\ Distinct(RemoveAt(s, i), null)
         /\ s[i].data # null => ~Points(RemoveAt(s, i), s[i].data)
<1> DEFINE t == RemoveAt(s, i)
           from(j) == IF j < i THEN j ELSE j + 1
<1>1. i \in Int /\ DOMAIN t = 1 .. Len(s) - 1 /\ Len(s) \in Nat
  BY LenProperties, RemoveAtProperties
<1>2. \A j \in DOMAIN t : from(j) \in DOMAIN s /\ from(j) # i /\ t[j] = s[from(j)]
  BY RemoveAtElements
<1> HIDE DEF t
<1>3. \A j, k \in DOMAIN t : from(j) = from(k) => j = k
  BY <1>1
<1> HIDE DEF from
<1>4. Distinct(t, null)
  BY <1>2, <1>3 DEF Distinct
<1>5. s[i].data # null => ~Points(t, s[i].data)
  BY <1>2 DEF Distinct, Points
<1> QED
  BY <1>4, <1>5 DEF t

\* Changing other fields keeps the pointers.
LEMMA SamePointers ==
  ASSUME NEW s, NEW t, NEW null, DOMAIN t = DOMAIN s,
         \A i \in DOMAIN s : t[i].data = s[i].data
  PROVE  /\ \A b : Points(t, b) <=> Points(s, b)
         /\ Distinct(s, null) => Distinct(t, null)
BY DEF Points, Distinct

-----------------------------------------------------------------------------
(***************************************************************************)
(* The positions of a list that hold a member of T.                        *)
(***************************************************************************)
Where(s, T) == {i \in DOMAIN s : s[i] \in T}

LEMMA WhereFinite ==
  ASSUME NEW S, NEW s \in Seq(S), NEW T
  PROVE  IsFiniteSet(Where(s, T)) /\ Cardinality(Where(s, T)) \in Nat
<1>1. IsFiniteSet(1 .. Len(s))
  BY FS_Interval, LenProperties
<1>2. Where(s, T) \in SUBSET (1 .. Len(s))
  BY LenProperties DEF Where
<1> QED
  BY <1>1, <1>2, FS_Subset, FS_CardinalityType

\* Linking an element in at the head counts it and keeps the others.
LEMMA WhereCons ==
  ASSUME NEW S, NEW s \in Seq(S), NEW e \in S, NEW T
  PROVE  Cardinality(Where(Cons(e, s), T)) =
           Cardinality(Where(s, T)) + (IF e \in T THEN 1 ELSE 0)
<1> DEFINE t == Cons(e, s)
           old == Where(t, T) \ {1}
           shift == [i \in Where(s, T) |-> i + 1]
<1>1. DOMAIN s = 1 .. Len(s) /\ Len(s) \in Nat
  BY LenProperties
<1>2. /\ DOMAIN t = 1 .. Len(s) + 1
      /\ t[1] = e
      /\ \A k \in 2 .. Len(s) + 1 : t[k] = s[k - 1]
  BY ConsProperties
<1>3. \A i \in DOMAIN t : \/ i = 1 /\ t[i] = e
                          \/ i # 1 /\ i - 1 \in DOMAIN s /\ t[i] = s[i - 1]
  BY ConsMembers
<1>4. t \in Seq(S)
  BY ConsProperties
<1> HIDE DEF t
<1>5. \A k \in DOMAIN s : k + 1 \in DOMAIN t /\ t[k + 1] = s[k] /\ k + 1 # 1
  BY <1>1, <1>2
<1>6. shift \in Bijection(Where(s, T), old)
  <2>1. shift \in [Where(s, T) -> old]
    BY <1>5 DEF Where
  <2>2. \A i, j \in Where(s, T) : shift[i] = shift[j] => i = j
    BY <1>1 DEF Where
  <2>3. \A j \in old : \E i \in Where(s, T) : shift[i] = j
    <3> TAKE j \in old
    <3>1. j \in DOMAIN t /\ t[j] \in T /\ j # 1 /\ j \in Int
      BY <1>2 DEF Where
    <3>2. j - 1 \in Where(s, T) /\ (j - 1) + 1 = j
      BY <1>3, <3>1 DEF Where
    <3> QED
      BY <3>2
  <2> HIDE DEF shift, old
  <2> QED
    BY <2>1, <2>2, <2>3, Fun_IsBij
<1>7. IsFiniteSet(old) /\ Cardinality(old) = Cardinality(Where(s, T))
  BY <1>6, WhereFinite, FS_Bijection, Fun_ExistsBij
<1>8. Cardinality(Where(t, T)) =
        IF 1 \in Where(t, T) THEN Cardinality(old) + 1 ELSE Cardinality(old)
  <2>1. CASE 1 \in Where(t, T)
    <3>1. Where(t, T) = old \cup {1} /\ 1 \notin old
      BY <2>1
    <3> HIDE DEF old
    <3> QED
      BY <1>7, <2>1, <3>1, FS_AddElement
  <2>2. CASE 1 \notin Where(t, T)
    <3>1. Where(t, T) = old
      BY <2>2
    <3> QED
      BY <2>2, <3>1
  <2> QED
    BY <2>1, <2>2
<1>9. 1 \in Where(t, T) <=> e \in T
  BY <1>1, <1>2 DEF Where
<1>10. Cardinality(Where(s, T)) \in Nat
  BY WhereFinite
<1> QED
  BY <1>7, <1>8, <1>9, <1>10 DEF t

\* Unlinking an element drops it and keeps the others.
LEMMA WhereRemoveAt ==
  ASSUME NEW S, NEW s \in Seq(S), NEW i \in DOMAIN s, NEW T
  PROVE  Cardinality(Where(RemoveAt(s, i), T)) =
           Cardinality(Where(s, T)) - (IF s[i] \in T THEN 1 ELSE 0)
<1> DEFINE t == RemoveAt(s, i)
           from(j) == IF j < i THEN j ELSE j + 1
           rest == Where(s, T) \ {i}
           move == [j \in Where(t, T) |-> from(j)]
<1>1. i \in 1 .. Len(s) /\ DOMAIN t = 1 .. Len(s) - 1 /\ Len(s) \in Nat /\ DOMAIN s = 1 .. Len(s)
  BY LenProperties, RemoveAtProperties
<1>2. \A j \in DOMAIN t : from(j) \in DOMAIN s /\ from(j) # i /\ t[j] = s[from(j)]
  BY RemoveAtElements
<1>3. t \in Seq(S)
  BY RemoveAtProperties
<1>4. \A k \in DOMAIN s : k # i => \E j \in DOMAIN t : from(j) = k
  <2> TAKE k \in DOMAIN s
  <2>1. CASE k < i
    BY <1>1, <2>1
  <2>2. CASE k > i
    <3>1. k - 1 \in 1 .. Len(s) - 1 /\ ~(k - 1 < i) /\ (k - 1) + 1 = k
      BY <1>1, <2>2
    <3> QED
      BY <1>1, <3>1
  <2> QED
    BY <1>1, <2>1, <2>2
<1> HIDE DEF t
<1>5. \A j, k \in DOMAIN t : from(j) = from(k) => j = k
  BY <1>1
<1> HIDE DEF from
<1>6. move \in Bijection(Where(t, T), rest)
  <2>1. move \in [Where(t, T) -> rest]
    BY <1>2 DEF Where
  <2>2. \A j, k \in Where(t, T) : move[j] = move[k] => j = k
    BY <1>5 DEF Where
  <2>3. \A k \in rest : \E j \in Where(t, T) : move[j] = k
    BY <1>2, <1>4 DEF Where
  <2> HIDE DEF move, rest
  <2> QED
    BY <2>1, <2>2, <2>3, Fun_IsBij
<1>7. IsFiniteSet(Where(t, T)) /\ Cardinality(rest) = Cardinality(Where(t, T))
  BY <1>3, <1>6, WhereFinite, FS_Bijection, Fun_ExistsBij
<1>8. Cardinality(rest) =
        IF i \in Where(s, T) THEN Cardinality(Where(s, T)) - 1 ELSE Cardinality(Where(s, T))
  BY WhereFinite, FS_RemoveElement
<1>9. i \in Where(s, T) <=> s[i] \in T
  BY DEF Where
<1>10. Cardinality(Where(s, T)) \in Nat
  BY WhereFinite
<1> QED
  BY <1>7, <1>8, <1>9, <1>10 DEF t

-----------------------------------------------------------------------------
(***************************************************************************)
(* The sum of a function into the naturals, as the number of units it      *)
(* stands for: without recursion, and for any domain, as long as the sum   *)
(* is finite.                                                              *)
(***************************************************************************)
Units(f) == {u \in [of : DOMAIN f, number : Nat \ {0}] : u.number <= f[u.of]}

Total(f) == Cardinality(Units(f))

Summable(f) == f \in [DOMAIN f -> Nat] /\ IsFiniteSet(Units(f))

LEMMA TotalType ==
  ASSUME NEW f, Summable(f)
  PROVE  Total(f) \in Nat
BY FS_CardinalityType DEF Summable, Total

LEMMA TotalZero ==
  ASSUME NEW S, NEW f \in [S -> Nat], \A x \in S : f[x] = 0
  PROVE  Summable(f) /\ Total(f) = 0
<1>1. Units(f) = {}
  <2> SUFFICES ASSUME NEW u \in Units(f) PROVE FALSE
    OBVIOUS
  <2>1. u.of \in S /\ u.number \in Nat \ {0} /\ u.number <= f[u.of]
    BY DEF Units
  <2> QED
    BY <2>1
<1> QED
  BY <1>1, FS_EmptySet DEF Summable, Total

\* No more anywhere, no more in all.
LEMMA TotalLess ==
  ASSUME NEW S, NEW f \in [S -> Nat], Summable(f), NEW g \in [S -> Nat],
         \A x \in S : g[x] <= f[x]
  PROVE  Summable(g) /\ Total(g) <= Total(f)
<1>1. Units(g) \in SUBSET Units(f)
  <2> SUFFICES ASSUME NEW u \in Units(g) PROVE u \in Units(f)
    OBVIOUS
  <2>1. /\ u \in [of : S, number : Nat \ {0}] /\ u.of \in S /\ u.number \in Nat /\ u.number <= g[u.of]
        /\ f[u.of] \in Nat /\ g[u.of] \in Nat
    BY DEF Units
  <2>2. u.number <= f[u.of]
    BY <2>1
  <2> QED
    BY <2>1, <2>2 DEF Units
<1> QED
  BY <1>1, FS_Subset DEF Summable, Total

\* n more at one place, n more in all.
LEMMA TotalMore ==
  ASSUME NEW S, NEW f \in [S -> Nat], Summable(f), NEW c \in S, NEW n \in Nat,
         NEW g, g = [f EXCEPT ![c] = f[c] + n]
  PROVE  Summable(g) /\ Total(g) = Total(f) + n
<1> DEFINE new == {u \in Units(g) : u.of = c /\ u.number > f[c]}
           name == [i \in 1 .. n |-> [of |-> c, number |-> f[c] + i]]
<1>1. g \in [S -> Nat] /\ f[c] \in Nat /\ g[c] = f[c] + n /\ \A x \in S : x # c => g[x] = f[x]
  OBVIOUS
<1>2. Units(g) = Units(f) \cup new
  <2>1. ASSUME NEW u \in Units(f) PROVE u \in Units(g)
    <3>1. u \in [of : S, number : Nat \ {0}] /\ u.of \in S /\ u.number \in Nat /\ u.number <= f[u.of]
      BY <2>1 DEF Units
    <3>2. u.number <= g[u.of]
      BY <1>1, <3>1
    <3> QED
      BY <1>1, <3>1, <3>2 DEF Units
  <2>2. ASSUME NEW u \in Units(g), u \notin new PROVE u \in Units(f)
    <3>1. u \in [of : S, number : Nat \ {0}] /\ u.of \in S /\ u.number \in Nat /\ u.number <= g[u.of]
      BY <1>1, <2>2 DEF Units
    <3>2. u.of # c \/ ~(u.number > f[c])
      BY <2>2
    <3>3. u.number <= f[u.of]
      BY <1>1, <3>1, <3>2
    <3> QED
      BY <3>1, <3>3 DEF Units
  <2> QED
    BY <2>1, <2>2
<1>3. Units(f) \cap new = {}
  <2> SUFFICES ASSUME NEW u \in Units(f), u.of = c, u.number > f[c] PROVE FALSE
    OBVIOUS
  <2>1. u.number \in Nat /\ u.number <= f[c]
    BY DEF Units
  <2> QED
    BY <1>1, <2>1
<1>4. name \in Bijection(1 .. n, new)
  <2>1. name \in [1 .. n -> new]
    <3> SUFFICES ASSUME NEW i \in 1 .. n PROVE [of |-> c, number |-> f[c] + i] \in new
      OBVIOUS
    <3>1. f[c] + i \in Nat \ {0} /\ f[c] + i > f[c] /\ f[c] + i <= g[c]
      BY <1>1
    <3> QED
      BY <1>1, <3>1 DEF Units
  <2>2. \A i, j \in 1 .. n : name[i] = name[j] => i = j
    BY <1>1
  <2>3. \A u \in new : \E i \in 1 .. n : name[i] = u
    <3> TAKE u \in new
    <3>1. u \in [of : S, number : Nat \ {0}] /\ u.number \in Nat /\ u.of = c /\ u.number > f[c] /\ u.number <= g[c]
      BY <1>1 DEF Units
    <3>2. u = [of |-> u.of, number |-> u.number]
      BY <3>1
    <3>3. u.number - f[c] \in 1 .. n /\ f[c] + (u.number - f[c]) = u.number
      BY <1>1, <3>1
    <3> QED
      BY <3>1, <3>2, <3>3
  <2> HIDE DEF name, new
  <2> QED
    BY <2>1, <2>2, <2>3, Fun_IsBij
<1>5. IsFiniteSet(1 .. n) /\ Cardinality(1 .. n) = n
  BY FS_Interval
<1>6. IsFiniteSet(new) /\ Cardinality(new) = n
  BY <1>4, <1>5, FS_Bijection, Fun_ExistsBij
<1> HIDE DEF new
<1>7. /\ IsFiniteSet(Units(g))
      /\ Cardinality(Units(g)) = Cardinality(Units(f)) + Cardinality(new) - Cardinality({})
  BY <1>2, <1>3, <1>6, FS_Union DEF Summable
<1>8. Cardinality(Units(f)) \in Nat /\ Cardinality({}) = 0
  BY FS_CardinalityType, FS_EmptySet DEF Summable
<1> QED
  BY <1>1, <1>6, <1>7, <1>8 DEF Summable, Total

\* One less at one place, one less in all.
LEMMA TotalOneLess ==
  ASSUME NEW S, NEW f \in [S -> Nat], Summable(f), NEW c \in S, f[c] > 0,
         NEW g, g = [f EXCEPT ![c] = f[c] - 1]
  PROVE  Summable(g) /\ Total(f) = Total(g) + 1
<1>1. g \in [S -> Nat] /\ \A x \in S : g[x] <= f[x]
  OBVIOUS
<1>2. Summable(g)
  BY <1>1, TotalLess
<1>3. f = [g EXCEPT ![c] = g[c] + 1]
  <2>1. g[c] + 1 = f[c] /\ \A x \in S : x # c => g[x] = f[x]
    OBVIOUS
  <2>2. [g EXCEPT ![c] = g[c] + 1] = [x \in S |-> f[x]]
    BY <1>1, <2>1
  <2> QED
    BY <2>2
<1> QED
  BY <1>1, <1>2, <1>3, TotalMore

\* A change at one place changes the sum by as much.
LEMMA TotalChanges ==
  ASSUME NEW S, NEW f \in [S -> Nat], Summable(f), NEW c \in S,
         NEW g \in [S -> Nat], \A x \in S : x # c => g[x] = f[x]
  PROVE  Summable(g) /\ Total(g) + f[c] = Total(f) + g[c]
<1> DEFINE h == [f EXCEPT ![c] = 0]
<1>1. h \in [S -> Nat] /\ h[c] = 0 /\ \A x \in S : h[x] <= f[x]
  OBVIOUS
<1>2. Summable(h)
  BY <1>1, TotalLess
<1>3. f[c] \in Nat /\ g[c] \in Nat
  OBVIOUS
<1>4. f = [h EXCEPT ![c] = h[c] + f[c]]
  <2>1. h[c] + f[c] = f[c]
    BY <1>1, <1>3
  <2> QED
    BY <2>1
<1>5. g = [h EXCEPT ![c] = h[c] + g[c]]
  <2>1. h[c] + g[c] = g[c]
    BY <1>1, <1>3
  <2> QED
    BY <2>1
<1> HIDE DEF h
<1>6. Total(f) = Total(h) + f[c]
  BY <1>1, <1>2, <1>3, <1>4, TotalMore
<1>7. Summable(g) /\ Total(g) = Total(h) + g[c]
  BY <1>1, <1>2, <1>3, <1>5, TotalMore
<1>8. Total(h) \in Nat
  BY <1>2, TotalType
<1> QED
  BY <1>3, <1>6, <1>7, <1>8

\* Two subsets that differ at most in one element.
LEMMA CardinalityChanges ==
  ASSUME NEW S, IsFiniteSet(S), NEW A \in SUBSET S, NEW B \in SUBSET S, NEW c \in S,
         \A x \in S : x # c => (x \in A <=> x \in B)
  PROVE  /\ Cardinality(A) \in Nat /\ Cardinality(B) \in Nat
         /\ Cardinality(B) + (IF c \in A THEN 1 ELSE 0) =
              Cardinality(A) + (IF c \in B THEN 1 ELSE 0)
<1>1. IsFiniteSet(A) /\ IsFiniteSet(B)
  BY FS_Subset
<1>2. Cardinality(A) \in Nat /\ Cardinality(B) \in Nat
  BY <1>1, FS_CardinalityType
<1>3. CASE c \in A /\ c \notin B
  <2>1. B = A \ {c}
    BY <1>3
  <2>2. Cardinality(A \ {c}) = Cardinality(A) - 1
    BY <1>1, <1>3, FS_RemoveElement
  <2> QED
    BY <2>1, <2>2, <1>2, <1>3
<1>4. CASE c \in B /\ c \notin A
  <2>1. A = B \ {c}
    BY <1>4
  <2>2. Cardinality(B \ {c}) = Cardinality(B) - 1
    BY <1>1, <1>4, FS_RemoveElement
  <2> QED
    BY <2>1, <2>2, <1>2, <1>4
<1>5. CASE c \in A <=> c \in B
  <2>1. A = B
    BY <1>5
  <2> QED
    BY <2>1, <1>2
<1> QED
  BY <1>3, <1>4, <1>5

-----------------------------------------------------------------------------
(***************************************************************************)
(* The network as a bag: what sending and reading do to the copies of each *)
(* datagram.                                                               *)
(***************************************************************************)
CopiesOf(d, B) == IF d \in BagToSet(B) THEN B[d] ELSE 0

LEMMA CopiesType ==
  ASSUME NEW B, IsABag(B)
  PROVE  \A d : /\ CopiesOf(d, B) \in Nat
                /\ CopiesOf(d, B) > 0 <=> d \in BagToSet(B)
BY DEF IsABag, CopiesOf, BagToSet

LEMMA BagOfNone == IsABag(EmptyBag) /\ \A d : CopiesOf(d, EmptyBag) = 0
BY DEF IsABag, EmptyBag, SetToBag, CopiesOf, BagToSet

LEMMA BagGains ==
  ASSUME NEW B, IsABag(B), NEW S
  PROVE  /\ IsABag(B (+) SetToBag(S))
         /\ BagToSet(B (+) SetToBag(S)) = BagToSet(B) \cup S
         /\ \A d : CopiesOf(d, B (+) SetToBag(S)) = CopiesOf(d, B) + (IF d \in S THEN 1 ELSE 0)
BY DEF IsABag, CopiesOf, BagToSet, SetToBag, (+)

LEMMA BagLoses ==
  ASSUME NEW B, IsABag(B), NEW e \in BagToSet(B)
  PROVE  /\ IsABag(B (-) SetToBag({e}))
         /\ BagToSet(B (-) SetToBag({e})) \subseteq BagToSet(B)
         /\ \A d : CopiesOf(d, B (-) SetToBag({e})) = CopiesOf(d, B) - (IF d = e THEN 1 ELSE 0)
BY DEF IsABag, CopiesOf, BagToSet, SetToBag, (-)

(***************************************************************************)
(* Induction over the natural numbers, stated of a set instead of a        *)
(* predicate so that a first-order prover can be given it, and functions   *)
(* defined by recursion.                                                   *)
(***************************************************************************)
\* Every set of natural numbers has a least element.
LEMMA LeastElement ==
  ASSUME NEW T \in SUBSET Nat, T # {}
  PROVE  \E x \in T : \A y \in T : x <= y
<1>1. IsWellFoundedOn(OpToRel(<, Nat), Nat)
  BY NatLessThanWellFounded
<1>2. \E x \in T : \A y \in T : ~ (<<y, x>> \in OpToRel(<, Nat))
  BY <1>1, WFMin
<1>3. \A x, y \in Nat : <<y, x>> \in OpToRel(<, Nat) <=> y < x
  BY DEF OpToRel
<1>4. PICK x \in T : \A y \in T : ~ (<<y, x>> \in OpToRel(<, Nat))
  BY <1>2, Zenon
<1>5. \A y \in T : ~ (y < x)
  BY <1>3, <1>4, Zenon
<1> QED
  BY <1>5

\* A set that holds 0 and with every number below n the next one holds all
\* numbers up to n.
LEMMA UpwardInduction ==
  ASSUME NEW n \in Nat, NEW T, 0 \in T, \A i \in 0 .. n - 1 : i \in T => i + 1 \in T
  PROVE  0 .. n \subseteq T
<1> SUFFICES ASSUME (0 .. n) \ T # {} PROVE FALSE
  OBVIOUS
<1>0. (0 .. n) \ T \in SUBSET Nat
  OBVIOUS
<1>1. PICK x \in (0 .. n) \ T : \A y \in (0 .. n) \ T : x <= y
  BY <1>0, LeastElement, Zenon
<1>2. x # 0 /\ x \in 0 .. n
  BY <1>1
<1>3. x - 1 \in 0 .. n - 1 /\ x - 1 \in T
  BY <1>1, <1>2
<1> QED
  BY <1>1, <1>3

\* f is defined over 0 .. n by recursion: from a value, step by step.
Recurs(f, n, base, step) ==
  f = [i \in 0 .. n |-> IF i = 0 THEN base ELSE step[<<f[i - 1], i>>]]

\* A recursion over 0 .. n whose values stay in a set has a solution.
LEMMA RecursionHasSolution ==
  ASSUME NEW n \in Nat, NEW V, NEW base \in V, NEW step \in [V \X (1 .. n) -> V]
  PROVE  \E f \in [0 .. n -> V] : Recurs(f, n, base, step)
<1> DEFINE Solves(f, k) == f[0] = base /\ \A i \in 1 .. k : f[i] = step[<<f[i - 1], i>>]
           T == {k \in 0 .. n : \E f \in [0 .. k -> V] : Solves(f, k)}
<1>1. 0 \in T
  <2> DEFINE f == [i \in 0 .. 0 |-> base]
  <2>1. f \in [0 .. 0 -> V]
    OBVIOUS
  <2>2. f[0] = base /\ \A i \in 1 .. 0 : FALSE
    OBVIOUS
  <2> HIDE DEF f
  <2>3. Solves(f, 0)
    BY <2>2
  <2>4. 0 \in 0 .. n
    OBVIOUS
  <2> QED
    BY <2>1, <2>3, <2>4
<1>2. ASSUME NEW k \in 0 .. n - 1, k \in T
      PROVE  k + 1 \in T
  <2>1. PICK f \in [0 .. k -> V] : Solves(f, k)
    BY <1>2
  <2> DEFINE g == [i \in 0 .. k + 1 |-> IF i <= k THEN f[i] ELSE step[<<f[k], k + 1>>]]
  <2>2. f[k] \in V /\ k + 1 \in 1 .. n
    BY <2>1
  <2>3. step[<<f[k], k + 1>>] \in V
    BY <2>2
  <2>4. g \in [0 .. k + 1 -> V]
    BY <2>1, <2>3
  <2>5. g[0] = base
    BY <2>1
  <2>6. \A i \in 1 .. k : g[i] = f[i] /\ g[i - 1] = f[i - 1]
    BY <2>1
  <2>7. g[k + 1] = step[<<f[k], k + 1>>] /\ g[k] = f[k]
    BY <2>1
  <2> HIDE DEF g
  <2>8. ASSUME NEW i \in 1 .. k + 1 PROVE g[i] = step[<<g[i - 1], i>>]
    <3>1. CASE i \in 1 .. k
      BY <3>1, <2>1, <2>6
    <3>2. CASE i = k + 1
      <4>1. i - 1 = k
        BY <3>2
      <4> QED  BY <3>2, <4>1, <2>7, Zenon
    <3> QED  BY <3>1, <3>2
  <2> QED
    BY <2>2, <2>4, <2>5, <2>8
<1> HIDE DEF T
<1>3. 0 .. n \subseteq T
  BY <1>1, <1>2, UpwardInduction
<1>4. n \in T
  BY <1>3
<1>5. PICK f \in [0 .. n -> V] : Solves(f, n)
  BY <1>4 DEF T
<1>6. \A i \in 0 .. n : i # 0 => i \in 1 .. n
  OBVIOUS
<1>7. f = [i \in 0 .. n |-> f[i]]
  OBVIOUS
<1>8. \A i \in 0 .. n : f[i] = IF i = 0 THEN base ELSE step[<<f[i - 1], i>>]
  BY <1>5, <1>6, Zenon
<1>9. f = [i \in 0 .. n |-> IF i = 0 THEN base ELSE step[<<f[i - 1], i>>]]
  BY <1>7, <1>8, Zenon
<1> QED
  BY <1>5, <1>9 DEF Recurs
=============================================================================
