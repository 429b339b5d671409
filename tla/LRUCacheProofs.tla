--------------------------- MODULE LRUCacheProofs ---------------------------
(***************************************************************************)
(* Proofs about LRUCache, for any number of keys and contents, any size,   *)
(* any number of results in callers' hands and any length of time.         *)
(***************************************************************************)
EXTENDS LRUCache, FiniteSetTheorems, TLAPS

-----------------------------------------------------------------------------
(* The inductive invariant *)

Entries == [key : Keys, value : Objects, expiresAt : Nat]

TypeOK ==
    /\ now \in Nat
    /\ list \in Seq(Elements)
    /\ index \in [DOMAIN index -> Elements] /\ DOMAIN index \subseteq Keys
    /\ elem \in [LiveElements -> Entries]
    /\ heap \in [LiveObjects -> Contents]
    /\ held \subseteq Objects /\ IsFiniteSet(held) /\ Cardinality(held) <= MaxHeld

\* No two entries share a result, and no entry shares one with a caller.
Private ==
    /\ \A e \in Range(list) : elem[e].value \notin held
    /\ \A e, f \in Range(list) : elem[e].value = elem[f].value => e = f

IInv == TypeOK /\ IndexMatchesList /\ Private /\ OrderedByUse

-----------------------------------------------------------------------------
(* Sequences without repetition *)

\* Taking an element out leaves the others, in their order.
LEMMA RemoveFacts ==
    ASSUME NEW S, NEW s \in Seq(S), IsInjective(s), NEW e \in Range(s)
    PROVE  /\ RemoveFirst(s, e) \in Seq(S)
           /\ Len(RemoveFirst(s, e)) = Len(s) - 1
           /\ IsInjective(RemoveFirst(s, e))
           /\ Range(RemoveFirst(s, e)) = Range(s) \ {e}
           /\ \A i, j \in DOMAIN RemoveFirst(s, e) : i < j =>
                 \E m, n \in DOMAIN s : /\ m < n
                                        /\ s[m] = RemoveFirst(s, e)[i]
                                        /\ s[n] = RemoveFirst(s, e)[j]
<1>1. PICK p \in 1..Len(s) : s[p] = e
  BY DEF Range
<1>2. \A i \in 1..Len(s) : s[i] = e <=> i = p
  BY <1>1 DEF IsInjective
<1>3. SelectInSeq(s, LAMBDA v : v = e) = p
  <2>1. {i \in 1..Len(s) : s[i] = e} = {p}
    BY <1>2
  <2>2. Min({p}) = p
    BY DEF Min
  <2> QED BY <2>1, <2>2 DEF SelectInSeq
<1>4. RemoveFirst(s, e) = RemoveAt(s, p)
  BY <1>1, <1>3 DEF RemoveFirst
<1> DEFINE t == RemoveAt(s, p)
<1>5. /\ t \in Seq(S) /\ Len(t) = Len(s) - 1
      /\ \A i \in 1..(Len(s) - 1) : t[i] = IF i < p THEN s[i] ELSE s[i + 1]
  <2> DEFINE a == SubSeq(s, 1, p - 1)
             b == SubSeq(s, p + 1, Len(s))
  <2>1. Len(s) \in Nat /\ p \in Nat /\ 1 <= p /\ p <= Len(s)
    OBVIOUS
  <2>2. a \in Seq(S) /\ Len(a) = p - 1 /\ \A i \in 1..(p - 1) : a[i] = s[i]
    BY <2>1
  <2>3. b \in Seq(S) /\ Len(b) = Len(s) - p /\ \A i \in 1..(Len(s) - p) : b[i] = s[p + i]
    BY <2>1
  <2>4. t = a \o b
    BY DEF RemoveAt
  <2> HIDE DEF a, b, t
  <2>5. /\ t \in Seq(S) /\ Len(t) = Len(s) - 1
        /\ \A i \in 1..(Len(s) - 1) : t[i] = IF i <= Len(a) THEN a[i] ELSE b[i - Len(a)]
    <3>0. a \in Seq(S) /\ b \in Seq(S)
      BY <2>2, <2>3
    <3>1. a \o b \in Seq(S) /\ Len(a \o b) = Len(a) + Len(b)
      BY <3>0
    <3>2. Len(a) + Len(b) = Len(s) - 1
      BY <2>1, <2>2, <2>3
    <3>3. \A i \in 1..(Len(a) + Len(b)) :
             (a \o b)[i] = IF i <= Len(a) THEN a[i] ELSE b[i - Len(a)]
      BY <3>0
    <3> QED BY <2>4, <3>1, <3>2, <3>3
  <2>6. ASSUME NEW i \in 1..(Len(s) - 1) PROVE t[i] = IF i < p THEN s[i] ELSE s[i + 1]
    <3>1. CASE i < p
      BY <2>1, <2>2, <2>5, <3>1
    <3>2. CASE i >= p
      <4>1. i - (p - 1) \in 1..(Len(s) - p) /\ p + (i - (p - 1)) = i + 1
        BY <2>1, <3>2
      <4> QED BY <2>1, <2>2, <2>3, <2>5, <3>2, <4>1
    <3> QED BY <2>1, <3>1, <3>2
  <2> QED BY <2>5, <2>6
<1>6. DOMAIN t = 1..(Len(s) - 1) /\ DOMAIN s = 1..Len(s) /\ Len(s) \in Nat
  BY <1>5
<1> HIDE DEF t
<1>7. IsInjective(t)
  <2> SUFFICES ASSUME NEW i \in DOMAIN t, NEW j \in DOMAIN t, t[i] = t[j] PROVE i = j
    BY DEF IsInjective
  <2>1. \A k, l \in 1..Len(s) : s[k] = s[l] => k = l
    BY <1>6 DEF IsInjective
  <2> DEFINE at(k) == IF k < p THEN k ELSE k + 1
  <2>2. at(i) \in 1..Len(s) /\ at(j) \in 1..Len(s) /\ s[at(i)] = t[i] /\ s[at(j)] = t[j]
    BY <1>5, <1>6
  <2>3. at(i) = at(j)
    BY <2>1, <2>2
  <2> QED BY <1>6, <2>3
<1>8. Range(t) = Range(s) \ {e}
  <2>1. ASSUME NEW i \in DOMAIN t PROVE t[i] \in Range(s) \ {e}
    BY <1>2, <1>5, <1>6, <2>1 DEF Range
  <2>2. ASSUME NEW i \in DOMAIN s, s[i] # e PROVE s[i] \in Range(t)
    <3>1. CASE i < p
      BY <1>5, <1>6, <3>1 DEF Range
    <3>2. CASE i > p
      <4>1. i - 1 \in DOMAIN t /\ t[i - 1] = s[i]
        BY <1>5, <1>6, <3>2
      <4> QED BY <4>1 DEF Range
    <3> QED BY <1>1, <1>6, <2>2, <3>1, <3>2
  <2> QED BY <2>1, <2>2 DEF Range
<1>9. ASSUME NEW i \in DOMAIN t, NEW j \in DOMAIN t, i < j
      PROVE  \E m, n \in DOMAIN s : m < n /\ s[m] = t[i] /\ s[n] = t[j]
  <2> DEFINE at(k) == IF k < p THEN k ELSE k + 1
  <2>1. at(i) \in DOMAIN s /\ at(j) \in DOMAIN s /\ at(i) < at(j)
    BY <1>6, <1>9
  <2>2. s[at(i)] = t[i] /\ s[at(j)] = t[j]
    BY <1>5, <1>6, <1>9
  <2> QED BY <2>1, <2>2
<1> QED BY <1>4, <1>5, <1>7, <1>8, <1>9 DEF t

\* Moving an element to the front changes the order of no two others.
LEMMA MoveFacts ==
    ASSUME NEW S, list \in Seq(S), IsInjective(list), NEW e \in Range(list)
    PROVE  /\ MoveToFront(e) \in Seq(S)
           /\ Len(MoveToFront(e)) = Len(list)
           /\ IsInjective(MoveToFront(e))
           /\ Range(MoveToFront(e)) = Range(list)
           /\ \A i, j \in DOMAIN MoveToFront(e) : i < j =>
                 /\ MoveToFront(e)[j] # e
                 /\ \/ MoveToFront(e)[i] = e
                    \/ \E m, n \in DOMAIN list : /\ m < n
                                                 /\ list[m] = MoveToFront(e)[i]
                                                 /\ list[n] = MoveToFront(e)[j]
<1> DEFINE r == RemoveFirst(list, e)
           t == MoveToFront(e)
<1>1. /\ r \in Seq(S) /\ Len(r) = Len(list) - 1 /\ IsInjective(r)
      /\ Range(r) = Range(list) \ {e}
      /\ \A i, j \in DOMAIN r : i < j =>
           \E m, n \in DOMAIN list : m < n /\ list[m] = r[i] /\ list[n] = r[j]
  BY RemoveFacts
<1>2. t = <<e>> \o r
  BY DEF MoveToFront
<1> HIDE DEF r, t
<1>3. e \in S /\ Len(list) \in Nat
  BY DEF Range
<1>4. /\ t \in Seq(S) /\ Len(t) = Len(list) /\ DOMAIN t = 1..Len(list)
      /\ t[1] = e /\ \A i \in 2..Len(list) : t[i] = r[i - 1] /\ i - 1 \in DOMAIN r
  BY <1>1, <1>2, <1>3
<1>5. DOMAIN r = 1..(Len(list) - 1) /\ \A i \in DOMAIN r : i + 1 \in DOMAIN t /\ t[i + 1] = r[i]
  BY <1>1, <1>2, <1>3
<1>6. \A i \in DOMAIN r : r[i] # e
  BY <1>1 DEF Range
<1>7. Range(t) = Range(list)
  <2>1. ASSUME NEW i \in DOMAIN t PROVE t[i] \in {e} \cup Range(r)
    <3>1. i = 1 \/ i \in 2..Len(list)
      BY <1>3, <1>4
    <3> QED BY <1>4, <3>1 DEF Range
  <2>2. ASSUME NEW i \in DOMAIN r PROVE r[i] \in Range(t)
    BY <1>5 DEF Range
  <2>3. e \in Range(t)
    <3>1. 1 \in DOMAIN t
      BY <1>3, <1>4 DEF Range
    <3> QED BY <1>4, <3>1 DEF Range
  <2>4. Range(t) = {e} \cup Range(r)
    BY <2>1, <2>2, <2>3 DEF Range
  <2> QED BY <1>1, <2>4
<1>8. IsInjective(t)
  <2> SUFFICES ASSUME NEW i \in DOMAIN t, NEW j \in DOMAIN t, t[i] = t[j] PROVE i = j
    BY DEF IsInjective
  <2>1. CASE i = 1 \/ j = 1
    BY <1>3, <1>4, <1>6, <2>1
  <2>2. CASE i # 1 /\ j # 1
    <3>1. r[i - 1] = r[j - 1] /\ i - 1 \in DOMAIN r /\ j - 1 \in DOMAIN r
      BY <1>3, <1>4, <2>2
    <3>2. i - 1 = j - 1
      BY <1>1, <3>1 DEF IsInjective
    <3> QED BY <1>3, <1>4, <3>2
  <2> QED BY <2>1, <2>2
<1>9. ASSUME NEW i \in DOMAIN t, NEW j \in DOMAIN t, i < j
      PROVE  /\ t[j] # e
             /\ \/ t[i] = e
                \/ \E m, n \in DOMAIN list : m < n /\ list[m] = t[i] /\ list[n] = t[j]
  <2>1. j \in 2..Len(list)
    BY <1>3, <1>4, <1>9
  <2>2. t[j] = r[j - 1] /\ j - 1 \in DOMAIN r
    BY <1>4, <2>1
  <2>3. CASE i = 1
    BY <1>4, <1>6, <2>2, <2>3
  <2>4. CASE i # 1
    <3>1. t[i] = r[i - 1] /\ i - 1 \in DOMAIN r
      BY <1>3, <1>4, <2>4
    <3>2. i - 1 < j - 1
      BY <1>3, <1>4, <1>9
    <3> QED BY <1>1, <1>6, <2>2, <3>1, <3>2
  <2> QED BY <2>3, <2>4
<1> QED BY <1>4, <1>7, <1>8, <1>9 DEF t

\* A new element in front leaves the order of the others.
LEMMA PushFacts ==
    ASSUME NEW S, NEW s \in Seq(S), IsInjective(s), NEW e \in S \ Range(s)
    PROVE  /\ <<e>> \o s \in Seq(S)
           /\ Len(<<e>> \o s) = Len(s) + 1
           /\ IsInjective(<<e>> \o s)
           /\ Range(<<e>> \o s) = Range(s) \cup {e}
           /\ \A i, j \in DOMAIN (<<e>> \o s) : i < j =>
                 /\ (<<e>> \o s)[j] \in Range(s)
                 /\ \/ (<<e>> \o s)[i] = e
                    \/ \E m, n \in DOMAIN s : /\ m < n
                                              /\ s[m] = (<<e>> \o s)[i]
                                              /\ s[n] = (<<e>> \o s)[j]
<1> DEFINE t == <<e>> \o s
<1>1. /\ t \in Seq(S) /\ Len(t) = Len(s) + 1 /\ DOMAIN t = 1..(Len(s) + 1)
      /\ t[1] = e /\ \A i \in 2..(Len(s) + 1) : t[i] = s[i - 1] /\ i - 1 \in DOMAIN s
      /\ \A i \in DOMAIN s : i + 1 \in DOMAIN t /\ t[i + 1] = s[i]
      /\ DOMAIN s = 1..Len(s) /\ Len(s) \in Nat
  OBVIOUS
<1>2. \A i \in DOMAIN s : s[i] \in Range(s) /\ s[i] # e
  BY DEF Range
<1> HIDE DEF t
<1>3. IsInjective(t)
  <2> SUFFICES ASSUME NEW i \in DOMAIN t, NEW j \in DOMAIN t, t[i] = t[j] PROVE i = j
    BY DEF IsInjective
  <2>1. CASE i = 1 \/ j = 1
    <3>1. ASSUME NEW k \in DOMAIN t, k # 1 PROVE t[k] # e
      <4>1. k \in 2..(Len(s) + 1)
        BY <1>1, <3>1
      <4> QED BY <1>1, <1>2, <4>1
    <3> QED BY <1>1, <2>1, <3>1
  <2>2. CASE i # 1 /\ j # 1
    <3>1. s[i - 1] = s[j - 1] /\ i - 1 \in DOMAIN s /\ j - 1 \in DOMAIN s
      BY <1>1, <2>2
    <3>2. i - 1 = j - 1
      BY <3>1 DEF IsInjective
    <3> QED BY <1>1, <3>2
  <2> QED BY <2>1, <2>2
<1>4. Range(t) = Range(s) \cup {e}
  <2>1. ASSUME NEW i \in DOMAIN t PROVE t[i] \in Range(s) \cup {e}
    <3>1. i = 1 \/ i \in 2..(Len(s) + 1)
      BY <1>1
    <3> QED BY <1>1, <1>2, <3>1
  <2>2. ASSUME NEW i \in DOMAIN s PROVE s[i] \in Range(t)
    BY <1>1 DEF Range
  <2>3. e \in Range(t)
    <3>1. 1 \in DOMAIN t
      BY <1>1
    <3> QED BY <1>1, <3>1 DEF Range
  <2> QED BY <2>1, <2>2, <2>3 DEF Range
<1>5. ASSUME NEW i \in DOMAIN t, NEW j \in DOMAIN t, i < j
      PROVE  /\ t[j] \in Range(s)
             /\ \/ t[i] = e
                \/ \E m, n \in DOMAIN s : m < n /\ s[m] = t[i] /\ s[n] = t[j]
  <2>1. j \in 2..(Len(s) + 1)
    BY <1>1, <1>5
  <2>2. t[j] = s[j - 1] /\ j - 1 \in DOMAIN s
    BY <1>1, <2>1
  <2>3. CASE i = 1
    BY <1>1, <1>2, <2>2, <2>3
  <2>4. CASE i # 1
    <3>1. t[i] = s[i - 1] /\ i - 1 \in DOMAIN s
      BY <1>1, <2>4
    <3>2. i - 1 < j - 1
      BY <1>1, <1>5
    <3> QED BY <1>2, <2>2, <3>1, <3>2
  <2> QED BY <2>3, <2>4
<1> QED BY <1>1, <1>3, <1>4, <1>5 DEF t

\* Without its last element a sequence has the others.
LEMMA PopFacts ==
    ASSUME NEW S, NEW s \in Seq(S), IsInjective(s), Len(s) > 0
    PROVE  /\ Front(s) \in Seq(S) /\ Len(Front(s)) = Len(s) - 1
           /\ IsInjective(Front(s))
           /\ Range(Front(s)) = Range(s) \ {Last(s)}
           /\ DOMAIN Front(s) \subseteq DOMAIN s
           /\ \A i \in DOMAIN Front(s) : Front(s)[i] = s[i]
<1> DEFINE t == Front(s)
<1>1. /\ t \in Seq(S) /\ Len(t) = Len(s) - 1 /\ DOMAIN t = 1..(Len(s) - 1)
      /\ \A i \in DOMAIN t : t[i] = s[i]
      /\ DOMAIN s = 1..Len(s) /\ Len(s) \in Nat
  <2>1. Len(s) \in Nat /\ Len(s) - 1 \in Nat /\ Len(s) - 1 <= Len(s) /\ DOMAIN s = 1..Len(s)
    OBVIOUS
  <2>2. t = SubSeq(s, 1, Len(s) - 1)
    BY DEF Front
  <2>3. t \in Seq(S) /\ Len(t) = Len(s) - 1
    BY <2>1, <2>2
  <2>4. \A i \in 1..(Len(s) - 1) : t[i] = s[i]
    BY <2>1, <2>2
  <2> HIDE DEF t
  <2>5. DOMAIN t = 1..(Len(s) - 1)
    BY <2>3
  <2> QED BY <2>1, <2>3, <2>4, <2>5
<1>2. Last(s) = s[Len(s)]
  BY DEF Last
<1> HIDE DEF t
<1>3. DOMAIN t \subseteq DOMAIN s /\ DOMAIN t = DOMAIN s \ {Len(s)} /\ Len(s) \in DOMAIN s
  BY <1>1
<1>4. IsInjective(t)
  BY <1>1, <1>3 DEF IsInjective
<1>5. Range(t) = Range(s) \ {Last(s)}
  <2>1. ASSUME NEW i \in DOMAIN t PROVE t[i] \in Range(s) \ {Last(s)}
    BY <1>1, <1>2, <1>3 DEF Range, IsInjective
  <2>2. ASSUME NEW i \in DOMAIN s, s[i] # Last(s) PROVE s[i] \in Range(t)
    BY <1>1, <1>2, <1>3, <2>2 DEF Range
  <2> QED BY <2>1, <2>2 DEF Range
<1> QED BY <1>1, <1>3, <1>4, <1>5 DEF t

-----------------------------------------------------------------------------
(* Memory *)

\* The elements in use are the ones in the list.
LEMMA LiveIsListed ==
    ASSUME IndexMatchesList
    PROVE  LiveElements = Range(list)
BY DEF IndexMatchesList, LiveElements

\* There are no more of them than entries.
LEMMA ListedIsFinite ==
    ASSUME IInv
    PROVE  /\ IsFiniteSet(Range(list)) /\ Cardinality(Range(list)) \in Nat
           /\ Cardinality(Range(list)) <= size
<1>1. list \in Seq(Elements) /\ Len(list) \in Nat /\ Len(list) <= size /\ size \in Nat
  BY LRUCacheAssumption DEF IInv, TypeOK, IndexMatchesList
<1>2. IsFiniteSet(1..Len(list)) /\ Cardinality(1..Len(list)) = Len(list)
  <2>1. 1 \in Int /\ Len(list) \in Int
    BY <1>1
  <2>2. /\ IsFiniteSet(1..Len(list))
        /\ Cardinality(1..Len(list)) = IF 1 > Len(list) THEN 0 ELSE Len(list) - 1 + 1
    BY <2>1, FS_Interval, Zenon
  <2> QED BY <1>1, <2>2
<1>3. list \in Surjection(1..Len(list), Range(list))
  BY <1>1 DEF Surjection, Range
<1>4. IsFiniteSet(Range(list)) /\ Cardinality(Range(list)) <= Len(list)
  BY <1>2, <1>3, FS_Surjection
<1>5. Cardinality(Range(list)) \in Nat
  BY <1>4, FS_CardinalityType
<1> QED BY <1>1, <1>4, <1>5

\* A set of naturals that is too small leaves one out.
LEMMA OneIsFree ==
    ASSUME NEW S, IsFiniteSet(S), NEW n \in Nat, Cardinality(S) < n
    PROVE  \E i \in 1..n : i \notin S
<1> SUFFICES ASSUME 1..n \subseteq S PROVE FALSE
  OBVIOUS
<1>1. Cardinality(1..n) <= Cardinality(S)
  BY FS_Subset
<1>2. Cardinality(1..n) = n
  BY FS_Interval
<1>3. Cardinality(S) \in Nat
  BY FS_CardinalityType
<1> QED BY <1>1, <1>2, <1>3

\* The allocator of list elements always finds one that is not in use.
LEMMA FreshElement ==
    ASSUME IInv
    PROVE  newElement \in Elements \ Range(list)
<1>1. LiveElements = Range(list)
  BY LiveIsListed DEF IInv
<1>2. size + 1 \in Nat /\ Cardinality(Range(list)) < size + 1
  BY ListedIsFinite, LRUCacheAssumption
<1>3. \E e \in Elements : e \notin LiveElements
  BY <1>1, <1>2, ListedIsFinite, OneIsFree DEF Elements
<1> QED BY <1>1, <1>3 DEF newElement

\* ... and so does that of results.
LEMMA FreshObject ==
    ASSUME IInv
    PROVE  newObject \in Objects \ LiveObjects
<1> DEFINE V == {elem[e].value : e \in Range(list)}
           f == [e \in Range(list) |-> elem[e].value]
<1>1. LiveObjects = held \cup V
  BY LiveIsListed DEF IInv, LiveObjects
<1>2. f \in Surjection(Range(list), V)
  BY DEF Surjection
<1> HIDE DEF f
<1>3. IsFiniteSet(V) /\ Cardinality(V) <= Cardinality(Range(list))
  BY <1>2, ListedIsFinite, FS_Surjection
<1>4. IsFiniteSet(held) /\ Cardinality(held) <= MaxHeld
  BY DEF IInv, TypeOK
<1> HIDE DEF V
<1>5. /\ IsFiniteSet(held \cup V)
      /\ Cardinality(held \cup V) = Cardinality(held) + Cardinality(V) - Cardinality(held \cap V)
  BY <1>3, <1>4, FS_Union
<1>6. /\ Cardinality(V) \in Nat /\ Cardinality(held) \in Nat
      /\ IsFiniteSet(held \cap V) /\ Cardinality(held \cap V) \in Nat
  BY <1>3, <1>4, FS_CardinalityType, FS_Intersection
<1>7. size + MaxHeld + 2 \in Nat /\ size \in Nat /\ MaxHeld \in Nat
  BY LRUCacheAssumption
<1>8. Cardinality(held \cup V) < size + MaxHeld + 2
  BY <1>3, <1>4, <1>5, <1>6, <1>7, ListedIsFinite
<1>9. \E o \in Objects : o \notin LiveObjects
  BY <1>1, <1>5, <1>7, <1>8, OneIsFree DEF Objects
<1> QED BY <1>9 DEF newObject

-----------------------------------------------------------------------------
(* The steps.  What the cache holds under a key: *)

Value(k) == heap[elem[index[k]].value]
Until(k) == elem[index[k]].expiresAt

\* The facts about the current state that every step needs.
LEMMA Now ==
    ASSUME IInv
    PROVE  /\ TypeOK /\ IndexMatchesList /\ Private /\ OrderedByUse
           /\ LiveElements = Range(list)
           /\ LiveObjects = held \cup {elem[e].value : e \in Range(list)}
           /\ \A e \in Range(list) : e \in Elements /\ elem[e] \in Entries
           /\ \A k \in DOMAIN index : index[k] \in Range(list) /\ elem[index[k]].key = k
           /\ \A e \in Range(list) : elem[e].key \in DOMAIN index /\ index[elem[e].key] = e
<1>1. TypeOK /\ IndexMatchesList /\ Private /\ OrderedByUse
  BY DEF IInv
<1>2. LiveElements = Range(list)
  BY <1>1, LiveIsListed
<1>3. LiveObjects = held \cup {elem[e].value : e \in Range(list)}
  BY <1>2 DEF LiveObjects
<1>4. \A e \in Range(list) : e \in Elements /\ elem[e] \in Entries
  BY <1>1, <1>2 DEF TypeOK, Range
<1> QED BY <1>1, <1>2, <1>3, <1>4 DEF IndexMatchesList

\* A caller takes a result, gives it a content or forgets it: the cache keeps
\* what it holds, as no entry's result is among the callers'.
LEMMA CallerStep ==
    ASSUME IInv, UNCHANGED <<list, index, elem, since>>,
           now' \in Nat,
           held' \subseteq Objects, IsFiniteSet(held'), Cardinality(held') <= MaxHeld,
           \A e \in Range(list) : elem[e].value \notin held',
           heap' \in [LiveObjects' -> Contents]
    PROVE  IInv'
<1>1. TypeOK /\ IndexMatchesList /\ Private /\ OrderedByUse
  BY DEF IInv
<1>2. LiveElements' = LiveElements
  BY DEF LiveElements
<1>3. TypeOK'
  BY <1>1, <1>2 DEF TypeOK
<1>4. IndexMatchesList' /\ Private' /\ OrderedByUse'
  BY <1>1 DEF IndexMatchesList, Private, OrderedByUse
<1> QED BY <1>3, <1>4 DEF IInv

\* What the cache holds under its keys stays.
Untouched == index' = index /\ \A k \in DOMAIN index : Value(k)' = Value(k) /\ Until(k)' = Until(k)

\* A caller makes a result.
LEMMA ProduceStep ==
    ASSUME IInv, NEW c \in Contents, Produce(c)
    PROVE  IInv' /\ Untouched
<1> DEFINE o == newObject
<1>1. o \in Objects \ LiveObjects
  BY FreshObject
<1> HIDE DEF o
<1>2. UNCHANGED <<now, list, index, elem, since>> /\ held' = held \cup {o}
      /\ heap' = [i \in LiveObjects' |-> IF i = o THEN c ELSE heap[i]]
      /\ Cardinality(held) < MaxHeld
  BY DEF Produce, writeObject, o
<1>3. LiveElements' = LiveElements
  BY <1>2 DEF LiveElements
<1>4. LiveObjects' = LiveObjects \cup {o}
  BY <1>2, <1>3 DEF LiveObjects
<1>5. heap' \in [LiveObjects' -> Contents]
  BY <1>2, <1>4, Now DEF TypeOK
<1>6. held' \subseteq Objects /\ IsFiniteSet(held') /\ Cardinality(held') <= MaxHeld
  <2>1. IsFiniteSet(held) /\ held \subseteq Objects
    BY Now DEF TypeOK
  <2>2. /\ IsFiniteSet(held \cup {o}) /\ Cardinality(held) \in Nat
        /\ Cardinality(held \cup {o}) = IF o \in held THEN Cardinality(held) ELSE Cardinality(held) + 1
    BY <2>1, FS_AddElement, FS_CardinalityType
  <2>3. MaxHeld \in Nat
    BY LRUCacheAssumption
  <2>4. Cardinality(held \cup {o}) <= MaxHeld
    BY <1>2, <2>2, <2>3
  <2> QED BY <1>1, <1>2, <2>1, <2>2, <2>4
<1>7. \A e \in Range(list) : elem[e].value \notin held'
  BY <1>1, <1>2, Now DEF Private
<1>8. now' \in Nat
  BY <1>2, Now DEF TypeOK
<1>9. IInv'
  BY <1>2, <1>5, <1>6, <1>7, <1>8, CallerStep
<1>10. ASSUME NEW k \in DOMAIN index PROVE Value(k)' = Value(k) /\ Until(k)' = Until(k)
  <2>1. elem[index[k]].value \in LiveObjects
    BY Now
  <2> QED BY <1>1, <1>2, <1>4, <2>1 DEF Value, Until
<1> QED BY <1>2, <1>9, <1>10 DEF Untouched

\* A caller rewrites a result that it holds.
LEMMA RewriteStep ==
    ASSUME IInv, NEW o \in held, NEW c \in Contents, Rewrite(o, c)
    PROVE  IInv' /\ Untouched
<1>2. UNCHANGED <<now, list, index, elem, since, held>>
      /\ heap' = [i \in LiveObjects' |-> IF i = o THEN c ELSE heap[i]]
  BY DEF Rewrite, writeObject
<1>3. LiveElements' = LiveElements
  BY <1>2 DEF LiveElements
<1>4. LiveObjects' = LiveObjects
  BY <1>2, <1>3 DEF LiveObjects
<1>5. heap' \in [LiveObjects' -> Contents]
  BY <1>2, <1>4, Now DEF TypeOK
<1>6. held' \subseteq Objects /\ IsFiniteSet(held') /\ Cardinality(held') <= MaxHeld /\ now' \in Nat
  BY <1>2, Now DEF TypeOK
<1>7. \A e \in Range(list) : elem[e].value \notin held'
  BY <1>2, Now DEF Private
<1>9. IInv'
  BY <1>2, <1>5, <1>6, <1>7, CallerStep
<1>10. ASSUME NEW k \in DOMAIN index PROVE Value(k)' = Value(k) /\ Until(k)' = Until(k)
  <2>1. elem[index[k]].value \in LiveObjects /\ elem[index[k]].value # o
    BY Now DEF Private
  <2> QED BY <1>2, <1>4, <2>1 DEF Value, Until
<1> QED BY <1>2, <1>9, <1>10 DEF Untouched

\* A caller lets go of a result.
LEMMA DropStep ==
    ASSUME IInv, NEW o \in held, Drop(o)
    PROVE  IInv' /\ Untouched
<1>1. UNCHANGED <<now, list, index, since>> /\ held' = held \ {o}
      /\ elem' = [i \in LiveElements' |-> elem[i]]
      /\ heap' = [i \in LiveObjects' |-> heap[i]]
  BY DEF Drop, collect
<1>2. LiveElements' = LiveElements
  BY <1>1 DEF LiveElements
<1>3. elem' = elem
  BY <1>1, <1>2, Now DEF TypeOK
<1>4. LiveObjects' \subseteq LiveObjects /\ \A e \in Range(list) : elem[e].value \in LiveObjects'
  BY <1>1, <1>2, <1>3, Now DEF LiveObjects
<1>5. heap' \in [LiveObjects' -> Contents]
  BY <1>1, <1>4, Now DEF TypeOK
<1>6. held' \subseteq Objects /\ IsFiniteSet(held') /\ Cardinality(held') <= MaxHeld /\ now' \in Nat
  <2>1. IsFiniteSet(held) /\ held \subseteq Objects /\ Cardinality(held) <= MaxHeld /\ now \in Nat
    BY Now DEF TypeOK
  <2>2. held' \in SUBSET held
    BY <1>1
  <2>3. /\ IsFiniteSet(held') /\ Cardinality(held') <= Cardinality(held)
        /\ Cardinality(held) \in Nat
    BY <2>1, <2>2, FS_Subset, FS_CardinalityType
  <2>4. Cardinality(held') \in Nat /\ MaxHeld \in Nat
    BY <2>3, FS_CardinalityType, LRUCacheAssumption
  <2>5. Cardinality(held') <= MaxHeld
    BY <2>1, <2>3, <2>4
  <2> QED BY <1>1, <2>1, <2>2, <2>3, <2>5
<1>7. \A e \in Range(list) : elem[e].value \notin held'
  BY <1>1, Now DEF Private
<1>9. IInv'
  BY <1>1, <1>3, <1>5, <1>6, <1>7, CallerStep
<1>10. ASSUME NEW k \in DOMAIN index PROVE Value(k)' = Value(k) /\ Until(k)' = Until(k)
  BY <1>1, <1>3, <1>4, Now DEF Value, Until
<1> QED BY <1>1, <1>9, <1>10 DEF Untouched

\* Neither time nor a miss changes what is cached.
LEMMA TickStep ==
    ASSUME IInv, Tick \/ UNCHANGED vars \/ \E k \in Keys : GetMisses(k)
    PROVE  IInv' /\ Untouched
<1>1. UNCHANGED <<list, index, elem, heap, held, since>> /\ now' \in {now, now + 1}
  BY DEF Tick, vars, GetMisses
<1>2. TypeOK
  BY Now
<1>3. now' \in Nat
  <2>1. now \in Nat
    BY <1>2 DEF TypeOK
  <2> QED BY <1>1, <2>1
<1>4. LiveObjects' = LiveObjects
  BY <1>1 DEF LiveObjects, LiveElements
<1>5. IInv'
  BY <1>1, <1>2, <1>3, <1>4, Now, CallerStep DEF TypeOK, Private
<1> QED BY <1>1, <1>5 DEF Untouched, Value, Until

\* An entry that has expired is removed, and with it its result.
LEMMA ExpireStep ==
    ASSUME IInv, NEW k \in Keys, GetExpires(k)
    PROVE  /\ IInv' /\ DOMAIN index' = DOMAIN index \ {k}
           /\ \A j \in DOMAIN index' : Value(j)' = Value(j) /\ Until(j)' = Until(j)
<1> DEFINE e == index[k]
<1>1. /\ k \in DOMAIN index /\ list' = RemoveFirst(list, e)
      /\ index' = [j \in DOMAIN index \ {k} |-> index[j]]
      /\ UNCHANGED <<now, held, since>>
      /\ elem' = [i \in LiveElements' |-> elem[i]]
      /\ heap' = [i \in LiveObjects' |-> heap[i]]
  BY DEF GetExpires, collect
<1>2. list \in Seq(Elements) /\ IsInjective(list) /\ e \in Range(list) /\ Len(list) <= size
  BY <1>1, Now DEF TypeOK, IndexMatchesList
<1>3. /\ list' \in Seq(Elements) /\ Len(list') = Len(list) - 1 /\ IsInjective(list')
      /\ Range(list') = Range(list) \ {e}
      /\ \A i, j \in DOMAIN list' : i < j =>
            \E m, n \in DOMAIN list : m < n /\ list[m] = list'[i] /\ list[n] = list'[j]
  BY <1>1, <1>2, RemoveFacts
<1>4. \A j \in DOMAIN index' : index'[j] = index[j] /\ index[j] \in Range(list')
  BY <1>1, <1>3, Now
<1>5. LiveElements' = Range(list')
  BY <1>4 DEF LiveElements
<1>6. \A f \in Range(list') : elem'[f] = elem[f] /\ f \in Range(list)
  BY <1>1, <1>3, <1>5
<1>7. LiveObjects' \subseteq LiveObjects /\ \A f \in Range(list') : elem[f].value \in LiveObjects'
  BY <1>1, <1>5, <1>6, Now DEF LiveObjects
<1>8. TypeOK'
  <2>1. index' \in [DOMAIN index' -> Elements] /\ DOMAIN index' \subseteq Keys
    BY <1>1, Now DEF TypeOK
  <2>2. elem' \in [LiveElements' -> Entries]
    BY <1>1, <1>5, <1>6, Now DEF TypeOK
  <2>3. heap' \in [LiveObjects' -> Contents]
    BY <1>1, <1>7, Now DEF TypeOK
  <2> QED BY <1>1, <1>3, <2>1, <2>2, <2>3, Now DEF TypeOK
<1>9. IndexMatchesList'
  <2>1. Len(list') <= size
    <3>1. size \in Nat /\ Len(list) \in Nat
      BY <1>2, LRUCacheAssumption
    <3> QED BY <1>2, <1>3, <3>1
  <2>2. \A j \in DOMAIN index' : index'[j] \in Range(list') /\ elem'[index'[j]].key = j
    BY <1>1, <1>4, <1>6, Now
  <2>3. \A f \in Range(list') : elem'[f].key \in DOMAIN index' /\ index'[elem'[f].key] = f
    BY <1>1, <1>3, <1>6, Now
  <2> QED BY <1>3, <2>1, <2>2, <2>3 DEF IndexMatchesList
<1>10. Private'
  BY <1>1, <1>6, Now DEF Private
<1>11. OrderedByUse'
  <2> SUFFICES ASSUME NEW i \in DOMAIN list', NEW j \in DOMAIN list', i < j
               PROVE  <<elem'[list'[i]].key, elem'[list'[j]].key>> \in since'
    BY DEF OrderedByUse
  <2>1. PICK m \in DOMAIN list, n \in DOMAIN list : m < n /\ list[m] = list'[i] /\ list[n] = list'[j]
    BY <1>3
  <2>2. <<elem[list[m]].key, elem[list[n]].key>> \in since
    BY <2>1, Now DEF OrderedByUse
  <2>3. elem'[list'[i]] = elem[list[m]] /\ elem'[list'[j]] = elem[list[n]]
    BY <1>6, <2>1 DEF Range
  <2> QED BY <1>1, <2>2, <2>3
<1>12. ASSUME NEW j \in DOMAIN index' PROVE Value(j)' = Value(j) /\ Until(j)' = Until(j)
  BY <1>1, <1>4, <1>6, <1>7 DEF Value, Until
<1> QED BY <1>1, <1>8, <1>9, <1>10, <1>11, <1>12 DEF IInv

\* An entry that is used becomes the first of the list.
LEMMA UseStep ==
    ASSUME IInv, NEW k \in DOMAIN index, list' = MoveToFront(index[k]), index' = index, use(k),
           \A f \in Range(list) : elem'[f].key = elem[f].key
    PROVE  /\ list' \in Seq(Elements) /\ Range(list') = Range(list)
           /\ LiveElements' = Range(list)
           /\ IndexMatchesList' /\ OrderedByUse'
<1> DEFINE e == index[k]
<1>1. list \in Seq(Elements) /\ IsInjective(list) /\ e \in Range(list) /\ Len(list) <= size
      /\ elem[e].key = k
  BY Now DEF TypeOK, IndexMatchesList
<1>2. /\ list' \in Seq(Elements) /\ Len(list') = Len(list) /\ IsInjective(list')
      /\ Range(list') = Range(list)
      /\ \A i, j \in DOMAIN list' : i < j =>
            /\ list'[j] # e
            /\ \/ list'[i] = e
               \/ \E m, n \in DOMAIN list : m < n /\ list[m] = list'[i] /\ list[n] = list'[j]
  BY <1>1, MoveFacts
<1>3. IndexMatchesList'
  BY <1>1, <1>2, Now DEF IndexMatchesList
<1>4. LiveElements' = Range(list)
  BY <1>2, Now DEF LiveElements
<1>5. OrderedByUse'
  <2> SUFFICES ASSUME NEW i \in DOMAIN list', NEW j \in DOMAIN list', i < j
               PROVE  <<elem'[list'[i]].key, elem'[list'[j]].key>> \in since'
    BY DEF OrderedByUse
  <2>1. /\ list'[i] \in Range(list) /\ list'[j] \in Range(list) /\ list'[j] # e
        /\ elem'[list'[i]].key = elem[list'[i]].key /\ elem'[list'[j]].key = elem[list'[j]].key
    BY <1>2 DEF Range
  <2>2. elem[list'[j]].key # k /\ elem[list'[j]].key \in Keys
    BY <1>1, <2>1, Now DEF Entries
  <2>3. CASE list'[i] = e
    BY <1>1, <2>1, <2>2, <2>3 DEF use
  <2>4. CASE list'[i] # e
    <3>1. PICK m \in DOMAIN list, n \in DOMAIN list :
              m < n /\ list[m] = list'[i] /\ list[n] = list'[j]
      BY <1>2, <2>4
    <3>2. <<elem[list'[i]].key, elem[list'[j]].key>> \in since
      BY <3>1, Now DEF OrderedByUse
    <3> QED BY <2>1, <2>2, <3>2 DEF use
  <2> QED BY <2>3, <2>4
<1> QED BY <1>2, <1>3, <1>4, <1>5

\* A hit hands out a copy.
LEMMA HitStep ==
    ASSUME IInv, NEW k \in Keys, GetHits(k)
    PROVE  IInv' /\ Untouched
<1> DEFINE o == newObject
<1>1. o \in Objects \ LiveObjects
  BY FreshObject
<1> HIDE DEF o
<1>2. /\ k \in DOMAIN index /\ list' = MoveToFront(index[k]) /\ use(k)
      /\ UNCHANGED <<now, index, elem>> /\ held' = held \cup {o}
      /\ heap' = [i \in LiveObjects' |-> IF i = o THEN heap[elem[index[k]].value] ELSE heap[i]]
      /\ Cardinality(held) < MaxHeld
  BY DEF GetHits, Clone, writeObject, o
<1>3. /\ list' \in Seq(Elements) /\ Range(list') = Range(list) /\ LiveElements' = Range(list)
      /\ IndexMatchesList' /\ OrderedByUse'
  BY <1>2, UseStep
<1>4. LiveObjects' = LiveObjects \cup {o}
  BY <1>2, <1>3, Now DEF LiveObjects
<1>5. heap' \in [LiveObjects' -> Contents]
  <2>1. elem[index[k]].value \in LiveObjects
    BY <1>2, Now
  <2> QED BY <1>2, <1>4, <2>1, Now DEF TypeOK
<1>6. held' \subseteq Objects /\ IsFiniteSet(held') /\ Cardinality(held') <= MaxHeld
  <2>1. IsFiniteSet(held) /\ held \subseteq Objects
    BY Now DEF TypeOK
  <2>2. /\ IsFiniteSet(held \cup {o}) /\ Cardinality(held) \in Nat
        /\ Cardinality(held \cup {o}) = IF o \in held THEN Cardinality(held) ELSE Cardinality(held) + 1
    BY <2>1, FS_AddElement, FS_CardinalityType
  <2>3. MaxHeld \in Nat
    BY LRUCacheAssumption
  <2>4. Cardinality(held \cup {o}) <= MaxHeld
    BY <1>2, <2>2, <2>3
  <2> QED BY <1>1, <1>2, <2>1, <2>2, <2>4
<1>7. TypeOK'
  BY <1>2, <1>3, <1>5, <1>6, Now DEF TypeOK
<1>8. Private'
  BY <1>1, <1>2, <1>3, Now DEF Private
<1>9. ASSUME NEW j \in DOMAIN index PROVE Value(j)' = Value(j) /\ Until(j)' = Until(j)
  <2>1. elem[index[j]].value \in LiveObjects
    BY Now
  <2> QED BY <1>1, <1>2, <1>4, <2>1 DEF Value, Until
<1> QED BY <1>2, <1>3, <1>7, <1>8, <1>9 DEF IInv, Untouched

\* Set on a key that is there: its entry gets a result of its own.
LEMMA UpdateStep ==
    ASSUME IInv, NEW k \in Keys, NEW o \in held, NEW ttl \in 1..MaxTTL, SetUpdates(k, o, ttl)
    PROVE  /\ IInv' /\ index' = index /\ k \in DOMAIN index
           /\ Value(k)' = heap[o] /\ Until(k)' = now + ttl
           /\ \A j \in DOMAIN index \ {k} : Value(j)' = Value(j) /\ Until(j)' = Until(j)
<1> DEFINE e == index[k]
           n == newObject
           x == entry(k, o, ttl)
<1>1. n \in Objects \ LiveObjects
  BY FreshObject
<1>2. /\ k \in DOMAIN index /\ list' = MoveToFront(e) /\ use(k)
      /\ UNCHANGED <<now, index, held>>
      /\ elem' = [i \in LiveElements' |-> IF i = e THEN x ELSE elem[i]]
      /\ heap' = [i \in LiveObjects' |-> IF i = n THEN heap[o] ELSE heap[i]]
  BY DEF SetUpdates, writeEntry, writeObject, Clone
<1>3. x = [key |-> k, value |-> n, expiresAt |-> now + ttl] /\ x \in Entries
  <2>1. now \in Nat /\ MaxTTL \in Nat
    BY Now, LRUCacheAssumption DEF TypeOK
  <2>2. now + ttl \in Nat
    BY <2>1
  <2> QED BY <1>1, <2>2 DEF entry, Clone, Entries
<1> HIDE DEF n, x
<1>4. list \in Seq(Elements) /\ IsInjective(list) /\ e \in Range(list) /\ elem[e].key = k
  BY <1>2, Now DEF TypeOK, IndexMatchesList
<1>5. Range(list') = Range(list)
  BY <1>2, <1>4, MoveFacts
<1>6. LiveElements' = Range(list)
  BY <1>2, <1>5, Now DEF LiveElements
<1>7. \A f \in Range(list) : elem'[f] = IF f = e THEN x ELSE elem[f]
  BY <1>2, <1>6
<1>8. \A f \in Range(list) : elem'[f].key = elem[f].key
  BY <1>3, <1>4, <1>7
<1>9. /\ list' \in Seq(Elements) /\ IndexMatchesList' /\ OrderedByUse'
  BY <1>2, <1>8, UseStep
<1>10. /\ LiveObjects' \subseteq LiveObjects \cup {n} /\ n \in LiveObjects'
       /\ \A f \in Range(list) \ {e} : elem[f].value \in LiveObjects'
  BY <1>2, <1>3, <1>4, <1>6, <1>7, Now DEF LiveObjects
<1>11. heap' \in [LiveObjects' -> Contents] /\ heap[o] \in Contents
  <2>1. o \in LiveObjects
    BY Now
  <2> QED BY <1>2, <1>10, <2>1, Now DEF TypeOK
<1>12. elem' \in [LiveElements' -> Entries]
  BY <1>2, <1>3, <1>6, Now DEF TypeOK
<1>13. TypeOK'
  BY <1>2, <1>9, <1>11, <1>12, Now DEF TypeOK
<1>14. Private'
  <2>1. \A f \in Range(list) : elem'[f].value \notin held
    BY <1>1, <1>3, <1>7, Now DEF Private
  <2>2. \A f \in Range(list) : elem[f].value # n
    BY <1>1, Now
  <2>3. \A f, g \in Range(list) : elem'[f].value = elem'[g].value => f = g
    BY <1>3, <1>7, <2>2, Now DEF Private
  <2> QED BY <1>2, <1>5, <2>1, <2>3 DEF Private
<1>15. Value(k)' = heap[o] /\ Until(k)' = now + ttl
  BY <1>2, <1>3, <1>4, <1>7, <1>10 DEF Value, Until
<1>16. ASSUME NEW j \in DOMAIN index \ {k} PROVE Value(j)' = Value(j) /\ Until(j)' = Until(j)
  <2>1. index[j] \in Range(list) \ {e}
    BY <1>4, Now
  <2>2. elem[index[j]].value # n
    BY <1>1, <2>1, Now
  <2> QED BY <1>2, <1>7, <1>10, <2>1, <2>2 DEF Value, Until
<1> QED BY <1>2, <1>9, <1>13, <1>14, <1>15, <1>16 DEF IInv

\* Set on a key that is not there, which may push another one out.
LEMMA InsertStep ==
    ASSUME IInv, NEW k \in Keys, NEW o \in held, NEW ttl \in 1..MaxTTL, SetInserts(k, o, ttl)
    PROVE  /\ IInv' /\ k \in DOMAIN index' /\ DOMAIN index' \subseteq DOMAIN index \cup {k}
           /\ Value(k)' = heap[o] /\ Until(k)' = now + ttl
           /\ \A j \in DOMAIN index' \ {k} : Value(j)' = Value(j) /\ Until(j)' = Until(j)
<1> DEFINE e == newElement
           n == newObject
           x == entry(k, o, ttl)
           pushed == <<e>> \o list
           gone == IF overfull(pushed) THEN {Last(pushed)} ELSE {}
<1>1. n \in Objects \ LiveObjects /\ e \in Elements \ Range(list)
  BY FreshObject, FreshElement
<1>2. /\ k \notin DOMAIN index /\ list' = IF overfull(pushed) THEN Front(pushed) ELSE pushed
      /\ index' = [j \in (DOMAIN index \cup {k}) \ evicted(pushed) |-> IF j = k THEN e ELSE index[j]]
      /\ UNCHANGED <<now, held>> /\ use(k)
      /\ elem' = [i \in LiveElements' |-> IF i = e THEN x ELSE elem[i]]
      /\ heap' = [i \in LiveObjects' |-> IF i = n THEN heap[o] ELSE heap[i]]
  BY DEF SetInserts, writeEntry, writeObject, Clone
<1>3. x = [key |-> k, value |-> n, expiresAt |-> now + ttl] /\ x \in Entries
  <2>1. now \in Nat /\ MaxTTL \in Nat
    BY Now, LRUCacheAssumption DEF TypeOK
  <2>2. now + ttl \in Nat
    BY <2>1
  <2> QED BY <1>1, <2>2 DEF entry, Clone, Entries
<1> HIDE DEF n, x, e
<1>4. list \in Seq(Elements) /\ IsInjective(list) /\ Len(list) <= size /\ Len(list) \in Nat
      /\ size \in Nat \ {0}
  BY Now, LRUCacheAssumption DEF TypeOK, IndexMatchesList
<1>5. /\ pushed \in Seq(Elements) /\ Len(pushed) = Len(list) + 1 /\ IsInjective(pushed)
      /\ Range(pushed) = Range(list) \cup {e}
      /\ \A i, j \in DOMAIN pushed : i < j =>
            /\ pushed[j] \in Range(list)
            /\ \/ pushed[i] = e
               \/ \E m, l \in DOMAIN list : m < l /\ list[m] = pushed[i] /\ list[l] = pushed[j]
  BY <1>1, <1>4, PushFacts
<1>6. overfull(pushed) => Last(pushed) \in Range(list)
  <2> SUFFICES ASSUME overfull(pushed) PROVE Last(pushed) \in Range(list)
    OBVIOUS
  <2>1. Len(pushed) > 1 /\ 1 \in DOMAIN pushed /\ Len(pushed) \in DOMAIN pushed
    BY <1>4, <1>5 DEF overfull
  <2> HIDE DEF pushed
  <2> QED BY <1>5, <2>1 DEF Last
<1> HIDE DEF pushed
<1>7. /\ list' \in Seq(Elements) /\ Len(list') <= size /\ IsInjective(list')
      /\ Range(list') = (Range(list) \cup {e}) \ gone
      /\ DOMAIN list' \subseteq DOMAIN pushed
      /\ \A i \in DOMAIN list' : list'[i] = pushed[i]
  <2>1. CASE overfull(pushed)
    <3>1. Len(pushed) > 0
      BY <1>4, <1>5
    <3>2. /\ Front(pushed) \in Seq(Elements) /\ Len(Front(pushed)) = Len(pushed) - 1
          /\ IsInjective(Front(pushed))
          /\ Range(Front(pushed)) = Range(pushed) \ {Last(pushed)}
          /\ DOMAIN Front(pushed) \subseteq DOMAIN pushed
          /\ \A i \in DOMAIN Front(pushed) : Front(pushed)[i] = pushed[i]
      BY <1>5, <3>1, PopFacts
    <3>3. Len(pushed) - 1 <= size
      BY <1>4, <1>5
    <3> QED BY <1>2, <1>5, <2>1, <3>2, <3>3
  <2>2. CASE ~overfull(pushed)
    <3>1. Len(pushed) <= size
      BY <1>4, <1>5, <2>2 DEF overfull
    <3> QED BY <1>2, <1>5, <2>2, <3>1
  <2> QED BY <2>1, <2>2
<1>8. gone \subseteq Range(list) /\ evicted(pushed) = {elem[f].key : f \in gone}
  BY <1>6 DEF evicted
<1> HIDE DEF gone
<1>9. \A f \in gone : elem[f].key \in DOMAIN index /\ index[elem[f].key] = f
  BY <1>8, Now
<1>10. \A j \in DOMAIN index : j \in evicted(pushed) <=> index[j] \in gone
  BY <1>8, <1>9, Now
<1>11. /\ k \in DOMAIN index' /\ index'[k] = e /\ e \in Range(list')
       /\ \A j \in DOMAIN index' \ {k} :
             /\ j \in DOMAIN index /\ index'[j] = index[j]
             /\ index[j] \in Range(list') \ {e} /\ index[j] \in Range(list)
       /\ \A j \in DOMAIN index : index[j] \notin gone => j \in DOMAIN index'
  <2>1. k \notin evicted(pushed)
    BY <1>2, <1>8, <1>9
  <2>2. e \in Range(list')
    BY <1>1, <1>7, <1>8
  <2>3. ASSUME NEW j \in DOMAIN index' \ {k}
        PROVE  /\ j \in DOMAIN index /\ index'[j] = index[j]
               /\ index[j] \in Range(list') \ {e} /\ index[j] \in Range(list)
    BY <1>1, <1>2, <1>7, <1>10, Now
  <2> QED BY <1>2, <1>10, <2>1, <2>2, <2>3
<1>12. LiveElements' = Range(list')
  BY <1>11 DEF LiveElements
<1>13. \A f \in Range(list') : /\ elem'[f] = IF f = e THEN x ELSE elem[f]
                               /\ f # e => f \in Range(list)
  BY <1>2, <1>7, <1>12
<1>14. /\ LiveObjects' \subseteq LiveObjects \cup {n} /\ n \in LiveObjects'
       /\ \A f \in Range(list') \ {e} : elem[f].value \in LiveObjects'
  <2>1. LiveObjects' = held \cup {elem'[f].value : f \in Range(list')}
    BY <1>2, <1>12 DEF LiveObjects
  <2> QED BY <1>3, <1>11, <1>13, <2>1, Now
<1>15. TypeOK'
  <2>1. index' \in [DOMAIN index' -> Elements] /\ DOMAIN index' \subseteq Keys
    BY <1>1, <1>2, <1>11, Now DEF TypeOK
  <2>2. elem' \in [LiveElements' -> Entries]
    BY <1>2, <1>3, <1>12, <1>13, Now DEF TypeOK
  <2>3. heap' \in [LiveObjects' -> Contents]
    <3>1. o \in LiveObjects
      BY Now
    <3> QED BY <1>2, <1>14, <3>1, Now DEF TypeOK
  <2> QED BY <1>2, <1>7, <2>1, <2>2, <2>3, Now DEF TypeOK
<1>16. IndexMatchesList'
  <2>1. ASSUME NEW j \in DOMAIN index' PROVE index'[j] \in Range(list') /\ elem'[index'[j]].key = j
    BY <1>3, <1>11, <1>13, Now
  <2>2. ASSUME NEW f \in Range(list')
        PROVE  elem'[f].key \in DOMAIN index' /\ index'[elem'[f].key] = f
    <3>1. CASE f = e
      BY <1>3, <1>11, <1>13, <3>1
    <3>2. CASE f # e
      <4>1. f \in Range(list) /\ elem'[f] = elem[f] /\ f \notin gone
        BY <1>7, <1>13, <3>2
      <4>2. elem[f].key \in DOMAIN index /\ index[elem[f].key] = f /\ elem[f].key # k
        BY <1>2, <4>1, Now
      <4> QED BY <1>11, <4>1, <4>2
    <3> QED BY <3>1, <3>2
  <2> QED BY <1>7, <2>1, <2>2 DEF IndexMatchesList
<1>17. Private'
  <2>1. \A f \in Range(list') : elem'[f].value \notin held
    BY <1>1, <1>3, <1>13, Now DEF Private
  <2>2. \A f \in Range(list') \ {e} : elem[f].value # n
    BY <1>1, <1>13, Now
  <2>3. \A f, g \in Range(list') : elem'[f].value = elem'[g].value => f = g
    BY <1>3, <1>13, <2>2, Now DEF Private
  <2> QED BY <1>2, <2>1, <2>3 DEF Private
<1>18. OrderedByUse'
  <2> SUFFICES ASSUME NEW i \in DOMAIN list', NEW j \in DOMAIN list', i < j
               PROVE  <<elem'[list'[i]].key, elem'[list'[j]].key>> \in since'
    BY DEF OrderedByUse
  <2>1. /\ list'[i] \in Range(list') /\ list'[j] \in Range(list')
        /\ list'[j] \in Range(list)
        /\ \/ list'[i] = e
           \/ \E m, l \in DOMAIN list : m < l /\ list[m] = list'[i] /\ list[l] = list'[j]
    BY <1>5, <1>7 DEF Range
  <2>2. elem'[list'[j]] = elem[list'[j]]
    BY <1>1, <1>13, <2>1
  <2>3. elem[list'[j]].key # k /\ elem[list'[j]].key \in Keys
    BY <1>2, <2>1, Now DEF Entries
  <2>4. CASE list'[i] = e
    <3>1. elem'[list'[i]].key = k
      BY <1>3, <1>13, <2>1, <2>4
    <3> QED BY <1>2, <2>2, <2>3, <3>1 DEF use
  <2>5. CASE list'[i] # e
    <3>1. PICK m \in DOMAIN list, l \in DOMAIN list :
              m < l /\ list[m] = list'[i] /\ list[l] = list'[j]
      BY <2>1, <2>5
    <3>2. <<elem[list'[i]].key, elem[list'[j]].key>> \in since
      BY <3>1, Now DEF OrderedByUse
    <3>3. elem'[list'[i]] = elem[list'[i]]
      BY <1>13, <2>1, <2>5
    <3> QED BY <1>2, <2>2, <2>3, <3>2, <3>3 DEF use
  <2> QED BY <2>4, <2>5
<1>19. Value(k)' = heap[o] /\ Until(k)' = now + ttl
  BY <1>2, <1>3, <1>11, <1>13, <1>14 DEF Value, Until
<1>20. ASSUME NEW j \in DOMAIN index' \ {k} PROVE Value(j)' = Value(j) /\ Until(j)' = Until(j)
  <2>1. /\ index'[j] = index[j] /\ elem'[index[j]] = elem[index[j]]
        /\ elem[index[j]].value \in LiveObjects' /\ index[j] \in Range(list)
    BY <1>11, <1>13, <1>14
  <2>2. elem[index[j]].value # n
    BY <1>1, <2>1, Now
  <2> QED BY <1>2, <2>1, <2>2 DEF Value, Until
<1>21. DOMAIN index' \subseteq DOMAIN index \cup {k}
  BY <1>2
<1> QED BY <1>11, <1>15, <1>16, <1>17, <1>18, <1>19, <1>20, <1>21 DEF IInv

-----------------------------------------------------------------------------
(* The theorems *)

\* An empty cache satisfies the invariant ...
LEMMA InitIInv == Init => IInv
<1> SUFFICES ASSUME Init PROVE IInv
  OBVIOUS
<1>1. list = <<>> /\ Range(list) = {} /\ DOMAIN list = {} /\ DOMAIN index = {}
  BY DEF Init, Range
<1>2. LiveElements = {} /\ LiveObjects = {}
  BY <1>1 DEF LiveElements, LiveObjects, Init
<1>3. IsFiniteSet({}) /\ Cardinality({}) = 0
  BY FS_EmptySet
<1>4. MaxHeld \in Nat /\ size \in Nat
  BY LRUCacheAssumption
<1>5. 0 <= MaxHeld /\ 0 <= size /\ Len(list) = 0
  BY <1>1, <1>4
<1>6. TypeOK
  BY <1>1, <1>2, <1>3, <1>5 DEF Init, TypeOK
<1> QED BY <1>1, <1>5, <1>6 DEF IInv, IndexMatchesList, Private, OrderedByUse, IsInjective

\* ... and every operation on it, and of its callers, preserves it.
LEMMA NextIInv == IInv /\ [Next]_vars => IInv'
<1> SUFFICES ASSUME IInv, [Next]_vars PROVE IInv'
  OBVIOUS
<1>1. ASSUME NEW k \in Keys, Get(k) PROVE IInv'
  BY <1>1, TickStep, ExpireStep, HitStep DEF Get
<1>2. ASSUME NEW k \in Keys, Set(k) PROVE IInv'
  BY <1>2, UpdateStep, InsertStep DEF Set
<1>3. ASSUME NEW c \in Contents, Produce(c) PROVE IInv'
  BY <1>3, ProduceStep
<1>4. ASSUME NEW o \in held, Drop(o) PROVE IInv'
  BY <1>4, DropStep
<1>5. ASSUME NEW o \in held, NEW c \in Contents, Rewrite(o, c) PROVE IInv'
  BY <1>5, RewriteStep
<1>6. CASE Tick \/ UNCHANGED vars
  BY <1>6, TickStep
<1> QED BY <1>1, <1>2, <1>3, <1>4, <1>5, <1>6 DEF Next

\* The invariant of the cache: its types, list and index in step, results that
\* nobody else holds, entries in order of use.
THEOREM InductiveInvariant == Spec => []IInv
BY InitIInv, NextIInv, PTL DEF Spec

\* List and index hold the same entries, each once, and at most size of them,
\* for every size and every sequence of Gets and Sets.
THEOREM IndexMatchesListHolds == Spec => []IndexMatchesList
<1>1. IInv => IndexMatchesList
  BY DEF IInv
<1> QED BY <1>1, InductiveInvariant, PTL

\* The list is in order of last use, so that the entry Set evicts is the one
\* that was not used for longest.
THEOREM OrderedByUseHolds == Spec => []OrderedByUse
<1>1. IInv => OrderedByUse
  BY DEF IInv
<1> QED BY <1>1, InductiveInvariant, PTL

\* What the contract calls the stored results.
Stored == [k \in DOMAIN index |-> [content |-> Value(k), until |-> Until(k)]]

\* Where nothing is touched, nothing is stored or lost.
LEMMA StoredSame ==
    ASSUME Untouched
    PROVE  Stored' = Stored
<1>1. DOMAIN index' = DOMAIN index /\ \A k \in DOMAIN index : Value(k)' = Value(k) /\ Until(k)' = Until(k)
  BY DEF Untouched
<1>2. Stored' = [k \in DOMAIN index' |-> [content |-> Value(k)', until |-> Until(k)']]
  BY DEF Stored
<1> QED BY <1>1, <1>2 DEF Stored

\* Set puts what it was given under its key and nothing else.
LEMMA PutStep ==
    ASSUME IInv, NEW k \in Keys, Set(k)
    PROVE  \E c \in Contents : Contract!Put(k, c)
<1>1. PICK o \in held, ttl \in 1..MaxTTL : SetUpdates(k, o, ttl) \/ SetInserts(k, o, ttl)
  BY DEF Set
<1>2. heap[o] \in Contents
  BY Now DEF TypeOK, LiveObjects
<1>3. /\ k \in DOMAIN index' /\ DOMAIN index' \subseteq DOMAIN index \cup {k}
      /\ Value(k)' = heap[o] /\ Until(k)' = now + ttl
      /\ \A j \in DOMAIN index' \ {k} : Value(j)' = Value(j) /\ Until(j)' = Until(j)
  BY <1>1, UpdateStep, InsertStep
<1>4. now \in Nat /\ MaxTTL \in Nat
  BY Now, LRUCacheAssumption DEF TypeOK
<1>5. now + ttl > now
  BY <1>4
<1>6. now' = now /\ reply' = [op |-> "set", key |-> k, content |-> heap[o]]
  BY <1>1 DEF SetUpdates, SetInserts
<1>7. Stored' = [j \in DOMAIN index' |-> [content |-> Value(j)', until |-> Until(j)']]
  BY DEF Stored
<1>8. /\ k \in DOMAIN Stored' /\ DOMAIN Stored' \subseteq DOMAIN Stored \cup {k}
      /\ Stored'[k].content = heap[o] /\ Stored'[k].until > now
      /\ \A j \in DOMAIN Stored' \ {k} : Stored'[j] = Stored[j]
  BY <1>3, <1>5, <1>7 DEF Stored
<1>9. Contract!Put(k, heap[o])
  BY <1>6, <1>8 DEF Contract!Put, Stored, Value, Until
<1> QED BY <1>2, <1>9 DEF Contract!Put

\* Get returns what was last put under the key, if that has not expired.
LEMMA GetStep ==
    ASSUME IInv, NEW k \in Keys, Get(k)
    PROVE  Contract!Get(k)
<1> DEFINE hit == k \in DOMAIN Stored /\ now <= Stored[k].until
<1>0. Stored = [j \in DOMAIN index |-> [content |-> Value(j), until |-> Until(j)]]
      /\ Stored' = [j \in DOMAIN index' |-> [content |-> Value(j)', until |-> Until(j)']]
  BY DEF Stored
<1>1. IF hit
      THEN reply' = [op |-> "hit", key |-> k, content |-> Stored[k].content] /\ Stored' = Stored
      ELSE /\ reply' = [op |-> "miss", key |-> k, content |-> "none"]
           /\ Stored' = [j \in DOMAIN Stored \ {k} |-> Stored[j]]
  <2>1. CASE GetMisses(k)
    <3>1. ~hit /\ reply' = [op |-> "miss", key |-> k, content |-> "none"]
      BY <1>0, <2>1 DEF GetMisses
    <3>2. Stored' = Stored /\ k \notin DOMAIN Stored
      BY <1>0, <2>1, TickStep, StoredSame DEF GetMisses
    <3>3. Stored = [j \in DOMAIN Stored \ {k} |-> Stored[j]]
      BY <1>0, <3>2
    <3> QED BY <3>1, <3>2, <3>3
  <2>2. CASE GetExpires(k)
    <3>1. k \in DOMAIN index /\ now > Until(k)
          /\ reply' = [op |-> "miss", key |-> k, content |-> "none"]
      BY <2>2 DEF GetExpires, Until
    <3>2. now \in Nat /\ Until(k) \in Nat
      BY <3>1, Now DEF TypeOK, Until, Entries
    <3>3. ~hit
      BY <1>0, <3>1, <3>2
    <3>4. DOMAIN index' = DOMAIN index \ {k}
          /\ \A j \in DOMAIN index' : Value(j)' = Value(j) /\ Until(j)' = Until(j)
      BY <2>2, ExpireStep
    <3>5. Stored' = [j \in DOMAIN Stored \ {k} |-> Stored[j]]
      BY <1>0, <3>4
    <3> QED BY <3>1, <3>3, <3>5
  <2>3. CASE GetHits(k)
    <3>1. k \in DOMAIN index /\ now <= Until(k)
          /\ reply' = [op |-> "hit", key |-> k, content |-> Value(k)]
      BY <2>3 DEF GetHits, Until, Value
    <3>2. Stored' = Stored
      BY <2>3, HitStep, StoredSame
    <3> QED BY <1>0, <3>1, <3>2
  <2> QED BY <2>1, <2>2, <2>3 DEF Get
<1>2. now' = now
  BY DEF Get, GetMisses, GetExpires, GetHits
<1> QED BY <1>1, <1>2 DEF Contract!Get, Stored, Value, Until

\* Whatever callers do to their own results, and time, is no business of the
\* cache.
LEMMA OtherStep ==
    ASSUME IInv,
           \/ Tick \/ \E c \in Contents : Produce(c)
           \/ \E o \in held : Drop(o) \/ \E c \in Contents : Rewrite(o, c)
    PROVE  Contract!Other
<1>1. Untouched
  BY TickStep, ProduceStep, DropStep, RewriteStep
<1>2. Stored' = Stored
  BY <1>1, StoredSame
<1>3. now' \in {now, now + 1} /\ reply' = None
  BY DEF Tick, Produce, Drop, Rewrite
<1> QED BY <1>2, <1>3 DEF Contract!Other, Contract!None, None, Stored, Value, Until

\* The built-in cache implements the Cache interface's contract.
THEOREM Refinement == Spec => ImplementsResponseCache
<1>1. Init => Contract!Init
  <2> SUFFICES ASSUME Init PROVE Contract!Init
    OBVIOUS
  <2>1. index = <<>> /\ now = 0 /\ reply = None
    BY DEF Init
  <2>2. [k \in DOMAIN index |-> [content |-> heap[elem[index[k]].value],
                                 until |-> elem[index[k]].expiresAt]] = <<>>
    BY <2>1
  <2> QED BY <2>1, <2>2 DEF Contract!Init, Contract!None, None
<1>2. IInv /\ [Next]_vars => [Contract!Next]_(Contract!vars)
  <2> SUFFICES ASSUME IInv, [Next]_vars PROVE [Contract!Next]_(Contract!vars)
    OBVIOUS
  <2>1. ASSUME NEW k \in Keys, Get(k) PROVE Contract!Next
    BY <2>1, GetStep DEF Contract!Next
  <2>2. ASSUME NEW k \in Keys, Set(k) PROVE Contract!Next
    BY <2>2, PutStep DEF Contract!Next
  <2>3. CASE \/ Tick \/ \E c \in Contents : Produce(c)
             \/ \E o \in held : Drop(o) \/ \E c \in Contents : Rewrite(o, c)
    BY <2>3, OtherStep DEF Contract!Next
  <2>4. CASE UNCHANGED vars
    BY <2>4 DEF vars, Contract!vars
  <2> QED BY <2>1, <2>2, <2>3, <2>4 DEF Next
<1> QED BY <1>1, <1>2, InductiveInvariant, PTL DEF Spec, ImplementsResponseCache, Contract!Spec
=============================================================================
