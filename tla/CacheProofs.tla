----------------------------- MODULE CacheProofs ----------------------------
(***************************************************************************)
(* Table and list of the cache stay one, and keep the entries used last,   *)
(* for every capacity and every set of keys, C strings and threads.  And   *)
(* Get searches the file it was asked for, or one whose number has the     *)
(* same bytes up to the first zero: with every number of threads, files    *)
(* and tables.                                                             *)
(***************************************************************************)
EXTENDS TableCache, FiniteSetTheorems, FunctionTheorems, SequenceTheorems,
        WellFoundedInduction, TLAPS

USE LruAssumption

CellKeys == [cell : Cells, key : StoredKeys]
Entries  == [node : Nodes, value : Values, pos : Cells]

\* Table and list hold the same keys, each once, and point at each other.
Tied(tab, list) ==
    /\ list \in Seq(CellKeys)
    /\ DOMAIN tab \subseteq StoredKeys
    /\ \A k \in DOMAIN tab : tab[k] \in Entries
    /\ \A i, j \in DOMAIN list : i # j => list[i].cell # list[j].cell
    /\ \A k \in DOMAIN tab :
           \E i \in DOMAIN list : list[i] = [cell |-> tab[k].pos, key |-> k]
    /\ \A i \in DOMAIN list :
           list[i].key \in DOMAIN tab /\ tab[list[i].key].pos = list[i].cell

HandlesTyped == handle \in [Threads -> Handles \cup {Null}]

LruInv ==
    /\ Tied(table, cache)
    /\ Len(cache) <= Capacity
    /\ HandlesTyped
    /\ uniqueId \in 0 .. MaxId

-----------------------------------------------------------------------------
(* Counting                                                                 *)

LEMMA Image ==
    ASSUME NEW S, IsFiniteSet(S), NEW f
    PROVE  /\ IsFiniteSet({ f[x] : x \in S })
           /\ Cardinality({ f[x] : x \in S }) <= Cardinality(S)
<1> DEFINE T == { f[x] : x \in S } F == [x \in S |-> f[x]]
<1>1. F \in [S -> T] /\ \A t \in T : \E s \in S : F[s] = t
  OBVIOUS
<1>2. F \in Surjection(S, T)
  BY <1>1, Fun_IsSurj
<1> QED
  BY <1>2, FS_Surjection

LEMMA Upto ==
    ASSUME NEW n \in Nat
    PROVE  IsFiniteSet(1 .. n) /\ Cardinality(1 .. n) = n
  BY FS_Interval

LEMMA Unused ==
    ASSUME NEW N, IsFiniteSet(N), NEW m \in Nat, Cardinality(N) < m
    PROVE  \E c \in 1 .. m : c \notin N
<1> SUFFICES ASSUME 1 .. m \subseteq N PROVE FALSE
  OBVIOUS
<1>1. Cardinality(1 .. m) = m
  BY Upto
<1>2. Cardinality(1 .. m) <= Cardinality(N)
  BY FS_Subset
<1>3. Cardinality(N) \in Nat
  BY FS_CardinalityType
<1> QED
  BY <1>1, <1>2, <1>3

\* The list has as many cells as the table has entries.
LEMMA AsMany ==
    ASSUME NEW tab, NEW list, Tied(tab, list)
    PROVE  IsFiniteSet(DOMAIN tab) /\ Cardinality(DOMAIN tab) = Len(list)
<1> DEFINE F == [i \in 1 .. Len(list) |-> list[i].key]
<1>1. Len(list) \in Nat /\ DOMAIN list = 1 .. Len(list)
  BY LenProperties DEF Tied
<1>2. F \in [1 .. Len(list) -> DOMAIN tab]
  BY <1>1 DEF Tied
<1>3. \A i, j \in 1 .. Len(list) : F[i] = F[j] => i = j
  BY <1>1 DEF Tied
<1>4. \A k \in DOMAIN tab : \E i \in 1 .. Len(list) : F[i] = k
  <2> SUFFICES ASSUME NEW k \in DOMAIN tab PROVE \E i \in 1 .. Len(list) : F[i] = k
    OBVIOUS
  <2>1. PICK i \in DOMAIN list : list[i] = [cell |-> tab[k].pos, key |-> k]
    BY DEF Tied
  <2>2. F[i] = k
    BY <1>1, <2>1
  <2> QED
    BY <1>1, <2>2
<1>5. F \in Bijection(1 .. Len(list), DOMAIN tab)
  <2> HIDE DEF F
  <2> QED
    BY <1>2, <1>3, <1>4, Fun_IsBij
<1>6. ExistsBijection(1 .. Len(list), DOMAIN tab)
  BY <1>5, Fun_ExistsBij
<1>7. IsFiniteSet(1 .. Len(list)) /\ Cardinality(1 .. Len(list)) = Len(list)
  BY <1>1, Upto
<1> QED
  BY <1>6, <1>7, FS_Bijection

LEMMA FreshCellIs ==
    ASSUME NEW tab, NEW list, Tied(tab, list), Len(list) <= Capacity
    PROVE  /\ FreshCell(list) \in Cells
           /\ \A i \in DOMAIN list : list[i].cell # FreshCell(list)
<1> DEFINE f == [i \in DOMAIN list |-> list[i].cell]
           N == { f[i] : i \in DOMAIN list }
<1>1. Len(list) \in Nat /\ DOMAIN list = 1 .. Len(list)
  BY LenProperties DEF Tied
<1>2. IsFiniteSet(DOMAIN list) /\ Cardinality(DOMAIN list) = Len(list)
  <2>1. IsFiniteSet(1 .. Len(list)) /\ Cardinality(1 .. Len(list)) = Len(list)
    BY <1>1, Upto
  <2> QED
    BY <1>1, <2>1
<1>3. IsFiniteSet(N) /\ Cardinality(N) <= Len(list)
  <2> HIDE DEF f
  <2> QED
    BY <1>2, Image
<1>4. Cardinality(N) \in Nat
  BY <1>3, FS_CardinalityType
<1>5. \E c \in Cells : c \notin N
  <2> HIDE DEF N
  <2> QED
    BY <1>1, <1>3, <1>4, Unused DEF Cells
<1>6. \E c \in Cells : \A i \in DOMAIN list : list[i].cell # c
  BY <1>5
<1> QED
  BY <1>6 DEF FreshCell

LEMMA FreshNodeIs ==
    ASSUME NEW tab, NEW list, Tied(tab, list), Len(list) <= Capacity
    PROVE  FreshNode(tab) \in Nodes
<1> DEFINE f == [k \in DOMAIN tab |-> tab[k].node]
           g == [t \in Threads |-> handle[t].node]
           N == { f[k] : k \in DOMAIN tab }
           M == { g[t] : t \in Threads }
<1>1. /\ IsFiniteSet(DOMAIN tab) /\ Cardinality(DOMAIN tab) = Len(list)
      /\ Len(list) \in Nat
  BY AsMany, LenProperties DEF Tied
<1>2. IsFiniteSet(N) /\ Cardinality(N) <= Len(list)
  <2> HIDE DEF f
  <2> QED
    BY <1>1, Image
<1>3. IsFiniteSet(M) /\ Cardinality(M) <= Cardinality(Threads)
  <2> HIDE DEF g
  <2> QED
    BY Image
<1>4. /\ Cardinality(N) \in Nat /\ Cardinality(M) \in Nat /\ Cardinality(Threads) \in Nat
      /\ IsFiniteSet(N \cup M)
  <2> HIDE DEF N, M
  <2> QED
    BY <1>2, <1>3, FS_CardinalityType, FS_Union
<1>5. Cardinality(N \cup M) \in Nat /\ Cardinality(N \cup M) <= Cardinality(N) + Cardinality(M)
  <2> HIDE DEF N, M
  <2>1. IsFiniteSet(N \cap M)
    BY <1>2, FS_Intersection
  <2>2. Cardinality(N \cap M) \in Nat /\ Cardinality(N \cup M) \in Nat
    BY <2>1, <1>4, FS_CardinalityType
  <2>3. Cardinality(N \cup M) = Cardinality(N) + Cardinality(M) - Cardinality(N \cap M)
    BY <1>2, <1>3, FS_Union
  <2> QED
    BY <2>2, <2>3, <1>4
<1>6. \E n \in Nodes : n \notin N \cup M
  <2> HIDE DEF N, M
  <2> DEFINE m == Capacity + Cardinality(Threads) + 1
  <2>1. m \in Nat /\ Cardinality(N \cup M) < m
    BY <1>1, <1>2, <1>3, <1>4, <1>5
  <2>2. IsFiniteSet(N \cup M)
    BY <1>4
  <2> HIDE DEF m
  <2>3. \E n \in 1 .. m : n \notin N \cup M
    BY <2>1, <2>2, Unused
  <2> QED
    BY <2>3 DEF Nodes, m
<1>7. \E n \in Nodes : /\ \A k \in DOMAIN tab : tab[k].node # n
                       /\ \A t \in Threads : handle[t] # Null => handle[t].node # n
  BY <1>6
<1> QED
  BY <1>7 DEF FreshNode
-----------------------------------------------------------------------------
(* The operations keep table and list tied                                  *)

\* A list without the element at p
Cut(list, p) == SubSeq(list, 1, p - 1) \o SubSeq(list, p + 1, Len(list))

LEMMA CutIs ==
    ASSUME NEW S, NEW list \in Seq(S), NEW p \in 1 .. Len(list)
    PROVE  /\ Cut(list, p) \in Seq(S)
           /\ Len(Cut(list, p)) = Len(list) - 1
           /\ \A i \in 1 .. Len(list) - 1 :
                  Cut(list, p)[i] = IF i < p THEN list[i] ELSE list[i + 1]
<1> DEFINE a == SubSeq(list, 1, p - 1) b == SubSeq(list, p + 1, Len(list))
<1>1. Len(list) \in Nat
  BY LenProperties
<1>2. a \in Seq(S) /\ Len(a) = p - 1 /\ \A i \in 1 .. p - 1 : a[i] = list[i]
  BY <1>1, SubSeqProperties
<1>3. /\ b \in Seq(S) /\ Len(b) = Len(list) - p
      /\ \A i \in 1 .. Len(list) - p : b[i] = list[p + i]
  BY <1>1, SubSeqProperties
<1>4. /\ a \o b \in Seq(S) /\ Len(a \o b) = Len(list) - 1
      /\ \A i \in 1 .. Len(list) - 1 : (a \o b)[i] = IF i <= p - 1 THEN a[i] ELSE b[i - (p - 1)]
  <2> HIDE DEF a, b
  <2>1. /\ a \o b \in Seq(S) /\ Len(a \o b) = Len(a) + Len(b)
        /\ \A i \in 1 .. Len(a) + Len(b) : (a \o b)[i] = IF i <= Len(a) THEN a[i] ELSE b[i - Len(a)]
    BY <1>2, <1>3, ConcatProperties
  <2>2. Len(a) + Len(b) = Len(list) - 1
    BY <1>1, <1>2, <1>3
  <2> QED
    BY <2>1, <2>2, <1>2
<1>5. \A i \in 1 .. Len(list) - 1 : (a \o b)[i] = IF i < p THEN list[i] ELSE list[i + 1]
  <2> HIDE DEF a, b
  <2> SUFFICES ASSUME NEW i \in 1 .. Len(list) - 1
               PROVE  (a \o b)[i] = IF i < p THEN list[i] ELSE list[i + 1]
    OBVIOUS
  <2>1. CASE i < p
    BY <2>1, <1>1, <1>2, <1>4
  <2>2. CASE ~(i < p)
    <3>1. i - (p - 1) \in 1 .. Len(list) - p /\ p + (i - (p - 1)) = i + 1
      BY <2>2, <1>1
    <3>2. (a \o b)[i] = b[i - (p - 1)]
      BY <2>2, <1>1, <1>4
    <3> QED
      BY <2>2, <3>1, <3>2, <1>3
  <2> QED
    BY <2>1, <2>2
<1> QED
  BY <1>4, <1>5 DEF Cut

\* A position in the table leads to the one cell with the key.
LEMMA ErasesCell ==
    ASSUME NEW tab, NEW list, Tied(tab, list), NEW k \in DOMAIN tab
    PROVE  \E p \in 1 .. Len(list) : /\ list[p] = [cell |-> tab[k].pos, key |-> k]
                                     /\ EraseCell(list, tab[k].pos) = Cut(list, p)
<1>1. PICK p \in DOMAIN list : list[p] = [cell |-> tab[k].pos, key |-> k]
  BY DEF Tied
<1>2. p \in 1 .. Len(list)
  BY LenProperties DEF Tied
<1>3. \A i \in DOMAIN list : list[i].cell = tab[k].pos => i = p
  BY <1>1 DEF Tied
<1>4. (CHOOSE i \in DOMAIN list : list[i].cell = tab[k].pos) = p
  BY <1>1, <1>3
<1> QED
  BY <1>1, <1>2, <1>4 DEF EraseCell, Cut

LEMMA RemoveTies ==
    ASSUME NEW tab, NEW list, Tied(tab, list), NEW k \in DOMAIN tab
    PROVE  /\ Tied(Remove(tab, k), EraseCell(list, tab[k].pos))
           /\ Len(EraseCell(list, tab[k].pos)) = Len(list) - 1
           /\ Len(list) \in Nat
           /\ k \notin DOMAIN Remove(tab, k)
<1>1. PICK p \in 1 .. Len(list) : /\ list[p] = [cell |-> tab[k].pos, key |-> k]
                                  /\ EraseCell(list, tab[k].pos) = Cut(list, p)
  BY ErasesCell
<1> DEFINE r == Cut(list, p) rest == Remove(tab, k)
<1>2. Len(list) \in Nat /\ DOMAIN list = 1 .. Len(list)
  BY LenProperties DEF Tied
<1>3. /\ r \in Seq(CellKeys) /\ Len(r) = Len(list) - 1
      /\ \A i \in 1 .. Len(list) - 1 : r[i] = IF i < p THEN list[i] ELSE list[i + 1]
  <2>1. list \in Seq(CellKeys)
    BY DEF Tied
  <2> QED
    BY <2>1, CutIs
<1>4. DOMAIN r = 1 .. Len(list) - 1
  BY <1>3, LenProperties
<1>5. DOMAIN rest = DOMAIN tab \ {k} /\ \A x \in DOMAIN rest : rest[x] = tab[x]
  BY DEF Remove
<1> HIDE DEF r, rest
<1>6. \A i \in DOMAIN r : \E j \in DOMAIN list : j # p /\ r[i] = list[j] /\ j \in {i, i + 1} /\ (i < p <=> j = i)
  <2> SUFFICES ASSUME NEW i \in DOMAIN r
               PROVE  \E j \in DOMAIN list :
                          j # p /\ r[i] = list[j] /\ j \in {i, i + 1} /\ (i < p <=> j = i)
    OBVIOUS
  <2>1. CASE i < p
    <3>1. i \in DOMAIN list /\ i # p
      BY <2>1, <1>2, <1>4
    <3>2. r[i] = list[i]
      BY <2>1, <1>3, <1>4
    <3> QED
      BY <2>1, <3>1, <3>2
  <2>2. CASE ~(i < p)
    <3>1. i + 1 \in DOMAIN list /\ i + 1 # p /\ i + 1 # i
      BY <2>2, <1>2, <1>4
    <3>2. r[i] = list[i + 1]
      BY <2>2, <1>3, <1>4
    <3> QED
      BY <2>2, <3>1, <3>2
  <2> QED
    BY <2>1, <2>2
<1>7. \A i, j \in DOMAIN r : i # j => r[i].cell # r[j].cell
  <2> SUFFICES ASSUME NEW i \in DOMAIN r, NEW j \in DOMAIN r, i # j PROVE r[i].cell # r[j].cell
    OBVIOUS
  <2>1. PICK m \in DOMAIN list : r[i] = list[m] /\ m \in {i, i + 1} /\ (i < p <=> m = i)
    BY <1>6
  <2>2. PICK n \in DOMAIN list : r[j] = list[n] /\ n \in {j, j + 1} /\ (j < p <=> n = j)
    BY <1>6
  <2>3. m # n
    BY <2>1, <2>2, <1>2, <1>4
  <2> QED
    BY <2>1, <2>2, <2>3 DEF Tied
<1>8. \A x \in DOMAIN rest : \E i \in DOMAIN r : r[i] = [cell |-> rest[x].pos, key |-> x]
  <2> SUFFICES ASSUME NEW x \in DOMAIN rest
               PROVE  \E i \in DOMAIN r : r[i] = [cell |-> rest[x].pos, key |-> x]
    OBVIOUS
  <2>1. x \in DOMAIN tab /\ x # k /\ rest[x] = tab[x]
    BY <1>5
  <2>2. PICK j \in DOMAIN list : list[j] = [cell |-> tab[x].pos, key |-> x]
    BY <2>1 DEF Tied
  <2>3. j # p
    BY <1>1, <2>1, <2>2
  <2>4. CASE j < p
    BY <2>1, <2>2, <2>4, <1>2, <1>3, <1>4
  <2>5. CASE j > p
    <3>1. j - 1 \in DOMAIN r /\ ~(j - 1 < p) /\ (j - 1) + 1 = j
      BY <2>5, <1>2, <1>4
    <3> QED
      BY <3>1, <2>1, <2>2, <1>3, <1>4
  <2> QED
    BY <2>3, <2>4, <2>5, <1>2
<1>9. \A i \in DOMAIN r : r[i].key \in DOMAIN rest /\ rest[r[i].key].pos = r[i].cell
  <2> SUFFICES ASSUME NEW i \in DOMAIN r
               PROVE  r[i].key \in DOMAIN rest /\ rest[r[i].key].pos = r[i].cell
    OBVIOUS
  <2>1. PICK j \in DOMAIN list : j # p /\ r[i] = list[j]
    BY <1>6
  <2>2. list[j].key \in DOMAIN tab /\ tab[list[j].key].pos = list[j].cell
    BY DEF Tied
  <2>3. list[j].cell # list[p].cell /\ list[p].cell = tab[k].pos
    BY <1>1, <1>2, <2>1 DEF Tied
  <2>4. list[j].key # k
    BY <2>2, <2>3
  <2> QED
    BY <2>1, <2>2, <2>4, <1>5
<1>10. DOMAIN rest \subseteq StoredKeys /\ \A x \in DOMAIN rest : rest[x] \in Entries
  BY <1>5 DEF Tied
<1>11. Tied(rest, r)
  BY <1>3, <1>7, <1>8, <1>9, <1>10 DEF Tied
<1> QED
  BY <1>1, <1>2, <1>3, <1>5, <1>11 DEF r, rest

LEMMA Pushed ==
    ASSUME NEW S, NEW x \in S, NEW list \in Seq(S)
    PROVE  /\ <<x>> \o list \in Seq(S) /\ Len(<<x>> \o list) = Len(list) + 1
           /\ Len(list) \in Nat
           /\ DOMAIN (<<x>> \o list) = 1 .. Len(list) + 1
           /\ (<<x>> \o list)[1] = x
           /\ \A i \in 2 .. Len(list) + 1 : (<<x>> \o list)[i] = list[i - 1]
<1>1. PICK s : s = <<x>>
  OBVIOUS
<1>2. s \in Seq(S) /\ Len(s) = 1 /\ s[1] = x
  BY <1>1
<1>3. PICK n \in Nat : n = Len(list)
  BY LenProperties
<1>4. /\ s \o list \in Seq(S) /\ Len(s \o list) = Len(s) + Len(list)
      /\ \A i \in 1 .. Len(s) + Len(list) :
             (s \o list)[i] = IF i <= Len(s) THEN s[i] ELSE list[i - Len(s)]
  BY <1>2, ConcatProperties
<1>5. 1 \in 1 .. 1 + n /\ \A i \in 2 .. n + 1 : i \in 1 .. 1 + n /\ ~(i <= 1)
  OBVIOUS
<1>6. Len(s \o list) = n + 1 /\ DOMAIN (s \o list) = 1 .. n + 1
  BY <1>2, <1>3, <1>4, LenProperties
<1>7. (s \o list)[1] = x
  BY <1>2, <1>3, <1>4, <1>5
<1>8. \A i \in 2 .. n + 1 : (s \o list)[i] = list[i - 1]
  BY <1>2, <1>3, <1>4, <1>5
<1> QED
  BY <1>1, <1>3, <1>4, <1>6, <1>7, <1>8

LEMMA EmplaceTies ==
    ASSUME NEW tab, NEW list, Tied(tab, list), Len(list) < Capacity, HandlesTyped,
           uniqueId \in 0 .. MaxId,
           NEW t \in Threads, NEW k \in StoredKeys, k \notin DOMAIN tab, NEW v \in Values,
           Emplace(t, tab, list, k, v)
    PROVE  LruInv'
<1> DEFINE c == FreshCell(list) n == FreshNode(tab) e == [cell |-> c, key |-> k]
           new == [node |-> n, value |-> v, pos |-> c]
<1>1. /\ Len(list) \in Nat /\ DOMAIN list = 1 .. Len(list) /\ Len(list) <= Capacity
      /\ list \in Seq(CellKeys)
  BY LenProperties DEF Tied
<1>2. /\ c \in Cells /\ n \in Nodes /\ \A i \in DOMAIN list : list[i].cell # c
  BY <1>1, FreshCellIs, FreshNodeIs
<1>3. /\ table' = [x \in DOMAIN tab \cup {k} |-> IF x = k THEN new ELSE tab[x]]
      /\ cache' = <<e>> \o list
      /\ handle' = [handle EXCEPT ![t] = [key |-> k, node |-> n]]
      /\ uniqueId' = uniqueId
  BY DEF Emplace
<1>4. PICK d : d = c
  OBVIOUS
<1>5. PICK m : m = n
  OBVIOUS
<1>6. e = [cell |-> d, key |-> k] /\ new = [node |-> m, value |-> v, pos |-> d]
  BY <1>4, <1>5
<1>7. e \in CellKeys /\ e.cell = d /\ e.key = k /\ new \in Entries /\ new.pos = d
  BY <1>2, <1>4, <1>5 DEF CellKeys, Entries
<1>8. \A i \in DOMAIN list : list[i].cell # d
  BY <1>2, <1>4
<1>9. [key |-> k, node |-> n] \in Handles
  BY <1>2 DEF Handles
<1> HIDE DEF c, n, e, new
<1>10. /\ cache' \in Seq(CellKeys) /\ Len(cache') = Len(list) + 1
       /\ DOMAIN cache' = 1 .. Len(list) + 1
       /\ cache'[1] = e /\ \A i \in 2 .. Len(list) + 1 : cache'[i] = list[i - 1]
  BY <1>1, <1>3, <1>7, Pushed
<1>11. /\ DOMAIN table' = DOMAIN tab \cup {k} /\ table'[k] = new
       /\ \A x \in DOMAIN tab : x # k /\ table'[x] = tab[x]
  BY <1>3
<1>12. \A i \in DOMAIN cache' : \/ i = 1 /\ cache'[i] = e
                                \/ \E j \in DOMAIN list : i = j + 1 /\ cache'[i] = list[j]
  <2> SUFFICES ASSUME NEW i \in DOMAIN cache', i # 1
               PROVE  \E j \in DOMAIN list : i = j + 1 /\ cache'[i] = list[j]
    BY <1>10
  <2>1. i - 1 \in DOMAIN list /\ i = (i - 1) + 1 /\ i \in 2 .. Len(list) + 1
    BY <1>1, <1>10
  <2> QED
    BY <2>1, <1>10
<1>13. \A i, j \in DOMAIN cache' : i # j => cache'[i].cell # cache'[j].cell
  BY <1>7, <1>8, <1>12 DEF Tied
<1>14. \A x \in DOMAIN table' :
           \E i \in DOMAIN cache' : cache'[i] = [cell |-> table'[x].pos, key |-> x]
  <2> SUFFICES ASSUME NEW x \in DOMAIN table'
               PROVE  \E i \in DOMAIN cache' : cache'[i] = [cell |-> table'[x].pos, key |-> x]
    OBVIOUS
  <2>1. CASE x = k
    BY <2>1, <1>1, <1>6, <1>7, <1>10, <1>11
  <2>2. CASE x \in DOMAIN tab
    <3>1. PICK i \in DOMAIN list : list[i] = [cell |-> tab[x].pos, key |-> x]
      BY <2>2 DEF Tied
    <3>2. i + 1 \in 2 .. Len(list) + 1 /\ (i + 1) - 1 = i /\ i + 1 \in DOMAIN cache'
      BY <1>1, <1>10
    <3> QED
      BY <3>1, <3>2, <2>2, <1>10, <1>11
  <2> QED
    BY <2>1, <2>2, <1>11
<1>15. \A i \in DOMAIN cache' :
           cache'[i].key \in DOMAIN table' /\ table'[cache'[i].key].pos = cache'[i].cell
  BY <1>7, <1>11, <1>12 DEF Tied
<1>16. DOMAIN table' \subseteq StoredKeys /\ \A x \in DOMAIN table' : table'[x] \in Entries
  BY <1>7, <1>11 DEF Tied
<1>17. Tied(table, cache)'
  BY <1>10, <1>13, <1>14, <1>15, <1>16 DEF Tied
<1>18. HandlesTyped'
  BY <1>3, <1>9 DEF HandlesTyped
<1>19. Len(cache') <= Capacity
  BY <1>1, <1>10
<1>20. uniqueId' \in 0 .. MaxId
  BY <1>3
<1> QED
  BY <1>17, <1>18, <1>19, <1>20 DEF LruInv

-----------------------------------------------------------------------------
(* The invariant                                                            *)

LEMMA InitLru == Init => LruInv
<1> SUFFICES ASSUME Init PROVE LruInv
  OBVIOUS
<1>1. table = <<>> /\ cache = <<>> /\ DOMAIN table = {} /\ DOMAIN cache = {} /\ Len(cache) = 0
  BY DEF Init
<1>2. cache \in Seq(CellKeys)
  BY <1>1
<1>3. Tied(table, cache)
  BY <1>1, <1>2 DEF Tied
<1>4. HandlesTyped /\ uniqueId \in 0 .. MaxId
  BY DEF Init, HandlesTyped
<1> QED
  BY <1>1, <1>3, <1>4 DEF LruInv

\* An entry of the table, and the last of a full list, can be taken out.
LEMMA TakenOut ==
    ASSUME LruInv, NEW k \in DOMAIN table
    PROVE  /\ Tied(Remove(table, k), EraseCell(cache, table[k].pos))
           /\ Len(EraseCell(cache, table[k].pos)) < Capacity
           /\ k \notin DOMAIN Remove(table, k)
  BY RemoveTies DEF LruInv

LEMMA LastIs ==
    ASSUME LruInv, Capacity = Len(cache)
    PROVE  Oldest.key \in DOMAIN table /\ table[Oldest.key].pos = Oldest.cell
<1>1. Len(cache) \in DOMAIN cache
  BY LenProperties DEF LruInv, Tied
<1> QED
  BY <1>1 DEF LruInv, Tied, Oldest

LEMMA InsertKeeps ==
    ASSUME LruInv, NEW t \in Threads, NEW key \in Keys, NEW v \in Values, Insert(t, key, v)
    PROVE  LruInv'
<1> DEFINE k == CKey[key]
<1>1. k \in StoredKeys
  BY DEF StoredKeys
<1>2. HandlesTyped /\ uniqueId \in 0 .. MaxId /\ Tied(table, cache) /\ Len(cache) <= Capacity
  BY DEF LruInv
<1>3. CASE k \in DOMAIN table
  <2>1. Emplace(t, Remove(table, k), EraseCell(cache, table[k].pos), k, v)
    BY <1>3 DEF Insert
  <2> QED
    BY <2>1, <1>1, <1>2, <1>3, TakenOut, EmplaceTies
<1>4. CASE k \notin DOMAIN table /\ Capacity = Len(cache)
  <2>1. Emplace(t, Remove(table, Oldest.key), EraseCell(cache, Oldest.cell), k, v)
    BY <1>4 DEF Insert
  <2>2. /\ Tied(Remove(table, Oldest.key), EraseCell(cache, Oldest.cell))
        /\ Len(EraseCell(cache, Oldest.cell)) < Capacity
    BY <1>4, LastIs, TakenOut
  <2>3. k \notin DOMAIN Remove(table, Oldest.key)
    BY <1>4 DEF Remove
  <2> QED
    BY <2>1, <2>2, <2>3, <1>1, <1>2, EmplaceTies
<1>5. CASE k \notin DOMAIN table /\ Capacity # Len(cache)
  <2>1. Emplace(t, table, cache, k, v)
    BY <1>5 DEF Insert
  <2>2. Len(cache) < Capacity
    BY <1>2, <1>5, LenProperties DEF Tied
  <2> QED
    BY <2>1, <2>2, <1>1, <1>2, <1>5, EmplaceTies
<1> QED
  BY <1>3, <1>4, <1>5

LEMMA HitKeeps ==
    ASSUME LruInv, NEW t \in Threads, NEW key \in Keys, Hit(t, key)
    PROVE  LruInv'
<1> DEFINE k == CKey[key]
<1>1. k \in StoredKeys /\ k \in DOMAIN table
  BY DEF StoredKeys, Hit
<1>2. HandlesTyped /\ uniqueId \in 0 .. MaxId /\ table[k].value \in Values
  BY <1>1 DEF LruInv, Tied, Entries
<1>3. Emplace(t, Remove(table, k), EraseCell(cache, table[k].pos), k, table[k].value)
  BY DEF Hit
<1> QED
  BY <1>1, <1>2, <1>3, TakenOut, EmplaceTies

LEMMA LetGoKeeps ==
    ASSUME LruInv, NEW t \in Threads, UNCHANGED <<table, cache, uniqueId>>,
           handle' = [handle EXCEPT ![t] = Null] \/ UNCHANGED handle
    PROVE  LruInv'
<1>1. HandlesTyped'
  BY DEF LruInv, HandlesTyped
<1>2. Tied(table, cache)'
  BY DEF LruInv, Tied
<1> QED
  BY <1>1, <1>2 DEF LruInv

LEMMA EraseKeeps == ASSUME LruInv, NEW key \in Keys, Erase(key) PROVE LruInv'
<1> DEFINE k == CKey[key]
<1>1. /\ k \in DOMAIN table /\ handle' = handle /\ uniqueId' = uniqueId
      /\ cache' = EraseCell(cache, table[k].pos) /\ table' = Remove(table, k)
  BY DEF Erase
<1>2. /\ Tied(Remove(table, k), EraseCell(cache, table[k].pos))
      /\ Len(EraseCell(cache, table[k].pos)) < Capacity
  BY <1>1, TakenOut
<1>3. Tied(table, cache)' /\ Len(cache') < Capacity
  BY <1>1, <1>2 DEF Tied
<1>4. Len(cache') \in Nat
  BY <1>3, LenProperties DEF Tied
<1> QED
  BY <1>1, <1>3, <1>4 DEF LruInv, HandlesTyped

LEMMA NewIdKeeps == ASSUME LruInv, NewId PROVE LruInv'
  BY DEF LruInv, NewId, Tied, HandlesTyped

LEMMA StepKeepsLru == ASSUME LruInv, [Next]_lruVars PROVE LruInv'
<1>1. ASSUME NEW t \in Threads, NEW key \in Keys, Hit(t, key) PROVE LruInv'
  BY <1>1, HitKeeps
<1>2. ASSUME NEW t \in Threads, NEW key \in Keys, Miss(t, key) PROVE LruInv'
  BY <1>2, LetGoKeeps DEF Miss
<1>3. ASSUME NEW t \in Threads, NEW key \in Keys, NEW v \in Values, Insert(t, key, v) PROVE LruInv'
  BY <1>3, InsertKeeps
<1>4. ASSUME NEW t \in Threads, Release(t) PROVE LruInv'
  BY <1>4, LetGoKeeps DEF Release
<1>5. ASSUME NEW key \in Keys, Erase(key) PROVE LruInv'
  BY <1>5, EraseKeeps
<1>6. CASE NewId
  BY <1>6, NewIdKeeps
<1>7. CASE UNCHANGED lruVars
  BY <1>7 DEF lruVars, LruInv, Tied, HandlesTyped
<1> QED
  BY <1>1, <1>2, <1>3, <1>4, <1>5, <1>6, <1>7 DEF Next

LEMMA LruInvConsistent == LruInv => Consistent
<1> SUFFICES ASSUME LruInv PROVE Consistent
  OBVIOUS
<1>1. TypeOK
  BY ElementOfSeq, LenProperties DEF LruInv, Tied, HandlesTyped, TypeOK, CellKeys, Entries
<1>2. Cardinality(DOMAIN table) = Len(cache)
  BY AsMany DEF LruInv
<1> QED
  BY <1>1, <1>2 DEF LruInv, Tied, Consistent

\* Table and list point at each other, whatever the order of the calls.
THEOREM LruInvariant == Spec => []LruInv
<1>1. LruInv /\ [Next]_lruVars => LruInv'
  BY StepKeepsLru
<1> QED
  BY <1>1, InitLru, PTL DEF Spec

\* The table and the list of LRUCachePolicy hold the same keys, each once, never
\* more than the capacity, and every entry's position is the cell of its key.
THEOREM TableIsList == Spec => []Consistent
  BY LruInvariant, LruInvConsistent, PTL

-----------------------------------------------------------------------------
(* The cache implements the map of least recently used entries              *)

RecentOf(tab, list) ==
    [i \in DOMAIN list |-> [key |-> list[i].key, value |-> tab[list[i].key].value]]

KeyValues == [key : StoredKeys, value : Values]

LEMMA RecentIs ==
    ASSUME NEW tab, NEW list, Tied(tab, list)
    PROVE  /\ RecentOf(tab, list) \in Seq(KeyValues)
           /\ Len(RecentOf(tab, list)) = Len(list) /\ Len(list) \in Nat
           /\ \A i \in 1 .. Len(list) :
                  RecentOf(tab, list)[i] = [key |-> list[i].key, value |-> tab[list[i].key].value]
<1>1. Len(list) \in Nat /\ DOMAIN list = 1 .. Len(list)
  BY LenProperties DEF Tied
<1>2. RecentOf(tab, list) \in [1 .. Len(list) -> KeyValues]
  BY <1>1 DEF RecentOf, Tied, KeyValues, Entries
<1>3. RecentOf(tab, list) \in Seq(KeyValues)
  BY <1>1, <1>2
<1> QED
  BY <1>1, <1>2, <1>3, LenProperties DEF RecentOf

\* Only the cell of a key holds the key.
LEMMA OneCell ==
    ASSUME NEW tab, NEW list, Tied(tab, list), NEW i \in DOMAIN list, NEW j \in DOMAIN list,
           list[i].key = list[j].key
    PROVE  i = j
  BY DEF Tied

LEMMA RecentTaken ==
    ASSUME NEW tab, NEW list, Tied(tab, list), NEW k \in DOMAIN tab
    PROVE  \E p \in 1 .. Len(list) :
               /\ list[p] = [cell |-> tab[k].pos, key |-> k]
               /\ RecentOf(Remove(tab, k), EraseCell(list, tab[k].pos)) = Cut(RecentOf(tab, list), p)
<1>1. PICK p \in 1 .. Len(list) : /\ list[p] = [cell |-> tab[k].pos, key |-> k]
                                  /\ EraseCell(list, tab[k].pos) = Cut(list, p)
  BY ErasesCell
<1>2. PICK less : less = Remove(tab, k)
  OBVIOUS
<1>3. PICK cut : cut = Cut(list, p)
  OBVIOUS
<1>4. PICK all : all = RecentOf(tab, list)
  OBVIOUS
<1>5. PICK n : n = Len(list)
  OBVIOUS
<1>6. /\ n \in Nat /\ p \in 1 .. n /\ Len(all) = n /\ all \in Seq(KeyValues)
      /\ \A i \in 1 .. n : all[i] = [key |-> list[i].key, value |-> tab[list[i].key].value]
  BY <1>1, <1>4, <1>5, RecentIs
<1>7. Len(cut) = n - 1 /\ \A i \in 1 .. n - 1 : cut[i] = IF i < p THEN list[i] ELSE list[i + 1]
  <2>1. list \in Seq(CellKeys)
    BY DEF Tied
  <2> QED
    BY <2>1, <1>3, <1>5, CutIs
<1>8. /\ Cut(all, p) \in Seq(KeyValues) /\ Len(Cut(all, p)) = n - 1
      /\ \A i \in 1 .. n - 1 : Cut(all, p)[i] = IF i < p THEN all[i] ELSE all[i + 1]
  BY <1>6, CutIs
<1>9. Tied(less, cut)
  BY <1>1, <1>2, <1>3, RemoveTies
<1>10. /\ RecentOf(less, cut) \in Seq(KeyValues) /\ Len(RecentOf(less, cut)) = n - 1
       /\ \A i \in 1 .. n - 1 :
              RecentOf(less, cut)[i] = [key |-> cut[i].key, value |-> less[cut[i].key].value]
  BY <1>7, <1>9, RecentIs
<1>11. \A i \in 1 .. n - 1 : RecentOf(less, cut)[i] = Cut(all, p)[i]
  <2> SUFFICES ASSUME NEW i \in 1 .. n - 1 PROVE RecentOf(less, cut)[i] = Cut(all, p)[i]
    OBVIOUS
  <2>1. PICK j \in 1 .. n : j # p /\ cut[i] = list[j] /\ Cut(all, p)[i] = all[j]
    <3>1. CASE i < p
      <4>1. i \in 1 .. n /\ i # p
        BY <3>1, <1>6
      <4>2. cut[i] = list[i]
        BY <3>1, <1>7
      <4>3. Cut(all, p)[i] = all[i]
        BY <3>1, <1>8
      <4> QED
        BY <4>1, <4>2, <4>3
    <3>2. CASE ~(i < p)
      <4>1. i + 1 \in 1 .. n /\ i + 1 # p
        BY <3>2, <1>6
      <4>2. cut[i] = list[i + 1]
        BY <3>2, <1>7
      <4>3. Cut(all, p)[i] = all[i + 1]
        BY <3>2, <1>8
      <4> QED
        BY <4>1, <4>2, <4>3
    <3> QED
      BY <3>1, <3>2
  <2>2. DOMAIN list = 1 .. n
    BY <1>5, LenProperties DEF Tied
  <2>3. list[j].key \in DOMAIN tab /\ list[j].key # k
    <3>1. list[j].key \in DOMAIN tab
      BY <2>1, <2>2 DEF Tied
    <3>2. list[p].key = k /\ p \in DOMAIN list /\ j \in DOMAIN list
      BY <1>1, <1>6, <2>1, <2>2
    <3>3. list[j].key # list[p].key
      BY <3>2, <2>1, OneCell
    <3> QED
      BY <3>1, <3>2, <3>3
  <2>4. less[list[j].key] = tab[list[j].key]
    BY <1>2, <2>3 DEF Remove
  <2> QED
    <3>1. RecentOf(less, cut)[i] = [key |-> cut[i].key, value |-> less[cut[i].key].value]
      BY <1>10
    <3>2. all[j] = [key |-> list[j].key, value |-> tab[list[j].key].value]
      BY <2>1, <1>6
    <3> QED
      BY <3>1, <3>2, <2>1, <2>4
<1>12. RecentOf(less, cut) = Cut(all, p)
  BY <1>8, <1>10, <1>11, <1>6, SeqEqual
<1> QED
  BY <1>1, <1>2, <1>3, <1>4, <1>12

LEMMA RecentPut ==
    ASSUME NEW tab, NEW list, Tied(tab, list), NEW t \in Threads,
           NEW k \in StoredKeys, k \notin DOMAIN tab, NEW v \in Values,
           Emplace(t, tab, list, k, v)
    PROVE  Recent' = <<[key |-> k, value |-> v]>> \o RecentOf(tab, list)
<1>1. PICK c : c = FreshCell(list)
  OBVIOUS
<1>2. PICK m : m = FreshNode(tab)
  OBVIOUS
<1>3. PICK e : e = [cell |-> c, key |-> k]
  OBVIOUS
<1>4. PICK n : n = Len(list)
  OBVIOUS
<1>5. PICK r : r = RecentOf(tab, list)
  OBVIOUS
<1>6. PICK kv : kv = [key |-> k, value |-> v]
  OBVIOUS
<1>7. /\ cache' = <<e>> \o list
      /\ table' = [x \in DOMAIN tab \cup {k} |->
                      IF x = k THEN [node |-> m, value |-> v, pos |-> c] ELSE tab[x]]
  BY <1>1, <1>2, <1>3 DEF Emplace
<1>8. /\ n \in Nat /\ Len(r) = n /\ r \in Seq(KeyValues) /\ DOMAIN list = 1 .. n
      /\ \A i \in 1 .. n : r[i] = [key |-> list[i].key, value |-> tab[list[i].key].value]
  <2>1. list \in Seq(CellKeys)
    BY DEF Tied
  <2>2. DOMAIN list = 1 .. n
    BY <2>1, <1>4, LenProperties
  <2> QED
    BY <1>4, <1>5, <2>2, RecentIs
<1>9. /\ DOMAIN cache' = 1 .. n + 1 /\ cache'[1] = e
      /\ \A i \in 2 .. n + 1 : cache'[i] = list[i - 1]
  <2>1. PICK S : S = {e} \cup CellKeys
    OBVIOUS
  <2>2. list \in Seq(CellKeys)
    BY DEF Tied
  <2>3. e \in S /\ list \in Seq(S)
    BY <2>1, <2>2, SeqMonotonic
  <2> QED
    BY <1>4, <1>7, <2>3, Pushed
<1>10. /\ table'[k].value = v
       /\ \A i \in 1 .. n : table'[list[i].key].value = tab[list[i].key].value
  <2>1. \A i \in 1 .. n : list[i].key \in DOMAIN tab
    BY <1>8 DEF Tied
  <2> QED
    BY <1>7, <2>1
<1>11. kv \in KeyValues
  BY <1>6 DEF KeyValues
<1>12. /\ <<kv>> \o r \in Seq(KeyValues) /\ Len(<<kv>> \o r) = n + 1
       /\ (<<kv>> \o r)[1] = kv /\ \A i \in 2 .. n + 1 : (<<kv>> \o r)[i] = r[i - 1]
  BY <1>8, <1>11, Pushed
<1>13. PICK new : new = Recent'
  OBVIOUS
<1>14. new = [i \in 1 .. n + 1 |-> [key |-> cache'[i].key, value |-> table'[cache'[i].key].value]]
  BY <1>9, <1>13 DEF Recent
<1>15. \A i \in 1 .. n + 1 : new[i] = (<<kv>> \o r)[i]
  <2> SUFFICES ASSUME NEW i \in 1 .. n + 1 PROVE new[i] = (<<kv>> \o r)[i]
    OBVIOUS
  <2>1. CASE i = 1
    <3>1. cache'[1].key = k
      BY <1>3, <1>9
    <3> QED
      BY <2>1, <3>1, <1>6, <1>10, <1>12, <1>14
  <2>2. CASE i # 1
    <3>1. i \in 2 .. n + 1 /\ i - 1 \in 1 .. n
      BY <2>2, <1>8
    <3> QED
      <4>1. new[i] = [key |-> cache'[i].key, value |-> table'[cache'[i].key].value]
        BY <1>14
      <4>2. cache'[i] = list[i - 1] /\ (<<kv>> \o r)[i] = r[i - 1]
        BY <3>1, <1>9, <1>12
      <4>3. /\ r[i - 1] = [key |-> list[i - 1].key, value |-> tab[list[i - 1].key].value]
            /\ table'[list[i - 1].key].value = tab[list[i - 1].key].value
        BY <3>1, <1>8, <1>10
      <4> QED
        BY <4>1, <4>2, <4>3
  <2> QED
    BY <2>1, <2>2
<1>16. (<<kv>> \o r) \in [1 .. n + 1 -> KeyValues]
  BY <1>8, <1>12, LenProperties, ElementOfSeq
<1>17. new = <<kv>> \o r
  BY <1>14, <1>15, <1>16
<1> QED
  BY <1>5, <1>6, <1>13, <1>17

\* What the abstract map says of a key that is there and of one that is not
LEMMA AbstractParts ==
    ASSUME LruInv, NEW k, NEW p \in 1 .. Len(cache), cache[p].key = k
    PROVE  /\ Abstract!Has(k)
           /\ Abstract!Entry(k) = [key |-> k, value |-> table[k].value]
           /\ Abstract!Without(k) = Cut(Recent, p)
<1>1. DOMAIN cache = 1 .. Len(cache) /\ Recent = RecentOf(table, cache)
  BY LenProperties DEF LruInv, Tied, Recent, RecentOf
<1>2. /\ DOMAIN Recent = 1 .. Len(cache)
      /\ \A i \in 1 .. Len(cache) :
             Recent[i] = [key |-> cache[i].key, value |-> table[cache[i].key].value]
  BY <1>1 DEF Recent
<1>3. \A i \in 1 .. Len(cache) : Recent[i].key = k => i = p
  BY <1>1, <1>2, OneCell DEF LruInv
<1>4. Recent[p].key = k
  BY <1>2
<1>5. (CHOOSE i \in DOMAIN Recent : Recent[i].key = k) = p
  BY <1>2, <1>3, <1>4
<1>6. Abstract!Place(k) = p
  BY <1>5 DEF Abstract!Place
<1>7. Abstract!Has(k)
  BY <1>2, <1>4 DEF Abstract!Has
<1>8. Abstract!Without(k) = Cut(Recent, p)
  BY <1>6, <1>7 DEF Abstract!Without, Cut
<1>9. Abstract!Entry(k) = Recent[p]
  BY <1>6 DEF Abstract!Entry
<1> QED
  BY <1>2, <1>7, <1>8, <1>9

LEMMA AbstractMisses ==
    ASSUME LruInv, NEW k, k \notin DOMAIN table
    PROVE  ~Abstract!Has(k) /\ Abstract!Without(k) = Recent
<1>1. \A i \in DOMAIN Recent : Recent[i].key # k
  BY DEF LruInv, Tied, Recent
<1> QED
  BY <1>1 DEF Abstract!Has, Abstract!Without

\* The entries of the abstract map after the entry of a key was taken out
LEMMA RecentWithout ==
    ASSUME LruInv, NEW k \in DOMAIN table
    PROVE  /\ RecentOf(Remove(table, k), EraseCell(cache, table[k].pos)) = Abstract!Without(k)
           /\ Abstract!Has(k)
           /\ Abstract!Entry(k) = [key |-> k, value |-> table[k].value]
           /\ Len(Abstract!Without(k)) = Len(cache) - 1
           /\ Abstract!Without(k) \in Seq(KeyValues)
<1>1. Tied(table, cache) /\ Recent = RecentOf(table, cache)
  BY DEF LruInv, Recent, RecentOf
<1>2. PICK p \in 1 .. Len(cache) :
          /\ cache[p] = [cell |-> table[k].pos, key |-> k]
          /\ RecentOf(Remove(table, k), EraseCell(cache, table[k].pos)) = Cut(Recent, p)
  BY <1>1, RecentTaken
<1>3. cache[p].key = k
  BY <1>2
<1>4. Recent \in Seq(KeyValues) /\ Len(Recent) = Len(cache)
  BY <1>1, RecentIs
<1>5. Cut(Recent, p) \in Seq(KeyValues) /\ Len(Cut(Recent, p)) = Len(cache) - 1
  BY <1>2, <1>4, CutIs
<1> QED
  BY <1>2, <1>3, <1>5, AbstractParts

LEMMA InsertPuts ==
    ASSUME LruInv, NEW t \in Threads, NEW key \in Keys, NEW v \in Values, Insert(t, key, v)
    PROVE  Abstract!Put(CKey[key], v)
<1>1. PICK k \in StoredKeys : k = CKey[key]
  BY DEF StoredKeys
<1>2. PICK kv : kv = [key |-> k, value |-> v]
  OBVIOUS
<1>3. kv \in KeyValues
  BY <1>2 DEF KeyValues
<1>4. /\ Tied(table, cache) /\ Len(cache) <= Capacity /\ Len(cache) \in Nat
      /\ Recent = RecentOf(table, cache)
  BY LenProperties DEF LruInv, Tied, Recent, RecentOf
<1>5. Recent \in Seq(KeyValues) /\ Len(Recent) = Len(cache)
  BY <1>4, RecentIs
<1>6. PICK rest : rest = Abstract!Without(k)
  OBVIOUS
<1>7. PICK all : all = <<kv>> \o rest
  OBVIOUS
<1>8. SUFFICES Recent' = SubSeq(all, 1, IF Len(all) < Capacity THEN Len(all) ELSE Capacity)
  BY <1>1, <1>2, <1>6, <1>7 DEF Abstract!Put
<1>9. ASSUME rest \in Seq(KeyValues), Len(rest) < Capacity, Recent' = all
      PROVE  Recent' = SubSeq(all, 1, IF Len(all) < Capacity THEN Len(all) ELSE Capacity)
  <2>1. all \in Seq(KeyValues) /\ Len(all) = Len(rest) + 1 /\ Len(rest) \in Nat
    BY <1>3, <1>7, <1>9, Pushed
  <2>2. (IF Len(all) < Capacity THEN Len(all) ELSE Capacity) = Len(all)
    BY <2>1, <1>9
  <2> QED
    BY <2>1, <2>2, <1>9, SubSeqFull
<1>10. CASE k \in DOMAIN table
  <2>1. Emplace(t, Remove(table, k), EraseCell(cache, table[k].pos), k, v)
    BY <1>1, <1>10 DEF Insert
  <2>2. /\ Tied(Remove(table, k), EraseCell(cache, table[k].pos))
        /\ k \notin DOMAIN Remove(table, k)
    BY <1>10, TakenOut
  <2>3. Recent' = <<kv>> \o RecentOf(Remove(table, k), EraseCell(cache, table[k].pos))
    BY <2>1, <2>2, <1>2, RecentPut
  <2>4. /\ RecentOf(Remove(table, k), EraseCell(cache, table[k].pos)) = rest
        /\ Len(rest) = Len(cache) - 1 /\ rest \in Seq(KeyValues)
    BY <1>6, <1>10, RecentWithout
  <2>5. Recent' = all /\ Len(rest) < Capacity
    BY <2>3, <2>4, <1>4, <1>7
  <2> QED
    BY <2>4, <2>5, <1>9
<1>11. CASE k \notin DOMAIN table /\ Capacity # Len(cache)
  <2>1. Emplace(t, table, cache, k, v)
    BY <1>1, <1>11 DEF Insert
  <2>2. Recent' = <<kv>> \o Recent
    BY <2>1, <1>2, <1>4, <1>11, RecentPut
  <2>3. rest = Recent
    BY <1>6, <1>11, AbstractMisses
  <2>4. Recent' = all /\ Len(rest) < Capacity /\ rest \in Seq(KeyValues)
    BY <2>2, <2>3, <1>4, <1>5, <1>7, <1>11
  <2> QED
    BY <2>4, <1>9
<1>12. CASE k \notin DOMAIN table /\ Capacity = Len(cache)
  <2>1. PICK old \in DOMAIN table : old = Oldest.key /\ table[old].pos = Oldest.cell
    BY <1>12, LastIs
  <2>2. Emplace(t, Remove(table, old), EraseCell(cache, table[old].pos), k, v)
    BY <2>1, <1>1, <1>12 DEF Insert
  <2>3. Tied(Remove(table, old), EraseCell(cache, table[old].pos))
    BY TakenOut
  <2>4. k \notin DOMAIN Remove(table, old)
    BY <1>12 DEF Remove
  <2>5. PICK less : less = RecentOf(Remove(table, old), EraseCell(cache, table[old].pos))
    OBVIOUS
  <2>6. Recent' = <<kv>> \o less
    BY <2>2, <2>3, <2>4, <2>5, <1>2, RecentPut
  <2>7. Len(cache) \in 1 .. Len(cache) /\ cache[Len(cache)].key = old
    BY <2>1, <1>4, <1>12 DEF Oldest
  <2>8. less = Cut(Recent, Len(cache))
    BY <2>5, <2>7, AbstractParts, RecentWithout
  <2>9. rest = Recent
    BY <1>6, <1>12, AbstractMisses
  <2>10. PICK n \in Nat \ {0} : n = Capacity
    OBVIOUS
  <2>11. /\ less \in Seq(KeyValues) /\ Len(less) = n - 1
         /\ \A i \in 1 .. n - 1 : less[i] = rest[i]
    <3>1. Recent \in Seq(KeyValues) /\ Len(Recent) = n /\ n \in 1 .. Len(Recent) /\ Len(cache) = n
      BY <2>10, <1>5, <1>12
    <3>2. PICK cut : cut = Cut(Recent, n)
      OBVIOUS
    <3>3. cut \in Seq(KeyValues) /\ Len(cut) = n - 1
      BY <3>1, <3>2, CutIs
    <3>4. \A i \in 1 .. n - 1 : cut[i] = IF i < n THEN Recent[i] ELSE Recent[i + 1]
      BY <3>1, <3>2, CutIs
    <3> QED
      BY <3>1, <3>2, <3>3, <3>4, <2>8, <2>9
  <2>12. /\ all \in Seq(KeyValues) /\ Len(all) = n + 1 /\ all[1] = kv
         /\ \A i \in 2 .. n + 1 : all[i] = rest[i - 1]
    BY <2>9, <2>10, <1>3, <1>5, <1>7, <1>12, Pushed
  <2>13. PICK new : new = <<kv>> \o less
    OBVIOUS
  <2>14. /\ new \in Seq(KeyValues) /\ Len(new) = n /\ new[1] = kv
         /\ \A i \in 2 .. n : new[i] = less[i - 1]
    BY <2>11, <2>13, <1>3, Pushed
  <2>15. PICK cut : cut = SubSeq(all, 1, n)
    OBVIOUS
  <2>16. cut \in Seq(KeyValues) /\ Len(cut) = n /\ \A i \in 1 .. n : cut[i] = all[i]
    BY <2>12, <2>15, SubSeqProperties
  <2>17. \A i \in 1 .. n : new[i] = cut[i]
    <3> SUFFICES ASSUME NEW i \in 1 .. n PROVE new[i] = cut[i]
      OBVIOUS
    <3>1. CASE i = 1
      BY <3>1, <2>12, <2>14, <2>16
    <3>2. CASE i # 1
      <4>1. i \in 2 .. n /\ i \in 2 .. n + 1 /\ i - 1 \in 1 .. n - 1
        BY <3>2
      <4> QED
        BY <4>1, <2>11, <2>12, <2>14, <2>16
    <3> QED
      BY <3>1, <3>2
  <2>18. new = cut
    BY <2>14, <2>16, <2>17, SeqEqual
  <2>19. (IF Len(all) < Capacity THEN Len(all) ELSE Capacity) = n
    BY <2>10, <2>12
  <2> QED
    BY <2>6, <2>13, <2>15, <2>18, <2>19
<1> QED
  BY <1>10, <1>11, <1>12

LEMMA HitUses ==
    ASSUME LruInv, NEW t \in Threads, NEW key \in Keys, Hit(t, key)
    PROVE  Abstract!Use(CKey[key])
<1>1. PICK k \in StoredKeys : k = CKey[key] /\ k \in DOMAIN table
  BY DEF StoredKeys, Hit
<1>2. Emplace(t, Remove(table, k), EraseCell(cache, table[k].pos), k, table[k].value)
  BY <1>1 DEF Hit
<1>3. /\ Tied(Remove(table, k), EraseCell(cache, table[k].pos))
      /\ k \notin DOMAIN Remove(table, k)
  BY <1>1, TakenOut
<1>4. table[k].value \in Values
  BY <1>1 DEF LruInv, Tied, Entries
<1>5. Recent' = <<[key |-> k, value |-> table[k].value]>>
                    \o RecentOf(Remove(table, k), EraseCell(cache, table[k].pos))
  BY <1>2, <1>3, <1>4, RecentPut
<1>6. Recent' = <<Abstract!Entry(k)>> \o Abstract!Without(k) /\ Abstract!Has(k)
  BY <1>1, <1>5, RecentWithout
<1> QED
  BY <1>1, <1>6 DEF Abstract!Use

LEMMA EraseDrops == ASSUME LruInv, NEW key \in Keys, Erase(key) PROVE Abstract!Drop(CKey[key])
<1>1. PICK k \in DOMAIN table : k = CKey[key]
  BY DEF Erase
<1>2. cache' = EraseCell(cache, table[k].pos) /\ table' = Remove(table, k)
  BY <1>1 DEF Erase
<1>3. Recent' = RecentOf(Remove(table, k), EraseCell(cache, table[k].pos))
  BY <1>2 DEF Recent, RecentOf
<1> QED
  BY <1>1, <1>3, RecentWithout DEF Abstract!Drop

LEMMA StepRefines == ASSUME LruInv, [Next]_lruVars PROVE [Abstract!Next]_Recent
<1>1. \A key \in Keys : CKey[key] \in StoredKeys
  BY DEF StoredKeys
<1>2. ASSUME NEW t \in Threads, NEW key \in Keys, Hit(t, key) PROVE Abstract!Next
  BY <1>1, <1>2, HitUses DEF Abstract!Next
<1>3. ASSUME NEW t \in Threads, NEW key \in Keys, NEW v \in Values, Insert(t, key, v)
      PROVE  Abstract!Next
  BY <1>1, <1>3, InsertPuts DEF Abstract!Next
<1>4. ASSUME NEW key \in Keys, Erase(key) PROVE Abstract!Next
  BY <1>1, <1>4, EraseDrops DEF Abstract!Next
<1>5. ASSUME UNCHANGED <<table, cache>> PROVE Recent' = Recent
  BY <1>5 DEF Recent
<1>6. ASSUME NEW t \in Threads, NEW key \in Keys, Miss(t, key) PROVE Recent' = Recent
  BY <1>5, <1>6 DEF Miss
<1>7. ASSUME NEW t \in Threads, Release(t) PROVE Recent' = Recent
  BY <1>5, <1>7 DEF Release
<1>8. CASE NewId
  BY <1>5, <1>8 DEF NewId
<1>9. CASE UNCHANGED lruVars
  BY <1>5, <1>9 DEF lruVars
<1> QED
  BY <1>2, <1>3, <1>4, <1>6, <1>7, <1>8, <1>9 DEF Next

LEMMA InitRefines == Init => Abstract!Init
<1> SUFFICES ASSUME Init PROVE Abstract!Init
  OBVIOUS
<1>1. cache = <<>> /\ LruInv /\ Len(cache) = 0
  BY InitLru DEF Init
<1>2. Recent = RecentOf(table, cache) /\ Tied(table, cache)
  BY <1>1 DEF Recent, RecentOf, LruInv
<1>3. Recent \in Seq(KeyValues) /\ Len(Recent) = 0
  BY <1>1, <1>2, RecentIs
<1>4. Recent = <<>>
  BY <1>3, EmptySeq
<1> QED
  BY <1>4 DEF Abstract!Init

\* The cache keeps the entries used last, each with the value inserted last: every
\* call of LRUCachePolicy is a call of the map of least recently used entries or
\* leaves it alone.
THEOREM CacheKeepsRecent == Spec => KeepsRecent
<1>1. LruInv /\ [Next]_lruVars => [Abstract!Next]_Recent
  BY StepRefines
<1> QED
  BY <1>1, InitRefines, LruInvariant, PTL DEF Spec, KeepsRecent, Abstract!Spec

-----------------------------------------------------------------------------
(* The table cache                                                         *)

USE LruAssumption, TableAssumption

LEMMA LeastOne ==
    ASSUME NEW S, S \subseteq Nat, S # {}
    PROVE  \E m \in S : \A n \in S : m <= n
<1>1. PICK m \in S : \A n \in S : ~(<<n, m>> \in OpToRel(<, Nat))
  BY WFMin, NatLessThanWellFounded
<1>2. \A n \in S : ~(n < m)
  BY <1>1 DEF OpToRel
<1> QED
  BY <1>2

\* A string up to its first zero
LEMMA CStringIs ==
    ASSUME NEW s, NEW w \in Nat, DOMAIN s = 1 .. w, s \in Seq({s[i] : i \in 1 .. w})
    PROVE  \E c \in 0 .. w :
               /\ Len(CString(s)) = c
               /\ \A i \in 1 .. c : CString(s)[i] = s[i] /\ s[i] # 0
               /\ c < w => s[c + 1] = 0
<1> DEFINE zeros == {i \in DOMAIN s : s[i] = 0}
<1>1. Len(s) = w
  BY LenProperties
<1>2. CASE zeros = {}
  <2>1. CString(s) = s
    BY <1>2 DEF CString
  <2>2. \A i \in 1 .. w : s[i] # 0
    BY <1>2
  <2>3. w \in 0 .. w /\ ~(w < w)
    OBVIOUS
  <2>4. QED
    BY <1>1, <2>1, <2>2, <2>3
<1>3. CASE zeros # {}
  <2>1. PICK z \in zeros : \A j \in zeros : z <= j
    <3>1. zeros \subseteq Nat
      OBVIOUS
    <3> HIDE DEF zeros
    <3>2. QED
      BY <1>3, <3>1, LeastOne
  <2> DEFINE y == CHOOSE i \in zeros : \A j \in zeros : i <= j
  <2>2. y \in zeros /\ \A j \in zeros : y <= j
    BY <2>1
  <2>3. CString(s) = SubSeq(s, 1, y - 1)
    BY <1>3 DEF CString
  <2>4. y \in 1 .. w /\ s[y] = 0
    BY <2>2
  <2>5. \A i \in 1 .. y - 1 : s[i] # 0
    <3>1. SUFFICES ASSUME NEW i \in 1 .. y - 1 PROVE s[i] # 0
      OBVIOUS
    <3>2. i \in 1 .. w /\ ~(y <= i)
      BY <2>4
    <3>3. QED
      BY <2>2, <3>2
  <2> HIDE DEF y, zeros
  <2>6. /\ Len(SubSeq(s, 1, y - 1)) = y - 1
        /\ \A i \in 1 .. y - 1 : SubSeq(s, 1, y - 1)[i] = s[i]
    <3>1. \A i \in 1 .. y - 1 : s[i] \in {s[j] : j \in 1 .. w}
      BY <2>4
    <3>2. /\ Len(SubSeq(s, 1, y - 1)) = IF 1 <= y - 1 THEN (y - 1) - 1 + 1 ELSE 0
          /\ \A i \in 1 .. (y - 1) - 1 + 1 : SubSeq(s, 1, y - 1)[i] = s[1 + i - 1]
      BY <2>4, <3>1, SubSeqProperties
    <3>3. (y - 1) - 1 + 1 = y - 1 /\ \A i \in 1 .. y - 1 : 1 + i - 1 = i
      BY <2>4
    <3>4. QED
      BY <2>4, <3>2, <3>3
  <2>7. PICK c : c = y - 1
    OBVIOUS
  <2>8. c \in 0 .. w /\ c + 1 = y
    BY <2>4, <2>7
  <2>9. /\ Len(CString(s)) = c
        /\ \A i \in 1 .. c : CString(s)[i] = s[i] /\ s[i] # 0
        /\ s[c + 1] = 0
    BY <2>3, <2>4, <2>5, <2>6, <2>7, <2>8
  <2>10. QED
    BY <2>8, <2>9
<1>4. QED
  BY <1>2, <1>3

\* Files that have one key have the same bytes up to the first zero.
LEMMA OneKeyAlike ==
    ASSUME NEW m \in Keys, NEW n \in Keys, CKey[m] = CKey[n]
    PROVE  Alike(m, n)
<1>1. \A k : \E c \in 0 .. Width :
          /\ Len(CString(Bytes(k))) = c
          /\ \A i \in 1 .. c : CString(Bytes(k))[i] = Bytes(k)[i] /\ Bytes(k)[i] # 0
          /\ c < Width => Bytes(k)[c + 1] = 0
  <2> SUFFICES ASSUME NEW k
               PROVE  \E c \in 0 .. Width :
                          /\ Len(CString(Bytes(k))) = c
                          /\ \A i \in 1 .. c : /\ CString(Bytes(k))[i] = Bytes(k)[i]
                                               /\ Bytes(k)[i] # 0
                          /\ c < Width => Bytes(k)[c + 1] = 0
    OBVIOUS
  <2>1. PICK b : b = Bytes(k)
    OBVIOUS
  <2>2. Width \in Nat /\ DOMAIN b = 1 .. Width
    BY <2>1 DEF Bytes
  <2>3. b \in Seq({b[i] : i \in 1 .. Width})
    <3>1. b \in [1 .. Width -> {b[i] : i \in 1 .. Width}]
      BY <2>1 DEF Bytes
    <3>2. QED
      BY <2>2, <3>1, SeqDef
  <2>4. \E c \in 0 .. Width :
            /\ Len(CString(b)) = c
            /\ \A i \in 1 .. c : CString(b)[i] = b[i] /\ b[i] # 0
            /\ c < Width => b[c + 1] = 0
    BY ONLY <2>2, <2>3, CStringIs
  <2>5. QED
    BY <2>1, <2>4
<1>2. CString(Bytes(m)) = CString(Bytes(n))
  BY KeyAssumption DEF FileKeys, FileKey
<1>3. PICK c \in 0 .. Width :
         /\ Len(CString(Bytes(m))) = c
         /\ \A i \in 1 .. c : CString(Bytes(m))[i] = Bytes(m)[i] /\ Bytes(m)[i] # 0
         /\ c < Width => Bytes(m)[c + 1] = 0
  BY <1>1
<1>4. PICK d \in 0 .. Width :
         /\ Len(CString(Bytes(n))) = d
         /\ \A i \in 1 .. d : CString(Bytes(n))[i] = Bytes(n)[i] /\ Bytes(n)[i] # 0
         /\ d < Width => Bytes(n)[d + 1] = 0
  BY <1>1
<1>5. c = d
  BY <1>2, <1>3, <1>4
<1>6. ASSUME NEW i \in 1 .. Width, \A j \in 1 .. i - 1 : Bytes(m)[j] # 0
      PROVE  Bytes(m)[i] = Bytes(n)[i]
  <2>1. ~(c + 1 < i)
    <3>1. SUFFICES ASSUME c + 1 < i PROVE FALSE
      OBVIOUS
    <3>2. c + 1 \in 1 .. i - 1 /\ c < Width
      BY <3>1
    <3>3. QED
      BY <1>3, <1>6, <3>2
  <2>2. CASE i = c + 1
    BY <1>3, <1>4, <1>5, <2>2
  <2>3. CASE i <= c
    <3>1. i \in 1 .. c
      BY <2>3
    <3>2. QED
      BY <1>2, <1>3, <1>4, <1>5, <3>1
  <2>4. QED
    BY <2>1, <2>2, <2>3
<1>7. QED
  BY <1>6 DEF Alike

Tables == [file : Keys, null : BOOLEAN, live : BOOLEAN]
Labels == {"idle", "open", "insert", "value", "find", "delete"}

TablesTyped == tables \in Seq(Tables) /\ Len(tables) <= MaxTables

ThreadsTyped ==
    /\ pc \in [Threads -> Labels]
    /\ file \in [Threads -> Keys \cup {Null}]
    /\ tf \in [Threads -> 0 .. Len(tables)]
    /\ crashed \in {"no", "freed", "null"}

\* What the cache holds under a key is a table of a file with the key.
CacheHolds ==
    \A k \in DOMAIN table :
        /\ table[k].value \in 1 .. Len(tables)
        /\ CKey[tables[table[k].value].file] = k

\* What a thread knows of its file at each place in Get
ThreadHolds(t) ==
    /\ pc[t] # "idle" => file[t] \in Keys
    /\ pc[t] \in {"insert", "find", "delete"} =>
           tf[t] \in 1 .. Len(tables) /\ CKey[tables[tf[t]].file] = CKey[file[t]]
    /\ pc[t] = "value" => handle[t].key = CKey[file[t]]

TCInv == LruInv /\ TablesTyped /\ ThreadsTyped /\ CacheHolds /\ \A t \in Threads : ThreadHolds(t)

LEMMA InitTC == TCInit => TCInv
<1> SUFFICES ASSUME TCInit PROVE TCInv
  OBVIOUS
<1>1. LruInv
  BY InitLru DEF TCInit
<1>2. tables = <<>> /\ tables \in Seq(Tables) /\ Len(tables) = 0
  BY DEF TCInit
<1>3. TablesTyped /\ ThreadsTyped
  BY <1>2 DEF TCInit, TablesTyped, ThreadsTyped, Labels
<1>4. CacheHolds
  BY DEF TCInit, Init, CacheHolds
<1>5. \A t \in Threads : ThreadHolds(t)
  BY DEF TCInit, ThreadHolds
<1> QED
  BY <1>1, <1>3, <1>4, <1>5 DEF TCInv

-----------------------------------------------------------------------------
(* The calls of the cache                                                   *)

\* An entry put in is the new one or was there with its value.
LEMMA PutEntry ==
    ASSUME NEW t \in Threads, NEW tab, NEW list, NEW k, NEW v, Emplace(t, tab, list, k, v),
           \A x \in DOMAIN tab : x \in DOMAIN table /\ tab[x] = table[x]
    PROVE  /\ \E n : handle' = [handle EXCEPT ![t] = [key |-> k, node |-> n]]
           /\ \A x \in DOMAIN table' :
                  \/ x = k /\ table'[x].value = v
                  \/ x \in DOMAIN table /\ table'[x].value = table[x].value
<1>1. PICK n : n = FreshNode(tab)
  OBVIOUS
<1>2. PICK c : c = FreshCell(list)
  OBVIOUS
<1>3. /\ table' = [x \in DOMAIN tab \cup {k} |->
                      IF x = k THEN [node |-> n, value |-> v, pos |-> c] ELSE tab[x]]
      /\ handle' = [handle EXCEPT ![t] = [key |-> k, node |-> n]]
  BY <1>1, <1>2 DEF Emplace
<1> QED
  BY <1>3

LEMMA HitPuts ==
    ASSUME NEW t \in Threads, NEW key \in Keys, Hit(t, key)
    PROVE  /\ \E n : handle' = [handle EXCEPT ![t] = [key |-> CKey[key], node |-> n]]
           /\ \A x \in DOMAIN table' :
                  x \in DOMAIN table /\ table'[x].value = table[x].value
<1> DEFINE k == CKey[key]
<1>1. /\ k \in DOMAIN table
      /\ Emplace(t, Remove(table, k), EraseCell(cache, table[k].pos), k, table[k].value)
  BY DEF Hit
<1>2. \A x \in DOMAIN Remove(table, k) : x \in DOMAIN table /\ Remove(table, k)[x] = table[x]
  BY DEF Remove
<1> QED
  BY <1>1, <1>2, PutEntry

LEMMA InsertPutsEntry ==
    ASSUME NEW t \in Threads, NEW key \in Keys, NEW v, Insert(t, key, v)
    PROVE  /\ \E n : handle' = [handle EXCEPT ![t] = [key |-> CKey[key], node |-> n]]
           /\ \A x \in DOMAIN table' :
                  \/ x = CKey[key] /\ table'[x].value = v
                  \/ x \in DOMAIN table /\ table'[x].value = table[x].value
<1> DEFINE k == CKey[key]
<1>1. \A y : \A x \in DOMAIN Remove(table, y) : x \in DOMAIN table /\ Remove(table, y)[x] = table[x]
  BY DEF Remove
<1>2. CASE k \in DOMAIN table
  <2>1. Emplace(t, Remove(table, k), EraseCell(cache, table[k].pos), k, v)
    BY <1>2 DEF Insert
  <2> QED
    BY <2>1, <1>1, PutEntry
<1>3. CASE k \notin DOMAIN table /\ Capacity = Len(cache)
  <2>1. Emplace(t, Remove(table, Oldest.key), EraseCell(cache, Oldest.cell), k, v)
    BY <1>3 DEF Insert
  <2> QED
    BY <2>1, <1>1, PutEntry
<1>4. CASE k \notin DOMAIN table /\ Capacity # Len(cache)
  <2>1. Emplace(t, table, cache, k, v)
    BY <1>4 DEF Insert
  <2> QED
    BY <2>1, PutEntry
<1> QED
  BY <1>2, <1>3, <1>4

\* A thread that goes from one place in Get to the next leaves the others alone.
LEMMA OthersHold ==
    ASSUME TCInv, NEW t \in Threads, NEW label \in Labels, Goto(t, label), UNCHANGED tables,
           NEW n, file' = [file EXCEPT ![t] = n] \/ UNCHANGED file,
           NEW i, tf' = [tf EXCEPT ![t] = i] \/ UNCHANGED tf,
           NEW h, handle' = [handle EXCEPT ![t] = h] \/ UNCHANGED handle,
           ThreadHolds(t)'
    PROVE  \A u \in Threads : ThreadHolds(u)'
<1> SUFFICES ASSUME NEW u \in Threads, u # t PROVE ThreadHolds(u)'
  OBVIOUS
<1>1. pc'[u] = pc[u] /\ file'[u] = file[u] /\ tf'[u] = tf[u] /\ handle'[u] = handle[u]
  BY DEF TCInv, ThreadsTyped, Goto, LruInv, HandlesTyped
<1> QED
  BY <1>1 DEF TCInv, ThreadHolds

LEMMA GetHitKeeps ==
    ASSUME TCInv, NEW t \in Threads, NEW n \in Keys, GetHit(t, n)
    PROVE  TCInv'
<1>1. Hit(t, n) /\ UNCHANGED <<tables, tf, crashed>>
  BY DEF GetHit
<1>2. LruInv'
  BY <1>1, HitKeeps DEF TCInv
<1>3. PICK m : handle' = [handle EXCEPT ![t] = [key |-> CKey[n], node |-> m]]
  BY <1>1, HitPuts
<1>4. CacheHolds'
  BY <1>1, HitPuts DEF TCInv, CacheHolds
<1>5. PICK label \in {"value", "idle"} :
         /\ Goto(t, label)
         /\ \/ label = "value" /\ file' = [file EXCEPT ![t] = n]
            \/ label = "idle" /\ UNCHANGED file
  BY DEF GetHit
<1>6. TablesTyped' /\ ThreadsTyped'
  BY <1>1, <1>5 DEF TCInv, TablesTyped, ThreadsTyped, Labels, Goto
<1>7. ThreadHolds(t)'
  <2>1. handle'[t].key = CKey[n] /\ pc'[t] = label
    BY <1>3, <1>5 DEF TCInv, LruInv, HandlesTyped, ThreadsTyped, Goto
  <2>2. label = "value" => file'[t] = n
    BY <1>5 DEF TCInv, ThreadsTyped
  <2> QED
    BY <2>1, <2>2, <1>5 DEF ThreadHolds
<1>8. \A u \in Threads : ThreadHolds(u)'
  BY <1>1, <1>3, <1>5, <1>7, OthersHold DEF Labels
<1> QED
  BY <1>2, <1>4, <1>6, <1>8 DEF TCInv

LEMMA GetMissKeeps ==
    ASSUME TCInv, NEW t \in Threads, NEW n \in Keys, GetMiss(t, n)
    PROVE  TCInv'
<1>1. /\ Miss(t, n) /\ Goto(t, "open") /\ file' = [file EXCEPT ![t] = n]
      /\ UNCHANGED <<tables, tf, crashed>>
  BY DEF GetMiss
<1>2. /\ handle' = [handle EXCEPT ![t] = Null] /\ UNCHANGED <<table, cache, uniqueId>>
  BY <1>1 DEF Miss
<1>3. LruInv'
  BY <1>2, LetGoKeeps DEF TCInv
<1>4. CacheHolds'
  BY <1>1, <1>2 DEF TCInv, CacheHolds
<1>5. TablesTyped' /\ ThreadsTyped'
  BY <1>1 DEF TCInv, TablesTyped, ThreadsTyped, Labels, Goto
<1>6. ThreadHolds(t)'
  BY <1>1 DEF TCInv, ThreadsTyped, ThreadHolds, Goto
<1>7. \A u \in Threads : ThreadHolds(u)'
  BY <1>1, <1>2, <1>6, OthersHold DEF Labels
<1> QED
  BY <1>3, <1>4, <1>5, <1>7 DEF TCInv

LEMMA InsertTableKeeps ==
    ASSUME TCInv, NEW t \in Threads, InsertTable(t)
    PROVE  TCInv'
<1>1. /\ pc[t] = "insert" /\ Insert(t, file[t], tf[t]) /\ Goto(t, "value")
      /\ UNCHANGED <<tables, file, tf, crashed>>
  BY DEF InsertTable
<1>2. /\ file[t] \in Keys /\ tf[t] \in 1 .. Len(tables)
      /\ CKey[tables[tf[t]].file] = CKey[file[t]]
  BY <1>1 DEF TCInv, ThreadHolds
<1>3. tf[t] \in Values
  <2>1. Len(tables) \in Nat /\ Len(tables) <= MaxTables
    BY LenProperties DEF TCInv, TablesTyped
  <2> QED
    BY <1>2, <2>1
<1>4. LruInv'
  BY <1>1, <1>2, <1>3, InsertKeeps DEF TCInv
<1>5. /\ \E m : handle' = [handle EXCEPT ![t] = [key |-> CKey[file[t]], node |-> m]]
      /\ \A x \in DOMAIN table' :
             \/ x = CKey[file[t]] /\ table'[x].value = tf[t]
             \/ x \in DOMAIN table /\ table'[x].value = table[x].value
  <2>1. PICK f : f = file[t]
    OBVIOUS
  <2>2. PICK v : v = tf[t]
    OBVIOUS
  <2>3. f \in Keys /\ Insert(t, f, v)
    BY <1>1, <1>2, <2>1, <2>2
  <2>4. /\ \E m : handle' = [handle EXCEPT ![t] = [key |-> CKey[f], node |-> m]]
        /\ \A x \in DOMAIN table' : \/ x = CKey[f] /\ table'[x].value = v
                                    \/ x \in DOMAIN table /\ table'[x].value = table[x].value
    BY <2>3, InsertPutsEntry
  <2> QED
    BY <2>1, <2>2, <2>4
<1>6. PICK m : handle' = [handle EXCEPT ![t] = [key |-> CKey[file[t]], node |-> m]]
  BY <1>5
<1>7. CacheHolds'
  BY <1>1, <1>2, <1>5 DEF TCInv, CacheHolds
<1>8. TablesTyped' /\ ThreadsTyped'
  BY <1>1 DEF TCInv, TablesTyped, ThreadsTyped, Labels, Goto
<1>9. ThreadHolds(t)'
  BY <1>1, <1>2, <1>6 DEF TCInv, LruInv, HandlesTyped, ThreadsTyped, ThreadHolds, Goto
<1>10. \A u \in Threads : ThreadHolds(u)'
  BY <1>1, <1>6, <1>9, OthersHold DEF Labels
<1> QED
  BY <1>4, <1>7, <1>8, <1>10 DEF TCInv

-----------------------------------------------------------------------------
(* The rest of Get                                                          *)

LEMMA OpenFailsKeeps == ASSUME TCInv, NEW t \in Threads, OpenFails(t) PROVE TCInv'
<1>1. Goto(t, "idle") /\ UNCHANGED <<lruVars, tables, file, tf, crashed>>
  BY DEF OpenFails
<1>2. LruInv' /\ CacheHolds'
  BY <1>1 DEF TCInv, CacheHolds, lruVars, LruInv, Tied, HandlesTyped
<1>3. TablesTyped' /\ ThreadsTyped'
  BY <1>1 DEF TCInv, TablesTyped, ThreadsTyped, Labels, Goto
<1>4. ThreadHolds(t)'
  BY <1>1 DEF TCInv, ThreadsTyped, ThreadHolds, Goto
<1>5. \A u \in Threads : ThreadHolds(u)'
  BY <1>1, <1>4, OthersHold DEF Labels, lruVars
<1> QED
  BY <1>2, <1>3, <1>5 DEF TCInv

LEMMA OpenTableKeeps == ASSUME TCInv, NEW t \in Threads, OpenTable(t) PROVE TCInv'
<1>1. PICK null \in BOOLEAN :
         tables' = Append(tables, [file |-> file[t], null |-> null, live |-> TRUE])
  BY DEF OpenTable
<1>2. /\ pc[t] = "open" /\ Len(tables) < MaxTables
      /\ tf' = [tf EXCEPT ![t] = Len(tables) + 1] /\ Goto(t, "insert")
      /\ UNCHANGED <<lruVars, file, crashed>>
  BY DEF OpenTable
<1>3. file[t] \in Keys
  BY <1>2 DEF TCInv, ThreadHolds
<1>4. PICK new : new = [file |-> file[t], null |-> null, live |-> TRUE]
  OBVIOUS
<1>5. new \in Tables /\ new.file = file[t]
  BY <1>3, <1>4 DEF Tables
<1>6. /\ tables' \in Seq(Tables) /\ Len(tables') = Len(tables) + 1 /\ Len(tables) \in Nat
      /\ tables'[Len(tables) + 1] = new
      /\ \A i \in 1 .. Len(tables) : tables'[i] = tables[i]
  BY <1>1, <1>4, <1>5, AppendProperties, LenProperties DEF TCInv, TablesTyped
<1>7. TablesTyped' /\ ThreadsTyped'
  BY <1>2, <1>6 DEF TCInv, TablesTyped, ThreadsTyped, Labels, Goto
<1>8. LruInv'
  BY <1>2 DEF TCInv, lruVars, LruInv, Tied, HandlesTyped
<1>9. CacheHolds'
  BY <1>2, <1>6 DEF TCInv, CacheHolds, lruVars
<1>10. \A u \in Threads : ThreadHolds(u)'
  <2> SUFFICES ASSUME NEW u \in Threads PROVE ThreadHolds(u)'
    OBVIOUS
  <2>1. CASE u = t
    <3>1. pc'[t] = "insert" /\ tf'[t] = Len(tables) + 1 /\ file'[t] = file[t]
      BY <1>2 DEF TCInv, ThreadsTyped, Goto
    <3> QED
      BY <2>1, <3>1, <1>3, <1>5, <1>6 DEF ThreadHolds
  <2>2. CASE u # t
    <3>1. pc'[u] = pc[u] /\ tf'[u] = tf[u] /\ file'[u] = file[u] /\ handle'[u] = handle[u]
      BY <2>2, <1>2 DEF TCInv, ThreadsTyped, Goto, lruVars
    <3>2. ThreadHolds(u)
      BY DEF TCInv
    <3> QED
      BY <3>1, <3>2, <1>6 DEF ThreadHolds
  <2> QED
    BY <2>1, <2>2
<1> QED
  BY <1>7, <1>8, <1>9, <1>10 DEF TCInv

LEMMA CrashKeeps == ASSUME TCInv, NEW why \in {"freed", "null"}, Crash(why) PROVE TCInv'
<1>1. crashed' = why /\ UNCHANGED <<lruVars, tables, pc, file, tf>>
  BY DEF Crash
<1>2. LruInv' /\ CacheHolds'
  BY <1>1 DEF TCInv, CacheHolds, lruVars, LruInv, Tied, HandlesTyped
<1>3. TablesTyped' /\ ThreadsTyped'
  BY <1>1 DEF TCInv, TablesTyped, ThreadsTyped
<1>4. \A u \in Threads : ThreadHolds(u)'
  BY <1>1 DEF TCInv, ThreadHolds, lruVars
<1> QED
  BY <1>2, <1>3, <1>4 DEF TCInv

\* What the pointer leads to is a table of a file that has the key of the thread's.
LEMMA ReadValueKeeps ==
    ASSUME TCInv, NEW t \in Threads, ReadValue(t)
    PROVE  TCInv'
<1>1. PICK v : v = table[handle[t].key].value
  OBVIOUS
<1>2. /\ pc[t] = "value" /\ handle[t].key \in DOMAIN table
      /\ tf' = [tf EXCEPT ![t] = v] /\ Goto(t, "find")
      /\ UNCHANGED <<lruVars, tables, file, crashed>>
  BY <1>1 DEF ReadValue, Live
<1>3. handle[t].key = CKey[file[t]] /\ file[t] \in Keys
  BY <1>2 DEF TCInv, ThreadHolds
<1>4. v \in 1 .. Len(tables) /\ CKey[tables[v].file] = CKey[file[t]] /\ Len(tables) \in Nat
  BY <1>1, <1>2, <1>3, LenProperties DEF TCInv, CacheHolds, TablesTyped
<1>5. LruInv' /\ CacheHolds'
  BY <1>2 DEF TCInv, CacheHolds, lruVars, LruInv, Tied, HandlesTyped
<1>6. TablesTyped' /\ ThreadsTyped'
  BY <1>2, <1>4 DEF TCInv, TablesTyped, ThreadsTyped, Labels, Goto
<1>7. ThreadHolds(t)'
  <2>1. pc'[t] = "find" /\ tf'[t] = v /\ file'[t] = file[t] /\ tables' = tables
    BY <1>2 DEF TCInv, ThreadsTyped, Goto
  <2> QED
    BY <2>1, <1>3, <1>4 DEF ThreadHolds
<1>8. \A u \in Threads : ThreadHolds(u)'
  BY <1>2, <1>7, OthersHold DEF Labels, lruVars
<1> QED
  BY <1>5, <1>6, <1>8 DEF TCInv

LEMMA FindInTableKeeps == ASSUME TCInv, NEW t \in Threads, FindInTable(t) PROVE TCInv'
<1>1. pc[t] = "find" /\ Goto(t, "delete") /\ UNCHANGED <<lruVars, tables, file, tf, crashed>>
  BY DEF FindInTable
<1>2. LruInv' /\ CacheHolds'
  BY <1>1 DEF TCInv, CacheHolds, lruVars, LruInv, Tied, HandlesTyped
<1>3. TablesTyped' /\ ThreadsTyped'
  BY <1>1 DEF TCInv, TablesTyped, ThreadsTyped, Labels, Goto
<1>4. ThreadHolds(t)'
  BY <1>1 DEF TCInv, ThreadsTyped, ThreadHolds, Goto
<1>5. \A u \in Threads : ThreadHolds(u)'
  BY <1>1, <1>4, OthersHold DEF Labels, lruVars
<1> QED
  BY <1>2, <1>3, <1>5 DEF TCInv

LEMMA DeleteTableKeeps == ASSUME TCInv, NEW t \in Threads, DeleteTable(t) PROVE TCInv'
<1>1. PICK i : i = tf[t]
  OBVIOUS
<1>2. /\ pc[t] = "delete" /\ tables' = [tables EXCEPT ![i].live = FALSE]
      /\ tf' = [tf EXCEPT ![t] = 0] /\ Goto(t, "idle") /\ Release(t) /\ UNCHANGED <<file, crashed>>
  BY <1>1 DEF DeleteTable
<1>3. handle' = [handle EXCEPT ![t] = Null] /\ UNCHANGED <<table, cache, uniqueId>>
  BY <1>2 DEF Release
<1>4. i \in 1 .. Len(tables) /\ Len(tables) \in Nat
  BY <1>1, <1>2, LenProperties DEF TCInv, ThreadHolds, TablesTyped
<1>5. PICK dead : dead = [tables[i] EXCEPT !.live = FALSE]
  OBVIOUS
<1>6. dead \in Tables /\ dead.file = tables[i].file
  <2>1. tables[i] \in Tables
    BY <1>4, ElementOfSeq DEF TCInv, TablesTyped
  <2> QED
    BY <2>1, <1>5 DEF Tables
<1>7. tables' = [tables EXCEPT ![i] = dead]
  BY <1>2, <1>5
<1>8. /\ tables' \in Seq(Tables) /\ Len(tables') = Len(tables)
      /\ \A j \in 1 .. Len(tables) : tables'[j].file = tables[j].file
  BY <1>4, <1>6, <1>7, ExceptSeq DEF TCInv, TablesTyped
<1>9. LruInv'
  BY <1>3, LetGoKeeps DEF TCInv
<1>10. CacheHolds'
  BY <1>3, <1>8 DEF TCInv, CacheHolds
<1>11. TablesTyped' /\ ThreadsTyped'
  BY <1>2, <1>4, <1>8 DEF TCInv, TablesTyped, ThreadsTyped, Labels, Goto
<1>12. \A u \in Threads : ThreadHolds(u)'
  <2> SUFFICES ASSUME NEW u \in Threads PROVE ThreadHolds(u)'
    OBVIOUS
  <2>1. CASE u = t
    BY <2>1, <1>2 DEF TCInv, ThreadsTyped, ThreadHolds, Goto
  <2>2. CASE u # t
    <3>1. pc'[u] = pc[u] /\ tf'[u] = tf[u] /\ file'[u] = file[u] /\ handle'[u] = handle[u]
      BY <2>2, <1>2, <1>3 DEF TCInv, ThreadsTyped, LruInv, HandlesTyped, Goto
    <3>2. ThreadHolds(u)
      BY DEF TCInv
    <3> QED
      BY <3>1, <3>2, <1>8 DEF ThreadHolds
  <2> QED
    BY <2>1, <2>2
<1> QED
  BY <1>9, <1>10, <1>11, <1>12 DEF TCInv

LEMMA StepKeepsTC == ASSUME TCInv, [TCNext]_allVars PROVE TCInv'
<1>1. ASSUME NEW t \in Threads, Get(t) PROVE TCInv'
  <2>1. ASSUME NEW n \in Keys, GetHit(t, n) \/ GetMiss(t, n) PROVE TCInv'
    BY <2>1, GetHitKeeps, GetMissKeeps
  <2>2. CASE OpenFails(t) \/ OpenTable(t) \/ InsertTable(t)
    BY <2>2, OpenFailsKeeps, OpenTableKeeps, InsertTableKeeps
  <2>3. CASE ReadValue(t) \/ FindInTable(t) \/ DeleteTable(t)
    BY <2>3, ReadValueKeeps, FindInTableKeeps, DeleteTableKeeps
  <2>4. CASE ReadValueGone(t) \/ FindInFreed(t) \/ FindInNull(t) \/ DeleteAgain(t)
    BY <2>4, CrashKeeps DEF ReadValueGone, FindInFreed, FindInNull, DeleteAgain
  <2> QED
    BY <1>1, <2>1, <2>2, <2>3, <2>4 DEF Get
<1>2. CASE UNCHANGED allVars
  <2>1. UNCHANGED lruVars /\ UNCHANGED <<tables, pc, file, tf, crashed>>
    BY <1>2 DEF allVars, tcVars
  <2>2. LruInv' /\ CacheHolds'
    BY <2>1 DEF TCInv, CacheHolds, lruVars, LruInv, Tied, HandlesTyped
  <2>3. TablesTyped' /\ ThreadsTyped' /\ \A u \in Threads : ThreadHolds(u)'
    BY <2>1 DEF TCInv, TablesTyped, ThreadsTyped, ThreadHolds, lruVars
  <2> QED
    BY <2>2, <2>3 DEF TCInv
<1> QED
  BY <1>1, <1>2 DEF TCNext

LEMMA TCInvReads == TCInv => ReadsItsFile
<1> SUFFICES ASSUME TCInv PROVE ReadsItsFile
  OBVIOUS
<1>1. Consistent
  BY LruInvConsistent DEF TCInv
<1>2. TCTypeOK
  <2>1. \A i \in DOMAIN tables : tables[i] \in [file : Keys, null : BOOLEAN, live : BOOLEAN]
    BY LenProperties, ElementOfSeq DEF TCInv, TablesTyped, Tables
  <2> QED
    BY <1>1, <2>1 DEF TCInv, ThreadsTyped, Labels, TCTypeOK, Consistent
<1>3. ASSUME NEW t \in Threads, pc[t] \in {"find", "delete"}
      PROVE  Alike(tables[tf[t]].file, file[t])
  <2>1. /\ file[t] \in Keys /\ tf[t] \in 1 .. Len(tables)
        /\ CKey[tables[tf[t]].file] = CKey[file[t]]
    BY <1>3 DEF TCInv, ThreadHolds
  <2>2. tables[tf[t]].file \in Keys
    <3>1. tables[tf[t]] \in Tables
      BY <2>1, ElementOfSeq DEF TCInv, TablesTyped
    <3>2. QED
      BY <3>1 DEF Tables
  <2>3. QED
    BY <2>1, <2>2, OneKeyAlike
<1> QED
  BY <1>1, <1>2, <1>3 DEF ReadsItsFile

\* Get searches and deletes a table of the file it was called with, or of one whose number
\* has the same bytes up to the first zero (table_cache.cpp:46-49), and the cache under
\* it keeps its structure.
THEOREM GetReadsItsFile == TCSpec => []ReadsItsFile
<1>1. TCInv /\ [TCNext]_allVars => TCInv'
  BY StepKeepsTC
<1> QED
  BY <1>1, InitTC, TCInvReads, PTL DEF TCSpec
=============================================================================
