-------------------------- MODULE ReturnRun_proofs --------------------------
(***************************************************************************)
(* Proofs about ReturnRun: for every set of coherent returns, any number   *)
(* of businesses and shareholders and any number of commands run in one    *)
(* directory, packets are filings of one run each, a command that finished *)
(* leaves each of its forms in exactly one place, and no form is ever in   *)
(* neither place.                                                          *)
(*                                                                         *)
(* The invariant says, stage by stage, what is on disk: the forms emitted  *)
(* so far are loose until pruning; a packet already assembled holds every  *)
(* form its slots claim; pruning removes exactly those.  It rests on what  *)
(* the tables say: the emission orders list each form once, the slots of a *)
(* packet hold one form each in attachment order, no form is in two        *)
(* packets, and a run that emits any form of a packet emits its main form. *)
(***************************************************************************)
EXTENDS ReturnRun, Money_proofs, SequenceTheorems, TLAPS

----------------------------------------------------------------------------
(* Selections, and sets numbered by rank.                                  *)

\* A selection of 1 .. N is its members, each once, in increasing order.
Enumerates(k, T) ==
  /\ k \in Seq(T)
  /\ \A i, j \in 1 .. Len(k) : i < j => k[i] < k[j]
  /\ \A x \in T : \E i \in 1 .. Len(k) : k[i] = x

\* A list that goes up, and one more above it.
LEMMA EnumeratesMore ==
  ASSUME NEW T \in SUBSET Nat, NEW k, Enumerates(k, T), NEW n \in Nat, \A x \in T : x < n
  PROVE  Enumerates(Append(k, n), T \cup {n})
<1> DEFINE q == Append(k, n)
           m == Len(k)
<1>1. /\ k \in Seq(T) /\ m \in Nat
      /\ \A i, j \in 1 .. m : i < j => k[i] < k[j]
      /\ \A x \in T : \E i \in 1 .. m : k[i] = x
  BY DEF Enumerates
<1>2. k \in Seq(T \cup {n}) /\ n \in T \cup {n} /\ \A i \in 1 .. m : k[i] \in T
  BY <1>1
<1>3. /\ q \in Seq(T \cup {n}) /\ Len(q) = m + 1
      /\ \A i \in 1 .. m : q[i] = k[i] /\ q[i] \in T /\ q[i] \in Nat /\ q[i] < n
      /\ q[m + 1] = n
  <2> DEFINE V == T \cup {n}
  <2>1. k \in Seq(V) /\ n \in V
    BY <1>2
  <2> HIDE DEF V
  <2>2. /\ q \in Seq(V) /\ Len(q) = m + 1 /\ q[m + 1] = n
        /\ \A i \in 1 .. m : q[i] = k[i]
    BY <2>1
  <2>3. \A i \in 1 .. m : k[i] \in T /\ k[i] \in Nat /\ k[i] < n
    <3>1. \A i \in 1 .. m : k[i] \in T
      BY <1>1
    <3>2. \A x \in T : x \in Nat /\ x < n
      OBVIOUS
    <3>3. QED
      BY <3>1, <3>2
  <2> HIDE DEF q, m
  <2>4. QED
    BY <2>2, <2>3 DEF V
<1> HIDE DEF q, m
<1>4. \A i, j \in 1 .. m + 1 : i < j => q[i] < q[j]
  <2> SUFFICES ASSUME NEW i \in 1 .. m + 1, NEW j \in 1 .. m + 1, i < j PROVE q[i] < q[j]
    OBVIOUS
  <2>1. i \in 1 .. m
    BY <1>1
  <2>2. CASE j = m + 1
    BY <1>3, <2>1, <2>2
  <2>3. CASE j # m + 1
    <3>1. j \in 1 .. m
      BY <1>1, <2>3
    <3>2. QED
      BY <1>1, <1>3, <2>1, <3>1
  <2>4. QED
    BY <2>2, <2>3
<1>5. \A x \in T \cup {n} : \E i \in 1 .. m + 1 : q[i] = x
  <2>1. \A i \in 1 .. m : i \in 1 .. m + 1
    BY <1>1
  <2>2. m + 1 \in 1 .. m + 1
    BY <1>1
  <2>3. QED
    BY <1>1, <1>3, <2>1, <2>2
<1>6. Enumerates(q, T \cup {n})
  BY <1>3, <1>4, <1>5 DEF Enumerates
<1>7. QED
  BY <1>6 DEF q

\* A selection keeps exactly the indices selected, in their order.
LEMMA KeptEnumerates ==
  ASSUME NEW N \in Nat, NEW S
  PROVE  Enumerates(Kept(N, S), S \cap (1 .. N))
<1> DEFINE r == KeptUpTo(N, S)
           Q == {n \in 0 .. N : Enumerates(r[n], S \cap (1 .. n))}
<1>1. /\ r[0] = <<>>
      /\ \A n \in 0 .. N - 1 :
           r[n + 1] = IF n + 1 \in S THEN Append(r[n], n + 1) ELSE r[n]
  <2>1. KeptAlong(r, N, S)
    BY KeptUpToIs
  <2> HIDE DEF r
  <2>2. QED
    BY <2>1 DEF KeptAlong
<1> HIDE DEF r
<1>2. 0 \in Q
  <2>1. S \cap (1 .. 0) = {} /\ Enumerates(<<>>, {})
    BY DEF Enumerates
  <2>2. QED
    BY <1>1, <2>1
<1>3. ASSUME NEW n \in 0 .. N - 1, n \in Q PROVE n + 1 \in Q
  <2> DEFINE T == S \cap (1 .. n)
  <2>1. Enumerates(r[n], T) /\ n \in Nat /\ n + 1 \in Nat /\ n + 1 \in 0 .. N
    BY <1>3
  <2>2. T \in SUBSET Nat /\ \A x \in T : x < n + 1
    BY <2>1
  <2>3. CASE n + 1 \in S
    <3>1. S \cap (1 .. n + 1) = T \cup {n + 1}
      BY <2>1, <2>3
    <3> HIDE DEF T
    <3>2. Enumerates(Append(r[n], n + 1), T \cup {n + 1})
      BY <2>1, <2>2, EnumeratesMore
    <3>3. QED
      BY <1>1, <1>3, <2>1, <2>3, <3>1, <3>2
  <2>4. CASE n + 1 \notin S
    <3>1. S \cap (1 .. n + 1) = T
      BY <2>1, <2>4
    <3> HIDE DEF T
    <3>2. QED
      BY <1>1, <1>3, <2>1, <2>4, <3>1
  <2>5. QED
    BY <2>3, <2>4
<1>4. N \in Q
  <2> HIDE DEF Q
  <2>1. QED
    BY <1>2, <1>3, ByPrefix
<1>5. QED
  BY <1>4 DEF Kept, r

\* The members of a list at the indices selected, each index once.
LEMMA SelectionIs ==
  ASSUME NEW V, NEW items \in Seq(V), NEW S
  PROVE  LET q == Selection(items, S) IN
         /\ q \in Seq(V)
         /\ \A i \in 1 .. Len(q) : \E j \in S \cap (1 .. Len(items)) : q[i] = items[j]
         /\ \A j \in S \cap (1 .. Len(items)) : \E i \in 1 .. Len(q) : q[i] = items[j]
         /\ (\A i, j \in 1 .. Len(items) : items[i] = items[j] => i = j)
              => \A i, j \in 1 .. Len(q) : q[i] = q[j] => i = j
<1> DEFINE N == Len(items)
           T == S \cap (1 .. N)
           kept == Kept(N, S)
           q == Selection(items, S)
<1>1. N \in Nat /\ \A j \in 1 .. N : items[j] \in V
  OBVIOUS
<1>2. Enumerates(kept, T)
  BY <1>1, KeptEnumerates
<1>3. q = [i \in DOMAIN kept |-> items[kept[i]]]
  BY DEF Selection
<1> HIDE DEF kept
<1>4. /\ kept \in Seq(T) /\ Len(kept) \in Nat /\ DOMAIN kept = 1 .. Len(kept)
      /\ \A i \in 1 .. Len(kept) : kept[i] \in T /\ kept[i] \in 1 .. N
      /\ \A i, j \in 1 .. Len(kept) : i < j => kept[i] < kept[j]
      /\ \A x \in T : \E i \in 1 .. Len(kept) : kept[i] = x
  BY <1>2 DEF Enumerates
<1> HIDE DEF q, N
<1>5. /\ q \in Seq(V) /\ Len(q) = Len(kept)
      /\ \A i \in 1 .. Len(kept) : q[i] = items[kept[i]]
  <2>1. q \in [1 .. Len(kept) -> V]
    BY <1>1, <1>3, <1>4
  <2>2. QED
    BY <1>3, <1>4, <2>1
<1>6. \A i, j \in 1 .. Len(kept) : kept[i] = kept[j] => i = j
  <2> SUFFICES ASSUME NEW i \in 1 .. Len(kept), NEW j \in 1 .. Len(kept), i # j
               PROVE  kept[i] # kept[j]
    OBVIOUS
  <2>1. i < j \/ j < i
    BY <1>4
  <2>2. kept[i] \in 1 .. N /\ kept[j] \in 1 .. N
    BY <1>4
  <2>3. QED
    BY <1>1, <1>4, <2>1, <2>2
<1>7. \A i \in 1 .. Len(q) : \E j \in T : q[i] = items[j]
  BY <1>4, <1>5
<1>8. \A j \in T : \E i \in 1 .. Len(q) : q[i] = items[j]
  <2> SUFFICES ASSUME NEW j \in T PROVE \E i \in 1 .. Len(q) : q[i] = items[j]
    OBVIOUS
  <2> HIDE DEF T
  <2>1. PICK i \in 1 .. Len(kept) : kept[i] = j
    BY <1>4
  <2>2. i \in 1 .. Len(q) /\ q[i] = items[j]
    BY <1>5, <2>1
  <2>3. QED
    BY <2>2
<1>9. (\A i, j \in 1 .. N : items[i] = items[j] => i = j)
        => \A i, j \in 1 .. Len(q) : q[i] = q[j] => i = j
  BY <1>4, <1>5, <1>6
<1>10. QED
  BY <1>5, <1>7, <1>8, <1>9 DEF q, N

\* R orders M, strictly and totally; each member has those below it.
Ordering(M, R) ==
  /\ \A m \in M : <<m, m>> \notin R
  /\ \A k, l, m \in M : <<k, l>> \in R /\ <<l, m>> \in R => <<k, m>> \in R
  /\ \A l, m \in M : l = m \/ <<l, m>> \in R \/ <<m, l>> \in R

Rank(M, R) == [m \in M |-> Cardinality({l \in M : <<l, m>> \in R})]

\* The numbers of members below number a finite set from zero, in its order.
LEMMA ByRank ==
  ASSUME NEW M, IsFiniteSet(M), NEW R, Ordering(M, R)
  PROVE  LET rank == Rank(M, R)
             n == Cardinality(M)
         IN /\ n \in Nat /\ rank \in [M -> 0 .. n - 1]
            /\ \A l, m \in M : <<l, m>> \in R <=> rank[l] < rank[m]
            /\ \A l, m \in M : rank[l] = rank[m] => l = m
            /\ \A i \in 1 .. n : \E m \in M : rank[m] = i - 1
<1> DEFINE below(m) == {l \in M : <<l, m>> \in R}
           rank == Rank(M, R)
           n == Cardinality(M)
<1>1. n \in Nat
  BY FS_CardinalityType
<1>2. \A m \in M : IsFiniteSet(below(m)) /\ Cardinality(below(m)) \in 0 .. n - 1
  <2> SUFFICES ASSUME NEW m \in M
               PROVE  IsFiniteSet(below(m)) /\ Cardinality(below(m)) \in 0 .. n - 1
    OBVIOUS
  <2>1. below(m) \subseteq M \ {m} /\ m \in M
    BY DEF Ordering
  <2>2. IsFiniteSet(M \ {m}) /\ Cardinality(M \ {m}) = n - 1
    BY <2>1, FS_RemoveElement
  <2>3. IsFiniteSet(below(m)) /\ Cardinality(below(m)) <= n - 1
    <3> DEFINE B == below(m)
               C == M \ {m}
    <3>1. B \in SUBSET C /\ IsFiniteSet(C) /\ Cardinality(C) = n - 1
      BY <2>1, <2>2
    <3> HIDE DEF B, C
    <3>2. IsFiniteSet(B) /\ Cardinality(B) <= Cardinality(C)
      BY <3>1, FS_Subset
    <3>3. QED
      BY <3>1, <3>2 DEF B
  <2>4. Cardinality(below(m)) \in Nat
    BY <2>3, FS_CardinalityType
  <2>5. QED
    BY <1>1, <2>3, <2>4
<1>3. ASSUME NEW l \in M, NEW m \in M, <<l, m>> \in R
      PROVE  Cardinality(below(l)) < Cardinality(below(m))
  <2>1. below(l) \subseteq below(m) \ {l} /\ l \in below(m)
    BY <1>3 DEF Ordering
  <2>2. IsFiniteSet(below(m)) /\ Cardinality(below(m)) \in Nat
    BY <1>2
  <2>3. /\ IsFiniteSet(below(m) \ {l})
        /\ Cardinality(below(m) \ {l}) = Cardinality(below(m)) - 1
    BY <2>1, <2>2, FS_RemoveElement
  <2>4. Cardinality(below(l)) <= Cardinality(below(m) \ {l})
    BY <2>1, <2>3, FS_Subset
  <2>5. Cardinality(below(l)) \in Nat
    BY <1>2
  <2> HIDE DEF below
  <2>6. QED
    BY <2>2, <2>3, <2>4, <2>5
<1> HIDE DEF below
<1>4. rank \in [M -> 0 .. n - 1] /\ \A m \in M : rank[m] = Cardinality(below(m))
  <2>1. rank = [m \in M |-> Cardinality(below(m))]
    BY DEF Rank, below
  <2> HIDE DEF rank, n
  <2>2. QED
    BY <1>2, <2>1
<1>5. \A l, m \in M : <<l, m>> \in R => rank[l] < rank[m]
  BY <1>3, <1>4
<1> HIDE DEF rank, n
<1>6. \A m \in M : rank[m] \in Int
  BY <1>1, <1>4
<1>7. \A l, m \in M : rank[l] = rank[m] => l = m
  <2> SUFFICES ASSUME NEW l \in M, NEW m \in M, rank[l] = rank[m] PROVE l = m
    OBVIOUS
  <2>1. ~(rank[l] < rank[m]) /\ ~(rank[m] < rank[l])
    BY <1>6
  <2>2. QED
    BY <1>5, <2>1 DEF Ordering
<1>8. \A l, m \in M : rank[l] < rank[m] => <<l, m>> \in R
  <2> SUFFICES ASSUME NEW l \in M, NEW m \in M, rank[l] < rank[m] PROVE <<l, m>> \in R
    OBVIOUS
  <2>1. ~(rank[m] < rank[l]) /\ rank[l] # rank[m]
    BY <1>6
  <2>2. QED
    BY <1>5, <2>1 DEF Ordering
<1>9. \A i \in 1 .. n : \E m \in M : rank[m] = i - 1
  <2> DEFINE image == {rank[m] : m \in M}
  <2>1. rank \in Bijection(M, image)
    <3>1. rank \in [M -> image] /\ \A y \in image : \E m \in M : rank[m] = y
      BY <1>4
    <3>2. QED
      BY <1>7, <3>1 DEF Bijection, Injection, Surjection, IsInjective
  <2>2. IsFiniteSet(image) /\ Cardinality(image) = n
    BY <2>1, FS_Bijection DEF ExistsBijection, n
  <2>3. image \subseteq 0 .. n - 1
    BY <1>4
  <2>4. IsFiniteSet(0 .. n - 1) /\ Cardinality(0 .. n - 1) = n
    BY <1>1, FS_Interval
  <2>5. image = 0 .. n - 1
    <3> HIDE DEF image
    <3>1. QED
      BY <2>2, <2>3, <2>4, FS_Subset
  <2>6. \A i \in 1 .. n : i - 1 \in 0 .. n - 1
    BY <1>1
  <2>7. QED
    BY <2>5, <2>6
<1>10. QED
  BY <1>1, <1>4, <1>5, <1>7, <1>8, <1>9 DEF rank, n, below

----------------------------------------------------------------------------
(* The emission orders list each form once.                                *)

\* The forms that come in numbered copies, and those that come alone, by return.
FamilyBases == {"sch_c", "1120s_k1", "1120s_k1_qbi_stmt", "f100s_k1"}

IndividualBases == {"1040", "4868", "sch_b", "sch_d", "f8949", "sch_e", "sch_a", "sch_1",
  "sch_2", "sch_se", "f4562", "8959", "8962", "f8995", "f8582", "sch_1_8z_stmt",
  "f3115", "f3115_asset_stmt", "f3115_duplicate_copy", "f3115_filing_manifest"}
CorporateBases == {"1120s", "1120s_other_deductions_stmt"}
CaliforniaBases == {"f540", "sch_ca", "sch_d_540", "ftb3532", "ca_resolved"}
CaliforniaCorporateBases == {"f100s", "f100s_other_deductions_stmt", "scorp_amendment_note"}

SolesOf(B) == {Sole(b) : b \in B}
FamilyOf(b) == {Numbered(b, n) : n \in Nums}
Copies4562 == {ActivityCopy("f4562", s, n) : s \in {1, 2}, n \in Nat}

\* A list of keys of K, none twice.
ListsOnce(s, K) ==
  /\ s \in Seq(K)
  /\ \A i, j \in 1 .. Len(s) : s[i] = s[j] => i = j

\* Two such lists of different keys, one after the other.
LEMMA ListsJoin ==
  ASSUME NEW K, NEW L, NEW s, NEW t, ListsOnce(s, K), ListsOnce(t, L), K \cap L = {}
  PROVE  ListsOnce(s \o t, K \cup L)
<1> DEFINE V == K \cup L
           m == Len(s)
           n == Len(t)
           q == s \o t
<1>1. /\ m \in Nat /\ n \in Nat
      /\ \A i \in 1 .. m : s[i] \in K
      /\ \A i \in 1 .. n : t[i] \in L
      /\ \A i, j \in 1 .. m : s[i] = s[j] => i = j
      /\ \A i, j \in 1 .. n : t[i] = t[j] => i = j
  BY DEF ListsOnce
<1>2. s \in Seq(V) /\ t \in Seq(V)
  BY DEF ListsOnce
<1> HIDE DEF V
<1>3. /\ q \in Seq(V) /\ Len(q) = m + n
      /\ \A i \in 1 .. m + n : q[i] = IF i <= m THEN s[i] ELSE t[i - m]
  BY <1>2
<1> HIDE DEF q, m, n
<1>4. ASSUME NEW i \in 1 .. m + n, NEW j \in 1 .. m + n, q[i] = q[j] PROVE i = j
  <2>1. CASE i <= m /\ j <= m
    BY <1>1, <1>3, <1>4, <2>1
  <2>2. CASE i <= m /\ ~(j <= m)
    <3>1. i \in 1 .. m /\ j - m \in 1 .. n
      BY <1>1, <2>2
    <3>2. q[i] \in K /\ q[j] \in L
      BY <1>1, <1>3, <2>2, <3>1
    <3>3. QED
      BY <1>4, <3>2
  <2>3. CASE ~(i <= m) /\ j <= m
    <3>1. j \in 1 .. m /\ i - m \in 1 .. n
      BY <1>1, <2>3
    <3>2. q[j] \in K /\ q[i] \in L
      BY <1>1, <1>3, <2>3, <3>1
    <3>3. QED
      BY <1>4, <3>2
  <2>4. CASE ~(i <= m) /\ ~(j <= m)
    <3>1. i - m \in 1 .. n /\ j - m \in 1 .. n
      BY <1>1, <2>4
    <3>2. t[i - m] = t[j - m]
      BY <1>3, <1>4, <2>4
    <3>3. i - m = j - m
      BY <1>1, <3>1, <3>2
    <3>4. QED
      BY <1>1, <3>3
  <2>5. QED
    BY <2>1, <2>2, <2>3, <2>4
<1>5. QED
  BY <1>3, <1>4 DEF ListsOnce, q, V

\* The single forms at the head of the individual order.
LEMMA HeadList ==
  ListsOnce(<<Sole("1040"), Sole("4868"), Sole("sch_b"), Sole("sch_d"), Sole("f8949"),
    Sole("sch_e"), Sole("sch_a"), Sole("sch_1"), Sole("sch_2")>>,
    SolesOf({"1040", "4868", "sch_b", "sch_d", "f8949", "sch_e", "sch_a", "sch_1", "sch_2"}))
BY DEF ListsOnce, SolesOf, Sole, Key

\* The businesses' schedules.
LEMMA SchCList == ListsOnce([n \in Nums |-> SchC(n)], FamilyOf("sch_c"))
<1>1. MaxCopies \in Nat
  BY ReturnsAssumption
<1>2. \A n \in Nums : SchC(n) \in FamilyOf("sch_c")
  BY DEF FamilyOf, SchC
<1>3. \A n, k \in Nums : SchC(n) = SchC(k) => n = k
  BY DEF SchC, Numbered, Key
<1>4. QED
  BY <1>1, <1>2, <1>3 DEF Nums, ListsOnce

\* The copies of Form 4562, by activity and section.
LEMMA CopiesList == ListsOnce(Form4562Copies, Copies4562)
<1>1. MaxCopies \in Nat
  BY ReturnsAssumption
<1> DEFINE N == 2 * MaxCopies
           slug(i) == IF i <= MaxCopies THEN 1 ELSE 2
           num(i) == IF i <= MaxCopies THEN i - 1 ELSE i - MaxCopies - 1
<1>2. \A i \in 1 .. N : Form4562Copies[i] = ActivityCopy("f4562", slug(i), num(i))
  BY DEF Form4562Copies
<1>3. \A i \in 1 .. N : slug(i) \in {1, 2} /\ num(i) \in Nat
  BY <1>1
<1>4. \A i, j \in 1 .. N : slug(i) = slug(j) /\ num(i) = num(j) => i = j
  BY <1>1
<1> HIDE DEF slug, num
<1>5. \A i \in 1 .. N : Form4562Copies[i] \in Copies4562
  BY <1>2, <1>3 DEF Copies4562
<1>6. \A i, j \in 1 .. N : Form4562Copies[i] = Form4562Copies[j] => i = j
  <2>1. \A x, y, u, v : ActivityCopy("f4562", x, y) = ActivityCopy("f4562", u, v) => x = u /\ y = v
    BY DEF ActivityCopy, Key
  <2>2. QED
    BY <1>2, <1>4, <2>1
<1>7. N \in Nat /\ Form4562Copies \in [1 .. N -> Copies4562]
  BY <1>1, <1>5 DEF Form4562Copies
<1>8. Form4562Copies \in Seq(Copies4562) /\ Len(Form4562Copies) = N
  BY <1>7
<1>9. QED
  BY <1>6, <1>8 DEF ListsOnce

\* The single forms at the tail of the individual order.
LEMMA TailList ==
  ListsOnce(<<Sole("8959"), Sole("8962"), Sole("f8995"), Sole("f8582"),
       Sole("sch_1_8z_stmt"),
       Sole("f3115"), Sole("f3115_asset_stmt"), Sole("f3115_duplicate_copy"),
       Sole("f3115_filing_manifest")>>,
    SolesOf({"8959", "8962", "f8995", "f8582", "sch_1_8z_stmt", "f3115",
             "f3115_asset_stmt", "f3115_duplicate_copy", "f3115_filing_manifest"}))
BY DEF ListsOnce, SolesOf, Sole, Key

\* The single forms between the copies.
LEMMA MiddleList == ListsOnce(<<Sole("sch_se"), Sole("f4562")>>, SolesOf({"sch_se", "f4562"}))
BY DEF ListsOnce, SolesOf, Sole, Key

IndividualKeys == SolesOf(IndividualBases) \cup FamilyOf("sch_c") \cup Copies4562

\* The individual order.
LEMMA IndividualList == ListsOnce(IndividualOrder, IndividualKeys)
<1> DEFINE A == SolesOf({"1040", "4868", "sch_b", "sch_d", "f8949", "sch_e", "sch_a", "sch_1", "sch_2"})
           B == FamilyOf("sch_c")
           C == SolesOf({"sch_se", "f4562"})
           D == Copies4562
           E == SolesOf({"8959", "8962", "f8995", "f8582", "sch_1_8z_stmt", "f3115",
             "f3115_asset_stmt", "f3115_duplicate_copy", "f3115_filing_manifest"})
<1>1. /\ A \cap B = {} /\ (A \cup B) \cap C = {} /\ ((A \cup B) \cup C) \cap D = {}
      /\ (((A \cup B) \cup C) \cup D) \cap E = {}
  BY DEF SolesOf, FamilyOf, Copies4562, Sole, Numbered, ActivityCopy, Key
<1>2. IndividualKeys = (((A \cup B) \cup C) \cup D) \cup E
  BY DEF IndividualKeys, IndividualBases, SolesOf
<1> HIDE DEF A, B, C, D, E
<1> QED
  BY <1>1, <1>2, HeadList, SchCList, MiddleList, CopiesList, TailList, ListsJoin DEF IndividualOrder, A, B, C, D, E

CorporateKeys ==
  SolesOf(CorporateBases) \cup (FamilyOf("1120s_k1") \cup FamilyOf("1120s_k1_qbi_stmt"))

\* The Schedules K-1, each with its statement.
LEMMA K1List ==
  ListsOnce([i \in 1 .. 2 * MaxCopies |-> IF i % 2 = 1 THEN K1((i + 1) \div 2) ELSE K1Stmt(i \div 2)],
        FamilyOf("1120s_k1") \cup FamilyOf("1120s_k1_qbi_stmt"))
<1> DEFINE N == 2 * MaxCopies
           V == FamilyOf("1120s_k1") \cup FamilyOf("1120s_k1_qbi_stmt")
           s == [i \in 1 .. N |-> IF i % 2 = 1 THEN K1((i + 1) \div 2) ELSE K1Stmt(i \div 2)]
<1>1. MaxCopies \in Nat /\ N \in Nat
  BY ReturnsAssumption
<1>2. \A i \in 1 .. N : IF i % 2 = 1 THEN (i + 1) \div 2 \in Nums ELSE i \div 2 \in Nums
  BY <1>1, SMT DEF Nums
<1>3. \A n \in Nums : K1(n) \in V /\ K1Stmt(n) \in V
  BY DEF K1, K1Stmt, FamilyOf
<1>4. /\ \A n, k \in Nums : K1(n) # K1Stmt(k)
      /\ \A n, k \in Nums : K1(n) = K1(k) => n = k
      /\ \A n, k \in Nums : K1Stmt(n) = K1Stmt(k) => n = k
  BY DEF K1, K1Stmt, Numbered, Key
<1>5. \A i \in 1 .. N : s[i] = IF i % 2 = 1 THEN K1((i + 1) \div 2) ELSE K1Stmt(i \div 2)
  OBVIOUS
<1>6. s \in [1 .. N -> V]
  <2> HIDE DEF V
  <2>1. QED
    BY <1>2, <1>3
<1>7. \A i, j \in 1 .. N : s[i] = s[j] => i = j
  <2> SUFFICES ASSUME NEW i \in 1 .. N, NEW j \in 1 .. N, s[i] = s[j] PROVE i = j
    OBVIOUS
  <2> HIDE DEF s
  <2>1. CASE i % 2 = 1 /\ j % 2 = 1
    <3>1. (i + 1) \div 2 = (j + 1) \div 2
      BY <1>2, <1>4, <1>5, <2>1
    <3>2. QED
      BY <1>1, <2>1, <3>1, SMT
  <2>2. CASE i % 2 # 1 /\ j % 2 # 1
    <3>1. i \div 2 = j \div 2
      BY <1>2, <1>4, <1>5, <2>2
    <3>2. QED
      BY <1>1, <2>2, <3>1, SMT
  <2>3. CASE i % 2 = 1 /\ j % 2 # 1
    BY <1>2, <1>4, <1>5, <2>3
  <2>4. CASE i % 2 # 1 /\ j % 2 = 1
    BY <1>2, <1>4, <1>5, <2>4
  <2>5. QED
    BY <2>1, <2>2, <2>3, <2>4
<1> HIDE DEF s, V
<1>8. s \in Seq(V) /\ Len(s) = N
  BY <1>1, <1>6
<1>9. ListsOnce(s, V)
  BY <1>7, <1>8 DEF ListsOnce
<1>10. QED
  BY <1>9 DEF s, V

\* The corporate order.
LEMMA CorporateList == ListsOnce(CorporateOrder, CorporateKeys)
<1> DEFINE A == SolesOf({"1120s"})
           B == FamilyOf("1120s_k1") \cup FamilyOf("1120s_k1_qbi_stmt")
           C == SolesOf({"1120s_other_deductions_stmt"})
<1>1. A \cap B = {} /\ (A \cup B) \cap C = {}
  BY DEF SolesOf, FamilyOf, Sole, Numbered, Key
<1>2. CorporateKeys = (A \cup B) \cup C
  BY DEF CorporateKeys, CorporateBases, SolesOf
<1>3. ListsOnce(<<Sole("1120s")>>, A) /\ ListsOnce(<<Sole("1120s_other_deductions_stmt")>>, C)
  BY DEF ListsOnce, SolesOf
<1> HIDE DEF A, B, C
<1>4. QED
  BY <1>1, <1>2, <1>3, K1List, ListsJoin DEF CorporateOrder, A, B, C

\* The California order.
LEMMA CaliforniaList == ListsOnce(CaliforniaOrder, SolesOf(CaliforniaBases))
BY DEF ListsOnce, CaliforniaOrder, SolesOf, CaliforniaBases, Sole, Key

CaliforniaCorporateKeys == SolesOf(CaliforniaCorporateBases) \cup FamilyOf("f100s_k1")

\* The corporation's California order.
LEMMA CaliforniaCorporateList == ListsOnce(CaliforniaCorporateOrder, CaliforniaCorporateKeys)
<1> DEFINE A == SolesOf({"f100s"})
           B == FamilyOf("f100s_k1")
           C == SolesOf({"f100s_other_deductions_stmt", "scorp_amendment_note"})
<1>1. A \cap B = {} /\ (A \cup B) \cap C = {}
  BY DEF SolesOf, FamilyOf, Sole, Numbered, Key
<1>2. CaliforniaCorporateKeys = (A \cup B) \cup C
  BY DEF CaliforniaCorporateKeys, CaliforniaCorporateBases, SolesOf
<1>3. /\ ListsOnce(<<Sole("f100s")>>, A)
      /\ ListsOnce(<<Sole("f100s_other_deductions_stmt"), Sole("scorp_amendment_note")>>, C)
  BY DEF ListsOnce, SolesOf, Sole, Key
<1>4. ListsOnce([n \in Nums |-> CAK1(n)], B)
  <2>1. MaxCopies \in Nat
    BY ReturnsAssumption
  <2>2. \A n \in Nums : CAK1(n) \in B
    BY DEF FamilyOf, CAK1
  <2>3. \A n, k \in Nums : CAK1(n) = CAK1(k) => n = k
    BY DEF CAK1, Numbered, Key
  <2> HIDE DEF B
  <2>4. QED
    BY <2>1, <2>2, <2>3 DEF Nums, ListsOnce
<1> HIDE DEF A, B, C
<1>5. QED
  BY <1>1, <1>2, <1>3, <1>4, ListsJoin DEF CaliforniaCorporateOrder, A, B, C

\* What each command may emit.
KeysOf(cmd) ==
  IF cmd = "federal"
    THEN IndividualKeys \cup CorporateKeys \cup SolesOf({"depreciation_audit"})
  ELSE IF cmd = "ca" THEN SolesOf(CaliforniaBases)
  ELSE CorporateKeys \cup CaliforniaCorporateKeys

\* Each command's order lists each of its forms once.
LEMMA EmitOrderIs ==
  ASSUME NEW cmd \in DOMAIN EmitOrder
  PROVE  ListsOnce(EmitOrder[cmd], KeysOf(cmd))
<1>1. cmd \in {"federal", "ca", "scorp"}
  BY DEF EmitOrder
<1>2. CASE cmd = "federal"
  <2> DEFINE A == IndividualKeys
             B == CorporateKeys
             C == SolesOf({"depreciation_audit"})
  <2>1. A \cap B = {} /\ (A \cup B) \cap C = {}
    BY DEF IndividualKeys, IndividualBases, CorporateKeys, CorporateBases, SolesOf, FamilyOf,
           Copies4562, Sole, Numbered, ActivityCopy, Key
  <2>2. ListsOnce(<<Sole("depreciation_audit")>>, C)
    BY DEF ListsOnce, SolesOf
  <2>3. KeysOf(cmd) = (A \cup B) \cup C
    BY <1>2 DEF KeysOf
  <2>4. EmitOrder[cmd] = IndividualOrder \o CorporateOrder \o <<Sole("depreciation_audit")>>
    BY <1>2 DEF EmitOrder
  <2> HIDE DEF A, B, C
  <2>5. ListsOnce(IndividualOrder, A) /\ ListsOnce(CorporateOrder, B)
    BY IndividualList, CorporateList DEF A, B
  <2>6. ListsOnce(IndividualOrder \o CorporateOrder, A \cup B)
    BY <2>1, <2>5, ListsJoin
  <2>7. ListsOnce((IndividualOrder \o CorporateOrder) \o <<Sole("depreciation_audit")>>, (A \cup B) \cup C)
    BY <2>1, <2>2, <2>6, ListsJoin
  <2>8. QED
    BY <2>3, <2>4, <2>7
<1>3. CASE cmd = "ca"
  BY <1>3, CaliforniaList DEF EmitOrder, KeysOf
<1>4. CASE cmd = "scorp"
  <2>1. CorporateKeys \cap CaliforniaCorporateKeys = {}
    BY DEF CaliforniaCorporateKeys, CaliforniaCorporateBases, CorporateKeys, CorporateBases,
           SolesOf, FamilyOf, Sole, Numbered, Key
  <2>2. KeysOf(cmd) = CorporateKeys \cup CaliforniaCorporateKeys
    BY <1>4 DEF KeysOf
  <2>3. EmitOrder[cmd] = CorporateOrder \o CaliforniaCorporateOrder
    BY <1>4 DEF EmitOrder
  <2>4. QED
    BY <2>1, <2>2, <2>3, CorporateList, CaliforniaCorporateList, ListsJoin
<1>5. QED
  BY <1>1, <1>2, <1>3, <1>4

----------------------------------------------------------------------------
(* What a run plans to emit.                                               *)

\* The keys of a list, each in one place.
Spans(s, K) == ListsOnce(s, K) /\ \A k \in K : \E i \in 1 .. Len(s) : s[i] = k

\* What a list keeps of its keys.
LEMMA SelectionSpans ==
  ASSUME NEW K, NEW s, ListsOnce(s, K), NEW T, T \subseteq K,
         \A k \in T : \E i \in 1 .. Len(s) : s[i] = k
  PROVE  Spans(Selection(s, {i \in DOMAIN s : s[i] \in T}), T)
<1> DEFINE S == {i \in DOMAIN s : s[i] \in T}
           q == Selection(s, S)
<1>1. s \in Seq(K) /\ DOMAIN s = 1 .. Len(s) /\ S \cap (1 .. Len(s)) = S
  BY DEF ListsOnce
<1>2. /\ q \in Seq(K)
      /\ \A i \in 1 .. Len(q) : \E j \in S : q[i] = s[j]
      /\ \A j \in S : \E i \in 1 .. Len(q) : q[i] = s[j]
      /\ \A i, j \in 1 .. Len(q) : q[i] = q[j] => i = j
  <2>1. \A i, j \in 1 .. Len(s) : s[i] = s[j] => i = j
    BY DEF ListsOnce
  <2> HIDE DEF S
  <2>2. /\ q \in Seq(K)
        /\ \A i \in 1 .. Len(q) : \E j \in S \cap (1 .. Len(s)) : q[i] = s[j]
        /\ \A j \in S \cap (1 .. Len(s)) : \E i \in 1 .. Len(q) : q[i] = s[j]
        /\ (\A i, j \in 1 .. Len(s) : s[i] = s[j] => i = j)
             => \A i, j \in 1 .. Len(q) : q[i] = q[j] => i = j
    BY <1>1, SelectionIs
  <2> HIDE DEF q
  <2>3. QED
    BY <1>1, <2>1, <2>2
<1>3. \A j \in S : s[j] \in T
  OBVIOUS
<1>4. \A k \in T : \E j \in S : s[j] = k
  BY <1>1
<1> HIDE DEF S, q
<1>5. \A i \in 1 .. Len(q) : q[i] \in T
  BY <1>2, <1>3
<1>6. q \in Seq(T)
  <2>1. Len(q) \in Nat /\ q \in [1 .. Len(q) -> K]
    BY <1>2
  <2>2. q \in [1 .. Len(q) -> T]
    BY <1>5, <2>1
  <2>3. QED
    BY <2>1, <2>2
<1>7. \A k \in T : \E i \in 1 .. Len(q) : q[i] = k
  <2> SUFFICES ASSUME NEW k \in T PROVE \E i \in 1 .. Len(q) : q[i] = k
    OBVIOUS
  <2>1. PICK j \in S : s[j] = k
    BY <1>4
  <2>2. QED
    BY <1>2, <2>1
<1>8. Spans(q, T)
  BY <1>2, <1>6, <1>7 DEF Spans, ListsOnce
<1>9. QED
  BY <1>8 DEF q, S

\* A run's plan is its keys, each emitted once.
LEMMA PlanIs ==
  ASSUME NEW c \in Returns
  PROVE  /\ Spans(Plan(c), c.keys) /\ IsFiniteSet(c.keys)
         /\ c.keys \subseteq Keys /\ c.keys \subseteq KeysOf(c.cmd)
<1> DEFINE s == EmitOrder[c.cmd]
<1>1. /\ c.cmd \in DOMAIN EmitOrder /\ c.keys \subseteq ToSet(s)
  BY ReturnsAssumption DEF Coherent
<1>2. ListsOnce(s, KeysOf(c.cmd))
  BY <1>1, EmitOrderIs
<1>3. Plan(c) = Selection(s, {i \in DOMAIN s : s[i] \in c.keys})
  BY DEF Plan, Where
<1>4. ToSet(s) \subseteq Keys
  BY <1>1 DEF Keys
<1> HIDE DEF s
<1>5. /\ DOMAIN s = 1 .. Len(s) /\ Len(s) \in Nat /\ \A i \in 1 .. Len(s) : s[i] \in KeysOf(c.cmd)
  BY <1>2 DEF ListsOnce
<1>6. /\ \A k \in c.keys : \E i \in 1 .. Len(s) : s[i] = k
      /\ c.keys \subseteq KeysOf(c.cmd)
  BY <1>1, <1>5 DEF ToSet
<1>7. Spans(Plan(c), c.keys)
  BY <1>2, <1>3, <1>6, SelectionSpans
<1>8. IsFiniteSet(c.keys)
  <2> DEFINE K == c.keys
             p == Plan(c)
             m == Len(p)
  <2>1. m \in Nat /\ p \in [1 .. m -> K] /\ \A k \in K : \E i \in 1 .. m : p[i] = k
    BY <1>7 DEF Spans, ListsOnce
  <2> HIDE DEF K, p, m
  <2>2. p \in Surjection(1 .. m, K)
    BY <2>1 DEF Surjection
  <2>3. IsFiniteSet(1 .. m)
    BY <2>1, FS_Interval
  <2>4. IsFiniteSet(K)
    BY <2>2, <2>3, FS_Surjection
  <2>5. QED
    BY <2>4 DEF K
<1>9. QED
  BY <1>1, <1>4, <1>6, <1>7, <1>8

\* The mapping a run returns is its keys but for the side files.
LEMMA EmittedOrderIs ==
  ASSUME given \in Returns
  PROVE  Spans(EmittedOrder, given.keys \ SideFiles)
<1> DEFINE s == Plan(given)
           T == given.keys \ SideFiles
<1>1. EmittedOrder = Selection(s, {i \in DOMAIN s : s[i] \notin SideFiles})
  BY DEF EmittedOrder, Where
<1>2. Spans(s, given.keys)
  BY PlanIs
<1> HIDE DEF s
<1>3. {i \in DOMAIN s : s[i] \notin SideFiles} = {i \in DOMAIN s : s[i] \in T}
  BY <1>2 DEF Spans, ListsOnce
<1>4. ListsOnce(s, given.keys) /\ T \subseteq given.keys /\ \A k \in T : \E i \in 1 .. Len(s) : s[i] = k
  BY <1>2 DEF Spans
<1> HIDE DEF T
<1>5. Spans(EmittedOrder, T)
  BY <1>1, <1>3, <1>4, SelectionSpans
<1>6. QED
  BY <1>5 DEF T

----------------------------------------------------------------------------
(* The tables of the packets.                                              *)

\* What the name of an emitted form looks like.
Shaped(k) ==
  IF k.base \in FamilyBases THEN k.slug = 0 /\ k.num \in Nums
  ELSE \/ k.slug = 0 /\ k.num = -1
       \/ k.base = "f4562" /\ k.slug \in {1, 2} /\ k.num \in Nat

\* The forms of a packet, and every base a key can have.
Bases(packet) == {packet.members[m].base : m \in DOMAIN packet.members}

\* Every form a command may emit has such a name.
LEMMA KeysShaped ==
  ASSUME NEW k \in Keys
  PROVE  Shaped(k) /\ k = Key(k.base, k.slug, k.num) /\ k.slug \in 0 .. 2 /\ k.num \in Int
<1>1. PICK cmd \in DOMAIN EmitOrder : k \in ToSet(EmitOrder[cmd])
  BY DEF Keys
<1>2. k \in KeysOf(cmd)
  <2> DEFINE s == EmitOrder[cmd]
  <2>1. ListsOnce(s, KeysOf(cmd)) /\ k \in ToSet(s)
    BY <1>1, EmitOrderIs
  <2> HIDE DEF s
  <2>2. QED
    BY <2>1 DEF ListsOnce, ToSet
<1>3. MaxCopies \in Nat
  BY ReturnsAssumption
<1>4. \A B : \A x \in SolesOf(B) : x.base \in B /\ x = Sole(x.base) /\ x.slug = 0 /\ x.num = -1
  BY DEF SolesOf, Sole, Key
<1>5. \A b : \A x \in FamilyOf(b) : x = Numbered(b, x.num) /\ x.base = b /\ x.slug = 0 /\ x.num \in Nums
  BY DEF FamilyOf, Numbered, Key
<1>6. \A x \in Copies4562 : /\ x = ActivityCopy("f4562", x.slug, x.num) /\ x.base = "f4562"
                            /\ x.slug \in {1, 2} /\ x.num \in Nat
  BY DEF Copies4562, ActivityCopy, Key
<1> DEFINE Single == IndividualBases \cup CorporateBases \cup CaliforniaBases
                       \cup CaliforniaCorporateBases \cup {"depreciation_audit"}
<1>7. \/ k \in SolesOf(Single) \/ k \in Copies4562
      \/ \E b \in FamilyBases : k \in FamilyOf(b)
  <2>1. /\ IndividualBases \subseteq Single /\ CorporateBases \subseteq Single
        /\ CaliforniaBases \subseteq Single /\ CaliforniaCorporateBases \subseteq Single
        /\ {"depreciation_audit"} \subseteq Single
    OBVIOUS
  <2> HIDE DEF Single
  <2>2. /\ SolesOf(IndividualBases) \subseteq SolesOf(Single)
        /\ SolesOf(CorporateBases) \subseteq SolesOf(Single)
        /\ SolesOf(CaliforniaBases) \subseteq SolesOf(Single)
        /\ SolesOf(CaliforniaCorporateBases) \subseteq SolesOf(Single)
        /\ SolesOf({"depreciation_audit"}) \subseteq SolesOf(Single)
    BY <2>1 DEF SolesOf
  <2>3. QED
    BY <1>2, <2>2 DEF KeysOf, IndividualKeys, CorporateKeys, CaliforniaCorporateKeys, FamilyBases
<1>8. Single \cap FamilyBases = {}
  BY DEF FamilyBases, IndividualBases, CorporateBases, CaliforniaBases, CaliforniaCorporateBases
<1> HIDE DEF Single
<1>9. CASE k \in SolesOf(Single)
  BY <1>4, <1>8, <1>9 DEF Shaped, Sole
<1>10. CASE k \in Copies4562
  <2>1. "f4562" \notin FamilyBases
    BY DEF FamilyBases
  <2>2. QED
    BY <1>6, <1>10, <2>1 DEF Shaped, ActivityCopy
<1>11. CASE \E b \in FamilyBases : k \in FamilyOf(b)
  <2>1. Nums \subseteq Int
    BY <1>3 DEF Nums
  <2>2. PICK b \in FamilyBases : k \in FamilyOf(b)
    BY <1>11
  <2>3. k = Numbered(b, k.num) /\ k.base = b /\ k.slug = 0 /\ k.num \in Nums
    BY <1>5, <2>2
  <2>4. k = Key(k.base, k.slug, k.num)
    BY <2>3 DEF Numbered
  <2>5. /\ k.base \in FamilyBases /\ k.slug = 0 /\ k.num \in Nums
        /\ k.slug \in 0 .. 2 /\ k.num \in Int
    <3>1. k.base = b /\ k.slug = 0 /\ k.num \in Nums
      BY <2>3
    <3>2. k.base \in FamilyBases
      BY <2>2, <3>1
    <3>3. k.slug \in 0 .. 2
      BY <3>1
    <3>4. k.num \in Int
      BY <2>1, <3>1
    <3>5. QED
      BY <3>1, <3>2, <3>3, <3>4
  <2>6. Shaped(k)
    BY <2>5 DEF Shaped
  <2>7. QED
    BY <2>4, <2>5, <2>6
<1>12. QED
  BY <1>7, <1>9, <1>10, <1>11

\* The slots of a packet hold one form each, family slots the numbered
\* copies, and the filing puts them in the same order.
Table(packet) ==
  LET members == packet.members
      place   == Place[packet.name]
      N       == Len(members)
  IN
  /\ N \in Nat /\ DOMAIN members = 1 .. N /\ DOMAIN place = 1 .. N /\ N >= 1
  /\ packet.name \in DOMAIN Place
  /\ \A m \in 1 .. N :
       /\ members[m].kind = IF members[m].base \in FamilyBases THEN "family"
                            ELSE IF members[m].base = "f4562" THEN "copies" ELSE "exact"
       /\ place[m][1] = members[m].base /\ place[m][2] \in Int
  /\ \A m, n \in 1 .. N : m < n => place[m][2] < place[n][2]
  /\ \A m, n \in 1 .. N : members[m].base = members[n].base => m = n
  /\ members[1].base \notin FamilyBases /\ members[1].base # "f4562"
  /\ Bases(packet) \cap {"4868", "f3115_duplicate_copy", "depreciation_audit",
                         "f3115_filing_manifest", "ca_resolved", "scorp_amendment_note", "w2"} = {}

\* The individual packet's table.
LEMMA IndividualTable == Table(FederalIndividual)
<1>1. /\ FederalIndividual.name = "federal_individual"
      /\ FederalIndividual.members = <<Exact("1040"), Exact("sch_1"), Exact("sch_1_8z_stmt"),
            Exact("sch_2"), Exact("sch_a"), Exact("sch_b"), Family("sch_c"),
            Exact("sch_d"), Exact("f8949"), Exact("sch_e"), Exact("sch_se"),
            Exact("f8995"), Exact("8959"), Exact("8962"), Exact("f8582"),
            Copies("f4562"), Exact("f3115"), Exact("f3115_asset_stmt")>>
  BY DEF FederalIndividual
<1>2. Place["federal_individual"] = <<<<"1040", 0>>, <<"sch_1", 10>>,
    <<"sch_1_8z_stmt", 11>>, <<"sch_2", 20>>, <<"sch_a", 70>>, <<"sch_b", 80>>,
    <<"sch_c", 90>>, <<"sch_d", 120>>, <<"f8949", 121>>, <<"sch_e", 130>>,
    <<"sch_se", 170>>, <<"f8995", 550>>, <<"8959", 710>>, <<"8962", 730>>,
    <<"f8582", 880>>, <<"f4562", 1790>>, <<"f3115", 3150>>,
    <<"f3115_asset_stmt", 3151>>>> /\ "federal_individual" \in DOMAIN Place
  BY SMT DEF Place
<1> DEFINE members == FederalIndividual.members
           place == Place["federal_individual"]
<1>3. Len(members) = 18 /\ DOMAIN members = 1 .. 18 /\ DOMAIN place = 1 .. 18
  BY <1>1, <1>2, SMT
<1>4. \A m \in 1 .. 18 :
       /\ members[m].kind = IF members[m].base \in FamilyBases THEN "family"
                            ELSE IF members[m].base = "f4562" THEN "copies" ELSE "exact"
  BY <1>1, SMT DEF FamilyBases, Exact, Family, Copies
<1>5. \A m \in 1 .. 18 : place[m][1] = members[m].base /\ place[m][2] \in Int
  BY <1>1, <1>2, SMT DEF Exact, Family, Copies
<1>6. \A m, n \in 1 .. 18 : m < n => place[m][2] < place[n][2]
  BY <1>2, SMT
<1>7. \A m, n \in 1 .. 18 : members[m].base = members[n].base => m = n
  BY <1>1, SMT DEF Exact, Family, Copies
<1>8. members[1].base \notin FamilyBases /\ members[1].base # "f4562"
  BY <1>1, SMT DEF Exact, FamilyBases
<1>9. \A m \in 1 .. 18 : members[m].base \notin
          {"4868", "f3115_duplicate_copy", "depreciation_audit",
           "f3115_filing_manifest", "ca_resolved", "scorp_amendment_note", "w2"}
  BY <1>1, SMT DEF Exact, Family, Copies
<1>10. QED
  <2> HIDE DEF members, place
  <2>1. 18 \in Nat /\ 18 >= 1
    BY SMT
  <2>2. Len(members) \in Nat /\ Len(members) >= 1
    BY <1>3, <2>1, SMT
  <2>3. QED
    BY <1>1, <1>2, <1>3, <1>4, <1>5, <1>6, <1>7, <1>8, <1>9, <2>2, SMT DEF Table, Bases, members, place

\* The corporate packet's table.
LEMMA CorporateTable == Table(FederalCorporate)
<1>1. /\ FederalCorporate.name = "federal_corporate"
      /\ FederalCorporate.members = <<Exact("1120s"), Family("1120s_k1"),
            Family("1120s_k1_qbi_stmt"), Exact("1120s_other_deductions_stmt")>>
  BY DEF FederalCorporate
<1>2. Place["federal_corporate"] = <<<<"1120s", 0>>, <<"1120s_k1", 1>>,
        <<"1120s_k1_qbi_stmt", 2>>, <<"1120s_other_deductions_stmt", 3>>>>
      /\ "federal_corporate" \in DOMAIN Place
  BY SMT DEF Place
<1>3. QED
  BY <1>1, <1>2, SMT DEF Table, Bases, FamilyBases, Exact, Family, Copies

\* The California packet's table.
LEMMA CaliforniaTable == Table(California)
<1>1. /\ California.name = "california"
      /\ California.members = <<Exact("f540"), Exact("sch_ca"), Exact("sch_d_540"),
            Exact("ftb3532")>>
  BY DEF California
<1>2. Place["california"] = <<<<"f540", 0>>, <<"sch_ca", 1>>, <<"sch_d_540", 2>>,
        <<"ftb3532", 3>>>>
      /\ "california" \in DOMAIN Place
  BY SMT DEF Place
<1>3. QED
  BY <1>1, <1>2, SMT DEF Table, Bases, FamilyBases, Exact, Family, Copies

\* The corporation's California packet's table.
LEMMA CaliforniaCorporateTable == Table(CaliforniaCorporate)
<1>1. /\ CaliforniaCorporate.name = "california_corporate"
      /\ CaliforniaCorporate.members = <<Exact("f100s"), Family("f100s_k1"),
            Exact("f100s_other_deductions_stmt")>>
  BY DEF CaliforniaCorporate
<1>2. Place["california_corporate"] = <<<<"f100s", 0>>, <<"f100s_k1", 1>>,
        <<"f100s_other_deductions_stmt", 2>>>>
      /\ "california_corporate" \in DOMAIN Place
  BY SMT DEF Place
<1>3. QED
  BY <1>1, <1>2, SMT DEF Table, Bases, FamilyBases, Exact, Family, Copies

----------------------------------------------------------------------------
(* Which packet claims a form.                                             *)

\* The four packets.
LEMMA PacketsAre ==
  /\ DOMAIN Packets = 1 .. 4 /\ Len(Packets) = 4
  /\ Packets[1] = FederalIndividual /\ Packets[2] = FederalCorporate
  /\ Packets[3] = California /\ Packets[4] = CaliforniaCorporate
BY DEF Packets

\* All four tables.
LEMMA Tables == \A i \in 1 .. 4 : Table(Packets[i])
BY PacketsAre, IndividualTable, CorporateTable, CaliforniaTable, CaliforniaCorporateTable

\* The packets' names tell them apart, and from the other answers of ClassifyKey.
LEMMA NamesAre ==
  /\ PacketNames = {Packets[i].name : i \in 1 .. 4}
  /\ \A i, j \in 1 .. 4 : Packets[i].name = Packets[j].name => i = j
  /\ \A i \in 1 .. 4 : Packets[i].name \notin {"none", "standalone"}
<1>1. /\ FederalIndividual.name = "federal_individual"
      /\ FederalCorporate.name = "federal_corporate"
      /\ California.name = "california"
      /\ CaliforniaCorporate.name = "california_corporate"
  BY DEF FederalIndividual, FederalCorporate, California, CaliforniaCorporate
<1>2. QED
  BY <1>1, PacketsAre DEF PacketNames

\* No form is in two packets.
CorporateForms == {"1120s", "1120s_k1", "1120s_k1_qbi_stmt", "1120s_other_deductions_stmt"}
CaliforniaForms == {"f540", "sch_ca", "sch_d_540", "ftb3532"}
CaliforniaCorporateForms == {"f100s", "f100s_k1", "f100s_other_deductions_stmt"}

\* What forms each packet can hold.
LEMMA PacketBases ==
  /\ Bases(FederalCorporate) \subseteq CorporateForms
  /\ Bases(California) \subseteq CaliforniaForms
  /\ Bases(CaliforniaCorporate) \subseteq CaliforniaCorporateForms
  /\ Bases(FederalIndividual)
       \subseteq IndividualBases \cup {"sch_c"}
<1>1. Bases(FederalCorporate) \subseteq CorporateForms
  BY DEF Bases, FederalCorporate, CorporateForms, Exact, Family
<1>2. Bases(California) \subseteq CaliforniaForms
  BY DEF Bases, California, CaliforniaForms, Exact
<1>3. Bases(CaliforniaCorporate) \subseteq CaliforniaCorporateForms
  BY DEF Bases, CaliforniaCorporate, CaliforniaCorporateForms, Exact, Family
<1>4. Bases(FederalIndividual) \subseteq IndividualBases \cup {"sch_c"}
  BY DEF Bases, FederalIndividual, IndividualBases, Exact, Family, Copies
<1>5. QED
  BY <1>1, <1>2, <1>3, <1>4

\* No form is in two packets.
LEMMA PacketsApart ==
  \A i, j \in 1 .. 4 : i # j => Bases(Packets[i]) \cap Bases(Packets[j]) = {}
<1> DEFINE A == IndividualBases \cup {"sch_c"}
<1>1. /\ A \cap CorporateForms = {} /\ A \cap CaliforniaForms = {}
      /\ A \cap CaliforniaCorporateForms = {}
      /\ CorporateForms \cap CaliforniaForms = {}
      /\ CorporateForms \cap CaliforniaCorporateForms = {}
      /\ CaliforniaForms \cap CaliforniaCorporateForms = {}
  BY DEF IndividualBases, CorporateForms, CaliforniaForms, CaliforniaCorporateForms
<1> HIDE DEF A
<1> DEFINE W == Bases(Packets[1])
           X == Bases(Packets[2])
           Y == Bases(Packets[3])
           Z == Bases(Packets[4])
<1>2. W \subseteq A /\ X \subseteq CorporateForms /\ Y \subseteq CaliforniaForms
      /\ Z \subseteq CaliforniaCorporateForms
  BY PacketBases, PacketsAre DEF A
<1> HIDE DEF W, X, Y, Z
<1>3. /\ W \cap X = {} /\ W \cap Y = {} /\ W \cap Z = {} /\ X \cap Y = {} /\ X \cap Z = {} /\ Y \cap Z = {}
  BY <1>1, <1>2
<1>4. QED
  BY <1>3 DEF W, X, Y, Z

\* A slot claims the emitted forms of its base.
LEMMA ClaimedIs ==
  ASSUME NEW packet, Table(packet), NEW k \in Keys, NEW m \in 1 .. Len(packet.members)
  PROVE  Claims(packet.members[m], k) <=> k.base = packet.members[m].base
<1> DEFINE s == packet.members[m]
<1>1. s.kind = IF s.base \in FamilyBases THEN "family"
               ELSE IF s.base = "f4562" THEN "copies" ELSE "exact"
  BY DEF Table
<1>2. Shaped(k)
  BY KeysShaped
<1>3. \A n \in Nums : n \in Int /\ n >= 0
  BY ReturnsAssumption DEF Nums
<1> HIDE DEF s
<1>4. Claims(s, k) <=> k.base = s.base
  BY <1>1, <1>2, <1>3 DEF Claims, Shaped
<1>5. QED
  BY <1>4 DEF s

\* A form belongs to the filing whose packet has a slot for it, at the slot's place.
LEMMA BelongsIs ==
  ASSUME NEW packet, Table(packet), NEW k
  PROVE  /\ Belongs(k, packet.name) <=> k.base \in Bases(packet)
         /\ \A m \in 1 .. Len(packet.members) :
              k.base = packet.members[m].base =>
                PlaceOf(k, packet.name) = Place[packet.name][m][2]
<1> DEFINE members == packet.members
           place == Place[packet.name]
           N == Len(members)
<1>1. /\ DOMAIN members = 1 .. N /\ DOMAIN place = 1 .. N
      /\ \A m \in 1 .. N : place[m][1] = members[m].base
      /\ \A m, n \in 1 .. N : members[m].base = members[n].base => m = n
  BY DEF Table
<1>2. ToSet(place) = {place[m] : m \in 1 .. N}
  BY <1>1 DEF ToSet
<1>3. Bases(packet) = {members[m].base : m \in 1 .. N}
  BY <1>1 DEF Bases
<1> HIDE DEF members, place, N
<1>4. (\E e \in ToSet(place) : e[1] = k.base) <=> k.base \in Bases(packet)
  BY <1>1, <1>2, <1>3
<1>5. \A m \in 1 .. N : k.base = members[m].base =>
        (CHOOSE e \in ToSet(place) : e[1] = k.base) = place[m]
  <2> SUFFICES ASSUME NEW m \in 1 .. N, k.base = members[m].base
               PROVE  (CHOOSE e \in ToSet(place) : e[1] = k.base) = place[m]
    OBVIOUS
  <2>1. place[m] \in ToSet(place) /\ place[m][1] = k.base
    BY <1>1, <1>2
  <2>2. \A e \in ToSet(place) : e[1] = k.base => e = place[m]
    BY <1>1, <1>2
  <2>3. QED
    BY <2>1, <2>2
<1>6. QED
  BY <1>4, <1>5 DEF Belongs, PlaceOf, members, place, N

\* A form a packet claims is the one its filing lists.
LEMMA ClassifiedIs ==
  ASSUME NEW k \in Keys
  PROVE  ClassifyKey(k) \notin {"none", "standalone"}
           <=> \E i \in 1 .. 4 : k.base \in Bases(Packets[i])
<1> DEFINE claiming == {i \in DOMAIN Packets : \E m \in ToSet(Packets[i].members) : Claims(m, k)}
<1>1. \A i \in 1 .. 4 : i \in claiming <=> k.base \in Bases(Packets[i])
  <2> SUFFICES ASSUME NEW i \in 1 .. 4
               PROVE  (\E m \in ToSet(Packets[i].members) : Claims(m, k))
                        <=> k.base \in Bases(Packets[i])
    BY PacketsAre
  <2> DEFINE packet == Packets[i]
  <2>1. Table(packet)
    BY Tables
  <2> HIDE DEF packet
  <2>2. DOMAIN packet.members = 1 .. Len(packet.members)
    BY <2>1 DEF Table
  <2>3. \A m \in 1 .. Len(packet.members) :
          Claims(packet.members[m], k) <=> k.base = packet.members[m].base
    BY <2>1, ClaimedIs
  <2>4. (\E m \in ToSet(packet.members) : Claims(m, k)) <=> k.base \in Bases(packet)
    BY <2>2, <2>3 DEF ToSet, Bases
  <2>5. QED
    BY <2>4 DEF packet
<1>2. claiming \subseteq 1 .. 4
  BY PacketsAre
<1>3. ClassifyKey(k) = IF k.base \in StandaloneBases THEN "standalone"
                       ELSE IF claiming = {} THEN "none"
                       ELSE Packets[CHOOSE i \in claiming : \A j \in claiming : i <= j].name
  BY DEF ClassifyKey
<1> HIDE DEF claiming
<1>4. k.base \in StandaloneBases => claiming = {}
  <2>1. \A i \in 1 .. 4 : Bases(Packets[i]) \cap {"4868", "f3115_duplicate_copy",
          "depreciation_audit", "f3115_filing_manifest", "ca_resolved", "scorp_amendment_note", "w2"} = {}
    BY Tables DEF Table
  <2>2. \A i \in 1 .. 4 : Bases(Packets[i]) \cap StandaloneBases = {}
    BY <2>1 DEF StandaloneBases
  <2>3. QED
    BY <1>1, <1>2, <2>2
<1>5. CASE claiming = {}
  BY <1>1, <1>3, <1>5
<1>6. CASE claiming # {}
  <2>1. PICK i \in claiming : i \in 1 .. 4
    BY <1>2, <1>6
  <2>2. \A j \in claiming : j = i
    <3> SUFFICES ASSUME NEW j \in claiming, j # i PROVE FALSE
      OBVIOUS
    <3>1. j \in 1 .. 4 /\ k.base \in Bases(Packets[i]) /\ k.base \in Bases(Packets[j])
      BY <1>1, <1>2, <2>1
    <3>2. QED
      BY <2>1, <3>1, PacketsApart
  <2>3. (CHOOSE x \in claiming : \A j \in claiming : x <= j) = i
    <3>1. (CHOOSE x \in claiming : \A j \in claiming : x <= j) \in claiming
      <4>1. i \in claiming /\ \A j \in claiming : i <= j
        BY <2>1, <2>2
      <4>2. QED
        BY <4>1
    <3>2. QED
      BY <2>2, <3>1
  <2>4. ClassifyKey(k) = Packets[i].name
    BY <1>3, <1>4, <1>6, <2>3
  <2>5. ClassifyKey(k) \notin {"none", "standalone"}
    BY <2>1, <2>4, NamesAre
  <2>6. QED
    BY <1>1, <2>1, <2>5
<1>7. QED
  BY <1>5, <1>6

----------------------------------------------------------------------------
(* The members of a packet, in order.                                      *)

\* The emitted forms a packet claims.
Claimed(E, packet) == {k \in E : k.base \in Bases(packet)}

\* The members of a packet are the emitted forms its slots claim, each in its slot.
LEMMA SlotMembersAre ==
  ASSUME NEW packet, Table(packet), NEW E \in SUBSET Keys, IsFiniteSet(E)
  PROVE  LET M == SlotMembers(E, packet) IN
         /\ IsFiniteSet(M)
         /\ \A l \in M : /\ l = <<l[1], l[2]>> /\ l[1] \in 1 .. Len(packet.members)
                         /\ l[2] \in Claimed(E, packet)
                         /\ l[2].base = packet.members[l[1]].base
         /\ \A k \in Claimed(E, packet) : \E l \in M : l[2] = k
<1> DEFINE M == SlotMembers(E, packet)
           N == Len(packet.members)
           S == (1 .. N) \X E
<1>1. N \in Nat /\ DOMAIN packet.members = 1 .. N
  BY DEF Table
<1>2. M = {m \in S : Claims(packet.members[m[1]], m[2])}
  BY <1>1 DEF SlotMembers
<1>3. IsFiniteSet(S)
  <2> DEFINE A == 1 .. N
  <2>1. IsFiniteSet(A)
    BY <1>1, FS_Interval
  <2> HIDE DEF A
  <2>2. IsFiniteSet(A \X E)
    BY <2>1, FS_Product
  <2>3. QED
    BY <2>2 DEF A
<1>4. IsFiniteSet(M)
  <2>1. M \in SUBSET S
    BY <1>2
  <2> HIDE DEF M, S
  <2>2. QED
    BY <1>3, <2>1, FS_Subset
<1>5. \A m \in 1 .. N : \A k \in E : Claims(packet.members[m], k) <=> k.base = packet.members[m].base
  BY ClaimedIs
<1>6. Bases(packet) = {packet.members[m].base : m \in 1 .. N}
  BY <1>1 DEF Bases
<1> HIDE DEF M
<1>7. \A l \in M : /\ l = <<l[1], l[2]>> /\ l[1] \in 1 .. N /\ l[2] \in E
                   /\ l[2].base = packet.members[l[1]].base
  BY <1>2, <1>5
<1>8. \A l \in M : l[2] \in Claimed(E, packet)
  BY <1>6, <1>7 DEF Claimed
<1>9. \A k \in Claimed(E, packet) : \E l \in M : l[2] = k
  <2> SUFFICES ASSUME NEW k \in Claimed(E, packet) PROVE \E l \in M : l[2] = k
    OBVIOUS
  <2>1. PICK m \in 1 .. N : k.base = packet.members[m].base
    BY <1>6 DEF Claimed
  <2>2. k \in E
    BY DEF Claimed
  <2>3. <<m, k>> \in M
    BY <1>2, <1>5, <2>1, <2>2
  <2>4. QED
    BY <2>3
<1>10. QED
  BY <1>4, <1>7, <1>8, <1>9 DEF M, N

\* A slot before another, or, in one slot, by slug and number.
LEMMA SlotsOrdered ==
  ASSUME NEW packet, Table(packet), NEW E \in SUBSET Keys, IsFiniteSet(E)
  PROVE  LET M == SlotMembers(E, packet)
         IN Ordering(M, {e \in M \X M : Precedes(e[1], e[2])})
<1> DEFINE M == SlotMembers(E, packet)
           R == {e \in M \X M : Precedes(e[1], e[2])}
           N == Len(packet.members)
<1>1. \A l \in M : /\ l = <<l[1], l[2]>> /\ l[1] \in 1 .. N
                   /\ l[2] \in Claimed(E, packet)
                   /\ l[2].base = packet.members[l[1]].base
  BY SlotMembersAre
<1> HIDE DEF M, N
<1>2. N \in Nat
  BY DEF Table, N
<1>3. \A l \in M : /\ l[1] \in Int /\ l[2].slug \in Int /\ l[2].num \in Int
                   /\ l[2] = Key(l[2].base, l[2].slug, l[2].num)
  <2>1. \A k \in Claimed(E, packet) : k \in Keys
    BY DEF Claimed
  <2>2. \A k \in Claimed(E, packet) : k.slug \in Int /\ k.num \in Int /\ k = Key(k.base, k.slug, k.num)
    BY <2>1, KeysShaped
  <2>3. QED
    BY <1>1, <1>2, <2>2
<1>4. \A l, m \in M : <<l, m>> \in R <=> Precedes(l, m)
  OBVIOUS
<1> HIDE DEF R
<1>5. \A m \in M : <<m, m>> \notin R
  BY <1>3, <1>4 DEF Precedes, Before
<1>6. \A k, l, m \in M : <<k, l>> \in R /\ <<l, m>> \in R => <<k, m>> \in R
  BY <1>3, <1>4 DEF Precedes, Before
<1>7. \A l, m \in M : l = m \/ <<l, m>> \in R \/ <<m, l>> \in R
  <2> SUFFICES ASSUME NEW l \in M, NEW m \in M, ~Precedes(l, m), ~Precedes(m, l)
               PROVE  l = m
    BY <1>4
  <2>1. l[1] = m[1] /\ l[2].slug = m[2].slug /\ l[2].num = m[2].num
    BY <1>3 DEF Precedes, Before
  <2>2. l[2].base = m[2].base
    BY <1>1, <2>1
  <2>3. l[2] = m[2]
    BY <1>3, <2>1, <2>2
  <2>4. QED
    BY <1>1, <2>1, <2>3
<1>8. Ordering(M, R)
  BY <1>5, <1>6, <1>7 DEF Ordering
<1>9. QED
  BY <1>8 DEF M, R

\* The members of a packet are the emitted forms it claims, in the order of
\* the filing, and its main form comes first.
LEMMA MembersAre ==
  ASSUME NEW packet, Table(packet), NEW E \in SUBSET Keys, IsFiniteSet(E)
  PROVE  LET q == OrderedMembers(E, packet)
             T == Claimed(E, packet)
             main == Sole(packet.members[1].base)
         IN /\ q \in Seq(T)
            /\ \A k \in T : \E i \in 1 .. Len(q) : q[i] = k
            /\ \A i, j \in 1 .. Len(q) : i < j => InAttachmentOrder(q[i], q[j], packet.name)
            /\ main \in E => Len(q) >= 1 /\ q[1] = main
<1> DEFINE M == SlotMembers(E, packet)
           R == {e \in M \X M : Precedes(e[1], e[2])}
           n == Cardinality(M)
           rank == Rank(M, R)
           at(i) == CHOOSE m \in M : rank[m] = i - 1
           q == OrderedMembers(E, packet)
           T == Claimed(E, packet)
           main == Sole(packet.members[1].base)
           N == Len(packet.members)
           place == Place[packet.name]
<1>1. /\ IsFiniteSet(M)
      /\ \A l \in M : /\ l[1] \in 1 .. N /\ l[2] \in T
                      /\ l[2].base = packet.members[l[1]].base
      /\ \A k \in T : \E l \in M : l[2] = k
  BY SlotMembersAre
<1>2. Ordering(M, R)
  BY SlotsOrdered
<1>3. /\ n \in Nat /\ rank \in [M -> 0 .. n - 1]
      /\ \A l, m \in M : <<l, m>> \in R <=> rank[l] < rank[m]
      /\ \A l, m \in M : rank[l] = rank[m] => l = m
      /\ \A i \in 1 .. n : \E m \in M : rank[m] = i - 1
  <2> HIDE DEF M, R
  <2>1. QED
    BY <1>1, <1>2, ByRank
<1>4. \A m \in M : Cardinality({l \in M : Precedes(l, m)}) = rank[m]
  <2>1. \A m \in M : {l \in M : Precedes(l, m)} = {l \in M : <<l, m>> \in R}
    <3> HIDE DEF M
    <3>1. QED
      OBVIOUS
  <2> HIDE DEF M, R
  <2>2. \A m \in M : rank[m] = Cardinality({l \in M : <<l, m>> \in R})
    BY DEF Rank
  <2>3. QED
    BY <2>1, <2>2
<1>5. q = [i \in 1 .. n |-> q[i]] /\ \A i \in 1 .. n : q[i] = at(i)[2]
  <2> DEFINE first(i) == CHOOSE m \in M : Cardinality({l \in M : Precedes(l, m)}) = i - 1
  <2>1. q = [i \in 1 .. n |-> first(i)[2]]
    BY DEF OrderedMembers
  <2>2. \A i \in 1 .. n : first(i) = at(i)
    <3> HIDE DEF M, rank, n
    <3>1. QED
      BY <1>4
  <2> HIDE DEF q, at, M, n, first
  <2>3. QED
    BY <2>1, <2>2
<1>6. \A l, m \in M : <<l, m>> \in R <=> Precedes(l, m)
  <2> HIDE DEF M
  <2>1. QED
    OBVIOUS
<1> HIDE DEF M, R, n, rank, T, N, q
<1>7. \A i \in 1 .. n : at(i) \in M /\ rank[at(i)] = i - 1
  BY <1>3
<1>8. \A i \in 1 .. n : at(i)[2] \in T
  BY <1>1, <1>7
<1> HIDE DEF at
<1>9. q \in Seq(T) /\ Len(q) = n
  <2>1. q \in [1 .. n -> T]
    BY <1>5, <1>8
  <2>2. QED
    BY <1>3, <1>5, <2>1
<1>10. \A k \in T : \E i \in 1 .. n : q[i] = k
  <2> SUFFICES ASSUME NEW k \in T PROVE \E i \in 1 .. n : q[i] = k
    OBVIOUS
  <2>1. PICK l \in M : l[2] = k
    BY <1>1
  <2>2. rank[l] + 1 \in 1 .. n /\ rank[l] = (rank[l] + 1) - 1
    BY <1>3
  <2>3. at(rank[l] + 1) = l
    BY <1>3, <1>7, <2>2
  <2>4. QED
    BY <1>5, <2>1, <2>2, <2>3
<1>11. \A m \in 1 .. N : \A k \in T : k.base = packet.members[m].base =>
         /\ PlaceOf(k, packet.name) = place[m][2] /\ place[m][2] \in Int
         /\ PlaceOf(k, packet.name) \in Int
  <2>1. \A m \in 1 .. N : place[m][2] \in Int
    BY DEF Table, N
  <2>2. QED
    BY <2>1, BelongsIs DEF N
<1>12. \A i, j \in 1 .. n : i < j => InAttachmentOrder(q[i], q[j], packet.name)
  <2> SUFFICES ASSUME NEW i \in 1 .. n, NEW j \in 1 .. n, i < j
               PROVE  InAttachmentOrder(q[i], q[j], packet.name)
    OBVIOUS
  <2> DEFINE l == at(i)
             m == at(j)
  <2>1. l \in M /\ m \in M /\ rank[l] < rank[m]
    BY <1>3, <1>7
  <2> HIDE DEF l, m
  <2>2. Precedes(l, m)
    BY <1>3, <1>6, <2>1
  <2>3. l[1] \in 1 .. N /\ m[1] \in 1 .. N
    BY <1>1, <2>1
  <2>4. PlaceOf(l[2], packet.name) = place[l[1]][2] /\ PlaceOf(m[2], packet.name) = place[m[1]][2]
    BY <1>1, <1>11, <2>1, <2>3
  <2>5. l[1] < m[1] => place[l[1]][2] < place[m[1]][2]
    BY <2>3 DEF Table, N
  <2>6. q[i] = l[2] /\ q[j] = m[2]
    BY <1>5 DEF l, m
  <2>7. CASE l[1] < m[1]
    BY <2>4, <2>5, <2>6, <2>7 DEF InAttachmentOrder
  <2>8. CASE ~(l[1] < m[1])
    <3>1. l[1] = m[1] /\ Before(l[2], m[2])
      BY <2>2, <2>8 DEF Precedes
    <3>2. QED
      BY <2>4, <2>6, <3>1 DEF InAttachmentOrder, Before
  <2>9. QED
    BY <2>7, <2>8
<1>13. main \in E => n >= 1 /\ q[1] = main
  <2> SUFFICES ASSUME main \in E PROVE n >= 1 /\ q[1] = main
    OBVIOUS
  <2>1. main.base = packet.members[1].base /\ main.slug = 0 /\ main.num = -1
    BY DEF Sole, Key
  <2>2. 1 \in 1 .. N /\ N \in Nat /\ DOMAIN packet.members = 1 .. N
        /\ main.base \notin FamilyBases /\ main.base # "f4562"
        /\ (\A m \in 1 .. N : m # 1 => place[1][2] < place[m][2])
        /\ \A m \in 1 .. N : place[m][2] \in Int
    <3>1. N >= 1 /\ N \in Nat /\ DOMAIN packet.members = 1 .. N
      BY DEF Table, N
    <3>2. \A m \in 1 .. N : place[m][2] \in Int
      BY DEF Table, N
    <3>3. \A k, m \in 1 .. N : k < m => place[k][2] < place[m][2]
      BY DEF Table, N
    <3>4. main.base \notin FamilyBases /\ main.base # "f4562"
      BY <2>1 DEF Table
    <3>5. \A m \in 1 .. N : m # 1 => 1 < m
      BY <3>1
    <3>6. 1 \in 1 .. N
      BY <3>1
    <3>7. QED
      BY <3>1, <3>2, <3>3, <3>4, <3>5, <3>6
  <2>3. main \in T
    BY <2>1, <2>2 DEF T, Claimed, Bases
  <2>4. PICK j \in 1 .. n : q[j] = main
    BY <1>10, <2>3
  <2>5. 1 \in 1 .. n /\ n >= 1
    BY <1>3, <2>4
  <2>6. CASE j = 1
    BY <2>4, <2>5, <2>6
  <2>7. CASE j # 1
    <3> DEFINE k == q[1]
    <3>1. k \in T /\ InAttachmentOrder(k, main, packet.name)
      BY <1>9, <1>12, <2>4, <2>5, <2>7
    <3> HIDE DEF k
    <3>2. k \in Keys /\ k.base \in Bases(packet)
      BY <3>1 DEF T, Claimed
    <3>3. PICK m \in 1 .. N : k.base = packet.members[m].base
      BY <2>2, <3>2 DEF Bases
    <3>4. PlaceOf(k, packet.name) = place[m][2] /\ PlaceOf(main, packet.name) = place[1][2]
          /\ PlaceOf(main, packet.name) \in Int
      BY <1>11, <2>1, <2>2, <2>3, <3>1, <3>3
    <3>5. CASE m = 1
      <4>1. k.base = main.base /\ k.slug = 0 /\ k.num = -1
        <5>1. k.base = main.base
          BY <2>1, <3>3, <3>5
        <5>2. Shaped(k)
          BY <3>2, KeysShaped
        <5>3. QED
          BY <2>2, <5>1, <5>2 DEF Shaped
      <4>2. PlaceOf(k, packet.name) = PlaceOf(main, packet.name)
            /\ PlaceOf(k, packet.name) \in Int
        <5> HIDE DEF main, place
        <5>1. QED
          BY <3>4, <3>5
      <4> HIDE DEF main
      <4>3. QED
        BY <2>1, <3>1, <4>1, <4>2 DEF InAttachmentOrder
    <3>6. CASE m # 1
      BY <2>2, <3>1, <3>4, <3>6 DEF InAttachmentOrder
    <3>7. QED
      BY <3>5, <3>6
  <2>8. QED
    BY <2>6, <2>7
<1>14. QED
  BY <1>9, <1>10, <1>12, <1>13 DEF q, T

----------------------------------------------------------------------------
(* The main form of a packet.                                              *)

Main(packet) == Sole(packet.members[1].base)

\* The main forms.
LEMMA MainsAre ==
  /\ Main(FederalIndividual) = Sole("1040") /\ Main(FederalCorporate) = Sole("1120s")
  /\ Main(California) = Sole("f540") /\ Main(CaliforniaCorporate) = Sole("f100s")
BY DEF Main, FederalIndividual, FederalCorporate, California, CaliforniaCorporate, Exact

\* What a command may emit is of its own forms.
LEMMA KeysAreOf ==
  /\ \A k \in IndividualKeys : k.base \in IndividualBases \cup {"sch_c"}
  /\ \A k \in CorporateKeys : k.base \in CorporateForms
  /\ \A k \in CaliforniaCorporateKeys : k.base \in CaliforniaCorporateBases \cup {"f100s_k1"}
  /\ \A k \in SolesOf(CaliforniaBases) : k.base \in CaliforniaBases
<1>1. \A B : \A x \in SolesOf(B) : x.base \in B
  BY DEF SolesOf, Sole, Key
<1>2. \A b : \A x \in FamilyOf(b) : x.base = b
  BY DEF FamilyOf, Numbered, Key
<1>3. \A x \in Copies4562 : x.base = "f4562"
  BY DEF Copies4562, ActivityCopy, Key
<1>4. "f4562" \in IndividualBases
  BY DEF IndividualBases
<1>5. CorporateBases \subseteq CorporateForms /\ {"1120s_k1", "1120s_k1_qbi_stmt"} \subseteq CorporateForms
  BY DEF CorporateBases, CorporateForms
<1>6. QED
  BY <1>1, <1>2, <1>3, <1>4, <1>5 DEF IndividualKeys, CorporateKeys, CaliforniaCorporateKeys

\* A corporation's forms come with Form 1120-S, and its California forms with
\* Form 100S.
LEMMA CorporateWhole ==
  ASSUME NEW c \in Returns, NEW k \in c.keys
  PROVE  /\ k \in CorporateKeys => Sole("1120s") \in c.keys
         /\ k \in CaliforniaCorporateKeys => Sole("f100s") \in c.keys
<1>1. /\ Sole("1120s_other_deductions_stmt") \in c.keys => Sole("1120s") \in c.keys
      /\ Sole("f100s_other_deductions_stmt") \in c.keys => Sole("f100s") \in c.keys
      /\ Sole("scorp_amendment_note") \in c.keys => Sole("f100s") \in c.keys
      /\ \A n \in Nums : /\ K1(n) \in c.keys <=> K1Stmt(n) \in c.keys
                         /\ K1(n) \in c.keys => Sole("1120s") \in c.keys
                         /\ CAK1(n) \in c.keys => Sole("f100s") \in c.keys
  BY ReturnsAssumption DEF Coherent
<1>2. k \in CorporateKeys =>
        \/ k = Sole("1120s") \/ k = Sole("1120s_other_deductions_stmt")
        \/ \E n \in Nums : k = K1(n) \/ k = K1Stmt(n)
  BY DEF CorporateKeys, CorporateBases, SolesOf, FamilyOf, K1, K1Stmt
<1>3. k \in CaliforniaCorporateKeys =>
        \/ k = Sole("f100s") \/ k = Sole("f100s_other_deductions_stmt")
        \/ k = Sole("scorp_amendment_note") \/ \E n \in Nums : k = CAK1(n)
  BY DEF CaliforniaCorporateKeys, CaliforniaCorporateBases, SolesOf, FamilyOf, CAK1
<1>4. QED
  BY <1>1, <1>2, <1>3

\* A run that emits any form of a packet emits the packet's main form.
LEMMA MainEmitted ==
  ASSUME NEW c \in Returns, NEW k \in c.keys, NEW i \in 1 .. 4, k.base \in Bases(Packets[i])
  PROVE  Main(Packets[i]) \in c.keys
<1>1. k \in KeysOf(c.cmd) /\ c.cmd \in {"federal", "ca", "scorp"}
  <2>1. c.cmd \in DOMAIN EmitOrder
    BY ReturnsAssumption DEF Coherent
  <2>2. QED
    BY <2>1, PlanIs DEF EmitOrder
<1>2. /\ c.cmd = "federal" => Sole("1040") \in c.keys
      /\ c.cmd = "ca" => Sole("f540") \in c.keys
  BY ReturnsAssumption DEF Coherent
<1>3. \/ c.cmd = "federal" /\ k \in IndividualKeys
      \/ k \in CorporateKeys
      \/ c.cmd = "federal" /\ k \in SolesOf({"depreciation_audit"})
      \/ c.cmd = "ca" /\ k \in SolesOf(CaliforniaBases)
      \/ k \in CaliforniaCorporateKeys
  BY <1>1 DEF KeysOf
<1>4. k.base # "depreciation_audit"
  BY Tables DEF Table
<1>5. k \notin SolesOf({"depreciation_audit"})
  BY <1>4 DEF SolesOf, Sole, Key
<1> DEFINE b == k.base
<1>6. /\ k \in IndividualKeys => b \in IndividualBases \cup {"sch_c"}
      /\ k \in CorporateKeys => b \in CorporateForms
      /\ k \in CaliforniaCorporateKeys => b \in CaliforniaCorporateBases \cup {"f100s_k1"}
      /\ k \in SolesOf(CaliforniaBases) => b \in CaliforniaBases
  BY KeysAreOf
<1>7. /\ i = 1 => b \in IndividualBases \cup {"sch_c"}
      /\ i = 2 => b \in CorporateForms
      /\ i = 3 => b \in CaliforniaForms
      /\ i = 4 => b \in CaliforniaCorporateForms
  BY PacketBases, PacketsAre
<1>8. /\ i = 1 => Main(Packets[i]) = Sole("1040")
      /\ i = 2 => Main(Packets[i]) = Sole("1120s")
      /\ i = 3 => Main(Packets[i]) = Sole("f540")
      /\ i = 4 => Main(Packets[i]) = Sole("f100s")
  BY MainsAre, PacketsAre
<1>9. /\ k \in CorporateKeys => Sole("1120s") \in c.keys
      /\ k \in CaliforniaCorporateKeys => Sole("f100s") \in c.keys
  BY CorporateWhole
<1> HIDE DEF b
<1>10. /\ i = 1 => k \in IndividualKeys /\ c.cmd = "federal"
       /\ i = 2 => k \in CorporateKeys
       /\ i = 3 => c.cmd = "ca"
       /\ i = 4 => k \in CaliforniaCorporateKeys
  <2>1. \A x \in IndividualBases \cup {"sch_c"} :
          x \notin CorporateForms /\ x \notin CaliforniaBases
          /\ x \notin CaliforniaCorporateBases \cup {"f100s_k1"}
          /\ x \notin CaliforniaForms /\ x \notin CaliforniaCorporateForms
    BY DEF IndividualBases, CorporateForms, CaliforniaBases, CaliforniaCorporateBases,
           CaliforniaForms, CaliforniaCorporateForms
  <2>2. \A x \in CorporateForms :
          x \notin CaliforniaBases /\ x \notin CaliforniaCorporateBases \cup {"f100s_k1"}
          /\ x \notin CaliforniaForms /\ x \notin CaliforniaCorporateForms
    BY DEF CorporateForms, CaliforniaBases, CaliforniaCorporateBases, CaliforniaForms, CaliforniaCorporateForms
  <2>3. \A x \in CaliforniaBases :
          x \notin CaliforniaCorporateBases \cup {"f100s_k1"} /\ x \notin CaliforniaCorporateForms
    BY DEF CaliforniaBases, CaliforniaCorporateBases, CaliforniaCorporateForms
  <2>4. \A x \in CaliforniaCorporateBases \cup {"f100s_k1"} : x \notin CaliforniaForms
    BY DEF CaliforniaCorporateBases, CaliforniaForms
  <2>5. QED
    BY <1>3, <1>5, <1>6, <1>7, <2>1, <2>2, <2>3, <2>4
<1>11. i = 1 \/ i = 2 \/ i = 3 \/ i = 4
  OBVIOUS
<1>12. QED
  BY <1>2, <1>8, <1>9, <1>10, <1>11

\* A side file is in no packet, and neither is a source document.
LEMMA SideFilesApart ==
  ASSUME NEW i \in 1 .. 4, NEW k, k.base \in Bases(Packets[i])
  PROVE  k \notin SideFiles /\ k.base # "w2"
<1>1. k.base \notin {"f3115_filing_manifest", "ca_resolved", "scorp_amendment_note", "w2"}
  BY Tables DEF Table
<1>2. \A x \in SideFiles : x.base \in {"f3115_filing_manifest", "ca_resolved", "scorp_amendment_note"}
  BY DEF SideFiles, Sole, Key
<1>3. QED
  BY <1>1, <1>2

----------------------------------------------------------------------------
(* The documents routed to a packet.                                       *)

\* A list of a set's members in increasing order is as long as the set.
LEMMA EnumerationCounts ==
  ASSUME NEW T \in SUBSET Nat, NEW k, Enumerates(k, T)
  PROVE  IsFiniteSet(T) /\ Len(k) = Cardinality(T) /\ Len(k) \in Nat
<1> DEFINE n == Len(k)
<1>1. /\ k \in Seq(T) /\ n \in Nat /\ k \in [1 .. n -> T]
      /\ \A i, j \in 1 .. n : i < j => k[i] < k[j]
      /\ \A x \in T : \E i \in 1 .. n : k[i] = x
  BY DEF Enumerates
<1> HIDE DEF n
<1>2. \A i \in 1 .. n : k[i] \in Int
  <2>1. \A x \in T : x \in Int
    OBVIOUS
  <2>2. QED
    BY <1>1, <2>1
<1>3. \A i, j \in 1 .. n : k[i] = k[j] => i = j
  <2> SUFFICES ASSUME NEW i \in 1 .. n, NEW j \in 1 .. n, k[i] = k[j], i # j PROVE FALSE
    OBVIOUS
  <2>1. i < j \/ j < i
    BY <1>1
  <2>2. QED
    BY <1>1, <1>2, <2>1
<1>4. IsFiniteSet(1 .. n) /\ Cardinality(1 .. n) = n
  BY <1>1, FS_Interval
<1>5. k \in Bijection(1 .. n, T)
  BY <1>1, <1>3 DEF Bijection, Injection, Surjection, IsInjective
<1>6. IsFiniteSet(T) /\ Cardinality(T) = Cardinality(1 .. n)
  <2> DEFINE A == 1 .. n
  <2>1. IsFiniteSet(A) /\ k \in Bijection(A, T)
    BY <1>4, <1>5
  <2> HIDE DEF A
  <2>2. ExistsBijection(A, T)
    BY <2>1 DEF ExistsBijection
  <2>3. IsFiniteSet(T) /\ Cardinality(T) = Cardinality(A)
    BY <2>1, <2>2, FS_Bijection
  <2>4. QED
    BY <2>3 DEF A
<1>7. QED
  BY <1>1, <1>4, <1>6 DEF n

Routed(c, p) == {i \in DOMAIN c.docs : p \in c.docs[i]}

\* The documents of a packet are those routed to it, in their order.
LEMMA DocsForIs ==
  ASSUME NEW packet, given.docs \in Seq(Docs)
  PROVE  LET docs == DocsFor(packet)
             S    == Routed(given, packet.name)
             n    == Cardinality(S)
         IN /\ n \in Nat /\ docs \in Seq({DocKey(i) : i \in S}) /\ Len(docs) = n
            /\ \A i \in S : \E j \in 1 .. n : docs[j] = DocKey(i)
            /\ \A j \in 1 .. n - 1 : docs[j].num < docs[j + 1].num
            /\ S \subseteq Nat
<1> DEFINE N == Len(given.docs)
           S == Routed(given, packet.name)
           kept == Kept(N, S)
           docs == DocsFor(packet)
           n == Cardinality(S)
           D == {DocKey(i) : i \in S}
<1>1. N \in Nat /\ DOMAIN given.docs = 1 .. N /\ S \subseteq 1 .. N
  BY DEF Routed
<1>2. S \cap (1 .. N) = S /\ S \in SUBSET Nat
  BY <1>1
<1>3. docs = [j \in DOMAIN kept |-> DocKey(kept[j])]
  BY DEF DocsFor, Routed
<1> HIDE DEF N, S, kept, docs, n, D
<1>4. Enumerates(kept, S)
  BY <1>1, <1>2, KeptEnumerates DEF kept
<1>5. n \in Nat /\ Len(kept) = n
  BY <1>2, <1>4, EnumerationCounts DEF n
<1>6. /\ kept \in Seq(S) /\ DOMAIN kept = 1 .. n /\ \A j \in 1 .. n : kept[j] \in S
      /\ \A i, j \in 1 .. n : i < j => kept[i] < kept[j]
      /\ \A i \in S : \E j \in 1 .. n : kept[j] = i
  BY <1>4, <1>5 DEF Enumerates
<1>7. \A j \in 1 .. n : docs[j] = DocKey(kept[j]) /\ docs[j] \in D
  BY <1>3, <1>6 DEF D
<1>8. docs \in Seq(D) /\ Len(docs) = n
  <2>1. docs \in [1 .. n -> D]
    BY <1>3, <1>6, <1>7
  <2>2. QED
    BY <1>5, <2>1
<1>9. \A i \in S : \E j \in 1 .. n : docs[j] = DocKey(i)
  BY <1>6, <1>7
<1>10. \A j \in 1 .. n - 1 : docs[j].num < docs[j + 1].num
  <2> SUFFICES ASSUME NEW j \in 1 .. n - 1 PROVE docs[j].num < docs[j + 1].num
    OBVIOUS
  <2>1. j \in 1 .. n /\ j + 1 \in 1 .. n /\ j < j + 1
    BY <1>5
  <2>2. \A x : DocKey(x).num = x
    BY DEF DocKey, Numbered, Key
  <2>3. kept[j] < kept[j + 1]
    BY <1>6, <2>1
  <2>4. QED
    BY <1>7, <2>1, <2>2, <2>3
<1>11. QED
  BY <1>2, <1>5, <1>8, <1>9, <1>10 DEF docs, S, n, D

\* The documents go in behind the first form.
LEMMA SpliceIs ==
  ASSUME NEW V, NEW paths \in Seq(V), NEW docs \in Seq(V), Len(paths) >= 1,
         NEW packet, NEW emitted0, Main(packet) \in emitted0
  PROVE  LET q == Splice(paths, docs, packet, emitted0)
             n == Len(docs)
         IN /\ q \in Seq(V) /\ Len(q) = n + Len(paths)
            /\ q[1] = paths[1]
            /\ \A j \in 1 .. n : q[j + 1] = docs[j]
            /\ \A i \in 2 .. Len(paths) : q[i + n] = paths[i]
<1> DEFINE m == Len(paths)
           n == Len(docs)
           q == Splice(paths, docs, packet, emitted0)
           head == SubSeq(paths, 1, 1)
           tail == SubSeq(paths, 2, m)
<1>1. paths \in Seq(V) /\ docs \in Seq(V) /\ m \in Nat /\ n \in Nat /\ m >= 1
  OBVIOUS
<1>2. q = (head \o docs) \o tail
  <2>1. q = SubSeq(paths, 1, 1) \o docs \o SubSeq(paths, 1 + 1, Len(paths))
    BY DEF Splice, Main
  <2>2. 1 + 1 = 2
    OBVIOUS
  <2> HIDE DEF q
  <2>3. QED
    BY <2>1, <2>2
<1> HIDE DEF q, m, n
<1>3. \A i \in 1 .. m : paths[i] \in V
  BY <1>1 DEF m
<1>4. /\ head \in Seq(V) /\ Len(head) = 1 /\ head[1] = paths[1]
  <2>1. /\ 1 \in Int /\ \A i \in 1 .. 1 : paths[i] \in V
    BY <1>1, <1>3
  <2>2. /\ SubSeq(paths, 1, 1) \in Seq(V)
        /\ Len(SubSeq(paths, 1, 1)) = IF 1 <= 1 THEN 1 - 1 + 1 ELSE 0
        /\ \A i \in 1 .. 1 - 1 + 1 : SubSeq(paths, 1, 1)[i] = paths[1 + i - 1]
    BY <2>1, SubSeqProperties
  <2>3. QED
    BY <2>2
<1>5. /\ tail \in Seq(V) /\ Len(tail) = m - 1
      /\ \A i \in 1 .. m - 1 : tail[i] = paths[i + 1]
  <2>1. /\ 2 \in Int /\ m \in Int /\ \A i \in 2 .. m : paths[i] \in V
    BY <1>1, <1>3
  <2>2. /\ SubSeq(paths, 2, m) \in Seq(V)
        /\ Len(SubSeq(paths, 2, m)) = IF 2 <= m THEN m - 2 + 1 ELSE 0
        /\ \A i \in 1 .. m - 2 + 1 : SubSeq(paths, 2, m)[i] = paths[2 + i - 1]
    BY <2>1, SubSeqProperties
  <2> HIDE DEF tail
  <2>3. /\ tail \in Seq(V) /\ Len(tail) = IF 2 <= m THEN m - 2 + 1 ELSE 0
        /\ \A i \in 1 .. m - 2 + 1 : tail[i] = paths[2 + i - 1]
    BY <2>2 DEF tail
  <2>4. QED
    BY <1>1, <2>3
<1> HIDE DEF head, tail
<1> DEFINE r == head \o docs
<1>6. /\ r \in Seq(V) /\ Len(r) = 1 + n
      /\ \A j \in 1 .. 1 + n : r[j] = IF j <= 1 THEN head[j] ELSE docs[j - 1]
  <2>1. /\ head \o docs \in Seq(V) /\ Len(head \o docs) = Len(head) + Len(docs)
        /\ \A j \in 1 .. Len(head) + Len(docs) :
             (head \o docs)[j] = IF j <= Len(head) THEN head[j] ELSE docs[j - Len(head)]
    BY <1>1, <1>4, ConcatProperties
  <2> HIDE DEF r
  <2>2. QED
    BY <1>4, <2>1 DEF r, n
<1> HIDE DEF r
<1>7. q \in Seq(V) /\ Len(q) = n + m
      /\ \A j \in 1 .. n + m : q[j] = IF j <= 1 + n THEN r[j] ELSE tail[j - (1 + n)]
  <2>1. /\ r \o tail \in Seq(V) /\ Len(r \o tail) = Len(r) + Len(tail)
        /\ \A j \in 1 .. Len(r) + Len(tail) :
             (r \o tail)[j] = IF j <= Len(r) THEN r[j] ELSE tail[j - Len(r)]
    BY <1>5, <1>6, ConcatProperties
  <2>2. q = r \o tail
    BY <1>2 DEF r
  <2>3. Len(r) = 1 + n /\ Len(r) + Len(tail) = n + m
    BY <1>1, <1>5, <1>6
  <2>4. QED
    BY <2>1, <2>2, <2>3
<1>8. \A j \in 1 .. n : j + 1 \in 1 .. n + m /\ j + 1 <= 1 + n /\ j + 1 \in 1 .. 1 + n
                       /\ ~(j + 1 <= 1) /\ (j + 1) - 1 = j
  BY <1>1
<1>9. q[1] = paths[1]
  <2>1. 1 \in 1 .. n + m /\ 1 <= 1 + n /\ 1 \in 1 .. 1 + n /\ 1 <= 1
    BY <1>1
  <2>2. QED
    BY <1>4, <1>6, <1>7, <2>1
<1>10. \A j \in 1 .. n : q[j + 1] = docs[j]
  BY <1>6, <1>7, <1>8
<1>11. \A i \in 2 .. m : q[i + n] = paths[i]
  <2> SUFFICES ASSUME NEW i \in 2 .. m PROVE q[i + n] = paths[i]
    OBVIOUS
  <2>1. i + n \in 1 .. n + m /\ ~(i + n <= 1 + n) /\ (i + n) - (1 + n) = i - 1 /\ i - 1 \in 1 .. m - 1
    BY <1>1
  <2>2. q[i + n] = tail[i - 1]
    BY <1>7, <2>1
  <2>3. tail[i - 1] = paths[(i - 1) + 1] /\ (i - 1) + 1 = i
    BY <1>5, <2>1
  <2>4. QED
    BY <2>2, <2>3
<1>12. QED
  BY <1>7, <1>9, <1>10, <1>11 DEF q, m, n

----------------------------------------------------------------------------
(* A packet is the filing of its run.                                      *)

\* What a run that has emitted all its forms assembles a packet from.
Pages(i) ==
  LET packet == Packets[i]
  IN Splice(OrderedMembers(emitted, packet), DocsFor(packet), packet, emitted)

Assembled(i) == [j \in DOMAIN Pages(i) |-> <<Pages(i)[j], Content(Pages(i)[j])>>]

\* The run has emitted its forms, and they are there.
AllEmitted ==
  /\ run \in 1 .. MaxRuns /\ given \in Returns
  /\ emitted = given.keys \ SideFiles
  /\ \A k \in emitted : files[k] = run

\* The forms such a run has emitted for a packet are those of its filing.
LEMMA EmittedAre ==
  ASSUME AllEmitted
  PROVE  /\ emitted \in SUBSET Keys /\ IsFiniteSet(emitted) /\ given.docs \in Seq(Docs)
         /\ \A i \in 1 .. 4 :
              {k \in given.keys : Belongs(k, Packets[i].name)} = Claimed(emitted, Packets[i])
<1>1. /\ Spans(Plan(given), given.keys) /\ IsFiniteSet(given.keys) /\ given.keys \subseteq Keys
  BY PlanIs DEF AllEmitted
<1>2. given.docs \in Seq(Docs)
  BY ReturnsAssumption DEF AllEmitted, Coherent
<1>3. emitted \in SUBSET given.keys
  BY DEF AllEmitted
<1>4. IsFiniteSet(emitted)
  <2> DEFINE K == given.keys
  <2>1. IsFiniteSet(K) /\ emitted \in SUBSET K
    BY <1>1, <1>3
  <2> HIDE DEF K
  <2>2. QED
    BY <2>1, FS_Subset
<1>5. ASSUME NEW i \in 1 .. 4
      PROVE  {k \in given.keys : Belongs(k, Packets[i].name)} = Claimed(emitted, Packets[i])
  <2>1. Table(Packets[i])
    BY Tables
  <2>2. \A k : Belongs(k, Packets[i].name) <=> k.base \in Bases(Packets[i])
    BY <2>1, BelongsIs
  <2>3. \A k : k.base \in Bases(Packets[i]) => k \notin SideFiles
    BY SideFilesApart
  <2>4. QED
    BY <2>2, <2>3 DEF Claimed, AllEmitted
<1>6. QED
  BY <1>1, <1>2, <1>3, <1>4, <1>5

\* A packet that has any member is the filing of the run.
LEMMA AssembledIs ==
  ASSUME AllEmitted, NEW i \in 1 .. 4, OrderedMembers(emitted, Packets[i]) # <<>>
  PROVE  /\ Assembled(i) \in Seq(Entries)
         /\ IsFiling(Assembled(i), Packets[i].name, given, run)
         /\ \A k \in Claimed(emitted, Packets[i]) : <<k, run>> \in ToSet(Assembled(i))
<1> DEFINE packet == Packets[i]
           p == packet.name
           q == OrderedMembers(emitted, packet)
           T == Claimed(emitted, packet)
           S == Routed(given, p)
           n == Cardinality(S)
           docs == DocsFor(packet)
           D == {DocKey(d) : d \in S}
           paths == Pages(i)
           content == Assembled(i)
           m == Len(q)
           form(j) == content[IF j = 1 THEN 1 ELSE j + n]
<1>1. Table(packet)
  BY Tables
<1>2. /\ emitted \in SUBSET Keys /\ IsFiniteSet(emitted) /\ given.docs \in Seq(Docs)
      /\ {k \in given.keys : Belongs(k, p)} = T
  BY EmittedAre
<1>3. /\ q \in Seq(T)
      /\ \A k \in T : \E j \in 1 .. m : q[j] = k
      /\ \A j, l \in 1 .. m : j < l => InAttachmentOrder(q[j], q[l], p)
  <2> HIDE DEF packet
  <2>1. QED
    BY <1>1, <1>2, MembersAre
<1>4. /\ n \in Nat /\ docs \in Seq(D) /\ Len(docs) = n
      /\ \A d \in S : \E j \in 1 .. n : docs[j] = DocKey(d)
      /\ \A j \in 1 .. n - 1 : docs[j].num < docs[j + 1].num
      /\ S \subseteq Nat
  <2> HIDE DEF packet
  <2>1. QED
    BY <1>2, DocsForIs
<1>5. m \in Nat /\ m >= 1 /\ \A j \in 1 .. m : q[j] \in T
  <2>1. q # <<>>
    OBVIOUS
  <2> HIDE DEF q, T
  <2>2. QED
    BY <1>3, <2>1
<1>6. Main(packet) \in emitted
  <2>1. PICK k \in T : TRUE
    BY <1>5
  <2>2. k \in given.keys /\ k.base \in Bases(packet)
    BY DEF AllEmitted, Claimed
  <2>3. Main(packet) \in given.keys
    BY <2>2, MainEmitted DEF AllEmitted
  <2>4. Main(packet).base \in Bases(packet)
    <3> HIDE DEF packet
    <3>1. DOMAIN packet.members = 1 .. Len(packet.members) /\ Len(packet.members) \in Nat
          /\ Len(packet.members) >= 1
      BY <1>1 DEF Table
    <3>2. 1 \in DOMAIN packet.members
      BY <3>1
    <3>3. Main(packet).base = packet.members[1].base
      BY DEF Main, Sole, Key
    <3>4. QED
      BY <3>2, <3>3 DEF Bases
  <2>5. Main(packet) \notin SideFiles
    BY <2>4, SideFilesApart
  <2>6. QED
    BY <2>3, <2>5 DEF AllEmitted
<1>7. /\ paths \in Seq(T \cup D) /\ Len(paths) = n + m
      /\ paths[1] = q[1]
      /\ \A j \in 1 .. n : paths[j + 1] = docs[j]
      /\ \A j \in 2 .. m : paths[j + n] = q[j]
  <2>1. paths = Splice(q, docs, packet, emitted)
    BY DEF Pages
  <2> HIDE DEF packet, q, docs, T, D, paths, n
  <2> DEFINE V == T \cup D
  <2>2. q \in Seq(V) /\ docs \in Seq(V) /\ Len(q) >= 1 /\ Main(packet) \in emitted
    BY <1>3, <1>4, <1>5, <1>6
  <2> HIDE DEF V
  <2>3. /\ Splice(q, docs, packet, emitted) \in Seq(V)
        /\ Len(Splice(q, docs, packet, emitted)) = Len(docs) + Len(q)
        /\ Splice(q, docs, packet, emitted)[1] = q[1]
        /\ \A j \in 1 .. Len(docs) : Splice(q, docs, packet, emitted)[j + 1] = docs[j]
        /\ \A j \in 2 .. Len(q) : Splice(q, docs, packet, emitted)[j + Len(docs)] = q[j]
    BY <2>2, SpliceIs
  <2>4. Len(docs) = n
    BY <1>4
  <2>5. QED
    BY <2>1, <2>3, <2>4 DEF V
<1>8. /\ \A k \in T : Content(k) = run /\ k \in Keys
      /\ \A k \in D : Content(k) = Source
  <2>1. \A k \in T : k.base # "w2"
    BY SideFilesApart DEF Claimed
  <2>2. \A k \in T : k \in emitted
    BY DEF Claimed
  <2>3. \A k \in T : Content(k) = run /\ k \in Keys
    BY <1>2, <2>1, <2>2 DEF Content, AllEmitted
  <2>4. \A k \in D : k.base = "w2"
    BY DEF DocKey, Numbered, Key
  <2>5. QED
    BY <2>3, <2>4 DEF Content
<1>9. content = [j \in 1 .. n + m |-> <<paths[j], Content(paths[j])>>]
  <2>1. DOMAIN paths = 1 .. n + m
    <3> HIDE DEF paths, T, D, n, m
    <3>1. QED
      BY <1>7
  <2>2. QED
    BY <2>1 DEF Assembled
<1>10. \A k \in D : k \in [base : {"w2"}, slug : {0}, num : Nat]
  BY <1>4 DEF DocKey, Numbered, Key
<1> HIDE DEF packet, q, docs, T, D, paths, content, S, n, m
<1>11. /\ content \in Seq(Entries) /\ Len(content) = n + m
       /\ \A j \in 1 .. n + m : content[j] = <<paths[j], Content(paths[j])>>
  <2>1. \A j \in 1 .. n + m : paths[j] \in T \cup D
    BY <1>7
  <2>2. \A k \in T \cup D : <<k, Content(k)>> \in Entries
    <3>1. run \in 1 .. MaxRuns
      BY DEF AllEmitted
    <3>2. \A k \in T : <<k, Content(k)>> \in Entries
      BY <1>8, <3>1 DEF Entries
    <3>3. \A k \in D : <<k, Content(k)>> \in Entries
      BY <1>8, <1>10 DEF Entries
    <3>4. QED
      BY <3>2, <3>3
  <2>3. content \in [1 .. n + m -> Entries]
    BY <1>9, <2>1, <2>2
  <2>4. n + m \in Nat
    BY <1>4, <1>5
  <2>5. \A j \in 1 .. n + m : content[j] = <<paths[j], Content(paths[j])>>
    BY <1>9
  <2> DEFINE N == n + m
  <2>6. N \in Nat /\ content \in [1 .. N -> Entries]
    BY <2>3, <2>4
  <2> HIDE DEF N
  <2>7. content \in Seq(Entries) /\ Len(content) = N
    BY <2>6
  <2>8. QED
    BY <2>5, <2>7 DEF N
<1>12. \A j \in 1 .. m : (IF j = 1 THEN 1 ELSE j + n) \in 1 .. n + m
                         /\ (j # 1 => j \in 2 .. m)
  BY <1>4, <1>5
<1>13. \A j \in 1 .. m : form(j) = <<q[j], run>>
  <2> SUFFICES ASSUME NEW j \in 1 .. m PROVE form(j) = <<q[j], run>>
    OBVIOUS
  <2>1. paths[IF j = 1 THEN 1 ELSE j + n] = q[j]
    BY <1>7, <1>12
  <2>2. form(j) = <<q[j], Content(q[j])>>
    BY <1>11, <1>12, <2>1
  <2>3. QED
    BY <1>5, <1>8, <2>2
<1>14. \A j \in 1 .. n : content[j + 1] = <<docs[j], Source>>
  <2> SUFFICES ASSUME NEW j \in 1 .. n PROVE content[j + 1] = <<docs[j], Source>>
    OBVIOUS
  <2>1. j + 1 \in 1 .. n + m /\ docs[j] \in D
    BY <1>4, <1>5
  <2>2. QED
    BY <1>7, <1>8, <1>11, <2>1
<1>15. 1 .. Len(content) - n = 1 .. m
  BY <1>4, <1>5, <1>11
<1>16. 1 .. m # {}
  <2>1. 1 \in 1 .. m
    BY <1>5
  <2>2. QED
    BY <2>1
<1>17. {form(j) : j \in 1 .. m} = {<<k, run>> : k \in T}
  <2> HIDE DEF form
  <2>1. QED
    BY <1>3, <1>5, <1>13
<1>18. \A j \in 1 .. m : j + 1 \in 1 .. m => InAttachmentOrder(form(j)[1], form(j + 1)[1], p)
  <2> SUFFICES ASSUME NEW j \in 1 .. m, j + 1 \in 1 .. m
               PROVE  InAttachmentOrder(form(j)[1], form(j + 1)[1], p)
    OBVIOUS
  <2>1. j < j + 1
    BY <1>5
  <2>2. InAttachmentOrder(q[j], q[j + 1], p)
    BY <1>3, <2>1
  <2>3. form(j) = <<q[j], run>> /\ form(j + 1) = <<q[j + 1], run>>
    BY <1>13
  <2> HIDE DEF form
  <2>4. form(j)[1] = q[j] /\ form(j + 1)[1] = q[j + 1]
    BY <2>3
  <2>5. QED
    BY <2>2, <2>4
<1>19. {content[j + 1] : j \in 1 .. n} = {<<DocKey(d), Source>> : d \in S}
  <2>1. \A j \in 1 .. n : \E d \in S : docs[j] = DocKey(d)
    <3>1. \A j \in 1 .. n : docs[j] \in D
      BY <1>4
    <3>2. QED
      BY <3>1 DEF D
  <2>2. ASSUME NEW j \in 1 .. n PROVE \E d \in S : content[j + 1] = <<DocKey(d), Source>>
    BY <1>14, <2>1
  <2>3. ASSUME NEW d \in S PROVE \E j \in 1 .. n : content[j + 1] = <<DocKey(d), Source>>
    <3>1. PICK j \in 1 .. n : docs[j] = DocKey(d)
      BY <1>4
    <3>2. content[j + 1] = <<DocKey(d), Source>>
      BY <1>14, <3>1
    <3>3. QED
      BY <3>2
  <2> DEFINE at(j) == content[j + 1]
             page(d) == <<DocKey(d), Source>>
  <2>4. /\ \A j \in 1 .. n : \E d \in S : at(j) = page(d)
        /\ \A d \in S : \E j \in 1 .. n : at(j) = page(d)
    BY <2>2, <2>3
  <2> HIDE DEF at, page
  <2>5. {at(j) : j \in 1 .. n} = {page(d) : d \in S}
    BY <2>4
  <2>6. QED
    BY <2>5 DEF at, page
<1>20. \A j \in 1 .. n - 1 : content[j + 1][1].num < content[j + 2][1].num
  <2> SUFFICES ASSUME NEW j \in 1 .. n - 1
               PROVE  content[j + 1][1].num < content[j + 2][1].num
    OBVIOUS
  <2>1. j \in 1 .. n /\ j + 1 \in 1 .. n /\ (j + 1) + 1 = j + 2
    BY <1>4
  <2>2. content[j + 1] = <<docs[j], Source>> /\ content[j + 2] = <<docs[j + 1], Source>>
    BY <1>14, <2>1
  <2>3. QED
    BY <1>4, <2>2
<1>21. IsFiling(content, p, given, run)
  <2>1. {d \in DOMAIN given.docs : p \in given.docs[d]} = S
    BY DEF S, Routed
  <2>2. {k \in given.keys : Belongs(k, p)} = T
    BY <1>2
  <2>3. n = Cardinality(S)
    BY DEF n
  <2> HIDE DEF form, p
  <2>4. QED
    BY <1>15, <1>16, <1>17, <1>18, <1>19, <1>20, <2>1, <2>2, <2>3 DEF IsFiling, form
<1>22. \A k \in T : <<k, run>> \in ToSet(content)
  <2> SUFFICES ASSUME NEW k \in T PROVE <<k, run>> \in ToSet(content)
    OBVIOUS
  <2>1. PICK j \in 1 .. m : q[j] = k
    BY <1>3
  <2>2. form(j) = <<k, run>> /\ (IF j = 1 THEN 1 ELSE j + n) \in 1 .. n + m
    BY <1>12, <1>13, <2>1
  <2>3. DOMAIN content = 1 .. n + m
    BY <1>9
  <2>4. QED
    BY <2>2, <2>3 DEF ToSet
<1>23. QED
  BY <1>11, <1>21, <1>22 DEF packet, content, T

\* A packet without a member claims nothing.
LEMMA NothingClaimed ==
  ASSUME AllEmitted, NEW i \in 1 .. 4, OrderedMembers(emitted, Packets[i]) = <<>>
  PROVE  Claimed(emitted, Packets[i]) = {}
<1> DEFINE packet == Packets[i]
           q == OrderedMembers(emitted, packet)
           T == Claimed(emitted, packet)
<1>1. Table(packet) /\ emitted \in SUBSET Keys /\ IsFiniteSet(emitted)
  BY Tables, EmittedAre
<1>2. q = <<>>
  OBVIOUS
<1>3. \A k \in T : \E j \in 1 .. Len(q) : q[j] = k
  <2> HIDE DEF packet
  <2>1. QED
    BY <1>1, MembersAre
<1> HIDE DEF q, T
<1>4. T = {}
  BY <1>2, <1>3
<1>5. QED
  BY <1>4 DEF T

----------------------------------------------------------------------------
(* The invariant, and the steps that build.                                *)

\* Outside of "idle" there is a current run.
Started == pc # "idle" => run >= 1

\* What has been emitted, stage by stage.
EmittedSoFar ==
  /\ emitted # {} => run >= 1 /\ emitted \subseteq given.keys \ SideFiles
  /\ pc = "emit" => emitted = {Plan(given)[i] : i \in 1 .. step - 1} \ SideFiles
  /\ pc \in {"assemble", "prune", "done"} => emitted = given.keys \ SideFiles

\* Until pruning the run's forms are loose files.
Loose == pc \in {"emit", "assemble"} => \A k \in emitted : files[k] = run

\* A packet already assembled holds every form its slots claim.
InPacket(k, p) == packets[p] \notin {Absent, Torn} /\ <<k, run>> \in ToSet(packets[p])
Held ==
  \A i \in 1 .. 4 :
    (pc = "assemble" /\ i < step) \/ pc \in {"prune", "done"} =>
      \A k \in Claimed(emitted, Packets[i]) : InPacket(k, Packets[i].name)

\* Pruning removes the forms that went into a packet, in order, and no other.
Filed(k) == \E i \in 1 .. 4 : k.base \in Bases(Packets[i])
Pruned ==
  /\ pc = "prune" => \A j \in 1 .. Len(EmittedOrder) :
       files[EmittedOrder[j]] = IF j < step /\ Filed(EmittedOrder[j]) THEN Absent ELSE run
  /\ pc = "done" => \A k \in emitted : files[k] = IF Filed(k) THEN Absent ELSE run

\* The inductive invariant.
IInv ==
  /\ TypeOK /\ Started /\ EmittedSoFar /\ Loose /\ Held /\ Pruned
  /\ WholePackets /\ NoFormIsLost

\* The return a run is for.
LEMMA Current ==
  ASSUME TypeOK
  PROVE  run \in Nat /\ run <= MaxRuns /\ MaxRuns \in Nat
         /\ (run >= 1 => given \in Returns /\ run \in 1 .. MaxRuns)
<1>1. returns \in Seq(Returns) /\ run <= MaxRuns
  BY DEF TypeOK
<1>2. MaxRuns \in Nat
  BY ReturnsAssumption
<1>3. QED
  BY <1>1, <1>2 DEF run, given

\* A step that starts no run.
LEMMA SameReturn ==
  ASSUME UNCHANGED returns
  PROVE  run' = run /\ given' = given /\ EmittedOrder' = EmittedOrder
<1>1. run' = run
  BY DEF run
<1>2. given' = given
  BY <1>1 DEF given
<1>3. QED
  BY <1>1, <1>2 DEF EmittedOrder, Where, Selection

\* What a step is counted in.
LEMMA StepIs ==
  ASSUME TypeOK
  PROVE  /\ pc = "emit" => step \in 1 .. Len(Plan(given)) + 1
         /\ pc = "assemble" => step \in 1 .. 5
         /\ pc = "prune" => step \in 1 .. Len(EmittedOrder) + 1
         /\ pc \notin {"emit", "assemble", "prune"} => step = 1
BY PacketsAre DEF TypeOK

\* The same, of the state after a step.
StepOK ==
  /\ pc = "emit" => step \in 1 .. Len(Plan(given)) + 1
  /\ pc = "assemble" => step \in 1 .. 5
  /\ pc = "prune" => step \in 1 .. Len(EmittedOrder) + 1
  /\ pc \notin {"emit", "assemble", "prune"} => step = 1

\* The directory starts empty.
LEMMA InitInv == Init => IInv
<1> SUFFICES ASSUME Init PROVE IInv
  OBVIOUS
<1>1. run = 0 /\ returns \in Seq(Returns) /\ MaxRuns \in Nat
  BY ReturnsAssumption DEF Init, run
<1>2. TypeOK
  <2>1. step \in CASE pc = "emit"     -> 1 .. Len(Plan(given)) + 1
                  [] pc = "assemble" -> 1 .. Len(Packets) + 1
                  [] pc = "prune"    -> 1 .. Len(EmittedOrder) + 1
                  [] OTHER           -> {1}
    BY DEF Init
  <2>2. run <= MaxRuns /\ emitted \subseteq Keys /\ pc = "idle"
    BY <1>1 DEF Init
  <2>6. shown \in BOOLEAN
    BY DEF Init
  <2>3. files \in [Keys -> 1 .. MaxRuns \cup {Absent, Torn}]
    BY DEF Init
  <2>4. packets \in [PacketNames -> {Absent, Torn} \cup Seq(Entries)]
    BY DEF Init
  <2>5. QED
    BY <1>1, <2>1, <2>2, <2>3, <2>4, <2>6 DEF TypeOK
<1>3. Started /\ EmittedSoFar /\ Loose /\ Held /\ Pruned /\ WholePackets /\ NoFormIsLost
  BY DEF Init, Started, EmittedSoFar, Loose, Held, Pruned, WholePackets, NoFormIsLost
<1>4. QED
  BY <1>2, <1>3 DEF IInv

\* A command starts.
LEMMA StartInv == ASSUME IInv, NEW c \in Returns, Start(c) PROVE IInv'
<1>1. /\ TypeOK /\ WholePackets /\ returns \in Seq(Returns) /\ run \in Nat /\ run < MaxRuns
      /\ MaxRuns \in Nat
  BY Current DEF IInv, Start, TypeOK
<1>2. /\ pc' = "emit" /\ step' = 1 /\ emitted' = {} /\ shown' = FALSE
      /\ returns' = Append(returns, c) /\ files' = files /\ packets' = packets
  BY DEF Start, Go
<1>3. /\ returns' \in Seq(Returns) /\ run' = run + 1 /\ given' = c
      /\ \A r \in 1 .. run : returns'[r] = returns[r]
  BY <1>1, <1>2 DEF run, given
<1>4. Len(Plan(c)) \in Nat
  BY PlanIs DEF Spans, ListsOnce
<1>5. TypeOK'
  <2>1. StepOK'
    BY <1>2, <1>3, <1>4 DEF StepOK
  <2>2. run' <= MaxRuns /\ emitted' \subseteq Keys
    BY <1>1, <1>2, <1>3
  <2>3. shown' \in BOOLEAN
    BY <1>2
  <2>4. QED
    BY <1>1, <1>2, <1>3, <2>1, <2>2, <2>3 DEF TypeOK, StepOK
<1>6. WholePackets'
  <2> SUFFICES ASSUME NEW p \in PacketNames, packets[p] \notin {Absent, Torn}
               PROVE  \E r \in 1 .. run' : IsFiling(packets[p], p, returns'[r], r)
    BY <1>2 DEF WholePackets
  <2>1. PICK r \in 1 .. run : IsFiling(packets[p], p, returns[r], r)
    BY <1>1 DEF WholePackets
  <2>2. r \in 1 .. run' /\ returns'[r] = returns[r]
    BY <1>1, <1>3
  <2>3. QED
    BY <2>1, <2>2
<1>7. (Started /\ EmittedSoFar /\ Loose /\ Held /\ Pruned /\ NoFormIsLost)'
  <2>1. {Plan(c)[i] : i \in 1 .. 1 - 1} = {}
    OBVIOUS
  <2>2. EmittedSoFar'
    BY <1>2, <1>3, <2>1 DEF EmittedSoFar
  <2>3. Started' /\ Loose' /\ Held' /\ Pruned' /\ NoFormIsLost'
    BY <1>1, <1>2, <1>3 DEF Started, Loose, Held, Pruned, NoFormIsLost
  <2>4. QED
    BY <2>2, <2>3
<1>8. QED
  BY <1>5, <1>6, <1>7 DEF IInv

\* The packets stay whole if neither they nor the returns change.
LEMMA SamePackets ==
  ASSUME WholePackets, UNCHANGED <<returns, packets>>
  PROVE  WholePackets'
<1>1. run' = run
  BY SameReturn
<1>2. QED
  BY <1>1 DEF WholePackets

\* A form is filled.
LEMMA EmitInv == ASSUME IInv, Emit PROVE IInv'
<1> DEFINE k == Plan(given)[step]
           E == {Plan(given)[i] : i \in 1 .. step - 1}
<1>1. /\ TypeOK /\ WholePackets /\ run \in 1 .. MaxRuns /\ given \in Returns
      /\ pc = "emit" /\ step \in 1 .. Len(Plan(given)) /\ Len(Plan(given)) \in Nat
  <2>1. TypeOK /\ WholePackets /\ run >= 1 /\ pc = "emit" /\ step <= Len(Plan(given))
    BY DEF IInv, Started, Emit
  <2>2. run \in 1 .. MaxRuns /\ given \in Returns
    BY <2>1, Current
  <2>3. Len(Plan(given)) \in Nat
    BY <2>2, PlanIs DEF Spans, ListsOnce
  <2>4. QED
    BY <2>1, <2>2, <2>3, StepIs
<1>2. /\ pc' = "emit" /\ step' = step + 1 /\ returns' = returns /\ packets' = packets
      /\ files' = [files EXCEPT ![k] = run] /\ shown' = shown
      /\ emitted' = emitted \cup ({k} \ SideFiles)
  BY <1>1 DEF Emit
<1>3. run' = run /\ given' = given
  BY <1>2, SameReturn
<1>4. k \in given.keys /\ k \in Keys /\ given.keys \subseteq Keys
  BY <1>1, PlanIs DEF Spans, ListsOnce
<1>5. emitted = E \ SideFiles /\ emitted \subseteq given.keys \ SideFiles
      /\ \A e \in emitted : files[e] = run
  BY <1>1 DEF IInv, EmittedSoFar, Loose
<1>6. emitted' = {Plan(given)[i] : i \in 1 .. step' - 1} \ SideFiles
  <2>1. {Plan(given)[i] : i \in 1 .. step' - 1} = E \cup {k}
    <3>1. \A i : i \in 1 .. step' - 1 <=> i \in 1 .. step - 1 \/ i = step
      BY <1>1, <1>2
    <3>2. QED
      BY <3>1
  <2> HIDE DEF E, k
  <2>2. QED
    BY <1>2, <1>5, <2>1
<1> HIDE DEF k, E
<1>7. /\ files' \in [Keys -> 1 .. MaxRuns \cup {Absent, Torn}]
      /\ files \in [Keys -> 1 .. MaxRuns \cup {Absent, Torn}]
  BY <1>1, <1>2, <1>4 DEF TypeOK
<1>8. emitted' \subseteq given.keys \ SideFiles
  BY <1>2, <1>4, <1>5
<1>9. \A e \in emitted' : files'[e] = run
  BY <1>2, <1>4, <1>5, <1>7
<1>10. TypeOK'
  <2>1. StepOK'
    BY <1>1, <1>2, <1>3 DEF StepOK
  <2>2. QED
    BY <1>1, <1>2, <1>3, <1>4, <1>7, <1>8, <2>1 DEF TypeOK, StepOK
<1>11. EmittedSoFar' /\ Started'
  BY <1>1, <1>2, <1>3, <1>6, <1>8 DEF EmittedSoFar, Started
<1>12. Loose' /\ NoFormIsLost'
  BY <1>3, <1>9 DEF Loose, NoFormIsLost
<1>13. Held' /\ Pruned'
  BY <1>2 DEF Held, Pruned
<1>14. WholePackets'
  BY <1>1, <1>2, SamePackets
<1>15. QED
  BY <1>10, <1>11, <1>12, <1>13, <1>14 DEF IInv

\* The forms are out: assembly begins.
LEMMA EmitDoneInv == ASSUME IInv, EmitDone PROVE IInv'
<1> DEFINE P == Plan(given)
<1>1. /\ TypeOK /\ WholePackets /\ NoFormIsLost /\ run \in 1 .. MaxRuns /\ given \in Returns
      /\ pc = "emit" /\ step = Len(P) + 1 /\ Len(P) \in Nat
  <2>1. TypeOK /\ WholePackets /\ NoFormIsLost /\ run >= 1 /\ pc = "emit" /\ step > Len(P)
    BY DEF IInv, Started, EmitDone
  <2>2. run \in 1 .. MaxRuns /\ given \in Returns
    BY <2>1, Current
  <2>3. Len(P) \in Nat
    BY <2>2, PlanIs DEF Spans, ListsOnce
  <2>4. step \in 1 .. Len(P) + 1
    BY <2>1, StepIs
  <2> HIDE DEF P
  <2>5. QED
    BY <2>1, <2>2, <2>3, <2>4
<1>2. /\ pc' = "assemble" /\ step' = 1
      /\ UNCHANGED <<returns, emitted, files, packets, shown>>
  BY DEF EmitDone, Go
<1>3. run' = run /\ given' = given /\ EmittedOrder' = EmittedOrder
  BY <1>2, SameReturn
<1>4. emitted = given.keys \ SideFiles
  <2>1. emitted = {P[i] : i \in 1 .. step - 1} \ SideFiles
    BY <1>1 DEF IInv, EmittedSoFar
  <2>2. 1 .. step - 1 = 1 .. Len(P)
    BY <1>1
  <2>3. {P[i] : i \in 1 .. Len(P)} = given.keys
    BY <1>1, PlanIs DEF Spans, ListsOnce
  <2> HIDE DEF P
  <2>4. QED
    BY <2>1, <2>2, <2>3
<1>5. \A k \in emitted : files[k] = run
  BY <1>1 DEF IInv, Loose
<1>6. TypeOK'
  <2>1. StepOK'
    BY <1>2 DEF StepOK
  <2>2. QED
    BY <1>1, <1>2, <1>3, <2>1, PacketsAre DEF TypeOK, StepOK
<1>7. (Started /\ EmittedSoFar /\ Loose /\ Pruned)'
  BY <1>1, <1>2, <1>3, <1>4, <1>5 DEF Started, EmittedSoFar, Loose, Pruned
<1>8. Held'
  BY <1>2 DEF Held
<1>9. WholePackets' /\ NoFormIsLost'
  BY <1>1, <1>2, <1>3, SamePackets DEF NoFormIsLost
<1>10. QED
  BY <1>6, <1>7, <1>8, <1>9 DEF IInv

\* One packet is assembled.
LEMMA AssemblePacketInv == ASSUME IInv, AssemblePacket PROVE IInv'
<1> DEFINE i == step
           name == Packets[i].name
           q == OrderedMembers(emitted, Packets[i])
<1>1. /\ TypeOK /\ WholePackets /\ Held /\ run \in 1 .. MaxRuns /\ given \in Returns
      /\ pc = "assemble" /\ step \in 1 .. 4
  <2>1. TypeOK /\ WholePackets /\ Held /\ run >= 1 /\ pc = "assemble" /\ step <= 4
    BY PacketsAre DEF IInv, Started, AssemblePacket
  <2>2. run \in 1 .. MaxRuns /\ given \in Returns
    BY <2>1, Current
  <2>3. step \in 1 .. 5
    BY <2>1, StepIs
  <2>4. QED
    BY <2>1, <2>2, <2>3
<1>2. AllEmitted
  BY <1>1 DEF IInv, EmittedSoFar, Loose, AllEmitted
<1>3. /\ pc' = pc /\ step' = step + 1 /\ returns' = returns /\ emitted' = emitted
      /\ files' = files /\ shown' = shown
      /\ packets' = IF q = <<>> THEN packets ELSE [packets EXCEPT ![name] = Assembled(i)]
  BY DEF AssemblePacket, Assembled, Pages
<1>4. run' = run /\ given' = given /\ EmittedOrder' = EmittedOrder
  BY <1>3, SameReturn
<1>5. /\ name \in PacketNames
      /\ \A j \in 1 .. 4 : Packets[j].name = name => j = i
      /\ packets \in [PacketNames -> {Absent, Torn} \cup Seq(Entries)]
  BY <1>1, NamesAre DEF TypeOK
<1>6. q # <<>> =>
        /\ Assembled(i) \in Seq(Entries) /\ IsFiling(Assembled(i), name, given, run)
        /\ Assembled(i) \notin {Absent, Torn}
        /\ \A k \in Claimed(emitted, Packets[i]) : <<k, run>> \in ToSet(Assembled(i))
  <2> SUFFICES ASSUME q # <<>>
               PROVE  /\ Assembled(i) \in Seq(Entries)
                      /\ IsFiling(Assembled(i), name, given, run)
                      /\ Assembled(i) \notin {Absent, Torn}
                      /\ \A k \in Claimed(emitted, Packets[i]) : <<k, run>> \in ToSet(Assembled(i))
    OBVIOUS
  <2>1. /\ Assembled(i) \in Seq(Entries)
        /\ IsFiling(Assembled(i), name, given, run)
        /\ \A k \in Claimed(emitted, Packets[i]) : <<k, run>> \in ToSet(Assembled(i))
    BY <1>1, <1>2, AssembledIs
  <2>2. QED
    BY <2>1, ReturnsAssumption
<1>7. q = <<>> => Claimed(emitted, Packets[i]) = {}
  BY <1>1, <1>2, NothingClaimed
<1>8. \A k \in emitted' : files'[k] = run'
  BY <1>2, <1>3, <1>4 DEF AllEmitted
<1> HIDE DEF q, name
<1>9. packets' \in [PacketNames -> {Absent, Torn} \cup Seq(Entries)]
  BY <1>3, <1>5, <1>6
<1>10. /\ \A p \in PacketNames : p # name => packets'[p] = packets[p]
       /\ q # <<>> => packets'[name] = Assembled(i)
       /\ q = <<>> => packets' = packets
  BY <1>3, <1>5
<1>11. TypeOK'
  <2>1. StepOK'
    BY <1>1, <1>3 DEF StepOK
  <2>2. QED
    BY <1>1, <1>3, <1>4, <1>9, <2>1, PacketsAre DEF TypeOK, StepOK
<1>12. (Started /\ EmittedSoFar /\ Loose /\ Pruned)'
  BY <1>1, <1>2, <1>3, <1>4, <1>8 DEF Started, EmittedSoFar, Loose, Pruned, AllEmitted
<1>13. Held'
  <2> SUFFICES ASSUME NEW j \in 1 .. 4, j < step + 1, NEW k \in Claimed(emitted, Packets[j])
               PROVE  InPacket(k, Packets[j].name)'
    BY <1>1, <1>3 DEF Held
  <2>1. Packets[j].name \in PacketNames
    BY NamesAre
  <2>2. CASE j # i
    <3>1. j < step
      BY <1>1, <2>2
    <3>2. InPacket(k, Packets[j].name)
      BY <1>1, <3>1 DEF Held
    <3>3. packets'[Packets[j].name] = packets[Packets[j].name]
      BY <1>5, <1>10, <2>1, <2>2
    <3>4. QED
      BY <1>4, <3>2, <3>3 DEF InPacket
  <2>3. CASE j = i
    <3>1. q # <<>>
      BY <1>7, <2>3
    <3>2. /\ packets'[name] = Assembled(i) /\ Assembled(i) \notin {Absent, Torn}
          /\ <<k, run>> \in ToSet(Assembled(i))
      BY <1>6, <1>10, <2>3, <3>1
    <3>3. Packets[j].name = name
      BY <2>3 DEF name
    <3>4. QED
      BY <1>4, <3>2, <3>3 DEF InPacket
  <2>4. QED
    BY <2>2, <2>3
<1>14. WholePackets'
  <2> SUFFICES ASSUME NEW p \in PacketNames, packets'[p] \notin {Absent, Torn}
               PROVE  \E r \in 1 .. run : IsFiling(packets'[p], p, returns[r], r)
    BY <1>3, <1>4 DEF WholePackets
  <2>1. CASE p = name /\ q # <<>>
    <3>1. IsFiling(packets'[p], p, returns[run], run)
      BY <1>6, <1>10, <2>1 DEF given
    <3>2. run \in 1 .. run
      BY <1>1
    <3>3. QED
      BY <3>1, <3>2
  <2>2. CASE ~(p = name /\ q # <<>>)
    <3>1. packets'[p] = packets[p]
      BY <1>10, <2>2
    <3>2. QED
      BY <1>1, <3>1 DEF WholePackets
  <2>3. QED
    BY <2>1, <2>2
<1>15. NoFormIsLost'
  BY <1>8 DEF NoFormIsLost
<1>16. QED
  BY <1>11, <1>12, <1>13, <1>14, <1>15 DEF IInv

----------------------------------------------------------------------------
(* The steps that remove, and the theorems.                                *)

\* Every packet is assembled: pruning begins.
LEMMA AssembleDoneInv == ASSUME IInv, AssembleDone PROVE IInv'
<1>1. /\ TypeOK /\ WholePackets /\ NoFormIsLost /\ Held /\ run \in 1 .. MaxRuns /\ given \in Returns
      /\ pc = "assemble" /\ step > 4 /\ step \in Nat
  <2>1. TypeOK /\ WholePackets /\ NoFormIsLost /\ Held /\ run >= 1 /\ pc = "assemble" /\ step > 4
    BY PacketsAre DEF IInv, Started, AssembleDone
  <2>2. run \in 1 .. MaxRuns /\ given \in Returns
    BY <2>1, Current
  <2>3. step \in 1 .. 5
    BY <2>1, StepIs
  <2>4. QED
    BY <2>1, <2>2, <2>3
<1>2. /\ pc' = "prune" /\ step' = 1
      /\ UNCHANGED <<returns, emitted, files, packets, shown>>
  BY DEF AssembleDone, Go
<1>3. run' = run /\ given' = given /\ EmittedOrder' = EmittedOrder
  BY <1>2, SameReturn
<1>4. AllEmitted
  BY <1>1 DEF IInv, EmittedSoFar, Loose, AllEmitted
<1>5. /\ Len(EmittedOrder) \in Nat
      /\ \A j \in 1 .. Len(EmittedOrder) : EmittedOrder[j] \in emitted
  <2>1. Spans(EmittedOrder, given.keys \ SideFiles)
    BY <1>1, EmittedOrderIs
  <2>2. QED
    BY <1>4, <2>1 DEF Spans, ListsOnce, AllEmitted
<1>6. TypeOK'
  <2>1. StepOK'
    BY <1>2, <1>3, <1>5 DEF StepOK
  <2>2. QED
    BY <1>1, <1>2, <1>3, <2>1, PacketsAre DEF TypeOK, StepOK
<1>7. (Started /\ EmittedSoFar /\ Loose)'
  BY <1>1, <1>2, <1>3, <1>4 DEF Started, EmittedSoFar, Loose, AllEmitted
<1>8. Pruned'
  <2>1. \A j \in 1 .. Len(EmittedOrder) : ~(j < 1) /\ files[EmittedOrder[j]] = run
    BY <1>4, <1>5 DEF AllEmitted
  <2>2. QED
    BY <1>2, <1>3, <2>1 DEF Pruned
<1>9. Held'
  <2>1. \A j \in 1 .. 4 : j < step
    BY <1>1
  <2>2. \A j \in 1 .. 4 : \A k \in Claimed(emitted, Packets[j]) : InPacket(k, Packets[j].name)
    BY <1>1, <2>1 DEF Held
  <2>3. QED
    BY <1>2, <1>3, <2>2 DEF Held, InPacket
<1>10. WholePackets' /\ NoFormIsLost'
  BY <1>1, <1>2, <1>3, SamePackets DEF NoFormIsLost
<1>11. QED
  BY <1>6, <1>7, <1>8, <1>9, <1>10 DEF IInv

\* A form that went into a packet is removed.
LEMMA PruneInv == ASSUME IInv, Prune PROVE IInv'
<1> DEFINE k == EmittedOrder[step]
           N == Len(EmittedOrder)
<1>1. /\ TypeOK /\ WholePackets /\ NoFormIsLost /\ Held /\ run \in 1 .. MaxRuns /\ given \in Returns
      /\ pc = "prune" /\ step \in 1 .. N /\ N \in Nat
      /\ emitted = given.keys \ SideFiles
      /\ \A j \in 1 .. N : files[EmittedOrder[j]] = IF j < step /\ Filed(EmittedOrder[j]) THEN Absent ELSE run
  <2>1. TypeOK /\ WholePackets /\ NoFormIsLost /\ Held /\ run >= 1 /\ pc = "prune" /\ step <= N
    BY DEF IInv, Started, Prune
  <2>2. run \in 1 .. MaxRuns /\ given \in Returns
    BY <2>1, Current
  <2>3. N \in Nat
    BY <2>2, EmittedOrderIs DEF Spans, ListsOnce
  <2>4. step \in 1 .. N + 1
    BY <2>1, StepIs
  <2>5. emitted = given.keys \ SideFiles
    BY <2>1 DEF IInv, EmittedSoFar
  <2>6. \A j \in 1 .. N : files[EmittedOrder[j]] = IF j < step /\ Filed(EmittedOrder[j]) THEN Absent ELSE run
    BY <2>1 DEF IInv, Pruned
  <2> HIDE DEF N
  <2>7. QED
    BY <2>1, <2>2, <2>3, <2>4, <2>5, <2>6
<1>2. /\ \A j \in 1 .. N : EmittedOrder[j] \in emitted
      /\ \A j, l \in 1 .. N : EmittedOrder[j] = EmittedOrder[l] => j = l
  BY <1>1, EmittedOrderIs DEF Spans, ListsOnce
<1>3. k \in emitted /\ k \in Keys
  <2>1. given.keys \subseteq Keys
    BY <1>1, PlanIs
  <2>2. QED
    BY <1>1, <1>2, <2>1
<1>4. ClassifyKey(k) \in {"none", "standalone"} <=> ~Filed(k)
  <2> HIDE DEF k
  <2>1. QED
    BY <1>3, ClassifiedIs DEF Filed
<1>5. /\ pc' = pc /\ step' = step + 1 /\ returns' = returns /\ emitted' = emitted
      /\ packets' = packets /\ shown' = shown
      /\ files' = IF ~Filed(k) THEN files ELSE [files EXCEPT ![k] = Absent]
  BY <1>4 DEF Prune
<1>6. run' = run /\ given' = given /\ EmittedOrder' = EmittedOrder
  BY <1>5, SameReturn
<1>7. files \in [Keys -> 1 .. MaxRuns \cup {Absent, Torn}]
  BY <1>1 DEF TypeOK
<1> HIDE DEF k
<1>8. /\ files' \in [Keys -> 1 .. MaxRuns \cup {Absent, Torn}]
      /\ \A e \in Keys : e # k => files'[e] = files[e]
      /\ Filed(k) => files'[k] = Absent
      /\ ~Filed(k) => files' = files
  BY <1>3, <1>5, <1>7
<1>9. TypeOK'
  <2>1. StepOK'
    BY <1>1, <1>5, <1>6 DEF StepOK
  <2>2. QED
    BY <1>1, <1>5, <1>6, <1>8, <2>1, PacketsAre DEF TypeOK, StepOK
<1>10. (Started /\ EmittedSoFar /\ Loose)'
  BY <1>1, <1>5, <1>6 DEF Started, EmittedSoFar, Loose
<1>11. Held'
  BY <1>1, <1>5, <1>6 DEF Held, InPacket
<1>12. WholePackets'
  BY <1>1, <1>5, SamePackets
<1>13. NoFormIsLost'
  <2> SUFFICES ASSUME NEW e \in emitted
               PROVE  files'[e] = run \/ \E p \in PacketNames : InPacket(e, p)
    BY <1>5, <1>6 DEF NoFormIsLost, InPacket
  <2>1. emitted \subseteq Keys
    BY <1>1 DEF TypeOK
  <2>2. CASE e # k \/ ~Filed(k)
    <3>1. files'[e] = files[e]
      BY <1>8, <2>1, <2>2
    <3>2. QED
      BY <1>1, <3>1 DEF NoFormIsLost, InPacket
  <2>3. CASE e = k /\ Filed(k)
    <3>1. PICK i \in 1 .. 4 : k.base \in Bases(Packets[i])
      BY <2>3 DEF Filed
    <3>2. e \in Claimed(emitted, Packets[i])
      BY <2>3, <3>1 DEF Claimed
    <3>3. InPacket(e, Packets[i].name)
      BY <1>1, <3>2 DEF Held
    <3>4. Packets[i].name \in PacketNames
      BY NamesAre
    <3>5. QED
      BY <3>3, <3>4
  <2>4. QED
    BY <2>2, <2>3
<1>14. Pruned'
  <2> SUFFICES ASSUME NEW j \in 1 .. N
               PROVE  files'[EmittedOrder[j]]
                        = IF j < step + 1 /\ Filed(EmittedOrder[j]) THEN Absent ELSE run
    BY <1>1, <1>5, <1>6 DEF Pruned, N
  <2>1. files[EmittedOrder[j]] = IF j < step /\ Filed(EmittedOrder[j]) THEN Absent ELSE run
    BY <1>1
  <2>2. EmittedOrder[j] \in Keys
    BY <1>1, <1>2 DEF TypeOK
  <2>3. CASE j = step
    <3>1. EmittedOrder[j] = k /\ j < step + 1 /\ ~(j < step)
      BY <1>1, <2>3 DEF k
    <3>2. QED
      BY <1>8, <2>1, <3>1
  <2>4. CASE j # step
    <3>1. EmittedOrder[j] # k
      BY <1>1, <1>2, <2>4 DEF k
    <3>2. j < step + 1 <=> j < step
      BY <1>1, <2>4
    <3>3. QED
      BY <1>8, <2>1, <2>2, <3>1, <3>2
  <2>5. QED
    BY <2>3, <2>4
<1>15. QED
  BY <1>9, <1>10, <1>11, <1>12, <1>13, <1>14 DEF IInv

\* The command reports.
LEMMA ReportInv == ASSUME IInv, Report PROVE IInv'
<1> DEFINE N == Len(EmittedOrder)
<1>1. /\ TypeOK /\ WholePackets /\ NoFormIsLost /\ Held /\ run \in 1 .. MaxRuns /\ given \in Returns
      /\ pc = "prune" /\ step > N /\ step \in Nat
      /\ emitted = given.keys \ SideFiles
      /\ \A j \in 1 .. N : files[EmittedOrder[j]] = IF j < step /\ Filed(EmittedOrder[j]) THEN Absent ELSE run
  <2>1. TypeOK /\ WholePackets /\ NoFormIsLost /\ Held /\ run >= 1 /\ pc = "prune" /\ step > N
    BY DEF IInv, Started, Report
  <2>2. run \in 1 .. MaxRuns /\ given \in Returns
    BY <2>1, Current
  <2>3. step \in 1 .. N + 1
    BY <2>1, StepIs
  <2>4. emitted = given.keys \ SideFiles
    BY <2>1 DEF IInv, EmittedSoFar
  <2>5. \A j \in 1 .. N : files[EmittedOrder[j]] = IF j < step /\ Filed(EmittedOrder[j]) THEN Absent ELSE run
    BY <2>1 DEF IInv, Pruned
  <2> HIDE DEF N
  <2>6. QED
    BY <2>1, <2>2, <2>3, <2>4, <2>5
<1>2. /\ pc' = "done" /\ step' = 1 /\ shown' \in BOOLEAN
      /\ UNCHANGED <<returns, emitted, files, packets>>
  BY DEF Report, Go
<1>3. run' = run /\ given' = given /\ EmittedOrder' = EmittedOrder
  BY <1>2, SameReturn
<1>4. N \in Nat /\ \A k \in emitted : \E j \in 1 .. N : EmittedOrder[j] = k
  BY <1>1, EmittedOrderIs DEF Spans, ListsOnce
<1>5. TypeOK'
  <2>1. StepOK'
    BY <1>2 DEF StepOK
  <2>2. QED
    BY <1>1, <1>2, <1>3, <2>1, PacketsAre DEF TypeOK, StepOK
<1>6. (Started /\ EmittedSoFar /\ Loose)'
  BY <1>1, <1>2, <1>3 DEF Started, EmittedSoFar, Loose
<1>7. Held'
  BY <1>1, <1>2, <1>3 DEF Held, InPacket
<1>8. Pruned'
  <2> SUFFICES ASSUME NEW k \in emitted
               PROVE  files[k] = IF Filed(k) THEN Absent ELSE run
    BY <1>2, <1>3 DEF Pruned
  <2>1. PICK j \in 1 .. N : EmittedOrder[j] = k
    BY <1>4
  <2>2. j < step
    BY <1>1, <1>4
  <2>3. QED
    BY <1>1, <2>1, <2>2
<1>9. WholePackets' /\ NoFormIsLost'
  BY <1>1, <1>2, <1>3, SamePackets DEF NoFormIsLost
<1>10. QED
  BY <1>5, <1>6, <1>7, <1>8, <1>9 DEF IInv

\* Something raises.
LEMMA RefuseInv == ASSUME IInv, Refuse PROVE IInv'
<1>1. /\ pc' = "refused" /\ step' = 1 /\ UNCHANGED <<returns, emitted, files, packets, shown>>
      /\ pc \in {"emit", "assemble"}
  BY DEF Refuse, Go
<1>2. TypeOK /\ Started /\ EmittedSoFar /\ WholePackets /\ NoFormIsLost
  BY DEF IInv
<1>3. run' = run /\ given' = given /\ EmittedOrder' = EmittedOrder
  BY <1>1, SameReturn
<1>4. TypeOK'
  <2>1. StepOK'
    BY <1>1 DEF StepOK
  <2>2. QED
    BY <1>1, <1>2, <1>3, <2>1, PacketsAre DEF TypeOK, StepOK
<1>5. (Started /\ EmittedSoFar /\ Loose /\ Held /\ Pruned)'
  BY <1>1, <1>2, <1>3 DEF Started, EmittedSoFar, Loose, Held, Pruned
<1>6. WholePackets' /\ NoFormIsLost'
  BY <1>1, <1>2, <1>3, SamePackets DEF NoFormIsLost
<1>7. QED
  BY <1>4, <1>5, <1>6 DEF IInv

\* The process dies.
LEMMA CrashInv == ASSUME IInv, Crash PROVE IInv'
<1> DEFINE k == Plan(given)[step]
           name == Packets[step].name
<1>1. /\ pc' = "idle" /\ step' = 1 /\ UNCHANGED <<returns, emitted, shown>>
      /\ pc \in {"emit", "assemble", "prune"}
      /\ \/ UNCHANGED <<files, packets>>
         \/ /\ pc = "emit" /\ step <= Len(Plan(given)) /\ packets' = packets
            /\ files' = [files EXCEPT ![k] = Torn]
         \/ /\ pc = "assemble" /\ step <= 4 /\ files' = files
            /\ packets' = [packets EXCEPT ![name] = Torn]
  BY PacketsAre DEF Crash, Go
<1>2. TypeOK /\ Started /\ EmittedSoFar /\ Loose /\ WholePackets /\ NoFormIsLost
  BY DEF IInv
<1>3. run' = run /\ given' = given /\ EmittedOrder' = EmittedOrder
  BY <1>1, SameReturn
<1>4. run \in 1 .. MaxRuns /\ given \in Returns
  BY <1>1, <1>2, Current DEF Started
<1>5. /\ files \in [Keys -> 1 .. MaxRuns \cup {Absent, Torn}]
      /\ packets \in [PacketNames -> {Absent, Torn} \cup Seq(Entries)]
      /\ emitted \subseteq Keys
  BY <1>2 DEF TypeOK
<1>6. files' \in [Keys -> 1 .. MaxRuns \cup {Absent, Torn}]
  <2> HIDE DEF k
  <2>1. QED
    BY <1>1, <1>5
<1>7. /\ packets' \in [PacketNames -> {Absent, Torn} \cup Seq(Entries)]
      /\ \A p \in PacketNames : packets'[p] = packets[p] \/ packets'[p] = Torn
      /\ pc # "assemble" => packets' = packets
  <2> HIDE DEF name
  <2>1. QED
    BY <1>1, <1>5
<1>8. TypeOK'
  <2>1. StepOK'
    BY <1>1 DEF StepOK
  <2>2. QED
    BY <1>1, <1>2, <1>3, <1>6, <1>7, <2>1, PacketsAre DEF TypeOK, StepOK
<1>9. (Started /\ EmittedSoFar /\ Loose /\ Held /\ Pruned)'
  BY <1>1, <1>2, <1>3 DEF Started, EmittedSoFar, Loose, Held, Pruned
<1>10. WholePackets'
  BY <1>1, <1>2, <1>3, <1>7 DEF WholePackets
<1>11. NoFormIsLost'
  <2>1. CASE pc = "prune"
    BY <1>1, <1>2, <1>3, <2>1 DEF NoFormIsLost
  <2>2. CASE pc \in {"emit", "assemble"}
    <3>1. \A e \in emitted : files[e] = run
      BY <1>2, <2>2 DEF Loose
    <3>2. pc = "emit" /\ step <= Len(Plan(given)) => k \notin emitted
      <4> SUFFICES ASSUME pc = "emit", step <= Len(Plan(given)), k \in emitted PROVE FALSE
        OBVIOUS
      <4>1. PICK i \in 1 .. step - 1 : Plan(given)[i] = k
        BY <1>2 DEF EmittedSoFar
      <4>2. /\ \A i1, j \in 1 .. Len(Plan(given)) : Plan(given)[i1] = Plan(given)[j] => i1 = j
            /\ Len(Plan(given)) \in Nat
        BY <1>4, PlanIs DEF Spans, ListsOnce
      <4>3. step \in 1 .. Len(Plan(given)) + 1
        BY <1>2, StepIs
      <4>4. i \in 1 .. Len(Plan(given)) /\ step \in 1 .. Len(Plan(given)) /\ i # step
        BY <4>2, <4>3
      <4>5. QED
        BY <4>1, <4>2, <4>4
    <3> HIDE DEF k
    <3>3. \A e \in emitted : files'[e] = files[e]
      BY <1>1, <1>5, <3>2
    <3>4. QED
      BY <1>1, <1>3, <3>1, <3>3 DEF NoFormIsLost
  <2>3. QED
    BY <1>1, <2>1, <2>2
<1>12. QED
  BY <1>8, <1>9, <1>10, <1>11 DEF IInv

\* Every step keeps the invariant.
LEMMA NextInv == IInv /\ [Next]_vars => IInv'
<1> SUFFICES ASSUME IInv, [Next]_vars PROVE IInv'
  OBVIOUS
<1>1. CASE UNCHANGED vars
  <2>1. /\ UNCHANGED <<pc, returns, step, emitted, files, packets, shown>>
        /\ run' = run /\ given' = given /\ EmittedOrder' = EmittedOrder
    BY <1>1, SameReturn DEF vars
  <2>2. TypeOK /\ Started /\ EmittedSoFar /\ Loose /\ Held /\ Pruned /\ WholePackets /\ NoFormIsLost
    BY DEF IInv
  <2>3. TypeOK'
    BY <2>1, <2>2 DEF TypeOK
  <2>4. (Started /\ EmittedSoFar /\ Loose)'
    BY <2>1, <2>2 DEF Started, EmittedSoFar, Loose
  <2>5. (Held /\ Pruned)'
    BY <2>1, <2>2 DEF Held, Pruned, InPacket
  <2>6. (WholePackets /\ NoFormIsLost)'
    BY <2>1, <2>2 DEF WholePackets, NoFormIsLost
  <2>7. QED
    BY <2>3, <2>4, <2>5, <2>6 DEF IInv
<1>2. CASE \E c \in Returns : Start(c)
  BY <1>2, StartInv
<1>3. CASE Emit
  BY <1>3, EmitInv
<1>4. CASE EmitDone
  BY <1>4, EmitDoneInv
<1>5. CASE AssemblePacket
  BY <1>5, AssemblePacketInv
<1>6. CASE AssembleDone
  BY <1>6, AssembleDoneInv
<1>7. CASE Prune
  BY <1>7, PruneInv
<1>8. CASE Report
  BY <1>8, ReportInv
<1>9. CASE Refuse
  BY <1>9, RefuseInv
<1>10. CASE Crash
  BY <1>10, CrashInv
<1>11. QED
  BY <1>1, <1>2, <1>3, <1>4, <1>5, <1>6, <1>7, <1>8, <1>9, <1>10 DEF Next

\* A page of a run is a form of its filing.
LEMMA PagesBelong ==
  ASSUME TypeOK, WholePackets, NEW p \in PacketNames, NEW k, run \in 1 .. MaxRuns,
         packets[p] \notin {Absent, Torn}, <<k, run>> \in ToSet(packets[p])
  PROVE  Belongs(k, p)
<1> DEFINE packet == packets[p]
           N == Len(packet)
<1>1. packet \in Seq(Entries) /\ N \in Nat /\ DOMAIN packet = 1 .. N
  <2>1. packet \in Seq(Entries)
    BY DEF TypeOK
  <2> HIDE DEF packet
  <2>2. QED
    BY <2>1
<1>2. PICK r \in 1 .. run : IsFiling(packet, p, returns[r], r)
  BY DEF WholePackets
<1> DEFINE c == returns[r]
           S == {i \in DOMAIN c.docs : p \in c.docs[i]}
           n == Cardinality(S)
           form(i) == packet[IF i = 1 THEN 1 ELSE i + n]
<1>3. IsFiniteSet(S)
  <2>1. c \in Returns
    BY <1>2 DEF TypeOK, run
  <2>2. c.docs \in Seq(Docs)
    BY <2>1, ReturnsAssumption DEF Coherent
  <2>3. S \subseteq 1 .. Len(c.docs) /\ Len(c.docs) \in Nat
    BY <2>2
  <2> DEFINE M == Len(c.docs)
  <2>4. S \in SUBSET (1 .. M) /\ M \in Nat
    BY <2>3
  <2> HIDE DEF S, M
  <2>5. IsFiniteSet(1 .. M)
    BY <2>4, FS_Interval
  <2>6. QED
    BY <2>4, <2>5, FS_Subset
<1>4. /\ 1 .. N - n # {}
      /\ {form(i) : i \in 1 .. N - n} = {<<f, r>> : f \in {g \in c.keys : Belongs(g, p)}}
      /\ {packet[i + 1] : i \in 1 .. n} = {<<DocKey(d), Source>> : d \in S}
  BY <1>2 DEF IsFiling
<1>5. n \in Nat
  BY <1>3, FS_CardinalityType
<1>6. PICK j \in 1 .. N : packet[j] = <<k, run>>
  BY <1>1 DEF ToSet
<1> HIDE DEF packet, N, S, n, c
<1>7. \A i \in 1 .. n : \E d \in S : packet[i + 1] = <<DocKey(d), Source>>
  BY <1>4
<1>8. Source # run
  BY ReturnsAssumption
<1>9. ~(j - 1 \in 1 .. n)
  <2> SUFFICES ASSUME j - 1 \in 1 .. n PROVE FALSE
    OBVIOUS
  <2>1. PICK d \in S : packet[(j - 1) + 1] = <<DocKey(d), Source>>
    BY <1>7
  <2>2. (j - 1) + 1 = j
    BY <1>1
  <2>3. QED
    BY <1>6, <1>8, <2>1, <2>2
<1>10. \E i \in 1 .. N - n : form(i) = <<k, run>>
  <2>1. 1 \in 1 .. N - n
    BY <1>1, <1>4, <1>5
  <2>2. CASE j = 1
    <3>1. form(1) = <<k, run>>
      BY <1>6, <2>2
    <3>2. QED
      BY <2>1, <3>1
  <2>3. CASE j # 1
    <3>1. j - n \in 1 .. N - n /\ j - n # 1 /\ (j - n) + n = j
      BY <1>1, <1>5, <1>9, <2>3
    <3>2. form(j - n) = <<k, run>>
      BY <1>6, <3>1
    <3>3. QED
      BY <3>1, <3>2
  <2>4. QED
    BY <2>2, <2>3
<1> HIDE DEF form
<1>11. \E f \in {g \in c.keys : Belongs(g, p)} : <<k, run>> = <<f, r>>
  BY <1>4, <1>10
<1>12. QED
  BY <1>11

\* A command that finished leaves each form in one place.
LEMMA FiledIs == IInv => FiledOnce
<1> SUFFICES ASSUME IInv, pc = "done", NEW k \in emitted
             PROVE  LET in == {p \in PacketNames : packets[p] \notin {Absent, Torn}
                                     /\ <<k, run>> \in ToSet(packets[p])}
                    IN IF \E p \in PacketNames : Belongs(k, p)
                       THEN files[k] = Absent /\ Cardinality(in) = 1
                       ELSE files[k] = run /\ in = {}
  BY DEF FiledOnce
<1> DEFINE in == {p \in PacketNames : packets[p] \notin {Absent, Torn}
                                     /\ <<k, run>> \in ToSet(packets[p])}
<1>1. TypeOK /\ WholePackets /\ Held /\ run \in 1 .. MaxRuns
      /\ files[k] = IF Filed(k) THEN Absent ELSE run
  <2>1. TypeOK /\ WholePackets /\ Held /\ run >= 1
        /\ files[k] = IF Filed(k) THEN Absent ELSE run
    BY DEF IInv, Started, Pruned
  <2>2. QED
    BY <2>1, Current
<1>2. \A i \in 1 .. 4 : Belongs(k, Packets[i].name) <=> k.base \in Bases(Packets[i])
  BY Tables, BelongsIs
<1>3. \A p \in in : Belongs(k, p)
  BY <1>1, PagesBelong
<1>4. \A p \in PacketNames : \E i \in 1 .. 4 : p = Packets[i].name
  BY NamesAre
<1>5. (\E p \in PacketNames : Belongs(k, p)) <=> Filed(k)
  BY <1>2, <1>4, NamesAre DEF Filed
<1>6. CASE ~Filed(k)
  <2>1. in = {}
    BY <1>3, <1>5, <1>6
  <2>2. QED
    BY <1>1, <1>5, <1>6, <2>1
<1>7. CASE Filed(k)
  <2>1. PICK i \in 1 .. 4 : k.base \in Bases(Packets[i])
    BY <1>7 DEF Filed
  <2> DEFINE home == Packets[i].name
  <2>2. home \in in
    <3>1. k \in Claimed(emitted, Packets[i])
      BY <2>1 DEF Claimed
    <3>2. InPacket(k, home)
      BY <1>1, <3>1 DEF Held
    <3>3. home \in PacketNames
      BY NamesAre
    <3>4. QED
      BY <3>2, <3>3 DEF InPacket
  <2>3. \A p \in in : p = home
    <3> SUFFICES ASSUME NEW p \in in PROVE p = home
      OBVIOUS
    <3>1. PICK j \in 1 .. 4 : p = Packets[j].name
      BY <1>4
    <3>2. k.base \in Bases(Packets[j])
      BY <1>2, <1>3, <3>1
    <3>3. j = i
      BY <2>1, <3>2, PacketsApart
    <3>4. QED
      BY <3>1, <3>3
  <2> HIDE DEF home, in
  <2>4. in = {home}
    BY <2>2, <2>3
  <2>5. Cardinality(in) = 1
    BY <2>4, FS_Singleton
  <2>6. QED
    BY <1>1, <1>5, <1>7, <2>5 DEF in
<1>8. QED
  BY <1>6, <1>7

\* The invariant holds in every run.
THEOREM RunInv == Spec => []IInv
<1>1. Init => IInv
  BY InitInv
<1>2. IInv /\ [Next]_vars => IInv'
  BY NextInv
<1>3. QED
  BY <1>1, <1>2, PTL DEF Spec

\* The state is well formed: packets are sequences of forms and documents.
THEOREM RunTyped == Spec => []TypeOK
<1>1. IInv => TypeOK
  BY DEF IInv
<1>2. QED
  BY <1>1, RunInv, PTL

\* From the moment a run has emitted a form it is a loose file or a page of a whole
\* packet, through assembly, pruning, refusals and crashes.
THEOREM NothingLost == Spec => []NoFormIsLost
<1>1. IInv => NoFormIsLost
  BY DEF IInv
<1>2. QED
  BY <1>1, RunInv, PTL

\* Every packet that is not half-written is the whole filing of one run, and a command
\* that finished leaves each form in exactly one place.
THEOREM FilingsAreWhole == Spec => []PacketsAreFilings
<1>1. IInv => PacketsAreFilings
  BY FiledIs DEF IInv, PacketsAreFilings
<1>2. QED
  BY <1>1, RunInv, PTL

=============================================================================
