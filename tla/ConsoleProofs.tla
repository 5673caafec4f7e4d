--------------------------- MODULE ConsoleProofs ----------------------------
(***************************************************************************)
(* Proofs about the console's pages, for any tables, texts and bounds:     *)
(* what they promise of their spinners, of what they send and of what a    *)
(* save leaves alone.  None is inductive alone.  A spinner is backed       *)
(* because the calls that are out and the flags of the page are kept in    *)
(* step one by one (KeysInv, RoutesInv, ProvidersInv); what is sent is     *)
(* right because the lists, forms and calls hold good data all along       *)
(* (ProvidersInv, ModelsInv, FailoverInv, TargetsInv); and a save keeps    *)
(* what was left alone because the form, the row and the call agree on it  *)
(* (FormInv, PolicyInv, SettingsInv).  Lists that follow their server are  *)
(* in ConsoleQuietProofs.                                                  *)
(***************************************************************************)
EXTENDS Console, SequenceTheorems, FiniteSetTheorems, TLAPS

(***************************************************************************)
(* Sequences of calls: one is sent, one is answered, one goes on.          *)
(***************************************************************************)
LEMMA SequenceOf ==
  ASSUME NEW S, NEW s \in Seq(S)
  PROVE  IsSequence(s) /\ DOMAIN s = 1..Len(s) /\ Len(s) \in Nat
<1>1. s \in [1..Len(s) -> S] /\ DOMAIN s = 1..Len(s) /\ Len(s) \in Nat
  BY LenProperties
<1> DEFINE T == {s[i] : i \in DOMAIN s}
<1>2. s \in [1..Len(s) -> T]
  BY <1>1
<1>3. s \in Seq(T)
  BY <1>1, <1>2, SeqDef
<1> QED
  BY <1>1, <1>3 DEF IsSequence

LEMMA Appended ==
  ASSUME NEW s, IsSequence(s), NEW e
  PROVE  LET t == Append(s, e) IN
         /\ IsSequence(t) /\ Len(t) = Len(s) + 1 /\ Len(s) \in Nat
         /\ DOMAIN s = 1..Len(s) /\ DOMAIN t = 1..Len(s) + 1
         /\ \A i \in 1..Len(s) : t[i] = s[i]
         /\ t[Len(s) + 1] = e
<1> DEFINE S == {s[i] : i \in DOMAIN s} \cup {e}
<1>1. s \in Seq(S)
  BY SeqMonotonic DEF IsSequence
<1>2. e \in S
  OBVIOUS
<1> HIDE DEF S
<1>3. /\ Append(s, e) \in Seq(S) /\ Len(Append(s, e)) = Len(s) + 1
      /\ \A i \in 1..Len(s) : Append(s, e)[i] = s[i]
      /\ Append(s, e)[Len(s) + 1] = e
  BY <1>1, <1>2, AppendProperties
<1> QED
  BY <1>1, <1>3, SequenceOf

LEMMA Replaced ==
  ASSUME NEW s, IsSequence(s), NEW i \in DOMAIN s, NEW e
  PROVE  LET t == [s EXCEPT ![i] = e] IN
         /\ IsSequence(t) /\ Len(t) = Len(s) /\ DOMAIN t = DOMAIN s
         /\ t[i] = e /\ \A j \in DOMAIN s \ {i} : t[j] = s[j]
<1> DEFINE S == {s[j] : j \in DOMAIN s} \cup {e}
<1>1. s \in Seq(S)
  BY SeqMonotonic DEF IsSequence
<1>2. e \in S
  OBVIOUS
<1> HIDE DEF S
<1>3. i \in 1..Len(s) /\ DOMAIN s = 1..Len(s)
  BY <1>1, LenProperties
<1>4. /\ [s EXCEPT ![i] = e] \in Seq(S) /\ Len([s EXCEPT ![i] = e]) = Len(s)
      /\ \A j \in 1..Len(s) : [s EXCEPT ![i] = e][j] = IF j = i THEN e ELSE s[j]
  BY <1>1, <1>2, <1>3, ExceptSeq
<1> QED
  BY <1>3, <1>4, SequenceOf

(* The sequence without its i-th element. *)
Left(s, i) == SubSeq(s, 1, i - 1) \o SubSeq(s, i + 1, Len(s))

(* The place in s of the j-th element that is left when the i-th is removed. *)
Place(i, j) == IF j < i THEN j ELSE j + 1

LEMMA Removed ==
  ASSUME NEW s, IsSequence(s), NEW i \in DOMAIN s
  PROVE  LET t == Left(s, i) IN
         /\ IsSequence(t) /\ Len(t) = Len(s) - 1 /\ DOMAIN t = 1..Len(s) - 1
         /\ DOMAIN s = 1..Len(s) /\ Len(s) \in Nat
         /\ \A j \in DOMAIN t : Place(i, j) \in DOMAIN s \ {i} /\ t[j] = s[Place(i, j)]
         /\ \A k \in DOMAIN s \ {i} : \E j \in DOMAIN t : Place(i, j) = k /\ t[j] = s[k]
<1> DEFINE S == {s[j] : j \in DOMAIN s}
           u == SubSeq(s, 1, i - 1)
           v == SubSeq(s, i + 1, Len(s))
           t == u \o v
<1>1. s \in Seq(S)
  BY DEF IsSequence
<1>2. i \in 1..Len(s) /\ DOMAIN s = 1..Len(s) /\ Len(s) \in Nat
  BY <1>1, LenProperties
<1>3. \A j \in 1..Len(s) : s[j] \in S
  BY <1>2
<1> HIDE DEF S
<1>4. u \in Seq(S) /\ Len(u) = i - 1 /\ \A j \in 1..i - 1 : u[j] = s[j]
  <2>1. 1 \in Int /\ i - 1 \in Int /\ \A j \in 1..i - 1 : s[j] \in S
    BY <1>2, <1>3
  <2>2. /\ u \in Seq(S) /\ Len(u) = IF 1 <= i - 1 THEN i - 1 - 1 + 1 ELSE 0
        /\ \A j \in 1..i - 1 - 1 + 1 : u[j] = s[1 + j - 1]
    BY <2>1, SubSeqProperties
  <2> QED
    BY <2>2, <1>2
<1>5. v \in Seq(S) /\ Len(v) = Len(s) - i /\ \A j \in 1..Len(s) - i : v[j] = s[i + j]
  <2>1. i + 1 \in Int /\ Len(s) \in Int /\ \A j \in i + 1..Len(s) : s[j] \in S
    BY <1>2, <1>3
  <2>2. /\ v \in Seq(S) /\ Len(v) = IF i + 1 <= Len(s) THEN Len(s) - (i + 1) + 1 ELSE 0
        /\ \A j \in 1..Len(s) - (i + 1) + 1 : v[j] = s[i + 1 + j - 1]
    BY <2>1, SubSeqProperties
  <2> QED
    BY <2>2, <1>2
<1> HIDE DEF u, v
<1>6. /\ t \in Seq(S) /\ Len(t) = Len(u) + Len(v)
      /\ \A j \in 1..Len(u) + Len(v) : t[j] = IF j <= Len(u) THEN u[j] ELSE v[j - Len(u)]
  BY <1>4, <1>5, ConcatProperties
<1> HIDE DEF t
<1>7. IsSequence(t) /\ DOMAIN t = 1..Len(s) - 1 /\ Len(t) = Len(s) - 1
  BY <1>2, <1>4, <1>5, <1>6, SequenceOf
<1>8. ASSUME NEW j \in 1..Len(s) - 1
      PROVE  Place(i, j) \in DOMAIN s \ {i} /\ t[j] = s[Place(i, j)]
  <2>1. CASE j < i
    <3>1. j \in 1..i - 1 /\ j <= Len(u) /\ j \in 1..Len(u) + Len(v)
      BY <1>2, <1>4, <1>5, <2>1
    <3>2. t[j] = u[j] /\ u[j] = s[j]
      BY <1>4, <1>6, <3>1
    <3> QED
      BY <1>2, <2>1, <3>1, <3>2 DEF Place
  <2>2. CASE ~(j < i)
    <3>1. ~(j <= Len(u)) /\ j \in 1..Len(u) + Len(v) /\ j - Len(u) \in 1..Len(s) - i
          /\ i + (j - Len(u)) = j + 1
      BY <1>2, <1>4, <1>5, <2>2
    <3>2. t[j] = v[j - Len(u)] /\ v[j - Len(u)] = s[j + 1]
      BY <1>5, <1>6, <3>1
    <3> QED
      BY <1>2, <2>2, <3>1, <3>2 DEF Place
  <2> QED
    BY <2>1, <2>2
<1>9. ASSUME NEW k \in DOMAIN s \ {i}
      PROVE  \E j \in 1..Len(s) - 1 : Place(i, j) = k
  <2>1. CASE k < i
    BY <1>2, <2>1 DEF Place
  <2>2. CASE k > i
    <3>1. k - 1 \in 1..Len(s) - 1 /\ Place(i, k - 1) = k
      BY <1>2, <2>2 DEF Place
    <3> QED
      BY <3>1
  <2> QED
    BY <1>2, <2>1, <2>2
<1>10. \A k \in DOMAIN s \ {i} : \E j \in DOMAIN t : Place(i, j) = k /\ t[j] = s[k]
  BY <1>7, <1>8, <1>9
<1> QED
  BY <1>2, <1>7, <1>8, <1>10 DEF t, u, v, Left

(***************************************************************************)
(* Lists in an order.                                                      *)
(***************************************************************************)
(* The order of a finite set: B has those that come before each element.     *)
IsOrder(S, B) ==
  /\ \A e \in S : B[e] \in SUBSET S /\ e \notin B[e]
  /\ \A d, e \in S : d \in B[e] => B[d] \subseteq B[e]
  /\ \A d, e \in S : d = e \/ d \in B[e] \/ e \in B[d]

(* The k-th in the order is the one that k - 1 others come before.           *)
Places(S, B) == [k \in 1..Cardinality(S) |-> CHOOSE e \in S : Cardinality(B[e]) = k - 1]

(* Every element has its place, and the places are in the order.             *)
LEMMA OrderedPlaces ==
  ASSUME NEW S, IsFiniteSet(S), NEW B, IsOrder(S, B)
  PROVE  /\ Cardinality(S) \in Nat /\ DOMAIN Places(S, B) = 1..Cardinality(S)
         /\ \A k \in 1..Cardinality(S) :
              Places(S, B)[k] \in S /\ Cardinality(B[Places(S, B)[k]]) = k - 1
         /\ \A e \in S : \E k \in 1..Cardinality(S) : Places(S, B)[k] = e
         /\ \A j, k \in 1..Cardinality(S) :
              j < k => Places(S, B)[j] \in B[Places(S, B)[k]]
         /\ \A j, k \in 1..Cardinality(S) : Places(S, B)[j] = Places(S, B)[k] => j = k
<1> DEFINE n == Cardinality(S)
           place == Places(S, B)
           rank == [e \in S |-> Cardinality(B[e]) + 1]
<1>1. n \in Nat
  BY FS_CardinalityType
<1>2. n = Cardinality(S) /\ place = [k \in 1..n |-> CHOOSE e \in S : Cardinality(B[e]) = k - 1]
  BY DEF Places
<1> HIDE DEF n, place
<1>3. ASSUME NEW e \in S
      PROVE  IsFiniteSet(B[e]) /\ Cardinality(B[e]) \in Nat /\ Cardinality(B[e]) < n
  <2>1. B[e] \in SUBSET S /\ B[e] # S
    BY DEF IsOrder
  <2>2. IsFiniteSet(B[e]) /\ Cardinality(B[e]) <= n /\ n # Cardinality(B[e])
    BY <1>2, <2>1, FS_Subset
  <2>3. Cardinality(B[e]) \in Nat
    BY <2>2, FS_CardinalityType
  <2> QED
    BY <1>1, <2>2, <2>3
<1>4. ASSUME NEW d \in S, NEW e \in S, d \in B[e]
      PROVE  Cardinality(B[d]) < Cardinality(B[e])
  <2>1. B[d] \in SUBSET B[e] /\ B[e] # B[d]
    BY <1>4 DEF IsOrder
  <2>2. Cardinality(B[d]) <= Cardinality(B[e]) /\ Cardinality(B[e]) # Cardinality(B[d])
    BY <1>3, <2>1, FS_Subset
  <2> QED
    BY <1>3, <2>2
<1>5. rank \in Injection(S, 1..n)
  <2>1. \A e \in S : rank[e] = Cardinality(B[e]) + 1 /\ rank[e] \in 1..n
    BY <1>1, <1>3
  <2>2. ASSUME NEW d \in S, NEW e \in S, rank[d] = rank[e]
        PROVE  d = e
    <3>1. Cardinality(B[d]) = Cardinality(B[e])
      BY <1>3, <2>1, <2>2
    <3>2. d \notin B[e] /\ e \notin B[d]
      BY <1>3, <1>4, <3>1
    <3> QED
      BY <3>2 DEF IsOrder
  <2>3. rank \in [S -> 1..n]
    BY <2>1
  <2> HIDE DEF rank
  <2> QED
    BY <2>2, <2>3 DEF Injection, IsInjective
<1>6. IsFiniteSet(1..n) /\ Cardinality(1..n) = n
  BY <1>1, FS_Interval
<1>7. rank \in Surjection(S, 1..n)
  BY <1>2, <1>5, <1>6, FS_Injection
<1>8. ASSUME NEW k \in 1..n
      PROVE  place[k] \in S /\ Cardinality(B[place[k]]) = k - 1
  <2>1. PICK e \in S : rank[e] = k
    BY <1>7 DEF Surjection
  <2>2. Cardinality(B[e]) = k - 1
    BY <1>3, <2>1
  <2>3. place[k] = CHOOSE x \in S : Cardinality(B[x]) = k - 1
    BY <1>2
  <2> QED
    BY <2>2, <2>3
<1>9. ASSUME NEW j \in 1..n, NEW k \in 1..n, place[j] = place[k]
      PROVE  j = k
  <2>1. j - 1 = k - 1 /\ j \in Int /\ k \in Int
    BY <1>1, <1>8, <1>9
  <2> QED
    BY <2>1
<1>10. ASSUME NEW e \in S
       PROVE  \E k \in 1..n : place[k] = e
  <2>1. rank[e] \in 1..n /\ Cardinality(B[e]) = rank[e] - 1
    BY <1>1, <1>3
  <2>2. place[rank[e]] \in S /\ Cardinality(B[place[rank[e]]]) = Cardinality(B[e])
    BY <1>8, <2>1
  <2>3. place[rank[e]] \notin B[e] /\ e \notin B[place[rank[e]]]
    BY <1>3, <1>4, <2>2
  <2>4. place[rank[e]] = e
    BY <2>2, <2>3 DEF IsOrder
  <2> QED
    BY <2>1, <2>4
<1>11. ASSUME NEW j \in 1..n, NEW k \in 1..n, j < k
       PROVE  place[j] \in B[place[k]]
  <2>1. place[j] # place[k]
    <3>1. j # k
      BY <1>1, <1>11
    <3> QED
      BY <1>9, <3>1
  <2>2. place[k] \notin B[place[j]]
    <3>1. ~(k - 1 < j - 1)
      BY <1>1, <1>11
    <3> QED
      BY <1>4, <1>8, <3>1
  <2> QED
    BY <1>8, <2>1, <2>2 DEF IsOrder
<1> QED
  BY <1>1, <1>2, <1>8, <1>9, <1>10, <1>11 DEF n, place

(* A list in the order that leaves none out is the list of the places. *)
IsOrdered(S, B, n, t) ==
  /\ \A k \in 1..n : t[k] \in S
  /\ \A e \in S : \E k \in 1..n : t[k] = e
  /\ \A j, k \in 1..n : j < k => t[j] \in B[t[k]]

LEMMA OrderedOnce ==
  ASSUME NEW S, IsFiniteSet(S), NEW B, IsOrder(S, B), NEW n \in Nat, NEW t,
         IsOrdered(S, B, n, t)
  PROVE  n = Cardinality(S) /\ \A k \in 1..n : t[k] = Places(S, B)[k]
<1> USE DEF IsOrdered
<1> DEFINE place == Places(S, B)
<1> HIDE DEF place
<1>1. \A j, k \in 1..n : j # k => t[j] # t[k]
  <2>1. \A j, k \in 1..n : j < k => t[j] # t[k]
    BY DEF IsOrder
  <2>2. \A j, k \in 1..n : j # k => j < k \/ k < j
    OBVIOUS
  <2> QED
    BY <2>1, <2>2
<1>2. ASSUME NEW T, NEW l \in 0..n, \A e : e \in T <=> \E k \in 1..l : t[k] = e
      PROVE  Cardinality(T) = l
  <2> DEFINE f == [k \in 1..l |-> t[k]]
  <2>1. \A k \in 1..l : k \in 1..n /\ t[k] \in T
    BY <1>2
  <2>2. f \in Injection(1..l, T) /\ f \in Surjection(1..l, T)
    BY <1>1, <1>2, <2>1 DEF Injection, IsInjective, Surjection
  <2>3. ExistsBijection(1..l, T)
    BY <2>2 DEF ExistsBijection, Bijection
  <2> QED
    BY <2>3, FS_CountingElements
<1>3. Cardinality(S) = n
  <2>1. \A e : e \in S <=> \E k \in 1..n : t[k] = e
    OBVIOUS
  <2> QED
    BY <1>2, <2>1
<1>4. ASSUME NEW k \in 1..n
      PROVE  t[k] = place[k]
  <2>1. t[k] \in S /\ B[t[k]] \in SUBSET S
    BY DEF IsOrder
  <2>2. \A e : e \in B[t[k]] <=> \E j \in 1..k - 1 : t[j] = e
    <3>1. ASSUME NEW j \in 1..n, t[j] \in B[t[k]]
          PROVE  j \in 1..k - 1
      <4>1. j # k
        BY <3>1 DEF IsOrder
      <4>2. ~(k < j)
        BY <2>1, <3>1 DEF IsOrder
      <4> QED
        BY <4>1, <4>2
    <3>2. \A j \in 1..k - 1 : j \in 1..n /\ j < k
      OBVIOUS
    <3> QED
      BY <2>1, <3>1, <3>2
  <2>3. Cardinality(B[t[k]]) = k - 1
    <3>1. k - 1 \in 0..n
      OBVIOUS
    <3> QED
      BY <1>2, <2>2, <3>1
  <2>4. PICK l \in 1..n : place[l] = t[k] /\ Cardinality(B[place[l]]) = l - 1
    <3>1. \A e \in S : \E l \in 1..n : place[l] = e
      BY <1>3, OrderedPlaces DEF place
    <3>2. \A l \in 1..n : Cardinality(B[place[l]]) = l - 1
      BY <1>3, OrderedPlaces DEF place
    <3> QED
      BY <2>1, <3>1, <3>2
  <2>5. l = k
    BY <2>3, <2>4
  <2> QED
    BY <2>4, <2>5
<1> QED
  BY <1>3, <1>4 DEF place

Smaller(S) == [e \in S |-> {d \in S : d < e}]
Greater(S) == [e \in S |-> {d \in S : d > e}]

LEMMA NumbersOrdered ==
  ASSUME NEW S, S \subseteq Int, IsFiniteSet(S)
  PROVE  /\ IsOrder(S, Smaller(S)) /\ Failover!Ascending(S) = Places(S, Smaller(S))
         /\ IsOrder(S, Greater(S)) /\ Failover!Descending(S) = Places(S, Greater(S))
<1>1. \A d, e \in S : /\ d < e \/ d = e \/ e < d
                      /\ ~(d < d) /\ (d < e <=> e > d)
                      /\ \A x \in S : x < d /\ d < e => x < e
  OBVIOUS
<1>2. \A e \in S : Smaller(S)[e] = {d \in S : d < e} /\ Greater(S)[e] = {d \in S : d > e}
  BY DEF Smaller, Greater
<1>3. IsOrder(S, Smaller(S))
  <2>1. \A d, e \in S : d \in Smaller(S)[e] <=> d < e
    BY <1>2, Zenon
  <2>2. \A e \in S : Smaller(S)[e] \subseteq S
    BY <1>2, Zenon
  <2> HIDE DEF Smaller
  <2>3. \A d, e \in S : d \in Smaller(S)[e] => Smaller(S)[d] \subseteq Smaller(S)[e]
    BY <1>1, <2>1, <2>2
  <2>4. /\ \A e \in S : e \notin Smaller(S)[e]
        /\ \A d, e \in S : d = e \/ d \in Smaller(S)[e] \/ e \in Smaller(S)[d]
    BY <1>1, <2>1, Zenon
  <2> QED
    BY <2>2, <2>3, <2>4 DEF IsOrder
<1>4. IsOrder(S, Greater(S))
  <2>1. \A d, e \in S : d \in Greater(S)[e] <=> e < d
    <3>1. \A d, e \in S : d \in Greater(S)[e] <=> d > e
      BY <1>2, Zenon
    <3>2. \A d, e \in S : d > e <=> e < d
      OBVIOUS
    <3> QED
      BY <3>1, <3>2, Zenon
  <2>2. \A e \in S : Greater(S)[e] \subseteq S
    BY <1>2, Zenon
  <2>3. \A d, e \in S : d \in Greater(S)[e] => Greater(S)[d] \subseteq Greater(S)[e]
    BY <1>1, <2>1, <2>2
  <2>4. /\ \A e \in S : e \notin Greater(S)[e]
        /\ \A d, e \in S : d = e \/ d \in Greater(S)[e] \/ e \in Greater(S)[d]
    BY <1>1, <2>1, Zenon
  <2> QED
    BY <2>2, <2>3, <2>4 DEF IsOrder
<1>5. /\ Failover!Ascending(S) =
           [k \in 1..Cardinality(S) |-> CHOOSE e \in S : Cardinality({d \in S : d < e}) = k - 1]
      /\ Failover!Descending(S) =
           [k \in 1..Cardinality(S) |-> CHOOSE e \in S : Cardinality({d \in S : d > e}) = k - 1]
  BY DEF Failover!Ascending, Failover!Descending, Failover!Ordered, Failover!Cardinality, Cardinality
<1>6. ASSUME NEW k
      PROVE  /\ (CHOOSE e \in S : Cardinality({d \in S : d < e}) = k - 1) =
                  CHOOSE e \in S : Cardinality(Smaller(S)[e]) = k - 1
             /\ (CHOOSE e \in S : Cardinality({d \in S : d > e}) = k - 1) =
                  CHOOSE e \in S : Cardinality(Greater(S)[e]) = k - 1
  BY <1>2
<1> QED
  BY <1>3, <1>4, <1>5, <1>6, Zenon DEF Places

(* The k-th number of a finite set of numbers is one of them, and the j-th   *)
(* is another.                                                               *)
LEMMA AscendingPlaces ==
  ASSUME NEW S, S \subseteq Int, IsFiniteSet(S)
  PROVE  /\ Cardinality(S) \in Nat
         /\ DOMAIN Failover!Ascending(S) = 1..Cardinality(S)
         /\ \A k \in 1..Cardinality(S) : Failover!Ascending(S)[k] \in S
         /\ \A j, k \in 1..Cardinality(S) :
              Failover!Ascending(S)[j] = Failover!Ascending(S)[k] => j = k
         /\ \A e \in S : \E k \in 1..Cardinality(S) : Failover!Ascending(S)[k] = e
         /\ \A j, k \in 1..Cardinality(S) :
              j < k => Failover!Ascending(S)[j] < Failover!Ascending(S)[k]
<1> DEFINE B == Smaller(S)
           place == Places(S, B)
<1>1. Failover!Ascending(S) = place /\ IsOrder(S, B)
  BY NumbersOrdered
<1>2. \A e \in S : \A d : d \in B[e] => d < e
  BY DEF Smaller
<1> HIDE DEF B
<1>3. /\ Cardinality(S) \in Nat /\ DOMAIN place = 1..Cardinality(S)
      /\ \A k \in 1..Cardinality(S) : place[k] \in S
      /\ \A e \in S : \E k \in 1..Cardinality(S) : place[k] = e
      /\ \A j, k \in 1..Cardinality(S) : place[j] = place[k] => j = k
      /\ \A j, k \in 1..Cardinality(S) : j < k => place[j] \in B[place[k]]
  BY <1>1, OrderedPlaces
<1> HIDE DEF place
<1>4. \A j, k \in 1..Cardinality(S) : j < k => place[j] < place[k]
  BY <1>2, <1>3
<1> QED
  BY <1>1, <1>3, <1>4

(* The numbers from the greatest to the least, and that no other list is that. *)
LEMMA DescendingPlaces ==
  ASSUME NEW S, S \subseteq Int, IsFiniteSet(S)
  PROVE  /\ Cardinality(S) \in Nat
         /\ DOMAIN Failover!Descending(S) = 1..Cardinality(S)
         /\ \A k \in 1..Cardinality(S) : Failover!Descending(S)[k] \in S
         /\ \A e \in S : \E k \in 1..Cardinality(S) : Failover!Descending(S)[k] = e
         /\ \A j, k \in 1..Cardinality(S) :
              j < k => Failover!Descending(S)[j] > Failover!Descending(S)[k]
<1> DEFINE B == Greater(S)
           place == Places(S, B)
<1>1. Failover!Descending(S) = place /\ IsOrder(S, B)
  BY NumbersOrdered
<1>2. \A e \in S : \A d : d \in B[e] => d > e
  BY DEF Greater
<1> HIDE DEF B
<1>3. /\ Cardinality(S) \in Nat /\ DOMAIN place = 1..Cardinality(S)
      /\ \A k \in 1..Cardinality(S) : place[k] \in S
      /\ \A e \in S : \E k \in 1..Cardinality(S) : place[k] = e
      /\ \A j, k \in 1..Cardinality(S) : j < k => place[j] \in B[place[k]]
  BY <1>1, OrderedPlaces
<1> HIDE DEF place
<1>4. \A j, k \in 1..Cardinality(S) : j < k => place[j] > place[k]
  BY <1>2, <1>3
<1> QED
  BY <1>1, <1>3, <1>4

LEMMA DescendingOnce ==
  ASSUME NEW S, S \subseteq Int, IsFiniteSet(S), NEW n \in Nat, NEW t, IsOrdered(S, Greater(S), n, t)
  PROVE  /\ DOMAIN Failover!Descending(S) = 1..n
         /\ \A k \in 1..n : t[k] = Failover!Descending(S)[k]
<1> DEFINE B == Greater(S)
           place == Places(S, B)
<1>1. Failover!Descending(S) = place /\ IsOrder(S, B) /\ IsOrdered(S, B, n, t)
  BY NumbersOrdered
<1> HIDE DEF B
<1>2. n = Cardinality(S) /\ \A k \in 1..n : t[k] = place[k]
  BY <1>1, OrderedOnce
<1>3. DOMAIN place = 1..n
  BY <1>1, <1>2, OrderedPlaces
<1> HIDE DEF place
<1> QED
  BY <1>1, <1>2, <1>3

LEMMA OnPlaces ==
  ASSUME NEW n \in Nat, NEW f, f = [k \in 1..n |-> f[k]]
  PROVE  IsSequence(f)
<1> DEFINE S == {f[k] : k \in 1..n}
<1>1. f \in [1..n -> S] /\ DOMAIN f = 1..n
  <2>1. \A k \in 1..n : f[k] \in S
    OBVIOUS
  <2> HIDE DEF S
  <2> QED
    BY <2>1
<1>2. S = {f[k] : k \in DOMAIN f}
  BY <1>1
<1> HIDE DEF S
<1> QED
  BY <1>1, <1>2, SeqDef DEF IsSequence

(* What is picked from a list is a list of elements of it, each from a place *)
(* of its own.                                                               *)
LEMMA PickedElements ==
  ASSUME NEW s, IsSequence(s), NEW I \in SUBSET DOMAIN s
  PROVE  LET t == Failover!Picked(s, I)
             place == Failover!Ascending(I) IN
         /\ IsSequence(t) /\ DOMAIN t = 1..Cardinality(I) /\ Cardinality(I) \in Nat
         /\ Len(t) = Cardinality(I)
         /\ I # {} => t # <<>>
         /\ \A k \in DOMAIN t : place[k] \in I /\ t[k] = s[place[k]]
         /\ \A j, k \in DOMAIN t : place[j] = place[k] => j = k
<1> DEFINE t == Failover!Picked(s, I)
           place == Failover!Ascending(I)
           S == {s[i] : i \in DOMAIN s}
<1>1. DOMAIN s = 1..Len(s) /\ Len(s) \in Nat
  BY SequenceOf DEF IsSequence
<1>2. IsFiniteSet(I) /\ I \subseteq Int
  <2>1. IsFiniteSet(1..Len(s))
    BY <1>1, FS_Interval
  <2> QED
    BY <1>1, <2>1, FS_Subset
<1>3. /\ Cardinality(I) \in Nat /\ DOMAIN place = 1..Cardinality(I)
      /\ \A k \in 1..Cardinality(I) : place[k] \in I
      /\ \A j, k \in 1..Cardinality(I) : place[j] = place[k] => j = k
  BY <1>2, AscendingPlaces
<1>4. t = [k \in DOMAIN place |-> s[place[k]]]
  BY DEF Failover!Picked
<1> HIDE DEF place, t
<1>5. /\ DOMAIN t = 1..Cardinality(I) /\ \A k \in DOMAIN t : t[k] = s[place[k]]
      /\ t \in [1..Cardinality(I) -> S]
  BY <1>3, <1>4
<1> HIDE DEF S
<1>6. t \in Seq(S)
  BY <1>3, <1>5, SeqDef
<1>7. IsSequence(t) /\ DOMAIN t = 1..Len(t) /\ Len(t) \in Nat
  BY <1>6, SequenceOf
<1>8. Len(t) = Cardinality(I)
  <2>1. \A m, n \in Nat : 1..m = 1..n => m = n
    <3> SUFFICES ASSUME NEW m \in Nat, NEW n \in Nat, 1..m = 1..n PROVE m = n
      OBVIOUS
    <3>1. (m # 0 => m \in 1..n) /\ (n # 0 => n \in 1..m)
      OBVIOUS
    <3> QED
      BY <3>1
  <2> QED
    BY <1>3, <1>5, <1>7, <2>1
<1>9. I # {} => t # <<>>
  <2>1. I # {} => Cardinality(I) # 0
    BY <1>2, FS_EmptySet
  <2> QED
    BY <1>5, <1>3, <2>1
<1> QED
  BY <1>3, <1>5, <1>7, <1>8, <1>9 DEF t, place

(***************************************************************************)
(* The keys page: its spinners.                                            *)
(***************************************************************************)
KeysCalls ==
  /\ IsSequence(calls)
  /\ \A i \in DOMAIN calls : DOMAIN calls[i] = {"kind", "id", "val", "at", "rows"}

KeysSaving == DOMAIN saving = {"rename", "models", "quota", "delete"}

(* A key that is being saved has its call out. *)
KeysBacked ==
  ~signedOut => \A op \in DOMAIN saving :
    saving[op] # None => \E i \in DOMAIN calls : calls[i].kind = op /\ calls[i].id = saving[op]

KeysInv == KeysCalls /\ KeysSaving /\ KeysBacked

LEMMA KeysInit == Keys!Init => KeysInv
<1> SUFFICES ASSUME Keys!Init PROVE KeysInv
  OBVIOUS
<1>1. /\ calls = <<Keys!Call("load", None, None)>>
      /\ saving = [op \in Keys!Edited \cup {"delete"} |-> None]
  BY DEF Keys!Init
<1>2. /\ calls \in Seq({Keys!Call("load", None, None)}) /\ DOMAIN calls = 1..1
      /\ calls[1] = Keys!Call("load", None, None)
  BY <1>1
<1>3. KeysCalls
  BY <1>2, SequenceOf DEF KeysCalls, Keys!Call
<1> QED
  BY <1>1, <1>3 DEF KeysInv, KeysSaving, KeysBacked, Keys!Edited

(* An operation that sends a call may put its key among those being saved. *)
LEMMA KeysSent ==
  ASSUME KeysInv, NEW kind, NEW id, NEW val, Keys!Operate(kind, id, val),
         saving' = saving \/ saving' = [saving EXCEPT ![kind] = id]
  PROVE  KeysInv'
<1> DEFINE call == Keys!Call(kind, id, val)
<1>1. calls' = Append(calls, call) /\ signedOut' = signedOut
  BY DEF Keys!Operate
<1>2. DOMAIN call = {"kind", "id", "val", "at", "rows"} /\ call.kind = kind /\ call.id = id
  BY DEF Keys!Call
<1> HIDE DEF call
<1>3. /\ IsSequence(calls') /\ DOMAIN calls = 1..Len(calls) /\ DOMAIN calls' = 1..Len(calls) + 1
      /\ Len(calls) \in Nat
      /\ (\A i \in 1..Len(calls) : calls'[i] = calls[i]) /\ calls'[Len(calls) + 1] = call
  BY <1>1, Appended DEF KeysInv, KeysCalls
<1>4. KeysCalls'
  BY <1>2, <1>3 DEF KeysInv, KeysCalls
<1>5. KeysSaving'
  BY DEF KeysInv, KeysSaving
<1>6. KeysBacked'
  <2> SUFFICES ASSUME ~signedOut, NEW op \in DOMAIN saving', saving'[op] # None
               PROVE  \E i \in DOMAIN calls' : calls'[i].kind = op /\ calls'[i].id = saving'[op]
    BY <1>1 DEF KeysBacked
  <2>1. CASE saving'[op] = saving[op]
    BY <1>3, <2>1 DEF KeysInv, KeysBacked, KeysSaving
  <2>2. CASE op = kind /\ saving'[op] = id
    BY <1>2, <1>3, <2>2
  <2> QED
    BY <2>1, <2>2 DEF KeysInv, KeysSaving
<1> QED
  BY <1>4, <1>5, <1>6 DEF KeysInv

(* The server's work on a call leaves its kind alone, and its key unless it  *)
(* creates one.                                                              *)
LEMMA KeysServed ==
  ASSUME KeysInv, NEW i \in DOMAIN calls, Keys!Serve(i)
  PROVE  KeysInv'
<1>1. saving' = saving /\ signedOut' = signedOut
  BY DEF Keys!Serve, Keys!page
<1>2. PICK e : /\ calls' = [calls EXCEPT ![i] = e] /\ DOMAIN e = DOMAIN calls[i]
               /\ e.kind = calls[i].kind
               /\ e.id = calls[i].id \/ calls[i].kind = "create"
  <2>1. DOMAIN calls[i] = {"kind", "id", "val", "at", "rows"}
    BY DEF KeysInv, KeysCalls
  <2>2. CASE Keys!ServeRead(i)
    BY <2>1, <2>2 DEF Keys!ServeRead, Keys!Settled
  <2>3. CASE Keys!ServeWrite(i)
    BY <2>1, <2>3 DEF Keys!ServeWrite, Keys!Settled, Keys!Writes
  <2>4. CASE Keys!Fail(i)
    <3>1. PICK how : Keys!Settled(i, how, None)
      BY <2>4 DEF Keys!Fail
    <3> DEFINE f == [calls[i] EXCEPT !.at = how, !.val = None]
    <3>2. calls' = [calls EXCEPT ![i] = f] /\ DOMAIN f = DOMAIN calls[i] /\ f.kind = calls[i].kind
          /\ f.id = calls[i].id
      BY <2>1, <3>1 DEF Keys!Settled
    <3> QED
      BY <3>2
  <2> QED
    BY <2>2, <2>3, <2>4 DEF Keys!Serve
<1>3. /\ IsSequence(calls') /\ DOMAIN calls' = DOMAIN calls
      /\ calls'[i] = e /\ \A j \in DOMAIN calls \ {i} : calls'[j] = calls[j]
  BY <1>2, Replaced DEF KeysInv, KeysCalls
<1>4. KeysCalls'
  BY <1>2, <1>3 DEF KeysInv, KeysCalls
<1>5. KeysBacked'
  <2> SUFFICES ASSUME ~signedOut, NEW op \in DOMAIN saving, saving[op] # None
               PROVE  \E j \in DOMAIN calls : calls'[j].kind = op /\ calls'[j].id = saving[op]
    BY <1>1, <1>3 DEF KeysBacked
  <2>1. PICK j \in DOMAIN calls : calls[j].kind = op /\ calls[j].id = saving[op]
    BY DEF KeysInv, KeysBacked
  <2>2. op # "create"
    BY DEF KeysInv, KeysSaving
  <2> QED
    BY <1>2, <1>3, <2>1, <2>2
<1> QED
  BY <1>1, <1>4, <1>5 DEF KeysInv, KeysSaving

(* An answer that ends the saving of a kind leaves the calls of the others. *)
LEMMA KeysAnswered ==
  ASSUME KeysInv, NEW i \in DOMAIN calls, NEW kind, Keys!Answered(i, {kind}),
         IF kind \in DOMAIN saving THEN Keys!SaveEnds(kind) ELSE saving' = saving
  PROVE  KeysInv'
<1>1. calls[i].kind = kind /\ calls' = Left(calls, i) /\ ~signedOut
  BY DEF Keys!Answered, Keys!WithoutAt, Left
<1>2. /\ IsSequence(calls')
      /\ \A j \in DOMAIN calls' : Place(i, j) \in DOMAIN calls \ {i} /\ calls'[j] = calls[Place(i, j)]
      /\ \A k \in DOMAIN calls \ {i} : \E j \in DOMAIN calls' : Place(i, j) = k /\ calls'[j] = calls[k]
  BY <1>1, Removed DEF KeysInv, KeysCalls
<1>3. KeysCalls'
  BY <1>2 DEF KeysInv, KeysCalls
<1>4. KeysSaving' /\ \A op \in DOMAIN saving : saving'[op] = IF op = kind THEN None ELSE saving[op]
  BY DEF KeysInv, KeysSaving, Keys!SaveEnds
<1>5. KeysBacked'
  <2> SUFFICES ASSUME NEW op \in DOMAIN saving, op # kind, saving[op] # None
               PROVE  \E j \in DOMAIN calls' : calls'[j].kind = op /\ calls'[j].id = saving[op]
    BY <1>4 DEF KeysInv, KeysBacked, KeysSaving
  <2>1. PICK k \in DOMAIN calls : calls[k].kind = op /\ calls[k].id = saving[op]
    BY <1>1 DEF KeysInv, KeysBacked
  <2>2. k # i
    BY <1>1, <2>1
  <2> QED
    BY <1>2, <2>1, <2>2
<1> QED
  BY <1>3, <1>4, <1>5 DEF KeysInv

LEMMA KeysKept == KeysInv /\ UNCHANGED <<calls, saving, signedOut>> => KeysInv'
BY DEF KeysInv, KeysCalls, KeysSaving, KeysBacked

LEMMA KeysStep == KeysInv /\ Keys!Next => KeysInv'
<1> SUFFICES ASSUME KeysInv, Keys!Next PROVE KeysInv'
  OBVIOUS
<1>1. CASE Keys!LoadKeys
  BY <1>1, KeysSent DEF Keys!LoadKeys, Keys!page
<1>2. CASE Keys!OpenCreate \/ Keys!Close \/ Keys!CloseVisible
  BY <1>2, KeysKept DEF Keys!OpenCreate, Keys!Close, Keys!CloseVisible, Keys!Quietly
<1>3. CASE Keys!HandleCreate
  <2>1. CASE Keys!Refused
    BY <2>1, KeysKept DEF Keys!Refused, Keys!Quietly
  <2>2. CASE ~Keys!Refused
    BY <1>3, <2>2, KeysSent DEF Keys!HandleCreate
  <2> QED
    BY <2>1, <2>2
<1>4. ASSUME NEW id \in KeyId, Keys!OpenModelsDialog(id)
      PROVE  KeysInv'
  BY <1>4, KeysSent DEF Keys!OpenModelsDialog
<1>5. ASSUME NEW id \in KeyId, Keys!HandleDelete(id)
      PROVE  KeysInv'
  BY <1>5, KeysSent DEF Keys!HandleDelete
<1>6. ASSUME NEW id, NEW op, Keys!OpenDialog(op, id)
      PROVE  KeysInv'
  BY <1>6, KeysKept DEF Keys!OpenDialog, Keys!Quietly
<1>7. ASSUME NEW name, NEW q, Keys!EditNewKey(name, q)
      PROVE  KeysInv'
  BY <1>7, KeysKept DEF Keys!EditNewKey, Keys!Edit, Keys!Quietly
<1>8. ASSUME NEW op, NEW text, Keys!EditDraft(op, text)
      PROVE  KeysInv'
  BY <1>8, KeysKept DEF Keys!EditDraft, Keys!Edit, Keys!Quietly
<1>9. ASSUME NEW op, Keys!HandleSave(op)
      PROVE  KeysInv'
  <2>1. CASE Keys!Refused
    BY <2>1, KeysKept DEF Keys!Refused, Keys!Quietly
  <2>2. CASE ~Keys!Refused
    <3>1. Keys!Operate(op, dialog.id, Keys!Payload(op, dialog.draft))
          /\ saving' = [saving EXCEPT ![op] = dialog.id]
      BY <1>9, <2>2 DEF Keys!HandleSave
    <3> QED
      BY <3>1, KeysSent
  <2> QED
    BY <2>1, <2>2
<1>10. ASSUME NEW i \in DOMAIN calls, Keys!Serve(i)
       PROVE  KeysInv'
  BY <1>10, KeysServed
<1>11. ASSUME NEW i \in DOMAIN calls,
              Keys!LoadAnswered(i) \/ Keys!CatalogAnswered(i) \/ Keys!CreateAnswered(i)
       PROVE  KeysInv'
  <2>1. saving' = saving /\ \E kind \in {"load", "catalog", "create"} : Keys!Answered(i, {kind})
    BY <1>11 DEF Keys!LoadAnswered, Keys!CatalogAnswered, Keys!CreateAnswered
  <2> QED
    BY <2>1, KeysAnswered DEF KeysInv, KeysSaving
<1>12. ASSUME NEW i \in DOMAIN calls, NEW op \in Keys!Edited, Keys!SaveAnswered(i, op)
       PROVE  KeysInv'
  <2>1. Keys!Answered(i, {op}) /\ Keys!SaveEnds(op)
    BY <1>12 DEF Keys!SaveAnswered
  <2> QED
    BY <2>1, KeysAnswered DEF KeysInv, KeysSaving, Keys!Edited
<1>13. ASSUME NEW i \in DOMAIN calls, Keys!DeleteAnswered(i)
       PROVE  KeysInv'
  <2>1. Keys!Answered(i, {"delete"}) /\ Keys!SaveEnds("delete")
    BY <1>13 DEF Keys!DeleteAnswered
  <2> QED
    BY <2>1, KeysAnswered DEF KeysInv, KeysSaving
<1> QED
  BY <1>1, <1>2, <1>3, <1>4, <1>5, <1>6, <1>7, <1>8, <1>9, <1>10, <1>11, <1>12, <1>13
  DEF Keys!Next, Keys!EditRename, Keys!EditQuota, Keys!EditModels, Keys!AddModelRestriction,
      Keys!RemoveModel, Keys!HandleRename, Keys!HandleSaveModels, Keys!HandleSaveQuota,
      Keys!RenameAnswered, Keys!ModelsAnswered, Keys!QuotaAnswered, Keys!Edited

LEMMA KeysProperty == KeysInv => Keys!SpinnersBacked
BY DEF KeysInv, KeysBacked, Keys!SpinnersBacked, Keys!Out

(***************************************************************************)
(* The routes page: its spinners.                                          *)
(***************************************************************************)
RoutesCalls ==
  /\ IsSequence(calls)
  /\ \A i \in DOMAIN calls : DOMAIN calls[i] = {"kind", "id", "val", "at", "rows"}

(* A row that is switched, deleted or tested has its call out. *)
RoutesBacked ==
  /\ DOMAIN tests = AliasId
  /\ ~signedOut =>
       /\ togglingId # None => \E i \in DOMAIN calls : calls[i].kind = "toggle" /\ calls[i].id = togglingId
       /\ deletingId # None => \E i \in DOMAIN calls : calls[i].kind = "delete" /\ calls[i].id = deletingId
       /\ \A id \in AliasId : tests[id] = "loading" =>
            \E i \in DOMAIN calls : calls[i].kind = "test" /\ calls[i].id = id

RoutesInv == RoutesCalls /\ RoutesBacked

LEMMA RoutesInit == Routes!Init => RoutesInv
<1> SUFFICES ASSUME Routes!Init PROVE RoutesInv
  OBVIOUS
<1>1. /\ calls = <<Routes!Call("load", None, None)>> /\ togglingId = None /\ deletingId = None
      /\ tests = [i \in AliasId |-> "none"]
  BY DEF Routes!Init
<1>2. /\ calls \in Seq({Routes!Call("load", None, None)}) /\ DOMAIN calls = 1..1
      /\ calls[1] = Routes!Call("load", None, None)
  BY <1>1
<1>3. RoutesCalls
  BY <1>2, SequenceOf DEF RoutesCalls, Routes!Call
<1> QED
  BY <1>1, <1>3 DEF RoutesInv, RoutesBacked

LEMMA RoutesKept ==
  RoutesInv /\ UNCHANGED <<calls, signedOut, togglingId, deletingId, tests>> => RoutesInv'
BY DEF RoutesInv, RoutesCalls, RoutesBacked

(* An operation that sends a call may set the spinner the call stands for. *)
LEMMA RoutesSent ==
  ASSUME RoutesInv, NEW kind, NEW id, NEW val, Routes!Operate(kind, id, val),
         togglingId' = togglingId \/ (kind = "toggle" /\ togglingId' = id),
         deletingId' = deletingId \/ (kind = "delete" /\ deletingId' = id),
         tests' = tests \/ (kind = "test" /\ tests' = [tests EXCEPT ![id] = "loading"])
  PROVE  RoutesInv'
<1> DEFINE call == Routes!Call(kind, id, val)
<1>1. calls' = Append(calls, call) /\ signedOut' = signedOut
  BY DEF Routes!Operate
<1>2. DOMAIN call = {"kind", "id", "val", "at", "rows"} /\ call.kind = kind /\ call.id = id
  BY DEF Routes!Call
<1> HIDE DEF call
<1>3. /\ IsSequence(calls') /\ DOMAIN calls = 1..Len(calls) /\ DOMAIN calls' = 1..Len(calls) + 1
      /\ Len(calls) \in Nat
      /\ (\A i \in 1..Len(calls) : calls'[i] = calls[i]) /\ calls'[Len(calls) + 1] = call
  BY <1>1, Appended DEF RoutesInv, RoutesCalls
<1>4. RoutesCalls'
  BY <1>2, <1>3 DEF RoutesInv, RoutesCalls
<1>5. /\ Len(calls) + 1 \in DOMAIN calls' /\ calls'[Len(calls) + 1] = call
      /\ \A i \in DOMAIN calls : i \in DOMAIN calls' /\ calls'[i] = calls[i]
  BY <1>3
<1>6. RoutesBacked'
  <2>1. DOMAIN tests' = AliasId
    BY DEF RoutesInv, RoutesBacked
  <2>2. ASSUME ~signedOut, togglingId' # None
        PROVE  \E i \in DOMAIN calls' : calls'[i].kind = "toggle" /\ calls'[i].id = togglingId'
    BY <1>2, <1>5, <2>2 DEF RoutesInv, RoutesBacked
  <2>3. ASSUME ~signedOut, deletingId' # None
        PROVE  \E i \in DOMAIN calls' : calls'[i].kind = "delete" /\ calls'[i].id = deletingId'
    BY <1>2, <1>5, <2>3 DEF RoutesInv, RoutesBacked
  <2>4. ASSUME ~signedOut, NEW x \in AliasId, tests'[x] = "loading"
        PROVE  \E i \in DOMAIN calls' : calls'[i].kind = "test" /\ calls'[i].id = x
    <3>1. CASE tests'[x] = tests[x]
      BY <1>5, <2>4, <3>1 DEF RoutesInv, RoutesBacked
    <3>2. CASE kind = "test" /\ x = id
      BY <1>2, <1>5, <3>2
    <3> QED
      BY <3>1, <3>2 DEF RoutesInv, RoutesBacked
  <2> QED
    BY <1>1, <2>1, <2>2, <2>3, <2>4 DEF RoutesBacked
<1> QED
  BY <1>4, <1>6 DEF RoutesInv

(* The server's work on a call leaves its kind alone, and its alias unless   *)
(* it creates one.                                                           *)
LEMMA RoutesServed ==
  ASSUME RoutesInv, NEW i \in DOMAIN calls, Routes!Serve(i)
  PROVE  RoutesInv'
<1>1. UNCHANGED <<signedOut, togglingId, deletingId, tests>>
  BY DEF Routes!Serve, Routes!rows
<1>2. PICK e : /\ calls' = [calls EXCEPT ![i] = e] /\ DOMAIN e = DOMAIN calls[i]
               /\ e.kind = calls[i].kind
               /\ e.id = calls[i].id \/ calls[i].kind = "create"
  <2>1. DOMAIN calls[i] = {"kind", "id", "val", "at", "rows"}
    BY DEF RoutesInv, RoutesCalls
  <2>2. CASE Routes!ServeRead(i)
    <3> DEFINE f == [calls[i] EXCEPT !.at = "ok", !.rows = Routes!ListOf(table)]
    <3>1. calls' = [calls EXCEPT ![i] = f] /\ DOMAIN f = DOMAIN calls[i] /\ f.kind = calls[i].kind
          /\ f.id = calls[i].id
      BY <2>1, <2>2 DEF Routes!ServeRead
    <3> QED
      BY <3>1
  <2>3. ASSUME NEW how, Routes!Settled(i, how)
        PROVE  \E e : /\ calls' = [calls EXCEPT ![i] = e] /\ DOMAIN e = DOMAIN calls[i]
                      /\ e.kind = calls[i].kind
                      /\ e.id = calls[i].id \/ calls[i].kind = "create"
    <3> DEFINE f == [calls[i] EXCEPT !.at = how]
    <3>1. calls' = [calls EXCEPT ![i] = f] /\ DOMAIN f = DOMAIN calls[i] /\ f.kind = calls[i].kind
          /\ f.id = calls[i].id
      BY <2>1, <2>3 DEF Routes!Settled
    <3> QED
      BY <3>1
  <2>4. CASE Routes!ServeWrite(i)
    BY <2>1, <2>3, <2>4 DEF Routes!ServeWrite
  <2> QED
    BY <2>2, <2>3, <2>4 DEF Routes!Serve, Routes!ServeTest, Routes!Fail
<1>3. /\ IsSequence(calls') /\ DOMAIN calls' = DOMAIN calls
      /\ calls'[i] = e /\ \A j \in DOMAIN calls \ {i} : calls'[j] = calls[j]
  BY <1>2, Replaced DEF RoutesInv, RoutesCalls
<1>4. RoutesCalls'
  BY <1>2, <1>3 DEF RoutesInv, RoutesCalls
<1>5. ASSUME NEW kind, kind # "create", NEW id,
             \E j \in DOMAIN calls : calls[j].kind = kind /\ calls[j].id = id
      PROVE  \E j \in DOMAIN calls' : calls'[j].kind = kind /\ calls'[j].id = id
  BY <1>2, <1>3, <1>5
<1>6. RoutesBacked'
  <2>1. ASSUME ~signedOut, togglingId # None
        PROVE  \E j \in DOMAIN calls' : calls'[j].kind = "toggle" /\ calls'[j].id = togglingId
    BY <1>5, <2>1 DEF RoutesInv, RoutesBacked
  <2>2. ASSUME ~signedOut, deletingId # None
        PROVE  \E j \in DOMAIN calls' : calls'[j].kind = "delete" /\ calls'[j].id = deletingId
    BY <1>5, <2>2 DEF RoutesInv, RoutesBacked
  <2>3. ASSUME ~signedOut, NEW id \in AliasId, tests[id] = "loading"
        PROVE  \E j \in DOMAIN calls' : calls'[j].kind = "test" /\ calls'[j].id = id
    BY <1>5, <2>3 DEF RoutesInv, RoutesBacked
  <2> QED
    BY <1>1, <2>1, <2>2, <2>3 DEF RoutesInv, RoutesBacked
<1> QED
  BY <1>4, <1>6 DEF RoutesInv

(* An answer ends the spinner of its call and leaves the other calls. *)
LEMMA RoutesAnswered ==
  ASSUME RoutesInv, NEW i \in DOMAIN calls, NEW kinds,
         Routes!Answered(i, kinds), Routes!Done(i),
         (togglingId' = togglingId /\ "toggle" \notin kinds) \/ togglingId' = None,
         (deletingId' = deletingId /\ "delete" \notin kinds) \/ deletingId' = None,
         \/ tests' = tests /\ "test" \notin kinds
         \/ \E how \in {"none", "done"} : tests' = [tests EXCEPT ![calls[i].id] = how]
  PROVE  RoutesInv'
<1>1. calls[i].kind \in kinds /\ calls' = Left(calls, i) /\ ~signedOut
  BY DEF Routes!Answered, Routes!Done, Routes!WithoutAt, Left
<1>2. /\ IsSequence(calls')
      /\ \A j \in DOMAIN calls' : Place(i, j) \in DOMAIN calls \ {i} /\ calls'[j] = calls[Place(i, j)]
      /\ \A k \in DOMAIN calls \ {i} : \E j \in DOMAIN calls' : Place(i, j) = k /\ calls'[j] = calls[k]
  BY <1>1, Removed DEF RoutesInv, RoutesCalls
<1>3. RoutesCalls'
  BY <1>2 DEF RoutesInv, RoutesCalls
<1>4. ASSUME NEW kind, NEW id, kind \notin kinds \/ id # calls[i].id,
             \E j \in DOMAIN calls : calls[j].kind = kind /\ calls[j].id = id
      PROVE  \E j \in DOMAIN calls' : calls'[j].kind = kind /\ calls'[j].id = id
  BY <1>1, <1>2, <1>4
<1>5. RoutesBacked'
  <2>1. DOMAIN tests' = AliasId
    BY DEF RoutesInv, RoutesBacked
  <2>2. ASSUME NEW x \in AliasId, tests'[x] = "loading"
        PROVE  tests[x] = "loading" /\ ("test" \notin kinds \/ x # calls[i].id)
    BY <2>2 DEF RoutesInv, RoutesBacked
  <2>3. ASSUME togglingId' # None
        PROVE  \E j \in DOMAIN calls' : calls'[j].kind = "toggle" /\ calls'[j].id = togglingId'
    <3>1. togglingId' = togglingId /\ "toggle" \notin kinds
      BY <2>3
    <3>2. PICK c \in DOMAIN calls : calls[c].kind = "toggle" /\ calls[c].id = togglingId
      BY <1>1, <2>3, <3>1 DEF RoutesInv, RoutesBacked
    <3>3. c # i
      BY <1>1, <3>1, <3>2
    <3>4. PICK j \in DOMAIN calls' : calls'[j] = calls[c]
      BY <1>2, <3>3
    <3> QED
      BY <3>1, <3>2, <3>4
  <2>4. ASSUME deletingId' # None
        PROVE  \E j \in DOMAIN calls' : calls'[j].kind = "delete" /\ calls'[j].id = deletingId'
    <3>1. deletingId' = deletingId /\ "delete" \notin kinds
      BY <2>4
    <3>2. PICK c \in DOMAIN calls : calls[c].kind = "delete" /\ calls[c].id = deletingId
      BY <1>1, <2>4, <3>1 DEF RoutesInv, RoutesBacked
    <3>3. c # i
      BY <1>1, <3>1, <3>2
    <3>4. PICK j \in DOMAIN calls' : calls'[j] = calls[c]
      BY <1>2, <3>3
    <3> QED
      BY <3>1, <3>2, <3>4
  <2>5. ASSUME NEW x \in AliasId, tests'[x] = "loading"
        PROVE  \E j \in DOMAIN calls' : calls'[j].kind = "test" /\ calls'[j].id = x
    <3>1. \E j \in DOMAIN calls : calls[j].kind = "test" /\ calls[j].id = x
      BY <1>1, <2>2, <2>5 DEF RoutesInv, RoutesBacked
    <3> QED
      BY <1>4, <2>2, <2>5, <3>1
  <2> QED
    BY <2>1, <2>3, <2>4, <2>5 DEF RoutesBacked
<1> QED
  BY <1>3, <1>5 DEF RoutesInv

LEMMA RoutesStep == RoutesInv /\ Routes!Next => RoutesInv'
<1> SUFFICES ASSUME RoutesInv, Routes!Next PROVE RoutesInv'
  OBVIOUS
<1>1. CASE Routes!Load \/ Routes!HandleSubmit
  BY <1>1, RoutesSent DEF Routes!Load, Routes!HandleSubmit, Routes!rows
<1>2. CASE Routes!OpenCreate \/ Routes!CloseDialog
  BY <1>2, RoutesKept DEF Routes!OpenCreate, Routes!CloseDialog, Routes!Quietly, Routes!rows
<1>3. CASE Routes!AliasForm
  BY <1>3, RoutesKept
  DEF Routes!AliasForm, Routes!AddTarget, Routes!RemoveTarget, Routes!ChooseProvider,
      Routes!ChooseModel, Routes!EditTarget, Routes!Edit, Routes!rows
<1>4. ASSUME NEW id \in AliasId, Routes!OpenEdit(id)
      PROVE  RoutesInv'
  BY <1>4, RoutesKept DEF Routes!OpenEdit, Routes!Quietly, Routes!rows
<1>5. ASSUME NEW id \in AliasId, Routes!HandleToggle(id)
      PROVE  RoutesInv'
  BY <1>5, RoutesSent DEF Routes!HandleToggle
<1>6. ASSUME NEW id \in AliasId, Routes!HandleDelete(id)
      PROVE  RoutesInv'
  BY <1>6, RoutesSent DEF Routes!HandleDelete
<1>7. ASSUME NEW id \in AliasId, Routes!HandleTest(id)
      PROVE  RoutesInv'
  BY <1>7, RoutesSent DEF Routes!HandleTest
<1>8. ASSUME NEW i \in DOMAIN calls, Routes!Serve(i)
      PROVE  RoutesInv'
  BY <1>8, RoutesServed
<1>9. ASSUME NEW i \in DOMAIN calls, Routes!LoadAnswered(i)
      PROVE  RoutesInv'
  BY <1>9, RoutesAnswered DEF Routes!LoadAnswered
<1>10. ASSUME NEW i \in DOMAIN calls, Routes!SubmitAnswered(i)
       PROVE  RoutesInv'
  <2>1. /\ Routes!Answered(i, {"create", "update"}) /\ Routes!Done(i)
        /\ UNCHANGED <<togglingId, deletingId, tests>>
    BY <1>10 DEF Routes!SubmitAnswered
  <2> QED
    BY <2>1, RoutesAnswered
<1>11. ASSUME NEW i \in DOMAIN calls, Routes!ToggleAnswered(i)
       PROVE  RoutesInv'
  BY <1>11, RoutesAnswered DEF Routes!ToggleAnswered, Routes!ToggleEnds
<1>12. ASSUME NEW i \in DOMAIN calls, Routes!DeleteAnswered(i)
       PROVE  RoutesInv'
  BY <1>12, RoutesAnswered DEF Routes!DeleteAnswered
<1>13. ASSUME NEW i \in DOMAIN calls, Routes!TestAnswered(i)
       PROVE  RoutesInv'
  BY <1>13, RoutesAnswered DEF Routes!TestAnswered
<1> QED
  BY <1>1, <1>2, <1>3, <1>4, <1>5, <1>6, <1>7, <1>8, <1>9, <1>10, <1>11, <1>12, <1>13
  DEF Routes!Next, Routes!User, Routes!Answer

LEMMA RoutesProperty == RoutesInv => Routes!SpinnersBacked
BY DEF RoutesInv, RoutesBacked, Routes!SpinnersBacked, Routes!Out

(***************************************************************************)
(* The providers page.                                                     *)
(***************************************************************************)
(* What a call of each kind is sent for. *)
Purposes ==
  {<<"list", "shown">>, <<"list", "toggle">>, <<"list", "submit">>, <<"list", "delete">>,
   <<"list", "import">>, <<"detail", "open">>, <<"toggle", "reload">>, <<"update", "submit">>,
   <<"create", "submit">>, <<"create", "import">>, <<"delete", "delete">>,
   <<"test", "dialog">>, <<"test", "all">>}

IsChannelCall(k) ==
  /\ DOMAIN k = {"kind", "ch", "then", "val", "at", "ans"}
  /\ <<k.kind, k.then>> \in Purposes
  /\ k.kind = "detail" => k.ch # None

ChannelCalls(s) == IsSequence(s) /\ \A i \in DOMAIN s : IsChannelCall(s[i])

(* The calls that are out for a purpose, for the switch of a channel, and    *)
(* for its test.                                                             *)
IsSwitch(k, c) == k.ch = c /\ (k.kind = "toggle" \/ (k.kind = "list" /\ k.then = "toggle"))
IsTest(k, c)   == k.ch = c /\ k.kind = "test"

For(s, then)   == {i \in DOMAIN s : s[i].then = then}
Switches(s, c) == {i \in DOMAIN s : IsSwitch(s[i], c)}
Tests(s, c)    == {i \in DOMAIN s : IsTest(s[i], c)}

AtMostOne(A) == \A i, j \in A : i = j
OneWhile(A, flag) == AtMostOne(A) /\ (flag <=> A # {})

(* The flags of the page and the calls they stand for: a switch is out       *)
(* exactly while its row is marked, and once; so are a save and a deletion;  *)
(* what is being tested has a test out.                                      *)
Switched(s, marked) == \A c \in ListedChannel : OneWhile(Switches(s, c), c \in marked)
Pending(s, out)     == \A then \in {"submit", "delete"} : OneWhile(For(s, then), then \in out)
Tested(s, marked)   == \A c \in marked : Tests(s, c) # {}

ProvidersTester ==
  /\ testingAll <=> For(calls, "all") # {}
  /\ DOMAIN tester = {"of", "result", "loading"}
  /\ tester.loading => For(calls, "dialog") # {}

ProvidersEdited ==
  /\ DOMAIN editor = {"mode", "of", "form"}
  /\ editor.form = editor.of
  /\ editor.mode = "edit" => editor.of # None

ProvidersInv ==
  /\ ChannelCalls(calls) /\ Switched(calls, toggling) /\ Pending(calls, pending)
  /\ Tested(calls, testing) /\ ProvidersTester /\ ProvidersEdited

LEMMA ChannelCallsAppended ==
  ASSUME NEW s, ChannelCalls(s), NEW e, IsChannelCall(e)
  PROVE  LET t == Append(s, e)
             n == Len(s) + 1 IN
         /\ ChannelCalls(t) /\ t[n] = e /\ DOMAIN t = DOMAIN s \cup {n} /\ n \notin DOMAIN s
         /\ \A i \in DOMAIN s : t[i] = s[i]
         /\ \A x : For(t, x) = For(s, x) \cup (IF e.then = x THEN {n} ELSE {})
         /\ \A c : Switches(t, c) = Switches(s, c) \cup (IF IsSwitch(e, c) THEN {n} ELSE {})
         /\ \A c : Tests(t, c) = Tests(s, c) \cup (IF IsTest(e, c) THEN {n} ELSE {})
         /\ \A x : n \notin For(s, x) /\ n \notin Switches(s, x) /\ n \notin Tests(s, x)
<1> DEFINE t == Append(s, e)
           n == Len(s) + 1
<1>1. IsSequence(s)
  BY DEF ChannelCalls
<1>2. /\ IsSequence(t) /\ Len(s) \in Nat /\ DOMAIN s = 1..Len(s) /\ DOMAIN t = 1..n
      /\ (\A i \in 1..Len(s) : t[i] = s[i]) /\ t[n] = e
  BY <1>1, Appended
<1> HIDE DEF t
<1>3. DOMAIN t = DOMAIN s \cup {n} /\ n \notin DOMAIN s /\ \A i \in DOMAIN s : t[i] = s[i]
  BY <1>2
<1> HIDE DEF n
<1>4. ChannelCalls(t)
  BY <1>2, <1>3 DEF ChannelCalls
<1>5. \A x : For(t, x) = For(s, x) \cup (IF e.then = x THEN {n} ELSE {}) /\ n \notin For(s, x)
  BY <1>2, <1>3 DEF For
<1>6. \A c : Switches(t, c) = Switches(s, c) \cup (IF IsSwitch(e, c) THEN {n} ELSE {})
             /\ n \notin Switches(s, c)
  BY <1>2, <1>3 DEF Switches
<1>7. \A c : Tests(t, c) = Tests(s, c) \cup (IF IsTest(e, c) THEN {n} ELSE {}) /\ n \notin Tests(s, c)
  BY <1>2, <1>3 DEF Tests
<1> QED
  BY <1>2, <1>3, <1>4, <1>5, <1>6, <1>7 DEF t, n

(* What an answer takes out of the calls, and what stays. *)
LEMMA ChannelCallsLeft ==
  ASSUME NEW s, ChannelCalls(s), NEW i \in DOMAIN s
  PROVE  LET t == Left(s, i) IN
         /\ ChannelCalls(t)
         /\ \A x : /\ For(t, x) # {} <=> For(s, x) \ {i} # {}
                   /\ AtMostOne(For(s, x)) => AtMostOne(For(t, x))
         /\ \A c : /\ Switches(t, c) # {} <=> Switches(s, c) \ {i} # {}
                   /\ AtMostOne(Switches(s, c)) => AtMostOne(Switches(t, c))
         /\ \A c : Tests(t, c) # {} <=> Tests(s, c) \ {i} # {}
<1> DEFINE t == Left(s, i)
<1>1. IsSequence(s)
  BY DEF ChannelCalls
<1>2. /\ IsSequence(t) /\ DOMAIN t = 1..Len(s) - 1 /\ DOMAIN s = 1..Len(s) /\ Len(s) \in Nat
      /\ \A j \in DOMAIN t : Place(i, j) \in DOMAIN s \ {i} /\ t[j] = s[Place(i, j)]
      /\ \A k \in DOMAIN s \ {i} : \E j \in DOMAIN t : Place(i, j) = k /\ t[j] = s[k]
  BY <1>1, Removed
<1> HIDE DEF t
<1>3. ChannelCalls(t)
  BY <1>2 DEF ChannelCalls
<1>4. \A j, k \in DOMAIN t : Place(i, j) = Place(i, k) => j = k
  BY <1>2 DEF Place
<1>5. \A x : /\ For(t, x) # {} <=> For(s, x) \ {i} # {}
             /\ AtMostOne(For(s, x)) => AtMostOne(For(t, x))
  BY <1>2, <1>4 DEF For, AtMostOne
<1>6. \A c : /\ Switches(t, c) # {} <=> Switches(s, c) \ {i} # {}
             /\ AtMostOne(Switches(s, c)) => AtMostOne(Switches(t, c))
  BY <1>2, <1>4 DEF Switches, AtMostOne
<1>7. \A c : Tests(t, c) # {} <=> Tests(s, c) \ {i} # {}
  BY <1>2 DEF Tests
<1> QED
  BY <1>3, <1>5, <1>6, <1>7 DEF t

LEMMA ProvidersInit == Providers!Init => ProvidersInv
<1> SUFFICES ASSUME Providers!Init PROVE ProvidersInv
  OBVIOUS
<1> DEFINE call == [kind |-> "list", ch |-> None, then |-> "shown", val |-> None,
                    at |-> "sent", ans |-> None]
<1>1. /\ calls = <<call>> /\ toggling = {} /\ pending = {} /\ testing = {} /\ testingAll = FALSE
      /\ tester = [of |-> None, result |-> None, loading |-> FALSE]
      /\ editor = [mode |-> "create", of |-> None, form |-> None]
  BY DEF Providers!Init
<1>2. calls \in Seq({call}) /\ DOMAIN calls = 1..1 /\ calls[1] = call
  BY <1>1
<1>3. IsChannelCall(call) /\ call.then = "shown" /\ call.kind = "list"
  BY DEF IsChannelCall, Purposes
<1> HIDE DEF call
<1>4. ChannelCalls(calls)
  BY <1>2, <1>3, SequenceOf DEF ChannelCalls
<1>5. /\ \A x : x # "shown" => For(calls, x) = {}
      /\ \A c : Switches(calls, c) = {}
  BY <1>2, <1>3 DEF For, Switches, IsSwitch
<1> QED
  BY <1>1, <1>4, <1>5
  DEF ProvidersInv, Switched, Pending, Tested, ProvidersTester, ProvidersEdited, OneWhile, AtMostOne

(* An operation sends one call and sets the flag it stands for. *)
LEMMA ProvidersSent ==
  ASSUME ProvidersInv, NEW k, IsChannelCall(k), calls' = Append(calls, k),
         \A c \in ListedChannel :
           IF IsSwitch(k, c) THEN c \notin toggling /\ c \in toggling'
                             ELSE c \in toggling' <=> c \in toggling,
         \A then \in {"submit", "delete"} :
           IF k.then = then THEN then \notin pending /\ then \in pending'
                            ELSE then \in pending' <=> then \in pending,
         \A c \in testing' : c \in testing \/ IsTest(k, c),
         testingAll' = testingAll, k.then # "all",
         \/ tester' = tester
         \/ k.then = "dialog" /\ tester' = [tester EXCEPT !.loading = TRUE],
         ProvidersEdited'
  PROVE  ProvidersInv'
<1>1. ChannelCalls(calls)
  BY DEF ProvidersInv
<1> DEFINE n == Len(calls) + 1
<1>2. /\ ChannelCalls(calls')
      /\ \A x : For(calls', x) = For(calls, x) \cup (IF k.then = x THEN {n} ELSE {})
      /\ \A c : Switches(calls', c) = Switches(calls, c) \cup (IF IsSwitch(k, c) THEN {n} ELSE {})
      /\ \A c : Tests(calls', c) = Tests(calls, c) \cup (IF IsTest(k, c) THEN {n} ELSE {})
  BY <1>1, ChannelCallsAppended
<1> HIDE DEF n
<1>3. Switched(calls', toggling')
  <2> SUFFICES ASSUME NEW c \in ListedChannel PROVE OneWhile(Switches(calls', c), c \in toggling')
    BY DEF Switched
  <2>1. OneWhile(Switches(calls, c), c \in toggling)
    BY DEF ProvidersInv, Switched
  <2>2. CASE IsSwitch(k, c)
    BY <1>2, <2>1, <2>2 DEF OneWhile, AtMostOne
  <2>3. CASE ~IsSwitch(k, c)
    BY <1>2, <2>1, <2>3 DEF OneWhile
  <2> QED
    BY <2>2, <2>3
<1>4. Pending(calls', pending')
  BY <1>2, ZenonT(40) DEF ProvidersInv, Pending, OneWhile, AtMostOne
<1>5. Tested(calls', testing')
  BY <1>2 DEF ProvidersInv, Tested
<1>6. ProvidersTester'
  BY <1>2 DEF ProvidersInv, ProvidersTester
<1> QED
  BY <1>2, <1>3, <1>4, <1>5, <1>6 DEF ProvidersInv

(* The server's work on a call changes neither what it is sent for nor the   *)
(* channel it is about.                                                      *)
LEMMA ProvidersServed ==
  ASSUME ProvidersInv, NEW i \in DOMAIN calls, Providers!Serve(i)
  PROVE  ProvidersInv'
<1>1. UNCHANGED <<toggling, pending, testing, testingAll, tester, editor>>
  BY DEF Providers!Serve, Providers!pageVars, Providers!dialogVars, Providers!flagVars
<1>2. PICK how, ans : Providers!Served(i, how, ans)
  BY DEF Providers!Serve
<1> DEFINE e == [calls[i] EXCEPT !.at = how, !.ans = ans]
<1>3. IsSequence(calls) /\ \A j \in DOMAIN calls : IsChannelCall(calls[j])
  BY DEF ProvidersInv, ChannelCalls
<1>4. /\ calls' = [calls EXCEPT ![i] = e] /\ DOMAIN e = DOMAIN calls[i]
      /\ e.kind = calls[i].kind /\ e.ch = calls[i].ch /\ e.then = calls[i].then
  BY <1>2, <1>3 DEF Providers!Served, IsChannelCall
<1> HIDE DEF e
<1>5. /\ IsSequence(calls') /\ DOMAIN calls' = DOMAIN calls
      /\ calls'[i] = e /\ \A j \in DOMAIN calls \ {i} : calls'[j] = calls[j]
  BY <1>3, <1>4, Replaced
<1>6. ChannelCalls(calls')
  BY <1>3, <1>4, <1>5 DEF ChannelCalls, IsChannelCall
<1>7. \A j \in DOMAIN calls : calls'[j].kind = calls[j].kind /\ calls'[j].ch = calls[j].ch
                             /\ calls'[j].then = calls[j].then
  BY <1>4, <1>5
<1>8. \A x : /\ For(calls', x) = For(calls, x) /\ Switches(calls', x) = Switches(calls, x)
             /\ Tests(calls', x) = Tests(calls, x)
  BY <1>5, <1>7 DEF For, Switches, Tests, IsSwitch, IsTest
<1> QED
  BY <1>1, <1>6, <1>8
  DEF ProvidersInv, Switched, Pending, Tested, ProvidersTester, ProvidersEdited

LEMMA ProvidersKept ==
  ProvidersInv /\ UNCHANGED <<calls, toggling, pending, testing, testingAll, tester, editor>>
    => ProvidersInv'
BY DEF ProvidersInv, ProvidersTester, ProvidersEdited

(* An answer clears the flag its call stood for. *)
LEMMA ProvidersAnswered ==
  ASSUME ProvidersInv, NEW i \in DOMAIN calls, calls' = Left(calls, i),
         \A c \in ListedChannel : c \in toggling' <=> c \in toggling /\ ~IsSwitch(calls[i], c),
         \A then \in {"submit", "delete"} :
           then \in pending' <=> then \in pending /\ calls[i].then # then,
         \A c \in testing' : c \in testing /\ ~IsTest(calls[i], c),
         testingAll' <=> For(calls, "all") \ {i} # {},
         DOMAIN tester' = {"of", "result", "loading"},
         tester'.loading => tester.loading /\ calls[i].then # "dialog",
         ProvidersEdited'
  PROVE  ProvidersInv'
<1>1. ChannelCalls(calls)
  BY DEF ProvidersInv
<1>2. /\ ChannelCalls(calls')
      /\ \A x : /\ For(calls', x) # {} <=> For(calls, x) \ {i} # {}
                /\ AtMostOne(For(calls, x)) => AtMostOne(For(calls', x))
      /\ \A c : /\ Switches(calls', c) # {} <=> Switches(calls, c) \ {i} # {}
                /\ AtMostOne(Switches(calls, c)) => AtMostOne(Switches(calls', c))
      /\ \A c : Tests(calls', c) # {} <=> Tests(calls, c) \ {i} # {}
  BY <1>1, ChannelCallsLeft
<1>3. Switched(calls', toggling')
  <2> SUFFICES ASSUME NEW c \in ListedChannel PROVE OneWhile(Switches(calls', c), c \in toggling')
    BY DEF Switched
  <2>1. OneWhile(Switches(calls, c), c \in toggling) /\ (i \in Switches(calls, c) <=> IsSwitch(calls[i], c))
    BY DEF ProvidersInv, Switched, Switches
  <2>2. CASE IsSwitch(calls[i], c)
    <3>1. Switches(calls, c) \ {i} = {}
      BY <2>1, <2>2 DEF OneWhile, AtMostOne
    <3> QED
      BY <1>2, <2>1, <2>2, <3>1 DEF OneWhile
  <2>3. CASE ~IsSwitch(calls[i], c)
    <3>1. Switches(calls, c) \ {i} = Switches(calls, c)
      BY <2>1, <2>3
    <3> QED
      BY <1>2, <2>1, <2>3, <3>1 DEF OneWhile
  <2> QED
    BY <2>2, <2>3
<1>4. Pending(calls', pending')
  <2> SUFFICES ASSUME NEW then \in {"submit", "delete"}
               PROVE  OneWhile(For(calls', then), then \in pending')
    BY DEF Pending
  <2>1. OneWhile(For(calls, then), then \in pending) /\ (i \in For(calls, then) <=> calls[i].then = then)
    BY DEF ProvidersInv, Pending, For
  <2>2. CASE calls[i].then = then
    <3>1. For(calls, then) \ {i} = {}
      BY <2>1, <2>2 DEF OneWhile, AtMostOne
    <3> QED
      BY <1>2, <2>1, <2>2, <3>1 DEF OneWhile
  <2>3. CASE calls[i].then # then
    <3>1. For(calls, then) \ {i} = For(calls, then)
      BY <2>1, <2>3
    <3> QED
      BY <1>2, <2>1, <2>3, <3>1 DEF OneWhile
  <2> QED
    BY <2>2, <2>3
<1>5. Tested(calls', testing')
  <2> SUFFICES ASSUME NEW c \in testing' PROVE Tests(calls', c) # {}
    BY DEF Tested
  <2>1. Tests(calls, c) # {} /\ i \notin Tests(calls, c)
    BY DEF ProvidersInv, Tested, Tests
  <2> QED
    BY <1>2, <2>1
<1>6. ProvidersTester'
  <2>1. testingAll' <=> For(calls', "all") # {}
    BY <1>2
  <2>2. ASSUME tester'.loading PROVE For(calls', "dialog") # {}
    <3>1. For(calls, "dialog") # {} /\ i \notin For(calls, "dialog")
      BY <2>2 DEF ProvidersInv, ProvidersTester, For
    <3> QED
      BY <1>2, <3>1
  <2> QED
    BY <2>1, <2>2 DEF ProvidersTester
<1> QED
  BY <1>2, <1>3, <1>4, <1>5, <1>6 DEF ProvidersInv

(* A call that an answer sends in place of its own stands for the same. *)
LEMMA ProvidersFollowed ==
  ASSUME ProvidersInv, NEW i \in DOMAIN calls, NEW k, IsChannelCall(k),
         calls' = Append(Left(calls, i), k),
         k.then = calls[i].then \/ (k.then = "toggle" /\ calls[i].then = "reload"),
         \A c : IsSwitch(k, c) <=> IsSwitch(calls[i], c),
         \A c : ~IsTest(calls[i], c),
         UNCHANGED <<toggling, pending, testing, testingAll, tester, editor>>
  PROVE  ProvidersInv'
<1>1. ChannelCalls(calls)
  BY DEF ProvidersInv
<1> DEFINE m == Left(calls, i)
           n == Len(m) + 1
<1>2. /\ ChannelCalls(m)
      /\ \A x : For(m, x) # {} <=> For(calls, x) \ {i} # {}
      /\ \A x : AtMostOne(For(calls, x)) => AtMostOne(For(m, x))
      /\ \A c : Switches(m, c) # {} <=> Switches(calls, c) \ {i} # {}
      /\ \A c : AtMostOne(Switches(calls, c)) => AtMostOne(Switches(m, c))
      /\ \A c : Tests(m, c) # {} <=> Tests(calls, c) \ {i} # {}
  BY <1>1, ChannelCallsLeft
<1> HIDE DEF m
<1>3. /\ ChannelCalls(calls')
      /\ \A x : For(calls', x) = For(m, x) \cup (IF k.then = x THEN {n} ELSE {})
      /\ \A c : Switches(calls', c) = Switches(m, c) \cup (IF IsSwitch(k, c) THEN {n} ELSE {})
      /\ \A c : Tests(calls', c) = Tests(m, c) \cup (IF IsTest(k, c) THEN {n} ELSE {})
  BY <1>2, ChannelCallsAppended DEF m
<1> HIDE DEF n
<1>4. \A x \in {"submit", "delete", "all", "dialog"} : k.then = x <=> calls[i].then = x
  OBVIOUS
<1>5. Switched(calls', toggling')
  <2> SUFFICES ASSUME NEW c \in ListedChannel PROVE OneWhile(Switches(calls', c), c \in toggling)
    BY DEF Switched
  <2>1. OneWhile(Switches(calls, c), c \in toggling) /\ (i \in Switches(calls, c) <=> IsSwitch(calls[i], c))
    BY DEF ProvidersInv, Switched, Switches
  <2>2. CASE IsSwitch(calls[i], c)
    <3>1. Switches(calls, c) \ {i} = {} /\ Switches(calls, c) # {}
      BY <2>1, <2>2 DEF OneWhile, AtMostOne
    <3>2. Switches(calls', c) = {n}
      BY <1>2, <1>3, <2>2, <3>1
    <3> QED
      BY <2>1, <3>1, <3>2 DEF OneWhile, AtMostOne
  <2>3. CASE ~IsSwitch(calls[i], c)
    <3>1. Switches(calls, c) \ {i} = Switches(calls, c) /\ Switches(calls', c) = Switches(m, c)
      BY <1>3, <2>1, <2>3, ZenonT(40)
    <3> QED
      BY <1>2, <2>1, <3>1 DEF OneWhile
  <2> QED
    BY <2>2, <2>3
<1>6. Pending(calls', pending')
  <2> SUFFICES ASSUME NEW then \in {"submit", "delete"}
               PROVE  OneWhile(For(calls', then), then \in pending)
    BY DEF Pending
  <2>1. OneWhile(For(calls, then), then \in pending) /\ (i \in For(calls, then) <=> calls[i].then = then)
    BY DEF ProvidersInv, Pending, For
  <2>2. CASE calls[i].then = then
    <3>1. For(calls, then) \ {i} = {} /\ For(calls, then) # {} /\ k.then = then
      BY <1>4, <2>1, <2>2 DEF OneWhile, AtMostOne
    <3>2. For(calls', then) = {n}
      BY <1>2, <1>3, <3>1
    <3> QED
      BY <2>1, <3>1, <3>2 DEF OneWhile, AtMostOne
  <2>3. CASE calls[i].then # then
    <3>1. For(calls, then) \ {i} = For(calls, then) /\ k.then # then
      BY <1>4, <2>1, <2>3
    <3>2. For(calls', then) = For(m, then) \cup (IF k.then = then THEN {n} ELSE {})
      BY <1>3
    <3>3. For(calls', then) = For(m, then)
      BY <3>1, <3>2
    <3> QED
      BY <1>2, <2>1, <3>1, <3>3 DEF OneWhile
  <2> QED
    BY <2>2, <2>3
<1>7. Tested(calls', testing')
  <2> SUFFICES ASSUME NEW c \in testing PROVE Tests(calls', c) # {}
    BY DEF Tested
  <2>1. Tests(calls, c) # {} /\ i \notin Tests(calls, c)
    BY DEF ProvidersInv, Tested, Tests
  <2> QED
    BY <1>2, <1>3, <2>1
<1>8. ProvidersTester'
  <2>1. \A x \in {"all", "dialog"} : For(calls', x) # {} <=> For(calls, x) # {}
    <3> TAKE x \in {"all", "dialog"}
    <3>1. k.then = x <=> calls[i].then = x
      BY <1>4
    <3>2. i \in For(calls, x) <=> calls[i].then = x
      BY DEF For
    <3> QED
      BY <1>2, <1>3, <3>1, <3>2, SMTT(40)
  <2> QED
    BY <2>1 DEF ProvidersInv, ProvidersTester
<1> QED
  BY <1>3, <1>5, <1>6, <1>7, <1>8 DEF ProvidersInv, ProvidersEdited

(* All elements of a finite set, in some order. *)
LEMMA ListingProperties ==
  ASSUME NEW S, IsFiniteSet(S)
  PROVE  LET s == Providers!Listing(S) IN
         s \in Seq(S) /\ \A e \in S : \E j \in DOMAIN s : s[j] = e
<1> DEFINE n == Cardinality(S)
           s == Providers!Listing(S)
<1>1. n \in Nat /\ ExistsBijection(1..n, S)
  BY FS_CardinalityType
<1>2. \E f \in [1..n -> S] : \A j, k \in DOMAIN f : f[j] = f[k] => j = k
  BY <1>1 DEF ExistsBijection, Bijection, Injection, IsInjective
<1>3. s \in [1..n -> S] /\ \A j, k \in DOMAIN s : s[j] = s[k] => j = k
  <2>1. s = CHOOSE f \in [1..n -> S] : \A j, k \in DOMAIN f : f[j] = f[k] => j = k
    BY DEF Providers!Listing, Providers!Cardinality, Cardinality
  <2> HIDE DEF s, n
  <2> QED
    BY <1>2, <2>1
<1>4. s \in Injection(1..n, S)
  BY <1>3 DEF Injection, IsInjective
<1>5. n = Cardinality(1..n)
  BY <1>1, FS_Interval
<1>6. s \in Surjection(1..n, S)
  BY <1>4, <1>5, FS_Injection
<1>7. s \in Seq(S)
  BY <1>1, <1>3, SeqDef
<1> QED
  BY <1>3, <1>6, <1>7 DEF Surjection

LEMMA ProvidersSentOne ==
  ASSUME ProvidersInv, NEW k, Providers!Operate(<<k>>)
  PROVE  calls' = Append(calls, k) /\ testingAll' = testingAll
<1> DEFINE S == {calls[i] : i \in DOMAIN calls} \cup {k}
<1>1. calls \in Seq(S)
  BY SeqMonotonic DEF ProvidersInv, ChannelCalls, IsSequence
<1>2. k \in S
  OBVIOUS
<1> HIDE DEF S
<1>3. calls \o <<k>> = Append(calls, k)
  BY <1>1, <1>2, AppendIsConcat
<1> QED
  BY <1>3 DEF Providers!Operate, Providers!pageVars

(* The test of all channels sends a test of each one listed. *)
LEMMA ProvidersAllTested ==
  ASSUME ProvidersInv, Providers!TestAllProviders
  PROVE  /\ ProvidersInv'
         /\ \A j \in DOMAIN calls : j \in DOMAIN calls' /\ calls'[j] = calls[j]
         /\ \A j \in DOMAIN calls' \ DOMAIN calls :
              calls'[j].kind = "test" /\ calls'[j].at = "sent" /\ calls'[j].ch \in ListedChannel
         /\ Len(calls') <= MaxCalls["providers"]
<1> DEFINE S == {Providers!Call("test", c, "all", None) : c \in Providers!Listed}
           new == Providers!Listing(S)
<1>1. /\ calls' = calls \o new /\ testing' = testing \cup Providers!Listed /\ testingAll' = TRUE
      /\ ~testingAll /\ Providers!Listed # {}
      /\ UNCHANGED <<toggling, pending, tester, editor>>
  BY DEF Providers!TestAllProviders, Providers!dialogVars
<1>2. \A e \in S : /\ IsChannelCall(e) /\ e.then = "all" /\ e.kind = "test" /\ e.at = "sent"
                   /\ e.ch \in ListedChannel /\ \A c : ~IsSwitch(e, c)
  BY DEF Providers!Call, Providers!Listed, IsChannelCall, Purposes, IsSwitch
<1>3. ASSUME NEW c \in Providers!Listed PROVE \E e \in S : IsTest(e, c)
  <2> DEFINE k == Providers!Call("test", c, "all", None)
  <2>1. k \in S /\ IsTest(k, c)
    BY DEF Providers!Call, IsTest
  <2> QED
    BY <2>1
<1>4. IsFiniteSet(S)
  <2> DEFINE f == [c \in Providers!Listed |-> Providers!Call("test", c, "all", None)]
  <2>1. IsFiniteSet(Providers!Listed)
    BY FS_Subset, ChannelsAssumption DEF Providers!Listed
  <2>2. f \in Surjection(Providers!Listed, S)
    BY DEF Surjection
  <2> QED
    BY <2>1, <2>2, FS_Surjection
<1>5. new \in Seq(S) /\ \A e \in S : \E j \in DOMAIN new : new[j] = e
  BY <1>4, ListingProperties
<1>6. S # {}
  BY <1>1
<1>7. Len(calls) + Len(new) <= MaxCalls["providers"]
  BY DEF Providers!TestAllProviders
<1> HIDE DEF S, new
<1> DEFINE T == {calls[i] : i \in DOMAIN calls} \cup S
<1>8. calls \in Seq(T) /\ new \in Seq(T)
  BY <1>5, SeqMonotonic DEF ProvidersInv, ChannelCalls, IsSequence
<1> HIDE DEF T
<1>9. /\ calls' \in Seq(T) /\ Len(calls') = Len(calls) + Len(new)
      /\ \A j \in 1..Len(calls) + Len(new) :
           calls'[j] = IF j <= Len(calls) THEN calls[j] ELSE new[j - Len(calls)]
  BY <1>1, <1>8, ConcatProperties
<1>10. /\ DOMAIN calls = 1..Len(calls) /\ Len(calls) \in Nat
      /\ DOMAIN new = 1..Len(new) /\ Len(new) \in Nat /\ \A j \in DOMAIN new : new[j] \in S
  BY <1>5, <1>8, LenProperties
<1>11. IsSequence(calls') /\ DOMAIN calls' = 1..Len(calls) + Len(new)
  BY <1>9, <1>10, SequenceOf
<1>12. \A j \in DOMAIN calls : j \in DOMAIN calls' /\ calls'[j] = calls[j]
  BY <1>9, <1>10, <1>11
<1>13. \A j \in DOMAIN new : Len(calls) + j \in DOMAIN calls' \ DOMAIN calls
                            /\ calls'[Len(calls) + j] = new[j]
  BY <1>9, <1>10, <1>11
<1>14. ASSUME NEW j \in DOMAIN calls' \ DOMAIN calls PROVE calls'[j] \in S
  <2>1. ~(j <= Len(calls)) /\ j - Len(calls) \in DOMAIN new
    BY <1>10, <1>11
  <2> QED
    BY <1>9, <1>10, <1>11, <2>1
<1>15. ChannelCalls(calls')
  BY <1>2, <1>11, <1>12, <1>14 DEF ProvidersInv, ChannelCalls
<1>16. \A x : x # "all" => For(calls', x) = For(calls, x)
  BY <1>2, <1>12, <1>14 DEF For
<1>17. \A c : Switches(calls', c) = Switches(calls, c)
  BY <1>2, <1>12, <1>14 DEF Switches
<1>18. For(calls', "all") # {}
  BY <1>2, <1>5, <1>6, <1>13 DEF For
<1>19. Tested(calls', testing')
  <2> SUFFICES ASSUME NEW c \in testing' PROVE Tests(calls', c) # {}
    BY DEF Tested
  <2>1. CASE c \in testing
    BY <1>12, <2>1 DEF ProvidersInv, Tested, Tests
  <2>2. CASE c \in Providers!Listed
    <3>1. PICK e \in S : IsTest(e, c)
      BY <1>3, <2>2
    <3> QED
      BY <1>5, <1>13, <3>1 DEF Tests
  <2> QED
    BY <1>1, <2>1, <2>2
<1>20. Len(calls') <= MaxCalls["providers"]
  BY <1>9, <1>7
<1> QED
  BY <1>1, <1>2, <1>12, <1>14, <1>15, <1>16, <1>17, <1>18, <1>19, <1>20
  DEF ProvidersInv, Switched, Pending, ProvidersTester, ProvidersEdited

LEMMA ProvidersStep == ProvidersInv /\ Providers!Next => ProvidersInv'
<1> SUFFICES ASSUME ProvidersInv, Providers!Next PROVE ProvidersInv'
  OBVIOUS
<1> USE DEF Providers!flagVars, Providers!dialogVars, Providers!pageVars
<1>1. CASE \/ \E d \in Providers!Children : Providers!CloseChild(d)
           \/ Providers!CloseForm \/ Providers!OpenSyncDialog
           \/ Providers!OpenExport \/ Providers!OpenImport \/ Providers!EditConfigJson
           \/ Providers!ChildTimerFires
  BY <1>1, ProvidersKept
  DEF Providers!CloseChild, Providers!CloseForm, Providers!OpenSyncDialog, Providers!OpenExport,
      Providers!OpenImport, Providers!EditConfigJson, Providers!ChildTimerFires, Providers!Quietly
<1>2. CASE Providers!OpenCreateDialog
  <2>1. /\ editor' = [mode |-> "create", of |-> None, form |-> None]
        /\ UNCHANGED <<calls, toggling, pending, testing, testingAll, tester>>
    BY <1>2 DEF Providers!OpenCreateDialog, Providers!Quietly
  <2>2. ProvidersEdited'
    BY <2>1 DEF ProvidersEdited
  <2> QED
    BY <2>1, <2>2 DEF ProvidersInv, ProvidersTester
<1>3. ASSUME NEW c \in ListedChannel, Providers!OpenEditDialog(c)
      PROVE  ProvidersInv'
  <2> DEFINE k == Providers!Call("detail", c, "open", None)
  <2>1. /\ calls' = Append(calls, k) /\ editor' = [mode |-> "edit", of |-> c, form |-> c]
        /\ UNCHANGED <<toggling, pending, testing, testingAll, tester>>
    BY <1>3, ProvidersSentOne DEF Providers!OpenEditDialog
  <2>2. IsChannelCall(k) /\ k.then = "open" /\ \A x : ~IsSwitch(k, x) /\ ~IsTest(k, x)
    BY ChannelsAssumption DEF Providers!Call, IsChannelCall, Purposes, IsSwitch, IsTest
  <2>3. ProvidersEdited'
    BY <2>1, ChannelsAssumption DEF ProvidersEdited
  <2> HIDE DEF k
  <2> QED
    BY <2>1, <2>2, <2>3, ProvidersSent
<1>4. ASSUME NEW c, Providers!OpenDeleteDialog(c)
      PROVE  ProvidersInv'
  BY <1>4, ProvidersKept DEF Providers!OpenDeleteDialog, Providers!Quietly
<1>5. ASSUME NEW c, Providers!OpenTestDialog(c)
      PROVE  ProvidersInv'
  BY <1>5 DEF Providers!OpenTestDialog, Providers!Quietly, ProvidersInv, ProvidersTester, ProvidersEdited
<1>6. ASSUME NEW c \in ListedChannel, Providers!ToggleSingleProvider(c)
      PROVE  ProvidersInv'
  <2> DEFINE k == Providers!Call("toggle", c, "reload", ~providers[c].enabled)
  <2>1. /\ calls' = Append(calls, k) /\ c \notin toggling /\ toggling' = toggling \cup {c}
        /\ UNCHANGED <<pending, testing, testingAll, tester, editor>>
    BY <1>6, ProvidersSentOne DEF Providers!ToggleSingleProvider
  <2>2. /\ IsChannelCall(k) /\ k.then = "reload" /\ \A x : ~IsTest(k, x)
        /\ \A x : IsSwitch(k, x) <=> x = c
    BY DEF Providers!Call, IsChannelCall, Purposes, IsSwitch, IsTest
  <2> HIDE DEF k
  <2> QED
    BY <2>1, <2>2, ProvidersSent DEF ProvidersInv, ProvidersEdited
<1>7. CASE Providers!HandleSubmit
  <2>1. PICK kind, c : /\ kind \in {"create", "update"}
                       /\ Providers!Operate(<<Providers!Call(kind, c, "submit", None)>>)
    BY <1>7 DEF Providers!HandleSubmit
  <2> DEFINE k == Providers!Call(kind, c, "submit", None)
  <2>2. /\ calls' = Append(calls, k) /\ "submit" \notin pending /\ pending' = pending \cup {"submit"}
        /\ UNCHANGED <<toggling, testing, testingAll, tester, editor>>
    BY <1>7, <2>1, ProvidersSentOne DEF Providers!HandleSubmit, Providers!CanSubmit
  <2>3. IsChannelCall(k) /\ k.then = "submit" /\ \A x : ~IsSwitch(k, x) /\ ~IsTest(k, x)
    BY <2>1 DEF Providers!Call, IsChannelCall, Purposes, IsSwitch, IsTest
  <2> HIDE DEF k
  <2> QED
    BY <2>2, <2>3, ProvidersSent DEF ProvidersInv, ProvidersEdited
<1>8. CASE Providers!HandleDeleteProvider
  <2> DEFINE k == Providers!Call("delete", deleting, "delete", None)
  <2>1. /\ calls' = Append(calls, k) /\ "delete" \notin pending /\ pending' = pending \cup {"delete"}
        /\ UNCHANGED <<toggling, testing, testingAll, tester, editor>>
    BY <1>8, ProvidersSentOne DEF Providers!HandleDeleteProvider, Providers!CanDelete
  <2>2. IsChannelCall(k) /\ k.then = "delete" /\ \A x : ~IsSwitch(k, x) /\ ~IsTest(k, x)
    BY DEF Providers!Call, IsChannelCall, Purposes, IsSwitch, IsTest
  <2> HIDE DEF k
  <2> QED
    BY <2>1, <2>2, ProvidersSent DEF ProvidersInv, ProvidersEdited
<1>9. CASE Providers!HandleTestDialogTest
  <2> DEFINE k == Providers!Call("test", tester.of, "dialog", None)
  <2>1. /\ calls' = Append(calls, k) /\ testing' = testing \cup {tester.of}
        /\ tester' = [tester EXCEPT !.loading = TRUE]
        /\ UNCHANGED <<toggling, pending, testingAll, editor>>
    BY <1>9, ProvidersSentOne DEF Providers!HandleTestDialogTest
  <2>2. /\ IsChannelCall(k) /\ k.then = "dialog" /\ IsTest(k, tester.of)
        /\ \A x : ~IsSwitch(k, x)
    BY DEF Providers!Call, IsChannelCall, Purposes, IsSwitch, IsTest
  <2> HIDE DEF k
  <2> QED
    BY <2>1, <2>2, ProvidersSent DEF ProvidersInv, ProvidersEdited
<1>10. CASE Providers!HandleImport
  <2>1. CASE Providers!Quietly
    BY <1>10, <2>1, ProvidersKept DEF Providers!HandleImport, Providers!Quietly
  <2>2. CASE ~Providers!Quietly
    <3> DEFINE k == Providers!Call("create", Head(transfer.entries), "import", Tail(transfer.entries))
    <3>1. /\ calls' = Append(calls, k)
          /\ UNCHANGED <<toggling, pending, testing, testingAll, tester, editor>>
      BY <1>10, <2>2, ProvidersSentOne DEF Providers!HandleImport
    <3>2. IsChannelCall(k) /\ k.then = "import" /\ \A x : ~IsSwitch(k, x) /\ ~IsTest(k, x)
      BY DEF Providers!Call, IsChannelCall, Purposes, IsSwitch, IsTest
    <3> HIDE DEF k
    <3> QED
      BY <3>1, <3>2, ProvidersSent DEF ProvidersInv, ProvidersEdited
  <2> QED
    BY <2>1, <2>2
<1>11. ASSUME NEW i \in DOMAIN calls, Providers!Serve(i)
       PROVE  ProvidersInv'
  BY <1>11, ProvidersServed
<1>12. ASSUME NEW i \in DOMAIN calls, Providers!Answer(i)
       PROVE  ProvidersInv'
  <2>1. Providers!Rest(i) = Left(calls, i)
    BY DEF Providers!Rest, Providers!WithoutAt, Left
  <2>2. IsChannelCall(calls[i])
    BY DEF ProvidersInv, ChannelCalls
  <2>3. calls[i].then # "all" => For(calls, "all") \ {i} = For(calls, "all")
    BY DEF For
  <2>4. CASE Providers!ListAnswered(i)
    <3>1. /\ calls' = Left(calls, i) /\ calls[i].kind = "list"
          /\ toggling' = IF calls[i].then = "toggle" THEN toggling \ {calls[i].ch} ELSE toggling
          /\ pending' = pending \ {calls[i].then}
          /\ UNCHANGED <<testing, testingAll, tester, editor>>
      BY <2>1, <2>4 DEF Providers!ListAnswered, Providers!Answered
    <3>2. calls[i].then \notin {"all", "dialog"} /\ \A c : ~IsTest(calls[i], c)
      BY <2>2, <3>1 DEF IsChannelCall, Purposes, IsTest
    <3>3. \A c : IsSwitch(calls[i], c) <=> calls[i].ch = c /\ calls[i].then = "toggle"
      BY <3>1 DEF IsSwitch
    <3>4. \A c \in ListedChannel : c \in toggling' <=> c \in toggling /\ ~IsSwitch(calls[i], c)
      BY <3>1, <3>3
    <3>5. testingAll' <=> For(calls, "all") \ {i} # {}
      BY <2>3, <3>1, <3>2 DEF ProvidersInv, ProvidersTester
    <3> QED
      BY <3>1, <3>2, <3>4, <3>5, ProvidersAnswered DEF ProvidersInv, ProvidersTester, ProvidersEdited
  <2>5. CASE Providers!DetailAnswered(i)
    <3>1. /\ calls' = Left(calls, i) /\ calls[i].kind = "detail"
          /\ editor' = editor \/ editor' = [editor EXCEPT !.of = calls[i].ch, !.form = calls[i].ch]
          /\ UNCHANGED <<toggling, pending, testing, testingAll, tester>>
      BY <2>1, <2>5 DEF Providers!DetailAnswered, Providers!Answered, Providers!FilledFor
    <3>2. /\ calls[i].then = "open" /\ calls[i].ch # None
          /\ \A c : ~IsTest(calls[i], c) /\ ~IsSwitch(calls[i], c)
      BY <2>2, <3>1 DEF IsChannelCall, Purposes, IsTest, IsSwitch
    <3>3. ProvidersEdited'
      BY <3>1, <3>2 DEF ProvidersInv, ProvidersEdited
    <3>4. testingAll' <=> For(calls, "all") \ {i} # {}
      BY <2>3, <3>1, <3>2 DEF ProvidersInv, ProvidersTester
    <3> QED
      BY <3>1, <3>2, <3>3, <3>4, ProvidersAnswered DEF ProvidersInv, ProvidersTester
  <2>6. CASE Providers!ToggleAnswered(i)
    <3> DEFINE k == Providers!Call("list", calls[i].ch, "toggle", None)
    <3>1. /\ calls' = Append(Left(calls, i), k) /\ calls[i].kind = "toggle"
          /\ UNCHANGED <<toggling, pending, testing, testingAll, tester, editor>>
      BY <2>1, <2>6 DEF Providers!ToggleAnswered, Providers!Answered, Providers!Reload
    <3>2. calls[i].then = "reload" /\ \A c : ~IsTest(calls[i], c)
      BY <2>2, <3>1 DEF IsChannelCall, Purposes, IsTest
    <3>3. IsChannelCall(k) /\ k.then = "toggle" /\ \A c : IsSwitch(k, c) <=> IsSwitch(calls[i], c)
      BY <3>1 DEF Providers!Call, IsChannelCall, Purposes, IsSwitch
    <3> HIDE DEF k
    <3> QED
      BY <3>1, <3>2, <3>3, ProvidersFollowed
  <2>7. ASSUME NEW then \in {"submit", "delete", "import"}, NEW kind \in {"create", "list"},
               NEW ch, NEW val,
               calls' = Append(Left(calls, i), Providers!Call(kind, ch, then, val)),
               kind = "create" => then = "import",
               calls[i].kind \in {"create", "update", "delete"}, calls[i].then = then,
               UNCHANGED <<toggling, pending, testing, testingAll, tester, editor>>
        PROVE  ProvidersInv'
    <3> DEFINE k == Providers!Call(kind, ch, then, val)
    <3>1. \A c : ~IsTest(calls[i], c) /\ ~IsSwitch(calls[i], c)
      BY <2>7 DEF IsTest, IsSwitch
    <3>2. IsChannelCall(k) /\ k.then = then /\ \A c : ~IsSwitch(k, c)
      BY <2>7 DEF Providers!Call, IsChannelCall, Purposes, IsSwitch
    <3> HIDE DEF k
    <3> QED
      BY <2>7, <3>1, <3>2, ProvidersFollowed DEF k
  <2>8. ASSUME calls' = Left(calls, i), calls[i].kind \in {"create", "update", "delete"},
               pending' = pending \ {calls[i].then},
               UNCHANGED <<toggling, testing, testingAll, tester, editor>>
        PROVE  ProvidersInv'
    <3>1. /\ calls[i].then \notin {"all", "dialog"}
          /\ \A c : ~IsTest(calls[i], c) /\ ~IsSwitch(calls[i], c)
      BY <2>2, <2>8 DEF IsChannelCall, Purposes, IsTest, IsSwitch
    <3>2. testingAll' <=> For(calls, "all") \ {i} # {}
      BY <2>3, <2>8, <3>1 DEF ProvidersInv, ProvidersTester
    <3> QED
      BY <2>8, <3>1, <3>2, ProvidersAnswered DEF ProvidersInv, ProvidersTester, ProvidersEdited
  <2>9. CASE Providers!SubmitAnswered(i)
    <3>1. calls[i].kind \in {"create", "update"} /\ calls[i].then = "submit"
          /\ UNCHANGED <<toggling, testing, testingAll, tester, editor>>
      BY <2>9 DEF Providers!SubmitAnswered, Providers!Answered
    <3>2. CASE Providers!Failed(i)
      BY <2>1, <2>8, <2>9, <3>1, <3>2 DEF Providers!SubmitAnswered, Providers!SubmitDone
    <3>3. CASE ~Providers!Failed(i)
      BY <2>1, <2>7, <2>9, <3>1, <3>3 DEF Providers!SubmitAnswered, Providers!Reload
    <3> QED
      BY <3>2, <3>3
  <2>10. CASE Providers!DeleteAnswered(i)
    <3>1. calls[i].kind = "delete" /\ UNCHANGED <<toggling, testing, testingAll, tester, editor>>
      BY <2>10 DEF Providers!DeleteAnswered, Providers!Answered
    <3>2. calls[i].then = "delete"
      BY <2>2, <3>1 DEF IsChannelCall, Purposes
    <3>3. CASE Providers!Failed(i)
      BY <2>1, <2>8, <2>10, <3>1, <3>2, <3>3 DEF Providers!DeleteAnswered
    <3>4. CASE ~Providers!Failed(i)
      BY <2>1, <2>7, <2>10, <3>1, <3>2, <3>4 DEF Providers!DeleteAnswered, Providers!Reload
    <3> QED
      BY <3>3, <3>4
  <2>11. CASE Providers!ImportAnswered(i)
    <3>1. calls[i].kind = "create" /\ calls[i].then = "import"
          /\ UNCHANGED <<toggling, pending, testing, testingAll, tester, editor>>
      BY <2>11 DEF Providers!ImportAnswered, Providers!Answered
    <3>2. CASE Providers!Failed(i)
      <4>1. calls' = Left(calls, i)
        BY <2>1, <2>11, <3>2 DEF Providers!ImportAnswered
      <4>2. \A c : ~IsTest(calls[i], c) /\ ~IsSwitch(calls[i], c)
        BY <3>1 DEF IsTest, IsSwitch
      <4>3. testingAll' <=> For(calls, "all") \ {i} # {}
        BY <2>3, <3>1 DEF ProvidersInv, ProvidersTester
      <4> QED
        BY <3>1, <4>1, <4>2, <4>3, ProvidersAnswered
        DEF ProvidersInv, ProvidersTester, ProvidersEdited
    <3>3. CASE ~Providers!Failed(i)
      BY <2>1, <2>7, <2>11, <3>1, <3>3 DEF Providers!ImportAnswered, Providers!Reload
    <3> QED
      BY <3>2, <3>3
  <2>12. CASE Providers!TestAnswered(i)
    <3>1. /\ calls' = Left(calls, i) /\ calls[i].kind = "test"
          /\ testing' = testing \ {calls[i].ch} /\ UNCHANGED <<toggling, pending, editor>>
      BY <2>1, <2>12 DEF Providers!TestAnswered, Providers!Answered
    <3>2. calls[i].then \in {"dialog", "all"} /\ \A c : ~IsSwitch(calls[i], c)
      BY <2>2, <3>1 DEF IsChannelCall, Purposes, IsSwitch
    <3>3. \A c \in testing' : c \in testing /\ ~IsTest(calls[i], c)
      BY <3>1 DEF IsTest
    <3>4. CASE calls[i].then = "dialog"
      <4>1. tester' = [tester EXCEPT !.result = calls[i].ch, !.loading = FALSE] /\ testingAll' = testingAll
        BY <2>12, <3>4 DEF Providers!TestAnswered
      <4>2. DOMAIN tester' = {"of", "result", "loading"} /\ ~tester'.loading
        BY <4>1 DEF ProvidersInv, ProvidersTester
      <4>3. testingAll' <=> For(calls, "all") \ {i} # {}
        BY <2>3, <3>4, <4>1 DEF ProvidersInv, ProvidersTester
      <4> QED
        BY <3>1, <3>2, <3>3, <4>2, <4>3, ProvidersAnswered DEF ProvidersInv, ProvidersEdited
    <3>5. CASE calls[i].then = "all"
      <4>1. tester' = tester /\ testingAll' = Providers!TestsLeft(i)
        BY <2>12, <3>5 DEF Providers!TestAnswered
      <4>2. testingAll' <=> For(calls, "all") \ {i} # {}
        BY <4>1 DEF Providers!TestsLeft, For
      <4> QED
        BY <3>1, <3>2, <3>3, <3>5, <4>1, <4>2, ProvidersAnswered
        DEF ProvidersInv, ProvidersTester, ProvidersEdited
    <3> QED
      BY <3>2, <3>4, <3>5
  <2> QED
    BY <1>12, <2>4, <2>5, <2>6, <2>9, <2>10, <2>11, <2>12 DEF Providers!Answer
<1> QED
  BY <1>1, <1>2, <1>3, <1>4, <1>5, <1>6, <1>7, <1>8, <1>9, <1>10, <1>11, <1>12, ProvidersAllTested
  DEF Providers!Next, Providers!User, Providers!Respond

LEMMA OneCounted ==
  ASSUME NEW s, IsSequence(s), NEW A, A \subseteq DOMAIN s, NEW flag, OneWhile(A, flag)
  PROVE  Providers!Cardinality(A) = IF flag THEN 1 ELSE 0
<1>1. CASE A = {}
  BY <1>1, FS_EmptySet DEF OneWhile, Providers!Cardinality, Cardinality
<1>2. CASE A # {}
  <2>1. PICK x : A = {x}
    BY <1>2 DEF OneWhile, AtMostOne
  <2> QED
    BY <1>2, <2>1, FS_Singleton DEF OneWhile, Providers!Cardinality, Cardinality
<1> QED
  BY <1>1, <1>2

LEMMA ProvidersProperty ==
  ProvidersInv =>
    /\ Providers!TogglingExact /\ Providers!SpinnersBacked
    /\ Providers!OneAtATime /\ Providers!SavesWhatItShows
<1> SUFFICES ASSUME ProvidersInv
             PROVE  /\ Providers!TogglingExact /\ Providers!SpinnersBacked
                    /\ Providers!OneAtATime /\ Providers!SavesWhatItShows
  OBVIOUS
<1>1. Providers!TogglingExact
  <2> SUFFICES ASSUME NEW c \in ListedChannel
               PROVE  Providers!Cardinality(Providers!Out("toggle", c, "reload")
                                              \cup Providers!Out("list", c, "toggle")) =
                        IF c \in toggling THEN 1 ELSE 0
    BY DEF Providers!TogglingExact
  <2>1. Providers!Out("toggle", c, "reload") \cup Providers!Out("list", c, "toggle") = Switches(calls, c)
    BY DEF ProvidersInv, ChannelCalls, IsChannelCall, Purposes, Providers!Out, Switches, IsSwitch
  <2>2. Switches(calls, c) \subseteq DOMAIN calls
    BY DEF Switches
  <2>3. OneWhile(Switches(calls, c), c \in toggling) /\ IsSequence(calls)
    BY DEF ProvidersInv, Switched, ChannelCalls
  <2>4. Providers!Cardinality(Switches(calls, c)) = IF c \in toggling THEN 1 ELSE 0
    BY <2>2, <2>3, OneCounted
  <2> QED
    BY <2>1, <2>4
<1>2. Providers!SpinnersBacked
  <2>1. \A c : Tests(calls, c) = Providers!Out("test", c, "dialog") \cup Providers!Out("test", c, "all")
    BY DEF ProvidersInv, ChannelCalls, IsChannelCall, Purposes, Providers!Out, Tests, IsTest
  <2> QED
    BY <2>1 DEF ProvidersInv, Tested, ProvidersTester, For, Providers!SpinnersBacked
<1>3. Providers!OneAtATime
  <2>1. \A then : For(calls, then) \subseteq DOMAIN calls
    BY DEF For
  <2>2. Providers!Cardinality(For(calls, "submit")) = IF "submit" \in pending THEN 1 ELSE 0
    BY <2>1, OneCounted DEF ProvidersInv, Pending, ChannelCalls
  <2>3. Providers!Cardinality(For(calls, "delete")) = IF "delete" \in pending THEN 1 ELSE 0
    BY <2>1, OneCounted DEF ProvidersInv, Pending, ChannelCalls
  <2> QED
    BY <2>2, <2>3 DEF Providers!OneAtATime, For
<1>4. Providers!SavesWhatItShows
  BY DEF ProvidersInv, ProvidersEdited, Providers!SavesWhatItShows
<1> QED
  BY <1>1, <1>2, <1>3, <1>4

(***************************************************************************)
(* The models page.                                                        *)
(***************************************************************************)
MetadataField == Models!Price \cup {"context"}
MetadataDraft == [MetadataField -> Int \cup {Blank}]

(* What is sent to the metadata of a model is usable. *)
Usable(sent) ==
  /\ sent.context # None => sent.context \in {2 * k : k \in 1..sent.context}
  /\ sent.pricing # None =>
       /\ sent.pricing["input"] # None /\ sent.pricing["output"] # None
       /\ \A x \in Models!Price : sent.pricing[x] # None => sent.pricing[x] >= 0

IsModelCall(k) ==
  /\ DOMAIN k = {"kind", "model", "val", "at"}
  /\ k.kind = "load" /\ k.at = "ok" => k.val \in ServedModels
  /\ k.kind = "save" /\ k.at = "sent" => Usable(k.val)

ModelsData ==
  /\ served \in ServedModels
  /\ models = None \/ models \in ServedModels
  /\ DOMAIN edit = {"open", "model", "draft", "error"} /\ edit.draft \in MetadataDraft
  /\ DOMAIN test = {"open", "model", "result", "loading"}

(* The tests that are out are of the model the dialog names. *)
ModelsTested ==
  crossed = FALSE =>
    /\ \A i \in DOMAIN calls : calls[i].kind = "test" => calls[i].model = test.model
    /\ test.result # None => test.result = test.model

ModelsInv ==
  /\ IsSequence(calls) /\ \A i \in DOMAIN calls : IsModelCall(calls[i])
  /\ ModelsData /\ ModelsTested /\ crossed \in BOOLEAN

LEMMA ModelsInit == Models!Init => ModelsInv
<1> SUFFICES ASSUME Models!Init PROVE ModelsInv
  OBVIOUS
<1> DEFINE call == Models!Call("load", None, None)
<1>1. calls \in Seq({call}) /\ DOMAIN calls = 1..1 /\ calls[1] = call
  BY DEF Models!Init
<1>2. IsModelCall(call) /\ call.kind = "load"
  BY DEF Models!Call, IsModelCall
<1> HIDE DEF call
<1>3. IsSequence(calls) /\ \A i \in DOMAIN calls : calls[i] = call
  BY <1>1, SequenceOf
<1>4. ModelsData
  BY DEF Models!Init, ModelsData, MetadataDraft, MetadataField, Models!EmptyDraft
<1>5. ModelsTested /\ crossed \in BOOLEAN
  BY <1>2, <1>3 DEF Models!Init, ModelsTested
<1> QED
  BY <1>2, <1>3, <1>4, <1>5 DEF ModelsInv

LEMMA ModelsKept ==
  ModelsInv /\ UNCHANGED <<served, models, test, edit, calls, crossed>> => ModelsInv'
BY DEF ModelsInv, ModelsData, ModelsTested

(* The form starts from numbers and empty texts. *)
LEMMA DraftOfModel ==
  ASSUME NEW list \in ServedModels, NEW m \in DOMAIN list
  PROVE  Models!CreateMetadataDraft(list[m]) \in MetadataDraft
<1> DEFINE x == list[m]
           over == x.override
           pricing == IF over # None /\ over.pricing # None THEN over.pricing ELSE x.pricing
           context == Models!First(IF over = None THEN None ELSE over.context, x.context)
<1>1. IsMetadata(x) /\ (over # None => IsMetadata(over))
  BY MetadataAssumption
<1> HIDE DEF x
<1>2. context \in Int \cup {None}
  BY <1>1 DEF IsMetadata, Models!First
<1>3. pricing # None => \A p \in Models!Price : pricing[p] \in Int \cup {None}
  BY <1>1 DEF IsMetadata
<1>4. Models!CreateMetadataDraft(x) =
        [p \in Models!Price \cup {"context"} |->
           IF p = "context" THEN Models!NumberToDraft(context)
           ELSE IF pricing = None THEN Blank ELSE Models!NumberToDraft(pricing[p])]
  BY DEF Models!CreateMetadataDraft
<1> HIDE DEF pricing, context
<1>5. Models!CreateMetadataDraft(x) \in MetadataDraft
  BY <1>2, <1>3, <1>4 DEF MetadataDraft, MetadataField, Models!NumberToDraft
<1> QED
  BY <1>5 DEF x

(* A draft that parses makes usable metadata. *)
LEMMA DraftUsable ==
  ASSUME NEW draft \in MetadataDraft, Models!Parses(draft)
  PROVE  Usable(Models!Metadata(draft))
<1> DEFINE sent == Models!Metadata(draft)
<1>1. \A p \in MetadataField : draft[p] \in Int \cup {Blank}
  BY DEF MetadataDraft
<1>2. sent.context = Models!ParsedNumber(draft["context"]) /\ sent.pricing = Models!BuildPricing(draft)
  BY DEF Models!Metadata
<1>3. ASSUME sent.context # None
      PROVE  sent.context \in {2 * k : k \in 1..sent.context}
  <2> DEFINE n == draft["context"]
  <2>1. n # Blank /\ sent.context = n
    BY <1>2, <1>3 DEF Models!ParsedNumber
  <2>2. n \in Int /\ n % 2 = 0 /\ n >= 2
    BY <1>1, <2>1 DEF MetadataField, Models!Parses, Models!ValidContext
  <2> HIDE DEF n
  <2>3. n \div 2 \in 1..n /\ n = 2 * (n \div 2)
    BY <2>2
  <2> QED
    BY <2>1, <2>3
<1>4. ASSUME sent.pricing # None
      PROVE  /\ sent.pricing["input"] # None /\ sent.pricing["output"] # None
             /\ \A x \in Models!Price : sent.pricing[x] # None => sent.pricing[x] >= 0
  <2>1. /\ \E x \in Models!Price : draft[x] # Blank
        /\ sent.pricing = [x \in Models!Price |-> Models!ParsedNumber(draft[x])]
    BY <1>2, <1>4 DEF Models!BuildPricing
  <2>2. draft["input"] # Blank /\ draft["output"] # Blank
    BY <2>1 DEF Models!Parses, Models!ValidPrices
  <2>3. \A x \in Models!Price : draft[x] # Blank => draft[x] >= 0
    BY DEF Models!Parses, Models!ValidPrices
  <2>4. \A x \in Models!Price : sent.pricing[x] = IF draft[x] = Blank THEN None ELSE draft[x]
    BY <2>1 DEF Models!ParsedNumber
  <2>5. {"input", "output"} \subseteq Models!Price /\ Models!Price \subseteq MetadataField
    BY DEF Models!Price, MetadataField
  <2>6. draft["input"] \in Int /\ draft["output"] \in Int
    BY <1>1, <2>2, <2>5
  <2> QED
    BY <2>2, <2>3, <2>4, <2>5, <2>6, MetadataAssumption
<1> QED
  BY <1>3, <1>4 DEF Usable

(* An operation that sends a call, a save of usable metadata perhaps. *)
LEMMA ModelsSent ==
  ASSUME ModelsInv, NEW kind, NEW m, NEW val, Models!Operate(kind, m, val),
         kind = "save" => Usable(val),
         UNCHANGED <<models, edit>>,
         \/ kind # "test" /\ UNCHANGED test
         \/ /\ kind = "test" /\ DOMAIN test' = {"open", "model", "result", "loading"}
            /\ test'.model = m /\ test'.result = None
  PROVE  ModelsInv'
<1> DEFINE call == Models!Call(kind, m, val)
<1>1. /\ calls' = Append(calls, call) /\ served' = served
      /\ crossed' = (crossed \/ (kind = "test" /\ \E i \in DOMAIN calls : calls[i].kind = "test"))
  BY DEF Models!Operate
<1>2. IsModelCall(call) /\ call.kind = kind /\ call.model = m
  BY DEF Models!Call, IsModelCall
<1> HIDE DEF call
<1>3. /\ IsSequence(calls') /\ DOMAIN calls = 1..Len(calls) /\ DOMAIN calls' = 1..Len(calls) + 1
      /\ Len(calls) \in Nat
      /\ (\A i \in 1..Len(calls) : calls'[i] = calls[i]) /\ calls'[Len(calls) + 1] = call
  BY <1>1, Appended DEF ModelsInv
<1>4. \A i \in DOMAIN calls' : (i \in DOMAIN calls /\ calls'[i] = calls[i]) \/ calls'[i] = call
  BY <1>3
<1>5. \A i \in DOMAIN calls' : IsModelCall(calls'[i])
  BY <1>2, <1>4 DEF ModelsInv
<1>6. ModelsData'
  BY <1>1 DEF ModelsInv, ModelsData
<1>7. ModelsTested'
  <2> SUFFICES ASSUME crossed' = FALSE PROVE ModelsTested'
    BY DEF ModelsTested
  <2>1. crossed = FALSE /\ (kind = "test" => ~ \E i \in DOMAIN calls : calls[i].kind = "test")
    BY <1>1 DEF ModelsInv
  <2>2. ASSUME NEW i \in DOMAIN calls', calls'[i].kind = "test"
        PROVE  calls'[i].model = test'.model
    BY <1>2, <1>4, <2>1, <2>2 DEF ModelsInv, ModelsTested
  <2>3. test'.result # None => test'.result = test'.model
    BY <2>1 DEF ModelsInv, ModelsTested
  <2> QED
    BY <2>2, <2>3 DEF ModelsTested
<1>8. crossed' \in BOOLEAN
  BY <1>1 DEF ModelsInv
<1> QED
  BY <1>3, <1>5, <1>6, <1>7, <1>8 DEF ModelsInv

LEMMA ModelsServed ==
  ASSUME ModelsInv, NEW i \in DOMAIN calls, Models!Serve(i)
  PROVE  ModelsInv'
<1>1. PICK how, val : /\ calls' = [calls EXCEPT ![i].at = how, ![i].val = val] /\ how # "sent"
                      /\ calls[i].kind = "load" /\ how = "ok" => val \in ServedModels
                      /\ UNCHANGED <<served, models, edit, test, crossed>>
  <2>1. UNCHANGED <<served, models, edit, test, crossed>>
    BY DEF Models!Serve, Models!view
  <2>2. CASE calls[i].kind = "load" /\ Models!Settled(i, "ok", served)
    BY <2>1, <2>2 DEF Models!Settled, ModelsInv, ModelsData
  <2>3. CASE calls[i].kind = "test" /\ Models!Settled(i, "ok", calls[i].model)
    BY <2>1, <2>3 DEF Models!Settled
  <2>4. ASSUME NEW how \in {"error", "unauthorized"}, Models!Settled(i, how, None)
        PROVE  \E h, v : /\ calls' = [calls EXCEPT ![i].at = h, ![i].val = v] /\ h # "sent"
                         /\ calls[i].kind = "load" /\ h = "ok" => v \in ServedModels
                         /\ UNCHANGED <<served, models, edit, test, crossed>>
    BY <2>1, <2>4 DEF Models!Settled
  <2> QED
    BY <2>2, <2>3, <2>4 DEF Models!Serve
<1> DEFINE e == [[calls[i] EXCEPT !.at = how] EXCEPT !.val = val]
<1>2. calls' = [calls EXCEPT ![i] = e]
  BY <1>1
<1>3. DOMAIN calls[i] = {"kind", "model", "val", "at"}
  BY DEF ModelsInv, IsModelCall
<1>4. /\ DOMAIN e = {"kind", "model", "val", "at"}
      /\ e.kind = calls[i].kind /\ e.model = calls[i].model /\ e.at = how /\ e.val = val
  BY <1>3
<1> HIDE DEF e
<1>5. /\ IsSequence(calls') /\ DOMAIN calls' = DOMAIN calls /\ calls'[i] = e
      /\ \A j \in DOMAIN calls \ {i} : calls'[j] = calls[j]
  BY <1>2, Replaced DEF ModelsInv
<1>6. IsModelCall(e)
  BY <1>1, <1>4 DEF IsModelCall
<1>7. \A j \in DOMAIN calls' : IsModelCall(calls'[j])
  BY <1>5, <1>6 DEF ModelsInv
<1>8. \A j \in DOMAIN calls' : calls'[j].kind = calls[j].kind /\ calls'[j].model = calls[j].model
  BY <1>4, <1>5
<1> QED
  BY <1>1, <1>5, <1>7, <1>8 DEF ModelsInv, ModelsData, ModelsTested

(* An answer leaves the other calls. *)
LEMMA ModelsAnswered ==
  ASSUME ModelsInv, NEW i \in DOMAIN calls, NEW kind, Models!Answered(i, kind)
  PROVE  /\ IsSequence(calls') /\ \A j \in DOMAIN calls' : IsModelCall(calls'[j])
         /\ ModelsTested => (crossed = FALSE => \A j \in DOMAIN calls' :
                               calls'[j].kind = "test" => calls'[j].model = test.model)
         /\ UNCHANGED <<served, crossed>>
<1>1. calls' = Left(calls, i) /\ UNCHANGED <<served, crossed>>
  BY DEF Models!Answered, Models!WithoutAt, Left
<1>2. /\ IsSequence(calls')
      /\ \A j \in DOMAIN calls' : Place(i, j) \in DOMAIN calls /\ calls'[j] = calls[Place(i, j)]
  BY <1>1, Removed DEF ModelsInv
<1> QED
  BY <1>1, <1>2 DEF ModelsInv, ModelsTested

LEMMA ModelsStep == ModelsInv /\ Models!Next => ModelsInv'
<1> SUFFICES ASSUME ModelsInv, Models!Next PROVE ModelsInv'
  OBVIOUS
<1>1. CASE Models!LoadModels
  BY <1>1, ModelsSent DEF Models!LoadModels
<1>2. CASE Models!HandleRetest
  <2>1. /\ Models!Operate("test", test.model, None) /\ UNCHANGED <<models, edit>>
        /\ test' = [test EXCEPT !.result = None, !.loading = TRUE]
    BY <1>2 DEF Models!HandleRetest
  <2>2. DOMAIN test' = {"open", "model", "result", "loading"} /\ test'.model = test.model
        /\ test'.result = None
    BY <2>1 DEF ModelsInv, ModelsData
  <2> QED
    BY <2>1, <2>2, ModelsSent
<1>3. CASE Models!CloseTest
  <2>1. /\ UNCHANGED <<served, models, calls, crossed, edit>> /\ test' = [test EXCEPT !.open = FALSE]
    BY <1>3 DEF Models!CloseTest, Models!Quietly
  <2>2. DOMAIN test' = DOMAIN test /\ test'.model = test.model /\ test'.result = test.result
    BY <2>1 DEF ModelsInv, ModelsData
  <2> QED
    BY <2>1, <2>2 DEF ModelsInv, ModelsData, ModelsTested
<1>4. CASE Models!CloseEdit
  <2>1. /\ UNCHANGED <<served, models, calls, crossed, test>> /\ edit' = [edit EXCEPT !.open = FALSE]
    BY <1>4 DEF Models!CloseEdit, Models!Quietly
  <2>2. DOMAIN edit' = DOMAIN edit /\ edit'.draft = edit.draft
    BY <2>1 DEF ModelsInv, ModelsData
  <2> QED
    BY <2>1, <2>2 DEF ModelsInv, ModelsData, ModelsTested
<1>5. CASE Models!HandleSaveMetadata
  <2>1. CASE Models!Parses(edit.draft)
    <3>1. Models!Operate("save", edit.model, Models!Metadata(edit.draft)) /\ UNCHANGED <<models, test, edit>>
      BY <1>5, <2>1 DEF Models!HandleSaveMetadata
    <3>2. Usable(Models!Metadata(edit.draft))
      BY <2>1, DraftUsable DEF ModelsInv, ModelsData
    <3> QED
      BY <3>1, <3>2, ModelsSent
  <2>2. CASE ~Models!Parses(edit.draft)
    <3>1. /\ UNCHANGED <<served, models, calls, crossed, test>> /\ edit' = [edit EXCEPT !.error = TRUE]
      BY <1>5, <2>2 DEF Models!HandleSaveMetadata, Models!Quietly
    <3>2. DOMAIN edit' = DOMAIN edit /\ edit'.draft = edit.draft
      BY <3>1 DEF ModelsInv, ModelsData
    <3> QED
      BY <3>1, <3>2 DEF ModelsInv, ModelsData, ModelsTested
  <2> QED
    BY <2>1, <2>2
<1>6. ASSUME NEW m \in ListedModel, Models!OpenTestDialog(m)
      PROVE  ModelsInv'
  <2>1. /\ Models!Operate("test", m, None) /\ UNCHANGED <<models, edit>>
        /\ test' = [open |-> TRUE, model |-> m, result |-> None, loading |-> TRUE]
    BY <1>6 DEF Models!OpenTestDialog, Models!ResultCleared
  <2>2. DOMAIN test' = {"open", "model", "result", "loading"} /\ test'.model = m /\ test'.result = None
    BY <2>1
  <2> QED
    BY <2>1, <2>2, ModelsSent
<1>7. ASSUME NEW m \in ListedModel, Models!OpenEditDialog(m)
      PROVE  ModelsInv'
  <2>1. /\ UNCHANGED <<served, models, calls, crossed, test>> /\ models # None /\ m \in DOMAIN models
        /\ edit' = [open |-> TRUE, model |-> m, draft |-> Models!CreateMetadataDraft(models[m]),
                    error |-> FALSE]
    BY <1>7 DEF Models!OpenEditDialog, Models!Quietly
  <2>2. Models!CreateMetadataDraft(models[m]) \in MetadataDraft
    BY <2>1, DraftOfModel DEF ModelsInv, ModelsData
  <2>3. DOMAIN edit' = {"open", "model", "draft", "error"} /\ edit'.draft \in MetadataDraft
    BY <2>1, <2>2
  <2> QED
    BY <2>1, <2>3 DEF ModelsInv, ModelsData, ModelsTested
<1>8. ASSUME NEW x \in MetadataField, NEW text \in MetadataText, Models!EditDraft(x, text)
      PROVE  ModelsInv'
  <2>1. /\ UNCHANGED <<served, models, calls, crossed, test>> /\ edit' = [edit EXCEPT !.draft[x] = text]
    BY <1>8 DEF Models!EditDraft, Models!Quietly
  <2>2. DOMAIN edit' = DOMAIN edit /\ edit'.draft = [edit.draft EXCEPT ![x] = text]
    BY <2>1 DEF ModelsInv, ModelsData
  <2>3. text \in Int \cup {Blank} /\ edit.draft \in MetadataDraft
    BY MetadataAssumption DEF ModelsInv, ModelsData
  <2>4. edit'.draft \in MetadataDraft
    BY <2>2, <2>3 DEF MetadataDraft
  <2> QED
    BY <2>1, <2>2, <2>4 DEF ModelsInv, ModelsData, ModelsTested
<1>9. ASSUME NEW i \in DOMAIN calls, Models!LoadAnswered(i)
      PROVE  ModelsInv'
  <2>1. /\ Models!Answered(i, "load") /\ UNCHANGED <<test, edit>>
        /\ models' = models \/ (calls[i].kind = "load" /\ calls[i].at = "ok" /\ models' = calls[i].val)
    BY <1>9 DEF Models!LoadAnswered, Models!Answered
  <2>2. models' = None \/ models' \in ServedModels
    BY <2>1 DEF ModelsInv, ModelsData, IsModelCall
  <2>3. /\ IsSequence(calls') /\ \A j \in DOMAIN calls' : IsModelCall(calls'[j])
        /\ ModelsTested' /\ UNCHANGED <<served, crossed>>
    BY <2>1, ModelsAnswered DEF ModelsInv, ModelsTested
  <2>4. ModelsData'
    BY <2>1, <2>2, <2>3 DEF ModelsInv, ModelsData
  <2> QED
    BY <2>3, <2>4 DEF ModelsInv
<1>10. ASSUME NEW i \in DOMAIN calls, Models!TestAnswered(i)
       PROVE  ModelsInv'
  <2>1. /\ Models!Answered(i, "test") /\ UNCHANGED <<models, edit>> /\ calls[i].kind = "test"
        /\ test' = [test EXCEPT !.result = calls[i].model, !.loading = FALSE]
    BY <1>10 DEF Models!TestAnswered, Models!Answered
  <2>2. DOMAIN test' = DOMAIN test /\ test'.model = test.model /\ test'.result = calls[i].model
    BY <2>1 DEF ModelsInv, ModelsData
  <2>3. /\ IsSequence(calls') /\ \A j \in DOMAIN calls' : IsModelCall(calls'[j])
        /\ (crossed = FALSE => \A j \in DOMAIN calls' :
              calls'[j].kind = "test" => calls'[j].model = test.model)
        /\ UNCHANGED <<served, crossed>>
    BY <2>1, ModelsAnswered DEF ModelsInv
  <2>4. ModelsData'
    BY <2>1, <2>2, <2>3 DEF ModelsInv, ModelsData
  <2>5. ModelsTested'
    BY <2>1, <2>2, <2>3 DEF ModelsInv, ModelsTested
  <2> QED
    BY <2>3, <2>4, <2>5 DEF ModelsInv
<1>11. ASSUME NEW i \in DOMAIN calls, Models!SaveAnswered(i)
       PROVE  ModelsInv'
  <2>1. /\ Models!Answered(i, "save") /\ UNCHANGED <<models, test>>
        /\ edit' = edit \/ edit' = [edit EXCEPT !.error = TRUE]
    BY <1>11 DEF Models!SaveAnswered
  <2>2. DOMAIN edit' = DOMAIN edit /\ edit'.draft = edit.draft
    BY <2>1 DEF ModelsInv, ModelsData
  <2>3. /\ IsSequence(calls') /\ \A j \in DOMAIN calls' : IsModelCall(calls'[j])
        /\ ModelsTested' /\ UNCHANGED <<served, crossed>>
    BY <2>1, ModelsAnswered DEF ModelsInv, ModelsTested
  <2>4. ModelsData'
    BY <2>1, <2>2, <2>3 DEF ModelsInv, ModelsData
  <2> QED
    BY <2>3, <2>4 DEF ModelsInv
<1> QED
  BY <1>1, <1>2, <1>3, <1>4, <1>5, <1>6, <1>7, <1>8, <1>9, <1>10, <1>11, ModelsServed
  DEF Models!Next, MetadataField

LEMMA ModelsProperty == ModelsInv => Models!SentMetadataUsable /\ Models!ResultOfModel
<1> SUFFICES ASSUME ModelsInv PROVE Models!SentMetadataUsable /\ Models!ResultOfModel
  OBVIOUS
<1>1. Models!SentMetadataUsable
  BY DEF ModelsInv, IsModelCall, Usable, Models!SentMetadataUsable, Models!Out
<1>2. Models!ResultOfModel
  BY DEF ModelsInv, ModelsTested, Models!ResultOfModel
<1> QED
  BY <1>1, <1>2

(***************************************************************************)
(* The failover form.                                                      *)
(***************************************************************************)
GoodRules(rules) == AreRules(rules) /\ Failover!CompleteRules(rules)

IsFailoverCall(k) ==
  /\ DOMAIN k = {"kind", "val", "at"}
  /\ k.kind = "load" /\ k.at = "ok" => GoodRules(k.val.custom)
  /\ k.kind = "save" => GoodRules(k.val.policy.custom)

FailoverInv ==
  /\ IsSequence(calls) /\ \A i \in DOMAIN calls : IsFailoverCall(calls[i])
  /\ GoodRules(served.custom)
  /\ policy # None => GoodRules(policy.custom)
  /\ form # None => /\ DOMAIN form = {"enabled", "mode", "attempts", "custom", "codes"}
                    /\ AreRules(form.custom)

(* What is stored of a list of fallbacks has each of them once. *)
LEMMA DistinctOnce ==
  ASSUME NEW s, IsSequence(s), s # <<>>
  PROVE  LET t == Failover!Distinct(s) IN
         IsSequence(t) /\ t # <<>> /\ Cardinality(Failover!Range(t)) = Len(t)
<1> DEFINE I == {i \in DOMAIN s : \A j \in 1..(i - 1) : s[j] # s[i]}
           t == Failover!Picked(s, I)
           place == Failover!Ascending(I)
<1>1. t = Failover!Distinct(s) /\ I \in SUBSET DOMAIN s
  BY DEF Failover!Distinct
<1>2. DOMAIN s = 1..Len(s) /\ Len(s) \in Nat
  BY SequenceOf DEF IsSequence
<1>3. Len(s) # 0
  BY EmptySeq DEF IsSequence
<1>4. 1 \in I
  BY <1>2, <1>3
<1>5. \A i, j \in I : s[i] = s[j] => i = j
  BY <1>2
<1> HIDE DEF I
<1>6. /\ IsSequence(t) /\ DOMAIN t = 1..Cardinality(I) /\ Cardinality(I) \in Nat
      /\ Len(t) = Cardinality(I) /\ (I # {} => t # <<>>)
      /\ \A k \in DOMAIN t : place[k] \in I /\ t[k] = s[place[k]]
      /\ \A j, k \in DOMAIN t : place[j] = place[k] => j = k
  BY <1>1, PickedElements
<1> HIDE DEF t, place
<1>7. \A j, k \in DOMAIN t : t[j] = t[k] => j = k
  BY <1>5, <1>6
<1>8. Failover!Range(t) = {t[k] : k \in DOMAIN t}
  BY DEF Failover!Range
<1> DEFINE R == {t[k] : k \in DOMAIN t}
           f == [k \in DOMAIN t |-> t[k]]
<1>9. f \in Bijection(DOMAIN t, R)
  <2>1. f \in [DOMAIN t -> R] /\ \A j, k \in DOMAIN t : f[j] = f[k] => j = k
    BY <1>7
  <2>2. \A y \in R : \E k \in DOMAIN t : f[k] = y
    OBVIOUS
  <2> QED
    BY <2>1, <2>2 DEF Bijection, Injection, IsInjective, Surjection
<1> HIDE DEF R, f
<1>10. IsFiniteSet(DOMAIN t) /\ Cardinality(DOMAIN t) = Len(t)
  BY <1>6, FS_Interval
<1>11. Cardinality(R) = Len(t)
  BY <1>9, <1>10, FS_Bijection DEF ExistsBijection
<1> QED
  BY <1>1, <1>4, <1>6, <1>8, <1>11 DEF R

(* A form that parses makes rules that are complete. *)
LEMMA ParsedComplete ==
  ASSUME NEW rules, AreRules(rules), Failover!ParsesRules(rules)
  PROVE  GoodRules(Failover!ParsedRules(rules))
<1> DEFINE I == {i \in DOMAIN rules : rules[i].model # Blank \/ rules[i].fallbacks # <<>>}
           kept == Failover!Picked(rules, I)
           parsed == Failover!ParsedRules(rules)
<1>1. kept = Failover!Kept(rules) /\ I \in SUBSET DOMAIN rules
  BY DEF Failover!Kept
<1> HIDE DEF I
<1>2. /\ IsSequence(kept) /\ DOMAIN kept = 1..Cardinality(I) /\ Cardinality(I) \in Nat
      /\ \A k \in DOMAIN kept : \E i \in DOMAIN rules : kept[k] = rules[i]
  BY <1>1, PickedElements DEF AreRules
<1> HIDE DEF kept
<1>3. \A k \in DOMAIN kept : kept[k].model # Blank /\ kept[k].fallbacks # <<>>
  BY <1>1 DEF Failover!ParsesRules, Failover!Range
<1>4. \A k \in DOMAIN kept : IsSequence(kept[k].fallbacks)
  BY <1>2 DEF AreRules
<1>5. parsed = [k \in DOMAIN kept |->
                  [model |-> kept[k].model, fallbacks |-> Failover!Distinct(kept[k].fallbacks)]]
  BY <1>1 DEF Failover!ParsedRules
<1> HIDE DEF parsed
<1>6. ASSUME NEW k \in DOMAIN kept
      PROVE  /\ DOMAIN parsed[k] = {"model", "fallbacks"} /\ parsed[k].model = kept[k].model
             /\ parsed[k].fallbacks = Failover!Distinct(kept[k].fallbacks)
  BY <1>5
<1>7. ASSUME NEW k \in DOMAIN kept
      PROVE  /\ DOMAIN parsed[k] = {"model", "fallbacks"}
             /\ parsed[k].model # Blank /\ parsed[k].fallbacks # <<>>
             /\ IsSequence(parsed[k].fallbacks)
             /\ Cardinality(Failover!Range(parsed[k].fallbacks)) = Len(parsed[k].fallbacks)
  BY <1>3, <1>4, <1>6, DistinctOnce
<1> DEFINE S == {parsed[k] : k \in DOMAIN parsed}
<1>8. DOMAIN parsed = 1..Cardinality(I) /\ parsed \in [1..Cardinality(I) -> S]
  BY <1>2, <1>5
<1> HIDE DEF S
<1>9. parsed \in Seq(S)
  BY <1>2, <1>8, SeqDef
<1>10. IsSequence(parsed)
  BY <1>9, SequenceOf
<1>11. Failover!CompleteRules(parsed)
  <2>1. ASSUME NEW r \in Failover!Range(parsed)
        PROVE  \E k \in DOMAIN kept : r = parsed[k]
    BY <1>2, <1>8 DEF Failover!Range
  <2>2. ASSUME NEW r \in Failover!Range(parsed)
        PROVE  /\ r.model # Blank /\ r.fallbacks # <<>>
               /\ Cardinality(Failover!Range(r.fallbacks)) = Len(r.fallbacks)
    BY <1>7, <2>1
  <2> QED
    BY <2>2 DEF Failover!CompleteRules, Failover!Cardinality, Cardinality
<1> QED
  BY <1>2, <1>7, <1>8, <1>10, <1>11 DEF GoodRules, AreRules, parsed

LEMMA GoodEmpty == GoodRules(<<>>) /\ IsSequence(<<>>)
<1>1. IsSequence(<<>>) /\ DOMAIN <<>> = {}
  BY EmptySeq DEF IsSequence
<1> QED
  BY <1>1 DEF GoodRules, AreRules, Failover!CompleteRules, Failover!Range

LEMMA FailoverInit == Failover!Init => FailoverInv
<1> SUFFICES ASSUME Failover!Init PROVE FailoverInv
  OBVIOUS
<1> DEFINE call == Failover!Call("load", None)
<1>1. calls \in Seq({call}) /\ DOMAIN calls = 1..1 /\ calls[1] = call
  BY DEF Failover!Init
<1>2. IsFailoverCall(call)
  BY DEF Failover!Call, IsFailoverCall
<1> HIDE DEF call
<1>3. IsSequence(calls) /\ \A i \in DOMAIN calls : calls[i] = call
  BY <1>1, SequenceOf
<1> QED
  BY <1>2, <1>3, PoliciesAssumption DEF Failover!Init, FailoverInv, GoodRules

LEMMA FailoverKept ==
  FailoverInv /\ UNCHANGED <<served, policy, form, calls>> => FailoverInv'
BY DEF FailoverInv

(* The form filled from a policy with good rules has them. *)
LEMMA FilledGood ==
  ASSUME NEW p, GoodRules(p.custom), Failover!FilledFrom(p)
  PROVE  /\ policy' # None => GoodRules(policy'.custom)
         /\ form' # None => /\ DOMAIN form' = {"enabled", "mode", "attempts", "custom", "codes"}
                            /\ AreRules(form'.custom)
<1>1. policy' = p /\ form' = Failover!ToFailoverForm(p)
  BY DEF Failover!FilledFrom
<1>2. /\ DOMAIN form' = {"enabled", "mode", "attempts", "custom", "codes"}
      /\ form'.custom = p.custom
  BY <1>1 DEF Failover!ToFailoverForm
<1> QED
  BY <1>1, <1>2 DEF GoodRules

LEMMA FailoverSent ==
  ASSUME FailoverInv, NEW kind, NEW val, Failover!Operate(kind, val),
         kind = "save" => GoodRules(val.policy.custom)
  PROVE  FailoverInv'
<1> DEFINE call == Failover!Call(kind, val)
<1>1. calls' = Append(calls, call) /\ UNCHANGED <<served, policy, form>>
  BY DEF Failover!Operate
<1>2. IsFailoverCall(call)
  BY DEF Failover!Call, IsFailoverCall
<1> HIDE DEF call
<1>3. /\ IsSequence(calls') /\ DOMAIN calls = 1..Len(calls) /\ DOMAIN calls' = 1..Len(calls) + 1
      /\ Len(calls) \in Nat
      /\ (\A i \in 1..Len(calls) : calls'[i] = calls[i]) /\ calls'[Len(calls) + 1] = call
  BY <1>1, Appended DEF FailoverInv
<1>4. \A i \in DOMAIN calls' : (i \in DOMAIN calls /\ calls'[i] = calls[i]) \/ calls'[i] = call
  BY <1>3
<1>5. \A i \in DOMAIN calls' : IsFailoverCall(calls'[i])
  BY <1>2, <1>4 DEF FailoverInv
<1> QED
  BY <1>1, <1>3, <1>5 DEF FailoverInv

LEMMA FailoverServed ==
  ASSUME FailoverInv, NEW i \in DOMAIN calls, Failover!Serve(i)
  PROVE  FailoverInv'
<1>1. PICK how, val : /\ calls' = [calls EXCEPT ![i].at = how, ![i].val = val]
                      /\ calls[i].kind = "load" /\ how = "ok" => GoodRules(val.custom)
                      /\ calls[i].kind = "save" => GoodRules(val.policy.custom)
                      /\ served' = served \/ GoodRules(served'.custom)
                      /\ UNCHANGED <<policy, form>>
  <2> DEFINE P(h, v) == /\ calls' = [calls EXCEPT ![i].at = h, ![i].val = v]
                        /\ calls[i].kind = "load" /\ h = "ok" => GoodRules(v.custom)
                        /\ calls[i].kind = "save" => GoodRules(v.policy.custom)
                        /\ served' = served \/ GoodRules(served'.custom)
                        /\ UNCHANGED <<policy, form>>
  <2>0. UNCHANGED <<policy, form>>
    BY DEF Failover!Serve
  <2>1. IsFailoverCall(calls[i]) /\ GoodRules(served.custom)
    BY DEF FailoverInv
  <2>2. CASE Failover!ServeLoad(i)
    <3>1. GoodRules(Failover!DefaultPolicy.custom)
      BY GoodEmpty DEF Failover!DefaultPolicy
    <3>2. /\ calls[i].kind = "load" /\ served' = served
          /\ Failover!Settled(i, "ok", served) \/ Failover!Settled(i, "ok", Failover!DefaultPolicy)
      BY <2>2 DEF Failover!ServeLoad
    <3>3. P("ok", served) \/ P("ok", Failover!DefaultPolicy)
      BY <2>0, <2>1, <3>1, <3>2 DEF Failover!Settled
    <3> QED
      BY <3>3
  <2>3. CASE Failover!ServeSave(i)
    <3>1. /\ calls[i].kind = "save" /\ served' = calls[i].val.policy
          /\ Failover!Settled(i, "ok", calls[i].val) \/ Failover!Settled(i, "error", calls[i].val)
      BY <2>3 DEF Failover!ServeSave
    <3>2. GoodRules(calls[i].val.policy.custom)
      BY <2>1, <3>1 DEF IsFailoverCall
    <3>3. P("ok", calls[i].val) \/ P("error", calls[i].val)
      BY <2>0, <3>1, <3>2 DEF Failover!Settled
    <3> QED
      BY <3>3
  <2>4. CASE Failover!Fail(i)
    <3>1. PICK h \in {"error", "unauthorized"} : Failover!Settled(i, h, calls[i].val)
      BY <2>4 DEF Failover!Fail
    <3>2. P(h, calls[i].val)
      BY <2>0, <2>1, <2>4, <3>1 DEF Failover!Settled, Failover!Fail, IsFailoverCall
    <3> QED
      BY <3>2
  <2> QED
    BY <2>2, <2>3, <2>4 DEF Failover!Serve
<1> DEFINE e == [[calls[i] EXCEPT !.at = how] EXCEPT !.val = val]
<1>2. calls' = [calls EXCEPT ![i] = e]
  BY <1>1
<1>3. DOMAIN calls[i] = {"kind", "val", "at"}
  BY DEF FailoverInv, IsFailoverCall
<1>4. DOMAIN e = {"kind", "val", "at"} /\ e.kind = calls[i].kind /\ e.at = how /\ e.val = val
  BY <1>3
<1> HIDE DEF e
<1>5. /\ IsSequence(calls') /\ DOMAIN calls' = DOMAIN calls /\ calls'[i] = e
      /\ \A j \in DOMAIN calls \ {i} : calls'[j] = calls[j]
  BY <1>2, Replaced DEF FailoverInv
<1>6. IsFailoverCall(e)
  BY <1>1, <1>4 DEF IsFailoverCall
<1>7. \A j \in DOMAIN calls' : IsFailoverCall(calls'[j])
  BY <1>5, <1>6 DEF FailoverInv
<1> QED
  BY <1>1, <1>5, <1>7, SMTT(40) DEF FailoverInv

LEMMA FailoverAnswered ==
  ASSUME FailoverInv, NEW i \in DOMAIN calls, NEW kind, Failover!Answered(i, kind),
         \/ UNCHANGED <<policy, form>>
         \/ \E p : GoodRules(p.custom) /\ Failover!FilledFrom(p)
  PROVE  FailoverInv'
<1>1. calls' = Left(calls, i) /\ served' = served
  BY DEF Failover!Answered, Failover!WithoutAt, Left
<1>2. /\ IsSequence(calls')
      /\ \A j \in DOMAIN calls' : Place(i, j) \in DOMAIN calls /\ calls'[j] = calls[Place(i, j)]
  BY <1>1, Removed DEF FailoverInv
<1>3. /\ policy' # None => GoodRules(policy'.custom)
      /\ form' # None => /\ DOMAIN form' = {"enabled", "mode", "attempts", "custom", "codes"}
                         /\ AreRules(form'.custom)
  BY FilledGood DEF FailoverInv
<1> QED
  BY <1>1, <1>2, <1>3 DEF FailoverInv

(* Edits of the rules keep them a list of rules. *)
LEMMA FailoverEdited ==
  ASSUME FailoverInv, form # None, Failover!EditForm
  PROVE  FailoverInv'
<1>1. UNCHANGED <<served, policy, calls>>
  BY DEF Failover!EditForm, Failover!EditSettings, Failover!EditTriggers, Failover!EditRules,
         Failover!AddCustomFallbackRule, Failover!UpdateCustomFallbackRule,
         Failover!RemoveCustomFallbackRule, Failover!Edit
<1>2. /\ DOMAIN form = {"enabled", "mode", "attempts", "custom", "codes"}
      /\ AreRules(form.custom)
  BY DEF FailoverInv
<1>3. SUFFICES /\ DOMAIN form' = {"enabled", "mode", "attempts", "custom", "codes"}
               /\ AreRules(form'.custom)
  BY <1>1 DEF FailoverInv
<1>4. CASE Failover!EditSettings \/ Failover!EditTriggers
  <2>1. \E x \in {"enabled", "mode", "attempts", "codes"} : \E v : form' = [form EXCEPT ![x] = v]
    BY <1>4, Zenon DEF Failover!EditSettings, Failover!EditTriggers, Failover!Edit
  <2> QED
    BY <1>2, <2>1
<1>5. ASSUME NEW rules, Failover!EditRules(rules), AreRules(rules)
      PROVE  /\ DOMAIN form' = {"enabled", "mode", "attempts", "custom", "codes"}
             /\ AreRules(form'.custom)
  <2>1. form' = [form EXCEPT !.custom = rules]
    BY <1>5 DEF Failover!EditRules, Failover!Edit
  <2> QED
    BY <1>2, <1>5, <2>1
<1>6. CASE Failover!AddCustomFallbackRule
  <2> DEFINE rule == [model |-> Blank, fallbacks |-> <<>>]
             rules == Append(form.custom, rule)
  <2>1. Failover!EditRules(rules)
    BY <1>6 DEF Failover!AddCustomFallbackRule
  <2>2. DOMAIN rule = {"model", "fallbacks"} /\ IsSequence(rule.fallbacks)
    BY GoodEmpty
  <2> HIDE DEF rule
  <2>3. /\ IsSequence(rules) /\ DOMAIN rules = 1..Len(form.custom) + 1
        /\ Len(form.custom) \in Nat /\ DOMAIN form.custom = 1..Len(form.custom)
        /\ \A k \in 1..Len(form.custom) : rules[k] = form.custom[k]
        /\ rules[Len(form.custom) + 1] = rule
    BY <1>2, Appended DEF AreRules
  <2>4. \A k \in DOMAIN rules : k \in DOMAIN form.custom \/ k = Len(form.custom) + 1
    BY <2>3
  <2> HIDE DEF rules
  <2>5. AreRules(rules)
    BY <1>2, <2>2, <2>3, <2>4 DEF AreRules
  <2> QED
    BY <1>5, <2>1, <2>5
<1>7. ASSUME NEW k \in DOMAIN form.custom, Failover!UpdateCustomFallbackRule(k)
      PROVE  /\ DOMAIN form' = {"enabled", "mode", "attempts", "custom", "codes"}
             /\ AreRules(form'.custom)
  <2>1. DOMAIN form.custom[k] = {"model", "fallbacks"} /\ IsSequence(form.custom[k].fallbacks)
    BY <1>2 DEF AreRules
  <2>2. PICK rule : /\ DOMAIN rule = {"model", "fallbacks"} /\ IsSequence(rule.fallbacks)
                    /\ Failover!EditRules([form.custom EXCEPT ![k] = rule])
    <3>1. ASSUME NEW m, Failover!EditRules([form.custom EXCEPT ![k].model = m])
          PROVE  \E rule : /\ DOMAIN rule = {"model", "fallbacks"} /\ IsSequence(rule.fallbacks)
                           /\ Failover!EditRules([form.custom EXCEPT ![k] = rule])
      <4> DEFINE rule == [form.custom[k] EXCEPT !.model = m]
      <4>1. DOMAIN rule = {"model", "fallbacks"} /\ IsSequence(rule.fallbacks)
        BY <2>1
      <4>2. [form.custom EXCEPT ![k].model = m] = [form.custom EXCEPT ![k] = rule]
        OBVIOUS
      <4>3. Failover!EditRules([form.custom EXCEPT ![k] = rule])
        BY <3>1, <4>2
      <4> HIDE DEF rule
      <4> QED
        BY <4>1, <4>3
    <3>2. ASSUME NEW f \in Fallbacks, Failover!EditRules([form.custom EXCEPT ![k].fallbacks = f])
          PROVE  \E rule : /\ DOMAIN rule = {"model", "fallbacks"} /\ IsSequence(rule.fallbacks)
                           /\ Failover!EditRules([form.custom EXCEPT ![k] = rule])
      <4> DEFINE rule == [form.custom[k] EXCEPT !.fallbacks = f]
      <4>1. DOMAIN rule = {"model", "fallbacks"} /\ IsSequence(rule.fallbacks)
        BY <2>1, PoliciesAssumption
      <4>2. [form.custom EXCEPT ![k].fallbacks = f] = [form.custom EXCEPT ![k] = rule]
        OBVIOUS
      <4>3. Failover!EditRules([form.custom EXCEPT ![k] = rule])
        BY <3>2, <4>2
      <4> HIDE DEF rule
      <4> QED
        BY <4>1, <4>3
    <3> QED
      BY <1>7, <3>1, <3>2 DEF Failover!UpdateCustomFallbackRule
  <2> DEFINE rules == [form.custom EXCEPT ![k] = rule]
  <2>3. /\ IsSequence(rules) /\ DOMAIN rules = DOMAIN form.custom /\ rules[k] = rule
        /\ \A j \in DOMAIN form.custom \ {k} : rules[j] = form.custom[j]
    BY <1>2, Replaced DEF AreRules
  <2> HIDE DEF rules
  <2>4. AreRules(rules)
    BY <1>2, <2>2, <2>3 DEF AreRules
  <2> QED
    BY <1>5, <2>2, <2>4 DEF rules
<1>8. ASSUME NEW k \in DOMAIN form.custom, Failover!RemoveCustomFallbackRule(k)
      PROVE  /\ DOMAIN form' = {"enabled", "mode", "attempts", "custom", "codes"}
             /\ AreRules(form'.custom)
  <2> DEFINE rules == Left(form.custom, k)
  <2>1. Failover!EditRules(rules)
    BY <1>8 DEF Failover!RemoveCustomFallbackRule, Failover!WithoutAt, Left
  <2>2. /\ IsSequence(rules)
        /\ \A j \in DOMAIN rules : Place(k, j) \in DOMAIN form.custom
                                   /\ rules[j] = form.custom[Place(k, j)]
    BY <1>2, Removed DEF AreRules
  <2> HIDE DEF rules
  <2>3. AreRules(rules)
    BY <1>2, <2>2 DEF AreRules
  <2> QED
    BY <1>5, <2>1, <2>3
<1> QED
  BY <1>4, <1>6, <1>7, <1>8 DEF Failover!EditForm

LEMMA FailoverStep == FailoverInv /\ Failover!Next => FailoverInv'
<1> SUFFICES ASSUME FailoverInv, Failover!Next PROVE FailoverInv'
  OBVIOUS
<1>1. CASE Failover!Load
  BY <1>1, FailoverSent DEF Failover!Load
<1>2. CASE Failover!HandleFailoverSave
  <2>1. /\ form # None /\ Failover!ParsesRules(form.custom)
        /\ Failover!Operate("save", [policy |-> Failover!ToPolicy(form), edited |-> edited])
    BY <1>2 DEF Failover!HandleFailoverSave
  <2>2. GoodRules(Failover!ParsedRules(form.custom))
    BY <2>1, ParsedComplete DEF FailoverInv
  <2>3. [policy |-> Failover!ToPolicy(form), edited |-> edited].policy.custom =
          Failover!ParsedRules(form.custom)
    BY DEF Failover!ToPolicy
  <2> QED
    BY <2>1, <2>2, <2>3, FailoverSent
<1>3. CASE Failover!ResetFailover
  <2>1. /\ UNCHANGED <<served, calls>> /\ policy # None /\ policy' = policy
        /\ form' = Failover!ToFailoverForm(policy) /\ edited' = {}
    BY <1>3 DEF Failover!ResetFailover
  <2>2. Failover!FilledFrom(policy) /\ GoodRules(policy.custom)
    BY <2>1 DEF Failover!FilledFrom, FailoverInv
  <2> QED
    BY <2>1, <2>2, FilledGood DEF FailoverInv
<1>4. CASE Failover!FeedbackFades
  BY <1>4, FailoverKept DEF Failover!FeedbackFades
<1>5. CASE form # None /\ Failover!EditForm
  BY <1>5, FailoverEdited
<1>6. ASSUME NEW i \in DOMAIN calls, Failover!LoadAnswered(i)
      PROVE  FailoverInv'
  <2>1. /\ Failover!Answered(i, "load") /\ calls[i].kind = "load"
        /\ \/ UNCHANGED <<policy, form>>
           \/ calls[i].at = "ok" /\ Failover!FilledFrom(calls[i].val)
    BY <1>6 DEF Failover!LoadAnswered, Failover!Answered
  <2>2. calls[i].at = "ok" => GoodRules(calls[i].val.custom)
    BY <2>1 DEF FailoverInv, IsFailoverCall
  <2> QED
    BY <2>1, <2>2, FailoverAnswered
<1>7. ASSUME NEW i \in DOMAIN calls, Failover!SaveAnswered(i)
      PROVE  FailoverInv'
  <2>1. /\ Failover!Answered(i, "save") /\ calls[i].kind = "save"
        /\ UNCHANGED <<policy, form>> \/ Failover!FilledFrom(calls[i].val.policy)
    BY <1>7 DEF Failover!SaveAnswered, Failover!Answered
  <2>2. GoodRules(calls[i].val.policy.custom)
    BY <2>1 DEF FailoverInv, IsFailoverCall
  <2> QED
    BY <2>1, <2>2, FailoverAnswered
<1> QED
  BY <1>1, <1>2, <1>3, <1>4, <1>5, <1>6, <1>7, FailoverServed DEF Failover!Next

LEMMA FailoverProperty == FailoverInv => Failover!StoredRulesComplete
BY DEF FailoverInv, GoodRules, Failover!StoredRulesComplete

(***************************************************************************)
(* The targets of the routes page.                                         *)
(***************************************************************************)
IsListed(row) == row \in ListedAliases /\ AreTargets(row.targets)
AreRows(list) == IsSequence(list) /\ \A k \in DOMAIN list : IsListed(list[k])

IsAliasCall(k) ==
  /\ DOMAIN k = {"kind", "id", "val", "at", "rows"}
  /\ k.kind \in {"create", "update"} => AreTargets(k.val)
  /\ k.kind = "toggle" => k.val \in BOOLEAN
  /\ k.kind \in {"update", "toggle", "delete", "test"} \/ (k.kind = "create" /\ k.at = "ok") =>
       k.id \in AliasId
  /\ k.kind = "load" /\ k.at = "ok" => AreRows(k.rows)

IsStored(row) == row # None => row \in StoredAliases /\ AreTargets(row.targets)

TargetsInv ==
  /\ IsSequence(calls) /\ \A i \in DOMAIN calls : IsAliasCall(calls[i])
  /\ DOMAIN table = AliasId /\ \A id \in AliasId : IsStored(table[id])
  /\ aliases # None => AreRows(aliases)
  /\ DOMAIN dialog = {"open", "of", "targets"} /\ AreTargets(dialog.targets)
  /\ dialog.of \in AliasId \cup {None}

LEMMA TargetsTyped ==
  ASSUME NEW s, AreTargets(s)
  PROVE  s \in Seq(Routes!Draft) /\ [enabled |-> TRUE, targets |-> s] \in StoredAliases
<1> DEFINE S == {s[k] : k \in DOMAIN s}
<1>1. s \in Seq(S) /\ S \subseteq Routes!Draft
  BY DEF AreTargets, IsTarget, IsSequence
<1> HIDE DEF S
<1>2. s \in Seq(Routes!Draft)
  BY <1>1, SeqMonotonic
<1> QED
  BY <1>2 DEF StoredAliases

LEMMA TargetsInit == Routes!Init => TargetsInv
<1> SUFFICES ASSUME Routes!Init PROVE TargetsInv
  OBVIOUS
<1> DEFINE call == Routes!Call("load", None, None)
<1>1. calls \in Seq({call}) /\ DOMAIN calls = 1..1 /\ calls[1] = call
  BY DEF Routes!Init
<1>2. IsAliasCall(call)
  BY DEF Routes!Call, IsAliasCall
<1> HIDE DEF call
<1>3. IsSequence(calls) /\ \A i \in DOMAIN calls : calls[i] = call
  BY <1>1, SequenceOf
<1>4. AreTargets(<<>>)
  BY EmptySeq DEF AreTargets, IsSequence
<1>5. DOMAIN dialog = {"open", "of", "targets"} /\ AreTargets(dialog.targets)
  BY <1>4 DEF Routes!Init
<1>7. dialog.of \in AliasId \cup {None}
  BY DEF Routes!Init
<1>6. DOMAIN table = AliasId /\ \A id \in AliasId : IsStored(table[id])
  BY AliasesAssumption DEF Routes!Init, IsStored
<1> QED
  BY <1>2, <1>3, <1>5, <1>6, <1>7 DEF Routes!Init, TargetsInv

LEMMA TargetsKept ==
  TargetsInv /\ UNCHANGED <<table, aliases, dialog, calls>> => TargetsInv'
BY DEF TargetsInv

LEMMA TargetsSent ==
  ASSUME TargetsInv, NEW kind, NEW id, NEW val, Routes!Operate(kind, id, val),
         kind \in {"create", "update"} => AreTargets(val),
         kind = "toggle" => val \in BOOLEAN,
         kind \in {"update", "toggle", "delete", "test"} => id \in AliasId,
         UNCHANGED <<aliases, dialog>>
  PROVE  TargetsInv'
<1> DEFINE call == Routes!Call(kind, id, val)
<1>1. calls' = Append(calls, call) /\ table' = table
  BY DEF Routes!Operate, Routes!server
<1>2. IsAliasCall(call)
  BY DEF Routes!Call, IsAliasCall
<1> HIDE DEF call
<1>3. /\ IsSequence(calls') /\ DOMAIN calls = 1..Len(calls) /\ DOMAIN calls' = 1..Len(calls) + 1
      /\ Len(calls) \in Nat
      /\ (\A i \in 1..Len(calls) : calls'[i] = calls[i]) /\ calls'[Len(calls) + 1] = call
  BY <1>1, Appended DEF TargetsInv
<1>4. \A i \in DOMAIN calls' : (i \in DOMAIN calls /\ calls'[i] = calls[i]) \/ calls'[i] = call
  BY <1>3
<1>5. \A i \in DOMAIN calls' : IsAliasCall(calls'[i])
  BY <1>2, <1>4 DEF TargetsInv
<1> QED
  BY <1>1, <1>3, <1>5 DEF TargetsInv

(* The list the server answers with has the targets it stores. *)
LEMMA ListedTargets == TargetsInv => AreRows(Routes!ListOf(table))
<1> SUFFICES ASSUME TargetsInv PROVE AreRows(Routes!ListOf(table))
  OBVIOUS
<1> DEFINE S == {i \in AliasId : table[i] # None}
           ids == Failover!Ascending(S)
           list == Routes!ListOf(table)
<1>1. S \subseteq Int /\ IsFiniteSet(S)
  <2>1. S \in SUBSET AliasId
    OBVIOUS
  <2> HIDE DEF S
  <2> QED
    BY <2>1, AliasesAssumption, FS_Subset
<1>2. ids = Routes!Ascending(S)
  BY DEF Failover!Ascending, Failover!Ordered, Failover!Cardinality,
         Routes!Ascending, Routes!Ordered, Routes!Cardinality
<1>3. list = [k \in DOMAIN ids |-> [id |-> ids[k], enabled |-> table[ids[k]].enabled,
                                    targets |-> table[ids[k]].targets]]
  BY <1>2 DEF Routes!ListOf
<1>4. \A i \in S : i \in AliasId /\ table[i] \in StoredAliases /\ AreTargets(table[i].targets)
  BY DEF TargetsInv, IsStored
<1> HIDE DEF S
<1>5. /\ Cardinality(S) \in Nat /\ DOMAIN ids = 1..Cardinality(S)
      /\ \A k \in 1..Cardinality(S) : ids[k] \in S
  BY <1>1, AscendingPlaces
<1> HIDE DEF ids, list
<1>6. DOMAIN list = 1..Cardinality(S) /\ list = [k \in 1..Cardinality(S) |-> list[k]]
  BY <1>3, <1>5
<1>7. IsSequence(list)
  BY <1>5, <1>6, OnPlaces
<1>8. ASSUME NEW k \in DOMAIN list
      PROVE  IsListed(list[k])
  <2>1. /\ list[k] = [id |-> ids[k], enabled |-> table[ids[k]].enabled,
                      targets |-> table[ids[k]].targets]
        /\ ids[k] \in S
    BY <1>3, <1>5, <1>6
  <2> QED
    BY <1>4, <2>1 DEF IsListed, ListedAliases, StoredAliases
<1> QED
  BY <1>7, <1>8 DEF AreRows, list

LEMMA TargetsServed ==
  ASSUME TargetsInv, NEW i \in DOMAIN calls, Routes!Serve(i)
  PROVE  TargetsInv'
<1>1. UNCHANGED <<aliases, dialog>>
  BY DEF Routes!Serve, Routes!rows
<1>2. IsAliasCall(calls[i]) /\ DOMAIN calls[i] = {"kind", "id", "val", "at", "rows"}
  BY DEF TargetsInv, IsAliasCall
<1>3. ASSUME NEW e, calls' = [calls EXCEPT ![i] = e], IsAliasCall(e),
             DOMAIN table' = AliasId, \A id \in AliasId : IsStored(table'[id])
      PROVE  TargetsInv'
  <2>1. /\ IsSequence(calls') /\ DOMAIN calls' = DOMAIN calls /\ calls'[i] = e
        /\ \A j \in DOMAIN calls \ {i} : calls'[j] = calls[j]
    BY <1>3, Replaced DEF TargetsInv
  <2>2. \A j \in DOMAIN calls' : IsAliasCall(calls'[j])
    BY <1>3, <2>1 DEF TargetsInv
  <2> QED
    BY <1>1, <1>3, <2>1, <2>2 DEF TargetsInv
<1>4. ASSUME NEW how, Routes!Settled(i, how), calls[i].kind = "test" \/ how # "ok"
      PROVE  \E e : calls' = [calls EXCEPT ![i] = e] /\ IsAliasCall(e)
  <2> DEFINE e == [calls[i] EXCEPT !.at = how]
  <2>1. calls' = [calls EXCEPT ![i] = e]
    BY <1>4 DEF Routes!Settled
  <2>2. DOMAIN e = DOMAIN calls[i] /\ e.kind = calls[i].kind /\ e.val = calls[i].val /\ e.at = how
        /\ e.id = calls[i].id
    BY <1>2
  <2> HIDE DEF e
  <2>3. IsAliasCall(e)
    BY <1>2, <1>4, <2>2 DEF IsAliasCall
  <2> QED
    BY <2>1, <2>3
<1>5. CASE Routes!ServeRead(i)
  <2> DEFINE e == [[calls[i] EXCEPT !.at = "ok"] EXCEPT !.rows = Routes!ListOf(table)]
  <2>1. calls[i].kind = "load" /\ table' = table /\ calls' = [calls EXCEPT ![i] = e]
    BY <1>5 DEF Routes!ServeRead, Routes!server
  <2>2. DOMAIN e = DOMAIN calls[i] /\ e.kind = "load" /\ e.rows = Routes!ListOf(table)
    BY <1>2, <2>1
  <2> HIDE DEF e
  <2>3. IsAliasCall(e)
    BY <1>2, <2>2, ListedTargets DEF IsAliasCall
  <2> QED
    BY <1>3, <2>1, <2>3 DEF TargetsInv
<1>6. CASE Routes!ServeTest(i) \/ Routes!Fail(i)
  <2>1. table' = table
    BY <1>6 DEF Routes!ServeTest, Routes!Fail, Routes!server
  <2>2. \E how : Routes!Settled(i, how) /\ (calls[i].kind = "test" \/ how # "ok")
    BY <1>6 DEF Routes!ServeTest, Routes!Fail
  <2>3. \E e : calls' = [calls EXCEPT ![i] = e] /\ IsAliasCall(e)
    BY <1>4, <2>2
  <2> QED
    BY <1>3, <2>1, <2>3 DEF TargetsInv
<1>7. CASE Routes!ServeWrite(i)
  <2> DEFINE k == calls[i]
  <2>1. k.kind \in {"create", "update", "toggle", "delete"}
    BY <1>7 DEF Routes!ServeWrite, Routes!Writes
  <2>2. DOMAIN table' = AliasId /\ \A id \in AliasId : IsStored(table'[id])
    <3>1. \E id, row : /\ table' = [table EXCEPT ![id] = row]
                       /\ id \in AliasId => IsStored(row)
      <4>1. CASE k.kind = "create"
        <5> DEFINE row == [enabled |-> TRUE, targets |-> k.val]
        <5>1. table' = [table EXCEPT ![lastId + 1] = row]
          BY <1>7, <4>1 DEF Routes!ServeWrite
        <5>2. row.targets = k.val
          OBVIOUS
        <5>3. IsStored(row)
          BY <1>2, <4>1, <5>2, TargetsTyped DEF IsAliasCall, IsStored
        <5> HIDE DEF row
        <5> QED
          BY <5>1, <5>3
      <4>2. CASE k.kind = "update"
        <5> DEFINE row == [enabled |-> TRUE, targets |-> k.val]
        <5>1. table' = [table EXCEPT ![k.id] = row]
          BY <1>7, <4>2 DEF Routes!ServeWrite, Routes!Stored
        <5>2. row.targets = k.val
          OBVIOUS
        <5>3. IsStored(row)
          BY <1>2, <4>2, <5>2, TargetsTyped DEF IsAliasCall, IsStored
        <5> HIDE DEF row
        <5> QED
          BY <5>1, <5>3
      <4>3. CASE k.kind = "toggle"
        <5> DEFINE row == [table[k.id] EXCEPT !.enabled = k.val]
        <5>1. table' = [table EXCEPT ![k.id] = row] /\ table[k.id] # None
          BY <1>7, <4>3 DEF Routes!ServeWrite, Routes!Stored
        <5>2. /\ table[k.id] \in StoredAliases /\ AreTargets(table[k.id].targets)
              /\ k.val \in BOOLEAN
          BY <1>2, <4>3, <5>1 DEF TargetsInv, IsStored, IsAliasCall
        <5>3. row.targets = table[k.id].targets /\ row \in StoredAliases
          BY <5>2 DEF StoredAliases
        <5>4. k.id \in AliasId => IsStored(row)
          BY <5>2, <5>3 DEF IsStored
        <5> HIDE DEF row
        <5> QED
          BY <5>1, <5>4
      <4>4. CASE k.kind = "delete"
        <5>1. table' = [table EXCEPT ![k.id] = None] /\ IsStored(None)
          BY <1>7, <4>4 DEF Routes!ServeWrite, Routes!Stored, IsStored
        <5> QED
          BY <5>1
      <4> QED
        BY <2>1, <4>1, <4>2, <4>3, <4>4
    <3>2. PICK id, row : table' = [table EXCEPT ![id] = row] /\ (id \in AliasId => IsStored(row))
      BY <3>1
    <3>3. DOMAIN table = AliasId /\ \A x \in AliasId : IsStored(table[x])
      BY DEF TargetsInv
    <3>4. DOMAIN table' = AliasId /\ \A x \in AliasId : table'[x] = IF x = id THEN row ELSE table[x]
      BY <3>2, <3>3
    <3> QED
      BY <3>2, <3>3, <3>4
  <2>3. \E e : calls' = [calls EXCEPT ![i] = e] /\ IsAliasCall(e)
    <3>1. CASE Routes!Settled(i, "error")
      BY <1>4, <3>1
    <3>2. CASE \E id \in AliasId : calls' = [calls EXCEPT ![i].at = "ok", ![i].id = id]
      <4> PICK id \in AliasId : calls' = [calls EXCEPT ![i].at = "ok", ![i].id = id]
        BY <3>2
      <4> DEFINE e == [[calls[i] EXCEPT !.at = "ok"] EXCEPT !.id = id]
      <4>1. calls' = [calls EXCEPT ![i] = e]
        OBVIOUS
      <4>2. DOMAIN e = DOMAIN calls[i] /\ e.kind = calls[i].kind /\ e.val = calls[i].val /\ e.id = id
        BY <1>2
      <4> HIDE DEF e
      <4>3. IsAliasCall(e)
        BY <1>2, <2>1, <4>2 DEF IsAliasCall
      <4> QED
        BY <4>1, <4>3
    <3>3. (IF k.kind = "create" THEN lastId + 1 ELSE k.id) \in AliasId
      BY <1>2, <1>7, <2>1 DEF Routes!ServeWrite, IsAliasCall
    <3> QED
      BY <1>7, <3>1, <3>2, <3>3, Zenon DEF Routes!ServeWrite
  <2> QED
    BY <1>3, <2>2, <2>3
<1> QED
  BY <1>5, <1>6, <1>7 DEF Routes!Serve

LEMMA TargetsAnswered ==
  ASSUME TargetsInv, NEW i \in DOMAIN calls, Routes!Done(i),
         aliases' # None => AreRows(aliases'),
         dialog' = dialog \/ dialog' = [dialog EXCEPT !.open = FALSE]
  PROVE  TargetsInv'
<1>1. calls' = Left(calls, i) /\ table' = table
  BY DEF Routes!Done, Routes!WithoutAt, Routes!server, Left
<1>2. /\ IsSequence(calls')
      /\ \A j \in DOMAIN calls' : Place(i, j) \in DOMAIN calls /\ calls'[j] = calls[Place(i, j)]
  BY <1>1, Removed DEF TargetsInv
<1>3. DOMAIN dialog' = {"open", "of", "targets"} /\ dialog'.targets = dialog.targets
  BY DEF TargetsInv
<1> QED
  BY <1>1, <1>2, <1>3 DEF TargetsInv

(* Edits of the draft keep its targets pairs that are offered. *)
LEMMA TargetsEdited ==
  ASSUME TargetsInv, Routes!AliasForm
  PROVE  TargetsInv'
<1> DEFINE s == dialog.targets
<1>1. DOMAIN dialog = {"open", "of", "targets"} /\ AreTargets(s)
  BY DEF TargetsInv
<1>2. ASSUME NEW t, Routes!EditTarget(t), AreTargets(t)
      PROVE  TargetsInv'
  <2>1. dialog' = [dialog EXCEPT !.targets = t] /\ UNCHANGED <<table, aliases, calls>>
    BY <1>2 DEF Routes!EditTarget, Routes!Edit, Routes!server, Routes!rows
  <2>2. DOMAIN dialog' = {"open", "of", "targets"} /\ dialog'.targets = t
    BY <1>1, <2>1
  <2> QED
    BY <1>2, <2>1, <2>2 DEF TargetsInv
<1>3. CASE Routes!AddTarget
  <2> DEFINE e == Routes!EmptyTarget
             t == Append(s, e)
  <2>1. Routes!EditTarget(t)
    BY <1>3 DEF Routes!AddTarget
  <2>2. IsTarget(e)
    BY DEF IsTarget, Routes!EmptyTarget, Routes!Draft
  <2> HIDE DEF e, s
  <2>3. /\ IsSequence(t) /\ DOMAIN t = 1..Len(s) + 1 /\ Len(s) \in Nat /\ DOMAIN s = 1..Len(s)
        /\ (\A k \in 1..Len(s) : t[k] = s[k]) /\ t[Len(s) + 1] = e
    BY <1>1, Appended DEF AreTargets
  <2>4. \A k \in DOMAIN t : k \in DOMAIN s \/ k = Len(s) + 1
    BY <2>3
  <2> HIDE DEF t
  <2>5. AreTargets(t)
    BY <1>1, <2>2, <2>3, <2>4 DEF AreTargets
  <2> QED
    BY <1>2, <2>1, <2>5
<1>4. ASSUME NEW k \in DOMAIN s, Routes!RemoveTarget(k)
      PROVE  TargetsInv'
  <2> DEFINE t == Left(s, k)
  <2>1. Routes!EditTarget(t)
    BY <1>4 DEF Routes!RemoveTarget, Routes!WithoutAt, Left
  <2>2. IsSequence(t) /\ \A j \in DOMAIN t : Place(k, j) \in DOMAIN s /\ t[j] = s[Place(k, j)]
    BY <1>1, Removed DEF AreTargets
  <2> HIDE DEF t, s
  <2>3. AreTargets(t)
    BY <1>1, <2>2 DEF AreTargets
  <2> QED
    BY <1>2, <2>1, <2>3
<1>5. ASSUME NEW k \in DOMAIN s, NEW e, IsTarget(e), Routes!EditTarget([s EXCEPT ![k] = e])
      PROVE  TargetsInv'
  <2> DEFINE t == [s EXCEPT ![k] = e]
  <2>1. IsSequence(t) /\ DOMAIN t = DOMAIN s /\ t[k] = e /\ \A j \in DOMAIN s \ {k} : t[j] = s[j]
    BY <1>1, Replaced DEF AreTargets
  <2> HIDE DEF t
  <2>2. AreTargets(t)
    BY <1>1, <1>5, <2>1 DEF AreTargets
  <2> QED
    BY <1>2, <1>5, <2>2 DEF t
<1>6. ASSUME NEW k \in DOMAIN s, NEW c \in Routes!Channels, Routes!ChooseProvider(k, c)
      PROVE  TargetsInv'
  <2> DEFINE e == [provider |-> c, model |-> Blank]
  <2>1. Routes!EditTarget([s EXCEPT ![k] = e])
    BY <1>6 DEF Routes!ChooseProvider, Routes!ProviderChosen
  <2>2. IsTarget(e)
    BY <1>6 DEF IsTarget, Routes!Draft
  <2> HIDE DEF e
  <2> QED
    BY <1>5, <2>1, <2>2
<1>7. ASSUME NEW k \in DOMAIN s, NEW m \in UNION {Offers[c] : c \in Routes!Channels},
             Routes!ChooseModel(k, m)
      PROVE  TargetsInv'
  <2> DEFINE e == [s[k] EXCEPT !.model = m]
  <2>1. /\ s[k].provider # Blank /\ m \in Offers[s[k].provider]
        /\ Routes!EditTarget([s EXCEPT ![k].model = m])
    BY <1>7 DEF Routes!ChooseModel
  <2>2. s[k] \in Routes!Draft
    BY <1>1 DEF AreTargets, IsTarget
  <2>3. e \in Routes!Draft /\ e.provider = s[k].provider /\ e.model = m
    BY <1>7, <2>2 DEF Routes!Draft
  <2>4. [s EXCEPT ![k].model = m] = [s EXCEPT ![k] = e]
    OBVIOUS
  <2>5. Routes!EditTarget([s EXCEPT ![k] = e])
    BY <2>1, <2>4
  <2> HIDE DEF e
  <2>6. IsTarget(e)
    BY <2>1, <2>3 DEF IsTarget
  <2> QED
    BY <1>5, <2>5, <2>6
<1> QED
  BY <1>3, <1>4, <1>6, <1>7 DEF Routes!AliasForm

LEMMA TargetsStep == TargetsInv /\ Routes!Next => TargetsInv'
<1> SUFFICES ASSUME TargetsInv, Routes!Next PROVE TargetsInv'
  OBVIOUS
<1>1. CASE Routes!Load
  BY <1>1, TargetsSent DEF Routes!Load, Routes!rows
<1>2. CASE Routes!OpenCreate
  <2> DEFINE e == Routes!EmptyTarget
             t == <<e>>
  <2>1. UNCHANGED <<table, aliases, calls>> /\ dialog' = [open |-> TRUE, of |-> None, targets |-> t]
    BY <1>2 DEF Routes!OpenCreate, Routes!Quietly, Routes!rows, Routes!server
  <2>2. IsTarget(e)
    BY DEF IsTarget, Routes!EmptyTarget, Routes!Draft
  <2> HIDE DEF e
  <2>3. t \in Seq({e}) /\ DOMAIN t = 1..1 /\ t[1] = e
    OBVIOUS
  <2> HIDE DEF t
  <2>4. AreTargets(t)
    BY <2>2, <2>3, SequenceOf DEF AreTargets
  <2>5. DOMAIN dialog' = {"open", "of", "targets"} /\ dialog'.targets = t
    BY <2>1
  <2> QED
    BY <2>1, <2>4, <2>5 DEF TargetsInv
<1>3. CASE Routes!CloseDialog
  <2>1. UNCHANGED <<table, aliases, calls>> /\ dialog' = [dialog EXCEPT !.open = FALSE]
    BY <1>3 DEF Routes!CloseDialog, Routes!Quietly, Routes!rows, Routes!server
  <2>2. DOMAIN dialog' = {"open", "of", "targets"} /\ dialog'.targets = dialog.targets
    BY <2>1 DEF TargetsInv
  <2> QED
    BY <2>1, <2>2 DEF TargetsInv
<1>4. CASE Routes!HandleSubmit
  <2>1. \E kind \in {"create", "update"} :
          /\ Routes!Operate(kind, dialog.of, dialog.targets)
          /\ kind = "update" => dialog.of \in AliasId
          /\ UNCHANGED <<aliases, dialog>>
    BY <1>4 DEF Routes!HandleSubmit, Routes!rows, TargetsInv
  <2> QED
    BY <2>1, TargetsSent DEF TargetsInv
<1>5. CASE Routes!AliasForm
  BY <1>5, TargetsEdited
<1>6. ASSUME NEW id \in AliasId, Routes!OpenEdit(id)
      PROVE  TargetsInv'
  <2> DEFINE k == CHOOSE j \in DOMAIN aliases : aliases[j].id = id
  <2>1. /\ UNCHANGED <<table, aliases, calls>> /\ aliases # None /\ k \in DOMAIN aliases
        /\ dialog' = [open |-> TRUE, of |-> id, targets |-> aliases[k].targets]
    BY <1>6 DEF Routes!OpenEdit, Routes!Quietly, Routes!rows, Routes!server, Routes!Row, Routes!RowOf
  <2>2. AreTargets(aliases[k].targets)
    BY <2>1 DEF TargetsInv, AreRows, IsListed, ListedAliases
  <2> HIDE DEF k
  <2>3. DOMAIN dialog' = {"open", "of", "targets"} /\ dialog'.targets = aliases[k].targets
    BY <2>1
  <2> QED
    BY <2>1, <2>2, <2>3 DEF TargetsInv
<1>7. ASSUME NEW id \in AliasId, Routes!HandleToggle(id)
      PROVE  TargetsInv'
  <2> DEFINE k == CHOOSE j \in DOMAIN aliases : aliases[j].id = id
  <2>1. aliases # None /\ k \in DOMAIN aliases /\ Routes!RowOf(id) = aliases[k]
    BY <1>7 DEF Routes!HandleToggle, Routes!Row, Routes!RowOf
  <2>2. (~Routes!RowOf(id).enabled) \in BOOLEAN
    BY <2>1 DEF TargetsInv, AreRows, IsListed, ListedAliases
  <2> QED
    BY <1>7, <2>2, TargetsSent DEF Routes!HandleToggle
<1>8. ASSUME NEW id \in AliasId, Routes!HandleDelete(id)
      PROVE  TargetsInv'
  BY <1>8, TargetsSent DEF Routes!HandleDelete
<1>9. ASSUME NEW id \in AliasId, Routes!HandleTest(id)
      PROVE  TargetsInv'
  BY <1>9, TargetsSent DEF Routes!HandleTest
<1>10. ASSUME NEW i \in DOMAIN calls, Routes!Serve(i)
       PROVE  TargetsInv'
  BY <1>10, TargetsServed
<1>11. ASSUME NEW i \in DOMAIN calls, Routes!LoadAnswered(i)
       PROVE  TargetsInv'
  <2>1. /\ Routes!Done(i) /\ dialog' = dialog /\ calls[i].kind = "load"
        /\ aliases' = aliases \/ (calls[i].at = "ok" /\ aliases' = calls[i].rows)
    BY <1>11 DEF Routes!LoadAnswered, Routes!Failed, Routes!Answered
  <2>2. aliases' # None => AreRows(aliases')
    BY <2>1 DEF TargetsInv, IsAliasCall
  <2> QED
    BY <2>1, <2>2, TargetsAnswered
<1>12. ASSUME NEW i \in DOMAIN calls, Routes!SubmitAnswered(i)
       PROVE  TargetsInv'
  <2> DEFINE row == [id |-> calls[i].id, enabled |-> TRUE, targets |-> calls[i].val]
  <2>1. /\ Routes!Done(i) /\ calls[i].kind \in {"create", "update"}
        /\ dialog' = dialog \/ dialog' = [dialog EXCEPT !.open = FALSE]
        /\ \/ aliases' = aliases \/ aliases' = <<row>>
           \/ aliases # None /\ aliases' \in {Append(aliases, row), Routes!Replaced(row)}
        /\ aliases' # aliases => calls[i].at = "ok"
    BY <1>12 DEF Routes!SubmitAnswered, Routes!Answered, Routes!Failed
  <2>2. aliases' # aliases => IsListed(row)
    BY <2>1, TargetsTyped DEF TargetsInv, IsAliasCall, IsListed, ListedAliases
  <2> HIDE DEF row
  <2>3. CASE aliases' = aliases
    BY <2>1, <2>3, TargetsAnswered DEF TargetsInv
  <2>4. CASE aliases' # aliases /\ aliases' = <<row>>
    <3>1. aliases' \in Seq({row}) /\ DOMAIN aliases' = 1..1 /\ aliases'[1] = row
      BY <2>4
    <3>2. IsSequence(aliases') /\ \A k \in DOMAIN aliases' : aliases'[k] = row
      BY <3>1, SequenceOf
    <3>3. AreRows(aliases')
      BY <2>2, <2>4, <3>2 DEF AreRows
    <3> QED
      BY <2>1, <3>3, TargetsAnswered
  <2>5. CASE aliases' # aliases /\ aliases # None /\ aliases' = Append(aliases, row)
    <3>1. AreRows(aliases)
      BY <2>5 DEF TargetsInv
    <3>2. /\ IsSequence(aliases') /\ DOMAIN aliases = 1..Len(aliases) /\ Len(aliases) \in Nat
          /\ DOMAIN aliases' = 1..Len(aliases) + 1
          /\ (\A k \in 1..Len(aliases) : aliases'[k] = aliases[k])
          /\ aliases'[Len(aliases) + 1] = row
      BY <2>5, <3>1, Appended DEF AreRows
    <3>3. \A k \in DOMAIN aliases' : k \in DOMAIN aliases \/ k = Len(aliases) + 1
      BY <3>2, SMTT(40)
    <3>4. AreRows(aliases')
      BY <2>2, <2>5, <3>1, <3>2, <3>3 DEF AreRows
    <3> QED
      BY <2>1, <3>4, TargetsAnswered
  <2>6. CASE aliases' # aliases /\ aliases # None /\ aliases' = Routes!Replaced(row)
    <3>1. AreRows(aliases)
      BY <2>6 DEF TargetsInv
    <3>2. DOMAIN aliases = 1..Len(aliases) /\ Len(aliases) \in Nat
      BY <3>1, SequenceOf DEF AreRows, IsSequence
    <3>3. aliases' = [k \in DOMAIN aliases |->
                        IF aliases[k].id = row.id THEN row ELSE aliases[k]]
      BY <2>6 DEF Routes!Replaced
    <3>4. /\ DOMAIN aliases' = 1..Len(aliases)
          /\ aliases' = [k \in 1..Len(aliases) |-> aliases'[k]]
      BY <3>2, <3>3
    <3>5. IsSequence(aliases')
      BY <3>2, <3>4, OnPlaces
    <3>6. \A k \in DOMAIN aliases' : k \in DOMAIN aliases /\ aliases'[k] \in {row, aliases[k]}
      BY <3>3
    <3>7. AreRows(aliases')
      BY <2>2, <2>6, <3>1, <3>5, <3>6 DEF AreRows
    <3> QED
      BY <2>1, <3>7, TargetsAnswered
  <2> QED
    BY <2>1, <2>3, <2>4, <2>5, <2>6
<1>13. ASSUME NEW i \in DOMAIN calls, Routes!ToggleAnswered(i)
       PROVE  TargetsInv'
  BY <1>13, TargetsAnswered DEF Routes!ToggleAnswered, TargetsInv
<1>14. ASSUME NEW i \in DOMAIN calls, Routes!DeleteAnswered(i)
       PROVE  TargetsInv'
  <2> DEFINE I == {k \in DOMAIN aliases : aliases[k].id # calls[i].id}
  <2>1. /\ Routes!Done(i) /\ dialog' = dialog
        /\ aliases' \in {aliases, None} \/ (aliases # None /\ aliases' = Routes!Picked(aliases, I))
    BY <1>14 DEF Routes!DeleteAnswered, Routes!Removed
  <2>2. CASE aliases' \in {aliases, None}
    BY <2>1, <2>2, TargetsAnswered DEF TargetsInv
  <2>3. CASE aliases # None /\ aliases' = Routes!Picked(aliases, I)
    <3>1. AreRows(aliases) /\ I \in SUBSET DOMAIN aliases
      BY <2>3 DEF TargetsInv
    <3> HIDE DEF I
    <3>2. aliases' = Failover!Picked(aliases, I)
      BY <2>3 DEF Failover!Picked, Failover!Ascending, Failover!Ordered, Failover!Cardinality,
                  Routes!Picked, Routes!Ascending, Routes!Ordered, Routes!Cardinality
    <3>3. /\ IsSequence(aliases')
          /\ \A k \in DOMAIN aliases' : \E j \in DOMAIN aliases : aliases'[k] = aliases[j]
      BY <3>1, <3>2, PickedElements DEF AreRows
    <3>4. AreRows(aliases')
      BY <3>1, <3>3 DEF AreRows
    <3> QED
      BY <2>1, <3>4, TargetsAnswered
  <2> QED
    BY <2>1, <2>2, <2>3
<1>15. ASSUME NEW i \in DOMAIN calls, Routes!TestAnswered(i)
       PROVE  TargetsInv'
  BY <1>15, TargetsAnswered DEF Routes!TestAnswered, TargetsInv
<1> QED
  BY <1>1, <1>2, <1>3, <1>4, <1>5, <1>6, <1>7, <1>8, <1>9, <1>10, <1>11, <1>12, <1>13,
     <1>14, <1>15
  DEF Routes!Next, Routes!User, Routes!Answer

LEMMA TargetsProperty == TargetsInv => Routes!PairsOffered
BY DEF TargetsInv, IsStored, StoredAliases, AreTargets, IsTarget, Routes!PairsOffered, Routes!Paired, Routes!Range

(***************************************************************************)
(* The calls of some kinds that are out.                                   *)
(***************************************************************************)
OutOf(s, kinds) == {i \in DOMAIN s : s[i].kind \in kinds}

LEMMA OutAppended ==
  ASSUME NEW s, IsSequence(s), NEW e, NEW kinds, NEW flag \in BOOLEAN,
         OneWhile(OutOf(s, kinds), flag), e.kind \in kinds => ~flag
  PROVE  OneWhile(OutOf(Append(s, e), kinds), flag \/ e.kind \in kinds)
<1> DEFINE t == Append(s, e)
           n == Len(s) + 1
<1>1. /\ DOMAIN s = 1..Len(s) /\ DOMAIN t = 1..n /\ Len(s) \in Nat
      /\ (\A i \in 1..Len(s) : t[i] = s[i]) /\ t[n] = e
  BY Appended
<1> HIDE DEF t
<1>2. DOMAIN t = DOMAIN s \cup {n} /\ n \notin DOMAIN s /\ \A i \in DOMAIN s : t[i] = s[i]
  BY <1>1
<1> HIDE DEF n
<1>3. OutOf(t, kinds) = OutOf(s, kinds) \cup (IF e.kind \in kinds THEN {n} ELSE {})
  BY <1>1, <1>2 DEF OutOf
<1>4. OneWhile(OutOf(t, kinds), flag \/ e.kind \in kinds)
  BY <1>3 DEF OneWhile, AtMostOne
<1> QED
  BY <1>4 DEF t

LEMMA OutLeft ==
  ASSUME NEW s, IsSequence(s), NEW i \in DOMAIN s, NEW kinds, NEW flag \in BOOLEAN,
         OneWhile(OutOf(s, kinds), flag)
  PROVE  OneWhile(OutOf(Left(s, i), kinds), flag /\ s[i].kind \notin kinds)
<1> DEFINE t == Left(s, i)
<1>1. /\ DOMAIN t = 1..Len(s) - 1 /\ DOMAIN s = 1..Len(s) /\ Len(s) \in Nat
      /\ \A j \in DOMAIN t : Place(i, j) \in DOMAIN s \ {i} /\ t[j] = s[Place(i, j)]
      /\ \A k \in DOMAIN s \ {i} : \E j \in DOMAIN t : Place(i, j) = k /\ t[j] = s[k]
  BY Removed
<1> HIDE DEF t
<1>2. \A j, k \in DOMAIN t : Place(i, j) = Place(i, k) => j = k
  BY <1>1 DEF Place
<1>3. AtMostOne(OutOf(t, kinds))
  BY <1>1, <1>2 DEF OneWhile, AtMostOne, OutOf
<1>4. OutOf(t, kinds) # {} <=> OutOf(s, kinds) \ {i} # {}
  BY <1>1 DEF OutOf
<1>5. OutOf(s, kinds) \ {i} # {} <=> flag /\ s[i].kind \notin kinds
  BY DEF OneWhile, AtMostOne, OutOf
<1>6. OneWhile(OutOf(t, kinds), flag /\ s[i].kind \notin kinds)
  BY <1>3, <1>4, <1>5 DEF OneWhile
<1> QED
  BY <1>6 DEF t

LEMMA OutReplaced ==
  ASSUME NEW s, IsSequence(s), NEW i \in DOMAIN s, NEW e, e.kind = s[i].kind, NEW kinds
  PROVE  OutOf([s EXCEPT ![i] = e], kinds) = OutOf(s, kinds)
BY Replaced DEF OutOf

(* A call that is alone stays alone when it is answered or carried out. *)
LEMMA AloneLeft ==
  ASSUME NEW s, IsSequence(s), AtMostOne(DOMAIN s), NEW i \in DOMAIN s
  PROVE  DOMAIN Left(s, i) = {}
<1>1. /\ DOMAIN s = 1..Len(s) /\ Len(s) \in Nat
      /\ \A j \in DOMAIN Left(s, i) : Place(i, j) \in DOMAIN s \ {i}
  BY Removed
<1> QED
  BY <1>1 DEF AtMostOne

(***************************************************************************)
(* The settings page.  While nothing is excused one call is out at most,   *)
(* so that what is shown is what is stored until a save is carried out.    *)
(***************************************************************************)
IsTimeouts(t) == t \in [Field -> Int]

IsSettingsCall(k) ==
  /\ DOMAIN k = {"kind", "val", "at"}
  /\ k.kind \in {"load", "save"}
  /\ k.kind = "load" /\ k.at = "ok" => IsTimeouts(k.val)
  /\ k.kind = "save" => IsTimeouts(k.val.timeouts)

SettingsCalls == IsSequence(calls) /\ \A i \in DOMAIN calls : IsSettingsCall(calls[i])

(* The texts of the fields that were not edited are those of the timeouts.   *)
SettingsForm ==
  /\ IsTimeouts(stored)
  /\ settings # None => IsTimeouts(settings)
  /\ form \in [Field -> Int \cup {Blank}] /\ edited \subseteq Field
  /\ settings # None => \A x \in Field \ edited : form[x] = Settings!SecondsText(settings[x])

SettingsOut ==
  /\ loading \in BOOLEAN /\ saving \in BOOLEAN
  /\ ~signedOut => /\ OneWhile(OutOf(calls, {"load"}), loading)
                   /\ OneWhile(OutOf(calls, {"save"}), saving)

(* What an answer that is out will say, and what a save will leave alone. *)
SettingsAgree(k) ==
  /\ k.kind = "load" /\ k.at = "ok" => k.val = stored
  /\ k.kind = "save" /\ k.at = "ok" => k.val.timeouts = stored
  /\ k.kind = "save" /\ k.at = "sent" =>
       \A x \in Field \ k.val.edited : k.val.timeouts[x] = stored[x]

SettingsFresh ==
  ~signedOut /\ ~excused =>
    /\ AtMostOne(DOMAIN calls)
    /\ \A i \in DOMAIN calls : SettingsAgree(calls[i])
    /\ settings # None =>
         settings = stored \/ \E i \in DOMAIN calls : calls[i].kind = "save" /\ calls[i].at = "ok"

SettingsInv == SettingsCalls /\ SettingsForm /\ SettingsOut /\ SettingsFresh

(* A text of timeouts is read back as the timeouts. *)
LEMMA SecondsReadBack ==
  ASSUME NEW ms \in Int
  PROVE  Settings!SecondsText(ms) \in Int /\ Settings!Round(Settings!SecondsText(ms)) = ms
BY DEF Settings!SecondsText, Settings!Round

LEMMA RoundedText == ASSUME NEW text \in Int PROVE Settings!Round(text) \in Int
BY DEF Settings!Round

LEMMA SettingsInit == Settings!Init => SettingsInv
<1> SUFFICES ASSUME Settings!Init PROVE SettingsInv
  OBVIOUS
<1> DEFINE call == Settings!Call("load", None)
<1>1. calls \in Seq({call}) /\ DOMAIN calls = 1..1 /\ calls[1] = call
  BY DEF Settings!Init
<1>2. /\ IsSettingsCall(call) /\ call.kind = "load" /\ call.at = "sent"
  BY DEF Settings!Call, IsSettingsCall
<1> HIDE DEF call
<1>3. IsSequence(calls) /\ DOMAIN calls = {1} /\ calls[1] = call
  BY <1>1, SequenceOf
<1>4. SettingsCalls
  BY <1>2, <1>3 DEF SettingsCalls
<1>5. SettingsOut
  BY <1>2, <1>3 DEF Settings!Init, SettingsOut, OneWhile, AtMostOne, OutOf
<1>6. SettingsFresh
  BY <1>2, <1>3 DEF Settings!Init, SettingsFresh, AtMostOne, SettingsAgree
<1>7. SettingsForm
  <2>1. \A x \in Field : Settings!SecondsText(Defaults[x]) \in Int
    BY TimeoutsAssumption, SecondsReadBack
  <2>2. form = [x \in Field |-> Settings!SecondsText(Defaults[x])]
    BY DEF Settings!Init, Settings!ToForm
  <2>3. form \in [Field -> Int \cup {Blank}]
    BY <2>1, <2>2
  <2> QED
    BY <2>3, TimeoutsAssumption DEF Settings!Init, SettingsForm, IsTimeouts
<1> QED
  BY <1>4, <1>5, <1>6, <1>7 DEF SettingsInv

LEMMA SettingsSame ==
  SettingsInv /\ UNCHANGED <<stored, settings, form, edited, loading, saving, calls, signedOut, excused>>
    => SettingsInv'
BY DEF SettingsInv, SettingsCalls, SettingsForm, SettingsOut, SettingsFresh, SettingsAgree

LEMMA SettingsEdited ==
  ASSUME SettingsInv, NEW x \in Field, NEW text \in TimeoutText, Settings!EditField(x, text)
  PROVE  SettingsInv'
<1>1. /\ form' = [form EXCEPT ![x] = text] /\ edited' = edited \cup {x}
      /\ UNCHANGED <<stored, settings, loading, saving, calls, signedOut, excused>>
  BY DEF Settings!EditField
<1>2. text \in Int \cup {Blank}
  BY TimeoutsAssumption
<1>3. SettingsForm'
  BY <1>1, <1>2 DEF SettingsInv, SettingsForm, IsTimeouts
<1> QED
  BY <1>1, <1>3 DEF SettingsInv, SettingsCalls, SettingsOut, SettingsFresh, SettingsAgree

(* A call is sent: a load, or a save of a form whose texts are numbers. *)
LEMMA SettingsSent ==
  ASSUME SettingsInv, NEW kind \in {"load", "save"}, NEW val, Settings!Operate(kind, val),
         kind = "save" => IsTimeouts(val.timeouts),
         kind = "save" /\ ~excused /\ settings = stored =>
           \A x \in Field \ val.edited : val.timeouts[x] = stored[x],
         kind = "save" => settings # None,
         \/ kind = "load" /\ ~loading /\ loading' = TRUE /\ UNCHANGED saving
         \/ kind = "save" /\ ~saving /\ saving' = TRUE /\ UNCHANGED loading
  PROVE  SettingsInv'
<1> DEFINE call == Settings!Call(kind, val)
           n == Len(calls) + 1
<1>1. /\ ~signedOut /\ calls' = Append(calls, call)
      /\ excused' = (excused \/ \E i \in DOMAIN calls : calls[i].kind # kind)
      /\ UNCHANGED <<stored, settings, form, edited, signedOut>>
  BY DEF Settings!Operate
<1>2. /\ IsSettingsCall(call) /\ call.kind = kind /\ call.at = "sent" /\ call.val = val
  BY DEF Settings!Call, IsSettingsCall
<1> HIDE DEF call
<1>3. /\ IsSequence(calls') /\ DOMAIN calls = 1..Len(calls) /\ DOMAIN calls' = 1..n
      /\ Len(calls) \in Nat
      /\ (\A i \in 1..Len(calls) : calls'[i] = calls[i]) /\ calls'[n] = call
  BY <1>1, Appended DEF SettingsInv, SettingsCalls
<1>4. DOMAIN calls' = DOMAIN calls \cup {n} /\ \A i \in DOMAIN calls : calls'[i] = calls[i]
  BY <1>3
<1> HIDE DEF n
<1>5. SettingsCalls'
  BY <1>2, <1>3, <1>4 DEF SettingsInv, SettingsCalls
<1>6. SettingsForm'
  BY <1>1 DEF SettingsInv, SettingsForm
<1>7. /\ loading \in BOOLEAN /\ saving \in BOOLEAN /\ IsSequence(calls)
      /\ OneWhile(OutOf(calls, {"load"}), loading) /\ OneWhile(OutOf(calls, {"save"}), saving)
  BY <1>1 DEF SettingsInv, SettingsOut, SettingsCalls
<1>8. SettingsOut'
  <2>1. CASE kind = "load"
    <3>1. OneWhile(OutOf(calls', {"load"}), loading \/ call.kind \in {"load"})
      BY <1>1, <1>2, <1>7, <2>1, OutAppended
    <3>2. OneWhile(OutOf(calls', {"save"}), saving \/ call.kind \in {"save"})
      BY <1>1, <1>2, <1>7, <2>1, OutAppended
    <3> QED
      BY <1>2, <1>7, <2>1, <3>1, <3>2 DEF SettingsOut
  <2>2. CASE kind = "save"
    <3>1. OneWhile(OutOf(calls', {"load"}), loading \/ call.kind \in {"load"})
      BY <1>1, <1>2, <1>7, <2>2, OutAppended
    <3>2. OneWhile(OutOf(calls', {"save"}), saving \/ call.kind \in {"save"})
      BY <1>1, <1>2, <1>7, <2>2, OutAppended
    <3> QED
      BY <1>2, <1>7, <2>2, <3>1, <3>2 DEF SettingsOut
  <2> QED
    BY <2>1, <2>2
<1>9. ASSUME ~excused'
      PROVE  ~excused /\ DOMAIN calls = {}
  <2>1. ~excused /\ \A i \in DOMAIN calls : calls[i].kind = kind
    BY <1>1, <1>9
  <2>2. OutOf(calls, {kind}) = {}
    BY <1>7 DEF OneWhile
  <2> QED
    BY <2>1, <2>2 DEF OutOf
<1>10. SettingsFresh'
  <2> SUFFICES ASSUME ~excused' PROVE SettingsFresh'
    BY DEF SettingsFresh
  <2>1. DOMAIN calls = {} /\ DOMAIN calls' = {n} /\ calls'[n] = call /\ ~excused
    BY <1>3, <1>4, <1>9
  <2>2. settings # None => settings = stored
    BY <1>1, <2>1 DEF SettingsInv, SettingsFresh
  <2>3. SettingsAgree(call)'
    BY <1>1, <1>2, <2>1, <2>2, SMTT(40) DEF SettingsAgree
  <2> QED
    BY <1>1, <2>1, <2>2, <2>3 DEF SettingsFresh, AtMostOne
<1> QED
  BY <1>5, <1>6, <1>8, <1>10 DEF SettingsInv

(* What the server does with a call: the answer it gives, and what it stores. *)
LEMMA SettingsServing ==
  ASSUME SettingsInv, NEW i \in DOMAIN calls, Settings!Serve(i)
  PROVE  \E how, val :
           /\ calls' = [calls EXCEPT ![i].at = how, ![i].val = val]
           /\ how # "sent"
           /\ calls[i].kind = "load" /\ how = "ok" => IsTimeouts(val)
           /\ calls[i].kind = "save" => val = calls[i].val
           /\ IsTimeouts(stored')
           /\ calls[i].kind = "load" => stored' = stored /\ (~excused' /\ how = "ok" => val = stored)
           /\ calls[i].kind = "save" /\ ~excused' =>
                IF how = "ok" THEN stored' = val.timeouts ELSE stored' = stored
           /\ ~excused' => ~excused
<1> DEFINE P(how, val) ==
             /\ calls' = [calls EXCEPT ![i].at = how, ![i].val = val]
             /\ how # "sent"
             /\ calls[i].kind = "load" /\ how = "ok" => IsTimeouts(val)
             /\ calls[i].kind = "save" => val = calls[i].val
             /\ IsTimeouts(stored')
             /\ calls[i].kind = "load" => stored' = stored /\ (~excused' /\ how = "ok" => val = stored)
             /\ calls[i].kind = "save" /\ ~excused' =>
                  IF how = "ok" THEN stored' = val.timeouts ELSE stored' = stored
             /\ ~excused' => ~excused
<1>1. IsSettingsCall(calls[i]) /\ IsTimeouts(stored)
  BY DEF SettingsInv, SettingsCalls, SettingsForm
<1>2. CASE Settings!ServeLoad(i)
  <2>1. calls[i].kind = "load" /\ stored' = stored /\ IsTimeouts(Defaults)
    BY <1>2, TimeoutsAssumption DEF Settings!ServeLoad, IsTimeouts
  <2>2. CASE Settings!Settled(i, "ok", stored) /\ excused' = excused
    <3>1. P("ok", stored)
      BY <1>1, <2>1, <2>2 DEF Settings!Settled
    <3> QED
      BY <3>1
  <2>3. CASE Settings!Settled(i, "ok", Defaults) /\ excused' = (excused \/ stored # Defaults)
    <3>1. P("ok", Defaults)
      BY <1>1, <2>1, <2>3 DEF Settings!Settled
    <3> QED
      BY <3>1
  <2> QED
    BY <1>2, <2>2, <2>3 DEF Settings!ServeLoad
<1>3. CASE Settings!ServeSave(i)
  <2>1. calls[i].kind = "save" /\ stored' = calls[i].val.timeouts /\ IsTimeouts(stored')
    BY <1>1, <1>3 DEF Settings!ServeSave, IsSettingsCall
  <2>2. CASE Settings!Settled(i, "ok", calls[i].val) /\ excused' = excused
    <3>1. P("ok", calls[i].val)
      BY <2>1, <2>2 DEF Settings!Settled
    <3> QED
      BY <3>1
  <2>3. CASE Settings!Settled(i, "error", calls[i].val) /\ excused' = TRUE
    <3>1. P("error", calls[i].val)
      BY <2>1, <2>3 DEF Settings!Settled
    <3> QED
      BY <3>1
  <2> QED
    BY <1>3, <2>2, <2>3 DEF Settings!ServeSave
<1>4. CASE Settings!Fail(i)
  <2>1. PICK how \in {"error", "unauthorized"} : Settings!Settled(i, how, calls[i].val)
    BY <1>4 DEF Settings!Fail
  <2>2. stored' = stored /\ excused' = excused
    BY <1>4 DEF Settings!Fail
  <2>3. P(how, calls[i].val)
    BY <1>1, <2>1, <2>2 DEF Settings!Settled
  <2> QED
    BY <2>3
<1> QED
  BY <1>2, <1>3, <1>4 DEF Settings!Serve

LEMMA SettingsServed ==
  ASSUME SettingsInv, NEW i \in DOMAIN calls, Settings!Serve(i)
  PROVE  SettingsInv'
<1>1. /\ calls[i].at = "sent" /\ ~signedOut
      /\ UNCHANGED <<settings, form, edited, loading, saving, signedOut>>
  BY DEF Settings!Serve, Settings!view
<1>2. PICK how, val :
        /\ calls' = [calls EXCEPT ![i].at = how, ![i].val = val]
        /\ how # "sent"
        /\ calls[i].kind = "load" /\ how = "ok" => IsTimeouts(val)
        /\ calls[i].kind = "save" => val = calls[i].val
        /\ IsTimeouts(stored')
        /\ calls[i].kind = "load" => stored' = stored /\ (~excused' /\ how = "ok" => val = stored)
        /\ calls[i].kind = "save" /\ ~excused' =>
             IF how = "ok" THEN stored' = val.timeouts ELSE stored' = stored
        /\ ~excused' => ~excused
  BY SettingsServing
<1> DEFINE e == [[calls[i] EXCEPT !.at = how] EXCEPT !.val = val]
<1>3. calls' = [calls EXCEPT ![i] = e]
  BY <1>2
<1>4. IsSettingsCall(calls[i]) /\ IsSequence(calls)
  BY DEF SettingsInv, SettingsCalls
<1>5. DOMAIN e = {"kind", "val", "at"} /\ e.kind = calls[i].kind /\ e.at = how /\ e.val = val
  BY <1>4 DEF IsSettingsCall
<1> HIDE DEF e
<1>6. /\ IsSequence(calls') /\ DOMAIN calls' = DOMAIN calls /\ calls'[i] = e
      /\ \A j \in DOMAIN calls \ {i} : calls'[j] = calls[j]
  BY <1>3, <1>4, Replaced
<1>7. SettingsCalls'
  <2>1. IsSettingsCall(e)
    BY <1>2, <1>4, <1>5 DEF IsSettingsCall
  <2> QED
    BY <1>6, <2>1 DEF SettingsInv, SettingsCalls
<1>8. SettingsForm'
  BY <1>1, <1>2 DEF SettingsInv, SettingsForm
<1>9. SettingsOut'
  <2>1. /\ OutOf(calls', {"load"}) = OutOf(calls, {"load"})
        /\ OutOf(calls', {"save"}) = OutOf(calls, {"save"})
    <3>1. /\ OutOf([calls EXCEPT ![i] = e], {"load"}) = OutOf(calls, {"load"})
          /\ OutOf([calls EXCEPT ![i] = e], {"save"}) = OutOf(calls, {"save"})
      BY <1>4, <1>5, OutReplaced
    <3> QED
      BY <1>3, <3>1
  <2> QED
    BY <1>1, <2>1 DEF SettingsInv, SettingsOut
<1>10. SettingsFresh'
  <2> SUFFICES ASSUME ~excused' PROVE SettingsFresh'
    BY DEF SettingsFresh
  <2>1. /\ ~excused /\ AtMostOne(DOMAIN calls) /\ DOMAIN calls = {i}
        /\ settings # None => settings = stored
    BY <1>1, <1>2 DEF SettingsInv, SettingsFresh, AtMostOne
  <2>2. /\ e.kind = "load" /\ e.at = "ok" => e.val = stored'
        /\ e.kind = "save" /\ e.at = "ok" => e.val.timeouts = stored'
        /\ e.at # "sent"
    BY <1>2, <1>5
  <2>3. settings' # None => settings' = stored' \/ (e.kind = "save" /\ e.at = "ok")
    BY <1>1, <1>2, <1>4, <1>5, <2>1 DEF IsSettingsCall
  <2> QED
    BY <1>1, <1>6, <2>1, <2>2, <2>3 DEF SettingsFresh, SettingsAgree, AtMostOne
<1> QED
  BY <1>7, <1>8, <1>9, <1>10 DEF SettingsInv

(* The form filled from timeouts shows them. *)
LEMMA SettingsFilled ==
  ASSUME NEW t, IsTimeouts(t), Settings!FilledFrom(t)
  PROVE  /\ IsTimeouts(settings') /\ form' \in [Field -> Int \cup {Blank}] /\ edited' = {}
         /\ \A x \in Field : form'[x] = Settings!SecondsText(settings'[x])
<1>1. settings' = t /\ form' = [x \in Field |-> Settings!SecondsText(t[x])] /\ edited' = {}
  BY DEF Settings!FilledFrom, Settings!ToForm
<1>2. \A x \in Field : Settings!SecondsText(t[x]) \in Int
  BY SecondsReadBack DEF IsTimeouts
<1> QED
  BY <1>1, <1>2

LEMMA SettingsAnswered ==
  ASSUME SettingsInv, NEW i \in DOMAIN calls, NEW kind, Settings!Answered(i, kind),
         loading' = (loading /\ kind # "load"), saving' = (saving /\ kind # "save"),
         \/ UNCHANGED <<settings, form, edited>> /\ ~(kind = "save" /\ calls[i].at = "ok")
         \/ kind = "load" /\ calls[i].at = "ok" /\ Settings!FilledFrom(calls[i].val)
         \/ kind = "save" /\ calls[i].at = "ok" /\ Settings!FilledFrom(calls[i].val.timeouts)
  PROVE  SettingsInv'
<1>1. /\ calls' = Left(calls, i) /\ calls[i].kind = kind /\ ~signedOut
      /\ UNCHANGED <<stored, excused>>
  BY DEF Settings!Answered, Settings!WithoutAt, Left
<1>2. IsSequence(calls) /\ IsSettingsCall(calls[i])
  BY DEF SettingsInv, SettingsCalls
<1>3. /\ IsSequence(calls')
      /\ \A j \in DOMAIN calls' : Place(i, j) \in DOMAIN calls /\ calls'[j] = calls[Place(i, j)]
  BY <1>1, <1>2, Removed
<1>4. SettingsCalls'
  BY <1>3 DEF SettingsInv, SettingsCalls
<1>5. ASSUME UNCHANGED <<settings, form, edited>>, ~(kind = "save" /\ calls[i].at = "ok")
      PROVE  SettingsForm' /\ SettingsFresh'
  <2>1. SettingsForm'
    BY <1>1, <1>5 DEF SettingsInv, SettingsForm
  <2>2. SettingsFresh'
    <3> SUFFICES ASSUME ~excused PROVE SettingsFresh'
      BY <1>1 DEF SettingsFresh
    <3>1. AtMostOne(DOMAIN calls) /\ (settings # None => settings = stored)
      BY <1>1, <1>5 DEF SettingsInv, SettingsFresh, AtMostOne
    <3>2. DOMAIN calls' = {}
      BY <1>1, <1>2, <3>1, AloneLeft
    <3> QED
      BY <1>1, <1>5, <3>1, <3>2 DEF SettingsFresh, AtMostOne
  <2> QED
    BY <2>1, <2>2
<1>6. ASSUME NEW t, IsTimeouts(t), Settings!FilledFrom(t), ~excused => t = stored
      PROVE  SettingsForm' /\ SettingsFresh'
  <2>1. SettingsForm'
    BY <1>1, <1>6, SettingsFilled DEF SettingsInv, SettingsForm
  <2>2. SettingsFresh'
    <3> SUFFICES ASSUME ~excused PROVE SettingsFresh'
      BY <1>1 DEF SettingsFresh
    <3>1. AtMostOne(DOMAIN calls)
      BY <1>1 DEF SettingsInv, SettingsFresh
    <3>2. DOMAIN calls' = {}
      BY <1>1, <1>2, <3>1, AloneLeft
    <3>3. settings' = t /\ t = stored
      BY <1>6 DEF Settings!FilledFrom
    <3> QED
      BY <1>1, <3>2, <3>3 DEF SettingsFresh, AtMostOne
  <2> QED
    BY <2>1, <2>2
<1>7. SettingsForm' /\ SettingsFresh'
  <2>1. ~excused => SettingsAgree(calls[i])
    BY <1>1 DEF SettingsInv, SettingsFresh
  <2>2. CASE kind = "load" /\ calls[i].at = "ok" /\ Settings!FilledFrom(calls[i].val)
    BY <1>1, <1>2, <1>6, <2>1, <2>2 DEF SettingsAgree, IsSettingsCall
  <2>3. CASE kind = "save" /\ calls[i].at = "ok" /\ Settings!FilledFrom(calls[i].val.timeouts)
    BY <1>1, <1>2, <1>6, <2>1, <2>3 DEF SettingsAgree, IsSettingsCall
  <2> QED
    BY <1>5, <2>2, <2>3
<1>8. SettingsOut'
  <2>1. /\ loading \in BOOLEAN /\ saving \in BOOLEAN
        /\ OneWhile(OutOf(calls, {"load"}), loading) /\ OneWhile(OutOf(calls, {"save"}), saving)
    BY <1>1 DEF SettingsInv, SettingsOut
  <2>2. /\ OneWhile(OutOf(calls', {"load"}), loading /\ calls[i].kind \notin {"load"})
        /\ OneWhile(OutOf(calls', {"save"}), saving /\ calls[i].kind \notin {"save"})
    BY <1>1, <1>2, <2>1, OutLeft
  <2> QED
    BY <1>1, <2>1, <2>2 DEF SettingsOut
<1> QED
  BY <1>4, <1>7, <1>8 DEF SettingsInv

LEMMA SettingsStep == SettingsInv /\ Settings!Next => SettingsInv'
<1> SUFFICES ASSUME SettingsInv, Settings!Next PROVE SettingsInv'
  OBVIOUS
<1>0. loading \in BOOLEAN /\ saving \in BOOLEAN
  BY DEF SettingsInv, SettingsOut
<1>1. CASE Settings!LoadSettings
  BY <1>0, <1>1, SettingsSent DEF Settings!LoadSettings
<1>2. CASE Settings!HandleSave
  <2> DEFINE t == [x \in Field |-> Settings!Round(form[x])]
             val == [timeouts |-> t, edited |-> edited]
  <2>1. /\ settings # None /\ ~saving /\ saving' = TRUE /\ UNCHANGED loading
        /\ \A x \in Field : form[x] # Blank
        /\ Settings!Operate("save", val)
    BY <1>2 DEF Settings!HandleSave, Settings!CanSubmit, Settings!Parses
  <2>2. \A x \in Field : form[x] \in Int
    BY <2>1 DEF SettingsInv, SettingsForm
  <2>3. IsTimeouts(t)
    BY <2>2, RoundedText DEF IsTimeouts
  <2>4. settings = stored => \A x \in Field \ edited : t[x] = stored[x]
    BY <2>1, SecondsReadBack DEF SettingsInv, SettingsForm, IsTimeouts
  <2>5. val.timeouts = t /\ val.edited = edited
    OBVIOUS
  <2> HIDE DEF t, val
  <2> QED
    BY <1>0, <2>1, <2>3, <2>4, <2>5, SettingsSent
<1>3. CASE Settings!FeedbackFades
  BY <1>3, SettingsSame DEF Settings!FeedbackFades
<1>4. ASSUME NEW i \in DOMAIN calls, Settings!LoadAnswered(i)
      PROVE  SettingsInv'
  BY <1>0, <1>4, SettingsAnswered DEF Settings!LoadAnswered
<1>5. ASSUME NEW i \in DOMAIN calls, Settings!SaveAnswered(i)
      PROVE  SettingsInv'
  BY <1>0, <1>5, SettingsAnswered DEF Settings!SaveAnswered
<1>6. ASSUME NEW x \in Field, NEW text \in TimeoutText, Settings!EditField(x, text)
      PROVE  SettingsInv'
  BY <1>6, SettingsEdited
<1> QED
  BY <1>1, <1>2, <1>3, <1>4, <1>5, <1>6, SettingsServed DEF Settings!Next

LEMMA SettingsQuiet == SettingsInv => Settings!QuietMeansFresh
<1> SUFFICES ASSUME SettingsInv, calls = <<>>, settings # None, ~signedOut, ~excused
             PROVE  settings = stored /\ (edited = {} => form = Settings!ToForm(stored))
  BY DEF Settings!QuietMeansFresh
<1>1. settings = stored
  BY DEF SettingsInv, SettingsFresh
<1>2. edited = {} => form = [x \in Field |-> Settings!SecondsText(stored[x])]
  BY <1>1 DEF SettingsInv, SettingsForm
<1> QED
  BY <1>1, <1>2 DEF Settings!ToForm

(* Only the call that is carried out changes what is stored. *)
LEMMA SettingsUntouched == SettingsInv /\ Settings!Next => Settings!UneditedTimeoutsKept
<1> SUFFICES ASSUME SettingsInv, Settings!Next,
                    NEW i \in DOMAIN calls, calls[i].kind = "save", calls[i].at = "sent",
                    stored' # stored, ~excused'
             PROVE  \A x \in Field \ calls[i].val.edited : stored'[x] = stored[x]
  BY DEF Settings!UneditedTimeoutsKept
<1>1. PICK j \in DOMAIN calls : Settings!Serve(j)
  BY DEF Settings!Next, Settings!EditField, Settings!LoadSettings, Settings!HandleSave,
         Settings!FeedbackFades, Settings!Operate, Settings!LoadAnswered, Settings!SaveAnswered,
         Settings!Answered
<1>2. /\ ~signedOut /\ ~excused /\ calls[j].kind \in {"load", "save"}
      /\ calls[j].kind = "load" => stored' = stored
      /\ calls[j].kind = "save" => stored' = calls[j].val.timeouts \/ stored' = stored
  BY <1>1, SettingsServing DEF Settings!Serve, SettingsInv, SettingsCalls, IsSettingsCall
<1>3. i = j /\ SettingsAgree(calls[i])
  BY <1>2 DEF SettingsInv, SettingsFresh, AtMostOne
<1> QED
  BY <1>2, <1>3 DEF SettingsAgree

(***************************************************************************)
(* Lists that nothing is left out of.                                      *)
(***************************************************************************)
Rank(S, e) == Cardinality({d \in S : d < e})

LEMMA PickedAll ==
  ASSUME NEW s, IsSequence(s)
  PROVE  Failover!Picked(s, DOMAIN s) = s
<1> DEFINE n == Len(s)
           S == {s[k] : k \in DOMAIN s}
           place == Failover!Ascending(1..n)
<1>1. DOMAIN s = 1..n /\ n \in Nat /\ s \in [1..n -> S]
  BY SequenceOf, LenProperties DEF IsSequence
<1> HIDE DEF S, n
<1>2. IsFiniteSet(1..n) /\ Cardinality(1..n) = n /\ 1..n \subseteq Int
  BY <1>1, FS_Interval
<1>3. place = [k \in 1..n |-> CHOOSE e \in 1..n : Rank(1..n, e) = k - 1]
  BY <1>2 DEF Failover!Ascending, Failover!Ordered, Failover!Cardinality, Cardinality, Rank
<1> HIDE DEF place
<1>4. ASSUME NEW e \in 1..n
      PROVE  Rank(1..n, e) = e - 1
  <2>1. {d \in 1..n : d < e} = 1..(e - 1)
    BY <1>1
  <2>2. Cardinality(1..(e - 1)) = e - 1
    BY <1>1, FS_Interval
  <2> QED
    BY <2>1, <2>2 DEF Rank
<1>5. ASSUME NEW k \in 1..n
      PROVE  place[k] = k
  <2>1. place[k] = CHOOSE e \in 1..n : Rank(1..n, e) = k - 1
    BY <1>3
  <2>2. \A e \in 1..n : Rank(1..n, e) = k - 1 <=> e = k
    BY <1>1, <1>4
  <2> QED
    BY <2>1, <2>2
<1>6. DOMAIN place = 1..n
  BY <1>3
<1>7. Failover!Picked(s, DOMAIN s) = [k \in DOMAIN place |-> s[place[k]]]
  BY <1>1 DEF Failover!Picked, place
<1>8. [k \in DOMAIN place |-> s[place[k]]] = [k \in 1..n |-> s[k]]
  BY <1>5, <1>6
<1> QED
  BY <1>1, <1>7, <1>8

(* A list in which nothing is twice is its own list without repetition. *)
LEMMA DistinctSame ==
  ASSUME NEW s, IsSequence(s), Cardinality(Failover!Range(s)) = Len(s)
  PROVE  Failover!Distinct(s) = s
<1> DEFINE n == Len(s)
           S == {s[k] : k \in DOMAIN s}
<1>1. DOMAIN s = 1..n /\ n \in Nat /\ s \in [1..n -> S]
  BY SequenceOf, LenProperties DEF IsSequence
<1>2. S = Failover!Range(s)
  BY DEF Failover!Range
<1>3. \A y \in S : \E k \in 1..n : s[k] = y
  BY <1>1
<1> HIDE DEF S, n
<1>4. s \in Surjection(1..n, S)
  BY <1>1, <1>3 DEF Surjection
<1>5. IsFiniteSet(1..n) /\ Cardinality(1..n) = n
  BY <1>1, FS_Interval
<1>6. s \in Injection(1..n, S)
  BY <1>2, <1>4, <1>5, FS_Surjection DEF n
<1>7. \A j, k \in 1..n : s[j] = s[k] => j = k
  BY <1>6 DEF Injection, IsInjective
<1>8. {i \in DOMAIN s : \A j \in 1..(i - 1) : s[j] # s[i]} = DOMAIN s
  BY <1>1, <1>7
<1> QED
  BY <1>8, PickedAll DEF Failover!Distinct

(***************************************************************************)
(* The failover form: as the settings page.  The two conversions lose      *)
(* nothing of a policy whose rules are complete.                           *)
(***************************************************************************)
PolicyField == {"enabled", "mode", "attempts", "custom", "codes"}

LEMMA ParsedSame ==
  ASSUME NEW rules, GoodRules(rules), AreRecords(rules)
  PROVE  Failover!ParsedRules(rules) = rules
<1>1. /\ IsSequence(rules)
      /\ \A k \in DOMAIN rules : IsSequence(rules[k].fallbacks)
  BY DEF GoodRules, AreRules
<1>2. \A k \in DOMAIN rules :
        /\ rules[k].model # Blank /\ rules[k].fallbacks # <<>>
        /\ Cardinality(Failover!Range(rules[k].fallbacks)) = Len(rules[k].fallbacks)
  BY DEF GoodRules, Failover!CompleteRules, Failover!Range, Failover!Cardinality, Cardinality
<1>3. {i \in DOMAIN rules : rules[i].model # Blank \/ rules[i].fallbacks # <<>>} = DOMAIN rules
  BY <1>2
<1>4. Failover!Kept(rules) = rules
  BY <1>1, <1>3, PickedAll DEF Failover!Kept
<1>5. \A k \in DOMAIN rules : Failover!Distinct(rules[k].fallbacks) = rules[k].fallbacks
  BY <1>1, <1>2, DistinctSame
<1>6. Failover!ParsedRules(rules) =
        [k \in DOMAIN rules |->
           [model |-> rules[k].model, fallbacks |-> Failover!Distinct(rules[k].fallbacks)]]
  BY <1>4 DEF Failover!ParsedRules
<1>7. \A k \in DOMAIN rules :
        [model |-> rules[k].model, fallbacks |-> Failover!Distinct(rules[k].fallbacks)] = rules[k]
  BY <1>5 DEF AreRecords
<1>8. Failover!ParsedRules(rules) = [k \in DOMAIN rules |-> rules[k]]
  BY <1>6, <1>7
<1>9. rules = [k \in DOMAIN rules |-> rules[k]]
  <2> DEFINE S == {rules[k] : k \in DOMAIN rules}
  <2>1. rules \in Seq(S)
    BY <1>1 DEF IsSequence
  <2> HIDE DEF S
  <2>2. rules \in [1..Len(rules) -> S]
    BY <2>1, LenProperties
  <2> QED
    BY <2>2
<1> QED
  BY <1>8, <1>9

(* What a save makes of a policy in the form, field by field. *)
LEMMA PolicyReadBack ==
  ASSUME NEW p, IsPolicy(p), GoodRules(p.custom), NEW f, NEW touched,
         \A x \in PolicyField \ touched : f[x] = Failover!ToFailoverForm(p)[x]
  PROVE  \A x \in PolicyField \ touched :
           Failover!ToPolicy(f)[x] = p[x] \/ (x = "codes" /\ 408 \notin p.codes)
<1> DEFINE shown == Failover!ToFailoverForm(p)
           made == Failover!ToPolicy(f)
<1>1. /\ shown.enabled = p.enabled /\ shown.mode = p.mode /\ shown.attempts = p.attempts
      /\ shown.custom = p.custom /\ shown.codes = (429 \in p.codes)
  BY DEF Failover!ToFailoverForm
<1>2. /\ made.enabled = f.enabled /\ made.mode = f.mode /\ made.attempts = f.attempts
      /\ made.custom = Failover!ParsedRules(f.custom)
      /\ made.codes = IF f.codes THEN {408, 429} ELSE {408}
  BY DEF Failover!ToPolicy
<1>3. Failover!ParsedRules(p.custom) = p.custom
  BY ParsedSame DEF IsPolicy
<1>4. ~(408 \notin p.codes) => p.codes = IF 429 \in p.codes THEN {408, 429} ELSE {408}
  BY DEF IsPolicy
<1> HIDE DEF shown, made
<1> SUFFICES ASSUME NEW x \in PolicyField, x \notin touched
             PROVE  made[x] = p[x] \/ (x = "codes" /\ 408 \notin p.codes)
  BY DEF made
<1>5. f[x] = shown[x]
  BY DEF shown
<1>6. CASE x \in {"enabled", "mode", "attempts"}
  BY <1>1, <1>2, <1>5, <1>6
<1>7. CASE x = "custom"
  BY <1>1, <1>2, <1>3, <1>5, <1>7
<1>8. CASE x = "codes"
  <2>1. f.codes = (429 \in p.codes)
    BY <1>1, <1>5, <1>8, Zenon
  <2>2. made.codes = IF 429 \in p.codes THEN {408, 429} ELSE {408}
    BY <1>2, <2>1, Zenon
  <2> QED
    BY <1>4, <1>8, <2>2
<1> QED
  BY <1>6, <1>7, <1>8 DEF PolicyField

LEMMA MadePolicy ==
  ASSUME NEW f
  PROVE  IsPolicy(Failover!ToPolicy(f)) /\ IsPolicy(Failover!DefaultPolicy)
<1> DEFINE made == Failover!ToPolicy(f)
           rules == Failover!ParsedRules(f.custom)
<1>1. DOMAIN made = PolicyField /\ made.custom = rules /\ made.codes \subseteq {408, 429}
  BY DEF Failover!ToPolicy, PolicyField
<1>2. AreRecords(rules)
  BY DEF Failover!ParsedRules, AreRecords
<1>3. /\ DOMAIN Failover!DefaultPolicy = PolicyField /\ Failover!DefaultPolicy.custom = <<>>
      /\ Failover!DefaultPolicy.codes \subseteq {408, 429}
  BY DEF Failover!DefaultPolicy, PolicyField
<1>4. AreRecords(<<>>)
  BY EmptySeq DEF AreRecords
<1> HIDE DEF made, rules
<1> QED
  BY <1>1, <1>2, <1>3, <1>4 DEF IsPolicy, PolicyField, made, rules

IsPolicyCall(k) ==
  /\ k.kind \in {"load", "save"}
  /\ k.kind = "load" /\ k.at = "ok" => IsPolicy(k.val)
  /\ k.kind = "save" => IsPolicy(k.val.policy)

PolicyForm ==
  /\ IsPolicy(served)
  /\ edited \subseteq PolicyField /\ flags \subseteq {"loading", "saving"}
  /\ policy # None =>
       /\ IsPolicy(policy) /\ form = [x \in PolicyField |-> form[x]]
       /\ \A x \in PolicyField \ edited : form[x] = Failover!ToFailoverForm(policy)[x]

PolicyOut ==
  ~signedOut => /\ OneWhile(OutOf(calls, {"load"}), "loading" \in flags)
                /\ OneWhile(OutOf(calls, {"save"}), "saving" \in flags)

(* What an answer that is out will say, and what a save will leave alone. *)
PolicyAgrees(k) ==
  /\ k.kind = "load" /\ k.at = "ok" => k.val = served
  /\ k.kind = "save" /\ k.at = "ok" => k.val.policy = served
  /\ k.kind = "save" /\ k.at = "sent" =>
       \A x \in PolicyField \ k.val.edited :
         k.val.policy[x] = served[x] \/ (x = "codes" /\ 408 \notin served.codes)

PolicyFresh ==
  ~signedOut /\ ~excused =>
    /\ AtMostOne(DOMAIN calls)
    /\ \A i \in DOMAIN calls : PolicyAgrees(calls[i])
    /\ policy # None =>
         policy = served \/ \E i \in DOMAIN calls : calls[i].kind = "save" /\ calls[i].at = "ok"

PolicyInv ==
  /\ FailoverInv /\ \A i \in DOMAIN calls : IsPolicyCall(calls[i])
  /\ PolicyForm /\ PolicyOut /\ PolicyFresh

LEMMA PolicyInit == Failover!Init => PolicyInv
<1> SUFFICES ASSUME Failover!Init PROVE PolicyInv
  OBVIOUS
<1> DEFINE call == Failover!Call("load", None)
<1>1. calls \in Seq({call}) /\ DOMAIN calls = 1..1 /\ calls[1] = call
  BY DEF Failover!Init
<1>2. IsPolicyCall(call) /\ call.kind = "load" /\ call.at = "sent"
  BY DEF Failover!Call, IsPolicyCall
<1> HIDE DEF call
<1>3. DOMAIN calls = {1} /\ calls[1] = call
  BY <1>1
<1>4. PolicyOut
  BY <1>2, <1>3 DEF Failover!Init, PolicyOut, OneWhile, AtMostOne, OutOf
<1>5. PolicyFresh
  BY <1>2, <1>3 DEF Failover!Init, PolicyFresh, AtMostOne, PolicyAgrees
<1>6. PolicyForm
  BY PoliciesAssumption DEF Failover!Init, PolicyForm
<1> QED
  BY <1>2, <1>3, <1>4, <1>5, <1>6, FailoverInit DEF PolicyInv

LEMMA PolicySame ==
  PolicyInv /\ UNCHANGED <<served, policy, form, edited, flags, calls, signedOut, excused>>
    => PolicyInv'
BY FailoverKept DEF PolicyInv, PolicyForm, PolicyOut, PolicyFresh, PolicyAgrees

LEMMA PolicyEdited ==
  ASSUME PolicyInv, FailoverInv', NEW x \in PolicyField, NEW v,
         form' = [form EXCEPT ![x] = v], edited' = edited \cup {x},
         UNCHANGED <<served, policy, flags, calls, signedOut, excused>>
  PROVE  PolicyInv'
<1>1. policy # None => /\ form' = [y \in PolicyField |-> form'[y]]
                       /\ \A y \in PolicyField \ {x} : form'[y] = form[y]
  BY DEF PolicyInv, PolicyForm
<1>2. PolicyForm'
  BY <1>1 DEF PolicyInv, PolicyForm
<1> QED
  BY <1>2 DEF PolicyInv, PolicyOut, PolicyFresh, PolicyAgrees

(* Every edit changes a field and remembers it. *)
LEMMA EditsOneField ==
  ASSUME form # None, Failover!EditForm
  PROVE  /\ \E x \in PolicyField : \E v : form' = [form EXCEPT ![x] = v] /\ edited' = edited \cup {x}
         /\ UNCHANGED <<served, policy, flags, calls, signedOut, excused>>
<1>1. ASSUME NEW x \in PolicyField, NEW v, Failover!Edit(x, [form EXCEPT ![x] = v])
      PROVE  /\ \E y \in PolicyField : \E w : form' = [form EXCEPT ![y] = w] /\ edited' = edited \cup {y}
             /\ UNCHANGED <<served, policy, flags, calls, signedOut, excused>>
  BY <1>1, Zenon DEF Failover!Edit
<1>2. /\ "enabled" \in PolicyField /\ "mode" \in PolicyField /\ "attempts" \in PolicyField
      /\ "custom" \in PolicyField /\ "codes" \in PolicyField
  BY DEF PolicyField
<1>3. CASE Failover!EditSettings
  <2>1. CASE Failover!Edit("enabled", [form EXCEPT !["enabled"] = ~form.enabled])
    BY <1>1, <1>2, <2>1
  <2>2. ASSUME NEW m, Failover!Edit("mode", [form EXCEPT !["mode"] = m])
        PROVE  /\ \E y \in PolicyField : \E w : form' = [form EXCEPT ![y] = w] /\ edited' = edited \cup {y}
               /\ UNCHANGED <<served, policy, flags, calls, signedOut, excused>>
    BY <1>1, <1>2, <2>2
  <2>3. ASSUME NEW m, Failover!Edit("attempts", [form EXCEPT !["attempts"] = m])
        PROVE  /\ \E y \in PolicyField : \E w : form' = [form EXCEPT ![y] = w] /\ edited' = edited \cup {y}
               /\ UNCHANGED <<served, policy, flags, calls, signedOut, excused>>
    BY <1>1, <1>2, <2>3
  <2> QED
    BY <1>3, <2>1, <2>2, <2>3, Zenon DEF Failover!EditSettings
<1>4. CASE Failover!EditTriggers
  BY <1>1, <1>2, <1>4, Zenon DEF Failover!EditTriggers
<1>5. ASSUME NEW rules, Failover!EditRules(rules)
      PROVE  /\ \E y \in PolicyField : \E w : form' = [form EXCEPT ![y] = w] /\ edited' = edited \cup {y}
             /\ UNCHANGED <<served, policy, flags, calls, signedOut, excused>>
  BY <1>1, <1>2, <1>5 DEF Failover!EditRules
<1>6. CASE Failover!AddCustomFallbackRule
  BY <1>5, <1>6 DEF Failover!AddCustomFallbackRule
<1>7. ASSUME NEW k, Failover!UpdateCustomFallbackRule(k) \/ Failover!RemoveCustomFallbackRule(k)
      PROVE  \E rules : Failover!EditRules(rules)
  BY <1>7, Zenon DEF Failover!UpdateCustomFallbackRule, Failover!RemoveCustomFallbackRule
<1> QED
  BY <1>3, <1>4, <1>5, <1>6, <1>7 DEF Failover!EditForm

(* A call is sent: a load, or a save of a policy the form is read as. *)
LEMMA PolicySent ==
  ASSUME PolicyInv, FailoverInv', NEW kind \in {"load", "save"}, NEW val, Failover!Operate(kind, val),
         kind = "save" => policy # None /\ IsPolicy(val.policy),
         kind = "save" /\ policy = served =>
           \A x \in PolicyField \ val.edited :
             val.policy[x] = served[x] \/ (x = "codes" /\ 408 \notin served.codes),
         \/ kind = "load" /\ "loading" \notin flags /\ flags' = flags \cup {"loading"}
         \/ kind = "save" /\ "saving" \notin flags /\ flags' = flags \cup {"saving"}
  PROVE  PolicyInv'
<1> DEFINE call == Failover!Call(kind, val)
           n == Len(calls) + 1
<1>1. /\ ~signedOut /\ calls' = Append(calls, call)
      /\ excused' = (excused \/ \E i \in DOMAIN calls : calls[i].kind # kind)
      /\ UNCHANGED <<served, policy, form, edited, signedOut>>
  BY DEF Failover!Operate
<1>2. /\ IsPolicyCall(call) /\ call.kind = kind /\ call.at = "sent" /\ call.val = val
  BY DEF Failover!Call, IsPolicyCall
<1> HIDE DEF call
<1>3. /\ IsSequence(calls') /\ DOMAIN calls = 1..Len(calls) /\ DOMAIN calls' = 1..n
      /\ Len(calls) \in Nat
      /\ (\A i \in 1..Len(calls) : calls'[i] = calls[i]) /\ calls'[n] = call
  BY <1>1, Appended DEF PolicyInv, FailoverInv
<1>4. DOMAIN calls' = DOMAIN calls \cup {n} /\ \A i \in DOMAIN calls : calls'[i] = calls[i]
  BY <1>3
<1> HIDE DEF n
<1>5. \A i \in DOMAIN calls' : IsPolicyCall(calls'[i])
  BY <1>2, <1>3, <1>4 DEF PolicyInv
<1>6. PolicyForm'
  BY <1>1 DEF PolicyInv, PolicyForm
<1>7. /\ IsSequence(calls)
      /\ OneWhile(OutOf(calls, {"load"}), "loading" \in flags)
      /\ OneWhile(OutOf(calls, {"save"}), "saving" \in flags)
  BY <1>1 DEF PolicyInv, PolicyOut, FailoverInv
<1>8. PolicyOut'
  <2>0. /\ ("loading" \in flags) \in BOOLEAN /\ ("saving" \in flags) \in BOOLEAN
        /\ call.kind \in {"load"} => ~("loading" \in flags)
        /\ call.kind \in {"save"} => ~("saving" \in flags)
    BY <1>2
  <2>1. OneWhile(OutOf(calls', {"load"}), "loading" \in flags \/ call.kind \in {"load"})
    BY <1>1, <1>7, <2>0, OutAppended
  <2>2. OneWhile(OutOf(calls', {"save"}), "saving" \in flags \/ call.kind \in {"save"})
    BY <1>1, <1>7, <2>0, OutAppended
  <2>3. /\ "loading" \in flags' <=> "loading" \in flags \/ call.kind \in {"load"}
        /\ "saving" \in flags' <=> "saving" \in flags \/ call.kind \in {"save"}
    BY <1>2
  <2> QED
    BY <2>1, <2>2, <2>3 DEF PolicyOut, OneWhile
<1>9. ASSUME ~excused'
      PROVE  ~excused /\ DOMAIN calls = {}
  <2>1. ~excused /\ \A i \in DOMAIN calls : calls[i].kind = kind
    BY <1>1, <1>9
  <2>2. OutOf(calls, {kind}) = {}
    BY <1>7 DEF OneWhile
  <2> QED
    BY <2>1, <2>2 DEF OutOf
<1>10. PolicyFresh'
  <2> SUFFICES ASSUME ~excused' PROVE PolicyFresh'
    BY DEF PolicyFresh
  <2>1. DOMAIN calls = {} /\ DOMAIN calls' = {n} /\ calls'[n] = call /\ ~excused
    BY <1>3, <1>4, <1>9
  <2>2. policy # None => policy = served
    BY <1>1, <2>1 DEF PolicyInv, PolicyFresh
  <2>3. PolicyAgrees(call)'
    BY <1>1, <1>2, <2>1, <2>2, SMTT(40) DEF PolicyAgrees
  <2> QED
    BY <1>1, <2>1, <2>2, <2>3 DEF PolicyFresh, AtMostOne
<1> QED
  BY <1>5, <1>6, <1>8, <1>10 DEF PolicyInv

(* What the server does with a call: the answer it gives, and what it stores. *)
LEMMA PolicyServing ==
  ASSUME PolicyInv, NEW i \in DOMAIN calls, Failover!Serve(i)
  PROVE  \E how, val :
           /\ calls' = [calls EXCEPT ![i].at = how, ![i].val = val]
           /\ how # "sent"
           /\ calls[i].kind = "load" /\ how = "ok" => IsPolicy(val)
           /\ calls[i].kind = "save" => val = calls[i].val
           /\ IsPolicy(served')
           /\ calls[i].kind = "load" => served' = served /\ (~excused' /\ how = "ok" => val = served)
           /\ calls[i].kind = "save" /\ ~excused' =>
                IF how = "ok" THEN served' = val.policy ELSE served' = served
           /\ ~excused' => ~excused
<1> DEFINE P(how, val) ==
             /\ calls' = [calls EXCEPT ![i].at = how, ![i].val = val]
             /\ how # "sent"
             /\ calls[i].kind = "load" /\ how = "ok" => IsPolicy(val)
             /\ calls[i].kind = "save" => val = calls[i].val
             /\ IsPolicy(served')
             /\ calls[i].kind = "load" => served' = served /\ (~excused' /\ how = "ok" => val = served)
             /\ calls[i].kind = "save" /\ ~excused' =>
                  IF how = "ok" THEN served' = val.policy ELSE served' = served
             /\ ~excused' => ~excused
<1>1. IsPolicyCall(calls[i]) /\ IsPolicy(served)
  BY DEF PolicyInv, PolicyForm
<1>2. CASE Failover!ServeLoad(i)
  <2>1. calls[i].kind = "load" /\ served' = served /\ IsPolicy(Failover!DefaultPolicy)
    BY <1>2, MadePolicy DEF Failover!ServeLoad
  <2>2. CASE Failover!Settled(i, "ok", served) /\ excused' = excused
    <3>1. P("ok", served)
      BY <1>1, <2>1, <2>2 DEF Failover!Settled
    <3> QED
      BY <3>1
  <2>3. CASE Failover!Settled(i, "ok", Failover!DefaultPolicy)
             /\ excused' = (excused \/ served # Failover!DefaultPolicy)
    <3>1. P("ok", Failover!DefaultPolicy)
      BY <1>1, <2>1, <2>3 DEF Failover!Settled
    <3> QED
      BY <3>1
  <2> QED
    BY <1>2, <2>2, <2>3 DEF Failover!ServeLoad
<1>3. CASE Failover!ServeSave(i)
  <2>1. calls[i].kind = "save" /\ served' = calls[i].val.policy /\ IsPolicy(served')
    BY <1>1, <1>3 DEF Failover!ServeSave, IsPolicyCall
  <2>2. CASE Failover!Settled(i, "ok", calls[i].val) /\ excused' = excused
    <3>1. P("ok", calls[i].val)
      BY <2>1, <2>2 DEF Failover!Settled
    <3> QED
      BY <3>1
  <2>3. CASE Failover!Settled(i, "error", calls[i].val) /\ excused' = TRUE
    <3>1. P("error", calls[i].val)
      BY <2>1, <2>3 DEF Failover!Settled
    <3> QED
      BY <3>1
  <2> QED
    BY <1>3, <2>2, <2>3 DEF Failover!ServeSave
<1>4. CASE Failover!Fail(i)
  <2>1. PICK how \in {"error", "unauthorized"} : Failover!Settled(i, how, calls[i].val)
    BY <1>4 DEF Failover!Fail
  <2>2. served' = served /\ excused' = excused
    BY <1>4 DEF Failover!Fail
  <2>3. P(how, calls[i].val)
    BY <1>1, <2>1, <2>2 DEF Failover!Settled
  <2> QED
    BY <2>3
<1> QED
  BY <1>2, <1>3, <1>4 DEF Failover!Serve

LEMMA PolicyServed ==
  ASSUME PolicyInv, FailoverInv', NEW i \in DOMAIN calls, Failover!Serve(i)
  PROVE  PolicyInv'
<1>1. /\ calls[i].at = "sent" /\ ~signedOut
      /\ UNCHANGED <<policy, form, edited, flags, signedOut>>
  BY DEF Failover!Serve
<1>2. PICK how, val :
        /\ calls' = [calls EXCEPT ![i].at = how, ![i].val = val]
        /\ how # "sent"
        /\ calls[i].kind = "load" /\ how = "ok" => IsPolicy(val)
        /\ calls[i].kind = "save" => val = calls[i].val
        /\ IsPolicy(served')
        /\ calls[i].kind = "load" => served' = served /\ (~excused' /\ how = "ok" => val = served)
        /\ calls[i].kind = "save" /\ ~excused' =>
             IF how = "ok" THEN served' = val.policy ELSE served' = served
        /\ ~excused' => ~excused
  BY PolicyServing
<1> DEFINE e == [[calls[i] EXCEPT !.at = how] EXCEPT !.val = val]
<1>3. calls' = [calls EXCEPT ![i] = e]
  BY <1>2
<1>4. IsPolicyCall(calls[i]) /\ IsSequence(calls) /\ DOMAIN calls[i] = {"kind", "val", "at"}
  BY DEF PolicyInv, FailoverInv, IsFailoverCall
<1>5. e.kind = calls[i].kind /\ e.at = how /\ e.val = val
  BY <1>4
<1> HIDE DEF e
<1>6. /\ IsSequence(calls') /\ DOMAIN calls' = DOMAIN calls /\ calls'[i] = e
      /\ \A j \in DOMAIN calls \ {i} : calls'[j] = calls[j]
  BY <1>3, <1>4, Replaced
<1>7. \A j \in DOMAIN calls' : IsPolicyCall(calls'[j])
  <2>1. IsPolicyCall(e)
    BY <1>2, <1>4, <1>5 DEF IsPolicyCall
  <2> QED
    BY <1>6, <2>1 DEF PolicyInv
<1>8. PolicyForm'
  BY <1>1, <1>2 DEF PolicyInv, PolicyForm
<1>9. PolicyOut'
  <2>1. /\ OutOf(calls', {"load"}) = OutOf(calls, {"load"})
        /\ OutOf(calls', {"save"}) = OutOf(calls, {"save"})
    <3>1. /\ OutOf([calls EXCEPT ![i] = e], {"load"}) = OutOf(calls, {"load"})
          /\ OutOf([calls EXCEPT ![i] = e], {"save"}) = OutOf(calls, {"save"})
      BY <1>4, <1>5, OutReplaced
    <3> QED
      BY <1>3, <3>1
  <2> QED
    BY <1>1, <2>1 DEF PolicyInv, PolicyOut
<1>10. PolicyFresh'
  <2> SUFFICES ASSUME ~excused' PROVE PolicyFresh'
    BY DEF PolicyFresh
  <2>1. /\ ~excused /\ AtMostOne(DOMAIN calls) /\ DOMAIN calls = {i}
        /\ policy # None => policy = served
    BY <1>1, <1>2 DEF PolicyInv, PolicyFresh, AtMostOne
  <2>2. /\ e.kind = "load" /\ e.at = "ok" => e.val = served'
        /\ e.kind = "save" /\ e.at = "ok" => e.val.policy = served'
        /\ e.at # "sent"
    BY <1>2, <1>5
  <2>3. policy' # None => policy' = served' \/ (e.kind = "save" /\ e.at = "ok")
    BY <1>1, <1>2, <1>4, <1>5, <2>1 DEF IsPolicyCall
  <2> QED
    BY <1>1, <1>6, <2>1, <2>2, <2>3 DEF PolicyFresh, PolicyAgrees, AtMostOne
<1> QED
  BY <1>7, <1>8, <1>9, <1>10 DEF PolicyInv

(* The form filled from a policy shows it. *)
LEMMA PolicyFilled ==
  ASSUME NEW p, IsPolicy(p), form' = Failover!ToFailoverForm(p)
  PROVE  /\ form' = [x \in PolicyField |-> form'[x]]
         /\ \A x \in PolicyField : form'[x] = Failover!ToFailoverForm(p)[x]
BY DEF Failover!ToFailoverForm, PolicyField

LEMMA PolicyReset ==
  ASSUME PolicyInv, FailoverInv', Failover!ResetFailover
  PROVE  PolicyInv'
<1>1. /\ policy # None /\ form' = Failover!ToFailoverForm(policy) /\ edited' = {}
      /\ UNCHANGED <<served, policy, flags, calls, signedOut, excused>>
  BY DEF Failover!ResetFailover
<1>2. IsPolicy(policy)
  BY <1>1 DEF PolicyInv, PolicyForm
<1>3. PolicyForm'
  BY <1>1, <1>2, PolicyFilled DEF PolicyInv, PolicyForm
<1> QED
  BY <1>1, <1>3 DEF PolicyInv, PolicyOut, PolicyFresh, PolicyAgrees

LEMMA PolicyAnswered ==
  ASSUME PolicyInv, FailoverInv', NEW i \in DOMAIN calls, NEW kind \in {"load", "save"},
         Failover!Answered(i, kind),
         \/ kind = "load" /\ flags' = flags \ {"loading"}
         \/ kind = "save" /\ flags' = flags \ {"saving"},
         \/ UNCHANGED <<policy, form, edited>> /\ ~(kind = "save" /\ calls[i].at = "ok")
         \/ kind = "load" /\ calls[i].at = "ok" /\ Failover!FilledFrom(calls[i].val)
         \/ kind = "save" /\ calls[i].at = "ok" /\ Failover!FilledFrom(calls[i].val.policy)
  PROVE  PolicyInv'
<1>1. /\ calls' = Left(calls, i) /\ calls[i].kind = kind /\ ~signedOut
      /\ UNCHANGED <<served, excused>>
  BY DEF Failover!Answered, Failover!WithoutAt, Left
<1>2. IsSequence(calls) /\ IsPolicyCall(calls[i])
  BY DEF PolicyInv, FailoverInv
<1>3. /\ IsSequence(calls')
      /\ \A j \in DOMAIN calls' : Place(i, j) \in DOMAIN calls /\ calls'[j] = calls[Place(i, j)]
  BY <1>1, <1>2, Removed
<1>4. \A j \in DOMAIN calls' : IsPolicyCall(calls'[j])
  BY <1>3 DEF PolicyInv
<1>0. flags' \subseteq {"loading", "saving"}
  BY DEF PolicyInv, PolicyForm
<1>5. ASSUME UNCHANGED <<policy, form, edited>>, ~(kind = "save" /\ calls[i].at = "ok")
      PROVE  PolicyForm' /\ PolicyFresh'
  <2>1. PolicyForm'
    BY <1>0, <1>1, <1>5 DEF PolicyInv, PolicyForm
  <2>2. PolicyFresh'
    <3> SUFFICES ASSUME ~excused PROVE PolicyFresh'
      BY <1>1 DEF PolicyFresh
    <3>1. AtMostOne(DOMAIN calls) /\ (policy # None => policy = served)
      BY <1>1, <1>5 DEF PolicyInv, PolicyFresh, AtMostOne
    <3>2. DOMAIN calls' = {}
      BY <1>1, <1>2, <3>1, AloneLeft
    <3> QED
      BY <1>1, <1>5, <3>1, <3>2 DEF PolicyFresh, AtMostOne
  <2> QED
    BY <2>1, <2>2
<1>6. ASSUME NEW p, IsPolicy(p), Failover!FilledFrom(p), ~excused => p = served
      PROVE  PolicyForm' /\ PolicyFresh'
  <2>0. policy' = p /\ form' = Failover!ToFailoverForm(p) /\ edited' = {}
    BY <1>6 DEF Failover!FilledFrom
  <2>1. PolicyForm'
    BY <1>0, <1>1, <1>6, <2>0, PolicyFilled DEF PolicyInv, PolicyForm
  <2>2. PolicyFresh'
    <3> SUFFICES ASSUME ~excused PROVE PolicyFresh'
      BY <1>1 DEF PolicyFresh
    <3>1. AtMostOne(DOMAIN calls)
      BY <1>1 DEF PolicyInv, PolicyFresh
    <3>2. DOMAIN calls' = {}
      BY <1>1, <1>2, <3>1, AloneLeft
    <3>3. policy' = p /\ p = served
      BY <1>6, <2>0
    <3> QED
      BY <1>1, <3>2, <3>3 DEF PolicyFresh, AtMostOne
  <2> QED
    BY <2>1, <2>2
<1>7. PolicyForm' /\ PolicyFresh'
  <2>1. ~excused => PolicyAgrees(calls[i])
    BY <1>1 DEF PolicyInv, PolicyFresh
  <2>2. CASE kind = "load" /\ calls[i].at = "ok" /\ Failover!FilledFrom(calls[i].val)
    BY <1>1, <1>2, <1>6, <2>1, <2>2 DEF PolicyAgrees, IsPolicyCall
  <2>3. CASE kind = "save" /\ calls[i].at = "ok" /\ Failover!FilledFrom(calls[i].val.policy)
    BY <1>1, <1>2, <1>6, <2>1, <2>3 DEF PolicyAgrees, IsPolicyCall
  <2> QED
    BY <1>5, <2>2, <2>3
<1>8. PolicyOut'
  <2>1. /\ ("loading" \in flags) \in BOOLEAN /\ ("saving" \in flags) \in BOOLEAN
        /\ OneWhile(OutOf(calls, {"load"}), "loading" \in flags)
        /\ OneWhile(OutOf(calls, {"save"}), "saving" \in flags)
    BY <1>1 DEF PolicyInv, PolicyOut
  <2>2. /\ OneWhile(OutOf(calls', {"load"}), "loading" \in flags /\ calls[i].kind \notin {"load"})
        /\ OneWhile(OutOf(calls', {"save"}), "saving" \in flags /\ calls[i].kind \notin {"save"})
    BY <1>1, <1>2, <2>1, OutLeft
  <2>3. /\ "loading" \in flags' <=> "loading" \in flags /\ calls[i].kind \notin {"load"}
        /\ "saving" \in flags' <=> "saving" \in flags /\ calls[i].kind \notin {"save"}
    BY <1>1
  <2> QED
    BY <2>2, <2>3 DEF PolicyOut, OneWhile
<1> QED
  BY <1>4, <1>7, <1>8 DEF PolicyInv

LEMMA PolicyStep == PolicyInv /\ Failover!Next => PolicyInv'
<1> SUFFICES ASSUME PolicyInv, Failover!Next PROVE PolicyInv'
  OBVIOUS
<1>0. FailoverInv'
  BY FailoverStep DEF PolicyInv
<1>1. CASE Failover!Load
  BY <1>0, <1>1, PolicySent DEF Failover!Load
<1>2. CASE Failover!HandleFailoverSave
  <2> DEFINE made == Failover!ToPolicy(form)
             val == [policy |-> made, edited |-> edited]
  <2>1. /\ policy # None /\ "saving" \notin flags /\ flags' = flags \cup {"saving"}
        /\ Failover!Operate("save", val)
    BY <1>2 DEF Failover!HandleFailoverSave
  <2>2. IsPolicy(made)
    BY MadePolicy
  <2>3. policy = served => \A x \in PolicyField \ edited :
          made[x] = served[x] \/ (x = "codes" /\ 408 \notin served.codes)
    <3> SUFFICES ASSUME policy = served
                 PROVE  \A x \in PolicyField \ edited :
                          made[x] = served[x] \/ (x = "codes" /\ 408 \notin served.codes)
      OBVIOUS
    <3>1. /\ IsPolicy(served) /\ GoodRules(served.custom)
          /\ \A x \in PolicyField \ edited : form[x] = Failover!ToFailoverForm(served)[x]
      BY <2>1 DEF PolicyInv, PolicyForm, FailoverInv
    <3> QED
      BY <3>1, PolicyReadBack
  <2>4. val.policy = made /\ val.edited = edited
    OBVIOUS
  <2> HIDE DEF made, val
  <2> QED
    BY <1>0, <2>1, <2>2, <2>3, <2>4, PolicySent
<1>3. CASE Failover!ResetFailover
  BY <1>0, <1>3, PolicyReset
<1>4. CASE Failover!FeedbackFades
  BY <1>4, PolicySame DEF Failover!FeedbackFades
<1>5. CASE form # None /\ Failover!EditForm
  BY <1>0, <1>5, EditsOneField, PolicyEdited
<1>6. ASSUME NEW i \in DOMAIN calls, Failover!LoadAnswered(i)
      PROVE  PolicyInv'
  BY <1>0, <1>6, PolicyAnswered DEF Failover!LoadAnswered
<1>7. ASSUME NEW i \in DOMAIN calls, Failover!SaveAnswered(i)
      PROVE  PolicyInv'
  BY <1>0, <1>7, PolicyAnswered DEF Failover!SaveAnswered
<1> QED
  BY <1>0, <1>1, <1>2, <1>3, <1>4, <1>5, <1>6, <1>7, PolicyServed DEF Failover!Next

LEMMA PolicyQuiet == PolicyInv => Failover!QuietMeansFresh
<1> SUFFICES ASSUME PolicyInv, calls = <<>>, policy # None, ~signedOut, ~excused
             PROVE  policy = served /\ (edited = {} => form = Failover!ToFailoverForm(served))
  BY DEF Failover!QuietMeansFresh
<1>1. policy = served
  BY DEF PolicyInv, PolicyFresh
<1>2. edited = {} => form = [x \in PolicyField |-> Failover!ToFailoverForm(served)[x]]
  BY <1>1 DEF PolicyInv, PolicyForm
<1>3. Failover!ToFailoverForm(served) = [x \in PolicyField |-> Failover!ToFailoverForm(served)[x]]
  BY DEF Failover!ToFailoverForm, PolicyField
<1> QED
  BY <1>1, <1>2, <1>3

(* Only the call that is carried out changes what is stored. *)
LEMMA PolicyUntouched == PolicyInv /\ Failover!Next => Failover!UneditedPolicyKept
<1> SUFFICES ASSUME PolicyInv, Failover!Next,
                    NEW i \in DOMAIN calls, calls[i].kind = "save", calls[i].at = "sent",
                    served' # served, ~excused'
             PROVE  \A x \in DOMAIN served \ calls[i].val.edited :
                      served'[x] = served[x] \/ (x = "codes" /\ 408 \notin served.codes)
  BY DEF Failover!UneditedPolicyKept
<1>0. ~(form # None /\ Failover!EditForm)
  BY EditsOneField
<1>1. PICK j \in DOMAIN calls : Failover!Serve(j)
  BY <1>0 DEF Failover!Next, Failover!Load, Failover!HandleFailoverSave, Failover!ResetFailover,
         Failover!FeedbackFades, Failover!Operate, Failover!LoadAnswered, Failover!SaveAnswered,
         Failover!Answered
<1>2. /\ ~signedOut /\ ~excused /\ calls[j].kind \in {"load", "save"}
      /\ calls[j].kind = "load" => served' = served
      /\ calls[j].kind = "save" => served' = calls[j].val.policy \/ served' = served
  BY <1>1, PolicyServing DEF Failover!Serve, PolicyInv, IsPolicyCall
<1>3. i = j /\ PolicyAgrees(calls[i]) /\ DOMAIN served = PolicyField
  BY <1>2 DEF PolicyInv, PolicyFresh, AtMostOne, PolicyForm, IsPolicy, PolicyField
<1> QED
  BY <1>2, <1>3 DEF PolicyAgrees

(***************************************************************************)
(* The dialogs of the providers page.  As long as a child dialog is open   *)
(* the form is guarded: the ref is set and nothing is about to clear it.   *)
(***************************************************************************)
DialogsInv ==
  /\ IsSequence(stack) /\ IsSequence(calls)
  /\ Providers!ChildOpenIn(stack) => childRef /\ ~childTimer

LEMMA KeptDialogs ==
  ASSUME NEW s, IsSequence(s), NEW d
  PROVE  LET t == Providers!ButFor(s, d) IN
         IsSequence(t) /\ Providers!Range(t) = Providers!Range(s) \ {d}
<1> DEFINE I == {i \in DOMAIN s : s[i] # d}
           t == Failover!Picked(s, I)
           place == Failover!Ascending(I)
           n == Cardinality(I)
<1>1. I \in SUBSET DOMAIN s /\ \A i : i \in I <=> i \in DOMAIN s /\ s[i] # d
  OBVIOUS
<1>2. /\ IsSequence(t) /\ DOMAIN t = 1..n /\ n \in Nat
      /\ \A k \in DOMAIN t : place[k] \in I /\ t[k] = s[place[k]]
      /\ \A j, k \in DOMAIN t : place[j] = place[k] => j = k
  BY <1>1, PickedElements
<1>3. Providers!ButFor(s, d) = t
  BY DEF Providers!ButFor, Providers!Picked, Providers!Ascending, Providers!Ordered,
         Providers!Cardinality, Failover!Picked, Failover!Ascending, Failover!Ordered,
         Failover!Cardinality
<1> HIDE DEF t, place, n
<1>4. \A i \in I : \E k \in DOMAIN t : place[k] = i
  <2> DEFINE f == [k \in 1..n |-> place[k]]
  <2>1. f \in Injection(1..n, I)
    BY <1>2 DEF Injection, IsInjective
  <2>2. n = Cardinality(I) /\ Cardinality(1..n) = n /\ IsFiniteSet(1..n) /\ IsFiniteSet(I)
    <3>1. DOMAIN s = 1..Len(s) /\ Len(s) \in Nat
      BY SequenceOf DEF IsSequence
    <3>2. Cardinality(1..n) = n /\ IsFiniteSet(1..n) /\ IsFiniteSet(1..Len(s))
      BY <1>2, <3>1, FS_Interval
    <3>3. IsFiniteSet(I)
      BY <1>1, <3>1, <3>2, FS_Subset
    <3>4. n = Cardinality(I)
      BY DEF n
    <3> QED
      BY <3>2, <3>3, <3>4
  <2> HIDE DEF I
  <2>3. f \in Surjection(1..n, I)
    BY <2>1, <2>2, FS_Injection
  <2> QED
    BY <1>2, <2>3 DEF Surjection
<1>5. Providers!Range(t) = Providers!Range(s) \ {d}
  <2> HIDE DEF I
  <2>1. \A k \in DOMAIN t : \E i \in I : t[k] = s[i]
    BY <1>2
  <2>2. \A i \in I : \E k \in DOMAIN t : t[k] = s[i]
    BY <1>2, <1>4
  <2> QED
    BY <1>1, <2>1, <2>2 DEF Providers!Range
<1> QED
  BY <1>2, <1>3, <1>5

LEMMA DialogsInit == Providers!Init => DialogsInv
<1> SUFFICES ASSUME Providers!Init PROVE DialogsInv
  OBVIOUS
<1>1. IsSequence(calls)
  BY ProvidersInit DEF ProvidersInv, ChannelCalls
<1>2. stack = <<>> /\ IsSequence(stack) /\ DOMAIN stack = {}
  BY EmptySeq DEF Providers!Init, IsSequence
<1> QED
  BY <1>1, <1>2 DEF DialogsInv, Providers!ChildOpenIn, Providers!Range


(* A dialog that opens is on top of the others. *)
LEMMA DialogOpened ==
  ASSUME DialogsInv, IsSequence(calls'), NEW d, Providers!Opened(d)
  PROVE  DialogsInv' /\ Providers!Range(stack) \subseteq Providers!Range(stack')
<1>1. CASE Providers!Open(d)
  <2>1. stack' = stack /\ d \in Providers!Range(stack)
    BY <1>1 DEF Providers!Opened, Providers!Open
  <2> QED
    BY <2>1 DEF DialogsInv, Providers!Opened, Providers!ChildOpenIn
<1>2. CASE ~Providers!Open(d)
  <2>1. stack' = Append(stack, d)
    BY <1>2 DEF Providers!Opened
  <2>2. /\ IsSequence(stack') /\ Len(stack) \in Nat
        /\ DOMAIN stack = 1..Len(stack) /\ DOMAIN stack' = 1..Len(stack) + 1
        /\ (\A i \in 1..Len(stack) : stack'[i] = stack[i]) /\ stack'[Len(stack) + 1] = d
    BY <2>1, Appended DEF DialogsInv
  <2>3. Providers!Range(stack') = Providers!Range(stack) \cup {d}
    <3>1. DOMAIN stack' = DOMAIN stack \cup {Len(stack) + 1}
      BY <2>2
    <3> QED
      BY <2>2, <3>1 DEF Providers!Range
  <2> QED
    BY <2>2, <2>3 DEF DialogsInv, Providers!Opened, Providers!ChildOpenIn
<1> QED
  BY <1>1, <1>2

LEMMA DialogClosed ==
  ASSUME DialogsInv, IsSequence(calls'), NEW s, IsSequence(s),
         Providers!Range(s) \subseteq Providers!Range(stack), Providers!Closed(s)
  PROVE  DialogsInv'
BY DEF DialogsInv, Providers!Closed, Providers!ChildOpenIn

(* What closing leaves open: the form, unless the form is closed. *)
LEMMA WithoutDialog ==
  ASSUME DialogsInv, NEW d
  PROVE  /\ IsSequence(Providers!Without(d))
         /\ Providers!Range(Providers!Without(d)) = Providers!Range(stack) \ {d}
BY KeptDialogs DEF DialogsInv, Providers!Without

LEMMA DismissedDialog ==
  ASSUME NEW s, IsSequence(s)
  PROVE  /\ IsSequence(Providers!Dismissed(s))
         /\ Providers!Range(Providers!Dismissed(s)) \subseteq Providers!Range(s)
         /\ childRef => Providers!Dismissed(s) = s
BY KeptDialogs DEF Providers!Dismissed

(* The dialogs of the page after a step: kept, one more, or one less.  The   *)
(* form is closed by itself and by an answer only.                           *)
LEMMA DialogSteps ==
  ASSUME ProvidersInv, DialogsInv, Providers!Next
  PROVE  /\ DialogsInv' /\ Providers!FormSurvivesChildren
<1>0. IsSequence(calls')
  BY ProvidersStep DEF ProvidersInv, ChannelCalls
<1>1. ASSUME UNCHANGED <<stack, childRef, childTimer>>
      PROVE  DialogsInv' /\ Providers!FormSurvivesChildren
  BY <1>0, <1>1 DEF DialogsInv, Providers!FormSurvivesChildren
<1>2. ASSUME NEW d, Providers!Opened(d)
      PROVE  DialogsInv' /\ Providers!FormSurvivesChildren
  BY <1>0, <1>2, DialogOpened DEF Providers!FormSurvivesChildren, Providers!Open
<1>3. ASSUME NEW d, d # "form", Providers!Closed(Providers!Without(d))
      PROVE  DialogsInv' /\ Providers!FormSurvivesChildren
  <2>1. DialogsInv'
    BY <1>0, <1>3, WithoutDialog, DialogClosed
  <2>2. Providers!Range(stack') = Providers!Range(stack) \ {d}
    BY <1>3, WithoutDialog DEF Providers!Closed
  <2> QED
    BY <1>3, <2>1, <2>2 DEF Providers!FormSurvivesChildren, Providers!Open
<1>4. ASSUME NEW d \in Providers!Children, Providers!CloseChild(d)
      PROVE  DialogsInv' /\ Providers!FormSurvivesChildren
  <2>1. d # "form" /\ d \in Providers!Range(stack)
    <3>1. stack # <<>> /\ stack[Len(stack)] = d /\ IsSequence(stack)
      BY <1>4 DEF Providers!CloseChild, Providers!OnTop, DialogsInv
    <3>2. Len(stack) \in DOMAIN stack
      BY <3>1, EmptySeq, SequenceOf DEF IsSequence
    <3> QED
      BY <3>1, <3>2 DEF Providers!Children, Providers!Range
  <2>2. CASE Providers!Closed(Providers!Without(d))
    BY <1>3, <2>1, <2>2
  <2>3. CASE Providers!Closed(Providers!Dismissed(Providers!Without(d)))
    <3>1. childRef
      BY <2>1 DEF DialogsInv, Providers!ChildOpenIn
    <3>2. Providers!Dismissed(Providers!Without(d)) = Providers!Without(d)
      BY <3>1, WithoutDialog, DismissedDialog
    <3> QED
      BY <1>3, <2>1, <2>3, <3>2
  <2> QED
    BY <1>4, <2>2, <2>3 DEF Providers!CloseChild
<1>5. CASE Providers!CloseForm
  <2>1. DialogsInv'
    <3>1. CASE Providers!Closed(Providers!Without("form"))
      BY <1>0, <3>1, WithoutDialog, DialogClosed
    <3>2. CASE Providers!Closed(Providers!Dismissed(stack))
      BY <1>0, <3>2, DismissedDialog, DialogClosed DEF DialogsInv
    <3> QED
      BY <1>5, <3>1, <3>2 DEF Providers!CloseForm
  <2>2. \A d \in Providers!Children : ~Providers!OnTop(d)
    BY <1>5 DEF Providers!CloseForm, Providers!OnTop, Providers!Children
  <2> QED
    BY <2>1, <2>2 DEF Providers!FormSurvivesChildren
<1>6. CASE Providers!ChildTimerFires
  <2>1. childTimer /\ childTimer' = FALSE /\ stack' = stack
    BY <1>6 DEF Providers!ChildTimerFires
  <2> QED
    BY <1>0, <2>1 DEF DialogsInv, Providers!ChildOpenIn, Providers!FormSurvivesChildren
<1>7. ASSUME NEW i \in DOMAIN calls, Providers!ListAnswered(i)
      PROVE  DialogsInv' /\ Providers!FormSurvivesChildren
  <2>1. calls' = Left(calls, i)
    BY <1>7 DEF Providers!ListAnswered, Providers!Rest, Providers!WithoutAt, Left
  <2>2. calls' # calls
    <3>1. DOMAIN Left(calls, i) = 1..Len(calls) - 1 /\ DOMAIN calls = 1..Len(calls) /\ Len(calls) \in Nat
      BY Removed DEF DialogsInv
    <3> QED
      BY <2>1, <3>1
  <2>3. Providers!FormSurvivesChildren
    BY <2>2 DEF Providers!FormSurvivesChildren
  <2>4. \/ UNCHANGED <<stack, childRef, childTimer>>
        \/ Providers!Closed(Providers!Without("form"))
        \/ Providers!Closed(Providers!Without("config"))
    BY <1>7 DEF Providers!ListAnswered
  <2> QED
    BY <1>0, <1>1, <2>3, <2>4, WithoutDialog, DialogClosed
<1>8. ASSUME NEW i \in DOMAIN calls, Providers!DetailAnswered(i)
      PROVE  DialogsInv' /\ Providers!FormSurvivesChildren
  BY <1>1, <1>2, <1>8 DEF Providers!DetailAnswered
<1>9. ASSUME NEW i \in DOMAIN calls, Providers!DeleteAnswered(i)
      PROVE  DialogsInv' /\ Providers!FormSurvivesChildren
  BY <1>1, <1>3, <1>9 DEF Providers!DeleteAnswered
<1>10. ASSUME NEW i \in DOMAIN calls,
              \/ Providers!ToggleAnswered(i) \/ Providers!SubmitAnswered(i)
              \/ Providers!ImportAnswered(i) \/ Providers!TestAnswered(i) \/ Providers!Serve(i)
       PROVE  DialogsInv' /\ Providers!FormSurvivesChildren
  BY <1>1, <1>10
  DEF Providers!ToggleAnswered, Providers!SubmitAnswered, Providers!ImportAnswered,
      Providers!TestAnswered, Providers!Serve, Providers!dialogVars
<1>11. CASE \/ Providers!OpenCreateDialog \/ Providers!OpenSyncDialog
            \/ Providers!OpenExport \/ Providers!OpenImport
  BY <1>2, <1>11 DEF Providers!OpenCreateDialog, Providers!OpenSyncDialog,
     Providers!OpenExport, Providers!OpenImport
<1>12. CASE \/ Providers!HandleSubmit \/ Providers!HandleDeleteProvider
            \/ Providers!HandleTestDialogTest \/ Providers!TestAllProviders
            \/ Providers!EditConfigJson \/ Providers!HandleImport
  BY <1>1, <1>12 DEF Providers!HandleSubmit, Providers!HandleDeleteProvider,
     Providers!HandleTestDialogTest, Providers!TestAllProviders, Providers!EditConfigJson,
     Providers!HandleImport, Providers!dialogVars
<1>13. ASSUME NEW c, \/ Providers!OpenEditDialog(c) \/ Providers!OpenDeleteDialog(c)
                     \/ Providers!ToggleSingleProvider(c) \/ Providers!OpenTestDialog(c)
       PROVE  DialogsInv' /\ Providers!FormSurvivesChildren
  BY <1>1, <1>2, <1>13 DEF Providers!OpenEditDialog, Providers!OpenDeleteDialog,
     Providers!ToggleSingleProvider, Providers!OpenTestDialog, Providers!dialogVars
<1> QED
  BY <1>4, <1>5, <1>6, <1>7, <1>8, <1>9, <1>10, <1>11, <1>12, <1>13
  DEF Providers!Next, Providers!User, Providers!Respond, Providers!Answer

(***************************************************************************)
(* The channel form.  While a channel is edited the form shows its row,    *)
(* field by field but for what was touched: what a save makes of a field   *)
(* that was not touched is what the row holds.                             *)
(***************************************************************************)
FormField ==
  {"channelName", "type", "targetBaseUrl", "priority", "visibility", "systemPrompt",
   "authHeader", "responsesMode", "apiKey", "apiKeyDirty", "clearAuth", "extra", "models"}

FormShows(r, f, touched) ==
  /\ "type" \notin touched => r.type = f.type
  /\ "targetBaseUrl" \notin touched => r.targetBaseUrl = f.targetBaseUrl
  /\ "priority" \notin touched => r.priority = Form!Priority(f.priority)
  /\ "visibility" \notin touched => r.visibility = f.visibility
  /\ "systemPrompt" \notin touched =>
       r.systemPrompt = IF f.systemPrompt = Blank THEN None ELSE f.systemPrompt
  /\ "extra" \notin touched => r.extra = IF f.extra \in {Blank, "mode"} THEN None ELSE f.extra
  /\ "models" \notin touched => Form!Named(r.models) = Form!Named(f.models)
  /\ touched \cap {"type", "extra", "responsesMode"} = {} /\ f.type = "openai" =>
       f.responsesMode = IF r.mode = None THEN "native" ELSE r.mode
  /\ "auth" \notin touched => f.apiKeyDirty = FALSE /\ f.clearAuth = FALSE
  /\ f.clearAuth = TRUE => f.apiKey = Blank
  /\ f.apiKeyDirty = FALSE /\ f.apiKey # Blank => r.auth # None /\ r.auth.value = f.apiKey

FormTypes ==
  /\ Form!TypeOK /\ IsSequence(asked)
  /\ sync = [open |-> sync.open, loading |-> sync.loading, error |-> sync.error,
             models |-> sync.models, selected |-> sync.selected]
  /\ stored = [n \in Channel |-> stored[n]] /\ \A n \in Channel : stored[n] # None => IsRow(stored[n])
  /\ dialog.mode = "edit" => dialog.of \in Channel

FormInv ==
  /\ FormTypes
  /\ dialog.open = TRUE /\ dialog.mode = "edit" /\ stored[dialog.of] # None =>
       FormShows(stored[dialog.of], form, edited)

LEMMA SequenceIn ==
  ASSUME NEW t, IsSequence(t), NEW S, \A k \in DOMAIN t : t[k] \in S
  PROVE  t \in Seq(S)
<1>1. {t[k] : k \in DOMAIN t} \subseteq S
  OBVIOUS
<1> QED
  BY <1>1, SeqMonotonic DEF IsSequence

LEMMA SamePicked == \A s, I : Form!Picked(s, I) = Failover!Picked(s, I)
BY DEF Form!Picked, Form!Ascending, Form!Ordered, Form!Cardinality,
       Failover!Picked, Failover!Ascending, Failover!Ordered, Failover!Cardinality

(* The named rows of a list of models. *)
LEMMA NamedList ==
  ASSUME NEW S, NEW s \in Seq(S)
  PROVE  LET t == Form!Named(s) IN
         /\ t \in Seq(S) /\ Form!Named(t) = t
         /\ (\A i \in DOMAIN s : s[i] = Blank) => t = <<>>
<1> DEFINE I == {i \in DOMAIN s : s[i] # Blank}
           t == Failover!Picked(s, I)
           place == Failover!Ascending(I)
<1>0. IsSequence(s) /\ \A i \in DOMAIN s : s[i] \in S
  BY SequenceOf, LenProperties DEF IsSequence
<1>1. I \in SUBSET DOMAIN s /\ \A i : i \in I <=> i \in DOMAIN s /\ s[i] # Blank
  OBVIOUS
<1>2. Form!Named(s) = t
  BY SamePicked DEF Form!Named
<1>3. /\ IsSequence(t) /\ Len(t) = Cardinality(I)
      /\ \A k \in DOMAIN t : place[k] \in I /\ t[k] = s[place[k]]
  BY <1>0, <1>1, PickedElements
<1> HIDE DEF t, place
<1>4. t \in Seq(S) /\ \A k \in DOMAIN t : t[k] # Blank
  <2> HIDE DEF I
  <2> QED
    BY <1>0, <1>1, <1>3, SequenceIn
<1>5. Form!Named(t) = t
  <2>1. {k \in DOMAIN t : t[k] # Blank} = DOMAIN t
    BY <1>4
  <2> QED
    BY <1>3, <2>1, PickedAll, SamePicked DEF Form!Named
<1>6. (\A i \in DOMAIN s : s[i] = Blank) => t = <<>>
  <2>1. (\A i \in DOMAIN s : s[i] = Blank) => I = {}
    OBVIOUS
  <2> HIDE DEF I
  <2>2. (\A i \in DOMAIN s : s[i] = Blank) => Len(t) = 0
    BY <1>3, <2>1, FS_EmptySet
  <2> QED
    BY <1>4, <2>2, EmptySeq
<1> QED
  BY <1>2, <1>4, <1>5, <1>6

LEMMA BlankRow == Form!Named(<<Blank>>) = <<>> /\ Form!Named(<<>>) = <<>>
<1>1. <<Blank>> \in Seq({Blank}) /\ <<>> \in Seq({Blank})
  OBVIOUS
<1>2. (\A i \in DOMAIN <<Blank>> : <<Blank>>[i] = Blank) /\ DOMAIN <<>> = {}
  OBVIOUS
<1> QED
  BY <1>1, <1>2, NamedList

(* What a save makes of a form, field by field. *)
LEMMA SavedRow ==
  ASSUME FormAssumption, NEW f \in Form!FormType, Form!Parses(f),
         Form!Accepted(Form!BuildPayload(f, dialog.mode), dialog.mode), NEW on, NEW auth,
         auth # None => auth.header \in Form!Header /\ auth.value \in Credential
  PROVE  LET r == Form!InputRow(Form!BuildPayload(f, dialog.mode), on, auth) IN
         /\ IsRow(r) /\ r.auth = auth /\ r.enabled = on
         /\ r.type = f.type /\ r.targetBaseUrl = f.targetBaseUrl
         /\ r.priority = Form!Priority(f.priority) /\ r.visibility = f.visibility
         /\ r.systemPrompt = IF f.systemPrompt = Blank THEN None ELSE f.systemPrompt
         /\ r.extra = IF f.extra \in {Blank, "mode"} THEN None ELSE f.extra
         /\ r.models = Form!Named(f.models)
         /\ f.type = "openai" => r.mode = f.responsesMode
<1> DEFINE p == Form!BuildPayload(f, dialog.mode)
           r == Form!InputRow(p, on, auth)
<1>1. /\ f.type \in Form!Type /\ f.targetBaseUrl \in {Blank, "url"}
      /\ f.priority \in {Blank, "0", "1", "fraction", "word"} /\ f.visibility \in Form!Visibility
      /\ f.systemPrompt \in {Blank, "prompt"} /\ f.responsesMode \in Form!Mode
      /\ f.extra \in {Blank, "vendor", "mode", "broken"} /\ f.models \in Seq(Model \cup {Blank})
  BY DEF Form!FormType
<1>2. /\ p.type = f.type /\ p.targetBaseUrl = f.targetBaseUrl
      /\ p.systemPrompt = (IF f.systemPrompt = Blank THEN None ELSE f.systemPrompt)
      /\ p.models = Form!Named(f.models) /\ p.priority = Form!Priority(f.priority)
      /\ p.visibility = f.visibility /\ p.extra = f.extra
      /\ p.responsesMode = IF f.type = "openai" THEN f.responsesMode ELSE None
  BY DEF Form!BuildPayload
<1>3. p.priority # "fraction" /\ f.extra # "broken"
  BY DEF Form!Accepted, Form!Parses
<1> HIDE DEF p
<1>4. /\ r = [type |-> r.type, targetBaseUrl |-> r.targetBaseUrl, systemPrompt |-> r.systemPrompt,
              models |-> r.models, context |-> r.context, priority |-> r.priority,
              visibility |-> r.visibility, mode |-> r.mode, extra |-> r.extra, auth |-> r.auth,
              enabled |-> r.enabled]
      /\ r.auth = auth /\ r.enabled = on
      /\ r.type = p.type /\ r.targetBaseUrl = p.targetBaseUrl /\ r.models = p.models
      /\ r.priority = p.priority /\ r.visibility = p.visibility
      /\ r.systemPrompt = p.systemPrompt
      /\ r.extra = (IF p.extra \in {Blank, "mode"} THEN None ELSE p.extra)
      /\ r.mode = Form!InputMode(p)
  BY DEF Form!InputRow
<1> HIDE DEF r
<1>5. /\ r.mode \in Form!Mode \cup {None}
      /\ f.type = "openai" => r.mode = f.responsesMode
  BY <1>1, <1>2, <1>4 DEF FormAssumption, Form!InputMode, Form!Mode
<1>6. r.models \in Seq(Model \cup {Blank})
  BY <1>1, <1>2, <1>4, NamedList
<1>7. r.priority \in {"0", "1"}
  BY <1>1, <1>2, <1>3, <1>4 DEF Form!Priority
<1>8. r.systemPrompt \in {None, "prompt"} /\ r.extra \in {None, "vendor"}
  BY <1>1, <1>2, <1>3, <1>4
<1>9. IsRow(r)
  BY <1>1, <1>2, <1>4, <1>5, <1>6, <1>7, <1>8 DEF IsRow
<1> QED
  BY <1>2, <1>4, <1>5, <1>9 DEF p, r

(* The form a row is opened with shows it. *)
LEMMA OpenedForm ==
  ASSUME FormAssumption, NEW n \in Channel, IsRow(stored[n])
  PROVE  LET f == Form!CreateFormState(Form!Info(n)) IN
         /\ f \in Form!FormType /\ f.models # <<>> /\ FormShows(stored[n], f, {})
<1> DEFINE r == stored[n]
           info == Form!Info(n)
           f == Form!CreateFormState(info)
<1>1. /\ info.channelName = n /\ info.row = r
      /\ info.responsesMode = IF r.mode = None THEN "native" ELSE r.mode
  BY DEF Form!Info
<1> HIDE DEF info
<1>2. /\ f = [channelName |-> f.channelName, type |-> f.type, targetBaseUrl |-> f.targetBaseUrl,
              priority |-> f.priority, visibility |-> f.visibility,
              systemPrompt |-> f.systemPrompt, authHeader |-> f.authHeader,
              responsesMode |-> f.responsesMode, apiKey |-> f.apiKey,
              apiKeyDirty |-> f.apiKeyDirty, clearAuth |-> f.clearAuth, extra |-> f.extra,
              models |-> f.models]
      /\ f.channelName = n /\ f.type = r.type /\ f.targetBaseUrl = r.targetBaseUrl
      /\ f.priority = r.priority /\ f.visibility = r.visibility
      /\ f.systemPrompt = Form!Text(r.systemPrompt) /\ f.authHeader = Form!ShownHeader(r)
      /\ f.responsesMode = info.responsesMode
      /\ f.apiKey = (IF r.auth = None THEN Blank ELSE r.auth.value)
      /\ f.apiKeyDirty = FALSE /\ f.clearAuth = FALSE
      /\ f.extra = Form!Text(r.extra)
      /\ f.models = IF r.models = <<>> THEN <<Blank>> ELSE r.models
  BY <1>1 DEF Form!CreateFormState
<1> HIDE DEF f
<1>3. /\ f.systemPrompt \in {Blank, "prompt"} /\ f.extra \in {Blank, "vendor"}
      /\ r.systemPrompt = (IF f.systemPrompt = Blank THEN None ELSE f.systemPrompt)
      /\ r.extra = (IF f.extra \in {Blank, "mode"} THEN None ELSE f.extra)
  BY <1>2 DEF FormAssumption, IsRow, Form!Text
<1>4. f.models \in Seq(Model \cup {Blank}) /\ f.models # <<>>
  <2>1. <<Blank>> \in Seq(Model \cup {Blank}) /\ <<Blank>> # <<>>
    OBVIOUS
  <2>2. r.models \in Seq(Model \cup {Blank})
    BY DEF IsRow
  <2> QED
    BY <1>2, <2>1, <2>2
<1>5. Form!Named(r.models) = Form!Named(f.models)
  BY <1>2, BlankRow
<1>6. f.authHeader \in Form!Header \cup {"auto"} /\ f.apiKey \in Credential \cup {Blank}
  BY <1>2 DEF IsRow, Form!ShownHeader
<1>7. f.responsesMode \in Form!Mode
  BY <1>1, <1>2 DEF IsRow, Form!Mode
<1>8. r.priority = Form!Priority(f.priority) /\ f.priority \in {"0", "1"}
  BY <1>2 DEF FormAssumption, IsRow, Form!Priority
<1>9. f \in Form!FormType
  BY <1>2, <1>3, <1>4, <1>6, <1>7, <1>8 DEF IsRow, Form!FormType
<1>10. FormShows(r, f, {})
  BY <1>1, <1>2, <1>3, <1>5, <1>8 DEF FormShows
<1> QED
  BY <1>4, <1>9, <1>10 DEF f, info

LEMMA FormInit == Form!Init => FormInv
<1> SUFFICES ASSUME Form!Init PROVE FormInv
  OBVIOUS
<1>1. /\ stored \in ChannelRows /\ form = Form!EmptyForm /\ sync = Form!NoSync /\ asked = <<>>
      /\ dialog = [open |-> FALSE, mode |-> "create", of |-> None, error |-> FALSE]
  BY DEF Form!Init
<1>2. <<Blank>> \in Seq(Model \cup {Blank}) /\ <<Blank>> # <<>>
  OBVIOUS
<1>3. form \in Form!FormType /\ form.models # <<>>
  BY <1>1, <1>2 DEF Form!EmptyForm, Form!FormType, Form!Type, Form!Visibility, Form!Mode
<1>4. IsSequence(asked) /\ Len(asked) <= MaxAsked
  BY <1>1, FormAssumption, EmptySeq DEF FormAssumption, IsSequence
<1>5. /\ sync = [open |-> sync.open, loading |-> sync.loading, error |-> sync.error,
                 models |-> sync.models, selected |-> sync.selected]
      /\ sync.selected \subseteq Model /\ sync.models \subseteq Model
  BY <1>1 DEF Form!NoSync
<1>6. dialog \in [open : BOOLEAN, mode : {"create", "edit"}, of : Channel \cup {None}, error : BOOLEAN]
  BY <1>1
<1>7. stored = [n \in Channel |-> stored[n]] /\ \A n \in Channel : stored[n] # None => IsRow(stored[n])
  BY <1>1, FormAssumption DEF FormAssumption
<1> QED
  BY <1>1, <1>3, <1>4, <1>5, <1>6, <1>7 DEF FormInv, FormTypes, Form!TypeOK

LEMMA FormKept ==
  FormInv /\ UNCHANGED <<stored, dialog, form, edited, sync, asked>> => FormInv'
BY DEF FormInv, FormTypes, FormShows, Form!TypeOK

LEMMA FormShown ==
  ASSUME FormInv, NEW mode \in {"create", "edit"}, NEW n \in Channel \cup {None},
         NEW f \in Form!FormType, f.models # <<>>, Form!Show(mode, n, f),
         mode = "edit" => n \in Channel /\ FormShows(stored[n], f, {}),
         UNCHANGED <<stored, sync, asked>>
  PROVE  FormInv'
<1>1. /\ dialog' = [open |-> TRUE, mode |-> mode, of |-> n, error |-> FALSE]
      /\ form' = f /\ edited' = {}
  BY DEF Form!Show
<1>2. FormTypes'
  BY <1>1 DEF FormInv, FormTypes, Form!TypeOK
<1> QED
  BY <1>1, <1>2 DEF FormInv, FormShows

LEMMA FormEdited ==
  ASSUME FormInv, NEW f \in Form!FormType, f.models # <<>>, NEW fields, Form!Change(f, fields),
         \A r : FormShows(r, form, edited) => FormShows(r, f, edited \cup fields)
  PROVE  FormInv'
<1>1. form' = f /\ edited' = edited \cup fields /\ UNCHANGED <<stored, dialog, sync, asked>>
  BY DEF Form!Change
<1>2. FormTypes'
  BY <1>1 DEF FormInv, FormTypes, Form!TypeOK
<1>3. \A r : FormShows(r, form, edited) => FormShows(r, form', edited')
  BY <1>1
<1> QED
  BY <1>1, <1>2, <1>3 DEF FormInv

(* An edit of one field shows the others as before. *)
LEMMA OneFieldEdited ==
  ASSUME NEW f, NEW g, NEW touched,
         NEW x \in {"channelName", "type", "targetBaseUrl", "priority", "visibility",
                    "systemPrompt", "responsesMode", "extra", "models"},
         \A y \in FormField \ {x} : g[y] = f[y],
         NEW r, FormShows(r, f, touched)
  PROVE  FormShows(r, g, touched \cup {x})
<1>1. g.apiKey = f.apiKey /\ g.apiKeyDirty = f.apiKeyDirty /\ g.clearAuth = f.clearAuth
  BY DEF FormField
<1>2. /\ x # "type" => g.type = f.type
      /\ x # "targetBaseUrl" => g.targetBaseUrl = f.targetBaseUrl
      /\ x # "priority" => g.priority = f.priority
      /\ x # "visibility" => g.visibility = f.visibility
      /\ x # "systemPrompt" => g.systemPrompt = f.systemPrompt
      /\ x # "responsesMode" => g.responsesMode = f.responsesMode
      /\ x # "extra" => g.extra = f.extra
      /\ x # "models" => g.models = f.models
  BY DEF FormField
<1> QED
  BY <1>1, <1>2 DEF FormShows

LEMMA AuthEdited ==
  ASSUME NEW f, NEW g, NEW touched,
         \A y \in FormField \ {"authHeader", "apiKey", "apiKeyDirty", "clearAuth"} : g[y] = f[y],
         g.apiKeyDirty = TRUE, g.clearAuth = TRUE => g.apiKey = Blank,
         NEW r, FormShows(r, f, touched)
  PROVE  FormShows(r, g, touched \cup {"auth"})
<1>1. /\ g.type = f.type /\ g.targetBaseUrl = f.targetBaseUrl /\ g.priority = f.priority
      /\ g.visibility = f.visibility /\ g.systemPrompt = f.systemPrompt
      /\ g.responsesMode = f.responsesMode /\ g.extra = f.extra /\ g.models = f.models
  BY DEF FormField
<1> QED
  BY <1>1 DEF FormShows

LEMMA FormFieldChanged ==
  ASSUME FormInv,
         NEW x \in {"channelName", "type", "targetBaseUrl", "priority", "visibility",
                    "systemPrompt", "responsesMode", "extra", "models"},
         NEW v, Form!Change([form EXCEPT ![x] = v], {x}),
         [form EXCEPT ![x] = v] \in Form!FormType,
         x = "models" => v # <<>>
  PROVE  FormInv'
<1> DEFINE f == [form EXCEPT ![x] = v]
<1>1. form \in Form!FormType /\ form.models # <<>>
  BY DEF FormInv, FormTypes, Form!TypeOK
<1>2. DOMAIN form = FormField
  BY <1>1 DEF Form!FormType, FormField
<1>3. \A y \in FormField \ {x} : f[y] = form[y]
  BY <1>2
<1>4. f.models # <<>>
  BY <1>1, <1>2, <1>3 DEF FormField
<1>5. \A r : FormShows(r, form, edited) => FormShows(r, f, edited \cup {x})
  BY <1>3, OneFieldEdited
<1> HIDE DEF f
<1> QED
  BY <1>4, <1>5, FormEdited DEF f

LEMMA FormAuthChanged ==
  ASSUME FormInv, NEW f, Form!Change(f, {"auth"}), DOMAIN f = FormField,
         \A y \in FormField \ {"authHeader", "apiKey", "apiKeyDirty", "clearAuth"} : f[y] = form[y],
         f \in Form!FormType, f.apiKeyDirty = TRUE, f.clearAuth = TRUE => f.apiKey = Blank
  PROVE  FormInv'
<1>1. f.models # <<>>
  BY DEF FormInv, FormTypes, Form!TypeOK, FormField
<1>2. \A r : FormShows(r, form, edited) => FormShows(r, f, edited \cup {"auth"})
  BY AuthEdited
<1> QED
  BY <1>1, <1>2, FormEdited

(* The rows of the form after one is typed in, added or removed. *)
LEMMA ModelRows ==
  ASSUME NEW s \in Seq(Model \cup {Blank}), s # <<>>
  PROVE  /\ \A i \in DOMAIN s : \A m \in Model \cup {Blank} :
              [s EXCEPT ![i] = m] \in Seq(Model \cup {Blank}) /\ [s EXCEPT ![i] = m] # <<>>
         /\ Append(s, Blank) \in Seq(Model \cup {Blank}) /\ Append(s, Blank) # <<>>
         /\ \A i \in DOMAIN s : Len(s) > 1 => /\ Left(s, i) \in Seq(Model \cup {Blank})
                                              /\ Left(s, i) # <<>>
<1> DEFINE S == Model \cup {Blank}
<1>0. IsSequence(s) /\ \A i \in DOMAIN s : s[i] \in S
  BY SequenceOf, LenProperties DEF IsSequence
<1>1. ASSUME NEW i \in DOMAIN s, NEW m \in S
      PROVE  [s EXCEPT ![i] = m] \in Seq(S) /\ [s EXCEPT ![i] = m] # <<>>
  <2> DEFINE t == [s EXCEPT ![i] = m]
  <2>1. IsSequence(t) /\ DOMAIN t = DOMAIN s /\ t[i] = m /\ \A j \in DOMAIN s \ {i} : t[j] = s[j]
    BY <1>0, Replaced
  <2> HIDE DEF t, S
  <2>2. t \in Seq(S)
    BY <1>0, <1>1, <2>1, SequenceIn
  <2>3. t # <<>>
    BY <2>1
  <2> QED
    BY <2>2, <2>3 DEF t
<1>2. Append(s, Blank) \in Seq(S) /\ Append(s, Blank) # <<>>
  OBVIOUS
<1>3. ASSUME NEW i \in DOMAIN s, Len(s) > 1
      PROVE  Left(s, i) \in Seq(S) /\ Left(s, i) # <<>>
  <2> DEFINE t == Left(s, i)
  <2>1. /\ IsSequence(t) /\ Len(t) = Len(s) - 1 /\ Len(s) \in Nat
        /\ \A j \in DOMAIN t : Place(i, j) \in DOMAIN s \ {i} /\ t[j] = s[Place(i, j)]
    BY <1>0, Removed
  <2> HIDE DEF t, S
  <2>2. t \in Seq(S)
    BY <1>0, <2>1, SequenceIn
  <2>3. t # <<>>
    BY <1>3, <2>1, EmptySeq
  <2> QED
    BY <2>2, <2>3 DEF t
<1> QED
  BY <1>1, <1>2, <1>3

LEMMA FormEditStep ==
  ASSUME FormInv, Form!Edit
  PROVE  FormInv'
<1>0. form \in Form!FormType /\ form.models # <<>>
  BY DEF FormInv, FormTypes, Form!TypeOK
<1>1. DOMAIN form = FormField
  BY <1>0 DEF Form!FormType, FormField
<1>2. CASE Form!EditName
  <2>1. PICK v \in Channel \cup {Blank} :
          Form!Change([form EXCEPT !["channelName"] = v], {"channelName"})
    BY <1>2 DEF Form!EditName
  <2>2. [form EXCEPT !["channelName"] = v] \in Form!FormType
    BY <1>0 DEF Form!FormType
  <2> QED
    BY <2>1, <2>2, FormFieldChanged
<1>3. CASE Form!EditType
  <2>1. PICK v \in Form!Type : Form!Change([form EXCEPT !["type"] = v], {"type"})
    BY <1>3 DEF Form!EditType
  <2>2. [form EXCEPT !["type"] = v] \in Form!FormType
    BY <1>0 DEF Form!FormType
  <2> QED
    BY <2>1, <2>2, FormFieldChanged
<1>4. CASE Form!EditUrl
  <2>1. PICK v \in {Blank, "url"} :
          Form!Change([form EXCEPT !["targetBaseUrl"] = v], {"targetBaseUrl"})
    BY <1>4 DEF Form!EditUrl
  <2>2. [form EXCEPT !["targetBaseUrl"] = v] \in Form!FormType
    BY <1>0 DEF Form!FormType
  <2> QED
    BY <2>1, <2>2, FormFieldChanged
<1>5. CASE Form!EditResponsesMode
  <2>1. PICK v \in Form!Mode :
          Form!Change([form EXCEPT !["responsesMode"] = v], {"responsesMode"})
    BY <1>5 DEF Form!EditResponsesMode
  <2>2. [form EXCEPT !["responsesMode"] = v] \in Form!FormType
    BY <1>0 DEF Form!FormType
  <2> QED
    BY <2>1, <2>2, FormFieldChanged
<1>6. CASE Form!EditPriority
  <2>1. PICK v \in {Blank, "1", "fraction", "word"} :
          Form!Change([form EXCEPT !["priority"] = v], {"priority"})
    BY <1>6 DEF Form!EditPriority
  <2>2. [form EXCEPT !["priority"] = v] \in Form!FormType
    BY <1>0 DEF Form!FormType
  <2> QED
    BY <2>1, <2>2, FormFieldChanged
<1>7. CASE Form!EditVisibility
  <2>1. PICK v \in Form!Visibility :
          Form!Change([form EXCEPT !["visibility"] = v], {"visibility"})
    BY <1>7 DEF Form!EditVisibility
  <2>2. [form EXCEPT !["visibility"] = v] \in Form!FormType
    BY <1>0 DEF Form!FormType
  <2> QED
    BY <2>1, <2>2, FormFieldChanged
<1>8. CASE Form!EditSystemPrompt
  <2>1. PICK v \in {Blank, "prompt"} :
          Form!Change([form EXCEPT !["systemPrompt"] = v], {"systemPrompt"})
    BY <1>8 DEF Form!EditSystemPrompt
  <2>2. [form EXCEPT !["systemPrompt"] = v] \in Form!FormType
    BY <1>0 DEF Form!FormType
  <2> QED
    BY <2>1, <2>2, FormFieldChanged
<1>9. CASE Form!EditExtra
  <2>1. PICK v \in {Blank, "vendor", "mode", "broken"} :
          Form!Change([form EXCEPT !["extra"] = v], {"extra"})
    BY <1>9 DEF Form!EditExtra
  <2>2. [form EXCEPT !["extra"] = v] \in Form!FormType
    BY <1>0 DEF Form!FormType
  <2> QED
    BY <2>1, <2>2, FormFieldChanged
<1>10. CASE Form!EditAuthHeader
  <2>1. PICK h \in Form!Header \cup {"auto"} :
          Form!Change([form EXCEPT !.authHeader = h, !.apiKeyDirty = TRUE, !.clearAuth = FALSE],
                      {"auth"})
    BY <1>10 DEF Form!EditAuthHeader
  <2> DEFINE f == [form EXCEPT !.authHeader = h, !.apiKeyDirty = TRUE, !.clearAuth = FALSE]
  <2>2. f \in Form!FormType
    BY <1>0 DEF Form!FormType
  <2>3. /\ DOMAIN f = FormField /\ f.apiKeyDirty = TRUE /\ f.clearAuth = FALSE
        /\ \A y \in FormField \ {"authHeader", "apiKey", "apiKeyDirty", "clearAuth"} : f[y] = form[y]
    BY <1>1 DEF FormField
  <2> HIDE DEF f
  <2> QED
    BY <2>1, <2>2, <2>3, FormAuthChanged DEF f
<1>11. CASE Form!EditCredential
  <2>1. PICK k \in Credential \cup {Blank} :
          Form!Change([form EXCEPT !.apiKey = k, !.apiKeyDirty = TRUE, !.clearAuth = FALSE],
                      {"auth"})
    BY <1>11 DEF Form!EditCredential
  <2> DEFINE f == [form EXCEPT !.apiKey = k, !.apiKeyDirty = TRUE, !.clearAuth = FALSE]
  <2>2. f \in Form!FormType
    BY <1>0 DEF Form!FormType
  <2>3. /\ DOMAIN f = FormField /\ f.apiKeyDirty = TRUE /\ f.clearAuth = FALSE
        /\ \A y \in FormField \ {"authHeader", "apiKey", "apiKeyDirty", "clearAuth"} : f[y] = form[y]
    BY <1>1 DEF FormField
  <2> HIDE DEF f
  <2> QED
    BY <2>1, <2>2, <2>3, FormAuthChanged DEF f
<1>12. CASE Form!ClearAuth
  <2> DEFINE f == [form EXCEPT !.apiKey = Blank, !.apiKeyDirty = TRUE, !.clearAuth = TRUE]
  <2>1. Form!Change(f, {"auth"})
    BY <1>12 DEF Form!ClearAuth
  <2>2. f \in Form!FormType
    BY <1>0 DEF Form!FormType
  <2>3. /\ DOMAIN f = FormField /\ f.apiKeyDirty = TRUE /\ f.apiKey = Blank
        /\ \A y \in FormField \ {"authHeader", "apiKey", "apiKeyDirty", "clearAuth"} : f[y] = form[y]
    BY <1>1 DEF FormField
  <2> HIDE DEF f
  <2> QED
    BY <2>1, <2>2, <2>3, FormAuthChanged
<1>13. ASSUME NEW s \in Seq(Model \cup {Blank}), s # <<>>,
              Form!Change([form EXCEPT !["models"] = s], {"models"})
       PROVE  FormInv'
  <2>1. [form EXCEPT !["models"] = s] \in Form!FormType
    BY <1>0 DEF Form!FormType
  <2> QED
    BY <1>13, <2>1, FormFieldChanged
<1>14. form.models \in Seq(Model \cup {Blank})
  BY <1>0 DEF Form!FormType
<1>15. CASE Form!UpdateModelRow
  <2>1. PICK i \in DOMAIN form.models, m \in Model \cup {Blank} :
          Form!Change([form EXCEPT !.models[i] = m], {"models"})
    BY <1>15 DEF Form!UpdateModelRow
  <2>2. [form EXCEPT !.models[i] = m] = [form EXCEPT !["models"] = [form.models EXCEPT ![i] = m]]
    OBVIOUS
  <2> QED
    BY <1>0, <1>13, <1>14, <2>1, <2>2, ModelRows
<1>16. CASE Form!AddModelRow
  <2>1. Form!Change([form EXCEPT !["models"] = Append(form.models, Blank)], {"models"})
    BY <1>1, <1>16 DEF Form!AddModelRow, FormField
  <2> QED
    BY <1>0, <1>13, <1>14, <2>1, ModelRows
<1>17. CASE Form!RemoveModelRow
  <2>1. PICK i \in DOMAIN form.models :
          Form!Change([form EXCEPT !["models"] = Form!RemovedRow(i)], {"models"})
    BY <1>17 DEF Form!RemoveModelRow
  <2>2. <<Blank>> \in Seq(Model \cup {Blank}) /\ <<Blank>> # <<>>
    OBVIOUS
  <2>3. Form!RemovedRow(i) = IF Len(form.models) > 1 THEN Left(form.models, i) ELSE <<Blank>>
    BY DEF Form!RemovedRow, Form!WithoutAt, Left
  <2>4. Form!RemovedRow(i) \in Seq(Model \cup {Blank}) /\ Form!RemovedRow(i) # <<>>
    BY <1>0, <1>14, <2>2, <2>3, ModelRows
  <2> QED
    BY <1>13, <2>1, <2>4
<1> QED
  BY <1>2, <1>3, <1>4, <1>5, <1>6, <1>7, <1>8, <1>9, <1>10, <1>11, <1>12, <1>15, <1>16, <1>17
  DEF Form!Edit

(* The list of the upstream's models is filled, chosen from and closed. *)
LEMMA SyncChanged ==
  ASSUME FormInv, UNCHANGED <<stored, dialog, form, edited>>,
         IsSequence(asked'), Len(asked') <= MaxAsked,
         sync' = [open |-> sync'.open, loading |-> sync'.loading, error |-> sync'.error,
                  models |-> sync'.models, selected |-> sync'.selected],
         sync'.selected \subseteq Model, sync'.models \subseteq Model
  PROVE  FormInv'
BY DEF FormInv, FormTypes, Form!TypeOK

LEMMA SyncStep ==
  ASSUME FormInv, Form!OpenSyncDialog \/ Form!SyncAnswer \/ Form!Select \/ Form!CloseSync
  PROVE  FormInv'
<1>0. /\ sync = [open |-> sync.open, loading |-> sync.loading, error |-> sync.error,
                 models |-> sync.models, selected |-> sync.selected]
      /\ sync.selected \subseteq Model /\ sync.models \subseteq Model
      /\ IsSequence(asked) /\ Len(asked) <= MaxAsked /\ MaxAsked \in Nat
  BY FormAssumption DEF FormInv, FormTypes, Form!TypeOK, FormAssumption
<1>1. CASE Form!OpenSyncDialog
  <2>1. PICK sent, e : /\ sync' = [Form!NoSync EXCEPT !.open = TRUE, !.loading = sent, !.error = ~sent]
                       /\ asked' = asked \/ asked' = Append(asked, e)
                       /\ Len(asked) < MaxAsked
                       /\ UNCHANGED <<stored, dialog, form, edited>>
    BY <1>1 DEF Form!OpenSyncDialog
  <2>2. IsSequence(asked') /\ Len(asked') <= MaxAsked
    <3>1. CASE asked' = Append(asked, e)
      <4>1. IsSequence(asked') /\ Len(asked') = Len(asked) + 1 /\ Len(asked) \in Nat
        BY <1>0, <3>1, Appended
      <4> QED
        BY <1>0, <2>1, <4>1
    <3> QED
      BY <1>0, <2>1, <3>1
  <2>3. /\ sync' = [open |-> sync'.open, loading |-> sync'.loading, error |-> sync'.error,
                    models |-> sync'.models, selected |-> sync'.selected]
        /\ sync'.selected \subseteq Model /\ sync'.models \subseteq Model
    BY <2>1 DEF Form!NoSync
  <2> QED
    BY <2>1, <2>2, <2>3, SyncChanged
<1>2. CASE Form!SyncAnswer
  <2>1. PICK i \in DOMAIN asked :
          /\ asked' = Form!WithoutAt(asked, i)
          /\ \/ \E found \in SUBSET Model :
                  sync' = [sync EXCEPT !.loading = FALSE, !.models = found,
                                       !.selected = found \ asked[i].known]
             \/ sync' = [sync EXCEPT !.loading = FALSE, !.error = TRUE]
          /\ UNCHANGED <<stored, dialog, form, edited>>
    BY <1>2 DEF Form!SyncAnswer
  <2>2. asked' = Left(asked, i)
    BY <2>1 DEF Form!WithoutAt, Left
  <2>3. IsSequence(asked') /\ Len(asked') = Len(asked) - 1 /\ Len(asked) \in Nat
    BY <1>0, <2>2, Removed
  <2>4. /\ sync' = [open |-> sync'.open, loading |-> sync'.loading, error |-> sync'.error,
                    models |-> sync'.models, selected |-> sync'.selected]
        /\ sync'.selected \subseteq Model /\ sync'.models \subseteq Model
    <3>1. CASE sync' = [sync EXCEPT !.loading = FALSE, !.error = TRUE]
      BY <1>0, <3>1
    <3>2. ASSUME NEW m \in SUBSET Model,
                 sync' = [sync EXCEPT !.loading = FALSE, !.models = m,
                                      !.selected = m \ asked[i].known]
          PROVE  /\ sync' = [open |-> sync'.open, loading |-> sync'.loading, error |-> sync'.error,
                             models |-> sync'.models, selected |-> sync'.selected]
                 /\ sync'.selected \subseteq Model /\ sync'.models \subseteq Model
      BY <1>0, <3>2
    <3> QED
      BY <2>1, <3>1, <3>2
  <2>5. Len(asked') <= MaxAsked
    BY <1>0, <2>3
  <2>6. UNCHANGED <<stored, dialog, form, edited>>
    BY <2>1
  <2> QED
    BY <2>3, <2>4, <2>5, <2>6, SyncChanged
<1>3. CASE Form!Select
  <2>1. PICK chosen : /\ sync' = [sync EXCEPT !.selected = chosen] /\ chosen \subseteq Model
                      /\ UNCHANGED <<stored, dialog, form, edited, asked>>
    <3>1. UNCHANGED <<stored, dialog, form, edited, asked>>
      BY <1>3 DEF Form!Select
    <3>2. \E chosen \in SUBSET Model : sync' = [sync EXCEPT !.selected = chosen]
      <4>1. ASSUME NEW m \in sync.models
            PROVE  sync.selected \cup {m} \in SUBSET Model /\ sync.selected \ {m} \in SUBSET Model
        BY <1>0
      <4>2. sync.models \in SUBSET Model /\ {} \in SUBSET Model
        BY <1>0
      <4> QED
        BY <1>0, <1>3, <4>1, <4>2 DEF Form!Select
    <3> QED
      BY <3>1, <3>2
  <2>2. /\ sync' = [open |-> sync'.open, loading |-> sync'.loading, error |-> sync'.error,
                    models |-> sync'.models, selected |-> sync'.selected]
        /\ sync'.selected \subseteq Model /\ sync'.models \subseteq Model
    BY <1>0, <2>1
  <2> QED
    BY <1>0, <2>1, <2>2, SyncChanged
<1>4. CASE Form!CloseSync
  <2>1. sync' = [sync EXCEPT !.open = FALSE] /\ UNCHANGED <<stored, dialog, form, edited, asked>>
    BY <1>4 DEF Form!CloseSync
  <2>2. /\ sync' = [open |-> sync'.open, loading |-> sync'.loading, error |-> sync'.error,
                    models |-> sync'.models, selected |-> sync'.selected]
        /\ sync'.selected \subseteq Model /\ sync'.models \subseteq Model
    BY <1>0, <2>1
  <2> QED
    BY <1>0, <2>1, <2>2, SyncChanged
<1> QED
  BY <1>1, <1>2, <1>3, <1>4

(* The models that are added are those of the list that are not there yet. *)
LEMMA ListedOnce ==
  ASSUME NEW S, IsFiniteSet(S)
  PROVE  LET s == Form!Listing(S) IN
         /\ s \in Seq(S) /\ Len(s) = Cardinality(S) /\ Form!Range(s) = S
<1> DEFINE n == Cardinality(S)
           s == Form!Listing(S)
<1>1. n \in Nat /\ ExistsBijection(1..n, S)
  BY FS_CardinalityType
<1>2. \E f \in [1..n -> S] : \A j, k \in DOMAIN f : f[j] = f[k] => j = k
  BY <1>1 DEF ExistsBijection, Bijection, Injection, IsInjective
<1>3. s \in [1..n -> S] /\ \A j, k \in DOMAIN s : s[j] = s[k] => j = k
  <2>1. s = CHOOSE f \in [1..n -> S] : \A j, k \in DOMAIN f : f[j] = f[k] => j = k
    BY DEF Form!Listing, Form!Cardinality, Cardinality
  <2> HIDE DEF s, n
  <2> QED
    BY <1>2, <2>1
<1>4. s \in Injection(1..n, S)
  BY <1>3 DEF Injection, IsInjective
<1>5. n = Cardinality(1..n)
  BY <1>1, FS_Interval
<1>6. s \in Surjection(1..n, S)
  BY <1>4, <1>5, FS_Injection
<1> HIDE DEF s, n
<1>7. s \in Seq(S) /\ Len(s) = n
  BY <1>1, <1>3, SeqDef
<1>8. Form!Range(s) = S
  BY <1>3, <1>6 DEF Surjection, Form!Range
<1> QED
  BY <1>7, <1>8 DEF s, n

LEMMA SyncConfirmed ==
  ASSUME FormInv, Form!HandleSyncConfirm
  PROVE  FormInv' /\ Form!SyncAddsOnce
<1> DEFINE S == Model \cup {Blank}
           T == Form!ToAdd
           kept == Form!Named(form.models)
           new == Form!Listing(T)
<1>0. /\ form \in Form!FormType /\ form.models # <<>> /\ DOMAIN form = FormField
      /\ sync.selected \subseteq Model
  BY DEF FormInv, FormTypes, Form!TypeOK, Form!FormType, FormField
<1>1. /\ sync' = [sync EXCEPT !.open = FALSE] /\ UNCHANGED <<stored, dialog, asked>>
      /\ T = {} => UNCHANGED <<form, edited>>
      /\ T # {} => /\ form' = [form EXCEPT !["models"] = kept \o new]
                   /\ edited' = edited \cup {"models"}
  BY <1>0 DEF Form!HandleSyncConfirm, FormField
<1>2. /\ sync' = [open |-> sync'.open, loading |-> sync'.loading, error |-> sync'.error,
                  models |-> sync'.models, selected |-> sync'.selected]
      /\ sync'.selected \subseteq Model /\ sync'.models \subseteq Model
  BY <1>1 DEF FormInv, FormTypes, Form!TypeOK
<1>3. CASE T = {}
  <2>1. FormInv'
    BY <1>1, <1>2, <1>3 DEF FormInv, FormTypes, Form!TypeOK
  <2> QED
    BY <1>1, <1>3, <2>1 DEF Form!SyncAddsOnce
<1>4. CASE T # {}
  <2>1. T \subseteq Model /\ T \cap Form!Range(kept) = {} /\ IsFiniteSet(T)
    <3>1. T \subseteq Model /\ T \cap Form!Range(kept) = {}
      BY <1>0 DEF Form!ToAdd, Form!Known
    <3>2. IsFiniteSet(Model)
      BY FormAssumption DEF FormAssumption
    <3> QED
      BY <3>1, <3>2, FS_Subset
  <2>2. kept \in Seq(S)
    BY <1>0, NamedList DEF Form!FormType
  <2> HIDE DEF T, kept
  <2>3. new \in Seq(T) /\ Len(new) = Cardinality(T) /\ Form!Range(new) = T
    BY <2>1, ListedOnce
  <2> HIDE DEF new
  <2>4. new \in Seq(S) /\ Len(new) \in Nat /\ Len(kept) \in Nat /\ new # <<>>
    <3>1. new \in Seq(S)
      BY <2>1, <2>3, SeqMonotonic
    <3>2. new # <<>>
      BY <1>4, <2>3 DEF Form!Range
    <3> QED
      BY <2>2, <3>1, <3>2, LenProperties
  <2> DEFINE all == kept \o new
  <2>5. /\ all \in Seq(S) /\ Len(all) = Len(kept) + Len(new)
        /\ \A i \in 1..Len(kept) + Len(new) :
             all[i] = IF i <= Len(kept) THEN kept[i] ELSE new[i - Len(kept)]
    BY <2>2, <2>4, ConcatProperties
  <2>6. /\ DOMAIN all = 1..Len(kept) + Len(new) /\ DOMAIN kept = 1..Len(kept)
        /\ DOMAIN new = 1..Len(new)
    BY <2>2, <2>4, <2>5, LenProperties
  <2> HIDE DEF all
  <2>7. all # <<>>
    <3>1. Len(new) # 0
      BY <2>4, EmptySeq
    <3>2. Len(all) # 0
      BY <2>4, <2>5, <3>1
    <3> QED
      BY <3>2, EmptySeq
  <2>8. form' = [form EXCEPT !["models"] = all] /\ edited' = edited \cup {"models"}
    BY <1>1, <1>4 DEF all
  <2>9. form' \in Form!FormType /\ form'.models = all
    <3> HIDE DEF S
    <3>1. S = Model \cup {Blank}
      BY DEF S
    <3> QED
      BY <1>0, <2>5, <2>8, <3>1 DEF Form!FormType
  <2>10. FormInv'
    <3>1. FormTypes'
      BY <1>1, <1>2, <2>7, <2>9 DEF FormInv, FormTypes, Form!TypeOK
    <3>2. \A y \in FormField \ {"models"} : form'[y] = form[y]
      BY <1>0, <2>8
    <3>3. \A r : FormShows(r, form, edited) => FormShows(r, form', edited')
      BY <2>8, <3>2, OneFieldEdited
    <3> QED
      BY <1>1, <3>1, <3>3 DEF FormInv
  <2>11. SubSeq(all, 1, Len(kept)) = kept
    <3>1. /\ SubSeq(all, 1, Len(kept)) \in Seq(S) /\ Len(SubSeq(all, 1, Len(kept))) = Len(kept)
          /\ \A i \in 1..Len(kept) : SubSeq(all, 1, Len(kept))[i] = all[i]
      BY <2>4, <2>5, SubSeqProperties
    <3> QED
      BY <2>2, <2>4, <2>5, <3>1, SeqEqual
  <2>12. Form!Range(all) \ Form!Range(kept) = T
    <3>1. \A i \in DOMAIN all : all[i] \in Form!Range(kept) \cup Form!Range(new)
      <4> SUFFICES ASSUME NEW i \in DOMAIN all PROVE all[i] \in Form!Range(kept) \cup Form!Range(new)
        OBVIOUS
      <4>1. CASE i <= Len(kept)
        BY <2>4, <2>5, <2>6, <4>1 DEF Form!Range
      <4>2. CASE ~(i <= Len(kept))
        <5>1. i - Len(kept) \in DOMAIN new
          BY <2>4, <2>6, <4>2
        <5> QED
          BY <2>5, <2>6, <4>2, <5>1 DEF Form!Range
      <4> QED
        BY <4>1, <4>2
    <3>2. ASSUME NEW e \in T PROVE e \in Form!Range(all)
      <4>1. PICK j \in DOMAIN new : new[j] = e
        BY <2>3, <3>2 DEF Form!Range
      <4>2. Len(kept) + j \in DOMAIN all /\ all[Len(kept) + j] = new[j]
        BY <2>4, <2>5, <2>6
      <4> QED
        BY <4>1, <4>2 DEF Form!Range
    <3>3. Form!Range(all) \subseteq Form!Range(kept) \cup T
      BY <2>3, <3>1 DEF Form!Range
    <3> QED
      BY <2>1, <3>2, <3>3
  <2>13. Form!SyncAddsOnce
    <3>1. Len(all) - Len(kept) = Cardinality(T)
      BY <2>3, <2>4, <2>5
    <3>2. Form!Cardinality(T) = Cardinality(T)
      BY DEF Form!Cardinality, Cardinality
    <3> QED
      BY <2>9, <2>11, <2>12, <3>1, <3>2 DEF Form!SyncAddsOnce, Form!Known, kept
  <2> QED
    BY <2>10, <2>13
<1> QED
  BY <1>3, <1>4

(* The credential a payload holds, or that is kept where it holds none. *)
LEMMA PayloadCredential ==
  ASSUME FormInv
  PROVE  LET p == Form!Payload IN
         /\ Form!InputAuth(p) # None =>
              /\ Form!InputAuth(p).header \in Form!Header
              /\ Form!InputAuth(p).value \in Credential
         /\ p.auth \notin {None, Null} =>
              /\ form.apiKey # Blank /\ form.clearAuth # TRUE
              /\ dialog.mode = "edit" => form.apiKeyDirty = TRUE
              /\ Form!InputAuth(p).value = form.apiKey
              /\ Form!InputAuth(p).header = IF form.authHeader = "auto"
                                            THEN Form!DefaultHeader(form.type) ELSE form.authHeader
         /\ p.auth \in {None, Null} =>
              form.clearAuth = TRUE \/ form.apiKeyDirty = FALSE \/ form.apiKey = Blank
<1> DEFINE p == Form!Payload
           c == [header |-> IF form.authHeader = "auto" THEN None ELSE form.authHeader,
                 value |-> form.apiKey]
<1>1. /\ form.type \in Form!Type /\ form.authHeader \in Form!Header \cup {"auto"}
      /\ form.apiKey \in Credential \cup {Blank} /\ form.apiKeyDirty \in BOOLEAN
      /\ form.clearAuth \in BOOLEAN /\ dialog.mode \in {"create", "edit"}
  BY DEF FormInv, FormTypes, Form!TypeOK, Form!FormType
<1>2. /\ p.type = form.type /\ p.auth = Form!PayloadAuth(form, dialog.mode)
  BY DEF Form!Payload, Form!BuildPayload
<1> HIDE DEF p
<1>3. /\ c.value = form.apiKey
      /\ c.header = (IF form.authHeader = "auto" THEN None ELSE form.authHeader)
      /\ form.apiKey # Blank => c \notin {None, Null}
  <2>1. form.apiKey # Blank => form.apiKey \in Credential
    BY <1>1
  <2>2. (IF form.authHeader = "auto" THEN None ELSE form.authHeader) \in Form!Header \cup {None}
    BY <1>1
  <2>3. form.apiKey # Blank => c \notin {None, Null}
    BY <2>1, <2>2, FormAssumption DEF FormAssumption
  <2> QED
    BY <2>3
<1> HIDE DEF c
<1>4. /\ form.clearAuth = TRUE => p.auth = Null
      /\ form.clearAuth = FALSE /\ dialog.mode = "create" =>
           p.auth = IF form.apiKey = Blank THEN None ELSE c
      /\ form.clearAuth = FALSE /\ dialog.mode = "edit" =>
           p.auth = IF form.apiKeyDirty = TRUE THEN IF form.apiKey = Blank THEN Null ELSE c ELSE None
  <2>1. Form!Credentials(form) = IF form.apiKey = Blank THEN Null ELSE c
    BY DEF Form!Credentials, c
  <2> QED
    BY <1>1, <1>2, <2>1 DEF Form!PayloadAuth
<1>5. p.auth \in {None, Null, c}
  BY <1>1, <1>4
<1>6. p.auth \notin {None, Null} =>
        /\ form.apiKey # Blank /\ form.clearAuth # TRUE
        /\ dialog.mode = "edit" => form.apiKeyDirty = TRUE
        /\ p.auth = c
  BY <1>1, <1>4
<1>7. p.auth \in {None, Null} =>
        form.clearAuth = TRUE \/ form.apiKeyDirty = FALSE \/ form.apiKey = Blank
  BY <1>1, <1>3, <1>4
<1>8. p.auth \in {None, Null} => Form!InputAuth(p) = None
  BY DEF Form!InputAuth
<1>9. p.auth \notin {None, Null} =>
        /\ Form!InputAuth(p).value = form.apiKey
        /\ Form!InputAuth(p).header = IF form.authHeader = "auto"
                                      THEN Form!DefaultHeader(form.type) ELSE form.authHeader
  <2>1. p.auth \notin {None, Null} =>
          Form!InputAuth(p) = [header |-> IF c.header = None THEN Form!DefaultHeader(form.type)
                                          ELSE c.header,
                               value |-> c.value]
    BY <1>2, <1>6 DEF Form!InputAuth
  <2>2. form.authHeader # "auto" => form.authHeader # None
    BY <1>1, FormAssumption DEF FormAssumption
  <2> QED
    BY <1>3, <2>1, <2>2
<1>10. Form!DefaultHeader(form.type) \in Form!Header
  BY SMTT(40) DEF Form!DefaultHeader, Form!Header
<1> QED
  BY <1>1, <1>6, <1>7, <1>8, <1>9, <1>10 DEF p

(* What a save through the edit dialog stores. *)
LEMMA FormUpdates ==
  ASSUME FormInv, dialog.mode = "edit", dialog.open = TRUE, Form!Parses(form), Form!Succeeds
  PROVE  LET p == Form!Payload
             of == dialog.of
             n == Form!NextName(of, p)
             r == Form!InputRow(p, stored[of].enabled, Form!KeptAuth(of, p)) IN
         /\ n \in Channel /\ IsRow(r) /\ stored[of] # None /\ IsRow(stored[of])
         /\ FormShows(stored[of], form, edited) /\ FormShows(r, form, edited)
         /\ Form!Applied = [m \in Channel |-> IF m = n THEN r ELSE IF m = of THEN None ELSE stored[m]]
         /\ r.auth = Form!KeptAuth(of, p) /\ r.enabled = stored[of].enabled
         /\ r.type = form.type /\ r.targetBaseUrl = form.targetBaseUrl
         /\ r.priority = Form!Priority(form.priority) /\ r.visibility = form.visibility
         /\ r.systemPrompt = IF form.systemPrompt = Blank THEN None ELSE form.systemPrompt
         /\ r.extra = IF form.extra \in {Blank, "mode"} THEN None ELSE form.extra
         /\ r.models = Form!Named(form.models)
         /\ form.type = "openai" => r.mode = form.responsesMode
<1> DEFINE p == Form!Payload
           of == dialog.of
           n == Form!NextName(of, p)
           kept == Form!KeptAuth(of, p)
           r == Form!InputRow(p, stored[of].enabled, kept)
<1>1. /\ form \in Form!FormType /\ of \in Channel /\ stored[of] # None
      /\ stored = [m \in Channel |-> stored[m]]
  BY DEF FormInv, FormTypes, Form!TypeOK, Form!Succeeds, Form!CanUpdate, Form!Stored
<1>2. IsRow(stored[of]) /\ FormShows(stored[of], form, edited)
  BY <1>1 DEF FormInv, FormTypes
<1>3. n \in Channel
  <2>1. p.channelName = form.channelName
    BY DEF Form!Payload, Form!BuildPayload
  <2>2. form.channelName \in Channel \cup {Blank}
    BY <1>1 DEF Form!FormType
  <2> QED
    BY <1>1, <2>1, <2>2 DEF Form!NextName
<1>4. /\ p.auth \in {None, Null} => kept = stored[of].auth
      /\ p.auth \notin {None, Null} => kept = Form!InputAuth(p)
  BY DEF Form!KeptAuth
<1>5. kept # None => kept.header \in Form!Header /\ kept.value \in Credential
  BY <1>2, <1>4, PayloadCredential DEF IsRow
<1>6. Form!Accepted(Form!BuildPayload(form, dialog.mode), dialog.mode)
  BY DEF Form!Succeeds, Form!Payload
<1>7. p = Form!BuildPayload(form, dialog.mode)
  BY DEF Form!Payload
<1> HIDE DEF kept
<1>8. /\ IsRow(r) /\ r.auth = kept /\ r.enabled = stored[of].enabled
      /\ r.type = form.type /\ r.targetBaseUrl = form.targetBaseUrl
      /\ r.priority = Form!Priority(form.priority) /\ r.visibility = form.visibility
      /\ r.systemPrompt = (IF form.systemPrompt = Blank THEN None ELSE form.systemPrompt)
      /\ r.extra = (IF form.extra \in {Blank, "mode"} THEN None ELSE form.extra)
      /\ r.models = Form!Named(form.models)
      /\ form.type = "openai" => r.mode = form.responsesMode
  BY <1>1, <1>5, <1>6, <1>7, FormAssumption, SavedRow
<1>9. Form!Applied = [[stored EXCEPT ![of] = None] EXCEPT ![n] = r]
  BY DEF Form!Applied, Form!Updated, kept
<1> HIDE DEF p, r, n
<1>10. Form!Applied = [m \in Channel |-> IF m = n THEN r ELSE IF m = of THEN None ELSE stored[m]]
  BY <1>1, <1>3, <1>9
<1>11. FormShows(r, form, edited)
  <2>1. form.responsesMode # None
    BY <1>1, FormAssumption DEF Form!FormType, FormAssumption
  <2>2. form.apiKeyDirty = FALSE /\ form.apiKey # Blank => r.auth # None /\ r.auth.value = form.apiKey
    <3>1. form.apiKeyDirty = FALSE => p.auth \in {None, Null}
      BY PayloadCredential DEF p
    <3> QED
      BY <1>2, <1>4, <1>8, <3>1 DEF FormShows
  <2>3. Form!Named(r.models) = Form!Named(form.models)
    BY <1>1, <1>8, NamedList DEF Form!FormType
  <2> QED
    BY <1>2, <1>8, <2>1, <2>2, <2>3 DEF FormShows
<1> QED
  BY <1>1, <1>2, <1>3, <1>8, <1>10, <1>11 DEF p, n, r, kept

LEMMA FormSubmitted ==
  ASSUME FormInv, Form!HandleSubmit
  PROVE  FormInv'
<1>1. /\ dialog.open = TRUE /\ UNCHANGED <<form, edited, sync, asked>>
      /\ dialog \in [open : BOOLEAN, mode : {"create", "edit"}, of : Channel \cup {None}, error : BOOLEAN]
  BY DEF Form!HandleSubmit, Form!OnTop, FormInv, FormTypes, Form!TypeOK
<1>2. ASSUME UNCHANGED stored, dialog' = [dialog EXCEPT !.error = TRUE]
      PROVE  FormInv'
  BY <1>1, <1>2 DEF FormInv, FormTypes, Form!TypeOK
<1>3. ASSUME Form!Parses(form), Form!Succeeds, stored' = Form!Applied,
             \/ dialog' = [dialog EXCEPT !.open = FALSE, !.error = FALSE]
             \/ dialog' = [dialog EXCEPT !.error = TRUE]
      PROVE  FormInv'
  <2>1. /\ dialog' \in [open : BOOLEAN, mode : {"create", "edit"}, of : Channel \cup {None}, error : BOOLEAN]
        /\ dialog'.mode = dialog.mode /\ dialog'.of = dialog.of
    BY <1>1, <1>3
  <2>2. ASSUME stored' = [n \in Channel |-> stored'[n]],
               \A n \in Channel : stored'[n] # None => IsRow(stored'[n])
        PROVE  FormTypes'
    BY <1>1, <2>1, <2>2 DEF FormInv, FormTypes, Form!TypeOK
  <2>3. CASE dialog.mode = "create"
    <3> DEFINE p == Form!Payload
               r == Form!InputRow(p, TRUE, Form!InputAuth(p))
    <3>1. stored' = [stored EXCEPT ![p.channelName] = r]
      BY <1>3, <2>3 DEF Form!Applied, Form!Upserted
    <3>2. IsRow(r)
      <4>1. Form!Accepted(Form!BuildPayload(form, dialog.mode), dialog.mode)
        BY <1>3 DEF Form!Succeeds, Form!Payload
      <4>2. p = Form!BuildPayload(form, dialog.mode)
        BY DEF Form!Payload
      <4>3. form \in Form!FormType
        BY DEF FormInv, FormTypes, Form!TypeOK
      <4> DEFINE auth == Form!InputAuth(p)
      <4>4. auth # None => auth.header \in Form!Header /\ auth.value \in Credential
        BY PayloadCredential
      <4> HIDE DEF auth
      <4>5. IsRow(Form!InputRow(Form!BuildPayload(form, dialog.mode), TRUE, auth))
        BY <1>3, <4>1, <4>3, <4>4, FormAssumption, SavedRow
      <4> QED
        BY <4>2, <4>5 DEF auth
    <3>3. stored = [n \in Channel |-> stored[n]] /\ \A n \in Channel : stored[n] # None => IsRow(stored[n])
      BY DEF FormInv, FormTypes
    <3> HIDE DEF p, r
    <3>4. /\ stored' = [n \in Channel |-> stored'[n]]
          /\ \A n \in Channel : stored'[n] # None => IsRow(stored'[n])
      BY <3>1, <3>2, <3>3
    <3>5. FormTypes'
      BY <2>2, <3>4
    <3> QED
      BY <2>1, <2>3, <3>5 DEF FormInv
  <2>4. CASE dialog.mode = "edit"
    <3> DEFINE n == Form!NextName(dialog.of, Form!Payload)
               r == Form!InputRow(Form!Payload, stored[dialog.of].enabled,
                                  Form!KeptAuth(dialog.of, Form!Payload))
    <3>1. /\ n \in Channel /\ IsRow(r) /\ FormShows(r, form, edited)
          /\ Form!Applied = [m \in Channel |-> IF m = n THEN r
                                               ELSE IF m = dialog.of THEN None ELSE stored[m]]
      BY <1>1, <1>3, <2>4, FormUpdates
    <3>2. dialog.of \in Channel /\ \A m \in Channel : stored[m] # None => IsRow(stored[m])
      BY <2>4 DEF FormInv, FormTypes
    <3> HIDE DEF n, r
    <3>3. stored' = [m \in Channel |-> IF m = n THEN r ELSE IF m = dialog.of THEN None ELSE stored[m]]
      BY <1>3, <3>1
    <3>4. /\ stored' = [m \in Channel |-> stored'[m]]
          /\ \A m \in Channel : stored'[m] # None => IsRow(stored'[m])
      BY <3>1, <3>2, <3>3
    <3>5. stored'[dialog.of] # None => stored'[dialog.of] = r
      BY <3>2, <3>3
    <3>6. FormTypes'
      BY <2>2, <3>4
    <3>7. stored'[dialog'.of] # None => FormShows(stored'[dialog'.of], form', edited')
      BY <1>1, <2>1, <3>1, <3>5
    <3> QED
      BY <3>6, <3>7 DEF FormInv
  <2> QED
    BY <1>1, <2>3, <2>4
<1> QED
  BY <1>2, <1>3 DEF Form!HandleSubmit

LEMMA FormStep == FormInv /\ Form!Next => FormInv'
<1> SUFFICES ASSUME FormInv, Form!Next PROVE FormInv'
  OBVIOUS
<1>1. CASE Form!OpenCreateDialog
  <2>1. <<Blank>> \in Seq(Model \cup {Blank}) /\ <<Blank>> # <<>>
    OBVIOUS
  <2>2. Form!EmptyForm \in Form!FormType /\ Form!EmptyForm.models # <<>>
    BY <2>1 DEF Form!EmptyForm, Form!FormType, Form!Type, Form!Visibility, Form!Mode
  <2> QED
    BY <1>1, <2>2, FormShown DEF Form!OpenCreateDialog
<1>2. ASSUME NEW n \in Channel, Form!OpenEditDialog(n)
      PROVE  FormInv'
  <2>1. IsRow(stored[n])
    BY <1>2 DEF Form!OpenEditDialog, Form!Stored, FormInv, FormTypes
  <2> DEFINE f == Form!CreateFormState(Form!Info(n))
  <2>2. f \in Form!FormType /\ f.models # <<>> /\ FormShows(stored[n], f, {})
    BY <2>1, FormAssumption, OpenedForm
  <2>3. Form!Show("edit", n, f) /\ UNCHANGED <<stored, sync, asked>>
    BY <1>2 DEF Form!OpenEditDialog
  <2> HIDE DEF f
  <2> QED
    BY <2>2, <2>3, FormShown
<1>3. CASE Form!Cancel
  <2>1. dialog' = [dialog EXCEPT !.open = FALSE] /\ UNCHANGED <<stored, form, edited, sync, asked>>
    BY <1>3 DEF Form!Cancel
  <2>2. /\ dialog' \in [open : BOOLEAN, mode : {"create", "edit"}, of : Channel \cup {None}, error : BOOLEAN]
        /\ dialog'.open = FALSE /\ dialog'.mode = dialog.mode /\ dialog'.of = dialog.of
    BY <2>1 DEF FormInv, FormTypes, Form!TypeOK
  <2> QED
    BY <2>1, <2>2 DEF FormInv, FormTypes, Form!TypeOK
<1> QED
  BY <1>1, <1>2, <1>3, FormEditStep, SyncStep, SyncConfirmed, FormSubmitted DEF Form!Next

(* A save through the edit dialog stores the form's row under its name. *)
LEMMA FormSaves ==
  ASSUME FormInv, Form!Next, Form!Saves
  PROVE  LET p == Form!Payload
             r == Form!InputRow(p, stored[dialog.of].enabled, Form!KeptAuth(dialog.of, p)) IN
         /\ dialog.mode = "edit" /\ dialog.open = TRUE /\ Form!Parses(form) /\ Form!Succeeds
         /\ stored'[Form!SavedName] = r
<1>1. stored' # stored /\ dialog.mode = "edit"
  BY DEF Form!Saves
<1>2. Form!HandleSubmit
  <2>1. ~Form!Edit
    BY <1>1 DEF Form!Edit, Form!EditName, Form!EditType, Form!EditUrl, Form!EditResponsesMode,
       Form!EditPriority, Form!EditVisibility, Form!EditSystemPrompt, Form!EditExtra,
       Form!EditAuthHeader, Form!EditCredential, Form!ClearAuth, Form!UpdateModelRow,
       Form!AddModelRow, Form!RemoveModelRow, Form!Change
  <2>2. ~(Form!OpenSyncDialog \/ Form!SyncAnswer \/ Form!Select \/ Form!HandleSyncConfirm
            \/ Form!CloseSync)
    BY <1>1 DEF Form!OpenSyncDialog, Form!SyncAnswer, Form!Select, Form!HandleSyncConfirm,
       Form!CloseSync
  <2>3. ~Form!OpenCreateDialog /\ ~Form!Cancel /\ \A n \in Channel : ~Form!OpenEditDialog(n)
    BY <1>1 DEF Form!OpenCreateDialog, Form!Cancel, Form!OpenEditDialog
  <2> QED
    BY <2>1, <2>2, <2>3 DEF Form!Next
<1>3. dialog.open = TRUE
  BY <1>2 DEF Form!HandleSubmit, Form!OnTop, FormInv, FormTypes, Form!TypeOK
<1>4. Form!Parses(form) /\ Form!Succeeds /\ stored' = Form!Applied
  BY <1>1, <1>2 DEF Form!HandleSubmit
<1> DEFINE n == Form!NextName(dialog.of, Form!Payload)
           r == Form!InputRow(Form!Payload, stored[dialog.of].enabled,
                              Form!KeptAuth(dialog.of, Form!Payload))
<1>5. /\ n \in Channel
      /\ Form!Applied = [m \in Channel |-> IF m = n THEN r
                                           ELSE IF m = dialog.of THEN None ELSE stored[m]]
  BY <1>1, <1>3, <1>4, FormUpdates
<1>6. Form!SavedName = n
  BY DEF Form!SavedName
<1> HIDE DEF n, r
<1>7. stored'[Form!SavedName] = r
  BY <1>4, <1>5, <1>6
<1> QED
  BY <1>1, <1>3, <1>4, <1>7 DEF r

LEMMA FormUntouched == FormInv /\ Form!Next => Form!UntouchedFieldsKept
<1>0. ASSUME FormInv, Form!Next, Form!Saves
      PROVE  ~Form!ModelDetails(stored'[Form!SavedName])
  <2>1. \E p, enabled, auth : stored'[Form!SavedName] = Form!InputRow(p, enabled, auth)
    BY <1>0, FormSaves
  <2> QED
    BY <2>1 DEF Form!ModelDetails, Form!InputRow
<1> SUFFICES ASSUME FormInv, Form!Next, Form!Saves,
                    NEW field \in Form!Columns \ edited,
                    ~(field = "responsesMode" /\ edited \cap {"type", "extra"} # {})
             PROVE  Form!Column(stored'[Form!SavedName], field) = Form!Column(stored[dialog.of], field)
  BY <1>0 DEF Form!UntouchedFieldsKept
<1> DEFINE p == Form!Payload
           was == stored[dialog.of]
           r == Form!InputRow(p, was.enabled, Form!KeptAuth(dialog.of, p))
<1>1. /\ dialog.mode = "edit" /\ dialog.open = TRUE /\ Form!Parses(form) /\ Form!Succeeds
      /\ stored'[Form!SavedName] = r
  BY FormSaves
<1>2. /\ IsRow(was) /\ FormShows(was, form, edited)
      /\ r.auth = Form!KeptAuth(dialog.of, p) /\ r.enabled = was.enabled
      /\ r.type = form.type /\ r.targetBaseUrl = form.targetBaseUrl
      /\ r.priority = Form!Priority(form.priority) /\ r.visibility = form.visibility
      /\ r.systemPrompt = (IF form.systemPrompt = Blank THEN None ELSE form.systemPrompt)
      /\ r.extra = (IF form.extra \in {Blank, "mode"} THEN None ELSE form.extra)
      /\ r.models = Form!Named(form.models)
      /\ form.type = "openai" => r.mode = form.responsesMode
  BY <1>1, FormUpdates
<1>3. form \in Form!FormType
  BY DEF FormInv, FormTypes, Form!TypeOK
<1>4. "auth" \notin edited => r.auth = was.auth
  <2>1. "auth" \notin edited => form.apiKeyDirty = FALSE
    BY <1>2 DEF FormShows
  <2>2. "auth" \notin edited => p.auth \in {None, Null}
    BY <1>1, <2>1, PayloadCredential
  <2> QED
    BY <1>2, <2>2 DEF Form!KeptAuth
<1>5. form.responsesMode # None
  BY <1>3, FormAssumption DEF Form!FormType, FormAssumption
<1>6. Form!Named(r.models) = Form!Named(form.models)
  BY <1>2, <1>3, NamedList DEF Form!FormType
<1> HIDE DEF r, was, p
<1>7. CASE field = "models"
  BY <1>1, <1>2, <1>6, <1>7 DEF Form!Column, FormShows, was
<1>8. CASE field = "responsesMode"
  <2>1. edited \cap {"type", "extra", "responsesMode"} = {}
    BY <1>8
  <2>2. was.type = r.type
    BY <1>2, <2>1 DEF FormShows
  <2>3. r.type = "openai" => r.mode = IF was.mode = None THEN "native" ELSE was.mode
    BY <1>2, <2>1, <2>2 DEF FormShows
  <2>4. r.type = "openai" => r.mode # None
    BY <1>2, <1>5
  <2>5. Form!Column(r, field) = Form!Column(was, field)
    BY <1>8, <2>2, <2>3, <2>4 DEF Form!Column
  <2> QED
    BY <1>1, <2>5 DEF was
<1>9. CASE field = "auth"
  BY <1>1, <1>4, <1>9 DEF Form!Column, was
<1>10. CASE field \in {"type", "targetBaseUrl", "priority", "visibility"}
  BY <1>1, <1>2, <1>10 DEF Form!Column, FormShows, was
<1>11. CASE field \in {"systemPrompt", "extra", "enabled"}
  BY <1>1, <1>2, <1>11 DEF Form!Column, FormShows, was
<1> QED
  BY <1>7, <1>8, <1>9, <1>10, <1>11 DEF Form!Columns

LEMMA FormReopened == FormInv /\ Form!Next => Form!ShowsWhatWasSaved
<1> SUFFICES ASSUME FormInv, Form!Next, Form!Saves PROVE Form!ShowsWhatWasSaved
  BY DEF Form!ShowsWhatWasSaved
<1> DEFINE p == Form!Payload
           was == stored[dialog.of]
           r == Form!InputRow(p, was.enabled, Form!KeptAuth(dialog.of, p))
           back == Form!Reopened
<1>1. /\ dialog.mode = "edit" /\ dialog.open = TRUE /\ Form!Parses(form) /\ Form!Succeeds
      /\ stored'[Form!SavedName] = r
  BY FormSaves
<1>2. /\ IsRow(was) /\ FormShows(was, form, edited)
      /\ r.auth = Form!KeptAuth(dialog.of, p)
      /\ r.type = form.type /\ r.targetBaseUrl = form.targetBaseUrl
      /\ r.priority = Form!Priority(form.priority) /\ r.visibility = form.visibility
      /\ r.systemPrompt = (IF form.systemPrompt = Blank THEN None ELSE form.systemPrompt)
      /\ r.extra = (IF form.extra \in {Blank, "mode"} THEN None ELSE form.extra)
      /\ r.models = Form!Named(form.models)
      /\ form.type = "openai" => r.mode = form.responsesMode
  BY <1>1, FormUpdates
<1>3. /\ form.type \in Form!Type /\ form.responsesMode \in Form!Mode
      /\ form.systemPrompt \in {Blank, "prompt"} /\ form.models \in Seq(Model \cup {Blank})
      /\ form.authHeader \in Form!Header \cup {"auto"}
      /\ form.apiKeyDirty \in BOOLEAN /\ form.clearAuth \in BOOLEAN
  BY DEF FormInv, FormTypes, Form!TypeOK, Form!FormType
<1>4. /\ p.auth \in {None, Null} => r.auth = was.auth
      /\ p.auth \notin {None, Null} => r.auth = Form!InputAuth(p)
  BY <1>2 DEF Form!KeptAuth
<1> HIDE DEF r
<1>5. /\ back.type = r.type /\ back.targetBaseUrl = r.targetBaseUrl
      /\ back.priority = r.priority /\ back.visibility = r.visibility
      /\ back.systemPrompt = Form!Text(r.systemPrompt) /\ back.extra = Form!Text(r.extra)
      /\ back.responsesMode = (IF r.mode = None THEN "native" ELSE r.mode)
      /\ back.apiKey = (IF r.auth = None THEN Blank ELSE r.auth.value)
      /\ back.authHeader = Form!ShownHeader(r)
      /\ back.models = IF r.models = <<>> THEN <<Blank>> ELSE r.models
  BY <1>1 DEF Form!Reopened, Form!CreateFormState
<1> HIDE DEF p, was, back
<1>6. /\ back.type = form.type /\ back.targetBaseUrl = form.targetBaseUrl
      /\ back.visibility = form.visibility /\ back.systemPrompt = form.systemPrompt
      /\ back.priority = Form!Priority(form.priority)
  BY <1>2, <1>3, <1>5, FormAssumption DEF FormAssumption, Form!Text
<1>7. Form!Named(back.models) = Form!Named(form.models)
  BY <1>2, <1>3, <1>5, BlankRow, NamedList
<1>8. form.type = "openai" => back.responsesMode = form.responsesMode
  BY <1>2, <1>3, <1>5, FormAssumption DEF FormAssumption
<1>9. form.extra \in {Blank, "vendor"} => back.extra = form.extra
  BY <1>2, <1>5, FormAssumption DEF FormAssumption, Form!Text
<1>10. ASSUME form.apiKey # Blank
       PROVE  /\ back.apiKey = form.apiKey
              /\ form.apiKeyDirty => back.authHeader = IF form.authHeader = Form!DefaultHeader(form.type)
                                                       THEN "auto" ELSE form.authHeader
  <2>1. CASE p.auth \in {None, Null}
    <3>1. form.apiKeyDirty = FALSE
      BY <1>2, <1>3, <1>10, <2>1, PayloadCredential DEF FormShows, p
    <3>2. was.auth # None /\ was.auth.value = form.apiKey
      BY <1>2, <1>10, <3>1 DEF FormShows
    <3> QED
      BY <1>4, <1>5, <2>1, <3>1, <3>2
  <2>2. CASE p.auth \notin {None, Null}
    <3>1. /\ r.auth.value = form.apiKey
          /\ r.auth.header = IF form.authHeader = "auto"
                             THEN Form!DefaultHeader(form.type) ELSE form.authHeader
      BY <1>4, <2>2, PayloadCredential DEF p
    <3>2. r.auth # None
      <4>1. Form!InputAuth(p) = [header |-> Form!InputAuth(p).header, value |-> Form!InputAuth(p).value]
        BY <2>2 DEF Form!InputAuth
      <4>2. Form!InputAuth(p).header \in Form!Header
        BY <1>3, <1>4, <2>2, <3>1 DEF Form!DefaultHeader, Form!Header
      <4>3. Form!InputAuth(p).value \in Credential
        <5>1. form.apiKey \in Credential \cup {Blank}
          BY DEF FormInv, FormTypes, Form!TypeOK, Form!FormType
        <5> QED
          BY <1>4, <1>10, <2>2, <3>1, <5>1
      <4> QED
        BY <1>4, <2>2, <4>1, <4>2, <4>3, FormAssumption DEF FormAssumption
    <3>3. back.authHeader = IF r.auth.header = Form!DefaultHeader(r.type) THEN "auto" ELSE r.auth.header
      BY <1>5, <3>2 DEF Form!ShownHeader
    <3>4. Form!DefaultHeader(form.type) # "auto"
      BY DEF Form!DefaultHeader
    <3> QED
      BY <1>2, <1>5, <3>1, <3>2, <3>3, <3>4
  <2> QED
    BY <2>1, <2>2
<1>11. \A field \in {"type", "targetBaseUrl", "visibility", "systemPrompt"} : back[field] = form[field]
  BY <1>6
<1>12. form.apiKey = Blank => r.auth = was.auth
  <2>1. form.apiKey = Blank => p.auth \in {None, Null}
    BY <1>1 DEF p, Form!Payload, Form!BuildPayload, Form!PayloadAuth, Form!Credentials
  <2> QED
    BY <1>4, <2>1
<1>13. form.apiKey = Blank => stored'[Form!SavedName].auth = stored[dialog.of].auth
  BY <1>1, <1>12 DEF was
<1> QED
  BY <1>6, <1>7, <1>8, <1>9, <1>10, <1>11, <1>13 DEF Form!ShowsWhatWasSaved, back

LEMMA FormSyncs == FormInv /\ Form!Next => Form!SyncAddsOnce
<1> SUFFICES ASSUME FormInv, Form!Next, ~Form!HandleSyncConfirm,
                    form.models # form'.models, sync.open, dialog.open
             PROVE  FALSE
  BY SyncConfirmed DEF Form!SyncAddsOnce
<1>1. ~Form!Edit
  BY DEF Form!Edit, Form!EditName, Form!EditType, Form!EditUrl, Form!EditResponsesMode,
     Form!EditPriority, Form!EditVisibility, Form!EditSystemPrompt, Form!EditExtra,
     Form!EditAuthHeader, Form!EditCredential, Form!ClearAuth, Form!UpdateModelRow,
     Form!AddModelRow, Form!RemoveModelRow, Form!Change, Form!OnTop
<1>2. ~(Form!OpenSyncDialog \/ Form!SyncAnswer \/ Form!Select \/ Form!CloseSync)
  BY DEF Form!OpenSyncDialog, Form!SyncAnswer, Form!Select, Form!CloseSync
<1>3. /\ ~Form!OpenCreateDialog /\ ~Form!Cancel /\ ~Form!HandleSubmit
      /\ \A n \in Channel : ~Form!OpenEditDialog(n)
  BY DEF Form!OpenCreateDialog, Form!Cancel, Form!OpenEditDialog, Form!HandleSubmit
<1> QED
  BY <1>1, <1>2, <1>3 DEF Form!Next

(***************************************************************************)
(* No row waits for ever.                                                  *)
(***************************************************************************)
SpinnersInv ==
  /\ page = "providers" => ProvidersInv
  /\ page = "routes"    => RoutesInv
  /\ page = "keys"      => KeysInv

LEMMA SpinnersInvHolds == Spec => []SpinnersInv
<1>1. Init => SpinnersInv
  BY ProvidersInit, RoutesInit, KeysInit DEF Init, SpinnersInv
<1>2. SpinnersInv /\ [Next]_vars => SpinnersInv'
  <2> SUFFICES ASSUME SpinnersInv, [Next]_vars PROVE SpinnersInv'
    OBVIOUS
  <2>1. page' = page
    BY DEF Next, vars, common
  <2>2. CASE UNCHANGED vars
    BY <2>2, ProvidersKept, RoutesKept, KeysKept
    DEF SpinnersInv, vars, common, listVars, routeVars
  <2>3. CASE page = "providers" /\ Providers!Next
    BY <2>1, <2>3, ProvidersStep DEF SpinnersInv
  <2>4. CASE page = "routes" /\ Routes!Next
    BY <2>1, <2>4, RoutesStep DEF SpinnersInv
  <2>5. CASE page = "keys" /\ Keys!Next
    BY <2>1, <2>5, KeysStep DEF SpinnersInv
  <2>6. CASE page \notin {"providers", "routes", "keys"}
    BY <2>1, <2>6 DEF SpinnersInv
  <2> QED
    BY <2>2, <2>3, <2>4, <2>5, <2>6 DEF Next
<1> QED
  BY <1>1, <1>2, PTL DEF Spec

(* No row of the providers, the routes and the keys page waits for ever: its *)
(* switch, button or spinner has an answer to come, and the switch of a      *)
(* channel is out once at most (providers-page.tsx, routes-page.tsx,         *)
(* keys-page.tsx).                                                           *)
THEOREM SpinnersAreBacked == Spec => []SpinnersBacked
<1>1. SpinnersInv => SpinnersBacked
  BY ProvidersProperty, RoutesProperty, KeysProperty DEF SpinnersInv, SpinnersBacked
<1> QED
  BY <1>1, SpinnersInvHolds, PTL

(***************************************************************************)
(* What is sent is what is shown.                                          *)
(***************************************************************************)
SendsInv ==
  /\ page = "providers" => ProvidersInv
  /\ page = "routes"    => TargetsInv
  /\ page = "failover"  => FailoverInv
  /\ page = "models"    => ModelsInv

(* What the pages send is about what they show, and can be used: the         *)
(* providers page saves the channel whose data fills the form                *)
(* (providers-page.tsx), a target on the routes page names a model of its    *)
(* channel and a stored rule is complete (routes-page.tsx), and the models   *)
(* page sends usable metadata and shows the result of the model it names     *)
(* (models-page.tsx).                                                        *)
THEOREM SendsShown == Spec => []SendsWhatItShows
<1>1. Init => SendsInv
  BY ProvidersInit, TargetsInit, FailoverInit, ModelsInit DEF Init, SendsInv
<1>2. SendsInv /\ [Next]_vars => SendsInv'
  <2> SUFFICES ASSUME SendsInv, [Next]_vars PROVE SendsInv'
    OBVIOUS
  <2>1. page' = page
    BY DEF Next, vars, common
  <2>2. CASE UNCHANGED vars
    BY <2>2, ProvidersKept, TargetsKept, FailoverKept, ModelsKept
    DEF SendsInv, vars, common, listVars, tableVars, editVars, modelVars
  <2>3. CASE page = "providers" /\ Providers!Next
    BY <2>1, <2>3, ProvidersStep DEF SendsInv
  <2>4. CASE page = "routes" /\ Routes!Next
    BY <2>1, <2>4, TargetsStep DEF SendsInv
  <2>5. CASE page = "failover" /\ Failover!Next
    BY <2>1, <2>5, FailoverStep DEF SendsInv
  <2>6. CASE page = "models" /\ Models!Next
    BY <2>1, <2>6, ModelsStep DEF SendsInv
  <2>7. CASE page \notin {"providers", "routes", "failover", "models"}
    BY <2>1, <2>7 DEF SendsInv
  <2> QED
    BY <2>2, <2>3, <2>4, <2>5, <2>6, <2>7 DEF Next
<1>3. SendsInv => SendsWhatItShows
  BY ProvidersProperty, TargetsProperty, FailoverProperty, ModelsProperty
  DEF SendsInv, SendsWhatItShows
<1> QED
  BY <1>1, <1>2, <1>3, PTL DEF Spec

(***************************************************************************)
(* A save changes nothing that was left alone.                             *)
(***************************************************************************)
FormsInv ==
  /\ page = "form"      => FormInv
  /\ page = "failover"  => PolicyInv
  /\ page = "settings"  => SettingsInv
  /\ page = "providers" => ProvidersInv /\ DialogsInv

LEMMA FormsInvHolds == Spec => []FormsInv
<1>1. Init => FormsInv
  BY FormInit, PolicyInit, SettingsInit, ProvidersInit, DialogsInit DEF Init, FormsInv
<1>2. FormsInv /\ [Next]_vars => FormsInv'
  <2> SUFFICES ASSUME FormsInv, [Next]_vars PROVE FormsInv'
    OBVIOUS
  <2>1. page' = page
    BY DEF Next, vars, common
  <2>2. CASE UNCHANGED vars
    <3>1. /\ UNCHANGED <<stored, settings, form, edited, loading, saving, calls, signedOut, excused>>
          /\ UNCHANGED <<served, policy, flags, dialog, sync, asked, stack, childRef, childTimer>>
      BY <2>2 DEF vars, common, formVars, editVars, listVars
    <3>2. (page = "form" => FormInv') /\ (page = "settings" => SettingsInv')
      BY <3>1, FormKept, SettingsSame DEF FormsInv
    <3>3. page = "failover" => PolicyInv'
      BY <3>1, PolicySame DEF FormsInv
    <3>4. page = "providers" => ProvidersInv' /\ DialogsInv'
      BY <2>2, <3>1, ProvidersKept DEF FormsInv, DialogsInv, vars, common, listVars
    <3> QED
      BY <2>1, <3>2, <3>3, <3>4 DEF FormsInv
  <2>3. CASE page = "form" /\ Form!Next
    BY <2>1, <2>3, FormStep DEF FormsInv
  <2>4. CASE page = "failover" /\ Failover!Next
    BY <2>1, <2>4, PolicyStep DEF FormsInv
  <2>5. CASE page = "settings" /\ Settings!Next
    BY <2>1, <2>5, SettingsStep DEF FormsInv
  <2>6. CASE page = "providers" /\ Providers!Next
    BY <2>1, <2>6, ProvidersStep, DialogSteps DEF FormsInv
  <2>7. CASE page \notin {"form", "failover", "settings", "providers"}
    BY <2>1, <2>7 DEF FormsInv
  <2> QED
    BY <2>2, <2>3, <2>4, <2>5, <2>6, <2>7 DEF Next
<1> QED
  BY <1>1, <1>2, PTL DEF Spec

(* A save writes back what the user left alone, in the edit form of a        *)
(* provider (providers-page.tsx), in the failover policy (routes-page.tsx)   *)
(* and in the timeouts (settings-page.tsx), through every default and        *)
(* normalisation of the console API (consoleapi/api.go), but for the         *)
(* contexts and prices of a provider's models, which it always drops; the    *)
(* edit form shows a saved provider as it was typed, but for a credential    *)
(* that was cleared, which is the stored one; the models of the upstream are *)
(* added once each; and a dialog closed above the form leaves the form open. *)
(* Saves of the policy and the timeouts that crossed a load, or lost an      *)
(* answer, are excused.                                                      *)
THEOREM FormsKeepFaith == Spec => FormsFaithful
<1> DEFINE Faithful ==
      /\ page = "form" => Form!UntouchedFieldsKept /\ Form!ShowsWhatWasSaved /\ Form!SyncAddsOnce
      /\ page = "failover"  => Failover!UneditedPolicyKept
      /\ page = "settings"  => Settings!UneditedTimeoutsKept
      /\ page = "providers" => Providers!FormSurvivesChildren
<1>1. FormsInv /\ [Next]_vars => [Faithful]_vars
  <2> SUFFICES ASSUME FormsInv, Next PROVE Faithful
    OBVIOUS
  <2>1. CASE page = "form" /\ Form!Next
    BY <2>1, FormUntouched, FormReopened, FormSyncs DEF FormsInv
  <2>2. CASE page = "failover" /\ Failover!Next
    BY <2>2, PolicyUntouched DEF FormsInv
  <2>3. CASE page = "settings" /\ Settings!Next
    BY <2>3, SettingsUntouched DEF FormsInv
  <2>4. CASE page = "providers" /\ Providers!Next
    BY <2>4, DialogSteps DEF FormsInv
  <2>5. CASE page \notin {"form", "failover", "settings", "providers"}
    BY <2>5
  <2> QED
    BY <2>1, <2>2, <2>3, <2>4, <2>5 DEF Next
<1> QED
  BY <1>1, FormsInvHolds, PTL DEF Spec, FormsFaithful
=============================================================================
