-------------------------- MODULE PanelViews_proofs ---------------------------
(***************************************************************************)
(* The views of the panel show what is selected in them, save to the       *)
(* agent, rule, status page or monitor they were opened for, and their     *)
(* list of monitors is current, for any data and any number of requests.   *)
(*                                                                         *)
(* The views cancel few of their requests, so the argument of each is      *)
(* about the answers that may still come: as long as the latest request is *)
(* pending it is the last of those under way and is for the selection of   *)
(* now, and every change of the selection sends another.  The views share  *)
(* no state, so the invariant of each is kept by its own steps and by      *)
(* those of all the others.                                                *)
(***************************************************************************)
EXTENDS PanelViews, FiniteSetTheorems, FunctionTheorems, SequenceTheorems, TLAPS

-----------------------------------------------------------------------------
(* What happens to a list of requests that one is added to or taken out of. *)
LEMMA Appended ==
  ASSUME NEW T, NEW s \in Seq(T), NEW e \in T
  PROVE  /\ Append(s, e) \in Seq(T) /\ Append(s, e) # <<>>
         /\ Append(s, e)[Len(Append(s, e))] = e
         /\ Len(Append(s, e)) = Len(s) + 1
  OBVIOUS

\* A list whose members are all in S, but for those of an empty one, with one more.
LEMMA AppendedIn ==
  ASSUME NEW T, NEW s \in Seq(T), NEW e \in T, NEW S, \A i \in DOMAIN s : s[i] \in S
  PROVE  \A i \in DOMAIN Append(s, e) :
           Append(s, e)[i] \in (IF s = <<>> THEN {} ELSE S) \cup {e}
<1> SUFFICES ASSUME NEW i \in DOMAIN Append(s, e), i # Len(s) + 1
             PROVE  Append(s, e)[i] \in IF s = <<>> THEN {} ELSE S
  OBVIOUS
<1>1. i \in 1 .. Len(s) /\ Append(s, e)[i] = s[i]
  OBVIOUS
<1> QED
  BY <1>1

LEMMA Remaining ==
  ASSUME NEW n \in Nat, NEW i \in 1 .. n, i # n
  PROVE  n - i \in 1 .. n - i /\ (n - i) + i = n
  OBVIOUS

LEMMA Removed ==
  ASSUME NEW T, NEW s \in Seq(T), NEW i \in DOMAIN s
  PROVE  /\ RemoveAt(s, i) \in Seq(T)
         /\ Len(RemoveAt(s, i)) = Len(s) - 1
         /\ i # Len(s) => /\ RemoveAt(s, i) # <<>>
                          /\ RemoveAt(s, i)[Len(RemoveAt(s, i))] = s[Len(s)]
         /\ \A k \in DOMAIN RemoveAt(s, i) : \E j \in DOMAIN s : RemoveAt(s, i)[k] = s[j]
<1>1. i \in 1 .. Len(s) /\ Len(s) \in Nat
  OBVIOUS
<1> DEFINE h == SubSeq(s, 1, i - 1)
           t == SubSeq(s, i + 1, Len(s))
<1>2. h \in Seq(T) /\ Len(h) = i - 1
  BY <1>1
<1>3. t \in Seq(T) /\ Len(t) = Len(s) - i
  BY <1>1
<1>4. \A k \in 1 .. Len(s) - i : t[k] = s[k + i]
  <2>1. \A j \in i + 1 .. Len(s) : s[j] \in T
    BY <1>1
  <2>2. \A k \in 1 .. Len(s) - (i + 1) + 1 : t[k] = s[i + 1 + k - 1]
    BY <1>1, <2>1, SubSeqProperties
  <2> TAKE k \in 1 .. Len(s) - i
  <2>3. k \in 1 .. Len(s) - (i + 1) + 1 /\ i + 1 + k - 1 = k + i
    BY <1>1
  <2> QED
    BY <2>2, <2>3
<1>5. i # Len(s) => t[Len(s) - i] = s[Len(s)]
  BY <1>1, <1>4, Remaining
<1> HIDE DEF h, t
<1>6. h \o t \in Seq(T) /\ Len(h \o t) = Len(s) - 1
  BY <1>1, <1>2, <1>3
<1>7. ASSUME i # Len(s)
      PROVE  h \o t # <<>> /\ (h \o t)[Len(h \o t)] = s[Len(s)]
  <2>1. Len(s) - 1 \in 1 .. Len(s) - 1 /\ Len(t) \in Nat /\ Len(t) >= 1
    BY <1>1, <1>3, <1>7
  <2>2. (h \o t)[Len(s) - 1] = t[Len(s) - 1 - (i - 1)]
    BY <1>1, <1>2, <1>3, <1>6, <2>1
  <2>3. Len(s) - 1 - (i - 1) = Len(t)
    BY <1>1, <1>3
  <2> QED
    BY <1>3, <1>5, <1>6, <1>7, <2>1, <2>2, <2>3
<1>8. ASSUME NEW k \in DOMAIN (h \o t)
      PROVE  \E j \in DOMAIN s : (h \o t)[k] = s[j]
  <2>1. k \in 1 .. Len(s) - 1 /\ k \in Nat /\ i \in Nat
    BY <1>1, <1>6, <1>8
  <2>2. CASE k <= i - 1
    <3>1. k \in 1 .. i - 1 /\ (h \o t)[k] = h[k]
      BY <1>1, <1>2, <1>3, <2>1, <2>2
    <3>2. h[k] = s[k] /\ k \in DOMAIN s
      BY <1>1, <3>1 DEF h
    <3> QED
      BY <3>1, <3>2
  <2>3. CASE i <= k
    <3>1. (h \o t)[k] = t[k - (i - 1)]
      BY <1>1, <1>2, <1>3, <2>1, <2>3
    <3>2. k - (i - 1) \in 1 .. Len(s) - i /\ k + 1 \in 1 .. Len(s)
      BY <1>1, <2>1, <2>3
    <3>3. t[k - (i - 1)] = s[k + 1]
      <4>1. \A n \in 1 .. Len(s) - i : t[n] = s[n + i]
        BY <1>4
      <4>2. k - (i - 1) + i = k + 1
        BY <2>1
      <4> QED
        BY <3>2, <4>1, <4>2
    <3> QED
      BY <3>1, <3>2, <3>3
  <2> QED
    BY <2>1, <2>2, <2>3
<1> QED
  BY <1>6, <1>7, <1>8 DEF RemoveAt, h, t

-----------------------------------------------------------------------------
(* Counting from below: the elements of a finite set of numbers have the ranks from *)
(* one to the size of the set, each one rank.                                       *)
UpTo(S, m) == {n \in S : n <= m}

LEMMA Ranks ==
  ASSUME NEW S \in SUBSET Nat, IsFiniteSet(S)
  PROVE  /\ Cardinality(S) \in Nat
         /\ \A m \in S : Cardinality(UpTo(S, m)) \in 1 .. Cardinality(S)
         /\ \A m, n \in S : Cardinality(UpTo(S, m)) = Cardinality(UpTo(S, n)) => m = n
         /\ \A k \in 1 .. Cardinality(S) : \E m \in S : Cardinality(UpTo(S, m)) = k
<1>1. Cardinality(S) \in Nat
  BY FS_CardinalityType
<1>2. ASSUME NEW m \in S
      PROVE  IsFiniteSet(UpTo(S, m)) /\ Cardinality(UpTo(S, m)) \in 1 .. Cardinality(S)
  <2>1. UpTo(S, m) \in SUBSET S /\ m \in UpTo(S, m)
    BY DEF UpTo
  <2>2. IsFiniteSet(UpTo(S, m)) /\ Cardinality(UpTo(S, m)) <= Cardinality(S)
    BY <2>1, FS_Subset
  <2>3. Cardinality(UpTo(S, m)) \in Nat /\ Cardinality(UpTo(S, m)) # 0
    BY <2>1, <2>2, FS_CardinalityType, FS_EmptySet
  <2> QED
    BY <1>1, <2>2, <2>3
<1>3. ASSUME NEW m \in S, NEW n \in S, Cardinality(UpTo(S, m)) = Cardinality(UpTo(S, n)), m <= n
      PROVE  m = n
  <2>1. UpTo(S, m) \in SUBSET UpTo(S, n)
    <3>1. \A j \in S : j <= m => j <= n
      <4>1. m \in Nat /\ n \in Nat /\ \A j \in S : j \in Nat
        OBVIOUS
      <4> QED
        BY <1>3, <4>1
    <3> QED
      BY <3>1 DEF UpTo
  <2>2. UpTo(S, n) = UpTo(S, m)
    BY <1>2, <1>3, <2>1, FS_Subset
  <2>3. n \in UpTo(S, m)
    BY <2>2 DEF UpTo
  <2> QED
    BY <1>3, <2>3 DEF UpTo
<1>4. \A m, n \in S : Cardinality(UpTo(S, m)) = Cardinality(UpTo(S, n)) => m = n
  <2> SUFFICES ASSUME NEW m \in S, NEW n \in S,
                      Cardinality(UpTo(S, m)) = Cardinality(UpTo(S, n))
               PROVE  m = n
    OBVIOUS
  <2>1. m <= n \/ n <= m
    OBVIOUS
  <2> QED
    BY <1>3, <2>1
<1> DEFINE r == [m \in S |-> Cardinality(UpTo(S, m))]
<1>5. r \in Injection(S, 1 .. Cardinality(S))
  <2>1. r \in [S -> 1 .. Cardinality(S)]
    BY <1>2
  <2>2. \A m, n \in S : r[m] = r[n] => m = n
    BY <1>4
  <2> HIDE DEF r
  <2> QED
    BY <2>1, <2>2, Fun_IsInj
<1>6. IsFiniteSet(1 .. Cardinality(S)) /\ Cardinality(1 .. Cardinality(S)) = Cardinality(S)
  BY <1>1, FS_Interval
<1>7. r \in Surjection(S, 1 .. Cardinality(S))
  <2> HIDE DEF r
  <2> QED
    BY <1>5, <1>6, FS_Injection
<1>8. \A k \in 1 .. Cardinality(S) : \E m \in S : r[m] = k
  <2> HIDE DEF r
  <2> QED
    BY <1>7, Fun_SurjectionProperties
<1> QED
  BY <1>1, <1>2, <1>4, <1>8

-----------------------------------------------------------------------------
(* Sequences as orders of a set: what they hold, and that they hold it once. *)
Once(s) == \A i, j \in DOMAIN s : s[i] = s[j] => i = j

LEMMA FunctionIsSequence ==
  ASSUME NEW T, NEW n \in Nat, NEW f \in [1 .. n -> T]
  PROVE  f \in Seq(T) /\ Len(f) = n /\ DOMAIN f = 1 .. n
<1>1. f \in Seq(T)
  BY SeqDef
<1>2. DOMAIN f = 1 .. n
  OBVIOUS
<1> QED
  BY <1>1, <1>2, LenProperties

LEMMA UpFromOne ==
  ASSUME NEW n \in Nat
  PROVE  IsFiniteSet(1 .. n) /\ Cardinality(1 .. n) = n
  BY FS_Interval

LEMMA HeldOnce ==
  ASSUME NEW T, NEW s \in Seq(T)
  PROVE  /\ IsFiniteSet(ToSet(s)) /\ ToSet(s) \subseteq T
         /\ Cardinality(ToSet(s)) = Len(s) <=> Once(s)
         /\ s # <<>> => ToSet(s) # {}
<1> DEFINE D == 1 .. Len(s)
           R == ToSet(s)
<1>0. DOMAIN s = D /\ Len(s) \in Nat /\ s = [i \in D |-> s[i]] /\ \A i \in D : s[i] \in T
  OBVIOUS
<1>1. /\ DOMAIN s = D /\ R \subseteq T /\ s \in [D -> R]
      /\ \A e \in R : \E i \in D : s[i] = e
      /\ s # <<>> => R # {}
  <2>1. R = {s[i] : i \in D}
    BY <1>0 DEF ToSet
  <2>2. s # <<>> => 1 \in D
    BY <1>0
  <2> HIDE DEF D, R
  <2> QED
    BY <1>0, <2>1, <2>2
<1>2. IsFiniteSet(D) /\ Cardinality(D) = Len(s)
  BY <1>0, UpFromOne
<1> HIDE DEF D, R
<1>3. s \in Surjection(D, R)
  BY <1>1, Fun_IsSurj
<1>4. IsFiniteSet(R) /\ (Cardinality(R) = Cardinality(D) <=> s \in Injection(D, R))
  BY <1>2, <1>3, FS_Surjection
<1>5. s \in Injection(D, R) <=> Once(s)
  <2>1. ASSUME s \in Injection(D, R) PROVE Once(s)
    BY <1>1, <2>1, Fun_InjectionProperties DEF Once
  <2>2. ASSUME Once(s) PROVE s \in Injection(D, R)
    <3>1. \A i, j \in D : s[i] = s[j] => i = j
      BY <1>1, <2>2 DEF Once
    <3> QED
      BY <1>1, <3>1, Fun_IsInj
  <2> QED
    BY <2>1, <2>2
<1> QED
  BY <1>1, <1>2, <1>4, <1>5 DEF R

LEMMA OrdersHoldOnce ==
  ASSUME NEW S, IsFiniteSet(S), NEW s \in SetToSeqs(S)
  PROVE  s \in Seq(S) /\ ToSet(s) = S /\ Len(s) = Cardinality(S)
<1> DEFINE n == Cardinality(S)
           D == 1 .. n
<1>1. n \in Nat
  BY FS_CardinalityType
<1>2. s \in [D -> S] /\ \A i, j \in D : i # j => s[i] # s[j]
  BY DEF SetToSeqs
<1>3. IsFiniteSet(D) /\ Cardinality(D) = n
  BY <1>1, UpFromOne
<1> HIDE DEF n
<1>4. s \in Seq(S) /\ Len(s) = n /\ DOMAIN s = D
  BY <1>1, <1>2, FunctionIsSequence
<1> HIDE DEF D
<1>5. s \in Injection(D, S)
  BY <1>2, Fun_IsInj
<1>6. s \in Surjection(D, S)
  BY <1>3, <1>5, FS_Injection DEF n
<1>7. ToSet(s) = S
  BY <1>2, <1>4, <1>6, Fun_SurjectionProperties DEF ToSet
<1> QED
  BY <1>4, <1>7 DEF n

LEMMA FilteredHoldsOnce ==
  ASSUME NEW T, NEW s \in Seq(T), NEW S
  PROVE  /\ Without(s, S) \in Seq(T)
         /\ ToSet(Without(s, S)) = ToSet(s) \ S
         /\ Once(s) => Once(Without(s, S))
<1> DEFINE stay   == {i \in DOMAIN s : s[i] \notin S}
           nth(k) == CHOOSE i \in stay : Cardinality({j \in stay : j <= i}) = k
           n == Cardinality(stay)
           f == [k \in 1 .. n |-> s[nth(k)]]
<1>1. Without(s, S) = f
  BY DEF Without
<1>2. stay \in SUBSET (1 .. Len(s)) /\ stay \in SUBSET Nat /\ DOMAIN s = 1 .. Len(s)
  OBVIOUS
<1>3. IsFiniteSet(stay)
  BY <1>2, FS_Interval, FS_Subset
<1>4. n \in Nat
  BY <1>3, FS_CardinalityType
<1>5. \A i \in stay : {j \in stay : j <= i} = UpTo(stay, i)
  BY DEF UpTo
<1> DEFINE rank(i) == Cardinality(UpTo(stay, i))
<1> HIDE DEF stay
<1>6. \A k \in 1 .. n : nth(k) \in stay /\ rank(nth(k)) = k
  <2> SUFFICES ASSUME NEW k \in 1 .. n PROVE nth(k) \in stay /\ rank(nth(k)) = k
    OBVIOUS
  <2>1. PICK i \in stay : rank(i) = k
    BY <1>2, <1>3, Ranks
  <2>2. Cardinality({j \in stay : j <= i}) = k
    BY <1>5, <2>1
  <2>3. nth(k) \in stay /\ Cardinality({j \in stay : j <= nth(k)}) = k
    BY <2>2
  <2> QED
    BY <1>5, <2>3
<1> HIDE DEF nth
<1>7. \A i \in stay : rank(i) \in 1 .. n /\ nth(rank(i)) = i
  <2> SUFFICES ASSUME NEW i \in stay PROVE rank(i) \in 1 .. n /\ nth(rank(i)) = i
    OBVIOUS
  <2>1. rank(i) \in 1 .. n
    BY <1>2, <1>3, Ranks
  <2>2. nth(rank(i)) \in stay /\ rank(nth(rank(i))) = rank(i)
    BY <1>6, <2>1
  <2>3. \A k \in stay : rank(k) = rank(i) => k = i
    BY <1>2, <1>3, Ranks
  <2> QED
    BY <2>1, <2>2, <2>3
<1> HIDE DEF rank, n
<1>8. /\ f \in [1 .. n -> T] /\ DOMAIN f = 1 .. n
      /\ \A k \in 1 .. n : f[k] = s[nth(k)] /\ nth(k) \in DOMAIN s /\ s[nth(k)] \notin S
  BY <1>6 DEF stay
<1> HIDE DEF f
<1>9. f \in Seq(T)
  BY <1>4, <1>8, FunctionIsSequence
<1>10. ToSet(f) = ToSet(s) \ S
  <2>1. \A i \in DOMAIN s : s[i] \notin S => \E k \in 1 .. n : f[k] = s[i]
    <3> SUFFICES ASSUME NEW i \in DOMAIN s, s[i] \notin S PROVE \E k \in 1 .. n : f[k] = s[i]
      OBVIOUS
    <3>1. i \in stay
      BY DEF stay
    <3>2. rank(i) \in 1 .. n /\ f[rank(i)] = s[i]
      BY <1>7, <1>8, <3>1
    <3> QED
      BY <3>2
  <2> QED
    BY <1>8, <2>1 DEF ToSet
<1>11. Once(s) => Once(f)
  <2> SUFFICES ASSUME Once(s), NEW k \in 1 .. n, NEW l \in 1 .. n, f[k] = f[l] PROVE k = l
    BY <1>8 DEF Once
  <2>1. nth(k) = nth(l)
    BY <1>8 DEF Once
  <2> QED
    BY <1>6, <2>1
<1> QED
  BY <1>1, <1>9, <1>10, <1>11

LEMMA JoinedHold ==
  ASSUME NEW T, NEW s \in Seq(T), NEW t \in Seq(T)
  PROVE  s \o t \in Seq(T) /\ ToSet(s \o t) = ToSet(s) \cup ToSet(t)
         /\ Len(s \o t) = Len(s) + Len(t)
<1>1. /\ s \o t \in Seq(T) /\ Len(s \o t) = Len(s) + Len(t)
      /\ Len(s) \in Nat /\ Len(t) \in Nat
      /\ \A i \in 1 .. Len(s) + Len(t) :
           (s \o t)[i] = IF i <= Len(s) THEN s[i] ELSE t[i - Len(s)]
  OBVIOUS
<1>2. \A i \in 1 .. Len(s) : i \in 1 .. Len(s) + Len(t) /\ (s \o t)[i] = s[i]
  BY <1>1
<1>3. \A i \in 1 .. Len(t) : /\ i + Len(s) \in 1 .. Len(s) + Len(t)
                             /\ (s \o t)[i + Len(s)] = t[i]
  BY <1>1
<1>4. \A i \in 1 .. Len(s) + Len(t) : \/ i \in 1 .. Len(s) /\ (s \o t)[i] = s[i]
                                      \/ i - Len(s) \in 1 .. Len(t) /\ (s \o t)[i] = t[i - Len(s)]
  BY <1>1
<1>5. DOMAIN s = 1 .. Len(s) /\ DOMAIN t = 1 .. Len(t) /\ DOMAIN (s \o t) = 1 .. Len(s) + Len(t)
  BY <1>1
<1> QED
  BY <1>1, <1>2, <1>3, <1>4, <1>5 DEF ToSet

LEMMA PartHolds ==
  ASSUME NEW T, NEW s \in Seq(T), NEW a \in 1 .. Len(s) + 1, NEW b \in 0 .. Len(s), a <= b + 1
  PROVE  /\ SubSeq(s, a, b) \in Seq(T) /\ Len(SubSeq(s, a, b)) = b - a + 1
         /\ ToSet(SubSeq(s, a, b)) = {s[k] : k \in a .. b}
<1> DEFINE u == SubSeq(s, a, b)
<1>1. \A k \in a .. b : k \in 1 .. Len(s) /\ s[k] \in T
  OBVIOUS
<1>2. u \in Seq(T) /\ Len(u) = b - a + 1 /\ \A k \in 1 .. b - a + 1 : u[k] = s[a + k - 1]
  BY <1>1, SubSeqProperties
<1>3. DOMAIN u = 1 .. b - a + 1
  BY <1>2
<1> HIDE DEF u
<1>4. \A k \in a .. b : k - a + 1 \in 1 .. b - a + 1 /\ a + (k - a + 1) - 1 = k
  OBVIOUS
<1>5. \A k \in a .. b : k - a + 1 \in 1 .. b - a + 1 /\ u[k - a + 1] = s[k]
  BY <1>2, <1>4
<1>6. \A k \in 1 .. b - a + 1 : a + k - 1 \in a .. b
  OBVIOUS
<1>7. ToSet(u) = {u[k] : k \in 1 .. b - a + 1}
  BY <1>3 DEF ToSet
<1>8. {u[k] : k \in 1 .. b - a + 1} = {s[k] : k \in a .. b}
  <2>1. ASSUME NEW k \in 1 .. b - a + 1 PROVE u[k] \in {s[j] : j \in a .. b}
    BY <1>2, <1>6
  <2>2. ASSUME NEW k \in a .. b PROVE s[k] \in {u[j] : j \in 1 .. b - a + 1}
    BY <1>5
  <2> QED
    BY <2>1, <2>2
<1> QED
  BY <1>2, <1>7, <1>8 DEF u

LEMMA TakenOutHolds ==
  ASSUME NEW T, NEW s \in Seq(T), NEW d \in DOMAIN s
  PROVE  /\ RemoveAt(s, d) \in Seq(T) /\ Len(RemoveAt(s, d)) = Len(s) - 1
         /\ ToSet(s) = ToSet(RemoveAt(s, d)) \cup {s[d]}
<1>1. d \in 1 .. Len(s) /\ Len(s) \in Nat /\ DOMAIN s = 1 .. Len(s)
  OBVIOUS
<1>0. /\ 1 \in 1 .. Len(s) + 1 /\ d - 1 \in 0 .. Len(s) /\ 1 <= (d - 1) + 1
      /\ d + 1 \in 1 .. Len(s) + 1 /\ Len(s) \in 0 .. Len(s) /\ d + 1 <= Len(s) + 1
      /\ (d - 1) - 1 + 1 = d - 1 /\ Len(s) - (d + 1) + 1 = Len(s) - d
      /\ (d - 1) + (Len(s) - d) = Len(s) - 1
  BY <1>1
<1> DEFINE h == SubSeq(s, 1, d - 1)
           t == SubSeq(s, d + 1, Len(s))
<1>2. h \in Seq(T) /\ Len(h) = d - 1 /\ ToSet(h) = {s[k] : k \in 1 .. d - 1}
  BY <1>0, PartHolds
<1>3. t \in Seq(T) /\ Len(t) = Len(s) - d /\ ToSet(t) = {s[k] : k \in d + 1 .. Len(s)}
  BY <1>0, PartHolds
<1> HIDE DEF h, t
<1>4. ToSet(h \o t) = ToSet(h) \cup ToSet(t) /\ h \o t \in Seq(T) /\ Len(h \o t) = Len(s) - 1
  <2>1. /\ ToSet(h \o t) = ToSet(h) \cup ToSet(t) /\ h \o t \in Seq(T)
        /\ Len(h \o t) = Len(h) + Len(t)
    BY <1>2, <1>3, JoinedHold
  <2> QED
    BY <1>0, <1>2, <1>3, <2>1
<1>5. \A k \in 1 .. Len(s) : k \in 1 .. d - 1 \/ k \in d + 1 .. Len(s) \/ k = d
  BY <1>1
<1>6. (1 .. d - 1) \cup (d + 1 .. Len(s)) \subseteq 1 .. Len(s)
  BY <1>1
<1>7. ToSet(s) = ToSet(h \o t) \cup {s[d]}
  BY <1>1, <1>2, <1>3, <1>4, <1>5, <1>6 DEF ToSet
<1> QED
  BY <1>4, <1>7 DEF RemoveAt, h, t

LEMMA PutInHolds ==
  ASSUME NEW T, NEW s \in Seq(T), NEW e \in T, NEW i \in 1 .. Len(s) + 1
  PROVE  /\ InsertAt(s, i, e) \in Seq(T) /\ Len(InsertAt(s, i, e)) = Len(s) + 1
         /\ ToSet(InsertAt(s, i, e)) = ToSet(s) \cup {e}
<1>1. Len(s) \in Nat /\ DOMAIN s = 1 .. Len(s)
  OBVIOUS
<1>0. /\ 1 \in 1 .. Len(s) + 1 /\ i - 1 \in 0 .. Len(s) /\ 1 <= (i - 1) + 1
      /\ Len(s) \in 0 .. Len(s) /\ i <= Len(s) + 1
      /\ (i - 1) - 1 + 1 = i - 1 /\ (i - 1) + 1 = i
      /\ i + (Len(s) - i + 1) = Len(s) + 1
  BY <1>1
<1> DEFINE h == SubSeq(s, 1, i - 1)
           t == SubSeq(s, i, Len(s))
<1>2. h \in Seq(T) /\ Len(h) = i - 1 /\ ToSet(h) = {s[k] : k \in 1 .. i - 1}
  BY <1>0, PartHolds
<1>3. t \in Seq(T) /\ Len(t) = Len(s) - i + 1 /\ ToSet(t) = {s[k] : k \in i .. Len(s)}
  BY <1>0, PartHolds
<1> HIDE DEF h, t
<1>4. <<e>> \in Seq(T) /\ Len(<<e>>) = 1 /\ ToSet(<<e>>) = {e}
  BY DEF ToSet
<1>5. /\ h \o <<e>> \in Seq(T) /\ Len(h \o <<e>>) = i /\ ToSet(h \o <<e>>) = ToSet(h) \cup {e}
  <2>1. /\ h \o <<e>> \in Seq(T) /\ Len(h \o <<e>>) = Len(h) + Len(<<e>>)
        /\ ToSet(h \o <<e>>) = ToSet(h) \cup ToSet(<<e>>)
    BY <1>2, <1>4, JoinedHold
  <2>2. Len(h) + Len(<<e>>) = i
    BY <1>0, <1>2, <1>4
  <2> QED
    BY <1>4, <2>1, <2>2
<1>6. /\ h \o <<e>> \o t \in Seq(T) /\ Len(h \o <<e>> \o t) = Len(s) + 1
      /\ ToSet(h \o <<e>> \o t) = ToSet(h) \cup {e} \cup ToSet(t)
  <2> DEFINE g == h \o <<e>>
  <2> HIDE DEF g
  <2>1. g \in Seq(T) /\ Len(g) = i /\ ToSet(g) = ToSet(h) \cup {e}
    BY <1>5 DEF g
  <2>2. g \o t \in Seq(T) /\ Len(g \o t) = Len(g) + Len(t) /\ ToSet(g \o t) = ToSet(g) \cup ToSet(t)
    BY <1>3, <2>1, JoinedHold
  <2>3. Len(g) + Len(t) = Len(s) + 1
    BY <1>0, <1>3, <2>1
  <2> QED
    BY <2>1, <2>2, <2>3 DEF g
<1>7. \A k \in 1 .. Len(s) : k \in 1 .. i - 1 \/ k \in i .. Len(s)
  BY <1>1
<1>8. (1 .. i - 1) \cup (i .. Len(s)) \subseteq 1 .. Len(s)
  BY <1>1
<1>9. ToSet(s) = ToSet(h) \cup ToSet(t)
  BY <1>1, <1>2, <1>3, <1>7, <1>8 DEF ToSet
<1> QED
  BY <1>6, <1>9 DEF InsertAt, h, t

-----------------------------------------------------------------------------
(***************************************************************************)
(* The chart of an agent's page.  As long as the latest fetch is pending,  *)
(* it is the last of those under way and is for what is selected; once it  *)
(* was shown, an answer that comes later leaves it overtaken.  All that    *)
(* may still come was asked for since nothing was under way (ChartRecent). *)
(***************************************************************************)
ChartAsked ==
  /\ spinning => fetches # <<>>
  /\ latest = "pending" => fetches # <<>> /\ fetches[Len(fetches)] = Selected
  /\ latest = "shown" => series.view \in {Selected, NoView}

ChartRecent ==
  /\ series.view \in recently \cup {NoView}
  /\ \A i \in DOMAIN fetches : fetches[i] \in recently

ChartLive ==
  series.live \subseteq {box} /\ (spell # NoSpell => series.live = {})

ChartInv == DetailChartTypeOK /\ ChartAsked /\ ChartRecent /\ ChartLive

LEMMA SelectedTyped == DetailChartTypeOK => Selected \in Views
  BY DetailChartAssumption DEF DetailChartTypeOK, Selected, Views

LEMMA BlankTyped ==
  \A v \in Views \cup {NoView} :
    [view |-> v, live |-> {}] \in [view : Views \cup {NoView}, live : SUBSET Boxes]
  OBVIOUS

LEMMA RoomForOne == 1 <= MaxAsks
  BY DetailChartAssumption

LEMMA ChartInvInit == DetailChartInit => ChartInv
<1> SUFFICES ASSUME DetailChartInit PROVE ChartInv
  OBVIOUS
<1> USE DetailChartAssumption DEF DetailChartInit
<1>1. Selected = [box |-> box, span |-> span] /\ [box |-> box, span |-> span] \in Views
  BY DEF Selected, Views
<1>2. fetches \in Seq(Views) /\ Len(fetches) = 1 /\ fetches[Len(fetches)] = Selected
  BY <1>1
<1>3. series \in [view : Views \cup {NoView}, live : SUBSET Boxes]
  BY BlankTyped DEF Blank
<1>4. DetailChartTypeOK
  BY <1>1, <1>2, <1>3, RoomForOne DEF DetailChartTypeOK
<1>5. ChartRecent /\ ChartLive
  BY <1>1 DEF ChartRecent, ChartLive, Blank
<1> QED
  BY <1>2, <1>4, <1>5 DEF ChartInv, ChartAsked

\* A fetch is for the selection of then.
LEMMA FetchKeeps ==
  ASSUME ChartInv, MayFetch, Fetch,
         box' \in Boxes, span' \in Spans, spell' \in Spells \cup {NoSpell}, picking' \in BOOLEAN
  PROVE  ChartInv'
<1>1. Selected' \in Views
  BY DetailChartAssumption DEF Selected, Views
<1>2. fetches \in Seq(Views) /\ Len(fetches) < MaxAsks
  BY DEF ChartInv, DetailChartTypeOK, MayFetch
<1>3. /\ fetches' \in Seq(Views) /\ fetches' # <<>> /\ fetches'[Len(fetches')] = Selected'
      /\ Len(fetches') = Len(fetches) + 1
  BY <1>1, <1>2, Appended DEF Fetch
<1>4. recently' = (IF fetches = <<>> THEN {} ELSE recently) \cup {Selected'}
  BY DEF Fetch
<1>5. recently' \subseteq Views
  BY <1>1, <1>4 DEF ChartInv, DetailChartTypeOK
<1>6. DetailChartTypeOK'
  BY <1>2, <1>3, <1>5, DetailChartAssumption DEF DetailChartTypeOK, Fetch, Blank
<1>7. ChartAsked'
  BY <1>3 DEF ChartAsked, Fetch
<1>8. ChartRecent' /\ ChartLive'
  <2>1. \A i \in DOMAIN fetches' : fetches'[i] \in recently'
    BY <1>1, <1>2, <1>4, AppendedIn DEF Fetch, ChartInv, ChartRecent
  <2> QED
    BY <2>1 DEF Fetch, Blank, ChartRecent, ChartLive
<1> QED
  BY <1>6, <1>7, <1>8 DEF ChartInv

LEMMA RevisitKeeps ==
  ASSUME ChartInv, NEW b \in Boxes, Revisit(b)
  PROVE  ChartInv'
<1>1. /\ box' = b /\ UNCHANGED span /\ spell' = NoSpell /\ picking' = FALSE
      /\ series' = Blank /\ spinning' = TRUE /\ latest' = "pending"
      /\ fetches' = <<Selected'>> /\ recently' = {Selected'}
  BY DEF Revisit
<1>2. Selected' \in Views
  BY <1>1 DEF Selected, Views, ChartInv, DetailChartTypeOK
<1>3. fetches' \in Seq(Views) /\ Len(fetches') = 1 /\ fetches'[Len(fetches')] = Selected'
  BY <1>1, <1>2
<1>4. series' \in [view : Views \cup {NoView}, live : SUBSET Boxes]
  BY <1>1, BlankTyped DEF Blank
<1>5. DetailChartTypeOK'
  BY <1>1, <1>2, <1>3, <1>4, RoomForOne DEF DetailChartTypeOK, ChartInv
<1>6. ChartRecent' /\ ChartLive'
  BY <1>1 DEF ChartRecent, ChartLive, Blank
<1> QED
  BY <1>1, <1>3, <1>5, <1>6 DEF ChartInv, ChartAsked

\* Whatever answer comes after the latest was shown leaves it overtaken.
LEMMA ChartAnsweredKeeps ==
  ASSUME ChartInv, NEW i \in DOMAIN fetches, NEW found \in BOOLEAN, Answered(i, found)
  PROVE  ChartInv'
<1>1. /\ series' = [view |-> IF found THEN fetches[i] ELSE NoView, live |-> {}]
      /\ spinning' = FALSE
      /\ fetches' = RemoveAt(fetches, i)
      /\ latest' = IF latest = "pending" THEN IF i = Len(fetches) THEN "shown" ELSE latest
                   ELSE "overtaken"
      /\ UNCHANGED <<box, span, spell, picking, recently, Selected>>
  BY DEF Answered, Selected
<1>2. fetches \in Seq(Views) /\ Len(fetches) <= MaxAsks
  BY DEF ChartInv, DetailChartTypeOK
<1>3. /\ fetches' \in Seq(Views) /\ Len(fetches') = Len(fetches) - 1
      /\ i # Len(fetches) => /\ fetches' # <<>>
                             /\ fetches'[Len(fetches')] = fetches[Len(fetches)]
      /\ \A k \in DOMAIN fetches' : \E j \in DOMAIN fetches : fetches'[k] = fetches[j]
  BY <1>1, <1>2, Removed
<1>4. fetches[i] \in Views /\ Len(fetches) \in Nat
  BY <1>2
<1>5. series' \in [view : Views \cup {NoView}, live : SUBSET Boxes]
  BY <1>1, <1>4, BlankTyped
<1>6. Len(fetches') <= MaxAsks
  BY <1>2, <1>3, <1>4, DetailChartAssumption
<1>7. DetailChartTypeOK'
  BY <1>1, <1>3, <1>5, <1>6 DEF DetailChartTypeOK, ChartInv
<1>8. ChartAsked'
  BY <1>1, <1>3 DEF ChartInv, ChartAsked
<1>9. ChartRecent' /\ ChartLive'
  BY <1>1, <1>3 DEF ChartInv, ChartRecent, ChartLive
<1> QED
  BY <1>7, <1>8, <1>9 DEF ChartInv

LEMMA ChartRests ==
  ASSUME ChartInv, UNCHANGED <<box, span, spell, spinning, fetches, latest, recently>>,
         picking' \in BOOLEAN, series'.view = series.view,
         series' \in [view : Views \cup {NoView}, live : SUBSET Boxes],
         series'.live = series.live \/ (spell = NoSpell /\ series'.live \subseteq series.live \cup {box})
  PROVE  ChartInv'
  BY DEF ChartInv, DetailChartTypeOK, ChartAsked, ChartRecent, ChartLive, Selected

LEMMA ChartStep == ChartInv /\ [DetailChartNext]_detailChartVars => ChartInv'
<1> SUFFICES ASSUME ChartInv, [DetailChartNext]_detailChartVars PROVE ChartInv'
  OBVIOUS
<1> USE DEF ChartInv, DetailChartTypeOK
<1>1. ASSUME NEW b \in Boxes, VisitBox(b) PROVE ChartInv'
  BY <1>1, FetchKeeps DEF VisitBox
<1>2. ASSUME NEW h \in Spans, HoursChange(h) PROVE ChartInv'
  <2>1. CASE span = h /\ spell = NoSpell
    BY <1>2, <2>1, ChartRests DEF HoursChange
  <2>2. CASE ~ (span = h /\ spell = NoSpell)
    BY <1>2, <2>2, FetchKeeps DEF HoursChange
  <2> QED
    BY <2>1, <2>2
<1>3. ASSUME NEW s \in Spells, ApplyCustom(s) PROVE ChartInv'
  BY <1>3, FetchKeeps DEF ApplyCustom
<1>4. ASSUME NEW s \in Spells, DragZoom(s) PROVE ChartInv'
  BY <1>4, FetchKeeps DEF DragZoom
<1>5. CASE ClearCustom
  BY <1>5, FetchKeeps DEF ClearCustom
<1>6. CASE TogglePicker
  BY <1>6, ChartRests DEF TogglePicker
<1>7. CASE LiveReading
  <2>1. /\ series' = [series EXCEPT !.live = @ \cup {box}]
        /\ UNCHANGED <<box, span, spell, picking, spinning, fetches, latest, recently>>
        /\ spell = NoSpell
    BY <1>7 DEF LiveReading
  <2> QED
    BY <2>1, ChartRests
<1>8. CASE UNCHANGED detailChartVars
  BY <1>8, ChartRests DEF detailChartVars
<1> QED
  BY <1>1, <1>2, <1>3, <1>4, <1>5, <1>6, <1>7, <1>8, RevisitKeeps, ChartAnsweredKeeps
     DEF DetailChartNext

LEMMA ChartSettles == ChartInv => SettledChartShowsSelection
  BY DEF ChartInv, DetailChartTypeOK, ChartAsked, ChartRecent, ChartLive,
         SettledChartShowsSelection

-----------------------------------------------------------------------------
(***************************************************************************)
(* The editors of an agent's page.  A note editor whose text was typed or  *)
(* read on another agent's page came here with an equal note.              *)
(***************************************************************************)
Kept    == [Hosted -> [note : Notes, nickname : Called]]
Drafts  == [editing : BOOLEAN, value : Notes \cup Called]
Puts    == [by : Editors, of : Hosted, value : Notes \cup Called,
            author : Hosted, twins : BOOLEAN, mounted : BOOLEAN]
TextsOf(e) == IF e = "nickname" THEN Called ELSE Notes

DraftsFit(ds) == ds \in [Editors -> Drafts] /\ \A e \in Editors : ds[e].value \in TextsOf(e)
PutFits(p)    == p \in Puts /\ p.value \in TextsOf(p.by)
OwnNote(p)    == p.author # p.of => p.by = "nickname" \/ p.twins

AuthorsFollow ==
  /\ author \in [Editors -> Hosted]
  /\ \A e \in {"inline", "expanded"} : author[e] # opened => twins

EditorsInv ==
  /\ opened \in Hosted /\ kept \in Kept /\ twins \in BOOLEAN
  /\ DraftsFit(drafts)
  /\ AuthorsFollow
  /\ \A p \in puts : PutFits(p) /\ OwnNote(p)

LEMMA EditorNames ==
  /\ {"inline", "expanded"} \subseteq Editors /\ "nickname" \in Editors
  /\ \A e \in Editors : e = "nickname" \/ e \in {"inline", "expanded"}
  BY DEF Editors

LEMMA DraftTyped ==
  ASSUME NEW k \in Kept, NEW a \in Hosted, NEW e \in Editors
  PROVE  /\ Draft(k, a, e) \in Drafts /\ Draft(k, a, e).value \in TextsOf(e)
         /\ k[a].note \in Notes
<1>1. k[a].note \in Notes /\ k[a].nickname \in Called
  BY DEF Kept
<1>2. ValueOf(k, a, e) \in TextsOf(e) /\ TextsOf(e) \subseteq Notes \cup Called
  BY <1>1 DEF ValueOf, Field, TextsOf
<1> QED
  BY <1>1, <1>2 DEF Draft, Drafts

\* A copy of a request whose editor has gone is as good as the request.
LEMMA CopyFits ==
  ASSUME NEW p, PutFits(p), OwnNote(p)
  PROVE  PutFits([p EXCEPT !.mounted = FALSE]) /\ OwnNote([p EXCEPT !.mounted = FALSE])
  BY DEF PutFits, OwnNote, Puts

LEMMA UnmountedFit ==
  ASSUME EditorsInv, NEW by, NEW q \in puts \cup Unmounted(by)
  PROVE  PutFits(q) /\ OwnNote(q)
<1>1. CASE q \in puts
  BY <1>1 DEF EditorsInv
<1>2. CASE q \in Unmounted(by)
  <2>1. PICK p \in puts : q = p \/ q = [p EXCEPT !.mounted = FALSE]
    BY <1>2 DEF Unmounted
  <2>2. PutFits(p) /\ OwnNote(p)
    BY DEF EditorsInv
  <2> QED
    BY <2>1, <2>2, CopyFits
<1> QED
  BY <1>1, <1>2

LEMMA ValueSet ==
  ASSUME NEW ds, DraftsFit(ds), NEW e \in Editors, NEW t \in TextsOf(e)
  PROVE  /\ [ds[e] EXCEPT !.value = t] \in Drafts
         /\ [ds[e] EXCEPT !.value = t].value = t
  BY DEF DraftsFit, Drafts, TextsOf

\* The effects on the note give the note editors of now the note of now.
LEMMA SyncedFits ==
  ASSUME EditorsInv, NEW k \in Kept, NEW a \in Hosted, Synced(k, a)
  PROVE  /\ DraftsFit(drafts')
         /\ author' \in [Editors -> Hosted]
         /\ k[a].note = kept[opened].note => author' = author
         /\ k[a].note # kept[opened].note =>
              \A e \in {"inline", "expanded"} : author'[e] = a
<1> DEFINE old == kept[opened].note
           new == k[a].note
           Set == IF new # old THEN {"inline", "expanded"} ELSE {}
           Anew == IF (old \in Brief) # (new \in Brief) THEN {"expanded"} ELSE {}
<1>1. /\ drafts' = [e \in Editors |-> CASE e \in Anew -> Draft(k, a, e)
                                        [] e \in Set \ Anew -> [drafts[e] EXCEPT !.value = new]
                                        [] OTHER -> drafts[e]]
      /\ author' = [e \in Editors |-> IF e \in Set THEN a ELSE author[e]]
  BY DEF Synced
<1>2. /\ Set \subseteq {"inline", "expanded"} /\ new \in Notes
      /\ new = old => Set = {}
      /\ new # old => Set = {"inline", "expanded"}
  BY DraftTyped, EditorNames
<1> HIDE DEF Set, Anew, new, old
<1>3. ASSUME NEW e \in Editors
      PROVE  drafts'[e] \in Drafts /\ drafts'[e].value \in TextsOf(e)
  <2>1. drafts[e] \in Drafts /\ drafts[e].value \in TextsOf(e)
    BY DEF EditorsInv, DraftsFit
  <2>2. CASE e \in Anew
    BY <1>1, <2>2, DraftTyped
  <2>3. CASE e \in Set \ Anew
    <3>1. new \in TextsOf(e)
      BY <1>2, <2>3 DEF TextsOf
    <3> QED
      BY <1>1, <2>3, <3>1, ValueSet DEF EditorsInv
  <2>4. CASE e \notin Anew \cup Set
    BY <1>1, <2>1, <2>4
  <2> QED
    BY <2>2, <2>3, <2>4
<1>4. DraftsFit(drafts')
  BY <1>1, <1>3 DEF DraftsFit
<1>5. author' \in [Editors -> Hosted]
  BY <1>1 DEF EditorsInv, AuthorsFollow
<1>6. /\ new = old => author' = author
      /\ new # old => \A e \in {"inline", "expanded"} : author'[e] = a
  BY <1>1, <1>2, EditorNames DEF EditorsInv, AuthorsFollow
<1> QED
  BY <1>4, <1>5, <1>6 DEF new, old

LEMMA EditorsInvInit == EditorsInit => EditorsInv
<1> SUFFICES ASSUME EditorsInit PROVE EditorsInv
  OBVIOUS
<1>1. opened \in Hosted /\ kept \in Kept /\ twins \in BOOLEAN /\ puts = {}
  BY DEF EditorsInit, Kept
<1>2. DraftsFit(drafts)
  BY <1>1, DraftTyped DEF EditorsInit, DraftsFit
<1>3. AuthorsFollow
  BY <1>1, EditorNames DEF EditorsInit, AuthorsFollow
<1> QED
  BY <1>1, <1>2, <1>3 DEF EditorsInv

LEMMA VisitAgentKeeps ==
  ASSUME EditorsInv, NEW a \in Hosted, VisitAgent(a)
  PROVE  EditorsInv'
<1>1. /\ opened' = a /\ Synced(kept, a) /\ kept' = kept
      /\ twins' = (kept[a].note = kept[opened].note)
  BY DEF VisitAgent
<1>2. \A p \in puts' : PutFits(p) /\ OwnNote(p)
  BY UnmountedFit DEF VisitAgent
<1>3. kept \in Kept
  BY DEF EditorsInv
<1>4. /\ DraftsFit(drafts') /\ author' \in [Editors -> Hosted]
      /\ kept[a].note # kept[opened].note =>
           \A e \in {"inline", "expanded"} : author'[e] = a
  BY <1>1, <1>3, SyncedFits
<1>5. AuthorsFollow'
  BY <1>1, <1>4 DEF AuthorsFollow
<1> QED
  BY <1>1, <1>2, <1>3, <1>4, <1>5 DEF EditorsInv

LEMMA LeaveAndVisitKeeps ==
  ASSUME EditorsInv, NEW a \in Hosted, LeaveAndVisit(a)
  PROVE  EditorsInv'
<1>1. /\ opened' = a /\ UNCHANGED kept /\ twins' = FALSE
      /\ drafts' = [e \in Editors |-> Draft(kept, a, e)]
      /\ author' = [e \in Editors |-> a]
  BY DEF LeaveAndVisit
<1>2. \A p \in puts' : PutFits(p) /\ OwnNote(p)
  BY UnmountedFit DEF LeaveAndVisit
<1>3. kept \in Kept
  BY DEF EditorsInv
<1>4. DraftsFit(drafts')
  BY <1>1, <1>3, DraftTyped DEF DraftsFit
<1>5. AuthorsFollow'
  BY <1>1, EditorNames DEF AuthorsFollow
<1> QED
  BY <1>1, <1>2, <1>3, <1>4, <1>5 DEF EditorsInv

\* A field that is opened, typed into or reset on the page of its agent.
LEMMA FieldKeeps ==
  ASSUME EditorsInv, NEW e \in Editors, NEW d \in Drafts, d.value \in TextsOf(e),
         drafts' = [drafts EXCEPT ![e] = d],
         author' = [author EXCEPT ![e] = opened] \/ author' = author,
         UNCHANGED <<opened, kept, twins, puts>>
  PROVE  EditorsInv'
<1>1. DraftsFit(drafts')
  BY DEF EditorsInv, DraftsFit
<1>2. AuthorsFollow'
  BY EditorNames DEF EditorsInv, AuthorsFollow
<1> QED
  BY <1>1, <1>2 DEF EditorsInv

LEMMA OpenedDraft ==
  ASSUME NEW d \in Drafts, NEW b \in BOOLEAN
  PROVE  [d EXCEPT !.editing = b] \in Drafts /\ [d EXCEPT !.editing = b].value = d.value
  BY DEF Drafts

LEMMA EditorFieldsKeep ==
  ASSUME EditorsInv, NEW e \in Editors,
         \/ StartEdit(e) \/ CancelEdit(e)
         \/ \E t \in TextsOf(e) : TypeText(e, t)
  PROVE  EditorsInv'
<1>1. /\ drafts[e] \in Drafts /\ drafts[e].value \in TextsOf(e)
      /\ Draft(kept, opened, e) \in Drafts /\ Draft(kept, opened, e).value \in TextsOf(e)
  BY DraftTyped DEF EditorsInv, DraftsFit
<1>2. drafts \in [Editors -> Drafts]
  BY DEF EditorsInv, DraftsFit
<1>3. CASE StartEdit(e)
  <2>1. CASE e = "nickname"
    <3>1. [Draft(kept, opened, e) EXCEPT !.editing = TRUE] \in Drafts
      BY <1>1, OpenedDraft
    <3>2. [Draft(kept, opened, e) EXCEPT !.editing = TRUE].value \in TextsOf(e)
      BY <1>1, OpenedDraft
    <3> QED
      BY <1>3, <2>1, <3>1, <3>2, FieldKeeps DEF StartEdit
  <2>2. CASE e # "nickname"
    <3>1. drafts' = [drafts EXCEPT ![e] = [drafts[e] EXCEPT !.editing = TRUE]]
      BY <1>2, <1>3, <2>2 DEF StartEdit
    <3>2. [drafts[e] EXCEPT !.editing = TRUE] \in Drafts
      BY <1>1, OpenedDraft
    <3>3. [drafts[e] EXCEPT !.editing = TRUE].value \in TextsOf(e)
      BY <1>1, OpenedDraft
    <3> QED
      BY <1>3, <2>2, <3>1, <3>2, <3>3, FieldKeeps DEF StartEdit
  <2> QED
    BY <2>1, <2>2
<1>4. CASE CancelEdit(e)
  <2>1. CASE e # "inline"
    BY <1>1, <1>4, <2>1, FieldKeeps DEF CancelEdit
  <2>2. CASE e = "inline"
    <3>1. drafts' = [drafts EXCEPT ![e] = [drafts[e] EXCEPT !.editing = FALSE]]
      BY <1>2, <1>4, <2>2 DEF CancelEdit
    <3>2. [drafts[e] EXCEPT !.editing = FALSE] \in Drafts
      BY <1>1, OpenedDraft
    <3>3. [drafts[e] EXCEPT !.editing = FALSE].value \in TextsOf(e)
      BY <1>1, OpenedDraft
    <3> QED
      BY <1>4, <2>2, <3>1, <3>2, <3>3, FieldKeeps DEF CancelEdit
  <2> QED
    BY <2>1, <2>2
<1>5. ASSUME NEW t \in TextsOf(e), TypeText(e, t) PROVE EditorsInv'
  <2>1. drafts' = [drafts EXCEPT ![e] = [drafts[e] EXCEPT !.value = t]]
    BY <1>2, <1>5 DEF TypeText
  <2>2. [drafts[e] EXCEPT !.value = t] \in Drafts
    BY ValueSet DEF EditorsInv
  <2>3. [drafts[e] EXCEPT !.value = t].value \in TextsOf(e)
    BY <1>1, ValueSet DEF EditorsInv
  <2> QED
    BY <1>5, <2>1, <2>2, <2>3, FieldKeeps DEF TypeText
<1> QED
  BY <1>3, <1>4, <1>5

\* A note is saved from an editor that is shown, with the author it has then.
LEMMA SaveKeeps ==
  ASSUME EditorsInv, NEW e \in Editors, Save(e)
  PROVE  EditorsInv'
<1> DEFINE p == [by |-> e, of |-> opened, value |-> drafts[e].value,
                 author |-> author[e], twins |-> twins, mounted |-> TRUE]
<1>1. puts' = puts \cup {p} /\ UNCHANGED <<opened, kept, drafts, author, twins>>
  BY DEF Save
<1>2. /\ drafts[e].value \in TextsOf(e) /\ TextsOf(e) \subseteq Notes \cup Called
      /\ author[e] \in Hosted /\ opened \in Hosted /\ twins \in BOOLEAN
  BY DEF EditorsInv, DraftsFit, AuthorsFollow, TextsOf
<1>3. PutFits(p)
  BY <1>2 DEF PutFits, Puts
<1>4. OwnNote(p)
  BY EditorNames DEF OwnNote, EditorsInv, AuthorsFollow
<1> HIDE DEF p
<1> QED
  BY <1>1, <1>3, <1>4 DEF EditorsInv, AuthorsFollow

\* The answer of a save closes editors, and sets the note editors like a poll.
LEMMA PutSavedKeeps ==
  ASSUME EditorsInv, NEW p \in puts, PutSaved(p)
  PROVE  EditorsInv'
<1> DEFINE k == [kept EXCEPT ![p.of][Field(p.by)] = p.value]
           new == k[opened].note
           Anew == IF (kept[opened].note \in Brief) # (new \in Brief) THEN {"expanded"} ELSE {}
           Set == IF new # kept[opened].note THEN {"inline", "expanded"} ELSE {}
           Close(e, f) == IF e = p.by /\ p.mounted THEN [f EXCEPT !.editing = FALSE] ELSE f
           Text(e) == IF e \in Set THEN [drafts[e] EXCEPT !.value = new] ELSE drafts[e]
<1>1. /\ kept' = k
      /\ drafts' = [e \in Editors |-> IF e \in Anew THEN Draft(k, opened, e)
                                      ELSE Close(e, Text(e))]
      /\ author' = [e \in Editors |-> IF e \in Set THEN opened ELSE author[e]]
      /\ UNCHANGED <<opened, twins>>
  BY DEF PutSaved
<1>2. puts' \subseteq puts \cup Unmounted(Anew)
  BY DEF PutSaved
<1>3. PutFits(p) /\ kept \in Kept /\ opened \in Hosted
  BY DEF EditorsInv
<1>4. k \in Kept
  <2>1. p.of \in Hosted /\ p.by \in Editors /\ p.value \in TextsOf(p.by)
    BY <1>3 DEF PutFits, Puts
  <2>2. CASE p.by = "nickname"
    BY <1>3, <2>1, <2>2 DEF Kept, Field, TextsOf
  <2>3. CASE p.by # "nickname"
    BY <1>3, <2>1, <2>3 DEF Kept, Field, TextsOf
  <2> QED
    BY <2>2, <2>3
<1>5. new \in Notes /\ Set \subseteq {"inline", "expanded"}
  BY <1>3, <1>4, DraftTyped, EditorNames
<1> HIDE DEF k, Set, Anew
<1>6. ASSUME NEW e \in Editors
      PROVE  drafts'[e] \in Drafts /\ drafts'[e].value \in TextsOf(e)
  <2>1. drafts[e] \in Drafts /\ drafts[e].value \in TextsOf(e)
    BY DEF EditorsInv, DraftsFit
  <2>2. CASE e \in Anew
    BY <1>1, <1>3, <1>4, <2>2, DraftTyped
  <2>3. CASE e \notin Anew
    <3>1. Text(e) \in Drafts /\ Text(e).value \in TextsOf(e)
      <4>1. CASE e \in Set
        <5>1. new \in TextsOf(e)
          BY <1>5, <4>1 DEF TextsOf
        <5> QED
          BY <4>1, <5>1, ValueSet DEF EditorsInv
      <4> QED
        BY <2>1, <4>1
    <3> HIDE DEF Text
    <3>2. Close(e, Text(e)) \in Drafts /\ Close(e, Text(e)).value = Text(e).value
      BY <3>1, OpenedDraft
    <3> HIDE DEF Close
    <3> QED
      BY <1>1, <2>3, <3>1, <3>2
  <2> QED
    BY <2>2, <2>3
<1>7. DraftsFit(drafts')
  BY <1>1, <1>6 DEF DraftsFit
<1>8. AuthorsFollow'
  BY <1>1, <1>3, EditorNames DEF EditorsInv, AuthorsFollow
<1>9. \A q \in puts' : PutFits(q) /\ OwnNote(q)
  BY <1>2, UnmountedFit
<1> QED
  BY <1>1, <1>3, <1>4, <1>7, <1>8, <1>9 DEF EditorsInv

LEMMA ListChangesKeeps ==
  ASSUME EditorsInv, NEW a \in Hosted, NEW n \in Notes, ListChanges(a, n)
  PROVE  EditorsInv'
<1> DEFINE k == [kept EXCEPT ![a].note = n]
<1>1. kept' = k /\ Synced(k, opened) /\ UNCHANGED <<opened, twins>>
  BY DEF ListChanges
<1>2. kept \in Kept /\ opened \in Hosted
  BY DEF EditorsInv
<1>3. k \in Kept
  BY <1>2 DEF Kept
<1>4. \A p \in puts' : PutFits(p) /\ OwnNote(p)
  BY UnmountedFit DEF ListChanges
<1> HIDE DEF k
<1>5. /\ DraftsFit(drafts') /\ author' \in [Editors -> Hosted]
      /\ author' = author \/ \A e \in {"inline", "expanded"} : author'[e] = opened
  BY <1>1, <1>2, <1>3, SyncedFits
<1>6. AuthorsFollow'
  BY <1>1, <1>5 DEF EditorsInv, AuthorsFollow
<1> QED
  BY <1>1, <1>2, <1>3, <1>4, <1>5, <1>6 DEF EditorsInv

LEMMA EditorsStep == EditorsInv /\ [EditorsNext]_editorVars => EditorsInv'
<1> SUFFICES ASSUME EditorsInv, [EditorsNext]_editorVars PROVE EditorsInv'
  OBVIOUS
<1>1. CASE UNCHANGED editorVars
  BY <1>1 DEF editorVars, EditorsInv, AuthorsFollow
<1>2. ASSUME NEW t \in Called, TypeText("nickname", t) PROVE EditorsInv'
  BY <1>2, EditorFieldsKeep, EditorNames DEF TextsOf
<1>3. ASSUME NEW e \in {"inline", "expanded"}, NEW t \in Notes, TypeText(e, t)
      PROVE  EditorsInv'
  <2>1. e \in Editors /\ t \in TextsOf(e)
    BY EditorNames DEF TextsOf
  <2> QED
    BY <1>3, <2>1, EditorFieldsKeep
<1>4. ASSUME NEW p \in puts, PutFails(p) PROVE EditorsInv'
  BY <1>4 DEF PutFails, EditorsInv, AuthorsFollow
<1> QED
  BY <1>1, <1>2, <1>3, <1>4, VisitAgentKeeps, LeaveAndVisitKeeps, EditorFieldsKeep, SaveKeeps,
     PutSavedKeeps, ListChangesKeeps DEF EditorsNext

LEMMA EditorsReach == EditorsInv => NotesReachTheirAgent
  BY DEF EditorsInv, NotesReachTheirAgent, OwnNote

-----------------------------------------------------------------------------
(***************************************************************************)
(* The recent events.  A pending newest request is the last of those under *)
(* way and is for the search and status of now; and when none is under way *)
(* the page number is that of the rows, unless a request failed.  All that *)
(* may still come was asked for since nothing was under way.               *)
(***************************************************************************)
EventsQueried ==
  /\ \A i \in DOMAIN asked : ListOf(asked[i]) \in queried
  /\ asked = <<>> /\ ~askFailed => ListOf(gotEvents) \in queried

EventsAsked ==
  /\ loadingEvents => asked # <<>>
  /\ asked = <<>> /\ ~askFailed => gotEvents.page = onPage
  /\ newest = "pending" => /\ asked # <<>>
                           /\ asked[Len(asked)].query = search
                           /\ asked[Len(asked)].status = standing
  /\ newest = "shown" => gotEvents.query = search /\ gotEvents.status = standing

EventsInv == EventsTypeOK /\ EventsAsked /\ EventsQueried

LEMMA RoomForOneRequest ==
  1 <= MaxQueried /\ 1 \in 1 .. LastEventPage /\ 0 \in 0 .. LastEventPage
  BY EventHistoryAssumption

LEMMA PickedTyped == EventsTypeOK => Picked \in Selections
  BY DEF EventsTypeOK, Picked, Selections

LEMMA ListOfTyped == \A sel \in Selections : ListOf(sel) \in Lists
  BY DEF ListOf, Lists, Selections

LEMMA QueriedTyped ==
  ASSUME queried \subseteq Lists, NEW rest, NEW sel \in Selections
  PROVE  Queried(rest, sel) \subseteq Lists
  BY ListOfTyped DEF Queried

\* A request is added to those under way.
LEMMA QueriedHolds ==
  ASSUME NEW rest \in Seq(Selections), NEW sel \in Selections,
         \A i \in DOMAIN rest : ListOf(rest[i]) \in queried
  PROVE  \A i \in DOMAIN Append(rest, sel) : ListOf(Append(rest, sel)[i]) \in Queried(rest, sel)
<1> SUFFICES ASSUME NEW i \in DOMAIN Append(rest, sel), i # Len(rest) + 1
             PROVE  ListOf(Append(rest, sel)[i]) \in Queried(rest, sel)
  BY DEF Queried
<1>1. i \in DOMAIN rest /\ Append(rest, sel)[i] = rest[i] /\ rest # <<>>
  OBVIOUS
<1> QED
  BY <1>1 DEF Queried

LEMMA EventsInvInit ==
  ASSUME EventsInit
  PROVE  EventsInv
<1> DEFINE sel == [page |-> onPage, query |-> search, status |-> standing]
<1>1. standing \in Standings /\ search \in Queries /\ onPage \in 1 .. LastEventPage
  BY RoomForOneRequest, EventHistoryAssumption DEF EventsInit
<1>2. sel \in Selections
  BY <1>1 DEF Selections
<1>3. asked = <<sel>> /\ sel.query = search /\ sel.status = standing
  BY DEF EventsInit
<1> HIDE DEF sel
<1>4. asked \in Seq(Selections) /\ Len(asked) = 1 /\ asked # <<>> /\ asked[Len(asked)] = sel
  BY <1>2, <1>3
<1>5. Len(asked) <= MaxQueried
  BY <1>4, RoomForOneRequest
<1>6. EventsTypeOK
  <2>1. /\ typing \in Queries /\ debouncing \in BOOLEAN /\ loadingEvents \in BOOLEAN
        /\ gotEvents = NoneGot /\ newest = "pending" /\ askFailed = FALSE /\ resending = {}
        /\ pageCount = 0
    BY EventHistoryAssumption DEF EventsInit
  <2>2. pageCount \in 0 .. LastEventPage
    BY <2>1, RoomForOneRequest
  <2>3. queried \subseteq Lists
    BY <1>1 DEF EventsInit, Lists
  <2> QED
    BY <1>1, <1>4, <1>5, <2>1, <2>2, <2>3 DEF EventsTypeOK
<1>7. EventsAsked
  BY <1>3, <1>4 DEF EventsInit, EventsAsked
<1>8. EventsQueried
  <2>1. queried = {ListOf(sel)}
    BY <1>3 DEF EventsInit, ListOf
  <2>2. \A i \in DOMAIN asked : asked[i] = sel
    BY <1>3
  <2> QED
    BY <1>4, <2>1, <2>2 DEF EventsQueried
<1> QED
  BY <1>6, <1>7, <1>8 DEF EventsInv

LEMMA AppendedRequest ==
  ASSUME EventsTypeOK, MayAsk, NEW sel \in Selections
  PROVE  /\ Append(asked, sel) \in Seq(Selections) /\ Append(asked, sel) # <<>>
         /\ Append(asked, sel)[Len(Append(asked, sel))] = sel
         /\ Len(Append(asked, sel)) <= MaxQueried
<1>1. asked \in Seq(Selections) /\ Len(asked) < MaxQueried
  BY DEF EventsTypeOK, MayAsk
<1>2. Len(Append(asked, sel)) = Len(asked) + 1 /\ Len(asked) \in Nat
  BY <1>1, Appended
<1>3. Len(Append(asked, sel)) <= MaxQueried
  BY <1>1, <1>2, EventHistoryAssumption
<1> QED
  BY <1>1, <1>3, Appended

\* The controls change the selection, and ask if it is another one.
LEMMA ControlKeeps ==
  ASSUME EventsInv, MayAsk, AskIfChanged,
         typing' \in Queries, search' \in Queries, debouncing' \in BOOLEAN,
         standing' \in Standings, onPage' \in 1 .. LastEventPage,
         UNCHANGED <<gotEvents, pageCount, askFailed, resending>>
  PROVE  EventsInv'
<1>1. Picked' \in Selections
  BY DEF Picked, Selections
<1>2. CASE Picked' # Picked
  <2>1. /\ loadingEvents' = TRUE /\ asked' = Append(asked, Picked') /\ newest' = "pending"
        /\ queried' = Queried(asked, Picked')
    BY <1>2 DEF AskIfChanged, AskEvents
  <2>2. /\ asked' \in Seq(Selections) /\ asked' # <<>> /\ asked'[Len(asked')] = Picked'
        /\ Len(asked') <= MaxQueried
    BY <1>1, <2>1, AppendedRequest DEF EventsInv
  <2>3. queried' \subseteq Lists
    BY <1>1, <2>1, QueriedTyped DEF EventsInv, EventsTypeOK
  <2>4. EventsTypeOK'
    BY <2>1, <2>2, <2>3 DEF EventsInv, EventsTypeOK
  <2>5. EventsAsked'
    BY <2>1, <2>2 DEF EventsAsked, Picked
  <2>6. EventsQueried'
    <3>1. \A i \in DOMAIN asked' : ListOf(asked'[i]) \in queried'
      BY <1>1, <2>1, QueriedHolds DEF EventsInv, EventsTypeOK, EventsQueried
    <3> QED
      BY <2>2, <3>1 DEF EventsQueried
  <2> QED
    BY <2>4, <2>5, <2>6 DEF EventsInv
<1>3. CASE Picked' = Picked
  <2>1. UNCHANGED <<loadingEvents, asked, newest, queried>>
    BY <1>3 DEF AskIfChanged
  <2>2. UNCHANGED <<onPage, search, standing>>
    BY <1>3 DEF Picked
  <2>3. EventsTypeOK'
    BY <2>1 DEF EventsInv, EventsTypeOK
  <2>4. EventsAsked'
    BY <2>1, <2>2 DEF EventsInv, EventsAsked
  <2>5. EventsQueried'
    BY <2>1 DEF EventsInv, EventsQueried
  <2> QED
    BY <2>3, <2>4, <2>5 DEF EventsInv
<1> QED
  BY <1>2, <1>3

LEMMA RequestGone ==
  ASSUME EventsTypeOK, NEW i \in DOMAIN asked
  PROVE  /\ RemoveAt(asked, i) \in Seq(Selections) /\ asked[i] \in Selections
         /\ Len(RemoveAt(asked, i)) < MaxQueried /\ Len(RemoveAt(asked, i)) \in Nat
         /\ i # Len(asked) =>
              /\ RemoveAt(asked, i) # <<>>
              /\ RemoveAt(asked, i)[Len(RemoveAt(asked, i))] = asked[Len(asked)]
         /\ \A k \in DOMAIN RemoveAt(asked, i) :
              \E j \in DOMAIN asked : RemoveAt(asked, i)[k] = asked[j]
<1>1. asked \in Seq(Selections) /\ Len(asked) <= MaxQueried /\ Len(asked) \in Nat
  BY DEF EventsTypeOK
<1>2. /\ RemoveAt(asked, i) \in Seq(Selections)
      /\ Len(RemoveAt(asked, i)) = Len(asked) - 1
      /\ i # Len(asked) =>
           /\ RemoveAt(asked, i) # <<>>
           /\ RemoveAt(asked, i)[Len(RemoveAt(asked, i))] = asked[Len(asked)]
      /\ \A k \in DOMAIN RemoveAt(asked, i) :
           \E j \in DOMAIN asked : RemoveAt(asked, i)[k] = asked[j]
  BY <1>1, Removed
<1>3. asked[i] \in Selections /\ Len(RemoveAt(asked, i)) \in Nat
  BY <1>1, <1>2
<1>4. Len(RemoveAt(asked, i)) < MaxQueried
  BY <1>1, <1>2, EventHistoryAssumption
<1> QED
  BY <1>2, <1>3, <1>4

LEMMA EventsAnsweredKeeps ==
  ASSUME EventsInv, NEW i \in DOMAIN asked, NEW n \in 0 .. LastEventPage, EventsAnswered(i, n)
  PROVE  EventsInv'
<1> DEFINE rest == RemoveAt(asked, i)
           next == [Picked EXCEPT !.page = asked[i].page]
<1>1. /\ gotEvents' = asked[i] /\ onPage' = asked[i].page /\ pageCount' = n
      /\ askFailed' = FALSE
      /\ UNCHANGED <<typing, search, debouncing, standing, resending>>
  BY DEF EventsAnswered
<1>2. /\ rest \in Seq(Selections) /\ asked[i] \in Selections
      /\ Len(rest) < MaxQueried /\ Len(rest) \in Nat
      /\ i # Len(asked) => rest # <<>> /\ rest[Len(rest)] = asked[Len(asked)]
      /\ \A k \in DOMAIN rest : \E j \in DOMAIN asked : rest[k] = asked[j]
  BY RequestGone DEF EventsInv
<1>3. asked[i].page \in 1 .. LastEventPage
  BY <1>2 DEF Selections
<1>4. (\A k \in DOMAIN rest : ListOf(rest[k]) \in queried) /\ ListOf(asked[i]) \in queried
  BY <1>2 DEF EventsInv, EventsQueried
<1>5. CASE asked[i].page # onPage
  <2>1. /\ loadingEvents' = TRUE /\ asked' = Append(rest, next) /\ newest' = "pending"
        /\ queried' = Queried(rest, next)
    BY <1>5 DEF EventsAnswered
  <2>2. next \in Selections /\ next.query = search /\ next.status = standing
    BY <1>3 DEF EventsInv, EventsTypeOK, Picked, Selections
  <2> HIDE DEF rest, next
  <2>3. /\ asked' \in Seq(Selections) /\ asked' # <<>> /\ asked'[Len(asked')] = next
        /\ Len(asked') = Len(rest) + 1
    BY <1>2, <2>1, <2>2, Appended
  <2>4. Len(asked') <= MaxQueried
    BY <1>2, <2>3, EventHistoryAssumption
  <2>5. queried' \subseteq Lists
    BY <2>1, <2>2, QueriedTyped DEF EventsInv, EventsTypeOK
  <2>6. EventsTypeOK'
    BY <1>1, <1>2, <1>3, <2>1, <2>3, <2>4, <2>5 DEF EventsInv, EventsTypeOK
  <2>7. EventsAsked'
    BY <1>1, <2>1, <2>2, <2>3 DEF EventsAsked
  <2>8. EventsQueried'
    <3>1. \A k \in DOMAIN asked' : ListOf(asked'[k]) \in queried'
      BY <1>2, <1>4, <2>1, <2>2, QueriedHolds
    <3> QED
      BY <2>3, <3>1 DEF EventsQueried
  <2> QED
    BY <2>6, <2>7, <2>8 DEF EventsInv
<1>6. CASE asked[i].page = onPage
  <2>1. loadingEvents' = FALSE /\ asked' = rest /\ newest' = Stands(i) /\ queried' = queried
    BY <1>6 DEF EventsAnswered
  <2>2. /\ newest' \in {"pending", "shown", "overtaken", "outdated", "failed"}
        /\ newest' = "pending" => newest = "pending" /\ i # Len(asked)
        /\ newest' = "shown" => newest = "pending" /\ i = Len(asked)
    BY <2>1 DEF Stands
  <2> HIDE DEF rest, next
  <2>3. Len(asked') <= MaxQueried
    BY <1>2, <2>1, EventHistoryAssumption
  <2>4. EventsTypeOK'
    BY <1>1, <1>2, <1>3, <2>1, <2>2, <2>3 DEF EventsInv, EventsTypeOK
  <2>5. EventsAsked'
    BY <1>1, <1>2, <2>1, <2>2 DEF EventsInv, EventsAsked
  <2>6. EventsQueried'
    BY <1>1, <1>4, <2>1 DEF EventsQueried
  <2> QED
    BY <2>4, <2>5, <2>6 DEF EventsInv
<1> QED
  BY <1>5, <1>6

LEMMA EventsFailKeeps ==
  ASSUME EventsInv, NEW i \in DOMAIN asked, EventsFail(i)
  PROVE  EventsInv'
<1>1. /\ asked' = RemoveAt(asked, i) /\ loadingEvents' = FALSE /\ askFailed' = TRUE
      /\ newest' = IF i = Len(asked) /\ newest = "pending" THEN "failed" ELSE newest
      /\ UNCHANGED <<typing, search, debouncing, standing, onPage, gotEvents, pageCount, queried,
                     resending>>
  BY DEF EventsFail
<1>2. /\ asked' \in Seq(Selections) /\ Len(asked') < MaxQueried /\ Len(asked') \in Nat
      /\ i # Len(asked) => asked' # <<>> /\ asked'[Len(asked')] = asked[Len(asked)]
      /\ \A k \in DOMAIN asked' : \E j \in DOMAIN asked : asked'[k] = asked[j]
  BY <1>1, RequestGone DEF EventsInv
<1>3. Len(asked') <= MaxQueried
  BY <1>2, EventHistoryAssumption
<1>4. EventsTypeOK'
  BY <1>1, <1>2, <1>3 DEF EventsInv, EventsTypeOK
<1>5. EventsAsked'
  BY <1>1, <1>2 DEF EventsInv, EventsAsked
<1>6. EventsQueried'
  BY <1>1, <1>2 DEF EventsInv, EventsQueried
<1> QED
  BY <1>4, <1>5, <1>6 DEF EventsInv

LEMMA RetryAnsweredKeeps ==
  ASSUME EventsInv, NEW sel \in resending, RetryAnswered(sel)
  PROVE  EventsInv'
<1>1. /\ MayAsk /\ resending' = resending \ {sel}
      /\ loadingEvents' = TRUE /\ asked' = Append(asked, sel) /\ queried' = Queried(asked, sel)
      /\ newest' = IF sel.query = search /\ sel.status = standing THEN "pending" ELSE "outdated"
      /\ UNCHANGED <<typing, search, debouncing, standing, onPage, gotEvents, pageCount, askFailed>>
  BY DEF RetryAnswered
<1>2. sel \in Selections
  BY DEF EventsInv, EventsTypeOK
<1>3. /\ asked' \in Seq(Selections) /\ asked' # <<>> /\ asked'[Len(asked')] = sel
      /\ Len(asked') <= MaxQueried
  BY <1>1, <1>2, AppendedRequest DEF EventsInv
<1>4. queried' \subseteq Lists
  BY <1>1, <1>2, QueriedTyped DEF EventsInv, EventsTypeOK
<1>5. EventsTypeOK'
  BY <1>1, <1>3, <1>4 DEF EventsInv, EventsTypeOK
<1>6. EventsAsked'
  BY <1>1, <1>3 DEF EventsAsked
<1>7. EventsQueried'
  <2>1. \A i \in DOMAIN asked' : ListOf(asked'[i]) \in queried'
    BY <1>1, <1>2, QueriedHolds DEF EventsInv, EventsTypeOK, EventsQueried
  <2> QED
    BY <1>3, <2>1 DEF EventsQueried
<1> QED
  BY <1>5, <1>6, <1>7 DEF EventsInv

LEMMA EventsRest ==
  ASSUME EventsInv, resending' \subseteq Selections,
         UNCHANGED <<typing, search, debouncing, standing, onPage, loadingEvents, gotEvents,
                     pageCount, asked, newest, queried, askFailed>>
  PROVE  EventsInv'
  BY DEF EventsInv, EventsTypeOK, EventsAsked, EventsQueried

LEMMA EventsStep == EventsInv /\ [EventsNext]_eventListVars => EventsInv'
<1> SUFFICES ASSUME EventsInv, [EventsNext]_eventListVars PROVE EventsInv'
  OBVIOUS
<1> USE DEF EventsInv, EventsTypeOK
<1>1. CASE Debounced
  BY <1>1, ControlKeeps DEF Debounced
<1>2. CASE RetryDelivery
  BY <1>2, EventsRest, PickedTyped DEF RetryDelivery
<1>3. ASSUME NEW q \in Queries, SearchChange(q) PROVE EventsInv'
  BY <1>3, ControlKeeps, RoomForOneRequest DEF SearchChange
<1>4. ASSUME NEW s \in Standings, StatusChange(s) PROVE EventsInv'
  BY <1>4, ControlKeeps, RoomForOneRequest DEF StatusChange
<1>5. ASSUME NEW p \in 1 .. LastEventPage, GoToPage(p) PROVE EventsInv'
  BY <1>5, ControlKeeps DEF GoToPage
<1>6. ASSUME NEW sel \in resending, RetryFails(sel) PROVE EventsInv'
  BY <1>6, EventsRest DEF RetryFails
<1>7. CASE UNCHANGED eventListVars
  BY <1>7, EventsRest DEF eventListVars
<1> QED
  BY <1>1, <1>2, <1>3, <1>4, <1>5, <1>6, <1>7, EventsAnsweredKeeps, EventsFailKeeps,
     RetryAnsweredKeeps DEF EventsNext

LEMMA EventsSettle == EventsInv => SettledEventsShowSelection
  BY DEF EventsInv, EventsAsked, EventsQueried, EventsTypeOK, ListOf, SettledEventsShowSelection

-----------------------------------------------------------------------------
(***************************************************************************)
(* The rules.  Of a rule that is not excused no fetch and change are under *)
(* way together, all of its changes leave it alike, and the list has it as *)
(* the server, or one of these changes has been carried out and will tell. *)
(***************************************************************************)
ChangesOf(w) == {c \in ruleCalls : ~IsFetch(c) /\ c.of = w}

RuleFollows(w) ==
  /\ ChangesOf(w) # {} => \A c \in ruleCalls : ~IsFetch(c)
  /\ \A c, d \in ChangesOf(w) : c.body = d.body
  /\ \A c \in ruleCalls : IsFetch(c) /\ c.read # NotFetched => c.read[w] = ruleRows[w]
  /\ \A c \in ChangesOf(w) : c.here /\ (c.done => ruleRows[w] = c.body)
  /\ \A c \in ChangesOf(w) : c.kind = "toggle" => watches[w] # Gone
  /\ firstLoad = "done" =>
       watches[w] = ruleRows[w] \/ \E c \in ChangesOf(w) : c.done

BodiesFit == \A c \in ruleCalls : ~IsFetch(c) => (c.body = Gone <=> c.kind = "delete")

RulesFollow == \A w \in Watches \ excused : RuleFollows(w)

RuleListInv == RuleListTypeOK /\ BodiesFit /\ RulesFollow

LEMMA CallsTyped ==
  ASSUME NEW c \in Fetches \cup Changes
  PROVE  /\ IsFetch(c) <=> c \in Fetches
         /\ ~IsFetch(c) <=> c \in Changes
  BY DEF Fetches, Changes, IsFetch

LEMMA NewCalls ==
  /\ \A k \in {"first", "reload"} : [kind |-> k, read |-> NotFetched] \in Fetches
  /\ \A k \in {"toggle", "delete"}, w \in Watches, b \in Bodies \cup {Gone} :
       [kind |-> k, of |-> w, done |-> FALSE, here |-> TRUE, body |-> b] \in Changes
  /\ NoRows \in Tables
  BY DEF Fetches, Changes, NoRows, Tables

LEMMA ChangedCalls ==
  ASSUME NEW c \in Changes
  PROVE  /\ [c EXCEPT !.done = TRUE] \in Changes /\ [c EXCEPT !.here = FALSE] \in Changes
         /\ [c EXCEPT !.done = TRUE].of = c.of /\ [c EXCEPT !.here = FALSE].of = c.of
         /\ [c EXCEPT !.done = TRUE].body = c.body /\ [c EXCEPT !.here = FALSE].body = c.body
         /\ [c EXCEPT !.done = TRUE].kind = c.kind /\ [c EXCEPT !.here = FALSE].kind = c.kind
         /\ [c EXCEPT !.done = TRUE].here = c.here /\ [c EXCEPT !.done = TRUE].done = TRUE
  BY DEF Changes

LEMMA ReadCalls ==
  ASSUME NEW c \in Fetches, NEW t \in Tables
  PROVE  /\ [c EXCEPT !.read = t] \in Fetches /\ [c EXCEPT !.read = t].read = t
  BY DEF Fetches

LEMMA RuleListInvInit == RuleListInit => RuleListInv
<1> SUFFICES ASSUME RuleListInit PROVE RuleListInv
  OBVIOUS
<1> DEFINE f == [kind |-> "first", read |-> NotFetched]
<1>1. f \in Fetches /\ f.read = NotFetched
  BY NewCalls
<1>2. /\ ruleCalls = {f} /\ ruleRows \in Tables /\ watches = NoRows /\ firstLoad = "pending"
      /\ confirming = NoWatch /\ deleting = NoWatch /\ excused = {}
  BY DEF RuleListInit
<1> HIDE DEF f
<1>3. RuleListTypeOK
  BY <1>1, <1>2, NewCalls DEF RuleListTypeOK
<1>4. \A c \in ruleCalls : IsFetch(c) /\ c.read = NotFetched
  BY <1>1, <1>2, CallsTyped
<1>5. BodiesFit /\ RulesFollow
  BY <1>2, <1>4 DEF BodiesFit, RulesFollow, RuleFollows, ChangesOf
<1> QED
  BY <1>3, <1>5 DEF RuleListInv

\* Of one call.
LEMMA CallTyped ==
  ASSUME RuleListInv, NEW c \in ruleCalls
  PROVE  /\ IsFetch(c) => /\ c \in Fetches /\ c.kind \in {"first", "reload"}
                          /\ c.read # NotFetched => c.read \in Tables
         /\ ~IsFetch(c) => /\ c \in Changes /\ c.of \in Watches /\ c.body \in Bodies \cup {Gone}
                           /\ c.kind \in {"toggle", "delete"} /\ c.done \in BOOLEAN
                           /\ (c.body = Gone <=> c.kind = "delete")
         /\ c.kind \in {"toggle", "delete"} => ~IsFetch(c)
<1>1. c \in Fetches \cup Changes
  BY DEF RuleListInv, RuleListTypeOK
<1>2. (IsFetch(c) => c \in Fetches) /\ (~IsFetch(c) => c \in Changes)
  BY <1>1, CallsTyped
<1>3. ~IsFetch(c) => (c.body = Gone <=> c.kind = "delete")
  BY DEF RuleListInv, BodiesFit
<1> QED
  BY <1>2, <1>3 DEF Fetches, Changes, IsFetch

\* A call is sent, of which the rules it crosses are excused.
LEMMA SentCallKeeps ==
  ASSUME RuleListInv, NEW c \in Fetches \cup Changes, SendRuleCall(c),
         IsFetch(c) => c.read = NotFetched,
         ~IsFetch(c) => /\ (c.body = Gone <=> c.kind = "delete")
                        /\ c.here /\ ~c.done /\ (c.kind = "toggle" => watches[c.of] # Gone),
         confirming' \in Watches \cup {NoWatch}, deleting' \in Watches \cup {NoWatch},
         UNCHANGED <<ruleRows, watches, firstLoad>>
  PROVE  RuleListInv'
<1>1. ruleCalls' = ruleCalls \cup {c} /\ excused' = excused \cup Crossing(c)
  BY DEF SendRuleCall
<1>2. RuleListTypeOK'
  BY <1>1 DEF RuleListInv, RuleListTypeOK, Crossing
<1>3. BodiesFit'
  BY <1>1 DEF RuleListInv, BodiesFit
<1>4. ASSUME NEW w \in Watches, w \notin excused', IsFetch(c)
      PROVE  RuleFollows(w)'
  <2>1. RuleFollows(w)
    BY <1>1, <1>4 DEF RuleListInv, RulesFollow
  <2>2. ChangesOf(w) = {} /\ ChangesOf(w)' = {}
    BY <1>1, <1>4 DEF ChangesOf, Crossing
  <2> QED
    BY <1>1, <1>4, <2>1, <2>2 DEF RuleFollows
<1>5. ASSUME NEW w \in Watches, w \notin excused', ~IsFetch(c), c.of = w
      PROVE  RuleFollows(w)'
  <2>1. RuleFollows(w)
    BY <1>1, <1>5 DEF RuleListInv, RulesFollow
  <2>2. ChangesOf(w)' = ChangesOf(w) \cup {c}
    BY <1>1, <1>5 DEF ChangesOf
  <2>3. \A d \in ruleCalls : ~IsFetch(d) /\ (d \in ChangesOf(w) => d.body = c.body)
    BY <1>1, <1>5 DEF ChangesOf, Crossing
  <2>4. c.here /\ ~c.done /\ (c.kind = "toggle" => watches[w] # Gone)
    BY <1>5
  <2>5. /\ \A d \in ruleCalls' : ~IsFetch(d)
        /\ \A d \in ChangesOf(w)' : d.body = c.body
    BY <1>1, <1>5, <2>2, <2>3 DEF ChangesOf
  <2>6. \A d, e \in ChangesOf(w)' : d.body = e.body
    BY <2>5
  <2>7. /\ \A d \in ChangesOf(w)' : d.here /\ (d.done => ruleRows[w] = d.body)
        /\ \A d \in ChangesOf(w)' : d.kind = "toggle" => watches[w] # Gone
    BY <2>1, <2>2, <2>4 DEF RuleFollows
  <2>8. firstLoad = "done" => watches[w] = ruleRows[w] \/ \E d \in ChangesOf(w)' : d.done
    BY <2>1, <2>2 DEF RuleFollows
  <2> QED
    BY <2>5, <2>6, <2>7, <2>8 DEF RuleFollows
<1>6. ASSUME NEW w \in Watches, w \notin excused', ~IsFetch(c), c.of # w
      PROVE  RuleFollows(w)'
  <2>1. RuleFollows(w)
    BY <1>1, <1>6 DEF RuleListInv, RulesFollow
  <2>2. ChangesOf(w)' = ChangesOf(w)
    BY <1>1, <1>6 DEF ChangesOf
  <2> QED
    BY <1>1, <1>6, <2>1, <2>2 DEF RuleFollows
<1>7. RulesFollow'
  BY <1>4, <1>5, <1>6 DEF RulesFollow
<1> QED
  BY <1>2, <1>3, <1>7 DEF RuleListInv

LEMMA SendsKeep ==
  ASSUME RuleListInv, ReloadRules \/ Delete \/ \E w \in Watches : Toggle(w)
  PROVE  RuleListInv'
<1>1. CASE ReloadRules
  <2> DEFINE f == [kind |-> "reload", read |-> NotFetched]
  <2>1. f \in Fetches /\ f.read = NotFetched /\ SendRuleCall(f) /\ IsFetch(f)
    BY <1>1, NewCalls DEF ReloadRules, IsFetch
  <2> HIDE DEF f
  <2> QED
    BY <1>1, <2>1, SentCallKeeps DEF ReloadRules, RuleListInv, RuleListTypeOK
<1>2. CASE Delete
  <2> DEFINE c == [kind |-> "delete", of |-> confirming, done |-> FALSE, here |-> TRUE, body |-> Gone]
  <2>1. confirming \in Watches
    BY <1>2 DEF Delete, ConfirmOffers, RuleListInv, RuleListTypeOK
  <2>2. /\ c \in Changes /\ SendRuleCall(c) /\ ~IsFetch(c)
        /\ c.kind = "delete" /\ c.body = Gone /\ c.here = TRUE /\ c.done = FALSE
    BY <1>2, <2>1, NewCalls DEF Delete, IsFetch
  <2> HIDE DEF c
  <2> QED
    BY <1>2, <2>1, <2>2, SentCallKeeps DEF Delete
<1>3. ASSUME NEW w \in Watches, Toggle(w) PROVE RuleListInv'
  <2> DEFINE b == [watches[w] EXCEPT !.enabled = ~@]
             c == [kind |-> "toggle", of |-> w, done |-> FALSE, here |-> TRUE, body |-> b]
  <2>1. watches[w] \in Bodies /\ watches[w] # Gone
    BY <1>3 DEF Toggle, WatchRows, RuleListInv, RuleListTypeOK, Tables
  <2>2. b \in Bodies /\ b # Gone
    BY <2>1, RuleListAssumption DEF Bodies
  <2> HIDE DEF b
  <2>3. /\ c \in Changes /\ ~IsFetch(c)
        /\ c.kind = "toggle" /\ c.body = b /\ c.here = TRUE /\ c.done = FALSE /\ c.of = w
    BY <2>2, NewCalls DEF IsFetch
  <2>4. SendRuleCall(c)
    BY <1>3 DEF Toggle, b
  <2> HIDE DEF c
  <2> QED
    BY <1>3, <2>1, <2>2, <2>3, <2>4, SentCallKeeps
       DEF Toggle, RuleListInv, RuleListTypeOK
<1> QED
  BY <1>1, <1>2, <1>3

\* A call ends; it is a fetch, or was not carried out, or its rule is excused.
LEMMA GoneCallKeeps ==
  ASSUME RuleListInv, NEW c \in ruleCalls, ruleCalls' = ruleCalls \ {c},
         excused \subseteq excused', excused' \subseteq Watches,
         IsFetch(c) \/ c.done => IsFetch(c) \/ c.of \in excused',
         firstLoad' \in {"pending", "done", "failed"},
         firstLoad' = "done" => firstLoad = "done",
         deleting' \in Watches \cup {NoWatch},
         UNCHANGED <<ruleRows, watches, confirming>>
  PROVE  RuleListInv'
<1>1. RuleListTypeOK' /\ BodiesFit'
  BY DEF RuleListInv, RuleListTypeOK, BodiesFit
<1>2. ASSUME NEW w \in Watches, w \notin excused'
      PROVE  RuleFollows(w)'
  <2>1. RuleFollows(w)
    BY <1>2 DEF RuleListInv, RulesFollow
  <2>2. /\ ChangesOf(w)' \subseteq ChangesOf(w)
        /\ \A d \in ChangesOf(w) : d.done => d \in ChangesOf(w)'
    BY <1>2 DEF ChangesOf
  <2> QED
    BY <2>1, <2>2 DEF RuleFollows
<1> QED
  BY <1>1, <1>2 DEF RuleListInv, RulesFollow

LEMMA FailuresKeep ==
  ASSUME RuleListInv, NEW c \in ruleCalls, RulesFail(c) \/ ChangeFails(c)
  PROVE  RuleListInv'
<1>1. CASE RulesFail(c)
  BY <1>1, GoneCallKeeps DEF RulesFail, RuleListInv, RuleListTypeOK
<1>2. CASE ChangeFails(c)
  <2>1. c.of \in Watches /\ ~IsFetch(c)
    BY <1>2, CallTyped DEF ChangeFails
  <2>2. /\ ruleCalls' = ruleCalls \ {c} /\ deleting' \in {NoWatch, deleting}
        /\ excused' = IF c.done THEN excused \cup {c.of} ELSE excused
        /\ UNCHANGED <<ruleRows, watches, firstLoad, confirming>>
    BY <1>2 DEF ChangeFails
  <2> QED
    BY <2>1, <2>2, GoneCallKeeps DEF RuleListInv, RuleListTypeOK
<1> QED
  BY <1>1, <1>2

LEMMA ReadRulesKeeps ==
  ASSUME RuleListInv, NEW c \in ruleCalls, ReadRules(c)
  PROVE  RuleListInv'
<1> DEFINE r == [c EXCEPT !.read = ruleRows]
<1>1. /\ IsFetch(c) /\ ruleCalls' = (ruleCalls \ {c}) \cup {r}
      /\ UNCHANGED <<ruleRows, watches, firstLoad, confirming, deleting, excused>>
  BY DEF ReadRules
<1>2. c \in Fetches /\ ruleRows \in Tables
  BY <1>1, CallTyped DEF RuleListInv, RuleListTypeOK
<1>3. r \in Fetches /\ r.read = ruleRows
  BY <1>2, ReadCalls
<1> HIDE DEF r
<1>4. IsFetch(r)
  BY <1>3, CallsTyped
<1>5. RuleListTypeOK' /\ BodiesFit'
  BY <1>1, <1>3, <1>4 DEF RuleListInv, RuleListTypeOK, BodiesFit
<1>6. ASSUME NEW w \in Watches, w \notin excused
      PROVE  RuleFollows(w)'
  <2>1. RuleFollows(w)
    BY <1>6 DEF RuleListInv, RulesFollow
  <2>2. ChangesOf(w)' = ChangesOf(w)
    BY <1>1, <1>4 DEF ChangesOf
  <2>3. ChangesOf(w) = {}
    BY <1>1, <2>1 DEF RuleFollows
  <2> QED
    BY <1>1, <1>3, <2>1, <2>2, <2>3 DEF RuleFollows
<1> QED
  BY <1>1, <1>5, <1>6 DEF RuleListInv, RulesFollow

LEMMA RulesLoadedKeeps ==
  ASSUME RuleListInv, NEW c \in ruleCalls, RulesLoaded(c)
  PROVE  RuleListInv'
<1>1. /\ IsFetch(c) /\ c.read # NotFetched /\ watches' = c.read
      /\ firstLoad' \in {"done", firstLoad} /\ ruleCalls' = ruleCalls \ {c}
      /\ UNCHANGED <<ruleRows, confirming, deleting, excused>>
  BY DEF RulesLoaded
<1>2. c.read \in Tables
  BY <1>1, CallTyped
<1>3. RuleListTypeOK' /\ BodiesFit'
  BY <1>1, <1>2 DEF RuleListInv, RuleListTypeOK, BodiesFit
<1>4. ASSUME NEW w \in Watches, w \notin excused
      PROVE  RuleFollows(w)'
  <2>1. RuleFollows(w)
    BY <1>4 DEF RuleListInv, RulesFollow
  <2>2. ChangesOf(w) = {} /\ c.read[w] = ruleRows[w]
    BY <1>1, <2>1 DEF RuleFollows
  <2>3. ChangesOf(w)' = {}
    BY <1>1, <2>2 DEF ChangesOf
  <2> QED
    BY <1>1, <2>1, <2>2, <2>3 DEF RuleFollows
<1> QED
  BY <1>1, <1>3, <1>4 DEF RuleListInv, RulesFollow

LEMMA ApplyChangeKeeps ==
  ASSUME RuleListInv, NEW c \in ruleCalls, ApplyChange(c)
  PROVE  RuleListInv'
<1> DEFINE r == [c EXCEPT !.done = TRUE]
<1>1. /\ ~IsFetch(c) /\ ~c.done /\ ruleRows' = [ruleRows EXCEPT ![c.of] = c.body]
      /\ ruleCalls' = (ruleCalls \ {c}) \cup {r}
      /\ UNCHANGED <<watches, firstLoad, confirming, deleting, excused>>
  BY DEF ApplyChange
<1>2. c \in Changes /\ c.of \in Watches /\ c.body \in Bodies \cup {Gone}
  BY <1>1, CallTyped
<1>3. /\ r \in Changes /\ r.of = c.of /\ r.body = c.body /\ r.kind = c.kind
      /\ r.here = c.here /\ r.done = TRUE
  BY <1>2, ChangedCalls
<1> HIDE DEF r
<1>4. ~IsFetch(r)
  BY <1>3, CallsTyped
<1>5. RuleListTypeOK'
  BY <1>1, <1>2, <1>3 DEF RuleListInv, RuleListTypeOK, Tables
<1>6. BodiesFit'
  BY <1>1, <1>3, <1>4 DEF RuleListInv, BodiesFit
<1>7. ruleRows \in Tables
  BY DEF RuleListInv, RuleListTypeOK
<1>8. ASSUME NEW w \in Watches, w \notin excused, w = c.of
      PROVE  RuleFollows(w)'
  <2>1. RuleFollows(w)
    BY <1>8 DEF RuleListInv, RulesFollow
  <2>2. ChangesOf(w)' = (ChangesOf(w) \ {c}) \cup {r} /\ c \in ChangesOf(w)
    BY <1>1, <1>3, <1>4, <1>8 DEF ChangesOf
  <2>3. ruleRows'[w] = c.body
    BY <1>1, <1>7, <1>8 DEF Tables
  <2>4. \A d \in ruleCalls' : ~IsFetch(d)
    BY <1>1, <1>4, <2>1, <2>2 DEF RuleFollows
  <2> QED
    BY <1>1, <1>3, <2>1, <2>2, <2>3, <2>4 DEF RuleFollows
<1>9. ASSUME NEW w \in Watches, w \notin excused, w # c.of
      PROVE  RuleFollows(w)'
  <2>1. RuleFollows(w)
    BY <1>9 DEF RuleListInv, RulesFollow
  <2>2. ChangesOf(w)' = ChangesOf(w)
    BY <1>1, <1>3, <1>4, <1>9 DEF ChangesOf
  <2>3. ruleRows'[w] = ruleRows[w]
    BY <1>1, <1>7, <1>9 DEF Tables
  <2>4. \A d \in ruleCalls' : IsFetch(d) => d \in ruleCalls
    BY <1>1, <1>4
  <2> QED
    BY <1>1, <1>4, <2>1, <2>2, <2>3, <2>4 DEF RuleFollows
<1> QED
  BY <1>1, <1>5, <1>6, <1>8, <1>9 DEF RuleListInv, RulesFollow

\* An answer gives the list what was sent, or what is deleted is taken out of it.
LEMMA RulesAnsweredKeep ==
  ASSUME RuleListInv, NEW c \in ruleCalls, ToggleAnswered(c) \/ DeleteAnswered(c)
  PROVE  RuleListInv'
<1>1. /\ c.kind \in {"toggle", "delete"} /\ c.done /\ ruleCalls' = ruleCalls \ {c}
      /\ watches' \in {watches, [watches EXCEPT ![c.of] = c.body], [watches EXCEPT ![c.of] = Gone]}
      /\ deleting' \in {deleting, NoWatch}
      /\ UNCHANGED <<ruleRows, firstLoad, confirming, excused>>
  BY DEF ToggleAnswered, DeleteAnswered
<1>2. /\ ~IsFetch(c) /\ c.of \in Watches /\ c.body \in Bodies \cup {Gone}
      /\ c.body = Gone <=> c.kind = "delete"
  BY <1>1, CallTyped
<1>3. RuleListTypeOK' /\ BodiesFit'
  BY <1>1, <1>2 DEF RuleListInv, RuleListTypeOK, BodiesFit, Tables
<1>4. watches \in Tables
  BY DEF RuleListInv, RuleListTypeOK
<1>5. ASSUME NEW w \in Watches, w \notin excused, w = c.of
      PROVE  RuleFollows(w)'
  <2>1. RuleFollows(w)
    BY <1>5 DEF RuleListInv, RulesFollow
  <2>2. ChangesOf(w)' = ChangesOf(w) \ {c} /\ c \in ChangesOf(w)
    BY <1>1, <1>2, <1>5 DEF ChangesOf
  <2>3. c.here /\ ruleRows[w] = c.body /\ (c.kind = "toggle" => watches[w] # Gone)
    BY <1>1, <2>1, <2>2 DEF RuleFollows
  <2>4. watches' = [watches EXCEPT ![w] = c.body]
    BY <1>2, <1>5, <2>3 DEF ToggleAnswered, DeleteAnswered
  <2>5. watches'[w] = c.body
    BY <1>4, <2>4 DEF Tables
  <2>6. \A d \in ChangesOf(w) : d.kind = "toggle" => c.body # Gone
    BY <2>1, <2>2 DEF RuleFollows, ChangesOf, RuleListInv, BodiesFit
  <2> QED
    BY <1>1, <2>1, <2>2, <2>3, <2>5, <2>6 DEF RuleFollows
<1>6. ASSUME NEW w \in Watches, w \notin excused, w # c.of
      PROVE  RuleFollows(w)'
  <2>1. RuleFollows(w)
    BY <1>6 DEF RuleListInv, RulesFollow
  <2>2. ChangesOf(w)' = ChangesOf(w)
    BY <1>1, <1>2, <1>6 DEF ChangesOf
  <2>3. watches'[w] = watches[w]
    BY <1>1, <1>4, <1>6 DEF Tables
  <2> QED
    BY <1>1, <2>1, <2>2, <2>3 DEF RuleFollows
<1> QED
  BY <1>1, <1>3, <1>5, <1>6 DEF RuleListInv, RulesFollow

LEMMA RuleWrittenKeeps ==
  ASSUME RuleListInv, NEW v \in Watches, NEW b \in Bodies \cup {Gone}, RuleWritten(v, b)
  PROVE  RuleListInv'
<1>1. /\ ruleRows' = [ruleRows EXCEPT ![v] = b] /\ excused' = excused \cup {v}
      /\ UNCHANGED <<watches, firstLoad, confirming, deleting, ruleCalls>>
  BY DEF RuleWritten
<1>2. ruleRows \in Tables
  BY DEF RuleListInv, RuleListTypeOK
<1>3. RuleListTypeOK' /\ BodiesFit'
  BY <1>1 DEF RuleListInv, RuleListTypeOK, BodiesFit, Tables
<1>4. ASSUME NEW w \in Watches, w \notin excused'
      PROVE  RuleFollows(w)'
  <2>1. RuleFollows(w) /\ ruleRows'[w] = ruleRows[w] /\ ChangesOf(w)' = ChangesOf(w)
    BY <1>1, <1>2, <1>4 DEF RuleListInv, RulesFollow, Tables, ChangesOf
  <2> QED
    BY <1>1, <2>1 DEF RuleFollows
<1> QED
  BY <1>3, <1>4 DEF RuleListInv, RulesFollow

\* A new visit excuses the rules that an earlier one is still changing.
LEMMA VisitKeeps ==
  ASSUME RuleListInv, VisitRules
  PROVE  RuleListInv'
<1> DEFINE f == [kind |-> "first", read |-> NotFetched]
<1>1. PICK L : /\ L = {[c EXCEPT !.here = FALSE] : c \in {d \in ruleCalls : ~IsFetch(d)}}
               /\ ruleCalls' = L \cup {f} /\ excused' = {c.of : c \in L}
  BY DEF VisitRules
<1>2. /\ watches' = NoRows /\ firstLoad' = "pending" /\ confirming' = NoWatch
      /\ deleting' = NoWatch /\ ruleRows' = ruleRows
  BY DEF VisitRules
<1>3. f \in Fetches /\ f.read = NotFetched
  BY NewCalls
<1> HIDE DEF f
<1>4. ASSUME NEW r \in L
      PROVE  r \in Changes /\ r.of \in Watches /\ (r.body = Gone <=> r.kind = "delete")
  <2>1. PICK c \in ruleCalls : ~IsFetch(c) /\ r = [c EXCEPT !.here = FALSE]
    BY <1>1, <1>4
  <2> QED
    BY <2>1, CallTyped, ChangedCalls
<1>5. \A r \in L : ~IsFetch(r)
  BY <1>4, CallsTyped
<1>6. IsFetch(f)
  BY <1>3, CallsTyped
<1>7. RuleListTypeOK'
  BY <1>1, <1>2, <1>3, <1>4, NewCalls DEF RuleListInv, RuleListTypeOK
<1>8. BodiesFit'
  BY <1>1, <1>4, <1>6 DEF BodiesFit
<1>9. ASSUME NEW w \in Watches, w \notin excused'
      PROVE  RuleFollows(w)'
  <2>1. ChangesOf(w)' = {}
    BY <1>1, <1>6, <1>9 DEF ChangesOf
  <2> QED
    BY <1>1, <1>2, <1>3, <1>5, <2>1 DEF RuleFollows
<1> QED
  BY <1>7, <1>8, <1>9 DEF RuleListInv, RulesFollow

LEMMA DialogKeeps ==
  ASSUME RuleListInv, confirming' \in Watches \cup {NoWatch},
         UNCHANGED <<ruleRows, watches, firstLoad, deleting, ruleCalls, excused>>
  PROVE  RuleListInv'
<1>1. RuleListTypeOK' /\ BodiesFit'
  BY DEF RuleListInv, RuleListTypeOK, BodiesFit
<1> QED
  BY <1>1 DEF RuleListInv, RulesFollow, RuleFollows, ChangesOf

LEMMA RuleListStep == RuleListInv /\ [RuleListNext]_ruleListVars => RuleListInv'
<1> SUFFICES ASSUME RuleListInv, [RuleListNext]_ruleListVars PROVE RuleListInv'
  OBVIOUS
<1>1. CASE CancelDelete \/ UNCHANGED ruleListVars
  BY <1>1, DialogKeeps DEF CancelDelete, ruleListVars, RuleListInv, RuleListTypeOK
<1>2. ASSUME NEW w \in Watches, ConfirmDelete(w) PROVE RuleListInv'
  BY <1>2, DialogKeeps DEF ConfirmDelete
<1> QED
  BY <1>1, <1>2, SendsKeep, FailuresKeep, ReadRulesKeeps, RulesLoadedKeeps, ApplyChangeKeeps,
     RulesAnsweredKeep, RuleWrittenKeeps, VisitKeeps DEF RuleListNext

LEMMA RulesAgree == RuleListInv => ListedRulesAgree
  BY DEF RuleListInv, RulesFollow, RuleFollows, ChangesOf, ListedRulesAgree

-----------------------------------------------------------------------------
(***************************************************************************)
(* The form of a rule.  As long as the history did not move it, the form   *)
(* asks for the rule of its route only, and has no other rule's values     *)
(* when it is shown (OwnRoute); so nothing else is sent to that rule       *)
(* (CallsFit), and the rule keeps its own (WrittenFit).  LastAsk is about  *)
(* the latest load, in a form that was moved too.                          *)
(***************************************************************************)
FormRequests == [kind : {"put", "post", "test", "delete"}, of : Formed \cup {Creating},
                 body : Values \cup {Missing}, here : BOOLEAN]

FormTyped ==
  /\ form \in Values /\ formAsks \in Seq(Formed \cup {Creating}) /\ presets \subseteq Presets
  /\ written \in [Formed -> Values \cup {Missing}] /\ formCalls \subseteq FormRequests
  /\ formAt \in Formed \cup {Creating, NoForm}

WrittenFit ==
  \A r \in Formed : written[r] # Missing =>
    Complete(written[r]) /\ (r \notin moved => written[r].by = r)

CallsFit ==
  \A c \in formCalls :
    /\ c.kind \in {"put", "post"} => c.body \in Values /\ Complete(c.body)
    /\ c.kind \in {"put", "delete"} => c.of \in Formed
    /\ c.kind = "put" /\ c.of \notin moved => c.body.by = c.of

OwnRoute ==
  formAt \in Formed \ moved =>
    formAsks \in Seq({formAt}) /\ (~formLoading => form.by = formAt)

LastAsk ==
  formAt \in Formed =>
    /\ latestAsk = "pending" => formAsks # <<>> /\ formAsks[Len(formAsks)] = formAt
    /\ latestAsk = "shown" => form.by = formAt

RuleFormInv == FormTyped /\ WrittenFit /\ CallsFit /\ OwnRoute /\ LastAsk

LEMMA SentFits ==
  ASSUME NEW v \in Values
  PROVE  /\ Sent(v) \in Values /\ Sent(v).by = v.by
         /\ Complete(v) => Complete(Sent(v))
<1>1. /\ v.by \in Formed \cup {Creating} /\ v.channel \in Channels /\ v.url \in BOOLEAN
      /\ v.target \in Presets \cup {NoPreset} /\ v.agents \in SUBSET Watched
  BY DEF Values
<1> DEFINE t == IF v.channel = "preset" THEN v.target ELSE NoPreset
           u == v.channel = "url" /\ v.url
<1>2. Sent(v) = [v EXCEPT !.target = t, !.url = u]
  BY DEF Sent
<1>3. t \in Presets \cup {NoPreset} /\ u \in BOOLEAN
  BY <1>1
<1>4. /\ Sent(v) \in Values /\ Sent(v).by = v.by /\ Sent(v).channel = v.channel
      /\ Sent(v).agents = v.agents /\ Sent(v).target = t /\ Sent(v).url = u
  <2> HIDE DEF t, u
  <2> QED
    BY <1>2, <1>3 DEF Values
<1>5. Complete(v) => Complete(Sent(v))
  BY <1>1, <1>4 DEF Complete, HasDestination, Channels
<1> QED
  BY <1>4, <1>5

LEMMA OwnFits ==
  ASSUME NEW v \in Values, NEW r \in Formed
  PROVE  /\ [v EXCEPT !.by = r] \in Values /\ [v EXCEPT !.by = r].by = r
         /\ Complete(v) => Complete([v EXCEPT !.by = r])
  BY DEF Values, Complete, HasDestination

LEMMA NewFormTyped ==
  ASSUME NEW at PROVE NewForm(at) \in Values
  BY DEF NewForm, Values, Channels

LEMMA OneAsk ==
  ASSUME NEW T, NEW e \in T
  PROVE  /\ <<e>> \in Seq(T) /\ <<e>> # <<>> /\ <<e>>[Len(<<e>>)] = e
         /\ <<>> \in Seq(T)
  OBVIOUS

LEMMA RuleFormInvInit == RuleFormInit => RuleFormInv
<1> SUFFICES ASSUME RuleFormInit PROVE RuleFormInv
  OBVIOUS
<1>1. /\ form = NewForm(NoForm) /\ formAsks = <<>> /\ presets = {} /\ formCalls = {}
      /\ formAt = NoForm /\ moved = {}
  BY DEF RuleFormInit
<1>2. ASSUME NEW r \in Formed
      PROVE  /\ written[r] \in Values \cup {Missing}
             /\ written[r] # Missing => Complete(written[r]) /\ written[r].by = r
  <2>1. \/ written[r] = Missing
        \/ \E v \in Values : written[r] = Sent(v) /\ Complete(v)
    BY DEF RuleFormInit
  <2>2. written[r] # Missing => written[r].by = r
    BY DEF RuleFormInit
  <2> QED
    BY <2>1, <2>2, SentFits
<1>3. written \in [Formed -> Values \cup {Missing}]
  <2>1. written = [r \in Formed |-> written[r]]
    BY DEF RuleFormInit
  <2> QED
    BY <1>2, <2>1
<1>4. FormTyped
  BY <1>1, <1>3, NewFormTyped, OneAsk DEF FormTyped
<1>5. WrittenFit /\ CallsFit
  BY <1>1, <1>2 DEF WrittenFit, CallsFit
<1>6. OwnRoute /\ LastAsk
  BY <1>1, RuleFormAssumption DEF OwnRoute, LastAsk
<1> QED
  BY <1>4, <1>5, <1>6 DEF RuleFormInv

-----------------------------------------------------------------------------

\* Requests go on when their form is left, without the one that was answered.
LEMMA LeftFit ==
  ASSUME FormTyped, CallsFit, NEW gone, UNCHANGED moved,
         formCalls' = {[d EXCEPT !.here = FALSE] : d \in formCalls \ gone}
  PROVE  formCalls' \subseteq FormRequests /\ CallsFit'
<1>1. ASSUME NEW c \in formCalls'
      PROVE  /\ c \in FormRequests
             /\ c.kind \in {"put", "post"} => c.body \in Values /\ Complete(c.body)
             /\ c.kind \in {"put", "delete"} => c.of \in Formed
             /\ c.kind = "put" /\ c.of \notin moved => c.body.by = c.of
  <2>1. PICK d \in formCalls : c = [d EXCEPT !.here = FALSE]
    BY <1>1
  <2>2. d \in FormRequests
    BY <2>1 DEF FormTyped
  <2>3. c \in FormRequests /\ c.kind = d.kind /\ c.of = d.of /\ c.body = d.body
    BY <2>1, <2>2 DEF FormRequests
  <2> QED
    BY <2>1, <2>3 DEF CallsFit
<1> QED
  BY <1>1 DEF CallsFit

\* An instance of a form starts, or the list is shown.
LEMMA FreshKeeps ==
  ASSUME RuleFormInv, NEW at \in Formed \cup {Creating, NoForm},
         formAt' = at, form' = NewForm(at), formLoading' = TRUE, latestAsk' = "pending",
         formAsks' = IF at = NoForm THEN <<>> ELSE <<at>>, presets' = {},
         UNCHANGED moved,
         written' \in [Formed -> Values \cup {Missing}], WrittenFit',
         formCalls' \subseteq FormRequests, CallsFit'
  PROVE  RuleFormInv'
<1>1. formAsks' \in Seq(Formed \cup {Creating})
  BY OneAsk
<1>2. FormTyped'
  BY <1>1, NewFormTyped DEF FormTyped
<1>3. OwnRoute' /\ LastAsk'
  BY OneAsk, RuleFormAssumption DEF OwnRoute, LastAsk
<1> QED
  BY <1>2, <1>3 DEF RuleFormInv

LEMMA OpensKeep ==
  ASSUME RuleFormInv,
         \/ LeaveForm \/ \E at \in Formed \cup {Creating} : OpenForm(at)
         \/ \E i \in DOMAIN formAsks : RuleLoadFails(i)
         \/ StrayLoadAnswered(TRUE)
  PROVE  RuleFormInv'
<1>1. PICK at \in Formed \cup {Creating, NoForm} :
        /\ formAt' = at /\ form' = NewForm(at) /\ formLoading' = TRUE /\ latestAsk' = "pending"
        /\ formAsks' = IF at = NoForm THEN <<>> ELSE <<at>>
        /\ presets' = {} /\ formCalls' \in {formCalls, Left} /\ UNCHANGED <<written, moved>>
  <2>1. CASE LeaveForm
    BY <2>1 DEF LeaveForm, Fresh
  <2>2. ASSUME NEW at \in Formed \cup {Creating}, OpenForm(at)
        PROVE  /\ formAt' = at /\ form' = NewForm(at) /\ formLoading' = TRUE
               /\ latestAsk' = "pending" /\ presets' = {} /\ formCalls' = formCalls
               /\ formAsks' = IF at = NoForm THEN <<>> ELSE <<at>>
               /\ UNCHANGED <<written, moved>>
    BY <2>2 DEF OpenForm, Fresh
  <2>3. CASE \/ \E i \in DOMAIN formAsks : RuleLoadFails(i)
             \/ StrayLoadAnswered(TRUE)
    BY <2>3 DEF RuleLoadFails, StrayLoadAnswered
  <2> QED
    BY <2>1, <2>2, <2>3
<1>2. formCalls' \subseteq FormRequests /\ CallsFit'
  <2>1. CASE formCalls' = formCalls
    BY <1>1, <2>1 DEF RuleFormInv, FormTyped, CallsFit
  <2>2. CASE formCalls' = Left
    <3>1. formCalls' = {[d EXCEPT !.here = FALSE] : d \in formCalls \ {}}
      BY <2>2 DEF Left
    <3> QED
      BY <1>1, <3>1, LeftFit DEF RuleFormInv
  <2> QED
    BY <1>1, <2>1, <2>2
<1>3. written' \in [Formed -> Values \cup {Missing}] /\ WrittenFit'
  BY <1>1 DEF RuleFormInv, FormTyped, WrittenFit
<1> QED
  BY <1>1, <1>2, <1>3, FreshKeeps

LEMMA CallDoneKeeps ==
  ASSUME RuleFormInv, NEW c \in formCalls, CallDone(c)
  PROVE  RuleFormInv'
<1>1. /\ formAt' = NoForm /\ form' = NewForm(NoForm) /\ formLoading' = TRUE
      /\ latestAsk' = "pending" /\ formAsks' = <<>> /\ presets' = {} /\ UNCHANGED moved
      /\ formCalls' = {[d EXCEPT !.here = FALSE] : d \in formCalls \ {c}}
  BY DEF CallDone, Fresh
<1>2. formCalls' \subseteq FormRequests /\ CallsFit'
  BY <1>1, LeftFit DEF RuleFormInv
<1>3. \E r \in Formed, v \in Values \cup {Missing} :
        /\ written' = [written EXCEPT ![r] = v]
        /\ v # Missing => Complete(v) /\ (r \notin moved => v.by = r)
  <2>1. c.kind \in {"put", "post", "delete"} /\ c \in FormRequests
    BY DEF CallDone, RuleFormInv, FormTyped
  <2>2. CASE c.kind = "put"
    <3>1. written' = [written EXCEPT ![c.of] = c.body]
      BY <2>2 DEF CallDone
    <3>2. c.of \in Formed /\ c.body \in Values /\ Complete(c.body)
          /\ (c.of \notin moved => c.body.by = c.of)
      BY <2>2 DEF RuleFormInv, CallsFit
    <3> QED
      BY <3>1, <3>2
  <2>3. CASE c.kind = "delete"
    <3>1. written' = [written EXCEPT ![c.of] = Missing] /\ c.of \in Formed
      BY <2>3 DEF CallDone, RuleFormInv, CallsFit
    <3> QED
      BY <3>1
  <2>4. CASE c.kind = "post"
    <3>1. PICK r \in Formed : written' = [written EXCEPT ![r] = [c.body EXCEPT !.by = r]]
      BY <2>4 DEF CallDone
    <3>2. c.body \in Values /\ Complete(c.body)
      BY <2>4 DEF RuleFormInv, CallsFit
    <3> QED
      BY <3>1, <3>2, OwnFits
  <2> QED
    BY <2>1, <2>2, <2>3, <2>4
<1>4. written' \in [Formed -> Values \cup {Missing}] /\ WrittenFit'
  BY <1>1, <1>3 DEF RuleFormInv, FormTyped, WrittenFit
<1> QED
  BY <1>1, <1>2, <1>4, FreshKeeps

-----------------------------------------------------------------------------

LEMMA MoveToRuleKeeps ==
  ASSUME RuleFormInv, NEW r \in Formed, MoveToRule(r)
  PROVE  RuleFormInv'
<1>1. /\ formAt' = r /\ formAsks' = Append(formAsks, r) /\ latestAsk' = "pending"
      /\ moved' = moved \cup {formAt, r}
      /\ UNCHANGED <<written, form, presets, formCalls>>
  BY DEF MoveToRule
<1>2. formAsks' \in Seq(Formed \cup {Creating}) /\ formAsks' # <<>> /\ formAsks'[Len(formAsks')] = r
  BY <1>1, Appended DEF RuleFormInv, FormTyped
<1>3. FormTyped'
  BY <1>1, <1>2 DEF RuleFormInv, FormTyped
<1>4. WrittenFit' /\ CallsFit'
  BY <1>1 DEF RuleFormInv, WrittenFit, CallsFit
<1>5. OwnRoute' /\ LastAsk'
  BY <1>1, <1>2 DEF OwnRoute, LastAsk
<1> QED
  BY <1>3, <1>4, <1>5 DEF RuleFormInv

\* A load brings the values of a rule, or nothing to the form of a new one.
LEMMA RuleLoadedKeeps ==
  ASSUME RuleFormInv, NEW i \in DOMAIN formAsks, RuleLoaded(i)
  PROVE  RuleFormInv'
<1> DEFINE a == formAsks[i]
<1>1. /\ a # Creating => written[a] # Missing
      /\ form' = IF a = Creating THEN form ELSE [written[a] EXCEPT !.by = a]
      /\ formLoading' = FALSE /\ formAsks' = RemoveAt(formAsks, i)
      /\ latestAsk' = IF latestAsk # "pending" THEN "overtaken"
                      ELSE IF i = Len(formAsks) THEN "shown" ELSE "pending"
      /\ UNCHANGED <<written, presets, formAt, formCalls, moved>>
  BY DEF RuleLoaded
<1>2. a \in Formed \cup {Creating}
  BY DEF RuleFormInv, FormTyped
<1>3. form' \in Values /\ (a # Creating => form'.by = a)
  BY <1>1, <1>2, OwnFits DEF RuleFormInv, FormTyped
<1>4. /\ formAsks' \in Seq(Formed \cup {Creating})
      /\ i # Len(formAsks) => formAsks' # <<>> /\ formAsks'[Len(formAsks')] = formAsks[Len(formAsks)]
  BY <1>1, Removed DEF RuleFormInv, FormTyped
<1>5. FormTyped'
  BY <1>1, <1>3, <1>4 DEF RuleFormInv, FormTyped
<1>6. WrittenFit' /\ CallsFit'
  BY <1>1 DEF RuleFormInv, WrittenFit, CallsFit
<1>7. OwnRoute'
  <2> SUFFICES ASSUME formAt \in Formed, formAt \notin moved
               PROVE  formAsks' \in Seq({formAt}) /\ form'.by = formAt
    BY <1>1 DEF OwnRoute
  <2>1. formAsks \in Seq({formAt})
    BY DEF RuleFormInv, OwnRoute
  <2>2. a = formAt /\ formAsks' \in Seq({formAt})
    BY <1>1, <2>1, Removed
  <2> QED
    BY <1>3, <2>2, RuleFormAssumption
<1>8. LastAsk'
  BY <1>1, <1>3, <1>4, RuleFormAssumption DEF RuleFormInv, LastAsk
<1> QED
  BY <1>5, <1>6, <1>7, <1>8 DEF RuleFormInv

\* The fields are filled in.
LEMMA FillKeeps ==
  ASSUME RuleFormInv, NEW v \in Values, v.by = form.by, Fill(v)
  PROVE  RuleFormInv'
<1>1. form' = v /\ UNCHANGED <<written, formLoading, formAsks, latestAsk, presets, formAt,
                               formCalls, moved>>
  BY DEF Fill
<1>2. FormTyped'
  BY <1>1 DEF RuleFormInv, FormTyped
<1>3. WrittenFit' /\ CallsFit'
  BY <1>1 DEF RuleFormInv, WrittenFit, CallsFit
<1>4. OwnRoute' /\ LastAsk'
  BY <1>1 DEF RuleFormInv, OwnRoute, LastAsk
<1> QED
  BY <1>2, <1>3, <1>4 DEF RuleFormInv

LEMMA FormFieldsKeep ==
  ASSUME RuleFormInv,
         \/ \E b \in BOOLEAN : TypeUrl(b)
         \/ \E c \in Channels : SetChannel(c)
         \/ \E t \in Presets \cup {NoPreset} : SetTarget(t)
         \/ \E n \in Watched : ToggleWatched(n)
         \/ \E ns \in SUBSET Watched : SetWatched(ns)
  PROVE  RuleFormInv'
<1>1. form \in Values /\ presets \subseteq Presets
  BY DEF RuleFormInv, FormTyped
<1>2. /\ form.target \in Presets \cup {NoPreset} /\ form.agents \subseteq Watched
  BY <1>1 DEF Values
<1>3. ASSUME NEW b \in BOOLEAN, TypeUrl(b) PROVE RuleFormInv'
  <2>1. [form EXCEPT !.url = b] \in Values /\ [form EXCEPT !.url = b].by = form.by
    BY <1>1 DEF Values
  <2> QED
    BY <1>3, <2>1, FillKeeps DEF TypeUrl
<1>4. ASSUME NEW c \in Channels, SetChannel(c) PROVE RuleFormInv'
  <2>1. PICK t \in Presets \cup {NoPreset} : Fill([form EXCEPT !.channel = c, !.target = t])
    BY <1>4 DEF SetChannel
  <2> DEFINE v == [form EXCEPT !.channel = c, !.target = t]
  <2>2. v \in Values /\ v.by = form.by
    BY <1>1 DEF Values
  <2> HIDE DEF v
  <2> QED
    BY <2>1, <2>2, FillKeeps DEF v
<1>5. ASSUME NEW t \in Presets \cup {NoPreset}, SetTarget(t) PROVE RuleFormInv'
  <2>1. [form EXCEPT !.target = t] \in Values /\ [form EXCEPT !.target = t].by = form.by
    BY <1>1 DEF Values
  <2> QED
    BY <1>5, <2>1, FillKeeps DEF SetTarget
<1>6. ASSUME NEW ns \in SUBSET Watched, Fill([form EXCEPT !.agents = ns]) PROVE RuleFormInv'
  <2>1. [form EXCEPT !.agents = ns] \in Values /\ [form EXCEPT !.agents = ns].by = form.by
    BY <1>1 DEF Values
  <2> QED
    BY <1>6, <2>1, FillKeeps
<1>7. ASSUME NEW n \in Watched, ToggleWatched(n) PROVE RuleFormInv'
  <2> DEFINE ns == IF n \in form.agents THEN form.agents \ {n} ELSE form.agents \cup {n}
  <2>1. ns \in SUBSET Watched
    BY <1>2
  <2>2. Fill([form EXCEPT !.agents = ns])
    BY <1>7 DEF ToggleWatched
  <2> QED
    BY <1>6, <2>1, <2>2
<1> QED
  BY <1>3, <1>4, <1>5, <1>6, <1>7 DEF SetWatched

-----------------------------------------------------------------------------

LEMMA RestKeeps ==
  ASSUME RuleFormInv, presets' \subseteq Presets, formCalls' \subseteq FormRequests, CallsFit',
         UNCHANGED <<written, form, formLoading, formAsks, latestAsk, formAt, moved>>
  PROVE  RuleFormInv'
<1>1. FormTyped'
  BY DEF RuleFormInv, FormTyped
<1>2. WrittenFit' /\ OwnRoute' /\ LastAsk'
  BY DEF RuleFormInv, WrittenFit, OwnRoute, LastAsk
<1> QED
  BY <1>1, <1>2 DEF RuleFormInv

LEMMA CallKeeps ==
  ASSUME RuleFormInv, NEW c \in FormRequests, Call(c),
         c.kind \in {"put", "post"} => c.body \in Values /\ Complete(c.body),
         c.kind \in {"put", "delete"} => c.of \in Formed,
         c.kind = "put" /\ c.of \notin moved => c.body.by = c.of
  PROVE  RuleFormInv'
<1>1. /\ formCalls' = formCalls \cup {c}
      /\ UNCHANGED <<written, form, formLoading, formAsks, latestAsk, presets, formAt, moved>>
  BY DEF Call
<1>2. formCalls' \subseteq FormRequests /\ CallsFit'
  BY <1>1 DEF RuleFormInv, FormTyped, CallsFit
<1> QED
  BY <1>1, <1>2, RestKeeps DEF RuleFormInv, FormTyped

LEMMA RequestTyped ==
  ASSUME NEW k \in {"put", "post", "test", "delete"}, NEW r \in Formed \cup {Creating},
         NEW v \in Values \cup {Missing}
  PROVE  [kind |-> k, of |-> r, body |-> v, here |-> TRUE] \in FormRequests
  BY DEF FormRequests

LEMMA RequestsKeep ==
  ASSUME RuleFormInv, SaveRule \/ CreateRule \/ TestRule \/ RemoveRule
  PROVE  RuleFormInv'
<1>1. form \in Values /\ Sent(form) \in Values /\ Sent(form).by = form.by
      /\ (Complete(form) => Complete(Sent(form)))
  BY SentFits DEF RuleFormInv, FormTyped
<1>2. formAt \in Formed \cup {Creating, NoForm}
  BY DEF RuleFormInv, FormTyped
<1>3. CASE SaveRule
  <2> DEFINE c == [kind |-> "put", of |-> formAt, body |-> Sent(form), here |-> TRUE]
  <2>1. formAt \in Formed /\ ~formLoading /\ Complete(form) /\ Call(c)
    BY <1>3 DEF SaveRule, FormButtons, FormShown
  <2>2. formAt \notin moved => form.by = formAt
    BY <2>1 DEF RuleFormInv, OwnRoute
  <2>3. c \in FormRequests /\ c.kind = "put" /\ c.of = formAt /\ c.body = Sent(form)
    BY <1>1, <2>1, RequestTyped
  <2> HIDE DEF c
  <2> QED
    BY <1>1, <2>1, <2>2, <2>3, CallKeeps
<1>4. CASE CreateRule
  <2> DEFINE c == [kind |-> "post", of |-> Creating, body |-> Sent(form), here |-> TRUE]
  <2>1. Complete(form) /\ Call(c)
    BY <1>4 DEF CreateRule
  <2>2. c \in FormRequests /\ c.kind = "post" /\ c.body = Sent(form)
    BY <1>1, RequestTyped
  <2> HIDE DEF c
  <2> QED
    BY <1>1, <2>1, <2>2, CallKeeps
<1>5. CASE TestRule
  <2> DEFINE c == [kind |-> "test", of |-> formAt, body |-> Sent(form), here |-> TRUE]
  <2>1. formAt # NoForm /\ Call(c)
    BY <1>5 DEF TestRule, FormButtons, FormShown
  <2>2. c \in FormRequests /\ c.kind = "test"
    BY <1>1, <1>2, <2>1, RequestTyped
  <2> HIDE DEF c
  <2> QED
    BY <2>1, <2>2, CallKeeps
<1>6. CASE RemoveRule
  <2> DEFINE c == [kind |-> "delete", of |-> formAt, body |-> Missing, here |-> TRUE]
  <2>1. formAt \in Formed /\ Call(c)
    BY <1>6 DEF RemoveRule, EditHeader, FormShown
  <2>2. c \in FormRequests /\ c.kind = "delete" /\ c.of = formAt
    BY <2>1, RequestTyped
  <2> HIDE DEF c
  <2> QED
    BY <2>1, <2>2, CallKeeps
<1> QED
  BY <1>3, <1>4, <1>5, <1>6

LEMMA RuleFormStep == RuleFormInv /\ [RuleFormNext]_ruleFormVars => RuleFormInv'
<1> SUFFICES ASSUME RuleFormInv, [RuleFormNext]_ruleFormVars PROVE RuleFormInv'
  OBVIOUS
<1>1. ASSUME UNCHANGED <<written, form, formLoading, formAsks, latestAsk, formAt, moved>>,
             presets' \subseteq Presets, formCalls' \subseteq formCalls
      PROVE  RuleFormInv'
  BY <1>1, RestKeeps DEF RuleFormInv, FormTyped, CallsFit
<1>2. presets \subseteq Presets
  BY DEF RuleFormInv, FormTyped
<1>3. ASSUME NEW found \in SUBSET Presets, PresetsLoaded(found) PROVE RuleFormInv'
  BY <1>1, <1>3 DEF PresetsLoaded
<1>4. CASE StrayLoadAnswered(FALSE)
  BY <1>1, <1>2, <1>4 DEF StrayLoadAnswered
<1>5. ASSUME NEW c \in formCalls, CallEnds(c) PROVE RuleFormInv'
  BY <1>1, <1>2, <1>5 DEF CallEnds
<1>6. CASE UNCHANGED ruleFormVars
  BY <1>1, <1>2, <1>6 DEF ruleFormVars, formVs
<1> QED
  BY <1>3, <1>4, <1>5, <1>6, OpensKeep, CallDoneKeeps, MoveToRuleKeeps, RuleLoadedKeeps,
     FormFieldsKeep, RequestsKeep DEF RuleFormNext

LEMMA RulesKept == RuleFormInv => RulesKeepTheirOwn
  BY DEF RuleFormInv, FormTyped, WrittenFit, LastAsk, Complete, RulesKeepTheirOwn

-----------------------------------------------------------------------------
(***************************************************************************)
(* The status pages.  The fields hold the rules of the page whose fields   *)
(* they are, or none, unless that page inherits (AclFollows), and so does  *)
(* what is sent to it (PutFollows).  The order is only changed by what     *)
(* keeps its length and its entries in step with the chosen agents; a row  *)
(* that is dragged is one of it, unless the page was read meanwhile.       *)
(***************************************************************************)
PagesTyped ==
  /\ storedPages \in [StatusPages -> Acls \cup {Unset}]
  /\ pageOf \in StatusPages \cup {NewPage} /\ aclOf \in Acls
  /\ viewAsks \in Seq(StatusPages \cup {NewPage})
  /\ placed \in Seq(PageHosts \cup {NoHost}) /\ chosen \subseteq PageHosts
  /\ pagePut.acl \in Acls

AclFollows == pageOf \in StatusPages \ inherits => aclOf \in {pageOf, NoRules}

PutFollows ==
  /\ pagePut.to \in StatusPages \ inherits => pagePut.acl \in {pagePut.to, NoRules}
  /\ pagePut # NoPut => pagePut.hosts # {}

PagesKeepRules == \A p \in StatusPages \ inherits : storedPages[p] \in {p, NoRules, Unset}

\* What an order is of a set of agents.
InStep(s, S) == ToSet(s) = S /\ Cardinality(S) = Len(s)

OrderFollows ==
  ~spoiled => InStep(placed, chosen) /\ (dragAt # 0 => dragAt \in DOMAIN placed)

PagesInv == PagesTyped /\ AclFollows /\ PutFollows /\ PagesKeepRules /\ OrderFollows

LEMMA NothingInStep == <<>> \in Seq(PageHosts \cup {NoHost}) /\ InStep(<<>>, {})
<1>1. ToSet(<<>>) = {}
  BY DEF ToSet
<1> QED
  BY <1>1, FS_EmptySet DEF InStep

LEMMA NoPutFits ==
  NoPut.to = NoPageView /\ NoPut.acl \in Acls /\ NoPageView \notin StatusPages
  BY StatusPageAssumption DEF NoPut, Acls

LEMMA PagesInvInit == StatusPagesInit => PagesInv
<1> SUFFICES ASSUME StatusPagesInit PROVE PagesInv
  OBVIOUS
<1>1. /\ pageOf = NewPage /\ aclOf = NoRules /\ viewAsks = <<>> /\ placed = <<>>
      /\ chosen = {} /\ dragAt = 0 /\ pagePut = NoPut
      /\ storedPages \in [StatusPages -> Acls \cup {Unset}]
      /\ \A p \in StatusPages : storedPages[p] \in {p, NoRules, Unset}
  BY DEF StatusPagesInit
<1>2. NoRules \in Acls /\ <<>> \in Seq(StatusPages \cup {NewPage})
  BY DEF Acls
<1>3. PagesTyped
  BY <1>1, <1>2, NothingInStep, NoPutFits DEF PagesTyped
<1>4. AclFollows /\ PutFollows /\ PagesKeepRules
  BY <1>1, NoPutFits, StatusPageAssumption DEF AclFollows, PutFollows, PagesKeepRules
<1>5. OrderFollows
  BY <1>1, NothingInStep DEF OrderFollows
<1> QED
  BY <1>3, <1>4, <1>5 DEF PagesInv

-----------------------------------------------------------------------------
(* The views *)

\* The form is emptied, and the rest may change as it likes.
LEMMA EmptiedKeeps ==
  ASSUME PagesInv, EmptyFields, UNCHANGED inherits,
         viewAsks' \in Seq(StatusPages \cup {NewPage}),
         pagePut' \in {pagePut, NoPut},
         storedPages' \in [StatusPages -> Acls \cup {Unset}], PagesKeepRules'
  PROVE  PagesInv'
<1>1. /\ pageOf' = NewPage /\ aclOf' = NoRules /\ chosen' = {} /\ placed' = <<>> /\ dragAt' = 0
  BY DEF EmptyFields
<1>2. PagesTyped'
  BY <1>1, NothingInStep, NoPutFits DEF PagesInv, PagesTyped, Acls
<1>3. AclFollows' /\ PutFollows'
  BY <1>1, NoPutFits, StatusPageAssumption DEF PagesInv, AclFollows, PutFollows
<1>4. OrderFollows'
  BY <1>1, NothingInStep DEF OrderFollows
<1> QED
  BY <1>2, <1>3, <1>4 DEF PagesInv

LEMMA NoAsks ==
  ASSUME NEW v \in StatusPages \cup {NewPage}
  PROVE  /\ <<>> \in Seq(StatusPages \cup {NewPage})
         /\ <<v>> \in Seq(StatusPages \cup {NewPage})
  OBVIOUS

\* A page of the server gets what may be its own.
LEMMA WrittenKeeps ==
  ASSUME PagesInv, UNCHANGED inherits, NEW p \in StatusPages, NEW a \in Acls \cup {Unset},
         p \notin inherits => a \in {p, NoRules, Unset},
         storedPages' = [storedPages EXCEPT ![p] = a]
  PROVE  storedPages' \in [StatusPages -> Acls \cup {Unset}] /\ PagesKeepRules'
  BY DEF PagesInv, PagesTyped, PagesKeepRules

LEMMA StoredStays ==
  ASSUME PagesInv, UNCHANGED <<inherits, storedPages>>
  PROVE  storedPages' \in [StatusPages -> Acls \cup {Unset}] /\ PagesKeepRules'
  BY DEF PagesInv, PagesTyped, PagesKeepRules

LEMMA ViewsKeep ==
  ASSUME PagesInv,
         AddPage \/ LeavePage \/ RemovePage \/ PageSaved \/ \E p \in StatusPages : EditPage(p)
  PROVE  PagesInv'
<1>1. ASSUME NEW v \in StatusPages \cup {NewPage}, Enter(v) PROVE PagesInv'
  BY <1>1, NoAsks, StoredStays, EmptiedKeeps DEF Enter
<1>2. <<>> \in Seq(StatusPages \cup {NewPage})
  OBVIOUS
<1>3. CASE LeavePage
  BY <1>2, <1>3, StoredStays, EmptiedKeeps DEF LeavePage, ToList
<1>4. CASE RemovePage
  <2>1. /\ pageOf \in StatusPages /\ storedPages' = [storedPages EXCEPT ![pageOf] = Unset]
        /\ UNCHANGED inherits
    BY <1>4 DEF RemovePage
  <2>2. storedPages' \in [StatusPages -> Acls \cup {Unset}] /\ PagesKeepRules'
    BY <2>1, WrittenKeeps
  <2> QED
    BY <1>2, <1>4, <2>2, EmptiedKeeps DEF RemovePage, ToList
<1>5. CASE PageSaved
  <2>1. PICK p \in StatusPages :
          /\ IF pagePut.to = NewPage THEN storedPages[p] = Unset
             ELSE pagePut.to = p /\ storedPages[p] # Unset
          /\ storedPages' = [storedPages EXCEPT
                               ![p] = IF pagePut.to = NewPage THEN p ELSE pagePut.acl]
    BY <1>5 DEF PageSaved
  <2> DEFINE a == IF pagePut.to = NewPage THEN p ELSE pagePut.acl
  <2>2. a \in Acls /\ (p \notin inherits => a \in {p, NoRules, Unset})
    BY <2>1 DEF PagesInv, PagesTyped, PutFollows, Acls
  <2>3. storedPages' = [storedPages EXCEPT ![p] = a]
    BY <2>1
  <2> HIDE DEF a
  <2>4. storedPages' \in [StatusPages -> Acls \cup {Unset}] /\ PagesKeepRules'
    BY <1>5, <2>2, <2>3, WrittenKeeps DEF PageSaved
  <2> QED
    BY <1>2, <1>5, <2>4, EmptiedKeeps DEF PageSaved, ToList
<1> QED
  BY <1>1, <1>3, <1>4, <1>5 DEF AddPage, EditPage

LEMMA AsksKeep ==
  ASSUME PagesInv, UNCHANGED <<fieldVs, pagePut, inherits>>,
         viewAsks' \in Seq(StatusPages \cup {NewPage}),
         storedPages' \in [StatusPages -> Acls \cup {Unset}], PagesKeepRules'
  PROVE  PagesInv'
<1>1. PagesTyped'
  BY DEF PagesInv, PagesTyped, fieldVs
<1>2. AclFollows' /\ PutFollows' /\ OrderFollows'
  BY DEF PagesInv, AclFollows, PutFollows, OrderFollows, fieldVs
<1> QED
  BY <1>1, <1>2 DEF PagesInv

LEMMA ListKeeps ==
  ASSUME PagesInv,
         \/ \E p \in StatusPages : AskRemovePage(p) \/ MoveToPage(p)
         \/ \E gone \in BOOLEAN : RemoveAnswered(gone)
         \/ \E i \in DOMAIN viewAsks : ReadFails(i)
         \/ UNCHANGED statusPageVars
  PROVE  PagesInv'
<1>1. viewAsks \in Seq(StatusPages \cup {NewPage})
  BY DEF PagesInv, PagesTyped
<1>2. CASE UNCHANGED statusPageVars \/ \E p \in StatusPages : AskRemovePage(p)
  BY <1>1, <1>2, StoredStays, AsksKeep DEF statusPageVars, AskRemovePage
<1>3. ASSUME NEW p \in StatusPages, MoveToPage(p) PROVE PagesInv'
  <2>1. viewAsks' \in Seq(StatusPages \cup {NewPage})
    BY <1>1, <1>3, Appended DEF MoveToPage
  <2> QED
    BY <1>3, <2>1, StoredStays, AsksKeep DEF MoveToPage
<1>4. ASSUME NEW i \in DOMAIN viewAsks, ReadFails(i) PROVE PagesInv'
  <2>1. viewAsks' \in Seq(StatusPages \cup {NewPage})
    BY <1>1, <1>4, TakenOutHolds DEF ReadFails
  <2> QED
    BY <1>4, <2>1, StoredStays, AsksKeep DEF ReadFails
<1>5. ASSUME NEW gone \in BOOLEAN, RemoveAnswered(gone) PROVE PagesInv'
  <2>1. /\ storedPages' = IF gone THEN [storedPages EXCEPT ![pageAsking] = Unset] ELSE storedPages
        /\ UNCHANGED <<viewAsks, fieldVs, pagePut, inherits>>
    BY <1>5 DEF RemoveAnswered
  <2>2. storedPages' \in [StatusPages -> Acls \cup {Unset}] /\ PagesKeepRules'
    BY <2>1 DEF PagesInv, PagesTyped, PagesKeepRules
  <2> QED
    BY <1>1, <2>1, <2>2, AsksKeep
<1> QED
  BY <1>2, <1>3, <1>4, <1>5

\* The form of a page shows it, with its rules, or takes those it had for it.
LEMMA PageReadKeeps ==
  ASSUME PagesInv, NEW i \in DOMAIN viewAsks, PageRead(i)
  PROVE  PagesInv'
<1> DEFINE p == viewAsks[i]
<1>1. /\ p \in StatusPages /\ storedPages[p] # Unset /\ pageOf' = p
      /\ aclOf' = IF storedPages[p] = NoRules THEN aclOf ELSE storedPages[p]
      /\ inherits' = IF storedPages[p] = NoRules /\ aclOf \notin {p, NoRules}
                     THEN inherits \cup {p} ELSE inherits
      /\ chosen' \in SUBSET PageHosts /\ placed' \in SetToSeqs(chosen')
      /\ spoiled' = (spoiled \/ dragAt # 0) /\ viewAsks' = RemoveAt(viewAsks, i)
      /\ UNCHANGED <<storedPages, dragAt, pagePut>>
  BY DEF PageRead
<1> HIDE DEF p
<1>2. viewAsks' \in Seq(StatusPages \cup {NewPage})
  BY <1>1, TakenOutHolds DEF PagesInv, PagesTyped
<1>3. IsFiniteSet(chosen')
  BY <1>1, FS_Subset, StatusPageAssumption
<1>4. placed' \in Seq(chosen') /\ InStep(placed', chosen')
  <2>1. ASSUME NEW S, IsFiniteSet(S), NEW s \in SetToSeqs(S) PROVE s \in Seq(S) /\ InStep(s, S)
    BY <2>1, OrdersHoldOnce DEF InStep
  <2> QED
    BY <1>1, <1>3, <2>1
<1>5. placed' \in Seq(PageHosts \cup {NoHost})
  <2>1. ASSUME NEW S \in SUBSET PageHosts, NEW s \in Seq(S) PROVE s \in Seq(PageHosts \cup {NoHost})
    OBVIOUS
  <2> QED
    BY <1>1, <1>4, <2>1
<1>6. aclOf' \in Acls
  BY <1>1 DEF PagesInv, PagesTyped
<1>7. PagesTyped'
  BY <1>1, <1>2, <1>5, <1>6 DEF PagesInv, PagesTyped
<1>8. AclFollows'
  BY <1>1 DEF PagesInv, PagesKeepRules, AclFollows
<1>9. PutFollows' /\ PagesKeepRules'
  BY <1>1 DEF PagesInv, PutFollows, PagesKeepRules
<1>10. OrderFollows'
  BY <1>1, <1>4 DEF OrderFollows
<1> QED
  BY <1>7, <1>8, <1>9, <1>10 DEF PagesInv

LEMMA HostsReadKeeps ==
  ASSUME PagesInv, NEW i \in DOMAIN viewAsks, HostsRead(i)
  PROVE  PagesInv'
<1>1. /\ viewAsks' = RemoveAt(viewAsks, i)
      /\ UNCHANGED <<storedPages, pageOf, aclOf, chosen, placed, dragAt, spoiled, pagePut, inherits>>
  BY DEF HostsRead
<1>2. viewAsks' \in Seq(StatusPages \cup {NewPage})
  BY <1>1, TakenOutHolds DEF PagesInv, PagesTyped
<1>3. PagesTyped'
  BY <1>1, <1>2 DEF PagesInv, PagesTyped
<1>4. AclFollows' /\ PutFollows' /\ PagesKeepRules' /\ OrderFollows'
  BY <1>1 DEF PagesInv, AclFollows, PutFollows, PagesKeepRules, OrderFollows
<1> QED
  BY <1>3, <1>4 DEF PagesInv

LEMMA SubmitKeeps ==
  ASSUME PagesInv, SubmitPage \/ SaveFails
  PROVE  PagesInv'
<1>1. /\ UNCHANGED <<storedPages, viewAsks, pageOf, aclOf, chosen, placed, dragAt, spoiled, inherits>>
      /\ \/ pagePut' = NoPut
         \/ placed # <<>> /\ pagePut' = [to |-> pageOf, acl |-> aclOf, hosts |-> ToSet(placed)]
  BY DEF SubmitPage, SaveFails, fieldVs
<1>2. placed # <<>> => ToSet(placed) # {}
  BY HeldOnce DEF PagesInv, PagesTyped
<1>3. PagesTyped'
  BY <1>1, NoPutFits DEF PagesInv, PagesTyped
<1>4. AclFollows' /\ PutFollows' /\ PagesKeepRules' /\ OrderFollows'
  BY <1>1, <1>2, NoPutFits DEF PagesInv, AclFollows, PutFollows, PagesKeepRules, OrderFollows
<1> QED
  BY <1>3, <1>4 DEF PagesInv

-----------------------------------------------------------------------------
(* The order *)

LEMMA FieldsPutKeep ==
  ASSUME PagesInv, NEW H, NEW s, PutFields(H, s), H \subseteq PageHosts,
         s \in Seq(PageHosts \cup {NoHost}),
         ~spoiled => InStep(s, H) /\ (dragAt' # 0 => dragAt' \in DOMAIN s)
  PROVE  PagesInv'
<1>1. /\ chosen' = H /\ placed' = s
      /\ UNCHANGED <<storedPages, viewAsks, pageOf, aclOf, spoiled, pagePut, inherits>>
  BY DEF PutFields
<1>2. PagesTyped'
  BY <1>1 DEF PagesInv, PagesTyped
<1>3. AclFollows' /\ PutFollows' /\ PagesKeepRules' /\ OrderFollows'
  BY <1>1 DEF PagesInv, AclFollows, PutFollows, PagesKeepRules, OrderFollows
<1> QED
  BY <1>2, <1>3 DEF PagesInv

\* Of any set and an order of it.
LEMMA FilteredInStep ==
  ASSUME NEW T, NEW s \in Seq(T), NEW H, InStep(s, H), NEW F
  PROVE  InStep(Without(s, F), H \ F)
<1>1. Once(s)
  BY HeldOnce DEF InStep
<1>2. /\ Without(s, F) \in Seq(T) /\ ToSet(Without(s, F)) = H \ F /\ Once(Without(s, F))
  BY <1>1, FilteredHoldsOnce DEF InStep
<1>3. Cardinality(ToSet(Without(s, F))) = Len(Without(s, F))
  BY <1>2, HeldOnce
<1> QED
  BY <1>2, <1>3 DEF InStep

LEMMA JoinedInStep ==
  ASSUME NEW T, NEW s \in Seq(T), NEW t \in Seq(T), NEW H, NEW F, InStep(s, H), InStep(t, F),
         H \cap F = {}
  PROVE  InStep(s \o t, H \cup F)
<1>1. IsFiniteSet(H) /\ IsFiniteSet(F)
  BY HeldOnce DEF InStep
<1>2. Cardinality(H \cup F) = Cardinality(H) + Cardinality(F)
  <2>1. Cardinality(H \cup F) = Cardinality(H) + Cardinality(F) - Cardinality(H \cap F)
    BY <1>1, FS_Union
  <2>2. Cardinality(H) \in Nat /\ Cardinality(F) \in Nat /\ Cardinality(H \cap F) = 0
    BY <1>1, FS_CardinalityType, FS_EmptySet
  <2> QED
    BY <2>1, <2>2
<1> QED
  BY <1>2, JoinedHold DEF InStep

LEMMA OneInStep ==
  ASSUME NEW T, NEW e \in T
  PROVE  <<e>> \in Seq(T) /\ InStep(<<e>>, {e})
<1>1. ToSet(<<e>>) = {e} /\ Len(<<e>>) = 1 /\ <<e>> \in Seq(T)
  BY DEF ToSet
<1> QED
  BY <1>1, FS_Singleton DEF InStep

\* A row that is moved.
LEMMA MovedInStep ==
  ASSUME NEW T, NEW s \in Seq(T), NEW H, InStep(s, H), NEW d \in DOMAIN s, NEW i \in DOMAIN s
  PROVE  LET t == InsertAt(RemoveAt(s, d), i, s[d])
         IN  InStep(t, H) /\ DOMAIN t = DOMAIN s
<1> DEFINE r == RemoveAt(s, d)
           t == InsertAt(r, i, s[d])
<1>1. s[d] \in T /\ i \in 1 .. Len(s) /\ Len(s) \in Nat /\ DOMAIN s = 1 .. Len(s)
  OBVIOUS
<1>2. r \in Seq(T) /\ Len(r) = Len(s) - 1 /\ ToSet(s) = ToSet(r) \cup {s[d]}
  BY TakenOutHolds
<1> HIDE DEF r
<1>3. i \in 1 .. Len(r) + 1 /\ Len(r) + 1 = Len(s)
  BY <1>1, <1>2
<1>4. t \in Seq(T) /\ Len(t) = Len(r) + 1 /\ ToSet(t) = ToSet(r) \cup {s[d]}
  BY <1>1, <1>2, <1>3, PutInHolds
<1> HIDE DEF t
<1>5. DOMAIN t = DOMAIN s
  <2>1. DOMAIN t = 1 .. Len(t)
    BY <1>4
  <2>2. Len(t) = Len(s)
    BY <1>3, <1>4
  <2> QED
    BY <1>1, <2>1, <2>2
<1>6. InStep(t, H)
  BY <1>2, <1>3, <1>4 DEF InStep
<1> QED
  BY <1>5, <1>6 DEF t, r

LEMMA MovedTyped ==
  ASSUME NEW T, NEW s \in Seq(T), NEW d, NEW i \in DOMAIN s, NEW e \in T
  PROVE  /\ d \in DOMAIN s => InsertAt(RemoveAt(s, d), i, e) \in Seq(T)
         /\ InsertAt(s, i, e) \in Seq(T)
<1>1. i \in 1 .. Len(s) /\ Len(s) \in Nat /\ DOMAIN s = 1 .. Len(s)
  OBVIOUS
<1>2. i \in 1 .. Len(s) + 1
  BY <1>1
<1>3. InsertAt(s, i, e) \in Seq(T)
  BY <1>2, PutInHolds
<1>4. ASSUME d \in DOMAIN s PROVE InsertAt(RemoveAt(s, d), i, e) \in Seq(T)
  <2>1. RemoveAt(s, d) \in Seq(T) /\ Len(RemoveAt(s, d)) = Len(s) - 1
    BY <1>4, TakenOutHolds
  <2>2. i \in 1 .. Len(RemoveAt(s, d)) + 1
    BY <1>1, <2>1
  <2> QED
    BY <2>1, <2>2, PutInHolds
<1> QED
  BY <1>3, <1>4

\* The rows in another order.
LEMMA ReorderedInStep ==
  ASSUME NEW T, NEW s \in Seq(T), NEW p \in SetToSeqs(DOMAIN s)
  PROVE  LET t == [i \in DOMAIN s |-> s[p[i]]]
         IN  /\ t \in Seq(T) /\ DOMAIN t = DOMAIN s
             /\ \A H : InStep(s, H) => InStep(t, H)
<1> DEFINE t == [i \in DOMAIN s |-> s[p[i]]]
<1>1. Len(s) \in Nat /\ DOMAIN s = 1 .. Len(s)
  OBVIOUS
<1>2. IsFiniteSet(DOMAIN s) /\ Cardinality(DOMAIN s) = Len(s)
  BY <1>1, UpFromOne
<1>3. p \in Seq(DOMAIN s) /\ ToSet(p) = DOMAIN s /\ Len(p) = Len(s)
  BY <1>2, OrdersHoldOnce
<1>4. DOMAIN p = DOMAIN s
  BY <1>1, <1>3
<1>5. \A i \in DOMAIN s : p[i] \in DOMAIN s
  BY <1>3, <1>4
<1>6. \A j \in DOMAIN s : \E i \in DOMAIN s : p[i] = j
  BY <1>3, <1>4 DEF ToSet
<1>7. t \in [1 .. Len(s) -> T]
  BY <1>1, <1>5
<1>8. t \in Seq(T) /\ Len(t) = Len(s) /\ DOMAIN t = DOMAIN s
  <2> HIDE DEF t
  <2> QED
    BY <1>1, <1>7, FunctionIsSequence
<1>9. ToSet(t) = ToSet(s)
  <2>1. \A i \in DOMAIN s : t[i] = s[p[i]]
    OBVIOUS
  <2> HIDE DEF t
  <2> QED
    BY <1>5, <1>6, <1>8, <2>1 DEF ToSet
<1> HIDE DEF t
<1>10. \A H : InStep(s, H) => InStep(t, H)
  BY <1>8, <1>9 DEF InStep
<1> QED
  BY <1>8, <1>10 DEF t

LEMMA HostsChosenKeep ==
  ASSUME PagesInv, \/ \E H \in SUBSET PageHosts : SelectAllFound(H)
                   \/ \E h \in PageHosts : ToggleHost(h)
  PROVE  PagesInv'
<1> DEFINE T == PageHosts \cup {NoHost}
<1>1. /\ placed \in Seq(T) /\ chosen \subseteq PageHosts
      /\ ~spoiled => InStep(placed, chosen)
  BY DEF PagesInv, PagesTyped, OrderFollows
<1>2. ASSUME NEW F \in SUBSET PageHosts, dragAt' = 0, PutFields(chosen \ F, Without(placed, F))
      PROVE  PagesInv'
  <2>1. Without(placed, F) \in Seq(T)
    BY <1>1, FilteredHoldsOnce
  <2>2. ~spoiled => InStep(Without(placed, F), chosen \ F)
    BY <1>1, FilteredInStep
  <2> QED
    BY <1>1, <1>2, <2>1, <2>2, FieldsPutKeep
<1>3. ASSUME NEW F \in SUBSET PageHosts, dragAt' = 0, NEW t \in Seq(T), InStep(t, F),
             chosen \cap F = {}, PutFields(chosen \cup F, placed \o t)
      PROVE  PagesInv'
  <2>1. placed \o t \in Seq(T)
    BY <1>1, JoinedHold
  <2>2. ~spoiled => InStep(placed \o t, chosen \cup F)
    BY <1>1, <1>3, JoinedInStep
  <2> QED
    BY <1>1, <1>3, <2>1, <2>2, FieldsPutKeep
<1>4. ASSUME NEW h \in PageHosts, ToggleHost(h) PROVE PagesInv'
  <2>1. dragAt' = 0
    BY <1>4 DEF ToggleHost, HostRows
  <2>2. CASE h \in chosen
    <3>1. PutFields(chosen \ {h}, Without(placed, {h})) /\ {h} \in SUBSET PageHosts
      BY <1>4, <2>2 DEF ToggleHost
    <3> QED
      BY <1>2, <2>1, <3>1
  <2>3. CASE h \notin chosen
    <3>1. Append(placed, h) = placed \o <<h>>
      BY <1>1, AppendIsConcat
    <3>2. PutFields(chosen \cup {h}, placed \o <<h>>) /\ chosen \cap {h} = {}
      BY <1>4, <2>3, <3>1 DEF ToggleHost
    <3>3. <<h>> \in Seq(T) /\ InStep(<<h>>, {h}) /\ {h} \in SUBSET PageHosts
      BY OneInStep
    <3> QED
      BY <1>3, <2>1, <3>2, <3>3
  <2> QED
    BY <2>2, <2>3
<1>5. ASSUME NEW F \in SUBSET PageHosts, SelectAllFound(F) PROVE PagesInv'
  <2>1. dragAt' = 0
    BY <1>5 DEF SelectAllFound, HostRows
  <2>2. CASE F \subseteq chosen
    BY <1>2, <1>5, <2>1, <2>2 DEF SelectAllFound
  <2>3. CASE ~(F \subseteq chosen)
    <3> DEFINE N == F \ chosen
    <3>1. PICK added \in SetToSeqs(N) : PutFields(chosen \cup F, placed \o added)
      BY <1>5, <2>3 DEF SelectAllFound
    <3>2. IsFiniteSet(N) /\ N \in SUBSET PageHosts /\ chosen \cap N = {} /\ chosen \cup F = chosen \cup N
      BY FS_Subset, StatusPageAssumption
    <3> HIDE DEF N
    <3>3. added \in Seq(N) /\ InStep(added, N)
      BY <3>2, OrdersHoldOnce DEF InStep
    <3>4. added \in Seq(T)
      BY <3>2, <3>3
    <3> QED
      BY <1>3, <2>1, <3>1, <3>2, <3>3, <3>4
  <2> QED
    BY <2>2, <2>3
<1> QED
  BY <1>4, <1>5

LEMMA DragsKeep ==
  ASSUME PagesInv, DropRow \/ ResetPlaces \/ \E i \in OrderRows : DragRow(i) \/ DragTo(i)
  PROVE  PagesInv'
<1> DEFINE T == PageHosts \cup {NoHost}
<1>1. /\ placed \in Seq(T) /\ chosen \subseteq PageHosts
      /\ ~spoiled => InStep(placed, chosen) /\ (dragAt # 0 => dragAt \in DOMAIN placed)
  BY DEF PagesInv, PagesTyped, OrderFollows
<1>2. CASE DropRow
  BY <1>1, <1>2, FieldsPutKeep DEF DropRow
<1>3. ASSUME NEW i \in OrderRows, DragRow(i) PROVE PagesInv'
  <2>1. PutFields(chosen, placed) /\ dragAt' = i /\ i \in DOMAIN placed
    BY <1>3 DEF DragRow, OrderRows
  <2> QED
    BY <1>1, <2>1, FieldsPutKeep
<1>4. CASE ResetPlaces
  <2>1. PICK s \in SetToSeqs(DOMAIN placed) :
          PutFields(chosen, [i \in DOMAIN placed |-> placed[s[i]]])
    BY <1>4 DEF ResetPlaces
  <2> DEFINE t == [i \in DOMAIN placed |-> placed[s[i]]]
  <2>2. t \in Seq(T) /\ (~spoiled => InStep(t, chosen))
    BY <1>1, ReorderedInStep
  <2>3. dragAt' = 0
    BY <1>4 DEF ResetPlaces
  <2> HIDE DEF t
  <2> QED
    BY <1>1, <2>1, <2>2, <2>3, FieldsPutKeep DEF t
<1>5. ASSUME NEW i \in OrderRows, DragTo(i) PROVE PagesInv'
  <2> DEFINE held == dragAt \in DOMAIN placed
             row  == IF held THEN placed[dragAt] ELSE NoHost
             rest == IF held THEN RemoveAt(placed, dragAt) ELSE placed
             t    == InsertAt(rest, i, row)
  <2>1. PutFields(chosen, t) /\ dragAt' = i /\ dragAt # 0 /\ i \in DOMAIN placed
    BY <1>5 DEF DragTo, OrderRows
  <2>2. CASE held
    <3>1. t = InsertAt(RemoveAt(placed, dragAt), i, placed[dragAt]) /\ placed[dragAt] \in T
      BY <1>1, <2>2
    <3>2. t \in Seq(T)
      BY <1>1, <2>1, <2>2, <3>1, MovedTyped
    <3>3. ~spoiled => InStep(t, chosen) /\ DOMAIN t = DOMAIN placed
      BY <1>1, <2>1, <2>2, <3>1, MovedInStep
    <3> HIDE DEF t
    <3> QED
      BY <1>1, <2>1, <3>2, <3>3, FieldsPutKeep
  <2>3. CASE ~held
    <3>1. t = InsertAt(placed, i, NoHost) /\ spoiled
      BY <1>1, <2>1, <2>3
    <3>2. t \in Seq(T)
      BY <1>1, <2>1, <3>1, MovedTyped
    <3> HIDE DEF t
    <3> QED
      BY <1>1, <2>1, <3>1, <3>2, FieldsPutKeep
  <2> QED
    BY <2>2, <2>3
<1> QED
  BY <1>2, <1>3, <1>4, <1>5

LEMMA PagesStep == PagesInv /\ [StatusPagesNext]_statusPageVars => PagesInv'
  BY ViewsKeep, ListKeeps, PageReadKeeps, HostsReadKeeps, SubmitKeeps, HostsChosenKeep, DragsKeep
     DEF StatusPagesNext

LEMMA PagesKept == PagesInv => StatusPagesKeepTheirOwn
  BY DEF PagesInv, PagesKeepRules, PutFollows, OrderFollows, InStep, StatusPagesKeepTheirOwn

-----------------------------------------------------------------------------
(***************************************************************************)
(* The list of network monitors.  A request is for the page of now, and    *)
(* for the filters of now unless a search is being typed; nothing is asked *)
(* while hidden; and an answer that was read shows the monitors there are, *)
(* or a reading carried others, so that the next one asks again.           *)
(***************************************************************************)
Numbered(p) == IF p < 1 THEN 1 ELSE p

AnswersTyped == [filter : ListFilters \cup {{}}, page : Nat, items : SUBSET Monitors, total : Nat]

ListAsked ==
  /\ request.stage # "none" => /\ visible
                               /\ request.answer.page = Numbered(listPage)
                               /\ request.answer.filter \in ListFilters
  /\ request.stage # "none" /\ ~searching => request.answer.filter = listFilter

AnswerRead ==
  request.stage = "read" =>
    \E S \in SUBSET Monitors :
      request.answer = Answer(request.answer.filter, request.answer.page, S)

\* The monitors changed since the last reading: the next one asks again.
OutOfDate == membership \notin {NoSnapshot, server}

AnswerCurrent ==
  request.stage = "read" /\ ~missed =>
    \/ request.answer = Answer(request.answer.filter, request.answer.page, server)
    \/ OutOfDate

SettledList == visible /\ request.stage = "none" /\ message = "none" /\ ~searching

ShownCurrent ==
  SettledList /\ ~missed => rows = Answer(listFilter, rows.page, server) \/ OutOfDate

\* What the settled list shows.
ShownPage ==
  /\ rows.filter = listFilter
  /\ rows.page = Numbered(listPage)
  /\ label = [page |-> listPage, total |-> rows.total]
  /\ listPage > 1 => rows.items # {}

MonitorsInv == /\ ListTypeOK /\ ListAsked /\ AnswerRead /\ AnswerCurrent /\ ShownCurrent
               /\ (SettledList => ShownPage)

LEMMA LimitTyped == Limit \in Nat /\ Limit >= 1 /\ MaxListPage \in Nat /\ MaxListPage >= 1
  BY NetworkListAssumption

LEMMA FilteredFinite ==
  ASSUME NEW S \in SUBSET Monitors, NEW f
  PROVE  /\ S \cap f \in SUBSET Nat /\ IsFiniteSet(S \cap f) /\ Cardinality(S \cap f) \in Nat
<1>1. S \cap f \in SUBSET Monitors
  OBVIOUS
<1>2. IsFiniteSet(S \cap f)
  BY <1>1, NetworkListAssumption, FS_Subset
<1> QED
  BY <1>1, <1>2, NetworkListAssumption, FS_CardinalityType

LEMMA OneMoreRow ==
  ASSUME NEW p \in Nat, NEW n \in Nat, NEW l \in Nat, l >= 1, p >= 1, (p - 1) * l < n
  PROVE  (p - 1) * l + 1 \in 1 .. n /\ (p - 1) * l \in Nat /\ (p - 1) * l < p * l
<1> DEFINE q == (p - 1) * l
<1>1. q \in Nat
  OBVIOUS
<1>2. p * l = q + l
  OBVIOUS
<1>3. q < n
  OBVIOUS
<1> HIDE DEF q
<1>4. q + 1 \in 1 .. n /\ q < p * l
  BY <1>1, <1>2, <1>3
<1> QED
  BY <1>1, <1>4 DEF q

\* A page that begins below the total holds something.
LEMMA PageHolds ==
  ASSUME NEW S \in SUBSET Nat, IsFiniteSet(S), NEW p \in Nat, p >= 1,
         (p - 1) * Limit < Cardinality(S)
  PROVE  PageOf(S, p) # {}
<1> DEFINE q == (p - 1) * Limit
<1>1. Cardinality(S) \in Nat
  BY FS_CardinalityType
<1>2. q + 1 \in 1 .. Cardinality(S) /\ q \in Nat /\ q < p * Limit
  BY <1>1, LimitTyped, OneMoreRow
<1>3. PICK m \in S : Cardinality(UpTo(S, m)) = q + 1
  BY <1>2, Ranks
<1>4. {n \in S : n < m} = UpTo(S, m) \ {m} /\ m \in UpTo(S, m)
  <2>1. m \in Nat /\ \A n \in S : n \in Nat
    OBVIOUS
  <2>2. ASSUME NEW n \in S PROVE n < m <=> (n <= m /\ n # m)
    <3>1. n \in Nat
      BY <2>1
    <3> QED
      BY <2>1, <3>1
  <2>3. {n \in S : n < m} = {n \in S : n <= m} \ {m}
    BY <2>2
  <2>4. m \in {n \in S : n <= m}
    BY <2>1
  <2> QED
    BY <2>3, <2>4 DEF UpTo
<1>5. IsFiniteSet(UpTo(S, m))
  <2>1. UpTo(S, m) \in SUBSET S
    BY DEF UpTo
  <2> QED
    BY <2>1, FS_Subset
<1>6. Cardinality({n \in S : n < m}) = Cardinality(UpTo(S, m)) - 1
  BY <1>4, <1>5, FS_RemoveElement
<1>7. Cardinality({n \in S : n < m}) = q
  <2> HIDE DEF q
  <2> QED
    BY <1>2, <1>3, <1>6
<1>8. m \in PageOf(S, p)
  <2>1. q <= Cardinality({n \in S : n < m}) /\ Cardinality({n \in S : n < m}) < p * Limit
    <3> HIDE DEF q
    <3> QED
      BY <1>2, <1>7
  <2> QED
    BY <2>1 DEF PageOf
<1> QED
  BY <1>8

LEMMA Quotient ==
  ASSUME NEW a \in Nat, NEW l \in Nat, l >= 1
  PROVE  /\ a \div l \in Nat
         /\ (a \div l) * l <= a
         /\ a < (a \div l) * l + l
  OBVIOUS

LEMMA Fewer ==
  ASSUME NEW a \in Nat, NEW b \in Nat, NEW l \in Nat, l >= 1, a * l < b * l
  PROVE  a < b
<1> SUFFICES ASSUME b <= a PROVE FALSE
  OBVIOUS
<1> DEFINE d == a - b
<1>1. d \in Nat /\ a = b + d
  OBVIOUS
<1>2. d * l \in Nat
  BY <1>1
<1>3. a * l = b * l + d * l
  BY <1>1
<1> HIDE DEF d
<1> QED
  BY <1>2, <1>3

\* The last page is one of those before the page that was beyond it, or the first.
LEMMA LastPageBound ==
  ASSUME NEW n \in Nat, NEW p \in Nat, p > 1, (p - 1) * Limit >= n
  PROVE  LastPage(n) \in 1 .. p
<1>1. CASE n = 0
  BY <1>1 DEF LastPage
<1>2. CASE n # 0
  <2> DEFINE a == n + Limit - 1
             d == a \div Limit
  <2>1. a \in Nat /\ a >= Limit
    BY <1>2, LimitTyped
  <2>2. LastPage(n) = d
    BY <1>2 DEF LastPage
  <2>3. d \in Nat /\ d * Limit <= a /\ a < d * Limit + Limit
    <3> HIDE DEF a
    <3> QED
      BY <2>1, LimitTyped, Quotient
  <2>4. a < p * Limit
    <3>1. p * Limit = (p - 1) * Limit + Limit
      BY LimitTyped
    <3>2. (p - 1) * Limit \in Nat
      BY LimitTyped
    <3> DEFINE q == (p - 1) * Limit
    <3>3. q \in Nat /\ q >= n /\ p * Limit = q + Limit
      BY <3>1, <3>2
    <3> HIDE DEF q
    <3> QED
      BY <3>3, LimitTyped
  <2>5. d < p
    <3>1. d * Limit \in Nat /\ p * Limit \in Nat
      BY <2>3, LimitTyped
    <3>2. d * Limit < p * Limit
      <4> HIDE DEF d, a
      <4> QED
        BY <2>1, <2>3, <2>4, <3>1
    <3> HIDE DEF d
    <3> QED
      BY <2>3, <3>2, LimitTyped, Fewer
  <2>6. d # 0
    <3> HIDE DEF d, a
    <3>1. ASSUME d = 0 PROVE FALSE
      <4>1. d * Limit = 0
        BY <3>1, LimitTyped
      <4> QED
        BY <2>1, <2>3, <4>1, LimitTyped
    <3> QED
      BY <3>1
  <2> QED
    <3> HIDE DEF d
    <3> QED
      BY <2>2, <2>3, <2>5, <2>6
<1> QED
  BY <1>1, <1>2

LEMMA AskTyped ==
  ASSUME NEW f \in ListFilters, NEW p \in Nat
  PROVE  /\ Ask(f, p) \in [stage : {"none", "sent", "read"}, answer : AnswersTyped]
         /\ Ask(f, p).stage = "sent"
         /\ Ask(f, p).answer.filter = f /\ Ask(f, p).answer.page = Numbered(p)
<1>1. BlankList \in AnswersTyped
  BY DEF BlankList, AnswersTyped
<1>2. Numbered(p) \in Nat
  BY DEF Numbered
<1> QED
  BY <1>1, <1>2 DEF Ask, AnswersTyped, Numbered

LEMMA AnswerTyped ==
  ASSUME NEW f \in ListFilters \cup {{}}, NEW p \in Nat, NEW S \in SUBSET Monitors
  PROVE  /\ Answer(f, p, S) \in AnswersTyped
         /\ Answer(f, p, S).filter = f /\ Answer(f, p, S).page = p
         /\ Answer(f, p, S).total = Cardinality(S \cap f)
         /\ Answer(f, p, S).items = PageOf(S \cap f, p)
<1>1. Cardinality(S \cap f) \in Nat
  BY FilteredFinite
<1>2. PageOf(S \cap f, p) \in SUBSET Monitors
  BY DEF PageOf
<1> QED
  BY <1>1, <1>2 DEF Answer, AnswersTyped

LEMMA NothingAsked ==
  /\ NoRequest \in [stage : {"none", "sent", "read"}, answer : AnswersTyped]
  /\ NoRequest.stage = "none" /\ BlankList \in AnswersTyped
<1>1. BlankList \in AnswersTyped
  BY DEF BlankList, AnswersTyped
<1> QED
  BY <1>1 DEF NoRequest

LEMMA MonitorsInvInit == ListInit => MonitorsInv
<1> SUFFICES ASSUME ListInit PROVE MonitorsInv
  OBVIOUS
<1>1. request \in [stage : {"none", "sent", "read"}, answer : AnswersTyped]
  BY AskTyped DEF ListInit
<1>2. request.stage = "sent" /\ request.answer.filter = listFilter
      /\ request.answer.page = Numbered(listPage)
  BY AskTyped DEF ListInit
<1>3. server \in SUBSET Monitors /\ listFilter \in ListFilters
  BY DEF ListInit
<1>4. listPage \in 0 .. MaxListPage
  BY LimitTyped DEF ListInit
<1>5. label \in [page : Nat, total : Nat]
  BY DEF ListInit
<1>6. rows \in AnswersTyped
  BY NothingAsked DEF ListInit
<1>7. /\ visible = TRUE /\ searching = FALSE /\ message = "none" /\ membership = NoSnapshot
      /\ missed = FALSE /\ reconciled = TRUE /\ feed = "opening"
  BY DEF ListInit
<1>8. ListTypeOK
  <2>1. visible \in BOOLEAN /\ searching \in BOOLEAN /\ missed \in BOOLEAN /\ reconciled \in BOOLEAN
    BY <1>7
  <2>2. message \in {"none", "retry", "other"} /\ feed \in {"down", "opening", "up"}
    BY <1>7
  <2>3. membership \in (SUBSET Monitors) \cup {NoSnapshot}
    BY <1>7
  <2>4. rows \in [filter : ListFilters \cup {{}}, page : Nat, items : SUBSET Monitors, total : Nat]
    BY <1>6 DEF AnswersTyped
  <2>5. request \in [stage : {"none", "sent", "read"},
                     answer : [filter : ListFilters \cup {{}}, page : Nat,
                               items : SUBSET Monitors, total : Nat]]
    BY <1>1 DEF AnswersTyped
  <2> QED
    BY <1>3, <1>4, <1>5, <2>1, <2>2, <2>3, <2>4, <2>5 DEF ListTypeOK
<1> QED
  BY <1>2, <1>3, <1>7, <1>8
     DEF MonitorsInv, ListAsked, AnswerRead, AnswerCurrent, ShownCurrent, SettledList

\* Whatever asks for what is shown now.
LEMMA AskedKeeps ==
  ASSUME ListTypeOK, listFilter' \in ListFilters, listPage' \in 0 .. MaxListPage,
         request' = Ask(listFilter', listPage'), visible' = TRUE, searching' \in BOOLEAN,
         server' = server, rows' \in AnswersTyped, label' \in [page : Nat, total : Nat],
         message' \in {"none", "retry", "other"},
         membership' \in (SUBSET Monitors) \cup {NoSnapshot}, missed' \in BOOLEAN,
         reconciled' \in BOOLEAN, feed' \in {"down", "opening", "up"}
  PROVE  MonitorsInv'
<1>1. listPage' \in Nat
  BY LimitTyped
<1>2. /\ request' \in [stage : {"none", "sent", "read"}, answer : AnswersTyped]
      /\ request'.stage = "sent"
      /\ request'.answer.filter = listFilter' /\ request'.answer.page = Numbered(listPage')
  BY <1>1, AskTyped
<1>3. ListTypeOK'
  BY <1>2 DEF ListTypeOK, AnswersTyped
<1> QED
  BY <1>2, <1>3 DEF MonitorsInv, ListAsked, AnswerRead, AnswerCurrent, ShownCurrent, SettledList,
                    Numbered

LEMMA ServerReadsKeeps ==
  ASSUME MonitorsInv, ServerReads
  PROVE  MonitorsInv'
<1> DEFINE f == request.answer.filter
           p == request.answer.page
<1>1. f \in ListFilters /\ p \in Nat /\ server \in SUBSET Monitors
  BY DEF MonitorsInv, ListTypeOK, ListAsked, ServerReads
<1>2. /\ Answer(f, p, server) \in AnswersTyped
      /\ Answer(f, p, server).filter = f /\ Answer(f, p, server).page = p
  <2> HIDE DEF f, p
  <2>1. f \in ListFilters \cup {{}}
    BY <1>1
  <2> QED
    BY <1>1, <2>1, AnswerTyped
<1>3. request'.stage = "read" /\ request'.answer = Answer(f, p, server)
  BY DEF ServerReads
<1>4. request' \in [stage : {"none", "sent", "read"}, answer : AnswersTyped]
  BY <1>2 DEF ServerReads
<1>5. /\ UNCHANGED <<server, visible, listFilter, searching, listPage, rows, label, message,
                     membership, reconciled, feed>>
      /\ missed' = FALSE
  BY DEF ServerReads, controls, feedVars
<1>6. ListTypeOK'
  BY <1>4, <1>5 DEF MonitorsInv, ListTypeOK, AnswersTyped
<1>7. ListAsked'
  <2>1. request.stage = "sent"
    BY DEF ServerReads
  <2>2. p = Numbered(listPage) /\ visible /\ (~searching => f = listFilter)
    BY <2>1 DEF MonitorsInv, ListAsked
  <2>3. request'.answer.filter = f /\ request'.answer.page = p
    BY <1>2, <1>3
  <2> HIDE DEF f, p
  <2> QED
    BY <1>1, <1>3, <1>5, <2>2, <2>3 DEF ListAsked, Numbered
<1>8. request'.answer.filter = f /\ request'.answer.page = p
  BY <1>2, <1>3
<1>9. AnswerRead' /\ AnswerCurrent'
  <2> HIDE DEF f, p
  <2> QED
    BY <1>1, <1>3, <1>5, <1>8 DEF AnswerRead, AnswerCurrent
<1>10. ~SettledList'
  BY <1>3 DEF SettledList
<1> QED
  BY <1>6, <1>7, <1>9, <1>10 DEF MonitorsInv, ShownCurrent

\* An answer that is rendered.
LEMMA RenderedKeeps ==
  ASSUME MonitorsInv, request.stage = "read", ~BeyondEnd(request.answer.total),
         rows' = request.answer, request' = NoRequest, message' = "none",
         label' = [page |-> listPage, total |-> request.answer.total],
         UNCHANGED <<server, visible, listFilter, searching, listPage, membership, reconciled,
                     feed, missed>>
  PROVE  MonitorsInv'
<1> DEFINE f == request.answer.filter
           p == request.answer.page
<1>1. PICK S \in SUBSET Monitors : request.answer = Answer(f, p, S)
  BY DEF MonitorsInv, AnswerRead
<1>2. /\ request.answer \in AnswersTyped /\ f \in ListFilters /\ p \in Nat
      /\ request.answer.total \in Nat /\ listPage \in Nat
  BY LimitTyped DEF MonitorsInv, ListTypeOK, ListAsked, AnswersTyped
<1>3. p = Numbered(listPage) /\ (~searching => f = listFilter)
  BY DEF MonitorsInv, ListAsked
<1>4. request'.stage = "none" /\ request' \in [stage : {"none", "sent", "read"}, answer : AnswersTyped]
  BY NothingAsked
<1>5. label' \in [page : Nat, total : Nat]
  BY <1>2
<1>6. ListTypeOK'
  BY <1>2, <1>4, <1>5 DEF MonitorsInv, ListTypeOK, AnswersTyped
<1>7. ListAsked' /\ AnswerRead' /\ AnswerCurrent'
  BY <1>4 DEF ListAsked, AnswerRead, AnswerCurrent
<1>8. listPage > 1 => request.answer.items # {}
  <2> SUFFICES ASSUME listPage > 1 PROVE request.answer.items # {}
    OBVIOUS
  <2>1. p = listPage
    BY <1>2, <1>3 DEF Numbered
  <2>2. (listPage - 1) * Limit < request.answer.total
    <3>1. (listPage - 1) * Limit \in Nat
      BY <1>2, LimitTyped
    <3>2. ~((listPage - 1) * Limit >= request.answer.total)
      BY DEF BeyondEnd
    <3> DEFINE q == (listPage - 1) * Limit
               n == request.answer.total
    <3>3. q \in Nat /\ n \in Nat /\ ~(q >= n)
      BY <1>2, <3>1, <3>2
    <3> HIDE DEF q, n
    <3>4. q < n
      BY <3>3
    <3> QED
      BY <3>4 DEF q, n
  <2>3. request.answer.total = Cardinality(S \cap f) /\ request.answer.items = PageOf(S \cap f, p)
    <3> HIDE DEF f, p
    <3>1. f \in ListFilters \cup {{}}
      BY <1>2
    <3> QED
      BY <1>1, <1>2, <3>1, AnswerTyped
  <2>4. S \cap f \in SUBSET Nat /\ IsFiniteSet(S \cap f)
    BY FilteredFinite
  <2>5. PageOf(S \cap f, listPage) # {}
    <3>1. listPage >= 1 /\ (listPage - 1) * Limit < Cardinality(S \cap f)
      <4> HIDE DEF f
      <4> QED
        BY <1>2, <2>2, <2>3
    <3> HIDE DEF f
    <3> QED
      BY <1>2, <2>4, <3>1, PageHolds
  <2> QED
    BY <2>1, <2>3, <2>5
<1>9. SettledList' => ShownPage'
  <2> SUFFICES ASSUME ~searching PROVE ShownPage'
    BY DEF SettledList
  <2> QED
    BY <1>3, <1>8 DEF ShownPage, Numbered
<1>10. ShownCurrent'
  <2> SUFFICES ASSUME ~searching, ~missed
               PROVE  rows' = Answer(listFilter', rows'.page, server') \/ OutOfDate'
    BY DEF ShownCurrent, SettledList
  <2>1. request.answer = Answer(f, p, server) \/ OutOfDate
    BY DEF MonitorsInv, AnswerCurrent
  <2>2. OutOfDate' = OutOfDate
    BY DEF OutOfDate
  <2>3. f = listFilter
    BY <1>3
  <2> QED
    BY <2>1, <2>2, <2>3
<1> QED
  BY <1>6, <1>7, <1>9, <1>10 DEF MonitorsInv

LEMMA PageAnswerKeeps ==
  ASSUME MonitorsInv, PageAnswer
  PROVE  MonitorsInv'
<1>1. /\ request.stage = "read" /\ rows' = request.answer
      /\ UNCHANGED <<server, visible, listFilter, searching, membership, reconciled, feed, missed>>
  BY DEF PageAnswer, feedVars
<1>2. CASE BeyondEnd(request.answer.total)
  <2> DEFINE n == request.answer.total
  <2>1. listPage' = LastPage(n) /\ request' = Ask(listFilter, LastPage(n)) /\ UNCHANGED <<label, message>>
    BY <1>2 DEF PageAnswer, RefreshList
  <2>2. /\ n \in Nat /\ listPage \in 0 .. MaxListPage /\ listPage \in Nat
        /\ request.answer \in AnswersTyped
    BY LimitTyped DEF MonitorsInv, ListTypeOK, AnswersTyped
  <2>3. listPage > 1 /\ (listPage - 1) * Limit >= n
    BY <1>2 DEF BeyondEnd
  <2>4. LastPage(n) \in 1 .. listPage
    <3> HIDE DEF n
    <3> QED
      BY <2>2, <2>3, LastPageBound
  <2>5. LastPage(n) \in 0 .. MaxListPage
    <3> HIDE DEF n
    <3> QED
      BY <2>2, <2>4, LimitTyped
  <2>6. visible
    BY <1>1 DEF MonitorsInv, ListAsked
  <2> HIDE DEF n
  <2>7. /\ listFilter' \in ListFilters /\ visible' = TRUE /\ searching' \in BOOLEAN
        /\ label' \in [page : Nat, total : Nat] /\ message' \in {"none", "retry", "other"}
        /\ membership' \in (SUBSET Monitors) \cup {NoSnapshot} /\ missed' \in BOOLEAN
        /\ reconciled' \in BOOLEAN /\ feed' \in {"down", "opening", "up"} /\ ListTypeOK
    BY <1>1, <2>1, <2>6 DEF MonitorsInv, ListTypeOK
  <2>8. request' = Ask(listFilter', listPage') /\ rows' \in AnswersTyped
        /\ listPage' \in 0 .. MaxListPage /\ server' = server
    BY <1>1, <2>1, <2>2, <2>5
  <2> QED
    BY <2>7, <2>8, AskedKeeps
<1>3. CASE ~BeyondEnd(request.answer.total)
  BY <1>1, <1>3, RenderedKeeps DEF PageAnswer
<1> QED
  BY <1>2, <1>3

\* A request ends, or the list says something, or is hidden, without showing an answer.
LEMMA UnsettledKeeps ==
  ASSUME MonitorsInv,
         listFilter' \in ListFilters, listPage' \in 0 .. MaxListPage, visible' \in BOOLEAN,
         searching' \in BOOLEAN, rows' \in AnswersTyped, message' \in {"none", "retry", "other"},
         \/ request' = NoRequest
         \/ /\ request' = request /\ UNCHANGED <<visible, listPage>>
            /\ searching' \/ UNCHANGED <<searching, listFilter>>,
         ~visible' \/ message' # "none" \/ searching',
         UNCHANGED <<server, label, membership, reconciled, feed, missed>>
  PROVE  MonitorsInv'
<1>1. request' \in [stage : {"none", "sent", "read"}, answer : AnswersTyped]
  BY NothingAsked DEF MonitorsInv, ListTypeOK, AnswersTyped
<1>2. ListTypeOK'
  BY <1>1 DEF MonitorsInv, ListTypeOK, AnswersTyped
<1>3. ~SettledList'
  BY DEF SettledList
<1>4. ListAsked'
  <2>1. CASE request' = NoRequest
    BY <2>1, NothingAsked DEF ListAsked
  <2>2. CASE request' = request
    BY <2>2, NothingAsked DEF MonitorsInv, ListAsked, Numbered
  <2> QED
    BY <2>1, <2>2
<1>5. AnswerRead' /\ AnswerCurrent'
  <2>1. CASE request' = NoRequest
    BY <2>1, NothingAsked DEF AnswerRead, AnswerCurrent
  <2>2. CASE request' = request
    BY <2>2 DEF MonitorsInv, AnswerRead, AnswerCurrent, OutOfDate
  <2> QED
    BY <2>1, <2>2
<1> QED
  BY <1>2, <1>3, <1>4, <1>5 DEF MonitorsInv, ShownCurrent

LEMMA ListFailsKeeps ==
  ASSUME MonitorsInv, ListFails
  PROVE  MonitorsInv'
<1>1. /\ request' = NoRequest /\ message' = "retry"
      /\ UNCHANGED <<server, visible, listFilter, searching, listPage, rows, label, membership,
                     reconciled, feed, missed>>
  BY DEF ListFails, controls, feedVars
<1>2. /\ listFilter' \in ListFilters /\ listPage' \in 0 .. MaxListPage /\ visible' \in BOOLEAN
      /\ searching' \in BOOLEAN /\ rows' \in AnswersTyped
      /\ message' \in {"none", "retry", "other"}
  BY <1>1 DEF MonitorsInv, ListTypeOK, AnswersTyped
<1> QED
  BY <1>1, <1>2, UnsettledKeeps

LEMMA MutateFailsKeeps ==
  ASSUME MonitorsInv, MutateFails
  PROVE  MonitorsInv'
<1>1. /\ message' = "other"
      /\ UNCHANGED <<server, visible, listFilter, searching, listPage, rows, label, request,
                     membership, reconciled, feed, missed>>
  BY DEF MutateFails, controls, feedVars
<1>2. /\ listFilter' \in ListFilters /\ listPage' \in 0 .. MaxListPage /\ visible' \in BOOLEAN
      /\ searching' \in BOOLEAN /\ rows' \in AnswersTyped
      /\ message' \in {"none", "retry", "other"}
  BY <1>1 DEF MonitorsInv, ListTypeOK, AnswersTyped
<1> QED
  BY <1>1, <1>2, UnsettledKeeps

LEMMA SearchKeeps ==
  ASSUME MonitorsInv, NEW f \in ListFilters, Search(f)
  PROVE  MonitorsInv'
<1>1. /\ listFilter' = f /\ searching' = TRUE
      /\ UNCHANGED <<server, visible, listPage, rows, label, request, message, membership,
                     reconciled, feed, missed>>
  BY DEF Search, listVars, feedVars
<1>2. /\ listFilter' \in ListFilters /\ listPage' \in 0 .. MaxListPage /\ visible' \in BOOLEAN
      /\ searching' \in BOOLEAN /\ rows' \in AnswersTyped
      /\ message' \in {"none", "retry", "other"}
  BY <1>1 DEF MonitorsInv, ListTypeOK, AnswersTyped
<1> QED
  BY <1>1, <1>2, UnsettledKeeps

LEMMA DisappearKeeps ==
  ASSUME MonitorsInv, Disappear
  PROVE  MonitorsInv'
<1>1. /\ visible' = FALSE /\ searching' = FALSE /\ request' = NoRequest
      /\ UNCHANGED <<server, listFilter, listPage, rows, label, message, membership,
                     reconciled, feed, missed>>
  BY DEF Disappear, feedVars
<1>2. /\ listFilter' \in ListFilters /\ listPage' \in 0 .. MaxListPage /\ visible' \in BOOLEAN
      /\ searching' \in BOOLEAN /\ rows' \in AnswersTyped
      /\ message' \in {"none", "retry", "other"}
  BY <1>1 DEF MonitorsInv, ListTypeOK, AnswersTyped
<1> QED
  BY <1>1, <1>2, UnsettledKeeps

LEMMA SetListNodeKeeps ==
  ASSUME MonitorsInv, NEW f \in ListFilters, SetListNode(f)
  PROVE  MonitorsInv'
<1>1. /\ visible' = FALSE /\ searching' = FALSE /\ listFilter' = f /\ listPage' = 1
      /\ request' = NoRequest /\ rows' = [rows EXCEPT !.items = {}]
      /\ UNCHANGED <<server, label, message, membership, reconciled, feed, missed>>
  BY DEF SetListNode, feedVars
<1>2. rows' \in AnswersTyped
  BY <1>1 DEF MonitorsInv, ListTypeOK, AnswersTyped
<1>3. listPage' \in 0 .. MaxListPage
  BY <1>1, LimitTyped
<1>4. /\ listFilter' \in ListFilters /\ visible' \in BOOLEAN /\ searching' \in BOOLEAN
      /\ message' \in {"none", "retry", "other"}
  BY <1>1 DEF MonitorsInv, ListTypeOK
<1> QED
  BY <1>1, <1>2, <1>3, <1>4, UnsettledKeeps

\* What is asked for is what the controls say now.
ListAsksNow ==
  /\ listFilter' \in ListFilters /\ listPage' \in 0 .. MaxListPage
  /\ request' = Ask(listFilter', listPage') /\ visible' = TRUE /\ searching' \in BOOLEAN

\* The controls that ask at once.
LEMMA ListControlsKeep ==
  ASSUME MonitorsInv, \/ RefreshAll \/ (\E f \in ListFilters : FiltersChanged(f))
                      \/ (\E p \in 0 .. MaxListPage : TurnList(p)) \/ Appear
                      \/ (visible /\ MonitorSaved)
  PROVE  MonitorsInv'
<1>1. UNCHANGED <<server, rows, label, message, membership, reconciled, feed, missed>>
  BY DEF RefreshAll, FiltersChanged, TurnList, Appear, MonitorSaved, feedVars, controls
<1>2. /\ ListTypeOK /\ server' = server /\ rows' \in AnswersTyped
      /\ label' \in [page : Nat, total : Nat] /\ message' \in {"none", "retry", "other"}
      /\ membership' \in (SUBSET Monitors) \cup {NoSnapshot} /\ missed' \in BOOLEAN
      /\ reconciled' \in BOOLEAN /\ feed' \in {"down", "opening", "up"}
  BY <1>1 DEF MonitorsInv, ListTypeOK, AnswersTyped
<1>3. /\ listFilter \in ListFilters /\ listPage \in 0 .. MaxListPage /\ visible \in BOOLEAN
      /\ searching \in BOOLEAN /\ 1 \in 0 .. MaxListPage
  BY LimitTyped DEF MonitorsInv, ListTypeOK
<1>4. ListAsksNow
  <2>1. CASE RefreshAll
    <3>1. UNCHANGED <<visible, listFilter, searching, listPage>> /\ visible
          /\ request' = Ask(listFilter, listPage)
      BY <2>1 DEF RefreshAll, RefreshList, controls
    <3> QED
      BY <1>3, <3>1 DEF ListAsksNow
  <2>2. ASSUME NEW f \in ListFilters, FiltersChanged(f) PROVE ListAsksNow
    <3>1. /\ listFilter' = f /\ listPage' = 1 /\ request' = Ask(f, 1)
          /\ visible' = visible /\ visible /\ (searching' = FALSE \/ searching' = searching)
      BY <2>2 DEF FiltersChanged, RefreshList
    <3> QED
      BY <1>3, <3>1 DEF ListAsksNow
  <2>3. ASSUME NEW p \in 0 .. MaxListPage, TurnList(p) PROVE ListAsksNow
    <3>1. /\ listFilter' = listFilter /\ listPage' = p /\ request' = Ask(listFilter, p)
          /\ visible' = visible /\ visible /\ searching' = searching
      BY <2>3 DEF TurnList, RefreshList
    <3> QED
      BY <1>3, <3>1 DEF ListAsksNow
  <2>4. CASE Appear
    BY <2>4, <1>3 DEF Appear, RefreshList, ListAsksNow
  <2>5. CASE visible /\ MonitorSaved
    BY <2>5, <1>3 DEF MonitorSaved, RefreshList, ListAsksNow
  <2> QED
    BY <2>1, <2>2, <2>3, <2>4, <2>5
<1> QED
  BY <1>2, <1>4, AskedKeeps DEF ListAsksNow

\* A hidden list goes to the first page without asking.
LEMMA SavedHiddenKeeps ==
  ASSUME MonitorsInv, MonitorSaved, ~visible
  PROVE  MonitorsInv'
<1>1. /\ listPage' = 1 /\ request' = request /\ visible' = FALSE
      /\ UNCHANGED <<server, listFilter, searching, rows, label, message, membership,
                     reconciled, feed, missed>>
  BY DEF MonitorSaved, feedVars, MonitorsInv, ListTypeOK
<1>2. request.stage = "none"
  BY DEF MonitorsInv, ListAsked
<1>3. 1 \in 0 .. MaxListPage
  BY LimitTyped
<1>4. ListTypeOK'
  BY <1>1, <1>3 DEF MonitorsInv, ListTypeOK
<1> QED
  BY <1>1, <1>2, <1>4 DEF MonitorsInv, ListAsked, AnswerRead, AnswerCurrent, ShownCurrent,
                          SettledList

\* What asks again, or leaves the list as it is: the feed opens, and the poll.
LEMMA FeedAsksKeep ==
  ASSUME MonitorsInv, FeedOpens \/ (\E quiet \in BOOLEAN : Poll(quiet))
  PROVE  MonitorsInv'
<1>1. /\ UNCHANGED <<server, visible, listFilter, searching, listPage, rows, label, message,
                     membership, missed>>
      /\ reconciled' \in BOOLEAN /\ feed' \in {"down", "opening", "up"}
      /\ \/ request' = request
         \/ visible /\ request' = Ask(listFilter, listPage)
  <2>1. CASE FeedOpens
    BY <2>1 DEF FeedOpens, RefreshList, controls
  <2>2. CASE \E quiet \in BOOLEAN : Poll(quiet)
    <3>1. PICK quiet \in BOOLEAN : Poll(quiet)
      BY <2>2
    <3> QED
      BY <3>1 DEF Poll, RefreshList, controls, MonitorsInv, ListTypeOK
  <2> QED
    BY <2>1, <2>2
<1>2. CASE request' = request
  BY <1>1, <1>2 DEF MonitorsInv, ListTypeOK, ListAsked, AnswerRead, AnswerCurrent, OutOfDate,
                    ShownCurrent, SettledList, ShownPage, Numbered
<1>3. CASE visible /\ request' = Ask(listFilter, listPage)
  <2>1. /\ ListTypeOK /\ listFilter' \in ListFilters /\ listPage' \in 0 .. MaxListPage
        /\ visible' = TRUE /\ searching' \in BOOLEAN /\ rows' \in AnswersTyped
        /\ label' \in [page : Nat, total : Nat] /\ message' \in {"none", "retry", "other"}
        /\ membership' \in (SUBSET Monitors) \cup {NoSnapshot} /\ missed' \in BOOLEAN
    BY <1>1, <1>3 DEF MonitorsInv, ListTypeOK, AnswersTyped
  <2>2. request' = Ask(listFilter', listPage') /\ server' = server
    BY <1>1, <1>3
  <2> QED
    BY <1>1, <2>1, <2>2, AskedKeeps
<1> QED
  BY <1>1, <1>2, <1>3

\* The feed's own life, which the list does not see.
LEMMA SocketKeeps ==
  ASSUME MonitorsInv, FeedCloses \/ FeedReconnects
  PROVE  MonitorsInv'
<1>1. /\ UNCHANGED <<server, visible, listFilter, searching, listPage, rows, label, request,
                     message, membership, reconciled, missed>>
      /\ feed' \in {"down", "opening", "up"}
  BY DEF FeedCloses, FeedReconnects, controls, listVars
<1> QED
  BY <1>1 DEF MonitorsInv, ListTypeOK, ListAsked, AnswerRead, AnswerCurrent, OutOfDate,
              ShownCurrent, SettledList, ShownPage, Numbered

\* After a reading nothing is out of date, and what was out of date is asked for again.
LEMMA NetworkPulseKeeps ==
  ASSUME MonitorsInv, NetworkPulse
  PROVE  MonitorsInv'
<1>1. /\ UNCHANGED <<server, visible, listFilter, searching, listPage, rows, message,
                     reconciled, feed, missed>>
      /\ membership' = server
  BY DEF NetworkPulse, controls
<1>2. /\ ListTypeOK /\ listFilter' \in ListFilters /\ listPage' \in 0 .. MaxListPage
      /\ listPage \in Nat /\ rows.total \in Nat /\ visible \in BOOLEAN
      /\ searching' \in BOOLEAN /\ rows' \in AnswersTyped
      /\ message' \in {"none", "retry", "other"}
      /\ membership' \in (SUBSET Monitors) \cup {NoSnapshot} /\ missed' \in BOOLEAN
      /\ reconciled' \in BOOLEAN /\ feed' \in {"down", "opening", "up"}
  BY <1>1, LimitTyped DEF MonitorsInv, ListTypeOK, AnswersTyped
<1>3. CASE visible
  <2>1. label' = [page |-> listPage, total |-> rows.total]
    BY <1>3 DEF NetworkPulse, RenderList
  <2>2. label' \in [page : Nat, total : Nat]
    BY <1>2, <2>1
  <2>3. CASE OutOfDate
    <3>1. request' = Ask(listFilter', listPage') /\ visible' = TRUE
      BY <1>1, <1>2, <1>3, <2>3 DEF NetworkPulse, RefreshList, OutOfDate
    <3> QED
      BY <1>1, <1>2, <2>2, <3>1, AskedKeeps
  <2>4. CASE ~OutOfDate
    <3>1. request' = request
      BY <1>3, <2>4 DEF NetworkPulse, OutOfDate
    <3>2. ListTypeOK'
      BY <1>1, <1>2, <2>2, <3>1 DEF ListTypeOK, AnswersTyped
    <3>3. ListAsked' /\ AnswerRead' /\ AnswerCurrent' /\ ShownCurrent'
      BY <1>1, <2>4, <3>1 DEF MonitorsInv, ListAsked, AnswerRead, AnswerCurrent, ShownCurrent,
                              SettledList, Numbered
    <3>4. SettledList' => ShownPage'
      BY <1>1, <2>1, <3>1 DEF MonitorsInv, SettledList, ShownPage, Numbered
    <3> QED
      BY <3>2, <3>3, <3>4 DEF MonitorsInv
  <2> QED
    BY <2>3, <2>4
<1>4. CASE ~visible
  <2>1. UNCHANGED <<label, request>> /\ request.stage = "none"
    <3>1. request.stage = "none"
      BY <1>4 DEF MonitorsInv, ListAsked
    <3> QED
      BY <1>4, <3>1 DEF NetworkPulse
  <2>2. ListTypeOK'
    BY <1>1, <1>2, <2>1 DEF ListTypeOK, AnswersTyped
  <2> QED
    BY <1>1, <1>4, <2>1, <2>2 DEF MonitorsInv, ListAsked, AnswerRead, AnswerCurrent, ShownCurrent,
                                  SettledList
<1> QED
  BY <1>3, <1>4

\* The monitors change: the last reading that agreed with them does so no more.
LEMMA MonitorsChangeKeeps ==
  ASSUME MonitorsInv, NEW S \in SUBSET Monitors, MonitorsChange(S)
  PROVE  MonitorsInv'
<1>1. /\ UNCHANGED <<visible, listFilter, searching, listPage, rows, label, request, message,
                     membership, reconciled, feed>>
      /\ server' = S
      /\ missed' = (missed \/ (membership # server /\ S # server))
  BY DEF MonitorsChange, controls, listVars, feedVars
<1>2. ListTypeOK'
  BY <1>1 DEF MonitorsInv, ListTypeOK
<1>3. ASSUME ~missed', S # server
      PROVE  OutOfDate'
  <2>1. membership = server /\ server \in SUBSET Monitors
    BY <1>1, <1>3 DEF MonitorsInv, ListTypeOK
  <2>2. membership # NoSnapshot
    BY <2>1, NetworkListAssumption
  <2> QED
    BY <1>1, <1>3, <2>1, <2>2 DEF OutOfDate
<1>4. ~missed' => ~missed
  BY <1>1 DEF MonitorsInv, ListTypeOK
<1>5. S = server => (OutOfDate' <=> OutOfDate)
  BY <1>1 DEF OutOfDate
<1>6. ListAsked' /\ AnswerRead' /\ (SettledList' => ShownPage')
  BY <1>1 DEF MonitorsInv, ListAsked, AnswerRead, SettledList, ShownPage, Numbered
<1>7. AnswerCurrent'
  BY <1>1, <1>3, <1>4, <1>5 DEF MonitorsInv, AnswerCurrent
<1>8. ShownCurrent'
  BY <1>1, <1>3, <1>4, <1>5 DEF MonitorsInv, ShownCurrent, SettledList
<1> QED
  BY <1>2, <1>6, <1>7, <1>8 DEF MonitorsInv

LEMMA MonitorsStep == MonitorsInv /\ [ListNext]_monitorListVars => MonitorsInv'
<1> SUFFICES ASSUME MonitorsInv, [ListNext]_monitorListVars PROVE MonitorsInv'
  OBVIOUS
<1>1. CASE UNCHANGED monitorListVars
  BY <1>1 DEF monitorListVars, controls, listVars, feedVars, MonitorsInv, ListTypeOK, ListAsked,
              AnswerRead, AnswerCurrent, OutOfDate, ShownCurrent, SettledList, ShownPage, Numbered
<1>2. CASE ListNext
  BY <1>2, ServerReadsKeeps, PageAnswerKeeps, ListFailsKeeps, ListControlsKeep, MutateFailsKeeps,
     SearchKeeps, SetListNodeKeeps, DisappearKeeps, FeedAsksKeep, SocketKeeps, NetworkPulseKeeps,
     MonitorsChangeKeeps, SavedHiddenKeeps
     DEF ListNext
<1> QED
  BY <1>1, <1>2

LEMMA MonitorsSettle == MonitorsInv => SettledListShowsPage /\ SettledListIsCurrent
<1> SUFFICES ASSUME MonitorsInv PROVE SettledListShowsPage /\ SettledListIsCurrent
  OBVIOUS
<1>1. SettledListShowsPage
  <2>1. listPage \in Nat /\ (listPage < 1 => listPage = 0)
    BY LimitTyped DEF MonitorsInv, ListTypeOK
  <2>2. rows.page = Numbered(listPage) => rows.page = listPage \/ (listPage = 0 /\ rows.page = 1)
    BY <2>1 DEF Numbered
  <2> QED
    BY <2>2 DEF MonitorsInv, SettledListShowsPage, SettledList, ShownPage
<1>2. SettledListIsCurrent
  BY DEF MonitorsInv, SettledListIsCurrent, ShownCurrent, SettledList, OutOfDate
<1> QED
  BY <1>1, <1>2

-----------------------------------------------------------------------------
(***************************************************************************)
(* The editor of the network monitors.  The request of the current         *)
(* generation is for what was asked last (OpFollows); and in an open form  *)
(* of a new monitor the look-up is the one of its target, whose settings,  *)
(* once they are found, cannot be changed any more (LookupFollows).        *)
(***************************************************************************)
Entries == [target : Targets \cup {NoTarget}, settings : MonitorSettings \cup {NoGroup}]
Wishes  == [kind : {"add", "group"}, target : Targets \cup {NoTarget}]
Dialogs == [open : BOOLEAN, what : Wishes, locked : BOOLEAN]

EditorTyped ==
  /\ groups \in [Targets -> MonitorSettings \cup {NoGroup}]
  /\ dialog \in Dialogs /\ entries \in Entries /\ lookup \in Lookups
  /\ pendingOp \in Ops \cup {NoOp}
  /\ sent # NoSave => sent.form \in Entries

OpFollows ==
  pendingOp # NoOp =>
    /\ pendingOp.op # "inherit" =>
         wish = [kind |-> pendingOp.op, target |-> pendingOp.target]
    /\ IF pendingOp.op = "add" THEN pendingOp.target = NoTarget
       ELSE pendingOp.target \in Targets

LookupFollows ==
  dialog.open /\ dialog.what.kind = "add" =>
    /\ entries.target # NoTarget => lookup.target = entries.target /\ lookup.how # "none"
    /\ lookup.how = "found" => dialog.locked /\ entries.settings = lookup.settings

EditorInv == EditorTyped /\ OpFollows /\ LookupFollows

LEMMA EditorInvInit == EditorInit => EditorInv
<1> SUFFICES ASSUME EditorInit PROVE EditorInv
  OBVIOUS
<1>1. /\ Closed \in Dialogs /\ NoLookup \in Lookups
      /\ [target |-> NoTarget, settings |-> Default] \in Entries
  BY NetworkEditorAssumption DEF Closed, NoLookup, Lookups, Dialogs, Wishes, Entries
<1>2. EditorTyped /\ OpFollows
  BY <1>1 DEF EditorInit, EditorTyped, OpFollows
<1>3. LookupFollows
  BY DEF EditorInit, LookupFollows, Closed
<1> QED
  BY <1>2, <1>3 DEF EditorInv

LEMMA Reopened ==
  ASSUME NEW o \in Ops, o.op \in {"add", "group"}, AgentsLoaded(o)
  PROVE  /\ dialog' = [open |-> TRUE, what |-> [kind |-> o.op, target |-> o.target], locked |-> FALSE]
         /\ dialog' \in Dialogs /\ entries' \in Entries
         /\ entries'.target = o.target /\ lookup' = NoLookup /\ lookup' \in Lookups
         /\ NoLookup.how = "none" /\ o = pendingOp /\ pendingOp' = NoOp
<1>1. /\ o.target \in Targets \cup {NoTarget} /\ o.read \in MonitorSettings \cup {NoGroup}
      /\ Default \in MonitorSettings
  BY NetworkEditorAssumption DEF Ops
<1>2. /\ dialog' = [open |-> TRUE, what |-> [kind |-> o.op, target |-> o.target], locked |-> FALSE]
      /\ entries' = [target |-> o.target, settings |-> IF o.op = "add" THEN Default ELSE o.read]
      /\ lookup' = NoLookup /\ o = pendingOp /\ pendingOp' = NoOp
  BY DEF AgentsLoaded, OpenDialogFor
<1> QED
  BY <1>1, <1>2 DEF Dialogs, Wishes, Entries, NoLookup, Lookups

LEMMA OpensWhatIsWished ==
  ASSUME EditorInv, NEW o \in Ops, AgentsLoaded(o)
  PROVE  EditorInv' /\ dialog'.what = wish
<1>1. o.op \in {"add", "group"} /\ o = pendingOp /\ o # NoOp
  BY DEF AgentsLoaded
<1>2. /\ wish = [kind |-> o.op, target |-> o.target]
      /\ o.op = "add" => o.target = NoTarget
  BY <1>1 DEF EditorInv, OpFollows
<1>3. dialog'.what = [kind |-> o.op, target |-> o.target]
  BY <1>1, Reopened
<1>4. EditorTyped'
  BY <1>1, Reopened DEF EditorInv, EditorTyped, AgentsLoaded
<1>5. OpFollows'
  BY <1>1, Reopened DEF OpFollows
<1>6. LookupFollows'
  BY <1>1, <1>2, <1>3, Reopened DEF LookupFollows
<1> QED
  BY <1>2, <1>3, <1>4, <1>5, <1>6 DEF EditorInv

\* Another request is made, or none, and the dialog stays or is closed.
LEMMA DialogLeft ==
  ASSUME EditorInv, groups' \in [Targets -> MonitorSettings \cup {NoGroup}],
         pendingOp' \in Ops \cup {NoOp}, OpFollows',
         dialog' = dialog \/ dialog' = [dialog EXCEPT !.open = FALSE],
         lookup' = lookup \/ (~dialog'.open /\ lookup' \in Lookups),
         entries' = entries, sent' # NoSave => sent'.form \in Entries
  PROVE  EditorInv'
<1>1. EditorTyped'
  BY DEF EditorInv, EditorTyped, Dialogs
<1>2. dialog'.open => dialog' = dialog /\ lookup' = lookup
  BY DEF EditorInv, EditorTyped, Dialogs
<1>3. LookupFollows'
  BY <1>2 DEF EditorInv, LookupFollows
<1> QED
  BY <1>1, <1>3 DEF EditorInv

LEMMA PressKeeps ==
  ASSUME EditorInv, NEW o \in Ops, o.op \in {"add", "group"}, Overtake(o),
         IF o.op = "add" THEN o.target = NoTarget ELSE o.target \in Targets,
         wish' = [kind |-> o.op, target |-> o.target],
         UNCHANGED <<groups, dialog, entries, lookup, sent>>
  PROVE  EditorInv'
<1>1. pendingOp' = o
  BY DEF Overtake
<1>2. OpFollows'
  BY <1>1 DEF OpFollows
<1> QED
  BY <1>1, <1>2, DialogLeft DEF EditorInv, EditorTyped

LEMMA OpsTyped ==
  /\ [op |-> "add", target |-> NoTarget, step |-> "agents", read |-> NoGroup] \in Ops
  /\ \A t \in Targets :
       /\ [op |-> "group", target |-> t, step |-> "group", read |-> NoGroup] \in Ops
       /\ [op |-> "inherit", target |-> t, step |-> "targets", read |-> NoGroup] \in Ops
       /\ [target |-> t, how |-> "pending", settings |-> NoGroup] \in Lookups
  /\ NoLookup \in Lookups /\ NoLookup.how = "none"
  BY DEF Ops, Lookups, NoLookup

LEMMA PressesKeep ==
  ASSUME EditorInv, PressAdd \/ \E t \in Targets : PressEdit(t)
  PROVE  EditorInv'
<1>1. CASE PressAdd
  <2> DEFINE o == [op |-> "add", target |-> NoTarget, step |-> "agents", read |-> NoGroup]
  <2>1. o \in Ops /\ o.op = "add" /\ o.target = NoTarget
    BY OpsTyped
  <2>2. /\ Overtake(o) /\ wish' = [kind |-> o.op, target |-> o.target]
        /\ UNCHANGED <<groups, dialog, entries, lookup, sent>>
    BY <1>1 DEF PressAdd
  <2> HIDE DEF o
  <2> QED
    BY <2>1, <2>2, PressKeeps
<1>2. ASSUME NEW t \in Targets, PressEdit(t) PROVE EditorInv'
  <2> DEFINE o == [op |-> "group", target |-> t, step |-> "group", read |-> NoGroup]
  <2>1. o \in Ops /\ o.op = "group" /\ o.target = t
    BY OpsTyped
  <2>2. /\ Overtake(o) /\ wish' = [kind |-> o.op, target |-> o.target]
        /\ UNCHANGED <<groups, dialog, entries, lookup, sent>>
    BY <1>2 DEF PressEdit
  <2> HIDE DEF o
  <2> QED
    BY <2>1, <2>2, PressKeeps
<1> QED
  BY <1>1, <1>2

LEMMA GroupReadKeeps ==
  ASSUME EditorInv, GroupRead
  PROVE  EditorInv'
<1>1. /\ pendingOp \in Ops /\ groups[pendingOp.target] # NoGroup
      /\ pendingOp.op = "group"
      /\ pendingOp' = [pendingOp EXCEPT !.step = "agents", !.read = groups[pendingOp.target]]
      /\ UNCHANGED <<groups, dialog, entries, lookup, wish, sent>>
  BY DEF EditorInv, EditorTyped, GroupRead
<1>2. pendingOp.target \in Targets \cup {NoTarget}
  BY <1>1 DEF Ops
<1>3. pendingOp.target \in Targets
  BY <1>1 DEF EditorInv, GroupRead, OpFollows
<1>4. groups[pendingOp.target] \in MonitorSettings \cup {NoGroup}
  BY <1>3 DEF EditorInv, EditorTyped
<1>5. /\ pendingOp' \in Ops /\ pendingOp'.op = pendingOp.op
      /\ pendingOp'.target = pendingOp.target
  BY <1>1, <1>4 DEF Ops
<1>6. OpFollows'
  BY <1>1, <1>5, GroupRead DEF EditorInv, OpFollows, GroupRead
<1> QED
  BY <1>1, <1>5, <1>6, DialogLeft DEF EditorInv, EditorTyped

LEMMA OpensStay ==
  ASSUME EditorInv, NEW o, OpenFails \/ OvertakenEnds(o) \/ CloseEditorDialog \/ Return
  PROVE  EditorInv'
<1>1. /\ pendingOp' \in {pendingOp, NoOp} /\ UNCHANGED <<groups, entries, lookup, wish, sent>>
      /\ dialog' = dialog \/ dialog' = [dialog EXCEPT !.open = FALSE]
  BY DEF OpenFails, OvertakenEnds, CloseEditorDialog, Return
<1>2. OpFollows'
  BY <1>1 DEF EditorInv, OpFollows
<1> QED
  BY <1>1, <1>2, DialogLeft DEF EditorInv, EditorTyped

LEMMA SuspendKeeps ==
  ASSUME EditorInv, Suspend
  PROVE  EditorInv'
<1>1. /\ pendingOp' = NoOp /\ UNCHANGED <<groups, entries, sent>>
      /\ dialog' = [dialog EXCEPT !.open = FALSE] /\ lookup' \in {lookup, NoLookup}
  BY DEF Suspend, Overtake
<1>2. OpFollows'
  BY <1>1 DEF OpFollows
<1>3. dialog'.open = FALSE /\ lookup' \in Lookups
  BY <1>1, OpsTyped DEF EditorInv, EditorTyped, Dialogs
<1> QED
  BY <1>1, <1>2, <1>3, DialogLeft DEF EditorInv, EditorTyped

-----------------------------------------------------------------------------

LEMMA InheritFollows ==
  ASSUME EditorInv, dialog.open, NEW t \in Targets \cup {NoTarget}, Inherit(t),
         entries' \in Entries, entries'.target = t, UNCHANGED <<groups, wish, sent>>
  PROVE  EditorInv'
<1>1. CASE dialog.what.kind = "group"
  <2>1. UNCHANGED <<dialog, lookup, pendingOp>>
    BY <1>1 DEF Inherit
  <2> QED
    BY <1>1, <2>1 DEF EditorInv, EditorTyped, OpFollows, LookupFollows
<1>2. CASE dialog.what.kind # "group"
  <2> DEFINE o == [op |-> "inherit", target |-> t, step |-> "targets", read |-> NoGroup]
  <2>1. dialog' = [dialog EXCEPT !.locked = FALSE]
    BY <1>2 DEF Inherit
  <2>2. dialog' \in Dialogs /\ dialog'.what = dialog.what
    BY <2>1 DEF EditorInv, EditorTyped, Dialogs
  <2>3. CASE t = NoTarget
    <3>1. pendingOp' = NoOp /\ lookup' = NoLookup
      BY <1>2, <2>3 DEF Inherit, Overtake
    <3>2. EditorTyped' /\ OpFollows'
      BY <2>2, <3>1, OpsTyped DEF EditorInv, EditorTyped, OpFollows
    <3>3. LookupFollows'
      BY <2>3, <3>1, OpsTyped DEF LookupFollows
    <3> QED
      BY <3>2, <3>3 DEF EditorInv
  <2>4. CASE t # NoTarget
    <3>1. /\ pendingOp' = o
          /\ lookup' = [target |-> t, how |-> "pending", settings |-> NoGroup]
      BY <1>2, <2>4 DEF Inherit, Overtake
    <3>2. /\ o \in Ops /\ o.op = "inherit" /\ o.target \in Targets
          /\ lookup' \in Lookups /\ lookup'.target = t /\ lookup'.how = "pending"
      BY <2>4, <3>1, OpsTyped
    <3> HIDE DEF o
    <3>3. EditorTyped' /\ OpFollows'
      BY <2>2, <3>1, <3>2 DEF EditorInv, EditorTyped, OpFollows
    <3>4. LookupFollows'
      BY <3>2 DEF LookupFollows
    <3> QED
      BY <3>3, <3>4 DEF EditorInv
  <2> QED
    BY <2>3, <2>4
<1> QED
  BY <1>1, <1>2

LEMMA ChangeTargetKeeps ==
  ASSUME EditorInv, NEW t \in Targets \cup {NoTarget}, ChangeTarget(t)
  PROVE  EditorInv'
<1>1. entries' \in Entries /\ entries'.target = t
  BY DEF ChangeTarget, EditorInv, EditorTyped, Entries
<1> QED
  BY <1>1, InheritFollows DEF ChangeTarget

LEMMA ChangeSettingsKeeps ==
  ASSUME EditorInv, NEW s \in MonitorSettings, ChangeProtocol(s) \/ ChangeSettings(s)
  PROVE  EditorInv'
<1>1. /\ dialog.open /\ ~dialog.locked /\ UNCHANGED <<groups, wish, sent>>
      /\ entries' = [entries EXCEPT !.settings = s]
      /\ \/ UNCHANGED <<dialog, lookup, pendingOp>>
         \/ entries.target # NoTarget /\ Inherit(entries.target)
  BY DEF ChangeProtocol, ChangeSettings
<1>2. /\ entries' \in Entries /\ entries'.target = entries.target
      /\ entries.target \in Targets \cup {NoTarget}
  BY <1>1 DEF EditorInv, EditorTyped, Entries
<1>3. CASE Inherit(entries.target)
  BY <1>1, <1>2, <1>3, InheritFollows
<1>4. CASE UNCHANGED <<dialog, lookup, pendingOp>>
  <2>1. LookupFollows'
    BY <1>1, <1>2, <1>4 DEF EditorInv, LookupFollows
  <2> QED
    BY <1>1, <1>2, <1>4, <2>1 DEF EditorInv, EditorTyped, OpFollows
<1> QED
  BY <1>1, <1>3, <1>4

\* What a request for the target's group does to the look-up.
LEMMA LookedUp ==
  ASSUME EditorInv, NEW h \in {"absent", "failed"}
  PROVE  /\ [lookup EXCEPT !.how = h] \in Lookups
         /\ [lookup EXCEPT !.how = h].target = lookup.target
         /\ [lookup EXCEPT !.how = h].how = h
  BY DEF EditorInv, EditorTyped, Lookups

LEMMA TargetsReadKeeps ==
  ASSUME EditorInv, TargetsRead
  PROVE  EditorInv'
<1>1. /\ pendingOp \in Ops /\ pendingOp # NoOp /\ pendingOp.op = "inherit"
      /\ UNCHANGED <<groups, dialog, entries, wish, sent>>
  BY DEF TargetsRead, Inheriting, EditorInv, EditorTyped
<1>2. CASE dialog.open /\ groups[pendingOp.target] # NoGroup
  <2>1. pendingOp' = [pendingOp EXCEPT !.step = "group"] /\ lookup' = lookup
    BY <1>2 DEF TargetsRead
  <2>2. /\ pendingOp' \in Ops /\ pendingOp'.op = pendingOp.op
        /\ pendingOp'.target = pendingOp.target
    BY <1>1, <2>1 DEF Ops
  <2>3. OpFollows'
    BY <1>1, <2>2 DEF EditorInv, OpFollows
  <2> QED
    BY <1>1, <2>1, <2>2, <2>3, DialogLeft DEF EditorInv, EditorTyped
<1>3. CASE ~(dialog.open /\ groups[pendingOp.target] # NoGroup)
  <2>1. /\ pendingOp' = NoOp
        /\ lookup' = IF dialog.open THEN [lookup EXCEPT !.how = "absent"] ELSE NoLookup
    BY <1>3 DEF TargetsRead
  <2>2. /\ lookup' \in Lookups
        /\ dialog.open => lookup'.target = lookup.target /\ lookup'.how = "absent"
    BY <2>1, LookedUp, OpsTyped
  <2>3. EditorTyped' /\ OpFollows'
    BY <1>1, <2>1, <2>2 DEF EditorInv, EditorTyped, OpFollows
  <2>4. LookupFollows'
    BY <1>1, <2>2 DEF EditorInv, LookupFollows
  <2> QED
    BY <2>3, <2>4 DEF EditorInv
<1> QED
  BY <1>2, <1>3

LEMMA InheritFailsKeeps ==
  ASSUME EditorInv, InheritFails
  PROVE  EditorInv'
<1>1. /\ pendingOp' = NoOp /\ lookup' = [lookup EXCEPT !.how = "failed"]
      /\ UNCHANGED <<groups, dialog, entries, wish, sent>>
  BY DEF InheritFails
<1>2. lookup' \in Lookups /\ lookup'.target = lookup.target /\ lookup'.how = "failed"
  BY <1>1, LookedUp
<1>3. EditorTyped' /\ OpFollows'
  BY <1>1, <1>2 DEF EditorInv, EditorTyped, OpFollows
<1>4. LookupFollows'
  BY <1>1, <1>2 DEF EditorInv, LookupFollows
<1> QED
  BY <1>3, <1>4 DEF EditorInv

LEMMA SettingsReadKeeps ==
  ASSUME EditorInv, SettingsRead
  PROVE  EditorInv'
<1> DEFINE s == groups[pendingOp.target]
<1>1. pendingOp' = NoOp /\ UNCHANGED <<groups, wish, sent>>
  BY DEF SettingsRead
<1>2. s \in MonitorSettings \cup {NoGroup}
  BY DEF SettingsRead, Inheriting, EditorInv, EditorTyped, OpFollows
<1>3. CASE dialog.open
  <2>1. /\ lookup' = [lookup EXCEPT !.how = "found", !.settings = s]
        /\ entries' = [entries EXCEPT !.settings = s]
        /\ dialog' = [dialog EXCEPT !.locked = TRUE]
    BY <1>3 DEF SettingsRead
  <2> HIDE DEF s
  <2>2. /\ lookup' \in Lookups /\ lookup'.target = lookup.target /\ lookup'.how = "found"
        /\ lookup'.settings = s
    BY <1>2, <2>1 DEF EditorInv, EditorTyped, Lookups
  <2>3. /\ entries' \in Entries /\ entries'.target = entries.target /\ entries'.settings = s
    BY <1>2, <2>1 DEF EditorInv, EditorTyped, Entries
  <2>4. /\ dialog' \in Dialogs /\ dialog'.what = dialog.what /\ dialog'.locked = TRUE
        /\ dialog'.open = dialog.open
    BY <2>1 DEF EditorInv, EditorTyped, Dialogs
  <2>5. EditorTyped' /\ OpFollows'
    BY <1>1, <2>2, <2>3, <2>4 DEF EditorInv, EditorTyped, OpFollows
  <2>6. LookupFollows'
    BY <2>2, <2>3, <2>4 DEF EditorInv, LookupFollows
  <2> QED
    BY <2>5, <2>6 DEF EditorInv
<1>4. CASE ~dialog.open
  <2>1. lookup' = NoLookup /\ UNCHANGED <<entries, dialog>>
    BY <1>4 DEF SettingsRead
  <2>2. OpFollows'
    BY <1>1 DEF OpFollows
  <2> QED
    BY <1>1, <1>4, <2>1, <2>2, OpsTyped, DialogLeft DEF EditorInv, EditorTyped
<1> QED
  BY <1>3, <1>4

LEMMA SavesKeep ==
  ASSUME EditorInv,
         \/ SaveDialog \/ SaveAnswered \/ SaveRefused
         \/ \E t \in Targets : OthersChange(t)
         \/ UNCHANGED editorDialogVars
  PROVE  EditorInv'
<1>1. /\ UNCHANGED <<entries, lookup, pendingOp, wish>>
      /\ dialog' = dialog \/ dialog' = [dialog EXCEPT !.open = FALSE]
  BY DEF SaveDialog, SaveAnswered, SaveRefused, OthersChange, editorDialogVars
<1>2. OpFollows'
  BY <1>1 DEF EditorInv, OpFollows
<1> SUFFICES /\ groups' \in [Targets -> MonitorSettings \cup {NoGroup}]
             /\ sent' # NoSave => sent'.form \in Entries
  BY <1>1, <1>2, DialogLeft DEF EditorInv, EditorTyped
<1>3. CASE SaveDialog
  BY <1>3 DEF SaveDialog, EditorInv, EditorTyped
<1>4. CASE SaveAnswered
  <2>1. sent.form.settings \in MonitorSettings \cup {NoGroup}
    BY <1>4 DEF SaveAnswered, EditorInv, EditorTyped, Entries
  <2> QED
    BY <1>4, <2>1 DEF SaveAnswered, EditorInv, EditorTyped
<1>5. CASE SaveRefused \/ UNCHANGED editorDialogVars
  BY <1>5 DEF SaveRefused, editorDialogVars, EditorInv, EditorTyped
<1>6. ASSUME NEW t \in Targets, OthersChange(t)
      PROVE  /\ groups' \in [Targets -> MonitorSettings \cup {NoGroup}]
             /\ sent' # NoSave => sent'.form \in Entries
  BY <1>6 DEF OthersChange, EditorInv, EditorTyped
<1> QED
  BY <1>3, <1>4, <1>5, <1>6

LEMMA EditorStep == EditorInv /\ [EditorNext]_editorDialogVars => EditorInv'
<1> SUFFICES ASSUME EditorInv, [EditorNext]_editorDialogVars PROVE EditorInv'
  OBVIOUS
<1>1. ASSUME NEW o \in Ops, AgentsLoaded(o) \/ OvertakenEnds(o) PROVE EditorInv'
  BY <1>1, OpensWhatIsWished, OpensStay
<1>2. CASE OpenFails \/ CloseEditorDialog \/ Return
  BY <1>2, OpensStay
<1> QED
  BY <1>1, <1>2, PressesKeep, GroupReadKeeps, SuspendKeeps, ChangeTargetKeeps,
     ChangeSettingsKeeps, TargetsReadKeeps, SettingsReadKeeps, InheritFailsKeeps, SavesKeep
     DEF EditorNext

\* The two action properties.
LEMMA EditorServes ==
  ASSUME EditorInv, [EditorNext]_editorDialogVars
  PROVE  /\ ~dialog.open /\ dialog'.open => dialog'.what = wish
         /\ sent = NoSave /\ sent' # NoSave /\ dialog.what.kind = "add" =>
              /\ lookup.target = sent'.form.target
              /\ lookup.how \in {"found", "absent", "failed"}
              /\ lookup.how = "found" => sent'.form.settings = lookup.settings
<1>1. ASSUME ~dialog.open, dialog'.open
      PROVE  \E o \in Ops : AgentsLoaded(o)
  <2>1. ~[dialog EXCEPT !.open = FALSE].open
    BY DEF EditorInv, EditorTyped, Dialogs
  <2> QED
    BY <1>1, <2>1 DEF EditorNext, editorDialogVars, PressAdd, PressEdit, GroupRead, OpenFails,
       OvertakenEnds, CloseEditorDialog, Suspend, Return, ChangeTarget, ChangeProtocol,
       ChangeSettings, TargetsRead, SettingsRead, InheritFails, SaveDialog, SaveAnswered,
       SaveRefused, OthersChange
<1>2. ASSUME sent = NoSave, sent' # NoSave
      PROVE  SaveDialog
  BY <1>2 DEF EditorNext, editorDialogVars, PressAdd, PressEdit, AgentsLoaded, GroupRead,
     OpenFails, OvertakenEnds, CloseEditorDialog, Suspend, Return, ChangeTarget,
     ChangeProtocol, ChangeSettings, TargetsRead, SettingsRead, InheritFails, SaveDialog,
     SaveAnswered, SaveRefused, OthersChange
<1>3. ASSUME SaveDialog, dialog.what.kind = "add"
      PROVE  /\ lookup.target = sent'.form.target
             /\ lookup.how \in {"found", "absent", "failed"}
             /\ lookup.how = "found" => sent'.form.settings = lookup.settings
  <2>1. /\ dialog.open /\ entries.target # NoTarget /\ lookup.how # "pending"
        /\ sent'.form = entries
    BY <1>3 DEF SaveDialog
  <2>2. lookup.how \in {"none", "pending", "found", "absent", "failed"}
    BY DEF EditorInv, EditorTyped, Lookups
  <2> QED
    BY <1>3, <2>1, <2>2 DEF EditorInv, LookupFollows
<1> QED
  BY <1>1, <1>2, <1>3, OpensWhatIsWished

-----------------------------------------------------------------------------
(***************************************************************************)
(* All the views                                                           *)
(***************************************************************************)
ViewsInv ==
  /\ ChartInv /\ EditorsInv /\ EventsInv /\ RuleListInv /\ RuleFormInv /\ PagesInv
  /\ MonitorsInv /\ EditorInv

LEMMA ViewsInvInit == ViewsInit => ViewsInv
<1> SUFFICES ASSUME ViewsInit PROVE ViewsInv
  OBVIOUS
<1>1. /\ DetailChartInit /\ EditorsInit /\ EventsInit /\ RuleListInit /\ RuleFormInit
      /\ StatusPagesInit /\ ListInit /\ EditorInit
  BY DEF ViewsInit
<1> QED
  BY <1>1, ChartInvInit, EditorsInvInit, EventsInvInit, RuleListInvInit, RuleFormInvInit,
     PagesInvInit, MonitorsInvInit, EditorInvInit DEF ViewsInv

\* A step of the views is a step of each or leaves it as it is.
LEMMA EachView ==
  ASSUME [ViewsNext]_openViewVars
  PROVE  /\ [DetailChartNext]_detailChartVars /\ [EditorsNext]_editorVars
         /\ [EventsNext]_eventListVars /\ [RuleListNext]_ruleListVars
         /\ [RuleFormNext]_ruleFormVars /\ [StatusPagesNext]_statusPageVars
         /\ [ListNext]_monitorListVars /\ [EditorNext]_editorDialogVars
  BY DEF ViewsNext, openViewVars

LEMMA ViewsInvStep == ViewsInv /\ [ViewsNext]_openViewVars => ViewsInv'
  BY EachView, ChartStep, EditorsStep, EventsStep, RuleListStep, RuleFormStep, PagesStep,
     MonitorsStep, EditorStep DEF ViewsInv

LEMMA ViewsInvHolds == ViewsSpec => []ViewsInv
  BY ViewsInvInit, ViewsInvStep, PTL DEF ViewsSpec

\* What the views show once their requests have ended, for any number of requests.  The
\* code cancels none of those of the chart (AgentDetail.tsx) and of the events
\* (AlertsPanel.tsx), so the theorem does not say that what is shown is always what is
\* selected: it says that it is when the answer to the newest request came last, that
\* else it is something asked for since nothing was under way, and that live points and
\* the page number are right in either case.  The list of rules is the rules there are,
\* but those its module excuses; the list of network monitors has its filters and page,
\* the first page at page 0, and is not beyond the end.
THEOREM ViewsShowSelection == ViewsSpec => []ViewsShowTheirSelection
<1>1. ViewsInv => ViewsShowTheirSelection
  BY ChartSettles, EventsSettle, RulesAgree, MonitorsSettle DEF ViewsInv, ViewsShowTheirSelection
<1> QED
  BY <1>1, ViewsInvHolds, PTL

\* Whatever is opened while a form loads or saves, a note reaches the agent it was
\* written for, a rule its own id, and a status page its own agents and access rules.
THEOREM ViewsSaveOwn == ViewsSpec => []ViewsSaveTheirOwn
<1>1. ViewsInv => ViewsSaveTheirOwn
  BY EditorsReach, RulesKept, PagesKept DEF ViewsInv, ViewsSaveTheirOwn
<1> QED
  BY <1>1, ViewsInvHolds, PTL

\* Once a reading of the feed has carried the monitors there are, the list of network
\* monitors (components/network_monitors) that waits for nothing shows them, however
\* readings, polls, list requests and hidden spells fell, unless the monitors changed
\* twice between two readings (missed).
THEOREM MonitorListIsCurrent == ViewsSpec => []SettledListIsCurrent
<1>1. ViewsInv => SettledListIsCurrent
  BY MonitorsSettle DEF ViewsInv
<1> QED
  BY <1>1, ViewsInvHolds, PTL

\* The dialog of components/network_monitors/editor opens for what was asked last,
\* whatever answers come late, and a new monitor is saved with the settings that the
\* group of its target has, once the look-up of that target has ended.
THEOREM DialogServesWish == ViewsSpec => EditorServesLastWish
<1>1. ViewsInv /\ [ViewsNext]_openViewVars =>
        [~dialog.open /\ dialog'.open => dialog'.what = wish]_editorDialogVars
  BY EachView, EditorServes DEF ViewsInv
<1>2. ViewsInv /\ [ViewsNext]_openViewVars =>
        [sent = NoSave /\ sent' # NoSave /\ dialog.what.kind = "add" =>
           /\ lookup.target = sent'.form.target
           /\ lookup.how \in {"found", "absent", "failed"}
           /\ lookup.how = "found" => sent'.form.settings = lookup.settings]_editorDialogVars
  BY EachView, EditorServes DEF ViewsInv
<1>3. ViewsSpec => OpensWhatWasAskedLast
  BY <1>1, ViewsInvHolds, PTL DEF ViewsSpec, OpensWhatWasAskedLast
<1>4. ViewsSpec => AddsInheritSettings
  BY <1>2, ViewsInvHolds, PTL DEF ViewsSpec, AddsInheritSettings
<1> QED
  BY <1>3, <1>4 DEF EditorServesLastWish
=============================================================================
