--------------------------- MODULE SequenceLemmas ---------------------------
(***************************************************************************)
(* Lemmas about sequences that list each element once: the queue of tasks,   *)
(* the started host snapshots of a host.                                    *)
(***************************************************************************)
EXTENDS Integers, SequencesExt, SequenceTheorems, TLAPS

(* Removing a position keeps the others in order. *)
LEMMA RemoveAtKeeps ==
  ASSUME NEW S, NEW s \in Seq(S), NEW i \in 1 .. Len(s)
  PROVE  /\ RemoveAt(s, i) \in Seq(S)
         /\ Len(RemoveAt(s, i)) = Len(s) - 1
         /\ \A j \in 1 .. Len(s) - 1 : RemoveAt(s, i)[j] = IF j < i THEN s[j] ELSE s[j + 1]
  <1> DEFINE before == SubSeq(s, 1, i - 1)
             after  == SubSeq(s, i + 1, Len(s))
  <1>1. Len(s) \in Nat /\ \A j \in 1 .. Len(s) : s[j] \in S
    BY LenProperties, ElementOfSeq
  <1>2. /\ before \in Seq(S) /\ Len(before) = i - 1
        /\ \A j \in 1 .. i - 1 : before[j] = s[j]
    <2>1. 1 \in Int /\ i - 1 \in Int /\ \A j \in 1 .. i - 1 : s[j] \in S
      BY <1>1
    <2> HIDE DEF before
    <2>2. /\ before \in Seq(S)
          /\ Len(before) = IF 1 <= i - 1 THEN i - 1 - 1 + 1 ELSE 0
          /\ \A j \in 1 .. i - 1 - 1 + 1 : before[j] = s[1 + j - 1]
      BY ONLY <2>1, SubSeqProperties DEF before
    <2> QED BY <1>1, <2>2
  <1>3. /\ after \in Seq(S) /\ Len(after) = Len(s) - i
        /\ \A j \in 1 .. Len(s) - i : after[j] = s[i + j]
    <2>1. i + 1 \in Int /\ Len(s) \in Int /\ \A j \in i + 1 .. Len(s) : s[j] \in S
      BY <1>1
    <2> HIDE DEF after
    <2>2. /\ after \in Seq(S)
          /\ Len(after) = IF i + 1 <= Len(s) THEN Len(s) - (i + 1) + 1 ELSE 0
          /\ \A j \in 1 .. Len(s) - (i + 1) + 1 : after[j] = s[i + 1 + j - 1]
      BY ONLY <2>1, SubSeqProperties DEF after
    <2> QED BY <1>1, <2>2
  <1>4. RemoveAt(s, i) = before \o after
    BY DEF RemoveAt
  <1> HIDE DEF before, after
  <1>5. /\ before \o after \in Seq(S)
        /\ Len(before \o after) = Len(before) + Len(after)
        /\ \A j \in 1 .. Len(before) + Len(after) :
             (before \o after)[j] = IF j <= Len(before) THEN before[j] ELSE after[j - Len(before)]
    BY <1>2, <1>3, ConcatProperties
  <1> QED BY <1>1, <1>2, <1>3, <1>4, <1>5

-----------------------------------------------------------------------------
(* An element that is not there yet may be appended. *)
LEMMA AppendOnce ==
  ASSUME NEW S, NEW s \in Seq(S), IsInjective(s), NEW e \in S, e \notin ToSet(s)
  PROVE  /\ Append(s, e) \in Seq(S)
         /\ IsInjective(Append(s, e))
         /\ ToSet(Append(s, e)) = ToSet(s) \cup {e}
  <1> DEFINE a == Append(s, e)
  <1>1. DOMAIN s = 1 .. Len(s) /\ Len(s) \in Nat
    BY LenProperties
  <1>2. /\ a \in Seq(S) /\ DOMAIN a = 1 .. Len(s) + 1
        /\ \A i \in 1 .. Len(s) : a[i] = s[i]
        /\ a[Len(s) + 1] = e
    BY <1>1, AppendProperties, LenProperties
  <1> HIDE DEF a
  <1>3. \A i \in 1 .. Len(s) : s[i] # e
    BY <1>1 DEF ToSet
  <1>4. IsInjective(a)
    <2> SUFFICES ASSUME NEW i \in 1 .. Len(s) + 1, NEW j \in 1 .. Len(s) + 1, a[i] = a[j]
                 PROVE  i = j
      BY <1>2 DEF IsInjective
    <2>1. \A k \in 1 .. Len(s) + 1 : k \in 1 .. Len(s) \/ k = Len(s) + 1
      BY <1>1
    <2> QED BY <1>1, <1>2, <1>3, <2>1 DEF IsInjective
  <1>5. ToSet(a) = ToSet(s) \cup {e}
    <2>1. \A k \in 1 .. Len(s) + 1 : k \in 1 .. Len(s) \/ k = Len(s) + 1
      BY <1>1
    <2>2. 1 .. Len(s) \subseteq 1 .. Len(s) + 1 /\ Len(s) + 1 \in 1 .. Len(s) + 1
      BY <1>1
    <2> QED BY <1>1, <1>2, <2>1, <2>2 DEF ToSet
  <1> QED BY <1>2, <1>4, <1>5 DEF a

(* Removing a position removes its element and no other. *)
LEMMA RemoveAtOnce ==
  ASSUME NEW S, NEW s \in Seq(S), IsInjective(s), NEW i \in 1 .. Len(s)
  PROVE  /\ RemoveAt(s, i) \in Seq(S)
         /\ IsInjective(RemoveAt(s, i))
         /\ ToSet(RemoveAt(s, i)) = ToSet(s) \ {s[i]}
  <1> DEFINE n == Len(s)
             r == RemoveAt(s, i)
             old(k) == IF k < i THEN k ELSE k + 1
  <1>1. DOMAIN s = 1 .. n /\ n \in Nat /\ i \in 1 .. n
    BY LenProperties
  <1>2. /\ r \in Seq(S) /\ DOMAIN r = 1 .. n - 1
        /\ \A k \in 1 .. n - 1 : r[k] = s[old(k)]
    BY RemoveAtKeeps, LenProperties
  <1>3. \A k, l \in 1 .. n : s[k] = s[l] => k = l
    BY <1>1 DEF IsInjective
  <1> HIDE DEF r, n
  <1>4. \A k \in 1 .. n - 1 : old(k) \in 1 .. n /\ old(k) # i
    BY ONLY <1>1
  <1>5. \A k, l \in 1 .. n - 1 : old(k) = old(l) => k = l
    BY ONLY <1>1
  <1>6. \A k \in 1 .. n : k # i => \E l \in 1 .. n - 1 : old(l) = k
    <2> SUFFICES ASSUME NEW k \in 1 .. n, k # i
                 PROVE  \E l \in 1 .. n - 1 : old(l) = k
      OBVIOUS
    <2> DEFINE l == IF k < i THEN k ELSE k - 1
    <2>1. l \in 1 .. n - 1 /\ old(l) = k
      BY ONLY <1>1, k \in 1 .. n, k # i
    <2> QED BY <2>1
  <1> HIDE DEF old
  <1>7. IsInjective(r)
    BY ONLY <1>2, <1>3, <1>4, <1>5 DEF IsInjective
  <1>8. ToSet(r) = ToSet(s) \ {s[i]}
    <2>1. ASSUME NEW e \in ToSet(r) PROVE e \in ToSet(s) \ {s[i]}
      <3>1. PICK k \in 1 .. n - 1 : e = s[old(k)]
        BY <1>2 DEF ToSet
      <3> QED BY <1>1, <1>3, <1>4, <3>1 DEF ToSet
    <2>2. ASSUME NEW e \in ToSet(s) \ {s[i]} PROVE e \in ToSet(r)
      <3>1. PICK k \in 1 .. n : e = s[k] /\ k # i
        BY <1>1 DEF ToSet
      <3>2. PICK l \in 1 .. n - 1 : old(l) = k
        BY <1>6, <3>1
      <3> QED BY <1>2, <3>1, <3>2 DEF ToSet
    <2> QED BY <2>1, <2>2
  <1> QED BY <1>2, <1>7, <1>8 DEF r

(* So does dropping the last one. *)
LEMMA FrontOnce ==
  ASSUME NEW S, NEW s \in Seq(S), IsInjective(s), s # << >>
  PROVE  /\ Last(s) \in S /\ Last(s) \in ToSet(s)
         /\ Front(s) \in Seq(S)
         /\ IsInjective(Front(s))
         /\ ToSet(Front(s)) = ToSet(s) \ {Last(s)}
  <1> DEFINE n == Len(s)
             r == RemoveAt(s, n)
  <1>1. n \in Nat /\ n \in 1 .. n /\ DOMAIN s = 1 .. n
    BY LenProperties, EmptySeq
  <1>2. /\ r \in Seq(S) /\ IsInjective(r)
        /\ ToSet(r) = ToSet(s) \ {s[n]}
    BY <1>1, RemoveAtOnce
  <1>3. /\ r \in Seq(S) /\ Len(r) = n - 1
        /\ \A j \in 1 .. n - 1 : r[j] = IF j < n THEN s[j] ELSE s[j + 1]
    BY <1>1, RemoveAtKeeps
  <1>4. /\ Front(s) \in Seq(S) /\ Len(Front(s)) = n - 1
        /\ \A j \in 1 .. n - 1 : Front(s)[j] = s[j]
    <2>1. 1 \in Int /\ n - 1 \in Int /\ \A j \in 1 .. n - 1 : s[j] \in S
      BY <1>1, ElementOfSeq
    <2>2. /\ SubSeq(s, 1, n - 1) \in Seq(S)
          /\ Len(SubSeq(s, 1, n - 1)) = IF 1 <= n - 1 THEN n - 1 - 1 + 1 ELSE 0
          /\ \A j \in 1 .. n - 1 - 1 + 1 : SubSeq(s, 1, n - 1)[j] = s[1 + j - 1]
      BY ONLY <2>1, SubSeqProperties
    <2> HIDE DEF n
    <2>3. Len(SubSeq(s, 1, n - 1)) = n - 1 /\ \A j \in 1 .. n - 1 : SubSeq(s, 1, n - 1)[j] = s[j]
      BY ONLY <1>1, <2>2
    <2> QED BY <2>2, <2>3 DEF Front, n
  <1>5. Front(s) = r
    <2> HIDE DEF r, n
    <2>1. \A j \in 1 .. n - 1 : j < n
      BY ONLY <1>1
    <2>2. Len(r) = Len(Front(s)) /\ \A j \in 1 .. Len(r) : r[j] = Front(s)[j]
      BY ONLY <1>3, <1>4, <2>1
    <2> QED BY <1>3, <1>4, <2>2, SeqEqual
  <1>6. Last(s) = s[n]
    BY DEF Last
  <1>7. Last(s) \in S /\ Last(s) \in ToSet(s)
    BY <1>1, <1>6, ElementOfSeq DEF ToSet
  <1> QED BY <1>2, <1>5, <1>6, <1>7
=============================================================================
