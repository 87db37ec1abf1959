---------------------------- MODULE Outbox_proofs ----------------------------
(* What holds of every behaviour of the outbox and its worker, for any set of *)
(* mails, any schedule, any limit of a poll and any number of faults.        *)
EXTENDS Outbox, FiniteSetTheorems, SequenceTheorems, WellFoundedInduction, TLAPS

-----------------------------------------------------------------------------
(* Sequences.                                                               *)

\* The members of a sequence, and those of one that grew by an element.
LEMMA Members ==
    ASSUME NEW S, NEW s \in Seq(S)
    PROVE  /\ ToSet(s) = {s[i] : i \in 1..Len(s)}
           /\ ToSet(s) \subseteq S
           /\ Len(s) \in Nat /\ DOMAIN s = 1..Len(s)
<1>1. Len(s) \in Nat /\ DOMAIN s = 1..Len(s) /\ \A i \in 1..Len(s) : s[i] \in S
  BY LenProperties, ElementOfSeq
<1>2. QED
  BY <1>1 DEF ToSet

LEMMA AppendNew ==
    ASSUME NEW S, NEW s \in Seq(S), IsInjective(s), NEW e \in S, e \notin ToSet(s)
    PROVE  /\ Append(s, e) \in Seq(S)
           /\ IsInjective(Append(s, e))
           /\ ToSet(Append(s, e)) = ToSet(s) \cup {e}
<1> DEFINE t == Append(s, e)
<1>1. /\ t \in Seq(S) /\ Len(t) = Len(s) + 1 /\ t[Len(s) + 1] = e
      /\ \A i \in 1..Len(s) : t[i] = s[i]
  BY AppendProperties
<1>2. /\ Len(s) \in Nat /\ DOMAIN s = 1..Len(s) /\ ToSet(s) = {s[i] : i \in 1..Len(s)}
      /\ DOMAIN t = 1..Len(t) /\ ToSet(t) = {t[i] : i \in 1..Len(t)}
  BY <1>1, Members
<1> HIDE DEF t
<1>3. 1..Len(t) = (1..Len(s)) \cup {Len(s) + 1}
  BY <1>1, <1>2
<1>4. ToSet(t) = ToSet(s) \cup {e}
  <2>1. ASSUME NEW i \in 1..Len(t) PROVE t[i] \in ToSet(s) \cup {e}
    BY <1>1, <1>2, <1>3
  <2>2. ASSUME NEW i \in 1..Len(s) PROVE s[i] \in ToSet(t)
    <3>1. i \in 1..Len(t) /\ t[i] = s[i]
      BY <1>1, <1>3
    <3>2. QED
      BY <1>2, <3>1
  <2>3. e \in ToSet(t)
    BY <1>1, <1>2, <1>3
  <2>4. QED
    BY <1>2, <2>1, <2>2, <2>3
<1>5. IsInjective(t)
  <2> SUFFICES ASSUME NEW i \in 1..Len(t), NEW j \in 1..Len(t), t[i] = t[j]
               PROVE  i = j
    BY <1>2 DEF IsInjective
  <2>1. \A k \in 1..Len(s) : s[k] # e
    BY <1>2
  <2>2. \A k, l \in 1..Len(s) : s[k] = s[l] => k = l
    BY <1>2 DEF IsInjective
  <2>3. QED
    BY <1>1, <1>3, <2>1, <2>2
<1>6. QED
  BY <1>1, <1>4, <1>5 DEF t

\* Two sequences without a common element.
LEMMA ConcatNew ==
    ASSUME NEW S, NEW s \in Seq(S), NEW t \in Seq(S), IsInjective(s), IsInjective(t),
           ToSet(s) \cap ToSet(t) = {}
    PROVE  /\ s \o t \in Seq(S)
           /\ IsInjective(s \o t)
           /\ ToSet(s \o t) = ToSet(s) \cup ToSet(t)
<1> DEFINE u == s \o t
<1>1. /\ u \in Seq(S) /\ Len(u) = Len(s) + Len(t)
      /\ \A i \in 1..Len(s) + Len(t) : u[i] = IF i <= Len(s) THEN s[i] ELSE t[i - Len(s)]
  BY ConcatProperties
<1> HIDE DEF u
<1>2. /\ Len(s) \in Nat /\ DOMAIN s = 1..Len(s) /\ ToSet(s) = {s[i] : i \in 1..Len(s)}
      /\ Len(t) \in Nat /\ DOMAIN t = 1..Len(t) /\ ToSet(t) = {t[i] : i \in 1..Len(t)}
      /\ DOMAIN u = 1..Len(u) /\ ToSet(u) = {u[i] : i \in 1..Len(u)}
  <2>1. Len(s) \in Nat /\ DOMAIN s = 1..Len(s) /\ ToSet(s) = {s[i] : i \in 1..Len(s)}
    BY Members
  <2>2. Len(t) \in Nat /\ DOMAIN t = 1..Len(t) /\ ToSet(t) = {t[i] : i \in 1..Len(t)}
    BY Members
  <2>3. DOMAIN u = 1..Len(u) /\ ToSet(u) = {u[i] : i \in 1..Len(u)}
    BY <1>1, Members
  <2>4. QED
    BY <2>1, <2>2, <2>3
<1>3. /\ \A i \in 1..Len(s) : i \in 1..Len(u) /\ u[i] = s[i]
      /\ \A i \in 1..Len(t) : Len(s) + i \in 1..Len(u) /\ u[Len(s) + i] = t[i]
  <2>1. /\ Len(s) \in Nat /\ Len(t) \in Nat /\ Len(u) = Len(s) + Len(t)
        /\ \A i \in 1..Len(s)+Len(t) : u[i] = IF i <= Len(s) THEN s[i] ELSE t[i - Len(s)]
    BY <1>1, <1>2
  <2>2. ASSUME NEW i \in 1..Len(s) PROVE i \in 1..Len(u) /\ u[i] = s[i]
    BY <2>1
  <2>3. ASSUME NEW i \in 1..Len(t) PROVE Len(s) + i \in 1..Len(u) /\ u[Len(s) + i] = t[i]
    <3>1. /\ Len(s) + i \in 1..Len(s)+Len(t) /\ ~(Len(s) + i <= Len(s))
          /\ (Len(s) + i) - Len(s) = i
      BY <2>1
    <3>2. QED
      BY <2>1, <3>1
  <2>4. QED
    BY <2>2, <2>3
<1>4. \A i \in 1..Len(u) : \/ i \in 1..Len(s) /\ u[i] = s[i]
                           \/ i - Len(s) \in 1..Len(t) /\ u[i] = t[i - Len(s)]
  <2> SUFFICES ASSUME NEW i \in 1..Len(u)
               PROVE  \/ i \in 1..Len(s) /\ u[i] = s[i]
                      \/ i - Len(s) \in 1..Len(t) /\ u[i] = t[i - Len(s)]
    OBVIOUS
  <2>1. CASE i <= Len(s)
    BY <1>1, <1>2, <2>1
  <2>2. CASE ~(i <= Len(s))
    <3>1. i - Len(s) \in 1..Len(t)
      BY <1>1, <1>2, <2>2
    <3>2. QED
      BY <1>1, <2>2, <3>1
  <2>3. QED
    BY <2>1, <2>2
<1>5. ToSet(u) = ToSet(s) \cup ToSet(t)
  <2>1. \A i \in 1..Len(s) : s[i] \in ToSet(u)
    BY <1>2, <1>3
  <2>2. \A i \in 1..Len(t) : t[i] \in ToSet(u)
    BY <1>2, <1>3
  <2>3. \A i \in 1..Len(u) : u[i] \in ToSet(s) \cup ToSet(t)
    BY <1>2, <1>4
  <2>4. ToSet(u) \subseteq ToSet(s) \cup ToSet(t)
    BY <1>2, <2>3
  <2>5. ToSet(s) \subseteq ToSet(u)
    BY <1>2, <2>1
  <2>6. ToSet(t) \subseteq ToSet(u)
    BY <1>2, <2>2
  <2>7. QED
    BY ONLY <2>4, <2>5, <2>6
<1>6. IsInjective(u)
  <2> SUFFICES ASSUME NEW i \in 1..Len(u), NEW j \in 1..Len(u), u[i] = u[j]
               PROVE  i = j
    BY <1>2 DEF IsInjective
  <2>1. \A k \in 1..Len(s), l \in 1..Len(t) : s[k] # t[l]
    BY <1>2
  <2>2. /\ \A k, l \in 1..Len(s) : s[k] = s[l] => k = l
        /\ \A k, l \in 1..Len(t) : t[k] = t[l] => k = l
    BY <1>2 DEF IsInjective
  <2>3. CASE i \in 1..Len(s) /\ u[i] = s[i]
    BY <1>2, <1>4, <2>1, <2>2, <2>3
  <2>4. CASE i - Len(s) \in 1..Len(t) /\ u[i] = t[i - Len(s)]
    <3>1. ~(j \in 1..Len(s) /\ u[j] = s[j])
      BY <2>1, <2>4
    <3>2. j - Len(s) \in 1..Len(t) /\ u[j] = t[j - Len(s)]
      BY <1>4, <3>1
    <3>3. i - Len(s) = j - Len(s)
      BY <2>2, <2>4, <3>2
    <3>4. QED
      BY <1>2, <3>3
  <2>5. QED
    BY <1>4, <2>3, <2>4
<1>7. QED
  BY <1>1, <1>5, <1>6 DEF u

\* A sequence without the element at one place.
LEMMA RemoveAtPlace ==
    ASSUME NEW S, NEW s \in Seq(S), IsInjective(s), NEW p \in 1..Len(s)
    PROVE  /\ RemoveAt(s, p) \in Seq(S)
           /\ IsInjective(RemoveAt(s, p))
           /\ ToSet(RemoveAt(s, p)) = ToSet(s) \ {s[p]}
<1> DEFINE a == SubSeq(s, 1, p - 1)
           b == SubSeq(s, p + 1, Len(s))
<1>1. /\ Len(s) \in Nat /\ DOMAIN s = 1..Len(s) /\ ToSet(s) = {s[i] : i \in 1..Len(s)}
      /\ \A i \in 1..Len(s) : s[i] \in S
  BY Members, ElementOfSeq
<1>2. /\ a \in Seq(S) /\ Len(a) = p - 1
      /\ \A i \in 1..p-1 : a[i] = s[i]
  <2>1. \A i \in 1..p-1 : s[i] \in S
    BY <1>1
  <2>2. /\ a \in Seq(S) /\ Len(a) = IF 1 <= p - 1 THEN (p - 1) - 1 + 1 ELSE 0
        /\ \A i \in 1..(p - 1) - 1 + 1 : a[i] = s[1 + i - 1]
    BY <1>1, <2>1, SubSeqProperties
  <2> HIDE DEF a
  <2>3. QED
    BY <1>1, <2>2
<1>3. /\ b \in Seq(S) /\ Len(b) = Len(s) - p
      /\ \A i \in 1..Len(s)-p : b[i] = s[p + i]
  <2>1. \A i \in p+1..Len(s) : s[i] \in S
    BY <1>1
  <2>2. /\ b \in Seq(S) /\ Len(b) = IF p + 1 <= Len(s) THEN Len(s) - (p + 1) + 1 ELSE 0
        /\ \A i \in 1..Len(s)-(p + 1)+1 : b[i] = s[(p + 1) + i - 1]
    BY <1>1, <2>1, SubSeqProperties
  <2> HIDE DEF b
  <2>3. Len(s) - (p + 1) + 1 = Len(s) - p
    BY <1>1
  <2>4. ASSUME NEW i \in 1..Len(s)-p PROVE b[i] = s[p + i]
    <3>1. (p + 1) + i - 1 = p + i
      BY <1>1
    <3>2. QED
      BY <2>2, <2>3, <3>1
  <2>5. Len(b) = Len(s) - p
    <3>1. Len(s) \in Nat /\ Len(b) = IF p + 1 <= Len(s) THEN Len(s) - (p + 1) + 1 ELSE 0
      BY <1>1, <2>2
    <3>2. p + 1 <= Len(s) \/ p = Len(s)
      BY <3>1
    <3>3. QED
      BY <3>1, <3>2
  <2>6. QED
    BY <2>2, <2>4, <2>5
<1> HIDE DEF a, b
<1>4. /\ ToSet(a) = {a[i] : i \in 1..Len(a)} /\ DOMAIN a = 1..Len(a)
      /\ ToSet(b) = {b[i] : i \in 1..Len(b)} /\ DOMAIN b = 1..Len(b)
  BY <1>2, <1>3, Members
<1>5. \A i, j \in 1..Len(s) : s[i] = s[j] => i = j
  BY <1>1 DEF IsInjective
<1>6. IsInjective(a) /\ IsInjective(b)
  <2>1. \A i, j \in 1..Len(a) : a[i] = a[j] => i = j
    BY <1>1, <1>2, <1>5
  <2>2. ASSUME NEW i \in 1..Len(b), NEW j \in 1..Len(b), b[i] = b[j] PROVE i = j
    <3>1. p + i \in 1..Len(s) /\ p + j \in 1..Len(s) /\ s[p + i] = s[p + j]
      BY <1>1, <1>3, <2>2
    <3>2. p + i = p + j
      BY <1>5, <3>1
    <3>3. QED
      BY <1>1, <3>2
  <2>3. QED
    BY <1>4, <2>1, <2>2 DEF IsInjective
<1>7. ToSet(a) \cap ToSet(b) = {}
  <2> SUFFICES ASSUME NEW i \in 1..Len(a), NEW j \in 1..Len(b), a[i] = b[j]
               PROVE  FALSE
    BY <1>4
  <2>1. i \in 1..Len(s) /\ p + j \in 1..Len(s) /\ s[i] = s[p + j] /\ i # p + j
    BY <1>1, <1>2, <1>3
  <2>2. QED
    BY <1>5, <2>1
<1>8. ToSet(a) \cup ToSet(b) = ToSet(s) \ {s[p]}
  <2>1. ASSUME NEW i \in 1..Len(a) PROVE a[i] \in ToSet(s) \ {s[p]}
    <3>1. i \in 1..Len(s) /\ i # p /\ a[i] = s[i]
      BY <1>1, <1>2
    <3>2. QED
      BY <1>1, <1>5, <3>1
  <2>2. ASSUME NEW i \in 1..Len(b) PROVE b[i] \in ToSet(s) \ {s[p]}
    <3>1. p + i \in 1..Len(s) /\ p + i # p /\ b[i] = s[p + i]
      BY <1>1, <1>3
    <3>2. QED
      BY <1>1, <1>5, <3>1
  <2>3. ASSUME NEW i \in 1..Len(s), i # p PROVE s[i] \in ToSet(a) \cup ToSet(b)
    <3>1. CASE i < p
      BY <1>2, <1>4, <3>1
    <3>2. CASE i > p
      <4>1. i - p \in 1..Len(b) /\ b[i - p] = s[p + (i - p)] /\ p + (i - p) = i
        BY <1>1, <1>3, <3>2
      <4>2. QED
        BY <1>4, <4>1
    <3>3. QED
      BY <1>1, <2>3, <3>1, <3>2
  <2>4. QED
    BY <1>1, <1>4, <2>1, <2>2, <2>3
<1>9. RemoveAt(s, p) = a \o b
  BY DEF RemoveAt, a, b
<1>10. QED
  BY <1>2, <1>3, <1>6, <1>7, <1>8, <1>9, ConcatNew

\* The orders of a finite set are sequences of all its elements, each once.
LEMMA Orders ==
    ASSUME NEW S, IsFiniteSet(S), NEW order \in SetToSeqs(S)
    PROVE  order \in Seq(S) /\ IsInjective(order) /\ ToSet(order) = S
<1> DEFINE n == Cardinality(S)
<1>1. n \in Nat /\ IsFiniteSet(1..n) /\ Cardinality(1..n) = n
  BY FS_CardinalityType, FS_Interval
<1>2. order \in [1..n -> S] /\ \A i, j \in 1..n : i # j => order[i] # order[j]
  BY DEF SetToSeqs
<1> HIDE DEF n
<1>3. IsInjective(order)
  BY <1>2 DEF IsInjective
<1>4. order \in Injection(1..n, S)
  BY <1>2, <1>3 DEF Injection
<1>5. order \in Surjection(1..n, S)
  BY <1>1, <1>4, FS_Injection DEF n
<1>6. order \in Seq(S)
  BY <1>1, <1>2, SeqDef
<1>7. ToSet(order) = S
  BY <1>2, <1>5 DEF ToSet, Surjection
<1>8. QED
  BY <1>3, <1>6, <1>7

-----------------------------------------------------------------------------
(* The schedule, the counters and the poll.                                 *)

\* The longest wait is a step of the schedule.
LEMMA Waits ==
    /\ MaxWait \in Nat /\ MaxAttempts \in Nat /\ MaxAttempts > 0
    /\ DOMAIN Backoff = 1..MaxAttempts
    /\ \A i \in 1..MaxAttempts : Backoff[i] \in 1..MaxWait
<1> DEFINE n == Len(Backoff)
           Longest(k) == \E j \in 1..k : \A i \in 1..k : Backoff[i] <= Backoff[j]
           T == {k \in 1..n : ~Longest(k)}
           R == OpToRel(<, Nat)
<1>1. /\ n \in Nat /\ n > 0 /\ DOMAIN Backoff = 1..n
      /\ \A i \in 1..n : Backoff[i] \in Nat /\ Backoff[i] > 0
  <2>1. n \in Nat /\ DOMAIN Backoff = 1..n /\ \A i \in 1..n : Backoff[i] \in Nat \ {0}
    BY BackoffAssumption, LenProperties, ElementOfSeq
  <2>2. n # 0
    BY BackoffAssumption, EmptySeq
  <2>3. QED
    BY <2>1, <2>2
<1>2. IsWellFoundedOn(R, Nat)
  BY NatLessThanWellFounded
<1>3. \A u, v \in Nat : u < v => <<u, v>> \in R
  BY DEF OpToRel
<1> HIDE DEF R, n, Longest
<1>4. T = {}
  <2> SUFFICES ASSUME T # {} PROVE FALSE
    OBVIOUS
  <2>1. T \subseteq Nat
    BY <1>1
  <2>2. PICK k \in T : \A y \in T : ~(<<y, k>> \in R)
    BY <1>2, <2>1, WFMin
  <2>3. k \in 1..n /\ ~Longest(k)
    BY <2>2
  <2>4. k # 1
    <3>1. k = 1 => Longest(k)
      BY <1>1 DEF Longest
    <3>2. QED
      BY <2>3, <3>1
  <2>5. /\ k - 1 \in 1..n /\ k - 1 < k /\ k - 1 \in Nat /\ k \in Nat
        /\ 1..k = (1..k-1) \cup {k}
    BY <1>1, <2>3, <2>4
  <2>6. k - 1 \notin T
    BY <1>3, <2>2, <2>5
  <2>7. PICK j \in 1..k-1 : \A i \in 1..k-1 : Backoff[i] <= Backoff[j]
    BY <2>5, <2>6 DEF Longest
  <2>8. /\ 1..k = (1..k-1) \cup {k} /\ j \in 1..k /\ k \in 1..k
        /\ Backoff[j] \in Nat /\ Backoff[k] \in Nat
        /\ \A i \in 1..k-1 : Backoff[i] \in Nat
    <3>1. \A i \in 1..k-1 : i \in 1..n
      BY <1>1, <2>3, <2>5
    <3>2. \A i \in 1..k-1 : Backoff[i] \in Nat
      BY <1>1, <3>1
    <3>3. Backoff[j] \in Nat /\ Backoff[k] \in Nat
      BY <1>1, <2>3, <3>2
    <3>4. QED
      BY <2>5, <3>2, <3>3
  <2>9. CASE Backoff[k] <= Backoff[j]
    <3>1. \A i \in 1..k : Backoff[i] <= Backoff[j]
      BY <2>7, <2>8, <2>9
    <3>2. QED
      BY <2>3, <2>8, <3>1 DEF Longest
  <2>10. CASE ~(Backoff[k] <= Backoff[j])
    <3>1. ASSUME NEW i \in 1..k PROVE Backoff[i] <= Backoff[k]
      <4>1. i \in 1..k-1 \/ i = k
        BY <2>8
      <4>2. i \in 1..k-1 => Backoff[i] \in Nat /\ Backoff[i] <= Backoff[j]
        BY <2>7, <2>8
      <4>3. Backoff[j] \in Nat /\ Backoff[k] \in Nat /\ ~(Backoff[k] <= Backoff[j])
        BY <2>8, <2>10
      <4>4. QED
        BY <4>1, <4>2, <4>3
    <3>2. QED
      BY <2>3, <2>8, <3>1 DEF Longest
  <2>11. QED
    BY <2>9, <2>10
<1>5. n \in 1..n
  BY <1>1
<1>6. PICK j \in 1..n : \A i \in 1..n : Backoff[i] <= Backoff[j]
  BY <1>4, <1>5 DEF Longest
<1> DEFINE S == {Backoff[i] : i \in DOMAIN Backoff}
<1>7. Backoff[j] \in S /\ \A y \in S : Backoff[j] >= y
  BY <1>1, <1>6
<1>8. MaxWait \in S /\ \A y \in S : MaxWait >= y
  BY <1>7 DEF MaxWait, Max
<1>9. MaxWait \in Nat /\ \A i \in 1..n : Backoff[i] \in 1..MaxWait
  <2>1. MaxWait \in Nat
    BY <1>1, <1>8
  <2>2. ASSUME NEW i \in 1..n PROVE Backoff[i] \in 1..MaxWait
    <3>1. Backoff[i] \in S
      BY <1>1
    <3>2. MaxWait >= Backoff[i]
      BY <1>8, <3>1
    <3>3. QED
      BY <1>1, <2>1, <3>2
  <2>3. QED
    BY <2>1, <2>2
<1>10. QED
  BY <1>1, <1>9 DEF MaxAttempts, n

\* Counters stay below their cap.
LEMMA Counts ==
    /\ CountCap \in Nat /\ CountCap = MaxAttempts + 2
    /\ \A n \in 0..CountCap : Bump(n) \in 0..CountCap
    /\ \A n \in Nat : Bump(n) \in Nat /\ Bump(n) > 0 /\ n <= Bump(n) /\ Bump(n) <= n + 1
BY Waits DEF CountCap, Bump

\* What the schedule owes after a failure, and that past its end it owes nothing.
LEMMA Owes ==
    ASSUME NEW n \in Nat
    PROVE  /\ Step(n + 1) \in 0..MaxWait
           /\ n < MaxAttempts => Step(n + 1) = Backoff[n + 1] /\ Backoff[n + 1] \in 1..MaxWait
           /\ ~(n < MaxAttempts) => Step(n + 1) = 0
<1>1. n + 1 \in 1..MaxAttempts <=> n < MaxAttempts
  BY Waits
<1>2. MaxWait \in Nat /\ \A i \in 1..MaxAttempts : Backoff[i] \in 1..MaxWait
  BY Waits
<1>3. Step(n + 1) = IF n < MaxAttempts THEN Backoff[n + 1] ELSE 0
  BY <1>1, Waits DEF Step
<1>4. QED
  BY <1>1, <1>2, <1>3

Entry == [mail : Mails, attempts : 0..CountCap]

\* The history when the server takes m, when a fault hides that it did, when
\* there is a fault, when m is owed w, and when time passes.
Delivered(h, m) == [h EXCEPT !.delivered[m] = Bump(@)]
Excused(h, m)   == [h EXCEPT !.excused[m] = @ + 1, !.faults = @ + 1]
Fault(h)        == [h EXCEPT !.faults = @ + 1]
Owed(h, m, w)   == [h EXCEPT !.owed[m] = w]
Aged(h) == [h EXCEPT !.owed = [m \in Mails |-> IF @[m] > 0 THEN @[m] - 1 ELSE 0]]

LEMMA HistDelivered ==
    ASSUME NEW h \in Hist, NEW m \in Mails
    PROVE  /\ Delivered(h, m) \in Hist
           /\ Delivered(h, m).delivered = [h.delivered EXCEPT ![m] = Bump(@)]
           /\ Delivered(h, m).excused = h.excused /\ Delivered(h, m).owed = h.owed
<1>1. h.delivered \in [Mails -> Nat]
  BY DEF Hist
<1>2. [h.delivered EXCEPT ![m] = Bump(@)] \in [Mails -> Nat]
  BY <1>1, Counts
<1>3. QED
  BY <1>2 DEF Hist, Delivered

LEMMA HistFault ==
    ASSUME NEW h \in Hist
    PROVE  /\ Fault(h) \in Hist
           /\ Fault(h).delivered = h.delivered /\ Fault(h).excused = h.excused
           /\ Fault(h).owed = h.owed
BY DEF Hist, Fault

LEMMA HistExcused ==
    ASSUME NEW h \in Hist, NEW m \in Mails
    PROVE  /\ Excused(h, m) \in Hist
           /\ Excused(h, m).excused = [h.excused EXCEPT ![m] = @ + 1]
           /\ Excused(h, m).delivered = h.delivered /\ Excused(h, m).owed = h.owed
<1> DEFINE f == [h.excused EXCEPT ![m] = @ + 1]
           g == [h EXCEPT !.excused = f]
           t == Excused(h, m)
<1>1. h.excused \in [Mails -> Nat]
  BY DEF Hist
<1>2. f \in [Mails -> Nat]
  BY <1>1
<1>3. t = Fault(g)
  BY DEF Hist, Excused, Fault
<1> HIDE DEF f
<1>4. /\ g \in Hist /\ g.excused = f /\ g.delivered = h.delivered
      /\ g.owed = h.owed
  BY <1>2 DEF Hist
<1> HIDE DEF g, t
<1>5. /\ t \in Hist /\ t.excused = g.excused /\ t.delivered = g.delivered
      /\ t.owed = g.owed
  BY <1>3, <1>4, HistFault
<1>6. QED
  BY <1>4, <1>5 DEF f, t

LEMMA HistOwed ==
    ASSUME NEW h \in Hist, NEW m \in Mails, NEW w \in 0..MaxWait
    PROVE  /\ Owed(h, m, w) \in Hist
           /\ Owed(h, m, w).owed = [h.owed EXCEPT ![m] = w]
           /\ Owed(h, m, w).delivered = h.delivered
           /\ Owed(h, m, w).excused = h.excused
<1>1. h.owed \in [Mails -> 0..MaxWait]
  BY DEF Hist
<1>2. [h.owed EXCEPT ![m] = w] \in [Mails -> 0..MaxWait]
  BY <1>1
<1>3. QED
  BY <1>2 DEF Hist, Owed

LEMMA HistTick ==
    ASSUME NEW h \in Hist
    PROVE  /\ Aged(h) \in Hist
           /\ Aged(h).owed = [m \in Mails |-> IF h.owed[m] > 0 THEN h.owed[m] - 1 ELSE 0]
           /\ Aged(h).delivered = h.delivered /\ Aged(h).excused = h.excused
<1> DEFINE t == Aged(h)
           f == [m \in Mails |-> IF h.owed[m] > 0 THEN h.owed[m] - 1 ELSE 0]
<1>1. h.owed \in [Mails -> 0..MaxWait]
  BY DEF Hist
<1>2. f \in [Mails -> 0..MaxWait]
  BY <1>1, Waits
<1>3. t = [h EXCEPT !.owed = f]
  BY DEF Aged
<1> HIDE DEF f, t
<1>4. t \in Hist /\ t.owed = f /\ t.delivered = h.delivered /\ t.excused = h.excused
  BY <1>2, <1>3 DEF Hist
<1>5. QED
  BY <1>4 DEF f, t

-----------------------------------------------------------------------------
(* The inductive invariant.                                                 *)

\* What the pass under way still has to do is due, each mail once, and nobody
\* counted an attempt since the poll.
DueIsReady ==
    /\ \A i \in DOMAIN worker.due :
          /\ worker.due[i].mail \in ToSet(ready)
          /\ worker.due[i].attempts = attempts[worker.due[i].mail]
    /\ \A i, j \in DOMAIN worker.due : worker.due[i].mail = worker.due[j].mail => i = j

\* The server has just taken m, and the row does not say so yet.
Accepted(m) == worker.due # <<>> /\ worker.pc = "accepted" /\ Current = m

\* The table does not say that m was sent.
Unsent(m) == m \notin queued \/ m \in ToSet(ready) \/ wait[m] > 0

AcceptedDelivered == \A m \in Mails : Accepted(m) => hist.delivered[m] > 0

\* A delivery that the table does not show, and is not about to, is excused.
Accounted ==
    \A m \in Mails :
        /\ hist.delivered[m] <= hist.excused[m] + 1
        /\ Unsent(m) /\ ~Accepted(m) => hist.delivered[m] <= hist.excused[m]

\* What the schedule owes a mail is what its row waits.
OwedIsWaited == hist.owed = wait

Inv ==
    /\ TypeOK /\ IsFiniteSet(queued)
    /\ DueIsReady /\ AcceptedDelivered /\ Accounted /\ OwedIsWaited
    /\ NothingForgotten

\* What the type invariant says of the rows, one by one.
LEMMA RowFacts ==
    ASSUME TypeOK
    PROVE  /\ ready \in Seq(queued) /\ IsInjective(ready) /\ ToSet(ready) \subseteq queued
           /\ Len(ready) \in Nat /\ DOMAIN ready = 1..Len(ready)
           /\ ToSet(ready) = {ready[i] : i \in 1..Len(ready)}
           /\ \A m \in Mails : wait[m] \in Nat /\ wait[m] \in 0..MaxWait
           /\ \A m \in Mails : wait[m] > 0 =>
                  m \in queued /\ m \notin ToSet(ready) /\ m \notin sent
<1>1. ready \in Seq(queued) /\ IsInjective(ready) /\ wait \in [Mails -> 0..MaxWait]
  BY DEF TypeOK
<1>2. \A m \in Mails : wait[m] \in Nat /\ wait[m] \in 0..MaxWait
  BY <1>1, Waits
<1>3. \A m \in Mails : wait[m] > 0 => m \in queued \ (ToSet(ready) \cup sent)
  BY DEF TypeOK
<1>4. QED
  BY <1>1, <1>2, <1>3, Members

\* Taking a mail out of the due ones leaves the others due, in their order.
LEMMA UnreadyFacts ==
    ASSUME TypeOK, NEW m \in Mails
    PROVE  /\ Unready(m) \in Seq(queued) /\ IsInjective(Unready(m))
           /\ ToSet(Unready(m)) = ToSet(ready) \ {m}
<1>1. CASE m \in ToSet(ready)
  <2> DEFINE p == CHOOSE i \in DOMAIN ready : ready[i] = m
  <2>1. p \in 1..Len(ready) /\ ready[p] = m
    BY <1>1, RowFacts
  <2>2. Unready(m) = RemoveAt(ready, p)
    BY <1>1 DEF Unready
  <2> HIDE DEF p
  <2>3. QED
    BY <2>1, <2>2, RowFacts, RemoveAtPlace
<1>2. CASE m \notin ToSet(ready)
  BY <1>2, RowFacts DEF Unready
<1>3. QED
  BY <1>1, <1>2

\* What a poll takes.
LEMMA DueFacts ==
    ASSUME TypeOK, ready # <<>>
    PROVE  /\ Due \in Seq(Entry) /\ Len(Due) <= Limit /\ DOMAIN Due = 1..Len(Due)
           /\ \A i \in 1..Len(Due) : /\ i \in 1..Len(ready)
                                     /\ Due[i].mail = ready[i]
                                     /\ Due[i].attempts = attempts[ready[i]]
<1> DEFINE n == Min({Limit, Len(ready)})
           taken == SubSeq(ready, 1, n)
           d == [i \in DOMAIN taken |-> [mail |-> taken[i], attempts |-> attempts[taken[i]]]]
<1>1. Limit \in Nat /\ Limit > 0 /\ Len(ready) \in Nat
  BY LimitAssumption, RowFacts
<1>2. n \in Nat /\ n <= Limit /\ n <= Len(ready)
  <2>1. \E x \in {Limit, Len(ready)} : \A y \in {Limit, Len(ready)} : x =< y
    BY <1>1
  <2>2. n \in {Limit, Len(ready)} /\ \A y \in {Limit, Len(ready)} : n =< y
    BY <2>1 DEF Min
  <2> HIDE DEF n
  <2>3. QED
    BY <1>1, <2>2
<1> HIDE DEF n
<1>3. /\ \A i \in 1..n : i \in 1..Len(ready) /\ ready[i] \in queued
      /\ queued \subseteq Mails
      /\ \A m \in Mails : attempts[m] \in 0..CountCap
  BY <1>1, <1>2, RowFacts, ElementOfSeq DEF TypeOK
<1>4. taken \in Seq(queued) /\ Len(taken) = n /\ \A i \in 1..n : taken[i] = ready[i]
  <2>1. \A i \in 1..n : ready[i] \in queued
    BY <1>3
  <2>2. /\ taken \in Seq(queued) /\ Len(taken) = IF 1 <= n THEN n - 1 + 1 ELSE 0
        /\ \A i \in 1..n - 1 + 1 : taken[i] = ready[1 + i - 1]
    BY <1>2, <2>1, SubSeqProperties
  <2> HIDE DEF taken
  <2>3. QED
    BY <1>2, <2>2
<1>5. DOMAIN taken = 1..n
  BY <1>4, LenProperties
<1> HIDE DEF taken
<1>6. \A i \in 1..n : d[i] = [mail |-> ready[i], attempts |-> attempts[ready[i]]]
  BY <1>4, <1>5
<1>7. d \in [1..n -> Entry]
  BY <1>3, <1>4, <1>5 DEF Entry
<1>8. d \in Seq(Entry)
  BY <1>2, <1>7, SeqDef
<1>9. Due = d
  BY DEF Due, d, taken, n
<1> HIDE DEF d
<1>10. Len(d) = n /\ DOMAIN d = 1..n
  BY <1>2, <1>7, <1>8, LenProperties
<1>11. QED
  BY <1>2, <1>3, <1>6, <1>8, <1>9, <1>10

\* The head of the pass and what is left after it.
LEMMA PassFacts ==
    ASSUME TypeOK, worker.due # <<>>
    PROVE  /\ Len(worker.due) \in Nat /\ Len(worker.due) > 0 /\ Len(worker.due) <= Limit
           /\ DOMAIN worker.due = 1..Len(worker.due)
           /\ \A i \in 1..Len(worker.due) : worker.due[i] \in Entry
           /\ Head(worker.due) = worker.due[1] /\ Current = worker.due[1].mail
           /\ Current \in Mails
           /\ Next1 \in Worker /\ Next1.pc = "sending"
           /\ Len(Next1.due) = Len(worker.due) - 1
           /\ DOMAIN Next1.due = 1..Len(worker.due) - 1
           /\ \A i \in 1..Len(worker.due) - 1 : Next1.due[i] = worker.due[i + 1]
<1>1. worker.due \in Seq(Entry) /\ Len(worker.due) <= Limit
  BY DEF TypeOK, Worker, Entry
<1>2. /\ Len(worker.due) \in Nat /\ DOMAIN worker.due = 1..Len(worker.due)
      /\ \A i \in 1..Len(worker.due) : worker.due[i] \in Entry
      /\ Len(worker.due) # 0
  BY <1>1, LenProperties, ElementOfSeq, EmptySeq
<1>3. /\ Tail(worker.due) \in Seq(Entry)
      /\ Len(Tail(worker.due)) = Len(worker.due) - 1
      /\ \A i \in 1..Len(Tail(worker.due)) : Tail(worker.due)[i] = worker.due[i + 1]
  BY <1>1, HeadTailProperties
<1>4. Head(worker.due) = worker.due[1]
  OBVIOUS
<1>5. /\ Next1 \in Worker /\ Next1.pc = "sending" /\ Next1.due = Tail(worker.due)
  BY <1>3 DEF Next1, Worker, Entry
<1>6. DOMAIN Tail(worker.due) = 1..Len(worker.due) - 1
  BY <1>3, LenProperties
<1>7. Current = worker.due[1].mail /\ Current \in Mails
  BY <1>2, <1>4 DEF Current, Entry
<1>8. QED
  BY <1>1, <1>2, <1>3, <1>4, <1>5, <1>6, <1>7

\* An idle worker.
LEMMA IdleFacts == Idle \in Worker /\ Idle.due = <<>> /\ Len(Idle.due) = 0 /\ DOMAIN Idle.due = {}
<1>1. <<>> \in Seq(Entry) /\ Len(<<>>) = 0
  BY EmptySeq
<1>2. DOMAIN <<>> = 1..0
  BY <1>1, LenProperties
<1>3. 1..0 = {}
  OBVIOUS
<1>4. QED
  BY <1>1, <1>2, <1>3 DEF Idle, Worker, Entry

-----------------------------------------------------------------------------
(* Every step keeps the invariant.                                          *)

LEMMA InitInv == Init => Inv
<1> SUFFICES ASSUME Init PROVE Inv
  OBVIOUS
<1>1. /\ queued = {} /\ ready = <<>> /\ wait = Zero /\ sent = {} /\ attempts = Zero
      /\ proc = "up" /\ worker = Idle /\ server \in BOOLEAN /\ configured \in BOOLEAN
      /\ hist = [delivered |-> Zero, excused |-> Zero, owed |-> Zero, faults |-> 0]
  BY DEF Init
<1>2. /\ Zero \in [Mails -> Nat] /\ Zero \in [Mails -> 0..MaxWait]
      /\ Zero \in [Mails -> 0..CountCap] /\ \A m \in Mails : Zero[m] = 0
  BY Waits, Counts DEF Zero
<1>3. hist \in Hist /\ hist.delivered = Zero /\ hist.excused = Zero /\ hist.owed = Zero
  BY <1>1, <1>2 DEF Hist
<1>4. ready \in Seq(queued) /\ Len(ready) = 0
  BY <1>1, EmptySeq
<1>5. DOMAIN ready = {}
  <2>1. DOMAIN ready = 1..0
    BY <1>4, LenProperties
  <2>2. QED
    BY <2>1
<1>6. IsInjective(ready) /\ ToSet(ready) = {}
  BY <1>5 DEF IsInjective, ToSet
<1>7. TypeOK
  <2>1. {m \in Mails : wait[m] > 0} = {}
    BY <1>1, <1>2
  <2>2. worker \in Worker /\ Len(worker.due) <= Limit
    BY <1>1, IdleFacts, LimitAssumption
  <2>3. QED
    BY <1>1, <1>2, <1>3, <1>4, <1>6, <2>1, <2>2 DEF TypeOK
<1>8. IsFiniteSet(queued)
  BY <1>1, FS_EmptySet
<1>9. DueIsReady
  BY <1>1, IdleFacts DEF DueIsReady
<1>10. AcceptedDelivered
  BY <1>1, IdleFacts DEF AcceptedDelivered, Accepted
<1>11. Accounted
  BY <1>2, <1>3 DEF Accounted
<1>12. OwedIsWaited /\ NothingForgotten
  BY <1>1, <1>3 DEF OwedIsWaited, NothingForgotten
<1>13. QED
  BY <1>7, <1>8, <1>9, <1>10, <1>11, <1>12 DEF Inv

\* A new row is due, and was not delivered before.
LEMMA EnqueueInv == ASSUME Inv, NEW e \in Mails, Enqueue(e) PROVE Inv'
<1>1. /\ e \notin queued /\ queued' = queued \cup {e} /\ ready' = Append(ready, e)
      /\ wait' = wait /\ sent' = sent /\ attempts' = attempts /\ proc' = proc
      /\ worker' = worker /\ server' = server /\ configured' = configured /\ hist' = hist
  BY DEF Enqueue, env
<1>2. TypeOK
  BY DEF Inv
<1>3. /\ ready \in Seq(queued \cup {e}) /\ IsInjective(ready)
      /\ ToSet(ready) \subseteq queued
      /\ \A m \in Mails : wait[m] > 0 =>
             m \in queued /\ m \notin ToSet(ready) /\ m \notin sent
  BY <1>2, RowFacts, SeqMonotonic
<1>4. ready' \in Seq(queued') /\ IsInjective(ready') /\ ToSet(ready') = ToSet(ready) \cup {e}
  BY <1>1, <1>3, AppendNew
<1>5. TypeOK'
  <2>1. queued' \subseteq Mails /\ sent' \subseteq queued'
    BY <1>1, <1>2 DEF TypeOK
  <2>2. {m \in Mails : wait'[m] > 0} \subseteq queued' \ (ToSet(ready') \cup sent')
    BY <1>1, <1>3, <1>4
  <2>3. ToSet(ready') \cap sent' = {}
    BY <1>1, <1>2, <1>4 DEF TypeOK
  <2>4. QED
    BY <1>1, <1>2, <1>4, <2>1, <2>2, <2>3 DEF TypeOK
<1>6. IsFiniteSet(queued')
  BY <1>1, FS_AddElement DEF Inv
<1>7. DueIsReady'
  BY <1>1, <1>4 DEF Inv, DueIsReady
<1>8. AcceptedDelivered' /\ OwedIsWaited'
  BY <1>1 DEF Inv, AcceptedDelivered, Accepted, Current, OwedIsWaited
<1>9. Accounted'
  <2>1. \A m \in Mails : Unsent(m)' => Unsent(m)
    BY <1>1, <1>4 DEF Unsent
  <2>2. \A m \in Mails : Accepted(m)' <=> Accepted(m)
    BY <1>1 DEF Accepted, Current
  <2>3. QED
    BY <1>1, <2>1, <2>2 DEF Inv, Accounted
<1>10. NothingForgotten'
  BY <1>1, <1>4 DEF Inv, NothingForgotten
<1>11. QED
  BY <1>5, <1>6, <1>7, <1>8, <1>9, <1>10 DEF Inv

\* When the rows stay, so does what is said of them alone.
LEMMA SameRows ==
    ASSUME Inv, UNCHANGED db, hist'.owed = hist.owed, hist' \in Hist,
           \A m \in Mails : hist.delivered[m] <= hist'.delivered[m],
           worker' \in Worker, Len(worker'.due) <= Limit,
           proc' \in {"up", "stopping", "down"},
           server' \in BOOLEAN, configured' \in BOOLEAN
    PROVE  /\ TypeOK' /\ IsFiniteSet(queued') /\ OwedIsWaited' /\ NothingForgotten'
           /\ \A m \in Mails : Unsent(m)' <=> Unsent(m)
<1>1. /\ queued' = queued /\ ready' = ready /\ wait' = wait /\ sent' = sent
      /\ attempts' = attempts
  BY DEF db
<1>2. TypeOK'
  BY <1>1 DEF Inv, TypeOK
<1>3. IsFiniteSet(queued') /\ OwedIsWaited'
  BY <1>1 DEF Inv, OwedIsWaited
<1>4. NothingForgotten'
  <2>1. queued \subseteq Mails /\ hist \in Hist
    BY DEF Inv, TypeOK
  <2>2. \A m \in Mails : hist.delivered[m] \in Nat /\ hist'.delivered[m] \in Nat
    BY <2>1 DEF Hist
  <2>3. QED
    BY <1>1, <2>1, <2>2 DEF Inv, NothingForgotten
<1>5. \A m \in Mails : Unsent(m)' <=> Unsent(m)
  BY <1>1 DEF Unsent
<1>6. QED
  BY <1>2, <1>3, <1>4, <1>5

\* Poll, a pass given up, the end of the process and the world outside change
\* no row and deliver nothing.
LEMMA PollInv == ASSUME Inv, Poll PROVE Inv'
<1>1. /\ ready # <<>> /\ worker' = [pc |-> "sending", due |-> Due]
      /\ queued' = queued /\ ready' = ready /\ wait' = wait /\ sent' = sent
      /\ attempts' = attempts /\ UNCHANGED db
      /\ proc' = proc /\ hist' = hist /\ server' = server /\ configured' = configured
  BY DEF Poll, db, env
<1>2. TypeOK
  BY DEF Inv
<1>3. /\ Due \in Seq(Entry) /\ Len(Due) <= Limit /\ DOMAIN Due = 1..Len(Due)
      /\ \A i \in 1..Len(Due) : /\ i \in 1..Len(ready)
                                /\ Due[i].mail = ready[i]
                                /\ Due[i].attempts = attempts[ready[i]]
  BY <1>1, <1>2, DueFacts
<1> HIDE DEF Due
<1>4. worker' \in Worker /\ worker'.due = Due /\ worker'.pc = "sending"
  BY <1>1, <1>3 DEF Worker, Entry
<1>5. /\ TypeOK' /\ IsFiniteSet(queued') /\ OwedIsWaited' /\ NothingForgotten'
      /\ \A m \in Mails : Unsent(m)' <=> Unsent(m)
  <2>1. hist \in Hist /\ \A m \in Mails : hist.delivered[m] \in Nat
    BY <1>2 DEF TypeOK, Hist
  <2>2. proc \in {"up", "stopping", "down"} /\ server \in BOOLEAN /\ configured \in BOOLEAN
    BY <1>2 DEF TypeOK
  <2>3. QED
    BY <1>1, <1>3, <1>4, <2>1, <2>2, SameRows
<1>6. DueIsReady'
  <2>1. \A i \in 1..Len(ready) : ready[i] \in ToSet(ready)
    BY <1>2, RowFacts
  <2>2. \A i, j \in 1..Len(ready) : ready[i] = ready[j] => i = j
    BY <1>2, RowFacts DEF IsInjective
  <2>3. QED
    BY <1>1, <1>3, <1>4, <2>1, <2>2 DEF DueIsReady
<1>7. \A m \in Mails : ~Accepted(m)'
  BY <1>4 DEF Accepted
<1>8. AcceptedDelivered' /\ Accounted'
  <2>1. \A m \in Mails : ~Accepted(m) => ~Accepted(m)'
    BY <1>7
  <2>2. \A m \in Mails : Unsent(m) => hist.delivered[m] <= hist.excused[m]
    <3>1. worker.due = <<>>
      BY DEF Poll
    <3>2. \A m \in Mails : ~Accepted(m)
      BY <3>1 DEF Accepted
    <3>3. QED
      BY <3>2 DEF Inv, Accounted
  <2>3. QED
    BY <1>1, <1>5, <1>7, <2>2 DEF AcceptedDelivered, Accounted, Inv
<1>9. QED
  BY <1>5, <1>6, <1>8 DEF Inv

LEMMA AbandonInv == ASSUME Inv, Abandon PROVE Inv'
<1>1. /\ worker.pc = "sending" /\ worker' = Idle
      /\ proc' = proc /\ hist' = hist /\ server' = server /\ configured' = configured
      /\ UNCHANGED db
  BY DEF Abandon, env
<1>2. TypeOK
  BY DEF Inv
<1>3. /\ TypeOK' /\ IsFiniteSet(queued') /\ OwedIsWaited' /\ NothingForgotten'
      /\ \A m \in Mails : Unsent(m)' <=> Unsent(m)
  <2>1. hist \in Hist /\ \A m \in Mails : hist.delivered[m] \in Nat
    BY <1>2 DEF TypeOK, Hist
  <2>2. proc \in {"up", "stopping", "down"} /\ server \in BOOLEAN /\ configured \in BOOLEAN
    BY <1>2 DEF TypeOK
  <2>3. worker' \in Worker /\ Len(worker'.due) <= Limit
    BY <1>1, IdleFacts, LimitAssumption
  <2>4. QED
    BY <1>1, <2>1, <2>2, <2>3, SameRows
<1>4. DueIsReady'
  BY <1>1, IdleFacts DEF DueIsReady
<1>5. \A m \in Mails : ~Accepted(m) /\ ~Accepted(m)'
  BY <1>1, IdleFacts DEF Accepted
<1>6. AcceptedDelivered' /\ Accounted'
  BY <1>1, <1>3, <1>5 DEF Inv, AcceptedDelivered, Accounted
<1>7. QED
  BY <1>3, <1>4, <1>6 DEF Inv

LEMMA OutsideInv ==
    ASSUME Inv, Stop \/ Exit \/ Start \/ ServerChanges \/ Configure PROVE Inv'
<1>1. /\ worker' = worker /\ hist' = hist /\ UNCHANGED db
      /\ proc' \in {"up", "stopping", "down"}
      /\ server' \in BOOLEAN /\ configured' \in BOOLEAN
  BY DEF Inv, TypeOK, Stop, Exit, Start, ServerChanges, Configure, env
<1>2. TypeOK
  BY DEF Inv
<1>3. /\ TypeOK' /\ IsFiniteSet(queued') /\ OwedIsWaited' /\ NothingForgotten'
      /\ \A m \in Mails : Unsent(m)' <=> Unsent(m)
  <2>1. hist \in Hist /\ \A m \in Mails : hist.delivered[m] \in Nat
    BY <1>2 DEF TypeOK, Hist
  <2>2. worker \in Worker /\ Len(worker.due) <= Limit
    BY <1>2 DEF TypeOK
  <2>3. QED
    BY <1>1, <2>1, <2>2, SameRows
<1>4. DueIsReady'
  BY <1>1 DEF Inv, DueIsReady, db
<1>5. \A m \in Mails : Accepted(m)' <=> Accepted(m)
  BY <1>1 DEF Accepted, Current
<1>6. AcceptedDelivered' /\ Accounted'
  BY <1>1, <1>3, <1>5 DEF Inv, AcceptedDelivered, Accounted
<1>7. QED
  BY <1>3, <1>4, <1>6 DEF Inv

\* The types of what the books keep of a mail.
LEMMA BookTypes ==
    ASSUME TypeOK
    PROVE  \A m \in Mails : /\ hist.delivered[m] \in Nat
                            /\ hist.excused[m] \in Nat
                            /\ attempts[m] \in 0..CountCap
BY DEF TypeOK, Hist

\* A sending books the delivery, and the loss of the reply its excuse.
LEMMA TransmitInv == ASSUME Inv, Transmit PROVE Inv'
<1>1. /\ worker.due # <<>> /\ worker.pc = "sending" /\ UNCHANGED db
      /\ proc' = proc /\ server' = server /\ configured' = configured
  BY DEF Transmit, env
<1>2. TypeOK
  BY DEF Inv
<1>3. Current \in Mails
  BY <1>1, <1>2, PassFacts
<1>4. /\ hist \in Hist /\ worker \in Worker /\ Len(worker.due) <= Limit
      /\ proc \in {"up", "stopping", "down"} /\ server \in BOOLEAN /\ configured \in BOOLEAN
      /\ hist.delivered \in [Mails -> Nat] /\ hist.excused \in [Mails -> Nat]
  BY <1>2 DEF TypeOK, Hist
<1>5. \/ /\ worker' = [worker EXCEPT !.pc = "accepted"]
         /\ hist' = Delivered(hist, Current)
      \/ /\ worker' = [worker EXCEPT !.pc = "refused"]
         /\ hist' = Excused(Delivered(hist, Current), Current)
      \/ worker' = [worker EXCEPT !.pc = "refused"] /\ hist' = hist
  BY DEF Transmit, Delivered, Excused
<1>6. /\ worker' \in Worker /\ worker'.due = worker.due /\ Current' = Current
      /\ worker'.pc \in {"accepted", "refused"}
  BY <1>4, <1>5 DEF Worker, Current
<1> DEFINE c == Current
<1>7. \A n \in Nat : Bump(n) \in Nat /\ Bump(n) > 0 /\ n <= Bump(n) /\ Bump(n) <= n + 1
  BY Counts
<1>8. /\ hist' \in Hist /\ hist'.owed = hist.owed
      /\ \A m \in Mails :
            /\ hist'.delivered[m] \in Nat /\ hist'.excused[m] \in Nat
            /\ hist.delivered[m] <= hist'.delivered[m]
            /\ m # c => /\ hist'.delivered[m] = hist.delivered[m]
                        /\ hist'.excused[m] = hist.excused[m]
      /\ \/ /\ worker'.pc = "accepted"
            /\ hist'.delivered[c] > 0 /\ hist'.delivered[c] <= hist.delivered[c] + 1
            /\ hist'.excused[c] = hist.excused[c]
         \/ /\ worker'.pc = "refused"
            /\ \/ /\ hist'.delivered[c] <= hist.delivered[c] + 1
                  /\ hist'.excused[c] = hist.excused[c] + 1
               \/ /\ hist'.delivered[c] = hist.delivered[c]
                  /\ hist'.excused[c] = hist.excused[c]
  <2> DEFINE taken == Delivered(hist, c)
             dd == [hist.delivered EXCEPT ![c] = Bump(@)]
             ex == [hist.excused EXCEPT ![c] = @ + 1]
  <2>1. /\ taken \in Hist /\ taken.delivered = dd
        /\ taken.excused = hist.excused /\ taken.owed = hist.owed
    BY <1>3, <1>4, HistDelivered
  <2>2. /\ dd \in [Mails -> Nat] /\ dd[c] = Bump(hist.delivered[c])
        /\ \A m \in Mails : m # c => dd[m] = hist.delivered[m]
    BY <1>3, <1>4, <1>7
  <2>3. /\ ex \in [Mails -> Nat] /\ ex[c] = hist.excused[c] + 1
        /\ \A m \in Mails : m # c => ex[m] = hist.excused[m]
    BY <1>3, <1>4
  <2>4. LET t == Excused(taken, c)
        IN  t \in Hist /\ t.delivered = dd /\ t.owed = hist.owed /\ t.excused = ex
    <3> HIDE DEF taken, dd, c
    <3>1. c \in Mails
      BY <1>3 DEF c
    <3>2. /\ Excused(taken, c) \in Hist
          /\ Excused(taken, c).delivered = taken.delivered
          /\ Excused(taken, c).owed = taken.owed
          /\ Excused(taken, c).excused = [taken.excused EXCEPT ![c] = @ + 1]
      BY <2>1, <3>1, HistExcused
    <3>3. QED
      BY <2>1, <3>2
  <2>5. \/ worker'.pc = "accepted" /\ hist' = taken
        \/ worker'.pc = "refused" /\ hist' = Excused(taken, c)
        \/ worker'.pc = "refused" /\ hist' = hist
    <3>1. \A p \in {"accepted", "refused"} : [worker EXCEPT !.pc = p].pc = p
      BY <1>4 DEF Worker
    <3> HIDE DEF Worker
    <3>2. /\ [worker EXCEPT !.pc = "accepted"].pc = "accepted"
          /\ [worker EXCEPT !.pc = "refused"].pc = "refused"
      BY <3>1
    <3>3. QED
      BY <1>5, <3>2, Zenon
  <2>6. /\ \A m \in Mails : hist.delivered[m] \in Nat /\ hist.excused[m] \in Nat
        /\ c \in Mails
    BY <1>3, <1>4
  <2> HIDE DEF taken, dd, ex, c
  <2>7. /\ dd[c] \in Nat /\ dd[c] > 0 /\ dd[c] <= hist.delivered[c] + 1
        /\ \A m \in Mails : dd[m] \in Nat /\ hist.delivered[m] <= dd[m]
        /\ \A m \in Mails : ex[m] \in Nat
    BY <1>7, <2>2, <2>3, <2>6
  <2>8. CASE worker'.pc = "accepted" /\ hist' = taken
    BY <2>1, <2>2, <2>6, <2>7, <2>8
  <2>9. CASE worker'.pc = "refused" /\ hist' = Excused(taken, c)
    <3>1. hist' \in Hist /\ hist'.delivered = dd /\ hist'.owed = hist.owed /\ hist'.excused = ex
      BY <2>4, <2>9
    <3>2. QED
      BY <2>2, <2>3, <2>6, <2>7, <2>9, <3>1
  <2>10. CASE worker'.pc = "refused" /\ hist' = hist
    BY <1>4, <2>6, <2>10
  <2>11. QED
    BY <2>5, <2>8, <2>9, <2>10
<1>9. /\ TypeOK' /\ IsFiniteSet(queued') /\ OwedIsWaited' /\ NothingForgotten'
      /\ \A m \in Mails : Unsent(m)' <=> Unsent(m)
  BY <1>1, <1>4, <1>6, <1>8, SameRows
<1>10. DueIsReady'
  BY <1>1, <1>6 DEF Inv, DueIsReady, db
<1>11. /\ \A m \in Mails : ~Accepted(m)
       /\ \A m \in Mails : Accepted(m)' <=> worker'.pc = "accepted" /\ m = c
  BY <1>1, <1>6 DEF Accepted
<1>12. AcceptedDelivered'
  BY <1>8, <1>11 DEF AcceptedDelivered
<1>13. Unsent(c)
  BY <1>1, <1>2, PassFacts DEF Inv, DueIsReady, Unsent
<1>14. Accounted'
  <2> HIDE DEF c
  <2>1. /\ \A m \in Mails : /\ hist.delivered[m] \in Nat /\ hist.excused[m] \in Nat
                            /\ hist.delivered[m] <= hist.excused[m] + 1
                            /\ Unsent(m) => hist.delivered[m] <= hist.excused[m]
    BY <1>2, <1>11, BookTypes DEF Inv, Accounted
  <2>2. ASSUME NEW m \in Mails, m # c
        PROVE  /\ hist'.delivered[m] <= hist'.excused[m] + 1
               /\ Unsent(m) => hist'.delivered[m] <= hist'.excused[m]
    <3>1. hist'.delivered[m] = hist.delivered[m] /\ hist'.excused[m] = hist.excused[m]
      BY <1>8, <2>2
    <3>2. QED
      BY <2>1, <3>1
  <2>3. /\ hist'.delivered[c] <= hist'.excused[c] + 1
        /\ worker'.pc # "accepted" => hist'.delivered[c] <= hist'.excused[c]
    <3>1. /\ c \in Mails /\ hist.delivered[c] \in Nat /\ hist.excused[c] \in Nat
          /\ hist.delivered[c] <= hist.excused[c]
      BY <1>3, <1>13, <2>1 DEF c
    <3>2. hist'.delivered[c] \in Nat /\ hist'.excused[c] \in Nat
      BY <1>8, <3>1
    <3>3. QED
      BY <1>8, <3>1, <3>2
  <2>4. QED
    BY <1>9, <1>11, <2>2, <2>3 DEF Accounted
<1>15. QED
  BY <1>9, <1>10, <1>12, <1>14 DEF Inv

\* A crash loses the pass; a delivery that was about to be recorded is excused.
LEMMA CrashInv == ASSUME Inv, Crash PROVE Inv'
<1>1. /\ worker' = Idle /\ proc' = "down" /\ UNCHANGED db
      /\ server' = server /\ configured' = configured
      /\ hist' = IF worker.due # <<>> /\ worker.pc = "accepted"
                 THEN Excused(hist, Current) ELSE Fault(hist)
  BY DEF Crash, env, Excused, Fault
<1>2. TypeOK
  BY DEF Inv
<1>3. /\ hist \in Hist /\ server \in BOOLEAN /\ configured \in BOOLEAN
      /\ hist.delivered \in [Mails -> Nat] /\ hist.excused \in [Mails -> Nat]
  BY <1>2 DEF TypeOK, Hist
<1>4. /\ hist' \in Hist /\ hist'.owed = hist.owed /\ hist'.delivered = hist.delivered
      /\ \A m \in Mails : hist'.excused[m] = IF Accepted(m) THEN hist.excused[m] + 1
                                             ELSE hist.excused[m]
  <2>1. CASE worker.due # <<>> /\ worker.pc = "accepted"
    <3>1. Current \in Mails
      BY <1>2, <2>1, PassFacts
    <3>2. hist' = Excused(hist, Current)
      BY <1>1, <2>1
    <3>3. /\ hist' \in Hist /\ hist'.owed = hist.owed /\ hist'.delivered = hist.delivered
          /\ hist'.excused = [hist.excused EXCEPT ![Current] = @ + 1]
      BY <1>3, <3>1, <3>2, HistExcused
    <3>4. \A m \in Mails : Accepted(m) <=> m = Current
      BY <2>1 DEF Accepted
    <3>5. QED
      BY <1>3, <3>1, <3>3, <3>4
  <2>2. CASE ~(worker.due # <<>> /\ worker.pc = "accepted")
    <3>1. hist' = Fault(hist)
      BY <1>1, <2>2
    <3>2. \A m \in Mails : ~Accepted(m)
      BY <2>2 DEF Accepted
    <3>3. QED
      BY <1>3, <3>1, <3>2, HistFault
  <2>3. QED
    BY <2>1, <2>2
<1>5. \A m \in Mails : hist.delivered[m] \in Nat /\ hist.excused[m] \in Nat
  BY <1>3
<1>6. /\ TypeOK' /\ IsFiniteSet(queued') /\ OwedIsWaited' /\ NothingForgotten'
      /\ \A m \in Mails : Unsent(m)' <=> Unsent(m)
  <2>1. worker' \in Worker /\ Len(worker'.due) <= Limit
    BY <1>1, IdleFacts, LimitAssumption
  <2>2. \A m \in Mails : hist.delivered[m] <= hist'.delivered[m]
    BY <1>4, <1>5
  <2>3. QED
    BY <1>1, <1>3, <1>4, <2>1, <2>2, SameRows
<1>7. DueIsReady'
  BY <1>1, IdleFacts DEF DueIsReady
<1>8. \A m \in Mails : ~Accepted(m)'
  BY <1>1, IdleFacts DEF Accepted
<1>9. AcceptedDelivered'
  BY <1>8 DEF AcceptedDelivered
<1>10. Accounted'
  <2>1. \A m \in Mails : /\ hist.delivered[m] <= hist.excused[m] + 1
                         /\ Unsent(m) /\ ~Accepted(m) => hist.delivered[m] <= hist.excused[m]
    BY DEF Inv, Accounted
  <2>2. ASSUME NEW m \in Mails
        PROVE  /\ hist'.delivered[m] <= hist'.excused[m] + 1
               /\ Unsent(m) => hist'.delivered[m] <= hist'.excused[m]
    BY <1>4, <1>5, <2>1
  <2>3. QED
    BY <1>6, <2>2 DEF Accounted
<1>11. QED
  BY <1>6, <1>7, <1>9, <1>10 DEF Inv

\* When the head of the pass is done with, what follows is still due.
LEMMA HeadDone ==
    ASSUME Inv, worker.due # <<>>, worker' = Next1,
           ToSet(ready) \ {Current} \subseteq ToSet(ready'),
           \A m \in Mails : m # Current => attempts'[m] = attempts[m]
    PROVE  /\ DueIsReady'
           /\ worker' \in Worker /\ Len(worker'.due) <= Limit
           /\ \A m \in Mails : ~Accepted(m)'
           /\ Current \in Mails /\ Current \in ToSet(ready)
           /\ Head(worker.due).attempts = attempts[Current]
<1> DEFINE n == Len(worker.due)
<1>1. TypeOK
  BY DEF Inv
<1>2. /\ n \in Nat /\ n > 0 /\ n <= Limit /\ DOMAIN worker.due = 1..n
      /\ \A i \in 1..n : worker.due[i] \in Entry
      /\ Head(worker.due) = worker.due[1] /\ Current = worker.due[1].mail
      /\ Current \in Mails
      /\ worker' \in Worker /\ worker'.pc = "sending"
      /\ Len(worker'.due) = n - 1 /\ DOMAIN worker'.due = 1..n-1
      /\ \A i \in 1..n-1 : worker'.due[i] = worker.due[i + 1]
  BY <1>1, PassFacts
<1> HIDE DEF n
<1>3. /\ \A i \in 1..n : /\ worker.due[i].mail \in ToSet(ready)
                         /\ worker.due[i].mail \in Mails
                         /\ worker.due[i].attempts = attempts[worker.due[i].mail]
      /\ \A i, j \in 1..n : worker.due[i].mail = worker.due[j].mail => i = j
  <2>1. \A e \in Entry : e.mail \in Mails
    BY DEF Entry
  <2>2. QED
    BY <1>2, <2>1 DEF Inv, DueIsReady
<1>4. /\ 1 \in 1..n /\ Limit \in Nat
      /\ \A i \in 1..n-1 : i + 1 \in 1..n /\ i + 1 # 1
      /\ \A i, j \in 1..n-1 : i + 1 = j + 1 => i = j
  BY <1>2, LimitAssumption
<1>5. ASSUME NEW i \in 1..n-1
      PROVE  /\ worker'.due[i].mail \in ToSet(ready')
             /\ worker'.due[i].attempts = attempts'[worker'.due[i].mail]
  <2> DEFINE e == worker.due[i + 1]
  <2>1. e.mail \in ToSet(ready) /\ e.mail \in Mails /\ e.attempts = attempts[e.mail]
    BY <1>3, <1>4
  <2>2. e.mail # Current
    BY <1>2, <1>3, <1>4
  <2>3. worker'.due[i] = e
    BY <1>2
  <2> HIDE DEF e
  <2>4. QED
    BY <2>1, <2>2, <2>3
<1>6. ASSUME NEW i \in 1..n-1, NEW j \in 1..n-1, worker'.due[i].mail = worker'.due[j].mail
      PROVE  i = j
  <2>1. worker.due[i + 1].mail = worker.due[j + 1].mail
    BY <1>2, <1>6
  <2>2. i + 1 = j + 1
    BY <1>3, <1>4, <2>1
  <2>3. QED
    BY <1>4, <2>2
<1>7. DueIsReady'
  BY <1>2, <1>5, <1>6 DEF DueIsReady
<1>8. \A m \in Mails : ~Accepted(m)'
  BY <1>2 DEF Accepted
<1>9. Len(worker'.due) <= Limit
  BY <1>2, <1>4
<1>10. QED
  BY <1>2, <1>3, <1>4, <1>7, <1>8, <1>9

\* What is about to be recorded was delivered once more than excused at most.
LEMMA RecordedInv ==
    ASSUME Inv, worker.due # <<>>, worker.pc = "accepted", worker' = Next1,
           Recorded, UNCHANGED <<proc, env>>
    PROVE  Inv'
<1>0. PICK c \in Mails : c = Current
  BY PassFacts DEF Inv
<1>1. /\ sent' = sent \cup {c} /\ ready' = Unready(c)
      /\ attempts' = [attempts EXCEPT ![c] = Bump(@)]
      /\ queued' = queued /\ wait' = wait /\ hist' = hist
      /\ proc' = proc /\ server' = server /\ configured' = configured
  BY <1>0 DEF Recorded, env
<1>2. TypeOK
  BY DEF Inv
<1>4. /\ ready' \in Seq(queued) /\ IsInjective(ready')
      /\ ToSet(ready') = ToSet(ready) \ {c}
  BY <1>1, <1>2, UnreadyFacts
<1>5. /\ attempts' \in [Mails -> 0..CountCap]
      /\ \A m \in Mails : m # c => attempts'[m] = attempts[m]
  <2>1. attempts \in [Mails -> 0..CountCap] /\ Bump(attempts[c]) \in 0..CountCap
    BY <1>2, Counts DEF TypeOK
  <2>2. QED
    BY <1>1, <2>1
<1>6. /\ DueIsReady' /\ worker' \in Worker /\ Len(worker'.due) <= Limit
      /\ \A m \in Mails : ~Accepted(m)'
      /\ c \in ToSet(ready)
  BY <1>0, <1>4, <1>5, HeadDone
<1>7. Accepted(c) /\ hist.delivered[c] > 0 /\ \A m \in Mails : m # c => ~Accepted(m)
  BY <1>0 DEF Accepted, Inv, AcceptedDelivered
<1>8. /\ ToSet(ready) \subseteq queued
      /\ \A m \in Mails : wait[m] > 0 =>
             m \in queued /\ m \notin ToSet(ready) /\ m \notin sent
      /\ \A m \in Mails : wait[m] \in Nat
  BY <1>2, RowFacts
<1>9. TypeOK'
  <2>1. queued' \subseteq Mails /\ sent' \subseteq queued'
    BY <1>1, <1>2, <1>6, <1>8 DEF TypeOK
  <2>2. {m \in Mails : wait'[m] > 0} \subseteq queued' \ (ToSet(ready') \cup sent')
    BY <1>1, <1>4, <1>6, <1>8
  <2>3. ToSet(ready') \cap sent' = {}
    BY <1>1, <1>2, <1>4 DEF TypeOK
  <2>4. QED
    BY <1>1, <1>2, <1>4, <1>5, <1>6, <2>1, <2>2, <2>3 DEF TypeOK
<1>10. IsFiniteSet(queued') /\ OwedIsWaited'
  BY <1>1 DEF Inv, OwedIsWaited
<1>11. AcceptedDelivered'
  BY <1>6 DEF AcceptedDelivered
<1>12. Accounted'
  <2>1. ~Unsent(c)'
    <3>1. c \in queued /\ ~(wait[c] > 0)
      BY <1>6, <1>8
    <3>2. QED
      BY <1>1, <1>4, <3>1 DEF Unsent
  <2>2. \A m \in Mails : m # c => (Unsent(m)' <=> Unsent(m))
    BY <1>1, <1>4 DEF Unsent
  <2>3. QED
    BY <1>1, <1>7, <2>1, <2>2 DEF Inv, Accounted
<1>13. NothingForgotten'
  BY <1>1, <1>4, <1>7 DEF Inv, NothingForgotten
<1>14. QED
  BY <1>6, <1>9, <1>10, <1>11, <1>12, <1>13 DEF Inv

\* A record that is lost excuses the delivery.
LEMMA UnrecordedInv ==
    ASSUME Inv, worker.due # <<>>, worker.pc = "accepted", worker' = Next1,
           Unrecorded, UNCHANGED <<proc, env>>
    PROVE  Inv'
<1> DEFINE c == Current
<1>1. /\ hist' = Excused(hist, c) /\ UNCHANGED db
      /\ ready' = ready /\ attempts' = attempts
      /\ proc' = proc /\ server' = server /\ configured' = configured
  BY DEF Unrecorded, Excused, env, db
<1>2. TypeOK
  BY DEF Inv
<1>3. /\ c \in Mails /\ hist \in Hist /\ server \in BOOLEAN /\ configured \in BOOLEAN
      /\ proc \in {"up", "stopping", "down"}
      /\ hist.delivered \in [Mails -> Nat] /\ hist.excused \in [Mails -> Nat]
  BY <1>2, PassFacts DEF TypeOK, Hist
<1>4. /\ DueIsReady' /\ worker' \in Worker /\ Len(worker'.due) <= Limit
      /\ \A m \in Mails : ~Accepted(m)'
  BY <1>1, HeadDone
<1>5. \A m \in Mails : m # c => ~Accepted(m)
  BY DEF Accepted
<1> HIDE DEF c
<1>6. /\ hist' \in Hist /\ hist'.owed = hist.owed /\ hist'.delivered = hist.delivered
      /\ hist'.excused = [hist.excused EXCEPT ![c] = @ + 1]
  BY <1>1, <1>3, HistExcused
<1>7. \A m \in Mails : /\ hist.delivered[m] \in Nat /\ hist.excused[m] \in Nat
                       /\ hist'.excused[m] = IF m = c THEN hist.excused[m] + 1
                                             ELSE hist.excused[m]
  BY <1>3, <1>6
<1>8. /\ TypeOK' /\ IsFiniteSet(queued') /\ OwedIsWaited' /\ NothingForgotten'
      /\ \A m \in Mails : Unsent(m)' <=> Unsent(m)
  <2>1. \A m \in Mails : hist.delivered[m] <= hist'.delivered[m]
    BY <1>6, <1>7
  <2>2. QED
    BY <1>1, <1>3, <1>4, <1>6, <2>1, SameRows
<1>9. AcceptedDelivered'
  BY <1>4 DEF AcceptedDelivered
<1>10. Accounted'
  <2>1. \A m \in Mails : /\ hist.delivered[m] <= hist.excused[m] + 1
                         /\ Unsent(m) /\ ~Accepted(m) => hist.delivered[m] <= hist.excused[m]
    BY DEF Inv, Accounted
  <2>2. ASSUME NEW m \in Mails
        PROVE  /\ hist'.delivered[m] <= hist'.excused[m] + 1
               /\ Unsent(m) => hist'.delivered[m] <= hist'.excused[m]
    BY <1>5, <1>6, <1>7, <2>1
  <2>3. QED
    BY <1>8, <2>2 DEF Accounted
<1>11. QED
  BY <1>4, <1>8, <1>9, <1>10 DEF Inv

LEMMA MarkSentInv == ASSUME Inv, MarkSent PROVE Inv'
BY RecordedInv, UnrecordedInv DEF MarkSent

\* After a failure the row waits what the schedule owes it, and past its end the
\* row stays due.
LEMMA RescheduleInv ==
    ASSUME Inv, worker.due # <<>>, worker.pc = "refused", worker' = Next1,
           Reschedule(Head(worker.due)), UNCHANGED <<proc, env>>
    PROVE  Inv'
<1>1. TypeOK
  BY DEF Inv
<1>2. PICK c \in Mails : c = Current
  BY <1>1, PassFacts
<1>3. PICK k \in 0..CountCap : k = attempts[c]
  BY <1>1, BookTypes
<1>4. Head(worker.due).mail = c
  BY <1>2 DEF Current
<1> DEFINE a == Head(worker.due)
<1>5. /\ attempts' = [attempts EXCEPT ![c] = Bump(@)]
      /\ hist' = Owed(hist, c, Step(k + 1))
      /\ IF a.attempts < MaxAttempts
         THEN /\ wait' = [wait EXCEPT ![c] = Backoff[a.attempts + 1]]
              /\ ready' = Unready(c)
         ELSE wait' = wait /\ ready' = ready
      /\ queued' = queued /\ sent' = sent
      /\ proc' = proc /\ server' = server /\ configured' = configured
  BY <1>3, <1>4 DEF Reschedule, env, Owed
<1>6. /\ attempts' \in [Mails -> 0..CountCap]
      /\ \A m \in Mails : m # c => attempts'[m] = attempts[m]
  <2>1. attempts \in [Mails -> 0..CountCap] /\ Bump(attempts[c]) \in 0..CountCap
    BY <1>1, Counts DEF TypeOK
  <2>2. QED
    BY <1>5, <2>1
<1>7. /\ Unready(c) \in Seq(queued) /\ IsInjective(Unready(c))
      /\ ToSet(Unready(c)) = ToSet(ready) \ {c}
  BY <1>1, UnreadyFacts
<1>8. ready' = Unready(c) \/ ready' = ready
  BY <1>5
<1>9. /\ DueIsReady' /\ worker' \in Worker /\ Len(worker'.due) <= Limit
      /\ \A m \in Mails : ~Accepted(m)'
      /\ c \in ToSet(ready) /\ a.attempts = k
  <2>1. ToSet(ready) \ {c} \subseteq ToSet(ready')
    BY <1>7, <1>8
  <2>2. QED
    BY <1>2, <1>3, <1>6, <2>1, HeadDone
<1> HIDE DEF a
<1>10. /\ ToSet(ready) \subseteq queued
       /\ \A m \in Mails : wait[m] > 0 =>
              m \in queued /\ m \notin ToSet(ready) /\ m \notin sent
       /\ \A m \in Mails : wait[m] \in Nat
       /\ wait \in [Mails -> 0..MaxWait]
  BY <1>1, RowFacts DEF TypeOK
<1>11. /\ k \in Nat /\ Step(k + 1) \in 0..MaxWait
       /\ k < MaxAttempts => Step(k + 1) = Backoff[k + 1] /\ Backoff[k + 1] \in 1..MaxWait
       /\ ~(k < MaxAttempts) => Step(k + 1) = 0
  <2>1. k \in Nat
    BY Counts
  <2>2. QED
    BY <2>1, Owes
<1>12. c \in queued /\ c \notin sent /\ wait[c] = 0
  BY <1>1, <1>9, <1>10 DEF TypeOK
<1>13. /\ wait' = [wait EXCEPT ![c] = Step(k + 1)]
       /\ wait' \in [Mails -> 0..MaxWait]
       /\ wait'[c] = Step(k + 1) /\ \A m \in Mails : m # c => wait'[m] = wait[m]
  <2>1. CASE k < MaxAttempts
    BY <1>5, <1>9, <1>10, <1>11, <2>1
  <2>2. CASE ~(k < MaxAttempts)
    <3>1. wait' = wait /\ Step(k + 1) = 0
      BY <1>5, <1>9, <1>11, <2>2
    <3>2. [wait EXCEPT ![c] = 0] = wait
      BY <1>10, <1>12
    <3>3. QED
      BY <1>10, <1>12, <3>1, <3>2
  <2>3. QED
    BY <2>1, <2>2
<1>14. \/ /\ ToSet(ready') = ToSet(ready) \ {c} /\ wait'[c] > 0
       \/ ready' = ready /\ wait'[c] = 0
  <2>1. CASE k < MaxAttempts
    <3>1. wait'[c] > 0
      BY <1>11, <1>13, <2>1, Waits
    <3>2. QED
      BY <1>5, <1>7, <1>9, <2>1, <3>1
  <2>2. CASE ~(k < MaxAttempts)
    BY <1>5, <1>9, <1>11, <1>13, <2>2
  <2>3. QED
    BY <2>1, <2>2
<1>15. /\ hist \in Hist /\ hist' \in Hist
       /\ hist'.owed = [hist.owed EXCEPT ![c] = Step(k + 1)]
       /\ hist'.delivered = hist.delivered /\ hist'.excused = hist.excused
  <2>1. hist \in Hist
    BY <1>1 DEF TypeOK
  <2>2. QED
    BY <1>5, <1>11, <2>1, HistOwed
<1>16. TypeOK'
  <2>1. ready' \in Seq(queued') /\ IsInjective(ready')
    BY <1>1, <1>5, <1>7, <1>8 DEF TypeOK
  <2>2. {m \in Mails : wait'[m] > 0} \subseteq queued' \ (ToSet(ready') \cup sent')
    <3> SUFFICES ASSUME NEW m \in Mails, wait'[m] > 0
                 PROVE  m \in queued /\ m \notin ToSet(ready') /\ m \notin sent
      BY <1>5
    <3>1. CASE m = c
      BY <1>12, <1>14, <3>1
    <3>2. CASE m # c
      <4>1. m \in queued /\ m \notin ToSet(ready) /\ m \notin sent
        BY <1>10, <1>13, <3>2
      <4>2. QED
        BY <1>14, <4>1
    <3>3. QED
      BY <3>1, <3>2
  <2>3. ToSet(ready') \cap sent' = {}
    BY <1>1, <1>5, <1>14 DEF TypeOK
  <2>4. QED
    BY <1>1, <1>5, <1>6, <1>9, <1>13, <1>15, <2>1, <2>2, <2>3 DEF TypeOK
<1>17. IsFiniteSet(queued')
  BY <1>5 DEF Inv
<1>18. OwedIsWaited'
  BY <1>13, <1>15 DEF Inv, OwedIsWaited
<1>19. AcceptedDelivered'
  BY <1>9 DEF AcceptedDelivered
<1>20. Accounted'
  <2>1. \A m \in Mails : ~Accepted(m)
    BY DEF Accepted
  <2>2. Unsent(c)
    BY <1>9 DEF Unsent
  <2>3. \A m \in Mails : m # c => (Unsent(m)' <=> Unsent(m))
    BY <1>5, <1>13, <1>14 DEF Unsent
  <2>4. \A m \in Mails : /\ hist.delivered[m] <= hist.excused[m] + 1
                         /\ Unsent(m) => hist.delivered[m] <= hist.excused[m]
    BY <2>1 DEF Inv, Accounted
  <2>5. QED
    BY <1>15, <2>2, <2>3, <2>4 DEF Accounted
<1>21. NothingForgotten'
  <2>1. queued \subseteq Mails
    BY <1>1 DEF TypeOK
  <2>2. ASSUME NEW m \in queued
        PROVE  m \in ToSet(ready') \/ wait'[m] > 0 \/ hist.delivered[m] > 0
    <3>1. m \in ToSet(ready) \/ wait[m] > 0 \/ hist.delivered[m] > 0
      BY DEF Inv, NothingForgotten
    <3>2. QED
      BY <1>9, <1>13, <1>14, <2>1, <3>1
  <2>3. QED
    BY <1>5, <1>15, <2>2 DEF NothingForgotten
<1>22. QED
  BY <1>9, <1>16, <1>17, <1>18, <1>19, <1>20, <1>21 DEF Inv

\* A failure that is not recorded leaves the row due.
LEMMA FailureLostInv ==
    ASSUME Inv, worker.due # <<>>, worker.pc = "refused", worker' = Next1,
           hist' = hist \/ hist' = Fault(hist), UNCHANGED <<db, proc, env>>
    PROVE  Inv'
<1>1. /\ UNCHANGED db /\ ready' = ready /\ attempts' = attempts
      /\ proc' = proc /\ server' = server /\ configured' = configured
  BY DEF env, db
<1>2. TypeOK
  BY DEF Inv
<1>3. /\ hist \in Hist /\ server \in BOOLEAN /\ configured \in BOOLEAN
      /\ proc \in {"up", "stopping", "down"}
  BY <1>2 DEF TypeOK
<1>4. /\ hist' \in Hist /\ hist'.owed = hist.owed /\ hist'.delivered = hist.delivered
      /\ hist'.excused = hist.excused
  BY <1>3, HistFault
<1>5. /\ DueIsReady' /\ worker' \in Worker /\ Len(worker'.due) <= Limit
      /\ \A m \in Mails : ~Accepted(m)'
  BY <1>1, HeadDone
<1>6. /\ TypeOK' /\ IsFiniteSet(queued') /\ OwedIsWaited' /\ NothingForgotten'
      /\ \A m \in Mails : Unsent(m)' <=> Unsent(m)
  <2>1. \A m \in Mails : hist.delivered[m] <= hist'.delivered[m]
    BY <1>2, <1>4, BookTypes
  <2>2. QED
    BY <1>1, <1>3, <1>4, <1>5, <2>1, SameRows
<1>7. \A m \in Mails : ~Accepted(m)
  BY DEF Accepted
<1>8. AcceptedDelivered' /\ Accounted'
  BY <1>4, <1>5, <1>6, <1>7 DEF AcceptedDelivered, Accounted, Inv
<1>9. QED
  BY <1>5, <1>6, <1>8 DEF Inv

LEMMA MarkFailedInv == ASSUME Inv, MarkFailed PROVE Inv'
<1>1. /\ worker.due # <<>> /\ worker.pc = "refused" /\ worker' = Next1
      /\ UNCHANGED <<proc, env>>
      /\ \/ Reschedule(Head(worker.due))
         \/ UNCHANGED db /\ (hist' = hist \/ hist' = Fault(hist))
  BY DEF MarkFailed, Fault
<1>2. CASE Reschedule(Head(worker.due))
  BY <1>1, <1>2, RescheduleInv
<1>3. CASE UNCHANGED db /\ (hist' = hist \/ hist' = Fault(hist))
  BY <1>1, <1>3, FailureLostInv
<1>4. QED
  BY <1>1, <1>2, <1>3

\* Rows whose time has come join the due ones, and what is owed ages with the
\* waits.
LEMMA TickInv == ASSUME Inv, Tick PROVE Inv'
<1> DEFINE W == {m \in Mails : wait[m] = 1}
<1>1. TypeOK
  BY DEF Inv
<1>2. /\ wait' = [m \in Mails |-> IF wait[m] > 0 THEN wait[m] - 1 ELSE 0]
      /\ hist' = Aged(hist)
      /\ queued' = queued /\ sent' = sent /\ attempts' = attempts
      /\ proc' = proc /\ worker' = worker /\ server' = server /\ configured' = configured
  BY DEF Tick, Aged, env
<1>3. PICK order \in SetToSeqs(W) : ready' = ready \o order
  BY DEF Tick
<1>4. /\ ready \in Seq(queued) /\ IsInjective(ready) /\ ToSet(ready) \subseteq queued
      /\ \A m \in Mails : wait[m] \in Nat
      /\ \A m \in Mails : wait[m] > 0 =>
             m \in queued /\ m \notin ToSet(ready) /\ m \notin sent
      /\ wait \in [Mails -> 0..MaxWait]
  BY <1>1, RowFacts DEF TypeOK
<1>5. W \in SUBSET queued /\ W \cap ToSet(ready) = {} /\ W \cap sent = {}
  BY <1>4
<1>6. IsFiniteSet(W)
  BY <1>5, FS_Subset DEF Inv
<1>7. \A m \in Mails : m \in W <=> wait[m] = 1
  OBVIOUS
<1> HIDE DEF W
<1>8. order \in Seq(W) /\ IsInjective(order) /\ ToSet(order) = W
  BY <1>6, Orders
<1>9. order \in Seq(queued)
  BY <1>5, <1>8, SeqMonotonic
<1>10. /\ ready' \in Seq(queued) /\ IsInjective(ready')
       /\ ToSet(ready') = ToSet(ready) \cup W
  BY <1>3, <1>4, <1>5, <1>8, <1>9, ConcatNew
<1>11. /\ wait' \in [Mails -> 0..MaxWait]
       /\ \A m \in Mails : wait'[m] = IF wait[m] > 0 THEN wait[m] - 1 ELSE 0
  <2>1. \A m \in Mails : (IF wait[m] > 0 THEN wait[m] - 1 ELSE 0) \in 0..MaxWait
    BY <1>4, Waits
  <2>2. QED
    BY <1>2, <2>1
<1>12. \A m \in Mails : wait[m] > 0 <=> wait'[m] > 0 \/ m \in W
  BY <1>4, <1>7, <1>11
<1>13. \A m \in Mails : ~(wait'[m] > 0 /\ m \in W)
  BY <1>4, <1>7, <1>11
<1>14. /\ hist \in Hist /\ hist' \in Hist
       /\ hist'.owed = [m \in Mails |-> IF hist.owed[m] > 0 THEN hist.owed[m] - 1 ELSE 0]
       /\ hist'.delivered = hist.delivered /\ hist'.excused = hist.excused
  <2>1. hist \in Hist
    BY <1>1 DEF TypeOK
  <2>2. QED
    BY <1>2, <2>1, HistTick
<1>15. TypeOK'
  <2>1. {m \in Mails : wait'[m] > 0} \subseteq queued' \ (ToSet(ready') \cup sent')
    BY <1>2, <1>4, <1>10, <1>12, <1>13
  <2>2. ToSet(ready') \cap sent' = {}
    BY <1>1, <1>2, <1>5, <1>10 DEF TypeOK
  <2>3. QED
    BY <1>1, <1>2, <1>10, <1>11, <1>14, <2>1, <2>2 DEF TypeOK
<1>16. IsFiniteSet(queued') /\ DueIsReady'
  BY <1>2, <1>10 DEF Inv, DueIsReady
<1>17. OwedIsWaited'
  <2>1. hist.owed = wait
    BY DEF Inv, OwedIsWaited
  <2>2. QED
    BY <1>2, <1>14, <2>1 DEF OwedIsWaited
<1>18. \A m \in Mails : Accepted(m)' <=> Accepted(m)
  BY <1>2 DEF Accepted, Current
<1>19. \A m \in Mails : Unsent(m)' <=> Unsent(m)
  BY <1>2, <1>10, <1>12 DEF Unsent
<1>20. AcceptedDelivered' /\ Accounted'
  BY <1>14, <1>18, <1>19 DEF Inv, AcceptedDelivered, Accounted
<1>21. NothingForgotten'
  <2>1. queued \subseteq Mails
    BY <1>1 DEF TypeOK
  <2>2. QED
    BY <1>2, <1>10, <1>12, <1>14, <2>1 DEF Inv, NothingForgotten
<1>22. QED
  BY <1>15, <1>16, <1>17, <1>20, <1>21 DEF Inv

\* Only rows that were sent are pruned.
LEMMA PruneInv == ASSUME Inv, NEW p \in Mails, PruneSentAlert(p) PROVE Inv'
<1>1. /\ sent' = sent \ {p} /\ queued' = queued /\ ready' = ready /\ wait' = wait
      /\ attempts' = attempts /\ proc' = proc /\ worker' = worker
      /\ server' = server /\ configured' = configured /\ hist' = hist
  BY DEF PruneSentAlert, env
<1>2. TypeOK'
  BY <1>1 DEF Inv, TypeOK
<1>3. IsFiniteSet(queued') /\ DueIsReady' /\ OwedIsWaited' /\ NothingForgotten'
  BY <1>1 DEF Inv, DueIsReady, OwedIsWaited, NothingForgotten
<1>4. \A m \in Mails : (Accepted(m)' <=> Accepted(m)) /\ (Unsent(m)' <=> Unsent(m))
  BY <1>1 DEF Accepted, Current, Unsent
<1>5. AcceptedDelivered' /\ Accounted'
  BY <1>1, <1>4 DEF Inv, AcceptedDelivered, Accounted
<1>6. QED
  BY <1>2, <1>3, <1>5 DEF Inv

-----------------------------------------------------------------------------
(* The theorems.                                                            *)

LEMMA StepInv == Inv /\ [Next]_vars => Inv'
<1> SUFFICES ASSUME Inv, [Next]_vars PROVE Inv'
  OBVIOUS
<1>1. ASSUME NEW m \in Mails, Enqueue(m) PROVE Inv'
  BY <1>1, EnqueueInv
<1>2. ASSUME NEW m \in Mails, PruneSentAlert(m) PROVE Inv'
  BY <1>2, PruneInv
<1>3. CASE Poll
  BY <1>3, PollInv
<1>4. CASE Abandon
  BY <1>4, AbandonInv
<1>5. CASE Transmit
  BY <1>5, TransmitInv
<1>6. CASE MarkSent
  BY <1>6, MarkSentInv
<1>7. CASE MarkFailed
  BY <1>7, MarkFailedInv
<1>8. CASE Tick
  BY <1>8, TickInv
<1>9. CASE Crash
  BY <1>9, CrashInv
<1>10. CASE Stop \/ Exit \/ Start \/ ServerChanges \/ Configure
  BY <1>10, OutsideInv
<1>11. CASE UNCHANGED vars
  BY <1>11 DEF vars, Inv, TypeOK, DueIsReady, AcceptedDelivered, Accounted, Accepted,
               Current, Unsent, OwedIsWaited, NothingForgotten
<1>12. QED
  BY <1>1, <1>2, <1>3, <1>4, <1>5, <1>6, <1>7, <1>8, <1>9, <1>10, <1>11 DEF Next

LEMMA Invariance == Spec => []Inv
<1>1. QED
  BY InitInv, StepInv, PTL DEF Spec

\* The rows, the pass and the history keep their types (TypeOK of Outbox).
THEOREM TypeCorrect == Spec => []TypeOK
<1>1. Inv => TypeOK
  BY DEF Inv
<1>2. QED
  BY <1>1, Invariance, PTL

\* A queued mail stays in the outbox until it is delivered, through stops,
\* crashes, restarts and failed writes (worker.go, outbox.go).
THEOREM NeverForgotten == Spec => []NothingForgotten
<1>1. Inv => NothingForgotten
  BY DEF Inv
<1>2. QED
  BY <1>1, Invariance, PTL

\* A mail is delivered once and once more for every fault that hid a delivery
\* from the table (worker.go, drain's record on a context that is not cancelled).
THEOREM DuplicatesExcused == Spec => []NoDuplicateByStop
<1>1. Inv => NoDuplicateByStop
  <2> SUFFICES ASSUME Inv, NEW m \in Mails
               PROVE  hist.delivered[m] <= 1 + hist.excused[m]
    BY DEF NoDuplicateByStop
  <2>1. hist.delivered[m] <= hist.excused[m] + 1 /\ hist.excused[m] \in Nat
    BY BookTypes DEF Inv, Accounted
  <2>2. QED
    BY <2>1
<1>2. QED
  BY <1>1, Invariance, PTL

\* An attempt is counted for the mail that the pass handed to the server, and in
\* no other step (outbox.go, MarkSent and MarkFailed).
THEOREM AttemptsCounted == Spec => AttemptsAreSends
<1> DEFINE A == \A m \in Mails : attempts'[m] # attempts[m] =>
                    worker.due # <<>> /\ Current = m /\ worker.pc # "sending"
<1>1. Inv /\ [Next]_vars => A \/ UNCHANGED vars
  <2> SUFFICES ASSUME Inv, Next PROVE A
    OBVIOUS
  <2>1. CASE attempts' = attempts
    BY <2>1
  <2>2. CASE MarkSent
    <3>1. worker.due # <<>> /\ worker.pc = "accepted" /\ (Recorded \/ Unrecorded)
      BY <2>2 DEF MarkSent
    <3>2. attempts' = [attempts EXCEPT ![Current] = Bump(@)] \/ attempts' = attempts
      BY <3>1 DEF Recorded, Unrecorded, db
    <3>3. attempts \in [Mails -> 0..CountCap]
      BY DEF Inv, TypeOK
    <3>4. QED
      BY <3>1, <3>2, <3>3
  <2>3. CASE MarkFailed
    <3>1. /\ worker.due # <<>> /\ worker.pc = "refused"
          /\ Reschedule(Head(worker.due)) \/ attempts' = attempts
      BY <2>3 DEF MarkFailed, db
    <3>2. attempts' = [attempts EXCEPT ![Current] = Bump(@)] \/ attempts' = attempts
      BY <3>1 DEF Reschedule, Current
    <3>3. attempts \in [Mails -> 0..CountCap]
      BY DEF Inv, TypeOK
    <3>4. QED
      BY <3>1, <3>2, <3>3
  <2>4. attempts' = attempts \/ MarkSent \/ MarkFailed
    BY DEF Next, Enqueue, PruneSentAlert, Poll, Abandon, Transmit, Tick, Stop, Exit, Start,
           Crash, ServerChanges, Configure, db
  <2>5. QED
    BY <2>1, <2>2, <2>3, <2>4
<1>2. QED
  BY <1>1, Invariance, PTL DEF Spec, AttemptsAreSends

\* A mail is handed to the server only when the step of the schedule that its
\* recorded failures reached has passed (outbox.go, MarkFailed and DueAlerts).
THEOREM BackoffKept == Spec => BackoffRespected
<1> DEFINE A == \A m \in Mails :
                    (/\ worker.due # <<>> /\ Current = m /\ worker.pc = "sending"
                     /\ worker'.due # <<>> /\ worker'.pc # "sending")
                    => hist.owed[m] = 0
<1>1. Inv => A
  <2> SUFFICES ASSUME Inv, NEW m \in Mails, worker.due # <<>>, Current = m
               PROVE  hist.owed[m] = 0
    OBVIOUS
  <2>1. TypeOK /\ hist.owed = wait
    BY DEF Inv, OwedIsWaited
  <2>2. m \in ToSet(ready)
    BY <2>1, PassFacts DEF Inv, DueIsReady
  <2>3. ~(wait[m] > 0) /\ wait[m] \in Nat
    BY <2>1, <2>2, RowFacts
  <2>4. QED
    BY <2>1, <2>3
<1>2. QED
  BY <1>1, Invariance, PTL DEF BackoffRespected
=============================================================================
