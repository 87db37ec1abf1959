------------------------- MODULE AlertBuffer_proofs -------------------------
(***************************************************************************)
(* Proofs about the collapse buffer and the hourly cap: the types, how long *)
(* an alert waits, what the cap lets through, and that every alert ends up  *)
(* in exactly one place.                                                    *)
(***************************************************************************)
EXTENDS AlertBuffer, FiniteSetTheorems, FunctionTheorems, WellFoundedInduction, TLAPS

-----------------------------------------------------------------------------
(* Folds.  A fold over 1..n is the value at 1..n of a function on the       *)
(* subsets of 1..n, each defined from the subset without its maximum.       *)

LEMMA NatMin ==
    ASSUME NEW B, B \subseteq Nat, B # {}
    PROVE  \E m \in B : \A k \in B : m <= k
<1>1. PICK m \in B : \A k \in B : ~ (<<k, m>> \in OpToRel(<, Nat))
  BY WFMin, NatLessThanWellFounded
<1>2. ASSUME NEW k \in B  PROVE m <= k
  <2>1. k \in Nat /\ m \in Nat
    OBVIOUS
  <2>2. ~ (k < m)
    BY <1>1, <2>1 DEF OpToRel
  <2> QED
    BY <2>1, <2>2
<1> QED
  BY <1>2

LEMMA MaxOf ==
    ASSUME NEW n \in Nat, NEW s, s \subseteq 1..n, s # {}
    PROVE  Max(s) \in s /\ \A y \in s : Max(s) >= y
<1> DEFINE B == {k \in Nat : \E x \in s : k = n - x}
<1>1. B \subseteq Nat /\ B # {}
  <2>1. PICK x \in s : x \in 1..n
    OBVIOUS
  <2>2. n - x \in B
    BY <2>1
  <2> QED
    BY <2>2
<1>2. PICK m \in B : \A k \in B : m <= k
  <2> HIDE DEF B
  <2> QED
    BY <1>1, NatMin
<1>3. PICK x \in s : m = n - x
  OBVIOUS
<1>4. \A y \in s : x >= y
  <2> SUFFICES ASSUME NEW y \in s  PROVE x >= y
    OBVIOUS
  <2>1. x \in 1..n /\ y \in 1..n
    OBVIOUS
  <2>2. n - y \in B
    BY <2>1
  <2>3. n - x <= n - y
    BY <1>2, <1>3, <2>2
  <2> QED
    BY <2>1, <2>3
<1> QED
  BY <1>4 DEF Max

LEMMA MaxUpTo ==
    ASSUME NEW k \in Nat, k > 0, NEW s, s \subseteq 1..k, k \in s
    PROVE  Max(s) = k
<1>1. Max(s) \in s /\ Max(s) >= k
  BY MaxOf
<1>2. Max(s) \in 1..k
  BY <1>1
<1> QED
  BY <1>1, <1>2

LEMMA UpTo ==
    ASSUME NEW k \in Nat, k > 0
    PROVE  /\ Max(1..k) = k
           /\ (1..k) \ {k} = 1..(k-1)
           /\ 1..k # {}
<1>1. Max(1..k) = k
  BY MaxUpTo
<1> QED
  BY <1>1

\* The equation of the fold of `step` from base over 1..n.
Solves(h, n, base, step) ==
    \A s \in SUBSET (1..n) :
        h[s] = IF s = {} THEN base ELSE step[<<h[s \ {Max(s)}], Max(s)>>]

LEMMA FoldExtends ==
    ASSUME NEW n \in Nat, NEW T, NEW base \in T, NEW step \in [T \X (1..n) -> T],
           NEW k \in 1..n, NEW g \in [SUBSET (1..(k-1)) -> T],
           Solves(g, k-1, base, step)
    PROVE  \E h \in [SUBSET (1..k) -> T] : Solves(h, k, base, step)
<1> DEFINE h == [s \in SUBSET (1..k) |->
                   IF k \in s THEN step[<<g[s \ {k}], k>>] ELSE g[s]]
<1>1. \A s \in SUBSET (1..k) : k \notin s => s \in SUBSET (1..(k-1))
  <2> SUFFICES ASSUME NEW s \in SUBSET (1..k), k \notin s, NEW x \in s
               PROVE  x \in 1..(k-1)
    OBVIOUS
  <2>1. x \in 1..k /\ x # k
    OBVIOUS
  <2> QED
    BY <2>1
<1>2. h \in [SUBSET (1..k) -> T]
  <2> SUFFICES ASSUME NEW s \in SUBSET (1..k)
               PROVE  (IF k \in s THEN step[<<g[s \ {k}], k>>] ELSE g[s]) \in T
    OBVIOUS
  <2>1. CASE k \in s
    <3>1. s \ {k} \in SUBSET (1..(k-1))
      BY <1>1
    <3>2. g[s \ {k}] \in T
      BY <3>1
    <3> QED
      BY <2>1, <3>2
  <2>2. CASE k \notin s
    BY <2>2, <1>1
  <2> QED
    BY <2>1, <2>2
<1>3. ASSUME NEW s \in SUBSET (1..k)
      PROVE  h[s] = IF s = {} THEN base ELSE step[<<h[s \ {Max(s)}], Max(s)>>]
  <2>1. CASE k \in s
    <3>1. Max(s) = k
      <4>1. k \in Nat /\ k > 0 /\ s \subseteq 1..k
        OBVIOUS
      <4> QED
        BY <2>1, <4>1, MaxUpTo
    <3>2. h[s \ {k}] = g[s \ {k}]
      OBVIOUS
    <3>3. h[s] = step[<<g[s \ {k}], k>>]
      BY <2>1
    <3> QED
      BY <2>1, <3>1, <3>2, <3>3
  <2>2. CASE k \notin s
    <3>1. s \in SUBSET (1..(k-1))
      BY <2>2, <1>1
    <3>2. h[s] = g[s] /\ h[s \ {Max(s)}] = g[s \ {Max(s)}]
      BY <2>2
    <3>3. g[s] = IF s = {} THEN base ELSE step[<<g[s \ {Max(s)}], Max(s)>>]
      BY <3>1 DEF Solves
    <3> QED
      BY <3>2, <3>3
  <2> QED
    BY <2>1, <2>2
<1>4. Solves(h, k, base, step)
  BY <1>3 DEF Solves
<1> QED
  BY <1>2, <1>4

\* The fold of a function has a value, so the CHOOSE that defines it finds one.
LEMMA FoldExists ==
    ASSUME NEW n \in Nat, NEW T, NEW base \in T, NEW step \in [T \X (1..n) -> T]
    PROVE  \E h \in [SUBSET (1..n) -> T] : Solves(h, n, base, step)
<1> DEFINE Lacks(k) == ~ \E h \in [SUBSET (1..k) -> T] : Solves(h, k, base, step)
           B == {k \in 0..n : Lacks(k)}
<1>1. ~ Lacks(0)
  <2> DEFINE h == [s \in SUBSET (1..0) |-> base]
  <2>1. h \in [SUBSET (1..0) -> T]
    OBVIOUS
  <2>2. Solves(h, 0, base, step)
    BY DEF Solves
  <2> QED
    BY <2>1, <2>2
<1>2. ASSUME B # {}  PROVE FALSE
  <2>1. PICK m \in B : \A k \in B : m <= k
    <3>1. B \subseteq Nat
      OBVIOUS
    <3> HIDE DEF B
    <3> QED
      BY <1>2, <3>1, NatMin
  <2>2. m \in 1..n /\ m - 1 \in 0..n
    <3>1. m \in 0..n /\ m # 0
      <4>1. m \in 0..n /\ Lacks(m)
        OBVIOUS
      <4> HIDE DEF Lacks
      <4> QED
        BY <1>1, <4>1
    <3> QED
      BY <3>1
  <2>3. m - 1 \notin B
    <3> HIDE DEF B
    <3> QED
      BY <2>1, <2>2
  <2>4. ~ Lacks(m - 1)
    BY <2>2, <2>3
  <2>5. PICK g \in [SUBSET (1..(m-1)) -> T] : Solves(g, m-1, base, step)
    BY <2>4
  <2>6. ~ Lacks(m)
    BY <2>2, <2>5, FoldExtends
  <2> QED
    BY <2>1, <2>6
<1>3. B = {}
  <2> HIDE DEF B
  <2> QED
    BY <1>2
<1>4. n \in 0..n
  OBVIOUS
<1>5. ~ Lacks(n)
  <2> HIDE DEF Lacks
  <2> QED
    BY <1>3, <1>4
<1> QED
  BY <1>5

\* What holds of the base and is kept by every step holds of the prefixes.
LEMMA FoldStays ==
    ASSUME NEW n \in Nat, NEW P, NEW h, h[{}] \in P[0],
           \A k \in 1..n : h[1..(k-1)] \in P[k-1] => h[1..k] \in P[k]
    PROVE  h[1..n] \in P[n]
<1> DEFINE B == {k \in 0..n : h[1..k] \notin P[k]}
<1>1. 1..0 = {}
  OBVIOUS
<1>2. ASSUME B # {}  PROVE FALSE
  <2>1. PICK m \in B : \A k \in B : m <= k
    <3>1. B \subseteq Nat
      OBVIOUS
    <3> HIDE DEF B
    <3> QED
      BY <1>2, <3>1, NatMin
  <2>2. m # 0
    BY <1>1
  <2>3. m \in 1..n /\ m - 1 \in 0..n
    BY <2>2
  <2>4. m - 1 \notin B
    BY <2>1, <2>3
  <2> QED
    BY <2>3, <2>4
<1> QED
  BY <1>2

\* SendAll as the function that folds Send.
LEMMA SendAllIs ==
    ASSUME NEW p, NEW mails, NEW t
    PROVE  SendAll(p, mails, t) =
             (CHOOSE h : h = [s \in SUBSET DOMAIN mails |->
                IF s = {} THEN p ELSE Send(h[s \ {Max(s)}], mails[Max(s)], t)])
               [DOMAIN mails]
BY DEF SendAll, FoldLeft, MapThenFoldSet

\* Mails sent one after the other: what holds of the posts before and is kept by
\* each mail holds after the last.  S is a set of posts that Send stays in.
LEMMA SendAllStays ==
    ASSUME NEW n \in Nat, NEW mails, DOMAIN mails = 1..n, NEW t, NEW S, NEW P,
           NEW p \in S, p \in P[0],
           \A q \in S : \A i \in 1..n : Send(q, mails[i], t) \in S,
           \A i \in 1..n : \A q \in P[i-1] : Send(q, mails[i], t) \in P[i]
    PROVE  SendAll(p, mails, t) \in P[n]
<1> DEFINE step == [x \in S \X (1..n) |-> Send(x[1], mails[x[2]], t)]
           Eq(h) == h = [s \in SUBSET (1..n) |->
                IF s = {} THEN p ELSE Send(h[s \ {Max(s)}], mails[Max(s)], t)]
<1>1. step \in [S \X (1..n) -> S]
  OBVIOUS
<1>2. PICK h \in [SUBSET (1..n) -> S] : Solves(h, n, p, step)
  <2> HIDE DEF step
  <2> QED
    BY <1>1, FoldExists
<1>3. Eq(h)
  <2>1. ASSUME NEW s \in SUBSET (1..n)
        PROVE  h[s] = IF s = {} THEN p ELSE Send(h[s \ {Max(s)}], mails[Max(s)], t)
    <3>1. h[s] = IF s = {} THEN p ELSE step[<<h[s \ {Max(s)}], Max(s)>>]
      BY <1>2 DEF Solves
    <3>2. ASSUME s # {}  PROVE <<h[s \ {Max(s)}], Max(s)>> \in S \X (1..n)
      BY <3>2, MaxOf
    <3>3. ASSUME NEW q \in S, NEW i \in 1..n
          PROVE  step[<<q, i>>] = Send(q, mails[i], t)
      OBVIOUS
    <3> HIDE DEF step
    <3>4. ASSUME s # {}
          PROVE  step[<<h[s \ {Max(s)}], Max(s)>>] = Send(h[s \ {Max(s)}], mails[Max(s)], t)
      BY <3>2, <3>3, <3>4
    <3> QED
      BY <3>1, <3>4
  <2> QED
    BY <2>1
<1> DEFINE g == CHOOSE k : Eq(k)
<1>4. Eq(g)
  <2> HIDE DEF Eq
  <2> QED
    BY <1>3
<1>5. SendAll(p, mails, t) = g[1..n]
  BY SendAllIs
<1> HIDE DEF g
<1>6. \A s \in SUBSET (1..n) :
        g[s] = IF s = {} THEN p ELSE Send(g[s \ {Max(s)}], mails[Max(s)], t)
  <2> DEFINE b(s) == IF s = {} THEN p ELSE Send(g[s \ {Max(s)}], mails[Max(s)], t)
  <2> SUFFICES ASSUME NEW s \in SUBSET (1..n) PROVE g[s] = b(s)
    OBVIOUS
  <2>1. g = [r \in SUBSET (1..n) |-> b(r)]
    BY <1>4
  <2> HIDE DEF b
  <2> QED
    BY <2>1
<1>7. g[{}] \in P[0]
  BY <1>6
<1>8. ASSUME NEW k \in 1..n, g[1..(k-1)] \in P[k-1]
      PROVE  g[1..k] \in P[k]
  <2>1. g[1..k] = Send(g[1..(k-1)], mails[k], t)
    <3>1. k \in Nat /\ k > 0 /\ 1..k \in SUBSET (1..n)
      OBVIOUS
    <3>2. Max(1..k) = k /\ (1..k) \ {k} = 1..(k-1) /\ 1..k # {}
      BY <3>1, UpTo
    <3>3. g[1..k] = IF 1..k = {} THEN p
                    ELSE Send(g[(1..k) \ {Max(1..k)}], mails[Max(1..k)], t)
      BY <1>6, <3>1
    <3> QED
      BY <3>2, <3>3
  <2> QED
    BY <1>8, <2>1
<1>9. g[1..n] \in P[n]
  BY <1>7, <1>8, FoldStays
<1> QED
  BY <1>5, <1>9

\* The mails of the batch under one key.
MailsAt(key) == MailsOf(key[1], batches[key])

\* SendBatches as the function that folds SendAll.
LEMMA SendBatchesIs ==
    ASSUME NEW p, NEW keys, NEW t
    PROVE  SendBatches(p, keys, t) =
             (CHOOSE h : h = [s \in SUBSET DOMAIN keys |->
                IF s = {} THEN p ELSE SendAll(h[s \ {Max(s)}], MailsAt(keys[Max(s)]), t)])
               [DOMAIN keys]
BY DEF SendBatches, MailsAt, FoldLeft, MapThenFoldSet

\* The same for batches mailed one after the other.
LEMMA SendBatchesStays ==
    ASSUME NEW n \in Nat, NEW keys, DOMAIN keys = 1..n, NEW t, NEW S, NEW P,
           NEW p \in S, p \in P[0],
           \A q \in S : \A i \in 1..n : SendAll(q, MailsAt(keys[i]), t) \in S,
           \A i \in 1..n : \A q \in P[i-1] : SendAll(q, MailsAt(keys[i]), t) \in P[i]
    PROVE  SendBatches(p, keys, t) \in P[n]
<1> DEFINE step == [x \in S \X (1..n) |-> SendAll(x[1], MailsAt(keys[x[2]]), t)]
           Eq(h) == h = [s \in SUBSET (1..n) |->
                IF s = {} THEN p ELSE SendAll(h[s \ {Max(s)}], MailsAt(keys[Max(s)]), t)]
<1>1. step \in [S \X (1..n) -> S]
  OBVIOUS
<1>2. PICK h \in [SUBSET (1..n) -> S] : Solves(h, n, p, step)
  <2> HIDE DEF step
  <2> QED
    BY <1>1, FoldExists
<1>3. Eq(h)
  <2>1. ASSUME NEW s \in SUBSET (1..n)
        PROVE  h[s] = IF s = {} THEN p ELSE SendAll(h[s \ {Max(s)}], MailsAt(keys[Max(s)]), t)
    <3>1. h[s] = IF s = {} THEN p ELSE step[<<h[s \ {Max(s)}], Max(s)>>]
      BY <1>2 DEF Solves
    <3>2. ASSUME s # {}  PROVE <<h[s \ {Max(s)}], Max(s)>> \in S \X (1..n)
      BY <3>2, MaxOf
    <3>3. ASSUME NEW q \in S, NEW i \in 1..n
          PROVE  step[<<q, i>>] = SendAll(q, MailsAt(keys[i]), t)
      OBVIOUS
    <3> HIDE DEF step
    <3>4. ASSUME s # {}
          PROVE  step[<<h[s \ {Max(s)}], Max(s)>>] = SendAll(h[s \ {Max(s)}], MailsAt(keys[Max(s)]), t)
      BY <3>2, <3>3, <3>4
    <3> QED
      BY <3>1, <3>4
  <2> QED
    BY <2>1
<1> DEFINE g == CHOOSE k : Eq(k)
<1>4. Eq(g)
  <2> HIDE DEF Eq
  <2> QED
    BY <1>3
<1>5. SendBatches(p, keys, t) = g[1..n]
  BY SendBatchesIs
<1> HIDE DEF g
<1>6. \A s \in SUBSET (1..n) :
        g[s] = IF s = {} THEN p ELSE SendAll(g[s \ {Max(s)}], MailsAt(keys[Max(s)]), t)
  <2> DEFINE b(s) == IF s = {} THEN p ELSE SendAll(g[s \ {Max(s)}], MailsAt(keys[Max(s)]), t)
  <2> SUFFICES ASSUME NEW s \in SUBSET (1..n) PROVE g[s] = b(s)
    OBVIOUS
  <2>1. g = [r \in SUBSET (1..n) |-> b(r)]
    BY <1>4
  <2> HIDE DEF b
  <2> QED
    BY <2>1
<1>7. g[{}] \in P[0]
  BY <1>6
<1>8. ASSUME NEW k \in 1..n, g[1..(k-1)] \in P[k-1]
      PROVE  g[1..k] \in P[k]
  <2>1. g[1..k] = SendAll(g[1..(k-1)], MailsAt(keys[k]), t)
    <3>1. k \in Nat /\ k > 0 /\ 1..k \in SUBSET (1..n)
      OBVIOUS
    <3>2. Max(1..k) = k /\ (1..k) \ {k} = 1..(k-1) /\ 1..k # {}
      BY <3>1, UpTo
    <3>3. g[1..k] = IF 1..k = {} THEN p
                    ELSE SendAll(g[(1..k) \ {Max(1..k)}], MailsAt(keys[Max(1..k)]), t)
      BY <1>6, <3>1
    <3> QED
      BY <3>2, <3>3
  <2> QED
    BY <1>8, <2>1
<1>9. g[1..n] \in P[n]
  BY <1>7, <1>8, FoldStays
<1> QED
  BY <1>5, <1>9

-----------------------------------------------------------------------------
(* One mail.                                                               *)

Everyone == UNION {Recipients[g] : g \in DOMAIN Recipients}

\* The mails the buffer makes: everyone their alerts would reach is told.
Mailable ==
    { m \in [ kind : {"down", "recovery", "digest"}, about : SUBSET Alert,
              to : SUBSET Everyone ] :
        /\ \A a \in m.about : To(a) \subseteq m.to
        /\ m.about = {} => m.to = {} }

Stamped(m, t) == {[alert |-> a, at |-> t] : a \in m.about}

\* The five things Send does with a mail: it is dropped, it is queued, it is
\* withheld after a notice sent before, or with a notice now, which may itself
\* be lost.
Drops(p, q, m) ==
    /\ q.outbox = p.outbox /\ q.throttledAt = p.throttledAt /\ q.withheld = p.withheld
    /\ q.dropped = p.dropped \cup m.about
    /\ q.unsaid = p.unsaid

Queues(p, q, m, t) ==
    /\ m.to # {} /\ Allows(p, t)
    /\ q.outbox = Append(p.outbox, Row(m.kind, m.about, m.to, t))
    /\ q.throttledAt = p.throttledAt /\ q.withheld = p.withheld
    /\ q.dropped = p.dropped /\ q.unsaid = p.unsaid

Withholds(p, q, m, t) ==
    /\ Throttled(p, t)
    /\ q.outbox = p.outbox /\ q.throttledAt = p.throttledAt
    /\ q.withheld = p.withheld \cup Stamped(m, t)
    /\ q.dropped = p.dropped /\ q.unsaid = p.unsaid

Warns(p, q, m, t) ==
    /\ m.to # {}
    /\ q.outbox = Append(p.outbox, Row("notice", {}, m.to, t)) /\ q.throttledAt = t
    /\ q.withheld = p.withheld \cup Stamped(m, t)
    /\ q.dropped = p.dropped /\ q.unsaid = p.unsaid

Mutters(p, q, m, t) ==
    /\ m.to # {}
    /\ q.outbox = p.outbox /\ q.throttledAt = t
    /\ q.withheld = p.withheld \cup Stamped(m, t)
    /\ q.dropped = p.dropped /\ q.unsaid = p.unsaid \cup {t}

\* What a notice changes.
LEMMA NoticeIs ==
    ASSUME NEW p \in Post, NEW to, NEW t
    PROVE  LET q == Notice(p, to, t)
           IN  /\ q.outbox = IF p.writable THEN Append(p.outbox, Row("notice", {}, to, t))
                             ELSE p.outbox
               /\ q.throttledAt = t /\ q.writable = p.writable /\ q.withheld = p.withheld
               /\ q.dropped = p.dropped
               /\ q.unsaid = IF p.writable THEN p.unsaid ELSE p.unsaid \cup {t}
               /\ q = [ outbox |-> q.outbox, throttledAt |-> t, writable |-> p.writable,
                        withheld |-> p.withheld, dropped |-> p.dropped,
                        unsaid |-> q.unsaid ]
<1> DEFINE r == Row("notice", {}, to, t)
           u == Unsaid(p, t)
           e == Enqueue(p, r)
<1>1. Notice(p, to, t) = [e EXCEPT !.throttledAt = t, !.unsaid = u]
  BY DEF Notice
<1>2. u = IF p.writable THEN p.unsaid ELSE p.unsaid \cup {t}
  BY DEF Unsaid
<1>3. e = IF p.writable THEN [p EXCEPT !.outbox = Append(@, r)] ELSE p
  BY DEF Enqueue
<1> HIDE DEF r, u, e
<1>4. e = [ outbox |-> IF p.writable THEN Append(p.outbox, r) ELSE p.outbox,
            throttledAt |-> p.throttledAt, writable |-> p.writable,
            withheld |-> p.withheld, dropped |-> p.dropped, unsaid |-> p.unsaid ]
  BY <1>3 DEF Post
<1>5. Notice(p, to, t)
        = [ outbox |-> IF p.writable THEN Append(p.outbox, r) ELSE p.outbox,
            throttledAt |-> t, writable |-> p.writable,
            withheld |-> p.withheld, dropped |-> p.dropped, unsaid |-> u ]
  BY <1>1, <1>4
<1> QED
  BY <1>2, <1>5 DEF r

LEMMA SendCases ==
    ASSUME NEW p \in Post, NEW m, NEW t
    PROVE  LET q == Send(p, m, t)
           IN  Drops(p, q, m) \/ Queues(p, q, m, t) \/ Withholds(p, q, m, t)
                 \/ Warns(p, q, m, t) \/ Mutters(p, q, m, t)
<1> DEFINE q == Send(p, m, t)
           W == Stamped(m, t)
<1> HIDE DEF W
<1>1. CASE m.to = {} \/ (Allows(p, t) /\ ~ p.writable)
  <2>1. q = [p EXCEPT !.dropped = @ \cup m.about]
    BY <1>1 DEF Send
  <2>2. Drops(p, q, m)
    BY <2>1 DEF Drops, Post
  <2> QED
    BY <2>2
<1>2. CASE m.to # {} /\ Allows(p, t) /\ p.writable
  <2> DEFINE r == Row(m.kind, m.about, m.to, t)
  <2>1. q = [p EXCEPT !.outbox = Append(@, r)]
    BY <1>2 DEF Send, Enqueue
  <2> HIDE DEF r
  <2>2. q.outbox = Append(p.outbox, r) /\ q.throttledAt = p.throttledAt
        /\ q.withheld = p.withheld /\ q.dropped = p.dropped /\ q.unsaid = p.unsaid
    BY <2>1 DEF Post
  <2>3. Queues(p, q, m, t)
    BY <1>2, <2>2 DEF Queues, r
  <2> QED
    BY <2>3
<1>3. CASE m.to # {} /\ ~ Allows(p, t) /\ Throttled(p, t)
  <2>1. q = [p EXCEPT !.withheld = @ \cup W]
    BY <1>3 DEF Send, W, Stamped
  <2>2. q.outbox = p.outbox /\ q.throttledAt = p.throttledAt
        /\ q.withheld = p.withheld \cup W /\ q.dropped = p.dropped
        /\ q.unsaid = p.unsaid
    BY <2>1 DEF Post
  <2>3. Withholds(p, q, m, t)
    BY <1>3, <2>2 DEF Withholds, W
  <2> QED
    BY <2>3
<1>4. CASE m.to # {} /\ ~ Allows(p, t) /\ ~ Throttled(p, t)
  <2> DEFINE c == Notice(p, m.to, t)
             r == Row("notice", {}, m.to, t)
  <2>1. q = [c EXCEPT !.withheld = @ \cup W]
    BY <1>4 DEF Send, W, Stamped
  <2>2. /\ c.outbox = IF p.writable THEN Append(p.outbox, r) ELSE p.outbox
        /\ c.throttledAt = t /\ c.withheld = p.withheld /\ c.dropped = p.dropped
        /\ c.unsaid = IF p.writable THEN p.unsaid ELSE p.unsaid \cup {t}
        /\ c = [ outbox |-> c.outbox, throttledAt |-> t, writable |-> p.writable,
                 withheld |-> p.withheld, dropped |-> p.dropped, unsaid |-> c.unsaid ]
    BY NoticeIs
  <2> HIDE DEF r, c
  <2>3. /\ q.outbox = c.outbox /\ q.throttledAt = t /\ q.dropped = p.dropped
        /\ q.withheld = p.withheld \cup W /\ q.unsaid = c.unsaid
    BY <2>1, <2>2
  <2>4. p.writable => Warns(p, q, m, t)
    BY <1>4, <2>2, <2>3 DEF Warns, W, r
  <2>5. ~ p.writable => Mutters(p, q, m, t)
    BY <1>4, <2>2, <2>3 DEF Mutters, W
  <2> QED
    BY <2>4, <2>5
<1> QED
  BY <1>1, <1>2, <1>3, <1>4

\* Appending to the outbox.
LEMMA Appended ==
    ASSUME NEW S, NEW s \in Seq(S), NEW r
    PROVE  /\ DOMAIN s = 1..Len(s) /\ Len(s) \in Nat
           /\ DOMAIN Append(s, r) = 1..(Len(s) + 1)
           /\ \A i \in DOMAIN s : Append(s, r)[i] = s[i]
           /\ Append(s, r)[Len(s) + 1] = r
           /\ r \in S => Append(s, r) \in Seq(S)
OBVIOUS

LEMMA SendType ==
    ASSUME NEW p \in Post, NEW m \in Mailable, NEW t \in Nat
    PROVE  Send(p, m, t) \in Post
<1>1. /\ p.outbox \in Seq(Mail) /\ p.throttledAt \in Nat /\ p.writable \in BOOLEAN
      /\ p.withheld \in SUBSET [alert : Alert, at : Nat] /\ p.dropped \in SUBSET Alert
      /\ p.unsaid \in SUBSET Nat
  BY DEF Post
<1>2. /\ m.kind \in {"down", "recovery", "digest"} /\ m.about \in SUBSET Alert
      /\ m.to \in SUBSET Everyone
  BY DEF Mailable
<1>3. m.to # {} => /\ Row(m.kind, m.about, m.to, t) \in Mail
                   /\ Row("notice", {}, m.to, t) \in Mail
  BY <1>2 DEF Row, Mail, Everyone
<1>4. Stamped(m, t) \in SUBSET [alert : Alert, at : Nat]
  BY <1>2 DEF Stamped
<1> DEFINE W == Stamped(m, t)
           r == Row(m.kind, m.about, m.to, t)
           n == Row("notice", {}, m.to, t)
<1>5. CASE m.to = {} \/ (Allows(p, t) /\ ~ p.writable)
  <2>1. Send(p, m, t) = [p EXCEPT !.dropped = @ \cup m.about]
    BY <1>5 DEF Send
  <2> QED
    BY <2>1, <1>2 DEF Post
<1>6. CASE m.to # {} /\ Allows(p, t) /\ p.writable
  <2>1. Send(p, m, t) = [p EXCEPT !.outbox = Append(@, r)]
    BY <1>6 DEF Send, Enqueue
  <2> HIDE DEF r
  <2>2. Append(p.outbox, r) \in Seq(Mail)
    BY <1>1, <1>3, <1>6, Appended DEF r
  <2> QED
    BY <2>1, <2>2 DEF Post
<1>7. CASE m.to # {} /\ ~ Allows(p, t)
  <2> DEFINE c == IF Throttled(p, t) THEN p ELSE Notice(p, m.to, t)
  <2>1. Send(p, m, t) = [c EXCEPT !.withheld = @ \cup W]
    BY <1>7 DEF Send, Stamped
  <2>2. c \in Post
    <3> DEFINE d == Notice(p, m.to, t)
    <3>1. /\ d.outbox = IF p.writable THEN Append(p.outbox, n) ELSE p.outbox
          /\ d.unsaid = IF p.writable THEN p.unsaid ELSE p.unsaid \cup {t}
          /\ d = [ outbox |-> d.outbox, throttledAt |-> t, writable |-> p.writable,
                   withheld |-> p.withheld, dropped |-> p.dropped, unsaid |-> d.unsaid ]
      BY NoticeIs
    <3> HIDE DEF n, d
    <3>2. Append(p.outbox, n) \in Seq(Mail)
      BY <1>1, <1>3, <1>7, Appended DEF n
    <3>3. d.outbox \in Seq(Mail) /\ d.unsaid \in SUBSET Nat
      BY <1>1, <3>1, <3>2
    <3> DEFINE R(o, u) == [ outbox |-> o, throttledAt |-> t, writable |-> p.writable,
                            withheld |-> p.withheld, dropped |-> p.dropped, unsaid |-> u ]
    <3>4. \A o \in Seq(Mail), u \in SUBSET Nat : R(o, u) \in Post
      BY <1>1 DEF Post
    <3>5. d = R(d.outbox, d.unsaid)
      BY <3>1
    <3> HIDE DEF R
    <3>6. d \in Post
      BY <3>3, <3>4, <3>5
    <3> QED
      BY <3>6 DEF d
  <2> HIDE DEF c, W
  <2>3. W \in SUBSET [alert : Alert, at : Nat]
    BY <1>4 DEF W
  <2> QED
    BY <2>1, <2>2, <2>3 DEF Post
<1> QED
  BY <1>5, <1>6, <1>7

-----------------------------------------------------------------------------
(* What every mail keeps true of the outbox and the cap.                   *)

NoneLater(p, t) == \A i \in DOMAIN p.outbox : p.outbox[i].at <= t

\* The rows of an hour from u on that are no notices.
Spent(p, u) ==
    {i \in DOMAIN p.outbox : p.outbox[i].kind # "notice" /\ p.outbox[i].at \in u..u+Hour}

InBudget(p) ==
    MaxPerHour > 0 => \A u \in Nat : Cardinality(Spent(p, u)) <= MaxPerHour

\* The recipients of a withheld alert were sent the notice, or it was lost.
Answered(p, w) ==
    \/ w.at \in p.unsaid
    \/ \E i \in DOMAIN p.outbox : /\ p.outbox[i].kind = "notice"
                                  /\ p.outbox[i].at = w.at
                                  /\ To(w.alert) \subseteq p.outbox[i].to

\* Something was withheld and answered when throttledAt says so.
NoticeStands(p) ==
    p.throttledAt # Never =>
        \E w \in p.withheld : w.at = p.throttledAt /\ Answered(p, w)

Explained(p) ==
    \A w \in p.withheld : \E v \in p.withheld :
        w.at - Hour < v.at /\ v.at <= w.at /\ Answered(p, v)

\* No alert is withheld in the future.
Withheld(p, t) == \A w \in p.withheld : w.at <= t

\* The posts that satisfy all of these at time t.
Good(t) ==
    { p \in Post : /\ NoneLater(p, t) /\ Withheld(p, t) /\ InBudget(p)
                   /\ NoticeStands(p) /\ Explained(p) }

LEMMA Limits ==
    /\ MaxHold \in Nat /\ MaxHold > 0
    /\ Hour \in Nat /\ Hour > 0
    /\ MaxPerHour \in Nat
BY LimitsAssumption

\* The rows of a post, and the instants they carry.
LEMMA PostRows ==
    ASSUME NEW p \in Post
    PROVE  /\ p.outbox \in Seq(Mail)
           /\ DOMAIN p.outbox = 1..Len(p.outbox) /\ Len(p.outbox) \in Nat
           /\ \A i \in DOMAIN p.outbox : p.outbox[i] \in Mail /\ p.outbox[i].at \in Nat
           /\ p.throttledAt \in Nat
           /\ \A w \in p.withheld : w.at \in Nat
           /\ IsFiniteSet(DOMAIN p.outbox)
<1>1. p.outbox \in Seq(Mail) /\ p.throttledAt \in Nat
      /\ p.withheld \in SUBSET [alert : Alert, at : Nat]
  BY DEF Post
<1>2. /\ \A i \in DOMAIN p.outbox : p.outbox[i] \in Mail
      /\ DOMAIN p.outbox = 1..Len(p.outbox) /\ Len(p.outbox) \in Nat
  BY <1>1
<1>3. IsFiniteSet(1..Len(p.outbox))
  BY <1>2, FS_Interval
<1>4. \A i \in DOMAIN p.outbox : p.outbox[i].at \in Nat
  BY <1>2 DEF Mail
<1>5. \A w \in p.withheld : w.at \in Nat
  BY <1>1
<1> QED
  BY <1>1, <1>2, <1>3, <1>4, <1>5

\* A post whose outbox is another's with one more row.
LEMMA OneMore ==
    ASSUME NEW p \in Post, NEW q, NEW r, q.outbox = Append(p.outbox, r)
    PROVE  LET l == Len(p.outbox) + 1
           IN  /\ DOMAIN q.outbox = DOMAIN p.outbox \cup {l}
               /\ \A i \in DOMAIN p.outbox : q.outbox[i] = p.outbox[i] /\ i # l
               /\ q.outbox[l] = r
               /\ l \in Nat
<1>1. p.outbox \in Seq(Mail) /\ Len(p.outbox) \in Nat
  BY PostRows
<1>2. /\ DOMAIN p.outbox = 1..Len(p.outbox)
      /\ DOMAIN q.outbox = 1..(Len(p.outbox) + 1)
      /\ \A i \in DOMAIN p.outbox : q.outbox[i] = p.outbox[i]
      /\ q.outbox[Len(p.outbox) + 1] = r
  BY <1>1, Appended
<1> HIDE DEF Post
<1> QED
  BY <1>1, <1>2

LEMMA SpentGrows ==
    ASSUME NEW p \in Post, NEW q, NEW r, NEW t \in Nat, NEW u \in Nat,
           q.outbox = Append(p.outbox, r), r.at = t, NoneLater(p, t),
           MaxPerHour > 0, Cardinality(Spent(p, u)) <= MaxPerHour,
           r.kind # "notice" => Allows(p, t)
    PROVE  Cardinality(Spent(q, u)) <= MaxPerHour
<1> DEFINE l == Len(p.outbox) + 1
           Since == {i \in DOMAIN p.outbox : p.outbox[i].at >= t - Hour}
<1>1. /\ DOMAIN q.outbox = DOMAIN p.outbox \cup {l}
      /\ \A i \in DOMAIN p.outbox : q.outbox[i] = p.outbox[i] /\ i # l
      /\ q.outbox[l] = r
  BY OneMore
<1>2. /\ IsFiniteSet(DOMAIN p.outbox)
      /\ \A i \in DOMAIN p.outbox : p.outbox[i].at \in Nat
  BY PostRows
<1> HIDE DEF l
<1>3. CASE r.kind = "notice" \/ t \notin u..u+Hour
  <2>1. Spent(q, u) = Spent(p, u)
    BY <1>1, <1>3 DEF Spent
  <2> QED
    BY <2>1
<1>4. CASE r.kind # "notice" /\ t \in u..u+Hour
  <2>1. Spent(q, u) = Spent(p, u) \cup {l} /\ l \notin Spent(p, u)
    BY <1>1, <1>4 DEF Spent
  <2>2. Spent(p, u) \subseteq Since
    <3> SUFFICES ASSUME NEW i \in DOMAIN p.outbox, p.outbox[i].at \in u..u+Hour
                 PROVE  p.outbox[i].at >= t - Hour
      BY DEF Spent
    <3> DEFINE x == p.outbox[i].at
    <3>1. x \in Nat /\ x \in u..u+Hour
      BY <1>2
    <3> HIDE DEF x
    <3>2. x >= t - Hour
      BY <1>4, <3>1, Limits
    <3> QED
      BY <3>2 DEF x
  <2>3. Cardinality(Since) < MaxPerHour
    BY <1>4, Limits DEF Allows, SentSince
  <2>4. /\ IsFiniteSet(Since) /\ IsFiniteSet(Spent(p, u))
        /\ Cardinality(Since) \in Nat /\ Cardinality(Spent(p, u)) \in Nat
        /\ Cardinality(Spent(p, u)) <= Cardinality(Since)
    <3>1. Since \in SUBSET DOMAIN p.outbox
      OBVIOUS
    <3> HIDE DEF Since
    <3>2. IsFiniteSet(Since)
      BY <1>2, <3>1, FS_Subset
    <3>3. IsFiniteSet(Spent(p, u)) /\ Cardinality(Spent(p, u)) <= Cardinality(Since)
      BY <2>2, <3>2, FS_Subset
    <3> QED
      BY <3>2, <3>3, FS_CardinalityType
  <2>5. Cardinality(Spent(q, u)) = Cardinality(Spent(p, u)) + 1
    BY <2>1, <2>4, FS_AddElement
  <2> HIDE DEF Since
  <2> QED
    BY <2>3, <2>4, <2>5, Limits
<1> QED
  BY <1>3, <1>4

LEMMA SendGood ==
    ASSUME NEW t \in Nat, NEW p \in Good(t), NEW m \in Mailable
    PROVE  Send(p, m, t) \in Good(t)
<1> DEFINE q == Send(p, m, t)
           l == Len(p.outbox) + 1
           sent == Row(m.kind, m.about, m.to, t)
           warned == Row("notice", {}, m.to, t)
           SameRows == q.outbox = p.outbox
           Grows(r) == /\ DOMAIN q.outbox = DOMAIN p.outbox \cup {l}
                       /\ \A i \in DOMAIN p.outbox : q.outbox[i] = p.outbox[i] /\ i # l
                       /\ q.outbox[l] = r
<1>1. /\ p \in Post /\ NoneLater(p, t) /\ Withheld(p, t) /\ InBudget(p)
      /\ NoticeStands(p) /\ Explained(p)
  BY DEF Good
<1>2. q \in Post
  BY <1>1, SendType
<1>3. Drops(p, q, m) \/ Queues(p, q, m, t) \/ Withholds(p, q, m, t)
      \/ Warns(p, q, m, t) \/ Mutters(p, q, m, t)
  BY <1>1, SendCases
<1> HIDE DEF q
<1>4. \/ SameRows
      \/ q.outbox = Append(p.outbox, sent) /\ Allows(p, t)
      \/ q.outbox = Append(p.outbox, warned)
  BY <1>3 DEF Drops, Queues, Withholds, Warns, Mutters
<1>5. /\ sent.at = t /\ sent.kind # "notice" /\ sent.about = m.about /\ sent.to = m.to
      /\ warned.at = t /\ warned.kind = "notice" /\ warned.to = m.to
  BY DEF Row, Mailable
<1> HIDE DEF sent, warned
<1>6. SameRows \/ Grows(sent) \/ Grows(warned)
  <2>1. \A r : q.outbox = Append(p.outbox, r) => Grows(r)
    BY <1>1, OneMore
  <2> QED
    BY <1>4, <2>1
<1>8. \A i \in DOMAIN p.outbox : i \in DOMAIN q.outbox /\ q.outbox[i] = p.outbox[i]
  BY <1>6
<1>9. ASSUME Grows(warned)
      PROVE  /\ l \in DOMAIN q.outbox /\ q.outbox[l].kind = "notice"
             /\ q.outbox[l].at = t /\ q.outbox[l].to = m.to
  BY <1>9, <1>5
<1>10. NoneLater(q, t)
  BY <1>1, <1>5, <1>6 DEF NoneLater
<1>11. InBudget(q)
  <2> SUFFICES ASSUME MaxPerHour > 0, NEW u \in Nat
               PROVE  Cardinality(Spent(q, u)) <= MaxPerHour
    BY DEF InBudget
  <2>1. Cardinality(Spent(p, u)) <= MaxPerHour
    BY <1>1 DEF InBudget
  <2>2. CASE SameRows
    BY <2>1, <2>2 DEF Spent
  <2>3. CASE q.outbox = Append(p.outbox, sent) /\ Allows(p, t)
    BY <1>1, <1>5, <2>1, <2>3, SpentGrows
  <2>4. CASE q.outbox = Append(p.outbox, warned)
    BY <1>1, <1>5, <2>1, <2>4, SpentGrows
  <2> QED
    BY <1>4, <2>2, <2>3, <2>4
<1>12. /\ p.unsaid \subseteq q.unsaid /\ p.withheld \subseteq q.withheld
       /\ \A w \in q.withheld : w \in p.withheld \/ w \in Stamped(m, t)
  BY <1>3 DEF Drops, Queues, Withholds, Warns, Mutters
<1>13. \A w : Answered(p, w) => Answered(q, w)
  BY <1>8, <1>12 DEF Answered
<1>14. Withheld(q, t)
  <2>1. \A w \in Stamped(m, t) : w.at <= t
    BY DEF Stamped
  <2> QED
    BY <1>1, <1>12, <2>1 DEF Withheld
\* The mail that a notice is sent for, or should have been.
<1>15. ASSUME Warns(p, q, m, t) \/ Mutters(p, q, m, t)
       PROVE  /\ q.throttledAt = t
              /\ \E w \in q.withheld : w.at = t /\ Answered(q, w)
  <2>1. /\ m.to # {} /\ q.throttledAt = t /\ q.withheld = p.withheld \cup Stamped(m, t)
        /\ \/ q.outbox = Append(p.outbox, warned)
           \/ t \in q.unsaid
    BY <1>15 DEF Warns, Mutters, warned
  <2>2. PICK a \in m.about : To(a) \subseteq m.to
    BY <2>1 DEF Mailable
  <2> DEFINE w == [alert |-> a, at |-> t]
  <2>3. w \in Stamped(m, t) /\ w.at = t /\ w.alert = a
    BY DEF Stamped
  <2> HIDE DEF w
  <2>4. CASE t \in q.unsaid
    BY <2>1, <2>3, <2>4 DEF Answered
  <2>5. CASE q.outbox = Append(p.outbox, warned)
    <3>1. Grows(warned)
      BY <1>1, <2>5, OneMore
    <3>2. Answered(q, w)
      BY <1>9, <2>2, <2>3, <3>1 DEF Answered
    <3> QED
      BY <2>1, <2>3, <3>2
  <2> QED
    BY <2>1, <2>4, <2>5
<1> HIDE DEF Grows
<1>16. NoticeStands(q)
  <2>1. CASE q.throttledAt = p.throttledAt
    BY <1>1, <1>12, <1>13, <2>1 DEF NoticeStands
  <2>2. q.throttledAt = p.throttledAt \/ Warns(p, q, m, t) \/ Mutters(p, q, m, t)
    BY <1>3 DEF Drops, Queues, Withholds
  <2> QED
    BY <1>15, <2>1, <2>2 DEF NoticeStands
<1>17. Explained(q)
  <2> DEFINE Told(w) == \E v \in q.withheld :
                w.at - Hour < v.at /\ v.at <= w.at /\ Answered(q, v)
  <2>1. ASSUME NEW w \in p.withheld  PROVE Told(w)
    BY <1>1, <1>12, <1>13 DEF Explained
  <2>2. ASSUME NEW w \in Stamped(m, t), Withholds(p, q, m, t)  PROVE Told(w)
    <3>1. w.at = t
      BY DEF Stamped
    <3>2. p.throttledAt # Never /\ t - p.throttledAt < Hour
      BY <2>2 DEF Withholds, Throttled
    <3>3. PICK v \in p.withheld : v.at = p.throttledAt /\ Answered(p, v)
      BY <1>1, <3>2 DEF NoticeStands
    <3>4. v.at <= t /\ v.at \in Nat
      BY <1>1, <3>3, PostRows DEF Withheld
    <3>5. t - Hour < v.at
      BY <3>2, <3>3, <3>4, Limits
    <3> QED
      BY <1>12, <1>13, <3>1, <3>3, <3>4, <3>5
  <2>3. ASSUME NEW w \in Stamped(m, t), Warns(p, q, m, t) \/ Mutters(p, q, m, t)
        PROVE  Told(w)
    <3>1. w.at = t
      BY DEF Stamped
    <3>2. PICK v \in q.withheld : v.at = t /\ Answered(q, v)
      BY <1>15, <2>3
    <3>3. t - Hour < t /\ t <= t
      BY Limits
    <3> QED
      BY <3>1, <3>2, <3>3
  <2>4. \A w \in q.withheld :
          \/ w \in p.withheld
          \/ /\ w \in Stamped(m, t)
             /\ Withholds(p, q, m, t) \/ Warns(p, q, m, t) \/ Mutters(p, q, m, t)
    BY <1>3 DEF Drops, Queues, Withholds, Warns, Mutters
  <2> HIDE DEF Told
  <2>5. \A w \in q.withheld : Told(w)
    BY <2>1, <2>2, <2>3, <2>4
  <2> QED
    BY <2>5 DEF Told, Explained
<1> QED
  BY <1>2, <1>10, <1>11, <1>14, <1>16, <1>17 DEF Good, q

-----------------------------------------------------------------------------
(* From batches to mails.                                                  *)

LEMMA ToEveryone ==
    ASSUME NEW a \in Alert
    PROVE  To(a) \subseteq Everyone
<1>1. GroupOf[a.device] \in DOMAIN Recipients
  BY GroupAssumption DEF Alert
<1> QED
  BY <1>1 DEF To, Everyone

LEMMA IndividualMailable ==
    ASSUME NEW a \in Alert
    PROVE  Individual(a) \in Mailable
<1>1. To(a) \subseteq Everyone
  BY ToEveryone
<1>2. a.kind \in {"down", "recovery", "digest"}
  BY DEF Alert, Kinds
<1> QED
  BY <1>1, <1>2 DEF Individual, Mailable

LEMMA DigestMailable ==
    ASSUME NEW alerts \in SUBSET Alert
    PROVE  Digest(alerts) \in Mailable
<1>1. UNION {To(a) : a \in alerts} \subseteq Everyone
  BY ToEveryone
<1>2. /\ \A a \in alerts : To(a) \subseteq UNION {To(b) : b \in alerts}
      /\ alerts = {} => UNION {To(b) : b \in alerts} = {}
  OBVIOUS
<1> QED
  BY <1>1, <1>2 DEF Digest, Mailable

LEMMA BatchFacts ==
    ASSUME batches \in [Keys -> Seq(Alert)], NEW key \in Keys
    PROVE  /\ batches[key] \in Seq(Alert) /\ Len(batches[key]) \in Nat
           /\ DOMAIN batches[key] = 1..Len(batches[key])
           /\ \A i \in DOMAIN batches[key] : batches[key][i] \in Alert
           /\ ToSet(batches[key]) \in SUBSET Alert
<1>1. batches[key] \in Seq(Alert)
  OBVIOUS
<1>2. /\ Len(batches[key]) \in Nat /\ DOMAIN batches[key] = 1..Len(batches[key])
      /\ \A i \in DOMAIN batches[key] : batches[key][i] \in Alert
  BY <1>1
<1> QED
  BY <1>1, <1>2 DEF ToSet

\* A batch makes a sequence of mails: its digest, or one for each alert.
LEMMA MailsAtIs ==
    ASSUME batches \in [Keys -> Seq(Alert)], NEW key \in Keys
    PROVE  \/ /\ DOMAIN MailsAt(key) = 1..1
              /\ MailsAt(key)[1] = Digest(ToSet(batches[key]))
           \/ /\ DOMAIN MailsAt(key) = DOMAIN batches[key]
              /\ \A i \in DOMAIN batches[key] : MailsAt(key)[i] = Individual(batches[key][i])
<1>1. CASE key[1] # Ungrouped /\ Len(batches[key]) >= DigestThreshold
  <2> DEFINE d == Digest(ToSet(batches[key]))
  <2>1. MailsAt(key) = <<d>>
    BY <1>1 DEF MailsAt, MailsOf
  <2> HIDE DEF d
  <2>2. DOMAIN MailsAt(key) = 1..1 /\ MailsAt(key)[1] = d
    BY <2>1
  <2> QED
    BY <2>2 DEF d
<1>2. CASE ~ (key[1] # Ungrouped /\ Len(batches[key]) >= DigestThreshold)
  <2>1. MailsAt(key) = [i \in DOMAIN batches[key] |-> Individual(batches[key][i])]
    BY <1>2 DEF MailsAt, MailsOf
  <2> QED
    BY <2>1
<1> QED
  BY <1>1, <1>2

LEMMA MailsAtMailable ==
    ASSUME batches \in [Keys -> Seq(Alert)], NEW key \in Keys
    PROVE  \E n \in Nat : /\ DOMAIN MailsAt(key) = 1..n
                          /\ \A i \in 1..n : MailsAt(key)[i] \in Mailable
<1>1. /\ Len(batches[key]) \in Nat /\ DOMAIN batches[key] = 1..Len(batches[key])
      /\ \A i \in DOMAIN batches[key] : batches[key][i] \in Alert
      /\ ToSet(batches[key]) \in SUBSET Alert
  BY BatchFacts
<1>2. CASE /\ DOMAIN MailsAt(key) = 1..1
           /\ MailsAt(key)[1] = Digest(ToSet(batches[key]))
  <2>1. MailsAt(key)[1] \in Mailable
    BY <1>1, <1>2, DigestMailable
  <2>2. \A i \in 1..1 : MailsAt(key)[i] \in Mailable
    BY <2>1
  <2> QED
    BY <1>2, <2>2
<1>3. CASE /\ DOMAIN MailsAt(key) = DOMAIN batches[key]
           /\ \A i \in DOMAIN batches[key] : MailsAt(key)[i] = Individual(batches[key][i])
  BY <1>1, <1>3, IndividualMailable
<1> QED
  BY <1>2, <1>3, MailsAtIs

LEMMA SendAllGood ==
    ASSUME NEW t \in Nat, NEW p \in Good(t), NEW n \in Nat, NEW mails,
           DOMAIN mails = 1..n, \A i \in 1..n : mails[i] \in Mailable
    PROVE  SendAll(p, mails, t) \in Good(t)
<1> DEFINE S == Good(t)
           P == [k \in 0..n |-> Good(t)]
<1>1. \A q \in S : \A i \in 1..n : Send(q, mails[i], t) \in S
  BY SendGood
<1> HIDE DEF S
<1>2. \A k \in 0..n : P[k] = S
  BY DEF S
<1> HIDE DEF P
<1>3. p \in S /\ p \in P[0]
  BY <1>2 DEF S
<1>4. \A i \in 1..n : \A q \in P[i-1] : Send(q, mails[i], t) \in P[i]
  <2>1. \A i \in 1..n : i \in 0..n /\ i-1 \in 0..n
    OBVIOUS
  <2> QED
    BY <1>1, <1>2, <2>1
<1>5. SendAll(p, mails, t) \in P[n]
  BY <1>1, <1>3, <1>4, SendAllStays
<1> QED
  BY <1>2, <1>5 DEF S

LEMMA SendBatchesGood ==
    ASSUME batches \in [Keys -> Seq(Alert)], NEW t \in Nat, NEW p \in Good(t),
           NEW n \in Nat, NEW keys, DOMAIN keys = 1..n, \A i \in 1..n : keys[i] \in Keys
    PROVE  SendBatches(p, keys, t) \in Good(t)
<1> DEFINE S == Good(t)
           P == [k \in 0..n |-> Good(t)]
<1>1. \A q \in S : \A i \in 1..n : SendAll(q, MailsAt(keys[i]), t) \in S
  BY SendAllGood, MailsAtMailable
<1> HIDE DEF S
<1>2. \A k \in 0..n : P[k] = S
  BY DEF S
<1> HIDE DEF P
<1>3. p \in S /\ p \in P[0]
  BY <1>2 DEF S
<1>4. \A i \in 1..n : \A q \in P[i-1] : SendAll(q, MailsAt(keys[i]), t) \in P[i]
  <2>1. \A i \in 1..n : i \in 0..n /\ i-1 \in 0..n
    OBVIOUS
  <2> QED
    BY <1>1, <1>2, <2>1
<1>5. SendBatches(p, keys, t) \in P[n]
  BY <1>1, <1>3, <1>4, SendBatchesStays
<1> QED
  BY <1>2, <1>5 DEF S

\* The batches that are mailed one by one.
Alone(t, force) == IF Global THEN Pending \ Downs ELSE Going(t, force)

\* Finitely many batches wait, so that an order of them is a sequence of them
\* all, each once.
LEMMA OrderFacts ==
    ASSUME IsFiniteSet(Pending), NEW t, NEW force, NEW keys \in Orders(t, force)
    PROVE  \E n \in Nat : /\ DOMAIN keys = 1..n
                          /\ \A i \in 1..n : keys[i] \in Alone(t, force)
                          /\ \A i, j \in 1..n : i # j => keys[i] # keys[j]
                          /\ \A key \in Alone(t, force) : \E i \in 1..n : keys[i] = key
<1> DEFINE K == Alone(t, force)
           n == Cardinality(K)
<1>1. K \in SUBSET Pending
  BY DEF Alone, Going
<1>2. keys \in SetToSeqs(K)
  BY DEF Orders, Alone
<1> HIDE DEF K
<1>3. IsFiniteSet(K) /\ n \in Nat
  BY <1>1, FS_Subset, FS_CardinalityType
<1>4. keys \in [1..n -> K] /\ \A i, j \in 1..n : i # j => keys[i] # keys[j]
  BY <1>2 DEF SetToSeqs
<1>5. keys \in Injection(1..n, K)
  BY <1>4, Fun_IsInj
<1>6. Cardinality(1..n) = n
  BY <1>3, FS_Interval
<1>7. keys \in Surjection(1..n, K)
  BY <1>3, <1>5, <1>6, FS_Injection
<1>8. \A key \in K : \E i \in 1..n : keys[i] = key
  BY <1>7 DEF Surjection
<1> QED
  BY <1>3, <1>4, <1>8 DEF K

LEMMA MailAllGood ==
    ASSUME batches \in [Keys -> Seq(Alert)], IsFiniteSet(Pending), NEW t \in Nat,
           post \in Good(t), NEW force, NEW keys \in Orders(t, force)
    PROVE  MailAll(keys, t) \in Good(t)
<1> DEFINE first == IF Global THEN Send(post, GlobalDigest, t) ELSE post
           parked == UNION {ToSet(batches[key]) : key \in Downs}
<1>1. parked \in SUBSET Alert
  <2>1. \A key \in Downs : key \in Keys
    BY DEF Downs, Pending
  <2>2. \A key \in Downs : ToSet(batches[key]) \in SUBSET Alert
    BY <2>1, BatchFacts
  <2> QED
    BY <2>2
<1>2. GlobalDigest \in Mailable
  BY <1>1, DigestMailable DEF GlobalDigest
<1>3. first \in Good(t)
  BY <1>2, SendGood
<1>4. MailAll(keys, t) = SendBatches(first, keys, t)
  BY DEF MailAll
<1> HIDE DEF first
<1>5. PICK n \in Nat : DOMAIN keys = 1..n /\ \A i \in 1..n : keys[i] \in Alone(t, force)
  BY OrderFacts
<1>6. \A i \in 1..n : keys[i] \in Keys
  BY <1>5 DEF Alone, Going, Downs, Pending
<1> QED
  BY <1>3, <1>4, <1>5, <1>6, SendBatchesGood

-----------------------------------------------------------------------------
(* The inductive invariant.                                                *)

\* At time t, the alerts of batch b are of the past, the first is the oldest,
\* and it has not waited MaxHold.
Waits(b, t) ==
    \A i \in DOMAIN b : b[1].at <= b[i].at /\ b[i].at <= t /\ t - b[1].at < MaxHold

\* At time t, batch b holds no alert of each of n devices but since just now.
Fresh(b, n, t) == Len(b) >= n /\ b # <<>> => b[Len(b)].at = t

InTime == \A key \in Keys : Waits(batches[key], now)

SitesFresh == \A g \in Groups : Fresh(batches[<<g, "down">>], GroupSize(g), now)

BufferInv ==
    /\ TypeOK
    /\ IsFiniteSet(Pending)
    /\ InTime
    /\ SitesFresh
    /\ post \in Good(now)

LEMMA GoodLater ==
    ASSUME NEW t \in Nat, NEW p \in Good(t)
    PROVE  p \in Good(t + 1)
<1>1. p \in Post /\ NoneLater(p, t)
  BY DEF Good
<1>2. NoneLater(p, t + 1)
  <2> SUFFICES ASSUME NEW i \in DOMAIN p.outbox  PROVE p.outbox[i].at <= t + 1
    BY DEF NoneLater
  <2>1. p.outbox[i].at \in Nat /\ p.outbox[i].at <= t
    BY <1>1, PostRows DEF NoneLater
  <2> QED
    BY <2>1
<1>3. Withheld(p, t + 1)
  <2>1. \A w \in p.withheld : w.at \in Nat /\ w.at <= t
    BY DEF Good, Post, Withheld
  <2> QED
    BY <2>1 DEF Withheld
<1> QED
  BY <1>2, <1>3 DEF Good

LEMMA GoodForgetsThrottle ==
    ASSUME NEW t, NEW p \in Good(t)
    PROVE  [p EXCEPT !.throttledAt = Never] \in Good(t)
<1> DEFINE q == [p EXCEPT !.throttledAt = Never]
<1>1. /\ p \in Post /\ NoneLater(p, t) /\ Withheld(p, t) /\ InBudget(p)
      /\ Explained(p)
  BY DEF Good
<1>2. /\ q \in Post /\ q.outbox = p.outbox /\ q.withheld = p.withheld
      /\ q.unsaid = p.unsaid /\ q.throttledAt = Never
  BY <1>1 DEF Post, Never
<1> HIDE DEF q
<1>3. NoneLater(q, t) /\ Withheld(q, t) /\ NoticeStands(q)
  BY <1>1, <1>2 DEF NoneLater, Withheld, NoticeStands
<1>4. InBudget(q)
  BY <1>1, <1>2 DEF InBudget, Spent
<1>5. Explained(q)
  BY <1>1, <1>2 DEF Explained, Answered
<1>6. q \in Good(t)
  BY <1>2, <1>3, <1>4, <1>5 DEF Good
<1> QED
  BY <1>6 DEF q

\* The database turns.
LEMMA TurnPost ==
    ASSUME NEW t, NEW p \in Good(t), NEW q, q = [p EXCEPT !.writable = ~@]
    PROVE  /\ q \in Good(t)
           /\ q.outbox = p.outbox /\ q.withheld = p.withheld /\ q.dropped = p.dropped
<1>1. /\ p \in Post /\ NoneLater(p, t) /\ Withheld(p, t) /\ InBudget(p)
      /\ NoticeStands(p) /\ Explained(p)
  BY DEF Good
<1>2. /\ q \in Post /\ q.outbox = p.outbox /\ q.withheld = p.withheld
      /\ q.unsaid = p.unsaid /\ q.throttledAt = p.throttledAt /\ q.dropped = p.dropped
  BY <1>1 DEF Post
<1>3. NoneLater(q, t) /\ Withheld(q, t)
  BY <1>1, <1>2 DEF NoneLater, Withheld
<1>4. InBudget(q)
  BY <1>1, <1>2 DEF InBudget, Spent
<1>5. \A w : Answered(q, w) <=> Answered(p, w)
  BY <1>2 DEF Answered
<1>6. Explained(q) /\ NoticeStands(q)
  BY <1>1, <1>2, <1>5 DEF Explained, NoticeStands
<1>7. q \in Good(t)
  BY <1>2, <1>3, <1>4, <1>6 DEF Good
<1> QED
  BY <1>2, <1>7

LEMMA InitBuffer == Init => BufferInv
<1> SUFFICES ASSUME Init  PROVE BufferInv
  OBVIOUS
<1>1. /\ now = 1 /\ window \in Windows /\ outages = [d \in Devices |-> 0]
      /\ down = {} /\ quiet = {} /\ edits = 0
      /\ batches = [key \in Keys |-> <<>>]
      /\ post = [ outbox |-> <<>>, throttledAt |-> Never, writable |-> TRUE,
                  withheld |-> {}, dropped |-> {}, unsaid |-> {} ]
  BY DEF Init, Empty
<1>2. post \in Post /\ DOMAIN post.outbox = {} /\ post.withheld = {}
      /\ post.throttledAt = Never
  BY <1>1 DEF Post, Never
<1>3. TypeOK
  <2>1. batches \in [Keys -> Seq(Alert)]
    BY <1>1
  <2> QED
    BY <1>1, <1>2, <2>1 DEF TypeOK, Never
<1>4. Pending = {}
  BY <1>1 DEF Pending
<1>5. InTime /\ SitesFresh
  <2>1. \A g \in Groups : <<g, "down">> \in Keys
    BY DEF Keys, Kinds
  <2> QED
    BY <1>1, <2>1 DEF InTime, SitesFresh, Waits, Fresh
<1>6. post \in Good(now)
  <2>1. InBudget(post)
    <3>1. \A u : Spent(post, u) = {}
      BY <1>2 DEF Spent
    <3> QED
      BY <3>1, FS_EmptySet, Limits DEF InBudget
  <2> QED
    BY <1>2, <2>1 DEF Good, NoneLater, Withheld, NoticeStands, Explained
<1> QED
  BY <1>3, <1>4, <1>5, <1>6, FS_EmptySet DEF BufferInv

\* The alert that device d's next transition announces, and its batch.
NextKind(d) == IF d \in down THEN "recovery" ELSE "down"
NextNr(d)   == IF d \in down THEN outages[d] ELSE outages[d] + 1

NextAlert(d) == [kind |-> NextKind(d), device |-> d, outage |-> NextNr(d), at |-> now]
NextKey(d)   == <<GroupOf[d], NextKind(d)>>

LEMMA QueueIs ==
    ASSUME NEW d \in Devices, Queue(d)
    PROVE  /\ outages' = [outages EXCEPT ![d] = NextNr(d)]
           /\ down' = IF NextKind(d) = "down" THEN down \cup {d} ELSE down \ {d}
           /\ \/ /\ batches' = [batches EXCEPT ![NextKey(d)] = Append(@, NextAlert(d))]
                 /\ post' = post
              \/ /\ post' = Send(post, Individual(NextAlert(d)), now)
                 /\ batches' = batches
           /\ now' = now /\ window' = window /\ edits' = edits /\ quiet' = quiet
BY DEF Queue, NextKind, NextNr, NextAlert, NextKey

LEMMA NextAlertType ==
    ASSUME TypeOK, NEW d \in Devices
    PROVE  /\ NextAlert(d) \in Alert /\ NextKey(d) \in Keys /\ NextNr(d) \in Nat
           /\ NextKind(d) \in Kinds
           /\ NextAlert(d).at = now /\ NextAlert(d).device = d
           /\ NextAlert(d).kind = NextKind(d) /\ NextAlert(d).outage = NextNr(d)
           /\ now \in Nat
<1>1. now \in Nat /\ outages[d] \in Nat /\ GroupOf[d] \in Groups \cup {Ungrouped}
  BY GroupAssumption DEF TypeOK
<1>2. NextNr(d) \in Nat /\ NextKind(d) \in Kinds
  BY <1>1 DEF NextNr, NextKind, Kinds
<1> QED
  BY <1>1, <1>2 DEF NextAlert, NextKey, Alert, Keys

\* Parking an alert: the batch of its key has one more, at its end.
LEMMA Parked ==
    ASSUME TypeOK, NEW d \in Devices,
           batches' = [batches EXCEPT ![NextKey(d)] = Append(@, NextAlert(d))]
    PROVE  /\ batches' \in [Keys -> Seq(Alert)]
           /\ batches'[NextKey(d)] = Append(batches[NextKey(d)], NextAlert(d))
           /\ \A key \in Keys : key # NextKey(d) => batches'[key] = batches[key]
           /\ Pending' \subseteq Pending \cup {NextKey(d)}
<1> DEFINE a == NextAlert(d)
           k == NextKey(d)
<1>1. a \in Alert /\ k \in Keys
  BY NextAlertType
<1>2. batches \in [Keys -> Seq(Alert)]
  BY DEF TypeOK
<1> HIDE DEF a, k
<1>3. Append(batches[k], a) \in Seq(Alert)
  BY <1>1, <1>2
<1>4. batches' = [batches EXCEPT ![k] = Append(batches[k], a)]
  BY DEF a, k
<1>5. /\ batches' \in [Keys -> Seq(Alert)]
      /\ batches'[k] = Append(batches[k], a)
      /\ \A key \in Keys : key # k => batches'[key] = batches[key]
  BY <1>1, <1>2, <1>3, <1>4
<1>6. Pending' \subseteq Pending \cup {k}
  BY <1>5 DEF Pending
<1> QED
  BY <1>5, <1>6 DEF a, k

LEMMA AppendWaits ==
    ASSUME NEW b \in Seq(Alert), NEW a \in Alert, NEW t \in Nat, a.at = t, Waits(b, t)
    PROVE  Waits(Append(b, a), t)
<1> DEFINE c == Append(b, a)
           l == Len(b) + 1
<1>1. /\ DOMAIN b = 1..Len(b) /\ Len(b) \in Nat /\ DOMAIN c = 1..l
      /\ \A i \in DOMAIN b : c[i] = b[i]
      /\ c[l] = a
  BY Appended
<1> HIDE DEF c, l
<1>2. CASE b = <<>>
  <2>1. l = 1
    BY <1>2 DEF l
  <2>2. \A i \in DOMAIN c : i = 1
    BY <1>1, <2>1
  <2> QED
    BY <1>1, <2>1, <2>2, Limits DEF Waits, c
<1>3. CASE b # <<>>
  <2>1. 1 \in DOMAIN b
    BY <1>1, <1>3
  <2>2. c[1] = b[1] /\ b[1].at <= t /\ t - b[1].at < MaxHold
    BY <1>1, <2>1 DEF Waits
  <2>3. ASSUME NEW i \in DOMAIN c
        PROVE  c[1].at <= c[i].at /\ c[i].at <= t
    <3>1. i \in DOMAIN b \/ i = l
      BY <1>1 DEF l
    <3>2. CASE i \in DOMAIN b
      BY <1>1, <2>2, <3>2 DEF Waits
    <3>3. CASE i = l
      BY <1>1, <2>2, <3>3
    <3> QED
      BY <3>1, <3>2, <3>3
  <2> QED
    BY <2>2, <2>3 DEF Waits, c
<1> QED
  BY <1>2, <1>3

LEMMA QueueBuffer ==
    ASSUME BufferInv, NEW d \in Devices, Queue(d)
    PROVE  BufferInv'
<1> DEFINE a == NextAlert(d)
           k == NextKey(d)
<1>1. TypeOK /\ IsFiniteSet(Pending) /\ InTime /\ SitesFresh /\ post \in Good(now)
  BY DEF BufferInv
<1>2. /\ outages' = [outages EXCEPT ![d] = NextNr(d)]
      /\ down' = IF NextKind(d) = "down" THEN down \cup {d} ELSE down \ {d}
      /\ now' = now /\ window' = window /\ edits' = edits /\ quiet' = quiet
  BY QueueIs
<1>3. /\ a \in Alert /\ k \in Keys /\ NextNr(d) \in Nat /\ a.at = now /\ now \in Nat
  BY <1>1, NextAlertType
<1>4. \/ batches' = [batches EXCEPT ![k] = Append(@, a)] /\ post' = post
      \/ post' = Send(post, Individual(a), now) /\ batches' = batches
  BY QueueIs
<1>5. /\ now \in Nat /\ window \in Windows /\ outages \in [Devices -> Nat]
      /\ down \subseteq Devices /\ edits \in Nat
      /\ batches \in [Keys -> Seq(Alert)] /\ post \in Post
      /\ quiet \subseteq Devices \X Nat
  BY <1>1 DEF TypeOK
<1>6. /\ now' \in Nat /\ window' \in Windows /\ outages' \in [Devices -> Nat]
      /\ down' \subseteq Devices /\ edits' \in Nat
      /\ quiet' \subseteq Devices \X Nat
  <2> HIDE DEF a, k
  <2>1. outages' \in [Devices -> Nat]
    BY <1>2, <1>3, <1>5
  <2> QED
    BY <1>2, <1>5, <2>1
<1> HIDE DEF a, k
<1>7. CASE batches' = [batches EXCEPT ![k] = Append(@, a)] /\ post' = post
  <2>1. /\ batches' \in [Keys -> Seq(Alert)]
        /\ batches'[k] = Append(batches[k], a)
        /\ \A key \in Keys : key # k => batches'[key] = batches[key]
        /\ Pending' \subseteq Pending \cup {k}
    BY <1>1, <1>7, Parked DEF a, k
  <2>2. TypeOK'
    BY <1>5, <1>6, <1>7, <2>1 DEF TypeOK
  <2>3. IsFiniteSet(Pending')
    <3>1. IsFiniteSet(Pending \cup {k})
      BY <1>1, FS_AddElement
    <3> QED
      BY <2>1, <3>1, FS_Subset
  <2>4. ASSUME NEW key \in Keys  PROVE Waits(batches'[key], now)
    <3>1. Waits(batches[key], now) /\ batches[key] \in Seq(Alert)
      BY <1>1, <1>5 DEF InTime
    <3>2. CASE key = k
      BY <1>3, <2>1, <3>1, <3>2, AppendWaits
    <3>3. CASE key # k
      BY <2>1, <3>1, <3>3
    <3> QED
      BY <3>2, <3>3
  <2>5. ASSUME NEW g \in Groups  PROVE Fresh(batches'[<<g, "down">>], GroupSize(g), now)
    <3>1. Fresh(batches[<<g, "down">>], GroupSize(g), now) /\ <<g, "down">> \in Keys
      BY <1>1 DEF SitesFresh, Keys, Kinds
    <3>2. CASE <<g, "down">> = k
      <4>1. /\ Len(batches'[k]) = Len(batches[k]) + 1
            /\ batches'[k][Len(batches'[k])] = a
        BY <1>3, <1>5, <2>1
      <4> QED
        BY <1>3, <3>2, <4>1 DEF Fresh
    <3>3. CASE <<g, "down">> # k
      BY <2>1, <3>1, <3>3
    <3> QED
      BY <3>2, <3>3
  <2>6. InTime' /\ SitesFresh'
    BY <1>2, <2>4, <2>5 DEF InTime, SitesFresh, GroupSize
  <2> QED
    BY <1>1, <1>2, <1>7, <2>2, <2>3, <2>6 DEF BufferInv
<1>8. CASE post' = Send(post, Individual(a), now) /\ batches' = batches
  <2>1. post' \in Good(now)
    BY <1>1, <1>3, <1>8, IndividualMailable, SendGood
  <2>2. TypeOK'
    BY <1>5, <1>6, <1>8, <2>1 DEF TypeOK, Good
  <2>3. IsFiniteSet(Pending') /\ InTime' /\ SitesFresh'
    BY <1>1, <1>2, <1>8 DEF Pending, InTime, SitesFresh, GroupSize
  <2> QED
    BY <1>2, <2>1, <2>2, <2>3 DEF BufferInv
<1> QED
  BY <1>4, <1>7, <1>8

\* A batch is a sequence, and its alerts carry instants.
LEMMA BatchTimes ==
    ASSUME NEW b \in Seq(Alert)
    PROVE  /\ DOMAIN b = 1..Len(b) /\ Len(b) \in Nat
           /\ \A i \in DOMAIN b : b[i].at \in Nat
<1>1. \A i \in DOMAIN b : b[i] \in Alert
  OBVIOUS
<1>2. \A i \in DOMAIN b : b[i].at \in Nat
  BY <1>1 DEF Alert
<1> QED
  BY <1>2

\* A flush leaves batches that may still wait at the instant it is for.
LEMMA FlushedWaits ==
    ASSUME BufferInv, NEW t \in Nat, t = now \/ t = now + 1, NEW force, NEW key \in Keys,
           key \notin Going(t, force)
    PROVE  /\ Waits(batches[key], t)
           /\ key[1] # Ungrouped => Fresh(batches[key], GroupSize(key[1]), t)
<1>1. /\ now \in Nat /\ batches[key] \in Seq(Alert) /\ Waits(batches[key], now)
  BY DEF BufferInv, TypeOK, InTime
<1>2. /\ DOMAIN batches[key] = 1..Len(batches[key]) /\ Len(batches[key]) \in Nat
      /\ \A i \in DOMAIN batches[key] : batches[key][i].at \in Nat
  BY <1>1, BatchTimes
<1>3. CASE batches[key] = <<>>
  BY <1>3 DEF Waits, Fresh
<1>4. CASE batches[key] # <<>>
  <2>1. ~ Complete(key) /\ ~ Due(key, t)
    BY <1>4 DEF Going, Pending
  <2>2. 1 \in DOMAIN batches[key]
    BY <1>2, <1>4
  <2>3. t - batches[key][1].at < MaxHold
    <3>1. ~ (t - batches[key][1].at >= MaxHold)
      BY <2>1 DEF Due
    <3>2. batches[key][1].at \in Nat
      BY <1>2, <2>2
    <3> QED
      BY <3>1, <3>2, Limits
  <2>4. ASSUME NEW i \in DOMAIN batches[key]
        PROVE  batches[key][1].at <= batches[key][i].at /\ batches[key][i].at <= t
    <3>1. batches[key][1].at <= batches[key][i].at /\ batches[key][i].at <= now
      BY <1>1 DEF Waits
    <3>2. batches[key][i].at \in Nat
      BY <1>2
    <3>3. now <= t
      BY <1>1
    <3> QED
      BY <1>1, <3>1, <3>2, <3>3
  <2>5. key[1] # Ungrouped => ~ (Len(batches[key]) >= GroupSize(key[1]))
    BY <2>1 DEF Complete
  <2> QED
    BY <2>3, <2>4, <2>5 DEF Waits, Fresh
<1> QED
  BY <1>3, <1>4

\* After a flush for time t, every batch waits at t.
LEMMA FlushBuffer ==
    ASSUME BufferInv, NEW t \in Nat, t = now \/ t = now + 1, NEW force,
           batches' = [key \in Keys |-> IF key \in Going(t, force) THEN <<>> ELSE batches[key]]
    PROVE  /\ batches' \in [Keys -> Seq(Alert)]
           /\ IsFiniteSet(Pending')
           /\ \A key \in Keys : Waits(batches'[key], t)
           /\ \A g \in Groups : Fresh(batches'[<<g, "down">>], GroupSize(g), t)
<1>1. batches \in [Keys -> Seq(Alert)] /\ IsFiniteSet(Pending)
  BY DEF BufferInv, TypeOK
<1>2. \A key \in Keys : batches'[key] = IF key \in Going(t, force) THEN <<>> ELSE batches[key]
  OBVIOUS
<1>3. batches' \in [Keys -> Seq(Alert)]
  <2>1. \A key \in Keys :
          (IF key \in Going(t, force) THEN <<>> ELSE batches[key]) \in Seq(Alert)
    BY <1>1
  <2> QED
    BY <2>1
<1>4. IsFiniteSet(Pending')
  <2>1. Pending' \subseteq Pending
    BY <1>2 DEF Pending
  <2> QED
    BY <1>1, <2>1, FS_Subset
<1>5. \A n : Waits(<<>>, t) /\ Fresh(<<>>, n, t)
  BY DEF Waits, Fresh
<1>6. \A key \in Keys : Waits(batches'[key], t)
  <2> SUFFICES ASSUME NEW key \in Keys  PROVE Waits(batches'[key], t)
    OBVIOUS
  <2>1. key \notin Going(t, force) => Waits(batches[key], t)
    BY FlushedWaits
  <2> QED
    BY <1>2, <1>5, <2>1
<1>7. \A g \in Groups : Fresh(batches'[<<g, "down">>], GroupSize(g), t)
  <2> SUFFICES ASSUME NEW g \in Groups
               PROVE  Fresh(batches'[<<g, "down">>], GroupSize(g), t)
    OBVIOUS
  <2> DEFINE key == <<g, "down">>
  <2>1. key \in Keys /\ key[1] = g /\ g # Ungrouped
    BY GroupAssumption DEF Keys, Kinds
  <2> HIDE DEF key
  <2>2. key \notin Going(t, force) => Fresh(batches[key], GroupSize(g), t)
    BY <2>1, FlushedWaits
  <2>3. Fresh(batches'[key], GroupSize(g), t)
    BY <1>2, <1>5, <2>1, <2>2
  <2> QED
    BY <2>3 DEF key
<1> QED
  BY <1>3, <1>4, <1>6, <1>7

LEMMA TickBuffer ==
    ASSUME BufferInv, Tick
    PROVE  BufferInv'
<1> DEFINE t == now + 1
<1>1. /\ now' = t /\ Flush(t, FALSE, post')
      /\ window' = window /\ outages' = outages /\ down' = down
      /\ quiet' = quiet
      /\ edits' = edits
  BY DEF Tick
<1>2. TypeOK /\ IsFiniteSet(Pending) /\ post \in Good(now)
  BY DEF BufferInv
<1>3. now \in Nat /\ t \in Nat /\ batches \in [Keys -> Seq(Alert)]
  BY <1>2 DEF TypeOK
<1>4. post \in Good(t)
  BY <1>2, <1>3, GoodLater
<1> HIDE DEF t
<1>5. /\ \E keys \in Orders(t, FALSE) : post' = MailAll(keys, t)
      /\ batches' = [key \in Keys |-> IF key \in Going(t, FALSE) THEN <<>> ELSE batches[key]]
  BY <1>1 DEF Flush
<1>6. post' \in Good(t)
  BY <1>2, <1>3, <1>4, <1>5, MailAllGood
<1>7. /\ batches' \in [Keys -> Seq(Alert)]
      /\ IsFiniteSet(Pending')
      /\ \A key \in Keys : Waits(batches'[key], t)
      /\ \A g \in Groups : Fresh(batches'[<<g, "down">>], GroupSize(g), t)
  BY <1>3, <1>5, FlushBuffer DEF t
<1>8. TypeOK'
  <2>1. post' \in Post
    BY <1>6 DEF Good
  <2> QED
    BY <1>1, <1>2, <1>3, <1>7, <2>1 DEF TypeOK
<1>9. InTime' /\ SitesFresh'
  BY <1>1, <1>7 DEF InTime, SitesFresh, GroupSize
<1> QED
  BY <1>1, <1>6, <1>7, <1>8, <1>9 DEF BufferInv

LEMMA RestartBuffer ==
    ASSUME BufferInv, Restart
    PROVE  BufferInv'
<1>1. /\ now' = now /\ window' = window /\ outages' = outages /\ down' = down
      /\ quiet' = quiet /\ edits' = edits + 1 /\ batches' = [key \in Keys |-> <<>>]
  BY DEF Restart, Empty
<1>2. PICK keys \in Orders(now, TRUE) :
        post' = [MailAll(keys, now) EXCEPT !.throttledAt = Never]
  BY DEF Restart
<1>3. TypeOK /\ IsFiniteSet(Pending) /\ post \in Good(now)
  BY DEF BufferInv
<1>4. now \in Nat /\ batches \in [Keys -> Seq(Alert)] /\ edits \in Nat
  BY <1>3 DEF TypeOK
<1>5. post' \in Good(now)
  <2>1. MailAll(keys, now) \in Good(now)
    BY <1>3, <1>4, MailAllGood
  <2> QED
    BY <1>2, <2>1, GoodForgetsThrottle
<1>6. TypeOK'
  <2>1. batches' \in [Keys -> Seq(Alert)]
    BY <1>1
  <2>2. post' \in Post
    BY <1>5 DEF Good
  <2> QED
    BY <1>1, <1>3, <1>4, <2>1, <2>2 DEF TypeOK
<1>7. Pending' = {}
  BY <1>1 DEF Pending
<1>8. InTime' /\ SitesFresh'
  <2>1. \A g \in Groups : <<g, "down">> \in Keys
    BY DEF Keys, Kinds
  <2> QED
    BY <1>1, <2>1 DEF InTime, SitesFresh, Waits, Fresh
<1> QED
  BY <1>1, <1>5, <1>6, <1>7, <1>8, FS_EmptySet DEF BufferInv

\* What depends on these variables only.
LEMMA IdleBuffer ==
    ASSUME BufferInv, TypeOK', UNCHANGED <<now, batches, post>>
    PROVE  BufferInv'
BY DEF BufferInv, InTime, SitesFresh, GroupSize, Pending

LEMMA NextBuffer == BufferInv /\ [Next]_vars => BufferInv'
<1> SUFFICES ASSUME BufferInv, [Next]_vars  PROVE BufferInv'
  OBVIOUS
<1>1. TypeOK
  BY DEF BufferInv
<1>2. ASSUME NEW d \in Devices, Queue(d)  PROVE BufferInv'
  BY <1>2, QueueBuffer
<1>3. CASE Tick
  BY <1>3, TickBuffer
<1>4. ASSUME NEW w \in Windows, SetWindow(w)  PROVE BufferInv'
  <2>1. TypeOK'
    BY <1>1, <1>4 DEF TypeOK, SetWindow
  <2>2. UNCHANGED <<now, batches, post>>
    BY <1>4 DEF SetWindow
  <2> QED
    BY <2>1, <2>2, IdleBuffer
<1>5. CASE Restart
  BY <1>5, RestartBuffer
<1>6. CASE UNCHANGED vars
  <2>1. TypeOK'
    BY <1>1, <1>6 DEF TypeOK, vars
  <2>2. UNCHANGED <<now, batches, post>>
    BY <1>6 DEF vars
  <2> QED
    BY <2>1, <2>2, IdleBuffer
<1>7. ASSUME NEW d \in Devices, RecoverQuietly(d)  PROVE BufferInv'
  <2>1. /\ down' = down \ {d}
        /\ quiet' = quiet \cup {<<d, outages[d]>>}
        /\ UNCHANGED <<now, window, outages, batches, post, edits>>
    BY <1>7 DEF RecoverQuietly
  <2>2. /\ now \in Nat /\ outages[d] \in Nat
        /\ down \subseteq Devices /\ quiet \subseteq Devices \X Nat
    BY <1>1 DEF TypeOK
  <2>3. /\ down' \subseteq Devices
        /\ quiet' \subseteq Devices \X Nat
    BY <2>1, <2>2
  <2>4. TypeOK'
    BY <1>1, <2>1, <2>3 DEF TypeOK
  <2> QED
    BY <2>1, <2>4, IdleBuffer
<1>8. ASSUME Turn  PROVE BufferInv'
  <2>1. /\ post' = [post EXCEPT !.writable = ~@] /\ edits' = edits + 1
        /\ UNCHANGED <<now, window, outages, down, quiet, batches>>
    BY <1>8 DEF Turn
  <2>2. post' \in Good(now)
    BY <2>1, TurnPost DEF BufferInv
  <2>3. TypeOK'
    <3>1. post' \in Post
      BY <2>2 DEF Good
    <3> QED
      BY <1>1, <2>1, <3>1 DEF TypeOK
  <2> QED
    BY <2>1, <2>2, <2>3 DEF BufferInv, InTime, SitesFresh, GroupSize, Pending
<1> QED
  BY <1>2, <1>3, <1>4, <1>5, <1>6, <1>7, <1>8 DEF Next

\* The invariant holds of every reachable state.
LEMMA BufferAlways == Spec => []BufferInv
BY InitBuffer, NextBuffer, PTL DEF Spec

-----------------------------------------------------------------------------
(* The theorems.                                                           *)

\* Every variable keeps its type: no mail is queued for nobody, digests and
\* notices included.
THEOREM TypeCorrect == Spec => []TypeOK
<1>1. BufferInv => TypeOK
  BY DEF BufferInv
<1> QED
  BY <1>1, BufferAlways, PTL

\* No alert is parked for MaxHold, whatever arrives after it and however the
\* window is edited (due).
THEOREM HeldBriefly == Spec => []HeldAtMostMaxHold
<1>1. ASSUME BufferInv  PROVE HeldAtMostMaxHold
  <2> SUFFICES ASSUME NEW key \in Keys, NEW i \in DOMAIN batches[key]
               PROVE  now - batches[key][i].at < MaxHold
    BY DEF HeldAtMostMaxHold, Pending
  <2>1. now \in Nat /\ batches[key] \in Seq(Alert) /\ Waits(batches[key], now)
    BY <1>1 DEF BufferInv, TypeOK, InTime
  <2>2. 1 \in DOMAIN batches[key]
    BY <2>1
  <2>3. batches[key][1].at \in Nat /\ batches[key][i].at \in Nat
    BY <2>1, <2>2, BatchTimes
  <2>4. batches[key][1].at <= batches[key][i].at /\ now - batches[key][1].at < MaxHold
    BY <2>1 DEF Waits
  <2> QED
    BY <2>1, <2>3, <2>4, Limits
<1> QED
  BY <1>1, BufferAlways, PTL

\* The alerts of a batch come of no more devices than it is long.
LEMMA DevicesBound ==
    ASSUME NEW b \in Seq(Alert)
    PROVE  LET devices == {a.device : a \in ToSet(b)}
           IN  IsFiniteSet(devices) /\ Cardinality(devices) <= Len(b)
<1> DEFINE D == {a.device : a \in ToSet(b)}
           f == [i \in 1..Len(b) |-> b[i].device]
<1>1. Len(b) \in Nat /\ DOMAIN b = 1..Len(b)
  OBVIOUS
<1>2. f \in Surjection(1..Len(b), D)
  <2>1. ASSUME NEW i \in 1..Len(b)  PROVE b[i].device \in D
    BY <1>1 DEF ToSet
  <2>2. ASSUME NEW x \in D  PROVE \E i \in 1..Len(b) : f[i] = x
    BY <1>1 DEF ToSet
  <2>3. f \in [1..Len(b) -> D]
    BY <2>1
  <2> HIDE DEF f, D
  <2> QED
    BY <2>2, <2>3 DEF Surjection
<1> HIDE DEF f, D
<1>3. IsFiniteSet(1..Len(b)) /\ Cardinality(1..Len(b)) = Len(b)
  <2>1. PICK n \in Nat : n = Len(b)
    BY <1>1
  <2>2. IsFiniteSet(1..n) /\ Cardinality(1..n) = IF 1 > n THEN 0 ELSE n - 1 + 1
    BY FS_Interval
  <2> QED
    BY <2>1, <2>2
<1>4. IsFiniteSet(D) /\ Cardinality(D) <= Cardinality(1..Len(b))
  BY <1>2, <1>3, FS_Surjection
<1> QED
  BY <1>3, <1>4 DEF D

\* A group that is down with every member is mailed at the next flush
\* (flushAlerts' complete).
THEOREM SiteOutageAtOnce == Spec => []SiteOutageGoesAtOnce
<1>1. ASSUME BufferInv  PROVE SiteOutageGoesAtOnce
  <2> SUFFICES ASSUME NEW d \in Devices, GroupOf[d] # Ungrouped,
                      {c \in Devices : GroupOf[c] = GroupOf[d]}
                        \subseteq {a.device : a \in ToSet(batches[<<GroupOf[d], "down">>])}
               PROVE  \E a \in ToSet(batches[<<GroupOf[d], "down">>]) : a.at = now
    BY DEF SiteOutageGoesAtOnce
  <2> DEFINE g == GroupOf[d]
             b == batches[<<g, "down">>]
             M == {c \in Devices : GroupOf[c] = g}
             D == {a.device : a \in ToSet(b)}
  <2>1. g \in Groups /\ <<g, "down">> \in Keys
    BY GroupAssumption DEF Keys, Kinds
  <2>2. b \in Seq(Alert) /\ Fresh(b, GroupSize(g), now)
    BY <1>1, <2>1 DEF BufferInv, TypeOK, SitesFresh
  <2>3. d \in M /\ M \subseteq D /\ GroupSize(g) = Cardinality(M)
    BY DEF GroupSize
  <2> HIDE DEF b
  <2>4. IsFiniteSet(D) /\ Cardinality(D) <= Len(b) /\ Len(b) \in Nat
    BY <2>2, DevicesBound
  <2>5. d \in D
    BY <2>3
  <2>6. DOMAIN b = 1..Len(b) /\ Len(b) \in DOMAIN b
    <3>1. PICK a \in ToSet(b) : TRUE
      BY <2>5
    <3>2. DOMAIN b # {}
      BY <3>1 DEF ToSet
    <3> QED
      BY <2>2, <2>4, <3>2
  <2> HIDE DEF D, M
  <2>7. Cardinality(M) <= Cardinality(D) /\ Cardinality(M) \in Nat /\ Cardinality(D) \in Nat
    <3>1. IsFiniteSet(M) /\ Cardinality(M) <= Cardinality(D)
      BY <2>3, <2>4, FS_Subset
    <3> QED
      BY <2>4, <3>1, FS_CardinalityType
  <2>8. Len(b) >= GroupSize(g) /\ b # <<>>
    BY <2>3, <2>4, <2>6, <2>7
  <2>9. b[Len(b)].at = now /\ b[Len(b)] \in ToSet(b)
    BY <2>2, <2>6, <2>8 DEF Fresh, ToSet
  <2> QED
    BY <2>9 DEF b
<1> QED
  BY <1>1, BufferAlways, PTL

\* The hourly cap holds of every stretch of an hour, across restarts
\* (allowMail counts the rows of the outbox).
THEOREM BudgetKept == Spec => []BudgetHolds
<1>1. ASSUME BufferInv  PROVE BudgetHolds
  <2> SUFFICES ASSUME MaxPerHour > 0, NEW u \in 1..now
               PROVE  Cardinality({i \in Rows \ Notices : post.outbox[i].at \in u..u+Hour})
                        <= MaxPerHour
    BY DEF BudgetHolds
  <2>1. now \in Nat /\ InBudget(post)
    BY <1>1 DEF BufferInv, TypeOK, Good
  <2>2. {i \in Rows \ Notices : post.outbox[i].at \in u..u+Hour} = Spent(post, u)
    BY DEF Rows, Notices, Spent
  <2>3. u \in Nat
    BY <2>1
  <2> QED
    BY <2>1, <2>2, <2>3 DEF InBudget
<1> QED
  BY <1>1, BufferAlways, PTL

\* Whatever the cap withholds, in the hour up to then the recipients of some mail
\* withheld were sent the notice at that instant, or its insert failed, although
\* a restart forgets when the last one was sent (allowMail).
THEOREM WithheldAnnounced == Spec => []FirstWithheldIsTold
<1>1. BufferInv => FirstWithheldIsTold
  BY DEF BufferInv, Good, Explained, Answered, FirstWithheldIsTold, Rows, Notices
<1> QED
  BY <1>1, BufferAlways, PTL

-----------------------------------------------------------------------------
(* Every alert is in one place.                                            *)

\* The names of the alerts: a kind, a device, and the number of its outage.
Names == [kind : Kinds, device : Devices, nr : Nat]

Of(a, x) == Is(a, x.kind, x.device, x.nr)

\* Where an alert may be: in a batch, in the outbox, withheld, or nobody's.
InBatch(b, x)      == {i \in DOMAIN b : Of(b[i], x)}
InOutbox(p, x)     == {i \in DOMAIN p.outbox : \E a \in p.outbox[i].about : Of(a, x)}
InWithheld(p, x)   == {w \in p.withheld : Of(w.alert, x)}
InDropped(p, x) == {a \in p.dropped : Of(a, x)}

Untold(p, x) ==
    InOutbox(p, x) = {} /\ InWithheld(p, x) = {} /\ InDropped(p, x) = {}

ToldOnce(p, x) ==
    \/ /\ InWithheld(p, x) = {} /\ InDropped(p, x) = {}
       /\ \E i : InOutbox(p, x) = {i}
    \/ /\ InOutbox(p, x) = {} /\ InDropped(p, x) = {}
       /\ \E w : InWithheld(p, x) = {w}
    \/ /\ InOutbox(p, x) = {} /\ InWithheld(p, x) = {}
       /\ \E a : InDropped(p, x) = {a}

\* The posts that have not told x, and those that have once.
Before(x) == {p \in Post : Untold(p, x)}
After(x)  == {p \in Post : ToldOnce(p, x)}

\* A mail tells x when exactly one of its alerts is x, and spares it when none is.
Tells(m, x)  == \E a \in m.about : Of(a, x) /\ \A c \in m.about : Of(c, x) => c = a
Spares(m, x) == \A a \in m.about : ~ Of(a, x)

\* A mail that spares x leaves x where it was.
LEMMA SendSpares ==
    ASSUME NEW p \in Post, NEW m \in Mailable, NEW t \in Nat, NEW x, Spares(m, x)
    PROVE  LET q == Send(p, m, t)
           IN  /\ q \in Post
               /\ InOutbox(q, x) = InOutbox(p, x)
               /\ InWithheld(q, x) = InWithheld(p, x)
               /\ InDropped(q, x) = InDropped(p, x)
<1> DEFINE q == Send(p, m, t)
           l == Len(p.outbox) + 1
           Grows(r) == /\ DOMAIN q.outbox = DOMAIN p.outbox \cup {l}
                       /\ \A i \in DOMAIN p.outbox : q.outbox[i] = p.outbox[i] /\ i # l
                       /\ q.outbox[l] = r
           sent == Row(m.kind, m.about, m.to, t)
           warned == Row("notice", {}, m.to, t)
<1>1. q \in Post
  BY SendType
<1>2. Drops(p, q, m) \/ Queues(p, q, m, t) \/ Withholds(p, q, m, t)
        \/ Warns(p, q, m, t) \/ Mutters(p, q, m, t)
  BY SendCases
<1> HIDE DEF q
<1>3. sent.about = m.about /\ warned.about = {}
  BY DEF Row
<1> HIDE DEF sent, warned
<1>4. \A r : q.outbox = Append(p.outbox, r) => Grows(r)
  BY OneMore
<1>5. q.outbox = p.outbox \/ Grows(sent) \/ Grows(warned)
  BY <1>2, <1>4 DEF Drops, Queues, Withholds, Warns, Mutters, sent, warned
<1>6. InOutbox(q, x) = InOutbox(p, x)
  BY <1>3, <1>5 DEF InOutbox, Spares
<1>7. InDropped(q, x) = InDropped(p, x)
  BY <1>2 DEF InDropped, Spares, Drops, Queues, Withholds, Warns, Mutters
<1>8. InWithheld(q, x) = InWithheld(p, x)
  <2>1. \A w \in Stamped(m, t) : ~ Of(w.alert, x)
    BY DEF Stamped, Spares
  <2>2. q.withheld = p.withheld \/ q.withheld = p.withheld \cup Stamped(m, t)
    BY <1>2 DEF Drops, Queues, Withholds, Warns, Mutters
  <2> QED
    BY <2>1, <2>2 DEF InWithheld
<1> QED
  BY <1>1, <1>6, <1>7, <1>8 DEF q

\* A mail that tells x puts it in one place.
LEMMA SendTells ==
    ASSUME NEW x, NEW p \in Before(x), NEW m \in Mailable, NEW t \in Nat, Tells(m, x)
    PROVE  Send(p, m, t) \in After(x)
<1> DEFINE q == Send(p, m, t)
           l == Len(p.outbox) + 1
           Grows(r) == /\ DOMAIN q.outbox = DOMAIN p.outbox \cup {l}
                       /\ \A i \in DOMAIN p.outbox : q.outbox[i] = p.outbox[i] /\ i # l
                       /\ q.outbox[l] = r
           sent == Row(m.kind, m.about, m.to, t)
           warned == Row("notice", {}, m.to, t)
<1>1. p \in Post /\ Untold(p, x)
  BY DEF Before
<1>2. q \in Post
  BY <1>1, SendType
<1>3. Drops(p, q, m) \/ Queues(p, q, m, t) \/ Withholds(p, q, m, t)
        \/ Warns(p, q, m, t) \/ Mutters(p, q, m, t)
  BY <1>1, SendCases
<1>4. PICK a \in m.about : Of(a, x) /\ \A c \in m.about : Of(c, x) => c = a
  BY DEF Tells
<1> HIDE DEF q
<1>5. sent.about = m.about /\ warned.about = {}
  BY DEF Row
<1> HIDE DEF sent, warned
<1>6. \A r : q.outbox = Append(p.outbox, r) => Grows(r)
  BY <1>1, OneMore
<1>7. CASE Drops(p, q, m)
  <2>1. InDropped(q, x) = {a}
    BY <1>1, <1>4, <1>7 DEF Drops, InDropped, Untold
  <2>2. InOutbox(q, x) = {} /\ InWithheld(q, x) = {}
    BY <1>1, <1>7 DEF Drops, InOutbox, InWithheld, Untold
  <2>3. ToldOnce(q, x)
    BY <2>1, <2>2 DEF ToldOnce
  <2> QED
    BY <1>2, <2>3 DEF After, q
<1>8. CASE Queues(p, q, m, t)
  <2>1. Grows(sent)
    BY <1>6, <1>8 DEF Queues, sent
  <2>2. InOutbox(q, x) = {l}
    BY <1>1, <1>4, <1>5, <2>1 DEF InOutbox, Untold
  <2>3. InDropped(q, x) = {} /\ InWithheld(q, x) = {}
    BY <1>1, <1>8 DEF Queues, InDropped, InWithheld, Untold
  <2>4. ToldOnce(q, x)
    BY <2>2, <2>3 DEF ToldOnce
  <2> QED
    BY <1>2, <2>4 DEF After, q
<1>9. CASE Withholds(p, q, m, t) \/ Warns(p, q, m, t) \/ Mutters(p, q, m, t)
  <2>1. q.outbox = p.outbox \/ Grows(warned)
    BY <1>6, <1>9 DEF Withholds, Warns, Mutters, warned
  <2>2. InOutbox(q, x) = {}
    BY <1>1, <1>5, <2>1 DEF InOutbox, Untold
  <2>3. InDropped(q, x) = {}
    BY <1>1, <1>9 DEF Withholds, Warns, Mutters, InDropped, Untold
  <2>4. q.withheld = p.withheld \cup Stamped(m, t)
    BY <1>9 DEF Withholds, Warns, Mutters
  <2>5. InWithheld(p, x) = {}
    BY <1>1 DEF Untold
  <2> DEFINE w == [alert |-> a, at |-> t]
  <2>6. w \in Stamped(m, t) /\ Of(w.alert, x)
        /\ \A v \in Stamped(m, t) : Of(v.alert, x) => v = w
    BY <1>4 DEF Stamped
  <2> HIDE DEF w
  <2>7. InWithheld(q, x) = {w}
    BY <2>4, <2>5, <2>6 DEF InWithheld
  <2>8. ToldOnce(q, x)
    BY <2>2, <2>3, <2>7 DEF ToldOnce
  <2> QED
    BY <1>2, <2>8 DEF After, q
<1> QED
  BY <1>3, <1>7, <1>8, <1>9

LEMMA SendKeeps ==
    ASSUME NEW x, NEW m \in Mailable, NEW t \in Nat, Spares(m, x), NEW p
    PROVE  /\ p \in Before(x) => Send(p, m, t) \in Before(x)
           /\ p \in After(x) => Send(p, m, t) \in After(x)
<1> DEFINE q == Send(p, m, t)
<1>1. p \in Post => /\ q \in Post
                    /\ InOutbox(q, x) = InOutbox(p, x)
                    /\ InWithheld(q, x) = InWithheld(p, x)
                    /\ InDropped(q, x) = InDropped(p, x)
  BY SendSpares
<1> HIDE DEF q
<1>2. p \in Before(x) => q \in Before(x)
  BY <1>1 DEF Before, Untold
<1>3. p \in After(x) => q \in After(x)
  BY <1>1 DEF After, ToldOnce
<1> QED
  BY <1>2, <1>3 DEF q

-----------------------------------------------------------------------------
(* Mails one after the other, and the batches they come from.              *)

LEMMA SendAllSpares ==
    ASSUME NEW x, NEW t \in Nat, NEW n \in Nat, NEW mails, DOMAIN mails = 1..n,
           \A i \in 1..n : mails[i] \in Mailable /\ Spares(mails[i], x), NEW p
    PROVE  /\ p \in Before(x) => SendAll(p, mails, t) \in Before(x)
           /\ p \in After(x) => SendAll(p, mails, t) \in After(x)
<1>1. ASSUME NEW S, \A q \in S : \A i \in 1..n : Send(q, mails[i], t) \in S, p \in S
      PROVE  SendAll(p, mails, t) \in S
  <2> DEFINE P == [k \in 0..n |-> S]
  <2>1. \A k \in 0..n : P[k] = S
    OBVIOUS
  <2> HIDE DEF P
  <2>2. \A i \in 1..n : i \in 0..n /\ i-1 \in 0..n /\ 0 \in 0..n /\ n \in 0..n
    OBVIOUS
  <2>3. \A i \in 1..n : \A q \in P[i-1] : Send(q, mails[i], t) \in P[i]
    BY <1>1, <2>1, <2>2
  <2>4. p \in P[0]
    BY <1>1, <2>1
  <2>5. SendAll(p, mails, t) \in P[n]
    BY <1>1, <2>3, <2>4, SendAllStays
  <2> QED
    BY <2>1, <2>5
<1>2. \A q \in Before(x) : \A i \in 1..n : Send(q, mails[i], t) \in Before(x)
  BY SendKeeps
<1>3. \A q \in After(x) : \A i \in 1..n : Send(q, mails[i], t) \in After(x)
  BY SendKeeps
<1> QED
  BY <1>1, <1>2, <1>3

\* A before the j-th of n steps, and C after it.
Switched(n, j, A, C) == [k \in 0..n |-> IF k < j THEN A ELSE C]

LEMMA Switches ==
    ASSUME NEW n \in Nat, NEW j \in 1..n, NEW A, NEW C
    PROVE  LET P == Switched(n, j, A, C)
           IN  \A i \in 1..n :
                 /\ P[0] = A /\ P[n] = C
                 /\ i < j => P[i-1] = A /\ P[i] = A /\ i # j
                 /\ i = j => P[i-1] = A /\ P[i] = C
                 /\ i > j => P[i-1] = C /\ P[i] = C /\ i # j
<1> SUFFICES ASSUME NEW i \in 1..n
             PROVE  LET P == Switched(n, j, A, C)
                    IN  /\ P[0] = A /\ P[n] = C
                        /\ i < j => P[i-1] = A /\ P[i] = A /\ i # j
                        /\ i = j => P[i-1] = A /\ P[i] = C
                        /\ i > j => P[i-1] = C /\ P[i] = C /\ i # j
  OBVIOUS
<1> DEFINE P == Switched(n, j, A, C)
<1>1. \A k \in 0..n : P[k] = IF k < j THEN A ELSE C
  BY DEF Switched
<1>2. i \in 0..n /\ i-1 \in 0..n /\ 0 \in 0..n /\ n \in 0..n
  OBVIOUS
<1> HIDE DEF P
<1> QED
  BY <1>1, <1>2 DEF P

\* The j-th mail tells x and the others spare it.
LEMMA SendAllTells ==
    ASSUME NEW x, NEW t \in Nat, NEW n \in Nat, NEW mails, DOMAIN mails = 1..n,
           \A i \in 1..n : mails[i] \in Mailable,
           NEW j \in 1..n, Tells(mails[j], x),
           \A i \in 1..n : i # j => Spares(mails[i], x),
           NEW p \in Before(x)
    PROVE  SendAll(p, mails, t) \in After(x)
<1> DEFINE P == Switched(n, j, Before(x), After(x))
<1>1. \A i \in 1..n :
         /\ P[0] = Before(x) /\ P[n] = After(x)
         /\ i < j => P[i-1] = Before(x) /\ P[i] = Before(x) /\ i # j
         /\ i = j => P[i-1] = Before(x) /\ P[i] = After(x)
         /\ i > j => P[i-1] = After(x) /\ P[i] = After(x) /\ i # j
  BY Switches
<1> HIDE DEF P
<1>2. P[0] = Before(x) /\ P[n] = After(x)
  BY <1>1
<1>3. \A q \in Post : \A i \in 1..n : Send(q, mails[i], t) \in Post
  BY SendType
<1>4. ASSUME NEW i \in 1..n, NEW q \in P[i-1]  PROVE Send(q, mails[i], t) \in P[i]
  <2>2. CASE i < j
    <3>1. P[i-1] = Before(x) /\ P[i] = Before(x) /\ i # j
      BY <1>1, <2>2
    <3> QED
      BY <1>4, <3>1, SendKeeps
  <2>3. CASE i = j
    <3>1. P[i-1] = Before(x) /\ P[i] = After(x)
      BY <1>1, <2>3
    <3> QED
      BY <1>4, <2>3, <3>1, SendTells
  <2>4. CASE i > j
    <3>1. P[i-1] = After(x) /\ P[i] = After(x) /\ i # j
      BY <1>1, <2>4
    <3> QED
      BY <1>4, <3>1, SendKeeps
  <2> QED
    BY <2>2, <2>3, <2>4
<1>5. p \in Post /\ p \in P[0]
  BY <1>2 DEF Before
<1>6. SendAll(p, mails, t) \in P[n]
  BY <1>3, <1>4, <1>5, SendAllStays
<1> QED
  BY <1>2, <1>6

LEMMA IndividualOf ==
    ASSUME NEW a, NEW x
    PROVE  /\ Of(a, x) => Tells(Individual(a), x)
           /\ ~ Of(a, x) => Spares(Individual(a), x)
BY DEF Individual, Tells, Spares

LEMMA OneMail ==
    ASSUME NEW n \in Nat, 1..n = 1..1
    PROVE  n = 1
<1>1. 1 \in 1..n
  OBVIOUS
<1>2. n \in 1..n
  BY <1>1
<1>3. n \in 1..1
  BY <1>2
<1> QED
  BY <1>3

LEMMA BatchSpares ==
    ASSUME batches \in [Keys -> Seq(Alert)], NEW t \in Nat, NEW x, NEW key \in Keys,
           InBatch(batches[key], x) = {}, NEW p
    PROVE  /\ p \in Before(x) => SendAll(p, MailsAt(key), t) \in Before(x)
           /\ p \in After(x) => SendAll(p, MailsAt(key), t) \in After(x)
<1>1. PICK n \in Nat : DOMAIN MailsAt(key) = 1..n /\ \A i \in 1..n : MailsAt(key)[i] \in Mailable
  BY MailsAtMailable
<1>2. \A i \in DOMAIN batches[key] : ~ Of(batches[key][i], x)
  BY DEF InBatch
<1>3. \A i \in 1..n : Spares(MailsAt(key)[i], x)
  <2>1. CASE /\ DOMAIN MailsAt(key) = 1..1
             /\ MailsAt(key)[1] = Digest(ToSet(batches[key]))
    <3>1. Spares(Digest(ToSet(batches[key])), x)
      BY <1>2 DEF Digest, Spares, ToSet
    <3>2. n = 1
      BY <1>1, <2>1, OneMail
    <3> QED
      BY <2>1, <3>1, <3>2
  <2>2. CASE /\ DOMAIN MailsAt(key) = DOMAIN batches[key]
             /\ \A i \in DOMAIN batches[key] : MailsAt(key)[i] = Individual(batches[key][i])
    BY <1>1, <1>2, <2>2, IndividualOf
  <2> QED
    BY <2>1, <2>2, MailsAtIs
<1> QED
  BY <1>1, <1>3, SendAllSpares

LEMMA BatchTells ==
    ASSUME batches \in [Keys -> Seq(Alert)], NEW t \in Nat, NEW x, NEW key \in Keys,
           NEW j, InBatch(batches[key], x) = {j}, NEW p \in Before(x)
    PROVE  SendAll(p, MailsAt(key), t) \in After(x)
<1>1. PICK n \in Nat : DOMAIN MailsAt(key) = 1..n /\ \A i \in 1..n : MailsAt(key)[i] \in Mailable
  BY MailsAtMailable
<1>2. /\ j \in DOMAIN batches[key] /\ Of(batches[key][j], x)
      /\ \A i \in DOMAIN batches[key] : Of(batches[key][i], x) => i = j
  BY DEF InBatch
<1>3. CASE /\ DOMAIN MailsAt(key) = 1..1
           /\ MailsAt(key)[1] = Digest(ToSet(batches[key]))
  <2>1. Tells(Digest(ToSet(batches[key])), x)
    BY <1>2 DEF Digest, Tells, ToSet
  <2>2. n = 1
    BY <1>1, <1>3, OneMail
  <2>3. 1 \in 1..n /\ Tells(MailsAt(key)[1], x) /\ \A i \in 1..n : i = 1
    BY <1>3, <2>1, <2>2
  <2> QED
    BY <1>1, <2>3, SendAllTells
<1>4. CASE /\ DOMAIN MailsAt(key) = DOMAIN batches[key]
           /\ \A i \in DOMAIN batches[key] : MailsAt(key)[i] = Individual(batches[key][i])
  <2>1. j \in 1..n /\ Tells(MailsAt(key)[j], x)
    BY <1>1, <1>2, <1>4, IndividualOf
  <2>2. \A i \in 1..n : i # j => Spares(MailsAt(key)[i], x)
    BY <1>1, <1>2, <1>4, IndividualOf
  <2> QED
    BY <1>1, <2>1, <2>2, SendAllTells
<1> QED
  BY <1>3, <1>4, MailsAtIs

LEMMA SendAllType ==
    ASSUME batches \in [Keys -> Seq(Alert)], NEW t \in Nat, NEW key \in Keys, NEW p \in Post
    PROVE  SendAll(p, MailsAt(key), t) \in Post
<1>1. PICK n \in Nat : DOMAIN MailsAt(key) = 1..n /\ \A i \in 1..n : MailsAt(key)[i] \in Mailable
  BY MailsAtMailable
<1> DEFINE P == [k \in 0..n |-> Post]
<1>2. \A k \in 0..n : P[k] = Post
  OBVIOUS
<1>3. \A q \in Post : \A i \in 1..n : Send(q, MailsAt(key)[i], t) \in Post
  BY <1>1, SendType
<1>4. \A i \in 1..n : i \in 0..n /\ i-1 \in 0..n
  OBVIOUS
<1> HIDE DEF P
<1>5. \A i \in 1..n : \A q \in P[i-1] : Send(q, MailsAt(key)[i], t) \in P[i]
  BY <1>2, <1>3, <1>4
<1>6. p \in P[0]
  BY <1>2
<1>7. SendAll(p, MailsAt(key), t) \in P[n]
  BY <1>1, <1>3, <1>5, <1>6, SendAllStays
<1> QED
  BY <1>2, <1>7

LEMMA BatchesSpare ==
    ASSUME batches \in [Keys -> Seq(Alert)], NEW t \in Nat, NEW x,
           NEW n \in Nat, NEW keys, DOMAIN keys = 1..n,
           \A i \in 1..n : keys[i] \in Keys /\ InBatch(batches[keys[i]], x) = {}, NEW p
    PROVE  /\ p \in Before(x) => SendBatches(p, keys, t) \in Before(x)
           /\ p \in After(x) => SendBatches(p, keys, t) \in After(x)
<1>1. ASSUME NEW S, \A q \in S : \A i \in 1..n : SendAll(q, MailsAt(keys[i]), t) \in S, p \in S
      PROVE  SendBatches(p, keys, t) \in S
  <2> DEFINE P == [k \in 0..n |-> S]
  <2>1. \A k \in 0..n : P[k] = S
    OBVIOUS
  <2> HIDE DEF P
  <2>2. \A i \in 1..n : i \in 0..n /\ i-1 \in 0..n
    OBVIOUS
  <2>3. \A i \in 1..n : \A q \in P[i-1] : SendAll(q, MailsAt(keys[i]), t) \in P[i]
    BY <1>1, <2>1, <2>2
  <2>4. p \in P[0]
    BY <1>1, <2>1
  <2>5. SendBatches(p, keys, t) \in P[n]
    BY <1>1, <2>3, <2>4, SendBatchesStays
  <2> QED
    BY <2>1, <2>5
<1>2. \A q \in Before(x) : \A i \in 1..n : SendAll(q, MailsAt(keys[i]), t) \in Before(x)
  BY BatchSpares
<1>3. \A q \in After(x) : \A i \in 1..n : SendAll(q, MailsAt(keys[i]), t) \in After(x)
  BY BatchSpares
<1> QED
  BY <1>1, <1>2, <1>3

\* The l-th batch has x once and the others have not.
LEMMA BatchesTell ==
    ASSUME batches \in [Keys -> Seq(Alert)], NEW t \in Nat, NEW x,
           NEW n \in Nat, NEW keys, DOMAIN keys = 1..n, \A i \in 1..n : keys[i] \in Keys,
           NEW l \in 1..n, NEW j, InBatch(batches[keys[l]], x) = {j},
           \A i \in 1..n : i # l => InBatch(batches[keys[i]], x) = {},
           NEW p \in Before(x)
    PROVE  SendBatches(p, keys, t) \in After(x)
<1>0. n \in Nat /\ l \in 1..n
  OBVIOUS
<1> DEFINE P == Switched(n, l, Before(x), After(x))
<1>1. \A i \in 1..n :
         /\ P[0] = Before(x) /\ P[n] = After(x)
         /\ i < l => P[i-1] = Before(x) /\ P[i] = Before(x) /\ i # l
         /\ i = l => P[i-1] = Before(x) /\ P[i] = After(x)
         /\ i > l => P[i-1] = After(x) /\ P[i] = After(x) /\ i # l
  BY ONLY <1>0, Switches
<1> HIDE DEF P
<1>2. P[0] = Before(x) /\ P[n] = After(x)
  BY <1>1
<1>3. \A q \in Post : \A i \in 1..n : SendAll(q, MailsAt(keys[i]), t) \in Post
  BY SendAllType
<1>4. ASSUME NEW i \in 1..n, NEW q \in P[i-1]
      PROVE  SendAll(q, MailsAt(keys[i]), t) \in P[i]
  <2>2. CASE i < l
    <3>1. q \in Before(x) /\ P[i] = Before(x) /\ i # l
      BY <1>1, <1>4, <2>2
    <3>2. keys[i] \in Keys /\ InBatch(batches[keys[i]], x) = {}
      BY <3>1
    <3>3. SendAll(q, MailsAt(keys[i]), t) \in Before(x)
      BY <3>1, <3>2, BatchSpares
    <3> QED
      BY <3>1, <3>3
  <2>3. CASE i = l
    <3>1. q \in Before(x) /\ P[i] = After(x)
      BY <1>1, <1>4, <2>3
    <3>2. keys[i] \in Keys /\ InBatch(batches[keys[i]], x) = {j}
      BY <2>3
    <3>3. SendAll(q, MailsAt(keys[i]), t) \in After(x)
      BY <3>1, <3>2, BatchTells
    <3> QED
      BY <3>1, <3>3
  <2>4. CASE i > l
    <3>1. q \in After(x) /\ P[i] = After(x) /\ i # l
      BY <1>1, <1>4, <2>4
    <3>2. keys[i] \in Keys /\ InBatch(batches[keys[i]], x) = {}
      BY <3>1
    <3>3. SendAll(q, MailsAt(keys[i]), t) \in After(x)
      BY <3>1, <3>2, BatchSpares
    <3> QED
      BY <3>1, <3>3
  <2> QED
    BY <2>2, <2>3, <2>4
<1>5. p \in Post /\ p \in P[0]
  BY <1>2 DEF Before
<1>6. SendBatches(p, keys, t) \in P[n]
  BY <1>3, <1>4, <1>5, SendBatchesStays
<1> QED
  BY <1>2, <1>6

-----------------------------------------------------------------------------
(* The invariant: each alert that has happened is in one place.            *)

\* The batch that alert x is parked in.
KeyOf(x) == <<GroupOf[x.device], x.kind>>

\* Every alert is in the batch of its own group and kind.
Sorted ==
    \A key \in Keys : \A i \in DOMAIN batches[key] :
        key = <<GroupOf[batches[key][i].device], batches[key][i].kind>>

Happened(x) ==
    /\ x.nr \in 1..outages[x.device]
    /\ x.kind = "recovery" =>
          /\ ~ (x.nr = outages[x.device] /\ x.device \in down)
          /\ <<x.device, x.nr>> \notin quiet

\* A device in an outage has a number for it, and those that ended quietly are
\* over.
Numbered ==
    /\ \A d \in down : outages[d] > 0
    /\ \A d \in Devices : \A n \in Nat :
          <<d, n>> \in quiet => n <= outages[d] /\ ~ (n = outages[d] /\ d \in down)

\* An alert that happened is parked and not told, or told and not parked.
Settles(b, p, x, happened) ==
    IF happened
    THEN \/ (\E j : InBatch(b, x) = {j}) /\ Untold(p, x)
         \/ InBatch(b, x) = {} /\ ToldOnce(p, x)
    ELSE InBatch(b, x) = {} /\ Untold(p, x)

Settled == \A x \in Names : Settles(batches[KeyOf(x)], post, x, Happened(x))

OnceInv ==
    /\ BufferInv
    /\ Sorted
    /\ Numbered
    /\ Settled

LEMMA NameFacts ==
    ASSUME NEW x \in Names
    PROVE  x.kind \in Kinds /\ x.device \in Devices /\ x.nr \in Nat /\ KeyOf(x) \in Keys
BY GroupAssumption DEF Names, KeyOf, Keys

\* Only the batch of its own key can hold x.
LEMMA OwnBatch ==
    ASSUME Sorted, NEW x \in Names, NEW key \in Keys, key # KeyOf(x)
    PROVE  InBatch(batches[key], x) = {}
BY DEF Sorted, InBatch, Of, Is, KeyOf

\* What a flush does to an alert: it is told once if its batch goes with it,
\* and stays where it is otherwise.
LEMMA MailAllKeeps ==
    ASSUME BufferInv, Sorted, NEW x \in Names, NEW t \in Nat, NEW force,
           NEW keys \in Orders(t, force),
           InBatch(batches[KeyOf(x)], x) = {} \/ KeyOf(x) \notin Going(t, force)
    PROVE  /\ post \in Before(x) => MailAll(keys, t) \in Before(x)
           /\ post \in After(x) => MailAll(keys, t) \in After(x)
<1> DEFINE first == IF Global THEN Send(post, GlobalDigest, t) ELSE post
           parked == UNION {ToSet(batches[key]) : key \in Downs}
<1>1. batches \in [Keys -> Seq(Alert)] /\ IsFiniteSet(Pending)
  BY DEF BufferInv, TypeOK
<1>2. MailAll(keys, t) = SendBatches(first, keys, t)
  BY DEF MailAll
<1>3. PICK n \in Nat : DOMAIN keys = 1..n /\ \A i \in 1..n : keys[i] \in Alone(t, force)
  BY <1>1, OrderFacts
<1>4. \A i \in 1..n : keys[i] \in Keys
  BY <1>3 DEF Alone, Going, Downs, Pending
<1>5. InBatch(batches[KeyOf(x)], x) = {} \/ (~ Global /\ KeyOf(x) \notin Alone(t, force))
  <2>1. ASSUME InBatch(batches[KeyOf(x)], x) # {}  PROVE KeyOf(x) \in Pending
    BY <1>1, <2>1, NameFacts DEF InBatch, Pending
  <2>2. KeyOf(x) \in Pending /\ KeyOf(x) \notin Going(t, force) => ~ Global
    BY DEF Going
  <2>3. ~ Global => Alone(t, force) = Going(t, force)
    BY DEF Alone
  <2> QED
    BY <2>1, <2>2, <2>3
<1>6. \A i \in 1..n : InBatch(batches[keys[i]], x) = {}
  BY <1>3, <1>4, <1>5, OwnBatch
<1>7. ASSUME Global
      PROVE  GlobalDigest \in Mailable /\ Spares(GlobalDigest, x)
  <2>1. \A key \in Downs : key \in Keys
    BY DEF Downs, Pending
  <2>2. \A key \in Downs : InBatch(batches[key], x) = {}
    BY <1>5, <1>7, <2>1, OwnBatch
  <2>3. \A key \in Downs : ToSet(batches[key]) \in SUBSET Alert
    BY <1>1, <2>1, BatchFacts
  <2>4. \A a \in parked : ~ Of(a, x)
    BY <2>2 DEF ToSet, InBatch
  <2>5. parked \in SUBSET Alert
    BY <2>3
  <2> QED
    BY <2>4, <2>5, DigestMailable DEF GlobalDigest, Digest, Spares
<1>8. /\ post \in Before(x) => first \in Before(x)
      /\ post \in After(x) => first \in After(x)
  BY <1>7, SendKeeps
<1> HIDE DEF first
<1>9. /\ first \in Before(x) => SendBatches(first, keys, t) \in Before(x)
      /\ first \in After(x) => SendBatches(first, keys, t) \in After(x)
  BY <1>1, <1>3, <1>4, <1>6, BatchesSpare
<1> QED
  BY <1>2, <1>8, <1>9

LEMMA MailAllTells ==
    ASSUME BufferInv, Sorted, NEW x \in Names, NEW t \in Nat, NEW force,
           NEW keys \in Orders(t, force), NEW j, InBatch(batches[KeyOf(x)], x) = {j},
           KeyOf(x) \in Going(t, force), post \in Before(x)
    PROVE  MailAll(keys, t) \in After(x)
<1> DEFINE first == IF Global THEN Send(post, GlobalDigest, t) ELSE post
           parked == UNION {ToSet(batches[key]) : key \in Downs}
           own == KeyOf(x)
<1>1. batches \in [Keys -> Seq(Alert)] /\ IsFiniteSet(Pending) /\ own \in Keys
  BY NameFacts DEF BufferInv, TypeOK
<1>2. MailAll(keys, t) = SendBatches(first, keys, t)
  BY DEF MailAll
<1>3. PICK n \in Nat : /\ DOMAIN keys = 1..n
                       /\ \A i \in 1..n : keys[i] \in Alone(t, force)
                       /\ \A i, k \in 1..n : i # k => keys[i] # keys[k]
                       /\ \A key \in Alone(t, force) : \E i \in 1..n : keys[i] = key
  BY <1>1, OrderFacts
<1>4. \A i \in 1..n : keys[i] \in Keys
  BY <1>3 DEF Alone, Going, Downs, Pending
<1>5. /\ j \in DOMAIN batches[own] /\ Of(batches[own][j], x)
      /\ \A i \in DOMAIN batches[own] : Of(batches[own][i], x) => i = j
  BY DEF InBatch
<1>6. \A key \in Keys : key # own => InBatch(batches[key], x) = {}
  BY OwnBatch
<1>7. own \in Pending
  BY DEF Going
<1>8. \A key \in Downs : key \in Keys
  BY DEF Downs, Pending
<1>9. GlobalDigest \in Mailable
  <2>1. \A key \in Downs : ToSet(batches[key]) \in SUBSET Alert
    BY <1>1, <1>8, BatchFacts
  <2>2. parked \in SUBSET Alert
    BY <2>1
  <2> QED
    BY <2>2, DigestMailable DEF GlobalDigest
<1>10. GlobalDigest.about = parked
  BY DEF GlobalDigest, Digest
<1> HIDE DEF own
<1>11. CASE Global /\ own \in Downs
  <2>1. ASSUME NEW c \in parked, Of(c, x)  PROVE c = batches[own][j]
    <3>1. PICK key \in Downs : c \in ToSet(batches[key])
      OBVIOUS
    <3>2. PICK i \in DOMAIN batches[key] : c = batches[key][i]
      BY <3>1 DEF ToSet
    <3>3. key = own
      BY <1>6, <1>8, <2>1, <3>2 DEF InBatch
    <3> QED
      BY <1>5, <2>1, <3>2, <3>3
  <2>2. batches[own][j] \in parked
    BY <1>5, <1>11 DEF ToSet
  <2> HIDE DEF parked
  <2>3. Tells(GlobalDigest, x)
    BY <1>5, <1>10, <2>1, <2>2 DEF Tells
  <2>4. first \in After(x)
    BY <1>9, <1>11, <2>3, SendTells
  <2>5. own \notin Alone(t, force)
    BY <1>11 DEF Alone
  <2>6. \A i \in 1..n : InBatch(batches[keys[i]], x) = {}
    BY <1>3, <1>4, <1>6, <2>5
  <2> HIDE DEF first
  <2>7. SendBatches(first, keys, t) \in After(x)
    BY <1>1, <1>3, <1>4, <2>4, <2>6, BatchesSpare
  <2> QED
    BY <1>2, <2>7
<1>12. CASE ~ (Global /\ own \in Downs)
  <2>1. first \in Before(x)
    <3>1. CASE Global
      <4>1. \A key \in Downs : InBatch(batches[key], x) = {}
        BY <1>6, <1>8, <1>12, <3>1
      <4>2. \A a \in parked : ~ Of(a, x)
        BY <4>1 DEF ToSet, InBatch
      <4>3. Spares(GlobalDigest, x)
        BY <1>10, <4>2 DEF Spares
      <4>4. Send(post, GlobalDigest, t) \in Before(x)
        BY <1>9, <4>3, SendKeeps
      <4> QED
        BY <3>1, <4>4
    <3>2. CASE ~ Global
      BY <3>2
    <3> QED
      BY <3>1, <3>2
  <2>2. own \in Alone(t, force)
    BY <1>7, <1>12 DEF Alone, own
  <2>3. PICK l \in 1..n : keys[l] = own
    BY <1>3, <2>2
  <2>4. InBatch(batches[keys[l]], x) = {j}
    BY <2>3 DEF own
  <2>5. \A i \in 1..n : i # l => InBatch(batches[keys[i]], x) = {}
    BY <1>3, <1>4, <1>6, <2>3
  <2> HIDE DEF first
  <2>6. SendBatches(first, keys, t) \in After(x)
    <3>1. /\ batches \in [Keys -> Seq(Alert)] /\ t \in Nat /\ n \in Nat /\ l \in 1..n
          /\ DOMAIN keys = 1..n
      BY <1>1, <1>3
    <3> QED
      BY ONLY <3>1, <1>4, <2>1, <2>4, <2>5, BatchesTell
  <2> QED
    BY <1>2, <2>6
<1> QED
  BY <1>11, <1>12

LEMMA InitOnce == Init => OnceInv
<1> SUFFICES ASSUME Init  PROVE OnceInv
  OBVIOUS
<1>1. /\ outages = [d \in Devices |-> 0] /\ down = {} /\ quiet = {}
      /\ batches = [key \in Keys |-> <<>>]
      /\ post = [ outbox |-> <<>>, throttledAt |-> Never, writable |-> TRUE,
                  withheld |-> {}, dropped |-> {}, unsaid |-> {} ]
  BY DEF Init, Empty
<1>2. DOMAIN post.outbox = {} /\ post.withheld = {} /\ post.dropped = {}
  BY <1>1
<1>3. \A x : Untold(post, x)
  BY <1>2 DEF Untold, InOutbox, InWithheld, InDropped
<1>4. \A x \in Names : ~ Happened(x)
  <2> SUFFICES ASSUME NEW x \in Names  PROVE x.nr \notin 1..outages[x.device]
    BY DEF Happened
  <2>1. x.device \in Devices
    BY NameFacts
  <2>2. outages[x.device] = 0
    BY <1>1, <2>1
  <2> QED
    BY <2>2
<1>5. \A x \in Names : InBatch(batches[KeyOf(x)], x) = {}
  <2> SUFFICES ASSUME NEW x \in Names  PROVE InBatch(batches[KeyOf(x)], x) = {}
    OBVIOUS
  <2>1. batches[KeyOf(x)] = <<>>
    BY <1>1, NameFacts
  <2> QED
    BY <2>1 DEF InBatch
<1>6. Settled
  BY <1>3, <1>4, <1>5 DEF Settled, Settles
<1>7. Sorted
  BY <1>1 DEF Sorted
<1> QED
  BY <1>1, <1>6, <1>7, InitBuffer DEF OnceInv, Numbered

\* What a flush does to an alert, whether it had happened or not.
LEMMA FlushSettles ==
    ASSUME OnceInv, NEW x \in Names, NEW t \in Nat, NEW force,
           NEW keys \in Orders(t, force)
    PROVE  LET b == IF KeyOf(x) \in Going(t, force) THEN <<>> ELSE batches[KeyOf(x)]
           IN  Settles(b, MailAll(keys, t), x, Happened(x))
<1> DEFINE own == KeyOf(x)
           b == batches[own]
           c == IF own \in Going(t, force) THEN <<>> ELSE b
           q == MailAll(keys, t)
<1>1. /\ BufferInv /\ Sorted /\ post \in Post
      /\ Settles(b, post, x, Happened(x))
  BY DEF OnceInv, Settled, BufferInv, Good
<1>2. InBatch(<<>>, x) = {}
  BY DEF InBatch
<1>3. CASE InBatch(b, x) = {} \/ own \notin Going(t, force)
  <2>1. /\ post \in Before(x) => q \in Before(x)
        /\ post \in After(x) => q \in After(x)
    BY <1>1, <1>3, MailAllKeeps
  <2>2. InBatch(c, x) = InBatch(b, x)
    BY <1>2, <1>3
  <2> HIDE DEF b, c, q
  <2>3. Untold(post, x) => Untold(q, x)
    BY <1>1, <2>1 DEF Before
  <2>4. ToldOnce(post, x) => ToldOnce(q, x)
    BY <1>1, <2>1 DEF After
  <2>5. Settles(c, q, x, Happened(x))
    BY <1>1, <2>2, <2>3, <2>4 DEF Settles
  <2> QED
    BY <2>5 DEF b, c, q
<1>4. CASE InBatch(b, x) # {} /\ own \in Going(t, force)
  <2>1. Happened(x) /\ Untold(post, x) /\ \E j : InBatch(b, x) = {j}
    BY <1>1, <1>4 DEF Settles
  <2>2. post \in Before(x)
    BY <1>1, <2>1 DEF Before
  <2>3. q \in After(x)
    BY <1>1, <1>4, <2>1, <2>2, MailAllTells
  <2>4. InBatch(c, x) = {}
    BY <1>2, <1>4
  <2> HIDE DEF b, c, q
  <2>5. Settles(c, q, x, Happened(x))
    BY <2>1, <2>3, <2>4 DEF Settles, After
  <2> QED
    BY <2>5 DEF b, c, q
<1> QED
  BY <1>3, <1>4

LEMMA FlushSorted ==
    ASSUME Sorted, batches \in [Keys -> Seq(Alert)], batches' \in [Keys -> Seq(Alert)],
           \A key \in Keys : batches'[key] = <<>> \/ batches'[key] = batches[key]
    PROVE  Sorted'
<1>1. DOMAIN <<>> = {}
  OBVIOUS
<1>2. ASSUME NEW key \in Keys, NEW i \in DOMAIN batches'[key]
      PROVE  key = <<GroupOf[batches'[key][i].device], batches'[key][i].kind>>
  <2>1. batches'[key] = batches[key]
    BY <1>1, <1>2
  <2> QED
    BY <2>1 DEF Sorted
<1> QED
  BY <1>2 DEF Sorted

LEMMA TickOnce ==
    ASSUME OnceInv, Tick
    PROVE  Sorted' /\ Numbered' /\ Settled'
<1> DEFINE t == now + 1
<1>1. Flush(t, FALSE, post') /\ outages' = outages /\ down' = down /\ quiet' = quiet
  BY DEF Tick
<1>2. t \in Nat /\ batches \in [Keys -> Seq(Alert)] /\ Sorted
      /\ Numbered
  BY DEF OnceInv, BufferInv, TypeOK
<1> HIDE DEF t
<1>3. PICK keys \in Orders(t, FALSE) : post' = MailAll(keys, t)
  BY <1>1 DEF Flush
<1>4. batches' = [key \in Keys |-> IF key \in Going(t, FALSE) THEN <<>> ELSE batches[key]]
  BY <1>1 DEF Flush
<1>5. \A key \in Keys :
        batches'[key] = IF key \in Going(t, FALSE) THEN <<>> ELSE batches[key]
  BY <1>4
<1>6. batches' \in [Keys -> Seq(Alert)]
  BY NextBuffer DEF Next, OnceInv, BufferInv, TypeOK
<1>7. Sorted'
  BY <1>2, <1>5, <1>6, FlushSorted
<1>8. ASSUME NEW x \in Names
      PROVE  Settles(batches'[KeyOf(x)], post', x, Happened(x)) /\ Happened(x)' = Happened(x)
  <2>1. KeyOf(x) \in Keys
    BY NameFacts
  <2>2. Settles(batches'[KeyOf(x)], post', x, Happened(x))
    BY <1>2, <1>3, <1>5, <2>1, FlushSettles
  <2> QED
    BY <1>1, <2>2 DEF Happened
<1>9. Settled'
  BY <1>8 DEF Settled
<1> QED
  BY <1>1, <1>2, <1>7, <1>9 DEF Numbered

LEMMA RestartOnce ==
    ASSUME OnceInv, Restart
    PROVE  Sorted' /\ Numbered' /\ Settled'
<1>1. /\ outages' = outages /\ down' = down /\ quiet' = quiet
      /\ batches' = [key \in Keys |-> <<>>]
  BY DEF Restart, Empty
<1>2. PICK keys \in Orders(now, TRUE) :
        post' = [MailAll(keys, now) EXCEPT !.throttledAt = Never]
  BY DEF Restart
<1>3. now \in Nat /\ batches \in [Keys -> Seq(Alert)] /\ Sorted
      /\ Numbered
      /\ IsFiniteSet(Pending) /\ post \in Good(now)
  BY DEF OnceInv, BufferInv, TypeOK
<1> DEFINE q == MailAll(keys, now)
<1>4. q \in Post
  BY <1>3, MailAllGood DEF Good
<1> HIDE DEF q
<1>5. post'.outbox = q.outbox /\ post'.withheld = q.withheld /\ post'.dropped = q.dropped
  BY <1>2, <1>4 DEF Post, q
<1>6. Sorted'
  BY <1>1 DEF Sorted
<1>7. ASSUME NEW x \in Names
      PROVE  Settles(batches'[KeyOf(x)], post', x, Happened(x)) /\ Happened(x)' = Happened(x)
  <2>1. KeyOf(x) \in Keys
    BY NameFacts
  <2> DEFINE c == IF KeyOf(x) \in Going(now, TRUE) THEN <<>> ELSE batches[KeyOf(x)]
  <2>2. Settles(c, q, x, Happened(x))
    BY <1>3, FlushSettles DEF q
  <2>3. c = <<>> /\ batches'[KeyOf(x)] = <<>>
    BY <1>1, <2>1 DEF Going, Pending
  <2> HIDE DEF c
  <2>4. /\ InOutbox(post', x) = InOutbox(q, x)
        /\ InWithheld(post', x) = InWithheld(q, x)
        /\ InDropped(post', x) = InDropped(q, x)
    BY <1>5 DEF InOutbox, InWithheld, InDropped
  <2>5. Settles(batches'[KeyOf(x)], post', x, Happened(x))
    BY <2>2, <2>3, <2>4 DEF Settles, Untold, ToldOnce
  <2> QED
    BY <1>1, <2>5 DEF Happened
<1>8. Settled'
  BY <1>7 DEF Settled
<1> QED
  BY <1>1, <1>3, <1>6, <1>8 DEF Numbered

\* The name of the alert that device d's next transition announces.
NextName(d) == [kind |-> NextKind(d), device |-> d, nr |-> NextNr(d)]

LEMMA NextNameFacts ==
    ASSUME TypeOK, NEW d \in Devices
    PROVE  /\ NextName(d) \in Names /\ KeyOf(NextName(d)) = NextKey(d)
           /\ \A x \in Names : Of(NextAlert(d), x) <=> x = NextName(d)
<1>1. NextKind(d) \in Kinds /\ NextNr(d) \in Nat
  BY NextAlertType
<1>2. ASSUME NEW x \in Names  PROVE Of(NextAlert(d), x) <=> x = NextName(d)
  <2>1. x = [kind |-> x.kind, device |-> x.device, nr |-> x.nr]
    BY DEF Names
  <2>2. Of(NextAlert(d), x) <=>
          x.kind = NextKind(d) /\ x.device = d /\ x.nr = NextNr(d)
    BY DEF Of, Is, NextAlert
  <2> QED
    BY <2>1, <2>2 DEF NextName
<1>3. NextName(d) \in Names
  BY <1>1 DEF NextName, Names
<1>4. KeyOf(NextName(d)) = NextKey(d)
  BY DEF NextName, KeyOf, NextKey
<1> QED
  BY <1>2, <1>3, <1>4

\* A transition makes its alert happen, and no other.
LEMMA QueueHappens ==
    ASSUME TypeOK, Numbered, NEW d \in Devices, Queue(d),
           NEW y, y = NextName(d)
    PROVE  /\ ~ Happened(y) /\ Happened(y)'
           /\ \A x \in Names : x # y => (Happened(x)' <=> Happened(x))
           /\ Numbered'
<1>1. /\ quiet' = quiet /\ outages' = [outages EXCEPT ![d] = NextNr(d)]
      /\ down' = IF NextKind(d) = "down" THEN down \cup {d} ELSE down \ {d}
  BY QueueIs
<1>2. /\ outages \in [Devices -> Nat] /\ down \subseteq Devices
      /\ \A e \in Devices : outages[e] \in Nat
  BY DEF TypeOK
<1>3. /\ outages'[d] = NextNr(d)
      /\ \A e \in Devices : e # d => outages'[e] = outages[e]
      /\ \A e \in Devices : e # d => (e \in down' <=> e \in down)
  BY <1>1, <1>2
<1>4. /\ y.device = d /\ y.nr = NextNr(d) /\ y.kind = NextKind(d)
      /\ \A x \in Names : x # y => x.device # d \/ x.nr # NextNr(d) \/ x.kind # NextKind(d)
  <2>1. y = [kind |-> NextKind(d), device |-> d, nr |-> NextNr(d)]
    BY DEF NextName
  <2>2. \A x \in Names : x = [kind |-> x.kind, device |-> x.device, nr |-> x.nr]
    BY DEF Names
  <2> QED
    BY <2>1, <2>2
<1>5. ASSUME NEW x \in Names, x.device # d  PROVE Happened(x)' <=> Happened(x)
  <2>1. x.device \in Devices
    BY NameFacts
  <2> QED
    BY <1>1, <1>3, <1>5, <2>1 DEF Happened
<1>6. \A n \in Nat : <<d, n>> \in quiet => n <= outages[d] /\ ~ (n = outages[d] /\ d \in down)
  BY DEF Numbered
<1>7. CASE d \in down
  <2>1. /\ NextKind(d) = "recovery" /\ NextNr(d) = outages[d] /\ d \notin down'
        /\ outages[d] > 0 /\ outages'[d] = outages[d]
    BY <1>1, <1>3, <1>7 DEF NextKind, NextNr, Numbered
  <2>2. ~ Happened(y)
    BY <1>4, <1>7, <2>1 DEF Happened
  <2>3. Happened(y)'
    BY <1>1, <1>2, <1>4, <1>6, <1>7, <2>1 DEF Happened
  <2>4. ASSUME NEW x \in Names, x # y, x.device = d  PROVE Happened(x)' <=> Happened(x)
    BY <1>1, <1>4, <2>1, <2>4 DEF Happened
  <2>5. Numbered'
    BY <1>1, <1>3, <1>7, <2>1 DEF Numbered
  <2> QED
    BY <1>5, <2>2, <2>3, <2>4, <2>5
<1>8. CASE d \notin down
  <2>1. /\ NextKind(d) = "down" /\ NextNr(d) = outages[d] + 1 /\ d \in down'
        /\ outages[d] \in Nat /\ outages'[d] = outages[d] + 1
    BY <1>1, <1>2, <1>3, <1>8 DEF NextKind, NextNr
  <2>2. ~ Happened(y)
    BY <1>4, <2>1 DEF Happened
  <2>3. Happened(y)'
    BY <1>4, <2>1 DEF Happened
  <2>4. ASSUME NEW x \in Names, x # y, x.device = d  PROVE Happened(x)' <=> Happened(x)
    <3>1. (x.kind = "recovery" \/ x.kind = "down") /\ x.nr \in Nat
      BY NameFacts DEF Kinds
    <3>2. x.kind = "recovery" \/ x.nr # outages[d] + 1
      BY <1>4, <2>1, <2>4, <3>1
    <3>3. Happened(x) <=> /\ x.nr \in 1..outages[d]
                          /\ x.kind = "recovery" => <<d, x.nr>> \notin quiet
      BY <1>8, <2>4 DEF Happened
    <3>4. Happened(x)' <=> /\ x.nr \in 1..(outages[d] + 1)
                           /\ x.kind = "recovery" => /\ x.nr # outages[d] + 1
                                                     /\ <<d, x.nr>> \notin quiet
      BY <1>1, <2>1, <2>4 DEF Happened
    <3> QED
      BY <2>1, <3>1, <3>2, <3>3, <3>4
  <2>5. Numbered'
    <3>1. ASSUME NEW e \in down'  PROVE outages'[e] > 0
      <4>1. e \in Devices /\ (e = d \/ e \in down)
        BY <1>1, <1>2
      <4> QED
        BY <1>3, <2>1, <4>1 DEF Numbered
    <3>2. ASSUME NEW e \in Devices, NEW n \in Nat, <<e, n>> \in quiet'
          PROVE  n <= outages'[e] /\ ~ (n = outages'[e] /\ e \in down')
      <4>1. <<e, n>> \in quiet
        BY <1>1, <3>2
      <4>2. CASE e = d
        BY <1>6, <2>1, <4>1, <4>2
      <4>3. CASE e # d
        BY <1>3, <4>1, <4>3 DEF Numbered
      <4> QED
        BY <4>2, <4>3
    <3> QED
      BY <3>1, <3>2 DEF Numbered
  <2> QED
    BY <1>5, <2>2, <2>3, <2>4, <2>5
<1> QED
  BY <1>7, <1>8

LEMMA QueueOnce ==
    ASSUME OnceInv, NEW d \in Devices, Queue(d)
    PROVE  Sorted' /\ Numbered' /\ Settled'
<1> DEFINE a == NextAlert(d)
           k == NextKey(d)
<1>1. /\ BufferInv /\ TypeOK /\ Sorted /\ Settled /\ post \in Post
      /\ Numbered
      /\ batches \in [Keys -> Seq(Alert)] /\ now \in Nat
  BY DEF OnceInv, BufferInv, TypeOK
<1>0. PICK y \in Names : y = NextName(d)
  BY <1>1, NextNameFacts
<1>2. /\ y \in Names /\ KeyOf(y) = k
      /\ \A x \in Names : Of(a, x) <=> x = y
  BY <1>0, <1>1, NextNameFacts
<1>3. /\ ~ Happened(y) /\ Happened(y)'
      /\ \A x \in Names : x # y => (Happened(x)' <=> Happened(x))
      /\ Numbered'
  BY <1>0, <1>1, QueueHappens
<1>4. \/ batches' = [batches EXCEPT ![k] = Append(@, a)] /\ post' = post
      \/ post' = Send(post, Individual(a), now) /\ batches' = batches
  BY QueueIs
<1>5. a \in Alert /\ k \in Keys /\ k = <<GroupOf[a.device], a.kind>>
  BY <1>1, NextAlertType DEF NextKey
<1>6. InBatch(batches[k], y) = {} /\ Untold(post, y)
  BY <1>1, <1>2, <1>3 DEF Settled, Settles
<1> HIDE DEF a, k
<1>7. CASE batches' = [batches EXCEPT ![k] = Append(@, a)] /\ post' = post
  <2>1. /\ batches' \in [Keys -> Seq(Alert)]
        /\ batches'[k] = Append(batches[k], a)
        /\ \A key \in Keys : key # k => batches'[key] = batches[key]
    BY <1>1, <1>7, Parked DEF a, k
  <2> DEFINE b == batches[k]
             c == batches'[k]
             l == Len(b) + 1
  <2>2. /\ DOMAIN c = DOMAIN b \cup {l} /\ \A i \in DOMAIN b : c[i] = b[i] /\ i # l
        /\ c[l] = a
    <3>1. b \in Seq(Alert)
      BY <1>1, <1>5
    <3>2. /\ DOMAIN b = 1..Len(b) /\ Len(b) \in Nat
          /\ DOMAIN Append(b, a) = 1..(Len(b) + 1)
          /\ \A i \in DOMAIN b : Append(b, a)[i] = b[i]
          /\ Append(b, a)[Len(b) + 1] = a
      BY <3>1, Appended
    <3>3. c = Append(b, a)
      BY <2>1
    <3> HIDE DEF b, c
    <3> QED
      BY <3>2, <3>3
  <2>3. \A x \in Names : InBatch(c, x) = InBatch(b, x) \cup (IF x = y THEN {l} ELSE {})
    <3> HIDE DEF b, c, l
    <3> QED
      BY <1>2, <2>2 DEF InBatch
  <2>4. Sorted'
    <3>1. ASSUME NEW key \in Keys, NEW i \in DOMAIN batches'[key]
          PROVE  key = <<GroupOf[batches'[key][i].device], batches'[key][i].kind>>
      <4>1. CASE key # k
        BY <1>1, <2>1, <4>1 DEF Sorted
      <4>2. CASE key = k /\ i \in DOMAIN b
        BY <1>1, <2>2, <4>2 DEF Sorted
      <4>3. CASE key = k /\ i = l
        BY <1>5, <2>2, <4>3
      <4> QED
        BY <2>2, <3>1, <4>1, <4>2, <4>3
    <3> QED
      BY <3>1 DEF Sorted
  <2>5. ASSUME NEW x \in Names
        PROVE  Settles(batches'[KeyOf(x)], post', x, Happened(x)')
    <3>1. KeyOf(x) \in Keys /\ Settles(batches[KeyOf(x)], post, x, Happened(x))
      BY <1>1, NameFacts DEF Settled
    <3>2. CASE x = y
      <4>1. InBatch(c, x) = {l}
        BY <1>6, <2>3, <3>2
      <4>2. Settles(c, post, x, TRUE)
        BY <1>6, <3>2, <4>1 DEF Settles
      <4> QED
        BY <1>2, <1>3, <1>7, <3>2, <4>2
    <3>3. CASE x # y
      <4>1. InBatch(batches'[KeyOf(x)], x) = InBatch(batches[KeyOf(x)], x)
        BY <2>1, <2>3, <3>1, <3>3
      <4>2. Happened(x)' <=> Happened(x)
        BY <1>3, <3>3
      <4> QED
        BY <1>7, <3>1, <4>1, <4>2 DEF Settles
    <3> QED
      BY <3>2, <3>3
  <2>6. Settled'
    BY <2>5 DEF Settled
  <2> QED
    BY <1>3, <2>4, <2>6
<1>8. CASE post' = Send(post, Individual(a), now) /\ batches' = batches
  <2>1. Sorted'
    BY <1>1, <1>8 DEF Sorted
  <2>2. Individual(a) \in Mailable
    BY <1>5, IndividualMailable
  <2>3. ASSUME NEW x \in Names
        PROVE  Settles(batches'[KeyOf(x)], post', x, Happened(x)')
    <3>1. Settles(batches[KeyOf(x)], post, x, Happened(x))
      BY <1>1 DEF Settled
    <3>2. CASE x = y
      <4>1. post \in Before(x) /\ Tells(Individual(a), x)
        BY <1>1, <1>2, <1>6, <3>2, IndividualOf DEF Before
      <4>2. post' \in After(x)
        BY <1>1, <1>8, <2>2, <4>1, SendTells
      <4>3. Settles(batches[KeyOf(x)], post', x, TRUE)
        BY <1>2, <1>6, <3>2, <4>2 DEF Settles, After
      <4> QED
        BY <1>3, <1>8, <3>2, <4>3
    <3>3. CASE x # y
      <4>1. Spares(Individual(a), x)
        BY <1>2, <3>3, IndividualOf
      <4>2. /\ post \in Before(x) => post' \in Before(x)
            /\ post \in After(x) => post' \in After(x)
        BY <1>1, <1>8, <2>2, <4>1, SendKeeps
      <4>3. /\ Untold(post, x) => Untold(post', x)
            /\ ToldOnce(post, x) => ToldOnce(post', x)
        BY <1>1, <4>2 DEF Before, After
      <4>4. Happened(x)' <=> Happened(x)
        BY <1>3, <3>3
      <4> QED
        BY <1>8, <3>1, <4>3, <4>4 DEF Settles
    <3> QED
      BY <3>2, <3>3
  <2>4. Settled'
    BY <2>3 DEF Settled
  <2> QED
    BY <1>3, <2>1, <2>4
<1> QED
  BY <1>4, <1>7, <1>8

\* A quiet recovery makes no alert happen.
LEMMA QuietOnce ==
    ASSUME OnceInv, NEW d \in Devices, RecoverQuietly(d)
    PROVE  Sorted' /\ Numbered' /\ Settled'
<1>1. /\ d \in down /\ down' = down \ {d}
      /\ quiet' = quiet \cup {<<d, outages[d]>>}
      /\ outages' = outages /\ batches' = batches /\ post' = post
  BY DEF RecoverQuietly
<1>2. /\ Sorted /\ Numbered /\ Settled
      /\ \A e \in Devices : outages[e] \in Nat
  BY DEF OnceInv, BufferInv, TypeOK
<1>3. \A e \in Devices, n \in Nat :
        <<e, n>> \in quiet' <=> <<e, n>> \in quiet \/ (e = d /\ n = outages[d])
  BY <1>1
<1>4. Sorted'
  BY <1>1, <1>2 DEF Sorted
<1>5. Numbered'
  <2>1. \A e \in down' : outages'[e] > 0
    BY <1>1, <1>2 DEF Numbered
  <2>2. ASSUME NEW e \in Devices, NEW n \in Nat, <<e, n>> \in quiet'
        PROVE  n <= outages'[e] /\ ~ (n = outages'[e] /\ e \in down')
    BY <1>1, <1>2, <1>3, <2>2 DEF Numbered
  <2> QED
    BY <2>1, <2>2 DEF Numbered
<1>6. ASSUME NEW x \in Names  PROVE Happened(x)' <=> Happened(x)
  <2>1. x.kind \in Kinds /\ x.device \in Devices /\ x.nr \in Nat
    BY NameFacts
  <2> QED
    BY <1>1, <1>3, <2>1 DEF Happened
<1>7. Settled'
  BY <1>1, <1>2, <1>6 DEF Settled, Settles
<1> QED
  BY <1>4, <1>5, <1>7

LEMMA NextOnce == OnceInv /\ [Next]_vars => OnceInv'
<1> SUFFICES ASSUME OnceInv, [Next]_vars  PROVE OnceInv'
  OBVIOUS
<1> DEFINE Rest == Sorted /\ Numbered /\ Settled
<1>1. BufferInv'
  BY NextBuffer DEF OnceInv
<1>2. ASSUME UNCHANGED <<outages, down, quiet, batches, post>>  PROVE Rest'
  BY <1>2 DEF OnceInv, Sorted, Numbered, Settled, Happened
<1>3. ASSUME NEW d \in Devices, Queue(d)  PROVE Rest'
  BY <1>3, QueueOnce
<1>4. ASSUME Tick  PROVE Rest'
  BY <1>4, TickOnce
<1>5. ASSUME NEW w \in Windows, SetWindow(w)  PROVE Rest'
  BY <1>2, <1>5 DEF SetWindow
<1>6. ASSUME Restart  PROVE Rest'
  BY <1>6, RestartOnce
<1>7. ASSUME UNCHANGED vars  PROVE Rest'
  BY <1>2, <1>7 DEF vars
<1>8. ASSUME NEW d \in Devices, RecoverQuietly(d)  PROVE Rest'
  BY <1>8, QuietOnce
<1>10. ASSUME Turn  PROVE Rest'
  <2>1. /\ post' = [post EXCEPT !.writable = ~@]
        /\ UNCHANGED <<now, window, outages, down, quiet, batches>>
    BY <1>10 DEF Turn
  <2>2. post'.outbox = post.outbox /\ post'.withheld = post.withheld
        /\ post'.dropped = post.dropped
    BY <2>1, TurnPost DEF OnceInv, BufferInv
  <2> QED
    BY <2>1, <2>2 DEF OnceInv, Sorted, Numbered, Settled, Happened, Settles, Untold,
       ToldOnce, InOutbox, InWithheld, InDropped
<1>9. Rest'
  <2> HIDE DEF Rest
  <2> QED
    BY <1>3, <1>4, <1>5, <1>6, <1>7, <1>8, <1>10 DEF Next
<1> QED
  BY <1>1, <1>9 DEF OnceInv

\* An alert in one place is counted once.
LEMMA Counts ==
    ASSUME NEW x \in Names, Settled
    PROVE  Places(x.kind, x.device, x.nr) = IF Happened(x) THEN 1 ELSE 0
<1> DEFINE b == batches[KeyOf(x)]
<1>1. Places(x.kind, x.device, x.nr) =
          Cardinality(InBatch(b, x)) + Cardinality(InOutbox(post, x))
        + Cardinality(InWithheld(post, x)) + Cardinality(InDropped(post, x))
  BY DEF Places, InBatch, InOutbox, InWithheld, InDropped, Of, KeyOf, Rows
<1>2. Settles(b, post, x, Happened(x))
  BY DEF Settled
<1>3. Cardinality({}) = 0 /\ \A S : (\E i : S = {i}) => Cardinality(S) = 1
  BY FS_EmptySet, FS_Singleton
<1> HIDE DEF b
<1>4. CASE ~ Happened(x)
  BY <1>1, <1>2, <1>3, <1>4 DEF Settles, Untold
<1>5. CASE Happened(x) /\ Untold(post, x)
  <2>1. ~ ToldOnce(post, x)
    BY <1>5 DEF Untold, ToldOnce
  <2>2. \E j : InBatch(b, x) = {j}
    BY <1>2, <1>5, <2>1 DEF Settles
  <2>3. /\ Cardinality(InBatch(b, x)) = 1 /\ Cardinality(InOutbox(post, x)) = 0
        /\ Cardinality(InWithheld(post, x)) = 0 /\ Cardinality(InDropped(post, x)) = 0
    BY <1>3, <1>5, <2>2 DEF Untold
  <2> QED
    BY <1>1, <1>5, <2>3
<1>6. CASE Happened(x) /\ ~ Untold(post, x)
  <2>1. InBatch(b, x) = {} /\ ToldOnce(post, x)
    BY <1>2, <1>6 DEF Settles
  <2> DEFINE o == Cardinality(InOutbox(post, x))
             w == Cardinality(InWithheld(post, x))
             z == Cardinality(InDropped(post, x))
  <2>2. Cardinality(InBatch(b, x)) = 0
    BY <1>3, <2>1
  <2>3. \/ o = 1 /\ w = 0 /\ z = 0
        \/ o = 0 /\ w = 1 /\ z = 0
        \/ o = 0 /\ w = 0 /\ z = 1
    BY <1>3, <2>1 DEF ToldOnce
  <2>4. Places(x.kind, x.device, x.nr) = 0 + o + w + z
    BY <1>1, <2>2
  <2> HIDE DEF o, w, z
  <2> QED
    BY <1>6, <2>3, <2>4
<1> QED
  BY <1>4, <1>5, <1>6

\* Every alert that happened is in exactly one place: parked, in one mail,
\* withheld by the cap, or with nobody to tell (flushAlerts, flushGlobal, send).
THEOREM AlertsKept == Spec => []EveryAlertOnce
<1>1. OnceInv => EveryAlertOnce
  <2> SUFFICES ASSUME OnceInv, NEW d \in Devices, NEW n \in 1..outages[d]
               PROVE  /\ Places("down", d, n) = 1
                      /\ Places("recovery", d, n) =
                             IF <<d, n>> \in quiet \/ (n = outages[d] /\ d \in down)
                             THEN 0 ELSE 1
    BY DEF EveryAlertOnce
  <2> DEFINE x == [kind |-> "down", device |-> d, nr |-> n]
             y == [kind |-> "recovery", device |-> d, nr |-> n]
  <2>1. n \in Nat /\ Settled
    BY DEF OnceInv, BufferInv, TypeOK
  <2>2. x \in Names /\ y \in Names
    BY <2>1 DEF Names, Kinds
  <2>3. Places(x.kind, x.device, x.nr) = 1
    BY <2>1, <2>2, Counts DEF Happened
  <2>4. Places(y.kind, y.device, y.nr) =
            IF <<d, n>> \in quiet \/ (n = outages[d] /\ d \in down) THEN 0 ELSE 1
    BY <2>1, <2>2, Counts DEF Happened
  <2> QED
    BY <2>3, <2>4
<1> QED
  BY <1>1, InitOnce, NextOnce, PTL DEF Spec

=============================================================================
