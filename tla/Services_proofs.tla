------------------------------ MODULE Services_proofs ------------------------------
(***************************************************************************)
(* Limiter, Connector, Backup, Store and Gate; and what is proved of the   *)
(* other components by themselves holds of them in Services, beside those  *)
(* they share no state with: a step of Services is a step of the component *)
(* or leaves its state alone.                                              *)
(***************************************************************************)
EXTENDS Services, FiniteSetTheorems, SequenceTheorems, WellFoundedInduction, TLAPS

SigT == INSTANCE SignIn_proofs WITH Tabs <- Sessions
TamT == INSTANCE AuditLog_proofs WITH clock <- now
ProT == INSTANCE ProjectionDesk_proofs WITH Tabs <- Desks, Configs <- Choices

LEMMA StepsOnly == Spec => Init /\ [][Next]_vars
BY DEF Spec

-----------------------------------------------------------------------------
(* Limiter *)

Allowance == Limit \in Nat \ {0} /\ Window \in Nat

\* The clock never runs backwards over the uploads it granted.
InOrder ==
  /\ clock \in Nat /\ granted \in Seq(Nat)
  /\ \A i \in DOMAIN granted : granted[i] <= clock
  /\ \A i, j \in DOMAIN granted : i <= j => granted[i] <= granted[j]

\* The deque is what was granted last, and what it lacks is a window old.
SuffixFrom(s, k) ==
  /\ k \in 0..Len(granted)
  /\ s = SubSeq(granted, k + 1, Len(granted))
  /\ \A i \in 1..k : Lim!Old(granted[i])
Remembered == \E k \in 0..Len(granted) : SuffixFrom(events, k)

Spaced ==
  \A i \in DOMAIN granted : i + Limit \in DOMAIN granted => granted[i + Limit] - granted[i] >= Window

\* The uploads a through a + Limit - 1 filled the window of the last refusal.
FilledBy(a) ==
  /\ a \in DOMAIN granted /\ a + Limit - 1 \in DOMAIN granted
  /\ refusal.at \in Nat /\ refusal.at <= clock
  /\ granted[a + Limit - 1] <= refusal.at
  /\ refusal.at - granted[a] < Window
  /\ refusal.wait = Window - (refusal.at - granted[a])
  /\ \A i \in DOMAIN granted : i >= a + Limit => granted[i] > refusal.at
Filled == refusal # None => \E a \in DOMAIN granted : FilledBy(a)

LimiterInv == InOrder /\ Remembered /\ Spaced /\ Filled

\* A suffix of a suffix is one of the whole.
LEMMA SuffixOfSuffix ==
  ASSUME NEW s \in Seq(Nat), NEW k \in 0..Len(s), NEW n \in 0..(Len(s) - k)
  PROVE  SubSeq(SubSeq(s, k + 1, Len(s)), n + 1, Len(s) - k) = SubSeq(s, k + n + 1, Len(s))
<1> DEFINE q == SubSeq(s, k + 1, Len(s))
           left == SubSeq(q, n + 1, Len(s) - k)
           right == SubSeq(s, k + n + 1, Len(s))
<1>1. q \in Seq(Nat) /\ Len(q) = Len(s) - k /\ \A i \in 1..(Len(s) - k) : q[i] = s[k + i]
  OBVIOUS
<1> HIDE DEF q
<1>2. left \in Seq(Nat) /\ Len(left) = Len(s) - k - n /\ \A i \in 1..(Len(s) - k - n) : left[i] = q[n + i]
  BY <1>1
<1>3. right \in Seq(Nat) /\ Len(right) = Len(s) - k - n /\ \A i \in 1..(Len(s) - k - n) : right[i] = s[k + n + i]
  OBVIOUS
<1> HIDE DEF left, right
<1>4. ASSUME NEW i \in 1..(Len(s) - k - n) PROVE left[i] = right[i]
  <2>1. n + i \in 1..(Len(s) - k) /\ k + (n + i) = k + n + i
    BY <1>4
  <2>2. q[n + i] = s[k + n + i]
    BY <1>1, <2>1
  <2> QED BY <1>2, <1>3, <2>2
<1>5. left = right
  BY <1>2, <1>3, <1>4, SeqEqual
<1> QED BY <1>5 DEF left, right, q

\* A suffix grows with the sequence.
LEMMA AppendToSuffix ==
  ASSUME NEW s \in Seq(Nat), NEW c \in Nat, NEW k \in 0..Len(s)
  PROVE  SubSeq(Append(s, c), k + 1, Len(s) + 1) = Append(SubSeq(s, k + 1, Len(s)), c)
<1> DEFINE n == Len(s) - k
           q == SubSeq(s, k + 1, Len(s))
           left == SubSeq(Append(s, c), k + 1, Len(s) + 1)
           right == Append(q, c)
<1>1. q \in Seq(Nat) /\ Len(q) = n /\ \A i \in 1..n : q[i] = s[k + i]
  OBVIOUS
<1> HIDE DEF q
<1>2. /\ right \in Seq(Nat) /\ Len(right) = n + 1 /\ right[n + 1] = c
      /\ \A i \in 1..n : right[i] = s[k + i]
  BY <1>1
<1>3. /\ left \in Seq(Nat) /\ Len(left) = n + 1 /\ left[n + 1] = c
      /\ \A i \in 1..n : left[i] = s[k + i]
  OBVIOUS
<1> HIDE DEF left, right
<1>4. ASSUME NEW i \in 1..(n + 1) PROVE left[i] = right[i]
  <2>1. n \in Nat
    OBVIOUS
  <2> HIDE DEF n
  <2>2. i \in 1..n \/ i = n + 1
    BY <2>1
  <2> QED BY <1>2, <1>3, <2>2
<1>5. left = right
  BY <1>2, <1>3, <1>4, SeqEqual
<1> QED BY <1>5 DEF left, right, q

\* A set of naturals has a least element.
LEMMA Least ==
  ASSUME NEW S \in SUBSET Nat, S # {}
  PROVE  \E k \in S : \A j \in S : k <= j
<1>1. PICK k \in S : \A j \in S : ~ <<j, k>> \in OpToRel(<, Nat)
  BY NatLessThanWellFounded, WFMin
<1>2. \A j \in S : ~ (j < k)
  BY <1>1 DEF OpToRel
<1> QED BY <1>2

\* _prune removes exactly the events that are a window old.
LEMMA ExpiredExists ==
  ASSUME Allowance, clock \in Nat, NEW s \in Seq(Nat)
  PROVE  /\ Lim!Expired(s) \in 0..Len(s)
         /\ \A i \in 1..Lim!Expired(s) : Lim!Old(s[i])
         /\ Lim!Expired(s) < Len(s) => ~Lim!Old(s[Lim!Expired(s) + 1])
<1> DEFINE Ends == {n \in 0..Len(s) : n < Len(s) => ~Lim!Old(s[n + 1])}
<1>1. Len(s) \in Ends /\ Ends \in SUBSET Nat
  OBVIOUS
<1>2. PICK n \in Ends : \A j \in Ends : n <= j
  BY <1>1, Least
<1>3. ASSUME NEW i \in 1..n PROVE Lim!Old(s[i])
  <2>1. i - 1 \in 0..Len(s) /\ i - 1 \notin Ends
    BY <1>2, <1>3
  <2>2. (i - 1) + 1 = i
    BY <1>3
  <2> QED BY <2>1, <2>2
<1>4. \E m \in 0..Len(s) : /\ \A i \in 1..m : Lim!Old(s[i])
                           /\ m < Len(s) => ~Lim!Old(s[m + 1])
  BY <1>2, <1>3
<1> QED BY <1>4 DEF Lim!Expired

LEMMA Pruned ==
  ASSUME Allowance, InOrder, Remembered
  PROVE  \E m \in 0..Len(granted) :
           /\ SuffixFrom(Lim!Prune(events), m)
           /\ \A i \in (m + 1)..Len(granted) : ~Lim!Old(granted[i])
<1>1. PICK k \in 0..Len(granted) : SuffixFrom(events, k)
  BY DEF Remembered
<1>2. /\ events \in Seq(Nat) /\ Len(events) = Len(granted) - k
      /\ \A i \in 1..Len(events) : events[i] = granted[k + i]
  BY <1>1 DEF SuffixFrom, InOrder
<1> DEFINE n == Lim!Expired(events)
           m == k + n
<1>3. /\ n \in 0..Len(events)
      /\ \A i \in 1..n : Lim!Old(events[i])
      /\ n < Len(events) => ~Lim!Old(events[n + 1])
  BY <1>2, ExpiredExists DEF InOrder
<1> HIDE DEF n
<1>4. m \in 0..Len(granted)
  BY <1>2, <1>3 DEF InOrder
<1>5. ASSUME NEW i \in 1..m PROVE Lim!Old(granted[i])
  <2>1. CASE i <= k
    BY <1>1, <1>5, <2>1 DEF SuffixFrom
  <2>2. CASE i > k
    <3>1. i - k \in 1..n /\ i - k \in 1..Len(events) /\ k + (i - k) = i
      BY <1>2, <1>3, <1>4, <1>5, <2>2 DEF InOrder
    <3> QED BY <1>2, <1>3, <3>1
  <2> QED BY <2>1, <2>2, <1>5
<1>6. ASSUME NEW i \in (m + 1)..Len(granted) PROVE ~Lim!Old(granted[i])
  <2>1. n < Len(events) /\ n + 1 \in 1..Len(events) /\ k + (n + 1) = m + 1
    BY <1>2, <1>3, <1>4, <1>6 DEF InOrder
  <2>2. ~Lim!Old(granted[m + 1])
    BY <1>2, <1>3, <2>1
  <2>3. granted[m + 1] <= granted[i] /\ granted[m + 1] \in Nat /\ granted[i] \in Nat
    BY <1>4, <1>6 DEF InOrder
  <2> QED BY <2>2, <2>3 DEF Lim!Old, InOrder, Allowance
<1>7. Lim!Prune(events) = SubSeq(granted, m + 1, Len(granted))
  <2>1. Lim!Prune(events) = SubSeq(events, n + 1, Len(events))
    BY DEF Lim!Prune, n
  <2>2. events = SubSeq(granted, k + 1, Len(granted))
    BY <1>1 DEF SuffixFrom
  <2> QED BY <1>2, <1>3, <2>1, <2>2, SuffixOfSuffix DEF InOrder
<1> QED BY <1>4, <1>5, <1>6, <1>7 DEF SuffixFrom

LEMMA AcquireKeeps ==
  ASSUME Allowance, LimiterInv, NEW t \in Sessions, NEW f \in Files, Lim!Acquire(t, f)
  PROVE  LimiterInv'
<1>1. PICK m \in 0..Len(granted) : /\ SuffixFrom(Lim!Prune(events), m)
                                   /\ \A i \in (m + 1)..Len(granted) : ~Lim!Old(granted[i])
  BY Pruned DEF LimiterInv
<1>2. /\ clock' = clock /\ refusal' = refusal
      /\ granted' = Append(granted, clock) /\ events' = Append(Lim!Prune(events), clock)
      /\ ~(Len(Lim!Prune(events)) >= Limit)
  BY DEF Lim!Acquire, Lim!Full
<1> DEFINE n == Len(granted)
<1>3. /\ n \in Nat /\ Len(granted') = n + 1 /\ granted'[n + 1] = clock
      /\ \A i \in 1..n : granted'[i] = granted[i]
      /\ granted' \in Seq(Nat)
  BY <1>2 DEF LimiterInv, InOrder
<1>4. InOrder'
  BY <1>2, <1>3 DEF LimiterInv, InOrder
<1>5. n - m < Limit
  <2>1. Len(Lim!Prune(events)) = n - m
    BY <1>1 DEF SuffixFrom, LimiterInv, InOrder
  <2> QED BY <1>2, <1>3, <2>1 DEF Allowance
<1>6. Remembered'
  <2>1. events' = SubSeq(granted', m + 1, n + 1)
    <3>1. Lim!Prune(events) = SubSeq(granted, m + 1, n)
      BY <1>1 DEF SuffixFrom
    <3>2. granted \in Seq(Nat) /\ clock \in Nat
      BY DEF LimiterInv, InOrder
    <3>3. SubSeq(Append(granted, clock), m + 1, n + 1)
            = Append(SubSeq(granted, m + 1, n), clock)
      BY <3>2, AppendToSuffix
    <3> QED BY <1>2, <3>1, <3>3
  <2>2. \A i \in 1..m : clock' - granted'[i] >= Window
    BY <1>1, <1>2, <1>3 DEF SuffixFrom, Lim!Old
  <2>3. m \in 0..Len(granted')
    BY <1>3
  <2>4. SuffixFrom(events, m)'
    BY <1>3, <2>1, <2>2, <2>3 DEF SuffixFrom, Lim!Old
  <2> QED BY <2>3, <2>4 DEF Remembered
<1>7. Spaced'
  <2> SUFFICES ASSUME NEW i \in 1..(n + 1), i + Limit \in 1..(n + 1)
               PROVE  granted'[i + Limit] - granted'[i] >= Window
    BY <1>3 DEF Spaced, LimiterInv, InOrder
  <2>1. CASE i + Limit <= n
    <3>1. i \in 1..n /\ i + Limit \in 1..n
      BY <1>3, <2>1 DEF Allowance
    <3>2. granted[i + Limit] - granted[i] >= Window
      BY <3>1 DEF LimiterInv, Spaced, InOrder
    <3> QED BY <1>3, <3>1, <3>2
  <2>2. CASE i + Limit = n + 1
    <3>1. i \in 1..m /\ i \in 1..n
      BY <1>1, <1>3, <1>5, <2>2 DEF Allowance
    <3>2. clock - granted[i] >= Window
      BY <1>1, <3>1 DEF SuffixFrom, Lim!Old
    <3> QED BY <1>3, <2>2, <3>1, <3>2
  <2> QED BY <1>3, <2>1, <2>2 DEF Allowance
<1>8. Filled'
  <2> SUFFICES ASSUME refusal # None PROVE \E a \in DOMAIN granted' : FilledBy(a)'
    BY <1>2 DEF Filled
  <2>1. PICK a \in DOMAIN granted : FilledBy(a)
    BY DEF LimiterInv, Filled
  <2>2. a \in 1..n /\ a + Limit - 1 \in 1..n
    BY <2>1 DEF FilledBy, LimiterInv, InOrder
  <2>3. clock > refusal.at
    <3>1. SUFFICES ASSUME clock = refusal.at PROVE FALSE
      BY <2>1 DEF FilledBy, LimiterInv, InOrder
    <3>2. ~Lim!Old(granted[a])
      BY <2>1, <2>2, <3>1 DEF FilledBy, Lim!Old, LimiterInv, InOrder, Allowance
    <3>3. a > m
      BY <1>1, <2>2, <3>2 DEF SuffixFrom
    <3> QED BY <1>1, <1>5, <2>2, <3>3 DEF Allowance
  <2>4. /\ granted'[a] = granted[a] /\ granted'[a + Limit - 1] = granted[a + Limit - 1]
        /\ a \in DOMAIN granted' /\ a + Limit - 1 \in DOMAIN granted'
    BY <1>3, <2>2
  <2>5. ASSUME NEW i \in DOMAIN granted', i >= a + Limit PROVE granted'[i] > refusal.at
    <3>1. i \in 1..n \/ i = n + 1
      BY <1>3
    <3>2. CASE i \in 1..n
      BY <1>3, <2>1, <2>5, <3>2 DEF FilledBy
    <3> QED BY <1>3, <2>3, <3>1, <3>2
  <2>6. FilledBy(a)'
    BY <1>2, <2>1, <2>4, <2>5 DEF FilledBy
  <2> QED BY <2>4, <2>6
<1> QED BY <1>4, <1>6, <1>7, <1>8 DEF LimiterInv

LEMMA RefuseKeeps ==
  ASSUME Allowance, LimiterInv, NEW t \in Sessions, NEW f \in Files, Lim!Refuse(t, f)
  PROVE  LimiterInv'
<1>1. PICK m \in 0..Len(granted) : /\ SuffixFrom(Lim!Prune(events), m)
                                   /\ \A i \in (m + 1)..Len(granted) : ~Lim!Old(granted[i])
  BY Pruned DEF LimiterInv
<1> DEFINE n == Len(granted)
           p == Lim!Prune(events)
<1>2. /\ clock' = clock /\ granted' = granted /\ events' = p
      /\ refusal' = [at |-> clock, wait |-> Window - (clock - p[1])]
      /\ Len(p) >= Limit
  BY DEF Lim!Refuse, Lim!Full, Lim!Wait
<1>3. n \in Nat /\ Len(p) = n - m /\ \A i \in 1..(n - m) : p[i] = granted[m + i]
  BY <1>1 DEF SuffixFrom, LimiterInv, InOrder
<1>4. m + 1 \in 1..n /\ ~Lim!Old(granted[m + 1])
  BY <1>1, <1>2, <1>3 DEF Allowance
<1>5. n - m = Limit
  <2>1. ASSUME n - m > Limit PROVE FALSE
    <3>1. m + 1 + Limit \in 1..n
      BY <2>1, <1>1, <1>3 DEF Allowance
    <3>2. granted[m + 1 + Limit] - granted[m + 1] >= Window /\ granted[m + 1 + Limit] <= clock
      BY <1>4, <3>1 DEF LimiterInv, Spaced, InOrder
    <3> QED BY <1>4, <3>1, <3>2 DEF Lim!Old, LimiterInv, InOrder, Allowance
  <2> QED BY <1>1, <1>2, <1>3, <2>1 DEF Allowance
<1>6. InOrder' /\ Spaced' /\ Remembered'
  BY <1>1, <1>2 DEF LimiterInv, InOrder, Spaced, Remembered, SuffixFrom, Lim!Old
<1>7. FilledBy(m + 1)'
  <2>1. p[1] = granted[m + 1]
    BY <1>3, <1>5 DEF Allowance
  <2>2. clock - granted[m + 1] < Window
    BY <1>4 DEF Lim!Old, LimiterInv, InOrder, Allowance
  <2>3. m + 1 + Limit - 1 = n /\ n \in 1..n
    BY <1>3, <1>4, <1>5 DEF Allowance
  <2> HIDE DEF p
  <2>4. refusal'.at = clock /\ refusal'.wait = Window - (clock - granted[m + 1])
    BY <1>2, <2>1
  <2> QED BY <1>2, <1>3, <1>4, <2>2, <2>3, <2>4 DEF FilledBy, LimiterInv, InOrder, Allowance
<1>8. Filled'
  BY <1>2, <1>4, <1>7 DEF Filled, LimiterInv, InOrder
<1> QED BY <1>6, <1>8 DEF LimiterInv

LEMMA LimiterKeeps ==
  ASSUME Allowance, LimiterInv, Lim!Next PROVE LimiterInv'
<1>1. CASE \E t \in Sessions, f \in Files : Lim!Acquire(t, f) \/ Lim!Refuse(t, f)
  BY <1>1, AcquireKeeps, RefuseKeeps
<1>2. CASE \E t \in Sessions : Lim!Reload(t)
  BY <1>2 DEF Lim!Reload, LimiterInv, InOrder, Remembered, SuffixFrom, Lim!Old, Spaced, Filled, FilledBy
<1>3. CASE Lim!Tick
  <2>1. InOrder'
    BY <1>3 DEF Lim!Tick, LimiterInv, InOrder
  <2>2. PICK k \in 0..Len(granted) : SuffixFrom(events, k)
    BY DEF LimiterInv, Remembered
  <2>3. SuffixFrom(events, k)'
    BY <1>3, <2>2 DEF Lim!Tick, SuffixFrom, Lim!Old, LimiterInv, InOrder, Allowance
  <2>4. Spaced' /\ Filled'
    BY <1>3 DEF Lim!Tick, LimiterInv, InOrder, Spaced, Filled, FilledBy
  <2> QED BY <1>3, <2>1, <2>2, <2>3, <2>4 DEF Lim!Tick, LimiterInv, Remembered
<1> QED BY <1>1, <1>2, <1>3 DEF Lim!Next

\* What fills a window holds exactly Limit uploads, of which the first leaves it when
\* the wait announced is over.
LEMMA WaitIsExact ==
  ASSUME Allowance, LimiterInv, refusal # None
  PROVE  LET free == refusal.at + refusal.wait
         IN refusal.wait > 0 /\ Lim!InWindow(free) < Limit /\ Lim!InWindow(free - 1) >= Limit
<1>1. PICK a \in DOMAIN granted : FilledBy(a)
  BY DEF LimiterInv, Filled
<1> DEFINE free == refusal.at + refusal.wait
           Recent(moment) == {i \in DOMAIN granted : granted[i] <= refusal.at /\ moment - granted[i] < Window}
<1>2. /\ a \in 1..Len(granted) /\ a + Limit - 1 \in 1..Len(granted) /\ DOMAIN granted = 1..Len(granted)
      /\ Limit \in Nat /\ Limit > 0 /\ Len(granted) \in Nat
      /\ \A i \in 1..Len(granted) : granted[i] \in Nat
  BY <1>1 DEF FilledBy, LimiterInv, InOrder, Allowance
<1>3. refusal.wait > 0 /\ free = granted[a] + Window
  BY <1>1, <1>2 DEF FilledBy, Allowance
<1>4. Recent(free) \subseteq (a + 1)..(a + Limit - 1)
  <2> SUFFICES ASSUME NEW i \in Recent(free) PROVE i \in (a + 1)..(a + Limit - 1)
    OBVIOUS
  <2>1. i \in 1..Len(granted) /\ granted[i] > granted[a] /\ granted[i] <= refusal.at
    BY <1>2, <1>3 DEF Allowance
  <2>2. i > a
    BY <1>2, <2>1 DEF LimiterInv, InOrder
  <2>3. i < a + Limit
    BY <1>1, <1>2, <2>1 DEF FilledBy
  <2> QED BY <1>2, <2>1, <2>2, <2>3
<1>5. a..(a + Limit - 1) \subseteq Recent(free - 1)
  <2> SUFFICES ASSUME NEW i \in a..(a + Limit - 1) PROVE i \in Recent(free - 1)
    OBVIOUS
  <2>1. i \in 1..Len(granted) /\ a <= i /\ i <= a + Limit - 1
    BY <1>2
  <2>2. granted[a] <= granted[i] /\ granted[i] <= granted[a + Limit - 1]
    BY <1>2, <2>1 DEF LimiterInv, InOrder
  <2>3. granted[i] <= refusal.at /\ (free - 1) - granted[i] < Window
    BY <1>1, <1>2, <1>3, <2>1, <2>2 DEF FilledBy, Allowance
  <2> QED BY <1>2, <2>1, <2>3
<1>6. Recent(free - 1) \subseteq 1..Len(granted)
  BY <1>2
<1> HIDE DEF Recent, free
<1>7. Cardinality(Recent(free)) < Limit
  <2>1. IsFiniteSet((a + 1)..(a + Limit - 1)) /\ Cardinality((a + 1)..(a + Limit - 1)) < Limit
    <3>1. a + 1 \in Int /\ a + Limit - 1 \in Int
      BY <1>2
    <3>2. /\ IsFiniteSet((a + 1)..(a + Limit - 1))
          /\ Cardinality((a + 1)..(a + Limit - 1)) =
               IF a + 1 > a + Limit - 1 THEN 0 ELSE (a + Limit - 1) - (a + 1) + 1
      BY <3>1, FS_Interval
    <3> QED BY <1>2, <3>2
  <2>2. Cardinality(Recent(free)) <= Cardinality((a + 1)..(a + Limit - 1)) /\ IsFiniteSet(Recent(free))
    BY <1>4, <2>1, FS_Subset
  <2> QED BY <1>2, <2>1, <2>2, FS_CardinalityType
<1>8. Cardinality(Recent(free - 1)) >= Limit
  <2>1. a \in Int /\ a + Limit - 1 \in Int
    BY <1>2
  <2>2. Cardinality(a..(a + Limit - 1)) = Limit
    BY <1>2, <2>1, FS_Interval
  <2>3. IsFiniteSet(1..Len(granted))
    BY <1>2, FS_Interval
  <2>4. IsFiniteSet(Recent(free - 1))
    BY <1>6, <2>3, FS_Subset
  <2> QED BY <1>5, <2>2, <2>4, FS_Subset
<1>9. \A moment : Lim!InWindow(moment) = Cardinality(Recent(moment))
  BY DEF Lim!InWindow, Lim!Cardinality, Cardinality, Recent
<1> QED BY <1>3, <1>7, <1>8, <1>9 DEF free

\* For any limit and window and any interleaving of a user's tabs: no window holds more
\* uploads than the limit, and the wait a refusal announces is exact
\* (SlidingWindowLimiter of core/ratelimit.py, counted_upload of pages/ingest.py).
THEOREM NoWindowOverflows == ASSUME Allowance PROVE Spec => []WindowIsExact
<1>1. Init => LimiterInv
  BY DEF Init, Lim!Init, LimiterInv, InOrder, Remembered, SuffixFrom, Spaced, Filled
<1>2. ASSUME LimiterInv, UNCHANGED limiterVars PROVE LimiterInv'
  BY <1>2 DEF limiterVars, LimiterInv, InOrder, Remembered, SuffixFrom, Lim!Old, Spaced, Filled, FilledBy
<1>3. LimiterInv /\ [Next]_vars => LimiterInv'
  BY <1>2, LimiterKeeps DEF Next, vars
<1>4. LimiterInv => WindowIsExact
  BY WaitIsExact DEF LimiterInv, Spaced, WindowIsExact, Lim!WindowIsExact
<1> QED BY <1>1, <1>3, <1>4, StepsOnly, PTL

-----------------------------------------------------------------------------
(* Connector *)

Tracing == shown = [t \in Sessions |-> shown[t]] /\ FiguresTraced

\* A call that returns commits the event of what it shows, and no event is lost.
LEMMA ReturnTraced ==
  ASSUME NEW t \in Sessions, NEW how, NEW version, Tracing, Con!Return(t, how, version)
  PROVE  Tracing'
<1>1. shown' = [shown EXCEPT ![t] = [how |-> how, version |-> version, call |-> calls]]
  BY DEF Con!Return
<1>2. /\ audited \subseteq audited'
      /\ [call |-> calls, outcome |-> Con!Outcome(how), version |-> version] \in audited'
  BY DEF Con!Return
<1>3. shown'[t] = [how |-> how, version |-> version, call |-> calls]
  BY <1>1 DEF Tracing
<1>4. \A u \in Sessions : u # t => shown'[u] = shown[u]
  BY <1>1 DEF Tracing
<1>5. shown' = [u \in Sessions |-> shown'[u]]
  BY <1>1 DEF Tracing
<1> QED BY <1>2, <1>3, <1>4, <1>5 DEF Tracing, FiguresTraced, Con!FiguresTraced, Con!Outcome

\* Every other step keeps the events, and empties a screen or leaves it.
LEMMA QuietTraced ==
  ASSUME Tracing, audited' = audited,
         \/ shown' = shown
         \/ \E t \in Sessions : shown' = [shown EXCEPT ![t] = None]
  PROVE  Tracing'
<1>1. \A u \in Sessions : shown'[u] = shown[u] \/ shown'[u] = None
  BY DEF Tracing
<1>2. shown' = [u \in Sessions |-> shown'[u]]
  BY DEF Tracing
<1> QED BY <1>1, <1>2 DEF Tracing, FiguresTraced, Con!FiguresTraced, Con!Outcome

\* What a fetch shows has its committed event, with its version and its outcome: for any
\* number of sessions, retries and versions, and whatever the agency answers (fetch of
\* data/connectors/base.py and the unit of work of its page).
THEOREM ShownIsTraced == Spec => []FiguresTraced
<1>1. Init => Tracing
  BY DEF Init, Con!Init, Tracing, FiguresTraced, Con!FiguresTraced
<1>2. ASSUME Tracing, Con!Next PROVE Tracing'
  <2>1. CASE \E t \in Sessions : Con!Hit(t) \/ Con!Keep(t)
    BY <1>2, <2>1, ReturnTraced DEF Con!Hit, Con!Keep
  <2>2. CASE \E t \in Sessions : Con!Fail(t)
    BY <1>2, <2>2, ReturnTraced, QuietTraced DEF Con!Fail, Con!Raise
  <2>3. CASE \/ \E t \in Sessions : \/ \E allow \in BOOLEAN : Con!Miss(t, allow)
                                    \/ Con!Answer(t) \/ Con!Retry(t) \/ Con!Escape(t)
             \/ Con!Publish \/ Con!Expire \/ Con!Evict
    <3>1. shown' = shown /\ audited' = audited
      BY <2>3 DEF Con!Miss, Con!Answer, Con!Retry, Con!Escape, Con!Publish, Con!Expire, Con!Evict
    <3> QED BY <1>2, <3>1, QuietTraced
  <2> QED BY <1>2, <2>1, <2>2, <2>3 DEF Con!Next
<1>3. Tracing /\ [Next]_vars => Tracing'
  BY <1>2, QuietTraced DEF Next, vars, connectorVars
<1>4. Tracing => FiguresTraced
  BY DEF Tracing
<1> QED BY <1>1, <1>3, <1>4, StepsOnly, PTL

-----------------------------------------------------------------------------
(* Backup *)

\* None is neither the state of a file nor the content of a database.
Told == None \notin {"torn", "whole"} /\ None \notin SUBSET Files

FileState == {None, "torn", "whole"}
BackingUp == {"listing", "copying"}
Restoring == {"database", "removing", "restoring"}

BackupTypes ==
  /\ db \in {None} \cup SUBSET Files
  /\ store \in [Files -> FileState]
  /\ up \in BOOLEAN
  /\ copy \in [db : SUBSET Files, files : [Files -> FileState], sealed : BOOLEAN, intact : BOOLEAN,
               ofMixed : BOOLEAN]
  /\ tool \in {"idle"} \cup BackingUp \cup Restoring
  /\ mixed \in BOOLEAN

\* A restore runs beside no application; an application has a database, and writes
\* nothing once it is stopped.
OneAtATime ==
  /\ up => tool \notin Restoring /\ db # None
  /\ ~up => writing = {}
  /\ tool \in BackingUp => ~copy.sealed
  /\ tool \in Restoring => copy.sealed

\* The live target is complete but for a restore under way or cut short.
LiveComplete == tool \notin Restoring /\ ~mixed /\ db # None => Bak!Closed(db, store)

\* What the snapshot refers to is whole when it is taken and stays so until its file is
\* copied.
CopyComplete ==
  ~copy.ofMixed =>
    /\ copy.sealed => Bak!Closed(copy.db, copy.files)
    /\ tool \in BackingUp => Bak!Closed(copy.db, store)
    /\ tool = "copying" => \A f \in copy.db : f \in todo \/ copy.files[f] = "whole"

\* How far a restore has come.
Progress ==
  /\ tool \in {"removing", "restoring"} => db = copy.db
  /\ tool = "restoring" => \A f \in Files : f \in todo \/ store[f] = copy.files[f]

BackupInv == BackupTypes /\ OneAtATime /\ LiveComplete /\ CopyComplete /\ Progress

LEMMA BackupStarts == ASSUME Told, Bak!Init PROVE BackupInv
BY DEF Told, Bak!Init, Bak!NoCopy, BackupInv, BackupTypes, OneAtATime, LiveComplete, CopyComplete,
       Progress, Bak!Closed, FileState, BackingUp, Restoring

\* The application never damages a file that is whole.
LEMMA ApplicationKeeps ==
  ASSUME Told, BackupInv,
         \/ \E f \in Files : Bak!OpenRaw(f) \/ Bak!WriteRaw(f) \/ Bak!Register(f)
         \/ Bak!Shutdown \/ Bak!Startup
  PROVE  BackupInv'
<1> USE DEF Told, BackupInv, BackupTypes, OneAtATime, FileState, BackingUp, Restoring, Bak!Closed
<1>1. ASSUME NEW f \in Files, Bak!OpenRaw(f) PROVE BackupInv'
  BY <1>1 DEF Bak!OpenRaw, LiveComplete, CopyComplete, Progress
<1>2. ASSUME NEW f \in Files, Bak!WriteRaw(f) PROVE BackupInv'
  BY <1>2 DEF Bak!WriteRaw, LiveComplete, CopyComplete, Progress
<1>3. ASSUME NEW f \in Files, Bak!Register(f) PROVE BackupInv'
  BY <1>3 DEF Bak!Register, LiveComplete, CopyComplete, Progress
<1>4. CASE Bak!Shutdown
  BY <1>4 DEF Bak!Shutdown, LiveComplete, CopyComplete, Progress
<1>5. CASE Bak!Startup
  BY <1>5 DEF Bak!Startup, LiveComplete, CopyComplete, Progress
<1> QED BY <1>1, <1>2, <1>3, <1>4, <1>5

LEMMA BackupSteps ==
  ASSUME Told, BackupInv,
         \/ Bak!Snapshot \/ Bak!ListStore \/ Bak!Seal \/ Bak!Rot \/ Bak!Disaster
         \/ \E f \in Files : Bak!CopyOut(f)
  PROVE  BackupInv'
<1> USE DEF Told, BackupInv, BackupTypes, OneAtATime, FileState, BackingUp, Restoring, Bak!Closed
<1>1. CASE Bak!Snapshot
  BY <1>1 DEF Bak!Snapshot, Bak!NoCopy, LiveComplete, CopyComplete, Progress
<1>2. CASE Bak!ListStore
  BY <1>2 DEF Bak!ListStore, Bak!Present, LiveComplete, CopyComplete, Progress
<1>3. CASE Bak!Seal
  BY <1>3 DEF Bak!Seal, LiveComplete, CopyComplete, Progress
<1>4. CASE Bak!Rot
  BY <1>4 DEF Bak!Rot, LiveComplete, CopyComplete, Progress
<1>5. CASE Bak!Disaster
  BY <1>5 DEF Bak!Disaster, LiveComplete, CopyComplete, Progress
<1>6. ASSUME NEW f \in Files, Bak!CopyOut(f) PROVE BackupInv'
  <2>1. /\ copy'.files = [copy.files EXCEPT ![f] = store[f]]
        /\ copy' \in [db : SUBSET Files, files : [Files -> FileState], sealed : BOOLEAN,
                      intact : BOOLEAN, ofMixed : BOOLEAN]
        /\ copy'.db = copy.db /\ copy'.sealed = copy.sealed /\ copy'.ofMixed = copy.ofMixed
    BY <1>6 DEF Bak!CopyOut
  <2> QED BY <1>6, <2>1 DEF Bak!CopyOut, LiveComplete, CopyComplete, Progress
<1> QED BY <1>1, <1>2, <1>3, <1>4, <1>5, <1>6

LEMMA RestoreSteps ==
  ASSUME Told, BackupInv,
         \/ \E overwrite \in BOOLEAN : Bak!StartRestore(overwrite)
         \/ \E f \in Files : Bak!RemoveFile(f) \/ Bak!CopyBack(f)
         \/ Bak!DropDatabase \/ Bak!LoadDatabase \/ Bak!StoreRemoved \/ Bak!Restored \/ Bak!Killed
  PROVE  BackupInv'
<1> USE DEF Told, BackupInv, BackupTypes, OneAtATime, FileState, BackingUp, Restoring, Bak!Closed
<1>1. ASSUME NEW overwrite \in BOOLEAN, Bak!StartRestore(overwrite) PROVE BackupInv'
  BY <1>1 DEF Bak!StartRestore, LiveComplete, CopyComplete, Progress
<1>2. ASSUME NEW f \in Files, Bak!RemoveFile(f) PROVE BackupInv'
  BY <1>2 DEF Bak!RemoveFile, LiveComplete, CopyComplete, Progress
<1>3. ASSUME NEW f \in Files, Bak!CopyBack(f) PROVE BackupInv'
  BY <1>3 DEF Bak!CopyBack, LiveComplete, CopyComplete, Progress
<1>4. CASE Bak!DropDatabase
  BY <1>4 DEF Bak!DropDatabase, LiveComplete, CopyComplete, Progress
<1>5. CASE Bak!LoadDatabase
  BY <1>5 DEF Bak!LoadDatabase, LiveComplete, CopyComplete, Progress
<1>6. CASE Bak!StoreRemoved
  BY <1>6 DEF Bak!StoreRemoved, Bak!Present, LiveComplete, CopyComplete, Progress
<1>7. CASE Bak!Restored
  BY <1>7 DEF Bak!Restored, LiveComplete, CopyComplete, Progress
<1>8. CASE Bak!Killed
  BY <1>8 DEF Bak!Killed, LiveComplete, CopyComplete, Progress
<1> QED BY <1>1, <1>2, <1>3, <1>4, <1>5, <1>6, <1>7, <1>8

\* Whatever is backed up, lost, restored, interrupted and started again in whatever order:
\* no finished backup and no live database lacks a raw layer it refers to, but where a
\* restore was cut short; and a restore that succeeds leaves the backup and nothing else
\* (backup, verify and restore of core/backup.py).
THEOREM NothingIsMissing == ASSUME Told PROVE Spec => BackupIsComplete
<1>1. Init => BackupInv
  BY BackupStarts DEF Init
<1>2. ASSUME BackupInv, Bak!Next PROVE BackupInv'
  BY <1>2, ApplicationKeeps, BackupSteps, RestoreSteps DEF Bak!Next
<1>3. ASSUME BackupInv, UNCHANGED backupVars PROVE BackupInv'
  BY <1>3 DEF backupVars, BackupInv, BackupTypes, OneAtATime, LiveComplete, CopyComplete, Progress,
              Bak!Closed
<1>4. BackupInv /\ [Next]_vars => BackupInv'
  BY <1>2, <1>3 DEF Next, vars
<1>5. BackupInv => Bak!LayersComplete
  BY DEF BackupInv, LiveComplete, CopyComplete, Bak!LayersComplete, Restoring
<1>6. ASSUME BackupInv, Bak!Restored PROVE db = copy.db /\ store = copy.files
  BY <1>6 DEF BackupInv, BackupTypes, Progress, Bak!Restored
<1>7. BackupInv => [Bak!Restored => db = copy.db /\ store = copy.files]_(Bak!vars)
  BY <1>6
<1> QED BY <1>1, <1>4, <1>5, <1>7, StepsOnly, PTL DEF BackupIsComplete, Bak!RestoredIsBackup

-----------------------------------------------------------------------------
(* AuditTamper *)

LEMMA AuditTamperRefined ==
  /\ Init => TamT!TamperInit
  /\ [Next]_vars => [TamT!TamperNext]_(TamT!tamperVars)
  /\ TamT!EditsLocated <=> EditsLocated
<1> USE DEF Tam!HashRecord, TamT!HashRecord, Tam!Newest, TamT!Newest, Tam!LastHash,
             TamT!LastHash, Tam!Before, TamT!Before, Tam!Follows, TamT!Follows,
             Tam!VerifyChain, TamT!VerifyChain, Tam!FirstBreak, TamT!FirstBreak,
             Tam!Visible, TamT!Visible, Tam!CanWrite, TamT!CanWrite, Tam!NewId,
             TamT!NewId, Tam!Genesis, TamT!Genesis, Tam!Init, TamT!Init, Tam!Open,
             TamT!Open, Tam!WriteOther, TamT!WriteOther, Tam!ReadLast, TamT!ReadLast,
             Tam!Insert, TamT!Insert, Tam!Commit, TamT!Commit, Tam!Rollback,
             TamT!Rollback, Tam!Next, TamT!Next, Tam!EditAllowed, TamT!EditAllowed,
             Tam!Alter, TamT!Alter, Tam!After, TamT!After, Tam!Successor,
             TamT!Successor, Tam!Remove, TamT!Remove, Tam!Reading, TamT!Reading,
             Tam!Broken, TamT!Broken
<1>1. Init => TamT!TamperInit
  BY DEF Init, Tam!TamperInit, TamT!TamperInit
<1>2. Tam!TamperNext => TamT!TamperNext
  BY DEF Tam!TamperNext, TamT!TamperNext
<1>3. [Next]_vars => [TamT!TamperNext]_(TamT!tamperVars)
  BY <1>2 DEF Next, vars, TamT!tamperVars, TamT!vars, tamperVars
<1>4. TamT!EditsLocated <=> EditsLocated
  BY DEF EditsLocated, Tam!EditsLocated, TamT!EditsLocated
<1> QED BY <1>1, <1>3, <1>4

\* The sessions of the application write to the audit log on SQLite, in units that only
\* record and units that write before: whatever is edited behind their back, verify_chain
\* stops at or before the first row that shows it, at a row that was edited, follows a
\* removed one or was overtaken as it was recorded (core/audit.py).
THEOREM EditsAreLocated == ASSUME MaxEvents \in Nat PROVE Spec => []EditsLocated
<1>1. TamT!TamperSpec => []TamT!EditsLocated
  BY TamT!TamperLocated DEF TamT!AuditAssumption
<1> QED BY <1>1, StepsOnly, AuditTamperRefined, PTL DEF TamT!TamperSpec

-----------------------------------------------------------------------------
(* SignIn *)

LEMMA SignInRefined ==
  /\ Init => SigT!Init
  /\ [Next]_vars => [SigT!Next]_(SigT!vars)
  /\ SigT!AccessIsCurrent <=> AccessIsCurrent
<1> USE DEF Sig!Roles, SigT!Roles, Sig!Allowed, SigT!Allowed, Sig!Blank, SigT!Blank,
             Sig!Idle, SigT!Idle, Sig!Login, SigT!Login, Sig!SignedOut, SigT!SignedOut,
             Sig!HandedOver, SigT!HandedOver, Sig!Expired, SigT!Expired,
             Sig!ValidateSession, SigT!ValidateSession, Sig!Valid, SigT!Valid,
             Sig!Resolve, SigT!Resolve, Sig!Page, SigT!Page, Sig!SignOut, SigT!SignOut,
             Sig!Reload, SigT!Reload, Sig!Administer, SigT!Administer, Sig!Tick,
             SigT!Tick
<1>1. Init => SigT!Init
  BY DEF Init, Sig!Init, SigT!Init
<1>2. Sig!Next => SigT!Next
  BY DEF Sig!Next, SigT!Next
<1>3. [Next]_vars => [SigT!Next]_(SigT!vars)
  BY <1>2 DEF Next, vars, SigT!vars, signInVars
<1>4. SigT!AccessIsCurrent <=> AccessIsCurrent
  BY DEF AccessIsCurrent, Sig!AccessIsCurrent, SigT!AccessIsCurrent,
     Sig!Cardinality, SigT!Cardinality
<1> QED BY <1>1, <1>3, <1>4

\* Whatever the other components do, a page runs only for a user who is signed in from
\* that tab, was active within the timeout and still exists, under the role the database
\* holds at that moment (_resolve_session of app.py, validate_session of
\* core/security.py).
THEOREM SignInIsCurrent == ASSUME SigT!Sound PROVE Spec => []AccessIsCurrent
<1>1. SigT!Spec => []SigT!AccessIsCurrent
  BY SigT!OnlyCurrentUsers
<1> QED BY <1>1, StepsOnly, SignInRefined, PTL DEF SigT!Spec

-----------------------------------------------------------------------------
(* Gate *)

Checks == {"absent", "contract", "duplicates", "no prices", "negative price",
          "negative quantity", "negative expenditure"}
Dimensions == {"uniqueness", "validity", "consistency", "completeness"}

\* The collections are what the module says they are.
Described ==
  /\ \A d \in Collections : /\ d.mistyped \in Nat /\ d.mostlyEmpty \in Nat
                            /\ d.absent \in BOOLEAN /\ d.sample \in BOOLEAN
  /\ None \notin Collections

LEMMA FailsIsSequence ==
  ASSUME NEW d, NEW check \in Checks PROVE Gat!Fails(d, check) \in Seq(Checks)
<1>1. <<check>> \in Seq(Checks) /\ <<>> \in Seq(Checks)
  OBVIOUS
<1> QED BY <1>1 DEF Gat!Fails

LEMMA ErrorsIsSequence ==
  ASSUME Described, NEW d \in Collections PROVE Gat!Errors(d) \in Seq(Checks)
<1> DEFINE n == d.mistyped + (IF d.sample THEN 1 ELSE 0)
           contracts == [i \in 1..n |-> "contract"]
<1>1. n \in Nat
  BY DEF Described
<1>2. contracts \in Seq(Checks)
  <2>1. contracts \in [1..n -> Checks]
    BY DEF Checks
  <2> HIDE DEF contracts, n
  <2> QED BY <1>1, <2>1
<1>3. ASSUME NEW s \in Seq(Checks), NEW t \in Seq(Checks) PROVE s \o t \in Seq(Checks)
  OBVIOUS
<1>4. <<>> \in Seq(Checks) /\ <<"absent">> \in Seq(Checks)
  BY DEF Checks
<1>5. Gat!Fails(d, "duplicates") \o Gat!Fails(d, "no prices") \o Gat!Fails(d, "negative price")
        \o Gat!Fails(d, "negative quantity") \o Gat!Fails(d, "negative expenditure") \in Seq(Checks)
  <2>1. /\ Gat!Fails(d, "duplicates") \in Seq(Checks)
        /\ Gat!Fails(d, "no prices") \in Seq(Checks)
        /\ Gat!Fails(d, "negative price") \in Seq(Checks)
        /\ Gat!Fails(d, "negative quantity") \in Seq(Checks)
        /\ Gat!Fails(d, "negative expenditure") \in Seq(Checks)
    BY FailsIsSequence DEF Checks
  <2> QED BY <1>3, <2>1
<1> HIDE DEF contracts
<1>6. contracts \o <<>> \in Seq(Checks)
  BY <1>2, <1>3, <1>4
<1>7. CASE d.absent
  BY <1>4, <1>7 DEF Gat!Errors
<1>8. CASE ~d.absent /\ d.mistyped > 0
  BY <1>6, <1>8 DEF Gat!Errors, contracts
<1>9. CASE ~d.absent /\ ~(d.mistyped > 0)
  <2>1. Gat!Errors(d) = contracts \o (Gat!Fails(d, "duplicates") \o Gat!Fails(d, "no prices")
                      \o Gat!Fails(d, "negative price") \o Gat!Fails(d, "negative quantity")
                      \o Gat!Fails(d, "negative expenditure"))
    BY <1>9 DEF Gat!Errors, contracts
  <2> QED BY <1>2, <1>3, <1>5, <2>1
<1> QED BY <1>7, <1>8, <1>9

LEMMA Concatenation ==
  ASSUME NEW S, NEW s \in Seq(S), NEW t \in Seq(S)
  PROVE  /\ s \o t \in Seq(S) /\ Len(s \o t) = Len(s) + Len(t)
         /\ \A i \in 1..Len(s) : (s \o t)[i] = s[i]
         /\ \A i \in 1..Len(t) : (s \o t)[Len(s) + i] = t[i]
  OBVIOUS

\* The critical findings are the failed checks, none of which is one of completeness,
\* and after them the mostly empty columns.
LEMMA CriticalFindings ==
  ASSUME Described, NEW d \in Collections
  PROVE  /\ DOMAIN Gat!Critical(d) \subseteq Nat
         /\ Gat!Passed(d) <=> \A k \in DOMAIN Gat!Critical(d) : Gat!Critical(d)[k] = "completeness"
<1> DEFINE m == Len(Gat!Errors(d))
           failed == [i \in DOMAIN Gat!Errors(d) |-> Gat!DimensionOf(Gat!Errors(d)[i])]
           empty == IF d.absent THEN <<>> ELSE [i \in 1..d.mostlyEmpty |-> "completeness"]
<1>1. /\ Gat!Errors(d) \in Seq(Checks) /\ m \in Nat /\ DOMAIN Gat!Errors(d) = 1..m
      /\ Gat!Passed(d) <=> m = 0
  BY ErrorsIsSequence DEF Gat!Passed
<1>2. \A e : Gat!DimensionOf(e) \in Dimensions /\ Gat!DimensionOf(e) # "completeness"
  BY DEF Gat!DimensionOf, Dimensions
<1>3. failed \in [1..m -> Dimensions] /\ \A i \in 1..m : failed[i] # "completeness"
  <2> HIDE DEF m
  <2> QED BY <1>1, <1>2
<1>4. failed \in Seq(Dimensions) /\ Len(failed) = m
  <2> HIDE DEF failed, m
  <2> QED BY <1>1, <1>3
<1>5. empty \in Seq(Dimensions) /\ \A i \in DOMAIN empty : empty[i] = "completeness"
  <2>1. CASE d.absent
    BY <2>1
  <2>2. CASE ~d.absent
    <3> DEFINE n == d.mostlyEmpty
               all == [i \in 1..n |-> "completeness"]
    <3>1. n \in Nat /\ empty = all
      BY <2>2 DEF Described
    <3>2. all \in [1..n -> Dimensions] /\ \A i \in 1..n : all[i] = "completeness"
      BY DEF Dimensions
    <3>3. all \in Seq(Dimensions) /\ DOMAIN all = 1..n
      <4> HIDE DEF all, n
      <4> QED BY <3>1, <3>2
    <3> HIDE DEF all, empty, n
    <3> QED BY <3>1, <3>2, <3>3
  <2> QED BY <2>1, <2>2
<1>6. Gat!Critical(d) = failed \o empty
  BY DEF Gat!Critical
<1> HIDE DEF failed, empty, m
<1>7. /\ Gat!Critical(d) \in Seq(Dimensions) /\ Len(Gat!Critical(d)) = m + Len(empty)
      /\ \A i \in 1..m : Gat!Critical(d)[i] = failed[i]
      /\ \A i \in 1..Len(empty) : Gat!Critical(d)[m + i] = empty[i]
  <2>1. /\ failed \o empty \in Seq(Dimensions)
        /\ Len(failed \o empty) = Len(failed) + Len(empty)
        /\ \A i \in 1..Len(failed) : (failed \o empty)[i] = failed[i]
        /\ \A i \in 1..Len(empty) : (failed \o empty)[Len(failed) + i] = empty[i]
    <3>1. failed \in Seq(Dimensions) /\ empty \in Seq(Dimensions)
      BY <1>4, <1>5
    <3> QED BY <3>1, Concatenation
  <2> QED BY <1>4, <1>6, <2>1
<1>8. DOMAIN Gat!Critical(d) = 1..(m + Len(empty)) /\ Len(empty) \in Nat
  BY <1>1, <1>5, <1>7
<1>9. ASSUME NEW i \in DOMAIN Gat!Critical(d), i > m PROVE Gat!Critical(d)[i] = "completeness"
  <2>1. i - m \in 1..Len(empty) /\ i = m + (i - m)
    BY <1>1, <1>8, <1>9
  <2> QED BY <1>5, <1>7, <2>1
<1> QED BY <1>1, <1>3, <1>7, <1>8, <1>9

\* A blocked page draws at least the form of its first open finding.
LEMMA BlockedHasForm ==
  ASSUME Described, NEW d \in Collections, Gat!Blocking(d)
  PROVE  Gat!Forms(d) # {}
<1>1. Gat!Open(d) \subseteq Nat /\ Gat!Open(d) # {}
  BY CriticalFindings DEF Gat!Open, Gat!Blocking
<1>2. PICK k \in Gat!Open(d) : \A j \in Gat!Open(d) : k <= j
  BY <1>1, Least
<1>3. \A i, j \in Gat!Open(d) : ~(i < j /\ j <= k)
  BY <1>1, <1>2
<1> QED BY <1>2, <1>3 DEF Gat!Forms

Decided(hash, dimension, D) ==
  \E e \in D : e[1].hash = hash /\ Gat!Critical(e[1])[e[2]] = dimension

\* What compiling gave, in terms of the decisions D that have been taken.
Justified(result, D) ==
  result # None =>
    /\ \A k \in result.waived :
         Decided(result.collection.hash, Gat!Critical(result.collection)[k], D)
    /\ result.indices <=>
         \A k \in result.waived : Gat!Critical(result.collection)[k] = "completeness"

\* The strengthening: an override stands for a decision that somebody took.
GateInv ==
  /\ onPage \in [Sessions -> Collections \cup {None}]
  /\ outcome = [t \in Sessions |-> outcome[t]]
  /\ \A o \in overrides : Decided(o.hash, o.dimension, decided)
  /\ \A t \in Sessions : Justified(outcome[t], decided)

\* Compiling a collection: nothing of it is open, so all of it was overridden.
LEMMA OutcomeJustified ==
  ASSUME Described, GateInv, NEW d \in Collections
  PROVE  Justified(Gat!Outcome(d), decided)
<1>1. CASE Gat!Blocking(d)
  BY <1>1 DEF Gat!Outcome, Justified
<1>2. CASE ~Gat!Blocking(d)
  <2>1. /\ Gat!Outcome(d).collection = d /\ Gat!Outcome(d).waived = DOMAIN Gat!Critical(d)
        /\ Gat!Outcome(d).indices = Gat!Passed(d)
    BY <1>2 DEF Gat!Outcome
  <2>2. ASSUME NEW k \in DOMAIN Gat!Critical(d)
        PROVE  Decided(d.hash, Gat!Critical(d)[k], decided)
    <3> DEFINE o == [hash |-> d.hash, dimension |-> Gat!Critical(d)[k]]
    <3>1. o \in overrides
      BY <1>2 DEF Gat!Blocking, Gat!Open, Gat!Overridden
    <3>2. Decided(o.hash, o.dimension, decided)
      BY <3>1 DEF GateInv
    <3> QED BY <3>2
  <2> QED BY <2>1, <2>2, CriticalFindings DEF Justified
<1> QED BY <1>1, <1>2

LEMMA GateInvHolds ==
  ASSUME Described, GateInv, [Gat!Next]_(Gat!vars)
  PROVE  GateInv'
<1>1. CASE UNCHANGED Gat!vars
  BY <1>1 DEF Gat!vars, GateInv
<1>2. ASSUME NEW t \in Sessions, NEW d \in Collections, Gat!Ingest(t, d) PROVE GateInv'
  <2>1. /\ outcome' = [outcome EXCEPT ![t] = Gat!Outcome(d)]
        /\ overrides' = overrides /\ decided' = decided
    BY <1>2 DEF Gat!Ingest
  <2>2. /\ outcome' = [s \in Sessions |-> outcome'[s]]
        /\ \A s \in Sessions : outcome'[s] = IF s = t THEN Gat!Outcome(d) ELSE outcome[s]
    BY <2>1 DEF GateInv
  <2>3. onPage' \in [Sessions -> Collections \cup {None}]
    BY <1>2 DEF Gat!Ingest, GateInv
  <2> QED BY <2>1, <2>2, <2>3, OutcomeJustified DEF GateInv
<1>3. ASSUME NEW t \in Sessions, NEW k \in 1..8, Gat!Submit(t, k) PROVE GateInv'
  <2> DEFINE d == onPage[t]
             o == [hash |-> d.hash, dimension |-> Gat!Critical(d)[k]]
  <2>1. /\ overrides' = overrides \cup {o}
        /\ decided' = decided \cup {<<d, k>>}
        /\ onPage' = onPage /\ outcome' = outcome
    BY <1>3 DEF Gat!Submit
  <2>2. \A h, m : Decided(h, m, decided) => Decided(h, m, decided')
    BY <2>1 DEF Decided
  <2>3. Decided(o.hash, o.dimension, decided')
    <3> DEFINE e == <<d, k>>
    <3>1. e[1] = d /\ e[2] = k /\ e \in decided'
      BY <2>1
    <3>2. o.hash = d.hash /\ o.dimension = Gat!Critical(d)[k]
      OBVIOUS
    <3> HIDE DEF d, e, o
    <3> QED BY <3>1, <3>2 DEF Decided
  <2>4. \A p \in overrides' : Decided(p.hash, p.dimension, decided')
    BY <2>1, <2>2, <2>3 DEF GateInv
  <2>5. \A s \in Sessions : Justified(outcome[s], decided')
    BY <2>2 DEF GateInv, Justified
  <2> QED BY <2>1, <2>4, <2>5 DEF GateInv
<1> QED BY <1>1, <1>2, <1>3 DEF Gat!Next

\* For any collections and any number of tabs: a critical finding is waived only after
\* somebody decided on one of its dimension and content; an index is built exactly
\* when nothing structural was waived; a blocked page has a form to decide on
\* (pages/ingest.py, data/validation.py, run_pipeline).
THEOREM GateIsDecided == ASSUME Described PROVE Spec => []DecisionsOpenTheGate
<1>1. Init => GateInv
  BY DEF Init, Gat!Init, GateInv, Justified
<1>2. [Next]_vars => [Gat!Next]_(Gat!vars)
  BY DEF Next, vars, Gat!vars, gateVars
<1>3. GateInv /\ [Next]_vars => GateInv'
  BY <1>2, GateInvHolds
<1>4. GateInv => DecisionsOpenTheGate
  BY BlockedHasForm DEF GateInv, Justified, Decided, DecisionsOpenTheGate,
     Gat!DecisionsOpenTheGate
<1> QED BY <1>1, <1>3, <1>4, StepsOnly, PTL

-----------------------------------------------------------------------------
(* ProjectionDesk *)

LEMMA ProjectionDeskRefined ==
  /\ Init => ProT!Init
  /\ [Next]_vars => [ProT!Next]_(ProT!vars)
  /\ ProT!ProjectionsReproduce <=> ProjectionsReproduce
<1>0. /\ Pro!Analyses = ProT!Analyses /\ Pro!Labels = ProT!Labels /\ Pro!Workbooks = ProT!Workbooks
      /\ Pro!Keys = ProT!Keys /\ Pro!Blank = ProT!Blank
  BY DEF Pro!Analyses, ProT!Analyses, Pro!Labels, ProT!Labels, Pro!Workbooks, ProT!Workbooks,
         Pro!Keys, ProT!Keys, Pro!Blank, ProT!Blank
<1>1. Init => ProT!Init
  BY <1>0 DEF Init, Pro!Init, ProT!Init
<1>2. Pro!Next => ProT!Next
  <2>1. ASSUME NEW t, NEW w, NEW a, NEW title
        PROVE  Pro!Show(t, w, a, title) <=> ProT!Show(t, w, a, title)
    BY DEF Pro!Show, ProT!Show
  <2>2. ASSUME NEW key, NEW d PROVE Pro!Store(key, d) <=> ProT!Store(key, d)
    <3>1. Pro!Entries = ProT!Entries
      BY <1>0 DEF Pro!Entries, ProT!Entries
    <3>2. \A S : Pro!Cardinality(S) = ProT!Cardinality(S)
      BY DEF Pro!Cardinality, ProT!Cardinality
    <3> QED BY <1>0, <3>1, <3>2 DEF Pro!Store, ProT!Store
  <2>3. ASSUME NEW t, NEW bytes, NEW d, NEW c, NEW title
        PROVE  Pro!Compile(t, bytes, d, c, title) <=> ProT!Compile(t, bytes, d, c, title)
    BY <2>1, <2>2 DEF Pro!Compile, ProT!Compile
  <2>4. ASSUME NEW t, NEW d, NEW c, NEW title
        PROVE  /\ Pro!Ingest(t, d, c, title) <=> ProT!Ingest(t, d, c, title)
               /\ Pro!Recompile(t, c) <=> ProT!Recompile(t, c)
    BY <2>3 DEF Pro!Ingest, ProT!Ingest, Pro!Recompile, ProT!Recompile
  <2>5. ASSUME NEW t, NEW a PROVE Pro!LoadApproved(t, a) <=> ProT!LoadApproved(t, a)
    BY <2>1 DEF Pro!LoadApproved, ProT!LoadApproved
  <2>6. ASSUME NEW t, NEW file, NEW key
        PROVE  /\ Pro!Upload(t, file) <=> ProT!Upload(t, file)
               /\ Pro!Evict(key) <=> ProT!Evict(key)
               /\ Pro!Clear(t) <=> ProT!Clear(t)
               /\ Pro!NewSession(t) <=> ProT!NewSession(t)
               /\ Pro!RegisterRun(t) <=> ProT!RegisterRun(t)
    BY <1>0 DEF Pro!Upload, ProT!Upload, Pro!Evict, ProT!Evict, Pro!Clear, ProT!Clear,
       Pro!NewSession, ProT!NewSession, Pro!RegisterRun, ProT!RegisterRun
  <2>7. ASSUME NEW t, NEW kind
        PROVE  /\ Pro!Build(t, kind) <=> ProT!Build(t, kind)
               /\ Pro!Export(t, kind) <=> ProT!Export(t, kind)
               /\ Pro!RegisterProjection(t, kind) <=> ProT!RegisterProjection(t, kind)
    BY DEF Pro!Build, ProT!Build, Pro!OnPage, ProT!OnPage, Pro!Export, ProT!Export,
       Pro!RunOf, ProT!RunOf, Pro!RegisterProjection, ProT!RegisterProjection
  <2> QED BY <1>0, <2>4, <2>5, <2>6, <2>7 DEF Pro!Next, ProT!Next
<1>3. [Next]_vars => [ProT!Next]_(ProT!vars)
  BY <1>2 DEF Next, vars, ProT!vars, deskVars
<1>4. ProT!ProjectionsReproduce <=> ProjectionsReproduce
  BY DEF ProjectionsReproduce, Pro!ProjectionsReproduce, ProT!ProjectionsReproduce,
     Pro!Matches, ProT!Matches
<1> QED BY <1>1, <1>3, <1>4

\* Until a tab is careless or mistaken (the analysis cache gave it the analysis of other
\* data than it read), a registered projection is rebuilt from its run and an exported one
\* bears the stamp of the analysis it was made from (pages/forecasting.py,
\* pages/scenarios.py, compile_and_store, reproduce_projection of core/registry.py).
THEOREM DeskReproduces == ASSUME ProT!Sound PROVE Spec => []ProjectionsReproduce
<1>1. ProT!Spec => []ProT!ProjectionsReproduce
  BY ProT!RegisteredIsReproduced
<1> QED BY <1>1, StepsOnly, ProjectionDeskRefined, PTL DEF ProT!Spec

-----------------------------------------------------------------------------
(* Store *)

UploadSteps == {"rawOpen", "rawWrite", "sidecarRead", "sidecarOpen", "sidecarWrite", "event"}
LayerSteps == {"cleanOpen", "cleanWrite", "logOpen", "logWrite"}
UploadJob == [step : UploadSteps, receipt : Nat, read : SUBSET Nat]
LayerJob == [step : LayerSteps, config : Configs]
Jobs == {None} \cup UploadJob \cup LayerJob

\* None is no job, and neither None nor Torn is the content of a file.
Distinct ==
  /\ None \notin UploadJob \cup LayerJob
  /\ Torn \notin SUBSET Nat
  /\ "whole" \notin {None, Torn} /\ None # Torn

StoreTypes ==
  /\ job \in [Sessions -> Jobs] /\ uploads \in Nat
  /\ sidecar \in {Torn} \cup SUBSET Nat /\ acked \in SUBSET Nat

In(u, steps) == job[u] # None /\ job[u].step \in steps
Alone(file) == \A u, v \in Sto!Busy(file) : u = v

\* A first upload opens a file that is not there; who is past the raw layer has it.
RawInv ==
  \/ "raw" \in raced
  \/ /\ Alone("raw")
     /\ \A u \in Sessions : In(u, {"rawOpen"}) => raw = None
     /\ \A u \in Sessions : In(u, {"rawWrite"}) => raw = Torn
     /\ \A u \in Sessions : In(u, UploadSteps \ {"rawOpen", "rawWrite"}) => raw = "whole"
     /\ acked # {} => raw = "whole"

\* Receipts that are acknowledged or about to be are in the sidecar, or in what the
\* session that writes it has read.
Due == acked \cup {job[u].receipt : u \in {v \in Sessions : In(v, {"event"})}}
SidecarInv ==
  \/ "sidecar" \in raced \cup broken
  \/ /\ Alone("sidecar")
     /\ \A u \in Sto!Busy("sidecar") : Due \subseteq job[u].read
     /\ Sto!Busy("sidecar") = {} => sidecar # Torn /\ Due \subseteq sidecar

\* The cleaned layer is that of the session which is about to write its log.
LayerInv ==
  \/ "layer" \in raced \cup broken
  \/ /\ Alone("layer")
     /\ \A u \in Sessions : In(u, {"logOpen", "logWrite"}) => cleaned = job[u].config
     /\ Sto!Busy("layer") = {} => cleaned = log

StoreInv == StoreTypes /\ RawInv /\ SidecarInv /\ LayerInv

LEMMA Files3 ==
  /\ Sto!Steps("raw") = {"rawOpen", "rawWrite"}
  /\ Sto!Steps("sidecar") = {"sidecarOpen", "sidecarWrite"}
  /\ Sto!Steps("layer") = LayerSteps
BY DEF Sto!Steps, LayerSteps

\* Only the session that moves enters or leaves a file.
LEMMA BusyAfter ==
  ASSUME Distinct, StoreTypes, NEW u \in Sessions, NEW j \in Jobs, job' = [job EXCEPT ![u] = j]
  PROVE  /\ job'[u] = j /\ job' \in [Sessions -> Jobs]
         /\ \A v \in Sessions : v # u => job'[v] = job[v]
         /\ \A file : \A v \in Sessions : v # u => (v \in Sto!Busy(file)' <=> v \in Sto!Busy(file))
         /\ \A file : u \in Sto!Busy(file)' <=> j # None /\ j.step \in Sto!Steps(file)
         /\ \A file : Sto!Busy(file)' \subseteq Sessions /\ Sto!Busy(file) \subseteq Sessions
<1>1. job'[u] = j /\ job' \in [Sessions -> Jobs] /\ \A v \in Sessions : v # u => job'[v] = job[v]
  BY DEF StoreTypes
<1> QED BY <1>1 DEF Sto!Busy

\* A job that goes on to another of its steps.
LEMMA OnwardJob ==
  /\ \A j \in UploadJob, s \in UploadSteps :
       /\ [j EXCEPT !.step = s] \in UploadJob
       /\ [j EXCEPT !.step = s].step = s
       /\ [j EXCEPT !.step = s].receipt = j.receipt
       /\ [j EXCEPT !.step = s].read = j.read
  /\ \A j \in LayerJob, s \in LayerSteps :
       /\ [j EXCEPT !.step = s] \in LayerJob
       /\ [j EXCEPT !.step = s].step = s
       /\ [j EXCEPT !.step = s].config = j.config
BY DEF UploadJob, LayerJob

LEMMA JobOfStep ==
  ASSUME StoreTypes, NEW u \in Sessions, NEW s, Sto!At(u, s)
  PROVE  /\ job[u] # None /\ job[u].step = s
         /\ s \in UploadSteps => job[u] \in UploadJob
         /\ s \in LayerSteps => job[u] \in LayerJob
BY DEF StoreTypes, Sto!At, Jobs, UploadJob, LayerJob, UploadSteps, LayerSteps

\* A session alone in a file, or joined by another, which is remembered.
LEMMA EnterAlone ==
  ASSUME NEW u \in Sessions, NEW file, Sto!Enter(u, file)
  PROVE  /\ raced \subseteq raced'
         /\ file \in raced' \/ Sto!Busy(file) \subseteq {u}
         /\ \A f : f # file => (f \in raced' <=> f \in raced)
BY DEF Sto!Enter

Later == UploadSteps \ {"rawOpen", "rawWrite"}
Moves(u, j) == u \in Sessions /\ j \in Jobs /\ job' = [job EXCEPT ![u] = j]
Remembers == raced \subseteq raced' /\ broken \subseteq broken'

\* A session that does not touch the raw layer: it has none to do with it, or is past it.
LEMMA RawLeft ==
  ASSUME Distinct, StoreTypes, RawInv, Remembers, NEW u \in Sessions, NEW j \in Jobs, Moves(u, j),
         j # None => j.step \in LayerSteps \/ (j.step \in Later /\ In(u, Later)),
         raw' = raw, acked' = acked
  PROVE  RawInv'
<1>1. /\ job'[u] = j /\ \A v \in Sessions : v # u => job'[v] = job[v]
      /\ \A v \in Sessions : v # u => (v \in Sto!Busy("raw")' <=> v \in Sto!Busy("raw"))
      /\ u \in Sto!Busy("raw")' <=> j # None /\ j.step \in Sto!Steps("raw")
      /\ Sto!Busy("raw")' \subseteq Sessions
  BY BusyAfter DEF Moves
<1>2. u \notin Sto!Busy("raw")'
  BY <1>1, Files3 DEF Later, LayerSteps
<1>3. CASE "raw" \in raced
  BY <1>3 DEF Remembers, RawInv
<1>4. CASE "raw" \notin raced
  <2>1. Alone("raw")'
    BY <1>1, <1>2, <1>4 DEF RawInv, Alone
  <2>2. \A v \in Sessions : \A steps : v # u => (In(v, steps)' <=> In(v, steps))
    BY <1>1 DEF In
  <2>3. ~In(u, {"rawOpen"})' /\ ~In(u, {"rawWrite"})' /\ (In(u, Later)' => In(u, Later))
    BY <1>1 DEF In, Later, LayerSteps, UploadSteps
  <2> QED BY <1>4, <2>1, <2>2, <2>3 DEF RawInv, Later
<1> QED BY <1>3, <1>4

\* A session that neither was writing the sidecar nor comes to.
LEMMA SidecarLeft ==
  ASSUME Distinct, StoreTypes, SidecarInv, Remembers, NEW u \in Sessions, NEW j \in Jobs, Moves(u, j),
         u \notin Sto!Busy("sidecar"),
         j # None => j.step \notin {"sidecarOpen", "sidecarWrite", "event"},
         sidecar' = sidecar, acked' = acked
  PROVE  SidecarInv'
<1>1. /\ job'[u] = j /\ \A v \in Sessions : v # u => job'[v] = job[v]
      /\ \A v \in Sessions : v # u => (v \in Sto!Busy("sidecar")' <=> v \in Sto!Busy("sidecar"))
      /\ u \in Sto!Busy("sidecar")' <=> j # None /\ j.step \in Sto!Steps("sidecar")
      /\ Sto!Busy("sidecar")' \subseteq Sessions /\ Sto!Busy("sidecar") \subseteq Sessions
  BY BusyAfter DEF Moves
<1>2. Sto!Busy("sidecar")' = Sto!Busy("sidecar")
  BY <1>1, Files3
<1>3. Due' \subseteq Due
  BY <1>1 DEF Due, In
<1>4. \A v \in Sto!Busy("sidecar") : job'[v] = job[v]
  BY <1>1
<1> QED BY <1>2, <1>3, <1>4 DEF SidecarInv, Alone, Remembers

\* A session that neither was writing the cleaned layer or its log nor comes to.
LEMMA LayerLeft ==
  ASSUME Distinct, StoreTypes, LayerInv, Remembers, NEW u \in Sessions, NEW j \in Jobs, Moves(u, j),
         u \notin Sto!Busy("layer"), j # None => j.step \notin LayerSteps,
         cleaned' = cleaned, log' = log
  PROVE  LayerInv'
<1>1. /\ job'[u] = j /\ \A v \in Sessions : v # u => job'[v] = job[v]
      /\ \A v \in Sessions : v # u => (v \in Sto!Busy("layer")' <=> v \in Sto!Busy("layer"))
      /\ u \in Sto!Busy("layer")' <=> j # None /\ j.step \in Sto!Steps("layer")
      /\ Sto!Busy("layer")' \subseteq Sessions /\ Sto!Busy("layer") \subseteq Sessions
  BY BusyAfter DEF Moves
<1>2. Sto!Busy("layer")' = Sto!Busy("layer")
  BY <1>1, Files3
<1>3. \A v \in Sessions : \A steps : v # u => (In(v, steps)' <=> In(v, steps))
  BY <1>1 DEF In
<1>4. ~In(u, {"logOpen", "logWrite"})'
  BY <1>1 DEF In, LayerSteps
<1> QED BY <1>1, <1>2, <1>3, <1>4 DEF LayerInv, Alone, Remembers

\* Where a session is.
LEMMA Whereabouts ==
  ASSUME StoreTypes, NEW u \in Sessions, NEW s, Sto!At(u, s)
  PROVE  /\ \A file : u \in Sto!Busy(file) <=> s \in Sto!Steps(file)
         /\ \A steps : In(u, steps) <=> s \in steps
BY DEF Sto!At, Sto!Busy, In

LEMMA NotAtWork ==
  ASSUME NEW u \in Sessions, job[u] = None
  PROVE  \A file : u \notin Sto!Busy(file)
BY DEF Sto!Busy

LEMMA StartUploadKeeps ==
  ASSUME Distinct, StoreInv, NEW u \in Sessions, Sto!StartUpload(u) PROVE StoreInv'
<1> USE DEF StoreInv
<1>1. /\ UNCHANGED <<raw, sidecar, cleaned, log, acked, broken>> /\ uploads' = uploads + 1 /\ job[u] = None
  BY DEF Sto!StartUpload
<1>2. CASE raw = None /\ Sto!Enter(u, "raw")
           /\ job' = [job EXCEPT ![u] = [step |-> "rawOpen", receipt |-> uploads, read |-> {}]]
  <2> DEFINE j == [step |-> "rawOpen", receipt |-> uploads, read |-> {}]
  <2>1. j \in Jobs /\ j # None /\ j.step = "rawOpen" /\ Moves(u, j)
    BY <1>2 DEF Distinct, Jobs, UploadJob, UploadSteps, StoreTypes, Moves
  <2> HIDE DEF j
  <2>2. Remembers
    BY <1>1, <1>2, EnterAlone DEF Remembers
  <2>3. /\ job'[u] = j /\ job' \in [Sessions -> Jobs] /\ \A v \in Sessions : v # u => job'[v] = job[v]
        /\ \A v \in Sessions : v # u => (v \in Sto!Busy("raw")' <=> v \in Sto!Busy("raw"))
        /\ Sto!Busy("raw")' \subseteq Sessions /\ Sto!Busy("raw") \subseteq Sessions
    BY <2>1, BusyAfter DEF Moves
  <2>4. RawInv'
    <3>1. CASE "raw" \in raced'
      BY <3>1 DEF RawInv
    <3>2. CASE "raw" \notin raced'
      <4>1. "raw" \notin raced /\ Sto!Busy("raw") \subseteq {u}
        BY <1>2, <3>2, EnterAlone
      <4>2. Alone("raw")'
        BY <2>3, <4>1 DEF Alone
      <4>3. \A v \in Sessions : \A steps : v # u => (In(v, steps)' <=> In(v, steps))
        BY <2>3 DEF In
      <4>4. ~In(u, {"rawWrite"})' /\ ~In(u, UploadSteps \ {"rawOpen", "rawWrite"})'
        BY <2>1, <2>3 DEF In
      <4> QED BY <1>1, <1>2, <4>1, <4>2, <4>3, <4>4 DEF RawInv, Distinct
    <3> QED BY <3>1, <3>2
  <2> QED BY <1>1, <2>1, <2>2, <2>3, <2>4, SidecarLeft, LayerLeft, NotAtWork DEF StoreTypes, LayerSteps
<1>3. CASE raw = "whole" /\ raced' = raced
           /\ job' = [job EXCEPT ![u] = [step |-> "sidecarRead", receipt |-> uploads, read |-> {}]]
  <2> DEFINE j == [step |-> "sidecarRead", receipt |-> uploads, read |-> {}]
  <2>1. j \in Jobs /\ j # None /\ j.step = "sidecarRead" /\ Moves(u, j)
    BY <1>3 DEF Distinct, Jobs, UploadJob, UploadSteps, StoreTypes, Moves
  <2> HIDE DEF j
  <2>2. Remembers
    BY <1>1, <1>3 DEF Remembers
  <2>3. /\ job'[u] = j /\ job' \in [Sessions -> Jobs] /\ \A v \in Sessions : v # u => job'[v] = job[v]
        /\ \A v \in Sessions : v # u => (v \in Sto!Busy("raw")' <=> v \in Sto!Busy("raw"))
        /\ u \in Sto!Busy("raw")' <=> j # None /\ j.step \in Sto!Steps("raw")
        /\ Sto!Busy("raw")' \subseteq Sessions /\ Sto!Busy("raw") \subseteq Sessions
    BY <2>1, BusyAfter DEF Moves
  <2>4. RawInv'
    <3>1. Alone("raw")' \/ ~Alone("raw")
      BY <2>1, <2>3, Files3 DEF Alone
    <3>2. \A v \in Sessions : \A steps : v # u => (In(v, steps)' <=> In(v, steps))
      BY <2>3 DEF In
    <3>3. ~In(u, {"rawOpen"})' /\ ~In(u, {"rawWrite"})'
      BY <2>1, <2>3 DEF In
    <3> QED BY <1>1, <1>3, <3>1, <3>2, <3>3 DEF RawInv
  <2> QED BY <1>1, <2>1, <2>2, <2>3, <2>4, SidecarLeft, LayerLeft, NotAtWork DEF StoreTypes, LayerSteps
<1>4. CASE UNCHANGED <<job, raced>>
  BY <1>1, <1>4 DEF StoreTypes, RawInv, SidecarInv, LayerInv, Alone, Sto!Busy, In, Due
<1> QED BY <1>2, <1>3, <1>4 DEF Sto!StartUpload

\* The job of a session that goes from one step to the next.
LEMMA Stepping ==
  ASSUME Distinct, StoreTypes, NEW u \in Sessions, NEW s, NEW t, Sto!At(u, s), Sto!Goto(u, t),
         (s \in UploadSteps /\ t \in UploadSteps) \/ (s \in LayerSteps /\ t \in LayerSteps)
  PROVE  /\ Moves(u, job'[u]) /\ job'[u] # None /\ job'[u].step = t
         /\ s \in UploadSteps => job'[u].receipt = job[u].receipt /\ job'[u].read = job[u].read
         /\ s \in LayerSteps => job'[u].config = job[u].config
<1> DEFINE j == [job[u] EXCEPT !.step = t]
<1>1. job' = [job EXCEPT ![u] = j] /\ job'[u] = j
  BY DEF Sto!Goto, StoreTypes
<1>2. CASE s \in UploadSteps
  <2>1. job[u] \in UploadJob /\ t \in UploadSteps /\ s \notin LayerSteps
    BY <1>2, JobOfStep DEF UploadSteps, LayerSteps
  <2>2. j \in UploadJob /\ j.step = t /\ j.receipt = job[u].receipt /\ j.read = job[u].read
    BY <2>1, OnwardJob
  <2> HIDE DEF j
  <2> QED BY <1>1, <2>1, <2>2, <1>2 DEF Moves, Jobs, Distinct
<1>3. CASE s \in LayerSteps
  <2>1. job[u] \in LayerJob /\ t \in LayerSteps /\ s \notin UploadSteps
    BY <1>3, JobOfStep DEF UploadSteps, LayerSteps
  <2>2. j \in LayerJob /\ j.step = t /\ j.config = job[u].config
    BY <2>1, OnwardJob
  <2> HIDE DEF j
  <2> QED BY <1>1, <2>1, <2>2, <1>3 DEF Moves, Jobs, Distinct
<1> QED BY <1>2, <1>3

\* What a move changes: where u is, and nothing of the others.
LEMMA AfterMove ==
  ASSUME Distinct, StoreTypes, NEW u \in Sessions, NEW j \in Jobs, Moves(u, j)
  PROVE  /\ job'[u] = j /\ job' \in [Sessions -> Jobs]
         /\ \A v \in Sessions : v # u => job'[v] = job[v]
         /\ \A file : \A v \in Sessions : v # u => (v \in Sto!Busy(file)' <=> v \in Sto!Busy(file))
         /\ \A file : u \in Sto!Busy(file)' <=> j # None /\ j.step \in Sto!Steps(file)
         /\ \A file : Sto!Busy(file)' \subseteq Sessions /\ Sto!Busy(file) \subseteq Sessions
         /\ \A steps : In(u, steps)' <=> j # None /\ j.step \in steps
         /\ \A v \in Sessions : \A steps : v # u => (In(v, steps)' <=> In(v, steps))
<1>1. job' = [job EXCEPT ![u] = j]
  BY DEF Moves
<1>2. job'[u] = j /\ \A v \in Sessions : v # u => job'[v] = job[v]
  BY <1>1, BusyAfter
<1>3. /\ \A steps : In(u, steps)' <=> j # None /\ j.step \in steps
      /\ \A v \in Sessions : \A steps : v # u => (In(v, steps)' <=> In(v, steps))
  BY <1>2 DEF In
<1> QED BY <1>1, <1>3, BusyAfter

LEMMA RawOpenKeeps ==
  ASSUME Distinct, StoreInv, NEW u \in Sessions, Sto!RawOpen(u) PROVE StoreInv'
<1> USE DEF StoreInv
<1> DEFINE j == job'[u]
<1>1. /\ UNCHANGED <<sidecar, cleaned, log, acked, uploads, raced, broken>> /\ raw' = Torn
      /\ Sto!At(u, "rawOpen") /\ Sto!Goto(u, "rawWrite")
  BY DEF Sto!RawOpen
<1>2. Moves(u, j) /\ j \in Jobs /\ j # None /\ j.step = "rawWrite"
  BY <1>1, Stepping DEF UploadSteps, Moves
<1> HIDE DEF j
<1>3. /\ u \in Sto!Busy("raw") /\ u \notin Sto!Busy("sidecar") /\ u \notin Sto!Busy("layer")
      /\ In(u, {"rawOpen"})
  BY <1>1, Whereabouts, Files3 DEF LayerSteps
<1>4. RawInv'
  <2>1. CASE "raw" \in raced
    BY <1>1, <2>1 DEF RawInv
  <2>2. CASE "raw" \notin raced
    <3>1. raw = None /\ Alone("raw")
      BY <1>3, <2>2 DEF RawInv
    <3>2. Alone("raw")'
      BY <1>2, <1>3, <3>1, AfterMove, Files3 DEF Alone
    <3>3. \A v \in Sessions : v # u => ~In(v, {"rawOpen"}) /\ ~In(v, {"rawWrite"})
      BY <1>3, <3>1, Files3 DEF Alone, In, Sto!Busy
    <3>4. acked = {} /\ \A v \in Sessions : ~In(v, UploadSteps \ {"rawOpen", "rawWrite"})
      BY <2>2, <3>1 DEF RawInv, Distinct
    <3>5. ~In(u, {"rawOpen"})' /\ ~In(u, UploadSteps \ {"rawOpen", "rawWrite"})'
      BY <1>2, AfterMove
    <3> QED BY <1>1, <1>2, <3>2, <3>3, <3>4, <3>5, AfterMove DEF RawInv
  <2> QED BY <2>1, <2>2
<1>5. SidecarInv' /\ LayerInv'
  BY <1>1, <1>2, <1>3, SidecarLeft, LayerLeft DEF Remembers, LayerSteps
<1> QED BY <1>1, <1>2, <1>4, <1>5, AfterMove DEF StoreTypes

LEMMA RawWriteKeeps ==
  ASSUME Distinct, StoreInv, NEW u \in Sessions, Sto!RawWrite(u) PROVE StoreInv'
<1> USE DEF StoreInv
<1> DEFINE j == job'[u]
<1>1. /\ UNCHANGED <<sidecar, cleaned, log, acked, uploads, raced, broken>> /\ raw' = "whole"
      /\ Sto!At(u, "rawWrite") /\ Sto!Goto(u, "sidecarRead")
  BY DEF Sto!RawWrite
<1>2. Moves(u, j) /\ j \in Jobs /\ j # None /\ j.step = "sidecarRead"
  BY <1>1, Stepping DEF UploadSteps, Moves
<1> HIDE DEF j
<1>3. /\ u \in Sto!Busy("raw") /\ u \notin Sto!Busy("sidecar") /\ u \notin Sto!Busy("layer")
  BY <1>1, Whereabouts, Files3 DEF LayerSteps
<1>4. RawInv'
  <2>1. CASE "raw" \in raced
    BY <1>1, <2>1 DEF RawInv
  <2>2. CASE "raw" \notin raced
    <3>1. Alone("raw")
      BY <2>2 DEF RawInv
    <3>2. Alone("raw")'
      BY <1>2, <1>3, <3>1, AfterMove, Files3 DEF Alone
    <3>3. \A v \in Sessions : v # u => ~In(v, {"rawOpen"}) /\ ~In(v, {"rawWrite"})
      BY <1>3, <3>1, Files3 DEF Alone, In, Sto!Busy
    <3>4. ~In(u, {"rawOpen"})' /\ ~In(u, {"rawWrite"})'
      BY <1>2, AfterMove
    <3> QED BY <1>1, <1>2, <3>2, <3>3, <3>4, AfterMove DEF RawInv
  <2> QED BY <2>1, <2>2
<1>5. SidecarInv' /\ LayerInv'
  BY <1>1, <1>2, <1>3, SidecarLeft, LayerLeft DEF Remembers, LayerSteps
<1> QED BY <1>1, <1>2, <1>4, <1>5, AfterMove DEF StoreTypes

LEMMA SidecarReadKeeps ==
  ASSUME Distinct, StoreInv, NEW u \in Sessions, Sto!SidecarRead(u) PROVE StoreInv'
<1> USE DEF StoreInv
<1>1. /\ UNCHANGED <<raw, sidecar, cleaned, log, acked, uploads, broken>> /\ Sto!At(u, "sidecarRead")
  BY DEF Sto!SidecarRead
<1>2. /\ u \notin Sto!Busy("raw") /\ u \notin Sto!Busy("sidecar") /\ u \notin Sto!Busy("layer")
      /\ In(u, Later)
  BY <1>1, Whereabouts, Files3 DEF LayerSteps, Later, UploadSteps
<1>3. CASE sidecar = Torn
  <2>1. Moves(u, None) /\ None \in Jobs /\ Remembers
    BY <1>1, <1>3 DEF Sto!SidecarRead, Sto!Stop, Moves, Jobs, Remembers
  <2> QED BY <1>1, <1>2, <2>1, RawLeft, SidecarLeft, LayerLeft, AfterMove DEF StoreTypes
<1>4. CASE sidecar # Torn
  <2> DEFINE j == [job[u] EXCEPT !.step = "sidecarOpen", !.read = sidecar]
  <2>1. job[u] \in UploadJob
    BY <1>1, JobOfStep DEF UploadSteps
  <2>2. j \in UploadJob /\ j.step = "sidecarOpen" /\ j.read = sidecar
    BY <1>4, <2>1 DEF UploadJob, UploadSteps, StoreTypes
  <2>3. job' = [job EXCEPT ![u] = j] /\ Sto!Enter(u, "sidecar")
    BY <1>4 DEF Sto!SidecarRead
  <2> HIDE DEF j
  <2>4. Moves(u, j) /\ j \in Jobs /\ j # None /\ Remembers
    BY <1>1, <2>2, <2>3, EnterAlone DEF Moves, Jobs, Distinct, Remembers
  <2>5. RawInv' /\ LayerInv'
    BY <1>1, <1>2, <2>2, <2>4, RawLeft, LayerLeft DEF LayerSteps, Later, UploadSteps
  <2>6. SidecarInv'
    <3>1. CASE "sidecar" \in raced' \cup broken'
      BY <3>1 DEF SidecarInv
    <3>2. CASE "sidecar" \notin raced' \cup broken'
      <4>1. "sidecar" \notin raced \cup broken /\ Sto!Busy("sidecar") = {}
        BY <1>1, <1>2, <2>3, <2>4, <3>2, EnterAlone DEF Remembers
      <4>2. Due \subseteq sidecar
        BY <4>1 DEF SidecarInv
      <4>3. Sto!Busy("sidecar")' = {u} /\ job'[u].read = sidecar
        BY <2>2, <2>4, <4>1, AfterMove, Files3
      <4>4. Due' \subseteq Due
        BY <1>1, <2>2, <2>4, AfterMove DEF Due
      <4> QED BY <4>2, <4>3, <4>4 DEF SidecarInv, Alone
    <3> QED BY <3>1, <3>2
  <2> QED BY <1>1, <2>4, <2>5, <2>6, AfterMove DEF StoreTypes
<1> QED BY <1>3, <1>4

LEMMA SidecarOpenKeeps ==
  ASSUME Distinct, StoreInv, NEW u \in Sessions, Sto!SidecarOpen(u) PROVE StoreInv'
<1> USE DEF StoreInv
<1> DEFINE j == job'[u]
<1>1. /\ UNCHANGED <<raw, cleaned, log, acked, uploads, raced, broken>> /\ sidecar' = Torn
      /\ Sto!At(u, "sidecarOpen") /\ Sto!Goto(u, "sidecarWrite")
  BY DEF Sto!SidecarOpen
<1>2. Moves(u, j) /\ j \in Jobs /\ j # None /\ j.step = "sidecarWrite" /\ j.read = job[u].read
  BY <1>1, Stepping DEF UploadSteps, Moves
<1> HIDE DEF j
<1>3. u \in Sto!Busy("sidecar") /\ u \notin Sto!Busy("layer") /\ In(u, Later)
  BY <1>1, Whereabouts, Files3 DEF LayerSteps, Later, UploadSteps
<1>4. RawInv' /\ LayerInv'
  BY <1>1, <1>2, <1>3, RawLeft, LayerLeft DEF Remembers, LayerSteps, Later, UploadSteps
<1>5. SidecarInv'
  <2>1. CASE "sidecar" \in raced \cup broken
    BY <1>1, <2>1 DEF SidecarInv
  <2>2. CASE "sidecar" \notin raced \cup broken
    <3>0. /\ u \in Sto!Busy("sidecar")'
          /\ \A v \in Sessions : v # u => (v \in Sto!Busy("sidecar")' <=> v \in Sto!Busy("sidecar"))
          /\ Sto!Busy("sidecar")' \subseteq Sessions /\ Sto!Busy("sidecar") \subseteq Sessions
      BY <1>2, AfterMove, Files3
    <3>1. Sto!Busy("sidecar")' = Sto!Busy("sidecar")
      BY <1>3, <3>0
    <3>2. Due' \subseteq Due
      BY <1>1, <1>2, AfterMove DEF Due
    <3>3. \A v \in Sto!Busy("sidecar") : job'[v].read = job[v].read
      BY <1>2, AfterMove
    <3> QED BY <1>3, <2>2, <3>1, <3>2, <3>3 DEF SidecarInv, Alone
  <2> QED BY <2>1, <2>2
<1> QED BY <1>1, <1>2, <1>4, <1>5, AfterMove DEF StoreTypes

LEMMA SidecarWriteKeeps ==
  ASSUME Distinct, StoreInv, NEW u \in Sessions, Sto!SidecarWrite(u) PROVE StoreInv'
<1> USE DEF StoreInv
<1> DEFINE j == job'[u]
<1>1. /\ UNCHANGED <<raw, cleaned, log, acked, uploads, raced, broken>>
      /\ sidecar' = job[u].read \cup {job[u].receipt}
      /\ Sto!At(u, "sidecarWrite") /\ Sto!Goto(u, "event")
  BY DEF Sto!SidecarWrite
<1>2. Moves(u, j) /\ j \in Jobs /\ j # None /\ j.step = "event" /\ j.receipt = job[u].receipt
  BY <1>1, Stepping DEF UploadSteps, Moves
<1> HIDE DEF j
<1>3. u \in Sto!Busy("sidecar") /\ u \notin Sto!Busy("layer") /\ In(u, Later)
  BY <1>1, Whereabouts, Files3 DEF LayerSteps, Later, UploadSteps
<1>4. RawInv' /\ LayerInv'
  BY <1>1, <1>2, <1>3, RawLeft, LayerLeft DEF Remembers, LayerSteps, Later, UploadSteps
<1>5. sidecar' \in SUBSET Nat
  <2>1. job[u] \in UploadJob
    BY <1>1, JobOfStep DEF UploadSteps
  <2> QED BY <1>1, <2>1 DEF UploadJob
<1>6. SidecarInv'
  <2>1. CASE "sidecar" \in raced \cup broken
    BY <1>1, <2>1 DEF SidecarInv
  <2>2. CASE "sidecar" \notin raced \cup broken
    <3>1. Alone("sidecar") /\ Due \subseteq job[u].read
      BY <1>3, <2>2 DEF SidecarInv
    <3>2. Sto!Busy("sidecar")' = {}
      BY <1>2, <1>3, <3>1, AfterMove, Files3 DEF Alone
    <3>3. Due' \subseteq Due \cup {job[u].receipt}
      BY <1>1, <1>2, AfterMove DEF Due
    <3> QED BY <1>1, <1>5, <3>1, <3>2, <3>3 DEF SidecarInv, Alone, Distinct
  <2> QED BY <2>1, <2>2
<1> QED BY <1>1, <1>2, <1>4, <1>5, <1>6, AfterMove DEF StoreTypes

LEMMA AcknowledgeKeeps ==
  ASSUME Distinct, StoreInv, NEW u \in Sessions, Sto!Acknowledge(u) PROVE StoreInv'
<1> USE DEF StoreInv
<1>1. /\ UNCHANGED <<raw, sidecar, cleaned, log, uploads, raced, broken>>
      /\ acked' = acked \cup {job[u].receipt} /\ Sto!At(u, "event")
      /\ Moves(u, None) /\ None \in Jobs
  BY DEF Sto!Acknowledge, Sto!Stop, Moves, Jobs
<1>2. /\ u \notin Sto!Busy("raw") /\ u \notin Sto!Busy("sidecar") /\ u \notin Sto!Busy("layer")
      /\ In(u, Later) /\ In(u, {"event"})
  BY <1>1, Whereabouts, Files3 DEF LayerSteps, Later, UploadSteps
<1>3. job[u].receipt \in Nat
  BY <1>1, JobOfStep DEF UploadJob, UploadSteps
<1>4. Sto!Busy("raw")' = Sto!Busy("raw") /\ Sto!Busy("sidecar")' = Sto!Busy("sidecar")
  <2>1. \A file : /\ u \notin Sto!Busy(file)'
                  /\ \A v \in Sessions : v # u => (v \in Sto!Busy(file)' <=> v \in Sto!Busy(file))
                  /\ Sto!Busy(file)' \subseteq Sessions /\ Sto!Busy(file) \subseteq Sessions
    BY <1>1, AfterMove
  <2> QED BY <1>2, <2>1
<1>5. RawInv'
  <2>1. CASE "raw" \in raced
    BY <1>1, <2>1 DEF RawInv
  <2>2. CASE "raw" \notin raced
    <3>1. raw = "whole" /\ Alone("raw")'
      BY <1>2, <1>4, <2>2 DEF RawInv, Alone, Later
    <3> QED BY <1>1, <2>2, <3>1, AfterMove DEF RawInv
  <2> QED BY <2>1, <2>2
<1>6. SidecarInv'
  <2>1. Due' \subseteq Due
    BY <1>1, <1>2, AfterMove DEF Due
  <2>2. \A v \in Sto!Busy("sidecar") : job'[v] = job[v]
    BY <1>1, <1>2, AfterMove
  <2> QED BY <1>1, <1>4, <2>1, <2>2 DEF SidecarInv, Alone
<1>7. LayerInv'
  BY <1>1, <1>2, LayerLeft DEF Remembers
<1> QED BY <1>1, <1>3, <1>5, <1>6, <1>7, AfterMove DEF StoreTypes

LEMMA CompileKeeps ==
  ASSUME Distinct, StoreInv, NEW u \in Sessions, NEW c \in Configs, Sto!Compile(u, c) PROVE StoreInv'
<1> USE DEF StoreInv
<1> DEFINE j == [step |-> "cleanOpen", config |-> c]
<1>1. /\ UNCHANGED <<raw, sidecar, cleaned, log, acked, uploads, broken>> /\ job[u] = None
      /\ job' = [job EXCEPT ![u] = j] /\ Sto!Enter(u, "layer")
  BY DEF Sto!Compile
<1>2. j \in LayerJob /\ j.step = "cleanOpen"
  BY DEF LayerJob, LayerSteps
<1> HIDE DEF j
<1>3. Moves(u, j) /\ j \in Jobs /\ j # None /\ Remembers
  BY <1>1, <1>2, EnterAlone DEF Moves, Jobs, Distinct, Remembers
<1>4. RawInv' /\ SidecarInv'
  BY <1>1, <1>2, <1>3, NotAtWork, RawLeft, SidecarLeft DEF LayerSteps
<1>5. LayerInv'
  <2>1. CASE "layer" \in raced' \cup broken'
    BY <2>1 DEF LayerInv
  <2>2. CASE "layer" \notin raced' \cup broken'
    <3>1. Sto!Busy("layer") = {}
      BY <1>1, <2>2, EnterAlone, NotAtWork
    <3>2. /\ u \in Sto!Busy("layer")'
          /\ \A v \in Sessions : v # u => (v \in Sto!Busy("layer")' <=> v \in Sto!Busy("layer"))
          /\ Sto!Busy("layer")' \subseteq Sessions
      BY <1>2, <1>3, AfterMove, Files3 DEF LayerSteps
    <3>3. Sto!Busy("layer")' = {u}
      BY <3>1, <3>2
    <3>4. \A v \in Sessions : ~In(v, {"logOpen", "logWrite"})'
      <4>1. \A v \in Sessions : ~In(v, {"logOpen", "logWrite"})
        BY <3>1, Files3 DEF In, Sto!Busy, LayerSteps
      <4> QED BY <1>2, <1>3, <4>1, AfterMove
    <3> QED BY <3>3, <3>4 DEF LayerInv, Alone
  <2> QED BY <2>1, <2>2
<1> QED BY <1>1, <1>3, <1>4, <1>5, AfterMove DEF StoreTypes

\* A session that goes on writing the cleaned layer or its log, alone in it.
LEMMA LayerOnward ==
  ASSUME Distinct, StoreTypes, LayerInv, NEW u \in Sessions, NEW s \in LayerSteps, NEW t \in LayerSteps,
         Sto!At(u, s), Sto!Goto(u, t), raced' = raced, broken' = broken,
         t \in {"logOpen", "logWrite"} =>
           cleaned' = job[u].config \/ (cleaned' = cleaned /\ s \in {"logOpen", "logWrite"})
  PROVE  LayerInv'
<1> DEFINE j == job'[u]
<1>1. Moves(u, j) /\ j \in Jobs /\ j # None /\ j.step = t /\ j.config = job[u].config
  BY Stepping DEF Moves
<1> HIDE DEF j
<1>2. u \in Sto!Busy("layer")
  BY Whereabouts, Files3
<1>3. CASE "layer" \in raced \cup broken
  BY <1>3 DEF LayerInv
<1>4. CASE "layer" \notin raced \cup broken
  <2>1. Sto!Busy("layer") = {u}
    BY <1>2, <1>4 DEF LayerInv, Alone
  <2>2. /\ u \in Sto!Busy("layer")'
        /\ \A v \in Sessions : v # u => (v \in Sto!Busy("layer")' <=> v \in Sto!Busy("layer"))
        /\ Sto!Busy("layer")' \subseteq Sessions
    BY <1>1, AfterMove, Files3
  <2>3. Sto!Busy("layer")' = {u}
    BY <2>1, <2>2
  <2>4. \A v \in Sessions : v # u => ~In(v, {"logOpen", "logWrite"})'
    <3>1. \A v \in Sessions : v # u => ~In(v, {"logOpen", "logWrite"})
      BY <2>1, Files3 DEF In, Sto!Busy, LayerSteps
    <3> QED BY <1>1, <3>1, AfterMove
  <2>5. In(u, {"logOpen", "logWrite"})' => cleaned' = job'[u].config
    <3>1. /\ In(u, {"logOpen", "logWrite"})' <=> t \in {"logOpen", "logWrite"}
          /\ job'[u].config = job[u].config
      BY <1>1, AfterMove
    <3>2. s \in {"logOpen", "logWrite"} => cleaned = job[u].config
      BY <1>4, Whereabouts DEF LayerInv
    <3> QED BY <3>1, <3>2
  <2> QED BY <2>3, <2>4, <2>5 DEF LayerInv, Alone
<1> QED BY <1>3, <1>4

\* The raw file and the receipts are not concerned.
LEMMA LayerOnly ==
  ASSUME Distinct, StoreTypes, RawInv, SidecarInv, NEW u \in Sessions, NEW s \in LayerSteps, NEW t \in LayerSteps,
         Sto!At(u, s), Sto!Goto(u, t), UNCHANGED <<raw, sidecar, acked, uploads, raced, broken>>
  PROVE  StoreTypes' /\ RawInv' /\ SidecarInv'
<1> DEFINE j == job'[u]
<1>1. Moves(u, j) /\ j \in Jobs /\ j # None /\ j.step = t
  BY Stepping DEF Moves
<1> HIDE DEF j
<1>2. u \notin Sto!Busy("sidecar")
  BY Whereabouts, Files3 DEF LayerSteps
<1>3. RawInv' /\ SidecarInv'
  BY <1>1, <1>2, RawLeft, SidecarLeft DEF Remembers, LayerSteps
<1> QED BY <1>1, <1>3, AfterMove DEF StoreTypes

LEMMA CleanOpenKeeps ==
  ASSUME Distinct, StoreInv, NEW u \in Sessions, Sto!CleanOpen(u) PROVE StoreInv'
<1>1. "cleanOpen" \in LayerSteps /\ "cleanWrite" \in LayerSteps
  BY DEF LayerSteps
<1> QED BY <1>1, LayerOnward, LayerOnly DEF StoreInv, Sto!CleanOpen

LEMMA CleanWriteKeeps ==
  ASSUME Distinct, StoreInv, NEW u \in Sessions, Sto!CleanWrite(u) PROVE StoreInv'
<1>1. "cleanWrite" \in LayerSteps /\ "logOpen" \in LayerSteps
  BY DEF LayerSteps
<1> QED BY <1>1, LayerOnward, LayerOnly DEF StoreInv, Sto!CleanWrite

LEMMA LogOpenKeeps ==
  ASSUME Distinct, StoreInv, NEW u \in Sessions, Sto!LogOpen(u) PROVE StoreInv'
<1>1. "logOpen" \in LayerSteps /\ "logWrite" \in LayerSteps
  BY DEF LayerSteps
<1> QED BY <1>1, LayerOnward, LayerOnly DEF StoreInv, Sto!LogOpen

LEMMA LogWriteKeeps ==
  ASSUME Distinct, StoreInv, NEW u \in Sessions, Sto!LogWrite(u) PROVE StoreInv'
<1> USE DEF StoreInv
<1>1. /\ UNCHANGED <<raw, sidecar, cleaned, acked, uploads, raced, broken>>
      /\ log' = job[u].config /\ Sto!At(u, "logWrite")
      /\ Moves(u, None) /\ None \in Jobs /\ Remembers
  BY DEF Sto!LogWrite, Sto!Stop, Moves, Jobs, Remembers
<1>2. u \notin Sto!Busy("sidecar") /\ u \in Sto!Busy("layer") /\ In(u, {"logOpen", "logWrite"})
  BY <1>1, Whereabouts, Files3 DEF LayerSteps
<1>3. RawInv' /\ SidecarInv'
  BY <1>1, <1>2, RawLeft, SidecarLeft
<1>4. LayerInv'
  <2>1. CASE "layer" \in raced \cup broken
    BY <1>1, <2>1 DEF LayerInv
  <2>2. CASE "layer" \notin raced \cup broken
    <3>1. cleaned' = log' /\ Sto!Busy("layer") = {u}
      BY <1>1, <1>2, <2>2 DEF LayerInv, Alone
    <3>2. /\ u \notin Sto!Busy("layer")'
          /\ \A v \in Sessions : v # u => (v \in Sto!Busy("layer")' <=> v \in Sto!Busy("layer"))
          /\ Sto!Busy("layer")' \subseteq Sessions
      BY <1>1, AfterMove
    <3>3. Sto!Busy("layer")' = {}
      BY <3>1, <3>2
    <3>4. \A v \in Sessions : ~In(v, {"logOpen", "logWrite"})'
      <4>1. \A v \in Sessions : v # u => ~In(v, {"logOpen", "logWrite"})
        BY <3>1, Files3 DEF In, Sto!Busy, LayerSteps
      <4> QED BY <1>1, <4>1, AfterMove
    <3> QED BY <3>1, <3>3, <3>4 DEF LayerInv, Alone
  <2> QED BY <2>1, <2>2
<1> QED BY <1>1, <1>3, <1>4, AfterMove DEF StoreTypes

LEMMA WriteFailsKeeps ==
  ASSUME Distinct, StoreInv, NEW u \in Sessions, Sto!WriteFails(u) PROVE StoreInv'
<1> USE DEF StoreInv
<1>1. /\ UNCHANGED <<raw, sidecar, cleaned, log, acked, uploads, raced>> /\ broken \subseteq broken'
      /\ Moves(u, None) /\ None \in Jobs /\ Remembers
  BY DEF Sto!WriteFails, Sto!Stop, Moves, Jobs, Remembers
<1>2. PICK f \in {"raw", "sidecar", "layer"} : u \in Sto!Busy(f) /\ broken' = broken \cup {f}
  BY DEF Sto!WriteFails
<1>3. RawInv'
  BY <1>1, RawLeft
<1>4. SidecarInv'
  <2>1. CASE f = "sidecar"
    BY <1>2, <2>1 DEF SidecarInv
  <2>2. CASE f # "sidecar"
    <3>1. u \notin Sto!Busy("sidecar")
      BY <1>2, <2>2, Files3 DEF Sto!Busy, LayerSteps
    <3> QED BY <1>1, <3>1, SidecarLeft
  <2> QED BY <2>1, <2>2
<1>5. LayerInv'
  <2>1. CASE f = "layer"
    BY <1>2, <2>1 DEF LayerInv
  <2>2. CASE f # "layer"
    <3>1. u \notin Sto!Busy("layer")
      BY <1>2, <2>2, Files3 DEF Sto!Busy, LayerSteps
    <3> QED BY <1>1, <3>1, LayerLeft
  <2> QED BY <2>1, <2>2
<1> QED BY <1>1, <1>3, <1>4, <1>5, AfterMove DEF StoreTypes

LEMMA CrashKeeps ==
  ASSUME Distinct, StoreInv, Sto!Crash PROVE StoreInv'
<1> USE DEF StoreInv
<1>1. /\ UNCHANGED <<raw, sidecar, cleaned, log, acked, uploads, raced>>
      /\ broken' = broken \cup {f \in {"raw", "sidecar", "layer"} : Sto!Busy(f) # {}}
      /\ job' = [u \in Sessions |-> None]
  BY DEF Sto!Crash
<1>2. /\ \A file : Sto!Busy(file)' = {}
      /\ \A u \in Sessions : \A steps : ~In(u, steps)'
      /\ job' \in [Sessions -> Jobs]
  BY <1>1 DEF Sto!Busy, In, Jobs
<1>3. RawInv'
  BY <1>1, <1>2 DEF RawInv, Alone
<1>4. SidecarInv'
  <2>1. CASE Sto!Busy("sidecar") = {} /\ "sidecar" \notin raced \cup broken
    <3>1. Due' \subseteq Due
      BY <1>1, <1>2 DEF Due
    <3> QED BY <1>1, <1>2, <2>1, <3>1 DEF SidecarInv, Alone
  <2> QED BY <1>1, <2>1 DEF SidecarInv
<1>5. LayerInv'
  <2>1. CASE Sto!Busy("layer") = {} /\ "layer" \notin raced \cup broken
    BY <1>1, <1>2, <2>1 DEF LayerInv, Alone
  <2> QED BY <1>1, <2>1 DEF LayerInv
<1> QED BY <1>1, <1>2, <1>3, <1>4, <1>5 DEF StoreTypes

LEMMA StoreAtRest ==
  ASSUME StoreInv, UNCHANGED <<raw, sidecar, cleaned, log, job, acked, uploads, raced, broken>>
  PROVE  StoreInv'
BY DEF StoreInv, StoreTypes, RawInv, SidecarInv, LayerInv, Alone, Sto!Busy, In, Due

LEMMA StoreInit ==
  ASSUME Distinct, Sto!Init PROVE StoreInv
<1>1. \A file : Sto!Busy(file) = {}
  BY DEF Sto!Busy, Sto!Init
<1>2. \A u \in Sessions : \A steps : ~In(u, steps)
  BY DEF In, Sto!Init
<1>3. Due = {}
  BY <1>2 DEF Due, Sto!Init
<1> QED BY <1>1, <1>2, <1>3
      DEF StoreInv, StoreTypes, RawInv, SidecarInv, LayerInv, Alone, Sto!Init, Jobs, Distinct

\* An acknowledged upload keeps its raw file and its receipt, and the log describes the
\* cleaned layer, unless two sessions wrote the file at a time or a write was cut short
\* (data/store.py).
THEOREM AcknowledgedIsKept == ASSUME Distinct PROVE Spec => []StoreKept
<1>1. Init => StoreInv
  BY StoreInit DEF Init
<1>2. StoreInv /\ [Next]_vars => StoreInv'
  <2> SUFFICES ASSUME StoreInv, [Next]_vars PROVE StoreInv'
    OBVIOUS
  <2>1. CASE Sto!Next
    BY <2>1, StartUploadKeeps, RawOpenKeeps, RawWriteKeeps, SidecarReadKeeps, SidecarOpenKeeps,
       SidecarWriteKeeps, AcknowledgeKeeps, CompileKeeps, CleanOpenKeeps, CleanWriteKeeps,
       LogOpenKeeps, LogWriteKeeps, WriteFailsKeeps, CrashKeeps, StoreAtRest DEF Sto!Next, Sto!Reload
  <2>2. CASE UNCHANGED storeVars
    BY <2>2, StoreAtRest DEF storeVars
  <2> QED BY <2>1, <2>2 DEF Next, vars
<1>3. StoreInv => StoreKept
  <2> SUFFICES ASSUME StoreInv PROVE StoreKept
    OBVIOUS
  <2>1. Sto!RawKept
    BY DEF StoreInv, RawInv, Sto!RawKept
  <2>2. Sto!ReceiptsKept
    BY DEF StoreInv, SidecarInv, Due, Sto!ReceiptsKept
  <2>3. Sto!LogExplains
    BY DEF StoreInv, LayerInv, Sto!LogExplains
  <2> QED BY <2>1, <2>2, <2>3 DEF StoreKept
<1> QED BY <1>1, <1>2, <1>3, StepsOnly, PTL
====================================================================================
