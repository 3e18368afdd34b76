--------------------------- MODULE AsyncJobsProofs ---------------------------
(***************************************************************************)
(* Proofs about background jobs, for every number of jobs, of waiting      *)
(* calls and of failing deliveries.                                        *)
(***************************************************************************)
EXTENDS AsyncJobs, FiniteSetTheorems, SequenceTheorems, WellFoundedInduction, TLAPS

-----------------------------------------------------------------------------
(* The inductive invariant.                                                *)

Delivery == [job : Jobs, attempt : 0 .. MaxFails, due : BOOLEAN]

(* The jobs whose deliveries are in ds, and that each is there once.       *)
JobsIn(ds)    == {ds[k].job : k \in DOMAIN ds}
OnceIn(ds)    == \A k, l \in DOMAIN ds : ds[k].job = ds[l].job => k = l
OnceStaged(s) == \A k, l \in DOMAIN s : s[k] = s[l] => k = l

(* OneCopy, in terms of the sets of jobs at each place.                    *)
CopyInv ==
  /\ OnceIn(deliveries) /\ OnceStaged(yq)
  /\ JobsIn(deliveries) \cap inflight = {}
  /\ (JobsIn(deliveries) \cup inflight) \cap (ToSet(yq) \cup injected) = {}
  /\ ToSet(yq) \cap injected = {}

(* A job is in the table under its id until it is evicted.                 *)
Born(o) == job[o].status # "unborn"

TableInv ==
  /\ \A i \in Ids : jobs[i] # None => Born(jobs[i]) /\ Id(jobs[i]) = i
  /\ \A o \in Jobs : Born(o) /\ o \notin evicted => jobs[Id(o)] = o
  /\ \A o \in Jobs : o \in evicted \cup toolTold => Born(o)
  /\ \A p \in DOMAIN poll : \A o \in poll[p].tracked : Born(o)

(* The id of a job that a bash call waits for is suppressed, and the job   *)
(* is not evicted; no result is on its way before its job is done, or      *)
(* while the call waits.                                                   *)
FreshInv ==
  \A o \in Jobs :
    /\ InForeground(o) => Born(o) /\ o \notin evicted /\ Id(o) \in suppressed
    /\ job[o].status # "done" \/ InForeground(o) =>
         o \notin JobsIn(deliveries) \cup inflight \cup ToSet(yq) \cup injected

(* Suppression is known to the queue, and is a promise kept or made.       *)
SuppressedInv ==
  /\ \A o \in JobsIn(deliveries) : Id(o) \notin suppressed
  /\ \A o \in Jobs : job[o].wait = "threshold" => Id(o) \notin IdsOf(inflight)
  /\ \A o \in Jobs : Born(o) /\ o \notin evicted =>
       /\ Id(o) \in suppressed => o \in toolTold \/ InForeground(o) \/ job[o].wait = "aborted"
       /\ o \in toolTold /\ job[o].wait # "background" => Id(o) \in suppressed

(* Who watches an id tracks the job that has it.                           *)
WatchInv ==
  /\ \A i \in watched : jobs[i] # None /\ \E p \in DOMAIN poll : jobs[i] \in poll[p].watching
  /\ \A p \in DOMAIN poll : poll[p].watching \subseteq poll[p].tracked

IInv == TypeOK /\ LoopAlive /\ CopyInv /\ TableInv /\ FreshInv /\ SuppressedInv /\ WatchInv /\ ResultKept

-----------------------------------------------------------------------------
(* Sequences.                                                              *)

(* A nonempty set of natural numbers has a least element.                  *)
LEMMA LeastNat ==
  ASSUME NEW S, S \subseteq Nat, S # {}
  PROVE  \E k \in S : \A j \in S : k <= j
<1> DEFINE R == OpToRel(<, Nat)
<1>1. IsWellFoundedOn(R, Nat)
  BY NatLessThanWellFounded
<1>2. \A k, j \in Nat : <<j, k>> \in R <=> j < k
  <2>1. R = {ss \in Nat \X Nat : ss[1] < ss[2]}
    BY Zenon DEF OpToRel
  <2> HIDE DEF R
  <2> QED
    BY <2>1
<1> HIDE DEF R
<1>3. PICK k \in S : \A j \in S : <<j, k>> \notin R
  BY <1>1, WFMin, Zenon
<1>4. ASSUME NEW j \in S PROVE k <= j
  <2>1. j \in Nat /\ k \in Nat
    OBVIOUS
  <2>2. ~ (j < k)
    BY <1>2, <1>3, <2>1
  <2> QED
    BY <2>1, <2>2
<1> QED
  BY <1>4

(* A set whose elements are all equal has at most one.                     *)
LEMMA AtMostOne ==
  ASSUME NEW S, \A x, y \in S : x = y
  PROVE  Cardinality(S) <= 1
<1>1. CASE S = {}
  BY <1>1, FS_EmptySet
<1>2. CASE S # {}
  <2>1. PICK x \in S : S = {x}
    BY <1>2
  <2> QED
    BY <2>1, FS_Singleton
<1> QED
  BY <1>1, <1>2

(* RemoveAt closes the gap.                                                *)
LEMMA Removed ==
  ASSUME NEW S, NEW s \in Seq(S), NEW i \in DOMAIN s
  PROVE  /\ RemoveAt(s, i) \in Seq(S)
         /\ Len(RemoveAt(s, i)) = Len(s) - 1
         /\ \A j \in 1..(Len(s) - 1) :
              RemoveAt(s, i)[j] = IF j < i THEN s[j] ELSE s[j + 1]
<1>1. Len(s) \in Nat /\ DOMAIN s = 1..Len(s) /\ i \in 1..Len(s)
  BY LenProperties
<1>2. \A j \in 1..Len(s) : s[j] \in S
  BY ElementOfSeq
<1> DEFINE u == SubSeq(s, 1, i - 1)
           v == SubSeq(s, i + 1, Len(s))
<1>3. u \in Seq(S) /\ Len(u) = i - 1 /\ \A j \in 1..(i - 1) : u[j] = s[j]
  BY <1>1, <1>2, SubSeqProperties
<1>4. v \in Seq(S) /\ Len(v) = Len(s) - i /\ \A j \in 1..(Len(s) - i) : v[j] = s[j + i]
  <2>1. /\ v \in Seq(S)
        /\ Len(v) = IF i + 1 <= Len(s) THEN Len(s) - (i + 1) + 1 ELSE 0
        /\ \A j \in 1..(Len(s) - (i + 1) + 1) : v[j] = s[(i + 1) + j - 1]
    BY <1>1, <1>2, SubSeqProperties, i + 1 \in Int, \A k \in (i + 1)..Len(s) : s[k] \in S
  <2> QED
    BY <1>1, <2>1
<1> HIDE DEF u, v
<1>5. /\ u \o v \in Seq(S) /\ Len(u \o v) = Len(s) - 1
      /\ \A j \in 1..(Len(s) - 1) : (u \o v)[j] = IF j < i THEN s[j] ELSE s[j + 1]
  <2>1. /\ u \o v \in Seq(S) /\ Len(u \o v) = Len(u) + Len(v)
        /\ \A j \in 1..(Len(u) + Len(v)) :
             (u \o v)[j] = IF j <= Len(u) THEN u[j] ELSE v[j - Len(u)]
    BY <1>3, <1>4, ConcatProperties
  <2>2. ASSUME NEW j \in 1..(Len(s) - 1)
        PROVE  (u \o v)[j] = IF j < i THEN s[j] ELSE s[j + 1]
    <3>1. (u \o v)[j] = IF j <= i - 1 THEN u[j] ELSE v[j - (i - 1)]
      BY <1>1, <1>3, <1>4, <2>1
    <3>2. CASE j < i
      BY <1>1, <1>3, <3>1, <3>2
    <3>3. CASE ~(j < i)
      <4>1. j - (i - 1) \in 1..(Len(s) - i) /\ (j - (i - 1)) + i = j + 1 /\ ~(j <= i - 1)
        BY <1>1, <3>3
      <4> QED
        BY <1>4, <3>1, <3>3, <4>1
    <3> QED
      BY <3>2, <3>3
  <2> QED
    BY <1>1, <1>3, <1>4, <2>1, <2>2
<1>6. RemoveAt(s, i) = u \o v
  BY <1>1 DEF RemoveAt, u, v
<1> QED
  BY <1>1, <1>5, <1>6

(* The tail is the sequence without its head.                              *)
LEMMA Shortened ==
  ASSUME NEW ds \in Seq(Delivery), ds # <<>>, OnceIn(ds)
  PROVE  /\ Tail(ds) \in Seq(Delivery) /\ OnceIn(Tail(ds)) /\ Head(ds) \in Delivery
         /\ JobsIn(Tail(ds)) = JobsIn(ds) \ {Head(ds).job}
         /\ Head(ds).job \in JobsIn(ds)
<1> DEFINE n == Len(ds)
           t == Tail(ds)
<1>1. n \in Nat \ {0} /\ DOMAIN ds = 1..n /\ \A k \in 1..n : ds[k] \in Delivery
  BY EmptySeq, LenProperties, ElementOfSeq
<1>2. t \in Seq(Delivery) /\ Len(t) = n - 1 /\ (\A k \in 1..(n - 1) : t[k] = ds[k + 1]) /\ Head(ds) = ds[1]
  BY <1>1, HeadTailProperties
<1>3. DOMAIN t = 1..(n - 1)
  BY <1>2, LenProperties
<1> HIDE DEF n, t
<1>a. \A k \in 1..(n - 1) : k + 1 \in 1..n /\ k + 1 # 1 /\ 1 \in 1..n
  BY <1>1
<1>b. \A k, l \in 1..n : ds[k].job = ds[l].job => k = l
  BY <1>1 DEF OnceIn
<1>4. OnceIn(t)
  <2> SUFFICES ASSUME NEW k \in 1..(n - 1), NEW l \in 1..(n - 1), t[k].job = t[l].job PROVE k = l
    BY <1>3 DEF OnceIn
  <2>1. k + 1 = l + 1
    BY <1>2, <1>a, <1>b
  <2> QED
    BY <1>1, <2>1
<1>5. ds[1].job \notin JobsIn(t)
  <2> SUFFICES ASSUME NEW k \in 1..(n - 1), t[k].job = ds[1].job PROVE FALSE
    BY <1>3 DEF JobsIn
  <2> QED
    BY <1>2, <1>a, <1>b
<1>6. JobsIn(t) \subseteq JobsIn(ds)
  BY <1>1, <1>2, <1>3, <1>a DEF JobsIn
<1>7. ASSUME NEW o \in JobsIn(ds), o # ds[1].job PROVE o \in JobsIn(t)
  <2>1. PICK k \in 1..n : ds[k].job = o /\ k # 1
    BY <1>1, <1>7 DEF JobsIn
  <2>2. k - 1 \in 1..(n - 1) /\ t[k - 1] = ds[k]
    BY <1>1, <1>2, <2>1
  <2> QED
    BY <1>3, <2>1, <2>2 DEF JobsIn
<1>8. ds[1].job \in JobsIn(ds)
  BY <1>1 DEF JobsIn
<1> QED
  BY <1>1, <1>2, <1>4, <1>5, <1>6, <1>7, <1>8 DEF t

(* One delivery more.                                                      *)
LEMMA Appended ==
  ASSUME NEW ds \in Seq(Delivery), NEW d \in Delivery
  PROVE  /\ Append(ds, d) \in Seq(Delivery) /\ Append(ds, d) # <<>>
         /\ JobsIn(Append(ds, d)) = JobsIn(ds) \cup {d.job}
         /\ OnceIn(ds) /\ d.job \notin JobsIn(ds) => OnceIn(Append(ds, d))
<1> DEFINE n == Len(ds)
           t == Append(ds, d)
<1>1. n \in Nat /\ DOMAIN ds = 1..n
  BY LenProperties
<1>2. t \in Seq(Delivery) /\ Len(t) = n + 1 /\ t[n + 1] = d /\ \A k \in 1..n : t[k] = ds[k]
  BY AppendProperties
<1>3. DOMAIN t = 1..(n + 1) /\ t # <<>>
  BY <1>1, <1>2, LenProperties, EmptySeq
<1> HIDE DEF n, t
<1>4. \A k \in 1..(n + 1) : k \in 1..n \/ k = n + 1
  BY <1>1
<1>5. JobsIn(t) \subseteq JobsIn(ds) \cup {d.job}
  BY <1>1, <1>2, <1>3, <1>4 DEF JobsIn
<1>6. JobsIn(ds) \subseteq JobsIn(t)
  BY <1>1, <1>2, <1>3 DEF JobsIn
<1>7. d.job \in JobsIn(t)
  BY <1>1, <1>2, <1>3 DEF JobsIn
<1>8. ASSUME OnceIn(ds), d.job \notin JobsIn(ds) PROVE OnceIn(t)
  BY <1>1, <1>2, <1>3, <1>4, <1>8 DEF OnceIn, JobsIn
<1> QED
  BY <1>2, <1>3, <1>5, <1>6, <1>7, <1>8 DEF t

(* One delivery less.                                                      *)
LEMMA Picked ==
  ASSUME NEW ds \in Seq(Delivery), NEW k \in DOMAIN ds, OnceIn(ds)
  PROVE  /\ RemoveAt(ds, k) \in Seq(Delivery) /\ OnceIn(RemoveAt(ds, k))
         /\ JobsIn(RemoveAt(ds, k)) = JobsIn(ds) \ {ds[k].job}
         /\ ds[k] \in Delivery /\ ds[k].job \in JobsIn(ds)
<1> DEFINE n == Len(ds)
           t == RemoveAt(ds, k)
<1>1. n \in Nat /\ DOMAIN ds = 1..n /\ k \in 1..n /\ \A j \in 1..n : ds[j] \in Delivery
  BY LenProperties, ElementOfSeq
<1>2. /\ t \in Seq(Delivery) /\ Len(t) = n - 1
      /\ \A j \in 1..(n - 1) : t[j] = IF j < k THEN ds[j] ELSE ds[j + 1]
  BY Removed
<1>3. DOMAIN t = 1..(n - 1)
  BY <1>2, LenProperties
<1> HIDE DEF n, t
<1> DEFINE Old(j) == IF j < k THEN j ELSE j + 1
<1>4. \A j \in 1..(n - 1) : Old(j) \in 1..n /\ Old(j) # k /\ t[j] = ds[Old(j)]
  BY <1>1, <1>2
<1>5. \A j, l \in 1..(n - 1) : Old(j) = Old(l) => j = l
  BY <1>1
<1>6. \A j \in 1..n : j # k => \E l \in 1..(n - 1) : Old(l) = j
  <2> TAKE j \in 1..n
  <2> HAVE j # k
  <2>1. CASE j < k
    <3>1. j \in 1..(n - 1) /\ Old(j) = j
      BY <1>1, <2>1
    <3> QED
      BY <3>1
  <2>2. CASE j > k
    <3>1. j - 1 \in 1..(n - 1) /\ Old(j - 1) = j
      BY <1>1, <2>2
    <3> QED
      BY <3>1
  <2> QED
    BY <1>1, <2>1, <2>2
<1> HIDE DEF Old
<1>7. OnceIn(t)
  BY <1>1, <1>3, <1>4, <1>5 DEF OnceIn
<1>8. JobsIn(t) \subseteq JobsIn(ds) /\ ds[k].job \notin JobsIn(t)
  BY <1>1, <1>3, <1>4 DEF JobsIn, OnceIn
<1>9. ASSUME NEW o \in JobsIn(ds), o # ds[k].job PROVE o \in JobsIn(t)
  <2>1. PICK j \in 1..n : ds[j].job = o /\ j # k
    BY <1>1, <1>9 DEF JobsIn
  <2>2. PICK l \in 1..(n - 1) : Old(l) = j
    BY <1>6, <2>1
  <2> QED
    BY <1>3, <1>4, <2>1, <2>2 DEF JobsIn
<1>10. ds[k].job \in JobsIn(ds)
  BY <1>1 DEF JobsIn
<1> QED
  BY <1>1, <1>2, <1>7, <1>8, <1>9, <1>10 DEF t

(* The deliveries from place m on.                                         *)
LEMMA From ==
  ASSUME NEW ds \in Seq(Delivery), NEW m \in DOMAIN ds, OnceIn(ds)
  PROVE  LET t == SubSeq(ds, m, Len(ds)) IN
         /\ t \in Seq(Delivery) /\ t # <<>> /\ OnceIn(t) /\ Head(t) = ds[m]
         /\ JobsIn(t) = {ds[k].job : k \in m..Len(ds)}
<1> DEFINE n == Len(ds)
           t == SubSeq(ds, m, n)
<1>1. n \in Nat /\ DOMAIN ds = 1..n /\ m \in 1..n /\ \A j \in 1..n : ds[j] \in Delivery
  BY LenProperties, ElementOfSeq
<1>2. t \in Seq(Delivery) /\ Len(t) = n - m + 1 /\ \A j \in 1..(n - m + 1) : t[j] = ds[m + j - 1]
  BY <1>1, SubSeqProperties
<1>3. DOMAIN t = 1..(n - m + 1) /\ t # <<>>
  BY <1>1, <1>2, LenProperties, EmptySeq
<1>4. Head(t) = t[1]
  BY <1>2, <1>3, HeadTailProperties
<1> HIDE DEF n, t
<1>5. OnceIn(t)
  <2> SUFFICES ASSUME NEW k \in 1..(n - m + 1), NEW l \in 1..(n - m + 1), t[k].job = t[l].job
               PROVE  k = l
    BY <1>3 DEF OnceIn
  <2>1. m + k - 1 \in 1..n /\ m + l - 1 \in 1..n
    BY <1>1
  <2>2. m + k - 1 = m + l - 1
    BY <1>1, <1>2, <2>1 DEF OnceIn
  <2> QED
    BY <1>1, <2>2
<1>6. t[1] = ds[m]
  BY <1>1, <1>2
<1>7. JobsIn(t) \subseteq {ds[k].job : k \in m..n}
  <2>1. \A j \in 1..(n - m + 1) : m + j - 1 \in m..n
    BY <1>1
  <2> QED
    BY <1>2, <1>3, <2>1 DEF JobsIn
<1>8. ASSUME NEW k \in m..n PROVE ds[k].job \in JobsIn(t)
  <2>1. k - m + 1 \in 1..(n - m + 1) /\ m + (k - m + 1) - 1 = k
    BY <1>1
  <2>2. t[k - m + 1] = ds[k]
    BY <1>2, <2>1
  <2> QED
    BY <1>3, <2>1, <2>2 DEF JobsIn
<1> QED
  BY <1>2, <1>3, <1>4, <1>5, <1>6, <1>7, <1>8 DEF t, n

(* Without keeps the deliveries of the other jobs.                         *)
LEMMA Purged ==
  ASSUME NEW ds \in Seq(Delivery), NEW S, OnceIn(ds)
  PROVE  /\ Without(ds, S) \in Seq(Delivery) /\ OnceIn(Without(ds, S))
         /\ JobsIn(Without(ds, S)) = JobsIn(ds) \ S
<1> DEFINE n == Len(ds)
           Step(g, k) == IF k = 0 THEN <<>>
                         ELSE IF ds[k].job \in S THEN g[k - 1] ELSE Append(g[k - 1], ds[k])
           Good(m) == \E g : g = [k \in 0..m |-> Step(g, k)]
           kept == CHOOSE g : g = [k \in 0..n |-> Step(g, k)]
<1>1. n \in Nat /\ DOMAIN ds = 1..n /\ \A j \in 1..n : ds[j] \in Delivery
  BY LenProperties, ElementOfSeq
<1>2. Without(ds, S) = kept[n]
  BY DEF Without
<1>3. Good(n)
  <2>1. Good(0)
    <3>1. [k \in 0..0 |-> <<>>] = [k \in 0..0 |-> Step([l \in 0..0 |-> <<>>], k)]
      OBVIOUS
    <3> QED
      BY <3>1
  <2>2. ASSUME NEW m \in Nat, Good(m) PROVE Good(m + 1)
    <3>1. PICK g : g = [k \in 0..m |-> Step(g, k)]
      BY <2>2
    <3> DEFINE h == [k \in 0..(m + 1) |-> IF k <= m THEN g[k] ELSE Step(g, k)]
    <3>a. \A k \in 0..m : g[k] = Step(g, k)
      BY <3>1
    <3>2. ASSUME NEW k \in 0..(m + 1) PROVE h[k] = Step(h, k)
      <4>1. h[k] = Step(g, k)
        <5> HIDE DEF Step
        <5> QED
          BY <3>a
      <4>2. k # 0 => k - 1 \in 0..m /\ h[k - 1] = g[k - 1]
        OBVIOUS
      <4> QED
        BY <4>1, <4>2
    <3>3. h = [k \in 0..(m + 1) |-> h[k]]
      OBVIOUS
    <3> HIDE DEF h
    <3>4. h = [k \in 0..(m + 1) |-> Step(h, k)]
      BY <3>2, <3>3
    <3> QED
      BY <3>4
  <2> HIDE DEF Good
  <2> DEFINE Bad == {m \in Nat : ~Good(m)}
  <2>3. Bad = {}
    <3> SUFFICES ASSUME Bad # {} PROVE FALSE
      OBVIOUS
    <3>1. PICK m \in Bad : \A j \in Bad : m <= j
      BY LeastNat
    <3>2. m # 0 /\ m - 1 \in Nat /\ (m - 1) + 1 = m
      BY <2>1
    <3>3. Good(m - 1)
      BY <3>1, <3>2
    <3> QED
      BY <2>2, <3>2, <3>3
  <2> QED
    BY <1>1, <2>3
<1>4. kept = [k \in 0..n |-> Step(kept, k)]
  BY <1>3
<1>a. \A k \in 0..n : kept[k] = Step(kept, k)
  <2> HIDE DEF kept, n, Step
  <2> QED
    BY <1>4
<1>5. kept[0] = <<>> /\ \A k \in 1..n : kept[k] = IF ds[k].job \in S THEN kept[k - 1] ELSE Append(kept[k - 1], ds[k])
  <2> HIDE DEF kept, n
  <2>1. 0 \in 0..n /\ \A k \in 1..n : k \in 0..n /\ k # 0
    BY <1>1
  <2> QED
    BY <1>a, <2>1
<1> HIDE DEF kept, n, Step, Good
<1> DEFINE Upto(m) == {ds[j].job : j \in 1..m}
           Fine(m) == kept[m] \in Seq(Delivery) /\ OnceIn(kept[m]) /\ JobsIn(kept[m]) = Upto(m) \ S
<1>6. Fine(0)
  <2>1. <<>> \in Seq(Delivery) /\ DOMAIN <<>> = {} /\ Upto(0) = {}
    OBVIOUS
  <2> QED
    BY <1>5, <2>1 DEF OnceIn, JobsIn
<1>7. ASSUME NEW m \in 1..n, Fine(m - 1) PROVE Fine(m)
  <2>1. Upto(m) = Upto(m - 1) \cup {ds[m].job}
    <3>1. \A j \in 1..m : j \in 1..(m - 1) \/ j = m
      BY <1>1
    <3>2. 1..(m - 1) \subseteq 1..m /\ m \in 1..m
      BY <1>1
    <3> QED
      BY <3>1, <3>2
  <2>2. ds[m].job \notin Upto(m - 1)
    BY <1>1 DEF OnceIn
  <2>3. CASE ds[m].job \in S
    BY <1>5, <1>7, <2>1, <2>3
  <2>4. CASE ds[m].job \notin S
    <3>1. kept[m] = Append(kept[m - 1], ds[m]) /\ ds[m] \in Delivery
      BY <1>1, <1>5, <2>4
    <3>2. ds[m].job \notin JobsIn(kept[m - 1])
      BY <1>7, <2>2
    <3> HIDE DEF Upto
    <3> QED
      BY <1>7, <2>1, <2>4, <3>1, <3>2, Appended
  <2> QED
    BY <2>3, <2>4
<1>8. Fine(n)
  <2> HIDE DEF Fine
  <2> DEFINE Bad == {m \in 0..n : ~Fine(m)}
  <2>1. Bad = {}
    <3> SUFFICES ASSUME Bad # {} PROVE FALSE
      OBVIOUS
    <3>1. PICK m \in Bad : \A j \in Bad : m <= j
      <4>1. Bad \subseteq Nat
        BY <1>1
      <4> QED
        BY <4>1, LeastNat
    <3>2. m \in 1..n /\ m - 1 \in 0..n
      BY <1>1, <1>6
    <3>3. Fine(m - 1)
      BY <3>1, <3>2
    <3> QED
      BY <1>7, <3>2, <3>3
  <2> QED
    BY <1>1, <2>1
<1>9. Upto(n) = JobsIn(ds)
  BY <1>1 DEF JobsIn
<1> QED
  BY <1>2, <1>8, <1>9

-----------------------------------------------------------------------------
(* The queue of deliveries.                                                *)

Places == {"off", "sleep", "deliver", "ended"}

(* What the delivery loop or a drain may do to a queue ds while inf are in *)
(* flight: results move on, or are dropped because they are suppressed.    *)
Handled(ds, inf) ==
  /\ deliveries' \in Seq(Delivery) /\ inflight' \in SUBSET Jobs /\ loop'.at \in Places
  /\ deliveries' # <<>> => loop'.at # "off"
  /\ OnceIn(deliveries') /\ JobsIn(deliveries') \cap inflight' = {}
  /\ inf \subseteq inflight'
  /\ JobsIn(deliveries') \cup inflight' \subseteq JobsIn(ds) \cup inf
  /\ \A o \in JobsIn(ds) :
       o \in JobsIn(deliveries') \cup inflight' \/ Id(o) \in suppressed' \cup watched'

(* The queue and what is in flight.                                        *)
Fit(ds, inf) ==
  /\ ds \in Seq(Delivery) /\ inf \in SUBSET Jobs
  /\ OnceIn(ds) /\ JobsIn(ds) \cap inf = {}

(* The jobs of a queue are jobs; only the empty queue has none.            *)
LEMMA JobsInType ==
  ASSUME NEW ds \in Seq(Delivery)
  PROVE  /\ JobsIn(ds) \subseteq Jobs /\ (ds = <<>> <=> JobsIn(ds) = {})
         /\ DOMAIN ds = 1..Len(ds) /\ Len(ds) \in Nat
         /\ \A k \in DOMAIN ds : ds[k] \in Delivery
<1>1. DOMAIN ds = 1..Len(ds) /\ Len(ds) \in Nat /\ \A k \in DOMAIN ds : ds[k] \in Delivery
  BY LenProperties, ElementOfSeq
<1>2. JobsIn(ds) \subseteq Jobs
  BY <1>1 DEF JobsIn, Delivery
<1>3. ds = <<>> => JobsIn(ds) = {}
  BY <1>1, EmptySeq DEF JobsIn
<1>4. ds # <<>> => JobsIn(ds) # {}
  <2>1. ds # <<>> => 1 \in DOMAIN ds
    BY <1>1, EmptySeq
  <2> QED
    BY <2>1 DEF JobsIn
<1> QED
  BY <1>1, <1>2, <1>3, <1>4

(* The head goes into flight.                                              *)
LEMMA HeadDelivered ==
  ASSUME NEW ds, NEW inf, Fit(ds, inf), ds # <<>>, DeliverHead(ds, inf)
  PROVE  Handled(ds, inf)
<1>1. /\ Tail(ds) \in Seq(Delivery) /\ OnceIn(Tail(ds)) /\ Head(ds) \in Delivery
      /\ JobsIn(Tail(ds)) = JobsIn(ds) \ {Head(ds).job}
      /\ Head(ds).job \in JobsIn(ds)
  BY Shortened DEF Fit
<1>2. deliveries' = Tail(ds) /\ inflight' = inf \cup {Head(ds).job} /\ loop'.at = "deliver"
  BY DEF DeliverHead
<1>3. Head(ds).job \in Jobs
  BY <1>1 DEF Delivery
<1> QED
  BY <1>1, <1>2, <1>3 DEF Handled, Fit, Places

(* The loop drops what is suppressed at the head of the queue.             *)
LEMMA LoopRuns ==
  ASSUME NEW ds, NEW inf, Fit(ds, inf), RunDeliveryLoop(ds, inf)
  PROVE  Handled(ds, inf)
<1> DEFINE live == {k \in DOMAIN ds : Id(ds[k].job) \notin suppressed' \cup watched'}
           m    == Min(live)
           rest == SubSeq(ds, m, Len(ds))
<1>1. DOMAIN ds = 1..Len(ds) /\ Len(ds) \in Nat /\ JobsIn(ds) \subseteq Jobs
  BY JobsInType DEF Fit
<1>2. CASE live = {}
  <2>1. deliveries' = <<>> /\ inflight' = inf /\ loop'.at = "ended"
    BY <1>2 DEF RunDeliveryLoop
  <2>2. \A o \in JobsIn(ds) : Id(o) \in suppressed' \cup watched'
    BY <1>2 DEF JobsIn
  <2>3. <<>> \in Seq(Delivery) /\ OnceIn(<<>>) /\ JobsIn(<<>>) = {}
    BY DEF OnceIn, JobsIn
  <2> QED
    BY <2>1, <2>2, <2>3 DEF Handled, Fit, Places
<1>3. CASE live # {}
  <2>1. live \subseteq Nat
    BY <1>1
  <2>2. m \in live /\ \A k \in live : m <= k
    <3>1. \E k \in live : \A j \in live : k <= j
      BY <1>3, <2>1, LeastNat
    <3> HIDE DEF live
    <3> QED
      BY <3>1 DEF Min
  <2> HIDE DEF m
  <2>3. /\ rest \in Seq(Delivery) /\ rest # <<>> /\ OnceIn(rest) /\ Head(rest) = ds[m]
        /\ JobsIn(rest) = {ds[k].job : k \in m..Len(ds)}
    BY <2>2, From DEF Fit
  <2>4. JobsIn(rest) \subseteq JobsIn(ds)
    BY <1>1, <2>2, <2>3 DEF JobsIn
  <2>5. ASSUME NEW o \in JobsIn(ds), o \notin JobsIn(rest) PROVE Id(o) \in suppressed' \cup watched'
    <3>1. PICK k \in DOMAIN ds : ds[k].job = o
      BY DEF JobsIn
    <3>2. k \notin m..Len(ds)
      BY <2>3, <2>5, <3>1
    <3>3. ~(m <= k)
      BY <1>1, <2>1, <2>2, <3>2
    <3>4. k \notin live
      BY <2>2, <3>3
    <3> QED
      BY <3>1, <3>4
  <2>6. Fit(rest, inf)
    BY <2>3, <2>4 DEF Fit
  <2>7. \/ DeliverHead(rest, inf)
        \/ deliveries' = rest /\ inflight' = inf /\ loop' = [at |-> "sleep", held |-> Head(rest)]
    BY <1>3, Zenon DEF RunDeliveryLoop, m
  <2> HIDE DEF rest
  <2>8. Handled(rest, inf)
    <3>1. CASE DeliverHead(rest, inf)
      BY <2>3, <2>6, <3>1, HeadDelivered
    <3>2. CASE deliveries' = rest /\ inflight' = inf /\ loop' = [at |-> "sleep", held |-> Head(rest)]
      BY <2>6, <3>2 DEF Fit, Handled, Places
    <3> QED
      BY <2>7, <3>1, <3>2
  <2> QED
    BY <2>4, <2>5, <2>8 DEF Handled
<1> QED
  BY <1>2, <1>3

(* A queue that is set down without a change.                              *)
LEMMA SetDown ==
  ASSUME NEW ds, NEW inf, Fit(ds, inf), deliveries' = ds, inflight' = inf, loop' = loop,
         loop.at \in Places, ds # <<>> => loop.at # "off"
  PROVE  Handled(ds, inf)
BY DEF Fit, Handled

(* ensureDeliveryLoop starts the loop, or leaves it to the one that runs.  *)
LEMMA LoopEnsured ==
  ASSUME NEW ds, NEW inf, Fit(ds, inf), loop.at \in Places, EnsureDeliveryLoop(ds, inf)
  PROVE  Handled(ds, inf)
<1>1. CASE loop.at = "off"
  BY <1>1, LoopRuns DEF EnsureDeliveryLoop
<1>2. CASE loop.at # "off"
  BY <1>2, SetDown DEF EnsureDeliveryLoop
<1> QED
  BY <1>1, <1>2

(* Results that are acknowledged leave the queue.                          *)
LEMMA Acknowledged ==
  ASSUME NEW ids, Fit(deliveries, inflight), loop.at \in Places, LoopAlive,
         AcknowledgeDeliveries(ids)
  PROVE  /\ Handled(deliveries, inflight) /\ suppressed' = suppressed \cup ids
         /\ inflight' = inflight
         /\ ids # {} => \A o \in JobsIn(deliveries') : Id(o) \notin suppressed'
<1> DEFINE S == {o \in Jobs : Id(o) \in suppressed \cup ids \cup watched'}
<1>1. suppressed' = suppressed \cup ids /\ inflight' = inflight /\ loop' = loop
  BY DEF AcknowledgeDeliveries
<1>2. CASE ids = {}
  <2>1. deliveries' = deliveries
    BY <1>2 DEF AcknowledgeDeliveries
  <2> QED
    BY <1>1, <1>2, <2>1, SetDown DEF LoopAlive
<1>3. CASE ids # {}
  <2>1. deliveries' = Without(deliveries, S)
    BY <1>3 DEF AcknowledgeDeliveries
  <2>2. /\ deliveries' \in Seq(Delivery) /\ OnceIn(deliveries')
        /\ JobsIn(deliveries') = JobsIn(deliveries) \ S
    BY <2>1, Purged DEF Fit
  <2>3. JobsIn(deliveries) \subseteq Jobs /\ (JobsIn(deliveries) # {} => deliveries # <<>>)
    BY JobsInType DEF Fit
  <2>4. JobsIn(deliveries') # {} \/ deliveries' = <<>>
    BY <2>2, JobsInType
  <2>5. Handled(deliveries, inflight)
    BY <1>1, <2>2, <2>3, <2>4 DEF Handled, Fit, LoopAlive
  <2>6. \A o \in JobsIn(deliveries') : Id(o) \notin suppressed'
    BY <1>1, <2>2, <2>3
  <2> QED
    BY <1>1, <2>5, <2>6
<1> QED
  BY <1>2, <1>3

-----------------------------------------------------------------------------
(* Types.                                                                  *)

JobRec == [status : {"unborn", "running", "done", "cancelled"}, id : Ids,
           run : {"live", "over", "settled"},
           wait : {"none", "waiting", "threshold", "abort", "returned", "background", "aborted"}]

PollRec == [tracked : SUBSET Jobs, watching : SUBSET Jobs]

ManagerType ==
  /\ job \in [Jobs -> JobRec] /\ jobs \in [Ids -> Jobs \cup {None}]
  /\ suppressed \subseteq Ids /\ watched \subseteq Ids /\ timers \subseteq Ids
  /\ fails \in 0 .. MaxFails /\ poll \in Seq(PollRec)
  /\ toolTold \subseteq Jobs /\ evicted \subseteq Jobs

DeliveryType ==
  /\ deliveries \in Seq(Delivery) /\ inflight \in SUBSET Jobs /\ loop.at \in Places
  /\ yq \in Seq(Jobs) /\ injected \subseteq Jobs

(* The type of the state, in two parts: the jobs, and the delivery.        *)
LEMMA TypeParts == TypeOK <=> ManagerType /\ DeliveryType
BY DEF TypeOK, ManagerType, DeliveryType, JobRec, PollRec, Delivery, Places

(* The same after the step.                                                *)
LEMMA TypePartsPrimed == TypeOK' <=> ManagerType' /\ DeliveryType'
BY DEF TypeOK, ManagerType, DeliveryType, JobRec, PollRec, Delivery, Places

(* The fields of a job.                                                    *)
LEMMA JobFields ==
  ASSUME ManagerType, NEW o \in Jobs
  PROVE  /\ job[o] \in JobRec /\ Id(o) \in Ids /\ Id(o) = job[o].id
         /\ job[o].status \in {"unborn", "running", "done", "cancelled"}
BY DEF ManagerType, JobRec, Id

(* While a job is not born, there is an id for it.                         *)
LEMMA FreeIdFound ==
  ASSUME ManagerType, TableInv, NEW o \in Jobs, ~Born(o)
  PROVE  FreeId \in Ids /\ jobs[FreeId] = None
<1> DEFINE free == {i \in Ids : jobs[i] = None}
<1>1. free # {}
  <2> SUFFICES ASSUME \A i \in Ids : jobs[i] # None PROVE FALSE
    OBVIOUS
  <2>1. jobs \in [Ids -> Jobs \ {o}]
    BY DEF TableInv, ManagerType
  <2>2. \A i, k \in Ids : jobs[i] = jobs[k] => i = k
    BY DEF TableInv
  <2>3. IsFiniteSet(Jobs) /\ Cardinality(Jobs) = N
    BY NAssumption, FS_Interval DEF Jobs
  <2>4. IsFiniteSet(Jobs \ {o}) /\ Cardinality(Jobs \ {o}) = N - 1
    BY <2>3, FS_RemoveElement
  <2>5. \E i, k \in Ids : i # k /\ jobs[i] = jobs[k]
    <3>1. IsFiniteSet(Ids) /\ Cardinality(Ids) = N /\ N - 1 < N
      BY <2>3, NAssumption DEF Ids, Jobs
    <3> QED
      BY <2>1, <2>4, <3>1, FS_PigeonHole
  <2> QED
    BY <2>2, <2>5
<1>2. free \subseteq Nat
  BY NAssumption DEF Ids
<1> HIDE DEF free
<1>3. PICK i \in free : \A k \in free : i <= k
  BY <1>1, <1>2, LeastNat
<1>4. i \in Ids /\ jobs[i] = None
  BY <1>3 DEF free
<1>5. \A k \in 1 .. i - 1 : jobs[k] # None
  <2> TAKE k \in 1 .. i - 1
  <2>1. k \in Ids /\ ~(i <= k)
    BY <1>4, NAssumption DEF Ids
  <2>2. k \notin free
    BY <1>3, <2>1
  <2> QED
    BY <2>1, <2>2 DEF free
<1>6. \E j \in Ids : jobs[j] = None /\ \A k \in 1 .. j - 1 : jobs[k] # None
  BY <1>4, <1>5
<1> QED
  BY <1>6 DEF FreeId

-----------------------------------------------------------------------------
(* The way of the results.                                                 *)

\* Where the result of a job can be on its way into the conversation.
Placed == JobsIn(deliveries) \cup inflight \cup ToSet(yq) \cup injected

(* A step keeps each result in one place; it adds those of the jobs in new *)
(* and loses only what is suppressed.                                      *)
Flow(new) ==
  /\ DeliveryType' /\ LoopAlive' /\ CopyInv'
  /\ injected \subseteq injected'
  /\ Placed' \subseteq Placed \cup new
  /\ \A o \in Placed \cup new : o \in Placed' \/ Id(o) \in suppressed' \cup watched'
  /\ \A o \in JobsIn(deliveries') : o \in JobsIn(deliveries) \/ Id(o) \notin suppressed'
  /\ inflight' \subseteq inflight \cup JobsIn(deliveries) \cup new

(* What CopyInv says of the places.                                        *)
LEMMA CopyParts ==
  CopyInv /\ DeliveryType <=>
    /\ Fit(deliveries, inflight) /\ OnceStaged(yq) /\ loop.at \in Places
    /\ yq \in Seq(Jobs) /\ injected \subseteq Jobs
    /\ (JobsIn(deliveries) \cup inflight) \cap (ToSet(yq) \cup injected) = {}
    /\ ToSet(yq) \cap injected = {}
BY DEF CopyInv, DeliveryType, Fit

(* CopyInv after a step, by what it says of each place.                    *)
LEMMA CopyPartsPrimed ==
  CopyInv' /\ DeliveryType' <=>
    /\ Fit(deliveries', inflight') /\ OnceStaged(yq') /\ loop'.at \in Places
    /\ yq' \in Seq(Jobs) /\ injected' \subseteq Jobs
    /\ (JobsIn(deliveries') \cup inflight') \cap (ToSet(yq') \cup injected') = {}
    /\ ToSet(yq') \cap injected' = {}
BY DEF CopyInv, DeliveryType, Fit

(* Nothing enters or leaves the session.                                   *)
LEMMA HandledFlow ==
  ASSUME DeliveryType, CopyInv, Handled(deliveries, inflight), UNCHANGED <<yq, injected>>
  PROVE  Flow({})
<1>1. CopyInv' /\ DeliveryType'
  BY CopyParts, CopyPartsPrimed DEF Handled, Fit
<1> QED
  BY <1>1 DEF Handled, Flow, Placed, LoopAlive

(* A result that was in no place is queued.                                *)
LEMMA QueuedFlow ==
  ASSUME DeliveryType, CopyInv, NEW d \in Delivery, d.job \notin Placed, Id(d.job) \notin suppressed',
         Handled(Append(deliveries, d), inflight), UNCHANGED <<yq, injected>>
  PROVE  Flow({d.job})
<1>1. JobsIn(Append(deliveries, d)) = JobsIn(deliveries) \cup {d.job}
  BY Appended DEF DeliveryType
<1>2. CopyInv' /\ DeliveryType'
  BY <1>1, CopyParts, CopyPartsPrimed DEF Handled, Fit, Placed
<1>3. JobsIn(deliveries') \cup inflight' \subseteq JobsIn(deliveries) \cup {d.job} \cup inflight
  BY <1>1 DEF Handled
<1>4. inflight \subseteq inflight' /\ LoopAlive'
  BY DEF Handled, LoopAlive
<1>5. \A o \in JobsIn(deliveries) \cup {d.job} :
        o \in JobsIn(deliveries') \cup inflight' \/ Id(o) \in suppressed' \cup watched'
  BY <1>1 DEF Handled
<1>6. Placed' \subseteq Placed \cup {d.job}
  BY <1>3 DEF Placed
<1>7. \A o \in Placed \cup {d.job} : o \in Placed' \/ Id(o) \in suppressed' \cup watched'
  BY <1>4, <1>5 DEF Placed
<1>8. \A o \in JobsIn(deliveries') : o \in JobsIn(deliveries) \/ Id(o) \notin suppressed'
  <2>1. JobsIn(deliveries') \cap inflight = {}
    BY <1>4 DEF Handled
  <2> QED
    BY <1>3, <2>1
<1> QED
  BY <1>2, <1>3, <1>4, <1>6, <1>7, <1>8 DEF Flow

(* The queue and what is in flight when a delivery that failed is put back.*)
LEMMA FitAppended ==
  ASSUME NEW ds, NEW inf, Fit(ds, inf), NEW d \in Delivery, d.job \notin JobsIn(ds) \cup inf
  PROVE  Fit(Append(ds, d), inf)
BY Appended DEF Fit

(* The end of a delivery.                                                  *)
LEMMA DeliveryEnded ==
  ASSUME NEW o \in Jobs, NEW ds, Fit(ds, inflight \ {o}), loop.at \in Places, DeliveryEnds(o, ds)
  PROVE  Handled(ds, inflight \ {o})
<1>1. CASE ds # <<>>
  BY <1>1, LoopEnsured DEF DeliveryEnds
<1>2. CASE ds = <<>>
  BY <1>2, SetDown DEF DeliveryEnds
<1> QED
  BY <1>1, <1>2

(* One more result in the yield queue.                                     *)
LEMMA Staged ==
  ASSUME NEW s \in Seq(Jobs), NEW o \in Jobs
  PROVE  /\ Append(s, o) \in Seq(Jobs) /\ ToSet(Append(s, o)) = ToSet(s) \cup {o}
         /\ ToSet(s) \subseteq Jobs
         /\ OnceStaged(s) /\ o \notin ToSet(s) => OnceStaged(Append(s, o))
<1> DEFINE n == Len(s)
           t == Append(s, o)
<1>1. n \in Nat /\ DOMAIN s = 1..n /\ \A k \in 1..n : s[k] \in Jobs
  BY LenProperties, ElementOfSeq
<1>2. t \in Seq(Jobs) /\ Len(t) = n + 1 /\ t[n + 1] = o /\ \A k \in 1..n : t[k] = s[k]
  BY AppendProperties
<1>3. DOMAIN t = 1..(n + 1)
  BY <1>1, <1>2, LenProperties
<1> HIDE DEF n, t
<1>4. \A k \in 1..(n + 1) : k \in 1..n \/ k = n + 1
  BY <1>1
<1>5. ToSet(t) \subseteq ToSet(s) \cup {o} /\ ToSet(s) \subseteq Jobs
  BY <1>1, <1>2, <1>3, <1>4 DEF ToSet
<1>6. ToSet(s) \subseteq ToSet(t) /\ o \in ToSet(t)
  BY <1>1, <1>2, <1>3 DEF ToSet
<1>7. ASSUME OnceStaged(s), o \notin ToSet(s) PROVE OnceStaged(t)
  BY <1>1, <1>2, <1>3, <1>4, <1>7 DEF OnceStaged, ToSet
<1> QED
  BY <1>2, <1>5, <1>6, <1>7 DEF t

(* onJobComplete stages a result that was in flight, or drops it.          *)
LEMMA CompleteFlow ==
  ASSUME DeliveryType, CopyInv, NEW o \in Jobs, OnJobComplete(o)
  PROVE  Flow({})
<1>1. /\ o \in inflight /\ DeliveryEnds(o, deliveries) /\ suppressed' = suppressed /\ watched' = watched
      /\ yq' = (IF IsDeliverySuppressed(Id(o)) THEN yq ELSE Append(yq, o)) /\ injected' = injected
  BY DEF OnJobComplete, manager, history
<1>2. Fit(deliveries, inflight \ {o}) /\ loop.at \in Places
  BY CopyParts DEF Fit
<1>3. Handled(deliveries, inflight \ {o})
  BY <1>1, <1>2, DeliveryEnded
<1>4. o \notin JobsIn(deliveries) \cup ToSet(yq) \cup injected
  BY <1>1 DEF CopyInv
<1>5. o \notin JobsIn(deliveries') \cup inflight'
  BY <1>3, <1>4 DEF Handled
<1>6. /\ yq' \in Seq(Jobs) /\ OnceStaged(yq') /\ ToSet(yq) \subseteq ToSet(yq')
      /\ ToSet(yq') \subseteq ToSet(yq) \cup {o}
      /\ o \in ToSet(yq') \/ Id(o) \in suppressed' \cup watched'
  BY <1>1, <1>4, Staged DEF DeliveryType, CopyInv, IsDeliverySuppressed
<1>7. CopyInv' /\ DeliveryType'
  BY <1>1, <1>3, <1>4, <1>5, <1>6, CopyParts, CopyPartsPrimed DEF Handled, Fit
<1>8. /\ JobsIn(deliveries') \cup inflight' \subseteq JobsIn(deliveries) \cup inflight
      /\ inflight \subseteq inflight' \cup {o} /\ LoopAlive'
      /\ JobsIn(deliveries') \subseteq JobsIn(deliveries) \cup inflight
  BY <1>3 DEF Handled, LoopAlive
<1>9. \A x \in JobsIn(deliveries) : x \in JobsIn(deliveries') \cup inflight' \/ Id(x) \in suppressed' \cup watched'
  BY <1>3 DEF Handled
<1>10. JobsIn(deliveries') \subseteq JobsIn(deliveries)
  BY <1>3 DEF Handled
<1> QED
  BY <1>1, <1>6, <1>7, <1>8, <1>9, <1>10 DEF Flow, Placed

(* A delivery that fails goes back to the end of the queue.                *)
LEMMA FailFlow ==
  ASSUME DeliveryType, CopyInv, ManagerType, NEW o \in Jobs, OnJobCompleteFails(o)
  PROVE  Flow({}) /\ fails' \in 0 .. MaxFails
<1> DEFINE d  == [job |-> o, attempt |-> fails + 1, due |-> FALSE]
           ds == IF IsDeliverySuppressed(Id(o)) THEN deliveries ELSE Append(deliveries, d)
<1>1. /\ o \in inflight /\ DeliveryEnds(o, ds) /\ suppressed' = suppressed /\ watched' = watched
      /\ yq' = yq /\ injected' = injected /\ fails' = fails + 1 /\ fails < MaxFails
  BY DEF OnJobCompleteFails, manager, history
<1>2. d \in Delivery /\ d.job = o /\ fails' \in 0 .. MaxFails
  BY <1>1, BoundsAssumption DEF ManagerType, Delivery
<1> HIDE DEF d
<1>3. Fit(deliveries, inflight \ {o}) /\ loop.at \in Places /\ deliveries \in Seq(Delivery)
      /\ o \notin JobsIn(deliveries) \cup ToSet(yq) \cup injected
  BY <1>1, CopyParts DEF Fit
<1>4. /\ Fit(ds, inflight \ {o}) /\ JobsIn(ds) \subseteq JobsIn(deliveries) \cup {o}
      /\ JobsIn(deliveries) \subseteq JobsIn(ds)
      /\ o \in JobsIn(ds) <=> Id(o) \notin suppressed' \cup watched'
  <2>1. CASE IsDeliverySuppressed(Id(o))
    BY <1>1, <1>3, <2>1 DEF IsDeliverySuppressed
  <2>2. CASE ~IsDeliverySuppressed(Id(o))
    <3>1. JobsIn(Append(deliveries, d)) = JobsIn(deliveries) \cup {o}
      BY <1>2, <1>3, Appended
    <3>2. Fit(Append(deliveries, d), inflight \ {o})
      BY <1>2, <1>3, FitAppended
    <3> QED
      BY <1>1, <2>2, <3>1, <3>2 DEF IsDeliverySuppressed
  <2> QED
    BY <2>1, <2>2
<1> HIDE DEF ds
<1>5. Handled(ds, inflight \ {o})
  BY <1>1, <1>3, <1>4, DeliveryEnded
<1>6. CopyInv' /\ DeliveryType'
  BY <1>1, <1>3, <1>4, <1>5, CopyParts, CopyPartsPrimed DEF Handled, Fit
<1>7. /\ JobsIn(deliveries') \cup inflight' \subseteq JobsIn(deliveries) \cup inflight
      /\ inflight \subseteq inflight' \cup {o} /\ LoopAlive'
  BY <1>1, <1>4, <1>5 DEF Handled, LoopAlive
<1>8. \A x \in JobsIn(deliveries) \cup {o} :
        x \in JobsIn(deliveries') \cup inflight' \/ Id(x) \in suppressed' \cup watched'
  BY <1>4, <1>5 DEF Handled
<1>9. \A x \in JobsIn(deliveries') : x \in JobsIn(deliveries) \/ Id(x) \notin suppressed'
  <2> SUFFICES ASSUME NEW x \in JobsIn(deliveries'), x \notin JobsIn(deliveries) PROVE Id(x) \notin suppressed'
    OBVIOUS
  <2>1. x \in JobsIn(ds) \cup (inflight \ {o}) /\ x \notin inflight \ {o}
    BY <1>5 DEF Handled
  <2>2. x = o /\ o \in JobsIn(ds)
    BY <1>4, <2>1
  <2> QED
    BY <1>4, <2>2
<1> QED
  BY <1>1, <1>2, <1>6, <1>7, <1>8, <1>9 DEF Flow, Placed

(* The session takes all that is staged.                                   *)
LEMMA DrainFlow ==
  ASSUME DeliveryType, CopyInv, LoopAlive, Drain
  PROVE  Flow({})
<1>1. /\ yq' = <<>> /\ injected' = injected \cup Survivors /\ UNCHANGED <<deliveries, inflight, loop>>
      /\ suppressed' = suppressed /\ watched' = watched
  BY DEF Drain, manager, delivery
<1>2. Survivors \subseteq ToSet(yq) /\ \A o \in ToSet(yq) : o \in Survivors \/ Id(o) \in suppressed' \cup watched'
  BY <1>1 DEF Survivors, IsDeliverySuppressed
<1>3. <<>> \in Seq(Jobs) /\ ToSet(<<>>) = {} /\ OnceStaged(<<>>)
  BY DEF ToSet, OnceStaged
<1>4. ToSet(yq) \subseteq Jobs
  <2>1. \A k \in DOMAIN yq : yq[k] \in Jobs
    BY ElementOfSeq, LenProperties DEF DeliveryType
  <2> QED
    BY <2>1 DEF ToSet
<1>5. CopyInv' /\ DeliveryType'
  BY <1>1, <1>2, <1>3, <1>4, CopyParts, CopyPartsPrimed
<1>6. LoopAlive'
  BY <1>1 DEF LoopAlive
<1> QED
  BY <1>1, <1>2, <1>3, <1>5, <1>6 DEF Flow, Placed

(* What the loop, a drain and the timers do to the queue.                  *)
LEMMA LoopFlow ==
  ASSUME DeliveryType, CopyInv, LoopAlive,
         \/ LoopWakes \/ LoopResumes \/ LoopFinally
         \/ \E k \in Jobs : BackoffElapses(k) \/ DrainTakes(k)
  PROVE  Flow({})
<1>1. Fit(deliveries, inflight) /\ loop.at \in Places
  BY CopyParts
<1>2. UNCHANGED <<yq, injected>>
  BY DEF LoopWakes, LoopResumes, LoopFinally, BackoffElapses, DrainTakes, history
<1>3. CASE LoopWakes
  <2>1. (DeliverHead(deliveries, inflight) /\ deliveries # <<>>) \/ RunDeliveryLoop(deliveries, inflight)
    BY <1>3, Zenon DEF LoopWakes
  <2>2. Handled(deliveries, inflight)
    BY <1>1, <2>1, HeadDelivered, LoopRuns
  <2> QED
    BY <1>2, <2>2, HandledFlow
<1>4. CASE LoopResumes
  <2>1. Handled(deliveries, inflight)
    BY <1>1, <1>4, LoopRuns DEF LoopResumes
  <2> QED
    BY <1>2, <2>1, HandledFlow
<1>5. CASE LoopFinally
  <2>1. CASE deliveries = <<>>
    <3>1. deliveries' = deliveries /\ inflight' = inflight /\ loop'.at = "off"
      BY <1>5, <2>1 DEF LoopFinally
    <3>2. Handled(deliveries, inflight)
      BY <1>1, <2>1, <3>1 DEF Handled, Fit, Places
    <3> QED
      BY <1>2, <3>2, HandledFlow
  <2>2. CASE deliveries # <<>>
    <3>1. Handled(deliveries, inflight)
      BY <1>1, <1>5, <2>2, LoopRuns DEF LoopFinally
    <3> QED
      BY <1>2, <3>1, HandledFlow
  <2> QED
    BY <2>1, <2>2
<1>6. ASSUME NEW k \in Jobs, BackoffElapses(k) PROVE Flow({})
  <2>1. /\ k \in DOMAIN deliveries /\ deliveries' = [deliveries EXCEPT ![k].due = TRUE]
        /\ inflight' = inflight /\ loop' = loop
    BY <1>6 DEF BackoffElapses
  <2>2. /\ DOMAIN deliveries = 1..Len(deliveries) /\ Len(deliveries) \in Nat
        /\ \A l \in DOMAIN deliveries : deliveries[l] \in Delivery
    BY JobsInType DEF DeliveryType
  <2> DEFINE n == Len(deliveries)
  <2> HIDE DEF n
  <2>3. /\ DOMAIN deliveries = 1..n /\ n \in Nat /\ k \in 1..n /\ deliveries \in [1..n -> Delivery]
    BY <2>1, <2>2 DEF n, DeliveryType
  <2>4. [deliveries[k] EXCEPT !.due = TRUE] \in Delivery
        /\ [deliveries[k] EXCEPT !.due = TRUE].job = deliveries[k].job
    BY <2>3 DEF Delivery
  <2>5. /\ DOMAIN deliveries' = 1..n /\ deliveries' \in [1..n -> Delivery]
        /\ \A l \in 1..n : deliveries'[l].job = deliveries[l].job
    BY <2>1, <2>3, <2>4
  <2>6. deliveries' \in Seq(Delivery)
    BY <2>3, <2>5, SeqDef
  <2>7. JobsIn(deliveries') = JobsIn(deliveries)
    BY <2>3, <2>5 DEF JobsIn
  <2>8. OnceIn(deliveries')
    BY <1>1, <2>3, <2>5 DEF OnceIn, Fit
  <2>9. deliveries # <<>>
    BY <2>2, <2>3
  <2>10. Handled(deliveries, inflight)
    BY <1>1, <2>1, <2>6, <2>7, <2>8, <2>9 DEF Handled, Fit, LoopAlive
  <2> QED
    BY <1>2, <2>10, HandledFlow
<1>7. ASSUME NEW k \in Jobs, DrainTakes(k) PROVE Flow({})
  <2>1. /\ k \in DOMAIN deliveries /\ deliveries' = RemoveAt(deliveries, k)
        /\ inflight' = inflight \cup {deliveries[k].job} /\ loop' = loop
    BY <1>7 DEF DrainTakes
  <2>2. /\ RemoveAt(deliveries, k) \in Seq(Delivery) /\ OnceIn(RemoveAt(deliveries, k))
        /\ JobsIn(RemoveAt(deliveries, k)) = JobsIn(deliveries) \ {deliveries[k].job}
        /\ deliveries[k] \in Delivery /\ deliveries[k].job \in JobsIn(deliveries)
    BY <1>1, <2>1, Picked DEF Fit
  <2>3. JobsIn(deliveries) \subseteq Jobs /\ deliveries # <<>>
    BY <2>2, JobsInType DEF DeliveryType
  <2>4. Handled(deliveries, inflight)
    BY <1>1, <2>1, <2>2, <2>3 DEF Handled, Fit, LoopAlive
  <2> QED
    BY <1>2, <2>4, HandledFlow
<1> QED
  BY <1>3, <1>4, <1>5, <1>6, <1>7

(* The queue is let alone.                                                 *)
LEMMA StillFlow ==
  ASSUME DeliveryType, CopyInv, LoopAlive, UNCHANGED <<deliveries, inflight, loop, yq, injected>>
  PROVE  Flow({})
<1>1. Fit(deliveries, inflight) /\ loop.at \in Places
  BY CopyParts
<1>2. Handled(deliveries, inflight)
  BY <1>1, SetDown DEF LoopAlive
<1> QED
  BY <1>2, HandledFlow

(* acknowledgeDeliveries takes what it suppresses out of the queue.        *)
LEMMA AcknowledgedFlow ==
  ASSUME DeliveryType, CopyInv, LoopAlive, NEW ids, AcknowledgeDeliveries(ids),
         UNCHANGED <<yq, injected>>
  PROVE  /\ Flow({}) /\ suppressed' = suppressed \cup ids /\ inflight' = inflight
         /\ ids # {} => \A o \in JobsIn(deliveries') : Id(o) \notin suppressed'
<1>1. Fit(deliveries, inflight) /\ loop.at \in Places
  BY CopyParts
<1>2. /\ Handled(deliveries, inflight) /\ suppressed' = suppressed \cup ids /\ inflight' = inflight
      /\ ids # {} => \A o \in JobsIn(deliveries') : Id(o) \notin suppressed'
  BY <1>1, Acknowledged
<1> QED
  BY <1>2, HandledFlow

(* A result is queued unless it is suppressed.                             *)
LEMMA EnqueuedFlow ==
  ASSUME DeliveryType, CopyInv, NEW o \in Jobs, o \notin Placed, Id(o) \notin suppressed',
         EnsureDeliveryLoop(Append(deliveries, [job |-> o, attempt |-> 0, due |-> TRUE]), inflight),
         UNCHANGED <<yq, injected>>
  PROVE  Flow({o})
<1> DEFINE d == [job |-> o, attempt |-> 0, due |-> TRUE]
<1>1. d \in Delivery /\ d.job = o
  BY BoundsAssumption DEF Delivery
<1>2. EnsureDeliveryLoop(Append(deliveries, d), inflight)
  OBVIOUS
<1> HIDE DEF d
<1>3. Fit(deliveries, inflight) /\ loop.at \in Places
  BY CopyParts
<1>4. Fit(Append(deliveries, d), inflight)
  BY <1>1, <1>3, FitAppended DEF Placed
<1>5. Handled(Append(deliveries, d), inflight)
  BY <1>2, <1>3, <1>4, LoopEnsured
<1> QED
  BY <1>1, <1>5, QueuedFlow

(* The end of a job queues its result.                                     *)
LEMMA SettledFlow ==
  ASSUME DeliveryType, CopyInv, LoopAlive, FreshInv, NEW o \in Jobs, JobSettles(o)
  PROVE  \E new \in {{}, {o}} :
           /\ Flow(new)
           /\ new = {o} => job[o].status = "running" /\ Id(o) \notin suppressed
           /\ job[o].status = "running" => new = {o} \/ Id(o) \in suppressed' \cup watched'
<1>1. suppressed' = suppressed /\ watched' = watched /\ yq' = yq /\ injected' = injected
  BY DEF JobSettles, history
<1>2. CASE job[o].status = "cancelled" \/ IsDeliverySuppressed(Id(o))
  <2>1. UNCHANGED <<deliveries, inflight, loop>>
    BY <1>2 DEF JobSettles, EnqueueDelivery, delivery
  <2>2. Flow({})
    BY <1>1, <2>1, StillFlow
  <2>3. job[o].status = "running" => Id(o) \in suppressed' \cup watched'
    BY <1>1, <1>2 DEF IsDeliverySuppressed
  <2> QED
    BY <2>2, <2>3
<1>3. CASE job[o].status # "cancelled" /\ ~IsDeliverySuppressed(Id(o))
  <2>1. /\ job[o].status = "running"
        /\ EnsureDeliveryLoop(Append(deliveries, [job |-> o, attempt |-> 0, due |-> TRUE]), inflight)
    BY <1>3 DEF JobSettles, EnqueueDelivery
  <2>2. o \notin Placed /\ Id(o) \notin suppressed'
    BY <1>1, <1>3, <2>1 DEF FreshInv, Placed, IsDeliverySuppressed
  <2>3. Flow({o})
    BY <1>1, <2>1, <2>2, EnqueuedFlow
  <2> QED
    BY <1>1, <2>1, <2>2, <2>3
<1> QED
  BY <1>2, <1>3

(* A bash call that goes to the background resumes the delivery of its job.*)
LEMMA BackgroundFlow ==
  ASSUME DeliveryType, CopyInv, LoopAlive, ManagerType, TableInv, FreshInv, SuppressedInv,
         NEW o \in Jobs, Background(o)
  PROVE  /\ suppressed' = suppressed \ {Id(o)}
         /\ \E new \in {{}, {o}} :
              /\ Flow(new)
              /\ new = {o} => job[o].status = "done"
              /\ job[o].status = "done" => new = {o} \/ Id(o) \in suppressed' \cup watched'
<1>1. /\ suppressed' = suppressed \ {Id(o)} /\ watched' = watched /\ yq' = yq /\ injected' = injected
      /\ job[o].wait = "threshold"
  BY DEF Background, ResumeDeliveries, history
<1>2. Born(o) /\ o \notin evicted /\ Id(o) \in suppressed /\ o \notin Placed
  BY <1>1 DEF FreshInv, InForeground, Placed
<1>3. jobs[Id(o)] = o /\ o # None
  BY <1>2, NoneAssumption DEF TableInv, Jobs
<1>4. Id(o) \notin IdsOf(inflight) /\ ~(\E k \in DOMAIN deliveries : Id(deliveries[k].job) = Id(o))
  BY <1>1, <1>2 DEF SuppressedInv, JobsIn
<1>5. IF job[o].status = "done" /\ Id(o) \notin watched
      THEN EnsureDeliveryLoop(Append(deliveries, [job |-> o, attempt |-> 0, due |-> TRUE]), inflight)
      ELSE UNCHANGED delivery
  <2>1. ResumeDeliveries(o)
    BY DEF Background
  <2> QED
    BY <1>2, <1>3, <1>4, <2>1 DEF ResumeDeliveries
<1>6. CASE job[o].status = "done" /\ Id(o) \notin watched
  <2>1. Flow({o})
    BY <1>1, <1>2, <1>5, <1>6, EnqueuedFlow
  <2> QED
    BY <1>1, <1>6, <2>1
<1>7. CASE ~(job[o].status = "done" /\ Id(o) \notin watched)
  <2>1. UNCHANGED <<deliveries, inflight, loop>>
    BY <1>5, <1>7 DEF delivery
  <2>2. Flow({})
    BY <1>1, <2>1, StillFlow
  <2> QED
    BY <1>1, <1>7, <2>2
<1> QED
  BY <1>1, <1>6, <1>7

-----------------------------------------------------------------------------
(* What the steps do to the jobs.                                          *)

\* The next record r of a job whose record is q, whose result a tool call has
\* returned by then if told; free says that nothing of its id is in flight.
Moves(q, r, told, free) ==
  /\ r \in JobRec /\ r.id = q.id /\ (r.status = "unborn" <=> q.status = "unborn")
  /\ r.wait \in {"waiting", "threshold", "abort"} => q.wait \in {"waiting", "threshold", "abort"}
  /\ r.wait = "threshold" => q.wait = "threshold" \/ free
  /\ r.wait = "background" <=> q.wait = "background"
  /\ q.wait = "aborted" => r.wait = "aborted"
  /\ q.wait \in {"waiting", "threshold", "abort"} =>
       r.wait \in {"waiting", "threshold", "abort", "aborted"} \/ told
  /\ q.status = "done" => r.status = "done"
  /\ q.status = "running" => r.status \in {"running", "cancelled", "done"}

JobMoves ==
  \A x \in Jobs : Moves(job[x], job'[x], x \in toolTold', Id(x) \notin IdsOf(inflight))

(* A job that is let alone.                                                *)
LEMMA StillMoves ==
  ASSUME NEW q \in JobRec, NEW told, NEW free
  PROVE  Moves(q, q, told, free)
BY DEF Moves

(* A job that is cancelled.                                                *)
LEMMA CancelMoves ==
  ASSUME NEW q \in JobRec, q.status = "running", NEW told, NEW free
  PROVE  Moves(q, [q EXCEPT !.status = "cancelled"], told, free)
BY DEF Moves, JobRec

(* One job changes.                                                        *)
LEMMA OneMoves ==
  ASSUME ManagerType, NEW o \in Jobs, NEW r, job' = [job EXCEPT ![o] = r],
         Moves(job[o], r, o \in toolTold', Id(o) \notin IdsOf(inflight))
  PROVE  JobMoves /\ job' \in [Jobs -> JobRec]
<1>1. job \in [Jobs -> JobRec] /\ r \in JobRec
  BY DEF ManagerType, Moves
<1>2. \A x \in Jobs : job'[x] = IF x = o THEN r ELSE job[x]
  BY <1>1
<1>3. job' \in [Jobs -> JobRec]
  BY <1>1
<1>4. ASSUME NEW x \in Jobs, x # o
      PROVE  Moves(job[x], job'[x], x \in toolTold', Id(x) \notin IdsOf(inflight))
  BY <1>1, <1>2, <1>4, StillMoves
<1> QED
  BY <1>2, <1>3, <1>4 DEF JobMoves

(* Several running jobs are cancelled.                                     *)
LEMMA CancelledMoves ==
  ASSUME ManagerType, NEW S \in SUBSET Running, job' = Cancelled(S)
  PROVE  JobMoves /\ job' \in [Jobs -> JobRec]
<1>1. job \in [Jobs -> JobRec] /\ \A x \in S : x \in Jobs /\ job[x].status = "running"
  BY DEF ManagerType, Running
<1>2. \A x \in Jobs : job'[x] = IF x \in S THEN [job[x] EXCEPT !.status = "cancelled"] ELSE job[x]
  BY DEF Cancelled
<1>3. ASSUME NEW x \in Jobs
      PROVE  Moves(job[x], job'[x], x \in toolTold', Id(x) \notin IdsOf(inflight))
  <2>1. job[x] \in JobRec
    BY <1>1
  <2>2. CASE x \in S
    <3>1. job[x].status = "running" /\ job'[x] = [job[x] EXCEPT !.status = "cancelled"]
      BY <1>1, <1>2, <2>2
    <3> QED
      BY <2>1, <3>1, CancelMoves
  <2>3. CASE x \notin S
    <3>1. job'[x] = job[x]
      BY <1>2, <2>3
    <3> QED
      BY <2>1, <3>1, StillMoves
  <2> QED
    BY <2>2, <2>3
<1>4. job' \in [Jobs -> JobRec]
  <2>1. \A x \in Jobs : job'[x] \in JobRec
    BY <1>3 DEF Moves
  <2>2. job' = [x \in Jobs |-> job'[x]]
    BY <1>2 DEF Cancelled
  <2> QED
    BY <2>1, <2>2
<1> QED
  BY <1>3, <1>4 DEF JobMoves

(* No job changes.                                                         *)
LEMMA UnchangedMoves ==
  ASSUME ManagerType, job' = job
  PROVE  JobMoves /\ job' \in [Jobs -> JobRec]
<1>1. job \in [Jobs -> JobRec]
  BY DEF ManagerType
<1> QED
  BY <1>1, StillMoves DEF JobMoves

(* The steps that change one job.                                          *)
LEMMA StepMoves ==
  ASSUME ManagerType, NEW o \in Jobs,
         \/ CommandEnds(o) \/ JobSettles(o) \/ WaitCompletes(o) \/ CancelJob(o) \/ AbortForeground(o)
         \/ \E reason \in {"threshold", "abort"} : WaitLoses(o, reason)
  PROVE  JobMoves /\ job' \in [Jobs -> JobRec]
<1> DEFINE q == job[o]
           Here(r) == Moves(q, r, o \in toolTold', Id(o) \notin IdsOf(inflight))
<1>1. job \in [Jobs -> JobRec] /\ q \in JobRec
  BY DEF ManagerType
<1> HIDE DEF q
<1>2. CASE CommandEnds(o)
  <2>1. job' = [job EXCEPT ![o] = [q EXCEPT !.run = "over"]]
    BY <1>2 DEF CommandEnds, q
  <2>2. Here([q EXCEPT !.run = "over"])
    BY <1>1 DEF Moves, JobRec
  <2> QED
    BY <2>1, <2>2, OneMoves DEF q
<1>3. CASE JobSettles(o)
  <2>1. CASE q.status = "cancelled"
    <3>1. job' = [job EXCEPT ![o] = [q EXCEPT !.run = "settled"]]
      BY <1>3, <2>1 DEF JobSettles, q
    <3>2. Here([q EXCEPT !.run = "settled"])
      BY <1>1 DEF Moves, JobRec
    <3> QED
      BY <3>1, <3>2, OneMoves DEF q
  <2>2. CASE q.status # "cancelled"
    <3> DEFINE r == [q EXCEPT !.run = "settled", !.status = "done"]
    <3>1. job' = [job EXCEPT ![o] = r] /\ q.status = "running"
      BY <1>3, <2>2 DEF JobSettles, q
    <3>2. Here(r)
      BY <1>1, <3>1 DEF Moves, JobRec
    <3> HIDE DEF r
    <3> QED
      BY <3>1, <3>2, OneMoves DEF q
  <2> QED
    BY <2>1, <2>2
<1>4. CASE WaitCompletes(o)
  <2>1. /\ job' = [job EXCEPT ![o] = [q EXCEPT !.wait = "returned"]] /\ q.wait = "waiting"
        /\ o \in toolTold'
    BY <1>4 DEF WaitCompletes, q
  <2>2. Here([q EXCEPT !.wait = "returned"])
    BY <1>1, <2>1 DEF Moves, JobRec
  <2> QED
    BY <2>1, <2>2, OneMoves DEF q
<1>5. CASE CancelJob(o)
  <2>1. job' = Cancelled({o}) /\ {o} \in SUBSET Running
    BY <1>5 DEF CancelJob
  <2> QED
    BY <2>1, CancelledMoves
<1>6. CASE AbortForeground(o)
  <2> DEFINE S == {j \in Running : j = jobs[Id(o)]}
             c == Cancelled(S)
  <2>1. job' = [c EXCEPT ![o].wait = "aborted"] /\ q.wait = "abort"
    BY <1>6 DEF AbortForeground, q
  <2>2. \A x \in S : x \in Jobs /\ job[x].status = "running"
    BY DEF Running
  <2>3. c = [x \in Jobs |-> IF x \in S THEN [job[x] EXCEPT !.status = "cancelled"] ELSE job[x]]
    BY DEF Cancelled
  <2> HIDE DEF S
  <2>4. c \in [Jobs -> JobRec]
    BY <1>1, <2>3 DEF JobRec
  <2>5. \A x \in Jobs : c[x] = IF x \in S THEN [job[x] EXCEPT !.status = "cancelled"] ELSE job[x]
    BY <2>3
  <2> HIDE DEF c
  <2>6. job' \in [Jobs -> JobRec]
        /\ \A x \in Jobs : job'[x] = IF x = o THEN [c[o] EXCEPT !.wait = "aborted"] ELSE c[x]
    <3>1. [c[o] EXCEPT !.wait = "aborted"] \in JobRec
      BY <2>4 DEF JobRec
    <3>2. job' = [c EXCEPT ![o] = [c[o] EXCEPT !.wait = "aborted"]]
      BY <2>1
    <3> QED
      BY <2>4, <3>1, <3>2
  <2>7. ASSUME NEW x \in Jobs, x # o
        PROVE  Moves(job[x], job'[x], x \in toolTold', Id(x) \notin IdsOf(inflight))
    <3>1. job[x] \in JobRec /\ job'[x] = IF x \in S THEN [job[x] EXCEPT !.status = "cancelled"] ELSE job[x]
      BY <1>1, <2>5, <2>6, <2>7
    <3> QED
      BY <2>2, <3>1, StillMoves, CancelMoves
  <2>8. Here(job'[o])
    <3>1. CASE o \in S
      <4>1. q.status = "running" /\ job'[o] = [q EXCEPT !.status = "cancelled", !.wait = "aborted"]
        <5>1. c[o] = [q EXCEPT !.status = "cancelled"] /\ job'[o] = [c[o] EXCEPT !.wait = "aborted"]
              /\ q.status = "running"
          BY <2>2, <2>5, <2>6, <3>1 DEF q
        <5> QED
          BY <1>1, <5>1 DEF JobRec
      <4> DEFINE r == [q EXCEPT !.status = "cancelled", !.wait = "aborted"]
      <4>2. /\ r \in JobRec /\ r.id = q.id /\ r.status = "cancelled" /\ r.wait = "aborted"
            /\ q.wait = "abort" /\ q.status = "running"
        BY <1>1, <2>1, <4>1 DEF JobRec
      <4> HIDE DEF r
      <4>3. Here(r)
        BY <4>2 DEF Moves
      <4> QED
        BY <4>1, <4>3 DEF r
    <3>2. CASE o \notin S
      <4>1. job'[o] = [q EXCEPT !.wait = "aborted"]
        BY <2>5, <2>6, <3>2 DEF q
      <4> QED
        BY <1>1, <2>1, <4>1 DEF Moves, JobRec
    <3> QED
      BY <3>1, <3>2
  <2> QED
    BY <2>6, <2>7, <2>8 DEF JobMoves, q
<1>7. ASSUME NEW reason \in {"threshold", "abort"}, WaitLoses(o, reason)
      PROVE  JobMoves /\ job' \in [Jobs -> JobRec]
  <2>1. /\ job' = [job EXCEPT ![o] = [q EXCEPT !.wait = reason]] /\ q.wait = "waiting"
        /\ reason = "threshold" => Id(o) \notin IdsOf(inflight)
    BY <1>7 DEF WaitLoses, q
  <2>2. Here([q EXCEPT !.wait = reason])
    BY <1>1, <2>1 DEF Moves, JobRec
  <2> QED
    BY <2>1, <2>2, OneMoves DEF q
<1> QED
  BY <1>2, <1>3, <1>4, <1>5, <1>6, <1>7

-----------------------------------------------------------------------------
(* The step of everything but registration, eviction and resumption.       *)

\* Someone tracks job o.
Tracked(o) == \E p \in DOMAIN poll : o \in poll[p].tracked

PollInv ==
  /\ WatchInv /\ poll \in Seq(PollRec)
  /\ \A p \in DOMAIN poll : \A o \in poll[p].tracked : Born(o)

\* new are the jobs whose result is queued, over those that a tool tells of.
Frame(new, over) ==
  /\ JobMoves /\ job' \in [Jobs -> JobRec] /\ UNCHANGED <<jobs, evicted>>
  /\ timers' \subseteq Ids /\ fails' \in 0 .. MaxFails /\ watched' \subseteq Ids
  /\ suppressed' = suppressed \cup IdsOf(over)
  /\ over # {} => \A o \in JobsIn(deliveries') : Id(o) \notin suppressed'
  /\ over # {} => inflight' = inflight
  /\ toolTold \cup over \subseteq toolTold'
  /\ toolTold' \subseteq toolTold \cup over \cup {o \in Jobs : InForeground(o)}
  /\ \A o \in over : o \in Jobs /\ Born(o)
  /\ \A o \in Jobs : Born(o) /\ o \notin evicted /\ Id(o) \in IdsOf(over) => o \in over
  /\ Flow(new)
  /\ \A o \in new : Id(o) \notin suppressed /\ job'[o].status = "done"
  /\ \A o \in Jobs : job'[o].status = "done" /\ job[o].status # "done" =>
       o \in new \/ Id(o) \in suppressed' \cup watched'
  /\ PollInv'
  /\ \A o \in Jobs : Tracked(o) =>
       Tracked(o)' \/ o \in evicted \cup toolTold' \/ job[o].status = "running"

(* A tool tells of jobs, none of them or some.                             *)
LEMMA Built ==
  ASSUME ManagerType, DeliveryType, CopyInv, LoopAlive, TableInv,
         NEW S \in SUBSET Jobs, \A t \in S : Born(t), NEW status, BuildResult(S, status),
         UNCHANGED <<yq, injected>>
  PROVE  \E over \in SUBSET Jobs :
           /\ toolTold' = toolTold \cup over /\ suppressed' = suppressed \cup IdsOf(over)
           /\ inflight' = inflight
           /\ over # {} => \A o \in JobsIn(deliveries') : Id(o) \notin suppressed'
           /\ Flow({})
           /\ \A o \in over : Born(o)
           /\ \A o \in Jobs : Born(o) /\ o \notin evicted /\ Id(o) \in IdsOf(over) => o \in over
           /\ \A t \in S : t \in evicted \/ status[t].status = "running" \/ t \in over
<1> DEFINE over == {o \in {Latest(t) : t \in S} : status[o].status # "running"}
<1>1. AcknowledgeDeliveries(IdsOf(over)) /\ toolTold' = toolTold \cup over
  BY DEF BuildResult
<1>2. \A t \in S : /\ Latest(t) \in Jobs /\ Born(Latest(t)) /\ Id(Latest(t)) = Id(t)
                   /\ Latest(t) = jobs[Id(t)] \/ jobs[Id(t)] = None
                   /\ t \notin evicted => Latest(t) = t
  <2> TAKE t \in S
  <2>1. t \in Jobs /\ Born(t) /\ Id(t) \in Ids /\ t # None
    BY JobFields, NoneAssumption DEF Jobs
  <2>2. jobs[Id(t)] # None => jobs[Id(t)] \in Jobs /\ Born(jobs[Id(t)]) /\ Id(jobs[Id(t)]) = Id(t)
    BY <2>1 DEF ManagerType, TableInv
  <2>3. t \notin evicted => jobs[Id(t)] = t
    BY <2>1 DEF TableInv
  <2> QED
    BY <2>1, <2>2, <2>3 DEF Latest
<1>3. over \in SUBSET Jobs /\ \A o \in over : Born(o)
  BY <1>2
<1>4. ASSUME NEW o \in Jobs, Born(o), o \notin evicted, Id(o) \in IdsOf(over) PROVE o \in over
  <2>1. jobs[Id(o)] = o /\ o # None
    BY <1>4, NoneAssumption DEF TableInv, Jobs
  <2>2. PICK t \in S : Latest(t) \in over /\ Id(Latest(t)) = Id(o)
    BY <1>4 DEF IdsOf
  <2>3. Latest(t) = o
    BY <1>2, <2>1, <2>2
  <2> QED
    BY <2>2, <2>3
<1>5. \A t \in S : t \in evicted \/ status[t].status = "running" \/ t \in over
  <2> TAKE t \in S
  <2> QED
    BY <1>2
<1> HIDE DEF over
<1>6. /\ Flow({}) /\ suppressed' = suppressed \cup IdsOf(over) /\ inflight' = inflight
      /\ over # {} => \A o \in JobsIn(deliveries') : Id(o) \notin suppressed'
  <2>1. over # {} => IdsOf(over) # {}
    BY DEF IdsOf
  <2> QED
    BY <1>1, <2>1, AcknowledgedFlow
<1> QED
  BY <1>1, <1>3, <1>4, <1>5, <1>6

(* A call that waits.                                                      *)
LEMMA PollFields ==
  ASSUME ManagerType
  PROVE  /\ DOMAIN poll = 1..Len(poll) /\ Len(poll) \in Nat
         /\ \A p \in DOMAIN poll :
              poll[p] \in PollRec /\ poll[p].tracked \subseteq Jobs /\ poll[p].watching \subseteq Jobs
<1>1. poll \in Seq(PollRec)
  BY DEF ManagerType
<1>2. DOMAIN poll = 1..Len(poll) /\ Len(poll) \in Nat /\ \A p \in DOMAIN poll : poll[p] \in PollRec
  BY <1>1, ElementOfSeq, LenProperties
<1> QED
  BY <1>2 DEF PollRec

(* The calls that wait go on waiting.                                      *)
LEMMA StillPolls ==
  ASSUME ManagerType, TableInv, WatchInv, JobMoves, UNCHANGED <<jobs, watched, poll>>
  PROVE  PollInv' /\ \A o \in Jobs : Tracked(o) => Tracked(o)'
<1>1. \A o \in Jobs : Born(o) => Born(o)'
  BY DEF JobMoves, Moves, Born
<1>2. \A p \in DOMAIN poll : poll[p].tracked \subseteq Jobs
  BY PollFields
<1> QED
  BY <1>1, <1>2 DEF ManagerType, TableInv, WatchInv, PollInv, Tracked

(* Nobody is told of anything by a tool.                                   *)
LEMMA UntoldFrame ==
  ASSUME ManagerType, TableInv, WatchInv, JobMoves, job' \in [Jobs -> JobRec],
         UNCHANGED <<jobs, suppressed, watched, poll, evicted>>,
         timers' \subseteq Ids, fails' \in 0 .. MaxFails,
         toolTold \subseteq toolTold', toolTold' \subseteq toolTold \cup {o \in Jobs : InForeground(o)},
         NEW new, Flow(new), \A o \in new : Id(o) \notin suppressed /\ job'[o].status = "done",
         \A o \in Jobs : job'[o].status = "done" /\ job[o].status # "done" =>
           o \in new \/ Id(o) \in suppressed' \cup watched'
  PROVE  Frame(new, {})
<1>1. PollInv' /\ \A o \in Jobs : Tracked(o) => Tracked(o)'
  BY StillPolls
<1>2. IdsOf({}) = {}
  BY DEF IdsOf
<1>3. watched' \subseteq Ids
  BY DEF ManagerType
<1> QED
  BY <1>1, <1>2, <1>3 DEF Frame

\* The loop, a drain, a delivery and the session.
QuietStep ==
  \/ LoopWakes \/ LoopResumes \/ LoopFinally
  \/ \E k \in Jobs : BackoffElapses(k) \/ DrainTakes(k)
  \/ \E o \in Jobs : OnJobComplete(o) \/ OnJobCompleteFails(o)
  \/ Drain

(* The loop, a drain, a delivery and the session leave the jobs alone.     *)
LEMMA QuietFrame ==
  ASSUME ManagerType, DeliveryType, CopyInv, LoopAlive, TableInv, WatchInv, QuietStep
  PROVE  Frame({}, {})
<1>1. UNCHANGED <<manager, poll, toolTold, evicted>>
  BY DEF QuietStep, LoopWakes, LoopResumes, LoopFinally, BackoffElapses, DrainTakes, OnJobComplete,
         OnJobCompleteFails, Drain, history
<1>2. UNCHANGED <<job, jobs, suppressed, watched, timers, poll, toolTold, evicted>>
  BY <1>1 DEF manager
<1>3. Flow({}) /\ fails' \in 0 .. MaxFails
  <2>1. ASSUME NEW o \in Jobs, OnJobCompleteFails(o) PROVE Flow({}) /\ fails' \in 0 .. MaxFails
    BY <2>1, FailFlow
  <2>2. ASSUME NEW o \in Jobs, OnJobComplete(o) PROVE Flow({}) /\ fails' = fails
    BY <2>2, CompleteFlow DEF OnJobComplete
  <2>3. CASE Drain
    BY <2>3, DrainFlow DEF Drain, ManagerType
  <2>4. CASE \/ LoopWakes \/ LoopResumes \/ LoopFinally
             \/ \E k \in Jobs : BackoffElapses(k) \/ DrainTakes(k)
    <3>1. fails' = fails
      BY <2>4 DEF LoopWakes, LoopResumes, LoopFinally, BackoffElapses, DrainTakes
    <3> QED
      BY <2>4, <3>1, LoopFlow DEF ManagerType
  <2>5. fails \in 0 .. MaxFails
    BY DEF ManagerType
  <2> QED
    BY <2>1, <2>2, <2>3, <2>4, <2>5 DEF QuietStep
<1>4. JobMoves /\ job' \in [Jobs -> JobRec]
  BY <1>2, UnchangedMoves
<1>5. timers' \subseteq Ids
  BY <1>2 DEF ManagerType
<1>6. \A o \in Jobs : job'[o] = job[o]
  BY <1>2
<1> QED
  BY <1>2, <1>3, <1>4, <1>5, <1>6, UntoldFrame

\* The end of a command and of the waiting for it, and cancellation.
JobStep ==
  \/ \E o \in Jobs :
       \/ CommandEnds(o) \/ WaitCompletes(o) \/ AbortForeground(o)
       \/ \E reason \in {"threshold", "abort"} : WaitLoses(o, reason)
  \/ CancelAll

(* No such step finishes a job.                                            *)
LEMMA JobStepMoves ==
  ASSUME ManagerType, JobStep
  PROVE  /\ JobMoves /\ job' \in [Jobs -> JobRec]
         /\ \A x \in Jobs : job'[x].status = "done" => job[x].status = "done"
<1>1. job \in [Jobs -> JobRec]
  BY DEF ManagerType
<1>2. ASSUME NEW o \in Jobs,
             \/ CommandEnds(o) \/ WaitCompletes(o)
             \/ \E reason \in {"threshold", "abort"} : WaitLoses(o, reason)
      PROVE  /\ JobMoves /\ job' \in [Jobs -> JobRec]
             /\ \A x \in Jobs : job'[x].status = "done" => job[x].status = "done"
  <2>1. \A x \in Jobs : job'[x].status = job[x].status
    BY <1>1, <1>2 DEF CommandEnds, WaitCompletes, WaitLoses, JobRec
  <2> QED
    BY <1>2, <2>1, StepMoves
<1>3. ASSUME NEW S \in SUBSET Running, NEW x \in Jobs, Cancelled(S)[x].status = "done"
      PROVE  job[x].status = "done"
  <2>1. Cancelled(S)[x] = IF x \in S THEN [job[x] EXCEPT !.status = "cancelled"] ELSE job[x]
    BY DEF Cancelled
  <2>2. x \in S => job[x] \in JobRec
    BY <1>1
  <2> QED
    BY <1>3, <2>1, <2>2 DEF JobRec
<1>4. ASSUME NEW o \in Jobs, AbortForeground(o)
      PROVE  /\ JobMoves /\ job' \in [Jobs -> JobRec]
             /\ \A x \in Jobs : job'[x].status = "done" => job[x].status = "done"
  <2>1. PICK S \in SUBSET Running : job' = [Cancelled(S) EXCEPT ![o].wait = "aborted"]
    BY <1>4 DEF AbortForeground
  <2>2. JobMoves /\ job' \in [Jobs -> JobRec]
    BY <1>4, StepMoves
  <2>3. Cancelled(S) \in [Jobs -> JobRec]
    BY <1>1 DEF Cancelled, JobRec
  <2> DEFINE c == Cancelled(S)
  <2> HIDE DEF c
  <2>4. \A x \in Jobs : job'[x].status = c[x].status
    BY <2>1, <2>3 DEF c, JobRec
  <2> QED
    BY <1>3, <2>2, <2>4 DEF c
<1>5. CASE CancelAll
  <2>1. job' = Cancelled(Running)
    BY <1>5 DEF CancelAll
  <2> QED
    BY <1>3, <2>1, CancelledMoves
<1> QED
  BY <1>2, <1>4, <1>5 DEF JobStep

(* These steps leave table, suppression, watchers and queue alone.         *)
LEMMA JobFrame ==
  ASSUME ManagerType, DeliveryType, CopyInv, LoopAlive, TableInv, WatchInv, JobStep
  PROVE  Frame({}, {})
<1>1. /\ UNCHANGED <<jobs, suppressed, watched, poll, evicted, fails>>
      /\ UNCHANGED <<deliveries, inflight, loop, yq, injected>>
  BY DEF JobStep, CommandEnds, WaitCompletes, AbortForeground, WaitLoses, CancelAll, delivery, history
<1>2. Flow({}) /\ fails' \in 0 .. MaxFails
  BY <1>1, StillFlow DEF ManagerType
<1>3. /\ JobMoves /\ job' \in [Jobs -> JobRec]
      /\ \A x \in Jobs : job'[x].status = "done" => job[x].status = "done"
  BY JobStepMoves
<1>4. timers' \subseteq Ids
  <2>1. \A S \in SUBSET Running : IdsOf(S) \subseteq Ids
    BY JobFields DEF IdsOf, Running
  <2>2. timers' = timers \/ \E S \in SUBSET Running : timers' = timers \cup IdsOf(S)
    BY DEF JobStep, CommandEnds, WaitCompletes, AbortForeground, WaitLoses, CancelAll, ScheduleEviction
  <2> QED
    BY <2>1, <2>2 DEF ManagerType
<1>5. toolTold \subseteq toolTold' /\ toolTold' \subseteq toolTold \cup {o \in Jobs : InForeground(o)}
  BY DEF JobStep, CommandEnds, WaitCompletes, AbortForeground, WaitLoses, CancelAll, history, InForeground
<1> QED
  BY <1>1, <1>2, <1>3, <1>4, <1>5, UntoldFrame

(* The end of a job.                                                       *)
LEMMA SettlesFrame ==
  ASSUME ManagerType, DeliveryType, CopyInv, LoopAlive, TableInv, WatchInv, FreshInv,
         NEW o \in Jobs, JobSettles(o)
  PROVE  \E new \in SUBSET Jobs : Frame(new, {})
<1>1. /\ UNCHANGED <<jobs, suppressed, watched, poll, evicted, fails, toolTold>>
      /\ timers' = timers \cup {Id(o)}
  BY DEF JobSettles, history, ScheduleEviction
<1>2. PICK new \in {{}, {o}} :
        /\ Flow(new)
        /\ new = {o} => job[o].status = "running" /\ Id(o) \notin suppressed
        /\ job[o].status = "running" => new = {o} \/ Id(o) \in suppressed' \cup watched'
  BY SettledFlow
<1>3. JobMoves /\ job' \in [Jobs -> JobRec]
  BY StepMoves
<1>4. job \in [Jobs -> JobRec] /\ Id(o) \in Ids
  BY JobFields DEF ManagerType
<1>5. /\ \A x \in Jobs : x # o => job'[x] = job[x]
      /\ job[o].status \in {"running", "cancelled"}
      /\ job[o].status = "running" => job'[o].status = "done"
      /\ job[o].status = "cancelled" => job'[o].status = "cancelled"
  BY <1>4 DEF JobSettles, JobRec
<1>6. timers' \subseteq Ids /\ fails' \in 0 .. MaxFails
  BY <1>1, <1>4 DEF ManagerType
<1>7. \A x \in new : Id(x) \notin suppressed /\ job'[x].status = "done"
  BY <1>2, <1>5
<1>8. \A x \in Jobs : job'[x].status = "done" /\ job[x].status # "done" =>
        x \in new \/ Id(x) \in suppressed' \cup watched'
  BY <1>2, <1>5
<1>9. Frame(new, {})
  BY <1>1, <1>2, <1>3, <1>6, <1>7, <1>8, UntoldFrame
<1> QED
  BY <1>2, <1>9

(* The calls that are left when one of them ends, and one more.            *)
LEMMA Left ==
  ASSUME NEW S, NEW s \in Seq(S), NEW i \in DOMAIN s
  PROVE  LET t == RemoveAt(s, i) IN
         /\ t \in Seq(S)
         /\ \A j \in DOMAIN s : j # i => \E l \in DOMAIN t : t[l] = s[j]
         /\ \A l \in DOMAIN t : \E j \in DOMAIN s : t[l] = s[j]
<1> DEFINE n == Len(s)
           t == RemoveAt(s, i)
<1>1. n \in Nat /\ DOMAIN s = 1..n
  BY LenProperties
<1>2. /\ t \in Seq(S) /\ Len(t) = n - 1
      /\ \A j \in 1..(n - 1) : t[j] = IF j < i THEN s[j] ELSE s[j + 1]
  BY Removed
<1>3. DOMAIN t = 1..(n - 1)
  BY <1>2, LenProperties
<1> HIDE DEF n, t
<1>4. ASSUME NEW j \in 1..n, j # i PROVE \E l \in 1..(n - 1) : t[l] = s[j]
  <2>1. CASE j < i
    <3>1. j \in 1..(n - 1) /\ t[j] = s[j]
      BY <1>1, <1>2, <2>1
    <3> QED
      BY <3>1
  <2>2. CASE j > i
    <3>1. j - 1 \in 1..(n - 1) /\ ~(j - 1 < i) /\ (j - 1) + 1 = j
      BY <1>1, <2>2
    <3>2. t[j - 1] = s[j]
      BY <1>2, <3>1
    <3> QED
      BY <3>1, <3>2
  <2> QED
    BY <1>1, <1>4, <2>1, <2>2
<1>5. \A l \in 1..(n - 1) : l \in 1..n /\ l + 1 \in 1..n
  BY <1>1
<1>6. ASSUME NEW l \in 1..(n - 1) PROVE \E j \in 1..n : t[l] = s[j]
  BY <1>2, <1>5
<1> QED
  BY <1>1, <1>2, <1>3, <1>4, <1>6 DEF t

(* A call that starts to wait joins the ones that do.                      *)
LEMMA OneMore ==
  ASSUME NEW S, NEW s \in Seq(S), NEW e \in S
  PROVE  LET t == Append(s, e) IN
         /\ t \in Seq(S)
         /\ \E l \in DOMAIN t : t[l] = e
         /\ \A j \in DOMAIN s : j \in DOMAIN t /\ t[j] = s[j]
         /\ \A l \in DOMAIN t : t[l] = e \/ \E j \in DOMAIN s : t[l] = s[j]
<1> DEFINE n == Len(s)
           t == Append(s, e)
<1>1. n \in Nat /\ DOMAIN s = 1..n
  BY LenProperties
<1>2. t \in Seq(S) /\ Len(t) = n + 1 /\ t[n + 1] = e /\ \A k \in 1..n : t[k] = s[k]
  BY AppendProperties
<1>3. DOMAIN t = 1..(n + 1)
  BY <1>1, <1>2, LenProperties
<1> HIDE DEF n, t
<1>4. n + 1 \in 1..(n + 1) /\ \A k \in 1..(n + 1) : k \in 1..n \/ k = n + 1
  BY <1>1
<1>5. \A k \in 1..n : k \in 1..(n + 1)
  BY <1>1
<1> QED
  BY <1>1, <1>2, <1>3, <1>4, <1>5 DEF t

(* A job in the table is born.                                             *)
LEMMA Tabled ==
  ASSUME TableInv, ManagerType, NEW o \in Jobs, jobs[Id(o)] = o
  PROVE  Born(o)
<1>1. o # None /\ Id(o) \in Ids
  BY NoneAssumption, JobFields DEF Jobs
<1> QED
  BY <1>1 DEF TableInv

(* A tool that tells of jobs; calls that wait for jobs may end.            *)
LEMMA ToldFrame ==
  ASSUME ManagerType, DeliveryType, CopyInv, LoopAlive, TableInv, WatchInv,
         JobMoves, job' \in [Jobs -> JobRec], UNCHANGED <<jobs, evicted, fails, yq, injected>>,
         timers' \subseteq Ids, watched' \subseteq Ids,
         \A o \in Jobs : job'[o].status = "done" => job[o].status = "done",
         NEW S \in SUBSET Jobs, \A t \in S : Born(t), NEW status, BuildResult(S, status),
         PollInv',
         \A o \in Jobs : Tracked(o) =>
           Tracked(o)' \/ (o \in S /\ (status[o].status = "running" => job[o].status = "running"))
  PROVE  \E over \in SUBSET Jobs : Frame({}, over)
<1>1. PICK over \in SUBSET Jobs :
           /\ toolTold' = toolTold \cup over /\ suppressed' = suppressed \cup IdsOf(over)
           /\ inflight' = inflight
           /\ over # {} => \A o \in JobsIn(deliveries') : Id(o) \notin suppressed'
           /\ Flow({})
           /\ \A o \in over : Born(o)
           /\ \A o \in Jobs : Born(o) /\ o \notin evicted /\ Id(o) \in IdsOf(over) => o \in over
           /\ \A t \in S : t \in evicted \/ status[t].status = "running" \/ t \in over
  BY Built
<1>2. fails' \in 0 .. MaxFails
  BY DEF ManagerType
<1>3. \A o \in Jobs : Tracked(o) =>
        Tracked(o)' \/ o \in evicted \cup toolTold' \/ job[o].status = "running"
  BY <1>1
<1>4. Frame({}, over)
  BY <1>1, <1>2, <1>3 DEF Frame
<1> QED
  BY <1>4

(* Listing the finished jobs acknowledges them.                            *)
LEMMA InspectFrame ==
  ASSUME ManagerType, DeliveryType, CopyInv, LoopAlive, TableInv, WatchInv,
         NEW S \in SUBSET Jobs, Inspect(S)
  PROVE  \E over \in SUBSET Jobs : Frame({}, over)
<1>1. /\ UNCHANGED <<job, jobs, watched, timers, fails, poll, yq, injected, evicted>>
      /\ BuildResult(S, job) /\ \A o \in S : jobs[Id(o)] = o
  BY DEF Inspect
<1>2. JobMoves /\ job' \in [Jobs -> JobRec] /\ \A o \in Jobs : job'[o].status = job[o].status
  BY <1>1, UnchangedMoves
<1>3. PollInv' /\ \A o \in Jobs : Tracked(o) => Tracked(o)'
  BY <1>1, <1>2, StillPolls
<1>4. timers' \subseteq Ids /\ watched' \subseteq Ids
  BY <1>1 DEF ManagerType
<1>5. \A t \in S : Born(t)
  BY <1>1, Tabled
<1> QED
  BY <1>1, <1>2, <1>3, <1>4, <1>5, ToldFrame

(* Cancelling through the tool cancels, and acknowledges what is done.     *)
LEMMA CancelFrame ==
  ASSUME ManagerType, DeliveryType, CopyInv, LoopAlive, TableInv, WatchInv,
         NEW o \in Jobs, CancelJob(o)
  PROVE  \E over \in SUBSET Jobs : Frame({}, over)
<1>1. /\ UNCHANGED <<jobs, watched, fails, poll, yq, injected, evicted>>
      /\ BuildResult({o}, job') /\ jobs[Id(o)] = o /\ job[o].status = "running"
      /\ timers' = timers \cup {Id(o)} /\ job' = Cancelled({o})
  BY DEF CancelJob, Running, ScheduleEviction, IdsOf
<1>2. JobMoves /\ job' \in [Jobs -> JobRec]
  BY StepMoves
<1>3. \A x \in Jobs : job'[x] = IF x = o THEN [job[x] EXCEPT !.status = "cancelled"] ELSE job[x]
  BY <1>1 DEF Cancelled
<1>4. \A x \in Jobs : job'[x].status = "done" => job[x].status = "done"
  BY <1>3, JobFields DEF JobRec
<1>5. PollInv' /\ \A x \in Jobs : Tracked(x) => Tracked(x)'
  BY <1>1, <1>2, StillPolls
<1>6. timers' \subseteq Ids /\ watched' \subseteq Ids
  BY <1>1, JobFields DEF ManagerType
<1>7. \A t \in {o} : Born(t)
  BY <1>1, Tabled
<1> QED
  BY <1>1, <1>2, <1>4, <1>5, <1>6, <1>7, ToldFrame

(* A waiting call that returns tells what is done and stops watching.      *)
LEMMA PollEndsFrame ==
  ASSUME ManagerType, DeliveryType, CopyInv, LoopAlive, TableInv, WatchInv,
         NEW p, PollEnds(p)
  PROVE  \E over \in SUBSET Jobs : Frame({}, over)
<1> DEFINE S == poll[p].tracked
<1>1. /\ UNCHANGED <<job, jobs, timers, fails, yq, injected, evicted>>
      /\ p \in DOMAIN poll /\ BuildResult(S, job)
      /\ watched' = watched \ IdsOf(poll[p].watching) /\ poll' = RemoveAt(poll, p)
  BY DEF PollEnds
<1>2. JobMoves /\ job' \in [Jobs -> JobRec] /\ \A o \in Jobs : job'[o].status = job[o].status
  BY <1>1, UnchangedMoves
<1>3. /\ poll' \in Seq(PollRec)
      /\ \A q \in DOMAIN poll : q # p => \E l \in DOMAIN poll' : poll'[l] = poll[q]
      /\ \A l \in DOMAIN poll' : \E q \in DOMAIN poll : poll'[l] = poll[q]
  BY <1>1, Left DEF ManagerType
<1>4. \A i \in watched' : jobs[i] # None /\ \E l \in DOMAIN poll' : jobs[i] \in poll'[l].watching
  <2> TAKE i \in watched'
  <2>1. i \in watched /\ i \in Ids /\ i \notin IdsOf(poll[p].watching)
    BY <1>1 DEF ManagerType
  <2>2. PICK q \in DOMAIN poll : jobs[i] \in poll[q].watching
    BY <2>1 DEF WatchInv
  <2>3. jobs[i] # None /\ Id(jobs[i]) = i
    BY <2>1 DEF WatchInv, TableInv
  <2>4. q # p
    BY <2>1, <2>2, <2>3 DEF IdsOf
  <2> QED
    BY <1>3, <2>2, <2>3, <2>4
<1>5. \A l \in DOMAIN poll' : /\ poll'[l].watching \subseteq poll'[l].tracked
                              /\ \A o \in poll'[l].tracked : Born(o)
  BY <1>3 DEF WatchInv, TableInv
<1>6. PollInv'
  <2>1. \A o \in Jobs : Born(o)' <=> Born(o)
    BY <1>1 DEF Born
  <2>2. \A l \in DOMAIN poll' : poll'[l].tracked \subseteq Jobs
    BY <1>3, PollFields
  <2> QED
    BY <1>1, <1>3, <1>4, <1>5, <2>1, <2>2 DEF PollInv, WatchInv
<1>7. \A o \in Jobs : Tracked(o) => Tracked(o)' \/ o \in S
  BY <1>3 DEF Tracked
<1>8. timers' \subseteq Ids /\ watched' \subseteq Ids /\ S \in SUBSET Jobs /\ \A t \in S : Born(t)
  BY <1>1, PollFields DEF ManagerType, TableInv
<1> HIDE DEF S
<1> QED
  BY <1>1, <1>2, <1>6, <1>7, <1>8, ToldFrame

(* A call that starts to wait watches the tracked jobs that run.           *)
LEMMA PollStartsFrame ==
  ASSUME ManagerType, DeliveryType, CopyInv, LoopAlive, TableInv, WatchInv,
         NEW S \in SUBSET Jobs, PollStarts(S)
  PROVE  Frame({}, {})
<1> DEFINE e == [tracked |-> S, watching |-> S \cap Running]
<1>1. /\ UNCHANGED <<job, jobs, suppressed, timers, fails, yq, toolTold, injected, evicted>>
      /\ UNCHANGED <<deliveries, inflight, loop>>
      /\ watched' = watched \cup IdsOf(S \cap Running) /\ poll' = Append(poll, e)
      /\ \A o \in S : jobs[Id(o)] = o
  BY DEF PollStarts, delivery, history
<1>2. JobMoves /\ job' \in [Jobs -> JobRec] /\ \A o \in Jobs : job'[o].status = job[o].status
  BY <1>1, UnchangedMoves
<1>3. e \in PollRec /\ e.tracked = S /\ e.watching = S \cap Running
  BY DEF PollRec
<1> HIDE DEF e
<1>4. /\ poll' \in Seq(PollRec)
      /\ \E l \in DOMAIN poll' : poll'[l] = e
      /\ \A q \in DOMAIN poll : q \in DOMAIN poll' /\ poll'[q] = poll[q]
      /\ \A l \in DOMAIN poll' : poll'[l] = e \/ \E q \in DOMAIN poll : poll'[l] = poll[q]
  BY <1>1, <1>3, OneMore DEF ManagerType
<1>5. \A i \in watched' : jobs[i] # None /\ \E l \in DOMAIN poll' : jobs[i] \in poll'[l].watching
  <2> TAKE i \in watched'
  <2>1. CASE i \in watched
    BY <1>4, <2>1 DEF WatchInv
  <2>2. CASE i \in IdsOf(S \cap Running)
    <3>1. PICK o \in S \cap Running : i = Id(o)
      BY <2>2 DEF IdsOf
    <3>2. jobs[i] = o /\ o # None
      BY <1>1, <3>1, NoneAssumption DEF Jobs
    <3> QED
      BY <1>3, <1>4, <3>1, <3>2
  <2> QED
    BY <1>1, <2>1, <2>2
<1>6. \A l \in DOMAIN poll' : /\ poll'[l].watching \subseteq poll'[l].tracked
                              /\ poll'[l].tracked \subseteq Jobs
                              /\ \A o \in poll'[l].tracked : Born(o)
  <2>1. \A o \in S : Born(o)
    BY <1>1, Tabled
  <2> QED
    BY <1>3, <1>4, <2>1, PollFields DEF WatchInv, TableInv
<1>7. PollInv'
  <2>1. \A o \in Jobs : Born(o)' <=> Born(o)
    BY <1>1 DEF Born
  <2> QED
    BY <1>1, <1>4, <1>5, <1>6, <2>1 DEF PollInv, WatchInv
<1>8. \A o \in Jobs : Tracked(o) => Tracked(o)'
  BY <1>4 DEF Tracked
<1>9. timers' \subseteq Ids /\ fails' \in 0 .. MaxFails /\ watched' \subseteq Ids
  <2>1. IdsOf(S \cap Running) \subseteq Ids
    BY JobFields DEF IdsOf
  <2> QED
    BY <1>1, <2>1 DEF ManagerType
<1>10. Flow({}) /\ IdsOf({}) = {}
  BY <1>1, StillFlow DEF IdsOf
<1> QED
  BY <1>1, <1>2, <1>7, <1>8, <1>9, <1>10 DEF Frame

-----------------------------------------------------------------------------
(* The invariant is kept.                                                  *)

\* All steps but the registration of a job, its eviction and the resumption
\* of its delivery.
LEMMA FrameStep ==
  ASSUME ManagerType, DeliveryType, CopyInv, LoopAlive, TableInv, WatchInv, FreshInv, Next
  PROVE  \/ \E new, over \in SUBSET Jobs : Frame(new, over)
         \/ \E o \in Jobs, foreground \in BOOLEAN : Register(o, foreground)
         \/ \E i \in Ids : Evict(i)
         \/ \E o \in Jobs : Background(o)
<1>1. ASSUME QuietStep \/ JobStep \/ \E S \in SUBSET Jobs : PollStarts(S)
      PROVE  \E new, over \in SUBSET Jobs : Frame(new, over)
  <2>1. Frame({}, {})
    BY <1>1, QuietFrame, JobFrame, PollStartsFrame
  <2> QED
    BY <2>1
<1>2. ASSUME NEW o \in Jobs, JobSettles(o)
      PROVE  \E new, over \in SUBSET Jobs : Frame(new, over)
  <2>1. PICK new \in SUBSET Jobs : Frame(new, {})
    BY <1>2, SettlesFrame
  <2> QED
    BY <2>1
<1>3. ASSUME \/ \E S \in SUBSET Jobs : Inspect(S)
             \/ \E o \in Jobs : CancelJob(o)
             \/ \E p \in 1 .. P : PollEnds(p)
      PROVE  \E new, over \in SUBSET Jobs : Frame(new, over)
  <2>1. PICK over \in SUBSET Jobs : Frame({}, over)
    BY <1>3, InspectFrame, CancelFrame, PollEndsFrame
  <2> QED
    BY <2>1
<1> QED
  BY <1>1, <1>2, <1>3 DEF Next, ManagerStep, QuietStep, JobStep

\* What ResultKept says of a job that nobody promised to return.
Reached ==
  \A o \in Jobs :
    /\ job[o].status = "done" /\ o \notin evicted \cup toolTold /\ ~Tracked(o)
    /\ job[o].wait \notin {"abort", "aborted", "waiting", "threshold"}
    /\ Id(o) \notin suppressed \cup watched
    => o \in Placed

(* Suppression is somebody's promise.                                      *)
LEMMA KeptIfReached ==
  ASSUME ManagerType', TableInv', SuppressedInv', WatchInv', Reached'
  PROVE  ResultKept'
<1> SUFFICES ASSUME NEW o \in Jobs, (job[o].status)' = "done", o \notin evicted',
                    (job[o].wait)' \notin {"abort", "aborted"}, o \notin toolTold' \cup injected'
             PROVE  Held(o)'
  BY DEF ResultKept
<1>1. CASE (job[o].wait)' \in {"waiting", "threshold"} \/ Tracked(o)'
  BY <1>1 DEF Held, Tracked
<1>2. CASE (job[o].wait)' \notin {"waiting", "threshold"} /\ ~Tracked(o)'
  <2>1. Born(o)' /\ jobs'[Id(o)'] = o /\ Id(o)' \in Ids
    BY DEF Born, TableInv, ManagerType, JobRec, Id
  <2>2. Id(o)' \notin suppressed'
    BY <1>2, <2>1 DEF SuppressedInv, InForeground
  <2>3. Id(o)' \notin watched'
    <3> SUFFICES ASSUME Id(o)' \in watched' PROVE FALSE
      OBVIOUS
    <3>1. PICK p \in DOMAIN poll' : jobs'[Id(o)'] \in poll'[p].watching
      BY DEF WatchInv
    <3> QED
      BY <1>2, <2>1, <3>1 DEF WatchInv, Tracked
  <2>4. o \in Placed'
    BY <1>2, <2>2, <2>3 DEF Reached
  <2> QED
    BY <2>2, <2>3, <2>4 DEF Placed, Held, JobsIn, Queued, IsDeliverySuppressed
<1> QED
  BY <1>1, <1>2

Rest == ManagerType /\ TableInv /\ FreshInv /\ SuppressedInv /\ WatchInv /\ Reached

(* A step within the frame keeps the invariant.                            *)
LEMMA FrameInv ==
  ASSUME IInv, NEW new \in SUBSET Jobs, NEW over \in SUBSET Jobs, Frame(new, over)
  PROVE  Flow(new) /\ Rest'
<1>1. ManagerType /\ DeliveryType /\ CopyInv /\ TableInv /\ FreshInv /\ SuppressedInv /\ ResultKept
  BY TypeParts DEF IInv
<1>2. Flow(new) /\ UNCHANGED <<jobs, evicted>> /\ job' \in [Jobs -> JobRec]
      /\ suppressed' = suppressed \cup IdsOf(over)
  BY DEF Frame
<1>3. ASSUME NEW x \in Jobs
      PROVE  /\ Id(x) \in Ids /\ Id(x)' = Id(x) /\ (Born(x)' <=> Born(x))
             /\ job[x] \in JobRec /\ job'[x] \in JobRec
             /\ InForeground(x)' => InForeground(x)
             /\ (job[x].wait)' = "threshold" => job[x].wait = "threshold" \/ Id(x) \notin IdsOf(inflight)
             /\ (job[x].wait)' = "background" <=> job[x].wait = "background"
             /\ job[x].wait = "aborted" => (job[x].wait)' = "aborted"
             /\ InForeground(x) =>
                  InForeground(x)' \/ (job[x].wait)' = "aborted" \/ x \in toolTold'
             /\ job[x].status = "done" => (job[x].status)' = "done"
  <2>1. Moves(job[x], job'[x], x \in toolTold', Id(x) \notin IdsOf(inflight))
    BY DEF Frame, JobMoves
  <2>2. Id(x) \in Ids /\ Id(x) = job[x].id /\ job[x] \in JobRec
    BY <1>1, JobFields
  <2> QED
    BY <2>1, <2>2 DEF Moves, Id, Born, InForeground
<1>4. IdsOf(over) \subseteq Ids /\ \A S \in SUBSET Jobs : IdsOf(S)' = IdsOf(S)
  BY <1>3 DEF IdsOf
<1>5. ManagerType'
  BY <1>1, <1>2, <1>4 DEF Frame, ManagerType, PollInv
<1>6. TableInv'
  <2>1. \A x \in Jobs : x \in evicted' \cup toolTold' => Born(x)'
    BY <1>1, <1>2, <1>3 DEF Frame, TableInv, FreshInv
  <2>2. \A i \in Ids : jobs'[i] # None => Born(jobs[i])' /\ Id(jobs[i])' = i
    <3> TAKE i \in Ids
    <3>1. jobs'[i] = jobs[i] /\ (jobs[i] # None => jobs[i] \in Jobs)
      BY <1>1, <1>2 DEF ManagerType
    <3>2. jobs[i] # None => Born(jobs[i]) /\ Id(jobs[i]) = i
      BY <1>1 DEF TableInv
    <3>3. \A x \in Jobs : (job'[x].status # "unborn" <=> Born(x)) /\ job'[x].id = Id(x)
      BY <1>3 DEF Born, Id
    <3> QED
      BY <3>1, <3>2, <3>3 DEF Born, Id
  <2>3. \A x \in Jobs : Born(x)' /\ x \notin evicted' => jobs'[Id(x)'] = x
    BY <1>1, <1>2, <1>3 DEF TableInv
  <2> QED
    BY <2>1, <2>2, <2>3 DEF TableInv, Frame, PollInv
<1>7. Placed' \subseteq Placed \cup new /\ Placed = JobsIn(deliveries) \cup inflight \cup ToSet(yq) \cup injected
      /\ \A x \in Placed \cup new : x \in Placed' \/ Id(x) \in suppressed' \cup watched'
  BY <1>2 DEF Flow, Placed
<1>8. FreshInv'
  <2> SUFFICES ASSUME NEW x \in Jobs
               PROVE  /\ InForeground(x)' => Born(x)' /\ x \notin evicted' /\ Id(x)' \in suppressed'
                      /\ (job[x].status)' # "done" \/ InForeground(x)' => x \notin Placed'
    BY DEF FreshInv, Placed
  <2>1. InForeground(x)' => Born(x)' /\ x \notin evicted' /\ Id(x)' \in suppressed'
    BY <1>1, <1>2, <1>3 DEF FreshInv
  <2>2. ASSUME (job[x].status)' # "done" \/ InForeground(x)' PROVE x \notin Placed'
    <3>1. x \notin Placed
      BY <1>1, <1>3, <1>7, <2>2 DEF FreshInv
    <3>2. x \notin new
      BY <1>1, <1>3, <2>2 DEF Frame, FreshInv
    <3> QED
      BY <1>7, <3>1, <3>2
  <2> QED
    BY <2>1, <2>2
<1>9. SuppressedInv'
  <2>1. JobsIn(deliveries') \subseteq Jobs /\ inflight' \subseteq Jobs /\ inflight \subseteq Jobs
        /\ JobsIn(deliveries) \subseteq Jobs
    BY <1>1, <1>2, JobsInType DEF Flow, DeliveryType
  <2>2. \A x \in JobsIn(deliveries') : Id(x)' \notin suppressed'
    <3>1. CASE over = {}
      <4>1. suppressed' = suppressed
        BY <1>2, <3>1 DEF IdsOf
      <4> QED
        BY <1>1, <1>2, <1>3, <2>1, <4>1 DEF Flow, SuppressedInv
    <3>2. CASE over # {}
      BY <1>3, <2>1, <3>2 DEF Frame
    <3> QED
      BY <3>1, <3>2
  <2>3. ASSUME NEW x \in Jobs, (job[x].wait)' = "threshold" PROVE Id(x)' \notin IdsOf(inflight)'
    <3>1. Id(x) \notin IdsOf(inflight) /\ Id(x) \in suppressed
      BY <1>1, <1>3, <2>3 DEF SuppressedInv, FreshInv, InForeground
    <3>2. \A y \in inflight' : y \in inflight \/ Id(y) \notin suppressed
      BY <1>1, <1>2 DEF Flow, SuppressedInv, Frame
    <3> QED
      BY <1>3, <2>1, <3>1, <3>2 DEF IdsOf
  <2>4. ASSUME NEW x \in Jobs, Born(x)', x \notin evicted'
        PROVE  /\ Id(x)' \in suppressed' =>
                    x \in toolTold' \/ InForeground(x)' \/ (job[x].wait)' = "aborted"
               /\ x \in toolTold' /\ (job[x].wait)' # "background" => Id(x)' \in suppressed'
    <3>1. Born(x) /\ x \notin evicted /\ (Id(x) \in IdsOf(over) => x \in over)
      BY <1>2, <1>3, <2>4 DEF Frame
    <3>2. /\ toolTold \cup over \subseteq toolTold'
          /\ toolTold' \subseteq toolTold \cup over \cup {o \in Jobs : InForeground(o)}
      BY DEF Frame
    <3>3. x \in over => Id(x) \in IdsOf(over)
      BY DEF IdsOf
    <3>4. InForeground(x) => Id(x) \in suppressed
      BY <1>1 DEF FreshInv
    <3> QED
      BY <1>1, <1>2, <1>3, <3>1, <3>2, <3>3, <3>4 DEF SuppressedInv
  <2> QED
    BY <2>2, <2>3, <2>4 DEF SuppressedInv
<1>10. WatchInv'
  BY DEF Frame, PollInv
<1>11. Reached'
  <2> SUFFICES ASSUME NEW x \in Jobs, (job[x].status)' = "done", x \notin evicted' \cup toolTold',
                      ~Tracked(x)', (job[x].wait)' \notin {"abort", "aborted", "waiting", "threshold"},
                      Id(x)' \notin suppressed' \cup watched', x \notin Placed'
               PROVE  FALSE
    BY DEF Reached
  <2>1. x \notin Placed \cup new
    BY <1>3, <1>7
  <2>2. job[x].status = "done"
    BY <1>3, <2>1 DEF Frame
  <2>3. job[x].wait \notin {"abort", "aborted", "waiting", "threshold"}
    BY <1>3 DEF InForeground
  <2>4. x \notin evicted /\ x \notin toolTold /\ ~Tracked(x)
    BY <1>2, <2>2 DEF Frame
  <2>5. Held(x)
    BY <1>1, <1>7, <2>1, <2>2, <2>3, <2>4 DEF ResultKept
  <2> QED
    BY <1>7, <2>1, <2>3, <2>4, <2>5 DEF Held, Tracked, Queued, JobsIn
<1> QED
  BY <1>2, <1>5, <1>6, <1>8, <1>9, <1>10, <1>11 DEF Rest

(* Register keeps the invariant: the id of a new job is free.              *)
LEMMA RegisterInv ==
  ASSUME IInv, NEW o \in Jobs, NEW foreground \in BOOLEAN, Register(o, foreground)
  PROVE  Flow({}) /\ Rest'
<1> DEFINE f == FreeId
           r == [status |-> "running", id |-> f, run |-> "live",
                 wait |-> IF foreground THEN "waiting" ELSE "none"]
<1>1. ManagerType /\ DeliveryType /\ CopyInv /\ LoopAlive /\ TableInv /\ FreshInv /\ SuppressedInv
      /\ WatchInv /\ ResultKept
  BY TypeParts DEF IInv
<1>2. /\ ~Born(o) /\ job' = [job EXCEPT ![o] = r] /\ jobs' = [jobs EXCEPT ![f] = o]
      /\ UNCHANGED <<watched, timers, fails, poll, yq, toolTold, injected, evicted>>
      /\ IF foreground THEN AcknowledgeDeliveries({f})
         ELSE suppressed' = suppressed \ {f} /\ UNCHANGED delivery
  BY DEF Register, Born, history
<1>3. f \in Ids /\ jobs[f] = None
  BY <1>1, <1>2, FreeIdFound
<1> HIDE DEF f
<1>4. r \in JobRec
  BY <1>3 DEF JobRec
<1>5. job \in [Jobs -> JobRec] /\ job' \in [Jobs -> JobRec] /\ jobs' \in [Ids -> Jobs \cup {None}]
  BY <1>1, <1>2, <1>4 DEF ManagerType
<1>6. \A x \in Jobs : job'[x] = IF x = o THEN r ELSE job[x]
  BY <1>2, <1>5
<1>7. /\ \A x \in Jobs : x # o => /\ Id(x)' = Id(x) /\ (Born(x)' <=> Born(x))
                                  /\ (InForeground(x)' <=> InForeground(x))
      /\ Id(o)' = f /\ Born(o)' /\ (InForeground(o)' <=> foreground)
      /\ (job[o].wait)' \in {"waiting", "none"} /\ (job[o].status)' = "running"
      /\ \A x \in Jobs : Id(x) \in Ids
  BY <1>1, <1>6, JobFields DEF Id, Born, InForeground
<1>8. /\ Flow({}) /\ inflight' = inflight
      /\ suppressed' = IF foreground THEN suppressed \cup {f} ELSE suppressed \ {f}
      /\ foreground => \A x \in JobsIn(deliveries') : Id(x) \notin suppressed'
      /\ ~foreground => deliveries' = deliveries
  <2>1. CASE foreground
    <3>1. AcknowledgeDeliveries({f}) /\ UNCHANGED <<yq, injected>> /\ {f} # {}
      BY <1>2, <2>1
    <3> QED
      BY <1>1, <2>1, <3>1, AcknowledgedFlow
  <2>2. CASE ~foreground
    <3>1. UNCHANGED <<deliveries, inflight, loop, yq, injected>> /\ suppressed' = suppressed \ {f}
      BY <1>2, <2>2 DEF delivery
    <3> QED
      BY <1>1, <2>2, <3>1, StillFlow
  <2> QED
    BY <2>1, <2>2
<1> HIDE DEF r
<1>9. o \notin Placed /\ Placed' \subseteq Placed
      /\ \A x \in Placed : x \in Placed' \/ Id(x) \in suppressed' \cup watched'
  BY <1>1, <1>2, <1>8 DEF Flow, FreshInv, Born, Placed
<1>10. o \notin evicted \cup toolTold /\ ~Tracked(o)
  BY <1>1, <1>2 DEF TableInv, Tracked
<1>11. ManagerType'
  BY <1>1, <1>2, <1>3, <1>5, <1>8 DEF ManagerType
<1>12. \A x \in Jobs : x # o /\ Born(x) /\ x \notin evicted => Id(x) # f
  BY <1>1, <1>3, NoneAssumption DEF TableInv, Jobs
<1>13. \A i \in Ids : i # f => jobs'[i] = jobs[i]
  BY <1>1, <1>2 DEF ManagerType
<1>14. jobs'[f] = o
  BY <1>1, <1>2, <1>3 DEF ManagerType
<1>15. TableInv'
  <2>1. \A x \in Jobs : x \in evicted' \cup toolTold' => Born(x)'
    BY <1>1, <1>2, <1>7 DEF TableInv
  <2>2. \A i \in Ids : jobs'[i] # None => (Born(jobs[i]) /\ Id(jobs[i]) = i)'
    <3> TAKE i \in Ids
    <3>1. CASE i = f
      BY <1>7, <1>14, <3>1 DEF Born, Id
    <3>2. CASE i # f
      <4>1. jobs'[i] = jobs[i] /\ (jobs[i] # None => jobs[i] \in Jobs)
        BY <1>1, <1>13, <3>2 DEF ManagerType
      <4>2. jobs[i] # None => Born(jobs[i]) /\ Id(jobs[i]) = i
        BY <1>1 DEF TableInv
      <4>3. jobs[i] # None => jobs[i] # o
        BY <1>2, <4>2
      <4> QED
        BY <1>6, <4>1, <4>2, <4>3 DEF Born, Id
    <3> QED
      BY <3>1, <3>2
  <2>3. \A x \in Jobs : Born(x)' /\ x \notin evicted' => jobs'[Id(x)'] = x
    BY <1>1, <1>2, <1>7, <1>12, <1>13, <1>14 DEF TableInv
  <2>4. \A p \in DOMAIN poll' : \A x \in poll'[p].tracked : Born(x)'
    BY <1>1, <1>2, <1>7, PollFields DEF TableInv
  <2> QED
    BY <2>1, <2>2, <2>3, <2>4 DEF TableInv
<1>16. FreshInv'
  <2> SUFFICES ASSUME NEW x \in Jobs
               PROVE  /\ InForeground(x)' => Born(x)' /\ x \notin evicted' /\ Id(x)' \in suppressed'
                      /\ (job[x].status)' # "done" \/ InForeground(x)' => x \notin Placed'
    BY DEF FreshInv, Placed
  <2>1. CASE x = o
    BY <1>2, <1>7, <1>8, <1>9, <1>10, <2>1
  <2>2. CASE x # o
    <3>1. InForeground(x)' => Born(x)' /\ x \notin evicted' /\ Id(x)' \in suppressed'
      BY <1>1, <1>2, <1>7, <1>8, <1>12, <2>2 DEF FreshInv
    <3>2. (job[x].status)' # "done" \/ InForeground(x)' => x \notin Placed
      BY <1>1, <1>6, <1>7, <2>2 DEF FreshInv, Placed
    <3> QED
      BY <1>9, <3>1, <3>2
  <2> QED
    BY <2>1, <2>2
<1>17. SuppressedInv'
  <2>1. JobsIn(deliveries') \subseteq Jobs /\ inflight \subseteq Jobs
        /\ o \notin JobsIn(deliveries') \cup inflight
    BY <1>1, <1>8, <1>9, JobsInType DEF Flow, DeliveryType, Placed
  <2>2. \A x \in JobsIn(deliveries') : Id(x)' \notin suppressed'
    <3>1. \A x \in JobsIn(deliveries') : Id(x)' = Id(x)
      BY <1>7, <2>1
    <3> QED
      BY <1>1, <1>8, <3>1 DEF SuppressedInv
  <2>3. ASSUME NEW x \in Jobs, (job[x].wait)' = "threshold" PROVE Id(x)' \notin IdsOf(inflight)'
    <3>1. x # o /\ Id(x) \notin IdsOf(inflight)
      BY <1>1, <1>6, <1>7, <2>3 DEF SuppressedInv
    <3>2. \A y \in inflight' : y \in inflight /\ Id(y)' = Id(y)
      BY <1>7, <1>8, <2>1
    <3> QED
      BY <1>7, <3>1, <3>2 DEF IdsOf
  <2>4. ASSUME NEW x \in Jobs, Born(x)', x \notin evicted'
        PROVE  /\ Id(x)' \in suppressed' =>
                    x \in toolTold' \/ InForeground(x)' \/ (job[x].wait)' = "aborted"
               /\ x \in toolTold' /\ (job[x].wait)' # "background" => Id(x)' \in suppressed'
    <3>1. CASE x = o
      BY <1>2, <1>7, <1>8, <1>10, <3>1
    <3>2. CASE x # o
      <4>1. Id(x) # f /\ Born(x) /\ x \notin evicted /\ job'[x] = job[x]
        BY <1>2, <1>6, <1>7, <1>12, <2>4, <3>2
      <4> QED
        BY <1>1, <1>2, <1>7, <1>8, <3>2, <4>1 DEF SuppressedInv
    <3> QED
      BY <3>1, <3>2
  <2> QED
    BY <2>2, <2>3, <2>4 DEF SuppressedInv
<1>18. WatchInv'
  <2>1. f \notin watched /\ watched \subseteq Ids
    BY <1>1, <1>3 DEF WatchInv, ManagerType
  <2> QED
    BY <1>1, <1>2, <1>13, <2>1 DEF WatchInv
<1>19. Reached'
  <2> SUFFICES ASSUME NEW x \in Jobs, (job[x].status)' = "done", x \notin evicted' \cup toolTold',
                      ~Tracked(x)', (job[x].wait)' \notin {"abort", "aborted", "waiting", "threshold"},
                      Id(x)' \notin suppressed' \cup watched', x \notin Placed'
               PROVE  FALSE
    BY DEF Reached
  <2>1. x # o /\ job'[x] = job[x] /\ Id(x)' = Id(x)
    BY <1>6, <1>7
  <2>2. x \notin Placed
    BY <1>9, <2>1
  <2>3. x \notin evicted \cup toolTold /\ ~Tracked(x)
    BY <1>2 DEF Tracked
  <2>4. Held(x)
    BY <1>1, <2>1, <2>2, <2>3 DEF ResultKept, Placed
  <2> QED
    BY <2>1, <2>2, <2>3, <2>4 DEF Held, Tracked, Queued, JobsIn, Placed
<1> QED
  BY <1>8, <1>11, <1>15, <1>16, <1>17, <1>18, <1>19 DEF Rest

(* Eviction keeps the invariant: table and suppression forget the job.     *)
LEMMA EvictInv ==
  ASSUME IInv, NEW i \in Ids, Evict(i)
  PROVE  Flow({}) /\ Rest'
<1>1. ManagerType /\ DeliveryType /\ CopyInv /\ LoopAlive /\ TableInv /\ FreshInv /\ SuppressedInv
      /\ WatchInv /\ ResultKept
  BY TypeParts DEF IInv
<1>2. /\ \A o \in Jobs : InForeground(o) => Id(o) # i
      /\ timers' = timers \ {i} /\ jobs' = [jobs EXCEPT ![i] = None]
      /\ suppressed' = suppressed \ {i} /\ watched' = watched \ {i}
      /\ evicted' = evicted \cup {o \in Jobs : Born(o) /\ Id(o) = i}
      /\ UNCHANGED <<job, fails, poll, toolTold>>
      /\ UNCHANGED <<deliveries, inflight, loop, yq, injected>>
  BY DEF Evict, Born, delivery
<1>3. Flow({})
  BY <1>1, <1>2, StillFlow
<1>4. ManagerType'
  BY <1>1, <1>2 DEF ManagerType
<1>5. \A k \in Ids : jobs'[k] = IF k = i THEN None ELSE jobs[k]
  BY <1>1, <1>2 DEF ManagerType
<1>6. \A x \in Jobs : Id(x)' = Id(x) /\ (Born(x)' <=> Born(x)) /\ (InForeground(x)' <=> InForeground(x))
                      /\ Id(x) \in Ids /\ (x \notin evicted' /\ Born(x) => x \notin evicted /\ Id(x) # i)
  BY <1>1, <1>2, JobFields DEF Id, Born, InForeground
<1>7. Placed' = Placed /\ JobsIn(deliveries)' = JobsIn(deliveries)
  BY <1>2 DEF Placed
<1>8. TableInv'
  BY <1>1, <1>2, <1>5, <1>6 DEF TableInv, Born, Id
<1>9. FreshInv'
  BY <1>1, <1>2, <1>6 DEF FreshInv
<1>10. SuppressedInv'
  BY <1>1, <1>2, <1>6 DEF SuppressedInv, IdsOf, Id
<1>11. WatchInv'
  <2>1. watched \subseteq Ids
    BY <1>1 DEF ManagerType
  <2> QED
    BY <1>1, <1>2, <1>5, <2>1 DEF WatchInv
<1>12. Reached'
  <2> SUFFICES ASSUME NEW x \in Jobs, job[x].status = "done", x \notin evicted' \cup toolTold,
                      ~Tracked(x), job[x].wait \notin {"abort", "aborted", "waiting", "threshold"},
                      Id(x) \notin suppressed' \cup watched'
               PROVE  x \in Placed
    BY <1>2, <1>6, <1>7 DEF Reached, Tracked
  <2>1. x \notin evicted /\ Id(x) \notin suppressed \cup watched
    BY <1>2, <1>6 DEF Born
  <2>2. x \in injected \/ Held(x)
    BY <1>1, <2>1 DEF ResultKept
  <2> QED
    BY <2>1, <2>2 DEF Held, Tracked, Queued, JobsIn, Placed
<1> QED
  BY <1>3, <1>4, <1>8, <1>9, <1>10, <1>11, <1>12 DEF Rest

(* A bash call that goes to the background keeps the invariant.            *)
LEMMA BackgroundInv ==
  ASSUME IInv, NEW o \in Jobs, Background(o)
  PROVE  \E new \in SUBSET Jobs : Flow(new) /\ Rest'
<1>1. ManagerType /\ DeliveryType /\ CopyInv /\ LoopAlive /\ TableInv /\ FreshInv /\ SuppressedInv
      /\ WatchInv /\ ResultKept
  BY TypeParts DEF IInv
<1>2. suppressed' = suppressed \ {Id(o)}
      /\ \E new \in {{}, {o}} :
           /\ Flow(new)
           /\ new = {o} => job[o].status = "done"
           /\ job[o].status = "done" => new = {o} \/ Id(o) \in suppressed' \cup watched'
  BY <1>1, BackgroundFlow
<1>3. PICK new \in {{}, {o}} :
        /\ Flow(new)
        /\ new = {o} => job[o].status = "done"
        /\ job[o].status = "done" => new = {o} \/ Id(o) \in suppressed' \cup watched'
  BY <1>2
<1>4. /\ job[o].wait = "threshold" /\ job' = [job EXCEPT ![o].wait = "background"]
      /\ UNCHANGED <<watched, jobs, timers, fails, poll, yq, toolTold, injected, evicted>>
  BY DEF Background, history
<1>5. job \in [Jobs -> JobRec] /\ job[o] \in JobRec /\ [job[o] EXCEPT !.wait = "background"] \in JobRec
  BY <1>1 DEF ManagerType, JobRec
<1>6. /\ job' \in [Jobs -> JobRec]
      /\ \A x \in Jobs : x # o => job'[x] = job[x]
      /\ job'[o].wait = "background" /\ job'[o].id = job[o].id /\ job'[o].status = job[o].status
  BY <1>4, <1>5 DEF JobRec
<1>7. /\ \A x \in Jobs : /\ Id(x)' = Id(x) /\ (Born(x)' <=> Born(x)) /\ Id(x) \in Ids
                         /\ (InForeground(x)' <=> InForeground(x) /\ x # o)
                         /\ job'[x].status = job[x].status
                         /\ x # o => job'[x] = job[x]
      /\ InForeground(o)
  BY <1>1, <1>4, <1>6, JobFields DEF Id, Born, InForeground
<1>8. \A x \in Jobs : x # o /\ Born(x) /\ x \notin evicted => Id(x) # Id(o)
  BY <1>1, <1>7 DEF TableInv, FreshInv
<1>9. ManagerType'
  BY <1>1, <1>2, <1>4, <1>6 DEF ManagerType
<1>10. TableInv'
  BY <1>1, <1>4, <1>7, PollFields DEF TableInv, ManagerType, Born, Id
<1>11. Placed' \subseteq Placed \cup new /\ o \notin Placed
       /\ \A x \in Placed \cup new : x \in Placed' \/ Id(x) \in suppressed' \cup watched'
  BY <1>1, <1>3, <1>7 DEF Flow, Placed, FreshInv
<1>12. FreshInv'
  <2> SUFFICES ASSUME NEW x \in Jobs
               PROVE  /\ InForeground(x)' => Born(x)' /\ x \notin evicted' /\ Id(x)' \in suppressed'
                      /\ (job[x].status)' # "done" \/ InForeground(x)' => x \notin Placed'
    BY DEF FreshInv, Placed
  <2>1. InForeground(x)' => Born(x)' /\ x \notin evicted' /\ Id(x)' \in suppressed'
    BY <1>1, <1>2, <1>4, <1>7, <1>8 DEF FreshInv
  <2>2. (job[x].status)' # "done" \/ InForeground(x)' => x \notin Placed'
    BY <1>1, <1>3, <1>7, <1>11 DEF FreshInv, Placed
  <2> QED
    BY <2>1, <2>2
<1>13. SuppressedInv'
  <2>1. JobsIn(deliveries') \subseteq Jobs /\ inflight' \subseteq Jobs
    BY <1>3, JobsInType DEF Flow, DeliveryType
  <2>2. \A x \in JobsIn(deliveries') : Id(x)' \notin suppressed'
    BY <1>1, <1>2, <1>3, <1>7, <2>1 DEF Flow, SuppressedInv
  <2>3. ASSUME NEW x \in Jobs, (job[x].wait)' = "threshold" PROVE Id(x)' \notin IdsOf(inflight)'
    <3>1. x # o /\ job[x].wait = "threshold"
      BY <1>6, <1>7, <2>3
    <3>2. Id(x) \notin IdsOf(inflight) /\ Id(x) \in suppressed /\ Id(x) # Id(o)
      BY <1>1, <1>8, <3>1 DEF SuppressedInv, FreshInv, InForeground
    <3>3. \A y \in inflight' : y \in inflight \/ Id(y) \notin suppressed \/ y = o
      BY <1>1, <1>3 DEF Flow, SuppressedInv
    <3>4. \A y \in inflight' : Id(x) # Id(y)
      BY <3>2, <3>3 DEF IdsOf
    <3> QED
      BY <1>7, <2>1, <3>4 DEF IdsOf
  <2>4. ASSUME NEW x \in Jobs, Born(x)', x \notin evicted'
        PROVE  /\ Id(x)' \in suppressed' =>
                    x \in toolTold' \/ InForeground(x)' \/ (job[x].wait)' = "aborted"
               /\ x \in toolTold' /\ (job[x].wait)' # "background" => Id(x)' \in suppressed'
    <3>1. CASE x = o
      BY <1>2, <1>6, <1>7, <3>1
    <3>2. CASE x # o
      <4>1. Id(x) # Id(o) /\ Born(x) /\ x \notin evicted /\ job'[x] = job[x]
        BY <1>4, <1>7, <1>8, <2>4, <3>2
      <4> QED
        BY <1>1, <1>2, <1>4, <1>7, <3>2, <4>1 DEF SuppressedInv
    <3> QED
      BY <3>1, <3>2
  <2> QED
    BY <2>2, <2>3, <2>4 DEF SuppressedInv
<1>14. WatchInv'
  BY <1>1, <1>4 DEF WatchInv
<1>15. Reached'
  <2> SUFFICES ASSUME NEW x \in Jobs, (job[x].status)' = "done", x \notin evicted' \cup toolTold',
                      ~Tracked(x)', (job[x].wait)' \notin {"abort", "aborted", "waiting", "threshold"},
                      Id(x)' \notin suppressed' \cup watched', x \notin Placed'
               PROVE  FALSE
    BY DEF Reached
  <2>1. Id(x) \notin suppressed' \cup watched' /\ job[x].status = "done" /\ x \notin evicted \cup toolTold
        /\ ~Tracked(x)
    BY <1>4, <1>7 DEF Tracked
  <2>2. x # o
    BY <1>3, <1>11, <2>1
  <2>3. x \notin Placed /\ job[x].wait \notin {"abort", "aborted", "waiting", "threshold"}
    BY <1>7, <1>11, <2>1, <2>2
  <2>4. Held(x)
    BY <1>1, <2>1, <2>3 DEF ResultKept, Placed
  <2> QED
    BY <2>1, <2>3, <2>4 DEF Held, Tracked, Queued, JobsIn, Placed
<1>16. new \in SUBSET Jobs
  OBVIOUS
<1> QED
  BY <1>3, <1>9, <1>10, <1>12, <1>13, <1>14, <1>15, <1>16 DEF Rest

-----------------------------------------------------------------------------
(* The theorems.                                                           *)

(* At first no job is born and nothing is on its way.                      *)
LEMMA InitInv == Init => IInv
<1> SUFFICES ASSUME Init PROVE IInv
  OBVIOUS
<1>1. /\ job = [o \in Jobs |-> [status |-> "unborn", id |-> o, run |-> "live", wait |-> "none"]]
      /\ jobs = [i \in Ids |-> None]
      /\ suppressed = {} /\ watched = {} /\ timers = {} /\ deliveries = <<>> /\ inflight = {}
      /\ loop = [at |-> "off", held |-> None] /\ fails = 0 /\ poll = <<>> /\ yq = <<>>
      /\ toolTold = {} /\ injected = {} /\ evicted = {}
  BY DEF Init
<1>2. JobsIn(deliveries) = {} /\ ToSet(yq) = {} /\ OnceIn(deliveries) /\ OnceStaged(yq)
  BY <1>1 DEF JobsIn, ToSet, OnceIn, OnceStaged
<1>3. \A o \in Jobs : ~Born(o) /\ ~InForeground(o) /\ job[o].status # "done" /\ job[o].wait = "none"
  BY <1>1 DEF Born, InForeground
<1>4. ManagerType
  <2>1. job \in [Jobs -> JobRec]
    BY <1>1 DEF Jobs, Ids, JobRec
  <2> QED
    BY <1>1, <2>1, BoundsAssumption DEF ManagerType
<1>5. DeliveryType /\ LoopAlive /\ CopyInv
  BY <1>1, <1>2 DEF DeliveryType, Places, LoopAlive, CopyInv
<1>6. TableInv /\ WatchInv
  BY <1>1, <1>3 DEF TableInv, WatchInv
<1>7. FreshInv /\ SuppressedInv /\ ResultKept
  BY <1>1, <1>2, <1>3 DEF FreshInv, SuppressedInv, ResultKept, IdsOf
<1> QED
  BY <1>4, <1>5, <1>6, <1>7, TypeParts DEF IInv

(* Every step keeps the invariant.                                         *)
LEMMA StepInv == IInv /\ [Next]_vars => IInv'
<1> SUFFICES ASSUME IInv, [Next]_vars PROVE IInv'
  OBVIOUS
<1>1. ManagerType /\ DeliveryType /\ CopyInv /\ LoopAlive /\ TableInv /\ FreshInv /\ SuppressedInv
      /\ WatchInv /\ ResultKept
  BY TypeParts DEF IInv
<1>2. ASSUME NEW new \in SUBSET Jobs, Flow(new) /\ Rest' PROVE IInv'
  <2>1. DeliveryType' /\ LoopAlive' /\ CopyInv'
    BY <1>2 DEF Flow
  <2>2. ManagerType' /\ TableInv' /\ FreshInv' /\ SuppressedInv' /\ WatchInv' /\ ResultKept'
    BY <1>2, KeptIfReached DEF Rest
  <2> QED
    BY <2>1, <2>2, TypePartsPrimed DEF IInv
<1>3. CASE Next
  <2>1. ASSUME NEW new \in SUBSET Jobs, NEW over \in SUBSET Jobs, Frame(new, over) PROVE IInv'
    BY <1>2, <2>1, FrameInv
  <2>2. ASSUME NEW o \in Jobs, NEW foreground \in BOOLEAN, Register(o, foreground) PROVE IInv'
    BY <1>2, <2>2, RegisterInv
  <2>3. ASSUME NEW i \in Ids, Evict(i) PROVE IInv'
    BY <1>2, <2>3, EvictInv
  <2>4. ASSUME NEW o \in Jobs, Background(o) PROVE IInv'
    BY <1>2, <2>4, BackgroundInv
  <2> QED
    BY <1>1, <1>3, <2>1, <2>2, <2>3, <2>4, FrameStep
<1>4. CASE UNCHANGED vars
  BY <1>4 DEF vars, manager, delivery, history, IInv, TypeOK, LoopAlive, CopyInv, TableInv, FreshInv,
              SuppressedInv, WatchInv, ResultKept, Held, Queued, IsDeliverySuppressed, InForeground,
              Born, IdsOf, Id
<1> QED
  BY <1>3, <1>4

(* The invariant the properties below rest on holds in every behaviour of    *)
(* the manager and its tools, whatever the number of jobs and calls.         *)
THEOREM Invariance == Spec => []IInv
<1>1. Init => IInv
  BY InitInv
<1>2. IInv /\ [Next]_vars => IInv'
  BY StepInv
<1> QED
  BY <1>1, <1>2, PTL DEF Spec

(* A queued delivery always has a loop, and a result is in one place: in the *)
(* queue, in flight, staged, or in the conversation.                         *)
THEOREM JobInvCorrect == Spec => []JobInv
<1>1. IInv => JobInv
  <2> SUFFICES ASSUME IInv PROVE JobInv
    OBVIOUS
  <2>1. CopyInv
    BY DEF IInv
  <2>2. OneCopy
    <3> SUFFICES ASSUME NEW o \in Jobs
                 PROVE  Cardinality(
                          {<<"queue", k>> : k \in {d \in DOMAIN deliveries : deliveries[d].job = o}}
                          \cup {<<"yield", k>> : k \in {e \in DOMAIN yq : yq[e] = o}}
                          \cup {<<"flight", 0>> : x \in inflight \cap {o}}
                          \cup {<<"told", 0>> : x \in injected \cap {o}}) <= 1
      BY DEF OneCopy
    <3> DEFINE Q == {<<"queue", k>> : k \in {d \in DOMAIN deliveries : deliveries[d].job = o}}
               Y == {<<"yield", k>> : k \in {e \in DOMAIN yq : yq[e] = o}}
               F == {<<"flight", 0>> : x \in inflight \cap {o}}
               T == {<<"told", 0>> : x \in injected \cap {o}}
    <3>1. (\A x, y \in Q : x = y) /\ (Q # {} => o \in JobsIn(deliveries))
      BY <2>1 DEF CopyInv, OnceIn, JobsIn
    <3>2. (\A x, y \in Y : x = y) /\ (Y # {} => o \in ToSet(yq))
      BY <2>1 DEF CopyInv, OnceStaged, ToSet
    <3>3. (\A x, y \in F : x = y) /\ (F # {} => o \in inflight)
      OBVIOUS
    <3>4. (\A x, y \in T : x = y) /\ (T # {} => o \in injected)
      OBVIOUS
    <3> HIDE DEF Q, Y, F, T
    <3>5. \A x, y \in Q \cup Y \cup F \cup T : x = y
      BY <2>1, <3>1, <3>2, <3>3, <3>4 DEF CopyInv
    <3>6. Cardinality(Q \cup Y \cup F \cup T) <= 1
      BY <3>5, AtMostOne
    <3> QED
      BY <3>6 DEF Q, Y, F, T
  <2> QED
    BY <2>2 DEF IInv, JobInv
<1> QED
  BY <1>1, Invariance, PTL

(* Within the retention window the result of a finished job whose bash call  *)
(* was not aborted has been told, or somebody holds it and will tell it.     *)
THEOREM ResultKeptCorrect == Spec => []ResultKept
<1>1. IInv => ResultKept
  BY DEF IInv
<1> QED
  BY <1>1, Invariance, PTL

(* A result that a tool call has returned is not injected afterwards, within *)
(* the retention window and unless its call was put in the background.       *)
THEOREM NoEchoCorrect == Spec => NoEcho
<1> DEFINE Silent == \A o \in injected' \ injected :
                       o \notin toolTold \/ o \in evicted \/ job[o].wait = "background"
<1>1. IInv /\ [Next]_vars => [Silent]_vars
  <2> SUFFICES ASSUME IInv, Next, NEW o \in injected' \ injected
               PROVE  o \notin toolTold \/ o \in evicted \/ job[o].wait = "background"
    OBVIOUS
  <2>1. Drain
    BY DEF Next, ManagerStep, Register, CommandEnds, JobSettles, OnJobCompleteFails, CancelJob,
           WaitCompletes, Background, AbortForeground, WaitLoses, CancelAll, Evict, BackoffElapses,
           DrainTakes, LoopWakes, LoopResumes, LoopFinally, Inspect, PollStarts, PollEnds,
           OnJobComplete, history
  <2>2. o \in ToSet(yq) /\ Id(o) \notin suppressed
    BY <2>1 DEF Drain, Survivors, IsDeliverySuppressed
  <2>3. ManagerType /\ DeliveryType /\ TableInv /\ SuppressedInv
    BY TypeParts DEF IInv
  <2>4. o \in toolTold => o \in Jobs /\ Born(o)
    BY <2>3 DEF ManagerType, TableInv
  <2> QED
    BY <2>2, <2>3, <2>4 DEF SuppressedInv
<1> QED
  BY <1>1, Invariance, PTL DEF Spec, NoEcho
=============================================================================
