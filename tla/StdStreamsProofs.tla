--------------------------- MODULE StdStreamsProofs ---------------------------
(***************************************************************************)
(* What MCStdStreams.cfg checks for two loggers and three Loxes, proved    *)
(* for any number of them, of threads and of attachments.                  *)
(*                                                                         *)
(* The counter of a logger counts its Loxes however registrations          *)
(* interleave (Counted). So one thread alone takes the step from no Lox to *)
(* one, or back, unless an addition crosses a removal, and the list of     *)
(* StdOutputStreamsLock follows (Listed). While nothing disturbs it, one   *)
(* thread is in a logger at a time (OwnLocks). Therefore one thread uses   *)
(* StdOutputStreamsLock when one acquirer is registered with it, and none  *)
(* when a second one comes and its mode changes (StdLock).                 *)
(***************************************************************************)
EXTENDS StdStreams, FiniteSetTheorems, SequenceTheorems, TLAPS

\* An element is in a list once at most.
Once(s, a) == \A i, j \in DOMAIN s : s[i] = a /\ s[j] = a => i = j

\* Where a thread uses a logger, or reports; where it works on the lists of the logger itself;
\* and where it holds ALIB::Lock.
InStd      == {"logging"} \cup Using
Logs       == {"written"} \cup InStd
OwnStages  == {"ownAdd", "ownAddFirst", "ownRemove", "ownRemoveOther"}
AddHolds   == {"stdAddFirst", "stdAddSwitch"}
RemHolds   == {"stdRemoveOther", "stdRemoveSwitch"}
Holding    == AddHolds \cup RemHolds \cup {"ownAddFirst", "ownRemoveOther"}

ListsTyped ==
    /\ acquirers = [s \in SmartLocks |-> acquirers[s]]
    /\ acquirers[Std] \in Seq(Loggers \cup {Anonymous})
    /\ \A g \in Loggers : acquirers[g] \in Seq(LoxesOf[g])

Typed ==
    /\ ListsTyped
    /\ safe \in [SmartLocks -> BOOLEAN]
    /\ owner \in [SmartLocks -> Threads \cup {NoThread}]
    /\ cnt \in [SmartLocks -> Int]
    /\ registrations \in [Loggers -> Int]
    /\ alibLock \in Threads \cup {NoThread}
    /\ mine \in [Threads -> Loxes \cup {NoLox}]
    /\ job \in [Threads -> Loggers \cup {Anonymous}]
    /\ console \in BOOLEAN
    /\ pc \in [Threads -> Locations]
    /\ crossed \in SUBSET Loggers /\ disturbed \in BOOLEAN

\* Nobody is registered twice.
Lists == \A s \in SmartLocks : \A a : Once(acquirers[s], a)

\* Who holds what: a Lox has one holder, who is the one that works with it.
Held ==
    /\ \A t, u \in Threads : mine[t] = mine[u] /\ mine[t] # NoLox => t = u
    /\ \A t, u \in Reporting : t = u
    /\ \A t \in Threads : pc[t] = "idle" => job[t] = Anonymous
    /\ \A t \in Threads : pc[t] \in OwnStages => job[t] # Anonymous
    /\ \A t \in Threads : pc[t] \in Holding <=> alibLock = t

\* The Lox of a registration under way is not yet attached to the logger; the one of a use, or
\* of a removal, is.
Working ==
    \A t \in Threads : job[t] # Anonymous =>
      /\ pc[t] \in Adding => mine[t] \in LoxesOf[job[t]] /\ ~Attached(job[t], mine[t])
      /\ pc[t] \in Logs \cup Removing => Attached(job[t], mine[t])

\* The list of StdOutputStreamsLock while ALIB::Lock is held for a change of its mode.
Switching ==
    \A t \in Threads :
      /\ pc[t] \in AddHolds => Len(acquirers[Std]) = 1 /\ ~Contains(acquirers[Std], job[t])
      /\ pc[t] \in RemHolds => Len(acquirers[Std]) = 2 /\ Contains(acquirers[Std], job[t])
      /\ pc[t] = "stdAddFirst" => acquirers[Std][1] # Anonymous
      /\ pc[t] = "stdRemoveOther" => Remaining(Std, job[t]) # Anonymous

Counted ==
    \A g \in Loggers :
      /\ IsFiniteSet(At(g, Adding)) /\ IsFiniteSet(At(g, Removing))
      /\ registrations[g] =
            Len(acquirers[g]) + Cardinality(At(g, Adding)) - Cardinality(At(g, Removing))

\* An acquirer of StdOutputStreamsLock should be registered: a logger with a Lox, or the console.
Wanted(a) == IF a = Anonymous THEN console ELSE registrations[a] > 0

\* It is, apart from the time that one thread takes to register it, or to unregister it.
ListedRight(a) ==
    /\ \A t, u \in At(a, StdAdding \cup StdRemoving) : t = u
    /\ \A t \in At(a, StdAdding) : Wanted(a) /\ ~Contains(acquirers[Std], a)
    /\ \A t \in At(a, StdRemoving) : ~Wanted(a) /\ Contains(acquirers[Std], a)
    /\ At(a, StdAdding \cup StdRemoving) = {} => (Contains(acquirers[Std], a) <=> Wanted(a))
    /\ \A t \in At(a, InStd) : Wanted(a)

Listed == \A a \in (Loggers \cup {Anonymous}) \ crossed : ListedRight(a)

\* The logger that t has acquired for a switch of the mode, or Anonymous.
Guard(t)  == IF pc[t] = "stdAddSwitch" THEN acquirers[Std][1] ELSE Remaining(Std, job[t])

\* The threads that have acquired logger g: one at most.
Inside(g) == At(g, Logs) \cup
             {t \in Threads : pc[t] \in {"stdAddSwitch", "stdRemoveSwitch"} /\ Guard(t) = g}

OwnRight(g) ==
    /\ \A t, u \in Inside(g) : t = u
    /\ Inside(g) = {} => cnt[g] = 0 /\ owner[g] = NoThread
    /\ \A t \in Inside(g) : cnt[g] = 1 /\ owner[g] = IF safe[g] THEN t ELSE NoThread

OwnLocks == ~disturbed => \A g \in Loggers : OwnRight(g)

\* StdOutputStreamsLock and its users: they are registered, one is the owner in mode Safe.
StdRight ==
    /\ Len(acquirers[Std]) >= 2 => safe[Std]
    /\ \A t, u \in Threads :
          pc[t] = "stdAddSwitch" /\ acquirers[Std][1] = Anonymous => pc[u] \notin Using
    /\ \A t \in Threads : pc[t] \in Using => Contains(acquirers[Std], job[t])
    /\ \A t \in Threads : pc[t] = "unsafePath" => ~safe[Std]
    /\ \A t \in Threads : pc[t] = "writing" => cnt[Std] = 1 /\ (safe[Std] => owner[Std] = t)
    /\ (\A t \in Threads : pc[t] # "writing") => cnt[Std] = 0

StdLock == Undisturbed => StdRight

IInv == Typed /\ Lists /\ Held /\ Working /\ Switching /\ Counted /\ Listed /\ OwnLocks /\ StdLock


-----------------------------------------------------------------------------
(***************************************************************************)
(* Lists.                                                                  *)
(***************************************************************************)
\* Two different elements are two.
LEMMA TwoContained ==
    ASSUME NEW S, NEW s \in Seq(S), NEW a, NEW b, a # b, Contains(s, a), Contains(s, b)
    PROVE  Len(s) >= 2
<1>1. PICK n \in Nat : n = Len(s) /\ DOMAIN s = 1..n
  OBVIOUS
<1>2. PICK i \in 1..n, j \in 1..n : s[i] = a /\ s[j] = b
  BY <1>1 DEF Contains
<1>3. i # j
  BY <1>2
<1> QED
  BY <1>1, <1>3

\* One that is there is an element, and makes the list a list of one at least.
LEMMA OneContained ==
    ASSUME NEW S, NEW s \in Seq(S), NEW a, Contains(s, a)
    PROVE  a \in S /\ Len(s) >= 1
<1>1. PICK n \in Nat : n = Len(s) /\ DOMAIN s = 1..n
  OBVIOUS
<1>2. PICK i \in 1..n : s[i] = a
  BY <1>1 DEF Contains
<1> QED
  BY <1>1, <1>2

\* A set of natural numbers that is not empty has a least element.
LEMMA LeastExists ==
    ASSUME NEW S \in SUBSET Nat, S # {}
    PROVE  \E n \in S : \A m \in S : n <= m
<1> DEFINE R == OpToRel(<, Nat)
<1>1. \A m, n \in Nat : m < n => <<m, n>> \in R
  BY DEF OpToRel
<1>2. IsWellFoundedOn(R, Nat)
  BY NatLessThanWellFounded
<1> HIDE DEF R
<1>3. PICK n \in S : \A m \in S : <<m, n>> \notin R
  BY <1>2, WFMin
<1>4. ASSUME NEW m \in S
      PROVE  n <= m
  <2>1. m \in Nat /\ n \in Nat /\ ~(m < n)
    BY <1>1, <1>3
  <2> QED
    BY <2>1
<1> QED
  BY <1>4

\* The same of Min, that chooses it.
LEMMA MinIsLeast ==
    ASSUME NEW S \in SUBSET Nat, S # {}
    PROVE  Min(S) \in S /\ \A m \in S : Min(S) <= m
BY LeastExists DEF Min

\* The first index at which a sequence has e; the sequence that RemoveFirst leaves.
FirstAt(s, e, i) == i \in DOMAIN s /\ s[i] = e /\ \A j \in DOMAIN s : s[j] = e => i <= j

\* RemoveFirst takes the first e out, and keeps everything else in its order.
LEMMA RemoveFirstFound ==
    ASSUME NEW S, NEW s \in Seq(S), NEW e, Contains(s, e)
    PROVE  \E i \in DOMAIN s :
             /\ FirstAt(s, e, i)
             /\ RemoveFirst(s, e) \in Seq(S)
             /\ Len(RemoveFirst(s, e)) = Len(s) - 1
             /\ \A j \in 1..(Len(s) - 1) : RemoveFirst(s, e)[j] = IF j < i THEN s[j] ELSE s[j + 1]
<1> DEFINE I == {j \in 1..Len(s) : s[j] = e}
           i == Min(I)
<1>1. I \in SUBSET Nat /\ I # {} /\ DOMAIN s = 1..Len(s)
  BY DEF Contains
<1>2. i \in I /\ \A j \in I : i <= j
  BY <1>1, MinIsLeast
<1>3. RemoveFirst(s, e) = RemoveAt(s, i)
  BY <1>1 DEF RemoveFirst, SelectInSeq
<1> HIDE DEF i
<1>4. RemoveFirst(s, e) = SubSeq(s, 1, i - 1) \o SubSeq(s, i + 1, Len(s))
  BY <1>3 DEF RemoveAt
<1>5. i \in 1..Len(s) /\ s[i] = e /\ Len(s) \in Nat
  BY <1>2
<1>6. FirstAt(s, e, i) /\ i \in DOMAIN s
  BY <1>1, <1>2 DEF FirstAt
<1> DEFINE front == SubSeq(s, 1, i - 1)
           rest  == SubSeq(s, i + 1, Len(s))
<1>7. /\ front \in Seq(S) /\ Len(front) = i - 1
      /\ \A j \in 1..(i - 1) : front[j] = s[j]
  BY <1>5, SubSeqProperties
<1>8. /\ rest \in Seq(S) /\ Len(rest) = Len(s) - i
      /\ \A j \in 1..(Len(s) - i) : rest[j] = s[i + j]
  BY <1>5, SubSeqProperties
<1>9. /\ RemoveFirst(s, e) \in Seq(S)
      /\ Len(RemoveFirst(s, e)) = Len(front) + Len(rest)
      /\ \A j \in 1..(Len(front) + Len(rest)) :
            RemoveFirst(s, e)[j] = IF j <= Len(front) THEN front[j] ELSE rest[j - Len(front)]
  BY <1>4, <1>7, <1>8, ConcatProperties
<1> HIDE DEF front, rest
<1>10. ASSUME NEW j \in 1..(Len(s) - 1)
       PROVE  RemoveFirst(s, e)[j] = IF j < i THEN s[j] ELSE s[j + 1]
  <2>1. j \in Nat /\ i \in Nat /\ Len(front) = i - 1 /\ j \in 1..(Len(front) + Len(rest))
    BY <1>5, <1>7, <1>8
  <2>2. RemoveFirst(s, e)[j] = IF j <= i - 1 THEN front[j] ELSE rest[j - (i - 1)]
    BY <2>1, <1>9
  <2>3. CASE j < i
    <3>1. j <= i - 1 /\ j \in 1..(i - 1)
      BY <2>1, <2>3
    <3> QED
      BY <2>2, <2>3, <3>1, <1>7
  <2>4. CASE ~(j < i)
    <3>1. j - (i - 1) \in 1..(Len(s) - i) /\ i + (j - (i - 1)) = j + 1 /\ ~(j <= i - 1)
      BY <2>1, <2>4, <1>5
    <3> QED
      BY <2>2, <2>4, <3>1, <1>8
  <2> QED
    BY <2>3, <2>4
<1>11. Len(RemoveFirst(s, e)) = Len(s) - 1
  BY <1>5, <1>7, <1>8, <1>9
<1> QED
  BY <1>6, <1>9, <1>10, <1>11

\* A list nobody is twice on, with a new element.
LEMMA ElementAdded ==
    ASSUME NEW S, NEW s \in Seq(S), NEW e \in S, ~Contains(s, e), \A a : Once(s, a)
    PROVE  /\ Append(s, e) \in Seq(S) /\ Len(Append(s, e)) = Len(s) + 1
           /\ \A a : Contains(Append(s, e), a) <=> Contains(s, a) \/ a = e
           /\ \A a : Once(Append(s, e), a)
<1> DEFINE r == Append(s, e)
<1>1. PICK n \in Nat : n = Len(s) /\ DOMAIN s = 1..n
  OBVIOUS
<1>2. /\ r \in Seq(S) /\ Len(r) = n + 1 /\ DOMAIN r = 1..(n + 1) /\ r[n + 1] = e
      /\ \A i \in 1..n : r[i] = s[i]
  BY <1>1, AppendProperties
<1> HIDE DEF r
<1>3. \A a : Contains(r, a) <=> Contains(s, a) \/ a = e
  BY <1>1, <1>2 DEF Contains
<1>4. \A a : Once(r, a)
  <2>1. \A i \in 1..n : s[i] # e
    BY <1>1 DEF Contains
  <2>2. \A i, j \in 1..n : s[i] = s[j] => i = j
    BY <1>1 DEF Once
  <2>3. \A i, j \in 1..(n + 1) : r[i] = r[j] => i = j
    BY <1>2, <2>1, <2>2
  <2> QED
    BY <1>2, <2>3 DEF Once
<1> QED
  BY <1>1, <1>2, <1>3, <1>4 DEF r

\* The same for one that goes.
LEMMA ElementRemoved ==
    ASSUME NEW S, NEW s \in Seq(S), NEW e, Contains(s, e), \A a : Once(s, a)
    PROVE  /\ RemoveFirst(s, e) \in Seq(S) /\ Len(RemoveFirst(s, e)) = Len(s) - 1
           /\ \A a : Contains(RemoveFirst(s, e), a) <=> Contains(s, a) /\ a # e
           /\ \A a : Once(RemoveFirst(s, e), a)
<1>1. PICK n \in Nat : n = Len(s) /\ DOMAIN s = 1..n
  OBVIOUS
<1>2. PICK i \in 1..n, r \in Seq(S) :
        /\ r = RemoveFirst(s, e) /\ Len(r) = n - 1 /\ DOMAIN r = 1..(n - 1) /\ s[i] = e
        /\ \A j \in 1..(n - 1) : r[j] = IF j < i THEN s[j] ELSE s[j + 1]
  BY <1>1, RemoveFirstFound DEF FirstAt
<1>3. ASSUME NEW a, Contains(r, a)
      PROVE  Contains(s, a) /\ a # e
  <2>1. PICK j \in 1..(n - 1) : r[j] = a
    BY <1>2, <1>3 DEF Contains
  <2>2. PICK k \in 1..n : k # i /\ s[k] = a
    <3>1. (IF j < i THEN j ELSE j + 1) \in 1..n /\ (IF j < i THEN j ELSE j + 1) # i
      OBVIOUS
    <3> QED
      BY <1>2, <2>1, <3>1
  <2> QED
    BY <1>1, <1>2, <2>2 DEF Contains, Once
<1>4. ASSUME NEW a, Contains(s, a), a # e
      PROVE  Contains(r, a)
  <2>1. PICK k \in 1..n : s[k] = a /\ k # i
    BY <1>1, <1>2, <1>4 DEF Contains
  <2>2. PICK j \in 1..(n - 1) : r[j] = a
    <3>1. CASE k < i
      BY <1>2, <2>1, <3>1
    <3>2. CASE k > i
      <4>1. k - 1 \in 1..(n - 1) /\ ~(k - 1 < i) /\ (k - 1) + 1 = k
        BY <3>2
      <4> QED
        BY <1>2, <2>1, <4>1
    <3> QED
      BY <2>1, <3>1, <3>2
  <2> QED
    BY <1>2, <2>2 DEF Contains
<1>5. \A a : Once(r, a)
  <2> SUFFICES ASSUME NEW j \in 1..(n - 1), NEW k \in 1..(n - 1), r[j] = r[k]
               PROVE  j = k
    BY <1>2 DEF Once
  <2>1. \A l, m \in 1..n : s[l] = s[m] => l = m
    BY <1>1 DEF Once
  <2>2. (IF j < i THEN j ELSE j + 1) = (IF k < i THEN k ELSE k + 1)
    <3>1. (IF j < i THEN j ELSE j + 1) \in 1..n /\ (IF k < i THEN k ELSE k + 1) \in 1..n
      OBVIOUS
    <3>2. r[j] = s[IF j < i THEN j ELSE j + 1] /\ r[k] = s[IF k < i THEN k ELSE k + 1]
      BY <1>2
    <3> QED
      BY <2>1, <3>1, <3>2
  <2> QED
    BY <2>2
<1> QED
  BY <1>1, <1>2, <1>3, <1>4, <1>5

\* A list of one, and what remains of a list of two when one of them is removed.
LEMMA OneElement ==
    ASSUME NEW S, NEW s \in Seq(S), Len(s) = 1
    PROVE  s[1] \in S /\ Contains(s, s[1]) /\ \A a : Contains(s, a) => a = s[1]
BY DEF Contains

LEMMA OtherOfTwo ==
    ASSUME NEW S, NEW s \in Seq(S), Len(s) = 2, NEW e, Contains(s, e), \A a : Once(s, a)
    PROVE  /\ Head(RemoveFirst(s, e)) \in S
           /\ \A a : Contains(s, a) => a = e \/ a = Head(RemoveFirst(s, e))
           /\ Head(RemoveFirst(s, e)) # e
           /\ RemoveFirst(s, e)[1] = Head(RemoveFirst(s, e))
<1> DEFINE r == RemoveFirst(s, e)
<1>1. r \in Seq(S) /\ Len(r) = 1 /\ \A a : Contains(r, a) <=> Contains(s, a) /\ a # e
  <2>1. r \in Seq(S) /\ Len(r) = Len(s) - 1 /\ \A a : Contains(r, a) <=> Contains(s, a) /\ a # e
    BY ElementRemoved
  <2> QED
    BY <2>1
<1> HIDE DEF r
<1>2. Head(r) = r[1]
  BY <1>1, EmptySeq, HeadTailProperties
<1>3. r[1] \in S /\ Contains(r, r[1]) /\ \A a : Contains(r, a) => a = r[1]
  BY <1>1, OneElement
<1> QED
  BY <1>1, <1>2, <1>3 DEF r

-----------------------------------------------------------------------------
(***************************************************************************)
(* What the steps do to the lists.                                         *)
(***************************************************************************)
\* Operations on a lock keep the types.
LEMMA LocksTyped ==
    ASSUME Typed, NEW s \in SmartLocks, NEW t \in Threads
    PROVE  /\ Switched(s, TRUE) \in [SmartLocks -> BOOLEAN]
           /\ Switched(s, FALSE) \in [SmartLocks -> BOOLEAN]
           /\ OwnerTaken(s, t) \in [SmartLocks -> Threads \cup {NoThread}]
           /\ CountTaken(s) \in [SmartLocks -> Int]
           /\ OwnerReleased(s) \in [SmartLocks -> Threads \cup {NoThread}]
           /\ CountReleased(s) \in [SmartLocks -> Int]
<1>1. /\ Switched(s, TRUE) \in [SmartLocks -> BOOLEAN]
      /\ Switched(s, FALSE) \in [SmartLocks -> BOOLEAN]
  BY DEF Typed, Switched
<1>2. OwnerTaken(s, t) \in [SmartLocks -> Threads \cup {NoThread}]
  BY DEF Typed, OwnerTaken
<1>3. OwnerReleased(s) \in [SmartLocks -> Threads \cup {NoThread}]
  BY DEF Typed, OwnerReleased
<1>4. cnt \in [SmartLocks -> Int] /\ cnt[s] + 1 \in Int /\ cnt[s] - 1 \in Int
  BY DEF Typed
<1>5. CountTaken(s) \in [SmartLocks -> Int] /\ CountReleased(s) \in [SmartLocks -> Int]
  BY <1>4 DEF CountTaken, CountReleased
<1> QED
  BY <1>1, <1>2, <1>3, <1>5

\* A list that changes.
LEMMA ListChanged ==
    ASSUME ListsTyped, Lists, NEW s \in SmartLocks, NEW q,
           acquirers' = [acquirers EXCEPT ![s] = q],
           IF s = Std THEN q \in Seq(Loggers \cup {Anonymous}) ELSE q \in Seq(LoxesOf[s]),
           \A a : Once(q, a)
    PROVE  /\ ListsTyped' /\ Lists'
           /\ acquirers'[s] = q /\ \A r \in SmartLocks \ {s} : acquirers'[r] = acquirers[r]
<1>1. /\ acquirers' = [r \in SmartLocks |-> acquirers'[r]]
      /\ acquirers'[s] = q /\ \A r \in SmartLocks \ {s} : acquirers'[r] = acquirers[r]
  BY DEF ListsTyped
<1>2. Std \in SmartLocks /\ Loggers \subseteq SmartLocks /\ Std \notin Loggers
  BY NamesAssumption DEF SmartLocks
<1>3. acquirers'[Std] \in Seq(Loggers \cup {Anonymous})
  BY <1>1, <1>2 DEF ListsTyped
<1>4. \A g \in Loggers : acquirers'[g] \in Seq(LoxesOf[g])
  BY <1>1, <1>2, ZenonT(30) DEF ListsTyped
<1>5. Lists'
  BY <1>1 DEF Lists
<1> QED
  BY <1>1, <1>3, <1>4, <1>5 DEF ListsTyped

\* An acquirer a has joined list s, or left it; the other lists are as they were.
OthersKept(s) == \A r \in SmartLocks \ {s} : acquirers'[r] = acquirers[r]

Joined(s, a) ==
    /\ OthersKept(s)
    /\ ~Contains(acquirers[s], a) /\ Len(acquirers'[s]) = Len(acquirers[s]) + 1
    /\ \A b : Contains(acquirers'[s], b) <=> Contains(acquirers[s], b) \/ b = a

Left(s, a) ==
    /\ OthersKept(s)
    /\ Contains(acquirers[s], a) /\ Len(acquirers'[s]) = Len(acquirers[s]) - 1
    /\ \A b : Contains(acquirers'[s], b) <=> Contains(acquirers[s], b) /\ b # a

\* The types of the acquirers of a lock.
Eligible(s) == IF s = Std THEN Loggers \cup {Anonymous} ELSE LoxesOf[s]

LEMMA ListTyped ==
    ASSUME ListsTyped, Lists, NEW s \in SmartLocks
    PROVE  /\ acquirers[s] \in Seq(Eligible(s)) /\ \A a : Once(acquirers[s], a)
           /\ Len(acquirers[s]) \in Nat
<1>1. acquirers[s] \in Seq(Eligible(s))
  <2>1. CASE s = Std
    BY <2>1 DEF ListsTyped, Eligible
  <2>2. CASE s # Std
    <3>1. s \in Loggers
      BY <2>2 DEF SmartLocks
    <3> QED
      BY <2>2, <3>1 DEF ListsTyped, Eligible
  <2> QED
    BY <2>1, <2>2
<1>2. \A a : Once(acquirers[s], a)
  BY DEF Lists
<1> QED
  BY <1>1, <1>2

LEMMA Appends ==
    ASSUME ListsTyped, Lists, NEW s \in SmartLocks, NEW a \in Eligible(s),
           ~Contains(acquirers[s], a), acquirers' = [acquirers EXCEPT ![s] = Append(@, a)]
    PROVE  ListsTyped' /\ Lists' /\ Joined(s, a)
<1>1. PICK q : q = Append(acquirers[s], a)
  OBVIOUS
<1>2. /\ q \in Seq(Eligible(s)) /\ Len(q) = Len(acquirers[s]) + 1
      /\ \A b : Contains(q, b) <=> Contains(acquirers[s], b) \/ b = a
      /\ \A b : Once(q, b)
  BY <1>1, ListTyped, ElementAdded
<1>3. acquirers' = [acquirers EXCEPT ![s] = q]
  BY <1>1
<1>4. IF s = Std THEN q \in Seq(Loggers \cup {Anonymous}) ELSE q \in Seq(LoxesOf[s])
  BY <1>2 DEF Eligible
<1>5. /\ ListsTyped' /\ Lists' /\ acquirers'[s] = q
      /\ \A r \in SmartLocks \ {s} : acquirers'[r] = acquirers[r]
  BY <1>2, <1>3, <1>4, ListChanged
<1> QED
  BY <1>2, <1>5 DEF Joined, OthersKept

LEMMA Erases ==
    ASSUME ListsTyped, Lists, NEW s \in SmartLocks, NEW a,
           Contains(acquirers[s], a), acquirers' = [acquirers EXCEPT ![s] = RemoveFirst(@, a)]
    PROVE  ListsTyped' /\ Lists' /\ Left(s, a)
<1>1. PICK q : q = RemoveFirst(acquirers[s], a)
  OBVIOUS
<1>2. /\ q \in Seq(Eligible(s)) /\ Len(q) = Len(acquirers[s]) - 1
      /\ \A b : Contains(q, b) <=> Contains(acquirers[s], b) /\ b # a
      /\ \A b : Once(q, b)
  BY <1>1, ListTyped, ElementRemoved
<1>3. acquirers' = [acquirers EXCEPT ![s] = q]
  BY <1>1
<1>4. IF s = Std THEN q \in Seq(Loggers \cup {Anonymous}) ELSE q \in Seq(LoxesOf[s])
  BY <1>2 DEF Eligible
<1>5. /\ ListsTyped' /\ Lists' /\ acquirers'[s] = q
      /\ \A r \in SmartLocks \ {s} : acquirers'[r] = acquirers[r]
  BY <1>2, <1>3, <1>4, ListChanged
<1> QED
  BY <1>2, <1>5 DEF Left, OthersKept

-----------------------------------------------------------------------------
(***************************************************************************)
(* Steps: thread t takes one, the other ones stay where they are.          *)
(***************************************************************************)
Step(t) ==
    \/ \E l \in Loxes : AcquireLox(t, l)
    \/ ReleaseLox(t)
    \/ \E g \in Loggers : Log(t, g) \/ AddCall(t, g) \/ RemoveCall(t, g)
    \/ Report(t) \/ PushWriter(t) \/ PopWriter(t) \/ ReportDone(t)
    \/ StdAcquireCall(t) \/ StdAcquireUnsafe(t) \/ StdAcquireSafe(t)
    \/ StdRelease(t) \/ LogDone(t)
    \/ StdAddPlain(t) \/ StdAddSecond(t) \/ StdAddFirst(t) \/ StdAddSwitch(t)
    \/ OwnAddPlain(t) \/ OwnAddSecond(t) \/ OwnAddFirst(t)
    \/ StdRemovePlain(t) \/ StdRemoveOfTwo(t) \/ StdRemoveOther(t) \/ StdRemoveSwitch(t)
    \/ OwnRemovePlain(t) \/ OwnRemoveOfTwo(t) \/ OwnRemoveOther(t)

Still(t) == \A u \in Threads \ {t} : pc'[u] = pc[u] /\ job'[u] = job[u] /\ mine'[u] = mine[u]

\* The acquirer of StdOutputStreamsLock that t is adding is not on its list: it is not known, or
\* it is the console's, of which nobody else takes care.
LEMMA Unlisted ==
    ASSUME IInv, NEW t \in Threads, pc[t] \in StdAdding, ~Known(t)
    PROVE  /\ ~Contains(acquirers[Std], job[t])
           /\ job[t] \in Eligible(Std)
<1>1. job[t] \in Loggers \cup {Anonymous}
  BY DEF IInv, Typed
<1>2. CASE job[t] = Anonymous
  <2>1. t \in At(Anonymous, StdAdding) /\ Anonymous \notin crossed
    BY <1>2, NamesAssumption DEF At, IInv, Typed
  <2> QED
    BY <1>1, <1>2, <2>1 DEF IInv, Listed, ListedRight, Eligible
<1>3. CASE job[t] # Anonymous
  BY <1>1, <1>3 DEF Known, Eligible
<1> QED
  BY <1>2, <1>3

\* An acquirer joins the list of StdOutputStreamsLock, or leaves it.
LEMMA StdJoins ==
    ASSUME IInv, NEW t \in Threads, (StdAddPlain(t) /\ ~Known(t)) \/ StdAddSwitch(t)
    PROVE  ListsTyped' /\ Lists' /\ Joined(Std, job[t])
<1>1. acquirers' = [acquirers EXCEPT ![Std] = Append(@, job[t])]
  BY DEF StdAddPlain, StdAddSwitch
<1>2. ~Contains(acquirers[Std], job[t]) /\ job[t] \in Eligible(Std)
  <2>1. CASE StdAddPlain(t) /\ ~Known(t)
    BY <2>1, Unlisted DEF StdAddPlain, StdAdding
  <2>2. CASE StdAddSwitch(t)
    <3>1. pc[t] \in AddHolds /\ Switching /\ job[t] \in Loggers \cup {Anonymous}
      BY <2>2 DEF StdAddSwitch, IInv, Typed, AddHolds
    <3> QED
      BY <3>1 DEF Switching, Eligible
  <2> QED
    BY <2>1, <2>2
<1>3. ListsTyped /\ Lists /\ Std \in SmartLocks
  BY DEF IInv, Typed, SmartLocks
<1> QED
  BY <1>1, <1>2, <1>3, Appends

LEMMA StdLeaves ==
    ASSUME IInv, NEW t \in Threads,
           (StdRemovePlain(t) /\ Contains(acquirers[Std], job[t])) \/ StdRemoveSwitch(t)
    PROVE  ListsTyped' /\ Lists' /\ Left(Std, job[t])
<1>1. acquirers' = [acquirers EXCEPT ![Std] = RemoveFirst(@, job[t])]
  BY DEF StdRemovePlain, StdRemoveSwitch
<1>2. Contains(acquirers[Std], job[t])
  BY DEF StdRemovePlain, StdRemoveSwitch, IInv, Switching, RemHolds
<1>3. ListsTyped /\ Lists /\ Std \in SmartLocks
  BY DEF IInv, Typed, SmartLocks
<1> QED
  BY <1>1, <1>2, <1>3, Erases

\* One that is not found changes nothing.
LEMMA StdSame ==
    ASSUME ListsTyped, NEW t \in Threads,
           StdRemovePlain(t), ~Contains(acquirers[Std], job[t])
    PROVE  acquirers' = acquirers
<1>1. acquirers' = [acquirers EXCEPT ![Std] = RemoveFirst(acquirers[Std], job[t])]
  BY DEF StdRemovePlain
<1>2. RemoveFirst(acquirers[Std], job[t]) = acquirers[Std]
  BY DEF RemoveFirst, Contains
<1> QED
  BY <1>1, <1>2 DEF ListsTyped

\* A Lox joins the list of a logger, or leaves it.
LEMMA OwnJoins ==
    ASSUME IInv, NEW t \in Threads, OwnAddPlain(t) \/ OwnAddFirst(t)
    PROVE  ListsTyped' /\ Lists' /\ job[t] \in Loggers /\ Joined(job[t], mine[t])
<1>1. acquirers' = [acquirers EXCEPT ![job[t]] = Append(@, mine[t])]
  BY DEF OwnAddPlain, OwnAddFirst
<1>2. pc[t] \in OwnStages /\ pc[t] \in Adding
  BY DEF OwnAddPlain, OwnAddFirst, OwnStages, Adding
<1>3. job[t] \in Loggers /\ job[t] # Std /\ job[t] \in SmartLocks
  BY <1>2, NamesAssumption DEF IInv, Typed, Held, SmartLocks
<1>4. job[t] # Anonymous
  BY <1>3, NamesAssumption
<1>5. ~Contains(acquirers[job[t]], mine[t]) /\ mine[t] \in Eligible(job[t])
  BY <1>2, <1>3, <1>4 DEF IInv, Working, Attached, Eligible
<1>6. ListsTyped /\ Lists
  BY DEF IInv, Typed
<1> QED
  BY <1>1, <1>3, <1>5, <1>6, Appends

LEMMA OwnLeaves ==
    ASSUME IInv, NEW t \in Threads, OwnRemovePlain(t) \/ OwnRemoveOther(t)
    PROVE  ListsTyped' /\ Lists' /\ job[t] \in Loggers /\ Left(job[t], mine[t])
<1>1. acquirers' = [acquirers EXCEPT ![job[t]] = RemoveFirst(@, mine[t])]
  BY DEF OwnRemovePlain, OwnRemoveOther
<1>2. pc[t] \in OwnStages /\ pc[t] \in Removing
  BY DEF OwnRemovePlain, OwnRemoveOther, OwnStages, Removing
<1>3. job[t] \in Loggers /\ job[t] \in SmartLocks
  BY <1>2 DEF IInv, Typed, Held, SmartLocks
<1>4. job[t] # Anonymous
  BY <1>3, NamesAssumption
<1>5. Contains(acquirers[job[t]], mine[t])
  BY <1>2, <1>3, <1>4 DEF IInv, Working, Attached
<1>6. ListsTyped /\ Lists
  BY DEF IInv, Typed
<1> QED
  BY <1>1, <1>3, <1>5, <1>6, Erases

\* The acquirer of StdOutputStreamsLock that is acquired for a switch is a logger.
LEMMA FirstIsLogger ==
    ASSUME IInv, NEW t \in Threads, pc[t] \in AddHolds, acquirers[Std][1] # Anonymous
    PROVE  acquirers[Std][1] \in Loggers
<1>1. Len(acquirers[Std]) = 1 /\ acquirers[Std] \in Seq(Loggers \cup {Anonymous})
  BY DEF IInv, Typed, ListsTyped, Switching
<1> QED
  BY <1>1, OneElement

LEMMA RemainingIsLogger ==
    ASSUME IInv, NEW t \in Threads, pc[t] \in RemHolds, Remaining(Std, job[t]) # Anonymous
    PROVE  Remaining(Std, job[t]) \in Loggers
<1>1. /\ Len(acquirers[Std]) = 2 /\ Contains(acquirers[Std], job[t])
      /\ acquirers[Std] \in Seq(Loggers \cup {Anonymous}) /\ \A a : Once(acquirers[Std], a)
  BY DEF IInv, Typed, ListsTyped, Switching, Lists, SmartLocks
<1> QED
  BY <1>1, OtherOfTwo DEF Remaining

(***************************************************************************)
(* Types.                                                                  *)
(***************************************************************************)
\* What Take does to the types.
LEMMA TakeTyped ==
    ASSUME Typed, NEW g \in Loggers, NEW t \in Threads, Take(g, t)
    PROVE  /\ owner' \in [SmartLocks -> Threads \cup {NoThread}]
           /\ cnt' \in [SmartLocks -> Int] /\ disturbed' \in BOOLEAN
<1>1. g \in SmartLocks
  BY DEF SmartLocks
<1> QED
  BY <1>1, LocksTyped DEF Take, Typed

LEMMA TypedKept ==
    ASSUME IInv, NEW t \in Threads, Step(t)
    PROVE  Typed' /\ Still(t)
<1>1. Typed /\ Lists /\ Std \in SmartLocks
  BY DEF IInv, SmartLocks
<1>2. CASE \E l \in Loxes : AcquireLox(t, l)
  BY <1>1, <1>2
     DEF AcquireLox, Typed, ListsTyped, Still, locks, history, Goto, Locations, Using, Adding,
         Removing, StdAdding, StdRemoving
<1>3. CASE ReleaseLox(t)
  BY <1>1, <1>3
     DEF ReleaseLox, Typed, ListsTyped, Still, locks, history, Goto, Locations, Using, Adding,
         Removing, StdAdding, StdRemoving
<1>4. CASE Report(t)
  BY <1>1, <1>4
     DEF Report, Typed, ListsTyped, Still, locks, history, Goto, Locations, Using, Adding,
         Removing, StdAdding, StdRemoving
<1>5. CASE PushWriter(t)
  BY <1>1, <1>5
     DEF PushWriter, Typed, ListsTyped, Still, locks, history, Goto, Locations, Using, Adding,
         Removing, StdAdding, StdRemoving
<1>6. CASE PopWriter(t)
  BY <1>1, <1>6
     DEF PopWriter, Typed, ListsTyped, Still, locks, history, Goto, Locations, Using, Adding,
         Removing, StdAdding, StdRemoving
<1>7. CASE ReportDone(t)
  BY <1>1, <1>7
     DEF ReportDone, Typed, ListsTyped, Still, locks, history, Goto, Locations, Using, Adding,
         Removing, StdAdding, StdRemoving
<1>8. CASE StdAcquireCall(t)
  BY <1>1, <1>8
     DEF StdAcquireCall, Typed, ListsTyped, Still, locks, history, Goto, Locations, Using, Adding,
         Removing, StdAdding, StdRemoving
<1>9. CASE StdAddSecond(t)
  BY <1>1, <1>9
     DEF StdAddSecond, Typed, ListsTyped, Still, locks, history, Goto, Locations, Using, Adding,
         Removing, StdAdding, StdRemoving
<1>10. CASE OwnAddSecond(t)
  BY <1>1, <1>10
     DEF OwnAddSecond, Typed, ListsTyped, Still, locks, history, Goto, Locations, Using, Adding,
         Removing, StdAdding, StdRemoving
<1>11. CASE StdRemoveOfTwo(t)
  BY <1>1, <1>11
     DEF StdRemoveOfTwo, Typed, ListsTyped, Still, locks, history, Goto, Locations, Using, Adding,
         Removing, StdAdding, StdRemoving
<1>12. CASE OwnRemoveOfTwo(t)
  BY <1>1, <1>12
     DEF OwnRemoveOfTwo, Typed, ListsTyped, Still, locks, history, Goto, Locations, Using, Adding,
         Removing, StdAdding, StdRemoving
<1>13. CASE StdRelease(t)
  BY <1>1, <1>13, LocksTyped
     DEF StdRelease, Typed, ListsTyped, Still, history, Goto, Locations, Using, Adding, Removing,
         StdAdding, StdRemoving
<1>14. CASE StdAcquireUnsafe(t)
  <2>1. cnt[Std] \in Int /\ cnt[Std] + 1 \in Int /\ 1 \in Int
    BY <1>1 DEF Typed
  <2>2. cnt' \in [SmartLocks -> Int]
    BY <1>1, <1>14, <2>1 DEF StdAcquireUnsafe, Typed
  <2> QED
    BY <1>1, <1>14, <2>2
       DEF StdAcquireUnsafe, Typed, ListsTyped, Still, history, Goto, Locations, Using, Adding,
           Removing, StdAdding, StdRemoving
<1>15. CASE StdAcquireSafe(t)
  <2>1. cnt[Std] \in Int /\ cnt[Std] + 1 \in Int /\ 1 \in Int
    BY <1>1 DEF Typed
  <2>2. cnt' \in [SmartLocks -> Int]
    BY <1>1, <1>15, <2>1 DEF StdAcquireSafe, Typed
  <2> QED
    BY <1>1, <1>15, <2>2
       DEF StdAcquireSafe, Typed, ListsTyped, Still, history, Goto, Locations, Using, Adding,
           Removing, StdAdding, StdRemoving
<1>16. CASE \E g \in Loggers : AddCall(t, g)
  <2>1. PICK g \in Loggers : AddCall(t, g)
    BY <1>16
  <2>2. registrations[g] + 1 \in Int
    BY <1>1 DEF Typed
  <2>3. registrations' \in [Loggers -> Int] /\ crossed' \in SUBSET Loggers
    BY <1>1, <2>1, <2>2 DEF AddCall, Typed
  <2> QED
    BY <1>1, <2>1, <2>3
       DEF AddCall, Typed, ListsTyped, Still, locks, Goto, WorkOn, Locations, Using, Adding,
           Removing, StdAdding, StdRemoving
<1>17. CASE \E g \in Loggers : RemoveCall(t, g)
  BY <1>1, <1>17
     DEF RemoveCall, Typed, ListsTyped, Still, locks, history, Goto, WorkOn, Locations, Using,
         Adding, Removing, StdAdding, StdRemoving
<1>18. CASE \E g \in Loggers : Log(t, g)
  <2>1. PICK g \in Loggers : Log(t, g)
    BY <1>18
  <2>2. /\ owner' \in [SmartLocks -> Threads \cup {NoThread}]
        /\ cnt' \in [SmartLocks -> Int] /\ disturbed' \in BOOLEAN
    BY <1>1, <2>1, TakeTyped DEF Log
  <2> QED
    BY <1>1, <2>1, <2>2
       DEF Log, Typed, ListsTyped, Still, Goto, WorkOn, Locations, Using, Adding, Removing,
           StdAdding, StdRemoving
<1>19. CASE StdAddFirst(t)
  <2>1. pc[t] \in AddHolds /\ acquirers[Std][1] # Anonymous
    BY <1>19 DEF StdAddFirst, AddHolds, IInv, Switching
  <2>2. acquirers[Std][1] \in Loggers
    BY <2>1, FirstIsLogger
  <2>3. /\ owner' \in [SmartLocks -> Threads \cup {NoThread}]
        /\ cnt' \in [SmartLocks -> Int] /\ disturbed' \in BOOLEAN
    BY <1>1, <1>19, <2>2, TakeTyped DEF StdAddFirst
  <2> QED
    BY <1>1, <1>19, <2>3
       DEF StdAddFirst, Typed, ListsTyped, Still, Goto, Locations, Using, Adding, Removing,
           StdAdding, StdRemoving
<1>20. CASE StdRemoveOther(t)
  <2>1. pc[t] \in RemHolds /\ Remaining(Std, job[t]) # Anonymous
    BY <1>20 DEF StdRemoveOther, RemHolds, IInv, Switching
  <2>2. Remaining(Std, job[t]) \in Loggers
    BY <2>1, RemainingIsLogger
  <2>3. /\ owner' \in [SmartLocks -> Threads \cup {NoThread}]
        /\ cnt' \in [SmartLocks -> Int] /\ disturbed' \in BOOLEAN
    BY <1>1, <1>20, <2>2, TakeTyped DEF StdRemoveOther
  <2> QED
    BY <1>1, <1>20, <2>3
       DEF StdRemoveOther, Typed, ListsTyped, Still, Goto, Locations, Using, Adding, Removing,
           StdAdding, StdRemoving
<1>21. CASE LogDone(t)
  <2>1. job[t] \in Loggers /\ job[t] \in SmartLocks
    BY <1>1, <1>21 DEF LogDone, Typed, SmartLocks
  <2>2. /\ owner' \in [SmartLocks -> Threads \cup {NoThread}] /\ cnt' \in [SmartLocks -> Int]
    BY <1>1, <1>21, <2>1, LocksTyped DEF LogDone
  <2> QED
    BY <1>1, <1>21, <2>2
       DEF LogDone, Typed, ListsTyped, Still, history, Goto, WorkOn, Locations, Using, Adding,
           Removing, StdAdding, StdRemoving
<1>22. CASE StdAddPlain(t)
  <2>1. ListsTyped'
    <3>1. CASE Known(t)
      <4>1. acquirers' = acquirers
        BY <1>22, <3>1 DEF StdAddPlain
      <4> QED
        BY <1>1, <4>1 DEF Typed, ListsTyped
    <3>2. CASE ~Known(t)
      BY <1>22, <3>2, StdJoins
    <3> QED
      BY <3>1, <3>2
  <2> QED
    BY <1>1, <1>22, <2>1
       DEF StdAddPlain, Typed, Still, history, Goto, AfterStd, Locations, Using, Adding, Removing,
           StdAdding, StdRemoving
<1>23. CASE StdRemovePlain(t)
  <2>1. ListsTyped'
    <3>1. CASE ~Contains(acquirers[Std], job[t])
      <4>1. acquirers' = acquirers
        BY <1>23, <3>1, <1>1, StdSame DEF Typed
      <4> QED
        BY <1>1, <4>1 DEF Typed, ListsTyped
    <3>2. CASE Contains(acquirers[Std], job[t])
      BY <1>23, <3>2, StdLeaves
    <3> QED
      BY <3>1, <3>2
  <2> QED
    BY <1>1, <1>23, <2>1
       DEF StdRemovePlain, Typed, Still, history, Goto, AfterStd, Locations, Using, Adding,
           Removing, StdAdding, StdRemoving
<1>24. CASE StdAddSwitch(t)
  <2>1. ListsTyped'
    BY <1>24, StdJoins
  <2>2. /\ safe' \in [SmartLocks -> BOOLEAN]
        /\ owner' \in [SmartLocks -> Threads \cup {NoThread}] /\ cnt' \in [SmartLocks -> Int]
    <3>1. safe' \in [SmartLocks -> BOOLEAN]
      BY <1>1, <1>24, LocksTyped DEF StdAddSwitch
    <3>2. CASE acquirers[Std][1] = Anonymous
      BY <1>1, <1>24, <3>1, <3>2 DEF StdAddSwitch, Typed
    <3>3. CASE acquirers[Std][1] # Anonymous
      <4>1. acquirers[Std][1] \in Loggers /\ acquirers[Std][1] \in SmartLocks
        BY <1>24, <3>3, FirstIsLogger DEF StdAddSwitch, AddHolds, SmartLocks
      <4> QED
        BY <1>1, <1>24, <3>1, <3>3, <4>1, LocksTyped DEF StdAddSwitch
    <3> QED
      BY <3>2, <3>3
  <2> QED
    BY <1>1, <1>24, <2>1, <2>2
       DEF StdAddSwitch, Typed, Still, history, Goto, AfterStd, Locations, Using, Adding,
           Removing, StdAdding, StdRemoving
<1>25. CASE StdRemoveSwitch(t)
  <2>1. ListsTyped'
    BY <1>25, StdLeaves
  <2>2. /\ safe' \in [SmartLocks -> BOOLEAN]
        /\ owner' \in [SmartLocks -> Threads \cup {NoThread}] /\ cnt' \in [SmartLocks -> Int]
    <3>1. safe' \in [SmartLocks -> BOOLEAN]
      BY <1>1, <1>25, LocksTyped DEF StdRemoveSwitch
    <3>2. CASE Remaining(Std, job[t]) = Anonymous
      BY <1>1, <1>25, <3>1, <3>2 DEF StdRemoveSwitch, Typed
    <3>3. CASE Remaining(Std, job[t]) # Anonymous
      <4>1. Remaining(Std, job[t]) \in Loggers /\ Remaining(Std, job[t]) \in SmartLocks
        BY <1>25, <3>3, RemainingIsLogger DEF StdRemoveSwitch, RemHolds, SmartLocks
      <4> QED
        BY <1>1, <1>25, <3>1, <3>3, <4>1, LocksTyped DEF StdRemoveSwitch
    <3> QED
      BY <3>2, <3>3
  <2> QED
    BY <1>1, <1>25, <2>1, <2>2
       DEF StdRemoveSwitch, Typed, Still, history, Goto, AfterStd, Locations, Using, Adding,
           Removing, StdAdding, StdRemoving
<1>26. CASE OwnAddPlain(t)
  <2>1. ListsTyped'
    BY <1>26, OwnJoins
  <2> QED
    BY <1>1, <1>26, <2>1
       DEF OwnAddPlain, Typed, Still, history, Goto, WorkOn, Locations, Using, Adding, Removing,
           StdAdding, StdRemoving
<1>27. CASE OwnRemovePlain(t)
  <2>1. ListsTyped'
    BY <1>27, OwnLeaves
  <2> QED
    BY <1>1, <1>27, <2>1
       DEF OwnRemovePlain, Typed, Still, history, Goto, WorkOn, Locations, Using, Adding,
           Removing, StdAdding, StdRemoving
<1>28. CASE OwnAddFirst(t)
  <2>1. ListsTyped' /\ job[t] \in SmartLocks
    BY <1>28, OwnJoins DEF SmartLocks
  <2>2. safe' \in [SmartLocks -> BOOLEAN]
    BY <1>1, <1>28, <2>1, LocksTyped DEF OwnAddFirst
  <2> QED
    BY <1>1, <1>28, <2>1, <2>2
       DEF OwnAddFirst, Typed, Still, history, Goto, WorkOn, Locations, Using, Adding, Removing,
           StdAdding, StdRemoving
<1>29. CASE OwnRemoveOther(t)
  <2>1. ListsTyped' /\ job[t] \in SmartLocks
    BY <1>29, OwnLeaves DEF SmartLocks
  <2>2. safe' \in [SmartLocks -> BOOLEAN]
    BY <1>1, <1>29, <2>1, LocksTyped DEF OwnRemoveOther
  <2> QED
    BY <1>1, <1>29, <2>1, <2>2
       DEF OwnRemoveOther, Typed, Still, history, Goto, WorkOn, Locations, Using, Adding,
           Removing, StdAdding, StdRemoving
<1> QED
  BY <1>2, <1>3, <1>4, <1>5, <1>6, <1>7, <1>8, <1>9, <1>10, <1>11, <1>12, <1>13, <1>14,
     <1>15, <1>16, <1>17, <1>18, <1>19, <1>20, <1>21, <1>22, <1>23, <1>24, <1>25, <1>26,
     <1>27, <1>28, <1>29 DEF Step

(***************************************************************************)
(* Lists and holders.                                                      *)
(***************************************************************************)
\* A step leaves the lists alone, or one acquirer joins a list, or leaves it.
Changes(t) ==
    \/ acquirers' = acquirers
    \/ StdAddPlain(t) /\ Joined(Std, job[t])
    \/ StdAddSwitch(t) /\ Joined(Std, job[t])
    \/ StdRemovePlain(t) /\ Left(Std, job[t])
    \/ StdRemoveSwitch(t) /\ Left(Std, job[t])
    \/ (OwnAddPlain(t) \/ OwnAddFirst(t)) /\ job[t] \in Loggers /\ Joined(job[t], mine[t])
    \/ (OwnRemovePlain(t) \/ OwnRemoveOther(t)) /\ job[t] \in Loggers /\ Left(job[t], mine[t])

LEMMA ListsKept ==
    ASSUME IInv, NEW t \in Threads, Step(t)
    PROVE  Lists' /\ Changes(t)
<1>1. CASE acquirers' = acquirers
  BY <1>1 DEF IInv, Lists, Changes
<1>2. CASE StdAddPlain(t)
  <2>1. CASE Known(t)
    BY <1>1, <1>2, <2>1 DEF StdAddPlain
  <2>2. CASE ~Known(t)
    BY <1>2, <2>2, StdJoins DEF Changes
  <2> QED
    BY <2>1, <2>2
<1>3. CASE StdAddSwitch(t)
  BY <1>3, StdJoins DEF Changes
<1>4. CASE StdRemovePlain(t)
  <2>1. CASE Contains(acquirers[Std], job[t])
    BY <1>4, <2>1, StdLeaves DEF Changes
  <2>2. CASE ~Contains(acquirers[Std], job[t])
    BY <1>1, <1>4, <2>2, StdSame DEF IInv, Typed
  <2> QED
    BY <2>1, <2>2
<1>5. CASE StdRemoveSwitch(t)
  BY <1>5, StdLeaves DEF Changes
<1>6. CASE OwnAddPlain(t) \/ OwnAddFirst(t)
  BY <1>6, OwnJoins DEF Changes
<1>7. CASE OwnRemovePlain(t) \/ OwnRemoveOther(t)
  BY <1>7, OwnLeaves DEF Changes
<1>8. ASSUME ~(StdAddPlain(t) \/ StdAddSwitch(t) \/ StdRemovePlain(t) \/ StdRemoveSwitch(t)),
             ~(OwnAddPlain(t) \/ OwnAddFirst(t) \/ OwnRemovePlain(t) \/ OwnRemoveOther(t))
      PROVE  acquirers' = acquirers
  BY <1>8
     DEF Step, AcquireLox, ReleaseLox, Log, AddCall, RemoveCall, Report, PushWriter, PopWriter,
         ReportDone, StdAcquireCall, StdAcquireUnsafe, StdAcquireSafe, StdRelease, LogDone,
         StdAddSecond, StdAddFirst, OwnAddSecond, StdRemoveOfTwo, StdRemoveOther,
         OwnRemoveOfTwo, locks
<1> QED
  BY <1>1, <1>2, <1>3, <1>4, <1>5, <1>6, <1>7, <1>8

\* A Lox and Report::lock have one holder, ALIB::Lock the thread that is at the places for it.
LEMMA HeldKept ==
    ASSUME IInv, NEW t \in Threads, Step(t)
    PROVE  Held'
<1>1. Typed /\ Held /\ Typed' /\ Still(t) /\ NoThread \notin Threads
  BY TypedKept, NamesAssumption DEF IInv
<1>2. CASE \E l \in Loxes : AcquireLox(t, l)
  BY <1>1, <1>2
     DEF AcquireLox, Held, Typed, Still, Reporting, Holder, locks, history, Goto, WorkOn,
         AfterStd, Holding, AddHolds, RemHolds, OwnStages, Using, Adding, Removing, StdAdding,
         StdRemoving
<1>3. CASE ReleaseLox(t)
  BY <1>1, <1>3
     DEF ReleaseLox, Held, Typed, Still, Reporting, Holder, locks, history, Goto, WorkOn,
         AfterStd, Holding, AddHolds, RemHolds, OwnStages, Using, Adding, Removing, StdAdding,
         StdRemoving
<1>4. CASE \E g \in Loggers : Log(t, g)
  <2>1. /\ pc[t] = "idle" /\ pc'[t] \notin {"idle"} \cup Holding
        /\ UNCHANGED <<mine, alibLock>> /\ job'[t] \in Loggers /\ job'[t] # Anonymous
    BY <1>1, <1>4, NamesAssumption
       DEF Log, Typed, locks, Goto, WorkOn, Holding, AddHolds, RemHolds, OwnStages
  <2> QED
    BY <1>1, <2>1 DEF Held, Typed, Still, Reporting, Holding, AddHolds, RemHolds, OwnStages
<1>5. CASE \E g \in Loggers : AddCall(t, g)
  <2>1. /\ pc[t] = "idle" /\ pc'[t] \notin {"idle"} \cup Holding
        /\ UNCHANGED <<mine, alibLock>> /\ job'[t] \in Loggers /\ job'[t] # Anonymous
    BY <1>1, <1>5, NamesAssumption
       DEF AddCall, Typed, locks, Goto, WorkOn, Holding, AddHolds, RemHolds, OwnStages
  <2> QED
    BY <1>1, <2>1 DEF Held, Typed, Still, Reporting, Holding, AddHolds, RemHolds, OwnStages
<1>6. CASE \E g \in Loggers : RemoveCall(t, g)
  <2>1. /\ pc[t] = "idle" /\ pc'[t] \notin {"idle"} \cup Holding
        /\ UNCHANGED <<mine, alibLock>> /\ job'[t] \in Loggers /\ job'[t] # Anonymous
    BY <1>1, <1>6, NamesAssumption
       DEF RemoveCall, Typed, locks, Goto, WorkOn, Holding, AddHolds, RemHolds, OwnStages
  <2> QED
    BY <1>1, <2>1 DEF Held, Typed, Still, Reporting, Holding, AddHolds, RemHolds, OwnStages
<1>7. CASE Report(t)
  BY <1>1, <1>7
     DEF Report, Held, Typed, Still, Reporting, Holder, locks, history, Goto, WorkOn, AfterStd,
         Holding, AddHolds, RemHolds, OwnStages, Using, Adding, Removing, StdAdding, StdRemoving
<1>8. CASE PushWriter(t)
  BY <1>1, <1>8
     DEF PushWriter, Held, Typed, Still, Reporting, Holder, locks, history, Goto, WorkOn,
         AfterStd, Holding, AddHolds, RemHolds, OwnStages, Using, Adding, Removing, StdAdding,
         StdRemoving
<1>9. CASE PopWriter(t)
  BY <1>1, <1>9
     DEF PopWriter, Held, Typed, Still, Reporting, Holder, locks, history, Goto, WorkOn, AfterStd,
         Holding, AddHolds, RemHolds, OwnStages, Using, Adding, Removing, StdAdding, StdRemoving
<1>10. CASE ReportDone(t)
  BY <1>1, <1>10
     DEF ReportDone, Held, Typed, Still, Reporting, Holder, locks, history, Goto, WorkOn,
         AfterStd, Holding, AddHolds, RemHolds, OwnStages, Using, Adding, Removing, StdAdding,
         StdRemoving
<1>11. CASE StdAcquireCall(t)
  BY <1>1, <1>11
     DEF StdAcquireCall, Held, Typed, Still, Reporting, Holder, locks, history, Goto, WorkOn,
         AfterStd, Holding, AddHolds, RemHolds, OwnStages, Using, Adding, Removing, StdAdding,
         StdRemoving
<1>12. CASE StdAcquireUnsafe(t)
  BY <1>1, <1>12
     DEF StdAcquireUnsafe, Held, Typed, Still, Reporting, Holder, locks, history, Goto, WorkOn,
         AfterStd, Holding, AddHolds, RemHolds, OwnStages, Using, Adding, Removing, StdAdding,
         StdRemoving
<1>13. CASE StdAcquireSafe(t)
  BY <1>1, <1>13
     DEF StdAcquireSafe, Held, Typed, Still, Reporting, Holder, locks, history, Goto, WorkOn,
         AfterStd, Holding, AddHolds, RemHolds, OwnStages, Using, Adding, Removing, StdAdding,
         StdRemoving
<1>14. CASE StdRelease(t)
  BY <1>1, <1>14
     DEF StdRelease, Held, Typed, Still, Reporting, Holder, locks, history, Goto, WorkOn,
         AfterStd, Holding, AddHolds, RemHolds, OwnStages, Using, Adding, Removing, StdAdding,
         StdRemoving
<1>15. CASE LogDone(t)
  BY <1>1, <1>15
     DEF LogDone, Held, Typed, Still, Reporting, Holder, locks, history, Goto, WorkOn, AfterStd,
         Holding, AddHolds, RemHolds, OwnStages, Using, Adding, Removing, StdAdding, StdRemoving
<1>16. CASE StdAddPlain(t)
  BY <1>1, <1>16
     DEF StdAddPlain, Held, Typed, Still, Reporting, Holder, locks, history, Goto, WorkOn,
         AfterStd, Holding, AddHolds, RemHolds, OwnStages, Using, Adding, Removing, StdAdding,
         StdRemoving
<1>17. CASE StdAddSecond(t)
  BY <1>1, <1>17
     DEF StdAddSecond, Held, Typed, Still, Reporting, Holder, locks, history, Goto, WorkOn,
         AfterStd, Holding, AddHolds, RemHolds, OwnStages, Using, Adding, Removing, StdAdding,
         StdRemoving
<1>18. CASE StdAddFirst(t)
  BY <1>1, <1>18
     DEF StdAddFirst, Held, Typed, Still, Reporting, Holder, locks, history, Goto, WorkOn,
         AfterStd, Holding, AddHolds, RemHolds, OwnStages, Using, Adding, Removing, StdAdding,
         StdRemoving
<1>19. CASE StdAddSwitch(t)
  BY <1>1, <1>19
     DEF StdAddSwitch, Held, Typed, Still, Reporting, Holder, locks, history, Goto, WorkOn,
         AfterStd, Holding, AddHolds, RemHolds, OwnStages, Using, Adding, Removing, StdAdding,
         StdRemoving
<1>20. CASE OwnAddPlain(t)
  BY <1>1, <1>20
     DEF OwnAddPlain, Held, Typed, Still, Reporting, Holder, locks, history, Goto, WorkOn,
         AfterStd, Holding, AddHolds, RemHolds, OwnStages, Using, Adding, Removing, StdAdding,
         StdRemoving
<1>21. CASE OwnAddSecond(t)
  BY <1>1, <1>21
     DEF OwnAddSecond, Held, Typed, Still, Reporting, Holder, locks, history, Goto, WorkOn,
         AfterStd, Holding, AddHolds, RemHolds, OwnStages, Using, Adding, Removing, StdAdding,
         StdRemoving
<1>22. CASE OwnAddFirst(t)
  BY <1>1, <1>22
     DEF OwnAddFirst, Held, Typed, Still, Reporting, Holder, locks, history, Goto, WorkOn,
         AfterStd, Holding, AddHolds, RemHolds, OwnStages, Using, Adding, Removing, StdAdding,
         StdRemoving
<1>23. CASE StdRemovePlain(t)
  BY <1>1, <1>23
     DEF StdRemovePlain, Held, Typed, Still, Reporting, Holder, locks, history, Goto, WorkOn,
         AfterStd, Holding, AddHolds, RemHolds, OwnStages, Using, Adding, Removing, StdAdding,
         StdRemoving
<1>24. CASE StdRemoveOfTwo(t)
  BY <1>1, <1>24
     DEF StdRemoveOfTwo, Held, Typed, Still, Reporting, Holder, locks, history, Goto, WorkOn,
         AfterStd, Holding, AddHolds, RemHolds, OwnStages, Using, Adding, Removing, StdAdding,
         StdRemoving
<1>25. CASE StdRemoveOther(t)
  BY <1>1, <1>25
     DEF StdRemoveOther, Held, Typed, Still, Reporting, Holder, locks, history, Goto, WorkOn,
         AfterStd, Holding, AddHolds, RemHolds, OwnStages, Using, Adding, Removing, StdAdding,
         StdRemoving
<1>26. CASE StdRemoveSwitch(t)
  BY <1>1, <1>26
     DEF StdRemoveSwitch, Held, Typed, Still, Reporting, Holder, locks, history, Goto, WorkOn,
         AfterStd, Holding, AddHolds, RemHolds, OwnStages, Using, Adding, Removing, StdAdding,
         StdRemoving
<1>27. CASE OwnRemovePlain(t)
  BY <1>1, <1>27
     DEF OwnRemovePlain, Held, Typed, Still, Reporting, Holder, locks, history, Goto, WorkOn,
         AfterStd, Holding, AddHolds, RemHolds, OwnStages, Using, Adding, Removing, StdAdding,
         StdRemoving
<1>28. CASE OwnRemoveOfTwo(t)
  BY <1>1, <1>28
     DEF OwnRemoveOfTwo, Held, Typed, Still, Reporting, Holder, locks, history, Goto, WorkOn,
         AfterStd, Holding, AddHolds, RemHolds, OwnStages, Using, Adding, Removing, StdAdding,
         StdRemoving
<1>29. CASE OwnRemoveOther(t)
  BY <1>1, <1>29
     DEF OwnRemoveOther, Held, Typed, Still, Reporting, Holder, locks, history, Goto, WorkOn,
         AfterStd, Holding, AddHolds, RemHolds, OwnStages, Using, Adding, Removing, StdAdding,
         StdRemoving
<1> QED
  BY <1>2, <1>3, <1>4, <1>5, <1>6, <1>7, <1>8, <1>9, <1>10, <1>11, <1>12, <1>13, <1>14,
     <1>15, <1>16, <1>17, <1>18, <1>19, <1>20, <1>21, <1>22, <1>23, <1>24, <1>25, <1>26,
     <1>27, <1>28, <1>29 DEF Step

\* A Lox that a thread works with keeps its place in the list of the logger until that thread takes
\* it away.
LEMMA WorkingKept ==
    ASSUME IInv, NEW t \in Threads, Step(t)
    PROVE  Working'
<1>1. Typed /\ Held /\ Working /\ Typed' /\ Still(t)
  BY TypedKept DEF IInv
<1>2. ASSUME NEW g \in Loggers, NEW u \in Threads \ {t}, job[u] = g
      PROVE  /\ pc[u] \in Adding /\ ~Attached(g, mine[u]) => ~Attached(g, mine[u])'
             /\ pc[u] \in Logs \cup Removing /\ Attached(g, mine[u]) => Attached(g, mine[u])'
  <2>1. mine'[u] = mine[u] /\ g \in SmartLocks /\ g # Std /\ g # Anonymous
    BY <1>1, <1>2, NamesAssumption DEF Still, SmartLocks
  <2>2. CASE acquirers'[g] = acquirers[g]
    BY <2>1, <2>2 DEF Attached
  <2>3. CASE job[t] = g /\ mine[t] # mine[u] /\ (Joined(g, mine[t]) \/ Left(g, mine[t]))
    BY <2>1, <2>3 DEF Attached, Joined, Left
  <2>4. CASE ~(acquirers'[g] = acquirers[g])
    <3>1. /\ pc[t] \in Adding \cup Removing /\ job[t] \in Loggers
          /\ Joined(job[t], mine[t]) \/ Left(job[t], mine[t])
      BY <2>1, <2>4, ListsKept
         DEF Changes, OwnAddPlain, OwnAddFirst, OwnRemovePlain, OwnRemoveOther, Joined, Left,
             OthersKept, Adding, Removing
    <3>2. job[t] = g /\ job[t] # Anonymous
      BY <2>1, <2>4, <3>1 DEF Joined, Left, OthersKept
    <3>3. mine[t] \in Loxes
      <4>1. CASE pc[t] \in Adding
        BY <1>1, <3>2, <4>1, NamesAssumption DEF Working
      <4>2. CASE pc[t] \in Removing
        <5>1. Contains(acquirers[g], mine[t]) /\ acquirers[g] \in Seq(LoxesOf[g])
          BY <1>1, <3>2, <4>2 DEF Working, Attached, Typed, ListsTyped
        <5>2. mine[t] \in LoxesOf[g]
          BY <5>1, OneContained
        <5> QED
          BY <5>2, NamesAssumption
      <4> QED
        BY <3>1, <4>1, <4>2
    <3>4. mine[t] # mine[u]
      BY <1>1, <1>2, <3>3, NamesAssumption DEF Held
    <3> QED
      BY <2>3, <3>1, <3>2, <3>4
  <2> QED
    BY <2>2, <2>4
<1>3. ASSUME NEW u \in Threads \ {t}, job'[u] # Anonymous
      PROVE  /\ pc'[u] \in Adding => mine'[u] \in LoxesOf[job'[u]] /\ ~Attached(job[u], mine[u])'
             /\ pc'[u] \in Logs \cup Removing => Attached(job[u], mine[u])'
  <2>1. job'[u] = job[u] /\ pc'[u] = pc[u] /\ mine'[u] = mine[u] /\ job[u] \in Loggers
    BY <1>1, <1>3 DEF Still, Typed
  <2> QED
    BY <1>1, <1>2, <1>3, <2>1 DEF Working
<1>4. ASSUME job'[t] # Anonymous
      PROVE  /\ pc'[t] \in Adding => mine'[t] \in LoxesOf[job'[t]] /\ ~Attached(job[t], mine[t])'
             /\ pc'[t] \in Logs \cup Removing => Attached(job[t], mine[t])'
  <2>1. CASE \E g \in Loggers : Log(t, g)
    BY <1>1, <2>1 DEF Log, Attached, Goto, WorkOn, Typed, Logs, InStd, Using, Adding, StdAdding
  <2>2. CASE \E g \in Loggers : AddCall(t, g)
    BY <1>1, <2>2
       DEF AddCall, Attached, Goto, WorkOn, Typed, locks, Logs, InStd, Using, Adding, Removing,
           StdAdding, StdRemoving
  <2>3. CASE \E g \in Loggers : RemoveCall(t, g)
    BY <1>1, <2>3
       DEF RemoveCall, Attached, Goto, WorkOn, Typed, locks, Logs, InStd, Using, Adding, Removing,
           StdAdding, StdRemoving
  <2>4. CASE OwnAddPlain(t) \/ OwnAddFirst(t) \/ OwnRemovePlain(t) \/ OwnRemoveOther(t) \/ LogDone(t)
    BY <1>1, <1>4, <2>4
       DEF OwnAddPlain, OwnAddFirst, OwnRemovePlain, OwnRemoveOther, LogDone, WorkOn, Typed
  <2>5. ASSUME ~(\E g \in Loggers : Log(t, g) \/ AddCall(t, g) \/ RemoveCall(t, g)),
               ~(OwnAddPlain(t) \/ OwnAddFirst(t) \/ OwnRemovePlain(t) \/ OwnRemoveOther(t)),
               ~LogDone(t)
        PROVE  /\ job'[t] = job[t] /\ acquirers'[job[t]] = acquirers[job[t]]
               /\ pc[t] # "idle" /\ mine'[t] = mine[t]
               /\ pc'[t] \in Adding => pc[t] \in Adding
               /\ pc'[t] \in Logs \cup Removing => pc[t] \in Logs \cup Removing
    <3>1. /\ job' = job /\ job[t] \in Loggers /\ job[t] \in SmartLocks /\ job[t] # Std
          /\ pc[t] # "idle"
      <4>1. job' = job
        BY <2>5
           DEF Step, AcquireLox, ReleaseLox, Report, PushWriter, PopWriter, ReportDone,
               StdAcquireCall, StdAcquireUnsafe, StdAcquireSafe, StdRelease, StdAddPlain,
               StdAddSecond, StdAddFirst, StdAddSwitch, OwnAddSecond, StdRemovePlain,
               StdRemoveOfTwo, StdRemoveOther, StdRemoveSwitch, OwnRemoveOfTwo
      <4> QED
        BY <1>1, <1>4, <4>1, NamesAssumption DEF Typed, Held, SmartLocks
    <3>2. acquirers'[job[t]] = acquirers[job[t]]
      BY <2>5, <3>1, ListsKept DEF Changes, Joined, Left, OthersKept
    <3>3. /\ mine'[t] = mine[t]
          /\ pc'[t] \in Adding => pc[t] \in Adding
          /\ pc'[t] \in Logs \cup Removing => pc[t] \in Logs \cup Removing
      <4>1. CASE StdAcquireCall(t)
        BY <1>1, <1>4, <3>1, <4>1
           DEF StdAcquireCall, Typed, Goto, AfterStd, Logs, InStd, Using, Adding, Removing,
               StdAdding, StdRemoving
      <4>2. CASE StdAcquireUnsafe(t)
        BY <1>1, <1>4, <3>1, <4>2
           DEF StdAcquireUnsafe, Typed, Goto, AfterStd, Logs, InStd, Using, Adding, Removing,
               StdAdding, StdRemoving
      <4>3. CASE StdAcquireSafe(t)
        BY <1>1, <1>4, <3>1, <4>3
           DEF StdAcquireSafe, Typed, Goto, AfterStd, Logs, InStd, Using, Adding, Removing,
               StdAdding, StdRemoving
      <4>4. CASE StdRelease(t)
        BY <1>1, <1>4, <3>1, <4>4
           DEF StdRelease, Typed, Goto, AfterStd, Logs, InStd, Using, Adding, Removing, StdAdding,
               StdRemoving
      <4>5. CASE StdAddPlain(t)
        BY <1>1, <1>4, <3>1, <4>5
           DEF StdAddPlain, Typed, Goto, AfterStd, Logs, InStd, Using, Adding, Removing,
               StdAdding, StdRemoving
      <4>6. CASE StdAddSecond(t)
        BY <1>1, <1>4, <3>1, <4>6
           DEF StdAddSecond, Typed, Goto, AfterStd, Logs, InStd, Using, Adding, Removing,
               StdAdding, StdRemoving
      <4>7. CASE StdAddFirst(t)
        BY <1>1, <1>4, <3>1, <4>7
           DEF StdAddFirst, Typed, Goto, AfterStd, Logs, InStd, Using, Adding, Removing,
               StdAdding, StdRemoving
      <4>8. CASE StdAddSwitch(t)
        BY <1>1, <1>4, <3>1, <4>8
           DEF StdAddSwitch, Typed, Goto, AfterStd, Logs, InStd, Using, Adding, Removing,
               StdAdding, StdRemoving
      <4>9. CASE OwnAddSecond(t)
        BY <1>1, <1>4, <3>1, <4>9
           DEF OwnAddSecond, Typed, Goto, AfterStd, Logs, InStd, Using, Adding, Removing,
               StdAdding, StdRemoving
      <4>10. CASE StdRemovePlain(t)
        BY <1>1, <1>4, <3>1, <4>10
           DEF StdRemovePlain, Typed, Goto, AfterStd, Logs, InStd, Using, Adding, Removing,
               StdAdding, StdRemoving
      <4>11. CASE StdRemoveOfTwo(t)
        BY <1>1, <1>4, <3>1, <4>11
           DEF StdRemoveOfTwo, Typed, Goto, AfterStd, Logs, InStd, Using, Adding, Removing,
               StdAdding, StdRemoving
      <4>12. CASE StdRemoveOther(t)
        BY <1>1, <1>4, <3>1, <4>12
           DEF StdRemoveOther, Typed, Goto, AfterStd, Logs, InStd, Using, Adding, Removing,
               StdAdding, StdRemoving
      <4>13. CASE StdRemoveSwitch(t)
        BY <1>1, <1>4, <3>1, <4>13
           DEF StdRemoveSwitch, Typed, Goto, AfterStd, Logs, InStd, Using, Adding, Removing,
               StdAdding, StdRemoving
      <4>14. CASE OwnRemoveOfTwo(t)
        BY <1>1, <1>4, <3>1, <4>14
           DEF OwnRemoveOfTwo, Typed, Goto, AfterStd, Logs, InStd, Using, Adding, Removing,
               StdAdding, StdRemoving
      <4> QED
        BY <1>4, <2>5, <3>1, <4>1, <4>2, <4>3, <4>4, <4>5, <4>6, <4>7, <4>8, <4>9, <4>10,
           <4>11, <4>12, <4>13, <4>14
           DEF Step, AcquireLox, ReleaseLox, Report, PushWriter, PopWriter, ReportDone
    <3> QED
      BY <3>1, <3>2, <3>3
  <2>6. CASE ~(\/ \E g \in Loggers : Log(t, g) \/ AddCall(t, g) \/ RemoveCall(t, g)
              \/ OwnAddPlain(t) \/ OwnAddFirst(t) \/ OwnRemovePlain(t) \/ OwnRemoveOther(t)
              \/ LogDone(t))
    BY <1>1, <1>4, <2>5, <2>6 DEF Working, Attached
  <2> QED
    BY <2>1, <2>2, <2>3, <2>4, <2>6
<1> QED
  BY <1>3, <1>4 DEF Working, Attached

\* Nobody changes the list of StdOutputStreamsLock while another thread holds ALIB::Lock.
LEMMA StdListStill ==
    ASSUME IInv, NEW t \in Threads, Step(t), NEW u \in Threads \ {t}, pc[u] \in Holding
    PROVE  acquirers'[Std] = acquirers[Std]
<1>1. alibLock = u /\ u # NoThread /\ Std \in SmartLocks /\ Std \notin Loggers
  BY NamesAssumption DEF IInv, Held, SmartLocks
<1>2. pc[t] \notin Holding
  BY <1>1 DEF IInv, Held
<1>3. ~StdAddPlain(t) /\ ~StdRemovePlain(t) /\ ~StdAddSwitch(t) /\ ~StdRemoveSwitch(t)
  BY <1>1, <1>2
     DEF StdAddPlain, StdRemovePlain, StdAddSwitch, StdRemoveSwitch, Holding, AddHolds, RemHolds
<1>4. CASE acquirers' = acquirers
  BY <1>4
<1>5. CASE ~(acquirers' = acquirers)
  BY <1>1, <1>3, <1>5, ListsKept DEF Changes, Joined, Left, OthersKept
<1> QED
  BY <1>4, <1>5

LEMMA SwitchingKept ==
    ASSUME IInv, NEW t \in Threads, Step(t)
    PROVE  Switching'
<1>1. Typed /\ Held /\ Switching /\ Typed' /\ Still(t)
  BY TypedKept DEF IInv
<1> DEFINE For(u) ==
      /\ pc[u] \in AddHolds => Len(acquirers[Std]) = 1 /\ ~Contains(acquirers[Std], job[u])
      /\ pc[u] \in RemHolds => Len(acquirers[Std]) = 2 /\ Contains(acquirers[Std], job[u])
      /\ pc[u] = "stdAddFirst" => acquirers[Std][1] # Anonymous
      /\ pc[u] = "stdRemoveOther" => Remaining(Std, job[u]) # Anonymous
<1>2. ASSUME NEW u \in Threads \ {t}
      PROVE  For(u)'
  <2>1. For(u) /\ pc'[u] = pc[u] /\ job'[u] = job[u]
    BY <1>1 DEF Switching, Still
  <2>2. CASE pc[u] \in Holding
    BY <2>1, <2>2, StdListStill DEF Remaining
  <2>3. CASE pc[u] \notin Holding
    BY <2>1, <2>3 DEF Holding, AddHolds, RemHolds
  <2> QED
    BY <2>2, <2>3
<1>3. For(t)'
  <2>1. CASE StdAddSecond(t)
    <3>1. /\ acquirers' = acquirers /\ job' = job /\ ~Contains(acquirers[Std], job[t])
          /\ Len(acquirers[Std]) = 1
          /\ pc'[t] = IF acquirers[Std][1] = Anonymous THEN "stdAddSwitch" ELSE "stdAddFirst"
      BY <1>1, <2>1, Unlisted DEF StdAddSecond, locks, Goto, Typed, StdAdding
    <3> QED
      BY <3>1 DEF AddHolds, RemHolds
  <2>2. CASE StdRemoveOfTwo(t)
    <3>1. /\ acquirers' = acquirers /\ job' = job /\ Contains(acquirers[Std], job[t])
          /\ Len(acquirers[Std]) = 2
          /\ pc'[t] = IF Remaining(Std, job[t]) = Anonymous THEN "stdRemoveSwitch"
                                                            ELSE "stdRemoveOther"
      BY <1>1, <2>2 DEF StdRemoveOfTwo, locks, Goto, Typed
    <3> QED
      BY <3>1 DEF AddHolds, RemHolds, Remaining
  <2>3. CASE StdAddFirst(t)
    <3>1. /\ acquirers' = acquirers /\ job' = job /\ pc[t] \in AddHolds
          /\ pc'[t] = "stdAddSwitch"
      BY <1>1, <2>3 DEF StdAddFirst, locks, Goto, Typed, AddHolds
    <3> QED
      BY <1>1, <3>1 DEF Switching, AddHolds, RemHolds
  <2>4. CASE StdRemoveOther(t)
    <3>1. /\ acquirers' = acquirers /\ job' = job /\ pc[t] \in RemHolds
          /\ pc'[t] = "stdRemoveSwitch"
      BY <1>1, <2>4 DEF StdRemoveOther, locks, Goto, Typed, RemHolds
    <3> QED
      BY <1>1, <3>1 DEF Switching, AddHolds, RemHolds
  <2>5. ASSUME ~(StdAddSecond(t) \/ StdRemoveOfTwo(t) \/ StdAddFirst(t) \/ StdRemoveOther(t))
        PROVE  pc'[t] \notin AddHolds \cup RemHolds
    <3>1. CASE \E l \in Loxes : AcquireLox(t, l)
      BY <1>1, <3>1 DEF AcquireLox, Typed, Held, Goto, AfterStd, AddHolds, RemHolds, Holding
    <3>2. CASE ReleaseLox(t)
      BY <1>1, <3>2 DEF ReleaseLox, Typed, Held, Goto, AfterStd, AddHolds, RemHolds, Holding
    <3>3. CASE \E g \in Loggers : Log(t, g)
      BY <1>1, <3>3 DEF Log, Typed, Held, Goto, AfterStd, AddHolds, RemHolds, Holding
    <3>4. CASE \E g \in Loggers : AddCall(t, g)
      BY <1>1, <3>4 DEF AddCall, Typed, Held, Goto, AfterStd, AddHolds, RemHolds, Holding
    <3>5. CASE \E g \in Loggers : RemoveCall(t, g)
      BY <1>1, <3>5 DEF RemoveCall, Typed, Held, Goto, AfterStd, AddHolds, RemHolds, Holding
    <3>6. CASE Report(t)
      BY <1>1, <3>6 DEF Report, Typed, Held, Goto, AfterStd, AddHolds, RemHolds, Holding
    <3>7. CASE PushWriter(t)
      BY <1>1, <3>7 DEF PushWriter, Typed, Held, Goto, AfterStd, AddHolds, RemHolds, Holding
    <3>8. CASE PopWriter(t)
      BY <1>1, <3>8 DEF PopWriter, Typed, Held, Goto, AfterStd, AddHolds, RemHolds, Holding
    <3>9. CASE ReportDone(t)
      BY <1>1, <3>9 DEF ReportDone, Typed, Held, Goto, AfterStd, AddHolds, RemHolds, Holding
    <3>10. CASE StdAcquireCall(t)
      BY <1>1, <3>10 DEF StdAcquireCall, Typed, Held, Goto, AfterStd, AddHolds, RemHolds, Holding
    <3>11. CASE StdAcquireUnsafe(t)
      BY <1>1, <3>11
         DEF StdAcquireUnsafe, Typed, Held, Goto, AfterStd, AddHolds, RemHolds, Holding
    <3>12. CASE StdAcquireSafe(t)
      BY <1>1, <3>12 DEF StdAcquireSafe, Typed, Held, Goto, AfterStd, AddHolds, RemHolds, Holding
    <3>13. CASE StdRelease(t)
      BY <1>1, <3>13 DEF StdRelease, Typed, Held, Goto, AfterStd, AddHolds, RemHolds, Holding
    <3>14. CASE LogDone(t)
      BY <1>1, <3>14 DEF LogDone, Typed, Held, Goto, AfterStd, AddHolds, RemHolds, Holding
    <3>15. CASE StdAddPlain(t)
      BY <1>1, <3>15 DEF StdAddPlain, Typed, Held, Goto, AfterStd, AddHolds, RemHolds, Holding
    <3>16. CASE StdAddSwitch(t)
      BY <1>1, <3>16 DEF StdAddSwitch, Typed, Held, Goto, AfterStd, AddHolds, RemHolds, Holding
    <3>17. CASE OwnAddPlain(t)
      BY <1>1, <3>17 DEF OwnAddPlain, Typed, Held, Goto, AfterStd, AddHolds, RemHolds, Holding
    <3>18. CASE OwnAddSecond(t)
      BY <1>1, <3>18 DEF OwnAddSecond, Typed, Held, Goto, AfterStd, AddHolds, RemHolds, Holding
    <3>19. CASE OwnAddFirst(t)
      BY <1>1, <3>19 DEF OwnAddFirst, Typed, Held, Goto, AfterStd, AddHolds, RemHolds, Holding
    <3>20. CASE StdRemovePlain(t)
      BY <1>1, <3>20 DEF StdRemovePlain, Typed, Held, Goto, AfterStd, AddHolds, RemHolds, Holding
    <3>21. CASE StdRemoveSwitch(t)
      BY <1>1, <3>21 DEF StdRemoveSwitch, Typed, Held, Goto, AfterStd, AddHolds, RemHolds, Holding
    <3>22. CASE OwnRemovePlain(t)
      BY <1>1, <3>22 DEF OwnRemovePlain, Typed, Held, Goto, AfterStd, AddHolds, RemHolds, Holding
    <3>23. CASE OwnRemoveOfTwo(t)
      BY <1>1, <3>23 DEF OwnRemoveOfTwo, Typed, Held, Goto, AfterStd, AddHolds, RemHolds, Holding
    <3>24. CASE OwnRemoveOther(t)
      BY <1>1, <3>24 DEF OwnRemoveOther, Typed, Held, Goto, AfterStd, AddHolds, RemHolds, Holding
    <3> QED
      BY <2>5, <3>1, <3>2, <3>3, <3>4, <3>5, <3>6, <3>7, <3>8, <3>9, <3>10, <3>11, <3>12,
         <3>13, <3>14, <3>15, <3>16, <3>17, <3>18, <3>19, <3>20, <3>21, <3>22, <3>23, <3>24 DEF Step
  <2>6. CASE ~(StdAddSecond(t) \/ StdRemoveOfTwo(t) \/ StdAddFirst(t) \/ StdRemoveOther(t))
    BY <2>5, <2>6 DEF AddHolds, RemHolds
  <2> QED
    BY <2>1, <2>2, <2>3, <2>4, <2>6
<1> QED
  BY <1>2, <1>3 DEF Switching

(***************************************************************************)
(* The counters.                                                           *)
(***************************************************************************)
\* The threads at some places, when t moves.
LEMMA AtSame ==
    ASSUME NEW t \in Threads, Still(t), NEW g, NEW L,
           job[t] = g /\ pc[t] \in L <=> job'[t] = g /\ pc'[t] \in L
    PROVE  At(g, L)' = At(g, L)
BY DEF At, Still

LEMMA AtJoined ==
    ASSUME NEW t \in Threads, Still(t), NEW g, NEW L,
           ~(job[t] = g /\ pc[t] \in L), job'[t] = g, pc'[t] \in L
    PROVE  At(g, L)' = At(g, L) \cup {t} /\ t \notin At(g, L)
BY DEF At, Still

LEMMA AtLeft ==
    ASSUME NEW t \in Threads, Still(t), NEW g, NEW L,
           job[t] = g, pc[t] \in L, ~(job'[t] = g /\ pc'[t] \in L)
    PROVE  At(g, L)' = At(g, L) \ {t} /\ t \in At(g, L)
BY DEF At, Still

CountedFor(g) ==
    /\ IsFiniteSet(At(g, Adding)) /\ IsFiniteSet(At(g, Removing))
    /\ registrations[g] =
          Len(acquirers[g]) + Cardinality(At(g, Adding)) - Cardinality(At(g, Removing))

\* One more, or one less, of a finite set.
LEMMA OneMore ==
    ASSUME NEW S, NEW T, NEW x, IsFiniteSet(S), T = S \cup {x}, x \notin S
    PROVE  IsFiniteSet(T) /\ Cardinality(T) = Cardinality(S) + 1
BY FS_AddElement

LEMMA OneLess ==
    ASSUME NEW S, NEW T, NEW x, IsFiniteSet(S), T = S \ {x}, x \in S
    PROVE  IsFiniteSet(T) /\ Cardinality(T) = Cardinality(S) - 1
BY FS_RemoveElement

\* A thread that registers nothing new, and does not touch the list of g itself.
LEMMA CountedStill ==
    ASSUME NEW t \in Threads, Still(t), NEW g \in Loggers, CountedFor(g),
           registrations'[g] = registrations[g], acquirers'[g] = acquirers[g],
           job[t] = g /\ pc[t] \in Adding <=> job'[t] = g /\ pc'[t] \in Adding,
           job[t] = g /\ pc[t] \in Removing <=> job'[t] = g /\ pc'[t] \in Removing
    PROVE  CountedFor(g)'
<1>1. At(g, Adding)' = At(g, Adding) /\ At(g, Removing)' = At(g, Removing)
  BY AtSame
<1> QED
  BY <1>1 DEF CountedFor

\* The numbers in CountedFor.
LEMMA CountedNumbers ==
    ASSUME IInv, NEW g \in Loggers
    PROVE  /\ Len(acquirers[g]) \in Nat /\ registrations[g] \in Int
           /\ Cardinality(At(g, Adding)) \in Nat /\ Cardinality(At(g, Removing)) \in Nat
           /\ CountedFor(g)
<1>1. CountedFor(g)
  BY DEF IInv, Counted, CountedFor
<1>2. Len(acquirers[g]) \in Nat /\ registrations[g] \in Int
  BY ListTyped DEF IInv, Typed, SmartLocks
<1> QED
  BY <1>1, <1>2, FS_CardinalityType DEF CountedFor

LEMMA CountedKept ==
    ASSUME IInv, NEW t \in Threads, Step(t)
    PROVE  Counted'
<1>1. Typed /\ Held /\ Typed' /\ Still(t) /\ Anonymous \notin Loggers
  BY TypedKept, NamesAssumption DEF IInv
<1>2. ASSUME NEW g \in Loggers
      PROVE  g \in SmartLocks /\ g # Std /\ g # Anonymous /\ CountedFor(g)
  BY CountedNumbers, NamesAssumption DEF SmartLocks
<1>3. ASSUME NEW g \in Loggers, AddCall(t, g), NEW h \in Loggers
      PROVE  CountedFor(h)'
  <2>1. /\ pc[t] = "idle" /\ job'[t] = g /\ pc'[t] \in Adding /\ acquirers' = acquirers
        /\ registrations' = [registrations EXCEPT ![g] = registrations[g] + 1]
    BY <1>1, <1>3 DEF AddCall, Typed, Goto, WorkOn, locks, Adding, StdAdding
  <2>2. pc[t] \notin Adding \cup Removing /\ pc'[t] \notin Removing
    BY <2>1 DEF Adding, Removing, StdAdding, StdRemoving
  <2>3. CASE h = g
    <3>1. At(g, Adding)' = At(g, Adding) \cup {t} /\ t \notin At(g, Adding)
      BY <1>1, <2>1, <2>2, AtJoined
    <3>2. At(g, Removing)' = At(g, Removing)
      BY <1>1, <2>1, <2>2, AtSame
    <3>3. /\ IsFiniteSet(At(g, Adding)')
          /\ Cardinality(At(g, Adding)') = Cardinality(At(g, Adding)) + 1
      BY <1>2, <3>1, OneMore DEF CountedFor
    <3>4. registrations'[g] = registrations[g] + 1
      BY <1>1, <2>1 DEF Typed
    <3> QED
      BY <1>2, <2>1, <2>3, <3>2, <3>3, <3>4, CountedNumbers DEF CountedFor
  <2>4. CASE h # g
    BY <1>1, <1>2, <2>1, <2>2, <2>4, CountedStill DEF Typed
  <2> QED
    BY <2>3, <2>4
<1>4. ASSUME NEW g \in Loggers, RemoveCall(t, g), NEW h \in Loggers
      PROVE  CountedFor(h)'
  <2>1. /\ pc[t] = "idle" /\ job'[t] = g /\ pc'[t] \in Removing /\ acquirers' = acquirers
        /\ registrations' = [registrations EXCEPT ![g] = registrations[g] - 1]
    BY <1>1, <1>4 DEF RemoveCall, Typed, Goto, WorkOn, locks, Removing, StdRemoving
  <2>2. pc[t] \notin Adding \cup Removing /\ pc'[t] \notin Adding
    BY <2>1 DEF Adding, Removing, StdAdding, StdRemoving
  <2>3. CASE h = g
    <3>1. At(g, Removing)' = At(g, Removing) \cup {t} /\ t \notin At(g, Removing)
      BY <1>1, <2>1, <2>2, AtJoined
    <3>2. At(g, Adding)' = At(g, Adding)
      BY <1>1, <2>1, <2>2, AtSame
    <3>3. /\ IsFiniteSet(At(g, Removing)')
          /\ Cardinality(At(g, Removing)') = Cardinality(At(g, Removing)) + 1
      BY <1>2, <3>1, OneMore DEF CountedFor
    <3>4. registrations'[g] = registrations[g] - 1
      BY <1>1, <2>1 DEF Typed
    <3> QED
      BY <1>2, <2>1, <2>3, <3>2, <3>3, <3>4, CountedNumbers DEF CountedFor
  <2>4. CASE h # g
    BY <1>1, <1>2, <2>1, <2>2, <2>4, CountedStill DEF Typed
  <2> QED
    BY <2>3, <2>4
<1>5. ASSUME OwnAddPlain(t) \/ OwnAddFirst(t), NEW h \in Loggers
      PROVE  CountedFor(h)'
  <2>1. /\ job[t] \in Loggers /\ job'[t] = Anonymous /\ registrations' = registrations
        /\ pc[t] \in Adding /\ pc[t] \notin Removing /\ pc'[t] = "idle"
        /\ Joined(job[t], mine[t])
    BY <1>1, <1>5, OwnJoins
       DEF OwnAddPlain, OwnAddFirst, Typed, Goto, WorkOn, Adding, Removing, StdAdding, StdRemoving
  <2>2. CASE h = job[t]
    <3>1. At(h, Adding)' = At(h, Adding) \ {t} /\ t \in At(h, Adding)
      BY <1>1, <1>2, <2>1, <2>2, AtLeft
    <3>2. At(h, Removing)' = At(h, Removing)
      BY <1>1, <1>2, <2>1, <2>2, AtSame
    <3>3. /\ IsFiniteSet(At(h, Adding)')
          /\ Cardinality(At(h, Adding)') = Cardinality(At(h, Adding)) - 1
      BY <1>2, <3>1, OneLess DEF CountedFor
    <3>4. Len(acquirers'[h]) = Len(acquirers[h]) + 1
      BY <2>1, <2>2 DEF Joined
    <3> QED
      BY <1>2, <2>1, <3>2, <3>3, <3>4, CountedNumbers DEF CountedFor
  <2>3. CASE h # job[t]
    <3>1. acquirers'[h] = acquirers[h]
      BY <1>2, <2>1, <2>3 DEF Joined, OthersKept
    <3> QED
      BY <1>1, <1>2, <2>1, <2>3, <3>1, CountedStill
  <2> QED
    BY <2>2, <2>3
<1>6. ASSUME OwnRemovePlain(t) \/ OwnRemoveOther(t), NEW h \in Loggers
      PROVE  CountedFor(h)'
  <2>1. /\ job[t] \in Loggers /\ job'[t] = Anonymous /\ registrations' = registrations
        /\ pc[t] \in Removing /\ pc[t] \notin Adding /\ pc'[t] = "idle"
        /\ Left(job[t], mine[t])
    BY <1>1, <1>6, OwnLeaves
       DEF OwnRemovePlain, OwnRemoveOther, Typed, Goto, WorkOn, Adding, Removing, StdAdding,
           StdRemoving
  <2>2. CASE h = job[t]
    <3>1. At(h, Removing)' = At(h, Removing) \ {t} /\ t \in At(h, Removing)
      BY <1>1, <1>2, <2>1, <2>2, AtLeft
    <3>2. At(h, Adding)' = At(h, Adding)
      BY <1>1, <1>2, <2>1, <2>2, AtSame
    <3>3. /\ IsFiniteSet(At(h, Removing)')
          /\ Cardinality(At(h, Removing)') = Cardinality(At(h, Removing)) - 1
      BY <1>2, <3>1, OneLess DEF CountedFor
    <3>4. Len(acquirers'[h]) = Len(acquirers[h]) - 1
      BY <2>1, <2>2 DEF Left
    <3> QED
      BY <1>2, <2>1, <3>2, <3>3, <3>4, CountedNumbers DEF CountedFor
  <2>3. CASE h # job[t]
    <3>1. acquirers'[h] = acquirers[h]
      BY <1>2, <2>1, <2>3 DEF Left, OthersKept
    <3> QED
      BY <1>1, <1>2, <2>1, <2>3, <3>1, CountedStill
  <2> QED
    BY <2>2, <2>3
<1>7. ASSUME ~(\E g \in Loggers : AddCall(t, g) \/ RemoveCall(t, g)),
             ~(OwnAddPlain(t) \/ OwnAddFirst(t) \/ OwnRemovePlain(t) \/ OwnRemoveOther(t)),
             NEW h \in Loggers
      PROVE  CountedFor(h)'
  <2>1. acquirers'[h] = acquirers[h]
    BY <1>2, <1>7, ListsKept DEF Changes, Joined, Left, OthersKept
  <2>2. /\ registrations' = registrations
        /\ job[t] = h /\ pc[t] \in Adding <=> job'[t] = h /\ pc'[t] \in Adding
        /\ job[t] = h /\ pc[t] \in Removing <=> job'[t] = h /\ pc'[t] \in Removing
    <3>1. CASE \E l \in Loxes : AcquireLox(t, l)
      BY <1>1, <1>2, <3>1
         DEF AcquireLox, Typed, Held, Reporting, locks, Goto, WorkOn, AfterStd, Using, Adding,
             Removing, StdAdding, StdRemoving
    <3>2. CASE ReleaseLox(t)
      BY <1>1, <1>2, <3>2
         DEF ReleaseLox, Typed, Held, Reporting, locks, Goto, WorkOn, AfterStd, Using, Adding,
             Removing, StdAdding, StdRemoving
    <3>3. CASE \E g \in Loggers : Log(t, g)
      BY <1>1, <1>2, <3>3
         DEF Log, Typed, Held, Reporting, locks, Goto, WorkOn, AfterStd, Using, Adding, Removing,
             StdAdding, StdRemoving
    <3>4. CASE Report(t)
      BY <1>1, <1>2, <3>4
         DEF Report, Typed, Held, Reporting, locks, Goto, WorkOn, AfterStd, Using, Adding,
             Removing, StdAdding, StdRemoving
    <3>5. CASE PushWriter(t)
      BY <1>1, <1>2, <3>5
         DEF PushWriter, Typed, Held, Reporting, locks, Goto, WorkOn, AfterStd, Using, Adding,
             Removing, StdAdding, StdRemoving
    <3>6. CASE PopWriter(t)
      BY <1>1, <1>2, <3>6
         DEF PopWriter, Typed, Held, Reporting, locks, Goto, WorkOn, AfterStd, Using, Adding,
             Removing, StdAdding, StdRemoving
    <3>7. CASE ReportDone(t)
      BY <1>1, <1>2, <3>7
         DEF ReportDone, Typed, Held, Reporting, locks, Goto, WorkOn, AfterStd, Using, Adding,
             Removing, StdAdding, StdRemoving
    <3>8. CASE StdAcquireCall(t)
      BY <1>1, <1>2, <3>8
         DEF StdAcquireCall, Typed, Held, Reporting, locks, Goto, WorkOn, AfterStd, Using, Adding,
             Removing, StdAdding, StdRemoving
    <3>9. CASE StdAcquireUnsafe(t)
      BY <1>1, <1>2, <3>9
         DEF StdAcquireUnsafe, Typed, Held, Reporting, locks, Goto, WorkOn, AfterStd, Using,
             Adding, Removing, StdAdding, StdRemoving
    <3>10. CASE StdAcquireSafe(t)
      BY <1>1, <1>2, <3>10
         DEF StdAcquireSafe, Typed, Held, Reporting, locks, Goto, WorkOn, AfterStd, Using, Adding,
             Removing, StdAdding, StdRemoving
    <3>11. CASE StdRelease(t)
      BY <1>1, <1>2, <3>11
         DEF StdRelease, Typed, Held, Reporting, locks, Goto, WorkOn, AfterStd, Using, Adding,
             Removing, StdAdding, StdRemoving
    <3>12. CASE LogDone(t)
      BY <1>1, <1>2, <3>12
         DEF LogDone, Typed, Held, Reporting, locks, Goto, WorkOn, AfterStd, Using, Adding,
             Removing, StdAdding, StdRemoving
    <3>13. CASE StdAddPlain(t)
      BY <1>1, <1>2, <3>13
         DEF StdAddPlain, Typed, Held, Reporting, locks, Goto, WorkOn, AfterStd, Using, Adding,
             Removing, StdAdding, StdRemoving
    <3>14. CASE StdAddSecond(t)
      BY <1>1, <1>2, <3>14
         DEF StdAddSecond, Typed, Held, Reporting, locks, Goto, WorkOn, AfterStd, Using, Adding,
             Removing, StdAdding, StdRemoving
    <3>15. CASE StdAddFirst(t)
      BY <1>1, <1>2, <3>15
         DEF StdAddFirst, Typed, Held, Reporting, locks, Goto, WorkOn, AfterStd, Using, Adding,
             Removing, StdAdding, StdRemoving
    <3>16. CASE StdAddSwitch(t)
      BY <1>1, <1>2, <3>16
         DEF StdAddSwitch, Typed, Held, Reporting, locks, Goto, WorkOn, AfterStd, Using, Adding,
             Removing, StdAdding, StdRemoving
    <3>17. CASE OwnAddSecond(t)
      BY <1>1, <1>2, <3>17
         DEF OwnAddSecond, Typed, Held, Reporting, locks, Goto, WorkOn, AfterStd, Using, Adding,
             Removing, StdAdding, StdRemoving
    <3>18. CASE StdRemovePlain(t)
      BY <1>1, <1>2, <3>18
         DEF StdRemovePlain, Typed, Held, Reporting, locks, Goto, WorkOn, AfterStd, Using, Adding,
             Removing, StdAdding, StdRemoving
    <3>19. CASE StdRemoveOfTwo(t)
      BY <1>1, <1>2, <3>19
         DEF StdRemoveOfTwo, Typed, Held, Reporting, locks, Goto, WorkOn, AfterStd, Using, Adding,
             Removing, StdAdding, StdRemoving
    <3>20. CASE StdRemoveOther(t)
      BY <1>1, <1>2, <3>20
         DEF StdRemoveOther, Typed, Held, Reporting, locks, Goto, WorkOn, AfterStd, Using, Adding,
             Removing, StdAdding, StdRemoving
    <3>21. CASE StdRemoveSwitch(t)
      BY <1>1, <1>2, <3>21
         DEF StdRemoveSwitch, Typed, Held, Reporting, locks, Goto, WorkOn, AfterStd, Using,
             Adding, Removing, StdAdding, StdRemoving
    <3>22. CASE OwnRemoveOfTwo(t)
      BY <1>1, <1>2, <3>22
         DEF OwnRemoveOfTwo, Typed, Held, Reporting, locks, Goto, WorkOn, AfterStd, Using, Adding,
             Removing, StdAdding, StdRemoving
    <3> QED
      BY <1>7, <3>1, <3>2, <3>3, <3>4, <3>5, <3>6, <3>7, <3>8, <3>9, <3>10, <3>11, <3>12,
         <3>13, <3>14, <3>15, <3>16, <3>17, <3>18, <3>19, <3>20, <3>21, <3>22 DEF Step
  <2> QED
    BY <1>1, <1>2, <2>1, <2>2, CountedStill
<1>8. \A h \in Loggers : CountedFor(h)'
  BY <1>3, <1>4, <1>5, <1>6, <1>7
<1> QED
  BY <1>8 DEF Counted, CountedFor

(***************************************************************************)
(* Registration with StdOutputStreamsLock.                                 *)
(***************************************************************************)
\* Threads that hold different Loxes of a list are as many as it has elements, at most.
LEMMA AttachedMany ==
    ASSUME IInv, NEW g \in Loggers, NEW X \in SUBSET Threads, \A x \in X : Attached(g, mine[x])
    PROVE  IsFiniteSet(X) /\ Cardinality(X) <= Len(acquirers[g])
<1>1. PICK n \in Nat : n = Len(acquirers[g]) /\ DOMAIN acquirers[g] = 1..n
  <2>1. acquirers[g] \in Seq(LoxesOf[g])
    BY DEF IInv, Typed, ListsTyped
  <2> QED
    BY <2>1
<1>2. \A x \in X : \E i \in 1..n : acquirers[g][i] = mine[x]
  BY <1>1 DEF Attached, Contains
<1>3. \A x, y \in X : mine[x] = mine[y] => x = y
  <2>1. \A x \in X : mine[x] # NoLox
    <3>1. acquirers[g] \in Seq(LoxesOf[g]) /\ LoxesOf[g] \subseteq Loxes
      BY NamesAssumption DEF IInv, Typed, ListsTyped
    <3>2. \A x \in X : mine[x] \in LoxesOf[g]
      BY <3>1, OneContained DEF Attached
    <3> QED
      BY <3>1, <3>2, NamesAssumption
  <2> QED
    BY <2>1 DEF IInv, Held
<1> DEFINE f == [x \in X |-> CHOOSE i \in 1..n : acquirers[g][i] = mine[x]]
<1>4. \A x \in X : f[x] \in 1..n /\ acquirers[g][f[x]] = mine[x]
  BY <1>2
<1>5. f \in Injection(X, 1..n)
  BY <1>3, <1>4 DEF Injection, IsInjective
<1>6. IsFiniteSet(1..n) /\ Cardinality(1..n) = n
  BY FS_Interval
<1> QED
  BY <1>1, <1>5, <1>6, FS_Injection

\* The counter of a logger stays above what is about to be added to it, and above the number of
\* threads that hold an attached Lox and do not remove it.
LEMMA Remainder ==
    ASSUME IInv, NEW g \in Loggers, NEW X \in SUBSET Threads, \A x \in X : Attached(g, mine[x]),
           X \cap At(g, Removing) = {}
    PROVE  IsFiniteSet(X) /\ registrations[g] >= Cardinality(X) + Cardinality(At(g, Adding))
<1>1. PICK R \in SUBSET Threads : R = At(g, Removing)
  BY DEF At
<1>2. \A x \in R : Attached(g, mine[x])
  BY <1>1, NamesAssumption DEF At, IInv, Working
<1>3. /\ IsFiniteSet(X) /\ IsFiniteSet(R)
      /\ IsFiniteSet(X \cup R) /\ Cardinality(X \cup R) <= Len(acquirers[g])
  BY <1>2, AttachedMany
<1>4. Cardinality(X \cup R) = Cardinality(X) + Cardinality(R)
  BY <1>1, <1>3, FS_Union, FS_EmptySet, FS_CardinalityType
<1>5. Cardinality(X) \in Nat /\ Cardinality(R) \in Nat
  BY <1>3, FS_CardinalityType
<1> QED
  BY <1>1, <1>3, <1>4, <1>5, CountedNumbers DEF CountedFor

\* So the counter is not negative; it is not zero while someone adds to it or uses the logger;
\* and the one that removes the last one is alone.
LEMMA NotNegative ==
    ASSUME IInv, NEW g \in Loggers
    PROVE  registrations[g] >= 0 /\ (At(g, Adding) # {} => registrations[g] > 0)
<1>1. registrations[g] >= 0 + Cardinality(At(g, Adding))
  BY Remainder, FS_EmptySet
<1>2. /\ Cardinality(At(g, Adding)) \in Nat /\ registrations[g] \in Int
      /\ At(g, Adding) # {} => Cardinality(At(g, Adding)) # 0
  BY CountedNumbers, FS_EmptySet DEF CountedFor
<1> QED
  BY <1>1, <1>2

LEMMA InUse ==
    ASSUME IInv, NEW g \in Loggers, NEW t \in Threads, Attached(g, mine[t]),
           t \notin At(g, Removing)
    PROVE  registrations[g] > 0
<1>1. registrations[g] >= Cardinality({t}) + Cardinality(At(g, Adding))
  BY Remainder
<1> QED
  <2>1. registrations[g] \in Int /\ Cardinality(At(g, Adding)) \in Nat /\ Cardinality({t}) = 1
    BY FS_Singleton, CountedNumbers
  <2> QED
    BY <1>1, <2>1

LEMMA LastIsAlone ==
    ASSUME IInv, NEW g \in Loggers, NEW t \in Threads, Attached(g, mine[t]),
           t \notin At(g, Removing), registrations[g] = 1
    PROVE  At(g, Adding) = {} /\ At(g, Logs) \subseteq {t}
<1>1. At(g, Adding) = {}
  <2>1. registrations[g] >= Cardinality({t}) + Cardinality(At(g, Adding))
    BY Remainder
  <2>2. Cardinality({t}) = 1
    BY FS_Singleton
  <2>3. 1 >= 1 + Cardinality(At(g, Adding))
    BY <2>1, <2>2
  <2> QED
    BY <2>3, CountedNumbers, FS_EmptySet DEF CountedFor
<1>2. ASSUME NEW u \in At(g, Logs), u # t
      PROVE  FALSE
  <2>1. u \in Threads /\ Attached(g, mine[u]) /\ u \notin At(g, Removing)
    BY NamesAssumption
       DEF At, IInv, Working, Logs, InStd, Using, Removing, StdRemoving
  <2>2. 1 >= Cardinality({t, u}) + Cardinality(At(g, Adding))
    BY <2>1, Remainder
  <2>3. Cardinality({t, u}) = 2
    <3>1. {t, u} = {t} \cup {u} /\ u \notin {t}
      BY <1>2
    <3>2. IsFiniteSet({t}) /\ Cardinality({t}) = 1
      BY FS_Singleton
    <3>3. Cardinality({t} \cup {u}) = Cardinality({t}) + 1
      BY <3>1, <3>2, FS_AddElement
    <3> QED
      BY <3>1, <3>2, <3>3
  <2> QED
    BY <2>2, <2>3, CountedNumbers
<1> QED
  BY <1>1, <1>2

\* A step that neither starts nor ends a registration of a.
LEMMA ListedStill ==
    ASSUME NEW t \in Threads, Still(t), NEW a, ListedRight(a),
           job[t] = a /\ pc[t] \in StdAdding <=> job'[t] = a /\ pc'[t] \in StdAdding,
           job[t] = a /\ pc[t] \in StdRemoving <=> job'[t] = a /\ pc'[t] \in StdRemoving,
           job'[t] = a /\ pc'[t] \in InStd => Wanted(a) \/ (job[t] = a /\ pc[t] \in InStd),
           Wanted(a)' <=> Wanted(a),
           Contains(acquirers'[Std], a) <=> Contains(acquirers[Std], a)
    PROVE  ListedRight(a)'
<1>1. At(a, StdAdding)' = At(a, StdAdding) /\ At(a, StdRemoving)' = At(a, StdRemoving)
  BY AtSame
<1>2. At(a, StdAdding \cup StdRemoving)' = At(a, StdAdding \cup StdRemoving)
  BY AtSame
<1>3. \A u \in At(a, InStd)' : Wanted(a)
  BY DEF At, Still, ListedRight
<1> QED
  BY <1>1, <1>2, <1>3 DEF ListedRight

\* A registration of a starts, as its only one.
LEMMA ListedStarts ==
    ASSUME NEW t \in Threads, Still(t), NEW a, job'[t] = a,
           At(a, StdAdding \cup StdRemoving) = {}, At(a, InStd) = {},
           Contains(acquirers'[Std], a) <=> Contains(acquirers[Std], a),
           Contains(acquirers[Std], a) <=> ~(Wanted(a)'),
           pc'[t] \in (IF Wanted(a)' THEN StdAdding ELSE StdRemoving)
    PROVE  ListedRight(a)'
<1>1. At(a, StdAdding \cup StdRemoving)' = {t}
  BY DEF At, Still, StdAdding, StdRemoving
<1>2. \A u \in Threads : ~(job'[u] = a /\ pc'[u] \in InStd)
  BY DEF At, Still, StdAdding, StdRemoving, InStd, Using
<1>3. /\ \A u \in At(a, StdAdding)' : Wanted(a)' /\ u = t
      /\ \A u \in At(a, StdRemoving)' : ~(Wanted(a)') /\ u = t
  BY <1>1 DEF At, Still, StdAdding, StdRemoving
<1> QED
  BY <1>1, <1>2, <1>3 DEF ListedRight, At

\* It ends.
LEMMA ListedEnds ==
    ASSUME NEW t \in Threads, Still(t), NEW a, ListedRight(a), job[t] = a,
           pc[t] \in StdAdding \cup StdRemoving,
           ~(job'[t] = a /\ pc'[t] \in StdAdding \cup StdRemoving \cup InStd),
           Wanted(a)' <=> Wanted(a),
           Contains(acquirers'[Std], a) <=> Wanted(a)
    PROVE  ListedRight(a)'
<1>1. At(a, StdAdding \cup StdRemoving) = {t}
  BY DEF At, ListedRight
<1>2. \A u \in Threads : ~(job'[u] = a /\ pc'[u] \in StdAdding \cup StdRemoving)
  BY <1>1 DEF At, Still
<1>3. \A u \in At(a, InStd)' : Wanted(a)
  BY DEF At, Still, ListedRight
<1> QED
  BY <1>2, <1>3 DEF ListedRight, At

LEMMA ListedKept ==
    ASSUME IInv, NEW t \in Threads, Step(t)
    PROVE  Listed'
<1>1. Typed /\ Held /\ Typed' /\ Still(t) /\ Anonymous \notin Loggers
  BY TypedKept, NamesAssumption DEF IInv
<1> SUFFICES ASSUME NEW a \in Loggers \cup {Anonymous}, a \notin crossed'
             PROVE  ListedRight(a)'
  BY DEF Listed
<1>2. ListedRight(a)
  <2>1. crossed \subseteq crossed'
    BY DEF Step, AcquireLox, ReleaseLox, Log, AddCall, RemoveCall, Report, PushWriter, PopWriter,
           ReportDone, StdAcquireCall, StdAcquireUnsafe, StdAcquireSafe, StdRelease, LogDone,
           StdAddPlain, StdAddSecond, StdAddFirst, StdAddSwitch, OwnAddPlain, OwnAddSecond,
           OwnAddFirst, StdRemovePlain, StdRemoveOfTwo, StdRemoveOther, StdRemoveSwitch,
           OwnRemovePlain, OwnRemoveOfTwo, OwnRemoveOther, history
  <2> QED
    BY <2>1 DEF IInv, Listed
<1>3. CASE \E g \in Loggers : Log(t, g)
  <2>1. PICK g \in Loggers : Log(t, g)
    BY <1>3
  <2>2. /\ pc[t] = "idle" /\ job[t] = Anonymous /\ job'[t] = g /\ pc'[t] = "logging"
        /\ acquirers' = acquirers /\ registrations' = registrations /\ console' = console
        /\ Attached(g, mine[t])
    BY <1>1, <2>1 DEF Log, Typed, Held, Goto, WorkOn
  <2>3. registrations[g] > 0
    BY <2>2, InUse DEF At, Removing, StdRemoving
  <2> QED
    BY <1>1, <1>2, <2>2, <2>3, ListedStill DEF Wanted, StdAdding, StdRemoving
<1>4. CASE Report(t)
  <2>1. /\ pc[t] = "idle" /\ job[t] = Anonymous /\ job'[t] = Anonymous /\ pc'[t] = "logging"
        /\ acquirers' = acquirers /\ registrations' = registrations /\ console' = console
        /\ console
    BY <1>1, <1>4 DEF Report, Typed, Held, Goto, locks
  <2> QED
    BY <1>1, <1>2, <2>1, ListedStill DEF Wanted, StdAdding, StdRemoving
<1>5. CASE PushWriter(t) \/ PopWriter(t)
  <2>1. /\ pc[t] = "idle" /\ job[t] = Anonymous /\ job'[t] = Anonymous
        /\ acquirers' = acquirers /\ registrations' = registrations /\ console' = ~console
        /\ pc'[t] = IF console' THEN "stdAdd" ELSE "stdRemove"
        /\ Reporting = {}
    BY <1>1, <1>5 DEF PushWriter, PopWriter, Typed, Held, Goto, locks
  <2>2. CASE a = Anonymous
    <3>1. At(a, StdAdding \cup StdRemoving) = {} /\ At(a, InStd) = {}
      BY <2>1, <2>2 DEF At, Reporting, StdAdding, StdRemoving, InStd, Using
    <3>2. Contains(acquirers[Std], a) <=> Wanted(a)
      BY <1>2, <3>1 DEF ListedRight
    <3> QED
      BY <1>1, <2>1, <2>2, <3>1, <3>2, ListedStarts DEF Wanted, StdAdding, StdRemoving
  <2>3. CASE a # Anonymous
    BY <1>1, <1>2, <2>1, <2>3, ListedStill DEF Wanted
  <2> QED
    BY <2>2, <2>3
<1>6. CASE \E g \in Loggers : AddCall(t, g)
  <2>1. PICK g \in Loggers : AddCall(t, g)
    BY <1>6
  <2>2. /\ pc[t] = "idle" /\ job[t] = Anonymous /\ job'[t] = g
        /\ pc'[t] = IF registrations[g] = 0 THEN "stdAdd" ELSE "ownAdd"
        /\ acquirers' = acquirers /\ console' = console
        /\ registrations' = [registrations EXCEPT ![g] = registrations[g] + 1]
        /\ crossed' = crossed \cup (IF At(g, StdRemoving) = {} THEN {} ELSE {g})
    BY <1>1, <2>1 DEF AddCall, Typed, Held, Goto, WorkOn, locks
  <2>3. registrations[g] \in Int /\ registrations[g] >= 0
    BY <1>1, NotNegative DEF Typed
  <2>4. registrations'[g] = registrations[g] + 1 /\ registrations'[g] > 0
    BY <1>1, <2>2, <2>3 DEF Typed
  <2>5. CASE a = g /\ registrations[g] = 0
    <3>1. ~Wanted(a) /\ Wanted(a)' /\ pc'[t] = "stdAdd"
      BY <1>1, <2>2, <2>4, <2>5 DEF Wanted
    <3>2. At(a, StdAdding \cup StdRemoving) = {} /\ At(a, InStd) = {}
      BY <1>2, <2>2, <2>5, <3>1 DEF ListedRight, At
    <3>3. ~Contains(acquirers[Std], a)
      BY <1>2, <3>1, <3>2 DEF ListedRight
    <3> QED
      BY <1>1, <2>2, <2>5, <3>1, <3>2, <3>3, ListedStarts DEF StdAdding
  <2>6. CASE a = g /\ registrations[g] # 0
    <3>1. Wanted(a) /\ Wanted(a)' /\ pc'[t] = "ownAdd"
      BY <1>1, <2>2, <2>3, <2>4, <2>6 DEF Wanted
    <3> QED
      BY <1>1, <1>2, <2>2, <2>6, <3>1, ListedStill DEF StdAdding, StdRemoving, InStd, Using
  <2>7. CASE a # g
    <3>1. Wanted(a)' <=> Wanted(a)
      BY <1>1, <2>2, <2>7 DEF Wanted, Typed
    <3> QED
      BY <1>1, <1>2, <2>2, <2>7, <3>1, ListedStill DEF StdAdding, StdRemoving, InStd, Using
  <2> QED
    BY <2>5, <2>6, <2>7
<1>7. CASE \E g \in Loggers : RemoveCall(t, g)
  <2>1. PICK g \in Loggers : RemoveCall(t, g)
    BY <1>7
  <2>2. /\ pc[t] = "idle" /\ job[t] = Anonymous /\ job'[t] = g /\ Attached(g, mine[t])
        /\ pc'[t] = IF registrations[g] = 1 THEN "stdRemove" ELSE "ownRemove"
        /\ acquirers' = acquirers /\ console' = console
        /\ registrations' = [registrations EXCEPT ![g] = registrations[g] - 1]
    BY <1>1, <2>1 DEF RemoveCall, Typed, Held, Goto, WorkOn, locks
  <2>3. t \notin At(g, Removing) /\ t \notin At(g, Logs)
    BY <2>2 DEF At, Removing, StdRemoving, Logs, InStd, Using
  <2>4. registrations[g] \in Int /\ registrations[g] > 0
    BY <1>1, <2>2, <2>3, InUse DEF Typed
  <2>5. registrations'[g] = registrations[g] - 1
    BY <1>1, <2>2, <2>4 DEF Typed
  <2>6. CASE a = g /\ registrations[g] = 1
    <3>1. Wanted(a) /\ ~(Wanted(a)') /\ pc'[t] = "stdRemove"
      BY <1>1, <2>2, <2>4, <2>5, <2>6 DEF Wanted
    <3>2. At(a, Adding) = {} /\ At(a, Logs) = {}
      BY <2>2, <2>3, <2>6, LastIsAlone
    <3>3. At(a, StdAdding) = {} /\ At(a, InStd) = {} /\ At(a, StdRemoving) = {}
      BY <1>2, <3>1, <3>2 DEF ListedRight, At, Adding, Logs
    <3>4. At(a, StdAdding \cup StdRemoving) = {}
      BY <3>3 DEF At
    <3>5. Contains(acquirers[Std], a)
      BY <1>2, <3>1, <3>4 DEF ListedRight
    <3> QED
      BY <1>1, <2>2, <2>6, <3>1, <3>3, <3>4, <3>5, ListedStarts DEF StdRemoving
  <2>7. CASE a = g /\ registrations[g] # 1
    <3>1. Wanted(a) /\ Wanted(a)' /\ pc'[t] = "ownRemove"
      BY <1>1, <2>2, <2>4, <2>5, <2>7 DEF Wanted
    <3> QED
      BY <1>1, <1>2, <2>2, <2>7, <3>1, ListedStill DEF StdAdding, StdRemoving, InStd, Using
  <2>8. CASE a # g
    <3>1. Wanted(a)' <=> Wanted(a)
      BY <1>1, <2>2, <2>8 DEF Wanted, Typed
    <3> QED
      BY <1>1, <1>2, <2>2, <2>8, <3>1, ListedStill DEF StdAdding, StdRemoving, InStd, Using
  <2> QED
    BY <2>6, <2>7, <2>8
<1>8. CASE StdAddPlain(t) \/ StdAddSwitch(t)
  <2>1. /\ job' = job /\ registrations' = registrations /\ console' = console
        /\ pc[t] \in StdAdding /\ pc'[t] \in {"written", "ownAdd"}
    BY <1>1, <1>8 DEF StdAddPlain, StdAddSwitch, Typed, Goto, AfterStd, StdAdding
  <2>2. Wanted(a)' <=> Wanted(a)
    BY <2>1 DEF Wanted
  <2>3. CASE a = job[t]
    <3>1. t \in At(a, StdAdding)
      BY <2>1, <2>3 DEF At
    <3>2. Wanted(a) /\ ~Contains(acquirers[Std], a)
      BY <1>2, <3>1 DEF ListedRight
    <3>3. Joined(Std, a)
      BY <1>8, <2>3, <3>2, StdJoins DEF Known
    <3>4. Contains(acquirers'[Std], a)
      BY <3>3 DEF Joined
    <3> QED
      BY <1>1, <1>2, <2>1, <2>2, <2>3, <3>2, <3>4, ListedEnds
         DEF StdAdding, StdRemoving, InStd, Using
  <2>4. CASE a # job[t]
    <3>1. Contains(acquirers'[Std], a) <=> Contains(acquirers[Std], a)
      <4>1. acquirers' = acquirers \/ Joined(Std, job[t])
        BY <1>8, StdJoins DEF StdAddPlain
      <4> QED
        BY <2>4, <4>1 DEF Joined
    <3> QED
      BY <1>1, <1>2, <2>1, <2>2, <2>4, <3>1, ListedStill
  <2> QED
    BY <2>3, <2>4
<1>9. CASE StdRemovePlain(t) \/ StdRemoveSwitch(t)
  <2>1. /\ job' = job /\ registrations' = registrations /\ console' = console
        /\ pc[t] \in StdRemoving /\ pc'[t] \in {"written", "ownRemove"}
    BY <1>1, <1>9 DEF StdRemovePlain, StdRemoveSwitch, Typed, Goto, AfterStd, StdRemoving
  <2>2. Wanted(a)' <=> Wanted(a)
    BY <2>1 DEF Wanted
  <2>3. CASE a = job[t]
    <3>1. t \in At(a, StdRemoving)
      BY <2>1, <2>3 DEF At
    <3>2. ~Wanted(a) /\ Contains(acquirers[Std], a)
      BY <1>2, <3>1 DEF ListedRight
    <3>3. Left(Std, a)
      BY <1>9, <2>3, <3>2, StdLeaves
    <3>4. ~Contains(acquirers'[Std], a)
      BY <3>3 DEF Left
    <3> QED
      BY <1>1, <1>2, <2>1, <2>2, <2>3, <3>2, <3>4, ListedEnds
         DEF StdAdding, StdRemoving, InStd, Using
  <2>4. CASE a # job[t]
    <3>1. Contains(acquirers'[Std], a) <=> Contains(acquirers[Std], a)
      <4>1. acquirers' = acquirers \/ Left(Std, job[t])
        BY <1>1, <1>9, StdLeaves, StdSame DEF Typed
      <4> QED
        BY <2>4, <4>1 DEF Left
    <3> QED
      BY <1>1, <1>2, <2>1, <2>2, <2>4, <3>1, ListedStill
  <2> QED
    BY <2>3, <2>4
<1>10. ASSUME ~(\E g \in Loggers : Log(t, g) \/ AddCall(t, g) \/ RemoveCall(t, g)),
              ~(Report(t) \/ PushWriter(t) \/ PopWriter(t)),
              ~(StdAddPlain(t) \/ StdAddSwitch(t) \/ StdRemovePlain(t) \/ StdRemoveSwitch(t))
       PROVE  ListedRight(a)'
  <2>1. acquirers'[Std] = acquirers[Std]
    BY <1>10, ListsKept, NamesAssumption DEF Changes, Joined, Left, OthersKept, SmartLocks
  <2>2. /\ registrations' = registrations /\ console' = console
        /\ job[t] = a /\ pc[t] \in StdAdding <=> job'[t] = a /\ pc'[t] \in StdAdding
        /\ job[t] = a /\ pc[t] \in StdRemoving <=> job'[t] = a /\ pc'[t] \in StdRemoving
        /\ job'[t] = a /\ pc'[t] \in InStd => job[t] = a /\ pc[t] \in InStd
    <3>1. CASE \E l \in Loxes : AcquireLox(t, l)
      BY <1>1, <3>1
         DEF AcquireLox, Typed, locks, Goto, WorkOn, StdAdding, StdRemoving, InStd, Using
    <3>2. CASE ReleaseLox(t)
      BY <1>1, <3>2
         DEF ReleaseLox, Typed, locks, Goto, WorkOn, StdAdding, StdRemoving, InStd, Using
    <3>3. CASE ReportDone(t)
      BY <1>1, <3>3
         DEF ReportDone, Typed, locks, Goto, WorkOn, StdAdding, StdRemoving, InStd, Using
    <3>4. CASE StdAcquireCall(t)
      BY <1>1, <3>4
         DEF StdAcquireCall, Typed, locks, Goto, WorkOn, StdAdding, StdRemoving, InStd, Using
    <3>5. CASE StdAcquireUnsafe(t)
      BY <1>1, <3>5
         DEF StdAcquireUnsafe, Typed, locks, Goto, WorkOn, StdAdding, StdRemoving, InStd, Using
    <3>6. CASE StdAcquireSafe(t)
      BY <1>1, <3>6
         DEF StdAcquireSafe, Typed, locks, Goto, WorkOn, StdAdding, StdRemoving, InStd, Using
    <3>7. CASE StdRelease(t)
      BY <1>1, <3>7
         DEF StdRelease, Typed, locks, Goto, WorkOn, StdAdding, StdRemoving, InStd, Using
    <3>8. CASE LogDone(t)
      BY <1>1, <3>8
         DEF LogDone, Typed, locks, Goto, WorkOn, StdAdding, StdRemoving, InStd, Using
    <3>9. CASE StdAddSecond(t)
      BY <1>1, <3>9
         DEF StdAddSecond, Typed, locks, Goto, WorkOn, StdAdding, StdRemoving, InStd, Using
    <3>10. CASE StdAddFirst(t)
      BY <1>1, <3>10
         DEF StdAddFirst, Typed, locks, Goto, WorkOn, StdAdding, StdRemoving, InStd, Using
    <3>11. CASE OwnAddPlain(t)
      BY <1>1, <3>11
         DEF OwnAddPlain, Typed, locks, Goto, WorkOn, StdAdding, StdRemoving, InStd, Using
    <3>12. CASE OwnAddSecond(t)
      BY <1>1, <3>12
         DEF OwnAddSecond, Typed, locks, Goto, WorkOn, StdAdding, StdRemoving, InStd, Using
    <3>13. CASE OwnAddFirst(t)
      BY <1>1, <3>13
         DEF OwnAddFirst, Typed, locks, Goto, WorkOn, StdAdding, StdRemoving, InStd, Using
    <3>14. CASE StdRemoveOfTwo(t)
      BY <1>1, <3>14
         DEF StdRemoveOfTwo, Typed, locks, Goto, WorkOn, StdAdding, StdRemoving, InStd, Using
    <3>15. CASE StdRemoveOther(t)
      BY <1>1, <3>15
         DEF StdRemoveOther, Typed, locks, Goto, WorkOn, StdAdding, StdRemoving, InStd, Using
    <3>16. CASE OwnRemovePlain(t)
      BY <1>1, <3>16
         DEF OwnRemovePlain, Typed, locks, Goto, WorkOn, StdAdding, StdRemoving, InStd, Using
    <3>17. CASE OwnRemoveOfTwo(t)
      BY <1>1, <3>17
         DEF OwnRemoveOfTwo, Typed, locks, Goto, WorkOn, StdAdding, StdRemoving, InStd, Using
    <3>18. CASE OwnRemoveOther(t)
      BY <1>1, <3>18
         DEF OwnRemoveOther, Typed, locks, Goto, WorkOn, StdAdding, StdRemoving, InStd, Using
    <3> QED
      BY <1>10, <3>1, <3>2, <3>3, <3>4, <3>5, <3>6, <3>7, <3>8, <3>9, <3>10, <3>11, <3>12,
         <3>13, <3>14, <3>15, <3>16, <3>17, <3>18 DEF Step
  <2>3. Wanted(a)' <=> Wanted(a)
    BY <2>2 DEF Wanted
  <2> QED
    BY <1>1, <1>2, <2>1, <2>2, <2>3, ListedStill
<1> QED
  BY <1>3, <1>4, <1>5, <1>6, <1>7, <1>8, <1>9, <1>10

(***************************************************************************)
(* The loggers' own locks.                                                 *)
(***************************************************************************)
\* The other threads stay in the loggers they are in: the one that a switch has acquired is
\* found in the list of StdOutputStreamsLock, which nobody else changes.
LEMMA OthersInside ==
    ASSUME IInv, NEW t \in Threads, Step(t), NEW u \in Threads \ {t}, NEW g
    PROVE  u \in Inside(g)' <=> u \in Inside(g)
<1>1. pc'[u] = pc[u] /\ job'[u] = job[u]
  BY TypedKept DEF Still
<1>2. CASE pc[u] \in {"stdAddSwitch", "stdRemoveSwitch"}
  <2>1. acquirers'[Std] = acquirers[Std]
    BY <1>2, StdListStill DEF Holding, AddHolds, RemHolds
  <2> QED
    BY <1>1, <2>1 DEF Inside, At, Guard, Remaining
<1>3. CASE pc[u] \notin {"stdAddSwitch", "stdRemoveSwitch"}
  BY <1>1, <1>3 DEF Inside, At
<1> QED
  BY <1>2, <1>3

\* A step that is not about logger g, or switches the mode of its lock, which is refused while
\* someone is in it.
LEMMA OwnStill ==
    ASSUME IInv, NEW t \in Threads, Step(t), NEW g \in Loggers, OwnRight(g),
           t \in Inside(g)' <=> t \in Inside(g),
           owner'[g] = owner[g], cnt'[g] = cnt[g],
           safe'[g] = safe[g] \/ safe'[g] = Switched(g, TRUE)[g] \/ safe'[g] = Switched(g, FALSE)[g]
    PROVE  OwnRight(g)'
<1>1. \A u : u \in Inside(g)' <=> u \in Inside(g)
  BY OthersInside DEF Inside, At
<1>2. Inside(g)' = Inside(g)
  BY <1>1
<1>3. CASE Inside(g) = {}
  BY <1>2, <1>3 DEF OwnRight
<1>4. ASSUME NEW u \in Inside(g)
      PROVE  safe'[g] = safe[g]
  <2>1. /\ cnt[g] = 1 /\ owner[g] = (IF safe[g] THEN u ELSE NoThread) /\ u # NoThread
        /\ safe \in [SmartLocks -> BOOLEAN] /\ g \in SmartLocks
    BY NamesAssumption DEF OwnRight, Inside, At, IInv, Typed, SmartLocks
  <2> QED
    <3>1. CASE safe[g]
      BY <2>1, <3>1 DEF Switched
    <3>2. CASE ~safe[g]
      BY <2>1, <3>2 DEF Switched
    <3> QED
      BY <3>1, <3>2
<1> QED
  BY <1>2, <1>3, <1>4 DEF OwnRight

\* The thread that takes logger g finds nobody in it.
LEMMA OwnEnters ==
    ASSUME IInv, NEW t \in Threads, Step(t), NEW g \in Loggers, OwnRight(g), Take(g, t),
           ~disturbed', safe' = safe, t \in Inside(g)'
    PROVE  OwnRight(g)'
<1>1. /\ safe \in [SmartLocks -> BOOLEAN] /\ owner \in [SmartLocks -> Threads \cup {NoThread}]
      /\ cnt \in [SmartLocks -> Int] /\ g \in SmartLocks
  BY DEF IInv, Typed, SmartLocks
<1>2. Inside(g) = {}
  <2>1. (safe[g] => owner[g] = NoThread) /\ (~safe[g] => cnt[g] = 0)
    BY DEF Take, MayAcquire
  <2>2. ASSUME NEW u \in Inside(g)
        PROVE  FALSE
    <3>1. cnt[g] = 1 /\ owner[g] = (IF safe[g] THEN u ELSE NoThread) /\ u # NoThread
      BY <2>2, NamesAssumption DEF OwnRight, Inside, At
    <3> QED
      BY <2>1, <3>1
  <2> QED
    BY <2>2
<1>3. cnt[g] = 0 /\ owner[g] = NoThread
  BY <1>2 DEF OwnRight
<1>4. cnt'[g] = 1 /\ owner'[g] = (IF safe[g] THEN t ELSE NoThread)
  BY <1>1, <1>3 DEF Take, OwnerTaken, CountTaken
<1>5. \A u \in Inside(g)' : u = t
  BY <1>2, OthersInside DEF Inside, At
<1> QED
  BY <1>4, <1>5 DEF OwnRight

\* The thread that leaves it was alone in it.
LEMMA OwnExits ==
    ASSUME IInv, NEW t \in Threads, Step(t), NEW g \in Loggers, OwnRight(g),
           owner'[g] = OwnerReleased(g)[g], cnt'[g] = CountReleased(g)[g],
           t \in Inside(g), t \notin Inside(g)'
    PROVE  OwnRight(g)'
<1>1. /\ safe \in [SmartLocks -> BOOLEAN] /\ owner \in [SmartLocks -> Threads \cup {NoThread}]
      /\ cnt \in [SmartLocks -> Int] /\ g \in SmartLocks
  BY DEF IInv, Typed, SmartLocks
<1>2. cnt[g] = 1 /\ owner[g] = (IF safe[g] THEN t ELSE NoThread)
  BY DEF OwnRight
<1>3. cnt'[g] = 0 /\ owner'[g] = NoThread
  BY <1>1, <1>2 DEF OwnerReleased, CountReleased
<1>4. \A u \in Threads \ {t} : u \notin Inside(g)'
  BY OthersInside DEF OwnRight
<1>5. Inside(g)' = {}
  BY <1>4 DEF Inside, At
<1> QED
  BY <1>3, <1>5 DEF OwnRight

LEMMA OwnLocksKept ==
    ASSUME IInv, NEW t \in Threads, Step(t)
    PROVE  OwnLocks'
<1>1. Typed /\ Held /\ Typed' /\ Still(t) /\ Anonymous \notin Loggers /\ Std \notin Loggers
  BY TypedKept, NamesAssumption DEF IInv
<1> SUFFICES ASSUME ~disturbed', NEW g \in Loggers
             PROVE  OwnRight(g)'
  BY DEF OwnLocks
<1>2. OwnRight(g)
  <2>1. ~disturbed
    BY DEF Step, AcquireLox, ReleaseLox, Log, AddCall, RemoveCall, Report, PushWriter, PopWriter,
           ReportDone, StdAcquireCall, StdAcquireUnsafe, StdAcquireSafe, StdRelease, LogDone,
           StdAddPlain, StdAddSecond, StdAddFirst, StdAddSwitch, OwnAddPlain, OwnAddSecond,
           OwnAddFirst, StdRemovePlain, StdRemoveOfTwo, StdRemoveOther, StdRemoveSwitch,
           OwnRemovePlain, OwnRemoveOfTwo, OwnRemoveOther, Take, history
  <2> QED
    BY <2>1 DEF IInv, OwnLocks
<1>3. g \in SmartLocks /\ g # Std /\ g # Anonymous
  BY <1>1 DEF SmartLocks
<1>4. CASE \E h \in Loggers : Log(t, h)
  <2>1. PICK h \in Loggers : Log(t, h)
    BY <1>4
  <2>2. pc[t] = "idle" /\ job'[t] = h /\ pc'[t] = "logging" /\ safe' = safe /\ Take(h, t)
    BY <1>1, <2>1 DEF Log, Typed, Goto, WorkOn
  <2>3. CASE g = h
    BY <1>2, <2>2, <2>3, OwnEnters DEF Inside, At, Logs, InStd
  <2>4. CASE g # h
    <3>1. t \notin Inside(g) /\ t \notin Inside(g)'
      BY <2>2, <2>4 DEF Inside, At, Logs, InStd, Using
    <3>2. owner'[g] = owner[g] /\ cnt'[g] = cnt[g]
      BY <1>1, <2>2, <2>4 DEF Take, OwnerTaken, CountTaken, Typed
    <3> QED
      BY <1>2, <2>2, <3>1, <3>2, OwnStill
  <2> QED
    BY <2>3, <2>4
<1>5. CASE LogDone(t)
  <2>1. /\ pc[t] = "written" /\ job[t] \in Loggers /\ pc'[t] = "idle" /\ safe' = safe
        /\ owner' = OwnerReleased(job[t]) /\ cnt' = CountReleased(job[t])
    BY <1>1, <1>5 DEF LogDone, Typed, Goto, WorkOn
  <2>2. t \notin Inside(g)'
    BY <2>1 DEF Inside, At, Logs, InStd, Using
  <2>3. CASE g = job[t]
    <3>1. t \in Inside(g)
      BY <2>1, <2>3 DEF Inside, At, Logs
    <3> QED
      BY <1>2, <2>1, <2>2, <2>3, <3>1, OwnExits
  <2>4. CASE g # job[t]
    <3>1. t \notin Inside(g)
      BY <2>1, <2>4 DEF Inside, At
    <3>2. owner'[g] = owner[g] /\ cnt'[g] = cnt[g]
      BY <1>1, <2>1, <2>4 DEF OwnerReleased, CountReleased, Typed
    <3> QED
      BY <1>2, <2>1, <2>2, <3>1, <3>2, OwnStill
  <2> QED
    BY <2>3, <2>4
<1>6. CASE StdAddFirst(t)
  <2>1. /\ pc[t] = "stdAddFirst" /\ pc'[t] = "stdAddSwitch" /\ safe' = safe /\ acquirers' = acquirers
        /\ job' = job /\ Take(acquirers[Std][1], t)
    BY <1>1, <1>6 DEF StdAddFirst, Typed, Goto
  <2>2. Guard(t)' = acquirers[Std][1] /\ t \notin Inside(g)
    BY <2>1 DEF Guard, Remaining, Inside, At, Logs, InStd, Using
  <2>3. t \in Inside(g)' <=> g = acquirers[Std][1]
    BY <2>1, <2>2 DEF Inside, At, Logs, InStd, Using
  <2>4. CASE g = acquirers[Std][1]
    BY <1>2, <2>1, <2>3, <2>4, OwnEnters
  <2>5. CASE g # acquirers[Std][1]
    <3>1. owner'[g] = owner[g] /\ cnt'[g] = cnt[g]
      BY <1>1, <2>1, <2>5 DEF Take, OwnerTaken, CountTaken, Typed
    <3> QED
      BY <1>2, <2>1, <2>2, <2>3, <2>5, <3>1, OwnStill
  <2> QED
    BY <2>4, <2>5
<1>7. CASE StdRemoveOther(t)
  <2>1. /\ pc[t] = "stdRemoveOther" /\ pc'[t] = "stdRemoveSwitch" /\ safe' = safe /\ acquirers' = acquirers
        /\ job' = job /\ Take(Remaining(Std, job[t]), t)
    BY <1>1, <1>7 DEF StdRemoveOther, Typed, Goto
  <2>2. Guard(t)' = Remaining(Std, job[t]) /\ t \notin Inside(g)
    BY <2>1 DEF Guard, Remaining, Inside, At, Logs, InStd, Using
  <2>3. t \in Inside(g)' <=> g = Remaining(Std, job[t])
    BY <2>1, <2>2 DEF Inside, At, Logs, InStd, Using
  <2>4. CASE g = Remaining(Std, job[t])
    BY <1>2, <2>1, <2>3, <2>4, OwnEnters
  <2>5. CASE g # Remaining(Std, job[t])
    <3>1. owner'[g] = owner[g] /\ cnt'[g] = cnt[g]
      BY <1>1, <2>1, <2>5 DEF Take, OwnerTaken, CountTaken, Typed
    <3> QED
      BY <1>2, <2>1, <2>2, <2>3, <2>5, <3>1, OwnStill
  <2> QED
    BY <2>4, <2>5
<1>8. CASE StdAddSwitch(t)
  <2>1. /\ pc[t] = "stdAddSwitch" /\ job' = job
        /\ pc'[t] = IF job[t] = Anonymous THEN "written" ELSE "ownAdd"
        /\ safe'[g] = safe[g]
        /\ IF acquirers[Std][1] = Anonymous
             THEN owner' = owner /\ cnt' = cnt
             ELSE owner' = OwnerReleased(acquirers[Std][1]) /\ cnt' = CountReleased(acquirers[Std][1])
    BY <1>1, <1>3, <1>8 DEF StdAddSwitch, Typed, Goto, AfterStd, Switched
  <2>2. t \notin Inside(g)' /\ (t \in Inside(g) <=> g = acquirers[Std][1])
    BY <1>3, <2>1 DEF Guard, Inside, At, Logs, InStd, Using
  <2>3. CASE g = acquirers[Std][1]
    BY <1>2, <1>3, <2>1, <2>2, <2>3, OwnExits
  <2>4. CASE g # acquirers[Std][1]
    <3>1. owner'[g] = owner[g] /\ cnt'[g] = cnt[g]
      <4>1. CASE acquirers[Std][1] = Anonymous
        BY <2>1, <4>1
      <4>2. CASE acquirers[Std][1] # Anonymous
        <5>1. owner' = OwnerReleased(acquirers[Std][1]) /\ cnt' = CountReleased(acquirers[Std][1])
          BY <2>1, <4>2
        <5> QED
          BY <1>1, <2>4, <5>1 DEF OwnerReleased, CountReleased, Typed
      <4> QED
        BY <4>1, <4>2
    <3> QED
      BY <1>2, <2>1, <2>2, <2>4, <3>1, OwnStill
  <2> QED
    BY <2>3, <2>4
<1>9. CASE StdRemoveSwitch(t)
  <2>1. /\ pc[t] = "stdRemoveSwitch" /\ job' = job
        /\ pc'[t] = IF job[t] = Anonymous THEN "written" ELSE "ownRemove"
        /\ safe'[g] = safe[g]
        /\ IF Remaining(Std, job[t]) = Anonymous
             THEN owner' = owner /\ cnt' = cnt
             ELSE owner' = OwnerReleased(Remaining(Std, job[t])) /\ cnt' = CountReleased(Remaining(Std, job[t]))
    BY <1>1, <1>3, <1>9 DEF StdRemoveSwitch, Typed, Goto, AfterStd, Switched
  <2>2. t \notin Inside(g)' /\ (t \in Inside(g) <=> g = Remaining(Std, job[t]))
    BY <1>3, <2>1 DEF Guard, Inside, At, Logs, InStd, Using
  <2>3. CASE g = Remaining(Std, job[t])
    BY <1>2, <1>3, <2>1, <2>2, <2>3, OwnExits
  <2>4. CASE g # Remaining(Std, job[t])
    <3>1. owner'[g] = owner[g] /\ cnt'[g] = cnt[g]
      <4>1. CASE Remaining(Std, job[t]) = Anonymous
        BY <2>1, <4>1
      <4>2. CASE Remaining(Std, job[t]) # Anonymous
        <5>1. owner' = OwnerReleased(Remaining(Std, job[t])) /\ cnt' = CountReleased(Remaining(Std, job[t]))
          BY <2>1, <4>2
        <5> QED
          BY <1>1, <2>4, <5>1 DEF OwnerReleased, CountReleased, Typed
      <4> QED
        BY <4>1, <4>2
    <3> QED
      BY <1>2, <2>1, <2>2, <2>4, <3>1, OwnStill
  <2> QED
    BY <2>3, <2>4
<1>10. CASE StdAddSecond(t) \/ StdRemoveOfTwo(t)
  <2>1. /\ pc[t] \in {"stdAdd", "stdRemove"} /\ safe' = safe /\ owner' = owner /\ cnt' = cnt
        /\ job' = job /\ acquirers' = acquirers
        /\ \/ pc'[t] \in {"stdAddFirst", "stdRemoveOther"}
           \/ pc'[t] = "stdAddSwitch" /\ acquirers[Std][1] = Anonymous
           \/ pc'[t] = "stdRemoveSwitch" /\ Remaining(Std, job[t]) = Anonymous
    BY <1>1, <1>10 DEF StdAddSecond, StdRemoveOfTwo, Typed, Goto, locks
  <2>2. t \notin Inside(g) /\ t \notin Inside(g)'
    BY <1>3, <2>1 DEF Guard, Remaining, Inside, At, Logs, InStd, Using
  <2> QED
    BY <1>2, <2>1, <2>2, OwnStill
<1>11. CASE OwnAddFirst(t) \/ OwnRemoveOther(t)
  <2>1. /\ pc[t] \in {"ownAddFirst", "ownRemoveOther"} /\ pc'[t] = "idle"
        /\ owner' = owner /\ cnt' = cnt
        /\ safe' = Switched(job[t], TRUE) \/ safe' = Switched(job[t], FALSE)
    BY <1>1, <1>11 DEF OwnAddFirst, OwnRemoveOther, Typed, Goto
  <2>2. t \notin Inside(g) /\ t \notin Inside(g)'
    BY <2>1 DEF Inside, At, Logs, InStd, Using
  <2>3. CASE g = job[t]
    BY <1>2, <2>1, <2>2, <2>3, OwnStill
  <2>4. CASE g # job[t]
    <3>1. safe'[g] = safe[g]
      BY <1>1, <1>3, <2>1, <2>4 DEF Switched, Typed
    <3> QED
      BY <1>2, <2>1, <2>2, <3>1, OwnStill
  <2> QED
    BY <2>3, <2>4
<1>12. ASSUME ~(\E h \in Loggers : Log(t, h)), ~LogDone(t),
              ~(StdAddFirst(t) \/ StdAddSwitch(t) \/ StdAddSecond(t)),
              ~(StdRemoveOther(t) \/ StdRemoveSwitch(t) \/ StdRemoveOfTwo(t)),
              ~(OwnAddFirst(t) \/ OwnRemoveOther(t))
       PROVE  OwnRight(g)'
  <2>1. /\ safe' = safe /\ owner'[g] = owner[g] /\ cnt'[g] = cnt[g]
        /\ t \in Inside(g)' <=> t \in Inside(g)
    <3>1. CASE \E l \in Loxes : AcquireLox(t, l)
      BY <1>1, <1>3, <3>1
         DEF AcquireLox, Typed, Held, locks, Goto, WorkOn, AfterStd, Inside, At, Logs, InStd, Using,
             OwnerReleased, CountReleased, OwnStages
    <3>2. CASE ReleaseLox(t)
      BY <1>1, <1>3, <3>2
         DEF ReleaseLox, Typed, Held, locks, Goto, WorkOn, AfterStd, Inside, At, Logs, InStd, Using,
             OwnerReleased, CountReleased, OwnStages
    <3>3. CASE \E h \in Loggers : AddCall(t, h)
      BY <1>1, <1>3, <3>3
         DEF AddCall, Typed, Held, locks, Goto, WorkOn, AfterStd, Inside, At, Logs, InStd, Using,
             OwnerReleased, CountReleased, OwnStages
    <3>4. CASE \E h \in Loggers : RemoveCall(t, h)
      BY <1>1, <1>3, <3>4
         DEF RemoveCall, Typed, Held, locks, Goto, WorkOn, AfterStd, Inside, At, Logs, InStd, Using,
             OwnerReleased, CountReleased, OwnStages
    <3>5. CASE Report(t)
      BY <1>1, <1>3, <3>5
         DEF Report, Typed, Held, locks, Goto, WorkOn, AfterStd, Inside, At, Logs, InStd, Using,
             OwnerReleased, CountReleased, OwnStages
    <3>6. CASE PushWriter(t)
      BY <1>1, <1>3, <3>6
         DEF PushWriter, Typed, Held, locks, Goto, WorkOn, AfterStd, Inside, At, Logs, InStd, Using,
             OwnerReleased, CountReleased, OwnStages
    <3>7. CASE PopWriter(t)
      BY <1>1, <1>3, <3>7
         DEF PopWriter, Typed, Held, locks, Goto, WorkOn, AfterStd, Inside, At, Logs, InStd, Using,
             OwnerReleased, CountReleased, OwnStages
    <3>8. CASE ReportDone(t)
      BY <1>1, <1>3, <3>8
         DEF ReportDone, Typed, Held, locks, Goto, WorkOn, AfterStd, Inside, At, Logs, InStd, Using,
             OwnerReleased, CountReleased, OwnStages
    <3>9. CASE StdAcquireCall(t)
      BY <1>1, <1>3, <3>9
         DEF StdAcquireCall, Typed, Held, locks, Goto, WorkOn, AfterStd, Inside, At, Logs, InStd, Using,
             OwnerReleased, CountReleased, OwnStages
    <3>10. CASE StdAcquireUnsafe(t)
      BY <1>1, <1>3, <3>10
         DEF StdAcquireUnsafe, Typed, Held, locks, Goto, WorkOn, AfterStd, Inside, At, Logs, InStd, Using,
             OwnerReleased, CountReleased, OwnStages
    <3>11. CASE StdAcquireSafe(t)
      BY <1>1, <1>3, <3>11
         DEF StdAcquireSafe, Typed, Held, locks, Goto, WorkOn, AfterStd, Inside, At, Logs, InStd, Using,
             OwnerReleased, CountReleased, OwnStages
    <3>12. CASE StdRelease(t)
      BY <1>1, <1>3, <3>12
         DEF StdRelease, Typed, Held, locks, Goto, WorkOn, AfterStd, Inside, At, Logs, InStd, Using,
             OwnerReleased, CountReleased, OwnStages
    <3>13. CASE StdAddPlain(t)
      BY <1>1, <1>3, <3>13
         DEF StdAddPlain, Typed, Held, locks, Goto, WorkOn, AfterStd, Inside, At, Logs, InStd, Using,
             OwnerReleased, CountReleased, OwnStages
    <3>14. CASE OwnAddPlain(t)
      BY <1>1, <1>3, <3>14
         DEF OwnAddPlain, Typed, Held, locks, Goto, WorkOn, AfterStd, Inside, At, Logs, InStd, Using,
             OwnerReleased, CountReleased, OwnStages
    <3>15. CASE OwnAddSecond(t)
      BY <1>1, <1>3, <3>15
         DEF OwnAddSecond, Typed, Held, locks, Goto, WorkOn, AfterStd, Inside, At, Logs, InStd, Using,
             OwnerReleased, CountReleased, OwnStages
    <3>16. CASE StdRemovePlain(t)
      BY <1>1, <1>3, <3>16
         DEF StdRemovePlain, Typed, Held, locks, Goto, WorkOn, AfterStd, Inside, At, Logs, InStd, Using,
             OwnerReleased, CountReleased, OwnStages
    <3>17. CASE OwnRemovePlain(t)
      BY <1>1, <1>3, <3>17
         DEF OwnRemovePlain, Typed, Held, locks, Goto, WorkOn, AfterStd, Inside, At, Logs, InStd, Using,
             OwnerReleased, CountReleased, OwnStages
    <3>18. CASE OwnRemoveOfTwo(t)
      BY <1>1, <1>3, <3>18
         DEF OwnRemoveOfTwo, Typed, Held, locks, Goto, WorkOn, AfterStd, Inside, At, Logs, InStd, Using,
             OwnerReleased, CountReleased, OwnStages
    <3> QED
      BY <1>12, <3>1, <3>2, <3>3, <3>4, <3>5, <3>6, <3>7, <3>8, <3>9, <3>10, <3>11, <3>12,
         <3>13, <3>14, <3>15, <3>16, <3>17, <3>18 DEF Step
  <2> QED
    BY <1>2, <2>1, OwnStill
<1> QED
  BY <1>4, <1>5, <1>6, <1>7, <1>8, <1>9, <1>10, <1>11, <1>12

(***************************************************************************)
(* StdOutputStreamsLock.                                                   *)
(***************************************************************************)
\* In mode Unsafe one thread at most uses it: its acquirer is the only one that is registered, and
\* is in use by one thread.
LEMMA OneUser ==
    ASSUME IInv, Undisturbed, ~safe[Std], NEW t \in Threads, NEW u \in Threads,
           pc[t] \in Using, pc[u] \in Using
    PROVE  t = u
<1>1. StdRight /\ Typed /\ Held
  BY DEF IInv, StdLock
<1>2. /\ acquirers[Std] \in Seq(Loggers \cup {Anonymous})
      /\ Contains(acquirers[Std], job[t]) /\ Contains(acquirers[Std], job[u])
      /\ ~(Len(acquirers[Std]) >= 2)
  BY <1>1 DEF StdRight, Typed, ListsTyped
<1>3. job[t] = job[u]
  BY <1>2, TwoContained
<1>4. CASE job[t] = Anonymous
  BY <1>1, <1>3, <1>4 DEF Held, Reporting, Using
<1>5. CASE job[t] # Anonymous
  <2>1. job[t] \in Loggers /\ OwnRight(job[t])
    BY <1>1, <1>5 DEF Typed, IInv, OwnLocks, Undisturbed
  <2>2. t \in Inside(job[t]) /\ u \in Inside(job[t])
    BY <1>3 DEF Inside, At, Logs, InStd
  <2> QED
    BY <2>1, <2>2 DEF OwnRight
<1> QED
  BY <1>4, <1>5

\* So one thread writes, in either mode.
LEMMA OneWrites ==
    ASSUME IInv, Undisturbed, NEW t \in Threads, NEW u \in Threads,
           pc[t] = "writing", pc[u] = "writing"
    PROVE  t = u
<1>1. CASE safe[Std]
  BY <1>1 DEF IInv, StdLock, StdRight
<1>2. CASE ~safe[Std]
  BY <1>2, OneUser DEF Using
<1> QED
  BY <1>1, <1>2

\* When the mode is about to be switched to Safe, nobody uses the lock: the only acquirer that is
\* registered was acquired for that, or care was taken.
LEMMA SwitchUnused ==
    ASSUME IInv, Undisturbed, NEW t \in Threads, pc[t] = "stdAddSwitch", NEW u \in Threads
    PROVE  pc[u] \notin Using
<1>1. StdRight /\ Typed /\ ListsTyped
  BY DEF IInv, StdLock, Typed
<1>2. CASE acquirers[Std][1] = Anonymous
  BY <1>1, <1>2 DEF StdRight
<1>3. CASE acquirers[Std][1] # Anonymous
  <2>1. acquirers[Std][1] \in Loggers
    BY <1>3, FirstIsLogger DEF AddHolds
  <2> SUFFICES ASSUME pc[u] \in Using
               PROVE  FALSE
    OBVIOUS
  <2>2. /\ acquirers[Std] \in Seq(Loggers \cup {Anonymous}) /\ Len(acquirers[Std]) = 1
        /\ Contains(acquirers[Std], job[u])
    BY <1>1 DEF StdRight, ListsTyped, IInv, Switching, AddHolds
  <2>3. job[u] = acquirers[Std][1]
    BY <2>2, OneElement
  <2>4. t \in Inside(job[u]) /\ u \in Inside(job[u])
    BY <2>3 DEF Inside, At, Guard, Logs, InStd
  <2>5. OwnRight(job[u])
    BY <2>1, <2>3 DEF IInv, OwnLocks, Undisturbed
  <2>6. t = u
    BY <2>4, <2>5 DEF OwnRight
  <2> QED
    BY <2>6 DEF Using
<1> QED
  BY <1>2, <1>3

\* Nobody uses the lock for an acquirer that is being unregistered.
LEMMA RemovedUnused ==
    ASSUME IInv, Undisturbed, NEW t \in Threads, pc[t] \in StdRemoving, NEW u \in Threads,
           pc[u] \in Using
    PROVE  job[u] # job[t]
<1> SUFFICES ASSUME job[u] = job[t]
             PROVE  FALSE
  OBVIOUS
<1>1. ListedRight(job[t])
  BY DEF IInv, Typed, Listed, Undisturbed
<1>2. t \in At(job[t], StdRemoving) /\ u \in At(job[t], InStd)
  BY DEF At, InStd
<1> QED
  BY <1>1, <1>2 DEF ListedRight

\* A step of a thread that does not use the lock, before or after, and does not change it.
LEMMA StdStill ==
    ASSUME NEW t \in Threads, Still(t), StdRight,
           acquirers'[Std] = acquirers[Std], safe'[Std] = safe[Std],
           owner'[Std] = owner[Std], cnt'[Std] = cnt[Std],
           pc[t] \notin Using, pc'[t] \notin Using,
           pc'[t] = "stdAddSwitch" /\ acquirers[Std][1] = Anonymous
             => \A u \in Threads : pc[u] \notin Using
    PROVE  StdRight'
<1>1. \A u \in Threads : pc'[u] \in Using => u # t /\ pc'[u] = pc[u] /\ job'[u] = job[u]
  BY DEF Still
<1>2. /\ \A u \in Threads : pc'[u] = "writing" <=> pc[u] = "writing"
      /\ \A u \in Threads : pc'[u] = "unsafePath" => pc[u] = "unsafePath"
  BY DEF Still, Using
<1>3. \A u, v \in Threads :
         pc'[u] = "stdAddSwitch" /\ acquirers'[Std][1] = Anonymous => pc'[v] \notin Using
  BY <1>1 DEF StdRight, Still
<1> QED
  BY <1>1, <1>2, <1>3 DEF StdRight

\* The list changes: one acquirer joins it and the mode is, or gets, right; or one leaves that is
\* not in use.
LEMMA StdChanges ==
    ASSUME IInv, Undisturbed, NEW t \in Threads, Step(t), StdRight, pc'[t] \notin Using \cup Holding,
           pc[t] \notin Using, owner'[Std] = owner[Std], cnt'[Std] = cnt[Std],
           alibLock \in {t, NoThread},
           Len(acquirers'[Std]) >= 2 => safe'[Std],
           \A u \in Threads \ {t} : pc[u] = "unsafePath" => ~safe'[Std],
           \A u \in Threads \ {t} : pc[u] = "writing" => (safe'[Std] => safe[Std]),
           \A u \in Threads \ {t} : pc[u] \in Using => Contains(acquirers'[Std], job[u])
    PROVE  StdRight'
<1>1. Still(t) /\ Held /\ NoThread \notin Threads
  BY TypedKept, NamesAssumption DEF IInv
<1>2. \A u \in Threads : pc'[u] # "stdAddSwitch"
  BY <1>1 DEF Still, Held, Holding, AddHolds
<1>3. \A u \in Threads : pc'[u] \in Using => u # t /\ pc'[u] = pc[u] /\ job'[u] = job[u]
  BY <1>1 DEF Still
<1>4. /\ \A u \in Threads : pc'[u] = "writing" <=> pc[u] = "writing"
      /\ \A u \in Threads : pc'[u] = "unsafePath" => u # t /\ pc[u] = "unsafePath"
  BY <1>1 DEF Still, Using
<1> QED
  BY <1>2, <1>3, <1>4 DEF StdRight, Using

LEMMA StdLockKept ==
    ASSUME IInv, NEW t \in Threads, Step(t)
    PROVE  StdLock'
<1>1. /\ Typed /\ Held /\ Typed' /\ Still(t)
      /\ Anonymous \notin Loggers /\ Std \notin Loggers /\ Std # Anonymous /\ Std \in SmartLocks
  BY TypedKept, NamesAssumption DEF IInv, SmartLocks
<1> SUFFICES ASSUME crossed' = {}, ~disturbed'
             PROVE  StdRight'
  BY DEF StdLock, Undisturbed
<1>2. Undisturbed /\ StdRight
  <2>1. ~disturbed
    BY DEF Step, AcquireLox, ReleaseLox, Log, AddCall, RemoveCall, Report, PushWriter, PopWriter,
           ReportDone, StdAcquireCall, StdAcquireUnsafe, StdAcquireSafe, StdRelease, LogDone,
           StdAddPlain, StdAddSecond, StdAddFirst, StdAddSwitch, OwnAddPlain, OwnAddSecond,
           OwnAddFirst, StdRemovePlain, StdRemoveOfTwo, StdRemoveOther, StdRemoveSwitch,
           OwnRemovePlain, OwnRemoveOfTwo, OwnRemoveOther, Take, history
  <2>2. crossed \subseteq crossed'
    BY DEF Step, AcquireLox, ReleaseLox, Log, AddCall, RemoveCall, Report, PushWriter, PopWriter,
           ReportDone, StdAcquireCall, StdAcquireUnsafe, StdAcquireSafe, StdRelease, LogDone,
           StdAddPlain, StdAddSecond, StdAddFirst, StdAddSwitch, OwnAddPlain, OwnAddSecond,
           OwnAddFirst, StdRemovePlain, StdRemoveOfTwo, StdRemoveOther, StdRemoveSwitch,
           OwnRemovePlain, OwnRemoveOfTwo, OwnRemoveOther, Take, history
  <2> QED
    BY <2>1, <2>2 DEF IInv, StdLock, Undisturbed
<1>3. /\ \A u \in Threads \ {t} : pc'[u] = pc[u] /\ job'[u] = job[u]
      /\ cnt[Std] \in Int /\ \A u \in Threads : u # NoThread
  BY <1>1, NamesAssumption DEF Still, Typed
<1>4. CASE StdAcquireCall(t)
  <2>1. /\ acquirers' = acquirers /\ safe' = safe /\ owner' = owner /\ cnt' = cnt /\ job' = job
        /\ pc[t] = "logging" /\ pc'[t] = IF safe[Std] THEN "safePath" ELSE "unsafePath"
        /\ Contains(acquirers[Std], job[t])
        /\ ~(acquirers[Std][1] = Anonymous /\ \E u \in Threads : pc[u] = "stdAddSwitch")
    BY <1>1, <1>4 DEF StdAcquireCall, locks, Goto, Typed
  <2>2. /\ \A u \in Threads : pc'[u] = "writing" <=> pc[u] = "writing"
        /\ \A u \in Threads : pc'[u] = "unsafePath" => ~safe[Std]
        /\ \A u \in Threads : pc'[u] \in Using => Contains(acquirers[Std], job[u])
        /\ \A u \in Threads : pc'[u] = "stdAddSwitch" => pc[u] = "stdAddSwitch"
    BY <1>2, <1>3, <2>1 DEF StdRight
  <2>3. \A u \in Threads : pc'[u] = "stdAddSwitch" => acquirers[Std][1] # Anonymous
    BY <2>1, <2>2
  <2> QED
    BY <1>2, <2>1, <2>2, <2>3 DEF StdRight
<1>5. CASE StdAcquireUnsafe(t)
  <2>1. /\ acquirers' = acquirers /\ safe' = safe /\ owner' = owner /\ job' = job
        /\ pc[t] = "unsafePath" /\ pc'[t] = "writing"
        /\ cnt'[Std] = cnt[Std] + 1
    BY <1>1, <1>5 DEF StdAcquireUnsafe, Goto, Typed
  <2>2. ~safe[Std]
    BY <1>2, <2>1 DEF StdRight
  <2>3. \A u \in Threads : pc[u] \in Using => u = t
    BY <1>2, <2>1, <2>2, OneUser DEF Using
  <2>4. cnt[Std] = 0
    BY <1>2, <2>1, <2>3 DEF StdRight, Using
  <2>5. \A u \in Threads : pc'[u] \in Using => u = t
    BY <1>3, <2>3
  <2>6. \A u \in Threads : pc'[u] = "stdAddSwitch" => pc[u] = "stdAddSwitch"
    BY <1>3, <2>1
  <2>7. \A u \in Threads : pc'[u] = "stdAddSwitch" => acquirers[Std][1] # Anonymous
    BY <1>2, <2>1, <2>6 DEF StdRight, Using
  <2>8. Contains(acquirers[Std], job[t])
    BY <1>2, <2>1 DEF StdRight, Using
  <2> QED
    BY <1>2, <2>1, <2>2, <2>4, <2>5, <2>7, <2>8 DEF StdRight, Using
<1>6. CASE StdAcquireSafe(t)
  <2>1. /\ acquirers' = acquirers /\ safe' = safe /\ job' = job
        /\ pc[t] = "safePath" /\ pc'[t] = "writing" /\ owner[Std] \in {t, NoThread}
        /\ owner'[Std] = t /\ cnt'[Std] = IF owner[Std] = t THEN cnt[Std] + 1 ELSE 1
    BY <1>1, <1>6 DEF StdAcquireSafe, Goto, Typed
  <2>2. \A u \in Threads : pc[u] # "writing"
    <3> SUFFICES ASSUME NEW u \in Threads, pc[u] = "writing"
                 PROVE  FALSE
      OBVIOUS
    <3>1. CASE safe[Std]
      BY <1>2, <1>3, <2>1, <3>1 DEF StdRight
    <3>2. CASE ~safe[Std]
      <4>1. u = t
        BY <1>2, <2>1, <3>2, OneUser DEF Using
      <4> QED
        BY <2>1, <4>1
    <3> QED
      BY <3>1, <3>2
  <2>3. cnt[Std] = 0 /\ cnt'[Std] = 1
    BY <1>2, <2>1, <2>2 DEF StdRight
  <2>4. \A u \in Threads : pc'[u] = "writing" => u = t
    BY <1>3, <2>2
  <2>5. /\ \A u \in Threads : pc'[u] = "unsafePath" => ~safe[Std]
        /\ \A u \in Threads : pc'[u] = "stdAddSwitch" => pc[u] = "stdAddSwitch"
        /\ \A u \in Threads : pc'[u] \in Using <=> pc[u] \in Using
    BY <1>2, <1>3, <2>1 DEF StdRight, Using
  <2> QED
    BY <1>2, <2>1, <2>3, <2>4, <2>5 DEF StdRight
<1>7. CASE StdRelease(t)
  <2>1. /\ acquirers' = acquirers /\ safe' = safe /\ job' = job
        /\ pc[t] = "writing" /\ pc'[t] = "written" /\ cnt'[Std] = cnt[Std] - 1
    BY <1>1, <1>7 DEF StdRelease, CountReleased, Goto, Typed
  <2>2. cnt'[Std] = 0
    BY <1>2, <2>1 DEF StdRight
  <2>3. \A u \in Threads : pc'[u] # "writing"
    BY <1>2, <1>3, <2>1, OneWrites
  <2>4. /\ \A u \in Threads : pc'[u] = "unsafePath" => pc[u] = "unsafePath"
        /\ \A u \in Threads : pc'[u] = "stdAddSwitch" => pc[u] = "stdAddSwitch"
        /\ \A u \in Threads : pc'[u] \in Using => pc[u] \in Using
    BY <1>3, <2>1 DEF Using
  <2> QED
    BY <1>2, <2>1, <2>2, <2>3, <2>4 DEF StdRight
<1>8. CASE StdAddPlain(t)
  <2>1. /\ safe' = safe /\ owner' = owner /\ cnt' = cnt /\ alibLock = NoThread
        /\ pc[t] = "stdAdd" /\ pc'[t] \in {"written", "ownAdd"}
        /\ Known(t) \/ Len(acquirers[Std]) # 1
        /\ Known(t) => acquirers' = acquirers
    BY <1>1, <1>8 DEF StdAddPlain, AfterStd, Goto, Typed
  <2>2. acquirers' = acquirers \/ (Joined(Std, job[t]) /\ Len(acquirers[Std]) # 1)
    BY <1>8, <2>1, StdJoins
  <2>3. Len(acquirers[Std]) \in Nat
    BY <1>1, ListTyped DEF IInv, Typed
  <2>4. /\ Len(acquirers'[Std]) >= 2 => safe'[Std]
        /\ \A a : Contains(acquirers[Std], a) => Contains(acquirers'[Std], a)
    <3>1. CASE acquirers' = acquirers
      BY <1>2, <2>1, <3>1 DEF StdRight
    <3>2. CASE Joined(Std, job[t]) /\ Len(acquirers[Std]) # 1
      <4>1. /\ Len(acquirers'[Std]) = Len(acquirers[Std]) + 1 /\ Len(acquirers[Std]) # 1
            /\ \A a : Contains(acquirers[Std], a) => Contains(acquirers'[Std], a)
        BY <3>2 DEF Joined
      <4>2. Len(acquirers[Std]) >= 2 => safe'[Std]
        BY <1>2, <2>1 DEF StdRight
      <4>3. Len(acquirers'[Std]) >= 2 => Len(acquirers[Std]) >= 2
        <5>1. PICK n \in Nat : n = Len(acquirers[Std])
          BY <2>3
        <5>2. PICK m \in Nat : m = n + 1 /\ m = Len(acquirers'[Std]) /\ n # 1
          BY <4>1, <5>1
        <5>3. m >= 2 => n >= 2
          BY <5>2
        <5> QED
          BY <5>1, <5>2, <5>3, Zenon
      <4> QED
        BY <4>1, <4>2, <4>3
    <3> QED
      BY <2>2, <3>1, <3>2
  <2> QED
    BY <1>2, <2>1, <2>4, StdChanges
       DEF StdRight, Using, Holding, AddHolds, RemHolds
<1>9. CASE StdAddSwitch(t)
  <2>1. /\ safe' = Switched(Std, TRUE) /\ alibLock = t
        /\ pc[t] = "stdAddSwitch" /\ pc'[t] \in {"written", "ownAdd"}
        /\ owner'[Std] = owner[Std] /\ cnt'[Std] = cnt[Std]
    <3>1. pc[t] \in AddHolds
      BY <1>9 DEF StdAddSwitch, AddHolds
    <3>2. CASE acquirers[Std][1] = Anonymous
      BY <1>1, <1>9, <3>1, <3>2 DEF StdAddSwitch, AfterStd, Goto, Typed, Held, Holding
    <3>3. CASE acquirers[Std][1] # Anonymous
      <4>1. acquirers[Std][1] # Std
        BY <1>1, <3>1, <3>3, FirstIsLogger
      <4> QED
        BY <1>1, <1>9, <3>1, <3>3, <4>1
           DEF StdAddSwitch, AfterStd, Goto, Typed, Held, Holding, OwnerReleased, CountReleased
    <3> QED
      BY <3>2, <3>3
  <2>2. \A u \in Threads : pc[u] \notin Using
    BY <1>2, <2>1, SwitchUnused
  <2>3. cnt[Std] = 0
    BY <1>2, <2>2 DEF StdRight, Using
  <2>4. safe'[Std]
    <3>1. CASE safe[Std]
      BY <1>1, <2>1, <3>1 DEF Switched, Typed
    <3>2. CASE ~safe[Std]
      BY <1>1, <2>1, <2>3, <3>2 DEF Switched, Typed
    <3> QED
      BY <3>1, <3>2
  <2> QED
    BY <1>2, <2>1, <2>2, <2>4, StdChanges DEF Using, Holding, AddHolds, RemHolds
<1>10. CASE StdRemovePlain(t)
  <2>1. /\ safe' = safe /\ owner' = owner /\ cnt' = cnt /\ alibLock = NoThread
        /\ pc[t] = "stdRemove" /\ pc'[t] \in {"written", "ownRemove"}
        /\ ~Contains(acquirers[Std], job[t]) \/ Len(acquirers[Std]) # 2
    BY <1>1, <1>10 DEF StdRemovePlain, AfterStd, Goto, Typed
  <2>2. acquirers' = acquirers \/ (Left(Std, job[t]) /\ Len(acquirers[Std]) # 2)
    BY <1>1, <1>10, <2>1, StdLeaves, StdSame DEF Typed
  <2>3. Len(acquirers[Std]) \in Nat
    BY <1>1, ListTyped DEF IInv, Typed
  <2>4. /\ Len(acquirers'[Std]) >= 2 => safe'[Std]
        /\ \A a : Contains(acquirers[Std], a) /\ a # job[t] => Contains(acquirers'[Std], a)
    BY <1>2, <2>1, <2>2, <2>3 DEF StdRight, Left
  <2>5. \A u \in Threads : pc[u] \in Using => Contains(acquirers'[Std], job[u])
    BY <1>2, <2>1, <2>4, RemovedUnused DEF StdRight, StdRemoving
  <2> QED
    BY <1>2, <2>1, <2>4, <2>5, StdChanges
       DEF StdRight, Using, Holding, AddHolds, RemHolds
<1>11. CASE StdRemoveSwitch(t)
  <2>1. /\ safe' = Switched(Std, FALSE) /\ alibLock = t
        /\ pc[t] = "stdRemoveSwitch" /\ pc'[t] \in {"written", "ownRemove"}
        /\ owner'[Std] = owner[Std] /\ cnt'[Std] = cnt[Std]
    <3>1. pc[t] \in RemHolds
      BY <1>11 DEF StdRemoveSwitch, RemHolds
    <3>2. CASE Remaining(Std, job[t]) = Anonymous
      BY <1>1, <1>11, <3>1, <3>2 DEF StdRemoveSwitch, AfterStd, Goto, Typed, Held, Holding
    <3>3. CASE Remaining(Std, job[t]) # Anonymous
      <4>1. Remaining(Std, job[t]) # Std
        BY <1>1, <3>1, <3>3, RemainingIsLogger
      <4> QED
        BY <1>1, <1>11, <3>1, <3>3, <4>1
           DEF StdRemoveSwitch, AfterStd, Goto, Typed, Held, Holding, OwnerReleased,
               CountReleased
    <3> QED
      BY <3>2, <3>3
  <2>2. safe'[Std] => safe[Std]
    <3>1. CASE safe[Std]
      BY <3>1
    <3>2. CASE ~safe[Std]
      BY <1>1, <2>1, <3>2 DEF Switched, Typed
    <3> QED
      BY <3>1, <3>2
  <2>3. Left(Std, job[t]) /\ Len(acquirers[Std]) = 2
    BY <1>11, <2>1, StdLeaves DEF IInv, Switching, RemHolds
  <2>4. /\ ~(Len(acquirers'[Std]) >= 2)
        /\ \A a : Contains(acquirers[Std], a) /\ a # job[t] => Contains(acquirers'[Std], a)
    BY <2>3 DEF Left
  <2>5. \A u \in Threads : pc[u] \in Using => Contains(acquirers'[Std], job[u])
    BY <1>2, <2>1, <2>4, RemovedUnused DEF StdRight, StdRemoving
  <2> QED
    BY <1>2, <2>1, <2>2, <2>4, <2>5, StdChanges
       DEF StdRight, Using, Holding, AddHolds, RemHolds
<1>12. ASSUME ~(StdAcquireCall(t) \/ StdAcquireUnsafe(t) \/ StdAcquireSafe(t) \/ StdRelease(t)),
              ~(StdAddPlain(t) \/ StdAddSwitch(t) \/ StdRemovePlain(t) \/ StdRemoveSwitch(t))
       PROVE  StdRight'
  <2>1. acquirers'[Std] = acquirers[Std]
    BY <1>1, <1>12, ListsKept DEF Changes, Joined, Left, OthersKept
  <2>2. /\ safe'[Std] = safe[Std] /\ owner'[Std] = owner[Std] /\ cnt'[Std] = cnt[Std]
        /\ pc[t] \notin Using /\ pc'[t] \notin Using
        /\ pc'[t] = "stdAddSwitch" /\ acquirers[Std][1] = Anonymous
             => \A u \in Threads : pc[u] \notin Using
    <3>1. CASE \E l \in Loxes : AcquireLox(t, l)
      BY <1>1, <3>1
         DEF AcquireLox, Typed, locks, Goto, WorkOn, Using, Take, OwnerTaken, CountTaken,
            OwnerReleased, CountReleased, Switched
    <3>2. CASE ReleaseLox(t)
      BY <1>1, <3>2
         DEF ReleaseLox, Typed, locks, Goto, WorkOn, Using, Take, OwnerTaken, CountTaken,
            OwnerReleased, CountReleased, Switched
    <3>3. CASE \E g \in Loggers : Log(t, g)
      BY <1>1, <3>3
         DEF Log, Typed, locks, Goto, WorkOn, Using, Take, OwnerTaken, CountTaken,
            OwnerReleased, CountReleased, Switched
    <3>4. CASE \E g \in Loggers : AddCall(t, g)
      BY <1>1, <3>4
         DEF AddCall, Typed, locks, Goto, WorkOn, Using, Take, OwnerTaken, CountTaken,
            OwnerReleased, CountReleased, Switched
    <3>5. CASE \E g \in Loggers : RemoveCall(t, g)
      BY <1>1, <3>5
         DEF RemoveCall, Typed, locks, Goto, WorkOn, Using, Take, OwnerTaken, CountTaken,
            OwnerReleased, CountReleased, Switched
    <3>6. CASE Report(t)
      BY <1>1, <3>6
         DEF Report, Typed, locks, Goto, WorkOn, Using, Take, OwnerTaken, CountTaken,
            OwnerReleased, CountReleased, Switched
    <3>7. CASE PushWriter(t)
      BY <1>1, <3>7
         DEF PushWriter, Typed, locks, Goto, WorkOn, Using, Take, OwnerTaken, CountTaken,
            OwnerReleased, CountReleased, Switched
    <3>8. CASE PopWriter(t)
      BY <1>1, <3>8
         DEF PopWriter, Typed, locks, Goto, WorkOn, Using, Take, OwnerTaken, CountTaken,
            OwnerReleased, CountReleased, Switched
    <3>9. CASE ReportDone(t)
      BY <1>1, <3>9
         DEF ReportDone, Typed, locks, Goto, WorkOn, Using, Take, OwnerTaken, CountTaken,
            OwnerReleased, CountReleased, Switched
    <3>10. CASE LogDone(t)
      <4>1. job[t] # Std
        BY <1>1 DEF Typed
      <4> QED
        BY <1>1, <3>10, <4>1
           DEF LogDone, Typed, locks, Goto, WorkOn, Using, Take, OwnerTaken, CountTaken,
            OwnerReleased, CountReleased, Switched
    <3>11. CASE StdAddSecond(t)
      BY <1>1, <3>11
         DEF StdAddSecond, Typed, locks, Goto, WorkOn, Using, Take, OwnerTaken, CountTaken,
            OwnerReleased, CountReleased, Switched
    <3>12. CASE StdAddFirst(t)
      <4>1. acquirers[Std][1] # Anonymous /\ acquirers[Std][1] # Std
        BY <1>1, <3>12, FirstIsLogger DEF StdAddFirst, IInv, Switching, AddHolds
      <4> QED
        BY <1>1, <3>12, <4>1
           DEF StdAddFirst, Typed, locks, Goto, WorkOn, Using, Take, OwnerTaken, CountTaken,
            OwnerReleased, CountReleased, Switched
    <3>13. CASE OwnAddPlain(t)
      BY <1>1, <3>13
         DEF OwnAddPlain, Typed, locks, Goto, WorkOn, Using, Take, OwnerTaken, CountTaken,
            OwnerReleased, CountReleased, Switched
    <3>14. CASE OwnAddSecond(t)
      BY <1>1, <3>14
         DEF OwnAddSecond, Typed, locks, Goto, WorkOn, Using, Take, OwnerTaken, CountTaken,
            OwnerReleased, CountReleased, Switched
    <3>15. CASE OwnAddFirst(t)
      <4>1. job[t] # Std
        BY <1>1 DEF Typed
      <4> QED
        BY <1>1, <3>15, <4>1
           DEF OwnAddFirst, Typed, locks, Goto, WorkOn, Using, Take, OwnerTaken, CountTaken,
            OwnerReleased, CountReleased, Switched
    <3>16. CASE StdRemoveOfTwo(t)
      BY <1>1, <3>16
         DEF StdRemoveOfTwo, Typed, locks, Goto, WorkOn, Using, Take, OwnerTaken, CountTaken,
            OwnerReleased, CountReleased, Switched
    <3>17. CASE StdRemoveOther(t)
      <4>1. Remaining(Std, job[t]) # Std
        BY <1>1, <3>17, RemainingIsLogger DEF StdRemoveOther, IInv, Switching, RemHolds
      <4> QED
        BY <1>1, <3>17, <4>1
           DEF StdRemoveOther, Typed, locks, Goto, WorkOn, Using, Take, OwnerTaken, CountTaken,
            OwnerReleased, CountReleased, Switched
    <3>18. CASE OwnRemovePlain(t)
      BY <1>1, <3>18
         DEF OwnRemovePlain, Typed, locks, Goto, WorkOn, Using, Take, OwnerTaken, CountTaken,
            OwnerReleased, CountReleased, Switched
    <3>19. CASE OwnRemoveOfTwo(t)
      BY <1>1, <3>19
         DEF OwnRemoveOfTwo, Typed, locks, Goto, WorkOn, Using, Take, OwnerTaken, CountTaken,
            OwnerReleased, CountReleased, Switched
    <3>20. CASE OwnRemoveOther(t)
      <4>1. job[t] # Std
        BY <1>1 DEF Typed
      <4> QED
        BY <1>1, <3>20, <4>1
           DEF OwnRemoveOther, Typed, locks, Goto, WorkOn, Using, Take, OwnerTaken, CountTaken,
            OwnerReleased, CountReleased, Switched
    <3> QED
      BY <1>12, <3>1, <3>2, <3>3, <3>4, <3>5, <3>6, <3>7, <3>8, <3>9, <3>10, <3>11, <3>12,
         <3>13, <3>14, <3>15, <3>16, <3>17, <3>18, <3>19, <3>20 DEF Step
  <2> QED
    BY <1>1, <1>2, <2>1, <2>2, StdStill
<1> QED
  BY <1>4, <1>5, <1>6, <1>7, <1>8, <1>9, <1>10, <1>11, <1>12

-----------------------------------------------------------------------------
(***************************************************************************)
(* The invariant.                                                          *)
(***************************************************************************)
LEMMA InitIInv ==
    ASSUME Init
    PROVE  IInv
<1>1. Std \in SmartLocks /\ Std \notin Loggers /\ Loggers \subseteq SmartLocks
  BY NamesAssumption DEF SmartLocks
<1>2. PICK q : q = <<Anonymous>>
  OBVIOUS
<1>3. q \in Seq(Loggers \cup {Anonymous}) /\ Len(q) = 1 /\ DOMAIN q = {1} /\ q[1] = Anonymous
  BY <1>2
<1>4. acquirers[Std] = q /\ \A g \in Loggers : acquirers[g] = << >>
  BY <1>1, <1>2 DEF Init
<1>5. Typed
  <2>1. ListsTyped
    <3>1. acquirers = [s \in SmartLocks |-> acquirers[s]]
      BY DEF Init
    <3>2. \A g \in Loggers : acquirers[g] \in Seq(LoxesOf[g])
      BY <1>4, EmptySeq
    <3> QED
      BY <1>3, <1>4, <3>1, <3>2 DEF ListsTyped
  <2>2. /\ owner \in [SmartLocks -> Threads \cup {NoThread}]
        /\ job \in [Threads -> Loggers \cup {Anonymous}]
        /\ mine \in [Threads -> Loxes \cup {NoLox}]
        /\ pc \in [Threads -> Locations]
    BY DEF Init, Locations
  <2>3. cnt \in [SmartLocks -> Int] /\ registrations \in [Loggers -> Int]
    BY DEF Init
  <2>4. safe \in [SmartLocks -> BOOLEAN]
    BY DEF Init
  <2>5. /\ alibLock \in Threads \cup {NoThread} /\ console \in BOOLEAN
        /\ crossed \in SUBSET Loggers /\ disturbed \in BOOLEAN
    BY DEF Init
  <2> QED
    BY <2>1, <2>2, <2>3, <2>4, <2>5 DEF Typed
<1>6. Lists
  BY <1>1, <1>3, <1>4 DEF Lists, Once, SmartLocks
<1>7. \A t \in Threads : pc[t] = "idle" /\ job[t] = Anonymous
  BY DEF Init
<1>8. Held /\ Working /\ Switching
  BY <1>7, NamesAssumption
     DEF Init, Held, Working, Switching, Reporting, Holding, AddHolds, RemHolds, OwnStages
<1>9. Counted
  <2>1. \A g \in Loggers : At(g, Adding) = {} /\ At(g, Removing) = {}
    BY <1>7, NamesAssumption DEF At
  <2>2. \A g \in Loggers : registrations[g] = 0 /\ Len(acquirers[g]) = 0
    BY <1>4 DEF Init
  <2>3. IsFiniteSet({}) /\ Cardinality({}) = 0 /\ 0 = 0 + 0 - 0
    BY FS_EmptySet
  <2> QED
    BY <2>1, <2>2, <2>3 DEF Counted
<1>10. Listed
  <2>1. \A a : At(a, StdAdding \cup StdRemoving) = {} /\ At(a, StdAdding) = {}
               /\ At(a, StdRemoving) = {} /\ At(a, InStd) = {}
    BY <1>7 DEF At, StdAdding, StdRemoving, InStd, Using
  <2>2. \A a : Contains(acquirers[Std], a) <=> a = Anonymous
    <3>1. 1..1 = {1}
      OBVIOUS
    <3>2. \A a : Contains(q, a) <=> \E i \in {1} : q[i] = a
      BY <1>3, <3>1, Zenon DEF Contains
    <3> QED
      BY <1>3, <1>4, <3>2
  <2>3. \A a \in Loggers \cup {Anonymous} : Wanted(a) <=> a = Anonymous
    BY NamesAssumption DEF Init, Wanted
  <2> QED
    BY <2>1, <2>2, <2>3 DEF Listed, ListedRight
<1>11. OwnLocks
  <2>1. \A g \in Loggers : Inside(g) = {}
    BY <1>7, NamesAssumption DEF Inside, At
  <2> QED
    BY <1>1, <2>1 DEF Init, OwnLocks, OwnRight
<1>12. StdLock
  <2>1. ~(Len(acquirers[Std]) >= 2) /\ cnt[Std] = 0
    BY <1>1, <1>3, <1>4 DEF Init
  <2> QED
    BY <1>7, <2>1 DEF StdLock, StdRight, Using
<1> QED
  BY <1>5, <1>6, <1>8, <1>9, <1>10, <1>11, <1>12 DEF IInv

LEMMA NextIInv ==
    ASSUME IInv, [Next]_vars
    PROVE  IInv'
<1>1. ASSUME NEW t \in Threads, Step(t)
      PROVE  IInv'
  BY <1>1, TypedKept, ListsKept, HeldKept, WorkingKept, SwitchingKept, CountedKept, ListedKept,
     OwnLocksKept, StdLockKept DEF IInv
<1>2. ASSUME Next
      PROVE  \E t \in Threads : Step(t)
  BY <1>2 DEF Next, Step
<1>3. CASE UNCHANGED vars
  <2>1. /\ UNCHANGED <<acquirers, safe, owner, cnt, registrations, alibLock>>
        /\ UNCHANGED <<mine, job, console, pc, crossed, disturbed>>
    BY <1>3 DEF vars, locks, history
  <2>2. Typed' /\ Lists' /\ Held' /\ Working' /\ Switching'
    BY <2>1
       DEF IInv, Typed, ListsTyped, Lists, Held, Working, Switching, Remaining, Attached, Reporting
  <2>3. Counted' /\ Listed'
    BY <2>1 DEF IInv, Counted, Listed, ListedRight, Wanted, At
  <2>4. OwnLocks'
    BY <2>1 DEF IInv, OwnLocks, OwnRight, Inside, Guard, Remaining, At
  <2>5. StdLock'
    BY <2>1 DEF IInv, StdLock, StdRight, Undisturbed
  <2> QED
    BY <2>2, <2>3, <2>4, <2>5 DEF IInv
<1> QED
  BY <1>1, <1>2, <1>3

THEOREM Invariant == Spec => []IInv
<1>1. Init => IInv
  BY InitIInv
<1>2. IInv /\ [Next]_vars => IInv'
  BY NextIInv
<1> QED
  BY <1>1, <1>2, PTL DEF Spec

-----------------------------------------------------------------------------
\* A counter is not above the number of Loxes: those that are attached and those that are being
\* attached are different ones.
LEMMA CounterBounded ==
    ASSUME IInv, IsFiniteSet(Loxes), NEW g \in Loggers
    PROVE  registrations[g] \in 0..Cardinality(Loxes)
<1>1. PICK n \in Nat : n = Len(acquirers[g]) /\ DOMAIN acquirers[g] = 1..n
  <2>1. acquirers[g] \in Seq(LoxesOf[g])
    BY DEF IInv, Typed, ListsTyped
  <2> QED
    BY <2>1
<1>2. \A i \in 1..n : acquirers[g][i] \in LoxesOf[g]
  <2>1. acquirers[g] \in Seq(LoxesOf[g])
    BY DEF IInv, Typed, ListsTyped
  <2> QED
    BY <1>1, <2>1
<1>3. LoxesOf[g] \subseteq Loxes /\ g \in SmartLocks /\ g # Anonymous
  BY NamesAssumption DEF SmartLocks
<1> DEFINE A == {l \in Loxes : Attached(g, l)}
<1>4. IsFiniteSet(A) /\ n <= Cardinality(A)
  <2>1. IsFiniteSet(A)
    BY FS_Subset
  <2> DEFINE f == [i \in 1..n |-> acquirers[g][i]]
  <2>2. \A i \in 1..n : f[i] \in A
    BY <1>1, <1>2, <1>3 DEF Attached, Contains
  <2>3. \A i, j \in 1..n : f[i] = f[j] => i = j
    <3>1. \A i, j \in 1..n : acquirers[g][i] = acquirers[g][j] => i = j
      <4>1. \A a : Once(acquirers[g], a)
        BY <1>3 DEF IInv, Lists
      <4> QED
        BY <1>1, <4>1 DEF Once
    <3> QED
      BY <3>1
  <2>4. f \in Injection(1..n, A)
    BY <2>2, <2>3 DEF Injection, IsInjective
  <2>5. Cardinality(1..n) <= Cardinality(A)
    BY <2>1, <2>4, FS_Injection
  <2>6. Cardinality(1..n) = n
    BY FS_Interval
  <2> QED
    BY <2>1, <2>5, <2>6
<1>5. /\ IsFiniteSet(Loxes \ A)
      /\ Cardinality(Loxes \ A) = Cardinality(Loxes) - Cardinality(A)
  <2>1. Loxes \cap A = A
    OBVIOUS
  <2> QED
    BY <2>1, FS_Difference
<1>6. Cardinality(At(g, Adding)) <= Cardinality(Loxes \ A)
  <2> DEFINE h == [t \in At(g, Adding) |-> mine[t]]
  <2>1. \A t \in At(g, Adding) : mine[t] \in Loxes \ A
    BY <1>3 DEF IInv, Working, At
  <2>2. \A t, u \in At(g, Adding) : mine[t] = mine[u] => t = u
    BY <2>1, NamesAssumption DEF IInv, Held, At
  <2>3. h \in Injection(At(g, Adding), Loxes \ A)
    BY <2>1, <2>2 DEF Injection, IsInjective
  <2> QED
    BY <1>5, <2>3, FS_Injection
<1> HIDE DEF A
<1>7. PICK a \in Nat, r \in Nat, l \in Nat, k \in Nat :
        /\ a = Cardinality(At(g, Adding)) /\ r = Cardinality(At(g, Removing))
        /\ l = Cardinality(Loxes) /\ k = Cardinality(A)
  BY <1>4, CountedNumbers, FS_CardinalityType
<1>8. registrations[g] = n + a - r
  BY <1>1, <1>7, CountedNumbers DEF CountedFor
<1>9. a <= l - k /\ n <= k
  BY <1>4, <1>5, <1>6, <1>7
<1>10. n + a - r \in Int /\ n + a - r <= l
  BY <1>9
<1>11. registrations[g] >= 0 /\ registrations[g] \in Int
  BY NotNegative, CountedNumbers
<1> QED
  BY <1>7, <1>8, <1>10, <1>11

(***************************************************************************)
(* The variables keep their types, and the counter of a logger stays       *)
(* between zero and the number of Loxes.                                   *)
(***************************************************************************)
THEOREM TypeCorrect == ASSUME IsFiniteSet(Loxes) PROVE Spec => []TypeOK
<1>1. ASSUME IInv
      PROVE  TypeOK
  <2>1. ASSUME NEW s \in SmartLocks
        PROVE  acquirers[s] \in Seq(Loggers \cup Loxes \cup {Anonymous})
    <3>1. CASE s = Std
      <4>1. acquirers[s] \in Seq(Loggers \cup {Anonymous})
        BY <1>1, <3>1 DEF IInv, Typed, ListsTyped
      <4> QED
        BY <4>1
    <3>2. CASE s \in Loggers
      <4>1. LoxesOf[s] \subseteq Loggers \cup Loxes \cup {Anonymous}
        BY <3>2, NamesAssumption
      <4>2. acquirers[s] \in Seq(LoxesOf[s])
        BY <1>1, <3>2 DEF IInv, Typed, ListsTyped
      <4> QED
        BY <4>1, <4>2
    <3> QED
      BY <3>1, <3>2 DEF SmartLocks
  <2>2. acquirers \in [SmartLocks -> Seq(Loggers \cup Loxes \cup {Anonymous})]
    BY <1>1, <2>1 DEF IInv, Typed, ListsTyped
  <2>3. registrations \in [Loggers -> 0..Cardinality(Loxes)]
    BY <1>1, CounterBounded DEF IInv, Typed
  <2> QED
    BY <1>1, <2>2, <2>3 DEF TypeOK, IInv, Typed
<1>2. IInv => TypeOK
  BY <1>1
<1>3. Spec => []IInv
  BY Invariant
<1> QED
  BY <1>2, <1>3, PTL

(***************************************************************************)
(* The lines of loggers and the reports of the console writer are not      *)
(* mixed on the standard output (textlogger.cpp:720, report.cpp:53) while  *)
(* loggers are attached and detached and the report writer changes, unless *)
(* something has disturbed the lock before.                                *)
(***************************************************************************)
THEOREM OneWriterAlways == Spec => []OneWriter
<1>1. IInv => OneWriter
  BY OneWrites DEF OneWriter
<1>2. Spec => []IInv
  BY Invariant
<1> QED
  BY <1>1, <1>2, PTL

(***************************************************************************)
(* StdOutputStreamsLock has its mutex whenever two acquirers are           *)
(* registered with it (threadlock.cpp:319), unless something has disturbed *)
(* it before.                                                              *)
(***************************************************************************)
THEOREM SafeForTwoAlways == Spec => []SafeForTwo
<1>1. IInv => SafeForTwo
  BY DEF IInv, StdLock, StdRight, SafeForTwo
<1>2. Spec => []IInv
  BY Invariant
<1> QED
  BY <1>1, <1>2, PTL

(***************************************************************************)
(* A logger that acquires StdOutputStreamsLock (textlogger.cpp:720) is     *)
(* registered with it, or about to be, however many threads register it at *)
(* the same time (textlogger.cpp:601), unless an addition has crossed a    *)
(* removal.                                                                *)
(***************************************************************************)
THEOREM RegisteredBeforeUseAlways == Spec => []RegisteredBeforeUse
<1>1. ASSUME IInv
      PROVE  RegisteredBeforeUse
  <2> SUFFICES ASSUME NEW t \in Threads, pc[t] \in Using, job[t] \notin crossed
               PROVE  Contains(acquirers[Std], job[t]) \/ At(job[t], StdAdding) # {}
    BY DEF RegisteredBeforeUse
  <2>1. ListedRight(job[t])
    BY <1>1 DEF IInv, Typed, Listed
  <2>2. t \in At(job[t], InStd)
    BY DEF At, InStd
  <2>3. Wanted(job[t])
    BY <2>1, <2>2 DEF ListedRight
  <2>4. CASE At(job[t], StdAdding) = {}
    <3>1. At(job[t], StdAdding \cup StdRemoving) = {}
      BY <2>1, <2>3, <2>4 DEF ListedRight, At
    <3> QED
      BY <2>1, <2>3, <3>1 DEF ListedRight
  <2> QED
    BY <2>4
<1>2. IInv => RegisteredBeforeUse
  BY <1>1
<1>3. Spec => []IInv
  BY Invariant
<1> QED
  BY <1>2, <1>3, PTL

(***************************************************************************)
(* The counter of a logger is the number of Loxes it is attached to,       *)
(* corrected by the registrations under way, whatever their number and     *)
(* order (textlogger.cpp:597, 623).                                        *)
(***************************************************************************)
THEOREM CounterExactAlways == Spec => []CounterExact
<1>1. IInv => CounterExact
  BY DEF IInv, Counted, CounterExact
<1>2. Spec => []IInv
  BY Invariant
<1> QED
  BY <1>1, <1>2, PTL
=============================================================================
