---------------------------- MODULE SmartLockProofs ----------------------------
(***************************************************************************)
(* What MCSmartLock.cfg checks for three threads, three Loxes and two      *)
(* anonymous registrations, proved for any number of them.                 *)
(*                                                                         *)
(* One thread uses the lock although there is no mutex, because only one   *)
(* acquirer is registered and only one thread holds it. So the proof is    *)
(* about who holds which Lox, and who is registered. When the mode becomes *)
(* Safe nobody is in the lock: the first acquirer is held by the thread    *)
(* that switches, or anonymous and kept away. When it becomes Unsafe, or   *)
(* stays Safe because an anonymous acquirer uses the lock, one thread at   *)
(* most is in it, which may be about to use the deleted mutex.             *)
(***************************************************************************)
EXTENDS SmartLock, FiniteSetTheorems, SequenceTheorems, TLAPS

(***************************************************************************)
(* Lists: what is in them, how often, and what adding and removing leaves. *)
(***************************************************************************)
\* A set of natural numbers that is not empty has a least element.
LEMMA LeastExists ==
    ASSUME NEW S \in SUBSET Nat, S # {}
    PROVE  \E n \in S : \A m \in S : n <= m
<1> DEFINE R == OpToRel(<, Nat)
<1>1. \A m, n \in Nat : m < n => <<m, n>> \in R
  BY DEF OpToRel
<1>2. IsWellFoundedOn(R, Nat)
  BY NatLessThanWellFounded
<1> HIDE DEF R
<1>3. PICK n \in S : \A m \in S : <<m, n>> \notin R
  BY <1>2, WFMin
<1>4. ASSUME NEW m \in S
      PROVE  n <= m
  <2>1. m \in Nat /\ n \in Nat /\ ~(m < n)
    BY <1>1, <1>3
  <2> QED
    BY <2>1
<1> QED
  BY <1>4

\* The same of Min, that chooses it.
LEMMA MinIsLeast ==
    ASSUME NEW S \in SUBSET Nat, S # {}
    PROVE  Min(S) \in S /\ \A m \in S : Min(S) <= m
BY LeastExists DEF Min

\* The first index at which a sequence has e; the sequence that RemoveFirst leaves.
FirstAt(s, e, i) == i \in DOMAIN s /\ s[i] = e /\ \A j \in DOMAIN s : s[j] = e => i <= j

\* RemoveFirst takes the first e out, and keeps everything else in its order.
LEMMA RemoveFirstFound ==
    ASSUME NEW S, NEW s \in Seq(S), NEW e, Contains(s, e)
    PROVE  \E i \in DOMAIN s :
             /\ FirstAt(s, e, i)
             /\ RemoveFirst(s, e) \in Seq(S)
             /\ Len(RemoveFirst(s, e)) = Len(s) - 1
             /\ \A j \in 1..(Len(s) - 1) : RemoveFirst(s, e)[j] = IF j < i THEN s[j] ELSE s[j + 1]
<1> DEFINE I == {j \in 1..Len(s) : s[j] = e}
           i == Min(I)
<1>1. I \in SUBSET Nat /\ I # {} /\ DOMAIN s = 1..Len(s)
  BY DEF Contains
<1>2. i \in I /\ \A j \in I : i <= j
  BY <1>1, MinIsLeast
<1>3. RemoveFirst(s, e) = RemoveAt(s, i)
  BY <1>1 DEF RemoveFirst, SelectInSeq
<1> HIDE DEF i
<1>4. RemoveFirst(s, e) = SubSeq(s, 1, i - 1) \o SubSeq(s, i + 1, Len(s))
  BY <1>3 DEF RemoveAt
<1>5. i \in 1..Len(s) /\ s[i] = e /\ Len(s) \in Nat
  BY <1>2
<1>6. FirstAt(s, e, i) /\ i \in DOMAIN s
  BY <1>1, <1>2 DEF FirstAt
<1> DEFINE front == SubSeq(s, 1, i - 1)
           rest  == SubSeq(s, i + 1, Len(s))
<1>7. /\ front \in Seq(S) /\ Len(front) = i - 1
      /\ \A j \in 1..(i - 1) : front[j] = s[j]
  BY <1>5, SubSeqProperties
<1>8. /\ rest \in Seq(S) /\ Len(rest) = Len(s) - i
      /\ \A j \in 1..(Len(s) - i) : rest[j] = s[i + j]
  BY <1>5, SubSeqProperties
<1>9. /\ RemoveFirst(s, e) \in Seq(S)
      /\ Len(RemoveFirst(s, e)) = Len(front) + Len(rest)
      /\ \A j \in 1..(Len(front) + Len(rest)) :
            RemoveFirst(s, e)[j] = IF j <= Len(front) THEN front[j] ELSE rest[j - Len(front)]
  BY <1>4, <1>7, <1>8, ConcatProperties
<1> HIDE DEF front, rest
<1>10. ASSUME NEW j \in 1..(Len(s) - 1)
       PROVE  RemoveFirst(s, e)[j] = IF j < i THEN s[j] ELSE s[j + 1]
  <2>1. j \in Nat /\ i \in Nat /\ Len(front) = i - 1 /\ j \in 1..(Len(front) + Len(rest))
    BY <1>5, <1>7, <1>8
  <2>2. RemoveFirst(s, e)[j] = IF j <= i - 1 THEN front[j] ELSE rest[j - (i - 1)]
    BY <2>1, <1>9
  <2>3. CASE j < i
    <3>1. j <= i - 1 /\ j \in 1..(i - 1)
      BY <2>1, <2>3
    <3> QED
      BY <2>2, <2>3, <3>1, <1>7
  <2>4. CASE ~(j < i)
    <3>1. j - (i - 1) \in 1..(Len(s) - i) /\ i + (j - (i - 1)) = j + 1 /\ ~(j <= i - 1)
      BY <2>1, <2>4, <1>5
    <3> QED
      BY <2>2, <2>4, <3>1, <1>8
  <2> QED
    BY <2>3, <2>4
<1>11. Len(RemoveFirst(s, e)) = Len(s) - 1
  BY <1>5, <1>7, <1>8, <1>9
<1> QED
  BY <1>6, <1>9, <1>10, <1>11

\* Without an e, RemoveFirst leaves the sequence alone.
LEMMA RemoveFirstAbsent ==
    ASSUME NEW s, NEW e, ~Contains(s, e)
    PROVE  RemoveFirst(s, e) = s
BY DEF Contains, RemoveFirst

Indexes(s, a) == {i \in DOMAIN s : s[i] = a}

Once(s, a) == \A i, j \in Indexes(s, a) : i = j

\* An element is there if it has an index.
LEMMA ContainsIndexes ==
    ASSUME NEW S, NEW s \in Seq(S), NEW a
    PROVE  /\ Contains(s, a) <=> Indexes(s, a) # {}
           /\ IsFiniteSet(Indexes(s, a)) /\ Cardinality(Indexes(s, a)) \in Nat
           /\ Cardinality(Indexes(s, a)) <= Len(s)
           /\ Contains(s, a) <=> Cardinality(Indexes(s, a)) >= 1
<1>1. Contains(s, a) <=> Indexes(s, a) # {}
  BY DEF Contains, Indexes
<1>0. PICK n \in Nat : n = Len(s) /\ DOMAIN s = 1..n
  OBVIOUS
<1>2. IsFiniteSet(1..n) /\ Cardinality(1..n) = n
  BY FS_Interval
<1>3. Indexes(s, a) \in SUBSET (1..n)
  BY <1>0 DEF Indexes
<1>4. IsFiniteSet(Indexes(s, a)) /\ Cardinality(Indexes(s, a)) <= Len(s)
  BY <1>0, <1>2, <1>3, FS_Subset
<1>5. Cardinality(Indexes(s, a)) \in Nat
  BY <1>4, FS_CardinalityType
<1>6. Cardinality(Indexes(s, a)) = 0 <=> Indexes(s, a) = {}
  BY <1>4, FS_EmptySet
<1> QED
  BY <1>1, <1>4, <1>5, <1>6

\* A new element joins the ones that are there.
LEMMA AppendContains ==
    ASSUME NEW S, NEW s \in Seq(S), NEW e \in S
    PROVE  /\ Append(s, e) \in Seq(S) /\ Len(Append(s, e)) = Len(s) + 1
           /\ \A a : Contains(Append(s, e), a) <=> Contains(s, a) \/ a = e
           /\ \A a : Cardinality(Indexes(s, a)) <= Cardinality(Indexes(Append(s, e), a))
           /\ \A a : Once(s, a) /\ (a = e => ~Contains(s, a)) => Once(Append(s, e), a)
<1> DEFINE r == Append(s, e)
<1>1. PICK n \in Nat : n = Len(s) /\ DOMAIN s = 1..n
  OBVIOUS
<1>2. /\ r \in Seq(S) /\ Len(r) = n + 1 /\ DOMAIN r = 1..(n + 1) /\ r[n + 1] = e
      /\ \A i \in 1..n : r[i] = s[i]
  BY <1>1, AppendProperties
<1> HIDE DEF r
<1>3. ASSUME NEW a
      PROVE  Indexes(r, a) = Indexes(s, a) \cup (IF a = e THEN {n + 1} ELSE {})
  BY <1>1, <1>2 DEF Indexes
<1>4. \A a : Contains(r, a) <=> Contains(s, a) \/ a = e
  BY <1>2, <1>3, ContainsIndexes
<1>5. ASSUME NEW a
      PROVE  Cardinality(Indexes(s, a)) <= Cardinality(Indexes(r, a))
  <2>1. Indexes(s, a) \in SUBSET Indexes(r, a)
    BY <1>3
  <2>2. IsFiniteSet(Indexes(r, a))
    BY <1>2, ContainsIndexes
  <2> QED
    BY <2>1, <2>2, FS_Subset
<1>6. ASSUME NEW a, Once(s, a), a = e => ~Contains(s, a)
      PROVE  Once(r, a)
  <2>1. Contains(s, a) <=> Indexes(s, a) # {}
    BY ContainsIndexes
  <2> QED
    BY <1>3, <1>6, <2>1 DEF Once
<1>7. Len(r) = Len(s) + 1
  BY <1>1, <1>2
<1> QED
  BY <1>2, <1>4, <1>5, <1>6, <1>7 DEF r

\* An element that is removed leaves the other ones there, as often as they were.
LEMMA RemoveContains ==
    ASSUME NEW S, NEW s \in Seq(S), NEW e, Contains(s, e)
    PROVE  /\ RemoveFirst(s, e) \in Seq(S) /\ Len(RemoveFirst(s, e)) = Len(s) - 1
           /\ \A a : a # e => (Contains(RemoveFirst(s, e), a) <=> Contains(s, a))
           /\ \A a : a # e => Cardinality(Indexes(s, a)) <= Cardinality(Indexes(RemoveFirst(s, e), a))
           /\ Cardinality(Indexes(s, e)) - 1 <= Cardinality(Indexes(RemoveFirst(s, e), e))
           /\ \A a : Once(s, a) => Once(RemoveFirst(s, e), a)
           /\ Once(s, e) => ~Contains(RemoveFirst(s, e), e)
<1> DEFINE r == RemoveFirst(s, e)
<1>1. PICK i \in DOMAIN s :
         /\ FirstAt(s, e, i)
         /\ r \in Seq(S) /\ Len(r) = Len(s) - 1
         /\ \A j \in 1..(Len(s) - 1) : r[j] = IF j < i THEN s[j] ELSE s[j + 1]
  BY RemoveFirstFound
<1>2. PICK n \in Nat : n = Len(s) /\ DOMAIN s = 1..n
  OBVIOUS
<1> HIDE DEF r
<1>3. /\ r \in Seq(S) /\ DOMAIN r = 1..(n - 1) /\ i \in 1..n /\ s[i] = e
      /\ \A j \in 1..(n - 1) : r[j] = IF j < i THEN s[j] ELSE s[j + 1]
  BY <1>1, <1>2 DEF FirstAt
<1>4. \A j \in 1..(n - 1) : (IF j < i THEN j ELSE j + 1) \in 1..n
  BY <1>3
<1>5. ASSUME NEW a, NEW j \in Indexes(r, a)
      PROVE  (IF j < i THEN j ELSE j + 1) \in Indexes(s, a)
  BY <1>2, <1>3, <1>4 DEF Indexes
<1>6. ASSUME NEW a, NEW k \in Indexes(s, a) \ {i}
      PROVE  (IF k < i THEN k ELSE k - 1) \in Indexes(r, a)
  <2>1. k \in 1..n /\ s[k] = a /\ k # i
    BY <1>2, <1>6 DEF Indexes
  <2>2. CASE k < i
    BY <1>3, <2>1, <2>2 DEF Indexes
  <2>3. CASE k > i
    <3>1. k - 1 \in 1..(n - 1) /\ ~(k - 1 < i) /\ (k - 1) + 1 = k
      BY <1>3, <2>1, <2>3
    <3>2. r[k - 1] = s[k]
      BY <1>3, <3>1
    <3> QED
      BY <1>3, <2>1, <2>3, <3>1, <3>2 DEF Indexes
  <2> QED
    BY <1>3, <2>1, <2>2, <2>3
<1>a. ASSUME NEW a
      PROVE  Cardinality(Indexes(s, a) \ {i}) <= Cardinality(Indexes(r, a))
  <2> DEFINE f == [k \in Indexes(s, a) \ {i} |-> IF k < i THEN k ELSE k - 1]
  <2>1. f \in [Indexes(s, a) \ {i} -> Indexes(r, a)]
    BY <1>6
  <2>2. \A k, l \in Indexes(s, a) \ {i} : f[k] = f[l] => k = l
    <3>1. \A k \in Indexes(s, a) \ {i} : k \in Int /\ k # i
      BY <1>2 DEF Indexes
    <3> QED
      BY <1>3, <3>1
  <2>3. f \in Injection(Indexes(s, a) \ {i}, Indexes(r, a))
    BY <2>1, <2>2 DEF Injection, IsInjective
  <2>4. IsFiniteSet(Indexes(r, a))
    BY <1>3, ContainsIndexes
  <2> HIDE DEF f
  <2> QED
    BY <2>3, <2>4, FS_Injection
<1>7. ASSUME NEW a, a # e
      PROVE  /\ Contains(r, a) <=> Contains(s, a)
             /\ Cardinality(Indexes(s, a)) <= Cardinality(Indexes(r, a))
  <2>0. Indexes(s, a) \ {i} = Indexes(s, a)
    BY <1>3, <1>7 DEF Indexes
  <2>1. Indexes(r, a) # {} <=> Indexes(s, a) # {}
    BY <1>5, <1>6, <2>0
  <2> QED
    BY <1>3, <1>a, <2>0, <2>1, ContainsIndexes
<1>b. Cardinality(Indexes(s, e)) - 1 <= Cardinality(Indexes(r, e))
  <2>1. i \in Indexes(s, e) /\ IsFiniteSet(Indexes(s, e))
    BY <1>2, <1>3, ContainsIndexes DEF Indexes
  <2>2. Cardinality(Indexes(s, e) \ {i}) = Cardinality(Indexes(s, e)) - 1
    BY <2>1, FS_RemoveElement
  <2> QED
    BY <1>a, <2>2
<1>8. ASSUME NEW a, Once(s, a), NEW j \in Indexes(r, a), NEW l \in Indexes(r, a)
      PROVE  j = l
  <2>1. (IF j < i THEN j ELSE j + 1) = (IF l < i THEN l ELSE l + 1)
    BY <1>5, <1>8 DEF Once
  <2>2. j \in Int /\ l \in Int /\ i \in Int
    BY <1>3 DEF Indexes
  <2> QED
    BY <2>1, <2>2
<1>9. ASSUME Once(s, e), Contains(r, e)
      PROVE  FALSE
  <2>1. PICK j \in Indexes(r, e) : TRUE
    BY <1>3, <1>9, ContainsIndexes
  <2>2. i \in Indexes(s, e)
    BY <1>2, <1>3 DEF Indexes
  <2>3. i = IF j < i THEN j ELSE j + 1
    BY <1>5, <1>9, <2>1, <2>2 DEF Once
  <2>4. j \in Int /\ i \in Int
    BY <1>3 DEF Indexes
  <2> QED
    BY <2>3, <2>4
<1>10. Len(r) = Len(s) - 1
  BY <1>1
<1> QED
  BY <1>3, <1>7, <1>b, <1>8, <1>9, <1>10 DEF r, Once

\* A list of one.
LEMMA OneElement ==
    ASSUME NEW S, NEW s \in Seq(S), Len(s) = 1
    PROVE  s[1] \in S /\ Contains(s, s[1]) /\ \A a : Contains(s, a) => a = s[1]
BY DEF Contains

\* What remains of a list of two when one of them is removed.
LEMMA OtherOfTwo ==
    ASSUME NEW S, NEW s \in Seq(S), Len(s) = 2, NEW e, Contains(s, e)
    PROVE  /\ Head(RemoveFirst(s, e)) \in S
           /\ \A a : Contains(s, a) => a = e \/ a = Head(RemoveFirst(s, e))
           /\ Once(s, e) => Head(RemoveFirst(s, e)) # e
           /\ RemoveFirst(s, e)[1] = Head(RemoveFirst(s, e))
<1> DEFINE r == RemoveFirst(s, e)
<1>0. r \in Seq(S) /\ Len(r) = Len(s) - 1
  BY RemoveContains
<1>1. /\ \A a : a # e => (Contains(r, a) <=> Contains(s, a))
      /\ Once(s, e) => ~Contains(r, e)
  BY RemoveContains
<1> HIDE DEF r
<1>a. r \in Seq(S) /\ Len(r) = 1
  BY <1>0
<1>2. Head(r) = r[1]
  BY <1>a, EmptySeq, HeadTailProperties
<1>3. r[1] \in S /\ Contains(r, r[1]) /\ \A a : Contains(r, a) => a = r[1]
  BY <1>a, OneElement
<1> QED
  BY <1>1, <1>2, <1>3 DEF r

-----------------------------------------------------------------------------

(***************************************************************************)
(* The invariant.                                                          *)
(***************************************************************************)
\* A Lox is held by the thread that acts for it, and while a registration waits for its switch, or
\* has made it, so is the other acquirer, if it is not anonymous.
Holding ==
    /\ \A t \in Threads : mine[t] \in Loxes => loxOwner[mine[t]] = t
    /\ \A t \in Threads : pc[t] \in {"addSwitch", "addAppend"} /\ acquirers[1] \in Loxes =>
          loxOwner[acquirers[1]] = t
    /\ \A t \in Threads : pc[t] \in {"remSwitch", "remErase"} /\ Remaining(t) \in Loxes =>
          loxOwner[Remaining(t)] = t

\* No Lox is registered twice.
LoxOnce == \A l \in Loxes : Once(acquirers, l)

\* The threads that depend on an anonymous registration each.
AnonymousActive == AnonymousIn(InUse \cup Leaving)

\* Who uses the lock is registered, an anonymous thread for each registration at most.
UsersRegistered ==
    /\ \A t \in Threads : pc[t] \in InUse /\ mine[t] \in Loxes => Registered(mine[t])
    /\ IsFiniteSet(AnonymousActive)
    /\ Cardinality(AnonymousActive) <= Cardinality(Anonymouses)

\* ALIB::Lock keeps the registrations as they are while one of them switches the mode.
OneSwitches ==
    /\ \A t \in Threads : pc[t] \in Switching <=> alibLock = t
    /\ \A t \in Threads : pc[t] \in {"addFirst", "addSwitch", "addAppend"} =>
          Len(acquirers) = 1 /\ (mine[t] = Anonymous \/ ~Registered(mine[t]))
    /\ \A t \in Threads : pc[t] = "addFirst" => acquirers[1] # Anonymous
    /\ \A t \in Threads : pc[t] \in {"remOther", "remSwitch", "remErase"} =>
          Len(acquirers) = 2 /\ Registered(mine[t])

\* The lock is Safe in front of and behind the time with two acquirers; and nobody is in it when
\* the second one comes after an anonymous first.
Modes ==
    /\ SafeWhenShared
    /\ \A t \in Threads : pc[t] \in {"addAppend", "remOther", "remSwitch"} => safe
    /\ \A t, u \in Threads :
          pc[t] \in {"addSwitch", "addAppend"} /\ acquirers[1] = Anonymous => pc[u] \notin InUse

\* Users and the lock: a user is its owner in mode Safe.
Uses ==
    /\ NoStaleMode
    /\ \A t \in Threads : pc[t] = "using" => cntAcquirements = 1
    /\ (\A t \in Threads : pc[t] # "using") => cntAcquirements = 0
    /\ safe => \A t \in Threads : pc[t] = "using" => owner = t

IInv == TypeOK /\ Holding /\ LoxOnce /\ UsersRegistered /\ OneSwitches /\ Modes /\ Uses

-----------------------------------------------------------------------------
(***************************************************************************)
(* Who uses the lock, and who may not.                                     *)
(***************************************************************************)
\* Anonymouses are the indexes of the anonymous registrations: a finite set.
LEMMA AnonymousesFinite ==
    ASSUME TypeOK
    PROVE  /\ Cardinality(Anonymouses) \in Nat /\ Cardinality(Anonymouses) <= Len(acquirers)
           /\ Registered(Anonymous) <=> Cardinality(Anonymouses) >= 1
<1>1. Anonymouses = Indexes(acquirers, Anonymous)
  BY DEF Anonymouses, Indexes
<1>2. acquirers \in Seq(Acquirers)
  BY DEF TypeOK
<1> QED
  BY <1>1, <1>2, ContainsIndexes DEF Registered

\* One registration among them is not anonymous, if a Lox is there.
LEMMA AnonymousesFewer ==
    ASSUME TypeOK, NEW l \in Loxes, Registered(l)
    PROVE  Cardinality(Anonymouses) < Len(acquirers)
<1>1. PICK n \in Nat : n = Len(acquirers) /\ DOMAIN acquirers = 1..n
  BY DEF TypeOK
<1>2. PICK i \in 1..n : acquirers[i] = l
  BY <1>1 DEF Registered, Contains
<1>3. IsFiniteSet(1..n) /\ Cardinality(1..n) = n
  BY FS_Interval
<1>4. IsFiniteSet((1..n) \ {i}) /\ Cardinality((1..n) \ {i}) = n - 1
  BY <1>2, <1>3, FS_RemoveElement
<1>5. Anonymouses \in SUBSET ((1..n) \ {i})
  BY <1>1, <1>2, AnonymousAssumption DEF Anonymouses
<1>6. Cardinality(Anonymouses) <= n - 1
  <2>1. PICK others : others = (1..n) \ {i}
    OBVIOUS
  <2>2. Cardinality(Anonymouses) <= Cardinality(others)
    BY <1>4, <1>5, <2>1, FS_Subset
  <2> QED
    BY <1>4, <2>1, <2>2
<1>7. Cardinality(Anonymouses) \in Nat
  BY AnonymousesFinite
<1> QED
  BY <1>1, <1>6, <1>7

\* Two or three threads that each depend on an anonymous registration need as many of them.
LEMMA AnonymousesEnough ==
    ASSUME IInv, NEW t \in AnonymousActive
    PROVE  /\ Cardinality(Anonymouses) >= 1
           /\ \A u \in AnonymousActive : u # t => Cardinality(Anonymouses) >= 2
           /\ \A u, v \in AnonymousActive :
                u # t /\ v # t /\ u # v => Cardinality(Anonymouses) >= 3
<1>1. /\ IsFiniteSet(AnonymousActive) /\ Cardinality(AnonymousActive) \in Nat
      /\ Cardinality(AnonymousActive) <= Cardinality(Anonymouses)
  BY FS_CardinalityType DEF IInv, UsersRegistered
<1>2. Cardinality(Anonymouses) \in Nat
  BY AnonymousesFinite DEF IInv
<1>3. ASSUME NEW X \in SUBSET AnonymousActive
      PROVE  IsFiniteSet(X) /\ Cardinality(X) \in Nat /\ Cardinality(X) <= Cardinality(Anonymouses)
  <2>1. IsFiniteSet(X) /\ Cardinality(X) <= Cardinality(AnonymousActive)
    BY <1>1, <1>3, FS_Subset
  <2>2. Cardinality(X) \in Nat
    BY <2>1, FS_CardinalityType
  <2> QED
    BY <1>1, <1>2, <2>1, <2>2
<1>4. IsFiniteSet({t}) /\ Cardinality({t}) = 1
  BY FS_Singleton
<1>5. Cardinality(Anonymouses) >= 1
  BY <1>2, <1>3, <1>4
<1>6. ASSUME NEW u \in AnonymousActive, u # t
      PROVE  /\ Cardinality({t, u}) = 2 /\ IsFiniteSet({t, u})
             /\ Cardinality(Anonymouses) >= 2
  <2>1. {t} \cup {u} = {t, u} /\ u \notin {t}
    BY <1>6
  <2>2. IsFiniteSet({t, u}) /\ Cardinality({t, u}) = 2
    BY <1>4, <2>1, FS_AddElement
  <2> QED
    BY <1>2, <1>3, <2>2
<1>7. ASSUME NEW u \in AnonymousActive, NEW v \in AnonymousActive, u # t, v # t, u # v
      PROVE  Cardinality(Anonymouses) >= 3
  <2>1. IsFiniteSet({t, u}) /\ Cardinality({t, u}) = 2
    BY <1>6, <1>7
  <2>2. {t, u} \cup {v} = {t, u, v} /\ v \notin {t, u}
    BY <1>7
  <2>3. IsFiniteSet({t, u, v}) /\ Cardinality({t, u, v}) = 3
    BY <2>1, <2>2, FS_AddElement
  <2> QED
    BY <1>2, <1>3, <2>3
<1> QED
  BY <1>5, <1>6, <1>7

\* A thread that uses the lock acts for a registered acquirer.
LEMMA UserIsRegistered ==
    ASSUME IInv, NEW u \in Threads, pc[u] \in InUse
    PROVE  Registered(mine[u])
<1>1. CASE mine[u] \in Loxes
  BY <1>1 DEF IInv, UsersRegistered
<1>2. CASE mine[u] = Anonymous
  <2>1. u \in AnonymousActive
    BY <1>2 DEF AnonymousActive, AnonymousIn
  <2>2. Cardinality(Anonymouses) >= 1
    BY <2>1, AnonymousesEnough
  <2>3. Registered(Anonymous) <=> Cardinality(Anonymouses) >= 1
    BY AnonymousesFinite DEF IInv
  <2> QED
    BY <1>2, <2>2, <2>3
<1> QED
  BY <1>1, <1>2 DEF IInv, TypeOK, Acquirers

\* From a switch to the end of the registration, only an anonymous acquirer that the switch
\* depends on can be the one of another thread.
LEMMA OthersExcluded ==
    ASSUME IInv, NEW t \in Threads, NEW u \in Threads, u # t, Registered(mine[u]),
           pc[t] \in {"addSwitch", "addAppend", "remSwitch", "remErase"}
    PROVE  /\ mine[u] = Anonymous
           /\ pc[t] \in {"addSwitch", "addAppend"} => acquirers[1] = Anonymous
<1>1. acquirers \in Seq(Acquirers) /\ mine[u] \in Acquirers /\ mine[t] \in Acquirers
  BY DEF IInv, TypeOK
<1>2. \A l \in Loxes : loxOwner[l] = t => mine[u] # l
  BY DEF IInv, Holding
<1>3. CASE pc[t] \in {"addSwitch", "addAppend"}
  <2>1. Len(acquirers) = 1
    BY <1>3 DEF IInv, OneSwitches
  <2>2. mine[u] = acquirers[1]
    BY <1>1, <2>1, OneElement DEF Registered
  <2> QED
    BY <1>1, <1>2, <1>3, <2>2 DEF IInv, Holding, Acquirers
<1>4. CASE pc[t] \in {"remSwitch", "remErase"}
  <2>1. Len(acquirers) = 2 /\ Registered(mine[t])
    BY <1>4 DEF IInv, OneSwitches
  <2>2. mine[u] = mine[t] \/ mine[u] = Remaining(t)
    BY <1>1, <2>1, OtherOfTwo DEF Registered, Remaining
  <2>3. mine[t] \in Loxes => mine[u] # mine[t]
    BY <1>2 DEF IInv, Holding
  <2>4. Remaining(t) \in Loxes => mine[u] # Remaining(t)
    BY <1>2, <1>4 DEF IInv, Holding
  <2> QED
    BY <1>1, <1>4, <2>2, <2>3, <2>4 DEF Acquirers
<1> QED
  BY <1>3, <1>4

\* Nobody uses the lock when its mode becomes Safe, and the switch is not refused.
LEMMA SecondUnused ==
    ASSUME IInv, NEW t \in Threads, pc[t] \in {"addSwitch", "addAppend"}
    PROVE  /\ \A u \in Threads : pc[u] \notin InUse
           /\ cntAcquirements = 0
           /\ SetSafeness(TRUE) => safe' = TRUE
<1>1. ASSUME NEW u \in Threads, pc[u] \in InUse
      PROVE  FALSE
  <2>1. u # t
    BY <1>1 DEF InUse
  <2>2. Registered(mine[u])
    BY <1>1, UserIsRegistered
  <2>3. acquirers[1] = Anonymous
    BY <2>1, <2>2, OthersExcluded
  <2> QED
    BY <1>1, <2>3 DEF IInv, Modes
<1>2. cntAcquirements = 0
  BY <1>1 DEF IInv, Uses, InUse
<1> QED
  BY <1>1, <1>2 DEF SetSafeness, IInv, TypeOK

\* Without the mutex, one thread at most is in the lock, whether it has read the mode before a
\* switch or after it.
LEMMA OneUser ==
    ASSUME IInv, ~safe, NEW t \in Threads, NEW u \in Threads, pc[t] \in InUse, pc[u] \in InUse
    PROVE  t = u
<1> SUFFICES ASSUME t # u
             PROVE  FALSE
  OBVIOUS
<1>1. /\ Registered(mine[t]) /\ Registered(mine[u])
      /\ acquirers \in Seq(Acquirers) /\ mine[t] \in Acquirers /\ mine[u] \in Acquirers
  BY UserIsRegistered DEF IInv, TypeOK
<1>2. mine[t] = Anonymous /\ mine[u] = Anonymous => Cardinality(Anonymouses) >= 2
  <2> SUFFICES ASSUME mine[t] = Anonymous, mine[u] = Anonymous
               PROVE  Cardinality(Anonymouses) >= 2
    OBVIOUS
  <2>1. t \in AnonymousActive /\ u \in AnonymousActive
    BY DEF AnonymousActive, AnonymousIn
  <2> QED
    BY <2>1, AnonymousesEnough
<1>3. /\ Cardinality(Anonymouses) \in Nat /\ Cardinality(Anonymouses) <= Len(acquirers)
      /\ \A l \in Loxes : Registered(l) => Cardinality(Anonymouses) < Len(acquirers)
  BY AnonymousesFinite, AnonymousesFewer DEF IInv
<1>4. CASE Len(acquirers) = 1
  <2>1. mine[t] = acquirers[1] /\ mine[u] = acquirers[1]
    BY <1>1, <1>4, OneElement DEF Registered
  <2>2. mine[t] \notin Loxes
    BY <2>1 DEF IInv, Holding
  <2> QED
    BY <1>1, <1>2, <1>3, <1>4, <2>1, <2>2 DEF Acquirers
<1>5. ASSUME NEW r \in Threads, pc[r] = "remErase"
      PROVE  FALSE
  <2>1. r # t /\ r # u
    BY <1>5 DEF InUse
  <2>2. mine[t] = Anonymous /\ mine[u] = Anonymous
    BY <1>1, <1>5, <2>1, OthersExcluded
  <2>3. Len(acquirers) = 2 /\ Registered(mine[r]) /\ mine[r] \in Acquirers
    BY <1>5 DEF IInv, OneSwitches, TypeOK
  <2>4. CASE mine[r] = Anonymous
    <3>1. t \in AnonymousActive /\ u \in AnonymousActive /\ r \in AnonymousActive
      BY <1>5, <2>2, <2>4 DEF AnonymousActive, AnonymousIn, Leaving
    <3>2. Cardinality(Anonymouses) >= 3
      BY <2>1, <3>1, AnonymousesEnough
    <3> QED
      BY <1>3, <2>3, <3>2
  <2>5. CASE mine[r] \in Loxes
    BY <1>2, <1>3, <2>2, <2>3, <2>5
  <2> QED
    BY <2>3, <2>4, <2>5 DEF Acquirers
<1>6. CASE alibLock = NoThread
  <2>1. ~(Len(acquirers) >= 2)
    BY <1>6 DEF IInv, Modes, SafeWhenShared
  <2>2. PICK n \in Nat : n = Len(acquirers)
    BY <1>1
  <2>3. acquirers # <<>>
    BY <1>1 DEF Registered, Contains
  <2>4. n # 0
    BY <1>1, <2>2, <2>3, EmptySeq
  <2>5. n = 1
    BY <2>1, <2>2, <2>4
  <2> QED
    BY <1>4, <2>2, <2>5
<1>7. CASE alibLock # NoThread
  <2>1. PICK r \in Threads : pc[r] \in Switching
    BY <1>7 DEF IInv, TypeOK, OneSwitches
  <2>2. pc[r] \in {"addFirst", "addSwitch"}
    BY <1>5, <2>1 DEF IInv, Modes, Switching
  <2> QED
    BY <1>4, <2>2 DEF IInv, OneSwitches
<1> QED
  BY <1>6, <1>7

\* So a thread that is about to acquire the lock, and can, finds nobody else using it.
LEMMA AcquiresAlone ==
    ASSUME IInv, NEW t \in Threads,
           \/ pc[t] = "unsafePath"
           \/ pc[t] = "safePath" /\ owner \in {t, NoThread}
    PROVE  cntAcquirements = 0 /\ \A u \in Threads : pc[u] # "using"
<1>1. ASSUME NEW u \in Threads, pc[u] = "using"
      PROVE  FALSE
  <2>1. u # t /\ u # NoThread
    BY <1>1, NoThreadAssumption
  <2>2. CASE ~safe
    BY <1>1, <2>1, <2>2, OneUser DEF InUse
  <2>3. CASE safe
    BY <1>1, <2>1, <2>3 DEF IInv, Uses, NoStaleMode
  <2> QED
    BY <2>2, <2>3
<1> QED
  BY <1>1 DEF IInv, Uses

\* A user of the lock is the only one that has acquired it.
LEMMA UsesAlone ==
    ASSUME IInv, NEW t \in Threads, NEW u \in Threads, pc[t] = "using", pc[u] = "using"
    PROVE  t = u
<1>1. CASE ~safe
  BY <1>1, OneUser DEF InUse
<1>2. CASE safe
  BY <1>2 DEF IInv, Uses
<1> QED
  BY <1>1, <1>2

-----------------------------------------------------------------------------
(***************************************************************************)
(* The registrations.                                                      *)
(***************************************************************************)
\* An acquirer that is appended.
LEMMA Joined ==
    ASSUME IInv, NEW t \in Threads, acquirers' = Append(acquirers, mine[t]),
           mine[t] = Anonymous \/ ~Registered(mine[t])
    PROVE  /\ acquirers' \in Seq(Acquirers) /\ Len(acquirers') = Len(acquirers) + 1
           /\ LoxOnce'
           /\ \A a : Registered(a) => Registered(a)'
           /\ Cardinality(AnonymousActive) <= Cardinality(Anonymouses)'
<1>1. acquirers \in Seq(Acquirers) /\ mine[t] \in Acquirers
  BY DEF IInv, TypeOK
<1>2. Anonymouses = Indexes(acquirers, Anonymous) /\ Anonymouses' = Indexes(acquirers', Anonymous)
  BY DEF Anonymouses, Indexes
<1>3. /\ acquirers' \in Seq(Acquirers) /\ Len(acquirers') = Len(acquirers) + 1
      /\ \A a : Contains(acquirers, a) => Contains(acquirers', a)
      /\ Cardinality(Indexes(acquirers, Anonymous)) <= Cardinality(Indexes(acquirers', Anonymous))
  BY <1>1, AppendContains
<1>4. \A l \in Loxes : Once(acquirers', l)
  <2> SUFFICES ASSUME NEW l \in Loxes
               PROVE  Once(acquirers', l)
    OBVIOUS
  <2>1. Once(acquirers, l) /\ (l = mine[t] => ~Contains(acquirers, l))
    BY AnonymousAssumption DEF IInv, LoxOnce, Registered
  <2> QED
    BY <1>1, <2>1, AppendContains
<1>5. Cardinality(AnonymousActive) <= Cardinality(Anonymouses)'
  <2>1. /\ Cardinality(AnonymousActive) \in Nat
        /\ Cardinality(AnonymousActive) <= Cardinality(Anonymouses)
    BY FS_CardinalityType DEF IInv, UsersRegistered
  <2>2. Cardinality(Anonymouses) \in Nat /\ Cardinality(Anonymouses)' \in Nat
    BY <1>1, <1>2, <1>3, ContainsIndexes
  <2> QED
    BY <1>2, <1>3, <2>1, <2>2
<1> QED
  BY <1>3, <1>4, <1>5 DEF LoxOnce, Registered

\* One that is removed, if it is there; the thread that removes an anonymous one depends on it
\* no more.
LEMMA Left ==
    ASSUME IInv, NEW t \in Threads, acquirers' = RemoveFirst(acquirers, mine[t]),
           pc[t] \in Leaving
    PROVE  /\ acquirers' \in Seq(Acquirers)
           /\ Len(acquirers') = IF Registered(mine[t]) THEN Len(acquirers) - 1 ELSE Len(acquirers)
           /\ LoxOnce'
           /\ \A a : a # mine[t] /\ Registered(a) => Registered(a)'
           /\ Cardinality(AnonymousActive \ {t}) <= Cardinality(Anonymouses)'
<1>1. acquirers \in Seq(Acquirers)
  BY DEF IInv, TypeOK
<1>2. Anonymouses = Indexes(acquirers, Anonymous) /\ Anonymouses' = Indexes(acquirers', Anonymous)
  BY DEF Anonymouses, Indexes
<1>3. /\ IsFiniteSet(AnonymousActive) /\ Cardinality(AnonymousActive) \in Nat
      /\ Cardinality(AnonymousActive) <= Cardinality(Anonymouses)
  BY FS_CardinalityType DEF IInv, UsersRegistered
<1>4. mine[t] = Anonymous <=> t \in AnonymousActive
  BY DEF AnonymousActive, AnonymousIn
<1>5. /\ Cardinality(AnonymousActive \ {t}) \in Nat
      /\ IF mine[t] = Anonymous THEN Cardinality(AnonymousActive \ {t}) = Cardinality(AnonymousActive) - 1
                                ELSE AnonymousActive \ {t} = AnonymousActive
  <2>1. CASE mine[t] = Anonymous
    <3>1. /\ IsFiniteSet(AnonymousActive \ {t})
          /\ Cardinality(AnonymousActive \ {t}) = Cardinality(AnonymousActive) - 1
      BY <1>3, <1>4, <2>1, FS_RemoveElement
    <3> QED
      BY <2>1, <3>1, FS_CardinalityType
  <2>2. CASE mine[t] # Anonymous
    <3>1. AnonymousActive \ {t} = AnonymousActive
      BY <1>4, <2>2
    <3> QED
      BY <1>3, <2>2, <3>1
  <2> QED
    BY <2>1, <2>2
<1>6. CASE ~Registered(mine[t])
  <2>1. acquirers' = acquirers
    BY <1>6, RemoveFirstAbsent DEF Registered
  <2>2. mine[t] # Anonymous
    <3>1. mine[t] = Anonymous => Cardinality(Anonymouses) >= 1
      BY <1>4, AnonymousesEnough
    <3> QED
      BY <1>6, <3>1, AnonymousesFinite DEF IInv
  <2>3. Cardinality(AnonymousActive \ {t}) <= Cardinality(Anonymouses)'
    BY <1>2, <1>3, <1>5, <2>1, <2>2
  <2> QED
    BY <1>1, <1>6, <2>1, <2>3 DEF IInv, LoxOnce, Registered
<1>7. CASE Registered(mine[t])
  <2>1. Contains(acquirers, mine[t])
    BY <1>7 DEF Registered
  <2>2. acquirers' \in Seq(Acquirers) /\ Len(acquirers') = Len(acquirers) - 1
    BY <1>1, <2>1, RemoveContains
  <2>3. \A a : a # mine[t] => (Contains(acquirers', a) <=> Contains(acquirers, a))
    BY <1>1, <2>1, RemoveContains
  <2>4. \A l \in Loxes : Once(acquirers', l)
    BY <1>1, <2>1, RemoveContains DEF IInv, LoxOnce
  <2>5. /\ mine[t] # Anonymous => Cardinality(Anonymouses) <= Cardinality(Anonymouses)'
        /\ mine[t] = Anonymous => Cardinality(Anonymouses) - 1 <= Cardinality(Anonymouses)'
    BY <1>1, <1>2, <2>1, RemoveContains
  <2>6. Cardinality(Anonymouses) \in Nat /\ Cardinality(Anonymouses)' \in Nat
    BY <1>1, <1>2, <2>2, ContainsIndexes
  <2>7. Cardinality(AnonymousActive \ {t}) <= Cardinality(Anonymouses)'
    <3>1. CASE mine[t] = Anonymous
      BY <1>3, <1>5, <2>5, <2>6, <3>1
    <3>2. CASE mine[t] # Anonymous
      BY <1>3, <1>5, <2>5, <2>6, <3>2
    <3> QED
      BY <3>1, <3>2
  <2> QED
    BY <1>7, <2>2, <2>3, <2>4, <2>7 DEF LoxOnce, Registered
<1> QED
  BY <1>6, <1>7

\* Who stays in the lock stays registered, when the threads of X stay active at most.
LEMMA UsersKept ==
    ASSUME IInv, TypeOK', NEW X \in SUBSET AnonymousActive,
           \A u \in Threads : pc'[u] \in InUse => pc[u] \in InUse /\ mine'[u] = mine[u],
           AnonymousActive' \in SUBSET X,
           \A u \in Threads : pc'[u] \in InUse /\ mine[u] \in Loxes => Registered(mine[u])',
           Cardinality(X) <= Cardinality(Anonymouses)'
    PROVE  UsersRegistered'
<1>1. IsFiniteSet(AnonymousActive)
  BY DEF IInv, UsersRegistered
<1>2. IsFiniteSet(X) /\ Cardinality(X) \in Nat
  BY <1>1, FS_Subset, FS_CardinalityType
<1>3. /\ IsFiniteSet(AnonymousActive') /\ Cardinality(AnonymousActive') \in Nat
      /\ Cardinality(AnonymousActive') <= Cardinality(X)
  BY <1>2, FS_Subset, FS_CardinalityType
<1>4. Cardinality(Anonymouses)' \in Nat
  <2>1. Anonymouses' = Indexes(acquirers', Anonymous) /\ acquirers' \in Seq(Acquirers)
    BY DEF Anonymouses, Indexes, TypeOK
  <2> QED
    BY <2>1, ContainsIndexes
<1>5. Cardinality(AnonymousActive') <= Cardinality(Anonymouses)'
  BY <1>2, <1>3, <1>4
<1>6. \A u \in Threads :
        pc'[u] \in InUse /\ mine'[u] \in Loxes => Registered(mine[u])' /\ mine'[u] = mine[u]
  OBVIOUS
<1> QED
  BY <1>3, <1>5, <1>6 DEF UsersRegistered

\* As long as the registrations do not change, and nobody comes.
LEMMA UsersKeptAtRest ==
    ASSUME IInv, TypeOK', acquirers' = acquirers,
           \A u \in Threads : pc'[u] \in InUse => pc[u] \in InUse /\ mine'[u] = mine[u],
           \A u \in Threads : mine'[u] = Anonymous /\ pc'[u] \in InUse \cup Leaving =>
              mine[u] = Anonymous /\ pc[u] \in InUse \cup Leaving
    PROVE  UsersRegistered'
<1>1. Anonymouses' = Anonymouses
  BY DEF Anonymouses
<1>2. \A u \in Threads : pc'[u] \in InUse /\ mine[u] \in Loxes => Contains(acquirers, mine'[u])
  BY DEF IInv, UsersRegistered, Registered
<1>3. AnonymousActive' \in SUBSET AnonymousActive
  BY DEF AnonymousActive, AnonymousIn
<1> QED
  BY <1>1, <1>2, <1>3, UsersKept DEF IInv, UsersRegistered, Registered

\* One more thread depends on an anonymous registration that nobody else needs.
LEMMA UsersAndOne ==
    ASSUME IInv, NEW t \in Threads, mine' = mine, acquirers' = acquirers,
           mine[t] = Anonymous => AnonymousFree,
           pc[t] = "idle",
           \A u \in Threads : u # t => pc'[u] = pc[u],
           pc'[t] \in InUse => Registered(mine[t])
    PROVE  UsersRegistered'
<1>1. Anonymouses' = Anonymouses /\ Cardinality(Anonymouses) \in Nat
  BY AnonymousesFinite DEF IInv, Anonymouses
<1>2. IsFiniteSet(AnonymousActive) /\ Cardinality(AnonymousActive) \in Nat
  BY FS_CardinalityType DEF IInv, UsersRegistered
<1>3. IsFiniteSet(AnonymousActive') /\ Cardinality(AnonymousActive') <= Cardinality(Anonymouses)
  <2>1. CASE mine[t] = Anonymous
    <3>1. Cardinality(AnonymousActive) < Cardinality(Anonymouses)
      BY <2>1 DEF AnonymousFree, AnonymousActive
    <3>2. /\ IsFiniteSet(AnonymousActive \cup {t})
          /\ \/ Cardinality(AnonymousActive \cup {t}) = Cardinality(AnonymousActive)
             \/ Cardinality(AnonymousActive \cup {t}) = Cardinality(AnonymousActive) + 1
          /\ Cardinality(AnonymousActive \cup {t}) \in Nat
      BY <1>2, FS_AddElement, FS_CardinalityType
    <3>3. AnonymousActive' \in SUBSET (AnonymousActive \cup {t})
      BY DEF AnonymousActive, AnonymousIn
    <3>4. /\ IsFiniteSet(AnonymousActive') /\ Cardinality(AnonymousActive') \in Nat
          /\ Cardinality(AnonymousActive') <= Cardinality(AnonymousActive \cup {t})
      BY <3>2, <3>3, FS_Subset, FS_CardinalityType
    <3> QED
      BY <1>1, <1>2, <3>1, <3>2, <3>4
  <2>2. CASE mine[t] # Anonymous
    <3>1. AnonymousActive' = AnonymousActive
      BY <2>2 DEF AnonymousActive, AnonymousIn
    <3> QED
      BY <3>1 DEF IInv, UsersRegistered
  <2> QED
    BY <2>1, <2>2
<1>4. \A u \in Threads : pc'[u] \in InUse /\ mine'[u] \in Loxes => Registered(mine[u])
  BY DEF IInv, UsersRegistered
<1> QED
  BY <1>1, <1>3, <1>4 DEF UsersRegistered, Registered

-----------------------------------------------------------------------------
(***************************************************************************)
(* The steps that use the lock, switch its mode or change its acquirers.   *)
(***************************************************************************)
\* A thread that reads the mode is not anonymous while the second acquirer comes after an
\* anonymous one.
LEMMA AcquireCallKeeps ==
    ASSUME IInv, NEW t \in Threads, AcquireCall(t)
    PROVE  IInv'
<1>1. TypeOK'
  BY DEF IInv, AcquireCall, Goto, TypeOK, Locations, InUse
<1>2. Holding'
  BY DEF IInv, AcquireCall, Goto, Holding, Remaining
<1>3. LoxOnce'
  BY DEF IInv, AcquireCall, LoxOnce
<1>4. UsersRegistered'
  BY UsersAndOne DEF IInv, TypeOK, AcquireCall, Goto
<1>5. OneSwitches'
  BY DEF IInv, AcquireCall, Goto, OneSwitches, Switching, Registered
<1>6. Modes'
  <2>1. ASSUME NEW u \in Threads, pc[u] \in {"addSwitch", "addAppend"}
        PROVE  FALSE
    <3>1. u # t /\ Registered(mine[t])
      BY <2>1 DEF AcquireCall
    <3>2. mine[t] = Anonymous /\ acquirers[1] = Anonymous
      BY <2>1, <3>1, OthersExcluded
    <3>3. acquirers # <<>>
      BY <3>1 DEF Registered, Contains
    <3> QED
      BY <2>1, <3>2, <3>3 DEF AcquireCall, AddingUnguarded
  <2>2. \A u \in Threads : pc'[u] \in {"addSwitch", "addAppend"} => FALSE
    BY <2>1 DEF AcquireCall, Goto, IInv, TypeOK
  <2>3. \A u \in Threads : pc'[u] \in {"addAppend", "remOther", "remSwitch"} => safe'
    BY DEF IInv, AcquireCall, Goto, Modes
  <2>4. SafeWhenShared'
    BY DEF IInv, AcquireCall, Modes, SafeWhenShared
  <2> QED
    BY <2>2, <2>3, <2>4 DEF Modes
<1>7. Uses'
  BY DEF IInv, AcquireCall, Goto, Uses, NoStaleMode
<1> QED
  BY <1>1, <1>2, <1>3, <1>4, <1>5, <1>6, <1>7 DEF IInv

\* Without the mutex: nobody else uses the lock, so that it is not acquired.
LEMMA AcquireUnsafeKeeps ==
    ASSUME IInv, NEW t \in Threads, AcquireUnsafe(t)
    PROVE  IInv'
<1>0. cntAcquirements = 0 /\ \A u \in Threads : pc[u] # "using"
  BY AcquiresAlone DEF AcquireUnsafe
<1>1. TypeOK'
  BY <1>0 DEF IInv, AcquireUnsafe, Goto, TypeOK, Locations, InUse
<1>2. Holding'
  BY DEF IInv, AcquireUnsafe, Goto, Holding, Remaining
<1>3. LoxOnce'
  BY DEF IInv, AcquireUnsafe, LoxOnce
<1>4. UsersRegistered'
  BY <1>1, UsersKeptAtRest DEF AcquireUnsafe, Goto, InUse, Leaving
<1>5. OneSwitches'
  BY DEF IInv, AcquireUnsafe, Goto, OneSwitches, Switching, Registered
<1>6. Modes'
  BY DEF IInv, AcquireUnsafe, Goto, Modes, SafeWhenShared, InUse
<1>7. Uses'
  BY <1>0 DEF IInv, AcquireUnsafe, Goto, TypeOK, Uses, NoStaleMode
<1> QED
  BY <1>1, <1>2, <1>3, <1>4, <1>5, <1>6, <1>7 DEF IInv

\* With the mutex, the same: the owner that acquires the lock again is not using it.
LEMMA AcquireSafeKeeps ==
    ASSUME IInv, NEW t \in Threads, AcquireSafe(t)
    PROVE  IInv'
<1>0. cntAcquirements = 0 /\ cntAcquirements' = 1 /\ \A u \in Threads : pc[u] # "using"
  BY AcquiresAlone DEF AcquireSafe
<1>1. TypeOK'
  BY <1>0 DEF IInv, AcquireSafe, Goto, TypeOK, Locations, InUse
<1>2. Holding'
  BY DEF IInv, AcquireSafe, Goto, Holding, Remaining
<1>3. LoxOnce'
  BY DEF IInv, AcquireSafe, LoxOnce
<1>4. UsersRegistered'
  BY <1>1, UsersKeptAtRest DEF AcquireSafe, Goto, InUse, Leaving
<1>5. OneSwitches'
  BY DEF IInv, AcquireSafe, Goto, OneSwitches, Switching, Registered
<1>6. Modes'
  BY DEF IInv, AcquireSafe, Goto, Modes, SafeWhenShared, InUse
<1>7. Uses'
  BY <1>0 DEF IInv, AcquireSafe, Goto, TypeOK, Uses, NoStaleMode
<1> QED
  BY <1>1, <1>2, <1>3, <1>4, <1>5, <1>6, <1>7 DEF IInv

\* The one user of the lock releases it.
LEMMA ReleaseKeeps ==
    ASSUME IInv, NEW t \in Threads, Release(t)
    PROVE  IInv'
<1>0. cntAcquirements = 1 /\ \A u \in Threads : pc[u] = "using" => u = t
  BY UsesAlone DEF IInv, Release, Uses
<1>1. TypeOK'
  BY <1>0 DEF IInv, Release, Goto, TypeOK, Locations
<1>2. Holding'
  BY DEF IInv, Release, Goto, Holding, Remaining
<1>3. LoxOnce'
  BY DEF IInv, Release, LoxOnce
<1>4. UsersRegistered'
  BY <1>1, UsersKeptAtRest DEF Release, Goto, InUse, Leaving
<1>5. OneSwitches'
  BY DEF IInv, Release, Goto, OneSwitches, Switching, Registered
<1>6. Modes'
  BY DEF IInv, Release, Goto, Modes, SafeWhenShared, InUse
<1>7. Uses'
  BY <1>0 DEF IInv, Release, Goto, TypeOK, Uses, NoStaleMode
<1> QED
  BY <1>1, <1>2, <1>3, <1>4, <1>5, <1>6, <1>7 DEF IInv

\* An acquirer that is not the second one: the mode stays as it is.
LEMMA AddPlainKeeps ==
    ASSUME IInv, NEW t \in Threads, AddPlain(t)
    PROVE  IInv'
<1>0. /\ acquirers' \in Seq(Acquirers) /\ Len(acquirers') = Len(acquirers) + 1
      /\ LoxOnce'
      /\ \A a : Registered(a) => Registered(a)'
      /\ Cardinality(AnonymousActive) <= Cardinality(Anonymouses)'
      /\ alibLock = NoThread
  BY Joined DEF AddPlain
<1>a. \A u \in Threads : pc[u] \notin Switching
  BY <1>0, NoThreadAssumption DEF IInv, OneSwitches
<1>1. TypeOK'
  BY <1>0 DEF IInv, AddPlain, Goto, TypeOK, Locations
<1>2. Holding'
  BY <1>a DEF IInv, AddPlain, Goto, Holding, Switching
<1>3. LoxOnce'
  BY <1>0
<1>4. UsersRegistered'
  <2>1. \A u \in Threads : pc'[u] \in InUse =>
            pc[u] \in InUse /\ mine'[u] = mine[u] /\ (mine[u] \in Loxes => Registered(mine[u]))
    BY DEF IInv, AddPlain, Goto, InUse, UsersRegistered
  <2>2. \A u \in Threads : pc'[u] \in InUse /\ mine[u] \in Loxes => Registered(mine[u])'
    BY <1>0, <2>1 DEF AddPlain
  <2>3. AnonymousActive' \in SUBSET AnonymousActive
    BY DEF AddPlain, Goto, AnonymousActive, AnonymousIn, InUse, Leaving
  <2> QED
    BY <1>0, <1>1, <2>1, <2>2, <2>3, UsersKept
<1>5. OneSwitches'
  BY <1>0, <1>a DEF IInv, AddPlain, Goto, OneSwitches, Switching
<1>6. Modes'
  <2>1. SafeWhenShared'
    <3>0. PICK n \in Nat : n = Len(acquirers)
      BY DEF IInv, TypeOK
    <3>1. n = Len(acquirers) /\ n + 1 = Len(acquirers') /\ n # 1
      BY <1>0, <3>0 DEF AddPlain
    <3>2. n >= 2 => safe
      BY <1>0, <3>1 DEF IInv, Modes, SafeWhenShared
    <3>3. n + 1 >= 2 => n >= 2
      BY <3>1
    <3> QED
      BY <3>1, <3>2, <3>3 DEF AddPlain, SafeWhenShared
  <2> QED
    BY <1>a, <2>1 DEF AddPlain, Goto, Modes, Switching
<1>7. Uses'
  BY DEF IInv, AddPlain, Goto, Uses, NoStaleMode
<1> QED
  BY <1>1, <1>2, <1>3, <1>4, <1>5, <1>6, <1>7 DEF IInv

\* The second acquirer: by the care that is taken, nobody uses the lock if the first is anonymous.
LEMMA AddSecondKeeps ==
    ASSUME IInv, NEW t \in Threads, AddSecond(t)
    PROVE  IInv'
<1>a. \A u \in Threads : pc[u] \notin Switching
  BY NoThreadAssumption DEF IInv, OneSwitches, AddSecond
<1>1. TypeOK'
  BY DEF IInv, AddSecond, Goto, TypeOK, Locations, Switching
<1>2. Holding'
  BY AnonymousAssumption DEF IInv, AddSecond, Goto, Holding, OneSwitches
<1>3. LoxOnce'
  BY DEF IInv, AddSecond, LoxOnce
<1>4. UsersRegistered'
  BY <1>1, UsersKeptAtRest DEF AddSecond, Goto, InUse, Leaving
<1>5. OneSwitches'
  BY NoThreadAssumption
     DEF IInv, AddSecond, Goto, TypeOK, OneSwitches, Switching, Registered
<1>6. Modes'
  <2>1. acquirers' = acquirers /\ Len(acquirers) = 1
    BY DEF AddSecond
  <2>2. SafeWhenShared'
    BY <2>1 DEF SafeWhenShared
  <2>3. ASSUME NEW u \in Threads, acquirers[1] = Anonymous
        PROVE  pc'[u] \notin InUse
    BY <2>3 DEF AddSecond, AnonymousCare, Goto, InUse
  <2>4. \A u \in Threads : pc'[u] \notin {"addAppend", "remOther", "remSwitch"}
    BY <1>a DEF AddSecond, Goto, Switching
  <2> QED
    BY <2>1, <2>2, <2>3, <2>4 DEF Modes
<1>7. Uses'
  BY DEF IInv, AddSecond, Goto, Uses, NoStaleMode
<1> QED
  BY <1>1, <1>2, <1>3, <1>4, <1>5, <1>6, <1>7 DEF IInv

\* The mode becomes Safe: the first acquirer, and so the lock, is not in use.
LEMMA AddSwitchKeeps ==
    ASSUME IInv, NEW t \in Threads, AddSwitch(t)
    PROVE  IInv'
<1>0. /\ \A u \in Threads : pc[u] \notin InUse
      /\ cntAcquirements = 0
      /\ safe' = TRUE
  BY SecondUnused DEF AddSwitch
<1>1. TypeOK'
  BY <1>0 DEF IInv, AddSwitch, Goto, TypeOK, Locations, Switching
<1>2. Holding'
  BY DEF IInv, AddSwitch, Goto, Holding, OneSwitches
<1>3. LoxOnce'
  BY DEF IInv, AddSwitch, LoxOnce
<1>4. UsersRegistered'
  BY <1>1, UsersKeptAtRest DEF AddSwitch, Goto, InUse, Leaving
<1>5. OneSwitches'
  BY DEF IInv, AddSwitch, Goto, OneSwitches, Switching, Registered
<1>6. Modes'
  BY <1>0 DEF AddSwitch, Goto, Modes, SafeWhenShared, InUse
<1>7. Uses'
  BY <1>0 DEF AddSwitch, Goto, Uses, NoStaleMode, InUse
<1> QED
  BY <1>1, <1>2, <1>3, <1>4, <1>5, <1>6, <1>7 DEF IInv

\* The second acquirer, appended after the switch.
LEMMA AddAppendKeeps ==
    ASSUME IInv, NEW t \in Threads, AddAppend(t)
    PROVE  IInv'
<1>0. /\ acquirers' \in Seq(Acquirers) /\ Len(acquirers') = Len(acquirers) + 1
      /\ LoxOnce'
      /\ \A a : Registered(a) => Registered(a)'
      /\ Cardinality(AnonymousActive) <= Cardinality(Anonymouses)'
  BY Joined DEF IInv, OneSwitches, AddAppend
<1>a. /\ alibLock = t /\ \A u \in Threads : pc[u] \in Switching => u = t
      /\ \A u \in Threads : pc[u] \notin InUse
      /\ safe /\ Len(acquirers) = 1 /\ acquirers[1] \in Acquirers
      /\ mine[t] # acquirers[1] \/ mine[t] = Anonymous
      /\ acquirers[1] \in Loxes => loxOwner[acquirers[1]] = t
  <2>1. acquirers \in Seq(Acquirers)
    BY DEF IInv, TypeOK
  <2>2. Len(acquirers) = 1 /\ (mine[t] = Anonymous \/ ~Registered(mine[t]))
    BY DEF IInv, OneSwitches, AddAppend
  <2>3. acquirers[1] \in Acquirers /\ Contains(acquirers, acquirers[1])
    BY <2>1, <2>2, OneElement
  <2>4. \A u \in Threads : pc[u] \notin InUse
    BY SecondUnused DEF AddAppend
  <2> QED
    BY <2>2, <2>3, <2>4 DEF IInv, OneSwitches, Modes, Holding, AddAppend, Switching, Registered
<1>1. TypeOK'
  BY <1>0 DEF IInv, AddAppend, Goto, TypeOK, Locations
<1>b. \A u \in Threads : pc'[u] \notin Switching
  BY <1>a DEF IInv, AddAppend, Goto, TypeOK, Switching
<1>2. Holding'
  <2>2. \A u \in Threads : mine'[u] \in Loxes => loxOwner'[mine'[u]] = u
    BY <1>a, AnonymousAssumption DEF IInv, AddAppend, Holding
  <2> QED
    BY <1>b, <2>2 DEF Holding, Switching
<1>3. LoxOnce'
  BY <1>0
<1>4. UsersRegistered'
  <2>1. \A u \in Threads : pc'[u] \notin InUse
    BY <1>a DEF AddAppend, Goto, InUse
  <2>2. AnonymousActive' \in SUBSET AnonymousActive
    BY DEF AddAppend, Goto, AnonymousActive, AnonymousIn, InUse, Leaving
  <2> QED
    BY <1>0, <1>1, <2>1, <2>2, UsersKept
<1>5. OneSwitches'
  BY <1>a, NoThreadAssumption DEF IInv, AddAppend, Goto, TypeOK, OneSwitches, Switching
<1>6. Modes'
  BY <1>a, <1>b DEF AddAppend, Modes, SafeWhenShared, Switching
<1>7. Uses'
  BY DEF IInv, AddAppend, Goto, Uses, NoStaleMode
<1> QED
  BY <1>1, <1>2, <1>3, <1>4, <1>5, <1>6, <1>7 DEF IInv

\* A thread that removes an anonymous acquirer does not use it.
LEMMA RemoveCallKeeps ==
    ASSUME IInv, NEW t \in Threads, RemoveCall(t)
    PROVE  IInv'
<1>1. TypeOK'
  BY DEF IInv, RemoveCall, Goto, TypeOK, Locations
<1>2. Holding'
  BY DEF IInv, RemoveCall, Goto, Holding, Remaining
<1>3. LoxOnce'
  BY DEF IInv, RemoveCall, LoxOnce
<1>4. UsersRegistered'
  <2>1. pc'[t] \notin InUse
    BY DEF IInv, TypeOK, RemoveCall, Goto, InUse
  <2> QED
    BY <2>1, UsersAndOne DEF IInv, TypeOK, RemoveCall, Goto
<1>5. OneSwitches'
  BY DEF IInv, RemoveCall, Goto, OneSwitches, Switching, Registered
<1>6. Modes'
  BY DEF IInv, RemoveCall, Goto, Modes, SafeWhenShared, InUse
<1>7. Uses'
  BY DEF IInv, RemoveCall, Goto, Uses, NoStaleMode
<1> QED
  BY <1>1, <1>2, <1>3, <1>4, <1>5, <1>6, <1>7 DEF IInv

\* An acquirer that is not one of two: the mode stays as it is.
LEMMA RemovePlainKeeps ==
    ASSUME IInv, NEW t \in Threads, RemovePlain(t)
    PROVE  IInv'
<1>0. /\ acquirers' \in Seq(Acquirers)
      /\ Len(acquirers') = IF Registered(mine[t]) THEN Len(acquirers) - 1 ELSE Len(acquirers)
      /\ LoxOnce'
      /\ \A a : a # mine[t] /\ Registered(a) => Registered(a)'
      /\ Cardinality(AnonymousActive \ {t}) <= Cardinality(Anonymouses)'
  BY Left DEF RemovePlain, Leaving
<1>a. alibLock = NoThread /\ \A u \in Threads : pc[u] \notin Switching
  BY NoThreadAssumption DEF IInv, OneSwitches, RemovePlain
<1>1. TypeOK'
  BY <1>0 DEF IInv, RemovePlain, Goto, TypeOK, Locations
<1>2. Holding'
  BY <1>a DEF IInv, RemovePlain, Goto, Holding, Switching
<1>3. LoxOnce'
  BY <1>0
<1>4. UsersRegistered'
  <2>1. \A u \in Threads : pc'[u] \in InUse => pc[u] \in InUse /\ mine'[u] = mine[u] /\ u # t
    BY DEF RemovePlain, Goto, InUse
  <2>2. \A u \in Threads : pc'[u] \in InUse /\ mine[u] \in Loxes =>
            mine[u] # mine[t] /\ Registered(mine[u])
    BY <2>1 DEF IInv, Holding, UsersRegistered
  <2>3. \A u \in Threads : pc'[u] \in InUse /\ mine[u] \in Loxes => Registered(mine[u])'
    BY <1>0, <2>1, <2>2 DEF RemovePlain
  <2>4. AnonymousActive' \in SUBSET (AnonymousActive \ {t})
    BY DEF IInv, TypeOK, RemovePlain, Goto, AnonymousActive, AnonymousIn, InUse, Leaving
  <2> QED
    BY <1>0, <1>1, <2>1, <2>3, <2>4, UsersKept
<1>5. OneSwitches'
  BY <1>a DEF IInv, RemovePlain, Goto, OneSwitches, Switching
<1>6. Modes'
  <2>1. SafeWhenShared'
    <3>1. PICK n \in Nat : n = Len(acquirers)
      BY DEF IInv, TypeOK
    <3>2. n >= 2 => safe
      BY <1>a, <3>1 DEF IInv, Modes, SafeWhenShared
    <3>3. Len(acquirers') = n \/ Len(acquirers') = n - 1
      BY <1>0, <3>1 DEF RemovePlain
    <3>4. n - 1 >= 2 => n >= 2
      BY <3>1
    <3> QED
      BY <3>2, <3>3, <3>4 DEF RemovePlain, SafeWhenShared
  <2> QED
    BY <1>a, <2>1 DEF RemovePlain, Goto, Modes, Switching
<1>7. Uses'
  BY DEF IInv, RemovePlain, Goto, Uses, NoStaleMode
<1> QED
  BY <1>1, <1>2, <1>3, <1>4, <1>5, <1>6, <1>7 DEF IInv

\* The mode becomes Unsafe, unless an anonymous user refuses: no Lox uses the lock, and nobody
\* goes without a mutex.
LEMMA RemoveSwitchKeeps ==
    ASSUME IInv, NEW t \in Threads, RemoveSwitch(t)
    PROVE  IInv'
<1>a. safe /\ Len(acquirers) = 2 /\ alibLock = t /\ \A u \in Threads : pc[u] \in Switching => u = t
  BY DEF IInv, Modes, OneSwitches, RemoveSwitch, Switching
<1>b. \A u \in Threads : pc[u] \in InUse => mine[u] = Anonymous
  <2> SUFFICES ASSUME NEW u \in Threads, pc[u] \in InUse
               PROVE  mine[u] = Anonymous
    OBVIOUS
  <2>1. u # t
    BY DEF InUse, RemoveSwitch
  <2> QED
    BY <2>1, UserIsRegistered, OthersExcluded DEF RemoveSwitch
<1>c. safe' \in BOOLEAN /\ (~safe' => owner = NoThread)
  BY <1>a DEF RemoveSwitch, SetSafeness
<1>1. TypeOK'
  BY <1>c DEF IInv, RemoveSwitch, Goto, TypeOK, Locations, Switching
<1>2. Holding'
  BY DEF IInv, RemoveSwitch, Goto, Holding, Remaining
<1>3. LoxOnce'
  BY DEF IInv, RemoveSwitch, LoxOnce
<1>4. UsersRegistered'
  BY <1>1, UsersKeptAtRest DEF RemoveSwitch, Goto, InUse, Leaving
<1>5. OneSwitches'
  BY DEF IInv, RemoveSwitch, Goto, OneSwitches, Switching, Registered
<1>6. Modes'
  BY <1>a, NoThreadAssumption DEF IInv, RemoveSwitch, Goto, TypeOK, Modes, SafeWhenShared, Switching
<1>7. Uses'
  <2>1. NoStaleMode'
    BY <1>a, <1>b DEF IInv, RemoveSwitch, Goto, Uses, NoStaleMode, InUse
  <2> QED
    BY <1>a, <2>1 DEF IInv, RemoveSwitch, Goto, Uses
<1> QED
  BY <1>1, <1>2, <1>3, <1>4, <1>5, <1>6, <1>7 DEF IInv

\* One of two acquirers, removed after the switch.
LEMMA RemoveEraseKeeps ==
    ASSUME IInv, NEW t \in Threads, RemoveErase(t)
    PROVE  IInv'
<1>a. /\ alibLock = t /\ \A u \in Threads : pc[u] \in Switching => u = t
      /\ Len(acquirers) = 2 /\ Registered(mine[t])
      /\ Remaining(t) \in Loxes => loxOwner[Remaining(t)] = t
  BY DEF IInv, OneSwitches, Holding, RemoveErase, Switching
<1>0. /\ acquirers' \in Seq(Acquirers)
      /\ Len(acquirers') = IF Registered(mine[t]) THEN Len(acquirers) - 1 ELSE Len(acquirers)
      /\ LoxOnce'
      /\ \A a : a # mine[t] /\ Registered(a) => Registered(a)'
      /\ Cardinality(AnonymousActive \ {t}) <= Cardinality(Anonymouses)'
  BY Left DEF RemoveErase, Leaving
<1>b. mine[t] \in Loxes => Remaining(t) # mine[t]
  <2>1. acquirers \in Seq(Acquirers)
    BY DEF IInv, TypeOK
  <2>2. Once(acquirers, mine[t]) => Head(RemoveFirst(acquirers, mine[t])) # mine[t]
    BY <1>a, <2>1, OtherOfTwo DEF Registered
  <2> QED
    BY <2>2 DEF IInv, LoxOnce, Remaining
<1>1. TypeOK'
  BY <1>0 DEF IInv, RemoveErase, Goto, TypeOK, Locations
<1>c. \A u \in Threads : pc'[u] \notin Switching
  BY <1>a DEF IInv, RemoveErase, Goto, TypeOK, Switching
<1>2. Holding'
  <2>2. \A u \in Threads : mine'[u] \in Loxes => loxOwner'[mine'[u]] = u
    BY <1>a, <1>b DEF IInv, RemoveErase, Holding
  <2> QED
    BY <1>c, <2>2 DEF Holding, Switching
<1>3. LoxOnce'
  BY <1>0
<1>4. UsersRegistered'
  <2>1. \A u \in Threads : pc'[u] \in InUse => pc[u] \in InUse /\ mine'[u] = mine[u] /\ u # t
    BY DEF RemoveErase, Goto, InUse
  <2>2. \A u \in Threads : pc'[u] \in InUse /\ mine[u] \in Loxes =>
            mine[u] # mine[t] /\ Registered(mine[u])
    BY <2>1 DEF IInv, Holding, UsersRegistered
  <2>3. \A u \in Threads : pc'[u] \in InUse /\ mine[u] \in Loxes => Registered(mine[u])'
    BY <1>0, <2>1, <2>2 DEF RemoveErase
  <2>4. AnonymousActive' \in SUBSET (AnonymousActive \ {t})
    BY DEF IInv, TypeOK, RemoveErase, Goto, AnonymousActive, AnonymousIn, InUse, Leaving
  <2> QED
    BY <1>0, <1>1, <2>1, <2>3, <2>4, UsersKept
<1>5. OneSwitches'
  BY <1>a, NoThreadAssumption DEF IInv, RemoveErase, Goto, TypeOK, OneSwitches, Switching
<1>6. Modes'
  <2>1. Len(acquirers') = 1
    BY <1>0, <1>a
  <2> QED
    BY <1>c, <2>1 DEF Modes, SafeWhenShared, Switching
<1>7. Uses'
  BY DEF IInv, RemoveErase, Goto, Uses, NoStaleMode
<1> QED
  BY <1>1, <1>2, <1>3, <1>4, <1>5, <1>6, <1>7 DEF IInv

-----------------------------------------------------------------------------
(***************************************************************************)
(* The invariant and the theorems.                                         *)
(***************************************************************************)
\* The initial state: no acquirer, nobody holds anything.
LEMMA InitIInv == Init => IInv
<1> SUFFICES ASSUME Init
             PROVE  IInv
  OBVIOUS
<1>1. acquirers = <<>> /\ Len(acquirers) = 0 /\ acquirers \in Seq(Acquirers)
  BY DEF Init
<1>2. TypeOK
  <2>1. safe = FALSE /\ owner = NoThread /\ cntAcquirements = 0 /\ alibLock = NoThread
    BY DEF Init
  <2>2. loxOwner \in [Loxes -> Threads \cup {NoThread}]
    BY DEF Init
  <2>3. mine \in [Threads -> Acquirers] /\ pc \in [Threads -> Locations]
    BY DEF Init, Acquirers, Locations
  <2>4. acquirers \in Seq(Acquirers)
    BY <1>1
  <2>5. safe \in BOOLEAN
    BY <2>1
  <2>6. cntAcquirements \in 0..1
    BY <2>1
  <2> QED
    BY <2>1, <2>2, <2>3, <2>4, <2>5, <2>6 DEF TypeOK
<1>3. Holding
  BY AnonymousAssumption DEF Init, Holding
<1>4. LoxOnce
  BY <1>1 DEF LoxOnce, Once, Indexes
<1>5. UsersRegistered
  <2>1. AnonymousActive = {} /\ Anonymouses = {}
    BY <1>1 DEF Init, AnonymousActive, AnonymousIn, Anonymouses, InUse, Leaving
  <2>2. \A t \in Threads : pc[t] \notin InUse
    BY DEF Init, InUse
  <2> QED
    BY <2>1, <2>2, FS_EmptySet DEF UsersRegistered
<1>6. OneSwitches /\ Uses
  BY NoThreadAssumption DEF Init, OneSwitches, Switching, Uses, NoStaleMode, InUse
<1>7. Modes
  BY <1>1 DEF Init, Modes, SafeWhenShared
<1> QED
  BY <1>2, <1>3, <1>4, <1>5, <1>6, <1>7 DEF IInv

\* Every step keeps the invariant.
LEMMA NextIInv == IInv /\ [Next]_vars => IInv'
<1> SUFFICES ASSUME IInv, [Next]_vars
             PROVE  IInv'
  OBVIOUS
<1>1. ASSUME NEW t \in Threads, NEW l \in Loxes, AcquireLox(t, l)
      PROVE  IInv'
  <2>1. TypeOK'
    BY <1>1 DEF IInv, AcquireLox, TypeOK, Acquirers
  <2>2. Holding'
    BY <1>1, NoThreadAssumption DEF IInv, AcquireLox, TypeOK, Holding, Remaining
  <2>3. LoxOnce'
    BY <1>1 DEF IInv, AcquireLox, LoxOnce
  <2>4. UsersRegistered'
    BY <1>1, <2>1, UsersKeptAtRest DEF AcquireLox, InUse, Leaving
  <2>5. OneSwitches'
    BY <1>1 DEF IInv, AcquireLox, OneSwitches, Registered
  <2>6. Modes'
    BY <1>1 DEF IInv, AcquireLox, Modes, SafeWhenShared
  <2>7. Uses'
    BY <1>1 DEF IInv, AcquireLox, Uses, NoStaleMode
  <2> QED
    BY <2>1, <2>2, <2>3, <2>4, <2>5, <2>6, <2>7 DEF IInv
<1>2. ASSUME NEW t \in Threads, ReleaseLox(t)
      PROVE  IInv'
  <2>1. TypeOK'
    BY <1>2 DEF IInv, ReleaseLox, TypeOK, Acquirers
  <2>2. Holding'
    BY <1>2, AnonymousAssumption DEF IInv, ReleaseLox, TypeOK, Holding, Remaining
  <2>3. LoxOnce'
    BY <1>2 DEF IInv, ReleaseLox, LoxOnce
  <2>4. UsersRegistered'
    BY <1>2, <2>1, UsersKeptAtRest DEF ReleaseLox, InUse, Leaving
  <2>5. OneSwitches'
    BY <1>2 DEF IInv, ReleaseLox, OneSwitches, Registered
  <2>6. Modes'
    BY <1>2 DEF IInv, ReleaseLox, Modes, SafeWhenShared
  <2>7. Uses'
    BY <1>2 DEF IInv, ReleaseLox, Uses, NoStaleMode
  <2> QED
    BY <2>1, <2>2, <2>3, <2>4, <2>5, <2>6, <2>7 DEF IInv
<1>3. ASSUME NEW t \in Threads, AcquireCall(t)
      PROVE  IInv'
  BY <1>3, AcquireCallKeeps
<1>4. ASSUME NEW t \in Threads, AcquireUnsafe(t)
      PROVE  IInv'
  BY <1>4, AcquireUnsafeKeeps
<1>5. ASSUME NEW t \in Threads, AcquireSafe(t)
      PROVE  IInv'
  BY <1>5, AcquireSafeKeeps
<1>6. ASSUME NEW t \in Threads, Release(t)
      PROVE  IInv'
  BY <1>6, ReleaseKeeps
<1>7. ASSUME NEW t \in Threads, AddCall(t)
      PROVE  IInv'
  <2>1. TypeOK'
    BY <1>7 DEF IInv, AddCall, Goto, TypeOK, Locations
  <2>2. Holding'
    BY <1>7 DEF IInv, AddCall, Goto, Holding, Remaining
  <2>3. LoxOnce'
    BY <1>7 DEF IInv, AddCall, LoxOnce
  <2>4. UsersRegistered'
    BY <1>7, <2>1, UsersKeptAtRest DEF AddCall, Goto, InUse, Leaving
  <2>5. OneSwitches'
    BY <1>7 DEF IInv, AddCall, Goto, OneSwitches, Switching, Registered
  <2>6. Modes'
    BY <1>7 DEF IInv, AddCall, Goto, Modes, SafeWhenShared, InUse
  <2>7. Uses'
    BY <1>7 DEF IInv, AddCall, Goto, Uses, NoStaleMode, InUse
  <2> QED
    BY <2>1, <2>2, <2>3, <2>4, <2>5, <2>6, <2>7 DEF IInv
<1>8. ASSUME NEW t \in Threads, AddRefused(t)
      PROVE  IInv'
  <2>1. TypeOK'
    BY <1>8 DEF IInv, AddRefused, Goto, TypeOK, Locations
  <2>2. Holding'
    BY <1>8 DEF IInv, AddRefused, Goto, Holding, Remaining
  <2>3. LoxOnce'
    BY <1>8 DEF IInv, AddRefused, LoxOnce
  <2>4. UsersRegistered'
    BY <1>8, <2>1, UsersKeptAtRest DEF AddRefused, Goto, InUse, Leaving
  <2>5. OneSwitches'
    BY <1>8 DEF IInv, AddRefused, Goto, OneSwitches, Switching, Registered
  <2>6. Modes'
    BY <1>8 DEF IInv, AddRefused, Goto, Modes, SafeWhenShared, InUse
  <2>7. Uses'
    BY <1>8 DEF IInv, AddRefused, Goto, Uses, NoStaleMode, InUse
  <2> QED
    BY <2>1, <2>2, <2>3, <2>4, <2>5, <2>6, <2>7 DEF IInv
<1>9. ASSUME NEW t \in Threads, AddPlain(t)
      PROVE  IInv'
  BY <1>9, AddPlainKeeps
<1>10. ASSUME NEW t \in Threads, AddSecond(t)
      PROVE  IInv'
  BY <1>10, AddSecondKeeps
<1>11. ASSUME NEW t \in Threads, AddFirst(t)
      PROVE  IInv'
  <2>1. TypeOK'
    BY <1>11 DEF IInv, AddFirst, Goto, TypeOK, Locations, Switching
  <2>2. Holding'
    BY <1>11, NoThreadAssumption DEF IInv, AddFirst, Goto, TypeOK, Holding, OneSwitches, Switching
  <2>3. LoxOnce'
    BY <1>11 DEF IInv, AddFirst, LoxOnce
  <2>4. UsersRegistered'
    BY <1>11, <2>1, UsersKeptAtRest DEF AddFirst, Goto, InUse, Leaving
  <2>5. OneSwitches'
    BY <1>11 DEF IInv, AddFirst, Goto, OneSwitches, Switching, Registered
  <2>6. Modes'
    BY <1>11 DEF IInv, AddFirst, Goto, Modes, SafeWhenShared, OneSwitches, InUse
  <2>7. Uses'
    BY <1>11 DEF IInv, AddFirst, Goto, Uses, NoStaleMode, InUse
  <2> QED
    BY <2>1, <2>2, <2>3, <2>4, <2>5, <2>6, <2>7 DEF IInv
<1>12. ASSUME NEW t \in Threads, AddSwitch(t)
      PROVE  IInv'
  BY <1>12, AddSwitchKeeps
<1>13. ASSUME NEW t \in Threads, AddAppend(t)
      PROVE  IInv'
  BY <1>13, AddAppendKeeps
<1>14. ASSUME NEW t \in Threads, RemoveCall(t)
      PROVE  IInv'
  BY <1>14, RemoveCallKeeps
<1>15. ASSUME NEW t \in Threads, RemovePlain(t)
      PROVE  IInv'
  BY <1>15, RemovePlainKeeps
<1>16. ASSUME NEW t \in Threads, RemoveOfTwo(t)
      PROVE  IInv'
  <2>1. TypeOK'
    BY <1>16 DEF IInv, RemoveOfTwo, Goto, TypeOK, Locations, Switching
  <2>2. Holding'
    BY <1>16, AnonymousAssumption DEF IInv, RemoveOfTwo, Goto, Holding, Remaining
  <2>3. LoxOnce'
    BY <1>16 DEF IInv, RemoveOfTwo, LoxOnce
  <2>4. UsersRegistered'
    BY <1>16, <2>1, UsersKeptAtRest DEF RemoveOfTwo, Goto, InUse, Leaving
  <2>5. OneSwitches'
    BY <1>16, NoThreadAssumption
       DEF IInv, RemoveOfTwo, Goto, TypeOK, OneSwitches, Switching, Registered
  <2>6. Modes'
    BY <1>16 DEF IInv, RemoveOfTwo, Goto, Modes, SafeWhenShared, InUse
  <2>7. Uses'
    BY <1>16 DEF IInv, RemoveOfTwo, Goto, Uses, NoStaleMode, InUse
  <2> QED
    BY <2>1, <2>2, <2>3, <2>4, <2>5, <2>6, <2>7 DEF IInv
<1>17. ASSUME NEW t \in Threads, RemoveOther(t)
      PROVE  IInv'
  <2>1. TypeOK'
    BY <1>17 DEF IInv, RemoveOther, Goto, TypeOK, Locations, Switching
  <2>2. Holding'
    BY <1>17, NoThreadAssumption DEF IInv, RemoveOther, Goto, TypeOK, Holding, Remaining
  <2>3. LoxOnce'
    BY <1>17 DEF IInv, RemoveOther, LoxOnce
  <2>4. UsersRegistered'
    BY <1>17, <2>1, UsersKeptAtRest DEF RemoveOther, Goto, InUse, Leaving
  <2>5. OneSwitches'
    BY <1>17 DEF IInv, RemoveOther, Goto, OneSwitches, Switching, Registered
  <2>6. Modes'
    BY <1>17 DEF IInv, RemoveOther, Goto, Modes, SafeWhenShared, InUse
  <2>7. Uses'
    BY <1>17 DEF IInv, RemoveOther, Goto, Uses, NoStaleMode, Modes
  <2> QED
    BY <2>1, <2>2, <2>3, <2>4, <2>5, <2>6, <2>7 DEF IInv
<1>18. ASSUME NEW t \in Threads, RemoveSwitch(t)
      PROVE  IInv'
  BY <1>18, RemoveSwitchKeeps
<1>19. ASSUME NEW t \in Threads, RemoveErase(t)
      PROVE  IInv'
  BY <1>19, RemoveEraseKeeps
<1>20. CASE UNCHANGED vars
  <2>1. TypeOK' /\ acquirers' = acquirers
    BY <1>20 DEF IInv, vars, TypeOK
  <2>2. UsersRegistered'
    BY <1>20, <2>1, UsersKeptAtRest DEF vars
  <2>3. Holding' /\ LoxOnce' /\ OneSwitches'
    BY <1>20 DEF IInv, vars, Holding, Remaining, LoxOnce, OneSwitches, Registered
  <2>4. Modes' /\ Uses'
    BY <1>20 DEF IInv, vars, Modes, SafeWhenShared, Uses, NoStaleMode
  <2> QED
    BY <2>1, <2>2, <2>3, <2>4 DEF IInv
<1> QED
  BY <1>1, <1>2, <1>3, <1>4, <1>5, <1>6, <1>7, <1>8, <1>9, <1>10, <1>11, <1>12, <1>13, <1>14,
         <1>15, <1>16, <1>17, <1>18, <1>19, <1>20
     DEF Next

\* The state keeps its types.
THEOREM TypeCorrect == Spec => []TypeOK
<1>1. IInv => TypeOK
  BY DEF IInv
<1> QED
  BY <1>1, InitIInv, NextIInv, PTL DEF Spec

\* Of all the threads of all the Loxes that share a logger, one writes at a time.
THEOREM MutualExclusionAlways == Spec => []MutualExclusion
<1>1. IInv => MutualExclusion
  BY UsesAlone DEF MutualExclusion
<1> QED
  BY <1>1, InitIInv, NextIInv, PTL DEF Spec

\* No thread goes without the mutex once it exists, and none of a Lox for one that is deleted.
THEOREM NoStaleModeAlways == Spec => []NoStaleMode
<1>1. IInv => NoStaleMode
  BY DEF IInv, Uses
<1> QED
  BY <1>1, InitIInv, NextIInv, PTL DEF Spec

\* Whatever switches are refused: a lock with two acquirers or more has its mutex.
THEOREM SafeWhenSharedAlways == Spec => []SafeWhenShared
<1>1. IInv => SafeWhenShared
  BY DEF IInv, Modes
<1> QED
  BY <1>1, InitIInv, NextIInv, PTL DEF Spec
=============================================================================
