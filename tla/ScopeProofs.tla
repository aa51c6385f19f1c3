---------------------------- MODULE ScopeProofs ----------------------------
(***************************************************************************)
(* What MCScopeInfo.cfg and MCScopeStore.cfg check on small instances,     *)
(* proved of ScopeInfo and of ScopeStore for all values of their constants.*)
(***************************************************************************)
EXTENDS ScopeInfo, ScopeStore, FiniteSetTheorems, SequenceTheorems, WellFoundedInduction, TLAPS

(***************************************************************************)
(* Sets of natural numbers.                                                *)
(***************************************************************************)
\* A set of natural numbers that is not empty has a least element.
LEMMA LeastExists ==
    ASSUME NEW S \in SUBSET Nat, S # {}
    PROVE  \E n \in S : \A m \in S : n <= m
<1> DEFINE R == OpToRel(<, Nat)
<1>1. \A m, n \in Nat : m < n => <<m, n>> \in R
  BY DEF OpToRel
<1>2. IsWellFoundedOn(R, Nat)
  BY NatLessThanWellFounded
<1> HIDE DEF R
<1>3. PICK n \in S : \A m \in S : <<m, n>> \notin R
  BY <1>2, WFMin
<1>4. ASSUME NEW m \in S
      PROVE  n <= m
  <2>1. m \in Nat /\ n \in Nat /\ ~(m < n)
    BY <1>1, <1>3
  <2> QED
    BY <2>1
<1> QED
  BY <1>4

\* The same of Min, that chooses it.
LEMMA MinIsLeast ==
    ASSUME NEW S \in SUBSET Nat, S # {}
    PROVE  Min(S) \in S /\ \A m \in S : Min(S) <= m
BY LeastExists DEF Min

\* Induction up to N.
LEMMA UpTo ==
    ASSUME NEW N \in Nat, NEW S, 0 \in S, \A n \in 0..N : n \in S /\ n < N => n + 1 \in S
    PROVE  \A n \in 0..N : n \in S
<1> DEFINE Bad == {n \in 0..N : n \notin S}
<1>1. SUFFICES ASSUME Bad # {} PROVE FALSE
  OBVIOUS
<1>2. PICK n \in Bad : \A m \in Bad : n <= m
  <2>1. Bad \in SUBSET Nat
    OBVIOUS
  <2> HIDE DEF Bad
  <2> QED
    BY <1>1, <2>1, LeastExists
<1>3. n # 0 /\ n \in 1..N /\ n - 1 \in 0..N /\ n - 1 < N /\ (n - 1) + 1 = n /\ ~(n <= n - 1)
  OBVIOUS
<1>4. n - 1 \in S
  BY <1>2, <1>3
<1> QED
  BY <1>2, <1>3, <1>4

(***************************************************************************)
(* ScopeInfo.                                                              *)
(*                                                                         *)
(* That the recent files are in the cache needs their order in it: some    *)
(* p gives the entry of each of them, and an entry that is not among the   *)
(* first k of them was not used after the k-th one (Ordered). An entry     *)
(* that is taken for another file while it is the one of a recent file was *)
(* then never used at all (otherwise it has to be the last of all), holds  *)
(* NoFile, and there is another one for NoFile.                            *)
(***************************************************************************)
Stamp(i) == cache[i].timeStamp
File(i)  == cache[i].origFile

Sources == Files \cup {NoFile}
Paths   == Rules \cup {AutoRule[f] : f \in Sources} \cup {NoRule, Unknown, Empty}

Typed ==
    /\ cacheRun \in Nat /\ actual \in Slots
    /\ cache \in [Slots -> [origFile : Sources, trimmedPath : Paths, timeStamp : Nat]]
    /\ LocalSPTRs \in Seq(Paths) /\ GlobalSPTRs \in Seq(Paths)
    /\ recent \in Seq(Sources) /\ Len(recent) <= CacheSize
    /\ outdated \in BOOLEAN

\* No two entries were used at the same time, the actual one was used last, and an entry that
\* was never used is empty.
TimesSound ==
    /\ \A i \in Slots : Stamp(i) <= cacheRun
    /\ \A i, j \in Slots : Stamp(i) = Stamp(j) /\ i # j => Stamp(i) = 0
    /\ Stamp(actual) = cacheRun
    /\ \A i \in Slots : Stamp(i) = 0 => File(i) = NoFile

FilesOnce ==
    \A i, j \in Slots : File(i) = File(j) /\ i # j => File(i) = NoFile

\* p[k] is the entry of the k-th of the recent files.
Ordered(p) ==
    /\ p \in [DOMAIN recent -> Slots]
    /\ \A k, m \in DOMAIN recent : p[k] = p[m] => k = m
    /\ \A k \in DOMAIN recent : File(p[k]) = recent[k]
    /\ \A k \in DOMAIN recent, j \in Slots :
          (\A m \in 1..k : p[m] # j) => Stamp(j) <= Stamp(p[k])
    /\ \A k \in DOMAIN recent, j \in Slots :
          recent[k] = NoFile /\ k < Len(recent) /\ File(j) = NoFile => p[k] <= j
    /\ recent # <<>> => p[1] = actual

RecentOnce == \A k, m \in DOMAIN recent : recent[k] = recent[m] => k = m

\* What was evaluated is what the rules make of it now.
EntriesFresh ==
    ~outdated => \A i \in Slots :
        cache[i].origFile # NoFile /\ cache[i].trimmedPath # Unknown =>
            cache[i].trimmedPath = Trimmed(LocalSPTRs, GlobalSPTRs, cache[i].origFile)

Lru  == Typed /\ TimesSound /\ FilesOnce /\ RecentOnce /\ \E p : Ordered(p)
IInv == Lru /\ EntriesFresh /\ TrimmedPathFresh

-----------------------------------------------------------------------------
(***************************************************************************)
(* The operators.                                                          *)
(***************************************************************************)
\* Oldest is an entry, and no entry was used before it.
LEMMA OldestIsOldest ==
    ASSUME Typed
    PROVE  Oldest \in Slots /\ \A j \in Slots : Stamp(Oldest) <= Stamp(j)
<1> USE DEF Typed, Stamp
<1> DEFINE Stamps == {cache[i].timeStamp : i \in Slots}
<1>1. Stamps \in SUBSET Nat /\ Stamps # {}
  BY BoundsAssumption DEF Slots
<1>2. PICK n \in Stamps : \A m \in Stamps : n <= m
  BY <1>1, LeastExists
<1> DEFINE Candidates == {i \in Slots : cache[i].timeStamp = n}
<1>3. Candidates \in SUBSET Nat /\ Candidates # {}
  BY <1>2 DEF Slots
<1>4. PICK i \in Candidates : \A j \in Candidates : i <= j
  BY <1>3, LeastExists
<1>5. n \in Nat /\ \A j \in Slots : cache[j].timeStamp \in Nat /\ n <= cache[j].timeStamp
  BY <1>1, <1>2
<1>6. \A j \in Slots : \/ cache[i].timeStamp < cache[j].timeStamp
                       \/ cache[i].timeStamp = cache[j].timeStamp /\ i <= j
  BY <1>4, <1>5
<1>7. /\ Oldest \in Slots
      /\ \A j \in Slots : \/ cache[Oldest].timeStamp < cache[j].timeStamp
                          \/ cache[Oldest].timeStamp = cache[j].timeStamp /\ Oldest <= j
  BY <1>4, <1>6 DEF Oldest
<1> HIDE DEF Stamps, Candidates
<1> QED
  BY <1>5, <1>7

\* The entry that a search takes is the first one with the file.
LEMMA FoundHasFirst ==
    ASSUME NEW f, Found(f) # {}
    PROVE  LET i == CHOOSE j \in Found(f) : \A k \in Found(f) : j <= k
           IN  i \in Slots /\ File(i) = f /\ \A k \in Slots : File(k) = f => i <= k
<1>1. Found(f) \in SUBSET Nat
  BY DEF Found, Slots
<1>2. \E j \in Found(f) : \A k \in Found(f) : j <= k
  BY <1>1, LeastExists
<1> QED
  BY <1>2 DEF Found, File

\* Fewer files than entries leave an entry.
LEMMA EntryLeft ==
    ASSUME NEW k \in Nat, k < CacheSize, NEW p, \A m \in 1..k : p[m] \in Slots
    PROVE  \E j \in Slots : \A m \in 1..k : p[m] # j
<1> SUFFICES ASSUME \A j \in Slots : \E m \in 1..k : p[m] = j
             PROVE  FALSE
  OBVIOUS
<1> DEFINE g == [j \in Slots |-> CHOOSE m \in 1..k : p[m] = j]
<1>1. g \in [Slots -> 1..k] /\ \A j \in Slots : p[g[j]] = j
  OBVIOUS
<1>2. IsFiniteSet(Slots) /\ Cardinality(Slots) = CacheSize
  BY BoundsAssumption, FS_Interval DEF Slots
<1>3. IsFiniteSet(1..k) /\ Cardinality(1..k) = k
  BY FS_Interval
<1> HIDE DEF g
<1>4. PICK x, y \in Slots : x # y /\ g[x] = g[y]
  BY <1>1, <1>2, <1>3, FS_PigeonHole
<1> QED
  BY <1>1, <1>4

\* A rule that matches is one of the list.
LEMMA TrimmedIsPath ==
    ASSUME NEW local \in Seq(Paths), NEW global \in Seq(Paths), NEW f
    PROVE  Trimmed(local, global, f) \in Paths
<1> DEFINE all == local \o global
           I   == {i \in 1..Len(all) : f \in Matched[all[i]]}
<1>1. all \in Seq(Paths) /\ I \in SUBSET Nat
  BY ConcatProperties
<1>2. I # {} => Min(I) \in I
  BY <1>1, MinIsLeast
<1>3. SelectInSeq(all, LAMBDA r : f \in Matched[r]) = IF I # {} THEN Min(I) ELSE 0
  BY DEF SelectInSeq
<1>4. I # {} => all[Min(I)] \in Paths
  <2>1. \A i \in I : i \in 1..Len(all)
    OBVIOUS
  <2> HIDE DEF all, I
  <2>2. I # {} => Min(I) \in 1..Len(all)
    BY <1>2, <2>1
  <2> QED
    BY <1>1, <2>2, ElementOfSeq
<1> HIDE DEF all, I
<1>5. \/ Trimmed(local, global, f) \in {Empty, NoRule}
      \/ I # {} /\ Trimmed(local, global, f) = all[Min(I)]
  BY <1>2, <1>3 DEF Trimmed, all
<1> QED
  BY <1>4, <1>5 DEF Paths

\* The history, moved: f comes first, what was in front of its place moves on.
LEMMA MovedToFrontIs ==
    ASSUME Typed, RecentOnce, NEW f \in Sources
    PROVE  \E place \in 1..CacheSize, n \in 1..CacheSize :
             /\ n = IF place > Len(recent) THEN place ELSE Len(recent)
             /\ IF f \in Range(recent) THEN place \in DOMAIN recent /\ recent[place] = f
                ELSE place = IF Len(recent) < CacheSize THEN Len(recent) + 1 ELSE CacheSize
             /\ MovedToFront(f) \in Seq(Sources)
             /\ Len(MovedToFront(f)) = n
             /\ \A k \in 1..n : MovedToFront(f)[k] =
                  IF k = 1 THEN f ELSE IF k <= place THEN recent[k - 1] ELSE recent[k]
<1> DEFINE place == IF f \in Range(recent) THEN CHOOSE k \in DOMAIN recent : recent[k] = f
                    ELSE IF Len(recent) < CacheSize THEN Len(recent) + 1 ELSE CacheSize
           n == IF place > Len(recent) THEN place ELSE Len(recent)
<1>1. Len(recent) \in Nat /\ DOMAIN recent = 1..Len(recent) /\ Len(recent) <= CacheSize
      /\ CacheSize \in Nat \ {0} /\ \A k \in 1..Len(recent) : recent[k] \in Sources
  BY BoundsAssumption DEF Typed
<1>2. IF f \in Range(recent) THEN place \in DOMAIN recent /\ recent[place] = f
      ELSE place = IF Len(recent) < CacheSize THEN Len(recent) + 1 ELSE CacheSize
  BY DEF Range
<1>3. place \in 1..CacheSize /\ place <= Len(recent) + 1
  BY <1>1, <1>2
<1>4. MovedToFront(f) = [k \in (DOMAIN recent) \cup {place} |->
                            IF k = 1 THEN f ELSE IF k <= place THEN recent[k - 1] ELSE recent[k]]
  BY DEF MovedToFront
<1> HIDE DEF place
<1>5. n \in 1..CacheSize /\ (DOMAIN recent) \cup {place} = 1..n
  BY <1>1, <1>3
<1>6. \A k \in 1..n : (IF k = 1 THEN f ELSE IF k <= place THEN recent[k - 1] ELSE recent[k]) \in Sources
  BY <1>1, <1>3
<1>7. MovedToFront(f) \in [1..n -> Sources]
  BY <1>4, <1>5, <1>6
<1>8. MovedToFront(f) \in Seq(Sources) /\ Len(MovedToFront(f)) = n
  BY <1>5, <1>7
<1> QED
  BY <1>2, <1>3, <1>4, <1>5, <1>8

-----------------------------------------------------------------------------
(***************************************************************************)
(* Set, with a file that the cache has (possibly as its actual one) and    *)
(* with one it does not have.                                              *)
(***************************************************************************)
\* A file that the cache has gets the time of now, in its place.
LEMMA SetFound ==
    ASSUME Lru, NEW f \in Sources, NEW i \in Slots,
           File(i) = f, \A k \in Slots : File(k) = f => i <= k,
           actual' = i, cacheRun' = cacheRun + 1,
           cache' = [cache EXCEPT ![i] = [cache[i] EXCEPT !.timeStamp = cacheRun']],
           recent' = MovedToFront(f), UNCHANGED <<LocalSPTRs, GlobalSPTRs, outdated>>
    PROVE  Lru'
<1> PICK p : Ordered(p)
  BY DEF Lru
<1> PICK place \in 1..CacheSize, n \in 1..CacheSize :
      /\ n = IF place > Len(recent) THEN place ELSE Len(recent)
      /\ IF f \in Range(recent) THEN place \in DOMAIN recent /\ recent[place] = f
         ELSE place = IF Len(recent) < CacheSize THEN Len(recent) + 1 ELSE CacheSize
      /\ MovedToFront(f) \in Seq(Sources)
      /\ Len(MovedToFront(f)) = n
      /\ \A k \in 1..n : MovedToFront(f)[k] =
            IF k = 1 THEN f ELSE IF k <= place THEN recent[k - 1] ELSE recent[k]
  BY MovedToFrontIs DEF Lru
<1> USE DEF Lru
<1>0. /\ recent' \in Seq(Sources) /\ Len(recent') = n /\ n <= CacheSize
      /\ \A k \in 1..n : recent'[k] =
            IF k = 1 THEN f ELSE IF k <= place THEN recent[k - 1] ELSE recent[k]
  OBVIOUS
<1>1. /\ Len(recent) \in Nat /\ DOMAIN recent = 1..Len(recent) /\ DOMAIN recent' = 1..n
      /\ place <= Len(recent) + 1 /\ Len(recent) <= CacheSize /\ CacheSize \in Nat
  BY BoundsAssumption DEF Typed
<1>2. /\ \A j \in Slots : File(j)' = File(j)
      /\ \A j \in Slots : Stamp(j)' = IF j = i THEN cacheRun + 1 ELSE Stamp(j)
      /\ \A j \in Slots : Stamp(j) \in Nat /\ Stamp(j)' \in Nat
      /\ cacheRun \in Nat
  BY DEF Typed, File, Stamp
<1>3. Typed'
  <2>1. cacheRun' \in Nat /\ cache[i] \in [origFile : Sources, trimmedPath : Paths, timeStamp : Nat]
    BY DEF Typed
  <2>2. cache' \in [Slots -> [origFile : Sources, trimmedPath : Paths, timeStamp : Nat]]
    BY <2>1 DEF Typed
  <2> QED
    BY <1>0, <2>1, <2>2 DEF Typed
<1>4. TimesSound' /\ FilesOnce'
  <2>1. \A k \in Slots : Stamp(k) <= cacheRun /\ Stamp(k)' <= cacheRun'
    BY <1>2 DEF TimesSound
  <2>4. \A k, m \in Slots : Stamp(k)' = Stamp(m)' /\ k # m => Stamp(k)' = 0
    BY <1>2, <2>1 DEF TimesSound
  <2>5. \A k \in Slots : Stamp(k)' = 0 => File(k)' = NoFile
    BY <1>2 DEF TimesSound
  <2>2. Stamp(actual)' = cacheRun'
    BY DEF Stamp, Typed
  <2>3. FilesOnce'
    BY <1>2 DEF FilesOnce
  <2> QED
    BY <2>1, <2>2, <2>3, <2>4, <2>5 DEF TimesSound
<1>5. \A k \in DOMAIN recent : recent[k] = f => k = place
  BY DEF RecentOnce, Range
<1>6. RecentOnce'
  BY <1>1, <1>5, SMTT(30) DEF RecentOnce
<1>7. \A k \in DOMAIN recent : p[k] = i => k = place
  BY <1>5 DEF Ordered
<1>8. place \in DOMAIN recent /\ p[place] # i => place = Len(recent)
  <2> SUFFICES ASSUME place \in DOMAIN recent, p[place] # i, place # Len(recent)
               PROVE  FALSE
    OBVIOUS
  <2>1. p[place] \in Slots /\ File(p[place]) = recent[place] /\ recent[place] = f
    BY <1>1 DEF Ordered
  <2>2. f = NoFile
    BY <2>1 DEF FilesOnce
  <2>3. p[place] <= i
    BY <1>1, <2>1, <2>2 DEF Ordered
  <2> QED
    BY <2>1, <2>3 DEF Slots
<1> PICK q : q = [k \in 1..n |-> IF k = 1 THEN i ELSE IF k <= place THEN p[k - 1] ELSE p[k]]
  OBVIOUS
<1>9. Ordered(q)'
  <2>1. (q \in [DOMAIN recent -> Slots])'
    BY <1>1 DEF Ordered, Slots
  <2>2. (\A k, m \in DOMAIN recent : q[k] = q[m] => k = m)'
    BY <1>1, <1>7 DEF Ordered
  <2>3. (\A k \in DOMAIN recent : File(q[k]) = recent[k])'
    <3> SUFFICES ASSUME NEW k \in 1..n
                 PROVE  File(q[k])' = recent'[k]
      BY <1>1
    <3>1. q[k] \in Slots
      BY <1>1, <2>1
    <3>2. File(q[k]) = recent'[k]
      BY <1>0, <1>1 DEF Ordered
    <3> QED
      BY <3>1, <3>2, <1>2
  <2>4. (\A k \in DOMAIN recent, j \in Slots :
            (\A m \in 1..k : q[m] # j) => Stamp(j) <= Stamp(q[k]))'
    <3> SUFFICES ASSUME NEW k \in 1..n, NEW j \in Slots, \A m \in 1..k : q[m] # j
                 PROVE  Stamp(j)' <= Stamp(q[k])'
      BY <1>1
    <3>1. j # i /\ Stamp(j)' = Stamp(j)
      <4>1. 1 \in 1..k /\ q[1] = i
        BY <1>1
      <4> QED
        BY <4>1, <1>2
    <3>2. CASE k = 1
      BY <3>2, <1>2, <3>1 DEF TimesSound
    <3>3. CASE k # 1 /\ k <= place
      <4>1. \A m \in 1..(k - 1) : p[m] # j
        <5> TAKE m \in 1..(k - 1)
        <5>1. m + 1 \in 1..k /\ q[m + 1] = p[m]
          BY <3>3, <1>1
        <5> QED
          BY <5>1
      <4>2. k - 1 \in DOMAIN recent /\ q[k] = p[k - 1] /\ k - 1 # place
        BY <3>3, <1>1
      <4> QED
        BY <1>2, <1>7, <3>1, <4>1, <4>2 DEF Ordered
    <3>4. CASE k > place
      <4>1. place \in DOMAIN recent /\ k \in DOMAIN recent /\ q[k] = p[k] /\ p[place] = i
        BY <3>4, <1>1, <1>8
      <4>2. \A m \in 1..k : p[m] # j
        <5> TAKE m \in 1..k
        <5>1. CASE m < place
          <6>1. m + 1 \in 1..k /\ q[m + 1] = p[m]
            BY <5>1, <3>4, <1>1
          <6> QED
            BY <6>1
        <5>2. CASE m > place
          <6>1. m \in 1..n /\ m # 1 /\ ~(m <= place)
            BY <5>2
          <6>2. q[m] = p[m]
            BY <6>1
          <6> QED
            BY <6>2
        <5>3. CASE m = place
          BY <5>3, <4>1, <3>1
        <5>4. m \in Int /\ place \in Int
          OBVIOUS
        <5> QED
          BY <5>1, <5>2, <5>3, <5>4
      <4> QED
        <5>1. Stamp(j) <= Stamp(p[k])
          BY <4>1, <4>2 DEF Ordered
        <5>2. p[k] \in Slots /\ p[k] # i
          BY <1>7, <3>4, <4>1 DEF Ordered
        <5>3. Stamp(p[k])' = Stamp(p[k])
          BY <1>2, <5>2
        <5> QED
          BY <3>1, <4>1, <5>1, <5>3
    <3> QED
      BY <3>2, <3>3, <3>4
  <2>5. (\A k \in DOMAIN recent, j \in Slots :
            recent[k] = NoFile /\ k < Len(recent) /\ File(j) = NoFile => q[k] <= j)'
    <3> SUFFICES ASSUME NEW k \in (DOMAIN recent)', NEW j \in Slots,
                        (recent[k] = NoFile /\ k < Len(recent) /\ File(j) = NoFile)'
                 PROVE  q[k] <= j
      OBVIOUS
    <3>0. k \in 1..n /\ recent'[k] = NoFile /\ k < n /\ File(j) = NoFile
      BY <1>0, <1>1, <1>2
    <3>1. CASE k = 1
      BY <3>0, <3>1, <1>0
    <3>2. CASE k # 1 /\ k <= place
      <4>1. k - 1 \in DOMAIN recent /\ k - 1 < Len(recent) /\ recent[k - 1] = NoFile /\ q[k] = p[k - 1]
        BY <3>0, <3>2, <1>0, <1>1
      <4> QED
        BY <3>0, <4>1 DEF Ordered
    <3>3. CASE k > place
      <4>1. k \in DOMAIN recent /\ k < Len(recent) /\ recent[k] = NoFile /\ q[k] = p[k]
        BY <3>0, <3>3, <1>0, <1>1
      <4> QED
        BY <3>0, <4>1 DEF Ordered
    <3> QED
      BY <3>0, <3>1, <3>2, <3>3
  <2>6. (recent # <<>> => q[1] = actual)'
    BY <1>1
  <2> QED
    BY <2>1, <2>2, <2>3, <2>4, <2>5, <2>6 DEF Ordered
<1> QED
  BY <1>3, <1>4, <1>6, <1>9

\* The actual file is the first of the recent ones, if there is one.
LEMMA SetActual ==
    ASSUME Lru, NEW f \in Sources, File(actual) = f,
           UNCHANGED <<cache, actual, cacheRun>>,
           recent' = MovedToFront(f), UNCHANGED <<LocalSPTRs, GlobalSPTRs, outdated>>
    PROVE  Lru'
<1>1. PICK p : Ordered(p)
  BY DEF Lru
<1>2. Typed /\ TimesSound /\ FilesOnce /\ RecentOnce
  BY DEF Lru
<1>3. PICK place \in 1..CacheSize, n \in 1..CacheSize :
      /\ n = IF place > Len(recent) THEN place ELSE Len(recent)
      /\ IF f \in Range(recent) THEN place \in DOMAIN recent /\ recent[place] = f
         ELSE place = IF Len(recent) < CacheSize THEN Len(recent) + 1 ELSE CacheSize
      /\ MovedToFront(f) \in Seq(Sources)
      /\ Len(MovedToFront(f)) = n
      /\ \A k \in 1..n : MovedToFront(f)[k] =
            IF k = 1 THEN f ELSE IF k <= place THEN recent[k - 1] ELSE recent[k]
  BY <1>2, MovedToFrontIs
<1>4. /\ recent' \in Seq(Sources) /\ Len(recent') = n /\ n <= CacheSize
      /\ \A k \in 1..n : recent'[k] =
            IF k = 1 THEN f ELSE IF k <= place THEN recent[k - 1] ELSE recent[k]
  BY <1>3
<1>5. /\ Len(recent) \in Nat /\ DOMAIN recent = 1..Len(recent) /\ DOMAIN recent' = 1..n
      /\ recent \in Seq(Sources) /\ actual \in Slots
  BY <1>2, <1>4 DEF Typed
<1>6. Typed' /\ TimesSound' /\ FilesOnce'
  BY <1>2, <1>4 DEF Typed, TimesSound, FilesOnce, File, Stamp
<1>7. CASE recent # <<>>
  <2>1. 1 \in DOMAIN recent
    BY <1>5, <1>7, EmptySeq
  <2>2. recent[1] = f
    BY <1>1, <1>7, <2>1 DEF Ordered
  <2>3. f \in Range(recent)
    BY <2>1, <2>2 DEF Range
  <2>4. place = 1
    BY <1>2, <1>3, <2>1, <2>2, <2>3 DEF RecentOnce
  <2>5. n = Len(recent)
    <3>1. Len(recent) \in Nat /\ 1 <= Len(recent)
      BY <1>5, <2>1
    <3>2. n = IF place > Len(recent) THEN place ELSE Len(recent)
      BY <1>3
    <3> QED
      BY <2>4, <3>1, <3>2
  <2>6. \A k \in 1..n : recent'[k] = recent[k]
    BY <1>4, <2>2, <2>4
  <2>7. recent' = recent
    BY <1>4, <1>5, <2>5, <2>6, SeqEqual
  <2> QED
    BY <1>1, <1>2, <1>6, <2>7, SMTT(30) DEF Lru, Ordered, RecentOnce, File, Stamp
<1>8. CASE recent = <<>>
  <2>1. Len(recent) = 0 /\ f \notin Range(recent)
    BY <1>8 DEF Range
  <2>2. place = 1 /\ n = 1
    BY <1>3, <2>1, BoundsAssumption
  <2>3. recent'[1] = f /\ DOMAIN recent' = 1..1 /\ Len(recent') = 1
    BY <1>4, <1>5, <2>2
  <2>4. PICK q : q = [k \in 1..1 |-> actual]
    OBVIOUS
  <2>5. q[1] = actual
    BY <2>4
  <2>6. Ordered(q)'
    <3>1. (q \in [DOMAIN recent -> Slots])'
      BY <2>3, <2>4, <1>5 DEF Slots
    <3>2. \A k \in DOMAIN recent' : k = 1
      BY <2>3
    <3>3. \A j \in Slots : Stamp(j)' <= Stamp(actual)'
      BY <1>2, <1>5 DEF TimesSound, Stamp
    <3>4. File(actual)' = f
      BY DEF File
    <3>5. ~(1 < Len(recent'))
      BY <2>3
    <3> QED
      BY <3>1, <3>2, <3>3, <3>4, <3>5, <2>3, <2>5 DEF Ordered
  <2>7. RecentOnce'
    BY <2>3 DEF RecentOnce
  <2> QED
    BY <1>6, <2>6, <2>7 DEF Lru
<1> QED
  BY <1>7, <1>8

\* A new file takes the oldest entry, the one of the last recent file, of none, or one of
\* several entries for NoFile that were never used.
LEMMA SetMissed ==
    ASSUME Lru, NEW f \in Sources, Found(f) = {},
           Use(Oldest, [origFile |-> f, trimmedPath |-> Unknown, timeStamp |-> 0]),
           recent' = MovedToFront(f), UNCHANGED <<LocalSPTRs, GlobalSPTRs, outdated>>
    PROVE  Lru'
<1>1. PICK p : Ordered(p)
  BY DEF Lru
<1>2. Typed /\ TimesSound /\ FilesOnce /\ RecentOnce
  BY DEF Lru
<1>3. PICK place \in 1..CacheSize, n \in 1..CacheSize :
      /\ n = IF place > Len(recent) THEN place ELSE Len(recent)
      /\ IF f \in Range(recent) THEN place \in DOMAIN recent /\ recent[place] = f
         ELSE place = IF Len(recent) < CacheSize THEN Len(recent) + 1 ELSE CacheSize
      /\ MovedToFront(f) \in Seq(Sources)
      /\ Len(MovedToFront(f)) = n
      /\ \A k \in 1..n : MovedToFront(f)[k] =
            IF k = 1 THEN f ELSE IF k <= place THEN recent[k - 1] ELSE recent[k]
  BY <1>2, MovedToFrontIs
<1>4. PICK o \in Slots : o = Oldest /\ \A j \in Slots : Stamp(o) <= Stamp(j)
  BY <1>2, OldestIsOldest
<1>5. /\ actual' = o /\ cacheRun' = cacheRun + 1
      /\ cache' = [cache EXCEPT ![o] =
            [[origFile |-> f, trimmedPath |-> Unknown, timeStamp |-> 0] EXCEPT !.timeStamp = cacheRun + 1]]
  BY <1>4 DEF Use
<1>6. /\ \A j \in Slots : File(j)' = IF j = o THEN f ELSE File(j)
      /\ \A j \in Slots : Stamp(j)' = IF j = o THEN cacheRun + 1 ELSE Stamp(j)
      /\ \A j \in Slots : Stamp(j) \in Nat /\ Stamp(j)' \in Nat /\ Stamp(j) <= cacheRun
      /\ \A j \in Slots : File(j) # f
      /\ cacheRun \in Nat
  BY <1>2, <1>5 DEF Typed, File, Stamp, Found, TimesSound
<1>7. /\ recent \in Seq(Sources) /\ Len(recent) \in Nat /\ DOMAIN recent = 1..Len(recent)
      /\ Len(recent) <= CacheSize /\ CacheSize \in Nat
  BY <1>2, BoundsAssumption DEF Typed
<1>8. \A k \in DOMAIN recent : p[k] \in Slots /\ File(p[k]) = recent[k] /\ recent[k] # f
  BY <1>1, <1>6 DEF Ordered
<1>9. f \notin Range(recent)
  BY <1>8 DEF Range
<1>10. place = n /\ n \in Nat /\ 1 <= n /\ n <= Len(recent) + 1 /\ n <= CacheSize
       /\ \A k \in 2..n : k - 1 \in DOMAIN recent
  <2>1. place = IF Len(recent) < CacheSize THEN Len(recent) + 1 ELSE CacheSize
    BY <1>3, <1>9
  <2>2. n = IF place > Len(recent) THEN place ELSE Len(recent)
    BY <1>3
  <2>3. place = n /\ n \in Nat /\ 1 <= n /\ n <= Len(recent) + 1 /\ n <= CacheSize
    <3>0. PICK len \in Nat : len = Len(recent)
      BY <1>7
    <3>1. len <= CacheSize /\ CacheSize \in Nat /\ 1 <= CacheSize
      BY <1>7, <3>0, BoundsAssumption
    <3>2. place = IF len < CacheSize THEN len + 1 ELSE CacheSize
      BY <2>1, <3>0
    <3>3. n = IF place > len THEN place ELSE len
      BY <2>2, <3>0
    <3>4. place = n /\ n \in Nat /\ 1 <= n /\ n <= len + 1 /\ n <= CacheSize
      BY <3>1, <3>2, <3>3
    <3> QED
      BY <3>0, <3>4
  <2> QED
    BY <2>3, <1>7
<1>11. /\ recent' \in Seq(Sources) /\ Len(recent') = n /\ DOMAIN recent' = 1..n
       /\ recent'[1] = f /\ \A k \in 2..n : recent'[k] = recent[k - 1]
  BY <1>3, <1>10
<1>12. Typed'
  <2>1. [[origFile |-> f, trimmedPath |-> Unknown, timeStamp |-> 0] EXCEPT !.timeStamp = cacheRun + 1]
          \in [origFile : Sources, trimmedPath : Paths, timeStamp : Nat]
    BY <1>6 DEF Paths
  <2> QED
    BY <1>2, <1>5, <1>6, <1>10, <1>11, <2>1 DEF Typed
<1>13. TimesSound' /\ FilesOnce'
  <2>1. \A k \in Slots : Stamp(k)' <= cacheRun'
    BY <1>5, <1>6
  <2>2. Stamp(actual)' = cacheRun'
    BY <1>4, <1>5, <1>12 DEF Stamp, Typed
  <2>3. \A k, m \in Slots : Stamp(k)' = Stamp(m)' /\ k # m => Stamp(k)' = 0
    BY <1>2, <1>5, <1>6 DEF TimesSound
  <2>4. \A k \in Slots : Stamp(k)' = 0 => File(k)' = NoFile
    BY <1>2, <1>5, <1>6 DEF TimesSound
  <2>5. FilesOnce'
    BY <1>2, <1>6 DEF FilesOnce
  <2> QED
    BY <2>1, <2>2, <2>3, <2>4, <2>5 DEF TimesSound
<1>14. RecentOnce'
  <2> SUFFICES ASSUME NEW k \in 1..n, NEW m \in 1..n, recent'[k] = recent'[m]
               PROVE  k = m
    BY <1>11 DEF RecentOnce
  <2>1. k # 1 => k \in 2..n /\ recent'[k] # f
    BY <1>8, <1>10, <1>11
  <2>2. m # 1 => m \in 2..n /\ recent'[m] # f
    BY <1>8, <1>10, <1>11
  <2>3. k \in 2..n /\ m \in 2..n => k - 1 = m - 1
    BY <1>2, <1>10, <1>11 DEF RecentOnce
  <2> QED
    BY <2>1, <2>2, <2>3, <1>11
<1>15. CASE \A m \in 1..(n - 1) : p[m] # o
  <2>1. PICK q : q = [k \in 1..n |-> IF k = 1 THEN o ELSE p[k - 1]]
    OBVIOUS
  <2>2. q[1] = o /\ \A k \in 2..n : q[k] = p[k - 1] /\ q[k] \in Slots /\ q[k] # o
    <3>1. \A k \in 2..n : k \in 1..n /\ k # 1 /\ k - 1 \in 1..(n - 1)
      BY <1>10
    <3> QED
      BY <1>8, <1>10, <1>15, <2>1, <3>1
  <2>3. q \in [1..n -> Slots]
    <3>1. \A k \in 1..n : k = 1 \/ k \in 2..n
      BY <1>10
    <3> QED
      BY <1>4, <2>1, <2>2, <3>1
  <2>4. \A k, m \in 1..n : q[k] = q[m] => k = m
    <3> SUFFICES ASSUME NEW k \in 1..n, NEW m \in 1..n, q[k] = q[m]
                 PROVE  k = m
      OBVIOUS
    <3>1. k = 1 \/ k \in 2..n
      OBVIOUS
    <3>2. m = 1 \/ m \in 2..n
      OBVIOUS
    <3>3. k \in 2..n /\ m \in 2..n => k - 1 = m - 1
      BY <1>1, <1>10, <2>2 DEF Ordered
    <3> QED
      BY <2>2, <3>1, <3>2, <3>3
  <2>5. \A k \in 1..n : File(q[k])' = recent'[k]
    <3> TAKE k \in 1..n
    <3>1. k = 1 \/ k \in 2..n
      OBVIOUS
    <3>2. k \in 2..n => File(q[k])' = File(p[k - 1])
      BY <1>6, <1>10, <2>2
    <3> QED
      BY <1>4, <1>6, <1>8, <1>10, <1>11, <2>2, <3>1, <3>2
  <2>6. ASSUME NEW k \in 1..n, NEW j \in Slots, \A m \in 1..k : q[m] # j
        PROVE  Stamp(j)' <= Stamp(q[k])'
    <3>1. k = 1 \/ k \in 2..n
      OBVIOUS
    <3>2. CASE k = 1
      BY <3>2, <1>4, <1>6, <2>2
    <3>3. CASE k \in 2..n
      <4>1. \A m \in 1..(k - 1) : p[m] # j
        <5> TAKE m \in 1..(k - 1)
        <5>1. m + 1 \in 1..k /\ m + 1 \in 2..n /\ (m + 1) - 1 = m
          OBVIOUS
        <5> QED
          BY <5>1, <2>2, <2>6
      <4>2. 1 \in 1..k
        BY <3>3
      <4>3. Stamp(j) <= Stamp(p[k - 1])
        BY <1>1, <1>10, <3>3, <4>1 DEF Ordered
      <4>4. j # o
        BY <2>2, <2>6, <4>2
      <4> QED
        BY <1>6, <2>2, <3>3, <4>3, <4>4
    <3> QED
      BY <3>1, <3>2, <3>3
  <2>7. ASSUME NEW k \in 1..n, NEW j \in Slots, recent'[k] = NoFile, k < n, File(j)' = NoFile
        PROVE  q[k] <= j
    <3>1. k = 1 \/ k \in 2..n
      OBVIOUS
    <3>2. CASE k = 1
      <4>1. j = o
        BY <3>2, <1>6, <1>11, <2>7
      <4> QED
        BY <3>2, <4>1, <2>2 DEF Slots
    <3>3. CASE k \in 2..n
      <4>1. k - 1 \in DOMAIN recent /\ k - 1 < Len(recent) /\ recent[k - 1] = NoFile
        BY <3>3, <1>7, <1>10, <1>11, <2>7
      <4>2. File(j) = NoFile
        BY <1>6, <1>8, <2>7, <4>1
      <4>3. p[k - 1] <= j
        BY <1>1, <4>1, <4>2 DEF Ordered
      <4>4. q[k] = p[k - 1]
        BY <2>2, <3>3
      <4> QED
        BY <4>3, <4>4
    <3> QED
      BY <3>1, <3>2, <3>3
  <2>8. Ordered(q)'
    BY <1>5, <1>11, <2>2, <2>3, <2>4, <2>5, <2>6, <2>7 DEF Ordered
  <2> QED
    BY <1>12, <1>13, <1>14, <2>8 DEF Lru
<1>16. ASSUME NEW m \in 1..(n - 1), p[m] = o
       PROVE  Lru'
  <2>1. m \in Nat /\ m < CacheSize /\ m \in DOMAIN recent /\ m < n
    BY <1>7, <1>10
  <2>2. \A k \in 1..m : k \in DOMAIN recent /\ p[k] \in Slots
    BY <1>7, <1>8, <2>1
  <2>3. PICK j \in Slots : \A k \in 1..m : p[k] # j
    BY <2>1, <2>2, EntryLeft
  <2>4. j # o /\ Stamp(j) <= Stamp(o)
    <3>1. m \in 1..m
      BY <2>1
    <3> QED
      BY <1>1, <1>16, <2>1, <2>3, <3>1 DEF Ordered
  <2>5. Stamp(o) = 0 /\ Stamp(j) = 0
    BY <1>2, <1>4, <1>6, <2>4 DEF TimesSound
  <2>6. File(o) = NoFile /\ File(j) = NoFile /\ recent[m] = NoFile /\ f # NoFile
    BY <1>2, <1>6, <1>8, <1>16, <2>1, <2>5 DEF TimesSound
  <2>7. m = Len(recent)
    <3> SUFFICES ASSUME m # Len(recent)
                 PROVE  FALSE
      OBVIOUS
    <3>0. PICK len \in Nat : len = Len(recent) /\ DOMAIN recent = 1..len
      BY <1>7
    <3>1. m + 1 \in DOMAIN recent /\ m \in 1..m
      BY <2>1, <3>0
    <3>2. \A k \in 1..m : p[k] # p[m + 1]
      <4> TAKE k \in 1..m
      <4>1. k # m + 1 /\ k \in DOMAIN recent
        BY <2>1, <2>2
      <4> QED
        BY <1>1, <3>1, <4>1 DEF Ordered
    <3>3. Stamp(p[m + 1]) <= Stamp(p[m])
      BY <1>1, <1>8, <2>1, <3>1, <3>2 DEF Ordered
    <3>4. Stamp(p[m + 1]) = 0
      BY <1>6, <1>8, <1>16, <2>5, <3>1, <3>3
    <3>5. recent[m + 1] = NoFile
      BY <1>2, <1>8, <3>1, <3>4 DEF TimesSound
    <3> QED
      BY <1>2, <2>1, <2>6, <3>1, <3>5 DEF RecentOnce
  <2>8. n = m + 1
    BY <1>7, <1>10, <2>1, <2>7
  <2>9. PICK q : q = [k \in 1..n |-> IF k = 1 THEN o ELSE IF k = n THEN j ELSE p[k - 1]]
    OBVIOUS
  <2>10. n \in 2..n /\ \A k \in 1..n : k = 1 \/ k = n \/ k \in 2..m
    BY <2>1, <2>8
  <2>11. /\ q[1] = o /\ q[n] = j
         /\ \A k \in 2..m : q[k] = p[k - 1] /\ q[k] \in Slots /\ q[k] # o /\ q[k] # j
    <3>1. q[1] = o /\ q[n] = j
      BY <2>9, <2>10
    <3>2. ASSUME NEW k \in 2..m
          PROVE  q[k] = p[k - 1] /\ q[k] \in Slots /\ q[k] # o /\ q[k] # j
      <4>1. k \in 1..n /\ k # 1 /\ k # n /\ k - 1 \in 1..m /\ k - 1 # m
        BY <2>1, <2>8
      <4>2. q[k] = p[k - 1]
        BY <2>9, <4>1
      <4>3. p[k - 1] # o
        BY <1>1, <1>16, <2>1, <2>2, <4>1 DEF Ordered
      <4> QED
        BY <2>2, <2>3, <4>1, <4>2, <4>3
    <3> QED
      BY <3>1, <3>2
  <2>12. q \in [1..n -> Slots]
    BY <2>9, <2>10, <2>11
  <2>13. \A k, l \in 1..n : q[k] = q[l] => k = l
    <3> SUFFICES ASSUME NEW k \in 1..n, NEW l \in 1..n, q[k] = q[l]
                 PROVE  k = l
      OBVIOUS
    <3>1. k \in 2..m /\ l \in 2..m => k = l
      <4>1. k \in 2..m /\ l \in 2..m => k - 1 \in DOMAIN recent /\ l - 1 \in DOMAIN recent
        BY <1>7, <2>1
      <4>2. k \in 2..m /\ l \in 2..m => k - 1 = l - 1
        BY <1>1, <2>11, <4>1 DEF Ordered
      <4> QED
        BY <4>2
    <3> QED
      BY <2>4, <2>10, <2>11, <3>1
  <2>14. \A k \in 1..n : File(q[k])' = recent'[k]
    <3> TAKE k \in 1..n
    <3>1. CASE k = 1
      BY <3>1, <1>6, <1>11, <2>11
    <3>2. CASE k = n
      <4>1. recent'[n] = recent[m]
        BY <1>11, <2>8, <2>10
      <4> QED
        BY <3>2, <4>1, <1>6, <2>4, <2>6, <2>11
    <3>3. CASE k \in 2..m
      <4>1. k - 1 \in DOMAIN recent /\ k \in 2..n
        BY <3>3, <1>7, <2>1, <2>8
      <4> QED
        BY <3>3, <4>1, <1>6, <1>8, <1>11, <2>11
    <3> QED
      BY <3>1, <3>2, <3>3, <2>10
  <2>15. ASSUME NEW k \in 1..n, NEW l \in Slots, \A r \in 1..k : q[r] # l
         PROVE  Stamp(l)' <= Stamp(q[k])'
    <3>1. 1 \in 1..k /\ k \in 1..k
      OBVIOUS
    <3>2. l # o /\ Stamp(l)' = Stamp(l) /\ l # q[k]
      BY <1>6, <2>11, <2>15, <3>1
    <3>3. ASSUME NEW r \in 1..(k - 1), r < m
          PROVE  p[r] # l
      <4>1. r + 1 \in 2..m /\ r + 1 \in 1..k /\ (r + 1) - 1 = r
        BY <2>1, <3>3
      <4>2. q[r + 1] = p[r]
        BY <2>11, <4>1
      <4> QED
        BY <2>15, <4>1, <4>2
    <3>4. CASE k = 1
      BY <3>4, <1>4, <1>6, <2>11
    <3>5. CASE k \in 2..m
      <4>1. k - 1 \in DOMAIN recent /\ \A r \in 1..(k - 1) : p[r] # l
        BY <3>5, <3>3, <1>7, <2>1
      <4>2. Stamp(l) <= Stamp(p[k - 1])
        BY <1>1, <4>1 DEF Ordered
      <4> QED
        BY <1>6, <2>11, <3>2, <3>5, <4>2
    <3>6. CASE k = n
      <4>1. \A r \in 1..m : p[r] # l
        <5> TAKE r \in 1..m
        <5>1. CASE r < m
          <6>1. r \in 1..(k - 1)
            BY <3>6, <2>8
          <6> QED
            BY <6>1, <5>1, <3>3
        <5>2. CASE r = m
          BY <5>2, <1>16, <3>2
        <5> QED
          BY <5>1, <5>2, <2>1
      <4>2. Stamp(l) <= Stamp(p[m])
        BY <1>1, <2>1, <4>1 DEF Ordered
      <4>3. Stamp(q[k])' = 0
        BY <3>6, <1>6, <2>4, <2>5, <2>11
      <4> QED
        BY <1>6, <1>16, <2>5, <3>2, <4>2, <4>3
    <3> QED
      BY <3>4, <3>5, <3>6, <2>10
  <2>16. ASSUME NEW k \in 1..n, NEW l \in Slots, recent'[k] = NoFile, k < n
         PROVE  FALSE
    <3>1. k # 1
      BY <1>11, <2>6, <2>16
    <3>2. k \in 2..n /\ k - 1 \in DOMAIN recent /\ k - 1 # m
      BY <3>1, <1>10, <2>8, <2>16
    <3>3. recent[k - 1] = NoFile
      BY <1>11, <2>16, <3>2
    <3> QED
      BY <1>2, <2>1, <2>6, <3>2, <3>3 DEF RecentOnce
  <2>17. Ordered(q)'
    BY <1>5, <1>11, <2>11, <2>12, <2>13, <2>14, <2>15, <2>16 DEF Ordered
  <2> QED
    BY <1>12, <1>13, <1>14, <2>17 DEF Lru
<1> QED
  BY <1>15, <1>16

-----------------------------------------------------------------------------
(***************************************************************************)
(* The steps.                                                              *)
(***************************************************************************)
\* What leaves files, time stamps and history alone keeps the order of the cache.
LEMMA OrderKept ==
    ASSUME Lru, Typed', \A j \in Slots : File(j)' = File(j) /\ Stamp(j)' = Stamp(j),
           UNCHANGED <<actual, cacheRun, recent>>
    PROVE  Lru'
<1>1. PICK p : Ordered(p)
  BY DEF Lru
<1>2. TimesSound' /\ FilesOnce' /\ RecentOnce'
  BY DEF Lru, Typed, TimesSound, FilesOnce, RecentOnce
<1>3. \A k \in DOMAIN recent : p[k] \in Slots
  BY <1>1 DEF Ordered
<1>4. Ordered(p)'
  BY <1>1, <1>3 DEF Ordered
<1> QED
  BY <1>2, <1>4 DEF Lru

\* A cache without files is in order when no file counts as recent.
LEMMA OrderForgotten ==
    ASSUME Lru, Typed', \A j \in Slots : File(j)' = NoFile /\ Stamp(j)' = Stamp(j),
           UNCHANGED <<actual, cacheRun>>, recent' = <<>>
    PROVE  Lru'
<1>1. TimesSound' /\ FilesOnce' /\ RecentOnce'
  BY DEF Lru, Typed, TimesSound, FilesOnce, RecentOnce
<1>2. PICK p : p = [k \in {} |-> actual]
  OBVIOUS
<1>3. DOMAIN recent' = {} /\ p \in [{} -> Slots]
  BY <1>2
<1>4. Ordered(p)'
  BY <1>3 DEF Ordered
<1> QED
  BY <1>1, <1>4 DEF Lru

\* So is one that has kept the actual file only.
LEMMA OrderOfOne ==
    ASSUME Lru, Typed', recent' = <<File(actual)>>, UNCHANGED <<actual, cacheRun>>,
           \A j \in Slots : File(j)' = (IF j = actual THEN File(actual) ELSE NoFile)
                            /\ Stamp(j)' = Stamp(j)
    PROVE  Lru'
<1>0. actual \in Slots
  BY DEF Lru, Typed
<1>1. TimesSound' /\ FilesOnce'
  BY <1>0 DEF Lru, TimesSound, FilesOnce
<1>2. PICK p : p = [k \in 1..1 |-> actual]
  OBVIOUS
<1>3. /\ DOMAIN recent' = 1..1 /\ Len(recent') = 1 /\ recent'[1] = File(actual)
      /\ p \in [1..1 -> Slots] /\ p[1] = actual
  BY <1>0, <1>2
<1>4. \A j \in Slots : Stamp(j)' <= Stamp(p[1])'
  BY <1>0, <1>3 DEF Lru, TimesSound
<1>5. File(p[1])' = recent'[1]
  BY <1>0, <1>3
<1>6. \A k \in DOMAIN recent' : k = 1
  BY <1>3
<1>7. ~(1 < Len(recent'))
  BY <1>3
<1>8. Ordered(p)'
  BY <1>3, <1>4, <1>5, <1>6, <1>7 DEF Ordered
<1>9. RecentOnce'
  BY <1>6 DEF RecentOnce
<1> QED
  BY <1>1, <1>8, <1>9 DEF Lru

\* Set keeps the invariant: the file is the actual one, one of the cache, or new.
LEMMA SetKeeps ==
    ASSUME IInv, NEW f \in Sources, Set(f)
    PROVE  IInv'
<1>1. Lru /\ Typed /\ EntriesFresh
  BY DEF IInv, Lru
<1>2. recent' = MovedToFront(f) /\ read' = <<>> /\ UNCHANGED <<LocalSPTRs, GlobalSPTRs, outdated>>
  BY DEF Set
<1>3. TrimmedPathFresh'
  BY <1>2 DEF TrimmedPathFresh
<1>4. CASE cache[actual].origFile = f
  <2>1. UNCHANGED <<cache, actual, cacheRun>>
    BY <1>4 DEF Set
  <2>2. Lru'
    BY <1>1, <1>2, <1>4, <2>1, SetActual DEF File
  <2>3. EntriesFresh'
    BY <1>1, <1>2, <2>1 DEF EntriesFresh
  <2> QED
    BY <1>3, <2>2, <2>3 DEF IInv
<1>5. CASE cache[actual].origFile # f /\ Found(f) = {}
  <2>1. Use(Oldest, [origFile |-> f, trimmedPath |-> Unknown, timeStamp |-> 0])
    BY <1>5 DEF Set
  <2>2. Lru'
    BY <1>1, <1>2, <1>5, <2>1, SetMissed
  <2>3. PICK o \in Slots : o = Oldest
    BY <1>1, OldestIsOldest
  <2>4. \A i \in Slots : i # o => cache'[i] = cache[i]
    BY <2>1, <2>3 DEF Use
  <2>5. cache'[o].trimmedPath = Unknown
    BY <1>1, <2>1, <2>3 DEF Use, Typed
  <2>6. EntriesFresh'
    BY <1>1, <1>2, <2>4, <2>5 DEF EntriesFresh
  <2> QED
    BY <1>3, <2>2, <2>6 DEF IInv
<1>6. CASE cache[actual].origFile # f /\ Found(f) # {}
  <2>1. PICK i \in Slots : /\ i = CHOOSE j \in Found(f) : \A k \in Found(f) : j <= k
                           /\ File(i) = f /\ \A k \in Slots : File(k) = f => i <= k
    BY <1>6, FoundHasFirst
  <2>2. Use(i, cache[i])
    BY <1>6, <2>1 DEF Set
  <2>3. /\ actual' = i /\ cacheRun' = cacheRun + 1
        /\ cache' = [cache EXCEPT ![i] = [cache[i] EXCEPT !.timeStamp = cacheRun']]
    BY <2>2 DEF Use
  <2>4. Lru'
    BY <1>1, <1>2, <2>1, <2>3, SetFound
  <2>5. \A j \in Slots : /\ cache'[j].origFile = cache[j].origFile
                         /\ cache'[j].trimmedPath = cache[j].trimmedPath
    BY <1>1, <2>3 DEF Typed
  <2>6. EntriesFresh'
    BY <1>1, <1>2, <2>5 DEF EntriesFresh
  <2> QED
    BY <1>3, <2>4, <2>6 DEF IInv
<1> QED
  BY <1>4, <1>5, <1>6

\* GetTrimmedPath keeps it, with and without a rule detected by itself.
LEMMA GetTrimmedPathKeeps ==
    ASSUME IInv, GetTrimmedPath
    PROVE  IInv'
<1>1. Lru /\ Typed /\ EntriesFresh
  BY DEF IInv, Lru
<1>2. actual \in Slots /\ cache[actual] \in [origFile : Sources, trimmedPath : Paths, timeStamp : Nat]
  BY <1>1 DEF Typed
<1> DEFINE f     == cache[actual].origFile
           plain == Trimmed(LocalSPTRs, GlobalSPTRs, f)
           try   == cache[actual].trimmedPath = Unknown /\ plain = NoRule
                    /\ AutoDetectTrimableSourcePath
           path  == cache'[actual].trimmedPath
<1>3. /\ UNCHANGED <<actual, cacheRun, GlobalSPTRs>>
      /\ read' = <<[file |-> f, path |-> path]>>
  BY DEF GetTrimmedPath
<1>4. ASSUME Lru', EntriesFresh', f # NoFile /\ ~outdated' => path = Trimmed(LocalSPTRs', GlobalSPTRs', f)
      PROVE  IInv'
  <2>1. DOMAIN read' = {1} /\ read'[1] = [file |-> f, path |-> path]
    BY <1>3
  <2>2. TrimmedPathFresh'
    BY <1>4, <2>1 DEF TrimmedPathFresh
  <2> QED
    BY <1>4, <2>2 DEF IInv
<1>5. CASE try /\ AutoRule[f] # NoRule
  <2>1. /\ LocalSPTRs' = Append(LocalSPTRs, AutoRule[f])
        /\ cache' = [Forgotten EXCEPT ![actual] =
              [cache[actual] EXCEPT !.trimmedPath = Trimmed(LocalSPTRs', GlobalSPTRs, f)]]
        /\ recent' = <<f>> /\ outdated' = FALSE
    BY <1>5 DEF GetTrimmedPath
  <2>2. LocalSPTRs' \in Seq(Paths)
    <3>1. AutoRule[f] \in Paths
      BY <1>2 DEF Paths
    <3> QED
      BY <1>1, <2>1, <3>1 DEF Typed
  <2>3. Trimmed(LocalSPTRs', GlobalSPTRs, f) \in Paths
    BY <1>1, <2>2, TrimmedIsPath DEF Typed
  <2>4. \A j \in Slots : cache'[j] = IF j = actual
            THEN [cache[actual] EXCEPT !.trimmedPath = Trimmed(LocalSPTRs', GlobalSPTRs, f)]
            ELSE [cache[j] EXCEPT !.origFile = NoFile]
    BY <2>1 DEF Forgotten
  <2>5. ASSUME NEW j \in Slots
        PROVE  /\ cache'[j].origFile = IF j = actual THEN f ELSE NoFile
               /\ cache'[j].timeStamp = cache[j].timeStamp
               /\ cache'[j] \in [origFile : Sources, trimmedPath : Paths, timeStamp : Nat]
    <3>1. CASE j = actual
      BY <3>1, <1>2, <2>3, <2>4
    <3>2. CASE j # actual
      <4>1. cache'[j] = [cache[j] EXCEPT !.origFile = NoFile]
        BY <3>2, <2>4
      <4>2. cache[j] \in [origFile : Sources, trimmedPath : Paths, timeStamp : Nat] /\ NoFile \in Sources
        BY <1>1 DEF Typed, Sources
      <4> QED
        BY <3>2, <4>1, <4>2
    <3> QED
      BY <3>1, <3>2
  <2>6. cache'[actual].trimmedPath = Trimmed(LocalSPTRs', GlobalSPTRs, f)
    BY <1>2, <2>4
  <2>7. Typed'
    <3>1. cache' \in [Slots -> [origFile : Sources, trimmedPath : Paths, timeStamp : Nat]]
      BY <2>1, <2>5 DEF Forgotten
    <3>2. recent' \in Seq(Sources) /\ Len(recent') <= CacheSize
      BY <1>2, <2>1, BoundsAssumption
    <3> QED
      BY <1>1, <1>3, <2>1, <2>2, <3>1, <3>2 DEF Typed
  <2>8. Lru'
    BY <1>1, <1>3, <2>1, <2>5, <2>7, OrderOfOne DEF File, Stamp
  <2>9. EntriesFresh'
    BY <1>3, <2>5, <2>6 DEF EntriesFresh
  <2> QED
    BY <1>3, <1>4, <2>6, <2>8, <2>9
<1>6. CASE ~(try /\ AutoRule[f] # NoRule)
  <2>1. /\ cache' = [cache EXCEPT ![actual].trimmedPath = IF @ = Unknown THEN plain ELSE @]
        /\ UNCHANGED <<LocalSPTRs, recent, outdated>>
    BY <1>6 DEF GetTrimmedPath
  <2>2. plain \in Paths
    BY <1>1, TrimmedIsPath DEF Typed
  <2>3. path = IF cache[actual].trimmedPath = Unknown THEN plain ELSE cache[actual].trimmedPath
    BY <1>1, <1>2, <2>1 DEF Typed
  <2>4. \A j \in Slots : /\ cache'[j].origFile = cache[j].origFile
                         /\ cache'[j].timeStamp = cache[j].timeStamp
                         /\ j # actual => cache'[j] = cache[j]
    BY <1>1, <2>1 DEF Typed
  <2>5. Typed'
    <3>1. cache' \in [Slots -> [origFile : Sources, trimmedPath : Paths, timeStamp : Nat]]
      BY <1>1, <1>2, <2>1, <2>2 DEF Typed
    <3> QED
      BY <1>1, <1>3, <2>1, <3>1 DEF Typed
  <2>6. Lru'
    BY <1>1, <1>3, <2>1, <2>4, <2>5, OrderKept DEF File, Stamp
  <2>7. f # NoFile /\ ~outdated => path = Trimmed(LocalSPTRs, GlobalSPTRs, f)
    BY <1>1, <1>2, <2>3 DEF EntriesFresh
  <2>8. EntriesFresh'
    BY <1>1, <1>3, <2>1, <2>4, <2>7 DEF EntriesFresh
  <2> QED
    BY <1>3, <1>4, <2>1, <2>6, <2>7, <2>8
<1> QED
  BY <1>5, <1>6

\* A change of the rules of this Lox, or of the global ones by it, keeps it.
LEMMA ForgetCacheKeeps ==
    ASSUME IInv, ForgetCache, LocalSPTRs' \in Seq(Paths), GlobalSPTRs' \in Seq(Paths)
    PROVE  IInv'
<1>1. Lru /\ Typed
  BY DEF IInv, Lru
<1>2. /\ recent' = <<>> /\ read' = <<>> /\ outdated' = FALSE /\ cache' = Forgotten
      /\ UNCHANGED <<actual, cacheRun>>
  BY DEF ForgetCache
<1>3. \A j \in Slots : /\ cache'[j].origFile = NoFile
                       /\ cache'[j].timeStamp = cache[j].timeStamp
                       /\ cache'[j] \in [origFile : Sources, trimmedPath : Paths, timeStamp : Nat]
  BY <1>1, <1>2 DEF Typed, Forgotten, Sources
<1>4. Typed'
  <2>1. cache' \in [Slots -> [origFile : Sources, trimmedPath : Paths, timeStamp : Nat]]
    BY <1>2, <1>3 DEF Forgotten
  <2>2. recent' \in Seq(Sources) /\ Len(recent') <= CacheSize
    BY <1>2, BoundsAssumption
  <2> QED
    BY <1>1, <1>2, <2>1, <2>2 DEF Typed
<1>5. Lru'
  BY <1>1, <1>2, <1>3, <1>4, OrderForgotten DEF File, Stamp
<1>6. EntriesFresh' /\ TrimmedPathFresh'
  BY <1>2, <1>3 DEF EntriesFresh, TrimmedPathFresh
<1> QED
  BY <1>5, <1>6 DEF IInv

\* Init establishes it: nothing was used yet.
LEMMA InitIInv == Init => IInv
<1> SUFFICES ASSUME Init
             PROVE  IInv
  OBVIOUS
<1>1. /\ recent = <<>> /\ read = <<>> /\ cacheRun = 0 /\ actual = 1
      /\ LocalSPTRs = <<>> /\ GlobalSPTRs = <<>> /\ outdated = FALSE
      /\ cache = [i \in Slots |-> [origFile |-> NoFile, trimmedPath |-> Unknown, timeStamp |-> 0]]
  BY DEF Init
<1>2. 1 \in Slots
  BY BoundsAssumption DEF Slots
<1>3. Typed
  <2>1. [origFile |-> NoFile, trimmedPath |-> Unknown, timeStamp |-> 0]
          \in [origFile : Sources, trimmedPath : Paths, timeStamp : Nat]
    BY DEF Sources, Paths
  <2>2. recent \in Seq(Sources) /\ Len(recent) <= CacheSize
    BY <1>1, BoundsAssumption
  <2>3. cache \in [Slots -> [origFile : Sources, trimmedPath : Paths, timeStamp : Nat]]
    BY <1>1, <2>1
  <2>4. <<>> \in Seq(Paths)
    OBVIOUS
  <2> QED
    BY <1>1, <1>2, <2>2, <2>3, <2>4 DEF Typed
<1>4. \A i \in Slots : Stamp(i) = 0 /\ File(i) = NoFile
  BY <1>1 DEF Stamp, File
<1>5. TimesSound /\ FilesOnce /\ RecentOnce
  BY <1>1, <1>2, <1>4 DEF TimesSound, FilesOnce, RecentOnce
<1>6. PICK p : p = [k \in {} |-> actual]
  OBVIOUS
<1>7. DOMAIN recent = {} /\ p \in [{} -> Slots]
  BY <1>1, <1>6
<1>8. Ordered(p)
  BY <1>1, <1>7 DEF Ordered
<1>9. EntriesFresh /\ TrimmedPathFresh
  BY <1>1, <1>4 DEF EntriesFresh, TrimmedPathFresh, File
<1> QED
  BY <1>3, <1>5, <1>8, <1>9 DEF IInv, Lru

\* Every step keeps it.
LEMMA NextIInv == IInv /\ [Next]_vars => IInv'
<1> SUFFICES ASSUME IInv, [Next]_vars
             PROVE  IInv'
  OBVIOUS
<1>1. Typed
  BY DEF IInv, Lru
<1>2. <<>> \in Seq(Paths) /\ \A r \in Rules : r \in Paths
  BY DEF Paths
<1>3. \A s \in Seq(Paths), r \in Rules : Append(s, r) \in Seq(Paths)
  BY <1>2
<1>4. LocalSPTRs \in Seq(Paths) /\ GlobalSPTRs \in Seq(Paths)
  BY <1>1 DEF Typed
<1>5. ASSUME NEW f \in Files \cup {NoFile}, Set(f)
      PROVE  IInv'
  BY <1>5, SetKeeps DEF Sources
<1>6. CASE GetTrimmedPath
  BY <1>6, GetTrimmedPathKeeps
<1>7. CASE SetEmptyRule
  BY <1>4, <1>7, ForgetCacheKeeps DEF SetEmptyRule
<1>8. ASSUME NEW r \in Rules, SetLocalRule(r)
      PROVE  IInv'
  BY <1>3, <1>4, <1>8, ForgetCacheKeeps DEF SetLocalRule
<1>9. ASSUME NEW r \in Rules, SetGlobalRule(r)
      PROVE  IInv'
  BY <1>3, <1>4, <1>9, ForgetCacheKeeps DEF SetGlobalRule
<1>10. ASSUME NEW global \in BOOLEAN, NEW allowAutoRule \in BOOLEAN,
              ClearRules(global, allowAutoRule)
       PROVE  IInv'
  BY <1>2, <1>4, <1>10, ForgetCacheKeeps DEF ClearRules
<1>11. CASE OtherLoxChangesGlobal
  <2>1. /\ outdated' = TRUE /\ read' = <<>>
        /\ UNCHANGED <<cache, actual, cacheRun, LocalSPTRs, recent>>
    BY <1>11 DEF OtherLoxChangesGlobal
  <2>2. GlobalSPTRs' \in Seq(Paths)
    BY <1>2, <1>3, <1>4, <1>11 DEF OtherLoxChangesGlobal
  <2>3. Typed'
    BY <1>1, <2>1, <2>2 DEF Typed
  <2>4. Lru'
    BY <2>1, <2>3, OrderKept DEF IInv, File, Stamp
  <2>5. EntriesFresh' /\ TrimmedPathFresh'
    BY <2>1 DEF EntriesFresh, TrimmedPathFresh
  <2> QED
    BY <2>4, <2>5 DEF IInv
<1>12. CASE UNCHANGED vars
  <2>1. UNCHANGED <<cache, actual, cacheRun, LocalSPTRs, GlobalSPTRs, recent, outdated, read>>
    BY <1>12 DEF vars
  <2>2. Typed'
    BY <1>1, <2>1 DEF Typed
  <2>3. Lru'
    BY <2>1, <2>2, OrderKept DEF IInv, File, Stamp
  <2>4. EntriesFresh' /\ TrimmedPathFresh'
    BY <2>1 DEF IInv, EntriesFresh, TrimmedPathFresh
  <2> QED
    BY <2>3, <2>4 DEF IInv
<1> QED
  BY <1>5, <1>6, <1>7, <1>8, <1>9, <1>10, <1>11, <1>12 DEF Next

-----------------------------------------------------------------------------
(***************************************************************************)
(* The theorems.                                                           *)
(***************************************************************************)
\* The order of the cache, in every reachable state.
THEOREM CacheOrdered == Spec => []IInv
BY InitIInv, NextIInv, PTL DEF Spec

\* The files used last are in the cache of any size, each of them once.
THEOREM RecentFilesCachedAlways == Spec => []RecentFilesCached
<1>1. IInv => RecentFilesCached
  <2> SUFFICES ASSUME IInv
               PROVE  RecentFilesCached
    OBVIOUS
  <2>1. PICK p : Ordered(p)
    BY DEF IInv, Lru
  <2>2. \A k \in DOMAIN recent : p[k] \in Found(recent[k])
    BY <2>1 DEF Ordered, Found, File
  <2>3. FilesOnce
    BY DEF IInv, Lru
  <2> QED
    BY <2>2, <2>3 DEF RecentFilesCached, FilesOnce, File
<1> QED
  BY <1>1, CacheOrdered, PTL

\* What GetTrimmedPath answers is what the rules make of the file now, from any cache.
THEOREM TrimmedPathFreshAlways == Spec => []TrimmedPathFresh
<1>1. IInv => TrimmedPathFresh
  BY DEF IInv
<1> QED
  BY <1>1, CacheOrdered, PTL

(***************************************************************************)
(* ScopeStore.                                                             *)
(*                                                                         *)
(* The nodes are a tree (Tree), and each node spells a key: what its       *)
(* parent spells, and its own path (Spelling). The descent for a key       *)
(* follows what the key and the nodes have in common (DescentEnds), so     *)
(* that splitting a node and adding a child keep the tree and what its     *)
(* nodes spell (SplitTree, AddTree, CreateTree). A call then takes at most *)
(* one object from its place and puts at most one there (Changed), and     *)
(* deletes the one and makes the other (Booked): each object that is not   *)
(* deleted stays in one place.                                             *)
(***************************************************************************)
Solution(f, D, H) == \A x \in D : f[x] = H[x][f]

Falls(H, D, T, rank) ==
    \A x \in D : \A f, g \in [D -> T] :
        (\A y \in D : rank[y] < rank[x] => f[y] = g[y]) => H[x][f] = H[x][g]

\* A function whose values are given by those at arguments of lower rank exists.
LEMMA RankedRecursion ==
    ASSUME NEW D, NEW T, NEW a \in T, NEW N \in Nat, NEW rank \in [D -> 0..N],
           NEW H \in [D -> [[D -> T] -> T]], Falls(H, D, T, rank)
    PROVE  \E f \in [D -> T] : Solution(f, D, H)
<1> DEFINE Below(n, f) == \A x \in D : rank[x] < n => f[x] = H[x][f]
           S == {n \in 0..N + 1 : \E f \in [D -> T] : Below(n, f)}
<1>1. 0 \in S
  <2>1. PICK f : f = [x \in D |-> a]
    OBVIOUS
  <2>2. f \in [D -> T] /\ Below(0, f)
    BY <2>1
  <2> QED
    BY <2>2
<1>2. ASSUME NEW n \in 0..N + 1, n \in S, n < N + 1
      PROVE  n + 1 \in S
  <2>1. PICK f \in [D -> T] : Below(n, f)
    BY <1>2
  <2>2. PICK g : g = [x \in D |-> IF rank[x] < n THEN f[x] ELSE H[x][f]]
    OBVIOUS
  <2>3. g \in [D -> T]
    BY <2>2
  <2>4. ASSUME NEW x \in D, rank[x] < n + 1
        PROVE  g[x] = H[x][g]
    <3>1. g[x] = H[x][f]
      BY <2>1, <2>2
    <3>2. \A y \in D : rank[y] < rank[x] => f[y] = g[y]
      BY <2>2, <2>4
    <3>3. H[x][f] = H[x][g]
      BY <2>3, <3>2 DEF Falls
    <3> QED
      BY <3>1, <3>3
  <2>5. Below(n + 1, g)
    BY <2>4
  <2>6. n + 1 \in 0..N + 1
    BY <1>2
  <2> HIDE DEF Below
  <2> QED
    BY <2>3, <2>5, <2>6
<1>3. N + 1 \in S
  <2>1. \A n \in 0..N + 1 : n \in S /\ n < N + 1 => n + 1 \in S
    BY <1>2
  <2>2. N + 1 \in Nat /\ N + 1 \in 0..N + 1
    OBVIOUS
  <2> HIDE DEF S
  <2> QED
    BY <1>1, <2>1, <2>2, UpTo
<1> QED
  BY <1>3 DEF Solution

-----------------------------------------------------------------------------
\* How much of a node's path a key matches.
LEMMA MatchedIs ==
    ASSUME NEW n, nodes[n].path \in Seq(Characters), NEW key \in Seq(Characters), NEW i \in 0..Len(key)
    PROVE  /\ MatchedAt(n, key, i) \in 0..Len(nodes[n].path)
           /\ i + MatchedAt(n, key, i) \in 0..Len(key)
           /\ \A j \in 1..MatchedAt(n, key, i) : nodes[n].path[j] = key[i + j]
           /\ MatchedAt(n, key, i) < Len(nodes[n].path) /\ i + MatchedAt(n, key, i) < Len(key) =>
                 nodes[n].path[MatchedAt(n, key, i) + 1] # key[i + MatchedAt(n, key, i) + 1]
<1> DEFINE path == nodes[n].path
           same(m) == m <= Len(path) /\ i + m <= Len(key) /\ path[m] = key[i + m]
           S == {m \in 0..Len(path) : ~same(m + 1)}
<1>1. Len(path) \in Nat /\ Len(key) \in Nat /\ i \in Nat
  OBVIOUS
<1>2. Len(path) \in S
  BY <1>1
<1>3. S \in SUBSET Nat /\ S # {}
  <2>1. \A m \in 0..Len(path) : m \in Nat
    OBVIOUS
  <2>2. S \subseteq 0..Len(path)
    OBVIOUS
  <2> HIDE DEF S, path
  <2> QED
    BY <1>2, <2>1, <2>2
<1>4. PICK k \in S : \A m \in S : k <= m
  <2> HIDE DEF S
  <2> QED
    BY <1>3, LeastExists
<1>5. ASSUME NEW j \in 1..k
      PROVE  same(j)
  <2>1. j - 1 \in 0..Len(path) /\ ~(k <= j - 1) /\ (j - 1) + 1 = j
    BY <1>1, <1>4
  <2> QED
    BY <1>4, <2>1
<1>6. k \in 0..Len(path) /\ (\A j \in 1..k : same(j)) /\ ~same(k + 1)
  BY <1>4, <1>5
<1>7. PICK m : m = MatchedAt(n, key, i)
  OBVIOUS
<1>8. m \in 0..Len(path) /\ (\A j \in 1..m : same(j)) /\ ~same(m + 1)
  <2>1. m = CHOOSE x \in 0..Len(path) : (\A j \in 1..x : same(j)) /\ ~same(x + 1)
    BY <1>7 DEF MatchedAt
  <2> HIDE DEF path, same
  <2> QED
    BY <1>6, <2>1
<1>9. i + m \in 0..Len(key)
  <2>1. CASE m = 0
    BY <1>1, <2>1
  <2>2. CASE m \in 1..Len(path)
    <3>1. same(m)
      BY <1>1, <1>8, <2>2
    <3> QED
      BY <1>1, <2>2, <3>1
  <2> QED
    BY <1>1, <1>8, <2>1, <2>2
<1>10. m < Len(path) /\ i + m < Len(key) => path[m + 1] # key[i + m + 1]
  BY <1>1, <1>8
<1> QED
  BY <1>7, <1>8, <1>9, <1>10

-----------------------------------------------------------------------------
Node == [parent : Nat, path : Seq(Characters), childs : SUBSET Nat, value : Nat]

\* The PathMap is a tree, whose siblings can be told by the first characters of their paths.
Tree(forest) ==
    /\ forest \in Seq(Node) /\ Root \in DOMAIN forest
    /\ forest[Root].parent = 0 /\ forest[Root].path = <<>>
    /\ \A n \in DOMAIN forest \ {Root} :
          /\ forest[n].path # <<>> /\ forest[n].parent \in DOMAIN forest
          /\ n \in forest[forest[n].parent].childs
    /\ \A n \in DOMAIN forest : \A c \in forest[n].childs :
          c \in DOMAIN forest \ {Root} /\ forest[c].parent = n
    /\ \A n \in DOMAIN forest : \A c, d \in forest[n].childs :
          forest[c].path[1] = forest[d].path[1] => c = d

\* The children of node n with which a descent for a key goes on after its first k characters.
Continuing(n, key, k) ==
    {c \in nodes[n].childs : k < Len(key) /\ nodes[c].path[1] = key[k + 1]}

\* The descent ends at node n, which it has reached after i characters.
Ending(n, key, i) ==
    MatchedAt(n, key, i) < Len(nodes[n].path) \/ Continuing(n, key, i + MatchedAt(n, key, i)) = {}

Descends(f, key) ==
    \A n \in DOMAIN nodes, i \in 0..Len(key) :
        /\ Ending(n, key, i) =>
              f[<<n, i>>] = [node |-> n, matched |-> MatchedAt(n, key, i),
                             consumed |-> i + MatchedAt(n, key, i)]
        /\ ~Ending(n, key, i) =>
              \E c \in Continuing(n, key, i + MatchedAt(n, key, i)) :
                  f[<<n, i>>] = f[<<c, i + MatchedAt(n, key, i)>>]

\* The descent ends: it goes from a node to a child, after more characters or from the root.
LEMMA DescentIs ==
    ASSUME Tree(nodes), NEW key \in Seq(Characters)
    PROVE  \E f : Descends(f, key) /\ Descent(key) = f[<<Root, 0>>]
<1> DEFINE D == (DOMAIN nodes) \X (0..Len(key))
           T == [node : DOMAIN nodes, matched : Nat, consumed : Nat]
           m(at) == MatchedAt(at[1], key, at[2])
           next(at) == {c \in nodes[at[1]].childs :
                          at[2] + m(at) < Len(key) /\ nodes[c].path[1] = key[at[2] + m(at) + 1]}
           Body(at, f) == IF m(at) < Len(nodes[at[1]].path) \/ next(at) = {}
                            THEN [node |-> at[1], matched |-> m(at), consumed |-> at[2] + m(at)]
                            ELSE f[<<CHOOSE c \in next(at) : TRUE, at[2] + m(at)>>]
           Is(f) == f = [at \in D |-> Body(at, f)]
           from == CHOOSE f : Is(f)
           N == 2 * Len(key) + 1
           rank == [at \in D |-> 2 * (Len(key) - at[2]) + (IF at[1] = Root THEN 1 ELSE 0)]
<1>1. Descent(key) = from[<<Root, 0>>]
  BY DEF Descent
<1>2. /\ Len(key) \in Nat /\ N \in Nat /\ <<Root, 0>> \in D
      /\ \A n \in DOMAIN nodes : nodes[n] \in Node /\ nodes[n].path \in Seq(Characters)
  <2>1. \A n \in DOMAIN nodes : nodes[n] \in Node
    BY DEF Tree
  <2>2. Root \in DOMAIN nodes /\ Len(key) \in Nat
    BY DEF Tree
  <2> QED
    BY <2>1, <2>2 DEF Node
<1>3. ASSUME NEW at \in D
      PROVE  /\ m(at) \in Nat /\ at[2] + m(at) \in 0..Len(key) /\ at[1] \in DOMAIN nodes
             /\ m(at) = 0 /\ ~(m(at) < Len(nodes[at[1]].path)) => at[1] = Root
  <2>1. at[1] \in DOMAIN nodes /\ at[2] \in 0..Len(key)
    OBVIOUS
  <2>2. nodes[at[1]].path \in Seq(Characters)
    BY <1>2, <2>1
  <2>3. m(at) \in 0..Len(nodes[at[1]].path) /\ at[2] + m(at) \in 0..Len(key)
    <3> HIDE DEF D
    <3> QED BY <2>1, <2>2, MatchedIs
  <2>4. at[1] # Root => nodes[at[1]].path # <<>>
    BY <2>1 DEF Tree
  <2> HIDE DEF m, D
  <2> QED
    BY <2>1, <2>2, <2>3, <2>4
<1>4. ASSUME NEW at \in D, NEW c \in next(at), ~(m(at) < Len(nodes[at[1]].path))
      PROVE  <<c, at[2] + m(at)>> \in D /\ rank[<<c, at[2] + m(at)>>] < rank[at]
  <2>1. at[1] \in DOMAIN nodes /\ at[2] \in 0..Len(key) /\ at[2] \in Int
    BY <1>2
  <2>2. c \in DOMAIN nodes \ {Root}
    BY <2>1 DEF Tree
  <2>3. m(at) \in Nat /\ at[2] + m(at) \in 0..Len(key) /\ (m(at) = 0 => at[1] = Root)
    BY <1>3, <1>4
  <2> HIDE DEF m, next
  <2>4. <<c, at[2] + m(at)>> \in D
    BY <2>2, <2>3
  <2>5. rank[<<c, at[2] + m(at)>>] = 2 * (Len(key) - (at[2] + m(at)))
    BY <2>2, <2>4
  <2>6. rank[at] = 2 * (Len(key) - at[2]) + (IF at[1] = Root THEN 1 ELSE 0)
    OBVIOUS
  <2> HIDE DEF rank, D
  <2>7. Len(key) \in Int /\ m(at) \in Int
    BY <2>3
  <2>8. \A l, i, k \in Int : 2 * (l - (i + k)) = 2 * (l - i) - 2 * k
    OBVIOUS
  <2>9. 2 * (Len(key) - (at[2] + m(at))) = 2 * (Len(key) - at[2]) - 2 * m(at)
    BY <2>1, <2>7, <2>8
  <2>10. rank[<<c, at[2] + m(at)>>] < rank[at]
    <3>1. PICK x \in Int : x = 2 * (Len(key) - at[2])
      BY <2>1, <2>7
    <3>2. CASE m(at) = 0
      BY <2>3, <2>5, <2>6, <2>9, <3>1, <3>2
    <3>3. CASE m(at) # 0
      <4>1. \A z \in Int, k \in Nat : k # 0 => z - 2 * k < z /\ z - 2 * k < z + 1
        OBVIOUS
      <4>2. x - 2 * m(at) < x /\ x - 2 * m(at) < x + 1
        BY <2>3, <3>3, <4>1
      <4>3. rank[at] = x \/ rank[at] = x + 1
        BY <2>6, <3>1
      <4> QED
        BY <2>5, <2>9, <3>1, <4>2, <4>3
    <3> QED
      BY <3>2, <3>3
  <2> QED
    BY <2>4, <2>10
<1>5. rank \in [D -> 0..N]
  <2>1. ASSUME NEW at \in D
        PROVE  2 * (Len(key) - at[2]) + (IF at[1] = Root THEN 1 ELSE 0) \in 0..N
    <3>1. at[2] \in 0..Len(key)
      OBVIOUS
    <3> HIDE DEF D
    <3> QED BY <1>2, <3>1
  <2> HIDE DEF D, N
  <2> QED
    BY <2>1
<1> HIDE DEF rank, N
<1>6. \E f : Is(f)
  <2>1. ASSUME NEW at \in D, NEW f \in [D -> T]
        PROVE  Body(at, f) \in T
    <3>1. CASE m(at) < Len(nodes[at[1]].path) \/ next(at) = {}
      <4>1. m(at) \in Nat /\ at[2] + m(at) \in Nat /\ at[1] \in DOMAIN nodes
        BY <1>2, <1>3
      <4> HIDE DEF m, next, D
      <4> QED BY <3>1, <4>1
    <3>2. CASE ~(m(at) < Len(nodes[at[1]].path)) /\ next(at) # {}
      <4>1. (CHOOSE c \in next(at) : TRUE) \in next(at)
        <5> HIDE DEF next
        <5> QED BY <3>2
      <4>2. <<CHOOSE c \in next(at) : TRUE, at[2] + m(at)>> \in D
        <5> HIDE DEF next, m, D
        <5> QED BY <1>4, <3>2, <4>1
      <4> HIDE DEF next, m, D, T
      <4> QED BY <3>2, <4>2
    <3> HIDE DEF next, m, D, T, Body
    <3> QED
      BY <3>1, <3>2
  <2>2. PICK H : H = [at \in D |-> [f \in [D -> T] |-> Body(at, f)]]
    OBVIOUS
  <2>3. H \in [D -> [[D -> T] -> T]]
    <3> HIDE DEF Body, D, T
    <3> QED BY <2>1, <2>2
  <2>4. ASSUME NEW at \in D, NEW f \in [D -> T], NEW g \in [D -> T],
               \A y \in D : rank[y] < rank[at] => f[y] = g[y]
        PROVE  H[at][f] = H[at][g]
    <3>1. H[at][f] = Body(at, f) /\ H[at][g] = Body(at, g)
      <4> HIDE DEF Body, D, T
      <4> QED BY <2>2
    <3>2. CASE m(at) < Len(nodes[at[1]].path) \/ next(at) = {}
      <4> HIDE DEF m, next, D, T
      <4> QED BY <3>1, <3>2
    <3>3. CASE ~(m(at) < Len(nodes[at[1]].path)) /\ next(at) # {}
      <4>1. (CHOOSE c \in next(at) : TRUE) \in next(at)
        <5> HIDE DEF next
        <5> QED BY <3>3
      <4> DEFINE y == <<CHOOSE c \in next(at) : TRUE, at[2] + m(at)>>
      <4>2. y \in D /\ rank[y] < rank[at]
        <5> HIDE DEF next, m, D
        <5> QED BY <1>4, <3>3, <4>1
      <4>3. f[y] = g[y]
        <5> HIDE DEF y, D, T
        <5> QED BY <2>4, <4>2
      <4>4. Body(at, f) = f[y] /\ Body(at, g) = g[y]
        <5> HIDE DEF next, m, D, T
        <5> QED BY <3>3
      <4> HIDE DEF Body, y
      <4> QED BY <3>1, <4>3, <4>4
    <3> HIDE DEF m, next, D, T, Body
    <3> QED
      BY <3>2, <3>3
  <2>5. Falls(H, D, T, rank)
    <3> HIDE DEF D, T, Body
    <3> QED BY <2>4 DEF Falls
  <2>6. PICK a : a \in T
    <3>1. [node |-> Root, matched |-> 0, consumed |-> 0] \in T
      BY DEF Tree
    <3> HIDE DEF T
    <3> QED BY <3>1
  <2>7. PICK f \in [D -> T] : Solution(f, D, H)
    <3> HIDE DEF D, T, Body
    <3> QED BY <1>2, <1>5, <2>3, <2>5, <2>6, RankedRecursion
  <2>8. \A at \in D : f[at] = Body(at, f)
    <3> HIDE DEF D, T, Body
    <3> QED BY <2>2, <2>7 DEF Solution
  <2>9. Is(f)
    <3> HIDE DEF D, T, Body
    <3> QED BY <2>8
  <2> HIDE DEF Is
  <2> QED
    BY <2>9
<1>7. Is(from)
  <2> HIDE DEF Is
  <2> QED
    BY <1>6
<1> HIDE DEF from
<1>8. \A at \in D : from[at] = Body(at, from)
  <2> HIDE DEF Body, D
  <2> QED BY <1>7
<1> HIDE DEF Is
<1>9. ASSUME NEW n \in DOMAIN nodes, NEW i \in 0..Len(key)
      PROVE  /\ Ending(n, key, i) =>
                  from[<<n, i>>] = [node |-> n, matched |-> MatchedAt(n, key, i),
                                    consumed |-> i + MatchedAt(n, key, i)]
             /\ ~Ending(n, key, i) =>
                  \E c \in Continuing(n, key, i + MatchedAt(n, key, i)) :
                      from[<<n, i>>] = from[<<c, i + MatchedAt(n, key, i)>>]
  <2> DEFINE at == <<n, i>>
  <2>1. at \in D /\ at[1] = n /\ at[2] = i
    OBVIOUS
  <2>2. m(at) = MatchedAt(n, key, i) /\ next(at) = Continuing(n, key, i + MatchedAt(n, key, i))
    BY <2>1 DEF Continuing
  <2>3. from[at] = Body(at, from)
    <3> HIDE DEF Body, D, at
    <3> QED BY <1>8, <2>1
  <2>4. CASE Ending(n, key, i)
    <3>1. m(at) < Len(nodes[n].path) \/ next(at) = {}
      <4> HIDE DEF at, m, next
      <4> QED BY <2>2, <2>4 DEF Ending
    <3> HIDE DEF at, m, next, D
    <3> QED
      BY <2>1, <2>2, <2>3, <2>4, <3>1 DEF at
  <2>5. CASE ~Ending(n, key, i)
    <3>1. ~(m(at) < Len(nodes[n].path)) /\ next(at) # {}
      <4> HIDE DEF at, m, next
      <4> QED BY <2>2, <2>5 DEF Ending
    <3> DEFINE c == CHOOSE x \in next(at) : TRUE
    <3>2. c \in next(at)
      <4> HIDE DEF next
      <4> QED BY <3>1
    <3>3. from[at] = from[<<c, i + m(at)>>]
      <4> HIDE DEF at, m, next, D
      <4> QED BY <2>1, <2>3, <3>1
    <3> HIDE DEF at, m, next, D, c
    <3> QED
      BY <2>2, <2>5, <3>2, <3>3 DEF at
  <2> QED
    BY <2>4, <2>5
<1>10. Descends(from, key)
  BY <1>9 DEF Descends
<1> QED
  BY <1>1, <1>10

-----------------------------------------------------------------------------
\* spelled[n] is what node n stands for: the paths from the root down to it.
Spelling(forest, spelled) ==
    /\ spelled \in [DOMAIN forest -> Seq(Characters)] /\ spelled[Root] = <<>>
    /\ \A n \in DOMAIN forest \ {Root} :
          spelled[n] = spelled[forest[n].parent] \o forest[n].path

\* The beginning of a key is that of what node n stands for.
Agrees(key, spelled, n, i) == \A j \in 1..i : key[j] = spelled[n][j]

\* A descent arrives at node n with the first i characters of its key, and the next one if it
\* comes from a parent.
Arrived(key, spelled, n, i) ==
    /\ i + Len(nodes[n].path) = Len(spelled[n]) /\ Agrees(key, spelled, n, i)
    /\ n # Root => i < Len(key) /\ nodes[n].path[1] = key[i + 1]

\* Where a descent ends.
Ended(key, spelled, e) ==
    /\ e \in [node : DOMAIN nodes, matched : Nat, consumed : 0..Len(key)]
    /\ e.matched \in 0..Len(nodes[e.node].path)
    /\ e.consumed + Len(nodes[e.node].path) = Len(spelled[e.node]) + e.matched
    /\ Agrees(key, spelled, e.node, e.consumed)
    /\ e.node # Root => e.matched # 0
    /\ e.consumed < Len(key) =>
          /\ e.matched < Len(nodes[e.node].path) =>
                nodes[e.node].path[e.matched + 1] # key[e.consumed + 1]
          /\ Whole(e) => \A c \in nodes[e.node].childs : nodes[c].path[1] # key[e.consumed + 1]

BeginsWith(u, s) == \A j \in 1..Len(s) : u[j] = s[j]
EndsWith(u, t)   == \A j \in 1..Len(t) : u[Len(u) - Len(t) + j] = t[j]

\* What two sequences make when they are put together.
LEMMA Concatenated ==
    ASSUME NEW S, NEW s \in Seq(S), NEW t \in Seq(S), NEW u, u = s \o t,
           NEW m, m = Len(s), NEW n, n = Len(t)
    PROVE  /\ m \in Nat /\ n \in Nat /\ u \in Seq(S) /\ Len(u) = m + n
           /\ \A i \in 1..m + n : u[i] = IF i <= m THEN s[i] ELSE t[i - m]
BY ConcatProperties

LEMMA Joined ==
    ASSUME NEW S, NEW s \in Seq(S), NEW t \in Seq(S), NEW u, u = s \o t
    PROVE  /\ u \in Seq(S) /\ Len(s) \in Nat /\ Len(t) \in Nat /\ Len(u) = Len(s) + Len(t)
           /\ BeginsWith(u, s) /\ EndsWith(u, t)
<1>1. Len(s) \in Nat /\ Len(t) \in Nat
  OBVIOUS
<1>2. PICK m \in Nat, n \in Nat : m = Len(s) /\ n = Len(t)
  BY <1>1
<1>3. /\ u \in Seq(S) /\ Len(u) = m + n
      /\ \A i \in 1..m + n : u[i] = IF i <= m THEN s[i] ELSE t[i - m]
  BY <1>2, Concatenated
<1>4. ASSUME NEW j \in 1..m
      PROVE  u[j] = s[j]
  <2>1. j \in 1..m + n /\ j <= m
    BY <1>4
  <2> QED BY <1>3, <2>1
<1>5. ASSUME NEW j \in 1..n
      PROVE  u[m + n - n + j] = t[j]
  <2>1. m + j \in 1..m + n /\ ~(m + j <= m) /\ (m + j) - m = j /\ m + n - n + j = m + j
    BY <1>5
  <2> QED BY <1>3, <2>1
<1> QED
  BY <1>1, <1>2, <1>3, <1>4, <1>5 DEF BeginsWith, EndsWith

\* What a node stands for ends with its path.
LEMMA SpelledEnd ==
    ASSUME NEW forest, Tree(forest), NEW spelled, Spelling(forest, spelled), NEW n \in DOMAIN forest
    PROVE  /\ forest[n] \in Node /\ forest[n].path \in Seq(Characters) /\ spelled[n] \in Seq(Characters)
           /\ Len(forest[n].path) \in Nat /\ Len(spelled[n]) \in Nat
           /\ Len(forest[n].path) <= Len(spelled[n])
           /\ EndsWith(spelled[n], forest[n].path)
           /\ (n = Root) <=> (forest[n].path = <<>>)
           /\ (n = Root) <=> (Len(forest[n].path) = 0)
<1>1. forest[n] \in Node /\ forest[n].path \in Seq(Characters) /\ spelled[n] \in Seq(Characters)
  <2>1. forest[n] \in Node
    BY DEF Tree
  <2> QED
    BY <2>1 DEF Node, Spelling
<1>2. (n = Root) <=> (forest[n].path = <<>>)
  BY DEF Tree
<1>3. CASE n = Root
  BY <1>1, <1>2, <1>3 DEF Spelling, EndsWith
<1>4. CASE n # Root
  <2> DEFINE p == forest[n].parent
  <2>1. p \in DOMAIN forest
    BY <1>4 DEF Tree
  <2>2. spelled[p] \in Seq(Characters) /\ spelled[n] = spelled[p] \o forest[n].path
    BY <1>4, <2>1 DEF Spelling
  <2> HIDE DEF p
  <2>3. EndsWith(spelled[n], forest[n].path)
    BY <1>1, <2>2, Joined
  <2>4. Len(forest[n].path) # 0
    BY <1>1, <1>2, <1>4, EmptySeq
  <2>5. Len(forest[n].path) \in Nat /\ Len(spelled[n]) \in Nat
        /\ Len(forest[n].path) <= Len(spelled[n])
    <3>1. Len(spelled[p]) \in Nat /\ Len(forest[n].path) \in Nat
          /\ Len(spelled[n]) = Len(spelled[p]) + Len(forest[n].path)
      BY <1>1, <2>2, ConcatProperties
    <3>2. Len(spelled[n]) \in Nat
      BY <1>1
    <3>3. \A x, y, z \in Nat : z = x + y => y <= z
      OBVIOUS
    <3>4. Len(forest[n].path) <= Len(spelled[n])
      BY <3>1, <3>2, <3>3
    <3> QED
      BY <3>1, <3>2, <3>4
  <2>6. (n = Root) <=> (Len(forest[n].path) = 0)
    BY <1>4, <2>4
  <2> QED
    BY <1>1, <1>2, <2>3, <2>5, <2>6
<1> QED
  BY <1>3, <1>4

\* What a child stands for begins with what its parent stands for.
LEMMA SpelledChild ==
    ASSUME NEW forest, Tree(forest), NEW spelled, Spelling(forest, spelled),
           NEW n \in DOMAIN forest, NEW c \in forest[n].childs
    PROVE  c \in DOMAIN forest \ {Root} /\ BeginsWith(spelled[c], spelled[n])
<1>1. c \in DOMAIN forest \ {Root} /\ forest[c].parent = n
  BY DEF Tree
<1>2. spelled[c] = spelled[n] \o forest[c].path
  BY <1>1 DEF Spelling
<1>3. spelled[n] \in Seq(Characters) /\ forest[c].path \in Seq(Characters)
  BY <1>1, SpelledEnd
<1> QED
  BY <1>1, <1>2, <1>3, Joined

LEMMA SpelledChildLength ==
    ASSUME NEW forest, Tree(forest), NEW spelled, Spelling(forest, spelled),
           NEW n \in DOMAIN forest, NEW c \in forest[n].childs
    PROVE  Len(spelled[c]) = Len(spelled[n]) + Len(forest[c].path)
<1>1. c \in DOMAIN forest \ {Root} /\ forest[c].parent = n
  BY DEF Tree
<1>2. spelled[c] = spelled[n] \o forest[c].path
  BY <1>1 DEF Spelling
<1>3. spelled[n] \in Seq(Characters) /\ forest[c].path \in Seq(Characters)
  BY <1>1, SpelledEnd
<1> QED
  BY <1>2, <1>3, ConcatProperties

\* A descent that has arrived somewhere ends or arrives at a child.
LEMMA ArrivesAtChild ==
    ASSUME Tree(nodes), NEW spelled, Spelling(nodes, spelled), NEW key \in Seq(Characters),
           NEW n \in DOMAIN nodes, NEW i \in 0..Len(key), Arrived(key, spelled, n, i),
           ~Ending(n, key, i), NEW c \in Continuing(n, key, i + MatchedAt(n, key, i))
    PROVE  /\ c \in DOMAIN nodes \ {Root}
           /\ i + MatchedAt(n, key, i) \in 0..Len(key) /\ (n = Root \/ MatchedAt(n, key, i) > 0)
           /\ Arrived(key, spelled, c, i + MatchedAt(n, key, i))
<1>1. PICK m : m = MatchedAt(n, key, i)
  OBVIOUS
<1>2. nodes[n].path \in Seq(Characters)
  BY SpelledEnd
<1>3. m \in 0..Len(nodes[n].path) /\ i + m \in 0..Len(key)
      /\ \A j \in 1..m : nodes[n].path[j] = key[i + j]
  BY <1>1, <1>2, MatchedIs
<1>4. m = Len(nodes[n].path) /\ i + m = Len(spelled[n])
  BY <1>1, <1>2, <1>3 DEF Ending, Arrived
<1>5. c \in nodes[n].childs /\ i + m < Len(key) /\ nodes[c].path[1] = key[i + m + 1]
  BY <1>1 DEF Continuing
<1>6. /\ c \in DOMAIN nodes \ {Root} /\ Len(spelled[c]) = Len(spelled[n]) + Len(nodes[c].path)
      /\ BeginsWith(spelled[c], spelled[n])
  <2>1. c \in nodes[n].childs
    BY <1>5
  <2>2. c \in DOMAIN nodes \ {Root} /\ BeginsWith(spelled[c], spelled[n])
    BY <2>1, SpelledChild
  <2>3. Len(spelled[c]) = Len(spelled[n]) + Len(nodes[c].path)
    BY <2>1, SpelledChildLength
  <2> QED BY <2>2, <2>3
<1>7. /\ Len(nodes[n].path) \in Nat /\ Len(spelled[n]) \in Nat /\ Len(nodes[c].path) \in Nat
      /\ EndsWith(spelled[n], nodes[n].path)
      /\ (n = Root) <=> (Len(nodes[n].path) = 0)
  <2>1. c \in DOMAIN nodes
    BY <1>6
  <2>2. Len(nodes[c].path) \in Nat
    BY <2>1, SpelledEnd
  <2> QED BY <2>2, SpelledEnd
<1>8. ASSUME NEW j \in 1..i + m
      PROVE  key[j] = spelled[c][j]
  <2>1. spelled[c][j] = spelled[n][j]
    BY <1>4, <1>6 DEF BeginsWith
  <2>2. CASE j <= i
    <3>1. j \in 1..i
      BY <2>2
    <3> QED
      BY <2>1, <3>1 DEF Arrived, Agrees
  <2>3. CASE ~(j <= i)
    <3>1. PICK x \in Nat : x = i /\ Len(spelled[n]) = x + m
      BY <1>4
    <3>2. j - x \in 1..m /\ x + (j - x) = j /\ x + m - m + (j - x) = j
      BY <1>3, <2>3, <3>1
    <3>3. spelled[n][x + m - m + (j - x)] = nodes[n].path[j - x]
      BY <1>4, <1>7, <3>1, <3>2 DEF EndsWith
    <3>4. nodes[n].path[j - x] = key[x + (j - x)]
      BY <1>3, <3>1, <3>2
    <3> QED
      BY <2>1, <3>2, <3>3, <3>4
  <2> QED
    BY <2>2, <2>3
<1>9. Arrived(key, spelled, c, i + m)
  BY <1>4, <1>5, <1>6, <1>8 DEF Arrived, Agrees
<1> QED
  BY <1>1, <1>3, <1>4, <1>6, <1>7, <1>9

\* The descent for a key follows it to its end or as far as there are nodes.
LEMMA DescentEnds ==
    ASSUME Tree(nodes), NEW spelled, Spelling(nodes, spelled), NEW key \in Seq(Characters)
    PROVE  Ended(key, spelled, Descent(key))
<1>1. PICK f : Descends(f, key) /\ Descent(key) = f[<<Root, 0>>]
  BY DescentIs
<1> DEFINE rank(n, i) == 2 * (Len(key) - i) + (IF n = Root THEN 1 ELSE 0)
           Bad == {k \in Nat : \E n \in DOMAIN nodes, i \in 0..Len(key) :
                      /\ Arrived(key, spelled, n, i) /\ ~Ended(key, spelled, f[<<n, i>>])
                      /\ k = rank(n, i)}
<1>2. Len(key) \in Nat
  OBVIOUS
<1>3. SUFFICES ASSUME Bad # {} PROVE FALSE
  <2>1. Root \in DOMAIN nodes /\ 0 \in 0..Len(key) /\ rank(Root, 0) \in Nat
    BY <1>2 DEF Tree
  <2>2. Arrived(key, spelled, Root, 0)
    BY DEF Arrived, Agrees, Tree, Spelling
  <2> QED
    BY <1>1, <1>3, <2>1, <2>2
<1>4. PICK k \in Bad : \A x \in Bad : k <= x
  <2>1. Bad \in SUBSET Nat
    OBVIOUS
  <2> HIDE DEF Bad
  <2> QED
    BY <1>3, <2>1, LeastExists
<1>5. PICK n \in DOMAIN nodes, i \in 0..Len(key) :
          Arrived(key, spelled, n, i) /\ ~Ended(key, spelled, f[<<n, i>>]) /\ k = rank(n, i)
  BY <1>4
<1>6. PICK m : m = MatchedAt(n, key, i)
  OBVIOUS
<1>7. nodes[n].path \in Seq(Characters) /\ Len(nodes[n].path) \in Nat /\ Len(spelled[n]) \in Nat
      /\ ((n = Root) <=> (Len(nodes[n].path) = 0))
      /\ EndsWith(spelled[n], nodes[n].path)
  BY SpelledEnd
<1>8. m \in 0..Len(nodes[n].path) /\ i + m \in 0..Len(key)
      /\ (\A j \in 1..m : nodes[n].path[j] = key[i + j])
      /\ (m < Len(nodes[n].path) /\ i + m < Len(key) => nodes[n].path[m + 1] # key[i + m + 1])
  BY <1>6, <1>7, MatchedIs
<1>9. CASE Ending(n, key, i)
  <2> DEFINE e == [node |-> n, matched |-> m, consumed |-> i + m]
  <2>1. f[<<n, i>>] = e
    BY <1>1, <1>6, <1>9 DEF Descends
  <2>2. Agrees(key, spelled, n, i + m)
    <3>1. ASSUME NEW j \in 1..i + m
          PROVE  key[j] = spelled[n][j]
      <4>1. CASE j <= i
        <5>1. j \in 1..i
          BY <4>1
        <5> QED
          BY <1>5, <5>1 DEF Arrived, Agrees
      <4>2. CASE ~(j <= i)
        <5>1. PICK x \in Nat, y \in Nat : x = i /\ y = Len(nodes[n].path) /\ Len(spelled[n]) = x + y
          <6>1. i \in Nat /\ Len(nodes[n].path) \in Nat
            BY <1>7
          <6>2. i + Len(nodes[n].path) = Len(spelled[n])
            BY <1>5 DEF Arrived
          <6> QED
            BY <6>1, <6>2
        <5>2. j - x \in 1..m /\ j - x \in 1..y /\ x + (j - x) = j /\ x + y - y + (j - x) = j
          BY <1>8, <4>2, <5>1
        <5>3. spelled[n][x + y - y + (j - x)] = nodes[n].path[j - x]
          BY <1>7, <5>1, <5>2 DEF EndsWith
        <5>4. nodes[n].path[j - x] = key[x + (j - x)]
          BY <1>8, <5>1, <5>2
        <5> QED
          BY <5>2, <5>3, <5>4
      <4> QED
        BY <4>1, <4>2
    <3> QED
      BY <3>1 DEF Agrees
  <2>3. i + m + Len(nodes[n].path) = Len(spelled[n]) + m
    <3>1. i + Len(nodes[n].path) = Len(spelled[n])
      BY <1>5 DEF Arrived
    <3>2. i \in Nat /\ m \in Nat /\ Len(nodes[n].path) \in Nat /\ Len(spelled[n]) \in Nat
      BY <1>7, <1>8
    <3>3. PICK x \in Nat, y \in Nat, z \in Nat :
             x = i /\ y = Len(nodes[n].path) /\ z = Len(spelled[n])
      BY <3>2
    <3>4. x + y = z
      BY <3>1, <3>3
    <3>5. m \in Nat
      BY <3>2
    <3>6. x + m + y = z + m
      BY <3>4, <3>5
    <3> QED
      BY <3>3, <3>6
  <2>4. n # Root => m # 0
    <3>1. SUFFICES ASSUME n # Root, m = 0 PROVE FALSE
      OBVIOUS
    <3>2. i < Len(key) /\ nodes[n].path[1] = key[i + 1]
      BY <1>5, <3>1 DEF Arrived
    <3> QED
      BY <1>7, <1>8, <3>1, <3>2
  <2>5. i + m < Len(key) /\ m = Len(nodes[n].path) =>
            \A c \in nodes[n].childs : nodes[c].path[1] # key[i + m + 1]
    BY <1>6, <1>7, <1>9 DEF Ending, Continuing
  <2>6. Ended(key, spelled, e)
    BY <1>7, <1>8, <2>2, <2>3, <2>4, <2>5 DEF Ended, Whole
  <2> QED
    BY <1>5, <2>1, <2>6
<1>10. CASE ~Ending(n, key, i)
  <2>1. PICK c \in Continuing(n, key, i + m) : f[<<n, i>>] = f[<<c, i + m>>]
    BY <1>1, <1>6, <1>10 DEF Descends
  <2>2. c \in DOMAIN nodes \ {Root} /\ i + m \in 0..Len(key) /\ (n = Root \/ m > 0)
        /\ Arrived(key, spelled, c, i + m)
    BY <1>5, <1>6, <1>10, <2>1, ArrivesAtChild
  <2>3. rank(c, i + m) \in Nat /\ rank(c, i + m) < rank(n, i)
    <3>1. PICK l \in Nat, x \in Nat : l = Len(key) /\ x = i /\ x <= l /\ m \in Nat /\ x + m \in 0..l
      BY <1>2, <1>7, <1>8
    <3>2. 2 * (l - (x + m)) + 0 \in Nat
          /\ 2 * (l - (x + m)) + 0 < 2 * (l - x) + (IF n = Root THEN 1 ELSE 0)
      BY <2>2, <3>1
    <3> QED
      BY <2>2, <3>1, <3>2
  <2>4. rank(c, i + m) \in Bad
    <3> HIDE DEF rank
    <3> QED BY <1>5, <2>1, <2>2, <2>3
  <2> HIDE DEF Bad
  <2>5. k <= rank(c, i + m)
    BY <1>4, <2>4
  <2> HIDE DEF rank
  <2>6. rank(n, i) \in Nat
    BY <1>2 DEF rank
  <2> QED
    BY <1>5, <2>3, <2>5, <2>6
<1> QED
  BY <1>9, <1>10

-----------------------------------------------------------------------------
\* How the nodes are changed: the values stay with what their nodes stand for, moved[n] is where
\* that of node n goes, and other nodes are new and have none.
Moved(forest, spelled, new, newSpelled, moved) ==
    /\ moved \in [DOMAIN forest -> DOMAIN new]
    /\ \A c, d \in DOMAIN forest : moved[c] = moved[d] => c = d
    /\ \A c \in DOMAIN forest :
          new[moved[c]].value = forest[c].value /\ newSpelled[moved[c]] = spelled[c]
    /\ \A d \in DOMAIN new : (\A c \in DOMAIN forest : moved[c] # d) => new[d].value = Null

\* No node is a child of its own.
LEMMA NotOwnChild ==
    ASSUME NEW forest, Tree(forest), NEW spelled, Spelling(forest, spelled),
           NEW n \in DOMAIN forest, NEW c \in forest[n].childs
    PROVE  c # n
<1>1. c \in DOMAIN forest \ {Root}
  BY SpelledChild
<1>2. Len(spelled[c]) = Len(spelled[n]) + Len(forest[c].path)
  BY SpelledChildLength
<1>3. Len(spelled[n]) \in Nat /\ Len(forest[c].path) \in Nat
  BY <1>1, SpelledEnd
<1>4. Len(forest[c].path) # 0
  BY <1>1, SpelledEnd
<1>5. \A x, y, z \in Nat : z = x + y /\ y # 0 => z # x
  OBVIOUS
<1>6. Len(spelled[c]) \in Nat
  BY <1>1, SpelledEnd
<1> QED
  BY <1>2, <1>3, <1>4, <1>5, <1>6

\* The nodes that Split makes, field by field.
LEMMA SplitIs ==
    ASSUME Tree(nodes), NEW spelled, Spelling(nodes, spelled), NEW n \in DOMAIN nodes,
           NEW m \in Nat, 0 < m, m < Len(nodes[n].path), NEW new, new = Split(n, m)
    PROVE  /\ new \in Seq(Node) /\ DOMAIN new = 1..Len(nodes) + 1 /\ Len(new) = Len(nodes) + 1
           /\ new[n].parent = nodes[n].parent /\ new[n].path = SubSeq(nodes[n].path, 1, m)
           /\ new[n].childs = {Len(nodes) + 1} /\ new[n].value = Null
           /\ new[Len(nodes) + 1].parent = n
           /\ new[Len(nodes) + 1].path = SubSeq(nodes[n].path, m + 1, Len(nodes[n].path))
           /\ new[Len(nodes) + 1].childs = nodes[n].childs
           /\ new[Len(nodes) + 1].value = nodes[n].value
           /\ \A c \in DOMAIN nodes \ {n} :
                 /\ new[c].path = nodes[c].path /\ new[c].childs = nodes[c].childs
                 /\ new[c].value = nodes[c].value
                 /\ new[c].parent = IF c \in nodes[n].childs THEN Len(nodes) + 1
                                                             ELSE nodes[c].parent
<1> DEFINE L == Len(nodes)
<1>1. /\ L \in Nat /\ DOMAIN nodes = 1..L /\ \A c \in 1..L : nodes[c] \in Node
      /\ nodes[n].childs \subseteq 1..L
  BY DEF Tree
<1>2. n \in 1..L /\ n # L + 1 /\ n \in 1..L + 1 /\ L + 1 \in 1..L + 1 /\ nodes[n] \in Node
      /\ \A c \in 1..L : c # L + 1 /\ c \in 1..L + 1
  BY <1>1
<1>3. n \notin nodes[n].childs /\ L + 1 \notin nodes[n].childs
  <2>1. n \notin nodes[n].childs
    BY NotOwnChild
  <2> QED
    BY <1>1, <1>2, <2>1
<1>4. nodes[n].path \in Seq(Characters)
  BY SpelledEnd
<1>5. SubSeq(nodes[n].path, 1, m) \in Seq(Characters)
      /\ SubSeq(nodes[n].path, m + 1, Len(nodes[n].path)) \in Seq(Characters)
  <2>1. \A j \in 1..Len(nodes[n].path) : nodes[n].path[j] \in Characters
    BY <1>4
  <2>2. PICK l \in Nat : l = Len(nodes[n].path)
    BY <1>4
  <2>3. m \in Int /\ 1 \in Int /\ m + 1 \in Int /\ l \in Int
        /\ (\A j \in 1..m : j \in 1..l) /\ (\A j \in m + 1..l : j \in 1..l)
    BY <2>2
  <2>4. SubSeq(nodes[n].path, 1, m) \in Seq(Characters)
    BY <2>1, <2>2, <2>3, SubSeqProperties
  <2>5. SubSeq(nodes[n].path, m + 1, l) \in Seq(Characters)
    BY <2>1, <2>2, <2>3, SubSeqProperties
  <2> QED
    BY <2>2, <2>4, <2>5
<1> HIDE DEF L
<1>6. DOMAIN new = 1..L + 1 /\ new = [c \in 1..L + 1 |-> new[c]]
  BY DEF Split, L
<1>7. new[n] = Upper(n, m) /\ new[L + 1] = Lower(n, m)
  <2>1. new[n] = Upper(n, m)
    BY <1>2, <1>3 DEF Split, L
  <2>2. new[L + 1] = Lower(n, m)
    BY <1>2, <1>3 DEF Split, L
  <2> QED
    BY <2>1, <2>2
<1>8. \A c \in 1..L \ {n} : new[c] = IF c \in nodes[n].childs
                                       THEN [nodes[c] EXCEPT !.parent = L + 1] ELSE nodes[c]
  <2>1. ASSUME NEW c \in 1..L, c # n, c \in nodes[n].childs
        PROVE  new[c] = [nodes[c] EXCEPT !.parent = L + 1]
    BY <1>2, <1>3, <2>1 DEF Split, L
  <2>2. ASSUME NEW c \in 1..L, c # n, c \notin nodes[n].childs
        PROVE  new[c] = nodes[c]
    BY <1>2, <1>3, <2>2 DEF Split, L
  <2> QED
    BY <2>1, <2>2
<1>9. /\ new[n] \in Node
      /\ new[n].parent = nodes[n].parent /\ new[n].path = SubSeq(nodes[n].path, 1, m)
      /\ new[n].childs = {L + 1} /\ new[n].value = Null
  <2>1. PICK path \in Seq(Characters) : path = SubSeq(nodes[n].path, 1, m)
    BY <1>5
  <2>2. new[n] = [nodes[n] EXCEPT !.path = path, !.childs = {L + 1}, !.value = Null]
    BY <1>7, <2>1 DEF Upper, L
  <2>3. {L + 1} \in SUBSET Nat /\ Null \in Nat
    BY <1>1 DEF Null
  <2> QED
    BY <1>2, <2>1, <2>2, <2>3 DEF Node
<1>10. /\ new[L + 1] \in Node
       /\ new[L + 1].parent = n
       /\ new[L + 1].path = SubSeq(nodes[n].path, m + 1, Len(nodes[n].path))
       /\ new[L + 1].childs = nodes[n].childs
       /\ new[L + 1].value = nodes[n].value
  <2>1. PICK path \in Seq(Characters) : path = SubSeq(nodes[n].path, m + 1, Len(nodes[n].path))
    BY <1>5
  <2>2. new[L + 1] = [nodes[n] EXCEPT !.parent = n, !.path = path]
    BY <1>7, <2>1 DEF Lower
  <2>3. n \in Nat
    BY <1>1, <1>2
  <2> QED
    BY <1>2, <2>1, <2>2, <2>3 DEF Node
<1>11. ASSUME NEW c \in 1..L \ {n}
       PROVE  /\ new[c] \in Node
              /\ new[c].path = nodes[c].path /\ new[c].childs = nodes[c].childs
              /\ new[c].value = nodes[c].value
              /\ new[c].parent = IF c \in nodes[n].childs THEN L + 1 ELSE nodes[c].parent
  <2>1. nodes[c] \in Node /\ L + 1 \in Nat
    BY <1>1
  <2>2. CASE c \in nodes[n].childs
    <3>1. new[c] = [nodes[c] EXCEPT !.parent = L + 1]
      BY <1>8, <2>2
    <3> QED
      BY <2>1, <2>2, <3>1 DEF Node
  <2>3. CASE c \notin nodes[n].childs
    <3>1. new[c] = nodes[c]
      BY <1>8, <2>3
    <3> QED
      BY <2>1, <2>3, <3>1
  <2> QED
    BY <2>2, <2>3
<1>12. new \in Seq(Node) /\ Len(new) = L + 1
  <2>1. \A c \in 1..L + 1 : c = n \/ c = L + 1 \/ c \in 1..L \ {n}
    BY <1>1
  <2>2. \A c \in 1..L + 1 : new[c] \in Node
    BY <1>9, <1>10, <1>11, <2>1
  <2>3. new \in [1..L + 1 -> Node]
    BY <1>6, <2>2
  <2>4. L + 1 \in Nat
    BY <1>1
  <2> QED
    BY <2>3, <2>4
<1> QED
  BY <1>1, <1>6, <1>9, <1>10, <1>11, <1>12 DEF L

Joins(s, t, u) == s \o t = u

LEMMA Associative ==
    ASSUME NEW S, NEW s \in Seq(S), NEW t \in Seq(S), NEW u \in Seq(S), NEW tu, Joins(t, u, tu),
           NEW st, Joins(s, t, st)
    PROVE  \A x : Joins(s, tu, x) => Joins(st, u, x)
<1>1. (s \o t) \o u = s \o (t \o u)
  BY ONLY ConcatAssociative
<1> QED
  BY <1>1, Zenon DEF Joins

Divides(m, t, l, r) == l = SubSeq(t, 1, m) /\ r = SubSeq(t, m + 1, Len(t))

\* A sequence that is divided.
LEMMA Divided ==
    ASSUME NEW S, NEW t \in Seq(S), NEW m \in 0..Len(t), NEW l, NEW r, Divides(m, t, l, r)
    PROVE  /\ l \in Seq(S) /\ r \in Seq(S) /\ Len(l) = m /\ Len(r) = Len(t) - m
           /\ (m # 0 => l # <<>> /\ l[1] = t[1]) /\ (m # Len(t) => r # <<>> /\ r[1] = t[m + 1])
           /\ Joins(l, r, t) /\ BeginsWith(t, l)
<1>1. PICK k \in Nat : k = Len(t) /\ m \in 0..k /\ m \in Int /\ k \in Int
  OBVIOUS
<1>2. (\A j \in 1..m : t[j] \in S) /\ (\A j \in m + 1..k : t[j] \in S)
  BY <1>1
<1>3. l \in Seq(S) /\ Len(l) = m /\ \A j \in 1..m : l[j] = t[j]
  <2>1. /\ l \in Seq(S) /\ Len(l) = (IF 1 <= m THEN m - 1 + 1 ELSE 0)
        /\ \A j \in 1..m - 1 + 1 : l[j] = t[1 + j - 1]
    BY <1>1, <1>2, SubSeqProperties DEF Divides
  <2>2. \A j \in 1..m : j \in 1..m - 1 + 1 /\ 1 + j - 1 = j
    BY <1>1
  <2> QED
    BY <1>1, <2>1, <2>2
<1>4. r \in Seq(S) /\ Len(r) = k - m /\ \A j \in 1..k - m : r[j] = t[m + j]
  <2>1. /\ r \in Seq(S) /\ Len(r) = (IF m + 1 <= k THEN k - (m + 1) + 1 ELSE 0)
        /\ \A j \in 1..k - (m + 1) + 1 : r[j] = t[(m + 1) + j - 1]
    BY <1>1, <1>2, SubSeqProperties DEF Divides
  <2>2. \A j \in 1..k - m : j \in 1..k - (m + 1) + 1 /\ (m + 1) + j - 1 = m + j
    BY <1>1
  <2> QED
    BY <1>1, <2>1, <2>2
<1>5. ASSUME m # 0
      PROVE  l # <<>> /\ l[1] = t[1]
  <2>1. 1 \in 1..m
    BY <1>1, <1>5
  <2>2. Len(l) # 0
    BY <1>3, <1>5
  <2> QED
    BY <1>3, <2>1, <2>2, EmptySeq
<1>6. ASSUME m # k
      PROVE  r # <<>> /\ r[1] = t[m + 1]
  <2>1. 1 \in 1..k - m /\ k - m # 0
    BY <1>1, <1>6
  <2>2. Len(r) # 0
    BY <1>4, <2>1
  <2> QED
    BY <1>4, <2>1, <2>2, EmptySeq
<1>7. l \o r = t
  <2>1. 1 \in 1..Len(t) + 1 /\ m \in 1 - 1..Len(t) /\ k \in m..Len(t)
    BY <1>1
  <2>2. l \o r = SubSeq(t, 1, k)
    BY <1>1, <2>1, ConcatAdjacentSubSeq DEF Divides
  <2> QED
    BY <1>1, <2>2, SubSeqFull
<1>8. Joins(l, r, t) /\ BeginsWith(t, l)
  BY <1>3, <1>7 DEF Joins, BeginsWith
<1> QED
  BY <1>1, <1>3, <1>4, <1>5, <1>6, <1>8

ChildsBegin(forest, n, x) == \A c \in forest[n].childs : forest[c].path[1] = x

\* Split makes a tree in which each node that there was, and its value, is found as before; the
\* node that is split now stands for a beginning.
LEMMA SplitTree ==
    ASSUME Tree(nodes), NEW spelled, Spelling(nodes, spelled), NEW n \in DOMAIN nodes,
           NEW m \in Nat, 0 < m, m < Len(nodes[n].path), NEW new, new = Split(n, m)
    PROVE  /\ Tree(new) /\ ChildsBegin(new, n, nodes[n].path[m + 1])
           /\ \E newSpelled, moved :
                 /\ Spelling(new, newSpelled) /\ Moved(nodes, spelled, new, newSpelled, moved)
                 /\ Len(newSpelled[n]) + Len(nodes[n].path) = Len(spelled[n]) + m
                 /\ BeginsWith(spelled[n], newSpelled[n])
<1> DEFINE L == Len(nodes) + 1
           l == SubSeq(nodes[n].path, 1, m)
           r == SubSeq(nodes[n].path, m + 1, Len(nodes[n].path))
           p == nodes[n].parent
<1>1. /\ new \in Seq(Node) /\ DOMAIN new = 1..L /\ L \in Nat
      /\ new[n].parent = p /\ new[n].path = l /\ new[n].childs = {L} /\ new[n].value = Null
      /\ new[L].parent = n /\ new[L].path = r /\ new[L].childs = nodes[n].childs
      /\ new[L].value = nodes[n].value
  <2>1. Len(nodes) \in Nat
    BY DEF Tree
  <2>2. DOMAIN new = 1..L /\ L \in Nat
    BY <2>1, SplitIs
  <2> QED
    BY <2>2, SplitIs
<1>2. \A c \in DOMAIN nodes \ {n} :
         /\ new[c].path = nodes[c].path /\ new[c].childs = nodes[c].childs
         /\ new[c].value = nodes[c].value
         /\ new[c].parent = IF c \in nodes[n].childs THEN L ELSE nodes[c].parent
  BY SplitIs
<1>3. DOMAIN nodes = 1..Len(nodes) /\ DOMAIN nodes = DOMAIN new \ {L} /\ L \in DOMAIN new
  <2>1. Len(nodes) \in Nat /\ DOMAIN nodes = 1..Len(nodes)
    BY DEF Tree
  <2> QED
    BY <1>1, <2>1
<1>4. nodes[n].path \in Seq(Characters) /\ n # Root
  <2>1. nodes[n].path \in Seq(Characters) /\ ((n = Root) <=> (Len(nodes[n].path) = 0))
    BY SpelledEnd
  <2>2. Len(nodes[n].path) # 0
    BY <2>1
  <2> QED
    BY <2>1, <2>2
<1>5. /\ p \in DOMAIN nodes /\ n \in nodes[p].childs /\ p # n
      /\ spelled[n] = spelled[p] \o nodes[n].path /\ spelled[p] \in Seq(Characters)
  <2>1. p \in DOMAIN nodes /\ n \in nodes[p].childs
    BY <1>4 DEF Tree
  <2>2. p # n
    BY <2>1, NotOwnChild
  <2>3. spelled[n] = spelled[p] \o nodes[n].path /\ spelled[p] \in Seq(Characters)
    BY <1>4, <2>1 DEF Spelling
  <2> QED
    BY <2>1, <2>2, <2>3
<1>6. /\ l \in Seq(Characters) /\ r \in Seq(Characters) /\ Len(l) = m /\ l # <<>> /\ r # <<>>
      /\ l[1] = nodes[n].path[1] /\ r[1] = nodes[n].path[m + 1]
      /\ \A sl : sl = spelled[p] \o l => sl \o r = spelled[n]
  <2>1. m \in 0..Len(nodes[n].path) /\ m # 0 /\ m # Len(nodes[n].path)
    BY <1>4
  <2>2. Divides(m, nodes[n].path, l, r)
    BY DEF Divides
  <2> HIDE DEF l, r, p
  <2>3. /\ l \in Seq(Characters) /\ r \in Seq(Characters) /\ Len(l) = m /\ Joins(l, r, nodes[n].path)
        /\ l # <<>> /\ l[1] = nodes[n].path[1] /\ r # <<>> /\ r[1] = nodes[n].path[m + 1]
    <3>1. nodes[n].path \in Seq(Characters)
      BY <1>4
    <3> QED
      BY ONLY <2>1, <2>2, <3>1, Divided
  <2>4. ASSUME NEW sl, sl = spelled[p] \o l
        PROVE  sl \o r = spelled[n]
    <3>1. Joins(spelled[p], l, sl) /\ Joins(spelled[p], nodes[n].path, spelled[n])
      BY <1>5, <2>4 DEF Joins
    <3>2. spelled[p] \in Seq(Characters)
      BY <1>5
    <3>3. Joins(sl, r, spelled[n])
      BY ONLY <2>3, <3>1, <3>2, Associative
    <3> QED
      BY <3>3 DEF Joins
  <2> QED
    BY <1>5, <2>1, <2>3, <2>4
<1> DEFINE newSpelled == [c \in DOMAIN new |-> IF c = n THEN spelled[p] \o l
                                              ELSE IF c = L THEN spelled[n] ELSE spelled[c]]
           moved == [c \in DOMAIN nodes |-> IF c = n THEN L ELSE c]
<1> HIDE DEF L, l, r, p
<1>7. n # L /\ Root \in DOMAIN nodes
  BY <1>3 DEF Tree
<1>8. /\ \A c \in DOMAIN nodes : nodes[c].childs \subseteq DOMAIN nodes \ {Root}
      /\ \A c \in DOMAIN nodes : \A d \in nodes[c].childs : nodes[d].parent = c
      /\ \A c \in DOMAIN nodes \ {Root} :
            nodes[c].parent \in DOMAIN nodes /\ c \in nodes[nodes[c].parent].childs
      /\ \A c \in DOMAIN nodes : \A d, e \in nodes[c].childs :
            nodes[d].path[1] = nodes[e].path[1] => d = e
      /\ nodes[Root].parent = 0 /\ nodes[Root].path = <<>>
      /\ \A c \in DOMAIN nodes \ {Root} : nodes[c].path # <<>>
      /\ n \notin nodes[n].childs
  <2>1. n \notin nodes[n].childs
    BY NotOwnChild
  <2> QED
    BY <2>1 DEF Tree
<1>9. Tree(new)
  <2>1. new[Root].parent = 0 /\ new[Root].path = <<>>
    BY <1>2, <1>4, <1>7, <1>8
  <2>2. ASSUME NEW c \in DOMAIN new \ {Root}
        PROVE  /\ new[c].path # <<>> /\ new[c].parent \in DOMAIN new
               /\ c \in new[new[c].parent].childs
    <3>1. CASE c = n
      <4>1. p \in DOMAIN nodes \ {n} /\ new[p].childs = nodes[p].childs
        BY <1>2, <1>5
      <4> QED
        BY <1>1, <1>3, <1>5, <1>6, <3>1, <4>1
    <3>2. CASE c = L
      BY <1>1, <1>3, <1>6, <3>2
    <3>3. CASE c \in DOMAIN nodes \ {n}
      <4>1. CASE c \in nodes[n].childs
        BY <1>1, <1>2, <1>3, <1>8, <3>3, <4>1
      <4>2. CASE c \notin nodes[n].childs
        <5>1. nodes[c].parent \in DOMAIN nodes \ {n} /\ c \in nodes[nodes[c].parent].childs
          BY <1>8, <2>2, <3>3, <4>2
        <5>2. new[c].parent = nodes[c].parent /\ new[c].path = nodes[c].path
          BY <1>2, <3>3, <4>2
        <5>3. new[nodes[c].parent].childs = nodes[nodes[c].parent].childs
          BY <1>2, <5>1
        <5>4. nodes[c].path # <<>>
          BY <1>8, <2>2, <3>3
        <5> QED
          BY <1>3, <5>1, <5>2, <5>3, <5>4
      <4> QED
        BY <4>1, <4>2
    <3> QED
      BY <1>3, <2>2, <3>1, <3>2, <3>3
  <2>3. ASSUME NEW d \in DOMAIN new, NEW c \in new[d].childs
        PROVE  c \in DOMAIN new \ {Root} /\ new[c].parent = d
    <3>1. CASE d = n
      <4>1. c = L
        BY <1>1, <3>1
      <4> QED
        BY <1>1, <1>3, <1>7, <3>1, <4>1
    <3>2. CASE d = L
      <4>1. c \in nodes[n].childs
        BY <1>1, <3>2
      <4> QED
        BY <1>2, <1>3, <1>8, <3>2, <4>1
    <3>3. CASE d \in DOMAIN nodes \ {n}
      <4>1. c \in nodes[d].childs /\ c \in DOMAIN nodes \ {Root} /\ nodes[c].parent = d
        BY <1>2, <1>8, <3>3
      <4>2. CASE c = n
        BY <1>1, <1>3, <4>1, <4>2 DEF p
      <4>3. CASE c # n
        <5>1. c \notin nodes[n].childs
          BY <1>8, <3>3, <4>1
        <5> QED
          BY <1>2, <1>3, <4>1, <4>3, <5>1
      <4> QED
        BY <4>2, <4>3
    <3> QED
      BY <1>3, <3>1, <3>2, <3>3
  <2>4. \A c \in DOMAIN nodes : new[c].path[1] = nodes[c].path[1]
    BY <1>1, <1>2, <1>6
  <2>5. ASSUME NEW d \in DOMAIN new, NEW c \in new[d].childs, NEW e \in new[d].childs,
               new[c].path[1] = new[e].path[1]
        PROVE  c = e
    <3>1. CASE d = n
      BY <1>1, <3>1
    <3>2. CASE d = L
      <4>1. c \in nodes[n].childs /\ e \in nodes[n].childs
        BY <1>1, <3>2
      <4> QED
        BY <1>8, <2>4, <2>5, <4>1
    <3>3. CASE d \in DOMAIN nodes \ {n}
      <4>1. c \in nodes[d].childs /\ e \in nodes[d].childs
        BY <1>2, <3>3
      <4> QED
        BY <1>8, <2>4, <2>5, <3>3, <4>1
    <3> QED
      BY <1>3, <3>1, <3>2, <3>3
  <2>6. Root \in DOMAIN new
    BY <1>3, <1>7
  <2> QED
    BY <1>1, <2>1, <2>2, <2>3, <2>5, <2>6 DEF Tree
<1>10. \A c \in DOMAIN nodes : spelled[c] \in Seq(Characters)
  BY DEF Spelling
<1>11. spelled[p] \o l \in Seq(Characters) /\ Len(spelled[p] \o l) = Len(spelled[p]) + m
  BY <1>5, <1>6, ConcatProperties
<1>12. newSpelled[n] = spelled[p] \o l /\ newSpelled[L] = spelled[n]
       /\ \A c \in DOMAIN nodes \ {n} : newSpelled[c] = spelled[c]
  BY <1>3, <1>7
<1>13. Spelling(new, newSpelled)
  <2>1. newSpelled \in [DOMAIN new -> Seq(Characters)]
    <3>1. \A c \in DOMAIN new : newSpelled[c] \in Seq(Characters)
      BY <1>3, <1>10, <1>11, <1>12
    <3> QED
      BY <3>1
  <2>2. newSpelled[Root] = <<>>
    BY <1>4, <1>7, <1>12 DEF Spelling
  <2> HIDE DEF newSpelled
  <2>3. ASSUME NEW c \in DOMAIN new \ {Root}
        PROVE  newSpelled[c] = newSpelled[new[c].parent] \o new[c].path
    <3>1. CASE c = n
      BY <1>1, <1>5, <1>12, <3>1
    <3>2. CASE c = L
      BY <1>1, <1>6, <1>12, <3>2
    <3>3. CASE c \in DOMAIN nodes \ {n}
      <4>1. newSpelled[c] = spelled[nodes[c].parent] \o new[c].path
        BY <1>2, <1>12, <2>3, <3>3 DEF Spelling
      <4>2. CASE c \in nodes[n].childs
        <5>1. nodes[c].parent = n /\ new[c].parent = L
          BY <1>2, <1>8, <3>3, <4>2
        <5> QED
          BY <1>12, <4>1, <5>1
      <4>3. CASE c \notin nodes[n].childs
        <5>1. nodes[c].parent \in DOMAIN nodes \ {n} /\ new[c].parent = nodes[c].parent
          BY <1>2, <1>8, <2>3, <3>3, <4>3
        <5> QED
          BY <1>12, <4>1, <5>1
      <4> QED
        BY <4>2, <4>3
    <3> QED
      BY <1>3, <2>3, <3>1, <3>2, <3>3
  <2> QED
    BY <2>1, <2>2, <2>3 DEF Spelling
<1> HIDE DEF newSpelled
<1>14. Moved(nodes, spelled, new, newSpelled, moved)
  <2>1. moved[n] = L /\ \A c \in DOMAIN nodes \ {n} : moved[c] = c
    OBVIOUS
  <2>2. moved \in [DOMAIN nodes -> DOMAIN new]
    BY <1>3
  <2> HIDE DEF moved
  <2>3. \A c, d \in DOMAIN nodes : moved[c] = moved[d] => c = d
    BY <1>3, <2>1
  <2>4. \A c \in DOMAIN nodes :
            new[moved[c]].value = nodes[c].value /\ newSpelled[moved[c]] = spelled[c]
    BY <1>1, <1>2, <1>12, <2>1
  <2>5. \A d \in DOMAIN new : (\A c \in DOMAIN nodes : moved[c] # d) => new[d].value = Null
    BY <1>1, <1>3, <2>1
  <2> QED
    BY <2>2, <2>3, <2>4, <2>5 DEF Moved
<1>15. Len(newSpelled[n]) + Len(nodes[n].path) = Len(spelled[n]) + m
  <2>1. Len(spelled[n]) = Len(spelled[p]) + Len(nodes[n].path)
    BY <1>4, <1>5, ConcatProperties
  <2>2. PICK x \in Nat, y \in Nat : x = Len(spelled[p]) /\ y = Len(nodes[n].path)
    BY <1>4, <1>5
  <2>3. Len(newSpelled[n]) = x + m /\ Len(spelled[n]) = x + y
    BY <1>11, <1>12, <2>1, <2>2
  <2>4. \A a, b, c \in Nat : (a + c) + b = (a + b) + c
    OBVIOUS
  <2>5. (x + m) + y = (x + y) + m
    BY <2>4
  <2> QED
    BY <2>2, <2>3, <2>5
<1>16. BeginsWith(spelled[n], newSpelled[n])
  <2>1. newSpelled[n] \in Seq(Characters)
    BY <1>11, <1>12
  <2>2. spelled[n] = newSpelled[n] \o r
    BY <1>6, <1>12
  <2> QED
    BY <1>6, <2>1, <2>2, Joined
<1>17. ChildsBegin(new, n, nodes[n].path[m + 1])
  BY <1>1, <1>6 DEF ChildsBegin
<1> QED
  BY <1>9, <1>13, <1>14, <1>15, <1>16, <1>17

\* A new child of node n, and the nodes that were there.
Added(forest, n, path, L, new) ==
    /\ new \in Seq(Node) /\ DOMAIN new = 1..L
    /\ new[L].parent = n /\ new[L].path = path /\ new[L].childs = {} /\ new[L].value = Null
    /\ \A c \in DOMAIN forest :
          /\ new[c].path = forest[c].path /\ new[c].parent = forest[c].parent
          /\ new[c].value = forest[c].value
          /\ new[c].childs = IF c = n THEN forest[c].childs \cup {L} ELSE forest[c].childs

LEMMA AddIs ==
    ASSUME NEW forest \in Seq(Node), NEW n \in DOMAIN forest, NEW path \in Seq(Characters),
           NEW new, new = AddChild(forest, n, path), NEW L, L = Len(forest) + 1
    PROVE  Added(forest, n, path, L, new)
<1> DEFINE told == [forest EXCEPT ![n] = [forest[n] EXCEPT !.childs = forest[n].childs \cup {L}]]
           node == [parent |-> n, path |-> path, childs |-> {}, value |-> Null]
<1>1. new = Append(told, node)
  BY DEF AddChild, NewNode
<1>2. L \in Nat /\ DOMAIN forest = 1..Len(forest) /\ n \in 1..Len(forest) /\ n \in Nat
      /\ Len(forest) \in Nat
  OBVIOUS
<1>3. node \in Node
  BY <1>2 DEF Node, Null
<1>4. PICK told_n : told_n = [forest[n] EXCEPT !.childs = forest[n].childs \cup {L}]
  OBVIOUS
<1>5. /\ told_n \in Node /\ told_n.path = forest[n].path /\ told_n.parent = forest[n].parent
      /\ told_n.value = forest[n].value /\ told_n.childs = forest[n].childs \cup {L}
  <2>1. forest[n] \in Node
    OBVIOUS
  <2> QED
    BY <1>2, <1>4, <2>1 DEF Node
<1>6. /\ told \in Seq(Node) /\ Len(told) = Len(forest)
      /\ \A c \in 1..Len(forest) : told[c] = IF c = n THEN told_n ELSE forest[c]
  <2>1. told = [forest EXCEPT ![n] = told_n]
    BY <1>4
  <2> HIDE DEF told
  <2> QED
    BY <1>2, <1>5, <2>1, ExceptSeq
<1> HIDE DEF told
<1>7. /\ new \in Seq(Node) /\ Len(new) = L /\ new[L] = node
      /\ \A c \in 1..Len(forest) : new[c] = told[c]
  <2> HIDE DEF node
  <2> QED
    BY <1>1, <1>3, <1>6, AppendProperties
<1>8. DOMAIN new = 1..L
  BY <1>7
<1>9. \A c \in 1..Len(forest) : new[c] = IF c = n THEN told_n ELSE forest[c]
  BY <1>6, <1>7
<1>10. ASSUME NEW c \in DOMAIN forest
       PROVE  /\ new[c].path = forest[c].path /\ new[c].parent = forest[c].parent
              /\ new[c].value = forest[c].value
              /\ new[c].childs = IF c = n THEN forest[c].childs \cup {L} ELSE forest[c].childs
  BY <1>2, <1>5, <1>9
<1>11. new[L].parent = n /\ new[L].path = path /\ new[L].childs = {} /\ new[L].value = Null
  BY <1>7
<1> HIDE DEF node
<1> QED
  BY <1>7, <1>8, <1>10, <1>11 DEF Added

\* AddChild makes a tree in which each node that there was is found as before.
LEMMA AddTree ==
    ASSUME NEW forest, Tree(forest), NEW spelled, Spelling(forest, spelled),
           NEW n \in DOMAIN forest, NEW path \in Seq(Characters), path # <<>>,
           \A c \in forest[n].childs : forest[c].path[1] # path[1],
           NEW new, new = AddChild(forest, n, path), NEW key, Joins(spelled[n], path, key)
    PROVE  /\ Tree(new) /\ Len(forest) + 1 \in DOMAIN new
           /\ \E newSpelled, moved :
                 /\ Spelling(new, newSpelled) /\ Moved(forest, spelled, new, newSpelled, moved)
                 /\ newSpelled[Len(forest) + 1] = key
<1> DEFINE L == Len(forest) + 1
<1>1. forest \in Seq(Node) /\ DOMAIN forest = 1..Len(forest) /\ Len(forest) \in Nat /\ L \in Nat
  BY DEF Tree
<1> HIDE DEF L
<1>2. Added(forest, n, path, L, new)
  <2>1. forest \in Seq(Node) /\ L = Len(forest) + 1 /\ new = AddChild(forest, n, path)
    BY <1>1 DEF L
  <2> QED
    BY ONLY <2>1, AddIs
<1>3. /\ new \in Seq(Node) /\ DOMAIN new = 1..L
      /\ new[L].parent = n /\ new[L].path = path
      /\ new[L].childs = {} /\ new[L].value = Null
  BY <1>2 DEF Added
<1>4. DOMAIN forest = DOMAIN new \ {L} /\ L \in DOMAIN new
  BY <1>1, <1>3 DEF L
<1>12. \A c \in DOMAIN forest :
          /\ new[c].path = forest[c].path /\ new[c].parent = forest[c].parent
          /\ new[c].value = forest[c].value
          /\ new[c].childs = IF c = n THEN forest[c].childs \cup {L} ELSE forest[c].childs
  BY <1>2 DEF Added
<1>5. Root \in DOMAIN forest /\ L # Root /\ n # L
  BY <1>4 DEF Tree
<1>6. Tree(new)
  <2>1. new[Root].parent = 0 /\ new[Root].path = <<>> /\ Root \in DOMAIN new
    BY <1>12, <1>4, <1>5 DEF Tree
  <2>2. ASSUME NEW c \in DOMAIN new \ {Root}
        PROVE  /\ new[c].path # <<>> /\ new[c].parent \in DOMAIN new
               /\ c \in new[new[c].parent].childs
    <3>1. CASE c = L
      BY <1>3, <1>12, <1>4, <3>1
    <3>2. CASE c # L
      <4>1. c \in DOMAIN forest \ {Root}
        BY <1>4, <2>2, <3>2
      <4>2. /\ forest[c].path # <<>> /\ forest[c].parent \in DOMAIN forest
            /\ c \in forest[forest[c].parent].childs
        BY <4>1 DEF Tree
      <4> QED
        BY <1>12, <1>4, <4>1, <4>2
    <3> QED
      BY <3>1, <3>2
  <2>3. ASSUME NEW d \in DOMAIN new, NEW c \in new[d].childs
        PROVE  c \in DOMAIN new \ {Root} /\ new[c].parent = d
    <3>1. CASE c = L
      <4>1. d \in DOMAIN forest
        BY <1>3, <1>4, <2>3
      <4>2. d = n
        <5>1. L \notin forest[d].childs
          BY <1>4, <4>1 DEF Tree
        <5> QED
          BY <1>12, <2>3, <3>1, <4>1, <5>1
      <4> QED
        BY <1>3, <1>4, <1>5, <3>1, <4>2
    <3>2. CASE c # L
      <4>1. d \in DOMAIN forest
        BY <1>3, <1>4, <2>3
      <4>2. c \in forest[d].childs
        BY <1>12, <2>3, <3>2, <4>1
      <4>3. c \in DOMAIN forest \ {Root} /\ forest[c].parent = d
        BY <4>1, <4>2 DEF Tree
      <4> QED
        BY <1>12, <1>4, <4>3
    <3> QED
      BY <3>1, <3>2
  <2>4. ASSUME NEW d \in DOMAIN new, NEW c \in new[d].childs, NEW e \in new[d].childs,
               new[c].path[1] = new[e].path[1]
        PROVE  c = e
    <3>1. d \in DOMAIN forest
      BY <1>3, <1>4, <2>4
    <3>2. new[d].childs = IF d = n THEN forest[d].childs \cup {L} ELSE forest[d].childs
      BY <1>12, <3>1
    <3>3. \A b \in forest[d].childs : b \in DOMAIN forest /\ new[b].path = forest[b].path
      <4>1. forest[d].childs \subseteq DOMAIN forest
        BY <3>1 DEF Tree
      <4> QED
        BY <1>12, <4>1
    <3>4. \A a, b \in forest[d].childs : forest[a].path[1] = forest[b].path[1] => a = b
      BY <3>1 DEF Tree
    <3>5. CASE c \in forest[d].childs /\ e \in forest[d].childs
      BY <2>4, <3>3, <3>4, <3>5
    <3>6. CASE d = n /\ c = L /\ e \in forest[d].childs
      BY <1>3, <2>4, <3>3, <3>6
    <3>7. CASE d = n /\ e = L /\ c \in forest[d].childs
      BY <1>3, <2>4, <3>3, <3>7
    <3> QED
      BY <2>4, <3>2, <3>5, <3>6, <3>7
  <2> QED
    BY <1>3, <2>1, <2>2, <2>3, <2>4 DEF Tree
<1> DEFINE newSpelled == [c \in DOMAIN new |-> IF c = L THEN key ELSE spelled[c]]
           moved == [c \in DOMAIN forest |-> c]
<1>7. newSpelled[L] = key /\ \A c \in DOMAIN forest : newSpelled[c] = spelled[c]
  BY <1>4
<1>8. key = spelled[n] \o path /\ key \in Seq(Characters)
  <2>1. key = spelled[n] \o path
    BY DEF Joins
  <2>2. spelled[n] \in Seq(Characters)
    BY SpelledEnd
  <2> QED
    BY <2>1, <2>2, ConcatProperties
<1>9. Spelling(new, newSpelled)
  <2>1. \A c \in DOMAIN forest : spelled[c] \in Seq(Characters)
    BY DEF Spelling
  <2>2. newSpelled \in [DOMAIN new -> Seq(Characters)]
    <3>1. \A c \in DOMAIN new : newSpelled[c] \in Seq(Characters)
      BY <1>4, <1>7, <1>8, <2>1
    <3> QED
      BY <3>1
  <2> HIDE DEF newSpelled
  <2>3. newSpelled[Root] = <<>>
    BY <1>5, <1>7 DEF Spelling
  <2>4. ASSUME NEW c \in DOMAIN new \ {Root}
        PROVE  newSpelled[c] = newSpelled[new[c].parent] \o new[c].path
    <3>1. CASE c = L
      BY <1>3, <1>7, <1>8, <3>1
    <3>2. CASE c # L
      <4>1. c \in DOMAIN forest \ {Root}
        BY <1>4, <2>4, <3>2
      <4>2. forest[c].parent \in DOMAIN forest
        BY <4>1 DEF Tree
      <4>3. spelled[c] = spelled[forest[c].parent] \o forest[c].path
        BY <4>1 DEF Spelling
      <4> QED
        BY <1>12, <1>7, <4>1, <4>2, <4>3
    <3> QED
      BY <3>1, <3>2
  <2> QED
    BY <2>2, <2>3, <2>4 DEF Spelling
<1> HIDE DEF newSpelled
<1>10. Moved(forest, spelled, new, newSpelled, moved)
  <2>1. moved \in [DOMAIN forest -> DOMAIN new]
    BY <1>4
  <2>2. \A c \in DOMAIN forest : moved[c] = c
    OBVIOUS
  <2> HIDE DEF moved
  <2>3. \A d \in DOMAIN new : (\A c \in DOMAIN forest : moved[c] # d) => new[d].value = Null
    BY <1>3, <1>4, <2>2
  <2>4. \A c \in DOMAIN forest :
            new[moved[c]].value = forest[c].value /\ newSpelled[moved[c]] = spelled[c]
    BY <1>12, <1>7, <2>2
  <2>5. \A c, d \in DOMAIN forest : moved[c] = moved[d] => c = d
    BY <2>2
  <2> QED
    BY <2>1, <2>3, <2>4, <2>5 DEF Moved
<1> QED
  BY <1>4, <1>6, <1>7, <1>9, <1>10 DEF L

LEMMA MovedNowhere ==
    ASSUME NEW forest, NEW spelled
    PROVE  \E moved : Moved(forest, spelled, forest, spelled, moved)
<1> DEFINE moved == [c \in DOMAIN forest |-> c]
<1>1. moved \in [DOMAIN forest -> DOMAIN forest] /\ \A c \in DOMAIN forest : moved[c] = c
  OBVIOUS
<1> HIDE DEF moved
<1>3. Moved(forest, spelled, forest, spelled, moved)
  BY <1>1 DEF Moved
<1> QED
  BY <1>3

LEMMA MovedTwice ==
    ASSUME NEW f, NEW fs, NEW g, NEW gs, NEW h, NEW hs, NEW first, Moved(f, fs, g, gs, first),
           NEW then, Moved(g, gs, h, hs, then)
    PROVE  \E moved : Moved(f, fs, h, hs, moved)
<1> DEFINE moved == [c \in DOMAIN f |-> then[first[c]]]
<1>1. /\ first \in [DOMAIN f -> DOMAIN g] /\ then \in [DOMAIN g -> DOMAIN h]
      /\ \A c, d \in DOMAIN f : first[c] = first[d] => c = d
      /\ \A c, d \in DOMAIN g : then[c] = then[d] => c = d
  BY DEF Moved
<1>3. moved \in [DOMAIN f -> DOMAIN h] /\ \A c \in DOMAIN f : moved[c] = then[first[c]]
  BY <1>1
<1> HIDE DEF moved
<1>12. \A c, d \in DOMAIN f : moved[c] = moved[d] => c = d
  BY <1>1, <1>3
<1>4. ASSUME NEW c \in DOMAIN f
      PROVE  h[moved[c]].value = f[c].value /\ hs[moved[c]] = fs[c]
  BY <1>1, <1>3 DEF Moved
<1>5. ASSUME NEW d \in DOMAIN h, \A c \in DOMAIN f : moved[c] # d
      PROVE  h[d].value = Null
  <2>1. CASE \A b \in DOMAIN g : then[b] # d
    BY <2>1 DEF Moved
  <2>2. CASE \E b \in DOMAIN g : then[b] = d
    <3>1. PICK b \in DOMAIN g : then[b] = d
      BY <2>2
    <3>2. \A c \in DOMAIN f : first[c] # b
      BY <1>3, <1>5, <3>1
    <3>3. g[b].value = Null /\ h[then[b]].value = g[b].value
      BY <3>2 DEF Moved
    <3> QED
      BY <3>1, <3>3
  <2> QED
    BY <2>1, <2>2
<1>6. Moved(f, fs, h, hs, moved)
  BY <1>3, <1>12, <1>4, <1>5 DEF Moved
<1> QED
  BY <1>6

-----------------------------------------------------------------------------
\* A tree that keeps what there was.
Grown(forest, spelled, new, newSpelled) ==
    /\ Tree(new) /\ Spelling(new, newSpelled)
    /\ \E moved : Moved(forest, spelled, new, newSpelled, moved)

\* Node n of the forest stands for the first i characters of a key, and none of its children
\* for more of them.
Reached(forest, spelled, n, i, key) ==
    /\ n \in DOMAIN forest /\ i \in 0..Len(key) /\ Len(spelled[n]) = i
    /\ Agrees(key, spelled, n, i)
    /\ i < Len(key) => \A c \in forest[n].childs : forest[c].path[1] # key[i + 1]

LEMMA DescentReaches ==
    ASSUME Tree(nodes), NEW spelled, Spelling(nodes, spelled), NEW key \in Seq(Characters),
           NEW e, e = Descent(key), NEW forest,
           forest = IF Whole(e) THEN nodes ELSE Split(e.node, e.matched)
    PROVE  \E newSpelled : /\ Grown(nodes, spelled, forest, newSpelled)
                           /\ Reached(forest, newSpelled, e.node, e.consumed, key)
<1> DEFINE n == e.node
           m == e.matched
           i == e.consumed
<1>1. Ended(key, spelled, e)
  BY DescentEnds
<1>2. /\ n \in DOMAIN nodes /\ m \in 0..Len(nodes[n].path) /\ m \in Nat /\ i \in 0..Len(key)
      /\ Len(key) \in Nat
  BY <1>1 DEF Ended
<1>3. i + Len(nodes[n].path) = Len(spelled[n]) + m /\ Agrees(key, spelled, n, i)
  BY <1>1 DEF Ended
<1>4. (n # Root => m # 0)
      /\ (i < Len(key) /\ m < Len(nodes[n].path) => nodes[n].path[m + 1] # key[i + 1])
      /\ (i < Len(key) /\ Whole(e) => \A c \in nodes[n].childs : nodes[c].path[1] # key[i + 1])
  BY <1>1 DEF Ended
<1>5. Len(nodes[n].path) \in Nat /\ Len(spelled[n]) \in Nat
      /\ ((n = Root) <=> (Len(nodes[n].path) = 0))
  <2> HIDE DEF n
  <2> QED
    BY <1>2, SpelledEnd
<1>6. Whole(e) <=> m = Len(nodes[n].path)
  BY DEF Whole
<1> HIDE DEF n, m, i
<1>7. CASE Whole(e)
  <2>1. forest = nodes
    BY <1>7
  <2>2. Grown(nodes, spelled, nodes, spelled)
    BY MovedNowhere DEF Grown
  <2>3. Len(spelled[n]) = i
    <3>1. PICK x \in Nat, y \in Nat : x = Len(nodes[n].path) /\ y = Len(spelled[n])
      BY <1>5
    <3>2. m = x /\ i + x = y + m /\ i \in Nat
      BY <1>2, <1>3, <1>6, <1>7, <3>1
    <3>3. \A a, b, c \in Nat : a + b = c + b => c = a
      OBVIOUS
    <3> QED
      BY <3>1, <3>2, <3>3
  <2>4. Reached(nodes, spelled, n, i, key)
    BY <1>2, <1>3, <1>4, <1>7, <2>3 DEF Reached
  <2> QED
    BY <2>1, <2>2, <2>4 DEF n, i
<1>8. CASE ~Whole(e)
  <2>1. forest = Split(n, m)
    BY <1>8 DEF n, m
  <2>2. 0 < m /\ m < Len(nodes[n].path)
    <3>1. m # Len(nodes[n].path)
      BY <1>6, <1>8
    <3>2. m # 0
      BY <1>2, <1>4, <1>5, <3>1
    <3> QED
      BY <1>2, <1>5, <3>1, <3>2
  <2>3. Tree(forest) /\ \A c \in forest[n].childs : forest[c].path[1] = nodes[n].path[m + 1]
    <3>1. Tree(nodes) /\ Spelling(nodes, spelled) /\ n \in DOMAIN nodes /\ m \in Nat
      BY <1>2
    <3>2. Tree(forest)
      BY ONLY <2>1, <2>2, <3>1, SplitTree
    <3>3. ChildsBegin(forest, n, nodes[n].path[m + 1])
      BY ONLY <2>1, <2>2, <3>1, SplitTree
    <3> QED
      BY <3>2, <3>3 DEF ChildsBegin
  <2>4. PICK newSpelled :
            /\ Spelling(forest, newSpelled)
            /\ \E moved : Moved(nodes, spelled, forest, newSpelled, moved)
            /\ Len(newSpelled[n]) + Len(nodes[n].path) = Len(spelled[n]) + m
            /\ BeginsWith(spelled[n], newSpelled[n])
    BY <1>2, <2>1, <2>2, SplitTree
  <2>5. Grown(nodes, spelled, forest, newSpelled)
    BY <2>3, <2>4 DEF Grown
  <2>6. n \in DOMAIN forest
    <3>1. DOMAIN forest = 1..Len(nodes) + 1 /\ Len(nodes) \in Nat /\ DOMAIN nodes = 1..Len(nodes)
      <4>1. DOMAIN forest = 1..Len(nodes) + 1
        BY <1>2, <2>1, <2>2, SplitIs
      <4> QED
        BY <4>1 DEF Tree
    <3> QED
      BY <1>2, <3>1
  <2>7. Len(newSpelled[n]) = i
    <3>1. PICK x \in Nat, y \in Nat, z \in Nat :
              x = Len(nodes[n].path) /\ y = Len(spelled[n]) /\ z = Len(newSpelled[n])
      <4>1. Len(newSpelled[n]) \in Nat
        BY <2>3, <2>4, <2>6, SpelledEnd
      <4> QED
        BY <1>5, <4>1
    <3>2. i \in Nat /\ m \in Nat
      BY <1>2
    <3>3. i + x = y + m
      BY <1>3, <3>1
    <3>4. z + x = y + m
      BY <2>4, <3>1
    <3>5. \A a, b, c, d \in Nat : a + b = d /\ c + b = d => c = a
      OBVIOUS
    <3>6. y + m \in Nat
      BY <3>2
    <3>7. z = i
      BY <3>2, <3>3, <3>4, <3>5, <3>6
    <3> QED
      BY <3>1, <3>7
  <2>8. Agrees(key, newSpelled, n, i)
    <3>1. ASSUME NEW j \in 1..i
          PROVE  key[j] = newSpelled[n][j]
      <4>1. key[j] = spelled[n][j]
        BY <1>3, <3>1 DEF Agrees
      <4>2. spelled[n][j] = newSpelled[n][j]
        BY <2>4, <2>7, <3>1 DEF BeginsWith
      <4> QED
        BY <4>1, <4>2
    <3> QED
      BY <3>1 DEF Agrees
  <2>9. i < Len(key) => \A c \in forest[n].childs : forest[c].path[1] # key[i + 1]
    BY <1>4, <2>2, <2>3
  <2>10. Reached(forest, newSpelled, n, i, key)
    BY <1>2, <2>6, <2>7, <2>8, <2>9 DEF Reached
  <2> QED
    BY <2>5, <2>10 DEF n, i
<1> QED
  BY <1>7, <1>8

LEMMA Grows ==
    ASSUME NEW f, NEW fs, NEW g, NEW gs, NEW h, NEW hs,
           Grown(f, fs, g, gs), Grown(g, gs, h, hs)
    PROVE  Grown(f, fs, h, hs)
<1>1. PICK first : Moved(f, fs, g, gs, first)
  BY DEF Grown
<1>2. PICK then : Moved(g, gs, h, hs, then)
  BY DEF Grown
<1>3. \E moved : Moved(f, fs, h, hs, moved)
  BY <1>1, <1>2, MovedTwice
<1> QED
  BY <1>3 DEF Grown

\* Create finds or makes the node that stands for a key, and keeps what there was.
LEMMA CreateTree ==
    ASSUME Tree(nodes), NEW spelled, Spelling(nodes, spelled), NEW key \in Seq(Characters),
           NEW c, c = Create(key)
    PROVE  /\ c.node \in DOMAIN c.nodes
           /\ \E newSpelled : Grown(nodes, spelled, c.nodes, newSpelled) /\ newSpelled[c.node] = key
<1> DEFINE e == Descent(key)
           n == e.node
           i == e.consumed
           forest == IF Whole(e) THEN nodes ELSE Split(e.node, e.matched)
           rest == SubSeq(key, i + 1, Len(key))
           L == Len(forest) + 1
<1>1. /\ i = Len(key) => c = [nodes |-> forest, node |-> n]
      /\ i # Len(key) => c = [nodes |-> AddChild(forest, n, rest), node |-> L]
  BY DEF Create
<1>2. PICK s : Grown(nodes, spelled, forest, s) /\ Reached(forest, s, n, i, key)
  <2> HIDE DEF e
  <2>1. e = Descent(key)
    BY DEF e
  <2> QED
    BY <2>1, DescentReaches
<1> HIDE DEF e, n, i, forest
<1>3. /\ n \in DOMAIN forest /\ i \in 0..Len(key) /\ Len(s[n]) = i /\ Tree(forest)
      /\ Spelling(forest, s)
  BY <1>2 DEF Reached, Grown
<1>4. s[n] \in Seq(Characters) /\ \A j \in 1..i : s[n][j] = key[j]
  <2>1. s[n] \in Seq(Characters)
    BY <1>3, SpelledEnd
  <2> QED
    BY <1>2, <2>1 DEF Reached, Agrees
<1>5. CASE i = Len(key)
  <2>1. s[n] = key
    BY <1>3, <1>4, <1>5, SeqEqual
  <2> QED
    BY <1>1, <1>2, <1>3, <1>5, <2>1
<1>6. CASE i # Len(key)
  <2>1. i < Len(key) /\ i \in Nat /\ Len(key) \in Nat
    BY <1>3, <1>6
  <2>2. PICK l : Divides(i, key, l, rest)
    BY DEF Divides
  <2>3. /\ Joins(l, rest, key) /\ l \in Seq(Characters) /\ rest \in Seq(Characters) /\ Len(l) = i
        /\ rest # <<>> /\ rest[1] = key[i + 1] /\ BeginsWith(key, l)
    <3>1. i \in 0..Len(key) /\ i # Len(key)
      BY <1>3, <1>6
    <3> HIDE DEF rest
    <3> QED
      BY ONLY <2>2, <3>1, Divided
  <2>4. l = s[n]
    <3>1. Len(l) = Len(s[n]) /\ \A j \in 1..Len(l) : l[j] = s[n][j]
      BY <1>3, <1>4, <2>3 DEF BeginsWith
    <3> QED
      BY <1>4, <2>3, <3>1, SeqEqual
  <2>5. PICK new : new = AddChild(forest, n, rest)
    OBVIOUS
  <2> HIDE DEF rest
  <2>6. \A d \in forest[n].childs : forest[d].path[1] # rest[1]
    BY <1>2, <2>1, <2>3 DEF Reached
  <2>7. Tree(new) /\ L \in DOMAIN new
    BY <1>3, <2>3, <2>4, <2>5, <2>6, AddTree
  <2>11. Tree(forest) /\ Spelling(forest, s) /\ n \in DOMAIN forest /\ rest \in Seq(Characters)
         /\ rest # <<>> /\ Joins(s[n], rest, key)
    BY <1>3, <2>3, <2>4
  <2>8. PICK newSpelled, moved :
            /\ Spelling(new, newSpelled) /\ Moved(forest, s, new, newSpelled, moved)
            /\ newSpelled[L] = key
    BY ONLY <2>5, <2>6, <2>11, AddTree
  <2>9. Grown(nodes, spelled, new, newSpelled)
    <3>1. Grown(forest, s, new, newSpelled)
      BY <2>7, <2>8 DEF Grown
    <3> QED
      BY <1>2, <3>1, Grows
  <2>10. c.nodes = new /\ c.node = L
    BY <1>1, <1>6, <2>5
  <2> QED
    BY <2>7, <2>8, <2>9, <2>10
<1> QED
  BY <1>5, <1>6

-----------------------------------------------------------------------------
\* There is an element with n - 1 others above it in a set that has n.
LEMMA NthFromLast ==
    ASSUME NEW l \in Nat, NEW S \in SUBSET (1..l), NEW n \in Nat, n # 0, ~(Cardinality(S) < n)
    PROVE  \E i \in S : Cardinality({j \in S : j >= i}) = n
<1> DEFINE From(k) == {j \in S : j >= k}
           Few == {k \in Nat : Cardinality(From(k)) < n}
<1>1. IsFiniteSet(S)
  <2>1. IsFiniteSet(1..l)
    BY FS_Interval
  <2> QED
    BY <2>1, FS_Subset
<1>2. \A k \in Nat : IsFiniteSet(From(k)) /\ Cardinality(From(k)) \in Nat
  <2>1. \A k \in Nat : From(k) \in SUBSET S
    OBVIOUS
  <2> HIDE DEF From
  <2> QED
    BY <1>1, <2>1, FS_Subset, FS_CardinalityType
<1>3. From(0) = S /\ From(l + 1) = {}
  <2>1. \A j \in S : j >= 0 /\ ~(j >= l + 1)
    OBVIOUS
  <2>2. From(0) = S
    BY <2>1
  <2>3. From(l + 1) = {}
    BY <2>1
  <2> QED
    BY <2>2, <2>3
<1> HIDE DEF From
<1>4. l + 1 \in Few /\ 0 \notin Few
  <2>1. Cardinality(From(l + 1)) = 0
    BY <1>3, FS_EmptySet
  <2> QED
    BY <1>3, <2>1
<1>5. PICK k \in Few : \A x \in Few : k <= x
  <2>1. Few \in SUBSET Nat /\ Few # {}
    BY <1>4
  <2> HIDE DEF Few
  <2> QED
    BY <2>1, LeastExists
<1>6. k \in Nat /\ k # 0 /\ k - 1 \in Nat /\ Cardinality(From(k)) < n
  BY <1>4, <1>5
<1>7. ~(Cardinality(From(k - 1)) < n)
  <2>1. ~(k <= k - 1)
    BY <1>6
  <2> QED
    BY <1>5, <1>6, <2>1
<1>8. From(k - 1) \ {k - 1} = From(k)
  <2>1. \A j \in S : j >= k - 1 /\ j # k - 1 <=> j >= k
    BY <1>6
  <2> QED
    BY <2>1 DEF From
<1>9. Cardinality(From(k)) = IF k - 1 \in From(k - 1) THEN Cardinality(From(k - 1)) - 1
                                                     ELSE Cardinality(From(k - 1))
  BY <1>2, <1>6, <1>8, FS_RemoveElement
<1>10. k - 1 \in From(k - 1) /\ Cardinality(From(k - 1)) = n
  <2>1. PICK a \in Nat, b \in Nat : a = Cardinality(From(k - 1)) /\ b = Cardinality(From(k))
    BY <1>2, <1>6
  <2>2. k - 1 \in From(k - 1)
    BY <1>6, <1>7, <1>9
  <2>3. b = a - 1 /\ b < n /\ ~(a < n)
    BY <1>6, <1>7, <1>9, <2>1, <2>2
  <2>4. a = n
    BY <2>3
  <2> QED
    BY <2>1, <2>2, <2>4
<1> QED
  BY <1>10 DEF From

\* What is left of a path.
LEMMA CutIs ==
    ASSUME NEW path \in Seq(Characters), NEW n \in Nat
    PROVE  Cut(path, n) \in Seq(Characters)
<1> DEFINE slashes == {i \in DOMAIN path : path[i] = "/"}
           at == CHOOSE i \in slashes : Cardinality({j \in slashes : j >= i}) = n
<1>1. CASE n = 0
  BY <1>1 DEF Cut
<1>2. CASE n # 0 /\ Cardinality(slashes) < n
  BY <1>2 DEF Cut
<1>3. CASE n # 0 /\ ~(Cardinality(slashes) < n)
  <2>1. slashes \in SUBSET (1..Len(path)) /\ Len(path) \in Nat
    OBVIOUS
  <2>2. at \in slashes
    <3> HIDE DEF slashes
    <3>1. \E i \in slashes : Cardinality({j \in slashes : j >= i}) = n
      BY <1>3, <2>1, NthFromLast
    <3> QED
      BY <3>1
  <2>3. Cut(path, n) = SubSeq(path, 1, at - 1)
    BY <1>3 DEF Cut
  <2> HIDE DEF at
  <2>4. at \in 1..Len(path)
    BY <2>1, <2>2
  <2>5. at - 1 \in Int /\ \A j \in 1..at - 1 : path[j] \in Characters
    BY <2>4
  <2> QED
    BY <2>3, <2>5, SubSeqProperties
<1> QED
  BY <1>1, <1>2, <1>3

\* Keys are sequences of characters.
LEMMA KeyIs ==
    ASSUME NEW p \in Places, NEW s \in CodeScopes, NEW n \in Levels(s)
    PROVE  Key(p, s, n) \in Seq(Characters)
<1>1. p.path \in Seq(Characters) /\ p.file \in Seq(Characters) /\ p.method \in Seq(Characters)
  BY PlaceAssumption
<1>2. <<"/">> \in Seq(Characters) /\ <<"#">> \in Seq(Characters)
  <2>1. \A S : \A c \in S : <<c>> \in Seq(S)
    OBVIOUS
  <2>2. "/" \in Characters /\ "#" \in Characters
    BY PlaceAssumption
  <2> QED
    BY <2>1, <2>2
<1>3. CASE s = "Path"
  <2>1. n \in Nat
    BY <1>3, LimitsAssumption DEF Levels
  <2>2. Cut(p.path, n) \in Seq(Characters)
    BY <1>1, <2>1, CutIs
  <2>3. Key(p, s, n) = Cut(p.path, n) \o <<"/">>
    BY <1>3 DEF Key
  <2> QED
    BY <1>2, <2>2, <2>3, ConcatProperties
<1>4. CASE s # "Path"
  <2>1. PICK x \in Seq(Characters) : x = p.path \o <<"/">>
    BY <1>1, <1>2, ConcatProperties
  <2>2. PICK y \in Seq(Characters) : y = x \o p.file
    BY <1>1, ConcatProperties
  <2>3. PICK z \in Seq(Characters) : z = y \o <<"#">>
    BY <1>2, ConcatProperties
  <2>4. z \o p.method \in Seq(Characters)
    BY <1>1, ConcatProperties
  <2>5. (z \o p.method) \o <<"#">> \in Seq(Characters)
    BY <1>2, <2>4, ConcatProperties
  <2>6. CASE s = "Filename"
    BY <2>1, <2>2, <2>3, <2>6 DEF Key
  <2>7. CASE s = "Method"
    BY <2>1, <2>2, <2>3, <2>5, <2>7 DEF Key
  <2> QED
    BY <1>4, <2>6, <2>7 DEF CodeScopes
<1> QED
  BY <1>3, <1>4

-----------------------------------------------------------------------------
\* The values of the nodes. Each is that of one node.
NodeObjects(forest) == {forest[n].value : n \in DOMAIN forest} \ {Null}

NodesOnce(forest) ==
    \A m, n \in DOMAIN forest : forest[m].value = forest[n].value /\ forest[m].value # Null => m = n

\* In a set of objects that are somewhere, one may go and a new one may come.
Exchanged(objects, old, new, after) == after = (objects \ {old}) \cup ({new} \ {Null})

LEMMA MovedObjects ==
    ASSUME NEW f, NEW fs, NEW g, NEW gs, Grown(f, fs, g, gs), NodesOnce(f)
    PROVE  NodesOnce(g) /\ NodeObjects(g) = NodeObjects(f)
<1>1. PICK moved : Moved(f, fs, g, gs, moved)
  BY DEF Grown
<1>2. ASSUME NEW n \in DOMAIN g, g[n].value # Null
      PROVE  \E c \in DOMAIN f : moved[c] = n /\ f[c].value = g[n].value
  <2>1. PICK c \in DOMAIN f : moved[c] = n
    BY <1>1, <1>2 DEF Moved
  <2> QED
    BY <1>1, <2>1 DEF Moved
<1>3. \A c \in DOMAIN f : moved[c] \in DOMAIN g /\ g[moved[c]].value = f[c].value
  BY <1>1 DEF Moved
<1>4. NodesOnce(g)
  <2>1. ASSUME NEW m \in DOMAIN g, NEW n \in DOMAIN g, g[m].value = g[n].value, g[m].value # Null
        PROVE  m = n
    <3>1. PICK c \in DOMAIN f : moved[c] = m /\ f[c].value = g[m].value
      BY <1>2, <2>1
    <3>2. PICK d \in DOMAIN f : moved[d] = n /\ f[d].value = g[n].value
      BY <1>2, <2>1
    <3>3. c = d
      BY <2>1, <3>1, <3>2 DEF NodesOnce
    <3> QED
      BY <3>1, <3>2, <3>3
  <2> QED
    BY <2>1 DEF NodesOnce
<1>5. NodeObjects(g) \subseteq NodeObjects(f)
  BY <1>2 DEF NodeObjects
<1>6. NodeObjects(f) \subseteq NodeObjects(g)
  BY <1>3 DEF NodeObjects
<1> QED
  BY <1>4, <1>5, <1>6

\* The value of one node is changed.
LEMMA ValueSet ==
    ASSUME NEW forest, Tree(forest), NEW spelled, Spelling(forest, spelled), NodesOnce(forest),
           NEW n \in DOMAIN forest, NEW new \in Nat, new \notin NodeObjects(forest),
           NEW after, after = [forest EXCEPT ![n].value = new]
    PROVE  /\ Tree(after) /\ Spelling(after, spelled) /\ NodesOnce(after)
           /\ Exchanged(NodeObjects(forest), forest[n].value, new, NodeObjects(after))
<1>1. forest \in Seq(Node) /\ DOMAIN forest = 1..Len(forest) /\ Len(forest) \in Nat
  BY DEF Tree
<1>2. PICK node : node = [forest[n] EXCEPT !.value = new]
  OBVIOUS
<1>3. /\ node \in Node /\ node.path = forest[n].path /\ node.parent = forest[n].parent
      /\ node.childs = forest[n].childs /\ node.value = new
  <2>1. forest[n] \in Node
    BY <1>1
  <2> QED
    BY <1>2, <2>1 DEF Node
<1>4. after = [forest EXCEPT ![n] = node]
  BY <1>2
<1>5. after \in Seq(Node) /\ DOMAIN after = DOMAIN forest
      /\ after[n] = node /\ \A c \in DOMAIN forest : c # n => after[c] = forest[c]
  <2>1. n \in 1..Len(forest)
    BY <1>1
  <2>2. /\ after \in Seq(Node) /\ Len(after) = Len(forest)
        /\ \A c \in 1..Len(forest) : after[c] = IF c = n THEN node ELSE forest[c]
    BY <1>1, <1>3, <1>4, <2>1, ExceptSeq
  <2> QED
    BY <1>1, <2>2
<1>6. \A c \in DOMAIN forest : /\ after[c].path = forest[c].path
                               /\ after[c].parent = forest[c].parent
                               /\ after[c].childs = forest[c].childs
  BY <1>3, <1>5
<1>7. Tree(after)
  <2>1. Root \in DOMAIN after /\ after[Root].parent = 0 /\ after[Root].path = <<>>
    BY <1>5, <1>6 DEF Tree
  <2>2. \A c \in DOMAIN after \ {Root} :
            /\ after[c].path # <<>> /\ after[c].parent \in DOMAIN after
            /\ c \in after[after[c].parent].childs
    BY <1>5, <1>6 DEF Tree
  <2>3. ASSUME NEW d \in DOMAIN after, NEW c \in after[d].childs
        PROVE  c \in DOMAIN after \ {Root} /\ after[c].parent = d
    BY <1>5, <1>6 DEF Tree
  <2>4. ASSUME NEW d \in DOMAIN after, NEW b \in after[d].childs, NEW c \in after[d].childs,
               after[b].path[1] = after[c].path[1]
        PROVE  b = c
    <3>1. d \in DOMAIN forest /\ b \in forest[d].childs /\ c \in forest[d].childs
      BY <1>5, <1>6
    <3>2. b \in DOMAIN forest /\ c \in DOMAIN forest
      BY <3>1 DEF Tree
    <3>3. forest[b].path[1] = forest[c].path[1]
      BY <1>6, <2>4, <3>2
    <3> QED
      BY <3>1, <3>3 DEF Tree
  <2>5. after \in Seq(Node) /\ Root \in DOMAIN after
    BY <1>5 DEF Tree
  <2> QED
    BY ONLY <2>1, <2>2, <2>3, <2>4, <2>5 DEF Tree
<1>8. Spelling(after, spelled)
  <2>1. /\ spelled \in [DOMAIN forest -> Seq(Characters)] /\ spelled[Root] = <<>>
        /\ \A c \in DOMAIN forest \ {Root} : spelled[c] = spelled[forest[c].parent] \o forest[c].path
    BY DEF Spelling
  <2>2. ASSUME NEW c \in DOMAIN after \ {Root}
        PROVE  spelled[c] = spelled[after[c].parent] \o after[c].path
    <3>1. c \in DOMAIN forest \ {Root} /\ after[c].parent = forest[c].parent
          /\ after[c].path = forest[c].path
      BY <1>5, <1>6
    <3>2. spelled[c] = spelled[forest[c].parent] \o forest[c].path
      BY <2>1, <3>1
    <3> QED
      BY <3>1, <3>2
  <2> QED
    BY <1>5, <2>1, <2>2 DEF Spelling
<1>9. after[n].value = new /\ \A c \in DOMAIN forest : c # n => after[c].value = forest[c].value
  BY <1>3, <1>5
<1>10. \A c \in DOMAIN forest : forest[c].value = Null \/ forest[c].value # new
  BY DEF NodeObjects
<1>11. NodesOnce(after)
  <2>1. ASSUME NEW b \in DOMAIN forest, NEW c \in DOMAIN forest,
               after[b].value = after[c].value, after[b].value # Null
        PROVE  b = c
    <3>1. CASE b = n
      BY <1>9, <1>10, <2>1, <3>1
    <3>2. CASE c = n
      BY <1>9, <1>10, <2>1, <3>2
    <3>3. CASE b # n /\ c # n
      BY <1>9, <2>1, <3>3 DEF NodesOnce
    <3> QED
      BY <3>1, <3>2, <3>3
  <2> QED
    BY <1>5, <2>1 DEF NodesOnce
<1>12. Exchanged(NodeObjects(forest), forest[n].value, new, NodeObjects(after))
  <2>1. ASSUME NEW o \in NodeObjects(after)
        PROVE  o \in (NodeObjects(forest) \ {forest[n].value}) \cup ({new} \ {Null})
    <3>1. PICK c \in DOMAIN forest : after[c].value = o /\ o # Null
      BY <1>5 DEF NodeObjects
    <3>2. CASE c = n
      BY <1>9, <3>1, <3>2
    <3>3. CASE c # n
      <4>1. forest[c].value = o
        BY <1>9, <3>1, <3>3
      <4>2. o # forest[n].value
        BY <3>1, <3>3, <4>1 DEF NodesOnce
      <4> QED
        BY <3>1, <4>1, <4>2 DEF NodeObjects
    <3> QED
      BY <3>2, <3>3
  <2>2. ASSUME NEW o \in (NodeObjects(forest) \ {forest[n].value}) \cup ({new} \ {Null})
        PROVE  o \in NodeObjects(after)
    <3>1. CASE o = new /\ o # Null
      BY <1>5, <1>9, <3>1 DEF NodeObjects
    <3>2. CASE o \in NodeObjects(forest) /\ o # forest[n].value
      <4>1. PICK c \in DOMAIN forest : forest[c].value = o /\ o # Null
        BY <3>2 DEF NodeObjects
      <4>2. c # n
        BY <3>2, <4>1
      <4> QED
        BY <1>5, <1>9, <4>1, <4>2 DEF NodeObjects
    <3> QED
      BY <2>2, <3>1, <3>2
  <2> QED
    BY <2>1, <2>2 DEF Exchanged
<1> QED
  BY <1>7, <1>8, <1>11, <1>12

-----------------------------------------------------------------------------
NoRepeats(list) == \A i, j \in DOMAIN list : list[i] = list[j] => i = j

\* A list with a value more at its end.
LEMMA AppendedList ==
    ASSUME NEW S, NEW list \in Seq(S), NoRepeats(list), NEW new \in S, new \notin ToSet(list),
           new # Null, Null \notin ToSet(list), NEW after, after = Append(list, new)
    PROVE  /\ after \in Seq(S) /\ Len(after) <= Len(list) + 1 /\ NoRepeats(after)
           /\ Exchanged(ToSet(list), Null, new, ToSet(after))
<1>1. PICK l \in Nat : l = Len(list) /\ DOMAIN list = 1..l
  OBVIOUS
<1>2. /\ after \in Seq(S) /\ Len(after) = l + 1 /\ after[l + 1] = new
      /\ \A i \in 1..l : after[i] = list[i]
  BY <1>1, AppendProperties
<1>3. DOMAIN after = DOMAIN list \cup {l + 1} /\ l + 1 \notin DOMAIN list
  BY <1>1, <1>2
<1>4. \A i \in DOMAIN list : after[i] = list[i] /\ list[i] # new
  BY <1>1, <1>2 DEF ToSet
<1>5. NoRepeats(after)
  BY <1>2, <1>3, <1>4 DEF NoRepeats
<1>6. ToSet(after) = ToSet(list) \cup {new}
  BY <1>2, <1>3, <1>4 DEF ToSet
<1>7. Exchanged(ToSet(list), Null, new, ToSet(after))
  BY <1>6 DEF Exchanged
<1> QED
  BY <1>1, <1>2, <1>5, <1>7

\* A list with a value less.
LEMMA RemovedFromList ==
    ASSUME NEW S, NEW list \in Seq(S), NoRepeats(list), NEW h \in DOMAIN list,
           NEW after, after = RemoveAt(list, h)
    PROVE  /\ after \in Seq(S) /\ Len(after) <= Len(list) /\ NoRepeats(after)
           /\ Exchanged(ToSet(list), list[h], Null, ToSet(after))
<1>1. PICK l \in Nat : l = Len(list) /\ DOMAIN list = 1..l /\ h \in 1..l
  OBVIOUS
<1>2. PICK a \in Seq(S), b \in Seq(S) :
          /\ after = a \o b /\ Len(a) = h - 1 /\ Len(b) = l - h
          /\ \A i \in 1..h - 1 : a[i] = list[i]
          /\ \A i \in 1..l - h : b[i] = list[h + i]
  <2>1. after = SubSeq(list, 1, h - 1) \o SubSeq(list, h + 1, l)
    BY <1>1 DEF RemoveAt
  <2>2. \A i \in 1..l : list[i] \in S
    BY <1>1
  <2>3. h - 1 \in Int /\ h + 1 \in Int /\ 1 \in Int /\ l \in Int
        /\ (\A i \in 1..h - 1 : i \in 1..l) /\ (\A i \in h + 1..l : i \in 1..l)
    BY <1>1
  <2>4. PICK a : a = SubSeq(list, 1, h - 1)
    OBVIOUS
  <2>5. PICK b : b = SubSeq(list, h + 1, l)
    OBVIOUS
  <2>6. /\ a \in Seq(S) /\ Len(a) = (IF 1 <= h - 1 THEN (h - 1) - 1 + 1 ELSE 0)
        /\ \A i \in 1..(h - 1) - 1 + 1 : a[i] = list[1 + i - 1]
    BY <2>2, <2>3, <2>4, SubSeqProperties
  <2>7. /\ b \in Seq(S) /\ Len(b) = (IF h + 1 <= l THEN l - (h + 1) + 1 ELSE 0)
        /\ \A i \in 1..l - (h + 1) + 1 : b[i] = list[(h + 1) + i - 1]
    BY <2>2, <2>3, <2>5, SubSeqProperties
  <2>8. Len(a) = h - 1 /\ \A i \in 1..h - 1 : a[i] = list[i]
    <3>1. \A i \in 1..h - 1 : i \in 1..(h - 1) - 1 + 1 /\ 1 + i - 1 = i
      BY <1>1
    <3> QED
      BY <1>1, <2>6, <3>1
  <2>9. Len(b) = l - h /\ \A i \in 1..l - h : b[i] = list[h + i]
    <3>1. \A i \in 1..l - h : i \in 1..l - (h + 1) + 1 /\ (h + 1) + i - 1 = h + i
      BY <1>1
    <3> QED
      BY <1>1, <2>7, <3>1
  <2> QED
    BY <2>1, <2>4, <2>5, <2>6, <2>7, <2>8, <2>9
<1>3. /\ after \in Seq(S) /\ Len(after) = l - 1
      /\ \A i \in 1..l - 1 : after[i] = IF i < h THEN list[i] ELSE list[i + 1]
  <2>1. PICK x \in Nat, y \in Nat : x = Len(a) /\ y = Len(b)
    OBVIOUS
  <2>2. /\ after \in Seq(S) /\ Len(after) = x + y
        /\ \A i \in 1..x + y : after[i] = IF i <= x THEN a[i] ELSE b[i - x]
    <3>1. after = a \o b
      BY <1>2
    <3> QED
      BY <2>1, <3>1, Concatenated
  <2>3. h \in 1..l /\ x = h - 1 /\ y = l - h /\ x + y = l - 1
    <3>1. h \in 1..l
      BY <1>1
    <3>2. x = h - 1 /\ y = l - h
      BY <1>2, <2>1
    <3> QED
      BY <3>1, <3>2
  <2>4. ASSUME NEW i \in 1..l - 1
        PROVE  after[i] = IF i < h THEN list[i] ELSE list[i + 1]
    <3>1. CASE i < h
      <4>1. i \in 1..h - 1 /\ i <= x /\ i \in 1..x + y
        <5>1. \A j \in 1..l - 1 : j < h => j \in 1..h - 1
          BY <2>3
        <5>2. i \in 1..h - 1
          BY <3>1, <5>1
        <5>3. \A j \in 1..h - 1 : j <= x /\ j \in 1..x + y
          BY <2>3
        <5> QED
          BY <5>2, <5>3
      <4> QED
        BY <1>2, <2>2, <3>1, <4>1
    <3>2. CASE ~(i < h)
      <4>1. i \in Nat /\ h \in Nat /\ x = h - 1
        BY <2>3
      <4>2. i - x \in 1..l - h /\ ~(i <= x)
        <5>1. \A g \in 1..l, j \in 1..l - 1 :
                 ~(j < g) => j - (g - 1) \in 1..l - g /\ ~(j <= g - 1)
          OBVIOUS
        <5>2. i - (h - 1) \in 1..l - h /\ ~(i <= h - 1)
          BY <2>3, <3>2, <5>1
        <5> QED
          BY <4>1, <5>2
      <4>3. h + (i - x) = i + 1
        BY <4>1
      <4>4. i \in 1..x + y
        BY <2>3, <4>1
      <4>5. after[i] = b[i - x]
        BY <2>2, <4>2, <4>4
      <4>6. b[i - x] = list[h + (i - x)]
        BY <1>2, <4>2
      <4> QED
        BY <3>2, <4>3, <4>5, <4>6
    <3> QED
      BY <3>1, <3>2
  <2> QED
    BY <2>2, <2>3, <2>4
<1>4. DOMAIN after = 1..l - 1
  BY <1>1, <1>3
<1> DEFINE at(i) == IF i < h THEN i ELSE i + 1
<1>5. /\ \A i \in 1..l - 1 : after[i] = list[at(i)] /\ at(i) \in 1..l /\ at(i) # h
      /\ \A i, j \in 1..l - 1 : at(i) = at(j) => i = j
      /\ \A j \in 1..l : j # h => \E i \in 1..l - 1 : at(i) = j
  <2>1. \A i \in 1..l - 1 : after[i] = list[at(i)]
    BY <1>3
  <2>2. \A i \in 1..l - 1 : at(i) \in 1..l /\ at(i) # h
    BY <1>1
  <2>3. \A i, j \in 1..l - 1 : at(i) = at(j) => i = j
    BY <1>1
  <2>4. ASSUME NEW j \in 1..l, j # h
        PROVE  \E i \in 1..l - 1 : at(i) = j
    <3>1. CASE j < h
      <4>1. j \in 1..l - 1 /\ at(j) = j
        BY <1>1, <3>1
      <4> QED
        BY <4>1
    <3>2. CASE ~(j < h)
      <4>1. j - 1 \in 1..l - 1 /\ at(j - 1) = j
        BY <1>1, <2>4, <3>2
      <4> QED
        BY <4>1
    <3> QED
      BY <3>1, <3>2
  <2> HIDE DEF at
  <2> QED
    BY <2>1, <2>2, <2>3, <2>4
<1> HIDE DEF at
<1>6. NoRepeats(after)
  <2>1. ASSUME NEW i \in 1..l - 1, NEW j \in 1..l - 1, after[i] = after[j]
        PROVE  i = j
    <3>1. list[at(i)] = list[at(j)] /\ at(i) \in DOMAIN list /\ at(j) \in DOMAIN list
      BY <1>1, <1>5, <2>1
    <3>2. at(i) = at(j)
      BY <3>1 DEF NoRepeats
    <3> QED
      BY <1>5, <3>2
  <2> QED
    BY <1>4, <2>1 DEF NoRepeats
<1>7. Exchanged(ToSet(list), list[h], Null, ToSet(after))
  <2>1. ASSUME NEW o \in ToSet(after)
        PROVE  o \in ToSet(list) \ {list[h]}
    <3>1. PICK i \in 1..l - 1 : o = list[at(i)]
      <4>1. PICK i \in DOMAIN after : o = after[i]
        BY DEF ToSet
      <4>2. i \in 1..l - 1
        BY <1>4, <4>1
      <4> QED
        BY <1>5, <4>1, <4>2
    <3>2. at(i) \in DOMAIN list /\ at(i) # h
      BY <1>1, <1>5
    <3> QED
      BY <3>1, <3>2 DEF ToSet, NoRepeats
  <2>2. ASSUME NEW o \in ToSet(list) \ {list[h]}
        PROVE  o \in ToSet(after)
    <3>1. PICK j \in 1..l : o = list[j] /\ j # h
      BY <1>1 DEF ToSet
    <3>2. PICK i \in 1..l - 1 : at(i) = j
      BY <1>5, <3>1
    <3> QED
      BY <1>4, <1>5, <3>1, <3>2 DEF ToSet
  <2> QED
    BY <2>1, <2>2 DEF Exchanged
<1>8. l - 1 <= l
  BY <1>1
<1> QED
  BY <1>1, <1>3, <1>6, <1>7, <1>8

\* A list without its last value.
LEMMA FrontOfList ==
    ASSUME NEW S, NEW list \in Seq(S), NoRepeats(list), list # <<>>, NEW after, after = Front(list)
    PROVE  /\ after \in Seq(S) /\ Len(after) <= Len(list) /\ NoRepeats(after)
           /\ Exchanged(ToSet(list), Last(list), Null, ToSet(after))
<1>1. PICK l \in Nat : l = Len(list) /\ DOMAIN list = 1..l /\ l \in DOMAIN list
  <2>1. Len(list) \in Nat \ {0}
    BY EmptySeq
  <2> QED
    BY <2>1
<1>2. \A i \in 1..l : list[i] \in S
  BY <1>1
<1>3. /\ after \in Seq(S) /\ Len(after) = l - 1 /\ \A i \in 1..l - 1 : after[i] = list[i]
  <2>1. after = SubSeq(list, 1, l - 1)
    BY <1>1 DEF Front
  <2>2. l - 1 \in Int /\ 1 \in Int /\ \A i \in 1..l - 1 : i \in 1..l
    BY <1>1
  <2>3. /\ after \in Seq(S) /\ Len(after) = (IF 1 <= l - 1 THEN (l - 1) - 1 + 1 ELSE 0)
        /\ \A i \in 1..(l - 1) - 1 + 1 : after[i] = list[1 + i - 1]
    BY <1>2, <2>1, <2>2, SubSeqProperties
  <2>4. \A i \in 1..l - 1 : i \in 1..(l - 1) - 1 + 1 /\ 1 + i - 1 = i
    BY <1>1
  <2> QED
    BY <1>1, <2>3, <2>4
<1>4. DOMAIN after = DOMAIN list \ {l} /\ \A i \in DOMAIN after : after[i] = list[i]
  <2>1. DOMAIN after = 1..l - 1
    BY <1>1, <1>3
  <2>2. 1..l - 1 = (1..l) \ {l}
    BY <1>1
  <2> QED
    BY <1>1, <1>3, <2>1, <2>2
<1>5. NoRepeats(after)
  BY <1>4 DEF NoRepeats
<1>6. Last(list) = list[l]
  BY <1>1 DEF Last
<1>7. ToSet(after) = ToSet(list) \ {list[l]}
  BY <1>1, <1>4 DEF ToSet, NoRepeats
<1>8. Exchanged(ToSet(list), Last(list), Null, ToSet(after))
  BY <1>6, <1>7 DEF Exchanged
<1>9. l - 1 <= l
  BY <1>1
<1> QED
  BY <1>1, <1>3, <1>5, <1>8, <1>9

-----------------------------------------------------------------------------
ThreadLists == [ThreadScopes -> [Threads -> Seq(Nat)]]

ThreadObjects(lists) == UNION {ToSet(lists[s][t]) : s \in ThreadScopes, t \in Threads}

ThreadsOnce(lists) ==
    /\ \A s \in ThreadScopes, t \in Threads : NoRepeats(lists[s][t])
    /\ \A s, r \in ThreadScopes, t, u \in Threads :
          \A o \in ToSet(lists[s][t]) : o \in ToSet(lists[r][u]) => s = r /\ t = u

\* The list of one thread is changed.
LEMMA ListSet ==
    ASSUME NEW lists \in ThreadLists, ThreadsOnce(lists), NEW s \in ThreadScopes, NEW t \in Threads,
           NEW list \in Seq(Nat), NoRepeats(list), NEW old, NEW new,
           old \in ToSet(lists[s][t]) \cup {Null}, new = Null \/ new \notin ThreadObjects(lists),
           Null \notin ThreadObjects(lists),
           Exchanged(ToSet(lists[s][t]), old, new, ToSet(list)),
           NEW after, after = [lists EXCEPT ![s][t] = list]
    PROVE  /\ after \in ThreadLists /\ ThreadsOnce(after)
           /\ Exchanged(ThreadObjects(lists), old, new, ThreadObjects(after))
<1>1. /\ after \in ThreadLists /\ after[s][t] = list
      /\ \A r \in ThreadScopes, u \in Threads : r # s \/ u # t => after[r][u] = lists[r][u]
  BY DEF ThreadLists
<1>2. \A o : o \in ThreadObjects(lists) <=>
                \E r \in ThreadScopes, u \in Threads : o \in ToSet(lists[r][u])
  BY DEF ThreadObjects
<1>3. \A o : o \in ThreadObjects(after) <=>
                \E r \in ThreadScopes, u \in Threads : o \in ToSet(after[r][u])
  BY DEF ThreadObjects
<1>4. \A o : o \in ToSet(list) <=> (o \in ToSet(lists[s][t]) /\ o # old) \/ (o = new /\ o # Null)
  BY DEF Exchanged
<1>5. ThreadsOnce(after)
  <2>1. \A r \in ThreadScopes, u \in Threads : NoRepeats(after[r][u])
    BY <1>1 DEF ThreadsOnce
  <2>2. ASSUME NEW r \in ThreadScopes, NEW u \in Threads, NEW q \in ThreadScopes, NEW v \in Threads,
               NEW o \in ToSet(after[r][u]), o \in ToSet(after[q][v])
        PROVE  r = q /\ u = v
    <3>1. CASE (r # s \/ u # t) /\ (q # s \/ v # t)
      BY <1>1, <2>2, <3>1 DEF ThreadsOnce
    <3>2. CASE r = s /\ u = t /\ q = s /\ v = t
      BY <3>2
    <3>3. CASE r = s /\ u = t /\ (q # s \/ v # t)
      <4>1. o \in ToSet(lists[q][v]) /\ o \in ToSet(list)
        BY <1>1, <2>2, <3>3
      <4>2. o \in ThreadObjects(lists)
        BY <1>2, <4>1
      <4>3. o \in ToSet(lists[s][t])
        BY <1>4, <4>1, <4>2
      <4> QED
        BY <3>3, <4>1, <4>3 DEF ThreadsOnce
    <3>4. CASE q = s /\ v = t /\ (r # s \/ u # t)
      <4>1. o \in ToSet(lists[r][u]) /\ o \in ToSet(list)
        BY <1>1, <2>2, <3>4
      <4>2. o \in ThreadObjects(lists)
        BY <1>2, <4>1
      <4>3. o \in ToSet(lists[s][t])
        BY <1>4, <4>1, <4>2
      <4> QED
        BY <3>4, <4>1, <4>3 DEF ThreadsOnce
    <3> QED
      BY <3>1, <3>2, <3>3, <3>4
  <2> QED
    BY <2>1, <2>2 DEF ThreadsOnce
<1>6. Exchanged(ThreadObjects(lists), old, new, ThreadObjects(after))
  <2>1. ASSUME NEW o \in ThreadObjects(after)
        PROVE  (o \in ThreadObjects(lists) /\ o # old) \/ (o = new /\ o # Null)
    <3>1. PICK r \in ThreadScopes, u \in Threads : o \in ToSet(after[r][u])
      BY <1>3
    <3>2. CASE r = s /\ u = t
      BY <1>1, <1>2, <1>4, <3>1, <3>2
    <3>3. CASE r # s \/ u # t
      <4>1. o \in ToSet(lists[r][u])
        BY <1>1, <3>1, <3>3
      <4>2. o \in ThreadObjects(lists)
        BY <1>2, <4>1
      <4>3. o # old
        <5>1. SUFFICES ASSUME o = old PROVE FALSE
          OBVIOUS
        <5>2. o \in ToSet(lists[s][t])
          BY <4>2, <5>1
        <5>3. r = s /\ u = t
          BY <4>1, <5>2 DEF ThreadsOnce
        <5> QED
          BY <3>3, <5>3
      <4> QED
        BY <4>2, <4>3
    <3> QED
      BY <3>2, <3>3
  <2>2. ASSUME NEW o, (o \in ThreadObjects(lists) /\ o # old) \/ (o = new /\ o # Null)
        PROVE  o \in ThreadObjects(after)
    <3>1. CASE o = new /\ o # Null
      BY <1>1, <1>3, <1>4, <3>1
    <3>2. CASE o \in ThreadObjects(lists) /\ o # old
      <4>1. PICK r \in ThreadScopes, u \in Threads : o \in ToSet(lists[r][u])
        BY <1>2, <3>2
      <4> QED
        BY <1>1, <1>3, <1>4, <3>2, <4>1
    <3> QED
      BY <2>2, <3>1, <3>2
  <2> QED
    BY <2>1, <2>2 DEF Exchanged
<1> QED
  BY <1>1, <1>5, <1>6

-----------------------------------------------------------------------------
\* Each of the live objects is in one of three sets.
Parted(a, b, c, live) ==
    /\ a \cap b = {} /\ a \cap c = {} /\ b \cap c = {}
    /\ a \cup b \cup c = live

LEMMA PartedExchanged ==
    ASSUME NEW a, NEW b, NEW c, NEW live, Parted(a, b, c, live), Null \notin live,
           NEW old, old \in a \cup {Null}, NEW new, new = Null \/ new \notin live,
           NEW after, Exchanged(a, old, new, after)
    PROVE  Parted(after, b, c, (live \ {old}) \cup ({new} \ {Null}))
BY DEF Parted, Exchanged

LEMMA PartedTurned ==
    ASSUME NEW a, NEW b, NEW c, NEW live, Parted(a, b, c, live)
    PROVE  Parted(b, a, c, live) /\ Parted(c, a, b, live) /\ Parted(b, c, a, live)
BY DEF Parted

Live            == DOMAIN text \ deleted
GlobalObjects(g) == {g} \ {Null}

\* What the places of values look like: a tree, a value and lists, without repetitions.
ShapesOf(forest, g, lists, limit) ==
    /\ Tree(forest) /\ (\E spelled : Spelling(forest, spelled)) /\ NodesOnce(forest)
    /\ g \in Nat
    /\ lists \in ThreadLists /\ ThreadsOnce(lists)
    /\ \A s \in ThreadScopes, t \in Threads : Len(lists[s][t]) <= limit

Places3(forest, g, lists, live) ==
    Parted(NodeObjects(forest), GlobalObjects(g), ThreadObjects(lists), live)

StoreIInv ==
    /\ ShapesOf(nodes, globalStore, threadStore, calls)
    /\ Places3(nodes, globalStore, threadStore, Live)
    /\ text \in Seq(Texts) /\ deleted \subseteq DOMAIN text
    /\ calls \in Nat /\ Len(text) <= calls /\ calls <= MaxCalls

\* One object has gone from its place, or Null, and a new one has come, or Null.
Changed(old, new) ==
    /\ ShapesOf(nodes', globalStore', threadStore', calls + 1)
    /\ old \in Live \cup {Null}
    /\ Places3(nodes', globalStore', threadStore', (Live \ {old}) \cup ({new} \ {Null}))

LEMMA LimitGrows ==
    ASSUME NEW lists \in ThreadLists, calls \in Nat,
           \A s \in ThreadScopes, t \in Threads : Len(lists[s][t]) <= calls
    PROVE  \A s \in ThreadScopes, t \in Threads : Len(lists[s][t]) <= calls + 1
<1>1. ASSUME NEW s \in ThreadScopes, NEW t \in Threads
      PROVE  Len(lists[s][t]) <= calls + 1
  <2>1. lists[s][t] \in Seq(Nat) /\ Len(lists[s][t]) <= calls
    BY DEF ThreadLists
  <2> QED
    BY <2>1
<1> QED
  BY <1>1

LEMMA NullIsNotLive ==
    ASSUME StoreIInv
    PROVE  Null \notin Live /\ NewObject \notin Live /\ NewObject \in Nat /\ NewObject # Null
<1>1. Len(text) \in Nat /\ DOMAIN text = 1..Len(text)
  BY DEF StoreIInv
<1> QED
  BY <1>1 DEF Live, Null, NewObject

LEMMA AccessGlobalChanges ==
    ASSUME StoreIInv, NEW new \in Nat, new = Null \/ new \notin Live, AccessGlobal(new)
    PROVE  Changed(globalStore, new)
<1>1. nodes' = nodes /\ threadStore' = threadStore /\ globalStore' = new
  BY DEF AccessGlobal
<1>2. ShapesOf(nodes', globalStore', threadStore', calls + 1)
  BY <1>1, LimitGrows DEF StoreIInv, ShapesOf
<1>3. globalStore \in GlobalObjects(globalStore) \cup {Null}
  BY DEF GlobalObjects
<1>4. Exchanged(GlobalObjects(globalStore), globalStore, new, GlobalObjects(new))
  BY DEF Exchanged, GlobalObjects
<1>5. Parted(GlobalObjects(globalStore), NodeObjects(nodes), ThreadObjects(threadStore), Live)
  BY PartedTurned DEF StoreIInv, Places3
<1>6. Parted(GlobalObjects(new), NodeObjects(nodes), ThreadObjects(threadStore),
             (Live \ {globalStore}) \cup ({new} \ {Null}))
  BY <1>3, <1>4, <1>5, NullIsNotLive, PartedExchanged
<1>7. globalStore \in Live \cup {Null}
  BY <1>3, <1>5 DEF Parted
<1>8. Places3(nodes', globalStore', threadStore', (Live \ {globalStore}) \cup ({new} \ {Null}))
  BY <1>1, <1>6, PartedTurned DEF Places3
<1> QED
  BY <1>2, <1>7, <1>8 DEF Changed

LEMMA AccessCodeChanges ==
    ASSUME StoreIInv, NEW new \in Nat, new = Null \/ new \notin Live,
           NEW key \in Seq(Characters), AccessCode(key, new), NEW c, c = Create(key)
    PROVE  Changed(c.nodes[c.node].value, new)
<1>1. nodes' = [c.nodes EXCEPT ![c.node].value = new]
      /\ globalStore' = globalStore /\ threadStore' = threadStore
  BY DEF AccessCode
<1>2. PICK spelled : Spelling(nodes, spelled)
  BY DEF StoreIInv, ShapesOf
<1>3. Tree(nodes) /\ NodesOnce(nodes)
  BY DEF StoreIInv, ShapesOf
<1>4. PICK grown : Grown(nodes, spelled, c.nodes, grown)
  BY <1>2, <1>3, CreateTree
<1>5. c.node \in DOMAIN c.nodes
  BY <1>2, <1>3, CreateTree
<1>6. NodesOnce(c.nodes) /\ NodeObjects(c.nodes) = NodeObjects(nodes)
  BY <1>3, <1>4, MovedObjects
<1> DEFINE old == c.nodes[c.node].value
<1>7. old \in NodeObjects(nodes) \cup {Null}
  BY <1>5, <1>6 DEF NodeObjects
<1>8. new \notin NodeObjects(nodes)
  <2>1. Null \notin NodeObjects(nodes)
    BY DEF NodeObjects
  <2>2. NodeObjects(nodes) \subseteq Live
    BY DEF StoreIInv, Places3, Parted
  <2> QED
    BY <2>1, <2>2
<1>9. Tree(c.nodes) /\ Spelling(c.nodes, grown)
  BY <1>4 DEF Grown
<1>10. /\ Tree(nodes') /\ Spelling(nodes', grown) /\ NodesOnce(nodes')
       /\ Exchanged(NodeObjects(c.nodes), old, new, NodeObjects(nodes'))
  BY <1>1, <1>5, <1>6, <1>8, <1>9, ValueSet
<1> HIDE DEF old
<1>11. ShapesOf(nodes', globalStore', threadStore', calls + 1)
  BY <1>1, <1>10, LimitGrows DEF StoreIInv, ShapesOf
<1>12. Parted(NodeObjects(nodes), GlobalObjects(globalStore), ThreadObjects(threadStore), Live)
  BY DEF StoreIInv, Places3
<1>13. Parted(NodeObjects(nodes'), GlobalObjects(globalStore), ThreadObjects(threadStore),
              (Live \ {old}) \cup ({new} \ {Null}))
  BY <1>6, <1>7, <1>10, <1>12, NullIsNotLive, PartedExchanged
<1>14. old \in Live \cup {Null}
  BY <1>7, <1>12 DEF Parted
<1>15. Changed(old, new)
  BY <1>1, <1>11, <1>13, <1>14 DEF Changed, Places3
<1> QED
  BY <1>15 DEF old

LEMMA SetThreadChanges ==
    ASSUME StoreIInv, NEW old, NEW new, new = Null \/ new \notin Live,
           NEW s \in ThreadScopes, NEW t \in Threads, NEW list \in Seq(Nat), NoRepeats(list),
           Len(list) <= Len(threadStore[s][t]) + 1, old \in ToSet(threadStore[s][t]) \cup {Null},
           Exchanged(ToSet(threadStore[s][t]), old, new, ToSet(list)), SetThread(s, t, list)
    PROVE  Changed(old, new)
<1>1. threadStore' = [threadStore EXCEPT ![s][t] = list]
      /\ nodes' = nodes /\ globalStore' = globalStore
  BY DEF SetThread
<1>2. threadStore \in ThreadLists /\ ThreadsOnce(threadStore) /\ calls \in Nat
      /\ \A r \in ThreadScopes, u \in Threads : Len(threadStore[r][u]) <= calls
  BY DEF StoreIInv, ShapesOf
<1>3. Parted(ThreadObjects(threadStore), NodeObjects(nodes), GlobalObjects(globalStore), Live)
  BY PartedTurned DEF StoreIInv, Places3
<1>4. ThreadObjects(threadStore) \subseteq Live
  BY <1>3 DEF Parted
<1>5. /\ threadStore' \in ThreadLists /\ ThreadsOnce(threadStore')
      /\ Exchanged(ThreadObjects(threadStore), old, new, ThreadObjects(threadStore'))
  BY <1>1, <1>2, <1>4, NullIsNotLive, ListSet
<1>6. old \in ThreadObjects(threadStore) \cup {Null}
  BY DEF ThreadObjects
<1>7. Parted(ThreadObjects(threadStore'), NodeObjects(nodes), GlobalObjects(globalStore),
             (Live \ {old}) \cup ({new} \ {Null}))
  BY <1>3, <1>5, <1>6, NullIsNotLive, PartedExchanged
<1>8. Places3(nodes', globalStore', threadStore', (Live \ {old}) \cup ({new} \ {Null}))
  BY <1>1, <1>7, PartedTurned DEF Places3
<1>9. ASSUME NEW r \in ThreadScopes, NEW u \in Threads
      PROVE  Len(threadStore'[r][u]) <= calls + 1
  <2>1. Len(threadStore[r][u]) \in Nat /\ Len(threadStore[r][u]) <= calls
        /\ Len(threadStore[s][t]) \in Nat /\ Len(threadStore[s][t]) <= calls
    BY <1>2 DEF ThreadLists
  <2>2. CASE r = s /\ u = t
    <3>1. threadStore'[r][u] = list /\ Len(list) \in Nat
      BY <1>1, <1>2, <2>2 DEF ThreadLists
    <3> QED
      BY <1>2, <2>1, <3>1
  <2>3. CASE r # s \/ u # t
    <3>1. threadStore'[r][u] = threadStore[r][u]
      BY <1>1, <1>2, <2>3 DEF ThreadLists
    <3> QED
      BY <1>2, <2>1, <3>1
  <2> QED
    BY <2>2, <2>3
<1>10. ShapesOf(nodes', globalStore', threadStore', calls + 1)
  BY <1>1, <1>5, <1>9 DEF StoreIInv, ShapesOf
<1>11. old \in Live \cup {Null}
  BY <1>4, <1>6
<1> QED
  BY <1>8, <1>10, <1>11 DEF Changed

-----------------------------------------------------------------------------
CodeScope(s) == s \in CodeScopes /\ s \notin ThreadScopes /\ s # "Global"

LEMMA ScopeKinds ==
    ASSUME NEW s \in CodeScopes \cup ThreadScopes \cup {"Global"}
    PROVE  \/ CodeScope(s)
           \/ s \in ThreadScopes /\ s \notin CodeScopes /\ s # "Global"
           \/ s = "Global" /\ s \notin CodeScopes /\ s \notin ThreadScopes
BY DEF CodeScope, CodeScopes, ThreadScopes

LEMMA ListOf ==
    ASSUME StoreIInv, NEW s \in ThreadScopes, NEW t \in Threads
    PROVE  /\ threadStore[s][t] \in Seq(Nat) /\ NoRepeats(threadStore[s][t])
           /\ ToSet(threadStore[s][t]) \subseteq Live /\ Len(threadStore[s][t]) \in Nat
<1>1. threadStore[s][t] \in Seq(Nat) /\ NoRepeats(threadStore[s][t])
  BY DEF StoreIInv, ShapesOf, ThreadLists, ThreadsOnce
<1>2. ToSet(threadStore[s][t]) \subseteq ThreadObjects(threadStore)
  BY DEF ThreadObjects
<1>3. ThreadObjects(threadStore) \subseteq Live
  BY DEF StoreIInv, Places3, Parted
<1> QED
  BY <1>1, <1>2, <1>3

\* A new value comes into a scope, in place of the one it had or, in thread scopes, after it.
LEMMA InsertChanges ==
    ASSUME StoreIInv, NEW p \in Places, NEW t \in Threads,
           NEW s \in CodeScopes \cup ThreadScopes \cup {"Global"}, NEW n \in Levels(s),
           Insert(p, t, s, n, NewObject),
           s \in ThreadScopes /\ cfgSingleThreadValue => threadStore[s][t] = <<>>
    PROVE  Changed(IF s \in ThreadScopes THEN Null ELSE Current(p, t, s, n), NewObject)
<1>1. NewObject \in Nat /\ NewObject \notin Live /\ NewObject # Null /\ Null \notin Live
  BY NullIsNotLive
<1>2. CASE s = "Global" /\ s \notin CodeScopes /\ s \notin ThreadScopes
  <2>1. AccessGlobal(NewObject) /\ Current(p, t, s, n) = globalStore
    BY <1>2 DEF Insert, Current
  <2> QED
    BY <1>1, <1>2, <2>1, AccessGlobalChanges
<1>3. CASE CodeScope(s)
  <2>1. PICK c : c = Create(Key(p, s, n))
    OBVIOUS
  <2>2. AccessCode(Key(p, s, n), NewObject) /\ Current(p, t, s, n) = c.nodes[c.node].value
    BY <1>3, <2>1 DEF Insert, Current, CodeScope
  <2>3. Key(p, s, n) \in Seq(Characters)
    BY <1>3, KeyIs DEF CodeScope
  <2>4. Changed(c.nodes[c.node].value, NewObject)
    BY <1>1, <2>1, <2>2, <2>3, AccessCodeChanges
  <2> QED
    BY <1>3, <2>2, <2>4 DEF CodeScope
<1>4. CASE s \in ThreadScopes /\ s \notin CodeScopes /\ s # "Global"
  <2> DEFINE list == threadStore[s][t]
  <2>1. SetThread(s, t, Append(list, NewObject))
    BY <1>4 DEF Insert
  <2>2. list \in Seq(Nat) /\ NoRepeats(list) /\ ToSet(list) \subseteq Live
    BY <1>4, ListOf
  <2>3. PICK after : after = Append(list, NewObject)
    OBVIOUS
  <2> HIDE DEF list
  <2>4. NewObject \notin ToSet(list) /\ Null \notin ToSet(list)
    BY <1>1, <2>2
  <2>5. /\ after \in Seq(Nat) /\ Len(after) <= Len(list) + 1 /\ NoRepeats(after)
        /\ Exchanged(ToSet(list), Null, NewObject, ToSet(after))
    BY <1>1, <2>2, <2>3, <2>4, AppendedList
  <2>6. Null \in ToSet(list) \cup {Null} /\ s \in ThreadScopes /\ SetThread(s, t, after)
    BY <1>4, <2>1, <2>3
  <2>7. Changed(Null, NewObject)
    BY <1>1, <2>5, <2>6, SetThreadChanges DEF list
  <2> QED
    BY <1>4, <2>7
<1> QED
  BY <1>2, <1>3, <1>4, ScopeKinds

\* The value of a scope goes, in thread scopes the last one.
LEMMA RemoveChanges ==
    ASSUME StoreIInv, NEW p \in Places, NEW t \in Threads,
           NEW s \in CodeScopes \cup ThreadScopes \cup {"Global"}, NEW n \in Levels(s),
           RemoveCurrent(p, t, s, n)
    PROVE  Changed(Current(p, t, s, n), Null)
<1>1. Null \in Nat
  BY DEF Null
<1>2. CASE s = "Global" /\ s \notin CodeScopes /\ s \notin ThreadScopes
  <2>1. AccessGlobal(Null) /\ Current(p, t, s, n) = globalStore
    BY <1>2 DEF RemoveCurrent, Current
  <2> QED
    BY <1>1, <2>1, AccessGlobalChanges
<1>3. CASE CodeScope(s)
  <2>1. PICK c : c = Create(Key(p, s, n))
    OBVIOUS
  <2>2. AccessCode(Key(p, s, n), Null) /\ Current(p, t, s, n) = c.nodes[c.node].value
    BY <1>3, <2>1 DEF RemoveCurrent, Current, CodeScope
  <2>3. Key(p, s, n) \in Seq(Characters)
    BY <1>3, KeyIs DEF CodeScope
  <2>4. Changed(c.nodes[c.node].value, Null)
    BY <1>1, <2>1, <2>2, <2>3, AccessCodeChanges
  <2> QED
    BY <2>2, <2>4
<1>4. CASE s \in ThreadScopes /\ s \notin CodeScopes /\ s # "Global"
  <2> DEFINE list == threadStore[s][t]
  <2>1. list \in Seq(Nat) /\ NoRepeats(list) /\ ToSet(list) \subseteq Live /\ Len(list) \in Nat
    BY <1>4, ListOf
  <2>2. CASE list = <<>>
    <3>1. SetThread(s, t, list) /\ Current(p, t, s, n) = Null
      BY <1>4, <2>2 DEF RemoveCurrent, Current
    <3>2. Exchanged(ToSet(list), Null, Null, ToSet(list))
      <4>1. ToSet(list) = {}
        BY <2>2 DEF ToSet
      <4> QED
        BY <4>1 DEF Exchanged
    <3> HIDE DEF list
    <3>3. Len(list) <= Len(list) + 1 /\ Null \in ToSet(list) \cup {Null}
      BY <2>1
    <3> QED
      BY <1>4, <2>1, <3>1, <3>2, <3>3, SetThreadChanges DEF list
  <2>3. CASE list # <<>>
    <3>1. PICK after : after = Front(list)
      OBVIOUS
    <3>2. SetThread(s, t, after) /\ Current(p, t, s, n) = Last(list)
      BY <1>4, <2>3, <3>1 DEF RemoveCurrent, Current
    <3> HIDE DEF list
    <3>3. /\ after \in Seq(Nat) /\ Len(after) <= Len(list) /\ NoRepeats(after)
          /\ Exchanged(ToSet(list), Last(list), Null, ToSet(after))
      BY <2>1, <2>3, <3>1, FrontOfList
    <3>4. Last(list) \in ToSet(list)
      <4>1. Len(list) \in DOMAIN list
        BY <2>1, <2>3, EmptySeq
      <4> QED
        BY <4>1 DEF Last, ToSet
    <3>5. Len(after) <= Len(list) + 1
      <4>1. Len(after) \in Nat
        BY <3>3
      <4> QED
        BY <2>1, <3>3, <4>1
    <3>6. Changed(Last(list), Null)
      BY <1>4, <3>2, <3>3, <3>4, <3>5, SetThreadChanges DEF list
    <3> QED
      BY <3>2, <3>6
  <2> QED
    BY <2>2, <2>3
<1> QED
  BY <1>2, <1>3, <1>4, ScopeKinds

\* The object that has gone is deleted, the one that has come is new.
Booked(old, new) ==
    /\ deleted' = deleted \cup ({old} \ {Null})
    /\ \/ new = Null /\ text' = text
       \/ new = NewObject /\ \E c \in Texts : text' = Append(text, c)

\* A call that changes the places and the books in the same way keeps the invariant.
LEMMA CallKeeps ==
    ASSUME StoreIInv, Call, NEW old, NEW new, Changed(old, new), Booked(old, new)
    PROVE  StoreIInv'
<1>1. calls' = calls + 1 /\ calls \in Nat /\ calls < MaxCalls /\ MaxCalls \in Nat
  BY LimitsAssumption DEF Call, StoreIInv
<1>2. text \in Seq(Texts) /\ Len(text) \in Nat /\ Len(text) <= calls /\ deleted \subseteq DOMAIN text
      /\ DOMAIN text = 1..Len(text)
  BY DEF StoreIInv
<1>3. old \in Live \cup {Null} /\ Null \notin Live /\ NewObject \notin Live
  BY NullIsNotLive DEF Changed
<1>4. /\ text' \in Seq(Texts) /\ Len(text') <= calls + 1 /\ deleted' \subseteq DOMAIN text'
      /\ DOMAIN text' \ deleted' = (Live \ {old}) \cup ({new} \ {Null})
  <2>1. CASE new = Null /\ text' = text
    BY <1>1, <1>2, <1>3, <2>1 DEF Live, Booked
  <2>2. CASE new = NewObject /\ \E c \in Texts : text' = Append(text, c)
    <3>1. PICK c \in Texts : text' = Append(text, c)
      BY <2>2
    <3>2. text' \in Seq(Texts) /\ Len(text') = Len(text) + 1
      BY <1>2, <3>1, AppendProperties
    <3>3. DOMAIN text' = DOMAIN text \cup {new} /\ new \notin DOMAIN text /\ new # Null
      <4>1. DOMAIN text' = 1..Len(text) + 1
        BY <3>2
      <4>2. new = Len(text) + 1
        BY <2>2 DEF NewObject
      <4>3. 1..Len(text) + 1 = (1..Len(text)) \cup {Len(text) + 1}
            /\ Len(text) + 1 \notin 1..Len(text)
        BY <1>2
      <4> QED
        BY <1>2, <4>1, <4>2, <4>3 DEF Null
    <3>4. deleted' = deleted \cup ({old} \ {Null})
      BY DEF Booked
    <3>5. deleted' \subseteq DOMAIN text'
      BY <1>2, <1>3, <3>3, <3>4 DEF Live
    <3>6. DOMAIN text' \ deleted' = (Live \ {old}) \cup ({new} \ {Null})
      BY <1>2, <1>3, <3>3, <3>4 DEF Live
    <3>7. Len(text') <= calls + 1
      BY <1>1, <1>2, <3>2
    <3> QED
      BY <3>2, <3>5, <3>6, <3>7
  <2> QED
    BY <2>1, <2>2 DEF Booked
<1>5. Live' = DOMAIN text' \ deleted'
  BY DEF Live
<1>6. Places3(nodes', globalStore', threadStore', Live')
  BY <1>4, <1>5 DEF Changed
<1>7. ShapesOf(nodes', globalStore', threadStore', calls')
  BY <1>1 DEF Changed
<1>8. calls' \in Nat /\ calls' <= MaxCalls
  BY <1>1
<1>9. Len(text') <= calls'
  BY <1>1, <1>4
<1> QED
  BY <1>4, <1>6, <1>7, <1>8, <1>9 DEF StoreIInv

-----------------------------------------------------------------------------
LEMMA SetDomainKeeps ==
    ASSUME StoreIInv, NEW p \in Places, NEW t \in Threads,
           NEW s \in CodeScopes \cup ThreadScopes \cup {"Global"}, NEW n \in Levels(s),
           NEW c \in Texts, SetDomain(p, t, s, n, c)
    PROVE  StoreIInv'
<1> DEFINE old == IF s \in ThreadScopes THEN Null ELSE Current(p, t, s, n)
<1>1. Call /\ ~cfgSingleThreadValue /\ Insert(p, t, s, n, NewObject)
      /\ text' = Append(text, c) /\ Delete(old)
  BY DEF SetDomain
<1>2. Changed(old, NewObject)
  BY <1>1, InsertChanges
<1> HIDE DEF old
<1>3. Booked(old, NewObject)
  BY <1>1 DEF Booked, Delete
<1> QED
  BY <1>1, <1>2, <1>3, CallKeeps

LEMMA UnsetDomainKeeps ==
    ASSUME StoreIInv, NEW p \in Places, NEW t \in Threads,
           NEW s \in CodeScopes \cup ThreadScopes \cup {"Global"}, NEW n \in Levels(s),
           UnsetDomain(p, t, s, n) \/ DropMap(p, t, s, n)
    PROVE  StoreIInv'
<1>1. Call /\ RemoveCurrent(p, t, s, n) /\ Delete(Current(p, t, s, n)) /\ text' = text
  BY DEF UnsetDomain, DropMap
<1>2. Changed(Current(p, t, s, n), Null)
  BY <1>1, RemoveChanges
<1>3. Booked(Current(p, t, s, n), Null)
  BY <1>1 DEF Booked, Delete
<1> QED
  BY <1>1, <1>2, <1>3, CallKeeps

LEMMA GetMapKeeps ==
    ASSUME StoreIInv, NEW p \in Places, NEW t \in Threads,
           NEW s \in CodeScopes \cup ThreadScopes \cup {"Global"}, NEW n \in Levels(s),
           NEW c \in Texts, GetMap(p, t, s, n, c)
    PROVE  StoreIInv'
<1>1. Call /\ Current(p, t, s, n) = Null /\ Insert(p, t, s, n, NewObject)
      /\ text' = Append(text, c) /\ deleted' = deleted
  BY DEF GetMap
<1>2. ASSUME s \in ThreadScopes
      PROVE  threadStore[s][t] = <<>>
  <2>1. SUFFICES ASSUME threadStore[s][t] # <<>> PROVE FALSE
    OBVIOUS
  <2> DEFINE list == threadStore[s][t]
  <2>2. s \notin CodeScopes /\ s # "Global"
    BY <1>2 DEF ThreadScopes, CodeScopes
  <2>3. Last(list) = Null
    BY <1>1, <1>2, <2>1, <2>2 DEF Current
  <2>4. list \in Seq(Nat) /\ ToSet(list) \subseteq Live /\ list # <<>> /\ Len(list) \in Nat
    BY <1>2, <2>1, ListOf
  <2> HIDE DEF list
  <2>5. Last(list) \in ToSet(list)
    <3>1. Len(list) \in DOMAIN list
      BY <2>4, EmptySeq
    <3> QED
      BY <3>1 DEF Last, ToSet
  <2> QED
    BY <2>3, <2>4, <2>5, NullIsNotLive
<1>3. Changed(Null, NewObject)
  <2>1. Changed(IF s \in ThreadScopes THEN Null ELSE Current(p, t, s, n), NewObject)
    BY <1>1, <1>2, InsertChanges
  <2> QED
    BY <1>1, <2>1
<1>4. Booked(Null, NewObject)
  BY <1>1 DEF Booked
<1> QED
  BY <1>1, <1>3, <1>4, CallKeeps

LEMMA RemoveThreadDomainKeeps ==
    ASSUME StoreIInv, NEW t \in Threads, NEW s \in ThreadScopes, NEW c \in Texts,
           RemoveThreadDomain(t, s, c)
    PROVE  StoreIInv'
<1> DEFINE list == threadStore[s][t]
           hits == {i \in DOMAIN list : text[list[i]] = c}
           hit  == CHOOSE i \in hits : \A j \in hits : i <= j
<1>1. Call /\ text' = text
      /\ IF hits = {} THEN SetThread(s, t, list) /\ Delete(Null)
                      ELSE SetThread(s, t, RemoveAt(list, hit)) /\ Delete(list[hit])
  BY DEF RemoveThreadDomain
<1>2. list \in Seq(Nat) /\ NoRepeats(list) /\ ToSet(list) \subseteq Live /\ Len(list) \in Nat
  BY ListOf
<1>3. Null \notin Live
  BY NullIsNotLive
<1>4. CASE hits = {}
  <2> HIDE DEF hits
  <2>1. SetThread(s, t, list) /\ Delete(Null)
    BY <1>1, <1>4
  <2> HIDE DEF list
  <2>2. Exchanged(ToSet(list), Null, Null, ToSet(list))
    BY <1>2, <1>3 DEF Exchanged
  <2>3. Len(list) <= Len(list) + 1
    BY <1>2
  <2>4. Changed(Null, Null)
    BY <1>2, <2>1, <2>2, <2>3, SetThreadChanges DEF list
  <2>5. Booked(Null, Null)
    BY <1>1, <2>1 DEF Booked, Delete
  <2> QED
    BY <1>1, <2>4, <2>5, CallKeeps
<1>5. CASE hits # {}
  <2>1. hits \in SUBSET Nat /\ hits \subseteq DOMAIN list
    BY <1>2
  <2> HIDE DEF hits
  <2>2. hit \in hits
    <3>1. \E i \in hits : \A j \in hits : i <= j
      BY <1>5, <2>1, LeastExists
    <3> QED
      BY <3>1
  <2> HIDE DEF hit
  <2>3. SetThread(s, t, RemoveAt(list, hit)) /\ Delete(list[hit])
    BY <1>1, <1>5
  <2> HIDE DEF list
  <2>4. PICK after : after = RemoveAt(list, hit)
    OBVIOUS
  <2>5. /\ after \in Seq(Nat) /\ Len(after) <= Len(list) /\ NoRepeats(after)
        /\ Exchanged(ToSet(list), list[hit], Null, ToSet(after))
    BY <1>2, <2>1, <2>2, <2>4, RemovedFromList
  <2>6. list[hit] \in ToSet(list)
    BY <2>1, <2>2 DEF ToSet
  <2>7. Len(after) <= Len(list) + 1
    <3>1. Len(after) \in Nat
      BY <2>5
    <3> QED
      BY <1>2, <2>5, <3>1
  <2>8. Changed(list[hit], Null)
    <3>1. SetThread(s, t, after)
      BY <2>3, <2>4
    <3> QED
      BY <2>5, <2>6, <2>7, <3>1, SetThreadChanges DEF list
  <2>9. Booked(list[hit], Null)
    BY <1>1, <2>3 DEF Booked, Delete
  <2> QED
    BY <1>1, <2>8, <2>9, CallKeeps
<1> QED
  BY <1>4, <1>5

\* The empty store.
LEMMA EmptyShapes ==
    ASSUME NEW limit \in Nat
    PROVE  /\ ShapesOf(EmptyNodes, Null, EmptyThreads, limit)
           /\ Places3(EmptyNodes, Null, EmptyThreads, {})
<1> DEFINE root == [parent |-> 0, path |-> <<>>, childs |-> {}, value |-> Null]
<1>1. EmptyNodes = <<root>>
  BY DEF EmptyNodes
<1>2. root \in Node
  BY EmptySeq DEF Node, Null
<1>3. /\ EmptyNodes \in Seq(Node) /\ DOMAIN EmptyNodes = {Root} /\ EmptyNodes[Root] = root
  <2> HIDE DEF root
  <2>1. <<root>> \in Seq(Node) /\ Len(<<root>>) = 1 /\ <<root>>[1] = root
    BY <1>2
  <2>2. DOMAIN <<root>> = {1}
    BY <2>1
  <2> QED
    BY <1>1, <2>1, <2>2 DEF Root
<1>4. \A n \in DOMAIN EmptyNodes :
         /\ n = Root /\ EmptyNodes[n].childs = {} /\ EmptyNodes[n].value = Null
         /\ EmptyNodes[n].parent = 0 /\ EmptyNodes[n].path = <<>>
  BY <1>3
<1> HIDE DEF root
<1>5. Tree(EmptyNodes)
  BY <1>3, <1>4 DEF Tree
<1>6. \E spelled : Spelling(EmptyNodes, spelled)
  <2> DEFINE spelled == [n \in DOMAIN EmptyNodes |-> <<>>]
  <2>1. spelled[Root] = <<>> /\ spelled \in [DOMAIN EmptyNodes -> Seq(Characters)]
    BY <1>3, EmptySeq
  <2> HIDE DEF spelled
  <2>2. Spelling(EmptyNodes, spelled)
    BY <1>4, <2>1 DEF Spelling
  <2> QED
    BY <2>2
<1>7. NodesOnce(EmptyNodes) /\ NodeObjects(EmptyNodes) = {}
  BY <1>4 DEF NodesOnce, NodeObjects
<1>8. /\ EmptyThreads \in ThreadLists
      /\ \A s \in ThreadScopes, t \in Threads : EmptyThreads[s][t] = <<>>
  <2>1. <<>> \in Seq(Nat)
    BY EmptySeq
  <2> QED
    BY <2>1 DEF EmptyThreads, ThreadLists
<1>9. \A s \in ThreadScopes, t \in Threads :
         /\ NoRepeats(EmptyThreads[s][t]) /\ ToSet(EmptyThreads[s][t]) = {}
         /\ Len(EmptyThreads[s][t]) <= limit
  <2>1. NoRepeats(<<>>) /\ ToSet(<<>>) = {} /\ Len(<<>>) <= limit
    BY EmptySeq DEF NoRepeats, ToSet
  <2> QED
    BY <1>8, <2>1
<1>10. ThreadsOnce(EmptyThreads) /\ ThreadObjects(EmptyThreads) = {}
  <2>1. ThreadsOnce(EmptyThreads)
    BY <1>9 DEF ThreadsOnce
  <2>2. \A o : o \notin ThreadObjects(EmptyThreads)
    BY <1>9 DEF ThreadObjects
  <2> QED
    BY <2>1, <2>2
<1>11. ShapesOf(EmptyNodes, Null, EmptyThreads, limit)
  BY <1>5, <1>6, <1>7, <1>8, <1>9, <1>10 DEF ShapesOf, Null
<1>12. Places3(EmptyNodes, Null, EmptyThreads, {})
  BY <1>7, <1>10 DEF Places3, Parted, GlobalObjects
<1> QED
  BY <1>11, <1>12

LEMMA ClearKeeps ==
    ASSUME StoreIInv, Clear
    PROVE  StoreIInv'
<1>1. /\ nodes' = EmptyNodes /\ globalStore' = Null /\ threadStore' = EmptyThreads /\ text' = text
      /\ deleted' = deleted \cup (Stored \ {Null})
      /\ calls' = calls + 1 /\ calls < MaxCalls
  BY DEF Clear, Call
<1>2. text \in Seq(Texts) /\ Len(text) \in Nat /\ Len(text) <= calls /\ deleted \subseteq DOMAIN text
      /\ calls \in Nat /\ MaxCalls \in Nat
  BY LimitsAssumption DEF StoreIInv
<1>3. Stored \ {Null} = Live
  <2>1. Stored \ {Null} = NodeObjects(nodes) \cup GlobalObjects(globalStore)
                            \cup (ThreadObjects(threadStore) \ {Null})
    BY DEF Stored, NodeObjects, GlobalObjects, ThreadObjects
  <2>2. NodeObjects(nodes) \cup GlobalObjects(globalStore) \cup ThreadObjects(threadStore) = Live
    BY DEF StoreIInv, Places3, Parted
  <2>3. Null \notin Live
    BY NullIsNotLive
  <2> QED
    BY <2>1, <2>2, <2>3
<1>4. deleted' = DOMAIN text
  BY <1>1, <1>2, <1>3 DEF Live
<1>5. Live' = {}
  BY <1>1, <1>4 DEF Live
<1>6. calls' \in Nat /\ calls' <= MaxCalls /\ Len(text') <= calls'
  BY <1>1, <1>2
<1>7. ShapesOf(nodes', globalStore', threadStore', calls')
  BY <1>1, <1>6, EmptyShapes
<1>8. Places3(nodes', globalStore', threadStore', Live')
  BY <1>1, <1>5, <1>6, EmptyShapes
<1> QED
  BY <1>1, <1>2, <1>4, <1>6, <1>7, <1>8 DEF StoreIInv

LEMMA StoreInitIInv ==
    ASSUME StoreInit
    PROVE  StoreIInv
<1>1. nodes = EmptyNodes /\ globalStore = Null /\ threadStore = EmptyThreads
      /\ text = <<>> /\ deleted = {} /\ calls = 0
  BY DEF StoreInit
<1>2. text \in Seq(Texts) /\ Len(text) = 0 /\ DOMAIN text = {}
  BY <1>1, EmptySeq
<1>3. Live = {}
  BY <1>2 DEF Live
<1>4. 0 \in Nat /\ 0 <= MaxCalls /\ 0 <= 0
  BY LimitsAssumption
<1>5. ShapesOf(nodes, globalStore, threadStore, calls)
  BY <1>1, <1>4, EmptyShapes
<1>6. Places3(nodes, globalStore, threadStore, Live)
  BY <1>1, <1>3, <1>4, EmptyShapes
<1> QED
  BY <1>1, <1>2, <1>4, <1>5, <1>6 DEF StoreIInv

LEMMA StoreNextIInv ==
    ASSUME StoreIInv, [StoreNext]_storeVars
    PROVE  StoreIInv'
<1>1. CASE \E p \in Places, t \in Threads, s \in CodeScopes \cup ThreadScopes \cup {"Global"} :
             \E n \in Levels(s) :
                \/ \E c \in Texts : SetDomain(p, t, s, n, c) \/ GetMap(p, t, s, n, c)
                \/ UnsetDomain(p, t, s, n)
                \/ DropMap(p, t, s, n)
  <2>1. PICK p \in Places, t \in Threads, s \in CodeScopes \cup ThreadScopes \cup {"Global"} :
             \E n \in Levels(s) :
                \/ \E c \in Texts : SetDomain(p, t, s, n, c) \/ GetMap(p, t, s, n, c)
                \/ UnsetDomain(p, t, s, n)
                \/ DropMap(p, t, s, n)
    BY <1>1
  <2>2. PICK n \in Levels(s) :
                \/ \E c \in Texts : SetDomain(p, t, s, n, c) \/ GetMap(p, t, s, n, c)
                \/ UnsetDomain(p, t, s, n)
                \/ DropMap(p, t, s, n)
    BY <2>1
  <2>3. ASSUME NEW c \in Texts, SetDomain(p, t, s, n, c)
        PROVE  StoreIInv'
    BY <2>3, SetDomainKeeps
  <2>4. ASSUME NEW c \in Texts, GetMap(p, t, s, n, c)
        PROVE  StoreIInv'
    BY <2>4, GetMapKeeps
  <2>5. CASE UnsetDomain(p, t, s, n) \/ DropMap(p, t, s, n)
    BY <2>5, UnsetDomainKeeps
  <2> QED
    BY <2>2, <2>3, <2>4, <2>5
<1>2. ASSUME NEW t \in Threads, NEW s \in ThreadScopes, NEW c \in Texts, RemoveThreadDomain(t, s, c)
      PROVE  StoreIInv'
  BY <1>2, RemoveThreadDomainKeeps
<1>3. CASE Clear
  BY <1>3, ClearKeeps
<1>4. CASE UNCHANGED storeVars
  <2>1. nodes' = nodes /\ globalStore' = globalStore /\ threadStore' = threadStore /\ text' = text
        /\ deleted' = deleted /\ calls' = calls
    BY <1>4 DEF storeVars
  <2>2. Live' = Live
    BY <2>1 DEF Live
  <2> QED
    BY <2>1, <2>2 DEF StoreIInv
<1>5. CASE Exhausted
  BY <1>4, <1>5 DEF Exhausted
<1> QED
  BY <1>1, <1>2, <1>3, <1>4, <1>5 DEF StoreNext

\* A value is Null or an object that was made.
LEMMA StoredIsObject ==
    ASSUME StoreIInv
    PROVE  Live \subseteq Objects /\ Live \subseteq DOMAIN text
<1>1. Len(text) \in Nat /\ DOMAIN text = 1..Len(text) /\ Len(text) <= calls /\ calls <= MaxCalls
      /\ calls \in Nat /\ MaxCalls \in Nat
  BY LimitsAssumption DEF StoreIInv
<1>2. 1..Len(text) \subseteq 1..MaxCalls
  BY <1>1
<1> QED
  BY <1>1, <1>2 DEF Live, Objects

LEMMA StoreTyped ==
    ASSUME StoreIInv
    PROVE  TypeOK
<1>1. Live \subseteq Objects
  BY StoredIsObject
<1>2. /\ NodeObjects(nodes) \subseteq Live /\ GlobalObjects(globalStore) \subseteq Live
      /\ ThreadObjects(threadStore) \subseteq Live
  BY DEF StoreIInv, Places3, Parted
<1>3. Tree(nodes)
  BY DEF StoreIInv, ShapesOf
<1>4. ASSUME NEW n \in DOMAIN nodes
      PROVE  /\ nodes[n].value \in Objects \cup {Null}
             /\ nodes[n].childs \subseteq DOMAIN nodes
             /\ {c \in DOMAIN nodes : n \in nodes[c].childs}
                   = IF n = Root THEN {} ELSE {nodes[n].parent}
             /\ (n = Root) = (nodes[n].path = <<>>)
             /\ \A c, d \in nodes[n].childs : nodes[c].path[1] = nodes[d].path[1] => c = d
  <2>1. nodes[n].value \in Objects \cup {Null}
    BY <1>1, <1>2 DEF NodeObjects
  <2>2. nodes[n].childs \subseteq DOMAIN nodes
    BY <1>3 DEF Tree
  <2>3. {c \in DOMAIN nodes : n \in nodes[c].childs}
           = IF n = Root THEN {} ELSE {nodes[n].parent}
    BY <1>3 DEF Tree
  <2>4. (n = Root) = (nodes[n].path = <<>>)
    BY <1>3 DEF Tree
  <2>5. \A c, d \in nodes[n].childs : nodes[c].path[1] = nodes[d].path[1] => c = d
    BY <1>3 DEF Tree
  <2> QED
    BY <2>1, <2>2, <2>3, <2>4, <2>5
<1>5. globalStore \in Objects \cup {Null}
  BY <1>1, <1>2 DEF GlobalObjects
<1>6. ASSUME NEW s \in ThreadScopes, NEW t \in Threads
      PROVE  threadStore[s][t] \in Seq(Objects)
  <2>1. threadStore[s][t] \in Seq(Nat)
    BY ListOf
  <2>2. \A i \in 1..Len(threadStore[s][t]) : threadStore[s][t][i] \in Objects
    <3>1. ToSet(threadStore[s][t]) \subseteq Objects
      BY <1>1, ListOf
    <3> QED
      BY <2>1, <3>1 DEF ToSet
  <2> QED
    BY <2>1, <2>2
<1>7. Len(text) <= calls /\ deleted \subseteq DOMAIN text
  BY DEF StoreIInv
<1> QED
  BY <1>4, <1>5, <1>6, <1>7 DEF TypeOK

-----------------------------------------------------------------------------
\* The positions of an object among the nodes, in the global scope and in the lists.
NodePositions(o)   == {<<"node", n>> : n \in {m \in DOMAIN nodes : nodes[m].value = o}}
GlobalPositions(o) == {<<"global">> : x \in {globalStore} \cap {o}}
ThreadPositions(o) == {pos \in ThreadScopes \X Threads \X Objects :
                          pos[3] \in DOMAIN threadStore[pos[1]][pos[2]]
                          /\ threadStore[pos[1]][pos[2]][pos[3]] = o}

\* An object of a set has one position there, another one none.
LEMMA PositionsIn ==
    ASSUME StoreIInv, NEW o, o # Null
    PROVE  /\ IF o \in NodeObjects(nodes)
                THEN \E pos : NodePositions(o) = {pos} ELSE NodePositions(o) = {}
           /\ IF o \in GlobalObjects(globalStore)
                THEN \E pos : GlobalPositions(o) = {pos} ELSE GlobalPositions(o) = {}
           /\ IF o \in ThreadObjects(threadStore)
                THEN \E pos : ThreadPositions(o) = {pos} ELSE ThreadPositions(o) = {}
<1>1. IF o \in NodeObjects(nodes)
        THEN \E pos : NodePositions(o) = {pos} ELSE NodePositions(o) = {}
  <2>1. CASE o \in NodeObjects(nodes)
    <3>1. PICK n \in DOMAIN nodes : nodes[n].value = o
      BY <2>1 DEF NodeObjects
    <3>2. NodesOnce(nodes)
      BY DEF StoreIInv, ShapesOf
    <3>3. {m \in DOMAIN nodes : nodes[m].value = o} = {n}
      BY <3>1, <3>2 DEF NodesOnce
    <3>4. NodePositions(o) = {<<"node", n>>}
      BY <3>3 DEF NodePositions
    <3> QED
      BY <2>1, <3>4
  <2>2. CASE o \notin NodeObjects(nodes)
    <3>1. {m \in DOMAIN nodes : nodes[m].value = o} = {}
      BY <2>2 DEF NodeObjects
    <3>2. NodePositions(o) = {}
      BY <3>1 DEF NodePositions
    <3> QED
      BY <2>2, <3>2
  <2> QED
    BY <2>1, <2>2
<1>2. IF o \in GlobalObjects(globalStore)
        THEN \E pos : GlobalPositions(o) = {pos} ELSE GlobalPositions(o) = {}
  <2>1. CASE o \in GlobalObjects(globalStore)
    <3>1. GlobalPositions(o) = {<<"global">>}
      BY <2>1 DEF GlobalObjects, GlobalPositions
    <3> QED
      BY <2>1, <3>1
  <2>2. CASE o \notin GlobalObjects(globalStore)
    <3>1. {globalStore} \cap {o} = {}
      BY <2>2 DEF GlobalObjects
    <3>2. GlobalPositions(o) = {}
      BY <3>1 DEF GlobalPositions
    <3> QED
      BY <2>2, <3>2
  <2> QED
    BY <2>1, <2>2
<1>3. IF o \in ThreadObjects(threadStore)
        THEN \E pos : ThreadPositions(o) = {pos} ELSE ThreadPositions(o) = {}
  <2>1. CASE o \in ThreadObjects(threadStore)
    <3>1. PICK s \in ThreadScopes, t \in Threads : o \in ToSet(threadStore[s][t])
      BY <2>1 DEF ThreadObjects
    <3>2. PICK i \in DOMAIN threadStore[s][t] : threadStore[s][t][i] = o
      BY <3>1 DEF ToSet
    <3>3. i \in Objects
      <4>1. threadStore[s][t] \in Seq(Nat) /\ Len(threadStore[s][t]) \in Nat
        BY ListOf
      <4>2. Len(threadStore[s][t]) <= calls /\ calls <= MaxCalls /\ calls \in Nat
        BY DEF StoreIInv, ShapesOf
      <4>3. i \in 1..Len(threadStore[s][t])
        BY <3>2, <4>1
      <4> QED
        BY <4>1, <4>2, <4>3, LimitsAssumption DEF Objects
    <3>4. <<s, t, i>> \in ThreadPositions(o)
      BY <3>2, <3>3 DEF ThreadPositions
    <3>5. ASSUME NEW pos \in ThreadPositions(o)
          PROVE  pos = <<s, t, i>>
      <4>1. PICK r \in ThreadScopes, u \in Threads, j \in Objects :
               pos = <<r, u, j>> /\ j \in DOMAIN threadStore[r][u] /\ threadStore[r][u][j] = o
        BY DEF ThreadPositions
      <4>2. o \in ToSet(threadStore[r][u])
        BY <4>1 DEF ToSet
      <4>3. ThreadsOnce(threadStore)
        BY DEF StoreIInv, ShapesOf
      <4>4. r = s /\ u = t
        BY <3>1, <4>2, <4>3 DEF ThreadsOnce
      <4>5. j = i
        BY <3>2, <4>1, <4>4, ListOf DEF NoRepeats
      <4> QED
        BY <4>1, <4>4, <4>5
    <3>6. ThreadPositions(o) = {<<s, t, i>>}
      BY <3>4, <3>5
    <3> QED
      BY <2>1, <3>6
  <2>2. CASE o \notin ThreadObjects(threadStore)
    <3>1. ASSUME NEW pos \in ThreadPositions(o)
          PROVE  FALSE
      <4>1. PICK r \in ThreadScopes, u \in Threads, j \in Objects :
               pos = <<r, u, j>> /\ j \in DOMAIN threadStore[r][u] /\ threadStore[r][u][j] = o
        BY DEF ThreadPositions
      <4>2. o \in ToSet(threadStore[r][u])
        BY <4>1 DEF ToSet
      <4> QED
        BY <2>2, <4>2 DEF ThreadObjects
    <3>2. ThreadPositions(o) = {}
      BY <3>1
    <3> QED
      BY <2>2, <3>2
  <2> QED
    BY <2>1, <2>2
<1> QED
  BY <1>1, <1>2, <1>3

LEMMA StoreOwnedOnce ==
    ASSUME StoreIInv
    PROVE  OwnedOnce
<1> SUFFICES ASSUME NEW o \in DOMAIN text
             PROVE  Cardinality(Positions(o)) = IF o \in deleted THEN 0 ELSE 1
  BY DEF OwnedOnce
<1>1. o # Null
  BY DEF StoreIInv, Null
<1>2. Positions(o) = NodePositions(o) \cup GlobalPositions(o) \cup ThreadPositions(o)
  BY DEF Positions, NodePositions, GlobalPositions, ThreadPositions
<1>3. Parted(NodeObjects(nodes), GlobalObjects(globalStore), ThreadObjects(threadStore), Live)
  BY DEF StoreIInv, Places3
<1>4. CASE o \in deleted
  <2>1. o \notin NodeObjects(nodes) /\ o \notin GlobalObjects(globalStore)
        /\ o \notin ThreadObjects(threadStore)
    BY <1>3, <1>4 DEF Parted, Live
  <2>2. NodePositions(o) = {} /\ GlobalPositions(o) = {} /\ ThreadPositions(o) = {}
    BY <1>1, <2>1, PositionsIn
  <2> QED
    BY <1>2, <1>4, <2>2, FS_EmptySet
<1>5. CASE o \notin deleted
  <2>1. o \in Live
    BY <1>5 DEF Live
  <2>2. \E pos : Positions(o) = {pos}
    <3>1. CASE o \in NodeObjects(nodes)
      <4>1. o \notin GlobalObjects(globalStore) /\ o \notin ThreadObjects(threadStore)
        BY <1>3, <3>1 DEF Parted
      <4>2. /\ \E pos : NodePositions(o) = {pos}
            /\ GlobalPositions(o) = {} /\ ThreadPositions(o) = {}
        BY <1>1, <3>1, <4>1, PositionsIn
      <4> QED
        BY <1>2, <4>2
    <3>2. CASE o \in GlobalObjects(globalStore)
      <4>1. o \notin NodeObjects(nodes) /\ o \notin ThreadObjects(threadStore)
        BY <1>3, <3>2 DEF Parted
      <4>2. /\ \E pos : GlobalPositions(o) = {pos}
            /\ NodePositions(o) = {} /\ ThreadPositions(o) = {}
        BY <1>1, <3>2, <4>1, PositionsIn
      <4> QED
        BY <1>2, <4>2
    <3>3. CASE o \in ThreadObjects(threadStore)
      <4>1. o \notin NodeObjects(nodes) /\ o \notin GlobalObjects(globalStore)
        BY <1>3, <3>3 DEF Parted
      <4>2. /\ \E pos : ThreadPositions(o) = {pos}
            /\ NodePositions(o) = {} /\ GlobalPositions(o) = {}
        BY <1>1, <3>3, <4>1, PositionsIn
      <4> QED
        BY <1>2, <4>2
    <3> QED
      BY <1>3, <2>1, <3>1, <3>2, <3>3 DEF Parted
  <2>3. PICK pos : Positions(o) = {pos}
    BY <2>2
  <2> QED
    BY <1>5, <2>3, FS_Singleton
<1> QED
  BY <1>4, <1>5

-----------------------------------------------------------------------------
\* The invariant holds always: the nodes are a tree that spells their keys, and each object that
\* is not deleted is the value of one node, of the global scope or of one entry of one list.
THEOREM StoreInvariant == StoreSpec => []StoreIInv
<1>1. StoreInit => StoreIInv
  BY StoreInitIInv
<1>2. StoreIInv /\ [StoreNext]_storeVars => StoreIInv'
  BY StoreNextIInv
<1> QED
  BY <1>1, <1>2, PTL DEF StoreSpec

\* The PathMap is always a tree whose nodes can be found by their characters, for all keys and
\* all calls: splitting nodes in PathMap::Get never loses or doubles a link.
THEOREM StoreTypedAlways == StoreSpec => []TypeOK
<1>1. StoreIInv => TypeOK
  BY StoreTyped
<1> QED
  BY <1>1, StoreInvariant, PTL

\* The objects that the Lox gave to the store and did not delete are always in one place each,
\* the deleted ones in none: none is leaked and none deleted twice by the Lox.
THEOREM OwnedOnceAlways == StoreSpec => []OwnedOnce
<1>1. StoreIInv => OwnedOnce
  BY StoreOwnedOnce
<1> QED
  BY <1>1, StoreInvariant, PTL

(***************************************************************************)
(* The refinement of ScopeMap. No two nodes spell the same, so the list of *)
(* a scope in source code is what the one node holds that spells its key,  *)
(* and each call changes the list of one scope by one value.               *)
(***************************************************************************)
\* The full path of a node is what it spells.
LEMMA FullPathIs ==
    ASSUME Tree(nodes), NEW spelled, Spelling(nodes, spelled), NEW n \in DOMAIN nodes
    PROVE  FullPath(n) = spelled[n]
<1> DEFINE D == 0..Len(nodes)
           Body(c, f) == IF c = 0 THEN <<>> ELSE f[nodes[c].parent] \o nodes[c].path
           Is(f) == f = [c \in D |-> Body(c, f)]
           from == CHOOSE f : Is(f)
           g == [c \in D |-> IF c = 0 THEN <<>> ELSE spelled[c]]
<1>1. FullPath(n) = from[n]
  BY DEF FullPath
<1>2. /\ DOMAIN nodes = 1..Len(nodes) /\ Len(nodes) \in Nat /\ Root \in DOMAIN nodes
      /\ nodes[Root].parent = 0 /\ nodes[Root].path = <<>> /\ spelled[Root] = <<>>
      /\ \A c \in DOMAIN nodes \ {Root} :
            /\ nodes[c].parent \in DOMAIN nodes /\ c \in nodes[nodes[c].parent].childs
            /\ spelled[c] = spelled[nodes[c].parent] \o nodes[c].path
  <2>1. nodes \in Seq(Node)
    BY DEF Tree
  <2>2. DOMAIN nodes = 1..Len(nodes) /\ Len(nodes) \in Nat
    BY <2>1
  <2> QED
    BY <2>2 DEF Tree, Spelling
<1>3. <<>> \o <<>> = <<>>
  OBVIOUS
<1>4. Is(g)
  <2>1. ASSUME NEW c \in D
        PROVE  g[c] = Body(c, g)
    <3>1. 0 \in D /\ g[0] = <<>>
      BY <1>2
    <3>2. CASE c = 0
      BY <3>1, <3>2
    <3>3. CASE c = Root
      <4>1. g[c] = <<>> /\ c # 0
        BY <1>2, <3>3 DEF Root
      <4>2. Body(c, g) = <<>> \o <<>>
        BY <1>2, <3>1, <3>3, <4>1
      <4> QED
        BY <1>3, <4>1, <4>2
    <3>4. CASE c # 0 /\ c # Root
      <4>1. c \in DOMAIN nodes \ {Root}
        BY <1>2, <3>4
      <4>2. nodes[c].parent \in D /\ nodes[c].parent # 0
        <5>1. \A l \in Nat : \A x \in 1..l : x \in 0..l /\ x # 0
          OBVIOUS
        <5>2. nodes[c].parent \in 1..Len(nodes) /\ Len(nodes) \in Nat
          BY <1>2, <4>1
        <5> QED
          BY <5>1, <5>2
      <4>3. g[nodes[c].parent] = spelled[nodes[c].parent]
        BY <4>2
      <4> QED
        BY <1>2, <3>4, <4>1, <4>3
    <3> QED
      BY <3>2, <3>3, <3>4
  <2> QED
    BY <2>1
<1>5. Is(from)
  BY <1>4
<1>6. \A c \in D : from[c] = IF c = 0 THEN <<>> ELSE from[nodes[c].parent] \o nodes[c].path
  BY <1>5
<1> HIDE DEF from, D
<1>7. \A c \in DOMAIN nodes : from[c] = spelled[c]
  <2> DEFINE Bad == {k \in Nat : \E c \in DOMAIN nodes : k = Len(spelled[c]) /\ from[c] # spelled[c]}
  <2>1. SUFFICES ASSUME Bad # {} PROVE FALSE
    BY SpelledEnd
  <2>2. PICK k \in Bad : \A l \in Bad : k <= l
    <3>1. Bad \in SUBSET Nat
      OBVIOUS
    <3> HIDE DEF Bad
    <3> QED
      BY <2>1, <3>1, LeastExists
  <2>3. PICK c \in DOMAIN nodes : k = Len(spelled[c]) /\ from[c] # spelled[c]
    BY <2>2
  <2>4. 0 \in D /\ c \in D /\ c # 0 /\ Root \in D /\ Root # 0
    BY <1>2 DEF D, Root
  <2>5. from[0] = <<>>
    BY <1>6, <2>4
  <2>6. from[Root] = <<>> \o <<>>
    BY <1>2, <1>6, <2>4, <2>5
  <2>7. c # Root
    BY <1>2, <1>3, <2>3, <2>6
  <2>8. PICK p : p = nodes[c].parent
    OBVIOUS
  <2>9. p \in DOMAIN nodes /\ c \in nodes[p].childs /\ spelled[c] = spelled[p] \o nodes[c].path
    BY <1>2, <2>7, <2>8
  <2>10. Len(spelled[c]) = Len(spelled[p]) + Len(nodes[c].path)
    BY <2>9, SpelledChildLength
  <2>11. Len(spelled[p]) \in Nat /\ Len(nodes[c].path) \in Nat /\ Len(nodes[c].path) # 0
    BY <2>7, <2>9, SpelledEnd
  <2>12. ~(k <= Len(spelled[p]))
    <3>1. \A x, y, z \in Nat : x = y + z /\ z # 0 => ~(x <= y)
      OBVIOUS
    <3>2. k = Len(spelled[p]) + Len(nodes[c].path) /\ k \in Nat
      BY <2>3, <2>10
    <3> QED
      BY <2>11, <3>1, <3>2
  <2>13. Len(spelled[p]) \notin Bad
    BY <2>2, <2>12
  <2>14. from[p] = spelled[p]
    BY <2>9, <2>11, <2>13
  <2>15. from[c] = from[p] \o nodes[c].path
    BY <1>6, <2>4, <2>8
  <2> QED
    BY <2>3, <2>9, <2>14, <2>15
<1> QED
  BY <1>1, <1>7

-----------------------------------------------------------------------------
\* What node a spells is a beginning of what node b does.
Below(spelled, a, b) ==
    Len(spelled[a]) <= Len(spelled[b]) /\ BeginsWith(spelled[b], spelled[a])

LEMMA BelowOrders ==
    ASSUME NEW D, NEW spelled \in [D -> Seq(Characters)]
    PROVE  /\ \A a \in D : Below(spelled, a, a)
           /\ \A a, b, c \in D : Below(spelled, a, b) /\ Below(spelled, b, c) => Below(spelled, a, c)
           /\ \A a, b, c \in D :
                 Below(spelled, a, c) /\ Below(spelled, b, c) /\ Len(spelled[a]) <= Len(spelled[b])
                    => Below(spelled, a, b)
<1>1. \A a \in D : Len(spelled[a]) \in Nat
  OBVIOUS
<1>2. \A a \in D : Below(spelled, a, a)
  BY <1>1 DEF Below, BeginsWith
<1>3. ASSUME NEW a \in D, NEW b \in D, NEW c \in D, Below(spelled, a, b), Below(spelled, b, c)
      PROVE  Below(spelled, a, c)
  <2>1. PICK x \in Nat, y \in Nat, z \in Nat :
           x = Len(spelled[a]) /\ y = Len(spelled[b]) /\ z = Len(spelled[c])
    BY <1>1
  <2>2. x <= y /\ y <= z /\ (\A j \in 1..x : spelled[b][j] = spelled[a][j])
        /\ (\A j \in 1..y : spelled[c][j] = spelled[b][j])
    BY <1>3, <2>1 DEF Below, BeginsWith
  <2>3. x <= z /\ \A j \in 1..x : j \in 1..y
    BY <2>2
  <2>4. \A j \in 1..x : spelled[c][j] = spelled[a][j]
    BY <2>2, <2>3
  <2> QED
    BY <2>1, <2>3, <2>4 DEF Below, BeginsWith
<1>4. ASSUME NEW a \in D, NEW b \in D, NEW c \in D, Below(spelled, a, c), Below(spelled, b, c),
             Len(spelled[a]) <= Len(spelled[b])
      PROVE  Below(spelled, a, b)
  <2>1. PICK x \in Nat, y \in Nat :
           x = Len(spelled[a]) /\ y = Len(spelled[b])
    BY <1>1
  <2>2. x <= y /\ (\A j \in 1..x : spelled[c][j] = spelled[a][j])
        /\ (\A j \in 1..y : spelled[c][j] = spelled[b][j])
    BY <1>4, <2>1 DEF Below, BeginsWith
  <2>3. \A j \in 1..x : j \in 1..y
    BY <2>2
  <2>4. \A j \in 1..x : spelled[b][j] = spelled[a][j]
    BY <2>2, <2>3
  <2> QED
    BY <2>1, <2>2, <2>4 DEF Below, BeginsWith
<1>5. \A a, b, c \in D : Below(spelled, a, b) /\ Below(spelled, b, c) => Below(spelled, a, c)
  BY <1>3
<1>6. \A a, b, c \in D :
         Below(spelled, a, c) /\ Below(spelled, b, c) /\ Len(spelled[a]) <= Len(spelled[b])
            => Below(spelled, a, b)
  BY <1>4
<1> QED
  BY <1>2, <1>5, <1>6

\* Of the children of a node at most one leads to another node.
LEMMA OneChildTowards ==
    ASSUME NEW forest, Tree(forest), NEW spelled, Spelling(forest, spelled),
           NEW q \in DOMAIN forest, NEW c \in forest[q].childs, NEW d \in forest[q].childs,
           NEW b \in DOMAIN forest, Below(spelled, c, b), Below(spelled, d, b)
    PROVE  c = d
<1>1. PICK x \in Nat : x = Len(spelled[q])
  BY SpelledEnd
<1>2. ASSUME NEW e \in forest[q].childs, Below(spelled, e, b)
      PROVE  forest[e].path[1] = spelled[b][x + 1]
  <2>1. e \in DOMAIN forest \ {Root}
    BY DEF Tree
  <2>2. PICK y \in Nat, z \in Nat : y = Len(forest[e].path) /\ z = Len(spelled[e])
    BY <2>1, SpelledEnd
  <2>3. z = x + y
    BY <1>1, <2>2, SpelledChildLength
  <2>4. y # 0
    BY <2>1, <2>2, SpelledEnd
  <2>5. \A j \in 1..y : spelled[e][z - y + j] = forest[e].path[j]
    <3>1. EndsWith(spelled[e], forest[e].path)
      BY <2>1, SpelledEnd
    <3> QED
      BY <2>2, <3>1 DEF EndsWith
  <2>6. 1 \in 1..y /\ z - y + 1 = x + 1 /\ x + 1 \in 1..z
    BY <2>3, <2>4
  <2>7. spelled[e][z - y + 1] = forest[e].path[1]
    BY <2>5, <2>6
  <2>8. \A j \in 1..z : spelled[b][j] = spelled[e][j]
    BY <1>2, <2>2 DEF Below, BeginsWith
  <2> QED
    BY <2>6, <2>7, <2>8
<1> QED
  BY <1>2 DEF Tree

\* A node that spells a beginning of what another one does has a child on the way to it.
LEMMA ChildTowards ==
    ASSUME NEW forest, Tree(forest), NEW spelled, Spelling(forest, spelled)
    PROVE  \A a, b \in DOMAIN forest :
              Below(spelled, a, b) => a = b \/ \E c \in forest[a].childs : Below(spelled, c, b)
<1> DEFINE L(n) == Len(spelled[n])
           Fails(a, b) == /\ Below(spelled, a, b) /\ a # b
                          /\ ~ \E c \in forest[a].childs : Below(spelled, c, b)
           Bad == {k \in Nat : \E a, b \in DOMAIN forest : k = L(a) + L(b) /\ Fails(a, b)}
<1>1. \A n \in DOMAIN forest : L(n) \in Nat
  BY SpelledEnd
<1>2. SUFFICES ASSUME Bad # {} PROVE FALSE
  <2>1. \A c, d \in DOMAIN forest : L(c) + L(d) \in Nat
    <3>1. \A x, y \in Nat : x + y \in Nat
      OBVIOUS
    <3> HIDE DEF L
    <3> QED
      BY <1>1, <3>1
  <2>2. ASSUME Bad = {}, NEW c \in DOMAIN forest, NEW d \in DOMAIN forest
        PROVE  ~Fails(c, d)
    <3>1. PICK x \in Nat : x = L(c) + L(d)
      BY <2>1
    <3>2. x \notin Bad
      BY <2>2
    <3> HIDE DEF L, Fails
    <3> QED
      BY <3>1, <3>2
  <2> HIDE DEF Bad
  <2> QED
    BY <2>2
<1>3. PICK k \in Bad : \A l \in Bad : k <= l
  <2>1. Bad \in SUBSET Nat
    OBVIOUS
  <2> HIDE DEF Bad
  <2> QED
    BY <1>2, <2>1, LeastExists
<1>4. PICK a \in DOMAIN forest, b \in DOMAIN forest : k = L(a) + L(b) /\ Fails(a, b)
  BY <1>3
<1>5. ASSUME NEW c \in DOMAIN forest, NEW d \in DOMAIN forest, L(c) + L(d) < L(a) + L(b)
      PROVE  ~Fails(c, d)
  <2>0. \A x, y \in Nat : x < y => ~(y <= x)
    OBVIOUS
  <2>1. PICK x \in Nat : x = L(c) + L(d)
    <3>1. \A i, j \in Nat : i + j \in Nat
      OBVIOUS
    <3> HIDE DEF L
    <3> QED
      BY <1>1, <3>1
  <2>2. ~(k <= x) /\ x \in Nat
    <3>1. k \in Nat /\ x < k
      BY <1>4, <1>5, <2>1
    <3> QED
      BY <2>0, <3>1
  <2>3. x \notin Bad
    BY <1>3, <2>2
  <2> HIDE DEF L, Fails
  <2> QED
    BY <2>1, <2>3
<1>6. \A n \in DOMAIN forest \ {Root} :
         \E q \in DOMAIN forest : n \in forest[q].childs /\ Below(spelled, q, n) /\ L(q) < L(n)
  <2> TAKE n \in DOMAIN forest \ {Root}
  <2>1. PICK q \in DOMAIN forest : n \in forest[q].childs
    BY DEF Tree
  <2>2. BeginsWith(spelled[n], spelled[q])
    BY <2>1, SpelledChild
  <2>3. L(n) = L(q) + Len(forest[n].path)
    <3>1. \A p \in DOMAIN forest : \A c \in forest[p].childs :
             Len(spelled[c]) = Len(spelled[p]) + Len(forest[c].path)
      BY SpelledChildLength
    <3>2. Len(spelled[n]) = Len(spelled[q]) + Len(forest[n].path)
      BY <2>1, <3>1
    <3> QED
      BY <3>2
  <2>4. Len(forest[n].path) \in Nat /\ Len(forest[n].path) # 0
    BY SpelledEnd
  <2>5. L(q) < L(n) /\ L(q) <= L(n)
    <3>1. \A x, y, z \in Nat : x = y + z /\ z # 0 => y < x /\ y <= x
      OBVIOUS
    <3>2. L(n) \in Nat /\ L(q) \in Nat
      BY <1>1
    <3> HIDE DEF L
    <3> QED
      BY <2>3, <2>4, <3>1, <3>2
  <2> QED
    BY <2>1, <2>2, <2>5 DEF Below
<1>7. L(Root) = 0 /\ Root \in DOMAIN forest
  BY DEF Tree, Spelling
<1>8. \A c, d \in DOMAIN forest : Below(spelled, c, d) => L(c) <= L(d)
  BY DEF Below
<1>9. /\ \A c \in DOMAIN forest : Below(spelled, c, c)
      /\ \A c, d, e \in DOMAIN forest :
            Below(spelled, c, d) /\ Below(spelled, d, e) => Below(spelled, c, e)
      /\ \A c, d, e \in DOMAIN forest :
            Below(spelled, c, e) /\ Below(spelled, d, e) /\ L(c) <= L(d) => Below(spelled, c, d)
  <2>1. spelled \in [DOMAIN forest -> Seq(Characters)]
    BY DEF Spelling
  <2> QED
    BY <2>1, BelowOrders
<1>10. \A q \in DOMAIN forest : \A c \in forest[q].childs : c \in DOMAIN forest
  BY DEF Tree
<1>11. Below(spelled, a, b) /\ a # b /\ \A c \in forest[a].childs : ~Below(spelled, c, b)
  BY <1>4
<1>12. \A c, d \in DOMAIN forest :
          L(c) + L(d) < L(a) + L(b) /\ Below(spelled, c, d) /\ c # d
             => \E e \in forest[c].childs : Below(spelled, e, d)
  BY <1>5
<1> HIDE DEF L, Fails, Bad
<1>13. b # Root
  <2>1. SUFFICES ASSUME b = Root PROVE FALSE
    OBVIOUS
  <2>2. PICK q \in DOMAIN forest : L(q) < L(a)
    BY <1>6, <1>11, <2>1
  <2> QED
    BY <1>1, <1>7, <1>8, <1>11, <2>1, <2>2
<1>14. PICK q \in DOMAIN forest : b \in forest[q].childs /\ Below(spelled, q, b) /\ L(q) < L(b)
  BY <1>6, <1>13
<1>15. L(a) \in Nat /\ L(b) \in Nat /\ L(q) \in Nat
  BY <1>1
<1>16. CASE L(a) <= L(q)
  <2>1. Below(spelled, a, q)
    BY <1>9, <1>11, <1>14, <1>16
  <2>2. L(a) + L(q) < L(a) + L(b)
    BY <1>14, <1>15
  <2>3. a # q
    BY <1>9, <1>11, <1>14
  <2>4. PICK e \in forest[a].childs : Below(spelled, e, q)
    BY <1>12, <2>1, <2>2, <2>3
  <2> QED
    BY <1>9, <1>10, <1>11, <1>14, <2>4
<1>17. CASE L(q) < L(a)
  <2>1. Below(spelled, q, a)
    BY <1>9, <1>11, <1>14, <1>15, <1>17
  <2>2. L(q) + L(a) < L(a) + L(b) /\ q # a
    BY <1>14, <1>15, <1>17
  <2>3. PICK e \in forest[q].childs : Below(spelled, e, a)
    BY <1>12, <2>1, <2>2
  <2>4. e = b
    BY <1>9, <1>10, <1>11, <1>14, <2>3, OneChildTowards
  <2>5. Below(spelled, b, a) /\ L(a) = L(b)
    BY <1>8, <1>11, <1>15, <2>3, <2>4
  <2>6. a # Root
    BY <1>7, <1>15, <1>17
  <2>7. PICK r \in DOMAIN forest : a \in forest[r].childs /\ Below(spelled, r, a) /\ L(r) < L(a)
    BY <1>6, <2>6
  <2>8. L(r) \in Nat
    BY <1>1
  <2>9. L(q) + L(r) < L(a) + L(b) /\ L(r) + L(q) < L(a) + L(b)
    BY <1>14, <1>15, <2>7, <2>8
  <2>10. q # r
    <3>1. SUFFICES ASSUME q = r PROVE FALSE
      OBVIOUS
    <3> QED
      BY <1>9, <1>11, <1>14, <2>7, <3>1, OneChildTowards
  <2>11. CASE L(q) <= L(r)
    <3>1. Below(spelled, q, r)
      BY <1>9, <2>1, <2>7, <2>11
    <3>2. PICK f \in forest[q].childs : Below(spelled, f, r)
      BY <1>12, <2>9, <2>10, <3>1
    <3>3. f \in DOMAIN forest /\ Below(spelled, f, a) /\ Below(spelled, f, b)
      BY <1>9, <1>10, <1>11, <2>7, <3>2
    <3>4. f = b
      BY <1>9, <1>14, <3>3, OneChildTowards
    <3>5. L(b) <= L(r)
      BY <1>8, <3>2, <3>4
    <3> QED
      BY <1>15, <2>5, <2>7, <2>8, <3>5
  <2>12. CASE L(r) < L(q)
    <3>1. L(r) <= L(q)
      BY <1>15, <2>8, <2>12
    <3>2. Below(spelled, r, q)
      BY <1>9, <2>1, <2>7, <3>1
    <3>3. PICK f \in forest[r].childs : Below(spelled, f, q)
      BY <1>12, <2>9, <2>10, <3>2
    <3>4. f \in DOMAIN forest /\ Below(spelled, f, a)
      BY <1>9, <1>10, <2>1, <3>3
    <3>5. f = a
      BY <1>9, <2>7, <3>4, OneChildTowards
    <3>6. L(a) <= L(q)
      BY <1>8, <3>3, <3>5
    <3> QED
      BY <1>15, <1>17, <3>6
  <2> QED
    BY <1>15, <2>8, <2>11, <2>12
<1> QED
  BY <1>15, <1>16, <1>17

\* No two nodes spell the same.
LEMMA SpelledOnce ==
    ASSUME NEW forest, Tree(forest), NEW spelled, Spelling(forest, spelled),
           NEW a \in DOMAIN forest, NEW b \in DOMAIN forest, spelled[a] = spelled[b]
    PROVE  a = b
<1>1. SUFFICES ASSUME a # b PROVE FALSE
  OBVIOUS
<1>2. Len(spelled[a]) \in Nat /\ Len(spelled[b]) \in Nat /\ Len(spelled[a]) = Len(spelled[b])
  BY SpelledEnd
<1>3. Below(spelled, a, b)
  BY <1>2 DEF Below, BeginsWith
<1>4. PICK c \in forest[a].childs : Below(spelled, c, b)
  BY <1>1, <1>3, ChildTowards
<1>5. c \in DOMAIN forest \ {Root}
  BY DEF Tree
<1>6. Len(spelled[c]) = Len(spelled[a]) + Len(forest[c].path)
  BY SpelledChildLength
<1>7. Len(forest[c].path) \in Nat /\ Len(forest[c].path) # 0
  BY <1>5, SpelledEnd
<1>8. Len(spelled[c]) <= Len(spelled[b])
  BY <1>4 DEF Below
<1>9. \A x, y, z, w \in Nat : z = x + w /\ w # 0 /\ x = y => ~(z <= y)
  OBVIOUS
<1>10. Len(spelled[c]) \in Nat
  BY <1>5, SpelledEnd
<1> QED
  BY <1>2, <1>6, <1>7, <1>8, <1>9, <1>10

-----------------------------------------------------------------------------
\* The sequence of a set that has one element at most.
LEMMA SequenceOf ==
    /\ SetToSeq({}) = <<>>
    /\ \A v : SetToSeq({v}) = <<v>>
<1>1. SetToSeq({}) = <<>>
  <2>1. Cardinality({}) = 0 /\ 1..0 = {}
    BY FS_EmptySet
  <2>2. \A f : f \in [1..0 -> {}] => f = <<>>
    OBVIOUS
  <2>3. <<>> \in [1..0 -> {}] /\ IsInjective(<<>>)
    BY DEF IsInjective
  <2>4. \E f \in [1..Cardinality({}) -> {}] : IsInjective(f)
    BY <2>1, <2>3
  <2>5. SetToSeq({}) \in [1..Cardinality({}) -> {}]
    BY <2>4 DEF SetToSeq
  <2> QED
    BY <2>1, <2>2, <2>5
<1>2. ASSUME NEW v
      PROVE  SetToSeq({v}) = <<v>>
  <2>1. Cardinality({v}) = 1
    BY FS_Singleton
  <2>2. \A f : f \in [1..1 -> {v}] => f = <<v>>
    OBVIOUS
  <2>3. <<v>> \in [1..1 -> {v}] /\ IsInjective(<<v>>)
    BY DEF IsInjective
  <2>4. \E f \in [1..Cardinality({v}) -> {v}] : IsInjective(f)
    BY <2>1, <2>3
  <2>5. SetToSeq({v}) \in [1..Cardinality({v}) -> {v}]
    BY <2>4 DEF SetToSeq
  <2> QED
    BY <2>1, <2>2, <2>5
<1> QED
  BY <1>1, <1>2
-----------------------------------------------------------------------------
\* The list of a scope in source code: the value of the node that stands for it, if there is one.
Holds(forest, spelled, key, list) ==
    \/ list = <<>> /\ \A n \in DOMAIN forest : spelled[n] = key => forest[n].value = Null
    \/ \E n \in DOMAIN forest : /\ spelled[n] = key /\ forest[n].value # Null
                                /\ list = <<forest[n].value>>

One(v) == IF v = Null THEN <<>> ELSE <<v>>

LEMMA HoldsOnce ==
    ASSUME NEW forest, Tree(forest), NEW spelled, Spelling(forest, spelled), NEW key,
           NEW list, Holds(forest, spelled, key, list), NEW other, Holds(forest, spelled, key, other)
    PROVE  list = other
<1>1. \A a, b \in DOMAIN forest : spelled[a] = key /\ spelled[b] = key => a = b
  BY SpelledOnce
<1> QED
  BY <1>1 DEF Holds

LEMMA HoldsMoved ==
    ASSUME NEW f, NEW fs, NEW g, NEW gs, NEW moved, Moved(f, fs, g, gs, moved), NEW key, NEW list,
           Holds(f, fs, key, list)
    PROVE  Holds(g, gs, key, list)
<1>1. CASE list = <<>> /\ \A n \in DOMAIN f : fs[n] = key => f[n].value = Null
  <2>1. ASSUME NEW d \in DOMAIN g, gs[d] = key
        PROVE  g[d].value = Null
    <3>1. CASE \E c \in DOMAIN f : moved[c] = d
      <4>1. PICK c \in DOMAIN f : moved[c] = d
        BY <3>1
      <4>2. g[d].value = f[c].value /\ gs[d] = fs[c]
        BY <4>1 DEF Moved
      <4> QED
        BY <1>1, <2>1, <4>2
    <3>2. CASE \A c \in DOMAIN f : moved[c] # d
      BY <3>2 DEF Moved
    <3> QED
      BY <3>1, <3>2
  <2> QED
    BY <1>1, <2>1 DEF Holds
<1>2. CASE \E n \in DOMAIN f : fs[n] = key /\ f[n].value # Null /\ list = <<f[n].value>>
  <2>1. PICK n \in DOMAIN f : fs[n] = key /\ f[n].value # Null /\ list = <<f[n].value>>
    BY <1>2
  <2>2. moved[n] \in DOMAIN g /\ g[moved[n]].value = f[n].value /\ gs[moved[n]] = fs[n]
    BY DEF Moved
  <2> QED
    BY <2>1, <2>2 DEF Holds
<1> QED
  BY <1>1, <1>2 DEF Holds

LEMMA HoldsSet ==
    ASSUME NEW forest, Tree(forest), NEW spelled, Spelling(forest, spelled), NEW n \in DOMAIN forest,
           NEW new, NEW after, DOMAIN after = DOMAIN forest, after[n].value = new,
           \A c \in DOMAIN forest : c # n => after[c].value = forest[c].value
    PROVE  /\ Holds(after, spelled, spelled[n], One(new))
           /\ \A key, list : key # spelled[n] /\ Holds(forest, spelled, key, list)
                                => Holds(after, spelled, key, list)
<1>1. Holds(after, spelled, spelled[n], One(new))
  <2>1. CASE new = Null
    <3>1. \A c \in DOMAIN after : spelled[c] = spelled[n] => after[c].value = Null
      BY <2>1, SpelledOnce
    <3> QED
      BY <2>1, <3>1 DEF Holds, One
  <2>2. CASE new # Null
    BY <2>2 DEF Holds, One
  <2> QED
    BY <2>1, <2>2
<1>2. ASSUME NEW key, NEW list, key # spelled[n], Holds(forest, spelled, key, list)
      PROVE  Holds(after, spelled, key, list)
  BY <1>2 DEF Holds
<1> QED
  BY <1>1, <1>2

LEMMA ValueOfIs ==
    ASSUME Tree(nodes), NEW spelled, Spelling(nodes, spelled), NEW key
    PROVE  Holds(nodes, spelled, key, ValueOf(key))
<1> DEFINE S == {f[2] : f \in {g \in FoundValues : g[1] = key}}
<1>1. \A n \in DOMAIN nodes : FullPath(n) = spelled[n]
  BY FullPathIs
<1>2. \A x : x \in S <=> \E n \in DOMAIN nodes :
                            nodes[n].value # Null /\ spelled[n] = key /\ x = nodes[n].value
  <2>1. ASSUME NEW x \in S
        PROVE  \E n \in DOMAIN nodes : nodes[n].value # Null /\ spelled[n] = key /\ x = nodes[n].value
    <3>1. PICK f \in FoundValues : f[1] = key /\ x = f[2]
      OBVIOUS
    <3>2. PICK n \in DOMAIN nodes : nodes[n].value # Null /\ f = <<FullPath(n), nodes[n].value>>
      BY DEF FoundValues
    <3> QED
      BY <1>1, <3>1, <3>2
  <2>2. ASSUME NEW n \in DOMAIN nodes, nodes[n].value # Null, spelled[n] = key
        PROVE  nodes[n].value \in S
    <3>1. <<FullPath(n), nodes[n].value>> \in FoundValues
      BY <2>2 DEF FoundValues
    <3> QED
      BY <1>1, <2>2, <3>1
  <2> QED
    BY <2>1, <2>2
<1>3. ValueOf(key) = SetToSeq(S)
  BY DEF ValueOf
<1> HIDE DEF S
<1>4. CASE \A n \in DOMAIN nodes : spelled[n] = key => nodes[n].value = Null
  <2>1. S = {}
    BY <1>2, <1>4
  <2> QED
    BY <1>3, <1>4, <2>1, SequenceOf DEF Holds
<1>5. CASE \E n \in DOMAIN nodes : spelled[n] = key /\ nodes[n].value # Null
  <2>1. PICK n \in DOMAIN nodes : spelled[n] = key /\ nodes[n].value # Null
    BY <1>5
  <2>2. \A m \in DOMAIN nodes : spelled[m] = key => m = n
    BY <2>1, SpelledOnce
  <2>3. S = {nodes[n].value}
    BY <1>2, <2>1, <2>2
  <2>4. ValueOf(key) = <<nodes[n].value>>
    BY <1>3, <2>3, SequenceOf
  <2> QED
    BY <2>1, <2>4 DEF Holds
<1> QED
  BY <1>4, <1>5

\* What the abstract map has for a scope in source code is what the nodes hold for it.
CodeExact == \A spelled, key : Spelling(nodes, spelled) => Holds(nodes, spelled, key, ValueOf(key))

LEMMA StoreCodeExact == StoreIInv => CodeExact
BY ValueOfIs DEF StoreIInv, ShapesOf, CodeExact

LEMMA CodeStays ==
    ASSUME StoreIInv, CodeExact, CodeExact', nodes' = nodes
    PROVE  \A key : ValueOf(key)' = ValueOf(key)
<1>1. Tree(nodes)
  BY DEF StoreIInv, ShapesOf
<1>2. PICK spelled : Spelling(nodes, spelled)
  BY DEF StoreIInv, ShapesOf
<1>3. ASSUME NEW key
      PROVE  ValueOf(key)' = ValueOf(key)
  <2>1. Holds(nodes, spelled, key, ValueOf(key))
    BY <1>2 DEF CodeExact
  <2>2. Holds(nodes', spelled, key, ValueOf(key)')
    BY <1>2 DEF CodeExact
  <2>3. Holds(nodes, spelled, key, ValueOf(key)')
    BY <2>2
  <2> QED
    BY <1>1, <1>2, <2>1, <2>3, HoldsOnce
<1> QED
  BY <1>3

\* A change of one scope in source code leaves all others alone.
LEMMA CodeChanges ==
    ASSUME StoreIInv, CodeExact, CodeExact', NEW new \in Nat, new = Null \/ new \notin Live,
           NEW key \in Seq(Characters), AccessCode(key, new), NEW c, c = Create(key)
    PROVE  /\ ValueOf(key) = One(c.nodes[c.node].value)
           /\ ValueOf(key)' = One(new)
           /\ \A k : k # key => ValueOf(k)' = ValueOf(k)
<1>1. nodes' = [c.nodes EXCEPT ![c.node].value = new]
  BY DEF AccessCode
<1>2. Tree(nodes) /\ NodesOnce(nodes)
  BY DEF StoreIInv, ShapesOf
<1>3. PICK spelled : Spelling(nodes, spelled)
  BY DEF StoreIInv, ShapesOf
<1>4. PICK newSpelled : Grown(nodes, spelled, c.nodes, newSpelled) /\ newSpelled[c.node] = key
  BY <1>2, <1>3, CreateTree
<1>5. c.node \in DOMAIN c.nodes
  BY <1>2, <1>3, CreateTree
<1>6. PICK moved : Moved(nodes, spelled, c.nodes, newSpelled, moved)
  BY <1>4 DEF Grown
<1>7. NodesOnce(c.nodes) /\ NodeObjects(c.nodes) = NodeObjects(nodes)
  BY <1>2, <1>4, MovedObjects
<1>8. new \notin NodeObjects(c.nodes)
  <2>1. Null \notin NodeObjects(nodes)
    BY DEF NodeObjects
  <2>2. NodeObjects(nodes) \subseteq Live
    BY DEF StoreIInv, Places3, Parted
  <2> QED
    BY <1>7, <2>1, <2>2
<1>9. Tree(c.nodes) /\ Spelling(c.nodes, newSpelled)
  BY <1>4 DEF Grown
<1>10. Tree(nodes') /\ Spelling(nodes', newSpelled)
  BY <1>1, <1>5, <1>7, <1>8, <1>9, ValueSet
<1>11. DOMAIN nodes' = DOMAIN c.nodes /\ nodes'[c.node].value = new
       /\ \A d \in DOMAIN c.nodes : d # c.node => nodes'[d].value = c.nodes[d].value
  <2>1. c.nodes[c.node] \in Node
    BY <1>5, <1>9 DEF Tree
  <2> QED
    BY <1>1, <1>5, <2>1 DEF Node
<1>12. \A k : Holds(c.nodes, newSpelled, k, ValueOf(k))
  BY <1>3, <1>6, HoldsMoved DEF CodeExact
<1>13. \A k : Holds(nodes', newSpelled, k, ValueOf(k)')
  BY <1>10 DEF CodeExact
<1>14. /\ Holds(nodes', newSpelled, key, One(new))
       /\ \A k, list : k # key /\ Holds(c.nodes, newSpelled, k, list)
                          => Holds(nodes', newSpelled, k, list)
  BY <1>4, <1>5, <1>9, <1>11, HoldsSet
<1>15. ValueOf(key)' = One(new)
  BY <1>10, <1>13, <1>14, HoldsOnce
<1>16. ASSUME NEW k, k # key
       PROVE  ValueOf(k)' = ValueOf(k)
  <2>1. Holds(nodes', newSpelled, k, ValueOf(k)) /\ Holds(nodes', newSpelled, k, ValueOf(k)')
    BY <1>12, <1>13, <1>14, <1>16
  <2> QED
    BY <1>10, <2>1, HoldsOnce
<1>17. ValueOf(key) = One(c.nodes[c.node].value)
  <2>1. Holds(c.nodes, newSpelled, key, One(c.nodes[c.node].value))
    <3>1. PICK v : v = c.nodes[c.node].value
      OBVIOUS
    <3>2. Holds(c.nodes, newSpelled, newSpelled[c.node], One(v))
      BY <1>5, <1>9, <3>1, HoldsSet
    <3> QED
      BY <1>4, <3>1, <3>2
  <2>2. Holds(c.nodes, newSpelled, key, ValueOf(key))
    BY <1>12
  <2> QED
    BY <1>9, <2>1, <2>2, HoldsOnce
<1> QED
  BY <1>15, <1>16, <1>17
-----------------------------------------------------------------------------
\* The abstract map, scope by scope.
LEMMA ValuesAre ==
    /\ Values = [scope \in AllScopes |-> Values[scope]]
    /\ Values[<<"Global">>] = One(globalStore)
    /\ \A k \in Keys : Values[<<"Code", k>>] = ValueOf(k)
    /\ \A s \in ThreadScopes, t \in Threads : Values[<<s, t>>] = threadStore[s][t]
<1>1. <<"Global">> \in AllScopes
  BY DEF AllScopes
<1>2. \A k \in Keys : <<"Code", k>> \in AllScopes
  BY DEF AllScopes
<1>3. \A s \in ThreadScopes, t \in Threads : <<s, t>> \in AllScopes /\ s # "Global" /\ s # "Code"
  BY DEF AllScopes, ThreadScopes
<1> HIDE DEF AllScopes, Keys, ThreadScopes
<1> QED
  BY <1>1, <1>2, <1>3 DEF Values, ValueOf, One

LEMMA NextValuesAre ==
    /\ Values' = [scope \in AllScopes |-> Values'[scope]]
    /\ Values'[<<"Global">>] = One(globalStore')
    /\ \A k \in Keys : Values'[<<"Code", k>>] = ValueOf(k)'
    /\ \A s \in ThreadScopes, t \in Threads : Values'[<<s, t>>] = threadStore'[s][t]
<1>1. <<"Global">> \in AllScopes
  BY DEF AllScopes
<1>2. \A k \in Keys : <<"Code", k>> \in AllScopes
  BY DEF AllScopes
<1>3. \A s \in ThreadScopes, t \in Threads : <<s, t>> \in AllScopes /\ s # "Global" /\ s # "Code"
  BY DEF AllScopes, ThreadScopes
<1> HIDE DEF AllScopes, Keys, ThreadScopes
<1> QED
  BY <1>1, <1>2, <1>3 DEF Values, ValueOf, One

LEMMA ScopesAre ==
    ASSUME NEW scope \in AllScopes
    PROVE  \/ scope = <<"Global">>
           \/ \E k \in Keys : scope = <<"Code", k>>
           \/ \E s \in ThreadScopes, t \in Threads : scope = <<s, t>>
BY DEF AllScopes

Stacks == IF cfgSingleThreadValue THEN {} ELSE ThreadScopes \X Threads

\* The list of one scope changes, and no other.
Becomes(scope, list) ==
    /\ scope \in AllScopes /\ Values'[scope] = list
    /\ \A r \in AllScopes : r # scope => Values'[r] = Values[r]

\* What may become of a list: nothing, one value more, or one less.
MayBecome(scope, list) ==
    \/ list = Values[scope]
    \/ \E o \in Objects : /\ o \notin Map!Stored
                          /\ list = IF scope \in Stacks THEN Append(Values[scope], o) ELSE <<o>>
    \/ \E i \in DOMAIN Values[scope] : list = RemoveAt(Values[scope], i)

LEMMA BecomesMaps ==
    ASSUME NEW scope, NEW list, Becomes(scope, list), MayBecome(scope, list),
           cfgSingleThreadValue' = cfgSingleThreadValue
    PROVE  [Map!Next]_<<Values, Stacks>>
<1>1. Stacks' = Stacks
  BY DEF Stacks
<1>2. Values = [r \in AllScopes |-> Values[r]] /\ Values' = [r \in AllScopes |-> Values'[r]]
  BY ValuesAre, NextValuesAre
<1>3. scope \in AllScopes /\ Values'[scope] = list
      /\ \A r \in AllScopes : r # scope => Values'[r] = Values[r]
  BY DEF Becomes
<1>4. CASE list = Values[scope]
  <2>1. \A r \in AllScopes : Values'[r] = Values[r]
    BY <1>3, <1>4
  <2>2. Values' = Values
    BY <1>2, <2>1
  <2> QED
    BY <1>1, <2>2
<1>5. CASE list # Values[scope]
  <2>1. Values' = [Values EXCEPT ![scope] = Values'[scope]]
    BY <1>2, <1>3
  <2>2. \/ \E o \in Objects : /\ o \notin Map!Stored
                              /\ list = IF scope \in Stacks THEN Append(Values[scope], o) ELSE <<o>>
        \/ \E i \in DOMAIN Values[scope] : list = RemoveAt(Values[scope], i)
    BY <1>5 DEF MayBecome
  <2>3. (\E o \in Objects : Map!Put(scope, o)) \/ (\E i \in DOMAIN Values[scope] : Map!Take(scope, i))
    <3>1. Values'[scope] = list
      BY <1>3
    <3>2. ASSUME NEW o \in Objects, o \notin Map!Stored,
                 list = IF scope \in Stacks THEN Append(Values[scope], o) ELSE <<o>>
          PROVE  Map!Put(scope, o)
      BY <3>1, <3>2 DEF Map!Put, Stacks
    <3>3. ASSUME NEW i \in DOMAIN Values[scope], list = RemoveAt(Values[scope], i)
          PROVE  Map!Take(scope, i)
      BY <3>1, <3>3 DEF Map!Take, Map!RemoveAt, RemoveAt
    <3> QED
      BY <2>2, <3>2, <3>3
  <2>4. Map!Change(scope)
    BY <1>3, <1>5, <2>1, <2>3 DEF Map!Change, Map!Others
  <2>5. Map!Next
    BY <1>1, <1>3, <2>4 DEF Map!Next, Stacks
  <2> QED
    BY <2>5
<1> QED
  BY <1>4, <1>5
\* To take the last of a list is to remove it.
LEMMA FrontIsRemoved ==
    ASSUME NEW S, NEW list \in Seq(S), list # <<>>
    PROVE  Front(list) = RemoveAt(list, Len(list)) /\ Len(list) \in DOMAIN list
<1>1. PICK l \in Nat : l = Len(list) /\ DOMAIN list = 1..l
  OBVIOUS
<1>2. l # 0 /\ l \in DOMAIN list
  BY <1>1, EmptySeq
<1>3. PICK a : a = SubSeq(list, 1, l - 1)
  OBVIOUS
<1>4. PICK b : b = SubSeq(list, l + 1, l)
  OBVIOUS
<1>5. a \in Seq(S)
  <2>1. \A i \in 1..l - 1 : list[i] \in S
    BY <1>1
  <2> QED
    BY <1>1, <1>3, <2>1, SubSeqProperties
<1>6. b = <<>>
  BY <1>1, <1>4, SubSeqEmpty
<1>7. a \o <<>> = a
  BY <1>5, ConcatEmptySeq
<1>8. Front(list) = a
  BY <1>1, <1>3 DEF Front
<1>9. RemoveAt(list, l) = a \o b
  BY <1>1, <1>3, <1>4 DEF RemoveAt
<1> QED
  BY <1>1, <1>2, <1>6, <1>7, <1>8, <1>9

\* The values in the abstract map are objects that were not deleted.
LEMMA StoredLive ==
    ASSUME StoreIInv, CodeExact
    PROVE  Map!Stored \subseteq Live
<1>1. /\ NodeObjects(nodes) \subseteq Live /\ GlobalObjects(globalStore) \subseteq Live
      /\ ThreadObjects(threadStore) \subseteq Live
  BY DEF StoreIInv, Places3, Parted
<1>2. PICK spelled : Spelling(nodes, spelled)
  BY DEF StoreIInv, ShapesOf
<1>3. ASSUME NEW scope \in AllScopes, NEW o \in ToSet(Values[scope])
      PROVE  o \in Live
  <2>1. CASE scope = <<"Global">>
    <3>1. Values[scope] = One(globalStore)
      BY <2>1, ValuesAre
    <3>2. o \in ToSet(One(globalStore))
      BY <1>3, <3>1
    <3>3. o = globalStore /\ o # Null
      BY <3>2 DEF ToSet, One
    <3> QED
      BY <1>1, <3>3 DEF GlobalObjects
  <2>2. ASSUME NEW k \in Keys, scope = <<"Code", k>>
        PROVE  o \in Live
    <3>1. o \in ToSet(ValueOf(k))
      BY <1>3, <2>2, ValuesAre
    <3>2. Holds(nodes, spelled, k, ValueOf(k))
      BY <1>2 DEF CodeExact
    <3>3. ValueOf(k) # <<>>
      BY <3>1 DEF ToSet
    <3>4. PICK n \in DOMAIN nodes : nodes[n].value # Null /\ ValueOf(k) = <<nodes[n].value>>
      BY <3>2, <3>3 DEF Holds
    <3>5. o = nodes[n].value
      BY <3>1, <3>4 DEF ToSet
    <3> QED
      BY <1>1, <3>4, <3>5 DEF NodeObjects
  <2>3. ASSUME NEW s \in ThreadScopes, NEW t \in Threads, scope = <<s, t>>
        PROVE  o \in Live
    <3>1. o \in ToSet(threadStore[s][t])
      BY <1>3, <2>3, ValuesAre
    <3> QED
      BY <1>1, <3>1 DEF ThreadObjects
  <2> QED
    BY <2>1, <2>2, <2>3, ScopesAre
<1> QED
  <2>1. Map!Stored = UNION {ToSet(Values[scope]) : scope \in AllScopes}
    BY DEF Map!Stored, Map!ToSet, ToSet
  <2> QED
    BY <1>3, <2>1

LEMMA GlobalBecomes ==
    ASSUME StoreIInv, CodeExact, CodeExact', NEW new, AccessGlobal(new)
    PROVE  Becomes(<<"Global">>, One(new)) /\ Values[<<"Global">>] = One(globalStore)
<1>1. globalStore' = new /\ nodes' = nodes /\ threadStore' = threadStore
  BY DEF AccessGlobal
<1>2. \A key : ValueOf(key)' = ValueOf(key)
  BY <1>1, CodeStays
<1>3. \A r \in AllScopes : r # <<"Global">> => Values'[r] = Values[r]
  <2> TAKE r \in AllScopes
  <2>1. CASE r = <<"Global">>
    BY <2>1
  <2>2. ASSUME NEW k \in Keys, r = <<"Code", k>>
        PROVE  Values'[r] = Values[r]
    BY <1>2, <2>2, ValuesAre, NextValuesAre
  <2>3. ASSUME NEW s \in ThreadScopes, NEW t \in Threads, r = <<s, t>>
        PROVE  Values'[r] = Values[r]
    BY <1>1, <2>3, ValuesAre, NextValuesAre
  <2> QED
    BY <2>1, <2>2, <2>3, ScopesAre
<1>4. <<"Global">> \in AllScopes
  BY DEF AllScopes
<1> QED
  BY <1>1, <1>3, <1>4, ValuesAre, NextValuesAre DEF Becomes

LEMMA CodeBecomes ==
    ASSUME StoreIInv, CodeExact, CodeExact', NEW new \in Nat, new = Null \/ new \notin Live,
           NEW key \in Keys, key \in Seq(Characters), AccessCode(key, new), NEW c, c = Create(key)
    PROVE  /\ Becomes(<<"Code", key>>, One(new))
           /\ Values[<<"Code", key>>] = One(c.nodes[c.node].value)
<1>1. globalStore' = globalStore /\ threadStore' = threadStore
  BY DEF AccessCode
<1>2. /\ ValueOf(key) = One(c.nodes[c.node].value) /\ ValueOf(key)' = One(new)
      /\ \A k : k # key => ValueOf(k)' = ValueOf(k)
  BY CodeChanges
<1>3. ASSUME NEW r \in AllScopes, r # <<"Code", key>>
      PROVE  Values'[r] = Values[r]
  <2>1. CASE r = <<"Global">>
    BY <1>1, <2>1, ValuesAre, NextValuesAre
  <2>2. ASSUME NEW k \in Keys, r = <<"Code", k>>
        PROVE  Values'[r] = Values[r]
    <3>1. k # key
      BY <1>3, <2>2
    <3> QED
      BY <1>2, <2>2, <3>1, ValuesAre, NextValuesAre
  <2>3. ASSUME NEW s \in ThreadScopes, NEW t \in Threads, r = <<s, t>>
        PROVE  Values'[r] = Values[r]
    BY <1>1, <2>3, ValuesAre, NextValuesAre
  <2> QED
    BY <2>1, <2>2, <2>3, ScopesAre
<1>4. <<"Code", key>> \in AllScopes
  BY DEF AllScopes
<1> QED
  BY <1>2, <1>3, <1>4, ValuesAre, NextValuesAre DEF Becomes

LEMMA ThreadBecomes ==
    ASSUME StoreIInv, CodeExact, CodeExact', NEW s \in ThreadScopes, NEW t \in Threads, NEW list,
           SetThread(s, t, list)
    PROVE  Becomes(<<s, t>>, list) /\ Values[<<s, t>>] = threadStore[s][t]
<1>1. globalStore' = globalStore /\ nodes' = nodes
      /\ threadStore' = [threadStore EXCEPT ![s][t] = list]
  BY DEF SetThread
<1>2. \A key : ValueOf(key)' = ValueOf(key)
  BY <1>1, CodeStays
<1>3. threadStore \in ThreadLists
  BY DEF StoreIInv, ShapesOf
<1>4. threadStore'[s][t] = list
      /\ \A r \in ThreadScopes, u \in Threads : r # s \/ u # t => threadStore'[r][u] = threadStore[r][u]
  BY <1>1, <1>3 DEF ThreadLists
<1>5. ASSUME NEW r \in AllScopes, r # <<s, t>>
      PROVE  Values'[r] = Values[r]
  <2>1. CASE r = <<"Global">>
    BY <1>1, <2>1, ValuesAre, NextValuesAre
  <2>2. ASSUME NEW k \in Keys, r = <<"Code", k>>
        PROVE  Values'[r] = Values[r]
    BY <1>2, <2>2, ValuesAre, NextValuesAre
  <2>3. ASSUME NEW q \in ThreadScopes, NEW u \in Threads, r = <<q, u>>
        PROVE  Values'[r] = Values[r]
    <3>1. q # s \/ u # t
      BY <1>5, <2>3
    <3> QED
      BY <1>4, <2>3, <3>1, ValuesAre, NextValuesAre
  <2> QED
    BY <2>1, <2>2, <2>3, ScopesAre
<1>6. <<s, t>> \in AllScopes
  BY DEF AllScopes
<1> QED
  BY <1>4, <1>5, <1>6, ValuesAre, NextValuesAre DEF Becomes

\* Scopes with one value.
LEMMA OneMayBecome ==
    ASSUME StoreIInv, CodeExact, NEW scope \in AllScopes, scope \notin ThreadScopes \X Threads,
           NEW old, Values[scope] = One(old), NEW new, new = Null \/ (new \in Objects /\ new \notin Live)
    PROVE  MayBecome(scope, One(new))
<1>1. scope \notin Stacks
  BY DEF Stacks
<1>2. CASE new = Null /\ old = Null
  BY <1>2 DEF MayBecome
<1>3. CASE new = Null /\ old # Null
  <2>1. Values[scope] = <<old>> /\ One(new) = <<>>
    BY <1>3 DEF One
  <2>2. RemoveAt(<<old>>, 1) = <<>>
    <3>1. SubSeq(<<old>>, 1, 0) = <<>> /\ SubSeq(<<old>>, 2, 1) = <<>>
      BY SubSeqEmpty
    <3>2. Len(<<old>>) = 1 /\ 1 - 1 = 0 /\ 1 + 1 = 2 /\ <<>> \o <<>> = <<>>
      OBVIOUS
    <3> QED
      BY <3>1, <3>2 DEF RemoveAt
  <2>3. 1 \in DOMAIN <<old>>
    OBVIOUS
  <2> QED
    BY <2>1, <2>2, <2>3 DEF MayBecome
<1>4. CASE new # Null
  <2>1. new \in Objects /\ new \notin Map!Stored
    BY <1>4, StoredLive
  <2> QED
    BY <1>1, <1>4, <2>1 DEF MayBecome, One
<1> QED
  BY <1>2, <1>3, <1>4

LEMMA NewIsObject ==
    ASSUME StoreIInv, Call
    PROVE  NewObject \in Objects /\ NewObject \notin Live /\ NewObject \in Nat
<1>1. calls < MaxCalls /\ calls \in Nat /\ Len(text) \in Nat /\ Len(text) <= calls /\ MaxCalls \in Nat
  BY LimitsAssumption DEF StoreIInv, Call
<1>2. Len(text) + 1 \in 1..MaxCalls
  BY <1>1
<1> QED
  BY <1>2, NullIsNotLive DEF NewObject, Objects

LEMMA KeyInKeys ==
    ASSUME NEW p \in Places, NEW s \in CodeScopes, NEW n \in Levels(s)
    PROVE  Key(p, s, n) \in Keys /\ Key(p, s, n) \in Seq(Characters)
<1>1. n \in 0..MaxPathLevel
  BY LimitsAssumption DEF Levels
<1>2. Key(p, s, n) \in Keys
  BY <1>1 DEF Keys
<1> QED
  BY <1>2, KeyIs

LEMMA InsertMaps ==
    ASSUME StoreIInv, CodeExact, CodeExact', Call, NEW p \in Places, NEW t \in Threads,
           NEW s \in CodeScopes \cup ThreadScopes \cup {"Global"}, NEW n \in Levels(s),
           Insert(p, t, s, n, NewObject),
           s \in ThreadScopes /\ cfgSingleThreadValue => threadStore[s][t] = <<>>
    PROVE  [Map!Next]_<<Values, Stacks>>
<1>1. NewObject \in Objects /\ NewObject \notin Live /\ NewObject \in Nat /\ NewObject # Null
  BY NewIsObject, NullIsNotLive
<1>2. cfgSingleThreadValue' = cfgSingleThreadValue
  BY DEF Call
<1>3. CASE s = "Global" /\ s \notin CodeScopes /\ s \notin ThreadScopes
  <2>1. AccessGlobal(NewObject)
    BY <1>3 DEF Insert
  <2>2. Becomes(<<"Global">>, One(NewObject)) /\ Values[<<"Global">>] = One(globalStore)
    BY <2>1, GlobalBecomes
  <2>3. <<"Global">> \in AllScopes /\ <<"Global">> \notin ThreadScopes \X Threads
    BY DEF AllScopes
  <2>4. MayBecome(<<"Global">>, One(NewObject))
    BY <1>1, <2>2, <2>3, OneMayBecome
  <2> QED
    BY <1>2, <2>2, <2>4, BecomesMaps
<1>4. CASE CodeScope(s)
  <2>1. PICK key : key = Key(p, s, n)
    OBVIOUS
  <2>2. AccessCode(key, NewObject)
    BY <1>4, <2>1 DEF Insert, CodeScope
  <2>3. key \in Keys /\ key \in Seq(Characters)
    BY <1>4, <2>1, KeyInKeys DEF CodeScope
  <2>4. PICK c : c = Create(key)
    OBVIOUS
  <2>5. Becomes(<<"Code", key>>, One(NewObject))
        /\ Values[<<"Code", key>>] = One(c.nodes[c.node].value)
    BY <1>1, <2>2, <2>3, <2>4, CodeBecomes
  <2>6. <<"Code", key>> \in AllScopes /\ <<"Code", key>> \notin ThreadScopes \X Threads
    BY <2>3 DEF AllScopes, ThreadScopes
  <2>7. MayBecome(<<"Code", key>>, One(NewObject))
    BY <1>1, <2>5, <2>6, OneMayBecome
  <2> QED
    BY <1>2, <2>5, <2>7, BecomesMaps
<1>5. CASE s \in ThreadScopes /\ s \notin CodeScopes /\ s # "Global"
  <2>1. PICK list : list = threadStore[s][t]
    OBVIOUS
  <2>2. SetThread(s, t, Append(list, NewObject))
    BY <1>5, <2>1 DEF Insert
  <2>3. Becomes(<<s, t>>, Append(list, NewObject)) /\ Values[<<s, t>>] = list
    BY <1>5, <2>1, <2>2, ThreadBecomes
  <2>4. Append(list, NewObject)
           = IF <<s, t>> \in Stacks THEN Append(Values[<<s, t>>], NewObject) ELSE <<NewObject>>
    <3>1. CASE cfgSingleThreadValue
      <4>1. list = <<>> /\ <<s, t>> \notin Stacks
        BY <1>5, <2>1, <3>1 DEF Stacks
      <4>2. Append(<<>>, NewObject) = <<NewObject>>
        OBVIOUS
      <4> QED
        BY <4>1, <4>2
    <3>2. CASE ~cfgSingleThreadValue
      <4>1. <<s, t>> \in Stacks
        BY <1>5, <3>2 DEF Stacks
      <4> QED
        BY <2>3, <4>1
    <3> QED
      BY <3>1, <3>2
  <2>5. NewObject \notin Map!Stored
    BY <1>1, StoredLive
  <2>6. MayBecome(<<s, t>>, Append(list, NewObject))
    BY <1>1, <2>4, <2>5 DEF MayBecome
  <2> QED
    BY <1>2, <2>3, <2>6, BecomesMaps
<1> QED
  BY <1>3, <1>4, <1>5, ScopeKinds

LEMMA RemoveMaps ==
    ASSUME StoreIInv, CodeExact, CodeExact', Call, NEW p \in Places, NEW t \in Threads,
           NEW s \in CodeScopes \cup ThreadScopes \cup {"Global"}, NEW n \in Levels(s),
           RemoveCurrent(p, t, s, n)
    PROVE  [Map!Next]_<<Values, Stacks>>
<1>1. Null \in Nat
  BY DEF Null
<1>2. cfgSingleThreadValue' = cfgSingleThreadValue
  BY DEF Call
<1>3. CASE s = "Global" /\ s \notin CodeScopes /\ s \notin ThreadScopes
  <2>1. AccessGlobal(Null)
    BY <1>3 DEF RemoveCurrent
  <2>2. Becomes(<<"Global">>, One(Null)) /\ Values[<<"Global">>] = One(globalStore)
    BY <2>1, GlobalBecomes
  <2>3. <<"Global">> \in AllScopes /\ <<"Global">> \notin ThreadScopes \X Threads
    BY DEF AllScopes
  <2>4. MayBecome(<<"Global">>, One(Null))
    BY <2>2, <2>3, OneMayBecome
  <2> QED
    BY <1>2, <2>2, <2>4, BecomesMaps
<1>4. CASE CodeScope(s)
  <2>1. PICK key : key = Key(p, s, n)
    OBVIOUS
  <2>2. AccessCode(key, Null)
    BY <1>4, <2>1 DEF RemoveCurrent, CodeScope
  <2>3. key \in Keys /\ key \in Seq(Characters)
    BY <1>4, <2>1, KeyInKeys DEF CodeScope
  <2>4. PICK c : c = Create(key)
    OBVIOUS
  <2>5. Becomes(<<"Code", key>>, One(Null))
        /\ Values[<<"Code", key>>] = One(c.nodes[c.node].value)
    BY <1>1, <2>2, <2>3, <2>4, CodeBecomes
  <2>6. <<"Code", key>> \in AllScopes /\ <<"Code", key>> \notin ThreadScopes \X Threads
    BY <2>3 DEF AllScopes, ThreadScopes
  <2>7. MayBecome(<<"Code", key>>, One(Null))
    BY <2>5, <2>6, OneMayBecome
  <2> QED
    BY <1>2, <2>5, <2>7, BecomesMaps
<1>5. CASE s \in ThreadScopes /\ s \notin CodeScopes /\ s # "Global"
  <2>1. PICK list : list = threadStore[s][t]
    OBVIOUS
  <2>2. list \in Seq(Nat)
    BY <1>5, <2>1, ListOf
  <2>3. CASE list = <<>>
    <3>1. SetThread(s, t, <<>>)
      BY <1>5, <2>1, <2>3 DEF RemoveCurrent
    <3>2. Becomes(<<s, t>>, <<>>) /\ Values[<<s, t>>] = list
      BY <1>5, <2>1, <3>1, ThreadBecomes
    <3>3. MayBecome(<<s, t>>, <<>>)
      BY <2>3, <3>2 DEF MayBecome
    <3> QED
      BY <1>2, <3>2, <3>3, BecomesMaps
  <2>4. CASE list # <<>>
    <3>1. SetThread(s, t, Front(list))
      BY <1>5, <2>1, <2>4 DEF RemoveCurrent
    <3>2. Becomes(<<s, t>>, Front(list)) /\ Values[<<s, t>>] = list
      BY <1>5, <2>1, <3>1, ThreadBecomes
    <3>3. Front(list) = RemoveAt(list, Len(list)) /\ Len(list) \in DOMAIN list
      BY <2>2, <2>4, FrontIsRemoved
    <3>4. MayBecome(<<s, t>>, Front(list))
      BY <3>2, <3>3 DEF MayBecome
    <3> QED
      BY <1>2, <3>2, <3>4, BecomesMaps
  <2> QED
    BY <2>3, <2>4
<1> QED
  BY <1>3, <1>4, <1>5, ScopeKinds
-----------------------------------------------------------------------------
LEMMA RemoveThreadDomainMaps ==
    ASSUME StoreIInv, CodeExact, CodeExact', NEW t \in Threads, NEW s \in ThreadScopes,
           NEW c \in Texts, RemoveThreadDomain(t, s, c)
    PROVE  [Map!Next]_<<Values, Stacks>>
<1> DEFINE list == threadStore[s][t]
           hits == {i \in DOMAIN list : text[list[i]] = c}
           hit  == CHOOSE i \in hits : \A j \in hits : i <= j
<1>1. /\ cfgSingleThreadValue' = cfgSingleThreadValue
      /\ IF hits = {} THEN SetThread(s, t, list) ELSE SetThread(s, t, RemoveAt(list, hit))
  BY DEF RemoveThreadDomain, Call
<1>2. list \in Seq(Nat)
  BY ListOf
<1>3. CASE hits = {}
  <2>1. Becomes(<<s, t>>, list) /\ Values[<<s, t>>] = list
    BY <1>1, <1>3, ThreadBecomes
  <2> HIDE DEF list
  <2>2. MayBecome(<<s, t>>, list)
    BY <2>1 DEF MayBecome
  <2> QED
    BY <1>1, <2>1, <2>2, BecomesMaps
<1>4. CASE hits # {}
  <2>1. hits \in SUBSET Nat /\ hits \subseteq DOMAIN list
    BY <1>2
  <2> HIDE DEF hits
  <2>2. hit \in hits
    <3>1. \E i \in hits : \A j \in hits : i <= j
      BY <1>4, <2>1, LeastExists
    <3> QED
      BY <3>1
  <2> HIDE DEF hit
  <2>3. SetThread(s, t, RemoveAt(list, hit))
    BY <1>1, <1>4
  <2>4. Becomes(<<s, t>>, RemoveAt(list, hit)) /\ Values[<<s, t>>] = list
    BY <2>3, ThreadBecomes
  <2> HIDE DEF list
  <2>5. MayBecome(<<s, t>>, RemoveAt(list, hit))
    BY <2>1, <2>2, <2>4 DEF MayBecome
  <2> QED
    BY <1>1, <2>4, <2>5, BecomesMaps
<1> QED
  BY <1>3, <1>4

\* GetMap makes a map only where there is none.
LEMMA NoMapYet ==
    ASSUME StoreIInv, NEW p \in Places, NEW t \in Threads, NEW s \in ThreadScopes,
           NEW n \in Levels(s), Current(p, t, s, n) = Null
    PROVE  threadStore[s][t] = <<>>
<1>1. SUFFICES ASSUME threadStore[s][t] # <<>> PROVE FALSE
  OBVIOUS
<1> DEFINE list == threadStore[s][t]
<1>2. s \notin CodeScopes /\ s # "Global"
  BY DEF ThreadScopes, CodeScopes
<1>3. Last(list) = Null
  BY <1>1, <1>2 DEF Current
<1>4. list \in Seq(Nat) /\ ToSet(list) \subseteq Live /\ list # <<>> /\ Len(list) \in Nat
  BY <1>1, ListOf
<1> HIDE DEF list
<1>5. Last(list) \in ToSet(list)
  <2>1. Len(list) \in DOMAIN list
    BY <1>4, EmptySeq
  <2> QED
    BY <2>1 DEF Last, ToSet
<1> QED
  BY <1>3, <1>4, <1>5, NullIsNotLive

LEMMA EmptyMaps ==
    ASSUME NEW forest, forest = EmptyNodes, NEW spelled, NEW key, NEW list,
           Holds(forest, spelled, key, list)
    PROVE  list = <<>>
<1>1. \A n \in DOMAIN EmptyNodes : EmptyNodes[n].value = Null
  BY DEF EmptyNodes
<1> QED
  BY <1>1 DEF Holds

LEMMA ClearMaps ==
    ASSUME StoreIInv', CodeExact', Clear
    PROVE  [Map!Next]_<<Values, Stacks>>
<1>1. nodes' = EmptyNodes /\ globalStore' = Null /\ threadStore' = EmptyThreads
      /\ cfgSingleThreadValue' = cfgSingleThreadValue
  BY DEF Clear, Call
<1>2. \E spelled : Spelling(nodes', spelled)
  BY DEF StoreIInv, ShapesOf
<1>3. \A k : ValueOf(k)' = <<>>
  BY <1>1, <1>2, EmptyMaps DEF CodeExact
<1>4. One(globalStore') = <<>>
  BY <1>1 DEF One
<1>5. \A s \in ThreadScopes, t \in Threads : threadStore'[s][t] = <<>>
  BY <1>1 DEF EmptyThreads
<1>6. \A r \in AllScopes : Values'[r] = <<>>
  <2> TAKE r \in AllScopes
  <2>1. CASE r = <<"Global">>
    BY <1>4, <2>1, NextValuesAre
  <2>2. ASSUME NEW k \in Keys, r = <<"Code", k>>
        PROVE  Values'[r] = <<>>
    BY <1>3, <2>2, NextValuesAre
  <2>3. ASSUME NEW s \in ThreadScopes, NEW t \in Threads, r = <<s, t>>
        PROVE  Values'[r] = <<>>
    BY <1>5, <2>3, NextValuesAre
  <2> QED
    BY <2>1, <2>2, <2>3, ScopesAre
<1>7. Values' = [r \in AllScopes |-> <<>>]
  BY <1>6, NextValuesAre
<1>8. Map!Clear
  BY <1>7 DEF Map!Clear
<1> QED
  BY <1>1, <1>8 DEF Map!Next, Stacks

LEMMA InitMaps ==
    ASSUME StoreInit, StoreIInv, CodeExact
    PROVE  Map!Init
<1>1. nodes = EmptyNodes /\ globalStore = Null /\ threadStore = EmptyThreads
      /\ cfgSingleThreadValue \in BOOLEAN
  BY DEF StoreInit
<1>2. \E spelled : Spelling(nodes, spelled)
  BY DEF StoreIInv, ShapesOf
<1>3. \A k : ValueOf(k) = <<>>
  BY <1>1, <1>2, EmptyMaps DEF CodeExact
<1>4. One(globalStore) = <<>>
  BY <1>1 DEF One
<1>5. \A s \in ThreadScopes, t \in Threads : threadStore[s][t] = <<>>
  BY <1>1 DEF EmptyThreads
<1>6. \A r \in AllScopes : Values[r] = <<>>
  <2> TAKE r \in AllScopes
  <2>1. CASE r = <<"Global">>
    BY <1>4, <2>1, ValuesAre
  <2>2. ASSUME NEW k \in Keys, r = <<"Code", k>>
        PROVE  Values[r] = <<>>
    BY <1>3, <2>2, ValuesAre
  <2>3. ASSUME NEW s \in ThreadScopes, NEW t \in Threads, r = <<s, t>>
        PROVE  Values[r] = <<>>
    BY <1>5, <2>3, ValuesAre
  <2> QED
    BY <2>1, <2>2, <2>3, ScopesAre
<1>7. Values = [r \in AllScopes |-> <<>>]
  BY <1>6, ValuesAre
<1>8. ThreadScopes \X Threads \subseteq AllScopes
  BY DEF AllScopes
<1> QED
  BY <1>7, <1>8 DEF Map!Init

LEMMA NextMaps ==
    ASSUME StoreIInv, StoreIInv', CodeExact, CodeExact', [StoreNext]_storeVars
    PROVE  [Map!Next]_<<Values, Stacks>>
<1>1. ASSUME NEW p \in Places, NEW t \in Threads,
             NEW s \in CodeScopes \cup ThreadScopes \cup {"Global"}, NEW n \in Levels(s),
             NEW c \in Texts, SetDomain(p, t, s, n, c)
      PROVE  [Map!Next]_<<Values, Stacks>>
  <2>1. Call /\ ~cfgSingleThreadValue /\ Insert(p, t, s, n, NewObject)
    BY <1>1 DEF SetDomain
  <2> QED
    BY <2>1, InsertMaps
<1>2. ASSUME NEW p \in Places, NEW t \in Threads,
             NEW s \in CodeScopes \cup ThreadScopes \cup {"Global"}, NEW n \in Levels(s),
             NEW c \in Texts, GetMap(p, t, s, n, c)
      PROVE  [Map!Next]_<<Values, Stacks>>
  <2>1. Call /\ Current(p, t, s, n) = Null /\ Insert(p, t, s, n, NewObject)
    BY <1>2 DEF GetMap
  <2>2. s \in ThreadScopes => threadStore[s][t] = <<>>
    BY <2>1, NoMapYet
  <2> QED
    BY <2>1, <2>2, InsertMaps
<1>3. ASSUME NEW p \in Places, NEW t \in Threads,
             NEW s \in CodeScopes \cup ThreadScopes \cup {"Global"}, NEW n \in Levels(s),
             UnsetDomain(p, t, s, n) \/ DropMap(p, t, s, n)
      PROVE  [Map!Next]_<<Values, Stacks>>
  <2>1. Call /\ RemoveCurrent(p, t, s, n)
    BY <1>3 DEF UnsetDomain, DropMap
  <2> QED
    BY <2>1, RemoveMaps
<1>4. ASSUME NEW t \in Threads, NEW s \in ThreadScopes, NEW c \in Texts, RemoveThreadDomain(t, s, c)
      PROVE  [Map!Next]_<<Values, Stacks>>
  BY <1>4, RemoveThreadDomainMaps
<1>5. CASE Clear
  BY <1>5, ClearMaps
<1>6. CASE UNCHANGED storeVars
  <2>1. nodes' = nodes /\ globalStore' = globalStore /\ threadStore' = threadStore
        /\ cfgSingleThreadValue' = cfgSingleThreadValue
    BY <1>6 DEF storeVars
  <2>2. \A k : ValueOf(k)' = ValueOf(k)
    BY <2>1, CodeStays
  <2>3. \A r \in AllScopes : Values'[r] = Values[r]
    <3> TAKE r \in AllScopes
    <3>1. CASE r = <<"Global">>
      BY <2>1, <3>1, ValuesAre, NextValuesAre DEF One
    <3>2. ASSUME NEW k \in Keys, r = <<"Code", k>>
          PROVE  Values'[r] = Values[r]
      BY <2>2, <3>2, ValuesAre, NextValuesAre
    <3>3. ASSUME NEW s \in ThreadScopes, NEW t \in Threads, r = <<s, t>>
          PROVE  Values'[r] = Values[r]
      BY <2>1, <3>3, ValuesAre, NextValuesAre
    <3> QED
      BY <3>1, <3>2, <3>3, ScopesAre
  <2>4. Values' = Values
    BY <2>3, ValuesAre, NextValuesAre
  <2> QED
    BY <2>1, <2>4 DEF Stacks
<1>7. CASE Exhausted
  BY <1>6, <1>7 DEF Exhausted
<1>8. CASE \E p \in Places, t \in Threads, s \in CodeScopes \cup ThreadScopes \cup {"Global"} :
             \E n \in Levels(s) :
                \/ \E c \in Texts : SetDomain(p, t, s, n, c) \/ GetMap(p, t, s, n, c)
                \/ UnsetDomain(p, t, s, n)
                \/ DropMap(p, t, s, n)
  <2>1. PICK p \in Places, t \in Threads, s \in CodeScopes \cup ThreadScopes \cup {"Global"} :
             \E n \in Levels(s) :
                \/ \E c \in Texts : SetDomain(p, t, s, n, c) \/ GetMap(p, t, s, n, c)
                \/ UnsetDomain(p, t, s, n)
                \/ DropMap(p, t, s, n)
    BY <1>8
  <2>2. PICK n \in Levels(s) :
                \/ \E c \in Texts : SetDomain(p, t, s, n, c) \/ GetMap(p, t, s, n, c)
                \/ UnsetDomain(p, t, s, n)
                \/ DropMap(p, t, s, n)
    BY <2>1
  <2> QED
    BY <1>1, <1>2, <1>3, <2>2
<1> QED
  BY <1>4, <1>5, <1>6, <1>7, <1>8 DEF StoreNext

\* The PathMap and the lists implement the map from scopes to lists of values, for all keys,
\* threads and calls: no call is felt in another scope than its own, whatever nodes are split.
THEOREM StoreImplementsScopeMap == StoreSpec => ImplementsScopeMap
<1>1. StoreInit => StoreIInv
  BY StoreInitIInv
<1>2. StoreIInv /\ [StoreNext]_storeVars => StoreIInv'
  BY StoreNextIInv
<1>3. StoreIInv => CodeExact
  BY StoreCodeExact
<1>4. StoreInit /\ StoreIInv /\ CodeExact => Map!Init
  BY InitMaps
<1>5. StoreIInv /\ StoreIInv' /\ CodeExact /\ CodeExact' /\ [StoreNext]_storeVars
         => [Map!Next]_<<Values, Stacks>>
  BY NextMaps
<1> QED
  BY <1>1, <1>2, <1>3, <1>4, <1>5, PTL DEF StoreSpec, ImplementsScopeMap, Map!Spec, Stacks

-----------------------------------------------------------------------------
(***************************************************************************)
(* The walk. The values that a walk from a node gives are those of the     *)
(* beginnings of the node's key, the longer ones first (Collects), and     *)
(* beginnings that are keys of scopes end with the separators of the key   *)
(* (BeginningsOfKey).                                                      *)
(***************************************************************************)
\* Node n spells a beginning of a key.
Begins(key, spelled, n) == Len(spelled[n]) <= Len(key) /\ BeginsWith(key, spelled[n])

\* Of the nodes that do, n is the one that spells the longest that is shorter than b.
Deepest(key, spelled, b, n) ==
    /\ n \in DOMAIN nodes /\ Begins(key, spelled, n) /\ Len(spelled[n]) < b
    /\ \A m \in DOMAIN nodes :
          Begins(key, spelled, m) /\ Len(spelled[m]) < b => Len(spelled[m]) <= Len(spelled[n])

LEMMA BeginsOrders ==
    ASSUME Tree(nodes), NEW spelled, Spelling(nodes, spelled), NEW key \in Seq(Characters)
    PROVE  /\ \A m, n \in DOMAIN nodes :
                 Begins(key, spelled, m) /\ Begins(key, spelled, n)
                    /\ Len(spelled[m]) <= Len(spelled[n]) => Below(spelled, m, n)
           /\ \A m, n \in DOMAIN nodes :
                 Below(spelled, m, n) /\ Begins(key, spelled, n) => Begins(key, spelled, m)
<1>1. Len(key) \in Nat /\ \A n \in DOMAIN nodes : Len(spelled[n]) \in Nat
  BY SpelledEnd
<1>2. ASSUME NEW m \in DOMAIN nodes, NEW n \in DOMAIN nodes, Begins(key, spelled, m),
             Begins(key, spelled, n), Len(spelled[m]) <= Len(spelled[n])
      PROVE  Below(spelled, m, n)
  <2>1. PICK x \in Nat, y \in Nat : x = Len(spelled[m]) /\ y = Len(spelled[n])
    BY <1>1
  <2>2. x <= y /\ (\A j \in 1..x : key[j] = spelled[m][j]) /\ (\A j \in 1..y : key[j] = spelled[n][j])
    BY <1>2, <2>1 DEF Begins, BeginsWith
  <2>3. \A j \in 1..x : j \in 1..y
    BY <2>2
  <2>4. \A j \in 1..x : spelled[n][j] = spelled[m][j]
    BY <2>2, <2>3
  <2> QED
    BY <1>2, <2>1, <2>4 DEF Below, BeginsWith
<1>3. ASSUME NEW m \in DOMAIN nodes, NEW n \in DOMAIN nodes, Below(spelled, m, n),
             Begins(key, spelled, n)
      PROVE  Begins(key, spelled, m)
  <2>1. PICK x \in Nat, y \in Nat, z \in Nat :
           x = Len(spelled[m]) /\ y = Len(spelled[n]) /\ z = Len(key)
    BY <1>1
  <2>2. x <= y /\ y <= z /\ (\A j \in 1..x : spelled[n][j] = spelled[m][j])
        /\ (\A j \in 1..y : key[j] = spelled[n][j])
    BY <1>3, <2>1 DEF Below, Begins, BeginsWith
  <2>3. x <= z /\ \A j \in 1..x : j \in 1..y
    BY <2>2
  <2>4. \A j \in 1..x : key[j] = spelled[m][j]
    BY <2>2, <2>3
  <2> QED
    BY <2>1, <2>3, <2>4 DEF Begins, BeginsWith
<1>4. \A m, n \in DOMAIN nodes :
         Begins(key, spelled, m) /\ Begins(key, spelled, n)
            /\ Len(spelled[m]) <= Len(spelled[n]) => Below(spelled, m, n)
  BY <1>2
<1>5. \A m, n \in DOMAIN nodes :
         Below(spelled, m, n) /\ Begins(key, spelled, n) => Begins(key, spelled, m)
  BY <1>3
<1> QED
  BY <1>4, <1>5

\* Two beginnings of a key are the same if they have the same length.
LEMMA BeginsOnce ==
    ASSUME Tree(nodes), NEW spelled, Spelling(nodes, spelled), NEW key \in Seq(Characters),
           NEW m \in DOMAIN nodes, NEW n \in DOMAIN nodes, Begins(key, spelled, m),
           Begins(key, spelled, n), Len(spelled[m]) = Len(spelled[n])
    PROVE  m = n
<1>1. spelled[m] \in Seq(Characters) /\ spelled[n] \in Seq(Characters)
  BY SpelledEnd
<1>2. \A j \in 1..Len(spelled[m]) : spelled[m][j] = spelled[n][j]
  BY DEF Begins, BeginsWith
<1>3. spelled[m] = spelled[n]
  BY <1>1, <1>2, SeqEqual
<1> QED
  BY <1>3, SpelledOnce

LEMMA DeepestOnce ==
    ASSUME Tree(nodes), NEW spelled, Spelling(nodes, spelled), NEW key \in Seq(Characters),
           NEW b, NEW m, NEW n, Deepest(key, spelled, b, m), Deepest(key, spelled, b, n)
    PROVE  m = n
<1>1. m \in DOMAIN nodes /\ n \in DOMAIN nodes /\ Begins(key, spelled, m) /\ Begins(key, spelled, n)
      /\ Len(spelled[m]) <= Len(spelled[n]) /\ Len(spelled[n]) <= Len(spelled[m])
  BY DEF Deepest
<1>2. Len(spelled[m]) \in Nat /\ Len(spelled[n]) \in Nat
  BY <1>1, SpelledEnd
<1>3. \A x, y \in Nat : x <= y /\ y <= x => x = y
  OBVIOUS
<1>4. Len(spelled[m]) = Len(spelled[n])
  BY <1>1, <1>2, <1>3
<1> QED
  BY <1>1, <1>4, BeginsOnce

LEMMA DeepestExists ==
    ASSUME Tree(nodes), NEW spelled, Spelling(nodes, spelled), NEW key \in Seq(Characters),
           NEW b \in Nat, b # 0
    PROVE  \E n : Deepest(key, spelled, b, n)
<1> DEFINE Is(n) == n \in DOMAIN nodes /\ Begins(key, spelled, n) /\ Len(spelled[n]) < b
           S == {k \in Nat : \E n \in DOMAIN nodes : Is(n) /\ k = b - Len(spelled[n])}
<1>1. \A n \in DOMAIN nodes : Len(spelled[n]) \in Nat
  BY SpelledEnd
<1>2. Is(Root)
  <2>1. Root \in DOMAIN nodes /\ spelled[Root] = <<>> /\ Len(<<>>) = 0 /\ Len(key) \in Nat
    BY EmptySeq DEF Tree, Spelling
  <2>2. 0 <= Len(key) /\ 0 < b /\ 1..0 = {}
    BY <2>1
  <2> QED
    BY <2>1, <2>2 DEF Begins, BeginsWith
<1>3. S # {}
  <2>1. \A x \in Nat : x < b => b - x \in Nat
    OBVIOUS
  <2>2. Root \in DOMAIN nodes /\ b - Len(spelled[Root]) \in Nat
    BY <1>1, <1>2, <2>1
  <2> HIDE DEF Is
  <2> QED
    BY <1>2, <2>2
<1>4. PICK k \in S : \A l \in S : k <= l
  <2>1. S \in SUBSET Nat
    OBVIOUS
  <2> HIDE DEF S
  <2> QED
    BY <1>3, <2>1, LeastExists
<1>5. PICK n \in DOMAIN nodes : Is(n) /\ k = b - Len(spelled[n])
  BY <1>4
<1>6. ASSUME NEW m \in DOMAIN nodes, Is(m)
      PROVE  Len(spelled[m]) <= Len(spelled[n])
  <2>1. PICK x \in Nat, y \in Nat : x = Len(spelled[m]) /\ y = Len(spelled[n])
    BY <1>1
  <2>2. x < b
    BY <1>6, <2>1
  <2>3. b - x \in Nat
    BY <2>2
  <2>4. b - x \in S
    <3> HIDE DEF Is
    <3> QED
      BY <1>6, <2>1, <2>3
  <2>5. b - y <= b - x
    BY <1>4, <1>5, <2>1, <2>4
  <2>6. y <= b => x <= y
    BY <2>5
  <2>7. y < b
    BY <1>5, <2>1
  <2> QED
    BY <2>1, <2>6, <2>7
<1> QED
  BY <1>5, <1>6 DEF Deepest

\* The parent of a node is the next one that spells a beginning of the same key.
LEMMA ParentDeepest ==
    ASSUME Tree(nodes), NEW spelled, Spelling(nodes, spelled), NEW key \in Seq(Characters),
           NEW n \in DOMAIN nodes \ {Root}, Begins(key, spelled, n)
    PROVE  Deepest(key, spelled, Len(spelled[n]), nodes[n].parent)
<1>1. PICK q : q = nodes[n].parent
  OBVIOUS
<1>2. q \in DOMAIN nodes /\ n \in nodes[q].childs
  BY <1>1 DEF Tree
<1>3. Len(spelled[n]) = Len(spelled[q]) + Len(nodes[n].path) /\ BeginsWith(spelled[n], spelled[q])
  BY <1>2, SpelledChild, SpelledChildLength
<1>4. Len(nodes[n].path) \in Nat /\ Len(nodes[n].path) # 0
  BY SpelledEnd
<1>5. \A m \in DOMAIN nodes : Len(spelled[m]) \in Nat
  BY SpelledEnd
<1>6. Len(spelled[q]) < Len(spelled[n]) /\ Len(spelled[q]) <= Len(spelled[n])
  <2>1. \A x, y, z \in Nat : x = y + z /\ z # 0 => y < x /\ y <= x
    OBVIOUS
  <2> QED
    BY <1>2, <1>3, <1>4, <1>5, <2>1
<1>7. Below(spelled, q, n) /\ Begins(key, spelled, q)
  <2>1. Below(spelled, q, n)
    BY <1>3, <1>6 DEF Below
  <2> QED
    BY <1>2, <2>1, BeginsOrders
<1>8. ASSUME NEW m \in DOMAIN nodes, Begins(key, spelled, m), Len(spelled[m]) < Len(spelled[n])
      PROVE  Len(spelled[m]) <= Len(spelled[q])
  <2>1. SUFFICES ASSUME Len(spelled[q]) < Len(spelled[m]) PROVE FALSE
    BY <1>2, <1>5
  <2>2. /\ Len(spelled[q]) <= Len(spelled[m]) /\ Len(spelled[m]) <= Len(spelled[n])
        /\ ~(Len(spelled[n]) <= Len(spelled[m])) /\ q # m
    BY <1>2, <1>5, <1>8, <2>1
  <2>3. Below(spelled, q, m) /\ Below(spelled, m, n)
    BY <1>2, <1>7, <1>8, <2>2, BeginsOrders
  <2>4. PICK c \in nodes[q].childs : Below(spelled, c, m)
    BY <1>2, <2>2, <2>3, ChildTowards
  <2>5. c \in DOMAIN nodes
    BY <1>2 DEF Tree
  <2>6. spelled \in [DOMAIN nodes -> Seq(Characters)]
    BY DEF Spelling
  <2>7. Below(spelled, c, n) /\ Below(spelled, n, n)
    BY <2>3, <2>4, <2>5, <2>6, BelowOrders
  <2>8. c = n
    BY <1>2, <2>7, OneChildTowards
  <2> QED
    BY <2>2, <2>4, <2>8 DEF Below
<1> QED
  BY <1>1, <1>2, <1>6, <1>7, <1>8 DEF Deepest

-----------------------------------------------------------------------------
\* What a walk gives at a node and above.
LEMMA Bounded ==
    ASSUME NEW m \in Nat, NEW r \in [1..m -> Nat]
    PROVE  \E N \in Nat : \A i \in 1..m : r[i] <= N
<1> DEFINE Fails(k) == ~ \E N \in Nat : \A i \in 1..k : r[i] <= N
           Bad == {k \in 0..m : Fails(k)}
<1>1. SUFFICES ASSUME Bad # {} PROVE FALSE
  <2>1. m \in 0..m
    OBVIOUS
  <2> QED
    BY <1>1, <2>1
<1>2. PICK k \in Bad : \A l \in Bad : k <= l
  <2>1. Bad \in SUBSET Nat
    OBVIOUS
  <2> HIDE DEF Bad
  <2> QED
    BY <1>1, <2>1, LeastExists
<1>3. k \in 0..m /\ Fails(k)
  OBVIOUS
<1>4. ~Fails(0)
  <2>1. \A i \in 1..0 : r[i] <= 0
    OBVIOUS
  <2> QED
    BY <2>1
<1>5. k \in 1..m /\ k - 1 \in 0..m /\ ~(k <= k - 1)
  <2> HIDE DEF Fails
  <2> QED
    BY <1>3, <1>4
<1>6. ~Fails(k - 1)
  <2>1. k - 1 \notin Bad
    BY <1>2, <1>5
  <2> HIDE DEF Fails
  <2> QED
    BY <1>5, <2>1
<1>7. PICK N \in Nat : \A i \in 1..k - 1 : r[i] <= N
  BY <1>6
<1>8. PICK x \in Nat : x = r[k]
  BY <1>5
<1>9. \A i \in 1..k : r[i] <= N + x
  <2>1. ASSUME NEW i \in 1..k
        PROVE  r[i] <= N + x
    <3>1. CASE i = k
      BY <1>8, <3>1
    <3>2. CASE i # k
      <4>1. i \in 1..k - 1 /\ i \in 1..m
        BY <1>5, <3>2
      <4>2. r[i] <= N /\ r[i] \in Nat
        BY <1>7, <4>1
      <4> QED
        BY <4>2
    <3> QED
      BY <3>1, <3>2
  <2> QED
    BY <2>1
<1>10. N + x \in Nat
  OBVIOUS
<1> QED
  BY <1>3, <1>9, <1>10

\* The walk from node n upwards.
Upwards(up) ==
    /\ up \in [0..Len(nodes) -> Seq(Nat)] /\ up[0] = <<>>
    /\ \A n \in DOMAIN nodes : up[n] = One(nodes[n].value) \o up[nodes[n].parent]

LEMMA LanguageWalkIs ==
    ASSUME Tree(nodes), NEW spelled, Spelling(nodes, spelled), NEW p
    PROVE  \E up : Upwards(up) /\ LanguageWalk(p) = up[Get(Key(p, "Method", 0))]
<1> DEFINE D == 0..Len(nodes)
           T == Seq(Nat)
           Body(n, f) == IF n = 0 THEN <<>>
                         ELSE (IF nodes[n].value = Null THEN <<>> ELSE <<nodes[n].value>>)
                                \o f[nodes[n].parent]
           Is(f) == f = [n \in D |-> Body(n, f)]
           up == CHOOSE f : Is(f)
<1>1. LanguageWalk(p) = up[Get(Key(p, "Method", 0))]
  BY DEF LanguageWalk
<1>2. DOMAIN nodes = 1..Len(nodes) /\ Len(nodes) \in Nat /\ \A n \in DOMAIN nodes : nodes[n] \in Node
  <2>1. nodes \in Seq(Node)
    BY DEF Tree
  <2> QED
    BY <2>1
<1>3. 0 \in D /\ DOMAIN nodes \subseteq D /\ \A n \in D : n # 0 => n \in DOMAIN nodes
  BY <1>2
<1>4. \A n \in DOMAIN nodes : nodes[n].value \in Nat /\ nodes[n].parent \in D
  <2>1. ASSUME NEW n \in DOMAIN nodes
        PROVE  nodes[n].value \in Nat /\ nodes[n].parent \in D
    <3>1. nodes[n].value \in Nat
      BY <1>2 DEF Node
    <3>2. nodes[n].parent = 0 \/ nodes[n].parent \in DOMAIN nodes
      BY DEF Tree
    <3> QED
      BY <1>3, <3>1, <3>2
  <2> QED
    BY <2>1
<1>5. \E f \in [D -> T] : Is(f)
  <2>1. PICK N \in Nat : \A n \in 1..Len(nodes) : Len(spelled[n]) <= N
    <3>1. PICK r : r = [n \in 1..Len(nodes) |-> Len(spelled[n])]
      OBVIOUS
    <3>2. \A n \in 1..Len(nodes) : Len(spelled[n]) \in Nat
      BY <1>2, SpelledEnd
    <3>3. r \in [1..Len(nodes) -> Nat]
      BY <3>1, <3>2
    <3>4. \E N \in Nat : \A n \in 1..Len(nodes) : r[n] <= N
      BY <1>2, <3>3, Bounded
    <3> QED
      BY <3>1, <3>4
  <2>2. PICK rank : rank = [n \in D |-> IF n = 0 THEN 0 ELSE Len(spelled[n]) + 1]
    OBVIOUS
  <2>3. rank \in [D -> 0..N + 1]
    <3>1. ASSUME NEW n \in D
          PROVE  (IF n = 0 THEN 0 ELSE Len(spelled[n]) + 1) \in 0..N + 1
      <4>1. CASE n = 0
        BY <4>1
      <4>2. CASE n # 0
        <5>1. n \in 1..Len(nodes)
          BY <1>2, <1>3, <4>2
        <5>2. Len(spelled[n]) \in Nat /\ Len(spelled[n]) <= N
          BY <1>2, <2>1, <5>1, SpelledEnd
        <5> QED
          BY <4>2, <5>2
      <4> QED
        BY <4>1, <4>2
    <3> HIDE DEF D
    <3> QED
      BY <2>2, <3>1
  <2>4. \A n \in DOMAIN nodes : rank[nodes[n].parent] < rank[n]
    <3>1. ASSUME NEW n \in DOMAIN nodes
          PROVE  rank[nodes[n].parent] < rank[n]
      <4>1. PICK q \in D : q = nodes[n].parent
        BY <1>4
      <4>2. Len(spelled[n]) \in Nat /\ rank[n] = Len(spelled[n]) + 1
        BY <1>2, <1>3, <2>2, SpelledEnd
      <4>3. CASE q = 0
        <5>1. rank[q] = 0
          BY <1>3, <2>2, <4>3
        <5> QED
          BY <4>1, <4>2, <5>1
      <4>4. CASE q # 0
        <5>1. n \in DOMAIN nodes \ {Root} /\ q \in DOMAIN nodes /\ n \in nodes[q].childs
          BY <1>3, <4>1, <4>4 DEF Tree
        <5>2. Len(spelled[n]) = Len(spelled[q]) + Len(nodes[n].path)
          BY <5>1, SpelledChildLength
        <5>3. Len(nodes[n].path) \in Nat /\ Len(nodes[n].path) # 0 /\ Len(spelled[q]) \in Nat
          BY <5>1, SpelledEnd
        <5>4. rank[q] = Len(spelled[q]) + 1
          BY <2>2, <4>1, <4>4
        <5>5. \A x, y, z \in Nat : x = y + z /\ z # 0 => y + 1 < x + 1
          OBVIOUS
        <5> QED
          BY <4>1, <4>2, <5>2, <5>3, <5>4, <5>5
      <4> QED
        BY <4>3, <4>4
    <3> QED
      BY <3>1
  <2>5. PICK H : H = [n \in D |-> [f \in [D -> T] |-> Body(n, f)]]
    OBVIOUS
  <2>6. ASSUME NEW n \in D, NEW f \in [D -> T]
        PROVE  Body(n, f) \in T
    <3>1. CASE n = 0
      BY <3>1
    <3>2. CASE n # 0
      <4>1. n \in DOMAIN nodes
        BY <1>3, <3>2
      <4>2. f[nodes[n].parent] \in Seq(Nat) /\ nodes[n].value \in Nat
        BY <1>4, <4>1
      <4>3. \A v \in Nat : <<v>> \in Seq(Nat) /\ <<>> \in Seq(Nat)
        OBVIOUS
      <4>4. (IF nodes[n].value = Null THEN <<>> ELSE <<nodes[n].value>>) \in Seq(Nat)
        BY <4>2, <4>3
      <4> QED
        BY <3>2, <4>2, <4>4
    <3> QED
      BY <3>1, <3>2
  <2>7. H \in [D -> [[D -> T] -> T]]
    <3> HIDE DEF D, T, Body
    <3> QED
      BY <2>5, <2>6
  <2>8. Falls(H, D, T, rank)
    <3>1. ASSUME NEW n \in D, NEW f \in [D -> T], NEW g \in [D -> T],
                 \A y \in D : rank[y] < rank[n] => f[y] = g[y]
          PROVE  Body(n, f) = Body(n, g)
      <4>1. CASE n = 0
        BY <4>1
      <4>2. CASE n # 0
        <5>1. n \in DOMAIN nodes
          BY <1>3, <4>2
        <5>2. f[nodes[n].parent] = g[nodes[n].parent]
          BY <1>4, <2>4, <3>1, <5>1
        <5> QED
          BY <5>2
      <4> QED
        BY <4>1, <4>2
    <3> HIDE DEF D, T, Body
    <3> QED
      BY <2>5, <3>1 DEF Falls
  <2>9. PICK f \in [D -> T] : Solution(f, D, H)
    <3>1. <<>> \in T /\ N + 1 \in Nat
      OBVIOUS
    <3> HIDE DEF D, T
    <3> QED
      BY <2>3, <2>7, <2>8, <3>1, RankedRecursion
  <2>10. \A n \in D : f[n] = Body(n, f)
    <3> HIDE DEF D, T, Body
    <3> QED
      BY <2>5, <2>9 DEF Solution
  <2>11. Is(f)
    <3> HIDE DEF D, T, Body
    <3> QED
      BY <2>9, <2>10
  <2> QED
    BY <2>9, <2>11
<1>6. Is(up)
  <2> HIDE DEF Is
  <2> QED
    BY <1>5
<1>7. \A n \in D : up[n] = Body(n, up)
  <2> HIDE DEF Body
  <2> QED
    BY <1>6
<1>8. up[0] = <<>> /\ \A n \in DOMAIN nodes : up[n] = One(nodes[n].value) \o up[nodes[n].parent]
  <2>1. \A n \in DOMAIN nodes : n # 0
    BY <1>2
  <2> HIDE DEF up, D
  <2> QED
    BY <1>3, <1>7, <2>1 DEF One
<1>9. DOMAIN up = D /\ up = [n \in D |-> up[n]]
  <2> HIDE DEF up, D, Body
  <2> QED
    BY <1>6
<1> HIDE DEF up, D
<1>10. \A n \in DOMAIN nodes : up[n] \in Seq(Nat)
  <2> DEFINE Bad == {k \in Nat : \E n \in DOMAIN nodes : k = Len(spelled[n]) /\ up[n] \notin Seq(Nat)}
  <2>1. SUFFICES ASSUME Bad # {} PROVE FALSE
    BY SpelledEnd
  <2>2. PICK k \in Bad : \A l \in Bad : k <= l
    <3>1. Bad \in SUBSET Nat
      OBVIOUS
    <3> HIDE DEF Bad
    <3> QED
      BY <2>1, <3>1, LeastExists
  <2>3. PICK n \in DOMAIN nodes : k = Len(spelled[n]) /\ up[n] \notin Seq(Nat)
    BY <2>2
  <2>4. One(nodes[n].value) \in Seq(Nat) /\ <<>> \in Seq(Nat)
    <3>1. \A v \in Nat : <<v>> \in Seq(Nat) /\ <<>> \in Seq(Nat)
      OBVIOUS
    <3>2. nodes[n].value \in Nat
      BY <1>4
    <3> QED
      BY <3>1, <3>2 DEF One
  <2>5. PICK q \in D : q = nodes[n].parent
    BY <1>4
  <2>6. up[n] = One(nodes[n].value) \o up[q]
    BY <1>8, <2>5
  <2>7. up[q] \in Seq(Nat)
    <3>1. CASE q = 0
      BY <1>8, <2>4, <3>1
    <3>2. CASE q # 0
      <4>1. n \in DOMAIN nodes \ {Root} /\ q \in DOMAIN nodes /\ n \in nodes[q].childs
        BY <1>3, <2>5, <3>2 DEF Tree
      <4>2. Len(spelled[n]) = Len(spelled[q]) + Len(nodes[n].path)
        BY <4>1, SpelledChildLength
      <4>3. Len(nodes[n].path) \in Nat /\ Len(nodes[n].path) # 0 /\ Len(spelled[q]) \in Nat
        BY <4>1, SpelledEnd
      <4>4. \A x, y, z \in Nat : x = y + z /\ z # 0 => ~(x <= y)
        OBVIOUS
      <4>5. ~(k <= Len(spelled[q]))
        BY <2>2, <2>3, <4>2, <4>3, <4>4
      <4>6. Len(spelled[q]) \notin Bad
        BY <2>2, <4>5
      <4> QED
        BY <4>1, <4>3, <4>6
    <3> QED
      BY <3>1, <3>2
  <2> QED
    BY <2>3, <2>4, <2>6, <2>7, ConcatProperties
<1>11. \A n \in D : up[n] \in Seq(Nat)
  <2>1. <<>> \in Seq(Nat)
    OBVIOUS
  <2> QED
    BY <1>3, <1>8, <1>10, <2>1
<1>12. up \in [D -> Seq(Nat)]
  BY <1>9, <1>11
<1> QED
  BY <1>1, <1>8, <1>12 DEF Upwards, D

\* The values of the beginnings of a key, from the b - 1 first characters down to none.
Collected(key, U) ==
    /\ U \in [0..Len(key) + 1 -> Seq(Nat)] /\ U[0] = <<>>
    /\ \A b \in 0..Len(key) : U[b + 1] = ValueOf(SubSeq(key, 1, b)) \o U[b]

LEMMA BeginningIs ==
    ASSUME NEW S, NEW key \in Seq(S), NEW b \in 0..Len(key)
    PROVE  /\ SubSeq(key, 1, b) \in Seq(S) /\ Len(SubSeq(key, 1, b)) = b
           /\ \A j \in 1..b : SubSeq(key, 1, b)[j] = key[j]
<1>1. b \in Nat /\ 1 \in Int /\ \A i \in 1..b : i \in 1..Len(key)
  OBVIOUS
<1>2. \A i \in 1..b : key[i] \in S
  BY <1>1, ElementOfSeq
<1>3. /\ SubSeq(key, 1, b) \in Seq(S) /\ Len(SubSeq(key, 1, b)) = (IF 1 <= b THEN b - 1 + 1 ELSE 0)
      /\ \A i \in 1..b - 1 + 1 : SubSeq(key, 1, b)[i] = key[1 + i - 1]
  BY <1>1, <1>2, SubSeqProperties
<1>4. (IF 1 <= b THEN b - 1 + 1 ELSE 0) = b /\ b - 1 + 1 = b /\ \A i \in 1..b : 1 + i - 1 = i
  BY <1>1
<1> QED
  BY <1>3, <1>4

\* The node that spells a beginning.
LEMMA BeginsWhere ==
    ASSUME Tree(nodes), NEW spelled, Spelling(nodes, spelled), NEW key \in Seq(Characters),
           NEW b \in 0..Len(key), NEW n \in DOMAIN nodes
    PROVE  spelled[n] = SubSeq(key, 1, b) <=> Begins(key, spelled, n) /\ Len(spelled[n]) = b
<1>1. /\ SubSeq(key, 1, b) \in Seq(Characters) /\ Len(SubSeq(key, 1, b)) = b
      /\ \A j \in 1..b : SubSeq(key, 1, b)[j] = key[j]
  BY BeginningIs
<1>2. spelled[n] \in Seq(Characters) /\ Len(key) \in Nat
  BY SpelledEnd
<1>3. ASSUME spelled[n] = SubSeq(key, 1, b)
      PROVE  Begins(key, spelled, n) /\ Len(spelled[n]) = b
  <2>1. Len(spelled[n]) = b /\ b <= Len(key)
    BY <1>1, <1>2, <1>3
  <2> QED
    BY <1>1, <1>3, <2>1 DEF Begins, BeginsWith
<1>4. ASSUME Begins(key, spelled, n), Len(spelled[n]) = b
      PROVE  spelled[n] = SubSeq(key, 1, b)
  <2>1. \A j \in 1..b : spelled[n][j] = SubSeq(key, 1, b)[j]
    BY <1>1, <1>4 DEF Begins, BeginsWith
  <2> QED
    BY <1>1, <1>2, <1>4, <2>1, SeqEqual
<1> QED
  BY <1>3, <1>4

LEMMA ValueAt ==
    ASSUME Tree(nodes), NEW spelled, Spelling(nodes, spelled), NEW n \in DOMAIN nodes
    PROVE  ValueOf(spelled[n]) = One(nodes[n].value)
<1>1. Holds(nodes, spelled, spelled[n], ValueOf(spelled[n]))
  BY ValueOfIs
<1>2. \A m \in DOMAIN nodes : spelled[m] = spelled[n] => m = n
  BY SpelledOnce
<1>3. Holds(nodes, spelled, spelled[n], One(nodes[n].value))
  BY <1>2 DEF Holds, One
<1> QED
  BY <1>1, <1>3, HoldsOnce

LEMMA ValueNowhere ==
    ASSUME Tree(nodes), NEW spelled, Spelling(nodes, spelled), NEW key,
           \A n \in DOMAIN nodes : spelled[n] # key
    PROVE  ValueOf(key) = <<>>
<1>1. Holds(nodes, spelled, key, ValueOf(key))
  BY ValueOfIs
<1> QED
  BY <1>1 DEF Holds

\* What is collected for a key is what the walk gives from the deepest node for it.
LEMMA Collects ==
    ASSUME Tree(nodes), NEW spelled, Spelling(nodes, spelled), NEW key \in Seq(Characters),
           NEW up, Upwards(up)
    PROVE  \E U : /\ Collected(key, U)
                  /\ \A n : Deepest(key, spelled, Len(key) + 1, n) => up[n] = U[Len(key) + 1]
<1>1. PICK L \in Nat : L = Len(key)
  OBVIOUS
<1> DEFINE at(b) == CHOOSE n : Deepest(key, spelled, b, n)
           U == [b \in 0..L + 1 |-> IF b = 0 THEN <<>> ELSE up[at(b)]]
<1>2. \A n \in DOMAIN nodes :
         up[n] \in Seq(Nat) /\ up[n] = One(nodes[n].value) \o up[nodes[n].parent]
  <2>1. nodes \in Seq(Node)
    BY DEF Tree
  <2>2. DOMAIN nodes = 1..Len(nodes) /\ Len(nodes) \in Nat
    BY <2>1
  <2>3. DOMAIN nodes \subseteq 0..Len(nodes)
    BY <2>2
  <2> QED
    BY <2>3 DEF Upwards
<1>3. \A b \in 1..L + 1 : Deepest(key, spelled, b, at(b))
  <2>1. \A b \in 1..L + 1 : b \in Nat /\ b # 0
    OBVIOUS
  <2>2. \A b \in 1..L + 1 : \E n : Deepest(key, spelled, b, n)
    BY <2>1, DeepestExists
  <2> QED
    BY <2>2
<1>4. \A b \in 1..L + 1 : \A n : Deepest(key, spelled, b, n) => at(b) = n
  <2>1. ASSUME NEW b \in 1..L + 1, NEW n, Deepest(key, spelled, b, n)
        PROVE  at(b) = n
    <3>1. Deepest(key, spelled, b, at(b))
      BY <1>3
    <3> HIDE DEF at
    <3> QED
      BY <2>1, <3>1, DeepestOnce
  <2> QED
    BY <2>1
<1>5. <<>> \in Seq(Nat) /\ 0 \in 0..L + 1 /\ L + 1 \in 1..L + 1
      /\ \A b \in 1..L + 1 : b \in 0..L + 1 /\ b # 0
  OBVIOUS
<1>6. U[0] = <<>> /\ \A b \in 1..L + 1 : U[b] = up[at(b)]
  <2> HIDE DEF at
  <2> QED
    BY <1>5
<1>7. \A b \in 0..L + 1 : (IF b = 0 THEN <<>> ELSE up[at(b)]) \in Seq(Nat)
  <2>1. \A b \in 1..L + 1 : up[at(b)] \in Seq(Nat)
    <3> HIDE DEF at
    <3> QED
      BY <1>2, <1>3 DEF Deepest
  <2>2. \A b \in 0..L + 1 : b # 0 => b \in 1..L + 1
    OBVIOUS
  <2> HIDE DEF at
  <2> QED
    BY <1>5, <2>1, <2>2
<1>8. U \in [0..L + 1 -> Seq(Nat)]
  <2> HIDE DEF at
  <2> QED
    BY <1>7
<1> HIDE DEF U, at
<1>9. ASSUME NEW b \in 0..L
      PROVE  U[b + 1] = ValueOf(SubSeq(key, 1, b)) \o U[b]
  <2>1. b + 1 \in 1..L + 1 /\ b + 1 # 0 /\ (b # 0 => b \in 1..L + 1) /\ b < b + 1
    OBVIOUS
  <2>2. \A n \in DOMAIN nodes : Len(spelled[n]) \in Nat
    BY SpelledEnd
  <2>3. \A n \in DOMAIN nodes :
           spelled[n] = SubSeq(key, 1, b) <=> Begins(key, spelled, n) /\ Len(spelled[n]) = b
    BY <1>1, BeginsWhere
  <2>4. \A x, y \in Nat : (x < y + 1 => x <= y) /\ (x < y + 1 /\ x # y => x < y) /\ (x < y => x < y + 1)
    OBVIOUS
  <2>5. b \in Nat
    OBVIOUS
  <2>6. CASE \E n \in DOMAIN nodes : Begins(key, spelled, n) /\ Len(spelled[n]) = b
    <3>1. PICK n \in DOMAIN nodes : Begins(key, spelled, n) /\ Len(spelled[n]) = b
      BY <2>6
    <3>2. Deepest(key, spelled, b + 1, n)
      <4>1. \A m \in DOMAIN nodes : Len(spelled[m]) < b + 1 => Len(spelled[m]) <= Len(spelled[n])
        BY <2>2, <2>4, <2>5, <3>1
      <4> QED
        BY <2>1, <3>1, <4>1 DEF Deepest
    <3>3. U[b + 1] = One(nodes[n].value) \o up[nodes[n].parent]
      BY <1>2, <1>4, <1>6, <2>1, <3>2
    <3>4. ValueOf(SubSeq(key, 1, b)) = One(nodes[n].value)
      BY <2>3, <3>1, ValueAt
    <3>5. up[nodes[n].parent] = U[b]
      <4>1. CASE n = Root
        <5>1. nodes[n].parent = 0 /\ spelled[n] = <<>> /\ Len(<<>>) = 0
          BY <4>1, EmptySeq DEF Tree, Spelling
        <5> QED
          BY <1>6, <3>1, <5>1 DEF Upwards
      <4>2. CASE n # Root
        <5>1. n \in DOMAIN nodes \ {Root}
          BY <4>2
        <5>2. Deepest(key, spelled, b, nodes[n].parent)
          BY <3>1, <5>1, ParentDeepest
        <5>3. b # 0
          <6>1. Len(spelled[nodes[n].parent]) < b /\ nodes[n].parent \in DOMAIN nodes
            BY <5>2 DEF Deepest
          <6> QED
            BY <2>2, <6>1
        <5> QED
          BY <1>4, <1>6, <2>1, <5>2, <5>3
      <4> QED
        BY <4>1, <4>2
    <3> QED
      BY <3>3, <3>4, <3>5
  <2>7. CASE \A n \in DOMAIN nodes : Begins(key, spelled, n) => Len(spelled[n]) # b
    <3>1. ValueOf(SubSeq(key, 1, b)) = <<>>
      BY <2>3, <2>7, ValueNowhere
    <3>2. b # 0
      <4>1. Root \in DOMAIN nodes /\ spelled[Root] = <<>> /\ Len(<<>>) = 0
        BY EmptySeq DEF Tree, Spelling
      <4>2. 0 <= Len(key) /\ 1..0 = {}
        BY <1>1
      <4>3. Begins(key, spelled, Root)
        BY <4>1, <4>2 DEF Begins, BeginsWith
      <4> QED
        BY <2>7, <4>1, <4>3
    <3>3. PICK n : n = at(b)
      OBVIOUS
    <3>4. Deepest(key, spelled, b, n)
      BY <1>3, <2>1, <3>2, <3>3
    <3>5. Deepest(key, spelled, b + 1, n)
      <4>1. n \in DOMAIN nodes /\ Begins(key, spelled, n) /\ Len(spelled[n]) < b
            /\ \A m \in DOMAIN nodes :
                  Begins(key, spelled, m) /\ Len(spelled[m]) < b => Len(spelled[m]) <= Len(spelled[n])
        BY <3>4 DEF Deepest
      <4>2. \A m \in DOMAIN nodes :
               Begins(key, spelled, m) /\ Len(spelled[m]) < b + 1 => Len(spelled[m]) < b
        BY <2>2, <2>4, <2>5, <2>7
      <4>3. Len(spelled[n]) < b + 1
        BY <2>2, <2>4, <2>5, <4>1
      <4> QED
        BY <4>1, <4>2, <4>3 DEF Deepest
    <3>6. U[b + 1] = up[n] /\ U[b] = up[n] /\ up[n] \in Seq(Nat)
      BY <1>2, <1>4, <1>6, <2>1, <3>2, <3>3, <3>4, <3>5 DEF Deepest
    <3>7. <<>> \o up[n] = up[n]
      BY <3>6, ConcatEmptySeq
    <3> QED
      BY <3>1, <3>6, <3>7
  <2> QED
    BY <2>6, <2>7
<1>10. Collected(key, U)
  BY <1>1, <1>6, <1>8, <1>9 DEF Collected
<1>11. \A n : Deepest(key, spelled, L + 1, n) => up[n] = U[L + 1]
  BY <1>4, <1>5, <1>6
<1> QED
  BY <1>1, <1>10, <1>11

\* Beginnings without a value add nothing.
LEMMA Skips ==
    ASSUME NEW key \in Seq(Characters), NEW U, Collected(key, U),
           NEW a \in 0..Len(key) + 1, NEW b \in a..Len(key) + 1,
           \A j \in a..b - 1 : ValueOf(SubSeq(key, 1, j)) = <<>>
    PROVE  U[b] = U[a]
<1>1. PICK L \in Nat : L = Len(key)
  OBVIOUS
<1> DEFINE Bad == {k \in a..b : U[k] # U[a]}
<1>2. SUFFICES ASSUME Bad # {} PROVE FALSE
  <2>1. b \in a..b
    BY <1>1
  <2> QED
    BY <1>2, <2>1
<1>3. PICK k \in Bad : \A l \in Bad : k <= l
  <2>1. Bad \in SUBSET Nat
    BY <1>1
  <2> HIDE DEF Bad
  <2> QED
    BY <1>2, <2>1, LeastExists
<1>4. k \in a..b /\ U[k] # U[a]
  OBVIOUS
<1>5. k # a
  BY <1>4
<1>6. PICK j : j = k - 1
  OBVIOUS
<1>7. j \in a..b /\ j \in a..b - 1 /\ j \in 0..L /\ j + 1 = k /\ ~(k <= j)
  BY <1>1, <1>4, <1>5, <1>6
<1>8. U[j] = U[a]
  BY <1>3, <1>7
<1>9. U[k] = <<>> \o U[j] /\ U[j] \in Seq(Nat)
  <2>1. U[j + 1] = ValueOf(SubSeq(key, 1, j)) \o U[j]
    BY <1>1, <1>7 DEF Collected
  <2>2. j \in 0..L + 1
    BY <1>7
  <2>3. U[j] \in Seq(Nat)
    BY <1>1, <2>2 DEF Collected
  <2> QED
    BY <1>7, <2>1, <2>3
<1> QED
  BY <1>4, <1>8, <1>9, ConcatEmptySeq

LEMMA UpwardsAt ==
    ASSUME Tree(nodes), NEW up, Upwards(up), NEW n \in DOMAIN nodes
    PROVE  /\ up[n] = One(nodes[n].value) \o up[nodes[n].parent]
           /\ nodes[n].value \in Nat /\ up[n] \in Seq(Nat) /\ up[nodes[n].parent] \in Seq(Nat)
<1>1. nodes \in Seq(Node)
  BY DEF Tree
<1>2. DOMAIN nodes = 1..Len(nodes) /\ Len(nodes) \in Nat /\ nodes[n] \in Node
  BY <1>1
<1>3. 0 \in 0..Len(nodes) /\ DOMAIN nodes \subseteq 0..Len(nodes)
  BY <1>2
<1>4. nodes[n].value \in Nat
  BY <1>2 DEF Node
<1>5. nodes[n].parent = 0 \/ nodes[n].parent \in DOMAIN nodes
  BY DEF Tree
<1> QED
  BY <1>3, <1>4, <1>5 DEF Upwards

\* A child for a beginning of a key starts with the next character.
LEMMA ChildFirst ==
    ASSUME Tree(nodes), NEW spelled, Spelling(nodes, spelled), NEW key \in Seq(Characters),
           NEW n \in DOMAIN nodes, NEW d \in nodes[n].childs, Begins(key, spelled, d)
    PROVE  nodes[d].path[1] = key[Len(spelled[n]) + 1] /\ Len(spelled[n]) < Len(key)
<1>1. d \in DOMAIN nodes \ {Root}
  BY DEF Tree
<1>2. PICK x \in Nat, y \in Nat, z \in Nat, L \in Nat :
         x = Len(spelled[n]) /\ y = Len(nodes[d].path) /\ z = Len(spelled[d]) /\ L = Len(key)
  BY <1>1, SpelledEnd
<1>3. z = x + y /\ y # 0 /\ EndsWith(spelled[d], nodes[d].path)
  BY <1>1, <1>2, SpelledEnd, SpelledChildLength
<1>4. z <= L /\ \A j \in 1..z : key[j] = spelled[d][j]
  BY <1>2 DEF Begins, BeginsWith
<1>5. 1 \in 1..y /\ z - y + 1 = x + 1 /\ x + 1 \in 1..z /\ x < L
  BY <1>3, <1>4
<1>6. spelled[d][z - y + 1] = nodes[d].path[1]
  BY <1>2, <1>3, <1>5 DEF EndsWith
<1> QED
  BY <1>2, <1>4, <1>5, <1>6

-----------------------------------------------------------------------------
\* Values are found for the keys of scopes only.
OnlyKeys == \A key : key \notin Keys => ValueOf(key) = <<>>

LEMMA InitOnlyKeys ==
    ASSUME StoreInit, StoreIInv
    PROVE  OnlyKeys
<1>1. nodes = EmptyNodes
  BY DEF StoreInit
<1>2. \E spelled : Spelling(nodes, spelled)
  BY DEF StoreIInv, ShapesOf
<1> QED
  BY <1>1, <1>2, EmptyMaps, StoreCodeExact DEF CodeExact, OnlyKeys

LEMMA CodeKeepsOnlyKeys ==
    ASSUME StoreIInv, StoreIInv', CodeExact, CodeExact', OnlyKeys, NEW p \in Places,
           NEW s \in CodeScopes, NEW n \in Levels(s), NEW new \in Nat, new = Null \/ new \notin Live,
           AccessCode(Key(p, s, n), new)
    PROVE  OnlyKeys'
<1>1. PICK key : key = Key(p, s, n)
  OBVIOUS
<1>2. key \in Keys /\ key \in Seq(Characters)
  BY <1>1, KeyInKeys
<1>3. CodeExact /\ CodeExact'
  OBVIOUS
<1>4. PICK c : c = Create(key)
  OBVIOUS
<1>5. AccessCode(key, new)
  BY <1>1
<1>6. \A k : k # key => ValueOf(k)' = ValueOf(k)
  BY <1>2, <1>3, <1>4, <1>5, CodeChanges
<1>7. \A k : k \notin Keys => ValueOf(k)' = <<>>
  BY <1>2, <1>6 DEF OnlyKeys
<1> QED
  BY <1>7 DEF OnlyKeys, Keys

LEMMA NodesStayOnlyKeys ==
    ASSUME StoreIInv, CodeExact, CodeExact', OnlyKeys, nodes' = nodes
    PROVE  OnlyKeys'
<1>1. \A k : ValueOf(k)' = ValueOf(k)
  BY CodeStays
<1>2. \A k : k \notin Keys => ValueOf(k)' = <<>>
  BY <1>1 DEF OnlyKeys
<1> QED
  BY <1>2 DEF OnlyKeys, Keys

LEMMA AccessOnlyKeys ==
    ASSUME StoreIInv, StoreIInv', CodeExact, CodeExact', OnlyKeys, Call, NEW p \in Places, NEW t \in Threads,
           NEW s \in CodeScopes \cup ThreadScopes \cup {"Global"}, NEW n \in Levels(s),
           Insert(p, t, s, n, NewObject) \/ RemoveCurrent(p, t, s, n)
    PROVE  OnlyKeys'
<1>1. CASE s \in CodeScopes
  <2>1. s # "Global" /\ s \notin ThreadScopes
    BY <1>1 DEF CodeScopes, ThreadScopes
  <2>2. AccessCode(Key(p, s, n), NewObject) \/ AccessCode(Key(p, s, n), Null)
    BY <1>1, <2>1 DEF Insert, RemoveCurrent
  <2>3. NewObject \in Nat /\ NewObject \notin Live /\ Null \in Nat
    BY NewIsObject, NullIsNotLive DEF Null
  <2> QED
    BY <1>1, <2>2, <2>3, CodeKeepsOnlyKeys
<1>2. CASE s \notin CodeScopes
  <2>1. nodes' = nodes
    <3>1. s = "Global" \/ s \in ThreadScopes
      BY <1>2
    <3>2. CASE s = "Global" /\ s \notin ThreadScopes
      BY <1>2, <3>2 DEF Insert, RemoveCurrent, AccessGlobal
    <3>3. CASE s \in ThreadScopes /\ s # "Global"
      BY <1>2, <3>3 DEF Insert, RemoveCurrent, SetThread
    <3>4. "Global" \notin ThreadScopes
      BY DEF ThreadScopes
    <3> QED
      BY <3>1, <3>2, <3>3, <3>4
  <2> QED
    BY <2>1, NodesStayOnlyKeys
<1> QED
  BY <1>1, <1>2

LEMMA NextOnlyKeys ==
    ASSUME StoreIInv, StoreIInv', CodeExact, CodeExact', OnlyKeys, [StoreNext]_storeVars
    PROVE  OnlyKeys'
<1>1. ASSUME NEW p \in Places, NEW t \in Threads,
             NEW s \in CodeScopes \cup ThreadScopes \cup {"Global"}, NEW n \in Levels(s),
             NEW c \in Texts, SetDomain(p, t, s, n, c) \/ GetMap(p, t, s, n, c)
      PROVE  OnlyKeys'
  <2>1. Call /\ Insert(p, t, s, n, NewObject)
    BY <1>1 DEF SetDomain, GetMap
  <2> QED
    BY <2>1, AccessOnlyKeys
<1>2. ASSUME NEW p \in Places, NEW t \in Threads,
             NEW s \in CodeScopes \cup ThreadScopes \cup {"Global"}, NEW n \in Levels(s),
             UnsetDomain(p, t, s, n) \/ DropMap(p, t, s, n)
      PROVE  OnlyKeys'
  <2>1. Call /\ RemoveCurrent(p, t, s, n)
    BY <1>2 DEF UnsetDomain, DropMap
  <2> QED
    BY <2>1, AccessOnlyKeys
<1>3. ASSUME NEW t \in Threads, NEW s \in ThreadScopes, NEW c \in Texts, RemoveThreadDomain(t, s, c)
      PROVE  OnlyKeys'
  <2>1. nodes' = nodes
    BY <1>3 DEF RemoveThreadDomain, SetThread
  <2> QED
    BY <2>1, NodesStayOnlyKeys
<1>4. CASE Clear
  <2>1. nodes' = EmptyNodes
    BY <1>4 DEF Clear
  <2>2. (\E spelled : Spelling(nodes', spelled)) /\ CodeExact'
    BY DEF StoreIInv, ShapesOf
  <2>3. \A k : ValueOf(k)' = <<>>
    BY <2>1, <2>2, EmptyMaps DEF CodeExact
  <2> QED
    BY <2>3 DEF OnlyKeys
<1>5. CASE UNCHANGED storeVars
  <2>1. nodes' = nodes
    BY <1>5 DEF storeVars
  <2> QED
    BY <2>1, NodesStayOnlyKeys
<1>6. CASE Exhausted
  BY <1>5, <1>6 DEF Exhausted
<1>7. CASE \E p \in Places, t \in Threads, s \in CodeScopes \cup ThreadScopes \cup {"Global"} :
             \E n \in Levels(s) :
                \/ \E c \in Texts : SetDomain(p, t, s, n, c) \/ GetMap(p, t, s, n, c)
                \/ UnsetDomain(p, t, s, n)
                \/ DropMap(p, t, s, n)
  <2>1. PICK p \in Places, t \in Threads, s \in CodeScopes \cup ThreadScopes \cup {"Global"} :
             \E n \in Levels(s) :
                \/ \E c \in Texts : SetDomain(p, t, s, n, c) \/ GetMap(p, t, s, n, c)
                \/ UnsetDomain(p, t, s, n)
                \/ DropMap(p, t, s, n)
    BY <1>7
  <2>2. PICK n \in Levels(s) :
                \/ \E c \in Texts : SetDomain(p, t, s, n, c) \/ GetMap(p, t, s, n, c)
                \/ UnsetDomain(p, t, s, n)
                \/ DropMap(p, t, s, n)
    BY <2>1
  <2> QED
    BY <1>1, <1>2, <2>2
<1> QED
  BY <1>3, <1>4, <1>5, <1>6, <1>7 DEF StoreNext

-----------------------------------------------------------------------------
\* The node from which a walk starts is the deepest one for the key, or one that has no value
\* and lies between the two, or one whose path goes on elsewhere.
LEMMA WalkStarts ==
    ASSUME Tree(nodes), NEW spelled, Spelling(nodes, spelled), NEW key \in Seq(Characters),
           NEW up, Upwards(up), OnlyKeys, \A k \in Keys : k # <<>> /\ k[Len(k)] \in Separators
    PROVE  \E d : /\ Deepest(key, spelled, Len(key) + 1, d)
                  /\ \/ up[Get(key)] = up[d]
                     \/ \E v \in Nat : up[Get(key)] = <<v>> \o up[d]
<1>1. PICK e : e = Descent(key)
  OBVIOUS
<1>2. Ended(key, spelled, e)
  BY <1>1, DescentEnds
<1>3. PICK n \in DOMAIN nodes : n = e.node
  BY <1>2 DEF Ended
<1>4. PICK L \in Nat, i \in Nat, m \in Nat, l \in Nat, s \in Nat :
         /\ L = Len(key) /\ i = e.consumed /\ m = e.matched /\ l = Len(nodes[n].path)
         /\ s = Len(spelled[n])
  <2>1. Len(key) \in Nat /\ Len(nodes[n].path) \in Nat /\ Len(spelled[n]) \in Nat
    BY SpelledEnd
  <2>2. e.consumed \in 0..Len(key) /\ e.matched \in Nat
    BY <1>2 DEF Ended
  <2>3. e.consumed \in Nat
    BY <2>1, <2>2
  <2> QED
    BY <2>1, <2>2, <2>3
<1>5. /\ i <= L /\ m <= l /\ i + l = s + m
      /\ \A j \in 1..i : key[j] = spelled[n][j]
      /\ n # Root => m # 0
      /\ i < L => /\ m < l => nodes[n].path[m + 1] # key[i + 1]
                  /\ m = l => \A c \in nodes[n].childs : nodes[c].path[1] # key[i + 1]
  <2>1. i \in 0..L /\ m \in 0..l /\ i + l = s + m
    BY <1>2, <1>3, <1>4 DEF Ended
  <2>2. \A j \in 1..i : key[j] = spelled[n][j]
    BY <1>2, <1>3, <1>4 DEF Ended, Agrees
  <2>3. n # Root => m # 0
    BY <1>2, <1>3, <1>4 DEF Ended
  <2>4. i < L => /\ m < l => nodes[n].path[m + 1] # key[i + 1]
                 /\ m = l => \A c \in nodes[n].childs : nodes[c].path[1] # key[i + 1]
    BY <1>2, <1>3, <1>4 DEF Ended, Whole
  <2> QED
    BY <2>1, <2>2, <2>3, <2>4
<1>6. Get(key) = IF (m = l /\ i = L) \/ nodes[n].parent = 0 \/ nodes[n].path[m] \in Separators
                   THEN n ELSE nodes[n].parent
  BY <1>1, <1>3, <1>4 DEF Get, Exact, Whole
<1>7. \A c \in DOMAIN nodes : Len(spelled[c]) \in Nat
  BY SpelledEnd
<1>8. CASE m = l
  <2>1. i = s /\ s <= L
    BY <1>5, <1>8
  <2>2. Begins(key, spelled, n)
    BY <1>4, <1>5, <2>1 DEF Begins, BeginsWith
  <2>3. Deepest(key, spelled, L + 1, n)
    <3>1. ASSUME NEW c \in DOMAIN nodes, Begins(key, spelled, c)
          PROVE  Len(spelled[c]) <= s
      <4>1. SUFFICES ASSUME s < Len(spelled[c]) PROVE FALSE
        BY <1>7
      <4>2. s <= Len(spelled[c]) /\ n # c /\ Len(spelled[c]) <= L
        BY <1>4, <1>7, <3>1, <4>1 DEF Begins
      <4>3. Below(spelled, n, c)
        BY <1>4, <2>2, <3>1, <4>2, BeginsOrders
      <4>4. PICK d \in nodes[n].childs : Below(spelled, d, c)
        BY <4>2, <4>3, ChildTowards
      <4>5. d \in DOMAIN nodes
        BY DEF Tree
      <4>6. Begins(key, spelled, d)
        BY <3>1, <4>4, <4>5, BeginsOrders
      <4>7. nodes[d].path[1] = key[s + 1] /\ s < L
        BY <1>4, <4>6, ChildFirst
      <4> QED
        BY <1>5, <1>8, <2>1, <4>7
    <3>2. s < L + 1
      BY <2>1
    <3> QED
      BY <1>4, <2>2, <3>1, <3>2 DEF Deepest
  <2>4. CASE Get(key) = n
    BY <1>4, <2>3, <2>4
  <2>5. CASE Get(key) # n
    <3>1. Get(key) = nodes[n].parent /\ nodes[n].parent # 0 /\ nodes[n].path[m] \notin Separators
      BY <1>6, <2>5
    <3>2. n # Root
      BY <3>1 DEF Tree
    <3>3. spelled[n] \in Seq(Characters) /\ EndsWith(spelled[n], nodes[n].path) /\ l # 0
      BY <1>4, <3>2, SpelledEnd
    <3>4. l \in 1..l /\ s - l + l = s
      BY <3>3
    <3>5. spelled[n][s] = nodes[n].path[l]
      BY <1>4, <3>3, <3>4 DEF EndsWith
    <3>6. spelled[n] \notin Keys
      BY <1>4, <1>8, <3>1, <3>5
    <3>7. One(nodes[n].value) = <<>>
      BY <3>6, ValueAt DEF OnlyKeys
    <3>8. up[n] = <<>> \o up[nodes[n].parent] /\ up[nodes[n].parent] \in Seq(Nat)
      BY <3>7, UpwardsAt
    <3>9. up[Get(key)] = up[n]
      BY <3>1, <3>8, ConcatEmptySeq
    <3> QED
      BY <1>4, <2>3, <3>9
  <2> QED
    BY <2>4, <2>5
<1>9. CASE m # l
  <2>1. m < l /\ i < s
    BY <1>5, <1>9
  <2>2. n # Root
    <3>1. l # 0
      BY <2>1
    <3> QED
      BY <1>4, <3>1, SpelledEnd
  <2>3. PICK q \in DOMAIN nodes : q = nodes[n].parent /\ n \in nodes[q].childs
    BY <2>2 DEF Tree
  <2>4. PICK x \in Nat : x = Len(spelled[q]) /\ s = x + l /\ BeginsWith(spelled[n], spelled[q])
    BY <1>4, <1>7, <2>3, SpelledChild, SpelledChildLength
  <2>5. i = x + m /\ m # 0 /\ x <= i /\ x < i /\ x + 1 \in 1..i
    <3>1. m # 0 /\ i + l = s + m /\ s = x + l
      BY <1>5, <2>2, <2>4
    <3>2. \A b, c, d, e1, e2 \in Nat :
             b # 0 /\ e1 + c = e2 + b /\ e2 = d + c => e1 = d + b /\ d <= e1 /\ d < e1 /\ d + 1 \in 1..e1
      OBVIOUS
    <3> QED
      BY <3>1, <3>2
  <2>6. Begins(key, spelled, q)
    <3>1. \A j \in 1..x : spelled[n][j] = spelled[q][j] /\ j \in 1..i
      BY <2>4, <2>5 DEF BeginsWith
    <3>2. x <= L
      BY <1>5, <2>5
    <3> QED
      BY <1>4, <1>5, <2>4, <3>1, <3>2 DEF Begins, BeginsWith
  <2>7. ~Begins(key, spelled, n)
    <3>1. SUFFICES ASSUME Begins(key, spelled, n) PROVE FALSE
      OBVIOUS
    <3>2. s <= L /\ \A j \in 1..s : key[j] = spelled[n][j]
      BY <1>4, <3>1 DEF Begins, BeginsWith
    <3>3. i < L /\ i + 1 \in 1..s /\ m + 1 \in 1..l /\ s - l + (m + 1) = i + 1
      <4>1. \A b, c, d, e1, e2 \in Nat :
               b < c /\ e1 + c = e2 + b /\ e2 <= d
                 => e1 < d /\ e1 + 1 \in 1..e2 /\ b + 1 \in 1..c /\ e2 - c + (b + 1) = e1 + 1
        OBVIOUS
      <4>2. m < l /\ i + l = s + m /\ s <= L
        BY <1>5, <2>1, <3>2
      <4> QED
        BY <4>1, <4>2
    <3>4. spelled[n][s - l + (m + 1)] = nodes[n].path[m + 1]
      <4>1. EndsWith(spelled[n], nodes[n].path)
        BY SpelledEnd
      <4>2. \A j \in 1..l : spelled[n][s - l + j] = nodes[n].path[j]
        BY <1>4, <4>1 DEF EndsWith
      <4> QED
        BY <3>3, <4>2
    <3> QED
      BY <1>5, <2>1, <3>2, <3>3, <3>4
  <2>8. nodes[n].path[1] = key[x + 1]
    <3>1. 1 \in 1..l /\ s - l + 1 = x + 1
      BY <2>1, <2>4
    <3>2. EndsWith(spelled[n], nodes[n].path)
      BY SpelledEnd
    <3>3. spelled[n][s - l + 1] = nodes[n].path[1]
      BY <1>4, <3>1, <3>2 DEF EndsWith
    <3> QED
      BY <1>5, <2>5, <3>1, <3>3
  <2>9. Deepest(key, spelled, L + 1, q)
    <3>1. ASSUME NEW c \in DOMAIN nodes, Begins(key, spelled, c)
          PROVE  Len(spelled[c]) <= x
      <4>1. SUFFICES ASSUME x < Len(spelled[c]) PROVE FALSE
        BY <1>7
      <4>2. x <= Len(spelled[c]) /\ q # c
        BY <1>7, <2>4, <4>1
      <4>3. Below(spelled, q, c)
        BY <2>4, <2>6, <3>1, <4>2, BeginsOrders
      <4>4. PICK d \in nodes[q].childs : Below(spelled, d, c)
        BY <4>2, <4>3, ChildTowards
      <4>5. d \in DOMAIN nodes
        BY DEF Tree
      <4>6. Begins(key, spelled, d)
        BY <3>1, <4>4, <4>5, BeginsOrders
      <4>7. nodes[d].path[1] = key[x + 1]
        BY <2>4, <4>6, ChildFirst
      <4>8. d = n
        BY <2>3, <2>8, <4>7 DEF Tree
      <4> QED
        BY <2>7, <4>6, <4>8
    <3>2. x < L + 1
      BY <1>5, <2>5
    <3> QED
      BY <2>4, <2>6, <3>1, <3>2 DEF Deepest
  <2>10. Get(key) = n \/ Get(key) = q
    BY <1>6, <2>3
  <2>11. CASE Get(key) = q
    BY <1>4, <2>9, <2>11
  <2>12. CASE Get(key) = n
    <3>1. up[n] = One(nodes[n].value) \o up[q] /\ nodes[n].value \in Nat /\ up[q] \in Seq(Nat)
      BY <2>3, UpwardsAt
    <3>2. CASE nodes[n].value = Null
      <4>1. up[n] = up[q]
        BY <3>1, <3>2, ConcatEmptySeq DEF One
      <4> QED
        BY <1>4, <2>9, <2>12, <4>1
    <3>3. CASE nodes[n].value # Null
      <4>1. up[n] = <<nodes[n].value>> \o up[q]
        BY <3>1, <3>3 DEF One
      <4> QED
        BY <1>4, <2>9, <2>12, <3>1, <4>1
    <3> QED
      BY <3>2, <3>3
  <2> QED
    BY <2>10, <2>11, <2>12
<1> QED
  BY <1>8, <1>9

-----------------------------------------------------------------------------
\* The keys of scopes end with a separator.
LEMMA KeysEnd ==
    ASSUME NEW key \in Keys
    PROVE  key \in Seq(Characters) /\ key # <<>> /\ key[Len(key)] \in Separators
<1>1. PICK p \in Places, s \in CodeScopes, n \in 0..MaxPathLevel : key = Key(p, s, n)
  BY DEF Keys
<1>2. p.path \in Seq(Characters) /\ p.file \in Seq(Characters) /\ p.method \in Seq(Characters)
  BY PlaceAssumption
<1>3. <<"/">> \in Seq(Characters) /\ <<"#">> \in Seq(Characters)
  <2>1. \A S : \A c \in S : <<c>> \in Seq(S)
    OBVIOUS
  <2>2. "/" \in Characters /\ "#" \in Characters
    BY PlaceAssumption
  <2> QED
    BY <2>1, <2>2
<1>4. \E u \in Seq(Characters), c \in {"/", "#"} : key = u \o <<c>>
  <2>1. CASE s = "Path"
    <3>1. n \in Nat
      BY LimitsAssumption
    <3>2. Cut(p.path, n) \in Seq(Characters)
      BY <1>2, <3>1, CutIs
    <3>3. key = Cut(p.path, n) \o <<"/">>
      BY <1>1, <2>1 DEF Key
    <3> QED
      BY <3>2, <3>3
  <2>2. PICK x \in Seq(Characters) : x = p.path \o <<"/">>
    BY <1>2, <1>3, ConcatProperties
  <2>3. PICK y \in Seq(Characters) : y = x \o p.file
    BY <1>2, ConcatProperties
  <2>4. PICK z \in Seq(Characters) : z = y \o <<"#">>
    BY <1>3, ConcatProperties
  <2>5. PICK w \in Seq(Characters) : w = z \o p.method
    BY <1>2, ConcatProperties
  <2>6. CASE s = "Filename"
    <3>1. key = y \o <<"#">>
      BY <1>1, <2>2, <2>3, <2>6 DEF Key
    <3> QED
      BY <3>1
  <2>7. CASE s = "Method"
    <3>1. key = w \o <<"#">>
      BY <1>1, <2>2, <2>3, <2>4, <2>5, <2>7 DEF Key
    <3> QED
      BY <3>1
  <2> QED
    BY <2>1, <2>6, <2>7 DEF CodeScopes
<1>5. PICK u \in Seq(Characters), c \in {"/", "#"} : key = u \o <<c>>
  BY <1>4
<1>6. <<c>> \in Seq(Characters) /\ Len(<<c>>) = 1 /\ <<c>>[1] = c
  BY <1>3, <1>5
<1>7. PICK x \in Nat : x = Len(u)
  OBVIOUS
<1>8. /\ key \in Seq(Characters) /\ Len(key) = x + 1
      /\ \A i \in 1..x + 1 : key[i] = IF i <= x THEN u[i] ELSE <<c>>[i - x]
  BY <1>5, <1>6, <1>7, Concatenated
<1>9. x + 1 \in 1..x + 1 /\ ~(x + 1 <= x) /\ x + 1 - x = 1 /\ x + 1 # 0
  OBVIOUS
<1>10. key[Len(key)] = c
  BY <1>6, <1>8, <1>9
<1>11. Len(<<>>) = 0
  OBVIOUS
<1> QED
  BY <1>5, <1>8, <1>9, <1>10, <1>11 DEF Separators

\* What two sequences make of each other.
Parts(S, s, t, u) ==
    /\ u \in Seq(S) /\ Len(u) = Len(s) + Len(t)
    /\ \A i \in 1..Len(s) : i \in 1..Len(u) /\ u[i] = s[i]
    /\ \A i \in 1..Len(t) : Len(s) + i \in 1..Len(u) /\ u[Len(s) + i] = t[i]

LEMMA Appended ==
    ASSUME NEW S, NEW s \in Seq(S), NEW t \in Seq(S), NEW u, Joins(s, t, u)
    PROVE  Parts(S, s, t, u)
<1>1. PICK m \in Nat, n \in Nat : m = Len(s) /\ n = Len(t)
  OBVIOUS
<1>2. u = s \o t
  BY DEF Joins
<1>3. u \in Seq(S) /\ Len(u) = m + n /\ \A i \in 1..m + n : u[i] = IF i <= m THEN s[i] ELSE t[i - m]
  BY <1>1, <1>2, Concatenated
<1>4. ASSUME NEW i \in 1..m
      PROVE  i \in 1..m + n /\ u[i] = s[i]
  <2>1. i \in 1..m + n /\ i <= m
    OBVIOUS
  <2> QED
    BY <1>3, <2>1
<1>5. ASSUME NEW i \in 1..n
      PROVE  m + i \in 1..m + n /\ u[m + i] = t[i]
  <2>1. PICK j \in Nat : j = m + i
    OBVIOUS
  <2>2. j \in 1..m + n /\ ~(j <= m) /\ j - m = i
    BY <2>1
  <2> QED
    BY <1>3, <2>1, <2>2
<1> QED
  BY <1>1, <1>3, <1>4, <1>5 DEF Parts

\* Joining is associative.
LEMMA Reassociated ==
    ASSUME NEW S, NEW s \in Seq(S), NEW t \in Seq(S), NEW u \in Seq(S), NEW st, Joins(s, t, st),
           NEW tu, Joins(t, u, tu), NEW x, Joins(st, u, x)
    PROVE  Joins(s, tu, x)
<1>1. (s \o t) \o u = s \o (t \o u)
  BY ONLY ConcatAssociative
<1> QED
  BY <1>1 DEF Joins

\* A sequence is the beginning of what it makes with another one.
LEMMA BeginningOfJoined ==
    ASSUME NEW S, NEW s \in Seq(S), NEW t \in Seq(S), NEW u, Joins(s, t, u)
    PROVE  SubSeq(u, 1, Len(s)) = s
<1>1. Parts(S, s, t, u)
  BY Appended
<1>2. PICK m \in Nat, n \in Nat : m = Len(s) /\ n = Len(t)
  OBVIOUS
<1>3. u \in Seq(S) /\ Len(u) = m + n /\ \A i \in 1..m : u[i] = s[i]
  BY <1>1, <1>2 DEF Parts
<1>4. m \in 0..Len(u)
  BY <1>3
<1>5. /\ SubSeq(u, 1, m) \in Seq(S) /\ Len(SubSeq(u, 1, m)) = m
      /\ \A j \in 1..m : SubSeq(u, 1, m)[j] = u[j]
  BY <1>3, <1>4, BeginningIs
<1>6. SubSeq(u, 1, m) = s
  BY <1>2, <1>3, <1>5, SeqEqual
<1> QED
  BY <1>2, <1>6

\* Two and three sequences with a separator after each.
Twice(r, s)    == ((r \o <<"/">>) \o s) \o <<"#">>
Spelt(r, s, t) == (Twice(r, s) \o t) \o <<"#">>

SpeltParts(r, s, t, w) ==
    /\ w \in Seq(Characters) /\ Len(w) = Len(r) + Len(s) + Len(t) + 3
    /\ \A i \in 1..Len(r) : w[i] = r[i]
    /\ w[Len(r) + 1] = "/"
    /\ \A i \in 1..Len(s) : w[Len(r) + 1 + i] = s[i]
    /\ \A i \in 1..Len(t) : w[Len(r) + Len(s) + 2 + i] = t[i]
    /\ SubSeq(w, 1, Len(r) + Len(s) + 2) = Twice(r, s)

LEMMA SpeltIs ==
    ASSUME NEW r \in Seq(Characters), NEW s \in Seq(Characters), NEW t \in Seq(Characters)
    PROVE  SpeltParts(r, s, t, Spelt(r, s, t))
<1>1. PICK w : w = Spelt(r, s, t)
  OBVIOUS
<1>2. PICK b, d : b = <<"/">> /\ d = <<"#">>
  OBVIOUS
<1>3. b \in Seq(Characters) /\ d \in Seq(Characters)
  <2>1. \A S : \A c \in S : <<c>> \in Seq(S)
    OBVIOUS
  <2>2. "/" \in Characters /\ "#" \in Characters
    BY PlaceAssumption
  <2> QED
    BY <1>2, <2>1, <2>2
<1>4. Len(b) = 1 /\ Len(d) = 1 /\ b[1] = "/"
  BY <1>2
<1>5. PICK w1 : Joins(r, b, w1)
  BY DEF Joins
<1>6. PICK w2 : Joins(w1, s, w2)
  BY DEF Joins
<1>7. PICK w3 : Joins(w2, d, w3)
  BY DEF Joins
<1>8. PICK w4 : Joins(w3, t, w4)
  BY DEF Joins
<1>9. w3 = Twice(r, s) /\ Joins(w4, d, w)
  BY <1>1, <1>2, <1>5, <1>6, <1>7, <1>8 DEF Joins, Spelt, Twice
<1>10. Parts(Characters, r, b, w1) /\ w1 \in Seq(Characters)
  <2>1. Parts(Characters, r, b, w1)
    BY <1>3, <1>5, Appended
  <2> QED
    BY <2>1 DEF Parts
<1>11. Parts(Characters, w1, s, w2) /\ w2 \in Seq(Characters)
  <2>1. Parts(Characters, w1, s, w2)
    BY <1>6, <1>10, Appended
  <2> QED
    BY <2>1 DEF Parts
<1>12. Parts(Characters, w2, d, w3) /\ w3 \in Seq(Characters)
  <2>1. Parts(Characters, w2, d, w3)
    BY <1>3, <1>7, <1>11, Appended
  <2> QED
    BY <2>1 DEF Parts
<1>13. Parts(Characters, w3, t, w4) /\ w4 \in Seq(Characters)
  <2>1. Parts(Characters, w3, t, w4)
    BY <1>8, <1>12, Appended
  <2> QED
    BY <2>1 DEF Parts
<1>14. Parts(Characters, w4, d, w)
  BY <1>3, <1>9, <1>13, Appended
<1>15. PICK k \in Nat, m \in Nat, n \in Nat : k = Len(r) /\ m = Len(s) /\ n = Len(t)
  OBVIOUS
<1>16. PICK l1 \in Nat : l1 = k + 1
  OBVIOUS
<1>17. PICK l2 \in Nat : l2 = l1 + m
  OBVIOUS
<1>18. PICK l3 \in Nat : l3 = l2 + 1
  OBVIOUS
<1>19. PICK l4 \in Nat : l4 = l3 + n
  OBVIOUS
<1>20. /\ Len(w1) = l1
       /\ \A i \in 1..k : i \in 1..l1 /\ w1[i] = r[i]
       /\ \A i \in 1..1 : k + i \in 1..l1 /\ w1[k + i] = b[i]
  BY <1>4, <1>10, <1>15, <1>16 DEF Parts
<1>21. /\ Len(w2) = l2
       /\ \A i \in 1..l1 : i \in 1..l2 /\ w2[i] = w1[i]
       /\ \A i \in 1..m : l1 + i \in 1..l2 /\ w2[l1 + i] = s[i]
  BY <1>11, <1>15, <1>17, <1>20 DEF Parts
<1>22. /\ Len(w3) = l3
       /\ \A i \in 1..l2 : i \in 1..l3 /\ w3[i] = w2[i]
  BY <1>4, <1>12, <1>18, <1>21 DEF Parts
<1>23. /\ Len(w4) = l4
       /\ \A i \in 1..l3 : i \in 1..l4 /\ w4[i] = w3[i]
       /\ \A i \in 1..n : l3 + i \in 1..l4 /\ w4[l3 + i] = t[i]
  BY <1>13, <1>15, <1>19, <1>22 DEF Parts
<1>24. /\ w \in Seq(Characters) /\ Len(w) = l4 + 1
       /\ \A i \in 1..l4 : w[i] = w4[i]
  BY <1>4, <1>14, <1>23 DEF Parts
<1>25. l4 + 1 = k + m + n + 3 /\ l3 = k + m + 2 /\ 1 \in 1..1
  BY <1>16, <1>17, <1>18, <1>19
<1>26. \A i \in 1..k : w[i] = r[i]
  BY <1>20, <1>21, <1>22, <1>23, <1>24
<1>27. w[k + 1] = "/"
  <2>1. k + 1 \in 1..l1 /\ w1[k + 1] = b[1]
    BY <1>20, <1>25
  <2>2. PICK x : x = k + 1
    OBVIOUS
  <2>3. w[x] = w1[x]
    BY <1>21, <1>22, <1>23, <1>24, <2>1, <2>2
  <2> QED
    BY <1>4, <2>1, <2>2, <2>3
<1>28. \A i \in 1..m : w[l1 + i] = s[i]
  BY <1>21, <1>22, <1>23, <1>24
<1>29. \A i \in 1..n : w[l3 + i] = t[i]
  BY <1>23, <1>24
<1>30. SubSeq(w, 1, l3) = w3
  <2>1. PICK v : Joins(t, d, v)
    BY DEF Joins
  <2>2. v \in Seq(Characters)
    <3>1. Parts(Characters, t, d, v)
      BY <1>3, <2>1, Appended
    <3> QED
      BY <3>1 DEF Parts
  <2>3. Joins(w3, v, w)
    BY <1>3, <1>8, <1>9, <1>12, <2>1, Reassociated
  <2>4. SubSeq(w, 1, Len(w3)) = w3
    BY <1>12, <2>2, <2>3, BeginningOfJoined
  <2> QED
    BY <1>22, <2>4
<1>31. SpeltParts(r, s, t, w)
  BY <1>9, <1>15, <1>16, <1>24, <1>25, <1>26, <1>27, <1>28, <1>29, <1>30 DEF SpeltParts
<1> QED
  BY <1>1, <1>31

\* What the key of a method is made of.
KeyParts(p, key, a, f, g) ==
    /\ p \in Places /\ a \in Nat /\ f \in Nat /\ g \in Nat
    /\ a = Len(p.path) /\ f = Len(p.file) /\ g = Len(p.method)
    /\ key \in Seq(Characters) /\ Len(key) = a + f + g + 3
    /\ \A j \in 1..a : key[j] = p.path[j]
    /\ \A j \in 1..f : key[a + 1 + j] = p.file[j]
    /\ \A j \in 1..g : key[a + f + 2 + j] = p.method[j]
    /\ key[a + 1] = "/" /\ SubSeq(key, 1, a + f + 2) = Key(p, "Filename", 0)

LEMMA KeyPartsAre ==
    ASSUME NEW p \in Places, NEW key, key = Key(p, "Method", 0)
    PROVE  \E a, f, g \in Nat : KeyParts(p, key, a, f, g)
<1>1. PICK r, s, t : r = p.path /\ s = p.file /\ t = p.method
  OBVIOUS
<1>2. r \in Seq(Characters) /\ s \in Seq(Characters) /\ t \in Seq(Characters)
  BY <1>1, PlaceAssumption
<1>3. key = Spelt(r, s, t) /\ Key(p, "Filename", 0) = Twice(r, s)
  BY <1>1 DEF Key, Spelt, Twice
<1>4. PICK a \in Nat, f \in Nat, g \in Nat : a = Len(r) /\ f = Len(s) /\ g = Len(t)
  BY <1>2
<1>5. /\ key \in Seq(Characters) /\ Len(key) = a + f + g + 3
      /\ \A i \in 1..a : key[i] = r[i]
      /\ key[a + 1] = "/"
      /\ \A i \in 1..f : key[a + 1 + i] = s[i]
      /\ \A i \in 1..g : key[a + f + 2 + i] = t[i]
      /\ SubSeq(key, 1, a + f + 2) = Twice(r, s)
  <2>1. SpeltParts(r, s, t, key)
    BY <1>2, <1>3, SpeltIs
  <2> QED
    BY <1>4, <2>1 DEF SpeltParts
<1>6. KeyParts(p, key, a, f, g)
  BY <1>1, <1>3, <1>4, <1>5 DEF KeyParts
<1> QED
  BY <1>4, <1>6

\* Where an index of such a sequence lies.
LEMMA Between ==
    ASSUME NEW a \in Nat, NEW f \in Nat, NEW g \in Nat, NEW b \in Nat, b # 0, b <= a + f + g + 3
    PROVE  \/ b \in 1..a \/ b = a + 1
           \/ \E j \in 1..f : b = a + 1 + j
           \/ b = a + f + 2
           \/ \E j \in 1..g : b = a + f + 2 + j
           \/ b = a + f + g + 3
<1>1. CASE b <= a + 1
  BY <1>1
<1>2. CASE a + 1 < b /\ b <= a + f + 1
  <2>1. b - (a + 1) \in 1..f /\ b = a + 1 + (b - (a + 1))
    BY <1>2
  <2> QED
    BY <2>1
<1>3. CASE b = a + f + 2
  BY <1>3
<1>4. CASE a + f + 2 < b /\ b <= a + f + g + 2
  <2>1. b - (a + f + 2) \in 1..g /\ b = a + f + 2 + (b - (a + f + 2))
    BY <1>4
  <2> QED
    BY <2>1
<1>5. CASE b = a + f + g + 3
  BY <1>5
<1> QED
  BY <1>1, <1>2, <1>3, <1>4, <1>5

\* The beginnings of a method's key that can have values end with the method, with the file or
\* with a directory.
KeysBefore(key, a, f, g) ==
    \A b \in 0..a + f + g + 3 : SubSeq(key, 1, b) \in Keys =>
       b = a + f + g + 3 \/ b = a + f + 2 \/ (b \in 1..a + 1 /\ key[b] = "/")

LEMMA BeginningsOfKey ==
    ASSUME NEW p \in PlainPlaces, NEW key, NEW a, NEW f, NEW g, KeyParts(p, key, a, f, g)
    PROVE  KeysBefore(key, a, f, g)
<1>1. p \in Places /\ a \in Nat /\ f \in Nat /\ g \in Nat
  BY DEF KeyParts
<1>2. a = Len(p.path) /\ f = Len(p.file) /\ g = Len(p.method)
  BY DEF KeyParts
<1> PICK L \in Nat : L = a + f + g + 3
  BY <1>1
<1> SUFFICES ASSUME NEW b \in 0..L, SubSeq(key, 1, b) \in Keys
             PROVE  b = L \/ b = a + f + 2 \/ (b \in 1..a + 1 /\ key[b] = "/")
  BY DEF KeysBefore
<1>3. key \in Seq(Characters) /\ Len(key) = L
  BY DEF KeyParts
<1>4. b \in Nat /\ b <= L
  OBVIOUS
<1>5. /\ Len(SubSeq(key, 1, b)) = b /\ SubSeq(key, 1, b) \in Seq(Characters)
      /\ \A j \in 1..b : SubSeq(key, 1, b)[j] = key[j]
  BY <1>3, BeginningIs
<1>6. b # 0 /\ key[b] \in Separators
  <2>1. SubSeq(key, 1, b) # <<>> /\ SubSeq(key, 1, b)[b] \in Separators
    BY <1>5, KeysEnd
  <2>2. b # 0
    BY <1>5, <2>1, EmptySeq
  <2>3. b \in 1..b
    BY <1>4, <2>2
  <2> QED
    BY <1>5, <2>1, <2>2, <2>3
<1>7. p.path \in Seq(Characters) /\ p.file \in Seq(Characters) /\ p.method \in Seq(Characters)
  BY <1>1, PlaceAssumption
<1>8. CASE b \in 1..a
  <2>1. key[b] = p.path[b]
    BY <1>8 DEF KeyParts
  <2>2. b \in DOMAIN p.path
    BY <1>7, <1>8, <1>2
  <2>3. p.path[b] # "#"
    BY <1>1, <2>2 DEF PlainPlaces, ToSet
  <2>4. key[b] = "/"
    BY <1>6, <2>1, <2>3 DEF Separators
  <2>5. b \in 1..a + 1
    BY <1>1, <1>8
  <2> QED
    BY <2>4, <2>5
<1>9. CASE b = a + 1
  <2>1. b \in 1..a + 1
    BY <1>1, <1>9
  <2> QED
    BY <1>9, <2>1 DEF KeyParts
<1>10. ASSUME NEW j \in 1..f
      PROVE  b # a + 1 + j
  <2>1. key[a + 1 + j] = p.file[j]
    BY DEF KeyParts
  <2>2. p.file[j] \in ToSet(p.file)
    BY <1>7, <1>2 DEF ToSet
  <2> QED
    BY <1>1, <1>6, <2>1, <2>2, PlaceAssumption DEF Separators
<1>11. ASSUME NEW j \in 1..g
      PROVE  b # a + f + 2 + j
  <2>1. key[a + f + 2 + j] = p.method[j]
    BY DEF KeyParts
  <2>2. p.method[j] \in ToSet(p.method)
    BY <1>7, <1>2 DEF ToSet
  <2> QED
    BY <1>1, <1>6, <2>1, <2>2, PlaceAssumption DEF Separators
<1>12. \/ b \in 1..a \/ b = a + 1
       \/ \E j \in 1..f : b = a + 1 + j
       \/ b = a + f + 2
       \/ \E j \in 1..g : b = a + f + 2 + j
       \/ b = a + f + g + 3
  <2>1. b <= a + f + g + 3
    BY <1>4
  <2> QED
    BY ONLY <1>1, <1>4, <1>6, <2>1, Between
<1> QED
  BY <1>8, <1>9, <1>10, <1>11, <1>12


-----------------------------------------------------------------------------
\* The places of the separators in a path, and where it ends if n directories are cut.
Slashes(path) == {i \in DOMAIN path : path[i] = "/"}

CutAfter(path, n, x) ==
    /\ x \in 1..Len(path) + 1 /\ Cardinality({j \in Slashes(path) : j >= x}) = n
    /\ IF n = 0 THEN x = Len(path) + 1 ELSE x \in Slashes(path)

LEMMA SlashesFinite ==
    ASSUME NEW path \in Seq(Characters)
    PROVE  /\ Slashes(path) \in SUBSET (1..Len(path)) /\ Len(path) \in Nat
           /\ IsFiniteSet(Slashes(path)) /\ Cardinality(Slashes(path)) \in Nat
           /\ \A x : /\ IsFiniteSet({j \in Slashes(path) : j >= x})
                     /\ Cardinality({j \in Slashes(path) : j >= x}) \in Nat
<1>1. Slashes(path) \in SUBSET (1..Len(path)) /\ Len(path) \in Nat
  BY DEF Slashes
<1>2. IsFiniteSet(1..Len(path))
  BY <1>1, FS_Interval
<1>3. \A T \in SUBSET (1..Len(path)) : IsFiniteSet(T) /\ Cardinality(T) \in Nat
  BY <1>2, FS_Subset, FS_CardinalityType
<1>4. \A x : {j \in Slashes(path) : j >= x} \in SUBSET (1..Len(path))
  BY <1>1
<1> QED
  BY <1>1, <1>3, <1>4

LEMMA CutAfterExists ==
    ASSUME NEW path \in Seq(Characters), NEW n \in 0..Cardinality(Slashes(path))
    PROVE  \E x : CutAfter(path, n, x)
<1>1. Slashes(path) \in SUBSET (1..Len(path)) /\ Len(path) \in Nat /\ Cardinality(Slashes(path)) \in Nat
  BY SlashesFinite
<1>2. CASE n = 0
  <2>1. {j \in Slashes(path) : j >= Len(path) + 1} = {}
    BY <1>1
  <2>2. Len(path) + 1 \in 1..Len(path) + 1
    BY <1>1
  <2> QED
    BY <1>2, <2>1, <2>2, FS_EmptySet DEF CutAfter
<1>3. CASE n # 0
  <2>1. n \in Nat /\ ~(Cardinality(Slashes(path)) < n)
    BY <1>1
  <2>2. PICK x \in Slashes(path) : Cardinality({j \in Slashes(path) : j >= x}) = n
    BY <1>1, <1>3, <2>1, NthFromLast
  <2>3. x \in 1..Len(path) + 1
    BY <1>1
  <2> QED
    BY <1>3, <2>2, <2>3 DEF CutAfter
<1> QED
  BY <1>2, <1>3

\* The further a path is cut the earlier it ends, at the next separator.
LEMMA CutAfterNext ==
    ASSUME NEW path \in Seq(Characters), NEW n \in Nat, NEW x, NEW y,
           CutAfter(path, n, x), CutAfter(path, n + 1, y)
    PROVE  y < x /\ \A j \in y + 1..x - 1 : j \notin Slashes(path)
<1> DEFINE A(k) == {j \in Slashes(path) : j >= k}
<1>1. Slashes(path) \in SUBSET Nat /\ x \in Nat /\ y \in Nat /\ y \in Slashes(path)
  BY SlashesFinite DEF CutAfter
<1>2. Cardinality(A(x)) = n /\ Cardinality(A(y)) = n + 1
  BY DEF CutAfter
<1>3. IsFiniteSet(A(x)) /\ IsFiniteSet(A(y))
  BY SlashesFinite
<1>4. y < x
  <2>1. SUFFICES ASSUME x <= y PROVE FALSE
    BY <1>1
  <2>2. A(y) \in SUBSET A(x)
    BY <1>1, <2>1
  <2>3. Cardinality(A(y)) <= Cardinality(A(x))
    <3> HIDE DEF A
    <3> QED
      BY <1>3, <2>2, FS_Subset
  <2> HIDE DEF A
  <2> QED
    BY <1>2, <2>3
<1>5. ASSUME NEW j \in y + 1..x - 1, j \in Slashes(path)
      PROVE  FALSE
  <2>1. j \in Nat /\ y < j /\ j < x
    BY <1>1
  <2>2. j \notin A(x) /\ y \notin A(x) \cup {j}
    BY <1>1, <1>4, <2>1
  <2>3. (A(x) \cup {j}) \cup {y} \in SUBSET A(y)
    BY <1>1, <1>4, <1>5, <2>1
  <2> HIDE DEF A
  <2>4. IsFiniteSet(A(x) \cup {j}) /\ Cardinality(A(x) \cup {j}) = n + 1
    BY <1>2, <1>3, <2>2, FS_AddElement
  <2>5. Cardinality((A(x) \cup {j}) \cup {y}) = n + 1 + 1
    BY <2>2, <2>4, FS_AddElement
  <2>6. Cardinality((A(x) \cup {j}) \cup {y}) <= Cardinality(A(y))
    BY <1>3, <2>3, FS_Subset
  <2>7. \A k \in Nat : ~(k + 1 + 1 <= k + 1)
    OBVIOUS
  <2> QED
    BY <1>2, <2>5, <2>6, <2>7
<1> QED
  BY <1>4, <1>5

LEMMA CutAfterLast ==
    ASSUME NEW path \in Seq(Characters), NEW x, CutAfter(path, Cardinality(Slashes(path)), x)
    PROVE  \A j \in Slashes(path) : j >= x
<1>1. PICK A : A = {j \in Slashes(path) : j >= x}
  OBVIOUS
<1>2. A \in SUBSET Slashes(path) /\ Cardinality(Slashes(path)) = Cardinality(A)
  BY <1>1 DEF CutAfter
<1>3. IsFiniteSet(Slashes(path))
  BY SlashesFinite
<1>4. Slashes(path) = A
  BY <1>2, <1>3, FS_Subset
<1> QED
  BY <1>1, <1>4

LEMMA CutAfterCuts ==
    ASSUME NEW path \in Seq(Characters), NEW n \in Nat, NEW x, CutAfter(path, n, x)
    PROVE  Cut(path, n) = SubSeq(path, 1, x - 1)
<1>1. Len(path) \in Nat /\ Slashes(path) \in SUBSET Nat /\ IsFiniteSet(Slashes(path))
  BY SlashesFinite
<1>2. CASE n = 0
  <2>1. Cut(path, n) = path
    BY <1>2 DEF Cut
  <2>2. x - 1 = Len(path)
    BY <1>1, <1>2 DEF CutAfter
  <2> QED
    BY <2>1, <2>2, SubSeqFull
<1>3. CASE n # 0
  <2> DEFINE at == CHOOSE i \in Slashes(path) : Cardinality({j \in Slashes(path) : j >= i}) = n
  <2>1. x \in Slashes(path) /\ Cardinality({j \in Slashes(path) : j >= x}) = n
    BY <1>3 DEF CutAfter
  <2>2. ~(Cardinality(Slashes(path)) < n)
    <3>1. PICK A : A = {j \in Slashes(path) : j >= x}
      OBVIOUS
    <3>2. Cardinality(A) <= Cardinality(Slashes(path))
      BY <1>1, <3>1, FS_Subset
    <3>3. Cardinality(Slashes(path)) \in Nat /\ Cardinality(A) = n
      BY <2>1, <3>1, SlashesFinite
    <3> QED
      BY <3>2, <3>3
  <2>3. at = x
    <3>1. at \in Slashes(path) /\ Cardinality({j \in Slashes(path) : j >= at}) = n
      BY <2>1
    <3> HIDE DEF at
    <3>2. \A i, k \in Slashes(path) :
             i < k => Cardinality({j \in Slashes(path) : j >= i}) # Cardinality({j \in Slashes(path) : j >= k})
      <4>1. ASSUME NEW i \in Slashes(path), NEW k \in Slashes(path), i < k
            PROVE  Cardinality({j \in Slashes(path) : j >= i})
                     # Cardinality({j \in Slashes(path) : j >= k})
        <5>1. PICK A : A = {j \in Slashes(path) : j >= i}
          OBVIOUS
        <5>2. PICK B : B = {j \in Slashes(path) : j >= k}
          OBVIOUS
        <5>3. i \in Nat /\ k \in Nat
          BY <1>1
        <5>4. B \in SUBSET A /\ i \in A /\ i \notin B
          BY <1>1, <4>1, <5>1, <5>2, <5>3
        <5>5. IsFiniteSet(A)
          BY <5>1, SlashesFinite
        <5>6. Cardinality(A) # Cardinality(B)
          BY <5>4, <5>5, FS_Subset
        <5> QED
          BY <5>1, <5>2, <5>6
      <4> QED
        BY <4>1
    <3>3. at \in Nat /\ x \in Nat
      BY <1>1, <2>1, <3>1
    <3> QED
      BY <2>1, <3>1, <3>2, <3>3
  <2>4. Cut(path, n) = SubSeq(path, 1, at - 1)
    BY <1>3, <2>2 DEF Cut, Slashes
  <2> HIDE DEF at
  <2> QED
    BY <2>3, <2>4
<1> QED
  BY <1>2, <1>3

LEMMA WithinKey ==
    ASSUME NEW a \in Nat, NEW f \in Nat, NEW g \in Nat, NEW l \in Nat, l = a + f + g + 3
    PROVE  \A y \in 1..a + 1 : y \in 0..l /\ y \in 1..l
OBVIOUS

\* The key of a directory is a beginning of the key of a method.
DirectoriesBefore(p, key, a) ==
    \A n \in Nat : \A x : CutAfter(p.path, n, x) =>
       Key(p, "Path", n) = SubSeq(key, 1, x) /\ x \in 1..a + 1

LEMMA DirectoryKey ==
    ASSUME NEW p, NEW key, NEW a, NEW f, NEW g, KeyParts(p, key, a, f, g)
    PROVE  DirectoriesBefore(p, key, a)
<1>1. p \in Places /\ a \in Nat /\ f \in Nat /\ g \in Nat
  BY DEF KeyParts
<1>2. a = Len(p.path)
  BY DEF KeyParts
<1> PICK L \in Nat : L = a + f + g + 3
  BY <1>1
<1> SUFFICES ASSUME NEW n \in Nat, NEW x, CutAfter(p.path, n, x)
             PROVE  Key(p, "Path", n) = SubSeq(key, 1, x) /\ x \in 1..a + 1
  BY DEF DirectoriesBefore
<1>3. p.path \in Seq(Characters)
  BY <1>1, PlaceAssumption
<1>4. x \in 1..a + 1 /\ x \in Nat /\ x - 1 \in 0..a /\ x - 1 \in Nat /\ x - 1 + 1 = x
  <2>1. x \in 1..a + 1
    BY <1>2 DEF CutAfter
  <2> QED
    BY <1>1, <2>1
<1>5. key \in Seq(Characters) /\ Len(key) = L /\ x \in 0..Len(key) /\ x \in 1..Len(key)
  <2>1. key \in Seq(Characters) /\ Len(key) = L
    BY DEF KeyParts
  <2>2. \A y \in 1..a + 1 : y \in 0..L /\ y \in 1..L
    BY <1>1, WithinKey
  <2> QED
    BY <1>4, <2>1, <2>2
<1>6. key[x] = "/"
  <2>1. CASE n = 0
    <3>1. x = a + 1
      BY <1>2, <2>1 DEF CutAfter
    <3> QED
      BY <3>1 DEF KeyParts
  <2>2. CASE n # 0
    <3>1. x \in DOMAIN p.path /\ p.path[x] = "/"
      BY <2>2 DEF CutAfter, Slashes
    <3>2. x \in 1..a
      BY <1>3, <1>2, <3>1
    <3> QED
      BY <3>1, <3>2 DEF KeyParts
  <2> QED
    BY <2>1, <2>2
<1>7. PICK u : u = SubSeq(p.path, 1, x - 1)
  OBVIOUS
<1>8. u \in Seq(Characters) /\ Len(u) = x - 1 /\ \A j \in 1..x - 1 : u[j] = p.path[j]
  BY <1>3, <1>4, <1>7, <1>2, BeginningIs
<1>9. Key(p, "Path", n) = u \o <<"/">>
  BY <1>3, <1>7, CutAfterCuts DEF Key
<1>10. <<"/">> \in Seq(Characters) /\ Len(<<"/">>) = 1 /\ <<"/">>[1] = "/"
  <2>1. \A S : \A c \in S : <<c>> \in Seq(S) /\ Len(<<c>>) = 1 /\ <<c>>[1] = c
    OBVIOUS
  <2> QED
    BY <2>1, PlaceAssumption
<1>11. PICK y \in Nat : y = x - 1
  BY <1>4
<1>12. PICK v : v = u \o <<"/">>
  OBVIOUS
<1>13. /\ v \in Seq(Characters) /\ Len(v) = y + 1
       /\ \A i \in 1..y + 1 : v[i] = IF i <= y THEN u[i] ELSE <<"/">>[i - y]
  BY <1>8, <1>10, <1>11, <1>12, Concatenated
<1>14. /\ SubSeq(key, 1, x) \in Seq(Characters) /\ Len(SubSeq(key, 1, x)) = x
       /\ \A j \in 1..x : SubSeq(key, 1, x)[j] = key[j]
  BY <1>5, BeginningIs
<1>15. ASSUME NEW j \in 1..x
       PROVE  v[j] = SubSeq(key, 1, x)[j]
  <2>1. j \in 1..y + 1
    BY <1>4, <1>11
  <2>2. CASE j = x
    <3>1. ~(j <= y) /\ j - y = 1
      BY <1>4, <1>11, <2>2
    <3> QED
      BY <1>6, <1>10, <1>13, <1>14, <2>1, <2>2, <3>1
  <2>3. CASE j # x
    <3>1. j <= y /\ j \in 1..x - 1 /\ j \in 1..a
      BY <1>1, <1>4, <1>11, <2>3
    <3>2. v[j] = u[j] /\ u[j] = p.path[j]
      BY <1>8, <1>13, <2>1, <3>1
    <3>3. key[j] = p.path[j]
      BY <3>1 DEF KeyParts
    <3> QED
      BY <1>14, <3>2, <3>3
  <2> QED
    BY <2>2, <2>3
<1>16. Len(v) = Len(SubSeq(key, 1, x)) /\ \A j \in 1..Len(v) : v[j] = SubSeq(key, 1, x)[j]
  BY <1>4, <1>11, <1>13, <1>14, <1>15
<1>17. v = SubSeq(key, 1, x)
  BY <1>13, <1>14, <1>16, SeqEqual
<1> QED
  BY <1>4, <1>9, <1>12, <1>17

\* Lists that are joined one after the other.
Flattened(S, n, list, flat) ==
    /\ flat \in [1..n -> Seq(S)] /\ FlattenSeq(list) = flat[n] /\ flat[1] = list[1]
    /\ \A i \in 1..n : i # 1 => flat[i] = flat[i - 1] \o list[i]

LEMMA FlattenIs ==
    ASSUME NEW S, NEW n \in Nat, n # 0, NEW list \in Seq(Seq(S)), Len(list) = n
    PROVE  \E flat : Flattened(S, n, list, flat)
<1> SUFFICES \E flat : /\ flat \in [1..n -> Seq(S)] /\ FlattenSeq(list) = flat[n] /\ flat[1] = list[1]
                       /\ \A i \in 1..n : i # 1 => flat[i] = flat[i - 1] \o list[i]
  BY DEF Flattened
<1> DEFINE D == 1..n
           T == Seq(S)
           Body(i, f) == IF i = 1 THEN list[i] ELSE f[i - 1] \o list[i]
           Is(f) == f = [i \in D |-> Body(i, f)]
           flatten == CHOOSE f : Is(f)
<1>1. FlattenSeq(list) = flatten[n]
  BY DEF FlattenSeq
<1>2. 1 \in D /\ n \in D /\ \A i \in D : list[i] \in T /\ (i # 1 => i - 1 \in D)
  <2>1. \A i \in D : list[i] \in T
    BY ElementOfSeq
  <2> QED
    BY <2>1
<1>3. \E f \in [D -> T] : Is(f)
  <2>1. PICK rank : rank = [i \in D |-> i]
    OBVIOUS
  <2>2. rank \in [D -> 0..n] /\ \A i \in D : i # 1 => rank[i - 1] < rank[i]
    BY <2>1
  <2>3. PICK H : H = [i \in D |-> [f \in [D -> T] |-> Body(i, f)]]
    OBVIOUS
  <2>4. ASSUME NEW i \in D, NEW f \in [D -> T]
        PROVE  Body(i, f) \in T
    <3>1. CASE i = 1
      BY <1>2, <3>1
    <3>2. CASE i # 1
      <4>1. i - 1 \in D
        BY <1>2, <3>2
      <4>2. f[i - 1] \in T /\ list[i] \in T
        <5> HIDE DEF D, T
        <5> QED
          BY <1>2, <4>1
      <4>3. f[i - 1] \o list[i] \in T
        BY <4>2, ConcatProperties
      <4> QED
        BY <3>2, <4>3
    <3> QED
      BY <3>1, <3>2
  <2>5. H \in [D -> [[D -> T] -> T]]
    <3> HIDE DEF D, T, Body
    <3> QED
      BY <2>3, <2>4
  <2>6. Falls(H, D, T, rank)
    <3>1. ASSUME NEW i \in D, NEW f \in [D -> T], NEW g \in [D -> T],
                 \A y \in D : rank[y] < rank[i] => f[y] = g[y]
          PROVE  Body(i, f) = Body(i, g)
      <4>1. CASE i = 1
        BY <4>1
      <4>2. CASE i # 1
        <5>1. f[i - 1] = g[i - 1]
          <6> HIDE DEF D, T
          <6> QED
            BY <1>2, <2>2, <3>1, <4>2
        <5> QED
          BY <5>1
      <4> QED
        BY <4>1, <4>2
    <3> HIDE DEF D, T, Body
    <3> QED
      BY <2>3, <3>1 DEF Falls
  <2>7. PICK f \in [D -> T] : Solution(f, D, H)
    <3>1. <<>> \in T
      OBVIOUS
    <3> HIDE DEF D, T
    <3> QED
      BY <2>2, <2>5, <2>6, <3>1, RankedRecursion
  <2>8. \A i \in D : f[i] = Body(i, f)
    <3> HIDE DEF D, T, Body
    <3> QED
      BY <2>3, <2>7 DEF Solution
  <2>9. Is(f)
    <3> HIDE DEF D, T, Body
    <3> QED
      BY <2>7, <2>8
  <2> QED
    BY <2>7, <2>9
<1>4. Is(flatten)
  <2> HIDE DEF Is
  <2> QED
    BY <1>3
<1>5. flatten = [i \in D |-> flatten[i]] /\ \A i \in D : flatten[i] = Body(i, flatten)
  <2> HIDE DEF Body, flatten
  <2> QED
    BY <1>4
<1> HIDE DEF flatten
<1>6. flatten[1] = list[1] /\ \A i \in D : i # 1 => flatten[i] = flatten[i - 1] \o list[i]
  <2> HIDE DEF D
  <2> QED
    BY <1>2, <1>5
<1>7. \A i \in D : flatten[i] \in T
  <2> DEFINE Bad == {i \in D : flatten[i] \notin T}
  <2>1. SUFFICES ASSUME Bad # {} PROVE FALSE
    OBVIOUS
  <2>2. PICK k \in Bad : \A l \in Bad : k <= l
    <3>1. Bad \in SUBSET Nat
      OBVIOUS
    <3> HIDE DEF Bad
    <3> QED
      BY <2>1, <3>1, LeastExists
  <2>3. k \in D /\ flatten[k] \notin T
    OBVIOUS
  <2>4. k # 1
    BY <1>2, <1>6, <2>3
  <2>5. k - 1 \in D /\ ~(k <= k - 1)
    BY <1>2, <2>3, <2>4
  <2>6. flatten[k - 1] \in T
    BY <2>2, <2>5
  <2>7. flatten[k] = flatten[k - 1] \o list[k] /\ list[k] \in T
    BY <1>2, <1>6, <2>3, <2>4
  <2> QED
    BY <2>3, <2>6, <2>7, ConcatProperties
<1>8. flatten \in [1..n -> Seq(S)]
  <2> HIDE DEF D, T
  <2>1. flatten \in [D -> T]
    BY <1>5, <1>7
  <2> QED
    BY <2>1 DEF D, T
<1> QED
  BY <1>1, <1>6, <1>8

Listed(S, n, list) == n \in Nat /\ n # 0 /\ list \in Seq(Seq(S)) /\ Len(list) = n

LEMMA FlattenListed ==
    ASSUME NEW S, NEW n, NEW list, Listed(S, n, list)
    PROVE  \E flat : Flattened(S, n, list, flat)
<1>1. n \in Nat /\ n # 0 /\ list \in Seq(Seq(S)) /\ Len(list) = n
  BY DEF Listed
<1> QED
  BY <1>1, FlattenIs


LEMMA ReverseIs ==
    ASSUME NEW S, NEW s \in Seq(S)
    PROVE  Reverse(s) \in Seq(S) /\ Len(Reverse(s)) = Len(s)
<1>1. PICK n \in Nat : n = Len(s)
  OBVIOUS
<1>2. Reverse(s) = [i \in 1..n |-> s[(n - i) + 1]]
  BY <1>1 DEF Reverse
<1>3. \A i \in 1..n : s[(n - i) + 1] \in S
  <2>1. \A i \in 1..n : (n - i) + 1 \in 1..n
    OBVIOUS
  <2> QED
    BY <1>1, <2>1, ElementOfSeq
<1>4. Reverse(s) \in [1..n -> S]
  BY <1>2, <1>3
<1>5. \A f \in [1..n -> S] : f \in Seq(S) /\ Len(f) = n
  OBVIOUS
<1> QED
  BY <1>1, <1>4, <1>5

\* Joining three and four sequences in another grouping.
Grouped(a, b, c)   == (a \o b) \o c = a \o (b \o c)
Nested(a, b, c, d) == ((a \o b) \o c) \o d = a \o ((b \o c) \o d)

LEMMA GroupedIs ==
    ASSUME NEW S, NEW a \in Seq(S), NEW b \in Seq(S), NEW c \in Seq(S)
    PROVE  Grouped(a, b, c)
<1>1. (a \o b) \o c = a \o (b \o c)
  BY ONLY ConcatAssociative
<1> QED
  BY <1>1 DEF Grouped

LEMMA JoinedTwice ==
    ASSUME NEW S, NEW a \in Seq(S), NEW b \in Seq(S), NEW c \in Seq(S), NEW d \in Seq(S)
    PROVE  Nested(a, b, c, d)
<1>1. PICK e : e = b \o c
  OBVIOUS
<1>2. e \in Seq(S)
  BY <1>1, ConcatProperties
<1>3. Grouped(a, b, c) /\ Grouped(a, e, d)
  BY <1>2, GroupedIs
<1> QED
  BY <1>1, <1>3 DEF Grouped, Nested


-----------------------------------------------------------------------------
\* The values of the scopes around a place are those of the beginnings of its method's key.
LEMMA AroundIs ==
    ASSUME Tree(nodes), NEW spelled, Spelling(nodes, spelled), OnlyKeys,
           NEW p \in PlainPlaces, NEW key, key = Key(p, "Method", 0), NEW U, Collected(key, U)
    PROVE  Around(p, Directories(p) + 1) = U[Len(key) + 1]
<1> p \in Places
  BY DEF PlainPlaces
<1>1. p.path \in Seq(Characters) /\ p.file \in Seq(Characters) /\ p.method \in Seq(Characters)
  BY PlaceAssumption
<1>2. PICK a \in Nat, f \in Nat, g \in Nat : KeyParts(p, key, a, f, g)
  BY KeyPartsAre
<1>3. KeyParts(p, key, a, f, g) /\ a = Len(p.path)
  BY <1>2 DEF KeyParts
<1>4. key \in Seq(Characters) /\ Len(key) = a + f + g + 3
      /\ SubSeq(key, 1, a + f + 2) = Key(p, "Filename", 0)
  BY <1>3 DEF KeyParts
<1>5. PICK L \in Nat, B \in Nat, C \in Nat :
         /\ L = a + f + g + 3 /\ B = a + f + 2 /\ C = a + 2
         /\ L \in 0..L /\ B \in 0..L /\ B + 1 <= L /\ C <= B /\ 1 <= C
         /\ \A j \in B + 1..L - 1 : j \in 0..L /\ j # L /\ j # B /\ j \notin 1..a + 1
         /\ \A j \in C..B - 1 : j \in 0..L /\ j # L /\ j # B /\ j \notin 1..a + 1
  <2>1. PICK L \in Nat, B \in Nat, C \in Nat : L = a + f + g + 3 /\ B = a + f + 2 /\ C = a + 2
    OBVIOUS
  <2>2. /\ L \in 0..L /\ B \in 0..L /\ B + 1 <= L /\ C <= B /\ 1 <= C
        /\ \A j \in B + 1..L - 1 : j \in 0..L /\ j # L /\ j # B /\ j \notin 1..a + 1
        /\ \A j \in C..B - 1 : j \in 0..L /\ j # L /\ j # B /\ j \notin 1..a + 1
    BY <2>1
  <2> QED
    BY <2>1, <2>2
<1> DEFINE V(b) == ValueOf(SubSeq(key, 1, b))
<1>6. /\ U \in [0..L + 1 -> Seq(Nat)] /\ U[0] = <<>>
      /\ \A b \in 0..L : U[b + 1] = V(b) \o U[b]
  BY <1>4, <1>5 DEF Collected
<1>7. \A b \in 0..L : b # L /\ b # B /\ ~(b \in 1..a + 1 /\ key[b] = "/") => V(b) = <<>>
  <2>1. \A b \in 0..L : SubSeq(key, 1, b) \in Keys =>
                           b = L \/ b = B \/ (b \in 1..a + 1 /\ key[b] = "/")
    <3>1. \A b \in 0..a + f + g + 3 : SubSeq(key, 1, b) \in Keys =>
             b = a + f + g + 3 \/ b = a + f + 2 \/ (b \in 1..a + 1 /\ key[b] = "/")
      <4>1. KeysBefore(key, a, f, g)
        BY <1>3, BeginningsOfKey
      <4> QED
        BY <4>1 DEF KeysBefore
    <3> QED
      BY <1>5, <3>1
  <2> QED
    BY <2>1 DEF OnlyKeys
<1>8. \A k : ValueOf(k) \in Seq(Nat)
  <2>1. ASSUME NEW k
        PROVE  ValueOf(k) \in Seq(Nat)
    <3>1. Holds(nodes, spelled, k, ValueOf(k))
      BY ValueOfIs
    <3>2. \A v \in Nat : <<v>> \in Seq(Nat)
      OBVIOUS
    <3>3. \A n \in DOMAIN nodes : nodes[n].value \in Nat
      <4>1. \A n \in DOMAIN nodes : nodes[n] \in Node
        BY DEF Tree
      <4> QED
        BY <4>1 DEF Node
    <3>4. <<>> \in Seq(Nat)
      OBVIOUS
    <3> QED
      BY <3>1, <3>2, <3>3, <3>4 DEF Holds
  <2> QED
    BY <2>1
<1>9. ASSUME NEW x \in 0..L + 1, NEW y \in x..L + 1, \A j \in x..y - 1 : V(j) = <<>>
      PROVE  U[y] = U[x]
  <2>1. x \in 0..Len(key) + 1 /\ y \in x..Len(key) + 1
    BY <1>4, <1>5
  <2> QED
    BY <1>4, <1>9, <2>1, Skips
<1>10. U[L + 1] = ValueOf(key) \o U[L]
  <2>1. SubSeq(key, 1, L) = key
    BY <1>4, <1>5, SubSeqFull
  <2> QED
    BY <1>5, <1>6, <2>1
<1>11. U[L] = ValueOf(Key(p, "Filename", 0)) \o U[B]
  <2>1. U[L] = U[B + 1]
    <3>1. B + 1 \in 0..L + 1 /\ L \in B + 1..L + 1
      BY <1>5
    <3>2. \A j \in B + 1..L - 1 : V(j) = <<>>
      <4> HIDE DEF V
      <4> QED
        BY <1>5, <1>7
    <3> QED
      BY <1>9, <3>1, <3>2
  <2>2. U[B + 1] = V(B) \o U[B]
    BY <1>5, <1>6
  <2> QED
    BY <1>4, <1>5, <2>1, <2>2
<1>12. U[B] = U[C]
  <2>1. C \in 0..L + 1 /\ B \in C..L + 1
    BY <1>5
  <2>2. \A j \in C..B - 1 : V(j) = <<>>
    <3> HIDE DEF V
    <3> QED
      BY <1>5, <1>7
  <2> QED
    BY <1>9, <2>1, <2>2
<1>13. PICK D \in Nat : D = Directories(p) /\ D = Cardinality(Slashes(p.path))
  <2>1. Directories(p) = Cardinality(Slashes(p.path))
    BY DEF Directories, Slashes
  <2>2. Cardinality(Slashes(p.path)) \in Nat
    BY <1>1, SlashesFinite
  <2> QED
    BY <2>1, <2>2
<1>14. PICK list : list = [i \in 1..D + 1 |-> ValueOf(Key(p, "Path", i - 1))]
  OBVIOUS
<1>15. list \in Seq(Seq(Nat)) /\ Len(list) = D + 1
       /\ \A i \in 1..D + 1 : list[i] = ValueOf(Key(p, "Path", i - 1))
  <2>1. \A i \in 1..D + 1 : ValueOf(Key(p, "Path", i - 1)) \in Seq(Nat)
    BY <1>8
  <2>2. D + 1 \in Nat /\ list \in [1..D + 1 -> Seq(Nat)]
    BY <1>14, <2>1
  <2>3. \A S : \A n \in Nat : \A s \in [1..n -> S] : s \in Seq(S) /\ Len(s) = n
    OBVIOUS
  <2> QED
    BY <1>14, <2>2, <2>3
<1>16. PICK flat : /\ flat \in [1..D + 1 -> Seq(Nat)] /\ FlattenSeq(list) = flat[D + 1]
                   /\ flat[1] = list[1]
                   /\ \A i \in 1..D + 1 : i # 1 => flat[i] = flat[i - 1] \o list[i]
  <2>1. PICK n \in Nat : n = D + 1 /\ n # 0
    OBVIOUS
  <2>2. Listed(Nat, n, list)
    BY <1>15, <2>1 DEF Listed
  <2>3. PICK flat : Flattened(Nat, n, list, flat)
    BY <2>2, FlattenListed
  <2> QED
    BY <2>1, <2>3 DEF Flattened
<1>17. \A n \in 0..D : \E x : CutAfter(p.path, n, x)
  BY <1>1, <1>13, CutAfterExists
<1>18. \A n \in Nat : \A x : CutAfter(p.path, n, x) =>
          ValueOf(Key(p, "Path", n)) = V(x) /\ x \in 1..a + 1 /\ x \in 0..L /\ x + 1 \in 0..L + 1
  <2>1. \A n \in Nat : \A x : CutAfter(p.path, n, x) =>
           Key(p, "Path", n) = SubSeq(key, 1, x) /\ x \in 1..a + 1
    <3>1. DirectoriesBefore(p, key, a)
      BY <1>3, DirectoryKey
    <3> QED
      BY <3>1 DEF DirectoriesBefore
  <2>2. \A x \in 1..a + 1 : x \in 0..L /\ x + 1 \in 0..L + 1
    BY <1>5
  <2> QED
    BY <2>1, <2>2
<1>19. \A b \in 1..a + 1 : b \notin Slashes(p.path) /\ b # a + 1 => V(b) = <<>>
  <2>1. ASSUME NEW b \in 1..a + 1, b \notin Slashes(p.path), b # a + 1
        PROVE  V(b) = <<>>
    <3>1. b \in 1..a /\ b \in 0..L /\ b # L /\ b # B
      BY <1>5, <2>1
    <3>2. key[b] = p.path[b] /\ b \in DOMAIN p.path
      BY <1>1, <1>2, <1>3, <3>1 DEF KeyParts
    <3>3. key[b] # "/"
      BY <2>1, <3>2 DEF Slashes
    <3> HIDE DEF V
    <3> QED
      BY <1>7, <3>1, <3>3
  <2> QED
    BY <2>1
<1> HIDE DEF V
<1>20. \A i \in 1..D + 1 : \A x : CutAfter(p.path, i - 1, x) => U[C] = flat[i] \o U[x]
  <2> DEFINE Bad == {i \in 1..D + 1 : \E x : CutAfter(p.path, i - 1, x) /\ U[C] # flat[i] \o U[x]}
  <2>1. SUFFICES ASSUME Bad # {} PROVE FALSE
    OBVIOUS
  <2>2. PICK k \in Bad : \A l \in Bad : k <= l
    <3>1. Bad \in SUBSET Nat
      <4>1. \A i \in 1..D + 1 : i \in Nat
        OBVIOUS
      <4>2. \A i \in Bad : i \in 1..D + 1
        OBVIOUS
      <4> HIDE DEF Bad
      <4> QED
        BY <4>1, <4>2
    <3> HIDE DEF Bad
    <3> QED
      BY <2>1, <3>1, LeastExists
  <2>3. PICK x : k \in 1..D + 1 /\ CutAfter(p.path, k - 1, x) /\ U[C] # flat[k] \o U[x]
    BY <2>2
  <2>4. k \in Nat /\ k - 1 \in Nat
    BY <2>3
  <2>5. ValueOf(Key(p, "Path", k - 1)) = V(x) /\ x \in 1..a + 1 /\ x \in 0..L /\ x + 1 \in 0..L + 1
    BY <1>18, <2>3, <2>4
  <2>6. list[k] = V(x)
    BY <1>15, <2>3, <2>5
  <2>7. U[x + 1] = list[k] \o U[x]
    BY <1>6, <2>5, <2>6
  <2>8. CASE k = 1
    <3>1. x = a + 1
      BY <1>3, <2>3, <2>8 DEF CutAfter
    <3>2. x + 1 = C
      BY <1>5, <3>1
    <3> QED
      BY <1>16, <2>3, <2>7, <2>8, <3>2
  <2>9. CASE k # 1
    <3>1. PICK n \in Nat : n + 1 = k - 1 /\ n = k - 1 - 1
      <4>1. k - 1 - 1 \in Nat /\ k - 1 - 1 + 1 = k - 1
        BY <2>3, <2>9
      <4> QED
        BY <4>1
    <3>2. n \in 0..D /\ k - 1 \in 1..D + 1 /\ ~(k <= k - 1) /\ n = (k - 1) - 1
      BY <2>3, <2>4, <2>9, <3>1
    <3>3. PICK y : CutAfter(p.path, n, y)
      BY <1>17, <3>2
    <3>4. x < y /\ \A j \in x + 1..y - 1 : j \notin Slashes(p.path)
      BY <1>1, <2>3, <3>1, <3>3, CutAfterNext
    <3>5. y \in 1..a + 1 /\ y \in 0..L
      BY <1>18, <3>3
    <3>6. y \in x + 1..L + 1 /\ \A j \in x + 1..y - 1 : j \in 1..a + 1 /\ j # a + 1
      BY <2>5, <3>4, <3>5
    <3>7. U[y] = U[x + 1]
      <4>1. \A j \in x + 1..y - 1 : V(j) = <<>>
        BY <1>19, <3>4, <3>6
      <4> QED
        BY <1>9, <2>5, <3>6, <4>1
    <3>8. U[C] = flat[k - 1] \o U[y]
      <4>1. k - 1 \notin Bad
        BY <2>2, <3>2
      <4> QED
        BY <3>2, <3>3, <4>1
    <3>9. flat[k] = flat[k - 1] \o list[k]
      BY <1>16, <2>3, <2>9
    <3>10. flat[k - 1] \in Seq(Nat) /\ list[k] \in Seq(Nat) /\ U[x] \in Seq(Nat)
      <4>1. x \in 0..L + 1
        BY <2>5
      <4> QED
        BY <1>6, <1>8, <1>15, <1>16, <2>3, <3>2, <4>1
    <3>11. (flat[k - 1] \o list[k]) \o U[x] = flat[k - 1] \o (list[k] \o U[x])
      <4>1. Grouped(flat[k - 1], list[k], U[x])
        BY <3>10, GroupedIs
      <4> QED
        BY <4>1 DEF Grouped
    <3> QED
      BY <2>3, <2>7, <3>7, <3>8, <3>9, <3>11
  <2> QED
    BY <2>8, <2>9
<1>21. U[C] = FlattenSeq(list)
  <2>1. PICK x : CutAfter(p.path, D, x)
    <3>1. D \in 0..D
      OBVIOUS
    <3> QED
      BY <1>17, <3>1
  <2>2. x \in 1..a + 1 /\ x \in 0..L
    BY <1>18, <2>1
  <2>3. \A j \in Slashes(p.path) : j >= x
    BY <1>1, <1>13, <2>1, CutAfterLast
  <2>4. 0 \in 0..L + 1 /\ x \in 0..L + 1
    BY <2>2
  <2>5. \A j \in 0..x - 1 : V(j) = <<>>
    <3>1. ASSUME NEW j \in 0..x - 1
          PROVE  V(j) = <<>>
      <4>1. j \in 0..L /\ j \in Nat /\ ~(j >= x) /\ j # a + 1 /\ j < C
        BY <1>5, <2>2
      <4>2. CASE j = 0
        <5>1. j # L /\ j # B /\ j \notin 1..a + 1
          BY <1>5, <4>2
        <5> QED
          BY <1>7, <4>1, <5>1
      <4>3. CASE j # 0
        <5>1. j \in 1..a + 1
          BY <2>2, <4>1, <4>3
        <5> QED
          BY <1>19, <2>3, <4>1, <5>1
      <4> QED
        BY <4>2, <4>3
    <3> QED
      BY <3>1
  <2>6. U[x] = U[0]
    BY <1>9, <2>4, <2>5
  <2>7. D + 1 \in 1..D + 1 /\ (D + 1) - 1 = D
    OBVIOUS
  <2>8. U[C] = flat[D + 1] \o U[x]
    BY <1>20, <2>1, <2>7
  <2>9. flat[D + 1] \in Seq(Nat)
    BY <1>16, <2>7
  <2> QED
    BY <1>6, <1>16, <2>6, <2>8, <2>9, ConcatEmptySeq
<1>22. U[L + 1] = (ValueOf(key) \o ValueOf(Key(p, "Filename", 0))) \o U[C]
  <2>1. C \in 0..L + 1
    BY <1>5
  <2>2. U[C] \in Seq(Nat)
    BY <1>6, <2>1
  <2>3. PICK b \in Seq(Nat), c \in Seq(Nat) : b = ValueOf(key) /\ c = ValueOf(Key(p, "Filename", 0))
    BY <1>8
  <2>4. (b \o c) \o U[C] = b \o (c \o U[C])
    <3>1. Grouped(b, c, U[C])
      BY <2>2, <2>3, GroupedIs
    <3> QED
      BY <3>1 DEF Grouped
  <2> QED
    BY <1>10, <1>11, <1>12, <2>3, <2>4
<1>23. Around(p, D + 1) = (ValueOf(key) \o ValueOf(Key(p, "Filename", 0))) \o FlattenSeq(list)
  BY <1>14 DEF Around
<1> QED
  BY <1>4, <1>5, <1>13, <1>21, <1>22, <1>23

LEMMA RemoveAtIs == \A u, i : RemoveAt(u, i) = SubSeq(u, 1, i - 1) \o SubSeq(u, i + 1, Len(u))
BY DEF RemoveAt

\* The value after the first elements of a sequence is the one that RemoveAt takes.
LEMMA RemovedBetween ==
    ASSUME NEW S, NEW s \in Seq(S), NEW v \in S, NEW r \in Seq(S)
    PROVE  Len(s) + 1 <= Len(s \o (<<v>> \o r)) /\ RemoveAt(s \o (<<v>> \o r), Len(s) + 1) = s \o r
<1>1. PICK u : u = s \o (<<v>> \o r)
  OBVIOUS
<1>2. PICK m \in Nat, n \in Nat : m = Len(s) /\ n = Len(r)
  OBVIOUS
<1>3. PICK t : t = <<v>> \o r
  OBVIOUS
<1>4. <<v>> \in Seq(S) /\ Len(<<v>>) = 1
  OBVIOUS
<1>5. t \in Seq(S) /\ Len(t) = 1 + n
      /\ \A i \in 1..1 + n : t[i] = IF i <= 1 THEN <<v>>[i] ELSE r[i - 1]
  BY <1>2, <1>3, <1>4, Concatenated
<1>6. u \in Seq(S) /\ Len(u) = m + (1 + n)
      /\ \A i \in 1..m + (1 + n) : u[i] = IF i <= m THEN s[i] ELSE t[i - m]
  BY <1>1, <1>2, <1>3, <1>5, Concatenated
<1>7. SubSeq(u, 1, m) = s
  <2>1. Joins(s, t, u)
    BY <1>1, <1>3 DEF Joins
  <2> QED
    BY <1>2, <1>5, <2>1, BeginningOfJoined
<1>8. PICK w : w = SubSeq(u, m + 2, m + 1 + n)
  OBVIOUS
<1>9. w \in Seq(S) /\ Len(w) = n /\ \A i \in 1..n : w[i] = u[m + 1 + i]
  <2>1. m + 2 \in Int /\ m + 1 + n \in Int /\ \A i \in m + 2..m + 1 + n : i \in 1..Len(u)
    BY <1>6
  <2>2. \A i \in m + 2..m + 1 + n : u[i] \in S
    BY <1>6, <2>1, ElementOfSeq
  <2>3. /\ w \in Seq(S) /\ Len(w) = (IF m + 2 <= m + 1 + n THEN m + 1 + n - (m + 2) + 1 ELSE 0)
        /\ \A i \in 1..m + 1 + n - (m + 2) + 1 : w[i] = u[m + 2 + i - 1]
    <3>1. PICK h \in Int, k \in Int : h = m + 2 /\ k = m + 1 + n
      BY <2>1
    <3>2. \A i \in h..k : u[i] \in S
      BY <2>2, <3>1
    <3>3. /\ SubSeq(u, h, k) \in Seq(S) /\ Len(SubSeq(u, h, k)) = (IF h <= k THEN k - h + 1 ELSE 0)
          /\ \A i \in 1..k - h + 1 : SubSeq(u, h, k)[i] = u[h + i - 1]
      BY ONLY <3>2, SubSeqProperties
    <3> QED
      BY ONLY <1>8, <3>1, <3>3
  <2>4. /\ (IF m + 2 <= m + 1 + n THEN m + 1 + n - (m + 2) + 1 ELSE 0) = n
        /\ m + 1 + n - (m + 2) + 1 = n /\ \A i \in 1..n : m + 2 + i - 1 = m + 1 + i
    OBVIOUS
  <2> QED
    BY <2>3, <2>4
<1>10. \A i \in 1..n : w[i] = r[i]
  <2>1. ASSUME NEW i \in 1..n
        PROVE  w[i] = r[i]
    <3>1. PICK j \in Nat : j = m + 1 + i
      OBVIOUS
    <3>2. j \in 1..m + (1 + n) /\ ~(j <= m) /\ j - m = 1 + i
      BY <3>1
    <3>3. PICK l \in Nat : l = 1 + i
      OBVIOUS
    <3>4. l \in 1..1 + n /\ ~(l <= 1) /\ l - 1 = i
      BY <3>3
    <3>5. u[j] = t[l] /\ t[l] = r[i]
      BY <1>5, <1>6, <3>2, <3>3, <3>4
    <3> QED
      BY <1>9, <3>1, <3>5
  <2> QED
    BY <2>1
<1>11. w = r
  BY <1>2, <1>9, <1>10, SeqEqual
<1>12. RemoveAt(u, m + 1) = SubSeq(u, 1, m) \o w
  <2>1. m + 1 - 1 = m /\ m + 1 + 1 = m + 2 /\ m + (1 + n) = m + 1 + n
    OBVIOUS
  <2>2. \A k : RemoveAt(u, k) = SubSeq(u, 1, k - 1) \o SubSeq(u, k + 1, Len(u))
    BY RemoveAtIs
  <2>3. PICK k \in Nat : k = m + 1 /\ k - 1 = m /\ k + 1 = m + 2
    OBVIOUS
  <2>4. Len(u) = m + 1 + n
    BY <1>6, <2>1
  <2>5. RemoveAt(u, k) = SubSeq(u, 1, k - 1) \o SubSeq(u, k + 1, Len(u))
    BY <2>2
  <2>6. SubSeq(u, 1, k - 1) = SubSeq(u, 1, m) /\ SubSeq(u, k + 1, Len(u)) = w
    BY <1>8, <2>3, <2>4
  <2>7. RemoveAt(u, k) = SubSeq(u, 1, m) \o w
    BY ONLY <2>5, <2>6
  <2> QED
    BY ONLY <2>3, <2>7
<1>13. m + 1 <= m + (1 + n)
  OBVIOUS
<1> QED
  BY <1>1, <1>2, <1>6, <1>7, <1>11, <1>12, <1>13

-----------------------------------------------------------------------------
LEMMA WalkIs ==
    ASSUME StoreIInv, OnlyKeys
    PROVE  WalkKeepsScopes
<1>1. Tree(nodes) /\ globalStore \in Nat /\ threadStore \in ThreadLists
  BY DEF StoreIInv, ShapesOf
<1>2. PICK spelled : Spelling(nodes, spelled)
  BY DEF StoreIInv, ShapesOf
<1>3. ASSUME NEW p \in PlainPlaces, NEW t \in Threads
      PROVE  \/ Walk(p, t) = Expected(p, t)
             \/ /\ Len(threadStore["ThreadInner"][t]) + 1 <= Len(Walk(p, t))
                /\ RemoveAt(Walk(p, t), Len(threadStore["ThreadInner"][t]) + 1) = Expected(p, t)
  <2> p \in Places
    BY DEF PlainPlaces
  <2>1. PICK key : key = Key(p, "Method", 0)
    OBVIOUS
  <2>2. key \in Seq(Characters)
    BY <2>1, KeyIs DEF CodeScopes, Levels
  <2>3. PICK up : Upwards(up) /\ LanguageWalk(p) = up[Get(key)]
    BY <1>1, <1>2, <2>1, LanguageWalkIs
  <2>4. PICK U : Collected(key, U) /\ \A n : Deepest(key, spelled, Len(key) + 1, n) => up[n] = U[Len(key) + 1]
    BY <1>1, <1>2, <2>2, <2>3, Collects
  <2>5. PICK A : A = Around(p, Directories(p) + 1)
    OBVIOUS
  <2>6. A = U[Len(key) + 1] /\ A \in Seq(Nat)
    <3>1. A = U[Len(key) + 1]
      BY <1>1, <1>2, <2>1, <2>4, <2>5, AroundIs
    <3>2. Len(key) \in Nat
      BY <2>2
    <3>3. Len(key) + 1 \in 0..Len(key) + 1
      BY <3>2
    <3> QED
      BY <2>4, <3>1, <3>3 DEF Collected
  <2>7. LanguageWalk(p) = A \/ \E v \in Nat : LanguageWalk(p) = <<v>> \o A
    <3>1. \A k \in Keys : k # <<>> /\ k[Len(k)] \in Separators
      BY KeysEnd
    <3>2. \E d : /\ Deepest(key, spelled, Len(key) + 1, d)
                 /\ \/ up[Get(key)] = up[d]
                    \/ \E v \in Nat : up[Get(key)] = <<v>> \o up[d]
      BY <1>1, <1>2, <2>2, <2>3, <3>1, WalkStarts
    <3> QED
      BY <2>3, <2>4, <2>6, <3>2
  <2>8. PICK s : s = Reverse(threadStore["ThreadInner"][t])
    OBVIOUS
  <2>9. PICK o : o = Reverse(threadStore["ThreadOuter"][t])
    OBVIOUS
  <2>10. PICK g : g = IF globalStore = Null THEN <<>> ELSE <<globalStore>>
    OBVIOUS
  <2>11. s \in Seq(Nat) /\ o \in Seq(Nat)
    <3>1. threadStore["ThreadInner"][t] \in Seq(Nat) /\ threadStore["ThreadOuter"][t] \in Seq(Nat)
      BY <1>1 DEF ThreadLists, ThreadScopes
    <3> QED
      BY <2>8, <2>9, <3>1, ReverseIs
  <2>12. Len(s) = Len(threadStore["ThreadInner"][t])
    <3>1. threadStore["ThreadInner"][t] \in Seq(Nat) /\ threadStore["ThreadOuter"][t] \in Seq(Nat)
      BY <1>1 DEF ThreadLists, ThreadScopes
    <3> QED
      BY <2>8, <2>9, <3>1, ReverseIs
  <2>13. g \in Seq(Nat)
    <3>1. \A v \in Nat : <<v>> \in Seq(Nat) /\ <<>> \in Seq(Nat)
      OBVIOUS
    <3> QED
      BY <1>1, <2>10, <3>1
  <2>14. Walk(p, t) = ((s \o LanguageWalk(p)) \o o) \o g /\ Expected(p, t) = ((s \o A) \o o) \o g
    BY <2>5, <2>8, <2>9, <2>10 DEF Walk, Expected
  <2>15. CASE LanguageWalk(p) = A
    BY <2>14, <2>15
  <2>16. ASSUME NEW v \in Nat, LanguageWalk(p) = <<v>> \o A
         PROVE  /\ Len(s) + 1 <= Len(Walk(p, t))
                /\ RemoveAt(Walk(p, t), Len(s) + 1) = Expected(p, t)
    <3>1. PICK e \in Seq(Nat) : e = <<v>>
      <4>1. \A x \in Nat : <<x>> \in Seq(Nat)
        OBVIOUS
      <4> QED
        BY <4>1
    <3>2. PICK b \in Seq(Nat) : b = e \o A
      BY <2>6, ConcatProperties
    <3>3. PICK q \in Seq(Nat) : q = A \o o
      BY <2>6, <2>11, ConcatProperties
    <3>4. PICK r \in Seq(Nat) : r = q \o g
      BY <2>13, <3>3, ConcatProperties
    <3>5. ((s \o b) \o o) \o g = s \o ((b \o o) \o g)
      <4>1. Nested(s, b, o, g)
        BY <2>13, <2>11, <3>2, JoinedTwice
      <4> QED
        BY <4>1 DEF Nested
    <3>6. ((e \o A) \o o) \o g = e \o ((A \o o) \o g)
      <4>1. Nested(e, A, o, g)
        BY <2>6, <2>13, <2>11, <3>1, JoinedTwice
      <4> QED
        BY <4>1 DEF Nested
    <3>7. ((s \o A) \o o) \o g = s \o ((A \o o) \o g)
      <4>1. Nested(s, A, o, g)
        BY <2>6, <2>13, <2>11, <3>1, JoinedTwice
      <4> QED
        BY <4>1 DEF Nested
    <3>8. Walk(p, t) = s \o (<<v>> \o r)
      BY <2>14, <2>16, <3>1, <3>2, <3>3, <3>4, <3>5, <3>6
    <3>9. Expected(p, t) = s \o r
      BY <2>14, <3>3, <3>4, <3>7
    <3>10. PICK u : u = Walk(p, t)
      OBVIOUS
    <3>11. Len(s) + 1 <= Len(u) /\ RemoveAt(u, Len(s) + 1) = s \o r
      <4>1. \A x, y \in Seq(Nat) : \A z \in Nat :
               /\ Len(x) + 1 <= Len(x \o (<<z>> \o y))
               /\ RemoveAt(x \o (<<z>> \o y), Len(x) + 1) = x \o y
        BY ONLY RemovedBetween
      <4>2. r \in Seq(Nat)
        BY <3>4
      <4>3. /\ Len(s) + 1 <= Len(s \o (<<v>> \o r))
            /\ RemoveAt(s \o (<<v>> \o r), Len(s) + 1) = s \o r
        BY <2>11, <4>1, <4>2, Zenon
      <4> QED
        BY <3>8, <3>10, <4>3
    <3> QED
      BY <3>9, <3>10, <3>11
  <2> QED
    BY <2>7, <2>12, <2>15, <2>16
<1> QED
  BY <1>3 DEF WalkKeepsScopes

\* Only keys of scopes have values, always.
THEOREM OnlyKeysAlways == StoreSpec => []OnlyKeys
<1>1. StoreInit /\ StoreIInv => OnlyKeys
  BY InitOnlyKeys
<1>2. StoreIInv /\ StoreIInv' /\ CodeExact /\ CodeExact' /\ OnlyKeys /\ [StoreNext]_storeVars => OnlyKeys'
  BY NextOnlyKeys
<1>3. StoreIInv => CodeExact
  BY StoreCodeExact
<1> QED
  BY <1>1, <1>2, <1>3, StoreInvariant, PTL DEF StoreSpec

\* A walk gives a statement at a plain place the values of all scopes around it in their order,
\* and at most one of a scope elsewhere, whatever names the directories of other places have.
THEOREM WalkKeepsScopesAlways == StoreSpec => []WalkKeepsScopes
<1>1. StoreIInv /\ OnlyKeys => WalkKeepsScopes
  BY WalkIs
<1> QED
  BY <1>1, StoreInvariant, OnlyKeysAlways, PTL
=============================================================================
