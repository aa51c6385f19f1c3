----------------------------- MODULE ReportsProofs -----------------------------
(***************************************************************************)
(* What MCReports.cfg checks for three threads with two calls each, proved *)
(* for any number of threads and calls.                                    *)
(*                                                                         *)
(* No report is lost because a thread that is about to write one has the   *)
(* lock of Report, and so had the thread that set the blocker, ever since. *)
(* Hence the proof is about lists of steps that are sound: there is a      *)
(* number for each place of the list, how often Report is held there, that *)
(* fits the steps and is not zero where the code relies on the lock        *)
(* (Sound). Calls, and what a step brings along, keep a list sound (Keeps).*)
(***************************************************************************)
EXTENDS Reports, SequencesExt, SequenceTheorems, TLAPS

\* The elements of two sequences, one behind the other.
LEMMA ToSetConcat ==
    ASSUME NEW S, NEW s \in Seq(S), NEW r \in Seq(S)
    PROVE  ToSet(s \o r) = ToSet(s) \cup ToSet(r)
<1>1. PICK m \in Nat, n \in Nat : m = Len(s) /\ n = Len(r) /\ DOMAIN s = 1..m /\ DOMAIN r = 1..n
  OBVIOUS
<1>2. /\ s \o r \in Seq(S) /\ Len(s \o r) = m + n
      /\ \A i \in 1..(m + n) : (s \o r)[i] = IF i <= m THEN s[i] ELSE r[i - m]
  BY <1>1, ConcatProperties
<1>3. DOMAIN (s \o r) = 1..(m + n)
  BY <1>2
<1>4. ASSUME NEW i \in 1..(m + n)
      PROVE  (s \o r)[i] \in ToSet(s) \cup ToSet(r)
  <2>1. CASE i <= m
    BY <1>1, <1>2, <2>1 DEF ToSet
  <2>2. CASE ~(i <= m)
    <3>1. i - m \in 1..n
      BY <2>2
    <3> QED
      BY <1>1, <1>2, <2>2, <3>1 DEF ToSet
  <2> QED
    BY <2>1, <2>2
<1>5. ASSUME NEW i \in 1..m
      PROVE  s[i] \in ToSet(s \o r)
  <2>1. i \in 1..(m + n) /\ i <= m
    OBVIOUS
  <2> QED
    BY <1>2, <1>3, <2>1 DEF ToSet
<1>6. ASSUME NEW i \in 1..n
      PROVE  r[i] \in ToSet(s \o r)
  <2>1. i + m \in 1..(m + n) /\ ~(i + m <= m) /\ (i + m) - m = i
    OBVIOUS
  <2>2. (s \o r)[i + m] = r[i]
    BY <1>2, <2>1
  <2> QED
    BY <1>3, <2>1, <2>2 DEF ToSet
<1>7. ToSet(s \o r) \subseteq ToSet(s) \cup ToSet(r)
  BY <1>3, <1>4 DEF ToSet
<1>8. ToSet(s) \cup ToSet(r) \subseteq ToSet(s \o r)
  <2>1. \A x \in ToSet(s) : x \in ToSet(s \o r)
    BY <1>1, <1>5 DEF ToSet
  <2>2. \A x \in ToSet(r) : x \in ToSet(s \o r)
    BY <1>1, <1>6 DEF ToSet
  <2> QED
    BY <2>1, <2>2
<1> QED
  BY <1>7, <1>8

-----------------------------------------------------------------------------

Whats   == {"write", "written", "add", "peek", "push", "pushed", "remove", "pop", "delete",
            "removeLogger"}
Guarded == {"write", "written", "peek", "push", "pushed", "pop"}
Steps   == {Lock(l) : l \in Locks} \cup {Unlock(l) : l \in Locks} \cup {Do(w) : w \in Whats}

\* How often Report is held after step x, n times before it.
After(x, n) == IF x = Lock(TheReport) THEN n + 1
               ELSE IF x = Unlock(TheReport) THEN n - 1 ELSE n

\* d[i] is how often Report is held in front of step i of the list.
Depths(s, c, d) ==
    /\ d \in [Nat -> Nat] /\ d[1] = c /\ d[Len(s) + 1] = 0
    /\ \A i \in 1..Len(s) :
          /\ d[i + 1] = After(s[i], d[i])
          /\ s[i] \in {Do(w) : w \in Guarded} => d[i] >= 1
          /\ s[i] = Do("written") => \A j \in 1..i : d[j] >= 1
          /\ s[i] = Do("peek") => i < Len(s) /\ s[i + 1] = Unlock(TheReport)

Sound(s, c) == \E d : Depths(s, c, d)

\* Block b can be put in front of any list of a thread that holds Report at least min times.
Keeps(b, min) ==
    /\ b \in Seq(Steps)
    /\ \A s \in Seq(Steps), c \in Nat : c >= min /\ Sound(s, c) => Sound(b \o s, c)

\* How often a thread holds Report.
Held(t) == IF locks[TheReport].owner = t THEN locks[TheReport].count ELSE 0

Typed ==
    /\ todo \in [Threads -> Seq(Steps)]
    /\ locks \in [Locks -> [owner : Threads \cup {Nobody}, count : Int]]
    /\ locks[TheReport].count \in Nat
    /\ locks[TheReport].owner = Nobody => locks[TheReport].count = 0

\* The blocker is set while some thread has to reset it.
Blocked == recursionBlocker => \E u \in Threads : Do("written") \in ToSet(todo[u])

IInv == Typed /\ Blocked /\ \A t \in Threads : Sound(todo[t], Held(t))

-----------------------------------------------------------------------------
(***************************************************************************)
(* Steps and lists.                                                        *)
(***************************************************************************)
\* Different steps are different.
LEMMA StepsDiffer ==
    /\ \A l, m : Lock(l) # Unlock(m) /\ Lock(l) # Do(m) /\ Unlock(l) # Do(m)
    /\ \A l, m : (Lock(l) = Lock(m) <=> l = m) /\ (Unlock(l) = Unlock(m) <=> l = m)
    /\ \A l, m : Do(l) = Do(m) <=> l = m
BY DEF Lock, Unlock, Do

\* Taking and releasing a lock is not a step that needs one.
LEMMA LocksUnguarded ==
    \A l : /\ Lock(l) \notin {Do(w) : w \in Guarded} /\ Lock(l) # Do("peek")
           /\ Unlock(l) \notin {Do(w) : w \in Guarded} /\ Unlock(l) # Do("peek")
<1> TAKE l
<1>1. \A w : Lock(l) # Do(w) /\ Unlock(l) # Do(w)
  BY StepsDiffer
<1> QED
  BY <1>1

\* A step in front of a list.
LEMMA InFront ==
    ASSUME NEW x \in Steps, NEW s \in Seq(Steps)
    PROVE  /\ <<x>> \o s \in Seq(Steps) /\ Len(<<x>> \o s) = Len(s) + 1
           /\ (<<x>> \o s)[1] = x
           /\ \A i \in 1..Len(s) : (<<x>> \o s)[i + 1] = s[i]
<1>1. <<x>> \in Seq(Steps) /\ Len(<<x>>) = 1 /\ <<x>>[1] = x
  OBVIOUS
<1>2. PICK n \in Nat : n = Len(s)
  OBVIOUS
<1>3. /\ <<x>> \o s \in Seq(Steps) /\ Len(<<x>> \o s) = 1 + n
      /\ \A i \in 1..(1 + n) : (<<x>> \o s)[i] = IF i <= 1 THEN <<x>>[i] ELSE s[i - 1]
  BY <1>1, <1>2, ConcatProperties
<1>4. (<<x>> \o s)[1] = x
  BY <1>1, <1>2, <1>3
<1>5. \A i \in 1..n : (<<x>> \o s)[i + 1] = s[i]
  <2> TAKE i \in 1..n
  <2>1. i + 1 \in 1..(1 + n) /\ ~(i + 1 <= 1) /\ (i + 1) - 1 = i
    BY <1>2
  <2> QED
    BY <1>3, <2>1
<1> QED
  BY <1>2, <1>3, <1>4, <1>5

\* What it adds.
LEMMA FrontSet ==
    ASSUME NEW x \in Steps, NEW s \in Seq(Steps)
    PROVE  ToSet(<<x>> \o s) = {x} \cup ToSet(s)
<1>1. PICK r : r = <<x>>
  OBVIOUS
<1>2. r \in Seq(Steps)
  BY <1>1
<1>3. ToSet(r) = {x}
  BY <1>1 DEF ToSet
<1>4. ToSet(r \o s) = ToSet(r) \cup ToSet(s)
  BY <1>2, ToSetConcat
<1> QED
  BY <1>1, <1>3, <1>4

\* Two steps.
LEMMA Pair == ASSUME NEW a, NEW b PROVE <<a>> \o <<b>> = <<a, b>>
<1>1. /\ <<a>> \in Seq({a, b}) /\ <<b>> \in Seq({a, b}) /\ <<a, b>> \in Seq({a, b})
      /\ Len(<<a>>) = 1 /\ Len(<<b>>) = 1 /\ Len(<<a, b>>) = 2
      /\ <<a>>[1] = a /\ <<b>>[1] = b /\ <<a, b>>[1] = a /\ <<a, b>>[2] = b
  OBVIOUS
<1>2. PICK q : q = <<a>> \o <<b>>
  OBVIOUS
<1>3. /\ q \in Seq({a, b}) /\ Len(q) = 1 + 1
      /\ \A i \in 1..(1 + 1) : q[i] = IF i <= 1 THEN <<a>>[i] ELSE <<b>>[i - 1]
  BY <1>1, <1>2, ConcatProperties
<1>4. q[1] = a /\ q[2] = b
  BY <1>1, <1>3
<1>5. \A i \in 1..2 : q[i] = <<a, b>>[i]
  BY <1>1, <1>4
<1>6. q = <<a, b>>
  BY <1>1, <1>3, <1>5, SeqEqual
<1> QED
  BY <1>2, <1>6

\* A step in front of a sound list: sound if Report is held as often as it needs, and at all if
\* the blocker is to be reset.
LEMMA SoundFront ==
    ASSUME NEW x \in Steps, NEW s \in Seq(Steps), NEW c \in Nat, NEW e,
           Sound(s, e), e = After(x, c),
           x \in {Do(w) : w \in Guarded} => c >= 1,
           Do("written") \in ToSet(s) => c >= 1,
           x = Do("peek") => Len(s) >= 1 /\ s[1] = Unlock(TheReport)
    PROVE  Sound(<<x>> \o s, c)
<1>1. PICK d : Depths(s, e, d)
  BY DEF Sound
<1>2. PICK n \in Nat : n = Len(s) /\ DOMAIN s = 1..n
  OBVIOUS
<1>3. PICK r : r = <<x>> \o s
  OBVIOUS
<1>4. /\ Len(r) = n + 1 /\ r[1] = x /\ \A i \in 1..n : r[i + 1] = s[i]
  BY <1>2, <1>3, InFront
<1>5. PICK f : f = [i \in Nat |-> IF i <= 1 THEN c ELSE d[i - 1]]
  OBVIOUS
<1>6. d \in [Nat -> Nat] /\ d[1] = e /\ d[n + 1] = 0
  BY <1>1, <1>2 DEF Depths
<1>7. /\ f \in [Nat -> Nat] /\ f[1] = c /\ \A i \in 1..(n + 1) : f[i + 1] = d[i]
  <2>0. \A i \in Nat : (IF i <= 1 THEN c ELSE d[i - 1]) \in Nat
    <3> TAKE i \in Nat
    <3>1. ~(i <= 1) => i - 1 \in Nat
      OBVIOUS
    <3> QED
      BY <1>6, <3>1
  <2>a. f \in [Nat -> Nat]
    BY <1>5, <2>0
  <2>b. 1 \in Nat /\ 1 <= 1
    OBVIOUS
  <2>1. f \in [Nat -> Nat] /\ f[1] = c
    BY <1>5, <2>a, <2>b
  <2>2. \A i \in 1..(n + 1) : i + 1 \in Nat /\ ~(i + 1 <= 1) /\ (i + 1) - 1 = i
    OBVIOUS
  <2> QED
    BY <1>5, <2>1, <2>2
<1>8. ASSUME NEW i \in 1..(n + 1)
      PROVE  /\ f[i + 1] = After(r[i], f[i])
             /\ r[i] \in {Do(w) : w \in Guarded} => f[i] >= 1
             /\ r[i] = Do("written") => \A j \in 1..i : f[j] >= 1
             /\ r[i] = Do("peek") => i < n + 1 /\ r[i + 1] = Unlock(TheReport)
  <2>1. CASE i = 1
    <3>1. f[2] = d[1]
      <4>1. 1 \in 1..(n + 1) /\ 1 + 1 = 2
        OBVIOUS
      <4> QED
        BY <1>7, <4>1
    <3>2. x = Do("peek") => 1 < n + 1 /\ r[2] = Unlock(TheReport)
      <4>1. n >= 1 => 1 \in 1..n /\ 1 + 1 = 2 /\ 1 < n + 1
        OBVIOUS
      <4> QED
        BY <1>2, <1>4, <4>1
    <3>3. x = Do("written") => c >= 1
      BY DEF Guarded
    <3>4. \A j \in 1..1 : j = 1
      OBVIOUS
    <3> QED
      BY <2>1, <1>4, <1>6, <1>7, <3>1, <3>2, <3>3, <3>4
  <2>2. CASE i # 1
    <3>1. PICK k \in 1..n : i = k + 1
      <4>1. i - 1 \in 1..n /\ i = (i - 1) + 1
        BY <2>2
      <4> QED
        BY <4>1
    <3>2. r[i] = s[k] /\ f[i] = d[k] /\ f[i + 1] = d[k + 1]
      <4>1. k \in 1..(n + 1) /\ k + 1 \in 1..(n + 1)
        OBVIOUS
      <4> QED
        BY <1>4, <1>7, <3>1, <4>1
    <3>3. /\ d[k + 1] = After(s[k], d[k])
          /\ s[k] \in {Do(w) : w \in Guarded} => d[k] >= 1
          /\ s[k] = Do("written") => \A j \in 1..k : d[j] >= 1
          /\ s[k] = Do("peek") => k < n /\ s[k + 1] = Unlock(TheReport)
      BY <1>1, <1>2 DEF Depths
    <3>4. ASSUME s[k] = Do("written"), NEW j \in 1..i
          PROVE  f[j] >= 1
      <4>1. CASE j = 1
        BY <4>1, <1>2, <1>7, <3>4 DEF ToSet
      <4>2. CASE j # 1
        <5>1. j - 1 \in 1..k /\ j - 1 \in 1..(n + 1) /\ (j - 1) + 1 = j
          BY <3>1, <4>2
        <5> QED
          BY <1>7, <3>3, <3>4, <5>1
      <4> QED
        BY <4>1, <4>2
    <3>5. s[k] = Do("peek") => i < n + 1 /\ r[i + 1] = Unlock(TheReport)
      <4>1. k < n => i < n + 1 /\ k + 1 \in 1..n /\ i + 1 = (k + 1) + 1
        BY <3>1
      <4> QED
        BY <1>4, <3>3, <4>1
    <3> QED
      BY <3>2, <3>3, <3>4, <3>5
  <2> QED
    BY <2>1, <2>2
<1>9. f[Len(r) + 1] = 0
  <2>1. n + 1 \in 1..(n + 1) /\ Len(r) = n + 1
    BY <1>4
  <2> QED
    BY <1>6, <1>7, <2>1
<1>10. Depths(r, c, f)
  BY <1>4, <1>7, <1>8, <1>9 DEF Depths
<1> QED
  BY <1>3, <1>10 DEF Sound

\* What is left when the first step of a sound list is done, and what this step relied on.
LEMMA SoundTail ==
    ASSUME NEW s \in Seq(Steps), NEW c, Sound(s, c), s # <<>>
    PROVE  /\ c \in Nat /\ After(Head(s), c) \in Nat
           /\ Sound(Tail(s), After(Head(s), c))
           /\ Head(s) \in {Do(w) : w \in Guarded} => c >= 1
           /\ Do("written") \in ToSet(s) => c >= 1
           /\ Head(s) = Do("peek") => Tail(s) # <<>> /\ Head(Tail(s)) = Unlock(TheReport)
<1>1. PICK d : Depths(s, c, d)
  BY DEF Sound
<1>2. PICK n \in Nat : n + 1 = Len(s) /\ DOMAIN s = 1..(n + 1)
  <2>1. PICK m \in Nat : m = Len(s) /\ m # 0 /\ DOMAIN s = 1..m
    BY EmptySeq
  <2>2. m - 1 \in Nat /\ (m - 1) + 1 = m
    BY <2>1
  <2> QED
    BY <2>1, <2>2
<1>3. PICK r : r = Tail(s)
  OBVIOUS
<1>4. r \in Seq(Steps) /\ Len(r) = n /\ Head(s) = s[1] /\ \A i \in 1..n : r[i] = s[i + 1]
  BY <1>2, <1>3, HeadTailProperties
<1>5. /\ d \in [Nat -> Nat] /\ d[1] = c /\ d[(n + 1) + 1] = 0
      /\ \A i \in 1..(n + 1) :
          /\ d[i + 1] = After(s[i], d[i])
          /\ s[i] \in {Do(w) : w \in Guarded} => d[i] >= 1
          /\ s[i] = Do("written") => \A j \in 1..i : d[j] >= 1
          /\ s[i] = Do("peek") => i < n + 1 /\ s[i + 1] = Unlock(TheReport)
  BY <1>1, <1>2 DEF Depths
<1>6. /\ d[2] = After(s[1], c) /\ d[2] \in Nat /\ c \in Nat
      /\ s[1] \in {Do(w) : w \in Guarded} => c >= 1
      /\ s[1] = Do("peek") => 1 < n + 1 /\ s[2] = Unlock(TheReport)
  <2>1. 1 \in 1..(n + 1) /\ 1 + 1 = 2 /\ 1 \in Nat /\ 2 \in Nat
    OBVIOUS
  <2> QED
    BY <1>5, <2>1
<1>7. PICK f : f = [i \in Nat |-> d[i + 1]]
  OBVIOUS
<1>8. f \in [Nat -> Nat] /\ f[1] = d[2] /\ f[n + 1] = 0
  <2>1. \A i \in Nat : i + 1 \in Nat /\ d[i + 1] \in Nat
    BY <1>5, SMTT(30)
  <2>2. 1 \in Nat /\ 1 + 1 = 2 /\ n + 1 \in Nat
    OBVIOUS
  <2> QED
    BY <1>5, <1>7, <2>1, <2>2
<1>9. ASSUME NEW i \in 1..n
      PROVE  /\ f[i + 1] = After(r[i], f[i])
             /\ r[i] \in {Do(w) : w \in Guarded} => f[i] >= 1
             /\ r[i] = Do("written") => \A j \in 1..i : f[j] >= 1
             /\ r[i] = Do("peek") => i < n /\ r[i + 1] = Unlock(TheReport)
  <2>1. i + 1 \in 1..(n + 1) /\ i \in Nat /\ i + 1 \in Nat
    OBVIOUS
  <2>2. r[i] = s[i + 1] /\ f[i] = d[i + 1] /\ f[i + 1] = d[(i + 1) + 1]
    BY <1>4, <1>7, <2>1
  <2>3. ASSUME r[i] = Do("written"), NEW j \in 1..i
        PROVE  f[j] >= 1
    <3>1. j + 1 \in 1..(i + 1) /\ j \in Nat
      OBVIOUS
    <3> QED
      BY <1>5, <1>7, <2>1, <2>2, <2>3, <3>1
  <2>4. r[i] = Do("peek") => i < n /\ r[i + 1] = Unlock(TheReport)
    <3>1. i + 1 < n + 1 => i < n /\ i + 1 \in 1..n
      OBVIOUS
    <3> QED
      BY <1>4, <1>5, <2>1, <2>2, <3>1
  <2> QED
    BY <1>5, <2>1, <2>2, <2>3, <2>4
<1>10. Depths(r, d[2], f)
  BY <1>4, <1>8, <1>9 DEF Depths
<1>11. Do("written") \in ToSet(s) => c >= 1
  <2>1. ASSUME NEW i \in 1..(n + 1), s[i] = Do("written")
        PROVE  c >= 1
    <3>1. 1 \in 1..i
      OBVIOUS
    <3> QED
      BY <1>5, <2>1, <3>1
  <2> QED
    BY <1>2, <2>1 DEF ToSet
<1>12. s[1] = Do("peek") => r # <<>> /\ Head(r) = Unlock(TheReport)
  <2> SUFFICES ASSUME s[1] = Do("peek")
               PROVE  r # <<>> /\ Head(r) = Unlock(TheReport)
    OBVIOUS
  <2>1. 1 < n + 1 /\ s[2] = Unlock(TheReport)
    BY <1>6
  <2>2. 1 \in 1..n /\ r[1] = s[2] /\ n # 0
    BY <1>4, <1>6, <2>1
  <2>3. r # <<>>
    BY <1>4, <2>2
  <2> QED
    BY <1>4, <2>1, <2>2, <2>3, HeadTailProperties
<1> QED
  BY <1>3, <1>4, <1>6, <1>10, <1>11, <1>12 DEF Sound

-----------------------------------------------------------------------------
(***************************************************************************)
(* The blocks that calls and steps are built from.                         *)
(***************************************************************************)
\* The list of a thread that is at no call.
LEMMA EmptySound == Sound(<<>>, 0)
<1>1. PICK d : d = [i \in Nat |-> 0]
  OBVIOUS
<1>2. d \in [Nat -> Nat] /\ d[1] = 0
  BY <1>1
<1>3. Len(<<>>) = 0 /\ 1..0 = {}
  OBVIOUS
<1>4. Depths(<<>>, 0, d)
  BY <1>2, <1>3 DEF Depths
<1> QED
  BY <1>4 DEF Sound

\* A list is sound in front of which there is a number at all, and one at least for `written'.
LEMMA SoundNumber ==
    ASSUME NEW s \in Seq(Steps), NEW c, Sound(s, c)
    PROVE  c \in Nat /\ (Do("written") \in ToSet(s) => c >= 1)
<1>1. CASE s = <<>>
  <2>1. Len(s) = 0 /\ DOMAIN s = {}
    BY <1>1
  <2>2. c \in Nat
    BY <2>1 DEF Sound, Depths
  <2> QED
    BY <2>1, <2>2 DEF ToSet
<1>2. CASE s # <<>>
  BY <1>2, SoundTail
<1> QED
  BY <1>1, <1>2

\* No step at all.
LEMMA KeepsEmpty == \A min \in Nat : Keeps(<<>>, min)
<1>1. <<>> \in Seq(Steps) /\ \A s \in Seq(Steps) : <<>> \o s = s
  BY ConcatEmptySeq
<1> QED
  BY <1>1 DEF Keeps

\* One block after another.
LEMMA KeepsConcat ==
    ASSUME NEW min \in Nat, NEW a, NEW b, Keeps(a, min), Keeps(b, min)
    PROVE  Keeps(a \o b, min)
<1>1. a \in Seq(Steps) /\ b \in Seq(Steps) /\ a \o b \in Seq(Steps)
  BY ConcatProperties DEF Keeps
<1>2. ASSUME NEW s \in Seq(Steps), NEW c \in Nat, c >= min, Sound(s, c)
      PROVE  Sound((a \o b) \o s, c)
  <2>1. Sound(b \o s, c) /\ b \o s \in Seq(Steps)
    BY <1>1, <1>2, ConcatProperties DEF Keeps
  <2>2. Sound(a \o (b \o s), c)
    BY <1>2, <2>1 DEF Keeps
  <2>3. (a \o b) \o s = a \o (b \o s)
    BY <1>1, ConcatAssociative
  <2> QED
    BY <2>2, <2>3
<1> QED
  BY <1>1, <1>2 DEF Keeps

\* A step that is no lock of Report needs it held if it is a guarded one. A look at the writer
\* needs the release behind it.
LEMMA KeepsStep ==
    ASSUME NEW x \in Steps, NEW min \in Nat,
           x \notin {Lock(TheReport), Unlock(TheReport), Do("peek")},
           x \in {Do(w) : w \in Guarded} => min >= 1
    PROVE  Keeps(<<x>>, min)
<1>1. ASSUME NEW s \in Seq(Steps), NEW c \in Nat, c >= min, Sound(s, c)
      PROVE  Sound(<<x>> \o s, c)
  <2>1. Do("written") \in ToSet(s) => c >= 1
    BY <1>1, SoundNumber
  <2>2. After(x, c) = c
    BY DEF After
  <2>3. x \in {Do(w) : w \in Guarded} => c >= 1
    BY <1>1
  <2> QED
    BY <1>1, <2>1, <2>2, <2>3, SoundFront
<1>2. <<x>> \in Seq(Steps)
  OBVIOUS
<1> QED
  BY <1>1, <1>2 DEF Keeps

\* A block under a lock: Report's is held within, whatever is
\* outside. The blocker is not reset within.
LEMMA KeepsUnder ==
    ASSUME NEW l \in Locks, NEW b, NEW min \in Nat,
           Keeps(b, IF l = TheReport THEN 1 ELSE min),
           l = TheReport => Do("written") \notin ToSet(b)
    PROVE  Keeps(Under(l, b), min)
<1>1. b \in Seq(Steps) /\ Lock(l) \in Steps /\ Unlock(l) \in Steps
  BY DEF Keeps, Steps
<1>2. /\ <<Lock(l)>> \in Seq(Steps) /\ <<Unlock(l)>> \in Seq(Steps)
      /\ <<Lock(l)>> \o b \in Seq(Steps) /\ Under(l, b) \in Seq(Steps)
  BY <1>1, ConcatProperties DEF Under
<1>3. CASE l # TheReport
  <2>1. Keeps(<<Lock(l)>>, min) /\ Keeps(<<Unlock(l)>>, min)
    <3>1. /\ Lock(l) \notin {Lock(TheReport), Unlock(TheReport), Do("peek")}
          /\ Lock(l) \notin {Do(w) : w \in Guarded}
      BY <1>3, StepsDiffer
    <3>2. /\ Unlock(l) \notin {Lock(TheReport), Unlock(TheReport), Do("peek")}
          /\ Unlock(l) \notin {Do(w) : w \in Guarded}
      BY <1>3, StepsDiffer
    <3> QED
      BY <1>1, <3>1, <3>2, KeepsStep
  <2>2. Keeps(b, min)
    BY <1>3
  <2>3. Keeps(<<Lock(l)>> \o b, min)
    BY <2>1, <2>2, KeepsConcat
  <2> QED
    BY <2>1, <2>3, KeepsConcat DEF Under
<1>4. CASE l = TheReport
  <2>1. ASSUME NEW s \in Seq(Steps), NEW c \in Nat, c >= min, Sound(s, c)
        PROVE  Sound(Under(l, b) \o s, c)
    <3>1. Do("written") \in ToSet(s) => c >= 1
      BY <2>1, SoundNumber
    <3> DEFINE r == <<Unlock(l)>> \o s
    <3>2. Sound(r, c + 1)
      <4>1. After(Unlock(l), c + 1) = c
        BY <1>4, StepsDiffer DEF After
      <4>2. Unlock(l) \notin {Do(w) : w \in Guarded} /\ Unlock(l) # Do("peek")
        BY LocksUnguarded
      <4>3. c + 1 \in Nat /\ c + 1 >= 1
        OBVIOUS
      <4> QED
        BY <1>1, <2>1, <4>1, <4>2, <4>3, SoundFront
    <3>3. r \in Seq(Steps)
      BY <1>1, InFront
    <3> HIDE DEF r
    <3>4. Sound(b \o r, c + 1) /\ b \o r \in Seq(Steps)
      <4>1. c + 1 \in Nat /\ c + 1 >= 1 /\ Keeps(b, 1)
        BY <1>4
      <4> QED
        BY <1>1, <3>2, <3>3, <4>1, ConcatProperties DEF Keeps
    <3>5. Do("written") \in ToSet(b \o r) => c >= 1
      <4>2. ToSet(b \o r) = ToSet(b) \cup ({Unlock(l)} \cup ToSet(s))
        <5>1. ToSet(r) = {Unlock(l)} \cup ToSet(s)
          BY <1>1, <2>1, FrontSet DEF r
        <5> QED
          BY <1>1, <3>3, <5>1, ToSetConcat
      <4>3. Do("written") # Unlock(l)
        BY StepsDiffer
      <4> QED
        BY <1>4, <3>1, <4>2, <4>3
    <3>6. Sound(<<Lock(l)>> \o (b \o r), c)
      <4>1. After(Lock(l), c) = c + 1
        BY <1>4 DEF After
      <4>2. Lock(l) \notin {Do(w) : w \in Guarded} /\ Lock(l) # Do("peek")
        BY LocksUnguarded
      <4> QED
        BY <1>1, <3>4, <3>5, <4>1, <4>2, SoundFront
    <3>7. Under(l, b) \o s = <<Lock(l)>> \o (b \o r)
      <4>1. Under(l, b) \o s = (<<Lock(l)>> \o b) \o r
        BY <1>2, <2>1, ConcatAssociative DEF Under, r
      <4> QED
        BY <1>1, <1>2, <3>3, <4>1, ConcatAssociative, SMTT(30)
    <3> QED
      BY <3>6, <3>7
  <2> QED
    BY <1>2, <2>1 DEF Keeps
<1> QED
  BY <1>3, <1>4

\* A look at the writer, with the release behind it.
LEMMA KeepsPeek == Keeps(Under(TheReport, <<Do("peek")>>), 0)
<1> DEFINE p == Do("peek")
           u == Unlock(TheReport)
           l == Lock(TheReport)
<1>1. p \in Steps /\ u \in Steps /\ l \in Steps /\ p \in {Do(w) : w \in Guarded}
  BY DEF Steps, Whats, Guarded, Locks
<1>2. /\ l # u /\ l # p /\ u # p /\ p # Do("written") /\ u # Do("written")
      /\ u \notin {Do(w) : w \in Guarded} /\ l \notin {Do(w) : w \in Guarded}
  <2>1. "peek" # "written"
    OBVIOUS
  <2> QED
    BY <2>1, StepsDiffer
<1> HIDE DEF p, u, l
<1>3. ASSUME NEW s \in Seq(Steps), NEW c \in Nat, Sound(s, c)
      PROVE  Sound((<<l>> \o <<p>> \o <<u>>) \o s, c)
  <2>1. PICK r : r = <<u>> \o s
    OBVIOUS
  <2>2. PICK q : q = <<p>> \o r
    OBVIOUS
  <2>3. /\ r \in Seq(Steps) /\ Len(r) = Len(s) + 1 /\ r[1] = u
        /\ ToSet(r) = {u} \cup ToSet(s)
    <3>1. r \in Seq(Steps) /\ Len(r) = Len(s) + 1 /\ r[1] = u
      BY <1>1, <1>3, <2>1, InFront
    <3>2. ToSet(r) = {u} \cup ToSet(s)
      BY <1>1, <1>3, <2>1, FrontSet
    <3> QED
      BY <3>1, <3>2
  <2>4. q \in Seq(Steps) /\ ToSet(q) = {p} \cup ({u} \cup ToSet(s))
    <3>1. q \in Seq(Steps)
      BY <1>1, <2>2, <2>3, InFront
    <3>2. ToSet(q) = {p} \cup ToSet(r)
      BY <1>1, <2>2, <2>3, FrontSet
    <3> QED
      BY <2>3, <3>1, <3>2
  <2>5. Do("written") \in ToSet(s) => c >= 1
    BY <1>3, SoundNumber
  <2>6. c + 1 \in Nat /\ c + 1 >= 1 /\ (c + 1) - 1 = c
    OBVIOUS
  <2>7. Sound(r, c + 1)
    <3>1. After(u, c + 1) = c
      BY <1>2, <2>6 DEF After, u, l
    <3> QED
      BY <1>1, <1>2, <1>3, <2>1, <2>6, <3>1, SoundFront DEF p
  <2>8. Sound(q, c + 1)
    <3>1. After(p, c + 1) = c + 1
      BY <1>2 DEF After, u, l
    <3>2. Len(r) >= 1
      <4>1. PICK n \in Nat : n = Len(s)
        BY <1>3
      <4> QED
        BY <2>3, <4>1
    <3> QED
      BY <1>1, <2>2, <2>3, <2>6, <2>7, <3>1, <3>2, SoundFront DEF u
  <2>9. Sound(<<l>> \o q, c)
    <3>1. After(l, c) = c + 1
      BY DEF After, l
    <3>2. Do("written") \in ToSet(q) => c >= 1
      BY <1>2, <2>4, <2>5
    <3> QED
      BY <1>1, <1>2, <2>4, <2>8, <3>1, <3>2, SoundFront DEF p
  <2>10. (<<l>> \o <<p>> \o <<u>>) \o s = <<l>> \o q
    <3>1. <<l>> \in Seq(Steps) /\ <<p>> \in Seq(Steps) /\ <<u>> \in Seq(Steps)
      BY <1>1
    <3>2. <<l>> \o <<p>> \in Seq(Steps)
      BY <3>1, ConcatProperties
    <3>3. (<<l>> \o <<p>> \o <<u>>) \o s = (<<l>> \o <<p>>) \o r
      BY <1>3, <2>1, <3>1, <3>2, ConcatAssociative
    <3> QED
      BY <2>2, <2>3, <3>1, <3>3, ConcatAssociative
  <2> QED
    BY <2>9, <2>10
<1>4. Under(TheReport, <<p>>) = <<l>> \o <<p>> \o <<u>>
  BY DEF Under, l, u
<1>5. Under(TheReport, <<p>>) \in Seq(Steps)
  <2>1. <<l>> \in Seq(Steps) /\ <<p>> \in Seq(Steps) /\ <<u>> \in Seq(Steps)
    BY <1>1
  <2>2. <<l>> \o <<p>> \in Seq(Steps)
    BY <2>1, ConcatProperties
  <2>3. (<<l>> \o <<p>>) \o <<u>> \in Seq(Steps)
    BY <2>1, <2>2, ConcatProperties
  <2> QED
    BY <1>4, <2>3
<1> QED
  BY <1>3, <1>4, <1>5 DEF Keeps, p

\* What calls and steps bring along.
LEMMA Blocks ==
    /\ \A min \in Nat : Keeps(DoReport, min) /\ Keeps(Attach, min)
    /\ \A min \in Nat : Keeps(Under(TheReport, <<Do("push")>>), min)
    /\ \A min \in Nat : Keeps(Under(TheReport, <<Do("pop")>>), min)
    /\ Keeps(<<Do("delete")>>, 0)
    /\ Keeps(<<Do("written")>>, 1) /\ Keeps(<<Do("pushed")>>, 1)
    /\ Do("written") \notin ToSet(DoReport)
<1>1. /\ \A w \in Whats : Do(w) \in Steps
      /\ \A w \in Whats : Do(w) \notin {Lock(TheReport), Unlock(TheReport)}
      /\ Locks = {TheReport, TheLox, Alib} /\ TheReport # Alib
  BY StepsDiffer DEF Steps, Locks, TheReport, Alib
<1>2. ASSUME NEW w \in Whats \ {"peek"}
      PROVE  Keeps(<<Do(w)>>, 1)
  <2>1. Do(w) # Do("peek")
    BY StepsDiffer
  <2> QED
    BY <1>1, <1>2, <2>1, KeepsStep
<1>3. ASSUME NEW w \in {"write", "push", "pop"}, NEW min \in Nat
      PROVE  Keeps(Under(TheReport, <<Do(w)>>), min)
  <2>1. w \in Whats \ {"peek"} /\ w # "written"
    BY DEF Whats
  <2>2. Keeps(<<Do(w)>>, 1)
    BY <1>2, <2>1
  <2>3. Do("written") \notin ToSet(<<Do(w)>>)
    BY <2>1, StepsDiffer DEF ToSet
  <2> QED
    BY <1>1, <2>2, <2>3, KeepsUnder
<1>4. ASSUME NEW min \in Nat
      PROVE  Keeps(Attach, min)
  BY <1>1, KeepsEmpty, KeepsUnder DEF Attach
<1>5. Keeps(<<Do("delete")>>, 0)
  <2>1. "delete" \in Whats /\ "delete" \notin Guarded /\ "delete" # "peek"
    BY DEF Whats, Guarded
  <2>2. Do("delete") # Do("peek") /\ Do("delete") \notin {Do(w) : w \in Guarded}
    BY <2>1, StepsDiffer
  <2> QED
    BY <1>1, <2>1, <2>2, KeepsStep
<1>6. Do("written") \notin ToSet(DoReport)
  <2>1. /\ <<Lock(TheReport)>> \in Seq(Steps) /\ <<Do("write")>> \in Seq(Steps)
        /\ <<Unlock(TheReport)>> \in Seq(Steps)
        /\ <<Lock(TheReport)>> \o <<Do("write")>> \in Seq(Steps)
    <3>1. Lock(TheReport) \in Steps /\ Do("write") \in Steps /\ Unlock(TheReport) \in Steps
      BY DEF Steps, Whats, Locks
    <3> QED
      BY <3>1, ConcatProperties
  <2>a. ToSet(<<Lock(TheReport)>> \o <<Do("write")>>)
          = ToSet(<<Lock(TheReport)>>) \cup ToSet(<<Do("write")>>)
    BY <2>1, ToSetConcat, ZenonT(30)
  <2>b. ToSet((<<Lock(TheReport)>> \o <<Do("write")>>) \o <<Unlock(TheReport)>>)
          = ToSet(<<Lock(TheReport)>> \o <<Do("write")>>) \cup ToSet(<<Unlock(TheReport)>>)
    BY <2>1, ToSetConcat, ZenonT(30)
  <2>2. ToSet(DoReport) = (ToSet(<<Lock(TheReport)>>) \cup ToSet(<<Do("write")>>))
                              \cup ToSet(<<Unlock(TheReport)>>)
    BY <2>a, <2>b DEF DoReport, Under
  <2>3. \A x : ToSet(<<x>>) = {x}
    BY DEF ToSet
  <2>4. Do("written") \notin {Lock(TheReport), Unlock(TheReport), Do("write")}
    BY StepsDiffer
  <2> QED
    BY <2>2, <2>3, <2>4
<1> QED
  BY <1>2, <1>3, <1>4, <1>5, <1>6 DEF DoReport, Whats

-----------------------------------------------------------------------------
(***************************************************************************)
(* Lists that lose their first steps.                                      *)
(***************************************************************************)
\* What a list loses with its first step.
LEMMA TailSet ==
    ASSUME NEW s \in Seq(Steps), s # <<>>
    PROVE  ToSet(s) = {Head(s)} \cup ToSet(Tail(s))
<1>1. /\ Head(s) \in Steps /\ Tail(s) \in Seq(Steps)
      /\ s = <<Head(s)>> \o Tail(s)
  <2>1. PICK n \in Nat : n + 1 = Len(s)
    <3>1. PICK m \in Nat : m = Len(s) /\ m # 0
      BY EmptySeq
    <3>2. m - 1 \in Nat /\ (m - 1) + 1 = m
      BY <3>1
    <3> QED
      BY <3>1, <3>2
  <2>2. PICK r : r = Tail(s)
    OBVIOUS
  <2>3. /\ Head(s) \in Steps /\ Head(s) = s[1] /\ r \in Seq(Steps) /\ Len(r) = n
        /\ \A i \in 1..n : r[i] = s[i + 1]
    BY <2>1, <2>2, HeadTailProperties
  <2>4. PICK h : h = Head(s)
    OBVIOUS
  <2>5. PICK q : q = <<h>> \o r
    OBVIOUS
  <2>6. q \in Seq(Steps) /\ Len(q) = n + 1 /\ q[1] = h /\ \A i \in 1..n : q[i + 1] = r[i]
    BY <2>3, <2>4, <2>5, InFront
  <2>7. ASSUME NEW i \in 1..(n + 1)
        PROVE  s[i] = q[i]
    <3>1. CASE i = 1
      BY <2>3, <2>4, <2>6, <3>1
    <3>2. CASE i # 1
      <4>1. i - 1 \in 1..n /\ (i - 1) + 1 = i
        BY <3>2
      <4> QED
        BY <2>3, <2>6, <4>1, ZenonT(30)
    <3> QED
      BY <3>1, <3>2
  <2>8. s = q
    BY <2>1, <2>6, <2>7, SeqEqual
  <2> QED
    BY <2>2, <2>3, <2>4, <2>5, <2>8
<1> QED
  BY <1>1, FrontSet

\* Peek leaves out the look and the release behind it.
LEMMA TwoGone ==
    ASSUME NEW s \in Seq(Steps), s # <<>>, Tail(s) # <<>>
    PROVE  SubSeq(s, 3, Len(s)) = Tail(Tail(s)) /\ Tail(Tail(s)) \in Seq(Steps)
<1>1. PICK r : r = Tail(s)
  OBVIOUS
<1>2. PICK q : q = Tail(r)
  OBVIOUS
<1>3. PICK n \in Nat : n = Len(s)
  OBVIOUS
<1>4. r \in Seq(Steps) /\ Len(r) = n - 1 /\ \A i \in 1..(n - 1) : r[i] = s[i + 1]
  BY <1>1, <1>3, HeadTailProperties
<1>5. q \in Seq(Steps) /\ Len(q) = n - 2 /\ \A i \in 1..(n - 2) : q[i] = r[i + 1]
  <2>1. Len(q) = (n - 1) - 1
    BY <1>1, <1>2, <1>4, HeadTailProperties
  <2>2. (n - 1) - 1 = n - 2
    OBVIOUS
  <2> QED
    BY <1>1, <1>2, <1>4, <2>1, <2>2, HeadTailProperties
<1>6. n - 2 \in Nat
  BY <1>5, LenProperties
<1>7. PICK p : p = SubSeq(s, 3, n)
  OBVIOUS
<1>8. \A i \in 3..n : s[i] \in Steps
  BY <1>3
<1>9. /\ p \in Seq(Steps) /\ Len(p) = (IF 3 <= n THEN (n - 3) + 1 ELSE 0)
      /\ \A i \in 1..((n - 3) + 1) : p[i] = s[(3 + i) - 1]
  BY <1>7, <1>8, SubSeqProperties
<1>10. Len(p) = n - 2
  BY <1>6, <1>9
<1>11. ASSUME NEW i \in 1..(n - 2)
       PROVE  p[i] = q[i]
  <2>1. i \in 1..((n - 3) + 1) /\ i + 1 \in 1..(n - 1) /\ (3 + i) - 1 = (i + 1) + 1
    BY <1>6
  <2> QED
    BY <1>4, <1>5, <1>9, <2>1
<1>12. p = q
  BY <1>5, <1>9, <1>10, <1>11, SeqEqual
<1> QED
  BY <1>1, <1>2, <1>3, <1>5, <1>7, <1>12

\* The list of a thread at no call is sound with Report not held.
LEMMA EmptyNumber == ASSUME NEW c, Sound(<<>>, c) PROVE c = 0
<1>1. Len(<<>>) = 0 /\ 0 + 1 = 1
  OBVIOUS
<1> QED
  BY <1>1 DEF Sound, Depths

-----------------------------------------------------------------------------
(***************************************************************************)
(* The invariant, step by step.                                            *)
(***************************************************************************)
\* A thread gets a list that is sound with its locks, and keeps the blocker's reset in it.
LEMMA Keeping ==
    ASSUME IInv, NEW t \in Threads, NEW r \in Seq(Steps),
           todo' = [todo EXCEPT ![t] = r],
           locks' \in [Locks -> [owner : Threads \cup {Nobody}, count : Int]],
           locks[TheReport].count' \in Nat,
           locks[TheReport].owner' = Nobody => locks[TheReport].count' = 0,
           \A u \in Threads \ {t} : Held(u)' = Held(u),
           Sound(r, Held(t)'),
           recursionBlocker' => \/ Do("written") \in ToSet(r)
                                \/ recursionBlocker /\ Do("written") \notin ToSet(todo[t])
    PROVE  IInv'
<1>1. todo \in [Threads -> Seq(Steps)]
  BY DEF IInv, Typed
<1>2. /\ todo' \in [Threads -> Seq(Steps)] /\ todo[t]' = r
      /\ \A u \in Threads \ {t} : todo[u]' = todo[u]
  BY <1>1
<1>3. Typed'
  BY <1>2 DEF Typed
<1>4. Blocked'
  <2>1. Blocked
    BY DEF IInv
  <2>2. CASE Do("written") \in ToSet(r)
    BY <1>2, <2>2 DEF Blocked
  <2>3. CASE recursionBlocker /\ Do("written") \notin ToSet(todo[t])
    <3>1. PICK u \in Threads : Do("written") \in ToSet(todo[u])
      BY <2>1, <2>3 DEF Blocked
    <3>2. u # t
      BY <2>3, <3>1
    <3> QED
      BY <1>2, <3>1, <3>2 DEF Blocked
  <2>4. CASE ~recursionBlocker'
    BY <2>4 DEF Blocked
  <2> QED
    BY <2>2, <2>3, <2>4
<1>5. ASSUME NEW u \in Threads
      PROVE  Sound(todo[u], Held(u))'
  <2>1. CASE u = t
    BY <1>2, <2>1
  <2>2. CASE u # t
    <3>1. Sound(todo[u], Held(u))
      BY DEF IInv
    <3>2. todo[u]' = todo[u] /\ Held(u)' = Held(u)
      BY <1>2, <2>2
    <3> QED
      BY <3>1, <3>2
  <2> QED
    BY <2>1, <2>2
<1> QED
  BY <1>3, <1>4, <1>5 DEF IInv

\* The same when no lock changes.
LEMMA KeepingLocks ==
    ASSUME IInv, NEW t \in Threads, NEW r \in Seq(Steps),
           todo' = [todo EXCEPT ![t] = r], UNCHANGED locks, Sound(r, Held(t)),
           recursionBlocker' => \/ Do("written") \in ToSet(r)
                                \/ recursionBlocker /\ Do("written") \notin ToSet(todo[t])
    PROVE  IInv'
<1>1. Typed
  BY DEF IInv
<1>2. /\ locks' \in [Locks -> [owner : Threads \cup {Nobody}, count : Int]]
      /\ locks[TheReport].count' \in Nat
      /\ locks[TheReport].owner' = Nobody => locks[TheReport].count' = 0
  BY <1>1 DEF Typed
<1>3. \A u \in Threads : Held(u)' = Held(u)
  BY DEF Held
<1> QED
  BY <1>2, <1>3, Keeping

\* A step that is done, with what comes for it.
LEMMA Going ==
    ASSUME IInv, NEW t \in Threads, NEW w \in Whats \ {"peek"}, At(t, w),
           NEW new, Keeps(new, IF w \in Guarded THEN 1 ELSE 0), Goes(t, new),
           UNCHANGED locks,
           recursionBlocker' => \/ Do("written") \in ToSet(new)
                                \/ recursionBlocker /\ w # "written"
    PROVE  IInv'
<1>1. PICK s : s = todo[t]
  OBVIOUS
<1>2. s \in Seq(Steps) /\ s # <<>> /\ Head(s) = Do(w) /\ Sound(s, Held(t))
  BY <1>1 DEF IInv, Typed, At, Busy, Next1
<1>3. PICK r : r = Tail(s)
  OBVIOUS
<1>4. /\ Held(t) \in Nat /\ Sound(r, After(Do(w), Held(t)))
      /\ Do(w) \in {Do(v) : v \in Guarded} => Held(t) >= 1
  BY <1>2, <1>3, SoundTail
<1>5. After(Do(w), Held(t)) = Held(t)
  BY StepsDiffer DEF After
<1>6. r \in Seq(Steps) /\ ToSet(s) = {Do(w)} \cup ToSet(r)
  BY <1>2, <1>3, TailSet, HeadTailProperties
<1>7. PICK q : q = new \o r
  OBVIOUS
<1>8. new \in Seq(Steps) /\ q \in Seq(Steps) /\ ToSet(q) = ToSet(new) \cup ToSet(r)
  <2>1. new \in Seq(Steps)
    BY DEF Keeps
  <2>2. q \in Seq(Steps)
    BY <1>6, <1>7, <2>1, ConcatProperties
  <2>3. ToSet(q) = ToSet(new) \cup ToSet(r)
    BY <1>6, <1>7, <2>1, ToSetConcat
  <2> QED
    BY <2>1, <2>2, <2>3
<1>9. Sound(q, Held(t))
  <2>1. CASE w \in Guarded
    BY <1>4, <1>5, <1>6, <1>7, <2>1 DEF Keeps
  <2>2. CASE w \notin Guarded
    <3>1. Held(t) >= 0 /\ Keeps(new, 0)
      BY <1>4, <2>2
    <3> QED
      BY <1>4, <1>5, <1>6, <1>7, <3>1 DEF Keeps
  <2> QED
    BY <2>1, <2>2
<1>10. todo' = [todo EXCEPT ![t] = q]
  BY <1>1, <1>3, <1>7 DEF Goes
<1>11. Do("written") \notin ToSet(q) => Do("written") \notin ToSet(new)
  BY <1>8
<1>12. w # "written" /\ Do("written") \notin ToSet(q) => Do("written") \notin ToSet(s)
  <2>1. w # "written" => Do(w) # Do("written")
    BY StepsDiffer
  <2> QED
    BY <1>6, <1>8, <2>1
<1>13. recursionBlocker' => \/ Do("written") \in ToSet(q)
                            \/ recursionBlocker /\ Do("written") \notin ToSet(todo[t])
  BY <1>1, <1>11, <1>12
<1> QED
  BY <1>8, <1>9, <1>10, <1>13, KeepingLocks

\* A lock that is acquired or released.
LEMMA Passing ==
    ASSUME IInv, NEW t \in Threads, Busy(t), Next1(t) # Do("written"), Goes(t, <<>>),
           UNCHANGED recursionBlocker,
           locks' \in [Locks -> [owner : Threads \cup {Nobody}, count : Int]],
           locks[TheReport].count' \in Nat,
           locks[TheReport].owner' = Nobody => locks[TheReport].count' = 0,
           \A u \in Threads \ {t} : Held(u)' = Held(u),
           Held(t)' = After(Next1(t), Held(t))
    PROVE  IInv'
<1>1. PICK s : s = todo[t]
  OBVIOUS
<1>2. s \in Seq(Steps) /\ s # <<>> /\ Head(s) = Next1(t) /\ Sound(s, Held(t))
  BY <1>1 DEF IInv, Typed, Busy, Next1
<1>3. PICK r : r = Tail(s)
  OBVIOUS
<1>4. r \in Seq(Steps) /\ Sound(r, Held(t)') /\ ToSet(s) = {Next1(t)} \cup ToSet(r)
  BY <1>2, <1>3, SoundTail, TailSet, HeadTailProperties
<1>5. todo' = [todo EXCEPT ![t] = r]
  <2>1. <<>> \o r = r
    BY <1>4, ConcatEmptySeq
  <2> QED
    BY <1>1, <1>3, <2>1 DEF Goes
<1>6. recursionBlocker' => \/ Do("written") \in ToSet(r)
                           \/ recursionBlocker /\ Do("written") \notin ToSet(todo[t])
  BY <1>1, <1>4
<1> QED
  BY <1>4, <1>5, <1>6, Keeping

\* A lock is acquired: Report's is held once more, and by nobody else before.
LEMMA AcquireKeeps ==
    ASSUME IInv, NEW t \in Threads, NEW l \in Locks, Acquire(t, l)
    PROVE  IInv'
<1>1. /\ locks \in [Locks -> [owner : Threads \cup {Nobody}, count : Int]]
      /\ locks[TheReport].count \in Nat
      /\ locks[TheReport].owner = Nobody => locks[TheReport].count = 0
      /\ Nobody \notin Threads /\ TheReport \in Locks
  BY ConstantsAssumption DEF IInv, Typed, Locks
<1>2. /\ Busy(t) /\ Next1(t) = Lock(l) /\ Goes(t, <<>>) /\ UNCHANGED recursionBlocker
      /\ locks[l].owner \in {Nobody, t}
      /\ locks' = [locks EXCEPT ![l] = [owner |-> t, count |-> locks[l].count + 1]]
  BY DEF Acquire, MayAcquire
<1>3. Next1(t) # Do("written")
  BY <1>2, StepsDiffer
<1>4. locks' \in [Locks -> [owner : Threads \cup {Nobody}, count : Int]]
  <2>1. locks[l].count + 1 \in Int
    BY <1>1
  <2> QED
    BY <1>1, <1>2, <2>1
<1>5. CASE l = TheReport
  <2>1. locks[TheReport].owner' = t /\ locks[TheReport].count' = locks[TheReport].count + 1
    BY <1>1, <1>2, <1>5
  <2>2. \A u \in Threads \ {t} : Held(u)' = Held(u)
    BY <1>1, <1>2, <1>5, <2>1 DEF Held
  <2>3. Held(t)' = After(Next1(t), Held(t))
    <3>1. Held(t) = locks[TheReport].count
      BY <1>1, <1>2, <1>5 DEF Held
    <3> QED
      BY <1>2, <1>5, <2>1, <3>1 DEF Held, After
  <2> QED
    BY <1>1, <1>2, <1>3, <1>4, <2>1, <2>2, <2>3, Passing
<1>6. CASE l # TheReport
  <2>1. locks[TheReport]' = locks[TheReport]
    BY <1>1, <1>2, <1>6
  <2>2. \A u \in Threads : Held(u)' = Held(u)
    BY <2>1 DEF Held
  <2>3. After(Next1(t), Held(t)) = Held(t)
    BY <1>2, <1>6, StepsDiffer DEF After
  <2> QED
    BY <1>1, <1>2, <1>3, <1>4, <2>1, <2>2, <2>3, Passing
<1> QED
  BY <1>5, <1>6

\* A lock is released: the list in front of the release says that the thread holds it.
LEMMA ReleaseKeeps ==
    ASSUME IInv, NEW t \in Threads, NEW l \in Locks, Release(t, l)
    PROVE  IInv'
<1>1. /\ locks \in [Locks -> [owner : Threads \cup {Nobody}, count : Int]]
      /\ locks[TheReport].count \in Nat
      /\ locks[TheReport].owner = Nobody => locks[TheReport].count = 0
      /\ Nobody \notin Threads /\ TheReport \in Locks
  BY ConstantsAssumption DEF IInv, Typed, Locks
<1>2. /\ Busy(t) /\ Next1(t) = Unlock(l) /\ Goes(t, <<>>) /\ UNCHANGED recursionBlocker
      /\ locks' = [locks EXCEPT ![l] =
                     [owner |-> IF locks[l].count = 1 THEN Nobody ELSE t,
                      count |-> locks[l].count - 1]]
  BY DEF Release
<1>3. Next1(t) # Do("written")
  BY <1>2, StepsDiffer
<1>4. locks' \in [Locks -> [owner : Threads \cup {Nobody}, count : Int]]
  <2>1. /\ locks[l].count - 1 \in Int
        /\ (IF locks[l].count = 1 THEN Nobody ELSE t) \in Threads \cup {Nobody}
    BY <1>1
  <2> QED
    BY <1>1, <1>2, <2>1
<1>5. CASE l = TheReport
  <2>1. Held(t) \in Nat /\ Held(t) - 1 \in Nat
    <3>1. todo[t] \in Seq(Steps) /\ todo[t] # <<>> /\ Sound(todo[t], Held(t))
      BY <1>2 DEF IInv, Typed, Busy
    <3>2. Held(t) \in Nat /\ After(Unlock(TheReport), Held(t)) \in Nat
      BY <1>2, <1>5, <3>1, SoundTail DEF Next1
    <3> QED
      BY <3>2, StepsDiffer DEF After
  <2>2. locks[TheReport].owner = t /\ Held(t) = locks[TheReport].count
    BY <2>1 DEF Held
  <2>3. /\ locks[TheReport].count' = locks[TheReport].count - 1
        /\ locks[TheReport].owner' = IF locks[TheReport].count = 1 THEN Nobody ELSE t
    BY <1>1, <1>2, <1>5
  <2>4. locks[TheReport].count' \in Nat
    BY <2>1, <2>2, <2>3
  <2>5. locks[TheReport].owner' = Nobody => locks[TheReport].count' = 0
    BY <1>1, <2>3
  <2>6. \A u \in Threads \ {t} : Held(u)' = Held(u)
    BY <1>1, <2>2, <2>3 DEF Held
  <2>7. Held(t)' = After(Next1(t), Held(t))
    <3>1. After(Next1(t), Held(t)) = Held(t) - 1
      BY <1>2, <1>5, StepsDiffer DEF After
    <3> QED
      BY <1>1, <2>2, <2>3, <3>1 DEF Held
  <2> QED
    BY <1>2, <1>3, <1>4, <2>4, <2>5, <2>6, <2>7, Passing
<1>6. CASE l # TheReport
  <2>1. locks[TheReport]' = locks[TheReport]
    BY <1>1, <1>2, <1>6
  <2>2. \A u \in Threads : Held(u)' = Held(u)
    BY <2>1 DEF Held
  <2>3. After(Next1(t), Held(t)) = Held(t)
    BY <1>2, <1>6, StepsDiffer DEF After
  <2> QED
    BY <1>1, <1>2, <1>3, <1>4, <2>1, <2>2, <2>3, Passing
<1> QED
  BY <1>5, <1>6

-----------------------------------------------------------------------------
(***************************************************************************)
(* The calls and the steps between locks.                                  *)
(***************************************************************************)
\* Every call is sound for a thread that does not hold Report.
LEMMA CallsSound == \A call \in Calls : call \in Seq(Steps) /\ Sound(call, 0)
<1>1. /\ Keeps(DoReport, 0) /\ Do("written") \notin ToSet(DoReport) /\ Keeps(<<>>, 0)
      /\ Locks = {TheReport, TheLox, Alib} /\ TheReport # Alib /\ TheReport # TheLox
  BY Blocks, KeepsEmpty DEF Locks, TheReport, Alib, TheLox
<1>2. ASSUME NEW l \in {TheLox, Alib}, NEW b, Keeps(b, 0)
      PROVE  Keeps(Under(l, b), 0)
  <2>1. l \in Locks /\ l # TheReport
    BY <1>1
  <2> QED
    BY <1>2, <2>1, KeepsUnder
<1>3. ASSUME NEW w \in {"add", "remove", "removeLogger"}
      PROVE  Keeps(<<Do(w)>>, 0)
  <2>1. w \in Whats /\ w \notin Guarded /\ w # "peek"
    BY DEF Whats, Guarded
  <2>2. Do(w) \in Steps /\ Do(w) \notin {Do(v) : v \in Guarded}
    BY <2>1, StepsDiffer DEF Steps
  <2>3. Do(w) \notin {Lock(TheReport), Unlock(TheReport), Do("peek")}
    BY <2>1, StepsDiffer
  <2> QED
    BY <2>2, <2>3, KeepsStep
<1>4. Keeps(<<Do("remove"), Do("removeLogger")>>, 0)
  <2>1. Keeps(<<Do("remove")>>, 0) /\ Keeps(<<Do("removeLogger")>>, 0)
    BY <1>3
  <2>2. Keeps(<<Do("remove")>> \o <<Do("removeLogger")>>, 0)
    BY <2>1, KeepsConcat
  <2>3. <<Do("remove")>> \o <<Do("removeLogger")>> = <<Do("remove"), Do("removeLogger")>>
    BY Pair
  <2> QED
    BY <2>2, <2>3
<1>5. /\ Keeps(Statement(FALSE), 0) /\ Keeps(Statement(TRUE), 0)
      /\ Keeps(Register(FALSE), 0) /\ Keeps(Register(TRUE), 0)
      /\ Keeps(AddDebugLogger, 0) /\ Keeps(RemoveDebugLogger, 0)
  BY <1>1, <1>2, <1>3, <1>4 DEF Statement, Register, AddDebugLogger, RemoveDebugLogger
<1>6. \A call \in Calls : Keeps(call, 0)
  BY <1>1, <1>5 DEF Calls
<1>7. ASSUME NEW call, Keeps(call, 0)
      PROVE  call \in Seq(Steps) /\ Sound(call, 0)
  <2>1. call \in Seq(Steps) /\ <<>> \in Seq(Steps)
    BY <1>7 DEF Keeps
  <2>2. Sound(call \o <<>>, 0)
    <3>1. 0 \in Nat /\ 0 >= 0 /\ Sound(<<>>, 0)
      BY EmptySound
    <3> QED
      BY <1>7, <2>1, <3>1 DEF Keeps
  <2>3. call \o <<>> = call
    BY <2>1, ConcatEmptySeq
  <2> QED
    BY <2>1, <2>2, <2>3
<1> QED
  BY <1>6, <1>7

\* A call that starts.
LEMMA CallKeeps ==
    ASSUME IInv, NEW t \in Threads, Call(t)
    PROVE  IInv'
<1>1. todo[t] = <<>> /\ UNCHANGED locks /\ UNCHANGED recursionBlocker
  BY DEF Call, Busy
<1>2. PICK call \in Calls : todo' = [todo EXCEPT ![t] = call]
  BY DEF Call
<1>3. Held(t) = 0
  BY <1>1, EmptyNumber DEF IInv
<1>4. call \in Seq(Steps) /\ Sound(call, Held(t))
  BY <1>3, CallsSound
<1>5. Do("written") \notin ToSet(todo[t])
  BY <1>1 DEF ToSet
<1> QED
  BY <1>1, <1>2, <1>4, <1>5, KeepingLocks

\* The blocker is set with the step that resets it, or was set already.
LEMMA WriteKeeps ==
    ASSUME IInv, NEW t \in Threads, Write(t)
    PROVE  IInv'
<1>1. /\ At(t, "write") /\ UNCHANGED locks /\ TheLox \in Locks /\ TheLox # TheReport
      /\ "write" \in Whats \ {"peek"} /\ "write" \in Guarded /\ "write" # "written"
  BY DEF Write, Whats, Guarded, Locks, TheLox, TheReport
<1>2. CASE recursionBlocker
  <2>1. Goes(t, <<>>) /\ UNCHANGED recursionBlocker /\ Keeps(<<>>, 1)
    BY <1>2, KeepsEmpty DEF Write
  <2> QED
    BY <1>1, <1>2, <2>1, Going
<1>3. CASE ~recursionBlocker
  <2>1. Keeps(<<Do("written")>>, 1) /\ Do("written") \in ToSet(<<Do("written")>>)
    BY Blocks DEF ToSet
  <2>2. CASE Goes(t, <<Do("written")>>)
    BY <1>1, <2>1, <2>2, Going
  <2>3. ASSUME NEW logging \in {<<>>, DoReport},
               Goes(t, Under(TheLox, logging) \o <<Do("written")>>)
        PROVE  IInv'
    <3>1. Keeps(logging, 1)
      BY <2>3, Blocks, KeepsEmpty
    <3>2. PICK b : b = Under(TheLox, logging)
      OBVIOUS
    <3>3. Keeps(b, 1)
      BY <1>1, <3>1, <3>2, KeepsUnder
    <3>4. Keeps(b \o <<Do("written")>>, 1)
      BY <2>1, <3>3, KeepsConcat
    <3>5. Do("written") \in ToSet(b \o <<Do("written")>>)
      <4>1. b \in Seq(Steps) /\ <<Do("written")>> \in Seq(Steps)
        BY <2>1, <3>3 DEF Keeps
      <4>2. ToSet(b \o <<Do("written")>>) = ToSet(b) \cup ToSet(<<Do("written")>>)
        BY <4>1, ToSetConcat, ZenonT(30)
      <4> QED
        BY <2>1, <4>2
    <3> QED
      BY <1>1, <2>3, <3>2, <3>4, <3>5, Going
  <2> QED
    BY <1>3, <2>2, <2>3 DEF Write
<1> QED
  BY <1>2, <1>3

\* The blocker is reset.
LEMMA WrittenKeeps ==
    ASSUME IInv, NEW t \in Threads, Written(t)
    PROVE  IInv'
<1>1. "written" \in Whats \ {"peek"} /\ Keeps(<<>>, 1) /\ "written" \in Guarded
  BY KeepsEmpty DEF Whats, Guarded
<1> QED
  BY <1>1, Going DEF Written

\* The look at the writer, after which Report is released first.
LEMMA PeekKeeps ==
    ASSUME IInv, NEW t \in Threads, Peek(t)
    PROVE  IInv'
<1>1. PICK s : s = todo[t]
  OBVIOUS
<1>2. /\ s \in Seq(Steps) /\ s # <<>> /\ Head(s) = Do("peek") /\ Sound(s, Held(t))
      /\ UNCHANGED locks /\ UNCHANGED recursionBlocker
  BY <1>1 DEF IInv, Typed, Peek, At, Busy, Next1
<1>3. PICK c \in Nat : c = Held(t)
  BY <1>2, SoundNumber
<1>4. PICK r : r = Tail(s)
  OBVIOUS
<1>5. /\ r \in Seq(Steps) /\ r # <<>> /\ Head(r) = Unlock(TheReport) /\ Sound(r, c)
      /\ ToSet(s) = {Do("peek")} \cup ToSet(r)
  <2>1. After(Do("peek"), c) = c
    BY StepsDiffer DEF After
  <2> QED
    BY <1>2, <1>3, <1>4, <2>1, SoundTail, TailSet, HeadTailProperties
<1>6. PICK q : q = Tail(r)
  OBVIOUS
<1>7. /\ q \in Seq(Steps) /\ c - 1 \in Nat /\ Sound(q, c - 1)
      /\ ToSet(r) = {Unlock(TheReport)} \cup ToSet(q)
      /\ Do("written") \in ToSet(r) => c >= 1
  <2>1. After(Unlock(TheReport), c) = c - 1
    BY StepsDiffer DEF After
  <2> QED
    BY <1>5, <1>6, <2>1, SoundTail, TailSet, HeadTailProperties
<1>8. SubSeq(s, 3, Len(s)) = q
  BY <1>2, <1>4, <1>5, <1>6, TwoGone
<1>9. PICK push \in {<<>>, Under(TheReport, <<Do("push")>>)} :
         todo' = [todo EXCEPT ![t] = <<Unlock(TheReport)>> \o push \o q]
  BY <1>1, <1>8 DEF Peek
<1>10. push \in Seq(Steps) /\ Keeps(push, 0) /\ Unlock(TheReport) \in Steps
  BY Blocks, KeepsEmpty DEF Keeps, Steps, Locks
<1>11. PICK p : p = push \o q
  OBVIOUS
<1>12. p \in Seq(Steps) /\ Sound(p, c - 1) /\ ToSet(p) = ToSet(push) \cup ToSet(q)
  <2>1. p \in Seq(Steps)
    BY <1>7, <1>10, <1>11, ConcatProperties
  <2>2. Sound(p, c - 1)
    <3>1. c - 1 >= 0
      BY <1>7
    <3> QED
      BY <1>7, <1>10, <1>11, <3>1 DEF Keeps
  <2>3. ToSet(p) = ToSet(push) \cup ToSet(q)
    BY <1>7, <1>10, <1>11, ToSetConcat
  <2> QED
    BY <2>1, <2>2, <2>3
<1>13. PICK new : new = <<Unlock(TheReport)>> \o p
  OBVIOUS
<1>14. /\ new \in Seq(Steps) /\ Sound(new, c)
       /\ ToSet(new) = {Unlock(TheReport)} \cup ToSet(p)
  <2>1. new \in Seq(Steps)
    BY <1>10, <1>12, <1>13, InFront
  <2>2. ToSet(new) = {Unlock(TheReport)} \cup ToSet(p)
    BY <1>10, <1>12, <1>13, FrontSet
  <2>3. Sound(new, c)
    <3>1. After(Unlock(TheReport), c) = c - 1
      BY StepsDiffer DEF After
    <3>2. c >= 1
      BY <1>7
    <3>3. Unlock(TheReport) \notin {Do(w) : w \in Guarded} /\ Unlock(TheReport) # Do("peek")
      BY StepsDiffer
    <3> QED
      BY <1>10, <1>12, <1>13, <3>1, <3>2, <3>3, SoundFront
  <2> QED
    BY <2>1, <2>2, <2>3
<1>15. todo' = [todo EXCEPT ![t] = new]
  <2>1. <<Unlock(TheReport)>> \in Seq(Steps)
    BY <1>10
  <2>2. <<Unlock(TheReport)>> \o push \o q = new
    BY <1>7, <1>10, <1>11, <1>13, <2>1, ConcatAssociative
  <2> QED
    BY <1>9, <2>2
<1>16. Do("written") \notin ToSet(new) => Do("written") \notin ToSet(s)
  <2>1. Do("written") # Do("peek")
    <3>1. "written" # "peek"
      OBVIOUS
    <3> QED
      BY <3>1, StepsDiffer
  <2> QED
    BY <1>5, <1>7, <1>12, <1>14, <2>1
<1> QED
  BY <1>1, <1>2, <1>3, <1>14, <1>15, <1>16, KeepingLocks

\* The other steps leave the blocker alone and bring one of a few blocks along.
LEMMA OthersKeep ==
    ASSUME IInv, NEW t \in Threads,
           \/ Add(t) \/ Push(t) \/ Pushed(t) \/ Remove1(t) \/ Pop(t) \/ Delete(t) \/ RemoveLogger(t)
    PROVE  IInv'
<1>1. ASSUME NEW w \in Whats \ {"peek", "written"}, At(t, w), UNCHANGED <<locks, recursionBlocker>>,
             NEW new, Goes(t, new), Keeps(new, 0) \/ (w \in Guarded /\ Keeps(new, 1))
      PROVE  IInv'
  <2>1. Keeps(new, IF w \in Guarded THEN 1 ELSE 0)
    BY <1>1 DEF Keeps
  <2> QED
    BY <1>1, <2>1, Going
<1>2. /\ Keeps(<<>>, 0) /\ Keeps(DoReport, 0) /\ Keeps(Attach, 0) /\ Keeps(Attach, 1)
      /\ Keeps(<<>>, 1) /\ Keeps(<<Do("pushed")>>, 1) /\ Keeps(<<Do("delete")>>, 0)
      /\ Keeps(Under(TheReport, <<Do("pop")>>), 0)
  BY Blocks, KeepsEmpty
<1>3. CASE Add(t)
  <2>1. Keeps(Attach \o Under(TheReport, <<Do("peek")>>), 0)
    BY <1>2, KeepsConcat, KeepsPeek
  <2>2. "add" \in Whats \ {"peek", "written"}
    BY DEF Whats
  <2> QED
    BY <1>1, <1>2, <1>3, <2>1, <2>2 DEF Add
<1>4. CASE Push(t)
  <2>1. Keeps(Attach \o <<Do("pushed")>>, 1) /\ Keeps(<<>> \o <<Do("pushed")>>, 1)
    BY <1>2, KeepsConcat
  <2>2. "push" \in Whats \ {"peek", "written"} /\ "push" \in Guarded
    BY DEF Whats, Guarded
  <2> QED
    BY <1>1, <1>4, <2>1, <2>2 DEF Push
<1>5. CASE Pushed(t)
  <2>1. "pushed" \in Whats \ {"peek", "written"}
    BY DEF Whats
  <2> QED
    BY <1>1, <1>2, <1>5, <2>1 DEF Pushed
<1>6. CASE Remove1(t)
  <2>1. Keeps(Under(TheReport, <<Do("pop")>>) \o <<Do("delete")>>, 0)
    BY <1>2, KeepsConcat
  <2>2. "remove" \in Whats \ {"peek", "written"}
    BY DEF Whats
  <2> QED
    BY <1>1, <1>2, <1>6, <2>1, <2>2 DEF Remove1
<1>7. CASE Pop(t)
  <2>1. "pop" \in Whats \ {"peek", "written"}
    BY DEF Whats
  <2> QED
    BY <1>1, <1>2, <1>7, <2>1 DEF Pop
<1>8. CASE Delete(t)
  <2>1. "delete" \in Whats \ {"peek", "written"}
    BY DEF Whats
  <2> QED
    BY <1>1, <1>2, <1>8, <2>1 DEF Delete
<1>9. CASE RemoveLogger(t)
  <2>1. "removeLogger" \in Whats \ {"peek", "written"}
    BY DEF Whats
  <2> QED
    BY <1>1, <1>2, <1>9, <2>1 DEF RemoveLogger
<1> QED
  BY <1>3, <1>4, <1>5, <1>6, <1>7, <1>8, <1>9

-----------------------------------------------------------------------------
\* Nobody has anything to do.
LEMMA InitIInv == Init => IInv
<1> SUFFICES ASSUME Init
             PROVE  IInv
  OBVIOUS
<1>1. todo = [t \in Threads |-> <<>>] /\ TheReport \in Locks /\ recursionBlocker = FALSE
  BY DEF Init, Locks
<1>2. /\ locks \in [Locks -> [owner : Threads \cup {Nobody}, count : Int]]
      /\ locks[TheReport].count = 0
  BY <1>1 DEF Init
<1>3. Typed
  BY <1>1, <1>2 DEF Typed
<1>4. \A t \in Threads : Sound(todo[t], Held(t))
  <2>1. \A t \in Threads : Held(t) = 0
    BY <1>2 DEF Held
  <2> QED
    BY <1>1, <2>1, EmptySound
<1> QED
  BY <1>1, <1>3, <1>4 DEF IInv, Blocked

\* The invariant is inductive.
LEMMA NextIInv ==
    ASSUME IInv, [Next]_vars
    PROVE  IInv'
<1>1. CASE UNCHANGED vars
  BY <1>1 DEF vars, IInv, Typed, Blocked, Held
<1>2. ASSUME NEW t \in Threads, Call(t) \/ Step(t)
      PROVE  IInv'
  BY <1>2, CallKeeps, AcquireKeeps, ReleaseKeeps, WriteKeeps, WrittenKeeps, PeekKeeps, OthersKeep
     DEF Step
<1> QED
  BY <1>1, <1>2 DEF Next

\* A thread that is about to write a report holds Report's lock, and so did the one that set the
\* blocker: the blocker is the thread's own.
LEMMA OwnBlocker == IInv => NoReportLost
<1> SUFFICES ASSUME IInv, NEW t \in Threads, At(t, "write"), recursionBlocker
             PROVE  Do("written") \in ToSet(todo[t])
  BY DEF NoReportLost
<1>1. PICK u \in Threads : Do("written") \in ToSet(todo[u])
  BY DEF IInv, Blocked
<1>2. Held(u) >= 1
  BY <1>1, SoundNumber DEF IInv, Typed
<1>3. Held(t) >= 1
  <2>1. /\ todo[t] \in Seq(Steps) /\ todo[t] # <<>> /\ Sound(todo[t], Held(t))
        /\ Head(todo[t]) = Do("write") /\ "write" \in Guarded
    BY DEF IInv, Typed, At, Busy, Next1, Guarded
  <2> QED
    BY <2>1, SoundTail
<1>4. locks[TheReport].owner = u /\ locks[TheReport].owner = t
  BY <1>2, <1>3 DEF Held
<1> QED
  BY <1>1, <1>4

(***************************************************************************)
(* The recursion blocker of Report::DoReport never leaves out the report   *)
(* of another thread (report.cpp), however many threads report, log, add   *)
(* and remove debug loggers at the same time.                              *)
(***************************************************************************)
THEOREM NoReportLostAlways == Spec => []NoReportLost
<1>1. Spec => []IInv
  BY InitIInv, NextIInv, PTL DEF Spec
<1> QED
  BY <1>1, OwnBlocker, PTL
=============================================================================
