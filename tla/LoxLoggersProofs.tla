-------------------------- MODULE LoxLoggersProofs --------------------------
(***************************************************************************)
(* What MCLoxLoggers.cfg checks for three loggers and four domains, proved *)
(* for any number of them, any configuration and any settings.             *)
(*                                                                         *)
(* The two trees are looked at as forests: functions from domains to lists *)
(* of LoggerData. Lemmas say what an operation on a forest keeps; the      *)
(* steps of the specification combine them.                                *)
(***************************************************************************)
EXTENDS LoxLoggers, SequenceTheorems, TLAPS

Settings == [verbosity : Verbosities, priority : Int]
Entries  == [logger : Loggers, setting : Settings]
Forests  == [Domains -> Seq(Entries)]

\* A logger is, a logger of that name is on the list of domain d.
Has(f, d, l)     == \E i \in DOMAIN f[d] : f[d][i].logger = l
HasName(f, d, n) == \E i \in DOMAIN f[d] : NameOf[f[d][i].logger] = n

Typed ==
    /\ Roots \subseteq existing /\ existing \subseteq Domains
    /\ \A d \in existing : Within[d] \subseteq existing
    /\ data \in Forests
    /\ registered \subseteq Loggers
    /\ requests \subseteq Settings /\ calls \in Nat

\* The domains in E list the same loggers as the roots of their trees.
Aligned(f, E) ==
    \A d \in E :
      /\ DOMAIN f[d] = DOMAIN f[RootOf(d)]
      /\ \A i \in DOMAIN f[d] : f[d][i].logger = f[RootOf(d)][i].logger
      /\ \A i, j \in DOMAIN f[d] : NameOf[f[d][i].logger] = NameOf[f[d][j].logger] => i = j

Monotone(f, E) ==
    \A d \in E : \A e \in E \cap Within[d] : \A i \in DOMAIN f[d] :
        f[e][i].setting.priority <= f[d][i].setting.priority

\* The loggers of a forest are those that have the Lox as an acquirer.
Known(f, acquired) ==
    \A l \in Loggers :
        LET attached == \E r \in Roots : Has(f, r, l)
            unique   == \A k \in Loggers : NameOf[k] = NameOf[l] => k = l
        IN  (attached => l \in acquired) /\ (l \in acquired /\ unique => attached)

\* The domains that have not read the configuration for a logger that is being attached.
Unread(d, l) == op.step = "config" /\ l = op.who /\ d \in op.todo

Read ==
    \A d \in existing : \A i \in DOMAIN data[d] :
        /\ Config[NameOf[data[d][i].logger]][d] # NoRule
        /\ ~Unread(d, data[d][i].logger)
        => data[d][i].setting.priority >= ConfigPriority

\* What an operation in progress knows.
Calling ==
    /\ op.step \in {"none", "find", "config", "outer"}
    /\ op.step = "find" =>
         /\ op.kind \in {"logger", "name", "entry"} /\ op.domain \in Domains
         /\ op.kind = "logger" => op.who \in Loggers /\ op.setting \in Settings
         /\ op.kind = "name" => op.who \in Names /\ op.setting \in Settings
         /\ op.kind = "logger" /\ op.outer.setting # NotAttached =>
              /\ op.outer.domain \in existing /\ op.outer.setting \in Settings
              /\ op.domain = RootOf(op.outer.domain)
    /\ op.step = "config" =>
         /\ op.who \in Loggers /\ op.todo \subseteq existing
         /\ op.outer.setting # NotAttached =>
              /\ op.outer.domain \in existing /\ op.outer.setting \in Settings
              /\ HasName(data, op.outer.domain, NameOf[op.who])
    /\ op.step = "outer" =>
         /\ op.who \in Loggers
         /\ op.outer.domain \in existing /\ op.outer.setting \in Settings
         /\ HasName(data, op.outer.domain, NameOf[op.who])

IInv == /\ Typed /\ Calling /\ Read
        /\ Aligned(data, existing) /\ Monotone(data, existing) /\ Known(data, registered)

-----------------------------------------------------------------------------
(***************************************************************************)
(* Trees of domains.                                                       *)
(***************************************************************************)
\* Each domain is in the tree of one root; its ancestors are in the same tree.
LEMMA RootFacts ==
    /\ \A d \in Domains : RootOf(d) \in Roots /\ RootOf(d) \in Within[d]
    /\ \A d \in Domains : \A e \in Within[d] : e \in Domains /\ RootOf(e) = RootOf(d)
    /\ \A r \in Roots : r \in Domains /\ RootOf(r) = r
    /\ \A r \in Roots : OtherRoot(r) \in Roots /\ OtherRoot(r) # r /\ Roots = {r, OtherRoot(r)}
<1>1. ASSUME NEW d \in Domains
      PROVE  RootOf(d) \in Roots /\ \A r \in Roots : r \in Within[d] <=> r = RootOf(d)
  <2>1. PICK r \in Roots : Within[d] \cap Roots = {r}
    BY TreeAssumption
  <2>2. RootOf(d) = r
    BY <2>1 DEF RootOf
  <2> QED
    BY <2>1, <2>2
<1>2. ASSUME NEW d \in Domains, NEW e \in Within[d]
      PROVE  e \in Domains /\ RootOf(e) = RootOf(d)
  <2>1. e \in Domains /\ Within[e] \subseteq Within[d]
    BY TreeAssumption
  <2>2. RootOf(e) \in Roots /\ RootOf(e) \in Within[d]
    BY <1>1, <2>1
  <2> QED
    BY <1>1, <2>1, <2>2
<1>3. ASSUME NEW r \in Roots
      PROVE  /\ r \in Domains /\ RootOf(r) = r
             /\ OtherRoot(r) \in Roots /\ OtherRoot(r) # r /\ Roots = {r, OtherRoot(r)}
  <2>1. r \in Domains /\ Within[r] = {r}
    BY TreeAssumption
  <2>2. RootOf(r) = r
    BY <1>1, <2>1
  <2> QED
    BY <2>1, <2>2, TreeAssumption DEF Roots, OtherRoot
<1> QED
  BY <1>1, <1>2, <1>3

\* A domain below a root has a parent, which is the nearest of its ancestors.
LEMMA ParentFacts ==
    ASSUME NEW c \in Domains \ Roots
    PROVE  /\ Parent(c) \in Within[c] \ {c}
           /\ \A e \in Within[c] \ {c} : e \in Within[Parent(c)]
BY TreeAssumption DEF Parent

-----------------------------------------------------------------------------
(***************************************************************************)
(* Looking up a logger.                                                    *)
(***************************************************************************)
\* FirstOf for a given forest.
FirstIn(f, d, wanted) ==
    LET hits == {i \in DOMAIN f[d] : f[d][i].logger \in wanted}
    IN  IF hits = {} THEN 0 ELSE CHOOSE i \in hits : \A j \in hits : i <= j

\* Where at most one entry of a list is wanted, FirstIn finds it.
LEMMA FirstInFinds ==
    ASSUME NEW f \in Forests, NEW d \in Domains, NEW wanted,
           \A i, j \in DOMAIN f[d] : f[d][i].logger \in wanted /\ f[d][j].logger \in wanted => i = j
    PROVE  /\ FirstIn(f, d, wanted) \in DOMAIN f[d] \cup {0} /\ 0 \notin DOMAIN f[d]
           /\ \A i \in DOMAIN f[d] : f[d][i].logger \in wanted <=> i = FirstIn(f, d, wanted)
<1> DEFINE hits == {i \in DOMAIN f[d] : f[d][i].logger \in wanted}
<1>1. PICK n \in Nat : DOMAIN f[d] = 1..n
  <2>1. f[d] \in Seq(Entries)
    BY DEF Forests
  <2> QED
    BY <2>1
<1>2. CASE hits = {}
  BY <1>1, <1>2 DEF FirstIn
<1>3. CASE hits # {}
  <2>1. PICK i : hits = {i} /\ i \in DOMAIN f[d]
    BY <1>3
  <2>2. i \in Nat
    BY <1>1, <2>1
  <2>3. FirstIn(f, d, wanted) = CHOOSE j \in hits : \A k \in hits : j <= k
    BY <1>3 DEF FirstIn
  <2>4. FirstIn(f, d, wanted) = i
    BY <2>1, <2>2, <2>3
  <2> QED
    BY <1>1, <2>1, <2>4
<1> QED
  BY <1>2, <1>3

\* The number of a logger, and of a name, on a domain of an aligned forest.
LEMMA Numbers ==
    ASSUME data \in Forests, NEW d \in Domains,
           \A i, j \in DOMAIN data[d] :
              NameOf[data[d][i].logger] = NameOf[data[d][j].logger] => i = j
    PROVE  /\ 0 \notin DOMAIN data[d]
           /\ \A l \in Loggers :
                /\ LoggerNo(d, l) \in DOMAIN data[d] \cup {0}
                /\ \A i \in DOMAIN data[d] : data[d][i].logger = l <=> i = LoggerNo(d, l)
                /\ LoggerNo(d, l) # 0 <=> Has(data, d, l)
           /\ \A n :
                /\ NamedNo(d, n) \in DOMAIN data[d] \cup {0}
                /\ \A i \in DOMAIN data[d] : NameOf[data[d][i].logger] = n <=> i = NamedNo(d, n)
                /\ NamedNo(d, n) # 0 <=> HasName(data, d, n)
<1>1. \A w : FirstOf(d, w) = FirstIn(data, d, w)
  BY DEF FirstOf, FirstIn
<1>2. \A i \in DOMAIN data[d] : data[d][i].logger \in Loggers
  <2>1. data[d] \in Seq(Entries)
    BY DEF Forests
  <2>2. \A i \in DOMAIN data[d] : data[d][i] \in Entries
    BY <2>1
  <2> QED
    BY <2>2 DEF Entries
<1>3. ASSUME NEW l \in Loggers
      PROVE  /\ 0 \notin DOMAIN data[d]
             /\ LoggerNo(d, l) \in DOMAIN data[d] \cup {0}
             /\ \A i \in DOMAIN data[d] : data[d][i].logger = l <=> i = LoggerNo(d, l)
  <2>1. /\ FirstIn(data, d, {l}) \in DOMAIN data[d] \cup {0} /\ 0 \notin DOMAIN data[d]
        /\ \A i \in DOMAIN data[d] : data[d][i].logger \in {l} <=> i = FirstIn(data, d, {l})
    BY FirstInFinds
  <2> QED
    BY <1>1, <2>1 DEF LoggerNo
<1>4. ASSUME NEW n
      PROVE  /\ 0 \notin DOMAIN data[d]
             /\ NamedNo(d, n) \in DOMAIN data[d] \cup {0}
             /\ \A i \in DOMAIN data[d] : NameOf[data[d][i].logger] = n <=> i = NamedNo(d, n)
  <2>1. PICK w : w = {l \in Loggers : NameOf[l] = n}
    OBVIOUS
  <2>2. /\ FirstIn(data, d, w) \in DOMAIN data[d] \cup {0} /\ 0 \notin DOMAIN data[d]
        /\ \A i \in DOMAIN data[d] : data[d][i].logger \in w <=> i = FirstIn(data, d, w)
    <3>1. ASSUME NEW i \in DOMAIN data[d], NEW j \in DOMAIN data[d],
                 data[d][i].logger \in w, data[d][j].logger \in w
          PROVE  i = j
      <4>1. NameOf[data[d][i].logger] = n /\ NameOf[data[d][j].logger] = n
        BY <2>1, <3>1
      <4> QED
        BY <4>1
    <3> QED
      BY <3>1, FirstInFinds
  <2> QED
    BY <1>1, <1>2, <2>1, <2>2 DEF NamedNo
<1> QED
  BY <1>3, <1>4 DEF Has, HasName

-----------------------------------------------------------------------------
(***************************************************************************)
(* Operations on forests.                                                  *)
(***************************************************************************)
\* Forest g has the loggers of f, in the same order, at priorities that are not lower.
Raised(f, g) ==
    \A e \in Domains :
      /\ DOMAIN g[e] = DOMAIN f[e]
      /\ \A i \in DOMAIN f[e] :
           /\ g[e][i].logger = f[e][i].logger
           /\ f[e][i].setting.priority <= g[e][i].setting.priority

\* What a list of a forest and its entries are.
LEMMA EntryFacts ==
    ASSUME NEW f \in Forests, NEW d \in Domains
    PROVE  /\ f[d] \in Seq(Entries)
           /\ \E n \in Nat : n = Len(f[d]) /\ DOMAIN f[d] = 1..n
           /\ \A i \in DOMAIN f[d] :
                /\ f[d][i] \in Entries /\ f[d][i].logger \in Loggers
                /\ f[d][i].setting \in Settings /\ f[d][i].setting.priority \in Int
                /\ f[d][i] = LoggerData(f[d][i].logger, f[d][i].setting)
<1>1. f[d] \in Seq(Entries)
  BY DEF Forests
<1>2. PICK n \in Nat : n = Len(f[d]) /\ DOMAIN f[d] = 1..n
  BY <1>1
<1>3. \A i \in DOMAIN f[d] : f[d][i] \in Entries
  BY <1>1
<1> QED
  BY <1>1, <1>2, <1>3 DEF Entries, Settings, LoggerData

\* One entry of a list is set.
LEMMA EntrySet ==
    ASSUME NEW list \in Seq(Entries), NEW no \in DOMAIN list, NEW s \in Settings,
           NEW q, q = [list EXCEPT ![no].setting = s]
    PROVE  /\ q \in Seq(Entries) /\ DOMAIN q = DOMAIN list
           /\ q[no].logger = list[no].logger /\ q[no].setting = s
           /\ \A i \in DOMAIN list \ {no} : q[i] = list[i]
<1>1. PICK n \in Nat : DOMAIN list = 1..n
  OBVIOUS
<1>2. \A i \in DOMAIN list : list[i] \in Entries
  OBVIOUS
<1>3. /\ DOMAIN q = 1..n /\ q = [i \in 1..n |-> q[i]]
      /\ q[no] = [list[no] EXCEPT !.setting = s]
      /\ \A i \in DOMAIN list \ {no} : q[i] = list[i]
  BY <1>1
<1>4. q[no] = LoggerData(list[no].logger, s) /\ q[no] \in Entries
  BY <1>2, <1>3 DEF Entries, LoggerData
<1>5. \A i \in 1..n : q[i] \in Entries
  BY <1>1, <1>2, <1>3, <1>4
<1>6. q \in Seq(Entries)
  BY <1>3, <1>5, SMTT(30)
<1>7. q[no].logger = list[no].logger /\ q[no].setting = s
  BY <1>4 DEF LoggerData
<1> QED
  BY <1>1, <1>3, <1>6, <1>7

\* Domain::SetVerbosity leaves the loggers where they are, and keeps the order of priorities on
\* the way down: where its recursion stops, everything below is of higher priority.
LEMMA SetVerbosityKeeps ==
    ASSUME Typed, NEW f \in Forests, Aligned(f, existing), Monotone(f, existing),
           NEW d \in existing, NEW no \in DOMAIN f[d], NEW s \in Settings,
           NEW g, g = SetVerbosity(f, d, no, s)
    PROVE  /\ g \in Forests /\ Raised(f, g) /\ Monotone(g, existing)
           /\ f[d][no].setting.priority <= s.priority => g[d][no].setting = s
<1> DEFINE A == Affected(f, d, no, s)
           pri(x) == f[x][no].setting.priority
<1>1. /\ d \in Domains /\ d \in Within[d] /\ existing \subseteq Domains
      /\ \A e \in existing : \A x, y \in Within[e] : x \in Within[y] \/ y \in Within[x]
      /\ \A e \in existing : \A x \in Within[e] : Within[x] \subseteq Within[e] /\ x \in Domains
      /\ \A e \in existing : e \in Within[e]
  BY TreeAssumption DEF Typed
<1>2. \A e \in Domains : e \in A <=>
        /\ e \in existing /\ d \in Within[e]
        /\ \A x \in existing : d \in Within[x] /\ x \in Within[e] => pri(x) <= s.priority
  BY DEF Affected, Below, Typed
<1>3. ASSUME NEW e \in existing, d \in Within[e]
      PROVE  no \in DOMAIN f[e] /\ pri(e) \in Int
  <2>1. RootOf(e) = RootOf(d)
    BY <1>1, <1>3, RootFacts
  <2>2. no \in DOMAIN f[e]
    BY <1>1, <2>1 DEF Aligned
  <2> QED
    BY <1>1, <2>2, EntryFacts
<1>4. s.priority \in Int
  BY DEF Settings
<1>5. /\ g = [e \in Domains |-> g[e]]
      /\ \A e \in A : g[e] = [f[e] EXCEPT ![no].setting = s]
      /\ \A e \in Domains \ A : g[e] = f[e]
  <2>1. A \subseteq Domains
    BY <1>1 DEF Affected
  <2> QED
    BY <2>1 DEF SetVerbosity
<1>6. ASSUME NEW e \in A
      PROVE  /\ e \in existing /\ no \in DOMAIN f[e]
             /\ g[e] \in Seq(Entries) /\ DOMAIN g[e] = DOMAIN f[e]
             /\ g[e][no].logger = f[e][no].logger /\ g[e][no].setting = s
             /\ \A i \in DOMAIN f[e] \ {no} : g[e][i] = f[e][i]
             /\ pri(e) <= s.priority
  <2>1. e \in existing /\ d \in Within[e] /\ e \in Domains
    BY <1>1, <1>2 DEF Affected
  <2>2. no \in DOMAIN f[e] /\ f[e] \in Seq(Entries)
    BY <1>3, <2>1, EntryFacts
  <2>3. g[e] = [f[e] EXCEPT ![no].setting = s]
    BY <1>5
  <2>4. pri(e) <= s.priority
    BY <1>1, <1>2, <2>1
  <2> QED
    BY <2>1, <2>2, <2>3, <2>4, EntrySet
<1> HIDE DEF A
<1>7. g \in Forests
  <2>1. \A e \in Domains : g[e] \in Seq(Entries)
    BY <1>5, <1>6, EntryFacts
  <2> QED
    BY <1>5, <2>1 DEF Forests
<1>8. Raised(f, g)
  <2>1. ASSUME NEW e \in Domains
        PROVE  DOMAIN g[e] = DOMAIN f[e]
    BY <1>5, <1>6
  <2>2. ASSUME NEW e \in Domains, NEW i \in DOMAIN f[e]
        PROVE  /\ g[e][i].logger = f[e][i].logger
               /\ f[e][i].setting.priority <= g[e][i].setting.priority
    <3>1. f[e][i].setting.priority \in Int
      BY EntryFacts
    <3>2. CASE e \in A /\ i = no
      BY <1>6, <3>2
    <3>3. CASE ~(e \in A /\ i = no)
      <4>1. g[e][i] = f[e][i]
        BY <1>5, <1>6, <3>3
      <4> QED
        BY <3>1, <4>1
    <3> QED
      BY <3>2, <3>3
  <2> QED
    BY <2>1, <2>2 DEF Raised
<1>9. Monotone(g, existing)
  <2>1. ASSUME NEW e \in existing, NEW x \in existing \cap Within[e], NEW i \in DOMAIN g[e]
        PROVE  g[x][i].setting.priority <= g[e][i].setting.priority
    <3>1. e \in Domains /\ x \in Domains /\ i \in DOMAIN f[e] /\ i \in DOMAIN f[x]
      <4>1. e \in Domains /\ x \in Domains /\ RootOf(x) = RootOf(e) /\ DOMAIN g[e] = DOMAIN f[e]
        BY <1>1, <1>8, RootFacts DEF Raised
      <4> QED
        BY <4>1 DEF Aligned
    <3>2. f[x][i].setting.priority <= f[e][i].setting.priority
      BY <3>1 DEF Monotone
    <3>3. f[x][i].setting.priority \in Int /\ f[e][i].setting.priority \in Int
      BY <3>1, EntryFacts
    <3>4. CASE i # no
      <4>1. g[x][i] = f[x][i] /\ g[e][i] = f[e][i]
        BY <1>5, <1>6, <3>1, <3>4
      <4> QED
        BY <3>2, <4>1
    <3>5. CASE i = no /\ x \in A /\ e \in A
      BY <1>4, <1>6, <3>5
    <3>6. CASE i = no /\ x \notin A /\ e \notin A
      <4>1. g[x][i] = f[x][i] /\ g[e][i] = f[e][i]
        BY <1>5, <3>1, <3>6
      <4> QED
        BY <3>2, <4>1
    <3>7. CASE i = no /\ x \in A /\ e \notin A
      <4>1. d \in Within[x] /\ x \in Within[e] /\ d \in Within[e]
        BY <1>1, <1>2, <3>1, <3>7
      <4>2. PICK y \in existing : d \in Within[y] /\ y \in Within[e] /\ ~(pri(y) <= s.priority)
        BY <1>2, <3>1, <3>7, <4>1
      <4>3. y \notin Within[x]
        BY <1>2, <3>1, <3>7, <4>2
      <4>4. no \in DOMAIN f[e] /\ pri(y) <= pri(e) /\ pri(y) \in Int /\ pri(e) \in Int
        BY <1>3, <3>1, <3>7, <4>1, <4>2 DEF Monotone
      <4>5. s.priority <= pri(e)
        BY <1>4, <4>2, <4>4
      <4> QED
        BY <1>5, <1>6, <3>1, <3>7, <4>5
    <3>8. CASE i = no /\ x \notin A /\ e \in A
      <4>1. pri(x) <= s.priority
        <5>1. d \in Within[e] /\ pri(d) <= s.priority
          BY <1>1, <1>2, <3>1, <3>8
        <5>2. CASE x \in Within[d]
          <6>1. pri(x) <= pri(d) /\ pri(d) \in Int
            BY <1>1, <1>3, <5>2 DEF Monotone
          <6> QED
            BY <1>4, <3>3, <3>8, <5>1, <6>1
        <5>3. CASE d \in Within[x]
          BY <1>1, <1>2, <2>1, <3>1, <3>8, <5>3
        <5> QED
          BY <1>1, <5>1, <5>2, <5>3
      <4> QED
        BY <1>5, <1>6, <3>1, <3>8, <4>1
    <3> QED
      BY <3>4, <3>5, <3>6, <3>7, <3>8
  <2> QED
    BY <2>1 DEF Monotone
<1>10. ASSUME f[d][no].setting.priority <= s.priority
       PROVE  g[d][no].setting = s
  <2>1. ASSUME NEW x \in existing, d \in Within[x], x \in Within[d]
        PROVE  x = d
    BY <1>1, <2>1, TreeAssumption DEF Typed
  <2>2. d \in A
    BY <1>1, <1>2, <1>10, <2>1
  <2> QED
    BY <1>6, <2>2
<1> QED
  BY <1>7, <1>8, <1>9, <1>10

\* What a raised forest has in common with the one before.
LEMMA RaisedKeeps ==
    ASSUME NEW f, NEW g, Raised(f, g)
    PROVE  /\ \A d \in Domains : \A l : Has(g, d, l) <=> Has(f, d, l)
           /\ \A d \in Domains : \A n : HasName(g, d, n) <=> HasName(f, d, n)
           /\ \A E \in SUBSET Domains : Aligned(f, E) => Aligned(g, E)
           /\ \A acquired : Known(f, acquired) => Known(g, acquired)
<1>1. \A d \in Domains : /\ \A l : Has(g, d, l) <=> Has(f, d, l)
                         /\ \A n : HasName(g, d, n) <=> HasName(f, d, n)
  BY DEF Raised, Has, HasName
<1>2. ASSUME NEW E \in SUBSET Domains, Aligned(f, E)
      PROVE  Aligned(g, E)
  <2>1. \A d \in E : d \in Domains /\ RootOf(d) \in Domains
    BY RootFacts
  <2>2. \A d \in Domains : /\ DOMAIN g[d] = DOMAIN f[d]
                           /\ \A i \in DOMAIN f[d] : g[d][i].logger = f[d][i].logger
    BY DEF Raised
  <2> QED
    BY <1>2, <2>1, <2>2 DEF Aligned
<1>3. \A acquired : Known(f, acquired) => Known(g, acquired)
  <2>1. \A r \in Roots : r \in Domains
    BY RootFacts
  <2> QED
    BY <1>1, <2>1 DEF Known
<1> QED
  BY <1>1, <1>2, <1>3

\* A list without its entry number no.
LEMMA WithoutFacts ==
    ASSUME NEW list \in Seq(Entries), NEW n \in Nat, n = Len(list), NEW no \in 1..n
    PROVE  /\ Without(list, no) \in Seq(Entries) /\ DOMAIN Without(list, no) = 1..(n - 1)
           /\ \A i \in 1..(n - 1) :
                Without(list, no)[i] = IF i < no THEN list[i] ELSE list[i + 1]
<1> DEFINE front == SubSeq(list, 1, no - 1)
           rest  == SubSeq(list, no + 1, n)
<1>1. /\ front \in Seq(Entries) /\ Len(front) = no - 1
      /\ \A j \in 1..(no - 1) : front[j] = list[j]
  BY SubSeqProperties
<1>2. /\ rest \in Seq(Entries) /\ Len(rest) = n - no
      /\ \A j \in 1..(n - no) : rest[j] = list[no + j]
  BY SubSeqProperties
<1>3. Without(list, no) = front \o rest
  BY DEF Without
<1> HIDE DEF front, rest
<1>4. /\ Without(list, no) \in Seq(Entries)
      /\ Len(Without(list, no)) = Len(front) + Len(rest)
      /\ \A j \in 1..(Len(front) + Len(rest)) :
            Without(list, no)[j] = IF j <= Len(front) THEN front[j] ELSE rest[j - Len(front)]
  BY <1>1, <1>2, <1>3, ConcatProperties, SMTT(40)
<1>5. Len(front) + Len(rest) = n - 1
  BY <1>1, <1>2
<1>6. ASSUME NEW i \in 1..(n - 1)
      PROVE  Without(list, no)[i] = IF i < no THEN list[i] ELSE list[i + 1]
  <2>1. Without(list, no)[i] = IF i <= no - 1 THEN front[i] ELSE rest[i - (no - 1)]
    BY <1>1, <1>4, <1>5
  <2>2. CASE i < no
    <3>1. i <= no - 1 /\ i \in 1..(no - 1)
      BY <2>2
    <3> QED
      BY <1>1, <2>1, <2>2, <3>1
  <2>3. CASE ~(i < no)
    <3>1. i - (no - 1) \in 1..(n - no) /\ no + (i - (no - 1)) = i + 1 /\ ~(i <= no - 1)
      BY <2>3
    <3> QED
      BY <1>2, <2>1, <2>3, <3>1
  <2> QED
    BY <2>2, <2>3
<1>7. DOMAIN Without(list, no) = 1..(n - 1)
  <2>1. PICK m \in Nat : m = Len(Without(list, no)) /\ DOMAIN Without(list, no) = 1..m
    BY <1>4
  <2> QED
    BY <1>4, <1>5, <2>1
<1> QED
  BY <1>4, <1>6, <1>7

\* Domain::AddLogger: a logger whose name the tree does not have is appended to all domains of
\* the tree, at the lowest priority there is.
LEMMA AddLoggerKeeps ==
    ASSUME Typed, Aligned(data, existing), Monotone(data, existing),
           NEW r \in Roots, NEW l \in Loggers, ~HasName(data, r, NameOf[l]),
           NEW g, g = AddLogger(r, l)
    PROVE  /\ g \in Forests /\ Aligned(g, existing) /\ Monotone(g, existing)
           /\ Len(data[r]) + 1 \in DOMAIN g[r] /\ g[r][Len(data[r]) + 1].logger = l
           /\ \A e \in existing : r \in Within[e] =>
                /\ DOMAIN g[e] = DOMAIN data[e] \cup {Len(data[r]) + 1}
                /\ Len(data[r]) + 1 \notin DOMAIN data[e]
                /\ g[e][Len(data[r]) + 1] = LoggerData(l, Fresh)
                /\ \A i \in DOMAIN data[e] : g[e][i] = data[e][i]
           /\ \A e \in Domains : r \notin Within[e] => g[e] = data[e]
<1>1. /\ r \in existing /\ r \in Domains /\ RootOf(r) = r
      /\ data \in Forests /\ existing \subseteq Domains
  BY RootFacts DEF Typed
<1>2. PICK n \in Nat : n = Len(data[r]) /\ DOMAIN data[r] = 1..n
  BY <1>1, EntryFacts
<1>3. LoggerData(l, Fresh) \in Entries
  BY DEF LoggerData, Fresh, Setting, Entries, Settings, Verbosities
<1>4. /\ g = [e \in Domains |-> g[e]]
      /\ \A e \in existing : r \in Within[e] => g[e] = Append(data[e], LoggerData(l, Fresh))
      /\ \A e \in Domains : ~(e \in existing /\ r \in Within[e]) => g[e] = data[e]
  BY <1>1 DEF AddLogger, Below
<1>5. ASSUME NEW e \in existing, r \in Within[e]
      PROVE  /\ g[e] \in Seq(Entries) /\ RootOf(e) = r
             /\ DOMAIN data[e] = 1..n /\ DOMAIN g[e] = 1..(n + 1)
             /\ g[e][n + 1] = LoggerData(l, Fresh)
             /\ \A i \in 1..n : g[e][i] = data[e][i]
  <2>1. e \in Domains /\ RootOf(e) = r
    BY <1>1, <1>5, RootFacts
  <2>2. DOMAIN data[e] = 1..n
    BY <1>2, <2>1 DEF Aligned
  <2>3. PICK list \in Seq(Entries), x \in Entries : list = data[e] /\ x = LoggerData(l, Fresh)
    BY <1>1, <1>3, <2>1, EntryFacts
  <2>4. Len(list) = n
    <3>1. PICK m \in Nat : m = Len(list) /\ DOMAIN list = 1..m
      BY <2>3
    <3>2. \A i \in Nat : i \in 1..m <=> i \in 1..n
      BY <2>2, <2>3, <3>1
    <3>3. m <= n /\ n <= m
      BY <3>2
    <3> QED
      BY <3>1, <3>3
  <2>5. g[e] = Append(list, x)
    BY <1>4, <1>5, <2>3
  <2>6. /\ Append(list, x) \in Seq(Entries) /\ Len(Append(list, x)) = n + 1
        /\ \A i \in 1..n : Append(list, x)[i] = list[i]
        /\ Append(list, x)[n + 1] = x
    BY <2>4, AppendProperties
  <2>7. DOMAIN Append(list, x) = 1..(n + 1)
    BY <2>6
  <2> QED
    BY <2>1, <2>2, <2>3, <2>5, <2>6, <2>7
<1>6. g \in Forests
  <2>1. \A e \in Domains : g[e] \in Seq(Entries)
    BY <1>1, <1>4, <1>5, EntryFacts
  <2> QED
    BY <1>4, <2>1 DEF Forests
<1>7. ASSUME NEW e \in Domains, r \notin Within[e]
      PROVE  g[e] = data[e] /\ r \notin Within[RootOf(e)]
  BY <1>4, <1>7, TreeAssumption, RootFacts
<1>8. Aligned(g, existing)
  <2>1. ASSUME NEW e \in existing, r \notin Within[e]
        PROVE  g[e] = data[e] /\ g[RootOf(e)] = data[RootOf(e)]
    BY <1>1, <1>7, <2>1, RootFacts
  <2>2. ASSUME NEW e \in existing, r \in Within[e]
        PROVE  /\ DOMAIN g[e] = DOMAIN g[r]
               /\ \A i \in DOMAIN g[e] : g[e][i].logger = g[r][i].logger
               /\ \A i, j \in DOMAIN g[e] :
                     NameOf[g[e][i].logger] = NameOf[g[e][j].logger] => i = j
    <3>1. r \in Within[r] /\ RootOf(e) = r
      BY <1>1, <1>5, <2>2, TreeAssumption
    <3>2. /\ \A i \in 1..n : data[e][i].logger = data[r][i].logger
          /\ \A i, j \in 1..n : NameOf[data[e][i].logger] = NameOf[data[e][j].logger] => i = j
      BY <1>5, <2>2, <3>1 DEF Aligned
    <3>3. \A i \in 1..n : NameOf[data[e][i].logger] # NameOf[l]
      BY <1>2, <3>2 DEF HasName
    <3>4. \A i \in 1..(n + 1) : i \in 1..n \/ i = n + 1
      OBVIOUS
    <3>5. g[e][n + 1].logger = l /\ g[r][n + 1].logger = l
      BY <1>1, <1>5, <2>2, <3>1 DEF LoggerData
    <3>6. ASSUME NEW i \in 1..(n + 1)
          PROVE  g[e][i].logger = g[r][i].logger
      <4>1. CASE i \in 1..n
        BY <1>1, <1>5, <2>2, <3>1, <3>2, <4>1
      <4> QED
        BY <3>4, <3>5, <4>1
    <3>7. ASSUME NEW i \in 1..(n + 1), NEW j \in 1..(n + 1),
                 NameOf[g[e][i].logger] = NameOf[g[e][j].logger]
          PROVE  i = j
      <4>1. \A k \in 1..n : g[e][k] = data[e][k]
        BY <1>5, <2>2
      <4>2. CASE i \in 1..n /\ j \in 1..n
        BY <3>2, <3>7, <4>1, <4>2
      <4>3. CASE i \in 1..n /\ j = n + 1
        BY <3>3, <3>5, <3>7, <4>1, <4>3
      <4>4. CASE i = n + 1 /\ j \in 1..n
        BY <3>3, <3>5, <3>7, <4>1, <4>4
      <4> QED
        BY <3>4, <4>2, <4>3, <4>4
    <3>8. DOMAIN g[e] = 1..(n + 1) /\ DOMAIN g[r] = 1..(n + 1)
      BY <1>1, <1>5, <2>2, <3>1
    <3> QED
      BY <3>6, <3>7, <3>8
  <2> QED
    BY <1>5, <2>1, <2>2 DEF Aligned
<1>9. Monotone(g, existing)
  <2>1. ASSUME NEW e \in existing, NEW x \in existing \cap Within[e], NEW i \in DOMAIN g[e]
        PROVE  g[x][i].setting.priority <= g[e][i].setting.priority
    <3>1. r \in Within[x] <=> r \in Within[e]
      <4>1. e \in Domains /\ x \in Domains /\ RootOf(x) = RootOf(e)
        BY <1>1, RootFacts
      <4>2. Within[r] = {r} /\ \A y \in Domains : r \in Within[y] => RootOf(y) = r
        BY <1>1, RootFacts, TreeAssumption
      <4> QED
        BY <1>1, <4>1, <4>2, RootFacts
    <3>2. CASE r \notin Within[e]
      BY <1>1, <1>7, <2>1, <3>1, <3>2 DEF Monotone
    <3>3. CASE r \in Within[e] /\ i \in 1..n
      BY <1>5, <2>1, <3>1, <3>3 DEF Monotone
    <3>4. CASE r \in Within[e] /\ i = n + 1
      BY <1>5, <2>1, <3>1, <3>4 DEF LoggerData, Fresh, Setting
    <3>5. \A k \in 1..(n + 1) : k \in 1..n \/ k = n + 1
      OBVIOUS
    <3> QED
      BY <1>5, <2>1, <3>2, <3>3, <3>4, <3>5
  <2> QED
    BY <2>1 DEF Monotone
<1>10. r \in Within[r]
  BY <1>1, TreeAssumption
<1>11. DOMAIN g[r] = 1..(n + 1) /\ g[r][n + 1].logger = l
  BY <1>1, <1>5, <1>10 DEF LoggerData
<1>12. n + 1 \in 1..(n + 1) /\ n + 1 \notin 1..n /\ 1..(n + 1) = 1..n \cup {n + 1}
  OBVIOUS
<1> QED
  BY <1>2, <1>5, <1>6, <1>7, <1>8, <1>9, <1>11, <1>12

\* Domain::RemoveLogger: the same number is taken out of all domains of the tree.
LEMMA RemoveLoggerKeeps ==
    ASSUME Typed, NEW f \in Forests, Aligned(f, existing), Monotone(f, existing),
           NEW r \in Roots, NEW no \in DOMAIN f[r] \cup {0}, NEW g, g = RemoveLogger(f, r, no)
    PROVE  /\ g \in Forests /\ Aligned(g, existing) /\ Monotone(g, existing)
           /\ \A e \in Domains : r \notin Within[e] => g[e] = f[e]
           /\ \A e \in existing : \A i \in DOMAIN g[e] : \E j \in DOMAIN f[e] : g[e][i] = f[e][j]
           /\ no # 0 => \A e \in existing : r \in Within[e] =>
                /\ \A i \in DOMAIN g[e] : \E j \in DOMAIN f[e] \ {no} : g[e][i] = f[e][j]
                /\ \A j \in DOMAIN f[e] \ {no} : \E i \in DOMAIN g[e] : g[e][i] = f[e][j]
           /\ IF no = 0 THEN g = f
                        ELSE \A l : Has(g, r, l) <=> Has(f, r, l) /\ l # f[r][no].logger
<1>1. /\ r \in existing /\ r \in Domains /\ RootOf(r) = r /\ r \in Within[r]
      /\ existing \subseteq Domains
  BY RootFacts, TreeAssumption DEF Typed
<1>2. f = [e \in Domains |-> f[e]]
  BY DEF Forests
<1>3. CASE no = 0
  <2>1. g = f
    BY <1>2, <1>3 DEF RemoveLogger
  <2> QED
    BY <1>3, <2>1
<1>4. CASE no # 0
  <2>1. PICK n \in Nat : n = Len(f[r]) /\ DOMAIN f[r] = 1..n
    BY <1>1, EntryFacts
  <2>2. no \in 1..n
    BY <1>4, <2>1
  <2>3. /\ g = [e \in Domains |-> g[e]]
        /\ \A e \in existing : r \in Within[e] => g[e] = Without(f[e], no)
        /\ \A e \in Domains : ~(e \in existing /\ r \in Within[e]) => g[e] = f[e]
    BY <1>1, <1>4 DEF RemoveLogger, Below
  <2>4. ASSUME NEW e \in existing, r \in Within[e]
        PROVE  /\ g[e] \in Seq(Entries) /\ RootOf(e) = r
               /\ DOMAIN f[e] = 1..n /\ DOMAIN g[e] = 1..(n - 1)
               /\ \A i \in 1..(n - 1) : g[e][i] = IF i < no THEN f[e][i] ELSE f[e][i + 1]
    <3>1. e \in Domains /\ RootOf(e) = r
      BY <1>1, <2>4, RootFacts
    <3>2. DOMAIN f[e] = 1..n
      BY <2>1, <3>1 DEF Aligned
    <3>3. PICK list \in Seq(Entries), m \in Nat :
            list = f[e] /\ m = Len(list) /\ DOMAIN list = 1..m
      BY <3>1, EntryFacts
    <3>4. m = n
      <4>1. \A i \in Nat : i \in 1..m <=> i \in 1..n
        BY <3>2, <3>3
      <4>2. m <= n /\ n <= m
        BY <4>1, SMTT(30)
      <4> QED
        BY <4>2
    <3>5. /\ Without(list, no) \in Seq(Entries) /\ DOMAIN Without(list, no) = 1..(n - 1)
          /\ \A i \in 1..(n - 1) :
               Without(list, no)[i] = IF i < no THEN list[i] ELSE list[i + 1]
      BY <2>2, <3>3, <3>4, WithoutFacts
    <3> QED
      BY <2>3, <2>4, <3>1, <3>2, <3>3, <3>5
  <2>5. PICK old \in [1..(n - 1) -> 1..n] :
          \A i \in 1..(n - 1) : old[i] = IF i < no THEN i ELSE i + 1
    <3>1. [i \in 1..(n - 1) |-> IF i < no THEN i ELSE i + 1] \in [1..(n - 1) -> 1..n]
      BY <2>2
    <3> QED
      BY <3>1
  <2>6. /\ \A i, j \in 1..(n - 1) : old[i] = old[j] => i = j
        /\ \A j \in 1..n : j # no <=> \E i \in 1..(n - 1) : old[i] = j
    <3>1. ASSUME NEW i \in 1..(n - 1), NEW j \in 1..(n - 1), old[i] = old[j]
          PROVE  i = j
      BY <2>2, <2>5, <3>1
    <3>2. ASSUME NEW j \in 1..n, j # no
          PROVE  \E i \in 1..(n - 1) : old[i] = j
      <4>1. CASE j < no
        BY <2>2, <2>5, <4>1
      <4>2. CASE ~(j < no)
        <5>1. j - 1 \in 1..(n - 1) /\ ~(j - 1 < no) /\ (j - 1) + 1 = j
          BY <2>2, <3>2, <4>2
        <5> QED
          BY <2>5, <5>1
      <4> QED
        BY <4>1, <4>2
    <3>3. ASSUME NEW i \in 1..(n - 1)
          PROVE  old[i] # no
      BY <2>2, <2>5
    <3> QED
      BY <3>1, <3>2, <3>3
  <2>7. ASSUME NEW e \in existing, r \in Within[e]
        PROVE  \A i \in 1..(n - 1) : g[e][i] = f[e][old[i]] /\ old[i] \in DOMAIN f[e]
    BY <2>4, <2>5, <2>7
  <2>8. g \in Forests
    <3>1. \A e \in Domains : g[e] \in Seq(Entries)
      BY <2>3, <2>4, EntryFacts
    <3> QED
      BY <2>3, <3>1 DEF Forests
  <2>9. ASSUME NEW e \in Domains, r \notin Within[e]
        PROVE  g[e] = f[e] /\ r \notin Within[RootOf(e)]
    BY <2>3, <2>9, TreeAssumption, RootFacts
  <2>10. Aligned(g, existing)
    <3>1. ASSUME NEW e \in existing, r \notin Within[e]
          PROVE  g[e] = f[e] /\ g[RootOf(e)] = f[RootOf(e)]
      BY <1>1, <2>9, <3>1, RootFacts
    <3>2. ASSUME NEW e \in existing, r \in Within[e]
          PROVE  /\ DOMAIN g[e] = DOMAIN g[r]
                 /\ \A i \in DOMAIN g[e] : g[e][i].logger = g[r][i].logger
                 /\ \A i, j \in DOMAIN g[e] :
                       NameOf[g[e][i].logger] = NameOf[g[e][j].logger] => i = j
      <4>1. /\ RootOf(e) = r /\ DOMAIN g[e] = 1..(n - 1) /\ DOMAIN g[r] = 1..(n - 1)
            /\ \A i \in 1..(n - 1) :
                 g[e][i] = f[e][old[i]] /\ g[r][i] = f[r][old[i]] /\ old[i] \in DOMAIN f[e]
        BY <1>1, <2>4, <2>7, <3>2
      <4>2. /\ \A i \in DOMAIN f[e] : f[e][i].logger = f[r][i].logger
            /\ \A i, j \in DOMAIN f[e] : NameOf[f[e][i].logger] = NameOf[f[e][j].logger] => i = j
        BY <4>1 DEF Aligned
      <4>3. ASSUME NEW i \in 1..(n - 1), NEW j \in 1..(n - 1),
                   NameOf[g[e][i].logger] = NameOf[g[e][j].logger]
            PROVE  i = j
        BY <2>6, <4>1, <4>2, <4>3
      <4>4. ASSUME NEW i \in 1..(n - 1)
            PROVE  g[e][i].logger = g[r][i].logger
        BY <4>1, <4>2, SMTT(30)
      <4> QED
        BY <4>1, <4>3, <4>4
    <3> QED
      BY <2>4, <3>1, <3>2 DEF Aligned
  <2>11. Monotone(g, existing)
    <3>1. ASSUME NEW e \in existing, NEW x \in existing \cap Within[e], NEW i \in DOMAIN g[e]
          PROVE  g[x][i].setting.priority <= g[e][i].setting.priority
      <4>1. r \in Within[x] <=> r \in Within[e]
        <5>1. e \in Domains /\ x \in Domains /\ RootOf(x) = RootOf(e)
          BY <1>1, RootFacts
        <5>2. \A y \in Domains : r \in Within[y] => RootOf(y) = r
          BY <1>1, RootFacts
        <5> QED
          BY <5>1, <5>2, RootFacts
      <4>2. CASE r \notin Within[e]
        BY <1>1, <2>9, <3>1, <4>1, <4>2 DEF Monotone
      <4>3. CASE r \in Within[e]
        BY <2>4, <2>7, <3>1, <4>1, <4>3, SMTT(30) DEF Monotone
      <4> QED
        BY <4>2, <4>3
    <3> QED
      BY <3>1 DEF Monotone
  <2>12. ASSUME NEW l
         PROVE  Has(g, r, l) <=> Has(f, r, l) /\ l # f[r][no].logger
    <3>1. /\ DOMAIN f[r] = 1..n /\ DOMAIN g[r] = 1..(n - 1)
          /\ \A i \in 1..(n - 1) : g[r][i] = f[r][old[i]] /\ old[i] \in 1..n
      BY <1>1, <2>4, <2>7
    <3>2. \A i, j \in 1..n : NameOf[f[r][i].logger] = NameOf[f[r][j].logger] => i = j
      BY <1>1, <3>1 DEF Aligned
    <3>3. ASSUME Has(g, r, l)
          PROVE  Has(f, r, l) /\ l # f[r][no].logger
      <4>1. PICK i \in 1..(n - 1) : g[r][i].logger = l
        BY <3>1, <3>3 DEF Has
      <4>2. PICK j \in 1..n : j = old[i] /\ f[r][j].logger = l /\ j # no
        BY <2>6, <3>1, <4>1
      <4> QED
        BY <2>2, <3>1, <3>2, <4>2 DEF Has
    <3>4. ASSUME Has(f, r, l), l # f[r][no].logger
          PROVE  Has(g, r, l)
      <4>1. PICK j \in 1..n : f[r][j].logger = l /\ j # no
        BY <3>1, <3>4 DEF Has
      <4>2. PICK i \in 1..(n - 1) : old[i] = j
        BY <2>6, <4>1
      <4>3. g[r][i].logger = l
        BY <3>1, <4>1, <4>2
      <4> QED
        BY <3>1, <4>3 DEF Has
    <3> QED
      BY <3>3, <3>4
  <2>13. ASSUME NEW e \in existing, NEW i \in DOMAIN g[e]
         PROVE  \E j \in DOMAIN f[e] : g[e][i] = f[e][j]
    <3>1. CASE r \in Within[e]
      BY <2>4, <2>7, <3>1
    <3>2. CASE r \notin Within[e]
      BY <1>1, <2>9, <3>2
    <3> QED
      BY <3>1, <3>2
  <2>14. ASSUME NEW e \in existing, r \in Within[e]
         PROVE  /\ \A i \in DOMAIN g[e] : \E j \in DOMAIN f[e] \ {no} : g[e][i] = f[e][j]
                /\ \A j \in DOMAIN f[e] \ {no} : \E i \in DOMAIN g[e] : g[e][i] = f[e][j]
    <3>1. DOMAIN f[e] = 1..n /\ DOMAIN g[e] = 1..(n - 1)
      BY <2>4, <2>14
    <3>2. \A i \in 1..(n - 1) : g[e][i] = f[e][old[i]] /\ old[i] \in 1..n /\ old[i] # no
      BY <2>6, <2>7, <2>14, <3>1
    <3>3. ASSUME NEW i \in 1..(n - 1)
          PROVE  \E j \in 1..n \ {no} : g[e][i] = f[e][j]
      BY <3>2
    <3>4. ASSUME NEW j \in 1..n \ {no}
          PROVE  \E i \in 1..(n - 1) : g[e][i] = f[e][j]
      <4>1. PICK i \in 1..(n - 1) : old[i] = j
        BY <2>6
      <4> QED
        BY <3>2, <4>1
    <3> QED
      BY <3>1, <3>3, <3>4
  <2> QED
    BY <1>4, <2>8, <2>9, <2>10, <2>11, <2>12, <2>13, <2>14
<1> QED
  BY <1>3, <1>4

\* A new domain has the loggers of its parent, at no lower priorities; what the configuration
\* knows of it is set.
LEMMA ConfiguredFacts ==
    ASSUME NEW list \in Seq(Entries), NEW c \in Domains
    PROVE  /\ ConfiguredData(list, c) \in Seq(Entries)
           /\ DOMAIN ConfiguredData(list, c) = DOMAIN list
           /\ \A i \in DOMAIN list :
                /\ ConfiguredData(list, c)[i].logger = list[i].logger
                /\ list[i].setting.priority <= ConfiguredData(list, c)[i].setting.priority
                /\ Config[NameOf[list[i].logger]][c] # NoRule =>
                     ConfiguredData(list, c)[i].setting.priority >= ConfigPriority
<1>1. PICK n \in Nat : DOMAIN list = 1..n
  OBVIOUS
<1>2. PICK q : q = ConfiguredData(list, c)
  OBVIOUS
<1>3. q = [i \in 1..n |-> q[i]]
  BY <1>1, <1>2 DEF ConfiguredData
<1>4. ASSUME NEW i \in 1..n
      PROVE  /\ q[i] \in Entries /\ q[i].logger = list[i].logger
             /\ list[i].setting.priority <= q[i].setting.priority
             /\ Config[NameOf[list[i].logger]][c] # NoRule =>
                  q[i].setting.priority >= ConfigPriority
  <2>1. PICK l \in Loggers, s \in Settings : list[i] = LoggerData(l, s) /\ list[i] \in Entries
    <3>1. list[i] \in Entries
      BY <1>1
    <3> QED
      BY <3>1 DEF Entries, LoggerData
  <2>2. list[i].logger = l /\ list[i].setting = s /\ s.priority \in Int
    BY <2>1 DEF LoggerData, Settings
  <2>3. PICK rule : rule = FromConfig(l, c, s.priority)
    OBVIOUS
  <2>4. q[i] = IF rule # NotAttached /\ rule.priority >= s.priority
                 THEN LoggerData(l, rule) ELSE list[i]
    BY <1>1, <1>2, <2>2, <2>3 DEF ConfiguredData
  <2>5. CASE Config[NameOf[l]][c] = NoRule \/ s.priority = PrioProtected
    <3>1. rule = NotAttached
      BY <2>3, <2>5 DEF FromConfig
    <3> QED
      BY <2>1, <2>2, <2>4, <2>5, <3>1, PriorityAssumption
  <2>6. CASE ~(Config[NameOf[l]][c] = NoRule \/ s.priority = PrioProtected)
    <3>1. rule = Setting(Config[NameOf[l]][c], ConfigPriority) /\ rule \in Settings
      BY <2>3, <2>6, SettingsAssumption, PriorityAssumption DEF FromConfig, Setting, Settings, Names
    <3>2. rule # NotAttached /\ rule.priority = ConfigPriority
      BY <3>1, SettingsAssumption DEF Setting, Settings
    <3>3. CASE ConfigPriority >= s.priority
      <4>1. q[i] = LoggerData(l, rule) /\ q[i] \in Entries
        BY <2>4, <3>1, <3>2, <3>3 DEF LoggerData, Entries
      <4>2. q[i].logger = l /\ q[i].setting = rule
        BY <4>1 DEF LoggerData
      <4> QED
        BY <2>2, <3>2, <3>3, <4>1, <4>2, PriorityAssumption
    <3>4. CASE ~(ConfigPriority >= s.priority)
      BY <2>1, <2>2, <2>4, <3>2, <3>4, PriorityAssumption
    <3> QED
      BY <3>3, <3>4
  <2> QED
    BY <2>5, <2>6
<1>5. q \in Seq(Entries) /\ DOMAIN q = 1..n
  BY <1>3, <1>4
<1> QED
  BY <1>1, <1>2, <1>4, <1>5

-----------------------------------------------------------------------------
(***************************************************************************)
(* The invariant, step by step.                                            *)
(***************************************************************************)
\* Steps that change nothing in the trees.
LEMMA TreesStay ==
    ASSUME IInv, UNCHANGED <<existing, data, registered, requests>>, calls' \in Nat,
           \A d, l : Unread(d, l) => Unread(d, l)', Calling'
    PROVE  IInv'
<1>1. Typed'
  BY DEF IInv, Typed
<1>2. Aligned(data, existing)' /\ Monotone(data, existing)' /\ Known(data, registered)'
  BY DEF IInv, Aligned, Monotone, Known, Has
<1>3. Read'
  BY DEF IInv, Read
<1> QED
  BY <1>1, <1>2, <1>3 DEF IInv

\* Steps that set verbosities.
LEMMA TreesRaised ==
    ASSUME IInv, UNCHANGED <<existing, registered, requests, calls>>,
           data' \in Forests, Raised(data, data'), Monotone(data', existing),
           \A d \in existing : \A i \in DOMAIN data[d] :
              Unread(d, data[d][i].logger) /\ Config[NameOf[data[d][i].logger]][d] # NoRule =>
                Unread(d, data[d][i].logger)' \/ data'[d][i].setting.priority >= ConfigPriority,
           Calling'
    PROVE  IInv'
<1>1. Typed'
  BY DEF IInv, Typed
<1>2. Aligned(data, existing)' /\ Monotone(data, existing)' /\ Known(data, registered)'
  <2>1. Aligned(data, existing) /\ Known(data, registered) /\ existing \in SUBSET Domains
    BY DEF IInv, Typed
  <2>2. Aligned(data', existing) /\ Known(data', registered)
    BY <2>1, RaisedKeeps
  <2> QED
    BY <2>2
<1>3. Read'
  <2>1. ASSUME NEW d \in existing, NEW i \in DOMAIN data[d]
        PROVE  /\ data'[d][i].logger = data[d][i].logger
               /\ Config[NameOf[data[d][i].logger]][d] # NoRule /\ ~Unread(d, data[d][i].logger)' =>
                    data'[d][i].setting.priority >= ConfigPriority
    <3>1. d \in Domains /\ data \in Forests
      BY DEF IInv, Typed
    <3>2. /\ i \in DOMAIN data'[d] /\ data'[d][i].logger = data[d][i].logger
          /\ data[d][i].setting.priority <= data'[d][i].setting.priority
      BY <3>1 DEF Raised
    <3>3. CASE Unread(d, data[d][i].logger)
      BY <3>2, <3>3
    <3>4. CASE ~Unread(d, data[d][i].logger) /\ Config[NameOf[data[d][i].logger]][d] # NoRule
      <4>1. data[d][i].setting.priority >= ConfigPriority
        BY <2>1, <3>4 DEF IInv, Read
      <4>2. data[d][i].setting.priority \in Int /\ data'[d][i].setting.priority \in Int
        BY <3>1, <3>2, EntryFacts
      <4> QED
        BY <3>2, <4>1, <4>2, PriorityAssumption
    <3> QED
      BY <3>2, <3>3, <3>4
  <2>2. \A d \in existing : DOMAIN data'[d] = DOMAIN data[d]
    BY DEF IInv, Typed, Raised
  <2>3. ASSUME NEW d \in existing, NEW i \in DOMAIN data'[d], NEW l, l = data'[d][i].logger,
               Config[NameOf[l]][d] # NoRule, ~Unread(d, l)'
        PROVE  data'[d][i].setting.priority >= ConfigPriority
    <3>1. i \in DOMAIN data[d] /\ l = data[d][i].logger
      BY <2>1, <2>2, <2>3
    <3> QED
      BY <2>1, <2>3, <3>1
  <2> QED
    BY <2>3 DEF Read
<1> QED
  BY <1>1, <1>2, <1>3 DEF IInv

\* A call begins with finding its domain.
LEMMA CallKeeps ==
    ASSUME IInv, NEW d \in Domains, NEW kind, NEW who, NEW s \in Settings,
           \/ kind = "logger" /\ who \in Loggers
           \/ kind = "name" /\ who \in Names
           \/ kind = "entry",
           Begin(Request(kind, who, d, s, NoOuter))
    PROVE  IInv'
<1>1. /\ op = Idle /\ UNCHANGED <<existing, data, registered, requests>>
      /\ calls > 0 /\ calls' = calls - 1
  BY DEF Begin, Called
<1>2. calls' \in Nat
  BY <1>1 DEF IInv, Typed
<1>3. \A e, l : ~Unread(e, l)
  BY <1>1 DEF Idle, Unread
<1>4. Calling'
  BY DEF Begin, Request, NoOuter, Calling
<1> QED
  BY <1>1, <1>2, <1>3, <1>4, TreesStay

\* A domain has the loggers of its root.
LEMMA SameAsRoot ==
    ASSUME NEW f, NEW E, Aligned(f, E), NEW d \in E
    PROVE  /\ \A l : Has(f, d, l) <=> Has(f, RootOf(d), l)
           /\ \A n : HasName(f, d, n) <=> HasName(f, RootOf(d), n)
BY DEF Aligned, Has, HasName

\* What the numbers of a logger, of a name, on an existing domain are.
LEMMA NumbersHere ==
    ASSUME IInv, NEW d \in existing
    PROVE  /\ 0 \notin DOMAIN data[d]
           /\ \A l \in Loggers :
                /\ LoggerNo(d, l) \in DOMAIN data[d] \cup {0}
                /\ \A i \in DOMAIN data[d] : data[d][i].logger = l <=> i = LoggerNo(d, l)
                /\ LoggerNo(d, l) # 0 <=> Has(data, d, l)
           /\ \A n :
                /\ NamedNo(d, n) \in DOMAIN data[d] \cup {0}
                /\ \A i \in DOMAIN data[d] : NameOf[data[d][i].logger] = n <=> i = NamedNo(d, n)
                /\ NamedNo(d, n) # 0 <=> HasName(data, d, n)
<1>1. data \in Forests /\ d \in Domains
  BY DEF IInv, Typed
<1>2. \A i, j \in DOMAIN data[d] : NameOf[data[d][i].logger] = NameOf[data[d][j].logger] => i = j
  BY DEF IInv, Aligned
<1> QED
  BY <1>1, <1>2, Numbers

\* A call returns, or its outer call goes on.
LEMMA Resumed ==
    ASSUME op' = Resume, op.who \in Loggers,
           op.outer.setting # NotAttached =>
             /\ op.outer.domain \in existing' /\ op.outer.setting \in Settings
             /\ HasName(data', op.outer.domain, NameOf[op.who])
    PROVE  Calling' /\ \A d, l : ~Unread(d, l)'
<1>1. CASE op.outer.setting = NotAttached
  <2>1. op' = [step |-> "none"]
    BY <1>1 DEF Resume, Idle
  <2> QED
    BY <2>1 DEF Calling, Unread
<1>2. CASE op.outer.setting # NotAttached
  <2>1. PICK who, outer : who = op.who /\ outer = op.outer
    OBVIOUS
  <2>2. op' = [step |-> "outer", who |-> who, outer |-> outer]
    BY <1>2, <2>1 DEF Resume
  <2>3. /\ op'.step = "outer" /\ op'.who = who /\ op'.outer = outer
        /\ who \in Loggers /\ outer.domain \in existing' /\ outer.setting \in Settings
        /\ HasName(data', outer.domain, NameOf[who])
    BY <1>2, <2>1, <2>2
  <2> QED
    BY <2>3 DEF Calling, Unread
<1> QED
  BY <1>1, <1>2

\* A setting by logger finds it on the domain, which exists.
LEMMA SetKnownKeeps == ASSUME IInv, SetKnown PROVE IInv'
<1>1. /\ op.step = "find" /\ op.kind = "logger" /\ op.who \in Loggers /\ op.setting \in Settings
      /\ op.domain \in existing
      /\ op.outer.setting # NotAttached =>
              /\ op.outer.domain \in existing /\ op.outer.setting \in Settings
              /\ op.domain = RootOf(op.outer.domain)
  BY DEF SetKnown, Found, IInv, Calling
<1>2. PICK d, no, s : /\ d = op.domain /\ no = LoggerNo(op.domain, op.who) /\ s = op.setting
                      /\ d \in existing /\ no # 0 /\ s \in Settings
  BY <1>1 DEF SetKnown
<1>3. no \in DOMAIN data[d] /\ Has(data, d, op.who)
  BY <1>1, <1>2, NumbersHere
<1>4. PICK g : g = SetVerbosity(data, d, no, s)
  OBVIOUS
<1>5. g \in Forests /\ Raised(data, g) /\ Monotone(g, existing)
  <2>1. Typed /\ data \in Forests /\ Aligned(data, existing) /\ Monotone(data, existing)
    BY DEF IInv, Typed
  <2> QED
    BY <1>2, <1>3, <1>4, <2>1, SetVerbosityKeeps
<1>6. data' = g /\ op' = Resume /\ UNCHANGED <<existing, registered, requests, calls>>
  BY <1>2, <1>4 DEF SetKnown
<1>7. ASSUME op.outer.setting # NotAttached
      PROVE  HasName(g, op.outer.domain, NameOf[op.who])
  <2>1. HasName(data, d, NameOf[op.who])
    BY <1>3 DEF Has, HasName
  <2>2. d = RootOf(op.outer.domain) /\ op.outer.domain \in existing
    BY <1>1, <1>2, <1>7
  <2>3. HasName(data, op.outer.domain, NameOf[op.who])
    BY <2>1, <2>2, SameAsRoot DEF IInv
  <2> QED
    BY <1>5, <2>2, <2>3, RaisedKeeps DEF IInv, Typed
<1>8. Calling' /\ \A e, l : ~Unread(e, l)
  <2>1. Calling'
    BY <1>1, <1>6, <1>7, Resumed
  <2> QED
    BY <1>1, <2>1 DEF Unread
<1> QED
  BY <1>5, <1>6, <1>8, TreesRaised

\* Another logger of the name is attached: nothing happens, the outer call finds that one.
LEMMA SetNameTakenKeeps == ASSUME IInv, SetNameTaken PROVE IInv'
<1>1. /\ op.step = "find" /\ op.kind = "logger" /\ op.who \in Loggers /\ op.domain \in existing
      /\ op.outer.setting # NotAttached =>
              /\ op.outer.domain \in existing /\ op.outer.setting \in Settings
              /\ op.domain = RootOf(op.outer.domain)
      /\ NamedNo(RootOf(op.domain), NameOf[op.who]) # 0
  BY DEF SetNameTaken, Found, IInv, Calling
<1>2. op' = Resume /\ UNCHANGED <<existing, data, registered, requests, calls>>
  BY DEF SetNameTaken
<1>3. ASSUME op.outer.setting # NotAttached
      PROVE  HasName(data, op.outer.domain, NameOf[op.who])
  <2>1. PICK r : r = RootOf(op.outer.domain)
    OBVIOUS
  <2>2. r \in existing /\ RootOf(op.domain) = r
    BY <1>1, <1>3, <2>1, RootFacts DEF IInv, Typed
  <2>3. HasName(data, r, NameOf[op.who])
    BY <1>1, <2>2, NumbersHere
  <2> QED
    BY <1>1, <1>3, <2>1, <2>3, SameAsRoot DEF IInv
<1>4. Calling'
  BY <1>1, <1>2, <1>3, Resumed
<1>5. calls' \in Nat /\ \A d, l : ~Unread(d, l)
  BY <1>1, <1>2 DEF IInv, Typed, Unread
<1> QED
  BY <1>2, <1>4, <1>5, TreesStay

\* The configuration has been read for all domains.
LEMMA ConfigureDoneKeeps == ASSUME IInv, ConfigureDone PROVE IInv'
<1>1. /\ op.step = "config" /\ op.todo = {} /\ op.who \in Loggers
      /\ op.outer.setting # NotAttached =>
              /\ op.outer.domain \in existing /\ op.outer.setting \in Settings
              /\ HasName(data, op.outer.domain, NameOf[op.who])
  BY DEF ConfigureDone, IInv, Calling
<1>2. op' = Resume /\ UNCHANGED <<existing, data, registered, requests, calls>>
  BY DEF ConfigureDone
<1>3. Calling'
  BY <1>1, <1>2, Resumed
<1>4. calls' \in Nat /\ \A d, l : ~Unread(d, l)
  BY <1>1, <1>2 DEF IInv, Typed, Unread
<1> QED
  BY <1>2, <1>3, <1>4, TreesStay

\* A setting by name finds it on the domain.
LEMMA SetNamedKeeps == ASSUME IInv, SetNamed PROVE IInv'
<1>1. /\ op.step = "find" /\ op.kind = "name" /\ op.setting \in Settings
      /\ op.domain \in existing
  BY DEF SetNamed, Found, IInv, Calling
<1>2. PICK d, no, s : /\ d = op.domain /\ no = NamedNo(op.domain, op.who) /\ s = op.setting
                      /\ d \in existing /\ no # 0 /\ s \in Settings
  BY <1>1 DEF SetNamed
<1>3. no \in DOMAIN data[d]
  BY <1>1, <1>2, NumbersHere
<1>4. PICK g : g = SetVerbosity(data, d, no, s)
  OBVIOUS
<1>5. g \in Forests /\ Raised(data, g) /\ Monotone(g, existing)
  <2>1. Typed /\ data \in Forests /\ Aligned(data, existing) /\ Monotone(data, existing)
    BY DEF IInv, Typed
  <2> QED
    BY <1>2, <1>3, <1>4, <2>1, SetVerbosityKeeps
<1>6. data' = g /\ op' = Idle /\ UNCHANGED <<existing, registered, requests, calls>>
  BY <1>2, <1>4 DEF SetNamed
<1>7. Calling' /\ \A e, l : ~Unread(e, l)
  BY <1>1, <1>6 DEF Calling, Idle, Unread
<1> QED
  BY <1>5, <1>6, <1>7, TreesRaised

\* The nested call is over: the logger of the name has been added, by it or before.
LEMMA SetOuterKeeps == ASSUME IInv, SetOuter PROVE IInv'
<1>1. /\ op.step = "outer" /\ op.who \in Loggers
      /\ op.outer.domain \in existing /\ op.outer.setting \in Settings
      /\ HasName(data, op.outer.domain, NameOf[op.who])
  BY DEF SetOuter, IInv, Calling
<1>2. PICK d, no, s : /\ d = op.outer.domain /\ no = NamedNo(d, NameOf[op.who])
                      /\ s = op.outer.setting /\ d \in existing /\ s \in Settings
  BY <1>1
<1>3. no \in DOMAIN data[d]
  BY <1>1, <1>2, NumbersHere
<1>4. PICK g : g = SetVerbosity(data, d, no, s)
  OBVIOUS
<1>5. g \in Forests /\ Raised(data, g) /\ Monotone(g, existing)
  <2>1. Typed /\ data \in Forests /\ Aligned(data, existing) /\ Monotone(data, existing)
    BY DEF IInv, Typed
  <2> QED
    BY <1>2, <1>3, <1>4, <2>1, SetVerbosityKeeps
<1>6. data' = g /\ op' = Idle /\ UNCHANGED <<existing, registered, requests, calls>>
  BY <1>2, <1>4 DEF SetOuter
<1>7. Calling' /\ \A e, l : ~Unread(e, l)
  BY <1>1, <1>6 DEF Calling, Idle, Unread
<1> QED
  BY <1>5, <1>6, <1>7, TreesRaised

\* One domain reads the configuration, when those above it have: its setting is then the
\* configuration's or one of higher priority.
LEMMA ConfigureDomainKeeps == ASSUME IInv, ConfigureDomain PROVE IInv'
<1>1. /\ op.step = "config" /\ op.who \in Loggers /\ op.todo \subseteq existing
      /\ op.outer.setting # NotAttached =>
              /\ op.outer.domain \in existing /\ op.outer.setting \in Settings
              /\ HasName(data, op.outer.domain, NameOf[op.who])
  BY DEF ConfigureDomain, IInv, Calling
<1>2. PICK d, no, rule :
        /\ d \in op.todo /\ d \in existing /\ no = LoggerNo(d, op.who)
        /\ rule = FromConfig(op.who, d, data[d][no].setting.priority)
        /\ data' = IF no # 0 /\ rule # NotAttached THEN SetVerbosity(data, d, no, rule) ELSE data
        /\ op' = [op EXCEPT !.todo = op.todo \ {d}]
        /\ UNCHANGED <<existing, registered, requests, calls>>
  BY <1>1 DEF ConfigureDomain
<1>3. Typed /\ data \in Forests /\ Aligned(data, existing) /\ Monotone(data, existing)
      /\ existing \subseteq Domains
  BY DEF IInv, Typed
<1>4. /\ no \in DOMAIN data[d] \cup {0} /\ 0 \notin DOMAIN data[d]
      /\ \A i \in DOMAIN data[d] : data[d][i].logger = op.who <=> i = no
  BY <1>1, <1>2, NumbersHere
<1>5. ASSUME rule # NotAttached
      PROVE  rule \in Settings /\ rule.priority = ConfigPriority
  <2>1. rule = Setting(Config[NameOf[op.who]][d], ConfigPriority) /\ rule \in Settings
    <3>1. /\ Config[NameOf[op.who]][d] # NoRule
          /\ Config[NameOf[op.who]][d] \in Verbosities \cup {NoRule}
      BY <1>1, <1>2, <1>3, <1>5, SettingsAssumption DEF FromConfig, Names
    <3> QED
      BY <1>2, <1>5, <3>1, PriorityAssumption DEF FromConfig, Setting, Settings
  <2> QED
    BY <2>1 DEF Setting
<1>6. PICK g : g = data'
  OBVIOUS
<1>7. /\ g \in Forests /\ Raised(data, g) /\ Monotone(g, existing)
      /\ no # 0 /\ rule # NotAttached /\ data[d][no].setting.priority <= rule.priority =>
           g[d][no].setting = rule
  <2>1. CASE no # 0 /\ rule # NotAttached
    <3>1. no \in DOMAIN data[d] /\ g = SetVerbosity(data, d, no, rule)
      BY <1>2, <1>4, <1>6, <2>1
    <3>2. Typed /\ data \in Forests /\ Aligned(data, existing) /\ Monotone(data, existing)
      BY <1>2, <1>3
    <3>3. d \in existing /\ rule \in Settings
      BY <1>2, <1>5, <2>1
    <3>4. /\ g \in Forests /\ Raised(data, g) /\ Monotone(g, existing)
          /\ data[d][no].setting.priority <= rule.priority => g[d][no].setting = rule
      BY <3>1, <3>2, <3>3, SetVerbosityKeeps, SMTT(30)
    <3> QED
      BY <3>4
  <2>2. CASE ~(no # 0 /\ rule # NotAttached)
    <3>1. g = data
      BY <1>2, <1>6, <2>2
    <3>2. Raised(data, data)
      BY <1>3, EntryFacts DEF Raised
    <3> QED
      BY <1>3, <2>2, <3>1, <3>2
  <2> QED
    BY <2>1, <2>2
<1>8. ASSUME no # 0, Config[NameOf[op.who]][d] # NoRule
      PROVE  g[d][no].setting.priority >= ConfigPriority
  <2>1. no \in DOMAIN data[d] /\ d \in Domains
    BY <1>2, <1>3, <1>4, <1>8
  <2>2. /\ data[d][no].setting.priority \in Int /\ g[d][no].setting.priority \in Int
        /\ data[d][no].setting.priority <= g[d][no].setting.priority
    BY <1>3, <1>7, <2>1, EntryFacts DEF Raised
  <2>3. CASE data[d][no].setting.priority = PrioProtected
    BY <2>2, <2>3, PriorityAssumption
  <2>4. CASE data[d][no].setting.priority # PrioProtected
    <3>1. rule # NotAttached
      <4>1. rule = Setting(Config[NameOf[op.who]][d], ConfigPriority)
        BY <1>2, <1>8, <2>4 DEF FromConfig
      <4>2. rule \in Settings
        BY <1>1, <1>8, <2>1, <4>1, SettingsAssumption, PriorityAssumption
           DEF Setting, Settings, Names
      <4> QED
        BY <4>2, SettingsAssumption DEF Settings
    <3>2. CASE data[d][no].setting.priority <= rule.priority
      BY <1>5, <1>7, <1>8, <3>1, <3>2, PriorityAssumption
    <3>3. CASE ~(data[d][no].setting.priority <= rule.priority)
      BY <1>5, <2>2, <3>1, <3>3, PriorityAssumption
    <3> QED
      BY <3>2, <3>3
  <2> QED
    BY <2>3, <2>4
<1>9. /\ op'.step = op.step /\ op'.who = op.who /\ op'.outer = op.outer
      /\ op'.todo = op.todo \ {d}
  BY <1>1, <1>2
<1>10. Calling'
  <2>1. op.outer.setting # NotAttached => HasName(data', op.outer.domain, NameOf[op.who])
    BY <1>1, <1>3, <1>6, <1>7, RaisedKeeps
  <2> QED
    BY <1>1, <1>2, <1>9, <2>1 DEF Calling
<1>11. ASSUME NEW e \in existing, NEW i \in DOMAIN data[e],
              Unread(e, data[e][i].logger), Config[NameOf[data[e][i].logger]][e] # NoRule,
              ~Unread(e, data[e][i].logger)'
       PROVE  data'[e][i].setting.priority >= ConfigPriority
  <2>1. e \in op.todo /\ data[e][i].logger = op.who
    BY <1>11 DEF Unread
  <2>2. data'[e][i].logger = data[e][i].logger
    BY <1>3, <1>6, <1>7 DEF Raised
  <2>3. e = d
    BY <1>1, <1>9, <1>11, <2>1, <2>2 DEF Unread
  <2>4. i = no /\ no # 0
    BY <1>4, <2>1, <2>3
  <2> QED
    BY <1>6, <1>8, <1>11, <2>1, <2>3, <2>4
<1>12. \A e \in existing : \A i \in DOMAIN data[e] :
         Unread(e, data[e][i].logger) /\ Config[NameOf[data[e][i].logger]][e] # NoRule =>
           Unread(e, data[e][i].logger)' \/ data'[e][i].setting.priority >= ConfigPriority
  BY <1>11
<1> QED
  BY <1>2, <1>6, <1>7, <1>10, <1>12, TreesRaised

\* The call for a message only creates the domain.
LEMMA EntryDoneKeeps == ASSUME IInv, EntryDone PROVE IInv'
<1>1. op.step = "find" /\ op' = Idle /\ UNCHANGED <<existing, data, registered, requests, calls>>
  BY DEF EntryDone, Found
<1>2. Calling' /\ calls' \in Nat /\ \A d, l : ~Unread(d, l)
  BY <1>1 DEF IInv, Typed, Calling, Idle, Unread
<1> QED
  BY <1>1, <1>2, TreesStay

\* Neither tree has a logger of the name: an error.
LEMMA SetNamedUnknownKeeps == ASSUME IInv, SetNamedUnknown PROVE IInv'
<1>1. op.step = "find" /\ op' = Idle /\ UNCHANGED <<existing, data, registered, requests, calls>>
  BY DEF SetNamedUnknown, Found
<1>2. Calling' /\ calls' \in Nat /\ \A d, l : ~Unread(d, l)
  BY <1>1 DEF IInv, Typed, Calling, Idle, Unread
<1> QED
  BY <1>1, <1>2, TreesStay

\* The nested call is for the root of the domain that is set after it.
LEMMA SetNamedOtherKeeps == ASSUME IInv, SetNamedOther PROVE IInv'
<1>1. /\ op.step = "find" /\ op.kind = "name" /\ op.setting \in Settings
      /\ op.domain \in existing
      /\ UNCHANGED <<existing, data, registered, requests, calls>>
  BY DEF SetNamedOther, Found, IInv, Calling
<1>2. PICK d, r, other : /\ d = op.domain /\ r = RootOf(d) /\ other = OtherRoot(r)
                         /\ d \in existing /\ d \in Domains
  BY <1>1 DEF IInv, Typed
<1>3. r \in Roots /\ other \in Roots /\ r \in Domains /\ other \in existing
  BY <1>2, RootFacts DEF IInv, Typed
<1>4. PICK no, l, s : /\ no = NamedNo(other, op.who) /\ no # 0 /\ l = data[other][no].logger
                      /\ s = op.setting /\ s \in Settings
                      /\ op' = Request("logger", l, r, Setting("Off", PrioSource),
                                       [domain |-> d, setting |-> s])
  BY <1>1, <1>2 DEF SetNamedOther
<1>5. l \in Loggers
  <2>1. no \in DOMAIN data[other]
    BY <1>3, <1>4, NumbersHere
  <2> QED
    BY <1>3, <1>4, <2>1, EntryFacts DEF IInv, Typed
<1>6. Setting("Off", PrioSource) \in Settings
  BY PriorityAssumption DEF Setting, Settings, Verbosities
<1>7. PICK setting : setting = Setting("Off", PrioSource) /\ setting \in Settings
  BY <1>6
<1>8. /\ op'.step = "find" /\ op'.kind = "logger" /\ op'.who = l /\ op'.domain = r
      /\ op'.setting = setting /\ op'.outer.domain = d /\ op'.outer.setting = s
  BY <1>4, <1>7 DEF Request
<1>9. Calling'
  <2>1. PICK o : o = op'
    OBVIOUS
  <2>2. /\ o.step = "find" /\ o.kind = "logger" /\ o.who \in Loggers /\ o.domain \in Domains
        /\ o.setting \in Settings /\ o.outer.domain \in existing' /\ o.outer.setting \in Settings
        /\ o.domain = RootOf(o.outer.domain)
    <3>1. r \in Domains /\ d \in existing' /\ s \in Settings /\ r = RootOf(d)
      BY <1>1, <1>2, <1>3, <1>4
    <3>2. /\ o.step = "find" /\ o.kind = "logger" /\ o.who = l /\ o.domain = r
          /\ o.setting = setting /\ o.outer.domain = d /\ o.outer.setting = s
      BY <1>8, <2>1
    <3> QED
      BY <1>5, <1>7, <3>1, <3>2
  <2> QED
    BY <2>1, <2>2 DEF Calling
<1>10. calls' \in Nat /\ \A e, k : ~Unread(e, k)
  BY <1>1 DEF IInv, Typed, Unread
<1> QED
  BY <1>1, <1>9, <1>10, TreesStay

\* A logger is attached to a tree: from now on every domain of it has to read the configuration.
LEMMA SetNewKeeps == ASSUME IInv, SetNew PROVE IInv'
<1>1. /\ op.step = "find" /\ op.kind = "logger" /\ op.who \in Loggers /\ op.setting \in Settings
      /\ op.domain \in existing
      /\ op.outer.setting # NotAttached =>
              /\ op.outer.domain \in existing /\ op.outer.setting \in Settings
              /\ op.domain = RootOf(op.outer.domain)
  BY DEF SetNew, Found, IInv, Calling
<1>2. PICK d, r, l, s, outer :
        /\ d = op.domain /\ r = RootOf(d) /\ l = op.who /\ s = op.setting /\ outer = op.outer
        /\ d \in existing /\ l \in Loggers /\ s \in Settings
  BY <1>1
<1>3. /\ Typed /\ data \in Forests /\ Aligned(data, existing) /\ Monotone(data, existing)
      /\ Known(data, registered) /\ Read
      /\ existing \subseteq Domains /\ registered \subseteq Loggers
      /\ requests \subseteq Settings /\ calls \in Nat
      /\ d \in Domains /\ r \in Roots /\ r \in existing /\ r \in Within[d]
  BY <1>2, RootFacts DEF IInv, Typed
<1>4. PICK h, g, n : /\ n = Len(data[r]) + 1 /\ h = AddLogger(r, l)
                     /\ g = SetVerbosity(h, d, n, s)
  OBVIOUS
<1>5. /\ NamedNo(r, NameOf[l]) = 0 /\ data' = g
      /\ registered' = IF Attached(l, OtherRoot(r)) THEN registered ELSE registered \cup {l}
      /\ op' = [step |-> "config", who |-> l, todo |-> existing, outer |-> outer]
      /\ UNCHANGED <<existing, requests, calls>>
  BY <1>2, <1>4 DEF SetNew
<1>6. /\ h \in Forests /\ Aligned(h, existing) /\ Monotone(h, existing)
      /\ n \in DOMAIN h[r] /\ h[r][n].logger = l
      /\ \A e \in existing : r \in Within[e] =>
           /\ DOMAIN h[e] = DOMAIN data[e] \cup {n} /\ n \notin DOMAIN data[e]
           /\ h[e][n] = LoggerData(l, Fresh)
           /\ \A i \in DOMAIN data[e] : h[e][i] = data[e][i]
      /\ \A e \in Domains : r \notin Within[e] => h[e] = data[e]
  <2>1. ~HasName(data, r, NameOf[l])
    BY <1>3, <1>5, NumbersHere
  <2> QED
    BY <1>2, <1>3, <1>4, <2>1, AddLoggerKeeps
<1>7. g \in Forests /\ Raised(h, g) /\ Monotone(g, existing) /\ Aligned(g, existing)
  <2>1. n \in DOMAIN h[d]
    BY <1>2, <1>3, <1>6
  <2>2. g \in Forests /\ Raised(h, g) /\ Monotone(g, existing)
    BY <1>2, <1>3, <1>4, <1>6, <2>1, SetVerbosityKeeps
  <2>3. existing \in SUBSET Domains
    BY <1>3
  <2> QED
    BY <1>6, <2>2, <2>3, RaisedKeeps
<1>8. Typed'
  BY <1>2, <1>3, <1>5, <1>7 DEF Typed
<1>9. Calling'
  <2>1. op'.step = "config" /\ op'.who = l /\ op'.todo = existing /\ op'.outer = outer
    BY <1>5
  <2>2. ASSUME outer.setting # NotAttached
        PROVE  HasName(g, outer.domain, NameOf[l])
    <3>1. outer.domain \in existing /\ r = RootOf(outer.domain)
      <4>1. outer.domain \in existing /\ d = RootOf(outer.domain)
        BY <1>1, <1>2, <2>2
      <4> QED
        BY <1>2, <1>3, <4>1, RootFacts
    <3>2. HasName(h, r, NameOf[l])
      BY <1>6 DEF HasName
    <3>3. HasName(h, outer.domain, NameOf[l])
      BY <1>6, <3>1, <3>2, SameAsRoot
    <3> QED
      BY <1>3, <1>7, <3>1, <3>3, RaisedKeeps
  <2>3. outer.setting # NotAttached => outer.domain \in existing /\ outer.setting \in Settings
    BY <1>1, <1>2
  <2> QED
    BY <1>2, <1>5, <2>1, <2>2, <2>3 DEF Calling
<1>10. Read'
  <2>1. ASSUME NEW e \in existing, NEW i \in DOMAIN g[e], g[e][i].logger # l,
               Config[NameOf[g[e][i].logger]][e] # NoRule
        PROVE  g[e][i].setting.priority >= ConfigPriority
    <3>1. /\ e \in Domains /\ i \in DOMAIN h[e] /\ g[e][i].logger = h[e][i].logger
          /\ h[e][i].setting.priority <= g[e][i].setting.priority
      BY <1>3, <1>7 DEF Raised
    <3>2. i \in DOMAIN data[e] /\ h[e][i] = data[e][i]
      <4>1. CASE r \in Within[e]
        <5>1. h[e][n].logger = l
          BY <1>6, <4>1 DEF LoggerData
        <5> QED
          BY <1>6, <2>1, <3>1, <4>1, <5>1
      <4>2. CASE r \notin Within[e]
        BY <1>6, <3>1, <4>2
      <4> QED
        BY <4>1, <4>2
    <3>3. data[e][i].setting.priority >= ConfigPriority
      <4>1. ~Unread(e, data[e][i].logger)
        BY <1>1 DEF Unread
      <4> QED
        BY <1>3, <2>1, <3>1, <3>2, <4>1 DEF Read
    <3>4. data[e][i].setting.priority \in Int /\ g[e][i].setting.priority \in Int
      <4>1. i \in DOMAIN g[e]
        OBVIOUS
      <4> QED
        BY <1>3, <1>7, <3>1, <3>2, <4>1, EntryFacts
    <3> QED
      BY <3>1, <3>2, <3>3, <3>4, PriorityAssumption
  <2>2. ASSUME NEW e \in existing, NEW i \in DOMAIN g[e], g[e][i].logger = l
        PROVE  Unread(e, data[e][i].logger)' \/ FALSE
    BY <1>5, <2>2 DEF Unread
  <2> QED
    BY <1>5, <2>1, <2>2 DEF Read
<1>11. Known(data, registered)'
  <2>1. PICK q : q = OtherRoot(r) /\ q \in Roots /\ q # r /\ Roots = {r, q} /\ q \in existing
    BY <1>3, RootFacts DEF Typed
  <2>2. /\ Has(h, r, l) /\ \A k : k # l => (Has(h, r, k) <=> Has(data, r, k))
        /\ \A k : Has(h, q, k) <=> Has(data, q, k)
    <3>1. r \in Within[r] /\ q \in Domains /\ r \notin Within[q]
      BY <1>3, <2>1, TreeAssumption
    <3>2. Has(h, r, l)
      BY <1>6 DEF Has
    <3>3. \A k : Has(h, q, k) <=> Has(data, q, k)
      BY <1>6, <3>1 DEF Has
    <3>4. ASSUME NEW k, k # l
          PROVE  Has(h, r, k) <=> Has(data, r, k)
      <4>1. /\ DOMAIN h[r] = DOMAIN data[r] \cup {n}
            /\ \A i \in DOMAIN data[r] : h[r][i] = data[r][i]
        BY <1>3, <1>6, <3>1
      <4> QED
        BY <1>6, <3>4, <4>1 DEF Has
    <3> QED
      BY <3>2, <3>3, <3>4
  <2>3. Attached(l, q) <=> Has(data, q, l)
    BY <1>2, <2>1, NumbersHere DEF Attached
  <2>4. PICK acquired : acquired = registered'
    OBVIOUS
  <2>5. /\ acquired = registered \/ acquired = registered \cup {l}
        /\ Has(data, q, l) \/ l \in acquired
    BY <1>5, <2>1, <2>3, <2>4
  <2>6. ASSUME NEW k \in Loggers, NEW root \in Roots, Has(h, root, k)
        PROVE  k \in acquired
    <3>1. (Has(data, r, k) \/ Has(data, q, k)) => k \in registered
      BY <1>3, <2>1 DEF Known
    <3>2. CASE k = l
      BY <2>5, <3>1, <3>2
    <3>3. CASE k # l
      BY <2>1, <2>2, <2>5, <2>6, <3>1, <3>3
    <3> QED
      BY <3>2, <3>3
  <2>7. ASSUME NEW k \in Loggers, k \in acquired,
               \A x \in Loggers : NameOf[x] = NameOf[k] => x = k
        PROVE  \E root \in Roots : Has(h, root, k)
    <3>1. CASE k = l
      BY <1>3, <2>2, <3>1
    <3>2. CASE k # l
      <4>1. k \in registered
        BY <2>5, <2>7, <3>2
      <4>2. PICK root \in Roots : Has(data, root, k)
        BY <1>3, <2>7, <4>1 DEF Known
      <4> QED
        BY <2>1, <2>2, <3>2, <4>2
    <3> QED
      BY <3>1, <3>2
  <2>8. Known(h, acquired)
    BY <2>6, <2>7 DEF Known
  <2>9. Known(g, acquired)
    BY <1>7, <2>8, RaisedKeeps
  <2> QED
    BY <1>5, <2>4, <2>9
<1> QED
  BY <1>5, <1>7, <1>8, <1>9, <1>10, <1>11 DEF IInv

\* A domain is created below its parent, which exists.
LEMMA CreateDomainKeeps == ASSUME IInv, CreateDomain PROVE IInv'
<1>1. PICK c : /\ c \in Within[op.domain] \ existing /\ Parent(c) \in existing
               /\ existing' = existing \cup {c}
               /\ data' = [data EXCEPT ![c] = ConfiguredData(data[Parent(c)], c)]
  BY DEF CreateDomain
<1>2. op.step = "find" /\ op.domain \in Domains /\ UNCHANGED <<registered, op, requests, calls>>
  BY DEF CreateDomain, IInv, Calling
<1>3. /\ Typed /\ data \in Forests /\ Aligned(data, existing) /\ Monotone(data, existing)
      /\ Known(data, registered) /\ Read /\ existing \subseteq Domains /\ Roots \subseteq existing
      /\ \A e \in existing : Within[e] \subseteq existing
  BY DEF IInv, Typed
<1>4. c \in Domains \ Roots /\ c \notin existing
  BY <1>1, <1>2, <1>3, TreeAssumption
<1>5. PICK p : /\ p = Parent(c) /\ p \in existing /\ p \in Within[c]
               /\ \A e \in Within[c] \ {c} : e \in Within[p]
  BY <1>1, <1>4, ParentFacts
<1>6. PICK q : q = ConfiguredData(data[p], c)
  OBVIOUS
<1>7. /\ q \in Seq(Entries) /\ DOMAIN q = DOMAIN data[p]
      /\ \A i \in DOMAIN q :
           /\ q[i].logger = data[p][i].logger
           /\ data[p][i].setting.priority <= q[i].setting.priority
           /\ Config[NameOf[q[i].logger]][c] # NoRule => q[i].setting.priority >= ConfigPriority
  <2>1. PICK list \in Seq(Entries) : list = data[p]
    BY <1>3, <1>5, EntryFacts
  <2> QED
    BY <1>4, <1>6, <2>1, ConfiguredFacts
<1>8. /\ data' \in Forests /\ data'[c] = q
      /\ \A e \in existing : data'[e] = data[e]
  BY <1>1, <1>3, <1>4, <1>5, <1>6, <1>7 DEF Forests
<1>9. PICK g, E : g = data' /\ E = existing' /\ E = existing \cup {c}
  BY <1>1
<1>10. g \in Forests /\ g[c] = q /\ \A e \in existing : g[e] = data[e]
  BY <1>8, <1>9
<1>11. Typed'
  <2>1. Within[c] \subseteq E
    BY <1>3, <1>5, <1>9
  <2> QED
    BY <1>2, <1>3, <1>4, <1>9, <1>10, <2>1 DEF Typed
<1>12. Aligned(g, E)
  <2>1. ASSUME NEW d \in existing
        PROVE  g[d] = data[d] /\ g[RootOf(d)] = data[RootOf(d)]
    BY <1>3, <1>10, RootFacts
  <2>2. RootOf(c) = RootOf(p) /\ RootOf(p) \in existing
    BY <1>3, <1>4, <1>5, RootFacts
  <2>3. PICK root : root = RootOf(c) /\ g[root] = data[root] /\ root = RootOf(p)
    BY <1>10, <2>2
  <2>4. /\ DOMAIN data[p] = DOMAIN data[root]
        /\ \A i \in DOMAIN data[p] : data[p][i].logger = data[root][i].logger
        /\ \A i, j \in DOMAIN data[p] :
              NameOf[data[p][i].logger] = NameOf[data[p][j].logger] => i = j
    BY <1>3, <1>5, <2>3 DEF Aligned
  <2>5. /\ DOMAIN q = DOMAIN g[root]
        /\ \A i \in DOMAIN q : q[i].logger = g[root][i].logger
    BY <1>7, <2>3, <2>4
  <2>6. \A i, j \in DOMAIN q : NameOf[q[i].logger] = NameOf[q[j].logger] => i = j
    BY <1>7, <2>4
  <2>7. ASSUME NEW d \in E
        PROVE  /\ DOMAIN g[d] = DOMAIN g[RootOf(d)]
               /\ \A i \in DOMAIN g[d] : g[d][i].logger = g[RootOf(d)][i].logger
               /\ \A i, j \in DOMAIN g[d] : NameOf[g[d][i].logger] = NameOf[g[d][j].logger] => i = j
    <3>1. CASE d = c
      BY <1>10, <2>3, <2>5, <2>6, <3>1
    <3>2. CASE d \in existing
      BY <1>3, <2>1, <3>2 DEF Aligned
    <3> QED
      BY <1>9, <3>1, <3>2
  <2> QED
    BY <2>7 DEF Aligned
<1>13. Monotone(g, E)
  <2>1. ASSUME NEW d \in E, NEW e \in E \cap Within[d], NEW i \in DOMAIN g[d]
        PROVE  g[e][i].setting.priority <= g[d][i].setting.priority
    <3>1. CASE d \in existing
      <4>1. e \in existing
        BY <1>3, <3>1
      <4> QED
        BY <1>3, <1>10, <2>1, <3>1, <4>1 DEF Monotone
    <3>2. CASE d = c /\ e = c
      <4>1. g[c][i].setting.priority \in Int
        BY <1>4, <1>10, <2>1, <3>2, EntryFacts
      <4> QED
        BY <3>2, <4>1
    <3>3. CASE d = c /\ e # c
      <4>1. e \in Within[p] /\ e \in existing /\ i \in DOMAIN data[p]
        BY <1>5, <1>7, <1>9, <1>10, <2>1, <3>3
      <4>2. data[e][i].setting.priority <= data[p][i].setting.priority
        BY <1>3, <1>5, <4>1 DEF Monotone
      <4>3. data[p][i].setting.priority <= g[c][i].setting.priority
        BY <1>7, <1>10, <4>1
      <4>4. /\ data[p][i].setting.priority \in Int /\ g[c][i].setting.priority \in Int
            /\ data[e][i].setting.priority \in Int
        <5>1. i \in DOMAIN g[c] /\ i \in DOMAIN data[e]
          <6>1. RootOf(e) = RootOf(p)
            BY <1>3, <1>5, <4>1, RootFacts
          <6> QED
            BY <1>3, <1>5, <2>1, <3>3, <4>1, <6>1 DEF Aligned
        <5> QED
          BY <1>3, <1>4, <1>5, <1>10, <4>1, <5>1, EntryFacts
      <4> QED
        BY <1>10, <3>3, <4>1, <4>2, <4>3, <4>4
    <3> QED
      BY <1>9, <3>1, <3>2, <3>3
  <2> QED
    BY <2>1 DEF Monotone
<1>14. Known(g, registered)
  <2>1. PICK acquired : acquired = registered
    OBVIOUS
  <2>2. ASSUME NEW r \in Roots, NEW l
        PROVE  Has(g, r, l) <=> Has(data, r, l)
    <3>1. g[r] = data[r]
      BY <1>3, <1>10
    <3> QED
      BY <3>1 DEF Has
  <2>3. ASSUME NEW l \in Loggers, NEW r \in Roots, Has(g, r, l)
        PROVE  l \in acquired
    BY <1>3, <2>1, <2>2, <2>3 DEF Known
  <2>4. ASSUME NEW l \in Loggers, l \in acquired,
               \A k \in Loggers : NameOf[k] = NameOf[l] => k = l
        PROVE  \E r \in Roots : Has(g, r, l)
    <3>1. PICK r \in Roots : Has(data, r, l)
      BY <1>3, <2>1, <2>4 DEF Known
    <3> QED
      BY <2>2, <3>1
  <2>5. Known(g, acquired)
    BY <2>3, <2>4 DEF Known
  <2> QED
    BY <2>1, <2>5
<1>15. Read'
  <2>1. ASSUME NEW d \in existing, NEW i \in DOMAIN data[d],
               Config[NameOf[data[d][i].logger]][d] # NoRule
        PROVE  data[d][i].setting.priority >= ConfigPriority
    BY <1>2, <1>3, <2>1 DEF Read, Unread
  <2>2. ASSUME NEW d \in E, NEW i \in DOMAIN g[d], Config[NameOf[g[d][i].logger]][d] # NoRule
        PROVE  g[d][i].setting.priority >= ConfigPriority
    <3>1. CASE d = c
      BY <1>7, <1>10, <2>2, <3>1
    <3>2. CASE d \in existing
      BY <1>10, <2>1, <2>2, <3>2
    <3> QED
      BY <1>9, <3>1, <3>2
  <2> QED
    BY <1>9, <2>2 DEF Read
<1>16. Calling'
  <2>1. op.kind = "logger" /\ op.outer.setting # NotAttached => op.outer.domain \in existing'
    BY <1>1, <1>2 DEF IInv, Calling
  <2> QED
    BY <1>2, <2>1 DEF IInv, Calling
<1> QED
  BY <1>2, <1>9, <1>11, <1>12, <1>13, <1>14, <1>15, <1>16 DEF IInv

\* A logger taken out of each tree, or of one of them, or of none.
LEMMA RemoveBothKeeps ==
    ASSUME IInv, op = Idle, UNCHANGED <<existing, op, requests>>, calls' \in Nat,
           NEW mainNo \in DOMAIN data[MainRoot] \cup {0},
           NEW internalNo \in DOMAIN data[InternalRoot] \cup {0},
           RemoveBoth(mainNo, internalNo), registered' \subseteq Loggers
    PROVE  /\ \A k : Has(data', MainRoot, k) <=>
                       /\ Has(data, MainRoot, k)
                       /\ mainNo # 0 => k # data[MainRoot][mainNo].logger
           /\ \A k : Has(data', InternalRoot, k) <=>
                       /\ Has(data, InternalRoot, k)
                       /\ internalNo # 0 => k # data[InternalRoot][internalNo].logger
           /\ Known(data', registered') => IInv'
<1>1. /\ Typed /\ data \in Forests /\ Aligned(data, existing) /\ Monotone(data, existing)
      /\ Read /\ existing \subseteq Domains
  BY DEF IInv, Typed
<1>2. PICK f, g : /\ f = RemoveLogger(data, MainRoot, mainNo)
                  /\ g = RemoveLogger(f, InternalRoot, internalNo)
  OBVIOUS
<1>3. data' = g
  BY <1>2 DEF RemoveBoth
<1>4. /\ MainRoot \in Roots /\ InternalRoot \in Roots
      /\ MainRoot \in Domains /\ InternalRoot \in Domains
      /\ MainRoot \notin Within[InternalRoot] /\ InternalRoot \notin Within[MainRoot]
  <2>1. MainRoot \in Roots /\ InternalRoot \in Roots
    BY DEF Roots
  <2> QED
    BY <2>1, TreeAssumption
<1>5. /\ f \in Forests /\ Aligned(f, existing) /\ Monotone(f, existing)
      /\ \A e \in Domains : MainRoot \notin Within[e] => f[e] = data[e]
      /\ \A e \in existing : \A i \in DOMAIN f[e] : \E j \in DOMAIN data[e] : f[e][i] = data[e][j]
      /\ IF mainNo = 0 THEN f = data
                       ELSE \A l : Has(f, MainRoot, l) <=>
                                     Has(data, MainRoot, l) /\ l # data[MainRoot][mainNo].logger
  BY <1>1, <1>2, <1>4, RemoveLoggerKeeps
<1>6. f[InternalRoot] = data[InternalRoot] /\ internalNo \in DOMAIN f[InternalRoot] \cup {0}
  BY <1>4, <1>5
<1>7. /\ g \in Forests /\ Aligned(g, existing) /\ Monotone(g, existing)
      /\ \A e \in Domains : InternalRoot \notin Within[e] => g[e] = f[e]
      /\ \A e \in existing : \A i \in DOMAIN g[e] : \E j \in DOMAIN f[e] : g[e][i] = f[e][j]
      /\ IF internalNo = 0 THEN g = f
                       ELSE \A l : Has(g, InternalRoot, l) <=>
                                     /\ Has(f, InternalRoot, l)
                                     /\ l # f[InternalRoot][internalNo].logger
  BY <1>1, <1>2, <1>4, <1>5, <1>6, RemoveLoggerKeeps
<1>8. ASSUME NEW k
      PROVE  Has(g, MainRoot, k) <=>
                Has(data, MainRoot, k) /\ (mainNo # 0 => k # data[MainRoot][mainNo].logger)
  <2>1. Has(g, MainRoot, k) <=> Has(f, MainRoot, k)
    <3>1. g[MainRoot] = f[MainRoot]
      BY <1>4, <1>7
    <3> QED
      BY <3>1 DEF Has
  <2> QED
    BY <1>5, <2>1
<1>9. ASSUME NEW k
      PROVE  Has(g, InternalRoot, k) <=>
                /\ Has(data, InternalRoot, k)
                /\ internalNo # 0 => k # data[InternalRoot][internalNo].logger
  <2>1. Has(f, InternalRoot, k) <=> Has(data, InternalRoot, k)
    BY <1>6 DEF Has
  <2>2. CASE internalNo = 0
    BY <1>7, <2>1, <2>2
  <2>3. CASE internalNo # 0
    BY <1>6, <1>7, <2>1, <2>3
  <2> QED
    BY <2>2, <2>3
<1>10. Typed'
  BY <1>1, <1>3, <1>7 DEF Typed
<1>11. Calling'
  BY DEF Calling, Idle
<1>12. Read'
  <2>1. ASSUME NEW d \in existing, NEW i \in DOMAIN g[d], Config[NameOf[g[d][i].logger]][d] # NoRule
        PROVE  g[d][i].setting.priority >= ConfigPriority
    <3>1. PICK k \in DOMAIN f[d] : g[d][i] = f[d][k]
      BY <1>7
    <3>2. PICK j \in DOMAIN data[d] : f[d][k] = data[d][j]
      BY <1>5
    <3>3. ~Unread(d, data[d][j].logger)
      BY DEF Unread, Idle
    <3> QED
      BY <1>1, <2>1, <3>1, <3>2, <3>3 DEF Read
  <2> QED
    BY <1>3, <2>1 DEF Read
<1>13. Aligned(data, existing)' /\ Monotone(data, existing)'
  BY <1>3, <1>7
<1>14. Known(data', registered') => IInv'
  BY <1>10, <1>11, <1>12, <1>13 DEF IInv
<1> QED
  BY <1>3, <1>8, <1>9, <1>14

\* A logger is removed from both trees, and loses the Lox as an acquirer.
LEMMA RemoveLoggerCallKeeps ==
    ASSUME IInv, NEW l \in Loggers, CallRemoveLogger(l) PROVE IInv'
<1>1. PICK main, internal :
        /\ main = LoggerNo(MainRoot, l) /\ internal = LoggerNo(InternalRoot, l)
        /\ op = Idle /\ UNCHANGED <<existing, op, requests>> /\ calls > 0 /\ calls' = calls - 1
        /\ RemoveBoth(main, internal)
        /\ registered' = registered \ {l}
  BY DEF CallRemoveLogger, Called
<1>2. /\ Roots \subseteq existing /\ registered \subseteq Loggers /\ calls \in Nat
      /\ Roots = {MainRoot, InternalRoot} /\ Known(data, registered)
  BY DEF IInv, Typed, Roots
<1>3. calls' \in Nat /\ registered' \subseteq Loggers
  BY <1>1, <1>2
<1>4. /\ main \in DOMAIN data[MainRoot] \cup {0} /\ (main # 0 <=> Has(data, MainRoot, l))
      /\ main # 0 => data[MainRoot][main].logger = l
  BY <1>1, <1>2, NumbersHere
<1>5. /\ internal \in DOMAIN data[InternalRoot] \cup {0}
      /\ internal # 0 <=> Has(data, InternalRoot, l)
      /\ internal # 0 => data[InternalRoot][internal].logger = l
  BY <1>1, <1>2, NumbersHere
<1>6. PICK g, acquired : g = data' /\ acquired = registered' /\ acquired = registered \ {l}
  BY <1>1
<1>7. /\ \A k : Has(g, MainRoot, k) <=>
                  Has(data, MainRoot, k) /\ (main # 0 => k # data[MainRoot][main].logger)
      /\ \A k : Has(g, InternalRoot, k) <=>
                  /\ Has(data, InternalRoot, k)
                  /\ internal # 0 => k # data[InternalRoot][internal].logger
      /\ Known(g, acquired) => IInv'
  BY <1>1, <1>3, <1>4, <1>5, <1>6, RemoveBothKeeps
<1>8. \A r \in Roots : \A k : Has(g, r, k) <=> Has(data, r, k) /\ k # l
  BY <1>2, <1>4, <1>5, <1>7, <1>6
<1>9. Known(g, acquired)
  <2>1. ASSUME NEW k \in Loggers, NEW r \in Roots, Has(g, r, k)
        PROVE  k \in acquired
    BY <1>2, <1>6, <1>8, <2>1 DEF Known
  <2>2. ASSUME NEW k \in Loggers, k \in acquired,
               \A x \in Loggers : NameOf[x] = NameOf[k] => x = k
        PROVE  \E r \in Roots : Has(g, r, k)
    <3>1. PICK r \in Roots : Has(data, r, k)
      BY <1>2, <1>6, <2>2 DEF Known
    <3> QED
      BY <1>6, <1>8, <2>2, <3>1
  <2> QED
    BY <2>1, <2>2 DEF Known
<1> QED
  BY <1>7, <1>6, <1>9

\* The loggers of a name are removed from both trees. If they are two, the first one keeps the
\* Lox as an acquirer: Known asks nothing of loggers that share their name.
LEMMA RemoveLoggerNameKeeps ==
    ASSUME IInv, NEW n \in Names, CallRemoveLoggerName(n) PROVE IInv'
<1>1. PICK main, internal :
        /\ main = NamedNo(MainRoot, n) /\ internal = NamedNo(InternalRoot, n)
        /\ op = Idle /\ UNCHANGED <<existing, op, requests>> /\ calls > 0 /\ calls' = calls - 1
        /\ main # 0 \/ internal # 0
        /\ RemoveBoth(main, internal)
        /\ registered' = registered \ {IF internal # 0 THEN data[InternalRoot][internal].logger
                                                        ELSE data[MainRoot][main].logger}
  BY DEF CallRemoveLoggerName, Called
<1>2. /\ Roots \subseteq existing /\ registered \subseteq Loggers /\ calls \in Nat
      /\ Roots = {MainRoot, InternalRoot} /\ Known(data, registered)
  BY DEF IInv, Typed, Roots
<1>3. calls' \in Nat /\ registered' \subseteq Loggers
  BY <1>1, <1>2
<1>4. /\ main \in DOMAIN data[MainRoot] \cup {0} /\ 0 \notin DOMAIN data[MainRoot]
      /\ \A i \in DOMAIN data[MainRoot] : NameOf[data[MainRoot][i].logger] = n <=> i = main
      /\ main # 0 <=> HasName(data, MainRoot, n)
  BY <1>1, <1>2, NumbersHere
<1>5. /\ internal \in DOMAIN data[InternalRoot] \cup {0} /\ 0 \notin DOMAIN data[InternalRoot]
      /\ \A i \in DOMAIN data[InternalRoot] :
            NameOf[data[InternalRoot][i].logger] = n <=> i = internal
      /\ internal # 0 <=> HasName(data, InternalRoot, n)
  BY <1>1, <1>2, NumbersHere
<1>6. PICK x : x = IF internal # 0 THEN data[InternalRoot][internal].logger
                                   ELSE data[MainRoot][main].logger
  OBVIOUS
<1>7. NameOf[x] = n /\ x \in Loggers
  <2>1. data \in Forests /\ MainRoot \in Domains /\ InternalRoot \in Domains
    BY <1>2, TreeAssumption DEF IInv, Typed
  <2> QED
    BY <1>1, <1>4, <1>5, <1>6, <2>1, EntryFacts
<1>8. PICK g, acquired : g = data' /\ acquired = registered' /\ acquired = registered \ {x}
  BY <1>1, <1>6
<1>9. /\ \A k : Has(g, MainRoot, k) <=>
                  Has(data, MainRoot, k) /\ (main # 0 => k # data[MainRoot][main].logger)
      /\ \A k : Has(g, InternalRoot, k) <=>
                  /\ Has(data, InternalRoot, k)
                  /\ internal # 0 => k # data[InternalRoot][internal].logger
      /\ Known(g, acquired) => IInv'
  BY <1>1, <1>3, <1>4, <1>5, <1>8, RemoveBothKeeps, ZenonT(30)
<1>10. ASSUME NEW k, NameOf[k] # n
       PROVE  \A r \in Roots : Has(g, r, k) <=> Has(data, r, k)
  <2>1. main # 0 => NameOf[data[MainRoot][main].logger] = n
    BY <1>4
  <2>2. internal # 0 => NameOf[data[InternalRoot][internal].logger] = n
    BY <1>5
  <2>3. Has(g, MainRoot, k) <=> Has(data, MainRoot, k)
    BY <1>9, <1>10, <2>1
  <2>4. Has(g, InternalRoot, k) <=> Has(data, InternalRoot, k)
    BY <1>9, <1>10, <2>2
  <2> QED
    BY <1>2, <2>3, <2>4
<1>11. ASSUME NEW k, NameOf[k] = n
       PROVE  \A r \in Roots : ~Has(g, r, k)
  <2>1. ASSUME Has(data, MainRoot, k)
        PROVE  main # 0 /\ k = data[MainRoot][main].logger
    BY <1>4, <1>11, <2>1 DEF Has
  <2>2. ASSUME Has(data, InternalRoot, k)
        PROVE  internal # 0 /\ k = data[InternalRoot][internal].logger
    BY <1>5, <1>11, <2>2 DEF Has
  <2>3. ~Has(g, MainRoot, k)
    BY <1>9, <2>1
  <2>4. ~Has(g, InternalRoot, k)
    BY <1>9, <2>2
  <2> QED
    BY <1>2, <2>3, <2>4
<1>12. Known(g, acquired)
  <2>1. ASSUME NEW k \in Loggers, NEW r \in Roots, Has(g, r, k)
        PROVE  k \in acquired
    <3>1. NameOf[k] # n
      BY <1>11, <2>1
    <3>2. Has(data, r, k)
      BY <1>10, <2>1, <3>1
    <3>3. k \in registered
      BY <1>2, <3>2 DEF Known
    <3> QED
      BY <1>7, <1>8, <3>1, <3>3
  <2>2. ASSUME NEW k \in Loggers, k \in acquired,
               \A y \in Loggers : NameOf[y] = NameOf[k] => y = k
        PROVE  \E r \in Roots : Has(g, r, k)
    <3>1. NameOf[k] # n
      BY <1>7, <1>8, <2>2
    <3>2. PICK r \in Roots : Has(data, r, k)
      BY <1>2, <1>8, <2>2 DEF Known
    <3> QED
      BY <1>10, <3>1, <3>2
  <2> QED
    BY <2>1, <2>2 DEF Known
<1> QED
  BY <1>9, <1>12

Empty ==
    /\ data \in [Domains -> {<<>>}] /\ op = Idle
    /\ Roots \subseteq existing /\ existing \subseteq Domains
    /\ \A d \in existing : Within[d] \subseteq existing
    /\ requests \subseteq Settings /\ calls \in Nat /\ registered \subseteq Loggers
    /\ \A l \in Loggers : (\A k \in Loggers : NameOf[k] = NameOf[l] => k = l) => l \notin registered

\* A Lox without loggers satisfies the invariant.
LEMMA EmptyTrees == Empty => IInv
<1> SUFFICES ASSUME Empty PROVE IInv
  OBVIOUS
<1>1. PICK f : f = data /\ \A d \in Domains : f[d] = <<>> /\ DOMAIN f[d] = {}
  BY DEF Empty
<1>2. Typed
  <2>1. data \in Forests
    <3>1. data = [d \in Domains |-> data[d]] /\ \A d \in Domains : data[d] = <<>>
      BY DEF Empty
    <3>2. <<>> \in Seq(Entries)
      OBVIOUS
    <3>3. \A d \in Domains : data[d] \in Seq(Entries)
      BY <3>1, <3>2
    <3> QED
      BY <3>1, <3>3 DEF Forests
  <2> QED
    BY <2>1 DEF Empty, Typed
<1>3. Calling
  BY DEF Empty, Calling, Idle
<1>4. Read
  BY <1>1 DEF Empty, Read
<1>5. Aligned(f, existing)
  <2>1. \A d \in existing : d \in Domains /\ RootOf(d) \in Domains
    BY RootFacts DEF Empty
  <2> QED
    BY <1>1, <2>1 DEF Empty, Aligned
<1>6. Monotone(f, existing)
  BY <1>1 DEF Empty, Monotone
<1>7. Known(f, registered)
  <2>1. \A r \in Roots : \A l : ~Has(f, r, l)
    BY <1>1, TreeAssumption DEF Has
  <2> QED
    BY <2>1 DEF Empty, Known
<1> QED
  BY <1>1, <1>2, <1>3, <1>4, <1>5, <1>6, <1>7 DEF IInv

\* Both trees are cleared; their loggers lose the Lox as an acquirer.
LEMMA ResetKeeps == ASSUME IInv, CallReset PROVE IInv'
<1>1. /\ op = Idle /\ UNCHANGED <<op, requests>> /\ calls > 0 /\ calls' = calls - 1
      /\ registered' = registered \ {l \in Loggers : \E r \in Roots : Attached(l, r)}
      /\ existing' = Roots /\ data' = [d \in Domains |-> <<>>]
  BY DEF CallReset, Called
<1>2. /\ Roots \subseteq existing /\ registered \subseteq Loggers /\ calls \in Nat
      /\ requests \subseteq Settings /\ Known(data, registered)
  BY DEF IInv, Typed
<1>3. \A l \in Loggers, r \in Roots : Attached(l, r) <=> Has(data, r, l)
  BY <1>2, NumbersHere DEF Attached
<1>4. ASSUME NEW l \in Loggers, \A k \in Loggers : NameOf[k] = NameOf[l] => k = l
      PROVE  l \notin registered'
  <2>1. CASE l \in registered
    <3>1. \E r \in Roots : Has(data, r, l)
      BY <1>2, <1>4, <2>1 DEF Known
    <3> QED
      BY <1>1, <1>3, <3>1
  <2> QED
    BY <1>1, <2>1
<1>5. /\ (data \in [Domains -> {<<>>}])' /\ op' = Idle /\ Roots \subseteq existing'
      /\ existing' \subseteq Domains /\ \A d \in existing' : Within[d] \subseteq existing'
  BY <1>1, TreeAssumption
<1>6. requests' \subseteq Settings /\ calls' \in Nat /\ registered' \subseteq Loggers
  BY <1>1, <1>2
<1> QED
  <2>1. Empty'
    BY <1>4, <1>5, <1>6 DEF Empty
  <2> QED
    BY <2>1, EmptyTrees, PTL

-----------------------------------------------------------------------------
(***************************************************************************)
(* Theorems                                                                *)
(***************************************************************************)
\* The constructor has created the predefined domains, and no logger is known.
LEMMA InitIInv == Init => IInv
<1> SUFFICES ASSUME Init PROVE IInv
  OBVIOUS
<1>1. /\ existing = Roots \cup Predefined /\ data \in [Domains -> {<<>>}] /\ registered = {}
      /\ op = Idle /\ calls \in DOMAIN Clients /\ requests = Clients[calls]
  BY DEF Init
<1>2. requests \subseteq Settings /\ calls \in Nat
  BY <1>1, SettingsAssumption DEF Settings
<1>3. /\ Roots \subseteq existing /\ existing \subseteq Domains
      /\ \A d \in existing : Within[d] \subseteq existing
  BY <1>1, TreeAssumption
<1> QED
  BY <1>1, <1>2, <1>3, EmptyTrees DEF Empty

\* Every operation, at each of its steps, keeps the invariant.
LEMMA NextIInv == IInv /\ [Next]_vars => IInv'
<1> SUFFICES ASSUME IInv, [Next]_vars PROVE IInv'
  OBVIOUS
<1> requests \subseteq Settings /\ Fresh \in Settings
  BY DEF IInv, Typed, Fresh, Setting, Settings, Verbosities
<1>1. ASSUME NEW l \in Loggers, NEW d \in Domains, NEW s \in requests, CallSetVerbosity(l, d, s)
      PROVE  IInv'
  BY <1>1, CallKeeps DEF CallSetVerbosity
<1>2. ASSUME NEW n \in Names, NEW d \in Domains, NEW s \in requests, CallSetVerbosityName(n, d, s)
      PROVE  IInv'
  BY <1>2, CallKeeps DEF CallSetVerbosityName
<1>3. ASSUME NEW d \in Domains, CallEntry(d)
      PROVE  IInv'
  BY <1>3, CallKeeps DEF CallEntry
<1>4. CASE CreateDomain
  BY <1>4, CreateDomainKeeps
<1>5. CASE EntryDone
  BY <1>5, EntryDoneKeeps
<1>6. CASE SetKnown
  BY <1>6, SetKnownKeeps
<1>7. CASE SetNameTaken
  BY <1>7, SetNameTakenKeeps
<1>8. CASE SetNew
  BY <1>8, SetNewKeeps
<1>9. CASE ConfigureDomain
  BY <1>9, ConfigureDomainKeeps
<1>10. CASE ConfigureDone
  BY <1>10, ConfigureDoneKeeps
<1>11. CASE SetNamed
  BY <1>11, SetNamedKeeps
<1>12. CASE SetNamedOther
  BY <1>12, SetNamedOtherKeeps
<1>13. CASE SetNamedUnknown
  BY <1>13, SetNamedUnknownKeeps
<1>14. CASE SetOuter
  BY <1>14, SetOuterKeeps
<1>15. ASSUME NEW l \in Loggers, CallRemoveLogger(l)
       PROVE  IInv'
  BY <1>15, RemoveLoggerCallKeeps
<1>16. ASSUME NEW n \in Names, CallRemoveLoggerName(n)
       PROVE  IInv'
  BY <1>16, RemoveLoggerNameKeeps
<1>17. CASE CallReset
  BY <1>17, ResetKeeps
<1>18. CASE Exhausted \/ UNCHANGED vars
  <2>1. UNCHANGED <<existing, data, registered, op, requests, calls>>
    BY <1>18 DEF Exhausted, vars
  <2>2. Calling' /\ calls' \in Nat /\ \A d, l : Unread(d, l) => Unread(d, l)'
    BY <2>1 DEF IInv, Typed, Calling, HasName, Unread
  <2> QED
    BY <2>1, <2>2, TreesStay
<1> QED
  BY <1>1, <1>2, <1>3, <1>4, <1>5, <1>6, <1>7, <1>8, <1>9, <1>10, <1>11, <1>12, <1>13,
     <1>14, <1>15, <1>16, <1>17, <1>18 DEF Next

\* IInv holds at every step of every operation.
THEOREM Invariant == Spec => []IInv
<1> QED
  BY InitIInv, NextIInv, PTL DEF Spec

\* The state of a Lox is well-formed: existing domains, registered loggers and the entries of
\* the trees are what they should be.
THEOREM TypeCorrect == Spec => []TypeOK
<1>1. IInv => TypeOK
  <2> SUFFICES ASSUME IInv PROVE TypeOK
    OBVIOUS
  <2>1. \A d \in Domains : \A i \in DOMAIN data[d] :
          data[d][i].logger \in Loggers /\ data[d][i].setting \in Settings
    BY EntryFacts DEF IInv, Typed
  <2> QED
    BY <2>1 DEF IInv, Typed, Calling, TypeOK, Settings
<1> QED
  BY <1>1, Invariant, PTL

\* The same index addresses the same logger in all domains of a tree, and the names of the
\* loggers of a domain are unique: what Domain::SetVerbosity, AddLogger and RemoveLogger rely on.
THEOREM IndexAlignedAlways == Spec => []IndexAligned
<1>1. IInv => IndexAligned
  <2> SUFFICES ASSUME IInv, NEW d \in existing, NEW r, r = RootOf(d)
               PROVE  /\ Len(data[d]) = Len(data[r])
                      /\ \A i \in DOMAIN data[d] : data[d][i].logger = data[r][i].logger
                      /\ \A i, j \in DOMAIN data[d] :
                            NameOf[data[d][i].logger] = NameOf[data[d][j].logger] => i = j
    BY DEF IndexAligned
  <2>1. /\ DOMAIN data[d] = DOMAIN data[r]
        /\ \A i \in DOMAIN data[d] : data[d][i].logger = data[r][i].logger
        /\ \A i, j \in DOMAIN data[d] :
              NameOf[data[d][i].logger] = NameOf[data[d][j].logger] => i = j
    BY DEF IInv, Aligned
  <2>2. d \in Domains /\ r \in Domains /\ data \in Forests
    BY RootFacts DEF IInv, Typed
  <2>3. PICK m \in Nat, n \in Nat : /\ m = Len(data[d]) /\ DOMAIN data[d] = 1..m
                                    /\ n = Len(data[r]) /\ DOMAIN data[r] = 1..n
    BY <2>2, EntryFacts
  <2>4. m = n
    <3>1. \A i \in Nat : i \in 1..m <=> i \in 1..n
      BY <2>1, <2>3
    <3>2. m <= n /\ n <= m
      BY <3>1
    <3> QED
      BY <3>2
  <2> QED
    BY <2>1, <2>3, <2>4
<1> QED
  BY <1>1, Invariant, PTL

\* Priorities do not decrease on the way down, so that the recursion of Domain::SetVerbosity may
\* stop at the first domain of higher priority.
THEOREM PriorityMonotoneAlways == Spec => []PriorityMonotone
<1>1. IInv => PriorityMonotone
  BY DEF IInv, Monotone, PriorityMonotone
<1> QED
  BY <1>1, Invariant, PTL

\* After the nested call of SetVerbosity by name, the tree has a logger of the name: the
\* assertion of the code never fails.
THEOREM NestedCallAddsAlways == Spec => []NestedCallAdds
<1>1. IInv => NestedCallAdds
  <2> SUFFICES ASSUME IInv, op.step = "outer"
               PROVE  NamedNo(op.outer.domain, NameOf[op.who]) # 0
    BY DEF NestedCallAdds
  <2>1. PICK d, n : /\ d = op.outer.domain /\ n = NameOf[op.who]
                    /\ d \in existing /\ HasName(data, d, n)
    BY DEF IInv, Calling
  <2>2. NamedNo(d, n) # 0
    BY <2>1, NumbersHere
  <2> QED
    BY <2>1, <2>2
<1> QED
  BY <1>1, Invariant, PTL

\* Between operations, no domain has missed the configuration of a logger.
THEOREM ConfigurationReadAlways == Spec => []ConfigurationRead
<1>1. IInv => ConfigurationRead
  BY DEF IInv, Read, Unread, Idle, ConfigurationRead
<1> QED
  BY <1>1, Invariant, PTL

\* The loggers of the two trees have the Lox as an acquirer, and only they do, except for
\* loggers that share their name with another one.
THEOREM AttachedAreRegisteredAlways == Spec => []AttachedAreRegistered
<1>1. IInv => AttachedAreRegistered
  <2> SUFFICES ASSUME IInv PROVE AttachedAreRegistered
    OBVIOUS
  <2>1. \A l \in Loggers, r \in Roots : Attached(l, r) <=> Has(data, r, l)
    BY NumbersHere DEF IInv, Typed, Attached
  <2>2. PICK acquired : acquired = registered /\ Known(data, acquired)
    BY DEF IInv
  <2>3. ASSUME NEW l \in Loggers, NEW r \in Roots, Attached(l, r)
        PROVE  l \in acquired
    BY <2>1, <2>2, <2>3 DEF Known
  <2>4. ASSUME NEW l \in Loggers, l \in acquired,
               \A k \in Loggers : NameOf[k] = NameOf[l] => k = l
        PROVE  \E r \in Roots : Attached(l, r)
    BY <2>1, <2>2, <2>4 DEF Known
  <2> QED
    BY <2>2, <2>3, <2>4 DEF AttachedAreRegistered
<1> QED
  BY <1>1, Invariant, PTL

-----------------------------------------------------------------------------
(***************************************************************************)
(* The refinement: what the two trees hold is what VerbositySettings says. *)
(* Its mapping looks a domain up at its nearest existing ancestor, so that *)
(* the creation of domains must be shown to change no other domain.        *)
(***************************************************************************)
\* Every domain, whether it exists or not, has a nearest ancestor that does.
HasNearest ==
    \A d \in Domains : \E e \in Within[d] \cap existing :
        \A f \in Within[d] \cap existing : f \in Within[e]

\* What is set by calls is what clients ask for, or comes with a nested call.
Asks ==
    /\ requests \subseteq Asked
    /\ op.step = "find" /\ op.kind \in {"logger", "name"} => op.setting \in Asked
    /\ \/ op.step \in {"config", "outer"}
       \/ op.step = "find" /\ op.kind = "logger"
       => op.outer.setting \in Asked \cup {NotAttached}

MapInv == HasNearest /\ Asks

\* The nearest existing ancestor.
LEMMA NearestFacts ==
    ASSUME Typed, HasNearest, NEW d \in Domains
    PROVE  /\ Nearest(d) \in existing /\ Nearest(d) \in Within[d] /\ Nearest(d) \in Domains
           /\ RootOf(Nearest(d)) = RootOf(d)
           /\ \A e \in existing : e \in Within[d] <=> e \in Within[Nearest(d)]
           /\ d \in existing => Nearest(d) = d
<1>1. PICK n : /\ n = Nearest(d) /\ n \in Within[d] \cap existing
               /\ \A f \in Within[d] \cap existing : f \in Within[n]
  <2>1. PICK n \in Within[d] \cap existing : \A f \in Within[d] \cap existing : f \in Within[n]
    BY DEF HasNearest
  <2> QED
    BY <2>1 DEF Nearest
<1>2. n \in Domains /\ n \in existing /\ n \in Within[d] /\ Within[n] \subseteq Within[d]
  BY <1>1, TreeAssumption DEF Typed
<1>3. RootOf(n) = RootOf(d)
  BY <1>2, RootFacts
<1>4. \A e \in existing : e \in Within[d] <=> e \in Within[n]
  BY <1>1, <1>2
<1>5. ASSUME d \in existing
      PROVE  n = d
  <2>1. d \in Within[d]
    BY TreeAssumption
  <2>2. d \in Within[n]
    BY <1>1, <1>5, <2>1
  <2> QED
    BY <1>2, <2>2, TreeAssumption
<1> QED
  BY <1>1, <1>2, <1>3, <1>4, <1>5

\* Below the domains that the constructor creates there are none at first.
LEMMA InitMapInv == Init => MapInv
<1> SUFFICES ASSUME Init PROVE MapInv
  OBVIOUS
<1>1. /\ existing = Roots \cup Predefined /\ op = Idle
      /\ calls \in DOMAIN Clients /\ requests = Clients[calls]
  BY DEF Init
<1>2. HasNearest
  <2>1. ASSUME NEW d \in Domains
        PROVE  \E e \in Within[d] \cap existing : \A f \in Within[d] \cap existing : f \in Within[e]
    <3>1. PICK r : r = RootOf(d) /\ r \in Roots /\ r \in Within[d] /\ r \in existing
      BY <1>1, RootFacts
    <3>2. r \in Within[r]
      BY <3>1, RootFacts
    <3>3. CASE \E e \in Within[d] \cap existing : e \notin Roots
      <4>1. PICK e \in Within[d] \cap existing : e \notin Roots
        BY <3>3
      <4>2. e \in Domains /\ e \in Within[e] /\ RootOf(e) = r /\ r \in Within[e]
        BY <3>1, <4>1, RootFacts, TreeAssumption
      <4>3. ASSUME NEW f \in Within[d] \cap existing
            PROVE  f \in Within[e]
        <5>1. f \in Domains /\ RootOf(f) = r
          BY <3>1, <4>3, RootFacts
        <5>2. CASE f \in Roots
          BY <3>1, <4>2, <5>1, <5>2, RootFacts
        <5>3. CASE f \notin Roots
          <6>1. Within[f] = {InternalRoot, f} /\ InternalRoot \in Roots
            BY <1>1, <5>3, TreeAssumption DEF Roots
          <6>2. e \in Within[f] \/ f \in Within[e]
            BY <4>1, TreeAssumption
          <6> QED
            BY <4>1, <4>2, <6>1, <6>2
        <5> QED
          BY <5>2, <5>3
      <4> QED
        BY <4>1, <4>3
    <3>4. CASE ~\E e \in Within[d] \cap existing : e \notin Roots
      <4>1. \A f \in Within[d] \cap existing : f = r
        BY <3>1, <3>4, RootFacts
      <4> QED
        BY <3>1, <3>2, <4>1
    <3> QED
      BY <3>3, <3>4
  <2> QED
    BY <2>1 DEF HasNearest
<1>3. Asks
  BY <1>1 DEF Asks, Asked, AskedByClients, Idle
<1> QED
  BY <1>2, <1>3 DEF MapInv

\* A domain that is created becomes the nearest one for itself and what is below.
LEMMA CreateDomainNearest ==
    ASSUME IInv, HasNearest, CreateDomain
    PROVE  \E c \in Domains, p \in existing :
             /\ c \notin existing /\ existing' = existing \cup {c}
             /\ p = Parent(c) /\ p \in Domains
             /\ data' = [data EXCEPT ![c] = ConfiguredData(data[p], c)]
             /\ HasNearest'
             /\ \A d \in Domains : c \in Within[d] => Nearest(d) = p /\ Nearest(d)' = c
             /\ \A d \in Domains : c \notin Within[d] => Nearest(d)' = Nearest(d)
<1>1. PICK c : /\ c \in Within[op.domain] \ existing /\ Parent(c) \in existing
               /\ existing' = existing \cup {c}
               /\ data' = [data EXCEPT ![c] = ConfiguredData(data[Parent(c)], c)]
  BY DEF CreateDomain
<1>2. /\ Typed /\ existing \subseteq Domains /\ Roots \subseteq existing
      /\ \A e \in existing : Within[e] \subseteq existing
      /\ op.domain \in Domains
  BY DEF CreateDomain, IInv, Typed, Calling
<1>3. c \in Domains \ Roots /\ c \notin existing /\ c \in Within[c]
  BY <1>1, <1>2, TreeAssumption
<1>4. PICK p : /\ p = Parent(c) /\ p \in existing /\ p \in Within[c] /\ p \in Domains
               /\ \A e \in Within[c] \ {c} : e \in Within[p]
  BY <1>1, <1>2, <1>3, ParentFacts
<1>5. ASSUME NEW d \in Domains, c \in Within[d]
      PROVE  Nearest(d) = p /\ \A f \in Within[d] \cap existing : f \in Within[c]
  <2>1. PICK n : /\ n = Nearest(d) /\ n \in existing /\ n \in Within[d] /\ n \in Domains
                 /\ \A e \in existing : e \in Within[d] <=> e \in Within[n]
    BY <1>2, NearestFacts
  <2>2. ASSUME NEW f \in Within[d] \cap existing
        PROVE  f \in Within[c]
    <3>1. f \in Within[c] \/ c \in Within[f]
      BY <1>5, TreeAssumption
    <3> QED
      BY <1>2, <1>3, <3>1
  <2>3. n \in Within[p]
    BY <1>3, <1>4, <2>1, <2>2
  <2>4. p \in Within[d]
    BY <1>4, <1>5, TreeAssumption
  <2>5. p \in Within[n]
    BY <1>4, <2>1, <2>4
  <2>6. n = p
    BY <1>4, <2>1, <2>3, <2>5, TreeAssumption
  <2> QED
    BY <2>1, <2>2, <2>6
<1>6. ASSUME NEW d \in Domains, c \in Within[d]
      PROVE  /\ c \in Within[d] \cap existing'
             /\ \A f \in Within[d] \cap existing' : f \in Within[c]
             /\ Nearest(d)' = c
  <2>1. c \in Within[d] \cap existing' /\ \A f \in Within[d] \cap existing' : f \in Within[c]
    BY <1>1, <1>3, <1>5, <1>6
  <2>2. ASSUME NEW n \in Within[d] \cap existing',
               \A f \in Within[d] \cap existing' : f \in Within[n]
        PROVE  n = c
    <3>1. n \in Within[c] /\ c \in Within[n] /\ n \in Domains
      BY <1>6, <2>1, <2>2, TreeAssumption
    <3> QED
      BY <1>3, <3>1, TreeAssumption
  <2> QED
    BY <2>1, <2>2 DEF Nearest
<1>7. ASSUME NEW d \in Domains, c \notin Within[d]
      PROVE  Within[d] \cap existing' = Within[d] \cap existing /\ Nearest(d)' = Nearest(d)
  <2>1. Within[d] \cap existing' = Within[d] \cap existing
    BY <1>1, <1>7
  <2> QED
    BY <2>1 DEF Nearest
<1>8. HasNearest'
  <2>1. ASSUME NEW d \in Domains
        PROVE  \E e \in Within[d] \cap existing' :
                  \A f \in Within[d] \cap existing' : f \in Within[e]
    BY <1>6, <1>7 DEF HasNearest
  <2> QED
    BY <2>1 DEF HasNearest
<1>9. PICK g : g = data' /\ g = [data EXCEPT ![c] = ConfiguredData(data[p], c)]
  BY <1>1, <1>4
<1>10. /\ c \in Domains /\ p \in existing /\ c \notin existing /\ existing' = existing \cup {c}
       /\ p = Parent(c) /\ p \in Domains /\ HasNearest'
       /\ \A d \in Domains : c \in Within[d] => Nearest(d) = p /\ Nearest(d)' = c
       /\ \A d \in Domains : c \notin Within[d] => Nearest(d)' = Nearest(d)
  BY <1>1, <1>3, <1>4, <1>5, <1>6, <1>7, <1>8
<1> QED
  BY <1>9, <1>10

\* Every step keeps the second invariant.
LEMMA NextMapInv == IInv /\ MapInv /\ [Next]_vars => MapInv'
<1> SUFFICES ASSUME IInv, MapInv, [Next]_vars PROVE MapInv'
  OBVIOUS
<1>1. HasNearest'
  <2>1. CASE existing' = existing
    BY <2>1 DEF MapInv, HasNearest
  <2>2. CASE existing' = Roots
    <3>1. \A d \in Domains : RootOf(d) \in Roots /\ RootOf(d) \in Within[d]
      BY RootFacts
    <3>2. \A d \in Domains : \A f \in Within[d] \cap Roots : f = RootOf(d)
      BY RootFacts
    <3>3. \A r \in Roots : r \in Within[r]
      BY TreeAssumption
    <3> QED
      BY <2>2, <3>1, <3>2, <3>3 DEF HasNearest
  <2>3. CASE CreateDomain
    BY <2>3, CreateDomainNearest DEF MapInv
  <2>4. existing' = existing \/ existing' = Roots \/ CreateDomain
    BY DEF Next, vars, CallSetVerbosity, CallSetVerbosityName, CallEntry, Begin, EntryDone,
           SetKnown, SetNameTaken, SetNew, ConfigureDomain, ConfigureDone, SetNamed,
           SetNamedOther, SetNamedUnknown, SetOuter, CallRemoveLogger, CallRemoveLoggerName,
           CallReset, Exhausted
  <2> QED
    BY <2>1, <2>2, <2>3, <2>4
<1>2. Asks'
  <2>1. requests \subseteq Asked /\ Setting("Off", PrioSource) \in Asked /\ requests' = requests
    <3>1. requests' = requests
      BY DEF Next, vars, CallSetVerbosity, CallSetVerbosityName, CallEntry, Begin, Called,
             CreateDomain, EntryDone, SetKnown, SetNameTaken, SetNew, ConfigureDomain,
             ConfigureDone, SetNamed, SetNamedOther, SetNamedUnknown, SetOuter,
             CallRemoveLogger, CallRemoveLoggerName, CallReset, Exhausted
    <3>2. Setting("Off", PrioSource) \in Asked
      BY DEF Asked
    <3> QED
      BY <3>1, <3>2 DEF MapInv, Asks
  <2>2. /\ Found("logger") \/ Found("name") => op.setting \in Asked
        /\ Found("logger") \/ op.step \in {"config", "outer"} =>
             op.outer.setting \in Asked \cup {NotAttached}
    BY DEF Found, MapInv, Asks
  <2>3. CASE op' = op
    BY <2>1, <2>3 DEF MapInv, Asks
  <2>4. CASE op' = Idle
    BY <2>1, <2>4 DEF Asks, Idle
  <2>5. CASE ConfigureDomain
    <3>1. op'.step = "config" /\ op'.outer = op.outer /\ op.step = "config"
      BY <2>5 DEF ConfigureDomain, IInv, Calling
    <3> QED
      BY <2>1, <2>2, <3>1 DEF Asks
  <2>6. CASE op' = Resume /\ (Found("logger") \/ op.step = "config")
    <3>1. CASE op.outer.setting = NotAttached
      BY <2>1, <2>6, <3>1 DEF Resume, Asks, Idle
    <3>2. CASE op.outer.setting # NotAttached
      <4>1. op'.step = "outer" /\ op'.outer.setting = op.outer.setting
        BY <2>6, <3>2 DEF Resume
      <4> QED
        BY <2>1, <2>2, <2>6, <4>1 DEF Asks
    <3> QED
      BY <3>1, <3>2
  <2>7. CASE SetNew
    <3>1. op'.step = "config" /\ op'.outer = op.outer /\ Found("logger")
      BY <2>7 DEF SetNew
    <3> QED
      BY <2>1, <2>2, <3>1 DEF Asks
  <2>8. CASE SetNamedOther
    <3>1. /\ op'.step = "find" /\ op'.setting = Setting("Off", PrioSource)
          /\ op'.outer.setting = op.setting /\ Found("name")
      BY <2>8 DEF SetNamedOther, Request
    <3> QED
      BY <2>1, <2>2, <3>1 DEF Asks
  <2>9. ASSUME NEW kind, NEW who, NEW d, NEW s, Begin(Request(kind, who, d, s, NoOuter)),
               s \in Asked \/ kind = "entry"
        PROVE  Asks'
    <3>1. /\ op'.step = "find" /\ op'.kind = kind /\ op'.setting = s
          /\ op'.outer.setting = NotAttached
      BY <2>9 DEF Begin, Request, NoOuter
    <3> QED
      BY <2>1, <2>9, <3>1 DEF Asks
  <2>10. CASE \/ \E l \in Loggers, d \in Domains, s \in requests : CallSetVerbosity(l, d, s)
              \/ \E n \in Names, d \in Domains, s \in requests : CallSetVerbosityName(n, d, s)
              \/ \E d \in Domains : CallEntry(d)
    BY <2>1, <2>9, <2>10 DEF CallSetVerbosity, CallSetVerbosityName, CallEntry
  <2>11. \/ op' = op \/ op' = Idle \/ ConfigureDomain \/ SetNew \/ SetNamedOther
         \/ op' = Resume /\ (Found("logger") \/ op.step = "config")
         \/ \E l \in Loggers, d \in Domains, s \in requests : CallSetVerbosity(l, d, s)
         \/ \E n \in Names, d \in Domains, s \in requests : CallSetVerbosityName(n, d, s)
         \/ \E d \in Domains : CallEntry(d)
    BY DEF Next, vars, CreateDomain, EntryDone, SetKnown, SetNameTaken, ConfigureDone, SetNamed,
           SetNamedUnknown, SetOuter, CallRemoveLogger, CallRemoveLoggerName, CallReset, Exhausted
  <2> QED
    BY <2>3, <2>4, <2>5, <2>6, <2>7, <2>8, <2>10, <2>11
<1> QED
  BY <1>1, <1>2 DEF MapInv

-----------------------------------------------------------------------------
\* near[d] is the nearest existing ancestor of d.
IsNearest(near) ==
    \A d \in Domains :
      /\ near[d] \in existing /\ near[d] \in Domains
      /\ \A e \in existing : e \in Within[d] <=> e \in Within[near[d]]
      /\ d \in existing => near[d] = d

nearest == [d \in Domains |-> Nearest(d)]

\* eff has the settings of forest f, each domain those of its nearest existing ancestor.
Maps(f, near, eff) ==
    /\ eff = [d \in Domains |-> [l \in Loggers |-> eff[d][l]]]
    /\ \A d \in Domains, l \in Loggers : ~Has(f, near[d], l) => eff[d][l] = NotAttached
    /\ \A d \in Domains, l \in Loggers : \A i \in DOMAIN f[near[d]] :
          f[near[d]][i].logger = l => eff[d][l] = f[near[d]][i].setting

\* What the refinement mapping gives is what the trees hold.
LEMMA EffectiveFacts == IInv /\ MapInv => IsNearest(nearest) /\ Maps(data, nearest, effective)
<1> SUFFICES ASSUME IInv, MapInv PROVE IsNearest(nearest) /\ Maps(data, nearest, effective)
  OBVIOUS
<1>1. \A d \in Domains : nearest[d] = Nearest(d)
  BY DEF nearest
<1>2. IsNearest(nearest)
  BY <1>1, NearestFacts DEF IInv, MapInv, IsNearest
<1>3. \A d \in Domains, l \in Loggers : effective[d][l] = AbstractSetting(d, l)
  BY DEF effective
<1>4. effective = [d \in Domains |-> [l \in Loggers |-> effective[d][l]]]
  BY <1>3 DEF effective
<1>5. ASSUME NEW d \in Domains, NEW l \in Loggers
      PROVE  /\ ~Has(data, nearest[d], l) => effective[d][l] = NotAttached
             /\ \A i \in DOMAIN data[nearest[d]] :
                  data[nearest[d]][i].logger = l => effective[d][l] = data[nearest[d]][i].setting
  <2>1. PICK n : n = Nearest(d) /\ n = nearest[d] /\ n \in existing
    BY <1>1, <1>2 DEF IsNearest
  <2>2. PICK no : /\ no = LoggerNo(n, l)
                  /\ 0 \notin DOMAIN data[n]
                  /\ \A i \in DOMAIN data[n] : data[n][i].logger = l <=> i = no
                  /\ no # 0 <=> Has(data, n, l)
    BY <2>1, NumbersHere
  <2>3. effective[d][l] = IF no = 0 THEN NotAttached ELSE data[n][no].setting
    BY <1>3, <2>1, <2>2 DEF AbstractSetting
  <2> QED
    BY <2>1, <2>2, <2>3
<1> QED
  BY <1>2, <1>4, <1>5 DEF Maps

\* Domain::SetVerbosity sets exactly the domains below whose priority is not higher.
LEMMA SetVerbosityExact ==
    ASSUME Typed, NEW f \in Forests, Aligned(f, existing), Monotone(f, existing),
           NEW d \in existing, NEW no \in DOMAIN f[d], NEW s \in Settings,
           NEW g, g = SetVerbosity(f, d, no, s), NEW e \in existing, NEW i \in DOMAIN f[e]
    PROVE  g[e][i].setting = IF i = no /\ d \in Within[e] /\ f[e][no].setting.priority <= s.priority
                               THEN s ELSE f[e][i].setting
<1>1. d \in Domains /\ e \in Domains /\ e \in Within[e]
  BY TreeAssumption DEF Typed
<1>2. g[e] = IF e \in Affected(f, d, no, s) THEN [f[e] EXCEPT ![no].setting = s] ELSE f[e]
  BY <1>1 DEF SetVerbosity
<1>3. CASE d \in Within[e]
  <2>1. no \in DOMAIN f[e] /\ f[e][no].setting.priority \in Int
    <3>1. RootOf(e) = RootOf(d)
      BY <1>1, <1>3, RootFacts
    <3>2. no \in DOMAIN f[e]
      BY <3>1 DEF Aligned
    <3> QED
      BY <1>1, <3>2, EntryFacts
  <2>2. ASSUME NEW x \in existing \cap Within[e], d \in Within[x]
        PROVE  /\ f[x][no].setting.priority <= f[e][no].setting.priority
               /\ f[x][no].setting.priority \in Int
    <3>1. x \in Domains /\ RootOf(x) = RootOf(d)
      BY <1>1, <2>2, RootFacts
    <3>2. no \in DOMAIN f[x]
      BY <3>1 DEF Aligned
    <3> QED
      BY <2>1, <3>1, <3>2, EntryFacts DEF Monotone
  <2>3. e \in Affected(f, d, no, s) <=> f[e][no].setting.priority <= s.priority
    <3>1. s.priority \in Int
      BY DEF Settings
    <3>2. ASSUME f[e][no].setting.priority <= s.priority,
                 NEW x \in existing \cap Below(d) \cap Within[e]
          PROVE  f[x][no].setting.priority <= s.priority
      BY <2>1, <2>2, <3>1, <3>2 DEF Below
    <3> QED
      BY <1>1, <1>3, <3>2 DEF Affected, Below
  <2>4. CASE f[e][no].setting.priority <= s.priority
    <3>1. PICK list, q : /\ list \in Seq(Entries) /\ list = f[e]
                         /\ q = [list EXCEPT ![no].setting = s]
      BY <1>1, EntryFacts
    <3>2. q[no].setting = s /\ \A j \in DOMAIN list \ {no} : q[j] = list[j]
      BY <2>1, <3>1, EntrySet
    <3>3. g[e] = q
      BY <1>2, <2>3, <2>4, <3>1
    <3> QED
      BY <1>3, <2>4, <3>1, <3>2, <3>3
  <2> QED
    BY <1>2, <2>3, <2>4
<1>4. CASE d \notin Within[e]
  BY <1>2, <1>4 DEF Affected, Below
<1> QED
  BY <1>3, <1>4

\* What VerbositySettings makes of eff when the settings new are made on domain d.
Overridden(eff, d, new) ==
    [e \in Domains |-> [l \in Loggers |->
        IF d \in Within[e] THEN Abstract!Override(eff[e][l], new[l]) ELSE eff[e][l]]]

Only(l, s) == [k \in Loggers |-> IF k = l THEN s ELSE NotAttached]

\* Setting one logger on a domain.
LEMMA SetVerbosityMaps ==
    ASSUME Typed, NEW f \in Forests, Aligned(f, existing), Monotone(f, existing),
           NEW d \in existing, NEW no \in DOMAIN f[d], NEW s \in Settings,
           NEW g, g = SetVerbosity(f, d, no, s)
    PROVE  \A near, eff, fin : IsNearest(near) /\ Maps(f, near, eff) /\ Maps(g, near, fin) =>
             /\ fin = Overridden(eff, d, Only(f[d][no].logger, s))
             /\ fin[d][f[d][no].logger] = s \/ fin = eff
<1> SUFFICES ASSUME NEW near, IsNearest(near), NEW eff, NEW fin,
                    Maps(f, near, eff), Maps(g, near, fin), NEW l, l = f[d][no].logger
             PROVE  /\ fin = Overridden(eff, d, Only(l, s))
                    /\ fin[d][l] = s \/ fin = eff
  OBVIOUS
<1>1. /\ s # NotAttached /\ s.priority \in Int
      /\ \A e \in Domains : \A i \in DOMAIN f[e] :
            /\ f[e][i].setting # NotAttached /\ f[e][i].setting.priority \in Int
            /\ f[e][i].logger \in Loggers
  BY SettingsAssumption, EntryFacts DEF Settings
<1>2. /\ Raised(f, g) /\ \A e \in existing : e \in Domains
      /\ \A e \in Domains : \A k : Has(g, e, k) <=> Has(f, e, k)
  BY SetVerbosityKeeps, RaisedKeeps DEF Typed
<1>3. ASSUME NEW e \in Domains, NEW k \in Loggers
      PROVE  /\ fin[e][k] = IF d \in Within[e] /\ k = l
                              THEN Abstract!Override(eff[e][k], s) ELSE eff[e][k]
             /\ ~(f[d][no].setting.priority <= s.priority) => fin[e][k] = eff[e][k]
  <2>1. PICK n : /\ n = near[e] /\ n \in existing /\ n \in Domains
                 /\ d \in Within[e] <=> d \in Within[n]
    BY DEF IsNearest
  <2>2. CASE ~Has(f, n, k)
    <3>1. eff[e][k] = NotAttached /\ fin[e][k] = NotAttached
      BY <1>2, <2>1, <2>2 DEF Maps
    <3> QED
      BY <3>1 DEF Abstract!Override
  <2>3. CASE Has(f, n, k)
    <3>1. PICK i \in DOMAIN f[n] : f[n][i].logger = k
      BY <2>3 DEF Has
    <3>2. i \in DOMAIN g[n] /\ g[n][i].logger = k
      BY <1>2, <2>1, <3>1 DEF Raised
    <3>3. eff[e][k] = f[n][i].setting /\ fin[e][k] = g[n][i].setting
      BY <2>1, <3>1, <3>2 DEF Maps
    <3>4. g[n][i].setting = IF i = no /\ d \in Within[n] /\ f[n][no].setting.priority <= s.priority
                              THEN s ELSE f[n][i].setting
      BY <2>1, SetVerbosityExact
    <3>5. ASSUME d \in Within[n]
          PROVE  /\ no \in DOMAIN f[n] /\ (k = l <=> i = no)
                 /\ f[d][no].setting.priority <= f[n][no].setting.priority
      <4>1. RootOf(n) = RootOf(d) /\ d \in Domains
        BY <1>2, <2>1, <3>5, RootFacts
      <4>2. no \in DOMAIN f[n] /\ f[n][no].logger = l
        BY <2>1, <4>1 DEF Aligned
      <4>3. k = l <=> i = no
        BY <2>1, <3>1, <4>2 DEF Aligned
      <4> QED
        BY <2>1, <3>5, <4>2, <4>3 DEF Monotone
    <3>6. CASE d \in Within[n] /\ i = no
      <4>1. fin[e][k] = IF f[n][no].setting.priority <= s.priority THEN s ELSE eff[e][k]
        BY <3>3, <3>4, <3>6
      <4>2. eff[e][k] # NotAttached /\ eff[e][k].priority = f[n][no].setting.priority
        BY <1>1, <2>1, <3>1, <3>3, <3>6
      <4>3. f[n][no].setting.priority \in Int /\ f[d][no].setting.priority \in Int
        BY <1>1, <1>2, <2>1, <3>5, <3>6
      <4>4. Abstract!Override(eff[e][k], s) =
               IF f[n][no].setting.priority <= s.priority THEN s ELSE eff[e][k]
        BY <1>1, <4>2, <4>3 DEF Abstract!Override
      <4>5. ~(f[d][no].setting.priority <= s.priority) => ~(f[n][no].setting.priority <= s.priority)
        BY <1>1, <3>5, <3>6, <4>3
      <4> QED
        BY <2>1, <3>5, <3>6, <4>1, <4>4, <4>5
    <3>7. CASE ~(d \in Within[n] /\ i = no)
      BY <2>1, <3>3, <3>4, <3>5, <3>7
    <3> QED
      BY <3>6, <3>7
  <2> QED
    BY <2>2, <2>3
<1>4. /\ fin = [e \in Domains |-> [k \in Loggers |-> fin[e][k]]]
      /\ eff = [e \in Domains |-> [k \in Loggers |-> eff[e][k]]]
  BY DEF Maps
<1>5. fin = Overridden(eff, d, Only(l, s))
  <2>1. ASSUME NEW e \in Domains, NEW k \in Loggers
        PROVE  fin[e][k] = IF d \in Within[e] THEN Abstract!Override(eff[e][k], Only(l, s)[k])
                                              ELSE eff[e][k]
    <3>1. Only(l, s)[k] = IF k = l THEN s ELSE NotAttached
      BY DEF Only
    <3>2. Abstract!Override(eff[e][k], NotAttached) = eff[e][k]
      BY DEF Abstract!Override
    <3> QED
      BY <1>3, <3>1, <3>2
  <2> QED
    BY <1>4, <2>1 DEF Overridden
<1>6. ASSUME f[d][no].setting.priority <= s.priority
      PROVE  fin[d][l] = s
  <2>1. d \in Domains /\ near[d] = d /\ d \in Within[d] /\ l \in Loggers
    BY <1>1, <1>2, TreeAssumption DEF IsNearest
  <2>2. no \in DOMAIN g[d] /\ g[d][no].logger = l
    BY <1>2, <2>1 DEF Raised
  <2>3. fin[d][l] = g[d][no].setting
    <3>1. no \in DOMAIN g[near[d]] /\ g[near[d]][no].logger = l
      BY <2>1, <2>2
    <3>2. fin[d][l] = g[near[d]][no].setting
      BY <2>1, <3>1 DEF Maps
    <3> QED
      BY <2>1, <3>2
  <2>4. g[d][no].setting = s
    BY <1>6, <2>1, SetVerbosityExact
  <2> QED
    BY <2>3, <2>4
<1>7. ASSUME ~(f[d][no].setting.priority <= s.priority)
      PROVE  fin = eff
  BY <1>3, <1>4, <1>7
<1> QED
  BY <1>5, <1>6, <1>7

-----------------------------------------------------------------------------
(***************************************************************************)
(* Each step is a step of VerbositySettings, or changes no setting.        *)
(***************************************************************************)
\* The mapping before and after a step.
LEMMA Mapped ==
    IInv /\ MapInv /\ IInv' /\ MapInv' =>
      /\ IsNearest(nearest) /\ Maps(data, nearest, effective)
      /\ IsNearest(nearest)' /\ Maps(data', nearest', effective')
<1>1. (IInv /\ MapInv)' => (IsNearest(nearest) /\ Maps(data, nearest, effective))'
  BY EffectiveFacts, PTL
<1> QED
  BY <1>1, EffectiveFacts

\* Steps that do not touch the trees.
LEMMA TreesStutter == ASSUME UNCHANGED <<existing, data>> PROVE effective' = effective
BY DEF effective, AbstractSetting, Nearest, LoggerNo, FirstOf

\* A verbosity that is set takes hold, or no domain is set.
LEMMA SetIsSet ==
    ASSUME IInv, MapInv, IInv', MapInv', existing' = existing,
           NEW d \in existing, NEW no \in DOMAIN data[d], NEW s \in Settings,
           data' = SetVerbosity(data, d, no, s), NEW l, l = data[d][no].logger
    PROVE  effective' = effective \/ Abstract!Set(d, l, s)
<1>1. PICK f, g, near, eff, fin :
        /\ f = data /\ g = data' /\ near = nearest /\ eff = effective /\ fin = effective'
        /\ IsNearest(near) /\ Maps(f, near, eff) /\ Maps(g, near, fin)
  <2>1. nearest' = nearest
    BY DEF nearest, Nearest
  <2> QED
    BY <2>1, Mapped
<1>2. /\ Typed /\ f \in Forests /\ Aligned(f, existing) /\ Monotone(f, existing)
      /\ no \in DOMAIN f[d] /\ g = SetVerbosity(f, d, no, s) /\ l = f[d][no].logger
  BY <1>1 DEF IInv, Typed
<1>3. /\ fin = Overridden(eff, d, Only(l, s))
      /\ fin[d][l] = s \/ fin = eff
  <2>1. IsNearest(near) /\ Maps(f, near, eff) /\ Maps(g, near, fin)
    BY <1>1
  <2>2. \A n, x, y : IsNearest(n) /\ Maps(f, n, x) /\ Maps(g, n, y) =>
          /\ y = Overridden(x, d, Only(f[d][no].logger, s))
          /\ y[d][f[d][no].logger] = s \/ y = x
    BY <1>2, SetVerbosityMaps
  <2> QED
    BY <1>2, <2>1, <2>2
<1>4. CASE fin = eff
  BY <1>1, <1>4
<1>5. CASE fin[d][l] = s
  <2>1. effective'[d][l] = s
    BY <1>1, <1>5
  <2>2. Abstract!Apply(d, Only(l, s))
    BY <1>1, <1>3 DEF Abstract!Apply, Overridden
  <2> QED
    BY <2>1, <2>2 DEF Abstract!Set, Only
<1> QED
  BY <1>3, <1>4, <1>5

\* A setting that a call asks for is one of VerbositySettings.
LEMMA SetIsNext ==
    ASSUME IInv, MapInv, IInv', MapInv', existing' = existing,
           NEW d \in existing, NEW no \in DOMAIN data[d], NEW s \in Asked \cap Settings,
           data' = SetVerbosity(data, d, no, s)
    PROVE  effective' = effective \/ Abstract!Next
<1>1. PICK l : l = data[d][no].logger /\ l \in Loggers /\ d \in Domains
  BY EntryFacts DEF IInv, Typed
<1>2. effective' = effective \/ Abstract!Set(d, l, s)
  BY <1>1, SetIsSet
<1> QED
  BY <1>1, <1>2 DEF Abstract!Next

\* A logger that the tree knows is set on a domain.
LEMMA SetKnownMaps ==
    ASSUME IInv, MapInv, IInv', MapInv', SetKnown PROVE effective' = effective \/ Abstract!Next
<1>1. PICK d, no, s : /\ d = op.domain /\ no = LoggerNo(d, op.who) /\ s = op.setting
                      /\ d \in existing /\ no # 0 /\ s \in Asked \cap Settings
                      /\ data' = SetVerbosity(data, d, no, s) /\ existing' = existing
                      /\ op.who \in Loggers
  BY DEF SetKnown, Found, IInv, Calling, MapInv, Asks
<1>2. no \in DOMAIN data[d]
  BY <1>1, NumbersHere
<1> QED
  BY <1>1, <1>2, SetIsNext

\* So is one that is found by its name.
LEMMA SetNamedMaps ==
    ASSUME IInv, MapInv, IInv', MapInv', SetNamed PROVE effective' = effective \/ Abstract!Next
<1>1. PICK d, no, s : /\ d = op.domain /\ no = NamedNo(d, op.who) /\ s = op.setting
                      /\ d \in existing /\ no # 0 /\ s \in Asked \cap Settings
                      /\ data' = SetVerbosity(data, d, no, s) /\ existing' = existing
  BY DEF SetNamed, Found, IInv, Calling, MapInv, Asks
<1>2. no \in DOMAIN data[d]
  BY <1>1, NumbersHere
<1> QED
  BY <1>1, <1>2, SetIsNext

\* The setting that waited for the nested call takes hold.
LEMMA SetOuterMaps ==
    ASSUME IInv, MapInv, IInv', MapInv', SetOuter PROVE effective' = effective \/ Abstract!Next
<1>1. /\ op.step = "outer" /\ op.outer.domain \in existing /\ op.outer.setting \in Settings
      /\ op.outer.setting \in Asked
      /\ HasName(data, op.outer.domain, NameOf[op.who])
  BY SettingsAssumption DEF SetOuter, IInv, Calling, MapInv, Asks, Settings
<1>2. PICK d, no, s : /\ d = op.outer.domain /\ no = NamedNo(d, NameOf[op.who])
                      /\ s = op.outer.setting /\ d \in existing /\ s \in Asked \cap Settings
                      /\ data' = SetVerbosity(data, d, no, s) /\ existing' = existing
  BY <1>1 DEF SetOuter
<1>3. no \in DOMAIN data[d]
  BY <1>1, <1>2, NumbersHere
<1> QED
  BY <1>2, <1>3, SetIsNext

\* The configuration is read for one domain and one logger.
LEMMA ConfigureDomainMaps ==
    ASSUME IInv, MapInv, IInv', MapInv', ConfigureDomain
    PROVE  effective' = effective \/ Abstract!Next
<1>1. PICK d, l, no, rule :
        /\ d \in existing /\ l = op.who /\ l \in Loggers /\ no = LoggerNo(d, l)
        /\ rule = FromConfig(l, d, data[d][no].setting.priority)
        /\ data' = IF no # 0 /\ rule # NotAttached THEN SetVerbosity(data, d, no, rule) ELSE data
        /\ existing' = existing
  <2>1. op.who \in Loggers /\ op.todo \subseteq existing
    BY DEF ConfigureDomain, IInv, Calling
  <2> QED
    BY <2>1 DEF ConfigureDomain
<1>2. CASE no # 0 /\ rule # NotAttached
  <2>1. no \in DOMAIN data[d] /\ data[d][no].logger = l /\ d \in Domains
    BY <1>1, <1>2, NumbersHere, SMTT(30) DEF IInv, Typed
  <2>2. Config[NameOf[l]][d] # NoRule
    BY <1>1, <1>2 DEF FromConfig
  <2>3. rule = Setting(Config[NameOf[l]][d], ConfigPriority) /\ rule \in Settings
    BY <1>1, <1>2, <2>1, <2>2, SettingsAssumption, PriorityAssumption
       DEF FromConfig, Setting, Settings, Names
  <2>4. rule = FromConfig(l, d, 0)
    BY <2>2, <2>3, PriorityAssumption DEF FromConfig
  <2>5. effective' = effective \/ Abstract!Set(d, l, rule)
    BY <1>1, <1>2, <2>1, <2>3, SetIsSet
  <2>6. Abstract!Set(d, l, rule) => Abstract!Configure(d, l)
    BY <1>1, <2>1, <2>4 DEF Abstract!Configure
  <2> QED
    BY <1>1, <2>1, <2>5, <2>6 DEF Abstract!Next
<1>3. CASE ~(no # 0 /\ rule # NotAttached)
  BY <1>1, <1>3, TreesStutter
<1> QED
  BY <1>2, <1>3

\* A logger is attached to a tree, with a first setting on one domain.
LEMMA SetNewMaps ==
    ASSUME IInv, MapInv, IInv', MapInv', SetNew PROVE Abstract!Next
<1>1. PICK d, r, l, s : /\ d = op.domain /\ r = RootOf(d) /\ l = op.who /\ s = op.setting
                        /\ d \in existing /\ l \in Loggers /\ s \in Asked \cap Settings
  BY DEF SetNew, Found, IInv, Calling, MapInv, Asks
<1>2. /\ Typed /\ data \in Forests /\ Aligned(data, existing) /\ Monotone(data, existing)
      /\ d \in Domains /\ r \in Roots /\ r \in existing /\ r \in Domains /\ r \in Within[d]
  BY <1>1, RootFacts DEF IInv, Typed
<1>3. PICK n, h, g : /\ n = Len(data[r]) + 1 /\ h = AddLogger(r, l) /\ g = SetVerbosity(h, d, n, s)
                     /\ data' = g /\ existing' = existing /\ NamedNo(r, NameOf[l]) = 0
  BY <1>1 DEF SetNew
<1>4. PICK near, eff, fin :
        /\ eff = effective /\ fin = effective'
        /\ IsNearest(near) /\ Maps(data, near, eff) /\ Maps(g, near, fin)
  <2>1. nearest' = nearest
    BY <1>3 DEF nearest, Nearest
  <2> QED
    BY <1>3, <2>1, Mapped
<1>5. ~HasName(data, r, NameOf[l]) /\ ~Has(data, r, l)
  <2>1. ~HasName(data, r, NameOf[l])
    BY <1>2, <1>3, NumbersHere
  <2> QED
    BY <2>1 DEF Has, HasName
<1>6. /\ h \in Forests /\ Aligned(h, existing) /\ Monotone(h, existing) /\ n \in DOMAIN h[r]
      /\ \A e \in existing : r \in Within[e] =>
           /\ DOMAIN h[e] = DOMAIN data[e] \cup {n} /\ n \notin DOMAIN data[e]
           /\ h[e][n] = LoggerData(l, Fresh)
           /\ \A i \in DOMAIN data[e] : h[e][i] = data[e][i]
      /\ \A e \in Domains : r \notin Within[e] => h[e] = data[e]
  BY <1>1, <1>2, <1>3, <1>5, AddLoggerKeeps
<1>7. /\ n \in DOMAIN h[d] /\ Raised(h, g)
      /\ \A e \in existing : \A i \in DOMAIN h[e] :
           g[e][i].setting = IF i = n /\ d \in Within[e] /\ h[e][n].setting.priority <= s.priority
                               THEN s ELSE h[e][i].setting
  <2>1. n \in DOMAIN h[d]
    BY <1>1, <1>2, <1>6
  <2>2. Raised(h, g)
    BY <1>1, <1>2, <1>3, <1>6, <2>1, SetVerbosityKeeps
  <2>3. ASSUME NEW e \in existing, NEW i \in DOMAIN h[e]
        PROVE  g[e][i].setting =
                 IF i = n /\ d \in Within[e] /\ h[e][n].setting.priority <= s.priority
                   THEN s ELSE h[e][i].setting
    BY <1>1, <1>2, <1>3, <1>6, <2>1, SetVerbosityExact
  <2> QED
    BY <2>1, <2>2, <2>3
<1>8. /\ Fresh = Abstract!Fresh /\ Fresh # NotAttached /\ Fresh.priority = 0
      /\ s # NotAttached /\ s.priority \in Int
  BY <1>1, SettingsAssumption DEF Fresh, Setting, Abstract!Fresh, Settings, Verbosities
<1>9. Abstract!Override(Fresh, s) = IF 0 <= s.priority THEN s ELSE Fresh
  BY <1>8 DEF Abstract!Override
<1>10. ASSUME NEW e \in Domains, NEW k \in Loggers
       PROVE  fin[e][k] = IF r \notin Within[e] \/ k # l THEN eff[e][k]
                          ELSE IF d \in Within[e] THEN Abstract!Override(Fresh, s) ELSE Fresh
  <2>1. PICK m : /\ m = near[e] /\ m \in existing /\ m \in Domains
                 /\ r \in Within[e] <=> r \in Within[m]
                 /\ d \in Within[e] <=> d \in Within[m]
    BY <1>1, <1>2, <1>4 DEF IsNearest
  <2>2. CASE r \in Within[m] /\ k = l
    <3>1. /\ n \in DOMAIN h[m] /\ h[m][n].logger = l /\ h[m][n].setting = Fresh
      BY <1>6, <2>1, <2>2 DEF LoggerData
    <3>2. n \in DOMAIN g[m] /\ g[m][n].logger = l
      BY <1>7, <2>1, <3>1 DEF Raised
    <3>3. fin[e][l] = g[m][n].setting
      BY <1>4, <2>1, <2>2, <3>2 DEF Maps
    <3>4. g[m][n].setting = IF d \in Within[m] /\ 0 <= s.priority THEN s ELSE Fresh
      BY <1>7, <1>8, <2>1, <3>1
    <3> QED
      BY <1>9, <2>1, <2>2, <3>3, <3>4
  <2>3. CASE ~(r \in Within[m] /\ k = l)
    <3>1. r \notin Within[m] => d \notin Within[m]
      BY <1>2, <2>1, TreeAssumption
    <3>2. CASE Has(data, m, k)
      <4>1. PICK i \in DOMAIN data[m] : data[m][i].logger = k
        BY <3>2 DEF Has
      <4>2. i \in DOMAIN h[m] /\ h[m][i] = data[m][i] /\ (r \in Within[m] => i # n)
        BY <1>6, <2>1, <4>1
      <4>3. i \in DOMAIN g[m] /\ g[m][i].logger = k
        BY <1>7, <2>1, <4>1, <4>2 DEF Raised
      <4>4. g[m][i].setting = data[m][i].setting
        BY <1>7, <2>1, <3>1, <4>2
      <4>5. fin[e][k] = g[m][i].setting /\ eff[e][k] = data[m][i].setting
        BY <1>4, <2>1, <4>1, <4>3 DEF Maps
      <4> QED
        BY <2>1, <2>3, <4>4, <4>5
    <3>3. CASE ~Has(data, m, k)
      <4>1. ~Has(h, m, k)
        <5>1. CASE r \in Within[m]
          <6>1. h[m][n].logger = l
            BY <1>6, <2>1, <5>1 DEF LoggerData
          <6> QED
            BY <1>6, <2>1, <2>3, <3>3, <5>1, <6>1 DEF Has
        <5>2. CASE r \notin Within[m]
          BY <1>6, <2>1, <3>3, <5>2 DEF Has
        <5> QED
          BY <5>1, <5>2
      <4>2. ~Has(g, m, k)
        BY <1>7, <2>1, <4>1, RaisedKeeps
      <4>3. fin[e][k] = NotAttached /\ eff[e][k] = NotAttached
        BY <1>4, <2>1, <3>3, <4>2 DEF Maps
      <4> QED
        BY <2>1, <2>3, <4>3
    <3> QED
      BY <3>2, <3>3
  <2> QED
    BY <2>2, <2>3
<1>11. eff[r][l] = NotAttached /\ fin[r][l] # NotAttached
  <2>1. near[r] = r /\ r \in Within[r]
    BY <1>2, <1>4, TreeAssumption DEF IsNearest
  <2>2. ~Has(data, near[r], l)
    BY <1>5, <2>1
  <2>3. eff[r][l] = NotAttached
    BY <1>1, <1>2, <1>4, <2>2 DEF Maps
  <2>4. fin[r][l] # NotAttached
    BY <1>1, <1>2, <1>8, <1>9, <1>10, <2>1
  <2> QED
    BY <2>3, <2>4
<1>12. fin = [e \in Domains |-> [eff[e] EXCEPT ![l] =
                 IF r \notin Within[e] THEN @
                 ELSE IF d \in Within[e] THEN Abstract!Override(Fresh, s) ELSE Fresh]]
  <2>1. /\ fin = [e \in Domains |-> [k \in Loggers |-> fin[e][k]]]
        /\ eff = [e \in Domains |-> [k \in Loggers |-> eff[e][k]]]
    BY <1>4 DEF Maps
  <2>2. ASSUME NEW e \in Domains
        PROVE  fin[e] = [eff[e] EXCEPT ![l] =
                 IF r \notin Within[e] THEN @
                 ELSE IF d \in Within[e] THEN Abstract!Override(Fresh, s) ELSE Fresh]
    <3>1. PICK x : x = IF r \notin Within[e] THEN eff[e][l]
                       ELSE IF d \in Within[e] THEN Abstract!Override(Fresh, s) ELSE Fresh
      OBVIOUS
    <3>2. \A k \in Loggers : fin[e][k] = IF k = l THEN x ELSE eff[e][k]
      BY <1>10, <3>1
    <3>3. fin[e] = [k \in Loggers |-> fin[e][k]] /\ eff[e] = [k \in Loggers |-> eff[e][k]]
      BY <2>1
    <3>4. fin[e] = [eff[e] EXCEPT ![l] = x]
      BY <1>1, <3>2, <3>3
    <3> QED
      BY <3>1, <3>4
  <2> QED
    BY <2>1, <2>2
<1>13. Abstract!Attach(l, r, d, s)
  BY <1>4, <1>8, <1>11, <1>12 DEF Abstract!Attach
<1> QED
  BY <1>1, <1>2, <1>13 DEF Abstract!Next

\* A new domain reads the configuration for what it inherits.
LEMMA ConfiguredExact ==
    ASSUME NEW list \in Seq(Entries), NEW c \in Domains, NEW i \in DOMAIN list
    PROVE  ConfiguredData(list, c)[i].setting =
              Abstract!Override(list[i].setting, FromConfig(list[i].logger, c, 0))
<1>1. list[i] \in Entries
  OBVIOUS
<1>2. PICK l, s : /\ l = list[i].logger /\ s = list[i].setting /\ l \in Loggers /\ s \in Settings
                  /\ s # NotAttached /\ s.priority \in Int
  BY <1>1, SettingsAssumption DEF Entries, Settings
<1>3. PICK rule, x : /\ rule = FromConfig(l, c, s.priority) /\ x = ConfiguredData(list, c)[i]
                     /\ x = IF rule # NotAttached /\ rule.priority >= s.priority
                              THEN LoggerData(l, rule) ELSE list[i]
  BY <1>2 DEF ConfiguredData
<1>4. x.setting = IF rule # NotAttached /\ rule.priority >= s.priority THEN rule ELSE s
  <2>1. LoggerData(l, rule).setting = rule
    BY DEF LoggerData
  <2> QED
    BY <1>2, <1>3, <2>1
<1>5. CASE Config[NameOf[l]][c] = NoRule
  <2>1. rule = NotAttached /\ FromConfig(l, c, 0) = NotAttached
    BY <1>3, <1>5 DEF FromConfig
  <2> QED
    BY <1>2, <1>3, <1>4, <2>1 DEF Abstract!Override
<1>6. CASE Config[NameOf[l]][c] # NoRule
  <2>1. PICK known : known = Setting(Config[NameOf[l]][c], ConfigPriority)
    OBVIOUS
  <2>2. known \in Settings
    BY <1>2, <1>6, <2>1, SettingsAssumption, PriorityAssumption DEF Setting, Settings, Names
  <2>3. known.priority = ConfigPriority
    BY <2>1 DEF Setting
  <2>4. known # NotAttached
    BY <2>2, SettingsAssumption DEF Settings
  <2>5. FromConfig(l, c, 0) = known
    BY <1>6, <2>1, PriorityAssumption DEF FromConfig
  <2>6. rule = IF s.priority = PrioProtected THEN NotAttached ELSE known
    BY <1>3, <1>6, <2>1 DEF FromConfig
  <2>7. x.setting = IF ConfigPriority >= s.priority THEN known ELSE s
    BY <1>2, <1>4, <2>3, <2>4, <2>6, PriorityAssumption
  <2>8. Abstract!Override(s, known) = IF ConfigPriority >= s.priority THEN known ELSE s
    BY <1>2, <2>3, <2>4 DEF Abstract!Override
  <2> QED
    BY <1>2, <1>3, <2>5, <2>7, <2>8
<1> QED
  BY <1>5, <1>6

\* A domain is created: it and what is below are set from the configuration.
LEMMA CreateDomainMaps ==
    ASSUME IInv, MapInv, IInv', MapInv', CreateDomain PROVE Abstract!Next
<1>1. PICK c \in Domains, p \in existing :
        /\ c \notin existing /\ existing' = existing \cup {c} /\ p \in Domains
        /\ data' = [data EXCEPT ![c] = ConfiguredData(data[p], c)]
        /\ \A d \in Domains : c \in Within[d] => Nearest(d) = p /\ Nearest(d)' = c
        /\ \A d \in Domains : c \notin Within[d] => Nearest(d)' = Nearest(d)
  BY CreateDomainNearest DEF MapInv
<1>2. PICK f, g, q, before, after, eff, fin :
        /\ f = data /\ g = data' /\ before = nearest /\ after = nearest'
        /\ eff = effective /\ fin = effective' /\ q = ConfiguredData(f[p], c)
        /\ IsNearest(before) /\ Maps(f, before, eff) /\ Maps(g, after, fin)
  BY Mapped
<1>3. /\ \A d \in Domains : c \in Within[d] => before[d] = p /\ after[d] = c
      /\ \A d \in Domains : c \notin Within[d] => after[d] = before[d]
  <2>1. \A d \in Domains : before[d] = Nearest(d) /\ after[d] = Nearest(d)'
    BY <1>2 DEF nearest
  <2> QED
    BY <1>1, <2>1
<1>4. /\ f \in Forests /\ g[c] = q /\ \A e \in existing : g[e] = f[e]
  BY <1>1, <1>2 DEF IInv, Typed, Forests
<1>5. /\ DOMAIN q = DOMAIN f[p]
      /\ \A i \in DOMAIN q :
           /\ q[i].logger = f[p][i].logger
           /\ q[i].setting = Abstract!Override(f[p][i].setting, FromConfig(f[p][i].logger, c, 0))
  <2>1. PICK list \in Seq(Entries) : list = f[p]
    BY <1>1, <1>4, EntryFacts
  <2>2. /\ DOMAIN ConfiguredData(list, c) = DOMAIN list
        /\ \A i \in DOMAIN list : ConfiguredData(list, c)[i].logger = list[i].logger
    BY ConfiguredFacts
  <2>3. \A i \in DOMAIN list : ConfiguredData(list, c)[i].setting =
           Abstract!Override(list[i].setting, FromConfig(list[i].logger, c, 0))
    BY ConfiguredExact
  <2> QED
    BY <1>2, <2>1, <2>2, <2>3
<1>6. /\ \A e \in Domains, k \in Loggers : \A i \in DOMAIN f[before[e]] :
           f[before[e]][i].logger = k => eff[e][k] = f[before[e]][i].setting
      /\ \A e \in Domains, k \in Loggers : ~Has(f, before[e], k) => eff[e][k] = NotAttached
  BY <1>2 DEF Maps
<1>7. /\ \A e \in Domains, k \in Loggers : \A i \in DOMAIN g[after[e]] :
           g[after[e]][i].logger = k => fin[e][k] = g[after[e]][i].setting
      /\ \A e \in Domains, k \in Loggers : ~Has(g, after[e], k) => fin[e][k] = NotAttached
  BY <1>2 DEF Maps
<1>8. ASSUME NEW e \in Domains, NEW k \in Loggers
      PROVE  fin[e][k] = IF c \in Within[e]
                           THEN Abstract!Override(eff[e][k], FromConfig(k, c, 0)) ELSE eff[e][k]
  <2>1. CASE c \in Within[e] /\ Has(f, p, k)
    <3>1. PICK i \in DOMAIN f[p] : f[p][i].logger = k
      BY <2>1 DEF Has
    <3>2. before[e] = p /\ after[e] = c /\ i \in DOMAIN g[c] /\ g[c][i].logger = k
      BY <1>3, <1>4, <1>5, <2>1, <3>1
    <3>3. eff[e][k] = f[p][i].setting
      <4>1. i \in DOMAIN f[before[e]] /\ f[before[e]][i].logger = k
        BY <3>1, <3>2
      <4>2. eff[e][k] = f[before[e]][i].setting
        BY <1>6, <4>1
      <4> QED
        BY <3>2, <4>2
    <3>4. fin[e][k] = g[c][i].setting
      <4>1. i \in DOMAIN g[after[e]] /\ g[after[e]][i].logger = k
        BY <3>2
      <4>2. fin[e][k] = g[after[e]][i].setting
        BY <1>7, <4>1
      <4> QED
        BY <3>2, <4>2
    <3> QED
      BY <1>4, <1>5, <2>1, <3>1, <3>3, <3>4
  <2>2. CASE c \in Within[e] /\ ~Has(f, p, k)
    <3>1. before[e] = p /\ after[e] = c /\ ~Has(g, c, k)
      BY <1>3, <1>4, <1>5, <2>2 DEF Has
    <3>2. ~Has(f, before[e], k) /\ ~Has(g, after[e], k)
      BY <2>2, <3>1
    <3>3. eff[e][k] = NotAttached /\ fin[e][k] = NotAttached
      BY <1>6, <1>7, <3>2
    <3> QED
      BY <2>2, <3>3 DEF Abstract!Override
  <2>3. CASE c \notin Within[e]
    <3>1. PICK m : m = before[e] /\ m = after[e] /\ g[m] = f[m]
      BY <1>2, <1>3, <1>4, <2>3 DEF IsNearest
    <3>2. CASE Has(f, m, k)
      <4>1. PICK i \in DOMAIN f[m] : f[m][i].logger = k
        BY <3>2 DEF Has
      <4>2. i \in DOMAIN f[before[e]] /\ f[before[e]][i].logger = k
        BY <3>1, <4>1
      <4>3. i \in DOMAIN g[after[e]] /\ g[after[e]][i].logger = k
        BY <3>1, <4>1
      <4>4. eff[e][k] = f[before[e]][i].setting
        BY <1>6, <4>2
      <4>5. fin[e][k] = g[after[e]][i].setting
        BY <1>7, <4>3
      <4> QED
        BY <2>3, <3>1, <4>4, <4>5
    <3>3. CASE ~Has(f, m, k)
      <4>1. ~Has(g, m, k)
        BY <3>1, <3>3 DEF Has
      <4>2. ~Has(f, before[e], k) /\ ~Has(g, after[e], k)
        BY <3>1, <3>3, <4>1
      <4>3. eff[e][k] = NotAttached /\ fin[e][k] = NotAttached
        BY <1>6, <1>7, <4>2
      <4> QED
        BY <2>3, <4>3
    <3> QED
      BY <3>2, <3>3
  <2> QED
    BY <2>1, <2>2, <2>3
<1>9. Abstract!ConfigureAll(c)
  <2>1. fin = [e \in Domains |-> [k \in Loggers |-> fin[e][k]]]
    BY <1>2 DEF Maps
  <2>2. PICK new : new = [l \in Loggers |-> FromConfig(l, c, 0)]
    OBVIOUS
  <2>3. \A k \in Loggers : new[k] = FromConfig(k, c, 0)
    BY <2>2
  <2>4. fin = [e \in Domains |-> [k \in Loggers |->
                 IF c \in Within[e] THEN Abstract!Override(eff[e][k], new[k]) ELSE eff[e][k]]]
    BY <1>8, <2>1, <2>3
  <2>5. Abstract!Apply(c, new)
    BY <1>2, <2>4 DEF Abstract!Apply
  <2> QED
    BY <1>1, <2>2, <2>5 DEF Abstract!ConfigureAll
<1> QED
  BY <1>1, <1>9 DEF Abstract!Next

\* The list of domain e in forest g is that in f without the loggers gone.
WithoutLoggers(f, g, e, gone) ==
    /\ \A k \in gone : ~Has(g, e, k)
    /\ \A j \in DOMAIN g[e] : \E i \in DOMAIN f[e] : g[e][j] = f[e][i]
    /\ \A i \in DOMAIN f[e] :
          f[e][i].logger \notin gone => \E j \in DOMAIN g[e] : g[e][j] = f[e][i]

\* Domain::RemoveLogger removes the logger that has the number from each domain of the tree.
LEMMA RemoveLoggerExact ==
    ASSUME Typed, NEW f \in Forests, Aligned(f, existing), Monotone(f, existing),
           NEW r \in Roots, NEW no \in DOMAIN f[r] \cup {0}, NEW g, g = RemoveLogger(f, r, no),
           NEW e \in existing, RootOf(e) = r
    PROVE  WithoutLoggers(f, g, e, IF no = 0 THEN {} ELSE {f[r][no].logger})
<1>1. e \in Domains /\ r \in Within[e] /\ r \in Domains /\ r \in existing
  BY RootFacts DEF Typed
<1>2. CASE no = 0
  <2>1. g = f
    BY <1>2, RemoveLoggerKeeps
  <2> QED
    BY <1>2, <2>1 DEF WithoutLoggers
<1>3. CASE no # 0
  <2>1. /\ \A i \in DOMAIN g[e] : \E j \in DOMAIN f[e] \ {no} : g[e][i] = f[e][j]
        /\ \A j \in DOMAIN f[e] \ {no} : \E i \in DOMAIN g[e] : g[e][i] = f[e][j]
    BY <1>1, <1>3, RemoveLoggerKeeps
  <2>2. PICK l : l = f[r][no].logger
    OBVIOUS
  <2>3. no \in DOMAIN f[e] /\ f[e][no].logger = l
    BY <1>3, <2>2 DEF Aligned
  <2>4. \A i \in DOMAIN f[e] : f[e][i].logger = l <=> i = no
    BY <2>3 DEF Aligned
  <2>5. ~Has(g, e, l)
    BY <2>1, <2>4 DEF Has
  <2>6. ASSUME NEW i \in DOMAIN f[e], f[e][i].logger \notin {l}
        PROVE  \E j \in DOMAIN g[e] : g[e][j] = f[e][i]
    BY <2>1, <2>4, <2>6
  <2>7. \A j \in DOMAIN g[e] : \E i \in DOMAIN f[e] : g[e][j] = f[e][i]
    BY <2>1
  <2> QED
    BY <1>3, <2>2, <2>5, <2>6, <2>7 DEF WithoutLoggers
<1> QED
  BY <1>2, <1>3

\* Loggers that are removed from the trees are detached.
LEMMA DetachMaps ==
    ASSUME IInv, MapInv, IInv', MapInv', existing' = existing,
           NEW gone \in [Roots -> SUBSET Loggers],
           \A e \in existing : WithoutLoggers(data, data', e, gone[RootOf(e)])
    PROVE  Abstract!Next
<1>1. PICK f, g, near, eff, fin :
        /\ f = data /\ g = data' /\ near = nearest /\ eff = effective /\ fin = effective'
        /\ IsNearest(near) /\ Maps(f, near, eff) /\ Maps(g, near, fin)
  <2>1. nearest' = nearest
    BY DEF nearest, Nearest
  <2> QED
    BY <2>1, Mapped
<1>2. /\ \A e \in Domains, k \in Loggers : \A i \in DOMAIN f[near[e]] :
           f[near[e]][i].logger = k => eff[e][k] = f[near[e]][i].setting
      /\ \A e \in Domains, k \in Loggers : ~Has(f, near[e], k) => eff[e][k] = NotAttached
  BY <1>1 DEF Maps
<1>3. /\ \A e \in Domains, k \in Loggers : \A i \in DOMAIN g[near[e]] :
           g[near[e]][i].logger = k => fin[e][k] = g[near[e]][i].setting
      /\ \A e \in Domains, k \in Loggers : ~Has(g, near[e], k) => fin[e][k] = NotAttached
  BY <1>1 DEF Maps
<1>4. ASSUME NEW e \in Domains, NEW k \in Loggers
      PROVE  fin[e][k] = IF \E r \in Roots : r \in Within[e] /\ k \in gone[r]
                           THEN NotAttached ELSE eff[e][k]
  <2>1. PICK m : m = near[e] /\ m \in existing /\ m \in Domains
    BY <1>1 DEF IsNearest
  <2>2. PICK R : /\ R = RootOf(e) /\ R = RootOf(m)
                 /\ (\E r \in Roots : r \in Within[e] /\ k \in gone[r]) <=> k \in gone[R]
    <3>1. RootOf(e) \in Roots /\ RootOf(e) \in Within[e] /\ RootOf(e) \in existing
      BY RootFacts DEF IInv, Typed
    <3>2. RootOf(e) \in Within[m]
      BY <1>1, <2>1, <3>1 DEF IsNearest
    <3>3. RootOf(m) = RootOf(e)
      BY <2>1, <3>1, <3>2, RootFacts
    <3>4. \A r \in Roots : r \in Within[e] => r = RootOf(e)
      BY RootFacts
    <3> QED
      BY <3>1, <3>3, <3>4
  <2>3. WithoutLoggers(f, g, m, gone[R])
    BY <1>1, <2>1, <2>2
  <2>4. CASE k \in gone[R]
    <3>1. ~Has(g, near[e], k)
      BY <2>1, <2>3, <2>4 DEF WithoutLoggers
    <3>2. fin[e][k] = NotAttached
      BY <1>3, <3>1
    <3> QED
      BY <2>2, <2>4, <3>2
  <2>5. CASE k \notin gone[R] /\ Has(f, m, k)
    <3>1. PICK i \in DOMAIN f[m] : f[m][i].logger = k
      BY <2>5 DEF Has
    <3>2. PICK j \in DOMAIN g[m] : g[m][j] = f[m][i]
      BY <2>3, <2>5, <3>1 DEF WithoutLoggers
    <3>3. i \in DOMAIN f[near[e]] /\ f[near[e]][i].logger = k
      BY <2>1, <3>1
    <3>4. j \in DOMAIN g[near[e]] /\ g[near[e]][j].logger = k
      BY <2>1, <3>1, <3>2
    <3>5. eff[e][k] = f[m][i].setting /\ fin[e][k] = g[m][j].setting
      BY <1>2, <1>3, <2>1, <3>3, <3>4
    <3> QED
      BY <2>2, <2>5, <3>2, <3>5
  <2>6. CASE k \notin gone[R] /\ ~Has(f, m, k)
    <3>1. ~Has(g, m, k)
      BY <2>3, <2>6 DEF WithoutLoggers, Has
    <3>2. ~Has(f, near[e], k) /\ ~Has(g, near[e], k)
      BY <2>1, <2>6, <3>1
    <3>3. eff[e][k] = NotAttached /\ fin[e][k] = NotAttached
      BY <1>2, <1>3, <3>2
    <3> QED
      BY <2>2, <2>6, <3>3
  <2> QED
    BY <2>4, <2>5, <2>6
<1>5. Abstract!Detach(gone)
  <2>1. fin = [e \in Domains |-> [k \in Loggers |-> fin[e][k]]]
    BY <1>1 DEF Maps
  <2>2. fin = [e \in Domains |-> [k \in Loggers |->
                 IF \E r \in Roots : r \in Within[e] /\ k \in gone[r]
                   THEN NotAttached ELSE eff[e][k]]]
    BY <1>4, <2>1
  <2> QED
    BY <1>1, <2>2 DEF Abstract!Detach
<1> QED
  BY <1>5 DEF Abstract!Next

\* The loggers that have the numbers are removed, each from its tree.
LEMMA RemoveBothMaps ==
    ASSUME IInv, MapInv, IInv', MapInv', existing' = existing,
           NEW mainNo \in DOMAIN data[MainRoot] \cup {0},
           NEW internalNo \in DOMAIN data[InternalRoot] \cup {0},
           RemoveBoth(mainNo, internalNo)
    PROVE  Abstract!Next
<1>1. PICK d, f, g : /\ d = data /\ f = RemoveLogger(d, MainRoot, mainNo)
                     /\ g = RemoveLogger(f, InternalRoot, internalNo) /\ g = data'
  BY DEF RemoveBoth
<1>2. /\ Typed /\ d \in Forests /\ Aligned(d, existing) /\ Monotone(d, existing)
      /\ mainNo \in DOMAIN d[MainRoot] \cup {0} /\ internalNo \in DOMAIN d[InternalRoot] \cup {0}
  BY <1>1 DEF IInv, Typed
<1>3. /\ MainRoot \in Roots /\ InternalRoot \in Roots /\ Roots = {MainRoot, InternalRoot}
      /\ MainRoot # InternalRoot /\ MainRoot \in Domains /\ InternalRoot \in Domains
      /\ MainRoot \notin Within[InternalRoot]
  <2>1. MainRoot \in Roots /\ InternalRoot \in Roots
    BY DEF Roots
  <2> QED
    BY <2>1, TreeAssumption DEF Roots
<1>4. /\ f \in Forests /\ Aligned(f, existing) /\ Monotone(f, existing)
      /\ \A e \in Domains : MainRoot \notin Within[e] => f[e] = d[e]
  BY <1>1, <1>2, <1>3, RemoveLoggerKeeps
<1>5. f[InternalRoot] = d[InternalRoot] /\ internalNo \in DOMAIN f[InternalRoot] \cup {0}
  BY <1>2, <1>3, <1>4
<1>6. \A e \in Domains : InternalRoot \notin Within[e] => g[e] = f[e]
  <2>1. /\ Typed /\ f \in Forests /\ Aligned(f, existing) /\ Monotone(f, existing)
        /\ InternalRoot \in Roots /\ internalNo \in DOMAIN f[InternalRoot] \cup {0}
        /\ g = RemoveLogger(f, InternalRoot, internalNo)
    BY <1>1, <1>2, <1>3, <1>4, <1>5
  <2> QED
    BY <2>1, RemoveLoggerKeeps
<1>7. PICK main, internal :
        /\ main = IF mainNo = 0 THEN {} ELSE {d[MainRoot][mainNo].logger}
        /\ internal = IF internalNo = 0 THEN {} ELSE {f[InternalRoot][internalNo].logger}
  OBVIOUS
<1>8. main \subseteq Loggers /\ internal \subseteq Loggers
  BY <1>2, <1>3, <1>4, <1>5, <1>7, EntryFacts
<1>9. PICK gone \in [Roots -> SUBSET Loggers] :
        gone[MainRoot] = main /\ gone[InternalRoot] = internal
  <2>1. [r \in Roots |-> IF r = MainRoot THEN main ELSE internal] \in [Roots -> SUBSET Loggers]
    BY <1>8
  <2> QED
    BY <1>3, <2>1
<1>10. ASSUME NEW e \in existing
       PROVE  WithoutLoggers(d, g, e, gone[RootOf(e)])
  <2>1. e \in Domains /\ RootOf(e) \in Roots /\ \A r \in Roots : r \in Within[e] <=> r = RootOf(e)
    BY <1>2, RootFacts DEF Typed
  <2>2. CASE RootOf(e) = MainRoot
    <3>1. WithoutLoggers(d, f, e, main)
      BY <1>1, <1>2, <1>3, <1>7, <2>2, RemoveLoggerExact
    <3>2. g[e] = f[e]
      BY <1>3, <1>6, <2>1, <2>2
    <3>3. WithoutLoggers(d, g, e, main)
      BY <3>1, <3>2 DEF WithoutLoggers, Has
    <3> QED
      BY <1>9, <2>2, <3>3
  <2>3. CASE RootOf(e) = InternalRoot
    <3>1. WithoutLoggers(f, g, e, internal)
      BY <1>1, <1>2, <1>3, <1>4, <1>5, <1>7, <2>3, RemoveLoggerExact
    <3>2. f[e] = d[e]
      BY <1>3, <1>4, <2>1, <2>3
    <3>3. WithoutLoggers(d, g, e, internal)
      BY <3>1, <3>2 DEF WithoutLoggers
    <3> QED
      BY <1>9, <2>3, <3>3
  <2> QED
    BY <1>3, <2>1, <2>2, <2>3
<1> QED
  BY <1>1, <1>10, DetachMaps

\* Lox::RemoveLogger, by logger and by name.
LEMMA RemoveMaps ==
    ASSUME IInv, MapInv, IInv', MapInv',
           \/ \E l \in Loggers : CallRemoveLogger(l)
           \/ \E n \in Names : CallRemoveLoggerName(n)
    PROVE  Abstract!Next
<1>1. MainRoot \in existing /\ InternalRoot \in existing
  BY DEF IInv, Typed, Roots
<1>2. ASSUME NEW l \in Loggers, CallRemoveLogger(l)
      PROVE  Abstract!Next
  <2>1. PICK main, internal :
          /\ main = LoggerNo(MainRoot, l) /\ internal = LoggerNo(InternalRoot, l)
          /\ RemoveBoth(main, internal) /\ existing' = existing
    BY <1>2 DEF CallRemoveLogger
  <2>2. main \in DOMAIN data[MainRoot] \cup {0} /\ internal \in DOMAIN data[InternalRoot] \cup {0}
    BY <1>1, <2>1, NumbersHere
  <2> QED
    BY <2>1, <2>2, RemoveBothMaps
<1>3. ASSUME NEW n \in Names, CallRemoveLoggerName(n)
      PROVE  Abstract!Next
  <2>1. PICK main, internal :
          /\ main = NamedNo(MainRoot, n) /\ internal = NamedNo(InternalRoot, n)
          /\ RemoveBoth(main, internal) /\ existing' = existing
    BY <1>3 DEF CallRemoveLoggerName
  <2>2. main \in DOMAIN data[MainRoot] \cup {0} /\ internal \in DOMAIN data[InternalRoot] \cup {0}
    BY <1>1, <2>1, NumbersHere
  <2> QED
    BY <2>1, <2>2, RemoveBothMaps
<1> QED
  BY <1>2, <1>3

\* The mapping of trees without loggers.
LEMMA NothingAttached ==
    ASSUME NEW f, f = [d \in Domains |-> <<>>], NEW near, NEW fin, Maps(f, near, fin),
           \A d \in Domains : near[d] \in Domains
    PROVE  fin = [d \in Domains |-> [l \in Loggers |-> NotAttached]]
<1>1. \A d \in Domains, l \in Loggers : ~Has(f, near[d], l) => fin[d][l] = NotAttached
  BY DEF Maps
<1>2. \A d \in Domains : \A l : ~Has(f, d, l)
  <2>1. \A d \in Domains : f[d] = <<>> /\ DOMAIN f[d] = {}
    OBVIOUS
  <2> QED
    BY <2>1 DEF Has
<1>3. fin = [d \in Domains |-> [l \in Loggers |-> fin[d][l]]]
  BY DEF Maps
<1> QED
  BY <1>1, <1>2, <1>3

\* Lox::Reset detaches all loggers.
LEMMA ResetMaps ==
    ASSUME IInv, MapInv, IInv', MapInv', CallReset PROVE Abstract!Next
<1>1. PICK g, after, fin :
        /\ g = data' /\ after = nearest' /\ fin = effective'
        /\ g = [d \in Domains |-> <<>>] /\ Maps(g, after, fin)
  BY Mapped DEF CallReset
<1>2. \A d \in Domains : after[d] \in Domains
  BY <1>1, Mapped DEF IsNearest
<1>3. fin = [d \in Domains |-> [l \in Loggers |-> NotAttached]]
  BY <1>1, <1>2, NothingAttached
<1>4. PICK gone : gone = [r \in Roots |-> Loggers]
  OBVIOUS
<1>5. gone \in [Roots -> SUBSET Loggers] /\ \A r \in Roots : gone[r] = Loggers
  BY <1>4
<1>6. \A d \in Domains, l \in Loggers : \E r \in Roots : r \in Within[d] /\ l \in gone[r]
  BY <1>5, RootFacts
<1>7. Abstract!Detach(gone)
  BY <1>1, <1>3, <1>6 DEF Abstract!Detach
<1> QED
  BY <1>5, <1>7 DEF Abstract!Next

\* Every step of the two trees is one of the abstract specification, or invisible to it.
LEMMA NextMaps ==
    IInv /\ MapInv /\ IInv' /\ MapInv' /\ [Next]_vars => effective' = effective \/ Abstract!Next
<1> SUFFICES ASSUME IInv, MapInv, IInv', MapInv', [Next]_vars
             PROVE  effective' = effective \/ Abstract!Next
  OBVIOUS
<1>1. CASE UNCHANGED <<existing, data>>
  BY <1>1, TreesStutter
<1>2. \/ UNCHANGED <<existing, data>>
      \/ CreateDomain \/ SetKnown \/ SetNew \/ ConfigureDomain \/ SetNamed \/ SetOuter
      \/ \E l \in Loggers : CallRemoveLogger(l)
      \/ \E n \in Names : CallRemoveLoggerName(n)
      \/ CallReset
  BY DEF Next, vars, CallSetVerbosity, CallSetVerbosityName, CallEntry, Begin, EntryDone,
         SetNameTaken, ConfigureDone, SetNamedOther, SetNamedUnknown, Exhausted
<1> QED
  BY <1>1, <1>2, CreateDomainMaps, SetKnownMaps, SetNewMaps, ConfigureDomainMaps, SetNamedMaps,
     SetOuterMaps, RemoveMaps, ResetMaps

\* At first no logger is attached, in both specifications.
LEMMA InitMaps == Init => Abstract!Init
<1> SUFFICES ASSUME Init PROVE Abstract!Init
  OBVIOUS
<1>1. PICK f, near, fin :
        /\ f = data /\ near = nearest /\ fin = effective /\ f = [d \in Domains |-> <<>>]
        /\ Maps(f, near, fin) /\ IsNearest(near)
  BY InitIInv, InitMapInv, EffectiveFacts DEF Init
<1>2. fin = [d \in Domains |-> [l \in Loggers |-> NotAttached]]
  BY <1>1, NothingAttached DEF IsNearest
<1> QED
  BY <1>1, <1>2 DEF Abstract!Init

\* The trees, with their copied lists, common indices and recursion that stops early, give every
\* domain, whether it exists yet or not, the settings that VerbositySettings gives it.
THEOREM Refinement == Spec => ImplementsVerbositySettings
<1>1. Init => IInv /\ MapInv /\ Abstract!Init
  BY InitIInv, InitMapInv, InitMaps
<1>2. IInv /\ MapInv /\ [Next]_vars => IInv' /\ MapInv'
  BY NextIInv, NextMapInv
<1>3. IInv /\ MapInv /\ IInv' /\ MapInv' /\ [Next]_vars => [Abstract!Next]_effective
  BY NextMaps
<1> QED
  BY <1>1, <1>2, <1>3, PTL DEF Spec, ImplementsVerbositySettings, Abstract!Spec
=============================================================================
