----------------------- MODULE DomainSubstitutionProofs -----------------------
(***************************************************************************)
(* What MCDomainSubstitution.cfg checks for two letters and five rules,    *)
(* proved for every alphabet and its sensitivity, all rules, requests and  *)
(* budgets.                                                                *)
(*                                                                         *)
(* The inductive invariant speaks of every call of findDomain on the       *)
(* stack. `Sound': a call in the middle of a pass that substituted nothing *)
(* so far has seen no rule that matches, so one that is about to return    *)
(* without a substitution has seen them all, or its budget is spent.       *)
(* `Waiting': a call below another one still looks for its domain, or has  *)
(* warned and given up; what the calls above it create changes neither.    *)
(*                                                                         *)
(* Names, FullPath and Resolved are recursive functions. That they exist,  *)
(* and that their values are paths, rests on the first four lemmas, which  *)
(* stand in for induction over the natural numbers.                        *)
(***************************************************************************)
EXTENDS DomainSubstitution, SequenceTheorems, WellFoundedInduction, TLAPS

Rules == [type : Types, search : Paths, replacement : Paths \ {<<>>}]

Frame == [tree : Trees, names : Seq(Paths), at : {"find", "pass", "rules", "passed"},
          subst : Paths, left : Int, next : Nat \ {0}, hit : BOOLEAN]

\* The path of the domain that a call has found.
PathOf(f) == FullPath(f.tree, CHOOSE d \in Found(f.tree, f.names) : TRUE)

\* None of the first n - 1 rules matches it.
Unmatched(f, n) == \A j \in DOMAIN rules : j < n => ~Matches(rules[j], PathOf(f))

\* A call that looks at the rules has found its domain. While a pass has substituted
\* nothing, none of the rules it has seen matches; so no rule matches what a call is
\* about to return, unless it gives up.
Sound == {f \in Frame :
    /\ f.at # "find" => Found(f.tree, f.names) # {}
    /\ f.at = "rules" => /\ f.hit => f.subst # <<>>
                         /\ f.subst = <<>> => Unmatched(f, f.next)
    /\ f.at = "passed" /\ f.subst = <<>> => f.left <= 0 \/ Unmatched(f, Len(rules) + 1)}

\* A call that waits for a report either creates a domain or has warned.
Waiting == {f \in Frame : f.at = "find" \/ (f.at = "passed" /\ f.left <= 0 /\ warned)}

\* Types.
TypeOK == /\ rules \in Seq(Rules)
          /\ warned \in BOOLEAN
          /\ domains \in [Trees -> SUBSET Seq(Paths)]
          /\ stack \in Seq(Frame)
          /\ last \in Seq([full : Paths, left : Int])
          /\ calls \in Nat

Calls == \A i \in DOMAIN stack : stack[i] \in Sound /\ (i < Len(stack) => stack[i] \in Waiting)

IInv == TypeOK /\ TreesSound /\ Calls /\ ReturnedIsFixpoint /\ GivingUpIsReported

-----------------------------------------------------------------------------
\* A set of natural numbers that is not empty has a least element.
LEMMA LeastExists ==
    ASSUME NEW S \in SUBSET Nat, S # {}
    PROVE  \E n \in S : \A m \in S : n <= m
<1> DEFINE R == OpToRel(<, Nat)
<1>1. \A m, n \in Nat : m < n => <<m, n>> \in R
  BY DEF OpToRel
<1>2. IsWellFoundedOn(R, Nat)
  BY NatLessThanWellFounded
<1> HIDE DEF R
<1>3. PICK n \in S : \A m \in S : <<m, n>> \notin R
  BY <1>2, WFMin
<1>4. ASSUME NEW m \in S
      PROVE  n <= m
  <2>1. m \in Nat /\ n \in Nat /\ ~(m < n)
    BY <1>1, <1>3
  <2> QED
    BY <2>1
<1> QED
  BY <1>4

\* Induction up to N.
LEMMA UpTo ==
    ASSUME NEW N \in Nat, NEW S, 0 \in S, \A n \in 0..N : n \in S /\ n < N => n + 1 \in S
    PROVE  \A n \in 0..N : n \in S
<1> DEFINE Bad == {n \in 0..N : n \notin S}
<1>1. SUFFICES ASSUME Bad # {} PROVE FALSE
  OBVIOUS
<1>2. PICK n \in Bad : \A m \in Bad : n <= m
  <2>1. Bad \in SUBSET Nat
    OBVIOUS
  <2> HIDE DEF Bad
  <2> QED
    BY <1>1, <2>1, LeastExists
<1>3. n # 0 /\ n \in 1..N /\ n - 1 \in 0..N /\ n - 1 < N /\ (n - 1) + 1 = n /\ ~(n <= n - 1)
  OBVIOUS
<1>4. n - 1 \in S
  BY <1>2, <1>3
<1> QED
  BY <1>2, <1>3, <1>4

Follows(f, N, a, G) == f[0] = a /\ \A i \in 1..N : f[i] = G[i][f[i - 1]]

\* A function that is given by its first value and by what a step makes of a value exists.
LEMMA Recursion ==
    ASSUME NEW N \in Nat, NEW T, NEW a \in T, NEW G \in [1..N -> [T -> T]]
    PROVE  \E f \in [0..N -> T] : Follows(f, N, a, G)
<1> DEFINE Upto(n, f) == f \in [0..n -> T] /\ f[0] = a /\ \A i \in 1..n : f[i] = G[i][f[i - 1]]
           S == {n \in 0..N : \E f : Upto(n, f)}
<1>1. 0 \in S
  <2>1. PICK f : f = [i \in 0..0 |-> a]
    OBVIOUS
  <2>2. f \in [0..0 -> T] /\ f[0] = a /\ \A i \in 1..0 : f[i] = G[i][f[i - 1]]
    BY <2>1
  <2> QED
    BY <2>2
<1>2. ASSUME NEW n \in 0..N, n \in S, n < N
      PROVE  n + 1 \in S
  <2>1. PICK f : Upto(n, f)
    BY <1>2
  <2>2. PICK g : g = [i \in 0..(n + 1) |-> IF i <= n THEN f[i] ELSE G[n + 1][f[n]]]
    OBVIOUS
  <2>3. f[n] \in T /\ G[n + 1][f[n]] \in T /\ n \in Nat
    BY <1>2, <2>1
  <2>4. g \in [0..(n + 1) -> T] /\ g[0] = a
    BY <2>1, <2>2, <2>3
  <2>5. ASSUME NEW i \in 1..(n + 1)
        PROVE  g[i] = G[i][g[i - 1]]
    <3>1. i - 1 \in 0..n /\ g[i - 1] = f[i - 1] /\ i \in 0..(n + 1)
      BY <2>2, <2>3
    <3>2. CASE i <= n
      BY <2>1, <2>2, <3>1, <3>2
    <3>3. CASE ~(i <= n)
      <4>1. i = n + 1 /\ i - 1 = n
        BY <2>3, <3>3
      <4> QED
        BY <2>2, <3>1, <3>3, <4>1
    <3> QED
      BY <3>2, <3>3
  <2>6. Upto(n + 1, g)
    BY <2>4, <2>5
  <2> QED
    BY <1>2, <2>3, <2>6
<1> HIDE DEF Upto
<1>3. N \in S
  <2> HIDE DEF S
  <2>1. N \in 0..N /\ \A n \in 0..N : n \in S /\ n < N => n + 1 \in S
    BY <1>2
  <2> QED
    BY <1>1, <2>1, UpTo
<1> QED
  BY <1>3 DEF Upto, Follows

\* The full path of a domain.
LEMMA FullPathTyped ==
    ASSUME NEW tree, NEW names \in Seq(Paths), {Sep, "$"} \subseteq Letters
    PROVE  FullPath(tree, names) \in Paths /\ FullPath(tree, names) # <<>>
<1> DEFINE N == Len(names)
           Glued(x, i) == x \o (IF i = 1 THEN <<>> ELSE <<Sep>>) \o names[i]
           Is(f) == f = [i \in 0..N |-> IF i = 0 THEN <<>>
                           ELSE f[i - 1] \o (IF i = 1 THEN <<>> ELSE <<Sep>>) \o names[i]]
           path == CHOOSE f : Is(f)
<1>1. FullPath(tree, names) = (IF tree = "main" THEN <<Sep>> ELSE <<"$", Sep>>) \o path[N]
  BY DEF FullPath
<1>2. N \in Nat /\ <<>> \in Paths /\ <<Sep>> \in Paths
  BY DEF Paths
<1>3. ASSUME NEW i \in 1..N, NEW x \in Paths
      PROVE  Glued(x, i) \in Paths
  <2>1. names[i] \in Paths
    BY <1>2
  <2>2. (IF i = 1 THEN <<>> ELSE <<Sep>>) \in Paths
    BY <1>2
  <2> QED
    BY <2>1, <2>2 DEF Paths
<1>4. \E f : Is(f)
  <2>1. PICK G : G = [i \in 1..N |-> [x \in Paths |-> Glued(x, i)]]
    OBVIOUS
  <2> HIDE DEF Is
  <2>2. G \in [1..N -> [Paths -> Paths]]
    <3> HIDE DEF Glued
    <3> QED BY <1>3, <2>1
  <2>3. PICK f \in [0..N -> Paths] : f[0] = <<>> /\ \A i \in 1..N : f[i] = G[i][f[i - 1]]
    <3> HIDE DEF N
    <3> DEFINE a == <<>>
    <3>1. N \in Nat /\ a \in Paths /\ G \in [1..N -> [Paths -> Paths]]
      BY <1>2, <2>2
    <3> HIDE DEF a
    <3>2. \E f \in [0..N -> Paths] : Follows(f, N, a, G)
      BY <3>1, Recursion
    <3> QED
      BY <3>2 DEF Follows, a
  <2>4. \A i \in 1..N : f[i] = Glued(f[i - 1], i)
    <3> TAKE i \in 1..N
    <3>1. f[i - 1] \in Paths
      BY <1>2
    <3> HIDE DEF Glued
    <3> QED
      BY <2>1, <2>3, <3>1
  <2>5. Is(f)
    <3>1. f = [i \in 0..N |-> f[i]]
      BY <2>3
    <3>2. \A i \in 0..N : i # 0 => i \in 1..N
      BY <1>2
    <3> QED
      BY <2>3, <2>4, <3>1, <3>2 DEF Is
  <2> QED
    BY <2>5
<1>5. Is(path)
  <2> HIDE DEF Is
  <2> QED
    BY <1>4
<1> HIDE DEF path
<1>6. \A i \in 0..N : path[i] = IF i = 0 THEN <<>> ELSE Glued(path[i - 1], i)
  BY <1>5
<1> HIDE DEF Is, Glued
<1>7. path[N] \in Paths
  <2> DEFINE S == {i \in 0..N : path[i] \in Paths}
  <2>1. 0 \in S
    BY <1>2, <1>6
  <2>2. \A n \in 0..N : n \in S /\ n < N => n + 1 \in S
    <3> SUFFICES ASSUME NEW n \in 0..N, n < N, path[n] \in Paths
                 PROVE  n + 1 \in 0..N /\ path[n + 1] \in Paths
      OBVIOUS
    <3>1. n + 1 \in 1..N /\ n + 1 \in 0..N /\ n + 1 # 0 /\ (n + 1) - 1 = n
      BY <1>2
    <3> QED
      BY <1>3, <1>6, <3>1
  <2>3. N \in 0..N
    BY <1>2
  <2> HIDE DEF N
  <2>4. N \in S
    <3> HIDE DEF S
    <3> QED BY <1>2, <2>1, <2>2, <2>3, UpTo
  <2> QED
    BY <2>4
<1>8. <<Sep>> \in Paths /\ <<"$", Sep>> \in Paths
  BY DEF Paths
<1> HIDE DEF N
<1> QED
  BY <1>1, <1>7, <1>8 DEF Paths

LooksAhead(H, N, T) ==
    \A i \in 1..N : \A f, g \in [1..N -> T] :
        (\A j \in i + 1..N : f[j] = g[j]) => H[i][f] = H[i][g]
Solves(f, N, H) == \A i \in 1..N : f[i] = H[i][f]

\* So does one each value of which is made of the values behind it.
LEMMA RecursionDown ==
    ASSUME NEW N \in Nat, NEW T, NEW a \in T, NEW H \in [1..N -> [[1..N -> T] -> T]],
           LooksAhead(H, N, T)
    PROVE  \E f \in [1..N -> T] : Solves(f, N, H)
<1> DEFINE Good(k, f) == \A i \in N - k + 1..N : f[i] = H[i][f]
           S == {k \in 0..N : \E f \in [1..N -> T] : Good(k, f)}
<1>1. 0 \in S
  <2>1. [i \in 1..N |-> a] \in [1..N -> T]
    OBVIOUS
  <2>2. \A f : Good(0, f)
    OBVIOUS
  <2>3. 0 \in 0..N
    OBVIOUS
  <2> HIDE DEF Good
  <2> QED
    BY <2>1, <2>2, <2>3
<1>2. ASSUME NEW k \in 0..N, k \in S, k < N
      PROVE  k + 1 \in S
  <2>1. PICK f \in [1..N -> T] : Good(k, f)
    BY <1>2
  <2>2. PICK n : n = N - k /\ n \in 1..N
    BY <1>2
  <2>3. PICK g : g = [f EXCEPT ![n] = H[n][f]]
    OBVIOUS
  <2>4. g \in [1..N -> T]
    BY <2>2, <2>3
  <2>5. ASSUME NEW i \in N - (k + 1) + 1..N
        PROVE  g[i] = H[i][g]
    <3>1. i \in 1..N /\ \A j \in i + 1..N : j \in 1..N /\ j # n
      BY <1>2, <2>2
    <3>2. \A j \in i + 1..N : f[j] = g[j]
      BY <2>3, <3>1
    <3>3. H[i][f] = H[i][g]
      BY <2>4, <3>1, <3>2 DEF LooksAhead
    <3>4. CASE i = n
      BY <2>2, <2>3, <3>3, <3>4
    <3>5. CASE i # n
      <4>1. i \in N - k + 1..N
        BY <1>2, <2>2, <3>1, <3>5
      <4> QED
        BY <2>1, <2>3, <3>1, <3>3, <3>5, <4>1
    <3> QED
      BY <3>4, <3>5
  <2>6. k + 1 \in 0..N /\ Good(k + 1, g)
    BY <1>2, <2>5
  <2> HIDE DEF Good
  <2> QED
    BY <2>4, <2>6
<1>3. N \in S
  <2> HIDE DEF S
  <2>1. N \in 0..N /\ \A n \in 0..N : n \in S /\ n < N => n + 1 \in S
    BY <1>2
  <2> QED
    BY <1>1, <2>1, UpTo
<1>4. PICK f \in [1..N -> T] : Good(N, f)
  BY <1>3
<1>5. N - N + 1 = 1
  OBVIOUS
<1> QED
  BY <1>4, <1>5 DEF Solves

\* The name that starts at a letter of a path ends before the next separator.
LEMMA NameEnds ==
    ASSUME NEW p \in Paths, NEW i \in 1..Len(p), p[i] # Sep
    PROVE  \E e \in i..Len(p) : (\A j \in i..e : p[j] # Sep) /\ (e < Len(p) => p[e + 1] = Sep)
<1> DEFINE S == {e \in i..Len(p) : e < Len(p) => p[e + 1] = Sep}
<1>0. Len(p) \in Nat
  BY DEF Paths
<1>1. Len(p) \in S
  BY <1>0
<1>2. S \in SUBSET Nat /\ S # {}
  BY <1>0, <1>1
<1>3. PICK e \in S : \A m \in S : e <= m
  <2> HIDE DEF S
  <2> QED BY <1>2, LeastExists
<1>4. ASSUME NEW j \in i..e, p[j] = Sep
      PROVE  FALSE
  <2>1. j \in i + 1..e /\ j - 1 \in i..Len(p) /\ (j - 1) + 1 = j
    BY <1>0, <1>3, <1>4
  <2>2. j - 1 \in S
    BY <1>4, <2>1
  <2>3. e \in Nat /\ j \in Nat /\ ~(e <= j - 1) => FALSE
    BY <1>3, <2>2
  <2> QED
    BY <1>0, <2>1, <2>3
<1> QED
  BY <1>3, <1>4

\* The names of a path are paths.
LEMMA NamesTyped ==
    ASSUME NEW p \in Paths
    PROVE  Names(p) \in Seq(Paths)
<1> DEFINE N == Len(p) + 2
           end(i) == CHOOSE e \in i..Len(p) :
                        /\ \A j \in i..e : p[j] # Sep
                        /\ e < Len(p) => p[e + 1] = Sep
           Body(i, f) == IF i > Len(p) THEN <<>>
                         ELSE IF p[i] = Sep THEN f[i + 1]
                         ELSE <<SubSeq(p, i, end(i))>> \o f[end(i) + 1]
           Is(f) == f = [i \in 1..N |-> IF i > Len(p) THEN <<>>
                         ELSE IF p[i] = Sep THEN f[i + 1]
                         ELSE <<SubSeq(p, i, end(i))>> \o f[end(i) + 1]]
           from == CHOOSE f : Is(f)
           T == Seq(Paths)
<1>1. Names(p) = from[1]
  BY DEF Names
<1>2. Len(p) \in Nat /\ N \in Nat /\ 1 \in 1..N /\ <<>> \in T
  BY DEF Paths
<1>3. ASSUME NEW i \in 1..N, i <= Len(p), p[i] # Sep
      PROVE  end(i) \in i..Len(p) /\ end(i) + 1 \in i + 1..N /\ <<SubSeq(p, i, end(i))>> \in T
  <2> HIDE DEF T
  <2>1. i \in 1..Len(p)
    BY <1>2, <1>3
  <2>2. end(i) \in i..Len(p)
    <3> HIDE DEF N
    <3> QED BY <1>3, <2>1, NameEnds
  <2> HIDE DEF end
  <2>3. SubSeq(p, i, end(i)) \in Paths
    <3>1. end(i) \in 1..Len(p) 
      BY <1>2, <2>1, <2>2
    <3> HIDE DEF N
    <3> QED BY <2>1, <3>1, SubSeqProperties DEF Paths
  <2> QED
    BY <1>2, <2>1, <2>2, <2>3 DEF T
<1> HIDE DEF end
<1>4. ASSUME NEW i \in 1..N, NEW f \in [1..N -> T]
      PROVE  Body(i, f) \in T
  <2>1. CASE i > Len(p)
    BY <1>2, <2>1
  <2>2. CASE i <= Len(p) /\ p[i] = Sep
    <3>1. i + 1 \in 1..N
      BY <1>2, <2>2
    <3> HIDE DEF T, N
    <3> QED BY <1>2, <2>2, <3>1
  <2>3. CASE i <= Len(p) /\ p[i] # Sep
    <3>1. end(i) + 1 \in 1..N /\ <<SubSeq(p, i, end(i))>> \in T
      BY <1>2, <1>3, <2>3
    <3>2. f[end(i) + 1] \in T
      <4> HIDE DEF T, N
      <4> QED BY <3>1
    <3>3. <<SubSeq(p, i, end(i))>> \o f[end(i) + 1] \in T
      BY <3>1, <3>2
    <3> QED BY <1>2, <2>3, <3>3
  <2> QED
    BY <1>2, <2>1, <2>2, <2>3
<1>5. \E f \in [1..N -> T] : Is(f)
  <2>1. PICK H : H = [i \in 1..N |-> [f \in [1..N -> T] |-> Body(i, f)]]
    OBVIOUS
  <2>2. H \in [1..N -> [[1..N -> T] -> T]]
    <3> HIDE DEF Body, T, N
    <3> QED BY <1>4, <2>1
  <2>3. ASSUME NEW i \in 1..N, NEW f \in [1..N -> T], NEW g \in [1..N -> T],
               \A j \in i + 1..N : f[j] = g[j]
        PROVE  H[i][f] = H[i][g]
    <3>1. H[i][f] = Body(i, f) /\ H[i][g] = Body(i, g)
      <4> HIDE DEF Body, T, N
      <4> QED BY <2>1
    <3>2. CASE i > Len(p)
      BY <1>2, <3>1, <3>2
    <3>3. CASE i <= Len(p) /\ p[i] = Sep
      <4>1. i + 1 \in i + 1..N
        BY <1>2, <3>3
      <4> QED
        BY <1>2, <2>3, <3>1, <3>3, <4>1
    <3>4. CASE i <= Len(p) /\ p[i] # Sep
      <4>1. f[end(i) + 1] = g[end(i) + 1]
        BY <1>3, <2>3, <3>4
      <4> QED
        BY <3>1, <3>4, <4>1
    <3> QED
      BY <1>2, <3>2, <3>3, <3>4
  <2>4. PICK f \in [1..N -> T] : \A i \in 1..N : f[i] = H[i][f]
    <3> DEFINE a == <<>>
    <3>1. a \in T /\ N \in Nat
      BY <1>2
    <3> HIDE DEF a, T, N
    <3>2. LooksAhead(H, N, T)
      BY <2>3 DEF LooksAhead
    <3>3. \E f \in [1..N -> T] : Solves(f, N, H)
      BY <2>2, <3>1, <3>2, RecursionDown
    <3> QED BY <3>3 DEF Solves
  <2>5. \A i \in 1..N : f[i] = Body(i, f)
    <3> HIDE DEF Body, T, N
    <3> QED BY <2>1, <2>4
  <2>6. Is(f)
    BY <2>5
  <2> QED
    BY <2>6
<1>6. Is(from)
  <2> HIDE DEF Is
  <2> QED
    BY <1>5
<1> HIDE DEF from
<1>7. \A i \in 1..N : from[i] = Body(i, from)
  BY <1>6
<1> HIDE DEF Is
<1>8. ASSUME NEW i \in 1..N, \A j \in i + 1..N : from[j] \in T
      PROVE  from[i] \in T
  <2>1. CASE i > Len(p)
    BY <1>2, <1>7, <2>1
  <2>2. CASE i <= Len(p) /\ p[i] = Sep
    <3>1. i + 1 \in i + 1..N
      BY <1>2, <2>2
    <3> HIDE DEF T
    <3> QED BY <1>2, <1>7, <1>8, <2>2, <3>1
  <2>3. CASE i <= Len(p) /\ p[i] # Sep
    <3>1. from[end(i) + 1] \in T /\ <<SubSeq(p, i, end(i))>> \in T
      <4> HIDE DEF T
      <4> QED BY <1>3, <1>8, <2>3
    <3>2. <<SubSeq(p, i, end(i))>> \o from[end(i) + 1] \in T
      BY <3>1
    <3>3. from[i] = <<SubSeq(p, i, end(i))>> \o from[end(i) + 1]
      <4>1. from[i] = Body(i, from)
        <5> HIDE DEF Body, T, N
        <5> QED BY <1>7
      <4>2. ~(i > Len(p)) /\ ~(p[i] = Sep)
        BY <1>2, <2>3
      <4>3. Body(i, from) = <<SubSeq(p, i, end(i))>> \o from[end(i) + 1]
        BY ONLY <4>2 DEF Body
      <4> HIDE DEF Body, T, N
      <4> QED BY <4>1, <4>3
    <3> QED BY <3>2, <3>3
  <2> QED
    BY <1>2, <2>1, <2>2, <2>3
<1>9. \A i \in 1..N : from[i] \in T
  <2> DEFINE S == {k \in 0..N : \A i \in N - k + 1..N : from[i] \in T}
  <2> HIDE DEF T
  <2>1. 0 \in S
    BY <1>2
  <2>2. ASSUME NEW k \in 0..N, k \in S, k < N
        PROVE  k + 1 \in S
    <3>1. PICK n : n = N - k /\ n \in 1..N /\ n + 1 = N - k + 1
      BY <1>2, <2>2
    <3>2. from[n] \in T
      BY <1>8, <2>2, <3>1
    <3>3. \A i \in N - (k + 1) + 1..N : i = n \/ i \in N - k + 1..N
      BY <1>2, <3>1
    <3> QED
      BY <1>2, <2>2, <3>2, <3>3
  <2>3. N \in 0..N
    BY <1>2
  <2> HIDE DEF N, Body
  <2>4. N \in S
    <3> HIDE DEF S
    <3> QED BY <1>2, <2>1, <2>2, <2>3, UpTo
  <2>5. N - N + 1 = 1
    BY <1>2
  <2> QED
    BY <2>4, <2>5
<1> HIDE DEF N
<1> QED
  BY <1>1, <1>2, <1>9

-----------------------------------------------------------------------------
\* What is resolved of the values of a walk is a path.
LEMMA ResolvedTyped ==
    ASSUME NEW request \in [path : Paths, inner : Seq(Paths), outer : Seq(Paths)],
           {Sep, "$"} \subseteq Letters
    PROVE  Resolved(request) \in Paths
<1> DEFINE walk == request.inner \o (IF request.path = <<>> THEN <<>> ELSE <<request.path>>)
                                 \o request.outer
           N == Len(walk)
           Before(x, i) == IF x = <<>> THEN walk[i]
                           ELSE IF Head(x) = Sep THEN x
                           ELSE walk[i] \o <<Sep>> \o x
           Is(f) == f = [i \in 0..N |-> IF i = 0 THEN <<>>
                           ELSE LET before == f[i - 1]
                                IN  IF before = <<>> THEN walk[i]
                                    ELSE IF Head(before) = Sep THEN before
                                    ELSE walk[i] \o <<Sep>> \o before]
           result == CHOOSE f : Is(f)
<1>1. Resolved(request) = result[N]
  BY DEF Resolved
<1>2. walk \in Seq(Paths)
  <2>1. (IF request.path = <<>> THEN <<>> ELSE <<request.path>>) \in Seq(Paths)
    OBVIOUS
  <2>2. request.inner \in Seq(Paths) /\ request.outer \in Seq(Paths)
    OBVIOUS
  <2> QED
    BY <2>1, <2>2
<1> HIDE DEF walk
<1>3. N \in Nat /\ <<>> \in Paths /\ <<Sep>> \in Paths
  BY <1>2 DEF Paths
<1>4. ASSUME NEW i \in 1..N, NEW x \in Paths
      PROVE  Before(x, i) \in Paths
  <2>1. walk[i] \in Paths
    BY <1>2
  <2>2. walk[i] \o <<Sep>> \o x \in Paths
    BY <1>3, <2>1 DEF Paths
  <2> QED
    BY <2>1, <2>2
<1>5. \E f : Is(f)
  <2>1. PICK G : G = [i \in 1..N |-> [x \in Paths |-> Before(x, i)]]
    OBVIOUS
  <2> HIDE DEF Is
  <2>2. G \in [1..N -> [Paths -> Paths]]
    <3> HIDE DEF Before, N
    <3> QED BY <1>4, <2>1
  <2>3. PICK f \in [0..N -> Paths] : f[0] = <<>> /\ \A i \in 1..N : f[i] = G[i][f[i - 1]]
    <3> HIDE DEF N
    <3> DEFINE a == <<>>
    <3>1. N \in Nat /\ a \in Paths /\ G \in [1..N -> [Paths -> Paths]]
      BY <1>3, <2>2
    <3> HIDE DEF a
    <3>2. \E f \in [0..N -> Paths] : Follows(f, N, a, G)
      BY <3>1, Recursion
    <3> QED
      BY <3>2 DEF Follows, a
  <2>4. \A i \in 1..N : f[i] = Before(f[i - 1], i)
    <3> TAKE i \in 1..N
    <3>1. f[i - 1] \in Paths
      BY <1>3
    <3> HIDE DEF Before
    <3> QED
      BY <2>1, <2>3, <3>1
  <2>5. Is(f)
    <3>1. f = [i \in 0..N |-> f[i]]
      BY <2>3
    <3>2. \A i \in 0..N : i # 0 => i \in 1..N
      BY <1>3
    <3>3. f = [i \in 0..N |-> IF i = 0 THEN <<>> ELSE Before(f[i - 1], i)]
      <4> HIDE DEF Before, N
      <4> QED BY <2>3, <2>4, <3>1, <3>2
    <3> QED
      BY <3>3 DEF Is
  <2> QED
    BY <2>5
<1>6. Is(result)
  <2> HIDE DEF Is
  <2> QED
    BY <1>5
<1> HIDE DEF result
<1>7. \A i \in 0..N : result[i] = IF i = 0 THEN <<>> ELSE Before(result[i - 1], i)
  BY <1>6
<1> HIDE DEF Is, Before
<1>8. result[N] \in Paths
  <2> DEFINE S == {i \in 0..N : result[i] \in Paths}
  <2>1. 0 \in S
    BY <1>3, <1>7
  <2>2. \A n \in 0..N : n \in S /\ n < N => n + 1 \in S
    <3> SUFFICES ASSUME NEW n \in 0..N, n < N, result[n] \in Paths
                 PROVE  n + 1 \in 0..N /\ result[n + 1] \in Paths
      OBVIOUS
    <3>1. n + 1 \in 1..N /\ n + 1 \in 0..N /\ n + 1 # 0 /\ (n + 1) - 1 = n
      BY <1>3
    <3> QED
      BY <1>4, <1>7, <3>1
  <2>3. N \in 0..N
    BY <1>3
  <2> HIDE DEF N
  <2>4. N \in S
    <3> HIDE DEF S
    <3> QED BY <1>3, <2>1, <2>2, <2>3, UpTo
  <2> QED
    BY <2>4
<1> QED
  BY <1>1, <1>8

\* A call looks for its domain first.
LEMMA CallTyped ==
    ASSUME NEW tree \in Trees, NEW path \in Paths, MaxSubstitutions \in Nat
    PROVE  Call(tree, path) \in Frame /\ Call(tree, path).at = "find"
<1>1. Names(path) \in Seq(Paths) /\ <<>> \in Paths
  BY NamesTyped DEF Paths
<1> QED
  BY <1>1 DEF Call, Frame

\* Front leaves all elements but the last one.
LEMMA FrontElements ==
    ASSUME NEW S, NEW s \in Seq(S), s # <<>>
    PROVE  /\ Front(s) \in Seq(S) /\ Len(s) \in Nat \ {0} /\ Len(Front(s)) = Len(s) - 1
           /\ \A i \in 1..Len(s) - 1 : Front(s)[i] = s[i]
           /\ Last(s) \in S /\ Last(s) = s[Len(s)] /\ Len(s) \in DOMAIN s
<1>1. Len(s) \in Nat \ {0}
  OBVIOUS
<1>2. \A i \in 1..Len(s) - 1 : s[i] \in S
  OBVIOUS
<1>3. PICK n : n = Len(s) - 1 /\ n \in Nat
  BY <1>1
<1>4. /\ SubSeq(s, 1, n) \in Seq(S) /\ Len(SubSeq(s, 1, n)) = IF 1 <= n THEN n - 1 + 1 ELSE 0
      /\ \A i \in 1..n - 1 + 1 : SubSeq(s, 1, n)[i] = s[1 + i - 1]
  BY <1>2, <1>3, SubSeqProperties
<1>5. Front(s) = SubSeq(s, 1, n)
  BY <1>3 DEF Front
<1> HIDE DEF Front
<1>6. n - 1 + 1 = n /\ (~(1 <= n) => n = 0) /\ \A i \in 1..n : 1 + i - 1 = i
  BY <1>3
<1>7. Len(Front(s)) = n /\ \A i \in 1..n : Front(s)[i] = s[i]
  BY <1>4, <1>5, <1>6
<1>8. Last(s) = s[Len(s)] /\ s[Len(s)] \in S /\ Len(s) \in DOMAIN s
  BY <1>1 DEF Last
<1> QED
  BY <1>1, <1>3, <1>4, <1>5, <1>7, <1>8

\* What a rule makes of a path that it matches is a path and not empty.
LEMMA ReplacedTyped ==
    ASSUME NEW rule \in Rules, NEW p \in Paths, Matches(rule, p)
    PROVE  Replaced(rule, p) \in Paths \ {<<>>}
<1> DEFINE at == Place(rule, p)
           all == {x \in 1..Len(p) : Occurs(rule.search, p, x)}
<1>1. rule.search \in Paths /\ rule.replacement \in Paths /\ rule.replacement # <<>> /\ rule.type \in Types
  BY DEF Rules
<1>2. Len(p) \in Nat /\ Len(rule.search) \in Nat
  BY <1>1 DEF Paths
<1>3. at \in Nat /\ at >= 1 /\ at <= Len(p) + 1
  <2>1. Place(rule, p) # 0
    BY DEF Matches
  <2>2. CASE rule.type = "Exact"
    BY <1>2, <2>1, <2>2 DEF Place
  <2>3. CASE rule.type = "StartsWith"
    BY <1>2, <2>1, <2>3 DEF Place
  <2>4. CASE rule.type = "EndsWith"
    <3> DEFINE end == Len(p) - Len(rule.search) + 1
    <3>1. at = IF end \in all THEN end ELSE 0
      BY <2>4 DEF Place
    <3>2. at \in all
      <4> HIDE DEF at, end, all
      <4> QED BY <2>1, <3>1 DEF at
    <3> QED
      BY <1>2, <3>2
  <2>5. CASE rule.type = "Substring"
    <3>1. at = IF all = {} THEN 0 ELSE CHOOSE x \in all : \A y \in all : x <= y
      BY <2>5 DEF Place
    <3>2. all # {} /\ all \in SUBSET Nat
      BY <2>1, <3>1
    <3>3. \E x \in all : \A y \in all : x <= y
      <4> HIDE DEF all
      <4> QED BY <3>2, LeastExists
    <3>4. at \in all
      <4> HIDE DEF all, at
      <4> QED BY <3>1, <3>2, <3>3
    <3> QED
      BY <1>2, <3>4
  <2> QED
    BY <1>1, <2>2, <2>3, <2>4, <2>5 DEF Types
<1> DEFINE left == SubSeq(p, 1, at - 1)
           right == SubSeq(p, at + Len(rule.search), Len(p))
<1>4. Replaced(rule, p) = left \o rule.replacement \o right
  BY DEF Replaced
<1> HIDE DEF at
<1>5. \A i \in 1..at - 1 : p[i] \in Letters
  BY <1>2, <1>3 DEF Paths
<1>6. \A i \in at + Len(rule.search)..Len(p) : p[i] \in Letters
  BY <1>2, <1>3 DEF Paths
<1>7. left \in Seq(Letters)
  BY <1>3, <1>5, SubSeqProperties
<1>8. right \in Seq(Letters)
  BY <1>2, <1>3, <1>6, SubSeqProperties
<1> HIDE DEF left, right
<1>9. left \o rule.replacement \in Seq(Letters) /\ left \o rule.replacement # <<>>
  BY <1>1, <1>7, ConcatEqualIffEmpty DEF Paths
<1> QED
  BY <1>4, <1>8, <1>9, ConcatEqualIffEmpty, ConcatProperties DEF Paths

\* The list of rules, with one added, removed or changed.
LEMMA StoredRuleTyped ==
    ASSUME rules \in Seq(Rules), NEW new \in [type : Types, search : Paths], NEW replacement \in Paths
    PROVE  StoredRule(new, replacement) \in Seq(Rules)
<1> DEFINE old == Existing(new)
           rule == [type |-> new.type, search |-> new.search, replacement |-> replacement]
           at == CHOOSE i \in old : TRUE
<1>1. CASE ~Legal(new) \/ (replacement = <<>> /\ old = {})
  BY <1>1 DEF StoredRule
<1>2. CASE ~(~Legal(new) \/ (replacement = <<>> /\ old = {}))
  <2>1. old # {} => at \in 1..Len(rules)
    BY DEF Existing
  <2>2. CASE replacement = <<>>
    <3>1. StoredRule(new, replacement) = RemoveAt(rules, at)
      BY <1>2, <2>2 DEF StoredRule
    <3>2. at \in 1..Len(rules) /\ Len(rules) \in Nat
      BY <1>2, <2>1, <2>2
    <3> HIDE DEF at
    <3>3. /\ \A i \in 1..at - 1 : rules[i] \in Rules
          /\ \A i \in at + 1..Len(rules) : rules[i] \in Rules
      BY <3>2
    <3>4. SubSeq(rules, 1, at - 1) \in Seq(Rules) /\ SubSeq(rules, at + 1, Len(rules)) \in Seq(Rules)
      BY <3>2, <3>3, SubSeqProperties
    <3> QED
      BY <3>1, <3>4, ConcatProperties DEF RemoveAt
  <2>3. CASE replacement # <<>>
    <3>1. rule \in Rules
      BY <2>3 DEF Rules
    <3>2. CASE old = {}
      BY <1>2, <2>3, <3>1, <3>2 DEF StoredRule
    <3>3. CASE old # {}
      <4>1. StoredRule(new, replacement) = [rules EXCEPT ![at] = rule]
        BY <1>2, <2>3, <3>3 DEF StoredRule
      <4> HIDE DEF at, rule
      <4> QED
        BY <2>1, <3>1, <3>3, <4>1, ExceptSeq
    <3> QED
      BY <3>2, <3>3
  <2> QED
    BY <2>2, <2>3
<1> QED
  BY <1>1, <1>2

-----------------------------------------------------------------------------
\* What SameNames says of sequences of names.
LEMMA SameNamesEquivalence ==
    ASSUME NEW d \in Seq(Paths), NEW e \in Seq(Paths), NEW f \in Seq(Paths)
    PROVE  /\ SameNames(d, d)
           /\ SameNames(d, e) => SameNames(e, d)
           /\ SameNames(d, e) /\ SameNames(e, f) => SameNames(d, f)
<1>1. \A p, q, r \in Paths : /\ Same(p, p)
                             /\ Same(p, q) => Same(q, p)
                             /\ Same(p, q) /\ Same(q, r) => Same(p, r)
  <2> TAKE p, q, r \in Paths
  <2>1. DOMAIN p = 1..Len(p) /\ DOMAIN q = 1..Len(q) /\ DOMAIN r = 1..Len(r)
    BY DEF Paths
  <2> QED
    BY <2>1, Zenon DEF Same
<1>2. /\ DOMAIN d = 1..Len(d) /\ DOMAIN e = 1..Len(e) /\ DOMAIN f = 1..Len(f)
      /\ \A i \in DOMAIN d : d[i] \in Paths
      /\ \A i \in DOMAIN e : e[i] \in Paths
      /\ \A i \in DOMAIN f : f[i] \in Paths
  OBVIOUS
<1> QED
  BY <1>1, <1>2 DEF SameNames

\* The same names are also the same up to a shorter length, and with one name more.
LEMMA SameNamesPrefix ==
    ASSUME NEW d \in Seq(Paths), NEW names \in Seq(Paths), NEW n \in Nat, n < Len(names),
           SameNames(d, SubSeq(names, 1, n))
    PROVE  /\ SubSeq(names, 1, n) \in Seq(Paths) /\ SubSeq(names, 1, n + 1) \in Seq(Paths)
           /\ Append(d, names[n + 1]) \in Seq(Paths)
           /\ SameNames(Append(d, names[n + 1]), SubSeq(names, 1, n + 1))
<1>1. \A i \in 1..n + 1 : i \in 1..Len(names) /\ names[i] \in Paths /\ 1 + i - 1 = i
  OBVIOUS
<1>2. n - 1 + 1 = n /\ (n + 1) - 1 + 1 = n + 1 /\ (~(1 <= n) => n = 0) /\ 1 <= n + 1 /\ n \in Int /\ n + 1 \in Int
  OBVIOUS
<1> DEFINE short == SubSeq(names, 1, n)
           long  == SubSeq(names, 1, n + 1)
<1>3. /\ short \in Seq(Paths) /\ Len(short) = n
      /\ \A i \in 1..n : short[i] = names[i]
  <2>1. \A i \in 1..n : names[i] \in Paths /\ 1 + i - 1 = i
    BY <1>1
  <2> QED
    BY <1>2, <2>1, SubSeqProperties
<1>4. /\ long \in Seq(Paths) /\ Len(long) = n + 1
      /\ \A i \in 1..n + 1 : long[i] = names[i]
  BY <1>1, <1>2, SubSeqProperties
<1>5. names[n + 1] \in Paths /\ Same(names[n + 1], names[n + 1])
  BY <1>1 DEF Same, Paths
<1> DEFINE new == Append(d, names[n + 1])
<1>6. Len(d) = n /\ \A i \in 1..n : Same(d[i], names[i])
  <2>1. Len(d) = Len(short) /\ \A i \in DOMAIN d : Same(d[i], short[i])
    BY DEF SameNames
  <2>2. DOMAIN d = 1..Len(d)
    OBVIOUS
  <2> HIDE DEF short
  <2> QED BY <1>3, <2>1, <2>2
<1>7. /\ new \in Seq(Paths) /\ Len(new) = n + 1 /\ new[n + 1] = names[n + 1]
      /\ \A i \in 1..n : new[i] = d[i]
  BY <1>5, <1>6, AppendProperties
<1>8. DOMAIN new = 1..n + 1
  BY <1>7
<1> HIDE DEF short, long, new
<1>9. ASSUME NEW i \in 1..n + 1
      PROVE  Same(new[i], long[i])
  <2>1. CASE i = n + 1
    BY <1>4, <1>5, <1>7, <2>1
  <2>2. CASE i # n + 1
    <3>1. i \in 1..n
      BY <2>2
    <3> QED
      BY <1>4, <1>6, <1>7, <3>1
  <2> QED
    BY <2>1, <2>2
<1>10. SameNames(new, long)
  BY <1>4, <1>7, <1>8, <1>9 DEF SameNames
<1> QED
  BY <1>3, <1>4, <1>7, <1>10 DEF short, long, new

\* Of the domains of names that are not all there, the first one missing is known.
LEMMA KnownPrefixExists ==
    ASSUME NEW tree \in Trees, NEW names \in Seq(Paths), Found(tree, names) = {}
    PROVE  /\ KnownPrefix(tree, names) \in Nat /\ KnownPrefix(tree, names) < Len(names)
           /\ Found(tree, SubSeq(names, 1, KnownPrefix(tree, names))) # {}
           /\ Found(tree, SubSeq(names, 1, KnownPrefix(tree, names) + 1)) = {}
<1> DEFINE Missing == {n \in 1..Len(names) : Found(tree, SubSeq(names, 1, n)) = {}}
           Known(n) == /\ Found(tree, SubSeq(names, 1, n)) # {}
                       /\ n < Len(names) => Found(tree, SubSeq(names, 1, n + 1)) = {}
<1>1. Len(names) \in Nat /\ SubSeq(names, 1, Len(names)) = names
  BY SubSeqFull
<1>2. Found(tree, <<>>) # {}
  BY DEF Found
<1>3. Len(names) # 0 /\ Len(names) \in Missing
  <2>1. Len(names) = 0 => names = <<>>
    OBVIOUS
  <2>2. Len(names) # 0
    BY <1>2, <2>1
  <2>3. Len(names) \in 1..Len(names)
    BY <1>1, <2>2
  <2> QED
    BY <1>1, <2>2, <2>3
<1>4. Missing \in SUBSET Nat
  BY <1>1
<1>5. PICK n \in Missing : \A m \in Missing : n <= m
  <2> HIDE DEF Missing
  <2> QED BY <1>3, <1>4, LeastExists
<1>6. n \in 1..Len(names) /\ Found(tree, SubSeq(names, 1, n)) = {} /\ n - 1 \in 0..Len(names) /\ (n - 1) + 1 = n
  BY <1>1, <1>5
<1>7. Found(tree, SubSeq(names, 1, n - 1)) # {}
  <2>1. CASE n = 1
    <3>1. SubSeq(names, 1, n - 1) = <<>>
      BY <2>1, SubSeqEmpty
    <3> QED
      BY <1>2, <3>1
  <2>2. CASE n # 1
    <3>1. n - 1 \in 1..Len(names) /\ ~(n <= n - 1)
      BY <1>1, <1>6, <2>2
    <3>2. n - 1 \notin Missing
      BY <1>5, <3>1
    <3> QED
      BY <3>1, <3>2
  <2> QED
    BY <2>1, <2>2
<1>8. \E m \in 0..Len(names) : Known(m)
  BY <1>6, <1>7
<1>9. KnownPrefix(tree, names) = CHOOSE m \in 0..Len(names) : Known(m)
  BY DEF KnownPrefix
<1> HIDE DEF Known
<1>10. KnownPrefix(tree, names) \in 0..Len(names) /\ Known(KnownPrefix(tree, names))
  BY <1>8, <1>9
<1>11. KnownPrefix(tree, names) # Len(names)
  BY <1>1, <1>10 DEF Known
<1> QED
  BY <1>1, <1>10, <1>11 DEF Known

-----------------------------------------------------------------------------
\* The innermost call.
LEMMA TopTyped ==
    ASSUME TypeOK, stack # <<>>
    PROVE  /\ Top \in Frame /\ Top = stack[Len(stack)] /\ Len(stack) \in Nat \ {0}
           /\ DOMAIN stack = 1..Len(stack) /\ Len(stack) \in DOMAIN stack
BY FrontElements DEF TypeOK, Top

\* What a call has found is a domain, and its path is one.
LEMMA PathOfTyped ==
    ASSUME TypeOK, NEW f \in Frame, Found(f.tree, f.names) # {}
    PROVE  PathOf(f) \in Paths \ {<<>>}
<1> DEFINE d == CHOOSE x \in Found(f.tree, f.names) : TRUE
<1>1. f.tree \in Trees
  BY DEF Frame
<1>2. Found(f.tree, f.names) \subseteq Seq(Paths)
  <2>1. domains[f.tree] \subseteq Seq(Paths)
    BY <1>1 DEF TypeOK
  <2>2. <<>> \in Seq(Paths)
    OBVIOUS
  <2> QED
    BY <2>1, <2>2 DEF Found
<1>3. d \in Seq(Paths)
  BY <1>2
<1>4. PathOf(f) = FullPath(f.tree, d)
  BY DEF PathOf
<1> HIDE DEF d
<1>5. {Sep, "$"} \subseteq Letters
  BY PathsAssumption
<1> QED
  BY <1>3, <1>4, <1>5, FullPathTyped

\* Domains are never removed.
LEMMA FoundGrows ==
    ASSUME NEW tree \in Trees, NEW names, domains[tree] \subseteq domains'[tree]
    PROVE  Found(tree, names) \subseteq Found(tree, names)'
BY DEF Found

\* What is sound of a call depends on the rules and the domains.
LEMMA SoundSame ==
    ASSUME rules' = rules, domains' = domains, NEW f, f \in Sound
    PROVE  f \in Sound'
<1>1. Found(f.tree, f.names)' = Found(f.tree, f.names)
  BY DEF Found
<1>2. PathOf(f)' = PathOf(f)
  BY <1>1 DEF PathOf
<1>3. \A n : Unmatched(f, n)' = Unmatched(f, n)
  BY <1>2 DEF Unmatched
<1> QED
  BY <1>1, <1>3 DEF Sound

\* A call that waits stays sound when domains are created.
LEMMA SoundWaiting ==
    ASSUME NEW f \in Frame, f \in Sound, f \in Waiting', \A tree \in Trees : domains[tree] \subseteq domains'[tree]
    PROVE  f \in Sound'
<1>1. Found(f.tree, f.names) \subseteq Found(f.tree, f.names)'
  BY FoundGrows DEF Frame
<1> QED
  BY <1>1 DEF Sound, Waiting

\* A call that is entered is alone.
LEMMA CallsEntered ==
    ASSUME NEW tree \in Trees, NEW path \in Paths, MaxSubstitutions \in Nat,
           stack' = <<Call(tree, path)>>
    PROVE  stack' \in Seq(Frame) /\ Calls'
<1>1. PICK f : f = Call(tree, path)
  OBVIOUS
<1>2. f \in Frame /\ f.at = "find"
  BY <1>1, CallTyped
<1>3. stack' = <<f>>
  BY <1>1
<1>4. stack' \in Seq(Frame) /\ Len(stack') = 1 /\ DOMAIN stack' = 1..1 /\ stack'[1] = f
  BY <1>2, <1>3
<1>5. f \in Sound'
  BY <1>2 DEF Sound
<1> QED
  BY <1>4, <1>5 DEF Calls

\* A step of the innermost call that changes nothing but that call.
LEMMA CallsWithTop ==
    ASSUME TypeOK, Calls, stack # <<>>, NEW f \in Frame, f \in Sound, stack' = WithTop(f),
           rules' = rules, domains' = domains, warned' = warned
    PROVE  stack' \in Seq(Frame) /\ Calls'
<1>1. stack \in Seq(Frame) /\ Len(stack) \in 1..Len(stack) /\ Len(stack) \in Nat
  BY TopTyped DEF TypeOK
<1>2. /\ stack' \in Seq(Frame) /\ Len(stack') = Len(stack)
      /\ \A j \in 1..Len(stack) : stack'[j] = IF j = Len(stack) THEN f ELSE stack[j]
  BY <1>1, ExceptSeq DEF WithTop
<1>3. ASSUME NEW j \in 1..Len(stack)
      PROVE  stack'[j] \in Sound' /\ (j < Len(stack) => stack'[j] \in Waiting')
  <2>1. CASE j = Len(stack)
    <3>1. stack'[j] = f
      BY <1>2, <2>1
    <3>2. f \in Sound'
      BY SoundSame
    <3> QED
      BY <1>1, <2>1, <3>1, <3>2
  <2>2. CASE j # Len(stack)
    <3>1. PICK g : g = stack[j] /\ stack'[j] = g
      BY <1>2, <2>2
    <3>2. g \in Sound /\ (j < Len(stack) => g \in Waiting)
      BY <1>1, <3>1 DEF Calls
    <3>3. g \in Sound' /\ (j < Len(stack) => g \in Waiting')
      BY <3>2, SoundSame DEF Waiting
    <3> QED
      BY <3>1, <3>3
  <2> QED
    BY <2>1, <2>2
<1>4. DOMAIN stack' = 1..Len(stack)
  BY <1>2
<1> QED
  BY <1>2, <1>3, <1>4 DEF Calls

\* A step of the innermost call that reports.
LEMMA CallsReporting ==
    ASSUME TypeOK, Calls, stack # <<>>, stack' = Append(stack, Reporting), Top \in Waiting',
           warned => warned', \A tree \in Trees : domains[tree] \subseteq domains'[tree]
    PROVE  stack' \in Seq(Frame) /\ Calls'
<1>1. stack \in Seq(Frame) /\ Len(stack) \in Nat \ {0} /\ Top = stack[Len(stack)]
  BY TopTyped DEF TypeOK
<1>2. PICK r : r = Reporting
  OBVIOUS
<1>3. r \in Frame /\ r.at = "find"
  BY <1>2, CallTyped, PathsAssumption, BoundsAssumption DEF Reporting, Trees
<1>4. /\ stack' \in Seq(Frame) /\ Len(stack') = Len(stack) + 1
      /\ \A j \in 1..Len(stack) : stack'[j] = stack[j]
      /\ stack'[Len(stack) + 1] = r
  BY <1>1, <1>2, <1>3, AppendProperties
<1>5. ASSUME NEW j \in 1..Len(stack) + 1
      PROVE  stack'[j] \in Sound' /\ (j < Len(stack) + 1 => stack'[j] \in Waiting')
  <2>1. CASE j = Len(stack) + 1
    <3>1. stack'[j] = r
      BY <1>4, <2>1
    <3>2. r \in Sound'
      BY <1>3 DEF Sound
    <3> QED
      BY <1>1, <2>1, <3>1, <3>2
  <2>2. CASE j # Len(stack) + 1
    <3>0. j \in 1..Len(stack)
      BY <1>1, <2>2
    <3>1. PICK g : g = stack[j] /\ stack'[j] = g
      BY <1>4, <3>0
    <3>2. g \in Frame /\ g \in Sound /\ (j < Len(stack) => g \in Waiting)
      BY <1>1, <3>0, <3>1 DEF Calls
    <3>3. g \in Waiting'
      <4>1. CASE j = Len(stack)
        <5>1. g = Top
          BY <1>1, <3>1, <4>1
        <5> QED
          BY <5>1 DEF Waiting
      <4>2. CASE j # Len(stack)
        BY <1>1, <3>0, <3>2, <4>2 DEF Waiting
      <4> QED
        BY <4>1, <4>2
    <3>4. g \in Sound'
      BY <3>2, <3>3, SoundWaiting
    <3> QED
      BY <3>1, <3>3, <3>4
  <2> QED
    BY <2>1, <2>2
<1>6. DOMAIN stack' = 1..Len(stack) + 1
  BY <1>4
<1> QED
  BY <1>4, <1>5, <1>6 DEF Calls

\* The innermost call returns.
LEMMA CallsReturn ==
    ASSUME TypeOK, Calls, stack # <<>>, stack' = Front(stack),
           rules' = rules, domains' = domains, warned' = warned
    PROVE  stack' \in Seq(Frame) /\ Calls'
<1>1. /\ stack \in Seq(Frame) /\ Len(stack) \in Nat \ {0}
      /\ stack' \in Seq(Frame) /\ Len(stack') = Len(stack) - 1
      /\ \A j \in 1..Len(stack) - 1 : stack'[j] = stack[j]
  BY FrontElements DEF TypeOK
<1>2. ASSUME NEW j \in 1..Len(stack) - 1
      PROVE  stack'[j] \in Sound' /\ (j < Len(stack) - 1 => stack'[j] \in Waiting')
  <2>1. PICK g : g = stack[j] /\ stack'[j] = g
    BY <1>1
  <2>2. g \in Sound /\ g \in Waiting
    BY <1>1, <2>1 DEF Calls
  <2>3. g \in Sound' /\ g \in Waiting'
    BY <2>2, SoundSame DEF Waiting
  <2> QED
    BY <2>1, <2>3
<1>3. DOMAIN stack' = 1..Len(stack) - 1
  BY <1>1
<1> QED
  BY <1>1, <1>2, <1>3 DEF Calls

\* What a call returns is a fixpoint of the rules, unless the call gives up, having warned.
LEMMA ReturnSound ==
    ASSUME TypeOK, Calls, stack # <<>>, Return, rules' = rules, warned' = warned,
           Found(Top.tree, Wanted) # {},
           \/ rules = <<>>
           \/ Top.at = "passed" /\ (LimitReached => warned) /\ Top.subst = <<>>
    PROVE  /\ last' \in Seq([full : Paths, left : Int])
           /\ ReturnedIsFixpoint' /\ GivingUpIsReported'
<1>1. PICK f : f = Top
  OBVIOUS
<1>2. f \in Frame /\ f \in Sound /\ f.left \in Int
  BY <1>1, TopTyped DEF Calls, Frame
<1>3. FullPath(Top.tree, Domain) = PathOf(f)
  BY <1>1 DEF Domain, PathOf, Wanted
<1>4. PathOf(f) \in Paths
  BY <1>1, <1>2, PathOfTyped DEF Wanted
<1>5. PICK r : r = [full |-> PathOf(f), left |-> f.left]
  OBVIOUS
<1>6. last' = <<r>>
  BY <1>1, <1>3, <1>5 DEF Return
<1>7. r \in [full : Paths, left : Int] /\ r.full = PathOf(f) /\ r.left = f.left
  BY <1>2, <1>4, <1>5
<1>8. last' \in Seq([full : Paths, left : Int]) /\ DOMAIN last' = {1} /\ last'[1] = r
  BY <1>6, <1>7
<1>9. (r.left <= 0 /\ warned) \/ \A j \in DOMAIN rules : ~Matches(rules[j], r.full)
  <2>1. CASE rules = <<>>
    <3>1. DOMAIN rules = {}
      BY <2>1
    <3> QED
      BY <3>1
  <2>2. CASE rules # <<>>
    <3>1. f.at = "passed" /\ f.subst = <<>> /\ (f.left <= 0 => warned)
      BY <1>1, <2>2 DEF LimitReached
    <3>2. f.left <= 0 \/ Unmatched(f, Len(rules) + 1)
      BY <1>2, <3>1 DEF Sound
    <3>3. Unmatched(f, Len(rules) + 1) => \A j \in DOMAIN rules : ~Matches(rules[j], PathOf(f))
      <4>1. DOMAIN rules = 1..Len(rules) /\ Len(rules) \in Nat
        BY DEF TypeOK
      <4>2. \A j \in DOMAIN rules : j < Len(rules) + 1
        BY <4>1
      <4> QED
        BY <4>2 DEF Unmatched
    <3> QED
      BY <1>7, <3>1, <3>2, <3>3
  <2> QED
    BY <2>1, <2>2
<1>10. ReturnedIsFixpoint'
  <2>1. r.left > 0 => ~(r.left <= 0)
    BY <1>2, <1>7
  <2> QED
    BY <1>8, <1>9, <2>1 DEF ReturnedIsFixpoint
<1>11. GivingUpIsReported'
  BY <1>8, <1>9 DEF GivingUpIsReported
<1> QED
  BY <1>8, <1>10, <1>11

-----------------------------------------------------------------------------
\* The domain that is created is new, whatever its spelling, and its parent is there.
LEMMA CreatedSound ==
    ASSUME TypeOK, TreesSound, NEW tree \in Trees, NEW names \in Seq(Paths), Found(tree, names) = {},
           domains' = [domains EXCEPT ![tree] = @ \cup {FirstMissing(tree, names)}]
    PROVE  /\ domains' \in [Trees -> SUBSET Seq(Paths)]
           /\ \A t \in Trees : domains[t] \subseteq domains'[t]
           /\ TreesSound'
<1> DEFINE n == KnownPrefix(tree, names)
           known == SubSeq(names, 1, n)
           parent == CHOOSE d \in Found(tree, known) : TRUE
           new == Append(parent, names[n + 1])
<1>1. /\ n \in Nat /\ n < Len(names)
      /\ Found(tree, known) # {} /\ Found(tree, SubSeq(names, 1, n + 1)) = {}
  BY KnownPrefixExists
<1>2. FirstMissing(tree, names) = new
  BY DEF FirstMissing
<1> HIDE DEF n
<1>3. domains[tree] \subseteq Seq(Paths)
  BY DEF TypeOK
<1>4. known \in Seq(Paths) /\ Len(known) = n
  <2>1. \A i \in 1..n : names[i] \in Paths
    BY <1>1
  <2>2. n \in Int /\ (IF 1 <= n THEN n - 1 + 1 ELSE 0) = n
    BY <1>1
  <2> QED
    BY <2>1, <2>2, SubSeqProperties
<1>5. /\ parent \in Seq(Paths) /\ SameNames(parent, known)
      /\ parent = <<>> \/ parent \in domains[tree]
  <2> HIDE DEF known
  <2>1. parent \in Found(tree, known)
    BY <1>1
  <2> HIDE DEF parent
  <2>2. CASE known = <<>>
    <3>1. parent = <<>>
      BY <2>1, <2>2 DEF Found
    <3> QED
      BY <1>4, <2>2, <3>1, SameNamesEquivalence
  <2>3. CASE known # <<>>
    BY <1>3, <2>1, <2>3 DEF Found
  <2> QED
    BY <2>2, <2>3
<1> HIDE DEF parent
<1>6. /\ SubSeq(names, 1, n + 1) \in Seq(Paths) /\ new \in Seq(Paths)
      /\ SameNames(new, SubSeq(names, 1, n + 1))
  BY <1>1, <1>5, SameNamesPrefix
<1>7. names[n + 1] \in Paths
  BY <1>1
<1>8. new # <<>> /\ Front(new) = parent
  <2>1. Len(new) = Len(parent) + 1 /\ Len(parent) \in Nat
    BY <1>5, <1>7, AppendProperties
  <2>2. SubSeq(new, 1, Len(parent)) = parent
    BY <1>5, <1>7
  <2>3. Front(new) = SubSeq(new, 1, Len(parent))
    BY <2>1 DEF Front
  <2> QED
    BY <1>5, <1>7, <2>2, <2>3, AppendProperties
<1> HIDE DEF new
<1>9. SubSeq(names, 1, n + 1) # <<>>
  <2>1. Found(tree, <<>>) # {}
    BY DEF Found
  <2> QED
    BY <1>1, <2>1
<1>10. ASSUME NEW e \in domains[tree], SameNames(new, e) \/ SameNames(e, new)
       PROVE  FALSE
  <2>1. e \in Seq(Paths)
    BY <1>3
  <2>2. SameNames(e, SubSeq(names, 1, n + 1))
    BY <1>6, <1>10, <2>1, SameNamesEquivalence
  <2>3. e \in Found(tree, SubSeq(names, 1, n + 1))
    BY <1>9, <2>2 DEF Found
  <2> QED
    BY <1>1, <2>3
<1>11. /\ domains'[tree] = domains[tree] \cup {new}
       /\ \A t \in Trees : t # tree => domains'[t] = domains[t]
       /\ domains' \in [Trees -> SUBSET Seq(Paths)]
  <2>1. domains \in [Trees -> SUBSET Seq(Paths)]
    BY DEF TypeOK
  <2> QED
    BY <1>2, <1>6, <2>1
<1>12. TreesSound'
  <2> SUFFICES ASSUME NEW t \in Trees, NEW d \in domains'[t]
               PROVE  /\ d # <<>>
                      /\ Len(d) > 1 => Front(d) \in domains'[t]
                      /\ \A e \in domains'[t] : SameNames(d, e) => d = e
    BY DEF TreesSound
  <2>1. CASE t # tree
    BY <1>11, <2>1 DEF TreesSound
  <2>2. CASE t = tree /\ d \in domains[t]
    <3>1. d # <<>> /\ (Len(d) > 1 => Front(d) \in domains[t])
      BY <2>2 DEF TreesSound
    <3>2. \A e \in domains[t] : SameNames(d, e) => d = e
      BY <2>2 DEF TreesSound
    <3>3. ~SameNames(d, new)
      BY <1>10, <2>2
    <3> QED
      BY <1>11, <2>2, <3>1, <3>2, <3>3
  <2>3. CASE t = tree /\ d = new
    <3>1. Len(new) > 1 => parent # <<>>
      <4>1. Len(new) = Len(parent) + 1
        BY <1>5, <1>7, AppendProperties DEF new
      <4> QED
        BY <4>1
    <3>2. Len(new) > 1 => Front(new) \in domains[tree]
      BY <1>5, <1>8, <3>1
    <3>3. \A e \in domains'[t] : SameNames(new, e) => e = new
      BY <1>10, <1>11, <2>3
    <3> QED
      BY <1>8, <1>11, <2>3, <3>2, <3>3
  <2> QED
    BY <1>11, <2>1, <2>2, <2>3
<1> QED
  BY <1>11, <1>12

\* What a call substituted so far is a path and not empty, as is what it has found.
LEMMA SubstitutedTyped ==
    ASSUME TypeOK, Calls, stack # <<>>, Top.at = "rules"
    PROVE  /\ Substituted \in Paths
           /\ Top.subst = <<>> => Substituted = PathOf(Top)
<1>1. PICK f : f = Top
  OBVIOUS
<1>2. f \in Frame /\ Found(f.tree, f.names) # {} /\ f.subst \in Paths
  BY <1>1, TopTyped DEF Calls, Sound, Frame
<1>3. FullPath(Top.tree, Domain) = PathOf(f)
  BY <1>1 DEF Domain, PathOf, Wanted
<1>4. PathOf(f) \in Paths
  BY <1>2, PathOfTyped
<1> QED
  BY <1>1, <1>2, <1>3, <1>4 DEF Substituted

-----------------------------------------------------------------------------
\* The invariant holds at the start.
THEOREM InitIInv == Init => IInv
<1> SUFFICES ASSUME Init PROVE IInv
  OBVIOUS
<1>1. <<Report>> \in Seq(Paths) /\ <<Report>> # <<>> /\ Len(<<Report>>) = 1
  BY PathsAssumption
<1>2. TypeOK
  <2>1. domains \in [Trees -> SUBSET Seq(Paths)]
    BY <1>1 DEF Init
  <2> QED
    <3>1. rules \in Seq(Rules) /\ last \in Seq([full : Paths, left : Int]) /\ stack \in Seq(Frame)
      BY DEF Init
    <3>2. warned \in BOOLEAN /\ calls \in Nat
      BY DEF Init
    <3> QED
      BY <2>1, <3>1, <3>2 DEF TypeOK
<1>3. TreesSound
  <2>1. \A tree \in Trees : domains[tree] \subseteq {<<Report>>}
    BY DEF Init
  <2>2. ASSUME NEW tree \in Trees, NEW d \in domains[tree]
        PROVE  d # <<>> /\ ~(Len(d) > 1) /\ \A e \in domains[tree] : d = e
    <3>1. PICK only : only = <<Report>>
      OBVIOUS
    <3>2. only # <<>> /\ Len(only) = 1 /\ domains[tree] \subseteq {only}
      BY <1>1, <2>1, <3>1
    <3>3. \A e \in domains[tree] : e = only
      BY <3>2
    <3>4. d = only /\ ~(Len(only) > 1)
      BY <3>2, <3>3
    <3> QED
      BY <3>2, <3>3, <3>4
  <2> QED
    BY <2>2 DEF TreesSound
<1>4. Calls /\ ReturnedIsFixpoint /\ GivingUpIsReported
  BY DEF Init, Calls, ReturnedIsFixpoint, GivingUpIsReported
<1> QED
  BY <1>2, <1>3, <1>4 DEF IInv

\* What was returned last stays as true as it was if neither it nor the rules change.
LEMMA ReturnedKept ==
    ASSUME IInv, last' = last, rules' = rules, warned => warned'
    PROVE  ReturnedIsFixpoint' /\ GivingUpIsReported'
BY DEF IInv, ReturnedIsFixpoint, GivingUpIsReported

\* A call that changes the rules takes back what was returned last.
LEMMA ReturnedReset ==
    ASSUME last' = <<>>
    PROVE  ReturnedIsFixpoint' /\ GivingUpIsReported' /\ last' \in Seq([full : Paths, left : Int])
BY DEF ReturnedIsFixpoint, GivingUpIsReported

\* A call from outside.
LEMMA RequestingStep ==
    ASSUME IInv, Requesting
    PROVE  IInv'
<1>1. TypeOK /\ TreesSound /\ MaxSubstitutions \in Nat
  BY BoundsAssumption DEF IInv
<1>2. Report \in Paths /\ "internal" \in Trees /\ "main" \in Trees /\ {Sep, "$"} \subseteq Letters
  BY PathsAssumption DEF Trees
<1>3. CASE ClearRules
  <2>1. stack' \in Seq(Frame) /\ Calls'
    BY <1>1, <1>2, <1>3, CallsEntered DEF ClearRules, Reporting
  <2>2. TypeOK'
    <3>1. rules' \in Seq(Rules) /\ warned' \in BOOLEAN
      <4>1. rules' = <<>> /\ warned' = FALSE
        BY <1>3 DEF ClearRules
      <4> QED
        BY <4>1, EmptySeq
    <3>2. last' \in Seq([full : Paths, left : Int])
      BY <1>3, ReturnedReset DEF ClearRules
    <3>3. domains' \in [Trees -> SUBSET Seq(Paths)] /\ calls' \in Nat
      BY <1>1, <1>3 DEF ClearRules, Outside, TypeOK
    <3> QED
      BY <2>1, <3>1, <3>2, <3>3 DEF TypeOK
  <2>3. TreesSound'
    BY <1>1, <1>3 DEF ClearRules, TreesSound
  <2> QED
    BY <1>3, <2>1, <2>2, <2>3, ReturnedReset DEF ClearRules, IInv
<1>4. CASE \E request \in Requests : Entry(request)
  <2>1. PICK request \in Requests : Entry(request)
    BY <1>4
  <2>2. request \in [path : Paths, inner : Seq(Paths), outer : Seq(Paths)]
    BY PathsAssumption
  <2>3. stack' \in Seq(Frame) /\ Calls'
    <3>1. CASE Internal(request.path)
      <4>1. SubSeq(request.path, 3, Len(request.path)) \in Paths
        <5>1. Len(request.path) \in Int /\ \A i \in 3..Len(request.path) : request.path[i] \in Letters
          BY <2>2 DEF Paths
        <5> QED
          BY <5>1, SubSeqProperties DEF Paths
      <4>2. stack' = <<Call("internal", SubSeq(request.path, 3, Len(request.path)))>>
        BY <2>1, <3>1 DEF Entry
      <4> QED
        BY <1>1, <1>2, <4>1, <4>2, CallsEntered
    <3>2. CASE ~Internal(request.path)
      <4>1. stack' = <<Call("main", Resolved(request))>>
        BY <2>1, <3>2 DEF Entry
      <4> QED
        BY <1>1, <1>2, <2>2, <4>1, ResolvedTyped, CallsEntered
    <3> QED
      BY <3>1, <3>2
  <2>4. TypeOK'
    BY <1>1, <2>1, <2>3 DEF Entry, Outside, TypeOK
  <2>5. TreesSound'
    BY <1>1, <2>1 DEF Entry, TreesSound
  <2>6. ReturnedIsFixpoint' /\ GivingUpIsReported'
    BY <2>1, ReturnedKept DEF Entry
  <2> QED
    BY <2>3, <2>4, <2>5, <2>6 DEF IInv
<1>5. CASE \E new \in SearchPaths, replacement \in Replacements \cup {<<>>} :
              SetDomainSubstitutionRule(new, replacement)
  <2>1. PICK new \in SearchPaths, replacement \in Replacements \cup {<<>>} :
            SetDomainSubstitutionRule(new, replacement)
    BY <1>5
  <2>2. new \in [type : Types, search : Paths] /\ replacement \in Paths
    <3>1. <<>> \in Paths
      BY DEF Paths
    <3> QED
      BY <2>1, <3>1, PathsAssumption
  <2>3. StoredRule(new, replacement) \in Seq(Rules)
    BY <1>1, <2>2, StoredRuleTyped DEF TypeOK
  <2>4. stack' \in Seq(Frame) /\ Calls'
    BY <1>1, <1>2, <2>1, CallsEntered DEF SetDomainSubstitutionRule, Reporting
  <2>5. TypeOK'
    BY <1>1, <2>1, <2>3, <2>4, ReturnedReset DEF SetDomainSubstitutionRule, Outside, TypeOK
  <2>6. TreesSound'
    BY <1>1, <2>1 DEF SetDomainSubstitutionRule, TreesSound
  <2> QED
    BY <2>1, <2>4, <2>5, <2>6, ReturnedReset DEF SetDomainSubstitutionRule, IInv
<1> QED
  BY <1>3, <1>4, <1>5 DEF Requesting

\* A step of the innermost call that changes only that call.
LEMMA WithTopStep ==
    ASSUME IInv, stack # <<>>, NEW f \in Sound, stack' = WithTop(f),
           UNCHANGED <<rules, warned, domains, last, calls>>
    PROVE  IInv'
<1>1. stack' \in Seq(Frame) /\ Calls'
  BY CallsWithTop DEF IInv, Sound
<1>2. TypeOK'
  BY <1>1 DEF IInv, TypeOK
<1>3. TreesSound'
  BY DEF IInv, TreesSound
<1> QED
  BY <1>1, <1>2, <1>3, ReturnedKept DEF IInv

\* The return of a call.
LEMMA ReturnStep ==
    ASSUME IInv, stack # <<>>, Return, UNCHANGED <<rules, warned, domains, calls>>,
           Found(Top.tree, Wanted) # {},
           \/ rules = <<>>
           \/ Top.at = "passed" /\ (LimitReached => warned) /\ Top.subst = <<>>
    PROVE  IInv'
<1>1. stack' \in Seq(Frame) /\ Calls'
  BY CallsReturn DEF IInv, Return
<1>2. last' \in Seq([full : Paths, left : Int]) /\ ReturnedIsFixpoint' /\ GivingUpIsReported'
  BY ReturnSound DEF IInv
<1>3. TypeOK'
  BY <1>1, <1>2 DEF IInv, TypeOK
<1>4. TreesSound'
  BY DEF IInv, TreesSound
<1> QED
  BY <1>1, <1>2, <1>3, <1>4 DEF IInv

\* A step of the innermost call.
LEMMA WorkingStep ==
    ASSUME IInv, Working
    PROVE  IInv'
<1>1. TypeOK /\ TreesSound /\ Calls /\ stack # <<>>
  BY DEF IInv, Working, CreateDomain, DomainFound, StartPass, ApplyRule, EndPass, BudgetSpent,
         WarnCircular, StartAgain, NothingSubstituted
<1>2. PICK f : f = Top
  OBVIOUS
<1>3. f \in Frame /\ f \in Sound
  BY <1>1, <1>2, TopTyped DEF Calls
<1>4. /\ f.tree \in Trees /\ f.names \in Seq(Paths) /\ f.subst \in Paths /\ f.left \in Int
      /\ f.next \in Nat \ {0} /\ f.hit \in BOOLEAN
  BY <1>3 DEF Frame
<1>5. CASE CreateDomain
  <2>1. /\ domains' \in [Trees -> SUBSET Seq(Paths)]
        /\ \A t \in Trees : domains[t] \subseteq domains'[t]
        /\ TreesSound'
    BY <1>1, <1>2, <1>4, <1>5, CreatedSound DEF CreateDomain, Wanted
  <2>2. f \in Waiting'
    BY <1>2, <1>3, <1>5 DEF CreateDomain, Waiting
  <2>3. stack' \in Seq(Frame) /\ Calls'
    BY <1>1, <1>2, <1>5, <2>1, <2>2, CallsReporting DEF CreateDomain
  <2>4. TypeOK'
    BY <1>1, <1>5, <2>1, <2>3 DEF CreateDomain, TypeOK
  <2> QED
    BY <1>5, <2>1, <2>3, <2>4, ReturnedKept DEF CreateDomain, IInv
<1>6. CASE DomainFound
  <2>1. CASE rules = <<>>
    BY <1>1, <1>6, <2>1, ReturnStep DEF DomainFound
  <2>2. CASE rules # <<>>
    <3>1. PICK g : g = [f EXCEPT !.at = "pass", !.subst = <<>>]
      OBVIOUS
    <3>2. g \in Sound
      <4>1. Found(f.tree, f.names) # {}
        BY <1>2, <1>6 DEF DomainFound, Wanted
      <4>2. g \in Frame /\ g.at = "pass" /\ g.tree = f.tree /\ g.names = f.names
        <5>1. g = [tree |-> f.tree, names |-> f.names, at |-> "pass", subst |-> <<>>,
                   left |-> f.left, next |-> f.next, hit |-> f.hit]
          BY <1>3, <3>1 DEF Frame
        <5>2. <<>> \in Paths
          BY DEF Paths
        <5> QED
          BY <1>4, <5>1, <5>2 DEF Frame
      <4> QED
        BY <4>1, <4>2 DEF Sound
    <3> QED
      BY <1>1, <1>2, <1>6, <2>2, <3>1, <3>2, WithTopStep DEF DomainFound
  <2> QED
    BY <2>1, <2>2
<1>7. CASE StartPass
  <2>1. PICK g : g = [f EXCEPT !.left = @ - 1, !.at = "rules", !.next = 1, !.hit = FALSE]
    OBVIOUS
  <2>2. g \in Sound
    <3>1. Found(f.tree, f.names) # {}
      BY <1>2, <1>3, <1>7 DEF StartPass, Sound
    <3>2. /\ g \in Frame /\ g.at = "rules" /\ g.tree = f.tree /\ g.names = f.names
          /\ g.next = 1 /\ g.hit = FALSE
      <4>1. g = [tree |-> f.tree, names |-> f.names, at |-> "rules", subst |-> f.subst,
                 left |-> f.left - 1, next |-> 1, hit |-> FALSE]
        BY <1>3, <2>1 DEF Frame
      <4> QED
        BY <1>4, <4>1 DEF Frame
    <3>3. Unmatched(g, 1)
      <4>1. \A j \in DOMAIN rules : ~(j < 1)
        BY <1>1 DEF TypeOK
      <4> QED
        BY <4>1 DEF Unmatched
    <3> QED
      BY <3>1, <3>2, <3>3 DEF Sound
  <2> QED
    BY <1>1, <1>2, <1>7, <2>1, <2>2, WithTopStep DEF StartPass
<1>8. CASE ApplyRule
  <2>1. Top.at = "rules" /\ Top.next <= Len(rules)
    BY <1>8 DEF ApplyRule
  <2>2. PICK path : path = Substituted
    OBVIOUS
  <2>3. path \in Paths /\ (f.subst = <<>> => path = PathOf(f))
    BY <1>1, <1>2, <2>1, <2>2, SubstitutedTyped
  <2>4. /\ Found(f.tree, f.names) # {}
        /\ f.hit => f.subst # <<>>
        /\ f.subst = <<>> => Unmatched(f, f.next)
    BY <1>2, <1>3, <2>1 DEF Sound
  <2>5. PICK new : new = Replaced(rules[f.next], path)
    OBVIOUS
  <2>6. CASE Matches(rules[f.next], path)
    <3>1. f.next \in 1..Len(rules)
      <4>1. Len(rules) \in Nat
        BY <1>1 DEF TypeOK
      <4> QED
        BY <1>2, <1>4, <2>1, <4>1
    <3>2. rules[f.next] \in Rules
      BY <1>1, <3>1 DEF TypeOK
    <3>3. new \in Paths \ {<<>>}
      BY <2>3, <2>5, <2>6, <3>2, ReplacedTyped
    <3>4. PICK g : g = [f EXCEPT !.subst = new, !.hit = TRUE, !.next = @ + 1]
      OBVIOUS
    <3>5. g \in Sound
      <4>1. /\ g \in Frame /\ g.at = "rules" /\ g.tree = f.tree /\ g.names = f.names
            /\ g.subst # <<>>
        <5>1. g = [tree |-> f.tree, names |-> f.names, at |-> "rules", subst |-> new,
                   left |-> f.left, next |-> f.next + 1, hit |-> TRUE]
          BY <1>2, <1>3, <2>1, <3>4 DEF Frame
        <5> QED
          BY <1>4, <3>3, <5>1 DEF Frame
      <4> QED
        BY <2>4, <4>1 DEF Sound
    <3>6. stack' = WithTop(g)
      BY <1>2, <1>8, <2>2, <2>5, <2>6, <3>4 DEF ApplyRule
    <3> QED
      BY <1>1, <1>8, <3>5, <3>6, WithTopStep DEF ApplyRule
  <2>7. CASE ~Matches(rules[f.next], path)
    <3>1. PICK g : g = [f EXCEPT !.next = @ + 1]
      OBVIOUS
    <3>2. /\ g \in Frame /\ g.at = "rules" /\ g.tree = f.tree /\ g.names = f.names
          /\ g.subst = f.subst /\ g.hit = f.hit /\ g.next = f.next + 1
      BY <1>2, <1>3, <1>4, <2>1, <3>1 DEF Frame
    <3>3. f.subst = <<>> => Unmatched(g, g.next)
      <4> SUFFICES ASSUME f.subst = <<>>, NEW j \in DOMAIN rules, j < g.next
                   PROVE  ~Matches(rules[j], PathOf(g))
        BY DEF Unmatched
      <4>1. PathOf(g) = PathOf(f) /\ path = PathOf(f)
        BY <2>3, <3>2 DEF PathOf
      <4>2. CASE j = f.next
        BY <2>7, <4>1, <4>2
      <4>3. CASE j # f.next
        <5>1. j < f.next
          <6>1. j \in Nat
            BY <1>1 DEF TypeOK
          <6> QED
            BY <1>4, <3>2, <4>3, <6>1
        <5> QED
          BY <2>4, <4>1, <5>1 DEF Unmatched
      <4> QED
        BY <4>2, <4>3
    <3>4. g \in Sound
      BY <2>4, <3>2, <3>3 DEF Sound
    <3>5. stack' = WithTop(g)
      BY <1>2, <1>8, <2>2, <2>7, <3>1 DEF ApplyRule
    <3> QED
      BY <1>1, <1>8, <3>4, <3>5, WithTopStep DEF ApplyRule
  <2> QED
    BY <2>6, <2>7
<1>9. CASE EndPass
  <2>1. Top.at = "rules" /\ Top.next > Len(rules)
    BY <1>9 DEF EndPass
  <2>2. /\ Found(f.tree, f.names) # {}
        /\ f.hit => f.subst # <<>>
        /\ f.subst = <<>> => Unmatched(f, f.next)
    BY <1>2, <1>3, <2>1 DEF Sound
  <2>3. PICK g : g = [f EXCEPT !.at = IF f.hit THEN "pass" ELSE "passed"]
    OBVIOUS
  <2>4. /\ g \in Frame /\ g.at \in {"pass", "passed"} /\ g.tree = f.tree /\ g.names = f.names
        /\ g.subst = f.subst
    BY <1>3, <2>3 DEF Frame
  <2>5. f.subst = <<>> => Unmatched(g, Len(rules) + 1)
    <3>1. PathOf(g) = PathOf(f)
      BY <2>4 DEF PathOf
    <3>2. \A j \in DOMAIN rules : j < f.next
      BY <1>1, <1>2, <1>4, <2>1 DEF TypeOK
    <3> QED
      BY <2>2, <3>1, <3>2 DEF Unmatched
  <2>6. g \in Sound
    BY <2>2, <2>4, <2>5 DEF Sound
  <2> QED
    BY <1>1, <1>2, <1>9, <2>3, <2>6, WithTopStep DEF EndPass
<1>10. CASE BudgetSpent
  <2>1. PICK g : g = [f EXCEPT !.left = @ - 1, !.at = "passed"]
    OBVIOUS
  <2>2. g \in Sound
    <3>1. Found(f.tree, f.names) # {} /\ f.left <= 0
      BY <1>2, <1>3, <1>10 DEF BudgetSpent, Sound
    <3>2. g \in Frame /\ g.at = "passed" /\ g.tree = f.tree /\ g.names = f.names /\ g.left = f.left - 1
      <4>1. g = [tree |-> f.tree, names |-> f.names, at |-> "passed", subst |-> f.subst,
                 left |-> f.left - 1, next |-> f.next, hit |-> f.hit]
        BY <1>3, <2>1 DEF Frame
      <4> QED
        BY <1>4, <4>1 DEF Frame
    <3>3. g.left <= 0
      BY <1>4, <3>1, <3>2
    <3> QED
      BY <3>1, <3>2, <3>3 DEF Sound
  <2> QED
    BY <1>1, <1>2, <1>10, <2>1, <2>2, WithTopStep DEF BudgetSpent
<1>11. CASE WarnCircular
  <2>1. f \in Waiting'
    BY <1>2, <1>3, <1>11 DEF WarnCircular, LimitReached, Waiting
  <2>2. stack' \in Seq(Frame) /\ Calls'
    BY <1>1, <1>2, <1>11, <2>1, CallsReporting DEF WarnCircular
  <2>3. TypeOK'
    BY <1>1, <1>11, <2>2 DEF WarnCircular, TypeOK
  <2>4. TreesSound'
    BY <1>1, <1>11 DEF WarnCircular, TreesSound
  <2> QED
    BY <1>11, <2>2, <2>3, <2>4, ReturnedKept DEF WarnCircular, IInv
<1>12. CASE StartAgain
  <2>1. PICK g : g = [f EXCEPT !.names = Names(f.subst), !.at = "find"]
    OBVIOUS
  <2>2. Names(f.subst) \in Seq(Paths)
    BY <1>4, NamesTyped
  <2>3. g \in Frame /\ g.at = "find"
    BY <1>3, <2>1, <2>2 DEF Frame
  <2>4. g \in Sound
    BY <2>3 DEF Sound
  <2> QED
    BY <1>1, <1>2, <1>12, <2>1, <2>4, WithTopStep DEF StartAgain
<1>13. CASE NothingSubstituted
  <2>1. Found(Top.tree, Wanted) # {}
    BY <1>2, <1>3, <1>13 DEF NothingSubstituted, Sound, Wanted
  <2> QED
    BY <1>1, <1>13, <2>1, ReturnStep DEF NothingSubstituted
<1> QED
  BY <1>5, <1>6, <1>7, <1>8, <1>9, <1>10, <1>11, <1>12, <1>13 DEF Working

\* Every step preserves the invariant.
THEOREM NextIInv == IInv /\ [Next]_vars => IInv'
<1> SUFFICES ASSUME IInv, [Next]_vars PROVE IInv'
  OBVIOUS
<1>1. CASE UNCHANGED vars
  <2>1. /\ rules' = rules /\ warned' = warned /\ domains' = domains /\ stack' = stack
        /\ last' = last /\ calls' = calls
    BY <1>1 DEF vars
  <2>2. TypeOK' /\ TreesSound'
    BY <2>1 DEF IInv, TypeOK, TreesSound
  <2>3. Sound \subseteq Sound' /\ Waiting' = Waiting
    BY <2>1, SoundSame DEF Waiting
  <2>4. Calls'
    BY <2>1, <2>3 DEF IInv, Calls
  <2> QED
    BY <2>1, <2>2, <2>4, ReturnedKept DEF IInv
<1>2. CASE Next
  BY <1>2, RequestingStep, WorkingStep DEF Next
<1> QED
  BY <1>1, <1>2

-----------------------------------------------------------------------------
\* The inductive invariant holds in every reachable state.
THEOREM Invariant == Spec => []IInv
BY InitIInv, NextIInv, PTL DEF Spec

\* In every tree no domain exists twice, whatever the spelling of the paths that created
\* it, and each has its parent, with any nesting of the calls of findDomain.
THEOREM TreesSoundAlways == Spec => []TreesSound
<1>1. IInv => TreesSound
  BY DEF IInv
<1> QED
  BY <1>1, Invariant, PTL

\* No rule matches the path of the domain that findDomain returns, unless the budget is
\* spent, for any rules.
THEOREM ReturnedIsFixpointAlways == Spec => []ReturnedIsFixpoint
<1>1. IInv => ReturnedIsFixpoint
  BY DEF IInv
<1> QED
  BY <1>1, Invariant, PTL

\* When a rule still matches what findDomain returns, the warning was given.
THEOREM GivingUpIsReportedAlways == Spec => []GivingUpIsReported
<1>1. IInv => GivingUpIsReported
  BY DEF IInv
<1> QED
  BY <1>1, Invariant, PTL
=============================================================================
