-------------------------- MODULE LogStatementsProofs --------------------------
(***************************************************************************)
(* NothingLeaked, OnceExact and PrefixesInOrder, which MCLogStatements.cfg *)
(* checks for a few calls, proved for any domains, threads, keys, calls    *)
(* and nesting.                                                            *)
(*                                                                         *)
(* What the Lox owns has exactly one owner: a place in the list of a scope *)
(* or of a domain, a key, or the report of the call that takes it away     *)
(* (Owned). It is named by the number of the call that brought it, and     *)
(* numbers fall, so that the next call's is not in use (FreshNumber).      *)
(*                                                                         *)
(* The list that is collected for a statement is the promised one, for any *)
(* tree of domains (CollectedIsPromised), and is still what the next       *)
(* logger gets as long as no other statement began (Prepared).             *)
(***************************************************************************)
EXTENDS LogStatements, FiniteSetTheorems, SequenceTheorems, WellFoundedInduction, TLAPS

\* A statement being delivered; what it carries besides is of no account here.
IsFrame(f) ==
    f \in [by : {f.by}, id : {f.id}, dom : {f.dom}, thread : {f.thread}, prefixes : {f.prefixes},
           next : {f.next}, once : {f.once}, reports : {f.reports}, drop : SUBSET Nat,
           disturbed : {f.disturbed}, promised : {f.promised}]

\* Only a call from outside, the first one, waits to delete something.
IsStack(frames) ==
    /\ frames \in Seq(ToSet(frames))
    /\ \A i \in DOMAIN frames : IsFrame(frames[i]) /\ (i > 1 => frames[i].drop = {})

DropsOf(frames) == UNION {frames[i].drop : i \in DOMAIN frames}

DomainPrefix == [id : Nat, exclude : BOOLEAN]

Typed == /\ calls \in Nat
         /\ scopePrefixes \in [Scopes -> Seq(Nat)]
         /\ domainPrefixes \in [Domains -> Seq(DomainPrefix)]
         /\ logData \in [DOMAIN logData -> Nat]
         /\ IsStack(stack)

\* Lists of objects: where an object is in them, and all of them.
Own(lists) ==
    \A s, q \in DOMAIN lists : \A i \in DOMAIN lists[s], j \in DOMAIN lists[q] :
        lists[s][i] = lists[q][j] => s = q /\ i = j
Objects(lists) == UNION {ToSet(lists[s]) : s \in DOMAIN lists}

DomainIds   == [d \in Domains |-> Ids(domainPrefixes[d])]
DataObjects == {logData[k] : k \in DOMAIN logData}

DataOwn == \A k, l \in DOMAIN logData : logData[k] = logData[l] => k = l

Apart(a, b, c, d) == /\ a \cap b = {} /\ a \cap c = {} /\ a \cap d = {}
                     /\ b \cap c = {} /\ b \cap d = {} /\ c \cap d = {}

OwnedOnce == /\ Own(scopePrefixes) /\ Own(DomainIds) /\ DataOwn
             /\ Apart(Objects(scopePrefixes), Objects(DomainIds), DataObjects, DropsOf(stack))

AllOwned == live = Objects(scopePrefixes) \cup Objects(DomainIds)
                     \cup DataObjects \cup DropsOf(stack)

FreshNumber == \A n \in live : n \in Nat /\ n > calls

IInv == Typed /\ OwnedOnce /\ AllOwned /\ FreshNumber

-----------------------------------------------------------------------------
(***************************************************************************)
(* Lists.                                                                  *)
(***************************************************************************)

\* Appending adds one element at the end.
LEMMA Appended ==
    ASSUME NEW S, NEW s \in Seq(S), NEW e
    PROVE  /\ Append(s, e) \in Seq(S \cup {e}) /\ DOMAIN Append(s, e) = 1..Len(s) + 1
           /\ Len(s) \in Nat /\ DOMAIN s = 1..Len(s)
           /\ \A i \in DOMAIN s : Append(s, e)[i] = s[i]
           /\ Append(s, e)[Len(s) + 1] = e
<1>1. s \in Seq(S \cup {e})
  BY SeqMonotonic
<1> QED
  BY <1>1, AppendProperties, LenProperties

\* Front leaves all elements but the last one.
LEMMA FrontLeaves ==
    ASSUME NEW S, NEW s \in Seq(S), s # <<>>
    PROVE  /\ Front(s) \in Seq(S) /\ DOMAIN Front(s) = 1..Len(s) - 1
           /\ Len(s) \in Nat \ {0} /\ DOMAIN s = 1..Len(s)
           /\ \A i \in DOMAIN Front(s) : Front(s)[i] = s[i]
           /\ Last(s) = s[Len(s)]
<1>1. Len(s) \in Nat \ {0} /\ DOMAIN s = 1..Len(s) /\ \A i \in 1..Len(s) : s[i] \in S
  BY EmptySeq, LenProperties, ElementOfSeq
<1>2. Front(s) = [i \in 1..Len(s) - 1 |-> s[i]]
  BY DEF Front, SubSeq
<1>3. Front(s) \in [1..Len(s) - 1 -> S]
  BY <1>1, <1>2
<1>4. Front(s) \in Seq(S)
  BY <1>1, <1>3, SeqDef
<1> QED
  BY <1>1, <1>2, <1>4 DEF Last

-----------------------------------------------------------------------------
(***************************************************************************)
(* The statements being delivered.                                         *)
(***************************************************************************)

\* A sequence of frames is a stack if only its first one has something to delete.
LEMMA StackIf ==
    ASSUME NEW S, NEW frames \in Seq(S),
           \A i \in DOMAIN frames : IsFrame(frames[i]) /\ (i > 1 => frames[i].drop = {})
    PROVE  IsStack(frames)
<1>1. Len(frames) \in Nat /\ frames \in [1..Len(frames) -> S] /\ DOMAIN frames = 1..Len(frames)
  BY LenProperties
<1>2. frames \in [1..Len(frames) -> ToSet(frames)]
  BY <1>1 DEF ToSet
<1>3. frames \in Seq(ToSet(frames))
  BY <1>1, <1>2, SeqDef
<1> QED
  BY <1>3 DEF IsStack

\* What a stack is made of.
LEMMA StackParts ==
    ASSUME NEW frames, IsStack(frames)
    PROVE  /\ Len(frames) \in Nat /\ DOMAIN frames = 1..Len(frames)
           /\ frames # <<>> => Len(frames) > 0
           /\ \A i \in DOMAIN frames : IsFrame(frames[i]) /\ (i > 1 => frames[i].drop = {})
BY EmptySeq, LenProperties DEF IsStack

\* An empty stack has nothing to delete.
LEMMA EmptyStack == IsStack(<<>>) /\ DropsOf(<<>>) = {}
<1>1. <<>> \in Seq({}) /\ DOMAIN <<>> = {}
  BY EmptySeq
<1> QED
  BY <1>1, StackIf DEF DropsOf

\* A frame stays one if it is marked, or given other numbers.
LEMMA FrameChanged ==
    ASSUME NEW f, IsFrame(f), NEW x
    PROVE  /\ IsFrame([f EXCEPT !.disturbed = x]) /\ [f EXCEPT !.disturbed = x].drop = f.drop
           /\ IsFrame([f EXCEPT !.next = x]) /\ [f EXCEPT !.next = x].drop = f.drop
           /\ IsFrame([f EXCEPT !.once = x]) /\ [f EXCEPT !.once = x].drop = f.drop
           /\ f.drop \in SUBSET Nat
BY DEF IsFrame

\* Statements delete nothing, reports what they are given.
LEMMA NewFrames ==
    /\ \A d, t : IsFrame(Statement(d, t)) /\ Statement(d, t).drop = {}
    /\ \A n, t, more : \A drop \in SUBSET Nat :
          IsFrame(ReportOf(n, t, drop, more)) /\ ReportOf(n, t, drop, more).drop = drop
    /\ \A more : IsFrame(Following(more)) /\ Following(more).drop = {}
<1>1. \A d, t : IsFrame(Statement(d, t)) /\ Statement(d, t).drop = {}
  BY DEF IsFrame, Statement
<1>2. ASSUME NEW n, NEW t, NEW more, NEW drop \in SUBSET Nat
      PROVE  IsFrame(ReportOf(n, t, drop, more)) /\ ReportOf(n, t, drop, more).drop = drop
  BY DEF IsFrame, ReportOf
<1>3. ASSUME NEW more
      PROVE  IsFrame(Following(more)) /\ Following(more).drop = {}
  <2>1. PICK f : f = ReportOf(Top.by, Top.thread, {}, more)
    OBVIOUS
  <2>2. IsFrame(f) /\ f.drop = {}
    BY <1>2, <2>1
  <2> QED
    BY <2>1, <2>2, FrameChanged DEF Following
<1> QED
  BY <1>1, <1>2, <1>3

\* To mark the statements that are interrupted changes nothing else.
LEMMA DisturbedKeeps ==
    ASSUME NEW frames, IsStack(frames)
    PROVE  IsStack(Disturbed(frames)) /\ DropsOf(Disturbed(frames)) = DropsOf(frames)
<1> DEFINE marked == Disturbed(frames)
<1>1. /\ Len(frames) \in Nat /\ DOMAIN frames = 1..Len(frames)
      /\ \A i \in DOMAIN frames : IsFrame(frames[i]) /\ (i > 1 => frames[i].drop = {})
  BY StackParts
<1>2. /\ DOMAIN marked = DOMAIN frames
      /\ \A i \in DOMAIN frames : IsFrame(marked[i]) /\ marked[i].drop = frames[i].drop
  BY <1>1, FrameChanged DEF Disturbed
<1>3. marked \in [1..Len(frames) -> {marked[i] : i \in DOMAIN frames}]
  BY <1>1, <1>2 DEF Disturbed
<1>4. marked \in Seq({marked[i] : i \in DOMAIN frames})
  BY <1>1, <1>3, SeqDef
<1>5. IsStack(marked)
  BY <1>1, <1>2, <1>4, StackIf
<1> QED
  BY <1>2, <1>5 DEF DropsOf

\* A new frame comes on top; below others it has nothing to delete.
LEMMA BeginKeeps ==
    ASSUME NEW below, IsStack(below), NEW frame, IsFrame(frame),
           below # <<>> => frame.drop = {}, Begin(below, frame)
    PROVE  IsStack(stack') /\ DropsOf(stack') = DropsOf(below) \cup frame.drop
<1> DEFINE marked == Disturbed(below)
<1>1. /\ IsStack(marked) /\ DropsOf(marked) = DropsOf(below)
      /\ marked \in Seq(ToSet(marked)) /\ stack' = Append(marked, frame)
  BY DisturbedKeeps DEF Begin, IsStack
<1>2. /\ Len(marked) \in Nat /\ DOMAIN marked = 1..Len(marked)
      /\ \A i \in DOMAIN marked : IsFrame(marked[i]) /\ (i > 1 => marked[i].drop = {})
  BY <1>1, StackParts
<1>3. /\ stack' \in Seq(ToSet(marked) \cup {frame}) /\ DOMAIN stack' = 1..Len(marked) + 1
      /\ \A i \in DOMAIN marked : stack'[i] = marked[i]
      /\ stack'[Len(marked) + 1] = frame
  BY <1>1, Appended
<1>4. below = <<>> => Len(marked) = 0
  BY <1>2, EmptySeq DEF Disturbed
<1>5. ASSUME NEW i \in DOMAIN stack'
      PROVE  /\ IsFrame(stack'[i]) /\ (i > 1 => stack'[i].drop = {})
             /\ stack'[i].drop \subseteq DropsOf(marked) \cup frame.drop
  <2>1. i \in DOMAIN marked \/ i = Len(marked) + 1
    BY <1>2, <1>3
  <2> QED
    BY <1>2, <1>3, <1>4, <2>1 DEF DropsOf
<1>6. IsStack(stack')
  BY <1>3, <1>5, StackIf
<1>7. DropsOf(marked) \cup frame.drop \subseteq DropsOf(stack')
  <2>1. \A i \in DOMAIN marked : i \in DOMAIN stack'
    BY <1>2, <1>3
  <2>2. Len(marked) + 1 \in DOMAIN stack'
    BY <1>2, <1>3
  <2> QED
    BY <1>3, <2>1, <2>2 DEF DropsOf
<1>8. DropsOf(stack') \subseteq DropsOf(marked) \cup frame.drop
  <2>1. PICK some : some = DropsOf(marked) \cup frame.drop
    OBVIOUS
  <2>2. \A i \in DOMAIN stack' : stack'[i].drop \subseteq some
    BY <1>5, <2>1
  <2> QED
    BY <2>1, <2>2 DEF DropsOf
<1> QED
  BY <1>1, <1>6, <1>7, <1>8

\* The statement that is through is taken off the stack, with what it had to delete.
LEMMA FrontKeeps ==
    ASSUME IsStack(stack), stack # <<>>
    PROVE  /\ IsStack(Front(stack)) /\ IsFrame(Top)
           /\ DropsOf(Front(stack)) = DropsOf(stack) \ Top.drop
<1> DEFINE rest == Front(stack)
<1>1. /\ rest \in Seq(ToSet(stack)) /\ DOMAIN rest = 1..Len(stack) - 1
      /\ \A i \in DOMAIN rest : rest[i] = stack[i]
      /\ Top = stack[Len(stack)] /\ Len(stack) \in Nat \ {0} /\ DOMAIN stack = 1..Len(stack)
  BY FrontLeaves DEF IsStack, Top
<1>2. \A i \in DOMAIN stack : IsFrame(stack[i]) /\ (i > 1 => stack[i].drop = {})
  BY StackParts
<1>3. \A i \in DOMAIN rest : i \in DOMAIN stack
  BY <1>1
<1>4. IsStack(rest)
  BY <1>1, <1>2, <1>3, StackIf
<1>5. CASE Len(stack) = 1
  <2>1. DropsOf(rest) = {} /\ DropsOf(stack) = Top.drop
    BY <1>1, <1>5 DEF DropsOf
  <2> QED
    BY <1>1, <1>2, <1>4, <2>1
<1>6. CASE Len(stack) > 1
  <2>1. Top.drop = {} /\ IsFrame(Top)
    BY <1>1, <1>2, <1>6
  <2>2. \A i \in DOMAIN stack : i \in DOMAIN rest \/ stack[i].drop = {}
    BY <1>1, <2>1
  <2> QED
    BY <1>1, <1>3, <1>4, <2>1, <2>2 DEF DropsOf
<1> QED
  BY <1>1, <1>5, <1>6

\* The frame on top may be replaced by one that deletes the same.
LEMMA TopChanged ==
    ASSUME IsStack(stack), stack # <<>>, NEW f, IsFrame(f), f.drop = Top.drop
    PROVE  IsStack(WithTop(f)) /\ DropsOf(WithTop(f)) = DropsOf(stack)
<1> DEFINE n == Len(stack)
<1>1. /\ n \in Nat \ {0} /\ DOMAIN stack = 1..n /\ stack \in Seq(ToSet(stack) \cup {f})
      /\ \A i \in DOMAIN stack : IsFrame(stack[i]) /\ (i > 1 => stack[i].drop = {})
  BY StackParts, SeqMonotonic DEF IsStack
<1>2. /\ WithTop(f) \in Seq(ToSet(stack) \cup {f}) /\ Len(WithTop(f)) = n
      /\ \A i \in DOMAIN stack : WithTop(f)[i] = IF i = n THEN f ELSE stack[i]
  BY <1>1, ExceptSeq DEF WithTop
<1>3. DOMAIN WithTop(f) = DOMAIN stack
  BY <1>1, <1>2, LenProperties
<1>4. \A i \in DOMAIN stack : IsFrame(WithTop(f)[i]) /\ WithTop(f)[i].drop = stack[i].drop
  BY <1>1, <1>2 DEF Top, Last
<1>5. IsStack(WithTop(f))
  BY <1>1, <1>2, <1>3, <1>4, StackIf
<1> QED
  BY <1>3, <1>4, <1>5 DEF DropsOf

-----------------------------------------------------------------------------
(***************************************************************************)
(* The lists of scopes and of domains.                                     *)
(***************************************************************************)

\* One of the lists of all owners is replaced by one of objects of its own, or new ones.
Replaced(lists, owners, s, new) ==
    /\ new \in [owners -> Seq(Nat)] /\ \A q \in owners \ {s} : new[q] = lists[q]
    /\ ToSet(new[s]) \cap Objects(lists) \subseteq ToSet(lists[s])
    /\ \A i, j \in DOMAIN new[s] : new[s][i] = new[s][j] => i = j

\* Then all lists still own what they have, and all but what the old list had.
LEMMA ListReplaced ==
    ASSUME NEW O, NEW lists \in [O -> Seq(Nat)], Own(lists), NEW s \in O,
           NEW new, Replaced(lists, O, s, new)
    PROVE  /\ Own(new)
           /\ Objects(new) = (Objects(lists) \ ToSet(lists[s])) \cup ToSet(new[s])
<1>1. DOMAIN new = O /\ DOMAIN lists = O /\ \A q \in O \ {s} : new[q] = lists[q]
  BY DEF Replaced
<1>2. ASSUME NEW q \in O \ {s}
      PROVE  ToSet(lists[q]) \cap (ToSet(lists[s]) \cup ToSet(new[s])) = {}
  <2>1. ToSet(lists[q]) \cap ToSet(lists[s]) = {}
    BY <1>1 DEF Own, ToSet
  <2>2. ToSet(lists[q]) \subseteq Objects(lists)
    BY <1>1 DEF Objects
  <2> QED
    BY <2>1, <2>2 DEF Replaced
<1>3. Own(new)
  <2>1. ASSUME NEW p \in O, NEW q \in O, NEW i \in DOMAIN new[p], NEW j \in DOMAIN new[q],
               new[p][i] = new[q][j]
        PROVE  p = q /\ i = j
    <3>1. CASE p = s /\ q = s
      BY <1>1, <2>1, <3>1 DEF Replaced
    <3>2. CASE p # s /\ q # s
      BY <1>1, <2>1, <3>2 DEF Own
    <3>3. CASE p = s /\ q # s
      <4>1. new[p][i] \in ToSet(new[s]) /\ new[q][j] \in ToSet(lists[q])
        BY <1>1, <3>3 DEF ToSet
      <4> QED
        BY <1>2, <2>1, <3>3, <4>1
    <3>4. CASE p # s /\ q = s
      <4>1. new[q][j] \in ToSet(new[s]) /\ new[p][i] \in ToSet(lists[p])
        BY <1>1, <3>4 DEF ToSet
      <4> QED
        BY <1>2, <2>1, <3>4, <4>1
    <3> QED
      BY <3>1, <3>2, <3>3, <3>4
  <2> QED
    BY <1>1, <2>1 DEF Own
<1>4. Objects(new) = (Objects(lists) \ ToSet(lists[s])) \cup ToSet(new[s])
  <2>1. Objects(new) = (UNION {ToSet(lists[q]) : q \in O \ {s}}) \cup ToSet(new[s])
    BY <1>1 DEF Objects
  <2>2. Objects(lists) = (UNION {ToSet(lists[q]) : q \in O \ {s}}) \cup ToSet(lists[s])
    BY <1>1 DEF Objects
  <2>3. (UNION {ToSet(lists[q]) : q \in O \ {s}}) \cap ToSet(lists[s]) = {}
    BY <1>2
  <2> QED
    BY <2>1, <2>2, <2>3
<1> QED
  BY <1>1, <1>3, <1>4

Extended(lists, s, x, new) == new = [lists EXCEPT ![s] = Append(@, x)]
ReplacedAll(lists, s, x, new) == new = [lists EXCEPT ![s] = <<x>>]
Shortened(lists, s, new) == new = [lists EXCEPT ![s] = Front(@)]

\* A new object comes at the end of a list.
LEMMA ListExtended ==
    ASSUME NEW O, NEW lists \in [O -> Seq(Nat)], Own(lists), NEW s \in O,
           NEW x \in Nat, x \notin Objects(lists),
           NEW new, Extended(lists, s, x, new)
    PROVE  new \in [O -> Seq(Nat)] /\ Own(new) /\ Objects(new) = Objects(lists) \cup {x}
<1> DEFINE longer == Append(lists[s], x)
<1>1. /\ lists[s] \in Seq(Nat) /\ Len(lists[s]) \in Nat /\ DOMAIN lists[s] = 1..Len(lists[s])
      /\ longer \in Seq(Nat) /\ DOMAIN longer = 1..Len(lists[s]) + 1
      /\ \A i \in DOMAIN lists[s] : longer[i] = lists[s][i]
      /\ longer[Len(lists[s]) + 1] = x
  <2>1. Nat \cup {x} = Nat
    OBVIOUS
  <2> QED
    BY <2>1, Appended
<1>2. DOMAIN lists = O /\ x \notin ToSet(lists[s]) /\ ToSet(lists[s]) \subseteq Objects(lists)
  BY DEF Objects
<1>3. ToSet(longer) = ToSet(lists[s]) \cup {x}
  <2>1. \A i \in DOMAIN longer : longer[i] \in ToSet(lists[s]) \cup {x}
    <3>1. \A i \in DOMAIN longer : i \in DOMAIN lists[s] \/ i = Len(lists[s]) + 1
      BY <1>1
    <3> QED
      BY <1>1, <3>1 DEF ToSet
  <2>2. \A i \in DOMAIN lists[s] : lists[s][i] \in ToSet(longer)
    <3>1. \A i \in DOMAIN lists[s] : i \in DOMAIN longer
      BY <1>1
    <3> QED
      BY <1>1, <3>1 DEF ToSet
  <2>3. x \in ToSet(longer)
    <3>1. Len(lists[s]) + 1 \in DOMAIN longer
      BY <1>1
    <3> QED
      BY <1>1, <3>1 DEF ToSet
  <2> QED
    BY <2>1, <2>2, <2>3 DEF ToSet
<1>4. ASSUME NEW i \in DOMAIN longer, NEW j \in DOMAIN longer, longer[i] = longer[j]
      PROVE  i = j
  <2>1. /\ i \in DOMAIN lists[s] \/ i = Len(lists[s]) + 1
        /\ j \in DOMAIN lists[s] \/ j = Len(lists[s]) + 1
    BY <1>1
  <2>2. CASE i \in DOMAIN lists[s] /\ j \in DOMAIN lists[s]
    BY <1>1, <1>2, <1>4, <2>2 DEF Own
  <2> QED
    BY <1>1, <1>2, <1>4, <2>1, <2>2 DEF ToSet
<1>5. /\ new \in [O -> Seq(Nat)] /\ new[s] = longer
      /\ \A q \in O \ {s} : new[q] = lists[q]
  BY <1>1 DEF Extended
<1>6. ToSet(new[s]) \cap Objects(lists) \subseteq ToSet(lists[s])
  BY <1>3, <1>5
<1>7. \A i, j \in DOMAIN new[s] : new[s][i] = new[s][j] => i = j
  BY <1>4, <1>5
<1>8. Replaced(lists, O, s, new)
  BY <1>5, <1>6, <1>7 DEF Replaced
<1>9. Own(new) /\ Objects(new) = (Objects(lists) \ ToSet(lists[s])) \cup ToSet(new[s])
  BY <1>8, ListReplaced
<1> QED
  BY <1>2, <1>3, <1>5, <1>9

\* A new object takes the place of all that a list had.
LEMMA ListSet ==
    ASSUME NEW O, NEW lists \in [O -> Seq(Nat)], Own(lists), NEW s \in O,
           NEW x \in Nat, x \notin Objects(lists),
           NEW new, ReplacedAll(lists, s, x, new)
    PROVE  /\ new \in [O -> Seq(Nat)] /\ Own(new)
           /\ Objects(new) = (Objects(lists) \ ToSet(lists[s])) \cup {x}
<1>1. <<x>> \in Seq(Nat) /\ ToSet(<<x>>) = {x} /\ \A i, j \in DOMAIN <<x>> : i = j
  BY DEF ToSet
<1>2. /\ new \in [O -> Seq(Nat)] /\ new[s] = <<x>>
      /\ \A q \in O \ {s} : new[q] = lists[q]
  BY <1>1 DEF ReplacedAll
<1>3. ToSet(new[s]) \cap Objects(lists) \subseteq ToSet(lists[s])
  BY <1>1, <1>2
<1>4. \A i, j \in DOMAIN new[s] : new[s][i] = new[s][j] => i = j
  BY <1>1, <1>2
<1>5. Replaced(lists, O, s, new)
  BY <1>2, <1>3, <1>4 DEF Replaced
<1>6. Own(new) /\ Objects(new) = (Objects(lists) \ ToSet(lists[s])) \cup ToSet(new[s])
  BY <1>5, ListReplaced
<1> QED
  BY <1>1, <1>2, <1>6

\* The last object of a list is taken out, or all of them.
LEMMA ListShortened ==
    ASSUME NEW O, NEW lists \in [O -> Seq(Nat)], Own(lists), NEW s \in O, lists[s] # <<>>,
           NEW new, Shortened(lists, s, new)
    PROVE  /\ new \in [O -> Seq(Nat)] /\ Own(new)
           /\ Objects(new) = Objects(lists) \ {Last(lists[s])}
           /\ Last(lists[s]) \in Objects(lists)
<1> DEFINE list == lists[s]
           rest == Front(list)
<1>1. /\ rest \in Seq(Nat) /\ DOMAIN rest = 1..Len(list) - 1
      /\ Len(list) \in Nat \ {0} /\ DOMAIN list = 1..Len(list)
      /\ \A i \in DOMAIN rest : rest[i] = list[i]
      /\ Last(list) = list[Len(list)]
  BY FrontLeaves
<1>2. \A i, j \in DOMAIN list : list[i] = list[j] => i = j
  BY DEF Own
<1>3. \A i \in DOMAIN list : i \in DOMAIN rest <=> i # Len(list)
  BY <1>1
<1>4. \A i \in DOMAIN rest : i \in DOMAIN list
  BY <1>1
<1>5. Len(list) \in DOMAIN list
  BY <1>1
<1>6. ToSet(rest) = ToSet(list) \ {Last(list)} /\ Last(list) \in ToSet(list)
  <2>1. Last(list) \in ToSet(list)
    BY <1>1, <1>5 DEF ToSet
  <2>2. ASSUME NEW i \in DOMAIN rest
        PROVE  rest[i] \in ToSet(list) /\ rest[i] # Last(list)
    BY <1>1, <1>2, <1>3, <1>4, <1>5 DEF ToSet
  <2>3. ASSUME NEW i \in DOMAIN list, list[i] # Last(list)
        PROVE  list[i] \in ToSet(rest)
    <3>1. i \in DOMAIN rest
      BY <1>1, <1>3, <2>3
    <3> QED
      BY <1>1, <3>1 DEF ToSet
  <2> QED
    BY <2>1, <2>2, <2>3 DEF ToSet
<1>8. \A i, j \in DOMAIN rest : rest[i] = rest[j] => i = j
  BY <1>1, <1>2, <1>4
<1>9. /\ new \in [O -> Seq(Nat)] /\ Own(new)
      /\ Objects(new) = (Objects(lists) \ ToSet(list)) \cup ToSet(rest)
  <2>1. /\ new \in [O -> Seq(Nat)] /\ new[s] = rest
        /\ \A q \in O \ {s} : new[q] = lists[q]
    BY <1>1 DEF Shortened
  <2>2. ToSet(new[s]) \cap Objects(lists) \subseteq ToSet(lists[s])
    BY <1>6, <2>1
  <2>3. \A i, j \in DOMAIN new[s] : new[s][i] = new[s][j] => i = j
    BY <1>8, <2>1
  <2>4. Replaced(lists, O, s, new)
    BY <2>1, <2>2, <2>3 DEF Replaced
  <2>5. Own(new) /\ Objects(new) = (Objects(lists) \ ToSet(lists[s])) \cup ToSet(new[s])
    BY <2>4, ListReplaced
  <2> QED
    BY <2>1, <2>5
<1>10. ToSet(list) \subseteq Objects(lists)
  BY DEF Objects
<1> QED
  BY <1>6, <1>9, <1>10

\* The identifiers of a list of prefixes follow the list.
LEMMA IdsFollow ==
    ASSUME NEW s \in Seq(DomainPrefix)
    PROVE  /\ Ids(s) \in Seq(Nat)
           /\ \A r \in DomainPrefix : Ids(Append(s, r)) = Append(Ids(s), r.id)
           /\ s # <<>> => /\ Ids(s) # <<>> /\ Last(Ids(s)) = Last(s).id
                          /\ Ids(Front(s)) = Front(Ids(s))
<1>1. Len(s) \in Nat /\ DOMAIN s = 1..Len(s) /\ \A i \in 1..Len(s) : s[i] \in DomainPrefix
  BY LenProperties, ElementOfSeq
<1>2. Ids(s) = [i \in 1..Len(s) |-> s[i].id] /\ Ids(s) \in [1..Len(s) -> Nat]
  BY <1>1 DEF Ids, DomainPrefix
<1>3. Ids(s) \in Seq(Nat) /\ Len(Ids(s)) = Len(s)
  <2>1. Ids(s) \in Seq(Nat)
    BY <1>1, <1>2, SeqDef
  <2>2. Len(Ids(s)) \in Nat /\ DOMAIN Ids(s) = 1..Len(Ids(s))
    BY <2>1, LenProperties
  <2> QED
    BY <1>1, <1>2, <2>1, <2>2
<1>4. ASSUME NEW r \in DomainPrefix
      PROVE  Ids(Append(s, r)) = Append(Ids(s), r.id)
  <2>1. /\ Append(s, r) \in Seq(DomainPrefix) /\ DOMAIN Append(s, r) = 1..Len(s) + 1
        /\ \A i \in 1..Len(s) : Append(s, r)[i] = s[i]
        /\ Append(s, r)[Len(s) + 1] = r
    <3>1. DomainPrefix \cup {r} = DomainPrefix
      OBVIOUS
    <3> QED
      BY <1>1, <3>1, Appended
  <2>2. r.id \in Nat /\ Nat \cup {r.id} = Nat
    BY DEF DomainPrefix
  <2>3. /\ Append(Ids(s), r.id) \in Seq(Nat) /\ DOMAIN Append(Ids(s), r.id) = 1..Len(s) + 1
        /\ \A i \in 1..Len(s) : Append(Ids(s), r.id)[i] = Ids(s)[i]
        /\ Append(Ids(s), r.id)[Len(s) + 1] = r.id
    BY <1>1, <1>2, <1>3, <2>2, Appended
  <2>4. Ids(Append(s, r)) = [i \in 1..Len(s) + 1 |-> Append(s, r)[i].id]
    BY <2>1 DEF Ids
  <2>5. Append(Ids(s), r.id) = [i \in 1..Len(s) + 1 |-> Append(Ids(s), r.id)[i]]
    BY <2>3, LenProperties
  <2>6. \A i \in 1..Len(s) + 1 : Append(s, r)[i].id = Append(Ids(s), r.id)[i]
    <3>1. \A i \in 1..Len(s) + 1 : i \in 1..Len(s) \/ i = Len(s) + 1
      BY <1>1
    <3> QED
      BY <1>2, <2>1, <2>3, <3>1
  <2> QED
    BY <2>4, <2>5, <2>6
<1>5. ASSUME s # <<>>
      PROVE  /\ Ids(s) # <<>> /\ Last(Ids(s)) = Last(s).id
             /\ Ids(Front(s)) = Front(Ids(s))
  <2>1. Len(s) > 0 /\ Ids(s) # <<>>
    BY <1>1, <1>3, <1>5, EmptySeq
  <2>2. /\ DOMAIN Front(s) = 1..Len(s) - 1 /\ \A i \in 1..Len(s) - 1 : Front(s)[i] = s[i]
    BY <1>5, FrontLeaves
  <2>3. /\ Front(Ids(s)) \in Seq(Nat) /\ DOMAIN Front(Ids(s)) = 1..Len(s) - 1
        /\ \A i \in 1..Len(s) - 1 : Front(Ids(s))[i] = Ids(s)[i]
    BY <1>3, <2>1, FrontLeaves
  <2>4. Front(Ids(s)) = [i \in 1..Len(s) - 1 |-> Front(Ids(s))[i]]
    BY <2>3, LenProperties
  <2>5. Ids(Front(s)) = [i \in 1..Len(s) - 1 |-> Front(s)[i].id]
    BY <2>2 DEF Ids
  <2>6. \A i \in 1..Len(s) - 1 : Front(s)[i].id = Front(Ids(s))[i]
    <3>1. \A i \in 1..Len(s) - 1 : i \in 1..Len(s)
      BY <1>1
    <3> QED
      BY <1>2, <2>2, <2>3, <3>1
  <2>7. Last(Ids(s)) = Last(s).id
    BY <1>1, <1>2, <1>3, <2>1 DEF Last
  <2> QED
    BY <2>1, <2>4, <2>5, <2>6, <2>7
<1> QED
  BY <1>3, <1>4, <1>5

\* The lists of the domains, as lists of objects.
LEMMA DomainIdsTyped ==
    ASSUME Typed
    PROVE  DomainIds \in [Domains -> Seq(Nat)]
BY IdsFollow DEF DomainIds, Typed

-----------------------------------------------------------------------------
(***************************************************************************)
(* The steps.                                                              *)
(***************************************************************************)

\* The next call's number is not in use; afterwards all that are used are greater.
LEMMA NumberIsFresh ==
    ASSUME IInv, NEW t, Calling(t)
    PROVE  /\ Number \in Nat /\ Number \notin live
           /\ calls' \in Nat /\ calls' < calls
           /\ live' \subseteq live \cup {Number} => FreshNumber'
<1>1. calls \in Nat /\ calls > 0 /\ calls' = calls - 1
  BY DEF IInv, Typed, Calling
<1> QED
  BY <1>1 DEF Number, IInv, FreshNumber

\* A step that changes only the statements being delivered.
LEMMA StatementsKeep ==
    ASSUME IInv, calls' \in Nat, calls' <= calls, IsStack(stack'),
           UNCHANGED <<scopePrefixes, domainPrefixes, logData>>,
           \/ live' = live /\ DropsOf(stack') = DropsOf(stack)
           \/ \E d : live' = live \ d /\ DropsOf(stack') = DropsOf(stack) \ d
                     /\ d \subseteq DropsOf(stack)
    PROVE  IInv'
<1>1. Typed'
  BY DEF IInv, Typed
<1>2. /\ Objects(scopePrefixes)' = Objects(scopePrefixes) /\ Objects(DomainIds)' = Objects(DomainIds)
      /\ DataObjects' = DataObjects
      /\ Own(scopePrefixes)' /\ Own(DomainIds)' /\ DataOwn'
  BY DEF IInv, OwnedOnce, DomainIds, DataObjects, DataOwn
<1>3. OwnedOnce' /\ AllOwned'
  BY <1>2 DEF IInv, OwnedOnce, AllOwned, Apart
<1>4. FreshNumber'
  BY DEF IInv, Typed, FreshNumber
<1> QED
  BY <1>1, <1>3, <1>4 DEF IInv

\* A call from outside that reports: what the report deletes is all that is to be deleted.
LEMMA ReportedKeeps ==
    ASSUME IInv, NEW t, Outside(t), NEW drop \in SUBSET Nat, NEW more, Reported(t, drop, more)
    PROVE  /\ IsStack(stack') /\ DropsOf(stack') = drop /\ DropsOf(stack) = {}
           /\ Number \in Nat /\ Number \notin live
           /\ calls' \in Nat /\ calls' < calls
           /\ live' \subseteq live \cup {Number} => FreshNumber'
<1>1. Calling(t) /\ stack = <<>> /\ DropsOf(stack) = {}
  BY EmptyStack DEF Outside
<1>2. PICK f : f = ReportOf(Number, t, drop, more)
  OBVIOUS
<1>3. IsFrame(f) /\ f.drop = drop /\ Begin(<<>>, f)
  BY <1>2, NewFrames DEF Reported
<1>4. IsStack(stack') /\ DropsOf(stack') = drop
  BY <1>3, BeginKeeps, EmptyStack
<1> QED
  BY <1>1, <1>4, NumberIsFresh

\* Statements, and calls of Once: whatever starts has nothing to delete.
LEMMA BeginsStatement ==
    ASSUME IInv, NEW t, Calling(t), UNCHANGED <<scopePrefixes, domainPrefixes, logData, live>>,
           \/ stack' = Disturbed(stack)
           \/ \E f : IsFrame(f) /\ f.drop = {} /\ Begin(stack, f)
    PROVE  IInv'
<1>1. calls' \in Nat /\ calls' <= calls
  BY NumberIsFresh DEF IInv, Typed
<1>2. IsStack(stack)
  BY DEF IInv, Typed
<1>3. CASE stack' = Disturbed(stack)
  <2>1. IsStack(stack') /\ DropsOf(stack') = DropsOf(stack)
    BY <1>2, <1>3, DisturbedKeeps
  <2> QED
    BY <1>1, <2>1, StatementsKeep
<1>4. ASSUME NEW f, IsFrame(f), f.drop = {}, Begin(stack, f)
      PROVE  IInv'
  <2>1. IsStack(stack') /\ DropsOf(stack') = DropsOf(stack)
    BY <1>2, <1>4, BeginKeeps
  <2> QED
    BY <1>1, <2>1, StatementsKeep
<1> QED
  BY <1>3, <1>4

\* Entry starts a statement, if there are loggers.
LEMMA EntryKeeps ==
    ASSUME IInv, NEW d, NEW t, Entry(d, t)
    PROVE  IInv'
<1>1. Calling(t) /\ UNCHANGED <<scopePrefixes, domainPrefixes, logData, live>>
  BY DEF Entry, stores
<1>2. \/ stack' = Disturbed(stack)
      \/ Begin(stack, Statement(d, t))
  BY DEF Entry
<1>3. IsFrame(Statement(d, t)) /\ Statement(d, t).drop = {}
  BY NewFrames
<1> QED
  BY <1>1, <1>2, <1>3, BeginsStatement

\* Once starts a statement, or the report that its limit was reached.
LEMMA OnceKeeps ==
    ASSUME IInv, NEW c, NEW t, Once(c, t)
    PROVE  IInv'
<1>1. Calling(t) /\ UNCHANGED <<scopePrefixes, domainPrefixes, logData, live>>
  BY DEF Once
<1>2. PICK limit :
          \/ stack' = Disturbed(stack)
          \/ Begin(stack, [Statement(c.dom, t) EXCEPT !.once = limit])
          \/ Begin(stack, ReportOf(Number, t, {}, 0))
  BY DEF Once
<1>3. PICK f : f = Statement(c.dom, t)
  OBVIOUS
<1>4. IsFrame(f) /\ f.drop = {}
  BY <1>3, NewFrames
<1>5. IsFrame([f EXCEPT !.once = limit]) /\ [f EXCEPT !.once = limit].drop = {}
  BY <1>4, FrameChanged
<1>6. PICK r : r = ReportOf(Number, t, {}, 0)
  OBVIOUS
<1>7. IsFrame(r) /\ r.drop = {}
  BY <1>6, NewFrames
<1> QED
  BY <1>1, <1>2, <1>3, <1>5, <1>6, <1>7, BeginsStatement

\* The next logger gets the list.
LEMMA DeliverKeeps ==
    ASSUME IInv, Deliver
    PROVE  IInv'
<1>1. /\ stack # <<>> /\ stack' = WithTop([Top EXCEPT !.next = @ + 1])
      /\ UNCHANGED <<scopePrefixes, domainPrefixes, logData, live, calls>>
  BY DEF Deliver, stores
<1>2. IsStack(stack) /\ calls \in Nat
  BY DEF IInv, Typed
<1>3. IsFrame(Top)
  BY <1>1, <1>2, FrontKeeps
<1>4. PICK f : f = [Top EXCEPT !.next = @ + 1]
  OBVIOUS
<1>5. IsFrame(f) /\ f.drop = Top.drop
  <2>1. PICK top : top = Top
    OBVIOUS
  <2>2. f = [top EXCEPT !.next = top.next + 1]
    BY <1>4, <2>1
  <2> QED
    BY <1>3, <2>1, <2>2, FrameChanged
<1>6. IsStack(stack') /\ DropsOf(stack') = DropsOf(stack)
  BY <1>1, <1>2, <1>4, <1>5, TopChanged
<1> QED
  BY <1>1, <1>2, <1>6, StatementsKeep

\* A statement ends, and what it had to delete is deleted; a report may follow.
LEMMA ReturnKeeps ==
    ASSUME IInv, Return
    PROVE  IInv'
<1>1. /\ stack # <<>> /\ live' = live \ Top.drop
      /\ UNCHANGED <<scopePrefixes, domainPrefixes, logData, calls>>
  BY DEF Return
<1>2. PICK more :
          \/ Begin(Front(stack), Following(more))
          \/ stack' = Front(stack)
  BY DEF Return
<1>3. IsStack(stack) /\ calls \in Nat
  BY DEF IInv, Typed
<1>4. /\ IsStack(Front(stack)) /\ DropsOf(Front(stack)) = DropsOf(stack) \ Top.drop
      /\ Top.drop \subseteq DropsOf(stack)
  <2>1. Len(stack) \in DOMAIN stack
    BY <1>1, <1>3, StackParts
  <2> QED
    BY <1>1, <1>3, <2>1, FrontKeeps DEF DropsOf, Top, Last
<1>5. PICK f : f = Following(more)
  OBVIOUS
<1>6. IsFrame(f) /\ f.drop = {}
  BY <1>5, NewFrames
<1>7. IsStack(stack') /\ DropsOf(stack') = DropsOf(stack) \ Top.drop
  BY <1>2, <1>4, <1>5, <1>6, BeginKeeps
<1> QED
  BY <1>1, <1>3, <1>4, <1>7, StatementsKeep

\* A scope's prefix is added, or takes the place of the one that the report deletes.
LEMMA SetPrefixKeeps ==
    ASSUME IInv, NEW s \in Scopes, NEW t, SetPrefix(s, t)
    PROVE  IInv'
<1> DEFINE old == ToSet(scopePrefixes[s])
           drop == IF KeepsAll(s) THEN {} ELSE old
<1>1. /\ Outside(t) /\ Reported(t, drop, 0) /\ live' = live \cup {Number}
      /\ scopePrefixes' = [scopePrefixes EXCEPT ![s] = IF KeepsAll(s) THEN Append(@, Number)
                                                       ELSE <<Number>>]
      /\ UNCHANGED <<domainPrefixes, logData>>
  BY DEF SetPrefix
<1>2. /\ scopePrefixes \in [Scopes -> Seq(Nat)] /\ Own(scopePrefixes)
      /\ old \subseteq Objects(scopePrefixes) /\ Objects(scopePrefixes) \subseteq live
      /\ Apart(Objects(scopePrefixes), Objects(DomainIds), DataObjects, DropsOf(stack))
      /\ \A n \in live : n \in Nat
  BY DEF IInv, Typed, OwnedOnce, AllOwned, FreshNumber, Objects
<1>3. /\ IsStack(stack') /\ DropsOf(stack') = drop /\ DropsOf(stack) = {}
      /\ Number \in Nat /\ Number \notin live /\ calls' \in Nat /\ FreshNumber'
  <2>1. PICK d \in SUBSET Nat : d = drop
    BY <1>2
  <2>2. Reported(t, d, 0)
    BY <1>1, <2>1
  <2> QED
    BY <1>1, <2>1, <2>2, ReportedKeeps
<1>4. /\ scopePrefixes' \in [Scopes -> Seq(Nat)] /\ Own(scopePrefixes')
      /\ Objects(scopePrefixes') = (Objects(scopePrefixes) \ drop) \cup {Number}
  <2>1. Number \notin Objects(scopePrefixes)
    BY <1>2, <1>3
  <2>2. CASE KeepsAll(s)
    <3>1. Extended(scopePrefixes, s, Number, scopePrefixes')
      BY <1>1, <2>2 DEF Extended
    <3> QED
      BY <1>2, <1>3, <2>1, <2>2, <3>1, ListExtended
  <2>3. CASE ~KeepsAll(s)
    <3>1. ReplacedAll(scopePrefixes, s, Number, scopePrefixes')
      BY <1>1, <2>3 DEF ReplacedAll
    <3> QED
      BY <1>2, <1>3, <2>1, <2>3, <3>1, ListSet
  <2> QED
    BY <2>2, <2>3
<1>5. Objects(DomainIds)' = Objects(DomainIds) /\ DataObjects' = DataObjects
  BY <1>1 DEF DomainIds, DataObjects
<1>6. Typed'
  BY <1>1, <1>3, <1>4 DEF IInv, Typed
<1>7. OwnedOnce'
  <2>1. Own(DomainIds)' /\ DataOwn'
    BY <1>1 DEF IInv, OwnedOnce, DomainIds, DataOwn
  <2>2. Number \notin Objects(DomainIds) /\ Number \notin DataObjects
    BY <1>3 DEF IInv, AllOwned
  <2> QED
    BY <1>2, <1>3, <1>4, <1>5, <2>1, <2>2 DEF OwnedOnce, Apart
<1>8. AllOwned'
  BY <1>1, <1>2, <1>3, <1>4, <1>5 DEF IInv, AllOwned
<1> QED
  BY <1>3, <1>6, <1>7, <1>8 DEF IInv

\* A scope's last prefix is removed, and deleted with the report.
LEMMA RemovePrefixKeeps ==
    ASSUME IInv, NEW s \in Scopes, NEW t, RemovePrefix(s, t)
    PROVE  IInv'
<1>1. Outside(t) /\ UNCHANGED <<domainPrefixes, logData, live>>
  BY DEF RemovePrefix
<1>2. /\ scopePrefixes \in [Scopes -> Seq(Nat)] /\ Own(scopePrefixes)
      /\ Objects(scopePrefixes) \subseteq live
      /\ Apart(Objects(scopePrefixes), Objects(DomainIds), DataObjects, DropsOf(stack))
      /\ \A n \in live : n \in Nat
  BY DEF IInv, Typed, OwnedOnce, AllOwned, FreshNumber
<1>3. PICK drop \in SUBSET Nat :
          /\ Reported(t, drop, 0) /\ drop \subseteq Objects(scopePrefixes)
          /\ scopePrefixes' \in [Scopes -> Seq(Nat)] /\ Own(scopePrefixes')
          /\ Objects(scopePrefixes') = Objects(scopePrefixes) \ drop
  <2>1. CASE scopePrefixes[s] = <<>>
    <3>1. Reported(t, {}, 0) /\ scopePrefixes' = scopePrefixes
      BY <2>1 DEF RemovePrefix
    <3> QED
      BY <1>2, <3>1
  <2>2. CASE scopePrefixes[s] # <<>>
    <3>1. /\ Reported(t, {Last(scopePrefixes[s])}, 0)
          /\ Shortened(scopePrefixes, s, scopePrefixes')
      BY <2>2 DEF RemovePrefix, Shortened
    <3>2. /\ scopePrefixes' \in [Scopes -> Seq(Nat)] /\ Own(scopePrefixes')
          /\ Objects(scopePrefixes') = Objects(scopePrefixes) \ {Last(scopePrefixes[s])}
          /\ Last(scopePrefixes[s]) \in Objects(scopePrefixes)
      BY <1>2, <2>2, <3>1, ListShortened
    <3> QED
      BY <1>2, <3>1, <3>2
  <2> QED
    BY <2>1, <2>2
<1>4. /\ IsStack(stack') /\ DropsOf(stack') = drop /\ DropsOf(stack) = {}
      /\ calls' \in Nat /\ FreshNumber'
  BY <1>1, <1>3, ReportedKeeps
<1>5. Objects(DomainIds)' = Objects(DomainIds) /\ DataObjects' = DataObjects
  BY <1>1 DEF DomainIds, DataObjects
<1>6. Typed'
  BY <1>1, <1>3, <1>4 DEF IInv, Typed
<1>7. OwnedOnce'
  <2>1. Own(DomainIds)' /\ DataOwn'
    BY <1>1 DEF IInv, OwnedOnce, DomainIds, DataOwn
  <2> QED
    BY <1>2, <1>3, <1>4, <1>5, <2>1 DEF OwnedOnce, Apart
<1>8. AllOwned'
  BY <1>1, <1>3, <1>4, <1>5 DEF IInv, AllOwned
<1> QED
  BY <1>4, <1>6, <1>7, <1>8 DEF IInv

\* A domain's prefixes are only added to, or
LEMMA SetDomainPrefixKeeps ==
    ASSUME IInv, NEW d \in Domains, NEW exclude \in BOOLEAN, NEW t,
           SetDomainPrefix(d, exclude, t)
    PROVE  IInv'
<1> DEFINE prefix == [id |-> Number, exclude |-> exclude]
<1>1. /\ Outside(t) /\ Reported(t, {}, 0) /\ live' = live \cup {Number}
      /\ domainPrefixes' = [domainPrefixes EXCEPT ![d] = Append(@, prefix)]
      /\ UNCHANGED <<scopePrefixes, logData>>
  BY DEF SetDomainPrefix
<1>2. /\ DomainIds \in [Domains -> Seq(Nat)] /\ Own(DomainIds)
      /\ Objects(DomainIds) \subseteq live
      /\ Apart(Objects(scopePrefixes), Objects(DomainIds), DataObjects, DropsOf(stack))
  BY DomainIdsTyped DEF IInv, OwnedOnce, AllOwned
<1>3. /\ IsStack(stack') /\ DropsOf(stack') = {} /\ DropsOf(stack) = {}
      /\ Number \in Nat /\ Number \notin live /\ calls' \in Nat /\ FreshNumber'
  BY <1>1, ReportedKeeps
<1>4. domainPrefixes' \in [Domains -> Seq(DomainPrefix)]
  <2>1. domainPrefixes[d] \in Seq(DomainPrefix) /\ prefix \in DomainPrefix
    BY <1>3 DEF IInv, Typed, DomainPrefix
  <2>2. Append(domainPrefixes[d], prefix) \in Seq(DomainPrefix)
    BY <2>1, AppendProperties
  <2> QED
    BY <1>1, <2>2 DEF IInv, Typed
<1>5. Extended(DomainIds, d, Number, DomainIds')
  <2>1. /\ domainPrefixes \in [Domains -> Seq(DomainPrefix)] /\ prefix \in DomainPrefix
        /\ prefix.id = Number
    BY <1>3 DEF IInv, Typed, DomainPrefix
  <2>2. Ids(Append(domainPrefixes[d], prefix)) = Append(Ids(domainPrefixes[d]), Number)
    BY <2>1, IdsFollow
  <2> QED
    BY <1>1, <2>1, <2>2 DEF DomainIds, Extended
<1>6. Own(DomainIds') /\ Objects(DomainIds') = Objects(DomainIds) \cup {Number}
  BY <1>2, <1>3, <1>5, ListExtended
<1>7. Typed'
  BY <1>1, <1>3, <1>4 DEF IInv, Typed
<1>8. OwnedOnce'
  <2>1. Own(scopePrefixes') /\ DataOwn' /\ DataObjects' = DataObjects
    BY <1>1 DEF IInv, OwnedOnce, DataOwn, DataObjects
  <2>2. Number \notin Objects(scopePrefixes) /\ Number \notin DataObjects
    BY <1>3 DEF IInv, AllOwned
  <2> QED
    BY <1>1, <1>2, <1>3, <1>6, <2>1, <2>2 DEF OwnedOnce, Apart
<1>9. AllOwned'
  <2>1. DataObjects' = DataObjects
    BY <1>1 DEF DataObjects
  <2> QED
    BY <1>1, <1>3, <1>6, <2>1 DEF IInv, AllOwned
<1> QED
  BY <1>3, <1>7, <1>8, <1>9 DEF IInv

\* have their last one deleted.
LEMMA RemoveDomainPrefixKeeps ==
    ASSUME IInv, NEW d \in Domains, NEW t, RemoveDomainPrefix(d, t)
    PROVE  IInv'
<1>1. Outside(t) /\ Reported(t, {}, 0) /\ UNCHANGED <<scopePrefixes, logData>>
  BY DEF RemoveDomainPrefix
<1>2. /\ DomainIds \in [Domains -> Seq(Nat)] /\ Own(DomainIds)
      /\ Objects(DomainIds) \subseteq live
      /\ Apart(Objects(scopePrefixes), Objects(DomainIds), DataObjects, DropsOf(stack))
      /\ domainPrefixes \in [Domains -> Seq(DomainPrefix)]
  BY DomainIdsTyped DEF IInv, Typed, OwnedOnce, AllOwned
<1>3. PICK gone \in SUBSET live :
          /\ gone \subseteq Objects(DomainIds) /\ live' = live \ gone
          /\ domainPrefixes' \in [Domains -> Seq(DomainPrefix)]
          /\ Own(DomainIds') /\ Objects(DomainIds') = Objects(DomainIds) \ gone
  <2>1. CASE domainPrefixes[d] = <<>>
    <3>1. live' = live /\ domainPrefixes' = domainPrefixes
      BY <2>1 DEF RemoveDomainPrefix
    <3>2. Own(DomainIds') /\ Objects(DomainIds') = Objects(DomainIds)
      <4>1. DomainIds' = DomainIds
        BY <3>1 DEF DomainIds
      <4> QED
        BY <1>2, <4>1
    <3>3. /\ {} \subseteq Objects(DomainIds) /\ live' = live \ {}
          /\ Objects(DomainIds') = Objects(DomainIds) \ {}
      BY <3>1, <3>2
    <3>4. domainPrefixes' \in [Domains -> Seq(DomainPrefix)]
      BY <1>2, <3>1
    <3> QED
      BY <3>2, <3>3, <3>4
  <2>2. CASE domainPrefixes[d] # <<>>
    <3> DEFINE id == Last(domainPrefixes[d]).id
    <3>1. /\ domainPrefixes' = [domainPrefixes EXCEPT ![d] = Front(@)]
          /\ live' = live \ {id}
      BY <2>2 DEF RemoveDomainPrefix
    <3>2. /\ DomainIds[d] = Ids(domainPrefixes[d]) /\ DomainIds[d] # <<>>
          /\ Last(DomainIds[d]) = id
          /\ Ids(Front(domainPrefixes[d])) = Front(DomainIds[d])
      BY <1>2, <2>2, IdsFollow DEF DomainIds
    <3>3. domainPrefixes' \in [Domains -> Seq(DomainPrefix)]
      BY <1>2, <2>2, <3>1, FrontLeaves
    <3>4. Shortened(DomainIds, d, DomainIds')
      BY <1>2, <3>1, <3>2 DEF DomainIds, Shortened
    <3>5. /\ Own(DomainIds') /\ Objects(DomainIds') = Objects(DomainIds) \ {id}
          /\ id \in Objects(DomainIds)
      <4>1. /\ Own(DomainIds')
            /\ Objects(DomainIds') = Objects(DomainIds) \ {Last(DomainIds[d])}
            /\ Last(DomainIds[d]) \in Objects(DomainIds)
        <5>1. PICK lists \in [Domains -> Seq(Nat)] : lists = DomainIds
          BY <1>2
        <5>2. Own(lists) /\ lists[d] # <<>> /\ Shortened(lists, d, DomainIds')
          BY <1>2, <3>2, <3>4, <5>1
        <5>3. /\ Own(DomainIds')
              /\ Objects(DomainIds') = Objects(lists) \ {Last(lists[d])}
              /\ Last(lists[d]) \in Objects(lists)
          BY <5>2, ListShortened
        <5> QED
          BY <5>1, <5>3
      <4> QED
        BY <3>2, <4>1
    <3> QED
      BY <1>2, <3>1, <3>3, <3>5
  <2> QED
    BY <2>1, <2>2
<1>4. /\ IsStack(stack') /\ DropsOf(stack') = {} /\ DropsOf(stack) = {}
      /\ calls' \in Nat /\ FreshNumber'
  BY <1>1, <1>3, ReportedKeeps
<1>5. Typed'
  BY <1>1, <1>3, <1>4 DEF IInv, Typed
<1>6. Own(scopePrefixes') /\ DataOwn' /\ DataObjects' = DataObjects
  BY <1>1 DEF IInv, OwnedOnce, DataOwn, DataObjects
<1>7. OwnedOnce'
  BY <1>1, <1>2, <1>3, <1>4, <1>6 DEF OwnedOnce, Apart
<1>8. AllOwned'
  BY <1>1, <1>2, <1>3, <1>4, <1>6 DEF IInv, AllOwned, Apart
<1> QED
  BY <1>4, <1>5, <1>7, <1>8 DEF IInv

\* An object of the log data goes, with its key, and one that is new, or the same, comes.
LEMMA DataKeeps ==
    ASSUME IInv, NEW t, Outside(t), NEW more, Reported(t, {}, more),
           UNCHANGED <<scopePrefixes, domainPrefixes>>,
           logData' \in [DOMAIN logData' -> Nat], DataOwn',
           NEW gone, gone \subseteq DataObjects, NEW new, new \subseteq {Number} \cup gone,
           DataObjects' = (DataObjects \ gone) \cup new,
           live' = (live \ gone) \cup new
    PROVE  IInv'
<1>1. /\ Apart(Objects(scopePrefixes), Objects(DomainIds), DataObjects, DropsOf(stack))
      /\ live = Objects(scopePrefixes) \cup Objects(DomainIds) \cup DataObjects \cup DropsOf(stack)
  BY DEF IInv, OwnedOnce, AllOwned
<1>2. /\ IsStack(stack') /\ DropsOf(stack') = {} /\ DropsOf(stack) = {}
      /\ Number \notin live /\ calls' \in Nat
      /\ live' \subseteq live \cup {Number} => FreshNumber'
  <2>1. {} \in SUBSET Nat
    OBVIOUS
  <2> QED
    BY <2>1, ReportedKeeps
<1>3. FreshNumber'
  BY <1>1, <1>2
<1>4. Typed'
  BY <1>2 DEF IInv, Typed
<1>5. /\ Objects(scopePrefixes)' = Objects(scopePrefixes) /\ Own(scopePrefixes)'
      /\ Objects(DomainIds)' = Objects(DomainIds) /\ Own(DomainIds)'
  BY DEF IInv, OwnedOnce, DomainIds
<1>6. OwnedOnce'
  BY <1>1, <1>2, <1>5 DEF OwnedOnce, Apart
<1>7. AllOwned'
  BY <1>1, <1>2, <1>5 DEF AllOwned, Apart
<1> QED
  BY <1>3, <1>4, <1>6, <1>7 DEF IInv

\* What storing does to the objects of the log data.
LEMMA KeepData ==
    ASSUME IInv, NEW k, NEW data \in {Number} \cup Stored(k), Keep(k, data),
           Number \in Nat, Number \notin live
    PROVE  /\ logData' \in [DOMAIN logData' -> Nat] /\ DataOwn'
           /\ Stored(k) \subseteq DataObjects
           /\ DataObjects' = (DataObjects \ Stored(k)) \cup {data}
           /\ live' = (live \ Stored(k)) \cup {data}
<1>1. /\ logData \in [DOMAIN logData -> Nat] /\ DataOwn /\ DataObjects \subseteq live
  BY DEF IInv, Typed, OwnedOnce, AllOwned
<1>2. Stored(k) \subseteq DataObjects
  BY DEF Stored, DataObjects
<1>3. /\ data \in Nat /\ data \notin DataObjects \ Stored(k)
      /\ \A x \in DOMAIN logData \ {k} : logData[x] \in DataObjects \ Stored(k)
  <2>1. \A n \in DataObjects : n \in Nat
    BY <1>1 DEF DataObjects
  <2>2. \A x \in DOMAIN logData \ {k} : logData[x] \in DataObjects \ Stored(k)
    BY <1>1 DEF DataOwn, DataObjects, Stored
  <2> QED
    BY <1>1, <1>2, <2>1, <2>2
<1>4. /\ DOMAIN logData' = DOMAIN logData \cup {k} /\ logData'[k] = data
      /\ \A x \in DOMAIN logData \ {k} : logData'[x] = logData[x]
      /\ logData' = [x \in DOMAIN logData' |-> logData'[x]]
      /\ live' = (live \ Stored(k)) \cup {data}
  BY DEF Keep, With
<1>5. logData' \in [DOMAIN logData' -> Nat]
  BY <1>1, <1>3, <1>4
<1>6. DataOwn'
  BY <1>1, <1>3, <1>4 DEF DataOwn
<1>7. DataObjects' = (DataObjects \ Stored(k)) \cup {data}
  <2>1. \A n \in DataObjects \ Stored(k) : \E x \in DOMAIN logData \ {k} : logData[x] = n
    BY DEF DataObjects, Stored
  <2> QED
    BY <1>3, <1>4, <2>1 DEF DataObjects
<1> QED
  BY <1>2, <1>4, <1>5, <1>6, <1>7

\* Store keeps a new object, or the one that is stored already.
LEMMA StoreKeeps ==
    ASSUME IInv, NEW k, NEW data \in {Number} \cup Stored(k), NEW t, Store(k, data, t)
    PROVE  IInv'
<1>1. /\ Outside(t) /\ Reported(t, {}, 0) /\ Keep(k, data)
      /\ UNCHANGED <<scopePrefixes, domainPrefixes>>
  BY DEF Store
<1>2. Number \in Nat /\ Number \notin live
  BY <1>1, NumberIsFresh DEF Outside
<1>3. PICK gone, new : gone = Stored(k) /\ new = {data}
  OBVIOUS
<1>4. /\ logData' \in [DOMAIN logData' -> Nat] /\ DataOwn' /\ gone \subseteq DataObjects
      /\ DataObjects' = (DataObjects \ gone) \cup new /\ live' = (live \ gone) \cup new
      /\ new \subseteq {Number} \cup gone
  BY <1>1, <1>2, <1>3, KeepData
<1> QED
  BY <1>1, <1>4, DataKeeps

\* Delete removes the object of a key.
LEMMA DeleteKeeps ==
    ASSUME IInv, NEW k, NEW t, Delete(k, t)
    PROVE  IInv'
<1>1. /\ Outside(t) /\ Reported(t, {}, 0) /\ UNCHANGED <<scopePrefixes, domainPrefixes>>
      /\ logData' = [x \in DOMAIN logData \ {k} |-> logData[x]]
      /\ live' = live \ Stored(k)
  BY DEF Delete
<1>2. logData \in [DOMAIN logData -> Nat] /\ DataOwn
  BY DEF IInv, Typed, OwnedOnce
<1>3. logData' \in [DOMAIN logData' -> Nat] /\ DataOwn'
  BY <1>1, <1>2 DEF DataOwn
<1>4. Stored(k) \subseteq DataObjects /\ DataObjects' = DataObjects \ Stored(k)
  <2>1. \A x \in DOMAIN logData \ {k} : logData[x] \notin Stored(k)
    BY <1>2 DEF DataOwn, Stored
  <2> QED
    BY <1>1, <2>1 DEF Stored, DataObjects
<1>5. DataObjects' = (DataObjects \ Stored(k)) \cup {} /\ live' = (live \ Stored(k)) \cup {}
  BY <1>1, <1>4
<1>6. {} \subseteq {Number} \cup Stored(k)
  OBVIOUS
<1> QED
  BY <1>1, <1>3, <1>4, <1>5, <1>6, DataKeeps

\* Retrieve stores a new object if there is none.
LEMMA RetrieveKeeps ==
    ASSUME IInv, NEW k, NEW t, Retrieve(k, t)
    PROVE  IInv'
<1>1. Outside(t) /\ UNCHANGED <<scopePrefixes, domainPrefixes>>
  BY DEF Retrieve
<1>2. CASE Stored(k) = {}
  <2>1. Keep(k, Number) /\ Reported(t, {}, 1)
    BY <1>2 DEF Retrieve
  <2>2. Number \in Nat /\ Number \notin live /\ Number \in {Number} \cup Stored(k)
    BY <1>1, NumberIsFresh DEF Outside
  <2>3. PICK n \in {Number} \cup Stored(k) : n = Number
    BY <2>2
  <2>4. Keep(k, n)
    BY <2>1, <2>3
  <2> QED
    BY <1>1, <2>1, <2>2, <2>4, KeepData, DataKeeps
<1>3. CASE Stored(k) # {}
  <2>1. UNCHANGED <<logData, live>> /\ Reported(t, {}, 0)
    BY <1>3 DEF Retrieve
  <2>2. logData' \in [DOMAIN logData' -> Nat] /\ DataOwn' /\ DataObjects' = DataObjects
    BY <2>1 DEF IInv, Typed, OwnedOnce, DataOwn, DataObjects
  <2>3. /\ {} \subseteq DataObjects /\ {} \subseteq {Number} \cup {}
        /\ DataObjects' = (DataObjects \ {}) \cup {} /\ live' = (live \ {}) \cup {}
    BY <2>1, <2>2
  <2> QED
    BY <1>1, <2>1, <2>2, <2>3, DataKeeps
<1> QED
  BY <1>2, <1>3

\* Reset deletes all but the prefixes of the roots.
LEMMA ResetKeeps ==
    ASSUME IInv, NEW t, Reset(t)
    PROVE  IInv'
<1>1. /\ Calling(t) /\ stack = <<>> /\ stack' = stack
      /\ scopePrefixes' = [s \in Scopes |-> <<>>] /\ logData' = <<>>
      /\ domainPrefixes' = [d \in Domains |-> IF d \in Roots THEN domainPrefixes[d] ELSE <<>>]
      /\ live' = UNION {ToSet(Ids(domainPrefixes[d])) : d \in Roots}
  BY DEF Reset, Outside
<1>2. \A S : <<>> \in Seq(S) /\ DOMAIN <<>> = {}
  BY EmptySeq
<1>3. /\ calls' \in Nat /\ (live' \subseteq live \cup {Number} => FreshNumber')
  BY <1>1, NumberIsFresh
<1>4. Typed'
  <2>1. logData' \in [DOMAIN logData' -> Nat]
    BY <1>1, <1>2
  <2>2. IsStack(stack')
    BY <1>1, EmptyStack
  <2> QED
    BY <1>1, <1>2, <1>3, <2>1, <2>2 DEF IInv, Typed
<1>5. /\ Objects(scopePrefixes') = {} /\ Own(scopePrefixes')
      /\ DataObjects' = {} /\ DataOwn' /\ DropsOf(stack') = {}
  <2>1. /\ DOMAIN scopePrefixes' = Scopes
        /\ \A s \in Scopes : DOMAIN scopePrefixes'[s] = {}
    BY <1>1, <1>2
  <2>2. Objects(scopePrefixes') = {} /\ Own(scopePrefixes')
    BY <2>1 DEF Objects, Own, ToSet
  <2> QED
    BY <1>1, <1>2, <2>2, EmptyStack DEF DataObjects, DataOwn
<1>6. /\ DOMAIN DomainIds' = Domains /\ DOMAIN DomainIds = Domains
      /\ \A d \in Roots : d \in Domains /\ DomainIds'[d] = DomainIds[d]
      /\ \A d \in Roots : DomainIds[d] = Ids(domainPrefixes[d])
      /\ \A d \in Domains \ Roots : DOMAIN DomainIds'[d] = {}
  BY <1>1, <1>2 DEF DomainIds, Ids, Roots
<1>7. Own(DomainIds') /\ Objects(DomainIds') = live' /\ live' \subseteq Objects(DomainIds)
  <2>1. Own(DomainIds')
    <3>1. Own(DomainIds)
      BY DEF IInv, OwnedOnce
    <3> QED
      BY <1>6, <3>1 DEF Own
  <2>2. live' = UNION {ToSet(DomainIds[d]) : d \in Roots}
    BY <1>1, <1>6
  <2>3. \A d \in Domains \ Roots : ToSet(DomainIds'[d]) = {}
    BY <1>6 DEF ToSet
  <2> QED
    BY <1>6, <2>1, <2>2, <2>3 DEF Objects
<1>8. FreshNumber'
  BY <1>3, <1>7 DEF IInv, AllOwned
<1>9. OwnedOnce' /\ AllOwned'
  BY <1>5, <1>7 DEF OwnedOnce, AllOwned, Apart
<1> QED
  BY <1>4, <1>8, <1>9 DEF IInv

\* Nothing is owned at the start.
LEMMA InitIInv == Init => IInv
<1> SUFFICES ASSUME Init
             PROVE  IInv
  OBVIOUS
<1>1. \A S : <<>> \in Seq(S) /\ DOMAIN <<>> = {}
  BY EmptySeq
<1>2. Typed
  <2>1. calls \in Nat
    BY ConstantsAssumption DEF Init
  <2>2. logData \in [DOMAIN logData -> Nat] /\ IsStack(stack)
    BY <1>1, EmptyStack DEF Init
  <2> QED
    BY <1>1, <2>1, <2>2 DEF Init, Typed
<1>3. /\ DOMAIN scopePrefixes = Scopes /\ \A s \in Scopes : DOMAIN scopePrefixes[s] = {}
      /\ DOMAIN DomainIds = Domains /\ \A d \in Domains : DOMAIN DomainIds[d] = {}
  BY <1>1 DEF Init, DomainIds, Ids
<1>4. /\ Own(scopePrefixes) /\ Objects(scopePrefixes) = {}
      /\ Own(DomainIds) /\ Objects(DomainIds) = {}
  BY <1>3 DEF Own, Objects, ToSet
<1>5. DataOwn /\ DataObjects = {} /\ DropsOf(stack) = {} /\ live = {}
  BY <1>1, EmptyStack DEF Init, DataOwn, DataObjects
<1> QED
  BY <1>2, <1>4, <1>5 DEF IInv, OwnedOnce, AllOwned, Apart, FreshNumber

\* Every step keeps the invariant.
LEMMA NextIInv == IInv /\ [Next]_vars => IInv'
<1> SUFFICES ASSUME IInv, [Next]_vars
             PROVE  IInv'
  OBVIOUS
<1>1. CASE Deliver
  BY <1>1, DeliverKeeps
<1>2. CASE Return
  BY <1>2, ReturnKeeps
<1>3. ASSUME NEW t \in Threads, Reset(t)
      PROVE  IInv'
  BY <1>3, ResetKeeps
<1>4. ASSUME NEW t \in Threads, NEW d \in Domains, Entry(d, t)
      PROVE  IInv'
  BY <1>4, EntryKeeps
<1>5. ASSUME NEW t \in Threads, NEW s \in Scopes, SetPrefix(s, t) \/ RemovePrefix(s, t)
      PROVE  IInv'
  BY <1>5, SetPrefixKeeps, RemovePrefixKeeps
<1>6. ASSUME NEW t \in Threads, NEW d \in Domains, NEW exclude \in BOOLEAN,
             SetDomainPrefix(d, exclude, t)
      PROVE  IInv'
  BY <1>6, SetDomainPrefixKeeps
<1>7. ASSUME NEW t \in Threads, NEW d \in Domains, RemoveDomainPrefix(d, t)
      PROVE  IInv'
  BY <1>7, RemoveDomainPrefixKeeps
<1>8. ASSUME NEW t \in Threads, NEW c \in OnceCalls, Once(c, t)
      PROVE  IInv'
  BY <1>8, OnceKeeps
<1>9. ASSUME NEW t \in Threads, NEW k \in DataKeys,
             \/ \E data \in {Number} \cup Stored(k) : Store(k, data, t)
             \/ Delete(k, t) \/ Retrieve(k, t)
      PROVE  IInv'
  BY <1>9, StoreKeeps, DeleteKeeps, RetrieveKeeps
<1>10. CASE UNCHANGED vars
  <2>1. /\ calls \in Nat /\ IsStack(stack) /\ calls' = calls /\ stack' = stack
        /\ UNCHANGED <<scopePrefixes, domainPrefixes, logData, live>>
    BY <1>10 DEF vars, stores, IInv, Typed
  <2> QED
    BY <2>1, StatementsKeep
<1> QED
  BY <1>1, <1>2, <1>3, <1>4, <1>5, <1>6, <1>7, <1>8, <1>9, <1>10 DEF Next

\* What the Lox owns is what it refers to, in every reachable state.
THEOREM OwnershipExact == Spec => []NothingLeaked
<1>1. Spec => []IInv
  BY InitIInv, NextIInv, PTL DEF Spec
<1>2. IInv => NothingLeaked
  <2> SUFFICES ASSUME IInv
               PROVE  NothingLeaked
    OBVIOUS
  <2>1. Objects(scopePrefixes) = UNION {ToSet(scopePrefixes[s]) : s \in Scopes}
    BY DEF IInv, Typed, Objects
  <2>2. Objects(DomainIds) = UNION {ToSet(Ids(domainPrefixes[d])) : d \in Domains}
    BY DEF Objects, DomainIds
  <2>3. DropsOf(stack) = UNION {stack[i].drop : i \in DOMAIN stack}
    BY DEF DropsOf
  <2>4. /\ DataObjects = {logData[k] : k \in DOMAIN logData}
        /\ live = Objects(scopePrefixes) \cup Objects(DomainIds)
                     \cup DataObjects \cup DropsOf(stack)
    BY DEF IInv, AllOwned, DataObjects
  <2> QED
    BY <2>1, <2>2, <2>3, <2>4 DEF NothingLeaked
<1> QED
  BY <1>1, <1>2, PTL


-----------------------------------------------------------------------------
(***************************************************************************)
(* Once. The invariant is that of the counters: they agree with the number *)
(* of calls, if all calls that share one ask for the same quantity.        *)
(***************************************************************************)
Agreed(c) == \A e \in OnceCalls : Shared(e) = Shared(c) => e.quantity = c.quantity

\* What n calls make of a counter, and how many of them are executed.
CountAfter(n, quantity) == IF quantity >= 0 /\ n >= quantity THEN quantity ELSE n
ExecutedOf(n, quantity) ==
    IF quantity >= 0 THEN IF n < quantity THEN n ELSE quantity
    ELSE (n - quantity - 1) \div (-quantity)

CountersExact ==
    \A c \in OnceCalls : Agreed(c) =>
        /\ Value(asked, Shared(c)) \in Nat
        /\ Value(counters, Counter(c)) = CountAfter(Value(asked, Shared(c)), c.quantity)
        /\ Value(executed, Shared(c)) = ExecutedOf(Value(asked, Shared(c)), c.quantity)

\* Calls share a counter exactly if the manual says so.
LEMMA CounterShared ==
    ASSUME NEW c \in OnceCalls, NEW e \in OnceCalls
    PROVE  Counter(c) = Counter(e) <=> Shared(c) = Shared(e)
<1>1. /\ c.scope \in {"Global", "Filename"} /\ e.scope \in {"Global", "Filename"}
      /\ NoGroup \notin {c.line, e.line} /\ c.group # e.line /\ e.group # c.line
  BY OnceAssumption
<1>2. /\ \A f, g : <<"global">> # <<"file", f>>
      /\ \A f, g : <<"file", f>> = <<"file", g>> <=> f = g
  OBVIOUS
<1>3. /\ \A x \in {c, e} : Shared(x) =
            [scope |-> x.scope,
             file  |-> IF x.scope = "Filename" \/ x.group = NoGroup THEN x.file ELSE NoGroup,
             line  |-> IF x.scope = "Global" /\ x.group = NoGroup THEN x.line ELSE NoGroup,
             group |-> x.group]
  BY DEF Shared
<1>4. CASE c.group # NoGroup /\ e.group # NoGroup
  <2>1. /\ Counter(c) = <<Place(c.scope, c.file), c.group>>
        /\ Counter(e) = <<Place(e.scope, e.file), e.group>>
    BY <1>4 DEF Counter
  <2>2. Place(c.scope, c.file) = Place(e.scope, e.file) <=>
          c.scope = e.scope /\ (c.scope = "Filename" => c.file = e.file)
    BY <1>1, <1>2 DEF Place
  <2>3. Shared(c) = Shared(e) <=>
          c.scope = e.scope /\ (c.scope = "Filename" => c.file = e.file) /\ c.group = e.group
    BY <1>1, <1>4 DEF Shared
  <2> QED
    BY <2>1, <2>2, <2>3
<1>5. CASE c.group = NoGroup /\ e.group = NoGroup
  <2>1. \A x \in {c, e} : Counter(x) =
          <<<<"file", x.file>>, IF x.scope = "Global" THEN x.line ELSE NoGroup>>
    BY <1>1, <1>5 DEF Counter, Place
  <2>2. Shared(c) = Shared(e) <=>
          c.scope = e.scope /\ c.file = e.file /\ (c.scope = "Global" => c.line = e.line)
    BY <1>1, <1>5 DEF Shared
  <2> QED
    BY <1>1, <1>2, <2>1, <2>2
<1>6. CASE c.group # NoGroup <=> e.group = NoGroup
  <2>1. Shared(c) # Shared(e)
    BY <1>6 DEF Shared
  <2>2. \A x \in {c, e} : Counter(x)[2] =
          IF x.group # NoGroup THEN x.group ELSE IF x.scope = "Global" THEN x.line ELSE NoGroup
    BY DEF Counter
  <2> QED
    BY <1>1, <1>6, <2>1, <2>2
<1> QED
  BY <1>4, <1>5, <1>6

\* With changes one value.
LEMMA WithValue ==
    \A f, x, n, y : Value(With(f, x, n), y) = IF y = x THEN n ELSE Value(f, y)
BY DEF Value, With

\* Of each k calls, the first one is executed.
LEMMA EachNth ==
    ASSUME NEW k \in Nat \ {0}, NEW n \in Nat
    PROVE  (n + k) \div k = (n + k - 1) \div k + (IF n % k = 0 THEN 1 ELSE 0)
BY SMT

\* What one more call makes of a counter and of the number of executions.
LEMMA OneMore ==
    ASSUME NEW n \in Nat, NEW q \in Int, NEW count, count = CountAfter(n, q)
    PROVE  /\ CountAfter(n + 1, q) = IF q < 0 \/ count < q THEN count + 1 ELSE count
           /\ ExecutedOf(n + 1, q) = ExecutedOf(n, q) +
                IF q >= 0 THEN IF count < q THEN 1 ELSE 0
                ELSE IF count % (-q) = 0 THEN 1 ELSE 0
<1>1. CASE q >= 0
  BY <1>1 DEF CountAfter, ExecutedOf
<1>2. CASE q < 0
  <2>1. PICK k \in Nat \ {0} : k = -q
    BY <1>2
  <2>2. (n + k) \div k = (n + k - 1) \div k + (IF n % k = 0 THEN 1 ELSE 0)
    BY EachNth
  <2>3. n - q - 1 = n + k - 1 /\ n + 1 - q - 1 = n + k
    BY <2>1
  <2>4. ExecutedOf(n, q) = (n + k - 1) \div k /\ ExecutedOf(n + 1, q) = (n + k) \div k
    BY <1>2, <2>1, <2>3 DEF ExecutedOf
  <2>5. count = n /\ CountAfter(n + 1, q) = n + 1
    BY <1>2 DEF CountAfter
  <2> QED
    BY <1>2, <2>1, <2>2, <2>4, <2>5
<1> QED
  BY <1>1, <1>2

\* A call of Once advances its counter, and no other one.
LEMMA OnceCounts ==
    ASSUME CountersExact, NEW e \in OnceCalls, NEW t, Once(e, t)
    PROVE  CountersExact'
<1> DEFINE count   == Value(counters, Counter(e))
           advance == e.quantity < 0 \/ count < e.quantity
           execute == IF e.quantity >= 0 THEN count < e.quantity ELSE count % (-e.quantity) = 0
           n       == Value(asked, Shared(e))
           m       == Value(executed, Shared(e))
<1>1. /\ counters' = With(counters, Counter(e), IF advance THEN count + 1 ELSE count)
      /\ asked'    = With(asked, Shared(e), n + 1)
      /\ executed' = With(executed, Shared(e), m + IF execute THEN 1 ELSE 0)
  BY DEF Once
<1>2. ASSUME NEW c \in OnceCalls, Agreed(c)
      PROVE  /\ Value(asked', Shared(c)) \in Nat
             /\ Value(counters', Counter(c)) = CountAfter(Value(asked', Shared(c)), c.quantity)
             /\ Value(executed', Shared(c)) = ExecutedOf(Value(asked', Shared(c)), c.quantity)
  <2>1. Counter(c) = Counter(e) <=> Shared(c) = Shared(e)
    BY CounterShared
  <2>2. /\ Value(asked, Shared(c)) \in Nat
        /\ Value(counters, Counter(c)) = CountAfter(Value(asked, Shared(c)), c.quantity)
        /\ Value(executed, Shared(c)) = ExecutedOf(Value(asked, Shared(c)), c.quantity)
    BY <1>2 DEF CountersExact
  <2>3. CASE Shared(c) # Shared(e)
    <3>1. /\ Value(asked', Shared(c)) = Value(asked, Shared(c))
          /\ Value(counters', Counter(c)) = Value(counters, Counter(c))
          /\ Value(executed', Shared(c)) = Value(executed, Shared(c))
      BY <1>1, <2>1, <2>3, WithValue
    <3> QED
      BY <2>2, <3>1
  <2>4. CASE Shared(c) = Shared(e)
    <3>1. c.quantity = e.quantity /\ Counter(c) = Counter(e) /\ c.quantity \in Int
      BY <1>2, <2>1, <2>4, OnceAssumption DEF Agreed
    <3>2. /\ Value(asked', Shared(c)) = n + 1
          /\ Value(counters', Counter(c)) = IF advance THEN count + 1 ELSE count
          /\ Value(executed', Shared(c)) = m + IF execute THEN 1 ELSE 0
      BY <1>1, <2>4, <3>1, WithValue
    <3>3. /\ n \in Nat /\ count = CountAfter(n, e.quantity) /\ m = ExecutedOf(n, e.quantity)
      BY <2>2, <2>4, <3>1
    <3>4. /\ CountAfter(n + 1, e.quantity) = IF advance THEN count + 1 ELSE count
          /\ ExecutedOf(n + 1, e.quantity) = m + IF execute THEN 1 ELSE 0
      BY <3>1, <3>3, OneMore
    <3> QED
      BY <3>1, <3>2, <3>3, <3>4
  <2> QED
    BY <2>3, <2>4
<1> QED
  BY <1>2 DEF CountersExact, Agreed

\* At the start, and after Reset, nothing was asked for.
LEMMA NothingAsked ==
    ASSUME NEW f, f = <<>>, NEW c \in OnceCalls
    PROVE  /\ \A x : Value(f, x) = 0
           /\ CountAfter(0, c.quantity) = 0 /\ ExecutedOf(0, c.quantity) = 0
<1>1. \A x : Value(f, x) = 0
  BY EmptySeq DEF Value
<1>2. c.quantity \in Int
  BY OnceAssumption
<1>3. CountAfter(0, c.quantity) = 0
  BY <1>2 DEF CountAfter
<1>4. CASE c.quantity >= 0
  BY <1>1, <1>2, <1>3, <1>4 DEF ExecutedOf
<1>5. CASE c.quantity < 0
  <2>1. PICK k \in Nat \ {0} : k = -c.quantity
    BY <1>2, <1>5
  <2>2. ExecutedOf(0, c.quantity) = (k - 1) \div k
    BY <1>2, <1>5, <2>1 DEF ExecutedOf
  <2>3. (k - 1) \div k = 0
    BY SMT
  <2> QED
    BY <1>1, <1>3, <2>2, <2>3
<1> QED
  BY <1>2, <1>4, <1>5

\* The counters are exact at the start.
LEMMA InitCounters == Init => CountersExact
<1> SUFFICES ASSUME Init
             PROVE  CountersExact
  OBVIOUS
<1>1. counters = <<>> /\ asked = <<>> /\ executed = <<>>
  BY DEF Init
<1> QED
  BY <1>1, NothingAsked DEF CountersExact

\* Only Once and Reset change the counters.
LEMMA NextCounters == CountersExact /\ [Next]_vars => CountersExact'
<1> SUFFICES ASSUME CountersExact, [Next]_vars
             PROVE  CountersExact'
  OBVIOUS
<1>1. ASSUME UNCHANGED <<counters, asked, executed>>
      PROVE  CountersExact'
  BY <1>1 DEF CountersExact, Agreed
<1>2. CASE Deliver
  BY <1>1, <1>2 DEF Deliver, stores
<1>3. CASE Return
  BY <1>1, <1>3 DEF Return, history
<1>4. ASSUME NEW t \in Threads, Reset(t)
      PROVE  CountersExact'
  <2>1. counters' = <<>> /\ asked' = <<>> /\ executed' = <<>>
    BY <1>4 DEF Reset
  <2> QED
    BY <2>1, NothingAsked DEF CountersExact
<1>5. ASSUME NEW t \in Threads, NEW d \in Domains, Entry(d, t)
      PROVE  CountersExact'
  BY <1>1, <1>5 DEF Entry, stores, history
<1>6. ASSUME NEW t \in Threads, NEW s \in Scopes, SetPrefix(s, t) \/ RemovePrefix(s, t)
      PROVE  CountersExact'
  BY <1>1, <1>6 DEF SetPrefix, RemovePrefix, history
<1>7. ASSUME NEW t \in Threads, NEW d \in Domains,
             \/ \E exclude \in BOOLEAN : SetDomainPrefix(d, exclude, t)
             \/ RemoveDomainPrefix(d, t)
      PROVE  CountersExact'
  BY <1>1, <1>7 DEF SetDomainPrefix, RemoveDomainPrefix, history
<1>8. ASSUME NEW t \in Threads, NEW c \in OnceCalls, Once(c, t)
      PROVE  CountersExact'
  BY <1>8, OnceCounts
<1>9. ASSUME NEW t \in Threads, NEW k \in DataKeys,
             \/ \E data \in {Number} \cup Stored(k) : Store(k, data, t)
             \/ Delete(k, t) \/ Retrieve(k, t)
      PROVE  CountersExact'
  BY <1>1, <1>9 DEF Store, Delete, Retrieve, history
<1>10. CASE UNCHANGED vars
  BY <1>1, <1>10 DEF vars, stores, history
<1> QED
  BY <1>2, <1>3, <1>4, <1>5, <1>6, <1>7, <1>8, <1>9, <1>10 DEF Next

\* Calls of Once that count together are executed a given number of times, or each n-th time.
THEOREM OnceIsExact == Spec => []OnceExact
<1>1. Spec => []CountersExact
  BY InitCounters, NextCounters, PTL DEF Spec
<1>2. CountersExact => OnceExact
  <2> SUFFICES ASSUME CountersExact
               PROVE  OnceExact
    OBVIOUS
  <2>1. ASSUME NEW c \in OnceCalls, Agreed(c)
        PROVE  Value(executed, Shared(c)) = ExecutedOf(Value(asked, Shared(c)), c.quantity)
    BY <2>1 DEF CountersExact
  <2> QED
    BY <2>1 DEF OnceExact, Agreed, ExecutedOf
<1> QED
  BY <1>1, <1>2, PTL

-----------------------------------------------------------------------------
(***************************************************************************)
(* Sequences, turned round and cut.                                        *)
(***************************************************************************)

\* What Reverse gives.
LEMMA ReverseIs ==
    ASSUME NEW S, NEW s \in Seq(S)
    PROVE  /\ Reverse(s) \in Seq(S) /\ Len(Reverse(s)) = Len(s)
           /\ \A i \in 1..Len(s) : Reverse(s)[i] = s[Len(s) - i + 1]
<1>1. Len(s) \in Nat /\ \A i \in 1..Len(s) : s[i] \in S
  BY LenProperties, ElementOfSeq
<1>2. \A i \in 1..Len(s) : Len(s) - i + 1 \in 1..Len(s)
  BY <1>1
<1>3. Reverse(s) = [i \in 1..Len(s) |-> s[(Len(s) - i) + 1]]
  BY DEF Reverse
<1>4. Reverse(s) \in [1..Len(s) -> S]
  BY <1>1, <1>2, <1>3
<1>5. Reverse(s) \in Seq(S)
  BY <1>1, <1>4, SeqDef
<1>6. Len(Reverse(s)) \in Nat /\ DOMAIN Reverse(s) = 1..Len(Reverse(s))
  BY <1>5, LenProperties
<1>7. Len(Reverse(s)) = Len(s)
  BY <1>1, <1>4, <1>6
<1> QED
  BY <1>3, <1>5, <1>7

\* A sequence that is turned round twice is as it was.
LEMMA ReverseTwice ==
    ASSUME NEW S, NEW s \in Seq(S)
    PROVE  Reverse(Reverse(s)) = s
<1> DEFINE r == Reverse(s)
<1>1. Len(s) \in Nat /\ r \in Seq(S) /\ Len(r) = Len(s) /\ \A i \in 1..Len(s) : r[i] = s[Len(s) - i + 1]
  BY ReverseIs, LenProperties
<1> HIDE DEF r
<1>2. /\ Reverse(r) \in Seq(S) /\ Len(Reverse(r)) = Len(s)
      /\ \A i \in 1..Len(s) : Reverse(r)[i] = r[Len(s) - i + 1]
  BY <1>1, ReverseIs
<1>3. ASSUME NEW i \in 1..Len(s)
      PROVE  Reverse(r)[i] = s[i]
  <2>1. Len(s) - i + 1 \in 1..Len(s) /\ Len(s) - (Len(s) - i + 1) + 1 = i
    BY <1>1
  <2> QED
    BY <1>1, <1>2, <2>1
<1>4. Reverse(r) = s
  BY <1>1, <1>2, <1>3, SeqEqual
<1> QED
  BY <1>4 DEF r

\* Of two sequences, one after the other, the second one comes first then.
LEMMA ReverseOfConcat ==
    ASSUME NEW S, NEW s \in Seq(S), NEW t \in Seq(S)
    PROVE  Reverse(s \o t) = Reverse(t) \o Reverse(s)
<1>1. /\ Len(s) \in Nat /\ Len(t) \in Nat /\ s \o t \in Seq(S) /\ Len(s \o t) = Len(s) + Len(t)
      /\ \A i \in 1..Len(s) + Len(t) : (s \o t)[i] = IF i <= Len(s) THEN s[i] ELSE t[i - Len(s)]
  BY ConcatProperties, LenProperties
<1>2. /\ Reverse(s) \in Seq(S) /\ Len(Reverse(s)) = Len(s)
      /\ \A i \in 1..Len(s) : Reverse(s)[i] = s[Len(s) - i + 1]
  BY ReverseIs
<1>3. /\ Reverse(t) \in Seq(S) /\ Len(Reverse(t)) = Len(t)
      /\ \A i \in 1..Len(t) : Reverse(t)[i] = t[Len(t) - i + 1]
  BY ReverseIs
<1>4. PICK c, r, a, b : c = s \o t /\ r = Reverse(s \o t) /\ a = Reverse(s) /\ b = Reverse(t)
  OBVIOUS
<1>5. /\ r \in Seq(S) /\ Len(r) = Len(c)
      /\ \A i \in 1..Len(c) : r[i] = c[Len(c) - i + 1]
  BY <1>1, <1>4, ReverseIs
<1>6. /\ b \o a \in Seq(S) /\ Len(b \o a) = Len(t) + Len(s)
      /\ \A i \in 1..Len(t) + Len(s) : (b \o a)[i] = IF i <= Len(t) THEN b[i] ELSE a[i - Len(t)]
  <2>1. a \in Seq(S) /\ b \in Seq(S) /\ Len(a) = Len(s) /\ Len(b) = Len(t)
    BY <1>2, <1>3, <1>4
  <2>2. /\ b \o a \in Seq(S) /\ Len(b \o a) = Len(b) + Len(a)
        /\ \A i \in 1..Len(b) + Len(a) : (b \o a)[i] = IF i <= Len(b) THEN b[i] ELSE a[i - Len(b)]
    BY ONLY <2>1, ConcatProperties
  <2> QED
    BY ONLY <2>1, <2>2
<1>7. PICK n, m, d : n = Len(s) /\ m = Len(t) /\ d = b \o a
  OBVIOUS
<1>8. ASSUME NEW i \in 1..n + m
      PROVE  r[i] = d[i]
  <2>1. n \in Nat /\ m \in Nat /\ r[i] = c[n + m - i + 1] /\ n + m - i + 1 \in 1..n + m
    BY <1>1, <1>4, <1>5, <1>7
  <2>2. CASE i <= m
    <3>1. i \in 1..m /\ ~(n + m - i + 1 <= n) /\ n + m - i + 1 - n = m - i + 1
      BY <2>1, <2>2
    <3>2. c[n + m - i + 1] = t[m - i + 1]
      BY <1>1, <1>4, <1>7, <2>1, <3>1
    <3>3. b[i] = t[m - i + 1]
      BY <1>3, <1>4, <1>7, <3>1
    <3>4. d[i] = b[i]
      <4>1. i \in 1..Len(t) + Len(s) /\ i <= Len(t)
        BY <1>7, <2>1, <2>2
      <4> QED
        BY <1>6, <1>7, <4>1
    <3> QED
      BY <2>1, <3>2, <3>3, <3>4
  <2>3. CASE i > m
    <3>1. i - m \in 1..n /\ ~(i <= m) /\ n + m - i + 1 <= n /\ n - (i - m) + 1 = n + m - i + 1
          /\ i \in 1..m + n
      BY <2>1, <2>3
    <3>2. c[n + m - i + 1] = s[n + m - i + 1]
      BY <1>1, <1>4, <1>7, <2>1, <3>1
    <3>3. d[i] = a[i - m]
      BY <1>6, <1>7, <3>1
    <3>4. a[i - m] = s[n - (i - m) + 1]
      BY <1>2, <1>4, <1>7, <3>1
    <3> QED
      BY <2>1, <3>1, <3>2, <3>3, <3>4
  <2> QED
    BY <2>1, <2>2, <2>3
<1>9. Len(r) = n + m /\ Len(d) = n + m /\ d \in Seq(S) /\ r \in Seq(S)
  BY <1>1, <1>4, <1>5, <1>6, <1>7
<1>10. r = d
  BY <1>8, <1>9, SeqEqual
<1> QED
  BY <1>4, <1>7, <1>10

\* At most one element: nothing to turn round.
LEMMA ReverseOfOne ==
    ASSUME NEW S, NEW s \in Seq(S), Len(s) <= 1
    PROVE  Reverse(s) = s
<1>1. /\ Len(s) \in Nat /\ Reverse(s) \in Seq(S) /\ Len(Reverse(s)) = Len(s)
      /\ \A i \in 1..Len(s) : Reverse(s)[i] = s[Len(s) - i + 1]
  BY ReverseIs, LenProperties
<1>2. \A i \in 1..Len(s) : i = 1 /\ Len(s) - i + 1 = 1
  BY <1>1
<1>3. \A i \in 1..Len(s) : Reverse(s)[i] = s[i]
  BY <1>1, <1>2
<1> QED
  BY <1>1, <1>3, SeqEqual

\* What comes before, and after, a place in a sequence.
LEMMA CutAt ==
    ASSUME NEW S, NEW s \in Seq(S), NEW t \in Seq(S)
    PROVE  /\ SubSeq(s \o t, 1, Len(s)) = s
           /\ SubSeq(s \o t, Len(s) + 1, Len(s \o t)) = t
<1>1. /\ Len(s) \in Nat /\ Len(t) \in Nat /\ s \o t \in Seq(S) /\ Len(s \o t) = Len(s) + Len(t)
      /\ \A i \in 1..Len(s) + Len(t) : (s \o t)[i] = IF i <= Len(s) THEN s[i] ELSE t[i - Len(s)]
  BY ConcatProperties, LenProperties
<1>2. PICK c, n, m : c = s \o t /\ n = Len(s) /\ m = Len(t)
  OBVIOUS
<1>3. /\ n \in Nat /\ m \in Nat /\ c \in Seq(S) /\ Len(c) = n + m
      /\ \A i \in 1..n : c[i] = s[i]
      /\ \A i \in 1..m : c[n + i] = t[i]
  <2>1. \A i \in 1..n : i \in 1..n + m /\ i <= n
    BY <1>1, <1>2
  <2>2. \A i \in 1..m : n + i \in 1..n + m /\ ~(n + i <= n) /\ n + i - n = i
    BY <1>1, <1>2
  <2> QED
    BY <1>1, <1>2, <2>1, <2>2
<1>4. \A i \in 1..n + m : c[i] \in S
  BY <1>3, ElementOfSeq
<1>5. /\ SubSeq(c, 1, n) \in Seq(S) /\ Len(SubSeq(c, 1, n)) = n
      /\ \A i \in 1..n : SubSeq(c, 1, n)[i] = c[i]
  <2>1. \A i \in 1..n : i \in 1..n + m
    BY <1>3
  <2>2. /\ SubSeq(c, 1, n) \in Seq(S) /\ Len(SubSeq(c, 1, n)) = IF 1 <= n THEN n - 1 + 1 ELSE 0
        /\ \A i \in 1..n - 1 + 1 : SubSeq(c, 1, n)[i] = c[1 + i - 1]
    BY <1>3, <1>4, <2>1, SubSeqProperties
  <2>3. n - 1 + 1 = n /\ (~(1 <= n) => n = 0) /\ \A i \in 1..n : 1 + i - 1 = i
    BY <1>3
  <2> QED
    BY <2>2, <2>3
<1>6. SubSeq(c, 1, n) = s
  BY <1>2, <1>3, <1>5, SeqEqual
<1>7. /\ SubSeq(c, n + 1, n + m) \in Seq(S) /\ Len(SubSeq(c, n + 1, n + m)) = m
      /\ \A i \in 1..m : SubSeq(c, n + 1, n + m)[i] = c[n + i]
  <2>1. \A i \in n + 1..n + m : i \in 1..n + m
    BY <1>3
  <2>2. /\ SubSeq(c, n + 1, n + m) \in Seq(S)
        /\ Len(SubSeq(c, n + 1, n + m)) = IF n + 1 <= n + m THEN n + m - (n + 1) + 1 ELSE 0
        /\ \A i \in 1..n + m - (n + 1) + 1 : SubSeq(c, n + 1, n + m)[i] = c[n + 1 + i - 1]
    BY <1>3, <1>4, <2>1, SubSeqProperties
  <2>3. n + m - (n + 1) + 1 = m /\ (~(n + 1 <= n + m) => m = 0) /\ \A i \in 1..m : n + 1 + i - 1 = n + i
    BY <1>3
  <2> QED
    BY <2>2, <2>3
<1>8. SubSeq(c, n + 1, n + m) = t
  <2>1. PICK u : u = SubSeq(c, n + 1, n + m)
    OBVIOUS
  <2>2. u \in Seq(S) /\ Len(u) = Len(t) /\ \A i \in 1..Len(u) : u[i] = t[i]
    BY <1>2, <1>3, <1>7, <2>1
  <2>3. u = t
    BY <2>2, SeqEqual
  <2> QED
    BY <2>1, <2>3
<1> QED
  BY <1>2, <1>3, <1>6, <1>8

\* The same as \o; three sequences after each other are joined in any order.
Cat(s, t) == s \o t

LEMMA CatAssociates == \A S : \A s, t, u \in Seq(S) : Cat(Cat(s, t), u) = Cat(s, Cat(t, u))
BY ConcatAssociative DEF Cat

-----------------------------------------------------------------------------
(***************************************************************************)
(* Recursion that follows a rank.                                          *)
(***************************************************************************)
\* A set of natural numbers that is not empty has a least element.
LEMMA LeastExists ==
    ASSUME NEW S \in SUBSET Nat, S # {}
    PROVE  \E n \in S : \A m \in S : n <= m
<1> DEFINE R == OpToRel(<, Nat)
<1>1. \A m, n \in Nat : m < n => <<m, n>> \in R
  BY DEF OpToRel
<1>2. IsWellFoundedOn(R, Nat)
  BY NatLessThanWellFounded
<1> HIDE DEF R
<1>3. PICK n \in S : \A m \in S : <<m, n>> \notin R
  BY <1>2, WFMin
<1>4. ASSUME NEW m \in S
      PROVE  n <= m
  <2>1. m \in Nat /\ n \in Nat /\ ~(m < n)
    BY <1>1, <1>3
  <2> QED
    BY <2>1
<1> QED
  BY <1>4

\* Induction up to N.
LEMMA UpTo ==
    ASSUME NEW N \in Nat, NEW S, 0 \in S, \A n \in 0..N : n \in S /\ n < N => n + 1 \in S
    PROVE  \A n \in 0..N : n \in S
<1> DEFINE Bad == {n \in 0..N : n \notin S}
<1>1. SUFFICES ASSUME Bad # {} PROVE FALSE
  OBVIOUS
<1>2. PICK n \in Bad : \A m \in Bad : n <= m
  <2>1. Bad \in SUBSET Nat
    OBVIOUS
  <2> HIDE DEF Bad
  <2> QED
    BY <1>1, <2>1, LeastExists
<1>3. n # 0 /\ n \in 1..N /\ n - 1 \in 0..N /\ n - 1 < N /\ (n - 1) + 1 = n /\ ~(n <= n - 1)
  OBVIOUS
<1>4. n - 1 \in S
  BY <1>2, <1>3
<1> QED
  BY <1>2, <1>3, <1>4

\* Induction on a rank.
LEMMA RankedInduction ==
    ASSUME NEW D, NEW rank \in [D -> Nat], NEW S,
           \A x \in D : (\A y \in D : rank[y] < rank[x] => y \in S) => x \in S
    PROVE  D \subseteq S
<1> DEFINE Bad == {rank[x] : x \in D \ S}
<1>1. SUFFICES ASSUME D \ S # {}
               PROVE  FALSE
  OBVIOUS
<1>2. Bad \in SUBSET Nat /\ Bad # {}
  BY <1>1
<1>3. PICK n \in Bad : \A m \in Bad : n <= m
  <2> HIDE DEF Bad
  <2> QED
    BY <1>2, LeastExists
<1>4. PICK x \in D \ S : rank[x] = n
  BY <1>3
<1>5. ASSUME NEW y \in D, rank[y] < rank[x]
      PROVE  y \in S
  <2>1. SUFFICES ASSUME y \notin S
                 PROVE  FALSE
    OBVIOUS
  <2>2. rank[y] \in Bad /\ rank[y] \in Nat /\ rank[x] \in Nat
    BY <2>1
  <2>3. n <= rank[y]
    BY <1>3, <2>2
  <2> QED
    BY <1>4, <1>5, <2>2, <2>3
<1> QED
  BY <1>4, <1>5

Solution(f, D, H) == \A x \in D : f[x] = H[x][f]

Falls(H, D, T, rank) ==
    \A x \in D : \A f, g \in [D -> T] :
        (\A y \in D : rank[y] < rank[x] => f[y] = g[y]) => H[x][f] = H[x][g]

\* A function whose values are given by those at arguments of lower rank exists.
LEMMA RankedRecursion ==
    ASSUME NEW D, NEW T, NEW a \in T, NEW N \in Nat, NEW rank \in [D -> 0..N],
           NEW H \in [D -> [[D -> T] -> T]], Falls(H, D, T, rank)
    PROVE  \E f \in [D -> T] : Solution(f, D, H)
<1> DEFINE Below(n, f) == \A x \in D : rank[x] < n => f[x] = H[x][f]
           S == {n \in 0..N + 1 : \E f \in [D -> T] : Below(n, f)}
<1>1. 0 \in S
  <2>1. PICK f : f = [x \in D |-> a]
    OBVIOUS
  <2>2. f \in [D -> T] /\ Below(0, f)
    BY <2>1
  <2> QED
    BY <2>2
<1>2. ASSUME NEW n \in 0..N + 1, n \in S, n < N + 1
      PROVE  n + 1 \in S
  <2>1. PICK f \in [D -> T] : Below(n, f)
    BY <1>2
  <2>2. PICK g : g = [x \in D |-> IF rank[x] < n THEN f[x] ELSE H[x][f]]
    OBVIOUS
  <2>3. g \in [D -> T]
    BY <2>2
  <2>4. ASSUME NEW x \in D, rank[x] < n + 1
        PROVE  g[x] = H[x][g]
    <3>1. g[x] = H[x][f]
      BY <2>1, <2>2
    <3>2. \A y \in D : rank[y] < rank[x] => f[y] = g[y]
      BY <2>2, <2>4
    <3>3. H[x][f] = H[x][g]
      BY <2>3, <3>2 DEF Falls
    <3> QED
      BY <3>1, <3>3
  <2>5. Below(n + 1, g)
    BY <2>4
  <2>6. n + 1 \in 0..N + 1
    BY <1>2
  <2> HIDE DEF Below
  <2> QED
    BY <2>3, <2>5, <2>6
<1>3. N + 1 \in S
  <2>1. \A n \in 0..N + 1 : n \in S /\ n < N + 1 => n + 1 \in S
    BY <1>2
  <2>2. N + 1 \in Nat /\ N + 1 \in 0..N + 1
    OBVIOUS
  <2> HIDE DEF S
  <2> QED
    BY <1>1, <2>1, <2>2, UpTo
<1> QED
  BY <1>3 DEF Solution

Anywhere == Domains \cup {NoDomain}

\* The parents have lower ranks.
LEMMA RanksExist ==
    \E N \in Nat : \E rank \in [Anywhere -> 0..N] :
        \A d \in Domains : ParentOf[d] \in Anywhere /\ rank[ParentOf[d]] < rank[d]
<1>1. PICK n \in Nat : n = Cardinality(DOMAIN ParentOf)
  BY DomainsAssumption, FS_CardinalityType
<1>2. PICK depth \in [Domains -> 0..n] :
          \A d \in Domains : ParentOf[d] # NoDomain =>
              ParentOf[d] \in Domains /\ depth[ParentOf[d]] < depth[d]
  BY <1>1, DomainsAssumption DEF Domains
<1>3. PICK rank : rank = [d \in Anywhere |-> IF d = NoDomain THEN 0 ELSE depth[d] + 1]
  OBVIOUS
<1>4. NoDomain \notin Domains
  BY ConstantsAssumption DEF Domains
<1>5. rank \in [Anywhere -> 0..n + 1] /\ n + 1 \in Nat
  BY <1>3, <1>4 DEF Anywhere
<1>6. ASSUME NEW d \in Domains
      PROVE  ParentOf[d] \in Anywhere /\ rank[ParentOf[d]] < rank[d]
  <2>1. rank[d] = depth[d] + 1 /\ depth[d] \in Nat
    BY <1>3, <1>4 DEF Anywhere
  <2>2. CASE ParentOf[d] = NoDomain
    BY <1>3, <2>1, <2>2 DEF Anywhere
  <2>3. CASE ParentOf[d] # NoDomain
    <3>1. ParentOf[d] \in Domains /\ depth[ParentOf[d]] < depth[d] /\ depth[ParentOf[d]] \in Nat
      BY <1>2, <2>3
    <3>2. rank[ParentOf[d]] = depth[ParentOf[d]] + 1
      BY <1>3, <2>3, <3>1 DEF Anywhere
    <3> QED
      BY <2>1, <3>1, <3>2 DEF Anywhere
  <2> QED
    BY <2>2, <2>3
<1> QED
  BY <1>5, <1>6

\* What a domain collects: its own, and what its parent collects.
Collects(walk, own) ==
    /\ walk[NoDomain] = <<>>
    /\ \A d \in Domains : walk[d] = own[d] \o walk[ParentOf[d]]
CollectsAfter(path, own) ==
    /\ path[NoDomain] = <<>>
    /\ \A d \in Domains : path[d] = path[ParentOf[d]] \o own[d]

\* The walk over the domains is well-defined.
LEMMA DomainWalkIs ==
    ASSUME Typed
    PROVE  \E walk : /\ \A d : DomainWalk(d) = walk[d]
                     /\ Collects(walk, [d \in Domains |-> Reverse(domainPrefixes[d])])
<1> DEFINE T == Seq(DomainPrefix)
           Body(d, f) == IF d = NoDomain THEN <<>> ELSE Reverse(domainPrefixes[d]) \o f[ParentOf[d]]
           Is(f) == f = [d \in Anywhere |-> Body(d, f)]
           walk == CHOOSE f : Is(f)
<1>1. PICK N \in Nat : \E rank \in [Anywhere -> 0..N] :
          \A d \in Domains : ParentOf[d] \in Anywhere /\ rank[ParentOf[d]] < rank[d]
  BY RanksExist
<1>2. PICK rank \in [Anywhere -> 0..N] :
          \A d \in Domains : ParentOf[d] \in Anywhere /\ rank[ParentOf[d]] < rank[d]
  BY <1>1
<1>3. \A d \in Domains : Reverse(domainPrefixes[d]) \in T
  BY ReverseIs DEF Typed
<1>4. ASSUME NEW d \in Anywhere, NEW f \in [Anywhere -> T]
      PROVE  Body(d, f) \in T
  <2>1. CASE d = NoDomain
    BY <2>1, EmptySeq
  <2>2. CASE d # NoDomain
    <3>1. d \in Domains /\ f[ParentOf[d]] \in T
      BY <1>2, <2>2 DEF Anywhere
    <3> QED
      BY <1>3, <2>2, <3>1, ConcatProperties
  <2> QED
    BY <2>1, <2>2
<1>5. ASSUME NEW d \in Anywhere, NEW f \in [Anywhere -> T], NEW g \in [Anywhere -> T],
             \A e \in Anywhere : rank[e] < rank[d] => f[e] = g[e]
      PROVE  Body(d, f) = Body(d, g)
  BY <1>2, <1>5 DEF Anywhere
<1>6. \E f : Is(f)
  <2> HIDE DEF Body, T
  <2>1. PICK H : H = [d \in Anywhere |-> [f \in [Anywhere -> T] |-> Body(d, f)]]
    OBVIOUS
  <2>2. H \in [Anywhere -> [[Anywhere -> T] -> T]]
    BY <1>4, <2>1
  <2>3. Falls(H, Anywhere, T, rank)
    BY <1>5, <2>1 DEF Falls
  <2>4. <<>> \in T
    BY EmptySeq DEF T
  <2>5. PICK f \in [Anywhere -> T] : Solution(f, Anywhere, H)
    BY <2>2, <2>3, <2>4, RankedRecursion
  <2>6. Is(f)
    BY <2>1, <2>5 DEF Solution
  <2> QED
    BY <2>6
<1>7. Is(walk)
  <2> HIDE DEF Is
  <2> QED
    BY <1>6
<1>8. \A d : DomainWalk(d) = walk[d]
  BY DEF DomainWalk, Anywhere
<1>9. PICK w : w = walk
  OBVIOUS
<1>10. w = [d \in Anywhere |-> Body(d, w)]
  BY <1>7, <1>9
<1> HIDE DEF walk, Is
<1>11. Collects(w, [d \in Domains |-> Reverse(domainPrefixes[d])])
  <2>1. NoDomain \notin Domains
    BY ConstantsAssumption DEF Domains
  <2> QED
    BY <1>10, <2>1 DEF Collects, Anywhere
<1> QED
  BY <1>8, <1>9, <1>11

\* So is the promised order.
LEMMA OfDomainsIs ==
    ASSUME Typed
    PROVE  \E path : /\ \A d : OfDomains(d) = path[d]
                     /\ CollectsAfter(path, domainPrefixes)
<1> DEFINE T == Seq(DomainPrefix)
           Body(d, f) == IF d = NoDomain THEN <<>> ELSE f[ParentOf[d]] \o domainPrefixes[d]
           Is(f) == f = [d \in Anywhere |-> Body(d, f)]
           path == CHOOSE f : Is(f)
<1>1. PICK N \in Nat : \E rank \in [Anywhere -> 0..N] :
          \A d \in Domains : ParentOf[d] \in Anywhere /\ rank[ParentOf[d]] < rank[d]
  BY RanksExist
<1>2. PICK rank \in [Anywhere -> 0..N] :
          \A d \in Domains : ParentOf[d] \in Anywhere /\ rank[ParentOf[d]] < rank[d]
  BY <1>1
<1>3. \A d \in Domains : domainPrefixes[d] \in T
  BY DEF Typed
<1>4. ASSUME NEW d \in Anywhere, NEW f \in [Anywhere -> T]
      PROVE  Body(d, f) \in T
  <2>1. CASE d = NoDomain
    BY <2>1, EmptySeq
  <2>2. CASE d # NoDomain
    <3>1. d \in Domains /\ f[ParentOf[d]] \in T
      BY <1>2, <2>2 DEF Anywhere
    <3> QED
      BY <1>3, <2>2, <3>1, ConcatProperties
  <2> QED
    BY <2>1, <2>2
<1>5. ASSUME NEW d \in Anywhere, NEW f \in [Anywhere -> T], NEW g \in [Anywhere -> T],
             \A e \in Anywhere : rank[e] < rank[d] => f[e] = g[e]
      PROVE  Body(d, f) = Body(d, g)
  BY <1>2, <1>5 DEF Anywhere
<1>6. \E f : Is(f)
  <2> HIDE DEF Body, T
  <2>1. PICK H : H = [d \in Anywhere |-> [f \in [Anywhere -> T] |-> Body(d, f)]]
    OBVIOUS
  <2>2. H \in [Anywhere -> [[Anywhere -> T] -> T]]
    BY <1>4, <2>1
  <2>3. Falls(H, Anywhere, T, rank)
    BY <1>5, <2>1 DEF Falls
  <2>4. <<>> \in T
    BY EmptySeq DEF T
  <2>5. PICK f \in [Anywhere -> T] : Solution(f, Anywhere, H)
    BY <2>2, <2>3, <2>4, RankedRecursion
  <2>6. Is(f)
    BY <2>1, <2>5 DEF Solution
  <2> QED
    BY <2>6
<1>7. Is(path)
  <2> HIDE DEF Is
  <2> QED
    BY <1>6
<1>8. \A d : OfDomains(d) = path[d]
  BY DEF OfDomains, Anywhere
<1>9. PICK w : w = path
  OBVIOUS
<1>10. w = [d \in Anywhere |-> Body(d, w)]
  BY <1>7, <1>9
<1> HIDE DEF path, Is
<1>11. CollectsAfter(w, domainPrefixes)
  <2>1. NoDomain \notin Domains
    BY ConstantsAssumption DEF Domains
  <2> QED
    BY <1>10, <2>1 DEF CollectsAfter, Anywhere
<1> QED
  BY <1>8, <1>9, <1>11

\* The walk meets the prefixes in the opposite order.
LEMMA WalkReversed ==
    ASSUME Typed, NEW dom \in Domains
    PROVE  OfDomains(dom) \in Seq(DomainPrefix) /\ DomainWalk(dom) = Reverse(OfDomains(dom))
<1>1. PICK walk : /\ \A d : DomainWalk(d) = walk[d]
                  /\ Collects(walk, [d \in Domains |-> Reverse(domainPrefixes[d])])
  BY DomainWalkIs
<1>2. PICK path : (\A d : OfDomains(d) = path[d]) /\ CollectsAfter(path, domainPrefixes)
  BY OfDomainsIs
<1>3. PICK N \in Nat : \E rank \in [Anywhere -> 0..N] :
          \A d \in Domains : ParentOf[d] \in Anywhere /\ rank[ParentOf[d]] < rank[d]
  BY RanksExist
<1>4. PICK rank \in [Anywhere -> 0..N] :
          \A d \in Domains : ParentOf[d] \in Anywhere /\ rank[ParentOf[d]] < rank[d]
  BY <1>3
<1>5. PICK S : S = {d \in Anywhere : path[d] \in Seq(DomainPrefix) /\ walk[d] = Reverse(path[d])}
  OBVIOUS
<1>6. ASSUME NEW d \in Anywhere, \A e \in Anywhere : rank[e] < rank[d] => e \in S
      PROVE  d \in S
  <2>1. CASE d = NoDomain
    <3>1. path[d] = <<>> /\ walk[d] = <<>>
      BY <1>1, <1>2, <2>1 DEF Collects, CollectsAfter
    <3>2. <<>> \in Seq(DomainPrefix) /\ Len(<<>>) = 0
      BY EmptySeq
    <3>3. Reverse(<<>>) = <<>>
      <4>1. PICK e : e = <<>>
        OBVIOUS
      <4>2. e \in Seq(DomainPrefix) /\ Len(e) <= 1
        BY <3>2, <4>1
      <4>3. Reverse(e) = e
        BY <4>2, ReverseOfOne
      <4> QED
        BY <4>1, <4>3
    <3> QED
      BY <1>5, <3>1, <3>2, <3>3
  <2>2. CASE d # NoDomain
    <3>1. d \in Domains
      BY <2>2 DEF Anywhere
    <3>2. ParentOf[d] \in S
      BY <1>4, <1>6, <3>1
    <3>3. PICK p, own : p = path[ParentOf[d]] /\ own = domainPrefixes[d]
      OBVIOUS
    <3>4. p \in Seq(DomainPrefix) /\ own \in Seq(DomainPrefix) /\ walk[ParentOf[d]] = Reverse(p)
      BY <1>5, <3>1, <3>2, <3>3 DEF Typed
    <3>5. path[d] = p \o own /\ walk[d] = Reverse(own) \o Reverse(p)
      BY <1>1, <1>2, <3>1, <3>3, <3>4 DEF Collects, CollectsAfter
    <3>6. p \o own \in Seq(DomainPrefix) /\ Reverse(p \o own) = Reverse(own) \o Reverse(p)
      BY <3>4, ConcatProperties, ReverseOfConcat
    <3> QED
      BY <1>5, <3>5, <3>6
  <2> QED
    BY <2>1, <2>2
<1>7. rank \in [Anywhere -> Nat]
  <2>1. \A n \in 0..N : n \in Nat
    OBVIOUS
  <2> QED
    BY <2>1
<1>8. Anywhere \subseteq S
  BY <1>6, <1>7, RankedInduction
<1> QED
  BY <1>1, <1>2, <1>5, <1>8 DEF Anywhere

\* The list of logables that has got the first values of the domains.
Inserting(ofDomain, first) ==
    LET domains[i \in 0..Len(ofDomain)] ==
          IF i = 0 THEN first ELSE <<ofDomain[i].id>> \o domains[i - 1]
    IN  domains

\* A prefix and those after it.
LEMMA IdsFrom ==
    ASSUME NEW own \in Seq(DomainPrefix), NEW k \in 1..Len(own)
    PROVE  /\ Ids(SubSeq(own, k, Len(own))) \in Seq(Nat)
           /\ Ids(SubSeq(own, k + 1, Len(own))) \in Seq(Nat)
           /\ own[k].id \in Nat
           /\ Ids(SubSeq(own, k, Len(own))) = <<own[k].id>> \o Ids(SubSeq(own, k + 1, Len(own)))
<1>1. PICK n \in Nat : n = Len(own)
  BY LenProperties
<1>2. PICK a, b : a = SubSeq(own, k, n) /\ b = SubSeq(own, k + 1, n)
  OBVIOUS
<1>3. k \in 1..n /\ \A i \in 1..n : own[i] \in DomainPrefix
  BY <1>1, ElementOfSeq
<1>4. /\ a \in Seq(DomainPrefix) /\ Len(a) = n - k + 1
      /\ \A i \in 1..n - k + 1 : a[i] = own[k + i - 1]
  <2>1. \A i \in k..n : i \in 1..n
    BY <1>3
  <2> QED
    BY <1>2, <1>3, <2>1, SubSeqProperties
<1>5. /\ b \in Seq(DomainPrefix) /\ Len(b) = n - k
      /\ \A i \in 1..n - k : b[i] = own[k + i]
  <2>1. \A i \in k + 1..n : i \in 1..n
    BY <1>3
  <2>2. /\ b \in Seq(DomainPrefix) /\ Len(b) = IF k + 1 <= n THEN n - (k + 1) + 1 ELSE 0
        /\ \A i \in 1..n - (k + 1) + 1 : b[i] = own[k + 1 + i - 1]
    BY <1>2, <1>3, <2>1, SubSeqProperties
  <2>3. /\ n - (k + 1) + 1 = n - k /\ (~(k + 1 <= n) => n - k = 0)
        /\ \A i \in 1..n - k : k + 1 + i - 1 = k + i
    BY <1>3
  <2> QED
    BY <2>2, <2>3
<1>6. own[k].id \in Nat
  BY <1>3 DEF DomainPrefix
<1>7. PICK x, ia, ib : x = own[k].id /\ ia = Ids(a) /\ ib = Ids(b)
  OBVIOUS
<1>8. DOMAIN a = 1..n - k + 1 /\ DOMAIN b = 1..n - k
  BY <1>4, <1>5, LenProperties
<1>9. /\ ia \in Seq(Nat) /\ Len(ia) = n - k + 1 /\ \A i \in 1..n - k + 1 : ia[i] = a[i].id
  <2>1. ia \in Seq(Nat) /\ ia = [i \in 1..n - k + 1 |-> a[i].id]
    BY <1>4, <1>7, <1>8, IdsFollow DEF Ids
  <2>2. Len(ia) \in Nat /\ DOMAIN ia = 1..Len(ia) /\ n - k + 1 \in Nat
    BY <1>3, <2>1, LenProperties
  <2>3. \A p, q \in Nat : 1..p = 1..q => p = q
    OBVIOUS
  <2> QED
    BY <2>1, <2>2, <2>3
<1>10. /\ ib \in Seq(Nat) /\ Len(ib) = n - k /\ \A i \in 1..n - k : ib[i] = b[i].id
  <2>1. ib \in Seq(Nat) /\ ib = [i \in 1..n - k |-> b[i].id]
    BY <1>5, <1>7, <1>8, IdsFollow DEF Ids
  <2>2. Len(ib) \in Nat /\ DOMAIN ib = 1..Len(ib) /\ n - k \in Nat
    BY <1>3, <2>1, LenProperties
  <2>3. \A p, q \in Nat : 1..p = 1..q => p = q
    OBVIOUS
  <2> QED
    BY <2>1, <2>2, <2>3
<1>11. <<x>> \in Seq(Nat) /\ Len(<<x>>) = 1 /\ <<x>>[1] = x
  BY <1>6, <1>7
<1>12. PICK c : c = <<x>> \o ib
  OBVIOUS
<1>13. /\ c \in Seq(Nat) /\ Len(c) = n - k + 1
       /\ \A i \in 1..n - k + 1 : c[i] = IF i <= 1 THEN x ELSE ib[i - 1]
  <2>1. /\ c \in Seq(Nat) /\ Len(c) = Len(<<x>>) + Len(ib)
        /\ \A i \in 1..Len(<<x>>) + Len(ib) :
              c[i] = IF i <= Len(<<x>>) THEN <<x>>[i] ELSE ib[i - Len(<<x>>)]
    BY <1>10, <1>11, <1>12, ConcatProperties
  <2>2. 1 + (n - k) = n - k + 1 /\ \A i \in 1..n - k + 1 : i <= 1 => i = 1
    BY <1>3
  <2> QED
    BY <1>10, <1>11, <2>1, <2>2
<1>14. ASSUME NEW i \in 1..n - k + 1
       PROVE  ia[i] = c[i]
  <2>1. ia[i] = own[k + i - 1].id
    BY <1>4, <1>9
  <2>2. CASE i = 1
    <3>1. k + i - 1 = k
      BY <1>3, <2>2
    <3> QED
      BY <1>7, <1>13, <2>1, <2>2, <3>1
  <2>3. CASE i # 1
    <3>1. i - 1 \in 1..n - k /\ ~(i <= 1) /\ k + (i - 1) = k + i - 1
      BY <1>3, <2>3
    <3> QED
      BY <1>5, <1>10, <1>13, <2>1, <3>1
  <2> QED
    BY <2>2, <2>3
<1>15. ia = c
  BY <1>9, <1>13, <1>14, SeqEqual
<1> QED
  BY <1>1, <1>2, <1>6, <1>7, <1>9, <1>10, <1>12, <1>15

\* After i values, the list has the identifiers of the last i prefixes, in the order of the path.
LEMMA InsertingIs ==
    ASSUME NEW own \in Seq(DomainPrefix), NEW first \in Seq(Nat), NEW i \in 0..Len(own)
    PROVE  Inserting(Reverse(own), first)[i] = Ids(SubSeq(own, Len(own) - i + 1, Len(own))) \o first
<1>1. PICK n \in Nat : n = Len(own)
  BY LenProperties
<1>2. PICK r : r = Reverse(own)
  OBVIOUS
<1>3. Len(r) = n /\ \A j \in 1..n : r[j] = own[n - j + 1]
  BY <1>1, <1>2, ReverseIs
<1> DEFINE D == 0..n
           T == Seq(Nat)
           Body(j, f) == IF j = 0 THEN first ELSE <<r[j].id>> \o f[j - 1]
           Is(f) == f = [j \in 0..n |-> Body(j, f)]
           domains == CHOOSE f : Is(f)
           rank == [j \in D |-> j]
<1>4. \A j \in 1..n : r[j].id \in Nat /\ n - j + 1 \in 1..n
  <2>1. \A j \in 1..n : n - j + 1 \in 1..n
    OBVIOUS
  <2>2. \A j \in 1..n : own[j] \in DomainPrefix
    BY <1>1, ElementOfSeq
  <2> QED
    BY <1>3, <2>1, <2>2 DEF DomainPrefix
<1>5. rank \in [D -> 0..n] /\ \A j \in D : j # 0 => j - 1 \in D /\ rank[j - 1] < rank[j] /\ j \in 1..n
  OBVIOUS
<1> HIDE DEF rank
<1>6. ASSUME NEW j \in D, NEW f \in [D -> T]
      PROVE  Body(j, f) \in T
  <2>1. CASE j = 0
    BY <2>1
  <2>2. CASE j # 0
    <3>1. f[j - 1] \in T /\ r[j].id \in Nat
      BY <1>4, <1>5, <2>2
    <3>2. <<r[j].id>> \in Seq(Nat)
      BY <3>1
    <3> QED
      BY <2>2, <3>1, <3>2, ConcatProperties
  <2> QED
    BY <2>1, <2>2
<1>7. ASSUME NEW j \in D, NEW f \in [D -> T], NEW g \in [D -> T],
             \A e \in D : rank[e] < rank[j] => f[e] = g[e]
      PROVE  Body(j, f) = Body(j, g)
  BY <1>5, <1>7
<1>8. \E f : Is(f)
  <2> HIDE DEF Body, T, D
  <2>1. PICK H : H = [j \in D |-> [f \in [D -> T] |-> Body(j, f)]]
    OBVIOUS
  <2>2. H \in [D -> [[D -> T] -> T]]
    BY <1>6, <2>1
  <2>3. Falls(H, D, T, rank)
    BY <1>7, <2>1 DEF Falls
  <2>4. first \in T
    BY DEF T
  <2>5. PICK f \in [D -> T] : Solution(f, D, H)
    BY <1>5, <2>2, <2>3, <2>4, RankedRecursion
  <2>6. Is(f)
    BY <2>1, <2>5 DEF Solution, D
  <2> QED
    BY <2>6
<1>9. Is(domains)
  <2> HIDE DEF Is
  <2> QED
    BY <1>8
<1>10. Inserting(r, first) = domains
  BY <1>3 DEF Inserting
<1>11. PICK w : w = domains
  OBVIOUS
<1>12. w = [j \in 0..n |-> Body(j, w)]
  BY <1>9, <1>11
<1> HIDE DEF domains, Is
<1> DEFINE From(j) == Ids(SubSeq(own, n - j + 1, n))
           S == {j \in 0..n : w[j] = From(j) \o first}
<1>13. 0 \in S
  <2>1. SubSeq(own, n - 0 + 1, n) = <<>>
    <3>1. n - 0 + 1 \in Int /\ n < n - 0 + 1
      OBVIOUS
    <3> QED
      BY <3>1, SubSeqEmpty
  <2>2. Ids(<<>>) = <<>>
    BY DEF Ids
  <2>3. <<>> \o first = first
    BY ConcatEmptySeq
  <2>4. w[0] = first
    BY <1>12
  <2>5. From(0) = <<>>
    BY <2>1, <2>2
  <2> HIDE DEF From
  <2>6. w[0] = From(0) \o first
    BY <2>3, <2>4, <2>5
  <2> QED
    BY <1>1, <2>6
<1>14. ASSUME NEW j \in 0..n, j \in S, j < n
       PROVE  j + 1 \in S
  <2>1. j + 1 \in 1..n /\ j + 1 \in 0..n /\ j + 1 # 0 /\ (j + 1) - 1 = j /\ n - j \in 1..n
        /\ n - (j + 1) + 1 = n - j
    BY <1>14
  <2>2. w[j + 1] = <<r[j + 1].id>> \o w[j]
    BY <1>12, <2>1
  <2>3. r[j + 1] = own[n - j]
    BY <1>3, <2>1
  <2>4. PICK k \in 1..n : k = n - j
    BY <2>1
  <2>5. /\ From(j) \in Seq(Nat) /\ own[n - j].id \in Nat
        /\ From(j + 1) = <<own[n - j].id>> \o From(j)
    <3>1. /\ Ids(SubSeq(own, k, n)) \in Seq(Nat) /\ Ids(SubSeq(own, k + 1, n)) \in Seq(Nat)
          /\ own[k].id \in Nat
          /\ Ids(SubSeq(own, k, n)) = <<own[k].id>> \o Ids(SubSeq(own, k + 1, n))
      BY <1>1, IdsFrom
    <3> QED
      BY <2>1, <2>4, <3>1
  <2> HIDE DEF From
  <2>6. PICK a, b, x : a = From(j) /\ b = From(j + 1) /\ x = <<own[n - j].id>>
    OBVIOUS
  <2>7. a \in Seq(Nat) /\ x \in Seq(Nat) /\ b = x \o a
    BY <2>5, <2>6
  <2>8. w[j + 1] = x \o (a \o first)
    <3>1. w[j] = a \o first
      BY <1>14, <2>6
    <3> QED
      BY <2>2, <2>3, <2>6, <3>1
  <2>9. w[j + 1] = b \o first
    <3>1. first \in Seq(Nat)
      OBVIOUS
    <3>2. a \in Seq(Nat) /\ x \in Seq(Nat)
      BY <2>7
    <3>3. Cat(Cat(x, a), first) = Cat(x, Cat(a, first))
      BY <3>1, <3>2, CatAssociates
    <3> QED
      BY <2>7, <2>8, <3>3 DEF Cat
  <2> QED
    BY <2>1, <2>6, <2>9
<1> HIDE DEF S
<1>15. i \in S
  BY <1>1, <1>13, <1>14, UpTo
<1> QED
  BY <1>1, <1>2, <1>10, <1>11, <1>15 DEF S

-----------------------------------------------------------------------------
(***************************************************************************)
(* The list that is collected is the promised one.                         *)
(***************************************************************************)

\* The walk over the scopes, and what of it is outside of the logable.
Walks(walk, inner, one, code, thread, global) ==
    walk = inner \o one \o code \o Reverse(thread) \o global
PartOutside(outer, walk, inner) == outer = Reverse(SubSeq(walk, Len(inner) + 2, Len(walk)))
Outwards(outer, code, thread, global) == outer = global \o thread \o code

\* What the walk meets after the logable, turned round, is what is set for outer scopes.
LEMMA OuterOfWalk ==
    ASSUME NEW S, NEW inner \in Seq(S), NEW one \in Seq(S), Len(one) = 1,
           NEW code \in Seq(S), NEW thread \in Seq(S), NEW global \in Seq(S),
           Len(code) <= 1, Len(global) <= 1,
           NEW walk, Walks(walk, inner, one, code, thread, global),
           NEW outer, PartOutside(outer, walk, inner)
    PROVE  Outwards(outer, code, thread, global)
<1>1. PICK back : back = Reverse(thread)
  OBVIOUS
<1>2. back \in Seq(S) /\ Reverse(back) = thread
  BY <1>1, ReverseIs, ReverseTwice
<1>3. PICK a, b, c, d : a = inner \o one /\ b = code \o back /\ c = b \o global /\ d = a \o code
  OBVIOUS
<1>4. /\ a \in Seq(S) /\ Len(a) = Len(inner) + 1 /\ b \in Seq(S) /\ c \in Seq(S) /\ d \in Seq(S)
      /\ Len(inner) \in Nat
  <2>1. b \in Seq(S)
    BY <1>2, <1>3, ConcatProperties
  <2>2. a \in Seq(S) /\ Len(a) = Len(inner) + Len(one)
    BY <1>3, ConcatProperties
  <2>3. c \in Seq(S) /\ d \in Seq(S)
    BY <1>3, <2>1, <2>2, ConcatProperties
  <2> QED
    BY <2>1, <2>2, <2>3, LenProperties
<1>5. walk = a \o c
  <2>1. walk = (d \o back) \o global
    BY <1>1, <1>3 DEF Walks
  <2>2. a \in Seq(S) /\ b \in Seq(S) /\ back \in Seq(S) /\ code \in Seq(S) /\ global \in Seq(S)
    BY <1>2, <1>4
  <2>3. Cat(Cat(a, code), back) = Cat(a, Cat(code, back)) /\ Cat(Cat(a, b), global) = Cat(a, Cat(b, global))
    BY <2>2, CatAssociates
  <2> QED
    BY <1>3, <2>1, <2>3 DEF Cat
<1>6. SubSeq(walk, Len(a) + 1, Len(walk)) = c
  BY <1>4, <1>5, CutAt
<1>7. Len(a) + 1 = Len(inner) + 2
  BY <1>4
<1>8. Reverse(c) = Reverse(global) \o Reverse(b)
  BY <1>3, <1>4, ReverseOfConcat
<1>9. Reverse(b) = Reverse(back) \o Reverse(code)
  BY <1>2, <1>3, ReverseOfConcat
<1>10. Reverse(global) = global /\ Reverse(code) = code
  BY ReverseOfOne
<1>11. Reverse(c) = global \o (thread \o code)
  BY <1>2, <1>8, <1>9, <1>10
<1>12. Cat(global, Cat(thread, code)) = Cat(Cat(global, thread), code)
  BY CatAssociates
<1> QED
  BY <1>6, <1>7, <1>11, <1>12 DEF Cat, PartOutside, Outwards

\* The largest of some numbers.
LEMMA GreatestIs ==
    ASSUME NEW I, NEW k \in I, k \in Nat, \A i \in I : i \in Nat /\ k >= i
    PROVE  Max(I) = k
<1>1. PICK m : m = Max(I)
  OBVIOUS
<1>2. m \in I /\ \A i \in I : m >= i
  BY <1>1 DEF Max
<1>3. m \in Nat /\ m >= k /\ k >= m
  BY <1>2
<1> QED
  BY <1>1, <1>3

\* Where excluding prefixes are met, and where first.
ExcludingOf(found) == {i \in DOMAIN found : found[i].exclude}
FirstOf(places)    == CHOOSE i \in places : \A j \in places : i <= j

\* The first excluding prefix that the walk meets is the last one of the path.
LEMMA FirstIsLast ==
    ASSUME NEW own \in Seq(DomainPrefix), NEW found, found = Reverse(own),
           NEW excluding, excluding = ExcludingOf(found), NEW first, first = FirstOf(excluding)
    PROVE  /\ excluding = {} => SelectLastInSeq(own, Excluding) = 0
           /\ excluding # {} => /\ first \in 1..Len(own)
                                /\ SelectLastInSeq(own, Excluding) = Len(own) + 1 - first
                                /\ Len(own) + 1 - first \in 1..Len(own)
<1>1. PICK n \in Nat : n = Len(own)
  BY LenProperties
<1>2. DOMAIN found = 1..n /\ \A i \in 1..n : found[i] = own[n - i + 1]
  <2>1. found \in Seq(DomainPrefix) /\ Len(found) = n /\ \A i \in 1..n : found[i] = own[n - i + 1]
    BY <1>1, ReverseIs
  <2> QED
    BY <2>1, LenProperties
<1>3. PICK I : I = {i \in 1..n : own[i].exclude}
  OBVIOUS
<1>4. SelectLastInSeq(own, Excluding) = IF I # {} THEN Max(I) ELSE 0
  BY <1>1, <1>3 DEF SelectLastInSeq, Excluding
<1>5. \A i \in 1..n : n - i + 1 \in 1..n /\ n - (n - i + 1) + 1 = i
  BY <1>1
<1>6. \A i \in 1..n : i \in excluding <=> n - i + 1 \in I
  BY <1>2, <1>3, <1>5 DEF ExcludingOf
<1>7. excluding \subseteq 1..n /\ I \subseteq 1..n
  BY <1>2, <1>3 DEF ExcludingOf
<1>8. CASE excluding = {}
  <2>1. \A i \in 1..n : i \notin I
    BY <1>5, <1>6, <1>8
  <2>2. I = {}
    BY <1>7, <2>1
  <2> QED
    BY <1>4, <1>8, <2>2
<1>9. CASE excluding # {}
  <2>1. excluding \in SUBSET Nat
    BY <1>7
  <2>2. first \in excluding /\ \A j \in excluding : first <= j
    BY <1>9, <2>1, LeastExists DEF FirstOf
  <2>3. first \in 1..n
    BY <1>7, <2>2
  <2>4. PICK k : k = n - first + 1
    OBVIOUS
  <2>5. k \in I /\ k \in Nat /\ k = n + 1 - first /\ k \in 1..n
    BY <1>5, <1>6, <2>2, <2>3, <2>4
  <2>6. ASSUME NEW i \in I
        PROVE  i \in Nat /\ k >= i
    <3>1. i \in 1..n /\ n - i + 1 \in 1..n
      BY <1>5, <1>7
    <3>2. n - i + 1 \in excluding
      BY <1>5, <1>6, <3>1
    <3>3. first <= n - i + 1
      BY <2>2, <3>2
    <3> QED
      BY <2>3, <2>4, <3>1, <3>3
  <2>7. Max(I) = k
    BY <2>5, <2>6, GreatestIs
  <2> QED
    BY <1>1, <1>4, <1>9, <2>3, <2>5, <2>7
<1> QED
  BY <1>8, <1>9

\* The scopes that do not belong to a thread keep at most one prefix.
OneEach == \A s \in Scopes : KeepsAll(s) \/ Len(scopePrefixes[s]) <= 1

\* The scopes whose prefixes a statement gets.
LEMMA ScopesOf ==
    ASSUME Typed, OneEach, NEW t \in Threads
    PROVE  /\ scopePrefixes[<<"inner", t>>] \in Seq(Nat) /\ scopePrefixes[<<"outer", t>>] \in Seq(Nat)
           /\ scopePrefixes[<<"code">>] \in Seq(Nat) /\ scopePrefixes[<<"global">>] \in Seq(Nat)
           /\ Len(scopePrefixes[<<"code">>]) <= 1 /\ Len(scopePrefixes[<<"global">>]) <= 1
<1>1. {<<"inner", t>>, <<"outer", t>>, <<"code">>, <<"global">>} \subseteq Scopes
  BY DEF Scopes
<1>2. ~KeepsAll(<<"code">>) /\ ~KeepsAll(<<"global">>)
  BY DEF KeepsAll
<1> QED
  BY <1>1, <1>2 DEF Typed, OneEach

\* What the loggers get is the promised list.
LEMMA CollectedIsPromised ==
    ASSUME Typed, OneEach, NEW id \in Nat, NEW dom \in Domains, NEW t \in Threads
    PROVE  Collected(id, dom, t) = Promised(id, dom, t)
<1> DEFINE in     == scopePrefixes[<<"inner", t>>]
           out    == scopePrefixes[<<"outer", t>>]
           code   == scopePrefixes[<<"code">>]
           global == scopePrefixes[<<"global">>]
           inner  == Reverse(in)
           walk   == inner \o <<id>> \o code \o Reverse(out) \o global
           found  == DomainWalk(dom)
           own    == OfDomains(dom)
           lists  == Inserting(found, Reverse(inner \o <<id>>))
           excluding == {i \in DOMAIN found : found[i].exclude}
           first  == CHOOSE i \in excluding : \A j \in excluding : i <= j
           last1  == SelectLastInSeq(own, Excluding)
           outer  == Reverse(SubSeq(walk, Len(inner) + 2, Len(walk)))
<1>1. Collected(id, dom, t) =
        IF excluding = {} THEN outer \o lists[Len(found)]
        ELSE SubSeq(lists[first], 1, Len(lists[first]) - Len(inner))
  BY DEF Collected, Inserting
<1>2. Promised(id, dom, t) =
        IF last1 # 0 THEN Ids(SubSeq(own, last1, Len(own))) \o <<id>>
        ELSE global \o out \o code \o Ids(own) \o <<id>> \o in
  BY DEF Promised
<1>3. /\ in \in Seq(Nat) /\ out \in Seq(Nat) /\ code \in Seq(Nat) /\ global \in Seq(Nat)
      /\ Len(code) <= 1 /\ Len(global) <= 1
  BY ScopesOf
<1>4. own \in Seq(DomainPrefix) /\ found = Reverse(own)
  BY WalkReversed
<1> HIDE DEF in, out, code, global, found, own
<1>5. PICK one : one = <<id>>
  OBVIOUS
<1>6. one \in Seq(Nat) /\ Len(one) = 1
  BY <1>5
<1>7. inner \in Seq(Nat) /\ Len(inner) = Len(in) /\ Reverse(inner) = in
  BY <1>3, ReverseIs, ReverseTwice
<1> HIDE DEF inner
<1>8. outer = global \o out \o code
  <2>1. Walks(walk, inner, one, code, out, global) /\ PartOutside(outer, walk, inner)
    BY <1>5 DEF Walks, PartOutside
  <2> HIDE DEF walk, outer
  <2>2. Outwards(outer, code, out, global)
    BY <1>3, <1>6, <1>7, <2>1, OuterOfWalk
  <2> QED
    BY <2>2 DEF Outwards
<1> HIDE DEF outer
<1>9. Reverse(inner \o <<id>>) = one \o in
  <2>1. Reverse(inner \o one) = Reverse(one) \o Reverse(inner)
    BY <1>6, <1>7, ReverseOfConcat
  <2>2. Reverse(one) = one
    <3>1. one \in Seq(Nat) /\ Len(one) <= 1
      BY <1>6
    <3>2. \A s \in Seq(Nat) : Len(s) <= 1 => Reverse(s) = s
      BY ONLY ReverseOfOne
    <3> QED
      BY ONLY <3>1, <3>2
  <2>3. Reverse(inner) = in
    BY <1>7
  <2>4. Reverse(inner \o one) = one \o in
    BY ONLY <2>1, <2>2, <2>3
  <2> QED
    BY ONLY <1>5, <2>4
<1>10. PICK tail : tail = one \o in
  OBVIOUS
<1>11. tail \in Seq(Nat)
  BY <1>3, <1>6, <1>10, ConcatProperties
<1>12. lists = Inserting(Reverse(own), tail)
  BY <1>4, <1>9, <1>10
<1> HIDE DEF lists
<1>13. ASSUME NEW i \in 0..Len(own)
       PROVE  lists[i] = Ids(SubSeq(own, Len(own) - i + 1, Len(own))) \o tail
  BY <1>4, <1>11, <1>12, InsertingIs
<1>14. Len(own) \in Nat /\ Len(found) = Len(own) /\ found \in Seq(DomainPrefix)
  BY <1>4, ReverseIs, LenProperties
<1>15. /\ excluding = {} => last1 = 0
       /\ excluding # {} => /\ first \in 1..Len(own) /\ last1 = Len(own) + 1 - first
                            /\ last1 \in 1..Len(own)
  <2>1. PICK ex, f : ex = ExcludingOf(found) /\ f = FirstOf(ex)
    OBVIOUS
  <2>2. /\ ex = {} => SelectLastInSeq(own, Excluding) = 0
        /\ ex # {} => /\ f \in 1..Len(own)
                      /\ SelectLastInSeq(own, Excluding) = Len(own) + 1 - f
                      /\ Len(own) + 1 - f \in 1..Len(own)
    BY ONLY <1>4, <2>1, FirstIsLast
  <2>3. ex = excluding /\ f = first
    BY <2>1 DEF ExcludingOf, FirstOf
  <2> QED
    BY <2>2, <2>3
<1> HIDE DEF excluding, first, last1
<1>16. CASE excluding = {}
  <2>1. PICK ids : ids = Ids(own)
    OBVIOUS
  <2>2. ids \in Seq(Nat)
    BY <1>4, <2>1, IdsFollow
  <2>3. lists[Len(own)] = ids \o tail
    <3>1. Len(own) \in 0..Len(own) /\ Len(own) - Len(own) + 1 = 1
      BY <1>14
    <3>2. SubSeq(own, 1, Len(own)) = own
      BY <1>4, SubSeqFull
    <3> QED
      BY <1>13, <2>1, <3>1, <3>2
  <2>4. Collected(id, dom, t) = (global \o out \o code) \o (ids \o (one \o in))
    BY <1>1, <1>8, <1>10, <1>14, <1>16, <2>3
  <2>5. Promised(id, dom, t) = global \o out \o code \o ids \o one \o in
    BY <1>2, <1>5, <1>15, <1>16, <2>1
  <2>6. PICK a : a = global \o out \o code
    OBVIOUS
  <2>7. a \in Seq(Nat) /\ Cat(a, ids) \in Seq(Nat)
    <3>1. global \o out \in Seq(Nat)
      BY <1>3, ConcatProperties
    <3>2. (global \o out) \o code \in Seq(Nat)
      BY <1>3, <3>1, ConcatProperties
    <3>3. a \in Seq(Nat)
      BY <2>6, <3>2
    <3> QED
      BY <2>2, <3>3, ConcatProperties DEF Cat
  <2>8. Cat(a, Cat(ids, Cat(one, in))) = Cat(Cat(Cat(a, ids), one), in)
    <3>1. Cat(one, in) \in Seq(Nat)
      BY <1>10, <1>11 DEF Cat
    <3>2. Cat(a, Cat(ids, Cat(one, in))) = Cat(Cat(a, ids), Cat(one, in))
      BY <2>2, <2>7, <3>1, CatAssociates
    <3>3. Cat(Cat(Cat(a, ids), one), in) = Cat(Cat(a, ids), Cat(one, in))
      BY <1>3, <1>6, <2>7, CatAssociates
    <3> QED
      BY <3>2, <3>3
  <2> QED
    BY <2>4, <2>5, <2>6, <2>8 DEF Cat
<1>17. CASE excluding # {}
  <2>1. PICK k : k = last1
    OBVIOUS
  <2>2. first \in 0..Len(own) /\ Len(own) - first + 1 = k /\ k \in 1..Len(own) /\ k # 0
    BY <1>14, <1>15, <1>17, <2>1
  <2>3. PICK ids : ids = Ids(SubSeq(own, k, Len(own)))
    OBVIOUS
  <2>4. ids \in Seq(Nat)
    BY <1>4, <2>2, <2>3, IdsFrom
  <2>5. lists[first] = ids \o (one \o in)
    BY <1>10, <1>13, <2>2, <2>3
  <2>6. PICK a : a = ids \o one
    OBVIOUS
  <2>7. a \in Seq(Nat) /\ Len(in) \in Nat
    BY <1>3, <1>6, <2>4, <2>6, ConcatProperties, LenProperties
  <2>8. lists[first] = a \o in
    <3>1. Cat(ids, Cat(one, in)) = Cat(Cat(ids, one), in)
      BY <1>3, <1>6, <2>4, CatAssociates
    <3> QED
      BY <2>5, <2>6, <3>1 DEF Cat
  <2>9. Len(a \o in) - Len(in) = Len(a)
    BY <1>3, <2>7, ConcatProperties, LenProperties
  <2>10. SubSeq(a \o in, 1, Len(a)) = a
    BY <1>3, <2>7, CutAt
  <2>11. Collected(id, dom, t) = a
    BY <1>1, <1>7, <1>17, <2>8, <2>9, <2>10
  <2>12. Promised(id, dom, t) = a
    BY <1>2, <1>5, <2>1, <2>2, <2>3, <2>6
  <2> QED
    BY <2>11, <2>12
<1> QED
  BY <1>16, <1>17

-----------------------------------------------------------------------------
(***************************************************************************)
(* What the statement on top of the stack has its loggers get. It is alone *)
(* to use the list of logables and the caller while it is not interrupted; *)
(* all below it are.                                                       *)
(***************************************************************************)

\* What a frame promises is what is collected for it now.
Promising(f) ==
    /\ f.id \in Nat /\ f.prefixes \in BOOLEAN
    /\ f.prefixes => f.dom \in Domains /\ f.thread \in Threads
                     /\ f.promised = Promised(f.id, f.dom, f.thread)
    /\ ~f.prefixes => f.promised = <<f.id>>

Interrupted(frames, n) == \A i \in DOMAIN frames : i < n => frames[i].disturbed = TRUE

\* The frame f, on top, gets what it promises.
Served(f) ==
    \/ f.disturbed = TRUE
    \/ caller = f.by /\ Promising(f) /\ tmpLogables \in {<<>>, f.promised}

Prepared ==
    /\ Interrupted(stack, Len(stack))
    /\ stack # <<>> => \A f : f = stack[Len(stack)] => Served(f)

OrderInv == OneEach /\ Prepared /\ PrefixesInOrder

\* While the prefixes are as they are, a frame promises what it did.
LEMMA PromiseStays ==
    ASSUME NEW f, Promising(f), UNCHANGED <<scopePrefixes, domainPrefixes>>
    PROVE  Promising(f)'
<1>1. \A d : OfDomains(d)' = OfDomains(d)
  BY DEF OfDomains
<1>2. \A id, d, t : Promised(id, d, t)' = Promised(id, d, t)
  BY <1>1 DEF Promised
<1> QED
  BY <1>2 DEF Promising

\* To mark the frames interrupts all of them.
LEMMA DisturbedInterrupts ==
    ASSUME NEW frames, IsStack(frames)
    PROVE  /\ DOMAIN Disturbed(frames) = 1..Len(frames) /\ Len(Disturbed(frames)) = Len(frames)
           /\ \A i \in 1..Len(frames) : Disturbed(frames)[i].disturbed = TRUE
<1>1. /\ Len(frames) \in Nat /\ DOMAIN frames = 1..Len(frames)
      /\ \A i \in DOMAIN frames : IsFrame(frames[i])
  BY StackParts
<1>2. DOMAIN Disturbed(frames) = 1..Len(frames)
  BY <1>1 DEF Disturbed
<1>3. IsStack(Disturbed(frames))
  BY DisturbedKeeps
<1>4. Len(Disturbed(frames)) \in Nat /\ DOMAIN Disturbed(frames) = 1..Len(Disturbed(frames))
  BY <1>3, StackParts
<1>5. \A m, n \in Nat : 1..m = 1..n => m = n
  OBVIOUS
<1>6. Len(Disturbed(frames)) = Len(frames)
  BY <1>1, <1>2, <1>4, <1>5
<1>7. \A f : IsFrame(f) => [f EXCEPT !.disturbed = TRUE].disturbed = TRUE
  BY DEF IsFrame
<1>8. \A i \in 1..Len(frames) : Disturbed(frames)[i] = [frames[i] EXCEPT !.disturbed = TRUE]
  BY <1>1 DEF Disturbed
<1>9. ASSUME NEW i \in 1..Len(frames)
      PROVE  Disturbed(frames)[i].disturbed = TRUE
  BY <1>1, <1>7, <1>8
<1> QED
  BY <1>2, <1>6, <1>9

\* A frame that comes on top is served, if it promises what is collected for it.
LEMMA BeginPrepares ==
    ASSUME NEW below, IsStack(below), NEW frame, Begin(below, frame),
           frame.disturbed # TRUE => caller' = frame.by /\ Promising(frame)'
    PROVE  Prepared'
<1>1. PICK marked : marked = Disturbed(below)
  OBVIOUS
<1>2. /\ stack' = Append(marked, frame) /\ tmpLogables' = <<>>
      /\ marked \in Seq(ToSet(marked)) /\ \A i \in DOMAIN marked : marked[i].disturbed = TRUE
  BY <1>1, DisturbedKeeps, DisturbedInterrupts DEF Begin, IsStack
<1>3. /\ DOMAIN stack' = 1..Len(marked) + 1 /\ Len(marked) \in Nat /\ DOMAIN marked = 1..Len(marked)
      /\ \A i \in DOMAIN marked : stack'[i] = marked[i]
      /\ stack'[Len(marked) + 1] = frame /\ Len(stack') = Len(marked) + 1
  <2>1. marked \in Seq(ToSet(marked) \cup {frame})
    BY <1>2, SeqMonotonic
  <2>2. Len(Append(marked, frame)) = Len(marked) + 1
    BY <2>1, AppendProperties
  <2> QED
    BY <1>2, <2>2, Appended
<1>4. Interrupted(stack', Len(stack'))
  BY <1>2, <1>3 DEF Interrupted
<1>5. ASSUME NEW f, f = stack'[Len(stack')]
      PROVE  Served(f)'
  <2>1. f = frame
    BY <1>3, <1>5
  <2>2. CASE f.disturbed = TRUE
    BY <2>2 DEF Served
  <2>3. CASE f.disturbed # TRUE
    <3>1. caller' = f.by /\ Promising(f)' /\ tmpLogables' = <<>>
      BY <1>2, <2>1, <2>3
    <3> QED
      BY <3>1 DEF Served
  <2> QED
    BY <2>2, <2>3
<1> QED
  BY <1>4, <1>5 DEF Prepared, Interrupted

\* Frames that are all interrupted, on top too, need nothing.
LEMMA InterruptedPrepares ==
    ASSUME NEW n \in Nat, Len(stack') = n, Interrupted(stack', n + 1), DOMAIN stack' = 1..n,
           stack' # <<>> => n > 0
    PROVE  Prepared'
<1>1. Interrupted(stack', Len(stack'))
  BY DEF Interrupted
<1>2. ASSUME NEW f, stack' # <<>>, f = stack'[Len(stack')]
      PROVE  Served(f)'
  <2>1. n \in DOMAIN stack' /\ n < n + 1
    BY <1>2
  <2> QED
    BY <1>2, <2>1 DEF Served, Interrupted
<1> QED
  BY <1>1, <1>2 DEF Prepared, Interrupted

\* A call that logs nothing interrupts what is being delivered.
LEMMA DisturbedPrepares ==
    ASSUME IsStack(stack), stack' = Disturbed(stack)
    PROVE  Prepared'
<1>1. PICK n, new : n = Len(stack) /\ new = Disturbed(stack)
  OBVIOUS
<1>2. /\ n \in Nat /\ Len(new) = n /\ DOMAIN new = 1..n /\ \A i \in 1..n : new[i].disturbed = TRUE
  BY <1>1, StackParts, DisturbedInterrupts
<1>3. new # <<>> => n > 0
  <2>1. IsStack(new)
    BY <1>1, DisturbedKeeps
  <2> QED
    BY <1>2, <2>1, StackParts
<1>4. Interrupted(new, n + 1)
  BY <1>2 DEF Interrupted
<1> QED
  BY <1>1, <1>2, <1>3, <1>4, InterruptedPrepares

\* So does the end of a statement for the one below it.
LEMMA FrontPrepares ==
    ASSUME IsStack(stack), stack # <<>>, Prepared, stack' = Front(stack)
    PROVE  Prepared'
<1>1. PICK n, new : n = Len(stack) - 1 /\ new = Front(stack)
  OBVIOUS
<1>2. /\ new \in Seq(ToSet(stack)) /\ DOMAIN new = 1..n /\ Len(stack) \in Nat \ {0}
      /\ DOMAIN stack = 1..Len(stack) /\ \A i \in DOMAIN new : new[i] = stack[i]
  BY <1>1, FrontLeaves DEF IsStack
<1>3. n \in Nat /\ Len(new) = n /\ (new # <<>> => n > 0)
  <2>1. Len(new) \in Nat /\ DOMAIN new = 1..Len(new) /\ (new # <<>> => Len(new) > 0)
    BY <1>2, LenProperties, EmptySeq
  <2>2. \A k, m \in Nat : 1..k = 1..m => k = m
    OBVIOUS
  <2>3. n \in Nat
    BY <1>1, <1>2
  <2> QED
    BY <1>2, <2>1, <2>2, <2>3
<1>4. Interrupted(new, n + 1)
  <2>1. \A i \in 1..n : i \in DOMAIN stack /\ i < Len(stack)
    BY <1>1, <1>2
  <2> QED
    BY <1>2, <2>1 DEF Prepared, Interrupted
<1> QED
  BY <1>1, <1>2, <1>3, <1>4, InterruptedPrepares

\* Reports promise what they log, now and later.
LEMMA ReportPromises ==
    ASSUME NEW n, NEW t, NEW drop, NEW more, NEW f, f = ReportOf(n, t, drop, more)
    PROVE  f.by = n /\ Promising(f) /\ Promising(f)'
BY DEF ReportOf, Promising, Report

\* A report that follows is interrupted if what it follows was.
LEMMA FollowingPromises ==
    ASSUME NEW more, NEW f, f = Following(more)
    PROVE  /\ f.by = Top.by /\ f.disturbed = Top.disturbed
           /\ Promising(f) /\ Promising(f)'
BY DEF Following, ReportOf, Promising, Report

\* Statements promise what is collected for them when they start.
LEMMA StatementPromises ==
    ASSUME NEW d \in Domains, NEW t \in Threads, Number \in Nat,
           NEW f, f = Statement(d, t)
    PROVE  f.by = Number /\ IsFrame(f) /\ Promising(f)
BY NewFrames DEF Statement, Promising

-----------------------------------------------------------------------------
(***************************************************************************)
(* The steps.                                                              *)
(***************************************************************************)

\* Steps that neither deliver nor set prefixes of scopes.
LEMMA OthersKeep ==
    /\ OneEach /\ UNCHANGED scopePrefixes => OneEach'
    /\ PrefixesInOrder /\ UNCHANGED last => PrefixesInOrder'
BY DEF OneEach, PrefixesInOrder

\* A call from outside that reports.
LEMMA ReportPrepares ==
    ASSUME NEW t, Outside(t), NEW drop, NEW more, Reported(t, drop, more)
    PROVE  Prepared'
<1>1. PICK f : f = ReportOf(Number, t, drop, more)
  OBVIOUS
<1>2. Begin(<<>>, f) /\ caller' = f.by /\ Promising(f)'
  BY <1>1, ReportPromises DEF Reported, Outside, Calling
<1> QED
  BY <1>2, BeginPrepares, EmptyStack

\* Entry starts a statement, if there are loggers.
LEMMA EntryPrepares ==
    ASSUME IInv, OrderInv, NEW d \in Domains, NEW t \in Threads, Entry(d, t)
    PROVE  OrderInv'
<1>1. /\ IsStack(stack) /\ Number \in Nat /\ caller' = Number
      /\ UNCHANGED <<scopePrefixes, domainPrefixes, last>>
  BY NumberIsFresh DEF IInv, Typed, Entry, Calling, stores, history
<1>2. PICK f : f = Statement(d, t)
  OBVIOUS
<1>3. f.by = Number /\ Promising(f)'
  BY <1>1, <1>2, StatementPromises, PromiseStays
<1>4. Begin(stack, f) \/ stack' = Disturbed(stack)
  BY <1>2 DEF Entry
<1>5. Prepared'
  BY <1>1, <1>3, <1>4, BeginPrepares, DisturbedPrepares
<1> QED
  BY <1>1, <1>5, OthersKeep DEF OrderInv

\* Once starts a statement, or the report that its limit was reached.
LEMMA OncePrepares ==
    ASSUME IInv, OrderInv, NEW c \in OnceCalls, NEW t \in Threads, Once(c, t)
    PROVE  OrderInv'
<1>1. /\ IsStack(stack) /\ Number \in Nat /\ caller' = Number
      /\ UNCHANGED <<scopePrefixes, domainPrefixes, last>>
  <2>1. Calling(t) /\ UNCHANGED <<scopePrefixes, domainPrefixes, last>>
    BY DEF Once
  <2> QED
    BY <2>1, NumberIsFresh DEF IInv, Typed, Calling
<1>2. c.dom \in Domains
  BY OnceAssumption DEF Domains
<1>3. PICK limit :
          \/ stack' = Disturbed(stack)
          \/ Begin(stack, [Statement(c.dom, t) EXCEPT !.once = limit])
          \/ Begin(stack, ReportOf(Number, t, {}, 0))
  BY DEF Once
<1>4. PICK f : f = Statement(c.dom, t)
  OBVIOUS
<1>5. f.by = Number /\ Promising(f)' /\ IsFrame(f)
  BY <1>1, <1>2, <1>4, StatementPromises, PromiseStays
<1>6. PICK g : g = [f EXCEPT !.once = limit]
  OBVIOUS
<1>7. /\ g.by = f.by /\ g.id = f.id /\ g.prefixes = f.prefixes /\ g.dom = f.dom
      /\ g.thread = f.thread /\ g.promised = f.promised
  BY <1>5, <1>6 DEF IsFrame
<1>8. g.by = Number /\ Promising(g)'
  BY <1>5, <1>7 DEF Promising
<1>9. PICK r : r = ReportOf(Number, t, {}, 0)
  OBVIOUS
<1>10. r.by = Number /\ Promising(r)'
  BY <1>9, ReportPromises
<1>11. \/ stack' = Disturbed(stack)
       \/ Begin(stack, g)
       \/ Begin(stack, r)
  BY <1>3, <1>4, <1>6, <1>9
<1>12. Prepared'
  BY <1>1, <1>8, <1>10, <1>11, BeginPrepares, DisturbedPrepares
<1> QED
  BY <1>1, <1>12, OthersKeep DEF OrderInv

\* The next logger gets what the statement promises, unless it was interrupted.
LEMMA DeliverInOrder ==
    ASSUME IInv, OrderInv, Deliver
    PROVE  OrderInv'
<1>1. PICK f : f = Top
  OBVIOUS
<1>2. PICK g : g = [f EXCEPT !.next = f.next + 1]
  OBVIOUS
<1>3. /\ stack # <<>> /\ stack' = [stack EXCEPT ![Len(stack)] = g]
      /\ tmpLogables' = IF tmpLogables # <<>> THEN tmpLogables
                        ELSE IF f.prefixes THEN Collected(f.id, f.dom, f.thread) ELSE <<f.id>>
      /\ last' = <<[got |-> tmpLogables', caller |-> caller, to |-> f]>>
      /\ caller' = caller /\ UNCHANGED <<scopePrefixes, domainPrefixes>>
  BY <1>1, <1>2 DEF Deliver, WithTop, stores
<1>4. /\ IsStack(stack) /\ Typed /\ OneEach /\ Prepared
  BY DEF IInv, Typed, OrderInv
<1>5. f = stack[Len(stack)] /\ IsFrame(f) /\ Served(f)
  BY <1>1, <1>3, <1>4, FrontKeeps DEF Prepared, Top, Last
<1>6. ASSUME f.disturbed # TRUE
      PROVE  caller = f.by /\ Promising(f) /\ tmpLogables' = f.promised
  <2>1. caller = f.by /\ Promising(f) /\ tmpLogables \in {<<>>, f.promised}
    BY <1>5, <1>6 DEF Served
  <2>2. CASE tmpLogables # <<>>
    BY <1>3, <2>1, <2>2
  <2>3. CASE tmpLogables = <<>> /\ f.prefixes
    <3>1. Collected(f.id, f.dom, f.thread) = Promised(f.id, f.dom, f.thread)
      BY <1>4, <2>1, <2>3, CollectedIsPromised DEF Promising
    <3> QED
      BY <1>3, <2>1, <2>3, <3>1 DEF Promising
  <2>4. CASE tmpLogables = <<>> /\ ~f.prefixes
    BY <1>3, <2>1, <2>4 DEF Promising
  <2> QED
    BY <2>1, <2>2, <2>3, <2>4
<1>7. PrefixesInOrder'
  <2>1. DOMAIN last' = {1} /\ last'[1] = [got |-> tmpLogables', caller |-> caller, to |-> f]
    BY <1>3
  <2>2. ~f.disturbed => tmpLogables' = f.promised /\ caller = f.by
    BY <1>6
  <2> QED
    BY <2>1, <2>2 DEF PrefixesInOrder, AsStated
<1>8. /\ g.by = f.by /\ g.id = f.id /\ g.prefixes = f.prefixes /\ g.dom = f.dom
      /\ g.thread = f.thread /\ g.promised = f.promised /\ g.disturbed = f.disturbed
  BY <1>2, <1>5 DEF IsFrame
<1>9. Served(g)'
  <2>1. CASE f.disturbed = TRUE
    BY <1>8, <2>1 DEF Served
  <2>2. CASE f.disturbed # TRUE
    <3>1. caller' = g.by /\ tmpLogables' = g.promised
      BY <1>3, <1>6, <1>8, <2>2
    <3>2. Promising(f)'
      BY <1>3, <1>6, <2>2, PromiseStays
    <3>3. Promising(g)'
      BY <1>8, <3>2 DEF Promising
    <3> QED
      BY <3>1, <3>3 DEF Served
  <2> QED
    BY <2>1, <2>2
<1>10. PICK n, new : n = Len(stack) /\ new = stack'
  OBVIOUS
<1>11. /\ n \in Nat \ {0} /\ DOMAIN stack = 1..n /\ new \in Seq(ToSet(stack) \cup {g}) /\ Len(new) = n
       /\ \A i \in 1..n : new[i] = IF i = n THEN g ELSE stack[i]
  <2>1. n \in Nat \ {0} /\ DOMAIN stack = 1..n /\ stack \in Seq(ToSet(stack) \cup {g})
    BY <1>3, <1>4, <1>10, StackParts, SeqMonotonic DEF IsStack
  <2> QED
    BY <1>3, <1>10, <2>1, ExceptSeq
<1>12. DOMAIN new = 1..n
  BY <1>11, LenProperties
<1>13. Interrupted(new, n) /\ new[n] = g
  BY <1>4, <1>10, <1>11, <1>12 DEF Prepared, Interrupted
<1>14. Prepared'
  BY <1>9, <1>10, <1>11, <1>13 DEF Prepared, Interrupted
<1> QED
  BY <1>3, <1>4, <1>7, <1>14, OthersKeep DEF OrderInv

\* A statement ends; a report may follow.
LEMMA ReturnPrepares ==
    ASSUME IInv, OrderInv, Return
    PROVE  OrderInv'
<1>1. /\ stack # <<>> /\ IsStack(stack) /\ Prepared
      /\ UNCHANGED <<scopePrefixes, domainPrefixes, caller, last>>
  BY DEF IInv, Typed, OrderInv, Return, history
<1>2. PICK more : stack' = Front(stack) \/ Begin(Front(stack), Following(more))
  BY DEF Return
<1>3. ASSUME stack' = Front(stack)
      PROVE  Prepared'
  BY <1>1, <1>3, FrontPrepares
<1>4. ASSUME Begin(Front(stack), Following(more))
      PROVE  Prepared'
  <2>1. PICK f : f = Following(more)
    OBVIOUS
  <2>2. PICK top : top = stack[Len(stack)]
    OBVIOUS
  <2>3. f.by = top.by /\ f.disturbed = top.disturbed /\ Promising(f)'
    BY <2>1, <2>2, FollowingPromises DEF Top, Last
  <2>4. Served(top)
    BY <1>1, <2>2 DEF Prepared
  <2>5. f.disturbed # TRUE => caller' = f.by /\ Promising(f)'
    BY <1>1, <2>3, <2>4 DEF Served
  <2>6. IsStack(Front(stack))
    BY <1>1, FrontKeeps
  <2> QED
    BY <1>4, <2>1, <2>5, <2>6, BeginPrepares
<1>5. Prepared'
  BY <1>2, <1>3, <1>4
<1> QED
  BY <1>1, <1>5, OthersKeep DEF OrderInv

\* Setting and removing prefixes of scopes: those of no thread keep at most one.
LEMMA ScopePrefixPrepares ==
    ASSUME IInv, OrderInv, NEW s \in Scopes, NEW t \in Threads, SetPrefix(s, t) \/ RemovePrefix(s, t)
    PROVE  OrderInv'
<1>1. UNCHANGED last /\ scopePrefixes \in [Scopes -> Seq(Nat)] /\ OneEach /\ PrefixesInOrder
  BY DEF SetPrefix, RemovePrefix, history, IInv, Typed, OrderInv
<1>2. Prepared'
  <2>1. PICK drop : Outside(t) /\ Reported(t, drop, 0)
    BY DEF SetPrefix, RemovePrefix
  <2> QED
    BY <2>1, ReportPrepares
<1>3. CASE SetPrefix(s, t)
  <2>1. \A q \in Scopes : scopePrefixes'[q] =
            IF q # s THEN scopePrefixes[q]
            ELSE IF KeepsAll(s) THEN Append(scopePrefixes[s], Number) ELSE <<Number>>
    BY <1>1, <1>3 DEF SetPrefix
  <2>2. ASSUME NEW q \in Scopes, ~KeepsAll(q)
        PROVE  Len(scopePrefixes'[q]) <= 1
    <3>1. CASE q = s
      <4>1. scopePrefixes'[q] = <<Number>>
        BY <2>1, <2>2, <3>1
      <4>2. Len(<<Number>>) = 1
        OBVIOUS
      <4> QED
        BY <4>1, <4>2
    <3>2. CASE q # s
      BY <1>1, <2>1, <2>2, <3>2 DEF OneEach
    <3> QED
      BY <3>1, <3>2
  <2>3. OneEach'
    BY <2>2 DEF OneEach, KeepsAll
  <2> QED
    BY <1>1, <1>2, <2>3, OthersKeep DEF OrderInv
<1>4. CASE RemovePrefix(s, t)
  <2>1. CASE scopePrefixes[s] = <<>>
    <3>1. UNCHANGED scopePrefixes
      BY <1>4, <2>1 DEF RemovePrefix
    <3> QED
      BY <1>1, <1>2, <3>1, OthersKeep DEF OrderInv
  <2>2. CASE scopePrefixes[s] # <<>>
    <3>1. PICK list, rest : list = scopePrefixes[s] /\ rest = Front(scopePrefixes[s])
      OBVIOUS
    <3>2. /\ list \in Seq(Nat) /\ rest \in Seq(Nat) /\ Len(list) \in Nat \ {0}
          /\ DOMAIN rest = 1..Len(list) - 1
      BY <1>1, <2>2, <3>1, FrontLeaves
    <3>3. Len(rest) <= Len(list)
      <4>1. Len(rest) \in Nat /\ DOMAIN rest = 1..Len(rest)
        BY <3>2, LenProperties
      <4>2. \A k, m \in Nat : 1..k = 1..m => k = m
        OBVIOUS
      <4>3. PICK m \in Nat : m = Len(list) - 1
        BY <3>2
      <4>4. Len(rest) = m
        BY <3>2, <4>1, <4>2, <4>3
      <4> QED
        BY <3>2, <4>3, <4>4
    <3>4. \A q \in Scopes : scopePrefixes'[q] = IF q = s THEN rest ELSE scopePrefixes[q]
      BY <1>1, <1>4, <2>2, <3>1 DEF RemovePrefix
    <3>5. ASSUME NEW q \in Scopes, ~KeepsAll(q)
          PROVE  Len(scopePrefixes'[q]) <= 1
      <4>1. CASE q = s
        <5>1. Len(list) <= 1 /\ Len(rest) \in Nat
          BY <1>1, <3>1, <3>2, <3>5, <4>1, LenProperties DEF OneEach
        <5> QED
          BY <3>2, <3>3, <3>4, <4>1, <5>1
      <4>2. CASE q # s
        BY <1>1, <3>4, <3>5, <4>2 DEF OneEach
      <4> QED
        BY <4>1, <4>2
    <3>6. OneEach'
      BY <3>5 DEF OneEach, KeepsAll
    <3> QED
      BY <1>1, <1>2, <3>6, OthersKeep DEF OrderInv
  <2> QED
    BY <2>1, <2>2
<1> QED
  BY <1>3, <1>4

\* The calls that set nothing for scopes, and report.
LEMMA OtherReportsPrepare ==
    ASSUME OrderInv, NEW t, Outside(t), UNCHANGED <<scopePrefixes, last>>,
           NEW drop, NEW more, Reported(t, drop, more)
    PROVE  OrderInv'
BY ReportPrepares, OthersKeep DEF OrderInv

\* Reset leaves no prefixes of scopes, and starts no statement.
LEMMA ResetPrepares ==
    ASSUME OrderInv, NEW t, Reset(t)
    PROVE  OrderInv'
<1>1. stack = <<>> /\ stack' = <<>> /\ last' = last /\ scopePrefixes' = [s \in Scopes |-> <<>>]
  BY DEF Reset, Outside
<1>2. Len(<<>>) = 0 /\ DOMAIN <<>> = {}
  BY EmptySeq
<1>3. OneEach'
  BY <1>1, <1>2 DEF OneEach
<1>4. Prepared'
  BY <1>1, <1>2 DEF Prepared, Interrupted
<1> QED
  BY <1>1, <1>3, <1>4, OthersKeep DEF OrderInv

\* At the start nothing is set, and nothing is delivered.
LEMMA InitOrder == Init => OrderInv
<1> SUFFICES ASSUME Init
             PROVE  OrderInv
  OBVIOUS
<1>1. stack = <<>> /\ last = <<>> /\ scopePrefixes = [s \in Scopes |-> <<>>]
  BY DEF Init
<1>2. Len(<<>>) = 0 /\ DOMAIN <<>> = {}
  BY EmptySeq
<1> QED
  BY <1>1, <1>2 DEF OrderInv, OneEach, Prepared, Interrupted, PrefixesInOrder

\* Every step keeps the order.
LEMMA NextOrder == IInv /\ OrderInv /\ [Next]_vars => OrderInv'
<1> SUFFICES ASSUME IInv, OrderInv, [Next]_vars
             PROVE  OrderInv'
  OBVIOUS
<1>1. CASE Deliver
  BY <1>1, DeliverInOrder
<1>2. CASE Return
  BY <1>2, ReturnPrepares
<1>3. ASSUME NEW t \in Threads, Reset(t)
      PROVE  OrderInv'
  BY <1>3, ResetPrepares
<1>4. ASSUME NEW t \in Threads, NEW d \in Domains, Entry(d, t)
      PROVE  OrderInv'
  BY <1>4, EntryPrepares
<1>5. ASSUME NEW t \in Threads, NEW s \in Scopes, SetPrefix(s, t) \/ RemovePrefix(s, t)
      PROVE  OrderInv'
  BY <1>5, ScopePrefixPrepares
<1>6. ASSUME NEW t \in Threads, NEW d \in Domains,
             \/ \E exclude \in BOOLEAN : SetDomainPrefix(d, exclude, t)
             \/ RemoveDomainPrefix(d, t)
      PROVE  OrderInv'
  <2>1. Outside(t) /\ UNCHANGED <<scopePrefixes, last>> /\ Reported(t, {}, 0)
    BY <1>6 DEF SetDomainPrefix, RemoveDomainPrefix, history
  <2> QED
    BY <2>1, OtherReportsPrepare
<1>7. ASSUME NEW t \in Threads, NEW c \in OnceCalls, Once(c, t)
      PROVE  OrderInv'
  BY <1>7, OncePrepares
<1>8. ASSUME NEW t \in Threads, NEW k \in DataKeys,
             \/ \E data \in {Number} \cup Stored(k) : Store(k, data, t)
             \/ Delete(k, t) \/ Retrieve(k, t)
      PROVE  OrderInv'
  <2>1. PICK more : Outside(t) /\ UNCHANGED <<scopePrefixes, last>> /\ Reported(t, {}, more)
    BY <1>8 DEF Store, Delete, Retrieve, history
  <2> QED
    BY <2>1, OtherReportsPrepare
<1>9. CASE UNCHANGED vars
  <2>1. UNCHANGED <<stack, caller, tmpLogables, scopePrefixes, domainPrefixes, last>>
    BY <1>9 DEF vars, stores, history
  <2>2. ASSUME NEW f, Served(f)
        PROVE  Served(f)'
    <3>1. Promising(f) => Promising(f)'
      BY <2>1, PromiseStays
    <3> QED
      BY <2>1, <2>2, <3>1 DEF Served
  <2>3. Prepared'
    BY <2>1, <2>2 DEF OrderInv, Prepared, Interrupted
  <2> QED
    BY <2>1, <2>3, OthersKeep DEF OrderInv
<1> QED
  BY <1>1, <1>2, <1>3, <1>4, <1>5, <1>6, <1>7, <1>8, <1>9 DEF Next

\* A statement that no other one interrupts gets its loggers its logable, the prefixes that the
\* interface promises in the promised order, and its caller.
THEOREM PrefixesAlwaysInOrder == Spec => []PrefixesInOrder
<1>1. Spec => []IInv
  BY InitIInv, NextIInv, PTL DEF Spec
<1>2. Spec => []OrderInv
  BY <1>1, InitOrder, NextOrder, PTL DEF Spec
<1>3. OrderInv => PrefixesInOrder
  BY DEF OrderInv
<1> QED
  BY <1>2, <1>3, PTL
=============================================================================
