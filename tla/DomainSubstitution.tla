-------------------------- MODULE DomainSubstitution --------------------------
(***************************************************************************)
(* From a log statement to its domain: Lox::evaluateResultDomain and       *)
(* Lox::findDomain, with the rules that Lox::SetDomainSubstitutionRule     *)
(* keeps (alox/lox.cpp).                                                   *)
(*                                                                         *)
(* A path is a sequence of letters and separators. findDomain creates the  *)
(* domains of the path one by one and reports each of them in the tree of  *)
(* internal domains, which is findDomain again: `stack' holds the calls.   *)
(***************************************************************************)
EXTENDS Integers, SequencesExt

CONSTANTS Fold,             \* Fold[c]: what DomainSensitivity compares of letter c
          SearchPaths,      \* the rules' [type, search] that may be asked for
          Replacements,     \* and what they may be replaced by
          Requests,         \* log statements: [path, inner, outer], the path they give and
                            \* the scope domains that a walk finds before and after it
          Report,           \* the name of the internal domain of all reports, "DMN"
          MaxSubstitutions, \* passes per call (ten in the code)
          MaxCalls          \* bound: calls from outside

ASSUME BoundsAssumption == MaxSubstitutions \in Nat \ {0} /\ MaxCalls \in Nat

Sep     == "/"
Trees   == {"main", "internal"}
Types   == {"Exact", "StartsWith", "EndsWith", "Substring"}
Letters == DOMAIN Fold
Paths   == Seq(Letters)

ASSUME PathsAssumption ==
    /\ {Sep, "$"} \subseteq Letters
    /\ Report \in Paths
    /\ SearchPaths \subseteq [type : Types, search : Paths]
    /\ Replacements \subseteq Paths
    /\ Requests \subseteq [path : Paths, inner : Seq(Paths), outer : Seq(Paths)]

VARIABLES
    rules,     \* domainSubstitutions
    warned,    \* oneTimeWarningCircularDS
    domains,   \* domains[tree]: the domains, each as the sequence of its names
    stack,     \* the calls of findDomain, the innermost one last
    last,      \* history: what the last call returned, and its budget
    calls      \* history: calls from outside

vars == <<rules, warned, domains, stack, last, calls>>

-----------------------------------------------------------------------------
(***************************************************************************)
(* Paths and names.                                                        *)
(***************************************************************************)
Same(p, q)   == /\ Len(p) = Len(q)
                /\ \A i \in DOMAIN p : Fold[p[i]] = Fold[q[i]]
SameNames(m, n) == Len(m) = Len(n) /\ \A i \in DOMAIN m : Same(m[i], n[i])

\* The names of a path; a separator at the start or at the end means nothing.
Names(p) ==
    LET end(i) == CHOOSE e \in i..Len(p) :
                     /\ \A j \in i..e : p[j] # Sep
                     /\ e < Len(p) => p[e + 1] = Sep
        from[i \in 1..Len(p) + 2] ==
          IF i > Len(p) THEN <<>>
          ELSE IF p[i] = Sep THEN from[i + 1]
          ELSE <<SubSeq(p, i, end(i))>> \o from[end(i) + 1]
    IN  from[1]

\* Domain::FullPath: the name of the internal root precedes the first separator.
FullPath(tree, names) ==
    LET path[i \in 0..Len(names)] ==
          IF i = 0 THEN <<>>
          ELSE path[i - 1] \o (IF i = 1 THEN <<>> ELSE <<Sep>>) \o names[i]
    IN  (IF tree = "main" THEN <<Sep>> ELSE <<"$", Sep>>) \o path[Len(names)]

\* Mutant: the search minds the case, which Domain::Find must not.
FoundExactly(tree, names) ==
    IF names = <<>> THEN {<<>>} ELSE {d \in domains[tree] : d = names}

\* The domain of a tree that is found for names, and what is missing of it.
Found(tree, names) ==
    IF names = <<>> THEN {<<>>} ELSE {d \in domains[tree] : SameNames(d, names)}

KnownPrefix(tree, names) ==
    CHOOSE n \in 0..Len(names) :
        /\ Found(tree, SubSeq(names, 1, n)) # {}
        /\ n < Len(names) => Found(tree, SubSeq(names, 1, n + 1)) = {}

\* The domain that Find creates: the first one missing.
FirstMissing(tree, names) ==
    LET n == KnownPrefix(tree, names)
        parent == CHOOSE d \in Found(tree, SubSeq(names, 1, n)) : TRUE
    IN  Append(parent, names[n + 1])

-----------------------------------------------------------------------------
(***************************************************************************)
(* One rule. An exact rule minds the letter case, all others do what       *)
(* DomainSensitivity says.                                                 *)
(***************************************************************************)
Occurs(s, p, at) == at + Len(s) - 1 <= Len(p) /\ Same(SubSeq(p, at, at + Len(s) - 1), s)

\* Where the rule's search string is found in p; 0 if it is not.
Place(rule, p) ==
    LET s   == rule.search
        end == Len(p) - Len(s) + 1
        all == {at \in 1..Len(p) : Occurs(s, p, at)}
    IN  CASE rule.type = "Exact"      -> IF p = s THEN 1 ELSE 0
          [] rule.type = "StartsWith" -> IF 1 \in all THEN 1 ELSE 0
          [] rule.type = "EndsWith"   -> IF end \in all THEN end ELSE 0
          [] rule.type = "Substring"  ->
                IF all = {} THEN 0 ELSE CHOOSE at \in all : \A x \in all : at <= x

Matches(rule, p) == Place(rule, p) # 0

Replaced(rule, p) ==
    LET at == Place(rule, p)
    IN  SubSeq(p, 1, at - 1) \o rule.replacement \o SubSeq(p, at + Len(rule.search), Len(p))

-----------------------------------------------------------------------------
(***************************************************************************)
(* SetDomainSubstitutionRule.                                              *)
(***************************************************************************)
Call(tree, path) == [tree |-> tree, names |-> Names(path), at |-> "find",
                     subst |-> <<>>, left |-> MaxSubstitutions,
                     next |-> 1, hit |-> FALSE]

Reporting == Call("internal", Report)

\* The constructor of a rule empties the search string of one that is illegal.
Legal(new) ==
    /\ new.search # <<>>
    /\ new.type \in {"Exact", "StartsWith"} => Head(new.search) = Sep
    /\ new.type = "EndsWith" => Last(new.search) # Sep

Existing(new) == {i \in DOMAIN rules : rules[i].type = new.type /\ rules[i].search = new.search}

StoredRule(new, replacement) ==
    LET old == Existing(new)
        rule == [type |-> new.type, search |-> new.search, replacement |-> replacement]
    IN  IF ~Legal(new) \/ (replacement = <<>> /\ old = {}) THEN rules
        ELSE IF replacement = <<>> THEN RemoveAt(rules, CHOOSE i \in old : TRUE)
        ELSE IF old = {} THEN Append(rules, rule)
        ELSE [rules EXCEPT ![CHOOSE i \in old : TRUE] = rule]

Outside == stack = <<>> /\ calls < MaxCalls /\ calls' = calls + 1

SetDomainSubstitutionRule(new, replacement) ==
    /\ Outside
    /\ rules' = StoredRule(new, replacement)
    /\ stack' = <<Reporting>>
    /\ last' = <<>>
    /\ UNCHANGED <<warned, domains>>

\* An empty path removes all rules and arms the warning again.
ClearRules ==
    /\ Outside
    /\ rules' = <<>> /\ warned' = FALSE
    /\ stack' = <<Reporting>>
    /\ last' = <<>>
    /\ UNCHANGED domains

-----------------------------------------------------------------------------
(***************************************************************************)
(* evaluateResultDomain: a path that starts with "$/" is one of the        *)
(* internal tree. Otherwise every value that the walk finds goes in front, *)
(* until the result is absolute.                                           *)
(***************************************************************************)
Internal(path) == Len(path) >= 2 /\ path[1] = "$" /\ path[2] = Sep

Resolved(request) ==
    LET walk == request.inner \o (IF request.path = <<>> THEN <<>> ELSE <<request.path>>)
                              \o request.outer
        result[i \in 0..Len(walk)] ==
            IF i = 0 THEN <<>>
            ELSE LET before == result[i - 1]
                 IN  IF before = <<>> THEN walk[i]
                     ELSE IF Head(before) = Sep THEN before
                     ELSE walk[i] \o <<Sep>> \o before
    IN  result[Len(walk)]

Entry(request) ==
    /\ Outside
    /\ stack' = <<IF Internal(request.path)
                  THEN Call("internal", SubSeq(request.path, 3, Len(request.path)))
                  ELSE Call("main", Resolved(request))>>
    /\ UNCHANGED <<rules, warned, domains, last>>

-----------------------------------------------------------------------------
(***************************************************************************)
(* findDomain.                                                             *)
(***************************************************************************)

Top       == Last(stack)
Wanted    == Top.names
Domain    == CHOOSE d \in Found(Top.tree, Wanted) : TRUE
WithTop(f) == [stack EXCEPT ![Len(stack)] = f]

Return == /\ stack' = Front(stack)
          /\ last' = <<[full |-> FullPath(Top.tree, Domain), left |-> Top.left]>>

\* One more domain is created and reported.
CreateDomain ==
    /\ stack # <<>> /\ Top.at = "find" /\ Found(Top.tree, Wanted) = {}
    /\ domains' = [domains EXCEPT ![Top.tree] = @ \cup {FirstMissing(Top.tree, Wanted)}]
    /\ stack' = Append(stack, Reporting)
    /\ UNCHANGED <<rules, warned, last, calls>>

\* Mutant: what was substituted once is returned without a further look at the rules.
DomainFoundOnce ==
    /\ stack # <<>> /\ Top.at = "find" /\ Found(Top.tree, Wanted) # {}
    /\ IF rules = <<>> \/ Top.subst # <<>> THEN Return
       ELSE /\ stack' = WithTop([Top EXCEPT !.at = "pass", !.subst = <<>>])
            /\ UNCHANGED last
    /\ UNCHANGED <<rules, warned, domains, calls>>

\* All domains are there: without rules this is it.
DomainFound ==
    /\ stack # <<>> /\ Top.at = "find" /\ Found(Top.tree, Wanted) # {}
    /\ IF rules = <<>> THEN Return
       ELSE /\ stack' = WithTop([Top EXCEPT !.at = "pass", !.subst = <<>>])
            /\ UNCHANGED last
    /\ UNCHANGED <<rules, warned, domains, calls>>

\* while( maxSubstitutions-- > 0 ): one pass over the rules in the order of their
\* definition, each of which sees what those before it made of the path.
StartPass ==
    /\ stack # <<>> /\ Top.at = "pass" /\ Top.left > 0
    /\ stack' = WithTop([Top EXCEPT !.left = @ - 1, !.at = "rules", !.next = 1, !.hit = FALSE])
    /\ UNCHANGED <<rules, warned, domains, last, calls>>

Substituted == IF Top.subst = <<>> THEN FullPath(Top.tree, Domain) ELSE Top.subst

ApplyRule ==
    /\ stack # <<>> /\ Top.at = "rules" /\ Top.next <= Len(rules)
    /\ \E path \in {Substituted} :
         stack' = WithTop(IF Matches(rules[Top.next], path)
                          THEN [Top EXCEPT !.subst = Replaced(rules[Top.next], path),
                                           !.hit = TRUE, !.next = @ + 1]
                          ELSE [Top EXCEPT !.next = @ + 1])
    /\ UNCHANGED <<rules, warned, domains, last, calls>>

\* A pass in which no rule matched is the last one.
EndPass ==
    /\ stack # <<>> /\ Top.at = "rules" /\ Top.next > Len(rules)
    /\ stack' = WithTop([Top EXCEPT !.at = IF Top.hit THEN "pass" ELSE "passed"])
    /\ UNCHANGED <<rules, warned, domains, last, calls>>

BudgetSpent ==
    /\ stack # <<>> /\ Top.at = "pass" /\ Top.left <= 0
    /\ stack' = WithTop([Top EXCEPT !.left = @ - 1, !.at = "passed"])
    /\ UNCHANGED <<rules, warned, domains, last, calls>>

\* Mutant: a budget that is overdrawn is no budget that is spent.
LimitExactly == Top.left = 0

\* "too many substitutions?"
LimitReached == Top.left <= 0

\* The limit was reached: reported once.
WarnCircular ==
    /\ stack # <<>> /\ Top.at = "passed" /\ LimitReached /\ ~warned
    /\ warned' = TRUE
    /\ stack' = Append(stack, Reporting)
    /\ UNCHANGED <<rules, domains, last, calls>>

\* Mutant: every return to the start brings a new budget.
StartAgainAfresh ==
    /\ stack # <<>> /\ Top.at = "passed" /\ (LimitReached => warned) /\ Top.subst # <<>>
    /\ stack' = WithTop([Top EXCEPT !.names = Names(Top.subst), !.at = "find", !.left = MaxSubstitutions])
    /\ UNCHANGED <<rules, warned, domains, last, calls>>

\* What was substituted is looked up with what is left of the budget.
StartAgain ==
    /\ stack # <<>> /\ Top.at = "passed" /\ (LimitReached => warned) /\ Top.subst # <<>>
    /\ stack' = WithTop([Top EXCEPT !.names = Names(Top.subst), !.at = "find"])
    /\ UNCHANGED <<rules, warned, domains, last, calls>>

NothingSubstituted ==
    /\ stack # <<>> /\ Top.at = "passed" /\ (LimitReached => warned) /\ Top.subst = <<>>
    /\ Return
    /\ UNCHANGED <<rules, warned, domains, calls>>

Init == /\ rules = <<>> /\ warned = FALSE
        /\ domains = [tree \in Trees |-> IF tree = "main" THEN {} ELSE {<<Report>>}]
        /\ stack = <<>> /\ last = <<>> /\ calls = 0

Requesting == \/ ClearRules
              \/ \E request \in Requests : Entry(request)
              \/ \E new \in SearchPaths, replacement \in Replacements \cup {<<>>} :
                    SetDomainSubstitutionRule(new, replacement)

Working == \/ CreateDomain \/ DomainFound \/ StartPass \/ ApplyRule \/ EndPass
           \/ BudgetSpent \/ WarnCircular \/ StartAgain \/ NothingSubstituted

Next == Requesting \/ Working

\* A call goes on until it returns; nobody has to call.
Spec == Init /\ [][Next]_vars /\ WF_vars(Working)

-----------------------------------------------------------------------------
(***************************************************************************)
(* No domain exists twice, whatever the spelling, in whichever of the      *)
(* nested calls it was created, and every domain has its parent            *)
(* (findDomain lets Find create one and reports before it goes on).        *)
(***************************************************************************)
TreesSound ==
    \A tree \in Trees : \A d \in domains[tree] :
        /\ d # <<>>
        /\ Len(d) > 1 => Front(d) \in domains[tree]
        /\ \A e \in domains[tree] : SameNames(d, e) => d = e

(***************************************************************************)
(* "ALox repeats the application of all rules as long as at least one of   *)
(* the rules matched": while there is budget left, no rule matches the     *)
(* domain that findDomain returns, even if the rule's replacement was      *)
(* relative or was normalised when the domain was looked up.               *)
(***************************************************************************)
ReturnedIsFixpoint ==
    \A i \in DOMAIN last : last[i].left > 0 =>
        \A j \in DOMAIN rules : ~Matches(rules[j], last[i].full)

(***************************************************************************)
(* A call that gave up substituting has told so since the rules were       *)
(* cleared last: the error is never lost to another, nested call.          *)
(***************************************************************************)
GivingUpIsReported ==
    \A i \in DOMAIN last : (\E j \in DOMAIN rules : Matches(rules[j], last[i].full)) => warned

(***************************************************************************)
(* Rules that rewrite into each other, or paths of internal domains that   *)
(* are rewritten while the creation of a domain is reported: findDomain    *)
(* always returns.                                                         *)
(***************************************************************************)
EveryCallReturns == stack # <<>> ~> stack = <<>>
=============================================================================
