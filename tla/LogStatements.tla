----------------------------- MODULE LogStatements -----------------------------
(***************************************************************************)
(* What a Lox does for a log statement once its domain is known, and what  *)
(* it keeps for statements to come (alox/lox.cpp): Entry and log, with the *)
(* prefixes of scopes and domains; Once, with its counters; Store and      *)
(* Retrieve of log data; Reset.                                            *)
(*                                                                         *)
(* A statement is delivered to one logger after the other. A logger, or    *)
(* the conversion of an object that it logs, may use the Lox again: `stack' *)
(* holds the statements being delivered. The calls come from threads that  *)
(* have acquired the Lox; how the stores of scopes work is ScopeStore.     *)
(***************************************************************************)
EXTENDS Integers, SequencesExt

CONSTANTS Threads,
          ParentOf,    \* ParentOf[d]: the parent of domain d, NoDomain of a root
          NoDomain,
          Internal,    \* the internal domain that reports are logged to
          LoggersOf,   \* LoggersOf[d]: how many loggers are active for statements of d
          OnceCalls,   \* the calls of Once: [scope, file, line, group, quantity, dom]
          NoGroup,     \* no group, or key, given
          DataKeys,    \* the [scope, key] of log data
          Clients,     \* what a client does -> how many calls it makes (a bound)
          MaxNesting   \* bound: statements within statements

ASSUME ConstantsAssumption ==
    /\ NoDomain \notin DOMAIN ParentOf /\ Internal \in DOMAIN ParentOf
    /\ MaxNesting \in Nat
    /\ \A c \in DOMAIN Clients : Clients[c] \in Nat

\* The domains are trees: each one is deeper than its parent.
ASSUME DomainsAssumption ==
    /\ IsFiniteSet(DOMAIN ParentOf)
    /\ \E depth \in [DOMAIN ParentOf -> 0..Cardinality(DOMAIN ParentOf)] :
          \A d \in DOMAIN ParentOf : ParentOf[d] # NoDomain =>
              ParentOf[d] \in DOMAIN ParentOf /\ depth[ParentOf[d]] < depth[d]

\* Calls of Once for other scopes than the global one and the file's are left out. No group
\* is named like the key of a line.
ASSUME OnceAssumption ==
    \A c \in OnceCalls :
        /\ c.scope \in {"Global", "Filename"} /\ c.quantity \in Int /\ c.dom \in DOMAIN ParentOf
        /\ NoGroup # c.line /\ \A e \in OnceCalls : e.group # c.line

VARIABLES
    attached,        \* whether the Lox has loggers
    scopePrefixes,   \* scopePrefixes[s]: the prefixes of scope s, the oldest first
    domainPrefixes,  \* PrefixLogables of each domain
    counters,        \* scopeLogOnce: a counter for each scope and group in use
    logData,         \* scopeLogData: an object for each scope and key in use
    dataMaps,        \* the scopes that have a map of log data
    live,            \* the objects that the Lox owns and has not deleted
    tmpLogables,     \* the one list of logables that is passed to the loggers
    caller,          \* scopeInfo: the call whose place in the code is logged
    stack,           \* the statements being delivered, the innermost one last
    last,            \* history: what the last logger got
    asked,           \* history: how often Once was called for the same thing,
    executed,        \*          and how often that was logged
    client, calls    \* what the client does, and the calls it has left

stores  == <<scopePrefixes, domainPrefixes, counters, logData, dataMaps, live>>
history == <<last, asked, executed>>
vars    == <<attached, stores, tmpLogables, caller, stack, history, client, calls>>

Domains == DOMAIN ParentOf
Roots   == {d \in Domains : ParentOf[d] = NoDomain}
Scopes  == {<<"global">>, <<"code">>} \cup ({"outer", "inner"} \X Threads)

\* Scopes of threads keep any number of prefixes, all others one.
KeepsAll(s) == Len(s) = 2

\* A call's number is also the name of what it logs, sets or stores.
Number == calls
Report == 0

-----------------------------------------------------------------------------
(***************************************************************************)
(* The list of logables: the walk's values, from the innermost scope to    *)
(* the outermost one, are each inserted at the front. When it comes to the *)
(* logable itself, the prefixes of its domain and of the parents follow,   *)
(* unless one of them excludes all others.                                 *)
(***************************************************************************)
DomainWalk(dom) ==
    LET walk[d \in Domains \cup {NoDomain}] ==
          IF d = NoDomain THEN <<>> ELSE Reverse(domainPrefixes[d]) \o walk[ParentOf[d]]
    IN  walk[dom]

Collected(id, dom, t) ==
    LET inner == Reverse(scopePrefixes[<<"inner", t>>])
        walk  == inner \o <<id>> \o scopePrefixes[<<"code">>]
                       \o Reverse(scopePrefixes[<<"outer", t>>]) \o scopePrefixes[<<"global">>]
        ofDomain == DomainWalk(dom)
        \* the list after the first i values of the domains
        domains[i \in 0..Len(ofDomain)] ==
          IF i = 0 THEN Reverse(inner \o <<id>>) ELSE <<ofDomain[i].id>> \o domains[i - 1]
        excluding == {i \in DOMAIN ofDomain : ofDomain[i].exclude}
        first == CHOOSE i \in excluding : \A j \in excluding : i <= j
        outer == Reverse(SubSeq(walk, Len(inner) + 2, Len(walk)))
    IN  IF excluding = {} THEN outer \o domains[Len(ofDomain)]
        ELSE SubSeq(domains[first], 1, Len(domains[first]) - Len(inner))

-----------------------------------------------------------------------------
(***************************************************************************)
(* What the interface promises: the order of the manual (Man.07, section   *)
(* 3), what is set for outer scopes, for the parents of the domain, for    *)
(* the domain, and after the logable what is set for the inner thread;     *)
(* and, if a prefix of a domain excludes others, what SetPrefix says of it *)
(* (lox.hpp:870): all that is set for scopes, the inner thread included,   *)
(* is ignored. (By the manual, such a prefix ends the collection, which    *)
(* begins with the inner thread: what is set there would remain.)          *)
(***************************************************************************)
OfDomains(dom) ==
    LET path[d \in Domains \cup {NoDomain}] ==
          IF d = NoDomain THEN <<>> ELSE path[ParentOf[d]] \o domainPrefixes[d]
    IN  path[dom]
Ids(prefixes)   == [i \in DOMAIN prefixes |-> prefixes[i].id]
Excluding(prefix) == prefix.exclude

Promised(id, dom, t) ==
    LET own == OfDomains(dom)
        first == SelectLastInSeq(own, Excluding)
    IN  IF first # 0 THEN Ids(SubSeq(own, first, Len(own))) \o <<id>>
        ELSE scopePrefixes[<<"global">>] \o scopePrefixes[<<"outer", t>>]
               \o scopePrefixes[<<"code">>] \o Ids(own) \o <<id>> \o scopePrefixes[<<"inner", t>>]

-----------------------------------------------------------------------------
(***************************************************************************)
(* Statements.                                                             *)
(***************************************************************************)
Loggers(dom) == IF attached THEN LoggersOf[dom] ELSE 0

Top        == Last(stack)
WithTop(f) == [stack EXCEPT ![Len(stack)] = f]

Statement(dom, t) ==
    [by |-> Number, id |-> Number, dom |-> dom, thread |-> t, prefixes |-> TRUE, next |-> 1,
     once |-> <<>>,      \* the counter and the limit that a call of Once waits with
     reports |-> 0,      \* how many reports follow
     drop |-> {},        \* what is deleted when the report is delivered
     disturbed |-> FALSE, promised |-> Promised(Number, dom, t)]

\* logInternal: a report of call n, logged without prefixes.
ReportOf(n, t, drop, more) ==
    [by |-> n, id |-> Report, dom |-> Internal, thread |-> t, prefixes |-> FALSE, next |-> 1,
     once |-> <<>>, reports |-> more, drop |-> drop,
     disturbed |-> FALSE, promised |-> <<Report>>]

\* History: the statements that another call interrupts.
Disturbed(frames) == [i \in DOMAIN frames |-> [frames[i] EXCEPT !.disturbed = TRUE]]

\* Mutant: the list is left as the statement before has filled it.
BeginWithRest(below, frame) ==
    /\ stack' = Append(Disturbed(below), frame)
    /\ UNCHANGED tmpLogables

\* Lox::log starts: the list of logables is cleared, whoever it was filled for.
Begin(below, frame) ==
    /\ stack' = Append(Disturbed(below), frame)
    /\ tmpLogables' = <<>>

\* A call of thread t: from outside, or from a logger that was just called. The
\* place of the call in the code becomes the Lox's caller.
Calling(t) ==
    /\ calls > 0 /\ calls' = calls - 1
    /\ \/ stack = <<>>
       \/ stack # <<>> /\ Len(stack) <= MaxNesting /\ Top.next > 1 /\ Top.thread = t
    /\ caller' = Number
    /\ UNCHANGED client

\* Without any logger a statement ends before anything is evaluated.
Entry(dom, t) ==
    /\ Calling(t)
    /\ IF attached THEN Begin(stack, Statement(dom, t))
       ELSE stack' = Disturbed(stack) /\ UNCHANGED tmpLogables
    /\ UNCHANGED <<attached, stores, history>>

\* The next active logger gets the list, which is collected for the first of them.
Deliver ==
    /\ stack # <<>> /\ Top.next <= Loggers(Top.dom)
    /\ tmpLogables' = IF tmpLogables # <<>> THEN tmpLogables
                      ELSE IF Top.prefixes THEN Collected(Top.id, Top.dom, Top.thread)
                      ELSE <<Top.id>>
    /\ stack' = WithTop([Top EXCEPT !.next = @ + 1])
    /\ last' = <<[got |-> tmpLogables', caller |-> caller, to |-> Top]>>
    /\ UNCHANGED <<attached, stores, caller, asked, executed, client, calls>>

\* Once's limit was reached by the counter as it is now, after the delivery.
LimitReached(frame) == \E i \in DOMAIN frame.once : counters[frame.once[i][1]] = frame.once[i][2]

\* A report after the one, or the statement, that is through.
Following(more) ==
    [ReportOf(Top.by, Top.thread, {}, more) EXCEPT !.disturbed = Top.disturbed]

\* All loggers are through. What has to be reported follows.
Return ==
    /\ stack # <<>> /\ Top.next > Loggers(Top.dom)
    /\ IF LimitReached(Top)     THEN Begin(Front(stack), Following(0))
       ELSE IF Top.reports > 0  THEN Begin(Front(stack), Following(Top.reports - 1))
       ELSE stack' = Front(stack) /\ UNCHANGED tmpLogables
    /\ live' = live \ Top.drop
    /\ UNCHANGED <<attached, scopePrefixes, domainPrefixes, counters, logData, dataMaps, caller, history,
                   client, calls>>

-----------------------------------------------------------------------------
(***************************************************************************)
(* Setting and removing prefixes. The previous prefix of a scope is        *)
(* deleted when its replacement or removal is reported.                    *)
(***************************************************************************)
Outside(t) == stack = <<>> /\ Calling(t)

Reported(t, drop, more) == Begin(<<>>, ReportOf(Number, t, drop, more))

SetPrefix(s, t) ==
    /\ Outside(t)
    /\ scopePrefixes' = [scopePrefixes EXCEPT ![s] = IF KeepsAll(s) THEN Append(@, Number) ELSE <<Number>>]
    /\ live' = live \cup {Number}
    /\ Reported(t, IF KeepsAll(s) THEN {} ELSE ToSet(scopePrefixes[s]), 0)
    /\ UNCHANGED <<attached, domainPrefixes, counters, logData, dataMaps, history>>

RemovePrefix(s, t) ==
    /\ Outside(t)
    /\ IF scopePrefixes[s] = <<>> THEN Reported(t, {}, 0) /\ UNCHANGED scopePrefixes
       ELSE /\ scopePrefixes' = [scopePrefixes EXCEPT ![s] = Front(@)]
            /\ Reported(t, {Last(scopePrefixes[s])}, 0)
    /\ UNCHANGED <<attached, domainPrefixes, counters, logData, dataMaps, live, history>>

SetDomainPrefix(d, exclude, t) ==
    /\ Outside(t)
    /\ domainPrefixes' = [domainPrefixes EXCEPT ![d] = Append(@, [id |-> Number, exclude |-> exclude])]
    /\ live' = live \cup {Number}
    /\ Reported(t, {}, 0)
    /\ UNCHANGED <<attached, scopePrefixes, counters, logData, dataMaps, history>>

\* Mutant: the last prefix is removed, but the first one's string is deleted.
RemoveDomainPrefixDeletingFirst(d, t) ==
    /\ Outside(t)
    /\ IF domainPrefixes[d] = <<>> THEN UNCHANGED <<domainPrefixes, live>>
       ELSE /\ domainPrefixes' = [domainPrefixes EXCEPT ![d] = Front(@)]
            /\ live' = live \ {Head(domainPrefixes[d]).id}
    /\ Reported(t, {}, 0)
    /\ UNCHANGED <<attached, scopePrefixes, counters, logData, dataMaps, history>>

RemoveDomainPrefix(d, t) ==
    /\ Outside(t)
    /\ IF domainPrefixes[d] = <<>> THEN UNCHANGED <<domainPrefixes, live>>
       ELSE /\ domainPrefixes' = [domainPrefixes EXCEPT ![d] = Front(@)]
            /\ live' = live \ {Last(domainPrefixes[d]).id}
    /\ Reported(t, {}, 0)
    /\ UNCHANGED <<attached, scopePrefixes, counters, logData, dataMaps, history>>

-----------------------------------------------------------------------------
(***************************************************************************)
(* Once. Without a group, a call for the global scope counts for its line  *)
(* of its file, any other one for its scope.                               *)
(***************************************************************************)
Place(scope, file) == IF scope = "Global" THEN <<"global">> ELSE <<"file", file>>

\* Mutant: without a group, all lines of a file share a counter.
CounterOfFile(c) ==
    IF c.group # NoGroup        THEN <<Place(c.scope, c.file), c.group>>
    ELSE IF c.scope = "Global"  THEN <<Place("Filename", c.file), NoGroup>>
    ELSE <<Place(c.scope, c.file), NoGroup>>

Counter(c) ==
    IF c.group # NoGroup        THEN <<Place(c.scope, c.file), c.group>>
    ELSE IF c.scope = "Global"  THEN <<Place("Filename", c.file), c.line>>
    ELSE <<Place(c.scope, c.file), NoGroup>>

\* What the calls of Once that share a counter have in common, by the manual.
Shared(c) ==
    [scope |-> c.scope,
     file  |-> IF c.scope = "Filename" \/ c.group = NoGroup THEN c.file ELSE NoGroup,
     line  |-> IF c.scope = "Global" /\ c.group = NoGroup THEN c.line ELSE NoGroup,
     group |-> c.group]

Value(f, x)     == IF x \in DOMAIN f THEN f[x] ELSE 0
With(f, x, n)   == [y \in DOMAIN f \cup {x} |-> IF y = x THEN n ELSE f[y]]

\* The counter is advanced before the statement is executed.
Once(c, t) ==
    LET count == Value(counters, Counter(c))
        execute == IF c.quantity >= 0 THEN count < c.quantity ELSE count % (-c.quantity) = 0
        advance == c.quantity < 0 \/ count < c.quantity
        limit   == IF c.quantity >= 0 THEN <<<<Counter(c), c.quantity>>>> ELSE <<>>
    IN  /\ Calling(t)
        /\ counters' = With(counters, Counter(c), IF advance THEN count + 1 ELSE count)
        /\ asked'    = With(asked, Shared(c), Value(asked, Shared(c)) + 1)
        /\ executed' = With(executed, Shared(c), Value(executed, Shared(c)) + IF execute THEN 1 ELSE 0)
        /\ IF execute /\ attached
           THEN Begin(stack, [Statement(c.dom, t) EXCEPT !.once = limit])
           ELSE IF execute /\ limit # <<>> /\ count + 1 = c.quantity
           THEN Begin(stack, ReportOf(Number, t, {}, 0))
           ELSE stack' = Disturbed(stack) /\ UNCHANGED tmpLogables
        /\ UNCHANGED <<attached, scopePrefixes, domainPrefixes, logData, dataMaps, live, last>>

-----------------------------------------------------------------------------
(***************************************************************************)
(* Store and Retrieve. A call may pass the object that is stored already.  *)
(***************************************************************************)
Stored(k) == {logData[x] : x \in DOMAIN logData \cap {k}}

\* What storing does to the stores.
Keep(k, data) ==
    /\ logData' = With(logData, k, data)
    /\ dataMaps' = dataMaps \cup {k.scope}
    /\ live' = (live \ Stored(k)) \cup {data}

Store(k, data, t) ==
    /\ Outside(t)
    /\ Keep(k, data)
    /\ Reported(t, {}, 0)
    /\ UNCHANGED <<attached, scopePrefixes, domainPrefixes, counters, history>>

\* The map of a scope goes with its last object; where there is nothing to
\* delete, an empty one may be left.
Delete(k, t) ==
    LET rest == DOMAIN logData \ {k}
    IN  /\ Outside(t)
        /\ logData' = [x \in rest |-> logData[x]]
        /\ dataMaps' = IF Stored(k) # {} /\ \A x \in rest : x.scope # k.scope
                       THEN dataMaps \ {k.scope} ELSE dataMaps \cup {k.scope}
        /\ live' = live \ Stored(k)
        /\ Reported(t, {}, 0)
        /\ UNCHANGED <<attached, scopePrefixes, domainPrefixes, counters, history>>

\* What is not there is created, stored and reported first.
Retrieve(k, t) ==
    /\ Outside(t)
    /\ IF Stored(k) = {} THEN Keep(k, Number) /\ Reported(t, {}, 1)
       ELSE UNCHANGED <<logData, dataMaps, live>> /\ Reported(t, {}, 0)
    /\ UNCHANGED <<attached, scopePrefixes, domainPrefixes, counters, history>>

-----------------------------------------------------------------------------
(***************************************************************************)
(* Reset: all is deleted but the prefixes of the root domains.             *)
(***************************************************************************)
Reset(t) ==
    /\ Outside(t) /\ attached
    /\ attached' = FALSE
    /\ scopePrefixes' = [s \in Scopes |-> <<>>]
    /\ domainPrefixes' = [d \in Domains |-> IF d \in Roots THEN domainPrefixes[d] ELSE <<>>]
    /\ counters' = <<>> /\ logData' = <<>> /\ dataMaps' = {}
    /\ live' = UNION {ToSet(Ids(domainPrefixes[d])) : d \in Roots}
    /\ asked' = <<>> /\ executed' = <<>>
    /\ UNCHANGED <<tmpLogables, stack, last>>

Init ==
    /\ attached = TRUE
    /\ scopePrefixes  = [s \in Scopes |-> <<>>]
    /\ domainPrefixes = [d \in Domains |-> <<>>]
    /\ counters = <<>> /\ logData = <<>> /\ dataMaps = {} /\ live = {}
    /\ tmpLogables = <<>> /\ caller = 0 /\ stack = <<>> /\ last = <<>>
    /\ asked = <<>> /\ executed = <<>>
    /\ client \in DOMAIN Clients /\ calls = Clients[client]

Next ==
    \/ Deliver \/ Return
    \/ \E t \in Threads :
        \/ Reset(t)
        \/ client # "data" /\ \E d \in Domains \ {Internal} : Entry(d, t)
        \/ client = "prefix" /\ \E s \in Scopes : SetPrefix(s, t) \/ RemovePrefix(s, t)
        \/ client = "prefix" /\ \E d \in Domains \ {Internal} :
                \/ \E exclude \in BOOLEAN : SetDomainPrefix(d, exclude, t)
                \/ RemoveDomainPrefix(d, t)
        \/ client = "once" /\ \E c \in OnceCalls : Once(c, t)
        \/ client = "data" /\ \E k \in DataKeys :
                \/ \E data \in {Number} \cup Stored(k) : Store(k, data, t)
                \/ Delete(k, t) \/ Retrieve(k, t)

Spec == Init /\ [][Next]_vars

-----------------------------------------------------------------------------
(***************************************************************************)
(* What a logger got, and for which place, was meant for it: the promised  *)
(* list and the caller of the statement.                                   *)
(***************************************************************************)
AsStated(delivery) == /\ delivery.got = delivery.to.promised
                      /\ delivery.caller = delivery.to.by

(***************************************************************************)
(* A statement that no other one interrupts reaches its loggers with its   *)
(* logable, all prefixes in the promised order and its caller, also from   *)
(* within another statement and after whatever was logged before. (One     *)
(* that is interrupted by its first logger does not: Lox::log and          *)
(* ScopeInfo::Set overwrite what the next logger gets.)                    *)
(***************************************************************************)
PrefixesInOrder ==
    \A i \in DOMAIN last : ~last[i].to.disturbed => AsStated(last[i])

(***************************************************************************)
(* Calls of Once that the manual says to count together are executed a     *)
(* given number of times or each n-th time, and independently of all       *)
(* others, even when the statement's own logger calls Once again.          *)
(***************************************************************************)
OnceExact ==
    \A c \in OnceCalls :
        (\A e \in OnceCalls : Shared(e) = Shared(c) => e.quantity = c.quantity) =>
            LET n == Value(asked, Shared(c))
            IN  Value(executed, Shared(c)) =
                  IF c.quantity >= 0 THEN IF n < c.quantity THEN n ELSE c.quantity
                  ELSE (n - c.quantity - 1) \div (-c.quantity)

(***************************************************************************)
(* The Lox owns exactly what it refers to, nothing is lost and nothing     *)
(* deleted that is still in use, through replacements, removals, storing   *)
(* the same object again, reports that still show a removed prefix, and    *)
(* Reset.                                                                  *)
(***************************************************************************)
NothingLeaked ==
    live = (UNION {ToSet(scopePrefixes[s]) : s \in Scopes})
           \cup (UNION {ToSet(Ids(domainPrefixes[d])) : d \in Domains})
           \cup {logData[k] : k \in DOMAIN logData}
           \cup (UNION {stack[i].drop : i \in DOMAIN stack})
=============================================================================
