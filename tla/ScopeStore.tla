----------------------------- MODULE ScopeStore -----------------------------
(***************************************************************************)
(* A scope store of a Lox (alox/core/scopestore.cpp) with its PathMap      *)
(* (alib/containers/pathmap.hpp), and what the Lox does with it:           *)
(* SetDomain and SetPrefix on stores with a list of values per thread,     *)
(* Once, Store and Retrieve on stores with one value per thread.           *)
(*                                                                         *)
(* Scopes in source code have a string as their key, a path, file and      *)
(* method, here a sequence of characters. The PathMap keeps each beginning *)
(* that keys have in common once: nodes are split as keys are added, at    *)
(* any character. A node has a value only if it stands for a scope.        *)
(***************************************************************************)
EXTENDS Naturals, FiniteSets, SequencesExt

CONSTANTS Characters,             \* what keys are made of
          Places,                 \* where code is: [path, file, method], sequences of characters
          Threads,
          Texts,                  \* the contents of values
          MaxPathLevel,           \* bound on the directories cut from a path
          MaxCalls                \* bound on the calls

ASSUME PlaceAssumption ==
    /\ {"/", "#"} \subseteq Characters
    /\ Places \subseteq [path : Seq(Characters), file : Seq(Characters), method : Seq(Characters)]
    /\ \A p \in Places :
          /\ p.file # <<>> /\ p.method # <<>>
          /\ \A c \in ToSet(p.file) \cup ToSet(p.method) : c \notin {"/", "#"}

ASSUME LimitsAssumption == MaxCalls \in Nat /\ MaxPathLevel \in Nat

Separators   == {"#", "/"}
CodeScopes   == {"Path", "Filename", "Method"}
ThreadScopes == {"ThreadOuter", "ThreadInner"}
Levels(s)    == IF s = "Path" THEN 0..MaxPathLevel ELSE {0}

VARIABLES nodes,        \* languageStore: nodes[n] is a PathMap [parent, path, childs, value]
          globalStore,
          threadStore,  \* threadStore[s][t]: threadInnerStore and threadOuterStore
          text,         \* text[o]: the content of object o; objects are numbered as they are made
          deleted,      \* the objects that were deleted
          cfgSingleThreadValue, \* TRUE in the stores of Once and Store, FALSE in the others
          calls         \* counts the calls

storeVars == <<nodes, globalStore, threadStore, text, deleted, cfgSingleThreadValue, calls>>

Null    == 0
Root    == 1
Objects == 1..MaxCalls
NewObject == Len(text) + 1

-----------------------------------------------------------------------------
(***************************************************************************)
(* PathMap                                                                 *)
(***************************************************************************)
\* The number of characters of node n's path that key has after its first i.
MatchedAt(n, key, i) ==
    LET path == nodes[n].path
        same(m) == m <= Len(path) /\ i + m <= Len(key) /\ path[m] = key[i + m]
    IN  CHOOSE m \in 0..Len(path) : (\A j \in 1..m : same(j)) /\ ~same(m + 1)

\* Where the descent for a key ends: at a node, with so many characters of its path matched and
\* so many of the key consumed.
Descent(key) ==
    LET from[at \in (DOMAIN nodes) \X (0..Len(key))] ==
          LET n    == at[1]
              i    == at[2]
              m    == MatchedAt(n, key, i)
              next == {c \in nodes[n].childs :
                         i + m < Len(key) /\ nodes[c].path[1] = key[i + m + 1]}
          IN  IF m < Len(nodes[n].path) \/ next = {}
                THEN [node |-> n, matched |-> m, consumed |-> i + m]
                ELSE from[<<CHOOSE c \in next : TRUE, i + m>>]
    IN  from[<<Root, 0>>]

Whole(e)      == e.matched = Len(nodes[e.node].path)
Exact(e, key) == Whole(e) /\ e.consumed = Len(key)

\* Mutant: the parent of the last node that matched, whole or not.
GetUpper(key) ==
    LET e == Descent(key)
        n == nodes[e.node]
    IN  IF Exact(e, key) \/ n.parent = 0 THEN e.node ELSE n.parent

\* PathMap::Get( key, false ): the node for the key, or one near it.
Get(key) ==
    LET e == Descent(key)
        n == nodes[e.node]
    IN  IF Exact(e, key) \/ n.parent = 0 \/ n.path[e.matched] \in Separators
          THEN e.node ELSE n.parent

NewNode(parent, path) == [parent |-> parent, path |-> path, childs |-> {}, value |-> Null]

\* Node n gets a new last child.
AddChild(forest, n, path) ==
    Append([forest EXCEPT ![n].childs = @ \cup {Len(forest) + 1}], NewNode(n, path))

\* Mutant: the value is lost.
LowerEmpty(n, m) == [nodes[n] EXCEPT !.parent = n, !.path = SubSeq(@, m + 1, Len(@)), !.value = Null]

\* Mutant: the node keeps its value.
UpperValued(n, m) == [nodes[n] EXCEPT !.path = SubSeq(@, 1, m), !.childs = {Len(nodes) + 1}]

\* A node is split after m characters of its path. Upper is what it keeps, Lower the new child,
\* which takes the rest of the path, the value and the children.
Lower(n, m) == [nodes[n] EXCEPT !.parent = n, !.path = SubSeq(@, m + 1, Len(@))]

Upper(n, m) == [nodes[n] EXCEPT !.path = SubSeq(@, 1, m), !.childs = {Len(nodes) + 1}, !.value = Null]

\* Mutant: the children are not told of their new parent.
SplitOrphans(n, m) == Append([nodes EXCEPT ![n] = Upper(n, m)], Lower(n, m))

Split(n, m) ==
    [c \in 1..(Len(nodes) + 1) |->
        CASE c = n                        -> Upper(n, m)
          [] c = Len(nodes) + 1           -> Lower(n, m)
          [] c \in nodes[n].childs        -> [nodes[c] EXCEPT !.parent = Len(nodes) + 1]
          [] OTHER                        -> nodes[c]]

\* PathMap::Get( key, true ): the nodes, and the one that stands for the key.
Create(key) ==
    LET e      == Descent(key)
        forest == IF Whole(e) THEN nodes ELSE Split(e.node, e.matched)
    IN  IF e.consumed = Len(key)
          THEN [nodes |-> forest, node |-> e.node]
          ELSE [nodes |-> AddChild(forest, e.node, SubSeq(key, e.consumed + 1, Len(key))),
                node  |-> Len(forest) + 1]

-----------------------------------------------------------------------------
(***************************************************************************)
(* ScopeStore                                                              *)
(***************************************************************************)
\* A path without its last n directories, empty if there are fewer.
Cut(path, n) ==
    LET slashes == {i \in DOMAIN path : path[i] = "/"}
    IN  IF n = 0 THEN path
        ELSE IF Cardinality(slashes) < n THEN <<>>
        ELSE SubSeq(path, 1, (CHOOSE i \in slashes :
                                 Cardinality({j \in slashes : j >= i}) = n) - 1)

\* The key that getPathMapNode builds for a scope of place p.
Key(p, s, n) ==
    CASE s = "Path"     -> Cut(p.path, n) \o <<"/">>
      [] s = "Filename" -> p.path \o <<"/">> \o p.file \o <<"#">>
      [] s = "Method"   -> p.path \o <<"/">> \o p.file \o <<"#">> \o p.method \o <<"#">>

\* The values of a walk in source code: from the node found up to the root.
LanguageWalk(p) ==
    LET up[n \in 0..Len(nodes)] ==
          IF n = 0 THEN <<>>
          ELSE (IF nodes[n].value = Null THEN <<>> ELSE <<nodes[n].value>>) \o up[nodes[n].parent]
    IN  up[Get(Key(p, "Method", 0))]

\* All values that InitWalk and Walk give to a statement at place p in thread t, without the one
\* it brings along.
Walk(p, t) ==
    Reverse(threadStore["ThreadInner"][t]) \o LanguageWalk(p)
      \o Reverse(threadStore["ThreadOuter"][t])
      \o (IF globalStore = Null THEN <<>> ELSE <<globalStore>>)

-----------------------------------------------------------------------------
(***************************************************************************)
(* ScopeStore::access, after InitAccess, for scope s of a call at place p  *)
(* (n directories cut) or for thread t. Null stands for a removal.         *)
(***************************************************************************)
\* Mutant: the node is not created for reading, and may be another one.
CurrentNearby(p, t, s, n) ==
    CASE s = "Global"       -> globalStore
      [] s \in ThreadScopes -> IF threadStore[s][t] = <<>> THEN Null ELSE Last(threadStore[s][t])
      [] s \in CodeScopes   -> nodes[Get(Key(p, s, n))].value

\* The value of a scope, in thread scopes the last one.
Current(p, t, s, n) ==
    CASE s = "Global"       -> globalStore
      [] s \in ThreadScopes -> IF threadStore[s][t] = <<>> THEN Null ELSE Last(threadStore[s][t])
      [] s \in CodeScopes   -> LET c == Create(Key(p, s, n)) IN c.nodes[c.node].value

\* Scopes with one value; for those in code the node is created, even for a removal.
AccessGlobal(new) == globalStore' = new /\ UNCHANGED <<nodes, threadStore>>

AccessCode(key, new) ==
    LET c == Create(key)
    IN  nodes' = [c.nodes EXCEPT ![c.node].value = new] /\ UNCHANGED <<globalStore, threadStore>>

SetThread(s, t, list) ==
    threadStore' = [threadStore EXCEPT ![s][t] = list] /\ UNCHANGED <<nodes, globalStore>>

Insert(p, t, s, n, new) ==
    CASE s = "Global"       -> AccessGlobal(new)
      [] s \in CodeScopes   -> AccessCode(Key(p, s, n), new)
      [] s \in ThreadScopes ->
            LET list == threadStore[s][t]
            IN  SetThread(s, t, IF cfgSingleThreadValue /\ list # <<>> THEN [list EXCEPT ![1] = new]
                                                                      ELSE Append(list, new))

RemoveCurrent(p, t, s, n) ==
    CASE s = "Global"       -> AccessGlobal(Null)
      [] s \in CodeScopes   -> AccessCode(Key(p, s, n), Null)
      [] s \in ThreadScopes ->
            SetThread(s, t, IF threadStore[s][t] = <<>> THEN <<>> ELSE Front(threadStore[s][t]))

-----------------------------------------------------------------------------
(***************************************************************************)
(* The calls of the Lox                                                    *)
(***************************************************************************)
EmptyNodes   == <<[parent |-> 0, path |-> <<>>, childs |-> {}, value |-> Null]>>
EmptyThreads == [s \in ThreadScopes |-> [t \in Threads |-> <<>>]]

StoreInit ==
    /\ nodes = EmptyNodes
    /\ globalStore = Null
    /\ threadStore = EmptyThreads
    /\ text = <<>>
    /\ deleted = {}
    /\ cfgSingleThreadValue \in BOOLEAN
    /\ calls = 0

Call == calls < MaxCalls /\ calls' = calls + 1 /\ UNCHANGED cfgSingleThreadValue

\* Lox::checkScopeInformation.
Known(p, s) == s = "Path" => p.path # <<>>

Delete(o) == deleted' = deleted \cup ({o} \ {Null})

\* Lox::SetDomain and SetPrefix, with a value and without. The previous value, if it was
\* replaced, is deleted by the Lox.
SetDomain(p, t, s, n, c) ==
    /\ Call /\ ~cfgSingleThreadValue /\ Known(p, s)
    /\ Insert(p, t, s, n, NewObject)
    /\ text' = Append(text, c)
    /\ Delete(IF s \in ThreadScopes THEN Null ELSE Current(p, t, s, n))

UnsetDomain(p, t, s, n) ==
    /\ Call /\ ~cfgSingleThreadValue /\ Known(p, s)
    /\ RemoveCurrent(p, t, s, n)
    /\ Delete(Current(p, t, s, n))
    /\ UNCHANGED text

\* Lox::RemoveThreadDomain: the first value with this content.
RemoveThreadDomain(t, s, c) ==
    /\ Call /\ ~cfgSingleThreadValue
    /\ LET list == threadStore[s][t]
           hits == {i \in DOMAIN list : text[list[i]] = c}
           hit  == CHOOSE i \in hits : \A j \in hits : i <= j
       IN  IF hits = {} THEN SetThread(s, t, list) /\ Delete(Null)
                        ELSE SetThread(s, t, RemoveAt(list, hit)) /\ Delete(list[hit])
    /\ UNCHANGED text

\* Lox::Once and Store: the scope's map is used, or made if there is none.
GetMap(p, t, s, n, c) ==
    /\ Call /\ cfgSingleThreadValue
    /\ Current(p, t, s, n) = Null
    /\ Insert(p, t, s, n, NewObject)
    /\ text' = Append(text, c)
    /\ UNCHANGED deleted

\* Lox::Store without data removes an entry, and the map if this was the last one.
DropMap(p, t, s, n) ==
    /\ Call /\ cfgSingleThreadValue
    /\ Current(p, t, s, n) # Null
    /\ Delete(Current(p, t, s, n))
    /\ RemoveCurrent(p, t, s, n)
    /\ UNCHANGED text

Stored == {nodes[n].value : n \in DOMAIN nodes} \cup {globalStore}
            \cup UNION {ToSet(threadStore[s][t]) : s \in ThreadScopes, t \in Threads}

\* Lox::clear deletes all values and the nodes.
Clear ==
    /\ Call
    /\ nodes' = EmptyNodes
    /\ globalStore' = Null
    /\ threadStore' = EmptyThreads
    /\ deleted' = deleted \cup (Stored \ {Null})
    /\ UNCHANGED text

Exhausted == calls = MaxCalls /\ UNCHANGED storeVars

StoreNext ==
    \/ \E p \in Places, t \in Threads, s \in CodeScopes \cup ThreadScopes \cup {"Global"} :
          \E n \in Levels(s) :
             \/ \E c \in Texts : SetDomain(p, t, s, n, c) \/ GetMap(p, t, s, n, c)
             \/ UnsetDomain(p, t, s, n)
             \/ DropMap(p, t, s, n)
    \/ \E t \in Threads, s \in ThreadScopes, c \in Texts : RemoveThreadDomain(t, s, c)
    \/ Clear \/ Exhausted

StoreSpec == StoreInit /\ [][StoreNext]_storeVars

-----------------------------------------------------------------------------
(***************************************************************************)
(* Properties                                                              *)
(***************************************************************************)
\* The PathMap is a tree: each node but the root is listed by its parent and by no other node,
\* has a path, and can be told from its siblings by the first character.
TypeOK ==
    /\ \A n \in DOMAIN nodes :
          /\ nodes[n].value \in Objects \cup {Null}
          /\ nodes[n].childs \subseteq DOMAIN nodes
          /\ {c \in DOMAIN nodes : n \in nodes[c].childs}
                = IF n = Root THEN {} ELSE {nodes[n].parent}
          /\ (n = Root) = (nodes[n].path = <<>>)
          /\ \A c, d \in nodes[n].childs : nodes[c].path[1] = nodes[d].path[1] => c = d
    /\ globalStore \in Objects \cup {Null}
    /\ \A s \in ThreadScopes, t \in Threads : threadStore[s][t] \in Seq(Objects)
    /\ Len(text) <= calls /\ deleted \subseteq DOMAIN text

\* The Lox owns the objects through the store: each one that is not deleted is in one place,
\* and none that is deleted is left anywhere, whatever nodes were split in the meantime.
Positions(o) ==
    {<<"node", n>> : n \in {m \in DOMAIN nodes : nodes[m].value = o}}
      \cup {<<"global">> : x \in {globalStore} \cap {o}}
      \cup {pos \in ThreadScopes \X Threads \X Objects :
               pos[3] \in DOMAIN threadStore[pos[1]][pos[2]]
               /\ threadStore[pos[1]][pos[2]][pos[3]] = o}

OwnedOnce ==
    \A o \in DOMAIN text : Cardinality(Positions(o)) = IF o \in deleted THEN 0 ELSE 1

\* The value that the store has for a key in source code: that of the node whose path, put
\* together from the root, is the key.
FullPath(n) == LET from[c \in 0..Len(nodes)] ==
                     IF c = 0 THEN <<>> ELSE from[nodes[c].parent] \o nodes[c].path
               IN  from[n]

FoundValues == {<<FullPath(n), nodes[n].value>> : n \in {m \in DOMAIN nodes : nodes[m].value # Null}}

ValueOf(key) == SetToSeq({f[2] : f \in {g \in FoundValues : g[1] = key}})

\* The values of the scopes around place p, from the inner to the outer: its method, its file,
\* its directories.
Around(p, levels) ==
    ValueOf(Key(p, "Method", 0)) \o ValueOf(Key(p, "Filename", 0))
      \o FlattenSeq([i \in 1..levels |-> ValueOf(Key(p, "Path", i - 1))])

Directories(p) == Cardinality({i \in DOMAIN p.path : p.path[i] = "/"})

\* What a statement at place p in thread t should get: the values of its scopes from the inner
\* to the outer, where the outer directories are what is left of the path after each cut.
Expected(p, t) ==
    Reverse(threadStore["ThreadInner"][t]) \o Around(p, Directories(p) + 1)
      \o Reverse(threadStore["ThreadOuter"][t])
      \o (IF globalStore = Null THEN <<>> ELSE <<globalStore>>)

\* Below a directory /x/f#, all keys begin with that of file f in /x: a walk gives a statement in
\* there this file's value, too. All other places are plain.
PlainPlaces == {p \in Places : "#" \notin ToSet(p.path)}

\* A walk at a plain place gives the values of all scopes around it in their order, whatever is
\* stored for other places. Nothing is lost when nodes are split; one more value, that of a
\* scope elsewhere, may come with them.
WalkKeepsScopes ==
    \A p \in PlainPlaces, t \in Threads :
        LET walk == Walk(p, t)
            at   == Len(threadStore["ThreadInner"][t]) + 1
        IN  \/ walk = Expected(p, t)
            \/ at <= Len(walk) /\ RemoveAt(walk, at) = Expected(p, t)

\* The walk gives the values of the scopes around a place and no other: a value that is set for
\* a directory has no effect outside of it.
WalkExact == \A p \in PlainPlaces, t \in Threads : Walk(p, t) = Expected(p, t)

\* The PathMap and the lists implement a map from scopes to values: storing and removing is felt
\* in one scope only, across all splits of nodes.
Keys      == {Key(p, s, n) : p \in Places, s \in CodeScopes, n \in 0..MaxPathLevel}
AllScopes == {<<"Global">>} \cup ({"Code"} \X Keys) \cup (ThreadScopes \X Threads)

Values ==
    LET found == FoundValues
    IN  [scope \in AllScopes |->
           CASE scope[1] = "Global" -> IF globalStore = Null THEN <<>> ELSE <<globalStore>>
             [] scope[1] = "Code"   -> SetToSeq({f[2] : f \in {g \in found : g[1] = scope[2]}})
             [] OTHER               -> threadStore[scope[1]][scope[2]]]

Map == INSTANCE ScopeMap WITH
    Scopes <- AllScopes,
    stacks <- IF cfgSingleThreadValue THEN {} ELSE ThreadScopes \X Threads,
    values <- Values

ImplementsScopeMap == Map!Spec
=============================================================================
