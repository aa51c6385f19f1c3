------------------------------- MODULE ScopeInfo -------------------------------
(***************************************************************************)
(* The caller information of a Lox (alox/core/scopeinfo.cpp): a cache of   *)
(* the source files used last, each with the trimmed path that was         *)
(* evaluated for it, and the rules by which paths are trimmed, the ones of *)
(* the Lox and the global ones, which other Loxes change as well.          *)
(*                                                                         *)
(* The trimmed path is part of log lines, and of the keys of all scopes in *)
(* source code (ScopeStore). A file stands for its name's place in memory, *)
(* which is what the cache compares. A trimmed path is the rule that made  *)
(* it; how a rule cuts a string is left out.                               *)
(***************************************************************************)
EXTENDS Integers, SequencesExt

CONSTANTS Files,       \* the source files
          NoFile,      \* a call without caller information: nullptr
          Flat,        \* the files whose names come without a path
          Rules,       \* the rules that may be set
          Matched,     \* Matched[r]: the files that rule r, or an automatic one, matches
          AutoRule,    \* AutoRule[f]: the rule detected with f and the current directory,
                       \* or NoRule
          NoRule,      \* a path that is not trimmed
          CacheSize,   \* DefaultCacheSize
          MaxRuns,     \* bound: changes of the source file
          MaxRules     \* bound: the rules of a list

ASSUME BoundsAssumption == CacheSize \in Nat \ {0} /\ MaxRuns \in Nat /\ MaxRules \in Nat

VARIABLES
    cache,       \* cache[i]: [origFile, trimmedPath, timeStamp]
    actual,      \* the index of the actual entry
    cacheRun,
    LocalSPTRs, GlobalSPTRs,
    AutoDetectTrimableSourcePath,
    recent,      \* history: the files used last, at most CacheSize, since the rules were changed
    outdated,    \* history: whether another Lox has changed the global rules since
    read         \* history: what the last GetTrimmedPath found

vars == <<cache, actual, cacheRun, LocalSPTRs, GlobalSPTRs, AutoDetectTrimableSourcePath,
          recent, outdated, read>>

Slots   == 1..CacheSize
Unknown == "unknown"     \* not evaluated yet
Empty   == "empty"       \* without a path

-----------------------------------------------------------------------------
(***************************************************************************)
(* Set: a file that is not the actual one is searched; the entry that was  *)
(* not used for the longest time is taken for a file that is not found.    *)
(***************************************************************************)
Found(f) == {i \in Slots : cache[i].origFile = f}

\* Mutant: the entry that was used last is taken.
Newest ==
    CHOOSE i \in Slots : \A j \in Slots :
        \/ cache[j].timeStamp < cache[i].timeStamp
        \/ cache[j].timeStamp = cache[i].timeStamp /\ i <= j

Oldest ==
    CHOOSE i \in Slots : \A j \in Slots :
        \/ cache[i].timeStamp < cache[j].timeStamp
        \/ cache[i].timeStamp = cache[j].timeStamp /\ i <= j

Use(i, entry) ==
    /\ actual'   = i
    /\ cacheRun' = cacheRun + 1
    /\ cache'    = [cache EXCEPT ![i] = [entry EXCEPT !.timeStamp = cacheRun']]

\* The history: f comes to the front, from its place, from the end or instead of the last one.
MovedToFront(f) ==
    LET place == IF f \in Range(recent) THEN CHOOSE k \in DOMAIN recent : recent[k] = f
                 ELSE IF Len(recent) < CacheSize THEN Len(recent) + 1 ELSE CacheSize
    IN  [k \in (DOMAIN recent) \cup {place} |->
            IF k = 1 THEN f ELSE IF k <= place THEN recent[k - 1] ELSE recent[k]]

Set(f) ==
    /\ IF cache[actual].origFile = f THEN UNCHANGED <<cache, actual, cacheRun>>
       ELSE /\ cacheRun < MaxRuns
            /\ IF Found(f) = {}
               THEN Use(Oldest, [origFile |-> f, trimmedPath |-> Unknown, timeStamp |-> 0])
               ELSE LET i == CHOOSE j \in Found(f) : \A k \in Found(f) : j <= k
                    IN  Use(i, cache[i])
    /\ recent' = MovedToFront(f)
    /\ read'   = <<>>
    /\ UNCHANGED <<LocalSPTRs, GlobalSPTRs, AutoDetectTrimableSourcePath, outdated>>

-----------------------------------------------------------------------------
(***************************************************************************)
(* trimPath: the first rule that matches, the Lox's own ones before the    *)
(* global ones.                                                            *)
(***************************************************************************)
Trimmed(local, global, f) ==
    LET first == SelectInSeq(local \o global, LAMBDA r : f \in Matched[r])
    IN  IF f \in Flat \cup {NoFile} THEN Empty
        ELSE IF first = 0 THEN NoRule ELSE (local \o global)[first]

\* The files of all entries are forgotten, but not what was evaluated for them.
Forgotten == [i \in Slots |-> [cache[i] EXCEPT !.origFile = NoFile]]

\* GetTrimmedPath: evaluated once. The first path that no rule matches makes one, if
\* it has something in common with the current directory; the cache is forgotten, but
\* for this file.
GetTrimmedPath ==
    LET slot  == cache[actual]
        f     == slot.origFile
        plain == Trimmed(LocalSPTRs, GlobalSPTRs, f)
        try   == slot.trimmedPath = Unknown /\ plain = NoRule /\ AutoDetectTrimableSourcePath
    IN  /\ AutoDetectTrimableSourcePath' = (AutoDetectTrimableSourcePath /\ ~try)
        /\ IF try /\ AutoRule[f] # NoRule
           THEN /\ LocalSPTRs' = Append(LocalSPTRs, AutoRule[f])
                /\ cache' = [Forgotten EXCEPT ![actual] =
                      [slot EXCEPT !.trimmedPath = Trimmed(LocalSPTRs', GlobalSPTRs, f)]]
                /\ recent' = <<f>> /\ outdated' = FALSE
           ELSE /\ cache' = [cache EXCEPT ![actual].trimmedPath = IF @ = Unknown THEN plain ELSE @]
                /\ UNCHANGED <<LocalSPTRs, recent, outdated>>
        /\ read' = <<[file |-> f, path |-> cache'[actual].trimmedPath]>>
        /\ UNCHANGED <<actual, cacheRun, GlobalSPTRs>>

-----------------------------------------------------------------------------
(***************************************************************************)
(* SetSourcePathTrimRule and its clear command.                            *)
(***************************************************************************)
ForgetCache ==
    /\ cache' = Forgotten /\ recent' = <<>> /\ outdated' = FALSE
    /\ read' = <<>>
    /\ UNCHANGED <<actual, cacheRun>>

\* Mutant: a rule of the Lox leaves the cache alone.
SetLocalRuleOnly(r) ==
    /\ Len(LocalSPTRs) < MaxRules
    /\ LocalSPTRs' = Append(LocalSPTRs, r)
    /\ read' = <<>>
    /\ UNCHANGED <<cache, actual, cacheRun, recent, outdated, GlobalSPTRs,
                   AutoDetectTrimableSourcePath>>

SetLocalRule(r) ==
    /\ Len(LocalSPTRs) < MaxRules
    /\ LocalSPTRs' = Append(LocalSPTRs, r)
    /\ ForgetCache
    /\ UNCHANGED <<GlobalSPTRs, AutoDetectTrimableSourcePath>>

SetGlobalRule(r) ==
    /\ Len(GlobalSPTRs) < MaxRules
    /\ GlobalSPTRs' = Append(GlobalSPTRs, r)
    /\ ForgetCache
    /\ UNCHANGED <<LocalSPTRs, AutoDetectTrimableSourcePath>>

\* An empty path is no rule, but the cache is forgotten all the same.
SetEmptyRule ==
    /\ ForgetCache
    /\ UNCHANGED <<LocalSPTRs, GlobalSPTRs, AutoDetectTrimableSourcePath>>

ClearRules(global, allowAutoRule) ==
    /\ LocalSPTRs' = <<>>
    /\ GlobalSPTRs' = IF global THEN <<>> ELSE GlobalSPTRs
    /\ AutoDetectTrimableSourcePath' = allowAutoRule
    /\ ForgetCache

\* Another Lox sets or clears global rules: nobody tells this one.
OtherLoxChangesGlobal ==
    /\ \/ GlobalSPTRs' = <<>>
       \/ Len(GlobalSPTRs) < MaxRules /\ \E r \in Rules : GlobalSPTRs' = Append(GlobalSPTRs, r)
    /\ outdated' = TRUE /\ read' = <<>>
    /\ UNCHANGED <<cache, actual, cacheRun, LocalSPTRs, AutoDetectTrimableSourcePath, recent>>

-----------------------------------------------------------------------------
Init ==
    /\ cache = [i \in Slots |-> [origFile |-> NoFile, trimmedPath |-> Unknown, timeStamp |-> 0]]
    /\ actual = 1 /\ cacheRun = 0
    /\ LocalSPTRs = <<>> /\ GlobalSPTRs = <<>> /\ AutoDetectTrimableSourcePath = TRUE
    /\ recent = <<>> /\ outdated = FALSE /\ read = <<>>

Next ==
    \/ \E f \in Files \cup {NoFile} : Set(f)
    \/ GetTrimmedPath \/ SetEmptyRule \/ OtherLoxChangesGlobal
    \/ \E r \in Rules : SetLocalRule(r) \/ SetGlobalRule(r)
    \/ \E global, allowAutoRule \in BOOLEAN : ClearRules(global, allowAutoRule)

Spec == Init /\ [][Next]_vars

-----------------------------------------------------------------------------
(***************************************************************************)
(* The cache keeps the files that were used last, as many as it has        *)
(* entries, and each of them once: through evictions, changes of rules,    *)
(* that leave the time stamps as they are, and rules detected meanwhile.   *)
(***************************************************************************)
RecentFilesCached ==
    /\ \A i \in DOMAIN recent : Found(recent[i]) # {}
    /\ \A i, j \in Slots :
          cache[i].origFile = cache[j].origFile /\ i # j => cache[i].origFile = NoFile

(***************************************************************************)
(* The trimmed path of a file is what the rules make of it now,            *)
(* however long it has been in the cache, unless another Lox has changed   *)
(* the global rules. (The places of scope values are made of it.)          *)
(***************************************************************************)
TrimmedPathFresh ==
    \A i \in DOMAIN read :
        ~outdated /\ read[i].file # NoFile =>
            read[i].path = Trimmed(LocalSPTRs, GlobalSPTRs, read[i].file)
=============================================================================
