----------------------------- MODULE LoxLoggers -----------------------------
(***************************************************************************)
(* The loggers of one Lox (alox/lox.cpp, alox/core/domain.hpp): two trees  *)
(* of log domains, each domain with a list of LoggerData in the order in   *)
(* which the loggers were attached to its tree. All domains of a tree are  *)
(* addressed with the same index, domains are created when they are first  *)
(* named, and a new domain copies the list of its parent.                  *)
(*                                                                         *)
(* Every operation runs with the Lox acquired, so that operations do not   *)
(* interleave; op is the one in progress. It proceeds in the steps of the  *)
(* code: one domain created, one domain set from source code, one domain   *)
(* set from the configuration.                                             *)
(***************************************************************************)
EXTENDS Integers, Sequences

CONSTANTS Loggers,
          NameOf,          \* NameOf[l]: the name of a logger; two may share one
          Domains,         \* the paths of all log domains, in both trees
          Within,          \* Within[d]: domain d and its ancestors, up to the root of its tree
          MainRoot,        \* field domains
          InternalRoot,    \* field internalDomains
          Predefined,      \* the internal domains that the constructor creates
          Clients,         \* Clients[n]: the settings, [verbosity, priority], that a client asks
                           \* for in up to n calls
          PrioSource,
          PrioProtected,
          ConfigPriority,  \* the priority of the plug-in that knows the variables
          Config,          \* Config[n][d]: the verbosity that variable <n>_VERBOSITY has for d
          NoRule,          \* no rule of the variable matches the domain
          NotAttached      \* as in VerbositySettings

Roots == {MainRoot, InternalRoot}
Names == {NameOf[l] : l \in Loggers}

\* The ancestors of a domain are a chain from the root of its tree down to its parent.
ASSUME TreeAssumption ==
    /\ Roots \subseteq Domains /\ MainRoot # InternalRoot
    /\ Within \in [Domains -> SUBSET Domains]
    /\ \A d \in Domains : d \in Within[d] /\ \E r \in Roots : Within[d] \cap Roots = {r}
    /\ \A r \in Roots : Within[r] = {r}
    /\ \A d \in Domains : \A e, f \in Within[d] : e \in Within[f] \/ f \in Within[e]
    /\ \A d \in Domains : \A e \in Within[d] : Within[e] \subseteq Within[d]
    /\ \A d, e \in Domains : d \in Within[e] /\ e \in Within[d] => d = e
    /\ \A d \in Domains \ Roots :
          \E p \in Within[d] \ {d} : \A e \in Within[d] \ {d} : e \in Within[p]
    /\ Predefined \subseteq Domains
    /\ \A d \in Predefined : Within[d] = {InternalRoot, d}
ASSUME PriorityAssumption ==
    /\ {PrioSource, PrioProtected, ConfigPriority} \subseteq Nat
    /\ PrioSource < ConfigPriority /\ ConfigPriority < PrioProtected

\* The settings that clients ask for and those that the configuration knows are settings.
Verbosities == {"Off", "Error", "Warning", "Info", "Verbose"}

ASSUME SettingsAssumption ==
    /\ DOMAIN Clients \subseteq Nat
    /\ \A n \in DOMAIN Clients : Clients[n] \subseteq [verbosity : Verbosities, priority : Int]
    /\ \A n \in Names, d \in Domains : Config[n][d] \in Verbosities \cup {NoRule}
    /\ NotAttached \notin [verbosity : Verbosities, priority : Int]

VARIABLES existing,     \* the domains created so far
          data,         \* data[d]: field Data of domain d, a sequence of LoggerData
          registered,   \* the loggers that have this Lox as an acquirer (Logger::AddAcquirer)
          op,           \* the operation in progress
          requests,     \* the settings that the client asks for
          calls         \* the calls that the client will still make

vars == <<existing, data, registered, op, requests, calls>>

RootOf(d)  == CHOOSE r \in Roots : r \in Within[d]
OtherRoot(r) == IF r = MainRoot THEN InternalRoot ELSE MainRoot
Below(d)   == {e \in Domains : d \in Within[e]}

Setting(v, p)    == [verbosity |-> v, priority |-> p]
LoggerData(l, s) == [logger |-> l, setting |-> s]
Fresh            == Setting("Off", 0)

\* Domain::GetLoggerNo, for a logger and for a name: the first one that matches, 0 if none does.
FirstOf(d, wanted) ==
    LET hits == {i \in DOMAIN data[d] : data[d][i].logger \in wanted}
    IN  IF hits = {} THEN 0 ELSE CHOOSE i \in hits : \A j \in hits : i <= j

LoggerNo(d, l) == FirstOf(d, {l})
NamedNo(d, n)  == FirstOf(d, {l \in Loggers : NameOf[l] = n})

Attached(l, r) == LoggerNo(r, l) # 0

-----------------------------------------------------------------------------
\* Mutant: the recursion does not go down.
AffectedOnlyHere(forest, d, no, s) ==
    {e \in {d} : forest[e][no].setting.priority <= s.priority}

\* Mutant: a setting of the same priority stays.
AffectedStrictly(forest, d, no, s) ==
    {e \in existing \cap Below(d) :
        \A x \in existing \cap Below(d) \cap Within[e] :
            forest[x][no].setting.priority < s.priority}

\* Domain::SetVerbosity( no, s ) on domain d of a forest: the recursion goes down as long as
\* the priority found is not higher, and addresses every domain with the same index.
Affected(forest, d, no, s) ==
    {e \in existing \cap Below(d) :
        \A x \in existing \cap Below(d) \cap Within[e] :
            forest[x][no].setting.priority <= s.priority}

SetVerbosity(forest, d, no, s) ==
    [e \in Domains |-> IF e \in Affected(forest, d, no, s)
                         THEN [forest[e] EXCEPT ![no].setting = s]
                         ELSE forest[e]]

\* Domain::AddLogger and Domain::RemoveLogger, delegated to the root: all domains of the tree.
AddLogger(r, l) ==
    [e \in Domains |-> IF e \in existing \cap Below(r)
                         THEN Append(data[e], LoggerData(l, Fresh)) ELSE data[e]]

Without(list, no) == SubSeq(list, 1, no - 1) \o SubSeq(list, no + 1, Len(list))

RemoveLogger(forest, r, no) ==
    [e \in Domains |-> IF no # 0 /\ e \in existing \cap Below(r)
                         THEN Without(forest[e], no) ELSE forest[e]]

\* Mutant: the rules are not matched with the domain.
FromConfigUnmatched(l, d, priority) == Setting(Config[NameOf[l]][d], ConfigPriority)

\* Lox::getVerbosityFromConfig for one logger: what its variable sets on domain d, if anything.
FromConfig(l, d, priority) ==
    IF Config[NameOf[l]][d] = NoRule \/ priority = PrioProtected
      THEN NotAttached
      ELSE Setting(Config[NameOf[l]][d], ConfigPriority)

-----------------------------------------------------------------------------
Idle == [step |-> "none"]

Init == /\ existing = Roots \cup Predefined
        /\ data = [d \in Domains |-> <<>>]
        /\ registered = {}
        /\ op = Idle
        /\ calls \in DOMAIN Clients /\ requests = Clients[calls]

Called == calls > 0 /\ calls' = calls - 1 /\ UNCHANGED requests

Begin(newOp) ==
    /\ op = Idle /\ Called
    /\ op' = newOp
    /\ UNCHANGED <<existing, data, registered>>

\* A nested call of SetVerbosity for the tree of root r remembers the setting to be done after it.
NoOuter == [domain |-> MainRoot, setting |-> NotAttached]
Request(kind, who, d, s, outer) ==
    [step |-> "find", kind |-> kind, who |-> who, domain |-> d, setting |-> s, outer |-> outer]

CallSetVerbosity(l, d, s)     == Begin(Request("logger", l, d, s, NoOuter))
CallSetVerbosityName(n, d, s) == Begin(Request("name", n, d, s, NoOuter))

\* Lox::Entry returns at once if the main tree has no logger.
CallEntry(d) == /\ data[MainRoot] # <<>>
                /\ Begin(Request("entry", NoRule, d, Fresh, NoOuter))

\* Lox::findDomain creates the missing domains of a path one by one; each inherits the data of
\* its parent and then reads the configuration for all of the loggers.
Parent(c) == CHOOSE p \in Within[c] \ {c} : \A e \in Within[c] \ {c} : e \in Within[p]

\* Mutant: a new domain does not read the configuration.
Unconfigured(list, c) == list

ConfiguredData(list, c) ==
    [i \in DOMAIN list |->
        LET s == FromConfig(list[i].logger, c, list[i].setting.priority)
        IN  IF s # NotAttached /\ s.priority >= list[i].setting.priority
              THEN LoggerData(list[i].logger, s)
              ELSE list[i]]

\* Mutant: a new domain does not copy the loggers of its parent.
CreateDomainEmpty ==
    /\ op.step = "find"
    /\ \E c \in Within[op.domain] \ existing :
          /\ Parent(c) \in existing
          /\ existing' = existing \cup {c}
    /\ UNCHANGED <<data, registered, op, requests, calls>>

CreateDomain ==
    /\ op.step = "find"
    /\ \E c \in Within[op.domain] \ existing :
          /\ Parent(c) \in existing
          /\ existing' = existing \cup {c}
          /\ data' = [data EXCEPT ![c] = ConfiguredData(data[Parent(c)], c)]
    /\ UNCHANGED <<registered, op, requests, calls>>

Found(kind) == op.step = "find" /\ op.kind = kind /\ op.domain \in existing

EntryDone == /\ Found("entry")
             /\ op' = Idle
             /\ UNCHANGED <<existing, data, registered, requests, calls>>

-----------------------------------------------------------------------------
(***************************************************************************)
(* Lox::SetVerbosity( Logger*, ... )                                       *)
(***************************************************************************)
\* What remains after the nested call from SetVerbosity by name.
Resume == IF op.outer.setting = NotAttached THEN Idle ELSE [step |-> "outer", who |-> op.who,
                                                            outer |-> op.outer]

SetKnown ==
    /\ Found("logger")
    /\ LoggerNo(op.domain, op.who) # 0
    /\ data' = SetVerbosity(data, op.domain, LoggerNo(op.domain, op.who), op.setting)
    /\ op' = Resume
    /\ UNCHANGED <<existing, registered, requests, calls>>

\* Another logger of the same name is attached to the tree: an error.
SetNameTaken ==
    /\ Found("logger")
    /\ LoggerNo(op.domain, op.who) = 0
    /\ NamedNo(RootOf(op.domain), NameOf[op.who]) # 0
    /\ op' = Resume
    /\ UNCHANGED <<existing, data, registered, requests, calls>>

SetNew ==
    /\ Found("logger")
    /\ LoggerNo(op.domain, op.who) = 0
    /\ LET r == RootOf(op.domain) IN
         /\ NamedNo(r, NameOf[op.who]) = 0
         /\ data' = SetVerbosity(AddLogger(r, op.who), op.domain, Len(data[r]) + 1, op.setting)
         /\ registered' = IF Attached(op.who, OtherRoot(r)) THEN registered
                                                             ELSE registered \cup {op.who}
    /\ op' = [step |-> "config", who |-> op.who, todo |-> existing, outer |-> op.outer]
    /\ UNCHANGED <<existing, requests, calls>>

\* Lox::getAllVerbosities visits the domains of both trees, each before those below it.
ConfigureDomain ==
    /\ op.step = "config"
    /\ \E d \in op.todo :
          /\ Within[d] \cap op.todo = {d}
          /\ LET no == LoggerNo(d, op.who)
                 s  == FromConfig(op.who, d, data[d][no].setting.priority)
             IN  data' = IF no # 0 /\ s # NotAttached THEN SetVerbosity(data, d, no, s) ELSE data
          /\ op' = [op EXCEPT !.todo = @ \ {d}]
    /\ UNCHANGED <<existing, registered, requests, calls>>

ConfigureDone ==
    /\ op.step = "config" /\ op.todo = {}
    /\ op' = Resume
    /\ UNCHANGED <<existing, data, registered, requests, calls>>

-----------------------------------------------------------------------------
(***************************************************************************)
(* Lox::SetVerbosity( const String& loggerName, ... )                      *)
(***************************************************************************)
SetNamed ==
    /\ Found("name")
    /\ NamedNo(op.domain, op.who) # 0
    /\ data' = SetVerbosity(data, op.domain, NamedNo(op.domain, op.who), op.setting)
    /\ op' = Idle
    /\ UNCHANGED <<existing, registered, requests, calls>>

\* Mutant: the nested call names the wrong tree.
SetNamedSameTree ==
    /\ Found("name")
    /\ NamedNo(op.domain, op.who) = 0
    /\ LET other == OtherRoot(RootOf(op.domain))
           no    == NamedNo(other, op.who)
       IN  /\ no # 0
           /\ op' = Request("logger", data[other][no].logger, other,
                            Setting("Off", PrioSource),
                            [domain |-> op.domain, setting |-> op.setting])
    /\ UNCHANGED <<existing, data, registered, requests, calls>>

\* The logger is known to the other tree only: add it to this one first, switched off. The root
\* is named by its absolute path, which no scope domain of the thread precedes.
SetNamedOther ==
    /\ Found("name")
    /\ NamedNo(op.domain, op.who) = 0
    /\ LET r  == RootOf(op.domain)
           no == NamedNo(OtherRoot(r), op.who)
       IN  /\ no # 0
           /\ op' = Request("logger", data[OtherRoot(r)][no].logger, r,
                            Setting("Off", PrioSource),
                            [domain |-> op.domain, setting |-> op.setting])
    /\ UNCHANGED <<existing, data, registered, requests, calls>>

SetNamedUnknown ==
    /\ Found("name")
    /\ NamedNo(op.domain, op.who) = 0
    /\ NamedNo(OtherRoot(RootOf(op.domain)), op.who) = 0
    /\ op' = Idle
    /\ UNCHANGED <<existing, data, registered, requests, calls>>

SetOuter ==
    /\ op.step = "outer"
    /\ LET no == NamedNo(op.outer.domain, NameOf[op.who])
       IN  data' = SetVerbosity(data, op.outer.domain, no, op.outer.setting)
    /\ op' = Idle
    /\ UNCHANGED <<existing, registered, requests, calls>>

-----------------------------------------------------------------------------
(***************************************************************************)
(* Lox::RemoveLogger, by logger and by name: from both trees.              *)
(***************************************************************************)
\* Mutant: the index in the main tree is used for both.
RemoveSameIndex(mainNo, internalNo) ==
    data' = RemoveLogger(RemoveLogger(data, MainRoot, mainNo), InternalRoot,
                         IF mainNo \in DOMAIN data[InternalRoot] THEN mainNo ELSE internalNo)

RemoveBoth(mainNo, internalNo) ==
    data' = RemoveLogger(RemoveLogger(data, MainRoot, mainNo), InternalRoot, internalNo)

CallRemoveLogger(l) ==
    /\ op = Idle /\ Called
    /\ \E r \in Roots : Attached(l, r)
    /\ RemoveBoth(LoggerNo(MainRoot, l), LoggerNo(InternalRoot, l))
    /\ registered' = registered \ {l}
    /\ UNCHANGED <<existing, op>>

\* The acquirer is removed from the logger that was found last.
CallRemoveLoggerName(n) ==
    /\ op = Idle /\ Called
    /\ LET mainNo     == NamedNo(MainRoot, n)
           internalNo == NamedNo(InternalRoot, n)
       IN  /\ mainNo # 0 \/ internalNo # 0
           /\ RemoveBoth(mainNo, internalNo)
           /\ registered' = registered \ {IF internalNo # 0 THEN data[InternalRoot][internalNo].logger
                                                            ELSE data[MainRoot][mainNo].logger}
    /\ UNCHANGED <<existing, op>>

-----------------------------------------------------------------------------
\* Lox::Reset and ~Lox, by way of Lox::clear: every logger that is found in a tree is
\* unregistered once, and the domains below the roots are deleted.
CallReset ==
    /\ op = Idle /\ Called
    /\ registered' = registered \ {l \in Loggers : \E r \in Roots : Attached(l, r)}
    /\ existing' = Roots
    /\ data' = [d \in Domains |-> <<>>]
    /\ UNCHANGED op

Exhausted == op = Idle /\ calls = 0 /\ UNCHANGED vars

Next == \/ \E l \in Loggers, d \in Domains, s \in requests : CallSetVerbosity(l, d, s)
        \/ \E n \in Names, d \in Domains, s \in requests : CallSetVerbosityName(n, d, s)
        \/ \E d \in Domains : CallEntry(d)
        \/ CreateDomain \/ EntryDone
        \/ SetKnown \/ SetNameTaken \/ SetNew \/ ConfigureDomain \/ ConfigureDone
        \/ SetNamed \/ SetNamedOther \/ SetNamedUnknown \/ SetOuter
        \/ \E l \in Loggers : CallRemoveLogger(l)
        \/ \E n \in Names : CallRemoveLoggerName(n)
        \/ CallReset \/ Exhausted

Spec == Init /\ [][Next]_vars

-----------------------------------------------------------------------------
(***************************************************************************)
(* Properties                                                              *)
(***************************************************************************)
TypeOK ==
    /\ existing \subseteq Domains
    /\ \A d \in Domains : \A i \in DOMAIN data[d] :
          /\ data[d][i].logger \in Loggers
          /\ data[d][i].setting \in [verbosity : Verbosities, priority : Int]
    /\ registered \subseteq Loggers
    /\ op.step \in {"none", "find", "config", "outer"}

\* One index fits all: at every step, each domain of a tree lists the same loggers in the same
\* order as its root, whenever it was created, and no two of them share a name.
IndexAligned ==
    \A d \in existing :
        LET r == RootOf(d) IN
        /\ Len(data[d]) = Len(data[r])
        /\ \A i \in DOMAIN data[d] : data[d][i].logger = data[r][i].logger
        /\ \A i, j \in DOMAIN data[d] :
              NameOf[data[d][i].logger] = NameOf[data[d][j].logger] => i = j

\* Priorities never decrease on the way down a tree. This is what lets Domain::SetVerbosity stop
\* its recursion at the first domain of higher priority.
PriorityMonotone ==
    \A d \in existing : \A e \in existing \cap Within[d] : \A i \in DOMAIN data[d] :
        data[e][i].setting.priority <= data[d][i].setting.priority

\* The assertion of SetVerbosity by name: the nested call has added the logger to the tree.
NestedCallAdds ==
    op.step = "outer" => NamedNo(op.outer.domain, NameOf[op.who]) # 0

\* Between operations, no domain has missed the configuration, in whatever order loggers were
\* attached and domains were created: where a rule matches, the setting is the rule's or one of
\* higher or equal priority.
ConfigurationRead ==
    op = Idle =>
        \A d \in existing : \A i \in DOMAIN data[d] :
            Config[NameOf[data[d][i].logger]][d] # NoRule =>
                data[d][i].setting.priority >= ConfigPriority

\* A logger that the Lox logs to has the Lox as its acquirer: its lock knows who uses it. No
\* acquirer stays behind either, except with a logger that shares its name with another one.
AttachedAreRegistered ==
    \A l \in Loggers :
        LET attached == \E r \in Roots : Attached(l, r)
            unique   == \A k \in Loggers : NameOf[k] = NameOf[l] => k = l
        IN  (attached => l \in registered) /\ (l \in registered /\ unique => attached)

\* Whether they exist or not, the domains have the settings that the abstract specification
\* gives them: a domain that does not exist has those of its nearest ancestor that does.
Nearest(d) == CHOOSE e \in Within[d] \cap existing : \A f \in Within[d] \cap existing : f \in Within[e]

AbstractSetting(d, l) ==
    LET no == LoggerNo(Nearest(d), l)
    IN  IF no = 0 THEN NotAttached ELSE data[Nearest(d)][no].setting

effective == [d \in Domains |-> [l \in Loggers |-> AbstractSetting(d, l)]]

\* The settings of calls: those of the clients, and the one that SetNamedOther asks for itself.
AskedByClients == UNION {Clients[n] : n \in DOMAIN Clients}
Asked          == AskedByClients \cup {Setting("Off", PrioSource)}

Abstract == INSTANCE VerbositySettings WITH
    Settings   <- Asked,
    Configured <- [d \in Domains |-> [l \in Loggers |-> FromConfig(l, d, 0)]]

ImplementsVerbositySettings == Abstract!Spec
=============================================================================
