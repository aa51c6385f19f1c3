# ALox in TLA+

This directory holds a verification development for the ALox logging library, C++ version
(`src.cpp`), and the part of the ALib utility library that ALox runs on. It contains TLA+
modules translated from the source, TLC configurations that check them on small instances, and
proofs for TLAPS. `PROJECT.json` lists the components, the runs, the lines of code that each
definition models, the hazards of the code and the theorems.

    tlc -workers 2 -config MCThreadLock.cfg MCThreadLock.tla     # check a module
    tlapm ThreadProofs.tla                                       # check the proofs of a module

## 1. The system

Programs log through a `Lox`. A log statement names a *log domain*, a node of a tree; each
`Logger` attached to the Lox has a *verbosity* on each domain, which decides if the statement
reaches that logger. The domain of a statement is put together from the call and from *scope
domains* (per thread, source path, file and method). Several Loxes may share a Logger, several
Loggers the standard output, and everything may be called from several threads.

| Component | State | Operations | Interacts with | What makes it correct |
|---|---|---|---|---|
| `ThreadLock` (alib/threads/threadlock) | mode, safeness (mutex allocated or not), owner, counter | `Acquire`, `Release`, `SetSafeness`, `DbgCountAcquirements` | std::mutex and condition variable; Report, for warnings | one holder, exact nesting, no lost wakeup, an answer of `DbgCountAcquirements` that a holder can trust |
| `SmartLock` | list of acquirers, and all of ThreadLock | `AddAcquirer`, `RemoveAcquirer`, `Acquire` | `ALIB::Lock`, the acquirers' locks | exclusive use across the switches between "with" and "without" mutex; no deadlock |
| `ThreadLockNR` | mutex, debug flag | `Acquire`, `Release`, `SetMode` | Report | exclusive, flag agrees |
| `Thread` registry (alib/threads/thread) | map of thread ids, id counters | `CurrentThread`, `Start`, destructor, termination | every lock (owners) | no two running threads share an object; no deleted object is found |
| `Report` and writers (alib/core/report) | writer stack, halt flags, recursion blocker | `DoReport`, push and pop of writers and flags | called in the middle of locks; `ALoxReportWriter` logs into a Lox | no report of another thread is dropped, no cycle of locks |
| Configuration (alib/config) | plug-ins by priority, entries | `Get`, `Save` | Lox, loggers | the highest priority answers |
| `Domain` (alox/core/domain) | sub-domains, a list of `LoggerData` per domain | `Find`, `AddLogger`, `RemoveLogger`, `SetVerbosity`, `IsActive` | Lox | lists aligned by index, settings inherited, priorities respected |
| `Lox` (alox/lox) | two domain trees, scope stores, rules, thread names | `SetVerbosity`, `RemoveLogger`, `Entry`, `Once`, `Store`, `SetDomain`, `SetPrefix`, `Reset`, ... | Logger (`AddAcquirer`), ALox, Config | see Domain; registration of loggers matches attachment |
| `ScopeStore`, `PathMap` | values by scope: global, path, file, method, outer and inner thread | `InitAccess` with store, get, remove; `InitWalk` with `Walk` | ScopeInfo | last stored value wins, walk in scope order |
| `ScopeInfo` | cache of source files, trim rules | `Set`, `SetSourcePathTrimRule` | all Loxes, by the global rules | the files used last are cached, trimmed paths are never stale |
| Domain substitution (`Lox::findDomain`) | rules, one-time warning | `SetDomainSubstitutionRule`, application | Domain | terminates; no rule matches the result, or the limit was reported |
| `Logger`, `TextLogger`, file, memory and console loggers | registration counter, buffers, file stream | `Log`, `AddAcquirer`, `RemoveAcquirer`, `notifyLogOp`, ... | `ALIB::StdOutputStreamsLock`, Lox | registered before use; no write to a stream that is not open |
| `ALox`, `Log` | list of Loxes, debug loggers | `Get`, `Register`, `Reset` | `ALIB::Lock` | one Lox per name |
| `ScopeDump`, strings, time, system | none of the program's own | formatting, utilities | | |
| C# and Java ports | the same design | | | |

Hard behaviours: threads inside `Acquire` and `Release` at once, timeouts that race with a
release, wakeups for no reason, reports written while a mutex is held, a mutex that is created
and deleted while other threads log, locks taken in different orders; and, sequentially, long
sequences of calls on lists that have to stay aligned in every domain of two trees, nested calls
of public operations, and settings from source code and configuration arriving in any order.

## 2. Modules

| Module | Models |
|---|---|
| `RecursiveLock` | abstract: what a lock promises its clients |
| `ThreadLock` | class ThreadLock, interleaved at the grain described below |
| `SmartLock` | class SmartLock with `ALIB::Lock` and the acquirers' locks |
| `StdStreams` | TextLogger and the console's report writer on `ALIB::StdOutputStreamsLock`: SmartLocks on two levels |
| `VerbositySettings` | abstract: the effective setting of every logger on every domain |
| `LoxLoggers` | domain trees and loggers of a Lox |
| `DomainSubstitution` | from a log statement to its domain: scope domains, lookup, creation, rules |
| `ScopeMap` | abstract: a list of values for each scope |
| `ScopeStore` | class ScopeStore with PathMap, and the calls of the Lox that use it |
| `LogStatements` | prefixes, delivery to the loggers, Once, Store and Retrieve, Reset |
| `ScopeInfo` | cache of source files, trim rules |
| `ThreadRegistry` | the map from platform ids to Thread objects |
| `Reports` | Report, ALoxReportWriter, the debug logger, the registry of Loxes: who holds what |
| `ThreadProofs` (`ThreadLock`, `ThreadRegistry`), `SmartLockProofs`, `StdStreamsProofs`, `LoxLoggersProofs`, `DomainSubstitutionProofs`, `LogStatementsProofs`, `ScopeProofs` (`ScopeInfo`, `ScopeStore`), `ReportsProofs` | the inductive invariant of each module, the properties that follow from it, and for `ThreadLock`, `LoxLoggers` and `ScopeStore` the refinement |
| `MC...` | the instance of each module for TLC |

How they fit together: `SmartLock`, `StdStreams` and `Reports` use the lock that `RecursiveLock`
promises and `ThreadLock` implements; `ThreadLock`'s owners are the objects of `ThreadRegistry`.
A statement's place comes from `ScopeInfo`, its scopes from `ScopeStore`, its domain from
`DomainSubstitution`; `LoxLoggers` decides which loggers are active on it, `LogStatements`
delivers to them, and a logger writes under the locks of `StdStreams`.

### ThreadLock

`pc[t]` says where thread t is in the code. The mutex makes what happens inside atomic, so that
`Acquire` takes one step from the test of `owner` to the unlock, with these exceptions, where
other threads can see more: the condition variable (a waiting thread has unlocked the mutex);
between the writes of `owner` and `cntAcquirements`, in `Acquire` and in `Release`, because
`DbgCountAcquirements` reads both without the mutex, twice each, and each read is a step of its own
(`dbg...`; `alarmed` are the threads for which one of its two assertions fails); and while a warning is written (the mutex
is kept). A timed wait that is over, and a wait that was notified, both lead to `woken`: the
thread relocks the mutex later, and another thread may do anything in between. `LateReturn` is
the timed wait whose clock says the limit has passed, whether it was notified or not. The
warning then names the owner: with no owner this is undefined behaviour, and the model allows
the outcomes of a crash (`WarningCrashes`) and of going on (`WaitReported`).

The reads of `DbgCountAcquirements` are a data race of C++ for a thread that does not hold the lock.
The model has them in program order, on the current values; other orders give such a thread other
wrong answers. A thread that holds the lock is not in a race: nobody writes. `overtaken` (history)
are the threads whose reads another one's acquirement fell between: with `owner` found nullptr
first, such a thread is told the count of the other one.

`held` is a ghost: what the clients were granted. Clients follow the documented rules: one
release per acquirement, and mode Unsafe, or a change of mode, only while no other thread uses
the lock. `Nested` and `Unnested` are the two lock modes.

### SmartLock

A ThreadLock in mode Recursive that starts Unsafe, the sequence `acquirers`, `ALIB::Lock`, and a
lock for each Lox. A thread holds at most one Lox (`mine[t]`) and then acts for it: it uses the
lock only if the Lox is registered, as `Lox::log` uses the loggers attached to the Lox. A thread
without a Lox acts as an anonymous acquirer (nullptr), for one registration at a time: there are
no more anonymous users, and removals under way, than anonymous registrations. The care that the
class asks of them (`threadlock.hpp:387`) is that the lock is not acquired while the *second*
acquirer is added after nullptr (`AnonymousCare`), nothing else. Other additions, and removals, come
at any time: a removal that leaves an anonymous acquirer finds the lock in use and its switch is
refused, and a later one has to cope with the mode that was left. `AcquireCall` reads the mode,
`AcquireUnsafe` and `AcquireSafe` act on it one step later: a switch of modes in between is what the
protocol has to rule out.

### LoxLoggers

Every operation of a Lox runs with the Lox acquired, so operations do not interleave; `op` is
the one in progress, with the nested call of `SetVerbosity` by name. Steps are: create one
domain (with the copy of the parent's list and the settings read from the configuration), set a
verbosity from source code, set it from the configuration for one domain, remove. `data[d]` is
the list of `LoggerData` of domain d, `registered` the loggers that have this Lox as an
acquirer. A domain is a model value with its ancestors (`Within`); the configuration is a
constant, the answer that the variable `<lox>_<logger>_VERBOSITY` gives for a domain, with the
priority of the plug-in that knows it. Scope domains and substitution rules are not part of it:
a call names the domain it arrives at.

`VerbositySettings` has no trees: each domain, *existing or not*, has a setting for each
attached logger. A setting made on a domain holds for all domains below it, except where one of
higher priority holds. The mapping gives a domain that does not exist the settings of its
nearest existing ancestor. That the creation of a domain (which copies the parent's list) and
the setting of a domain (which stops at higher priorities) implement this is what a user of the
log domains relies on.

`Clients` tells how many calls a client makes, and with which settings: three calls with any of
three settings, or four with one.

### ScopeStore

One store of a Lox. There are two kinds, chosen by `StoreInit` (`cfgSingleThreadValue`): scope domains
and prefixes (`SetDomain`, `UnsetDomain`, `RemoveThreadDomain`), and the maps of Once and Store
(`GetMap`, `DropMap`). Scopes in source code are kept in `nodes`, the PathMap: keys are sequences of
characters here, because nodes are split at any character, which is all that a name is needed
for. `Descent` follows `PathMap::get` through the children; `Get` is its answer for a reader,
`Create` its answer for a writer, with the split. A `Walk` is one step, since nothing happens to a
store during a walk of a Lox that is acquired; the statement's own value, which it returns
between inner thread and method scope, is left out. Values are objects with an identity, so that
the deletion of what was replaced can be followed.

`ScopeMap` has no tree: a scope's list changes by one value at a time, in one scope only.

### StdStreams

One SmartLock for each logger, whose acquirers are Loxes, and `Std`, whose acquirers are loggers and,
anonymously, the console's report writer. `AddCall` and `RemoveCall` count under `ALIB::Lock`
(`registrations`), and the steps `std...` and `own...` follow without it, as in
`TextLogger::AddAcquirer`; several threads may be in them with one logger. `PushWriter` and
`PopWriter` end and begin the activity of the console's writer with the same steps, and `Report`
writes. Report::lock is held in each of the three (`Reporting`). Each step of the registrations that
another thread can see is a step of the model; a logger's own lock is taken in one step, since
`SmartLock` looks at that.

Nothing keeps clients from what breaks the lock, so the model has it, and history variables note it.
`crossed` has the loggers whose removal from the last Lox was crossed by an addition: the addition
finds the logger still registered, and then it is unregistered. `disturbed` is set when the lock is
acquired by a logger that is not (yet) registered, or while the second acquirer is added after
nullptr, both against the rules of the class; and when two threads are in one logger with a single
Lox, which has no mutex: the second acquirer of `Std` acquires the first one before it switches the
mode, and with such a first one this is no protection. Without their reservations
`OneWriter`, `SafeForTwo` and `RegisteredBeforeUse` fail, as TLC shows within a minute.

### DomainSubstitution

A domain path is a sequence of letters and separators, because rules match anywhere in it;
`Fold` is what `DomainSensitivity` compares. `findDomain` takes one step for each domain it
creates, which is reported in the internal tree, for each rule, and for each test of its loop;
`stack` holds the nested calls. `subst`, `left` and `hit` are the code's `substPath`,
`maxSubstitutions` and `substituted`. `PathsAssumption` says that calls, scopes, rules, registered
names and reports are paths over the letters `Fold` is defined for. The names '.' and '..' and the
replacement of illegal characters (`domain.cpp:122-128`, `156-179`) are left out.

### LogStatements

The domain is a given here. `stack` holds the statements being delivered with what they wait
for: the counter of `Once`, the number of reports that follow, the object that is deleted then.
`tmpLogables` and `caller` are the Lox's only ones, which a statement within a statement
overwrites; such frames are marked `disturbed`. `Collected` is the loop of `Lox::log` over the
walk, with insertions at the front; `Promised` is the order that the interface promises,
written independently of it: the order of the manual (part 07), and what `lox.hpp:870` says of a domain's
prefix that excludes others, namely that *all* prefixes of scopes are ignored. On the last point the
manual says less (see the observations); the property cannot be about both. A client sets prefixes,
calls Once, or handles log data (`Clients`): no state is shared
between the three but the delivery. Objects are the numbers of the calls that passed them.

### ScopeInfo

One Lox. `Set` and the lazy `GetTrimmedPath` with its automatic rule; other Loxes matter by what
they do to the global rules (`OtherLoxChangesGlobal`). A file is its name's address, a trimmed
path the rule that made it; for the files in `Flat`, which have no path, it is empty whatever the rules.

### ThreadRegistry

`phase` follows a thread from its construction to the deletion of its object. The platform is
external: it gives a new thread any id that no running or unjoined thread has. Each critical
section of `Thread::mutex` is one step, but `Start`, in which the new thread already runs. The
destructor joins and erases in two steps, with a gap in which the id may be given again.

### Reports

A call is the list of its steps, `todo[t]`; locks are acquired and released one at a time. The
three locks are the report's, the Lox's (both recursive), and `ALIB::Lock`. `apart` marks clients
that neither report with a Lox or `ALIB::Lock` acquired nor remove the debug logger while others
report; the calls of all other clients are there, too, and may deadlock.

## 3. Runs

| Run | Instance | Shows |
|---|---|---|
| `threadlock` | 3 threads, nesting 2, time limit on, threshold 2 | `TypeOK`, `OwnerHolds`, `DbgCountOfHolder`, `NoLostWakeup`, liveness `LockPassedOn`, refinement `ImplementsRecursiveLock` |
| `smartlock` | 3 threads, 3 Loxes, 2 anonymous registrations | `TypeOK`, `MutualExclusion`, `NoStaleMode`, `SafeWhenShared` |
| `smartlock_deadlock` | the same, no anonymous ones | **violated**: `NoDeadlock` |
| `stdstreams` | 3 threads, 3 Loxes, 2 loggers (one of them shared by two Loxes), the console's writer, all of which come and go | `TypeOK`, `OneWriter`, `SafeForTwo`, `RegisteredBeforeUse`, `CounterExact` |
| `loggers` | main tree of 3 domains, internal root, 3 loggers (2 of one name), 3 settings and 3 calls, or 1 and 4 | `TypeOK`, `PriorityMonotone`, `ConfigurationRead`, `IndexAligned`, `NestedCallAdds`, `AttachedAreRegistered`, refinement `ImplementsVerbositySettings` |
| `substitution` | 5 search paths of all four types, 3 replacements, 4 statements, 4 calls, 3 passes | `TreesSound`, `ReturnedIsFixpoint`, `GivingUpIsReported`, liveness `EveryCallReturns` |
| `statements` | 4 domains, 2 threads, 2 loggers, 8 different calls of Once, 3 keys; 4 or 6 calls, one level of nesting | `PrefixesInOrder`, `OnceExact`, `NothingLeaked` |
| `scopes` | 4 places (paths /x/a, /x/ab, /y, and /y/f#, which begins like the key of the file f in /y), path level up to 2, 2 contents, both kinds of stores, 3 calls | `TypeOK`, `OwnedOnce`, `WalkKeepsScopes`, refinement `ImplementsScopeMap` |
| `scopes_walk` | the same, 2 calls | **violated**: `WalkExact` |
| `scopeinfo` | 4 files, one of them without a path, a cache of 2, 2 rules and an automatic one, lists of 2, 7 changes of the file | `RecentFilesCached`, `TrimmedPathFresh` |
| `threads` | the main thread, 2 foreign ones, 3 objects, 3 platform ids | `UniqueIdentity`, `FreshIsItself`, `NoDeletedObject` |
| `reports` | 3 threads, 2 calls each | `NoReportLost`, liveness `CallsReturnWhenApart` |

Bounds. Three threads let a release wake one of two waiters while a third barges in; nesting 2
with threshold 2 reaches the report inside the mutex. Three Loxes give a registration that
finds none, one, two or more acquirers. In `loggers`, three calls are enough for each pair of
operations to meet in either order after a first logger is attached; the chain of three domains
has one between the root and the one the configuration knows; the settings are one of the
default priority with two verbosities, and one of the highest priority. Four calls with one
setting give a logger different indices in the two trees and remove it. In `scopes`, three keys
are enough to split a node that has a value and a child, within a name and after a separator; the
paths share a directory, and the beginning of a name. `WalkKeepsScopes` allows a walk one value
too many, the one that `scopes_walk` shows, and is about statements in a directory without '#' in its
path (`PlainPlaces`): at /y/f# the code gives the values of the file f in /y, too. What is stored *for* /y/f#
is there, and disturbs nobody else.
`MaxSubstitutions` is 3 instead of ten: the code treats all passes alike, and three reach the
limit with, and without, a pass that has nothing left to do. Four calls set two rules that
rewrite into each other, look up a domain, and do it again. In `statements`, the domain chain
has an excluding prefix above, at and below others, and the eight calls of Once share a counter
by line, file, group, and not at all. In `scopeinfo`, a cache of two evicts with the third file.
In `threads`, fewer platform ids than threads mean that every id is given again. Two calls per
thread in `reports` add the debug logger while the others report and log.

Symmetry is used where the members of a set differ in nothing, in runs without liveness
properties (`loggers` has no fairness, only a refinement, in which the loggers differ in nothing
either). Deadlock detection is off where the system may stop: calls are bounded, threads end, and
the deadlocks of `smartlock` and `reports` are real.

Fairness. `ThreadLock` assumes weak fairness of each thread's own steps inside the lock's code:
the platform runs every thread. Clients are not obliged to call or to release. Under this a free
lock is taken by somebody; that *each* waiter gets it is not promised by the code (a thread that
calls `Acquire` may overtake a woken one), and is not claimed. Spurious wakeups are possible but
not obliged. `DomainSubstitution` is sequential: a call that has begun goes on. `Reports` assumes
strong fairness, a lock that is free again and again is got in the end; the question there is not
who wins, but if a cycle of locks is ever closed. The other modules check safety only.

Each property of a passing run has a mutant, a definition marked `Mutant:` next to the one it
distorts, with a plausible mistake under which the property fails.

### Findings

* `threadlock.cpp:311` (run `smartlock_deadlock`): `AddAcquirer` waits for the first acquirer with
  `ALIB::Lock` held, and `RemoveAcquirer` is called by a thread that holds that acquirer
  (`Lox::RemoveLogger`) and waits for `ALIB::Lock`.
* `pathmap.hpp:239` (run `scopes_walk`): reading a key that is not in the map returns a node that
  matched in part, if the match ends with a separator: a walk then gives a value set for another
  directory.

### Observations

Met while modelling; the properties above state their reservations, and no run is spent on them.

Locks and threads:

* `threadlock.cpp:137`: the time limit warning of `Acquire` dereferences `owner` after the mutex
  was unlocked and relocked; the owner may have released the lock (debug builds). `ThreadLock`
  has both outcomes.
* `threadlock.cpp:106`: a warning about a Lox's own lock, logged into this Lox by
  `ALoxReportWriter`, locks a mutex the thread holds.
* `threadlock.cpp:388`: a removal that leaves an anonymous acquirer deletes the mutex while a user of
  it may be about to lock it, which is undefined behaviour. The care the class asks for
  (`threadlock.hpp:387-397`) does not cover removals; `alib.hpp:339-344` advises to register and remove
  nullptr when a program starts and ends. Hence the exception in `NoStaleMode`.
* Two loggers, each with a Lox of its own and without the console's writer: the second one is
  registered with `StdOutputStreamsLock` while two threads are in the first one, one that writes and one
  that switches, or the switch is refused because of the writer. From then on the output of the two
  may be mixed. `OneWriter` and `SafeForTwo` are what holds up to there.
  (`Man.Ref.II.Auto-Configuration.dox:333-334` promises more.)
* `textlogger.cpp:601`: a logger that two threads attach to two Loxes at once is used before it is
  registered, because the counter is raised before the registration: the assertion "Must not be
  acquired without acquireres." (`threadlock.hpp:431`) may fail, and the lock is used against its rules.
* `textlogger.cpp:618-645`: a removal from the last Lox that is crossed by the addition of another one
  leaves the logger attached, used, and unregistered for good. A crossing alone, with no
  other rule broken, lets two write at once; for this a logger needs three Loxes, one more than in
  the run.
* `~Thread` (`thread.cpp:167-170`): the entry is erased after the join. A thread that gets the
  platform id in between is found as the old object, or loses its own entry, so that the
  assertion that one entry was erased fails later. A foreign thread that ended leaves its object
  to the next thread with its platform id.
* `report.cpp:165`: a report takes the report lock and then, with `ALoxReportWriter`, the Lox. An
  assertion that fails with the Lox acquired, and `Log_RemoveDebugLogger`, take them in the other
  order. `ALox::Register` reports errors with `ALIB::Lock` held, and `PushWriter` takes `ALIB::Lock`
  with the report lock held. Each of these pairs may deadlock.
* `log.cpp:97-99`: the report writer is deleted even if `PopWriter` found another one on top.

Lox:

* `lox.cpp:1763`, `scopeinfo.cpp:124-168`: a statement from within a logger changes the list and
  the caller that the next logger of the outer statement gets (`scopeinfo.hpp:206`: "Only the first
  invocation will set the values").
* `lox.cpp:400`: `RemoveLogger( name )` with two loggers of this name, one in each tree, leaves
  the Lox registered with the first of them.
* `lox.cpp:1588`, `1698`: the error about circular rules is also written when the last allowed pass
  made the path one that no rule matches; "maximum amount of ten loops" (manual, part 14) counts
  the final pass that finds nothing.
* Rules of type Exact mind the letter case, the search for domains does not. A replacement that
  produces three separators in a row trips the assertion of `domain.cpp:112`.
* `Once` with a negative quantity counts all calls; the manual (part 06) has the counter increased
  with each executed statement. Nested calls may report the limit twice.
* `lox.hpp:344`: `Reset` keeps the prefixes of the two root domains, and the flag of the one-time
  warning. Deleting data in a scope that has none leaves an empty map.
* By the manual (`Man.07.LogPrefixes.dox:110-115`) an excluding domain prefix ends the collection, which
  would keep the prefixes of the inner thread, collected before; by `lox.hpp:870` all prefixes of scopes
  are ignored. The code does the latter (`lox.cpp:1800-1806`).
* `scopestore.cpp:268`: with relative source paths, a value whose path level cuts all directories
  is found by no walk; the manual promises nearly the effect of the global scope.
* `scopeinfo.cpp:175`: a global trim rule clears the cache of the Lox it was set with; other Loxes
  keep paths trimmed by the old rules. Since `scopestore.cpp:262` makes its keys of trimmed paths,
  any rule set, or detected, later separates scope values from their place.
* A call without caller information after the cache was cleared finds the file name nullptr in
  the actual entry and goes on with its old trimmed path.

## 4. Proofs

Eight modules are proved about, each for all values of its constants that its named assumptions
allow. Every invariant that a proof uses was first checked by TLC on the instance of the
run, except that of `Reports`, which quantifies over functions on all numbers.
Each proof has one lemma, or one step, for each action. Facts about sequences that only one component
needs come first in its module.

### ThreadLock

The first part of `ThreadProofs` proves, for any set of threads, nesting bound, time limit and threshold (the
named assumptions of `ThreadLock` are all it uses): `TypeOK`, `OwnerHolds`, `DbgCountOfHolder` and
`NoLostWakeup` in every reachable state, and that each step of `ThreadLock` is a step of
`RecursiveLock` or leaves it unchanged.

None of these is inductive. `IInv` adds: `MutexHolder`, a thread is at a location inside of the
mutex exactly if `mutex` names it; `EnterBound`, a thread on its way into the lock has room for
one more acquirement; `SafeOwner`, for each location, the relation of owner, counter and
`held`; `UnsafeUser`, in mode Unsafe nobody is inside and at most one thread holds
acquirements. `NextIInv` has one step per action. `DbgCountOfHolder` has its
own conjunct, what a thread may know at each of its reads: one that holds the lock finds itself as
owner and the counter unchanged at each of them, and one that holds nothing finds itself at none,
so that a positive answer came by the way that found no owner at first, past a thread that took the
lock meanwhile (`overtaken`). `NoLostWakeup` is part of `IInv`:
the only step that frees the lock also wakes a waiter, a woken thread leaves that state only by
taking the lock, by finding an owner, or by the report of the warning, after which it tests
again. TLC checks the same conjuncts on the small instance.

### ThreadRegistry

The second part of `ThreadProofs` proves `UniqueIdentity`, `FreshIsItself` and `NoDeletedObject` for any number
of threads, objects and platform ids, from `ThreadsAssumption` (the main thread is foreign, and
threads are not mistaken for objects of system threads). Its names begin with `Registry` where
`ThreadLock` has the same ones, so that one module can be about both.

What the properties say of identities given in the past has to be tied to the map as it is now.
`IInv` says: an object is in the map under the platform id of its thread only (`MapSound`), and
nowhere before `Start` has entered it (`NotYetFound`); what was given to a running thread is found
under its platform id only (`GivenSound`), which no other running thread has (`PlatformUnique`);
ids lie between the two counters and are given once (`IdsSound`); and a fresh thread's entry is
its own, or missing while `Start` holds the mutex, and no destructor is about to remove it
(`FreshSound`). `GivenSound` is what makes the gap of the destructor harmless for
`UniqueIdentity`: the thread that was started in it gets the old object, but nobody else does.
TLC checks the same conjuncts on the instance of `threads`.

### SmartLock

`SmartLockProofs` proves `TypeOK`, `MutualExclusion`, `NoStaleMode` and `SafeWhenShared` for any
threads, Loxes and anonymous registrations. What `AcquireCall` read may be acted on steps later,
so the proof is about who can be where while the mode is switched. `IInv` says: the thread that
switches holds the other acquirer, or that one is anonymous (`Holding`); no Lox is registered
twice (`LoxOnce`), so that the one of two that remains is the other one; users of the lock are
registered, and there are no more anonymous users than anonymous registrations
(`UsersRegistered`, a statement about cardinalities); `ALIB::Lock` keeps the list as it is during
a switch (`OneSwitches`); the lock is Safe with two acquirers, and nobody is in it while a second
one is added after nullptr (`Modes`); and a user is alone and, in mode Safe, the owner (`Uses`).

In mode Unsafe there is one registration, held by one thread, and two users would need two. A
switch to Safe finds the lock unused: by the first acquirer, which is held, or by the documented
care. A switch back may be refused, by an anonymous user that stays; then the lock is Safe with
fewer than two acquirers, which harms nobody, and is why `SafeWhenShared` goes one way. If it is not
refused, an anonymous thread that is about to lock the mutex goes on without one: it is the
only user then, for the last registration is its own. This is where `NoStaleMode` has its exception.

### StdStreams

`StdStreamsProofs` proves `TypeOK`, `OneWriter`, `SafeForTwo`, `RegisteredBeforeUse` and `CounterExact` for
any number of threads, Loxes and loggers, whatever registrations of one logger interleave, and with
a console writer that comes and goes. The names are told apart by `NamesAssumption`; only `TypeOK`,
which bounds the counter by the number of Loxes, asks for a finite set of them.

`CounterExact` is a matter of `Counted`: each registration under way belongs to a Lox that is not yet
on the list, or still is (`Working`), and Loxes have one holder (`Held`). So the counter is never
negative, and it is one thread alone that takes it from zero, or back. From this follows
`Listed`: an acquirer that should be on the list of `Std` is there, but for the time that one thread
takes to put it there, or to take it off; a logger in `crossed` is excepted, since there a thread that takes
it off and one that puts it there meet. `OwnLocks` says that one thread is in a logger, up to the
first time that two are (`disturbed`). With both, `StdLock` has the argument of `SmartLock`: a user of
`Std` is registered, in mode Unsafe there is one registration, and in the logger or the report that
it stands for there is one thread (`OneUser`); when the second acquirer comes, or the last but one
goes, the thread that switches is in the logger of the other one, so that nobody else is
(`SwitchUnused`, `RemovedUnused`).

### LoxLoggers

`LoxLoggersProofs` proves all properties of the run `loggers`, for any two trees (any height and
width), loggers, names, configuration and settings: `TypeOK`, `IndexAligned`, `PriorityMonotone`,
`NestedCallAdds`, `ConfigurationRead`, `AttachedAreRegistered`, and the refinement of
`VerbositySettings`. `TreeAssumption` says that ancestors form a chain and that the constructor's
internal domains are children of the root, `SettingsAssumption` that clients and configuration
use verbosities and priorities.

The lists of all domains are looked at as a *forest*, a function, so that lemmas can say what one
operation of class Domain does to it: `SetVerbosity` changes no list of loggers, raises no
priority above that of a domain below, and lowers none (`SetVerbosityKeeps`); `AddLogger` appends at
the same index everywhere (`AddLoggerKeeps`); `RemoveLogger` takes the same index out everywhere
(`RemoveLoggerKeeps`); a new domain gets its parent's list (`ConfiguredFacts`). `IInv` consists of
`Aligned`, `Monotone`, `Known` (who is registered), `Read` (the configuration was read, except for
domains that the operation in progress still has to do), and `Calling`, what a nested call
relies on: the domain its caller waits for exists and is in the tree the logger is added to.
`PriorityMonotone` needs `IndexAligned` (else an index means two loggers), `ConfigurationRead` needs
both: the configuration's answer is written to one index of the new domain's list, and must
neither meet another logger there nor lower a priority.

The refinement has a second invariant, `MapInv`: each domain has a nearest existing ancestor, and
what is being set was asked for. The lemmas ending in `Exact` say what an operation sets, not only
what it keeps: that `SetVerbosity` stops its recursion at the first domain of higher priority
sets just those domains below that have no higher priority is `SetVerbosityExact`, which needs
`Monotone`. Those ending in `Maps` show that a step is `Set`, `Configure`, `ConfigureAll`, `Attach` or
`Detach`, or changes no setting. The case that matters is `CreateDomainMaps`: a new domain takes
over for itself and all that would be created below it, and has to agree with what those had from
its parent, but for the configuration.

### DomainSubstitution

`DomainSubstitutionProofs` proves `TreesSound`, `ReturnedIsFixpoint` and `GivingUpIsReported` for any
rules, paths, scopes, registered names and comparison of letters, from `BoundsAssumption` and
`PathsAssumption`.

Two of the properties speak of the call that returned last. The invariant has to speak of every
call on the stack, also of those below a report that is being logged. A call that looks at the rules
has found its domain, and while its pass has substituted nothing, no rule that it has seen
matches that domain; so none matches when it returns, or its budget is spent (`Sound`). A call
below another one still looks for its domain, or has warned and given up (`Waiting`): what the
calls above create, and the rules they see, changes neither, since domains are never removed and
a warning that was given is not taken back. `TreesSound` (each domain has its parent, and no two have the same
names for the comparison) needs that the first domain that is missing is new in any spelling, and
that the one before it is there (`KnownPrefixExists`, `SameNamesPrefix`, `CreatedSound`).

Full paths, names and the resolved path are recursive functions. The library's induction
theorems cannot be used, so the module derives what it needs from the least number
principle, as facts about sets: a set that has 0, and with each number up to N the next one, has
all of them (`UpTo`, from `LeastExists`), and a function that is given by its first value and a step,
or by what follows its argument, exists and has its type (`Recursion`, `RecursionDown`). What the
recursive functions compute is not stated, only that they give paths.

### LogStatements

`LogStatementsProofs` proves `NothingLeaked`, `OnceExact` and `PrefixesInOrder` for any domains, threads,
keys, prefixes, calls and nesting of statements. The assumptions are that clients make a number of
calls (`ConstantsAssumption`), that the domains are trees (`DomainsAssumption`), and of Once
(`OnceAssumption`) that calls name a domain, the global scope or the file's, and a quantity, and
that no group is named like the key of a line: if one were, the two would share a counter
(`Lox::once` puts both into one map).

`NothingLeaked` is not inductive: what an operation deletes has to be in no other place, or
something that is referred to would be gone. `IInv` says that each object has one owner, a place in
the list of one scope or one domain, one key, or the one report that still shows it
(`OwnedOnce`); that what is live is what has an owner (`AllOwned`); and that numbers of live
objects are those of earlier calls (`FreshNumber`), so that a new object is not another one's.
The three ways in which a list of owners changes are lemmas (`ListExtended`, `ListSet`,
`ListShortened`), and so is that delivering statements, nested ones included, leaves what the
frames below wait to delete (`BeginKeeps`, `FrontKeeps`).

`OnceExact` rests on `CounterShared`: two calls of Once use the same counter of the code exactly
if the manual says that they count together. The counter then is the number of calls, up to the
quantity (`CountersExact`), and one call more changes counter and executions alike (`OneMore`,
with `EachNth` for the division).

`PrefixesInOrder` has two parts. The first is that the loop of `Lox::log` makes the promised list
(`CollectedIsPromised`). It needs that a scope that is not a thread's keeps at most one prefix
(`OneEach`): the walk meets the prefixes of threads from the newest to the oldest, but would turn
round the others. The walk over the domains and the path of the promise go up the same parents, so that
one is the other turned round (`WalkReversed`), the list after i values has the last i prefixes of
the path (`InsertingIs`), and the first excluding prefix that the walk meets is the path's last one
(`FirstIsLast`). All three recursions are functions that a rank determines (`RankedRecursion`). The
second part is that the list and the caller, of which there is one each, belong to the statement
on top of the stack until another one begins (`Prepared`): all below it are interrupted, its list is
empty or the promised one, and the prefixes stay as they were when it began.

### ScopeInfo

`ScopeProofs` proves `RecentFilesCached` and `TrimmedPathFresh` for a cache of any size, any
files and any rules. For the first one the order of the cache is made part of the invariant:
there is an assignment p of entries to the recent files such that an entry that is not among the
first k of them was not used after the k-th one (`Ordered`). `Set` has three cases (the file is in
the cache, an entry was never used, the oldest is taken), and in each one the assignment for the
new list is given. The subtle part is the file name nullptr, which matches every entry that was
never used, or was cleared. `TrimmedPathFresh` follows from `EntriesFresh`, the same for all of the
cache.

### ScopeStore

`ScopeProofs` proves `TypeOK`, `OwnedOnce`, the refinement of `ScopeMap` and `WalkKeepsScopes` for any
places, threads, texts, number of calls and levels that are cut from a path, and for any alphabet. The
assumptions are that paths, files and methods are sequences over it (`PlaceAssumption`, which also
says that files and methods are not empty and have no separator in them), and that the bounds are
numbers (`LimitsAssumption`). There is no assumption on the
names of directories. The statement of `WalkKeepsScopes` is about places in a directory without '#'
(`PlainPlaces`), one by one, whatever the others are called: a directory `/x/f#` is a beginning of keys that is
itself the key of the file `f` in `/x`, and statements below it are given that file's values, too.
TLC finds such a walk in two calls if the property is asked of `/y/f#` of the instance.

The invariant `StoreIInv` has two halves. The first one is about the PathMap: the nodes are a tree
whose siblings differ in their first character (`Tree`), and each node spells a key, what its
parent spells followed by its own path (`Spelling`). What a descent for a key meets is then known
without looking at the recursion: at the node where it ends, the key and what the node spells
agree up to there, and neither the node's path nor a child goes on with the key (`DescentEnds`).
So a node that is split keeps a part of its path that is not empty, and a node that is added differs
from its siblings (`SplitTree`, `AddTree`); both leave each value at a node that spells the same
key as before (`Moved`), and the node that is found or made for a key spells it (`CreateTree`).
The second half is about the objects: no value is at two nodes or twice in the lists, and the
nodes, the global scope and the lists divide the objects that are not deleted among them
(`Places3`). Every call but `Clear` takes at most one object from its place, and puts at most one
there (`Changed`: `InsertChanges`, `RemoveChanges`); it deletes the one and has made the other
(`Booked`). `CallKeeps` joins the two.

The refinement needs what a map of lists takes for granted: that a key has one place in the tree.
`ChildTowards` says that a node which spells a beginning of what another one spells has a child on
the way to it, and siblings differ, so no two nodes spell the same (`SpelledOnce`). `FullPath`,
which the abstract map is defined with, is what a node spells (`FullPathIs`). Thus the list of a
scope in source code is the value of the one node with its key (`CodeExact`). Splitting a node
moves values to nodes that spell the same, so it changes no list (`HoldsMoved`), and a call
changes the list of its own scope by one value and no other (`Becomes`, `MayBecome`), which is a
step of `ScopeMap` or none (`BecomesMaps`). That the value put into a list is new there follows
from `StoreIInv` (`StoredLive`).

The walk of `WalkKeepsScopes` goes up the parents of nodes, and what it is compared with goes up the
directories of a path. Both are the values of the beginnings of one key, that of the method. Of
the nodes that spell a beginning of it each spells a longer one than its parent, and the parent is
the deepest node above (`ParentDeepest`), so a walk from the deepest one collects the values of
all beginnings, longest first (`Collects`). Only keys of scopes have values (`OnlyKeys`, an
invariant of its own), and the beginnings that are keys end with the method, with the file, or
with a '/' of the path (`BeginningsOfKey`): the values collected are those of the scopes around
(`AroundIs`). The walk of the code starts at `Get`: that is the deepest node, or one without a value
right below it, or one that matched in part and whose value is the one too many (`WalkStarts`).

That `Descent` ends, a recursion over nodes and characters, is derived from the least number
principle: each step lowers what is left of the key, but for the one from the root
(`RankedRecursion`, `DescentIs`).

### Reports

`ReportsProofs` proves `NoReportLost` for any number of threads and calls. A call is a list of
steps, so the invariant says that each thread's list is *sound*: there is a number for each place
in it, how often the thread will hold the lock of Report there, which fits the steps, ends with
zero, and is not zero wherever the code needs the lock. `Keeps` is the lemma form: a block of
steps can be put in front of any sound list. The blocker is set only while a thread has the step
that resets it in its list (`Blocked`), and that thread holds the lock up to there.

### Only model-checked

* Liveness (`LockPassedOn`, `EveryCallReturns`, `CallsReturnWhenApart`): fairness and ENABLED are out
  of the prover's reach.

## 5. Not modelled, and the plan

Left out for good, because no property of the program's own state is at stake: string processing
and formatting (paths are model values or short sequences), meta information of log lines, the
console's escape sequences and colours, output to files and memory (`PlainTextLogger`,
`TextFileLogger`, `MemoryLogger`: stream I/O under the logger's lock, with an error flag), `ScopeDump`
and `State`, INI file syntax and configuration plug-ins (the configuration is a constant answer
with a priority), time and system utilities, initialisation and termination (single threaded),
build and unit test code, and the ports to C# and Java. `ThreadLockNR` is the std::mutex it
contains. Halt flags of `Report` end the program.

Every invariant and action property that a run finds to hold is also proved; what a proof cannot
reach is listed at the end of the section on proofs.
