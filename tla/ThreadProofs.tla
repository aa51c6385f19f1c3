---------------------------- MODULE ThreadProofs ----------------------------
(***************************************************************************)
(* The threads of ALib and the lock that they use: what MCThreadLock.cfg   *)
(* and MCThreadRegistry.cfg check on small instances, proved for every     *)
(* instance. The `Threads' of ThreadLock stand for the objects that        *)
(* CurrentThread gives to the threads of ThreadRegistry.                   *)
(***************************************************************************)
EXTENDS ThreadLock, ThreadRegistry, TLAPS

-----------------------------------------------------------------------------
(***************************************************************************)
(* ThreadLock, for every set of threads, nesting depth, time limit and     *)
(* warning threshold: its safety invariants, and that it implements        *)
(* RecursiveLock.                                                          *)
(*                                                                         *)
(* The inductive invariant adds to the checked properties what ties the    *)
(* program counters to the mutex and to owner: only the holder of the      *)
(* mutex is between the two writes of a section (MutexHolder), the owner   *)
(* in mode Safe is the thread that holds acquirements or is about to       *)
(* (SafeOwner), and mode Unsafe has one user, whose count is the counter   *)
(* (UnsafeUser). For a thread inside DbgCountAcquirements it says what its *)
(* reads so far tell of it, and that a lock that was read as free still is *)
(* or was taken meanwhile (QuerySound).                                    *)
(***************************************************************************)

MutexHolder == \A t \in Threads : mutex = t <=> pc[t] \in Inside

EnterBound == \A t \in Threads : pc[t] = "enter" => held[t] < MaxDepth

SafeOwner ==
    safeness = "Safe" =>
        /\ owner = NoThread => cntAcquirements = 0
        /\ \A t \in Threads :
              /\ held[t] > 0 => owner = t /\ cntAcquirements = held[t]
              /\ owner = t => held[t] > 0 \/ pc[t] \in {"taking", "releasing"}
              /\ pc[t] = "taking" => owner = t /\ cntAcquirements = 0
              /\ pc[t] = "releasing" => owner = t /\ cntAcquirements = held[t]
              /\ pc[t] = "depthReport" => held[t] > 0
              /\ pc[t] \in {"waiting", "woken", "waitReport"} => held[t] = 0 /\ owner # t

UnsafeUser ==
    safeness = "Unsafe" =>
        /\ owner = NoThread
        /\ \A t \in Threads : pc[t] \in {"idle", "dbgDone"}
        /\ \A t \in Threads :
              (\A u \in Threads \ {t} : held[u] = 0) => cntAcquirements = held[t]
        /\ \A t, u \in Threads : t # u => held[t] = 0 \/ held[u] = 0

QuerySound ==
    \A t \in Threads :
        /\ t \in alarmed => held[t] = 0 /\ pc[t] \in Reading \cup {"dbgDone"}
        /\ pc[t] \in {"dbgFree", "dbgFreeCount"} =>
              held[t] = 0 /\ (owner = NoThread \/ t \in overtaken)
        /\ pc[t] = "dbgMine" => held[t] > 0
        /\ pc[t] = "dbgOthers" => held[t] = 0

LockInv == /\ TypeOK
           /\ MutexHolder
           /\ EnterBound
           /\ SafeOwner
           /\ UnsafeUser
           /\ NoLostWakeup

IInv == LockInv /\ QuerySound /\ DbgCountOfHolder

-----------------------------------------------------------------------------
\* The constructor establishes the inductive invariant.
THEOREM InitIInv == Init => IInv
<1> SUFFICES ASSUME Init
             PROVE  IInv
  OBVIOUS
<1> USE MaxDepthAssumption, NoThreadAssumption
    DEF Init, Inside, Reading, Locations, LockModes, Safeness
<1>1. TypeOK
  <2>1. 0 \in 0..MaxDepth
    OBVIOUS
  <2>2. held \in [Threads -> 0..MaxDepth]
    BY <2>1
  <2>3. pc \in [Threads -> Locations] /\ hasWarned \in [Threads -> BOOLEAN]
    OBVIOUS
  <2>4. counted \in [Threads -> -MaxDepth..MaxDepth]
    OBVIOUS
  <2> QED
    BY <2>1, <2>2, <2>3, <2>4 DEF TypeOK
<1>2. MutexHolder /\ EnterBound /\ SafeOwner /\ UnsafeUser
  BY DEF MutexHolder, EnterBound, SafeOwner, UnsafeUser
<1>3. NoLostWakeup
  BY DEF NoLostWakeup, Waiting
<1>4. QuerySound /\ DbgCountOfHolder
  BY DEF QuerySound, DbgCountOfHolder
<1> QED
  BY <1>1, <1>2, <1>3, <1>4 DEF IInv, LockInv

\* Every step of every thread, the crash and the refused SetSafeness included, preserves it.
LEMMA NextLockInv == LockInv /\ [Next]_vars => LockInv'
<1> SUFFICES ASSUME LockInv, [Next]_vars
             PROVE  LockInv'
  OBVIOUS
<1> USE MaxDepthAssumption, NoThreadAssumption, ThresholdAssumption
    DEF LockInv, TypeOK, Locations, Inside, Reading, LockModes, Safeness,
        MutexHolder, EnterBound, SafeOwner, UnsafeUser, NoLostWakeup, Waiting, locking, query
<1>1. ASSUME NEW t \in Threads, AcquireUnsafe(t)
      PROVE  LockInv'
  BY <1>1 DEF AcquireUnsafe, Alone, Nested
<1>2. ASSUME NEW t \in Threads, ReleaseUnsafe(t)
      PROVE  LockInv'
  BY <1>2 DEF ReleaseUnsafe, Alone, Unnested
<1>3. ASSUME NEW t \in Threads, AcquireCall(t)
      PROVE  LockInv'
  BY <1>3 DEF AcquireCall
<1>4. ASSUME NEW t \in Threads, AcquireNested(t)
      PROVE  LockInv'
  BY <1>4 DEF AcquireNested, Nested
<1>5. ASSUME NEW t \in Threads, DepthReported(t)
      PROVE  LockInv'
  BY <1>5 DEF DepthReported
<1>6. ASSUME NEW t \in Threads, AcquireWait(t)
      PROVE  LockInv'
  BY <1>6 DEF AcquireWait
<1>7. ASSUME NEW t \in Threads, Timeout(t)
      PROVE  LockInv'
  BY <1>7 DEF Timeout
<1>8. ASSUME NEW t \in Threads, SpuriousWakeup(t)
      PROVE  LockInv'
  BY <1>8 DEF SpuriousWakeup
<1>9. ASSUME NEW t \in Threads, LateReturn(t)
      PROVE  LockInv'
  BY <1>9 DEF LateReturn
<1>10. ASSUME NEW t \in Threads, WaitReported(t)
      PROVE  LockInv'
  BY <1>10 DEF WaitReported, Overtakes
<1>11. ASSUME NEW t \in Threads, WarningCrashes(t)
      PROVE  LockInv'
  BY <1>11 DEF WarningCrashes
<1>12. ASSUME NEW t \in Threads, AcquireTake(t)
      PROVE  LockInv'
  BY <1>12 DEF AcquireTake, Overtakes
<1>13. ASSUME NEW t \in Threads, AcquireTaken(t)
      PROVE  LockInv'
  BY <1>13 DEF AcquireTaken
<1>14. ASSUME NEW t \in Threads, ReleaseCount(t)
      PROVE  LockInv'
  BY <1>14 DEF ReleaseCount, Unnested
<1>15. ASSUME NEW t \in Threads, ReleaseKept(t)
      PROVE  LockInv'
  BY <1>15 DEF ReleaseKept
<1>16. ASSUME NEW t \in Threads, ReleaseFreed(t)
      PROVE  LockInv'
  BY <1>16 DEF ReleaseFreed, NotifyOne
<1>17. ASSUME NEW t \in Threads, NEW s \in Safeness, SetSafeness(t, s)
      PROVE  LockInv'
  BY <1>17 DEF SetSafeness, Locked, Alone
<1>18. ASSUME UNCHANGED vars
      PROVE  LockInv'
  BY <1>18 DEF vars
<1>19. ASSUME NEW t \in Threads, DbgCountUnsafe(t)
      PROVE  LockInv'
  BY <1>19 DEF DbgCountUnsafe, Alone
<1>20. ASSUME NEW t \in Threads, DbgCountCall(t) \/ DbgReadOwner(t)
      PROVE  LockInv'
  BY <1>20 DEF DbgCountCall, DbgReadOwner
<1>21. ASSUME NEW t \in Threads, DbgAssert(t)
      PROVE  LockInv'
  BY <1>21 DEF DbgAssert
<1>22. ASSUME NEW t \in Threads, DbgReadCount(t)
      PROVE  LockInv'
  BY <1>22 DEF DbgReadCount
<1>23. ASSUME NEW t \in Threads, DbgReturn(t)
      PROVE  LockInv'
  BY <1>23 DEF DbgReturn
<1> QED
  BY <1>1, <1>2, <1>3, <1>4, <1>5, <1>6, <1>7, <1>8, <1>9, <1>10, <1>11, <1>12, <1>13, <1>14, <1>15, <1>16, <1>17, <1>18, <1>19, <1>20, <1>21, <1>22, <1>23
     DEF Next, Call, Proceed, Crashed

\* What a thread inside DbgCountAcquirements has read stays true of it, whatever others do.
LEMMA NextQuery ==
  ASSUME IInv, [Next]_vars
  PROVE  QuerySound' /\ DbgCountOfHolder'
<1> USE MaxDepthAssumption, NoThreadAssumption
    DEF IInv, LockInv, TypeOK, Locations, Inside, Reading, LockModes, Safeness,
        SafeOwner, UnsafeUser, QuerySound, DbgCountOfHolder, locking, query
<1>1. ASSUME NEW t \in Threads, AcquireUnsafe(t) \/ ReleaseUnsafe(t)
      PROVE  QuerySound' /\ DbgCountOfHolder'
  BY <1>1 DEF AcquireUnsafe, ReleaseUnsafe, Alone, Nested, Unnested
<1>2. ASSUME NEW t \in Threads,
             AcquireCall(t) \/ DepthReported(t) \/ AcquireWait(t) \/ Timeout(t)
      PROVE  QuerySound' /\ DbgCountOfHolder'
  BY <1>2 DEF AcquireCall, DepthReported, AcquireWait, Timeout
<1>3. ASSUME NEW t \in Threads, SpuriousWakeup(t) \/ LateReturn(t) \/ WarningCrashes(t)
      PROVE  QuerySound' /\ DbgCountOfHolder'
  BY <1>3 DEF SpuriousWakeup, LateReturn, WarningCrashes
<1>4. ASSUME NEW t \in Threads, AcquireNested(t)
      PROVE  QuerySound' /\ DbgCountOfHolder'
  BY <1>4 DEF AcquireNested, Nested
<1>5. ASSUME NEW t \in Threads, WaitReported(t)
      PROVE  QuerySound' /\ DbgCountOfHolder'
  BY <1>5 DEF WaitReported, Overtakes
<1>6. ASSUME NEW t \in Threads, AcquireTake(t)
      PROVE  QuerySound' /\ DbgCountOfHolder'
  BY <1>6 DEF AcquireTake, Overtakes
<1>7. ASSUME NEW t \in Threads, AcquireTaken(t)
      PROVE  QuerySound' /\ DbgCountOfHolder'
  BY <1>7 DEF AcquireTaken
<1>8. ASSUME NEW t \in Threads, ReleaseCount(t)
      PROVE  QuerySound' /\ DbgCountOfHolder'
  BY <1>8 DEF ReleaseCount, Unnested
<1>9. ASSUME NEW t \in Threads, ReleaseKept(t)
      PROVE  QuerySound' /\ DbgCountOfHolder'
  BY <1>9 DEF ReleaseKept
<1>10. ASSUME NEW t \in Threads, ReleaseFreed(t)
      PROVE  QuerySound' /\ DbgCountOfHolder'
  BY <1>10 DEF ReleaseFreed, NotifyOne, Waiting
<1>11. ASSUME NEW t \in Threads, NEW s \in Safeness, SetSafeness(t, s)
      PROVE  QuerySound' /\ DbgCountOfHolder'
  BY <1>11 DEF SetSafeness, Locked, Alone
<1>12. ASSUME UNCHANGED vars
      PROVE  QuerySound' /\ DbgCountOfHolder'
  BY <1>12 DEF vars
<1>13. ASSUME NEW t \in Threads, DbgCountUnsafe(t)
      PROVE  QuerySound' /\ DbgCountOfHolder'
  BY <1>13 DEF DbgCountUnsafe, Alone
<1>14. ASSUME NEW t \in Threads, DbgCountCall(t)
      PROVE  QuerySound' /\ DbgCountOfHolder'
  BY <1>14 DEF DbgCountCall
<1>15. ASSUME NEW t \in Threads, DbgAssert(t)
      PROVE  QuerySound' /\ DbgCountOfHolder'
  BY <1>15 DEF DbgAssert
<1>16. ASSUME NEW t \in Threads, DbgReadOwner(t)
      PROVE  QuerySound' /\ DbgCountOfHolder'
  BY <1>16 DEF DbgReadOwner
<1>17. ASSUME NEW t \in Threads, DbgReadCount(t)
      PROVE  QuerySound' /\ DbgCountOfHolder'
  BY <1>17 DEF DbgReadCount
<1>18. ASSUME NEW t \in Threads, DbgReturn(t)
      PROVE  QuerySound' /\ DbgCountOfHolder'
  BY <1>18 DEF DbgReturn
<1> QED
  BY <1>1, <1>2, <1>3, <1>4, <1>5, <1>6, <1>7, <1>8, <1>9, <1>10, <1>11, <1>12, <1>13, <1>14,
     <1>15, <1>16, <1>17, <1>18
     DEF Next, Call, Proceed, Crashed

THEOREM NextIInv == IInv /\ [Next]_vars => IInv'
  BY NextLockInv, NextQuery DEF IInv

\* The inductive invariant holds in every reachable state.
THEOREM Invariant == Spec => []IInv
  BY InitIInv, NextIInv, PTL DEF Spec

\* Type correctness: the nesting never exceeds the clients' bound, in either mode.
THEOREM TypeCorrect == Spec => []TypeOK
<1>1. IInv => TypeOK
  BY DEF IInv, LockInv
<1> QED
  BY <1>1, Invariant, PTL

\* A thread that holds acquirements in mode Safe owns the lock, with exactly its count.
THEOREM OwnerHoldsAlways == Spec => []OwnerHolds
<1>1. IInv => OwnerHolds
  BY DEF IInv, LockInv, SafeOwner, OwnerHolds
<1> QED
  BY <1>1, Invariant, PTL

\* The unprotected reads of DbgCountAcquirements tell a holder its exact count, and mislead another
\* thread only if the lock was taken between them.
THEOREM DbgCountOfHolderAlways == Spec => []DbgCountOfHolder
<1>1. IInv => DbgCountOfHolder
  BY DEF IInv
<1> QED
  BY <1>1, Invariant, PTL

\* No release of the last acquirement leaves the lock free with all its waiters asleep.
THEOREM NoLostWakeupAlways == Spec => []NoLostWakeup
<1>1. IInv => NoLostWakeup
  BY DEF IInv, LockInv
<1> QED
  BY <1>1, Invariant, PTL

-----------------------------------------------------------------------------
\* Two threads never hold the lock at once, in mode Unsafe either.
LEMMA HeldByOne ==
  ASSUME IInv, NEW t \in Threads, NEW u \in Threads, t # u
  PROVE  held[t] = 0 \/ held[u] = 0
  BY DEF IInv, LockInv, TypeOK, Safeness, SafeOwner, UnsafeUser

\* Every step of the lock is a step of the abstract lock or changes nothing its clients see.
THEOREM StepRefines == IInv /\ [Next]_vars => [Abstract!Next]_(Abstract!vars)
<1> SUFFICES ASSUME IInv, [Next]_vars
             PROVE  [Abstract!Next]_(Abstract!vars)
  OBVIOUS
<1> USE MaxDepthAssumption, NoThreadAssumption, ThresholdAssumption DEF IInv, LockInv, TypeOK, locking, query
<1>1. ASSUME NEW t \in Threads, AcquireUnsafe(t)
      PROVE  Abstract!Acquire(t)
  BY <1>1 DEF AcquireUnsafe, Alone, Nested, Abstract!Acquire, Abstract!Nested
<1>2. ASSUME NEW t \in Threads, AcquireNested(t)
      PROVE  Abstract!Acquire(t)
  BY <1>2 DEF AcquireNested, Nested, EnterBound, SafeOwner, UnsafeUser, Safeness,
              Abstract!Acquire, Abstract!Nested
<1>3. ASSUME NEW t \in Threads, AcquireTaken(t)
      PROVE  Abstract!Acquire(t)
  <2>1. safeness = "Safe" /\ owner = t /\ cntAcquirements = 0
    BY <1>3 DEF AcquireTaken, SafeOwner, UnsafeUser, Safeness
  <2>2. \A u \in Threads : held[u] = 0
    BY <2>1 DEF SafeOwner
  <2>3. Abstract!Nested(held[t]) = 1
    BY <2>2 DEF Abstract!Nested
  <2>4. held[t] < MaxDepth
    BY <2>2
  <2> QED
    BY <1>3, <2>2, <2>3, <2>4 DEF AcquireTaken, Abstract!Acquire
<1>4. ASSUME NEW t \in Threads, ReleaseUnsafe(t) \/ ReleaseCount(t)
      PROVE  Abstract!Release(t)
  BY <1>4 DEF ReleaseUnsafe, ReleaseCount, Unnested, Abstract!Release, Abstract!Unnested
<1>5. ASSUME NEW t \in Threads,
             \/ AcquireCall(t) \/ DepthReported(t) \/ AcquireWait(t) \/ Timeout(t)
             \/ SpuriousWakeup(t) \/ LateReturn(t) \/ WaitReported(t) \/ WarningCrashes(t)
             \/ AcquireTake(t) \/ ReleaseKept(t) \/ ReleaseFreed(t)
             \/ \E s \in Safeness : SetSafeness(t, s)
             \/ DbgCountUnsafe(t) \/ DbgCountCall(t) \/ DbgAssert(t) \/ DbgReadOwner(t)
             \/ DbgReadCount(t) \/ DbgReturn(t)
      PROVE  UNCHANGED Abstract!vars
  BY <1>5 DEF AcquireCall, DepthReported, AcquireWait, Timeout, SpuriousWakeup, LateReturn,
              WaitReported, WarningCrashes, AcquireTake, ReleaseKept, ReleaseFreed,
              SetSafeness, DbgCountUnsafe, DbgCountCall, DbgAssert, DbgReadOwner, DbgReadCount,
              DbgReturn, Abstract!vars
<1>6. ASSUME UNCHANGED vars
      PROVE  UNCHANGED Abstract!vars
  BY <1>6 DEF vars, Abstract!vars
<1> QED
  BY <1>1, <1>2, <1>3, <1>4, <1>5, <1>6 DEF Next, Call, Proceed, Crashed, Abstract!Next

\* ThreadLock implements RecursiveLock: mutual exclusion and exact counting of nested
\* acquirements, whatever the interleaving, the wakeups and the timeouts.
THEOREM Refinement == Spec => ImplementsRecursiveLock
<1>1. Init => Abstract!Init
  BY DEF Init, LockModes, Abstract!Init, Abstract!LockModes
<1> QED
  BY <1>1, Invariant, StepRefines, PTL DEF Spec, ImplementsRecursiveLock, Abstract!Spec

-----------------------------------------------------------------------------
(***************************************************************************)
(* ThreadRegistry, for any number of threads, objects and platform ids.    *)
(*                                                                         *)
(* The inductive invariant says where an object can be found: in the map   *)
(* only under the platform id of its thread (MapSound), nowhere before     *)
(* Start has entered it (NotYetFound), and, once given to a thread that    *)
(* runs, only under that thread's platform id (GivenSound). Ids are given  *)
(* once (IdsSound). A fresh thread owns the entry of its id (FreshSound).  *)
(***************************************************************************)

Phases == {"new", "constructed", "running", "ended", "joined", "deleted"}
Unbegun == {"new", "constructed"}
Taken   == {"running", "ended"}

RegistryTypes ==
         /\ registryMutex \in Objects \cup {Free}
         /\ nextThreadId \in Int /\ nextSystemThreadId \in Int
         /\ nextSystemThreadId < nextThreadId
         /\ phase \in [AllThreads -> Phases]
         /\ platformId \in [AllThreads -> PlatformIds]
         /\ identities \in [AllThreads -> SUBSET (Objects \cup Systems)]
         /\ fresh \subseteq AllThreads /\ \A x \in fresh : phase[x] \notin Unbegun
         /\ registryMutex # Free => phase[registryMutex] \in Taken

PlatformUnique ==
    \A x, y \in AllThreads :
        phase[x] \in Taken /\ phase[y] \in Taken /\ platformId[x] = platformId[y] => x = y

\* Only what was constructed has an id, no id is given twice.
IdsSound ==
    /\ \A a \in DOMAIN idOf :
          idOf[a] \in Int /\ nextSystemThreadId < idOf[a] /\ idOf[a] < nextThreadId
    /\ \A a, b \in DOMAIN idOf : idOf[a] = idOf[b] => a = b
    /\ \A n \in Int : System(n) \in DOMAIN idOf => nextSystemThreadId < n
    /\ \A o \in Objects : phase[o] # "new" => o \in DOMAIN idOf
    /\ \A q \in DOMAIN threadMap : threadMap[q] \in DOMAIN idOf
    /\ \A x \in AllThreads : identities[x] \subseteq DOMAIN idOf

MapSound ==
    /\ \A q \in DOMAIN threadMap :
          /\ threadMap[q] \in Objects \cup Systems
          /\ threadMap[q] \in Objects =>
                q = platformId[threadMap[q]] /\ phase[threadMap[q]] \in Taken \cup {"joined"}
    /\ \A p, q \in DOMAIN threadMap : threadMap[p] = threadMap[q] => p = q

NotYetFound ==
    /\ \A o \in Objects : phase[o] \in Unbegun \/ registryMutex = o =>
          /\ \A q \in DOMAIN threadMap : threadMap[q] # o
          /\ \A x \in AllThreads : o \notin identities[x]
    /\ \A x \in AllThreads : phase[x] \in Unbegun => identities[x] = {}

GivenSound ==
    /\ \A x \in AllThreads : Running(x) =>
          \A q \in DOMAIN threadMap : threadMap[q] \in identities[x] => q = platformId[x]
    /\ \A x, y \in AllThreads : Running(x) /\ Running(y) /\ x # y =>
          identities[x] \cap identities[y] = {}

FreshThread(x) ==
    LET p == platformId[x]
    IN  /\ \A o \in Objects : phase[o] = "joined" => platformId[o] # p
        /\ x \in Objects =>
              /\ identities[x] \subseteq {x}
              /\ registryMutex = x => p \notin DOMAIN threadMap
              /\ registryMutex # x => p \in DOMAIN threadMap /\ threadMap[p] = x
        /\ x \notin Objects =>
              /\ \A a \in identities[x] : p \in DOMAIN threadMap /\ threadMap[p] = a
              /\ p \in DOMAIN threadMap => threadMap[p] \notin Objects

FreshSound == \A x \in fresh : Running(x) => FreshThread(x)

RegistryIInv == /\ RegistryTypes /\ PlatformUnique /\ IdsSound /\ MapSound
                /\ NotYetFound /\ GivenSound /\ FreshSound
-----------------------------------------------------------------------------
\* The objects of system threads differ by their ids, and from those of ALib's threads.
LEMMA SystemObjects ==
    /\ \A m, n \in Int : System(m) = System(n) => m = n
    /\ \A n \in Int : System(n) \in Systems /\ System(n) \notin Objects
BY ThreadsAssumption DEF System, Systems

\* ALIB::Init establishes it, for any platform id of the main thread.
THEOREM RegistryStarts == RegistryInit => RegistryIInv
<1> SUFFICES ASSUME RegistryInit
             PROVE  RegistryIInv
  OBVIOUS
<1> USE ThreadsAssumption, SystemObjects
    DEF RegistryInit, Phases, Unbegun, Taken, AllThreads, Running
<1>1. RegistryTypes
  BY DEF RegistryTypes
<1>2. PlatformUnique /\ MapSound /\ NotYetFound /\ GivenSound
  BY DEF PlatformUnique, MapSound, NotYetFound, GivenSound
<1>3. IdsSound
  BY DEF IdsSound
<1>4. FreshSound
  BY DEF FreshSound, FreshThread
<1> QED
  BY <1>1, <1>2, <1>3, <1>4 DEF RegistryIInv

\* Every step the inductive invariant.
THEOREM RegistryStep == RegistryIInv /\ [RegistryNext]_registryVars => RegistryIInv'
<1> SUFFICES ASSUME RegistryIInv, [RegistryNext]_registryVars
             PROVE  RegistryIInv'
  OBVIOUS
<1> USE ThreadsAssumption, SystemObjects
    DEF RegistryIInv, RegistryTypes, PlatformUnique, IdsSound, MapSound, NotYetFound, GivenSound,
        FreshSound, FreshThread,
        Phases, Unbegun, Taken, AllThreads, Running, Reserved, Leaving, Entries
<1>1. ASSUME NEW x \in AllThreads, NEW p \in PlatformIds, ForeignBegins(x, p)
     PROVE  RegistryIInv'
  <2>1. RegistryTypes'
    BY <1>1 DEF ForeignBegins, Begins
  <2>2. PlatformUnique'
    BY <1>1 DEF ForeignBegins, Begins
  <2>3. IdsSound'
    BY <1>1 DEF ForeignBegins, Begins
  <2>4. MapSound'
    BY <1>1 DEF ForeignBegins, Begins
  <2>5. NotYetFound'
    BY <1>1 DEF ForeignBegins, Begins
  <2>6. GivenSound'
    BY <1>1 DEF ForeignBegins, Begins
  <2>7. FreshSound'
    BY <1>1 DEF ForeignBegins, Begins
  <2> QED
    BY <2>1, <2>2, <2>3, <2>4, <2>5, <2>6, <2>7
<1>2. ASSUME NEW x \in AllThreads, NEW p \in PlatformIds, Start(x, p)
     PROVE  RegistryIInv'
  <2>1. RegistryTypes'
    BY <1>2 DEF Start, Begins
  <2>2. PlatformUnique'
    BY <1>2 DEF Start, Begins
  <2>3. IdsSound'
    BY <1>2 DEF Start, Begins
  <2>4. MapSound'
    BY <1>2 DEF Start, Begins
  <2>5. NotYetFound'
    BY <1>2 DEF Start, Begins
  <2>6. GivenSound'
    BY <1>2 DEF Start, Begins
  <2>7. FreshSound'
    BY <1>2 DEF Start, Begins
  <2> QED
    BY <2>1, <2>2, <2>3, <2>4, <2>5, <2>6, <2>7
<1>3. ASSUME NEW x \in AllThreads, ForeignEnds(x)
     PROVE  RegistryIInv'
  <2>1. RegistryTypes'
    BY <1>3 DEF ForeignEnds
  <2>2. PlatformUnique'
    BY <1>3 DEF ForeignEnds
  <2>3. IdsSound'
    BY <1>3 DEF ForeignEnds
  <2>4. MapSound'
    BY <1>3 DEF ForeignEnds
  <2>5. NotYetFound'
    BY <1>3 DEF ForeignEnds
  <2>6. GivenSound'
    BY <1>3 DEF ForeignEnds
  <2>7. FreshSound'
    BY <1>3 DEF ForeignEnds
  <2> QED
    BY <2>1, <2>2, <2>3, <2>4, <2>5, <2>6, <2>7
<1>4. ASSUME NEW x \in AllThreads, RunReturns(x)
     PROVE  RegistryIInv'
  <2>1. RegistryTypes'
    BY <1>4 DEF RunReturns
  <2>2. PlatformUnique'
    BY <1>4 DEF RunReturns
  <2>3. IdsSound'
    BY <1>4 DEF RunReturns
  <2>4. MapSound'
    BY <1>4 DEF RunReturns
  <2>5. NotYetFound'
    BY <1>4 DEF RunReturns
  <2>6. GivenSound'
    BY <1>4 DEF RunReturns
  <2>7. FreshSound'
    BY <1>4 DEF RunReturns
  <2> QED
    BY <2>1, <2>2, <2>3, <2>4, <2>5, <2>6, <2>7
<1>5. ASSUME NEW x \in AllThreads, CurrentThread(x)
     PROVE  RegistryIInv'
  <2>1. RegistryTypes'
    BY <1>5 DEF CurrentThread, Inserted
  <2>2. PlatformUnique'
    BY <1>5 DEF CurrentThread, Inserted
  <2>3. IdsSound'
    BY <1>5 DEF CurrentThread, Inserted
  <2>4. MapSound'
    BY <1>5 DEF CurrentThread, Inserted
  <2>5. NotYetFound'
    BY <1>5 DEF CurrentThread, Inserted
  <2>6. GivenSound'
    BY <1>5 DEF CurrentThread, Inserted
  <2>7. FreshSound'
    BY <1>5 DEF CurrentThread, Inserted
  <2> QED
    BY <2>1, <2>2, <2>3, <2>4, <2>5, <2>6, <2>7
<1>6. ASSUME NEW x \in AllThreads, Construct(x)
     PROVE  RegistryIInv'
  <2>1. RegistryTypes'
    BY <1>6 DEF Construct
  <2>2. PlatformUnique'
    BY <1>6 DEF Construct
  <2>3. IdsSound'
    BY <1>6 DEF Construct
  <2>4. MapSound'
    BY <1>6 DEF Construct
  <2>5. NotYetFound'
    BY <1>6 DEF Construct
  <2>6. GivenSound'
    BY <1>6 DEF Construct
  <2>7. FreshSound'
    BY <1>6 DEF Construct
  <2> QED
    BY <2>1, <2>2, <2>3, <2>4, <2>5, <2>6, <2>7
<1>7. ASSUME StartInsert
     PROVE  RegistryIInv'
  <2>1. RegistryTypes'
    BY <1>7 DEF StartInsert, Inserted
  <2>2. PlatformUnique'
    BY <1>7 DEF StartInsert, Inserted
  <2>3. IdsSound'
    BY <1>7 DEF StartInsert, Inserted
  <2>4. MapSound'
    BY <1>7 DEF StartInsert, Inserted
  <2>5. NotYetFound'
    BY <1>7 DEF StartInsert, Inserted
  <2>6. GivenSound'
    BY <1>7 DEF StartInsert, Inserted
  <2>7. FreshSound'
    BY <1>7 DEF StartInsert, Inserted
  <2> QED
    BY <2>1, <2>2, <2>3, <2>4, <2>5, <2>6, <2>7
<1>8. ASSUME NEW x \in AllThreads, DestructorJoins(x)
     PROVE  RegistryIInv'
  <2>1. RegistryTypes'
    BY <1>8 DEF DestructorJoins
  <2>2. PlatformUnique'
    BY <1>8 DEF DestructorJoins
  <2>3. IdsSound'
    BY <1>8 DEF DestructorJoins
  <2>4. MapSound'
    BY <1>8 DEF DestructorJoins
  <2>5. NotYetFound'
    BY <1>8 DEF DestructorJoins
  <2>6. GivenSound'
    BY <1>8 DEF DestructorJoins
  <2>7. FreshSound'
    BY <1>8 DEF DestructorJoins
  <2> QED
    BY <2>1, <2>2, <2>3, <2>4, <2>5, <2>6, <2>7
<1>9. ASSUME NEW x \in AllThreads, DestructorErases(x)
     PROVE  RegistryIInv'
  <2>1. RegistryTypes'
    BY <1>9 DEF DestructorErases, Erased
  <2>2. PlatformUnique'
    BY <1>9 DEF DestructorErases, Erased
  <2>3. IdsSound'
    BY <1>9 DEF DestructorErases, Erased
  <2>4. MapSound'
    BY <1>9 DEF DestructorErases, Erased
  <2>5. NotYetFound'
    BY <1>9 DEF DestructorErases, Erased
  <2>6. GivenSound'
    BY <1>9 DEF DestructorErases, Erased
  <2>7. FreshSound'
    BY <1>9 DEF DestructorErases, Erased
  <2> QED
    BY <2>1, <2>2, <2>3, <2>4, <2>5, <2>6, <2>7
<1>10. ASSUME NEW x \in AllThreads, DeleteUnstarted(x)
     PROVE  RegistryIInv'
  <2>1. RegistryTypes'
    BY <1>10 DEF DeleteUnstarted
  <2>2. PlatformUnique'
    BY <1>10 DEF DeleteUnstarted
  <2>3. IdsSound'
    BY <1>10 DEF DeleteUnstarted
  <2>4. MapSound'
    BY <1>10 DEF DeleteUnstarted
  <2>5. NotYetFound'
    BY <1>10 DEF DeleteUnstarted
  <2>6. GivenSound'
    BY <1>10 DEF DeleteUnstarted
  <2>7. FreshSound'
    BY <1>10 DEF DeleteUnstarted
  <2> QED
    BY <2>1, <2>2, <2>3, <2>4, <2>5, <2>6, <2>7
<1>11. CASE UNCHANGED registryVars
  BY <1>11 DEF registryVars
<1> QED
  BY <1>1, <1>2, <1>3, <1>4, <1>5, <1>6, <1>7, <1>8, <1>9, <1>10, <1>11 DEF RegistryNext

-----------------------------------------------------------------------------
\* The inductive invariant holds in every reachable state.
THEOREM RegistryInvariant == RegistrySpec => []RegistryIInv
<1>1. RegistryInit => RegistryIInv
  BY RegistryStarts
<1>2. RegistryIInv /\ [RegistryNext]_registryVars => RegistryIInv'
  BY RegistryStep
<1> QED
  BY <1>1, <1>2, PTL DEF RegistrySpec

\* Two running threads never share an object, nor an id, with any number of threads
\* and whatever the platform does with its thread ids.
THEOREM UniqueIdentityAlways == RegistrySpec => []UniqueIdentity
<1>1. RegistryIInv => UniqueIdentity
  <2> SUFFICES ASSUME RegistryIInv,
                      NEW x \in AllThreads, NEW y \in AllThreads, x # y, Running(x), Running(y),
                      NEW a \in identities[x], NEW b \in identities[y]
               PROVE  a # b /\ idOf[a] # idOf[b]
    BY DEF UniqueIdentity
  <2>1. a # b
    BY DEF RegistryIInv, GivenSound
  <2>2. a \in DOMAIN idOf /\ b \in DOMAIN idOf
    BY DEF RegistryIInv, IdsSound
  <2> QED
    BY <2>1, <2>2 DEF RegistryIInv, IdsSound
<1> QED
  BY <1>1, RegistryInvariant, PTL

\* A thread with a platform id that nobody has left behind is always itself.
THEOREM FreshIsItselfAlways == RegistrySpec => []FreshIsItself
<1>1. RegistryIInv => FreshIsItself
  BY DEF RegistryIInv, FreshSound, FreshThread, FreshIsItself
<1> QED
  BY <1>1, RegistryInvariant, PTL

\* CurrentThread never finds an object that was deleted.
THEOREM NoDeletedObjectAlways == RegistrySpec => []NoDeletedObject
<1>1. RegistryIInv => NoDeletedObject
  BY DEF RegistryIInv, MapSound, NoDeletedObject, Taken
<1> QED
  BY <1>1, RegistryInvariant, PTL
=============================================================================
