----------------------------- MODULE ThreadLock -----------------------------
(***************************************************************************)
(* Class ThreadLock of alib/threads/threadlock.cpp: a recursive lock built *)
(* from a std::mutex, a std::condition_variable and the fields owner and   *)
(* cntAcquirements.                                                        *)
(*                                                                         *)
(* A thread is between two atomic steps wherever the code can be           *)
(* interrupted with an effect another thread sees: in front of the mutex,  *)
(* in the condition variable, inside the critical section between the      *)
(* writes of owner and cntAcquirements, between the reads of the two in    *)
(* DbgCountAcquirements, which uses no mutex, or while a report is written. *)
(*                                                                         *)
(* Clients follow the documented rules: one Release for every Acquire      *)
(* (class Owner), and mode Unsafe, like the switch of modes, only while no *)
(* other thread uses the lock.                                             *)
(***************************************************************************)
EXTENDS Integers

CONSTANTS Threads,                    \* the threads of the process
          NoThread,                   \* nullptr in field owner; no holder of the mutex
          MaxDepth,                   \* bound on the nesting of acquirements
          WaitWarningTimeLimit,       \* WaitWarningTimeLimitInMillis: 0 disables the warning
          RecursionWarningThreshold

ASSUME MaxDepthAssumption  == MaxDepth \in Nat \ {0}
ASSUME NoThreadAssumption  == NoThread \notin Threads
ASSUME TimeLimitAssumption == WaitWarningTimeLimit \in Nat
ASSUME ThresholdAssumption == RecursionWarningThreshold \in Nat \ {0}

LockModes == {"Recursive", "SingleLocks"}
Safeness  == {"Safe", "Unsafe"}

VARIABLES
    lockMode,         \* fixed by the constructor
    safeness,         \* GetSafeness(): "Unsafe" iff the mutex is not allocated
    mutex,            \* the thread inside a section of the std::mutex that others can see
    owner,
    cntAcquirements,
    pc,               \* where each thread is in the lock's code
    hasWarned,        \* the local variable of Acquire
    held,             \* the acquirements a thread was granted and has not begun to give back
    crashed,          \* the process ended by a dereferenced nullptr
    counted,          \* what DbgCountAcquirements is about to return to each thread
    alarmed,          \* the threads for which an assertion of DbgCountAcquirements failed
    overtaken         \* history: those that were in it while another thread took the lock

locking == <<lockMode, safeness, mutex, owner, cntAcquirements, hasWarned, held, crashed>>
query   == <<counted, alarmed, overtaken>>
vars    == <<locking, pc, query>>

(***************************************************************************)
(* "idle"         outside of the lock's code                               *)
(* "enter"        Acquire found mode Safe and is about to lock the mutex   *)
(* "waiting"      suspended in the condition variable, mutex released      *)
(* "woken"        back from the condition variable, about to relock        *)
(* "waitReport"   holds the mutex and writes the time limit warning        *)
(* "taking"       holds the mutex, has written owner but not the counter   *)
(* "depthReport"  holds the mutex and writes the recursion warning         *)
(* "releasing"    holds the mutex, has counted down but not given up owner *)
(*                                                                         *)
(* Inside DbgCountAcquirements, which uses no mutex:                       *)
(* "dbgFree"      has read owner as nullptr, about to assert the counter   *)
(* "dbgFreeCount" about to read the counter                                *)
(* "dbgOwned"     has read an owner, about to assert the counter           *)
(* "dbgOwner"     about to read owner again                                *)
(* "dbgMine", "dbgOthers"  has compared it, about to read the counter      *)
(* "dbgDone"      about to return                                          *)
(***************************************************************************)
Inside    == {"waitReport", "taking", "depthReport", "releasing"}
Reading   == {"dbgFree", "dbgFreeCount", "dbgOwned", "dbgOwner", "dbgMine", "dbgOthers"}
Locations == {"idle", "enter", "waiting", "woken", "dbgDone"} \cup Inside \cup Reading

TypeOK == /\ lockMode \in LockModes
          /\ safeness \in Safeness
          /\ mutex \in Threads \cup {NoThread}
          /\ owner \in Threads \cup {NoThread}
          /\ cntAcquirements \in 0..MaxDepth
          /\ pc \in [Threads -> Locations]
          /\ hasWarned \in [Threads -> BOOLEAN]
          /\ held \in [Threads -> 0..MaxDepth]
          /\ crashed \in BOOLEAN
          /\ counted \in [Threads -> -MaxDepth..MaxDepth]
          /\ alarmed \in SUBSET Threads
          /\ overtaken \in SUBSET Threads

\* Mutant: mode SingleLocks counts like mode Recursive.
NestedAlways(n) == n + 1

Nested(n)   == IF lockMode = "Recursive" THEN n + 1 ELSE 1
Unnested(n) == IF lockMode = "Recursive" THEN n - 1 ELSE 0

\* No other thread uses the lock or holds it: "executed in a single threaded environment".
Alone(t) == \A u \in Threads \ {t} : pc[u] = "idle" /\ held[u] = 0

Waiting == {t \in Threads : pc[t] = "waiting"}

\* The thread waits, or waited, with the time limit.
Timed(t) == WaitWarningTimeLimit > 0 /\ ~hasWarned[t]

Locked == IF safeness = "Unsafe" THEN cntAcquirements # 0 ELSE owner # NoThread

Init == /\ lockMode \in LockModes
        /\ safeness \in Safeness
        /\ mutex = NoThread
        /\ owner = NoThread
        /\ cntAcquirements = 0
        /\ pc = [t \in Threads |-> "idle"]
        /\ hasWarned = [t \in Threads |-> FALSE]
        /\ held = [t \in Threads |-> 0]
        /\ crashed = FALSE
        /\ counted = [t \in Threads |-> 0]
        /\ alarmed = {}
        /\ overtaken = {}

-----------------------------------------------------------------------------
(***************************************************************************)
(* Acquire and Release in mode Unsafe: nothing but the counter.            *)
(***************************************************************************)
AcquireUnsafe(t) ==
    /\ safeness = "Unsafe" /\ Alone(t) /\ pc[t] = "idle"
    /\ held[t] < MaxDepth
    /\ cntAcquirements' = Nested(cntAcquirements)
    /\ held' = [held EXCEPT ![t] = Nested(@)]
    /\ UNCHANGED <<lockMode, safeness, mutex, owner, pc, hasWarned, crashed, query>>

ReleaseUnsafe(t) ==
    /\ safeness = "Unsafe" /\ Alone(t) /\ pc[t] = "idle"
    /\ held[t] > 0
    /\ cntAcquirements' = Unnested(cntAcquirements)
    /\ held' = [held EXCEPT ![t] = Unnested(@)]
    /\ UNCHANGED <<lockMode, safeness, mutex, owner, pc, hasWarned, crashed, query>>

-----------------------------------------------------------------------------
(***************************************************************************)
(* Acquire in mode Safe.                                                   *)
(***************************************************************************)
AcquireCall(t) ==
    /\ safeness = "Safe" /\ pc[t] = "idle"
    /\ held[t] < MaxDepth
    /\ pc' = [pc EXCEPT ![t] = "enter"]
    /\ UNCHANGED <<locking, query>>

\* Mutant: any owner will do.
AcquireNestedOfAnyone(t) ==
    /\ pc[t] = "enter" /\ mutex = NoThread
    /\ owner # NoThread
    /\ cntAcquirements' = Nested(cntAcquirements)
    /\ held' = [held EXCEPT ![t] = Nested(@)]
    /\ pc' = [pc EXCEPT ![t] = "idle"]
    /\ UNCHANGED <<lockMode, safeness, mutex, owner, hasWarned, crashed, query>>

\* A nested acquirement. A count that is a multiple of the threshold is reported before the
\* mutex is unlocked.
AcquireNested(t) ==
    /\ pc[t] = "enter" /\ mutex = NoThread
    /\ owner = t
    /\ cntAcquirements' = Nested(cntAcquirements)
    /\ held' = [held EXCEPT ![t] = Nested(@)]
    /\ IF cntAcquirements' % RecursionWarningThreshold = 0
         THEN mutex' = t        /\ pc' = [pc EXCEPT ![t] = "depthReport"]
         ELSE mutex' = NoThread /\ pc' = [pc EXCEPT ![t] = "idle"]
    /\ UNCHANGED <<lockMode, safeness, owner, hasWarned, crashed, query>>

DepthReported(t) ==
    /\ pc[t] = "depthReport"
    /\ mutex' = NoThread
    /\ pc' = [pc EXCEPT ![t] = "idle"]
    /\ UNCHANGED <<lockMode, safeness, owner, cntAcquirements, hasWarned, held, crashed, query>>

\* Mutant: the loop waits before it tests (do ... while).
AcquireWaitFirst(t) ==
    /\ pc[t] \in {"enter", "woken"} /\ mutex = NoThread
    /\ owner # t
    /\ pc' = [pc EXCEPT ![t] = "waiting"]
    /\ UNCHANGED <<locking, query>>

\* Another thread owns the lock: wait on the condition variable, which unlocks the mutex. A
\* woken thread tests again; a timed wait that took less than the limit leaves no trace.
AcquireWait(t) ==
    /\ pc[t] \in {"enter", "woken"} /\ mutex = NoThread
    /\ owner \notin {t, NoThread}
    /\ pc' = [pc EXCEPT ![t] = "waiting"]
    /\ UNCHANGED <<locking, query>>

\* wait_for reached its limit, or the condition variable woke the thread for no reason.
Timeout(t) ==
    /\ pc[t] = "waiting" /\ Timed(t)
    /\ pc' = [pc EXCEPT ![t] = "woken"]
    /\ UNCHANGED <<locking, query>>

SpuriousWakeup(t) ==
    /\ pc[t] = "waiting"
    /\ pc' = [pc EXCEPT ![t] = "woken"]
    /\ UNCHANGED <<locking, query>>

\* The timed wait is over, the mutex is locked again, and the clock read then says that the
\* limit has passed, whether the thread was notified or not: the warning is due.
LateReturn(t) ==
    /\ pc[t] = "woken" /\ Timed(t) /\ mutex = NoThread
    /\ hasWarned' = [hasWarned EXCEPT ![t] = TRUE]
    /\ mutex' = t
    /\ pc' = [pc EXCEPT ![t] = "waitReport"]
    /\ UNCHANGED <<lockMode, safeness, owner, cntAcquirements, held, crashed, query>>

\* History: the lock was taken while other threads were asking.
Overtakes == /\ overtaken' = overtaken \cup {u \in Threads : pc[u] \in Reading}
             /\ UNCHANGED <<counted, alarmed>>

\* The warning is written, the loop tests owner again under the same lock of the mutex.
WaitReported(t) ==
    /\ pc[t] = "waitReport"
    /\ \/ /\ owner # NoThread
          /\ mutex' = NoThread
          /\ pc' = [pc EXCEPT ![t] = "waiting"]
          /\ UNCHANGED <<owner, query>>
       \/ /\ owner = NoThread    \* undefined behaviour that happened to go well
          /\ owner' = t
          /\ Overtakes
          /\ pc' = [pc EXCEPT ![t] = "taking"]
          /\ UNCHANGED mutex
    /\ UNCHANGED <<lockMode, safeness, cntAcquirements, hasWarned, held, crashed>>

\* The warning names owner->GetId(), and owner is nullptr.
WarningCrashes(t) ==
    /\ pc[t] = "waitReport" /\ owner = NoThread
    /\ crashed' = TRUE
    /\ UNCHANGED <<lockMode, safeness, mutex, owner, cntAcquirements, pc, hasWarned, held, query>>

\* Mutant: an if in the place of the while, a woken thread does not test again.
AcquireTakeUntested(t) ==
    /\ mutex = NoThread
    /\ pc[t] = "woken" \/ (pc[t] = "enter" /\ owner = NoThread)
    /\ mutex' = t
    /\ owner' = t
    /\ pc' = [pc EXCEPT ![t] = "taking"]
    /\ Overtakes
    /\ UNCHANGED <<lockMode, safeness, cntAcquirements, hasWarned, held, crashed>>

\* The lock is free: the two writes that take it.
AcquireTake(t) ==
    /\ pc[t] \in {"enter", "woken"} /\ mutex = NoThread
    /\ owner = NoThread
    /\ mutex' = t
    /\ owner' = t
    /\ pc' = [pc EXCEPT ![t] = "taking"]
    /\ Overtakes
    /\ UNCHANGED <<lockMode, safeness, cntAcquirements, hasWarned, held, crashed>>

AcquireTaken(t) ==
    /\ pc[t] = "taking"
    /\ cntAcquirements' = 1
    /\ held' = [held EXCEPT ![t] = 1]
    /\ hasWarned' = [hasWarned EXCEPT ![t] = FALSE]
    /\ mutex' = NoThread
    /\ pc' = [pc EXCEPT ![t] = "idle"]
    /\ UNCHANGED <<lockMode, safeness, owner, crashed, query>>

-----------------------------------------------------------------------------
(***************************************************************************)
(* Release in mode Safe: count down, then give up owner and wake one       *)
(* waiting thread if that was the last acquirement.                        *)
(***************************************************************************)
ReleaseCount(t) ==
    /\ safeness = "Safe" /\ pc[t] = "idle" /\ mutex = NoThread
    /\ held[t] > 0
    /\ cntAcquirements' = Unnested(cntAcquirements)
    /\ held' = [held EXCEPT ![t] = Unnested(@)]
    /\ mutex' = t
    /\ pc' = [pc EXCEPT ![t] = "releasing"]
    /\ UNCHANGED <<lockMode, safeness, owner, hasWarned, crashed, query>>

\* Mutant: the last release wakes nobody.
NotifyNobody(t) == pc' = [pc EXCEPT ![t] = "idle"]

NotifyOne(t) ==
    IF Waiting = {}
      THEN pc' = [pc EXCEPT ![t] = "idle"]
      ELSE \E w \in Waiting : pc' = [pc EXCEPT ![t] = "idle", ![w] = "woken"]

ReleaseKept(t) ==
    /\ pc[t] = "releasing"
    /\ cntAcquirements # 0
    /\ mutex' = NoThread
    /\ pc' = [pc EXCEPT ![t] = "idle"]
    /\ UNCHANGED <<lockMode, safeness, owner, cntAcquirements, hasWarned, held, crashed, query>>

ReleaseFreed(t) ==
    /\ pc[t] = "releasing"
    /\ cntAcquirements = 0
    /\ owner' = NoThread
    /\ mutex' = NoThread
    /\ NotifyOne(t)
    /\ UNCHANGED <<lockMode, safeness, cntAcquirements, hasWarned, held, crashed, query>>

-----------------------------------------------------------------------------
\* SetSafeness: refused with an error report while the lock is held.
SetSafeness(t, requested) ==
    /\ Alone(t) /\ pc[t] = "idle"
    /\ safeness' = IF Locked THEN safeness ELSE requested
    /\ UNCHANGED <<lockMode, mutex, owner, cntAcquirements, pc, hasWarned, held, crashed, query>>

(***************************************************************************)
(* DbgCountAcquirements(), asked by thread t for itself. In mode Safe every *)
(* read of a field is a step: nothing keeps other threads from writing in  *)
(* between.                                                                *)
(***************************************************************************)
DbgCountUnsafe(t) ==
    /\ safeness = "Unsafe" /\ Alone(t) /\ pc[t] = "idle"
    /\ counted' = [counted EXCEPT ![t] = cntAcquirements]
    /\ pc' = [pc EXCEPT ![t] = "dbgDone"]
    /\ UNCHANGED <<locking, alarmed, overtaken>>

DbgCountCall(t) ==
    /\ safeness = "Safe" /\ pc[t] = "idle"
    /\ pc' = [pc EXCEPT ![t] = IF owner = NoThread THEN "dbgFree" ELSE "dbgOwned"]
    /\ UNCHANGED <<locking, query>>

\* An assertion that fails reports an error; the halt that may follow ends the process.
DbgAssert(t) ==
    /\ \/ pc[t] = "dbgFree"  /\ pc' = [pc EXCEPT ![t] = "dbgFreeCount"]
       \/ pc[t] = "dbgOwned" /\ pc' = [pc EXCEPT ![t] = "dbgOwner"]
    /\ alarmed' = IF (pc[t] = "dbgFree") = (cntAcquirements <= 0) THEN alarmed ELSE alarmed \cup {t}
    /\ UNCHANGED <<locking, counted, overtaken>>

\* Mutant: the count of another owner is not negated.
DbgReadOwnerUnsigned(t) ==
    /\ pc[t] = "dbgOwner"
    /\ pc' = [pc EXCEPT ![t] = "dbgMine"]
    /\ UNCHANGED <<locking, query>>

DbgReadOwner(t) ==
    /\ pc[t] = "dbgOwner"
    /\ pc' = [pc EXCEPT ![t] = IF owner = t THEN "dbgMine" ELSE "dbgOthers"]
    /\ UNCHANGED <<locking, query>>

DbgReadCount(t) ==
    /\ pc[t] \in {"dbgFreeCount", "dbgMine", "dbgOthers"}
    /\ counted' = [counted EXCEPT ![t] = IF pc[t] = "dbgOthers" THEN -cntAcquirements
                                                              ELSE cntAcquirements]
    /\ pc' = [pc EXCEPT ![t] = "dbgDone"]
    /\ UNCHANGED <<locking, alarmed, overtaken>>

DbgReturn(t) ==
    /\ pc[t] = "dbgDone"
    /\ pc' = [pc EXCEPT ![t] = "idle"]
    /\ counted' = [counted EXCEPT ![t] = 0]
    /\ alarmed' = alarmed \ {t} /\ overtaken' = overtaken \ {t}
    /\ UNCHANGED locking

\* The steps a thread takes by itself once it is inside the lock's code.
Proceed(t) == \/ AcquireNested(t) \/ DepthReported(t) \/ AcquireWait(t) \/ Timeout(t)
              \/ LateReturn(t) \/ WaitReported(t) \/ WarningCrashes(t)
              \/ AcquireTake(t) \/ AcquireTaken(t)
              \/ ReleaseKept(t) \/ ReleaseFreed(t)
              \/ DbgAssert(t) \/ DbgReadOwner(t) \/ DbgReadCount(t) \/ DbgReturn(t)

\* What its client calls, and what the platform does to it.
Call(t) == \/ AcquireUnsafe(t) \/ ReleaseUnsafe(t)
           \/ AcquireCall(t) \/ ReleaseCount(t)
           \/ DbgCountUnsafe(t) \/ DbgCountCall(t)
           \/ \E s \in Safeness : SetSafeness(t, s)

\* A crashed process stays as it is.
Crashed == crashed /\ UNCHANGED vars

Next == \/ ~crashed /\ \E t \in Threads : Call(t) \/ Proceed(t) \/ SpuriousWakeup(t)
        \/ Crashed

\* The platform runs every thread: one that is inside the lock's code goes on. Nothing says
\* that a client ever calls, that it releases soon, or that a wait ends for no reason.
Fairness == \A t \in Threads : WF_vars(~crashed /\ Proceed(t))

Spec == Init /\ [][Next]_vars /\ Fairness

-----------------------------------------------------------------------------
(***************************************************************************)
(* Properties                                                              *)
(***************************************************************************)

\* Outside of Acquire and Release, a thread that holds acquirements is the owner and the
\* counter has exactly as many; a lock without an owner counts zero.
OwnerHolds ==
    safeness = "Safe" =>
        /\ \A t \in Threads : held[t] > 0 => owner = t /\ cntAcquirements = held[t]
        /\ owner = NoThread => cntAcquirements = 0

\* The assertions "Lox not acquired" of class Lox rest on this: whatever the other threads are in
\* the middle of, a thread that holds the lock is told its exact count, and none of the two
\* assertions of DbgCountAcquirements fails for it. A thread that holds nothing is told that it
\* does only if another one took the lock between the reads (the answer is then the other's
\* count); an assertion may fail for it at any time.
DbgCountOfHolder ==
    \A t \in Threads : pc[t] = "dbgDone" =>
        /\ held[t] > 0 => counted[t] = held[t] /\ t \notin alarmed
        /\ held[t] = 0 /\ counted[t] > 0 => t \in overtaken

\* No lost wakeup: while threads sleep in the condition variable of a lock nobody owns, one
\* that was woken or is inside the mutex is still on its way to look at it.
NoLostWakeup ==
    owner = NoThread /\ Waiting # {} =>
        \E t \in Threads : pc[t] \in {"woken", "waitReport"}

\* A lock that is free while threads want it is taken by one of them.
LockPassedOn ==
    (owner = NoThread /\ \E t \in Threads : pc[t] \in {"enter", "waiting", "woken"})
        ~> (owner # NoThread \/ crashed)

\* What the clients see is the abstract lock, held for held.
Abstract == INSTANCE RecursiveLock
ImplementsRecursiveLock == Abstract!Spec
=============================================================================
