------------------------------ MODULE SmartLock ------------------------------
(***************************************************************************)
(* Class SmartLock of alib/threads/threadlock.cpp, the base of every       *)
(* Logger: a ThreadLock that goes without its mutex while fewer than two   *)
(* acquirers are registered, together with the locks it depends on, the    *)
(* process wide ALIB::Lock and the acquirers' own locks (each a Lox).      *)
(*                                                                         *)
(* A registered Lox uses the lock only while a thread holds that Lox       *)
(* (Lox::log), and is added and removed while held (Lox::SetVerbosity,     *)
(* Lox::RemoveLogger). An anonymous acquirer (nullptr) uses the lock       *)
(* without holding anything, one thread for each of its registrations. The *)
(* one care that the class asks for is taken: the lock is not acquired     *)
(* while the second acquirer is added after an anonymous first one. Other  *)
(* additions, and removals, happen at any time: a switch of modes may be   *)
(* refused, or delete the mutex that an anonymous user is about to lock.   *)
(*                                                                         *)
(* The locks around this one are used at the level of their contract: an   *)
(* acquirer is a RecursiveLock, which ThreadLock implements. Of this lock, *)
(* what a switch of modes can disturb is kept: a thread reads the mode     *)
(* (GetSafeness) and acts on it a step later.                              *)
(***************************************************************************)
EXTENDS Integers, FiniteSets, SequencesExt

CONSTANTS Threads,
          NoThread,       \* no holder
          Loxes,          \* the ThreadLocks that may be acquirers, in mode Recursive
          Anonymous,      \* nullptr as an acquirer; also "holds no Lox"
          MaxAnonymous    \* bound on the anonymous registrations

ASSUME NoThreadAssumption     == NoThread \notin Threads
ASSUME AnonymousAssumption    == Anonymous \notin Loxes
ASSUME MaxAnonymousAssumption == MaxAnonymous \in Nat

VARIABLES
    acquirers,        \* the registrations, in their order
    safe,             \* mode Safe: the mutex of the lock exists
    owner,            \* of the lock, in mode Safe
    cntAcquirements,
    alibLock,         \* the holder of ALIB::Lock
    loxOwner,         \* the holder of each Lox
    mine,             \* the acquirer each thread acts for: the Lox it holds, or Anonymous
    pc

vars == <<acquirers, safe, owner, cntAcquirements, alibLock, loxOwner, mine, pc>>

(***************************************************************************)
(* "idle"       outside of the lock's code                                 *)
(* "unsafePath" Acquire has read mode Unsafe, and goes without the mutex   *)
(* "safePath"   Acquire has read mode Safe, and uses the mutex             *)
(* "using"      has acquired the lock: the logger writes                   *)
(* "adding"     AddAcquirer, in front of ALIB::Lock                        *)
(* "addFirst"   holds ALIB::Lock and acquires the first acquirer           *)
(* "addSwitch"  has it, and is about to switch to Safe                     *)
(* "addAppend"  has switched, and is about to append the new acquirer      *)
(* "removing"   RemoveAcquirer, in front of ALIB::Lock                     *)
(* "remOther"   holds ALIB::Lock and acquires the acquirer that remains    *)
(* "remSwitch"  has it, and is about to switch to Unsafe                   *)
(* "remErase"   has switched, and is about to erase the acquirer           *)
(***************************************************************************)
InUse     == {"unsafePath", "safePath", "using"}
Switching == {"addFirst", "addSwitch", "addAppend", "remOther", "remSwitch", "remErase"}
Locations == {"idle", "adding", "removing"} \cup InUse \cup Switching

Acquirers == Loxes \cup {Anonymous}

Registered(a) == Contains(acquirers, a)

Leaving        == {"removing", "remOther", "remSwitch", "remErase"}
Joining        == {"adding", "addFirst", "addSwitch", "addAppend"}
AnonymousIn(L) == {t \in Threads : mine[t] = Anonymous /\ pc[t] \in L}
Anonymouses    == {i \in DOMAIN acquirers : acquirers[i] = Anonymous}

\* One registration that no other thread uses, or is about to remove.
AnonymousFree == Cardinality(AnonymousIn(InUse \cup Leaving)) < Cardinality(Anonymouses)

\* The second acquirer is being added after an anonymous one.
AddingUnguarded == /\ acquirers # <<>> /\ acquirers[1] = Anonymous
                   /\ \E u \in Threads : pc[u] \in {"addSwitch", "addAppend"}

\* The acquirer that stays when one of two is removed.
Remaining(t) == Head(RemoveFirst(acquirers, mine[t]))

Goto(t, l) == pc' = [pc EXCEPT ![t] = l]

Init == /\ acquirers = <<>>
        /\ safe = FALSE /\ owner = NoThread /\ cntAcquirements = 0
        /\ alibLock = NoThread
        /\ loxOwner = [l \in Loxes |-> NoThread]
        /\ mine = [t \in Threads |-> Anonymous]
        /\ pc = [t \in Threads |-> "idle"]

-----------------------------------------------------------------------------
(***************************************************************************)
(* The client: a thread holds at most one Lox.                             *)
(***************************************************************************)
AcquireLox(t, l) ==
    /\ pc[t] = "idle" /\ mine[t] = Anonymous
    /\ loxOwner[l] = NoThread
    /\ loxOwner' = [loxOwner EXCEPT ![l] = t]
    /\ mine' = [mine EXCEPT ![t] = l]
    /\ UNCHANGED <<acquirers, safe, owner, cntAcquirements, alibLock, pc>>

ReleaseLox(t) ==
    /\ pc[t] = "idle" /\ mine[t] # Anonymous
    /\ loxOwner' = [loxOwner EXCEPT ![mine[t]] = NoThread]
    /\ mine' = [mine EXCEPT ![t] = Anonymous]
    /\ UNCHANGED <<acquirers, safe, owner, cntAcquirements, alibLock, pc>>

-----------------------------------------------------------------------------
(***************************************************************************)
(* SmartLock::Acquire and Release around a use of the lock.                *)
(***************************************************************************)
\* GetSafeness() decides the way through ThreadLock::Acquire.
AcquireCall(t) ==
    /\ pc[t] = "idle"
    /\ Registered(mine[t])
    /\ mine[t] = Anonymous => AnonymousFree /\ ~AddingUnguarded
    /\ Goto(t, IF safe THEN "safePath" ELSE "unsafePath")
    /\ UNCHANGED <<acquirers, safe, owner, cntAcquirements, alibLock, loxOwner, mine>>

AcquireUnsafe(t) ==
    /\ pc[t] = "unsafePath"
    /\ cntAcquirements' = cntAcquirements + 1
    /\ Goto(t, "using")
    /\ UNCHANGED <<acquirers, safe, owner, alibLock, loxOwner, mine>>

\* Mutant: the acquirement does not wait for the owner.
AcquireSafeOwned(t) ==
    /\ pc[t] = "safePath"
    /\ owner' = t
    /\ cntAcquirements' = cntAcquirements + 1
    /\ Goto(t, "using")
    /\ UNCHANGED <<acquirers, safe, alibLock, loxOwner, mine>>

\* A thread that is the owner already acquires it once more: it may have been left the owner by
\* a release in mode Unsafe. If the mutex was deleted in between, this is undefined behaviour
\* that happened to go well.
AcquireSafe(t) ==
    /\ pc[t] = "safePath" /\ owner \in {t, NoThread}
    /\ owner' = t
    /\ cntAcquirements' = IF owner = t THEN cntAcquirements + 1 ELSE 1
    /\ Goto(t, "using")
    /\ UNCHANGED <<acquirers, safe, alibLock, loxOwner, mine>>

\* Release reads the mode of its own time.
Release(t) ==
    /\ pc[t] = "using"
    /\ cntAcquirements' = cntAcquirements - 1
    /\ owner' = IF safe /\ cntAcquirements' = 0 THEN NoThread ELSE owner
    /\ Goto(t, "idle")
    /\ UNCHANGED <<acquirers, safe, alibLock, loxOwner, mine>>

-----------------------------------------------------------------------------
\* ThreadLock::SetSafeness: refused while the lock is acquired.
SetSafeness(requested) ==
    safe' = IF (IF safe THEN owner # NoThread ELSE cntAcquirements # 0)
              THEN safe
              ELSE requested

\* The documented care: nobody uses the lock when the second acquirer is added after nullptr.
AnonymousCare ==
    Len(acquirers) = 1 /\ acquirers[1] = Anonymous => \A t \in Threads : pc[t] \notin InUse

(***************************************************************************)
(* AddAcquirer( mine[t] ), all of it under ALIB::Lock.                     *)
(***************************************************************************)
AddCall(t) ==
    /\ pc[t] = "idle"
    /\ mine[t] = Anonymous =>
         Cardinality(Anonymouses) + Cardinality(AnonymousIn(Joining)) < MaxAnonymous
    /\ Goto(t, "adding")
    /\ UNCHANGED <<acquirers, safe, owner, cntAcquirements, alibLock, loxOwner, mine>>

\* Already added: an error, and nothing changes.
AddRefused(t) ==
    /\ pc[t] = "adding" /\ alibLock = NoThread
    /\ mine[t] # Anonymous /\ Registered(mine[t])
    /\ Goto(t, "idle")
    /\ UNCHANGED <<acquirers, safe, owner, cntAcquirements, alibLock, loxOwner, mine>>

\* Not the second acquirer: no switch.
AddPlain(t) ==
    /\ pc[t] = "adding" /\ alibLock = NoThread
    /\ mine[t] = Anonymous \/ ~Registered(mine[t])
    /\ Len(acquirers) # 1
    /\ acquirers' = Append(acquirers, mine[t])
    /\ Goto(t, "idle")
    /\ UNCHANGED <<safe, owner, cntAcquirements, alibLock, loxOwner, mine>>

\* Mutant: the first acquirer is not acquired before the switch.
AddSecondAlone(t) ==
    /\ pc[t] = "adding" /\ alibLock = NoThread
    /\ mine[t] = Anonymous \/ ~Registered(mine[t])
    /\ Len(acquirers) = 1 /\ AnonymousCare
    /\ alibLock' = t
    /\ Goto(t, "addSwitch")
    /\ UNCHANGED <<acquirers, safe, owner, cntAcquirements, loxOwner, mine>>

\* The second acquirer: the first one is acquired before the switch, unless it is anonymous.
AddSecond(t) ==
    /\ pc[t] = "adding" /\ alibLock = NoThread
    /\ mine[t] = Anonymous \/ ~Registered(mine[t])
    /\ Len(acquirers) = 1 /\ AnonymousCare
    /\ alibLock' = t
    /\ Goto(t, IF acquirers[1] = Anonymous THEN "addSwitch" ELSE "addFirst")
    /\ UNCHANGED <<acquirers, safe, owner, cntAcquirements, loxOwner, mine>>

AddFirst(t) ==
    /\ pc[t] = "addFirst"
    /\ loxOwner[acquirers[1]] = NoThread
    /\ loxOwner' = [loxOwner EXCEPT ![acquirers[1]] = t]
    /\ Goto(t, "addSwitch")
    /\ UNCHANGED <<acquirers, safe, owner, cntAcquirements, alibLock, mine>>

AddSwitch(t) ==
    /\ pc[t] = "addSwitch"
    /\ SetSafeness(TRUE)
    /\ Goto(t, "addAppend")
    /\ UNCHANGED <<acquirers, owner, cntAcquirements, alibLock, loxOwner, mine>>

AddAppend(t) ==
    /\ pc[t] = "addAppend"
    /\ acquirers' = Append(acquirers, mine[t])
    /\ loxOwner' = [l \in Loxes |-> IF l = acquirers[1] THEN NoThread ELSE loxOwner[l]]
    /\ alibLock' = NoThread
    /\ Goto(t, "idle")
    /\ UNCHANGED <<safe, owner, cntAcquirements, mine>>

-----------------------------------------------------------------------------
(***************************************************************************)
(* RemoveAcquirer( mine[t] ), all of it under ALIB::Lock.                  *)
(***************************************************************************)
RemoveCall(t) ==
    /\ pc[t] = "idle"
    /\ mine[t] = Anonymous => AnonymousFree
    /\ Goto(t, "removing")
    /\ UNCHANGED <<acquirers, safe, owner, cntAcquirements, alibLock, loxOwner, mine>>

\* Not found, or not the last but one: no switch.
RemovePlain(t) ==
    /\ pc[t] = "removing" /\ alibLock = NoThread
    /\ ~Registered(mine[t]) \/ Len(acquirers) # 2
    /\ acquirers' = RemoveFirst(acquirers, mine[t])
    /\ Goto(t, "idle")
    /\ UNCHANGED <<safe, owner, cntAcquirements, alibLock, loxOwner, mine>>

\* Mutant: the mode is switched when two acquirers remain.
RemoveOfThree(t) ==
    /\ pc[t] = "removing" /\ alibLock = NoThread
    /\ Registered(mine[t]) /\ Len(acquirers) = 3
    /\ alibLock' = t
    /\ Goto(t, IF Remaining(t) = Anonymous THEN "remSwitch" ELSE "remOther")
    /\ UNCHANGED <<acquirers, safe, owner, cntAcquirements, loxOwner, mine>>

\* Mutant: the acquirer that remains is not acquired before the switch.
RemoveOfTwoAlone(t) ==
    /\ pc[t] = "removing" /\ alibLock = NoThread
    /\ Registered(mine[t]) /\ Len(acquirers) = 2
    /\ alibLock' = t
    /\ Goto(t, "remSwitch")
    /\ UNCHANGED <<acquirers, safe, owner, cntAcquirements, loxOwner, mine>>

\* One of two: the other one is acquired before the switch, unless it is anonymous.
RemoveOfTwo(t) ==
    /\ pc[t] = "removing" /\ alibLock = NoThread
    /\ Registered(mine[t]) /\ Len(acquirers) = 2
    /\ alibLock' = t
    /\ Goto(t, IF Remaining(t) = Anonymous THEN "remSwitch" ELSE "remOther")
    /\ UNCHANGED <<acquirers, safe, owner, cntAcquirements, loxOwner, mine>>

RemoveOther(t) ==
    /\ pc[t] = "remOther"
    /\ loxOwner[Remaining(t)] = NoThread
    /\ loxOwner' = [loxOwner EXCEPT ![Remaining(t)] = t]
    /\ Goto(t, "remSwitch")
    /\ UNCHANGED <<acquirers, safe, owner, cntAcquirements, alibLock, mine>>

RemoveSwitch(t) ==
    /\ pc[t] = "remSwitch"
    /\ SetSafeness(FALSE)
    /\ Goto(t, "remErase")
    /\ UNCHANGED <<acquirers, owner, cntAcquirements, alibLock, loxOwner, mine>>

RemoveErase(t) ==
    /\ pc[t] = "remErase"
    /\ acquirers' = RemoveFirst(acquirers, mine[t])
    /\ loxOwner' = [l \in Loxes |-> IF l = Remaining(t) THEN NoThread ELSE loxOwner[l]]
    /\ alibLock' = NoThread
    /\ Goto(t, "idle")
    /\ UNCHANGED <<safe, owner, cntAcquirements, mine>>

Next == \E t \in Threads :
          \/ \E l \in Loxes : AcquireLox(t, l)
          \/ ReleaseLox(t)
          \/ AcquireCall(t) \/ AcquireUnsafe(t) \/ AcquireSafe(t) \/ Release(t)
          \/ AddCall(t) \/ AddRefused(t) \/ AddPlain(t)
          \/ AddSecond(t) \/ AddFirst(t) \/ AddSwitch(t) \/ AddAppend(t)
          \/ RemoveCall(t) \/ RemovePlain(t)
          \/ RemoveOfTwo(t) \/ RemoveOther(t) \/ RemoveSwitch(t) \/ RemoveErase(t)

Spec == Init /\ [][Next]_vars

-----------------------------------------------------------------------------
(***************************************************************************)
(* Properties                                                              *)
(***************************************************************************)
TypeOK == /\ acquirers \in Seq(Acquirers)
          /\ safe \in BOOLEAN
          /\ owner \in Threads \cup {NoThread}
          /\ cntAcquirements \in 0..1
          /\ alibLock \in Threads \cup {NoThread}
          /\ loxOwner \in [Loxes -> Threads \cup {NoThread}]
          /\ mine \in [Threads -> Acquirers]
          /\ pc \in [Threads -> Locations]

\* What a Logger that several Loxes share relies on: one thread at a time writes, also while
\* acquirers come and go and the mutex is created and deleted.
MutualExclusion ==
    \A t, u \in Threads : pc[t] = "using" /\ pc[u] = "using" => t = u

\* No switch of modes overtakes a thread between its look at the mode and what it does: nobody
\* goes without the mutex once it exists, and the mutex that a Lox's thread goes for exists. (An
\* anonymous user of two acquirers may find it deleted.)
NoStaleMode ==
    \A t \in Threads : /\ pc[t] = "safePath" /\ mine[t] # Anonymous => safe
                       /\ pc[t] = "unsafePath" => ~safe

\* Between two registrations, a lock with two acquirers or more is in mode Safe, whatever
\* switches were refused before. (One with fewer may still be, after a refused switch.)
SafeWhenShared ==
    alibLock = NoThread /\ Len(acquirers) >= 2 => safe

\* Thread t waits for u: for ALIB::Lock, or for an acquirer with ALIB::Lock held. A Lox that is
\* registered twice, against the rules of the class, has itself to blame.
WaitsFor(t, u) ==
    \/ pc[t] = "adding" /\ ~Registered(mine[t]) /\ alibLock = u
    \/ pc[t] = "removing" /\ alibLock = u
    \/ pc[t] = "addFirst" /\ loxOwner[acquirers[1]] = u
    \/ pc[t] = "remOther" /\ loxOwner[Remaining(t)] = u

\* Loxes that share a logger do not block each other for good.
NoDeadlock == \A t, u \in Threads : ~(WaitsFor(t, u) /\ WaitsFor(u, t))
=============================================================================
