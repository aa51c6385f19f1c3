------------------------------ MODULE StdStreams ------------------------------
(***************************************************************************)
(* How loggers and the report writer share the standard output: AddAcquirer *)
(* RemoveAcquirer and Log of TextLogger (alox/core/textlogger/             *)
(* textlogger.cpp) and ConsoleReportWriter (alib/core/report.cpp), on top  *)
(* of two levels of SmartLocks. A logger is a SmartLock whose acquirers    *)
(* are the Loxes it is attached to; ALIB::StdOutputStreamsLock is a        *)
(* SmartLock whose acquirers are the loggers, each registered by its first *)
(* Lox and unregistered by its last one, and nullptr, registered while the *)
(* console writer is the current writer of Report.                         *)
(*                                                                         *)
(* A logger is used, added and removed with a Lox held; reports, and       *)
(* changes of the report writer, hold Report::lock. Nothing else is        *)
(* ordered: threads register one logger at the same time, and the writer   *)
(* changes at any time. What may go wrong by that is noted in history      *)
(* variables.                                                              *)
(*                                                                         *)
(* Of StdOutputStreamsLock the look at the mode and the step that follows  *)
(* are apart, as in SmartLock; a logger's own lock is taken in one step.   *)
(* Reports from within a use or a registration of a logger are left out.   *)
(***************************************************************************)
EXTENDS Integers, FiniteSets, SequencesExt

CONSTANTS Threads,
          NoThread,      \* no holder
          Loxes,
          NoLox,         \* a thread that holds no Lox
          Loggers,       \* text loggers with usesStdStreams
          LoxesOf,       \* LoxesOf[g]: the Loxes that g may be attached to
          Std,           \* ALIB::StdOutputStreamsLock
          Anonymous      \* nullptr as an acquirer of it; also "no logger"

ASSUME NamesAssumption ==
    /\ NoThread \notin Threads /\ NoLox \notin Loxes
    /\ {Std, Anonymous} \cap Loggers = {} /\ Std # Anonymous
    /\ LoxesOf \in [Loggers -> SUBSET Loxes]

VARIABLES
    acquirers,        \* acquirers[s]: the registrations with each SmartLock
    safe,             \* safe[s]: mode Safe
    owner,            \* owner[s] in mode Safe
    cnt,              \* cntAcquirements of each SmartLock
    registrations,    \* stdStreamLockRegistrationCounter of each logger
    alibLock,         \* the holder of ALIB::Lock
    mine,             \* the Lox each thread holds
    job,              \* the logger each thread works with, or Anonymous
    console,          \* the console writer is the current one of Report
    pc,
    \* History:
    crossed,          \* the loggers whose removal from a last Lox was crossed by an addition
    disturbed         \* StdOutputStreamsLock was used against its rules, or two threads
                      \* were in a logger in mode Unsafe, which its switches rely on

locks   == <<acquirers, safe, owner, cnt>>
history == <<crossed, disturbed>>
vars    == <<locks, registrations, alibLock, mine, job, console, pc, history>>

SmartLocks == Loggers \cup {Std}

(***************************************************************************)
(* "idle"      outside of the code                                         *)
(* "logging"   Lox::log has acquired the logger, or a report Report::lock  *)
(* "unsafePath", "safePath"  has seen the mode of StdOutputStreamsLock     *)
(* "writing"   has acquired it: logText, or the output of the report       *)
(* "written"   has released it, or is done with the report writer          *)
(* "stdAdd", "stdRemove"  the logger was counted for its first, its last   *)
(*             Lox, or the console writer is activated, deactivated: about *)
(*             to register with, unregister from StdOutputStreamsLock      *)
(* "stdAddFirst", "stdRemoveOther"  holds ALIB::Lock and acquires the      *)
(*             logger that is the other acquirer                           *)
(* "stdAddSwitch", "stdRemoveSwitch"  has it, is about to switch the mode  *)
(* "ownAdd", "ownRemove"  about to call Logger::AddAcquirer, RemoveAcquirer *)
(* "ownAddFirst", "ownRemoveOther"  holds ALIB::Lock and acquires the Lox  *)
(*             that is the other acquirer                                  *)
(***************************************************************************)
Using       == {"unsafePath", "safePath", "writing"}
StdAdding   == {"stdAdd", "stdAddFirst", "stdAddSwitch"}
StdRemoving == {"stdRemove", "stdRemoveOther", "stdRemoveSwitch"}
Adding      == StdAdding \cup {"ownAdd", "ownAddFirst"}
Removing    == StdRemoving \cup {"ownRemove", "ownRemoveOther"}
Locations   == {"idle", "logging", "written"} \cup Using \cup Adding \cup Removing

At(g, L)       == {t \in Threads : job[t] = g /\ pc[t] \in L}
Holder(l)      == {t \in Threads : mine[t] = l}
Attached(g, l) == Contains(acquirers[g], l)
Goto(t, l)     == pc' = [pc EXCEPT ![t] = l]
WorkOn(t, g)   == job' = [job EXCEPT ![t] = g]

\* The thread that holds Report::lock.
Reporting == {t \in Threads : job[t] = Anonymous /\ pc[t] # "idle"}

\* The console writer is registered when Report is created.
Init == /\ acquirers = [s \in SmartLocks |-> IF s = Std THEN <<Anonymous>> ELSE <<>>]
        /\ safe  = [s \in SmartLocks |-> FALSE]
        /\ owner = [s \in SmartLocks |-> NoThread]
        /\ cnt   = [s \in SmartLocks |-> 0]
        /\ registrations = [g \in Loggers |-> 0]
        /\ alibLock = NoThread
        /\ mine = [t \in Threads |-> NoLox]
        /\ job  = [t \in Threads |-> Anonymous]
        /\ console = TRUE
        /\ pc   = [t \in Threads |-> "idle"]
        /\ crossed = {} /\ disturbed = FALSE

-----------------------------------------------------------------------------
\* Acquire and Release of SmartLock s in the mode it has.
MayAcquire(s) == safe[s] => owner[s] = NoThread

OwnerTaken(s, t)  == [owner EXCEPT ![s] = IF safe[s] THEN t ELSE @]
CountTaken(s)     == [cnt EXCEPT ![s] = IF safe[s] THEN 1 ELSE @ + 1]
OwnerReleased(s)  == [owner EXCEPT ![s] = IF safe[s] /\ cnt[s] = 1 THEN NoThread ELSE @]
CountReleased(s)  == [cnt EXCEPT ![s] = @ - 1]

\* Taking a logger's own lock does not keep the others out of it in mode Unsafe.
Take(g, t) == /\ MayAcquire(g)
              /\ owner' = OwnerTaken(g, t) /\ cnt' = CountTaken(g)
              /\ disturbed' = (disturbed \/ (~safe[g] /\ cnt[g] # 0))

\* ThreadLock::SetSafeness: refused while the lock is acquired.
Switched(s, mode) ==
    [safe EXCEPT ![s] = IF (IF @ THEN owner[s] # NoThread ELSE cnt[s] # 0) THEN @ ELSE mode]

\* The acquirer that stays when one of two is removed.
Remaining(s, a) == Head(RemoveFirst(acquirers[s], a))

-----------------------------------------------------------------------------
(***************************************************************************)
(* The client: a thread holds at most one Lox.                             *)
(***************************************************************************)
AcquireLox(t, l) ==
    /\ pc[t] = "idle" /\ mine[t] = NoLox /\ Holder(l) = {}
    /\ mine' = [mine EXCEPT ![t] = l]
    /\ UNCHANGED <<locks, registrations, alibLock, job, console, pc, history>>

ReleaseLox(t) ==
    /\ pc[t] = "idle" /\ mine[t] # NoLox
    /\ mine' = [mine EXCEPT ![t] = NoLox]
    /\ UNCHANGED <<locks, registrations, alibLock, job, console, pc, history>>

-----------------------------------------------------------------------------
(***************************************************************************)
(* Lox::log acquires the logger around TextLogger::Log, and DoReport       *)
(* Report::lock around ConsoleReportWriter::Report. Both acquire           *)
(* StdOutputStreamsLock around the output.                                 *)
(***************************************************************************)
Log(t, g) ==
    /\ pc[t] = "idle" /\ mine[t] # NoLox /\ Attached(g, mine[t])
    /\ Take(g, t)
    /\ WorkOn(t, g) /\ Goto(t, "logging")
    /\ UNCHANGED <<acquirers, safe, registrations, alibLock, mine, console, crossed>>

Report(t) ==
    /\ pc[t] = "idle" /\ Reporting = {} /\ console
    /\ Goto(t, "logging")
    /\ UNCHANGED <<locks, registrations, alibLock, mine, job, console, history>>

\* The rules: an acquirer is registered when it acquires (threadlock.hpp:369), and nobody uses the
\* lock while the second one is added after nullptr (threadlock.hpp:387).
StdAcquireCall(t) ==
    /\ pc[t] = "logging"
    /\ disturbed' = \/ disturbed
                    \/ ~Contains(acquirers[Std], job[t])
                    \/ /\ acquirers[Std][1] = Anonymous
                       /\ \E u \in Threads : pc[u] = "stdAddSwitch"
    /\ Goto(t, IF safe[Std] THEN "safePath" ELSE "unsafePath")
    /\ UNCHANGED <<locks, registrations, alibLock, mine, job, console, crossed>>

StdAcquireUnsafe(t) ==
    /\ pc[t] = "unsafePath"
    /\ cnt' = [cnt EXCEPT ![Std] = @ + 1]
    /\ Goto(t, "writing")
    /\ UNCHANGED <<acquirers, safe, owner, registrations, alibLock, mine, job, console, history>>

\* Mutant: the acquirement does not wait for the owner.
StdAcquireOwned(t) ==
    /\ pc[t] = "safePath"
    /\ owner' = [owner EXCEPT ![Std] = t]
    /\ cnt' = [cnt EXCEPT ![Std] = @ + 1]
    /\ Goto(t, "writing")
    /\ UNCHANGED <<acquirers, safe, registrations, alibLock, mine, job, console, history>>

\* As SmartLock's AcquireSafe: a thread may have been left the owner.
StdAcquireSafe(t) ==
    /\ pc[t] = "safePath" /\ owner[Std] \in {t, NoThread}
    /\ owner' = [owner EXCEPT ![Std] = t]
    /\ cnt' = [cnt EXCEPT ![Std] = IF owner[Std] = t THEN @ + 1 ELSE 1]
    /\ Goto(t, "writing")
    /\ UNCHANGED <<acquirers, safe, registrations, alibLock, mine, job, console, history>>

StdRelease(t) ==
    /\ pc[t] = "writing"
    /\ owner' = OwnerReleased(Std) /\ cnt' = CountReleased(Std)
    /\ Goto(t, "written")
    /\ UNCHANGED <<acquirers, safe, registrations, alibLock, mine, job, console, history>>

LogDone(t) ==
    /\ pc[t] = "written" /\ job[t] # Anonymous
    /\ owner' = OwnerReleased(job[t]) /\ cnt' = CountReleased(job[t])
    /\ WorkOn(t, Anonymous) /\ Goto(t, "idle")
    /\ UNCHANGED <<acquirers, safe, registrations, alibLock, mine, console, history>>

\* Report::lock is released.
ReportDone(t) ==
    /\ pc[t] = "written" /\ job[t] = Anonymous
    /\ Goto(t, "idle")
    /\ UNCHANGED <<locks, registrations, alibLock, mine, job, console, history>>

(***************************************************************************)
(* Report::PushWriter puts another writer on top of the console's, which   *)
(* is notified of the end of its activity; PopWriter brings it back (as    *)
(* Log::AddDebugLogger and RemoveDebugLogger do).                          *)
(***************************************************************************)
PushWriter(t) ==
    /\ pc[t] = "idle" /\ Reporting = {} /\ console
    /\ console' = FALSE
    /\ Goto(t, "stdRemove")
    /\ UNCHANGED <<locks, registrations, alibLock, mine, job, history>>

PopWriter(t) ==
    /\ pc[t] = "idle" /\ Reporting = {} /\ ~console
    /\ console' = TRUE
    /\ Goto(t, "stdAdd")
    /\ UNCHANGED <<locks, registrations, alibLock, mine, job, history>>

-----------------------------------------------------------------------------
(***************************************************************************)
(* TextLogger::AddAcquirer: count, register with StdOutputStreamsLock if   *)
(* this was the first one, register the Lox with the logger itself.        *)
(***************************************************************************)
\* Mutant: only the first Lox is counted.
AddCallOnce(t, g) ==
    /\ pc[t] = "idle" /\ mine[t] \in LoxesOf[g] /\ ~Attached(g, mine[t])
    /\ alibLock = NoThread
    /\ registrations' = [registrations EXCEPT ![g] = 1]
    /\ crossed' = crossed
    /\ WorkOn(t, g) /\ Goto(t, IF registrations[g] = 0 THEN "stdAdd" ELSE "ownAdd")
    /\ UNCHANGED <<locks, alibLock, mine, console, disturbed>>

AddCall(t, g) ==
    /\ pc[t] = "idle" /\ mine[t] \in LoxesOf[g] /\ ~Attached(g, mine[t])
    /\ alibLock = NoThread
    /\ registrations' = [registrations EXCEPT ![g] = @ + 1]
    /\ crossed' = crossed \cup (IF At(g, StdRemoving) = {} THEN {} ELSE {g})
    /\ WorkOn(t, g) /\ Goto(t, IF registrations[g] = 0 THEN "stdAdd" ELSE "ownAdd")
    /\ UNCHANGED <<locks, alibLock, mine, console, disturbed>>

\* The acquirer that t registers is known already: an error.
Known(t) == job[t] # Anonymous /\ Contains(acquirers[Std], job[t])

\* The console writer has no acquirers of its own.
AfterStd(t, own) == Goto(t, IF job[t] = Anonymous THEN "written" ELSE own)

\* Mutant: the second acquirer is added as any other one.
StdAddAnyPlain(t) ==
    /\ pc[t] = "stdAdd" /\ alibLock = NoThread
    /\ acquirers' = IF Known(t) THEN acquirers ELSE [acquirers EXCEPT ![Std] = Append(@, job[t])]
    /\ AfterStd(t, "ownAdd")
    /\ UNCHANGED <<safe, owner, cnt, registrations, alibLock, mine, job, console, history>>

\* SmartLock::AddAcquirer on StdOutputStreamsLock: known, or not the second acquirer.
StdAddPlain(t) ==
    /\ pc[t] = "stdAdd" /\ alibLock = NoThread
    /\ Known(t) \/ Len(acquirers[Std]) # 1
    /\ acquirers' = IF Known(t) THEN acquirers ELSE [acquirers EXCEPT ![Std] = Append(@, job[t])]
    /\ AfterStd(t, "ownAdd")
    /\ UNCHANGED <<safe, owner, cnt, registrations, alibLock, mine, job, console, history>>

StdAddSecond(t) ==
    /\ pc[t] = "stdAdd" /\ alibLock = NoThread
    /\ ~Known(t) /\ Len(acquirers[Std]) = 1
    /\ alibLock' = t
    /\ disturbed' = \/ disturbed
                    \/ acquirers[Std][1] = Anonymous /\ \E u \in Threads : pc[u] \in Using
    /\ Goto(t, IF acquirers[Std][1] = Anonymous THEN "stdAddSwitch" ELSE "stdAddFirst")
    /\ UNCHANGED <<locks, registrations, mine, job, console, crossed>>

StdAddFirst(t) ==
    /\ pc[t] = "stdAddFirst"
    /\ Take(acquirers[Std][1], t)
    /\ Goto(t, "stdAddSwitch")
    /\ UNCHANGED <<acquirers, safe, registrations, alibLock, mine, job, console, crossed>>

StdAddSwitch(t) ==
    LET first == acquirers[Std][1] IN
    /\ pc[t] = "stdAddSwitch"
    /\ safe' = Switched(Std, TRUE)
    /\ acquirers' = [acquirers EXCEPT ![Std] = Append(@, job[t])]
    /\ IF first = Anonymous
         THEN UNCHANGED <<owner, cnt>>
         ELSE owner' = OwnerReleased(first) /\ cnt' = CountReleased(first)
    /\ alibLock' = NoThread
    /\ AfterStd(t, "ownAdd")
    /\ UNCHANGED <<registrations, mine, job, console, history>>

OwnAddPlain(t) ==
    LET g == job[t] IN
    /\ pc[t] = "ownAdd" /\ alibLock = NoThread /\ Len(acquirers[g]) # 1
    /\ acquirers' = [acquirers EXCEPT ![g] = Append(@, mine[t])]
    /\ WorkOn(t, Anonymous) /\ Goto(t, "idle")
    /\ UNCHANGED <<safe, owner, cnt, registrations, alibLock, mine, console, history>>

OwnAddSecond(t) ==
    /\ pc[t] = "ownAdd" /\ alibLock = NoThread /\ Len(acquirers[job[t]]) = 1
    /\ alibLock' = t
    /\ Goto(t, "ownAddFirst")
    /\ UNCHANGED <<locks, registrations, mine, job, console, history>>

\* The first Lox is acquired, the mode switched, the second one entered, the first one released.
OwnAddFirst(t) ==
    LET g == job[t] IN
    /\ pc[t] = "ownAddFirst" /\ Holder(acquirers[g][1]) = {}
    /\ safe' = Switched(g, TRUE)
    /\ acquirers' = [acquirers EXCEPT ![g] = Append(@, mine[t])]
    /\ alibLock' = NoThread
    /\ WorkOn(t, Anonymous) /\ Goto(t, "idle")
    /\ UNCHANGED <<owner, cnt, registrations, mine, console, history>>

-----------------------------------------------------------------------------
(***************************************************************************)
(* TextLogger::RemoveAcquirer: count, unregister from StdOutputStreamsLock *)
(* if this was the last one, unregister the Lox from the logger itself.    *)
(***************************************************************************)
\* Mutant: the logger is unregistered with its last but one Lox, too.
RemoveCallEarly(t, g) ==
    /\ pc[t] = "idle" /\ mine[t] # NoLox /\ Attached(g, mine[t])
    /\ alibLock = NoThread
    /\ registrations' = [registrations EXCEPT ![g] = @ - 1]
    /\ WorkOn(t, g) /\ Goto(t, IF registrations[g] <= 2 THEN "stdRemove" ELSE "ownRemove")
    /\ UNCHANGED <<locks, alibLock, mine, console, history>>

\* Mutant: the counter starts anew.
RemoveCallReset(t, g) ==
    /\ pc[t] = "idle" /\ mine[t] # NoLox /\ Attached(g, mine[t])
    /\ alibLock = NoThread
    /\ registrations' = [registrations EXCEPT ![g] = 0]
    /\ WorkOn(t, g) /\ Goto(t, IF registrations[g] = 1 THEN "stdRemove" ELSE "ownRemove")
    /\ UNCHANGED <<locks, alibLock, mine, console, history>>

RemoveCall(t, g) ==
    /\ pc[t] = "idle" /\ mine[t] # NoLox /\ Attached(g, mine[t])
    /\ alibLock = NoThread
    /\ registrations' = [registrations EXCEPT ![g] = @ - 1]
    /\ WorkOn(t, g) /\ Goto(t, IF registrations[g] = 1 THEN "stdRemove" ELSE "ownRemove")
    /\ UNCHANGED <<locks, alibLock, mine, console, history>>

\* Not found (an error is reported), or not the last but one.
StdRemovePlain(t) ==
    /\ pc[t] = "stdRemove" /\ alibLock = NoThread
    /\ ~Contains(acquirers[Std], job[t]) \/ Len(acquirers[Std]) # 2
    /\ acquirers' = [acquirers EXCEPT ![Std] = RemoveFirst(@, job[t])]
    /\ AfterStd(t, "ownRemove")
    /\ UNCHANGED <<safe, owner, cnt, registrations, alibLock, mine, job, console, history>>

StdRemoveOfTwo(t) ==
    /\ pc[t] = "stdRemove" /\ alibLock = NoThread
    /\ Contains(acquirers[Std], job[t]) /\ Len(acquirers[Std]) = 2
    /\ alibLock' = t
    /\ Goto(t, IF Remaining(Std, job[t]) = Anonymous THEN "stdRemoveSwitch" ELSE "stdRemoveOther")
    /\ UNCHANGED <<locks, registrations, mine, job, console, history>>

StdRemoveOther(t) ==
    /\ pc[t] = "stdRemoveOther"
    /\ Take(Remaining(Std, job[t]), t)
    /\ Goto(t, "stdRemoveSwitch")
    /\ UNCHANGED <<acquirers, safe, registrations, alibLock, mine, job, console, crossed>>

StdRemoveSwitch(t) ==
    LET other == Remaining(Std, job[t]) IN
    /\ pc[t] = "stdRemoveSwitch"
    /\ safe' = Switched(Std, FALSE)
    /\ acquirers' = [acquirers EXCEPT ![Std] = RemoveFirst(@, job[t])]
    /\ IF other = Anonymous
         THEN UNCHANGED <<owner, cnt>>
         ELSE owner' = OwnerReleased(other) /\ cnt' = CountReleased(other)
    /\ alibLock' = NoThread
    /\ AfterStd(t, "ownRemove")
    /\ UNCHANGED <<registrations, mine, job, console, history>>

OwnRemovePlain(t) ==
    LET g == job[t] IN
    /\ pc[t] = "ownRemove" /\ alibLock = NoThread /\ Len(acquirers[g]) # 2
    /\ acquirers' = [acquirers EXCEPT ![g] = RemoveFirst(@, mine[t])]
    /\ WorkOn(t, Anonymous) /\ Goto(t, "idle")
    /\ UNCHANGED <<safe, owner, cnt, registrations, alibLock, mine, console, history>>

OwnRemoveOfTwo(t) ==
    /\ pc[t] = "ownRemove" /\ alibLock = NoThread /\ Len(acquirers[job[t]]) = 2
    /\ alibLock' = t
    /\ Goto(t, "ownRemoveOther")
    /\ UNCHANGED <<locks, registrations, mine, job, console, history>>

OwnRemoveOther(t) ==
    LET g == job[t] IN
    /\ pc[t] = "ownRemoveOther" /\ Holder(Remaining(g, mine[t])) = {}
    /\ safe' = Switched(g, FALSE)
    /\ acquirers' = [acquirers EXCEPT ![g] = RemoveFirst(@, mine[t])]
    /\ alibLock' = NoThread
    /\ WorkOn(t, Anonymous) /\ Goto(t, "idle")
    /\ UNCHANGED <<owner, cnt, registrations, mine, console, history>>

Next == \E t \in Threads :
          \/ \E l \in Loxes : AcquireLox(t, l)
          \/ ReleaseLox(t)
          \/ \E g \in Loggers : Log(t, g) \/ AddCall(t, g) \/ RemoveCall(t, g)
          \/ Report(t) \/ PushWriter(t) \/ PopWriter(t) \/ ReportDone(t)
          \/ StdAcquireCall(t) \/ StdAcquireUnsafe(t) \/ StdAcquireSafe(t)
          \/ StdRelease(t) \/ LogDone(t)
          \/ StdAddPlain(t) \/ StdAddSecond(t) \/ StdAddFirst(t) \/ StdAddSwitch(t)
          \/ OwnAddPlain(t) \/ OwnAddSecond(t) \/ OwnAddFirst(t)
          \/ StdRemovePlain(t) \/ StdRemoveOfTwo(t) \/ StdRemoveOther(t) \/ StdRemoveSwitch(t)
          \/ OwnRemovePlain(t) \/ OwnRemoveOfTwo(t) \/ OwnRemoveOther(t)

Spec == Init /\ [][Next]_vars

-----------------------------------------------------------------------------
(***************************************************************************)
(* Properties                                                              *)
(***************************************************************************)
TypeOK == /\ acquirers \in [SmartLocks -> Seq(Loggers \cup Loxes \cup {Anonymous})]
          /\ safe \in [SmartLocks -> BOOLEAN]
          /\ owner \in [SmartLocks -> Threads \cup {NoThread}]
          /\ cnt \in [SmartLocks -> Int]
          /\ registrations \in [Loggers -> 0..Cardinality(Loxes)]
          /\ alibLock \in Threads \cup {NoThread}
          /\ mine \in [Threads -> Loxes \cup {NoLox}]
          /\ job \in [Threads -> Loggers \cup {Anonymous}]
          /\ console \in BOOLEAN
          /\ pc \in [Threads -> Locations]
          /\ crossed \in SUBSET Loggers /\ disturbed \in BOOLEAN

\* Nothing has happened that lets the lock fail.
Undisturbed == crossed = {} /\ ~disturbed

\* The promise of the library: the lines of two loggers and the console's reports, from several
\* threads, are not mixed on the standard output (textlogger.cpp:720, report.cpp:53), while
\* loggers and the console writer come and go. It is broken only after a removal was crossed
\* by an addition, after a use against the rules of the class, or after two threads were in
\* one logger: a second acquirer of StdOutputStreamsLock acquired the first one, a logger with
\* a single Lox, and thus without a mutex, while that one wrote.
OneWriter ==
    Undisturbed => \A t, u \in Threads : pc[t] = "writing" /\ pc[u] = "writing" => t = u

\* With the same reservation, StdOutputStreamsLock has its mutex whenever two share it, between
\* two registrations: no switch to Safe is refused because someone writes at this moment.
SafeForTwo ==
    Undisturbed /\ alibLock = NoThread /\ Len(acquirers[Std]) >= 2 => safe[Std]

\* A logger that acquires StdOutputStreamsLock is registered with it, or another thread is just
\* about to register it: a second Lox may have come in before the first one was done
\* (textlogger.cpp:601). Unless its removal with a last Lox was crossed by an addition, a
\* logger is never left in use without a registration.
RegisteredBeforeUse ==
    \A t \in Threads : pc[t] \in Using /\ job[t] \notin crossed =>
        Contains(acquirers[Std], job[t]) \/ At(job[t], StdAdding) # {}

\* The counter of a logger is the number of Loxes it is attached to, corrected by the
\* registrations under way, however many these are and however they interleave.
CounterExact ==
    \A g \in Loggers :
        registrations[g] = Len(acquirers[g]) + Cardinality(At(g, Adding)) - Cardinality(At(g, Removing))
=============================================================================
