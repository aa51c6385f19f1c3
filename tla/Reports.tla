-------------------------------- MODULE Reports --------------------------------
(***************************************************************************)
(* Reporting errors and warnings while logging goes on: Report with its    *)
(* writers (alib/core/report.cpp), ALoxReportWriter, that turns reports    *)
(* into log statements, and the registry of Loxes (alox/alox.cpp), and the *)
(* debug logger, that brings this writer (alox/log.cpp).                   *)
(*                                                                         *)
(* What matters is who holds which lock while he waits for another one. So *)
(* a call is the list of its steps, `todo': locking, releasing and what is *)
(* in between. The locks are taken as what ThreadLock and ThreadLockNR     *)
(* promise; the reports are warnings, after which no program halts.        *)
(***************************************************************************)
EXTENDS Integers, SequencesExt

CONSTANTS Threads, Nobody,
          MaxCalls      \* bound: calls of each thread

ASSUME ConstantsAssumption == Nobody \notin Threads /\ MaxCalls \in Nat

VARIABLES
    todo,               \* todo[t]: the steps of thread t's call that are left
    locks,              \* locks[l]: its owner and how often he acquired it
    writers,            \* Report's stack of writers
    recursionBlocker,
    debugLogger,        \* whether Log::DebugLogger is there
    debugReportWriter,  \* and Log::DebugReportWriter
    calls,
    apart               \* whether the clients keep reports and locks apart (see Calls)

vars == <<todo, locks, writers, recursionBlocker, debugLogger, debugReportWriter, calls, apart>>

\* Report's lock and the Lox are ThreadLocks, ALIB::Lock is a ThreadLockNR.
TheReport == "Report"
TheLox    == "Lox"
Alib      == "ALIB"
Locks     == {TheReport, TheLox, Alib}
Recursive == {TheReport, TheLox}

Console == "ConsoleReportWriter"
ALox    == "ALoxReportWriter"

Lock(l)   == <<"lock", l>>
Unlock(l) == <<"unlock", l>>
Do(what)  == <<"do", what>>
Under(l, steps) == <<Lock(l)>> \o steps \o <<Unlock(l)>>

-----------------------------------------------------------------------------
(***************************************************************************)
(* Calls.                                                                  *)
(***************************************************************************)
\* Mutant: the blocker is tested before the lock is there.
DoReportUnlocked == <<Do("write")>> \o Under(TheReport, <<>>)

DoReport == Under(TheReport, <<Do("write")>>)

\* A log statement, with or without an assertion that fails meanwhile.
Statement(failing) == Under(TheLox, IF failing THEN DoReport ELSE <<>>)

AddDebugLogger    == Under(TheLox, <<Do("add")>>)
RemoveDebugLogger == Under(TheLox, <<Do("remove"), Do("removeLogger")>>)

\* ALox::Get, and Register with or without a wrong argument.
Register(failing) == Under(Alib, IF failing THEN DoReport ELSE <<>>)

\* Attaching and detaching a logger registers the Lox under ALIB::Lock.
Attach == Under(Alib, <<>>)

Busy(t) == todo[t] # <<>>
Adding  == \E t \in Threads : Do("add") \in ToSet(todo[t])

\* Clients that keep apart do not report with the Lox or ALIB::Lock in hands, add the
\* debug logger once and remove it never.
Calls ==
    {DoReport, Statement(FALSE), Register(FALSE)}
    \cup (IF apart /\ (debugLogger \/ Adding) THEN {} ELSE {AddDebugLogger})
    \cup (IF apart THEN {} ELSE {RemoveDebugLogger, Statement(TRUE), Register(TRUE)})

Call(t) ==
    /\ ~Busy(t) /\ calls[t] < MaxCalls
    /\ \E call \in Calls : todo' = [todo EXCEPT ![t] = call]
    /\ calls' = [calls EXCEPT ![t] = @ + 1]
    /\ UNCHANGED <<locks, writers, recursionBlocker, debugLogger, debugReportWriter, apart>>

-----------------------------------------------------------------------------
(***************************************************************************)
(* Locking.                                                                *)
(***************************************************************************)
Next1(t)     == Head(todo[t])
Goes(t, new) == todo' = [todo EXCEPT ![t] = new \o Tail(@)]
At(t, what)  == Busy(t) /\ Next1(t) = Do(what)

\* Mutant: the lock of Report is not recursive.
MayAcquireOnce(t, l) == locks[l].owner = Nobody \/ (locks[l].owner = t /\ l = TheLox)

MayAcquire(t, l) == locks[l].owner = Nobody \/ (locks[l].owner = t /\ l \in Recursive)

Acquire(t, l) ==
    /\ Busy(t) /\ Next1(t) = Lock(l) /\ MayAcquire(t, l)
    /\ locks' = [locks EXCEPT ![l] = [owner |-> t, count |-> @.count + 1]]
    /\ Goes(t, <<>>)
    /\ UNCHANGED <<writers, recursionBlocker, debugLogger, debugReportWriter, calls, apart>>

Release(t, l) ==
    /\ Busy(t) /\ Next1(t) = Unlock(l)
    /\ locks' = [locks EXCEPT ![l] = [owner |-> IF @.count = 1 THEN Nobody ELSE t, count |-> @.count - 1]]
    /\ Goes(t, <<>>)
    /\ UNCHANGED <<writers, recursionBlocker, debugLogger, debugReportWriter, calls, apart>>

-----------------------------------------------------------------------------
(***************************************************************************)
(* DoReport, with its lock: the writer on top of the stack reports. A      *)
(* report within a report is left out. ALoxReportWriter logs it; a logger  *)
(* may have to report itself.                                              *)
(***************************************************************************)
Write(t) ==
    /\ At(t, "write")
    /\ IF recursionBlocker THEN Goes(t, <<>>) /\ UNCHANGED recursionBlocker
       ELSE /\ recursionBlocker' = TRUE
            /\ IF Last(writers) = Console THEN Goes(t, <<Do("written")>>)
               ELSE \E logging \in {<<>>, DoReport} :
                      Goes(t, Under(TheLox, logging) \o <<Do("written")>>)
    /\ UNCHANGED <<locks, writers, debugLogger, debugReportWriter, calls, apart>>

Written(t) ==
    /\ At(t, "written")
    /\ recursionBlocker' = FALSE
    /\ Goes(t, <<>>)
    /\ UNCHANGED <<locks, writers, debugLogger, debugReportWriter, calls, apart>>

-----------------------------------------------------------------------------
(***************************************************************************)
(* The debug logger: its report writer replaces the console's, which is    *)
(* registered with StdOutputStreamsLock, under ALIB::Lock, only while it   *)
(* is on top of the stack.                                                 *)
(***************************************************************************)
Add(t) ==
    /\ At(t, "add")
    /\ debugLogger' = TRUE
    /\ Goes(t, IF debugLogger THEN DoReport ELSE Attach \o Under(TheReport, <<Do("peek")>>))
    /\ UNCHANGED <<locks, writers, recursionBlocker, debugReportWriter, calls, apart>>

\* PeekWriter's answer is used without the lock.
Peek(t) ==
    /\ At(t, "peek")
    /\ todo' = [todo EXCEPT ![t] = <<Unlock(TheReport)>>
                  \o (IF Last(writers) = Console THEN Under(TheReport, <<Do("push")>>) ELSE <<>>)
                  \o SubSeq(@, 3, Len(@))]
    /\ UNCHANGED <<locks, writers, recursionBlocker, debugLogger, debugReportWriter, calls, apart>>

\* PushWriter: the writer before is deactivated first.
Push(t) ==
    /\ At(t, "push")
    /\ debugReportWriter' = TRUE
    /\ Goes(t, (IF Last(writers) = Console THEN Attach ELSE <<>>) \o <<Do("pushed")>>)
    /\ UNCHANGED <<locks, writers, recursionBlocker, debugLogger, calls, apart>>

Pushed(t) ==
    /\ At(t, "pushed")
    /\ writers' = Append(writers, ALox)
    /\ Goes(t, <<>>)
    /\ UNCHANGED <<locks, recursionBlocker, debugLogger, debugReportWriter, calls, apart>>

Remove1(t) ==
    /\ At(t, "remove")
    /\ Goes(t, IF debugReportWriter THEN Under(TheReport, <<Do("pop")>>) \o <<Do("delete")>> ELSE <<>>)
    /\ UNCHANGED <<locks, writers, recursionBlocker, debugLogger, debugReportWriter, calls, apart>>

\* PopWriter: the writer below is activated again. Another one on top is an error.
Pop(t) ==
    /\ At(t, "pop")
    /\ IF Last(writers) # ALox THEN Goes(t, DoReport) /\ UNCHANGED writers
       ELSE writers' = Front(writers) /\ Goes(t, Attach)
    /\ UNCHANGED <<locks, recursionBlocker, debugLogger, debugReportWriter, calls, apart>>

Delete(t) ==
    /\ At(t, "delete")
    /\ debugReportWriter' = FALSE
    /\ Goes(t, <<>>)
    /\ UNCHANGED <<locks, writers, recursionBlocker, debugLogger, calls, apart>>

RemoveLogger(t) ==
    /\ At(t, "removeLogger")
    /\ debugLogger' = FALSE
    /\ Goes(t, IF debugLogger THEN Attach ELSE DoReport)
    /\ UNCHANGED <<locks, writers, recursionBlocker, debugReportWriter, calls, apart>>

-----------------------------------------------------------------------------
Init ==
    /\ todo = [t \in Threads |-> <<>>]
    /\ locks = [l \in Locks |-> [owner |-> Nobody, count |-> 0]]
    /\ writers = <<Console>> /\ recursionBlocker = FALSE
    /\ debugLogger = FALSE /\ debugReportWriter = FALSE
    /\ calls = [t \in Threads |-> 0]
    /\ apart \in BOOLEAN

Step(t) ==
    \/ \E l \in Locks : Acquire(t, l) \/ Release(t, l)
    \/ Write(t) \/ Written(t)
    \/ Add(t) \/ Peek(t) \/ Push(t) \/ Pushed(t)
    \/ Remove1(t) \/ Pop(t) \/ Delete(t) \/ RemoveLogger(t)

Next == \E t \in Threads : Call(t) \/ Step(t)

\* A thread goes on with its call, and gets a lock that is free again and again.
Spec == Init /\ [][Next]_vars /\ \A t \in Threads : SF_vars(Step(t))

-----------------------------------------------------------------------------
(***************************************************************************)
(* The recursion blocker leaves out the reports of the thread that is      *)
(* reporting, and never one of another thread.                             *)
(***************************************************************************)
NoReportLost ==
    \A t \in Threads : At(t, "write") /\ recursionBlocker => Do("written") \in ToSet(todo[t])

(***************************************************************************)
(* As long as nobody reports with a Lox or ALIB::Lock in hands, or removes *)
(* the debug logger, every call returns: also the one that brings the      *)
(* ALoxReportWriter while others report, and loggers may report, too.      *)
(***************************************************************************)
CallsReturnWhenApart == \A t \in Threads : apart /\ Busy(t) ~> ~Busy(t)
=============================================================================
