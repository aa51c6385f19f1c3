---------------------------- MODULE ThreadRegistry ----------------------------
(***************************************************************************)
(* Who is who: Thread::CurrentThread and the map from the platform's       *)
(* thread ids to objects of class Thread (alib/threads/thread.cpp), with   *)
(* the start and the destruction of ALib threads and with foreign threads, *)
(* that come and go without ALib being told.                               *)
(*                                                                         *)
(* ThreadLock takes a thread's object for the thread, the stores of scopes *)
(* and the thread dictionary its id. The platform is external: it may give *)
(* the id of a thread that was joined to the next thread.                  *)
(***************************************************************************)
EXTENDS Integers, FiniteSets

CONSTANTS Foreign,     \* threads that are not ALib's
          Main,        \* the one that calls ALIB::Init
          Objects,     \* the objects of class Thread that are constructed
          PlatformIds  \* std::thread::id

Free      == "free"
System(n) == <<"SYS", n>>       \* the object of a system thread
Systems   == {"SYS"} \X Int

ASSUME ThreadsAssumption ==
    /\ Main \in Foreign /\ Foreign \cap Objects = {}
    /\ Free \notin Objects /\ Objects \cap Systems = {}

VARIABLES
    threadMap,           \* the entries: platform id -> object
    registryMutex,       \* Thread::mutex: the thread started by its holder, or nobody
    nextThreadId, nextSystemThreadId,
    idOf,                \* the ids of the objects constructed so far
    phase,               \* of each ALib thread's object and std::thread, of each foreign thread
    platformId,          \* the platform id of what runs or was not joined
    identities,          \* history: the objects that CurrentThread gave to a thread
    fresh                \* history: the threads that began with a platform id nobody
                         \*          had left in the map, or was about to remove from it

registryVars == <<threadMap, registryMutex, nextThreadId, nextSystemThreadId, idOf, phase,
                  platformId, identities, fresh>>

AllThreads == Foreign \cup Objects
Running(x)   == phase[x] = "running"
Reserved     == {platformId[x] : x \in {y \in AllThreads : phase[y] \in {"running", "ended"}}}
\* A destructor has joined the thread of the id, and not yet removed the entry.
Leaving(p)   == \E o \in Objects : phase[o] = "joined" /\ platformId[o] = p

Entries(p)    == IF p \in DOMAIN threadMap THEN {threadMap[p]} ELSE {}
\* std::map::insert leaves an entry that is there already.
Inserted(p, object) ==
    [q \in DOMAIN threadMap \cup {p} |-> IF q \in DOMAIN threadMap THEN threadMap[q] ELSE object]
Erased(p)     == [q \in DOMAIN threadMap \ {p} |-> threadMap[q]]

-----------------------------------------------------------------------------
(***************************************************************************)
(* The platform: a thread begins with an id that no other one has.         *)
(***************************************************************************)
Begins(x, p) ==
    /\ p \in PlatformIds \ Reserved
    /\ phase' = [phase EXCEPT ![x] = "running"]
    /\ platformId' = [platformId EXCEPT ![x] = p]
    /\ fresh' = IF Entries(p) = {} /\ ~Leaving(p) THEN fresh \cup {x} ELSE fresh

ForeignBegins(f, p) ==
    /\ f \in Foreign /\ phase[f] = "new" /\ Begins(f, p)
    /\ UNCHANGED <<threadMap, registryMutex, nextThreadId, nextSystemThreadId, idOf, identities>>

ForeignEnds(f) ==
    /\ f \in Foreign \ {Main} /\ Running(f)
    /\ phase' = [phase EXCEPT ![f] = "joined"]
    /\ UNCHANGED <<threadMap, registryMutex, nextThreadId, nextSystemThreadId, idOf, platformId,
                   identities, fresh>>

\* _Thread__Start returns from Run: the alive flag falls, the id is still taken.
RunReturns(o) ==
    /\ o \in Objects /\ Running(o)
    /\ phase' = [phase EXCEPT ![o] = "ended"]
    /\ UNCHANGED <<threadMap, registryMutex, nextThreadId, nextSystemThreadId, idOf, platformId,
                   identities, fresh>>

-----------------------------------------------------------------------------
(***************************************************************************)
(* CurrentThread: found in the map or, as a system thread, entered.        *)
(***************************************************************************)
\* Mutant: system threads share an id.
CurrentThreadSameId(x) ==
    /\ Running(x) /\ registryMutex = Free
    /\ LET p == platformId[x]
           new == System(nextSystemThreadId)
       IN  IF Entries(p) # {}
           THEN /\ identities' = [identities EXCEPT ![x] = @ \cup Entries(p)]
                /\ UNCHANGED <<threadMap, idOf, nextSystemThreadId>>
           ELSE /\ threadMap' = Inserted(p, new)
                /\ idOf' = [o \in DOMAIN idOf \cup {new} |->
                              IF o = new THEN nextSystemThreadId ELSE idOf[o]]
                /\ identities' = [identities EXCEPT ![x] = @ \cup {new}]
                /\ UNCHANGED nextSystemThreadId
    /\ UNCHANGED <<registryMutex, nextThreadId, phase, platformId, fresh>>

CurrentThread(x) ==
    /\ Running(x) /\ registryMutex = Free
    /\ LET p == platformId[x]
           new == System(nextSystemThreadId)
       IN  IF Entries(p) # {}
           THEN /\ identities' = [identities EXCEPT ![x] = @ \cup Entries(p)]
                /\ UNCHANGED <<threadMap, idOf, nextSystemThreadId>>
           ELSE /\ threadMap' = Inserted(p, new)
                /\ idOf' = [o \in DOMAIN idOf \cup {new} |->
                              IF o = new THEN nextSystemThreadId ELSE idOf[o]]
                /\ identities' = [identities EXCEPT ![x] = @ \cup {new}]
                /\ nextSystemThreadId' = nextSystemThreadId - 1
    /\ UNCHANGED <<registryMutex, nextThreadId, phase, platformId, fresh>>

-----------------------------------------------------------------------------
(***************************************************************************)
(* ALib threads.                                                           *)
(***************************************************************************)
Construct(o) ==
    /\ o \in Objects /\ phase[o] = "new" /\ registryMutex = Free
    /\ idOf' = [x \in DOMAIN idOf \cup {o} |-> IF x = o THEN nextThreadId ELSE idOf[x]]
    /\ nextThreadId' = nextThreadId + 1
    /\ phase' = [phase EXCEPT ![o] = "constructed"]
    /\ UNCHANGED <<threadMap, registryMutex, nextSystemThreadId, platformId,
                   identities, fresh>>

\* Mutant: the thread is created before the mutex is locked.
StartUnlocked(o, p) ==
    /\ o \in Objects /\ phase[o] = "constructed" /\ registryMutex = Free
    /\ Begins(o, p)
    /\ UNCHANGED <<threadMap, registryMutex, nextThreadId, nextSystemThreadId, idOf, identities>>

\* Start: the new thread may run at once, but not get past the mutex. (A thread
\* that was started already is reported and left alone.)
Start(o, p) ==
    /\ o \in Objects /\ phase[o] = "constructed" /\ registryMutex = Free
    /\ Begins(o, p)
    /\ registryMutex' = o
    /\ UNCHANGED <<threadMap, nextThreadId, nextSystemThreadId, idOf, identities>>

StartInsert ==
    /\ registryMutex # Free
    /\ threadMap' = Inserted(platformId[registryMutex], registryMutex)
    /\ registryMutex' = Free
    /\ UNCHANGED <<nextThreadId, nextSystemThreadId, idOf, phase, platformId,
                   identities, fresh>>

\* ~Thread waits for the end of a thread that was started ...
DestructorJoins(o) ==
    /\ o \in Objects /\ phase[o] = "ended" /\ registryMutex # o
    /\ phase' = [phase EXCEPT ![o] = "joined"]
    /\ UNCHANGED <<threadMap, registryMutex, nextThreadId, nextSystemThreadId, idOf, platformId,
                   identities, fresh>>

\* Mutant: the entry of a thread that has ended is left in the map.
DestructorLeavesEntry(o) ==
    /\ o \in Objects /\ phase[o] = "joined" /\ registryMutex = Free
    /\ phase' = [phase EXCEPT ![o] = "deleted"]
    /\ UNCHANGED <<threadMap, registryMutex, nextThreadId, nextSystemThreadId, idOf, platformId,
                   identities, fresh>>

\* ... and then removes the entry of its platform id, whosever it is by now.
DestructorErases(o) ==
    /\ o \in Objects /\ phase[o] = "joined" /\ registryMutex = Free
    /\ threadMap' = Erased(platformId[o])
    /\ phase' = [phase EXCEPT ![o] = "deleted"]
    /\ UNCHANGED <<registryMutex, nextThreadId, nextSystemThreadId, idOf, platformId,
                   identities, fresh>>

DeleteUnstarted(o) ==
    /\ o \in Objects /\ phase[o] = "constructed"
    /\ phase' = [phase EXCEPT ![o] = "deleted"]
    /\ UNCHANGED <<threadMap, registryMutex, nextThreadId, nextSystemThreadId, idOf, platformId,
                   identities, fresh>>

-----------------------------------------------------------------------------
\* ALIB::Init: the main thread is the first to be known, with id -1.
RegistryInit ==
    \E p \in PlatformIds :
        /\ platformId = [x \in AllThreads |-> p]    \* only that of Main means something
        /\ threadMap = [q \in {p} |-> System(-1)]
        /\ registryMutex = Free
        /\ nextThreadId = 1 /\ nextSystemThreadId = -2
        /\ idOf = [o \in {System(-1)} |-> -1]
        /\ phase = [x \in AllThreads |-> IF x = Main THEN "running" ELSE "new"]
        /\ identities = [x \in AllThreads |-> IF x = Main THEN {System(-1)} ELSE {}]
        /\ fresh = {Main}

RegistryNext ==
    \/ StartInsert
    \/ \E x \in AllThreads :
        \/ CurrentThread(x) \/ Construct(x)
        \/ ForeignEnds(x) \/ RunReturns(x)
        \/ DestructorJoins(x) \/ DestructorErases(x) \/ DeleteUnstarted(x)
        \/ \E p \in PlatformIds : ForeignBegins(x, p) \/ Start(x, p)

RegistrySpec == RegistryInit /\ [][RegistryNext]_registryVars

-----------------------------------------------------------------------------
(***************************************************************************)
(* Two threads that run at the same time are never given the same object,  *)
(* nor the same id, whatever the platform does with its ids: a ThreadLock  *)
(* and the values kept for threads rely on it.                             *)
(***************************************************************************)
UniqueIdentity ==
    \A x, y \in AllThreads : x # y /\ Running(x) /\ Running(y) =>
        \A a \in identities[x], b \in identities[y] : a # b /\ idOf[a] # idOf[b]

(***************************************************************************)
(* A thread with a platform id that nobody has left behind is always given *)
(* the same object, and its own one if it is started by ALib: also if it   *)
(* asks before Start has entered it.                                       *)
(***************************************************************************)
FreshIsItself ==
    \A x \in fresh : Running(x) =>
        IF x \in Objects THEN identities[x] \subseteq {x}
        ELSE \A a, b \in identities[x] : a = b /\ a \notin Objects

(***************************************************************************)
(* The map has no object that was deleted: no call of CurrentThread gets a *)
(* dangling pointer, with destructors and starts in any order and platform *)
(* ids that are given again at any time.                                   *)
(***************************************************************************)
NoDeletedObject ==
    \A p \in DOMAIN threadMap : threadMap[p] \in Objects => phase[threadMap[p]] # "deleted"
=============================================================================
