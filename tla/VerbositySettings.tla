------------------------- MODULE VerbositySettings -------------------------
(***************************************************************************)
(* What Lox::SetVerbosity promises, without the trees that carry it out:   *)
(* every log domain that there is or could be has a setting for every      *)
(* attached logger. A setting made on a domain holds for the domain and    *)
(* everything below it, except where a setting of higher priority holds.   *)
(***************************************************************************)
EXTENDS Integers

CONSTANTS Loggers,
          Domains,      \* the paths of all log domains, in both trees
          Roots,        \* the roots of the two trees
          Within,       \* Within[d]: domain d and its ancestors, up to the root of its tree
          Settings,     \* the settings made by calls: [verbosity, priority]
          Configured,   \* Configured[d][l]: the configuration's setting of l for d, or NotAttached
          NotAttached   \* no setting: the logger is not attached to the tree

VARIABLE effective      \* effective[d][l]: the setting of logger l on domain d, or NotAttached

Fresh == [verbosity |-> "Off", priority |-> 0]

\* The later setting holds unless its priority is lower.
Override(old, new) ==
    IF old = NotAttached \/ new = NotAttached THEN old
    ELSE IF new.priority >= old.priority THEN new ELSE old

Init == effective = [d \in Domains |-> [l \in Loggers |-> NotAttached]]

\* The settings new[l] are made for the loggers on domain d.
Apply(d, new) ==
    effective' = [e \in Domains |-> [l \in Loggers |->
                     IF d \in Within[e] THEN Override(effective[e][l], new[l])
                                        ELSE effective[e][l]]]

\* A setting that takes hold on domain d is made for one logger.
Set(d, l, s) ==
    /\ effective'[d][l] = s
    /\ Apply(d, [k \in Loggers |-> IF k = l THEN s ELSE NotAttached])

\* The configuration is read for domain d and one logger, or all of them.
Configure(d, l)   == Set(d, l, Configured[d][l])
ConfigureAll(d)   == Apply(d, Configured[d])

\* Logger l is attached to the tree of root r, with a first setting on domain d.
Attach(l, r, d, new) ==
    /\ effective[r][l] = NotAttached /\ effective'[r][l] # NotAttached
    /\ effective' = [e \in Domains |-> [effective[e] EXCEPT ![l] =
                        IF r \notin Within[e] THEN @
                        ELSE IF d \in Within[e] THEN Override(Fresh, new) ELSE Fresh]]

\* Loggers are detached: gone[r] from the tree of root r.
Detach(gone) ==
    effective' = [e \in Domains |-> [l \in Loggers |->
                     IF \E r \in Roots : r \in Within[e] /\ l \in gone[r]
                       THEN NotAttached ELSE effective[e][l]]]

Next == \/ \E d \in Domains, l \in Loggers, s \in Settings : Set(d, l, s)
        \/ \E d \in Domains, l \in Loggers : Configure(d, l)
        \/ \E d \in Domains : ConfigureAll(d)
        \/ \E l \in Loggers, r \in Roots, d \in Domains, new \in Settings : Attach(l, r, d, new)
        \/ \E gone \in [Roots -> SUBSET Loggers] : Detach(gone)

Spec == Init /\ [][Next]_effective
=============================================================================
