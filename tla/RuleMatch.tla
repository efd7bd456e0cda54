----------------------------- MODULE RuleMatch -----------------------------
(***************************************************************************)
(* thread_affinity of rule_match.rs: the CPUs, and the cpuset directory,   *)
(* the loaded rules give a thread.                                         *)
(***************************************************************************)
EXTENDS ConfigParser, Fnmatch

\* fnmatch_c.
FnmatchC(pattern, name) ==
    Len(name) < MaxThreadLen /\ MatchPattern(pattern, name)

NoAffinity == [cpus |-> {}, dir |-> {}, isThreadRule |-> FALSE]

\* Mutation: the first thread rule that matches decides.
ThreadRulesMatchedFirst(pkg, thread) ==
    LET all == {i \in DOMAIN rules :
                    /\ rules[i].pkg = pkg /\ rules[i].thread # <<>>
                    /\ thread # <<>> /\ FnmatchC(rules[i].thread, thread)}
    IN  {i \in all : \A j \in all : i <= j}

\* The rules of the two loops, and the CPUs of some rules together.
ThreadRulesMatched(pkg, thread) ==
    {i \in DOMAIN rules :
        /\ rules[i].pkg = pkg /\ rules[i].thread # <<>>
        /\ thread # <<>> /\ FnmatchC(rules[i].thread, thread)}

PkgRules(pkg) ==
    {i \in DOMAIN rules : rules[i].pkg = pkg /\ rules[i].thread = <<>>}

CpusOfRules(is) == UNION {rules[i].cpus : i \in is}

\* Mutation: two rules for a package keep the directory of the first.
PkgDirectoryOfFirst(is) ==
    IF is = {} THEN {} ELSE rules[CHOOSE i \in is : \A j \in is : i <= j].dir

\* A rule's directory is used when it is the package's only one.
PkgDirectory(is) ==
    IF Cardinality(is) = 1 THEN rules[CHOOSE i \in is : TRUE].dir ELSE {}

ThreadAffinity(pkg, thread) ==
    LET matched == ThreadRulesMatched(pkg, thread)
        own == PkgRules(pkg)
    IN  IF matched # {}
        THEN [cpus |-> CpusOfRules(matched),
              dir |-> Directory(CpusOfRules(matched)),
              isThreadRule |-> TRUE]
        ELSE IF own # {}
        THEN [cpus |-> CpusOfRules(own), dir |-> PkgDirectory(own),
              isThreadRule |-> FALSE]
        ELSE IF pkg \in HasThreadRules
        THEN [cpus |-> Topology["all-core"], dir |-> {}, isThreadRule |-> FALSE]
        ELSE NoAffinity
=============================================================================
