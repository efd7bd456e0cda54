---------------------------- MODULE ConfigParser ----------------------------
(***************************************************************************)
(* load_config's line loop and add_rule of config.rs.                      *)
(*                                                                         *)
(* A line is a sequence of tokens, without the blanks trim removes: the    *)
(* separators "=", "{" and "}", names (of packages and threads, a sequence *)
(* of bytes), CPU texts (see CpuSpec) and notes.  A note is a word of a    *)
(* comment; it begins with # or //, and has no separator or comma in it.   *)
(***************************************************************************)
EXTENDS CpuSpec, FiniteSets, SequencesExt

CONSTANTS
    Topology,       \* CpuTopology: the CPUs of each kind of core
    MaxPkgLen,      \* MAX_PKG_LEN
    MaxThreadLen,   \* MAX_THREAD_LEN
    Creatable       \* the sets of CPUs whose cpuset directory can be created

ASSUME TopologyAssumption == Topology \in [CoreNames -> SUBSET (0 .. Size - 1)]

ASSUME LengthsAssumption == MaxPkgLen \in Nat /\ MaxThreadLen \in Nat

Eq == <<"=">>
OpenBr == <<"{">>
CloseBr == <<"}">>
Note == <<"note">>
Named(bytes) == <<"name", bytes>>
OnCpus(parts) == <<"cpus", parts>>

VARIABLES
    lines,          \* the file's lines, as they were read
    at,             \* the next line
    rules,          \* the rules so far
    failCnt,        \* fail_cnt
    curPkg,         \* cur_pkg
    pendingPkg,     \* pending_pkg
    inBlock,        \* in_block
    loaded          \* load_config has returned

parserVars == <<lines, at, rules, failCnt, curPkg, pendingPkg, inBlock, loaded>>

\* The bytes of a text that is one name or empty, and the CPUs a text names.
NameOf(text) == IF text = <<>> THEN <<>> ELSE text[1][2]

CpusOf(text) ==
    IF text = <<>> \/ text[1][1] # "cpus" THEN {}
    ELSE LET parts == text[1][2]
         IN  ParseCpuSpec(IF Len(text) = 1 THEN parts
                          ELSE [parts EXCEPT ![Len(parts)] = Spoilt(@)],
                          Topology)

\* create_cpuset_dir for a rule's own directory; no directory is {}.
Directory(set) == IF set \in Creatable THEN set ELSE {}

\* Mutation: a rule without CPUs is taken all the same.
AcceptsEmpty(pkg, thread, cpus) == Len(pkg) < MaxPkgLen

\* add_rule: whether it accepts, and what it does.
Accepts(pkg, thread, cpus) ==
    /\ Len(pkg) < MaxPkgLen /\ Len(thread) < MaxThreadLen
    /\ CpusOf(cpus) # {}

WithRule(pkg, thread, cpus) ==
    IF ~Accepts(pkg, thread, cpus) THEN rules
    ELSE Append(rules, [pkg |-> pkg, thread |-> thread, cpus |-> CpusOf(cpus),
                        dir |-> IF thread = <<>> THEN Directory(CpusOf(cpus))
                                ELSE {}])

Fails(pkg, thread, cpus) == IF Accepts(pkg, thread, cpus) THEN 0 ELSE 1

AddRule(pkg, thread, cpus, othersFailed) ==
    /\ rules' = WithRule(pkg, thread, cpus)
    /\ failCnt' = failCnt + Fails(pkg, thread, cpus) + othersFailed

NoRule(failed) == failCnt' = failCnt + failed /\ UNCHANGED rules

\* Where a text first has one of the tokens; what is before it, what behind.
Find(text, tokens) == SelectInSeq(text, LAMBDA token : token \in tokens)
Before(text, i) == SubSeq(text, 1, i - 1)
Behind(text, i) == SubSeq(text, i + 1, Len(text))

\* An abandoned "pkg =" is one failure.
Abandoned == IF pendingPkg # <<>> THEN 1 ELSE 0

Line == lines[at]
NextLine == at' = at + 1 /\ UNCHANGED <<lines, loaded>>
IsBlank == IF Line = <<>> THEN TRUE ELSE Line[1] = Note
Separator == Find(Line, {Eq, OpenBr})
Subject == NameOf(Before(Line, Separator))
Rest == Behind(Line, Separator)
Outside(token) ==
    /\ at <= Len(lines) /\ ~IsBlank /\ ~inBlock
    /\ Separator # 0 /\ Line[Separator] = token

ParserInit ==
    /\ at = 1
    /\ rules = <<>> /\ failCnt = 0
    /\ curPkg = <<>> /\ pendingPkg = <<>> /\ inBlock = FALSE
    /\ loaded = FALSE

BlankLine ==
    /\ at <= Len(lines) /\ IsBlank
    /\ NextLine
    /\ UNCHANGED <<rules, failCnt, curPkg, pendingPkg, inBlock>>

\* A line inside a block, which "}" ends.
BlockLine ==
    /\ at <= Len(lines) /\ ~IsBlank /\ inBlock
    /\ LET close == Find(Line, {CloseBr})
           content == IF close = 0 THEN Line ELSE Before(Line, close)
           eq == Find(content, {Eq})
       IN  /\ IF content = <<>> THEN NoRule(0)
              ELSE IF eq = 0 THEN NoRule(1)
              ELSE AddRule(curPkg, NameOf(Before(content, eq)),
                           Behind(content, eq), 0)
           /\ inBlock' = (close = 0)
           /\ curPkg' = IF close = 0 THEN curPkg ELSE <<>>
    /\ NextLine
    /\ UNCHANGED pendingPkg

\* Neither "=" nor "{".
PlainLine ==
    /\ at <= Len(lines) /\ ~IsBlank /\ ~inBlock
    /\ Separator = 0
    /\ NoRule(Abandoned)
    /\ pendingPkg' = <<>>
    /\ NextLine
    /\ UNCHANGED <<curPkg, inBlock>>

\* pkg { thread } = cpus, and a block after it if there is a "{" at the end.
ThreadLine ==
    /\ Outside(OpenBr)
    /\ Find(Rest, {CloseBr}) # 0
    /\ LET close == Find(Rest, {CloseBr})
           thread == NameOf(Before(Rest, close))
           more == Behind(Rest, close)
           eq == Find(more, {Eq})
           cpus == Behind(more, eq)
           block == Find(cpus, {OpenBr})
       IN  IF eq = 0
           THEN NoRule(Abandoned + 1) /\ UNCHANGED <<curPkg, inBlock>>
           ELSE IF block = 0
           THEN /\ AddRule(Subject, thread, cpus, Abandoned)
                /\ UNCHANGED <<curPkg, inBlock>>
           ELSE /\ IF block = 1 THEN NoRule(Abandoned)
                   ELSE AddRule(Subject, thread, Before(cpus, block), Abandoned)
                /\ curPkg' = Subject /\ inBlock' = TRUE
    /\ pendingPkg' = <<>>
    /\ NextLine

\* pkg {, or { alone after a line pkg =.
OpenLine ==
    /\ Outside(OpenBr)
    /\ Find(Rest, {CloseBr}) = 0
    /\ LET pkg == IF Subject # <<>> THEN Subject ELSE pendingPkg
       IN  IF pkg = <<>>
           THEN NoRule(1) /\ UNCHANGED <<curPkg, pendingPkg, inBlock>>
           ELSE /\ NoRule(IF Subject # <<>> THEN Abandoned ELSE 0)
                /\ curPkg' = pkg /\ inBlock' = TRUE
                /\ pendingPkg' = <<>>
    /\ NextLine

\* pkg = cpus {
RuleAndBlockLine ==
    /\ Outside(Eq)
    /\ Find(Rest, {OpenBr}) # 0
    /\ LET cpus == Before(Rest, Find(Rest, {OpenBr}))
       IN  IF cpus = <<>> THEN NoRule(Abandoned)
           ELSE AddRule(Subject, <<>>, cpus, Abandoned)
    /\ curPkg' = Subject /\ inBlock' = TRUE
    /\ pendingPkg' = <<>>
    /\ NextLine

\* pkg =
PendingLine ==
    /\ Outside(Eq)
    /\ Rest = <<>>
    /\ NoRule(Abandoned)
    /\ pendingPkg' = Subject
    /\ NextLine
    /\ UNCHANGED <<curPkg, inBlock>>

\* pkg = cpus
RuleLine ==
    /\ Outside(Eq)
    /\ Rest # <<>> /\ Find(Rest, {OpenBr}) = 0
    /\ AddRule(Subject, <<>>, Rest, Abandoned)
    /\ pendingPkg' = <<>>
    /\ NextLine
    /\ UNCHANGED <<curPkg, inBlock>>

\* Mutation: a block that is still open at the end is no failure.
EndOfFileAccepted ==
    /\ at = Len(lines) + 1 /\ ~loaded
    /\ NoRule(0)
    /\ loaded' = TRUE
    /\ UNCHANGED <<lines, at, curPkg, pendingPkg, inBlock>>

EndOfFile ==
    /\ at = Len(lines) + 1 /\ ~loaded
    /\ NoRule(IF inBlock \/ pendingPkg # <<>> THEN 1 ELSE 0)
    /\ loaded' = TRUE
    /\ UNCHANGED <<lines, at, curPkg, pendingPkg, inBlock>>

\* What load_config returns with the rules.
Pkgs == {rules[i].pkg : i \in DOMAIN rules}
HasThreadRules == {rules[i].pkg : i \in {j \in DOMAIN rules : rules[j].thread # <<>>}}
=============================================================================
