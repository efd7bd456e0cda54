------------------------------ MODULE RuleFile ------------------------------
(***************************************************************************)
(* From a rule file to a thread's CPUs.  A file is written in the forms    *)
(* the documentation shows (README.md, docs/使用文档.md), read by the      *)
(* parser, and its rules are matched with threads; beside it stands what   *)
(* the documentation says the file means.                                  *)
(*                                                                         *)
(* The file may end after any of its lines: load_config reads a file that  *)
(* an editor is still writing.                                             *)
(***************************************************************************)
EXTENDS RuleMatch, NameFilter

CONSTANTS
    Groups,         \* what may be written of a package: sequences of lines
    MaxGroups,      \* bound: groups of a file
    Lone,           \* groups that make a file alone
    Threads         \* the names threads may have

VARIABLE file       \* the lines, as they are meant

vars == <<file, parserVars>>

------------------------------------------------------------------------------
(* Lines: a form, which shows how it looks, with the package p it is about, *)
(* the pattern of a thread t and a text of CPUs c.                          *)

Silent == {"blank", "note"}
Stating == {"rule", "rule-open", "compact", "compact-open",
            "thread", "thread-close", "thread-note"}
\* How lines of another package, named like the pattern, are met in a block
\* that has lost its "}".  One that looks like a thread's line is one.
Lost == {"lost-header", "lost-open", "lost-eq-open", "lost-compact"}
Inside == {"thread", "thread-close", "thread-note", "torn", "close"} \cup Lost
Opening == {"open", "eq-open", "thread-open", "brace", "rule-open",
            "compact-open"}
Forms == Silent \cup Stating \cup Inside \cup Opening
         \cup {"plain", "header", "no-cpus"}

Lines == [form : Forms, pkg : Seq(Codes), pattern : Patterns,
          text : Seq(Parts)]

\* What is written.
Tokens(l) ==
    LET p == Named(l.pkg)
        t == Named(Pattern(l.pattern))
        c == OnCpus(l.text)
    IN  CASE l.form = "blank" -> <<>>
          [] l.form = "note" -> <<Note, Note>>
          [] l.form = "plain" -> <<p>>
          [] l.form = "header" -> <<p, Eq>>
          [] l.form = "open" -> <<p, OpenBr>>
          [] l.form = "eq-open" -> <<p, Eq, OpenBr>>
          [] l.form = "brace" -> <<OpenBr>>
          [] l.form = "close" -> <<CloseBr>>
          [] l.form = "rule" -> <<p, Eq, c>>
          [] l.form = "rule-open" -> <<p, Eq, c, OpenBr>>
          [] l.form = "no-cpus" -> <<p, OpenBr, t, CloseBr>>
          [] l.form = "thread-open" -> <<p, OpenBr, t, CloseBr, Eq, OpenBr>>
          [] l.form = "compact" -> <<p, OpenBr, t, CloseBr, Eq, c>>
          [] l.form = "compact-open" ->
                <<p, OpenBr, t, CloseBr, Eq, c, OpenBr>>
          [] l.form = "torn" -> <<t>>
          [] l.form = "thread" -> <<t, Eq, c>>
          [] l.form = "thread-close" -> <<t, Eq, c, CloseBr>>
          [] l.form = "thread-note" -> <<t, Eq, c, Note>>
          [] l.form = "lost-header" -> <<t, Eq>>
          [] l.form = "lost-open" -> <<t, OpenBr>>
          [] l.form = "lost-eq-open" -> <<t, Eq, OpenBr>>
          [] l.form = "lost-compact" -> <<t, OpenBr, t, CloseBr, Eq, c>>

\* The CPUs a text is for: the kinds of cores it names, and those of the
\* numbers and ranges, in either direction, that the phone has.
IsFor(part, cpu) ==
    CASE part[1] = "core" -> cpu \in Topology[part[2]]
      [] part[1] = "cpu" -> cpu \in Topology["all-core"] /\ cpu = part[2]
      [] part[1] = "span" ->
            /\ cpu \in Topology["all-core"] /\ part[2] # Bad
            /\ \/ part[3] = Bad /\ cpu = part[2]
               \/ part[3] # Bad /\ part[2] <= cpu /\ cpu <= part[3]
               \/ part[3] # Bad /\ part[3] <= cpu /\ cpu <= part[2]

Cpus == UNION {Topology[k] : k \in CoreNames}

CpusMeant(text) == {cpu \in Cpus : \E i \in DOMAIN text : IsFor(text[i], cpu)}

\* A rule is left out when there are no CPUs for it or a name is too long.
Refused(l) ==
    \/ CpusMeant(l.text) = {}
    \/ Len(l.pkg) >= MaxPkgLen
    \/ Len(Pattern(l.pattern)) >= MaxThreadLen

\* The rules a line means: one or none.
RulesOf(l) ==
    IF l.form \in Stating /\ ~Refused(l)
    THEN <<[pkg |-> l.pkg, pattern |-> l.pattern, cpus |-> CpusMeant(l.text)]>>
    ELSE <<>>

------------------------------------------------------------------------------
(* Where a line stands: in a package's block, behind a line "pkg =" that is *)
(* to be followed by "{", or neither.                                       *)

TopLevel == [block |-> <<>>, pending |-> <<>>]

\* What a line leaves the next one in.
Leaves(l) ==
    IF l.form \in (Opening \cup Inside)
                    \ {"close", "thread-close", "lost-compact"}
    THEN [TopLevel EXCEPT !.block = l.pkg]
    ELSE IF l.form = "header" THEN [TopLevel EXCEPT !.pending = l.pkg]
    ELSE TopLevel

\* What the last line before the i-th that says something leaves it in.
ContextAt(f, i) ==
    LET last == {j \in 1 .. i - 1 :
                    /\ f[j].form \notin Silent
                    /\ \A k \in j + 1 .. i - 1 : f[k].form \in Silent}
    IN  IF last = {} THEN TopLevel ELSE Leaves(f[CHOOSE j \in last : TRUE])

\* The lines that may stand there.
Fits(context, l) ==
    \/ l.form \in Silent
    \/ l.form = "brace" /\ context.block = <<>> /\ l.pkg = context.pending
    \/ l.form \in Inside /\ l.pkg # <<>> /\ l.pkg = context.block
       /\ (l.form = "torn" => l.pattern # <<>>)
    \/ l.form \notin Inside \cup {"brace"}
       /\ l.pkg # <<>> /\ context.block = <<>>
       /\ (l.form \in {"rule", "rule-open"} => l.pattern = <<>>)

\* The mistakes.
Wrong(context, l) ==
    \/ l.form \in Stating /\ Refused(l)
    \/ l.form \in Lost \cup {"torn", "no-cpus"}
    \/ l.form = "brace" /\ context.pending = <<>>
    \/ l.form \notin Silent \cup {"brace"} /\ context.pending # <<>>

------------------------------------------------------------------------------

Files == {FlattenSeq(groups) : groups \in BoundedSeq(Groups, MaxGroups)}
         \cup Lone

ASSUME FilesAssumption ==
    \A f \in Files : /\ f \in Seq(Lines)
                     /\ \A i \in DOMAIN f : Fits(ContextAt(f, i), f[i])

ASSUME ThreadsAssumption ==
    /\ NameLen < MaxThreadLen
    /\ \A name \in Threads : /\ name \in Seq(Codes) \ {<<>>}
                             /\ Len(name) <= NameLen

Init ==
    /\ \E whole \in Files : \E end \in 0 .. Len(whole) :
           file = SubSeq(whole, 1, end)
    /\ lines = [i \in DOMAIN file |-> Tokens(file[i])]
    /\ ParserInit

\* The configuration is in use; nothing more happens to it.
InUse == loaded /\ UNCHANGED parserVars

\* load_config is a function of what it has read.
Reading == UNCHANGED file

Next ==
    \/ BlankLine /\ Reading
    \/ BlockLine /\ Reading
    \/ PlainLine /\ Reading
    \/ ThreadLine /\ Reading
    \/ OpenLine /\ Reading
    \/ RuleAndBlockLine /\ Reading
    \/ PendingLine /\ Reading
    \/ RuleLine /\ Reading
    \/ EndOfFile /\ Reading
    \/ InUse /\ Reading

Spec == Init /\ [][Next]_vars

------------------------------------------------------------------------------
(* Properties *)

TypeOK ==
    /\ at \in 1 .. Len(lines) + 1
    /\ failCnt \in Nat
    /\ \A i \in DOMAIN rules :
           LET r == rules[i]
           IN  /\ r.pkg \in Seq(Codes) /\ r.thread \in Seq(Codes)
               /\ r.cpus # {} /\ r.cpus \subseteq Cpus
               /\ r.dir \in {{}, r.cpus}
    /\ curPkg \in Seq(Codes) /\ pendingPkg \in Seq(Codes)
    /\ inBlock \in BOOLEAN /\ loaded \in BOOLEAN

\* What the lines read so far mean.
Meant == FlattenSeq([i \in 1 .. at - 1 |-> RulesOf(file[i])])

\* Every rule written is loaded as it is meant, in its order and for the
\* package in whose block it stands, whatever stands around it; a line with a
\* wrong CPU text is left out alone ("N 少了说明有语法错误行被跳过").  Where a
\* block has lost its "}" no line of braces becomes a rule of that block.
ReadAsMeant ==
    LET meant == Meant
    IN  [i \in DOMAIN rules |-> [pkg |-> rules[i].pkg,
                                 thread |-> rules[i].thread,
                                 cpus |-> rules[i].cpus]]
        = [i \in DOMAIN meant |-> [pkg |-> meant[i].pkg,
                                   thread |-> Pattern(meant[i].pattern),
                                   cpus |-> meant[i].cpus]]

\* A file that has a wrong line, or ends in a block or behind a line "pkg =",
\* is known to: its mtime is not recorded, and it is read again.
CutIsNoticed ==
    loaded => (failCnt > 0 <=>
                  \/ \E i \in DOMAIN file : Wrong(ContextAt(file, i), file[i])
                  \/ ContextAt(file, Len(file) + 1) # TopLevel)

\* A thread's CPUs are those the documentation promises: of all rules whose
\* pattern means its name, else of the package's rules, else all of them if
\* there are rules for other threads, else none are touched.
Documented(meant, pkg, name) ==
    LET of(is) == UNION {meant[i].cpus : i \in is}
        mine == {i \in DOMAIN meant : meant[i].pkg = pkg}
        own == {i \in mine : meant[i].pattern = <<>>}
        named == {i \in mine \ own : Means(meant[i].pattern, name)}
    IN  IF named # {} THEN of(named)
        ELSE IF own # {} THEN of(own)
        ELSE IF mine # {} THEN Topology["all-core"] ELSE {}

AffinityAsDocumented ==
    loaded => LET meant == Meant
                  pkgs == {meant[i].pkg : i \in DOMAIN meant}
              IN  \A pkg \in pkgs, name \in Threads :
                      ThreadAffinity(pkg, name).cpus
                      = Documented(meant, pkg, name)

\* The cpuset directory a thread is put into has the CPUs it is bound to.
DirectoryFits ==
    loaded => \A pkg \in Pkgs, name \in Threads :
                  LET a == ThreadAffinity(pkg, name)
                  IN  a.dir \in {{}, a.cpus}

\* The main thread of a listed app is taken for it, or for one that has the
\* same 15 bytes.
AppsRecognised ==
    loaded => \A pkg \in Pkgs : \A comm \in KernelNames(pkg) :
                  LET found == CommToPkg(comm, Pkgs)
                  IN  found # {} /\ \A p \in found : comm \in KernelNames(p)

\* The kernel lets through every name the daemon would recognise.
FilterPassesListed ==
    loaded => \A comm \in Threads \cup UNION {KernelNames(p) : p \in Pkgs} :
                  (comm # <<>> /\ CommToPkg(comm, Pkgs) # {})
                      => WhitelistMatched(comm, CommKeys(Pkgs))
=============================================================================
