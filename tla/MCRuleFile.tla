----------------------------- MODULE MCRuleFile -----------------------------
(* RuleFile for TLC: four CPUs in three clusters; packages whose names are
   short, longer than a kernel name, the end of another, too long; CPU texts
   of all kinds with the CPUs they are for; the documented forms of rules, and
   mistakes; and every pattern of up to three elements. *)
EXTENDS RuleFile

a == 97
b == 98
c == 99

P == <<a>>
Q == <<b, c, a, b>>
R == <<c, a, b>>
TooLong == Q \o R

MCTopology ==
    CoreTypes({[freq |-> 1, cpus |-> {0}], [freq |-> 1, cpus |-> {1}],
               [freq |-> 2, cpus |-> {2}], [freq |-> 3, cpus |-> {3}]}, 0 .. 3)

MCCreatable == SUBSET (0 .. 3) \ {{}, {0, 1}}

Low == <<Span(0, 1)>>
High == <<Core("hp-core"), Cpu(1)>>
Middle == <<Cpu(9), Core("p-core"), Cpu(Bad)>>
Turned == <<Span(9, 2)>>
Absent == <<Cpu(4), Span(Bad, 1)>>

ASSUME TextsAsMeant ==
    /\ CpusMeant(Low) = {0, 1} /\ CpusMeant(High) = {1, 3}
    /\ CpusMeant(Middle) = {2} /\ CpusMeant(Turned) = {2, 3}
    /\ CpusMeant(Absent) = {}

Exact == <<Byte(a), Byte(b)>>
Begins == <<Byte(a), AnyBytes>>

\* Lines.
Says(form, pkg, pattern, text) ==
    [form |-> form, pkg |-> pkg, pattern |-> pattern, text |-> text]
Bare(form, pkg) == Says(form, pkg, <<>>, <<>>)
Rule(pkg, text) == Says("rule", pkg, <<>>, text)
Mixed(pkg, text) == Says("rule-open", pkg, <<>>, text)
Compact(pkg, es, text) == Says("compact", pkg, es, text)
CompactMixed(pkg, es, text) == Says("compact-open", pkg, es, text)
Thread(pkg, es, text) == Says("thread", pkg, es, text)
Tight(pkg, es, text) == Says("thread-close", pkg, es, text)
Noted(pkg, es, text) == Says("thread-note", pkg, es, text)

Blank == Bare("blank", <<>>)
Remark == Bare("note", <<>>)
Closing(pkg) == Bare("close", pkg)
Torn(pkg, es) == Says("torn", pkg, es, <<>>)
Astray(form, pkg) == Says(form, pkg, Exact, High)

MCGroups ==
    {<<Remark, Blank>>, <<Bare("plain", R)>>, <<Bare("header", R)>>,
     <<Says("no-cpus", P, Exact, <<>>)>>,
     <<Rule(P, Low)>>, <<Rule(P, High)>>, <<Rule(Q, Absent)>>,
     <<Rule(TooLong, Low)>>,
     <<Compact(P, Begins, Turned)>>, <<Compact(R, Begins, Low)>>,
     <<Bare("open", Q), Closing(Q)>>,
     <<Bare("open", P), Thread(P, Begins, Low), Thread(P, Exact, High),
       Closing(P)>>,
     <<Bare("eq-open", Q), Thread(Q, Exact, Absent), Torn(Q, Exact), Remark,
       Thread(Q, Begins, Middle), Closing(Q)>>,
     <<Bare("header", Q), Remark, Bare("brace", Q), Thread(Q, Exact, Low),
       Closing(Q)>>,
     <<Says("thread-open", P, Begins, <<>>), Thread(P, Exact, Low),
       Closing(P)>>,
     <<Mixed(P, High), Thread(P, Exact, Turned), Closing(P)>>,
     <<Mixed(Q, Absent), Tight(Q, Begins, Low)>>,
     <<CompactMixed(R, Exact, Low), Thread(R, Begins, High), Closing(R)>>,
     <<Bare("open", P), Astray("lost-header", P), Astray("lost-open", P),
       Thread(P, Begins, Low), Closing(P)>>,
     <<Bare("open", Q), Astray("lost-eq-open", Q), Thread(Q, Exact, Middle),
       Astray("lost-compact", Q)>>}

MCElements ==
    {Byte(a), Byte(b), AnyBytes, AnyByte,
     OneOf(<<<<Close>>, <<b>>>>), OneOf(<<<<c>>, <<a, a>>>>),
     NoneOf(<<<<c>>, <<Dash>>>>), NoneOfThem(<<<<a, b>>>>), Unclosed(<<a>>)}

MCLone ==
    {<<Compact(P, es, Low)>> :
        es \in {es \in BoundedSeq(MCElements, 3) : es \in Patterns}}
    \cup {<<Bare("brace", <<>>)>>}

\* Whatever comes behind a "[", up to four bytes, begins with a class or is
\* one that is not closed: a pattern of bytes can be written in elements.
ASSUME ClassesAreAll ==
    LET bytes == {a, Dash, Close, Open, Bang}
        members == {m \in BoundedSeq(bytes, 2) : m # <<>>}
        classes == {e \in ClassKinds \X (BoundedSeq(members, 3) \ {<<>>}) :
                        IsClass(e[1], e[2])}
        unclosed == {e \in {"unclosed"} \X BoundedSeq(bytes, 4) :
                        StaysOpen(e[2])}
    IN  \A p \in BoundedSeq(bytes, 4) :
            \/ Unclosed(p) \in unclosed
            \/ \E e \in classes : IsPrefix(Written(e), <<Open>> \o p)

MCNoted == {<<Bare("open", P), Noted(P, Exact, Low), Closing(P)>>}

MCThreads == BoundedSeq({a, b, c}, 3) \ {<<>>}
=============================================================================
