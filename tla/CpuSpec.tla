------------------------------ MODULE CpuSpec ------------------------------
(***************************************************************************)
(* The texts that name CPUs: parse_cpu_ranges and parse_cpu_spec of        *)
(* cpuset.rs.  A text is a sequence of the parts between its commas: a     *)
(* number, two numbers joined by "-", or the name of a kind of core.       *)
(***************************************************************************)
EXTENDS Integers, Sequences

CONSTANT Size       \* CPU_SETSIZE

ASSUME SizeAssumption == Size \in Nat \ {0}

Bad == -1           \* a text that does not parse as a number

Cpu(n) == <<"cpu", n>>
Span(a, b) == <<"span", a, b>>
Core(name) == <<"core", name>>

CoreNames == {"e-core", "p-core", "hp-core", "all-core"}
Numbers == Nat \cup {Bad}
Parts ==
    ({"cpu"} \X Numbers) \cup ({"span"} \X Numbers \X Numbers)
    \cup ({"core"} \X CoreNames)

Lower(a, b) == IF a > b THEN b ELSE a
Upper(a, b) == IF a > b THEN a ELSE b

\* Mutation: a reversed range is empty.
FromToOnly(a, b) == a .. Lower(b, Size - 1)

\* Mutation: the last CPU of the set is cut off.
FromToShort(a, b) == Lower(a, b) .. Lower(Upper(a, b), Size - 2)

\* A reversed range is turned round, one that leaves the set is cut.
FromTo(a, b) == Lower(a, b) .. Lower(Upper(a, b), Size - 1)

\* A part of parse_cpu_ranges.  Without a number before the "-" it is skipped;
\* an end that does not parse is taken to be the beginning.
NumberCpus(part) ==
    IF part[2] = Bad THEN {}
    ELSE IF part[1] = "cpu" \/ part[3] = Bad THEN FromTo(part[2], part[2])
    ELSE FromTo(part[2], part[3])

ParseCpuRanges(text, present) ==
    (UNION {NumberCpus(text[i]) : i \in DOMAIN text}) \cap present

\* A part with something behind it that has no comma: no core's name, no
\* number, and the end of a range does not parse.
Spoilt(part) ==
    IF part[1] = "span" THEN Span(part[2], Bad) ELSE Cpu(Bad)

\* A part of parse_cpu_spec: only what is written in numbers is compared with
\* the CPUs that are present.
PartCpus(part, topo) ==
    IF part[1] = "core" THEN topo[part[2]]
    ELSE NumberCpus(part) \cap topo["all-core"]

ParseCpuSpec(text, topo) ==
    UNION {PartCpus(text[i], topo) : i \in DOMAIN text}

\* detect_core_types: policies of the same frequency are one group; the slowest
\* is e-core, the fastest of several hp-core, the others p-core.
CoreTypes(policies, present) ==
    LET freqs == {p.freq : p \in policies}
        slow == {f \in freqs : \A g \in freqs : f <= g}
        fast == {f \in freqs : \A g \in freqs : g <= f} \ slow
        cpusAt(fs) == UNION {p.cpus : p \in {q \in policies : q.freq \in fs}}
    IN  [k \in CoreNames |->
            CASE k = "e-core" -> cpusAt(slow)
              [] k = "hp-core" -> cpusAt(fast)
              [] k = "p-core" -> cpusAt(freqs \ (slow \cup fast))
              [] OTHER -> present]
=============================================================================
