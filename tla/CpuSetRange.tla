---------------------------- MODULE CpuSetRange ----------------------------
(***************************************************************************)
(* to_range_string of cpuset.rs, which names the cpuset directory of a     *)
(* rule and is written to its "cpus": the bits are read word by word, and  *)
(* a range under way is carried from one word to the next.                 *)
(***************************************************************************)
EXTENDS CpuSpec

CONSTANTS
    Words,      \* CPU_WORDS
    Bits        \* CPU_WORD_BITS

ASSUME WordsAssumption ==
    /\ Words \in Nat /\ Bits \in Nat \ {0}
    /\ Size = Words * Bits

VARIABLES
    cpus,       \* the set, bits: it is not changed
    word, bit,  \* where the two loops are
    start, end, \* the range under way
    out,        \* the ranges written
    returned    \* result is returned

vars == <<cpus, word, bit, start, end, out, returned>>

None == -1
Cpus == 0 .. Size - 1

TypeOK ==
    /\ cpus \subseteq Cpus
    /\ word \in 0 .. Words /\ bit \in 0 .. Bits
    /\ start \in Cpus \cup {None} /\ end \in Cpus \cup {None}
    /\ out \in Seq(Cpus \X Cpus)
    /\ returned \in BOOLEAN

Base == word * Bits
WordIsZero == \A c \in Base .. Base + Bits - 1 : c \notin cpus

\* Mutation: a range is written when there is none.
PushRangeAnyhow == Append(out, <<start, end>>)

PushRange == IF start = None THEN out ELSE Append(out, <<start, end>>)

Init ==
    /\ cpus \in SUBSET Cpus
    /\ word = 0 /\ bit = 0
    /\ start = None /\ end = None
    /\ out = <<>>
    /\ returned = FALSE

ZeroWord ==
    /\ word < Words /\ bit = 0
    /\ WordIsZero
    /\ out' = PushRange
    /\ start' = None /\ end' = None
    /\ word' = word + 1
    /\ UNCHANGED <<cpus, bit, returned>>

BitClear ==
    /\ word < Words /\ bit < Bits
    /\ ~WordIsZero
    /\ Base + bit \notin cpus
    /\ bit' = bit + 1
    /\ UNCHANGED <<cpus, word, start, end, out, returned>>

\* Mutation: a range goes on over CPUs that are not set.
ExtendRangeAnyhow ==
    /\ start # None
    /\ end' = Base + bit
    /\ UNCHANGED <<start, out>>

ExtendRange ==
    /\ start # None /\ Base + bit = end + 1
    /\ end' = Base + bit
    /\ UNCHANGED <<start, out>>

NewRange ==
    /\ start = None \/ Base + bit # end + 1
    /\ out' = PushRange
    /\ start' = Base + bit /\ end' = Base + bit

BitSet ==
    /\ word < Words /\ bit < Bits
    /\ Base + bit \in cpus
    /\ ExtendRange \/ NewRange
    /\ bit' = bit + 1
    /\ UNCHANGED <<cpus, word, returned>>

\* Mutation: no range is carried into the next word.
EndOfWordPushes ==
    /\ word < Words /\ bit = Bits
    /\ word' = word + 1 /\ bit' = 0
    /\ out' = PushRange
    /\ start' = None /\ end' = None
    /\ UNCHANGED <<cpus, returned>>

EndOfWord ==
    /\ word < Words /\ bit = Bits
    /\ word' = word + 1 /\ bit' = 0
    /\ UNCHANGED <<cpus, start, end, out, returned>>

Return ==
    /\ word = Words /\ ~returned
    /\ out' = PushRange
    /\ returned' = TRUE
    /\ UNCHANGED <<cpus, word, bit, start, end>>

\* The caller has the string.
Returned == returned /\ UNCHANGED vars

Next == ZeroWord \/ BitClear \/ BitSet \/ EndOfWord \/ Return \/ Returned

Spec == Init /\ [][Next]_vars

------------------------------------------------------------------------------
(* Properties *)

\* What would be returned if no bit followed, and the CPUs ranges stand for.
Result == IF returned THEN out ELSE PushRange
Covered(ranges) ==
    {c \in Cpus : \E i \in DOMAIN ranges :
                    ranges[i][1] <= c /\ c <= ranges[i][2]}

\* No CPU is lost or added, at a word's end or in a word without bits:
\* what has been read is what has been written.
NothingLost == Covered(Result) = {c \in cpus : c < Base + bit}

\* Ranges ascend and never touch, so that a set has one name only, and with it
\* one directory under /dev/cpuset/ThreadOpt.
Apart(ranges) ==
    \A i, j \in DOMAIN ranges :
        /\ ranges[i][1] <= ranges[i][2]
        /\ i < j => ranges[i][2] + 1 < ranges[j][1]

RangesApart == Apart(Result)

\* The text a set is printed as, parsed as parse_cpu_ranges does, is the set.
Text ==
    [i \in DOMAIN out |->
        IF out[i][1] = out[i][2] THEN Cpu(out[i][1])
        ELSE Span(out[i][1], out[i][2])]

RoundTrip == returned => ParseCpuRanges(Text, Cpus) = cpus
=============================================================================
