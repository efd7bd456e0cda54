------------------------- MODULE CpuSetRange_proofs -------------------------
(***************************************************************************)
(* to_range_string loses and adds no CPU, writes ranges that are apart, and *)
(* what it writes parses to the set it was given, for any word width and   *)
(* any number of words.                                                    *)
(***************************************************************************)
EXTENDS CpuSetRange, TLAPS

Pos == Base + bit

\* What has been written lies below the range under way, or below the position
\* with a gap when there is none.
Below ==
    /\ (start = None) <=> (end = None)
    /\ start # None => start <= end /\ end < Pos
    /\ ~returned =>
           \A i \in DOMAIN out :
               out[i][2] + 1 < (IF start = None THEN Pos ELSE start)

AtEnd ==
    /\ word = Words => bit = 0
    /\ returned => word = Words

IInv == TypeOK /\ AtEnd /\ Below /\ NothingLost /\ RangesApart

------------------------------------------------------------------------------
LEMMA Multiples ==
    ASSUME NEW w \in Nat, NEW W \in Nat, NEW b \in Nat, w < W
    PROVE  w * b + b <= W * b
<1>1. W - w - 1 \in Nat
  OBVIOUS
<1>2. (W - w - 1) * b \in Nat
  BY <1>1
<1>3. W * b = w * b + b + (W - w - 1) * b
  BY <1>1
<1>. QED
  BY <1>2, <1>3

\* Where the loops are, in CPUs.
LEMMA Positions ==
    ASSUME TypeOK
    PROVE  /\ Base \in Nat /\ Pos \in Nat /\ Size \in Nat
           /\ (word + 1) * Bits = Base + Bits
           /\ word < Words => Base + Bits <= Size
           /\ word = Words => Base = Size
<1>1. word \in Nat /\ Words \in Nat /\ Bits \in Nat /\ bit \in Nat
  BY WordsAssumption DEF TypeOK
<1>2. Base \in Nat /\ Pos \in Nat
  BY <1>1 DEF Base, Pos
<1>3. Size = Words * Bits /\ Size \in Nat
  BY WordsAssumption, SizeAssumption
<1>4. (word + 1) * Bits = Base + Bits
  BY <1>1 DEF Base
<1>5. word < Words => Base + Bits <= Size
  BY <1>1, <1>3, Multiples DEF Base
<1>. QED
  BY <1>2, <1>3, <1>4, <1>5 DEF Base

\* What a range more, above all others, does to a sequence of ranges.
LEMMA OneMore ==
    ASSUME NEW ranges \in Seq(Cpus \X Cpus), NEW lo \in Cpus, NEW hi \in Cpus,
           lo <= hi, Apart(ranges),
           \A i \in DOMAIN ranges : ranges[i][2] + 1 < lo
    PROVE  LET more == Append(ranges, <<lo, hi>>)
           IN  /\ more \in Seq(Cpus \X Cpus)
               /\ Apart(more)
               /\ Covered(more) = Covered(ranges) \cup (lo .. hi)
<1>. DEFINE more == Append(ranges, <<lo, hi>>)
            n == Len(ranges)
<1>1. more \in Seq(Cpus \X Cpus)
  OBVIOUS
<1>2. /\ n \in Nat /\ DOMAIN ranges = 1 .. n /\ DOMAIN more = 1 .. n + 1
      /\ \A i \in 1 .. n : more[i] = ranges[i]
      /\ more[n + 1] = <<lo, hi>>
  OBVIOUS
<1>3. more[n + 1][1] = lo /\ more[n + 1][2] = hi
  BY <1>2
<1>4. \A i \in 1 .. n : ranges[i][1] \in Int /\ ranges[i][2] \in Int
  BY <1>2 DEF Cpus
<1>5. lo \in Int /\ hi \in Int
  BY DEF Cpus
<1>. HIDE DEF more, n
<1>6. Apart(more)
  <2>1. ASSUME NEW i \in 1 .. n + 1 PROVE more[i][1] <= more[i][2]
    <3>1. CASE i \in 1 .. n
      BY <1>2, <3>1 DEF Apart
    <3>2. CASE i = n + 1
      BY <1>3, <3>2
    <3>. QED
      BY <1>2, <3>1, <3>2
  <2>2. ASSUME NEW i \in 1 .. n + 1, NEW j \in 1 .. n + 1, i < j
        PROVE  more[i][2] + 1 < more[j][1]
    <3>1. i \in 1 .. n
      BY <1>2, <2>2
    <3>2. CASE j \in 1 .. n
      BY <1>2, <2>2, <3>1, <3>2 DEF Apart
    <3>3. CASE j = n + 1
      BY <1>2, <1>3, <3>1, <3>3
    <3>. QED
      BY <1>2, <3>2, <3>3
  <2>. QED
    BY <1>2, <2>1, <2>2 DEF Apart
<1>7. Covered(more) = Covered(ranges) \cup (lo .. hi)
  <2>1. lo .. hi \subseteq Cpus
    BY SizeAssumption DEF Cpus
  <2>2. \A c \in Cpus :
          c \in Covered(more) <=> c \in Covered(ranges) \/ c \in lo .. hi
    <3>. SUFFICES ASSUME NEW c \in Cpus
                  PROVE  c \in Covered(more)
                         <=> c \in Covered(ranges) \/ c \in lo .. hi
      OBVIOUS
    <3>1. c \in Covered(more)
          <=> \E i \in 1 .. n + 1 : more[i][1] <= c /\ c <= more[i][2]
      BY <1>2 DEF Covered
    <3>2. c \in Covered(ranges)
          <=> \E i \in 1 .. n : ranges[i][1] <= c /\ c <= ranges[i][2]
      BY <1>2 DEF Covered
    <3>3. c \in lo .. hi <=> more[n + 1][1] <= c /\ c <= more[n + 1][2]
      BY <1>3, <1>5 DEF Cpus
    <3>4. 1 .. n + 1 = (1 .. n) \cup {n + 1}
      BY <1>2
    <3>. QED
      BY <1>2, <3>1, <3>2, <3>3, <3>4
  <2>. QED
    BY <2>1, <2>2 DEF Covered
<1>. QED
  BY <1>1, <1>6, <1>7 DEF more

\* push_range writes what is under way, and leaves a gap below the position.
LEMMA Pushed ==
    ASSUME IInv, ~returned
    PROVE  /\ PushRange \in Seq(Cpus \X Cpus)
           /\ Result = PushRange
           /\ \A i \in DOMAIN PushRange :
                  PushRange[i][2] + 1 < (IF start = None THEN Pos ELSE end + 2)
<1>. USE DEF IInv
<1>1. Result = PushRange
  BY DEF Result
<1>2. CASE start = None
  BY <1>1, <1>2 DEF PushRange, Below, TypeOK
<1>3. CASE start # None
  <2>1. start \in Cpus /\ end \in Cpus /\ start <= end
    BY <1>3 DEF Below, TypeOK, None
  <2>2. out \in Seq(Cpus \X Cpus) /\ PushRange = Append(out, <<start, end>>)
    BY <1>3 DEF TypeOK, PushRange
  <2>3. DOMAIN out = 1 .. Len(out) /\ Len(out) \in Nat
    BY <2>2
  <2>4. PushRange \in Seq(Cpus \X Cpus) /\ DOMAIN PushRange = 1 .. Len(out) + 1
    BY <2>1, <2>2
  <2>5. \A i \in 1 .. Len(out) : PushRange[i] = out[i] /\ out[i][2] \in Int
    BY <2>1, <2>2 DEF Cpus
  <2>6. PushRange[Len(out) + 1][2] = end
    BY <2>1, <2>2
  <2>7. \A i \in 1 .. Len(out) : out[i][2] + 1 < start
    BY <1>3, <2>3 DEF Below
  <2>8. start \in Int /\ end \in Int
    BY <2>1 DEF Cpus
  <2>9. ASSUME NEW i \in DOMAIN PushRange PROVE PushRange[i][2] + 1 < end + 2
    <3>1. CASE i \in 1 .. Len(out)
      <4>1. PushRange[i][2] = out[i][2] /\ out[i][2] + 1 < start /\ out[i][2] \in Int
        BY <2>5, <2>7, <3>1
      <4>. QED
        BY <2>1, <2>8, <4>1
    <3>2. CASE i = Len(out) + 1
      BY <2>6, <2>8, <3>2
    <3>. QED
      BY <2>3, <2>4, <3>1, <3>2
  <2>. QED
    BY <1>1, <1>3, <2>4, <2>9
<1>. QED
  BY <1>2, <1>3

------------------------------------------------------------------------------
LEMMA IInvInit == Init => IInv
<1>. SUFFICES ASSUME Init PROVE IInv
  OBVIOUS
<1>1. TypeOK
  <2>1. out \in Seq(Cpus \X Cpus)
    BY DEF Init
  <2>2. word \in 0 .. Words /\ bit \in 0 .. Bits
    BY WordsAssumption DEF Init
  <2>. QED
    BY <2>1, <2>2 DEF Init, TypeOK
<1>2. Base = 0 /\ Pos = 0
  BY WordsAssumption DEF Init, Base, Pos
<1>3. Result = <<>>
  BY DEF Init, Result, PushRange
<1>4. AtEnd /\ Below /\ RangesApart
  BY <1>2, <1>3 DEF Init, AtEnd, Below, RangesApart, Apart
<1>5. NothingLost
  <2>1. Covered(Result) = {}
    BY <1>3 DEF Covered
  <2>2. \A c \in cpus : ~(c < Base + bit)
    BY <1>1, <1>2 DEF TypeOK, Cpus, Pos
  <2>. QED
    BY <2>1, <2>2 DEF NothingLost
<1>. QED
  BY <1>1, <1>4, <1>5 DEF IInv

\* A whole word without bits: the range under way is written.
LEMMA ZeroWordStep == IInv /\ ZeroWord => IInv'
<1>. SUFFICES ASSUME IInv, ZeroWord PROVE IInv'
  OBVIOUS
<1>. USE DEF IInv
<1>0. /\ ~returned /\ returned' = FALSE /\ word \in Nat /\ Words \in Nat
      /\ Bits \in Nat \ {0} /\ bit = 0
  BY WordsAssumption DEF ZeroWord, TypeOK, AtEnd
<1>1. out' = PushRange /\ Result' = PushRange /\ Result = PushRange
  BY <1>0, Pushed DEF ZeroWord, Result, PushRange
<1>2. Pos' = Base + Bits /\ Pos = Base /\ Base \in Nat
  BY <1>0, Positions DEF ZeroWord, Pos, Base
<1>3. TypeOK'
  BY <1>0, <1>1, Pushed DEF ZeroWord, TypeOK
<1>4. AtEnd'
  BY <1>0 DEF ZeroWord, AtEnd
<1>5. RangesApart'
  BY <1>1 DEF RangesApart
<1>6. {c \in cpus : c < Pos'} = {c \in cpus : c < Pos}
  <2>1. \A c \in cpus : c \in Int /\ c \notin Base .. Base + Bits - 1
    BY DEF ZeroWord, WordIsZero, TypeOK, Cpus
  <2>2. \A c \in cpus : c < Pos' <=> c < Pos
    BY <1>0, <1>2, <2>1
  <2>. QED
    BY <2>2
<1>7. NothingLost'
  BY <1>1, <1>6 DEF ZeroWord, NothingLost, Covered, Pos, Cpus
<1>8. Below'
  <2>1. \A i \in DOMAIN PushRange : PushRange[i][2] \in Int
    BY <1>0, Pushed DEF Cpus
  <2>2. start # None => end \in Int /\ end < Pos
    BY DEF Below, TypeOK, Cpus, None
  <2>3. \A i \in DOMAIN PushRange : PushRange[i][2] + 1 < Pos'
    BY <1>0, <1>2, <2>1, <2>2, Pushed
  <2>. QED
    BY <1>1, <2>3 DEF ZeroWord, Below, Pos
<1>. QED
  BY <1>3, <1>4, <1>5, <1>7, <1>8

\* A bit that is not set: only the position moves.
LEMMA BitClearStep == IInv /\ BitClear => IInv'
<1>. SUFFICES ASSUME IInv, BitClear PROVE IInv'
  OBVIOUS
<1>. USE DEF IInv
<1>0. /\ ~returned /\ word \in Nat /\ bit \in Nat /\ Bits \in Nat
  BY WordsAssumption DEF BitClear, TypeOK, AtEnd
<1>1. Result' = Result /\ Base' = Base
  BY DEF BitClear, Result, PushRange, Base
<1>2. Pos' = Pos + 1 /\ Pos \in Nat /\ Pos \notin cpus
  BY <1>0, <1>1, Positions DEF BitClear, Pos
<1>3. TypeOK' /\ AtEnd' /\ RangesApart'
  BY <1>0, <1>1 DEF BitClear, TypeOK, AtEnd, RangesApart
<1>4. {c \in cpus : c < Pos'} = {c \in cpus : c < Pos}
  <2>1. \A c \in cpus : c \in Int /\ c # Pos
    BY <1>2 DEF TypeOK, Cpus
  <2>2. \A c \in cpus : c < Pos' <=> c < Pos
    BY <1>2, <2>1
  <2>. QED
    BY <2>2
<1>5. NothingLost'
  BY <1>1, <1>4 DEF BitClear, NothingLost, Covered, Pos, Cpus
<1>6. Below'
  <2>1. \A i \in DOMAIN out : out[i][2] \in Int
    BY DEF TypeOK, Cpus
  <2>2. start # None => end \in Int /\ start \in Int
    BY DEF Below, TypeOK, Cpus, None
  <2>. QED
    BY <1>2, <2>1, <2>2 DEF BitClear, Below
<1>. QED
  BY <1>3, <1>5, <1>6

LEMMA EndOfWordStep == IInv /\ EndOfWord => IInv'
<1>. SUFFICES ASSUME IInv, EndOfWord PROVE IInv'
  OBVIOUS
<1>. USE DEF IInv
<1>0. word \in Nat /\ Words \in Nat /\ Bits \in Nat /\ bit = Bits
  BY WordsAssumption DEF EndOfWord, TypeOK
<1>1. Result' = Result
  BY DEF EndOfWord, Result, PushRange
<1>2. Pos' = Pos
  BY <1>0, Positions DEF EndOfWord, Pos, Base
<1>3. TypeOK' /\ AtEnd' /\ RangesApart'
  BY <1>0, <1>1 DEF EndOfWord, TypeOK, AtEnd, RangesApart
<1>4. NothingLost'
  BY <1>1, <1>2 DEF EndOfWord, NothingLost, Covered, Pos, Cpus
<1>5. Below'
  BY <1>2 DEF EndOfWord, Below
<1>. QED
  BY <1>3, <1>4, <1>5

\* A bit that is set, next to the range under way or away from it.
LEMMA BitSetStep == IInv /\ BitSet => IInv'
<1>. SUFFICES ASSUME IInv, BitSet PROVE IInv'
  OBVIOUS
<1>. USE DEF IInv
<1>0. ~returned /\ returned' = FALSE /\ word \in Nat /\ bit \in Nat /\ Bits \in Nat
  BY WordsAssumption DEF BitSet, TypeOK, AtEnd
<1>1. Pos' = Pos + 1 /\ Pos \in cpus /\ Pos \in Cpus /\ Pos \in Nat
  BY <1>0, Positions DEF BitSet, Pos, Base, TypeOK
<1>2. \A c \in Cpus : c \in Int
  BY DEF Cpus
<1>3. {c \in cpus : c < Pos'} = {c \in cpus : c < Pos} \cup {Pos}
  <2>1. \A c \in cpus : c \in Int
    BY <1>2 DEF TypeOK
  <2>2. \A c \in cpus : c < Pos' <=> c < Pos \/ c = Pos
    BY <1>1, <2>1
  <2>. QED
    BY <1>1, <2>2
<1>4. AtEnd' /\ cpus' = cpus /\ word' = word /\ bit' = bit + 1 /\ bit' \in 0 .. Bits
  BY <1>0 DEF BitSet, AtEnd, TypeOK
<1>5. Pos = Base + bit
  BY DEF Pos
<1>6. CASE ExtendRange
  <2>1. /\ start \in Cpus /\ end \in Cpus /\ start <= end /\ Pos = end + 1
        /\ start' = start /\ end' = Pos /\ out' = out
    BY <1>5, <1>6 DEF ExtendRange, Below, TypeOK, None
  <2>2. PushRange = Append(out, <<start, end>>) /\ Result = PushRange
    BY <1>0, <1>6 DEF PushRange, Result, ExtendRange
  <2>3. PushRange' = Append(out, <<start, Pos>>) /\ Result' = PushRange'
    BY <1>0, <1>6, <2>1 DEF PushRange, Result, ExtendRange
  <2>4. \A i \in DOMAIN out : out[i][2] + 1 < start
    BY <1>0, <1>6 DEF Below, ExtendRange
  <2>5. out \in Seq(Cpus \X Cpus) /\ Apart(out)
    <3>1. out \in Seq(Cpus \X Cpus) /\ Apart(PushRange)
      BY <2>2 DEF RangesApart, TypeOK
    <3>2. /\ DOMAIN out \subseteq DOMAIN PushRange
          /\ \A i \in DOMAIN out : PushRange[i] = out[i]
      BY <2>1, <2>2, <3>1
    <3>. QED
      BY <3>1, <3>2 DEF Apart
  <2>6. start <= Pos
    BY <1>1, <1>2, <2>1
  <2>7. Apart(Result') /\ Covered(Result') = Covered(out) \cup (start .. Pos)
    <3>1. start \in Cpus /\ Pos \in Cpus
      BY <1>1, <2>1
    <3>2. LET more == Append(out, <<start, Pos>>)
          IN  Apart(more) /\ Covered(more) = Covered(out) \cup (start .. Pos)
      BY <3>1, <2>4, <2>5, <2>6, OneMore
    <3>. QED
      BY <2>3, <3>2
  <2>8. Covered(Result) = Covered(out) \cup (start .. end)
    BY <2>1, <2>2, <2>4, <2>5, OneMore
  <2>9. start .. Pos = (start .. end) \cup {Pos}
    BY <1>1, <1>2, <2>1
  <2>10. Covered(Result') = Covered(Result) \cup {Pos}
    BY <2>7, <2>8, <2>9
  <2>11. NothingLost'
    BY <1>3, <1>4, <2>10 DEF NothingLost, Covered, Pos, Cpus
  <2>12. RangesApart'
    BY <2>7 DEF RangesApart, Apart
  <2>13. TypeOK'
    BY <1>0, <1>1, <1>4, <2>1 DEF TypeOK
  <2>14. Below'
    <3>1. start' # None /\ end' # None
      BY <1>1, <1>2, <2>1 DEF None, Cpus
    <3>2. start' <= end' /\ end' < Pos'
      BY <1>1, <2>1, <2>6
    <3>3. \A i \in DOMAIN out' : out'[i][2] + 1 < start'
      BY <2>1, <2>4
    <3>. QED
      BY <3>1, <3>2, <3>3 DEF Below
  <2>. QED
    BY <1>4, <2>11, <2>12, <2>13, <2>14
<1>7. CASE NewRange
  <2>1. out' = PushRange /\ start' = Pos /\ end' = Pos
    BY <1>5, <1>7 DEF NewRange
  <2>2. Pos # None
    BY <1>1 DEF None
  <2>3. Result' = Append(PushRange, <<Pos, Pos>>) /\ Result = PushRange
    BY <1>0, <2>1, <2>2, Pushed DEF Result, PushRange
  <2>4. PushRange \in Seq(Cpus \X Cpus) /\ Apart(PushRange)
    BY <1>0, <2>3, Pushed DEF RangesApart
  <2>5. \A i \in DOMAIN PushRange : PushRange[i][2] + 1 < Pos
    <3>1. \A i \in DOMAIN PushRange : PushRange[i][2] \in Int
      BY <2>4 DEF Cpus
    <3>2. start # None => end \in Int /\ end < Pos /\ Pos # end + 1
      BY <1>5, <1>7 DEF NewRange, Below, TypeOK, Cpus, None
    <3>. QED
      BY <1>0, <1>1, <3>1, <3>2, Pushed
  <2>6. Pos <= Pos
    BY <1>1
  <2>7. Apart(Result') /\ Covered(Result') = Covered(Result) \cup (Pos .. Pos)
    BY <1>1, <2>3, <2>4, <2>5, <2>6, OneMore
  <2>8. Pos .. Pos = {Pos}
    BY <1>1
  <2>9. NothingLost'
    BY <1>3, <1>4, <2>7, <2>8 DEF NothingLost, Covered, Pos, Cpus
  <2>10. RangesApart'
    BY <2>7 DEF RangesApart, Apart
  <2>11. TypeOK'
    BY <1>0, <1>1, <1>4, <2>1, <2>4 DEF TypeOK
  <2>12. Below'
    BY <1>1, <2>1, <2>2, <2>5 DEF Below, None
  <2>. QED
    BY <1>4, <2>9, <2>10, <2>11, <2>12
<1>. QED
  BY <1>6, <1>7 DEF BitSet

LEMMA ReturnStep == IInv /\ Return => IInv'
<1>. SUFFICES ASSUME IInv, Return PROVE IInv'
  OBVIOUS
<1>. USE DEF IInv
<1>1. ~returned /\ returned' = TRUE /\ out' = PushRange
  BY DEF Return
<1>2. Result' = Result
  BY <1>1, Pushed DEF Result
<1>3. Pos' = Pos
  BY DEF Return, Pos, Base
<1>4. TypeOK' /\ AtEnd' /\ RangesApart'
  BY <1>1, <1>2, Pushed DEF Return, TypeOK, AtEnd, RangesApart
<1>5. NothingLost'
  BY <1>2, <1>3 DEF Return, NothingLost, Covered, Pos, Cpus
<1>6. Below'
  BY <1>1, <1>3 DEF Return, Below
<1>. QED
  BY <1>4, <1>5, <1>6

LEMMA IInvStep == IInv /\ [Next]_vars => IInv'
<1>. SUFFICES ASSUME IInv, [Next]_vars PROVE IInv'
  OBVIOUS
<1>1. CASE ZeroWord
  BY <1>1, ZeroWordStep
<1>2. CASE BitClear
  BY <1>2, BitClearStep
<1>3. CASE BitSet
  BY <1>3, BitSetStep
<1>4. CASE EndOfWord
  BY <1>4, EndOfWordStep
<1>5. CASE Return
  BY <1>5, ReturnStep
<1>6. CASE UNCHANGED vars
  BY <1>6 DEF vars, IInv, TypeOK, AtEnd, Below, NothingLost, RangesApart, Apart,
     Covered, Result, PushRange, Pos, Base, Cpus
<1>. QED
  BY <1>1, <1>2, <1>3, <1>4, <1>5, <1>6 DEF Next, Returned

LEMMA Invariance == Spec => []IInv
BY IInvInit, IInvStep, PTL DEF Spec

------------------------------------------------------------------------------
\* Every reachable state is well typed.
THEOREM TypeCorrect == Spec => []TypeOK
<1>1. IInv => TypeOK
  BY DEF IInv
<1>. QED
  BY Invariance, <1>1, PTL

\* Whatever the set and the width of a word: what has been read is written.
THEOREM NothingIsLost == Spec => []NothingLost
<1>1. IInv => NothingLost
  BY DEF IInv
<1>. QED
  BY Invariance, <1>1, PTL

\* The ranges ascend and do not touch.
THEOREM RangesStayApart == Spec => []RangesApart
<1>1. IInv => RangesApart
  BY DEF IInv
<1>. QED
  BY Invariance, <1>1, PTL

\* The text parses to the set it was made from.
LEMMA Parsed == IInv => RoundTrip
<1>. SUFFICES ASSUME IInv, returned PROVE ParseCpuRanges(Text, Cpus) = cpus
  BY DEF RoundTrip
<1>. USE DEF IInv
<1>1. Result = out
  BY DEF Result
<1>2. Base + bit = Size
  BY Positions DEF AtEnd, TypeOK
<1>3. cpus = Covered(out)
  <2>1. \A c \in cpus : c < Base + bit
    BY <1>2, SizeAssumption DEF TypeOK, Cpus
  <2>. QED
    BY <1>1, <2>1 DEF NothingLost
<1>4. \A i \in DOMAIN out :
        /\ out[i][1] \in Cpus /\ out[i][2] \in Cpus /\ out[i][1] <= out[i][2]
  BY <1>1 DEF TypeOK, RangesApart, Apart
<1>5. DOMAIN Text = DOMAIN out
  BY DEF Text
<1>6. ASSUME NEW i \in DOMAIN out
      PROVE  NumberCpus(Text[i]) = out[i][1] .. out[i][2]
  <2>1. /\ out[i][1] \in Nat /\ out[i][2] \in Nat /\ out[i][1] <= out[i][2]
        /\ out[i][2] <= Size - 1 /\ Size \in Nat
    BY <1>4, SizeAssumption DEF Cpus
  <2>2. PICK lo \in Nat, hi \in Nat : lo = out[i][1] /\ hi = out[i][2]
    BY <2>1
  <2>3. FromTo(lo, hi) = lo .. hi /\ FromTo(lo, lo) = lo .. lo
    BY <2>1, <2>2 DEF FromTo, Lower, Upper
  <2>4. Text[i] = IF lo = hi THEN Cpu(lo) ELSE Span(lo, hi)
    BY <2>2 DEF Text
  <2>5. lo # Bad /\ hi # Bad
    BY DEF Bad
  <2>6. CASE lo = hi
    <3>1. Text[i][1] = "cpu" /\ Text[i][2] = lo
      BY <2>4, <2>6 DEF Cpu
    <3>. QED
      BY <2>2, <2>3, <2>5, <2>6, <3>1 DEF NumberCpus
  <2>7. CASE lo # hi
    <3>1. Text[i][1] = "span" /\ Text[i][2] = lo /\ Text[i][3] = hi
      BY <2>4, <2>7 DEF Span
    <3>. QED
      BY <2>2, <2>3, <2>5, <2>7, <3>1 DEF NumberCpus
  <2>. QED
    BY <2>6, <2>7
<1>7. \A c \in Cpus : c \in Covered(out)
                     <=> \E i \in DOMAIN out : c \in out[i][1] .. out[i][2]
  BY <1>4 DEF Covered, Cpus
<1>8. UNION {NumberCpus(Text[i]) : i \in DOMAIN Text}
      = UNION {out[i][1] .. out[i][2] : i \in DOMAIN out}
  BY <1>5, <1>6
<1>9. ParseCpuRanges(Text, Cpus)
      = (UNION {out[i][1] .. out[i][2] : i \in DOMAIN out}) \cap Cpus
  BY <1>8 DEF ParseCpuRanges
<1>. QED
  BY <1>3, <1>7, <1>9 DEF TypeOK

THEOREM TextIsTheSet == Spec => []RoundTrip
BY Invariance, Parsed, PTL
=============================================================================
