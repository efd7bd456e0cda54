------------------------------ MODULE Fnmatch ------------------------------
(***************************************************************************)
(* match_pattern and match_class of rule_match.rs on the bytes of a        *)
(* pattern and a name, and what the documentation says a pattern means, as *)
(* a reference.                                                            *)
(***************************************************************************)
EXTENDS Integers, FiniteSets, SequencesExt

\* The bytes that mean something.
Star == 42
Question == 63
Open == 91
Close == 93
Bang == 33
Caret == 94
Dash == 45

\* match_class: a range is read as one, a first "]" is a byte like others.
IsRange(p, i) == i + 2 <= Len(p) /\ p[i + 1] = Dash /\ p[i + 2] # Close

Hit(p, i, c) ==
    IF IsRange(p, i) THEN p[i] <= c /\ c <= p[i + 2] ELSE p[i] = c

\* Where the pattern goes on behind the class when reading it has come to i
\* and "c" was hit or not; 0 when it is not in the class or that has no end.
ClassReader(p, first, negate, c) ==
    LET rest[i \in first .. Len(p) + 1] == [matched \in BOOLEAN |->
            IF i > Len(p) THEN 0
            ELSE IF p[i] = Close /\ i # first
            THEN IF matched # negate THEN i + 1 ELSE 0
            ELSE rest[IF IsRange(p, i) THEN i + 3 ELSE i + 1]
                     [matched \/ Hit(p, i, c)]]
    IN  rest

\* The same for the class that begins at "at".
ClassRest(p, at, c) ==
    LET negate == at < Len(p) /\ p[at + 1] \in {Bang, Caret}
        first == IF negate THEN at + 2 ELSE at + 1
    IN  IF first > Len(p) THEN 0
        ELSE ClassReader(p, first, negate, c)[first][FALSE]

\* The end of the stars that begin at i.
StarsEnd(p, i) ==
    CHOOSE k \in i .. Len(p) + 1 : /\ \A l \in i .. k - 1 : p[l] = Star
                                   /\ k > Len(p) \/ p[k] # Star

\* Where the pattern goes on from i when the name's next byte is c; 0 when the
\* byte does not match there.
AfterByte(p, i, c) ==
    IF p[i] = Open THEN ClassRest(p, i, c)
    ELSE IF p[i] \in {Question, c} THEN i + 1 ELSE 0

\* match_pattern on the rest of the pattern from i, of the name from j.
Matcher(p, s) ==
    LET match[i \in 1 .. Len(p) + 1] == [j \in 1 .. Len(s) + 1 |->
            \/ i > Len(p) /\ j > Len(s)
            \/ /\ i <= Len(p) /\ p[i] = Star
               /\ \E k \in j .. Len(s) + 1 : match[StarsEnd(p, i)][k]
            \/ /\ i <= Len(p) /\ p[i] # Star /\ j <= Len(s)
               /\ AfterByte(p, i, s[j]) # 0
               /\ match[AfterByte(p, i, s[j])][j + 1]]
    IN  match

MatchPattern(p, s) == Matcher(p, s)[1][1]

------------------------------------------------------------------------------
(* The documentation's meaning: a pattern is a sequence of elements, each *)
(* standing for some pieces of a name.  A class has members, each a byte, *)
(* <<c>>, or a range, <<from, to>>; an unclosed one has whatever bytes    *)
(* come behind its "[".                                                   *)

Codes == 0 .. 255
Members == {m \in Seq(Codes) : Len(m) \in 1 .. 2}
ClassKinds == {"[", "[!", "[^"}

Byte(c) == <<"byte", c>>
AnyBytes == <<"*">>
AnyByte == <<"?">>
OneOf(members) == <<"[", members>>
NoneOf(members) == <<"[!", members>>
NoneOfThem(members) == <<"[^", members>>
Unclosed(bytes) == <<"unclosed", bytes>>

Covers(member, c) == c \in member[1] .. member[Len(member)]
HasByte(members, c) == \E i \in DOMAIN members : Covers(members[i], c)

StandsFor(element, piece) ==
    CASE element[1] = "*" -> TRUE
      [] element[1] = "?" -> Len(piece) = 1
      [] element[1] = "byte" -> piece = <<element[2]>>
      [] element[1] \in ClassKinds ->
            /\ Len(piece) = 1
            /\ HasByte(element[2], piece[1]) <=> element[1] = "["
      [] element[1] = "unclosed" -> FALSE

\* The name can be cut into pieces the elements stand for, one after another.
Means(pattern, name) ==
    \E cut \in [0 .. Len(pattern) -> 0 .. Len(name)] :
        /\ cut[0] = 0 /\ cut[Len(pattern)] = Len(name)
        /\ \A i \in DOMAIN pattern :
               /\ cut[i - 1] <= cut[i]
               /\ StandsFor(pattern[i],
                            SubSeq(name, cut[i - 1] + 1, cut[i]))

\* How an element is written: a class has its members between brackets.
Spelt(member) ==
    IF Len(member) = 1 THEN member ELSE <<member[1], Dash, member[2]>>

Text(members) == FlattenSeq([i \in DOMAIN members |-> Spelt(members[i])])

Bracket(kind) ==
    CASE kind = "[" -> <<Open>>
      [] kind = "[!" -> <<Open, Bang>>
      [] kind = "[^" -> <<Open, Caret>>

Written(element) ==
    CASE element[1] = "*" -> <<Star>>
      [] element[1] = "?" -> <<Question>>
      [] element[1] = "byte" -> <<element[2]>>
      [] element[1] \in ClassKinds ->
            Bracket(element[1]) \o (Text(element[2]) \o <<Close>>)
      [] element[1] = "unclosed" -> <<Open>> \o element[2]

\* The members that are read as they were written: "]" would end the class
\* unless it is its first byte, and "-" behind a byte that stands alone would
\* make a range with it unless it is the class's last byte.
Distinct(members) ==
    \A i \in DOMAIN members :
        /\ i > 1 => members[i][1] # Close
        /\ Len(members[i]) = 2 => members[i][2] # Close
        /\ i > 1 /\ Len(members[i - 1]) = 1 /\ members[i][1] = Dash
               => i = Len(members) /\ Len(members[i]) = 1

\* And a class that begins with "!" or "^" is a complement.
IsClass(kind, members) ==
    /\ members # <<>>
    /\ kind = "[" => members[1][1] \notin {Bang, Caret}
    /\ Distinct(members)

\* No "]" closes the class.
StaysOpen(bytes) ==
    LET first == IF bytes # <<>> /\ bytes[1] \in {Bang, Caret} THEN 2 ELSE 1
    IN  \A i \in DOMAIN bytes : bytes[i] = Close => i = first

Elements ==
    {AnyBytes, AnyByte}
    \cup ({"byte"} \X (Codes \ {Star, Question, Open}))
    \cup {e \in ClassKinds \X Seq(Members) : IsClass(e[1], e[2])}
    \cup {e \in {"unclosed"} \X Seq(Codes) : StaysOpen(e[2])}

\* Nothing comes behind a class that is not closed.
Patterns ==
    {elements \in Seq(Elements) :
        \A i \in DOMAIN elements :
            elements[i][1] = "unclosed" => i = Len(elements)}

\* How a pattern is written: its elements one after another.
Pattern(elements) ==
    FlattenSeq([i \in DOMAIN elements |-> Written(elements[i])])
=============================================================================
