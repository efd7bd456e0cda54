---------------------------- MODULE RuleFile_proofs ----------------------------
(***************************************************************************)
(* A rule file is read as it is meant and its rules are used as they are   *)
(* documented, for any files in the documented forms.                      *)
(*                                                                         *)
(* First what the parser does with a line of each form; then TInv, what is *)
(* so of the parser after every line, and what follows for directories and *)
(* names; last RInv, which says what the rules so far are.                 *)
(***************************************************************************)
EXTENDS RuleFile, NameFilter_proofs, Fnmatch_proofs

(* Finding a token, and what is before and behind it *)

LEMMA MinIs ==
    ASSUME NEW S \in SUBSET Int, NEW m \in S, \A k \in S : m <= k
    PROVE  Min(S) = m
<1> DEFINE Is(x) == \A y \in S : x <= y
<1>1. Is(m)
    OBVIOUS
<1>2. \A x \in S : Is(x) => x = m
    OBVIOUS
<1>3. Min(S) = CHOOSE x \in S : Is(x)
    BY DEF Min
<1> HIDE DEF Is
<1> QED BY <1>1, <1>2, <1>3

LEMMA FindAt ==
    ASSUME NEW T, NEW text \in Seq(T), NEW tokens, NEW i \in 1 .. Len(text),
           text[i] \in tokens, \A j \in 1 .. i - 1 : text[j] \notin tokens
    PROVE  Find(text, tokens) = i
<1> DEFINE S == {j \in 1 .. Len(text) : text[j] \in tokens}
<1>1. S \in SUBSET Int /\ i \in S /\ \A k \in S : i <= k
    OBVIOUS
<1>2. Min(S) = i
    <2> HIDE DEF S
    <2> QED BY <1>1, MinIs
<1>3. Find(text, tokens) = IF S # {} THEN Min(S) ELSE 0
    BY DEF Find, SelectInSeq
<1> QED BY <1>1, <1>2, <1>3

LEMMA FindNone ==
    ASSUME NEW T, NEW text \in Seq(T), NEW tokens,
           \A j \in 1 .. Len(text) : text[j] \notin tokens
    PROVE  Find(text, tokens) = 0
<1> DEFINE S == {j \in 1 .. Len(text) : text[j] \in tokens}
<1>1. S = {}
    OBVIOUS
<1>2. Find(text, tokens) = IF S # {} THEN Min(S) ELSE 0
    BY DEF Find, SelectInSeq
<1> QED BY <1>1, <1>2

LEMMA BeforeIs ==
    ASSUME NEW T, NEW text \in Seq(T), NEW i \in 1 .. Len(text)
    PROVE  /\ Before(text, i) \in Seq(T) /\ Len(Before(text, i)) = i - 1
           /\ \A j \in 1 .. i - 1 : Before(text, i)[j] = text[j]
BY DEF Before

LEMMA BeforeFirst ==
    ASSUME NEW T, NEW text \in Seq(T), Len(text) >= 1
    PROVE  Before(text, 1) = <<>>
BY DEF Before

LEMMA BeforeSecond ==
    ASSUME NEW T, NEW text \in Seq(T), Len(text) >= 2
    PROVE  /\ Before(text, 2) \in Seq(T) /\ Len(Before(text, 2)) = 1
           /\ Before(text, 2)[1] = text[1]
BY DEF Before

LEMMA BehindIs ==
    ASSUME NEW T, NEW text \in Seq(T), NEW i \in 1 .. Len(text)
    PROVE  /\ Behind(text, i) \in Seq(T)
           /\ Len(Behind(text, i)) = Len(text) - i
           /\ \A j \in 1 .. Len(text) - i : Behind(text, i)[j] = text[i + j]
BY DEF Behind

LEMMA BehindFirst ==
    ASSUME NEW T, NEW text \in Seq(T), Len(text) >= 1
    PROVE  /\ Behind(text, 1) \in Seq(T)
           /\ Len(Behind(text, 1)) = Len(text) - 1
           /\ Len(text) >= 2 => Behind(text, 1)[1] = text[2]
           /\ Len(text) >= 3 => Behind(text, 1)[2] = text[3]
<1>1. 1 \in 1 .. Len(text)
    OBVIOUS
<1>2. /\ Behind(text, 1) \in Seq(T)
      /\ Len(Behind(text, 1)) = Len(text) - 1
      /\ \A j \in 1 .. Len(text) - 1 : Behind(text, 1)[j] = text[1 + j]
    BY <1>1, BehindIs
<1>3. Len(text) >= 2 => 1 \in 1 .. Len(text) - 1
    OBVIOUS
<1>4. Len(text) >= 3 => 2 \in 1 .. Len(text) - 1
    OBVIOUS
<1> QED BY <1>2, <1>3, <1>4

LEMMA BehindSecond ==
    ASSUME NEW T, NEW text \in Seq(T), Len(text) >= 3
    PROVE  /\ Behind(text, 2) \in Seq(T)
           /\ Len(Behind(text, 2)) = Len(text) - 2
           /\ Behind(text, 2)[1] = text[3]
<1>1. 2 \in 1 .. Len(text) /\ 1 \in 1 .. Len(text) - 2
    OBVIOUS
<1>2. /\ Behind(text, 2) \in Seq(T)
      /\ Len(Behind(text, 2)) = Len(text) - 2
      /\ \A j \in 1 .. Len(text) - 2 : Behind(text, 2)[j] = text[2 + j]
    BY <1>1, BehindIs
<1> QED BY <1>1, <1>2

(* The first places of short texts. *)
LEMMA FindFirst ==
    ASSUME NEW T, NEW text \in Seq(T), NEW tokens, Len(text) >= 1,
           text[1] \in tokens
    PROVE  Find(text, tokens) = 1
<1>1. 1 \in 1 .. Len(text) /\ \A j \in 1 .. 1 - 1 : text[j] \notin tokens
    OBVIOUS
<1> QED BY <1>1, FindAt

LEMMA FindSecond ==
    ASSUME NEW T, NEW text \in Seq(T), NEW tokens, Len(text) >= 2,
           text[1] \notin tokens, text[2] \in tokens
    PROVE  Find(text, tokens) = 2
<1>1. 2 \in 1 .. Len(text) /\ \A j \in 1 .. 2 - 1 : text[j] \notin tokens
    OBVIOUS
<1> QED BY <1>1, FindAt

LEMMA FindNothing ==
    ASSUME NEW T, NEW text \in Seq(T), NEW tokens, Len(text) = 0
    PROVE  Find(text, tokens) = 0
<1>1. \A j \in 1 .. Len(text) : text[j] \notin tokens
    OBVIOUS
<1> QED BY <1>1, FindNone

LEMMA FindNotOne ==
    ASSUME NEW T, NEW text \in Seq(T), NEW tokens, Len(text) = 1,
           text[1] \notin tokens
    PROVE  Find(text, tokens) = 0
<1>1. \A j \in 1 .. Len(text) : text[j] \notin tokens
    OBVIOUS
<1> QED BY <1>1, FindNone

------------------------------------------------------------------------------
(* Tokens *)

LEMMA TokensDiffer ==
    /\ Eq # OpenBr /\ Eq # CloseBr /\ Eq # Note
    /\ OpenBr # CloseBr /\ OpenBr # Note /\ CloseBr # Note
    /\ \A b : /\ Named(b) \notin {Eq, OpenBr, CloseBr, Note}
              /\ OnCpus(b) \notin {Eq, OpenBr, CloseBr, Note}
              /\ Named(b)[2] = b /\ OnCpus(b)[2] = b /\ OnCpus(b)[1] = "cpus"
BY DEF Eq, OpenBr, CloseBr, Note, Named, OnCpus

LEMMA NameOfOne ==
    ASSUME NEW T, NEW text \in Seq(T), NEW b, Len(text) >= 1, text[1] = Named(b)
    PROVE  NameOf(text) = b
BY TokensDiffer DEF NameOf

LEMMA CpusOfOne ==
    ASSUME NEW T, NEW text \in Seq(T), NEW parts, Len(text) = 1,
           text[1] = OnCpus(parts)
    PROVE  CpusOf(text) = ParseCpuSpec(parts, Topology)
BY TokensDiffer DEF CpusOf

------------------------------------------------------------------------------
(* Which action a line is read by *)

LineStep ==
    \/ BlankLine \/ BlockLine \/ PlainLine \/ ThreadLine
    \/ OpenLine \/ RuleAndBlockLine \/ PendingLine \/ RuleLine

LEMMA BlankChosen ==
    ASSUME LineStep, IsBlank PROVE BlankLine
BY DEF LineStep, BlockLine, PlainLine, Outside, ThreadLine, OpenLine,
       RuleAndBlockLine, PendingLine, RuleLine

LEMMA BlockChosen ==
    ASSUME LineStep, ~IsBlank, inBlock PROVE BlockLine
BY DEF LineStep, BlankLine, PlainLine, Outside, ThreadLine, OpenLine,
       RuleAndBlockLine, PendingLine, RuleLine

LEMMA PlainChosen ==
    ASSUME LineStep, ~IsBlank, ~inBlock, Separator = 0 PROVE PlainLine
BY DEF LineStep, BlankLine, BlockLine, Outside, ThreadLine, OpenLine,
       RuleAndBlockLine, PendingLine, RuleLine

LEMMA OpenChosen ==
    ASSUME LineStep, ~IsBlank, ~inBlock, Separator # 0,
           Line[Separator] = OpenBr
    PROVE  IF Find(Rest, {CloseBr}) # 0 THEN ThreadLine ELSE OpenLine
BY TokensDiffer DEF LineStep, BlankLine, BlockLine, PlainLine, Outside,
       ThreadLine, OpenLine, RuleAndBlockLine, PendingLine, RuleLine

LEMMA EqChosen ==
    ASSUME LineStep, ~IsBlank, ~inBlock, Separator # 0, Line[Separator] = Eq
    PROVE  \/ Find(Rest, {OpenBr}) # 0 /\ RuleAndBlockLine
           \/ Rest = <<>> /\ PendingLine
           \/ Rest # <<>> /\ Find(Rest, {OpenBr}) = 0 /\ RuleLine
BY TokensDiffer DEF LineStep, BlankLine, BlockLine, PlainLine, Outside,
       ThreadLine, OpenLine, RuleAndBlockLine, PendingLine, RuleLine

(* A line that begins with a name and a separator. *)
LEMMA HeadReads ==
    ASSUME NEW T, Line \in Seq(T), NEW b, Len(Line) >= 2, Line[1] = Named(b),
           Line[2] \in {Eq, OpenBr}
    PROVE  /\ ~IsBlank /\ Separator = 2 /\ Subject = b
           /\ Rest \in Seq(T) /\ Len(Rest) = Len(Line) - 2
           /\ \A j \in 1 .. Len(Line) - 2 : Rest[j] = Line[2 + j]
<1>1. ~IsBlank
    BY TokensDiffer DEF IsBlank
<1>2. Separator = 2
    <2>1. Line[1] \notin {Eq, OpenBr}
        BY TokensDiffer
    <2> QED BY <2>1, FindSecond DEF Separator
<1>3. /\ Before(Line, 2) \in Seq(T) /\ Len(Before(Line, 2)) = 1
      /\ Before(Line, 2)[1] = Line[1]
    BY BeforeSecond
<1>4. Subject = b
    BY <1>2, <1>3, NameOfOne DEF Subject
<1>5. Rest = Behind(Line, 2)
    BY <1>2 DEF Rest
<1> QED BY <1>1, <1>2, <1>4, <1>5, BehindIs

------------------------------------------------------------------------------
(* What is done with a line of each form, where it may stand *)

Stands(l) ==
    /\ l \in Lines /\ at <= Len(lines) /\ Line = Tokens(l)
    /\ Fits([block |-> curPkg, pending |-> pendingPkg], l)
    /\ inBlock = (curPkg # <<>>)
    /\ curPkg # <<>> => pendingPkg = <<>>

Goes(block, pending) ==
    /\ curPkg' = block /\ inBlock' = (block # <<>>) /\ pendingPkg' = pending
    /\ NextLine

Stated(l, text) ==
    \E cpus : /\ CpusOf(cpus) = ParseCpuSpec(text, Topology)
              /\ AddRule(l.pkg, Pattern(l.pattern), cpus, Abandoned)

(* The tokens of a line outside a block that is not a brace alone. *)
LEMMA OutsideStands ==
    ASSUME NEW l, Stands(l), l.form \notin Silent \cup Inside \cup {"brace"}
    PROVE  /\ inBlock = FALSE /\ curPkg = <<>> /\ l.pkg # <<>>
           /\ l.form \in {"rule", "rule-open"} => l.pattern = <<>>
BY DEF Stands, Fits

Token(l) ==
    {Named(l.pkg), Named(Pattern(l.pattern)), OnCpus(l.text),
     Eq, OpenBr, CloseBr, Note}

LEMMA TokenTypes ==
    ASSUME NEW l
    PROVE  /\ Named(l.pkg) \in Token(l) /\ Named(Pattern(l.pattern)) \in Token(l)
           /\ OnCpus(l.text) \in Token(l)
           /\ Eq \in Token(l) /\ OpenBr \in Token(l)
           /\ CloseBr \in Token(l) /\ Note \in Token(l)
BY DEF Token

LEMMA ReadsPlain ==
    ASSUME NEW l, Stands(l), LineStep, l.form = "plain"
    PROVE  NoRule(Abandoned) /\ Goes(<<>>, <<>>)
<1> DEFINE p == Named(l.pkg)
<1>0. /\ p \in Token(l) /\ Eq \in Token(l)
      /\ OpenBr \in Token(l)
    BY TokenTypes
<1>1. inBlock = FALSE /\ curPkg = <<>>
    BY OutsideStands DEF Silent, Inside, Lost
<1>2. Line = <<p>>
    BY DEF Stands, Tokens
<1>3. Line \in Seq(Token(l)) /\ Len(Line) = 1 /\ Line[1] = p /\ Line # <<>>
    BY <1>2, <1>0
<1>4. ~IsBlank
    BY <1>3, TokensDiffer DEF IsBlank
<1>5. Separator = 0
    BY <1>3, TokensDiffer, FindNotOne DEF Separator
<1>6. PlainLine
    BY <1>1, <1>4, <1>5, PlainChosen
<1> QED BY <1>1, <1>6 DEF PlainLine, Goes

LEMMA ReadsHeader ==
    ASSUME NEW l, Stands(l), LineStep, l.form = "header"
    PROVE  NoRule(Abandoned) /\ Goes(<<>>, l.pkg)
<1> DEFINE p == Named(l.pkg)
<1>0. /\ p \in Token(l) /\ Eq \in Token(l)
      /\ OpenBr \in Token(l)
    BY TokenTypes
<1>1. inBlock = FALSE /\ curPkg = <<>>
    BY OutsideStands DEF Silent, Inside, Lost
<1>2. Line = <<p, Eq>>
    BY DEF Stands, Tokens
<1>3. Line \in Seq(Token(l)) /\ Len(Line) = 2 /\ Line[1] = p /\ Line[2] = Eq
    BY <1>2, <1>0
<1>4. ~IsBlank /\ Separator = 2 /\ Subject = l.pkg
    BY <1>3, HeadReads
<1>5. /\ Rest \in Seq(Token(l)) /\ Len(Rest) = 0
    BY <1>3, HeadReads
<1>6. Find(Rest, {OpenBr}) = 0
    BY <1>5, FindNothing
<1>7. PendingLine
    BY <1>1, <1>3, <1>4, <1>5, <1>6, EqChosen
<1> QED BY <1>1, <1>4, <1>5, <1>7 DEF PendingLine, Goes

LEMMA ReadsOpen ==
    ASSUME NEW l, Stands(l), LineStep, l.form = "open"
    PROVE  NoRule(Abandoned) /\ Goes(l.pkg, <<>>)
<1> DEFINE p == Named(l.pkg)
<1>0. /\ p \in Token(l) /\ Eq \in Token(l)
      /\ OpenBr \in Token(l)
    BY TokenTypes
<1>1. inBlock = FALSE /\ curPkg = <<>> /\ l.pkg # <<>>
    BY OutsideStands DEF Silent, Inside, Lost
<1>2. Line = <<p, OpenBr>>
    BY DEF Stands, Tokens
<1>3. Line \in Seq(Token(l)) /\ Len(Line) = 2 /\ Line[1] = p /\ Line[2] = OpenBr
    BY <1>2, <1>0
<1>4. ~IsBlank /\ Separator = 2 /\ Subject = l.pkg
    BY <1>3, HeadReads
<1>5. /\ Rest \in Seq(Token(l)) /\ Len(Rest) = 0
    BY <1>3, HeadReads
<1>6. Find(Rest, {CloseBr}) = 0
    BY <1>5, FindNothing
<1>7. OpenLine
    BY <1>1, <1>3, <1>4, <1>5, <1>6, OpenChosen
<1> QED BY <1>1, <1>4, <1>5, <1>7 DEF OpenLine, Goes

LEMMA ReadsEqOpen ==
    ASSUME NEW l, Stands(l), LineStep, l.form = "eq-open"
    PROVE  NoRule(Abandoned) /\ Goes(l.pkg, <<>>)
<1> DEFINE p == Named(l.pkg)
<1>0. /\ p \in Token(l) /\ Eq \in Token(l)
      /\ OpenBr \in Token(l)
    BY TokenTypes
<1>1. inBlock = FALSE /\ curPkg = <<>> /\ l.pkg # <<>>
    BY OutsideStands DEF Silent, Inside, Lost
<1>2. Line = <<p, Eq, OpenBr>>
    BY DEF Stands, Tokens
<1>3. /\ Line \in Seq(Token(l)) /\ Len(Line) = 3
      /\ Line[1] = p /\ Line[2] = Eq /\ Line[3] = OpenBr
    BY <1>2, <1>0
<1>4. ~IsBlank /\ Separator = 2 /\ Subject = l.pkg
    BY <1>3, HeadReads
<1>5. /\ Rest \in Seq(Token(l)) /\ Len(Rest) = 1 /\ Rest[1] = OpenBr /\ Rest # <<>>
    BY <1>3, HeadReads
<1>6. Find(Rest, {OpenBr}) = 1
    BY <1>5, FindFirst
<1>7. Before(Rest, 1) = <<>>
    BY <1>5, BeforeFirst
<1>8. RuleAndBlockLine
    BY <1>1, <1>3, <1>4, <1>5, <1>6, EqChosen
<1> QED BY <1>1, <1>4, <1>5, <1>6, <1>7, <1>8 DEF RuleAndBlockLine, Goes

(* "brace" alone opens the block of the package before it, if there is one. *)
LEMMA ReadsBrace ==
    ASSUME NEW l, Stands(l), LineStep, l.form = "brace"
    PROVE  /\ l.pkg = pendingPkg
           /\ NoRule(IF pendingPkg = <<>> THEN 1 ELSE 0)
           /\ Goes(l.pkg, <<>>)
<1>0. /\ Eq \in Token(l) /\ OpenBr \in Token(l)
    BY TokenTypes
<1>1. inBlock = FALSE /\ curPkg = <<>> /\ l.pkg = pendingPkg
    BY DEF Stands, Fits, Silent, Inside, Lost
<1>2. Line = <<OpenBr>>
    BY DEF Stands, Tokens
<1>3. Line \in Seq(Token(l)) /\ Len(Line) = 1 /\ Line[1] = OpenBr /\ Line # <<>>
    BY <1>2, <1>0
<1>4. ~IsBlank
    BY <1>3, TokensDiffer DEF IsBlank
<1>5. Separator = 1
    BY <1>3, FindFirst DEF Separator
<1>6. Subject = <<>>
    BY <1>3, <1>5, BeforeFirst DEF Subject, NameOf
<1>7. Rest \in Seq(Token(l)) /\ Len(Rest) = 0
    BY <1>3, <1>5, BehindFirst DEF Rest
<1>8. Find(Rest, {CloseBr}) = 0
    BY <1>7, FindNothing
<1>9. OpenLine
    BY <1>1, <1>3, <1>4, <1>5, <1>8, OpenChosen
<1> QED BY <1>1, <1>6, <1>9 DEF OpenLine, Goes

LEMMA ReadsRule ==
    ASSUME NEW l, Stands(l), LineStep, l.form = "rule",
           Pattern(<<>>) = <<>>
    PROVE  Stated(l, l.text) /\ Goes(<<>>, <<>>)
<1> DEFINE p == Named(l.pkg)
           c == OnCpus(l.text)
<1>0. /\ p \in Token(l) /\ Eq \in Token(l)
      /\ OpenBr \in Token(l) /\ c \in Token(l)
    BY TokenTypes
<1>1. inBlock = FALSE /\ curPkg = <<>> /\ l.pattern = <<>>
    BY OutsideStands DEF Silent, Inside, Lost
<1>2. Line = <<p, Eq, c>>
    BY DEF Stands, Tokens
<1>3. /\ Line \in Seq(Token(l)) /\ Len(Line) = 3
      /\ Line[1] = p /\ Line[2] = Eq /\ Line[3] = c
    BY <1>2, <1>0
<1>4. ~IsBlank /\ Separator = 2 /\ Subject = l.pkg
    BY <1>3, HeadReads
<1>5. /\ Rest \in Seq(Token(l)) /\ Len(Rest) = 1 /\ Rest[1] = c /\ Rest # <<>>
    BY <1>3, HeadReads
<1>6. Find(Rest, {OpenBr}) = 0
    BY <1>5, TokensDiffer, FindNotOne
<1>7. CpusOf(Rest) = ParseCpuSpec(l.text, Topology)
    BY <1>5, CpusOfOne
<1>8. RuleLine
    BY <1>1, <1>3, <1>4, <1>5, <1>6, EqChosen
<1> QED BY <1>1, <1>4, <1>5, <1>7, <1>8 DEF RuleLine, Goes, Stated

LEMMA ReadsRuleAndOpen ==
    ASSUME NEW l, Stands(l), LineStep, l.form = "rule-open",
           Pattern(<<>>) = <<>>
    PROVE  Stated(l, l.text) /\ Goes(l.pkg, <<>>)
<1> DEFINE p == Named(l.pkg)
           c == OnCpus(l.text)
<1>0. /\ p \in Token(l) /\ Eq \in Token(l)
      /\ OpenBr \in Token(l) /\ c \in Token(l)
    BY TokenTypes
<1>1. inBlock = FALSE /\ curPkg = <<>> /\ l.pattern = <<>> /\ l.pkg # <<>>
    BY OutsideStands DEF Silent, Inside, Lost
<1>2. Line = <<p, Eq, c, OpenBr>>
    BY DEF Stands, Tokens
<1>3. /\ Line \in Seq(Token(l)) /\ Len(Line) = 4 /\ Line[1] = p /\ Line[2] = Eq
      /\ Line[3] = c /\ Line[4] = OpenBr
    BY <1>2, <1>0
<1>4. ~IsBlank /\ Separator = 2 /\ Subject = l.pkg
    BY <1>3, HeadReads
<1>5. /\ Rest \in Seq(Token(l)) /\ Len(Rest) = 2
      /\ Rest[1] = c /\ Rest[2] = OpenBr /\ Rest # <<>>
    BY <1>3, HeadReads
<1>6. Find(Rest, {OpenBr}) = 2
    BY <1>5, TokensDiffer, FindSecond
<1> DEFINE cpus == Before(Rest, 2)
<1>7. cpus \in Seq(Token(l)) /\ Len(cpus) = 1 /\ cpus[1] = c
    BY <1>5, BeforeSecond
<1>8. CpusOf(cpus) = ParseCpuSpec(l.text, Topology) /\ cpus # <<>>
    BY <1>7, CpusOfOne
<1>9. RuleAndBlockLine
    BY <1>1, <1>3, <1>4, <1>5, <1>6, EqChosen
<1> QED BY <1>1, <1>4, <1>5, <1>6, <1>8, <1>9 DEF RuleAndBlockLine, Goes, Stated

(* "pkg { thread }" and what may follow. *)
More == Behind(Rest, 2)

Braced(l) ==
    /\ inBlock = FALSE /\ Line \in Seq(Token(l)) /\ Len(Line) >= 4
    /\ Line[1] = Named(l.pkg) /\ Line[2] = OpenBr
    /\ Line[3] = Named(Pattern(l.pattern)) /\ Line[4] = CloseBr

LEMMA ThreadReads ==
    ASSUME NEW l, LineStep, Braced(l)
    PROVE  /\ ThreadLine /\ Subject = l.pkg
           /\ Find(Rest, {CloseBr}) = 2
           /\ NameOf(Before(Rest, 2)) = Pattern(l.pattern)
           /\ More \in Seq(Token(l)) /\ Len(More) = Len(Line) - 4
           /\ Len(Line) >= 5 => More[1] = Line[5]
           /\ Len(Line) >= 6 => More[2] = Line[6]
           /\ Len(Line) >= 7 => More[3] = Line[7]
<1> USE DEF Braced
<1>1. ~IsBlank /\ Separator = 2 /\ Subject = l.pkg
    BY HeadReads
<1>2. Rest \in Seq(Token(l)) /\ Len(Rest) = Len(Line) - 2
    BY HeadReads
<1>3. \A j \in 1 .. Len(Line) - 2 : Rest[j] = Line[2 + j]
    BY HeadReads
<1>4. Len(Rest) >= 2 /\ Rest[1] = Line[3] /\ Rest[2] = CloseBr
    BY <1>2, <1>3
<1>5. Find(Rest, {CloseBr}) = 2
    BY <1>2, <1>4, TokensDiffer, FindSecond
<1>6. ThreadLine
    BY <1>1, <1>5, OpenChosen
<1>7. NameOf(Before(Rest, 2)) = Pattern(l.pattern)
    <2>1. /\ Before(Rest, 2) \in Seq(Token(l)) /\ Len(Before(Rest, 2)) = 1
          /\ Before(Rest, 2)[1] = Named(Pattern(l.pattern))
        BY <1>2, <1>4, BeforeSecond
    <2> QED BY <2>1, NameOfOne
<1>8. /\ More \in Seq(Token(l)) /\ Len(More) = Len(Rest) - 2
      /\ \A j \in 1 .. Len(Rest) - 2 : More[j] = Rest[2 + j]
    <2>1. 2 \in 1 .. Len(Rest)
        BY <1>2, <1>4
    <2> QED BY <1>2, <2>1, BehindIs DEF More
<1>9. \A j \in 1 .. Len(Line) - 4 : More[j] = Line[4 + j]
    <2> SUFFICES ASSUME NEW j \in 1 .. Len(Line) - 4
                 PROVE  More[j] = Line[4 + j]
        OBVIOUS
    <2>1. j \in 1 .. Len(Rest) - 2 /\ 2 + j \in 1 .. Len(Line) - 2
        BY <1>2
    <2>2. More[j] = Rest[2 + j] /\ Rest[2 + j] = Line[2 + (2 + j)]
        BY <1>3, <1>8, <2>1
    <2> QED BY <2>2
<1>10. Len(More) = Len(Line) - 4
    BY <1>2, <1>8
<1>11. /\ Len(Line) >= 5 => 1 \in 1 .. Len(Line) - 4
       /\ Len(Line) >= 6 => 2 \in 1 .. Len(Line) - 4
       /\ Len(Line) >= 7 => 3 \in 1 .. Len(Line) - 4
    OBVIOUS
<1> QED BY <1>1, <1>5, <1>6, <1>7, <1>8, <1>9, <1>10, <1>11

LEMMA ReadsNoCpus ==
    ASSUME NEW l, Stands(l), LineStep, l.form = "no-cpus"
    PROVE  NoRule(Abandoned + 1) /\ Goes(<<>>, <<>>)
<1> DEFINE p == Named(l.pkg)
           t == Named(Pattern(l.pattern))
<1>0. /\ p \in Token(l) /\ t \in Token(l)
      /\ OpenBr \in Token(l) /\ CloseBr \in Token(l)
    BY TokenTypes
<1>1. inBlock = FALSE /\ curPkg = <<>>
    BY OutsideStands DEF Silent, Inside, Lost
<1>2. Line = <<p, OpenBr, t, CloseBr>>
    BY DEF Stands, Tokens
<1>3. /\ Line \in Seq(Token(l)) /\ Len(Line) = 4 /\ Line[1] = p
      /\ Line[2] = OpenBr /\ Line[3] = t /\ Line[4] = CloseBr
    BY <1>2, <1>0
<1>. Braced(l)
    BY <1>1, <1>3 DEF Braced
<1>4. ThreadLine /\ Find(Rest, {CloseBr}) = 2
    BY <1>3, ThreadReads
<1>5. More \in Seq(Token(l)) /\ Len(More) = 0
    BY <1>3, ThreadReads
<1>6. Find(Behind(Rest, 2), {Eq}) = 0
    BY <1>5, FindNothing DEF More
<1> QED BY <1>1, <1>4, <1>6 DEF ThreadLine, Goes

LEMMA ReadsThreadOpen ==
    ASSUME NEW l, Stands(l), LineStep, l.form = "thread-open"
    PROVE  NoRule(Abandoned) /\ Goes(l.pkg, <<>>)
<1> DEFINE p == Named(l.pkg)
           t == Named(Pattern(l.pattern))
<1>0. /\ p \in Token(l) /\ t \in Token(l) /\ Eq \in Token(l)
      /\ OpenBr \in Token(l) /\ CloseBr \in Token(l)
    BY TokenTypes
<1>1. inBlock = FALSE /\ curPkg = <<>> /\ l.pkg # <<>>
    BY OutsideStands DEF Silent, Inside, Lost
<1>2. Line = <<p, OpenBr, t, CloseBr, Eq, OpenBr>>
    BY DEF Stands, Tokens
<1>3. /\ Line \in Seq(Token(l)) /\ Len(Line) = 6 /\ Line[1] = p
      /\ Line[2] = OpenBr /\ Line[3] = t /\ Line[4] = CloseBr
      /\ Line[5] = Eq /\ Line[6] = OpenBr
    BY <1>2, <1>0
<1>. Braced(l)
    BY <1>1, <1>3 DEF Braced
<1>4. ThreadLine /\ Subject = l.pkg /\ Find(Rest, {CloseBr}) = 2
    BY <1>3, ThreadReads
<1>5. /\ More \in Seq(Token(l)) /\ Len(More) = 2
      /\ More[1] = Eq /\ More[2] = OpenBr
    BY <1>3, ThreadReads
<1>6. Find(More, {Eq}) = 1
    BY <1>5, FindFirst
<1> DEFINE cpus == Behind(More, 1)
<1>7. cpus \in Seq(Token(l)) /\ Len(cpus) = 1 /\ cpus[1] = OpenBr
    <2>1. Len(More) >= 1 /\ Len(More) >= 2
        BY <1>5
    <2>2. cpus \in Seq(Token(l)) /\ Len(cpus) = Len(More) - 1
        BY <1>5, <2>1, BehindFirst
    <2>3. cpus[1] = More[2]
        BY <1>5, <2>1, BehindFirst
    <2> QED BY <1>5, <2>2, <2>3
<1>8. Find(cpus, {OpenBr}) = 1
    BY <1>7, FindFirst
<1> QED BY <1>1, <1>4, <1>6, <1>8 DEF ThreadLine, Goes, More

LEMMA ReadsCompact ==
    ASSUME NEW l, Stands(l), LineStep, l.form = "compact"
    PROVE  Stated(l, l.text) /\ Goes(<<>>, <<>>)
<1> DEFINE p == Named(l.pkg)
           t == Named(Pattern(l.pattern))
           c == OnCpus(l.text)
<1>0. /\ p \in Token(l) /\ t \in Token(l) /\ c \in Token(l)
      /\ Eq \in Token(l) /\ OpenBr \in Token(l) /\ CloseBr \in Token(l)
    BY TokenTypes
<1>1. inBlock = FALSE /\ curPkg = <<>>
    BY OutsideStands DEF Silent, Inside, Lost
<1>2. Line = <<p, OpenBr, t, CloseBr, Eq, c>>
    BY DEF Stands, Tokens
<1>3. /\ Line \in Seq(Token(l)) /\ Len(Line) = 6 /\ Line[1] = p
      /\ Line[2] = OpenBr /\ Line[3] = t /\ Line[4] = CloseBr
      /\ Line[5] = Eq /\ Line[6] = c
    BY <1>2, <1>0
<1>. Braced(l)
    BY <1>1, <1>3 DEF Braced
<1>4. ThreadLine /\ Subject = l.pkg /\ Find(Rest, {CloseBr}) = 2
    BY <1>3, ThreadReads
<1>5. NameOf(Before(Rest, 2)) = Pattern(l.pattern)
    BY <1>3, ThreadReads
<1>6. /\ More \in Seq(Token(l)) /\ Len(More) = 2
      /\ More[1] = Eq /\ More[2] = c
    BY <1>3, ThreadReads
<1>7. Find(More, {Eq}) = 1
    BY <1>6, FindFirst
<1> DEFINE cpus == Behind(More, 1)
<1>8. cpus \in Seq(Token(l)) /\ Len(cpus) = 1 /\ cpus[1] = c
    <2>1. Len(More) >= 1 /\ Len(More) >= 2
        BY <1>6
    <2>2. cpus \in Seq(Token(l)) /\ Len(cpus) = Len(More) - 1
        BY <1>6, <2>1, BehindFirst
    <2>3. cpus[1] = More[2]
        BY <1>6, <2>1, BehindFirst
    <2> QED BY <1>6, <2>2, <2>3
<1>9. Find(cpus, {OpenBr}) = 0
    BY <1>8, TokensDiffer, FindNotOne
<1>10. CpusOf(cpus) = ParseCpuSpec(l.text, Topology)
    BY <1>8, CpusOfOne
<1> QED BY <1>1, <1>4, <1>5, <1>7, <1>9, <1>10
        DEF ThreadLine, Goes, Stated, More

LEMMA ReadsCompactOpen ==
    ASSUME NEW l, Stands(l), LineStep, l.form = "compact-open"
    PROVE  Stated(l, l.text) /\ Goes(l.pkg, <<>>)
<1> DEFINE p == Named(l.pkg)
           t == Named(Pattern(l.pattern))
           c == OnCpus(l.text)
<1>0. /\ p \in Token(l) /\ t \in Token(l) /\ c \in Token(l)
      /\ Eq \in Token(l) /\ OpenBr \in Token(l) /\ CloseBr \in Token(l)
    BY TokenTypes
<1>1. inBlock = FALSE /\ curPkg = <<>> /\ l.pkg # <<>>
    BY OutsideStands DEF Silent, Inside, Lost
<1>2. Line = <<p, OpenBr, t, CloseBr, Eq, c, OpenBr>>
    BY DEF Stands, Tokens
<1>3. /\ Line \in Seq(Token(l)) /\ Len(Line) = 7 /\ Line[1] = p
      /\ Line[2] = OpenBr /\ Line[3] = t /\ Line[4] = CloseBr
      /\ Line[5] = Eq /\ Line[6] = c /\ Line[7] = OpenBr
    BY <1>2, <1>0
<1>. Braced(l)
    BY <1>1, <1>3 DEF Braced
<1>4. ThreadLine /\ Subject = l.pkg /\ Find(Rest, {CloseBr}) = 2
    BY <1>3, ThreadReads
<1>5. NameOf(Before(Rest, 2)) = Pattern(l.pattern)
    BY <1>3, ThreadReads
<1>6. /\ More \in Seq(Token(l)) /\ Len(More) = 3
      /\ More[1] = Eq /\ More[2] = c /\ More[3] = OpenBr
    BY <1>3, ThreadReads
<1>7. Find(More, {Eq}) = 1
    BY <1>6, FindFirst
<1> DEFINE tail == Behind(More, 1)
<1>8. /\ tail \in Seq(Token(l)) /\ Len(tail) = 2
      /\ tail[1] = c /\ tail[2] = OpenBr
    <2>1. Len(More) >= 1 /\ Len(More) >= 2 /\ Len(More) >= 3
        BY <1>6
    <2>2. tail \in Seq(Token(l)) /\ Len(tail) = Len(More) - 1
        BY <1>6, <2>1, BehindFirst
    <2>3. tail[1] = More[2] /\ tail[2] = More[3]
        BY <1>6, <2>1, BehindFirst
    <2> QED BY <1>6, <2>2, <2>3
<1>9. Find(tail, {OpenBr}) = 2
    BY <1>8, TokensDiffer, FindSecond
<1> DEFINE cpus == Before(tail, 2)
<1>10. cpus \in Seq(Token(l)) /\ Len(cpus) = 1 /\ cpus[1] = c
    BY <1>8, BeforeSecond
<1>11. CpusOf(cpus) = ParseCpuSpec(l.text, Topology)
    BY <1>10, CpusOfOne
<1>12. AddRule(l.pkg, Pattern(l.pattern), cpus, Abandoned)
    BY <1>4, <1>5, <1>7, <1>9 DEF ThreadLine, More
<1>13. Goes(l.pkg, <<>>)
    BY <1>1, <1>4, <1>7, <1>9 DEF ThreadLine, Goes, More
<1> HIDE DEF cpus
<1> QED BY <1>11, <1>12, <1>13 DEF Stated

------------------------------------------------------------------------------
(* Lines of a block *)

LEMMA InsideStands ==
    ASSUME NEW l, Stands(l), l.form \in Inside
    PROVE  /\ inBlock = TRUE /\ curPkg = l.pkg /\ l.pkg # <<>>
           /\ pendingPkg = <<>> /\ Abandoned = 0
BY DEF Stands, Fits, Inside, Lost, Silent, Abandoned

LEMMA ReadsClose ==
    ASSUME NEW l, Stands(l), LineStep, l.form = "close"
    PROVE  NoRule(0) /\ Goes(<<>>, <<>>)
<1>0. CloseBr \in Token(l)
    BY TokenTypes
<1>1. inBlock = TRUE /\ pendingPkg = <<>>
    BY InsideStands DEF Inside
<1>2. Line = <<CloseBr>>
    BY DEF Stands, Tokens
<1>3. Line \in Seq(Token(l)) /\ Len(Line) = 1 /\ Line[1] = CloseBr
    BY <1>2, <1>0
<1>4. ~IsBlank
    BY <1>3, TokensDiffer DEF IsBlank
<1>5. Find(Line, {CloseBr}) = 1
    BY <1>3, FindFirst, SMTT(60)
<1>6. Before(Line, 1) = <<>>
    BY <1>3, BeforeFirst
<1>7. BlockLine
    BY <1>1, <1>4, BlockChosen
<1> QED BY <1>1, <1>5, <1>6, <1>7 DEF BlockLine, Goes

LEMMA ReadsTorn ==
    ASSUME NEW l, Stands(l), LineStep, l.form = "torn"
    PROVE  NoRule(1) /\ Goes(l.pkg, <<>>)
<1> DEFINE t == Named(Pattern(l.pattern))
<1>0. t \in Token(l)
    BY TokenTypes
<1>1. inBlock = TRUE /\ pendingPkg = <<>> /\ curPkg = l.pkg /\ l.pkg # <<>>
    BY InsideStands DEF Inside
<1>2. Line = <<t>>
    BY DEF Stands, Tokens
<1>3. Line \in Seq(Token(l)) /\ Len(Line) = 1 /\ Line[1] = t /\ Line # <<>>
    BY <1>2, <1>0
<1>4. ~IsBlank
    BY <1>3, TokensDiffer DEF IsBlank
<1>5. Find(Line, {CloseBr}) = 0 /\ Find(Line, {Eq}) = 0
    BY <1>3, TokensDiffer, FindNotOne
<1>6. BlockLine
    BY <1>1, <1>4, BlockChosen
<1> QED BY <1>1, <1>3, <1>5, <1>6 DEF BlockLine, Goes

LEMMA ReadsThread ==
    ASSUME NEW l, Stands(l), LineStep, l.form = "thread"
    PROVE  Stated(l, l.text) /\ Goes(l.pkg, <<>>)
<1> DEFINE t == Named(Pattern(l.pattern))
           c == OnCpus(l.text)
<1>0. t \in Token(l) /\ c \in Token(l) /\ Eq \in Token(l)
    BY TokenTypes
<1>1. /\ inBlock = TRUE /\ curPkg = l.pkg /\ l.pkg # <<>>
      /\ pendingPkg = <<>> /\ Abandoned = 0
    BY InsideStands DEF Inside
<1>2. Line = <<t, Eq, c>>
    BY DEF Stands, Tokens
<1>3. /\ Line \in Seq(Token(l)) /\ Len(Line) = 3 /\ Line[1] = t
      /\ Line[2] = Eq /\ Line[3] = c /\ Line # <<>>
    BY <1>2, <1>0
<1>4. ~IsBlank
    BY <1>3, TokensDiffer DEF IsBlank
<1>5. Find(Line, {CloseBr}) = 0
    <2>1. \A j \in 1 .. Len(Line) : Line[j] \notin {CloseBr}
        BY <1>3, TokensDiffer
    <2> QED BY <1>3, <2>1, FindNone
<1>6. Find(Line, {Eq}) = 2
    BY <1>3, TokensDiffer, FindSecond
<1>7. NameOf(Before(Line, 2)) = Pattern(l.pattern)
    <2>1. /\ Before(Line, 2) \in Seq(Token(l)) /\ Len(Before(Line, 2)) = 1
          /\ Before(Line, 2)[1] = t
        BY <1>3, BeforeSecond
    <2> QED BY <2>1, NameOfOne
<1> DEFINE cpus == Behind(Line, 2)
<1>8. cpus \in Seq(Token(l)) /\ Len(cpus) = 1 /\ cpus[1] = c
    <2>1. Len(Line) >= 3
        BY <1>3
    <2>2. /\ cpus \in Seq(Token(l)) /\ Len(cpus) = Len(Line) - 2
          /\ cpus[1] = Line[3]
        BY <1>3, <2>1, BehindSecond
    <2> QED BY <1>3, <2>2
<1>9. CpusOf(cpus) = ParseCpuSpec(l.text, Topology)
    BY <1>8, CpusOfOne
<1>10. BlockLine
    BY <1>1, <1>4, BlockChosen
<1>11. AddRule(l.pkg, Pattern(l.pattern), cpus, Abandoned)
    BY <1>1, <1>3, <1>5, <1>6, <1>7, <1>10 DEF BlockLine
<1>12. Goes(l.pkg, <<>>)
    BY <1>1, <1>5, <1>10 DEF BlockLine, Goes
<1> HIDE DEF cpus
<1> QED BY <1>9, <1>11, <1>12 DEF Stated

LEMMA ReadsThreadClose ==
    ASSUME NEW l, Stands(l), LineStep, l.form = "thread-close"
    PROVE  Stated(l, l.text) /\ Goes(<<>>, <<>>)
<1> DEFINE t == Named(Pattern(l.pattern))
           c == OnCpus(l.text)
<1>0. /\ t \in Token(l) /\ c \in Token(l) /\ Eq \in Token(l)
      /\ CloseBr \in Token(l)
    BY TokenTypes
<1>1. /\ inBlock = TRUE /\ curPkg = l.pkg
      /\ pendingPkg = <<>> /\ Abandoned = 0
    BY InsideStands DEF Inside
<1>2. Line = <<t, Eq, c, CloseBr>>
    BY DEF Stands, Tokens
<1>3. /\ Line \in Seq(Token(l)) /\ Len(Line) = 4 /\ Line[1] = t
      /\ Line[2] = Eq /\ Line[3] = c /\ Line[4] = CloseBr
    BY <1>2, <1>0
<1>4. ~IsBlank
    BY <1>3, TokensDiffer DEF IsBlank
<1>5. Find(Line, {CloseBr}) = 4
    <2>1. 4 \in 1 .. Len(Line) /\ Line[4] \in {CloseBr}
        BY <1>3
    <2>2. \A j \in 1 .. 4 - 1 : Line[j] \notin {CloseBr}
        BY <1>3, TokensDiffer
    <2> QED BY <1>3, <2>1, <2>2, FindAt
<1> DEFINE content == Before(Line, 4)
<1>6. /\ content \in Seq(Token(l)) /\ Len(content) = 3 /\ content[1] = t
      /\ content[2] = Eq /\ content[3] = c /\ content # <<>>
    <2>1. 4 \in 1 .. Len(Line)
        BY <1>3
    <2>2. /\ content \in Seq(Token(l)) /\ Len(content) = 4 - 1
          /\ \A j \in 1 .. 4 - 1 : content[j] = Line[j]
        BY <1>3, <2>1, BeforeIs
    <2> HIDE DEF content
    <2> QED BY <1>3, <2>2
<1>7. Find(content, {Eq}) = 2
    BY <1>6, TokensDiffer, FindSecond
<1>8. NameOf(Before(content, 2)) = Pattern(l.pattern)
    <2>1. /\ Before(content, 2) \in Seq(Token(l))
          /\ Len(Before(content, 2)) = 1 /\ Before(content, 2)[1] = t
        <3> HIDE DEF content
        <3> QED BY <1>6, BeforeSecond
    <2> HIDE DEF content
    <2> QED BY <2>1, NameOfOne
<1> DEFINE cpus == Behind(content, 2)
<1>9. cpus \in Seq(Token(l)) /\ Len(cpus) = 1 /\ cpus[1] = c
    <2> HIDE DEF content
    <2>1. Len(content) >= 3
        BY <1>6
    <2>2. /\ cpus \in Seq(Token(l)) /\ Len(cpus) = Len(content) - 2
          /\ cpus[1] = content[3]
        BY <1>6, <2>1, BehindSecond
    <2> QED BY <1>6, <2>2
<1>10. CpusOf(cpus) = ParseCpuSpec(l.text, Topology)
    BY <1>9, CpusOfOne
<1>11. BlockLine
    BY <1>1, <1>4, BlockChosen
<1>12. AddRule(l.pkg, Pattern(l.pattern), cpus, Abandoned)
    BY <1>1, <1>5, <1>6, <1>7, <1>8, <1>11 DEF BlockLine
<1>13. Goes(<<>>, <<>>)
    BY <1>1, <1>5, <1>11 DEF BlockLine, Goes
<1> HIDE DEF cpus
<1> QED BY <1>10, <1>12, <1>13 DEF Stated

(* The word of a comment spoils the last part of the CPUs before it. *)
Spoiled(text) ==
    IF text = <<>> THEN text ELSE [text EXCEPT ![Len(text)] = Spoilt(@)]

LEMMA ReadsThreadNote ==
    ASSUME NEW l, Stands(l), LineStep, l.form = "thread-note"
    PROVE  Stated(l, Spoiled(l.text)) /\ Goes(l.pkg, <<>>)
<1> DEFINE t == Named(Pattern(l.pattern))
           c == OnCpus(l.text)
<1>0. /\ t \in Token(l) /\ c \in Token(l) /\ Eq \in Token(l)
      /\ Note \in Token(l)
    BY TokenTypes
<1>1. /\ inBlock = TRUE /\ curPkg = l.pkg /\ l.pkg # <<>>
      /\ pendingPkg = <<>> /\ Abandoned = 0
    BY InsideStands DEF Inside
<1>2. Line = <<t, Eq, c, Note>>
    BY DEF Stands, Tokens
<1>3. /\ Line \in Seq(Token(l)) /\ Len(Line) = 4 /\ Line[1] = t
      /\ Line[2] = Eq /\ Line[3] = c /\ Line[4] = Note /\ Line # <<>>
    BY <1>2, <1>0
<1>4. ~IsBlank
    BY <1>3, TokensDiffer DEF IsBlank
<1>5. Find(Line, {CloseBr}) = 0
    <2>1. \A j \in 1 .. Len(Line) : Line[j] \notin {CloseBr}
        BY <1>3, TokensDiffer
    <2> QED BY <1>3, <2>1, FindNone
<1>6. Find(Line, {Eq}) = 2
    BY <1>3, TokensDiffer, FindSecond
<1>7. NameOf(Before(Line, 2)) = Pattern(l.pattern)
    <2>1. /\ Before(Line, 2) \in Seq(Token(l)) /\ Len(Before(Line, 2)) = 1
          /\ Before(Line, 2)[1] = t
        BY <1>3, BeforeSecond, SMTT(60)
    <2> QED BY <2>1, NameOfOne
<1> DEFINE cpus == Behind(Line, 2)
<1>8. cpus \in Seq(Token(l)) /\ Len(cpus) = 2 /\ cpus[1] = c
    <2>1. Len(Line) >= 3
        BY <1>3
    <2>2. /\ cpus \in Seq(Token(l)) /\ Len(cpus) = Len(Line) - 2
          /\ cpus[1] = Line[3]
        BY <1>3, <2>1, BehindSecond
    <2> QED BY <1>3, <2>2
<1>9. CpusOf(cpus) = ParseCpuSpec(Spoiled(l.text), Topology)
    <2> DEFINE s == l.text
    <2>1. cpus # <<>> /\ cpus[1][1] = "cpus" /\ cpus[1][2] = s /\ Len(cpus) # 1
        BY <1>8, TokensDiffer
    <2>2. CpusOf(cpus)
          = ParseCpuSpec([s EXCEPT ![Len(s)] = Spoilt(@)], Topology)
        <3> HIDE DEF cpus, s
        <3> QED BY <2>1 DEF CpusOf
    <2>3. s \in Seq(Parts)
        BY DEF Stands, Lines
    <2>4. [s EXCEPT ![Len(s)] = Spoilt(@)] = Spoiled(s)
        <3>1. CASE s # <<>>
            BY <3>1 DEF Spoiled
        <3>2. CASE s = <<>>
            <4>1. [s EXCEPT ![Len(s)] = Spoilt(@)]
                  = [i \in DOMAIN s |-> IF i = Len(s) THEN Spoilt(s[i]) ELSE s[i]]
                OBVIOUS
            <4> QED BY <3>2, <4>1 DEF Spoiled
        <3> QED BY <3>1, <3>2
    <2> QED BY <2>2, <2>4
<1>10. BlockLine
    BY <1>1, <1>4, BlockChosen
<1>11. AddRule(l.pkg, Pattern(l.pattern), cpus, Abandoned)
    BY <1>1, <1>3, <1>5, <1>6, <1>7, <1>10 DEF BlockLine
<1>12. Goes(l.pkg, <<>>)
    BY <1>1, <1>5, <1>10 DEF BlockLine, Goes
<1> HIDE DEF cpus
<1> QED BY <1>9, <1>11, <1>12 DEF Stated

(* Lines that are met in a block without its "}" *)

(* A line with "=" and no CPUs behind it adds nothing and is counted. *)
LEMMA RefusedAdds ==
    ASSUME NEW pkg, NEW thread, NEW cpus, CpusOf(cpus) = {},
           AddRule(pkg, thread, cpus, 0), failCnt \in Nat
    PROVE  NoRule(1)
<1>1. ~Accepts(pkg, thread, cpus)
    BY DEF Accepts
<1>2. rules' = rules
    BY <1>1 DEF AddRule, WithRule
<1>3. failCnt' = failCnt + 1
    BY <1>1 DEF AddRule, Fails
<1> QED BY <1>2, <1>3 DEF NoRule

LEMMA ReadsLostHeader ==
    ASSUME NEW l, Stands(l), LineStep, l.form = "lost-header", failCnt \in Nat
    PROVE  NoRule(1) /\ Goes(l.pkg, <<>>)
<1> DEFINE t == Named(Pattern(l.pattern))
<1>0. t \in Token(l) /\ Eq \in Token(l)
    BY TokenTypes
<1>1. inBlock = TRUE /\ pendingPkg = <<>> /\ curPkg = l.pkg /\ l.pkg # <<>>
    BY InsideStands DEF Inside, Lost
<1>2. Line = <<t, Eq>>
    BY DEF Stands, Tokens
<1>3. /\ Line \in Seq(Token(l)) /\ Len(Line) = 2 /\ Line[1] = t
      /\ Line[2] = Eq /\ Line # <<>>
    BY <1>2, <1>0
<1>4. ~IsBlank
    BY <1>3, TokensDiffer DEF IsBlank
<1>5. Find(Line, {CloseBr}) = 0
    <2>1. \A j \in 1 .. Len(Line) : Line[j] \notin {CloseBr}
        BY <1>3, TokensDiffer
    <2> QED BY <1>3, <2>1, FindNone
<1>6. Find(Line, {Eq}) = 2
    BY <1>3, TokensDiffer, FindSecond
<1> DEFINE cpus == Behind(Line, 2)
<1>7. CpusOf(cpus) = {}
    <2>1. cpus = <<>>
        BY <1>3 DEF Behind
    <2> HIDE DEF cpus
    <2> QED BY <2>1 DEF CpusOf
<1>8. BlockLine
    BY <1>1, <1>4, BlockChosen
<1>9. AddRule(l.pkg, NameOf(Before(Line, 2)), cpus, 0)
    BY <1>1, <1>3, <1>5, <1>6, <1>8 DEF BlockLine
<1>10. Goes(l.pkg, <<>>)
    BY <1>1, <1>5, <1>8 DEF BlockLine, Goes
<1> HIDE DEF cpus
<1> QED BY <1>7, <1>9, <1>10, RefusedAdds

LEMMA ReadsLostOpen ==
    ASSUME NEW l, Stands(l), LineStep, l.form = "lost-open"
    PROVE  NoRule(1) /\ Goes(l.pkg, <<>>)
<1> DEFINE t == Named(Pattern(l.pattern))
<1>0. t \in Token(l) /\ OpenBr \in Token(l)
    BY TokenTypes
<1>1. inBlock = TRUE /\ pendingPkg = <<>> /\ curPkg = l.pkg /\ l.pkg # <<>>
    BY InsideStands DEF Inside, Lost
<1>2. Line = <<t, OpenBr>>
    BY DEF Stands, Tokens
<1>3. /\ Line \in Seq(Token(l)) /\ Len(Line) = 2 /\ Line[1] = t
      /\ Line[2] = OpenBr /\ Line # <<>>
    BY <1>2, <1>0
<1>4. ~IsBlank
    BY <1>3, TokensDiffer DEF IsBlank
<1>5. Find(Line, {CloseBr}) = 0 /\ Find(Line, {Eq}) = 0
    <2>1. \A j \in 1 .. Len(Line) : Line[j] \notin {CloseBr}
        BY <1>3, TokensDiffer
    <2>2. \A j \in 1 .. Len(Line) : Line[j] \notin {Eq}
        BY <1>3, TokensDiffer
    <2> QED BY <1>3, <2>1, <2>2, FindNone
<1>6. BlockLine
    BY <1>1, <1>4, BlockChosen
<1> QED BY <1>1, <1>3, <1>5, <1>6 DEF BlockLine, Goes

LEMMA ReadsLostEqOpen ==
    ASSUME NEW l, Stands(l), LineStep, l.form = "lost-eq-open", failCnt \in Nat
    PROVE  NoRule(1) /\ Goes(l.pkg, <<>>)
<1> DEFINE t == Named(Pattern(l.pattern))
<1>0. t \in Token(l) /\ Eq \in Token(l) /\ OpenBr \in Token(l)
    BY TokenTypes
<1>1. inBlock = TRUE /\ pendingPkg = <<>> /\ curPkg = l.pkg /\ l.pkg # <<>>
    BY InsideStands DEF Inside, Lost
<1>2. Line = <<t, Eq, OpenBr>>
    BY DEF Stands, Tokens
<1>3. /\ Line \in Seq(Token(l)) /\ Len(Line) = 3 /\ Line[1] = t
      /\ Line[2] = Eq /\ Line[3] = OpenBr /\ Line # <<>>
    BY <1>2, <1>0
<1>4. ~IsBlank
    BY <1>3, TokensDiffer DEF IsBlank
<1>5. Find(Line, {CloseBr}) = 0
    <2>1. \A j \in 1 .. Len(Line) : Line[j] \notin {CloseBr}
        BY <1>3, TokensDiffer
    <2> QED BY <1>3, <2>1, FindNone
<1>6. Find(Line, {Eq}) = 2
    BY <1>3, TokensDiffer, FindSecond
<1> DEFINE cpus == Behind(Line, 2)
<1>7. CpusOf(cpus) = {}
    <2>1. Len(Line) >= 3
        BY <1>3
    <2>2. /\ cpus \in Seq(Token(l)) /\ Len(cpus) = Len(Line) - 2
          /\ cpus[1] = Line[3]
        BY <1>3, <2>1, BehindSecond
    <2>3. cpus[1] = OpenBr
        BY <1>3, <2>2
    <2>4. OpenBr[1] # "cpus"
        BY DEF OpenBr
    <2> HIDE DEF cpus
    <2> QED BY <2>3, <2>4 DEF CpusOf
<1>8. BlockLine
    BY <1>1, <1>4, BlockChosen
<1>9. AddRule(l.pkg, NameOf(Before(Line, 2)), cpus, 0)
    BY <1>1, <1>3, <1>5, <1>6, <1>8 DEF BlockLine
<1>10. Goes(l.pkg, <<>>)
    BY <1>1, <1>5, <1>8 DEF BlockLine, Goes
<1> HIDE DEF cpus
<1> QED BY <1>7, <1>9, <1>10, RefusedAdds

LEMMA ReadsLostCompact ==
    ASSUME NEW l, Stands(l), LineStep, l.form = "lost-compact"
    PROVE  NoRule(1) /\ Goes(<<>>, <<>>)
<1> DEFINE t == Named(Pattern(l.pattern))
           c == OnCpus(l.text)
<1>0. /\ t \in Token(l) /\ c \in Token(l) /\ Eq \in Token(l)
      /\ OpenBr \in Token(l) /\ CloseBr \in Token(l)
    BY TokenTypes
<1>1. inBlock = TRUE /\ pendingPkg = <<>>
    BY InsideStands DEF Inside, Lost
<1>2. Line = <<t, OpenBr, t, CloseBr, Eq, c>>
    BY DEF Stands, Tokens
<1>3. /\ Line \in Seq(Token(l)) /\ Len(Line) = 6 /\ Line[1] = t
      /\ Line[2] = OpenBr /\ Line[3] = t /\ Line[4] = CloseBr
      /\ Line # <<>>
    BY <1>2, <1>0
<1>4. ~IsBlank
    <2>1. Line # <<>> /\ Line[1] = t /\ t # Note
        BY <1>3, TokensDiffer
    <2> QED BY <2>1 DEF IsBlank
<1>5. Find(Line, {CloseBr}) = 4
    <2>1. 4 \in 1 .. Len(Line) /\ Line[4] \in {CloseBr}
        BY <1>3
    <2>2. \A j \in 1 .. 4 - 1 : Line[j] \notin {CloseBr}
        BY <1>3, TokensDiffer
    <2> QED BY <1>3, <2>1, <2>2, FindAt
<1> DEFINE content == Before(Line, 4)
<1>6. /\ content \in Seq(Token(l)) /\ Len(content) = 3 /\ content[1] = t
      /\ content[2] = OpenBr /\ content[3] = t /\ content # <<>>
    <2>1. 4 \in 1 .. Len(Line)
        BY <1>3
    <2>2. /\ content \in Seq(Token(l)) /\ Len(content) = 4 - 1
          /\ \A j \in 1 .. 4 - 1 : content[j] = Line[j]
        BY <1>3, <2>1, BeforeIs
    <2> HIDE DEF content, t
    <2>3. /\ Len(content) = 3 /\ content[1] = Line[1]
          /\ content[2] = Line[2] /\ content[3] = Line[3]
        BY <2>2
    <2>4. content # <<>>
        BY <2>3
    <2> QED BY <1>3, <2>2, <2>3, <2>4
<1>7. Find(content, {Eq}) = 0
    <2> HIDE DEF content
    <2>1. \A j \in 1 .. Len(content) : content[j] \notin {Eq}
        BY <1>6, TokensDiffer
    <2> QED BY <1>6, <2>1, FindNone
<1>8. BlockLine
    BY <1>1, <1>4, BlockChosen
<1>9. NoRule(1)
    BY <1>5, <1>6, <1>7, <1>8 DEF BlockLine
<1>10. Goes(<<>>, <<>>)
    BY <1>1, <1>5, <1>8 DEF BlockLine, Goes
<1> QED BY <1>9, <1>10

LEMMA ReadsSilent ==
    ASSUME NEW l, Stands(l), LineStep, l.form \in Silent
    PROVE  BlankLine
<1>1. CASE l.form = "blank"
    <2>1. Line = <<>>
        BY <1>1 DEF Stands, Tokens
    <2> QED BY <2>1, BlankChosen DEF IsBlank
<1>2. CASE l.form = "note"
    <2>1. Line = <<Note, Note>>
        BY <1>2 DEF Stands, Tokens
    <2>2. Line # <<>> /\ Line[1] = Note
        BY <2>1
    <2> QED BY <2>2, BlankChosen DEF IsBlank
<1> QED BY <1>1, <1>2 DEF Silent

------------------------------------------------------------------------------
(* A line of any form *)

LEMMA NoPattern == Pattern(<<>>) = <<>>
<1>1. [i \in DOMAIN <<>> |-> Written(<<>>[i])] = <<>>
    OBVIOUS
<1> QED BY <1>1 DEF Pattern, FlattenSeq

LEMMA LeavesIs ==
    ASSUME NEW l
    PROVE  /\ Leaves(l) = [block |-> Leaves(l).block, pending |-> Leaves(l).pending]
           /\ Leaves(l).block = <<>> \/ Leaves(l).pending = <<>>
           /\ Leaves(l).block \in {<<>>, l.pkg}
           /\ Leaves(l).pending \in {<<>>, l.pkg}
BY DEF Leaves, TopLevel

Mistakes(l) ==
    (IF \/ l.form \in Lost \cup {"torn", "no-cpus"}
        \/ l.form = "brace" /\ pendingPkg = <<>> THEN 1 ELSE 0)
    + (IF l.form = "brace" THEN 0 ELSE Abandoned)

TextRead(l) == IF l.form = "thread-note" THEN Spoiled(l.text) ELSE l.text

LEMMA AbandonedType == Abandoned \in {0, 1}
BY DEF Abandoned

LEMMA LeavesTop ==
    ASSUME NEW l, l.form \in {"plain", "no-cpus", "rule", "compact", "close",
                             "thread-close", "lost-compact"}
    PROVE  Leaves(l).block = <<>> /\ Leaves(l).pending = <<>>
BY DEF Leaves, TopLevel, Opening, Inside, Lost

LEMMA LeavesBlock ==
    ASSUME NEW l, l.form \in Opening \cup {"thread", "thread-note", "torn",
                                  "lost-header", "lost-open", "lost-eq-open"}
    PROVE  Leaves(l).block = l.pkg /\ Leaves(l).pending = <<>>
BY DEF Leaves, TopLevel, Opening, Inside, Lost

LEMMA LeavesPending ==
    ASSUME NEW l, l.form = "header"
    PROVE  Leaves(l).block = <<>> /\ Leaves(l).pending = l.pkg
BY DEF Leaves, TopLevel, Opening, Inside, Lost

LEMMA LineGoes ==
    ASSUME NEW l, Stands(l), LineStep, failCnt \in Nat, l.form \notin Silent
    PROVE  Goes(Leaves(l).block, Leaves(l).pending)
<1>1. l.form \in Forms
    BY DEF Stands, Lines
<1>2. CASE l.form = "plain"
    BY <1>2, ReadsPlain, LeavesTop
<1>3. CASE l.form = "header"
    BY <1>3, ReadsHeader, LeavesPending
<1>4. CASE l.form = "open"
    BY <1>4, ReadsOpen, LeavesBlock DEF Opening
<1>5. CASE l.form = "eq-open"
    BY <1>5, ReadsEqOpen, LeavesBlock DEF Opening
<1>6. CASE l.form = "brace"
    BY <1>6, ReadsBrace, LeavesBlock DEF Opening
<1>7. CASE l.form = "rule"
    BY <1>7, ReadsRule, NoPattern, LeavesTop
<1>8. CASE l.form = "rule-open"
    BY <1>8, ReadsRuleAndOpen, NoPattern, LeavesBlock DEF Opening
<1>9. CASE l.form = "no-cpus"
    BY <1>9, ReadsNoCpus, LeavesTop
<1>10. CASE l.form = "thread-open"
    BY <1>10, ReadsThreadOpen, LeavesBlock DEF Opening
<1>11. CASE l.form = "compact"
    BY <1>11, ReadsCompact, LeavesTop
<1>12. CASE l.form = "compact-open"
    BY <1>12, ReadsCompactOpen, LeavesBlock DEF Opening
<1>13. CASE l.form = "close"
    BY <1>13, ReadsClose, LeavesTop
<1>14. CASE l.form = "torn"
    BY <1>14, ReadsTorn, LeavesBlock
<1>15. CASE l.form = "thread"
    BY <1>15, ReadsThread, LeavesBlock
<1>16. CASE l.form = "thread-close"
    BY <1>16, ReadsThreadClose, LeavesTop
<1>17. CASE l.form = "thread-note"
    BY <1>17, ReadsThreadNote, LeavesBlock
<1>18. CASE l.form = "lost-header"
    BY <1>18, ReadsLostHeader, LeavesBlock
<1>19. CASE l.form = "lost-open"
    BY <1>19, ReadsLostOpen, LeavesBlock
<1>20. CASE l.form = "lost-eq-open"
    BY <1>20, ReadsLostEqOpen, LeavesBlock
<1>21. CASE l.form = "lost-compact"
    BY <1>21, ReadsLostCompact, LeavesTop
<1> HIDE DEF Goes
<1> QED BY <1>1, <1>2, <1>3, <1>4, <1>5, <1>6, <1>7, <1>8, <1>9, <1>10, <1>11,
           <1>12, <1>13, <1>14, <1>15, <1>16, <1>17, <1>18, <1>19, <1>20, <1>21
        DEF Forms, Silent, Stating, Inside, Opening, Lost

LEMMA LineStates ==
    ASSUME NEW l, Stands(l), LineStep, l.form \in Stating
    PROVE  Stated(l, TextRead(l))
<1>1. CASE l.form = "rule"
    BY <1>1, ReadsRule, NoPattern DEF TextRead
<1>2. CASE l.form = "rule-open"
    BY <1>2, ReadsRuleAndOpen, NoPattern DEF TextRead
<1>3. CASE l.form = "compact"
    BY <1>3, ReadsCompact DEF TextRead
<1>4. CASE l.form = "compact-open"
    BY <1>4, ReadsCompactOpen DEF TextRead
<1>5. CASE l.form = "thread"
    BY <1>5, ReadsThread DEF TextRead
<1>6. CASE l.form = "thread-close"
    BY <1>6, ReadsThreadClose DEF TextRead
<1>7. CASE l.form = "thread-note"
    BY <1>7, ReadsThreadNote DEF TextRead
<1> QED BY <1>1, <1>2, <1>3, <1>4, <1>5, <1>6, <1>7 DEF Stating

LEMMA LineIsSilent ==
    ASSUME NEW l, Stands(l), LineStep, failCnt \in Nat,
           l.form \notin Silent \cup Stating
    PROVE  NoRule(Mistakes(l))
<1>1. l.form \in Forms /\ Abandoned \in {0, 1}
    BY AbandonedType DEF Stands, Lines
<1>2. CASE l.form = "plain"
    <2>1. Mistakes(l) = Abandoned
        BY <1>1, <1>2 DEF Mistakes, Lost
    <2> QED BY <1>2, <2>1, ReadsPlain
<1>3. CASE l.form = "header"
    <2>1. Mistakes(l) = Abandoned
        BY <1>1, <1>3 DEF Mistakes, Lost
    <2> QED BY <1>3, <2>1, ReadsHeader
<1>4. CASE l.form = "open"
    <2>1. Mistakes(l) = Abandoned
        BY <1>1, <1>4 DEF Mistakes, Lost
    <2> QED BY <1>4, <2>1, ReadsOpen
<1>5. CASE l.form = "eq-open"
    <2>1. Mistakes(l) = Abandoned
        BY <1>1, <1>5 DEF Mistakes, Lost
    <2> QED BY <1>5, <2>1, ReadsEqOpen
<1>6. CASE l.form = "brace"
    <2>1. Mistakes(l) = IF pendingPkg = <<>> THEN 1 ELSE 0
        BY <1>1, <1>6 DEF Mistakes, Lost
    <2> QED BY <1>6, <2>1, ReadsBrace
<1>7. CASE l.form = "no-cpus"
    <2>1. Mistakes(l) = Abandoned + 1
        BY <1>1, <1>7 DEF Mistakes, Lost
    <2> QED BY <1>7, <2>1, ReadsNoCpus
<1>8. CASE l.form = "thread-open"
    <2>1. Mistakes(l) = Abandoned
        BY <1>1, <1>8 DEF Mistakes, Lost
    <2> QED BY <1>8, <2>1, ReadsThreadOpen
<1>9. CASE l.form = "close"
    <2>1. Abandoned = 0
        BY <1>9, InsideStands DEF Inside
    <2>2. Mistakes(l) = 0
        BY <2>1, <1>9 DEF Mistakes, Lost
    <2> QED BY <1>9, <2>2, ReadsClose
<1>10. CASE l.form = "torn"
    <2>1. Abandoned = 0
        BY <1>10, InsideStands DEF Inside
    <2>2. Mistakes(l) = 1
        BY <2>1, <1>10 DEF Mistakes, Lost
    <2> QED BY <1>10, <2>2, ReadsTorn
<1>11. CASE l.form \in Lost
    <2>1. Abandoned = 0
        BY <1>11, InsideStands DEF Inside
    <2>2. Mistakes(l) = 1
        BY <2>1, <1>11 DEF Mistakes, Lost
    <2>3. NoRule(1)
        BY <1>11, ReadsLostHeader, ReadsLostOpen, ReadsLostEqOpen,
           ReadsLostCompact DEF Lost
    <2> QED BY <2>2, <2>3
<1> QED BY <1>1, <1>2, <1>3, <1>4, <1>5, <1>6, <1>7, <1>8, <1>9, <1>10, <1>11
        DEF Forms, Silent, Stating, Inside, Opening

------------------------------------------------------------------------------
(* A text's CPUs *)

LEMMA TopologyIs ==
    /\ Cpus \subseteq 0 .. Size - 1
    /\ \A k \in CoreNames : Topology[k] \subseteq Cpus
    /\ "all-core" \in CoreNames
BY TopologyAssumption DEF Cpus, CoreNames

LEMMA NumbersMean ==
    ASSUME NEW x \in Nat, NEW y \in Nat, NEW cpu \in 0 .. Size - 1
    PROVE  cpu \in FromTo(x, y) <=> \/ x <= cpu /\ cpu <= y
                                    \/ y <= cpu /\ cpu <= x
<1>0. Size \in Nat \ {0} /\ cpu \in Nat /\ cpu <= Size - 1
    BY SizeAssumption
<1>1. FromTo(x, y) = Lower(x, y) .. Lower(Upper(x, y), Size - 1)
    BY DEF FromTo
<1>2. CASE x <= y
    <2>1. Lower(x, y) = x /\ Upper(x, y) = y
        BY <1>2 DEF Lower, Upper
    <2>2. cpu <= Lower(y, Size - 1) <=> cpu <= y
        BY <1>0 DEF Lower
    <2>3. Lower(y, Size - 1) \in Int
        BY <1>0 DEF Lower
    <2>4. cpu \in FromTo(x, y) <=> x <= cpu /\ cpu <= Lower(y, Size - 1)
        BY <1>0, <1>1, <2>1, <2>3
    <2>5. y <= cpu /\ cpu <= x => x <= cpu /\ cpu <= y
        BY <1>0, <1>2
    <2> QED BY <2>2, <2>4, <2>5
<1>3. CASE ~ (x <= y)
    <2>1. Lower(x, y) = y /\ Upper(x, y) = x
        BY <1>3 DEF Lower, Upper
    <2>2. cpu <= Lower(x, Size - 1) <=> cpu <= x
        BY <1>0 DEF Lower
    <2>3. Lower(x, Size - 1) \in Int
        BY <1>0 DEF Lower
    <2>4. cpu \in FromTo(x, y) <=> y <= cpu /\ cpu <= Lower(x, Size - 1)
        BY <1>0, <1>1, <2>1, <2>3
    <2>5. x <= cpu /\ cpu <= y => y <= cpu /\ cpu <= x
        BY <1>0, <1>3
    <2> QED BY <2>2, <2>4, <2>5
<1> QED BY <1>2, <1>3

LEMMA PartMeans ==
    ASSUME NEW part \in Parts, NEW cpu \in Cpus
    PROVE  cpu \in PartCpus(part, Topology) <=> IsFor(part, cpu)
<1>0. cpu \in 0 .. Size - 1
    BY TopologyIs
<1>1. CASE part \in {"cpu"} \X Numbers
    <2>1. part[1] = "cpu" /\ part[2] \in Numbers
        BY <1>1
    <2>2. IsFor(part, cpu) <=> cpu \in Topology["all-core"] /\ cpu = part[2]
        BY <2>1 DEF IsFor
    <2>3. PartCpus(part, Topology) = NumberCpus(part) \cap Topology["all-core"]
        BY <2>1 DEF PartCpus
    <2>4. CASE part[2] = Bad
        <3>1. NumberCpus(part) = {}
            BY <2>4 DEF NumberCpus
        <3>2. cpu # part[2]
            BY <1>0, <2>4 DEF Bad
        <3> QED BY <2>2, <2>3, <3>1, <3>2
    <2>5. CASE part[2] # Bad
        <3>1. part[2] \in Nat
            BY <2>1, <2>5 DEF Numbers
        <3>2. NumberCpus(part) = FromTo(part[2], part[2])
            BY <2>1, <2>5 DEF NumberCpus
        <3>3. cpu \in FromTo(part[2], part[2]) <=> cpu = part[2]
            <4> DEFINE n == part[2]
            <4>1. n \in Nat
                BY <3>1
            <4> HIDE DEF n
            <4>2. cpu \in FromTo(n, n) <=> n <= cpu /\ cpu <= n
                BY <1>0, <4>1, NumbersMean
            <4>3. cpu \in FromTo(n, n) <=> cpu = n
                BY <1>0, <4>1, <4>2
            <4> QED BY <4>3 DEF n
        <3> QED BY <2>2, <2>3, <3>2, <3>3
    <2> QED BY <2>4, <2>5
<1>2. CASE part \in {"span"} \X Numbers \X Numbers
    <2>1. part[1] = "span" /\ part[2] \in Numbers /\ part[3] \in Numbers
        BY <1>2
    <2> DEFINE x == part[2]
               y == part[3]
    <2>2. IsFor(part, cpu) <=>
              /\ cpu \in Topology["all-core"] /\ x # Bad
              /\ \/ y = Bad /\ cpu = x
                 \/ y # Bad /\ x <= cpu /\ cpu <= y
                 \/ y # Bad /\ y <= cpu /\ cpu <= x
        BY <2>1 DEF IsFor
    <2>3. PartCpus(part, Topology) = NumberCpus(part) \cap Topology["all-core"]
        BY <2>1 DEF PartCpus
    <2>4. NumberCpus(part) = IF x = Bad THEN {}
                             ELSE IF y = Bad THEN FromTo(x, x) ELSE FromTo(x, y)
        BY <2>1 DEF NumberCpus
    <2>5. x \in Numbers /\ y \in Numbers
        BY <2>1
    <2> HIDE DEF x, y
    <2>6. CASE x = Bad
        BY <2>2, <2>3, <2>4, <2>6
    <2>7. CASE x # Bad /\ y = Bad
        <3>1. x \in Nat
            BY <2>5, <2>7 DEF Numbers
        <3>2. cpu \in FromTo(x, x) <=> x <= cpu /\ cpu <= x
            BY <1>0, <3>1, NumbersMean
        <3>3. cpu \in FromTo(x, x) <=> cpu = x
            BY <1>0, <3>1, <3>2
        <3> QED BY <2>2, <2>3, <2>4, <2>7, <3>3
    <2>8. CASE x # Bad /\ y # Bad
        <3>1. x \in Nat /\ y \in Nat
            BY <2>5, <2>8 DEF Numbers
        <3>2. cpu \in FromTo(x, y) <=> \/ x <= cpu /\ cpu <= y
                                       \/ y <= cpu /\ cpu <= x
            BY <1>0, <3>1, NumbersMean
        <3>3. NumberCpus(part) = FromTo(x, y)
            BY <2>4, <2>8
        <3>4. IsFor(part, cpu) <=> /\ cpu \in Topology["all-core"]
                                   /\ \/ x <= cpu /\ cpu <= y
                                      \/ y <= cpu /\ cpu <= x
            BY <2>2, <2>8, Zenon
        <3>5. cpu \in PartCpus(part, Topology) <=>
                  cpu \in FromTo(x, y) /\ cpu \in Topology["all-core"]
            BY <2>3, <3>3, Zenon
        <3> QED BY <3>2, <3>4, <3>5, Zenon
    <2> QED BY <2>6, <2>7, <2>8
<1>3. CASE part \in {"core"} \X CoreNames
    <2>1. part[1] = "core"
        BY <1>3
    <2> QED BY <2>1 DEF PartCpus, IsFor
<1> QED BY <1>1, <1>2, <1>3 DEF Parts

LEMMA PartInCpus ==
    ASSUME NEW part \in Parts
    PROVE  PartCpus(part, Topology) \subseteq Cpus
<1>1. CASE part \in {"core"} \X CoreNames
    <2>1. part[1] = "core" /\ part[2] \in CoreNames
        BY <1>1
    <2> QED BY <2>1, TopologyIs DEF PartCpus
<1>2. CASE part[1] # "core"
    <2>1. PartCpus(part, Topology) \subseteq Topology["all-core"]
        BY <1>2 DEF PartCpus
    <2> QED BY <2>1, TopologyIs
<1>3. \/ part[1] = "cpu" \/ part[1] = "span" \/ part \in {"core"} \X CoreNames
    BY DEF Parts
<1> QED BY <1>1, <1>2, <1>3

(* parse_cpu_spec finds the CPUs the text is for. *)
LEMMA TextMeans ==
    ASSUME NEW text \in Seq(Parts)
    PROVE  ParseCpuSpec(text, Topology) = CpusMeant(text)
<1>1. \A i \in DOMAIN text : text[i] \in Parts
    OBVIOUS
<1>2. ParseCpuSpec(text, Topology) \subseteq Cpus
    BY <1>1, PartInCpus DEF ParseCpuSpec
<1>3. ASSUME NEW cpu \in Cpus
      PROVE  cpu \in ParseCpuSpec(text, Topology) <=> cpu \in CpusMeant(text)
    <2>1. \A i \in DOMAIN text :
              cpu \in PartCpus(text[i], Topology) <=> IsFor(text[i], cpu)
        BY <1>1, PartMeans
    <2> QED BY <2>1 DEF ParseCpuSpec, CpusMeant
<1>4. CpusMeant(text) \subseteq Cpus
    BY DEF CpusMeant
<1> QED BY <1>2, <1>3, <1>4

LEMMA SpoiledType ==
    ASSUME NEW text \in Seq(Parts)
    PROVE  Spoiled(text) \in Seq(Parts)
<1>1. ASSUME NEW part \in Parts PROVE Spoilt(part) \in Parts
    <2>1. Cpu(Bad) \in Parts
        BY DEF Cpu, Parts, Numbers
    <2>2. CASE part[1] = "span"
        <3>1. part \in {"span"} \X Numbers \X Numbers
            BY <2>2 DEF Parts
        <3>2. part[2] \in Numbers /\ Bad \in Numbers
            BY <3>1 DEF Numbers
        <3>3. Span(part[2], Bad) \in {"span"} \X Numbers \X Numbers
            BY <3>2 DEF Span
        <3> QED BY <2>2, <3>3 DEF Spoilt, Parts
    <2> QED BY <2>1, <2>2 DEF Spoilt
<1>2. CASE text # <<>>
    <2> DEFINE n == Len(text)
    <2>1. n \in DOMAIN text /\ text[n] \in Parts
        BY <1>2
    <2>2. Spoilt(text[n]) \in Parts
        BY <1>1, <2>1
    <2>3. [text EXCEPT ![n] = Spoilt(text[n])] \in Seq(Parts)
        <3> HIDE DEF n
        <3> QED BY <2>1, <2>2
    <2> QED BY <1>2, <2>3 DEF Spoiled
<1> QED BY <1>2 DEF Spoiled

------------------------------------------------------------------------------
(* What a line adds *)

\* How a rule is held in the configuration.
AsRule(r) ==
    [pkg |-> r.pkg, thread |-> Pattern(r.pattern), cpus |-> r.cpus,
     dir |-> IF Pattern(r.pattern) = <<>> THEN Directory(r.cpus) ELSE {}]

\* The line that would be meant if its CPU text were as it is read.
AsRead(l) == [l EXCEPT !.text = TextRead(l)]

RuleOf(l) == [pkg |-> l.pkg, pattern |-> l.pattern, cpus |-> CpusMeant(l.text)]

LEMMA AsReadType ==
    ASSUME NEW l \in Lines
    PROVE  /\ AsRead(l) \in Lines /\ AsRead(l).text = TextRead(l)
           /\ AsRead(l).form = l.form /\ AsRead(l).pkg = l.pkg
           /\ AsRead(l).pattern = l.pattern
           /\ l.form # "thread-note" => AsRead(l) = l
<1>1. /\ l.text \in Seq(Parts) /\ l.form \in Forms /\ l.pkg \in Seq(Codes)
      /\ l.pattern \in Patterns
    BY DEF Lines
<1>2. TextRead(l) \in Seq(Parts)
    BY <1>1, SpoiledType DEF TextRead
<1>3. l = [form |-> l.form, pkg |-> l.pkg, pattern |-> l.pattern,
           text |-> l.text]
    BY DEF Lines
<1> DEFINE new == TextRead(l)
<1>4. new = TextRead(l)
    OBVIOUS
<1>5. l.form # "thread-note" => new = l.text
    BY DEF TextRead
<1> HIDE DEF new
<1>6. AsRead(l) = [form |-> l.form, pkg |-> l.pkg, pattern |-> l.pattern,
                   text |-> new]
    BY <1>3, <1>4 DEF AsRead, Lines
<1>7. AsRead(l) \in Lines
    BY <1>1, <1>2, <1>4, <1>6 DEF Lines
<1> QED BY <1>3, <1>4, <1>5, <1>6, <1>7

LEMMA LineParts ==
    ASSUME NEW l \in Lines
    PROVE  /\ l.pkg \in Seq(Codes) /\ l.pattern \in Patterns
           /\ l.text \in Seq(Parts) /\ l.form \in Forms
           /\ Pattern(l.pattern) \in Seq(Codes)
           /\ Len(l.pkg) \in Nat /\ Len(Pattern(l.pattern)) \in Nat
<1>1. /\ l.pkg \in Seq(Codes) /\ l.pattern \in Patterns
      /\ l.text \in Seq(Parts) /\ l.form \in Forms
    BY DEF Lines
<1>2. Pattern(l.pattern) \in Seq(Codes)
    BY <1>1, PatternType
<1> DEFINE p == Pattern(l.pattern)
<1>3. Len(l.pkg) \in Nat /\ Len(p) \in Nat
    <2>1. p \in Seq(Codes)
        BY <1>2
    <2> HIDE DEF p
    <2> QED BY <1>1, <2>1
<1> QED BY <1>1, <1>2, <1>3

LEMMA StatedAdds ==
    ASSUME NEW l \in Lines, Stated(l, TextRead(l))
    PROVE  /\ rules' = IF Refused(AsRead(l)) THEN rules
                       ELSE Append(rules, AsRule(RuleOf(AsRead(l))))
           /\ failCnt' = failCnt + (IF Refused(AsRead(l)) THEN 1 ELSE 0)
                         + Abandoned
<1> DEFINE m == AsRead(l)
           thread == Pattern(l.pattern)
           meant == CpusMeant(m.text)
<1>1. /\ m \in Lines /\ m.text = TextRead(l) /\ m.pkg = l.pkg
      /\ m.pattern = l.pattern
    BY AsReadType
<1>2. m.text \in Seq(Parts)
    BY <1>1, LineParts
<1>3. PICK cpus : /\ CpusOf(cpus) = ParseCpuSpec(TextRead(l), Topology)
                  /\ AddRule(l.pkg, thread, cpus, Abandoned)
    BY DEF Stated
<1>4. CpusOf(cpus) = meant
    BY <1>1, <1>2, <1>3, TextMeans
<1>5. Accepts(l.pkg, thread, cpus) <=> ~Refused(m)
    <2>1. Len(l.pkg) \in Nat /\ Len(thread) \in Nat
        BY LineParts
    <2>2. MaxPkgLen \in Nat /\ MaxThreadLen \in Nat
        BY LengthsAssumption
    <2>3. Accepts(l.pkg, thread, cpus) <=>
              /\ Len(l.pkg) < MaxPkgLen /\ Len(thread) < MaxThreadLen
              /\ meant # {}
        BY <1>4 DEF Accepts
    <2>4. Refused(m) <=> \/ meant = {}
                         \/ Len(l.pkg) >= MaxPkgLen
                         \/ Len(thread) >= MaxThreadLen
        BY <1>1 DEF Refused
    <2> HIDE DEF m, thread, meant
    <2> QED BY <2>1, <2>2, <2>3, <2>4
<1>6. AsRule(RuleOf(m)) = [pkg |-> l.pkg, thread |-> thread, cpus |-> meant,
                           dir |-> IF thread = <<>> THEN Directory(meant) ELSE {}]
    BY <1>1 DEF AsRule, RuleOf
<1>7. rules' = IF Refused(m) THEN rules ELSE Append(rules, AsRule(RuleOf(m)))
    <2>1. rules' = WithRule(l.pkg, thread, cpus)
        BY <1>3 DEF AddRule
    <2> HIDE DEF m, thread, meant
    <2> QED BY <1>4, <1>5, <1>6, <2>1 DEF WithRule
<1>8. failCnt' = failCnt + (IF Refused(m) THEN 1 ELSE 0) + Abandoned
    <2> HIDE DEF m, thread
    <2> QED BY <1>3, <1>5 DEF AddRule, Fails
<1> QED BY <1>7, <1>8

Context == [block |-> curPkg, pending |-> pendingPkg]

\* What a step does with the line that is read.
Does(l) ==
    /\ rules' = IF l.form \in Stating /\ ~Refused(AsRead(l))
                THEN Append(rules, AsRule(RuleOf(AsRead(l)))) ELSE rules
    /\ \E more \in Nat : /\ failCnt' = failCnt + more
                         /\ more > 0 <=> Wrong(Context, AsRead(l))

LEMMA StatingDoes ==
    ASSUME NEW l, Stands(l), LineStep, failCnt \in Nat, l.form \in Stating
    PROVE  Does(l)
<1>0. l \in Lines /\ Stated(l, TextRead(l))
    BY LineStates DEF Stands
<1>1. /\ rules' = IF Refused(AsRead(l)) THEN rules
                  ELSE Append(rules, AsRule(RuleOf(AsRead(l))))
      /\ failCnt' = failCnt + (IF Refused(AsRead(l)) THEN 1 ELSE 0) + Abandoned
    BY <1>0, StatedAdds
<1> DEFINE more == (IF Refused(AsRead(l)) THEN 1 ELSE 0) + Abandoned
<1>2. more \in Nat /\ (more > 0 <=> Refused(AsRead(l)) \/ Abandoned = 1)
    BY AbandonedType
<1>3. AsRead(l).form = l.form
    BY <1>0, AsReadType
<1>4. Wrong(Context, AsRead(l)) <=> Refused(AsRead(l)) \/ pendingPkg # <<>>
    BY <1>3 DEF Wrong, Context, Stating, Silent, Lost
<1>5. Abandoned = 1 <=> pendingPkg # <<>>
    BY DEF Abandoned
<1>6. failCnt' = failCnt + more
    BY <1>1, AbandonedType
<1> HIDE DEF more
<1> QED BY <1>1, <1>2, <1>4, <1>5, <1>6 DEF Does

LEMMA SilentDoes ==
    ASSUME NEW l, Stands(l), LineStep, failCnt \in Nat,
           l.form \notin Silent \cup Stating
    PROVE  Does(l)
<1>0. l \in Lines /\ NoRule(Mistakes(l))
    BY LineIsSilent DEF Stands
<1>1. AsRead(l).form = l.form
    BY <1>0, AsReadType
<1>2. Mistakes(l) \in Nat
    BY AbandonedType DEF Mistakes
<1>3. Wrong(Context, AsRead(l)) <=>
          \/ l.form \in Lost \cup {"torn", "no-cpus"}
          \/ l.form = "brace" /\ pendingPkg = <<>>
          \/ l.form # "brace" /\ pendingPkg # <<>>
    BY <1>1 DEF Wrong, Context
<1>4. Abandoned = IF pendingPkg # <<>> THEN 1 ELSE 0
    BY DEF Abandoned
<1>5. Mistakes(l) > 0 <=> Wrong(Context, AsRead(l))
    <2> DEFINE bad == Wrong(Context, AsRead(l))
    <2>1. bad <=> \/ l.form \in Lost \cup {"torn", "no-cpus"}
                  \/ l.form = "brace" /\ pendingPkg = <<>>
                  \/ l.form # "brace" /\ pendingPkg # <<>>
        BY <1>3
    <2> HIDE DEF bad
    <2>2. Mistakes(l) > 0 <=> bad
        BY <1>4, <2>1 DEF Mistakes
    <2> QED BY <2>2 DEF bad
<1>6. rules' = rules /\ failCnt' = failCnt + Mistakes(l)
    BY <1>0 DEF NoRule
<1> QED BY <1>2, <1>5, <1>6 DEF Does

LEMMA BlankDoes ==
    ASSUME NEW l, Stands(l), LineStep, failCnt \in Nat, l.form \in Silent
    PROVE  Does(l) /\ NextLine /\ UNCHANGED <<curPkg, pendingPkg, inBlock>>
<1>0. l \in Lines
    BY DEF Stands
<1>1. BlankLine
    BY ReadsSilent
<1>2. AsRead(l).form = l.form
    BY <1>0, AsReadType
<1>3. ~Wrong(Context, AsRead(l)) /\ l.form \notin Stating
    BY <1>2 DEF Wrong, Stating, Silent, Lost
<1>4. rules' = rules /\ failCnt' = failCnt + 0
    BY <1>1 DEF BlankLine
<1>5. Does(l)
    BY <1>3, <1>4 DEF Does
<1> QED BY <1>1, <1>5 DEF BlankLine

------------------------------------------------------------------------------
(* Where a line stands in its file *)

LastSaid(f, i) ==
    {j \in 1 .. i - 1 : /\ f[j].form \notin Silent
                        /\ \A k \in j + 1 .. i - 1 : f[k].form \in Silent}

LEMMA ContextIs ==
    ASSUME NEW f, NEW i
    PROVE  ContextAt(f, i) = IF LastSaid(f, i) = {} THEN TopLevel
                             ELSE Leaves(f[CHOOSE j \in LastSaid(f, i) : TRUE])
BY DEF ContextAt, LastSaid

LEMMA ContextFirst ==
    ASSUME NEW f PROVE ContextAt(f, 1) = TopLevel
<1>1. LastSaid(f, 1) = {}
    BY DEF LastSaid
<1> QED BY <1>1, ContextIs

LEMMA ContextNext ==
    ASSUME NEW f, NEW i \in Nat \ {0}
    PROVE  ContextAt(f, i + 1) =
               IF f[i].form \in Silent THEN ContextAt(f, i) ELSE Leaves(f[i])
<1>1. CASE f[i].form \notin Silent
    <2>1. i \in LastSaid(f, i + 1)
        BY <1>1 DEF LastSaid
    <2>2. ASSUME NEW j \in LastSaid(f, i + 1) PROVE j = i
        <3>1. /\ j \in 1 .. i
              /\ \A k \in j + 1 .. i : f[k].form \in Silent
            BY DEF LastSaid
        <3>2. j < i => i \in j + 1 .. i
            BY <3>1
        <3> QED BY <1>1, <3>1, <3>2
    <2>3. (CHOOSE j \in LastSaid(f, i + 1) : TRUE) = i
        BY <2>1, <2>2
    <2> QED BY <1>1, <2>1, <2>3, ContextIs
<1>2. CASE f[i].form \in Silent
    <2>1. ASSUME NEW j \in 1 .. i - 1
          PROVE  (\A k \in j + 1 .. i : f[k].form \in Silent)
                 <=> \A k \in j + 1 .. i - 1 : f[k].form \in Silent
        <3>1. \A k \in j + 1 .. i : k = i \/ k \in j + 1 .. i - 1
            OBVIOUS
        <3>2. \A k \in j + 1 .. i - 1 : k \in j + 1 .. i
            OBVIOUS
        <3> QED BY <1>2, <3>1, <3>2
    <2>2. LastSaid(f, i) = {j \in 1 .. i - 1 :
                               /\ f[j].form \notin Silent
                               /\ \A k \in j + 1 .. i : f[k].form \in Silent}
        BY <2>1 DEF LastSaid
    <2>3. LastSaid(f, i + 1) = {j \in 1 .. i :
                                   /\ f[j].form \notin Silent
                                   /\ \A k \in j + 1 .. i : f[k].form \in Silent}
        <3>1. i + 1 - 1 = i
            OBVIOUS
        <3> QED BY <3>1 DEF LastSaid
    <2>4. \A j \in 1 .. i : j = i \/ j \in 1 .. i - 1
        OBVIOUS
    <2>5. \A j \in 1 .. i - 1 : j \in 1 .. i
        OBVIOUS
    <2>6. LastSaid(f, i + 1) = LastSaid(f, i)
        BY <1>2, <2>2, <2>3, <2>4, <2>5
    <2> DEFINE last == LastSaid(f, i)
    <2>7. ContextAt(f, i + 1) = IF last = {} THEN TopLevel
                                ELSE Leaves(f[CHOOSE j \in last : TRUE])
        <3>1. LastSaid(f, i + 1) = last
            BY <2>6
        <3> DEFINE next == LastSaid(f, i + 1)
        <3>2. ContextAt(f, i + 1) = IF next = {} THEN TopLevel
                                    ELSE Leaves(f[CHOOSE j \in next : TRUE])
            BY ContextIs
        <3>3. next = last
            BY <3>1
        <3> HIDE DEF last, next
        <3> QED BY <3>2, <3>3
    <2> QED BY <1>2, <2>7, ContextIs, Zenon
<1> QED BY <1>1, <1>2

\* A line stands where it does whatever comes behind it.
LEMMA ContextCut ==
    ASSUME NEW f, NEW g, NEW i \in Nat, \A j \in 1 .. i - 1 : f[j] = g[j]
    PROVE  ContextAt(f, i) = ContextAt(g, i)
<1>1. \A j \in 1 .. i - 1 : \A k \in j + 1 .. i - 1 : k \in 1 .. i - 1
    OBVIOUS
<1>2. ASSUME NEW j \in 1 .. i - 1
      PROVE  j \in LastSaid(f, i) <=> j \in LastSaid(g, i)
    <2>1. \A k \in j + 1 .. i - 1 : f[k] = g[k]
        BY <1>1
    <2> QED BY <2>1 DEF LastSaid
<1>3. LastSaid(f, i) = LastSaid(g, i)
    <2>1. LastSaid(f, i) \subseteq 1 .. i - 1 /\ LastSaid(g, i) \subseteq 1 .. i - 1
        BY DEF LastSaid
    <2> QED BY <1>2, <2>1
<1> DEFINE last == LastSaid(f, i)
<1>4. CASE last # {}
    <2> DEFINE j == CHOOSE k \in last : TRUE
    <2>1. j \in last
        BY <1>4
    <2>2. f[j] = g[j]
        <3>1. last \subseteq 1 .. i - 1
            BY DEF LastSaid
        <3> HIDE DEF j
        <3> QED BY <2>1, <3>1
    <2> QED BY <1>3, <1>4, <2>2, ContextIs
<1> QED BY <1>3, <1>4, ContextIs

------------------------------------------------------------------------------
(* What is so of every file *)

GoodRules ==
    {r \in [pkg : Seq(Codes), thread : Seq(Codes), cpus : SUBSET Cpus,
            dir : SUBSET Cpus] : r.cpus # {} /\ r.dir \in {{}, r.cpus}}

FileOK ==
    /\ file \in Seq(Lines) /\ lines = [i \in DOMAIN file |-> Tokens(file[i])]
    /\ \A i \in DOMAIN file : Fits(ContextAt(file, i), file[i])

StateOK ==
    /\ at \in 1 .. Len(file) + 1
    /\ failCnt \in Nat /\ loaded \in BOOLEAN
    /\ curPkg \in Seq(Codes) /\ pendingPkg \in Seq(Codes)
    /\ inBlock = (curPkg # <<>>)
    /\ curPkg = <<>> \/ pendingPkg = <<>>
    /\ Context = ContextAt(file, at)
    /\ loaded => at = Len(file) + 1

RulesOK == rules \in Seq(GoodRules)

TInv == FileOK /\ StateOK /\ RulesOK

LEMMA FileInit == Init => FileOK
<1> SUFFICES ASSUME Init PROVE FileOK
    OBVIOUS
<1>1. PICK whole \in Files : \E end \in 0 .. Len(whole) :
              file = SubSeq(whole, 1, end)
    BY DEF Init
<1>2. whole \in Seq(Lines)
      /\ \A i \in DOMAIN whole : Fits(ContextAt(whole, i), whole[i])
    BY FilesAssumption
<1>3. PICK end \in 0 .. Len(whole) : file = SubSeq(whole, 1, end)
    BY <1>1
<1>4. /\ file \in Seq(Lines) /\ Len(file) = end /\ end \in Nat
      /\ \A i \in 1 .. end : file[i] = whole[i]
    BY <1>2, <1>3
<1>5. ASSUME NEW i \in 1 .. end
      PROVE  Fits(ContextAt(file, i), file[i])
    <2>1. \A j \in 1 .. i - 1 : j \in 1 .. end
        BY <1>4
    <2>2. ContextAt(file, i) = ContextAt(whole, i)
        BY <1>4, <2>1, ContextCut
    <2>3. i \in DOMAIN whole
        BY <1>2, <1>3
    <2> QED BY <1>2, <1>4, <2>2, <2>3
<1>6. DOMAIN file = 1 .. end
    BY <1>4
<1> QED BY <1>4, <1>5, <1>6 DEF FileOK, Init

LEMMA StateInit == Init => StateOK /\ RulesOK
<1> SUFFICES ASSUME Init PROVE StateOK /\ RulesOK
    OBVIOUS
<1>1. /\ at = 1 /\ rules = <<>> /\ failCnt = 0 /\ curPkg = <<>>
      /\ pendingPkg = <<>> /\ inBlock = FALSE /\ loaded = FALSE
    BY DEF Init, ParserInit
<1>2. Context = TopLevel /\ ContextAt(file, 1) = TopLevel
    BY <1>1, ContextFirst DEF Context, TopLevel
<1>3. file \in Seq(Lines)
    BY FileInit DEF FileOK
<1>4. StateOK
    <2>1. 1 \in 1 .. Len(file) + 1
        BY <1>3
    <2>2. <<>> \in Seq(Codes)
        OBVIOUS
    <2> QED BY <1>1, <1>2, <2>1, <2>2 DEF StateOK
<1>5. RulesOK
    BY <1>1 DEF RulesOK
<1> QED BY <1>4, <1>5

LEMMA LinesLength ==
    ASSUME FileOK
    PROVE  Len(lines) = Len(file) /\ Len(file) \in Nat /\ DOMAIN file = 1 .. Len(file)
BY DEF FileOK

LEMMA LineRead ==
    ASSUME FileOK, StateOK, LineStep
    PROVE  at \in 1 .. Len(file) /\ file[at] \in Lines /\ Stands(file[at])
<1>1. at <= Len(lines)
    BY DEF LineStep, BlankLine, BlockLine, PlainLine, Outside, ThreadLine,
           OpenLine, RuleAndBlockLine, PendingLine, RuleLine
<1>2. at \in 1 .. Len(file)
    BY <1>1, LinesLength DEF StateOK
<1>3. at \in DOMAIN file /\ file[at] \in Lines
    BY <1>2 DEF FileOK
<1>4. Line = Tokens(file[at])
    BY <1>3 DEF FileOK, Line
<1>5. Fits([block |-> curPkg, pending |-> pendingPkg], file[at])
    <2>1. Fits(Context, file[at])
        BY <1>3 DEF FileOK, StateOK
    <2> QED BY <2>1 DEF Context
<1>6. inBlock = (curPkg # <<>>) /\ (curPkg # <<>> => pendingPkg = <<>>)
    BY DEF StateOK
<1> QED BY <1>1, <1>2, <1>3, <1>4, <1>5, <1>6 DEF Stands

LEMMA LineDoes ==
    ASSUME NEW l, Stands(l), LineStep, failCnt \in Nat
    PROVE  Does(l)
BY BlankDoes, SilentDoes, StatingDoes

LEMMA RuleIsGood ==
    ASSUME NEW l \in Lines, ~Refused(l)
    PROVE  AsRule(RuleOf(l)) \in GoodRules
<1>1. /\ l.pkg \in Seq(Codes) /\ Pattern(l.pattern) \in Seq(Codes)
    BY LineParts
<1>2. CpusMeant(l.text) \in SUBSET Cpus /\ CpusMeant(l.text) # {}
    BY DEF CpusMeant, Refused
<1> DEFINE cpus == CpusMeant(l.text)
           thread == Pattern(l.pattern)
           dir == IF thread = <<>> THEN Directory(cpus) ELSE {}
<1>3. dir \in {{}, cpus}
    BY DEF Directory
<1>4. AsRule(RuleOf(l)) = [pkg |-> l.pkg, thread |-> thread, cpus |-> cpus,
                           dir |-> dir]
    BY DEF AsRule, RuleOf
<1>5. cpus \in SUBSET Cpus /\ cpus # {} /\ thread \in Seq(Codes)
    BY <1>1, <1>2
<1> HIDE DEF cpus, thread, dir
<1> QED BY <1>1, <1>3, <1>4, <1>5 DEF GoodRules

LEMMA LineKeepsRules ==
    ASSUME TInv, LineStep
    PROVE  RulesOK' /\ failCnt' \in Nat
<1> DEFINE l == file[at]
           r == AsRule(RuleOf(AsRead(l)))
<1>1. l \in Lines /\ Stands(l) /\ failCnt \in Nat
    BY LineRead DEF TInv, StateOK
<1>2. Does(l)
    BY <1>1, LineDoes
<1>3. AsRead(l) \in Lines
    BY <1>1, AsReadType
<1> HIDE DEF l
<1>4. \/ rules' = rules
      \/ ~Refused(AsRead(l)) /\ rules' = Append(rules, r)
    <2>1. rules' = IF l.form \in Stating /\ ~Refused(AsRead(l))
                   THEN Append(rules, r) ELSE rules
        BY <1>2 DEF Does
    <2> HIDE DEF r
    <2> QED BY <2>1, Zenon
<1>5. ~Refused(AsRead(l)) => r \in GoodRules
    BY <1>3, RuleIsGood
<1>6. rules \in Seq(GoodRules)
    BY DEF TInv, RulesOK
<1> HIDE DEF r
<1>7. rules' \in Seq(GoodRules)
    BY <1>4, <1>5, <1>6
<1>8. failCnt' \in Nat
    BY <1>1, <1>2 DEF Does
<1> QED BY <1>7, <1>8 DEF RulesOK

LEMMA LineKeepsState ==
    ASSUME TInv, LineStep, UNCHANGED file
    PROVE  StateOK' /\ at' = at + 1 /\ loaded' = loaded
<1> DEFINE l == file[at]
<1>1. /\ at \in 1 .. Len(file) /\ l \in Lines /\ Stands(l)
      /\ Len(file) \in Nat /\ failCnt \in Nat /\ loaded \in BOOLEAN
      /\ loaded => at = Len(file) + 1
    BY LineRead, LinesLength DEF TInv, StateOK
<1>2. failCnt' \in Nat
    BY LineKeepsRules
<1>3. l.pkg \in Seq(Codes)
    BY <1>1, LineParts
<1>4. ContextAt(file, at + 1) =
          IF l.form \in Silent THEN ContextAt(file, at) ELSE Leaves(l)
    BY <1>1, ContextNext
<1>5. CASE l.form \in Silent
    <2>1. NextLine /\ UNCHANGED <<curPkg, pendingPkg, inBlock>>
        BY <1>1, <1>5, BlankDoes
    <2>2. Context' = ContextAt(file, at + 1)
        BY <1>4, <1>5, <2>1 DEF Context, TInv, StateOK
    <2>3. at' = at + 1 /\ loaded' = loaded /\ file' = file /\ loaded = FALSE
        BY <1>1, <2>1 DEF NextLine
    <2>4. at' \in 1 .. Len(file') + 1
        BY <1>1, <2>3
    <2>5. Context' = ContextAt(file', at')
        BY <2>2, <2>3
    <2>6. /\ curPkg' \in Seq(Codes) /\ pendingPkg' \in Seq(Codes)
          /\ inBlock' = (curPkg' # <<>>)
          /\ curPkg' = <<>> \/ pendingPkg' = <<>>
        BY <2>1 DEF TInv, StateOK
    <2> QED BY <1>2, <2>3, <2>4, <2>5, <2>6 DEF StateOK
<1>6. CASE l.form \notin Silent
    <2>1. Goes(Leaves(l).block, Leaves(l).pending)
        BY <1>1, <1>6, LineGoes
    <2>2. /\ Leaves(l) = [block |-> Leaves(l).block, pending |-> Leaves(l).pending]
          /\ Leaves(l).block = <<>> \/ Leaves(l).pending = <<>>
          /\ Leaves(l).block \in {<<>>, l.pkg}
          /\ Leaves(l).pending \in {<<>>, l.pkg}
        BY LeavesIs
    <2>3. /\ curPkg' = Leaves(l).block /\ pendingPkg' = Leaves(l).pending
          /\ inBlock' = (curPkg' # <<>>)
          /\ at' = at + 1 /\ loaded' = loaded /\ file' = file /\ loaded = FALSE
        BY <1>1, <2>1 DEF Goes, NextLine
    <2>4. Context' = ContextAt(file', at')
        BY <1>4, <1>6, <2>2, <2>3 DEF Context
    <2>5. at' \in 1 .. Len(file') + 1
        BY <1>1, <2>3
    <2>6. curPkg' \in Seq(Codes) /\ pendingPkg' \in Seq(Codes)
        <3>1. <<>> \in Seq(Codes)
            OBVIOUS
        <3> QED BY <1>3, <2>2, <2>3, <3>1
    <2> QED BY <1>2, <2>2, <2>3, <2>4, <2>5, <2>6 DEF StateOK
<1>7. at' = at + 1 /\ loaded' = loaded
    <2>1. NextLine
        BY <1>1, BlankDoes, LineGoes DEF Goes
    <2> QED BY <2>1 DEF NextLine
<1> QED BY <1>5, <1>6, <1>7

LEMMA FileKept ==
    ASSUME TInv, Next \/ UNCHANGED vars
    PROVE  FileOK' /\ file' = file /\ lines' = lines
<1>1. file' = file /\ lines' = lines
    BY DEF Next, Reading, InUse, vars, parserVars, NextLine, BlankLine,
           BlockLine, PlainLine, ThreadLine, OpenLine, RuleAndBlockLine,
           PendingLine, RuleLine, EndOfFile
<1> QED BY <1>1 DEF TInv, FileOK

LEMMA TInvStep ==
    ASSUME TInv, Next \/ UNCHANGED vars
    PROVE  TInv'
<1>0. FileOK' /\ file' = file
    BY FileKept
<1>1. CASE LineStep
    BY <1>0, <1>1, LineKeepsRules, LineKeepsState DEF TInv
<1>2. CASE EndOfFile
    <2>1. /\ at' = at /\ curPkg' = curPkg /\ pendingPkg' = pendingPkg
          /\ inBlock' = inBlock /\ rules' = rules /\ loaded' = TRUE
          /\ at = Len(file) + 1
        BY <1>2, LinesLength DEF EndOfFile, NoRule, TInv
    <2>2. failCnt' \in Nat
        BY <1>2 DEF EndOfFile, NoRule, TInv, StateOK
    <2>3. RulesOK'
        BY <2>1 DEF TInv, RulesOK
    <2>4. StateOK'
        BY <1>0, <2>1, <2>2 DEF TInv, StateOK, Context
    <2> QED BY <1>0, <2>3, <2>4 DEF TInv
<1>3. CASE UNCHANGED parserVars
    <2>1. RulesOK'
        BY <1>3 DEF TInv, RulesOK, parserVars
    <2>2. StateOK'
        BY <1>0, <1>3 DEF TInv, StateOK, Context, parserVars
    <2> QED BY <1>0, <2>1, <2>2 DEF TInv
<1> QED BY <1>1, <1>2, <1>3 DEF Next, LineStep, InUse, vars

LEMMA TInvAlways == Spec => []TInv
<1>1. Init => TInv
    BY FileInit, StateInit DEF TInv
<1>2. TInv /\ [Next]_vars => TInv'
    BY TInvStep
<1> QED BY <1>1, <1>2, PTL DEF Spec

------------------------------------------------------------------------------
(* What holds of the rules, whatever is written *)

(* All the time the parser's state is of its type: a rule held has CPUs, of *)
(* the phone, and its directory is one of those very CPUs or none.          *)
THEOREM ParserTypesAlways == Spec => []TypeOK
<1>1. TInv => TypeOK
    <2> SUFFICES ASSUME TInv PROVE TypeOK
        OBVIOUS
    <2>1. /\ at \in 1 .. Len(lines) + 1 /\ failCnt \in Nat
          /\ curPkg \in Seq(Codes) /\ pendingPkg \in Seq(Codes)
          /\ inBlock \in BOOLEAN /\ loaded \in BOOLEAN
        BY LinesLength DEF TInv, StateOK
    <2>2. ASSUME NEW i \in DOMAIN rules
          PROVE  /\ rules[i].pkg \in Seq(Codes) /\ rules[i].thread \in Seq(Codes)
                 /\ rules[i].cpus # {} /\ rules[i].cpus \subseteq Cpus
                 /\ rules[i].dir \in {{}, rules[i].cpus}
        <3>1. rules[i] \in GoodRules
            BY DEF TInv, RulesOK
        <3> QED BY <3>1 DEF GoodRules
    <2> QED BY <2>1, <2>2 DEF TypeOK
<1> QED BY <1>1, TInvAlways, PTL

LEMMA RuleGood ==
    ASSUME TInv
    PROVE  /\ \A i \in DOMAIN rules : rules[i] \in GoodRules
           /\ IsFiniteSet(DOMAIN rules)
<1>1. rules \in Seq(GoodRules)
    BY DEF TInv, RulesOK
<1>2. DOMAIN rules = 1 .. Len(rules) /\ Len(rules) \in Nat
    BY <1>1
<1>3. IsFiniteSet(DOMAIN rules)
    BY <1>2, FS_Interval
<1> QED BY <1>1, <1>3

LEMMA OwnDirectory ==
    ASSUME TInv, NEW own \in SUBSET (DOMAIN rules)
    PROVE  PkgDirectory(own) \in {{}, CpusOfRules(own)}
<1>1. CASE Cardinality(own) = 1
    <2>1. IsFiniteSet(own)
        BY RuleGood, FS_Subset
    <2>2. PICK i : own = {i}
        BY <1>1, <2>1, FS_Singleton
    <2>3. (CHOOSE j \in own : TRUE) = i
        BY <2>2
    <2>4. PkgDirectory(own) = rules[i].dir
        BY <1>1, <2>3 DEF PkgDirectory
    <2>5. CpusOfRules(own) = rules[i].cpus
        BY <2>2 DEF CpusOfRules
    <2>6. rules[i] \in GoodRules
        BY <2>2, RuleGood
    <2> QED BY <2>4, <2>5, <2>6 DEF GoodRules
<1>2. CASE Cardinality(own) # 1
    BY <1>2 DEF PkgDirectory
<1> QED BY <1>1, <1>2

(* Whatever rules a file has, and whichever directories could be made, a      *)
(* thread is never put into a cpuset directory with other CPUs than the ones  *)
(* it is bound to: not even when several rules for its package are joined.    *)
THEOREM DirectoryAlwaysFits == Spec => []DirectoryFits
<1>1. TInv => DirectoryFits
    <2> SUFFICES ASSUME TInv, NEW pkg, NEW name
                 PROVE  ThreadAffinity(pkg, name).dir
                            \in {{}, ThreadAffinity(pkg, name).cpus}
        BY DEF DirectoryFits
    <2> DEFINE matched == ThreadRulesMatched(pkg, name)
               own == PkgRules(pkg)
    <2>1. own \in SUBSET (DOMAIN rules)
        BY DEF PkgRules
    <2>2. PkgDirectory(own) \in {{}, CpusOfRules(own)}
        BY <2>1, OwnDirectory
    <2>3. Directory(CpusOfRules(matched)) \in {{}, CpusOfRules(matched)}
        BY DEF Directory
    <2>4. ThreadAffinity(pkg, name) \in
              {[cpus |-> CpusOfRules(matched),
                dir |-> Directory(CpusOfRules(matched)), isThreadRule |-> TRUE],
               [cpus |-> CpusOfRules(own), dir |-> PkgDirectory(own),
                isThreadRule |-> FALSE],
               [cpus |-> Topology["all-core"], dir |-> {}, isThreadRule |-> FALSE],
               [cpus |-> {}, dir |-> {}, isThreadRule |-> FALSE]}
        BY DEF ThreadAffinity, NoAffinity
    <2> DEFINE a == ThreadAffinity(pkg, name)
    <2>5. \/ a.cpus = CpusOfRules(matched) /\ a.dir = Directory(CpusOfRules(matched))
          \/ a.cpus = CpusOfRules(own) /\ a.dir = PkgDirectory(own)
          \/ a.dir = {}
        <3> HIDE DEF matched, own, a
        <3> QED BY <2>4 DEF a
    <2> QED BY <2>2, <2>3, <2>5
<1> QED BY <1>1, TInvAlways, PTL

------------------------------------------------------------------------------
(* Names *)

LEMMA NameLenIs ==
    NameLen \in Nat /\ KeyLen \in Nat /\ KeyLen <= NameLen /\ NameLen >= 1
BY KeyLenAssumption DEF NameLen

LEMMA BeginningIs ==
    ASSUME NEW T, NEW s \in Seq(T), NEW t \in Seq(T)
    PROVE  IsPrefix(s, t) <=> Len(s) <= Len(t) /\ s = SubSeq(t, 1, Len(s))
<1>1. SubSeq(s, 1, Len(s)) = s
    OBVIOUS
<1> QED BY <1>1 DEF IsPrefix

LEMMA SameElements ==
    ASSUME NEW T, NEW u \in Seq(T), NEW v \in Seq(T), Len(u) = Len(v)
    PROVE  u = v <=> \A k \in 1 .. Len(u) : u[k] = v[k]
OBVIOUS

LEMMA EndIs ==
    ASSUME NEW T, NEW s \in Seq(T), NEW t \in Seq(T)
    PROVE  IsSuffix(s, t) <=> /\ Len(s) <= Len(t)
                              /\ s = SubSeq(t, Len(t) - Len(s) + 1, Len(t))
<1> DEFINE rs == Reverse(s)
           rt == Reverse(t)
           m == Len(s)
           n == Len(t)
           d == n - m
<1>1. /\ rs \in Seq(T) /\ Len(rs) = m /\ m \in Nat
      /\ rt \in Seq(T) /\ Len(rt) = n /\ n \in Nat
      /\ \A k \in 1 .. m : rs[k] = s[m - k + 1]
      /\ \A k \in 1 .. n : rt[k] = t[n - k + 1]
    BY DEF Reverse
<1>2. IsSuffix(s, t) <=> m <= n /\ rs = SubSeq(rt, 1, m)
    BY <1>1, BeginningIs DEF IsSuffix
<1> HIDE DEF rs, rt
<1> SUFFICES ASSUME m <= n
             PROVE  rs = SubSeq(rt, 1, m) <=> s = SubSeq(t, d + 1, n)
    BY <1>2
<1>3. rs = SubSeq(rt, 1, m) <=> \A k \in 1 .. m : rs[k] = rt[k]
    <2>1. /\ SubSeq(rt, 1, m) \in Seq(T) /\ Len(SubSeq(rt, 1, m)) = m
          /\ \A k \in 1 .. m : SubSeq(rt, 1, m)[k] = rt[k]
        BY <1>1
    <2> DEFINE sub == SubSeq(rt, 1, m)
    <2> HIDE DEF sub
    <2> QED BY <1>1, <2>1 DEF sub
<1>4. s = SubSeq(t, d + 1, n) <=> \A k \in 1 .. m : s[k] = t[d + k]
    <2>1. d \in 0 .. n /\ n - d = m
        BY <1>1
    <2> DEFINE sub == SubSeq(t, d + 1, n)
    <2>2. sub \in Seq(T) /\ Len(sub) = m /\ \A k \in 1 .. m : sub[k] = t[d + k]
        <3>1. \A k \in 1 .. m : d + 1 + k - 1 = d + k
            BY <2>1
        <3>2. /\ sub \in Seq(T) /\ Len(sub) = n - d
              /\ \A k \in 1 .. n - d : sub[k] = t[d + 1 + k - 1]
            <4> HIDE DEF d
            <4> QED BY <1>1, <2>1
        <3> HIDE DEF sub, d
        <3> QED BY <2>1, <3>1, <3>2
    <2>3. sub = SubSeq(t, d + 1, n)
        OBVIOUS
    <2>4. s = sub <=> \A k \in 1 .. m : s[k] = t[d + k]
        <3>1. s = sub <=> \A k \in 1 .. m : s[k] = sub[k]
            <4> HIDE DEF sub
            <4> QED BY <2>2, SameElements
        <3> HIDE DEF sub, d
        <3> QED BY <2>2, <3>1
    <2> QED BY <2>3, <2>4
<1>5. ASSUME NEW k \in 1 .. m
      PROVE  /\ m - k + 1 \in 1 .. m
             /\ rs[m - k + 1] = s[k] /\ rt[m - k + 1] = t[d + k]
    <2>1. /\ m - k + 1 \in 1 .. m /\ m - k + 1 \in 1 .. n
          /\ m - (m - k + 1) + 1 = k /\ n - (m - k + 1) + 1 = d + k
        BY <1>1
    <2>2. /\ rs[m - k + 1] = s[m - (m - k + 1) + 1]
          /\ rt[m - k + 1] = t[n - (m - k + 1) + 1]
        <3> HIDE DEF m, n
        <3> QED BY <1>1, <2>1
    <2> QED BY <2>1, <2>2
<1>6. (\A k \in 1 .. m : rs[k] = rt[k]) <=> \A k \in 1 .. m : s[k] = t[d + k]
    <2>1. ASSUME \A k \in 1 .. m : rs[k] = rt[k], NEW k \in 1 .. m
          PROVE  s[k] = t[d + k]
        BY <1>5, <2>1
    <2>2. ASSUME \A k \in 1 .. m : s[k] = t[d + k], NEW k \in 1 .. m
          PROVE  rs[k] = rt[k]
        <3> DEFINE j == m - k + 1
        <3>1. j \in 1 .. m /\ m - j + 1 = k
            BY <1>1
        <3>2. rs[m - j + 1] = s[j] /\ rt[m - j + 1] = t[d + j]
            <4> HIDE DEF j, d
            <4> QED BY <1>5, <3>1
        <3> HIDE DEF j, d
        <3> QED BY <2>2, <3>1, <3>2
    <2> QED BY <2>1, <2>2
<1> QED BY <1>3, <1>4, <1>6

LEMMA PackagesAreNames ==
    ASSUME TInv PROVE Pkgs \in SUBSET Seq(Codes)
BY RuleGood DEF Pkgs, GoodRules

\* A name the kernel keeps of a package is short, and the package's beginning
\* or end.
LEMMA KernelNamesAre ==
    ASSUME NEW pkg \in Seq(Codes), NEW comm \in KernelNames(pkg)
    PROVE  /\ comm \in Seq(Codes) /\ Len(comm) <= NameLen
           /\ Len(pkg) <= NameLen => comm = pkg
           /\ Len(pkg) > NameLen => /\ Len(comm) = NameLen
                                    /\ IsPrefix(comm, pkg) \/ IsSuffix(comm, pkg)
<1> DEFINE n == Len(pkg)
           front == SubSeq(pkg, 1, NameLen)
           back == SubSeq(pkg, n - NameLen + 1, n)
<1>1. n \in Nat /\ NameLen \in Nat
    BY NameLenIs
<1>2. CASE n <= NameLen
    BY <1>1, <1>2 DEF KernelNames
<1>3. CASE ~ (n <= NameLen)
    <2>1. comm \in {front, back}
        BY <1>3 DEF KernelNames
    <2>2. front \in Seq(Codes) /\ Len(front) = NameLen
        BY <1>1, <1>3
    <2>3. back \in Seq(Codes) /\ Len(back) = NameLen
        BY <1>1, <1>3
    <2>4. IsPrefix(front, pkg)
        <3>1. Len(front) <= n /\ front = SubSeq(pkg, 1, Len(front))
            BY <1>1, <1>3, <2>2
        <3> HIDE DEF front
        <3> QED BY <2>2, <3>1, BeginningIs
    <2>5. IsSuffix(back, pkg)
        <3>1. Len(back) <= n /\ back = SubSeq(pkg, n - Len(back) + 1, n)
            BY <1>1, <1>3, <2>3
        <3> HIDE DEF back
        <3> QED BY <2>3, <3>1, EndIs
    <2> HIDE DEF front, back
    <2>6. /\ comm \in Seq(Codes) /\ Len(comm) = NameLen
          /\ IsPrefix(comm, pkg) \/ IsSuffix(comm, pkg)
        BY <2>1, <2>2, <2>3, <2>4, <2>5
    <2> QED BY <1>1, <1>3, <2>6
<1> QED BY <1>2, <1>3

\* Who begins, or ends, with a name of full length may have it.
LEMMA EdgeIsKernelName ==
    ASSUME NEW p \in Seq(Codes), NEW comm \in Seq(Codes), Len(comm) = NameLen,
           IsPrefix(comm, p) \/ IsSuffix(comm, p)
    PROVE  comm \in KernelNames(p)
<1> DEFINE n == Len(p)
<1>1. /\ NameLen <= n /\ n \in Nat /\ NameLen \in Nat
      /\ \/ comm = SubSeq(p, 1, NameLen)
         \/ comm = SubSeq(p, n - NameLen + 1, n)
    <2>1. Len(comm) = NameLen /\ n \in Nat /\ NameLen \in Nat
        BY NameLenIs
    <2>2. CASE IsPrefix(comm, p)
        <3>1. Len(comm) <= n /\ comm = SubSeq(p, 1, Len(comm))
            BY <2>2, BeginningIs
        <3> QED BY <2>1, <3>1
    <2>3. CASE IsSuffix(comm, p)
        <3>1. Len(comm) <= n /\ comm = SubSeq(p, n - Len(comm) + 1, n)
            BY <2>3, EndIs
        <3> QED BY <2>1, <3>1
    <2> QED BY <2>2, <2>3
<1>2. CASE n = NameLen
    <2>1. SubSeq(p, 1, NameLen) = p /\ SubSeq(p, n - NameLen + 1, n) = p
        <3>1. n - NameLen + 1 = 1
            BY <1>1, <1>2
        <3>2. SubSeq(p, 1, n) = p
            OBVIOUS
        <3> QED BY <1>2, <3>1, <3>2
    <2> QED BY <1>1, <1>2, <2>1 DEF KernelNames
<1>3. CASE n # NameLen
    <2>1. ~ (n <= NameLen)
        BY <1>1, <1>3
    <2>2. KernelNames(p) = {SubSeq(p, 1, NameLen), SubSeq(p, n - NameLen + 1, n)}
        BY <2>1 DEF KernelNames
    <2> QED BY <1>1, <2>2
<1> QED BY <1>2, <1>3

(* Of whatever packages a file lists, the main thread of each is recognised by *)
(* the name the kernel keeps of it, as this package or as another that the     *)
(* kernel could have given the same name; it is never missed, and never taken  *)
(* for one that could not have it.                                             *)
THEOREM AppsAlwaysRecognised == Spec => []AppsRecognised
<1>1. TInv => AppsRecognised
    <2> SUFFICES ASSUME TInv, NEW pkg \in Pkgs, NEW comm \in KernelNames(pkg)
                 PROVE  /\ CommToPkg(comm, Pkgs) # {}
                        /\ \A p \in CommToPkg(comm, Pkgs) : comm \in KernelNames(p)
        BY DEF AppsRecognised
    <2>1. \A p \in Pkgs : p \in Seq(Codes)
        BY PackagesAreNames
    <2>2. /\ comm \in Seq(Codes) /\ Len(comm) <= NameLen
          /\ Len(pkg) <= NameLen => comm = pkg
          /\ Len(pkg) > NameLen => /\ Len(comm) = NameLen
                                   /\ IsPrefix(comm, pkg) \/ IsSuffix(comm, pkg)
        BY <2>1, KernelNamesAre
    <2>3. CASE comm \in Pkgs
        <3>1. CommToPkg(comm, Pkgs) = {comm}
            BY <2>3 DEF CommToPkg
        <3>2. comm \in KernelNames(comm)
            BY <2>2 DEF KernelNames
        <3> QED BY <3>1, <3>2
    <2>4. CASE comm \notin Pkgs
        <3>1. Len(pkg) > NameLen
            BY <2>1, <2>2, <2>4, NameLenIs
        <3>2. Len(comm) = NameLen /\ ~ (Len(comm) < NameLen)
            BY <2>2, <3>1, NameLenIs
        <3> DEFINE begin == {p \in Pkgs : IsPrefix(comm, p)}
                   end == {p \in Pkgs : IsSuffix(comm, p)}
        <3>3. CommToPkg(comm, Pkgs) = IF begin # {} THEN begin ELSE end
            BY <2>4, <3>2 DEF CommToPkg
        <3>4. pkg \in begin \/ pkg \in end
            BY <2>2, <3>1
        <3>5. \A p \in begin \cup end : comm \in KernelNames(p)
            BY <2>1, <2>2, <3>2, EdgeIsKernelName
        <3> HIDE DEF begin, end
        <3> QED BY <3>3, <3>4, <3>5
    <2> QED BY <2>3, <2>4
<1> QED BY <1>1, TInvAlways, PTL

(* Of whatever packages a file lists, the kernel's whitelist lets through the  *)
(* events of every thread whose name the daemon would recognise: the names     *)
(* threads have and those the kernel keeps of the packages.                    *)
THEOREM FilterAlwaysPasses == Spec => []FilterPassesListed
<1>1. TInv => FilterPassesListed
    <2> SUFFICES ASSUME TInv,
                        NEW comm \in Threads \cup UNION {KernelNames(p) : p \in Pkgs},
                        comm # <<>>, CommToPkg(comm, Pkgs) # {}
                 PROVE  WhitelistMatched(comm, CommKeys(Pkgs))
        BY DEF FilterPassesListed
    <2>1. \A p \in Pkgs : p \in Seq(Codes)
        BY PackagesAreNames
    <2>2. comm \in Seq(Codes) /\ Len(comm) <= NameLen
        <3>1. CASE comm \in Threads
            BY <3>1, ThreadsAssumption
        <3>2. CASE comm \notin Threads
            <4>1. PICK p \in Pkgs : comm \in KernelNames(p)
                BY <3>2
            <4> QED BY <2>1, <4>1, KernelNamesAre
        <3> QED BY <3>1, <3>2
    <2>3. comm \in Names /\ Pkgs \in SUBSET Names
        BY <2>1, <2>2, BytesAreNumbers DEF Names
    <2> QED BY <2>2, <2>3, FilterPassesRecognised
<1> QED BY <1>1, TInvAlways, PTL

------------------------------------------------------------------------------
(* Sequences that grow *)

LEMMA FlattenAppend ==
    ASSUME NEW T, NEW seqs \in Seq(Seq(T)), NEW s \in Seq(T)
    PROVE  FlattenSeq(Append(seqs, s)) = FlattenSeq(seqs) \o s
<1> DEFINE n == Len(seqs)
           all == Append(seqs, s)
<1>1. /\ n \in Nat /\ all \in Seq(Seq(T)) /\ Len(all) = n + 1
      /\ all[n + 1] = s /\ \A i \in 1 .. n : all[i] = seqs[i]
    OBVIOUS
<1> HIDE DEF all
<1>2. PICK g \in [1 .. n + 1 -> Seq(T)] :
          /\ g = [i \in 1 .. n + 1 |-> IF i = 1 THEN all[i] ELSE g[i - 1] \o all[i]]
          /\ FlattenSeq(all) = g[n + 1]
    <2>1. Len(all) # 0
        BY <1>1
    <2>2. \E g \in [1 .. Len(all) -> Seq(T)] :
              /\ g = [i \in 1 .. Len(all) |->
                         IF i = 1 THEN all[i] ELSE g[i - 1] \o all[i]]
              /\ FlattenSeq(all) = g[Len(all)]
        BY <1>1, <2>1, FlattenFunction
    <2> HIDE DEF n
    <2> QED BY <1>1, <2>2, Zenon
<1>3. \A i \in 1 .. n + 1 : g[i] = IF i = 1 THEN all[i] ELSE g[i - 1] \o all[i]
    <2> HIDE DEF n
    <2> QED BY <1>2
<1>4. CASE n = 0
    <2>1. g[1] = all[1] /\ all[1] = s
        BY <1>1, <1>3, <1>4
    <2>2. seqs = <<>> /\ FlattenSeq(seqs) = seqs
        BY <1>4 DEF FlattenSeq
    <2>3. <<>> \o s = s
        OBVIOUS
    <2> QED BY <1>2, <1>4, <2>1, <2>2, <2>3 DEF all
<1>5. CASE n # 0
    <2>1. PICK f \in [1 .. n -> Seq(T)] :
              /\ f = [i \in 1 .. n |-> IF i = 1 THEN seqs[i] ELSE f[i - 1] \o seqs[i]]
              /\ FlattenSeq(seqs) = f[n]
        BY <1>5, FlattenFunction
    <2>2. \A i \in 1 .. n : f[i] = IF i = 1 THEN seqs[i] ELSE f[i - 1] \o seqs[i]
        <3> HIDE DEF n
        <3> QED BY <2>1
    <2> DEFINE S == {k \in Nat : k \in 1 .. n => f[k] = g[k]}
    <2>3. 0 \in S
        OBVIOUS
    <2>4. ASSUME NEW k \in Nat, k \in S PROVE k + 1 \in S
        <3> SUFFICES ASSUME k + 1 \in 1 .. n PROVE f[k + 1] = g[k + 1]
            OBVIOUS
        <3>1. k + 1 \in 1 .. n + 1 /\ k + 1 - 1 = k /\ all[k + 1] = seqs[k + 1]
            BY <1>1
        <3>2. CASE k = 0
            <4>1. k + 1 = 1
                BY <3>2
            <4> QED BY <1>3, <2>2, <3>1, <4>1
        <3>3. CASE k # 0
            <4>1. k \in 1 .. n /\ k + 1 # 1
                BY <3>3
            <4>2. f[k] = g[k]
                BY <2>4, <4>1
            <4> DEFINE i == k + 1
            <4>3. i \in 1 .. n /\ i \in 1 .. n + 1 /\ i # 1 /\ i - 1 = k
                BY <1>1, <4>1
            <4> HIDE DEF i, n
            <4>4. f[i] = f[i - 1] \o seqs[i] /\ g[i] = g[i - 1] \o all[i]
                BY <1>3, <2>2, <4>3, Zenon
            <4>5. f[i] = f[k] \o seqs[i] /\ g[i] = g[k] \o all[i]
                BY <4>3, <4>4
            <4>6. seqs[i] = all[i]
                BY <1>1, <4>3
            <4>7. f[i] = g[i]
                BY <4>2, <4>5, <4>6
            <4> QED BY <4>7 DEF i
        <3> QED BY <3>2, <3>3
    <2>5. n \in S
        <3> HIDE DEF S
        <3> QED BY <1>1, <2>3, <2>4, SetInduction
    <2>6. f[n] = g[n]
        BY <1>1, <1>5, <2>5
    <2>7. g[n + 1] = g[n] \o s
        <3> DEFINE i == n + 1
        <3>1. i \in 1 .. n + 1 /\ i # 1 /\ i - 1 = n /\ all[i] = s
            BY <1>1, <1>5
        <3> HIDE DEF n, i
        <3>2. g[i] = g[i - 1] \o all[i]
            BY <1>3, <3>1, Zenon
        <3>3. g[i] = g[n] \o s
            BY <3>1, <3>2
        <3> QED BY <3>3 DEF i
    <2> QED BY <1>2, <2>1, <2>6, <2>7 DEF all
<1> QED BY <1>4, <1>5

\* The rules of a file's first lines.
MeantBy(f, n) == FlattenSeq([i \in 1 .. n |-> RulesOf(f[i])])

RulesWritten == [pkg : Seq(Codes), pattern : Patterns, cpus : SUBSET Cpus]

LEMMA RulesOfIs ==
    ASSUME NEW l \in Lines
    PROVE  /\ RulesOf(l) \in Seq(RulesWritten)
           /\ RulesOf(l) = IF l.form \in Stating /\ ~Refused(l)
                           THEN <<RuleOf(l)>> ELSE <<>>
           /\ RuleOf(l) \in RulesWritten
<1>1. RuleOf(l) \in RulesWritten
    <2>1. CpusMeant(l.text) \in SUBSET Cpus
        BY DEF CpusMeant
    <2> QED BY <2>1, LineParts DEF RuleOf, RulesWritten
<1>2. RulesOf(l) = IF l.form \in Stating /\ ~Refused(l)
                   THEN <<RuleOf(l)>> ELSE <<>>
    BY DEF RulesOf, RuleOf
<1>3. <<RuleOf(l)>> \in Seq(RulesWritten) /\ <<>> \in Seq(RulesWritten)
    BY <1>1
<1> QED BY <1>1, <1>2, <1>3

LEMMA MeantNext ==
    ASSUME NEW f \in Seq(Lines), NEW n \in Nat, n + 1 <= Len(f)
    PROVE  /\ MeantBy(f, n) \in Seq(RulesWritten)
           /\ MeantBy(f, n + 1) = MeantBy(f, n) \o RulesOf(f[n + 1])
<1> DEFINE seqs == [i \in 1 .. n |-> RulesOf(f[i])]
           more == [i \in 1 .. n + 1 |-> RulesOf(f[i])]
           s == RulesOf(f[n + 1])
<1>1. \A i \in 1 .. n + 1 : RulesOf(f[i]) \in Seq(RulesWritten)
    <2>1. \A i \in 1 .. n + 1 : f[i] \in Lines
        OBVIOUS
    <2> QED BY <2>1, RulesOfIs
<1>2. seqs \in Seq(Seq(RulesWritten)) /\ Len(seqs) = n
    <2>1. \A i \in 1 .. n : RulesOf(f[i]) \in Seq(RulesWritten)
        BY <1>1
    <2> QED BY <2>1
<1>3. s \in Seq(RulesWritten)
    BY <1>1
<1>4. more = Append(seqs, s)
    <2>1. more \in Seq(Seq(RulesWritten)) /\ Len(more) = n + 1
        BY <1>1
    <2>2. Append(seqs, s) \in Seq(Seq(RulesWritten)) /\ Len(Append(seqs, s)) = n + 1
        <3> HIDE DEF seqs, s
        <3> QED BY <1>2, <1>3
    <2>3. \A i \in 1 .. n + 1 : more[i] = Append(seqs, s)[i]
        <3>1. /\ Append(seqs, s)[n + 1] = s
              /\ \A i \in 1 .. n : Append(seqs, s)[i] = seqs[i]
            <4> HIDE DEF seqs, s
            <4> QED BY <1>2, <1>3
        <3>2. \A i \in 1 .. n : seqs[i] = RulesOf(f[i])
            OBVIOUS
        <3>3. \A i \in 1 .. n + 1 : more[i] = RulesOf(f[i])
            OBVIOUS
        <3>4. \A i \in 1 .. n + 1 : i = n + 1 \/ i \in 1 .. n
            OBVIOUS
        <3> HIDE DEF seqs, more
        <3> QED BY <3>1, <3>2, <3>3, <3>4
    <2> DEFINE other == Append(seqs, s)
    <2> HIDE DEF other, more
    <2> QED BY <2>1, <2>2, <2>3, SameElements DEF other
<1> HIDE DEF seqs, more, s
<1>5. FlattenSeq(more) = FlattenSeq(seqs) \o s
    BY <1>2, <1>3, <1>4, FlattenAppend
<1>6. FlattenSeq(seqs) \in Seq(RulesWritten)
    BY <1>2, FlattenPlaces
<1> QED BY <1>5, <1>6 DEF MeantBy, seqs, more, s

\* The rules held for what is meant.
Held(meant) == [i \in DOMAIN meant |-> AsRule(meant[i])]

LEMMA HeldNext ==
    ASSUME NEW T, NEW meant \in Seq(T), NEW r \in T
    PROVE  Held(meant \o <<r>>) = Append(Held(meant), AsRule(r))
<1> DEFINE n == Len(meant)
           new == meant \o <<r>>
<1>1. /\ n \in Nat /\ DOMAIN new = 1 .. n + 1 /\ new[n + 1] = r
      /\ \A i \in 1 .. n : new[i] = meant[i]
    OBVIOUS
<1>2. /\ Held(meant) = [i \in 1 .. n |-> AsRule(meant[i])]
      /\ Held(new) = [i \in 1 .. n + 1 |-> AsRule(new[i])]
    <2>1. DOMAIN meant = 1 .. n
        OBVIOUS
    <2> HIDE DEF new, n
    <2> QED BY <1>1, <2>1 DEF Held
<1> DEFINE old == [i \in 1 .. n |-> AsRule(meant[i])]
           V == {AsRule(t) : t \in T}
<1>3. \A i \in 1 .. n : AsRule(meant[i]) \in V
    OBVIOUS
<1>4. AsRule(r) \in V
    OBVIOUS
<1>5. old \in Seq(V) /\ Len(old) = n
    <2> HIDE DEF V
    <2> QED BY <1>1, <1>3
<1>6. \A i \in 1 .. n : old[i] = AsRule(meant[i])
    OBVIOUS
<1> HIDE DEF old, V, new, n
<1>7. /\ Append(old, AsRule(r)) \in Seq(V)
      /\ Len(Append(old, AsRule(r))) = n + 1
      /\ Append(old, AsRule(r))[n + 1] = AsRule(r)
      /\ \A i \in 1 .. n : Append(old, AsRule(r))[i] = AsRule(meant[i])
    BY <1>1, <1>4, <1>5, <1>6
<1>8. \A i \in 1 .. n + 1 : i = n + 1 \/ i \in 1 .. n
    BY <1>1
<1>9. \A i \in 1 .. n + 1 : Append(old, AsRule(r))[i] = AsRule(new[i])
    BY <1>1, <1>7, <1>8
<1>10. Append(old, AsRule(r)) = [i \in 1 .. n + 1 |-> AsRule(new[i])]
    <2> DEFINE longer == Append(old, AsRule(r))
    <2>1. longer = [i \in 1 .. n + 1 |-> longer[i]]
        <3>1. longer \in Seq(V) /\ Len(longer) = n + 1
            BY <1>7
        <3> HIDE DEF longer
        <3> QED BY <1>1, <3>1
    <2>2. \A i \in 1 .. n + 1 : longer[i] = AsRule(new[i])
        BY <1>9
    <2> HIDE DEF longer
    <2>3. longer = [i \in 1 .. n + 1 |-> AsRule(new[i])]
        BY <2>1, <2>2
    <2> QED BY <2>3 DEF longer
<1> QED BY <1>2, <1>10 DEF old, new

------------------------------------------------------------------------------
(* A file is read as it is meant *)

\* The file that would be meant if its CPU texts were as they are read; without
\* notes behind a thread's CPUs it is the file itself.
Seen(f) == [i \in DOMAIN f |-> AsRead(f[i])]

Uncommented == \A i \in DOMAIN file : file[i].form # "thread-note"

Faulty ==
    \/ \E i \in 1 .. at - 1 : Wrong(ContextAt(file, i), AsRead(file[i]))
    \/ loaded /\ ContextAt(file, Len(file) + 1) # TopLevel

Faithful ==
    /\ MeantBy(Seen(file), at - 1) \in Seq(RulesWritten)
    /\ rules = Held(MeantBy(Seen(file), at - 1))
    /\ failCnt > 0 <=> Faulty

RInv == TInv /\ Faithful

LEMMA SeenIs ==
    ASSUME NEW f \in Seq(Lines)
    PROVE  /\ Seen(f) \in Seq(Lines) /\ Len(Seen(f)) = Len(f)
           /\ \A i \in 1 .. Len(f) : Seen(f)[i] = AsRead(f[i])
<1>1. \A i \in 1 .. Len(f) : AsRead(f[i]) \in Lines
    <2>1. \A i \in 1 .. Len(f) : f[i] \in Lines
        OBVIOUS
    <2> QED BY <2>1, AsReadType
<1>2. Seen(f) = [i \in 1 .. Len(f) |-> AsRead(f[i])]
    BY DEF Seen
<1> DEFINE n == Len(f)
<1>3. n \in Nat /\ \A i \in 1 .. n : AsRead(f[i]) \in Lines
    BY <1>1
<1>4. Seen(f) = [i \in 1 .. n |-> AsRead(f[i])]
    BY <1>2
<1> HIDE DEF n
<1> QED BY <1>3, <1>4 DEF n

LEMMA NothingMeant ==
    ASSUME NEW f
    PROVE  MeantBy(f, 0) = <<>> /\ Held(<<>>) = <<>>
<1>1. [i \in 1 .. 0 |-> RulesOf(f[i])] = <<>>
    OBVIOUS
<1>2. MeantBy(f, 0) = <<>>
    BY <1>1 DEF MeantBy, FlattenSeq
<1>3. Held(<<>>) = <<>>
    BY DEF Held
<1> QED BY <1>2, <1>3

LEMMA FaithfulInit == Init => Faithful
<1> SUFFICES ASSUME Init PROVE Faithful
    OBVIOUS
<1>1. at - 1 = 0 /\ rules = <<>> /\ failCnt = 0 /\ loaded = FALSE
    BY DEF Init, ParserInit
<1>2. MeantBy(Seen(file), 0) = <<>> /\ Held(<<>>) = <<>>
    BY NothingMeant
<1>3. ~Faulty
    BY <1>1 DEF Faulty
<1>4. <<>> \in Seq(RulesWritten)
    OBVIOUS
<1>5. MeantBy(Seen(file), at - 1) = <<>>
    BY <1>1, <1>2
<1>6. ~ (failCnt > 0)
    BY <1>1
<1> QED BY <1>1, <1>2, <1>3, <1>4, <1>5, <1>6 DEF Faithful

LEMMA LineKeepsMeant ==
    ASSUME RInv, LineStep, UNCHANGED file
    PROVE  /\ MeantBy(Seen(file), at) \in Seq(RulesWritten)
           /\ rules' = Held(MeantBy(Seen(file), at))
<1> DEFINE l == file[at]
           m == AsRead(l)
           meant == MeantBy(Seen(file), at - 1)
<1>1. at \in 1 .. Len(file) /\ l \in Lines /\ Stands(l) /\ failCnt \in Nat
    BY LineRead DEF RInv, TInv, StateOK
<1>2. Does(l)
    BY <1>1, LineDoes
<1>3. m \in Lines /\ m.form = l.form
    BY <1>1, AsReadType
<1>4. /\ Seen(file) \in Seq(Lines) /\ Len(Seen(file)) = Len(file)
      /\ Seen(file)[at] = m
    BY <1>1, SeenIs DEF RInv, TInv, FileOK
<1>5. /\ meant \in Seq(RulesWritten)
      /\ MeantBy(Seen(file), at) = meant \o RulesOf(m)
    <2> DEFINE n == at - 1
    <2>1. n \in Nat /\ n + 1 = at /\ n + 1 <= Len(Seen(file))
        <3>1. Len(file) \in Nat
            BY LinesLength DEF RInv, TInv
        <3> QED BY <1>1, <1>4, <3>1
    <2>2. MeantBy(Seen(file), n + 1) = meant \o RulesOf(Seen(file)[n + 1])
        <3> HIDE DEF n
        <3>1. MeantBy(Seen(file), n + 1) =
                  MeantBy(Seen(file), n) \o RulesOf(Seen(file)[n + 1])
            BY <1>4, <2>1, MeantNext
        <3> QED BY <3>1 DEF n
    <2>3. meant \in Seq(RulesWritten)
        BY DEF RInv, Faithful
    <2> HIDE DEF n, meant
    <2> QED BY <1>4, <2>1, <2>2, <2>3
<1>6. rules = Held(meant)
    BY DEF RInv, Faithful
<1>7. /\ RulesOf(m) = IF m.form \in Stating /\ ~Refused(m)
                      THEN <<RuleOf(m)>> ELSE <<>>
      /\ RuleOf(m) \in RulesWritten
    BY <1>3, RulesOfIs
<1> DEFINE accepted == l.form \in Stating /\ ~Refused(m)
<1>8. rules' = IF accepted THEN Append(rules, AsRule(RuleOf(m))) ELSE rules
    BY <1>2 DEF Does
<1>9. RulesOf(m) = IF accepted THEN <<RuleOf(m)>> ELSE <<>>
    BY <1>3, <1>7
<1> HIDE DEF meant, m, accepted
<1>10. CASE accepted
    <2>1. Held(meant \o <<RuleOf(m)>>) = Append(Held(meant), AsRule(RuleOf(m)))
        BY <1>5, <1>7, HeldNext
    <2>2. meant \o <<RuleOf(m)>> \in Seq(RulesWritten)
        BY <1>5, <1>7
    <2> QED BY <1>5, <1>6, <1>8, <1>9, <1>10, <2>1, <2>2
<1>11. CASE ~accepted
    <2>1. meant \o <<>> = meant
        BY <1>5
    <2> QED BY <1>5, <1>6, <1>8, <1>9, <1>11, <2>1
<1> QED BY <1>10, <1>11

LEMMA LineKeepsFaults ==
    ASSUME RInv, LineStep, UNCHANGED file
    PROVE  (failCnt > 0 <=> Faulty)'
<1> DEFINE l == file[at]
           Err(i) == Wrong(ContextAt(file, i), AsRead(file[i]))
<1>1. /\ at \in 1 .. Len(file) /\ Stands(l) /\ failCnt \in Nat
      /\ Len(file) \in Nat
    BY LineRead, LinesLength DEF RInv, TInv, StateOK
<1>2. Does(l)
    BY <1>1, LineDoes
<1>3. at' = at + 1 /\ loaded' = loaded /\ loaded = FALSE
    BY <1>1, LineKeepsState DEF RInv, TInv, StateOK
<1>4. PICK more \in Nat : failCnt' = failCnt + more /\ (more > 0 <=> Err(at))
    <2>1. Context = ContextAt(file, at)
        BY DEF RInv, TInv, StateOK
    <2> QED BY <1>2, <2>1 DEF Does
<1>5. failCnt > 0 <=> \E i \in 1 .. at - 1 : Err(i)
    BY <1>3 DEF RInv, Faithful, Faulty
<1>6. Faulty' <=> \E i \in 1 .. at : Err(i)
    <2>1. at' - 1 = at
        BY <1>1, <1>3
    <2> QED BY <1>3, <2>1 DEF Faulty
<1> HIDE DEF Err
<1>7. (\E i \in 1 .. at : Err(i)) <=> Err(at) \/ \E i \in 1 .. at - 1 : Err(i)
    <2>1. \A i \in 1 .. at : i = at \/ i \in 1 .. at - 1
        BY <1>1
    <2>2. at \in 1 .. at /\ \A i \in 1 .. at - 1 : i \in 1 .. at
        BY <1>1
    <2> QED BY <2>1, <2>2
<1>8. failCnt' > 0 <=> failCnt > 0 \/ more > 0
    BY <1>1, <1>4
<1> QED BY <1>4, <1>5, <1>6, <1>7, <1>8

LEMMA EndKeepsFaults ==
    ASSUME RInv, EndOfFile, UNCHANGED file
    PROVE  (failCnt > 0 <=> Faulty)'
<1>1. /\ at = Len(file) + 1 /\ at' = at /\ loaded = FALSE /\ loaded' = TRUE
      /\ failCnt' = failCnt + IF inBlock \/ pendingPkg # <<>> THEN 1 ELSE 0
    BY LinesLength DEF EndOfFile, NoRule, RInv, TInv, StateOK
<1>2. /\ failCnt \in Nat /\ Context = ContextAt(file, Len(file) + 1)
      /\ inBlock = (curPkg # <<>>)
    BY <1>1 DEF RInv, TInv, StateOK
<1>3. ContextAt(file, Len(file) + 1) # TopLevel <=> inBlock \/ pendingPkg # <<>>
    <2>1. Context = TopLevel <=> curPkg = <<>> /\ pendingPkg = <<>>
        <3>1. /\ Context.block = curPkg /\ Context.pending = pendingPkg
              /\ TopLevel.block = <<>> /\ TopLevel.pending = <<>>
            BY DEF Context, TopLevel
        <3>2. curPkg = <<>> /\ pendingPkg = <<>> => Context = TopLevel
            BY DEF Context, TopLevel
        <3> QED BY <3>1, <3>2
    <2>2. inBlock <=> curPkg # <<>>
        BY <1>2
    <2> HIDE DEF TopLevel
    <2> QED BY <1>2, <2>1, <2>2
<1> DEFINE Earlier == \E i \in 1 .. at - 1 :
                          Wrong(ContextAt(file, i), AsRead(file[i]))
<1>4. failCnt > 0 <=> Earlier
    BY <1>1 DEF RInv, Faithful, Faulty
<1>5. Faulty' <=> Earlier \/ ContextAt(file, Len(file) + 1) # TopLevel
    BY <1>1 DEF Faulty
<1> HIDE DEF Earlier
<1>6. failCnt' > 0 <=> failCnt > 0 \/ inBlock \/ pendingPkg # <<>>
    BY <1>1, <1>2
<1> QED BY <1>3, <1>4, <1>5, <1>6

LEMMA RInvStep ==
    ASSUME RInv, Next \/ UNCHANGED vars
    PROVE  RInv'
<1>0. TInv' /\ file' = file
    BY TInvStep, FileKept DEF RInv
<1>1. CASE LineStep
    <2>1. at' - 1 = at
        <3>1. at' = at + 1 /\ at \in Nat
            BY <1>0, <1>1, LineKeepsState, LineRead DEF RInv, TInv
        <3> QED BY <3>1
    <2>2. /\ MeantBy(Seen(file), at) \in Seq(RulesWritten)
          /\ rules' = Held(MeantBy(Seen(file), at))
        BY <1>0, <1>1, LineKeepsMeant
    <2>3. (failCnt > 0 <=> Faulty)'
        BY <1>0, <1>1, LineKeepsFaults
    <2>4. Faithful'
        BY <1>0, <2>1, <2>2, <2>3 DEF Faithful
    <2> QED BY <1>0, <2>4 DEF RInv
<1>2. CASE EndOfFile
    <2>1. at' = at /\ rules' = rules
        BY <1>2 DEF EndOfFile, NoRule
    <2>2. (failCnt > 0 <=> Faulty)'
        BY <1>0, <1>2, EndKeepsFaults
    <2>3. Faithful'
        BY <1>0, <2>1, <2>2 DEF RInv, Faithful
    <2> QED BY <1>0, <2>3 DEF RInv
<1>3. CASE UNCHANGED parserVars
    <2>1. Faithful'
        BY <1>0, <1>3 DEF RInv, Faithful, Faulty, parserVars
    <2> QED BY <1>0, <2>1 DEF RInv
<1> QED BY <1>1, <1>2, <1>3 DEF Next, LineStep, InUse, vars

LEMMA RInvAlways == Spec => []RInv
<1>1. Init => RInv
    BY FileInit, StateInit, FaithfulInit DEF RInv, TInv
<1>2. RInv /\ [Next]_vars => RInv'
    BY RInvStep
<1> QED BY <1>1, <1>2, PTL DEF Spec

LEMMA SeenAsIs ==
    ASSUME FileOK, Uncommented
    PROVE  /\ Seen(file) = file
           /\ \A i \in 1 .. Len(file) : AsRead(file[i]) = file[i]
<1>1. file \in Seq(Lines) /\ DOMAIN file = 1 .. Len(file) /\ Len(file) \in Nat
    BY LinesLength DEF FileOK
<1>2. ASSUME NEW i \in 1 .. Len(file) PROVE AsRead(file[i]) = file[i]
    <2>1. file[i] \in Lines /\ file[i].form # "thread-note"
        BY <1>1 DEF Uncommented
    <2> QED BY <2>1, AsReadType
<1>3. Seen(file) \in Seq(Lines) /\ Len(Seen(file)) = Len(file)
      /\ \A i \in 1 .. Len(file) : Seen(file)[i] = file[i]
    BY <1>1, <1>2, SeenIs
<1> DEFINE other == Seen(file)
<1>4. other = file
    <2> HIDE DEF other
    <2> QED BY <1>1, <1>3, SameElements DEF other
<1> QED BY <1>2, <1>4

LEMMA RulesAreMeant ==
    ASSUME RInv, Uncommented
    PROVE  Meant \in Seq(RulesWritten) /\ rules = Held(Meant)
<1>1. Meant = MeantBy(Seen(file), at - 1)
    BY SeenAsIs DEF Meant, MeantBy, RInv, TInv
<1> QED BY <1>1 DEF RInv, Faithful

\* The rules held, one by one.
LEMMA HeldIs ==
    ASSUME NEW meant, rules = Held(meant)
    PROVE  /\ DOMAIN rules = DOMAIN meant
           /\ \A i \in DOMAIN meant :
                  /\ rules[i].pkg = meant[i].pkg
                  /\ rules[i].thread = Pattern(meant[i].pattern)
                  /\ rules[i].cpus = meant[i].cpus
<1>1. DOMAIN rules = DOMAIN meant
      /\ \A i \in DOMAIN meant : rules[i] = AsRule(meant[i])
    BY DEF Held
<1>2. \A r : /\ AsRule(r).pkg = r.pkg /\ AsRule(r).thread = Pattern(r.pattern)
             /\ AsRule(r).cpus = r.cpus
    BY DEF AsRule
<1> QED BY <1>1, <1>2

(* At every moment the rules held are those that the lines read so far mean,   *)
(* in their order, whatever the lines are.  A note behind a thread's CPUs is   *)
(* read with them: it spoils the last part of this line's own CPUs, which the  *)
(* rule then is without, and nothing else.                                     *)
THEOREM NotesSpoilTheirOwnLine ==
    Spec => [](rules = Held(MeantBy(Seen(file), at - 1)))
<1>1. RInv => rules = Held(MeantBy(Seen(file), at - 1))
    BY DEF RInv, Faithful
<1> QED BY <1>1, RInvAlways, PTL

(* Every file without such notes is read as it is meant: each rule for its own *)
(* package, with its pattern and the CPUs its text is for, in the file's       *)
(* order, and no rule for a line that is in error.                             *)
THEOREM AlwaysReadAsMeant == Spec => [](Uncommented => ReadAsMeant)
<1>1. RInv => (Uncommented => ReadAsMeant)
    <2> SUFFICES ASSUME RInv, Uncommented PROVE ReadAsMeant
        OBVIOUS
    <2> DEFINE meant == Meant
    <2>1. rules = Held(meant)
        BY RulesAreMeant
    <2> HIDE DEF meant
    <2>2. /\ DOMAIN rules = DOMAIN meant
          /\ \A i \in DOMAIN meant :
                 /\ rules[i].pkg = meant[i].pkg
                 /\ rules[i].thread = Pattern(meant[i].pattern)
                 /\ rules[i].cpus = meant[i].cpus
        BY <2>1, HeldIs
    <2>3. [i \in DOMAIN rules |-> [pkg |-> rules[i].pkg,
                                   thread |-> rules[i].thread,
                                   cpus |-> rules[i].cpus]]
          = [i \in DOMAIN meant |-> [pkg |-> meant[i].pkg,
                                     thread |-> Pattern(meant[i].pattern),
                                     cpus |-> meant[i].cpus]]
        BY <2>2
    <2> QED BY <2>3 DEF ReadAsMeant, meant
<1> QED BY <1>1, RInvAlways, PTL

(* A failure is counted for a file exactly when it has a line in error, or was *)
(* cut off in a block or behind a line that announces one: such a file, and    *)
(* no other, is read again although its mtime has not changed.                 *)
THEOREM CutsAlwaysNoticed == Spec => [](Uncommented => CutIsNoticed)
<1>1. RInv => (Uncommented => CutIsNoticed)
    <2> SUFFICES ASSUME RInv, Uncommented, loaded
                 PROVE  failCnt > 0 <=>
                            \/ \E i \in DOMAIN file :
                                   Wrong(ContextAt(file, i), file[i])
                            \/ ContextAt(file, Len(file) + 1) # TopLevel
        BY DEF CutIsNoticed
    <2>1. at = Len(file) + 1 /\ Len(file) \in Nat /\ DOMAIN file = 1 .. Len(file)
        BY LinesLength DEF RInv, TInv, StateOK
    <2>2. at - 1 = Len(file)
        BY <2>1
    <2>3. \A i \in 1 .. Len(file) : AsRead(file[i]) = file[i]
        BY SeenAsIs DEF RInv, TInv
    <2>4. Faulty <=> \/ \E i \in 1 .. Len(file) :
                            Wrong(ContextAt(file, i), file[i])
                     \/ ContextAt(file, Len(file) + 1) # TopLevel
        BY <2>2, <2>3 DEF Faulty
    <2>5. failCnt > 0 <=> Faulty
        BY DEF RInv, Faithful
    <2> QED BY <2>1, <2>4, <2>5
<1> QED BY <1>1, RInvAlways, PTL

------------------------------------------------------------------------------
(* The CPUs a thread gets *)

LEMMA MatchedIs ==
    ASSUME NEW meant \in Seq(RulesWritten), rules = Held(meant), NEW pkg,
           NEW name \in Threads, NEW i \in DOMAIN meant
    PROVE  /\ i \in PkgRules(pkg) <=>
                  meant[i].pkg = pkg /\ meant[i].pattern = <<>>
           /\ i \in ThreadRulesMatched(pkg, name) <=>
                  /\ meant[i].pkg = pkg /\ meant[i].pattern # <<>>
                  /\ Means(meant[i].pattern, name)
<1> DEFINE es == meant[i].pattern
<1>1. /\ i \in DOMAIN rules /\ rules[i].pkg = meant[i].pkg
      /\ rules[i].thread = Pattern(es)
    BY HeldIs
<1>2. es \in Patterns
    <2>1. meant[i] \in RulesWritten
        OBVIOUS
    <2> QED BY <2>1 DEF RulesWritten
<1>3. /\ name \in Seq(Codes) /\ name # <<>> /\ Len(name) <= NameLen
      /\ NameLen < MaxThreadLen
    BY ThreadsAssumption
<1>4. Len(name) < MaxThreadLen
    BY <1>3, NameLenIs, LengthsAssumption
<1>5. name \in Seq(Nat)
    BY <1>3, BytesAreNumbers
<1> HIDE DEF es
<1>6. Pattern(es) = <<>> <=> es = <<>>
    BY <1>2, PatternType
<1>7. FnmatchC(Pattern(es), name) <=> Means(es, name)
    BY <1>2, <1>4, <1>5, MatchesWhatItMeans DEF FnmatchC
<1>8. i \in PkgRules(pkg) <=> meant[i].pkg = pkg /\ es = <<>>
    BY <1>1, <1>6 DEF PkgRules
<1>9. i \in ThreadRulesMatched(pkg, name) <=>
          meant[i].pkg = pkg /\ es # <<>> /\ Means(es, name)
    BY <1>1, <1>3, <1>6, <1>7 DEF ThreadRulesMatched
<1> QED BY <1>8, <1>9 DEF es

LEMMA AffinityIs ==
    ASSUME NEW meant \in Seq(RulesWritten), rules = Held(meant), NEW pkg,
           NEW name \in Threads
    PROVE  ThreadAffinity(pkg, name).cpus = Documented(meant, pkg, name)
<1> DEFINE mine == {i \in DOMAIN meant : meant[i].pkg = pkg}
           own == {i \in mine : meant[i].pattern = <<>>}
           named == {i \in mine \ own : Means(meant[i].pattern, name)}
           Of(is) == UNION {meant[i].cpus : i \in is}
           matched == ThreadRulesMatched(pkg, name)
           pkgOwn == PkgRules(pkg)
<1>1. /\ DOMAIN rules = DOMAIN meant
      /\ \A i \in DOMAIN meant : /\ rules[i].pkg = meant[i].pkg
                                 /\ rules[i].cpus = meant[i].cpus
    BY HeldIs
<1>2. matched \subseteq DOMAIN meant /\ pkgOwn \subseteq DOMAIN meant
    BY <1>1 DEF ThreadRulesMatched, PkgRules
<1>3. \A i \in DOMAIN meant :
          /\ i \in pkgOwn <=> i \in own
          /\ i \in matched <=> i \in named
    BY MatchedIs, SMTT(60)
<1>4. matched = named /\ pkgOwn = own
    BY <1>2, <1>3
<1>5. ASSUME NEW is \in SUBSET (DOMAIN meant)
      PROVE  CpusOfRules(is) = Of(is)
    BY <1>1 DEF CpusOfRules
<1>6. CpusOfRules(named) = Of(named) /\ CpusOfRules(own) = Of(own)
    <2>1. named \in SUBSET (DOMAIN meant) /\ own \in SUBSET (DOMAIN meant)
        OBVIOUS
    <2> HIDE DEF named, own, Of
    <2> QED BY <1>5, <2>1
<1>7. own = {} => (pkg \in HasThreadRules <=> mine # {})
    <2> SUFFICES ASSUME own = {} PROVE pkg \in HasThreadRules <=> mine # {}
        OBVIOUS
    <2>1. ASSUME NEW i \in mine PROVE rules[i].thread # <<>>
        <3>1. i \in DOMAIN meant /\ i \notin pkgOwn
            BY <1>4
        <3>2. i \in DOMAIN rules /\ rules[i].pkg = pkg
            BY <1>1
        <3> QED BY <3>1, <3>2 DEF PkgRules
    <2>2. \A i : i \in mine <=> i \in DOMAIN rules /\ rules[i].pkg = pkg
        BY <1>1
    <2> HIDE DEF mine
    <2> QED BY <2>1, <2>2 DEF HasThreadRules
<1>8. Documented(meant, pkg, name) =
          IF named # {} THEN Of(named)
          ELSE IF own # {} THEN Of(own)
          ELSE IF mine # {} THEN Topology["all-core"] ELSE {}
    BY DEF Documented
<1>9. ThreadAffinity(pkg, name).cpus =
          IF matched # {} THEN CpusOfRules(matched)
          ELSE IF pkgOwn # {} THEN CpusOfRules(pkgOwn)
          ELSE IF pkg \in HasThreadRules THEN Topology["all-core"] ELSE {}
    BY DEF ThreadAffinity, NoAffinity
<1> HIDE DEF mine, own, named, Of, matched, pkgOwn
<1> QED BY <1>4, <1>6, <1>7, <1>8, <1>9

(* The CPUs of a thread are those the documentation promises, for whatever is  *)
(* written: the rules are read as they are meant, a pattern matches just the   *)
(* names it means, and thread rules come before the package's own and these    *)
(* before all CPUs.                                                            *)
THEOREM AffinityAlwaysAsDocumented == Spec => [](Uncommented => AffinityAsDocumented)
<1>1. RInv => (Uncommented => AffinityAsDocumented)
    <2> SUFFICES ASSUME RInv, Uncommented, NEW pkg, NEW name \in Threads
                 PROVE  ThreadAffinity(pkg, name).cpus = Documented(Meant, pkg, name)
        BY DEF AffinityAsDocumented
    <2> QED BY RulesAreMeant, AffinityIs
<1> QED BY <1>1, RInvAlways, PTL
=============================================================================
