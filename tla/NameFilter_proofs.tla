-------------------------- MODULE NameFilter_proofs --------------------------
(***************************************************************************)
(* The kernel's filter and the daemon agree: whatever name the daemon      *)
(* would recognise passes the whitelist, for any packages and any length   *)
(* of a key.                                                               *)
(***************************************************************************)
EXTENDS NameFilter, TLAPS

Names == Seq(Nat)

\* The keys two packages' names give.
LEMMA BeginningIsKey ==
    ASSUME NEW pkgs \in SUBSET Names, NEW p \in pkgs, p # <<>>
    PROVE  Window(p, 0) \in CommKeys(pkgs)
BY DEF CommKeys

LEMMA EndIsKey ==
    ASSUME NEW pkgs \in SUBSET Names, NEW p \in pkgs, Len(p) > KeyLen
    PROVE  Window(p, Len(p) - KeyLen) \in CommKeys(pkgs)
BY DEF CommKeys

\* A beginning of a name has the name's first window, if it fills it.
LEMMA SameBeginning ==
    ASSUME NEW s \in Names, NEW t \in Names, IsPrefix(s, t), KeyLen <= Len(s)
    PROVE  Window(s, 0) = Window(t, 0)
<1>1. /\ Len(s) <= Len(t)
      /\ SubSeq(s, 1, Len(s)) = SubSeq(t, 1, Len(s))
  BY DEF IsPrefix
<1>2. ASSUME NEW i \in 1 .. KeyLen PROVE s[i] = t[i]
  <2>1. i \in 1 .. Len(s)
    BY KeyLenAssumption DEF Names
  <2>2. SubSeq(s, 1, Len(s))[i] = s[i] /\ SubSeq(t, 1, Len(s))[i] = t[i]
    BY <1>1, <2>1 DEF Names
  <2>. QED
    BY <1>1, <2>2
<1>. QED
  BY <1>1, <1>2, KeyLenAssumption DEF Window, Names

\* An end of a name has the name's last window, if it fills it.
LEMMA SameEnd ==
    ASSUME NEW s \in Names, NEW t \in Names, IsSuffix(s, t), KeyLen <= Len(s)
    PROVE  /\ Len(s) <= Len(t)
           /\ Window(s, Len(s) - KeyLen) = Window(t, Len(t) - KeyLen)
<1>. DEFINE rs == Reverse(s)
            rt == Reverse(t)
<1>1. /\ rs \in Seq(Nat) /\ Len(rs) = Len(s)
      /\ rt \in Seq(Nat) /\ Len(rt) = Len(t)
  BY DEF Reverse, Names
<1>2. /\ Len(s) <= Len(t)
      /\ SubSeq(rs, 1, Len(s)) = SubSeq(rt, 1, Len(s))
  BY <1>1 DEF IsSuffix, IsPrefix
<1>3. ASSUME NEW i \in 1 .. KeyLen
      PROVE  s[Len(s) - KeyLen + i] = t[Len(t) - KeyLen + i]
  <2>. DEFINE k == KeyLen - i + 1
  <2>1. k \in 1 .. Len(s) /\ k \in 1 .. Len(t)
    BY <1>2, KeyLenAssumption DEF Names
  <2>2. rs[k] = rt[k]
    <3>. HIDE DEF rs, rt, k
    <3>1. SubSeq(rs, 1, Len(s))[k] = rs[k]
      BY <1>1, <2>1
    <3>2. SubSeq(rt, 1, Len(s))[k] = rt[k]
      BY <1>1, <1>2, <2>1
    <3>. QED
      BY <1>2, <3>1, <3>2
  <2>3. rs[k] = s[Len(s) - k + 1] /\ rt[k] = t[Len(t) - k + 1]
    BY <2>1 DEF Reverse
  <2>4. /\ Len(s) - k + 1 = Len(s) - KeyLen + i
        /\ Len(t) - k + 1 = Len(t) - KeyLen + i
    BY KeyLenAssumption DEF Names
  <2>. QED
    BY <2>2, <2>3, <2>4
<1>4. ASSUME NEW i \in 1 .. KeyLen
      PROVE  /\ Len(s) - KeyLen + i <= Len(s)
             /\ Len(t) - KeyLen + i <= Len(t)
  BY KeyLenAssumption DEF Names
<1>. QED
  BY <1>2, <1>3, <1>4, Zenon DEF Window

\* Every name the daemon takes for a package's, whole, begun or ended by it,
\* has a window among the keys: whitelist_matched does not drop its events.
THEOREM FilterPassesRecognised ==
    ASSUME NEW pkgs \in SUBSET Names, NEW comm \in Names,
           comm # <<>>, Len(comm) <= NameLen,
           CommToPkg(comm, pkgs) # {}
    PROVE  WhitelistMatched(comm, CommKeys(pkgs))
<1>1. CASE comm \in pkgs
  BY <1>1, BeginningIsKey, KeyLenAssumption DEF WhitelistMatched
<1>2. CASE comm \notin pkgs
  <2>1. /\ Len(comm) = NameLen
        /\ \E p \in pkgs : IsPrefix(comm, p) \/ IsSuffix(comm, p)
    <3>1. ~(Len(comm) < NameLen)
      BY <1>2 DEF CommToPkg
    <3>2. \/ {p \in pkgs : IsPrefix(comm, p)} # {}
          \/ {p \in pkgs : IsSuffix(comm, p)} # {}
      BY <1>2, <3>1, Zenon DEF CommToPkg
    <3>. QED
      BY <3>1, <3>2, KeyLenAssumption DEF NameLen, Names
  <2>2. PICK p \in pkgs : IsPrefix(comm, p) \/ IsSuffix(comm, p)
    BY <2>1
  <2>3. KeyLen <= Len(comm) /\ Len(comm) - KeyLen \in 0 .. KeyLen
    BY <2>1, KeyLenAssumption DEF NameLen
  <2>4. CASE IsPrefix(comm, p)
    <3>1. p # <<>>
      BY <2>3, <2>4, KeyLenAssumption DEF IsPrefix
    <3>2. Window(comm, 0) \in CommKeys(pkgs)
      BY <2>3, <2>4, <3>1, SameBeginning, BeginningIsKey
    <3>. QED
      BY <3>2, KeyLenAssumption DEF WhitelistMatched
  <2>5. CASE IsSuffix(comm, p)
    <3>1. /\ Len(comm) <= Len(p)
          /\ Window(comm, Len(comm) - KeyLen) = Window(p, Len(p) - KeyLen)
      BY <2>3, <2>5, SameEnd
    <3>2. CASE Len(p) > KeyLen
      BY <2>3, <3>1, <3>2, EndIsKey DEF WhitelistMatched
    <3>3. CASE Len(p) = KeyLen
      <4>1. p # <<>> /\ Len(p) - KeyLen = 0
        BY <3>3, KeyLenAssumption
      <4>2. Window(comm, Len(comm) - KeyLen) \in CommKeys(pkgs)
        BY <3>1, <4>1, BeginningIsKey
      <4>. QED
        BY <2>3, <4>2 DEF WhitelistMatched
    <3>. QED
      BY <2>3, <3>1, <3>2, <3>3, KeyLenAssumption DEF Names
  <2>. QED
    BY <2>2, <2>4, <2>5
<1>. QED
  BY <1>1, <1>2
=============================================================================
