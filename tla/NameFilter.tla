----------------------------- MODULE NameFilter -----------------------------
(***************************************************************************)
(* How a task's kernel name (comm) is recognised: comm_to_pkg of           *)
(* rule_match.rs, the keys comm_keys_build of ebpf_mode.rs makes for the   *)
(* kernel, and whitelist_matched, which lets events through there.         *)
(***************************************************************************)
EXTENDS Integers, SequencesExt

CONSTANT KeyLen     \* bytes of a key, 8

ASSUME KeyLenAssumption == KeyLen \in Nat \ {0}

NameLen == 2 * KeyLen - 1       \* comm has 16 bytes, the last one is NUL

\* Mutation: a name cut by the kernel is only compared with beginnings.
CommToPkgByPrefix(comm, pkgs) ==
    IF comm \in pkgs THEN {comm}
    ELSE IF Len(comm) < NameLen THEN {}
    ELSE {p \in pkgs : IsPrefix(comm, p)}

\* comm_to_pkg; when several packages begin, or end, with the name, the order
\* of a hash table decides.
CommToPkg(comm, pkgs) ==
    LET begin == {p \in pkgs : IsPrefix(comm, p)}
        end == {p \in pkgs : IsSuffix(comm, p)}
    IN  IF comm \in pkgs THEN {comm}
        ELSE IF Len(comm) < NameLen THEN {}
        ELSE IF begin # {} THEN begin ELSE end

\* KeyLen bytes from pos on, with NULs where the name has ended.
Window(s, pos) ==
    [i \in 1 .. KeyLen |-> IF pos + i <= Len(s) THEN s[pos + i] ELSE 0]

\* Mutation: only the beginning of a package's name is a key.
CommKeysOfPrefixes(pkgs) == {Window(p, 0) : p \in pkgs \ {<<>>}}

CommKeys(pkgs) ==
    LET named == pkgs \ {<<>>}
        long == {p \in pkgs : Len(p) > KeyLen}
    IN  {Window(p, 0) : p \in named} \cup {Window(p, Len(p) - KeyLen) : p \in long}

WhitelistMatched(comm, keys) ==
    \E pos \in 0 .. KeyLen : Window(comm, pos) \in keys

\* What comm may be for the main thread of a package: the name, or if it is
\* too long the end or the beginning of it.
KernelNames(pkg) ==
    IF Len(pkg) <= NameLen THEN {pkg}
    ELSE {SubSeq(pkg, 1, NameLen), SubSeq(pkg, Len(pkg) - NameLen + 1, Len(pkg))}
=============================================================================
