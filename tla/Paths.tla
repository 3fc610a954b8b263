-------------------------------- MODULE Paths --------------------------------
(***************************************************************************)
(* Paths and tables keyed by paths.  A path is the sequence of its names,   *)
(* the root the empty sequence; the driver's dictionaries (the engine's     *)
(* tree, itemByPath, idByPath, dirGen) are functions on sets of paths.      *)
(***************************************************************************)
EXTENDS Integers, Sequences

Root == <<>>
Parent(p) == SubSeq(p, 1, Len(p) - 1)
Last(p) == p[Len(p)]
\* p is `dir` or lies below it (hasPrefix(dir + "/")).
Within(dir, p) == Len(dir) <= Len(p) /\ SubSeq(p, 1, Len(dir)) = dir
Below(dir, p) == Within(dir, p) /\ dir # p
\* p with the prefix `old` replaced by `new`.
Rebase(p, old, new) == new \o SubSeq(p, Len(old) + 1, Len(p))

Without(f, S) == [p \in DOMAIN f \ S |-> f[p]]
With(f, p, x) == [q \in DOMAIN f \cup {p} |-> IF q = p THEN x ELSE f[q]]
\* The table after everything at or below `old` moved to `new`; an entry that
\* was there before gives way.
MoveKeys(f, old, new) ==
    LET gone  == {p \in DOMAIN f : Within(old, p)}
        moved == {Rebase(p, old, new) : p \in gone}
    IN  [q \in (DOMAIN f \ gone) \cup moved |->
            IF q \in moved THEN f[Rebase(q, new, old)] ELSE f[q]]
=============================================================================
