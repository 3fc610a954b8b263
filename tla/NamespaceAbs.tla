---------------------------- MODULE NamespaceAbs ----------------------------
(***************************************************************************)
(* What the directory operations promise: names appear, disappear and move  *)
(* atomically, and a rename onto an existing name replaces it in one step.  *)
(***************************************************************************)
EXTENDS Paths

VARIABLE names      \* path -> file

\* Only the root has no parent; everything else hangs in a directory.
Init == names = [p \in {Root} |-> 0]

Create(p, f) ==
    /\ p \notin DOMAIN names /\ p # Root /\ Parent(p) \in DOMAIN names
    /\ \A q \in DOMAIN names : names[q] # f
    /\ names' = With(names, p, f)

Unlink(p) ==
    /\ p \in DOMAIN names \ {Root} /\ ~\E q \in DOMAIN names : Below(p, q)
    /\ names' = Without(names, {p})

\* The file at `old` takes the name `new`, in place of an empty victim.
Rename(old, new) ==
    /\ old \in DOMAIN names \ {Root} /\ new # Root /\ ~Within(old, new)
    /\ Parent(new) \in DOMAIN names
    /\ ~\E q \in DOMAIN names : Below(new, q)
    /\ names' = MoveKeys(Without(names, {new}), old, new)

\* The new name of a step is one of names', an old name one it no longer has.
Next == \/ \E p \in DOMAIN names' \ DOMAIN names : Create(p, names'[p])
        \/ \E p \in DOMAIN names \ DOMAIN names' : Unlink(p)
        \/ \E old \in DOMAIN names \ DOMAIN names', new \in DOMAIN names' : Rename(old, new)

Spec == Init /\ [][Next]_names
=============================================================================
