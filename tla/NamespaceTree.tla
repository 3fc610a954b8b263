--------------------------- MODULE NamespaceTree ----------------------------
(***************************************************************************)
(* Paths, tables keyed by paths and the tree of names; and Base, the       *)
(* invariant the theorems about Namespace rest on: the tree is a tree, the *)
(* caches hold live objects, a rename in progress knows where the victim is.*)
(* Every step but the re-keying of the tables keeps it.                    *)
(***************************************************************************)
EXTENDS Namespace, TLAPS

\* The default prover and its time; steps with arithmetic, records or sequences cite SMT.
USE ZenonT(40)

-----------------------------------------------------------------------------
(* Paths.                                                                  *)

\* Paths, of any names and of names the kernel knows; a path's ancestors.
Path == Seq(Nat)
User == Seq(Names)
Ancestors(p) == {SubSeq(p, 1, k) : k \in 0 .. Len(p)}

\* A path is determined by its names.
LEMMA PathLen ==
  ASSUME NEW p \in Path
  PROVE  /\ Len(p) \in Nat /\ \A i \in 1 .. Len(p) : p[i] \in Nat
         /\ p = Root <=> Len(p) = 0
  BY SMTT(40) DEF Path, Root

\* Two paths of one length with the same names are one path.
LEMMA PathEqual ==
  ASSUME NEW p \in Path, NEW q \in Path, Len(p) = Len(q), \A i \in 1 .. Len(p) : p[i] = q[i]
  PROVE  p = q
  BY SMTT(40) DEF Path

\* hasPrefix, name by name.
LEMMA WithinIff ==
  ASSUME NEW a \in Path, NEW p \in Path
  PROVE  Within(a, p) <=> Len(a) <= Len(p) /\ \A i \in 1 .. Len(a) : a[i] = p[i]
  BY SMTT(40) DEF Within, Path

\* The root is a path, of no names.
LEMMA RootPath == Root \in Path /\ Len(Root) = 0 /\ Root \in User
  BY SMTT(40) DEF Path, Root, User

\* Within is a partial order with the root below everything.
LEMMA WithinOrder ==
  /\ \A p \in Path : Within(p, p) /\ Within(Root, p)
  /\ \A p \in Path : Within(p, Root) => p = Root
  /\ \A a, b, c \in Path : Within(a, b) /\ Within(b, c) => Within(a, c)
  /\ \A a, b \in Path : Within(a, b) /\ Within(b, a) => a = b
  <1>1. ASSUME NEW p \in Path PROVE Within(p, p) /\ Within(Root, p)
    BY WithinIff, PathLen, RootPath, SMTT(40)
  <1>2. ASSUME NEW p \in Path, Within(p, Root) PROVE p = Root
    BY <1>2, WithinIff, PathLen, RootPath, SMTT(40)
  <1>3. ASSUME NEW a \in Path, NEW b \in Path, NEW c \in Path, Within(a, b), Within(b, c)
        PROVE  Within(a, c)
    <2>1. /\ Len(a) <= Len(b) /\ \A i \in 1 .. Len(a) : a[i] = b[i]
          /\ Len(b) <= Len(c) /\ \A i \in 1 .. Len(b) : b[i] = c[i]
          /\ Len(a) \in Nat /\ Len(b) \in Nat /\ Len(c) \in Nat
      BY <1>3, WithinIff, PathLen
    <2>2. Len(a) <= Len(c) /\ \A i \in 1 .. Len(a) : a[i] = c[i]
      BY <2>1, SMTT(40)
    <2> QED  BY <2>2, WithinIff
  <1>4. ASSUME NEW a \in Path, NEW b \in Path, Within(a, b), Within(b, a) PROVE a = b
    <2>1. /\ Len(a) <= Len(b) /\ Len(b) <= Len(a) /\ \A i \in 1 .. Len(a) : a[i] = b[i]
          /\ Len(a) \in Nat /\ Len(b) \in Nat
      BY <1>4, WithinIff, PathLen
    <2>2. Len(a) = Len(b)  BY <2>1, SMTT(40)
    <2> QED  BY <2>1, <2>2, PathEqual
  <1> QED  BY <1>1, <1>2, <1>3, <1>4

\* Two directories on the way to one path lie on the way to one another.
LEMMA WithinLinear ==
  ASSUME NEW a \in Path, NEW b \in Path, NEW p \in Path, Within(a, p), Within(b, p)
  PROVE  Within(a, b) \/ Within(b, a)
  <1>1. /\ \A i \in 1 .. Len(a) : a[i] = p[i]
        /\ \A i \in 1 .. Len(b) : b[i] = p[i]
        /\ Len(a) \in Nat /\ Len(b) \in Nat
    BY WithinIff, PathLen
  <1>2. CASE Len(a) <= Len(b)
    <2>1. \A i \in 1 .. Len(a) : a[i] = b[i]  BY <1>1, <1>2, SMTT(40)
    <2> QED  BY <1>2, <2>1, WithinIff
  <1>3. CASE Len(b) <= Len(a)
    <2>1. \A i \in 1 .. Len(b) : b[i] = a[i]  BY <1>1, <1>3, SMTT(40)
    <2> QED  BY <1>3, <2>1, WithinIff
  <1> QED  BY <1>1, <1>2, <1>3, SMTT(40)

\* A path that is not the root is its parent and its last name.
LEMMA ParentLast ==
  ASSUME NEW p \in Path, p # Root
  PROVE  /\ Parent(p) \in Path /\ Len(Parent(p)) = Len(p) - 1 /\ Last(p) \in Nat
         /\ \A i \in 1 .. Len(p) - 1 : Parent(p)[i] = p[i]
         /\ Append(Parent(p), Last(p)) = p
         /\ Within(Parent(p), p) /\ ~Within(p, Parent(p)) /\ Parent(p) # p
         /\ Len(p) \in Nat \ {0}
  <1>1. Len(p) \in Nat \ {0} /\ \A i \in 1 .. Len(p) : p[i] \in Nat
    BY PathLen
  <1>2. /\ Parent(p) \in Path /\ Len(Parent(p)) = Len(p) - 1
        /\ \A i \in 1 .. Len(p) - 1 : Parent(p)[i] = p[i]
    <2>1. \A i \in 1 .. Len(p) - 1 : p[i] \in Nat  BY <1>1, SMTT(40)
    <2>2. /\ Parent(p) \in Seq(Nat)
          /\ Len(Parent(p)) = IF 1 <= Len(p) - 1 THEN Len(p) - 1 - 1 + 1 ELSE 0
          /\ \A i \in 1 .. Len(p) - 1 - 1 + 1 : Parent(p)[i] = p[1 + i - 1]
      BY <1>1, <2>1, SMTT(40) DEF Parent
    <2>3. \A n \in Nat \ {0} : /\ n - 1 - 1 + 1 = n - 1 /\ (1 <= n - 1 \/ n - 1 = 0)
                              /\ \A i \in 1 .. n - 1 : 1 + i - 1 = i
      BY SMTT(40)
    <2>4. Len(Parent(p)) = Len(p) - 1
      BY <1>1, <2>2, <2>3
    <2>5. \A i \in 1 .. Len(p) - 1 : Parent(p)[i] = p[i]
      BY <1>1, <2>2, <2>3
    <2> QED  BY <2>2, <2>4, <2>5 DEF Path
  <1>3. Last(p) \in Nat /\ Last(p) = p[Len(p)]
    BY <1>1, SMTT(40) DEF Last
  <1>4. Within(Parent(p), p)
    <2>1. Len(Parent(p)) <= Len(p) /\ \A i \in 1 .. Len(Parent(p)) : Parent(p)[i] = p[i]
      BY <1>1, <1>2, SMTT(40)
    <2> QED  BY <1>2, <2>1, WithinIff
  <1>5. Append(Parent(p), Last(p)) = p
    <2> DEFINE q == Append(Parent(p), Last(p))
    <2>1. /\ q \in Path /\ Len(q) = Len(Parent(p)) + 1
          /\ \A i \in 1 .. Len(Parent(p)) : q[i] = Parent(p)[i]
          /\ q[Len(Parent(p)) + 1] = Last(p)
      BY <1>2, <1>3, SMTT(40) DEF Path
    <2> HIDE DEF q
    <2>2. Len(q) = Len(p) /\ q[Len(p)] = p[Len(p)]
      BY <1>1, <1>2, <1>3, <2>1, SMTT(40)
    <2>3. \A i \in 1 .. Len(p) - 1 : q[i] = p[i]
      BY <1>1, <1>2, <2>1
    <2>4. \A i \in 1 .. Len(q) : q[i] = p[i]
      BY <1>1, <2>2, <2>3, SMTT(40)
    <2>5. q = p
      BY <2>1, <2>2, <2>4, PathEqual
    <2> QED  BY <2>5 DEF q
  <1>6. ~Within(p, Parent(p))
    <2> HIDE DEF Path
    <2>1. ~(Len(p) <= Len(Parent(p)))  BY <1>1, <1>2, SMTT(40)
    <2> QED  BY <1>2, <2>1, WithinIff
  <1> QED  BY <1>1, <1>2, <1>3, <1>4, <1>5, <1>6

\* The parent and the last name of an appended path.
LEMMA AppendPath ==
  ASSUME NEW d \in Path, NEW n \in Nat
  PROVE  /\ Append(d, n) \in Path /\ Append(d, n) # Root /\ Len(Append(d, n)) = Len(d) + 1
         /\ Parent(Append(d, n)) = d /\ Last(Append(d, n)) = n
  <1> DEFINE p == Append(d, n)
  <1>1. /\ p \in Path /\ p # Root /\ Len(p) = Len(d) + 1
        /\ \A i \in 1 .. Len(d) : p[i] = d[i]
        /\ p[Len(d) + 1] = n /\ Len(d) \in Nat
    <2>1. d \in Seq(Nat) /\ Len(d) \in Nat  BY PathLen DEF Path
    <2>2. p \in Seq(Nat) /\ Len(p) = Len(d) + 1  BY <2>1, SMTT(40)
    <2>3. \A i \in 1 .. Len(d) : p[i] = d[i]  BY <2>1, SMTT(40)
    <2>4. p[Len(d) + 1] = n  BY <2>1, SMTT(40)
    <2>5. p # <<>>  BY <2>1, <2>2, SMTT(40)
    <2> QED  BY <2>1, <2>2, <2>3, <2>4, <2>5 DEF Path, Root
  <1> HIDE DEF p
  <1>2. /\ Parent(p) \in Path /\ Len(Parent(p)) = Len(p) - 1
        /\ \A i \in 1 .. Len(p) - 1 : Parent(p)[i] = p[i]
    BY <1>1, ParentLast
  <1>3. Len(Parent(p)) = Len(d) /\ \A i \in 1 .. Len(Parent(p)) : Parent(p)[i] = d[i]
    BY <1>1, <1>2, SMTT(40)
  <1>4. Parent(p) = d
    BY <1>2, <1>3, PathEqual
  <1>5. Last(p) = n
    BY <1>1 DEF Last
  <1> QED  BY <1>1, <1>4, <1>5 DEF p

\* What lies on the way to a path: the path, or what lies on the way to its parent.
LEMMA WithinParent ==
  ASSUME NEW a \in Path, NEW p \in Path, p # Root
  PROVE  Within(a, p) <=> a = p \/ Within(a, Parent(p))
  <1>1. /\ Parent(p) \in Path /\ Len(Parent(p)) = Len(p) - 1 /\ Within(Parent(p), p)
        /\ \A i \in 1 .. Len(p) - 1 : Parent(p)[i] = p[i] /\ Len(p) \in Nat \ {0}
    BY ParentLast
  <1>2. a = p \/ Within(a, Parent(p)) => Within(a, p)
    BY <1>1, WithinOrder
  <1>3. ASSUME Within(a, p), a # p PROVE Within(a, Parent(p))
    <2>1. Len(a) <= Len(p) /\ (\A i \in 1 .. Len(a) : a[i] = p[i]) /\ Len(a) \in Nat /\ Len(p) \in Nat
      BY <1>3, WithinIff, PathLen
    <2>2. Len(a) # Len(p)
      BY <1>3, <2>1, PathEqual
    <2>3. Len(a) <= Len(Parent(p)) /\ \A i \in 1 .. Len(a) : a[i] = Parent(p)[i]
      BY <1>1, <2>1, <2>2, SMTT(40)
    <2> QED  BY <1>1, <2>3, WithinIff
  <1> QED  BY <1>2, <1>3

\* Ancestors(p) are the paths p lies within, p included.
LEMMA AncestorsIff ==
  ASSUME NEW p \in Path, NEW q
  PROVE  q \in Ancestors(p) <=> q \in Path /\ Within(q, p)
  <1>1. Len(p) \in Nat /\ \A i \in 1 .. Len(p) : p[i] \in Nat
    BY PathLen
  <1>2. ASSUME NEW k \in 0 .. Len(p)
        PROVE  /\ SubSeq(p, 1, k) \in Path /\ Len(SubSeq(p, 1, k)) = k
               /\ \A i \in 1 .. k : SubSeq(p, 1, k)[i] = p[i]
    <2>1. k \in Int /\ 1 \in Int /\ \A i \in 1 .. k : p[i] \in Nat
      BY <1>1, SMTT(40)
    <2>2. /\ SubSeq(p, 1, k) \in Seq(Nat)
          /\ Len(SubSeq(p, 1, k)) = IF 1 <= k THEN k - 1 + 1 ELSE 0
          /\ \A i \in 1 .. k - 1 + 1 : SubSeq(p, 1, k)[i] = p[1 + i - 1]
      BY <2>1, SMTT(40)
    <2> QED  BY <1>1, <2>2, SMTT(40) DEF Path
  <1>3. ASSUME q \in Ancestors(p) PROVE q \in Path /\ Within(q, p)
    <2>1. PICK k \in 0 .. Len(p) : q = SubSeq(p, 1, k)
      BY <1>3 DEF Ancestors
    <2>2. q \in Path /\ Len(q) = k /\ \A i \in 1 .. k : q[i] = p[i]
      BY <1>2, <2>1
    <2>3. Len(q) <= Len(p) /\ \A i \in 1 .. Len(q) : q[i] = p[i]
      BY <1>1, <2>2, SMTT(40)
    <2> QED  BY <2>2, <2>3, WithinIff
  <1>4. ASSUME q \in Path, Within(q, p) PROVE q \in Ancestors(p)
    <2>1. Len(q) <= Len(p) /\ (\A i \in 1 .. Len(q) : q[i] = p[i]) /\ Len(q) \in Nat
      BY <1>4, WithinIff, PathLen
    <2>2. Len(q) \in 0 .. Len(p)  BY <1>1, <2>1, SMTT(40)
    <2>3. SubSeq(p, 1, Len(q)) \in Path /\ Len(SubSeq(p, 1, Len(q))) = Len(q)
          /\ \A i \in 1 .. Len(q) : SubSeq(p, 1, Len(q))[i] = q[i]
      BY <1>2, <2>1, <2>2
    <2>4. SubSeq(p, 1, Len(q)) = q
      BY <1>4, <2>3, PathEqual
    <2> QED  BY <2>2, <2>4 DEF Ancestors
  <1> QED  BY <1>3, <1>4

\* The paths the kernel can name: their names are names.
LEMMA UserIff ==
  ASSUME NEW p \in Path
  PROVE  p \in User <=> \A i \in 1 .. Len(p) : p[i] \in Names
  <1>1. ASSUME p \in User PROVE \A i \in 1 .. Len(p) : p[i] \in Names
    BY <1>1, SMTT(40) DEF User
  <1>2. ASSUME \A i \in 1 .. Len(p) : p[i] \in Names PROVE p \in User
    <2>1. p \in [1 .. Len(p) -> Nat] /\ Len(p) \in Nat
      BY SMTT(40) DEF Path
    <2>2. p \in [1 .. Len(p) -> Names]
      BY <1>2, <2>1
    <2> QED  BY <2>1, <2>2, SMTT(40) DEF User
  <1> QED  BY <1>1, <1>2

\* Paths of the kernel's names are paths, with their ancestors.
LEMMA UserPath ==
  /\ Names \subseteq Nat /\ User \subseteq Path
  /\ \A a \in Path, p \in User : Within(a, p) => a \in User
  /\ \A p \in Path : p # Root => (p \in User <=> Parent(p) \in User /\ Last(p) \in Names)
  /\ \A d \in User, n \in Names : Append(d, n) \in User
  <1>1. Names \subseteq Nat  BY NamespaceAssumption, SMTT(40) DEF Names
  <1>2. ASSUME NEW p \in User PROVE p \in Path
    <2>1. p \in [1 .. Len(p) -> Names] /\ Len(p) \in Nat  BY SMTT(40) DEF User
    <2>2. p \in [1 .. Len(p) -> Nat]  BY <1>1, <2>1
    <2> QED  BY <2>1, <2>2, SMTT(40) DEF Path
  <1>3. ASSUME NEW a \in Path, NEW p \in User, Within(a, p) PROVE a \in User
    <2>1. p \in Path  BY <1>2
    <2>2. Len(a) <= Len(p) /\ (\A i \in 1 .. Len(a) : a[i] = p[i]) /\ Len(a) \in Nat /\ Len(p) \in Nat
      BY <1>3, <2>1, WithinIff, PathLen
    <2>3. \A i \in 1 .. Len(p) : p[i] \in Names  BY <2>1, UserIff
    <2>4. \A i \in 1 .. Len(a) : a[i] \in Names  BY <2>2, <2>3, SMTT(40)
    <2> QED  BY <2>4, UserIff
  <1>4. ASSUME NEW p \in Path, p # Root
        PROVE  p \in User <=> Parent(p) \in User /\ Last(p) \in Names
    <2>1. /\ Parent(p) \in Path /\ Len(Parent(p)) = Len(p) - 1 /\ Len(p) \in Nat \ {0}
          /\ \A i \in 1 .. Len(p) - 1 : Parent(p)[i] = p[i]
      BY <1>4, ParentLast
    <2>2. (\A i \in 1 .. Len(p) : p[i] \in Names)
            <=> (\A i \in 1 .. Len(Parent(p)) : Parent(p)[i] \in Names) /\ p[Len(p)] \in Names
      <3>1. ASSUME \A i \in 1 .. Len(p) : p[i] \in Names
            PROVE  (\A i \in 1 .. Len(Parent(p)) : Parent(p)[i] \in Names) /\ p[Len(p)] \in Names
        BY <2>1, <3>1, SMTT(40)
      <3>2. ASSUME \A i \in 1 .. Len(Parent(p)) : Parent(p)[i] \in Names, p[Len(p)] \in Names,
                   NEW i \in 1 .. Len(p)
            PROVE  p[i] \in Names
        BY <2>1, <3>2, SMTT(40)
      <3> QED  BY <3>1, <3>2
    <2> QED  BY <2>1, <2>2, UserIff DEF Last
  <1>5. ASSUME NEW d \in User, NEW n \in Names PROVE Append(d, n) \in User
    BY SMTT(40) DEF User
  <1> QED  BY <1>1, <1>2, <1>3, <1>4, <1>5

\* Rebase, name by name.
LEMMA RebaseShape ==
  ASSUME NEW p \in Path, NEW old \in Path, NEW new \in Path, Within(old, p)
  PROVE  /\ Rebase(p, old, new) \in Path
         /\ Len(Rebase(p, old, new)) = Len(new) + Len(p) - Len(old)
         /\ \A i \in 1 .. Len(new) : Rebase(p, old, new)[i] = new[i]
         /\ \A i \in 1 .. Len(p) - Len(old) : Rebase(p, old, new)[Len(new) + i] = p[Len(old) + i]
  <1> DEFINE s == SubSeq(p, Len(old) + 1, Len(p))
  <1>1. Len(old) <= Len(p) /\ Len(old) \in Nat /\ Len(p) \in Nat /\ Len(new) \in Nat
    BY WithinIff, PathLen
  <1>2. \A i \in Len(old) + 1 .. Len(p) : p[i] \in Nat
    BY <1>1, PathLen, SMTT(40)
  <1>3. s \in Path /\ Len(s) = Len(p) - Len(old)
        /\ \A i \in 1 .. Len(p) - Len(old) : s[i] = p[Len(old) + i]
    <2>1. /\ s \in Seq(Nat)
          /\ Len(s) = IF Len(old) + 1 <= Len(p) THEN Len(p) - (Len(old) + 1) + 1 ELSE 0
          /\ \A i \in 1 .. Len(p) - (Len(old) + 1) + 1 : s[i] = p[(Len(old) + 1) + i - 1]
      BY <1>1, <1>2, SMTT(40)
    <2> QED  BY <2>1, <1>1, SMTT(40) DEF Path
  <1> HIDE DEF s
  <1>4. /\ new \o s \in Path /\ Len(new \o s) = Len(new) + Len(s)
        /\ \A i \in 1 .. Len(new) + Len(s) :
              (new \o s)[i] = IF i <= Len(new) THEN new[i] ELSE s[i - Len(new)]
    <2>1. new \in Seq(Nat) /\ s \in Seq(Nat)  BY <1>3 DEF Path
    <2>2. new \o s \in Seq(Nat) /\ Len(new \o s) = Len(new) + Len(s)  BY <2>1, SMTT(40)
    <2>3. \A i \in 1 .. Len(new) + Len(s) :
              (new \o s)[i] = IF i <= Len(new) THEN new[i] ELSE s[i - Len(new)]
      BY <2>1, SMTT(40)
    <2> QED  BY <2>2, <2>3 DEF Path
  <1>5. ASSUME NEW i \in 1 .. Len(p) - Len(old)
        PROVE  (new \o s)[Len(new) + i] = p[Len(old) + i]
    <2>1. /\ Len(new) + i \in 1 .. Len(new) + Len(s) /\ ~(Len(new) + i <= Len(new))
          /\ Len(new) + i - Len(new) = i
      BY <1>1, <1>3, SMTT(40)
    <2>2. (new \o s)[Len(new) + i] = s[Len(new) + i - Len(new)]
      BY <1>4, <2>1, SMTT(40)
    <2> QED  BY <1>3, <2>1, <2>2
  <1>6. Rebase(p, old, new) = new \o s
    BY DEF s, Rebase
  <1>7. \A i \in 1 .. Len(new) : (new \o s)[i] = new[i]
    BY <1>1, <1>3, <1>4, SMTT(40)
  <1> QED  BY <1>1, <1>3, <1>4, <1>5, <1>6, <1>7

\* A re-based path is below the new name.
LEMMA RebaseWithin ==
  ASSUME NEW p \in Path, NEW old \in Path, NEW new \in Path, Within(old, p)
  PROVE  Rebase(p, old, new) \in Path /\ Within(new, Rebase(p, old, new))
  <1> DEFINE r == Rebase(p, old, new)
  <1>1. /\ r \in Path /\ Len(r) = Len(new) + Len(p) - Len(old)
        /\ \A i \in 1 .. Len(new) : r[i] = new[i]
    BY RebaseShape
  <1> HIDE DEF r
  <1>2. Len(old) <= Len(p) /\ Len(old) \in Nat /\ Len(p) \in Nat /\ Len(new) \in Nat
    BY WithinIff, PathLen
  <1>3. Len(new) <= Len(r) /\ \A i \in 1 .. Len(new) : new[i] = r[i]
    BY <1>1, <1>2, SMTT(40)
  <1>4. Within(new, r)
    BY <1>1, <1>3, WithinIff
  <1> QED  BY <1>1, <1>4 DEF r

\* Moving there and back.
LEMMA RebaseBack ==
  ASSUME NEW p \in Path, NEW old \in Path, NEW new \in Path, Within(old, p)
  PROVE  Rebase(Rebase(p, old, new), new, old) = p
  <1> DEFINE r == Rebase(p, old, new)
             b == Rebase(r, new, old)
  <1>0. Len(old) \in Nat /\ Len(p) \in Nat /\ Len(new) \in Nat /\ Len(old) <= Len(p)
    BY WithinIff, PathLen
  <1>1. /\ r \in Path /\ Within(new, r) /\ Len(r) = Len(new) + Len(p) - Len(old)
        /\ \A i \in 1 .. Len(p) - Len(old) : r[Len(new) + i] = p[Len(old) + i]
    BY RebaseShape, RebaseWithin
  <1> HIDE DEF r
  <1>2. /\ b \in Path /\ Len(b) = Len(old) + Len(r) - Len(new)
        /\ \A i \in 1 .. Len(old) : b[i] = old[i]
        /\ \A i \in 1 .. Len(r) - Len(new) : b[Len(old) + i] = r[Len(new) + i]
    <2>1. b \in Path /\ Len(b) = Len(old) + Len(r) - Len(new)
      BY <1>1, RebaseShape
    <2>2. \A i \in 1 .. Len(old) : b[i] = old[i]
      BY <1>1, RebaseShape
    <2>3. \A i \in 1 .. Len(r) - Len(new) : b[Len(old) + i] = r[Len(new) + i]
      BY <1>1, RebaseShape
    <2> QED  BY <2>1, <2>2, <2>3
  <1> HIDE DEF b
  <1>3. Len(b) = Len(p)
    BY <1>0, <1>1, <1>2, SMTT(40)
  <1>4. ASSUME NEW i \in 1 .. Len(p) PROVE b[i] = p[i]
    <2>1. CASE i <= Len(old)
      BY <2>1, <1>0, <1>2, WithinIff, SMTT(40)
    <2>2. CASE i > Len(old)
      <3>1. /\ i - Len(old) \in 1 .. Len(p) - Len(old) /\ Len(old) + (i - Len(old)) = i
            /\ Len(r) - Len(new) = Len(p) - Len(old)
        BY <2>2, <1>0, <1>1, SMTT(40)
      <3> QED  BY <3>1, <1>1, <1>2
    <2> QED  BY <2>1, <2>2, <1>0, SMTT(40)
  <1>5. b = p
    BY <1>2, <1>3, <1>4, PathEqual
  <1> QED  BY <1>5 DEF b, r

\* The directory itself takes the new name, and only it does; a directory
\* moved onto itself stays.
LEMMA RebaseSelf ==
  ASSUME NEW old \in Path, NEW new \in Path
  PROVE  /\ Rebase(old, old, new) = new
         /\ \A p \in Path : Within(old, p) => Rebase(p, old, old) = p
         /\ \A p \in Path : Within(old, p) => (Rebase(p, old, new) = new <=> p = old)
  <1>0. Len(old) \in Nat /\ Len(new) \in Nat /\ Within(old, old) /\ Within(new, new)
    BY PathLen, WithinOrder
  <1>1. ASSUME NEW o \in Path, NEW n \in Path PROVE Rebase(o, o, n) = n
    <2> DEFINE r == Rebase(o, o, n)
    <2>0. Within(o, o)  BY WithinOrder
    <2>1. r \in Path /\ Len(r) = Len(n) + Len(o) - Len(o) /\ \A i \in 1 .. Len(n) : r[i] = n[i]
      BY <2>0, RebaseShape
    <2> HIDE DEF r
    <2>2. Len(r) = Len(n)  BY <2>1, PathLen, SMTT(40)
    <2>3. r = n  BY <2>1, <2>2, PathEqual
    <2> QED  BY <2>3 DEF r
  <1>2. ASSUME NEW p \in Path, Within(old, p) PROVE Rebase(p, old, old) = p
    <2> DEFINE r == Rebase(p, old, old)
    <2>1. /\ r \in Path /\ Len(r) = Len(old) + Len(p) - Len(old)
          /\ \A i \in 1 .. Len(old) : r[i] = old[i]
          /\ \A i \in 1 .. Len(p) - Len(old) : r[Len(old) + i] = p[Len(old) + i]
      BY <1>2, RebaseShape
    <2> HIDE DEF r
    <2>2. Len(p) \in Nat /\ Len(old) <= Len(p) /\ \A i \in 1 .. Len(old) : old[i] = p[i]
      BY <1>2, WithinIff, PathLen
    <2>3. Len(r) = Len(p)  BY <1>0, <2>1, <2>2, SMTT(40)
    <2>4. ASSUME NEW i \in 1 .. Len(p) PROVE r[i] = p[i]
      <3>1. CASE i <= Len(old)  BY <1>0, <2>1, <2>2, <3>1, SMTT(40)
      <3>2. CASE i > Len(old)
        <4>1. i - Len(old) \in 1 .. Len(p) - Len(old) /\ Len(old) + (i - Len(old)) = i
          BY <1>0, <2>2, <3>2, SMTT(40)
        <4> QED  BY <2>1, <4>1
      <3> QED  BY <1>0, <3>1, <3>2, SMTT(40)
    <2>5. r = p  BY <2>1, <2>3, <2>4, PathEqual
    <2> QED  BY <2>5 DEF r
  <1>3. ASSUME NEW p \in Path, Within(old, p) PROVE Rebase(p, old, new) = new <=> p = old
    <2>1. p = old => Rebase(p, old, new) = new  BY <1>1
    <2>2. ASSUME Rebase(p, old, new) = new PROVE p = old
      <3>1. Rebase(new, new, old) = p  BY <1>3, <2>2, RebaseBack
      <3> QED  BY <1>1, <3>1
    <2> QED  BY <2>1, <2>2
  <1> QED  BY <1>1, <1>2, <1>3

\* Rebase keeps what lies within what.
LEMMA RebaseMono ==
  ASSUME NEW a \in Path, NEW p \in Path, NEW old \in Path, NEW new \in Path,
         Within(old, a), Within(a, p)
  PROVE  Within(Rebase(a, old, new), Rebase(p, old, new))
  <1> DEFINE x == Rebase(a, old, new)
             y == Rebase(p, old, new)
  <1> HIDE DEF x, y
  <1>0. /\ Len(old) \in Nat /\ Len(a) \in Nat /\ Len(p) \in Nat /\ Len(new) \in Nat
        /\ Len(old) <= Len(a) /\ Len(a) <= Len(p) /\ \A i \in 1 .. Len(a) : a[i] = p[i]
    BY WithinIff, PathLen
  <1>1. /\ x \in Path /\ Len(x) = Len(new) + Len(a) - Len(old)
        /\ \A i \in 1 .. Len(new) : x[i] = new[i]
        /\ \A i \in 1 .. Len(a) - Len(old) : x[Len(new) + i] = a[Len(old) + i]
    <2>1. x \in Path /\ Len(x) = Len(new) + Len(a) - Len(old)  BY RebaseShape DEF x
    <2>2. \A i \in 1 .. Len(new) : x[i] = new[i]  BY RebaseShape, SMTT(40) DEF x
    <2>3. \A i \in 1 .. Len(a) - Len(old) : x[Len(new) + i] = a[Len(old) + i]
      BY RebaseShape DEF x
    <2> QED  BY <2>1, <2>2, <2>3
  <1>2. Within(old, p)  BY WithinOrder
  <1>3. /\ y \in Path /\ Len(y) = Len(new) + Len(p) - Len(old)
        /\ \A i \in 1 .. Len(new) : y[i] = new[i]
        /\ \A i \in 1 .. Len(p) - Len(old) : y[Len(new) + i] = p[Len(old) + i]
    <2>1. y \in Path /\ Len(y) = Len(new) + Len(p) - Len(old)
      BY <1>2, RebaseShape DEF y
    <2>2. \A i \in 1 .. Len(new) : y[i] = new[i]
      BY <1>2, RebaseShape DEF y
    <2>3. \A i \in 1 .. Len(p) - Len(old) : y[Len(new) + i] = p[Len(old) + i]
      BY <1>2, RebaseShape DEF y
    <2> QED  BY <2>1, <2>2, <2>3
  <1>4. Len(x) <= Len(y)  BY <1>0, <1>1, <1>3, SMTT(40)
  <1>5. ASSUME NEW i \in 1 .. Len(x) PROVE x[i] = y[i]
    <2>1. CASE i <= Len(new)  BY <1>0, <1>1, <1>3, <2>1, SMTT(40)
    <2>2. CASE i > Len(new)
      <3> DEFINE k == i - Len(new)
      <3>1. /\ k \in 1 .. Len(a) - Len(old) /\ k \in 1 .. Len(p) - Len(old)
            /\ Len(new) + k = i /\ Len(old) + k \in 1 .. Len(a)
        BY <1>0, <1>1, <2>2, SMTT(40)
      <3> HIDE DEF k
      <3> QED  BY <1>0, <1>1, <1>3, <3>1
    <2> QED  BY <1>0, <1>1, <2>1, <2>2, SMTT(40)
  <1>6. Within(x, y)  BY <1>1, <1>3, <1>4, <1>5, WithinIff
  <1> QED  BY <1>6 DEF x, y

\* The way to a moved path: the way to the new name, and what moved with it.
LEMMA RebaseAncestor ==
  ASSUME NEW p \in Path, NEW old \in Path, NEW new \in Path, NEW q \in Path,
         Within(old, p), Within(q, Rebase(p, old, new))
  PROVE  \/ Within(q, new)
         \/ /\ Within(new, q) /\ Rebase(q, new, old) \in Path
            /\ Within(old, Rebase(q, new, old)) /\ Within(Rebase(q, new, old), p)
  <1>1. Rebase(p, old, new) \in Path /\ Within(new, Rebase(p, old, new))
    BY RebaseWithin
  <1>2. Within(q, new) \/ Within(new, q)
    BY <1>1, WithinLinear
  <1>3. ASSUME Within(new, q) PROVE Within(Rebase(q, new, old), p)
    <2>1. Within(Rebase(q, new, old), Rebase(Rebase(p, old, new), new, old))
      BY <1>1, <1>3, RebaseMono
    <2> QED  BY <2>1, RebaseBack
  <1> QED  BY <1>2, <1>3, RebaseWithin

\* Below the moved directory names stay as they are.
LEMMA RebaseParent ==
  ASSUME NEW p \in Path, NEW old \in Path, NEW new \in Path, Below(old, p)
  PROVE  /\ p # Root /\ Within(old, Parent(p))
         /\ Rebase(p, old, new) # Root /\ Below(new, Rebase(p, old, new))
         /\ Parent(Rebase(p, old, new)) = Rebase(Parent(p), old, new)
         /\ Last(Rebase(p, old, new)) = Last(p)
  <1> DEFINE r == Rebase(p, old, new)
             m == Rebase(Parent(p), old, new)
  <1> HIDE DEF r, m
  <1>0. Within(old, p) /\ old # p
    BY DEF Below
  <1>1. p # Root /\ Within(old, Parent(p))
    BY <1>0, WithinOrder, WithinParent, SMTT(40)
  <1>2. /\ Parent(p) \in Path /\ Len(Parent(p)) = Len(p) - 1
        /\ \A i \in 1 .. Len(p) - 1 : Parent(p)[i] = p[i]
    BY <1>1, ParentLast
  <1>3. /\ Len(p) \in Nat \ {0} /\ Len(old) \in Nat /\ Len(new) \in Nat /\ Len(old) <= Len(p) - 1
    BY <1>1, <1>2, ParentLast, WithinIff, PathLen, SMTT(40)
  <1>4. /\ r \in Path /\ Len(r) = Len(new) + Len(p) - Len(old)
        /\ \A i \in 1 .. Len(new) : r[i] = new[i]
        /\ \A i \in 1 .. Len(p) - Len(old) : r[Len(new) + i] = p[Len(old) + i]
        /\ Within(new, r) /\ r # new
    <2>1. Within(new, r)  BY <1>0, RebaseWithin DEF r
    <2>2. r # new  BY <1>0, RebaseSelf, SMTT(40) DEF r
    <2> QED  BY <1>0, <2>1, <2>2, RebaseShape DEF r
  <1>5. /\ m \in Path /\ Len(m) = Len(new) + (Len(p) - 1) - Len(old)
        /\ \A i \in 1 .. Len(new) : m[i] = new[i]
        /\ \A i \in 1 .. (Len(p) - 1) - Len(old) : m[Len(new) + i] = Parent(p)[Len(old) + i]
    <2>0. Parent(p) \in Path /\ Within(old, Parent(p))  BY <1>1, <1>2
    <2>1. m \in Path /\ Len(m) = Len(new) + Len(Parent(p)) - Len(old)
      BY <2>0, RebaseShape DEF m
    <2>2. \A i \in 1 .. Len(new) : m[i] = new[i]
      BY <2>0, RebaseShape DEF m
    <2>3. \A i \in 1 .. Len(Parent(p)) - Len(old) : m[Len(new) + i] = Parent(p)[Len(old) + i]
      BY <2>0, RebaseShape DEF m
    <2> QED  BY <1>2, <2>1, <2>2, <2>3
  <1>6. r # Root /\ Len(r) \in Nat \ {0}
    BY <1>3, <1>4, PathLen, SMTT(40)
  <1>7. /\ Parent(r) \in Path /\ Len(Parent(r)) = Len(r) - 1
        /\ \A i \in 1 .. Len(r) - 1 : Parent(r)[i] = r[i]
    BY <1>4, <1>6, ParentLast
  <1>8. Len(Parent(r)) = Len(m) /\ Len(m) \in Nat
    BY <1>3, <1>4, <1>5, <1>7, SMTT(40)
  <1>9. ASSUME NEW i \in 1 .. Len(m) PROVE Parent(r)[i] = m[i]
    <2>0. Parent(r)[i] = r[i]  BY <1>7, <1>8
    <2>1. CASE i <= Len(new)
      BY <1>3, <1>4, <1>5, <2>0, <2>1, SMTT(40)
    <2>2. CASE i > Len(new)
      <3> DEFINE k == i - Len(new)
      <3>1. /\ k \in 1 .. (Len(p) - 1) - Len(old) /\ k \in 1 .. Len(p) - Len(old)
            /\ Len(new) + k = i /\ Len(old) + k \in 1 .. Len(p) - 1
        BY <1>3, <1>5, <2>2, SMTT(40)
      <3> HIDE DEF k
      <3> QED  BY <1>2, <1>4, <1>5, <2>0, <3>1
    <2> QED  BY <1>3, <1>5, <2>1, <2>2, SMTT(40)
  <1>10. Parent(r) = m
    BY <1>5, <1>7, <1>8, <1>9, PathEqual
  <1>11. Last(r) = Last(p)
    <2> DEFINE k == Len(p) - Len(old)
    <2>1. k \in 1 .. Len(p) - Len(old) /\ Len(new) + k = Len(r) /\ Len(old) + k = Len(p)
      BY <1>3, <1>4, SMTT(40)
    <2> HIDE DEF k
    <2> QED  BY <1>4, <2>1 DEF Last
  <1> QED  BY <1>1, <1>4, <1>6, <1>10, <1>11 DEF r, m, Below

\* Moving between names of the kernel keeps the names below as they are.
LEMMA RebaseUser ==
  ASSUME NEW p \in Path, NEW old \in User, NEW new \in User, Within(old, p)
  PROVE  Rebase(p, old, new) \in User <=> p \in User
  <1>0. old \in Path /\ new \in Path  BY UserPath
  <1>1. ASSUME NEW q \in Path, NEW a \in User, NEW b \in User, Within(a, q), q \in User
        PROVE  Rebase(q, a, b) \in User
    <2> DEFINE r == Rebase(q, a, b)
    <2>0. a \in Path /\ b \in Path  BY UserPath
    <2>1. /\ r \in Path /\ Len(r) = Len(b) + Len(q) - Len(a)
          /\ \A i \in 1 .. Len(b) : r[i] = b[i]
          /\ \A i \in 1 .. Len(q) - Len(a) : r[Len(b) + i] = q[Len(a) + i]
      BY <1>1, <2>0, RebaseShape
    <2> HIDE DEF r
    <2>2. Len(a) \in Nat /\ Len(b) \in Nat /\ Len(q) \in Nat /\ Len(a) <= Len(q)
      BY <1>1, <2>0, PathLen, WithinIff
    <2>3. (\A i \in 1 .. Len(b) : b[i] \in Names) /\ (\A i \in 1 .. Len(q) : q[i] \in Names)
      BY <1>1, <2>0, UserIff
    <2>4. ASSUME NEW i \in 1 .. Len(r) PROVE r[i] \in Names
      <3>1. CASE i <= Len(b)  BY <2>1, <2>2, <2>3, <3>1, SMTT(40)
      <3>2. CASE i > Len(b)
        <4> DEFINE k == i - Len(b)
        <4>1. k \in 1 .. Len(q) - Len(a) /\ Len(b) + k = i /\ Len(a) + k \in 1 .. Len(q)
          BY <2>1, <2>2, <3>2, SMTT(40)
        <4> HIDE DEF k
        <4> QED  BY <2>1, <2>3, <4>1
      <3> QED  BY <2>1, <2>2, <3>1, <3>2, SMTT(40)
    <2>5. r \in User  BY <2>1, <2>4, UserIff
    <2> QED  BY <2>5 DEF r
  <1>2. p \in User => Rebase(p, old, new) \in User
    BY <1>1
  <1>3. ASSUME Rebase(p, old, new) \in User PROVE p \in User
    <2>1. Rebase(p, old, new) \in Path /\ Within(new, Rebase(p, old, new))
      BY <1>0, RebaseWithin
    <2>2. Rebase(Rebase(p, old, new), new, old) \in User
      BY <1>1, <1>3, <2>1
    <2> QED  BY <1>0, <2>2, RebaseBack
  <1> QED  BY <1>2, <1>3

-----------------------------------------------------------------------------
(* Path-keyed tables and the tree.                                         *)

\* A path-keyed table.
Table(f) == DOMAIN f \subseteq Path /\ f = [p \in DOMAIN f |-> f[p]]

\* The way from a directory to what lies below it starts with one of its entries.
LEMMA ChildOnTheWay ==
  ASSUME NEW d \in Path, NEW p \in Path, Below(d, p)
  PROVE  \E c \in Path : c # Root /\ Parent(c) = d /\ Within(c, p)
  <1>1. Within(d, p) /\ d # p
    BY DEF Below
  <1>2. /\ Len(d) \in Nat /\ Len(p) \in Nat /\ Len(d) <= Len(p) /\ \A i \in 1 .. Len(d) : d[i] = p[i]
    BY <1>1, WithinIff, PathLen
  <1>3. Len(d) + 1 \in 1 .. Len(p)
    BY <1>1, <1>2, PathEqual, SMTT(40)
  <1>4. p[Len(d) + 1] \in Nat
    BY <1>3, PathLen
  <1> DEFINE c == Append(d, p[Len(d) + 1])
  <1>5. /\ c \in Path /\ c # Root /\ Parent(c) = d /\ Len(c) = Len(d) + 1
    BY <1>4, AppendPath
  <1>6. /\ \A i \in 1 .. Len(d) : c[i] = d[i]
        /\ c[Len(d) + 1] = p[Len(d) + 1]
    BY <1>4, SMTT(40) DEF Path
  <1> HIDE DEF c
  <1>7. Len(c) <= Len(p) /\ \A i \in 1 .. Len(c) : c[i] = p[i]
    BY <1>2, <1>3, <1>5, <1>6, SMTT(40)
  <1> QED  BY <1>5, <1>7, WithinIff

\* What MoveKeys does to a table.
LEMMA MoveKeysShape ==
  ASSUME NEW f, Table(f), NEW old \in Path, NEW new \in Path
  PROVE  /\ Table(MoveKeys(f, old, new))
         /\ \A q : q \in DOMAIN MoveKeys(f, old, new) <=>
                \/ q \in DOMAIN f /\ ~Within(old, q)
                \/ q \in Path /\ Within(new, q) /\ Rebase(q, new, old) \in DOMAIN f
         /\ \A q \in DOMAIN MoveKeys(f, old, new) :
                MoveKeys(f, old, new)[q] =
                    IF Within(new, q) /\ Rebase(q, new, old) \in DOMAIN f
                    THEN f[Rebase(q, new, old)] ELSE f[q]
  <1> DEFINE gone == {p \in DOMAIN f : Within(old, p)}
             moved == {Rebase(p, old, new) : p \in gone}
  <1>1. ASSUME NEW q
        PROVE  q \in moved <=> q \in Path /\ Within(new, q) /\ Rebase(q, new, old) \in DOMAIN f
    <2>1. ASSUME q \in moved PROVE q \in Path /\ Within(new, q) /\ Rebase(q, new, old) \in DOMAIN f
      <3>1. PICK p \in gone : q = Rebase(p, old, new)
        BY <2>1
      <3>2. p \in DOMAIN f /\ p \in Path /\ Within(old, p)
        BY <3>1 DEF Table
      <3> QED  BY <3>1, <3>2, RebaseWithin, RebaseBack, SMTT(40)
    <2>2. ASSUME q \in Path, Within(new, q), Rebase(q, new, old) \in DOMAIN f PROVE q \in moved
      <3>1. Within(old, Rebase(q, new, old)) /\ Rebase(Rebase(q, new, old), old, new) = q
        BY <2>2, RebaseWithin, RebaseBack
      <3> QED  BY <2>2, <3>1
    <2> QED  BY <2>1, <2>2
  <1> HIDE DEF moved
  <1>2. MoveKeys(f, old, new) = [q \in (DOMAIN f \ gone) \cup moved |->
                                    IF q \in moved THEN f[Rebase(q, new, old)] ELSE f[q]]
    BY DEF MoveKeys, moved
  <1>3. DOMAIN MoveKeys(f, old, new) = (DOMAIN f \ gone) \cup moved
    BY <1>2
  <1>4. DOMAIN MoveKeys(f, old, new) \subseteq Path
    BY <1>1, <1>3 DEF Table
  <1>5. MoveKeys(f, old, new) = [q \in DOMAIN MoveKeys(f, old, new) |-> MoveKeys(f, old, new)[q]]
    BY <1>2
  <1>6. ASSUME NEW q \in DOMAIN MoveKeys(f, old, new)
        PROVE  MoveKeys(f, old, new)[q] =
                    IF Within(new, q) /\ Rebase(q, new, old) \in DOMAIN f
                    THEN f[Rebase(q, new, old)] ELSE f[q]
    <2>1. q \in Path  BY <1>4
    <2>2. q \in (DOMAIN f \ gone) \cup moved  BY <1>3
    <2>3. MoveKeys(f, old, new)[q] = IF q \in moved THEN f[Rebase(q, new, old)] ELSE f[q]
      BY <1>2, <2>2
    <2> QED  BY <1>1, <2>1, <2>3
  <1> QED  BY <1>1, <1>3, <1>4, <1>5, <1>6 DEF Table

\* Where an entry of the moved table comes from.
LEMMA MoveKeysFrom ==
  ASSUME NEW f, Table(f), NEW old \in Path, NEW new \in Path,
         NEW q \in DOMAIN MoveKeys(f, old, new)
  PROVE  \E p \in DOMAIN f : /\ MoveKeys(f, old, new)[q] = f[p]
                             /\ \/ q = p /\ ~Within(old, p)
                                \/ Within(old, p) /\ q = Rebase(p, old, new)
  <1>1. CASE q \in Path /\ Within(new, q) /\ Rebase(q, new, old) \in DOMAIN f
    <2>1. Within(old, Rebase(q, new, old)) /\ Rebase(Rebase(q, new, old), old, new) = q
      BY <1>1, RebaseWithin, RebaseBack
    <2>2. MoveKeys(f, old, new)[q] = f[Rebase(q, new, old)]
      BY <1>1, MoveKeysShape
    <2> QED  BY <1>1, <2>1, <2>2
  <1>2. CASE ~(q \in Path /\ Within(new, q) /\ Rebase(q, new, old) \in DOMAIN f)
    <2>1. q \in DOMAIN f /\ ~Within(old, q)
      BY <1>2, MoveKeysShape
    <2>2. q \in Path  BY <2>1 DEF Table
    <2>3. MoveKeys(f, old, new)[q] = f[q]
      BY <1>2, <2>2, MoveKeysShape
    <2> QED  BY <2>1, <2>3
  <1> QED  BY <1>1, <1>2

\* Where an entry of the table goes.
LEMMA MoveKeysTo ==
  ASSUME NEW f, Table(f), NEW old \in Path, NEW new \in Path, NEW p \in DOMAIN f
  PROVE  /\ Within(old, p) => /\ Rebase(p, old, new) \in DOMAIN MoveKeys(f, old, new)
                              /\ MoveKeys(f, old, new)[Rebase(p, old, new)] = f[p]
         /\ ~Within(old, p) /\ ~(Within(new, p) /\ Rebase(p, new, old) \in DOMAIN f) =>
                              /\ p \in DOMAIN MoveKeys(f, old, new)
                              /\ MoveKeys(f, old, new)[p] = f[p]
  <1>0. p \in Path  BY DEF Table
  <1>1. ASSUME Within(old, p)
        PROVE  /\ Rebase(p, old, new) \in DOMAIN MoveKeys(f, old, new)
               /\ MoveKeys(f, old, new)[Rebase(p, old, new)] = f[p]
    <2>1. /\ Rebase(p, old, new) \in Path /\ Within(new, Rebase(p, old, new))
          /\ Rebase(Rebase(p, old, new), new, old) = p
      BY <1>0, <1>1, RebaseWithin, RebaseBack
    <2>2. Rebase(p, old, new) \in DOMAIN MoveKeys(f, old, new)
      BY <2>1, MoveKeysShape, SMTT(40)
    <2> QED  BY <2>1, <2>2, MoveKeysShape, SMTT(40)
  <1>2. ASSUME ~Within(old, p), ~(Within(new, p) /\ Rebase(p, new, old) \in DOMAIN f)
        PROVE  p \in DOMAIN MoveKeys(f, old, new) /\ MoveKeys(f, old, new)[p] = f[p]
    <2>1. p \in DOMAIN MoveKeys(f, old, new)
      BY <1>2, MoveKeysShape
    <2> QED  BY <1>2, <2>1, MoveKeysShape
  <1> QED  BY <1>1, <1>2

\* Moving a name onto itself changes nothing.
LEMMA MoveKeysSame ==
  ASSUME NEW f, Table(f), NEW p \in Path
  PROVE  MoveKeys(f, p, p) = f
  <1> DEFINE g == MoveKeys(f, p, p)
  <1>1. ASSUME NEW q PROVE q \in DOMAIN g <=> q \in DOMAIN f
    <2>1. q \in DOMAIN f => q \in Path  BY DEF Table
    <2>2. q \in Path /\ Within(p, q) => Rebase(q, p, p) = q
      BY RebaseSelf
    <2> QED  BY <2>1, <2>2, MoveKeysShape, SMTT(40)
  <1>2. DOMAIN g = DOMAIN f  BY <1>1
  <1>3. ASSUME NEW q \in DOMAIN f PROVE g[q] = f[q]
    <2>1. q \in Path  BY DEF Table
    <2>2. Within(p, q) => Rebase(q, p, p) = q
      BY <2>1, RebaseSelf
    <2>3. q \in DOMAIN g  BY <1>2
    <2> QED  BY <2>2, <2>3, MoveKeysShape
  <1>4. g = [q \in DOMAIN g |-> g[q]] /\ f = [q \in DOMAIN f |-> f[q]]
    BY MoveKeysShape, SMTT(40) DEF Table
  <1> HIDE DEF g
  <1>5. g = f  BY <1>2, <1>3, <1>4
  <1> QED  BY <1>5 DEF g

\* A table without some of its keys.
LEMMA WithoutShape ==
  ASSUME NEW f, Table(f), NEW S
  PROVE  /\ Table(Without(f, S)) /\ DOMAIN Without(f, S) = DOMAIN f \ S
         /\ \A p \in DOMAIN f \ S : Without(f, S)[p] = f[p]
  BY DEF Table, Without

\* A table with one more key.
LEMMA WithShape ==
  ASSUME NEW f, Table(f), NEW p \in Path, NEW x
  PROVE  /\ Table(With(f, p, x)) /\ DOMAIN With(f, p, x) = DOMAIN f \cup {p}
         /\ With(f, p, x)[p] = x /\ \A q \in DOMAIN f \ {p} : With(f, p, x)[q] = f[q]
  BY DEF Table, With

\* A tree of n files: the directories on the way to an entry exist, no two
\* entries lead to one file, parked names are entries of named directories and
\* belong to the file they were made for.
Tree(f, n) ==
    /\ Table(f) /\ Root \in DOMAIN f /\ f[Root] = 0
    /\ \A p \in DOMAIN f : Len(p) <= MaxDepth /\ Ancestors(p) \subseteq DOMAIN f
    /\ \A p \in DOMAIN f \ {Root} :
          /\ f[p] \in 1 .. n /\ Parent(p) \in User
          /\ Last(p) \in Names \/ Last(p) = ParkName(f[p])
    /\ \A p, q \in DOMAIN f : f[p] = f[q] => p = q

\* What the tree says of ancestors: with a path, every path above it exists.
LEMMA TreeFacts ==
  ASSUME NEW f, NEW n, Tree(f, n)
  PROVE  /\ Table(f) /\ DOMAIN f \subseteq Path
         /\ \A p \in DOMAIN f, q \in Path : Within(q, p) => q \in DOMAIN f
         /\ \A p \in DOMAIN f \ {Root} : Parent(p) \in DOMAIN f
  <1>1. Table(f) /\ DOMAIN f \subseteq Path
    BY DEF Tree, Table
  <1>2. ASSUME NEW p \in DOMAIN f, NEW q \in Path, Within(q, p) PROVE q \in DOMAIN f
    BY <1>1, <1>2, AncestorsIff DEF Tree
  <1>3. ASSUME NEW p \in DOMAIN f \ {Root} PROVE Parent(p) \in DOMAIN f
    BY <1>1, <1>2, ParentLast
  <1> QED  BY <1>1, <1>2, <1>3

\* A directory without entries has nothing below it.
LEMMA TreeLeaf ==
  ASSUME NEW f, NEW n, Tree(f, n), NEW d \in DOMAIN f,
         {q \in DOMAIN f : q # Root /\ Parent(q) = d} = {}
  PROVE  \A p \in DOMAIN f : ~Below(d, p)
  <1> SUFFICES ASSUME NEW p \in DOMAIN f, Below(d, p) PROVE FALSE
    OBVIOUS
  <1>1. d \in Path /\ p \in Path
    BY TreeFacts
  <1>2. PICK c \in Path : c # Root /\ Parent(c) = d /\ Within(c, p)
    BY <1>1, ChildOnTheWay
  <1>3. c \in DOMAIN f
    BY <1>2, TreeFacts
  <1> QED  BY <1>2, <1>3

\* A parked name has nothing below it.
LEMMA TreeParkLeaf ==
  ASSUME NEW f, NEW n, Tree(f, n), NEW d \in Path, d # Root, Last(d) \notin Names
  PROVE  \A p \in DOMAIN f : Within(d, p) => p = d
  <1> SUFFICES ASSUME NEW p \in DOMAIN f, Within(d, p), p # d PROVE FALSE
    OBVIOUS
  <1>1. p \in Path /\ p # Root
    BY TreeFacts, WithinOrder
  <1>2. Within(d, Parent(p)) /\ Parent(p) \in User
    BY <1>1, WithinParent DEF Tree
  <1>3. d \in User
    BY <1>2, UserPath
  <1> QED  BY <1>3, UserPath

\* Creating a name keeps the tree.
LEMMA TreeAdd ==
  ASSUME NEW f, NEW n \in Nat, Tree(f, n), NEW p \in Path, p # Root, p \notin DOMAIN f,
         Parent(p) \in DOMAIN f, Parent(p) \in User, Last(p) \in Names, Len(p) <= MaxDepth
  PROVE  Tree(With(f, p, n + 1), n + 1)
  <1>0. PICK x : x = n + 1  OBVIOUS
  <1> DEFINE g == With(f, p, x)
  <1>1. /\ Table(g) /\ DOMAIN g = DOMAIN f \cup {p}
        /\ g[p] = x /\ \A q \in DOMAIN f \ {p} : g[q] = f[q]
    <2>1. Table(f)  BY TreeFacts
    <2>2. Table(g) /\ DOMAIN g = DOMAIN f \cup {p}  BY <2>1, WithShape
    <2>3. g[p] = x /\ \A q \in DOMAIN f \ {p} : g[q] = f[q]  BY DEF With
    <2> QED  BY <2>2, <2>3
  <1> HIDE DEF g
  <1>2. \A q \in DOMAIN f : g[q] = f[q]  BY <1>1
  <1>3. Root \in DOMAIN g /\ g[Root] = 0
    BY <1>1, <1>2 DEF Tree
  <1>4. ASSUME NEW q \in DOMAIN g PROVE Len(q) <= MaxDepth /\ Ancestors(q) \subseteq DOMAIN g
    <2>1. CASE q \in DOMAIN f  BY <1>1, <2>1 DEF Tree
    <2>2. CASE q = p
      <3>1. ASSUME NEW a \in Ancestors(p) PROVE a \in DOMAIN g
        <4>1. a \in Path /\ (a = p \/ Within(a, Parent(p)))
          BY AncestorsIff, WithinParent
        <4> QED  BY <1>1, <4>1, TreeFacts
      <3> QED  BY <2>2, <3>1
    <2> QED  BY <1>1, <2>1, <2>2
  <1>5. ASSUME NEW q \in DOMAIN g \ {Root}
        PROVE  /\ g[q] \in 1 .. n + 1 /\ Parent(q) \in User
               /\ Last(q) \in Names \/ Last(q) = ParkName(g[q])
    <2>1. CASE q \in DOMAIN f
      <3>1. f[q] \in 1 .. n /\ Parent(q) \in User /\ (Last(q) \in Names \/ Last(q) = ParkName(f[q]))
        BY <2>1 DEF Tree
      <3> QED  BY <1>2, <2>1, <3>1, SMTT(40)
    <2>2. CASE q = p  BY <1>0, <1>1, <2>2, SMTT(40)
    <2> QED  BY <1>1, <2>1, <2>2
  <1>6. ASSUME NEW q \in DOMAIN f PROVE f[q] # n + 1
    <2>1. f[q] \in 0 .. n  BY SMTT(40) DEF Tree
    <2> QED  BY <2>1, SMTT(40)
  <1>7. ASSUME NEW q \in DOMAIN g, NEW r \in DOMAIN g, g[q] = g[r] PROVE q = r
    <2>1. q \in DOMAIN f /\ r \in DOMAIN f => q = r
      BY <1>2, <1>7 DEF Tree
    <2> QED  BY <1>0, <1>1, <1>2, <1>6, <1>7, <2>1
  <1>8. Tree(g, n + 1)
    BY <1>1, <1>3, <1>4, <1>5, <1>7 DEF Tree
  <1> QED  BY <1>0, <1>8 DEF g

\* Removing an entry with nothing below it keeps the tree.
LEMMA TreeRemove ==
  ASSUME NEW f, NEW n, Tree(f, n), NEW d \in DOMAIN f, d # Root, \A p \in DOMAIN f : ~Below(d, p)
  PROVE  Tree(Without(f, {d}), n)
  <1> DEFINE g == Without(f, {d})
  <1>1. /\ Table(g) /\ DOMAIN g = DOMAIN f \ {d} /\ \A q \in DOMAIN f \ {d} : g[q] = f[q]
    BY WithoutShape, TreeFacts
  <1> HIDE DEF g
  <1>2. ASSUME NEW q \in DOMAIN g PROVE Len(q) <= MaxDepth /\ Ancestors(q) \subseteq DOMAIN g
    <2>1. q \in DOMAIN f /\ q # d  BY <1>1
    <2>2. ASSUME NEW a \in Ancestors(q) PROVE a \in DOMAIN g
      <3>1. a \in Path /\ Within(a, q)  BY <2>1, AncestorsIff, TreeFacts
      <3>2. a \in DOMAIN f  BY <2>1, <3>1, TreeFacts
      <3>3. a # d  BY <2>1, <3>1 DEF Below
      <3> QED  BY <1>1, <3>2, <3>3
    <2> QED  BY <2>1, <2>2 DEF Tree
  <1>3. Tree(g, n)
    BY <1>1, <1>2 DEF Tree
  <1> QED  BY <1>3 DEF g

\* What moving a directory to a free name does to a tree.
LEMMA TreeMoveShape ==
  ASSUME NEW f, NEW n, Tree(f, n), NEW old \in Path, NEW new \in Path, new \notin DOMAIN f
  PROVE  LET g == MoveKeys(f, old, new)
         IN  /\ Table(g)
             /\ \A p \in DOMAIN f : ~Within(new, p)
             /\ \A p \in DOMAIN f : Within(old, p) => /\ Rebase(p, old, new) \in DOMAIN g
                                                      /\ g[Rebase(p, old, new)] = f[p]
             /\ \A p \in DOMAIN f : ~Within(old, p) => p \in DOMAIN g /\ g[p] = f[p]
             /\ \A q \in DOMAIN g : \E p \in DOMAIN f :
                    /\ g[q] = f[p]
                    /\ \/ q = p /\ ~Within(old, p)
                       \/ Within(old, p) /\ q = Rebase(p, old, new)
  <1>1. Table(f) /\ DOMAIN f \subseteq Path  BY TreeFacts
  <1>2. \A p \in DOMAIN f : ~Within(new, p)  BY TreeFacts
  <1> QED  BY <1>1, <1>2, MoveKeysShape, MoveKeysTo, MoveKeysFrom, SMTT(40)

\* Moving a directory to a free name of another directory keeps the tree.
LEMMA TreeMove ==
  ASSUME NEW f, NEW n, Tree(f, n), NEW old \in DOMAIN f, old # Root,
         NEW new \in Path, new # Root, new \notin DOMAIN f,
         Parent(new) \in DOMAIN f, Parent(new) \in User, ~Within(old, Parent(new)),
         Last(new) \in Names \/ Last(new) = ParkName(f[old]),
         \A p \in DOMAIN f : Within(old, p) => Len(Rebase(p, old, new)) <= MaxDepth,
         (old \in User /\ new \in User) \/ (\A p \in DOMAIN f : ~Below(old, p))
  PROVE  Tree(MoveKeys(f, old, new), n)
  <1> DEFINE g == MoveKeys(f, old, new)
  <1> HIDE DEF g
  <1>0. DOMAIN f \subseteq Path /\ old \in Path /\ Within(old, old)
    BY TreeFacts, WithinOrder
  <1>1. /\ Table(g)
        /\ \A p \in DOMAIN f : Within(old, p) => /\ Rebase(p, old, new) \in DOMAIN g
                                                 /\ g[Rebase(p, old, new)] = f[p]
        /\ \A p \in DOMAIN f : ~Within(old, p) => p \in DOMAIN g /\ g[p] = f[p]
    BY <1>0, TreeMoveShape, SMTT(40) DEF g
  <1>2. ASSUME NEW q \in DOMAIN g
        PROVE  \E p \in DOMAIN f : /\ g[q] = f[p]
                                   /\ \/ q = p /\ ~Within(old, p)
                                      \/ Within(old, p) /\ q = Rebase(p, old, new)
    BY <1>0, TreeMoveShape DEF g
  <1>3. Root \in DOMAIN g /\ g[Root] = 0
    <2>1. ~Within(old, Root)  BY <1>0, WithinOrder
    <2> QED  BY <1>1, <2>1 DEF Tree
  <1>4. new \in DOMAIN g /\ g[new] = f[old]
    BY <1>0, <1>1, RebaseSelf, SMTT(40)
  <1>5. ASSUME NEW q \in DOMAIN g PROVE Len(q) <= MaxDepth /\ Ancestors(q) \subseteq DOMAIN g
    <2>1. PICK p \in DOMAIN f : \/ q = p /\ ~Within(old, p)
                                \/ Within(old, p) /\ q = Rebase(p, old, new)
      BY <1>2
    <2>2. p \in Path /\ q \in Path
      BY <1>0, <1>1 DEF Table
    <2>3. CASE q = p /\ ~Within(old, p)
      <3>1. ASSUME NEW a \in Ancestors(q) PROVE a \in DOMAIN g
        <4>1. a \in Path /\ Within(a, p)  BY <2>2, <2>3, AncestorsIff
        <4>2. a \in DOMAIN f /\ ~Within(old, a)
          BY <1>0, <2>2, <2>3, <4>1, TreeFacts, WithinOrder
        <4> QED  BY <1>1, <4>2
      <3> QED  BY <2>3, <3>1 DEF Tree
    <2>4. CASE Within(old, p) /\ q = Rebase(p, old, new)
      <3>1. ASSUME NEW a \in Ancestors(q) PROVE a \in DOMAIN g
        <4>1. a \in Path /\ Within(a, Rebase(p, old, new))  BY <2>2, <2>4, AncestorsIff
        <4>2. \/ Within(a, new)
              \/ /\ Within(new, a) /\ Rebase(a, new, old) \in Path
                 /\ Within(old, Rebase(a, new, old)) /\ Within(Rebase(a, new, old), p)
          BY <1>0, <2>2, <2>4, <4>1, RebaseAncestor
        <4>3. CASE Within(a, new)
          <5>1. a = new \/ Within(a, Parent(new))
            BY <4>1, <4>3, WithinParent
          <5>2. CASE Within(a, Parent(new))
            <6>1. a \in DOMAIN f /\ ~Within(old, a)
              BY <1>0, <4>1, <5>2, TreeFacts, WithinOrder
            <6> QED  BY <1>1, <6>1
          <5> QED  BY <1>4, <5>1, <5>2
        <4>4. CASE /\ Within(new, a) /\ Rebase(a, new, old) \in Path
                   /\ Within(old, Rebase(a, new, old)) /\ Within(Rebase(a, new, old), p)
          <5>1. Rebase(a, new, old) \in DOMAIN f
            BY <4>4, TreeFacts
          <5>2. Rebase(Rebase(a, new, old), old, new) = a
            BY <1>0, <4>1, <4>4, RebaseBack
          <5> QED  BY <1>1, <4>4, <5>1, <5>2
        <4> QED  BY <4>2, <4>3, <4>4
      <3> QED  BY <2>4, <3>1
    <2> QED  BY <2>1, <2>3, <2>4
  <1>6. ASSUME NEW q \in DOMAIN g \ {Root}
        PROVE  /\ g[q] \in 1 .. n /\ Parent(q) \in User
               /\ Last(q) \in Names \/ Last(q) = ParkName(g[q])
    <2>1. PICK p \in DOMAIN f : /\ g[q] = f[p]
                                /\ \/ q = p /\ ~Within(old, p)
                                   \/ Within(old, p) /\ q = Rebase(p, old, new)
      BY <1>2
    <2>2. p \in Path  BY <1>0
    <2>3. CASE q = p /\ ~Within(old, p)
      BY <2>1, <2>3 DEF Tree
    <2>4. CASE p = old /\ q = Rebase(p, old, new)
      <3>1. q = new  BY <1>0, <2>4, RebaseSelf
      <3>2. f[old] \in 1 .. n  BY DEF Tree
      <3> QED  BY <2>1, <2>4, <3>1, <3>2
    <2>5. CASE Below(old, p) /\ q = Rebase(p, old, new)
      <3>1. old \in User /\ new \in User  BY <2>5
      <3>2. /\ p # Root /\ Within(old, Parent(p)) /\ Last(q) = Last(p)
            /\ Parent(q) = Rebase(Parent(p), old, new)
        BY <1>0, <2>2, <2>5, RebaseParent
      <3>3. /\ f[p] \in 1 .. n /\ Parent(p) \in User
            /\ Last(p) \in Names \/ Last(p) = ParkName(f[p])
        BY <3>2 DEF Tree
      <3>4. Parent(q) \in User
        BY <3>1, <3>2, <3>3, RebaseUser, UserPath, SMTT(40)
      <3> QED  BY <2>1, <3>2, <3>3, <3>4
    <2> QED  BY <2>1, <2>3, <2>4, <2>5 DEF Below
  <1>7. ASSUME NEW q \in DOMAIN g, NEW r \in DOMAIN g, g[q] = g[r] PROVE q = r
    <2>1. PICK p \in DOMAIN f : /\ g[q] = f[p]
                                /\ \/ q = p /\ ~Within(old, p)
                                   \/ Within(old, p) /\ q = Rebase(p, old, new)
      BY <1>2
    <2>2. PICK s \in DOMAIN f : /\ g[r] = f[s]
                                /\ \/ r = s /\ ~Within(old, s)
                                   \/ Within(old, s) /\ r = Rebase(s, old, new)
      BY <1>2
    <2>3. p = s  BY <1>7, <2>1, <2>2 DEF Tree
    <2> QED  BY <2>1, <2>2, <2>3
  <1>8. Tree(g, n)
    BY <1>1, <1>3, <1>5, <1>6, <1>7 DEF Tree
  <1> QED  BY <1>8 DEF g

-----------------------------------------------------------------------------
(* The base invariant.                                                     *)

\* The volume's tree, and the kind of every file.
TreeOK == /\ Tree(fs, Len(kind)) /\ kind \in Seq({"file", "dir"}) /\ Len(kind) <= MaxFiles

\* An NTFSItem.
Item == [path : Path, id : Nat, ino : Nat, use : {"live", "victim", "removed"}]

\* The kernel's objects carry names the kernel knows, and the root's only one
\* the root.
ObjsOK ==
    /\ objs = [i \in DOMAIN objs |-> objs[i]] /\ DOMAIN objs \subseteq Objs
    /\ \A i \in DOMAIN objs :
          /\ objs[i] \in Item
          /\ objs[i].use = "live" => objs[i].path \in User /\ (objs[i].path = Root => i = RootObj)
    /\ RootObj \in DOMAIN objs /\ objs[RootObj].path = Root /\ objs[RootObj].use = "live"
    /\ objs[RootObj].ino = 0

\* The victim keeps its entry of itemByPath until the caches are re-keyed.
Displaced(p) == op.st \in {"pointed", "done"} /\ op.over # NoObj /\ p = op.new

\* itemByPath leads from a path to the live object of that path.
CacheOK ==
    /\ Table(cache)
    /\ \A p \in DOMAIN cache :
          /\ cache[p] \in DOMAIN objs
          /\ ~Displaced(p) => objs[cache[p]].path = p /\ objs[cache[p]].use = "live"

\* The records of a rename, without and with a victim.
PlainOp == [st : {"ready", "done"}, item : Nat, old : User, dest : User, new : User, over : {NoObj}]
OverOp == [st : {"parked", "failed", "moved", "pointed", "done"}, item : Nat, old : User,
           dest : User, new : User, over : Nat, park : Path]

\* What a rename relies on.
Request ==
    /\ op \in PlainOp \cup OverOp
    /\ op.item \in DOMAIN objs /\ op.item # RootObj
    /\ objs[op.item].use = "live" /\ objs[op.item].path = op.old
    /\ op.old # Root /\ op.new # Root /\ Parent(op.new) = op.dest /\ ~Within(op.old, op.dest)

\* Before the engine moved the name.
Unmoved ==
    op.st \in {"ready", "parked", "failed"} =>
        /\ op.old \in DOMAIN fs /\ op.dest \in DOMAIN fs
        /\ op.new \notin DOMAIN fs \/ (op.st = "ready" /\ op.old = op.new)
        /\ \A p \in DOMAIN fs : Within(op.old, p) => Len(Rebase(p, op.old, op.new)) <= MaxDepth

\* Where the victim of a rename-over is.
Victim ==
    op.over # NoObj =>
        /\ op.over \in DOMAIN objs /\ op.over # op.item /\ op.over # RootObj /\ op.old # op.new
        /\ op.park # Root /\ Parent(op.park) = op.dest /\ Last(op.park) \notin Names
        /\ op.new \in DOMAIN cache /\ cache[op.new] = op.over
        /\ op.st # "done" => op.park \in DOMAIN fs
        /\ op.st \in {"moved", "pointed"} => op.new \in DOMAIN fs /\ op.old \notin DOMAIN fs
        /\ op.st \in {"pointed", "done"} => objs[op.over].use = "victim"

\* A rename in progress.
OpOK == op = Idle \/ (Request /\ Unmoved /\ Victim)

\* The generations that were handed out.
GenOK == /\ genCounter \in 1 .. MaxGen
         /\ \A p \in DOMAIN gen : gen[p] \in 2 .. genCounter

\* An enumeration in progress.
RdOK == \/ rd = [st |-> "none"]
        \/ rd \in [st : {"sampled"}, dir : DOMAIN objs, gen : 1 .. genCounter]
        \/ /\ DOMAIN rd = {"st", "dir", "gen", "list"} /\ rd.st \in {"listed", "done"}
           /\ rd.dir \in DOMAIN objs /\ rd.gen \in 1 .. genCounter
           /\ rd.st = "listed" => rd.list \subseteq Path \ {Root}

\* idByPath.
IdsOK == Table(ids) /\ nextID \in Nat /\ \A p \in DOMAIN ids : ids[p] \in Nat

\* The base invariant: it holds whatever fails, a failed rollback included.
Base == TreeOK /\ ObjsOK /\ CacheOK /\ IdsOK /\ OpOK /\ GenOK /\ RdOK

\* Every directory of the list gets a generation it never had.
LEMMA BumpShape ==
  ASSUME NEW dirs, Len(dirs) \in Nat, genCounter \in Nat, Bump(dirs),
         \A p \in Range(dirs) : \E k \in 1 .. Len(dirs) :
             dirs[k] = p /\ \A j \in k + 1 .. Len(dirs) : dirs[j] # p
  PROVE  /\ genCounter' = genCounter + Len(dirs) /\ genCounter' <= MaxGen
         /\ DOMAIN gen' = DOMAIN gen \cup Range(dirs)
         /\ \A p \in Range(dirs) : gen'[p] \in genCounter + 1 .. genCounter'
         /\ \A p \in DOMAIN gen \ Range(dirs) : gen'[p] = gen[p]
  <1> DEFINE last(p, k) == dirs[k] = p /\ \A j \in k + 1 .. Len(dirs) : dirs[j] # p
             at(p) == CHOOSE k \in 1 .. Len(dirs) : last(p, k)
  <1>1. /\ genCounter + Len(dirs) <= GenBound /\ genCounter' = genCounter + Len(dirs)
        /\ gen' = [p \in DOMAIN gen \cup Range(dirs) |->
                      IF p \in Range(dirs) THEN genCounter + at(p) ELSE gen[p]]
    BY DEF Bump
  <1>2. ASSUME NEW p \in Range(dirs) PROVE at(p) \in 1 .. Len(dirs)
    <2>1. \E k \in 1 .. Len(dirs) : last(p, k)  OBVIOUS
    <2> HIDE DEF last
    <2> QED  BY <2>1
  <1>3. GenBound <= MaxGen
    BY NamespaceAssumption, SMTT(40) DEF GenBound
  <1>4. genCounter' <= MaxGen
    BY <1>1, <1>3, NamespaceAssumption, SMTT(40) DEF GenBound
  <1>5. ASSUME NEW p \in Range(dirs) PROVE gen'[p] \in genCounter + 1 .. genCounter'
    <2>1. gen'[p] = genCounter + at(p) /\ genCounter' = genCounter + Len(dirs)  BY <1>1
    <2>2. at(p) \in 1 .. Len(dirs)  BY <1>2
    <2> HIDE DEF at, last
    <2> QED  BY <2>1, <2>2, SMTT(40)
  <1> QED  BY <1>1, <1>4, <1>5

\* The two lists of directories that are bumped.
LEMMA Bump2 ==
  ASSUME NEW a, NEW b, genCounter \in Nat, Bump(<<a, b>>)
  PROVE  /\ genCounter' = genCounter + 2 /\ genCounter' <= MaxGen
         /\ DOMAIN gen' = DOMAIN gen \cup {a, b}
         /\ \A p \in {a, b} : gen'[p] \in genCounter + 1 .. genCounter'
         /\ \A p \in DOMAIN gen \ {a, b} : gen'[p] = gen[p]
  <1> DEFINE dirs == <<a, b>>
  <1>1. Len(dirs) = 2 /\ dirs[1] = a /\ dirs[2] = b /\ DOMAIN dirs = 1 .. 2
    BY SMTT(40)
  <1>2. Bump(dirs)  OBVIOUS
  <1> HIDE DEF dirs
  <1>3. Range(dirs) = {a, b}
    BY <1>1, SMTT(40) DEF Range
  <1>4. ASSUME NEW p \in Range(dirs)
        PROVE  \E k \in 1 .. Len(dirs) : dirs[k] = p /\ \A j \in k + 1 .. Len(dirs) : dirs[j] # p
    <2>1. CASE p = b  BY <1>1, <2>1, SMTT(40)
    <2>2. CASE p = a /\ p # b  BY <1>1, <2>2, SMTT(40)
    <2> QED  BY <1>3, <2>1, <2>2
  <1>5. Len(dirs) \in Nat  BY <1>1, SMTT(40)
  <1>6. /\ genCounter' = genCounter + Len(dirs) /\ genCounter' <= MaxGen
        /\ DOMAIN gen' = DOMAIN gen \cup Range(dirs)
        /\ \A p \in Range(dirs) : gen'[p] \in genCounter + 1 .. genCounter'
        /\ \A p \in DOMAIN gen \ Range(dirs) : gen'[p] = gen[p]
    BY <1>2, <1>4, <1>5, BumpShape
  <1> QED  BY <1>1, <1>3, <1>6

\* The generations of the four directories of a rename.
LEMMA Bump4 ==
  ASSUME NEW a, NEW b, NEW c, NEW d, genCounter \in Nat, Bump(<<a, b, c, d>>)
  PROVE  /\ genCounter' = genCounter + 4 /\ genCounter' <= MaxGen
         /\ DOMAIN gen' = DOMAIN gen \cup {a, b, c, d}
         /\ \A p \in {a, b, c, d} : gen'[p] \in genCounter + 1 .. genCounter'
         /\ \A p \in DOMAIN gen \ {a, b, c, d} : gen'[p] = gen[p]
  <1> DEFINE dirs == <<a, b, c, d>>
  <1>1. /\ Len(dirs) = 4 /\ dirs[1] = a /\ dirs[2] = b /\ dirs[3] = c /\ dirs[4] = d
        /\ DOMAIN dirs = 1 .. 4
    BY SMTT(40)
  <1>2. Bump(dirs)  OBVIOUS
  <1> HIDE DEF dirs
  <1>3. Range(dirs) = {a, b, c, d}
    BY <1>1, SMTT(40) DEF Range
  <1>4. ASSUME NEW p \in Range(dirs)
        PROVE  \E k \in 1 .. Len(dirs) : dirs[k] = p /\ \A j \in k + 1 .. Len(dirs) : dirs[j] # p
    <2>1. CASE p = d  BY <1>1, <2>1, SMTT(40)
    <2>2. CASE p = c /\ p # d  BY <1>1, <2>2, SMTT(40)
    <2>3. CASE p = b /\ p # c /\ p # d  BY <1>1, <2>3, SMTT(40)
    <2>4. CASE p = a /\ p # b /\ p # c /\ p # d  BY <1>1, <2>4, SMTT(40)
    <2> QED  BY <1>3, <2>1, <2>2, <2>3, <2>4
  <1>5. Len(dirs) \in Nat  BY <1>1, SMTT(40)
  <1>6. /\ genCounter' = genCounter + Len(dirs) /\ genCounter' <= MaxGen
        /\ DOMAIN gen' = DOMAIN gen \cup Range(dirs)
        /\ \A p \in Range(dirs) : gen'[p] \in genCounter + 1 .. genCounter'
        /\ \A p \in DOMAIN gen \ Range(dirs) : gen'[p] = gen[p]
    BY <1>2, <1>4, <1>5, BumpShape
  <1> QED  BY <1>1, <1>3, <1>6

\* Numbering a set of paths one after the other: every path keeps the
\* identifier it has, and the new ones are larger than any handed out before.
LEMMA SeedIdsShape ==
  ASSUME Table(ids), nextID \in Nat, \A p \in DOMAIN ids : ids[p] \in Nat,
         NEW S \in SUBSET Path, SeedIds(S)
  PROVE  /\ Table(ids') /\ DOMAIN ids' = DOMAIN ids \cup S
         /\ nextID' \in Nat /\ nextID <= nextID'
         /\ \A p \in DOMAIN ids : ids'[p] = ids[p]
         /\ \A p \in S \ DOMAIN ids : ids'[p] \in nextID + 1 .. nextID'
         /\ \A p, q \in S \ DOMAIN ids : ids'[p] = ids'[q] => p = q
  <1> DEFINE new == S \ DOMAIN ids
  <1>0. PICK n \in 0 .. Cardinality(S) : \E at \in Bijection(new, 1 .. n) :
          /\ nextID' = nextID + n
          /\ ids' = [p \in DOMAIN ids \cup new |-> IF p \in new THEN nextID + at[p] ELSE ids[p]]
    BY DEF SeedIds
  <1>1. PICK at \in Bijection(new, 1 .. n) :
          /\ nextID' = nextID + n
          /\ ids' = [p \in DOMAIN ids \cup new |-> IF p \in new THEN nextID + at[p] ELSE ids[p]]
    BY <1>0
  <1>2. n \in Nat /\ at \in [new -> 1 .. n] /\ IsInjective(at)
    BY SMTT(40) DEF Bijection, Injection
  <1>3. DOMAIN ids' = DOMAIN ids \cup S /\ Table(ids')
    BY <1>1 DEF Table
  <1>4. \A p \in DOMAIN ids : ids'[p] = ids[p]
    BY <1>1
  <1>5. \A p \in new : ids'[p] = nextID + at[p] /\ at[p] \in 1 .. n
    BY <1>1, <1>2
  <1>6. ASSUME NEW p \in new, NEW q \in new, ids'[p] = ids'[q] PROVE p = q
    <2>1. at[p] = at[q]
      BY <1>2, <1>5, <1>6, SMTT(40)
    <2> QED  BY <1>2, <2>1 DEF IsInjective
  <1> HIDE DEF new
  <1>7. nextID' \in Nat /\ nextID <= nextID' /\ \A p \in new : ids'[p] \in nextID + 1 .. nextID'
    BY <1>1, <1>2, <1>5, SMTT(40)
  <1> QED  BY <1>3, <1>4, <1>6, <1>7 DEF new

\* As long as not every object is alive, there is one to hand out.
LEMMA FreshNew ==
  ASSUME ObjsOK, DOMAIN objs # Objs
  PROVE  Fresh \in Objs /\ Fresh \notin DOMAIN objs
  <1>1. \E i \in Objs \ DOMAIN objs : TRUE
    BY DEF ObjsOK
  <1> QED  BY <1>1 DEF Fresh

\* item(path:kind:) keeps the objects and the caches in order.
LEMMA HandOutBase ==
  ASSUME ObjsOK, CacheOK, IdsOK, op = Idle, op' = Idle,
         NEW p \in User, p # Root, NEW f \in Nat, HandOut(p, f)
  PROVE  /\ ObjsOK' /\ CacheOK' /\ IdsOK'
         /\ DOMAIN objs \subseteq DOMAIN objs' /\ \A i \in DOMAIN objs : objs'[i] = objs[i]
  <1>0. ~Displaced(p)' /\ \A q : ~Displaced(q) /\ ~Displaced(q)'
    BY DEF Displaced, Idle
  <1>1. CASE p \in DOMAIN cache
    <2>1. UNCHANGED <<objs, caches>>
      BY <1>1 DEF HandOut
    <2> QED  BY <1>0, <2>1 DEF ObjsOK, CacheOK, IdsOK, caches
  <1>2. CASE p \notin DOMAIN cache
    <2> DEFINE new == [path |-> p, id |-> ids'[p], ino |-> f, use |-> "live"]
    <2>1. /\ DOMAIN objs # Objs /\ SeedIds({p})
          /\ objs' = With(objs, Fresh, new) /\ cache' = With(cache, p, Fresh)
      BY <1>2 DEF HandOut
    <2>2. Fresh \in Objs /\ Fresh \notin DOMAIN objs
      BY <2>1, FreshNew
    <2>3. p \in Path /\ {p} \in SUBSET Path
      BY UserPath
    <2>4. /\ Table(ids') /\ DOMAIN ids' = DOMAIN ids \cup {p} /\ nextID' \in Nat
          /\ nextID \in Nat /\ (\A q \in DOMAIN ids : ids[q] \in Nat)
          /\ \A q \in DOMAIN ids : ids'[q] = ids[q]
          /\ \A q \in {p} \ DOMAIN ids : ids'[q] \in nextID + 1 .. nextID'
      BY <2>1, <2>3, SeedIdsShape DEF IdsOK
    <2>5. \A q \in DOMAIN ids' : ids'[q] \in Nat
      BY <2>4, SMTT(40)
    <2>6. new \in Item
      BY <2>3, <2>4, <2>5 DEF Item
    <2> HIDE DEF new
    <2>7. /\ DOMAIN objs' = DOMAIN objs \cup {Fresh} /\ objs'[Fresh] = new
          /\ \A i \in DOMAIN objs : objs'[i] = objs[i]
          /\ objs' = [i \in DOMAIN objs' |-> objs'[i]]
      BY <2>1, <2>2 DEF With
    <2>8. new.path = p /\ new.use = "live"
      BY DEF new
    <2>9. ObjsOK'
      BY <2>2, <2>6, <2>7, <2>8 DEF ObjsOK
    <2>10. /\ Table(cache') /\ DOMAIN cache' = DOMAIN cache \cup {p} /\ cache'[p] = Fresh
           /\ \A q \in DOMAIN cache : cache'[q] = cache[q]
      BY <1>2, <2>1, <2>3 DEF With, Table, CacheOK
    <2>11. CacheOK'
      BY <1>0, <2>2, <2>7, <2>8, <2>10, SMTT(40) DEF CacheOK
    <2> QED  BY <2>4, <2>5, <2>7, <2>9, <2>11 DEF IdsOK
  <1> QED  BY <1>1, <1>2

\* What an enumeration in progress relies on.
LEMMA RdKeep ==
  ASSUME RdOK, rd' = rd, genCounter \in Nat, genCounter' \in Nat, genCounter <= genCounter',
         rd.st # "none" => rd.dir \in DOMAIN objs'
  PROVE  RdOK'
  <1>1. CASE rd = [st |-> "none"]  BY <1>1 DEF RdOK
  <1>2. CASE rd \in [st : {"sampled"}, dir : DOMAIN objs, gen : 1 .. genCounter]
    <2>1. rd.st # "none" /\ rd.gen \in 1 .. genCounter  BY <1>2
    <2>2. rd.gen \in 1 .. genCounter'  BY <2>1, SMTT(40)
    <2>3. rd.dir \in DOMAIN objs'  BY <2>1
    <2>4. rd \in [st : {"sampled"}, dir : DOMAIN objs', gen : 1 .. genCounter']
      BY <1>2, <2>2, <2>3
    <2> QED  BY <2>4 DEF RdOK
  <1>3. CASE /\ DOMAIN rd = {"st", "dir", "gen", "list"} /\ rd.st \in {"listed", "done"}
             /\ rd.dir \in DOMAIN objs /\ rd.gen \in 1 .. genCounter
             /\ rd.st = "listed" => rd.list \subseteq Path \ {Root}
    <2>1. rd.gen \in 1 .. genCounter' /\ rd.dir \in DOMAIN objs'  BY <1>3, SMTT(40)
    <2> QED  BY <1>3, <2>1 DEF RdOK
  <1> QED  BY <1>1, <1>2, <1>3 DEF RdOK

\* An enumeration in progress is of an object that exists.
LEMMA RdDir == RdOK /\ rd.st # "none" => rd.dir \in DOMAIN objs
  BY SMTT(40) DEF RdOK

\* What an enumeration in progress holds.
LEMMA RdFields ==
  ASSUME RdOK, rd.st # "none"
  PROVE  /\ rd.dir \in DOMAIN objs /\ rd.gen \in 1 .. genCounter
         /\ rd.st = "listed" => rd.list \subseteq Path \ {Root}
  BY SMTT(40) DEF RdOK

\* A generation bumped is larger than the ones before, and those stay.
LEMMA GenKeep ==
  ASSUME GenOK, NEW dirs, genCounter' \in Nat, genCounter + 1 <= genCounter', genCounter' <= MaxGen,
         DOMAIN gen' = DOMAIN gen \cup dirs,
         \A p \in dirs : gen'[p] \in genCounter + 1 .. genCounter',
         \A p \in DOMAIN gen \ dirs : gen'[p] = gen[p]
  PROVE  GenOK'
  <1>1. genCounter \in Nat /\ 1 <= genCounter /\ MaxGen \in Nat
    BY NamespaceAssumption, SMTT(40) DEF GenOK
  <1>2. genCounter' \in 1 .. MaxGen  BY <1>1, NamespaceAssumption, SMTT(40)
  <1>3. ASSUME NEW p \in DOMAIN gen' PROVE gen'[p] \in 2 .. genCounter'
    <2>1. CASE p \in dirs
      <3>1. gen'[p] \in genCounter + 1 .. genCounter'  BY <2>1
      <3> QED  BY <1>1, <3>1, SMTT(40)
    <2>2. CASE p \notin dirs
      <3>1. gen'[p] = gen[p] /\ gen[p] \in 2 .. genCounter  BY <2>2 DEF GenOK
      <3> QED  BY <1>1, <3>1, SMTT(40)
    <2> QED  BY <2>1, <2>2
  <1> QED  BY <1>2, <1>3 DEF GenOK

\* The base invariant holds when the volume is mounted.
LEMMA BaseInit == Init => Base
  <1> SUFFICES ASSUME Init PROVE Base
    OBVIOUS
  <1>1. Root \in Path /\ Len(Root) = 0 /\ Root \in User
    BY RootPath
  <1>2. Ancestors(Root) \subseteq {Root}
    BY <1>1, AncestorsIff, WithinOrder
  <1>3. TreeOK
    <2>1. fs = [p \in {Root} |-> 0] /\ kind = <<>>  BY DEF Init
    <2>2. Table(fs) /\ DOMAIN fs = {Root} /\ fs[Root] = 0
      BY <1>1, <2>1 DEF Table
    <2>3. Tree(fs, Len(kind))
      BY <1>1, <1>2, <2>2, NamespaceAssumption, SMTT(40) DEF Tree
    <2>4. kind \in Seq({"file", "dir"}) /\ Len(kind) = 0  BY <2>1, SMTT(40)
    <2> QED  BY <2>3, <2>4, NamespaceAssumption, SMTT(40) DEF TreeOK
  <1>4. ObjsOK
    BY <1>1, NamespaceAssumption, SMTT(40) DEF Init, ObjsOK, Item, Objs, RootObj
  <1>5. CacheOK
    BY <1>1 DEF Init, CacheOK, Table, RootObj
  <1>6. IdsOK
    BY <1>1 DEF Init, IdsOK, Table
  <1>7. OpOK /\ RdOK
    BY DEF Init, OpOK, RdOK
  <1>8. GenOK
    BY NamespaceAssumption, SMTT(40) DEF Init, GenOK
  <1> QED  BY <1>3, <1>4, <1>5, <1>6, <1>7, <1>8 DEF Base

\* createItem and createSymbolicLink keep the base invariant.
LEMMA BaseCreate ==
  ASSUME Base, NEW d \in Live, NEW n \in Names, NEW k \in {"file", "dir"}, Create(d, n, k)
  PROVE  Base'
  <1> DEFINE dir == objs[d].path
             p == Append(dir, n)
  <1>0. d \in DOMAIN objs /\ dir \in User /\ dir \in Path /\ n \in Nat
    BY UserPath DEF Live, Base, ObjsOK
  <1>1. p \in Path /\ p # Root /\ Parent(p) = dir /\ Last(p) = n /\ Len(p) = Len(dir) + 1 /\ p \in User
    BY <1>0, AppendPath, UserPath
  <1> HIDE DEF dir
  <1>2. /\ op = Idle /\ op' = Idle /\ rd' = rd
        /\ dir \in DOMAIN fs /\ Len(dir) < MaxDepth /\ p \notin DOMAIN fs
        /\ Len(kind) + 1 \in Files
        /\ fs' = With(fs, p, Len(kind) + 1) /\ kind' = Append(kind, k)
        /\ Bump(<<dir, p>>) /\ HandOut(p, Len(kind) + 1)
    BY DEF Create, dir
  <1> HIDE DEF p
  <1>3. Len(kind) \in Nat /\ Len(dir) \in Nat /\ MaxDepth \in Nat
    BY <1>0, PathLen, NamespaceAssumption, SMTT(40) DEF Base, TreeOK
  <1>4. kind' \in Seq({"file", "dir"}) /\ Len(kind') = Len(kind) + 1
    BY <1>2, SMTT(40) DEF Base, TreeOK
  <1>5. Tree(fs', Len(kind'))
    <2>1. Tree(With(fs, p, Len(kind) + 1), Len(kind) + 1)
      BY <1>0, <1>1, <1>2, <1>3, TreeAdd, SMTT(40) DEF Base, TreeOK
    <2> QED  BY <1>2, <1>4, <2>1
  <1>6. TreeOK'
    BY <1>2, <1>4, <1>5, SMTT(40) DEF TreeOK, Files
  <1>7. /\ ObjsOK' /\ CacheOK' /\ IdsOK' /\ DOMAIN objs \subseteq DOMAIN objs'
    <2>1. Len(kind) + 1 \in Nat  BY <1>3, SMTT(40)
    <2> QED  BY <1>1, <1>2, <2>1, HandOutBase DEF Base
  <1>8. genCounter \in Nat  BY SMTT(40) DEF Base, GenOK
  <1>9. /\ genCounter' = genCounter + 2 /\ genCounter' <= MaxGen
        /\ DOMAIN gen' = DOMAIN gen \cup {dir, p}
        /\ \A q \in {dir, p} : gen'[q] \in genCounter + 1 .. genCounter'
        /\ \A q \in DOMAIN gen \ {dir, p} : gen'[q] = gen[q]
    BY <1>2, <1>8, Bump2
  <1>10. genCounter' \in Nat /\ genCounter + 1 <= genCounter' /\ genCounter <= genCounter'
    BY <1>8, <1>9, SMTT(40)
  <1>11. GenOK'
    BY <1>9, <1>10, GenKeep DEF Base
  <1>12. RdOK'
    BY <1>2, <1>7, <1>8, <1>10, RdKeep, RdDir DEF Base
  <1> QED  BY <1>2, <1>6, <1>7, <1>11, <1>12 DEF Base, OpOK

\* lookupItem keeps the base invariant.
LEMMA BaseLookup ==
  ASSUME Base, NEW d \in Live, NEW n \in Names, LookupItem(d, n)
  PROVE  Base'
  <1> DEFINE p == Append(objs[d].path, n)
  <1>0. d \in DOMAIN objs /\ objs[d].path \in User /\ objs[d].path \in Path /\ n \in Nat
    BY UserPath DEF Live, Base, ObjsOK
  <1>1. p \in User /\ p # Root
    BY <1>0, AppendPath, UserPath
  <1>2. /\ op = Idle /\ op' = Idle /\ UNCHANGED <<fs, kind, gens, rd>>
        /\ IF p \in DOMAIN fs THEN HandOut(p, fs[p]) ELSE UNCHANGED <<objs, caches>>
    BY DEF LookupItem
  <1> HIDE DEF p
  <1>3. /\ ObjsOK' /\ CacheOK' /\ IdsOK' /\ DOMAIN objs \subseteq DOMAIN objs'
    <2>1. CASE p \in DOMAIN fs
      <3>1. fs[p] \in Nat  BY <1>1, <2>1, SMTT(40) DEF Base, TreeOK, Tree
      <3> QED  BY <1>1, <1>2, <2>1, <3>1, HandOutBase DEF Base
    <2>2. CASE p \notin DOMAIN fs
      BY <1>2, <2>2 DEF Base, ObjsOK, CacheOK, IdsOK, caches, Displaced, Idle
    <2> QED  BY <2>1, <2>2
  <1>4. TreeOK' /\ GenOK'
    BY <1>2 DEF Base, TreeOK, GenOK, gens
  <1>5. genCounter \in Nat /\ genCounter' = genCounter
    BY <1>2, SMTT(40) DEF Base, GenOK, gens
  <1>6. RdOK'
    BY <1>2, <1>3, <1>5, RdKeep, RdDir, SMTT(40) DEF Base
  <1> QED  BY <1>2, <1>3, <1>4, <1>6 DEF Base, OpOK

\* removeItem keeps the base invariant.
LEMMA BaseRemove ==
  ASSUME Base, NEW i \in Live, RemoveItem(i)
  PROVE  Base'
  <1> DEFINE p == objs[i].path
  <1>0. i \in DOMAIN objs /\ p \in User /\ p \in Path /\ objs[i].use = "live"
    BY UserPath DEF Live, Base, ObjsOK
  <1>1. /\ op = Idle /\ op' = Idle /\ i # RootObj /\ rd' = rd /\ kind' = kind /\ nextID' = nextID
        /\ p \in DOMAIN fs /\ IsEmpty(p) /\ fs' = Without(fs, {p})
        /\ Bump(<<Parent(p), p>>)
        /\ ids' = Without(ids, {p}) /\ cache' = Without(cache, {p})
        /\ objs' = [objs EXCEPT ![i].use = "removed"]
    BY DEF RemoveItem
  <1>2. p # Root  BY <1>0, <1>1 DEF Base, ObjsOK
  <1> HIDE DEF p
  <1>3. TreeOK'
    <2>1. \A q \in DOMAIN fs : ~Below(p, q)
      BY <1>1, TreeLeaf DEF Base, TreeOK, Children, IsEmpty
    <2>2. Tree(fs', Len(kind))
      BY <1>1, <1>2, <2>1, TreeRemove DEF Base, TreeOK
    <2> QED  BY <1>1, <2>2 DEF Base, TreeOK
  <1>4. /\ DOMAIN objs' = DOMAIN objs /\ objs' = [j \in DOMAIN objs' |-> objs'[j]]
        /\ \A j \in DOMAIN objs \ {i} : objs'[j] = objs[j]
        /\ objs'[i] \in Item /\ objs'[i].path = p /\ objs'[i].use = "removed"
    BY <1>0, <1>1 DEF Base, ObjsOK, Item, p
  <1>5. ObjsOK'
    BY <1>1, <1>4 DEF Base, ObjsOK
  <1>6. CacheOK'
    <2>1. Table(cache') /\ DOMAIN cache' = DOMAIN cache \ {p} /\ \A q \in DOMAIN cache' : cache'[q] = cache[q]
      BY <1>1 DEF Base, CacheOK, Without, Table
    <2>2. \A q : ~Displaced(q)  BY <1>1 DEF Displaced, Idle
    <2>3. \A q \in DOMAIN cache' : cache'[q] \in DOMAIN objs /\ cache'[q] # i
                                   /\ objs[cache'[q]].path = q /\ objs[cache'[q]].use = "live"
      BY <2>1, <2>2 DEF Base, CacheOK, p
    <2>4. \A q \in DOMAIN cache' : cache'[q] \in DOMAIN objs'
                                   /\ objs'[cache'[q]].path = q /\ objs'[cache'[q]].use = "live"
      BY <1>4, <2>3
    <2> QED  BY <2>1, <2>4 DEF CacheOK
  <1>7. IdsOK'
    <2>1. Table(ids') /\ DOMAIN ids' = DOMAIN ids \ {p} /\ \A q \in DOMAIN ids' : ids'[q] = ids[q]
      BY <1>1 DEF Base, IdsOK, Without, Table
    <2> QED  BY <1>1, <2>1 DEF Base, IdsOK
  <1>8. genCounter \in Nat  BY SMTT(40) DEF Base, GenOK
  <1>9. /\ genCounter' = genCounter + 2 /\ genCounter' <= MaxGen
        /\ DOMAIN gen' = DOMAIN gen \cup {Parent(p), p}
        /\ \A q \in {Parent(p), p} : gen'[q] \in genCounter + 1 .. genCounter'
        /\ \A q \in DOMAIN gen \ {Parent(p), p} : gen'[q] = gen[q]
    BY <1>1, <1>8, Bump2
  <1>10. genCounter' \in Nat /\ genCounter + 1 <= genCounter' /\ genCounter <= genCounter'
    BY <1>8, <1>9, SMTT(40)
  <1>11. GenOK'
    BY <1>9, <1>10, GenKeep DEF Base
  <1>12. RdOK'
    BY <1>1, <1>4, <1>8, <1>10, RdKeep, RdDir DEF Base
  <1> QED  BY <1>1, <1>3, <1>5, <1>6, <1>7, <1>11, <1>12 DEF Base, OpOK

\* reclaimItem keeps the base invariant.
LEMMA BaseReclaim ==
  ASSUME Base, NEW i \in DOMAIN objs, ReclaimItem(i)
  PROVE  Base'
  <1>1. /\ op = Idle /\ op' = Idle /\ i # RootObj /\ (rd.st # "none" => rd.dir # i)
        /\ cache' = Evicted(i) /\ objs' = Without(objs, {i})
        /\ UNCHANGED <<fs, kind, ids, nextID, gens, rd>>
    BY DEF ReclaimItem
  <1>2. /\ DOMAIN objs' = DOMAIN objs \ {i} /\ objs' = [j \in DOMAIN objs' |-> objs'[j]]
        /\ \A j \in DOMAIN objs' : objs'[j] = objs[j]
    BY <1>1 DEF Without
  <1>3. ObjsOK'
    BY <1>1, <1>2 DEF Base, ObjsOK
  <1>4. CacheOK'
    <2>1. \A q : ~Displaced(q)  BY <1>1 DEF Displaced, Idle
    <2>2. \A q \in DOMAIN cache : /\ cache[q] \in DOMAIN objs /\ objs[cache[q]].path = q
                                  /\ objs[cache[q]].use = "live"
      BY <2>1 DEF Base, CacheOK
    <2>3. /\ Table(cache') /\ DOMAIN cache' \subseteq DOMAIN cache
          /\ \A q \in DOMAIN cache' : cache'[q] = cache[q] /\ cache[q] # i
      <3>1. CASE objs[i].path \in DOMAIN cache /\ cache[objs[i].path] = i
        <4>1. cache' = Without(cache, {objs[i].path})  BY <1>1, <3>1 DEF Evicted
        <4>2. Table(cache') /\ DOMAIN cache' = DOMAIN cache \ {objs[i].path}
              /\ \A q \in DOMAIN cache' : cache'[q] = cache[q]
          BY <4>1 DEF Base, CacheOK, Without, Table
        <4> QED  BY <2>2, <4>2
      <3>2. CASE ~(objs[i].path \in DOMAIN cache /\ cache[objs[i].path] = i)
        <4>1. cache' = cache  BY <1>1, <3>2 DEF Evicted
        <4> QED  BY <2>2, <3>2, <4>1 DEF Base, CacheOK
      <3> QED  BY <3>1, <3>2
    <2>4. \A q \in DOMAIN cache' : cache'[q] \in DOMAIN objs' /\ objs'[cache'[q]].path = q
                                   /\ objs'[cache'[q]].use = "live"
      BY <1>2, <2>2, <2>3
    <2> QED  BY <2>3, <2>4 DEF CacheOK
  <1>5. /\ fs' = fs /\ kind' = kind /\ ids' = ids /\ nextID' = nextID
        /\ gen' = gen /\ genCounter' = genCounter
    BY <1>1 DEF gens
  <1>6. TreeOK' /\ IdsOK'
    BY <1>5 DEF Base, TreeOK, IdsOK
  <1>7. GenOK' /\ genCounter \in Nat
    BY <1>5, SMTT(40) DEF Base, GenOK
  <1>8. RdOK'
    BY <1>1, <1>2, <1>5, <1>7, RdKeep, RdDir, SMTT(40) DEF Base
  <1> QED  BY <1>1, <1>3, <1>4, <1>6, <1>7, <1>8 DEF Base, OpOK

\* The parked name of a victim is free.
LEMMA ParkFree ==
  ASSUME NEW f, NEW n \in Nat, Tree(f, n), NEW new \in DOMAIN f, new # Root, Last(new) \in Names,
         NEW dest \in Path
  PROVE  /\ ParkName(f[new]) \in Nat /\ ParkName(f[new]) \notin Names
         /\ Append(dest, ParkName(f[new])) \notin DOMAIN f
  <1>1. f[new] \in 1 .. n  BY DEF Tree
  <1>2. ParkName(f[new]) \in Nat /\ ParkName(f[new]) \notin Names
    BY <1>1, NamespaceAssumption, SMTT(40) DEF ParkName, Names
  <1> DEFINE park == Append(dest, ParkName(f[new]))
  <1>3. park \in Path /\ park # Root /\ Last(park) = ParkName(f[new])
    BY <1>2, AppendPath
  <1> HIDE DEF park
  <1>4. ASSUME park \in DOMAIN f PROVE FALSE
    <2>1. Last(park) = ParkName(f[park]) /\ f[park] \in 1 .. n
      BY <1>2, <1>3, <1>4 DEF Tree
    <2>2. f[park] = f[new]
      BY <1>1, <1>3, <2>1, NamespaceAssumption, SMTT(40) DEF ParkName
    <2>3. park = new  BY <1>4, <2>2 DEF Tree
    <2> QED  BY <1>2, <1>3, <2>3
  <1> QED  BY <1>2, <1>4 DEF park

\* Parking a victim with nothing below it: it alone gets another name.
LEMMA ParkShape ==
  ASSUME NEW f, NEW n \in Nat, Tree(f, n), NEW a \in DOMAIN f, \A q \in DOMAIN f : ~Below(a, q),
         NEW b \in Path, b \notin DOMAIN f
  PROVE  LET g == MoveKeys(f, a, b)
         IN  /\ DOMAIN g = (DOMAIN f \ {a}) \cup {b} /\ g[b] = f[a]
             /\ \A q \in DOMAIN f \ {a} : g[q] = f[q]
  <1> DEFINE g == MoveKeys(f, a, b)
  <1> HIDE DEF g
  <1>0. DOMAIN f \subseteq Path /\ Rebase(a, a, b) = b /\ Within(a, a)
    BY TreeFacts, RebaseSelf, WithinOrder
  <1>1. \A q \in DOMAIN f : Within(a, q) <=> q = a
    BY <1>0 DEF Below
  <1>2. /\ \A q \in DOMAIN f : Within(a, q) => Rebase(q, a, b) \in DOMAIN g /\ g[Rebase(q, a, b)] = f[q]
        /\ \A q \in DOMAIN f : ~Within(a, q) => q \in DOMAIN g /\ g[q] = f[q]
    BY <1>0, TreeMoveShape DEF g
  <1>3. ASSUME NEW q \in DOMAIN g PROVE q \in (DOMAIN f \ {a}) \cup {b}
    <2>1. PICK p \in DOMAIN f : \/ q = p /\ ~Within(a, p)
                                \/ Within(a, p) /\ q = Rebase(p, a, b)
      BY <1>0, TreeMoveShape DEF g
    <2> QED  BY <1>0, <1>1, <2>1
  <1>4. b \in DOMAIN g /\ g[b] = f[a] /\ \A q \in DOMAIN f \ {a} : q \in DOMAIN g /\ g[q] = f[q]
    BY <1>0, <1>1, <1>2
  <1>5. DOMAIN g = (DOMAIN f \ {a}) \cup {b}
    BY <1>3, <1>4
  <1> QED  BY <1>4, <1>5 DEF g

\* The records of the two kinds of rename.
LEMMA OpFields ==
  ASSUME op \in PlainOp \cup OverOp
  PROVE  /\ op.item \in Nat /\ op.old \in User /\ op.dest \in User /\ op.new \in User
         /\ op.old \in Path /\ op.dest \in Path /\ op.new \in Path
         /\ op.over = NoObj => op \in PlainOp /\ op.st \in {"ready", "done"}
         /\ op.over # NoObj => op \in OverOp /\ op.over \in Nat /\ op.park \in Path
                               /\ op.st \in {"parked", "failed", "moved", "pointed", "done"}
         /\ op # Idle
  <1>1. User \subseteq Path  BY UserPath
  <1>2. CASE op \in PlainOp
    BY <1>1, <1>2, SMTT(40) DEF PlainOp, NoObj, Idle
  <1>3. CASE op \in OverOp
    BY <1>1, <1>3, SMTT(40) DEF OverOp, NoObj, Idle
  <1> QED  BY <1>2, <1>3

\* A rename under way has a request whose parts are known.
LEMMA Underway ==
  ASSUME Base, op.st # "idle"
  PROVE  /\ op # Idle /\ Request /\ Unmoved /\ Victim
         /\ op.old \in User /\ op.dest \in User /\ op.new \in User
         /\ op.old \in Path /\ op.dest \in Path /\ op.new \in Path
         /\ op.over = NoObj => op \in PlainOp /\ op.st \in {"ready", "done"}
         /\ op.over # NoObj => op \in OverOp /\ op.over \in Nat /\ op.park \in Path
                               /\ op.st \in {"parked", "failed", "moved", "pointed", "done"}
  <1>1. op # Idle
    BY SMTT(40) DEF Idle
  <1>2. Request /\ Unmoved /\ Victim
    BY <1>1 DEF Base, OpOK
  <1>3. op \in PlainOp \cup OverOp
    BY <1>2 DEF Request
  <1> QED  BY <1>1, <1>2, <1>3, OpFields

\* The victim the kernel passes to renameItem is the cached object of the name.
LEMMA OverShape ==
  ASSUME Base, op = Idle, NEW i \in Live, NEW new \in Path, new \in DOMAIN fs => new \in DOMAIN cache
  PROVE  /\ OverOf(i, new) = NoObj => new \notin DOMAIN fs \/ objs[i].path = new
         /\ OverOf(i, new) # NoObj =>
              /\ new \in DOMAIN fs /\ new \in DOMAIN cache /\ OverOf(i, new) = cache[new]
              /\ OverOf(i, new) \in DOMAIN objs /\ OverOf(i, new) \in Nat /\ OverOf(i, new) # i
              /\ objs[OverOf(i, new)].path = new /\ objs[OverOf(i, new)].use = "live"
  <1>1. ~Displaced(new)  BY DEF Displaced, Idle
  <1>2. new \in DOMAIN cache => /\ cache[new] \in DOMAIN objs /\ objs[cache[new]].path = new
                                /\ objs[cache[new]].use = "live"
    BY <1>1 DEF Base, CacheOK
  <1>3. DOMAIN objs \subseteq Nat
    BY NamespaceAssumption, SMTT(40) DEF Base, ObjsOK, Objs
  <1>4. NoObj \notin Nat  BY SMTT(40) DEF NoObj
  <1> QED  BY <1>2, <1>3, <1>4 DEF OverOf

\* Parking an empty victim in its own directory.
LEMMA ParkStep ==
  ASSUME Base, NEW new \in DOMAIN fs, new # Root, new \in User, IsEmpty(new),
         NEW park, park = Append(Parent(new), ParkName(fs[new])), fs' = MoveKeys(fs, new, park)
  PROVE  /\ park \in Path /\ park # Root /\ Parent(park) = Parent(new) /\ Last(park) \notin Names
         /\ park \notin User /\ park \notin DOMAIN fs
         /\ DOMAIN fs' = (DOMAIN fs \ {new}) \cup {park} /\ fs'[park] = fs[new]
         /\ \A q \in DOMAIN fs \ {new} : fs'[q] = fs[q]
         /\ \A q \in DOMAIN fs : ~Below(new, q)
         /\ Tree(fs', Len(kind))
  <1>1. Tree(fs, Len(kind)) /\ Len(kind) \in Nat /\ DOMAIN fs \subseteq Path
    BY TreeFacts, SMTT(40) DEF Base, TreeOK
  <1>2. /\ Last(new) \in Names /\ Parent(new) \in User /\ Parent(new) \in Path /\ ~Within(new, Parent(new))
        /\ Len(Parent(new)) = Len(new) - 1 /\ Len(new) \in Nat /\ new \in Path
    BY UserPath, ParentLast
  <1>3. ParkName(fs[new]) \in Nat /\ ParkName(fs[new]) \notin Names /\ park \notin DOMAIN fs
    BY <1>1, <1>2, ParkFree
  <1>4. /\ park \in Path /\ park # Root /\ Parent(park) = Parent(new)
        /\ Last(park) = ParkName(fs[new]) /\ Len(park) = Len(Parent(new)) + 1
    BY <1>2, <1>3, AppendPath
  <1>5. park \notin User
    BY <1>3, <1>4, UserPath
  <1>6. \A q \in DOMAIN fs : ~Below(new, q)
    BY <1>1, TreeLeaf DEF Children, IsEmpty
  <1> DEFINE g == MoveKeys(fs, new, park)
  <1>7. /\ DOMAIN g = (DOMAIN fs \ {new}) \cup {park} /\ g[park] = fs[new]
        /\ \A q \in DOMAIN fs \ {new} : g[q] = fs[q]
    BY <1>1, <1>3, <1>4, <1>6, ParkShape
  <1>8. \A q \in DOMAIN fs : Within(new, q) => Len(Rebase(q, new, park)) <= MaxDepth
    <2>1. \A q \in DOMAIN fs : Within(new, q) => q = new  BY <1>6 DEF Below
    <2>2. Rebase(new, new, park) = park  BY <1>2, <1>4, RebaseSelf
    <2>3. Len(new) <= MaxDepth  BY <1>1 DEF Tree
    <2> QED  BY <1>2, <1>4, <2>1, <2>2, <2>3, SMTT(40)
  <1>9. Parent(new) \in DOMAIN fs
    <2>1. Within(Parent(new), new)  BY <1>2, ParentLast
    <2> QED  BY <1>1, <1>2, <2>1, TreeFacts
  <1>10. Tree(g, Len(kind))
    BY <1>1, <1>2, <1>3, <1>4, <1>6, <1>8, <1>9, TreeMove
  <1> QED  BY <1>3, <1>4, <1>5, <1>6, <1>7, <1>10

\* renameItem up to the parking of the victim keeps the base invariant.
LEMMA BaseRenameStart ==
  ASSUME Base, NEW i \in Live, NEW d \in Live, NEW n \in Names, RenameStart(i, d, n)
  PROVE  Base'
  <1> DEFINE old == objs[i].path
             dest == objs[d].path
             new == Append(dest, n)
             over == OverOf(i, new)
             park == Append(dest, ParkName(fs[new]))
  <1>1. /\ i \in DOMAIN objs /\ old \in User /\ old \in Path /\ objs[i].use = "live" /\ i \in Nat
        /\ d \in DOMAIN objs /\ dest \in User /\ dest \in Path /\ n \in Nat
    BY UserPath, NamespaceAssumption, SMTT(40) DEF Live, Base, ObjsOK, Objs
  <1>2. new \in Path /\ new # Root /\ Parent(new) = dest /\ new \in User
    BY <1>1, AppendPath, UserPath
  <1>3. /\ op = Idle /\ i # RootObj
        /\ old \in DOMAIN fs /\ dest \in DOMAIN fs
        /\ new \in DOMAIN fs => new \in DOMAIN cache
        /\ ~Within(old, dest)
        /\ \A p \in DOMAIN fs : Within(old, p) => Len(Rebase(p, old, new)) <= MaxDepth
    BY DEF RenameStart
  <1>4. /\ kind' = kind /\ objs' = objs /\ cache' = cache /\ ids' = ids /\ nextID' = nextID
        /\ gen' = gen /\ genCounter' = genCounter /\ rd' = rd
    BY DEF RenameStart, caches, gens
  <1>5. ASSUME over = NoObj
        PROVE  /\ op' = [st |-> "ready", item |-> i, old |-> old, dest |-> dest,
                         new |-> new, over |-> over]
               /\ fs' = fs
    BY <1>5 DEF RenameStart
  <1>6. ASSUME over # NoObj
        PROVE  /\ fs[old] # fs[new] /\ IsEmpty(new) /\ fs' = MoveKeys(fs, new, park)
               /\ op' = [st |-> "parked", item |-> i, old |-> old, dest |-> dest,
                         new |-> new, over |-> over, park |-> park]
    BY <1>6 DEF RenameStart
  <1> HIDE DEF old, dest, new, over, park
  <1>7. /\ over = NoObj => new \notin DOMAIN fs \/ old = new
        /\ over # NoObj => /\ new \in DOMAIN fs /\ new \in DOMAIN cache /\ over = cache[new]
                           /\ over \in DOMAIN objs /\ over \in Nat /\ over # i
                           /\ objs[over].path = new
    BY <1>2, <1>3, OverShape DEF over, old
  <1>8. ObjsOK' /\ IdsOK' /\ GenOK' /\ genCounter \in Nat
    BY <1>4, SMTT(40) DEF Base, ObjsOK, IdsOK, GenOK
  <1>9. RdOK'
    BY <1>4, <1>8, RdKeep, RdDir, SMTT(40) DEF Base
  <1>10. old # Root  BY <1>1, <1>3 DEF Base, ObjsOK, old
  <1>11. ASSUME op'.st \in {"ready", "parked"} PROVE CacheOK'
    <2>1. \A p : ~Displaced(p) /\ ~Displaced(p)'
      BY <1>3, <1>11 DEF Displaced, Idle
    <2> QED  BY <1>4, <2>1 DEF Base, CacheOK
  <1>12. CASE over = NoObj
    <2>1. TreeOK'  BY <1>4, <1>5, <1>12 DEF Base, TreeOK
    <2>2. /\ op' \in PlainOp /\ op'.st = "ready" /\ op'.item = i /\ op'.old = old /\ op'.dest = dest
          /\ op'.new = new /\ op'.over = NoObj
      BY <1>1, <1>2, <1>5, <1>12, SMTT(40) DEF PlainOp
    <2>3. Request'
      BY <1>1, <1>2, <1>3, <1>4, <1>10, <2>2 DEF Request, old
    <2>4. Unmoved'
      BY <1>3, <1>5, <1>7, <1>12, <2>2 DEF Unmoved
    <2>5. Victim'
      BY <2>2 DEF Victim
    <2> QED  BY <1>8, <1>9, <1>11, <2>1, <2>2, <2>3, <2>4, <2>5 DEF Base, OpOK
  <1>13. CASE over # NoObj
    <2>1. /\ park \in Path /\ park # Root /\ Parent(park) = dest /\ Last(park) \notin Names
          /\ park \notin DOMAIN fs /\ DOMAIN fs' = (DOMAIN fs \ {new}) \cup {park}
          /\ Tree(fs', Len(kind))
      <3>1. new \in DOMAIN fs /\ IsEmpty(new) /\ fs' = MoveKeys(fs, new, park)  BY <1>6, <1>7, <1>13
      <3>2. park = Append(Parent(new), ParkName(fs[new]))  BY <1>2 DEF park
      <3> QED  BY <1>2, <3>1, <3>2, ParkStep
    <2>2. TreeOK'
      BY <1>4, <2>1 DEF Base, TreeOK
    <2>3. /\ op' \in OverOp /\ op'.st = "parked" /\ op'.item = i /\ op'.old = old /\ op'.dest = dest
          /\ op'.new = new /\ op'.over = over /\ op'.park = park
      BY <1>1, <1>2, <1>6, <1>7, <1>13, <2>1, SMTT(40) DEF OverOp
    <2>4. Request'
      BY <1>1, <1>2, <1>3, <1>4, <1>10, <2>3 DEF Request, old
    <2>5. old # new /\ old \in DOMAIN fs' /\ dest \in DOMAIN fs' /\ new \notin DOMAIN fs'
      <3>1. dest # new  BY <1>2, ParentLast
      <3>2. park # new  BY <1>7, <1>13, <2>1
      <3>3. old # new  BY <1>6, <1>13
      <3> QED  BY <1>3, <2>1, <3>1, <3>2, <3>3
    <2>6. ~Within(old, park)
      <3>1. park # old  BY <1>3, <2>1
      <3> QED  BY <1>1, <1>3, <2>1, <3>1, WithinParent
    <2>7. Unmoved'
      <3>1. \A p \in DOMAIN fs' : Within(old, p) => Len(Rebase(p, old, new)) <= MaxDepth
        BY <1>3, <2>1, <2>6
      <3> QED  BY <2>3, <2>5, <3>1 DEF Unmoved
    <2>8. Victim'
      <3>1. over # RootObj  BY <1>2, <1>7, <1>13 DEF Base, ObjsOK
      <3>2. park \in DOMAIN fs'  BY <2>1
      <3> QED  BY <1>4, <1>7, <1>13, <2>1, <2>3, <2>5, <3>1, <3>2 DEF Victim
    <2> QED  BY <1>8, <1>9, <1>11, <2>2, <2>3, <2>4, <2>7, <2>8 DEF Base, OpOK
  <1> QED  BY <1>12, <1>13

\* Moving the name: the tree after it.
LEMMA MoveTree ==
  ASSUME Base, op # Idle, op.st \in {"ready", "parked"}, fs' = MoveKeys(fs, op.old, op.new)
  PROVE  /\ Tree(fs', Len(kind))
         /\ op.old = op.new => fs' = fs
         /\ op.old # op.new => op.new \in DOMAIN fs' /\ op.old \notin DOMAIN fs' /\ op.new \notin DOMAIN fs
  <1>1. Request /\ Unmoved /\ Victim  BY DEF Base, OpOK
  <1>2. /\ op.old \in User /\ op.new \in User /\ op.dest \in User
        /\ op.old \in Path /\ op.new \in Path /\ op.dest \in Path
    BY <1>1, OpFields DEF Request
  <1>3. Tree(fs, Len(kind)) /\ Table(fs)
    BY TreeFacts DEF Base, TreeOK
  <1>4. CASE op.old = op.new
    <2>1. fs' = fs  BY <1>2, <1>3, <1>4, MoveKeysSame
    <2> QED  BY <1>3, <1>4, <2>1
  <1>5. CASE op.old # op.new
    <2>1. /\ op.old \in DOMAIN fs /\ op.dest \in DOMAIN fs /\ op.new \notin DOMAIN fs
          /\ op.old # Root /\ op.new # Root /\ Parent(op.new) = op.dest /\ ~Within(op.old, op.dest)
          /\ \A p \in DOMAIN fs : Within(op.old, p) => Len(Rebase(p, op.old, op.new)) <= MaxDepth
      BY <1>1, <1>5 DEF Unmoved, Request
    <2>2. Last(op.new) \in Names  BY <1>2, <2>1, UserPath
    <2>3. Tree(MoveKeys(fs, op.old, op.new), Len(kind))
      BY <1>2, <1>3, <2>1, <2>2, TreeMove
    <2>4. op.new \in DOMAIN fs'
      <3>1. Within(op.old, op.old) /\ Rebase(op.old, op.old, op.new) = op.new
        BY <1>2, WithinOrder, RebaseSelf
      <3>2. Rebase(op.old, op.old, op.new) \in DOMAIN MoveKeys(fs, op.old, op.new)
        BY <1>2, <1>3, <2>1, <3>1, MoveKeysTo
      <3> QED  BY <3>1, <3>2
    <2>5. op.old \notin DOMAIN fs'
      <3>1. Within(op.old, op.old) /\ ~Within(op.new, op.old)
        BY <1>2, <1>3, <2>1, WithinOrder, TreeFacts
      <3>2. op.old \in DOMAIN MoveKeys(fs, op.old, op.new) <=>
                \/ op.old \in DOMAIN fs /\ ~Within(op.old, op.old)
                \/ /\ op.old \in Path /\ Within(op.new, op.old)
                   /\ Rebase(op.old, op.new, op.old) \in DOMAIN fs
        BY <1>2, <1>3, MoveKeysShape
      <3> QED  BY <3>1, <3>2
    <2> QED  BY <1>5, <2>1, <2>3, <2>4, <2>5
  <1> QED  BY <1>4, <1>5

\* The parked name is not moved by the rename.
LEMMA ParkStays ==
  ASSUME Base, op # Idle, op.over # NoObj
  PROVE  /\ op.park \in Path /\ ~Within(op.old, op.park) /\ ~Within(op.new, op.park)
         /\ op.park # op.new /\ op.park # op.old /\ op.park \notin User
         /\ \A p \in DOMAIN fs : Within(op.park, p) => p = op.park
  <1>1. Request /\ Victim  BY DEF Base, OpOK
  <1>2. /\ op.old \in User /\ op.new \in User /\ op.old \in Path /\ op.new \in Path /\ op.park \in Path
    BY <1>1, OpFields DEF Request
  <1>3. op.park # Root /\ Parent(op.park) = op.dest /\ Last(op.park) \notin Names
    BY <1>1 DEF Victim
  <1>4. op.park \notin User  BY <1>2, <1>3, UserPath
  <1>5. op.park # op.new /\ op.park # op.old  BY <1>2, <1>4
  <1>6. ~Within(op.old, op.dest) /\ ~Within(op.new, op.dest)
    BY <1>1, <1>2, ParentLast DEF Request
  <1>7. ~Within(op.old, op.park) /\ ~Within(op.new, op.park)
    BY <1>2, <1>3, <1>5, <1>6, WithinParent, SMTT(40)
  <1>8. \A p \in DOMAIN fs : Within(op.park, p) => p = op.park
    BY <1>2, <1>3, TreeParkLeaf DEF Base, TreeOK
  <1> QED  BY <1>2, <1>4, <1>5, <1>7, <1>8

\* The engine's move keeps the base invariant.
LEMMA BaseRenameMove == ASSUME Base, RenameMove PROVE Base'
  <1>1. /\ op.st \in {"ready", "parked"} /\ fs' = MoveKeys(fs, op.old, op.new)
        /\ op' = [op EXCEPT !.st = IF op.over = NoObj THEN "done" ELSE "moved"]
        /\ UNCHANGED <<kind, objs, caches, gens, rd>>
    BY DEF RenameMove
  <1>2. op # Idle /\ Request /\ Unmoved /\ Victim
    BY <1>1, SMTT(40) DEF Base, OpOK, Idle
  <1>3. TreeOK'
    BY <1>1, <1>2, MoveTree DEF Base, TreeOK
  <1>4. ObjsOK' /\ IdsOK' /\ GenOK' /\ genCounter \in Nat /\ genCounter' = genCounter
    BY <1>1, SMTT(40) DEF Base, ObjsOK, IdsOK, GenOK, caches, gens
  <1>5. RdOK'
    BY <1>1, <1>4, RdKeep, RdDir, SMTT(40) DEF Base
  <1>6. CASE op.over = NoObj
    <2>1. op \in PlainOp  BY <1>2, <1>6, OpFields DEF Request
    <2>2. /\ op' \in PlainOp /\ op'.st = "done" /\ op'.item = op.item /\ op'.old = op.old
          /\ op'.dest = op.dest /\ op'.new = op.new /\ op'.over = NoObj
      BY <1>1, <1>6, <2>1 DEF PlainOp
    <2>3. Request'  BY <1>1, <1>2, <2>2 DEF Request
    <2>4. Unmoved' /\ Victim'  BY <2>2 DEF Unmoved, Victim
    <2>5. CacheOK'
      <3>1. \A p : ~Displaced(p) /\ ~Displaced(p)'  BY <1>6, <2>2 DEF Displaced
      <3> QED  BY <1>1, <3>1 DEF Base, CacheOK, caches
    <2> QED  BY <1>3, <1>4, <1>5, <2>3, <2>4, <2>5 DEF Base, OpOK
  <1>7. CASE op.over # NoObj
    <2>1. op \in OverOp  BY <1>2, <1>7, OpFields DEF Request
    <2>2. /\ op' \in OverOp /\ op'.st = "moved" /\ op'.item = op.item /\ op'.old = op.old
          /\ op'.dest = op.dest /\ op'.new = op.new /\ op'.over = op.over /\ op'.park = op.park
      BY <1>1, <1>7, <2>1 DEF OverOp
    <2>3. Request'  BY <1>1, <1>2, <2>2 DEF Request
    <2>4. Unmoved'  BY <2>2 DEF Unmoved
    <2>5. op.park \in DOMAIN fs'
      <3>1. op.park \in DOMAIN fs  BY <1>1, <1>2, <1>7 DEF Victim
      <3>2. ~Within(op.old, op.park) /\ ~Within(op.new, op.park)
        BY <1>2, <1>7, ParkStays
      <3>3. op.old \in Path /\ op.new \in Path  BY <1>2, OpFields DEF Request
      <3>4. Table(fs)  BY TreeFacts DEF Base, TreeOK
      <3> QED  BY <1>1, <3>1, <3>2, <3>3, <3>4, MoveKeysTo
    <2>6. Victim'
      <3>1. op.old # op.new  BY <1>2, <1>7 DEF Victim
      <3>2. op.new \in DOMAIN fs' /\ op.old \notin DOMAIN fs'
        BY <1>1, <1>2, <3>1, MoveTree
      <3> QED  BY <1>1, <1>2, <1>7, <2>2, <2>5, <3>2 DEF Victim, caches
    <2>7. CacheOK'
      <3>1. \A p : ~Displaced(p) /\ ~Displaced(p)'  BY <1>1, <2>2 DEF Displaced
      <3> QED  BY <1>1, <3>1 DEF Base, CacheOK, caches
    <2> QED  BY <1>3, <1>4, <1>5, <2>3, <2>4, <2>6, <2>7 DEF Base, OpOK
  <1> QED  BY <1>6, <1>7

\* The next stage of a rename-over.
LEMMA StageOver ==
  ASSUME op \in OverOp, NEW s \in {"failed", "moved", "pointed", "done"}, op' = [op EXCEPT !.st = s]
  PROVE  /\ op' \in OverOp /\ op'.st = s /\ op'.item = op.item /\ op'.old = op.old
         /\ op'.dest = op.dest /\ op'.new = op.new /\ op'.over = op.over /\ op'.park = op.park
  BY DEF OverOp

\* A refused move keeps the base invariant.
LEMMA BaseRenameFail == ASSUME Base, RenameFail PROVE Base'
  <1>1. /\ op.st \in {"ready", "parked"}
        /\ op' = IF op.st = "ready" THEN Idle ELSE [op EXCEPT !.st = "failed"]
        /\ UNCHANGED <<fs, kind, objs, caches, gens, rd>>
    BY DEF RenameFail
  <1>2. op # Idle /\ Request /\ Unmoved /\ Victim
    BY <1>1, SMTT(40) DEF Base, OpOK, Idle
  <1>3. TreeOK' /\ ObjsOK' /\ IdsOK' /\ GenOK' /\ genCounter \in Nat /\ genCounter' = genCounter
    BY <1>1, SMTT(40) DEF Base, TreeOK, ObjsOK, IdsOK, GenOK, caches, gens
  <1>4. RdOK'
    BY <1>1, <1>3, RdKeep, RdDir, SMTT(40) DEF Base
  <1>5. CacheOK'
    <2>1. \A p : ~Displaced(p) /\ ~Displaced(p)'
      <3>1. CASE op.st = "ready"  BY <1>1, <3>1 DEF Displaced, Idle
      <3>2. CASE op.st = "parked"
        <4>1. op \in OverOp  BY <1>2, <3>2, OpFields DEF Request
        <4>2. op'.st = "failed"  BY <1>1, <3>2, <4>1, StageOver
        <4> QED  BY <3>2, <4>2 DEF Displaced
      <3> QED  BY <1>1, <3>1, <3>2
    <2> QED  BY <1>1, <2>1 DEF Base, CacheOK, caches
  <1>6. OpOK'
    <2>1. CASE op.st = "ready"  BY <1>1, <2>1 DEF OpOK
    <2>2. CASE op.st = "parked"
      <3>1. op \in OverOp /\ op.over # NoObj  BY <1>2, <2>2, OpFields DEF Request
      <3>2. /\ op' \in OverOp /\ op'.st = "failed" /\ op'.item = op.item /\ op'.old = op.old
            /\ op'.dest = op.dest /\ op'.new = op.new /\ op'.over = op.over /\ op'.park = op.park
        BY <1>1, <2>2, <3>1, StageOver
      <3> QED  BY <1>1, <1>2, <2>2, <3>1, <3>2 DEF OpOK, Request, Unmoved, Victim, caches
    <2> QED  BY <1>1, <2>1, <2>2
  <1> QED  BY <1>3, <1>4, <1>5, <1>6 DEF Base

\* Putting the victim back.
LEMMA RollbackTree ==
  ASSUME Base, op.st = "failed", fs' = MoveKeys(fs, op.park, op.new)
  PROVE  /\ Tree(fs', Len(kind)) /\ DOMAIN fs' = (DOMAIN fs \ {op.park}) \cup {op.new}
         /\ fs'[op.new] = fs[op.park] /\ \A q \in DOMAIN fs \ {op.park} : fs'[q] = fs[q]
         /\ op.park \in DOMAIN fs /\ op.new \notin DOMAIN fs
  <1>1. op # Idle /\ Request /\ Unmoved /\ Victim
    BY SMTT(40) DEF Base, OpOK, Idle
  <1>2. /\ op.over # NoObj /\ op.new \in User /\ op.dest \in User /\ op.new \in Path
        /\ op.dest \in Path /\ op.park \in Path
    BY <1>1, OpFields DEF Request
  <1>3. /\ op.park \in DOMAIN fs /\ op.park # Root /\ Parent(op.park) = op.dest
        /\ op.new \notin DOMAIN fs /\ op.dest \in DOMAIN fs /\ op.new # Root /\ Parent(op.new) = op.dest
    BY <1>1, <1>2 DEF Victim, Unmoved, Request
  <1>4. \A p \in DOMAIN fs : Within(op.park, p) => p = op.park
    BY <1>1, <1>2, ParkStays
  <1>5. Tree(fs, Len(kind)) /\ Len(kind) \in Nat
    BY SMTT(40) DEF Base, TreeOK
  <1>6. ~Within(op.park, op.dest)  BY <1>2, <1>3, ParentLast
  <1>7. Last(op.new) \in Names  BY <1>2, <1>3, UserPath
  <1>8. \A p \in DOMAIN fs : ~Below(op.park, p)  BY <1>4 DEF Below
  <1>9. \A p \in DOMAIN fs : Within(op.park, p) => Len(Rebase(p, op.park, op.new)) <= MaxDepth
    <2>1. Rebase(op.park, op.park, op.new) = op.new  BY <1>2, RebaseSelf
    <2>2. Len(op.new) = Len(op.park)
      <3>1. /\ Len(op.dest) = Len(op.new) - 1 /\ Len(op.dest) = Len(op.park) - 1
            /\ Len(op.new) \in Nat /\ Len(op.park) \in Nat
        BY <1>2, <1>3, ParentLast, PathLen
      <3> QED  BY <3>1, SMTT(40)
    <2>3. Len(op.park) <= MaxDepth  BY <1>3, <1>5 DEF Tree
    <2> QED  BY <1>4, <2>1, <2>2, <2>3
  <1>10. Tree(MoveKeys(fs, op.park, op.new), Len(kind))
    BY <1>2, <1>3, <1>5, <1>6, <1>7, <1>8, <1>9, TreeMove
  <1>11. /\ DOMAIN fs' = (DOMAIN fs \ {op.park}) \cup {op.new} /\ fs'[op.new] = fs[op.park]
         /\ \A q \in DOMAIN fs \ {op.park} : fs'[q] = fs[q]
    <2> DEFINE a == op.park  b == op.new  n == Len(kind)  f == fs
               g == MoveKeys(f, a, b)
    <2>1. a \in DOMAIN f /\ b \notin DOMAIN f /\ b \in Path /\ n \in Nat /\ Tree(f, n)
      BY <1>2, <1>3, <1>5
    <2>2. \A q \in DOMAIN f : ~Below(a, q)  BY <1>8
    <2> HIDE DEF a, b, n, f
    <2>3. /\ DOMAIN g = (DOMAIN f \ {a}) \cup {b} /\ g[b] = f[a]
          /\ \A q \in DOMAIN f \ {a} : g[q] = f[q]
      BY <2>1, <2>2, ParkShape
    <2>4. fs' = g  BY DEF a, b, f
    <2> HIDE DEF g
    <2> QED  BY <2>3, <2>4 DEF a, b, f
  <1> QED  BY <1>3, <1>10, <1>11

\* The rollback of a refused move, failed or not, keeps the base invariant.
LEMMA BaseRollback == ASSUME Base, Rollback PROVE Base'
  <1>1. /\ op.st = "failed" /\ op' = Idle /\ (fs' = MoveKeys(fs, op.park, op.new) \/ fs' = fs)
        /\ UNCHANGED <<kind, objs, caches, gens, rd>>
    BY DEF Rollback
  <1>2. TreeOK'
    <2>1. Tree(fs', Len(kind))  BY <1>1, RollbackTree DEF Base, TreeOK
    <2> QED  BY <1>1, <2>1 DEF Base, TreeOK
  <1>3. ObjsOK' /\ IdsOK' /\ GenOK' /\ genCounter \in Nat /\ genCounter' = genCounter
    BY <1>1, SMTT(40) DEF Base, ObjsOK, IdsOK, GenOK, caches, gens
  <1>4. RdOK'
    BY <1>1, <1>3, RdKeep, RdDir, SMTT(40) DEF Base
  <1>5. CacheOK'
    <2>1. \A p : ~Displaced(p) /\ ~Displaced(p)'  BY <1>1 DEF Displaced, Idle
    <2> QED  BY <1>1, <2>1 DEF Base, CacheOK, caches
  <1> QED  BY <1>1, <1>2, <1>3, <1>4, <1>5 DEF Base, OpOK

\* Pointing the victim's object at the parked name keeps the base invariant.
LEMMA BasePointVictim == ASSUME Base, PointVictim PROVE Base'
  <1>1. /\ op.st = "moved" /\ op' = [op EXCEPT !.st = "pointed"]
        /\ objs' = [objs EXCEPT ![op.over].path = op.park, ![op.over].use = "victim"]
        /\ UNCHANGED <<fs, kind, caches, gens, rd>>
    BY DEF PointVictim
  <1>2. op # Idle /\ Request /\ Unmoved /\ Victim
    BY <1>1, SMTT(40) DEF Base, OpOK, Idle
  <1>3. op.over # NoObj /\ op \in OverOp /\ op.park \in Path
    BY <1>1, <1>2, OpFields DEF Request
  <1>4. /\ op' \in OverOp /\ op'.st = "pointed" /\ op'.item = op.item /\ op'.old = op.old
        /\ op'.dest = op.dest /\ op'.new = op.new /\ op'.over = op.over /\ op'.park = op.park
    BY <1>1, <1>3, StageOver
  <1>5. /\ op.over \in DOMAIN objs /\ op.over # op.item /\ op.over # RootObj
        /\ op.new \in DOMAIN cache /\ cache[op.new] = op.over
    BY <1>2, <1>3 DEF Victim
  <1>6. \A p : ~Displaced(p)  BY <1>1 DEF Displaced
  <1>7. objs[op.over].path = op.new
    BY <1>5, <1>6 DEF Base, CacheOK
  <1>8. /\ DOMAIN objs' = DOMAIN objs /\ objs' = [j \in DOMAIN objs' |-> objs'[j]]
        /\ \A j \in DOMAIN objs \ {op.over} : objs'[j] = objs[j]
        /\ objs'[op.over] \in Item /\ objs'[op.over].path = op.park /\ objs'[op.over].use = "victim"
    BY <1>1, <1>3, <1>5 DEF Base, ObjsOK, Item
  <1>9. ObjsOK'
    BY <1>5, <1>8 DEF Base, ObjsOK
  <1>10. CacheOK'
    <2>1. \A p \in DOMAIN cache : /\ cache[p] \in DOMAIN objs /\ objs[cache[p]].path = p
                                  /\ objs[cache[p]].use = "live"
      BY <1>6 DEF Base, CacheOK
    <2>2. \A p \in DOMAIN cache : p # op.new => cache[p] # op.over
      BY <1>7, <2>1
    <2>3. \A p \in DOMAIN cache : /\ cache[p] \in DOMAIN objs'
                                  /\ p # op.new => objs'[cache[p]].path = p /\ objs'[cache[p]].use = "live"
      BY <1>8, <2>1, <2>2
    <2>4. \A p : ~Displaced(p)' => p # op.new
      BY <1>3, <1>4 DEF Displaced
    <2> QED  BY <1>1, <2>3, <2>4, SMTT(40) DEF Base, CacheOK, caches
  <1>11. TreeOK' /\ IdsOK' /\ GenOK' /\ genCounter \in Nat /\ genCounter' = genCounter
    BY <1>1, SMTT(40) DEF Base, TreeOK, IdsOK, GenOK, caches, gens
  <1>12. RdOK'
    BY <1>1, <1>8, <1>11, RdKeep, RdDir, SMTT(40) DEF Base
  <1>13. Request'  BY <1>2, <1>4, <1>5, <1>8 DEF Request
  <1>14. Unmoved'  BY <1>4 DEF Unmoved
  <1>15. Victim'  BY <1>1, <1>2, <1>3, <1>4, <1>5, <1>8 DEF Victim, caches
  <1> QED  BY <1>9, <1>10, <1>11, <1>12, <1>13, <1>14, <1>15 DEF Base, OpOK

\* Deleting the victim, or failing to, keeps the base invariant.
LEMMA BaseDeleteVictim == ASSUME Base, DeleteVictim PROVE Base'
  <1>1. /\ op.st = "pointed" /\ op' = [op EXCEPT !.st = "done"]
        /\ (fs' = Without(fs, {op.park}) \/ fs' = fs)
        /\ UNCHANGED <<kind, objs, caches, gens, rd>>
    BY DEF DeleteVictim
  <1>2. op # Idle /\ Request /\ Unmoved /\ Victim
    BY <1>1, SMTT(40) DEF Base, OpOK, Idle
  <1>3. op.over # NoObj /\ op \in OverOp /\ op.park \in Path
    BY <1>1, <1>2, OpFields DEF Request
  <1>4. /\ op' \in OverOp /\ op'.st = "done" /\ op'.item = op.item /\ op'.old = op.old
        /\ op'.dest = op.dest /\ op'.new = op.new /\ op'.over = op.over /\ op'.park = op.park
    BY <1>1, <1>3, StageOver
  <1>5. TreeOK'
    <2>1. \A p \in DOMAIN fs : ~Below(op.park, p)
      BY <1>2, <1>3, ParkStays DEF Below
    <2>2. op.park \in DOMAIN fs /\ op.park # Root  BY <1>1, <1>2, <1>3 DEF Victim
    <2>3. Tree(fs', Len(kind))  BY <1>1, <2>1, <2>2, TreeRemove DEF Base, TreeOK
    <2> QED  BY <1>1, <2>3 DEF Base, TreeOK
  <1>6. ObjsOK' /\ IdsOK' /\ GenOK' /\ genCounter \in Nat /\ genCounter' = genCounter
    BY <1>1, SMTT(40) DEF Base, ObjsOK, IdsOK, GenOK, caches, gens
  <1>7. RdOK'
    BY <1>1, <1>6, RdKeep, RdDir, SMTT(40) DEF Base
  <1>8. CacheOK'
    <2>1. \A p : Displaced(p)' <=> Displaced(p)
      BY <1>1, <1>4 DEF Displaced
    <2> QED  BY <1>1, <2>1 DEF Base, CacheOK, caches
  <1>9. Request'  BY <1>1, <1>2, <1>4 DEF Request
  <1>10. Unmoved'  BY <1>4 DEF Unmoved
  <1>11. Victim'  BY <1>1, <1>2, <1>3, <1>4 DEF Victim, caches
  <1> QED  BY <1>5, <1>6, <1>7, <1>8, <1>9, <1>10, <1>11 DEF Base, OpOK

\* Packing the entries keeps idByPath and the enumeration well-formed.
LEMMA PackStep ==
  ASSUME Base, EnumPack
  PROVE  IdsOK' /\ RdOK'
  <1>1. /\ rd.st = "listed" /\ SeedIds(rd.list)
        /\ rd' = [st |-> "done", dir |-> rd.dir, gen |-> rd.gen,
                  list |-> {Last(p) : p \in rd.list}]
        /\ objs' = objs /\ genCounter' = genCounter
    BY DEF EnumPack, Verifier, gens
  <1>2. rd.dir \in DOMAIN objs /\ rd.gen \in 1 .. genCounter /\ rd.list \in SUBSET Path
    BY <1>1, RdFields DEF Base
  <1>3. Table(ids) /\ nextID \in Nat /\ \A p \in DOMAIN ids : ids[p] \in Nat
    BY DEF Base, IdsOK
  <1>4. /\ Table(ids') /\ DOMAIN ids' = DOMAIN ids \cup rd.list /\ nextID' \in Nat
        /\ \A p \in DOMAIN ids : ids'[p] = ids[p]
        /\ \A p \in rd.list \ DOMAIN ids : ids'[p] \in nextID + 1 .. nextID'
    BY <1>1, <1>2, <1>3, SeedIdsShape
  <1>5. IdsOK'
    BY <1>3, <1>4, SMTT(40) DEF IdsOK
  <1>6. RdOK'
    BY <1>1, <1>2 DEF RdOK
  <1> QED  BY <1>5, <1>6

\* Listing keeps idByPath and the enumeration well-formed.
LEMMA ListStep ==
  ASSUME Base, EnumList
  PROVE  IdsOK' /\ RdOK'
  <1> DEFINE dir == objs[rd.dir].path
             c == Children(dir)
  <1>1. /\ rd.st = "sampled" /\ ids' = ids /\ nextID' = nextID /\ objs' = objs
        /\ genCounter' = genCounter
    BY DEF EnumList, caches, gens
  <1>2. rd' = IF dir \in DOMAIN fs /\ IsDir(dir)
              THEN [st |-> "listed", dir |-> rd.dir, gen |-> rd.gen, list |-> c]
              ELSE [st |-> "none"]
    BY DEF EnumList
  <1>3. rd.dir \in DOMAIN objs /\ rd.gen \in 1 .. genCounter
    BY <1>1, RdFields DEF Base
  <1>4. c \subseteq Path \ {Root}
    BY TreeFacts DEF Children, Base, TreeOK
  <1>5. IdsOK'  BY <1>1 DEF Base, IdsOK
  <1> HIDE DEF dir, c
  <1>6. CASE rd' = [st |-> "none"]  BY <1>5, <1>6 DEF RdOK
  <1>7. CASE rd' = [st |-> "listed", dir |-> rd.dir, gen |-> rd.gen, list |-> c]
    <2>1. RdOK'  BY <1>1, <1>3, <1>4, <1>7 DEF RdOK
    <2> QED  BY <1>5, <2>1
  <1> QED  BY <1>2, <1>6, <1>7

\* The steps of enumerateDirectory keep the base invariant.
LEMMA BaseEnum ==
  ASSUME Base, (\E d \in Live : EnumSample(d)) \/ EnumList \/ EnumPack \/ CloseDir
  PROVE  Base'
  <1>1. /\ fs' = fs /\ kind' = kind /\ objs' = objs /\ cache' = cache
        /\ gen' = gen /\ genCounter' = genCounter /\ op' = op
    BY DEF EnumSample, EnumList, EnumPack, CloseDir, caches, gens
  <1>2. TreeOK' /\ ObjsOK' /\ GenOK'
    BY <1>1 DEF Base, TreeOK, ObjsOK, GenOK
  <1>3. CacheOK'
    BY <1>1 DEF Base, CacheOK, Displaced
  <1>4. OpOK'
    BY <1>1 DEF Base, OpOK, Request, Unmoved, Victim
  <1>5. IdsOK' /\ RdOK'
    <2>1. ASSUME NEW d \in Live, EnumSample(d) PROVE IdsOK' /\ RdOK'
      <3>1. rd' = [st |-> "sampled", dir |-> d, gen |-> Gen(objs[d].path)] /\ ids' = ids /\ nextID' = nextID
        BY <2>1 DEF EnumSample, caches
      <3>2. Gen(objs[d].path) \in 1 .. genCounter
        BY SMTT(40) DEF Gen, Base, GenOK
      <3>3. d \in DOMAIN objs  BY DEF Live
      <3> QED  BY <1>1, <3>1, <3>2, <3>3 DEF Base, IdsOK, RdOK
    <2>2. CASE EnumList  BY <2>2, ListStep
    <2>3. CASE EnumPack  BY <2>3, PackStep
    <2>4. CASE CloseDir
      BY <2>4 DEF CloseDir, Base, IdsOK, RdOK, caches
    <2> QED  BY <2>1, <2>2, <2>3, <2>4
  <1> QED  BY <1>2, <1>3, <1>4, <1>5 DEF Base
=============================================================================
