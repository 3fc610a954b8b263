--------------------------- MODULE NamespaceViews ---------------------------
(***************************************************************************)
(* What the users of the volume see of it: no file is lost, names change as*)
(* NamespaceAbs says, and a list of a directory is the directory's or its  *)
(* verifier is behind (VerOK).  The first two rest on Base, the last on    *)
(* Linked too.                                                             *)
(***************************************************************************)
EXTENDS NamespaceLinks

\* The default prover and its time; steps with arithmetic, records or sequences cite SMT.
USE ZenonT(40)

-----------------------------------------------------------------------------
(* No file is lost.                                                        *)

\* A file that some name still leads to.
Still(p) == \E q \in DOMAIN fs' : fs'[q] = fs[p]

\* Moving names loses no file.
LEMMA MoveKeepsFiles ==
  ASSUME NEW f, NEW n, Tree(f, n), NEW old \in Path, NEW new \in Path, new \notin DOMAIN f \/ old = new,
         NEW p \in DOMAIN f
  PROVE  \E q \in DOMAIN MoveKeys(f, old, new) : MoveKeys(f, old, new)[q] = f[p]
  <1>1. CASE old = new
    <2>1. MoveKeys(f, old, new) = f  BY <1>1, MoveKeysSame, TreeFacts
    <2> QED  BY <2>1
  <1>2. CASE new \notin DOMAIN f
    <2> DEFINE g == MoveKeys(f, old, new)
    <2>1. Within(old, p) => Rebase(p, old, new) \in DOMAIN g /\ g[Rebase(p, old, new)] = f[p]
      BY <1>2, TreeMoveShape, SMTT(40)
    <2>2. ~Within(old, p) => p \in DOMAIN g /\ g[p] = f[p]
      BY <1>2, TreeMoveShape, SMTT(40)
    <2> HIDE DEF g
    <2>3. \E q \in DOMAIN g : g[q] = f[p]  BY <2>1, <2>2
    <2> QED  BY <2>3 DEF g
  <1> QED  BY <1>1, <1>2

\* What FileKept says of a step.
FileStep ==
    \A p \in DOMAIN fs : (\A q \in DOMAIN fs' : fs'[q] # fs[p]) =>
          \/ op = Idle /\ \E i \in Live : objs[i].path = p /\ objs'[i].use = "removed"
          \/ op.st = "pointed" /\ p = op.park /\ op.new \in DOMAIN fs /\ op.old \notin DOMAIN fs

\* No step loses a file but the two that may.
LEMMA FileNext == Base /\ [Next]_vars => [FileStep]_vars
  <1> SUFFICES ASSUME Base, [Next]_vars, NEW p \in DOMAIN fs
               PROVE  \/ Still(p)
                      \/ op = Idle /\ \E i \in Live : objs[i].path = p /\ objs'[i].use = "removed"
                      \/ op.st = "pointed" /\ p = op.park /\ op.new \in DOMAIN fs /\ op.old \notin DOMAIN fs
    BY DEF FileStep, Still
  <1>0. Tree(fs, Len(kind)) /\ Len(kind) \in Nat  BY SMTT(40) DEF Base, TreeOK
  <1>1. ASSUME fs' = fs PROVE Still(p)
    BY <1>1 DEF Still
  <1>2. ASSUME NEW d \in Live, NEW n \in Names, NEW k, Create(d, n, k)
        PROVE  Still(p)
    <2> DEFINE x == Append(objs[d].path, n)
    <2>1. x \notin DOMAIN fs /\ fs' = With(fs, x, Len(kind) + 1)  BY <1>2 DEF Create
    <2> HIDE DEF x
    <2>2. p \in DOMAIN fs' /\ fs'[p] = fs[p]  BY <2>1 DEF With
    <2> QED  BY <2>2 DEF Still
  <1>3. ASSUME NEW d \in Live, NEW n \in Names, LookupItem(d, n) PROVE Still(p)
    BY <1>1, <1>3 DEF LookupItem
  <1>4. ASSUME NEW d \in Live, NEW n \in Names, NEW i \in Live, RenameStart(i, d, n) PROVE Still(p)
    <2>1. \/ fs' = fs
          \/ /\ DOMAIN fs' = (DOMAIN fs \ {op'.new}) \cup {op'.park} /\ fs'[op'.park] = fs[op'.new]
             /\ \A q \in DOMAIN fs \ {op'.new} : fs'[q] = fs[q]
      BY <1>4, StartShape
    <2>2. ASSUME /\ DOMAIN fs' = (DOMAIN fs \ {op'.new}) \cup {op'.park} /\ fs'[op'.park] = fs[op'.new]
                 /\ \A q \in DOMAIN fs \ {op'.new} : fs'[q] = fs[q],
                 op'.park # op'.new
          PROVE  Still(p)
      BY <2>2 DEF Still
    <2>3. fs' # fs => op'.park \notin DOMAIN fs /\ op'.new \in DOMAIN fs
      BY <1>4, StartShape
    <2> QED  BY <1>1, <2>1, <2>2, <2>3
  <1>5. ASSUME NEW i \in Live, RemoveItem(i)
        PROVE  Still(p) \/ (op = Idle /\ objs[i].path = p /\ objs'[i].use = "removed")
    <2>1. /\ op = Idle /\ fs' = Without(fs, {objs[i].path})
          /\ objs' = [objs EXCEPT ![i].use = "removed"]
      BY <1>5 DEF RemoveItem
    <2>2. objs'[i].use = "removed"  BY <2>1 DEF Live, Base, ObjsOK, Item
    <2>3. CASE p # objs[i].path
      <3>1. p \in DOMAIN fs' /\ fs'[p] = fs[p]  BY <2>1, <2>3 DEF Without
      <3> QED  BY <3>1 DEF Still
    <2> QED  BY <2>1, <2>2, <2>3
  <1>6. ASSUME NEW i \in DOMAIN objs, ReclaimItem(i) PROVE Still(p)
    BY <1>1, <1>6 DEF ReclaimItem
  <1>7. CASE RenameMove
    <2>1. /\ op.st \in {"ready", "parked"} /\ fs' = MoveKeys(fs, op.old, op.new)
      BY <1>7 DEF RenameMove
    <2>2. op.old \in Path /\ op.new \in Path /\ (op.new \notin DOMAIN fs \/ op.old = op.new)
      BY <2>1, Underway DEF Unmoved
    <2> QED  BY <1>0, <2>1, <2>2, MoveKeepsFiles DEF Still
  <1>8. CASE RenameFail \/ PointVictim \/ Rekey
    <2>1. fs' = fs  BY <1>8 DEF RenameFail, PointVictim, Rekey
    <2> QED  BY <1>1, <2>1
  <1>9. CASE Rollback
    <2>1. op.st = "failed" /\ (fs' = MoveKeys(fs, op.park, op.new) \/ fs' = fs)
      BY <1>9 DEF Rollback
    <2>2. CASE fs' = MoveKeys(fs, op.park, op.new)
      <3>1. /\ DOMAIN fs' = (DOMAIN fs \ {op.park}) \cup {op.new}
            /\ fs'[op.new] = fs[op.park] /\ \A q \in DOMAIN fs \ {op.park} : fs'[q] = fs[q]
        BY <2>1, <2>2, RollbackTree
      <3> QED  BY <3>1 DEF Still
    <2> QED  BY <1>1, <2>1, <2>2
  <1>10. CASE DeleteVictim
    <2>1. op.st = "pointed" /\ (fs' = Without(fs, {op.park}) \/ fs' = fs)
      BY <1>10 DEF DeleteVictim
    <2>2. op.new \in DOMAIN fs /\ op.old \notin DOMAIN fs
      BY <2>1, OpFields, SMTT(40) DEF Base, OpOK, Request, Victim, Idle
    <2>3. ASSUME fs' = Without(fs, {op.park}), p # op.park PROVE Still(p)
      <3>1. p \in DOMAIN fs' /\ fs'[p] = fs[p]  BY <2>3 DEF Without
      <3> QED  BY <3>1 DEF Still
    <2> QED  BY <1>1, <2>1, <2>2, <2>3
  <1>11. CASE (\E d \in Live : EnumSample(d)) \/ EnumList \/ EnumPack \/ CloseDir
    <2>1. fs' = fs  BY <1>11 DEF EnumSample, EnumList, EnumPack, CloseDir
    <2> QED  BY <1>1, <2>1
  <1>12. CASE UNCHANGED vars
    BY <1>1, <1>12 DEF vars
  <1>13. ASSUME NEW d \in Live, NEW n \in Names, NEW k, CreateItem(d, n, k) \/ CreateSymbolicLink(d, n)
         PROVE  Still(p)
    BY <1>2, <1>13 DEF CreateItem, CreateSymbolicLink
  <1> QED
    BY <1>3, <1>4, <1>5, <1>6, <1>7, <1>8, <1>9, <1>10, <1>11, <1>12, <1>13 DEF Next

\* Replace semantics without losing the destination.
THEOREM FilesKept == Spec => FileKept
  <1>1. [FileStep]_vars => [\A p \in DOMAIN fs : (\A q \in DOMAIN fs' : fs'[q] # fs[p]) =>
          \/ op = Idle /\ \E i \in Live : objs[i].path = p /\ objs'[i].use = "removed"
          \/ op.st = "pointed" /\ p = op.park /\ op.new \in DOMAIN fs /\ op.old \notin DOMAIN fs]_vars
    BY DEF FileStep
  <1> QED  BY <1>1, BaseInit, BaseNext, FileNext, PTL DEF Spec, FileKept

-----------------------------------------------------------------------------
(* The refinement of the abstract namespace.                               *)

\* The entries of a table that have no parked name in their path.
Public(f) == [p \in DOMAIN f \cap User |-> f[p]]

\* Which entries are public.
LEMMA PublicShape ==
  ASSUME NEW f, Table(f)
  PROVE  /\ Table(Public(f)) /\ DOMAIN Public(f) = DOMAIN f \cap User
         /\ \A p \in DOMAIN f \cap User : Public(f)[p] = f[p]
  BY DEF Table, Public

\* Tables with the same entries are the same.
LEMMA TableEqual ==
  ASSUME NEW f, NEW g, Table(f), Table(g), \A q : q \in DOMAIN f <=> q \in DOMAIN g,
         \A q \in DOMAIN f : f[q] = g[q]
  PROVE  f = g
  <1>1. DOMAIN f = DOMAIN g  OBVIOUS
  <1> QED  BY <1>1 DEF Table

\* A move of a named file shows as the same move among the named files.
LEMMA PublicMove ==
  ASSUME NEW f, Table(f), NEW old \in User, NEW new \in User
  PROVE  Public(MoveKeys(f, old, new)) = MoveKeys(Public(f), old, new)
  <1>0. old \in Path /\ new \in Path  BY UserPath
  <1> DEFINE m == MoveKeys(f, old, new)
             r == Public(f)
             a == Public(m)
             b == MoveKeys(r, old, new)
  <1>1. Table(m) /\ Table(r)  BY <1>0, MoveKeysShape, PublicShape
  <1>2. Table(a) /\ Table(b)  BY <1>0, <1>1, MoveKeysShape, PublicShape
  <1>3. /\ \A q : q \in DOMAIN m <=>
                \/ q \in DOMAIN f /\ ~Within(old, q)
                \/ q \in Path /\ Within(new, q) /\ Rebase(q, new, old) \in DOMAIN f
        /\ \A q \in DOMAIN m : m[q] = IF Within(new, q) /\ Rebase(q, new, old) \in DOMAIN f
                                      THEN f[Rebase(q, new, old)] ELSE f[q]
    BY <1>0, MoveKeysShape
  <1>4. /\ \A q : q \in DOMAIN b <=>
                \/ q \in DOMAIN r /\ ~Within(old, q)
                \/ q \in Path /\ Within(new, q) /\ Rebase(q, new, old) \in DOMAIN r
        /\ \A q \in DOMAIN b : b[q] = IF Within(new, q) /\ Rebase(q, new, old) \in DOMAIN r
                                      THEN r[Rebase(q, new, old)] ELSE r[q]
    BY <1>0, <1>1, MoveKeysShape
  <1>5. DOMAIN r = DOMAIN f \cap User /\ \A p \in DOMAIN f \cap User : r[p] = f[p]
    BY PublicShape
  <1>6. DOMAIN a = DOMAIN m \cap User /\ \A p \in DOMAIN m \cap User : a[p] = m[p]
    BY <1>1, PublicShape
  <1>7. \A q \in Path : Within(new, q) => (Rebase(q, new, old) \in User <=> q \in User)
    BY RebaseUser
  <1>8. DOMAIN f \subseteq Path  BY DEF Table
  <1> HIDE DEF m, r, a, b
  <1>9. ASSUME NEW q PROVE q \in DOMAIN a <=> q \in DOMAIN b
    BY <1>3, <1>4, <1>5, <1>6, <1>7, <1>8
  <1>10. ASSUME NEW q \in DOMAIN a PROVE a[q] = b[q]
    <2>1. q \in DOMAIN m /\ q \in DOMAIN b /\ q \in User /\ q \in Path /\ a[q] = m[q]
      BY <1>6, <1>9, UserPath
    <2>2. CASE Within(new, q) /\ Rebase(q, new, old) \in DOMAIN f
      <3>1. Rebase(q, new, old) \in DOMAIN r /\ r[Rebase(q, new, old)] = f[Rebase(q, new, old)]
        BY <1>5, <1>7, <2>1, <2>2
      <3> QED  BY <1>3, <1>4, <2>1, <2>2, <3>1
    <2>3. CASE ~(Within(new, q) /\ Rebase(q, new, old) \in DOMAIN f)
      <3>1. q \in DOMAIN f /\ q \in DOMAIN r /\ r[q] = f[q]  BY <1>3, <1>5, <2>1, <2>3
      <3>2. ~(Within(new, q) /\ Rebase(q, new, old) \in DOMAIN r)  BY <1>5, <2>3
      <3> QED  BY <1>3, <1>4, <2>1, <2>3, <3>1, <3>2
    <2> QED  BY <2>2, <2>3
  <1>11. a = b  BY <1>2, <1>9, <1>10, TableEqual
  <1> QED  BY <1>11 DEF a, b, m, r

\* Below the bound on the depth, the paths of names are UserPaths.
LEMMA PublicIs ==
  ASSUME NEW f, NEW n, Tree(f, n)
  PROVE  [p \in DOMAIN f \cap UserPaths |-> f[p]] = Public(f)
  <1>1. ASSUME NEW p \in DOMAIN f PROVE p \in UserPaths <=> p \in User
    <2>1. p \in Path /\ Len(p) \in Nat /\ Len(p) <= MaxDepth /\ Len(p) \in 0 .. MaxDepth
      <3>1. p \in Path  BY TreeFacts
      <3> QED  BY <3>1, PathLen, NamespaceAssumption, SMTT(40) DEF Tree
    <2>2. ASSUME p \in User PROVE p \in UserPaths
      <3>1. p \in [1 .. Len(p) -> Names]  BY <2>2, SMTT(40) DEF User
      <3> QED  BY <2>1, <3>1 DEF UserPaths
    <2>3. ASSUME p \in UserPaths PROVE p \in User
      <3>1. PICK k \in 0 .. MaxDepth : p \in [1 .. k -> Names]  BY <2>3 DEF UserPaths
      <3> QED  BY <3>1, NamespaceAssumption, SMTT(40) DEF User
    <2> QED  BY <2>2, <2>3
  <1>2. DOMAIN f \cap UserPaths = DOMAIN f \cap User  BY <1>1
  <1> QED  BY <1>2 DEF Public

\* The names of Visible are the named files, with the victim back in place.
LEMMA VisibleShape ==
  ASSUME Base
  PROVE  Visible = IF op.st \in {"parked", "failed"} THEN With(Public(fs), op.new, fs[op.park])
                   ELSE Public(fs)
  BY PublicIs DEF Visible, Base, TreeOK

\* The same after a step.
LEMMA VisibleNext ==
  ASSUME Base'
  PROVE  Visible' = IF op'.st \in {"parked", "failed"} THEN With(Public(fs'), op'.new, fs'[op'.park])
                    ELSE Public(fs')
  BY PublicIs DEF Visible, Base, TreeOK

\* The abstract specification has the same paths and tables.
LEMMA AbsPaths ==
  /\ Abs!Root = Root
  /\ \A p : Abs!Parent(p) = Parent(p)
  /\ \A a, p : Abs!Within(a, p) <=> Within(a, p)
  /\ \A a, p : Abs!Below(a, p) <=> Below(a, p)
  /\ \A f, p, x : Abs!With(f, p, x) = With(f, p, x)
  /\ \A f, S : Abs!Without(f, S) = Without(f, S)
  /\ \A f, old, new : Abs!MoveKeys(f, old, new) = MoveKeys(f, old, new)
  BY DEF Abs!Root, Abs!Parent, Abs!Within, Abs!Below, Abs!With, Abs!Without, Abs!MoveKeys, Abs!Rebase,
         Root, Parent, Within, Below, With, Without, MoveKeys, Rebase

\* The mounted volume is an empty abstract tree.
LEMMA AtomicInit == Base /\ Init => Abs!Init
  <1> SUFFICES ASSUME Base, Init PROVE Visible = [p \in {Root} |-> 0]
    BY AbsPaths DEF Abs!Init
  <1>1. fs = [p \in {Root} |-> 0] /\ op.st = "idle"  BY DEF Init, Idle
  <1>2. Visible = Public(fs)  BY <1>1, VisibleShape
  <1>3. DOMAIN fs \cap User = {Root}  BY <1>1, RootPath
  <1> QED  BY <1>1, <1>2, <1>3 DEF Public

\* A creation is the abstract creation.
LEMMA AtomicCreate ==
  ASSUME Base, Base', NEW d \in Live, NEW n \in Names, NEW k, Create(d, n, k)
  PROVE  Abs!Next
  <1> DEFINE dir == objs[d].path  p == Append(dir, n)  f == Len(kind) + 1
  <1>1. /\ op = Idle /\ op' = op /\ fs' = With(fs, p, f) /\ p \notin DOMAIN fs /\ dir \in DOMAIN fs
    BY DEF Create
  <1>2. dir \in User /\ dir \in Path /\ n \in Nat /\ Len(kind) \in Nat /\ Tree(fs, Len(kind))
    BY UserPath, SMTT(40) DEF Base, ObjsOK, Live, TreeOK
  <1>3. p \in User /\ p \in Path /\ p # Root /\ Parent(p) = dir
    BY <1>2, UserPath, AppendPath
  <1>4. \A q \in DOMAIN fs : fs[q] # f
    <2>1. \A q \in DOMAIN fs : fs[q] \in 0 .. Len(kind)  BY <1>2, SMTT(40) DEF Tree
    <2> QED  BY <1>2, <2>1, SMTT(40)
  <1>5. Visible = Public(fs) /\ Visible' = Public(fs')
    BY <1>1, VisibleShape, VisibleNext DEF Idle
  <1>6. Table(fs) /\ Table(fs')
    <2>1. Table(fs)  BY <1>2, TreeFacts
    <2>2. Tree(fs', Len(kind'))  BY DEF Base, TreeOK
    <2> QED  BY <2>1, <2>2, TreeFacts
  <1> HIDE DEF p, f, dir
  <1>7. /\ DOMAIN Visible = DOMAIN fs \cap User /\ \A q \in DOMAIN fs \cap User : Visible[q] = fs[q]
        /\ DOMAIN Visible' = DOMAIN fs' \cap User /\ \A q \in DOMAIN fs' \cap User : Visible'[q] = fs'[q]
        /\ Table(Visible) /\ Table(Visible')
    BY <1>5, <1>6, PublicShape
  <1>8. DOMAIN fs' = DOMAIN fs \cup {p} /\ fs'[p] = f /\ \A q \in DOMAIN fs : fs'[q] = fs[q]
    BY <1>1 DEF With
  <1>9. Visible' = With(Visible, p, f)
    <2>1. Table(With(Visible, p, f))  BY <1>3, <1>7, WithShape
    <2>2. /\ DOMAIN With(Visible, p, f) = DOMAIN Visible \cup {p} /\ With(Visible, p, f)[p] = f
          /\ \A q \in DOMAIN Visible \ {p} : With(Visible, p, f)[q] = Visible[q]
      BY DEF With
    <2>3. \A q : q \in DOMAIN Visible' <=> q \in DOMAIN With(Visible, p, f)
      BY <1>3, <1>7, <1>8, <2>2
    <2>4. \A q \in DOMAIN Visible' : Visible'[q] = With(Visible, p, f)[q]
      BY <1>1, <1>3, <1>7, <1>8, <2>2
    <2> QED  BY <1>7, <2>1, <2>3, <2>4, TableEqual
  <1>10. /\ p \notin DOMAIN Visible /\ p # Root /\ Parent(p) \in DOMAIN Visible
         /\ \A q \in DOMAIN Visible : Visible[q] # f
         /\ p \in DOMAIN Visible' /\ Visible'[p] = f
    BY <1>1, <1>2, <1>3, <1>4, <1>7, <1>8
  <1>11. Abs!Create(p, Visible'[p])
    BY <1>9, <1>10, AbsPaths DEF Abs!Create
  <1> QED  BY <1>10, <1>11 DEF Abs!Next

\* A removal is the abstract removal.
LEMMA AtomicRemove ==
  ASSUME Base, Base', NEW i \in Live, RemoveItem(i)
  PROVE  Abs!Next
  <1> DEFINE p == objs[i].path
  <1>1. /\ op = Idle /\ op' = op /\ fs' = Without(fs, {p}) /\ p \in DOMAIN fs /\ IsEmpty(p)
        /\ i # RootObj
    BY DEF RemoveItem
  <1>2. p \in User /\ p # Root /\ Tree(fs, Len(kind)) /\ Table(fs)
    BY <1>1, TreeFacts DEF Base, ObjsOK, Live, TreeOK
  <1> HIDE DEF p
  <1>3. \A q \in DOMAIN fs : ~Below(p, q)
    BY <1>1, <1>2, TreeLeaf DEF Children, IsEmpty
  <1>4. Visible = Public(fs) /\ Visible' = Public(fs')
    BY <1>1, VisibleShape, VisibleNext DEF Idle
  <1>5. Visible' = Without(Visible, {p})
    BY <1>1, <1>4 DEF Public, Without
  <1>6. p \in DOMAIN Visible \ {Root} /\ p \notin DOMAIN Visible' /\ ~\E q \in DOMAIN Visible : Below(p, q)
    BY <1>1, <1>2, <1>3, <1>4, <1>5 DEF Public, Without
  <1>7. Abs!Unlink(p)  BY <1>5, <1>6, AbsPaths DEF Abs!Unlink
  <1> QED  BY <1>6, <1>7 DEF Abs!Next

\* Parking the victim is invisible.
LEMMA AtomicRenameStart ==
  ASSUME Base, Base', NEW i \in Live, NEW d \in Live, NEW n \in Names, RenameStart(i, d, n)
  PROVE  Visible' = Visible
  <1>1. op.st = "idle" /\ Visible = Public(fs)
    BY StartShape, VisibleShape, SMTT(40) DEF Idle
  <1>2. CASE op'.st = "ready" /\ fs' = fs
    BY <1>1, <1>2, VisibleNext
  <1>3. CASE /\ op'.st = "parked" /\ op'.new \in DOMAIN fs /\ op'.new \in User
             /\ op'.park \notin DOMAIN fs /\ op'.park \notin User
             /\ DOMAIN fs' = (DOMAIN fs \ {op'.new}) \cup {op'.park} /\ fs'[op'.park] = fs[op'.new]
             /\ \A q \in DOMAIN fs \ {op'.new} : fs'[q] = fs[q]
    <2> DEFINE new == op'.new  park == op'.park
    <2>1. Visible' = With(Public(fs'), new, fs'[park])
      BY <1>3, VisibleNext
    <2>2. /\ new \in DOMAIN fs /\ new \in User /\ park \notin DOMAIN fs /\ park \notin User
          /\ DOMAIN fs' = (DOMAIN fs \ {new}) \cup {park} /\ fs'[park] = fs[new]
          /\ \A q \in DOMAIN fs \ {new} : fs'[q] = fs[q]
      BY <1>3
    <2> HIDE DEF new, park
    <2>3. DOMAIN fs' \cap User = (DOMAIN fs \cap User) \ {new}  BY <2>2
    <2>4. DOMAIN Public(fs') \cup {new} = DOMAIN fs \cap User  BY <2>2, <2>3 DEF Public
    <2> QED  BY <1>1, <2>1, <2>2, <2>3, <2>4 DEF Public, With
  <1> QED  BY <1>2, <1>3, StartShape

\* A move, seen with the victim in place or without one.
LEMMA AtomicRenameMove == ASSUME Base, Base', RenameMove PROVE Abs!Next \/ Visible' = Visible
  <1>1. /\ op.st \in {"ready", "parked"} /\ fs' = MoveKeys(fs, op.old, op.new)
        /\ op' = [op EXCEPT !.st = IF op.over = NoObj THEN "done" ELSE "moved"]
    BY DEF RenameMove
  <1>2. /\ op # Idle /\ Request /\ Unmoved /\ Victim /\ op.old \in Path /\ op.new \in Path
        /\ op.old \in User /\ op.new \in User /\ op.dest \in User /\ op.dest \in Path
        /\ (op.over = NoObj => op.st = "ready") /\ (op.over # NoObj => op.st = "parked")
    BY <1>1, Underway
  <1>3. op'.st \notin {"parked", "failed"}
    <2>1. CASE op \in PlainOp  BY <1>1, <2>1 DEF PlainOp
    <2>2. CASE op \in OverOp  BY <1>1, <2>2 DEF OverOp
    <2> QED  BY <1>2, <2>1, <2>2 DEF Request
  <1>4. Visible' = Public(fs')  BY <1>3, VisibleNext
  <1>5. CASE op.old = op.new
    <2>1. fs' = fs  BY <1>1, <1>2, <1>5, MoveTree
    <2>2. op.st = "ready"  BY <1>2, <1>5 DEF Victim
    <2>3. Visible = Public(fs)  BY <2>2, VisibleShape
    <2> QED  BY <1>4, <2>1, <2>3
  <1>6. CASE op.old # op.new
    <2>1. Tree(fs, Len(kind)) /\ Table(fs)  BY TreeFacts DEF Base, TreeOK
    <2>2. /\ op.new \notin DOMAIN fs /\ op.old \in DOMAIN fs /\ op.dest \in DOMAIN fs
          /\ op.old # Root /\ op.new # Root /\ Parent(op.new) = op.dest /\ ~Within(op.old, op.dest)
      BY <1>1, <1>2, <1>6 DEF Unmoved, Request
    <2>3. op.new \in DOMAIN fs' /\ op.old \notin DOMAIN fs'
      BY <1>1, <1>2, <1>6, MoveTree
    <2>4. /\ Without(Visible, {op.new}) = Public(fs) /\ op.old \in DOMAIN Visible
          /\ op.dest \in DOMAIN Visible /\ \A q \in DOMAIN Visible : q = op.new \/ q \in DOMAIN fs
      <3>1. CASE op.st = "ready"
        <4>1. Visible = Public(fs)  BY <3>1, VisibleShape
        <4> QED  BY <1>2, <2>2, <4>1 DEF Public, Without
      <3>2. CASE op.st = "parked"
        <4>1. Visible = With(Public(fs), op.new, fs[op.park])  BY <3>2, VisibleShape
        <4>2. op.new \notin DOMAIN Public(fs) /\ DOMAIN Public(fs) = DOMAIN fs \cap User
          BY <2>2 DEF Public
        <4>3. DOMAIN Visible = DOMAIN Public(fs) \cup {op.new}  BY <4>1 DEF With
        <4>4. Without(Visible, {op.new}) = [p \in DOMAIN Public(fs) |-> Public(fs)[p]]
          BY <4>1, <4>2 DEF With, Without
        <4>5. Public(fs) = [p \in DOMAIN Public(fs) |-> Public(fs)[p]]  BY DEF Public
        <4> QED  BY <1>2, <2>2, <4>2, <4>3, <4>4, <4>5
      <3> QED  BY <1>1, <3>1, <3>2
    <2>5. Visible' = MoveKeys(Without(Visible, {op.new}), op.old, op.new)
      BY <1>1, <1>2, <1>4, <2>1, <2>4, PublicMove, SMTT(40)
    <2>6. ~Within(op.old, op.new)
      BY <1>2, <1>6, <2>2, WithinParent, SMTT(40)
    <2>7. ~\E q \in DOMAIN Visible : Below(op.new, q)
      BY <1>2, <2>1, <2>2, <2>4, TreeFacts DEF Below
    <2>8. op.old \notin DOMAIN Visible' /\ op.new \in DOMAIN Visible'
      BY <1>2, <1>4, <2>3 DEF Public
    <2>9. Abs!Rename(op.old, op.new)
      BY <2>2, <2>4, <2>5, <2>6, <2>7, AbsPaths DEF Abs!Rename
    <2> QED  BY <2>4, <2>8, <2>9 DEF Abs!Next
  <1> QED  BY <1>5, <1>6

\* The rollback is invisible, or leaves the victim out when it fails.
LEMMA AtomicRollback == ASSUME Base, Base', Rollback PROVE Abs!Next \/ Visible' = Visible
  <1>1. op.st = "failed" /\ op' = Idle /\ (fs' = MoveKeys(fs, op.park, op.new) \/ fs' = fs)
    BY DEF Rollback
  <1>2. /\ op # Idle /\ Request /\ Unmoved /\ Victim /\ op.over # NoObj
        /\ op.new \in User /\ op.new \in Path /\ op.new # Root /\ op.new \notin DOMAIN fs
    <2>1. op # Idle /\ Request /\ Unmoved /\ Victim /\ op.over # NoObj /\ op.new \in User /\ op.new \in Path
      BY <1>1, Underway
    <2>2. op.new # Root  BY <2>1 DEF Request
    <2>3. op.new \notin DOMAIN fs  BY <1>1, <2>1 DEF Unmoved
    <2> QED  BY <2>1, <2>2, <2>3
  <1>3. Visible = With(Public(fs), op.new, fs[op.park]) /\ Visible' = Public(fs')
    BY <1>1, VisibleShape, VisibleNext DEF Idle
  <1>4. /\ op.new \notin DOMAIN Public(fs) /\ DOMAIN Public(fs) = DOMAIN fs \cap User
        /\ Public(fs) = [p \in DOMAIN Public(fs) |-> Public(fs)[p]]
    BY <1>2 DEF Public
  <1>5. CASE fs' = MoveKeys(fs, op.park, op.new)
    <2>1. /\ DOMAIN fs' = (DOMAIN fs \ {op.park}) \cup {op.new}
          /\ fs'[op.new] = fs[op.park] /\ \A q \in DOMAIN fs \ {op.park} : fs'[q] = fs[q]
      BY <1>1, <1>5, RollbackTree
    <2>2. op.park \notin User  BY <1>2, ParkStays
    <2>3. DOMAIN fs' \cap User = (DOMAIN fs \cap User) \cup {op.new}  BY <1>2, <2>1, <2>2
    <2>4. \A q \in DOMAIN fs \cap User : fs'[q] = fs[q]  BY <2>1, <2>2
    <2> QED  BY <1>2, <1>3, <2>1, <2>3, <2>4 DEF Public, With
  <1>6. CASE fs' = fs
    <2>1. Visible' = Without(Visible, {op.new})
      <3>1. Without(Visible, {op.new}) = [p \in DOMAIN Public(fs) |-> Public(fs)[p]]
        BY <1>3, <1>4 DEF With, Without
      <3> QED  BY <1>3, <1>4, <1>6, <3>1
    <2>2. DOMAIN Visible = DOMAIN Public(fs) \cup {op.new}  BY <1>3 DEF With
    <2>3. ~\E q \in DOMAIN Visible : Below(op.new, q)
      BY <1>2, <1>4, <2>2, TreeFacts DEF Below, Base, TreeOK
    <2>4. op.new \in DOMAIN Visible \ {Root} /\ op.new \notin DOMAIN Visible'
      BY <1>2, <1>3, <1>4, <1>6, <2>2
    <2>5. Abs!Unlink(op.new)  BY <2>1, <2>3, <2>4, AbsPaths DEF Abs!Unlink
    <2> QED  BY <2>4, <2>5 DEF Abs!Next
  <1> QED  BY <1>1, <1>5, <1>6

\* Every other step is invisible.
LEMMA AtomicOther ==
  ASSUME Base, Base', RenameFail \/ PointVictim \/ DeleteVictim \/ Rekey
  PROVE  Visible' = Visible
  <1>1. CASE RenameFail
    <2>1. /\ op.st \in {"ready", "parked"} /\ fs' = fs
          /\ op' = IF op.st = "ready" THEN Idle ELSE [op EXCEPT !.st = "failed"]
      BY <1>1 DEF RenameFail
    <2>2. op # Idle /\ Request  BY <2>1, SMTT(40) DEF Base, OpOK, Idle
    <2>3. CASE op.st = "ready"
      BY <2>1, <2>3, VisibleShape, VisibleNext DEF Idle
    <2>4. CASE op.st = "parked"
      <3>1. op \in OverOp  BY <2>2, <2>4, OpFields DEF Request
      <3>2. op'.st = "failed" /\ op'.new = op.new /\ op'.park = op.park
        BY <2>1, <2>4, <3>1, StageOver
      <3> QED  BY <2>1, <2>4, <3>2, VisibleShape, VisibleNext
    <2> QED  BY <2>1, <2>3, <2>4
  <1>2. CASE PointVictim \/ DeleteVictim
    <2>1. /\ op.st \in {"moved", "pointed"} /\ fs' \in {fs, Without(fs, {op.park})}
          /\ \E s \in {"pointed", "done"} : op' = [op EXCEPT !.st = s]
      BY <1>2 DEF PointVictim, DeleteVictim
    <2>2. op # Idle /\ op.over # NoObj /\ op \in OverOp
      BY <2>1, OpFields, SMTT(40) DEF Base, OpOK, Request, Idle
    <2>3. op'.st \in {"pointed", "done"}  BY <2>1, <2>2, StageOver
    <2>4. Visible = Public(fs) /\ Visible' = Public(fs')
      BY <2>1, <2>3, VisibleShape, VisibleNext
    <2>5. op.park \notin User  BY <2>2, ParkStays
    <2>6. CASE fs' = Without(fs, {op.park})
      <3>1. DOMAIN fs' \cap User = DOMAIN fs \cap User  BY <2>5, <2>6 DEF Without
      <3>2. \A q \in DOMAIN fs \cap User : fs'[q] = fs[q]  BY <2>5, <2>6 DEF Without
      <3> QED  BY <2>4, <3>1, <3>2 DEF Public
    <2> QED  BY <2>1, <2>4, <2>6
  <1>3. CASE Rekey
    <2>1. op.st = "done" /\ op' = Idle /\ fs' = fs  BY <1>3 DEF Rekey
    <2> QED  BY <2>1, VisibleShape, VisibleNext DEF Idle
  <1> QED  BY <1>1, <1>2, <1>3

\* Every step is a step of the abstract namespace or invisible.
LEMMA AtomicNext == Base /\ Base' /\ [Next]_vars => [Abs!Next]_Visible
  <1> SUFFICES ASSUME Base, Base', [Next]_vars PROVE Abs!Next \/ Visible' = Visible
    OBVIOUS
  <1>0. ASSUME fs' = fs, op' = op PROVE Visible' = Visible
    BY <1>0 DEF Visible
  <1>1. ASSUME NEW d \in Live, NEW n \in Names, NEW k, CreateItem(d, n, k) \/ CreateSymbolicLink(d, n)
        PROVE  Abs!Next
    BY <1>1, AtomicCreate DEF CreateItem, CreateSymbolicLink
  <1>2. ASSUME NEW d \in Live, NEW n \in Names, LookupItem(d, n) PROVE Visible' = Visible
    BY <1>0, <1>2 DEF LookupItem
  <1>3. ASSUME NEW d \in Live, NEW n \in Names, NEW i \in Live, RenameStart(i, d, n)
        PROVE  Visible' = Visible
    BY <1>3, AtomicRenameStart
  <1>4. ASSUME NEW i \in Live, RemoveItem(i) PROVE Abs!Next
    BY <1>4, AtomicRemove
  <1>5. ASSUME NEW i \in DOMAIN objs, ReclaimItem(i) PROVE Visible' = Visible
    BY <1>0, <1>5 DEF ReclaimItem
  <1>6. ASSUME RenameFail \/ PointVictim \/ DeleteVictim \/ Rekey PROVE Visible' = Visible
    BY <1>6, AtomicOther
  <1>7. ASSUME (\E d \in Live : EnumSample(d)) \/ EnumList \/ EnumPack \/ CloseDir
        PROVE  Visible' = Visible
    BY <1>0, <1>7 DEF EnumSample, EnumList, EnumPack, CloseDir
  <1>8. CASE UNCHANGED vars  BY <1>0, <1>8 DEF vars
  <1> QED
    BY <1>1, <1>2, <1>3, <1>4, <1>5, <1>6, <1>7, <1>8, AtomicRenameMove, AtomicRollback DEF Next

\* The upcalls, with all their intermediate states, implement atomic
\* directory operations.
THEOREM Atomic == Spec => AtomicNamespace
  BY BaseInit, BaseNext, AtomicInit, AtomicNext, PTL DEF Spec, AtomicNamespace, Abs!Spec

-----------------------------------------------------------------------------
(* Lists and verifiers.                                                    *)

\* Directories that hold directories are not renamed.
Flat == op # Idle =>
    \A p \in DOMAIN fs :
        Below(IF op.st \in {"ready", "parked", "failed"} THEN op.old ELSE op.new, p) => ~IsDir(p)

\* The directories whose entries a rename in progress changes, and whose
\* generations it is going to bump.
Busy(d) == op # Idle /\ d \in {Parent(op.old), op.dest, op.old, op.new}

\* The names of a held list.
Listed == IF rd.st = "listed" THEN {Last(p) : p \in rd.list} ELSE rd.list

\* What was listed is a directory (the victim between the move and the
\* rewriting of its path excepted) ...
DirListed == ~(op.st = "moved" /\ rd.dir = op.over) =>
                objs[rd.dir].ino = 0 \/ kind[objs[rd.dir].ino] = "dir"
\* ... and the list is its contents or its generation is behind, or will be.
ListFresh == Gen(objs[rd.dir].path) = rd.gen /\ ~Busy(objs[rd.dir].path) =>
                Listed = {Last(q) : q \in Children(objs[rd.dir].path)}

\* The kernel holds a list of a directory it still uses.
Listing == rd.st \in {"listed", "done"} /\ rd.dir \in Live

\* The verifier invariant: a list is fresh or its verifier is not.
VerOK == /\ rd.st # "none" => "enum" \in env
         /\ "enum" \in env => /\ "opfail" \notin env /\ "nested" \notin env /\ ~Stranded
                              /\ op.st # "failed" /\ Flat
                              /\ Listing => DirListed /\ ListFresh

\* A step that leaves the directory, its generation and its entries alone.
LEMMA ListKeep ==
  ASSUME DirListed, ListFresh, rd' = rd, NEW P, P = objs[rd.dir].path, objs'[rd.dir] = objs[rd.dir],
         op.st = "moved" /\ rd.dir = op.over => op'.st = "moved" /\ rd.dir = op'.over,
         objs[rd.dir].ino # 0 => kind'[objs[rd.dir].ino] = kind[objs[rd.dir].ino],
         Gen(P)' = rd.gen /\ ~Busy(P)' =>
             Gen(P) = rd.gen /\ ~Busy(P) /\ Children(P)' = Children(P)
  PROVE  DirListed' /\ ListFresh'
  <1>1. DirListed'
    BY DEF DirListed
  <1>2. ListFresh'
    <2>1. (Gen(objs[rd.dir].path) = rd.gen)' <=> Gen(P)' = rd.gen  BY DEF Gen
    <2>2. Busy(objs[rd.dir].path)' <=> Busy(P)'  BY DEF Busy
    <2>3. Children(objs[rd.dir].path)' = Children(P)'  BY DEF Children
    <2>4. Listed' = Listed  BY DEF Listed
    <2>5. ASSUME Gen(P)' = rd.gen, ~Busy(P)' PROVE Listed = {Last(q) : q \in Children(P)}
      BY <2>5 DEF ListFresh
    <2>6. ASSUME Gen(P)' = rd.gen, ~Busy(P)' PROVE Listed' = {Last(q) : q \in Children(P)'}
      <3>1. Children(P)' = Children(P)  BY <2>6
      <3> QED  BY <2>4, <2>5, <2>6, <3>1
    <2>7. ASSUME Gen(P)' = rd.gen, ~Busy(P)'
          PROVE  Listed' = {Last(q) : q \in Children(objs[rd.dir].path)'}
      BY <2>3, <2>6, <2>7
    <2> QED  BY <2>1, <2>2, <2>7 DEF ListFresh
  <1> QED  BY <1>1, <1>2

\* A generation that was just handed out is not the one of an old list.
LEMMA BumpedGen ==
  ASSUME GenOK, RdOK, rd.st \in {"listed", "done"}, NEW dirs,
         genCounter' \in Nat, genCounter + 1 <= genCounter',
         DOMAIN gen' = DOMAIN gen \cup dirs,
         \A p \in dirs : gen'[p] \in genCounter + 1 .. genCounter',
         \A p \in DOMAIN gen \ dirs : gen'[p] = gen[p], NEW P
  PROVE  /\ Gen(P)' = rd.gen => P \notin dirs
         /\ P \notin dirs => Gen(P)' = Gen(P)
  <1>1. rd.gen \in 1 .. genCounter /\ genCounter \in Nat  BY SMTT(40) DEF RdOK, GenOK
  <1>2. P \in dirs => Gen(P)' \in genCounter + 1 .. genCounter'  BY DEF Gen
  <1>3. P \in dirs => Gen(P)' # rd.gen  BY <1>1, <1>2, SMTT(40)
  <1>4. P \notin dirs => Gen(P)' = Gen(P)  BY DEF Gen
  <1> QED  BY <1>3, <1>4

\* What the steps of an enumerating kernel start from.
Ver == Base /\ LinkOK /\ VerOK /\ "enum" \in env

\* What is known of a directory whose list is held.
LEMMA VerFacts ==
  ASSUME Ver, Listing
  PROVE  /\ rd.dir \in DOMAIN objs /\ rd.dir \in Live /\ rd.st \in {"listed", "done"}
         /\ objs[rd.dir].path \in User /\ objs[rd.dir].path \in Path
         /\ DirListed /\ ListFresh /\ GenOK /\ RdOK
         /\ Where(rd.dir) \in DOMAIN fs /\ fs[Where(rd.dir)] = objs[rd.dir].ino
         /\ objs[rd.dir].ino \in 0 .. Len(kind) /\ Len(kind) \in Nat
  <1>1. rd.dir \in Live /\ rd.dir \in DOMAIN objs /\ objs[rd.dir].use = "live" /\ rd.st \in {"listed", "done"}
    BY DEF Listing, Live
  <1>2. objs[rd.dir].path \in User /\ objs[rd.dir].path \in Path
    BY <1>1, UserPath DEF Ver, Base, ObjsOK
  <1>3. Where(rd.dir) \in DOMAIN fs /\ fs[Where(rd.dir)] = objs[rd.dir].ino
    BY <1>1 DEF Ver, LinkOK, Leads
  <1>4. objs[rd.dir].ino \in 0 .. Len(kind) /\ Len(kind) \in Nat
    BY <1>3, SMTT(40) DEF Ver, Base, TreeOK, Tree
  <1> QED  BY <1>1, <1>2, <1>3, <1>4 DEF Ver, VerOK, Base

\* A directory that was listed is not below a name Flat speaks of.
LEMMA NotBelow ==
  ASSUME Ver, Listing, ~(op.st = "moved" /\ rd.dir = op.over), NEW a \in Path, NEW w \in DOMAIN fs,
         fs[w] = objs[rd.dir].ino, \A p \in DOMAIN fs : Below(a, p) => ~IsDir(p)
  PROVE  ~Below(a, w)
  <1>1. objs[rd.dir].ino = 0 \/ kind[objs[rd.dir].ino] = "dir"
    BY VerFacts DEF DirListed
  <1>2. IsDir(w)
    <2>1. fs[w] = 0 => w = Root  BY DEF Ver, Base, TreeOK, Tree
    <2> QED  BY <1>1, <2>1 DEF IsDir
  <1> QED  BY <1>2

\* createItem and createSymbolicLink keep the lists fresh.
LEMMA VerCreate ==
  ASSUME Ver, Base', NEW d \in Live, NEW n \in Names, NEW k, Create(d, n, k)
  PROVE  Flat' /\ (Listing' => DirListed' /\ ListFresh')
  <1> DEFINE dir == objs[d].path  p == Append(dir, n)  f == Len(kind) + 1
  <1>1. /\ op = Idle /\ op' = op /\ fs' = With(fs, p, f) /\ HandOut(p, f) /\ p \notin DOMAIN fs
        /\ Bump(<<dir, p>>) /\ kind' = Append(kind, k) /\ rd' = rd
    BY DEF Create
  <1>2. dir \in User /\ dir \in Path /\ n \in Nat /\ Len(kind) \in Nat
    BY UserPath, SMTT(40) DEF Ver, Base, ObjsOK, Live, TreeOK
  <1>3. p \in User /\ p # Root /\ Parent(p) = dir /\ f \in Nat
    <2> HIDE DEF dir
    <2>1. p \in User  BY <1>2, UserPath
    <2>2. p # Root /\ Parent(p) = dir  BY <1>2, AppendPath
    <2> QED  BY <1>2, <2>1, <2>2, SMTT(40)
  <1> HIDE DEF p, f
  <1>4. Flat'  BY <1>1 DEF Flat
  <1>5. \A i \in DOMAIN objs : objs'[i] = objs[i]
    BY <1>1, <1>3, HandOutBase DEF Ver, Base
  <1>6. ASSUME Listing' PROVE DirListed' /\ ListFresh'
    <2>1. rd.dir \in DOMAIN objs /\ objs'[rd.dir] = objs[rd.dir]
      <3>1. rd.dir \in DOMAIN objs  BY <1>1, <1>6, RdDir DEF Listing, Ver, Base
      <3> QED  BY <1>5, <3>1
    <2>2. Listing  BY <1>1, <1>6, <2>1 DEF Listing, Live
    <2> PICK P : P = objs[rd.dir].path  OBVIOUS
    <2>3. objs[rd.dir].ino # 0 => kind'[objs[rd.dir].ino] = kind[objs[rd.dir].ino]
      <3>1. objs[rd.dir].ino \in 0 .. Len(kind) /\ Len(kind) \in Nat  BY <2>2, VerFacts
      <3>2. kind' = Append(kind, k)  BY <1>1
      <3>3. kind \in Seq({"file", "dir"})  BY DEF Ver, Base, TreeOK
      <3> QED  BY <3>1, <3>2, <3>3, SMTT(40)
    <2>4. /\ genCounter' = genCounter + 2 /\ genCounter \in Nat
          /\ DOMAIN gen' = DOMAIN gen \cup {dir, p}
          /\ \A q \in {dir, p} : gen'[q] \in genCounter + 1 .. genCounter'
          /\ \A q \in DOMAIN gen \ {dir, p} : gen'[q] = gen[q]
      <3>1. genCounter \in Nat  BY SMTT(40) DEF Ver, Base, GenOK
      <3> QED  BY <1>1, <3>1, Bump2
    <2>5. /\ Gen(P)' = rd.gen => P \notin {dir, p}
          /\ P \notin {dir, p} => Gen(P)' = Gen(P)
      <3> DEFINE dirs == {dir, p}
      <3>1. /\ genCounter' \in Nat /\ genCounter + 1 <= genCounter' /\ DOMAIN gen' = DOMAIN gen \cup dirs
            /\ \A q \in dirs : gen'[q] \in genCounter + 1 .. genCounter'
            /\ \A q \in DOMAIN gen \ dirs : gen'[q] = gen[q]
        BY <2>4, SMTT(40)
      <3>2. GenOK /\ RdOK /\ rd.st \in {"listed", "done"}  BY <2>2, VerFacts
      <3> HIDE DEF dirs
      <3>3. /\ Gen(P)' = rd.gen => P \notin dirs
            /\ P \notin dirs => Gen(P)' = Gen(P)
        BY <3>1, <3>2, BumpedGen
      <3> QED  BY <3>3 DEF dirs
    <2>6. ASSUME P # dir PROVE Children(P)' = Children(P)
      <3>1. DOMAIN fs' = DOMAIN fs \cup {p}  BY <1>1 DEF With
      <3> QED  BY <1>3, <2>6, <3>1 DEF Children
    <2>7. ~Busy(P)  BY <1>1 DEF Busy
    <2>8. ~(op.st = "moved" /\ rd.dir = op.over)  BY <1>1 DEF Idle
    <2>9. P = objs[rd.dir].path /\ DirListed /\ ListFresh  BY <2>2, VerFacts
    <2> QED  BY <1>1, <2>1, <2>3, <2>5, <2>6, <2>7, <2>8, <2>9, ListKeep
  <1> QED  BY <1>4, <1>6

\* lookupItem keeps the lists fresh.
LEMMA VerLookup ==
  ASSUME Ver, Base', NEW d \in Live, NEW n \in Names, LookupItem(d, n)
  PROVE  Flat' /\ (Listing' => DirListed' /\ ListFresh')
  <1> DEFINE p == Append(objs[d].path, n)
  <1>1. /\ op = Idle /\ op' = op /\ fs' = fs /\ kind' = kind /\ rd' = rd /\ gen' = gen
        /\ IF p \in DOMAIN fs THEN HandOut(p, fs[p]) ELSE objs' = objs
    BY DEF LookupItem, caches, gens
  <1>2. objs[d].path \in User  BY DEF Ver, Base, ObjsOK, Live
  <1>3. p \in User /\ p # Root
    BY <1>2, UserPath, AppendPath
  <1> HIDE DEF p
  <1>4. Flat'  BY <1>1 DEF Flat
  <1>5. \A i \in DOMAIN objs : objs'[i] = objs[i]
    <2>1. CASE p \in DOMAIN fs
      <3>1. fs[p] \in Nat  BY <2>1, SMTT(40) DEF Ver, Base, TreeOK, Tree
      <3> QED  BY <1>1, <1>3, <2>1, <3>1, HandOutBase DEF Ver, Base
    <2> QED  BY <1>1, <2>1
  <1>6. ASSUME Listing' PROVE DirListed' /\ ListFresh'
    <2>1. rd.dir \in DOMAIN objs /\ objs'[rd.dir] = objs[rd.dir]
      <3>1. rd.dir \in DOMAIN objs  BY <1>1, <1>6, RdDir DEF Listing, Ver, Base
      <3> QED  BY <1>5, <3>1
    <2>2. Listing  BY <1>1, <1>6, <2>1 DEF Listing, Live
    <2> PICK P : P = objs[rd.dir].path  OBVIOUS
    <2>3. P = objs[rd.dir].path /\ DirListed /\ ListFresh  BY <2>2, VerFacts
    <2>4. Gen(P)' = Gen(P) /\ ~Busy(P) /\ Children(P)' = Children(P)
      BY <1>1 DEF Gen, Busy, Children
    <2> QED  BY <1>1, <2>1, <2>3, <2>4, ListKeep
  <1> QED  BY <1>4, <1>6

\* removeItem keeps the lists fresh.
LEMMA VerRemove ==
  ASSUME Ver, Base', NEW i \in Live, RemoveItem(i)
  PROVE  Flat' /\ (Listing' => DirListed' /\ ListFresh')
  <1> DEFINE p == objs[i].path
  <1>1. /\ op = Idle /\ op' = op /\ fs' = Without(fs, {p}) /\ kind' = kind /\ rd' = rd
        /\ objs' = [objs EXCEPT ![i].use = "removed"] /\ Bump(<<Parent(p), p>>)
    BY DEF RemoveItem
  <1>2. Flat'  BY <1>1 DEF Flat
  <1>3. /\ DOMAIN objs' = DOMAIN objs /\ objs'[i].use = "removed"
        /\ \A j \in DOMAIN objs \ {i} : objs'[j] = objs[j]
    BY <1>1 DEF Live, Ver, Base, ObjsOK, Item
  <1>4. ASSUME Listing' PROVE DirListed' /\ ListFresh'
    <2>1. rd.dir \in DOMAIN objs /\ rd.dir # i /\ objs'[rd.dir] = objs[rd.dir]
      BY <1>1, <1>3, <1>4 DEF Listing, Live
    <2>2. Listing  BY <1>1, <1>4, <2>1 DEF Listing, Live
    <2> PICK P : P = objs[rd.dir].path  OBVIOUS
    <2>3. P = objs[rd.dir].path /\ DirListed /\ ListFresh  BY <2>2, VerFacts
    <2>4. /\ genCounter' = genCounter + 2 /\ genCounter \in Nat
          /\ DOMAIN gen' = DOMAIN gen \cup {Parent(p), p}
          /\ \A q \in {Parent(p), p} : gen'[q] \in genCounter + 1 .. genCounter'
          /\ \A q \in DOMAIN gen \ {Parent(p), p} : gen'[q] = gen[q]
      <3>1. genCounter \in Nat  BY SMTT(40) DEF Ver, Base, GenOK
      <3> QED  BY <1>1, <3>1, Bump2
    <2>5. /\ Gen(P)' = rd.gen => P \notin {Parent(p), p}
          /\ P \notin {Parent(p), p} => Gen(P)' = Gen(P)
      <3> DEFINE dirs == {Parent(p), p}
      <3>1. /\ genCounter' \in Nat /\ genCounter + 1 <= genCounter' /\ DOMAIN gen' = DOMAIN gen \cup dirs
            /\ \A q \in dirs : gen'[q] \in genCounter + 1 .. genCounter'
            /\ \A q \in DOMAIN gen \ dirs : gen'[q] = gen[q]
        BY <2>4, SMTT(40)
      <3>2. GenOK /\ RdOK /\ rd.st \in {"listed", "done"}  BY <2>2, VerFacts
      <3> HIDE DEF dirs
      <3>3. /\ Gen(P)' = rd.gen => P \notin dirs
            /\ P \notin dirs => Gen(P)' = Gen(P)
        BY <3>1, <3>2, BumpedGen
      <3> QED  BY <3>3 DEF dirs
    <2>6. ASSUME P # Parent(p) PROVE Children(P)' = Children(P)
      <3>1. DOMAIN fs' = DOMAIN fs \ {p}  BY <1>1 DEF Without
      <3> HIDE DEF p
      <3> QED  BY <2>6, <3>1 DEF Children
    <2>7. ~Busy(P)  BY <1>1 DEF Busy
    <2>8. ~(op.st = "moved" /\ rd.dir = op.over)  BY <1>1 DEF Idle
    <2> QED  BY <1>1, <2>1, <2>3, <2>5, <2>6, <2>7, <2>8, ListKeep
  <1> QED  BY <1>2, <1>4

\* reclaimItem keeps the lists fresh.
LEMMA VerReclaim ==
  ASSUME Ver, Base', NEW i \in DOMAIN objs, ReclaimItem(i)
  PROVE  Flat' /\ (Listing' => DirListed' /\ ListFresh')
  <1>1. /\ op = Idle /\ op' = op /\ fs' = fs /\ kind' = kind /\ rd' = rd /\ gen' = gen
        /\ objs' = Without(objs, {i})
    BY DEF ReclaimItem, gens
  <1>2. Flat'  BY <1>1 DEF Flat
  <1>3. ASSUME Listing' PROVE DirListed' /\ ListFresh'
    <2>1. rd.dir \in DOMAIN objs /\ objs'[rd.dir] = objs[rd.dir]
      BY <1>1, <1>3 DEF Listing, Live, Without
    <2>2. Listing  BY <1>1, <1>3, <2>1 DEF Listing, Live
    <2> PICK P : P = objs[rd.dir].path  OBVIOUS
    <2>3. P = objs[rd.dir].path /\ DirListed /\ ListFresh  BY <2>2, VerFacts
    <2>4. Gen(P)' = Gen(P) /\ ~Busy(P) /\ Children(P)' = Children(P)
      BY <1>1 DEF Gen, Busy, Children
    <2> QED  BY <1>1, <2>1, <2>3, <2>4, ListKeep
  <1> QED  BY <1>2, <1>3

\* Parking the victim keeps the lists fresh.
LEMMA VerRenameStart ==
  ASSUME Ver, Base', NEW i \in Live, NEW d \in Live, NEW n \in Names, RenameStart(i, d, n)
  PROVE  op'.st # "failed" /\ Flat' /\ (Listing' => DirListed' /\ ListFresh')
  <1>1. /\ op = Idle /\ UNCHANGED <<kind, objs, gen, rd>> /\ op' # Idle
        /\ op'.new \in Path /\ op'.new # Root /\ Parent(op'.new) = op'.dest /\ op'.old \in Path
        /\ \A p \in DOMAIN fs : Below(op'.old, p) => ~IsDir(p)
    BY StartShape, UserPath DEF Ver, VerOK, Base, ObjsOK, Live
  <1>2. \/ op'.st = "ready" /\ fs' = fs
        \/ /\ op'.st = "parked"
           /\ op'.park \in Path /\ op'.park # Root /\ Parent(op'.park) = op'.dest
           /\ DOMAIN fs' = (DOMAIN fs \ {op'.new}) \cup {op'.park}
           /\ \A q \in DOMAIN fs \ {op'.new} : fs'[q] = fs[q]
    BY StartShape DEF Ver
  <1>3. ~Within(op'.old, op'.dest)
    BY <1>1 DEF Base, OpOK, Request
  <1>4. Flat'
    <2>1. ASSUME NEW p \in DOMAIN fs', Below(op'.old, p) PROVE ~IsDir(p)'
      <3>1. CASE fs' = fs
        BY <1>1, <2>1, <3>1 DEF IsDir
      <3>2. CASE op'.st = "parked"
        <4>1. p # op'.park
          <5>1. ASSUME p = op'.park PROVE FALSE
            <6>1. Within(op'.old, p) /\ op'.old # p  BY <2>1 DEF Below
            <6>2. Within(op'.old, Parent(p))
              BY <1>1, <1>2, <3>2, <5>1, <6>1, WithinParent
            <6> QED  BY <1>2, <1>3, <3>2, <5>1, <6>2
          <5> QED  BY <5>1
        <4>2. p \in DOMAIN fs /\ fs'[p] = fs[p]  BY <1>2, <3>2, <4>1
        <4> QED  BY <1>1, <2>1, <4>2 DEF IsDir
      <3> QED  BY <1>2, <3>1, <3>2
    <2> QED  BY <1>2, <2>1 DEF Flat
  <1>5. ASSUME Listing' PROVE DirListed' /\ ListFresh'
    <2>1. Listing  BY <1>1, <1>5 DEF Listing, Live
    <2> PICK P : P = objs[rd.dir].path  OBVIOUS
    <2>2. P = objs[rd.dir].path /\ DirListed /\ ListFresh  BY <2>1, VerFacts
    <2>3. Gen(P)' = Gen(P) /\ ~Busy(P)  BY <1>1 DEF Gen, Busy
    <2>4. ~Busy(P)' => P # op'.dest  BY <1>1 DEF Busy
    <2>5. ASSUME P # op'.dest PROVE Children(P)' = Children(P)
      <3>1. CASE fs' = fs  BY <3>1 DEF Children
      <3>2. CASE op'.st = "parked"
        BY <1>1, <1>2, <2>5, <3>2 DEF Children
      <3> QED  BY <1>2, <3>1, <3>2
    <2>6. ~(op.st = "moved" /\ rd.dir = op.over)  BY <1>1 DEF Idle
    <2> QED  BY <1>1, <2>2, <2>3, <2>4, <2>5, <2>6, ListKeep
  <1> QED  BY <1>2, <1>4, <1>5

\* The move puts what was below the old name below the new one, and touches
\* the contents of no other directory than the two parents.
LEMMA MoveChildren ==
  ASSUME Ver, op # Idle, op.st \in {"ready", "parked"}, fs' = MoveKeys(fs, op.old, op.new),
         op.old # op.new, kind' = kind
  PROVE  /\ \A q \in DOMAIN fs' : Below(op.new, q) => ~IsDir(q)'
         /\ \A P \in DOMAIN fs : ~Within(op.old, P) /\ P # op.dest /\ P # Parent(op.old)
                                 => Children(P)' = Children(P)
  <1>1. /\ Request /\ Unmoved /\ op.old \in Path /\ op.new \in Path /\ op.new # Root
        /\ Parent(op.new) = op.dest /\ op.old # Root
    BY OpFields DEF Ver, Base, OpOK, Request
  <1>2. Tree(fs, Len(kind)) /\ DOMAIN fs \subseteq Path /\ op.new \notin DOMAIN fs
    BY <1>1, TreeFacts DEF Ver, Base, TreeOK, Unmoved
  <1>3. /\ \A p \in DOMAIN fs : ~Within(op.new, p)
        /\ \A p \in DOMAIN fs : ~Within(op.old, p) => p \in DOMAIN fs' /\ fs'[p] = fs[p]
    BY <1>1, <1>2, TreeMoveShape, SMTT(40)
  <1>4. \A q \in DOMAIN fs' : \E p \in DOMAIN fs :
            /\ fs'[q] = fs[p]
            /\ \/ q = p /\ ~Within(op.old, p)
               \/ Within(op.old, p) /\ q = Rebase(p, op.old, op.new)
    BY <1>1, <1>2, TreeMoveShape, SMTT(40)
  <1>5. \A p \in DOMAIN fs : Below(op.old, p) => ~IsDir(p)
    BY DEF Ver, VerOK, Flat
  <1>6. ASSUME NEW q \in DOMAIN fs', Below(op.new, q) PROVE ~IsDir(q)'
    <2>1. PICK p \in DOMAIN fs : /\ fs'[q] = fs[p]
                                 /\ \/ q = p /\ ~Within(op.old, p)
                                    \/ Within(op.old, p) /\ q = Rebase(p, op.old, op.new)
      BY <1>4
    <2>2. Within(op.new, q) /\ q # op.new  BY <1>6 DEF Below
    <2>3. Within(op.old, p) /\ q = Rebase(p, op.old, op.new)  BY <1>3, <2>1, <2>2
    <2>4. p # op.old  BY <1>1, <2>2, <2>3, RebaseSelf, SMTT(40)
    <2>5. ~IsDir(p)  BY <1>5, <2>3, <2>4 DEF Below
    <2>6. q # Root  BY <1>1, <2>2, WithinOrder, SMTT(40)
    <2> QED  BY <2>1, <2>5, <2>6 DEF IsDir
  <1>7. ASSUME NEW P \in DOMAIN fs, ~Within(op.old, P), P # op.dest, P # Parent(op.old)
        PROVE  Children(P)' = Children(P)
    <2>1. ASSUME NEW q \in DOMAIN fs', q # Root, Parent(q) = P PROVE q \in DOMAIN fs
      <3>1. PICK p \in DOMAIN fs : \/ q = p /\ ~Within(op.old, p)
                                   \/ Within(op.old, p) /\ q = Rebase(p, op.old, op.new)
        BY <1>4
      <3>2. CASE Within(op.old, p) /\ q = Rebase(p, op.old, op.new)
        <4>1. q \in Path /\ Within(op.new, q)  BY <1>1, <1>2, <3>2, RebaseWithin
        <4>2. q # op.new  BY <1>1, <1>7, <2>1
        <4>3. Within(op.new, P)  BY <1>1, <2>1, <4>1, <4>2, WithinParent
        <4> QED  BY <1>3, <4>3
      <3> QED  BY <3>1, <3>2
    <2>2. ASSUME NEW q \in DOMAIN fs, q # Root, Parent(q) = P PROVE q \in DOMAIN fs'
      <3>1. ~Within(op.old, q)  BY <1>1, <1>2, <1>7, <2>2, WithinParent
      <3> QED  BY <1>3, <3>1
    <2> QED  BY <2>1, <2>2 DEF Children
  <1> QED  BY <1>6, <1>7

\* The engine's move keeps the lists fresh.
LEMMA VerRenameMove ==
  ASSUME Ver, Base', RenameMove
  PROVE  op'.st # "failed" /\ Flat' /\ (Listing' => DirListed' /\ ListFresh')
  <1>1. /\ op.st \in {"ready", "parked"} /\ fs' = MoveKeys(fs, op.old, op.new)
        /\ op' = [op EXCEPT !.st = IF op.over = NoObj THEN "done" ELSE "moved"]
        /\ UNCHANGED <<kind, objs, gen, rd>>
    BY DEF RenameMove, gens
  <1>2. /\ op # Idle /\ Request /\ Unmoved /\ Victim /\ op.old \in Path /\ op.new \in Path
        /\ (op.over = NoObj => op.st = "ready") /\ (op.over # NoObj => op.st = "parked")
    BY <1>1, OpFields, SMTT(40) DEF Ver, Base, OpOK, Request, Idle
  <1>3. /\ op'.old = op.old /\ op'.new = op.new /\ op'.over = op.over /\ op'.dest = op.dest
        /\ op'.st = (IF op.over = NoObj THEN "done" ELSE "moved")
    <2>1. CASE op.over = NoObj
      <3>1. op \in PlainOp  BY <1>2, <2>1, OpFields DEF Request
      <3> QED  BY <1>1, <2>1, <3>1 DEF PlainOp
    <2>2. CASE op.over # NoObj
      <3>1. op \in OverOp  BY <1>2, <2>2, OpFields DEF Request
      <3> QED  BY <1>1, <2>2, <3>1 DEF OverOp
    <2> QED  BY <2>1, <2>2
  <1>4. op' # Idle  BY <1>3, SMTT(40) DEF Idle
  <1>5. op.old = op.new => fs' = fs  BY <1>1, <1>2, MoveTree DEF Ver
  <1>6. Flat'
    <2>1. ASSUME op.old = op.new PROVE \A q \in DOMAIN fs' : Below(op.new, q) => ~IsDir(q)'
      BY <1>1, <1>2, <1>5, <2>1 DEF Ver, VerOK, Flat, IsDir
    <2>2. ASSUME op.old # op.new PROVE \A q \in DOMAIN fs' : Below(op.new, q) => ~IsDir(q)'
      BY <1>1, <1>2, <2>2, MoveChildren
    <2>3. \A q \in DOMAIN fs' : Below(op'.new, q) => ~IsDir(q)'
      BY <1>3, <2>1, <2>2
    <2>4. op'.st \notin {"ready", "parked", "failed"}  BY <1>3
    <2> QED  BY <2>3, <2>4 DEF Flat
  <1>7. ASSUME Listing' PROVE DirListed' /\ ListFresh'
    <2>1. Listing  BY <1>1, <1>7 DEF Listing, Live
    <2> PICK P : P = objs[rd.dir].path  OBVIOUS
    <2>2. P = objs[rd.dir].path /\ DirListed /\ ListFresh  BY <2>1, VerFacts
    <2>3. Gen(P)' = Gen(P) /\ (Busy(P)' <=> Busy(P))  BY <1>1, <1>2, <1>3, <1>4 DEF Gen, Busy
    <2>4. ASSUME ~Busy(P) PROVE Children(P)' = Children(P)
      <3>1. P # op.old /\ P # op.new /\ P # op.dest /\ P # Parent(op.old)
        BY <1>2, <2>4 DEF Busy
      <3>2. rd.dir # op.over
        <4>1. ASSUME rd.dir = op.over PROVE FALSE
          <5>1. op.over # NoObj
            BY <2>1, <4>1, VerFacts, NamespaceAssumption, SMTT(40) DEF NoObj, Ver, Base, ObjsOK, Objs
          <5>2. objs[op.over].path = op.new
            BY <1>2, <5>1 DEF Victim, Ver, Base, CacheOK, Displaced
          <5> QED  BY <2>2, <3>1, <4>1, <5>2
        <4> QED  BY <4>1
      <3>3. P \in DOMAIN fs /\ fs[P] = objs[rd.dir].ino
        <4>1. Where(rd.dir) = P  BY <1>1, <2>2, <3>2 DEF Where
        <4> QED  BY <2>1, <4>1, VerFacts
      <3>4. ~Within(op.old, P)
        <4>1. ~(op.st = "moved" /\ rd.dir = op.over)  BY <3>2
        <4>2. \A p \in DOMAIN fs : Below(op.old, p) => ~IsDir(p)
          BY <1>1, <1>2 DEF Ver, VerOK, Flat
        <4>3. ~Below(op.old, P)  BY <1>2, <2>1, <3>3, <4>1, <4>2, NotBelow
        <4> QED  BY <3>1, <4>3 DEF Below
      <3>5. CASE op.old = op.new  BY <1>5, <3>5 DEF Children
      <3>6. CASE op.old # op.new  BY <1>1, <1>2, <3>1, <3>3, <3>4, <3>6, MoveChildren
      <3> QED  BY <3>5, <3>6
    <2>5. ~(op.st = "moved" /\ rd.dir = op.over)  BY <1>1
    <2> QED  BY <1>1, <2>2, <2>3, <2>4, <2>5, ListKeep
  <1> QED  BY <1>3, <1>6, <1>7

\* Pointing the victim's object keeps the lists fresh.
LEMMA VerPointVictim ==
  ASSUME Ver, Base', PointVictim
  PROVE  op'.st # "failed" /\ Flat' /\ (Listing' => DirListed' /\ ListFresh')
  <1>1. /\ op.st = "moved" /\ op' = [op EXCEPT !.st = "pointed"]
        /\ objs' = [objs EXCEPT ![op.over].path = op.park, ![op.over].use = "victim"]
        /\ UNCHANGED <<fs, kind, gen, rd>>
    BY DEF PointVictim, gens
  <1>2. op # Idle /\ Request /\ Victim /\ op.over # NoObj /\ op \in OverOp
    BY <1>1, OpFields, SMTT(40) DEF Ver, Base, OpOK, Request, Idle
  <1>3. /\ op'.st = "pointed" /\ op'.old = op.old /\ op'.new = op.new
        /\ op'.over = op.over /\ op'.dest = op.dest /\ op' # Idle
    BY <1>1, <1>2, StageOver DEF Idle
  <1>4. op.over \in DOMAIN objs  BY <1>2 DEF Victim
  <1>5. /\ DOMAIN objs' = DOMAIN objs /\ objs'[op.over].use = "victim"
        /\ \A j \in DOMAIN objs \ {op.over} : objs'[j] = objs[j]
    BY <1>1, <1>4 DEF Ver, Base, ObjsOK, Item
  <1>6. Flat'  BY <1>1, <1>2, <1>3 DEF Ver, VerOK, Flat, IsDir
  <1>7. ASSUME Listing' PROVE DirListed' /\ ListFresh'
    <2>1. rd.dir \in DOMAIN objs /\ rd.dir # op.over /\ objs'[rd.dir] = objs[rd.dir]
      BY <1>1, <1>5, <1>7 DEF Listing, Live
    <2>2. Listing  BY <1>1, <1>7, <2>1 DEF Listing, Live
    <2> PICK P : P = objs[rd.dir].path  OBVIOUS
    <2>3. P = objs[rd.dir].path /\ DirListed /\ ListFresh  BY <2>2, VerFacts
    <2>4. Gen(P)' = Gen(P) /\ (Busy(P)' <=> Busy(P)) /\ Children(P)' = Children(P)
      BY <1>1, <1>2, <1>3 DEF Gen, Busy, Children
    <2> QED  BY <1>1, <2>1, <2>3, <2>4, ListKeep
  <1> QED  BY <1>3, <1>6, <1>7

\* Deleting the victim keeps the lists fresh.
LEMMA VerDeleteVictim ==
  ASSUME Ver, Base', DeleteVictim
  PROVE  op'.st # "failed" /\ Flat' /\ (Listing' => DirListed' /\ ListFresh')
  <1>1. /\ op.st = "pointed" /\ op' = [op EXCEPT !.st = "done"]
        /\ (fs' = Without(fs, {op.park}) \/ fs' = fs)
        /\ UNCHANGED <<kind, objs, gen, rd>>
    BY DEF DeleteVictim, gens
  <1>2. op # Idle /\ Request /\ Victim /\ op.over # NoObj /\ op \in OverOp
    BY <1>1, OpFields, SMTT(40) DEF Ver, Base, OpOK, Request, Idle
  <1>3. /\ op'.st = "done" /\ op'.old = op.old /\ op'.new = op.new
        /\ op'.over = op.over /\ op'.dest = op.dest /\ op' # Idle
    BY <1>1, <1>2, StageOver DEF Idle
  <1>4. /\ DOMAIN fs' \subseteq DOMAIN fs /\ DOMAIN fs \subseteq DOMAIN fs' \cup {op.park}
        /\ \A q \in DOMAIN fs' : fs'[q] = fs[q]
    BY <1>1 DEF Without
  <1>5. Flat'
    <2>1. \A q \in DOMAIN fs : Below(op.new, q) => ~IsDir(q)
      BY <1>1, <1>2 DEF Ver, VerOK, Flat
    <2>2. \A q \in DOMAIN fs' : Below(op.new, q) => ~IsDir(q)'
      BY <1>1, <1>4, <2>1 DEF IsDir
    <2> QED  BY <1>3, <2>2 DEF Flat
  <1>6. ASSUME Listing' PROVE DirListed' /\ ListFresh'
    <2>1. Listing  BY <1>1, <1>6 DEF Listing, Live
    <2> PICK P : P = objs[rd.dir].path  OBVIOUS
    <2>2. P = objs[rd.dir].path /\ DirListed /\ ListFresh  BY <2>1, VerFacts
    <2>3. Gen(P)' = Gen(P) /\ (Busy(P)' <=> Busy(P))
      BY <1>1, <1>2, <1>3 DEF Gen, Busy
    <2>4. ASSUME ~Busy(P) PROVE Children(P)' = Children(P)
      <3>1. Parent(op.park) # P  BY <1>2, <2>4 DEF Busy, Victim
      <3> QED  BY <1>4, <3>1 DEF Children
    <2>5. ~(op.st = "moved" /\ rd.dir = op.over)  BY <1>1
    <2> QED  BY <1>1, <2>2, <2>3, <2>4, <2>5, ListKeep
  <1> QED  BY <1>3, <1>5, <1>6

\* Re-keying the caches, and bumping what changed, keeps the lists fresh.
LEMMA VerRekey ==
  ASSUME Ver, Base', Rekey
  PROVE  op'.st # "failed" /\ Flat' /\ (Listing' => DirListed' /\ ListFresh')
  <1>1. /\ op.st = "done" /\ op' = Idle /\ UNCHANGED <<fs, kind, rd>>
        /\ Bump(<<Parent(op.old), op.dest, op.old, op.new>>)
    BY DEF Rekey
  <1>2. op # Idle /\ Request /\ op.old \in Path /\ op.new \in Path
    BY <1>1, OpFields, SMTT(40) DEF Ver, Base, OpOK, Request, Idle
  <1>3. Flat' /\ op'.st # "failed"  BY <1>1 DEF Flat, Idle
  <1>4. ASSUME Listing' PROVE DirListed' /\ ListFresh'
    <2>1. DOMAIN objs' = DOMAIN objs
          /\ \A j \in DOMAIN objs : objs'[j].ino = objs[j].ino /\ objs'[j].use = objs[j].use
      BY RekeyObjs DEF Ver
    <2>2. rd.dir \in DOMAIN objs  BY <1>1, <1>4, <2>1 DEF Listing, Live
    <2>3. Listing  BY <1>1, <1>4, <2>1, <2>2 DEF Listing, Live
    <2> PICK P : P = objs[rd.dir].path  OBVIOUS
    <2>4. P = objs[rd.dir].path /\ P \in Path /\ DirListed /\ ListFresh /\ rd.dir \in Live
      BY <2>3, VerFacts
    <2>5. objs'[rd.dir].path = Moved(P)  BY <2>4, RekeyPaths DEF Ver
    <2>6. genCounter \in Nat  BY SMTT(40) DEF Ver, Base, GenOK
    <2>7. /\ genCounter' = genCounter + 4
          /\ DOMAIN gen' = DOMAIN gen \cup {Parent(op.old), op.dest, op.old, op.new}
          /\ \A p \in {Parent(op.old), op.dest, op.old, op.new} :
                gen'[p] \in genCounter + 1 .. genCounter'
          /\ \A p \in DOMAIN gen \ {Parent(op.old), op.dest, op.old, op.new} : gen'[p] = gen[p]
      BY <1>1, <2>6, Bump4
    <2>8. ASSUME NEW Q
          PROVE  /\ Gen(Q)' = rd.gen => Q \notin {Parent(op.old), op.dest, op.old, op.new}
                 /\ Q \notin {Parent(op.old), op.dest, op.old, op.new} => Gen(Q)' = Gen(Q)
      <3> DEFINE dirs == {Parent(op.old), op.dest, op.old, op.new}
      <3>1. /\ genCounter' \in Nat /\ genCounter + 1 <= genCounter' /\ DOMAIN gen' = DOMAIN gen \cup dirs
            /\ \A q \in dirs : gen'[q] \in genCounter + 1 .. genCounter'
            /\ \A q \in DOMAIN gen \ dirs : gen'[q] = gen[q]
        BY <2>6, <2>7, SMTT(40)
      <3>2. GenOK /\ RdOK /\ rd.st \in {"listed", "done"}  BY <2>3, VerFacts
      <3> HIDE DEF dirs
      <3>3. /\ Gen(Q)' = rd.gen => Q \notin dirs
            /\ Q \notin dirs => Gen(Q)' = Gen(Q)
        BY <3>1, <3>2, BumpedGen
      <3> QED  BY <3>3 DEF dirs
    <2>9. DirListed'
      <3>1. objs[rd.dir].ino = 0 \/ kind[objs[rd.dir].ino] = "dir"
        BY <1>1, <2>4 DEF DirListed
      <3>2. objs'[rd.dir].ino = objs[rd.dir].ino  BY <2>1, <2>2
      <3> QED  BY <1>1, <3>1, <3>2 DEF DirListed
    <2>10. ~Below(op.old, P)
      <3>1. ASSUME Below(op.old, P) PROVE FALSE
        <4>1. Within(op.old, P) /\ P # op.old  BY <3>1 DEF Below
        <4>2. Where(rd.dir) = Rebase(P, op.old, op.new)
          BY <1>1, <2>4, <4>1 DEF Where
        <4>3. Where(rd.dir) \in DOMAIN fs /\ fs[Where(rd.dir)] = objs[rd.dir].ino
          BY <2>3, VerFacts
        <4>4. Below(op.new, Where(rd.dir))
          BY <1>2, <2>4, <4>1, <4>2, RebaseWithin, RebaseSelf, SMTT(40) DEF Below
        <4>5. \A p \in DOMAIN fs : Below(op.new, p) => ~IsDir(p)
          BY <1>1, <1>2 DEF Ver, VerOK, Flat
        <4>6. ~(op.st = "moved" /\ rd.dir = op.over)  BY <1>1
        <4> QED  BY <1>2, <2>3, <4>3, <4>4, <4>5, <4>6, NotBelow
      <3> QED  BY <3>1
    <2>11. CASE P = op.old
      <3>1. Moved(P) = op.new  BY <1>2, <2>11, RebaseSelf, WithinOrder DEF Moved
      <3>2. (Gen(objs[rd.dir].path) # rd.gen)'
        <4> PICK N : N = op.new  OBVIOUS
        <4>1. Gen(N)' # rd.gen  BY <2>8
        <4>2. (IF N \in DOMAIN gen' THEN gen'[N] ELSE 1) # rd.gen  BY <4>1 DEF Gen
        <4>3. (IF objs'[rd.dir].path \in DOMAIN gen' THEN gen'[objs'[rd.dir].path] ELSE 1) # rd.gen
          BY <2>5, <3>1, <4>2
        <4> QED  BY <1>1, <4>3 DEF Gen
      <3> QED  BY <2>9, <3>2 DEF ListFresh
    <2>12. CASE P # op.old
      <3>1. objs'[rd.dir].path = P  BY <2>5, <2>10, <2>12 DEF Moved, Below
      <3>2. ASSUME Gen(P)' = rd.gen PROVE Gen(P) = rd.gen /\ ~Busy(P)
        BY <2>8, <3>2 DEF Busy
      <3>3. Children(P)' = Children(P)  BY <1>1 DEF Children
      <3>4. ListFresh'
        <4>1. (Gen(objs[rd.dir].path) = rd.gen)' <=> Gen(P)' = rd.gen  BY <1>1, <3>1 DEF Gen
        <4>2. Children(objs[rd.dir].path)' = Children(P)  BY <1>1, <3>1 DEF Children
        <4>3. Listed' = Listed  BY <1>1 DEF Listed
        <4>4. ASSUME Gen(P)' = rd.gen PROVE Listed = {Last(q) : q \in Children(P)}
          BY <2>4, <3>2, <4>4 DEF ListFresh
        <4>5. ASSUME Gen(P)' = rd.gen
              PROVE  Listed' = {Last(q) : q \in Children(objs[rd.dir].path)'}
          BY <4>2, <4>3, <4>4, <4>5
        <4> QED  BY <4>1, <4>5 DEF ListFresh
      <3> QED  BY <2>9, <3>4
    <2> QED  BY <2>11, <2>12
  <1> QED  BY <1>3, <1>4

\* The steps of enumerateDirectory keep the lists fresh.
LEMMA VerEnum ==
  ASSUME Ver, Base', \/ \E d \in Live : EnumSample(d)
                     \/ EnumList \/ EnumPack \/ CloseDir \/ UNCHANGED vars
  PROVE  op'.st # "failed" /\ Flat' /\ (Listing' => DirListed' /\ ListFresh')
  <1>1. UNCHANGED <<fs, kind, objs, gen, op>>
    BY DEF EnumSample, EnumList, EnumPack, CloseDir, gens, vars, caches
  <1>2. Flat' /\ op'.st # "failed"  BY <1>1 DEF Ver, VerOK, Flat, IsDir
  <1>3. CASE \E d \in Live : EnumSample(d)
    <2>1. rd'.st = "sampled"  BY <1>3, SMTT(40) DEF EnumSample
    <2> QED  BY <1>2, <2>1 DEF Listing
  <1>4. CASE CloseDir
    <2>1. rd'.st = "none"  BY <1>4 DEF CloseDir
    <2> QED  BY <1>2, <2>1 DEF Listing
  <1>5. CASE UNCHANGED vars
    <2>1. rd' = rd  BY <1>5 DEF vars
    <2>2. ASSUME Listing' PROVE DirListed' /\ ListFresh'
      <3>1. Listing  BY <1>1, <2>1, <2>2 DEF Listing, Live
      <3> PICK P : P = objs[rd.dir].path  OBVIOUS
      <3>2. P = objs[rd.dir].path /\ DirListed /\ ListFresh  BY <3>1, VerFacts
      <3>3. Gen(P)' = Gen(P) /\ (Busy(P)' <=> Busy(P)) /\ Children(P)' = Children(P)
        BY <1>1 DEF Gen, Busy, Children
      <3> QED  BY <1>1, <2>1, <3>2, <3>3, ListKeep
    <2> QED  BY <1>2, <2>2
  <1>6. CASE EnumPack
    <2>1. /\ rd.st = "listed" /\ rd'.st = "done" /\ rd'.dir = rd.dir /\ rd'.gen = rd.gen
          /\ rd'.list = {Last(p) : p \in rd.list}
      BY <1>6 DEF EnumPack, Verifier
    <2>2. ASSUME Listing' PROVE DirListed' /\ ListFresh'
      <3>1. Listing  BY <1>1, <2>1, <2>2 DEF Listing, Live
      <3>2. DirListed /\ ListFresh  BY <3>1, VerFacts
      <3>3. DirListed'  BY <1>1, <2>1, <3>2 DEF DirListed
      <3>4. Listed' = Listed  BY <2>1 DEF Listed
      <3>5. ListFresh'  BY <1>1, <2>1, <3>2, <3>4 DEF ListFresh, Gen, Busy, Children
      <3> QED  BY <3>3, <3>5
    <2> QED  BY <1>2, <2>2
  <1>7. CASE EnumList
    <2>1. rd.st = "sampled"  BY <1>7 DEF EnumList
    <2>2. ASSUME Listing' PROVE DirListed' /\ ListFresh'
      <3>1. /\ objs[rd.dir].path \in DOMAIN fs /\ IsDir(objs[rd.dir].path)
            /\ rd' = [st |-> "listed", dir |-> rd.dir, gen |-> rd.gen, list |-> Children(objs[rd.dir].path)]
        <4>1. rd'.st # "none"  BY <2>2 DEF Listing
        <4> QED  BY <1>7, <4>1 DEF EnumList
      <3>2. rd'.st = "listed" /\ rd'.dir = rd.dir /\ rd'.list = Children(objs[rd.dir].path)
        BY <3>1
      <3>3. rd.dir \in Live /\ objs[rd.dir].use = "live" /\ rd.dir \in DOMAIN objs
        BY <1>1, <2>2, <3>2 DEF Listing, Live
      <3>4. ListFresh'
        <4>1. Listed' = {Last(q) : q \in Children(objs[rd.dir].path)}  BY <3>2 DEF Listed
        <4>2. Children(objs[rd.dir].path)' = Children(objs[rd.dir].path)  BY <1>1, <3>2 DEF Children
        <4> QED  BY <4>1, <4>2 DEF ListFresh
      <3>5. ASSUME ~(op.st = "moved" /\ rd.dir = op.over)
            PROVE  objs[rd.dir].ino = 0 \/ kind[objs[rd.dir].ino] = "dir"
        <4>1. HandlesSafe /\ ~Stranded  BY LinkHandles DEF Ver, Linked, VerOK
        <4>2. fs[objs[rd.dir].path] = objs[rd.dir].ino
          BY <3>1, <3>3, <3>5, <4>1 DEF HandlesSafe, Aliased
        <4>3. fs[Root] = 0  BY DEF Ver, Base, TreeOK, Tree
        <4> QED  BY <3>1, <4>2, <4>3 DEF IsDir
      <3>6. DirListed'  BY <1>1, <3>2, <3>5 DEF DirListed
      <3> QED  BY <3>4, <3>6
    <2> QED  BY <1>2, <2>2
  <1> QED  BY <1>3, <1>4, <1>5, <1>6, <1>7

\* Every step keeps the lists fresh.
LEMMA VerNext == Base /\ Linked /\ VerOK /\ Base' /\ [Next]_vars => VerOK'
  <1> SUFFICES ASSUME Base, Linked, VerOK, Base', [Next]_vars PROVE VerOK'
    OBVIOUS
  <1>1. CASE "enum" \in env
    <2>1. Ver  BY <1>1 DEF Ver, VerOK, Linked
    <2>2. ~RenameFail /\ ~Rollback  BY <1>1 DEF VerOK, RenameFail, Rollback
    <2>3. env' = env  BY <2>2, EnvStep
    <2> DEFINE Goal == op'.st # "failed" /\ Flat' /\ (Listing' => DirListed' /\ ListFresh')
    <2>4. ASSUME NEW d \in Live, NEW n \in Names, NEW k, Create(d, n, k) PROVE Goal
      <3>1. op' = Idle  BY <2>4 DEF Create
      <3> QED  BY <2>1, <2>4, <3>1, VerCreate DEF Idle
    <2>5. ASSUME NEW d \in Live, NEW n \in Names, LookupItem(d, n) PROVE Goal
      <3>1. op' = Idle  BY <2>5 DEF LookupItem
      <3> QED  BY <2>1, <2>5, <3>1, VerLookup DEF Idle
    <2>6. ASSUME NEW d \in Live, NEW n \in Names, NEW i \in Live, RenameStart(i, d, n) PROVE Goal
      BY <2>1, <2>6, VerRenameStart
    <2>7. ASSUME NEW i \in Live, RemoveItem(i) PROVE Goal
      <3>1. op' = Idle  BY <2>7 DEF RemoveItem
      <3> QED  BY <2>1, <2>7, <3>1, VerRemove DEF Idle
    <2>8. ASSUME NEW i \in DOMAIN objs, ReclaimItem(i) PROVE Goal
      <3>1. op' = Idle  BY <2>8 DEF ReclaimItem
      <3> QED  BY <2>1, <2>8, <3>1, VerReclaim DEF Idle
    <2>9. ASSUME RenameMove \/ PointVictim \/ DeleteVictim \/ Rekey PROVE Goal
      BY <2>1, <2>9, VerRenameMove, VerPointVictim, VerDeleteVictim, VerRekey
    <2>10. ASSUME (\E d \in Live : EnumSample(d)) \/ EnumList \/ EnumPack \/ CloseDir \/ UNCHANGED vars
           PROVE  Goal
      BY <2>1, <2>10, VerEnum
    <2>11. Goal
      <3> HIDE DEF Goal
      <3> QED  BY <2>2, <2>4, <2>5, <2>6, <2>7, <2>8, <2>9, <2>10
               DEF Next, CreateItem, CreateSymbolicLink
    <2> QED  BY <1>1, <2>3, <2>11 DEF VerOK, Stranded
  <1>2. CASE "enum" \notin env
    <2>1. rd.st = "none"  BY <1>2 DEF VerOK
    <2>2. "enum" \notin env'
      <3>1. CASE Rollback
        <4>1. env' = env \/ env' = env \cup {"stranded"}  BY <3>1 DEF Rollback
        <4> QED  BY <1>2, <4>1, SMTT(40)
      <3>2. CASE ~Rollback  BY <1>2, <3>2, EnvStep
      <3> QED  BY <3>1, <3>2
    <2>3. rd' = rd
      <3>1. ASSUME NEW d, NEW n, NEW k, Create(d, n, k) PROVE rd' = rd
        BY <3>1 DEF Create
      <3>2. ASSUME NEW d, NEW n, LookupItem(d, n) PROVE rd' = rd
        BY <3>2 DEF LookupItem
      <3>3. ASSUME NEW d, NEW n, NEW i, RenameStart(i, d, n) PROVE rd' = rd
        BY <3>3 DEF RenameStart
      <3>4. ASSUME NEW i, RemoveItem(i) \/ ReclaimItem(i) PROVE rd' = rd
        BY <3>4 DEF RemoveItem, ReclaimItem
      <3>5. ASSUME RenameMove \/ RenameFail \/ Rollback \/ PointVictim \/ DeleteVictim \/ Rekey
            PROVE  rd' = rd
        BY <3>5 DEF RenameMove, RenameFail, Rollback, PointVictim, DeleteVictim, Rekey
      <3>6. (\A d : ~EnumSample(d)) /\ ~EnumList /\ ~EnumPack /\ ~CloseDir
        BY <1>2, <2>1 DEF EnumSample, EnumList, EnumPack, CloseDir
      <3>7. UNCHANGED vars => rd' = rd  BY DEF vars
      <3> QED  BY <3>1, <3>2, <3>3, <3>4, <3>5, <3>6, <3>7
               DEF Next, CreateItem, CreateSymbolicLink
    <2> QED  BY <2>1, <2>2, <2>3 DEF VerOK
  <1> QED  BY <1>1, <1>2

\* Enumeration is explored with no failing rename and no nested move.
EnumAlone == \A e \in Envs : "enum" \in e => "opfail" \notin e /\ "nested" \notin e

\* No list is held when the volume is mounted.
LEMMA VerInit == EnumAlone /\ Init => VerOK
  <1> SUFFICES ASSUME EnumAlone, Init PROVE VerOK
    OBVIOUS
  <1>1. env \in Envs /\ rd.st = "none" /\ op = Idle  BY DEF Init
  <1>2. "stranded" \notin env  BY <1>1, NamespaceAssumption DEF EnvFlags
  <1> QED  BY <1>1, <1>2 DEF EnumAlone, VerOK, Idle, Flat, Listing, Stranded

\* "never a fresh verifier on a stale entry vector": a verifier that is still
\* the directory's generation vouches for the entries enumerateDirectory listed,
\* for every interleaving of the enumeration with creations, removals, lookups,
\* reclaims and renames, as long as no rename fails and no directory with
\* directories in it is renamed.
THEOREM Verifiers == ASSUME EnumAlone PROVE Spec => []VerifierFresh
  <1>1. Init => Base /\ Linked /\ VerOK
    BY BaseInit, LinkInit, VerInit
  <1>2. Base /\ Linked /\ VerOK /\ [Next]_vars => (Base /\ Linked /\ VerOK)'
    BY BaseNext, LinkNext, VerNext
  <1>3. VerOK => VerifierFresh
    BY DEF VerOK, VerifierFresh, Listing, ListFresh, Listed, Busy
  <1> QED  BY <1>1, <1>2, <1>3, PTL DEF Spec
=============================================================================
