--------------------------- MODULE NamespaceLinks ---------------------------
(***************************************************************************)
(* What Namespace promises of the item objects handed to the kernel, for any*)
(* number of names, files and objects and trees of any depth.  Base holds  *)
(* throughout, and with it the types.  The invariant Linked says that every*)
(* object leads to its file, counting the steps its path is behind a rename*)
(* in progress; it claims nothing once the rollback of a rename has failed.*)
(***************************************************************************)
EXTENDS NamespaceTree

\* The default prover and its time; steps with arithmetic, records or sequences cite SMT.
USE ZenonT(40)

-----------------------------------------------------------------------------
(* Re-keying the tables.                                                   *)

\* The entries of itemByPath that outlive the re-keying, under one path or
\* another.
Kept(p) == p \in DOMAIN cache /\ p # op.old /\ (op.over # NoObj => ~Within(op.new, p))

\* The entries that are not the replaced item's agree with their objects.
LEMMA KeptShape ==
  ASSUME Base, op # Idle, NEW p, Kept(p)
  PROVE  /\ p \in Path /\ cache[p] \in DOMAIN objs /\ objs[cache[p]].path = p
         /\ objs[cache[p]].use = "live" /\ cache[p] # op.item /\ p \in User
         /\ Below(op.old, p) => cache[p] # RootObj
  <1>1. p \in Path /\ cache[p] \in DOMAIN objs  BY DEF Base, CacheOK, Table, Kept
  <1>2. Within(p, p)  BY <1>1, WithinOrder
  <1>3. ~Displaced(p)
    BY <1>2 DEF Kept, Displaced
  <1>4. objs[cache[p]].path = p /\ objs[cache[p]].use = "live"
    BY <1>3 DEF Base, CacheOK, Kept
  <1>5. cache[p] # op.item  BY <1>4 DEF Base, OpOK, Request, Kept
  <1>6. p \in User  BY <1>1, <1>4 DEF Base, ObjsOK
  <1>7. Below(op.old, p) => p # Root
    <2>1. op.old \in Path  BY OpFields DEF Base, OpOK, Request
    <2> QED  BY <1>1, <2>1, WithinOrder DEF Below
  <1>8. Below(op.old, p) => cache[p] # RootObj
    BY <1>4, <1>7 DEF Base, ObjsOK
  <1> QED  BY <1>1, <1>4, <1>5, <1>6, <1>8

\* A re-keyed table with x under the new name.
Rekeyed(f, x) == With(MoveKeys(Without(Evict(f), {op.old}), op.old, op.new), op.new, x)

\* Every entry of the table g but the new name's comes from one of f.
Origins(f, g) ==
    \A q \in DOMAIN g : q # op.new =>
        \E p \in DOMAIN f :
           /\ p # op.old /\ (op.over # NoObj => ~Within(op.new, p)) /\ g[q] = f[p]
           /\ \/ q = p /\ ~Within(op.old, p)
              \/ Below(op.old, p) /\ q = Rebase(p, op.old, op.new)

\* The entries of f that g holds, moved along or where they were.
Carried(f, g) ==
    \A p \in DOMAIN f : p # op.old /\ (op.over # NoObj => ~Within(op.new, p)) =>
        /\ Below(op.old, p) => /\ Rebase(p, op.old, op.new) \in DOMAIN g
                               /\ g[Rebase(p, op.old, op.new)] = f[p]
        /\ ~Within(op.old, p) /\ ~Within(op.new, p) => p \in DOMAIN g /\ g[p] = f[p]

\* What re-keying does to a table: entries at and below the replaced name go,
\* those below the old name move along, and the new name gets x.
LEMMA RekeyTable ==
  ASSUME NEW f, Table(f), op.old \in Path, op.new \in Path, NEW x
  PROVE  /\ Table(Rekeyed(f, x)) /\ op.new \in DOMAIN Rekeyed(f, x) /\ Rekeyed(f, x)[op.new] = x
         /\ Origins(f, Rekeyed(f, x)) /\ Carried(f, Rekeyed(f, x))
  <1> DEFINE g == Rekeyed(f, x)
             c == Without(Evict(f), {op.old})
             m == MoveKeys(c, op.old, op.new)
  <1>1. /\ Table(c) /\ \A p \in DOMAIN c : c[p] = f[p]
        /\ \A p : p \in DOMAIN c <=> /\ p \in DOMAIN f /\ p # op.old
                                     /\ (op.over # NoObj => ~Within(op.new, p))
    <2>1. CASE op.over = NoObj
      BY <2>1 DEF Evict, Without, Table
    <2>2. CASE op.over # NoObj
      <3> DEFINE e == Evict(f)
      <3>1. e = Without(f, {p \in DOMAIN f : Within(op.new, p)})  BY <2>2 DEF Evict
      <3>2. /\ Table(e) /\ \A p \in DOMAIN e : e[p] = f[p]
            /\ \A p : p \in DOMAIN e <=> p \in DOMAIN f /\ ~Within(op.new, p)
        BY <3>1 DEF Without, Table
      <3> HIDE DEF e
      <3>3. c = Without(e, {op.old})  BY DEF e
      <3> QED  BY <2>2, <3>2, <3>3 DEF Without, Table
    <2> QED  BY <2>1, <2>2
  <1> HIDE DEF c
  <1>2. Table(m)  BY <1>1, MoveKeysShape
  <1>3. ASSUME NEW q \in DOMAIN m
        PROVE  \E p \in DOMAIN c : /\ m[q] = c[p]
                                   /\ \/ q = p /\ ~Within(op.old, p)
                                      \/ Within(op.old, p) /\ q = Rebase(p, op.old, op.new)
    BY <1>1, MoveKeysFrom, SMTT(40)
  <1>4. ASSUME NEW p \in DOMAIN c
        PROVE  /\ Within(op.old, p) => /\ Rebase(p, op.old, op.new) \in DOMAIN m
                                       /\ m[Rebase(p, op.old, op.new)] = c[p]
               /\ ~Within(op.old, p) /\ ~Within(op.new, p) => p \in DOMAIN m /\ m[p] = c[p]
    BY <1>1, MoveKeysTo, SMTT(40)
  <1>5. ASSUME NEW p \in DOMAIN c, Within(op.old, p)
        PROVE  Below(op.old, p) /\ Rebase(p, op.old, op.new) # op.new
    <2>1. p # op.old /\ p \in Path  BY <1>1 DEF Table
    <2> QED  BY <1>5, <2>1, RebaseSelf DEF Below
  <1>6. g = With(m, op.new, x)  BY DEF c, Rekeyed
  <1> HIDE DEF m, g
  <1>7. /\ Table(g) /\ op.new \in DOMAIN g /\ g[op.new] = x
        /\ \A q : q # op.new => (q \in DOMAIN g <=> q \in DOMAIN m)
        /\ \A q \in DOMAIN m : q # op.new => g[q] = m[q]
    BY <1>2, <1>6 DEF With, Table
  <1>8. ASSUME NEW q \in DOMAIN g, q # op.new
        PROVE  \E p \in DOMAIN f :
                  /\ p # op.old /\ (op.over # NoObj => ~Within(op.new, p)) /\ g[q] = f[p]
                  /\ \/ q = p /\ ~Within(op.old, p)
                     \/ Below(op.old, p) /\ q = Rebase(p, op.old, op.new)
    <2>1. q \in DOMAIN m /\ g[q] = m[q]  BY <1>7, <1>8
    <2>2. PICK p \in DOMAIN c : /\ m[q] = c[p]
                                /\ \/ q = p /\ ~Within(op.old, p)
                                   \/ Within(op.old, p) /\ q = Rebase(p, op.old, op.new)
      BY <1>3, <2>1
    <2>3. p \in DOMAIN f /\ p # op.old /\ (op.over # NoObj => ~Within(op.new, p)) /\ g[q] = f[p]
      BY <1>1, <2>1, <2>2
    <2> QED  BY <1>5, <2>2, <2>3
  <1>9. ASSUME NEW p \in DOMAIN f, p # op.old, op.over # NoObj => ~Within(op.new, p)
        PROVE  /\ Below(op.old, p) => /\ Rebase(p, op.old, op.new) \in DOMAIN g
                                      /\ g[Rebase(p, op.old, op.new)] = f[p]
               /\ ~Within(op.old, p) /\ ~Within(op.new, p) => p \in DOMAIN g /\ g[p] = f[p]
    <2>1. p \in DOMAIN c /\ c[p] = f[p] /\ p \in Path  BY <1>1, <1>9 DEF Table
    <2>2. Within(p, p)  BY <2>1, WithinOrder
    <2>3. ASSUME Below(op.old, p)
          PROVE  Rebase(p, op.old, op.new) \in DOMAIN g /\ g[Rebase(p, op.old, op.new)] = f[p]
      BY <1>4, <1>5, <1>7, <2>1, <2>3 DEF Below
    <2>4. ASSUME ~Within(op.old, p), ~Within(op.new, p)
          PROVE  p \in DOMAIN g /\ g[p] = f[p]
      BY <1>4, <1>7, <2>1, <2>2, <2>4
    <2> QED  BY <2>3, <2>4
  <1>10. Origins(f, g)  BY <1>8 DEF Origins
  <1>11. Carried(f, g)  BY <1>9 DEF Carried
  <1> QED  BY <1>7, <1>10, <1>11 DEF g

\* Which objects get another path.
LEMMA RekeyObjs ==
  ASSUME Base, Rekey
  PROVE  /\ DOMAIN objs' = DOMAIN objs /\ objs' = [j \in DOMAIN objs' |-> objs'[j]]
         /\ \A j \in DOMAIN objs : /\ objs'[j] \in Item /\ objs'[j].id = objs[j].id
                                   /\ objs'[j].ino = objs[j].ino /\ objs'[j].use = objs[j].use
         /\ objs'[op.item].path = op.new
         /\ \A p : Kept(p) /\ Below(op.old, p) =>
                      objs'[cache[p]].path = Rebase(p, op.old, op.new)
         /\ \A j \in DOMAIN objs : j # op.item /\ (\A p : Kept(p) /\ cache[p] = j => ~Below(op.old, p))
                      => objs'[j] = objs[j]
  <1> DEFINE c == Without(Evict(cache), {op.old})
             child(j) == MovesAlong(c, j)
             moved(j) == \E p : Kept(p) /\ cache[p] = j /\ Below(op.old, p)
  <1>0. op # Idle /\ op.old \in Path /\ op.new \in Path /\ op.item \in DOMAIN objs
    BY OpFields, SMTT(40) DEF Rekey, Base, OpOK, Request, Idle
  <1>1. objs' = [j \in DOMAIN objs |->
              CASE j = op.item -> [objs[j] EXCEPT !.path = op.new]
                [] j # op.item /\ child(j) -> [objs[j] EXCEPT !.path = Rebase(@, op.old, op.new)]
                [] OTHER -> objs[j]]
    BY DEF Rekey
  <1>2. \A p : p \in DOMAIN c <=> Kept(p)
    <2>1. CASE op.over = NoObj
      BY <2>1 DEF Evict, Without, Kept
    <2>2. CASE op.over # NoObj
      <3>1. Evict(cache) = Without(cache, {p \in DOMAIN cache : Within(op.new, p)})
        BY <2>2 DEF Evict
      <3> QED  BY <2>2, <3>1 DEF Without, Kept
    <2> QED  BY <2>1, <2>2
  <1>3. \A p \in DOMAIN c : c[p] = cache[p]
    <2>1. CASE op.over = NoObj
      BY <2>1 DEF Evict, Without
    <2>2. CASE op.over # NoObj
      <3>1. Evict(cache) = Without(cache, {p \in DOMAIN cache : Within(op.new, p)})
        BY <2>2 DEF Evict
      <3> QED  BY <2>2, <3>1 DEF Without
    <2> QED  BY <2>1, <2>2
  <1> HIDE DEF c
  <1>4. ASSUME NEW j PROVE child(j) <=> moved(j)
    BY <1>2, <1>3 DEF MovesAlong
  <1> HIDE DEF child
  <1>5. ASSUME NEW j \in DOMAIN objs PROVE objs[j] \in Item
    BY DEF Base, ObjsOK
  <1>6. ASSUME NEW j \in DOMAIN objs, moved(j)
        PROVE  j # op.item /\ objs[j].path \in Path /\ Within(op.old, objs[j].path)
    <2>1. PICK p : Kept(p) /\ cache[p] = j /\ Below(op.old, p)  BY <1>6
    <2> QED  BY <1>0, <2>1, KeptShape DEF Below
  <1>7. ASSUME NEW j \in DOMAIN objs, j # op.item, moved(j)
        PROVE  objs'[j] = [objs[j] EXCEPT !.path = Rebase(objs[j].path, op.old, op.new)]
    BY <1>1, <1>4, <1>7
  <1>8. ASSUME NEW j \in DOMAIN objs, j # op.item, ~moved(j) PROVE objs'[j] = objs[j]
    BY <1>1, <1>4, <1>8
  <1>9. objs'[op.item] = [objs[op.item] EXCEPT !.path = op.new]
    BY <1>0, <1>1
  <1>10. DOMAIN objs' = DOMAIN objs /\ objs' = [j \in DOMAIN objs' |-> objs'[j]]
    BY <1>1
  <1>11. ASSUME NEW j \in DOMAIN objs
         PROVE  /\ objs'[j] \in Item /\ objs'[j].id = objs[j].id
                /\ objs'[j].ino = objs[j].ino /\ objs'[j].use = objs[j].use
    <2>1. CASE j = op.item  BY <1>0, <1>5, <1>9, <2>1 DEF Item
    <2>2. CASE j # op.item /\ moved(j)
      <3>1. Rebase(objs[j].path, op.old, op.new) \in Path
        BY <1>0, <1>6, <2>2, RebaseShape
      <3> QED  BY <1>5, <1>7, <2>2, <3>1 DEF Item
    <2>3. CASE j # op.item /\ ~moved(j)  BY <1>5, <1>8, <2>3
    <2> QED  BY <2>1, <2>2, <2>3
  <1>12. objs'[op.item].path = op.new
    BY <1>0, <1>5, <1>9 DEF Item
  <1>13. ASSUME NEW p, Kept(p), Below(op.old, p)
         PROVE  objs'[cache[p]].path = Rebase(p, op.old, op.new)
    <2>1. cache[p] \in DOMAIN objs /\ objs[cache[p]].path = p /\ moved(cache[p]) /\ cache[p] # op.item
      BY <1>0, <1>13, KeptShape
    <2> QED  BY <1>5, <1>7, <2>1 DEF Item
  <1>14. ASSUME NEW j \in DOMAIN objs, j # op.item,
                \A p : Kept(p) /\ cache[p] = j => ~Below(op.old, p)
         PROVE  objs'[j] = objs[j]
    BY <1>8, <1>14
  <1> QED  BY <1>10, <1>11, <1>12, <1>13, <1>14

\* Re-keying the caches keeps the base invariant.
LEMMA BaseRekey == ASSUME Base, Rekey PROVE Base'
  <1>1. /\ op.st = "done" /\ op' = Idle /\ UNCHANGED <<fs, kind, nextID, rd, env>>
        /\ Bump(<<Parent(op.old), op.dest, op.old, op.new>>)
    BY DEF Rekey
  <1>2. op # Idle /\ Request /\ op.old \in User /\ op.new \in User /\ op.old \in Path /\ op.new \in Path
    BY <1>1, Underway
  <1>3. TreeOK' /\ OpOK'
    BY <1>1 DEF Base, TreeOK, OpOK
  <1>4. genCounter \in Nat  BY SMTT(40) DEF Base, GenOK
  <1>5. /\ genCounter' = genCounter + 4 /\ genCounter' <= MaxGen
        /\ DOMAIN gen' = DOMAIN gen \cup {Parent(op.old), op.dest, op.old, op.new}
        /\ \A p \in {Parent(op.old), op.dest, op.old, op.new} :
              gen'[p] \in genCounter + 1 .. genCounter'
        /\ \A p \in DOMAIN gen \ {Parent(op.old), op.dest, op.old, op.new} : gen'[p] = gen[p]
    BY <1>1, <1>4, Bump4
  <1>6. genCounter' \in Nat /\ genCounter <= genCounter' /\ genCounter + 1 <= genCounter'
    BY <1>4, <1>5, SMTT(40)
  <1>7. GenOK'
    <2> DEFINE dirs == {Parent(op.old), op.dest, op.old, op.new}
    <2>1. /\ DOMAIN gen' = DOMAIN gen \cup dirs
          /\ \A p \in dirs : gen'[p] \in genCounter + 1 .. genCounter'
          /\ \A p \in DOMAIN gen \ dirs : gen'[p] = gen[p]
      BY <1>5
    <2> HIDE DEF dirs
    <2> QED  BY <1>5, <1>6, <2>1, GenKeep DEF Base
  <1>8. \A j \in DOMAIN objs : /\ objs'[j] \in Item /\ objs'[j].id = objs[j].id
                               /\ objs'[j].ino = objs[j].ino /\ objs'[j].use = objs[j].use
    BY RekeyObjs
  <1>9. DOMAIN objs' = DOMAIN objs /\ objs' = [j \in DOMAIN objs' |-> objs'[j]]
    BY RekeyObjs
  <1>10. objs'[op.item].path = op.new  BY RekeyObjs
  <1>11. \A p : Kept(p) /\ Below(op.old, p) => objs'[cache[p]].path = Rebase(p, op.old, op.new)
    BY RekeyObjs
  <1>12. \A j \in DOMAIN objs : j # op.item /\ (\A p : Kept(p) /\ cache[p] = j => ~Below(op.old, p))
                      => objs'[j] = objs[j]
    BY RekeyObjs
  <1>13. ObjsOK'
    <2>1. ASSUME NEW i \in DOMAIN objs, objs'[i].use = "live"
          PROVE  objs'[i].path \in User /\ (objs'[i].path = Root => i = RootObj)
      <3>0. objs[i].use = "live"  BY <1>8, <2>1
      <3>1. CASE i = op.item  BY <1>2, <1>10, <3>1 DEF Request
      <3>2. CASE i # op.item /\ (\A p : Kept(p) /\ cache[p] = i => ~Below(op.old, p))
        <4>1. objs'[i] = objs[i]  BY <1>12, <3>2
        <4> QED  BY <3>0, <4>1 DEF Base, ObjsOK
      <3>3. ASSUME NEW p, Kept(p), cache[p] = i, Below(op.old, p)
            PROVE  objs'[i].path \in User /\ objs'[i].path # Root
        <4>1. objs'[i].path = Rebase(p, op.old, op.new)  BY <1>11, <3>3
        <4>2. p \in Path /\ p \in User  BY <1>2, <3>3, KeptShape
        <4>3. Rebase(p, op.old, op.new) \in User
          BY <1>2, <3>3, <4>2, RebaseUser DEF Below
        <4>4. Rebase(p, op.old, op.new) # Root
          BY <1>2, <3>3, <4>2, RebaseParent
        <4> QED  BY <4>1, <4>3, <4>4
      <3> QED  BY <3>1, <3>2, <3>3
    <2>2. objs'[RootObj] = objs[RootObj]
      <3>1. RootObj \in DOMAIN objs /\ RootObj # op.item  BY <1>2 DEF Base, ObjsOK, Request
      <3>2. \A p : Kept(p) /\ cache[p] = RootObj => ~Below(op.old, p)
        BY <1>2, KeptShape
      <3> QED  BY <1>12, <3>1, <3>2
    <2> QED  BY <1>8, <1>9, <2>1, <2>2 DEF Base, ObjsOK
  <1>14. /\ Table(cache') /\ op.new \in DOMAIN cache' /\ cache'[op.new] = op.item
         /\ \A q \in DOMAIN cache' : q # op.new =>
               \E p : /\ Kept(p) /\ cache'[q] = cache[p]
                      /\ \/ q = p /\ ~Within(op.old, p)
                         \/ Below(op.old, p) /\ q = Rebase(p, op.old, op.new)
    <2>1. cache' = Rekeyed(cache, op.item)
      BY DEF Rekey, Rekeyed
    <2>2. Table(cache)  BY DEF Base, CacheOK
    <2>3. Table(cache') /\ op.new \in DOMAIN cache' /\ cache'[op.new] = op.item /\ Origins(cache, cache')
      BY <1>2, <2>1, <2>2, RekeyTable
    <2> QED  BY <2>3 DEF Kept, Origins
  <1>15. CacheOK'
    <2>1. ASSUME NEW q \in DOMAIN cache'
          PROVE  /\ cache'[q] \in DOMAIN objs' /\ objs'[cache'[q]].path = q
                 /\ objs'[cache'[q]].use = "live"
      <3>1. CASE q = op.new
        BY <1>2, <1>8, <1>9, <1>10, <1>14, <3>1 DEF Request
      <3>2. CASE q # op.new
        <4>1. PICK p : /\ Kept(p) /\ cache'[q] = cache[p]
                       /\ \/ q = p /\ ~Within(op.old, p)
                          \/ Below(op.old, p) /\ q = Rebase(p, op.old, op.new)
          BY <1>14, <3>2
        <4>2. /\ cache[p] \in DOMAIN objs /\ objs[cache[p]].path = p
              /\ objs[cache[p]].use = "live" /\ cache[p] # op.item
          BY <1>2, <4>1, KeptShape
        <4>3. cache'[q] \in DOMAIN objs' /\ objs'[cache'[q]].use = "live"
          BY <1>8, <1>9, <4>1, <4>2
        <4>4. CASE Below(op.old, p) /\ q = Rebase(p, op.old, op.new)
          BY <1>11, <4>1, <4>3, <4>4
        <4>5. CASE q = p /\ ~Within(op.old, p)
          <5>1. \A r : Kept(r) /\ cache[r] = cache[p] => r = p
            BY <1>2, <4>2, KeptShape
          <5>2. \A r : Kept(r) /\ cache[r] = cache[p] => ~Below(op.old, r)
            BY <4>5, <5>1 DEF Below
          <5>3. objs'[cache[p]] = objs[cache[p]]
            BY <1>12, <4>2, <5>2
          <5> QED  BY <4>1, <4>2, <4>3, <4>5, <5>3
        <4> QED  BY <4>1, <4>4, <4>5
      <3> QED  BY <3>1, <3>2
    <2> QED  BY <1>14, <2>1 DEF CacheOK
  <1>16. IdsOK'
    <2> DEFINE t == Evict(ids)
               id == IF op.old \in DOMAIN t THEN t[op.old] ELSE objs[op.item].id
    <2>1. ids' = Rekeyed(ids, id)
      BY DEF Rekey, Rekeyed
    <2>2. Table(ids)  BY DEF Base, IdsOK
    <2>3. id \in Nat
      <3>1. objs[op.item].id \in Nat  BY <1>2 DEF Request, Base, ObjsOK, Item
      <3>2. DOMAIN t \subseteq DOMAIN ids /\ \A p \in DOMAIN t : t[p] = ids[p]
        BY DEF Evict, Without
      <3> HIDE DEF t
      <3> QED  BY <3>1, <3>2 DEF Base, IdsOK
    <2> HIDE DEF id
    <2>4. Table(ids') /\ op.new \in DOMAIN ids' /\ ids'[op.new] = id /\ Origins(ids, ids')
      BY <1>2, <2>1, <2>2, RekeyTable
    <2>5. \A q \in DOMAIN ids' : ids'[q] \in Nat
      <3>1. ASSUME NEW q \in DOMAIN ids', q # op.new PROVE ids'[q] \in Nat
        <4>1. \E p \in DOMAIN ids : ids'[q] = ids[p]  BY <2>4, <3>1 DEF Origins
        <4> QED  BY <4>1 DEF Base, IdsOK
      <3> QED  BY <2>3, <2>4, <3>1
    <2> QED  BY <1>1, <2>4, <2>5 DEF Base, IdsOK
  <1>17. RdOK'
    BY <1>1, <1>4, <1>6, <1>9, RdKeep, RdDir DEF Base
  <1> QED  BY <1>3, <1>7, <1>13, <1>15, <1>16, <1>17 DEF Base

\* Every step keeps it.
LEMMA BaseNext == Base /\ [Next]_vars => Base'
  <1> SUFFICES ASSUME Base, [Next]_vars PROVE Base'
    OBVIOUS
  <1>1. ASSUME NEW d \in Live, NEW n \in Names, NEW k \in {"file", "dir"}, CreateItem(d, n, k)
        PROVE  Base'
    BY <1>1, BaseCreate DEF CreateItem
  <1>2. ASSUME NEW d \in Live, NEW n \in Names, CreateSymbolicLink(d, n) PROVE Base'
    BY <1>2, BaseCreate DEF CreateSymbolicLink
  <1>3. ASSUME NEW d \in Live, NEW n \in Names, LookupItem(d, n) PROVE Base'
    BY <1>3, BaseLookup
  <1>4. ASSUME NEW d \in Live, NEW n \in Names, NEW i \in Live, RenameStart(i, d, n) PROVE Base'
    BY <1>4, BaseRenameStart
  <1>5. ASSUME NEW i \in Live, RemoveItem(i) PROVE Base'
    BY <1>5, BaseRemove
  <1>6. ASSUME NEW i \in DOMAIN objs, ReclaimItem(i) PROVE Base'
    BY <1>6, BaseReclaim
  <1>7. ASSUME RenameMove \/ RenameFail \/ Rollback \/ PointVictim \/ DeleteVictim \/ Rekey
        PROVE  Base'
    BY <1>7, BaseRenameMove, BaseRenameFail, BaseRollback, BasePointVictim, BaseDeleteVictim, BaseRekey
  <1>8. ASSUME (\E d \in Live : EnumSample(d)) \/ EnumList \/ EnumPack \/ CloseDir PROVE Base'
    BY <1>8, BaseEnum
  <1>9. CASE UNCHANGED vars
    <2>1. TreeOK' /\ ObjsOK' /\ IdsOK' /\ GenOK' /\ RdOK'
      BY <1>9 DEF vars, Base, TreeOK, ObjsOK, IdsOK, GenOK, RdOK
    <2>2. CacheOK' /\ OpOK'
      BY <1>9 DEF vars, Base, CacheOK, Displaced, OpOK, Request, Unmoved, Victim
    <2> QED  BY <2>1, <2>2 DEF Base
  <1> QED
    BY <1>1, <1>2, <1>3, <1>4, <1>5, <1>6, <1>7, <1>8, <1>9 DEF Next

\* The base invariant implies the type invariant.
LEMMA BaseTypes == Base => TypeOK
  <1> SUFFICES ASSUME Base PROVE TypeOK
    OBVIOUS
  <1>1. Tree(fs, Len(kind)) /\ Len(kind) \in Nat /\ Len(kind) <= MaxFiles
    BY SMTT(40) DEF Base, TreeOK
  <1>2. ASSUME NEW p \in DOMAIN fs PROVE p \in AllPaths
    <2>1. p \in Path /\ Len(p) \in 0 .. MaxDepth /\ p \in [1 .. Len(p) -> Nat]
      <3>1. p \in Path  BY <1>1, TreeFacts
      <3>2. Len(p) \in Nat /\ Len(p) <= MaxDepth  BY <1>1, <3>1, PathLen DEF Tree
      <3> QED  BY <3>1, <3>2, NamespaceAssumption, SMTT(40) DEF Path
    <2>2. \A i \in 1 .. Len(p) : p[i] \in AllNames
      <3>1. CASE p = Root  BY <2>1, <3>1, PathLen, SMTT(40)
      <3>2. CASE p # Root
        <4>1. Parent(p) \in User /\ fs[p] \in 1 .. Len(kind)
              /\ (Last(p) \in Names \/ Last(p) = ParkName(fs[p]))
          BY <1>1, <3>2 DEF Tree
        <4>2. Last(p) \in AllNames
          BY <1>1, <4>1, NamespaceAssumption, SMTT(40) DEF Names, ParkName, AllNames
        <4>3. /\ Len(Parent(p)) = Len(p) - 1 /\ Parent(p) \in Path
              /\ \A i \in 1 .. Len(p) - 1 : Parent(p)[i] = p[i]
          BY <2>1, <3>2, ParentLast
        <4>4. \A i \in 1 .. Len(p) - 1 : p[i] \in Names
          BY <4>1, <4>3, UserIff
        <4>5. \A i \in 1 .. Len(p) - 1 : p[i] \in AllNames
          BY <4>4, NamespaceAssumption, SMTT(40) DEF Names, AllNames
        <4> QED  BY <2>1, <4>2, <4>5, SMTT(40) DEF Last
      <3> QED  BY <3>1, <3>2
    <2>3. p \in [1 .. Len(p) -> AllNames]  BY <2>1, <2>2
    <2> QED  BY <2>1, <2>3 DEF AllPaths
  <1>3. /\ Root \in DOMAIN fs
        /\ \A p \in DOMAIN fs \ {Root} : fs[p] \in 1 .. Len(kind) /\ Parent(p) \in DOMAIN fs
    BY <1>1, TreeFacts DEF Tree
  <1>4. op.st \in {"idle", "ready", "parked", "moved", "failed", "pointed", "done"}
    <2>1. CASE op = Idle  BY <2>1 DEF Idle
    <2>2. CASE op # Idle  BY <2>2, OpFields DEF Base, OpOK, Request
    <2> QED  BY <2>1, <2>2
  <1>5. rd.st \in {"none", "sampled", "listed", "done"}
    BY SMTT(40) DEF Base, RdOK
  <1> QED  BY <1>2, <1>3, <1>4, <1>5 DEF TypeOK, Base, ObjsOK, GenOK

\* The tree, the caches and the objects keep their shape whatever the
\* interleaving, the depth of the tree and the number of files and objects.
THEOREM Types == Spec => []TypeOK
  BY BaseInit, BaseNext, BaseTypes, PTL DEF Spec

-----------------------------------------------------------------------------
(* Objects and files.                                                      *)

\* Where the file of an object is during a rename: the victim is parked, what
\* was below the old name has moved, the objects learn of it last.
Where(i) == IF op.st \in {"parked", "failed", "moved"} /\ i = op.over THEN op.park
            ELSE IF op.st \in {"moved", "pointed", "done"} /\ Within(op.old, objs[i].path)
            THEN Rebase(objs[i].path, op.old, op.new) ELSE objs[i].path

\* Identifiers are from the counter and are not shared; a cached object
\* carries its path's; every live object is the one cached under its path and
\* leads to its file; a victim is known by the parked name.
Numbered == /\ \A p \in DOMAIN ids : ids[p] \in 0 .. nextID
            /\ \A p, q \in DOMAIN ids : ids[p] = ids[q] => p = q
Labelled == \A p \in DOMAIN cache : p \in DOMAIN ids /\ ids[p] = objs[cache[p]].id
Current == \A i \in Live : objs[i].path \in DOMAIN cache /\ cache[objs[i].path] = i
Leads == \A i \in Live : Where(i) \in DOMAIN fs /\ fs[Where(i)] = objs[i].ino
Parked == \A i \in DOMAIN objs : objs[i].use = "victim" =>
              /\ objs[i].path # Root /\ Last(objs[i].path) \notin Names
              /\ Last(objs[i].path) = ParkName(objs[i].ino)
\* Nothing is cached where the file is going but the victim itself.
Clear == op # Idle /\ op.old # op.new =>
            \A p \in DOMAIN cache : Within(op.new, p) => p = op.new /\ op.over # NoObj
\* The old name is free once the file has moved.
Gone == op.st \in {"moved", "pointed", "done"} /\ op.old # op.new => op.old \notin DOMAIN fs

\* Objects and files are linked.
LinkOK == Numbered /\ Labelled /\ Current /\ Leads /\ Parked /\ Clear /\ Gone

\* At rest every object's file is at the object's path.
LEMMA IdleWhere == ASSUME op = Idle PROVE \A i : Where(i) = objs[i].path
  BY DEF Idle, Where

\* At rest every cached object is live and carries its key.
LEMMA IdleCache ==
  ASSUME Base, op = Idle
  PROVE  \A p \in DOMAIN cache : /\ cache[p] \in DOMAIN objs /\ objs[cache[p]].path = p
                                 /\ objs[cache[p]].use = "live" /\ cache[p] \in Live
  BY DEF Base, CacheOK, Displaced, Idle, Live

\* At rest every live object's path exists and is its file's.
LEMMA IdleLeads ==
  ASSUME Base, op = Idle, LinkOK
  PROVE  /\ \A i \in Live : objs[i].path \in DOMAIN fs /\ fs[objs[i].path] = objs[i].ino
         /\ \A p \in DOMAIN cache : p \in DOMAIN fs
  <1>1. \A i \in Live : objs[i].path \in DOMAIN fs /\ fs[objs[i].path] = objs[i].ino
    BY IdleWhere DEF LinkOK, Leads
  <1> QED  BY <1>1, IdleCache

\* New identifiers differ from each other and from the old ones.
LEMMA NumberedSeed ==
  ASSUME IdsOK, Numbered, NEW S \in SUBSET Path, SeedIds(S)
  PROVE  Numbered'
  <1>1. /\ DOMAIN ids' = DOMAIN ids \cup S /\ nextID' \in Nat /\ nextID <= nextID' /\ nextID \in Nat
        /\ \A p \in DOMAIN ids : ids'[p] = ids[p]
        /\ \A p \in S \ DOMAIN ids : ids'[p] \in nextID + 1 .. nextID'
    BY SeedIdsShape DEF IdsOK
  <1>2. \A p, q \in S \ DOMAIN ids : ids'[p] = ids'[q] => p = q
    BY SeedIdsShape DEF IdsOK
  <1>3. \A p \in DOMAIN ids : ids'[p] \in 0 .. nextID
    BY <1>1 DEF Numbered
  <1>4. \A p \in DOMAIN ids' : ids'[p] \in 0 .. nextID'
    BY <1>1, <1>3, SMTT(40)
  <1>5. ASSUME NEW p \in DOMAIN ids', NEW q \in DOMAIN ids', ids'[p] = ids'[q] PROVE p = q
    <2>1. CASE p \in DOMAIN ids /\ q \in DOMAIN ids
      BY <1>1, <1>5, <2>1 DEF Numbered
    <2>2. CASE p \notin DOMAIN ids /\ q \notin DOMAIN ids
      BY <1>1, <1>2, <1>5, <2>2
    <2>3. CASE p \in DOMAIN ids /\ q \notin DOMAIN ids
      <3>1. ids'[p] \in 0 .. nextID /\ ids'[q] \in nextID + 1 .. nextID'
        BY <1>1, <1>3, <2>3
      <3> QED  BY <1>1, <1>5, <3>1, SMTT(40)
    <2>4. CASE p \notin DOMAIN ids /\ q \in DOMAIN ids
      <3>1. ids'[q] \in 0 .. nextID /\ ids'[p] \in nextID + 1 .. nextID'
        BY <1>1, <1>3, <2>4
      <3> QED  BY <1>1, <1>5, <3>1, SMTT(40)
    <2> QED  BY <2>1, <2>2, <2>3, <2>4
  <1> QED  BY <1>4, <1>5 DEF Numbered

\* item(path:kind:) hands out an object that leads to its file.
LEMMA LinkHandOut ==
  ASSUME Base, LinkOK, op = Idle, op' = Idle, NEW p \in User, p # Root, NEW f \in Nat, HandOut(p, f),
         p \in DOMAIN fs', fs'[p] = f, \A q \in DOMAIN fs : q \in DOMAIN fs' /\ fs'[q] = fs[q]
  PROVE  LinkOK'
  <1>1. /\ \A i \in Live : objs[i].path \in DOMAIN fs /\ fs[objs[i].path] = objs[i].ino
        /\ \A q \in DOMAIN cache : cache[q] \in DOMAIN objs
    BY IdleLeads, IdleCache
  <1>2. Clear' /\ Gone'  BY DEF Clear, Gone, Idle
  <1>3. CASE p \in DOMAIN cache
    <2>1. UNCHANGED <<objs, cache, ids, nextID>>
      BY <1>3 DEF HandOut, caches
    <2>2. Live' = Live  BY <2>1 DEF Live
    <2>3. Numbered' /\ Labelled' /\ Current' /\ Parked'
      BY <2>1, <2>2 DEF LinkOK, Numbered, Labelled, Current, Parked
    <2>4. Leads'
      <3>1. \A i : Where(i)' = objs'[i].path  BY DEF Where, Idle
      <3> QED  BY <1>1, <2>1, <2>2, <3>1 DEF Leads
    <2> QED  BY <1>2, <2>3, <2>4 DEF LinkOK
  <1>4. CASE p \notin DOMAIN cache
    <2> DEFINE o == [path |-> p, id |-> ids'[p], ino |-> f, use |-> "live"]
               x == Fresh
    <2>1. /\ DOMAIN objs # Objs /\ SeedIds({p})
          /\ objs' = With(objs, x, o) /\ cache' = With(cache, p, x)
      BY <1>4 DEF HandOut
    <2>2. x \notin DOMAIN objs  BY <2>1, FreshNew DEF Base
    <2>3. p \in Path /\ {p} \in SUBSET Path
      BY UserPath
    <2>4. /\ DOMAIN ids' = DOMAIN ids \cup {p} /\ \A q \in DOMAIN ids : ids'[q] = ids[q]
      <3>1. Table(ids) /\ nextID \in Nat /\ \A q \in DOMAIN ids : ids[q] \in Nat
        BY DEF Base, IdsOK
      <3> QED  BY <2>1, <2>3, <3>1, SeedIdsShape
    <2>5. Numbered'
      BY <2>1, <2>3, NumberedSeed DEF Base, LinkOK
    <2>6. o.path = p /\ o.id = ids'[p] /\ o.ino = f /\ o.use = "live"
      OBVIOUS
    <2> HIDE DEF o, x
    <2>7. /\ DOMAIN objs' = DOMAIN objs \cup {x} /\ objs'[x] = o
          /\ \A i \in DOMAIN objs : objs'[i] = objs[i]
      BY <2>1, <2>2 DEF With
    <2>8. /\ DOMAIN cache' = DOMAIN cache \cup {p} /\ cache'[p] = x
          /\ \A q \in DOMAIN cache : cache'[q] = cache[q]
      BY <1>4, <2>1 DEF With
    <2>9. Live' = Live \cup {x}
      BY <2>6, <2>7 DEF Live
    <2>10. Labelled'
      <3>1. ASSUME NEW q \in DOMAIN cache PROVE q \in DOMAIN ids' /\ ids'[q] = objs'[cache'[q]].id
        BY <1>1, <2>4, <2>7, <2>8, SMTT(40) DEF LinkOK, Labelled
      <3> QED  BY <2>4, <2>6, <2>7, <2>8, <3>1 DEF Labelled
    <2>11. Current'
      <3>1. ASSUME NEW i \in Live PROVE objs'[i].path \in DOMAIN cache' /\ cache'[objs'[i].path] = i
        <4>1. i \in DOMAIN objs  BY DEF Live
        <4> QED  BY <2>7, <2>8, <4>1 DEF LinkOK, Current
      <3> QED  BY <2>6, <2>7, <2>8, <2>9, <3>1 DEF Current
    <2>12. Leads'
      <3>1. \A i : Where(i)' = objs'[i].path  BY DEF Where, Idle
      <3>2. \A i \in Live : objs'[i] = objs[i]  BY <2>7 DEF Live
      <3> QED  BY <1>1, <2>6, <2>7, <2>9, <3>1, <3>2, SMTT(40) DEF Leads
    <2>13. Parked'
      BY <2>6, <2>7 DEF LinkOK, Parked
    <2> QED  BY <1>2, <2>5, <2>10, <2>11, <2>12, <2>13 DEF LinkOK
  <1> QED  BY <1>3, <1>4

\* createItem and createSymbolicLink keep objects and files linked.
LEMMA LinkCreate ==
  ASSUME Base, LinkOK, NEW d \in Live, NEW n \in Names, NEW k, Create(d, n, k)
  PROVE  LinkOK'
  <1> DEFINE dir == objs[d].path  p == Append(dir, n)  f == Len(kind) + 1
  <1>1. /\ op = Idle /\ op' = op /\ fs' = With(fs, p, f) /\ HandOut(p, f) /\ p \notin DOMAIN fs
    BY DEF Create
  <1>2. dir \in User /\ Len(kind) \in Nat  BY SMTT(40) DEF Base, ObjsOK, Live, TreeOK
  <1>3. p \in User /\ p # Root
    BY <1>2, UserPath, AppendPath
  <1>4. f \in Nat  BY <1>2, SMTT(40)
  <1> HIDE DEF p, f
  <1>5. p \in DOMAIN fs' /\ fs'[p] = f /\ \A q \in DOMAIN fs : q \in DOMAIN fs' /\ fs'[q] = fs[q]
    BY <1>1 DEF With
  <1> QED  BY <1>1, <1>3, <1>4, <1>5, LinkHandOut

\* So does a step that touches neither.
LEMMA LinkSame ==
  ASSUME Base, LinkOK, UNCHANGED <<fs, objs, cache, ids, nextID, op>>
  PROVE  LinkOK'
  <1>1. Numbered' /\ Labelled' /\ Current' /\ Parked'
    BY DEF LinkOK, Numbered, Labelled, Current, Parked, Live
  <1>2. Leads' /\ Clear' /\ Gone'
    BY DEF LinkOK, Leads, Clear, Gone, Live, Where
  <1> QED  BY <1>1, <1>2 DEF LinkOK

\* lookupItem keeps objects and files linked.
LEMMA LinkLookup ==
  ASSUME Base, LinkOK, NEW d \in Live, NEW n \in Names, LookupItem(d, n)
  PROVE  LinkOK'
  <1> DEFINE p == Append(objs[d].path, n)
  <1>1. /\ op = Idle /\ op' = op /\ fs' = fs
        /\ IF p \in DOMAIN fs THEN HandOut(p, fs[p]) ELSE UNCHANGED <<objs, cache, ids, nextID>>
    BY DEF LookupItem, caches
  <1>2. objs[d].path \in User  BY DEF Base, ObjsOK, Live
  <1>3. p \in User /\ p # Root
    BY <1>2, UserPath, AppendPath
  <1> HIDE DEF p
  <1>4. CASE p \in DOMAIN fs
    <2>1. fs[p] \in Nat /\ HandOut(p, fs[p])  BY <1>1, <1>3, <1>4, SMTT(40) DEF Base, TreeOK, Tree
    <2> QED  BY <1>1, <1>3, <1>4, <2>1, LinkHandOut
  <1>5. CASE p \notin DOMAIN fs
    BY <1>1, <1>5, LinkSame
  <1> QED  BY <1>4, <1>5

\* removeItem keeps objects and files linked.
LEMMA LinkRemove ==
  ASSUME Base, LinkOK, NEW i \in Live, RemoveItem(i)
  PROVE  LinkOK'
  <1> DEFINE p == objs[i].path
  <1>1. /\ op = Idle /\ op' = op /\ fs' = Without(fs, {p}) /\ ids' = Without(ids, {p})
        /\ cache' = Without(cache, {p}) /\ objs' = [objs EXCEPT ![i].use = "removed"]
        /\ nextID' = nextID
    BY DEF RemoveItem
  <1>2. Clear' /\ Gone'  BY <1>1 DEF Clear, Gone, Idle
  <1>3. /\ DOMAIN fs' = DOMAIN fs \ {p} /\ DOMAIN ids' = DOMAIN ids \ {p}
        /\ DOMAIN cache' = DOMAIN cache \ {p} /\ \A q \in DOMAIN fs \ {p} : fs'[q] = fs[q]
        /\ \A q \in DOMAIN ids \ {p} : ids'[q] = ids[q]
        /\ \A q \in DOMAIN cache \ {p} : cache'[q] = cache[q]
    BY <1>1 DEF Without
  <1>4. /\ DOMAIN objs' = DOMAIN objs /\ objs'[i].use = "removed"
        /\ \A j \in DOMAIN objs \ {i} : objs'[j] = objs[j]
        /\ \A j \in DOMAIN objs : objs'[j].id = objs[j].id
    BY <1>1 DEF Live, Base, ObjsOK, Item
  <1>5. Live' = Live \ {i}
    BY <1>4 DEF Live
  <1>6. \A j \in Live \ {i} : objs[j].path # p /\ objs'[j] = objs[j]
    BY <1>4, SMTT(40) DEF LinkOK, Current, Live
  <1> HIDE DEF p
  <1>7. Numbered'
    BY <1>1, <1>3 DEF LinkOK, Numbered
  <1>8. Labelled'
    <2>1. \A q \in DOMAIN cache : cache[q] \in DOMAIN objs  BY <1>1, IdleCache
    <2> QED  BY <1>3, <1>4, <2>1, SMTT(40) DEF LinkOK, Labelled
  <1>9. Current'
    BY <1>3, <1>5, <1>6, SMTT(40) DEF LinkOK, Current
  <1>10. Leads'
    <2>1. \A j : Where(j)' = objs'[j].path  BY <1>1 DEF Where, Idle
    <2>2. \A j \in Live : objs[j].path \in DOMAIN fs /\ fs[objs[j].path] = objs[j].ino
      BY <1>1, IdleLeads
    <2> QED  BY <1>3, <1>5, <1>6, <2>1, <2>2, SMTT(40) DEF Leads
  <1>11. Parked'
    BY <1>4 DEF LinkOK, Parked
  <1> QED  BY <1>2, <1>7, <1>8, <1>9, <1>10, <1>11 DEF LinkOK

\* reclaimItem keeps objects and files linked.
LEMMA LinkReclaim ==
  ASSUME Base, LinkOK, NEW i \in DOMAIN objs, ReclaimItem(i)
  PROVE  LinkOK'
  <1>1. /\ op = Idle /\ op' = op /\ cache' = Evicted(i) /\ objs' = Without(objs, {i})
        /\ fs' = fs /\ ids' = ids /\ nextID' = nextID
    BY DEF ReclaimItem
  <1>2. Clear' /\ Gone'  BY <1>1 DEF Clear, Gone, Idle
  <1>3. DOMAIN objs' = DOMAIN objs \ {i} /\ \A j \in DOMAIN objs \ {i} : objs'[j] = objs[j]
    BY <1>1 DEF Without
  <1>4. Live' = Live \ {i}  BY <1>3 DEF Live
  <1>5. \A q \in DOMAIN cache : cache[q] \in DOMAIN objs /\ objs[cache[q]].path = q
    BY <1>1, IdleCache
  <1>6. \A q : /\ q \in DOMAIN cache' <=> q \in DOMAIN cache /\ cache[q] # i
               /\ q \in DOMAIN cache' => cache'[q] = cache[q]
    <2>1. CASE objs[i].path \in DOMAIN cache /\ cache[objs[i].path] = i
      BY <1>1, <1>5, <2>1 DEF Evicted, Without
    <2>2. CASE ~(objs[i].path \in DOMAIN cache /\ cache[objs[i].path] = i)
      BY <1>1, <1>5, <2>2 DEF Evicted
    <2> QED  BY <2>1, <2>2
  <1>7. Numbered'
    BY <1>1 DEF LinkOK, Numbered
  <1>8. Labelled'
    BY <1>1, <1>3, <1>5, <1>6, SMTT(40) DEF LinkOK, Labelled
  <1>9. Current'
    <2>1. \A j \in Live \ {i} : objs'[j] = objs[j]  BY <1>3 DEF Live
    <2> QED  BY <1>4, <1>6, <2>1 DEF LinkOK, Current
  <1>10. Leads'
    <2>1. \A j : Where(j)' = objs'[j].path  BY <1>1 DEF Where, Idle
    <2>2. \A j \in Live : objs[j].path \in DOMAIN fs /\ fs[objs[j].path] = objs[j].ino
      BY <1>1, IdleLeads
    <2>3. \A j \in Live \ {i} : objs'[j] = objs[j]  BY <1>3 DEF Live
    <2> QED  BY <1>1, <1>4, <2>1, <2>2, <2>3 DEF Leads
  <1>11. Parked'
    BY <1>3 DEF LinkOK, Parked
  <1> QED  BY <1>2, <1>7, <1>8, <1>9, <1>10, <1>11 DEF LinkOK

\* What the start of a rename leaves behind.
LEMMA StartShape ==
  ASSUME Base, NEW i \in Live, NEW d \in Live, NEW n \in Names, RenameStart(i, d, n)
  PROVE  /\ op = Idle /\ UNCHANGED <<kind, objs, cache, ids, nextID, gen, genCounter, rd, env>>
         /\ op'.old = objs[i].path /\ op'.dest = objs[d].path /\ op' # Idle
         /\ op'.new \in User /\ op'.new \in Path /\ op'.new # Root /\ Parent(op'.new) = op'.dest
         /\ op'.old \in DOMAIN fs /\ op'.dest \in DOMAIN fs /\ IsDir(op'.dest)
         /\ ("nested" \notin env => \A p \in DOMAIN fs : Below(op'.old, p) => ~IsDir(p))
         /\ \/ /\ op'.st = "ready" /\ op'.over = NoObj /\ fs' = fs
               /\ op'.new \notin DOMAIN fs \/ op'.old = op'.new
            \/ /\ op'.st = "parked" /\ op'.over # NoObj /\ op'.over \in Live /\ op'.old # op'.new
               /\ objs[op'.over].path = op'.new /\ op'.new \in DOMAIN cache
               /\ cache[op'.new] = op'.over /\ op'.new \in DOMAIN fs
               /\ \A q \in DOMAIN fs : ~Below(op'.new, q)
               /\ op'.park \in Path /\ op'.park # Root /\ Parent(op'.park) = op'.dest
               /\ op'.park \notin DOMAIN fs /\ op'.park \notin User
               /\ DOMAIN fs' = (DOMAIN fs \ {op'.new}) \cup {op'.park} /\ fs'[op'.park] = fs[op'.new]
               /\ \A q \in DOMAIN fs \ {op'.new} : fs'[q] = fs[q]
  <1> DEFINE old == objs[i].path
             dest == objs[d].path
             new == Append(dest, n)
             over == OverOf(i, new)
             park == Append(dest, ParkName(fs[new]))
  <1>0. i \in DOMAIN objs /\ dest \in User /\ dest \in Path /\ n \in Nat
    BY UserPath, NamespaceAssumption DEF Live, Base, ObjsOK, Names
  <1>1. new \in Path /\ new # Root /\ Parent(new) = dest /\ Last(new) = n /\ new \in User
    BY <1>0, AppendPath, UserPath
  <1>2. /\ op = Idle /\ old \in DOMAIN fs /\ dest \in DOMAIN fs /\ IsDir(dest)
        /\ new \in DOMAIN fs => new \in DOMAIN cache
        /\ ("nested" \notin env => \A p \in DOMAIN fs : Below(old, p) => ~IsDir(p))
        /\ UNCHANGED <<kind, objs, cache, ids, nextID, gen, genCounter, rd, env>>
    BY DEF RenameStart, caches, gens
  <1>9. over = NoObj => /\ op' = [st |-> "ready", item |-> i, old |-> old, dest |-> dest,
                                  new |-> new, over |-> over]
                        /\ fs' = fs
    BY DEF RenameStart
  <1>10. over # NoObj => /\ fs[old] # fs[new] /\ IsEmpty(new) /\ fs' = MoveKeys(fs, new, park)
                         /\ op' = [st |-> "parked", item |-> i, old |-> old, dest |-> dest,
                                   new |-> new, over |-> over, park |-> park]
    BY DEF RenameStart
  <1> HIDE DEF old, dest, new, over, park
  <1>3. /\ over = NoObj => new \notin DOMAIN fs \/ old = new
        /\ over # NoObj => /\ new \in DOMAIN fs /\ new \in DOMAIN cache /\ over = cache[new]
                           /\ over \in DOMAIN objs /\ objs[over].path = new /\ objs[over].use = "live"
    BY <1>1, <1>2, OverShape DEF over, old
  <1>4. /\ op'.old = old /\ op'.dest = dest /\ op'.new = new /\ op'.over = over
        /\ op'.st = (IF over = NoObj THEN "ready" ELSE "parked")
        /\ over # NoObj => op'.park = park
    <2>1. CASE over = NoObj
      <3>1. op' = [st |-> "ready", item |-> i, old |-> old, dest |-> dest, new |-> new, over |-> over]
        BY <1>9, <2>1
      <3> QED  BY <2>1, <3>1
    <2>2. CASE over # NoObj
      <3>1. op' = [st |-> "parked", item |-> i, old |-> old, dest |-> dest,
                   new |-> new, over |-> over, park |-> park]
        BY <1>10, <2>2
      <3> QED  BY <2>2, <3>1
    <2> QED  BY <2>1, <2>2
  <1>5. op' # Idle  BY <1>4, SMTT(40) DEF Idle
  <1>6. ASSUME over # NoObj
        PROVE  /\ over \in Live /\ old # new /\ \A q \in DOMAIN fs : ~Below(new, q)
               /\ park \in Path /\ park # Root /\ Parent(park) = dest
               /\ park \notin DOMAIN fs /\ park \notin User
               /\ DOMAIN fs' = (DOMAIN fs \ {new}) \cup {park} /\ fs'[park] = fs[new]
               /\ \A q \in DOMAIN fs \ {new} : fs'[q] = fs[q]
    <2>1. fs' = MoveKeys(fs, new, park) /\ fs[old] # fs[new] /\ IsEmpty(new)
      BY <1>6, <1>10
    <2>2. park = Append(Parent(new), ParkName(fs[new])) /\ new \in DOMAIN fs
      BY <1>1, <1>3, <1>6 DEF park
    <2>3. /\ park \in Path /\ park # Root /\ Parent(park) = dest
          /\ park \notin DOMAIN fs /\ park \notin User /\ \A q \in DOMAIN fs : ~Below(new, q)
          /\ DOMAIN fs' = (DOMAIN fs \ {new}) \cup {park} /\ fs'[park] = fs[new]
          /\ \A q \in DOMAIN fs \ {new} : fs'[q] = fs[q]
      BY <1>1, <2>1, <2>2, ParkStep
    <2>4. over \in Live  BY <1>3, <1>6 DEF Live
    <2>5. old # new  BY <2>1
    <2> QED  BY <2>3, <2>4, <2>5
  <1>7. CASE over = NoObj
    <2>1. op'.st = "ready" /\ op'.over = NoObj /\ fs' = fs /\ (op'.new \notin DOMAIN fs \/ op'.old = op'.new)
      BY <1>3, <1>4, <1>7, <1>9
    <2> QED  BY <1>1, <1>2, <1>4, <1>5, <2>1 DEF old, dest
  <1>8. CASE over # NoObj
    <2>1. /\ op'.st = "parked" /\ op'.over # NoObj /\ op'.over \in Live /\ op'.old # op'.new
          /\ objs[op'.over].path = op'.new /\ op'.new \in DOMAIN cache
          /\ cache[op'.new] = op'.over /\ op'.new \in DOMAIN fs
      BY <1>3, <1>4, <1>6, <1>8
    <2>2. /\ \A q \in DOMAIN fs : ~Below(op'.new, q)
          /\ op'.park \in Path /\ op'.park # Root /\ Parent(op'.park) = op'.dest
          /\ op'.park \notin DOMAIN fs /\ op'.park \notin User
      BY <1>4, <1>6, <1>8
    <2>3. /\ DOMAIN fs' = (DOMAIN fs \ {op'.new}) \cup {op'.park} /\ fs'[op'.park] = fs[op'.new]
          /\ \A q \in DOMAIN fs \ {op'.new} : fs'[q] = fs[q]
      BY <1>4, <1>6, <1>8
    <2> QED  BY <1>1, <1>2, <1>4, <1>5, <2>1, <2>2, <2>3 DEF old, dest
  <1> QED  BY <1>7, <1>8

\* Parking the victim keeps objects and files linked.
LEMMA LinkRenameStart ==
  ASSUME Base, LinkOK, NEW i \in Live, NEW d \in Live, NEW n \in Names, RenameStart(i, d, n)
  PROVE  LinkOK'
  <1>1. /\ op = Idle /\ UNCHANGED <<kind, objs, cache, ids, nextID, gen, genCounter, rd, env>>
        /\ op'.new \in Path
    BY StartShape
  <1>2. CASE /\ op'.st = "ready" /\ op'.over = NoObj /\ fs' = fs
             /\ op'.new \notin DOMAIN fs \/ op'.old = op'.new
    <2>1. \A j : Where(j) = objs[j].path /\ Where(j)' = objs[j].path
      BY <1>1, <1>2 DEF Where, Idle
    <2>2. Leads'
      BY <1>1, <1>2, <2>1 DEF LinkOK, Leads, Live
    <2>3. Clear'
      <3>1. ASSUME op'.old # op'.new, NEW p \in DOMAIN cache, Within(op'.new, p) PROVE FALSE
        <4>1. p \in DOMAIN fs /\ DOMAIN fs \subseteq Path
          BY <1>1, IdleLeads, TreeFacts DEF Base, TreeOK
        <4>2. op'.new \in DOMAIN fs
          BY <1>1, <3>1, <4>1, TreeFacts DEF Base, TreeOK
        <4> QED  BY <1>2, <3>1, <4>2
      <3> QED  BY <1>1, <3>1 DEF Clear
    <2>4. Gone'  BY <1>2 DEF Gone
    <2> QED  BY <1>1, <2>2, <2>3, <2>4 DEF LinkOK, Numbered, Labelled, Current, Parked, Live
  <1>3. CASE /\ op'.st = "parked" /\ op'.over # NoObj /\ op'.over \in Live /\ op'.old # op'.new
             /\ objs[op'.over].path = op'.new /\ op'.new \in DOMAIN cache
             /\ cache[op'.new] = op'.over /\ op'.new \in DOMAIN fs
             /\ \A q \in DOMAIN fs : ~Below(op'.new, q)
             /\ op'.park \in Path /\ op'.park # Root /\ Parent(op'.park) = op'.dest
             /\ op'.park \notin DOMAIN fs /\ op'.park \notin User
             /\ DOMAIN fs' = (DOMAIN fs \ {op'.new}) \cup {op'.park} /\ fs'[op'.park] = fs[op'.new]
             /\ \A q \in DOMAIN fs \ {op'.new} : fs'[q] = fs[q]
    <2>1. \A j : Where(j)' = IF j = op'.over THEN op'.park ELSE objs[j].path
      BY <1>1, <1>3 DEF Where
    <2>2. \A j \in Live : objs[j].path \in DOMAIN fs /\ fs[objs[j].path] = objs[j].ino
      BY <1>1, IdleLeads
    <2>3. Leads'
      <3>1. ASSUME NEW j \in Live PROVE Where(j)' \in DOMAIN fs' /\ fs'[Where(j)'] = objs[j].ino
        <4>1. CASE j = op'.over  BY <1>3, <2>1, <2>2, <4>1
        <4>2. CASE j # op'.over
          <5>1. objs[j].path # op'.new  BY <1>3, <4>2 DEF LinkOK, Current
          <5> QED  BY <1>3, <2>1, <2>2, <4>2, <5>1
        <4> QED  BY <4>1, <4>2
      <3> QED  BY <1>1, <3>1 DEF Leads, Live
    <2>4. Clear'
      <3>1. ASSUME NEW p \in DOMAIN cache, Within(op'.new, p) PROVE p = op'.new
        <4>1. p \in DOMAIN fs  BY <1>1, IdleLeads
        <4> QED  BY <1>3, <3>1, <4>1 DEF Below
      <3> QED  BY <1>1, <1>3, <3>1 DEF Clear
    <2>5. Gone'  BY <1>3 DEF Gone
    <2> QED  BY <1>1, <2>3, <2>4, <2>5 DEF LinkOK, Numbered, Labelled, Current, Parked, Live
  <1> QED  BY <1>2, <1>3, StartShape

\* The engine's move keeps objects and files linked.
LEMMA LinkRenameMove == ASSUME Base, LinkOK, RenameMove PROVE LinkOK'
  <1>1. /\ op.st \in {"ready", "parked"} /\ fs' = MoveKeys(fs, op.old, op.new)
        /\ op' = [op EXCEPT !.st = IF op.over = NoObj THEN "done" ELSE "moved"]
        /\ UNCHANGED <<objs, cache, ids, nextID>>
    BY DEF RenameMove, caches
  <1>2. /\ op # Idle /\ Request /\ Unmoved /\ Victim /\ op.old \in Path /\ op.new \in Path
        /\ (op.over = NoObj => op.st = "ready") /\ (op.over # NoObj => op.st = "parked")
    BY <1>1, Underway
  <1>3. /\ op'.old = op.old /\ op'.new = op.new /\ op'.over = op.over
        /\ op'.st = (IF op.over = NoObj THEN "done" ELSE "moved")
        /\ op.over # NoObj => op'.park = op.park
    <2>1. CASE op.over = NoObj
      <3>1. op \in PlainOp  BY <1>2, <2>1, OpFields DEF Request
      <3> QED  BY <1>1, <2>1, <3>1 DEF PlainOp
    <2>2. CASE op.over # NoObj
      <3>1. op \in OverOp  BY <1>2, <2>2, OpFields DEF Request
      <3> QED  BY <1>1, <2>2, <3>1 DEF OverOp
    <2> QED  BY <2>1, <2>2
  <1>4. Tree(fs, Len(kind)) /\ DOMAIN fs \subseteq Path
    BY TreeFacts DEF Base, TreeOK
  <1>5. ASSUME NEW j \in Live
        PROVE  IF op.over # NoObj /\ j = op.over
               THEN /\ Where(j) = op.park /\ Where(j)' = op.park
               ELSE /\ Where(j) = objs[j].path
                    /\ Where(j)' = IF Within(op.old, objs[j].path)
                                   THEN Rebase(objs[j].path, op.old, op.new) ELSE objs[j].path
    <2>1. j # NoObj  BY NamespaceAssumption, SMTT(40) DEF Live, NoObj, Base, ObjsOK, Objs
    <2> QED  BY <1>1, <1>2, <1>3, <2>1, SMTT(40) DEF Where
  <1>6. Leads'
    <2>1. ASSUME NEW j \in Live PROVE Where(j)' \in DOMAIN fs' /\ fs'[Where(j)'] = objs[j].ino
      <3>1. Where(j) \in DOMAIN fs /\ fs[Where(j)] = objs[j].ino /\ Where(j) \in Path
        BY <1>4 DEF LinkOK, Leads
      <3>2. CASE op.old = op.new
        <4>1. fs' = fs  BY <1>1, <1>2, <3>2, MoveTree
        <4>2. op.over = NoObj  BY <1>2, <3>2 DEF Victim
        <4>3. Where(j)' = Where(j)
          BY <1>2, <1>5, <3>1, <3>2, <4>2, RebaseSelf, SMTT(40)
        <4> QED  BY <3>1, <4>1, <4>3
      <3>3. CASE op.old # op.new
        <4>1. op.new \notin DOMAIN fs  BY <1>1, <1>2, <3>3 DEF Unmoved
        <4> DEFINE g == MoveKeys(fs, op.old, op.new)
        <4>2. \A p \in DOMAIN fs : Within(op.old, p) =>
                 Rebase(p, op.old, op.new) \in DOMAIN g /\ g[Rebase(p, op.old, op.new)] = fs[p]
          BY <1>2, <1>4, <4>1, TreeMoveShape, SMTT(40)
        <4>3. \A p \in DOMAIN fs : ~Within(op.old, p) => p \in DOMAIN g /\ g[p] = fs[p]
          BY <1>2, <1>4, <4>1, TreeMoveShape, SMTT(40)
        <4>4. g = fs'  BY <1>1
        <4> HIDE DEF g
        <4>5. CASE op.over # NoObj /\ j = op.over
          <5>1. ~Within(op.old, op.park)  BY <1>2, <4>5, ParkStays
          <5>2. op.park \in DOMAIN fs /\ fs[op.park] = objs[j].ino /\ Where(j)' = op.park
            BY <1>5, <3>1, <4>5
          <5> QED  BY <4>3, <4>4, <5>1, <5>2
        <4>6. CASE ~(op.over # NoObj /\ j = op.over)
          <5>1. objs[j].path \in DOMAIN fs /\ fs[objs[j].path] = objs[j].ino
                /\ Where(j)' = IF Within(op.old, objs[j].path)
                               THEN Rebase(objs[j].path, op.old, op.new) ELSE objs[j].path
            BY <1>5, <3>1, <4>6
          <5> QED  BY <4>2, <4>3, <4>4, <5>1
        <4> QED  BY <4>5, <4>6
      <3> QED  BY <3>2, <3>3
    <2> QED  BY <1>1, <2>1 DEF Leads, Live
  <1>7. Clear'
    BY <1>1, <1>2, <1>3 DEF LinkOK, Clear
  <1>8. Gone'
    BY <1>1, <1>2, <1>3, MoveTree DEF Gone
  <1> QED  BY <1>1, <1>6, <1>7, <1>8 DEF LinkOK, Numbered, Labelled, Current, Parked, Live

\* A refused move keeps objects and files linked.
LEMMA LinkRenameFail == ASSUME Base, LinkOK, RenameFail PROVE LinkOK'
  <1>1. /\ op.st \in {"ready", "parked"}
        /\ op' = IF op.st = "ready" THEN Idle ELSE [op EXCEPT !.st = "failed"]
        /\ UNCHANGED <<fs, objs, cache, ids, nextID>>
    BY DEF RenameFail, caches
  <1>2. op # Idle /\ Request  BY <1>1, SMTT(40) DEF Base, OpOK, Idle
  <1>3. CASE op.st = "ready"
    <2>1. \A j : Where(j)' = Where(j)
      BY <1>1, <1>3 DEF Where, Idle
    <2>2. Clear' /\ Gone'  BY <1>1, <1>3 DEF Clear, Gone, Idle
    <2> QED  BY <1>1, <2>1, <2>2 DEF LinkOK, Numbered, Labelled, Current, Leads, Parked, Live
  <1>4. CASE op.st = "parked"
    <2>1. op \in OverOp  BY <1>2, <1>4, OpFields DEF Request
    <2>2. /\ op'.st = "failed" /\ op'.old = op.old /\ op'.new = op.new
          /\ op'.over = op.over /\ op'.park = op.park
      BY <1>1, <1>4, <2>1, StageOver
    <2>3. \A j : Where(j)' = Where(j)
      BY <1>1, <1>4, <2>2 DEF Where
    <2>4. Clear' /\ Gone'  BY <1>1, <1>2, <2>2 DEF LinkOK, Clear, Gone
    <2> QED  BY <1>1, <2>3, <2>4 DEF LinkOK, Numbered, Labelled, Current, Leads, Parked, Live
  <1> QED  BY <1>1, <1>3, <1>4

\* A rollback that succeeds keeps objects and files linked.
LEMMA LinkRollback == ASSUME Base, LinkOK, Rollback, ~Stranded' PROVE LinkOK'
  <1>1. /\ op.st = "failed" /\ fs' = MoveKeys(fs, op.park, op.new) /\ op' = Idle
        /\ UNCHANGED <<objs, cache, ids, nextID>>
    BY DEF Rollback, Stranded, caches
  <1>2. op # Idle /\ Request /\ Victim /\ op.over # NoObj
    BY <1>1, Underway
  <1>3. /\ DOMAIN fs' = (DOMAIN fs \ {op.park}) \cup {op.new}
        /\ fs'[op.new] = fs[op.park] /\ \A q \in DOMAIN fs \ {op.park} : fs'[q] = fs[q]
    BY <1>1, RollbackTree
  <1>4. \A j : Where(j)' = objs[j].path /\ Where(j) = IF j = op.over THEN op.park ELSE objs[j].path
    BY <1>1 DEF Where, Idle
  <1>5. objs[op.over].path = op.new
    BY <1>1, <1>2 DEF Victim, Base, CacheOK, Displaced
  <1>6. \A j \in Live : objs[j].path # op.park
    BY <1>2, ParkStays DEF Live, Base, ObjsOK
  <1>7. Leads'
    BY <1>1, <1>3, <1>4, <1>5, <1>6 DEF LinkOK, Leads, Live
  <1>8. Clear' /\ Gone'  BY <1>1 DEF Clear, Gone, Idle
  <1> QED  BY <1>1, <1>7, <1>8 DEF LinkOK, Numbered, Labelled, Current, Parked, Live

\* Pointing the victim's object at the parked name keeps them linked.
LEMMA LinkPointVictim == ASSUME Base, LinkOK, PointVictim PROVE LinkOK'
  <1>1. /\ op.st = "moved" /\ op' = [op EXCEPT !.st = "pointed"]
        /\ objs' = [objs EXCEPT ![op.over].path = op.park, ![op.over].use = "victim"]
        /\ UNCHANGED <<fs, cache, ids, nextID>>
    BY DEF PointVictim, caches
  <1>2. op # Idle /\ Request /\ Victim /\ op.over # NoObj /\ op \in OverOp
    BY <1>1, Underway
  <1>3. /\ op'.st = "pointed" /\ op'.old = op.old /\ op'.new = op.new
        /\ op'.over = op.over /\ op'.park = op.park
    BY <1>1, <1>2, StageOver
  <1>4. /\ op.over \in DOMAIN objs /\ op.park \in DOMAIN fs /\ op.park # Root /\ Last(op.park) \notin Names
        /\ objs[op.over].path = op.new /\ objs[op.over].use = "live"
    BY <1>1, <1>2 DEF Victim, Base, CacheOK, Displaced
  <1>5. /\ DOMAIN objs' = DOMAIN objs /\ objs'[op.over].path = op.park
        /\ objs'[op.over].use = "victim" /\ objs'[op.over].ino = objs[op.over].ino
        /\ \A j \in DOMAIN objs : objs'[j].id = objs[j].id
        /\ \A j \in DOMAIN objs \ {op.over} : objs'[j] = objs[j]
    BY <1>1, <1>4 DEF Base, ObjsOK, Item
  <1>6. Live' = Live \ {op.over}
    BY <1>5 DEF Live
  <1>7. \A j \in Live \ {op.over} : objs'[j] = objs[j]
    BY <1>5 DEF Live
  <1>8. Labelled'
    <2>1. \A q \in DOMAIN cache : cache[q] \in DOMAIN objs  BY DEF Base, CacheOK
    <2> QED  BY <1>1, <1>5, <2>1 DEF LinkOK, Labelled
  <1>9. Current'
    BY <1>1, <1>6, <1>7 DEF LinkOK, Current
  <1>10. ASSUME NEW j \in Live \ {op.over} PROVE Where(j)' = Where(j)
    <2>1. objs'[j].path = objs[j].path /\ j # op.over  BY <1>7
    <2> QED  BY <1>1, <1>3, <2>1, SMTT(40) DEF Where
  <1>11. Leads'
    BY <1>1, <1>6, <1>7, <1>10 DEF LinkOK, Leads
  <1>12. Parked'
    <2>1. fs[op.park] = objs[op.over].ino
      <3>1. Where(op.over) = op.park  BY <1>1 DEF Where
      <3>2. op.over \in Live  BY <1>4 DEF Live
      <3> QED  BY <3>1, <3>2 DEF LinkOK, Leads
    <2>2. Last(op.park) = ParkName(fs[op.park])
      BY <1>4 DEF Base, TreeOK, Tree
    <2> QED  BY <1>4, <1>5, <2>1, <2>2, SMTT(40) DEF LinkOK, Parked
  <1>13. Clear' /\ Gone'  BY <1>1, <1>2, <1>3 DEF LinkOK, Clear, Gone
  <1> QED  BY <1>1, <1>8, <1>9, <1>11, <1>12, <1>13 DEF LinkOK, Numbered

\* Deleting the victim, or failing to, keeps them linked.
LEMMA LinkDeleteVictim == ASSUME Base, LinkOK, DeleteVictim PROVE LinkOK'
  <1>1. /\ op.st = "pointed" /\ op' = [op EXCEPT !.st = "done"]
        /\ (fs' = Without(fs, {op.park}) \/ fs' = fs)
        /\ UNCHANGED <<objs, cache, ids, nextID>>
    BY DEF DeleteVictim, caches
  <1>2. /\ op # Idle /\ Request /\ Victim /\ op.over # NoObj /\ op \in OverOp
        /\ op.old \in User /\ op.new \in User /\ op.old \in Path /\ op.new \in Path
    BY <1>1, Underway
  <1>3. /\ op'.st = "done" /\ op'.old = op.old /\ op'.new = op.new
        /\ op'.over = op.over /\ op'.park = op.park
    BY <1>1, <1>2, StageOver
  <1>4. \A j : Where(j)' = Where(j)
    BY <1>1, <1>3, SMTT(40) DEF Where
  <1>5. ASSUME NEW j \in Live PROVE Where(j) # op.park
    <2>1. objs[j].path \in User /\ objs[j].path \in Path
      BY UserPath DEF Live, Base, ObjsOK
    <2>2. Where(j) = IF Within(op.old, objs[j].path)
                     THEN Rebase(objs[j].path, op.old, op.new) ELSE objs[j].path
      BY <1>1 DEF Where
    <2>3. Where(j) \in User
      BY <1>2, <2>1, <2>2, RebaseUser, SMTT(40)
    <2> QED  BY <1>2, <2>3, ParkStays
  <1>6. \A q \in DOMAIN fs : q # op.park => q \in DOMAIN fs' /\ fs'[q] = fs[q]
    BY <1>1 DEF Without
  <1>7. Leads'
    BY <1>1, <1>4, <1>5, <1>6 DEF LinkOK, Leads, Live
  <1>8. DOMAIN fs' \subseteq DOMAIN fs  BY <1>1 DEF Without
  <1>9. Clear' /\ Gone'  BY <1>1, <1>2, <1>3, <1>8 DEF LinkOK, Clear, Gone
  <1> QED  BY <1>1, <1>7, <1>9 DEF LinkOK, Numbered, Labelled, Current, Parked, Live

\* Where an entry of a table goes when it is re-keyed.
Moved(p) == IF Within(op.old, p) THEN Rebase(p, op.old, op.new) ELSE p

\* No entry of itemByPath is in the way of the renamed one, and the renamed
\* one is not in the way of itself.
LEMMA ClearFacts ==
  ASSUME Base, LinkOK, op # Idle
  PROVE  /\ op.old \in DOMAIN cache /\ cache[op.old] = op.item
         /\ op.over # NoObj => ~Within(op.new, op.old)
         /\ \A p : Kept(p) /\ ~Within(op.old, p) => ~Within(op.new, p)
  <1>1. Request /\ Victim /\ op.old \in Path /\ op.new \in Path
    BY OpFields DEF Base, OpOK, Request
  <1>2. op.old \in DOMAIN cache /\ cache[op.old] = op.item
    BY <1>1 DEF Request, LinkOK, Current, Live
  <1>3. op.over # NoObj => ~Within(op.new, op.old)
    BY <1>1, <1>2 DEF Victim, LinkOK, Clear
  <1>4. ASSUME NEW p, Kept(p), ~Within(op.old, p), Within(op.new, p) PROVE FALSE
    <2>1. op.old # op.new  BY <1>4
    <2>2. p = op.new /\ op.over # NoObj  BY <1>4, <2>1 DEF LinkOK, Clear, Kept
    <2> QED  BY <1>4, <2>2 DEF Kept
  <1> QED  BY <1>2, <1>3, <1>4

\* A re-keyed table holds what it held, each entry under the path of its own.
LEMMA RekeyedFrom ==
  ASSUME NEW f, Table(f), op.old \in Path, op.new \in Path, op.old \in DOMAIN f,
         NEW x, x = f[op.old], NEW q \in DOMAIN Rekeyed(f, x)
  PROVE  \E p \in DOMAIN f : /\ Rekeyed(f, x)[q] = f[p] /\ q = Moved(p)
                             /\ p # op.old => (op.over # NoObj => ~Within(op.new, p))
  <1>0. Origins(f, Rekeyed(f, x))  BY RekeyTable
  <1>1. CASE q = op.new
    <2>1. Rekeyed(f, x)[q] = f[op.old]  BY <1>1, RekeyTable
    <2>2. Moved(op.old) = op.new  BY RebaseSelf, WithinOrder DEF Moved
    <2> QED  BY <1>1, <2>1, <2>2
  <1>2. CASE q # op.new
    <2>1. PICK p \in DOMAIN f :
                  /\ p # op.old /\ (op.over # NoObj => ~Within(op.new, p)) /\ Rekeyed(f, x)[q] = f[p]
                  /\ \/ q = p /\ ~Within(op.old, p)
                     \/ Below(op.old, p) /\ q = Rebase(p, op.old, op.new)
      BY <1>0, <1>2 DEF Origins
    <2>2. q = Moved(p)  BY <2>1 DEF Moved, Below
    <2> QED  BY <2>1, <2>2
  <1> QED  BY <1>1, <1>2

\* What becomes of an entry that no other one displaces.
LEMMA RekeyedTo ==
  ASSUME NEW f, Table(f), op.old \in Path, op.new \in Path, NEW x, NEW p \in DOMAIN f, p # op.old,
         op.over # NoObj => ~Within(op.new, p), Within(op.old, p) \/ ~Within(op.new, p)
  PROVE  Moved(p) \in DOMAIN Rekeyed(f, x) /\ Rekeyed(f, x)[Moved(p)] = f[p]
  <1>0. Carried(f, Rekeyed(f, x))  BY RekeyTable
  <1>1. CASE Within(op.old, p)
    <2>1. Below(op.old, p) /\ Moved(p) = Rebase(p, op.old, op.new)
      BY <1>1 DEF Below, Moved
    <2> QED  BY <1>0, <2>1 DEF Carried
  <1>2. CASE ~Within(op.old, p)
    <2>1. Moved(p) = p  BY <1>2 DEF Moved
    <2>2. ~Within(op.new, p)  BY <1>2
    <2> QED  BY <1>0, <1>2, <2>1, <2>2 DEF Carried
  <1> QED  BY <1>1, <1>2

\* Every object the kernel uses learns the new path of its file.
LEMMA RekeyPaths ==
  ASSUME Base, LinkOK, Rekey, NEW i \in Live
  PROVE  /\ objs'[i].path = Moved(objs[i].path)
         /\ i # op.item => Kept(objs[i].path) /\ cache[objs[i].path] = i
  <1>1. op.st = "done"  BY DEF Rekey
  <1>2. /\ op # Idle /\ Request /\ Victim /\ op.old \in Path /\ op.new \in Path
    BY <1>1, Underway
  <1>3. op.old \in DOMAIN cache /\ cache[op.old] = op.item
    BY <1>2, ClearFacts
  <1>4. Moved(op.old) = op.new  BY <1>2, RebaseSelf, WithinOrder DEF Moved
  <1>5. objs'[op.item].path = op.new
    BY RekeyObjs
  <1>6. \A p : Kept(p) /\ Below(op.old, p) => objs'[cache[p]].path = Rebase(p, op.old, op.new)
    BY RekeyObjs
  <1>7. \A j \in DOMAIN objs : j # op.item /\ (\A p : Kept(p) /\ cache[p] = j => ~Below(op.old, p))
                      => objs'[j] = objs[j]
    BY RekeyObjs
  <1>8. ASSUME i # op.item
         PROVE  /\ Kept(objs[i].path) /\ cache[objs[i].path] = i
                /\ objs'[i].path = Moved(objs[i].path)
    <2> DEFINE p == objs[i].path
    <2>1. p \in DOMAIN cache /\ cache[p] = i /\ i \in DOMAIN objs  BY DEF LinkOK, Current, Live
    <2>2. p # op.old  BY <1>3, <1>8, <2>1
    <2>3. op.over # NoObj => ~Within(op.new, p)
      <3>1. ASSUME op.over # NoObj, Within(op.new, p) PROVE FALSE
        <4>1. p = op.new  BY <1>2, <2>1, <3>1 DEF LinkOK, Clear, Victim
        <4>2. i = op.over /\ objs[op.over].use = "victim"
          BY <1>1, <1>2, <2>1, <3>1, <4>1 DEF Victim
        <4> QED  BY <4>2 DEF Live
      <3> QED  BY <3>1
    <2>4. Kept(p)  BY <2>1, <2>2, <2>3 DEF Kept
    <2> HIDE DEF p
    <2>5. CASE Below(op.old, p)
      <3>1. objs'[i].path = Rebase(p, op.old, op.new)  BY <1>6, <2>1, <2>4, <2>5
      <3> QED  BY <2>1, <2>4, <2>5, <3>1 DEF p, Moved, Below
    <2>6. CASE ~Below(op.old, p)
      <3>1. ~Within(op.old, p)  BY <2>2, <2>6 DEF Below
      <3>2. \A r : Kept(r) /\ cache[r] = i => r = p
        BY <1>2, KeptShape DEF p
      <3>3. \A r : Kept(r) /\ cache[r] = i => ~Below(op.old, r)  BY <2>6, <3>2
      <3>4. objs'[i] = objs[i]  BY <1>7, <1>8, <2>1, <3>3
      <3> QED  BY <2>1, <2>4, <3>1, <3>4 DEF p, Moved
    <2> QED  BY <2>5, <2>6
  <1> QED  BY <1>2, <1>4, <1>5, <1>8 DEF Request

\* Re-keying the caches keeps objects and files linked.
LEMMA LinkRekey == ASSUME Base, LinkOK, Rekey PROVE LinkOK'
  <1> DEFINE id == ids[op.old]
  <1>1. /\ op.st = "done" /\ op' = Idle /\ UNCHANGED <<fs, nextID>>
        /\ cache' = Rekeyed(cache, op.item)
    BY DEF Rekey, Rekeyed
  <1>2. /\ op # Idle /\ Request /\ Victim /\ op.old \in Path /\ op.new \in Path
        /\ op.old \in User /\ op.new \in User
    BY <1>1, Underway
  <1>3. /\ op.old \in DOMAIN cache /\ cache[op.old] = op.item
        /\ op.over # NoObj => ~Within(op.new, op.old)
    BY <1>2, ClearFacts
  <1>4. \A p : Kept(p) /\ ~Within(op.old, p) => ~Within(op.new, p)
    BY <1>2, ClearFacts
  <1>5. op.old \in DOMAIN ids /\ ids[op.old] = objs[op.item].id
    BY <1>3 DEF LinkOK, Labelled
  <1>6. ids' = Rekeyed(ids, id)
    <2>1. op.old \in DOMAIN Evict(ids) /\ Evict(ids)[op.old] = id
      BY <1>3, <1>5 DEF Evict, Without
    <2>2. ids' = With(MoveKeys(Without(Evict(ids), {op.old}), op.old, op.new), op.new,
                      IF op.old \in DOMAIN Evict(ids) THEN Evict(ids)[op.old] ELSE objs[op.item].id)
      BY DEF Rekey
    <2> QED  BY <2>1, <2>2 DEF Rekeyed
  <1>7. Table(ids) /\ Table(cache) /\ \A p \in DOMAIN cache : cache[p] \in DOMAIN objs
    BY DEF Base, IdsOK, CacheOK
  <1> HIDE DEF id
  <1>8. ASSUME NEW q \in DOMAIN ids'
        PROVE  \E p \in DOMAIN ids : ids'[q] = ids[p] /\ q = Moved(p)
    BY <1>2, <1>5, <1>6, <1>7, <1>8, RekeyedFrom, SMTT(40) DEF id
  <1>9. Numbered'
    <2>1. ASSUME NEW q \in DOMAIN ids' PROVE ids'[q] \in 0 .. nextID'
      BY <1>1, <1>8 DEF LinkOK, Numbered
    <2>2. ASSUME NEW p \in DOMAIN ids', NEW q \in DOMAIN ids', ids'[p] = ids'[q] PROVE p = q
      <3>1. PICK a \in DOMAIN ids : ids'[p] = ids[a] /\ p = Moved(a)  BY <1>8
      <3>2. PICK b \in DOMAIN ids : ids'[q] = ids[b] /\ q = Moved(b)  BY <1>8
      <3>3. a = b  BY <2>2, <3>1, <3>2 DEF LinkOK, Numbered
      <3> QED  BY <3>1, <3>2, <3>3
    <2> QED  BY <2>1, <2>2 DEF Numbered
  <1>10. /\ \A j \in DOMAIN objs : /\ objs'[j].id = objs[j].id /\ objs'[j].use = objs[j].use
                                   /\ objs'[j].ino = objs[j].ino
         /\ DOMAIN objs' = DOMAIN objs /\ objs'[op.item].path = op.new
    BY RekeyObjs
  <1>12. \A j \in DOMAIN objs : j # op.item /\ (\A p : Kept(p) /\ cache[p] = j => ~Below(op.old, p))
                      => objs'[j] = objs[j]
    BY RekeyObjs
  <1>13. Live' = Live  BY <1>10 DEF Live
  <1>14. ASSUME NEW p, p \in DOMAIN ids, Kept(p)
         PROVE  Moved(p) \in DOMAIN ids' /\ ids'[Moved(p)] = ids[p]
    <2>1. Within(op.old, p) \/ ~Within(op.new, p)  BY <1>4, <1>14
    <2>2. p # op.old /\ (op.over # NoObj => ~Within(op.new, p))  BY <1>14 DEF Kept
    <2> QED  BY <1>2, <1>6, <1>7, <1>14, <2>1, <2>2, RekeyedTo
  <1>15. Moved(op.old) = op.new /\ op.new \in DOMAIN ids' /\ ids'[op.new] = ids[op.old]
    <2>1. Moved(op.old) = op.new  BY <1>2, RebaseSelf, WithinOrder DEF Moved
    <2>2. op.new \in DOMAIN ids' /\ ids'[op.new] = id
      BY <1>2, <1>6, <1>7, RekeyTable
    <2> QED  BY <2>1, <2>2 DEF id
  <1>16. Labelled'
    <2>1. ASSUME NEW q \in DOMAIN cache' PROVE q \in DOMAIN ids' /\ ids'[q] = objs'[cache'[q]].id
      <3>1. PICK p \in DOMAIN cache : /\ cache'[q] = cache[p] /\ q = Moved(p)
                                      /\ p # op.old => (op.over # NoObj => ~Within(op.new, p))
        BY <1>1, <1>2, <1>3, <1>7, RekeyedFrom, SMTT(40)
      <3>2. objs'[cache[p]].id = objs[cache[p]].id  BY <1>7, <1>10
      <3>3. p \in DOMAIN ids /\ ids[p] = objs[cache[p]].id  BY DEF LinkOK, Labelled
      <3>4. CASE p = op.old  BY <1>15, <3>1, <3>2, <3>3, <3>4
      <3>5. CASE p # op.old
        <4>1. Kept(p)  BY <3>1, <3>5 DEF Kept
        <4>2. Moved(p) \in DOMAIN ids' /\ ids'[Moved(p)] = ids[p]  BY <1>14, <3>3, <4>1
        <4> QED  BY <3>1, <3>2, <3>3, <4>2
      <3> QED  BY <3>4, <3>5
    <2> QED  BY <2>1 DEF Labelled
  <1>17. \A i \in Live : /\ objs'[i].path = Moved(objs[i].path)
                         /\ i # op.item => Kept(objs[i].path) /\ cache[objs[i].path] = i
    BY RekeyPaths
  <1>18. Current'
    <2>1. ASSUME NEW i \in Live PROVE objs'[i].path \in DOMAIN cache' /\ cache'[objs'[i].path] = i
      <3>1. CASE i = op.item
        <4>1. op.new \in DOMAIN cache' /\ cache'[op.new] = op.item
          BY <1>1, <1>2, <1>7, RekeyTable
        <4> QED  BY <1>10, <3>1, <4>1
      <3>2. CASE i # op.item
        <4> DEFINE p == objs[i].path
        <4>1. Kept(p) /\ cache[p] = i /\ objs'[i].path = Moved(p)  BY <1>17, <3>2
        <4> HIDE DEF p
        <4>2. Within(op.old, p) \/ ~Within(op.new, p)  BY <1>4, <4>1
        <4>3. p \in DOMAIN cache /\ p # op.old /\ (op.over # NoObj => ~Within(op.new, p))
          BY <4>1 DEF Kept
        <4>4. Moved(p) \in DOMAIN cache' /\ cache'[Moved(p)] = cache[p]
          BY <1>1, <1>2, <1>7, <4>2, <4>3, RekeyedTo
        <4> QED  BY <4>1, <4>4 DEF p
      <3> QED  BY <3>1, <3>2
    <2> QED  BY <1>13, <2>1 DEF Current
  <1>19. Leads'
    <2>1. ASSUME NEW i \in Live PROVE Where(i)' = Where(i) /\ objs'[i].ino = objs[i].ino
      <3>1. Where(i)' = objs'[i].path  BY <1>1 DEF Where, Idle
      <3>2. Where(i) = Moved(objs[i].path)  BY <1>1 DEF Where, Moved
      <3>3. objs'[i].path = Moved(objs[i].path)
        BY <1>17
      <3>4. i \in DOMAIN objs  BY DEF Live
      <3> QED  BY <1>10, <3>1, <3>2, <3>3, <3>4
    <2> QED  BY <1>1, <1>13, <2>1 DEF LinkOK, Leads
  <1>20. Parked'
    <2>1. ASSUME NEW j \in DOMAIN objs, objs[j].use = "victim" PROVE objs'[j] = objs[j]
      <3>1. j # op.item  BY <1>2, <2>1 DEF Request
      <3>2. \A p : Kept(p) => cache[p] # j  BY <1>2, <2>1, KeptShape
      <3> QED  BY <1>12, <3>1, <3>2
    <2> QED  BY <1>10, <2>1 DEF LinkOK, Parked
  <1>21. Clear' /\ Gone'  BY <1>1 DEF Clear, Gone, Idle
  <1> QED  BY <1>9, <1>16, <1>18, <1>19, <1>20, <1>21 DEF LinkOK

\* Numbering the entries of a list keeps objects and files linked.
LEMMA LinkEnumPack == ASSUME Base, LinkOK, EnumPack PROVE LinkOK'
  <1>1. rd.st = "listed" /\ SeedIds(rd.list) /\ UNCHANGED <<fs, objs, cache, op>>
    BY DEF EnumPack
  <1>2. rd.list \in SUBSET Path
    BY <1>1, SMTT(40) DEF Base, RdOK
  <1>3. Numbered'
    BY <1>1, <1>2, NumberedSeed DEF Base, LinkOK
  <1>4. DOMAIN ids' = DOMAIN ids \cup rd.list /\ \A q \in DOMAIN ids : ids'[q] = ids[q]
    <2>1. Table(ids) /\ nextID \in Nat /\ \A q \in DOMAIN ids : ids[q] \in Nat
      BY DEF Base, IdsOK
    <2> QED  BY <1>1, <1>2, <2>1, SeedIdsShape
  <1>5. Labelled'
    BY <1>1, <1>4 DEF LinkOK, Labelled
  <1>6. Current' /\ Parked'
    BY <1>1 DEF LinkOK, Current, Parked, Live
  <1>7. Leads' /\ Clear' /\ Gone'
    BY <1>1 DEF LinkOK, Leads, Clear, Gone, Live, Where
  <1> QED  BY <1>3, <1>5, <1>6, <1>7 DEF LinkOK

\* Only a failed rollback adds to what may happen.
LEMMA EnvStep == [Next]_vars => env \subseteq env' /\ (~Rollback => env' = env)
  <1> SUFFICES ASSUME [Next]_vars PROVE Rollback \/ env' = env
    BY DEF Rollback
  <1>1. ASSUME NEW d \in Live, NEW n \in Names, NEW k, CreateItem(d, n, k) \/ CreateSymbolicLink(d, n)
        PROVE  env' = env
    BY <1>1 DEF CreateItem, CreateSymbolicLink, Create
  <1>2. ASSUME NEW d \in Live, NEW n \in Names, NEW i \in Live, RenameStart(i, d, n) PROVE env' = env
    BY <1>2 DEF RenameStart
  <1>3. ASSUME NEW d \in Live, NEW n \in Names, LookupItem(d, n) PROVE env' = env
    BY <1>3 DEF LookupItem
  <1>4. ASSUME NEW i, RemoveItem(i) \/ ReclaimItem(i) PROVE env' = env
    BY <1>4 DEF RemoveItem, ReclaimItem
  <1>5. ASSUME RenameMove \/ RenameFail \/ PointVictim \/ DeleteVictim \/ Rekey PROVE env' = env
    BY <1>5 DEF RenameMove, RenameFail, PointVictim, DeleteVictim, Rekey
  <1>6. ASSUME (\E d \in Live : EnumSample(d)) \/ EnumList \/ EnumPack \/ CloseDir PROVE env' = env
    BY <1>6 DEF EnumSample, EnumList, EnumPack, CloseDir
  <1>7. CASE UNCHANGED vars  BY <1>7 DEF vars
  <1> QED  BY <1>1, <1>2, <1>3, <1>4, <1>5, <1>6, <1>7 DEF Next

\* The link invariant: nothing is claimed once a rollback has failed.
Linked == ~Stranded => LinkOK

-----------------------------------------------------------------------------
(* The link invariant.                                                     *)

\* Objects and files are linked when the volume is mounted.
LEMMA LinkInit == Init => Linked
  <1> SUFFICES ASSUME Init PROVE LinkOK
    BY DEF Linked
  <1>1. /\ fs = [p \in {Root} |-> 0] /\ ids = [p \in {Root} |-> 0] /\ nextID = 0
        /\ objs = [i \in {RootObj} |-> [path |-> Root, id |-> 0, ino |-> 0, use |-> "live"]]
        /\ cache = [p \in {Root} |-> RootObj] /\ op = Idle
    BY DEF Init
  <1>2. /\ DOMAIN objs = {RootObj} /\ objs[RootObj].path = Root /\ objs[RootObj].id = 0
        /\ objs[RootObj].ino = 0 /\ objs[RootObj].use = "live" /\ Live = {RootObj}
    BY <1>1 DEF Live
  <1>3. Numbered /\ Labelled /\ Current
    BY <1>1, <1>2, SMTT(40) DEF Numbered, Labelled, Current
  <1>4. Leads
    BY <1>1, <1>2, IdleWhere DEF Leads
  <1>5. Parked /\ Clear /\ Gone
    BY <1>1, <1>2 DEF Parked, Clear, Gone, Idle
  <1> QED  BY <1>3, <1>4, <1>5 DEF LinkOK

\* Every step keeps objects and files linked until a rollback fails.
LEMMA LinkNext == Base /\ Linked /\ [Next]_vars => Linked'
  <1> SUFFICES ASSUME Base, Linked, [Next]_vars, ~Stranded' PROVE LinkOK'
    BY DEF Linked
  <1>0. LinkOK
    <2>1. env \subseteq env'  BY EnvStep
    <2> QED  BY <2>1 DEF Linked, Stranded
  <1>1. ASSUME NEW d \in Live, NEW n \in Names, NEW k \in {"file", "dir"}, CreateItem(d, n, k)
        PROVE  LinkOK'
    BY <1>0, <1>1, LinkCreate DEF CreateItem
  <1>2. ASSUME NEW d \in Live, NEW n \in Names, CreateSymbolicLink(d, n) PROVE LinkOK'
    BY <1>0, <1>2, LinkCreate DEF CreateSymbolicLink
  <1>3. ASSUME NEW d \in Live, NEW n \in Names, LookupItem(d, n) PROVE LinkOK'
    BY <1>0, <1>3, LinkLookup
  <1>4. ASSUME NEW d \in Live, NEW n \in Names, NEW i \in Live, RenameStart(i, d, n) PROVE LinkOK'
    BY <1>0, <1>4, LinkRenameStart
  <1>5. ASSUME NEW i \in Live, RemoveItem(i) PROVE LinkOK'
    BY <1>0, <1>5, LinkRemove
  <1>6. ASSUME NEW i \in DOMAIN objs, ReclaimItem(i) PROVE LinkOK'
    BY <1>0, <1>6, LinkReclaim
  <1>7. ASSUME RenameMove \/ RenameFail \/ Rollback \/ PointVictim \/ DeleteVictim \/ Rekey
        PROVE  LinkOK'
    BY <1>0, <1>7, LinkRenameMove, LinkRenameFail, LinkRollback, LinkPointVictim, LinkDeleteVictim,
       LinkRekey
  <1>8. ASSUME (\E d \in Live : EnumSample(d)) \/ EnumList \/ EnumPack \/ CloseDir PROVE LinkOK'
    <2>1. CASE EnumPack  BY <1>0, <2>1, LinkEnumPack
    <2>2. CASE ~EnumPack
      <3>1. UNCHANGED <<fs, objs, cache, ids, nextID, op>>
        BY <1>8, <2>2 DEF EnumSample, EnumList, CloseDir, caches
      <3> QED  BY <1>0, <3>1, LinkSame
    <2> QED  BY <2>1, <2>2
  <1>9. CASE UNCHANGED vars
    <2>1. UNCHANGED <<fs, objs, cache, ids, nextID, op>>  BY <1>9 DEF vars
    <2> QED  BY <1>0, <2>1, LinkSame
  <1> QED
    BY <1>1, <1>2, <1>3, <1>4, <1>5, <1>6, <1>7, <1>8, <1>9 DEF Next

\* At rest, linked objects agree with the caches and follow their files.
LEMMA LinkAgree == Base /\ Linked => CachesAgree /\ ItemFollowsFile
  <1> SUFFICES ASSUME Base, Linked, op = Idle, ~Stranded
               PROVE  CachesAgree /\ ItemFollowsFile
    BY DEF CachesAgree, ItemFollowsFile
  <1>1. LinkOK  BY DEF Linked
  <1>2. ItemFollowsFile
    BY <1>1, IdleLeads DEF ItemFollowsFile
  <1>3. \A p \in DOMAIN cache : /\ cache[p] \in DOMAIN objs /\ objs[cache[p]].path = p
                                /\ p \in DOMAIN ids /\ ids[p] = objs[cache[p]].id
    BY <1>1, IdleCache DEF LinkOK, Labelled
  <1>4. \A p, q \in DOMAIN ids : ids[p] = ids[q] => p = q
    BY <1>1 DEF LinkOK, Numbered
  <1>5. \A i, j \in Live : objs[i].path = objs[j].path => i = j
    BY <1>1 DEF LinkOK, Current
  <1> QED  BY <1>2, <1>3, <1>4, <1>5 DEF CachesAgree

\* Linked objects reach no file but their own, the victim excepted.
LEMMA LinkHandles == Base /\ Linked => HandlesSafe
  <1> SUFFICES ASSUME Base, Linked, ~Stranded, NEW i \in DOMAIN objs, Aliased(i)
               PROVE  op.st = "moved" /\ op.over = i
    BY DEF HandlesSafe
  <1>1. LinkOK  BY DEF Linked
  <1> DEFINE p == objs[i].path
  <1>2. objs[i].use # "removed" /\ p \in DOMAIN fs /\ fs[p] # objs[i].ino
    BY DEF Aliased
  <1>3. objs[i] \in Item /\ Tree(fs, Len(kind)) /\ Len(kind) \in Nat
    BY SMTT(40) DEF Base, ObjsOK, TreeOK
  <1>4. p \in Path  BY <1>3 DEF Item
  <1> HIDE DEF p
  <1>5. CASE objs[i].use = "victim"
    <2>1. p # Root /\ Last(p) \notin Names /\ Last(p) = ParkName(objs[i].ino)
      BY <1>1, <1>5 DEF LinkOK, Parked, p
    <2>2. Last(p) = ParkName(fs[p]) /\ fs[p] \in Nat /\ objs[i].ino \in Nat
      BY <1>2, <1>3, <2>1, SMTT(40) DEF Tree, Item
    <2>3. fs[p] = objs[i].ino
      BY <2>1, <2>2, NamespaceAssumption, SMTT(40) DEF ParkName
    <2> QED  BY <1>2, <2>3
  <1>6. CASE objs[i].use = "live"
    <2>1. i \in Live /\ Where(i) \in DOMAIN fs /\ fs[Where(i)] = objs[i].ino
      BY <1>1, <1>6 DEF LinkOK, Leads, Live
    <2>2. Where(i) # p  BY <1>2, <2>1
    <2>3. CASE op.st \in {"parked", "failed", "moved"} /\ i = op.over
      <3>1. op # Idle /\ Request /\ Unmoved /\ Victim
        BY <2>3, SMTT(40) DEF Base, OpOK, Idle
      <3>2. op.over # NoObj  BY <2>3, NamespaceAssumption, SMTT(40) DEF NoObj, Base, ObjsOK, Objs
      <3>3. CASE op.st = "moved"  BY <2>3, <3>3
      <3>4. CASE op.st \in {"parked", "failed"}
        <4>1. p = op.new
          BY <2>3, <3>1, <3>2, <3>4 DEF Victim, Base, CacheOK, Displaced, p
        <4>2. op.new \notin DOMAIN fs  BY <3>1, <3>4 DEF Unmoved
        <4> QED  BY <1>2, <4>1, <4>2
      <3> QED  BY <2>3, <3>3, <3>4
    <2>4. CASE ~(op.st \in {"parked", "failed", "moved"} /\ i = op.over)
      <3>1. op.st \in {"moved", "pointed", "done"} /\ Within(op.old, p)
            /\ Where(i) = Rebase(p, op.old, op.new)
        BY <2>2, <2>4 DEF Where, p
      <3>2. op # Idle /\ op.old \in Path /\ op.new \in Path
        BY <3>1, OpFields, SMTT(40) DEF Base, OpOK, Request, Idle
      <3>3. op.old # op.new  BY <1>4, <2>2, <3>1, <3>2, RebaseSelf
      <3>4. op.old \notin DOMAIN fs  BY <1>1, <3>1, <3>3 DEF LinkOK, Gone
      <3> QED  BY <1>2, <1>3, <3>1, <3>2, <3>4, TreeFacts
    <2> QED  BY <2>3, <2>4
  <1> QED  BY <1>2, <1>3, <1>5, <1>6 DEF Item

\* One live NTFSItem per path, with the identifier of its path.
THEOREM Caches == Spec => []CachesAgree
  BY BaseInit, BaseNext, LinkInit, LinkNext, LinkAgree, PTL DEF Spec

\* An item follows its file through every rename.
THEOREM Follows == Spec => []ItemFollowsFile
  BY BaseInit, BaseNext, LinkInit, LinkNext, LinkAgree, PTL DEF Spec

\* I/O in the middle of a rename reaches the right file.
THEOREM Handles == Spec => []HandlesSafe
  BY BaseInit, BaseNext, LinkInit, LinkNext, LinkHandles, PTL DEF Spec
=============================================================================
