------------------------------ MODULE Namespace ------------------------------
(***************************************************************************)
(* The namespace of NTFSVolume: the engine's tree of names, the item        *)
(* objects handed to the kernel, the path-keyed caches (itemByPath,         *)
(* idByPath, dirGen), and the upcalls that use them.                        *)
(*                                                                         *)
(* Upcalls that change names hold stateLock from start to end, and each     *)
(* engine call runs on the serial engine queue.  create, remove and lookup  *)
(* make one engine call, so each is one step; rename makes up to four and   *)
(* is a process of its own (`op`).  Enumeration and file I/O do not take    *)
(* the lock around their engine calls and interleave with a rename.         *)
(*                                                                         *)
(* A file is a number; `kind` says which are directories.  The file an      *)
(* object was handed out for (`ino`) and its standing with the kernel       *)
(* (`use`) are not in the code: they are what the properties speak about.   *)
(***************************************************************************)
EXTENDS Paths, FiniteSets, Functions

CONSTANTS
    NumNames,   \* names are 1 .. NumNames
    MaxDepth,   \* bound: length of a path
    MaxFiles,   \* bound: files ever created
    MaxObjs,    \* bound: item objects alive at a time, the root's included
    MaxGen,     \* bound: the directory generation counter
    MaxGenEnum, \* ... of behaviours with enumerations
    Envs        \* what may happen in one run of the program: sets of EnvFlags

\* opfail        an engine call fails and leaves the tree as it was
\* delfail       the victim of a rename-over cannot be deleted
\* rollbackfail  the rollback of a rename-over fails
\* nested        directories that hold directories are renamed
\* enum          directories are enumerated
\* reclaim       the kernel lets go of items
\* A behaviour starts with one of Envs; "stranded" joins it when a rollback
\* fails, and leaves a victim under its parked name for good.
EnvFlags == {"opfail", "delfail", "rollbackfail", "nested", "enum", "reclaim"}

ASSUME NamespaceAssumption ==
    /\ NumNames \in Nat \ {0} /\ MaxDepth \in Nat \ {0} /\ MaxFiles \in Nat
    /\ MaxObjs \in Nat \ {0} /\ MaxGen \in Nat \ {0} /\ MaxGenEnum \in 1 .. MaxGen
    /\ Envs \subseteq SUBSET EnvFlags

VARIABLES
    fs,      \* the engine's tree: path -> file
    kind,    \* sequence: kind of every file created so far
    objs,    \* object -> NTFSItem
    cache,   \* itemByPath: path -> object
    ids,     \* idByPath: path -> identifier
    nextID, gen, genCounter,   \* dirGen: path -> generation
    op,      \* the rename that holds stateLock, or Idle
    rd,      \* the enumeration upcall in progress or finished last
    env      \* what may happen in this behaviour

vars == <<fs, kind, objs, cache, ids, nextID, gen, genCounter, op, rd, env>>
caches == <<cache, ids, nextID>>
gens == <<gen, genCounter>>

Files == 1 .. MaxFiles
Names == 1 .. NumNames
\* ".nk-over-<uuid>-name": a name of its own for every victim.
ParkName(f) == NumNames + f
AllNames == 1 .. NumNames + MaxFiles
UserPaths == UNION {[1 .. k -> Names] : k \in 0 .. MaxDepth}
AllPaths == UNION {[1 .. k -> AllNames] : k \in 0 .. MaxDepth}
RootObj == 0
Objs == 0 .. MaxObjs - 1
Idle == [st |-> "idle"]
NoObj == -1

IsDir(p) == IF p = Root THEN TRUE ELSE kind[fs[p]] = "dir"
Children(p) == {q \in DOMAIN fs : q # Root /\ Parent(q) = p}
\* Mutant: directories go with what they hold.
EmptyOrNot(p) == TRUE
\* What nk_list finds before a directory is replaced, and nk_delete itself.
IsEmpty(p) == Children(p) = {}
Gen(p) == IF p \in DOMAIN gen THEN gen[p] ELSE 1
GenBound == IF "enum" \in env THEN MaxGenEnum ELSE MaxGen
Stranded == "stranded" \in env
Live == {i \in DOMAIN objs : objs[i].use = "live"}
Fresh == CHOOSE i \in Objs \ DOMAIN objs : TRUE

Init == /\ fs = [p \in {Root} |-> 0] /\ kind = <<>>
        /\ objs = [i \in {RootObj} |-> [path |-> Root, id |-> 0, ino |-> 0, use |-> "live"]]
        /\ cache = [p \in {Root} |-> RootObj]
        /\ ids = [p \in {Root} |-> 0] /\ nextID = 0
        /\ gen = [p \in {} |-> 1] /\ genCounter = 1
        /\ op = Idle /\ rd = [st |-> "none"]
        /\ env \in Envs

-----------------------------------------------------------------------------
\* mutateNamespace: every directory of the list gets a generation of its own.
Bump(dirs) ==
    LET at(p) == CHOOSE k \in 1 .. Len(dirs) :
                    dirs[k] = p /\ \A j \in k + 1 .. Len(dirs) : dirs[j] # p
    IN  /\ genCounter + Len(dirs) <= GenBound
        /\ genCounter' = genCounter + Len(dirs)
        /\ gen' = [p \in DOMAIN gen \cup Range(dirs) |->
                      IF p \in Range(dirs) THEN genCounter + at(p) ELSE gen[p]]

\* id(for:) for every path of a set, one after the other, in any order.
SeedIds(S) ==
    LET new == S \ DOMAIN ids
    IN  \E n \in 0 .. Cardinality(S) : \E at \in Bijection(new, 1 .. n) :
            /\ nextID' = nextID + n
            /\ ids' = [p \in DOMAIN ids \cup new |-> IF p \in new THEN nextID + at[p] ELSE ids[p]]

\* item(path:kind:): the cached object, or a fresh one for file f.
HandOut(p, f) ==
    IF p \in DOMAIN cache THEN UNCHANGED <<objs, caches>>
    ELSE /\ DOMAIN objs # Objs
         /\ SeedIds({p})
         /\ objs' = With(objs, Fresh, [path |-> p, id |-> ids'[p], ino |-> f, use |-> "live"])
         /\ cache' = With(cache, p, Fresh)

\* createItem and createSymbolicLink once the engine has made the name.
Create(d, n, k) ==
    LET dir == objs[d].path
        p   == Append(dir, n)
        f   == Len(kind) + 1
    IN  /\ op = Idle
        /\ dir \in DOMAIN fs /\ IsDir(dir) /\ Len(dir) < MaxDepth /\ p \notin DOMAIN fs
        /\ f \in Files
        /\ fs' = With(fs, p, f) /\ kind' = Append(kind, k)
        /\ Bump(<<dir, p>>)
        /\ HandOut(p, f)
        /\ UNCHANGED <<op, rd, env>>

CreateItem(d, n, k) == k \in {"file", "dir"} /\ Create(d, n, k)
\* A symbolic link is one more thing that is not a directory.
CreateSymbolicLink(d, n) == Create(d, n, "file")

LookupItem(d, n) ==
    LET p == Append(objs[d].path, n)
    IN  /\ op = Idle
        /\ IF p \in DOMAIN fs THEN HandOut(p, fs[p]) ELSE UNCHANGED <<objs, caches>>  \* ENOENT
        /\ UNCHANGED <<fs, kind, gens, op, rd, env>>

\* nk_delete refuses a directory that is not empty.
RemoveItem(i) ==
    LET p == objs[i].path
    IN  /\ op = Idle /\ i # RootObj
        /\ p \in DOMAIN fs /\ IsEmpty(p)
        /\ fs' = Without(fs, {p})
        /\ Bump(<<Parent(p), p>>)
        /\ ids' = Without(ids, {p}) /\ cache' = Without(cache, {p})
        /\ objs' = [objs EXCEPT ![i].use = "removed"]
        /\ UNCHANGED <<kind, nextID, op, rd, env>>

\* Mutant: whatever is cached under the path goes.
EvictedAny(i) == Without(cache, {objs[i].path})

\* evictIfCurrent: a late reclaim must not evict the object's successor.
Evicted(i) == IF objs[i].path \in DOMAIN cache /\ cache[objs[i].path] = i
              THEN Without(cache, {objs[i].path}) ELSE cache

\* The kernel lets go of an object that no upcall is using.
ReclaimItem(i) ==
    /\ "reclaim" \in env /\ op = Idle /\ i # RootObj
    /\ rd.st # "none" => rd.dir # i
    /\ cache' = Evicted(i)
    /\ objs' = Without(objs, {i})
    /\ UNCHANGED <<fs, kind, ids, nextID, gens, op, rd, env>>

-----------------------------------------------------------------------------
(* renameItem: park the victim, move, point the victim's object at the      *)
(* parked name, delete the victim, re-key the caches.                       *)

\* Mutant: the overItem argument is ignored.
OverIgnored(i, new) == NoObj

\* The kernel passes the object of the name it is about to replace.
OverOf(i, new) == IF new \in DOMAIN fs /\ cache[new] # i THEN cache[new] ELSE NoObj

RenameStart(i, d, n) ==
    LET old  == objs[i].path
        dest == objs[d].path
        new  == Append(dest, n)
        over == OverOf(i, new)
        park == Append(dest, ParkName(fs[new]))
    IN  /\ op = Idle /\ i # RootObj
        /\ old \in DOMAIN fs /\ dest \in DOMAIN fs /\ IsDir(dest)
        /\ new \in DOMAIN fs => new \in DOMAIN cache
        /\ ~Within(old, dest)
        /\ \A p \in DOMAIN fs : Within(old, p) => Len(Rebase(p, old, new)) <= MaxDepth
        /\ "nested" \notin env => \A p \in DOMAIN fs : Below(old, p) => ~IsDir(p)
        /\ genCounter + 4 <= GenBound
        /\ IF over = NoObj
           THEN /\ op' = [st |-> "ready", item |-> i, old |-> old, dest |-> dest,
                          new |-> new, over |-> over]
                /\ UNCHANGED fs
           ELSE /\ fs[old] # fs[new] /\ IsEmpty(new)
                /\ fs' = MoveKeys(fs, new, park)
                /\ op' = [st |-> "parked", item |-> i, old |-> old, dest |-> dest,
                          new |-> new, over |-> over, park |-> park]
        /\ UNCHANGED <<kind, objs, caches, gens, rd, env>>

RenameMove ==
    /\ op.st \in {"ready", "parked"}
    /\ fs' = MoveKeys(fs, op.old, op.new)
    /\ op' = [op EXCEPT !.st = IF op.over = NoObj THEN "done" ELSE "moved"]
    /\ UNCHANGED <<kind, objs, caches, gens, rd, env>>

RenameFail ==
    /\ "opfail" \in env
    /\ op.st \in {"ready", "parked"}
    /\ op' = IF op.st = "ready" THEN Idle ELSE [op EXCEPT !.st = "failed"]
    /\ UNCHANGED <<fs, kind, objs, caches, gens, rd, env>>

\* The victim goes back to its name (over.path), or is kept where it is.
Rollback ==
    /\ op.st = "failed"
    /\ \/ fs' = MoveKeys(fs, op.park, op.new) /\ UNCHANGED env
       \/ "rollbackfail" \in env /\ env' = env \cup {"stranded"} /\ UNCHANGED fs
    /\ op' = Idle
    /\ UNCHANGED <<kind, objs, caches, gens, rd>>

\* Mutant: the victim's object keeps its path.
VictimNotPointed ==
    /\ op.st = "moved"
    /\ objs' = [objs EXCEPT ![op.over].use = "victim"]
    /\ op' = [op EXCEPT !.st = "pointed"]
    /\ UNCHANGED <<fs, kind, caches, gens, rd, env>>

PointVictim ==
    /\ op.st = "moved"
    /\ objs' = [objs EXCEPT ![op.over].path = op.park, ![op.over].use = "victim"]
    /\ op' = [op EXCEPT !.st = "pointed"]
    /\ UNCHANGED <<fs, kind, caches, gens, rd, env>>

DeleteVictim ==
    /\ op.st = "pointed"
    /\ \/ fs' = Without(fs, {op.park})
       \/ "delfail" \in env /\ UNCHANGED fs
    /\ op' = [op EXCEPT !.st = "done"]
    /\ UNCHANGED <<kind, objs, caches, gens, rd, env>>

\* The tables without the replaced item and anything cached below it.
Evict(f) == IF op.over = NoObj THEN f
            ELSE Without(f, {p \in DOMAIN f : Within(op.new, p)})

\* Mutant: descendants keep their path.
StaysBehind(c, j) == FALSE

\* Is j cached below the name that moves?
MovesAlong(c, j) == \E p \in DOMAIN c : c[p] = j /\ Below(op.old, p)

\* The same object follows the file to its new name, and so does every cached
\* descendant.
Rekey ==
    LET c  == Without(Evict(cache), {op.old})
        t  == Evict(ids)
        id == IF op.old \in DOMAIN t THEN t[op.old] ELSE objs[op.item].id
    IN  /\ op.st = "done"
        /\ Bump(<<Parent(op.old), op.dest, op.old, op.new>>)
        /\ cache' = With(MoveKeys(c, op.old, op.new), op.new, op.item)
        /\ ids' = With(MoveKeys(Without(t, {op.old}), op.old, op.new), op.new, id)
        /\ objs' = [j \in DOMAIN objs |->
              CASE j = op.item -> [objs[j] EXCEPT !.path = op.new]
                [] j # op.item /\ MovesAlong(c, j) -> [objs[j] EXCEPT !.path = Rebase(@, op.old, op.new)]
                [] OTHER -> objs[j]]
        /\ op' = Idle
        /\ UNCHANGED <<fs, kind, nextID, rd, env>>

-----------------------------------------------------------------------------
(* enumerateDirectory: sample the generation, list, number the entries.     *)

EnumSample(d) ==
    /\ "enum" \in env /\ op = Idle /\ rd.st \in {"none", "done"}
    /\ rd' = [st |-> "sampled", dir |-> d, gen |-> Gen(objs[d].path)]
    /\ UNCHANGED <<fs, kind, objs, caches, gens, op, env>>

EnumList ==
    LET dir == objs[rd.dir].path
    IN  /\ rd.st = "sampled"
        /\ rd' = IF dir \in DOMAIN fs /\ IsDir(dir)
                 THEN [st |-> "listed", dir |-> rd.dir, gen |-> rd.gen, list |-> Children(dir)]
                 ELSE [st |-> "none"]
        /\ UNCHANGED <<fs, kind, objs, caches, gens, op, env>>

\* Mutant: the generation is sampled after the list.
GenNow == Gen(objs[rd.dir].path)

\* The verifier packed with the entries.
Verifier == rd.gen

EnumPack ==
    /\ rd.st = "listed" /\ op = Idle
    /\ SeedIds(rd.list)
    /\ rd' = [st |-> "done", dir |-> rd.dir, gen |-> Verifier,
              list |-> {Last(p) : p \in rd.list}]
    /\ UNCHANGED <<fs, kind, objs, cache, gens, op, env>>

CloseDir ==
    /\ rd.st = "done"
    /\ rd' = [st |-> "none"]
    /\ UNCHANGED <<fs, kind, objs, caches, gens, op, env>>

Next ==
    \/ \E d \in Live, n \in Names :
          \/ \E k \in {"file", "dir"} : CreateItem(d, n, k)
          \/ CreateSymbolicLink(d, n)
          \/ LookupItem(d, n)
          \/ \E i \in Live : RenameStart(i, d, n)
    \/ \E i \in Live : RemoveItem(i)
    \/ \E i \in DOMAIN objs : ReclaimItem(i)
    \/ RenameMove \/ RenameFail \/ Rollback \/ PointVictim \/ DeleteVictim \/ Rekey
    \/ \E d \in Live : EnumSample(d)
    \/ EnumList \/ EnumPack \/ CloseDir

Spec == Init /\ [][Next]_vars

-----------------------------------------------------------------------------
\* Types, with a tree in which every entry's directory exists, generations that
\* dirGen took from the counter, and the stages of a rename and an enumeration.
TypeOK ==
    /\ DOMAIN fs \subseteq AllPaths /\ Root \in DOMAIN fs
    /\ \A p \in DOMAIN fs \ {Root} : fs[p] \in 1 .. Len(kind) /\ Parent(p) \in DOMAIN fs
    /\ DOMAIN objs \subseteq Objs
    /\ genCounter \in 1 .. MaxGen
    /\ \A p \in DOMAIN gen : gen[p] \in 2 .. genCounter
    /\ op.st \in {"idle", "ready", "parked", "moved", "failed", "pointed", "done"}
    /\ rd.st \in {"none", "sampled", "listed", "done"}

\* At rest, itemByPath and idByPath agree with the objects: the object cached
\* under a path carries that path and that path's identifier, identifiers of
\* two paths differ, and no two objects the kernel uses share a path ("one
\* live NTFSItem instance per path").  Not claimed once a rollback has failed.
CachesAgree ==
    op = Idle /\ ~Stranded =>
      /\ \A p \in DOMAIN cache : /\ cache[p] \in DOMAIN objs /\ objs[cache[p]].path = p
                                 /\ p \in DOMAIN ids /\ ids[p] = objs[cache[p]].id
      /\ \A p, q \in DOMAIN ids : ids[p] = ids[q] => p = q
      /\ \A i, j \in Live : objs[i].path = objs[j].path => i = j

\* At rest, every object the kernel uses leads to the file it was handed out
\* for, through any renames of it and of its directories ("the same instance
\* must follow the file to its new name"), unless a rollback has failed.
ItemFollowsFile ==
    op = Idle /\ ~Stranded =>
        \A i \in Live : objs[i].path \in DOMAIN fs /\ fs[objs[i].path] = objs[i].ino

Aliased(i) == /\ objs[i].use # "removed" /\ objs[i].path \in DOMAIN fs
              /\ fs[objs[i].path] # objs[i].ino

\* At no moment of a rename does I/O through an open object reach another
\* file, the victim between the move and the rewriting of its path excepted,
\* and unless a rollback has failed.
HandlesSafe ==
    ~Stranded => \A i \in DOMAIN objs : Aliased(i) => op.st = "moved" /\ op.over = i

\* "never a fresh verifier on a stale entry vector": as long as the verifier
\* that enumerateDirectory returned is the directory's generation, the entries
\* it listed are the entries of the directory.
VerifierFresh ==
    rd.st = "done" /\ op = Idle /\ rd.dir \in Live /\ Gen(objs[rd.dir].path) = rd.gen
    => rd.list = {Last(q) : q \in Children(objs[rd.dir].path)}

\* A file leaves the volume only when the kernel removed an item at its path,
\* or as the parked victim of a rename that has already put the new file in its
\* place; whatever fails on the way, the rollback included ("Replace semantics
\* WITHOUT losing the destination on failure").
FileKept ==
    [][\A p \in DOMAIN fs : (\A q \in DOMAIN fs' : fs'[q] # fs[p]) =>
          \/ op = Idle /\ \E i \in Live : objs[i].path = p /\ objs'[i].use = "removed"
          \/ op.st = "pointed" /\ p = op.park /\ op.new \in DOMAIN fs /\ op.old \notin DOMAIN fs]_vars

\* The tree without the parked names; until the move the victim counts as
\* still having its name.
Visible == LET base == [p \in DOMAIN fs \cap UserPaths |-> fs[p]]
           IN  IF op.st \in {"parked", "failed"} THEN With(base, op.new, fs[op.park]) ELSE base

Abs == INSTANCE NamespaceAbs WITH names <- Visible

\* Directory operations are atomic for who does not see parked names: every
\* step is one of NamespaceAbs or changes nothing.  A rollback that fails shows
\* as the unlinking of the victim.
AtomicNamespace == Abs!Spec
=============================================================================
