---------------------------- MODULE EngineProofs ----------------------------
(***************************************************************************)
(* Proofs about Bridge, for any names, MFT records and sequence numbers:   *)
(* link counts are exact, a file goes only with its last name, and a mark in*)
(* wr[] belongs to one file for as long as that file exists.               *)
(*                                                                         *)
(* Proofs about Engine, for any device, volume and history: an nk_volume   *)
(* between mount and unmount behaves as Bridge, so that its theorems hold of*)
(* it; what a mounted volume offers for offloaded I/O can be mapped; and the*)
(* calls that open and close it leak nothing and free nothing twice.       *)
(***************************************************************************)
EXTENDS Engine, FiniteSetTheorems, TLAPS

\* The default prover and its time; steps with arithmetic, records or sequences cite SMT.
USE ZenonT(40)

Volume == [index : [Names -> 0 .. MaxRecs], recs : [Recs -> Rec]]

\* The link count of record r counts its names and its alias, which goes with
\* one of them.
Counted(v, r) ==
    /\ v.recs[r].links = Cardinality(NamesOf(v, r)) + (IF v.recs[r].alias = NoName THEN 0 ELSE 1)
    /\ v.recs[r].alias \in NamesOf(v, r) \cup {NoName}
AllCounted(v) == \A r \in Recs : Counted(v, r)

-----------------------------------------------------------------------------
\* The names of a record are finitely many.
LEMMA NamesOfFinite ==
    ASSUME NEW v \in Volume, NEW r
    PROVE  /\ NamesOf(v, r) \subseteq Names
           /\ IsFiniteSet(NamesOf(v, r)) /\ Cardinality(NamesOf(v, r)) \in Nat
<1>1. NamesOf(v, r) \in SUBSET Names
  BY DEF NamesOf
<1>2. IsFiniteSet(NamesOf(v, r))
  BY <1>1, BridgeAssumption, FS_Subset DEF BridgeAssumption
<1> QED
  BY <1>1, <1>2, FS_CardinalityType

\* A name of record r is counted, and an alias too.
LEMMA NamedInUse ==
    ASSUME NEW v \in Volume, NEW n \in Names, v.index[n] # 0, AllCounted(v)
    PROVE  /\ v.index[n] \in Recs
           /\ v.recs[v.index[n]].links >= 1
           /\ v.recs[v.index[n]].alias = n => v.recs[v.index[n]].links >= 2
           /\ \A m \in Names : m # n /\ v.index[m] = v.index[n] => v.recs[v.index[n]].links >= 2
           /\ LinksLeft(v, n) \in Nat
           /\ LinksLeft(v, n) = 0 => NamesOf(v, v.index[n]) = {n}
           /\ v.recs[v.index[n]].links <= 1 => LinksLeft(v, n) = 0
<1> DEFINE r == v.index[n]
           S == NamesOf(v, r)
<1>1. r \in Recs
  BY BridgeAssumption, SMTT(40) DEF Volume, Recs, BridgeAssumption
<1>2. n \in S /\ S \subseteq Names /\ IsFiniteSet(S) /\ Cardinality(S) \in Nat
  BY NamesOfFinite DEF NamesOf
<1>3. Cardinality(S) >= 1
  BY <1>2, FS_EmptySet, SMTT(40)
<1>4. Cardinality(S) = 1 => S = {n}
  BY <1>2, FS_Singleton, SMTT(40)
<1>5. \A m \in S : m # n => Cardinality(S) >= 2
  BY <1>2, <1>3, <1>4, SMTT(40)
<1>6. Counted(v, r)
  BY <1>1 DEF AllCounted
<1>7. n # NoName
  BY BridgeAssumption DEF BridgeAssumption
<1>8. v.recs[r].links \in Nat
  BY <1>1 DEF Volume, Rec
<1>9. \A m \in Names : m # n /\ v.index[m] = r => Cardinality(S) >= 2
  BY <1>5 DEF NamesOf
<1>10. v.recs[r].alias = n \/ v.recs[r].alias = NoName \/ (v.recs[r].alias # n /\ Cardinality(S) >= 2)
  BY <1>5, <1>6 DEF Counted
<1>11. LinksLeft(v, n) = v.recs[r].links - (IF v.recs[r].alias = n THEN 2 ELSE 1)
  BY DEF LinksLeft
<1>12. v.recs[r].links = Cardinality(S) + (IF v.recs[r].alias = NoName THEN 0 ELSE 1)
  BY <1>6 DEF Counted
<1> HIDE DEF r, S
<1>13. /\ v.recs[r].links >= 1
       /\ v.recs[r].alias = n => v.recs[r].links >= 2
       /\ Cardinality(S) >= 2 => v.recs[r].links >= 2
       /\ LinksLeft(v, n) \in Nat
       /\ LinksLeft(v, n) = 0 => Cardinality(S) = 1
       /\ v.recs[r].links <= 1 => LinksLeft(v, n) = 0
  BY <1>2, <1>3, <1>7, <1>10, <1>11, <1>12, SMTT(40)
<1> QED
  BY <1>1, <1>4, <1>9, <1>13 DEF r, S

\* ntfs_create keeps the counts exact.
LEMMA CreateCounted ==
    ASSUME NEW v \in Volume, NEW n \in Names, NEW r \in Recs, AllCounted(v),
           v.index[n] = 0, v.recs[r].links = 0
    PROVE  /\ NtfsCreate(v, n, r) \in Volume
           /\ AllCounted(NtfsCreate(v, n, r))
<1> DEFINE w == NtfsCreate(v, n, r)
<1>1. w \in Volume
  <2>1. [v.index EXCEPT ![n] = r] \in [Names -> 0 .. MaxRecs]
    BY SMTT(40) DEF Volume, Recs
  <2>2. [v.recs[r] EXCEPT !.links = 1] \in Rec
    BY DEF Volume, Rec
  <2> QED
    BY <2>1, <2>2 DEF NtfsCreate, Volume
<1>2. NamesOf(v, r) = {} /\ v.recs[r].alias = NoName
  BY NamesOfFinite, FS_EmptySet, SMTT(40) DEF AllCounted, Counted, Volume
<1>3. NamesOf(w, r) = {n} /\ w.recs[r].links = 1 /\ w.recs[r].alias = NoName
  BY <1>2 DEF NtfsCreate, NamesOf, Volume, Rec
<1>4. ASSUME NEW q \in Recs, q # r
      PROVE  NamesOf(w, q) = NamesOf(v, q) /\ w.recs[q] = v.recs[q]
  BY <1>4, BridgeAssumption, SMTT(40) DEF NtfsCreate, NamesOf, Volume, Recs, BridgeAssumption
<1>5. Counted(w, r)
  <2>1. Cardinality(NamesOf(w, r)) = 1
    BY <1>3, FS_Singleton
  <2> HIDE DEF w
  <2> QED
    BY <1>3, <2>1, SMTT(40) DEF Counted
<1>6. ASSUME NEW q \in Recs, q # r PROVE Counted(w, q)
  BY <1>4, <1>6 DEF Counted, AllCounted
<1> QED
  BY <1>1, <1>5, <1>6 DEF AllCounted

\* ntfs_link keeps the counts exact.
LEMMA LinkCounted ==
    ASSUME NEW v \in Volume, NEW n \in Names, NEW r \in Recs, AllCounted(v),
           v.index[n] = 0
    PROVE  /\ NtfsLink(v, n, r) \in Volume
           /\ AllCounted(NtfsLink(v, n, r))
<1> DEFINE w == NtfsLink(v, n, r)
<1>1. w \in Volume
  <2>1. [v.index EXCEPT ![n] = r] \in [Names -> 0 .. MaxRecs]
    BY SMTT(40) DEF Volume, Recs
  <2>2. v.recs[r] \in Rec /\ v.recs[r].links + 1 \in Nat
    BY SMTT(40) DEF Volume, Rec
  <2>3. [v.recs[r] EXCEPT !.links = v.recs[r].links + 1] \in Rec
    BY <2>2 DEF Rec
  <2> QED
    BY <2>1, <2>3 DEF NtfsLink, Volume
<1>2. NamesOf(w, r) = NamesOf(v, r) \cup {n} /\ n \notin NamesOf(v, r)
  BY SMTT(40) DEF NtfsLink, NamesOf, Volume, Recs
<1>3. w.recs[r].links = v.recs[r].links + 1 /\ w.recs[r].alias = v.recs[r].alias
  BY DEF NtfsLink, Volume, Rec
<1>4. ASSUME NEW q \in Recs, q # r
      PROVE  NamesOf(w, q) = NamesOf(v, q) /\ w.recs[q] = v.recs[q]
  BY <1>4, SMTT(40) DEF NtfsLink, NamesOf, Volume, Recs
<1>5. Cardinality(NamesOf(w, r)) = Cardinality(NamesOf(v, r)) + 1
  BY <1>2, NamesOfFinite, FS_AddElement
<1>6. Counted(v, r) /\ Cardinality(NamesOf(v, r)) \in Nat
  BY NamesOfFinite DEF AllCounted
<1>7. Counted(w, r)
  BY <1>2, <1>3, <1>5, <1>6, SMTT(40) DEF Counted
<1>8. ASSUME NEW q \in Recs, q # r PROVE Counted(w, q)
  BY <1>4, <1>8 DEF Counted, AllCounted
<1> QED
  BY <1>1, <1>7, <1>8 DEF AllCounted

\* ntfs_delete keeps the counts exact, and frees a record only with its last
\* name; the other records are left alone.
LEMMA DeleteCounted ==
    ASSUME NEW v \in Volume, NEW n \in Names, AllCounted(v),
           v.index[n] # 0, MayDelete(v, n)
    PROVE  LET w == NtfsDelete(v, n)
               r == v.index[n]
           IN  /\ w \in Volume
               /\ AllCounted(w)
               /\ \A q \in Recs : q # r => w.recs[q] = v.recs[q]
               /\ w.index = [v.index EXCEPT ![n] = 0]
               /\ LinksLeft(v, n) = 0 => w.recs[r].seq = v.recs[r].seq + 1 /\ w.recs[r].links = 0
                                         /\ w.recs[r].strm = {}
               /\ LinksLeft(v, n) # 0 => w.recs[r].seq = v.recs[r].seq /\ w.recs[r].links # 0
                                         /\ w.recs[r].strm = v.recs[r].strm
<1> DEFINE w == NtfsDelete(v, n)
           r == v.index[n]
           L == LinksLeft(v, n)
           new == IF L = 0 THEN Free(v.recs[r].seq + 1)
                  ELSE [v.recs[r] EXCEPT !.links = L,
                           !.alias = IF v.recs[r].alias = n THEN NoName ELSE v.recs[r].alias]
<1>1. /\ r \in Recs /\ L \in Nat
      /\ L = 0 => NamesOf(v, r) = {n}
  BY NamedInUse
<1>2. v.recs[r] \in Rec /\ v.recs[r].seq + 1 \in 1 .. MaxSeq
  BY <1>1, BridgeAssumption, SMTT(40) DEF Volume, MayDelete, Rec, BridgeAssumption
<1>3. new \in Rec
  <2>1. CASE L = 0
    BY <1>2, <2>1 DEF Free, Rec, NoStream
  <2>2. CASE L # 0
    BY <1>1, <1>2, <2>2 DEF Rec
  <2> QED
    BY <2>1, <2>2
<1>4. w = [index |-> [v.index EXCEPT ![n] = 0], recs |-> [v.recs EXCEPT ![r] = new]]
  BY DEF NtfsDelete
<1>5. [v.index EXCEPT ![n] = 0] \in [Names -> 0 .. MaxRecs]
  BY BridgeAssumption, SMTT(40) DEF Volume, BridgeAssumption
<1> HIDE DEF w, new
<1>6. w \in Volume /\ w.recs[r] = new
  BY <1>1, <1>3, <1>4, <1>5 DEF Volume
<1>7. ASSUME NEW q \in Recs, q # r
      PROVE  NamesOf(w, q) = NamesOf(v, q) /\ w.recs[q] = v.recs[q]
  BY <1>4, <1>7, SMTT(40) DEF NamesOf, Volume, Recs
<1>8. NamesOf(w, r) = NamesOf(v, r) \ {n} /\ n \in NamesOf(v, r)
  BY <1>1, <1>4 DEF NamesOf, Volume, Recs
<1>9. Cardinality(NamesOf(w, r)) = Cardinality(NamesOf(v, r)) - 1
  <2>1. IsFiniteSet(NamesOf(v, r))
    BY NamesOfFinite
  <2> QED
    BY <1>8, <2>1, FS_RemoveElement
<1>10. Counted(w, r)
  <2>1. CASE L = 0
    <3>1. NamesOf(w, r) = {} /\ new.alias = NoName /\ new.links = 0
      BY <1>1, <1>8, <2>1 DEF Free, new
        <3> QED
      BY <3>1, <1>6, FS_EmptySet, SMTT(40) DEF Counted
  <2>2. CASE L # 0
    <3>1. /\ new.links = L
          /\ new.alias = IF v.recs[r].alias = n THEN NoName ELSE v.recs[r].alias
      BY <1>2, <2>2 DEF Rec, new
    <3>2. L = v.recs[r].links - (IF v.recs[r].alias = n THEN 2 ELSE 1)
      BY DEF LinksLeft
    <3>3. Counted(v, r) /\ Cardinality(NamesOf(v, r)) \in Nat
      BY <1>1, NamesOfFinite DEF AllCounted
    <3>4. n # NoName
      BY BridgeAssumption DEF BridgeAssumption
    <3> HIDE DEF L, r
    <3> QED
      BY <1>6, <1>8, <1>9, <3>1, <3>2, <3>3, <3>4, SMTT(40) DEF Counted
  <2> QED
    BY <2>1, <2>2
<1>11. ASSUME NEW q \in Recs, q # r PROVE Counted(w, q)
  BY <1>7, <1>11 DEF Counted, AllCounted
<1>12. AllCounted(w)
  BY <1>10, <1>11 DEF AllCounted
<1>13. /\ L = 0 => new.seq = v.recs[r].seq + 1 /\ new.links = 0 /\ new.strm = {}
       /\ L # 0 => new.seq = v.recs[r].seq /\ new.links # 0 /\ new.strm = v.recs[r].strm
  BY <1>1, <1>2 DEF Free, NoStream, Rec, new
<1> QED
  BY <1>4, <1>6, <1>7, <1>12, <1>13, SMTT(40) DEF w

-----------------------------------------------------------------------------
(* The table.                                                               *)

Distinct(w) == \A i, j \in 1 .. Len(w) : w[i] = w[j] => i = j

\* wr_set adds the entry and nothing else.
LEMMA WrSetOK ==
    ASSUME NEW T, NEW w \in Seq(T), NEW m \in T, Distinct(w)
    PROVE  /\ WrSet(w, m) \in Seq(T) /\ Distinct(WrSet(w, m))
           /\ \A x : Marked(WrSet(w, m), x) <=> Marked(w, x) \/ x = m
<1>1. CASE Marked(w, m)
  BY <1>1 DEF WrSet, Marked
<1>2. CASE ~Marked(w, m)
  <2>1. /\ WrSet(w, m) \in Seq(T) /\ Len(WrSet(w, m)) = Len(w) + 1
        /\ \A i \in 1 .. Len(w) : WrSet(w, m)[i] = w[i]
        /\ WrSet(w, m)[Len(w) + 1] = m
    BY <1>2, SMTT(40) DEF WrSet
  <2>2. Len(w) \in Nat
    BY SMTT(40)
  <2> QED
    BY <1>2, <2>1, <2>2, SMTT(40) DEF Marked, Distinct
<1> QED
  BY <1>1, <1>2

\* wr_drop takes the entry out and nothing else, though the last one moves.
LEMMA WrDropOK ==
    ASSUME NEW T, NEW w \in Seq(T), NEW m, Distinct(w)
    PROVE  /\ WrDrop(w, m) \in Seq(T) /\ Distinct(WrDrop(w, m))
           /\ \A x : Marked(WrDrop(w, m), x) <=> Marked(w, x) /\ x # m
<1>1. CASE ~Marked(w, m)
  BY <1>1 DEF WrDrop, Marked
<1>2. CASE Marked(w, m)
  <2> DEFINE at == CHOOSE i \in 1 .. Len(w) : w[i] = m
             d == [i \in 1 .. Len(w) - 1 |-> IF i = at THEN w[Len(w)] ELSE w[i]]
  <2>1. at \in 1 .. Len(w) /\ w[at] = m
    BY <1>2 DEF Marked
  <2>2. WrDrop(w, m) = d
    BY <1>2 DEF WrDrop
  <2>3. Len(w) \in Nat /\ Len(w) >= 1
    BY <2>1, SMTT(40)
  <2> HIDE DEF at
  <2>4. d \in Seq(T) /\ Len(d) = Len(w) - 1
    BY <2>1, <2>3, SMTT(40)
  <2>5. \A i \in 1 .. Len(w) - 1 : d[i] = IF i = at THEN w[Len(w)] ELSE w[i]
    OBVIOUS
  <2> HIDE DEF d
  <2>6. Distinct(d)
    BY <2>1, <2>3, <2>4, <2>5, SMTT(40) DEF Distinct
  <2>7. ASSUME NEW x, Marked(d, x) PROVE Marked(w, x) /\ x # m
    BY <2>1, <2>3, <2>4, <2>5, <2>7, SMTT(40) DEF Distinct, Marked
  <2>8. ASSUME NEW x, Marked(w, x), x # m PROVE Marked(d, x)
    <3>1. PICK i \in 1 .. Len(w) : w[i] = x
      BY <2>8 DEF Marked
    <3>2. CASE i = Len(w)
      BY <2>1, <2>3, <2>4, <2>5, <2>8, <3>1, <3>2, SMTT(40) DEF Marked
    <3>3. CASE i # Len(w)
      BY <2>1, <2>3, <2>4, <2>5, <2>8, <3>1, <3>3, SMTT(40) DEF Marked
    <3> QED
      BY <3>2, <3>3
  <2> QED
    BY <2>2, <2>4, <2>6, <2>7, <2>8
<1> QED
  BY <1>1, <1>2

-----------------------------------------------------------------------------
(* The inductive invariant.                                                 *)

Refs == Recs \X (1 .. MaxSeq)

\* Every entry of wr[] is of a file that was once in its record, and of none
\* that is still to come.
MarksPast(v, w) ==
    \A r \in Recs, s \in 1 .. MaxSeq :
        Marked(w, <<r, s>>) => /\ s <= v.recs[r].seq
                               /\ v.recs[r].links = 0 => s # v.recs[r].seq

\* A rename in progress: until the old name is deleted the file has both.
Renaming ==
    \/ op = NoOp
    \/ /\ op \in [st : {"linked", "rollback"}, old : Names, new : Names, gone : BOOLEAN]
       /\ op.old # op.new /\ ntfs.index[op.new] # 0
       /\ op.st = "linked" \/ ~op.gone => ntfs.index[op.old] = ntfs.index[op.new]

NoZeros(v) == \A r \in Recs : v.recs[r].strm \subseteq Seq(Nat \ {0})

VolumeOK(v) == v \in Volume /\ AllCounted(v) /\ NoZeros(v)
TableOK(w) == w \in Seq(Refs) /\ Distinct(w)

\* The table y has no entry that w has not.
Fewer(y, w) == \A m : Marked(y, m) => Marked(w, m)

BridgeInv == VolumeOK(ntfs) /\ TableOK(wr) /\ MarksPast(ntfs, wr) /\ Renaming

\* The invariant holds on a fresh volume.
LEMMA InvInit == BridgeInit => BridgeInv
<1> SUFFICES ASSUME BridgeInit PROVE BridgeInv
  OBVIOUS
<1>1. PICK S \in SUBSET Names, a \in Names \cup {NoName} :
        /\ S # {} /\ a \in S \cup {NoName}
        /\ ntfs = [index |-> [n \in Names |-> IF n \in S THEN 1 ELSE 0],
                   recs  |-> [r \in Recs |->
                       IF r = 1
                       THEN [seq |-> 1, links |-> Cardinality(S) + (IF a = NoName THEN 0 ELSE 1),
                             alias |-> a, strm |-> NoStream]
                       ELSE Free(1)]]
  BY DEF BridgeInit
<1>2. IsFiniteSet(S) /\ Cardinality(S) \in Nat
  BY BridgeAssumption, FS_Subset, FS_CardinalityType DEF BridgeAssumption
<1> DEFINE one == [seq |-> 1, links |-> Cardinality(S) + (IF a = NoName THEN 0 ELSE 1),
                   alias |-> a, strm |-> NoStream]
<1>3. ntfs.recs[1] = one /\ \A r \in Recs : r # 1 => ntfs.recs[r] = Free(1)
  BY <1>1, BridgeAssumption, SMTT(40) DEF Recs, BridgeAssumption
<1>4. one \in Rec /\ Free(1) \in Rec
  BY <1>2, BridgeAssumption, SMTT(40) DEF Rec, Free, NoStream, BridgeAssumption
<1>5. ntfs \in Volume
  <2>1. ntfs.index \in [Names -> 0 .. MaxRecs] /\ DOMAIN ntfs.recs = Recs
        /\ ntfs = [index |-> ntfs.index, recs |-> ntfs.recs]
        /\ ntfs.recs = [r \in Recs |-> ntfs.recs[r]]
    BY <1>1, BridgeAssumption, SMTT(40) DEF BridgeAssumption
  <2>2. \A r \in Recs : ntfs.recs[r] \in Rec
    BY <1>3, <1>4
  <2>3. ntfs.recs \in [Recs -> Rec]
    BY <2>1, <2>2
  <2> QED
    BY <2>1, <2>3 DEF Volume
<1>6. NamesOf(ntfs, 1) = S /\ \A r \in Recs : r # 1 => NamesOf(ntfs, r) = {}
  BY <1>1, SMTT(40) DEF NamesOf, Recs
<1>7. AllCounted(ntfs)
  <2>1. Counted(ntfs, 1)
    <3>1. ntfs.recs[1].links = Cardinality(S) + (IF a = NoName THEN 0 ELSE 1)
          /\ ntfs.recs[1].alias = a
      BY <1>3, SMTT(40)
    <3> QED
      BY <1>1, <1>6, <3>1 DEF Counted
  <2>2. ASSUME NEW r \in Recs, r # 1 PROVE Counted(ntfs, r)
    <3>1. ntfs.recs[r].links = 0 /\ ntfs.recs[r].alias = NoName
      BY <1>3, <2>2, SMTT(40) DEF Free
    <3> QED
      BY <1>6, <2>2, <3>1, FS_EmptySet, SMTT(40) DEF Counted
  <2> QED
    BY <2>1, <2>2 DEF AllCounted
<1>8. NoZeros(ntfs)
  BY <1>3, SMTT(40) DEF NoZeros, Free, NoStream
<1>9. TableOK(wr) /\ \A x : ~Marked(wr, x)
  BY SMTT(40) DEF BridgeInit, TableOK, Distinct, Marked
<1> QED
  BY <1>5, <1>7, <1>8, <1>9 DEF BridgeInit, BridgeInv, VolumeOK, MarksPast, Renaming

-----------------------------------------------------------------------------
(* The steps.                                                               *)

\* Entries stay past when some of them go, and the records do not change.
LEMMA MarksFewer ==
    ASSUME NEW v, NEW x, NEW w, NEW y, MarksPast(v, w),
           \A r \in Recs : x.recs[r].seq = v.recs[r].seq /\ x.recs[r].links = v.recs[r].links,
           Fewer(y, w)
    PROVE  MarksPast(x, y)
BY DEF MarksPast, Fewer

\* What ntfs_delete does to the invariant, and to the files.
LEMMA DeleteOK ==
    ASSUME NEW v, NEW w, NEW y, VolumeOK(v), MarksPast(v, w), NEW n \in Names,
           v.index[n] # 0, MayDelete(v, n), Fewer(y, w)
    PROVE  LET x == NtfsDelete(v, n)
           IN  /\ VolumeOK(x) /\ MarksPast(x, y)
               /\ \A m \in Names : m # n => x.index[m] = v.index[m]
               /\ \A r \in Recs : x.recs[r].seq # v.recs[r].seq =>
                      r = v.index[n] /\ NamesOf(v, r) = {n}
               /\ \A r \in Recs : x.recs[r].strm # v.recs[r].strm => x.recs[r].seq # v.recs[r].seq
               /\ v.recs[v.index[n]].links <= 1 =>
                      x.recs[v.index[n]].seq # v.recs[v.index[n]].seq
<1> DEFINE x == NtfsDelete(v, n)
           r == v.index[n]
<1>1. v \in Volume /\ AllCounted(v) /\ NoZeros(v)
  BY DEF VolumeOK
<1>2. /\ x \in Volume /\ AllCounted(x)
      /\ \A q \in Recs : q # r => x.recs[q] = v.recs[q]
      /\ x.index = [v.index EXCEPT ![n] = 0]
      /\ LinksLeft(v, n) = 0 => x.recs[r].seq = v.recs[r].seq + 1 /\ x.recs[r].links = 0
                                /\ x.recs[r].strm = {}
      /\ LinksLeft(v, n) # 0 => x.recs[r].seq = v.recs[r].seq /\ x.recs[r].links # 0
                                /\ x.recs[r].strm = v.recs[r].strm
  BY <1>1, DeleteCounted
<1>3. /\ r \in Recs
      /\ LinksLeft(v, n) = 0 => NamesOf(v, r) = {n}
      /\ v.recs[r].links <= 1 => LinksLeft(v, n) = 0
  BY <1>1, NamedInUse
<1>4. \A q \in Recs : v.recs[q].seq \in Nat
  BY <1>1, SMTT(40) DEF Volume, Rec
<1> HIDE DEF x
<1>5. NoZeros(x)
  BY <1>1, <1>2 DEF NoZeros
<1>6. MarksPast(x, y)
  <2>1. SUFFICES ASSUME NEW q \in Recs, NEW s \in 1 .. MaxSeq, Marked(w, <<q, s>>)
                 PROVE  s <= x.recs[q].seq /\ (x.recs[q].links = 0 => s # x.recs[q].seq)
    BY DEF MarksPast, Fewer
  <2>2. s <= v.recs[q].seq /\ (v.recs[q].links = 0 => s # v.recs[q].seq)
    BY <2>1 DEF MarksPast
  <2> QED
    BY <1>2, <1>3, <1>4, <2>2, SMTT(40)
<1>7. \A m \in Names : m # n => x.index[m] = v.index[m]
  BY <1>1, <1>2 DEF Volume
<1>8. \A q \in Recs : x.recs[q].seq # v.recs[q].seq => q = r /\ NamesOf(v, q) = {n}
  BY <1>2, <1>3
<1>9. \A q \in Recs : x.recs[q].strm # v.recs[q].strm => x.recs[q].seq # v.recs[q].seq
  BY <1>2, <1>3, <1>4, SMTT(40)
<1>10. v.recs[r].links <= 1 => x.recs[r].seq # v.recs[r].seq
  BY <1>2, <1>3, <1>4, SMTT(40)
<1> QED
  BY <1>1, <1>2, <1>5, <1>6, <1>7, <1>8, <1>9, <1>10 DEF VolumeOK, x

\* nk_delete on the volume and on the table.
LEMMA DeletedOK ==
    ASSUME BridgeInv, NEW n \in Names, ntfs.index[n] # 0, NEW o \in Outcomes, Deleted(n, o)
    PROVE  /\ VolumeOK(ntfs') /\ TableOK(wr') /\ MarksPast(ntfs', wr')
           /\ \A m \in Names : m # n => ntfs'.index[m] = ntfs.index[m]
           /\ o = "fail" => ntfs' = ntfs
           /\ \A r \in Recs : ntfs'.recs[r].seq # ntfs.recs[r].seq => NamesOf(ntfs, r) = {n}
           /\ \A r \in Recs : ntfs'.recs[r].strm # ntfs.recs[r].strm =>
                  ntfs'.recs[r].seq # ntfs.recs[r].seq
           /\ \A r \in Recs :
                  Marked(wr, MkMref(r, ntfs)) /\ ~Marked(wr', MkMref(r, ntfs)) =>
                  ntfs'.recs[r].seq # ntfs.recs[r].seq
<1>1. VolumeOK(ntfs) /\ TableOK(wr) /\ MarksPast(ntfs, wr)
  BY DEF BridgeInv
<1>3. /\ TableOK(WrDrop(wr, NkMref(n)))
      /\ \A m : Marked(WrDrop(wr, NkMref(n)), m) <=> Marked(wr, m) /\ m # NkMref(n)
  BY <1>1, WrDropOK DEF TableOK
<1>4. TableOK(wr') /\ Fewer(wr', wr)
  BY <1>1, <1>3 DEF Deleted, Fewer
<1>5. CASE o = "fail"
  <2>1. ntfs' = ntfs /\ wr' = wr
    BY <1>5 DEF Deleted
  <2> QED
    BY <1>1, <1>5, <2>1
<1>6. CASE o # "fail"
  <2>1. ntfs' = NtfsDelete(ntfs, n) /\ MayDelete(ntfs, n)
    BY <1>6 DEF Deleted
  <2>2. /\ VolumeOK(ntfs') /\ MarksPast(ntfs', wr')
        /\ \A m \in Names : m # n => ntfs'.index[m] = ntfs.index[m]
        /\ \A r \in Recs : ntfs'.recs[r].seq # ntfs.recs[r].seq => NamesOf(ntfs, r) = {n}
        /\ \A r \in Recs : ntfs'.recs[r].strm # ntfs.recs[r].strm =>
               ntfs'.recs[r].seq # ntfs.recs[r].seq
        /\ ntfs.recs[ntfs.index[n]].links <= 1 =>
               ntfs'.recs[ntfs.index[n]].seq # ntfs.recs[ntfs.index[n]].seq
    <3>1. LET x == NtfsDelete(ntfs, n)
          IN  /\ VolumeOK(x) /\ MarksPast(x, wr')
              /\ \A m \in Names : m # n => x.index[m] = ntfs.index[m]
              /\ \A r \in Recs : x.recs[r].seq # ntfs.recs[r].seq =>
                     r = ntfs.index[n] /\ NamesOf(ntfs, r) = {n}
              /\ \A r \in Recs : x.recs[r].strm # ntfs.recs[r].strm =>
                     x.recs[r].seq # ntfs.recs[r].seq
              /\ ntfs.recs[ntfs.index[n]].links <= 1 =>
                     x.recs[ntfs.index[n]].seq # ntfs.recs[ntfs.index[n]].seq
      BY <1>1, <1>4, <2>1, DeleteOK, SMTT(40)
    <3> QED
      BY <2>1, <3>1
  <2>3. ASSUME NEW r \in Recs, Marked(wr, MkMref(r, ntfs)), ~Marked(wr', MkMref(r, ntfs))
        PROVE  ntfs'.recs[r].seq # ntfs.recs[r].seq
    <3>1. LastName(n) /\ MkMref(r, ntfs) = NkMref(n)
      BY <1>3, <2>3 DEF Deleted
    <3>2. r = ntfs.index[n]
      BY <3>1 DEF NkMref, MkMref
    <3> QED
      BY <2>2, <3>1, <3>2 DEF LastName
  <2> QED
    BY <1>4, <1>6, <2>2, <2>3
<1> QED
  BY <1>5, <1>6

\* The files stay: no record goes to another file, and no stream is changed.
SameFiles == \A r \in Recs : /\ ntfs'.recs[r].seq = ntfs.recs[r].seq
                             /\ ntfs'.recs[r].strm = ntfs.recs[r].strm

\* nk_create keeps the invariant and the files there are.
LEMMA CreateStep ==
    ASSUME BridgeInv, NEW n \in Names, NEW r \in Recs, NkCreate(n, r)
    PROVE  BridgeInv' /\ SameFiles
<1>1. /\ ntfs' = NtfsCreate(ntfs, n, r) /\ ntfs.index[n] = 0 /\ ntfs.recs[r].links = 0
      /\ wr' = wr /\ op' = NoOp /\ op = NoOp
  BY DEF NkCreate
<1>2. ntfs \in Volume /\ AllCounted(ntfs) /\ NoZeros(ntfs)
  BY DEF BridgeInv, VolumeOK
<1>3. ntfs' \in Volume /\ AllCounted(ntfs')
  BY <1>1, <1>2, CreateCounted
<1>4. \A q \in Recs : /\ ntfs'.recs[q].seq = ntfs.recs[q].seq
                      /\ ntfs'.recs[q].strm = ntfs.recs[q].strm
                      /\ ntfs'.recs[q].links = 0 => ntfs.recs[q].links = 0
  BY <1>1, <1>2 DEF NtfsCreate, Volume, Rec
<1>5. NoZeros(ntfs') /\ MarksPast(ntfs', wr')
  BY <1>1, <1>2, <1>4 DEF NoZeros, MarksPast, BridgeInv
<1> QED
  BY <1>1, <1>3, <1>4, <1>5 DEF BridgeInv, VolumeOK, TableOK, Distinct, Renaming, SameFiles

\* So does the linking of the new name in nk_rename.
LEMMA LinkStep ==
    ASSUME BridgeInv, NEW old \in Names, NEW new \in Names, RenameLink(old, new)
    PROVE  BridgeInv' /\ SameFiles /\ wr' = wr
<1> DEFINE r == ntfs.index[old]
<1>1. /\ ntfs' = NtfsLink(ntfs, new, r) /\ ntfs.index[new] = 0 /\ r # 0
      /\ wr' = wr /\ op' = [st |-> "linked", old |-> old, new |-> new, gone |-> FALSE]
  BY DEF RenameLink, Here
<1>2. ntfs \in Volume /\ AllCounted(ntfs) /\ NoZeros(ntfs)
  BY DEF BridgeInv, VolumeOK
<1>3. r \in Recs
  BY <1>1, <1>2, NamedInUse
<1>4. ntfs' \in Volume /\ AllCounted(ntfs')
  BY <1>1, <1>2, <1>3, LinkCounted
<1>5. \A q \in Recs : ntfs.recs[q].links \in Nat
  BY <1>2 DEF Volume, Rec
<1>6. \A q \in Recs : /\ ntfs'.recs[q].seq = ntfs.recs[q].seq
                      /\ ntfs'.recs[q].strm = ntfs.recs[q].strm
                      /\ ntfs'.recs[q].links = 0 => ntfs.recs[q].links = 0
  BY <1>1, <1>2, <1>3, <1>5, SMTT(40) DEF NtfsLink, Volume, Rec
<1>7. NoZeros(ntfs') /\ MarksPast(ntfs', wr')
  BY <1>1, <1>2, <1>6 DEF NoZeros, MarksPast, BridgeInv
<1>8. ntfs'.index[new] = r /\ ntfs'.index[old] = r /\ old # new
  BY <1>1, <1>2 DEF NtfsLink, Volume
<1>9. Renaming'
  BY <1>1, <1>8 DEF Renaming
<1> QED
  BY <1>1, <1>4, <1>6, <1>7, <1>9 DEF BridgeInv, VolumeOK, TableOK, Distinct, SameFiles

\* nk_delete keeps the invariant.
LEMMA DeleteStep ==
    ASSUME BridgeInv, NEW n \in Names, NkDelete(n)
    PROVE  BridgeInv'
<1>1. PICK o \in Outcomes : Deleted(n, o)
  BY DEF NkDelete
<1>2. ntfs.index[n] # 0 /\ op = NoOp /\ op' = op
  BY DEF NkDelete, Here
<1>3. VolumeOK(ntfs') /\ TableOK(wr') /\ MarksPast(ntfs', wr')
  BY <1>1, <1>2, DeletedOK
<1> QED
  BY <1>2, <1>3 DEF BridgeInv, Renaming

\* While a rename has linked and not deleted, its file has two names: deleting
\* the old one takes neither the file nor its mark.
LEMMA RenameDeleteStep ==
    ASSUME BridgeInv, RenameDelete
    PROVE  BridgeInv' /\ SameFiles
           /\ \A r \in Recs : Marked(wr, MkMref(r, ntfs)) => Marked(wr', MkMref(r, ntfs))
<1>1. PICK o \in Outcomes : /\ Deleted(op.old, o)
                            /\ op' = IF o = "ok" THEN NoOp
                                     ELSE [op EXCEPT !.st = "rollback", !.gone = (o = "late")]
  BY DEF RenameDelete
<1>2. /\ op.st = "linked"
      /\ op \in [st : {"linked", "rollback"}, old : Names, new : Names, gone : BOOLEAN]
      /\ op.old \in Names /\ op.new \in Names /\ op.old # op.new
      /\ ntfs.index[op.new] # 0 /\ ntfs.index[op.old] = ntfs.index[op.new]
  BY SMTT(40) DEF RenameDelete, BridgeInv, Renaming, NoOp
<1>3. /\ VolumeOK(ntfs') /\ TableOK(wr') /\ MarksPast(ntfs', wr')
      /\ \A m \in Names : m # op.old => ntfs'.index[m] = ntfs.index[m]
      /\ o = "fail" => ntfs' = ntfs
      /\ \A r \in Recs : ntfs'.recs[r].seq # ntfs.recs[r].seq => NamesOf(ntfs, r) = {op.old}
      /\ \A r \in Recs : ntfs'.recs[r].strm # ntfs.recs[r].strm =>
             ntfs'.recs[r].seq # ntfs.recs[r].seq
      /\ \A r \in Recs :
             Marked(wr, MkMref(r, ntfs)) /\ ~Marked(wr', MkMref(r, ntfs)) =>
             ntfs'.recs[r].seq # ntfs.recs[r].seq
  BY <1>1, <1>2, DeletedOK
<1>4. \A r \in Recs : NamesOf(ntfs, r) # {op.old}
  BY <1>2 DEF NamesOf
<1>5. SameFiles
  BY <1>3, <1>4 DEF SameFiles
<1>6. CASE o = "ok"
  BY <1>1, <1>3, <1>4, <1>5, <1>6 DEF BridgeInv, Renaming
<1>7. CASE o # "ok"
  <2>1. /\ op' \in [st : {"linked", "rollback"}, old : Names, new : Names, gone : BOOLEAN]
        /\ op'.st = "rollback" /\ op'.old = op.old /\ op'.new = op.new
    BY <1>1, <1>2, <1>7
  <2>2. ~op'.gone => o = "fail"
    <3>1. op'.gone = (o = "late")
      BY <1>1, <1>2, <1>7
    <3> QED
      BY <1>7, <3>1 DEF Outcomes
  <2>3. Renaming'
    BY <1>2, <1>3, <2>1, <2>2 DEF Renaming
  <2> QED
    BY <1>3, <1>4, <1>5, <2>3 DEF BridgeInv
<1> QED
  BY <1>6, <1>7

\* The rollback of nk_rename frees a file only if the old name is gone.
LEMMA RollbackStep ==
    ASSUME BridgeInv, RenameRollback
    PROVE  /\ BridgeInv' /\ wr' = wr
           /\ \A r \in Recs : ntfs'.recs[r].seq # ntfs.recs[r].seq =>
                  op.gone /\ NamesOf(ntfs, r) = {op.new}
           /\ \A r \in Recs : ntfs'.recs[r].strm # ntfs.recs[r].strm =>
                  ntfs'.recs[r].seq # ntfs.recs[r].seq
<1>1. PICK o \in Outcomes :
        ntfs' = IF o # "fail" THEN NtfsDelete(ntfs, op.new) ELSE ntfs
  BY DEF RenameRollback
<1>2. wr' = wr /\ op' = NoOp /\ MayDelete(ntfs, op.new) /\ op.st = "rollback"
  BY DEF RenameRollback
<1>3. /\ op.old \in Names /\ op.new \in Names /\ op.old # op.new /\ ntfs.index[op.new] # 0
      /\ ~op.gone => ntfs.index[op.old] = ntfs.index[op.new]
  BY <1>2, SMTT(40) DEF BridgeInv, Renaming, NoOp
<1>4. VolumeOK(ntfs) /\ TableOK(wr) /\ MarksPast(ntfs, wr) /\ Fewer(wr, wr)
  BY DEF BridgeInv, Fewer
<1>5. CASE o = "fail"
  <2>1. ntfs' = ntfs
    BY <1>1, <1>5
  <2> QED
    BY <1>2, <1>4, <2>1 DEF BridgeInv, Renaming
<1>6. CASE o # "fail"
  <2> DEFINE x == NtfsDelete(ntfs, op.new)
  <2>1. /\ VolumeOK(x) /\ MarksPast(x, wr)
        /\ \A r \in Recs : x.recs[r].seq # ntfs.recs[r].seq =>
               r = ntfs.index[op.new] /\ NamesOf(ntfs, r) = {op.new}
        /\ \A r \in Recs : x.recs[r].strm # ntfs.recs[r].strm => x.recs[r].seq # ntfs.recs[r].seq
    BY <1>2, <1>3, <1>4, DeleteOK, SMTT(40)
  <2>2. ntfs' = x
    BY <1>1, <1>6
  <2>3. \A r \in Recs : NamesOf(ntfs, r) = {op.new} => op.gone
    BY <1>3 DEF NamesOf
  <2> HIDE DEF x
  <2> QED
    BY <1>2, <1>4, <2>1, <2>2, <2>3 DEF BridgeInv, Renaming
<1> QED
  BY <1>5, <1>6

\* The reference of a file in use can be entered.
LEMMA MarkStep ==
    ASSUME BridgeInv, NEW n \in Names, NkBlockmap(n)
    PROVE  BridgeInv' /\ \A x : Marked(wr, x) => Marked(wr', x)
<1>1. VolumeOK(ntfs) /\ TableOK(wr) /\ MarksPast(ntfs, wr)
  BY DEF BridgeInv
<1>2. ntfs' = ntfs /\ op' = op /\ wr' = WrSet(wr, NkMref(n)) /\ ntfs.index[n] # 0
  BY DEF NkBlockmap, Here
<1> DEFINE r == ntfs.index[n]
<1>3. r \in Recs /\ ntfs.recs[r].links # 0 /\ ntfs.recs[r].seq \in 1 .. MaxSeq
  <2>1. r \in Recs /\ ntfs.recs[r].links >= 1
    BY <1>1, <1>2, NamedInUse DEF VolumeOK
  <2> QED
    BY <1>1, <2>1, SMTT(40) DEF VolumeOK, Volume, Rec
<1>4. NkMref(n) = <<r, ntfs.recs[r].seq>> /\ NkMref(n) \in Refs
  BY <1>3 DEF NkMref, MkMref, Refs
<1>5. /\ TableOK(wr')
      /\ \A x : Marked(wr', x) <=> Marked(wr, x) \/ x = NkMref(n)
  BY <1>1, <1>2, <1>4, WrSetOK DEF TableOK
<1>6. MarksPast(ntfs', wr')
  <2> SUFFICES ASSUME NEW q \in Recs, NEW s \in 1 .. MaxSeq, Marked(wr', <<q, s>>)
               PROVE  s <= ntfs.recs[q].seq /\ (ntfs.recs[q].links = 0 => s # ntfs.recs[q].seq)
    BY <1>2 DEF MarksPast
  <2>1. CASE Marked(wr, <<q, s>>)
    BY <1>1, <2>1 DEF MarksPast
  <2>2. CASE <<q, s>> = NkMref(n)
    BY <1>3, <1>4, <2>2, SMTT(40)
  <2> QED
    BY <1>5, <2>1, <2>2
<1> QED
  BY <1>1, <1>2, <1>5, <1>6 DEF BridgeInv, Renaming

\* A settled file loses its own mark and no other.
LEMMA SettleStep ==
    ASSUME BridgeInv, NEW n \in Names, NkSettle(n)
    PROVE  /\ BridgeInv'
           /\ \A r \in Recs : Marked(wr, MkMref(r, ntfs)) /\ ~Marked(wr', MkMref(r, ntfs)) =>
                  n \in NamesOf(ntfs, r)
<1>1. VolumeOK(ntfs) /\ TableOK(wr) /\ MarksPast(ntfs, wr)
  BY DEF BridgeInv
<1>2. ntfs' = ntfs /\ op' = op /\ wr' = WrDrop(wr, NkMref(n))
  BY DEF NkSettle
<1>3. /\ TableOK(wr')
      /\ \A x : Marked(wr', x) <=> Marked(wr, x) /\ x # NkMref(n)
  BY <1>1, <1>2, WrDropOK DEF TableOK
<1>4. MarksPast(ntfs', wr')
  BY <1>1, <1>2, <1>3 DEF MarksPast
<1>5. \A r \in Recs : MkMref(r, ntfs) = NkMref(n) => n \in NamesOf(ntfs, r)
  BY DEF MkMref, NkMref, NamesOf
<1> QED
  BY <1>1, <1>2, <1>3, <1>4, <1>5 DEF BridgeInv, Renaming

\* A stream changes, and nothing else of its record.
LEMMA StreamOK ==
    ASSUME BridgeInv, NEW r \in Recs, NEW S, S \subseteq Seq(Nat \ {0}),
           ntfs' = WithStream(r, S), wr' = wr, op' = op
    PROVE  /\ BridgeInv'
           /\ \A q \in Recs : /\ ntfs'.recs[q].seq = ntfs.recs[q].seq
                              /\ q # r => ntfs'.recs[q].strm = ntfs.recs[q].strm
           /\ ntfs'.recs[r].strm = S
<1>1. ntfs \in Volume /\ AllCounted(ntfs) /\ NoZeros(ntfs)
  BY DEF BridgeInv, VolumeOK
<1>2. S \in SUBSET Seq(Nat)
  <2>1. Seq(Nat \ {0}) \subseteq Seq(Nat)
    BY SMTT(40)
  <2> QED
    BY <2>1
<1> DEFINE new == [ntfs.recs[r] EXCEPT !.strm = S]
<1>3. ntfs' = [index |-> ntfs.index, recs |-> [ntfs.recs EXCEPT ![r] = new]]
  BY <1>1 DEF WithStream, Volume
<1>4. /\ new \in Rec /\ new.strm = S /\ new.seq = ntfs.recs[r].seq
      /\ new.links = ntfs.recs[r].links /\ new.alias = ntfs.recs[r].alias
  BY <1>1, <1>2 DEF Volume, Rec
<1> HIDE DEF new
<1>5. ntfs' \in Volume
  BY <1>1, <1>3, <1>4, SMTT(40) DEF Volume
<1>6. \A q \in Recs : /\ ntfs'.recs[q].seq = ntfs.recs[q].seq
                      /\ ntfs'.recs[q].links = ntfs.recs[q].links
                      /\ ntfs'.recs[q].alias = ntfs.recs[q].alias
                      /\ q # r => ntfs'.recs[q].strm = ntfs.recs[q].strm
  BY <1>1, <1>3, <1>4, SMTT(40) DEF Volume
<1>7. ntfs'.recs[r].strm = S /\ ntfs'.index = ntfs.index
  BY <1>1, <1>3, <1>4, SMTT(40) DEF Volume
<1>8. \A q \in Recs : NamesOf(ntfs', q) = NamesOf(ntfs, q)
  BY <1>7 DEF NamesOf
<1>9. AllCounted(ntfs')
  BY <1>1, <1>6, <1>8 DEF AllCounted, Counted
<1>10. NoZeros(ntfs')
  BY <1>1, <1>6, <1>7 DEF NoZeros
<1>11. MarksPast(ntfs', wr')
  BY <1>6 DEF MarksPast, BridgeInv
<1>12. Renaming'
  BY <1>7 DEF Renaming, BridgeInv
<1> QED
  BY <1>5, <1>6, <1>7, <1>9, <1>10, <1>11, <1>12 DEF BridgeInv, VolumeOK, TableOK, Distinct

\* What a replaced stream may hold has no byte that nobody set.
LEMMA StagesNoZeros ==
    ASSUME NEW T, NEW s \in Seq(T), NEW val \in Seq(T)
    PROVE  ReplaceStages(s, val) \subseteq Seq(T)
<1> SUFFICES ASSUME NEW k \in 0 .. Len(val) PROVE Overwritten(s, val, k) \in Seq(T)
  BY DEF ReplaceStages
<1>1. SubSeq(val, 1, k) \in Seq(T)
  BY SMTT(40)
<1>2. SubSeq(s, k + 1, Len(s)) \in Seq(T)
  BY SMTT(40)
<1> QED
  BY <1>1, <1>2, SMTT(40) DEF Overwritten

\* Setting an extended attribute replaces no file and drops no stream.
LEMMA SetXattrStep ==
    ASSUME BridgeInv, NEW n \in Names, NEW val \in Values, NEW policy, SetXattr(n, val, policy)
    PROVE  /\ BridgeInv' /\ wr' = wr
           /\ \A r \in Recs : /\ ntfs'.recs[r].seq = ntfs.recs[r].seq
                              /\ ntfs.recs[r].strm # {} => ntfs'.recs[r].strm # {}
<1> DEFINE r == ntfs.index[n]
<1>1. wr' = wr /\ op' = op /\ r # 0
  BY DEF SetXattr, Here
<1>2. r \in Recs
  BY <1>1, NamedInUse DEF BridgeInv, VolumeOK
<1>3. val \in Seq(Nat \ {0})
  BY BridgeAssumption, SMTT(40) DEF Values, BridgeAssumption
<1>4. PICK t \in Seq(Nat \ {0}) : ntfs' = WithStream(r, {t})
  <2>1. CASE ntfs' = WithStream(r, {val})
    BY <1>3, <2>1
  <2>2. ASSUME NEW s \in ntfs.recs[r].strm, NEW t \in ReplaceStages(s, val),
               ntfs' = WithStream(r, {t})
        PROVE  \E u \in Seq(Nat \ {0}) : ntfs' = WithStream(r, {u})
    <3>1. s \in Seq(Nat \ {0})
      BY <1>2 DEF BridgeInv, VolumeOK, NoZeros
    <3>2. t \in Seq(Nat \ {0})
      BY <1>3, <3>1, StagesNoZeros
    <3> QED
      BY <2>2, <3>2
  <2> QED
    BY <2>1, <2>2 DEF SetXattr
<1>5. {t} \subseteq Seq(Nat \ {0})
  OBVIOUS
<1>6. /\ BridgeInv'
      /\ \A q \in Recs : /\ ntfs'.recs[q].seq = ntfs.recs[q].seq
                         /\ q # r => ntfs'.recs[q].strm = ntfs.recs[q].strm
      /\ ntfs'.recs[r].strm = {t}
  BY <1>1, <1>2, <1>4, <1>5, StreamOK
<1> QED
  BY <1>1, <1>6

\* Removing one touches the stream of that file only.
LEMMA RemoveXattrStep ==
    ASSUME BridgeInv, NEW n \in Names, RemoveXattr(n)
    PROVE  /\ BridgeInv' /\ wr' = wr
           /\ \A r \in Recs : /\ ntfs'.recs[r].seq = ntfs.recs[r].seq
                              /\ ntfs'.recs[r].strm # ntfs.recs[r].strm => n \in NamesOf(ntfs, r)
<1> DEFINE r == ntfs.index[n]
<1>1. wr' = wr /\ op' = op /\ r # 0 /\ ntfs' = WithStream(r, {})
  BY DEF RemoveXattr, Here, NoStream
<1>2. r \in Recs
  BY <1>1, NamedInUse DEF BridgeInv, VolumeOK
<1>3. /\ BridgeInv'
      /\ \A q \in Recs : /\ ntfs'.recs[q].seq = ntfs.recs[q].seq
                         /\ q # r => ntfs'.recs[q].strm = ntfs.recs[q].strm
  BY <1>1, <1>2, StreamOK, SMTT(40)
<1> QED
  BY <1>1, <1>3 DEF NamesOf

\* The table stays or goes with its mount, and a rename with the process.
LEMMA TableGoes ==
    ASSUME BridgeInv, ntfs' = ntfs, wr' \in {wr, <<>>}, op' \in {op, NoOp}
    PROVE  BridgeInv'
<1>1. VolumeOK(ntfs') /\ TableOK(wr')
  <2>1. TableOK(<<>>)
    BY SMTT(40) DEF TableOK, Distinct
  <2>2. CASE wr' = wr
    BY <2>2 DEF BridgeInv
  <2>3. CASE wr' = <<>>
    BY <2>1, <2>3 DEF BridgeInv
  <2> QED
    BY <2>2, <2>3
<1>2. MarksPast(ntfs', wr')
  <2>1. CASE wr' = wr
    BY <2>1 DEF BridgeInv, MarksPast
  <2>2. CASE wr' = <<>>
    BY <2>2, SMTT(40) DEF MarksPast, Marked
  <2> QED
    BY <2>1, <2>2
<1>3. Renaming'
  <2>1. CASE op' = NoOp
    BY <2>1 DEF Renaming
  <2>2. CASE op' = op
    BY <2>2 DEF BridgeInv, Renaming
  <2> QED
    BY <2>1, <2>2
<1> QED
  BY <1>1, <1>2, <1>3 DEF BridgeInv

\* Every step of the bridge keeps the invariant.
LEMMA InvNext == BridgeInv /\ [BridgeNext]_bridgeVars => BridgeInv'
<1> SUFFICES ASSUME BridgeInv, [BridgeNext]_bridgeVars PROVE BridgeInv'
  OBVIOUS
<1>1. ASSUME NEW n \in Names, NEW r \in Recs, NkCreate(n, r) PROVE BridgeInv'
  BY <1>1, CreateStep
<1>2. ASSUME NEW n \in Names, NkDelete(n) PROVE BridgeInv'
  BY <1>2, DeleteStep
<1>3. ASSUME NEW old \in Names, NEW new \in Names, RenameLink(old, new) PROVE BridgeInv'
  BY <1>3, LinkStep
<1>4. CASE RenameDelete
  BY <1>4, RenameDeleteStep
<1>5. CASE RenameRollback
  BY <1>5, RollbackStep
<1>6. ASSUME NEW n \in Names, NkBlockmap(n) PROVE BridgeInv'
  BY <1>6, MarkStep
<1>7. ASSUME NEW n \in Names, NkSettle(n) PROVE BridgeInv'
  BY <1>7, SettleStep
<1>8. ASSUME NEW n \in Names, NEW val \in Values, NEW policy \in Policies,
             SetXattr(n, val, policy)
      PROVE  BridgeInv'
  BY <1>8, SetXattrStep
<1>9. ASSUME NEW n \in Names, RemoveXattr(n) PROVE BridgeInv'
  BY <1>9, RemoveXattrStep
<1>10. CASE Crash
  BY <1>10, TableGoes DEF Crash
<1>11. CASE UNCHANGED bridgeVars
  BY <1>11, TableGoes DEF bridgeVars
<1> QED
  BY <1>1, <1>2, <1>3, <1>4, <1>5, <1>6, <1>7, <1>8, <1>9, <1>10, <1>11 DEF BridgeNext

-----------------------------------------------------------------------------
\* A file goes only with its last name: one step.
LEMMA FileKeptStep ==
    ASSUME BridgeInv, BridgeNext, NEW r \in Recs, ntfs'.recs[r].seq # ntfs.recs[r].seq
    PROVE  \/ \E n \in Names : NkDelete(n) /\ NamesOf(ntfs, r) = {n}
           \/ op.st = "rollback" /\ op.gone /\ NamesOf(ntfs, r) = {op.new}
<1>1. ASSUME NEW n \in Names, NkDelete(n) PROVE NamesOf(ntfs, r) = {n}
  <2>1. PICK o \in Outcomes : Deleted(n, o)
    BY <1>1 DEF NkDelete
  <2>2. ntfs.index[n] # 0
    BY <1>1 DEF NkDelete, Here
  <2> QED
    BY <2>1, <2>2, DeletedOK
<1>2. CASE RenameRollback
  <2>1. op.st = "rollback"
    BY <1>2 DEF RenameRollback
  <2> QED
    BY <1>2, <2>1, RollbackStep
<1>3. ASSUME SameFiles PROVE FALSE
  BY <1>3 DEF SameFiles
<1>4. ASSUME ntfs' = ntfs PROVE FALSE
  BY <1>4
<1>5. ASSUME NEW n \in Names, NEW q \in Recs, NkCreate(n, q) PROVE FALSE
  BY <1>3, <1>5, CreateStep
<1>6. ASSUME NEW old \in Names, NEW new \in Names, RenameLink(old, new) PROVE FALSE
  BY <1>3, <1>6, LinkStep
<1>7. ASSUME RenameDelete PROVE FALSE
  BY <1>3, <1>7, RenameDeleteStep
<1>8. ASSUME NEW n \in Names, NkBlockmap(n) \/ NkSettle(n) PROVE FALSE
  BY <1>4, <1>8 DEF NkBlockmap, NkSettle
<1>9. ASSUME NEW n \in Names, NEW val \in Values, NEW policy \in Policies,
             SetXattr(n, val, policy)
      PROVE  FALSE
  BY <1>9, SetXattrStep
<1>10. ASSUME NEW n \in Names, RemoveXattr(n) PROVE FALSE
  BY <1>10, RemoveXattrStep
<1>11. ASSUME Crash PROVE FALSE
  BY <1>4, <1>11 DEF Crash
<1> QED
  BY <1>1, <1>2, <1>5, <1>6, <1>7, <1>8, <1>9, <1>10, <1>11 DEF BridgeNext

\* A mark stays with its file: one step.
LEMMA MarkFollowsStep ==
    ASSUME BridgeInv, BridgeNext, NEW r \in Recs,
           Marked(wr, MkMref(r, ntfs)), ~Marked(wr', MkMref(r, ntfs)),
           ntfs'.recs[r].seq = ntfs.recs[r].seq
    PROVE  (\E n \in NamesOf(ntfs, r) : NkSettle(n)) \/ Crash
<1>1. ASSUME wr' = wr PROVE FALSE
  BY <1>1
<1>2. ASSUME NEW n \in Names, NkDelete(n) PROVE FALSE
  <2>1. PICK o \in Outcomes : Deleted(n, o)
    BY <1>2 DEF NkDelete
  <2>2. ntfs.index[n] # 0
    BY <1>2 DEF NkDelete, Here
  <2> QED
    BY <2>1, <2>2, DeletedOK
<1>3. ASSUME RenameDelete PROVE FALSE
  BY <1>3, RenameDeleteStep
<1>4. ASSUME NEW n \in Names, NkBlockmap(n) PROVE FALSE
  BY <1>4, MarkStep
<1>5. ASSUME NEW n \in Names, NkSettle(n) PROVE n \in NamesOf(ntfs, r)
  BY <1>5, SettleStep
<1>6. ASSUME NEW n \in Names, NEW q \in Recs, NkCreate(n, q) PROVE FALSE
  BY <1>1, <1>6 DEF NkCreate
<1>7. ASSUME NEW old \in Names, NEW new \in Names, RenameLink(old, new) PROVE FALSE
  BY <1>1, <1>7 DEF RenameLink
<1>8. ASSUME RenameRollback PROVE FALSE
  BY <1>1, <1>8 DEF RenameRollback
<1>9. ASSUME NEW n \in Names, NEW val \in Values, NEW policy \in Policies,
             SetXattr(n, val, policy)
      PROVE  FALSE
  BY <1>1, <1>9 DEF SetXattr
<1>10. ASSUME NEW n \in Names, RemoveXattr(n) PROVE FALSE
  BY <1>1, <1>10 DEF RemoveXattr
<1> QED
  BY <1>2, <1>3, <1>4, <1>5, <1>6, <1>7, <1>8, <1>9, <1>10 DEF BridgeNext

\* An attribute goes only by removal, or with its file: one step.
LEMMA XattrStep ==
    ASSUME BridgeInv, BridgeNext, NEW r \in Recs,
           ntfs.recs[r].strm # {}, ntfs'.recs[r].strm = {},
           ntfs'.recs[r].seq = ntfs.recs[r].seq
    PROVE  \E n \in NamesOf(ntfs, r) : RemoveXattr(n)
<1>1. ASSUME SameFiles PROVE FALSE
  BY <1>1 DEF SameFiles
<1>2. ASSUME ntfs' = ntfs PROVE FALSE
  BY <1>2
<1>3. ASSUME NEW n \in Names, NkDelete(n) PROVE FALSE
  <2>1. PICK o \in Outcomes : Deleted(n, o)
    BY <1>3 DEF NkDelete
  <2>2. ntfs.index[n] # 0
    BY <1>3 DEF NkDelete, Here
  <2> QED
    BY <2>1, <2>2, DeletedOK
<1>4. ASSUME NEW n \in Names, NEW q \in Recs, NkCreate(n, q) PROVE FALSE
  BY <1>1, <1>4, CreateStep
<1>5. ASSUME NEW old \in Names, NEW new \in Names, RenameLink(old, new) PROVE FALSE
  BY <1>1, <1>5, LinkStep
<1>6. ASSUME RenameDelete PROVE FALSE
  BY <1>1, <1>6, RenameDeleteStep
<1>7. ASSUME RenameRollback PROVE FALSE
  BY <1>7, RollbackStep
<1>8. ASSUME NEW n \in Names, NkBlockmap(n) \/ NkSettle(n) PROVE FALSE
  BY <1>2, <1>8 DEF NkBlockmap, NkSettle
<1>9. ASSUME NEW n \in Names, NEW val \in Values, NEW policy \in Policies,
             SetXattr(n, val, policy)
      PROVE  FALSE
  BY <1>9, SetXattrStep
<1>10. ASSUME NEW n \in Names, RemoveXattr(n) PROVE n \in NamesOf(ntfs, r)
  BY <1>10, RemoveXattrStep
<1>11. ASSUME Crash PROVE FALSE
  BY <1>2, <1>11 DEF Crash
<1> QED
  BY <1>3, <1>4, <1>5, <1>6, <1>7, <1>8, <1>9, <1>10, <1>11 DEF BridgeNext

-----------------------------------------------------------------------------
\* The invariant always holds.
LEMMA Invariant == BridgeSpec => []BridgeInv
BY InvInit, InvNext, PTL DEF BridgeSpec

\* Link counts stay exact in nk_create, nk_delete, nk_rename with its rollback,
\* and across their failures, for any number of names and records.
THEOREM LinkCountsExact == BridgeSpec => []BridgeTypeOK
<1>1. BridgeInv => BridgeTypeOK
  <2> SUFFICES ASSUME BridgeInv PROVE BridgeTypeOK
    OBVIOUS
  <2>1. ntfs.index \in [Names -> 0 .. MaxRecs] /\ ntfs.recs \in [Recs -> Rec]
    BY DEF BridgeInv, VolumeOK, Volume
  <2>2. \A r \in Recs : Counted(ntfs, r)
    BY DEF BridgeInv, VolumeOK, AllCounted
  <2>3. wr \in Seq(Recs \X (1 .. MaxSeq))
    BY DEF BridgeInv, TableOK, Refs
  <2>4. op.st \in {"idle", "linked", "rollback"}
    BY SMTT(40) DEF BridgeInv, Renaming, NoOp
  <2> QED
    BY <2>1, <2>2, <2>3, <2>4 DEF BridgeTypeOK, Counted
<1> QED
  BY <1>1, Invariant, PTL

\* A file created in a reused MFT record finds no entry in wr[], for any
\* history of the record.
THEOREM MarksNotInherited == BridgeSpec => []NoInheritedMark
<1>1. BridgeInv => NoInheritedMark
  <2> SUFFICES ASSUME BridgeInv PROVE NoInheritedMark
    OBVIOUS
  <2>1. \A r \in Recs : ntfs.recs[r].seq \in 1 .. MaxSeq
    BY DEF BridgeInv, VolumeOK, Volume, Rec
  <2>2. ASSUME NEW r \in Recs, ntfs.recs[r].links = 0 PROVE ~Marked(wr, MkMref(r, ntfs))
    BY <2>1, <2>2 DEF BridgeInv, MarksPast, MkMref
  <2>3. Distinct(wr)
    BY DEF BridgeInv, TableOK
  <2> QED
    BY <2>2, <2>3 DEF NoInheritedMark, Distinct
<1> QED
  BY <1>1, Invariant, PTL

\* A file goes only with its last name, in nk_delete or in a rollback of
\* nk_rename after a late failure.
THEOREM FilesKept == BridgeSpec => FileKept
<1>1. BridgeInv /\ [BridgeNext]_bridgeVars =>
        [\A r \in Recs : ntfs'.recs[r].seq # ntfs.recs[r].seq =>
            \/ \E n \in Names : NkDelete(n) /\ NamesOf(ntfs, r) = {n}
            \/ op.st = "rollback" /\ op.gone /\ NamesOf(ntfs, r) = {op.new}]_bridgeVars
  BY FileKeptStep
<1> QED
  BY <1>1, Invariant, PTL DEF BridgeSpec, FileKept

\* The mark of a file outlives every rename, and every delete but that of its
\* last name.
THEOREM MarksFollowFiles == BridgeSpec => MarkFollowsFile
<1>1. BridgeInv /\ [BridgeNext]_bridgeVars =>
        [\A r \in Recs :
            /\ Marked(wr, MkMref(r, ntfs)) /\ ~Marked(wr', MkMref(r, ntfs))
            /\ ntfs'.recs[r].seq = ntfs.recs[r].seq
            => \/ \E n \in NamesOf(ntfs, r) : NkSettle(n)
               \/ Crash]_bridgeVars
  BY MarkFollowsStep
<1> QED
  BY <1>1, Invariant, PTL DEF BridgeSpec, MarkFollowsFile

\* No attribute ever has a byte that nobody set, and none goes but by removal
\* or with its file, for values of any length.
THEOREM XattrsNeverZeroed == BridgeSpec => XattrNeverZeroed
<1>1. BridgeInv' =>
        \A r \in Recs : \A s \in ntfs'.recs[r].strm : \A i \in 1 .. Len(s) : s[i] # 0
  <2> SUFFICES ASSUME BridgeInv', NEW r \in Recs, NEW s \in ntfs'.recs[r].strm,
                      NEW i \in 1 .. Len(s)
               PROVE  s[i] # 0
    OBVIOUS
  <2>1. s \in Seq(Nat \ {0})
    BY DEF BridgeInv, VolumeOK, NoZeros
  <2> QED
    BY <2>1, SMTT(40)
<1>2. BridgeInv /\ BridgeInv' /\ [BridgeNext]_bridgeVars =>
        [\A r \in Recs : LET old == ntfs.recs[r] new == ntfs'.recs[r] IN
            /\ \A s \in new.strm : \A i \in 1 .. Len(s) : s[i] # 0
            /\ old.strm # {} /\ new.strm = {} /\ new.seq = old.seq
               => \E n \in NamesOf(ntfs, r) : RemoveXattr(n)]_bridgeVars
  BY <1>1, XattrStep
<1> QED
  BY <1>2, Invariant, PTL DEF BridgeSpec, XattrNeverZeroed

-----------------------------------------------------------------------------
(* A mounted volume behaves as Bridge.                                     *)

\* nk_umount, and the end of the process, are allowed to Bridge.
LEMMA StepImplements ==
    ASSUME "crash" \in BridgeEnv, [EngineNext]_engineVars
    PROVE  [BridgeNext]_bridgeVars
<1>1. CASE MountStep
  BY <1>1 DEF MountStep, BridgeNext, Crash, bridgeVars
<1>2. CASE VolumeStep
  BY <1>2 DEF VolumeStep, BridgeNext
<1>3. CASE ProcessDies
  BY <1>3 DEF ProcessDies, BridgeNext
<1>4. CASE UNCHANGED engineVars
  BY <1>4 DEF engineVars
<1> QED
  BY <1>1, <1>2, <1>3, <1>4 DEF EngineNext

\* The composition implements Bridge: mounting, falling back to read-only,
\* unmounting and dying between two steps of nk_rename add nothing to what the
\* operations may do to files, marks and attributes.
THEOREM EngineImplementsBridge == "crash" \in BridgeEnv => (EngineSpec => BridgeSpec)
<1> SUFFICES ASSUME "crash" \in BridgeEnv PROVE EngineSpec => BridgeSpec
  OBVIOUS
<1>1. EngineInit => BridgeInit
  BY DEF EngineInit
<1>2. [EngineNext]_engineVars => [BridgeNext]_bridgeVars
  BY StepImplements
<1> QED
  BY <1>1, <1>2, PTL DEF EngineSpec, BridgeSpec

-----------------------------------------------------------------------------
(* What is offered for offloaded I/O.                                       *)

\* The calls, and those of nk_mount_io.
Kinds == {"idle", "activate", "mount", "path", "bde", "fsck", "umount"}
Opening == {"activate", "mount"}

\* A call in progress has its script and its cleanup.
CallOK == /\ DOMAIN call = {"kind", "todo", "undo", "ok", "ro"}
          /\ call.kind \in Kinds /\ (Idle => call = NoCall)
          /\ call.ro \in BOOLEAN /\ readOnly \in BOOLEAN

\* While the volume is active its cluster size is known, and current if clusters
\* do not fit the device's blocks; readOnly says how the engine is mounted, and
\* an engine being opened read-write is one of a volume not read-only.
Known ==
    /\ geo \in [bs : BlockSizes, cs : ClusterSizes]
    /\ active => clusterSize # 0 /\ (geo.cs % geo.bs # 0 => clusterSize = geo.cs)
    /\ clusterSize \in {0} \cup ClusterSizes
    /\ vol.kind = "io" => vol.ro = readOnly
    /\ vol.kind = "io" /\ Idle => active
    /\ call.kind = "mount" => active
    /\ call.kind \in Opening /\ readOnly => call.ro
    /\ call.kind \notin {"idle", "umount"} => vol = NoVol

\* The mount invariant.
MountInv == CallOK /\ Known

\* Nothing is mounted at first.
LEMMA MountInvInit == EngineInit => MountInv
<1> SUFFICES ASSUME MountInit PROVE MountInv
  BY DEF EngineInit
<1>1. CallOK
  BY DEF MountInit, NoCall, CallOK, Kinds
<1> QED
  BY <1>1 DEF MountInit, MountInv, Known, NoCall, NoVol, Opening, Idle

\* A step of a call that only goes on with it.
LEMMA CallGoesOn ==
    ASSUME MountInv, call.kind # "idle", DOMAIN call' = DOMAIN call, call'.kind = call.kind,
           call'.ro = call.ro \/ call'.ro = TRUE,
           UNCHANGED <<geo, vol, readOnly, active, clusterSize>>
    PROVE  MountInv'
BY DEF MountInv, CallOK, Known, Idle

\* Every step keeps it, as long as fstat of the device does not fail.
LEMMA MountInvNext ==
    ASSUME MountInv, "statfail" \notin MountEnv, [EngineNext]_engineVars
    PROVE  MountInv'
<1>1. ASSUME NEW kind \in Opening, OpenEngine(kind) PROVE MountInv'
  BY <1>1 DEF OpenEngine, Begin, Idle, MountInv, CallOK, Known, Opening, Kinds, NoVol
<1>2. ASSUME NEW kind \in {"path", "bde", "fsck"}, NEW todo, NEW ro \in BOOLEAN, OpenOther(kind, todo, ro)
      PROVE  MountInv'
  BY <1>2 DEF OpenOther, Begin, Idle, MountInv, CallOK, Known, Opening, Kinds, NoVol
<1>3. CASE GetOk \/ GetFail \/ FreeNext
  <2>1. ~Idle
    BY <1>3, SMTT(40) DEF GetOk, GetFail, FreeNext, MountInv, CallOK, NoCall
  <2>2. /\ DOMAIN call' = DOMAIN call /\ call'.kind = call.kind /\ call'.ro = call.ro
        /\ UNCHANGED <<geo, vol, readOnly, active, clusterSize>>
    BY <1>3 DEF GetOk, GetFail, FreeNext, MountInv, CallOK
  <2> QED
    BY <2>1, <2>2, CallGoesOn DEF Idle
<1>4. CASE OpenedEngine
  <2>1. /\ call.kind \in Opening /\ geo' = geo /\ active' = TRUE /\ call' = NoCall
        /\ vol'.kind = "io" /\ vol'.ro = call.ro /\ readOnly' = (readOnly \/ call.ro)
        /\ clusterSize' \in {geo.cs, clusterSize}
        /\ call.kind = "activate" => clusterSize' = geo.cs
    BY <1>4 DEF OpenedEngine, Returning, FellBack, Opening
  <2>2. geo.cs \in ClusterSizes /\ geo.cs # 0
    BY MountAssumption DEF MountAssumption, MountInv, Known
  <2>3. clusterSize' # 0 /\ (geo.cs % geo.bs # 0 => clusterSize' = geo.cs)
        /\ clusterSize' \in {0} \cup ClusterSizes
    BY <2>1, <2>2 DEF MountInv, Known, Opening
  <2>4. vol'.ro = readOnly'
    BY <2>1 DEF MountInv, Known, CallOK
  <2>5. CallOK' /\ call'.kind = "idle"
    BY <2>1 DEF CallOK, NoCall, Kinds
  <2> QED
    BY <2>1, <2>3, <2>4, <2>5 DEF MountInv, Known, Opening
<1>5. CASE TryReadOnly
  <2>1. /\ call'.kind = call.kind /\ call.kind \in Opening /\ call'.ro = TRUE
        /\ DOMAIN call' = {"kind", "todo", "undo", "ok", "ro"}
        /\ UNCHANGED <<geo, vol, readOnly, active, clusterSize>>
    BY <1>5 DEF TryReadOnly, Returning, Begin, Opening
  <2> QED
    BY <2>1, CallGoesOn DEF MountInv, CallOK, Opening
\* A call is over and there is no volume, as before.
<1>6. CASE OpenFailed
  BY <1>6, SMTT(40) DEF OpenFailed, Returning, MountInv, CallOK, Known, Idle, NoCall, NoVol, Opening, Kinds
<1>7. CASE OpenedOther
  <2>1. /\ call' = NoCall /\ vol = NoVol /\ (vol' = vol \/ vol'.kind = call.kind)
        /\ call.kind \in {"path", "bde"}
        /\ UNCHANGED <<geo, readOnly, active, clusterSize>>
    BY <1>7 DEF OpenedOther, Returning, MountInv, Known
  <2>2. CallOK' /\ call'.kind = "idle"
    BY <2>1 DEF MountInv, CallOK, NoCall, Kinds, Idle
  <2> QED
    BY <2>1, <2>2, SMTT(40) DEF MountInv, Known, NoVol, Opening
<1>8. CASE FsckUnmounts
  <2>1. call.kind = "fsck" /\ UNCHANGED <<geo, vol, readOnly, active, clusterSize>>
    BY <1>8 DEF FsckUnmounts, Returning
  <2>2. CASE call.ok
    <3>1. DOMAIN call' = DOMAIN call /\ call'.kind = call.kind /\ call'.ro = call.ro
      BY <1>8, <2>2 DEF FsckUnmounts, MountInv, CallOK
    <3> QED
      BY <2>1, <3>1, CallGoesOn
  <2>3. CASE ~call.ok
    <3>1. call' = NoCall
      BY <1>8, <2>3 DEF FsckUnmounts
    <3> QED
      BY <2>1, <3>1, SMTT(40) DEF MountInv, CallOK, Known, Idle, NoCall, NoVol, Opening, Kinds
  <2> QED
    BY <2>2, <2>3
<1>9. ASSUME NEW deactivate \in BOOLEAN, CloseEngine(deactivate) PROVE MountInv'
  BY <1>9 DEF CloseEngine, Begin, MountInv, CallOK, Known, Idle, Opening, Kinds
<1>10. CASE Closed
  BY <1>10 DEF Closed, MountInv, CallOK, Known, Idle, NoCall, NoVol, Opening, Kinds
<1>11. ASSUME NEW cs \in FormatSizes, Reformat(cs) PROVE MountInv'
  <2>1. /\ geo' \in [bs : BlockSizes, cs : ClusterSizes] /\ geo'.cs % geo'.bs = 0
        /\ UNCHANGED <<call, vol, readOnly, active, clusterSize>>
    BY <1>11, MountAssumption DEF Reformat, MountAssumption, MountInv, Known
  <2> QED
    BY <2>1 DEF MountInv, CallOK, Known, Idle
<1>12. CASE UNCHANGED <<geo, call, vol, readOnly, active, clusterSize>>
  BY <1>12 DEF MountInv, CallOK, Known, Idle
<1>13. CASE ProcessDies
  BY <1>13 DEF ProcessDies, MountInv, CallOK, Known, Idle, NoCall, NoVol, Opening, Kinds
<1>14. CASE MountNext
  BY <1>1, <1>2, <1>3, <1>4, <1>5, <1>6, <1>7, <1>8, <1>9, <1>10, <1>11, <1>14
     DEF MountNext, Opening
<1> QED
  BY <1>12, <1>13, <1>14 DEF EngineNext, MountStep, VolumeStep, engineVars, mountVars

\* It is an invariant.
LEMMA MountInvariant == "statfail" \notin MountEnv => (EngineSpec => []MountInv)
<1> SUFFICES ASSUME "statfail" \notin MountEnv PROVE EngineSpec => []MountInv
  OBVIOUS
<1>1. MountInv /\ [EngineNext]_engineVars => MountInv'
  BY MountInvNext
<1> QED
  BY <1>1, MountInvInit, PTL DEF EngineSpec

\* For any block and cluster sizes, as long as activate() learns the cluster
\* size: a file offered to the kernel, or opened for writing after a stat that
\* succeeded, is one nk_blockmap maps unless converting its resident data fails.
THEOREM OfferedFilesMap == "statfail" \notin MountEnv => (EngineSpec => []AdvertisedMappable)
<1> SUFFICES ASSUME "statfail" \notin MountEnv PROVE EngineSpec => []AdvertisedMappable
  OBVIOUS
<1>1. MountInv => AdvertisedMappable
  <2> SUFFICES ASSUME MountInv, Idle, vol.kind = "io",
                      NEW f \in File, NEW statted \in BOOLEAN, NEW forced \in BOOLEAN
               PROVE  LET maps == Mappable(f, forced) \equiv (f.resident => forced)
                      IN  /\ ~Inhibited(f) => maps
                          /\ ~readOnly /\ ~IsSymlink(f) /\ ~WriteOpenRefused(f, statted)
                               => maps \/ ~statted
    BY DEF AdvertisedMappable
  <2>1. clusterSize > 0 /\ (geo.cs % geo.bs # 0 => clusterSize = geo.cs)
    BY MountAssumption, SMTT(40) DEF MountAssumption, MountInv, Known
  <2>2. geo.cs % geo.bs = 0 \/ ClustersUnmappable
    BY <2>1 DEF ClustersUnmappable
  <2>3. vol.ro = readOnly /\ readOnly \in BOOLEAN
    BY DEF MountInv, Known, CallOK
  <2>4. f.resident \in BOOLEAN /\ f.tail \in BOOLEAN /\ f.packed \in BOOLEAN
    BY SMTT(40) DEF File
  <2>5. ASSUME ~f.packed, ~(vol.ro /\ f.tail), ~ClustersUnmappable, ~(readOnly /\ f.resident)
        PROVE  Mappable(f, forced) \equiv (f.resident => forced)
    BY <2>2, <2>3, <2>4, <2>5 DEF Mappable
  <2>6. CASE ~Inhibited(f)
    BY <2>5, <2>6 DEF Inhibited, KoioOk
  <2>7. CASE Inhibited(f)
    BY <2>3, <2>5, <2>7 DEF Inhibited, WriteOpenRefused, KoioOk
  <2> QED
    BY <2>6, <2>7
<1> QED
  BY <1>1, MountInvariant, PTL

-----------------------------------------------------------------------------
(* What the calls allocate and free.                                        *)

\* What freeing an object frees.
Takes(x) == IF x = "vol" THEN {"vol", "dev"} ELSE {x}

\* Freeing nothing that a later entry of the list is about, or reads.
Ordered(u) == /\ u \in Seq(Objects)
              /\ \A i, j \in 1 .. Len(u) : i < j => Takes(u[i]) \cap ({u[j]} \cup Reads[u[j]]) = {}

\* Everything of S is freed by the list.
Covers(u, S) == \A x \in S : \E i \in 1 .. Len(u) : x \in Takes(u[i])

\* What freeing each object reads.
LEMMA ReadsOf ==
  /\ Reads["vol"] = {"v", "dev", "ctx", "d", "bdevol", "bfio", "bctx"}
  /\ Reads["ctx"] = {"v"} /\ Reads["wr"] = {"v"} /\ Reads["b"] = {"v"}
  /\ Reads["bdevol"] = {"b", "bfio", "bctx"} /\ Reads["bfio"] = {"b", "bctx"}
  /\ Reads["bctx"] = {"b"} /\ Reads["d"] = {"b"} /\ Reads["dev"] = {} /\ Reads["v"] = {}
  BY DEF Reads, Objects

\* What a concatenation holds.
LEMMA Concatenated ==
  ASSUME NEW S, NEW a \in Seq(S), NEW b \in Seq(S)
  PROVE  /\ a \o b \in Seq(S) /\ Len(a \o b) = Len(a) + Len(b)
         /\ \A i \in 1 .. Len(a) + Len(b) : (a \o b)[i] = IF i <= Len(a) THEN a[i] ELSE b[i - Len(a)]
  <1>1. a \o b \in Seq(S) /\ Len(a \o b) = Len(a) + Len(b)
    BY SMTT(40)
  <1>2. \A i \in 1 .. Len(a) + Len(b) : (a \o b)[i] = IF i <= Len(a) THEN a[i] ELSE b[i - Len(a)]
    BY SMTT(40)
  <1> QED  BY <1>1, <1>2

\* Sequences with the same entries are the same.
LEMMA SameEntries ==
  ASSUME NEW S, NEW a \in Seq(S), NEW b \in Seq(S),
         Len(a) = Len(b), \A i \in 1 .. Len(a) : a[i] = b[i]
  PROVE  a = b
  <1>1. a \in [1 .. Len(a) -> S] /\ b \in [1 .. Len(a) -> S]
    BY SMTT(40)
  <1> QED  BY <1>1, SMTT(40)

\* A concatenation, by its entries.
LEMMA Joined ==
  ASSUME NEW S, NEW a \in Seq(S), NEW b \in Seq(S), NEW c \in Seq(S),
         Len(c) = Len(a) + Len(b), \A i \in 1 .. Len(a) : c[i] = a[i],
         \A i \in 1 .. Len(b) : c[Len(a) + i] = b[i]
  PROVE  a \o b = c
  <1>1. /\ a \o b \in Seq(S) /\ Len(a \o b) = Len(a) + Len(b)
        /\ \A i \in 1 .. Len(a) + Len(b) : (a \o b)[i] = IF i <= Len(a) THEN a[i] ELSE b[i - Len(a)]
    BY Concatenated
  <1>2. Len(a) \in Nat /\ Len(b) \in Nat  BY SMTT(40)
  <1>3. ASSUME NEW i \in 1 .. Len(c) PROVE (a \o b)[i] = c[i]
    <2>1. CASE i <= Len(a)  BY <1>1, <1>2, <2>1, SMTT(40)
    <2>2. CASE i > Len(a)
      <3> DEFINE j == i - Len(a)
      <3>1. j \in 1 .. Len(b) /\ i = Len(a) + j  BY <1>2, <2>2, SMTT(40)
      <3>2. (a \o b)[i] = b[j]  BY <1>1, <1>2, <2>2, SMTT(40)
      <3>3. c[Len(a) + j] = b[j]  BY <3>1
      <3> HIDE DEF j
      <3> QED  BY <3>1, <3>2, <3>3
    <2> QED  BY <1>2, <2>1, <2>2, SMTT(40)
  <1> QED  BY <1>1, <1>3, SameEntries

\* The cleanups that are put together, written out.
LEMMA JoinD == <<"d">> \o BdeFail = <<"d", "bdevol", "bfio", "bctx", "b">>
  <1> DEFINE a == <<"d">>  c == <<"d", "bdevol", "bfio", "bctx", "b">>
  <1>1. a \in Seq(Objects) /\ BdeFail \in Seq(Objects) /\ c \in Seq(Objects)
    BY SMTT(40) DEF Objects, BdeFail
  <1>2. Len(c) = Len(a) + Len(BdeFail) /\ Len(a) = 1 /\ Len(BdeFail) = 4
    BY SMTT(40) DEF BdeFail
  <1>3. \A i \in 1 .. Len(a) : c[i] = a[i]  BY SMTT(40)
  <1>4. \A i \in 1 .. Len(BdeFail) : c[Len(a) + i] = BdeFail[i]
    BY SMTT(40) DEF BdeFail
  <1> HIDE DEF a, c
  <1>5. a \o BdeFail = c  BY <1>1, <1>2, <1>3, <1>4, Joined
  <1> QED  BY <1>5 DEF a, c

\* The list of nk_umount.
LEMMA JoinUmount == NkUmount = <<"vol", "ctx", "bdevol", "bfio", "bctx", "d", "b", "wr", "v">>
  <1> DEFINE a == <<"vol", "ctx">>  c == <<"vol", "ctx", "bdevol", "bfio", "bctx", "d", "b">>
             e == <<"wr", "v">> f == <<"vol", "ctx", "bdevol", "bfio", "bctx", "d", "b", "wr", "v">>
  <1>1. a \in Seq(Objects) /\ BdeFree \in Seq(Objects) /\ c \in Seq(Objects)
        /\ e \in Seq(Objects) /\ f \in Seq(Objects)
    BY SMTT(40) DEF Objects, BdeFree
  <1>2. Len(a) = 2 /\ Len(BdeFree) = 5 /\ Len(c) = 7 /\ Len(e) = 2 /\ Len(f) = 9
        /\ Len(c) = Len(a) + Len(BdeFree) /\ Len(f) = Len(c) + Len(e)
    BY SMTT(40) DEF BdeFree
  <1>3. \A i \in 1 .. Len(a) : c[i] = a[i]  BY SMTT(40)
  <1>4. \A i \in 1 .. Len(BdeFree) : c[Len(a) + i] = BdeFree[i]
    BY SMTT(40) DEF BdeFree
  <1>5. \A i \in 1 .. Len(c) : f[i] = c[i]  BY SMTT(40)
  <1>6. \A i \in 1 .. Len(e) : f[Len(c) + i] = e[i]  BY SMTT(40)
  <1> HIDE DEF a, c, e, f
  <1>7. a \o BdeFree = c  BY <1>1, <1>2, <1>3, <1>4, Joined
  <1>8. c \o e = f  BY <1>1, <1>2, <1>5, <1>6, Joined
  <1>9. NkUmount = (a \o BdeFree) \o e  BY DEF NkUmount, a, e
  <1> QED  BY <1>7, <1>8, <1>9 DEF f

\* What nk_mount_bitlocker frees when ntfs_device_mount fails.
LEMMA JoinDev == <<"dev">> \o BdeFree = <<"dev", "bdevol", "bfio", "bctx", "d", "b">>
  <1> DEFINE a == <<"dev">>  c == <<"dev", "bdevol", "bfio", "bctx", "d", "b">>
  <1>1. a \in Seq(Objects) /\ BdeFree \in Seq(Objects) /\ c \in Seq(Objects)
    BY SMTT(40) DEF Objects, BdeFree
  <1>2. Len(c) = Len(a) + Len(BdeFree) /\ Len(a) = 1 /\ Len(BdeFree) = 5
    BY SMTT(40) DEF BdeFree
  <1>3. \A i \in 1 .. Len(a) : c[i] = a[i]  BY SMTT(40)
  <1>4. \A i \in 1 .. Len(BdeFree) : c[Len(a) + i] = BdeFree[i]
    BY SMTT(40) DEF BdeFree
  <1> HIDE DEF a, c
  <1>5. a \o BdeFree = c  BY <1>1, <1>2, <1>3, <1>4, Joined
  <1> QED  BY <1>5 DEF a, c

\* What it frees when the nk_volume cannot be allocated.
LEMMA JoinVol == <<"vol">> \o BdeFree = <<"vol", "bdevol", "bfio", "bctx", "d", "b">>
  <1> DEFINE a == <<"vol">>  c == <<"vol", "bdevol", "bfio", "bctx", "d", "b">>
  <1>1. a \in Seq(Objects) /\ BdeFree \in Seq(Objects) /\ c \in Seq(Objects)
    BY SMTT(40) DEF Objects, BdeFree
  <1>2. Len(c) = Len(a) + Len(BdeFree) /\ Len(a) = 1 /\ Len(BdeFree) = 5
    BY SMTT(40) DEF BdeFree
  <1>3. \A i \in 1 .. Len(a) : c[i] = a[i]  BY SMTT(40)
  <1>4. \A i \in 1 .. Len(BdeFree) : c[Len(a) + i] = BdeFree[i]
    BY SMTT(40) DEF BdeFree
  <1> HIDE DEF a, c
  <1>5. a \o BdeFree = c  BY <1>1, <1>2, <1>3, <1>4, Joined
  <1> QED  BY <1>5 DEF a, c

\* The cleanups: in order, and enough for what there is.
Cleans(u, S) == Ordered(u) /\ Covers(u, S)

\* A cleanup for some objects is one for fewer.
LEMMA CleansLess == ASSUME NEW u, NEW S, Cleans(u, S), NEW T \in SUBSET S PROVE Cleans(u, T)
  BY DEF Cleans, Covers

\* Every cleanup of the bridge frees in order what is there when it is used.
LEMMA CleanupLists ==
  /\ Cleans(<<>>, {}) /\ Cleans(<<"ctx">>, {"ctx"}) /\ Cleans(<<"dev", "ctx">>, {"ctx", "dev"})
  /\ Cleans(<<"vol", "ctx">>, {"ctx", "dev", "vol"}) /\ Cleans(<<"vol">>, {"vol"})
  /\ Cleans(<<"b">>, {"b"}) /\ Cleans(<<"bctx", "b">>, {"b", "bctx"})
  /\ Cleans(BdeFail, {"b", "bctx", "bfio", "bdevol"})
  /\ Cleans(<<"d">> \o BdeFail, {"b", "bctx", "bfio", "bdevol", "d"})
  /\ Cleans(<<"dev">> \o BdeFree, {"b", "bctx", "bfio", "bdevol", "d", "dev"})
  /\ Cleans(<<"vol">> \o BdeFree, {"b", "bctx", "bfio", "bdevol", "d", "dev", "vol"})
  /\ Cleans(NkUmount, Objects)
  <1>1. Cleans(<<>>, {})  BY SMTT(40) DEF Cleans, Ordered, Covers, Objects
  <1>2. Cleans(<<"ctx">>, {"ctx"}) /\ Cleans(<<"vol">>, {"vol"}) /\ Cleans(<<"b">>, {"b"})
    BY SMTT(40) DEF Cleans, Ordered, Covers, Objects, Takes
  <1>3. Cleans(<<"dev", "ctx">>, {"ctx", "dev"})
    BY ReadsOf, SMTT(40) DEF Cleans, Ordered, Covers, Objects, Takes
  <1>4. Cleans(<<"vol", "ctx">>, {"ctx", "dev", "vol"})
    BY ReadsOf, SMTT(40) DEF Cleans, Ordered, Covers, Objects, Takes
  <1>5. Cleans(<<"bctx", "b">>, {"b", "bctx"})
    BY ReadsOf, SMTT(40) DEF Cleans, Ordered, Covers, Objects, Takes
  <1>6. Cleans(BdeFail, {"b", "bctx", "bfio", "bdevol"})
    BY ReadsOf, SMTT(40) DEF Cleans, Ordered, Covers, Objects, Takes, BdeFail
  <1>7. Cleans(<<"d", "bdevol", "bfio", "bctx", "b">>, {"b", "bctx", "bfio", "bdevol", "d"})
    BY ReadsOf, SMTT(40) DEF Cleans, Ordered, Covers, Objects, Takes
  <1>8. Cleans(<<"dev", "bdevol", "bfio", "bctx", "d", "b">>, {"b", "bctx", "bfio", "bdevol", "d", "dev"})
    BY ReadsOf, SMTT(40) DEF Cleans, Ordered, Covers, Objects, Takes
  <1>9. Cleans(<<"vol", "bdevol", "bfio", "bctx", "d", "b">>,
               {"b", "bctx", "bfio", "bdevol", "d", "dev", "vol"})
    BY ReadsOf, SMTT(40) DEF Cleans, Ordered, Covers, Objects, Takes
  <1>10. Cleans(<<"vol", "ctx", "bdevol", "bfio", "bctx", "d", "b", "wr", "v">>, Objects)
    BY ReadsOf, SMTT(40) DEF Cleans, Ordered, Covers, Objects, Takes
  <1> QED  BY <1>1, <1>2, <1>3, <1>4, <1>5, <1>6, <1>7, <1>8, <1>9, <1>10, JoinD, JoinDev, JoinVol, JoinUmount

\* An entry of a script.
Entry == [get : Objects \cup {Nothing}, undo : Seq(Objects)]

\* What there is when the k-th entry of a script is to be got, S being there
\* from the start.
Before(s, S, k) == {x \in Objects : x \in S \/ \E j \in 1 .. k - 1 : s[j].get = x}

\* A script that has S to begin with and T when it is through, and cleans up
\* after itself wherever it fails.
Plan(s, S, T) ==
    /\ s \in Seq(Entry)
    /\ \A k \in 1 .. Len(s) : Cleans(s[k].undo, Before(s, S, k))
    /\ T = {x \in Objects : x \in S \/ \E j \in 1 .. Len(s) : s[j].get = x}

\* What the calls are to allocate.
Fsck == {"ctx", "dev", "vol"}
Io == {"ctx", "dev", "vol", "v"}
Bde == {"b", "bctx", "bfio", "bdevol", "d", "dev", "vol", "v"}

\* nk_mount_io cleans up after itself.
LEMMA PlanIo == Plan(NkMountIo, {}, Io)
  <1> DEFINE s == NkMountIo
  <1>1. /\ Len(s) = 4 /\ s[1] = Get("ctx", <<>>) /\ s[2] = Get("dev", <<"ctx">>)
        /\ s[3] = Get("vol", <<"dev", "ctx">>) /\ s[4] = Get("v", <<"vol", "ctx">>)
    BY DEF NkMountIo
  <1>2. s \in Seq(Entry)
    BY SMTT(40) DEF NkMountIo, Get, Entry, Objects
  <1> HIDE DEF s
  <1>3. /\ s[1].get = "ctx" /\ s[2].get = "dev" /\ s[3].get = "vol" /\ s[4].get = "v"
        /\ s[1].undo = <<>> /\ s[2].undo = <<"ctx">> /\ s[3].undo = <<"dev", "ctx">>
        /\ s[4].undo = <<"vol", "ctx">>
    BY <1>1, SMTT(40) DEF Get
  <1>4. Io = {x \in Objects : x \in {} \/ \E j \in 1 .. Len(s) : s[j].get = x}
    BY <1>1, <1>3, SMTT(40) DEF Io, Objects
  <1>5. /\ Before(s, {}, 1) = {} /\ Before(s, {}, 2) = {"ctx"} /\ Before(s, {}, 3) = {"ctx", "dev"}
        /\ Before(s, {}, 4) = {"ctx", "dev", "vol"}
    BY <1>3, SMTT(40) DEF Before, Objects
  <1>6. ASSUME NEW k \in 1 .. Len(s) PROVE Cleans(s[k].undo, Before(s, {}, k))
    <2>1. k = 1 \/ k = 2 \/ k = 3 \/ k = 4  BY <1>1, SMTT(40)
    <2> QED  BY <2>1, <1>3, <1>5, CleanupLists
  <1> QED  BY <1>2, <1>4, <1>6 DEF Plan, s

\* nk_mount of an image file cleans up after itself.
LEMMA PlanPath == Plan(NkMountPath, {}, {"vol", "v"})
  <1> DEFINE s == NkMountPath
  <1>1. Len(s) = 2 /\ s[1] = Get("vol", <<>>) /\ s[2] = Get("v", <<"vol">>)
    BY DEF NkMountPath
  <1>2. s \in Seq(Entry)
    BY SMTT(40) DEF NkMountPath, Get, Entry, Objects
  <1> HIDE DEF s
  <1>3. s[1].get = "vol" /\ s[2].get = "v" /\ s[1].undo = <<>> /\ s[2].undo = <<"vol">>
    BY <1>1, SMTT(40) DEF Get
  <1>4. {"vol", "v"} = {x \in Objects : x \in {} \/ \E j \in 1 .. Len(s) : s[j].get = x}
    BY <1>1, <1>3, SMTT(40) DEF Objects
  <1>5. Before(s, {}, 1) = {} /\ Before(s, {}, 2) = {"vol"}
    BY <1>3, SMTT(40) DEF Before, Objects
  <1>6. ASSUME NEW k \in 1 .. Len(s) PROVE Cleans(s[k].undo, Before(s, {}, k))
    <2>1. k = 1 \/ k = 2  BY <1>1, SMTT(40)
    <2> QED  BY <2>1, <1>3, <1>5, CleanupLists
  <1> QED  BY <1>2, <1>4, <1>6 DEF Plan, s

\* nk_fsck cleans up after itself when it cannot mount.
LEMMA PlanFsck == Plan(NkFsck, {}, Fsck)
  <1> DEFINE s == NkFsck
  <1>1. /\ Len(s) = 3 /\ s[1] = Get("ctx", <<>>) /\ s[2] = Get("dev", <<"ctx">>)
        /\ s[3] = Get("vol", <<"dev", "ctx">>)
    BY DEF NkFsck
  <1>2. s \in Seq(Entry)
    BY SMTT(40) DEF NkFsck, Get, Entry, Objects
  <1> HIDE DEF s
  <1>3. /\ s[1].get = "ctx" /\ s[2].get = "dev" /\ s[3].get = "vol"
        /\ s[1].undo = <<>> /\ s[2].undo = <<"ctx">> /\ s[3].undo = <<"dev", "ctx">>
    BY <1>1, SMTT(40) DEF Get
  <1>4. Fsck = {x \in Objects : x \in {} \/ \E j \in 1 .. Len(s) : s[j].get = x}
    BY <1>1, <1>3, SMTT(40) DEF Fsck, Objects
  <1>5. Before(s, {}, 1) = {} /\ Before(s, {}, 2) = {"ctx"} /\ Before(s, {}, 3) = {"ctx", "dev"}
    BY <1>3, SMTT(40) DEF Before, Objects
  <1>6. ASSUME NEW k \in 1 .. Len(s) PROVE Cleans(s[k].undo, Before(s, {}, k))
    <2>1. k = 1 \/ k = 2 \/ k = 3  BY <1>1, SMTT(40)
    <2> QED  BY <2>1, <1>3, <1>5, CleanupLists
  <1> QED  BY <1>2, <1>4, <1>6 DEF Plan, s

\* The ten entries of nk_mount_bitlocker.
LEMMA BdeEntries ==
  /\ NkMountBitlocker \in Seq(Entry) /\ Len(NkMountBitlocker) = 10
  /\ NkMountBitlocker[1] = Get("b", <<>>) /\ NkMountBitlocker[2] = Get("bctx", <<"b">>)
  /\ NkMountBitlocker[3] = Get("bfio", <<"bctx", "b">>) /\ NkMountBitlocker[4] = Get("bdevol", BdeFail)
  /\ NkMountBitlocker[5] = Get(Nothing, BdeFail) /\ NkMountBitlocker[6] = Get(Nothing, BdeFail)
  /\ NkMountBitlocker[7] = Get("d", BdeFail) /\ NkMountBitlocker[8] = Get("dev", <<"d">> \o BdeFail)
  /\ NkMountBitlocker[9] = Get("vol", <<"dev">> \o BdeFree)
  /\ NkMountBitlocker[10] = Get("v", <<"vol">> \o BdeFree)
  <1> DEFINE f == BdeFail  uD == <<"d">> \o BdeFail  uDev == <<"dev">> \o BdeFree  uVol == <<"vol">> \o BdeFree
             b == << Get("vol", uDev), Get("v", uVol) >>
             o == << Get("b", <<>>), Get("bctx", <<"b">>), Get("bfio", <<"bctx", "b">>), Get("bdevol", f),
                     Get(Nothing, f), Get(Nothing, f), Get("d", f), Get("dev", uD) >>
  <1>1. f \in Seq(Objects) /\ uD \in Seq(Objects) /\ uDev \in Seq(Objects) /\ uVol \in Seq(Objects)
    <2>1. f \in Seq(Objects)  BY SMTT(40) DEF BdeFail, Objects
    <2>2. <<"d", "bdevol", "bfio", "bctx", "b">> \in Seq(Objects)  BY SMTT(40) DEF Objects
    <2>3. <<"dev", "bdevol", "bfio", "bctx", "d", "b">> \in Seq(Objects)  BY SMTT(40) DEF Objects
    <2>4. <<"vol", "bdevol", "bfio", "bctx", "d", "b">> \in Seq(Objects)  BY SMTT(40) DEF Objects
    <2> QED  BY <2>1, <2>2, <2>3, <2>4, JoinD, JoinDev, JoinVol
  <1>2. NkMountBitlocker = o \o b  BY DEF NkMountBitlocker, NkBdeOpen
  <1> HIDE DEF f, uD, uDev, uVol
  <1>3. b \in Seq(Entry) /\ Len(b) = 2 /\ b[1] = Get("vol", uDev) /\ b[2] = Get("v", uVol)
    BY <1>1, SMTT(40) DEF Get, Entry, Objects
  <1>4. /\ o \in Seq(Entry) /\ Len(o) = 8
        /\ o[1] = Get("b", <<>>) /\ o[2] = Get("bctx", <<"b">>)
        /\ o[3] = Get("bfio", <<"bctx", "b">>) /\ o[4] = Get("bdevol", f)
        /\ o[5] = Get(Nothing, f) /\ o[6] = Get(Nothing, f)
        /\ o[7] = Get("d", f) /\ o[8] = Get("dev", uD)
    BY <1>1, SMTT(40) DEF Get, Entry, Objects
  <1> HIDE DEF o, b
  <1> DEFINE c == o \o b
  <1>5. /\ c \in Seq(Entry) /\ Len(c) = Len(o) + Len(b)
        /\ \A i \in 1 .. Len(o) + Len(b) : c[i] = IF i <= Len(o) THEN o[i] ELSE b[i - Len(o)]
    BY <1>3, <1>4, Concatenated
  <1> HIDE DEF c
  <1>6. Len(c) = 10 /\ \A i \in 1 .. 10 : c[i] = IF i <= 8 THEN o[i] ELSE b[i - 8]
    BY <1>3, <1>4, <1>5, SMTT(40)
  <1>7. /\ c[1] = o[1] /\ c[2] = o[2] /\ c[3] = o[3] /\ c[4] = o[4] /\ c[5] = o[5] /\ c[6] = o[6]
        /\ c[7] = o[7] /\ c[8] = o[8] /\ c[9] = b[1] /\ c[10] = b[2]
    BY <1>6, SMTT(40)
  <1> QED  BY <1>2, <1>3, <1>4, <1>5, <1>6, <1>7 DEF c, f, uD, uDev, uVol

\* nk_mount_bitlocker, with nk_bde_open, cleans up after itself.
LEMMA PlanBde == Plan(NkMountBitlocker, {}, Bde)
  <1> DEFINE s == NkMountBitlocker
  <1>1. s \in Seq(Entry) /\ Len(s) = 10  BY BdeEntries
  <1>2. /\ s[1].get = "b" /\ s[2].get = "bctx" /\ s[3].get = "bfio" /\ s[4].get = "bdevol"
        /\ s[5].get = Nothing /\ s[6].get = Nothing /\ s[7].get = "d" /\ s[8].get = "dev"
        /\ s[9].get = "vol" /\ s[10].get = "v"
    BY BdeEntries, SMTT(40) DEF Get
  <1>3. /\ s[1].undo = <<>> /\ s[2].undo = <<"b">> /\ s[3].undo = <<"bctx", "b">> /\ s[4].undo = BdeFail
        /\ s[5].undo = BdeFail /\ s[6].undo = BdeFail /\ s[7].undo = BdeFail
        /\ s[8].undo = <<"d">> \o BdeFail /\ s[9].undo = <<"dev">> \o BdeFree
        /\ s[10].undo = <<"vol">> \o BdeFree
    BY BdeEntries, SMTT(40) DEF Get
  <1> HIDE DEF s
  <1>4. Bde = {x \in Objects : x \in {} \/ \E j \in 1 .. Len(s) : s[j].get = x}
    BY <1>1, <1>2, SMTT(40) DEF Bde, Objects, Nothing
  <1>5. /\ Before(s, {}, 1) = {} /\ Before(s, {}, 2) = {"b"} /\ Before(s, {}, 3) = {"b", "bctx"}
        /\ Before(s, {}, 4) \subseteq {"b", "bctx", "bfio", "bdevol"}
        /\ Before(s, {}, 5) \subseteq {"b", "bctx", "bfio", "bdevol"}
    BY <1>2, SMTT(40) DEF Before, Objects, Nothing
  <1>6. /\ Before(s, {}, 6) \subseteq {"b", "bctx", "bfio", "bdevol"}
        /\ Before(s, {}, 7) \subseteq {"b", "bctx", "bfio", "bdevol"}
        /\ Before(s, {}, 8) \subseteq {"b", "bctx", "bfio", "bdevol", "d"}
    BY <1>2, SMTT(40) DEF Before, Objects, Nothing
  <1>7. /\ Before(s, {}, 9) \subseteq {"b", "bctx", "bfio", "bdevol", "d", "dev"}
        /\ Before(s, {}, 10) \subseteq {"b", "bctx", "bfio", "bdevol", "d", "dev", "vol"}
    BY <1>2, SMTT(40) DEF Before, Objects, Nothing
  <1>8. ASSUME NEW k \in 1 .. Len(s) PROVE Cleans(s[k].undo, Before(s, {}, k))
    <2>1. k \in 1 .. 10  BY <1>1
    <2>2. CASE k \in 1 .. 3
      <3>1. k = 1 \/ k = 2 \/ k = 3  BY <2>2, SMTT(40)
      <3> QED  BY <3>1, <1>3, <1>5, CleanupLists
    <2>3. CASE k \in 4 .. 7
      <3>1. s[k].undo = BdeFail /\ Before(s, {}, k) \subseteq {"b", "bctx", "bfio", "bdevol"}
        <4>1. k = 4 \/ k = 5 \/ k = 6 \/ k = 7  BY <2>3, SMTT(40)
        <4> QED  BY <4>1, <1>3, <1>5, <1>6
      <3> QED  BY <3>1, CleanupLists, CleansLess
    <2>4. CASE k = 8  BY <2>4, <1>3, <1>6, CleanupLists, CleansLess, SMTT(40)
    <2>5. CASE k = 9  BY <2>5, <1>3, <1>7, CleanupLists, CleansLess, SMTT(40)
    <2>6. CASE k = 10  BY <2>6, <1>3, <1>7, CleanupLists, CleansLess, SMTT(40)
    <2> QED  BY <2>1, <2>2, <2>3, <2>4, <2>5, <2>6, SMTT(40)
  <1> QED  BY <1>1, <1>4, <1>8 DEF Plan, s

\* The rest of a script, once its first entry is there.
LEMMA PlanTail ==
  ASSUME NEW s, NEW S, NEW T, Plan(s, S, T), s # <<>>
  PROVE  /\ Head(s) \in Entry /\ Cleans(Head(s).undo, {x \in Objects : x \in S})
         /\ Plan(Tail(s), {x \in Objects : x \in S \/ x = Head(s).get}, T)
  <1> DEFINE t == Tail(s)  N == {x \in Objects : x \in S \/ x = Head(s).get}
  <1>1. s \in Seq(Entry) /\ Len(s) \in Nat \ {0} /\ Head(s) = s[1] /\ Head(s) \in Entry
    BY SMTT(40) DEF Plan
  <1>2. t \in Seq(Entry) /\ Len(t) = Len(s) - 1 /\ \A i \in 1 .. Len(t) : t[i] = s[i + 1]
    BY <1>1, SMTT(40)
  <1> HIDE DEF t
  <1>3. Before(s, S, 1) = {x \in Objects : x \in S}  BY SMTT(40) DEF Before
  <1>4. Cleans(Head(s).undo, {x \in Objects : x \in S})
    <2>1. Cleans(s[1].undo, Before(s, S, 1))  BY <1>1, SMTT(40) DEF Plan
    <2> QED  BY <1>1, <1>3, <2>1
  <1>5. ASSUME NEW k \in 1 .. Len(t) PROVE Cleans(t[k].undo, Before(t, N, k))
    <2>1. Before(t, N, k) \subseteq Before(s, S, k + 1)
      <3>1. ASSUME NEW x \in Objects, NEW j \in 1 .. k - 1, t[j].get = x
            PROVE  \E i \in 1 .. (k + 1) - 1 : s[i].get = x
        <4>1. j \in 1 .. Len(t) /\ j + 1 \in 1 .. (k + 1) - 1  BY <1>1, <1>2, SMTT(40)
        <4>2. s[j + 1].get = x  BY <1>2, <3>1, <4>1
        <4> QED  BY <4>1, <4>2
      <3>2. ASSUME NEW x \in Objects, x = Head(s).get PROVE \E i \in 1 .. (k + 1) - 1 : s[i].get = x
        BY <1>1, <1>2, <3>2, SMTT(40)
      <3> QED  BY <3>1, <3>2 DEF Before
    <2>2. k + 1 \in 1 .. Len(s) /\ t[k].undo = s[k + 1].undo  BY <1>1, <1>2, SMTT(40)
    <2>3. Cleans(s[k + 1].undo, Before(s, S, k + 1))  BY <2>2 DEF Plan
    <2> QED  BY <2>1, <2>2, <2>3, CleansLess
  <1>6. T = {x \in Objects : x \in N \/ \E j \in 1 .. Len(t) : t[j].get = x}
    <2>1. ASSUME NEW x \in Objects
          PROVE (\E j \in 1 .. Len(s) : s[j].get = x) <=> x = Head(s).get \/ \E j \in 1 .. Len(t) : t[j].get = x
      <3>1. ASSUME NEW j \in 1 .. Len(s), s[j].get = x, j # 1 PROVE \E i \in 1 .. Len(t) : t[i].get = x
        <4>1. j - 1 \in 1 .. Len(t) /\ t[j - 1] = s[(j - 1) + 1] /\ (j - 1) + 1 = j  BY <1>1, <1>2, <3>1, SMTT(40)
        <4> QED  BY <3>1, <4>1
      <3>2. ASSUME NEW j \in 1 .. Len(t), t[j].get = x PROVE \E i \in 1 .. Len(s) : s[i].get = x
        BY <1>1, <1>2, <3>2, SMTT(40)
      <3> QED  BY <1>1, <3>1, <3>2, SMTT(40)
    <2> QED  BY <2>1 DEF Plan
  <1> QED  BY <1>1, <1>2, <1>4, <1>5, <1>6 DEF Plan, t

\* What is allocated.
Heap == {x \in Objects : obj[x] = "live"}

\* What there is when a call is through.
Target(kind) == CASE kind \in {"activate", "mount"} -> Io
                  [] kind = "path" -> {"vol", "v"}
                  [] kind = "bde" -> Bde
                  [] kind = "fsck" -> Fsck
                  [] OTHER -> {}

\* The calls that open something.
Calls == {"activate", "mount", "path", "bde", "fsck"}

\* A call in progress.
CallRec == [kind : {"idle", "umount"} \cup Calls, todo : Seq(Entry), undo : Seq(Objects),
            ok : BOOLEAN, ro : BOOLEAN]

\* Types.
HeapTypes ==
    /\ geo \in [bs : BlockSizes, cs : ClusterSizes]
    /\ obj \in [Objects -> {"none", "live", "freed"}] /\ unsafe = FALSE
    /\ readOnly \in BOOLEAN /\ active \in BOOLEAN /\ clusterSize \in {0} \cup ClusterSizes
    /\ vol \in [kind : {"none", "io", "path", "bde"}, ro : BOOLEAN]
    /\ vol.kind = "none" => vol = NoVol
    /\ call \in CallRec

\* Between calls the heap is the volume's ...
AtRest == Idle => /\ call = NoCall /\ Heap \ {"wr"} = Owned
                  /\ vol = NoVol => "wr" \notin Heap
\* ... a call that opens something is on the way to its target ...
Getting == call.kind \in Calls =>
    /\ vol = NoVol
    /\ call.ok => /\ call.undo = <<>> /\ \A x \in Objects : obj[x] # "freed"
                  /\ Plan(call.todo, Heap, Target(call.kind))
\* ... and one that closes, or cleans up, frees what there is in order.
Freeing == call.kind = "umount" \/ (call.kind \in Calls /\ ~call.ok) =>
    /\ call.todo = <<>> /\ Cleans(call.undo, Heap)
    /\ \A i \in 1 .. Len(call.undo) : SafeToFree(call.undo[i])

\* The heap invariant.
HeapInv == HeapTypes /\ AtRest /\ Getting /\ Freeing

\* Nothing is allocated at first.
LEMMA HeapInit == MountInit => HeapInv
  <1> SUFFICES ASSUME MountInit PROVE HeapInv
    OBVIOUS
  <1>1. call = NoCall /\ vol = NoVol /\ call.kind = "idle" /\ vol.kind = "none" /\ obj = [x \in Objects |-> "none"]
    BY DEF MountInit, NoCall, NoVol
  <1>2. HeapTypes
    <2>1. call \in CallRec
      BY <1>1, SMTT(40) DEF NoCall, CallRec
    <2>2. vol \in [kind : {"none", "io", "path", "bde"}, ro : BOOLEAN]  BY <1>1 DEF NoVol
    <2> QED  BY <2>1, <2>2, <1>1 DEF HeapTypes, MountInit
  <1>3. AtRest  BY <1>1 DEF AtRest, Heap, Owned
  <1> QED  BY <1>1, <1>2, <1>3 DEF HeapInv, Getting, Freeing, Calls

\* A call starts with an empty heap and the plan of its script.
LEMMA HeapBegin ==
  ASSUME HeapInv, NEW kind \in Calls, NEW s, NEW ro \in BOOLEAN, Begin(kind, s, <<>>, ro),
         Heap = {}, vol = NoVol, Plan(s, {}, Target(kind)),
         UNCHANGED <<geo, unsafe, vol, readOnly, active, clusterSize>>
  PROVE  HeapInv'
  <1>1. call' = [kind |-> kind, todo |-> s, undo |-> <<>>, ok |-> TRUE, ro |-> ro]
    BY DEF Begin
  <1>2. obj' = [x \in Objects |-> IF obj[x] = "freed" THEN "none" ELSE obj[x]]
    BY DEF Begin
  <1>3. /\ call'.kind = kind /\ call'.todo = s /\ call'.undo = <<>> /\ call'.ok = TRUE
        /\ call' \in CallRec
    BY <1>1, SMTT(40) DEF Plan, CallRec
  <1>4. /\ obj' \in [Objects -> {"none", "live", "freed"}] /\ Heap' = {}
        /\ \A x \in Objects : obj'[x] # "freed"
    BY <1>2 DEF HeapInv, HeapTypes, Heap
  <1>5. HeapTypes'  BY <1>3, <1>4 DEF HeapInv, HeapTypes
  <1>6. kind # "idle" /\ kind # "umount"  BY DEF Calls
  <1>7. AtRest' /\ Freeing'  BY <1>3, <1>6 DEF AtRest, Freeing, Idle
  <1>8. Getting'
    <2>1. Plan(call'.todo, Heap', Target(call'.kind))  BY <1>3, <1>4
    <2> QED  BY <1>3, <1>4, <2>1 DEF Getting, Target
  <1> QED  BY <1>5, <1>7, <1>8 DEF HeapInv

\* Between calls with no volume nothing is allocated.
LEMMA HeapEmpty == ASSUME HeapInv, Idle, vol = NoVol PROVE Heap = {}
  <1>1. Owned = {}  BY DEF Owned, NoVol
  <1> QED  BY <1>1 DEF HeapInv, AtRest

\* One more thing is there.
LEMMA HeapGetOk == ASSUME HeapInv, GetOk PROVE HeapInv'
  <1>1. /\ call.todo # <<>> /\ call' = [call EXCEPT !.todo = Tail(@)]
        /\ obj' = [x \in Objects |-> IF x = Head(call.todo).get THEN "live" ELSE obj[x]]
        /\ UNCHANGED <<geo, unsafe, vol, readOnly, active, clusterSize>>
    BY DEF GetOk
  <1>2. call.kind \in Calls /\ call.ok /\ call.undo = <<>>
    BY <1>1, SMTT(40) DEF HeapInv, HeapTypes, AtRest, Getting, Freeing, Idle, NoCall, CallRec
  <1>3. /\ Plan(call.todo, Heap, Target(call.kind)) /\ \A x \in Objects : obj[x] # "freed"
    BY <1>2 DEF HeapInv, Getting
  <1>4. Plan(Tail(call.todo), {x \in Objects : x \in Heap \/ x = Head(call.todo).get}, Target(call.kind))
    BY <1>1, <1>3, PlanTail
  <1>5. Heap' = {x \in Objects : x \in Heap \/ x = Head(call.todo).get}
    BY <1>1 DEF Heap
  <1>6. /\ call'.kind = call.kind /\ call'.todo = Tail(call.todo) /\ call'.undo = <<>> /\ call'.ok = call.ok
        /\ call' \in CallRec
    <2>1. /\ call \in CallRec
          /\ Tail(call.todo) \in Seq(Entry)
      BY <1>1, SMTT(40) DEF HeapInv, HeapTypes, CallRec
    <2> DEFINE t == Tail(call.todo)
    <2>2. call' = [call EXCEPT !.todo = t] /\ t \in Seq(Entry)  BY <1>1, <2>1
    <2> HIDE DEF t
    <2>3. /\ call'.kind = call.kind /\ call'.todo = t /\ call'.undo = call.undo /\ call'.ok = call.ok
          /\ call' \in CallRec
      BY <2>1, <2>2 DEF CallRec
    <2> QED  BY <1>2, <2>3 DEF t
  <1>7. obj' \in [Objects -> {"none", "live", "freed"}] /\ \A x \in Objects : obj'[x] # "freed"
    BY <1>1, <1>3 DEF HeapInv, HeapTypes
  <1>8. HeapTypes'  BY <1>1, <1>6, <1>7 DEF HeapInv, HeapTypes
  <1>9. AtRest' /\ Freeing'  BY <1>2, <1>6 DEF AtRest, Freeing, Idle, Calls
  <1>10. Getting'
    <2>1. Plan(call'.todo, Heap', Target(call'.kind))  BY <1>4, <1>5, <1>6
    <2>2. vol' = NoVol  BY <1>1, <1>2 DEF HeapInv, Getting
    <2> QED  BY <1>6, <1>7, <2>1, <2>2 DEF Getting, Target
  <1> QED  BY <1>8, <1>9, <1>10 DEF HeapInv

\* It is not, and the cleanup is the right one.
LEMMA HeapGetFail == ASSUME HeapInv, GetFail PROVE HeapInv'
  <1>1. /\ call.todo # <<>>
        /\ call' = [call EXCEPT !.todo = <<>>, !.undo = Head(call.todo).undo, !.ok = FALSE]
        /\ UNCHANGED <<geo, obj, unsafe, vol, readOnly, active, clusterSize>>
    BY DEF GetFail
  <1>2. call.kind \in Calls /\ call.ok
    BY <1>1, SMTT(40) DEF HeapInv, HeapTypes, AtRest, Getting, Freeing, Idle, NoCall, CallRec
  <1>3. /\ Plan(call.todo, Heap, Target(call.kind)) /\ \A x \in Objects : obj[x] # "freed"
    BY <1>2 DEF HeapInv, Getting
  <1>4. Head(call.todo) \in Entry /\ Cleans(Head(call.todo).undo, {x \in Objects : x \in Heap})
    BY <1>1, <1>3, PlanTail
  <1>5. {x \in Objects : x \in Heap} = Heap  BY DEF Heap
  <1>6. /\ call'.kind = call.kind /\ call'.todo = <<>> /\ call'.undo = Head(call.todo).undo
        /\ call'.ok = FALSE
        /\ call' \in CallRec
    <2> DEFINE w == Head(call.todo).undo
    <2>1. /\ call \in CallRec
          /\ w \in Seq(Objects) /\ <<>> \in Seq(Entry)
      BY <1>4, SMTT(40) DEF HeapInv, HeapTypes, Entry
    <2>2. call' = [call EXCEPT !.todo = <<>>, !.undo = w, !.ok = FALSE]  BY <1>1
    <2> HIDE DEF w
    <2>3. /\ call'.kind = call.kind /\ call'.todo = <<>> /\ call'.undo = w /\ call'.ok = FALSE
          /\ call' \in CallRec
      BY <2>1, <2>2 DEF CallRec
    <2> QED  BY <2>3 DEF w
  <1>7. HeapTypes' /\ Heap' = Heap  BY <1>1, <1>6 DEF HeapInv, HeapTypes, Heap
  <1>8. AtRest' /\ Getting'  BY <1>1, <1>2, <1>6 DEF AtRest, Getting, HeapInv, Idle, Calls
  <1>9. \A x \in Objects : SafeToFree(x)'
    <2>1. \A x \in Objects : \A y \in Reads[x] : y \in Objects
      BY ReadsOf DEF Objects
    <2> QED  BY <1>1, <1>3, <2>1 DEF SafeToFree
  <1>10. \A i \in 1 .. Len(call'.undo) : call'.undo[i] \in Objects  BY <1>6, SMTT(40) DEF CallRec
  <1>11. Cleans(call'.undo, Heap')  BY <1>4, <1>5, <1>6, <1>7
  <1>12. Freeing'  BY <1>6, <1>9, <1>10, <1>11 DEF Freeing
  <1> QED  BY <1>7, <1>8, <1>12 DEF HeapInv

\* The next object of the list is freed; the others stay safe to free.
LEMMA HeapFree == ASSUME HeapInv, FreeNext PROVE HeapInv'
  <1> DEFINE u == call.undo  t == Tail(call.undo)  x == Head(call.undo)
  <1>1. /\ call.todo = <<>> /\ u # <<>> /\ unsafe' = (unsafe \/ ~SafeToFree(x))
        /\ obj' = [y \in Objects |-> IF y \in Released(x) THEN "freed" ELSE obj[y]]
        /\ call' = [call EXCEPT !.undo = Tail(@)]
        /\ UNCHANGED <<geo, vol, readOnly, active, clusterSize>>
    BY DEF FreeNext
  <1>2. call.kind = "umount" \/ (call.kind \in Calls /\ ~call.ok)
    BY <1>1, SMTT(40) DEF HeapInv, HeapTypes, AtRest, Getting, Idle, NoCall, CallRec
  <1>3. /\ Ordered(u) /\ Covers(u, Heap) /\ \A i \in 1 .. Len(u) : SafeToFree(u[i])
    BY <1>2 DEF HeapInv, Freeing, Cleans
  <1>4. u \in Seq(Objects) /\ Len(u) \in Nat \ {0} /\ x = u[1] /\ x \in Objects
    BY <1>1, <1>3, SMTT(40) DEF Ordered
  <1>5. t \in Seq(Objects) /\ Len(t) = Len(u) - 1 /\ \A i \in 1 .. Len(t) : t[i] = u[i + 1] /\ t[i] \in Objects
    BY <1>4, SMTT(40)
  <1>6. unsafe' = FALSE
    <2>1. SafeToFree(x)  BY <1>3, <1>4, SMTT(40)
    <2>2. unsafe = FALSE  BY DEF HeapInv, HeapTypes
    <2> QED  BY <1>1, <2>1, <2>2
  <1>7. /\ call'.kind = call.kind /\ call'.todo = <<>> /\ call'.undo = t /\ call'.ok = call.ok
        /\ call' \in CallRec
    BY <1>1, <1>5 DEF HeapInv, HeapTypes, CallRec
  <1> HIDE DEF u, t, x
  <1>8. Released(x) \subseteq Takes(x) /\ Released(x) \subseteq Objects
        /\ \A y \in Heap : y \in Takes(x) => y \in Released(x)
    BY DEF Released, Takes, Heap
  <1>9. obj' \in [Objects -> {"none", "live", "freed"}] /\ Heap' = Heap \ Released(x)
    BY <1>1 DEF HeapInv, HeapTypes, Heap
  <1>10. HeapTypes'  BY <1>1, <1>6, <1>7, <1>9 DEF HeapInv, HeapTypes
  <1>11. Ordered(t)
    <2>1. ASSUME NEW i \in 1 .. Len(t), NEW j \in 1 .. Len(t), i < j
          PROVE  Takes(t[i]) \cap ({t[j]} \cup Reads[t[j]]) = {}
      <3>1. i + 1 \in 1 .. Len(u) /\ j + 1 \in 1 .. Len(u) /\ i + 1 < j + 1  BY <1>4, <1>5, <2>1, SMTT(40)
      <3>2. Takes(u[i + 1]) \cap ({u[j + 1]} \cup Reads[u[j + 1]]) = {}  BY <1>3, <3>1 DEF Ordered
      <3> QED  BY <1>5, <3>2
    <2> QED  BY <1>5, <2>1 DEF Ordered
  <1>12. Covers(t, Heap')
    <2>1. ASSUME NEW y \in Heap' PROVE \E i \in 1 .. Len(t) : y \in Takes(t[i])
      <3>1. y \in Heap /\ y \notin Takes(x)  BY <1>8, <1>9, <2>1
      <3>2. PICK i \in 1 .. Len(u) : y \in Takes(u[i])  BY <1>3, <3>1 DEF Covers
      <3>3. i # 1  BY <1>4, <3>1, <3>2
      <3>4. i - 1 \in 1 .. Len(t) /\ t[i - 1] = u[(i - 1) + 1] /\ (i - 1) + 1 = i  BY <1>4, <1>5, <3>3, SMTT(40)
      <3> QED  BY <3>2, <3>4
    <2> QED  BY <2>1 DEF Covers
  <1>13. ASSUME NEW z, NEW i \in 1 .. Len(t), z = t[i] PROVE SafeToFree(z)'
    <2>1. i + 1 \in 1 .. Len(u) /\ 1 \in 1 .. Len(u) /\ 1 < i + 1 /\ t[i] = u[i + 1] /\ z \in Objects
      BY <1>4, <1>5, <1>13, SMTT(40)
    <2>2. Takes(u[1]) \cap ({u[i + 1]} \cup Reads[u[i + 1]]) = {}  BY <1>3, <2>1 DEF Ordered
    <2>3. SafeToFree(u[i + 1])  BY <1>3, <2>1
    <2>4. SafeToFree(z) /\ Takes(x) \cap ({z} \cup Reads[z]) = {}  BY <1>4, <1>13, <2>1, <2>2, <2>3
    <2>5. \A y \in Reads[z] : y \in Objects  BY <2>1, ReadsOf DEF Objects
    <2>6. \A y \in {z} \cup Reads[z] : obj'[y] = obj[y]
      BY <1>1, <1>8, <2>1, <2>4, <2>5 DEF x
    <2> QED  BY <2>4, <2>6 DEF SafeToFree
  <1>14. Freeing'
    <2>1. ASSUME NEW i \in 1 .. Len(call'.undo) PROVE SafeToFree(call.undo[i])'
      <3> PICK z : z = call'.undo[i]  OBVIOUS
      <3>1. SafeToFree(z)'  BY <1>7, <1>13
      <3> QED  BY <3>1 DEF SafeToFree
    <2> QED  BY <1>7, <1>11, <1>12, <2>1 DEF Freeing, Cleans
  <1>15. AtRest'  BY <1>2, <1>7 DEF AtRest, Idle, Calls
  <1>16. Getting'  BY <1>1, <1>2, <1>7 DEF HeapInv, Getting, Calls
  <1> QED  BY <1>10, <1>14, <1>15, <1>16 DEF HeapInv

\* A call is over.
LEMMA HeapReturn ==
  ASSUME HeapInv, ~Idle, call' = NoCall, UNCHANGED <<geo, obj, unsafe, readOnly>>,
         active' \in BOOLEAN, clusterSize' \in {0} \cup ClusterSizes,
         vol' \in [kind : {"none", "io", "path", "bde"}, ro : BOOLEAN],
         vol'.kind = "none" => vol' = NoVol, Heap = Owned', "wr" \notin Heap
  PROVE  HeapInv'
  <1>1. call'.kind = "idle" /\ call' \in CallRec  BY SMTT(40) DEF NoCall, CallRec
  <1>2. HeapTypes'  BY <1>1 DEF HeapInv, HeapTypes
  <1>3. Heap' = Heap  BY DEF Heap
  <1>4. AtRest'  BY <1>3 DEF AtRest
  <1>5. Getting' /\ Freeing'  BY <1>1 DEF Getting, Freeing, Calls
  <1> QED  BY <1>2, <1>4, <1>5 DEF HeapInv

\* What a call leaves behind: its target, or nothing.
LEMMA HeapLeft ==
  ASSUME HeapInv, ~Idle, call.todo = <<>>, call.undo = <<>>
  PROVE  /\ call.kind \in Calls /\ call.ok => Heap = Target(call.kind) /\ vol = NoVol
         /\ ~(call.kind \in Calls /\ call.ok) => Heap = {}
  <1>1. ASSUME call.kind \in Calls, call.ok PROVE Heap = Target(call.kind) /\ vol = NoVol
    <2>1. Plan(<<>>, Heap, Target(call.kind)) /\ vol = NoVol  BY <1>1 DEF HeapInv, Getting
    <2>2. Len(<<>>) = 0  OBVIOUS
    <2>3. Target(call.kind) = {x \in Objects : x \in Heap}  BY <2>1, <2>2, SMTT(40) DEF Plan
    <2> QED  BY <2>1, <2>3 DEF Heap
  <1>2. ASSUME ~(call.kind \in Calls /\ call.ok) PROVE Heap = {}
    <2>1. Cleans(<<>>, Heap)  BY <1>2 DEF HeapInv, Freeing, HeapTypes, CallRec, Idle
    <2> QED  BY <2>1, SMTT(40) DEF Cleans, Covers
  <1> QED  BY <1>1, <1>2

\* nk_fsck frees what it mounted.
LEMMA HeapFsck == ASSUME HeapInv, FsckUnmounts PROVE HeapInv'
  <1>1. /\ call.kind = "fsck" /\ call.todo = <<>> /\ call.undo = <<>> /\ ~Idle
        /\ UNCHANGED <<geo, obj, unsafe, vol, readOnly, active, clusterSize>>
    BY DEF FsckUnmounts, Returning, Idle
  <1>2. call.kind \in Calls  BY <1>1 DEF Calls
  <1>3. CASE call.ok
    <2>1. call' = [call EXCEPT !.undo = NkFsckEnd, !.ok = FALSE]  BY <1>3 DEF FsckUnmounts
    <2>2. NkFsckEnd \in Seq(Objects)  BY SMTT(40) DEF NkFsckEnd, Objects
    <2>3. /\ call'.kind = "fsck" /\ call'.todo = <<>> /\ call'.undo = NkFsckEnd /\ call'.ok = FALSE
          /\ call' \in CallRec
      BY <1>1, <2>1, <2>2 DEF HeapInv, HeapTypes, CallRec
    <2>4. Heap = Fsck  BY <1>1, <1>2, <1>3, HeapLeft DEF Target
    <2>5. \A x \in Objects : obj[x] # "freed"  BY <1>2, <1>3 DEF HeapInv, Getting
    <2>6. HeapTypes' /\ Heap' = Fsck  BY <1>1, <2>3, <2>4 DEF HeapInv, HeapTypes, Heap
    <2>7. AtRest' /\ Getting'  BY <1>1, <1>2, <2>3 DEF AtRest, Getting, HeapInv, Idle
    <2>8. Cleans(call'.undo, Heap')
      <3>1. Cleans(<<"vol", "ctx">>, Fsck)  BY CleanupLists DEF Fsck
      <3> QED  BY <2>3, <2>6, <3>1 DEF NkFsckEnd
    <2>9. ASSUME NEW i \in 1 .. Len(call'.undo) PROVE SafeToFree(call.undo[i])'
      <3> PICK z \in Objects : z = call'.undo[i]  BY <2>2, <2>3, SMTT(40)
      <3>1. \A y \in Reads[z] : y \in Objects  BY ReadsOf DEF Objects
      <3> QED  BY <1>1, <2>5, <3>1 DEF SafeToFree
    <2>10. Freeing'  BY <2>3, <2>8, <2>9 DEF Freeing
    <2> QED  BY <2>6, <2>7, <2>10 DEF HeapInv
  <1>4. CASE ~call.ok
    <2>1. call' = NoCall  BY <1>4 DEF FsckUnmounts
    <2>2. Heap = {} /\ vol = NoVol  BY <1>1, <1>2, <1>4, HeapLeft DEF HeapInv, Getting
    <2>3. Owned' = {}  BY <1>1, <2>2 DEF Owned, NoVol
    <2> QED  BY <1>1, <2>1, <2>2, <2>3, HeapReturn DEF HeapInv, HeapTypes
  <1> QED  BY <1>3, <1>4

\* nk_umount frees everything there may be.
LEMMA HeapClose == ASSUME HeapInv, NEW deactivate \in BOOLEAN, CloseEngine(deactivate) PROVE HeapInv'
  <1>1. /\ call' = [kind |-> "umount", todo |-> <<>>, undo |-> NkUmount, ok |-> TRUE, ro |-> FALSE]
        /\ obj' = [x \in Objects |-> IF obj[x] = "freed" THEN "none" ELSE obj[x]]
        /\ UNCHANGED <<geo, unsafe, vol, readOnly, clusterSize>> /\ active' \in BOOLEAN
    BY DEF CloseEngine, Begin
  <1>2. Cleans(NkUmount, Objects)  BY CleanupLists
  <1>3. NkUmount \in Seq(Objects)  BY <1>2 DEF Cleans, Ordered
  <1>4. /\ call'.kind = "umount" /\ call'.todo = <<>> /\ call'.undo = NkUmount /\ call' \in CallRec
    BY <1>1, <1>3, SMTT(40) DEF CallRec
  <1>5. /\ obj' \in [Objects -> {"none", "live", "freed"}] /\ \A x \in Objects : obj'[x] # "freed"
    BY <1>1 DEF HeapInv, HeapTypes
  <1>6. HeapTypes'  BY <1>1, <1>4, <1>5 DEF HeapInv, HeapTypes
  <1>7. AtRest' /\ Getting'  BY <1>4 DEF AtRest, Getting, Idle, Calls
  <1>8. Cleans(call'.undo, Heap')  BY <1>2, <1>4, CleansLess, SMTT(40) DEF Heap
  <1>9. ASSUME NEW i \in 1 .. Len(call'.undo) PROVE SafeToFree(call.undo[i])'
    <2> PICK z \in Objects : z = call'.undo[i]  BY <1>3, <1>4, SMTT(40)
    <2>1. \A y \in Reads[z] : y \in Objects  BY ReadsOf DEF Objects
    <2> QED  BY <1>5, <2>1 DEF SafeToFree
  <1>10. Freeing'  BY <1>4, <1>8, <1>9 DEF Freeing
  <1> QED  BY <1>6, <1>7, <1>10 DEF HeapInv

\* Every step of a call keeps the heap.
LEMMA HeapNext == HeapInv /\ [MountNext]_mountVars => HeapInv'
  <1> SUFFICES ASSUME HeapInv, [MountNext]_mountVars PROVE HeapInv'
    OBVIOUS
  <1>0. readOnly \in BOOLEAN /\ active \in BOOLEAN /\ call.ro \in BOOLEAN
        /\ geo.cs \in ClusterSizes /\ clusterSize \in {0} \cup ClusterSizes
        /\ vol \in [kind : {"none", "io", "path", "bde"}, ro : BOOLEAN]
        /\ (vol.kind = "none" => vol = NoVol)
    BY DEF HeapInv, HeapTypes, CallRec
  <1>1. ASSUME NEW kind \in {"activate", "mount"}, OpenEngine(kind) PROVE HeapInv'
    <2>1. /\ Idle /\ vol = NoVol /\ Begin(kind, NkMountIo, <<>>, readOnly) /\ kind \in Calls
          /\ UNCHANGED <<geo, unsafe, vol, readOnly, active, clusterSize>>
      BY <1>1 DEF OpenEngine, Calls
    <2>2. Plan(NkMountIo, {}, Target(kind))  BY PlanIo DEF Target
    <2> QED  BY <1>0, <2>1, <2>2, HeapEmpty, HeapBegin
  <1>2. CASE OpenOther("path", NkMountPath, FALSE)
    <2>1. /\ Idle /\ vol = NoVol /\ Begin("path", NkMountPath, <<>>, FALSE) /\ "path" \in Calls
          /\ UNCHANGED <<geo, unsafe, vol, readOnly, active, clusterSize>>
      BY <1>2 DEF OpenOther, Calls
    <2>2. Plan(NkMountPath, {}, Target("path"))  BY PlanPath DEF Target
    <2> QED  BY <2>1, <2>2, HeapEmpty, HeapBegin
  <1>3. CASE OpenOther("bde", NkMountBitlocker, TRUE)
    <2>1. /\ Idle /\ vol = NoVol /\ Begin("bde", NkMountBitlocker, <<>>, TRUE) /\ "bde" \in Calls
          /\ UNCHANGED <<geo, unsafe, vol, readOnly, active, clusterSize>>
      BY <1>3 DEF OpenOther, Calls
    <2>2. Plan(NkMountBitlocker, {}, Target("bde"))  BY PlanBde DEF Target
    <2> QED  BY <2>1, <2>2, HeapEmpty, HeapBegin
  <1>4. CASE OpenOther("fsck", NkFsck, FALSE)
    <2>1. /\ Idle /\ vol = NoVol /\ Begin("fsck", NkFsck, <<>>, FALSE) /\ "fsck" \in Calls
          /\ UNCHANGED <<geo, unsafe, vol, readOnly, active, clusterSize>>
      BY <1>4 DEF OpenOther, Calls
    <2>2. Plan(NkFsck, {}, Target("fsck"))  BY PlanFsck DEF Target
    <2> QED  BY <2>1, <2>2, HeapEmpty, HeapBegin
  <1>5. CASE OpenedEngine
    <2>1. /\ call.kind \in {"activate", "mount"} /\ call.todo = <<>> /\ call.undo = <<>> /\ call.ok
          /\ vol' = [kind |-> "io", ro |-> call.ro] /\ call' = NoCall
          /\ active' \in BOOLEAN /\ clusterSize' \in {0} \cup ClusterSizes
          /\ readOnly' = (readOnly \/ call.ro) /\ UNCHANGED <<geo, obj, unsafe>>
      BY <1>0, <1>5 DEF OpenedEngine, Returning, FellBack
    <2>2. ~Idle /\ call.kind \in Calls  BY <2>1 DEF Idle, Calls
    <2>3. Heap = Io  BY <2>1, <2>2, HeapLeft DEF Target
    <2>4. vol'.kind = "io" /\ vol' \in [kind : {"none", "io", "path", "bde"}, ro : BOOLEAN]
      BY <1>0, <2>1
    <2>5. Owned' = Io  BY <2>4 DEF Owned, Io
    <2>6. readOnly' \in BOOLEAN  BY <1>0, <2>1
    <2>7. call'.kind = "idle" /\ call' \in CallRec  BY <2>1, SMTT(40) DEF NoCall, CallRec
    <2>8. HeapTypes'  BY <2>1, <2>4, <2>6, <2>7 DEF HeapInv, HeapTypes
    <2>9. Heap' = Io /\ "wr" \notin Io  BY <2>1, <2>3 DEF Heap, Io
    <2>10. AtRest'  BY <2>1, <2>5, <2>9 DEF AtRest
    <2> QED  BY <2>7, <2>8, <2>10 DEF HeapInv, Getting, Freeing, Calls
  <1>6. CASE TryReadOnly
    <2>1. /\ call.kind \in {"activate", "mount"} /\ call.todo = <<>> /\ call.undo = <<>> /\ ~call.ok
          /\ Begin(call.kind, NkMountIo, <<>>, TRUE)
          /\ UNCHANGED <<geo, unsafe, vol, readOnly, active, clusterSize>>
      BY <1>6 DEF TryReadOnly, Returning
    <2>2. ~Idle /\ call.kind \in Calls  BY <2>1 DEF Idle, Calls
    <2>3. Heap = {} /\ vol = NoVol  BY <2>1, <2>2, HeapLeft DEF HeapInv, Getting
    <2> PICK kind \in Calls : kind = call.kind  BY <2>2
    <2>4. Plan(NkMountIo, {}, Target(kind))  BY <2>1, PlanIo DEF Target
    <2>5. Begin(kind, NkMountIo, <<>>, TRUE)  BY <2>1
    <2> QED  BY <2>1, <2>3, <2>4, <2>5, HeapBegin
  <1>7. CASE OpenFailed
    <2>1. /\ call.kind \in {"activate", "mount"} /\ call.todo = <<>> /\ call.undo = <<>> /\ ~call.ok
          /\ call' = NoCall /\ UNCHANGED <<geo, obj, unsafe, vol, readOnly, active, clusterSize>>
      BY <1>7 DEF OpenFailed, Returning
    <2>2. ~Idle /\ call.kind \in Calls  BY <2>1 DEF Idle, Calls
    <2>3. Heap = {} /\ vol = NoVol  BY <2>1, <2>2, HeapLeft DEF HeapInv, Getting
    <2>4. Owned' = {}  BY <2>1, <2>3 DEF Owned, NoVol
    <2> QED  BY <1>0, <2>1, <2>2, <2>3, <2>4, HeapReturn
  <1>8. CASE OpenedOther
    <2>1. /\ call.kind \in {"path", "bde"} /\ call.todo = <<>> /\ call.undo = <<>>
          /\ vol' = IF call.ok THEN [kind |-> call.kind, ro |-> call.ro] ELSE vol
          /\ call' = NoCall /\ UNCHANGED <<geo, obj, unsafe, readOnly, active, clusterSize>>
      BY <1>8 DEF OpenedOther, Returning
    <2>2. ~Idle /\ call.kind \in Calls  BY <2>1 DEF Idle, Calls
    <2>3. CASE call.ok
      <3>1. Heap = Target(call.kind)  BY <2>1, <2>2, <2>3, HeapLeft
      <3>2. /\ vol'.kind = call.kind /\ vol'.kind # "none"
            /\ vol' \in [kind : {"none", "io", "path", "bde"}, ro : BOOLEAN]
        BY <1>0, <2>1, <2>3
      <3>3. Heap = Owned' /\ "wr" \notin Heap
        BY <2>1, <3>1, <3>2 DEF Target, Owned, Bde
      <3> QED  BY <1>0, <2>1, <2>2, <3>2, <3>3, HeapReturn
    <2>4. CASE ~call.ok
      <3>1. Heap = {} /\ vol = NoVol  BY <2>1, <2>2, <2>4, HeapLeft DEF HeapInv, Getting
      <3>2. vol' = vol  BY <2>1, <2>4
      <3>3. Owned' = {}  BY <3>1, <3>2 DEF Owned, NoVol
      <3> QED  BY <1>0, <2>1, <2>2, <3>1, <3>2, <3>3, HeapReturn
    <2> QED  BY <2>3, <2>4
  <1>9. CASE Closed
    <2>1. /\ call.kind = "umount" /\ call.todo = <<>> /\ call.undo = <<>> /\ call' = NoCall /\ vol' = NoVol
          /\ UNCHANGED <<geo, obj, unsafe, readOnly, active, clusterSize>>
      BY <1>9 DEF Closed, Returning
    <2>2. ~Idle /\ call.kind \notin Calls  BY <2>1 DEF Idle, Calls
    <2>3. Heap = {}  BY <2>1, <2>2, HeapLeft
    <2>4. Owned' = {} /\ vol' \in [kind : {"none", "io", "path", "bde"}, ro : BOOLEAN]
      BY <2>1 DEF Owned, NoVol
    <2> QED  BY <1>0, <2>1, <2>2, <2>3, <2>4, HeapReturn
  <1>10. ASSUME NEW cs \in FormatSizes, Reformat(cs) PROVE HeapInv'
    <2>1. /\ Idle /\ geo' \in [bs : BlockSizes, cs : ClusterSizes]
          /\ UNCHANGED <<obj, unsafe, call, vol, readOnly, active, clusterSize>>
      BY <1>10, MountAssumption DEF MountAssumption, Reformat, HeapInv, HeapTypes
    <2>2. HeapTypes' /\ Heap' = Heap  BY <2>1 DEF HeapInv, HeapTypes, Heap
    <2>3. AtRest' /\ Getting' /\ Freeing'
      BY <2>1, <2>2 DEF HeapInv, AtRest, Getting, Freeing, Idle, Owned, Calls
    <2> QED  BY <2>2, <2>3 DEF HeapInv
  <1>11. CASE UNCHANGED mountVars
    <2>1. UNCHANGED <<geo, obj, unsafe, call, vol, readOnly, active, clusterSize>>
      BY <1>11 DEF mountVars
    <2>2. HeapTypes' /\ Heap' = Heap  BY <2>1 DEF HeapInv, HeapTypes, Heap
    <2>3. AtRest' /\ Getting'
      BY <2>1, <2>2 DEF HeapInv, AtRest, Getting, Idle, Owned, Target
    <2>4. Freeing'  BY <2>1, <2>2 DEF HeapInv, Freeing, SafeToFree
    <2> QED  BY <2>2, <2>3, <2>4 DEF HeapInv
  <1> QED
    BY <1>1, <1>2, <1>3, <1>4, <1>5, <1>6, <1>7, <1>8, <1>9, <1>10, <1>11,
       HeapGetOk, HeapGetFail, HeapFree, HeapFsck, HeapClose DEF MountNext

\* What the heap invariant says between calls.
LEMMA HeapHolds == HeapInv => HeapExact /\ MountTypeOK
  <1> SUFFICES ASSUME HeapInv PROVE HeapExact /\ MountTypeOK
    OBVIOUS
  <1>1. HeapExact
    BY DEF HeapInv, HeapTypes, AtRest, Heap, HeapExact, Objects
  <1>2. MountTypeOK
    BY DEF HeapInv, HeapTypes, CallRec, Calls, MountTypeOK
  <1> QED  BY <1>1, <1>2

\* A step of Engine: a step of a call, an operation that may allocate the table
\* of marks, or the end of the process.
LEMMA HeapEngine == HeapInv /\ [EngineNext]_engineVars => HeapInv'
  <1> SUFFICES ASSUME HeapInv, [EngineNext]_engineVars PROVE HeapInv'
    OBVIOUS
  <1>1. CASE MountStep  BY <1>1, HeapNext DEF MountStep
  <1>2. CASE VolumeStep
    <2>1. /\ Idle /\ vol.kind = "io" /\ obj' = [obj EXCEPT !["wr"] = IF Len(wr') > 0 THEN "live" ELSE @]
          /\ UNCHANGED <<geo, unsafe, call, vol, readOnly, active, clusterSize>>
      BY <1>2 DEF VolumeStep, TableOf
    <2>2. /\ obj' \in [Objects -> {"none", "live", "freed"}]
          /\ \A x \in Objects \ {"wr"} : obj'[x] = obj[x]
      BY <2>1 DEF HeapInv, HeapTypes, Objects
    <2>3. Heap' \ {"wr"} = Heap \ {"wr"}  BY <2>2 DEF Heap
    <2>4. vol # NoVol  BY <2>1, SMTT(40) DEF NoVol
    <2>5. HeapTypes'  BY <2>1, <2>2 DEF HeapInv, HeapTypes
    <2>6. AtRest'  BY <2>1, <2>3, <2>4 DEF HeapInv, AtRest, Owned, Idle
    <2> QED  BY <2>1, <2>5, <2>6 DEF HeapInv, Getting, Freeing, Idle, Calls
  <1>3. CASE ProcessDies
    <2>1. /\ obj' = [x \in Objects |-> "none"] /\ call' = NoCall /\ vol' = NoVol /\ active' = FALSE
          /\ clusterSize' = 0 /\ UNCHANGED <<geo, unsafe, readOnly>>
      BY <1>3 DEF ProcessDies
    <2>2. call'.kind = "idle" /\ call' \in CallRec  BY <2>1, SMTT(40) DEF NoCall, CallRec
    <2>3. vol'.kind = "none" /\ vol' \in [kind : {"none", "io", "path", "bde"}, ro : BOOLEAN]
      BY <2>1 DEF NoVol
    <2>4. HeapTypes'  BY <2>1, <2>2, <2>3 DEF HeapInv, HeapTypes
    <2>5. Heap' = {} /\ Owned' = {}  BY <2>1, <2>3 DEF Heap, Owned
    <2> QED  BY <2>1, <2>2, <2>4, <2>5 DEF HeapInv, AtRest, Getting, Freeing, Calls
  <1>4. CASE UNCHANGED engineVars  BY <1>4, HeapNext DEF engineVars
  <1> QED  BY <1>1, <1>2, <1>3, <1>4 DEF EngineNext

\* Whichever call of nk_mount_io, nk_mount, nk_bde_open, nk_mount_bitlocker or
\* nk_fsck fails, and through every fallback, unmount and operation between:
\* nothing is freed twice or read after it was freed, and between calls exactly
\* the mounted volume's objects are allocated.
THEOREM HeapIsExact == EngineSpec => []HeapExact
  <1>1. EngineInit => HeapInv  BY HeapInit DEF EngineInit
  <1>2. HeapInv => HeapExact  BY HeapHolds
  <1> QED  BY <1>1, <1>2, HeapEngine, PTL DEF EngineSpec

\* The types of both parts hold of the composition, the exact link counts of
\* nk_create, nk_delete and nk_rename among them.
THEOREM EngineTypes == "crash" \in BridgeEnv => (EngineSpec => []EngineTypeOK)
  <1> SUFFICES ASSUME "crash" \in BridgeEnv PROVE EngineSpec => []EngineTypeOK
    OBVIOUS
  <1>1. EngineSpec => []BridgeTypeOK
    <2>1. EngineSpec => BridgeSpec  BY EngineImplementsBridge
    <2> QED  BY <2>1, LinkCountsExact, PTL
  <1>2. EngineInit => HeapInv  BY HeapInit DEF EngineInit
  <1>3. HeapInv => MountTypeOK  BY HeapHolds
  <1>4. MountTypeOK /\ BridgeTypeOK => EngineTypeOK  BY DEF EngineTypeOK
  <1> QED  BY <1>1, <1>2, <1>3, <1>4, HeapEngine, PTL DEF EngineSpec
=============================================================================
