------------------------------- MODULE Bridge -------------------------------
(***************************************************************************)
(* The name and stream operations of ntfs_bridge.c on MFT records: names     *)
(* with link counts, the wr[] table of KOIO marks keyed by MFT reference,    *)
(* and extended attributes kept as named streams.                            *)
(*                                                                         *)
(* Every call runs on the serial engine queue and addresses its file by      *)
(* path; nk_rename links, deletes and rolls back in one call, and only a     *)
(* crash can come between.  `ntfs` is what libntfs-3g keeps on the volume;   *)
(* a file written by Windows may have several names, and a short 8.3 alias   *)
(* that its link count includes.                                             *)
(***************************************************************************)
EXTENDS Integers, Sequences, FiniteSets

CONSTANTS
    Names,      \* paths, in directories that stay
    MaxRecs,    \* MFT records
    MaxSeq,     \* bound: the sequence number of a record
    MaxValue,   \* bound: the length of an extended attribute
    BridgeEnv   \* see BridgeEnvFlags

\* fail   a library call fails and changes nothing
\* late   a call has changed the volume, and closing its inode fails
\* query  the existence query of setXattr fails
\* crash  the extension dies, or the volume is unmounted
BridgeEnvFlags == {"fail", "late", "query", "crash"}

NoName == "no name"

ASSUME BridgeAssumption ==
    /\ MaxRecs \in Nat \ {0} /\ MaxSeq \in Nat \ {0} /\ MaxValue \in Nat
    /\ BridgeEnv \subseteq BridgeEnvFlags /\ IsFiniteSet(Names) /\ NoName \notin Names

VARIABLES
    ntfs,   \* index: name -> record (0: none), recs: the MFT records
    wr,     \* v->wr: the MFT references of files with a mark
    op      \* the nk_rename in progress, or NoOp

bridgeVars == <<ntfs, wr, op>>

Recs == 1 .. MaxRecs
\* The values of an extended attribute, one of each length.
Values == {[i \in 1 .. k |-> k] : k \in 1 .. MaxValue}
NoStream == {}
NoOp == [st |-> "idle"]
Free(seq) == [seq |-> seq, links |-> 0, alias |-> NoName, strm |-> NoStream]
Rec == [seq : 1 .. MaxSeq, links : Nat, alias : Names \cup {NoName}, strm : SUBSET Seq(Nat)]
NamesOf(v, r) == {n \in Names : v.index[n] = r}

\* Mutant of MkMref: the sequence number is left out.
MkMrefNumber(r, v) == <<r, 1>>

\* nk_mref: record number and sequence number.
MkMref(r, v) == <<r, v.recs[r].seq>>
NkMref(n) == MkMref(ntfs.index[n], ntfs)

-----------------------------------------------------------------------------
(* libntfs-3g, as the bridge uses it.                                       *)

\* ntfs_create in a free record.
NtfsCreate(v, n, r) ==
    [index |-> [v.index EXCEPT ![n] = r],
     recs  |-> [v.recs EXCEPT ![r].links = 1]]

\* Mutant of NtfsLink: the new name is not counted.
NtfsLinkUncounted(v, n, r) == [v EXCEPT !.index = [@ EXCEPT ![n] = r]]

\* ntfs_link.
NtfsLink(v, n, r) ==
    [index |-> [v.index EXCEPT ![n] = r],
     recs  |-> [v.recs EXCEPT ![r].links = @ + 1]]

\* ntfs_delete of a name, and of the alias that goes with it.  The last name
\* takes the file with it; the record's next file has another sequence number.
LinksLeft(v, n) ==
    LET r == v.recs[v.index[n]] IN r.links - (IF r.alias = n THEN 2 ELSE 1)
NtfsDelete(v, n) ==
    LET r == v.index[n]
        f == v.recs[r]
    IN  [index |-> [v.index EXCEPT ![n] = 0],
         recs  |-> [v.recs EXCEPT ![r] =
                       IF LinksLeft(v, n) = 0 THEN Free(f.seq + 1)
                       ELSE [f EXCEPT !.links = LinksLeft(v, n),
                                      !.alias = IF f.alias = n THEN NoName ELSE f.alias]]]

\* The bound: sequence numbers do not wrap.
MayDelete(v, n) == v.recs[v.index[n]].seq < MaxSeq

\* How a call ends: it may fail before it changes the volume, or after.
Outcomes == {"ok"} \cup ({"fail", "late"} \cap BridgeEnv)

-----------------------------------------------------------------------------
(* The wr[] table.                                                          *)

Marked(w, m) == \E i \in 1 .. Len(w) : w[i] = m
\* wr_set: a new entry goes to the end.
WrSet(w, m) == IF Marked(w, m) THEN w ELSE Append(w, m)
\* wr_drop: the last entry takes the place of the one that goes.
WrDrop(w, m) ==
    LET at == CHOOSE i \in 1 .. Len(w) : w[i] = m
    IN  IF Marked(w, m)
        THEN [i \in 1 .. Len(w) - 1 |-> IF i = at THEN w[Len(w)] ELSE w[i]]
        ELSE w

\* A file Windows left behind: one or two names, with or without an alias.
BridgeInit ==
    /\ wr = <<>> /\ op = NoOp
    /\ \E S \in SUBSET Names, a \in Names \cup {NoName} :
          /\ S # {} /\ a \in S \cup {NoName}
          /\ ntfs = [index |-> [n \in Names |-> IF n \in S THEN 1 ELSE 0],
                     recs  |-> [r \in Recs |->
                         IF r = 1
                         THEN [seq |-> 1, links |-> Cardinality(S) + (IF a = NoName THEN 0 ELSE 1),
                               alias |-> a, strm |-> NoStream]
                         ELSE Free(1)]]

Here(n) == op = NoOp /\ ntfs.index[n] # 0

\* nk_create, nk_mkdir and nk_create_symlink: a failed close is reported by
\* the first two, and the name stays.
NkCreate(n, r) ==
    /\ op = NoOp /\ ntfs.index[n] = 0 /\ ntfs.recs[r].links = 0
    /\ ntfs' = NtfsCreate(ntfs, n, r)
    /\ UNCHANGED <<wr, op>>

\* Mutant of LastName: the mark goes with any name.
AnyName(n) == TRUE
\* The link count nk_delete looks at before it deletes.
LastName(n) == ntfs.recs[ntfs.index[n]].links <= 1

\* nk_delete: the mark goes with the last name, if the delete succeeds.
Deleted(n, o) ==
    /\ MayDelete(ntfs, n)
    /\ ntfs' = IF o # "fail" THEN NtfsDelete(ntfs, n) ELSE ntfs
    /\ wr' = IF o = "ok" /\ LastName(n) THEN WrDrop(wr, NkMref(n)) ELSE wr

NkDelete(n) ==
    /\ Here(n)
    /\ \E o \in Outcomes : Deleted(n, o)
    /\ UNCHANGED op

-----------------------------------------------------------------------------
(* nk_rename: link under the new name, then delete the old one.             *)

\* Mutant of RenameLink: the old name goes first.
RenameLinkMoves(old, new) ==
    /\ Here(old) /\ ntfs.index[new] = 0 /\ MayDelete(ntfs, old)
    /\ ntfs' = NtfsDelete(ntfs, old)
    /\ op' = [st |-> "linked", old |-> old, new |-> new, gone |-> TRUE]
    /\ UNCHANGED wr

\* Onto another name of the same file nothing happens, onto another file
\* ntfs_link refuses.
RenameLink(old, new) ==
    /\ Here(old) /\ ntfs.index[new] = 0
    /\ ntfs' = NtfsLink(ntfs, new, ntfs.index[old])
    /\ op' = [st |-> "linked", old |-> old, new |-> new, gone |-> FALSE]
    /\ UNCHANGED wr

RenameDelete ==
    /\ op.st = "linked"
    /\ \E o \in Outcomes :
          /\ Deleted(op.old, o)
          /\ op' = IF o = "ok" THEN NoOp ELSE [op EXCEPT !.st = "rollback", !.gone = (o = "late")]

\* The new link goes again; its inode is opened by reference, and no error of
\* this is looked at.
RenameRollback ==
    /\ op.st = "rollback"
    /\ MayDelete(ntfs, op.new)
    /\ \E o \in Outcomes : ntfs' = IF o # "fail" THEN NtfsDelete(ntfs, op.new) ELSE ntfs
    /\ op' = NoOp
    /\ UNCHANGED wr

-----------------------------------------------------------------------------
(* Marks.                                                                   *)

\* nk_blockmap for a write records the window.
NkBlockmap(n) ==
    /\ Here(n)
    /\ wr' = WrSet(wr, NkMref(n))
    /\ UNCHANGED <<ntfs, op>>

\* nk_complete_write or nk_abort_write settled the last window.
NkSettle(n) ==
    /\ Here(n)
    /\ wr' = WrDrop(wr, NkMref(n))
    /\ UNCHANGED <<ntfs, op>>

\* nk_umount, or the end of the process: the table is gone.
Crash ==
    /\ "crash" \in BridgeEnv
    /\ wr' = <<>> /\ op' = NoOp
    /\ UNCHANGED ntfs

-----------------------------------------------------------------------------
(* Extended attributes.                                                     *)

\* ntfs_attr_pwrite of the first k bytes of val, and ntfs_attr_truncate.
Overwritten(s, val, k) == SubSeq(val, 1, k) \o SubSeq(s, k + 1, Len(s))
Truncated(s, k) == [i \in 1 .. k |-> IF i <= Len(s) THEN s[i] ELSE 0]

\* Mutant of ReplaceStages: the stream is emptied first.
ReplaceStagesReversed(s, val) ==
    {Truncated(<<>>, Len(val))} \cup {Overwritten(Truncated(<<>>, Len(val)), val, k) : k \in 0 .. Len(val)}

\* What a replaced stream may hold when nk_xattr_set stops: overwrite first,
\* then shrink.
ReplaceStages(s, val) ==
    {Overwritten(s, val, k) : k \in 0 .. Len(val)}

WithStream(r, s) == [ntfs EXCEPT !.recs[r].strm = s]

Policies == {"always", "mustCreate", "mustReplace"}

\* setXattr with a value: the policy, then nk_xattr_set in the same hold.  A
\* failed query counts as "not there".
SetXattr(n, val, policy) ==
    LET r   == ntfs.index[n]
        old == ntfs.recs[r].strm
    IN  /\ Here(n)
        /\ \E present \in {old # NoStream} \cup {p \in {FALSE} : "query" \in BridgeEnv} :
              /\ policy = "mustCreate" => ~present
              /\ policy = "mustReplace" => present
        /\ \/ ntfs' = WithStream(r, {val})
           \/ /\ "fail" \in BridgeEnv
              /\ \E s \in old : \E t \in ReplaceStages(s, val) : ntfs' = WithStream(r, {t})
        /\ UNCHANGED <<wr, op>>

\* setXattr without a value, or with the policy to delete: nk_xattr_remove.
RemoveXattr(n) ==
    /\ Here(n) /\ ntfs.recs[ntfs.index[n]].strm # NoStream
    /\ ntfs' = WithStream(ntfs.index[n], NoStream)
    /\ UNCHANGED <<wr, op>>

BridgeNext ==
    \/ \E n \in Names, r \in Recs : NkCreate(n, r)
    \/ \E n \in Names : NkDelete(n)
    \/ \E old, new \in Names : RenameLink(old, new)
    \/ RenameDelete \/ RenameRollback
    \/ \E n \in Names : NkBlockmap(n)
    \/ \E n \in Names : NkSettle(n)
    \/ \E n \in Names, val \in Values, policy \in Policies : SetXattr(n, val, policy)
    \/ \E n \in Names : RemoveXattr(n)
    \/ Crash

BridgeSpec == BridgeInit /\ [][BridgeNext]_bridgeVars
-----------------------------------------------------------------------------
\* Types of the volume, of the table and of a rename in progress; a link count
\* counts the names and the alias, which belongs to one of the names.
BridgeTypeOK ==
    /\ ntfs.index \in [Names -> 0 .. MaxRecs]
    /\ ntfs.recs \in [Recs -> Rec]
    /\ \A r \in Recs : LET f == ntfs.recs[r] IN
          /\ f.links = Cardinality(NamesOf(ntfs, r)) + (IF f.alias = NoName THEN 0 ELSE 1)
          /\ f.alias \in NamesOf(ntfs, r) \cup {NoName}
    /\ wr \in Seq(Recs \X (1 .. MaxSeq))
    /\ op.st \in {"idle", "linked", "rollback"}

\* A file goes only with its last name and only in nk_delete, whatever fails
\* and wherever a rename is cut short; or in the rollback of nk_rename, when
\* deleting the old name had reported a failure after it took the name away.
FileKept ==
    [][\A r \in Recs : ntfs'.recs[r].seq # ntfs.recs[r].seq =>
          \/ \E n \in Names : NkDelete(n) /\ NamesOf(ntfs, r) = {n}
          \/ op.st = "rollback" /\ op.gone /\ NamesOf(ntfs, r) = {op.new}]_bridgeVars

\* The mark of a file in wr[] outlives renames, deletes of other names and of
\* other files ("nk_rename's delete of the old name runs with 2 links, so
\* in-flight state survives it"): while the file is there, only a completion
\* or an abort of its own, or the end of the mount, takes it.
MarkFollowsFile ==
    [][\A r \in Recs :
          /\ Marked(wr, MkMref(r, ntfs)) /\ ~Marked(wr', MkMref(r, ntfs))
          /\ ntfs'.recs[r].seq = ntfs.recs[r].seq
          => \/ \E n \in NamesOf(ntfs, r) : NkSettle(n)
             \/ Crash]_bridgeVars

\* A new file in a reused MFT record finds no mark, though a file with an alias,
\* or a delete that failed late, leaves its entry in wr[]; and no file has two.
NoInheritedMark ==
    /\ \A r \in Recs : ntfs.recs[r].links = 0 => ~Marked(wr, MkMref(r, ntfs))
    /\ \A i, j \in 1 .. Len(wr) : wr[i] = wr[j] => i = j

\* "a failed write leaves the old (or mixed) value, never a zeroed stream":
\* every byte of an attribute is one somebody set, and an attribute goes only
\* when it is removed, or with its file.
XattrNeverZeroed ==
    [][\A r \in Recs : LET old == ntfs.recs[r] new == ntfs'.recs[r] IN
          /\ \A s \in new.strm : \A i \in 1 .. Len(s) : s[i] # 0
          /\ old.strm # {} /\ new.strm = {} /\ new.seq = old.seq
             => \E n \in NamesOf(ntfs, r) : RemoveXattr(n)]_bridgeVars
=============================================================================
