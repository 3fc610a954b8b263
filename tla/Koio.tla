-------------------------------- MODULE Koio --------------------------------
(***************************************************************************)
(* Kernel-offloaded I/O of one file: the write path of ntfs_bridge.c in     *)
(* which the kernel writes file data straight to the clusters that          *)
(* nk_blockmap handed out, and nk_complete_write / nk_abort_write are told  *)
(* about the outcome later.                                                 *)
(*                                                                         *)
(* The state of the file is the $DATA attribute `na` (size, initialized     *)
(* size, which clusters are allocated, what is on disk) and the high-water  *)
(* mark `hwm` of the bridge's wr[] table (0 when the file has no entry).    *)
(* `wins` are the kernel's outstanding writes: mapped, and their completeIO *)
(* upcall not yet delivered.  Every bridge call runs on the serial engine   *)
(* queue, so one call is one step.                                          *)
(*                                                                         *)
(* A byte on disk is "stale" (whatever the cluster held before, bytes cut   *)
(* off by a truncation, or the garbage of a torn write), "zero", or "data"  *)
(* (bytes the kernel wrote for this file).                                  *)
(***************************************************************************)
EXTENDS Integers, FiniteSets

CONSTANTS
    MaxSize,      \* bound: largest file size, in bytes of the model
    ClusterSize,  \* vol->cluster_size
    BlockSize,    \* bs, the device block; kernel windows are aligned to it
    MaxWins,      \* bound: outstanding kernel writes
    Env           \* what the kernel and the device may do, see EnvFlags

\* reorder    completions are delivered in any order
\* fail       a kernel write may fail
\* overtaken  a write may fail after a higher write was completed over it
\* truncate   the size is changed while writes are outstanding
\* regrow     a file cut below an outstanding write grows before its upcall
\* truncfail  ntfs_attr_truncate may fail
\* maperr     a map may fail before the window is recorded
\* laterr     a map may fail after the window was recorded
\* nomap      a write is completed without a map of its own
\* comperr    nk_complete_write may fail, its completeIO upcall with it
\* aborterr   the zeroing of nk_abort_write may fail (its result is ignored)
\* crash      the extension dies, or the volume is unmounted
EnvFlags == {"reorder", "fail", "overtaken", "truncate", "regrow", "truncfail",
             "maperr", "laterr", "nomap", "comperr", "aborterr", "crash"}

ASSUME SizeAssumption == /\ MaxSize \in Nat \ {0}
                         /\ ClusterSize \in Nat \ {0}
                         /\ BlockSize \in Nat \ {0}
                         /\ MaxWins \in Nat
ASSUME EnvAssumption == Env \subseteq EnvFlags

VARIABLES na, hwm, wins, acked

vars == <<na, hwm, wins, acked>>

Pos == 0 .. MaxSize - 1
Ofs == 0 .. MaxSize
Content == {"stale", "zero", "data"}
Hi(a, b) == IF a >= b THEN a ELSE b
Lo(a, b) == IF a <= b THEN a ELSE b
RoundUp(x, g) == ((x + g - 1) \div g) * g
\* The positions of [a, b) and the clusters they lie in.
Span(a, b) == {p \in Pos : a <= p /\ p < b}
Clu(p) == p \div ClusterSize
Clusters == {Clu(p) : p \in Pos}
ClustersOf(S) == {Clu(p) : p \in S}

Attr == [form : {"resident", "runs"}, size : Ofs, init : Ofs,
         alloc : SUBSET Clusters, disk : [Pos -> Content]]
\* A kernel write of [off, end): mapped up to `map`, not cut by a truncation
\* below `live`.
Win == [off : Ofs, end : Ofs, map : Ofs, live : Ofs,
        st : {"out", "landed", "failed"}]
WinSpan(w) == Span(w.off, w.end)
Pending == UNION {WinSpan(w) : w \in wins}
Allocated(n, p) == Clu(p) \in n.alloc
Overlaps(o, e, w) == o < w.end /\ w.off < e

-----------------------------------------------------------------------------
(* What the bridge does to the attribute.                                   *)

\* The positions of Z become zeros on disk.
Zeroed(n, Z) == [n EXCEPT !.disk = [p \in Pos |-> IF p \in Z THEN "zero" ELSE @[p]]]

\* zero_raw: allocated clusters only, initialized_size left alone.
ZeroRaw(n, from, to) == Zeroed(n, {p \in Span(from, to) : Allocated(n, p)})

\* ntfs_attr_pwrite of zeros at initialized_size up to `to`: holes become
\* clusters, whose bytes are all zeros, and initialized_size follows.  The
\* library may pad the last cluster with zeros.
PwriteZeros(n, to, pad) ==
    LET body  == Span(n.init, to)
        fresh == ClustersOf(body) \ n.alloc
        tail  == {p \in Pos : pad /\ p >= to /\ Clu(p) = Clu(to - 1)}
    IN  IF to <= n.init THEN n
        ELSE [Zeroed(n, body \cup tail \cup {p \in Pos : Clu(p) \in fresh})
                EXCEPT !.alloc = @ \cup fresh, !.init = to]

\* ntfs_attr_force_non_resident: the resident bytes (zeros, since only
\* nk_truncate made them) move to clusters of their own.
ForceNonResident(n) ==
    IF n.form = "resident"
    THEN [Zeroed(n, Span(0, n.size)) EXCEPT
             !.form = "runs", !.alloc = ClustersOf(Span(0, n.size)), !.init = n.size]
    ELSE n

\* ntfs_attr_truncate_solid: clusters past the old end are allocated, with
\* whatever they held; initialized_size stays behind.
TruncateSolid(n, e) ==
    IF e > n.size
    THEN [n EXCEPT !.size = e,
                   !.alloc = @ \cup (ClustersOf(Span(n.size, e)) \ ClustersOf(Span(0, n.size)))]
    ELSE n

\* Mutant of ZeroGap: nothing is zeroed once writes are in flight.
ZeroGapSkipped(n, h, o, pad) ==
    IF h <= n.init THEN PwriteZeros(n, o, pad) ELSE n

\* The map-time zeroing between initialized_size and the window.
ZeroGap(n, h, o, pad) ==
    IF h <= n.init THEN PwriteZeros(n, o, pad)
    ELSE ZeroRaw(n, h, o)

\* Mutant of FillHoles: initialized_size is not put back after the pwrite.
FillHolesStamped(n, h, o, e) ==
    LET holes == {p \in Span(o, e) : ~Allocated(n, p)}
    IN  IF holes = {} THEN n
        ELSE [Zeroed(n, {p \in Pos : Clu(p) \in ClustersOf(holes)})
                EXCEPT !.alloc = @ \cup ClustersOf(holes), !.init = Hi(@, e)]

\* The hole fill of a write map.  pwrite starts at the high-water mark, so it
\* zeroes what lies above both marks and below a hole of the window, and the
\* new clusters; initialized_size is put back afterwards.
FillHoles(n, h, o, e) ==
    LET holes == {p \in Span(o, e) : ~Allocated(n, p)}
        fresh == ClustersOf(holes)
        below == {p \in Pos : p >= Hi(n.init, h) /\ \E q \in holes : p < q}
    IN  [Zeroed(n, {p \in Pos : Clu(p) \in fresh} \cup {p \in below : Allocated(n, p)})
            EXCEPT !.alloc = @ \cup fresh]

\* The attribute once a write map has reached the extent loop.
Prepared(n, h, o, e, pad) ==
    FillHoles(ZeroGap(TruncateSolid(ForceNonResident(n), e), h, o, pad), h, o, e)

\* wr_set at the end of nk_blockmap.
Raised(n, h, m) == IF m > h /\ m > n.init THEN m ELSE h

\* ntfs_attr_truncate: a shrink frees clusters and forgets the bytes cut off,
\* a growth is sparse.  A resident attribute may stay resident.
Resized(n, s, stay) ==
    LET r == IF stay THEN n ELSE ForceNonResident(n)
    IN  [r EXCEPT !.size = s,
                  !.init = IF r.form = "resident" THEN s ELSE Lo(@, s),
                  !.alloc = @ \cap ClustersOf(Span(0, s)),
                  !.disk = [p \in Pos |-> IF p >= s THEN "stale" ELSE @[p]]]

\* Mutants of Completed: no clamp to data_size; only the top window stamps.
CompletedUnclamped(n, h, o, e) ==
    IF n.form = "resident" \/ o >= n.size THEN n
    ELSE [ZeroRaw(n, Hi(n.init, h), o) EXCEPT !.init = Hi(@, e)]
CompletedTopOnly(n, h, o, e) ==
    IF n.form = "resident" \/ o >= n.size \/ e < h THEN n
    ELSE [ZeroRaw(n, Hi(n.init, h), o) EXCEPT !.init = Hi(@, Lo(e, n.size))]

\* What nk_complete_write of [o, e) does to the attribute: zero a gap that no
\* map covered, then stamp initialized_size.
Completed(n, h, o, e) ==
    LET target == Lo(e, n.size)
        floor  == Hi(n.init, h)
    IN  IF n.form = "resident" \/ o >= n.size THEN n
        ELSE [ZeroRaw(n, floor, o) EXCEPT !.init = Hi(@, target)]

\* Mutant of Settled: the first completion drops the entry.
SettledAtOnce(n, h, o) == IF o < n.size THEN 0 ELSE h

\* ... and to the mark: the entry is dropped when initialized_size reached it.
Settled(n, h, o) == IF o < n.size /\ n.init >= h THEN 0 ELSE h

\* Mutants of the abort: a lower window keeps its stale bytes; the top window
\* drops the entry instead of lowering it.
AbortedAttrKept(n, h, o, e) == n
AbortedMarkDropped(n, h, o, e) == IF o < h /\ e >= h THEN 0 ELSE h

\* nk_abort_write of [o, e): the top window lowers the mark, a lower one has
\* its bytes above initialized_size zeroed on disk.
AbortedAttr(n, h, o, e) ==
    IF o < h /\ e < h /\ n.form = "runs" THEN ZeroRaw(n, Hi(o, n.init), e) ELSE n
AbortedMark(n, h, o, e) ==
    IF o < h /\ e >= h THEN (IF o <= n.init THEN 0 ELSE o) ELSE h

-----------------------------------------------------------------------------
Init == /\ na = [form |-> "resident", size |-> 0, init |-> 0, alloc |-> {},
                 disk |-> [p \in Pos |-> "stale"]]
        /\ hwm = 0
        /\ wins = {}
        /\ acked = {}

Aligned == {o \in Ofs : o % BlockSize = 0}
\* An outstanding write some of whose bytes were cut off.
Cut == \E w \in wins : w.live < w.end
MayGrow(e) == e > na.size => ~Cut \/ "regrow" \in Env
\* Extents end where runs end, so the packer can fill up at a cluster boundary.
PackEnds(o, e) == {e} \cup {m \in Ofs : o < m /\ m < e /\ m % ClusterSize = 0}

\* nk_blockmap(for_write) of [o, e), packed up to m.
Blockmap(o, e, m, pad) ==
    /\ na' = Prepared(na, hwm, o, e, pad)
    /\ hwm' = Raised(na', hwm, m)

\* The kernel maps a new write.  It never has two writes of the same bytes
\* outstanding.
MapWrite(o, e, m, pad) ==
    /\ o < e /\ MayGrow(e)
    /\ Cardinality(wins) < MaxWins
    /\ \A w \in wins : ~Overlaps(o, e, w)
    /\ Blockmap(o, e, m, pad)
    /\ wins' = wins \cup {[off |-> o, end |-> e, map |-> m, live |-> e, st |-> "out"]}
    /\ UNCHANGED acked

\* The packer was full: FSKit asks again for the remainder of the write.
MapRest(w, m, pad) ==
    /\ w.st = "out" /\ w.map < w.end /\ w.live = w.end
    /\ Blockmap(w.map, w.end, m, pad)
    /\ wins' = (wins \ {w}) \cup {[w EXCEPT !.map = m]}
    /\ UNCHANGED acked

\* A write map that fails: the growth, part of the gap zeroing or part of the
\* hole fill is done, and no window is recorded.
MapWriteErr(o, e, q, pad) ==
    /\ "maperr" \in Env
    /\ o < e /\ MayGrow(e)
    /\ \A w \in wins : ~Overlaps(o, e, w)
    /\ LET grown  == TruncateSolid(ForceNonResident(na), e)
           zeroed == ZeroGap(grown, hwm, Lo(q, o), pad)
       IN  na' = IF q < o THEN zeroed ELSE FillHoles(zeroed, hwm, o, q)
    /\ UNCHANGED <<hwm, wins, acked>>

\* The map fails after wr_set: the inode cannot be flushed, or blockmapFile
\* could not purge the buffer cache.  The kernel writes nothing, and there is
\* no upcall for a write that never started.
MapWriteLateErr(o, e, m, pad) ==
    /\ "laterr" \in Env
    /\ o < e /\ MayGrow(e)
    /\ \A w \in wins : ~Overlaps(o, e, w)
    /\ Blockmap(o, e, m, pad)
    /\ UNCHANGED <<wins, acked>>

\* nk_blockmap for a read: convert, and zero the partial block at
\* initialized_size unless a write may be in flight there.
MapRead(pad) ==
    LET n    == ForceNonResident(na)
        zend == Lo(RoundUp(n.init, BlockSize), n.size)
    IN  /\ na' = IF hwm <= n.init THEN PwriteZeros(n, zend, pad) ELSE n
        /\ UNCHANGED <<hwm, wins, acked>>

\* The kernel's write reaches the disk, whole or the part mapped so far.
LandPart(w) ==
    /\ w.st = "out"
    /\ na' = [na EXCEPT !.disk = [p \in Pos |->
                IF p \in Span(w.off, Lo(w.map, w.live)) /\ Allocated(na, p)
                THEN "data" ELSE @[p]]]
    /\ wins' = IF w.map < w.live THEN wins
               ELSE (wins \ {w}) \cup {[w EXCEPT !.st = "landed"]}
    /\ UNCHANGED <<hwm, acked>>

\* Some unacknowledged byte of the write lies below i.
Overtaken(w, i) == \E p \in Span(w.off, w.live) : p < i /\ p \notin acked

\* The kernel's write fails; its bytes above initialized_size are undefined.
FailWrite(w) ==
    /\ "fail" \in Env
    /\ w.st = "out"
    /\ "overtaken" \in Env \/ ~Overtaken(w, na.init)
    /\ na' = [na EXCEPT !.disk = [p \in Pos |->
                IF /\ p \in Span(w.off, w.live) /\ p >= na.init
                   /\ p < w.map \/ @[p] = "data"
                THEN "stale" ELSE @[p]]]
    /\ wins' = (wins \ {w}) \cup {[w EXCEPT !.st = "failed"]}
    /\ UNCHANGED <<hwm, acked>>

\* completeIO upcalls come in the order of the file unless reorder.
InOrder(o) == "reorder" \in Env \/ \A v \in wins : v.off < o => v.end <= na.init

\* Whether initialized_size may move to e although a failed write waits.
MayPass(e) == "overtaken" \in Env
                \/ \A v \in wins : v.st = "failed" => ~Overtaken(v, Lo(e, na.size))

\* completeIO without an error: nk_complete_write.
CompleteWrite(w) ==
    /\ w.st = "landed" /\ InOrder(w.off) /\ MayPass(w.end)
    /\ na' = Completed(na, hwm, w.off, w.end)
    /\ hwm' = Settled(na', hwm, w.off)
    /\ wins' = wins \ {w}
    /\ acked' = acked \cup Span(w.off, w.live)

\* nk_complete_write fails before the stamp, or to sync or close the inode after
\* it, and the error reaches the kernel.  A gap zeroed above the mark before the
\* failure is not told apart.
CompleteWriteErr(w) ==
    /\ "comperr" \in Env
    /\ w.st = "landed" /\ InOrder(w.off)
    /\ \/ UNCHANGED <<na, hwm>>
       \/ /\ MayPass(w.end)
          /\ na' = Completed(na, hwm, w.off, w.end)
          /\ hwm' = Settled(na', hwm, w.off)
    /\ wins' = wins \ {w}
    /\ UNCHANGED acked

\* completeIO with an error: nk_abort_write.
AbortWrite(w) ==
    /\ w.st = "failed" /\ InOrder(w.off)
    /\ na' = AbortedAttr(na, hwm, w.off, w.end)
    /\ hwm' = AbortedMark(na, hwm, w.off, w.end)
    /\ wins' = wins \ {w}
    /\ UNCHANGED acked

\* nk_abort_write could not zero a lower window; completeIO drops the result.
AbortWriteErr(w) ==
    /\ "aborterr" \in Env
    /\ w.st = "failed" /\ InOrder(w.off)
    /\ w.off < hwm /\ w.end < hwm
    /\ wins' = wins \ {w}
    /\ UNCHANGED <<na, hwm, acked>>

\* A write the kernel did not map again: it lands on clusters the kernel knows
\* and is completed.
CompleteUnmapped(o, e) ==
    /\ "nomap" \in Env
    /\ o < e /\ e <= na.size /\ na.form = "runs" /\ InOrder(o) /\ MayPass(e)
    /\ \A p \in Span(o, e) : Allocated(na, p)
    /\ \A w \in wins : ~Overlaps(o, e, w)
    /\ na' = Completed([na EXCEPT !.disk = [p \in Pos |->
                            IF p \in Span(o, e) THEN "data" ELSE @[p]]], hwm, o, e)
    /\ hwm' = Settled(na', hwm, o)
    /\ acked' = acked \cup Span(o, e)
    /\ UNCHANGED wins

CutWins(s) == {[w EXCEPT !.live = Hi(w.off, Lo(@, s))] : w \in wins}

\* nk_truncate.  KOIO writes beyond the new size are dead: the mark is clamped.
Truncate(s, stay) ==
    /\ MayGrow(s)
    /\ wins = {} \/ "truncate" \in Env
    /\ hwm' = Lo(hwm, s)
    /\ na' = Resized(na, s, stay)
    /\ wins' = CutWins(s)
    /\ acked' = acked \cap Span(0, s)

\* ntfs_attr_truncate fails: the mark is clamped all the same.
TruncateErr(s) ==
    /\ "truncfail" \in Env
    /\ wins = {} \/ "truncate" \in Env
    /\ hwm' = Lo(hwm, s)
    /\ UNCHANGED <<na, wins, acked>>

\* nk_delete of the last name, then nk_create of the same name: a new MFT
\* reference, so the entry of the old file is gone.
Recreate ==
    /\ wins = {} \/ "truncate" \in Env
    /\ na' = [na EXCEPT !.form = "resident", !.size = 0, !.init = 0, !.alloc = {},
                        !.disk = [p \in Pos |-> "stale"]]
    /\ hwm' = 0
    /\ wins' = CutWins(0)
    /\ acked' = {}

\* The wr[] table lives in memory only.  Bytes that were not acknowledged, and
\* lie above initialized_size, are forgotten.
Crash ==
    /\ "crash" \in Env
    /\ hwm' = 0
    /\ wins' = {}
    /\ na' = [na EXCEPT !.disk = [p \in Pos |-> IF p >= na.init THEN "stale" ELSE @[p]]]
    /\ UNCHANGED acked

\* Zeros are padded only up to the end of a partial cluster.
Pads(to) == IF to % ClusterSize = 0 THEN {FALSE} ELSE BOOLEAN
\* Where a failing map stops: anywhere in the gap, or between two clusters.
Stops(o, e) == {q \in Ofs : /\ Lo(na.init, o) <= q /\ q <= e
                            /\ q > o => q % ClusterSize = 0}
\* Only a resident attribute has the choice to stay resident.
Stays == IF na.form = "resident" THEN BOOLEAN ELSE {FALSE}

Next ==
    \/ \E o, e \in Aligned : \E pad \in Pads(o) :
          \/ \E m \in PackEnds(o, e) : MapWrite(o, e, m, pad)
          \/ \E m \in PackEnds(o, e) : MapWriteLateErr(o, e, m, pad)
          \/ \E q \in Stops(o, e) : MapWriteErr(o, e, q, pad)
    \/ \E w \in wins : \E pad \in Pads(w.map), m \in PackEnds(w.map, w.end) :
          MapRest(w, m, pad)
    \/ \E pad \in BOOLEAN : MapRead(pad)
    \/ \E w \in wins : LandPart(w)
    \/ \E w \in wins : FailWrite(w)
    \/ \E w \in wins : CompleteWrite(w)
    \/ \E w \in wins : CompleteWriteErr(w)
    \/ \E w \in wins : AbortWrite(w)
    \/ \E w \in wins : AbortWriteErr(w)
    \/ \E o, e \in Aligned : CompleteUnmapped(o, e)
    \/ \E s \in Ofs, stay \in Stays : Truncate(s, stay)
    \/ \E s \in Ofs : TruncateErr(s)
    \/ Recreate
    \/ Crash

Spec == Init /\ [][Next]_vars

-----------------------------------------------------------------------------
\* Type invariant of the attribute, the mark and the outstanding writes, with
\* the NTFS rule that initialized_size never exceeds data_size.
TypeOK == /\ na \in Attr /\ na.init <= na.size
          /\ hwm \in Ofs
          /\ wins \subseteq Win
          /\ acked \subseteq Pos

\* No stale exposure: below initialized_size, where reads and read maps hand
\* out what is on disk, a stale byte belongs to a write whose upcall is still
\* due (the residual that the comment at nk_blockmap's zeroing admits).
NoStaleExposed ==
    \A p \in Pos : p < na.init /\ Allocated(na, p) /\ na.disk[p] = "stale"
                   => p \in Pending

\* nk_blockmap's stated invariant: every byte of [init, hwm) is either handed
\* out or zeroed.  It is what makes stamping initialized_size safe.
HandedOutOrZeroed ==
    \A p \in Pos : na.init <= p /\ p < hwm /\ Allocated(na, p) /\ na.disk[p] = "stale"
                   => p \in Pending

\* A write that completeIO acknowledged stays readable until the file is cut
\* below it: no later map, completion, abort, failure or crash loses it.
AckedDurable ==
    \A p \in acked : p < na.init /\ Allocated(na, p) /\ na.disk[p] = "data"

\* The mark does its job: every byte the kernel may still write lies below
\* initialized_size or below the mark, so no zero-fill starts underneath it.
MarkCoversInFlight ==
    \A w \in wins : \A p \in Span(w.off, Lo(w.map, w.live)) : p >= na.init => p < hwm

\* No step of the bridge turns bytes the kernel wrote into zeros, whatever the
\* order of maps, landings and upcalls (test H1, and N1 for aborts).
NeverZeroesData ==
    [][\A p \in Pos : na.disk[p] = "data" => na'.disk[p] # "zero"]_vars

\* Only completions out of file order leave the residual: the step that brings
\* a stale byte below initialized_size completes a write while a lower one,
\* which the byte belongs to, is still outstanding.  Without it nothing stale
\* ever lies below initialized_size, and a crash at any point exposes nothing.
Exposed(n) == {p \in Pos : p < n.init /\ Allocated(n, p) /\ n.disk[p] = "stale"}
OnlyReorderingExposes ==
    [][\A p \in Exposed(na') : \/ p \in Exposed(na)
                               \/ \E v \in wins \cap wins' : /\ p \in WinSpan(v)
                                                              /\ v.end <= na'.init /\ na.init < na'.init]_vars

=============================================================================
