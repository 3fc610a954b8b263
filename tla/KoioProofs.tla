----------------------------- MODULE KoioProofs -----------------------------
(***************************************************************************)
(* Proofs about Koio: whatever the order of maps, landings, upcalls,       *)
(* failures and crashes, the bridge never zeroes bytes the kernel wrote and*)
(* never loses an acknowledged write.  The one environment behaviour that  *)
(* breaks this (TLC shows how) is assumed away: a truncation that fails    *)
(* while the file has a mark.                                              *)
(*                                                                         *)
(* In the second part, no stale byte is ever exposed: what a cluster held  *)
(* before it came to the file is never readable below initialized_size,    *)
(* except where a kernel write is still outstanding.  Proved for every     *)
(* geometry, with completions in any order, failing writes, maps and       *)
(* completions, completions without a map and truncations, from the        *)
(* invariant of the first part and its own.  What the program does not     *)
(* survive is assumed away (OnlyHandledFaults).                            *)
(***************************************************************************)
EXTENDS Koio, TLAPS

\* The default prover and its time; steps with arithmetic, records or sequences cite SMT.
USE ZenonT(40)

\* Every data byte is on an allocated cluster of a non-resident attribute, in
\* the file, and below initialized_size or the mark h.
DataBelow(n, h) ==
    \A p \in Pos : n.disk[p] = "data" =>
        /\ n.form = "runs" /\ Allocated(n, p) /\ p < n.size
        /\ p < n.init \/ p < h

\* m is n after an operation that only grows the attribute and neither makes
\* nor destroys data.
Grows(n, m) ==
    /\ m \in Attr
    /\ n.size <= m.size /\ n.init <= m.init /\ m.init <= m.size
    /\ n.alloc \subseteq m.alloc
    /\ m.form = "resident" => n.form = "resident" /\ m.alloc = {}
    /\ \A p \in Pos : (n.disk[p] = "data") <=> (m.disk[p] = "data")

AttrOK(n, h) == /\ n.init <= n.size
                /\ n.form = "resident" => n.alloc = {}
                /\ DataBelow(n, h)

\* What is true of an outstanding write w, attribute n and mark h: the part
\* mapped and not cut is allocated and covered by the mark; what was cut off
\* holds no data, even if the file grew again; a failed write left no data above initialized_size;
\* a landed one is all data.
WinOK(w, n, h) ==
    /\ w.off < w.end /\ w.off <= w.map /\ w.map <= w.end
    /\ w.off <= w.live /\ w.live <= w.end /\ w.live <= Hi(w.off, n.size)
    /\ \A p \in Span(w.off, Lo(w.map, w.live)) : /\ Allocated(n, p)
                                                 /\ p >= n.init => p < h
    /\ \A p \in WinSpan(w) : p >= w.live => n.disk[p] # "data"
    /\ w.st = "failed" => \A p \in WinSpan(w) : p >= n.init => n.disk[p] # "data"
    /\ w.st = "landed" => \A p \in Span(w.off, w.live) : n.disk[p] = "data"

Disjoint(W) == \A v, w \in W : Overlaps(v.off, v.end, w) => v = w
AckOK(A, n) == \A p \in A : p < n.init /\ Allocated(n, p) /\ n.disk[p] = "data"

\* The inductive invariant, as a predicate of the four pieces of state.
Inv(n, h, W, A) ==
    /\ n \in Attr /\ h \in Ofs /\ W \subseteq Win /\ A \subseteq Pos
    /\ AttrOK(n, h)
    /\ \A w \in W : WinOK(w, n, h)
    /\ Disjoint(W)
    /\ AckOK(A, n)

DataInv == Inv(na, hwm, wins, acked)

-----------------------------------------------------------------------------
\* The fields of the results of the attribute operations.

\* What zeroing positions of an attribute changes.
LEMMA ZeroedFields ==
    ASSUME NEW n \in Attr, NEW Z
    PROVE  /\ Zeroed(n, Z) \in Attr
           /\ Zeroed(n, Z).form = n.form /\ Zeroed(n, Z).size = n.size
           /\ Zeroed(n, Z).init = n.init /\ Zeroed(n, Z).alloc = n.alloc
           /\ \A p \in Pos : Zeroed(n, Z).disk[p] = IF p \in Z THEN "zero" ELSE n.disk[p]
BY DEF Zeroed, Attr, Content

\* The clusters of positions are clusters.
LEMMA ClustersOfType == ASSUME NEW S \in SUBSET Pos PROVE ClustersOf(S) \in SUBSET Clusters
BY DEF ClustersOf, Clusters

\* A span is a set of positions.
LEMMA SpanType == ASSUME NEW a, NEW b PROVE Span(a, b) \in SUBSET Pos
BY DEF Span

\* An attribute grows from itself ...
LEMMA GrowsRefl ==
    ASSUME NEW n \in Attr, n.init <= n.size, n.form = "resident" => n.alloc = {}
    PROVE  Grows(n, n)
BY SMTT(40) DEF Grows, Attr, Ofs

\* ... and by one growth after another.
LEMMA GrowsTrans ==
    ASSUME NEW n \in Attr, NEW m, NEW k, Grows(n, m), Grows(m, k)
    PROVE  Grows(n, k)
BY SizeAssumption, SMTT(40) DEF Grows, Attr, Ofs

\* A grown attribute still has its data below the marks.
LEMMA GrowsDataBelow ==
    ASSUME NEW n \in Attr, NEW m, NEW h \in Ofs, Grows(n, m), DataBelow(n, h)
    PROVE  DataBelow(m, h)
BY SizeAssumption, SMTT(40) DEF Grows, DataBelow, Attr, Ofs, Pos, Allocated

\* Zeroing bytes that are not data only grows the attribute.
LEMMA ZeroedGrows ==
    ASSUME NEW n \in Attr, NEW Z, n.init <= n.size, n.form = "resident" => n.alloc = {},
           \A p \in Pos : p \in Z => n.disk[p] # "data"
    PROVE  Grows(n, Zeroed(n, Z))
BY ZeroedFields, SMTT(40) DEF Grows, Attr, Ofs

\* Zeroing what holds no data only grows the attribute.
LEMMA ZeroRawGrows ==
    ASSUME NEW n \in Attr, NEW h \in Ofs, NEW a \in Ofs, NEW b \in Ofs,
           n.init <= n.size, n.form = "resident" => n.alloc = {}, DataBelow(n, h),
           a >= h, a >= n.init
    PROVE  /\ Grows(n, ZeroRaw(n, a, b))
           /\ ZeroRaw(n, a, b).size = n.size /\ ZeroRaw(n, a, b).form = n.form
           /\ ZeroRaw(n, a, b).init = n.init
<1>1. \A p \in Pos : p \in {q \in Span(a, b) : Allocated(n, q)} => n.disk[p] # "data"
  BY SizeAssumption, SMTT(40) DEF DataBelow, Span, Pos, Ofs, Attr
<1>2. QED
  BY <1>1, ZeroedGrows, ZeroedFields DEF ZeroRaw

\* ntfs_attr_pwrite of zeros grows it, to the end of the zeros.
LEMMA PwriteZerosGrows ==
    ASSUME NEW n \in Attr, NEW h \in Ofs, NEW to \in Ofs, NEW pad \in BOOLEAN,
           n.init <= n.size, n.form = "runs", DataBelow(n, h), h <= n.init, to <= n.size
    PROVE  /\ Grows(n, PwriteZeros(n, to, pad))
           /\ PwriteZeros(n, to, pad).size = n.size /\ PwriteZeros(n, to, pad).form = "runs"
<1>1. CASE to <= n.init
  BY <1>1, GrowsRefl DEF PwriteZeros
<1>2. CASE ~(to <= n.init)
  <2> DEFINE body  == Span(n.init, to)
             fresh == ClustersOf(body) \ n.alloc
             tail  == {p \in Pos : pad /\ p >= to /\ Clu(p) = Clu(to - 1)}
             Z     == body \cup tail \cup {p \in Pos : Clu(p) \in fresh}
             m     == Zeroed(n, Z)
  <2>1. PwriteZeros(n, to, pad) = [m EXCEPT !.alloc = @ \cup fresh, !.init = to]
    BY <1>2 DEF PwriteZeros
  <2>2. \A p \in Pos : p \in Z => n.disk[p] # "data"
    BY <1>2, SizeAssumption, SMTT(40) DEF DataBelow, Span, Pos, Ofs, Attr, Allocated
  <2>3. Grows(n, m)
    <3> HIDE DEF Z
    <3> QED BY <2>2, ZeroedGrows
  <2>4. fresh \in SUBSET Clusters
    BY ClustersOfType, SpanType
  <2>5. m \in Attr /\ m.init = n.init /\ m.size = n.size /\ m.form = n.form
    <3> HIDE DEF Z
    <3> QED BY ZeroedFields
  <2> HIDE DEF fresh, m
  <2> DEFINE k == [m EXCEPT !.alloc = @ \cup fresh, !.init = to]
  <2>6. /\ k \in Attr /\ k.form = m.form /\ k.size = m.size /\ k.init = to
        /\ k.alloc = m.alloc \cup fresh /\ k.disk = m.disk
    BY <2>4, <2>5 DEF Attr
  <2> HIDE DEF k
  <2>7. Grows(n, k)
    BY <2>3, <2>5, <2>6, <1>2, SMTT(40) DEF Grows, Attr, Ofs
  <2>8. QED
    BY <2>1, <2>5, <2>6, <2>7 DEF k
<1>3. QED
  BY <1>1, <1>2

\* Making a resident attribute non-resident grows it.
LEMMA ForceGrows ==
    ASSUME NEW n \in Attr, NEW h \in Ofs, n.init <= n.size, n.form = "resident" => n.alloc = {},
           DataBelow(n, h)
    PROVE  /\ Grows(n, ForceNonResident(n)) /\ ForceNonResident(n).form = "runs"
           /\ ForceNonResident(n).size = n.size
<1>1. CASE n.form = "resident"
  <2> DEFINE Z == Span(0, n.size)
             m == Zeroed(n, Z)
  <2>1. ForceNonResident(n) = [m EXCEPT !.form = "runs", !.alloc = ClustersOf(Z), !.init = n.size]
    BY <1>1 DEF ForceNonResident
  <2>2. \A p \in Pos : n.disk[p] # "data"
    BY <1>1 DEF DataBelow
  <2>3. ClustersOf(Z) \in SUBSET Clusters
    BY ClustersOfType, SpanType
  <2>4. /\ m \in Attr /\ m.size = n.size
        /\ \A p \in Pos : m.disk[p] = IF p \in Z THEN "zero" ELSE n.disk[p]
    <3> HIDE DEF Z
    <3> QED BY ZeroedFields, SMTT(40)
  <2> HIDE DEF Z, m
  <2> DEFINE k == [m EXCEPT !.form = "runs", !.alloc = ClustersOf(Z), !.init = n.size]
  <2>5. /\ k \in Attr /\ k.form = "runs" /\ k.size = n.size /\ k.init = n.size
        /\ k.disk = m.disk
    BY <2>3, <2>4 DEF Attr
  <2> HIDE DEF k
  <2>6. Grows(n, k)
    BY <2>2, <2>4, <2>5, <1>1, SMTT(40) DEF Grows, Attr, Ofs
  <2>7. QED
    BY <2>1, <2>5, <2>6 DEF k
<1>2. CASE n.form = "runs"
  BY <1>2, GrowsRefl DEF ForceNonResident
<1>3. QED
  BY <1>1, <1>2 DEF Attr

\* Growing the file with clusters grows it.
LEMMA TruncateSolidGrows ==
    ASSUME NEW n \in Attr, NEW e \in Ofs, n.init <= n.size, n.form = "runs"
    PROVE  /\ Grows(n, TruncateSolid(n, e)) /\ TruncateSolid(n, e).form = "runs"
           /\ TruncateSolid(n, e).size = Hi(n.size, e)
           /\ TruncateSolid(n, e).init = n.init
<1> DEFINE new == ClustersOf(Span(n.size, e)) \ ClustersOf(Span(0, n.size))
           k   == [n EXCEPT !.size = e, !.alloc = @ \cup new]
<1>1. new \in SUBSET Clusters
  BY ClustersOfType, SpanType
<1>2. TruncateSolid(n, e) = IF e > n.size THEN k ELSE n
  BY DEF TruncateSolid
<1> HIDE DEF new
<1>3. /\ k \in Attr /\ k.form = n.form /\ k.size = e /\ k.init = n.init
      /\ k.alloc = n.alloc \cup new /\ k.disk = n.disk
  BY <1>1 DEF Attr
<1> HIDE DEF k
<1>4. e > n.size => Grows(n, k)
  BY <1>3, SMTT(40) DEF Grows, Attr, Ofs
<1>5. QED
  BY <1>2, <1>3, <1>4, GrowsRefl, SMTT(40) DEF Attr, Ofs, Hi

\* Filling the holes of a window grows it.
LEMMA FillHolesGrows ==
    ASSUME NEW n \in Attr, NEW h \in Ofs, NEW o \in Ofs, NEW e \in Ofs,
           n.init <= n.size, n.form = "runs", DataBelow(n, h)
    PROVE  /\ Grows(n, FillHoles(n, h, o, e))
           /\ FillHoles(n, h, o, e).size = n.size
<1> DEFINE holes == {p \in Span(o, e) : ~Allocated(n, p)}
           fresh == ClustersOf(holes)
           below == {p \in Pos : p >= Hi(n.init, h) /\ \E q \in holes : p < q}
           Z     == {p \in Pos : Clu(p) \in fresh} \cup {p \in below : Allocated(n, p)}
           m     == Zeroed(n, Z)
<1>1. FillHoles(n, h, o, e) = [m EXCEPT !.alloc = @ \cup fresh]
  BY DEF FillHoles
<1>2. \A p \in Pos : Clu(p) \in fresh => ~Allocated(n, p)
  BY DEF ClustersOf, Allocated
<1>3. \A p \in Pos : p \in below => n.disk[p] # "data"
  BY SizeAssumption, SMTT(40) DEF DataBelow, Hi, Pos, Ofs, Attr
<1>4. \A p \in Pos : p \in Z => n.disk[p] # "data"
  BY <1>2, <1>3 DEF DataBelow
<1>5. fresh \in SUBSET Clusters
  BY ClustersOfType, SpanType
<1> HIDE DEF Z
<1>6. Grows(n, m) /\ m \in Attr /\ m.size = n.size /\ m.form = "runs"
  BY <1>4, ZeroedGrows, ZeroedFields, SMTT(40)
<1> HIDE DEF fresh, m
<1>7. QED
  BY <1>1, <1>5, <1>6, SMTT(40) DEF Grows, Attr

\* The map-time zeroing grows it: what it zeroes is above the mark.
LEMMA ZeroGapGrows ==
    ASSUME NEW n \in Attr, NEW h \in Ofs, NEW o \in Ofs, NEW pad \in BOOLEAN,
           n.init <= n.size, n.form = "runs", DataBelow(n, h), o <= n.size
    PROVE  /\ Grows(n, ZeroGap(n, h, o, pad))
           /\ ZeroGap(n, h, o, pad).size = n.size /\ ZeroGap(n, h, o, pad).form = "runs"
<1>1. CASE h <= n.init
  BY <1>1, PwriteZerosGrows DEF ZeroGap
<1>2. CASE ~(h <= n.init)
  BY <1>2, ZeroRawGrows, SMTT(40) DEF ZeroGap, Attr, Ofs
<1>3. QED
  BY <1>1, <1>2

\* FillHoles leaves no hole in the window.
LEMMA FillHolesAllocates ==
    ASSUME NEW n \in Attr, NEW h, NEW o, NEW e, NEW p \in Span(o, e)
    PROVE  Allocated(FillHoles(n, h, o, e), p)
<1> DEFINE holes == {q \in Span(o, e) : ~Allocated(n, q)}
           fresh == ClustersOf(holes)
           below == {q \in Pos : q >= Hi(n.init, h) /\ \E r \in holes : q < r}
           Z     == {q \in Pos : Clu(q) \in fresh} \cup {q \in below : Allocated(n, q)}
           m     == Zeroed(n, Z)
<1>1. FillHoles(n, h, o, e) = [m EXCEPT !.alloc = @ \cup fresh]
  BY DEF FillHoles
<1> HIDE DEF Z
<1>2. m \in Attr /\ m.alloc = n.alloc
  BY ZeroedFields
<1>3. FillHoles(n, h, o, e).alloc = n.alloc \cup fresh
  <2> HIDE DEF m, fresh
  <2> QED BY <1>1, <1>2 DEF Attr
<1>4. Clu(p) \in n.alloc \cup fresh
  BY DEF ClustersOf, Allocated
<1> QED BY <1>3, <1>4 DEF Allocated

\* A write map, up to the extent loop, only grows the attribute, and the window
\* has no hole afterwards.
LEMMA PreparedGrows ==
    ASSUME NEW n \in Attr, NEW h \in Ofs, NEW o \in Ofs, NEW e \in Ofs,
           NEW q \in Ofs, NEW pad \in BOOLEAN, AttrOK(n, h), q <= e
    PROVE  LET grown  == TruncateSolid(ForceNonResident(n), e)
               zeroed == ZeroGap(grown, h, q, pad)
           IN  /\ zeroed \in Attr
               /\ Grows(n, zeroed) /\ zeroed.size = Hi(n.size, e)
               /\ \A d \in Ofs : /\ Grows(n, FillHoles(zeroed, h, o, d))
                                  /\ FillHoles(zeroed, h, o, d).size = Hi(n.size, e)
<1> DEFINE f == ForceNonResident(n)
           g == TruncateSolid(f, e)
           z == ZeroGap(g, h, q, pad)
<1>1. Grows(n, f) /\ f.form = "runs" /\ f.size = n.size
  BY ForceGrows DEF AttrOK
<1> HIDE DEF f
<1>2. f \in Attr /\ f.init <= f.size
  BY <1>1 DEF Grows
<1>3. Grows(f, g) /\ g.form = "runs" /\ g.size = Hi(n.size, e)
  BY <1>1, <1>2, TruncateSolidGrows
<1> HIDE DEF g
<1>4. Grows(n, g)
  BY <1>1, <1>3, GrowsTrans
<1>5. g \in Attr /\ g.init <= g.size /\ q <= g.size
  BY <1>3, SMTT(40) DEF Grows, Hi, Attr, Ofs
<1>6. DataBelow(g, h)
  BY <1>4, GrowsDataBelow DEF AttrOK
<1>7. Grows(g, z) /\ z.size = g.size /\ z.form = "runs"
  BY <1>3, <1>5, <1>6, ZeroGapGrows
<1> HIDE DEF z
<1>8. Grows(n, z)
  BY <1>4, <1>7, GrowsTrans
<1>9. z \in Attr /\ z.init <= z.size /\ DataBelow(z, h)
  BY <1>8, GrowsDataBelow DEF Grows, AttrOK
<1>10. ASSUME NEW d \in Ofs
       PROVE  Grows(n, FillHoles(z, h, o, d)) /\ FillHoles(z, h, o, d).size = z.size
  BY <1>7, <1>8, <1>9, FillHolesGrows, GrowsTrans, SMTT(40)
<1>11. QED
  BY <1>3, <1>7, <1>8, <1>9, <1>10 DEF z, g, f

-----------------------------------------------------------------------------
\* How the invariant moves when one piece of state changes.

\* Growth of the attribute, with the mark raised, kept, or dropped once
\* initialized_size has reached it.
LEMMA GrowKeeps ==
    ASSUME NEW n, NEW h, NEW W, NEW A, Inv(n, h, W, A),
           NEW m, Grows(n, m), NEW k \in Ofs, k >= h \/ m.init >= h
    PROVE  Inv(m, k, W, A)
<1>1. m \in Attr /\ n \in Attr /\ h \in Ofs /\ W \subseteq Win /\ A \subseteq Pos
  BY DEF Inv, Grows
<1>2. AttrOK(m, k)
  BY <1>1, SizeAssumption, SMTT(40) DEF Inv, AttrOK, Grows, DataBelow, Allocated, Attr, Ofs, Pos
<1>3. ASSUME NEW w \in W PROVE WinOK(w, m, k)
  <2>1. WinOK(w, n, h) /\ w \in Win
    BY <1>1 DEF Inv
  <2>2. w.live <= Hi(w.off, m.size)
    BY <1>1, <2>1, SMTT(40) DEF WinOK, Grows, Hi, Attr, Ofs, Win
  <2>3. \A p \in Span(w.off, Lo(w.map, w.live)) : Allocated(m, p) /\ (p >= m.init => p < k)
    BY <1>1, <2>1, SizeAssumption, SMTT(40) DEF WinOK, Grows, Attr, Ofs, Win, Span, Pos, Allocated
  <2>4. \A p \in WinSpan(w) : p >= w.live => m.disk[p] # "data"
    BY <2>1 DEF WinOK, WinSpan, Grows, Span
  <2>5. w.st = "failed" => \A p \in WinSpan(w) : p >= m.init => m.disk[p] # "data"
    BY <1>1, <2>1, SizeAssumption, SMTT(40) DEF WinOK, WinSpan, Grows, Attr, Ofs, Span, Pos
  <2>6. w.st = "landed" => \A p \in Span(w.off, w.live) : m.disk[p] = "data"
    BY <2>1 DEF WinOK, Grows, Span
  <2>7. QED
    BY <2>1, <2>2, <2>3, <2>4, <2>5, <2>6 DEF WinOK
<1>4. AckOK(A, m)
  BY <1>1, SizeAssumption, SMTT(40) DEF Inv, AckOK, Grows, Attr, Ofs, Pos, Allocated
<1>5. QED
  BY <1>1, <1>2, <1>3, <1>4 DEF Inv

\* Fewer outstanding writes keep the invariant.
LEMMA DropKeeps ==
    ASSUME NEW n, NEW h, NEW W, NEW A, Inv(n, h, W, A), NEW V \in SUBSET W
    PROVE  Inv(n, h, V, A)
BY DEF Inv, Disjoint

\* One more outstanding write keeps it, if it overlaps none.
LEMMA AddKeeps ==
    ASSUME NEW n, NEW h, NEW W, NEW A, Inv(n, h, W, A),
           NEW w \in Win, WinOK(w, n, h), \A v \in W : ~Overlaps(w.off, w.end, v)
    PROVE  Inv(n, h, W \cup {w}, A)
<1>1. Disjoint(W \cup {w})
  BY DEF Inv, Disjoint, Overlaps
<1>2. QED
  BY <1>1 DEF Inv

-----------------------------------------------------------------------------
\* One lemma per action.  Each shows the invariant after the step, and that the
\* step zeroes no data.

NoZero == \A p \in Pos : na.disk[p] = "data" => na'.disk[p] # "zero"
StepOK == Inv(na', hwm', wins', acked') /\ NoZero

\* A step that grows the attribute zeroes no data.
LEMMA GrowsNoZero == ASSUME Grows(na, na') PROVE NoZero
BY DEF Grows, NoZero

\* nk_blockmap of [o, e): attribute, mark and the other outstanding writes.
LEMMA BlockmapKeeps ==
    ASSUME DataInv, NEW o \in Ofs, NEW e \in Ofs, NEW m \in Ofs, NEW pad \in BOOLEAN,
           o <= e, Blockmap(o, e, m, pad)
    PROVE  /\ Inv(na', hwm', wins, acked) /\ Grows(na, na') /\ na'.size = Hi(na.size, e)
           /\ \A p \in Span(o, e) : Allocated(na', p)
           /\ \A p \in Pos : p < m /\ p >= na'.init => p < hwm'
           /\ hwm' >= hwm
<1> DEFINE z == ZeroGap(TruncateSolid(ForceNonResident(na), e), hwm, o, pad)
<1>1. na \in Attr /\ hwm \in Ofs /\ AttrOK(na, hwm)
  BY DEF DataInv, Inv
<1>2. na' = FillHoles(z, hwm, o, e) /\ hwm' = Raised(na', hwm, m)
  BY DEF Blockmap, Prepared
<1>3. z \in Attr /\ Grows(na, na') /\ na'.size = Hi(na.size, e)
  BY <1>1, <1>2, PreparedGrows, SMTT(40)
<1> HIDE DEF z
<1>4. na' \in Attr
  BY <1>3 DEF Grows
<1>5. hwm' \in Ofs /\ hwm' >= hwm
  BY <1>1, <1>2, SMTT(40) DEF Raised, Ofs
<1>6. Inv(na', hwm', wins, acked)
  BY <1>1, <1>3, <1>5, GrowKeeps DEF DataInv, Hi, Attr, Ofs
<1>7. \A p \in Span(o, e) : Allocated(na', p)
  BY <1>2, <1>3, FillHolesAllocates
<1>8. \A p \in Pos : p < m /\ p >= na'.init => p < hwm'
  BY <1>1, <1>2, <1>4, SizeAssumption, SMTT(40) DEF Raised, Pos, Ofs, Attr
<1>9. QED
  BY <1>3, <1>5, <1>6, <1>7, <1>8

\* Where a map may end.
LEMMA PackEndsType ==
    ASSUME NEW o \in Ofs, NEW e \in Ofs, o < e, NEW m \in PackEnds(o, e)
    PROVE  m \in Ofs /\ o < m /\ m <= e
BY SMTT(40) DEF PackEnds, Ofs

\* nk_blockmap for a write keeps the data invariant and zeroes no data.
LEMMA StepMapWrite ==
    ASSUME DataInv, NEW o \in Ofs, NEW e \in Ofs, NEW pad \in BOOLEAN, NEW m \in PackEnds(o, e),
           MapWrite(o, e, m, pad)
    PROVE  StepOK
<1> DEFINE w == [off |-> o, end |-> e, map |-> m, live |-> e, st |-> "out"]
<1>1. /\ o < e /\ Blockmap(o, e, m, pad)
      /\ \A v \in wins : ~Overlaps(o, e, v)
      /\ wins' = wins \cup {w} /\ acked' = acked
  BY DEF MapWrite
<1>2. m \in Ofs /\ o < m /\ m <= e
  BY <1>1, PackEndsType
<1>3. /\ Inv(na', hwm', wins, acked) /\ Grows(na, na') /\ na'.size = Hi(na.size, e)
      /\ \A p \in Span(o, e) : Allocated(na', p)
      /\ \A p \in Pos : p < m /\ p >= na'.init => p < hwm'
  <2>1. o <= e
    BY <1>1, SMTT(40) DEF Ofs
  <2> QED
    BY <1>1, <1>2, <2>1, BlockmapKeeps
<1>4. w \in Win
  BY <1>2 DEF Win
<1>5. WinOK(w, na', hwm')
  <2>1. na \in Attr /\ na' \in Attr
    BY <1>3 DEF DataInv, Inv
  <2>2. w.live <= Hi(w.off, na'.size)
    BY <1>3, <2>1, SMTT(40) DEF Hi, Attr, Ofs
  <2>3. \A p \in Span(w.off, Lo(w.map, w.live)) : Allocated(na', p) /\ (p >= na'.init => p < hwm')
    BY <1>2, <1>3, SizeAssumption, SMTT(40) DEF Span, Lo, Ofs, Pos
  <2>4. \A p \in WinSpan(w) : ~(p >= w.live)
    BY SizeAssumption, SMTT(40) DEF WinSpan, Span, Ofs, Pos
  <2>5. QED
    BY <1>1, <1>2, <2>2, <2>3, <2>4, SMTT(40) DEF WinOK, Ofs
<1>6. Inv(na', hwm', wins \cup {w}, acked)
  <2>1. \A v \in wins : ~Overlaps(w.off, w.end, v)
    BY <1>1
  <2> HIDE DEF w
  <2> QED BY <1>3, <1>4, <1>5, <2>1, AddKeeps
<1>7. QED
  BY <1>1, <1>3, <1>6, GrowsNoZero DEF StepOK

\* Mapping the rest of a write keeps the data invariant and zeroes no data.
LEMMA StepMapRest ==
    ASSUME DataInv, NEW w \in wins, NEW pad \in BOOLEAN, NEW m \in PackEnds(w.map, w.end),
           MapRest(w, m, pad)
    PROVE  StepOK
<1> DEFINE v == [w EXCEPT !.map = m]
<1>1. /\ w.st = "out" /\ w.map < w.end /\ w.live = w.end
      /\ Blockmap(w.map, w.end, m, pad)
      /\ wins' = (wins \ {w}) \cup {v} /\ acked' = acked
  BY DEF MapRest
<1>2. w \in Win /\ WinOK(w, na, hwm) /\ na \in Attr /\ hwm \in Ofs
  BY DEF DataInv, Inv
<1>3. w.off \in Ofs /\ w.map \in Ofs /\ w.end \in Ofs /\ w.map <= w.end
  BY <1>1, <1>2, SMTT(40) DEF Win, Ofs
<1>4. m \in Ofs /\ w.map < m /\ m <= w.end
  BY <1>1, <1>3, PackEndsType
<1>6. /\ Inv(na', hwm', wins, acked) /\ Grows(na, na') /\ na'.size = Hi(na.size, w.end)
      /\ \A p \in Span(w.map, w.end) : Allocated(na', p)
      /\ \A p \in Pos : p < m /\ p >= na'.init => p < hwm'
  BY <1>1, <1>3, <1>4, BlockmapKeeps, SMTT(40)
<1>7. /\ v \in Win /\ v.off = w.off /\ v.end = w.end /\ v.map = m /\ v.live = w.end
      /\ v.st = "out"
  BY <1>1, <1>2, <1>4 DEF Win
<1> HIDE DEF v
<1>8. WinOK(v, na', hwm')
  <2>1. na' \in Attr /\ WinOK(w, na', hwm')
    BY <1>6 DEF Inv
  <2>2. \A p \in Span(v.off, Lo(v.map, v.live)) : Allocated(na', p) /\ (p >= na'.init => p < hwm')
    BY <1>1, <1>3, <1>4, <1>6, <1>7, <2>1, SizeAssumption, SMTT(40) DEF WinOK, Span, Lo, Ofs, Pos
  <2>3. QED
    BY <1>1, <1>3, <1>4, <1>7, <2>1, <2>2, SMTT(40) DEF WinOK, WinSpan, Ofs
<1>9. \A u \in wins \ {w} : ~Overlaps(v.off, v.end, u)
  BY <1>7 DEF DataInv, Inv, Disjoint
<1>10. Inv(na', hwm', wins \ {w}, acked)
  BY <1>6, DropKeeps
<1>11. Inv(na', hwm', (wins \ {w}) \cup {v}, acked)
  BY <1>7, <1>8, <1>9, <1>10, AddKeeps
<1>12. QED
  BY <1>1, <1>6, <1>11, GrowsNoZero DEF StepOK

\* A map that fails when all is done keeps the data invariant and zeroes no data.
LEMMA StepMapWriteLateErr ==
    ASSUME DataInv, NEW o \in Ofs, NEW e \in Ofs, NEW pad \in BOOLEAN, NEW m \in PackEnds(o, e),
           MapWriteLateErr(o, e, m, pad)
    PROVE  StepOK
<1>1. /\ o < e /\ Blockmap(o, e, m, pad) /\ wins' = wins /\ acked' = acked
  BY DEF MapWriteLateErr
<1>2. m \in Ofs /\ o <= e
  BY <1>1, PackEndsType, SMTT(40) DEF Ofs
<1>3. Inv(na', hwm', wins, acked) /\ Grows(na, na')
  BY <1>1, <1>2, BlockmapKeeps
<1>4. QED
  BY <1>1, <1>3, GrowsNoZero DEF StepOK

\* A map that fails half-way keeps the data invariant and zeroes no data.
LEMMA StepMapWriteErr ==
    ASSUME DataInv, NEW o \in Ofs, NEW e \in Ofs, NEW q \in Ofs, NEW pad \in BOOLEAN,
           MapWriteErr(o, e, q, pad)
    PROVE  StepOK
<1> DEFINE z == ZeroGap(TruncateSolid(ForceNonResident(na), e), hwm, Lo(q, o), pad)
<1>1. /\ o < e /\ hwm' = hwm /\ wins' = wins /\ acked' = acked
      /\ na' = IF q < o THEN z ELSE FillHoles(z, hwm, o, q)
  BY DEF MapWriteErr
<1>2. na \in Attr /\ hwm \in Ofs /\ AttrOK(na, hwm)
  BY DEF DataInv, Inv
<1>3. Lo(q, o) \in Ofs /\ Lo(q, o) <= e
  BY <1>1, SMTT(40) DEF Lo, Ofs
<1>4. /\ Grows(na, z) /\ z.size = Hi(na.size, e)
      /\ Grows(na, FillHoles(z, hwm, o, q)) /\ FillHoles(z, hwm, o, q).size = Hi(na.size, e)
  BY <1>2, <1>3, PreparedGrows, SMTT(40)
<1> HIDE DEF z
<1>5. Grows(na, na') /\ na'.size = Hi(na.size, e)
  BY <1>1, <1>4
<1>6. QED
  BY <1>1, <1>2, <1>5, GrowKeeps, GrowsNoZero, SMTT(40) DEF StepOK, DataInv, Ofs

\* Rounding up gives a natural number.
LEMMA RoundUpNat == ASSUME NEW x \in Nat, NEW g \in Nat \ {0} PROVE RoundUp(x, g) \in Nat
<1>1. x + g - 1 \in Nat
  BY SMTT(40)
<1>2. \A a \in Nat, b \in Nat \ {0} : a \div b \in Nat
  BY SMTT(40)
<1>3. \A a, b \in Nat : a * b \in Nat
  BY SMTT(40)
<1>4. QED
  BY <1>1, <1>2, <1>3 DEF RoundUp

\* A map for reading keeps the data invariant and zeroes no data.
LEMMA StepMapRead ==
    ASSUME DataInv, NEW pad \in BOOLEAN, MapRead(pad)
    PROVE  StepOK
<1> DEFINE n    == ForceNonResident(na)
           zend == Lo(RoundUp(n.init, BlockSize), n.size)
<1>1. /\ na' = IF hwm <= n.init THEN PwriteZeros(n, zend, pad) ELSE n
      /\ hwm' = hwm /\ wins' = wins /\ acked' = acked
  BY DEF MapRead
<1>2. na \in Attr /\ hwm \in Ofs /\ AttrOK(na, hwm)
  BY DEF DataInv, Inv
<1>3. Grows(na, n) /\ n.form = "runs" /\ n.size = na.size
  BY <1>2, ForceGrows DEF AttrOK
<1> HIDE DEF n
<1>4. n \in Attr /\ n.init <= n.size /\ DataBelow(n, hwm)
  BY <1>2, <1>3, GrowsDataBelow DEF Grows, AttrOK
<1>5. RoundUp(n.init, BlockSize) \in Nat
  BY <1>4, RoundUpNat, SizeAssumption, SMTT(40) DEF Attr, Ofs
<1>6. zend \in Ofs /\ zend <= n.size
  <2>1. \A r \in Nat : Lo(r, n.size) \in Ofs /\ Lo(r, n.size) <= n.size
    BY <1>4, SizeAssumption, SMTT(40) DEF Lo, Attr, Ofs
  <2>2. QED
    BY <1>5, <2>1
<1> HIDE DEF zend
<1>7. Grows(na, na') /\ na'.size = na.size
  BY <1>1, <1>2, <1>3, <1>4, <1>6, PwriteZerosGrows, GrowsTrans, SMTT(40)
<1>8. QED
  BY <1>1, <1>2, <1>7, GrowKeeps, GrowsNoZero, SMTT(40) DEF StepOK, DataInv, Ofs

\* A write that reaches the device keeps the data invariant and zeroes no data.
LEMMA StepLandPart ==
    ASSUME DataInv, NEW w \in wins, LandPart(w)
    PROVE  StepOK
<1> DEFINE S == {p \in Span(w.off, Lo(w.map, w.live)) : Allocated(na, p)}
           d == [p \in Pos |-> IF p \in Span(w.off, Lo(w.map, w.live)) /\ Allocated(na, p)
                               THEN "data" ELSE na.disk[p]]
           v == [w EXCEPT !.st = "landed"]
<1>1. /\ w.st = "out" /\ na' = [na EXCEPT !.disk = d] /\ hwm' = hwm /\ acked' = acked
      /\ wins' = IF w.map < w.live THEN wins ELSE (wins \ {w}) \cup {v}
  BY DEF LandPart
<1>2. /\ w \in Win /\ WinOK(w, na, hwm) /\ na \in Attr /\ hwm \in Ofs /\ AttrOK(na, hwm)
      /\ wins \subseteq Win /\ acked \subseteq Pos
  BY DEF DataInv, Inv
<1>3. d \in [Pos -> Content]
  BY <1>2 DEF Attr, Content
<1>4. \A p \in Pos : d[p] = IF p \in S THEN "data" ELSE na.disk[p]
  OBVIOUS
<1> HIDE DEF d
<1>5. /\ na' \in Attr /\ na'.form = na.form /\ na'.size = na.size /\ na'.init = na.init
      /\ na'.alloc = na.alloc /\ na'.disk = d
  BY <1>1, <1>2, <1>3 DEF Attr
<1>6. \A p \in S : p \in WinSpan(w) /\ p < na.size /\ (p < na.init \/ p < hwm)
  BY <1>2, SizeAssumption, SMTT(40) DEF WinOK, WinSpan, Span, Lo, Hi, Win, Ofs, Pos, Attr
<1>7. AttrOK(na', hwm)
  BY <1>2, <1>4, <1>5, <1>6 DEF AttrOK, DataBelow, Allocated, Attr
<1>8. ASSUME NEW u \in wins PROVE WinOK(u, na', hwm)
  <2>1. WinOK(u, na, hwm)
    BY DEF DataInv, Inv
  <2>2. u.st = "failed" => \A p \in WinSpan(u) : p \notin S
    BY <1>1, <1>2, <1>6, SizeAssumption, SMTT(40) DEF DataInv, Inv, Disjoint, Overlaps, WinSpan, Span, Win, Ofs, Pos
  <2>3. \A p \in WinSpan(u) : p >= u.live => p \notin S
    <3>1. CASE u = w
      BY <1>2, <3>1, SizeAssumption, SMTT(40) DEF Span, Lo, WinSpan, Win, Ofs, Pos
    <3>2. CASE u # w
      BY <1>2, <1>6, <3>2, SizeAssumption, SMTT(40) DEF DataInv, Inv, Disjoint, Overlaps, WinSpan, Span, Win, Ofs, Pos
    <3>3. QED
      BY <3>1, <3>2
  <2> HIDE DEF S
  <2>4. \A p \in WinSpan(u) : p >= u.live => na'.disk[p] # "data"
    BY <1>4, <1>5, <2>1, <2>3 DEF WinOK, WinSpan, Span
  <2>5. QED
    BY <1>4, <1>5, <2>1, <2>2, <2>4 DEF WinOK, WinSpan, Span, Allocated
<1>9. AckOK(acked, na')
  BY <1>2, <1>4, <1>5 DEF DataInv, Inv, AckOK, Allocated
<1>10. Inv(na', hwm, wins, acked)
  BY <1>2, <1>5, <1>7, <1>8, <1>9 DEF DataInv, Inv
<1>11. NoZero
  BY <1>4, <1>5 DEF NoZero
<1>12. CASE w.map < w.live
  BY <1>1, <1>10, <1>11, <1>12 DEF StepOK
<1>13. CASE ~(w.map < w.live)
  <2>1. /\ v \in Win /\ v.off = w.off /\ v.end = w.end /\ v.map = w.map /\ v.live = w.live
        /\ v.st = "landed"
    BY <1>2 DEF Win
  <2> HIDE DEF v
  <2>2. \A p \in Span(v.off, v.live) : na'.disk[p] = "data"
    BY <1>2, <1>4, <1>5, <1>13, <2>1, SizeAssumption, SMTT(40) DEF WinOK, Span, Lo, Win, Ofs, Pos
  <2>3. WinOK(v, na', hwm)
    BY <1>8, <2>1, <2>2 DEF WinOK, WinSpan
  <2>4. \A u \in wins \ {w} : ~Overlaps(v.off, v.end, u)
    BY <2>1 DEF DataInv, Inv, Disjoint
  <2>5. Inv(na', hwm, wins \ {w}, acked)
    BY <1>10, DropKeeps
  <2>6. Inv(na', hwm, (wins \ {w}) \cup {v}, acked)
    BY <2>1, <2>3, <2>4, <2>5, AddKeeps
  <2>7. QED
    BY <1>1, <1>11, <1>13, <2>6 DEF StepOK
<1>14. QED
  BY <1>12, <1>13

\* A write that fails on the device keeps it too.
LEMMA StepFailWrite ==
    ASSUME DataInv, NEW w \in wins, FailWrite(w)
    PROVE  StepOK
<1> DEFINE S == {p \in Span(w.off, w.live) : p >= na.init /\ (p < w.map \/ na.disk[p] = "data")}
           d == [p \in Pos |-> IF /\ p \in Span(w.off, w.live) /\ p >= na.init
                                  /\ p < w.map \/ na.disk[p] = "data"
                               THEN "stale" ELSE na.disk[p]]
           v == [w EXCEPT !.st = "failed"]
<1>1. /\ w.st = "out" /\ na' = [na EXCEPT !.disk = d] /\ hwm' = hwm /\ acked' = acked
      /\ wins' = (wins \ {w}) \cup {v}
  BY DEF FailWrite
<1>2. /\ w \in Win /\ WinOK(w, na, hwm) /\ na \in Attr /\ hwm \in Ofs /\ AttrOK(na, hwm)
      /\ wins \subseteq Win /\ acked \subseteq Pos
  BY DEF DataInv, Inv
<1>3. d \in [Pos -> Content]
  BY <1>2 DEF Attr, Content
<1>4. \A p \in Pos : d[p] = IF p \in S THEN "stale" ELSE na.disk[p]
  OBVIOUS
<1> HIDE DEF d
<1>5. /\ na' \in Attr /\ na'.form = na.form /\ na'.size = na.size /\ na'.init = na.init
      /\ na'.alloc = na.alloc /\ na'.disk = d
  BY <1>1, <1>2, <1>3 DEF Attr
<1>6. \A p \in S : p \in WinSpan(w) /\ p >= na.init
  BY <1>2, SizeAssumption, SMTT(40) DEF WinOK, WinSpan, Span, Win, Ofs, Pos
<1>7. \A p \in WinSpan(w) : p >= na.init => d[p] # "data"
  BY <1>2, <1>4, SizeAssumption, SMTT(40) DEF WinOK, WinSpan, Span, AttrOK, DataBelow, Win, Ofs, Pos, Attr
<1>8. AttrOK(na', hwm)
  <2> HIDE DEF S
  <2> QED BY <1>2, <1>4, <1>5 DEF AttrOK, DataBelow, Allocated, Attr
<1>9. ASSUME NEW u \in wins, u # w PROVE WinOK(u, na', hwm)
  <2>1. WinOK(u, na, hwm) /\ u \in Win
    BY DEF DataInv, Inv
  <2>2. \A p \in WinSpan(u) : p \notin S
    BY <1>2, <1>6, <1>9, <2>1, SizeAssumption, SMTT(40) DEF DataInv, Inv, Disjoint, Overlaps, WinSpan, Span, Win, Ofs, Pos
  <2> HIDE DEF S
  <2>3. Span(u.off, u.live) \subseteq WinSpan(u)
    BY <2>1, SizeAssumption, SMTT(40) DEF WinOK, WinSpan, Span, Win, Ofs, Pos
  <2>4. QED
    BY <1>4, <1>5, <2>1, <2>2, <2>3 DEF WinOK, WinSpan, Span, Allocated
<1>10. /\ v \in Win /\ v.off = w.off /\ v.end = w.end /\ v.map = w.map /\ v.live = w.live
       /\ v.st = "failed"
  BY <1>2 DEF Win
<1> HIDE DEF v
<1>11. WinOK(v, na', hwm)
  <2>1. \A p \in WinSpan(w) : p >= w.live => na'.disk[p] # "data"
    BY <1>2, <1>4, <1>5 DEF WinOK, WinSpan, Span
  <2>2. QED
    BY <1>2, <1>5, <1>7, <1>10, <2>1 DEF WinOK, WinSpan, Allocated
<1>12. AckOK(acked, na')
  <2>1. \A p \in acked : p \notin S
    BY <1>2, <1>6, SizeAssumption, SMTT(40) DEF DataInv, Inv, AckOK, Attr, Ofs, Pos
  <2> HIDE DEF S
  <2> QED BY <1>2, <1>4, <1>5, <2>1 DEF DataInv, Inv, AckOK, Allocated
<1>13. Inv(na', hwm, wins \ {w}, acked)
  BY <1>2, <1>5, <1>8, <1>9, <1>12 DEF DataInv, Inv, Disjoint
<1>14. \A u \in wins \ {w} : ~Overlaps(v.off, v.end, u)
  BY <1>10 DEF DataInv, Inv, Disjoint
<1>15. Inv(na', hwm, (wins \ {w}) \cup {v}, acked)
  BY <1>10, <1>11, <1>13, <1>14, AddKeeps
<1>16. NoZero
  BY <1>4, <1>5 DEF NoZero
<1>17. QED
  BY <1>1, <1>15, <1>16 DEF StepOK

\* What a completion does to the attribute and the mark.
LEMMA CompletedFields ==
    ASSUME NEW n \in Attr, NEW h \in Ofs, NEW o \in Ofs, NEW e \in Ofs,
           n.form = "runs", o < n.size
    PROVE  LET Z == {p \in Span(Hi(n.init, h), o) : Allocated(n, p)}
               c == Completed(n, h, o, e)
           IN  /\ c \in Attr /\ c.form = n.form /\ c.size = n.size /\ c.alloc = n.alloc
               /\ c.init = Hi(n.init, Lo(e, n.size))
               /\ \A p \in Pos : c.disk[p] = IF p \in Z THEN "zero" ELSE n.disk[p]
<1> DEFINE Z == {p \in Span(Hi(n.init, h), o) : Allocated(n, p)}
           t == Hi(n.init, Lo(e, n.size))
           m == Zeroed(n, Z)
<1>1. /\ m \in Attr /\ m.form = n.form /\ m.size = n.size /\ m.init = n.init
      /\ m.alloc = n.alloc
      /\ \A p \in Pos : m.disk[p] = IF p \in Z THEN "zero" ELSE n.disk[p]
  <2> HIDE DEF Z
  <2> QED BY ZeroedFields, SMTT(40)
<1>2. ~(o >= n.size) /\ t \in Ofs
  BY SMTT(40) DEF Hi, Lo, Attr, Ofs
<1>3. Completed(n, h, o, e) = [m EXCEPT !.init = Hi(@, Lo(e, n.size))]
  BY <1>2 DEF Completed, ZeroRaw
<1> HIDE DEF Z, m
<1>4. Completed(n, h, o, e) = [m EXCEPT !.init = t]
  BY <1>1, <1>3 DEF Attr
<1> HIDE DEF t
<1> DEFINE c == [m EXCEPT !.init = t]
<1>5. /\ c \in Attr /\ c.form = m.form /\ c.size = m.size /\ c.alloc = m.alloc
      /\ c.init = t /\ c.disk = m.disk
  BY <1>1, <1>2 DEF Attr
<1> HIDE DEF c
<1>6. QED
  BY <1>1, <1>4, <1>5 DEF t, c, Z

\* A completion that stamps, whether or not it is acknowledged.
LEMMA StepStamp ==
    ASSUME DataInv, NEW w \in wins, w.st = "landed",
           na' = Completed(na, hwm, w.off, w.end), hwm' = Settled(na', hwm, w.off),
           wins' = wins \ {w}, acked' = acked \/ acked' = acked \cup Span(w.off, w.live)
    PROVE  StepOK
<1>1. /\ w.st = "landed" /\ na' = Completed(na, hwm, w.off, w.end)
      /\ hwm' = Settled(na', hwm, w.off) /\ wins' = wins \ {w}
  OBVIOUS
<1>2. /\ w \in Win /\ WinOK(w, na, hwm) /\ na \in Attr /\ hwm \in Ofs /\ AttrOK(na, hwm)
      /\ w.off \in Ofs /\ w.end \in Ofs /\ w.live \in Ofs /\ acked \subseteq Pos
  BY DEF DataInv, Inv, Win
<1>3. Grows(na, na') /\ na'.size = na.size
  <2>1. CASE na.form = "resident" \/ w.off >= na.size
    BY <1>1, <1>2, <2>1, GrowsRefl DEF Completed, AttrOK
  <2>2. CASE ~(na.form = "resident" \/ w.off >= na.size)
    <3>1. na.form = "runs" /\ w.off < na.size
      BY <1>2, <2>2, SMTT(40) DEF Attr, Ofs
    <3> DEFINE Z == {p \in Span(Hi(na.init, hwm), w.off) : Allocated(na, p)}
    <3>2. /\ na' \in Attr /\ na'.form = na.form /\ na'.size = na.size /\ na'.alloc = na.alloc
          /\ na'.init = Hi(na.init, Lo(w.end, na.size))
          /\ \A p \in Pos : na'.disk[p] = IF p \in Z THEN "zero" ELSE na.disk[p]
      BY <1>1, <1>2, <3>1, CompletedFields, SMTT(40)
    <3>3. \A p \in Z : na.disk[p] # "data"
      BY <1>2, SizeAssumption, SMTT(40) DEF AttrOK, DataBelow, Span, Hi, Attr, Ofs, Pos
    <3> HIDE DEF Z
    <3>4. na.init <= na'.init /\ na'.init <= na.size
      BY <1>2, <3>2, SMTT(40) DEF Hi, Lo, AttrOK, Attr, Ofs
    <3> QED
      BY <1>2, <3>1, <3>2, <3>3, <3>4, SMTT(40) DEF Grows, Attr, Ofs
  <2>3. QED
    BY <2>1, <2>2
<1>4. na' \in Attr
  BY <1>3 DEF Grows
<1>5. hwm' \in Ofs /\ (hwm' >= hwm \/ na'.init >= hwm)
  BY <1>1, <1>2, <1>4, SizeAssumption, SMTT(40) DEF Settled, Ofs, Attr
<1>6. Inv(na', hwm', wins \ {w}, acked)
  BY <1>3, <1>5, GrowKeeps, DropKeeps DEF DataInv
<1>7. ASSUME NEW p \in Span(w.off, w.live)
      PROVE  p < na'.init /\ Allocated(na', p) /\ na'.disk[p] = "data"
  <2>1. p \in Pos /\ w.off <= p /\ p < w.live /\ na.disk[p] = "data"
    BY <1>1, <1>2 DEF WinOK, Span
  <2>2. na.form = "runs" /\ Allocated(na, p) /\ p < na.size
    BY <1>2, <2>1 DEF AttrOK, DataBelow
  <2>3. w.off < na.size /\ p < w.end
    BY <1>2, <2>1, <2>2, SizeAssumption, SMTT(40) DEF WinOK, Attr, Ofs, Pos
  <2>4. na'.init = Hi(na.init, Lo(w.end, na.size))
    BY <1>1, <1>2, <2>2, <2>3, CompletedFields, SMTT(40)
  <2>5. p < na'.init
    BY <1>2, <2>1, <2>2, <2>3, <2>4, SizeAssumption, SMTT(40) DEF Hi, Lo, Attr, Ofs, Pos
  <2>6. QED
    BY <1>3, <2>1, <2>2, <2>5 DEF Grows, Allocated
<1>8. Span(w.off, w.live) \subseteq Pos
  BY DEF Span
<1>9. Inv(na', hwm', wins \ {w}, acked \cup Span(w.off, w.live))
  BY <1>6, <1>7, <1>8 DEF Inv, AckOK
<1>10. NoZero
  BY <1>2, <1>3, GrowsNoZero
<1>11. Inv(na', hwm', wins', acked')
  <2>1. CASE acked' = acked
    BY <1>1, <1>6, <2>1
  <2>2. CASE acked' = acked \cup Span(w.off, w.live)
    BY <1>1, <1>9, <2>2
  <2>3. QED
    BY <2>1, <2>2
<1>12. QED
  BY <1>10, <1>11 DEF StepOK

\* Forgetting a write keeps the data invariant and zeroes no data.
LEMMA StepDropWin ==
    ASSUME DataInv, NEW w \in wins, wins' = wins \ {w}, UNCHANGED <<na, hwm, acked>>
    PROVE  StepOK
BY DropKeeps DEF DataInv, StepOK, NoZero

\* nk_abort_write keeps the data invariant and zeroes no data.
LEMMA StepAbortWrite ==
    ASSUME DataInv, NEW w \in wins, AbortWrite(w)
    PROVE  StepOK
<1> DEFINE o == w.off
           e == w.end
           Z == {p \in Span(Hi(o, na.init), e) : Allocated(na, p)}
<1>1. /\ w.st = "failed" /\ na' = AbortedAttr(na, hwm, o, e)
      /\ hwm' = AbortedMark(na, hwm, o, e) /\ wins' = wins \ {w} /\ acked' = acked
  BY DEF AbortWrite
<1>2. /\ w \in Win /\ WinOK(w, na, hwm) /\ na \in Attr /\ hwm \in Ofs /\ AttrOK(na, hwm)
      /\ o \in Ofs /\ e \in Ofs /\ wins \subseteq Win
  BY DEF DataInv, Inv, Win
<1>3. \A p \in Z : p \in Pos /\ na.disk[p] # "data"
  BY <1>1, <1>2, SizeAssumption, SMTT(40) DEF WinOK, WinSpan, Span, Hi, Attr, Ofs, Pos
<1>4. Grows(na, na') /\ na'.size = na.size /\ na'.init = na.init
  <2>1. na' = IF o < hwm /\ e < hwm /\ na.form = "runs" THEN Zeroed(na, Z) ELSE na
    BY <1>1 DEF AbortedAttr, ZeroRaw
  <2> HIDE DEF Z
  <2>2. QED
    BY <1>2, <1>3, <2>1, ZeroedGrows, ZeroedFields, GrowsRefl DEF AttrOK
<1> HIDE DEF Z
<1>6. CASE ~(o < hwm /\ e >= hwm)
  <2>1. hwm' = hwm
    BY <1>1, <1>6 DEF AbortedMark
  <2>2. Inv(na', hwm', wins \ {w}, acked)
    BY <1>2, <1>4, <2>1, GrowKeeps, DropKeeps, SMTT(40) DEF DataInv, Ofs
  <2>3. QED
    BY <1>1, <1>4, <2>2, GrowsNoZero DEF StepOK
<1>7. CASE o < hwm /\ e >= hwm
  <2>1. na' = na /\ hwm' = IF o <= na.init THEN 0 ELSE o
    BY <1>1, <1>2, <1>7, SMTT(40) DEF AbortedMark, AbortedAttr, Ofs
  <2>2. hwm' \in Ofs
    BY <1>2, <2>1, SizeAssumption, SMTT(40) DEF Ofs
  <2>3. AttrOK(na, hwm')
    BY <1>1, <1>2, <1>7, <2>1, SizeAssumption, SMTT(40) DEF AttrOK, DataBelow, WinOK, WinSpan, Span, Attr, Ofs, Pos
  <2>4. ASSUME NEW v \in wins \ {w} PROVE WinOK(v, na, hwm')
    <3>1. WinOK(v, na, hwm) /\ v \in Win /\ ~Overlaps(v.off, v.end, w)
      BY <1>2 DEF DataInv, Inv, Disjoint
    <3>2. \A p \in Span(v.off, Lo(v.map, v.live)) : p >= na.init => p < hwm'
      BY <1>2, <1>7, <2>1, <3>1, SizeAssumption, SMTT(40) DEF WinOK, Span, Lo, Overlaps, Win, Attr, Ofs, Pos
    <3>3. QED
      BY <3>1, <3>2 DEF WinOK
  <2>5. Inv(na, hwm, wins \ {w}, acked)
    BY DropKeeps DEF DataInv
  <2>6. Inv(na', hwm', wins \ {w}, acked)
    BY <2>1, <2>2, <2>3, <2>4, <2>5 DEF Inv
  <2>7. QED
    BY <1>1, <1>4, <2>6, GrowsNoZero DEF StepOK
<1>8. QED
  BY <1>6, <1>7

\* A completion without a map keeps the data invariant and zeroes no data.
LEMMA StepCompleteUnmapped ==
    ASSUME DataInv, NEW o \in Ofs, NEW e \in Ofs, CompleteUnmapped(o, e)
    PROVE  StepOK
<1> DEFINE d == [p \in Pos |-> IF p \in Span(o, e) THEN "data" ELSE na.disk[p]]
           n == [na EXCEPT !.disk = d]
           Z == {p \in Span(Hi(n.init, hwm), o) : Allocated(n, p)}
<1>1. /\ o < e /\ e <= na.size /\ na.form = "runs"
      /\ \A p \in Span(o, e) : Allocated(na, p)
      /\ \A w \in wins : ~Overlaps(o, e, w)
      /\ na' = Completed(n, hwm, o, e)
      /\ hwm' = Settled(na', hwm, o) /\ wins' = wins
      /\ acked' = acked \cup Span(o, e)
  BY DEF CompleteUnmapped
<1>2. /\ na \in Attr /\ hwm \in Ofs /\ AttrOK(na, hwm) /\ wins \subseteq Win
      /\ acked \subseteq Pos /\ Disjoint(wins)
  BY DEF DataInv, Inv
<1>3. d \in [Pos -> Content]
  BY <1>2 DEF Attr, Content
<1>4. \A p \in Pos : d[p] = IF p \in Span(o, e) THEN "data" ELSE na.disk[p]
  OBVIOUS
<1> HIDE DEF d
<1>5. /\ n \in Attr /\ n.form = na.form /\ n.size = na.size /\ n.init = na.init
      /\ n.alloc = na.alloc /\ n.disk = d
  BY <1>2, <1>3 DEF Attr
<1> HIDE DEF n
<1>6. o < n.size
  BY <1>1, <1>2, <1>5, SMTT(40) DEF Attr, Ofs
<1>7. /\ na' \in Attr /\ na'.form = n.form /\ na'.size = n.size /\ na'.alloc = n.alloc
      /\ na'.init = Hi(n.init, Lo(e, n.size))
      /\ \A p \in Pos : na'.disk[p] = IF p \in Z THEN "zero" ELSE n.disk[p]
  BY <1>1, <1>2, <1>5, <1>6, CompletedFields, SMTT(40)
<1>8. \A p \in Z : p \notin Span(o, e) /\ na.disk[p] # "data"
  BY <1>2, <1>5, SizeAssumption, SMTT(40) DEF AttrOK, DataBelow, Span, Hi, Attr, Ofs, Pos
<1> HIDE DEF Z
\* The data bytes afterwards are those of before and the window.
<1>9. \A p \in Pos : na'.disk[p] = "data" <=> na.disk[p] = "data" \/ p \in Span(o, e)
  BY <1>4, <1>5, <1>7, <1>8
<1>10. na'.init >= na.init /\ na'.init >= e /\ na'.init <= na.size
  BY <1>1, <1>2, <1>5, <1>7, SMTT(40) DEF Hi, Lo, AttrOK, Attr, Ofs
<1>11. hwm' \in Ofs /\ (hwm' = hwm \/ na'.init >= hwm)
  BY <1>1, <1>2, <1>7, SizeAssumption, SMTT(40) DEF Settled, Ofs
<1>12. AttrOK(na', hwm')
  <2>1. DataBelow(na', hwm')
    BY <1>1, <1>2, <1>5, <1>7, <1>9, <1>10, <1>11, SizeAssumption, SMTT(40)
       DEF AttrOK, DataBelow, Allocated, Span, Attr, Ofs, Pos
  <2>2. QED
    BY <1>1, <1>5, <1>7, <1>10, <2>1 DEF AttrOK
<1>13. ASSUME NEW w \in wins PROVE WinOK(w, na', hwm')
  <2>1. WinOK(w, na, hwm) /\ w \in Win
    BY <1>2 DEF DataInv, Inv
  <2>2. \A p \in WinSpan(w) : p \notin Span(o, e)
    BY <1>1, <2>1, SizeAssumption, SMTT(40) DEF WinSpan, Span, Overlaps, Win, Ofs, Pos
  <2>3. \A p \in Span(w.off, Lo(w.map, w.live)) : Allocated(na', p) /\ (p >= na'.init => p < hwm')
    BY <1>2, <1>5, <1>7, <1>10, <1>11, <2>1, SizeAssumption, SMTT(40)
       DEF WinOK, Allocated, Span, Attr, Ofs, Pos
  <2>4. w.st = "failed" => \A p \in WinSpan(w) : p >= na'.init => na'.disk[p] # "data"
    BY <1>2, <1>7, <1>9, <1>10, <2>1, <2>2, SizeAssumption, SMTT(40) DEF WinOK, WinSpan, Span, Attr, Ofs, Pos
  <2>5. w.st = "landed" => \A p \in Span(w.off, w.live) : na'.disk[p] = "data"
    BY <1>9, <2>1 DEF WinOK, Span
  <2>6. \A p \in WinSpan(w) : p >= w.live => na'.disk[p] # "data"
    BY <1>9, <2>1, <2>2 DEF WinOK, WinSpan, Span
  <2>7. QED
    BY <1>5, <1>7, <2>1, <2>3, <2>4, <2>5, <2>6 DEF WinOK
<1>14. AckOK(acked', na')
  BY <1>1, <1>2, <1>5, <1>7, <1>9, <1>10, SizeAssumption, SMTT(40)
     DEF DataInv, Inv, AckOK, Allocated, Span, Attr, Ofs, Pos
<1>15. Span(o, e) \subseteq Pos
  BY DEF Span
<1>16. Inv(na', hwm', wins, acked')
  BY <1>1, <1>2, <1>7, <1>11, <1>12, <1>13, <1>14, <1>15 DEF Inv
<1>17. QED
  BY <1>1, <1>9, <1>16 DEF StepOK, NoZero

\* What a truncation to s does to the attribute.
LEMMA ResizedFields ==
    ASSUME NEW n \in Attr, NEW h \in Ofs, AttrOK(n, h), NEW s \in Ofs, NEW stay \in BOOLEAN
    PROVE  LET r == Resized(n, s, stay)
           IN  /\ r \in Attr /\ r.size = s /\ r.init <= s /\ Lo(n.init, s) <= r.init
               /\ r.form = "resident" => n.form = "resident" /\ r.alloc = {}
               /\ \A p \in Pos : p < s /\ Allocated(n, p) => Allocated(r, p)
               /\ \A p \in Pos : r.disk[p] = "data" <=> n.disk[p] = "data" /\ p < s
               /\ \A p \in Pos : n.disk[p] = "data" => r.disk[p] # "zero"
<1> DEFINE f == IF stay THEN n ELSE ForceNonResident(n)
           i == IF f.form = "resident" THEN s ELSE Lo(f.init, s)
           d == [p \in Pos |-> IF p >= s THEN "stale" ELSE f.disk[p]]
           a == f.alloc \cap ClustersOf(Span(0, s))
<1>1. Grows(n, f)
  BY ForceGrows, GrowsRefl DEF AttrOK
<1>2. Resized(n, s, stay) = [f EXCEPT !.size = s,
                                !.init = IF f.form = "resident" THEN s ELSE Lo(@, s),
                                !.alloc = @ \cap ClustersOf(Span(0, s)),
                                !.disk = [p \in Pos |-> IF p >= s THEN "stale" ELSE @[p]]]
  BY DEF Resized
<1> HIDE DEF f
<1>3. f \in Attr
  BY <1>1 DEF Grows
<1>4. i \in Ofs /\ i <= s /\ Lo(n.init, s) <= i
  BY <1>1, <1>3, SMTT(40) DEF Grows, Lo, Attr, Ofs
<1>5. d \in [Pos -> Content] /\ a \in SUBSET Clusters
  BY <1>3 DEF Attr, Content
<1>6. Resized(n, s, stay) = [f EXCEPT !.size = s, !.init = i, !.alloc = a, !.disk = d]
  BY <1>2, <1>3 DEF Attr
<1>7. \A p \in Pos : d[p] = IF p >= s THEN "stale" ELSE f.disk[p]
  OBVIOUS
<1>8. \A p \in Pos : p < s /\ Clu(p) \in f.alloc => Clu(p) \in a
  BY SizeAssumption, SMTT(40) DEF ClustersOf, Span, Pos, Ofs
<1>9. f.form = "resident" => a = {}
  BY <1>1 DEF Grows
<1> HIDE DEF i, d, a
<1> DEFINE r == [f EXCEPT !.size = s, !.init = i, !.alloc = a, !.disk = d]
<1>10. /\ r \in Attr /\ r.form = f.form /\ r.size = s /\ r.init = i /\ r.alloc = a
       /\ r.disk = d
  BY <1>3, <1>4, <1>5 DEF Attr
<1> HIDE DEF r
<1>11. \A p \in Pos : p < s /\ Allocated(n, p) => Allocated(r, p)
  BY <1>1, <1>8, <1>10 DEF Grows, Allocated
<1>12. \A p \in Pos : /\ r.disk[p] = "data" <=> n.disk[p] = "data" /\ p < s
                      /\ n.disk[p] = "data" => r.disk[p] # "zero"
  BY <1>1, <1>7, <1>10, SizeAssumption, SMTT(40) DEF Grows, Pos, Ofs
<1>13. QED
  BY <1>1, <1>4, <1>6, <1>9, <1>10, <1>11, <1>12 DEF r, Grows

\* Cutting the outstanding writes at s keeps them writes, and apart.
LEMMA CutWinsShape ==
    ASSUME NEW s \in Ofs, wins \subseteq Win, Disjoint(wins)
    PROVE  /\ Disjoint(CutWins(s))
           /\ \A v \in CutWins(s) : \E w \in wins :
                 /\ v \in Win /\ v.off = w.off /\ v.end = w.end /\ v.map = w.map
                 /\ v.st = w.st /\ v.live = Hi(w.off, Lo(w.live, s))
<1> DEFINE C(w) == [w EXCEPT !.live = Hi(w.off, Lo(w.live, s))]
<1>1. CutWins(s) = {C(w) : w \in wins}
  <2>1. \A w \in wins : C(w) = [w EXCEPT !.live = Hi(w.off, Lo(@, s))]
    BY DEF Win
  <2> QED BY <2>1 DEF CutWins
<1>2. ASSUME NEW w \in wins
      PROVE  /\ C(w) \in Win /\ C(w).off = w.off /\ C(w).end = w.end /\ C(w).map = w.map
             /\ C(w).st = w.st /\ C(w).live = Hi(w.off, Lo(w.live, s))
  <2>1. w \in Win /\ Hi(w.off, Lo(w.live, s)) \in Ofs
    BY DEF Win, Hi, Lo, Ofs
  <2>2. QED
    BY <2>1 DEF Win
<1> HIDE DEF C
<1>3. Disjoint(CutWins(s))
  <2> SUFFICES ASSUME NEW v \in wins, NEW w \in wins, Overlaps(C(v).off, C(v).end, C(w))
               PROVE  C(v) = C(w)
    BY <1>1 DEF Disjoint
  <2> QED BY <1>2 DEF Disjoint, Overlaps
<1>4. QED
  BY <1>1, <1>2, <1>3

\* A truncation keeps the data invariant and zeroes no data.
LEMMA StepTruncate ==
    ASSUME DataInv, NEW s \in Ofs, NEW stay \in BOOLEAN, Truncate(s, stay)
    PROVE  StepOK
<1>1. /\ hwm' = Lo(hwm, s) /\ na' = Resized(na, s, stay)
      /\ wins' = CutWins(s) /\ acked' = acked \cap Span(0, s)
  BY DEF Truncate
<1>2. /\ na \in Attr /\ hwm \in Ofs /\ AttrOK(na, hwm) /\ wins \subseteq Win
      /\ acked \subseteq Pos /\ Disjoint(wins) /\ AckOK(acked, na)
  BY DEF DataInv, Inv
<1>3. /\ na' \in Attr /\ na'.size = s /\ na'.init <= s /\ Lo(na.init, s) <= na'.init
      /\ na'.form = "resident" => na.form = "resident" /\ na'.alloc = {}
      /\ \A p \in Pos : p < s /\ Allocated(na, p) => Allocated(na', p)
      /\ \A p \in Pos : na'.disk[p] = "data" <=> na.disk[p] = "data" /\ p < s
      /\ \A p \in Pos : na.disk[p] = "data" => na'.disk[p] # "zero"
  BY <1>1, <1>2, ResizedFields, SMTT(40)
<1>4. hwm' \in Ofs
  BY <1>1, <1>2 DEF Lo, Ofs
<1>5. AttrOK(na', hwm')
  <2>1. na'.form \in {"resident", "runs"}
    BY <1>3 DEF Attr
  <2>2. DataBelow(na', hwm')
    BY <1>1, <1>2, <1>3, <2>1, SizeAssumption, SMTT(40) DEF AttrOK, DataBelow, Lo, Attr, Ofs, Pos
  <2>3. QED
    BY <1>3, <2>2 DEF AttrOK
<1>6. Disjoint(wins') /\ wins' \subseteq Win
  BY <1>1, <1>2, CutWinsShape
<1>7. ASSUME NEW v \in wins' PROVE WinOK(v, na', hwm')
  <2>1. PICK w \in wins : /\ v \in Win /\ v.off = w.off /\ v.end = w.end /\ v.map = w.map
                          /\ v.st = w.st /\ v.live = Hi(w.off, Lo(w.live, s))
    BY <1>1, <1>2, CutWinsShape
  <2>2. WinOK(w, na, hwm) /\ w \in Win
    BY <1>2 DEF DataInv, Inv
  <2>3. /\ v.off < v.end /\ v.off <= v.map /\ v.map <= v.end
        /\ v.off <= v.live /\ v.live <= v.end /\ v.live <= Hi(v.off, na'.size)
    BY <1>3, <2>1, <2>2, SMTT(40) DEF WinOK, Hi, Lo, Win, Ofs
  <2>4. \A p \in Pos : v.off <= p /\ p < v.live => p < s /\ p < w.live
    BY <2>1, <2>2, SizeAssumption, SMTT(40) DEF Hi, Lo, Win, Ofs, Pos
  <2>5. \A p \in Pos : p < s /\ p >= na'.init => p >= na.init
    BY <1>2, <1>3, SizeAssumption, SMTT(40) DEF Lo, Attr, Ofs, Pos
  <2>6. ASSUME NEW p \in Span(v.off, Lo(v.map, v.live))
        PROVE  Allocated(na', p) /\ (p >= na'.init => p < hwm')
    <3>1. p \in Pos /\ p < s /\ p \in Span(w.off, Lo(w.map, w.live))
      BY <2>1, <2>2, <2>4, SizeAssumption, SMTT(40) DEF Span, Lo, Win, Ofs, Pos
    <3>2. Allocated(na', p)
      BY <1>3, <2>2, <3>1 DEF WinOK
    <3>3. p >= na'.init => p < hwm'
      BY <1>1, <1>2, <2>2, <2>5, <3>1 DEF WinOK, Lo
    <3>4. QED
      BY <3>2, <3>3
  <2>7. \A p \in WinSpan(v) : p >= v.live => na'.disk[p] # "data"
    BY <1>3, <2>1, <2>2, SizeAssumption, SMTT(40) DEF WinOK, WinSpan, Span, Hi, Lo, Win, Ofs, Pos
  <2>8. v.st = "failed" => \A p \in WinSpan(v) : p >= na'.init => na'.disk[p] # "data"
    BY <1>3, <2>1, <2>2, <2>5 DEF WinOK, WinSpan, Span
  <2>9. v.st = "landed" => \A p \in Span(v.off, v.live) : na'.disk[p] = "data"
    BY <1>3, <2>1, <2>2, <2>4 DEF WinOK, Span
  <2>10. QED
    BY <2>3, <2>6, <2>7, <2>8, <2>9 DEF WinOK
<1>8. AckOK(acked', na')
  BY <1>1, <1>2, <1>3, SizeAssumption, SMTT(40) DEF AckOK, Span, Lo, Attr, Ofs, Pos
<1>9. QED
  BY <1>1, <1>2, <1>3, <1>4, <1>5, <1>6, <1>7, <1>8 DEF StepOK, NoZero, Inv

\* Making the file anew keeps the data invariant and zeroes no data.
LEMMA StepRecreate ==
    ASSUME DataInv, Recreate
    PROVE  StepOK
<1>1. /\ na' = [na EXCEPT !.form = "resident", !.size = 0, !.init = 0, !.alloc = {},
                          !.disk = [p \in Pos |-> "stale"]]
      /\ hwm' = 0 /\ wins' = CutWins(0) /\ acked' = {}
  BY DEF Recreate
<1>2. na \in Attr /\ wins \subseteq Win /\ Disjoint(wins) /\ 0 \in Ofs
  BY SizeAssumption, SMTT(40) DEF DataInv, Inv, Ofs
<1>3. /\ na' \in Attr /\ na'.size = 0 /\ na'.init = 0 /\ na'.alloc = {}
      /\ \A p \in Pos : na'.disk[p] = "stale"
  BY <1>1, <1>2 DEF Attr, Content
<1>4. AttrOK(na', 0)
  BY <1>3, SMTT(40) DEF AttrOK, DataBelow
<1>5. Disjoint(wins') /\ wins' \subseteq Win
  BY <1>1, <1>2, CutWinsShape
<1>6. ASSUME NEW v \in wins' PROVE WinOK(v, na', 0)
  <2>1. PICK w \in wins : /\ v \in Win /\ v.off = w.off /\ v.end = w.end /\ v.map = w.map
                          /\ v.st = w.st /\ v.live = Hi(w.off, Lo(w.live, 0))
    BY <1>1, <1>2, CutWinsShape
  <2>2. WinOK(w, na, hwm) /\ w \in Win
    BY <1>2 DEF DataInv, Inv
  <2>3. v.live = v.off
    BY <2>1, <2>2, SMTT(40) DEF Hi, Lo, Win, Ofs
  <2>4. Span(v.off, v.live) = {} /\ Span(v.off, Lo(v.map, v.live)) = {}
    BY <2>1, <2>3, SizeAssumption, SMTT(40) DEF Span, Lo, Win, Ofs, Pos
  <2>5. \A p \in WinSpan(v) : p \in Pos /\ p >= 0
    BY SizeAssumption, SMTT(40) DEF WinSpan, Span, Pos
  <2>6. v.off < v.end /\ v.off <= v.map /\ v.map <= v.end /\ v.live <= Hi(v.off, na'.size)
        /\ v.off <= v.live /\ v.live <= v.end
    BY <1>3, <2>1, <2>2, <2>3, SMTT(40) DEF WinOK, Hi, Win, Ofs
  <2>7. QED
    BY <1>3, <2>4, <2>5, <2>6 DEF WinOK
<1>7. QED
  BY <1>1, <1>2, <1>3, <1>4, <1>5, <1>6 DEF StepOK, Inv, AckOK, NoZero

\* A crash keeps the data invariant and zeroes no data.
LEMMA StepCrash ==
    ASSUME DataInv, Crash
    PROVE  StepOK
<1> DEFINE d == [p \in Pos |-> IF p >= na.init THEN "stale" ELSE na.disk[p]]
<1>1. hwm' = 0 /\ wins' = {} /\ acked' = acked /\ na' = [na EXCEPT !.disk = d]
  BY DEF Crash
<1>2. na \in Attr /\ AttrOK(na, hwm) /\ 0 \in Ofs /\ acked \subseteq Pos /\ AckOK(acked, na)
  BY SizeAssumption, SMTT(40) DEF DataInv, Inv, Ofs
<1>3. /\ d \in [Pos -> Content]
      /\ \A p \in Pos : d[p] = IF p >= na.init THEN "stale" ELSE na.disk[p]
  BY <1>2 DEF Attr, Content
<1> HIDE DEF d
<1>4. /\ na' \in Attr /\ na'.form = na.form /\ na'.size = na.size /\ na'.init = na.init
      /\ na'.alloc = na.alloc /\ na'.disk = d
  BY <1>1, <1>2, <1>3 DEF Attr
<1>5. AttrOK(na', 0)
  BY <1>2, <1>3, <1>4, SizeAssumption, SMTT(40) DEF AttrOK, DataBelow, Allocated, Attr, Ofs, Pos
<1>6. AckOK(acked, na')
  BY <1>2, <1>3, <1>4, SizeAssumption, SMTT(40) DEF AckOK, Allocated, Attr, Ofs, Pos
<1>7. QED
  BY <1>1, <1>2, <1>3, <1>4, <1>5, <1>6 DEF StepOK, Inv, Disjoint, NoZero

-----------------------------------------------------------------------------
\* The data invariant holds at first.
LEMMA InitInv == ASSUME Init PROVE DataInv
<1>1. /\ na \in Attr /\ hwm \in Ofs /\ wins = {} /\ acked = {} /\ na.init = 0 /\ na.size = 0
      /\ na.alloc = {} /\ \A p \in Pos : na.disk[p] = "stale"
  BY SizeAssumption, SMTT(40) DEF Init, Attr, Ofs, Content
<1>2. QED
  BY <1>1, SMTT(40) DEF DataInv, Inv, AttrOK, DataBelow, Disjoint, AckOK

\* The inputs that Next ranges over.
LEMMA InputTypes ==
    /\ Aligned \subseteq Ofs
    /\ \A x : Pads(x) \subseteq BOOLEAN
    /\ Stays \subseteq BOOLEAN
    /\ \A o, e : Stops(o, e) \subseteq Ofs
<1>1. Aligned \subseteq Ofs /\ \A o, e : Stops(o, e) \subseteq Ofs
  BY DEF Aligned, Stops
<1>2. ASSUME NEW x PROVE Pads(x) \subseteq BOOLEAN
  BY DEF Pads
<1>3. Stays \subseteq BOOLEAN
  BY DEF Stays
<1>4. QED
  BY <1>1, <1>2, <1>3

\* Every step keeps the data invariant and zeroes no data.
LEMMA NextInv ==
    ASSUME "truncfail" \notin Env, DataInv, [Next]_vars
    PROVE  StepOK
<1>1. CASE UNCHANGED vars
  BY <1>1 DEF vars, StepOK, DataInv, NoZero
<1>2. CASE Next
  <2>1. ASSUME NEW o \in Aligned, NEW e \in Aligned, NEW pad \in Pads(o),
               NEW m \in PackEnds(o, e), MapWrite(o, e, m, pad)
        PROVE  StepOK
    BY <2>1, StepMapWrite, InputTypes
  <2>2. ASSUME NEW o \in Aligned, NEW e \in Aligned, NEW pad \in Pads(o),
               NEW m \in PackEnds(o, e), MapWriteLateErr(o, e, m, pad)
        PROVE  StepOK
    BY <2>2, StepMapWriteLateErr, InputTypes
  <2>3. ASSUME NEW o \in Aligned, NEW e \in Aligned, NEW pad \in Pads(o), NEW q \in Stops(o, e),
               MapWriteErr(o, e, q, pad)
        PROVE  StepOK
    BY <2>3, StepMapWriteErr, InputTypes
  <2>4. ASSUME NEW w \in wins, NEW pad \in Pads(w.map), NEW m \in PackEnds(w.map, w.end),
               MapRest(w, m, pad)
        PROVE  StepOK
    BY <2>4, StepMapRest, InputTypes
  <2>5. ASSUME NEW pad \in BOOLEAN, MapRead(pad) PROVE StepOK
    BY <2>5, StepMapRead
  <2>6. ASSUME NEW w \in wins, LandPart(w) PROVE StepOK
    BY <2>6, StepLandPart
  <2>7. ASSUME NEW w \in wins, FailWrite(w) PROVE StepOK
    BY <2>7, StepFailWrite
  <2>8. ASSUME NEW w \in wins, CompleteWrite(w) PROVE StepOK
    BY <2>8, StepStamp DEF CompleteWrite
  <2>9. ASSUME NEW w \in wins, CompleteWriteErr(w) \/ AbortWriteErr(w) PROVE StepOK
    BY <2>9, StepDropWin, StepStamp DEF CompleteWriteErr, AbortWriteErr
  <2>10. ASSUME NEW w \in wins, AbortWrite(w) PROVE StepOK
    BY <2>10, StepAbortWrite
  <2>11. ASSUME NEW o \in Aligned, NEW e \in Aligned, CompleteUnmapped(o, e) PROVE StepOK
    BY <2>11, StepCompleteUnmapped DEF Aligned
  <2>12. ASSUME NEW s \in Ofs, NEW stay \in Stays, Truncate(s, stay) PROVE StepOK
    BY <2>12, StepTruncate, InputTypes
  <2>13. ASSUME NEW s \in Ofs, TruncateErr(s) PROVE StepOK
    BY <2>13 DEF TruncateErr
  <2>14. CASE Recreate
    BY <2>14, StepRecreate
  <2>15. CASE Crash
    BY <2>15, StepCrash
  <2>16. QED
    BY <1>2, <2>1, <2>2, <2>3, <2>4, <2>5, <2>6, <2>7, <2>8, <2>9, <2>10, <2>11, <2>12,
       <2>13, <2>14, <2>15 DEF Next
<1>3. QED
  BY <1>1, <1>2

\* The data invariant always holds.
LEMMA DataInvAlways ==
    ASSUME "truncfail" \notin Env
    PROVE  Spec => []DataInv /\ [][NoZero]_vars
<1>1. Init => DataInv
  BY InitInv
<1>2. DataInv /\ [Next]_vars => DataInv' /\ [NoZero]_vars
  BY NextInv DEF StepOK, DataInv
<1>3. QED
  BY <1>1, <1>2, PTL DEF Spec

\* The types of the attribute, the mark and the outstanding writes, for every
\* cluster and block size, file size and number of writes.
THEOREM TypeCorrect ==
    ASSUME "truncfail" \notin Env
    PROVE  Spec => []TypeOK
<1>1. DataInv => TypeOK
  BY DEF DataInv, Inv, AttrOK, TypeOK
<1>2. QED
  BY <1>1, DataInvAlways, PTL

\* No acknowledged write is ever lost: what completeIO acknowledged stays below
\* initialized_size, allocated and on disk until the file is cut below it,
\* through any maps, reordered completions, failures, aborts and crashes.
THEOREM AcknowledgedWritesSurvive ==
    ASSUME "truncfail" \notin Env
    PROVE  Spec => []AckedDurable
<1>1. DataInv => AckedDurable
  BY DEF DataInv, Inv, AckOK, AckedDurable
<1>2. QED
  BY <1>1, DataInvAlways, PTL

\* The mark of wr[] covers every byte the kernel may still write above
\* initialized_size, so zeroing at map time starts above it.
THEOREM MarkCovers ==
    ASSUME "truncfail" \notin Env
    PROVE  Spec => []MarkCoversInFlight
<1>1. DataInv => MarkCoversInFlight
  BY DEF DataInv, Inv, WinOK, MarkCoversInFlight
<1>2. QED
  BY <1>1, DataInvAlways, PTL

\* nk_blockmap, nk_complete_write, nk_abort_write and nk_truncate never turn
\* bytes the kernel wrote into zeros.
THEOREM DataNeverZeroed ==
    ASSUME "truncfail" \notin Env
    PROVE  Spec => NeverZeroesData
<1>1. [NoZero]_vars => [\A p \in Pos : na.disk[p] = "data" => na'.disk[p] # "zero"]_vars
  BY DEF NoZero
<1>2. QED
  BY <1>1, DataInvAlways, PTL DEF NeverZeroesData

-----------------------------------------------------------------------------
(* No stale byte is exposed.                                               *)

\* The behaviours of kernel and device under which the bridge keeps its promise.
OnlyHandledFaults == Env \subseteq {"reorder", "fail", "truncate", "maperr", "nomap", "comperr"}

\* A stale byte on a cluster of the file.
Stale(n, p) == Allocated(n, p) /\ n.disk[p] = "stale"

\* The invariant.  A stale byte below initialized_size or below the mark lies
\* in an outstanding write; the mark is in the file; a write that was cut off
\* lies behind the end of the file from there on; and a failed write that waits
\* for its abort has nothing stale below initialized_size, where nk_abort_write
\* would not zero it.
ExposureOK(n, h, W) ==
    /\ h <= n.size
    /\ \A p \in Pos : Stale(n, p) /\ (p < n.init \/ p < h) => \E w \in W : p \in WinSpan(w)
    /\ \A w \in W : w.live < w.end => n.size <= w.live
    /\ \A w \in W : w.st = "failed" =>
          \A p \in Span(w.off, w.live) : p < n.init => ~Stale(n, p)

\* Both invariants.
ExposureInv == DataInv /\ ExposureOK(na, hwm, wins)

-----------------------------------------------------------------------------
\* Attribute m with mark k shows no stale byte that n with mark h did not show.
Clean(n, h, m, k) ==
    /\ \A p \in Pos : Stale(m, p) /\ p < m.init => Stale(n, p) /\ p < n.init
    /\ \A p \in Pos : Stale(m, p) /\ (p < m.init \/ p < k)
                      => Stale(n, p) /\ (p < n.init \/ p < h)

\* Clean composes.
LEMMA CleanTrans ==
    ASSUME NEW n, NEW h, NEW m, NEW k, NEW l, NEW j, Clean(n, h, m, k), Clean(m, k, l, j)
    PROVE  Clean(n, h, l, j)
BY DEF Clean

\* Zeroing shows nothing.
LEMMA ZeroedClean ==
    ASSUME NEW n \in Attr, NEW Z, NEW h
    PROVE  Clean(n, h, Zeroed(n, Z), h)
BY ZeroedFields, SMTT(40) DEF Clean, Stale, Allocated

\* The resident bytes were zeros.
LEMMA ForceClean ==
    ASSUME NEW n \in Attr, NEW h \in Ofs, n.init <= n.size, h <= n.size
    PROVE  Clean(n, h, ForceNonResident(n), h)
<1>1. CASE n.form = "resident"
  <2> DEFINE Z == Span(0, n.size)
             m == Zeroed(n, Z)
             k == [m EXCEPT !.form = "runs", !.alloc = ClustersOf(Z), !.init = n.size]
  <2>1. ForceNonResident(n) = k
    BY <1>1 DEF ForceNonResident
  <2>2. /\ m \in Attr /\ \A p \in Pos : m.disk[p] = IF p \in Z THEN "zero" ELSE n.disk[p]
    <3> HIDE DEF Z
    <3> QED BY ZeroedFields, SMTT(40)
  <2>3. \A p \in Pos : p < n.size => p \in Z
    BY SizeAssumption, SMTT(40) DEF Span, Pos
  <2> HIDE DEF Z, m
  <2>4. k.init = n.size /\ k.disk = m.disk
    BY <2>2 DEF Attr
  <2> HIDE DEF k
  <2>5. \A p \in Pos : p < k.init \/ p < h => ~Stale(k, p)
    BY <2>2, <2>3, <2>4, SizeAssumption, SMTT(40) DEF Stale, Attr, Ofs, Pos
  <2> QED BY <2>1, <2>5 DEF Clean
<1>2. CASE n.form # "resident"
  BY <1>2 DEF ForceNonResident, Clean
<1> QED BY <1>1, <1>2

\* Clusters that a growth adds lie behind initialized_size and the mark.
LEMMA TruncateSolidClean ==
    ASSUME NEW n \in Attr, NEW h \in Ofs, NEW e \in Ofs, n.init <= n.size, h <= n.size
    PROVE  Clean(n, h, TruncateSolid(n, e), h)
<1> DEFINE new == ClustersOf(Span(n.size, e)) \ ClustersOf(Span(0, n.size))
           k   == [n EXCEPT !.size = e, !.alloc = @ \cup new]
<1>1. TruncateSolid(n, e) = IF e > n.size THEN k ELSE n
  BY DEF TruncateSolid
<1>2. \A p \in Pos : p < n.size => Clu(p) \notin new
  BY SizeAssumption, SMTT(40) DEF ClustersOf, Span, Pos, Attr, Ofs
<1> HIDE DEF new
<1>3. k.init = n.init /\ k.alloc = n.alloc \cup new /\ k.disk = n.disk
  BY DEF Attr
<1> HIDE DEF k
<1>4. \A p \in Pos : p < n.init \/ p < h => p < n.size
  BY SizeAssumption, SMTT(40) DEF Pos, Attr, Ofs
<1>5. Clean(n, h, k, h)
  BY <1>2, <1>3, <1>4 DEF Clean, Stale, Allocated
<1>6. Clean(n, h, n, h)
  BY DEF Clean
<1> QED BY <1>1, <1>5, <1>6

\* initialized_size moves over zeros only.
LEMMA PwriteZerosClean ==
    ASSUME NEW n \in Attr, NEW h \in Ofs, NEW to \in Ofs, NEW pad \in BOOLEAN, h <= n.init
    PROVE  /\ Clean(n, h, PwriteZeros(n, to, pad), h)
           /\ PwriteZeros(n, to, pad).init = Hi(n.init, to)
<1>1. CASE to <= n.init
  BY <1>1 DEF PwriteZeros, Clean, Hi, Attr, Ofs
<1>2. CASE ~(to <= n.init)
  <2> DEFINE body  == Span(n.init, to)
             fresh == ClustersOf(body) \ n.alloc
             tail  == {p \in Pos : pad /\ p >= to /\ Clu(p) = Clu(to - 1)}
             Z     == body \cup tail \cup {p \in Pos : Clu(p) \in fresh}
             m     == Zeroed(n, Z)
             k     == [m EXCEPT !.alloc = @ \cup fresh, !.init = to]
  <2>1. PwriteZeros(n, to, pad) = k
    BY <1>2 DEF PwriteZeros
  <2>2. \A p \in Pos : n.init <= p /\ p < to => p \in Z
    BY DEF Span
  <2>3. \A p \in Pos : Clu(p) \in fresh => p \in Z
    OBVIOUS
  <2>4. /\ m \in Attr /\ m.alloc = n.alloc
        /\ \A p \in Pos : m.disk[p] = IF p \in Z THEN "zero" ELSE n.disk[p]
    <3> HIDE DEF Z
    <3> QED BY ZeroedFields, SMTT(40)
  <2> HIDE DEF Z, fresh, m
  <2>5. k.init = to /\ k.alloc = n.alloc \cup fresh /\ k.disk = m.disk
    BY <2>4 DEF Attr
  <2> HIDE DEF k
  <2>6. ASSUME NEW p \in Pos, Stale(k, p)
        PROVE  Stale(n, p) /\ (p < to => p < n.init)
    <3>1. Clu(p) \in n.alloc \cup fresh /\ m.disk[p] = "stale"
      BY <2>5, <2>6 DEF Stale, Allocated
    <3>2. p \notin Z /\ n.disk[p] = "stale"
      BY <2>4, <3>1
    <3>3. Stale(n, p)
      BY <2>3, <3>1, <3>2 DEF Stale, Allocated
    <3>4. ~(n.init <= p /\ p < to)
      BY <2>2, <3>2
    <3> QED BY <3>3, <3>4, SizeAssumption, SMTT(40) DEF Attr, Ofs, Pos
  <2>7. \A p \in Pos : p < h => p < n.init
    BY SizeAssumption, SMTT(40) DEF Attr, Ofs, Pos
  <2>8. Clean(n, h, k, h)
    BY <2>5, <2>6, <2>7 DEF Clean
  <2>9. k.init = Hi(n.init, to)
    BY <1>2, <2>5 DEF Hi, Attr, Ofs
  <2> QED BY <2>1, <2>8, <2>9
<1> QED BY <1>1, <1>2

\* After the map-time zeroing nothing is shown below the window either.
LEMMA ZeroGapClean ==
    ASSUME NEW n \in Attr, NEW h \in Ofs, NEW o \in Ofs, NEW pad \in BOOLEAN
    PROVE  Clean(n, h, ZeroGap(n, h, o, pad), Hi(h, o))
<1> DEFINE m == ZeroGap(n, h, o, pad)
<1>1. CASE h <= n.init
  <2>1. Clean(n, h, m, h) /\ m.init = Hi(n.init, o)
    BY <1>1, PwriteZerosClean DEF ZeroGap
  <2> HIDE DEF m
  <2>2. \A p \in Pos : p < Hi(h, o) => p < m.init
    BY <1>1, <2>1, SizeAssumption, SMTT(40) DEF Hi, Attr, Ofs, Pos
  <2> QED BY <2>1, <2>2 DEF Clean, m
<1>2. CASE ~(h <= n.init)
  <2> DEFINE Z == {p \in Span(h, o) : Allocated(n, p)}
  <2>1. m = Zeroed(n, Z)
    BY <1>2 DEF ZeroGap, ZeroRaw
  <2>2. \A p \in Pos : Allocated(n, p) /\ p < Hi(h, o) => p < h \/ p \in Z
    BY SizeAssumption, SMTT(40) DEF Hi, Span, Ofs, Pos
  <2> HIDE DEF Z, m
  <2>3. /\ m.init = n.init /\ m.alloc = n.alloc
        /\ \A p \in Pos : m.disk[p] = IF p \in Z THEN "zero" ELSE n.disk[p]
    BY <2>1, ZeroedFields, SMTT(40)
  <2>4. \A p \in Pos : Stale(m, p) => Stale(n, p) /\ p \notin Z
    BY <2>3 DEF Stale, Allocated
  <2> QED BY <2>2, <2>3, <2>4 DEF Clean, Stale, m
<1> QED BY <1>1, <1>2

\* New clusters of a hole are zeroed whole.
LEMMA FillHolesClean ==
    ASSUME NEW n \in Attr, NEW h, NEW o, NEW e, NEW k
    PROVE  Clean(n, k, FillHoles(n, h, o, e), k)
<1> DEFINE holes == {p \in Span(o, e) : ~Allocated(n, p)}
           fresh == ClustersOf(holes)
           below == {p \in Pos : p >= Hi(n.init, h) /\ \E q \in holes : p < q}
           Z     == {p \in Pos : Clu(p) \in fresh} \cup {p \in below : Allocated(n, p)}
           m     == Zeroed(n, Z)
           f     == [m EXCEPT !.alloc = @ \cup fresh]
<1>1. FillHoles(n, h, o, e) = f
  BY DEF FillHoles
<1>2. \A p \in Pos : Clu(p) \in fresh => p \in Z
  OBVIOUS
<1> HIDE DEF Z
<1>3. /\ m \in Attr /\ m.alloc = n.alloc /\ m.init = n.init
      /\ \A p \in Pos : m.disk[p] = IF p \in Z THEN "zero" ELSE n.disk[p]
  BY ZeroedFields, SMTT(40)
<1> HIDE DEF fresh, m
<1>4. f.init = n.init /\ f.alloc = n.alloc \cup fresh /\ f.disk = m.disk
  BY <1>3 DEF Attr
<1> HIDE DEF f
<1>5. \A p \in Pos : Stale(f, p) => Stale(n, p)
  BY <1>2, <1>3, <1>4 DEF Stale, Allocated
<1> QED BY <1>1, <1>4, <1>5 DEF Clean

\* A write map up to the extent loop, or the part of it done when it fails.
LEMMA PreparedClean ==
    ASSUME NEW n \in Attr, NEW h \in Ofs, NEW e \in Ofs, NEW q \in Ofs, NEW pad \in BOOLEAN,
           AttrOK(n, h), q <= e, h <= n.size
    PROVE  LET zeroed == ZeroGap(TruncateSolid(ForceNonResident(n), e), h, q, pad)
           IN  /\ Clean(n, h, zeroed, Hi(h, q))
               /\ \A o, d : Clean(n, h, FillHoles(zeroed, h, o, d), Hi(h, q))
<1> DEFINE f == ForceNonResident(n)
           g == TruncateSolid(f, e)
           z == ZeroGap(g, h, q, pad)
<1>1. Grows(n, f) /\ f.form = "runs" /\ f.size = n.size
  BY ForceGrows DEF AttrOK
<1>2. Clean(n, h, f, h)
  BY ForceClean DEF AttrOK
<1> HIDE DEF f
<1>3. f \in Attr /\ f.init <= f.size /\ h <= f.size
  BY <1>1 DEF Grows
<1>4. Grows(f, g) /\ Clean(f, h, g, h)
  BY <1>1, <1>3, TruncateSolidGrows, TruncateSolidClean
<1> HIDE DEF g
<1>5. g \in Attr
  BY <1>4 DEF Grows
<1>6. Clean(g, h, z, Hi(h, q))
  BY <1>5, ZeroGapClean
<1>7. z \in Attr
  BY PreparedGrows DEF z, g, f
<1> HIDE DEF z
<1>8. Clean(n, h, z, Hi(h, q))
  BY <1>2, <1>4, <1>6, CleanTrans
<1>9. ASSUME NEW o, NEW d PROVE Clean(n, h, FillHoles(z, h, o, d), Hi(h, q))
  BY <1>7, <1>8, FillHolesClean, CleanTrans
<1> QED BY <1>8, <1>9 DEF z, g, f

-----------------------------------------------------------------------------
\* How the invariant moves.

\* A clean change of the attribute keeps it, with the file grown only while no
\* outstanding write is cut off.
LEMMA CleanKeeps ==
    ASSUME NEW n, NEW h, NEW W, ExposureOK(n, h, W), NEW m, NEW k, Clean(n, h, m, k),
           k <= m.size, m.size = n.size \/ \A w \in W : ~(w.live < w.end)
    PROVE  ExposureOK(m, k, W)
BY DEF ExposureOK, Clean, Span

\* A stale byte that a step brings below initialized_size belongs to a write that
\* stays outstanding and that initialized_size moves past.
Explained == \A p \in Pos : Stale(na', p) /\ p < na'.init =>
                \/ Stale(na, p) /\ p < na.init
                \/ \E v \in wins \cap wins' : /\ p \in WinSpan(v)
                                             /\ v.end <= na'.init /\ na.init < na'.init

\* What an action lemma shows.
Kept == ExposureOK(na', hwm', wins') /\ Explained

\* A step that shows nothing new.
LEMMA CleanExplains == ASSUME NEW h, NEW k, Clean(na, h, na', k) PROVE Explained
BY DEF Clean, Explained

\* The facts about the state that the steps use.
LEMMA Facts ==
    ASSUME ExposureInv
    PROVE  /\ na \in Attr /\ hwm \in Ofs /\ wins \subseteq Win /\ acked \subseteq Pos
           /\ AttrOK(na, hwm) /\ na.init <= na.size /\ hwm <= na.size
           /\ \A w \in wins : WinOK(w, na, hwm)
           /\ Disjoint(wins) /\ AckOK(acked, na)
BY DEF ExposureInv, DataInv, Inv, AttrOK, ExposureOK

\* Growing is refused while a write is cut off.
LEMMA MayGrowSize ==
    ASSUME OnlyHandledFaults, ExposureInv, NEW e \in Ofs, MayGrow(e), NEW m, m.size = Hi(na.size, e)
    PROVE  m.size = na.size \/ \A w \in wins : ~(w.live < w.end)
<1>1. na.size \in Ofs
  BY Facts DEF Attr
<1>2. CASE e > na.size
  BY <1>2 DEF MayGrow, Cut, OnlyHandledFaults
<1>3. CASE ~(e > na.size)
  BY <1>1, <1>3, SMTT(40) DEF Hi, Ofs
<1> QED BY <1>2, <1>3

\* nk_blockmap of [o, e), packed up to m: what it newly shows below the mark is
\* part of what it hands out.
LEMMA BlockmapShows ==
    ASSUME ExposureInv, NEW o \in Ofs, NEW e \in Ofs, NEW m \in Ofs, NEW pad \in BOOLEAN,
           o < m, m <= e, Blockmap(o, e, m, pad)
    PROVE  /\ Clean(na, hwm, na', Hi(hwm, o))
           /\ na'.size = Hi(na.size, e) /\ hwm' <= na'.size
           /\ \A p \in Pos : p < hwm' => p < Hi(hwm, o) \/ p \in Span(o, e)
<1> DEFINE z == ZeroGap(TruncateSolid(ForceNonResident(na), e), hwm, o, pad)
<1>1. na \in Attr /\ hwm \in Ofs /\ AttrOK(na, hwm) /\ hwm <= na.size
  BY Facts
<1>2. na' = FillHoles(z, hwm, o, e) /\ hwm' = Raised(na', hwm, m)
  BY DEF Blockmap, Prepared
<1>3. o <= e
  BY SMTT(40) DEF Ofs
<1>4. Clean(na, hwm, na', Hi(hwm, o))
  BY <1>1, <1>2, <1>3, PreparedClean
<1>5. na'.size = Hi(na.size, e)
  BY <1>1, <1>2, <1>3, PreparedGrows, SMTT(40)
<1> HIDE DEF z
<1>6. hwm' = hwm \/ hwm' = m
  BY <1>2 DEF Raised
<1>7. hwm' <= na'.size
  BY <1>1, <1>5, <1>6, SMTT(40) DEF Hi, Attr, Ofs
<1>8. \A p \in Pos : p < hwm' => p < Hi(hwm, o) \/ p \in Span(o, e)
  BY <1>1, <1>6, SizeAssumption, SMTT(40) DEF Hi, Span, Ofs, Pos
<1> QED BY <1>4, <1>5, <1>7, <1>8

\* ... so the invariant holds of the writes V that are outstanding afterwards,
\* when [o, e) is in one of them.
LEMMA BlockmapKept ==
    ASSUME OnlyHandledFaults, ExposureInv, NEW o \in Ofs, NEW e \in Ofs, NEW m \in Ofs,
           NEW pad \in BOOLEAN, o < m, m <= e, Blockmap(o, e, m, pad), MayGrow(e),
           NEW V,
           \A w \in wins : \E v \in V : v.off = w.off /\ v.end = w.end,
           \E v \in V : Span(o, e) \subseteq WinSpan(v),
           \A v \in V : \/ ~(v.live < v.end) /\ v.st # "failed"
                        \/ v \in wins
    PROVE  ExposureOK(na', hwm', V) /\ Explained
<1>1. /\ Clean(na, hwm, na', Hi(hwm, o))
      /\ na'.size = Hi(na.size, e) /\ hwm' <= na'.size
      /\ \A p \in Pos : p < hwm' => p < Hi(hwm, o) \/ p \in Span(o, e)
  BY BlockmapShows
<1>2. na'.size = na.size \/ \A w \in wins : ~(w.live < w.end)
  BY <1>1, MayGrowSize
<1>3. \A w \in wins : \E v \in V : WinSpan(v) = WinSpan(w)
  BY DEF WinSpan
<1>4. ASSUME NEW p \in Pos, Stale(na', p), p < na'.init \/ p < hwm'
      PROVE  \E v \in V : p \in WinSpan(v)
  <2>1. CASE p \in Span(o, e)
    BY <2>1
  <2>2. CASE p \notin Span(o, e)
    <3>1. Stale(na, p) /\ (p < na.init \/ p < hwm)
      BY <1>1, <1>4, <2>2 DEF Clean
    <3>2. PICK w \in wins : p \in WinSpan(w)
      BY <3>1 DEF ExposureInv, ExposureOK
    <3> QED BY <1>3, <3>2
  <2> QED BY <2>1, <2>2
<1>5. \A v \in V : v.live < v.end => na'.size <= v.live
  BY <1>2 DEF ExposureInv, ExposureOK
<1>6. \A v \in V : v.st = "failed" => \A p \in Span(v.off, v.live) : p < na'.init => ~Stale(na', p)
  BY <1>1 DEF Clean, ExposureInv, ExposureOK, Span
<1>7. Explained
  BY <1>1, CleanExplains
<1> QED BY <1>1, <1>4, <1>5, <1>6, <1>7 DEF ExposureOK

-----------------------------------------------------------------------------
\* One lemma per action.

\* A write is mapped.
LEMMA ExposureMapWrite ==
    ASSUME OnlyHandledFaults, ExposureInv, NEW o \in Ofs, NEW e \in Ofs, NEW pad \in BOOLEAN,
           NEW m \in PackEnds(o, e), MapWrite(o, e, m, pad)
    PROVE  Kept
<1> DEFINE w == [off |-> o, end |-> e, map |-> m, live |-> e, st |-> "out"]
<1>1. o < e /\ MayGrow(e) /\ Blockmap(o, e, m, pad) /\ wins' = wins \cup {w}
  BY DEF MapWrite
<1>2. m \in Ofs /\ o < m /\ m <= e
  BY <1>1, PackEndsType
<1>3. w.off = o /\ w.end = e /\ ~(w.live < w.end) /\ w.st # "failed"
  BY SMTT(40) DEF Ofs
<1> HIDE DEF w
<1>4. Span(o, e) \subseteq WinSpan(w)
  BY <1>3 DEF WinSpan
<1>5. ExposureOK(na', hwm', wins \cup {w}) /\ Explained
  BY <1>1, <1>2, <1>3, <1>4, BlockmapKept, SMTT(40)
<1> QED BY <1>1, <1>5 DEF Kept

\* The rest of a write is mapped.
LEMMA ExposureMapRest ==
    ASSUME OnlyHandledFaults, ExposureInv, NEW w \in wins, NEW pad \in BOOLEAN,
           NEW m \in PackEnds(w.map, w.end), MapRest(w, m, pad)
    PROVE  Kept
<1> DEFINE v == [w EXCEPT !.map = m]
<1>1. /\ w.st = "out" /\ w.map < w.end /\ w.live = w.end
      /\ Blockmap(w.map, w.end, m, pad) /\ wins' = (wins \ {w}) \cup {v}
  BY DEF MapRest
<1>2. w \in Win /\ WinOK(w, na, hwm) /\ na.size \in Ofs
  BY Facts DEF Attr
<1>3. w.off \in Ofs /\ w.map \in Ofs /\ w.end \in Ofs /\ w.off <= w.map
  BY <1>2 DEF Win, WinOK
<1>4. m \in Ofs /\ w.map < m /\ m <= w.end
  BY <1>1, <1>3, PackEndsType
<1>5. v.off = w.off /\ v.end = w.end /\ v.live = w.end /\ v.st = "out"
  BY <1>1, <1>2 DEF Win
<1> HIDE DEF v
<1>6. Span(w.map, w.end) \subseteq WinSpan(v)
  BY <1>3, <1>5, SizeAssumption, SMTT(40) DEF WinSpan, Span, Ofs, Pos
<1>7. MayGrow(w.end)
  <2>1. ~(w.end > na.size)
    BY <1>1, <1>2, <1>3, SMTT(40) DEF WinOK, Hi, Ofs
  <2> QED BY <2>1 DEF MayGrow
<1>8. ~(v.live < v.end)
  BY <1>3, <1>5, SMTT(40) DEF Ofs
<1>9. ExposureOK(na', hwm', (wins \ {w}) \cup {v}) /\ Explained
  <2> DEFINE V == (wins \ {w}) \cup {v}
  <2>1. \A u \in wins : \E x \in V : x.off = u.off /\ x.end = u.end
    BY <1>5
  <2>2. \E x \in V : Span(w.map, w.end) \subseteq WinSpan(x)
    BY <1>6
  <2>3. \A x \in V : (~(x.live < x.end) /\ x.st # "failed") \/ x \in wins
    BY <1>5, <1>8
  <2> HIDE DEF V
  <2>4. ExposureOK(na', hwm', V) /\ Explained
    <3>1. Blockmap(w.map, w.end, m, pad)
      BY <1>1
    <3>2. w.map \in Ofs /\ w.end \in Ofs /\ m \in Ofs /\ w.map < m /\ m <= w.end
      BY <1>3, <1>4
    <3> QED BY <1>7, <2>1, <2>2, <2>3, <3>1, <3>2, BlockmapKept
  <2> QED BY <2>4 DEF V
<1> QED BY <1>1, <1>9 DEF Kept

\* A write map fails on the way.
LEMMA ExposureMapWriteErr ==
    ASSUME OnlyHandledFaults, ExposureInv, NEW o \in Ofs, NEW e \in Ofs, NEW q \in Ofs,
           NEW pad \in BOOLEAN, MapWriteErr(o, e, q, pad)
    PROVE  Kept
<1> DEFINE l == Lo(q, o)
           z == ZeroGap(TruncateSolid(ForceNonResident(na), e), hwm, l, pad)
<1>1. /\ o < e /\ MayGrow(e) /\ hwm' = hwm /\ wins' = wins
      /\ na' = IF q < o THEN z ELSE FillHoles(z, hwm, o, q)
  BY DEF MapWriteErr
<1>2. na \in Attr /\ hwm \in Ofs /\ AttrOK(na, hwm) /\ hwm <= na.size
  BY Facts
<1>3. l \in Ofs /\ l <= e
  BY <1>1, SMTT(40) DEF Lo, Ofs
<1> HIDE DEF l
<1>4. Clean(na, hwm, z, Hi(hwm, l)) /\ Clean(na, hwm, FillHoles(z, hwm, o, q), Hi(hwm, l))
  BY <1>2, <1>3, PreparedClean
<1>5. z.size = Hi(na.size, e) /\ FillHoles(z, hwm, o, q).size = Hi(na.size, e)
  BY <1>2, <1>3, PreparedGrows, SMTT(40)
<1> HIDE DEF z
<1>6. Clean(na, hwm, na', Hi(hwm, l)) /\ na'.size = Hi(na.size, e)
  BY <1>1, <1>4, <1>5
<1>7. \A p \in Pos : p < hwm => p < Hi(hwm, l)
  BY <1>2, <1>3, SizeAssumption, SMTT(40) DEF Hi, Ofs, Pos
<1>8. Clean(na, hwm, na', hwm)
  BY <1>6, <1>7 DEF Clean
<1>9. na'.size = na.size \/ \A w \in wins : ~(w.live < w.end)
  BY <1>1, <1>6, MayGrowSize
<1>10. hwm <= na'.size
  BY <1>2, <1>6, SMTT(40) DEF Hi, Attr, Ofs
<1>11. Explained
  BY <1>8, CleanExplains
<1> QED BY <1>1, <1>8, <1>9, <1>10, <1>11, CleanKeeps DEF Kept, ExposureInv

\* A read map.
LEMMA ExposureMapRead ==
    ASSUME ExposureInv, NEW pad \in BOOLEAN, MapRead(pad)
    PROVE  Kept
<1> DEFINE n    == ForceNonResident(na)
           zend == Lo(RoundUp(n.init, BlockSize), n.size)
<1>1. /\ na' = IF hwm <= n.init THEN PwriteZeros(n, zend, pad) ELSE n
      /\ hwm' = hwm /\ wins' = wins
  BY DEF MapRead
<1>2. na \in Attr /\ hwm \in Ofs /\ AttrOK(na, hwm) /\ hwm <= na.size /\ na.init <= na.size
  BY Facts
<1>3. Grows(na, n) /\ n.form = "runs" /\ n.size = na.size /\ Clean(na, hwm, n, hwm)
  BY <1>2, ForceGrows, ForceClean DEF AttrOK
<1> HIDE DEF n
<1>4. n \in Attr /\ n.init <= n.size /\ DataBelow(n, hwm)
  BY <1>2, <1>3, GrowsDataBelow DEF Grows, AttrOK
<1>5. RoundUp(n.init, BlockSize) \in Nat
  BY <1>4, RoundUpNat, SizeAssumption, SMTT(40) DEF Attr, Ofs
<1>6. zend \in Ofs /\ zend <= n.size
  <2>1. \A r \in Nat : Lo(r, n.size) \in Ofs /\ Lo(r, n.size) <= n.size
    BY <1>4, SizeAssumption, SMTT(40) DEF Lo, Attr, Ofs
  <2> QED BY <1>5, <2>1
<1> HIDE DEF zend
<1>7. Clean(na, hwm, na', hwm) /\ na'.size = na.size
  <2>1. CASE hwm <= n.init
    <3>1. Clean(n, hwm, PwriteZeros(n, zend, pad), hwm) /\ PwriteZeros(n, zend, pad).size = n.size
      BY <1>2, <1>3, <1>4, <1>6, <2>1, PwriteZerosClean, PwriteZerosGrows
    <3> QED BY <1>1, <1>3, <2>1, <3>1, CleanTrans
  <2>2. CASE ~(hwm <= n.init)
    BY <1>1, <1>3, <2>2
  <2> QED BY <2>1, <2>2
<1>8. hwm <= na'.size
  BY <1>2, <1>7
<1>9. ExposureOK(na', hwm, wins)
  BY <1>7, <1>8, CleanKeeps DEF ExposureInv
<1>10. Explained
  BY <1>7, CleanExplains
<1> QED BY <1>1, <1>9, <1>10 DEF Kept

\* A write lands, or its mapped part.
LEMMA ExposureLandPart ==
    ASSUME ExposureInv, NEW w \in wins, LandPart(w)
    PROVE  Kept
<1> DEFINE d == [p \in Pos |-> IF p \in Span(w.off, Lo(w.map, w.live)) /\ Allocated(na, p)
                               THEN "data" ELSE na.disk[p]]
           v == [w EXCEPT !.st = "landed"]
<1>1. /\ na' = [na EXCEPT !.disk = d] /\ hwm' = hwm
      /\ wins' = IF w.map < w.live THEN wins ELSE (wins \ {w}) \cup {v}
  BY DEF LandPart
<1>2. na \in Attr /\ hwm <= na.size /\ w \in Win
  BY Facts
<1>3. \A p \in Pos : d[p] = "stale" => na.disk[p] = "stale"
  OBVIOUS
<1> HIDE DEF d
<1>4. na'.size = na.size /\ na'.init = na.init /\ na'.alloc = na.alloc /\ na'.disk = d
  BY <1>1, <1>2 DEF Attr
<1>5. Clean(na, hwm, na', hwm)
  BY <1>3, <1>4 DEF Clean, Stale, Allocated
<1>6. hwm <= na'.size
  BY <1>2, <1>4
<1>7. ExposureOK(na', hwm, wins)
  BY <1>4, <1>5, <1>6, CleanKeeps DEF ExposureInv
<1>8. v.off = w.off /\ v.end = w.end /\ v.live = w.live /\ v.st = "landed"
  BY <1>2 DEF Win
<1> HIDE DEF v
<1>9. ExposureOK(na', hwm, (wins \ {w}) \cup {v})
  BY <1>7, <1>8 DEF ExposureOK, WinSpan
<1>10. Explained
  BY <1>5, CleanExplains
<1> QED BY <1>1, <1>7, <1>9, <1>10 DEF Kept

\* The bytes a failed write leaves behind are its own, and an overtaken write
\* does not fail.
LEMMA ExposureFailWrite ==
    ASSUME OnlyHandledFaults, ExposureInv, NEW w \in wins, FailWrite(w)
    PROVE  Kept
<1> DEFINE S == {p \in Span(w.off, w.live) : p >= na.init /\ (p < w.map \/ na.disk[p] = "data")}
           d == [p \in Pos |-> IF /\ p \in Span(w.off, w.live) /\ p >= na.init
                                  /\ p < w.map \/ na.disk[p] = "data"
                               THEN "stale" ELSE na.disk[p]]
           v == [w EXCEPT !.st = "failed"]
<1>1. /\ ~Overtaken(w, na.init) /\ na' = [na EXCEPT !.disk = d] /\ hwm' = hwm
      /\ wins' = (wins \ {w}) \cup {v}
  BY DEF FailWrite, OnlyHandledFaults
<1>2. na \in Attr /\ hwm <= na.size /\ w \in Win /\ WinOK(w, na, hwm) /\ AckOK(acked, na)
  BY Facts
<1>3. \A p \in Pos : d[p] = IF p \in S THEN "stale" ELSE na.disk[p]
  OBVIOUS
<1> HIDE DEF d
<1>4. na'.size = na.size /\ na'.init = na.init /\ na'.alloc = na.alloc /\ na'.disk = d
  BY <1>1, <1>2 DEF Attr
<1>5. \A p \in S : p \in WinSpan(w) /\ ~(p < na.init)
  BY <1>2, SizeAssumption, SMTT(40) DEF WinOK, WinSpan, Span, Win, Attr, Ofs, Pos
<1> HIDE DEF S
<1>6. v.off = w.off /\ v.end = w.end /\ v.live = w.live /\ v.st = "failed"
  BY <1>2 DEF Win
<1> HIDE DEF v
<1>7. ASSUME NEW p \in Pos, Stale(na', p), p < na.init \/ p < hwm
      PROVE  \E u \in wins' : p \in WinSpan(u)
  <2>1. WinSpan(v) = WinSpan(w) /\ v \in wins'
    BY <1>1, <1>6 DEF WinSpan
  <2>2. CASE p \in S
    BY <1>5, <2>1, <2>2
  <2>3. CASE p \notin S
    <3>1. Stale(na, p)
      BY <1>3, <1>4, <1>7, <2>3 DEF Stale, Allocated
    <3>2. PICK u \in wins : p \in WinSpan(u)
      BY <1>7, <3>1 DEF ExposureInv, ExposureOK
    <3> QED BY <1>1, <2>1, <3>2
  <2> QED BY <2>2, <2>3
<1>8. \A p \in Pos : p < na.init /\ Stale(na', p) => Stale(na, p)
  BY <1>3, <1>4, <1>5 DEF Stale, Allocated
<1>9. \A p \in Span(w.off, w.live) : p < na.init => ~Stale(na, p)
  BY <1>1, <1>2 DEF Overtaken, AckOK, Stale
<1>10. ASSUME NEW u \in wins', u.st = "failed", NEW p \in Span(u.off, u.live), p < na'.init
       PROVE  ~Stale(na', p)
  <2>1. p \in Pos /\ p < na.init
    BY <1>4, <1>10 DEF Span
  <2>2. ~Stale(na, p)
    <3>1. CASE u = v
      BY <1>6, <1>9, <2>1, <3>1
    <3>2. CASE u # v
      BY <1>1, <1>10, <2>1, <3>2 DEF ExposureInv, ExposureOK
    <3> QED BY <3>1, <3>2
  <2> QED BY <1>8, <2>1, <2>2
<1>11. \A u \in wins' : u.live < u.end => na'.size <= u.live
  BY <1>1, <1>4, <1>6 DEF ExposureInv, ExposureOK
<1>12. Explained
  BY <1>4, <1>8 DEF Explained
<1> QED BY <1>1, <1>2, <1>4, <1>7, <1>10, <1>11, <1>12 DEF Kept, ExposureOK

\* A byte of an outstanding write that is in the file was not cut off.
LEMMA InFileIsLive ==
    ASSUME ExposureInv, NEW w \in wins, NEW p \in WinSpan(w), p < na.size
    PROVE  p \in Span(w.off, w.live)
<1>1. w \in Win /\ WinOK(w, na, hwm) /\ na \in Attr
  BY Facts
<1>2. w.live < w.end => na.size <= w.live
  BY DEF ExposureInv, ExposureOK
<1> QED BY <1>1, <1>2, SizeAssumption, SMTT(40) DEF WinOK, WinSpan, Span, Win, Attr, Ofs, Pos

\* The mark is kept or dropped.
LEMMA SettledLowers == ASSUME NEW n, NEW h, NEW o PROVE Settled(n, h, o) \in {h, 0}
BY DEF Settled

\* The completion of [o, e) over n, whose bytes there are not stale: nothing is
\* shown up to the new initialized_size, nor in a failed write it may not pass.
LEMMA CompletedClean ==
    ASSUME NEW n \in Attr, NEW h \in Ofs, NEW o \in Ofs, NEW e \in Ofs,
           n.init <= n.size, h <= n.size,
           n.form = "resident" => n.alloc = {},
           \A p \in Span(o, e) : p < n.size => ~Stale(n, p)
    PROVE  LET c == Completed(n, h, o, e)
           IN  /\ c.size = n.size
               /\ \A p \in Pos : Stale(c, p) => Stale(n, p)
               /\ \A p \in Pos : Stale(c, p) /\ p < c.init => p < n.init \/ p < h
               /\ c.init = n.init \/ c.init = Hi(n.init, Lo(e, n.size))
<1>1. CASE n.form = "resident" \/ o >= n.size
  BY <1>1 DEF Completed
<1>2. CASE ~(n.form = "resident" \/ o >= n.size)
  <2> DEFINE Z == {p \in Span(Hi(n.init, h), o) : Allocated(n, p)}
             c == Completed(n, h, o, e)
  <2>1. n.form = "runs" /\ o < n.size
    BY <1>2, SMTT(40) DEF Attr, Ofs
  <2>2. /\ c.size = n.size /\ c.alloc = n.alloc /\ c.init = Hi(n.init, Lo(e, n.size))
        /\ \A p \in Pos : c.disk[p] = IF p \in Z THEN "zero" ELSE n.disk[p]
    BY <2>1, CompletedFields, SMTT(40)
  <2> HIDE DEF c
  <2>3. \A p \in Pos : Stale(c, p) => Stale(n, p) /\ p \notin Z
    <3> HIDE DEF Z
    <3> QED BY <2>2 DEF Stale, Allocated
  <2>4. ASSUME NEW p \in Pos, Stale(c, p), p < c.init, ~(p < n.init), ~(p < h)
        PROVE  FALSE
    <3>1. Stale(n, p) /\ p \notin Z /\ Allocated(n, p)
      BY <2>3, <2>4 DEF Stale
    <3>2. ~(p < o)
      BY <2>4, <3>1, SizeAssumption, SMTT(40) DEF Span, Hi, Attr, Ofs, Pos
    <3>3. p < e /\ p < n.size
      BY <2>2, <2>4, SizeAssumption, SMTT(40) DEF Hi, Lo, Attr, Ofs, Pos
    <3>4. p \in Span(o, e)
      BY <3>2, <3>3, SizeAssumption, SMTT(40) DEF Span, Ofs, Pos
    <3> QED BY <3>1, <3>3, <3>4
  <2> QED BY <2>2, <2>3, <2>4 DEF c
<1> QED BY <1>1, <1>2

\* A completion of [o, e) whose bytes are written, over n, which is the
\* attribute with fewer stale bytes, keeps the invariant for the writes W that
\* stay outstanding.
LEMMA CompletionKeeps ==
    ASSUME OnlyHandledFaults, ExposureInv, NEW n \in Attr,
           n.size = na.size, n.init = na.init, n.form = na.form, n.alloc = na.alloc,
           \A p \in Pos : Stale(n, p) => Stale(na, p),
           NEW o \in Ofs, NEW e \in Ofs, MayPass(e),
           \A p \in Span(o, e) : p < na.size => ~Stale(n, p),
           NEW W \in SUBSET wins,
           \A w \in wins \ W : \A p \in WinSpan(w) : p < na.size => ~Stale(n, p)
    PROVE  LET c == Completed(n, hwm, o, e)
           IN  ExposureOK(c, Settled(c, hwm, o), W)
<1> DEFINE c == Completed(n, hwm, o, e)
           k == Settled(c, hwm, o)
<1>1. /\ na \in Attr /\ hwm \in Ofs /\ AttrOK(na, hwm) /\ na.init <= na.size /\ hwm <= na.size
      /\ AckOK(acked, na)
  BY Facts
<1>2. /\ c.size = n.size
      /\ \A p \in Pos : Stale(c, p) => Stale(n, p)
      /\ \A p \in Pos : Stale(c, p) /\ p < c.init => p < n.init \/ p < hwm
      /\ c.init = n.init \/ c.init = Hi(n.init, Lo(e, n.size))
  <2>1. n.form = "resident" => n.alloc = {}
    BY <1>1 DEF AttrOK
  <2> QED BY <1>1, <2>1, CompletedClean
<1>3. k = hwm \/ k = 0
  BY SettledLowers
<1> HIDE DEF c, k
<1>4. k <= c.size
  BY <1>1, <1>2, <1>3, SMTT(40) DEF Attr, Ofs
<1>5. ASSUME NEW p \in Pos, Stale(c, p), p < c.init \/ p < k
      PROVE  \E w \in W : p \in WinSpan(w)
  <2>1. Stale(n, p) /\ Stale(na, p)
    BY <1>2, <1>5
  <2>2. p < na.init \/ p < hwm
    BY <1>1, <1>2, <1>3, <1>5, SizeAssumption, SMTT(40) DEF Ofs, Pos
  <2>3. p < na.size
    BY <1>1, <2>2, SizeAssumption, SMTT(40) DEF Attr, Ofs, Pos
  <2>4. PICK w \in wins : p \in WinSpan(w)
    BY <2>1, <2>2 DEF ExposureInv, ExposureOK
  <2> QED BY <2>1, <2>3, <2>4
<1>6. ASSUME NEW w \in W, w.st = "failed", NEW p \in Span(w.off, w.live), p < c.init
      PROVE  ~Stale(c, p)
  <2> SUFFICES ASSUME Stale(c, p) PROVE FALSE
    OBVIOUS
  <2>1. p \in Pos /\ Stale(na, p)
    BY <1>2 DEF Span
  <2>2. CASE p < na.init
    BY <1>6, <2>1, <2>2 DEF ExposureInv, ExposureOK
  <2>3. CASE ~(p < na.init)
    <3>1. p < Lo(e, na.size)
      BY <1>1, <1>2, <1>6, <2>1, <2>3, SizeAssumption DEF Hi, Lo, Attr, Ofs, Pos
    <3>2. p \in acked
      BY <1>6, <3>1 DEF MayPass, Overtaken, OnlyHandledFaults
    <3> QED BY <1>1, <2>1, <3>2 DEF AckOK, Stale
  <2> QED BY <2>2, <2>3
<1>7. \A w \in W : w.live < w.end => c.size <= w.live
  BY <1>2 DEF ExposureInv, ExposureOK
<1> QED BY <1>4, <1>5, <1>6, <1>7 DEF ExposureOK, c, k

\* A write that landed hides no stale byte of the file.
LEMMA LandedIsClean ==
    ASSUME ExposureInv, NEW w \in wins, w.st = "landed"
    PROVE  \A p \in WinSpan(w) : p < na.size => ~Stale(na, p)
<1>1. w \in Win /\ WinOK(w, na, hwm)
  BY Facts
<1> QED BY <1>1, InFileIsLive DEF WinOK, Stale

\* And a stale byte it brings below initialized_size is one of a lower write.
LEMMA CompletionExplains ==
    ASSUME ExposureInv, NEW n \in Attr,
           n.size = na.size, n.init = na.init, n.form = na.form, n.alloc = na.alloc,
           \A p \in Pos : Stale(n, p) => Stale(na, p),
           NEW o \in Ofs, NEW e \in Ofs, o < e,
           \A p \in Span(o, e) : p < na.size => ~Stale(n, p),
           NEW W \in SUBSET wins, \A v \in W : ~Overlaps(o, e, v),
           \A w \in wins \ W : \A p \in WinSpan(w) : p < na.size => ~Stale(n, p),
           na' = Completed(n, hwm, o, e), wins' = W
    PROVE  Explained
<1> DEFINE c == Completed(n, hwm, o, e)
<1>1. /\ na \in Attr /\ hwm \in Ofs /\ AttrOK(na, hwm) /\ na.init <= na.size /\ hwm <= na.size
      /\ wins \subseteq Win
  BY Facts
<1>2. /\ \A p \in Pos : Stale(c, p) => Stale(n, p)
      /\ \A p \in Pos : Stale(c, p) /\ p < c.init => p < n.init \/ p < hwm
      /\ c.init = n.init \/ c.init = Hi(n.init, Lo(e, n.size))
  <2>1. n.form = "resident" => n.alloc = {}
    BY <1>1 DEF AttrOK
  <2> QED BY <1>1, <2>1, CompletedClean
<1>3. o >= n.size => c.init = n.init
  BY DEF Completed
<1>4. na' = c
  OBVIOUS
<1> HIDE DEF c
<1>5. ASSUME NEW p \in Pos, Stale(na', p), p < na'.init, ~(p < na.init)
      PROVE  \E v \in wins \cap wins' : /\ p \in WinSpan(v)
                                       /\ v.end <= na'.init /\ na.init < na'.init
  <2>1. Stale(n, p) /\ Stale(na, p) /\ p < hwm /\ p < c.init
    BY <1>2, <1>4, <1>5
  <2>2. p < na.size
    BY <1>1, <2>1, SizeAssumption, SMTT(40) DEF Attr, Ofs, Pos
  <2>3. PICK v \in wins : p \in WinSpan(v)
    BY <2>1 DEF ExposureInv, ExposureOK
  <2>4. v \in W /\ ~Overlaps(o, e, v) /\ v.off \in Ofs /\ v.end \in Ofs
    BY <1>1, <2>1, <2>2, <2>3 DEF Win
  <2>5. c.init # n.init
    BY <1>5, <2>1
  <2>6. c.init = Hi(n.init, Lo(e, n.size)) /\ o < n.size
    BY <1>2, <1>3, <2>5, SMTT(40) DEF Attr, Ofs
  <2>7. p < e /\ na.init < c.init
    BY <1>1, <1>5, <2>1, <2>6, SizeAssumption, SMTT(40) DEF Hi, Lo, Attr, Ofs, Pos
  <2>8. v.off <= p
    BY <2>3 DEF WinSpan, Span
  <2>9. v.end <= o
    BY <2>4, <2>7, <2>8, SizeAssumption, SMTT(40) DEF Overlaps, Ofs, Pos
  <2>10. v.end <= c.init
    BY <1>1, <2>4, <2>6, <2>9, SizeAssumption, SMTT(40) DEF Hi, Lo, Attr, Ofs
  <2> QED BY <1>4, <2>3, <2>4, <2>7, <2>10
<1>6. \A p \in Pos : Stale(na', p) => Stale(na, p)
  BY <1>2, <1>4
<1> QED BY <1>5, <1>6 DEF Explained

\* A landed write is completed and stamped.
LEMMA ExposureStamp ==
    ASSUME OnlyHandledFaults, ExposureInv, NEW w \in wins, w.st = "landed", MayPass(w.end),
           na' = Completed(na, hwm, w.off, w.end), hwm' = Settled(na', hwm, w.off),
           wins' = wins \ {w}
    PROVE  Kept
<1> DEFINE o == w.off
           e == w.end
           c == Completed(na, hwm, o, e)
<1>1. /\ w.st = "landed" /\ MayPass(e) /\ na' = c /\ hwm' = Settled(c, hwm, o)
      /\ wins' = wins \ {w}
  OBVIOUS
<1>2. na \in Attr /\ w \in Win /\ WinOK(w, na, hwm) /\ o \in Ofs /\ e \in Ofs
  BY Facts DEF Win
<1>3. \A p \in WinSpan(w) : p < na.size => ~Stale(na, p)
  BY LandedIsClean
<1>4. \A p \in Span(o, e) : p < na.size => ~Stale(na, p)
  BY <1>3 DEF WinSpan
<1>5. \A v \in wins \ (wins \ {w}) : \A p \in WinSpan(v) : p < na.size => ~Stale(na, p)
  BY <1>3
<1> DEFINE W == wins \ {w}
<1>6. W \in SUBSET wins
  OBVIOUS
<1>7. \A v \in wins \ W : \A p \in WinSpan(v) : p < na.size => ~Stale(na, p)
  BY <1>5
<1> HIDE DEF W, o, e
<1>8. ExposureOK(c, Settled(c, hwm, o), W)
  BY <1>1, <1>2, <1>4, <1>6, <1>7, CompletionKeeps
<1>9. o < e /\ \A v \in W : ~Overlaps(o, e, v)
  <2>1. o < e
    BY <1>2 DEF WinOK, o, e
  <2>2. Disjoint(wins)
    BY Facts
  <2> QED BY <2>1, <2>2 DEF Disjoint, W, o, e
<1>10. wins' = W
  BY <1>1 DEF W
<1>11. Explained
  BY <1>1, <1>2, <1>4, <1>6, <1>7, <1>9, <1>10, CompletionExplains
<1> QED BY <1>1, <1>8, <1>11 DEF Kept, W

\* The upcall of a landed write fails before anything was stamped.
LEMMA ExposureUnstamped ==
    ASSUME ExposureInv, NEW w \in wins, w.st = "landed", UNCHANGED <<na, hwm>>,
           wins' = wins \ {w}
    PROVE  Kept
<1>1. /\ na \in Attr /\ hwm \in Ofs /\ na.init <= na.size /\ hwm <= na.size
  BY Facts
<1>2. ASSUME NEW p \in Pos, Stale(na, p), p < na.init \/ p < hwm
      PROVE  \E v \in wins \ {w} : p \in WinSpan(v)
  <2>1. p < na.size
    BY <1>1, <1>2, SizeAssumption, SMTT(40) DEF Attr, Ofs, Pos
  <2>2. PICK v \in wins : p \in WinSpan(v)
    BY <1>2 DEF ExposureInv, ExposureOK
  <2> QED BY <1>2, <2>1, <2>2, LandedIsClean
<1>3. ExposureOK(na, hwm, wins \ {w})
  BY <1>2 DEF ExposureInv, ExposureOK
<1>4. Explained
  BY DEF Explained
<1> QED BY <1>3, <1>4 DEF Kept

\* A completion without a map of its own.
LEMMA ExposureCompleteUnmapped ==
    ASSUME OnlyHandledFaults, ExposureInv, NEW o \in Ofs, NEW e \in Ofs, CompleteUnmapped(o, e)
    PROVE  Kept
<1> DEFINE d == [p \in Pos |-> IF p \in Span(o, e) THEN "data" ELSE na.disk[p]]
           n == [na EXCEPT !.disk = d]
           c == Completed(n, hwm, o, e)
<1>1. na \in Attr
  BY Facts
<1>2. n = [na EXCEPT !.disk = [p \in Pos |-> IF p \in Span(o, e) THEN "data" ELSE @[p]]]
  BY <1>1 DEF Attr
<1>3. MayPass(e) /\ na' = c /\ hwm' = Settled(c, hwm, o) /\ wins' = wins
  BY <1>2 DEF CompleteUnmapped
<1>4. /\ d \in [Pos -> Content]
      /\ \A p \in Pos : d[p] = IF p \in Span(o, e) THEN "data" ELSE na.disk[p]
  BY <1>1 DEF Attr, Content
<1> HIDE DEF d
<1>5. /\ n \in Attr /\ n.size = na.size /\ n.init = na.init /\ n.form = na.form
      /\ n.alloc = na.alloc /\ n.disk = d
  BY <1>1, <1>4 DEF Attr
<1> HIDE DEF n
<1>6. \A p \in Pos : Stale(n, p) => Stale(na, p) /\ p \notin Span(o, e)
  BY <1>4, <1>5 DEF Stale, Allocated
<1>7. \A p \in Span(o, e) : p < na.size => ~Stale(n, p)
  BY <1>6 DEF Span
<1>8. wins \in SUBSET wins /\ \A w \in wins \ wins : \A p \in WinSpan(w) : p < na.size => ~Stale(n, p)
  OBVIOUS
<1>9. ExposureOK(c, Settled(c, hwm, o), wins)
  BY <1>3, <1>5, <1>6, <1>7, <1>8, CompletionKeeps
<1>10. o < e /\ \A v \in wins : ~Overlaps(o, e, v)
  BY DEF CompleteUnmapped
<1>11. Explained
  BY <1>3, <1>5, <1>6, <1>7, <1>8, <1>10, CompletionExplains
<1> QED BY <1>3, <1>9, <1>11 DEF Kept

\* The failed write's bytes are above the lowered mark, or zeroed on disk.
LEMMA ExposureAbortWrite ==
    ASSUME ExposureInv, NEW w \in wins, AbortWrite(w)
    PROVE  Kept
<1> DEFINE o == w.off
           e == w.end
           Z == {p \in Span(Hi(o, na.init), e) : Allocated(na, p)}
<1>1. /\ w.st = "failed" /\ na' = AbortedAttr(na, hwm, o, e)
      /\ hwm' = AbortedMark(na, hwm, o, e) /\ wins' = wins \ {w}
  BY DEF AbortWrite
<1>2. /\ w \in Win /\ WinOK(w, na, hwm) /\ na \in Attr /\ hwm \in Ofs /\ AttrOK(na, hwm)
      /\ o \in Ofs /\ e \in Ofs /\ na.init <= na.size /\ hwm <= na.size
  BY Facts DEF Win
<1>3. na' = IF o < hwm /\ e < hwm /\ na.form = "runs" THEN Zeroed(na, Z) ELSE na
  BY <1>1 DEF AbortedAttr, ZeroRaw
<1>4. /\ na'.size = na.size /\ na'.init = na.init /\ na'.alloc = na.alloc
      /\ \A p \in Pos : Stale(na', p) => Stale(na, p)
      /\ o < hwm /\ e < hwm /\ na.form = "runs" => \A p \in Z : na'.disk[p] = "zero"
  <2>1. Z \subseteq Pos
    BY DEF Span
  <2> HIDE DEF Z
  <2>2. CASE o < hwm /\ e < hwm /\ na.form = "runs"
    <3>1. na' = Zeroed(na, Z)
      BY <1>3, <2>2
    <3>2. /\ na'.size = na.size /\ na'.init = na.init /\ na'.alloc = na.alloc
          /\ \A p \in Pos : na'.disk[p] = IF p \in Z THEN "zero" ELSE na.disk[p]
      BY <1>2, <3>1, ZeroedFields, SMTT(40)
    <3> QED BY <2>1, <3>2 DEF Stale, Allocated
  <2>3. CASE ~(o < hwm /\ e < hwm /\ na.form = "runs")
    BY <1>3, <2>3
  <2> QED BY <2>2, <2>3
<1>5. /\ hwm' \in Ofs /\ hwm' <= hwm
      /\ hwm' = hwm \/ hwm' <= o
      /\ hwm' = hwm => o >= hwm \/ e < hwm \/ hwm <= o
  BY <1>1, <1>2, SizeAssumption, SMTT(40) DEF AbortedMark, Ofs
<1>6. ASSUME NEW p \in Pos, Stale(na', p), p < na.init \/ p < hwm'
      PROVE  \E v \in wins \ {w} : p \in WinSpan(v)
  <2>1. Stale(na, p) /\ (p < na.init \/ p < hwm)
    BY <1>2, <1>4, <1>5, <1>6, SizeAssumption, SMTT(40) DEF Ofs, Pos
  <2>2. PICK v \in wins : p \in WinSpan(v)
    BY <2>1 DEF ExposureInv, ExposureOK
  <2>3. ASSUME v = w PROVE FALSE
    <3>1. p < na.size
      BY <1>2, <2>1, SizeAssumption, SMTT(40) DEF Attr, Ofs, Pos
    <3>2. p \in Span(w.off, w.live)
      BY <2>2, <2>3, <3>1, InFileIsLive
    <3>3. ~(p < na.init)
      BY <1>1, <2>1, <3>2 DEF ExposureInv, ExposureOK
    <3>4. o <= p /\ p < e
      BY <2>2, <2>3 DEF WinSpan, Span
    <3>5. p < hwm' /\ hwm' = hwm /\ o < hwm /\ e < hwm
      BY <1>2, <1>5, <1>6, <3>3, <3>4, SizeAssumption, SMTT(40) DEF Ofs, Pos
    <3>6. Allocated(na, p) /\ na.form = "runs"
      BY <1>2, <2>1 DEF Stale, Allocated, AttrOK, Attr
    <3>7. p \in Z
      BY <1>2, <3>3, <3>4, <3>6, SizeAssumption, SMTT(40) DEF Span, Hi, Attr, Ofs, Pos
    <3> HIDE DEF Z
    <3> QED BY <1>4, <1>6, <3>5, <3>6, <3>7 DEF Stale
  <2> QED BY <2>2, <2>3
<1>7. hwm' <= na'.size
  BY <1>2, <1>4, <1>5, SMTT(40) DEF Attr, Ofs
<1>8. ASSUME NEW v \in wins \ {w}, v.st = "failed", NEW p \in Span(v.off, v.live), p < na'.init
      PROVE  ~Stale(na', p)
  BY <1>4, <1>8 DEF ExposureInv, ExposureOK, Span
<1>9. \A v \in wins \ {w} : v.live < v.end => na'.size <= v.live
  BY <1>4 DEF ExposureInv, ExposureOK
<1> HIDE DEF Z
<1>10. Explained
  BY <1>4 DEF Explained
<1> QED BY <1>1, <1>4, <1>6, <1>7, <1>8, <1>9, <1>10 DEF Kept, ExposureOK

\* Every outstanding write is still there after a cut, with the same bytes.
LEMMA CutWinsKeeps ==
    ASSUME NEW s \in Ofs, wins \subseteq Win, NEW w \in wins
    PROVE  \E v \in CutWins(s) : WinSpan(v) = WinSpan(w)
<1> DEFINE v == [w EXCEPT !.live = Hi(w.off, Lo(@, s))]
<1>1. v \in CutWins(s)
  BY DEF CutWins
<1>2. v.off = w.off /\ v.end = w.end
  BY DEF Win
<1> HIDE DEF v
<1> QED BY <1>1, <1>2 DEF WinSpan

\* Cutting or growing the file shows no stale byte below the new size.
LEMMA ResizedClean ==
    ASSUME NEW n \in Attr, NEW h \in Ofs, AttrOK(n, h), h <= n.size, NEW s \in Ofs,
           NEW stay \in BOOLEAN
    PROVE  Clean(n, h, Resized(n, s, stay), Lo(h, s))
<1> DEFINE f == IF stay THEN n ELSE ForceNonResident(n)
           i == IF f.form = "resident" THEN s ELSE Lo(f.init, s)
           d == [p \in Pos |-> IF p >= s THEN "stale" ELSE f.disk[p]]
           a == f.alloc \cap ClustersOf(Span(0, s))
<1>1. Grows(n, f)
  BY ForceGrows, GrowsRefl DEF AttrOK
<1>2. Clean(n, h, f, h)
  <2>1. Clean(n, h, n, h)
    BY DEF Clean
  <2>2. Clean(n, h, ForceNonResident(n), h)
    BY ForceClean DEF AttrOK
  <2> QED BY <2>1, <2>2
<1>3. Resized(n, s, stay) = [f EXCEPT !.size = s,
                                !.init = IF f.form = "resident" THEN s ELSE Lo(@, s),
                                !.alloc = @ \cap ClustersOf(Span(0, s)),
                                !.disk = [p \in Pos |-> IF p >= s THEN "stale" ELSE @[p]]]
  BY DEF Resized
<1> HIDE DEF f
<1>4. f \in Attr
  BY <1>1 DEF Grows
<1>5. Resized(n, s, stay) = [f EXCEPT !.size = s, !.init = i, !.alloc = a, !.disk = d]
  BY <1>3, <1>4 DEF Attr
<1>6. /\ \A p \in Pos : d[p] = IF p >= s THEN "stale" ELSE f.disk[p]
      /\ a \subseteq f.alloc
      /\ f.form = "resident" => a = {}
      /\ f.form # "resident" => i = Lo(f.init, s)
  BY <1>1 DEF Grows
<1> HIDE DEF i, d, a
<1> DEFINE r == [f EXCEPT !.size = s, !.init = i, !.alloc = a, !.disk = d]
<1>7. r.init = i /\ r.alloc = a /\ r.disk = d
  BY <1>4 DEF Attr
<1> HIDE DEF r
<1>8. ASSUME NEW p \in Pos, Stale(r, p), p < r.init \/ p < Lo(h, s)
      PROVE  Stale(f, p) /\ (p < r.init => p < f.init) /\ (p < Lo(h, s) => p < h)
  <2>1. Clu(p) \in a /\ d[p] = "stale" /\ f.form # "resident"
    BY <1>6, <1>7, <1>8 DEF Stale, Allocated
  <2>2. r.init = Lo(f.init, s)
    BY <1>6, <1>7, <2>1
  <2>3. p < s /\ (p < r.init => p < f.init) /\ (p < Lo(h, s) => p < h)
    BY <1>4, <1>8, <2>2, SizeAssumption, SMTT(40) DEF Lo, Attr, Ofs, Pos
  <2>4. ~(p >= s)
    BY <2>3, SizeAssumption, SMTT(40) DEF Ofs, Pos
  <2> QED BY <1>6, <2>1, <2>3, <2>4 DEF Stale, Allocated
<1>9. Clean(f, h, r, Lo(h, s))
  BY <1>8 DEF Clean
<1>10. Clean(n, h, r, Lo(h, s))
  BY <1>2, <1>9, CleanTrans
<1> QED BY <1>5, <1>10 DEF r

\* nk_truncate.
LEMMA ExposureTruncate ==
    ASSUME OnlyHandledFaults, ExposureInv, NEW s \in Ofs, NEW stay \in BOOLEAN, Truncate(s, stay)
    PROVE  Kept
<1>1. MayGrow(s) /\ hwm' = Lo(hwm, s) /\ na' = Resized(na, s, stay) /\ wins' = CutWins(s)
  BY DEF Truncate
<1>2. /\ na \in Attr /\ hwm \in Ofs /\ AttrOK(na, hwm) /\ wins \subseteq Win
      /\ Disjoint(wins) /\ hwm <= na.size
  BY Facts
<1>3. na'.size = s
  BY <1>1, <1>2, ResizedFields, SMTT(40)
<1>4. Clean(na, hwm, na', hwm')
  BY <1>1, <1>2, ResizedClean
<1>5. hwm' <= na'.size
  BY <1>1, <1>2, <1>3, SMTT(40) DEF Lo, Ofs
<1>6. ASSUME NEW p \in Pos, Stale(na', p), p < na'.init \/ p < hwm'
      PROVE  \E v \in wins' : p \in WinSpan(v)
  <2>1. PICK w \in wins : p \in WinSpan(w)
    BY <1>4, <1>6 DEF Clean, ExposureInv, ExposureOK
  <2>2. PICK v \in CutWins(s) : WinSpan(v) = WinSpan(w)
    BY <1>2, CutWinsKeeps
  <2> QED BY <1>1, <2>1, <2>2
<1>7. ASSUME NEW v \in wins'
      PROVE  /\ v.live < v.end => na'.size <= v.live
             /\ v.st = "failed" => \A p \in Span(v.off, v.live) : p < na'.init => ~Stale(na', p)
  <2>1. PICK w \in wins : /\ v \in Win /\ v.off = w.off /\ v.end = w.end
                          /\ v.st = w.st /\ v.live = Hi(w.off, Lo(w.live, s))
    BY <1>1, <1>2, CutWinsShape
  <2>2. w \in Win /\ WinOK(w, na, hwm)
    BY Facts
  <2>3. w.live < w.end => na.size <= w.live /\ ~(s > na.size)
    BY <1>1 DEF MayGrow, Cut, OnlyHandledFaults, ExposureInv, ExposureOK
  <2>4. v.live < v.end => s <= v.live
    BY <1>2, <2>1, <2>2, <2>3, SMTT(40) DEF WinOK, Hi, Lo, Win, Attr, Ofs
  <2>5. \A p \in Span(v.off, v.live) : p \in Pos /\ p \in Span(w.off, w.live)
    BY <2>1, <2>2, SizeAssumption, SMTT(40) DEF Span, Hi, Lo, Win, Ofs, Pos
  <2>6. ASSUME v.st = "failed", NEW p \in Span(v.off, v.live), p < na'.init, Stale(na', p)
        PROVE  FALSE
    <3>1. Stale(na, p) /\ p < na.init
      BY <1>4, <2>5, <2>6 DEF Clean
    <3> QED BY <2>1, <2>5, <2>6, <3>1 DEF ExposureInv, ExposureOK
  <2> QED BY <1>3, <2>4, <2>6
<1>8. Explained
  BY <1>4, CleanExplains
<1> QED BY <1>5, <1>6, <1>7, <1>8 DEF Kept, ExposureOK

\* The file is deleted and made anew.
LEMMA ExposureRecreate ==
    ASSUME ExposureInv, Recreate
    PROVE  Kept
<1>1. hwm' = 0 /\ wins' = CutWins(0)
  BY DEF Recreate
<1>2. na \in Attr /\ wins \subseteq Win /\ Disjoint(wins) /\ 0 \in Ofs
  BY Facts, SizeAssumption, SMTT(40) DEF Ofs
<1>3. na'.size = 0 /\ na'.alloc = {}
  BY <1>2 DEF Recreate, Attr
<1>4. \A p : ~Stale(na', p)
  BY <1>3 DEF Stale, Allocated
<1>5. \A v \in wins' : na'.size <= v.live
  BY <1>1, <1>2, <1>3, CutWinsShape, SMTT(40) DEF Win, Ofs
<1>6. Explained
  BY <1>4 DEF Explained
<1> QED BY <1>1, <1>3, <1>4, <1>5, <1>6, SMTT(40) DEF Kept, ExposureOK

-----------------------------------------------------------------------------
\* A new file has no clusters.
LEMMA ExposureInit == ASSUME Init PROVE ExposureInv
<1>1. na.size = 0 /\ hwm = 0 /\ wins = {} /\ na.alloc = {}
  BY DEF Init
<1> QED BY <1>1, InitInv, SMTT(40) DEF ExposureInv, ExposureOK, Stale, Allocated

\* Every step keeps the invariant and explains what it shows.
LEMMA ExposureNext ==
    ASSUME OnlyHandledFaults, ExposureInv, [Next]_vars
    PROVE  ExposureInv' /\ Explained
<1>1. DataInv'
  BY NextInv DEF StepOK, DataInv, ExposureInv, OnlyHandledFaults
<1>2. CASE UNCHANGED vars
  BY <1>1, <1>2 DEF vars, ExposureInv, Explained
<1>3. CASE Next
  <2>1. ASSUME NEW o \in Aligned, NEW e \in Aligned, NEW pad \in Pads(o),
               NEW m \in PackEnds(o, e), MapWrite(o, e, m, pad)
        PROVE  Kept
    BY <2>1, ExposureMapWrite, InputTypes
  <2>2. ASSUME NEW o \in Aligned, NEW e \in Aligned, NEW pad \in Pads(o),
               NEW m \in PackEnds(o, e), MapWriteLateErr(o, e, m, pad)
        PROVE  FALSE
    BY <2>2 DEF MapWriteLateErr, OnlyHandledFaults
  <2>3. ASSUME NEW o \in Aligned, NEW e \in Aligned, NEW pad \in Pads(o), NEW q \in Stops(o, e),
               MapWriteErr(o, e, q, pad)
        PROVE  Kept
    BY <2>3, ExposureMapWriteErr, InputTypes
  <2>4. ASSUME NEW w \in wins, NEW pad \in Pads(w.map), NEW m \in PackEnds(w.map, w.end),
               MapRest(w, m, pad)
        PROVE  Kept
    BY <2>4, ExposureMapRest, InputTypes
  <2>5. ASSUME NEW pad \in BOOLEAN, MapRead(pad) PROVE Kept
    BY <2>5, ExposureMapRead
  <2>6. ASSUME NEW w \in wins, LandPart(w) PROVE Kept
    BY <2>6, ExposureLandPart
  <2>7. ASSUME NEW w \in wins, FailWrite(w) PROVE Kept
    BY <2>7, ExposureFailWrite
  <2>8. ASSUME NEW w \in wins, CompleteWrite(w) PROVE Kept
    BY <2>8, ExposureStamp DEF CompleteWrite
  <2>9. ASSUME NEW w \in wins, CompleteWriteErr(w) \/ AbortWriteErr(w) PROVE Kept
    <3>1. ASSUME AbortWriteErr(w) PROVE FALSE
      BY <3>1 DEF AbortWriteErr, OnlyHandledFaults
    <3>2. CASE CompleteWriteErr(w)
      BY <3>2, ExposureUnstamped, ExposureStamp DEF CompleteWriteErr
    <3> QED BY <2>9, <3>1, <3>2
  <2>10. ASSUME NEW w \in wins, AbortWrite(w) PROVE Kept
    BY <2>10, ExposureAbortWrite
  <2>11. ASSUME NEW o \in Aligned, NEW e \in Aligned, CompleteUnmapped(o, e) PROVE Kept
    BY <2>11, ExposureCompleteUnmapped, InputTypes
  <2>12. ASSUME NEW s \in Ofs, NEW stay \in Stays, Truncate(s, stay) PROVE Kept
    BY <2>12, ExposureTruncate, InputTypes
  <2>13. ASSUME NEW s \in Ofs, TruncateErr(s) PROVE FALSE
    BY <2>13 DEF TruncateErr, OnlyHandledFaults
  <2>14. ASSUME Recreate PROVE Kept
    BY <2>14, ExposureRecreate
  <2>15. ASSUME Crash PROVE FALSE
    BY <2>15 DEF Crash, OnlyHandledFaults
  <2>16. Kept
    BY <1>3, <2>1, <2>2, <2>3, <2>4, <2>5, <2>6, <2>7, <2>8, <2>9, <2>10, <2>11, <2>12,
       <2>13, <2>14, <2>15 DEF Next
  <2> QED BY <1>1, <2>16 DEF Kept, ExposureInv
<1> QED BY <1>2, <1>3

\* The invariant holds.
LEMMA ExposureAlways ==
    ASSUME OnlyHandledFaults
    PROVE  Spec => []ExposureInv
<1>1. Init => ExposureInv
  BY ExposureInit
<1>2. ExposureInv /\ [Next]_vars => ExposureInv'
  BY ExposureNext
<1> QED BY <1>1, <1>2, PTL DEF Spec

\* What reads and read maps hand out is never what the cluster held before it
\* came to the file, except where a write is outstanding: for every geometry,
\* in any order of completions, with failing writes, maps and completions,
\* completions that were never mapped and truncations.
THEOREM NothingStaleShown ==
    ASSUME OnlyHandledFaults
    PROVE  Spec => []NoStaleExposed
<1>1. ExposureInv => NoStaleExposed
  BY DEF ExposureInv, ExposureOK, NoStaleExposed, Pending, Stale
<1> QED BY <1>1, ExposureAlways, PTL

\* nk_blockmap's invariant behind stamping initialized_size: every byte from
\* initialized_size up to the mark was handed out to a write that is still
\* outstanding, or was zeroed or written.
THEOREM MarkedIsHandedOut ==
    ASSUME OnlyHandledFaults
    PROVE  Spec => []HandedOutOrZeroed
<1>1. ExposureInv => HandedOutOrZeroed
  BY DEF ExposureInv, ExposureOK, HandedOutOrZeroed, Pending, Stale
<1> QED BY <1>1, ExposureAlways, PTL

\* Only a completion out of file order leaves a stale byte readable: a step that
\* brings one below initialized_size completes a write while a lower write, which
\* the byte belongs to, is outstanding before and after.
THEOREM OnlyReordering ==
    ASSUME OnlyHandledFaults
    PROVE  Spec => OnlyReorderingExposes
<1>1. ExposureInv /\ [Next]_vars =>
        [\A p \in Exposed(na') : \/ p \in Exposed(na)
                                 \/ \E v \in wins \cap wins' : /\ p \in WinSpan(v)
                                                                /\ v.end <= na'.init /\ na.init < na'.init]_vars
  <2> SUFFICES ASSUME ExposureInv, [Next]_vars, NEW p \in Exposed(na')
               PROVE  \/ p \in Exposed(na)
                      \/ \E v \in wins \cap wins' : /\ p \in WinSpan(v)
                                                     /\ v.end <= na'.init /\ na.init < na'.init
    OBVIOUS
  <2>1. Explained
    BY ExposureNext
  <2>2. p \in Pos /\ Stale(na', p) /\ p < na'.init
    BY DEF Exposed, Stale
  <2> QED BY <2>1, <2>2 DEF Explained, Exposed, Stale
<1> QED BY <1>1, ExposureAlways, PTL DEF Spec, OnlyReorderingExposes
=============================================================================
