------------------------------- MODULE Mkntfs -------------------------------
(***************************************************************************)
(* nk_format: the in-process mkntfs.  One run opens the device, sizes the    *)
(* volume, lays out the positioned system files, builds the 27 MFT records   *)
(* while writing each file's clusters, then syncs the root index, $Bitmap,   *)
(* $MFT and $MFTMirr, and cleans up.  mkntfs.c keeps all of it in globals,   *)
(* which the module process carries from one format to the next.             *)
(*                                                                         *)
(* Once formatted, the volume is probed: readVolumeLabel decodes the boot     *)
(* sector mkntfs wrote and looks for the label where $MFT should be.         *)
(*                                                                         *)
(* Device and volume sizes are in 512-byte sectors (nkdev_ioctl fails, so    *)
(* the sector size is always 512), attribute and record sizes in bytes.      *)
(***************************************************************************)
EXTENDS Integers, Sequences, FiniteSets, FiniteSetsExt

CONSTANTS
    Devices,      \* device sizes, in sectors
    MaxClusters,  \* stands for 2^32, the most clusters a volume may have
    MaxCsize,     \* stands for NTFS_MAX_CLUSTER_SIZE, in sectors
    Labels,       \* label lengths, in UTF-16 units
    MaxFormats,   \* bound: formats of one process
    MaxIgnored,   \* bound: failed allocations of a format that go unnoticed
    Env           \* see EnvFlags

\* ioerr   a device write may fail
\* nomem   an allocation may fail
\* resize  a later format may get a device with another cluster size
EnvFlags == {"ioerr", "nomem", "resize"}

ASSUME SizeAssumption == /\ Devices \subseteq Nat /\ Labels \subseteq Nat
                         /\ MaxClusters \in Nat \ {0} /\ MaxCsize \in Nat /\ MaxFormats \in Nat
                         /\ MaxIgnored \in Nat
ASSUME EnvAssumption == Env \subseteq EnvFlags

VARIABLES
    pc,     \* [at, i]: the stage, and the index into Script
    job,    \* the format at hand: device size, label, result; the volume is to be
            \* marked dirty; and as history: a call failed (faulted), how many
            \* failures went unnoticed (ignored), and the clusters that were handed
            \* out without being marked as allocated (lost)
    count,  \* formats started
    dev,    \* the ntfs_device: owner, open, times freed
    g,      \* the globals: mft_lcn, zone, alloc (g_allocation), rl (runlists)
    vol,    \* g_vol: cluster size in sectors, nr_clusters
    rec,    \* bytes_in_use of the MFT records
    idx,    \* index_length of the root index block
    disk    \* what the device holds of each file, $Bitmap's bits, the boot sector

vars == <<pc, job, count, dev, g, vol, rec, idx, disk>>

Records == 0 .. 26
RecordSize == 1024
Files == {"root", "rootsd", "rootbmp", "mft", "mftbmp", "mirr", "log", "attrdef",
          "bitmap", "boot", "sd", "empty", "sds", "upcase", "info", "bad"}
\* The files whose clusters a volume needs; the others are resident or sparse.
Clustered == {"root", "rootsd", "mft", "mftbmp", "mirr", "log", "attrdef",
              "bitmap", "boot", "sds", "upcase"}
Run == [lcn : Nat, len : Nat]
CeilDiv(a, b) == (a + b - 1) \div b
Align8(n) == CeilDiv(n, 8) * 8
Cover(rl) == UNION {rl[k].lcn .. rl[k].lcn + rl[k].len - 1 : k \in DOMAIN rl}

-----------------------------------------------------------------------------
(* The cluster allocation list.                                             *)

\* The number of runs that start at or before lcn.
Upto(a, lcn) == Cardinality({k \in DOMAIN a : a[k].lcn <= lcn})

\* bitmap_allocate: extend the run that ends at lcn, or insert a run.
BitmapAllocate(a, lcn, len) ==
    LET k == Upto(a, lcn)
    IN  IF len = 0 THEN a
        ELSE IF k > 0 /\ a[k].lcn + a[k].len = lcn
        THEN [a EXCEPT ![k].len = @ + len]
        ELSE SubSeq(a, 1, k) \o <<[lcn |-> lcn, len |-> len]>> \o SubSeq(a, k + 1, Len(a))

\* It needs memory for a new run unless one ends at lcn.
NeedsNode(a, lcn) == LET k == Upto(a, lcn) IN k = 0 \/ a[k].lcn + a[k].len # lcn

\* ... of every run of a runlist, in order, but for the first u[i] clusters of
\* run i, which bitmap_get_and_set hands out unmarked when there is no memory: it
\* does not look at the result of bitmap_allocate.
AfterRuns(a, rl, u) ==
    LET after[i \in 0 .. Len(rl)] ==
            IF i = 0 THEN a ELSE BitmapAllocate(after[i - 1], rl[i].lcn + u[i], rl[i].len - u[i])
    IN  after
AllocateRuns(a, rl, u) == AfterRuns(a, rl, u)[Len(rl)]
MayForget(a, rl, u) ==
    \A i \in 1 .. Len(rl) :
        u[i] > 0 => u[i] <= rl[i].len /\ NeedsNode(AfterRuns(a, rl, u)[i - 1], rl[i].lcn)
Forgotten(rl, u) == UNION {rl[i].lcn .. rl[i].lcn + u[i] - 1 : i \in 1 .. Len(rl)}

\* ... and its result: FALSE when the clusters were not free.
WasFree(a, lcn, len) ==
    LET k == Upto(a, lcn)
    IN  len > 0 => /\ k > 0 => a[k].lcn + a[k].len <= lcn
                   /\ k < Len(a) => lcn + len <= a[k + 1].lcn

\* bitmap_get_and_set of a single cluster.
IsSet(a, lcn) == LET k == Upto(a, lcn) IN k > 0 /\ a[k].lcn + a[k].len > lcn

\* allocate_scattered_clusters: n free clusters from the end of the MFT zone
\* on; when they run out the zone is halved.  zone = 0 means out of space.
TakeFree(a, zone, nr, n) ==
    LET Free(lo, hi) == SelectSeq([k \in 1 .. hi - lo |-> lo + k - 1],
                                  LAMBDA c : ~IsSet(a, c))
        Take[z \in 0 .. zone, hi \in 0 .. nr, k \in 0 .. n] ==
            LET f == Free(z, hi)
            IN  IF z = 0 THEN [lcns |-> <<>>, zone |-> 0]
                ELSE IF Len(f) >= k THEN [lcns |-> SubSeq(f, 1, k), zone |-> z]
                ELSE LET t == Take[z \div 2, z, k - Len(f)]
                     IN  [lcns |-> f \o t.lcns, zone |-> t.zone]
    IN  Take[zone, nr, n]

\* Adjacent clusters become one run.
Coalesce(lcns) ==
    LET starts == SelectSeq([k \in 1 .. Len(lcns) |-> k],
                            LAMBDA k : k = 1 \/ lcns[k] # lcns[k - 1] + 1)
        End(i) == IF i = Len(starts) THEN Len(lcns) + 1 ELSE starts[i + 1]
    IN  [i \in 1 .. Len(starts) |-> [lcn |-> lcns[starts[i]], len |-> End(i) - starts[i]]]

-----------------------------------------------------------------------------
(* Sizes in an MFT record.                                                  *)

\* Record header and end marker, then the standard information: NTFS 3.x
\* files with a security id have the long form.
StdInfo(m) == IF m \in {0, 1, 2, 6, 8, 9, 10, 11, 24, 25, 26} THEN 72 ELSE 48
ResidentSize(nl, vl) == Align8(24 + Align8(2 * nl) + vl)
NonResidentSize(nl, mp) == Align8(64 + Align8(nl) + mp)

\* Size of the mapping pairs of a runlist: a header byte, then as many bytes
\* as the length and the distance from the run before need, then a zero.
SignedBytes(x) ==
    LET Fits(b) == -(2 ^ (8 * b - 1)) <= x /\ x < 2 ^ (8 * b - 1)
    IN  CHOOSE b \in 1 .. 3 : Fits(b) /\ \A k \in 1 .. b - 1 : ~Fits(k)
MappingPairs(rl) ==
    1 + MapThenSumSet(LAMBDA k : 1 + SignedBytes(rl[k].len)
                                 + SignedBytes(rl[k].lcn - (IF k = 1 THEN 0 ELSE rl[k - 1].lcn)),
                      1 .. Len(rl))

\* $FILE_NAME of a name of c characters.
NameValue(c) == 66 + 2 * c

-----------------------------------------------------------------------------
(* The script of mkntfs_create_root_structures: one entry per attribute.    *)

Op(op, m, f, nl, vl, lim, ver) ==
    [op |-> op, m |-> m, f |-> f, nl |-> nl, vl |-> vl, lim |-> lim, ver |-> ver]
\* A resident attribute.
Resident(m, nl, vl) == Op("resident", m, "empty", nl, vl, 0, "final")
\* A value that is resident unless the record would grow past lim.
Value(m, f, nl, vl, lim) == Op("value", m, f, nl, vl, lim, "final")
\* A non-resident attribute on clusters of its own, or on a fixed runlist.
Scattered(m, f, nl, vl, ver) == Op("value", m, f, nl, vl, -24, ver)
Positioned(m, f, nl, ver) == Op("positioned", m, f, nl, 0, 0, ver)
\* A name in the root index block, and one in $Extend's index root.
Link(m, c) == <<Resident(m, 0, NameValue(c)), Op("blockentry", m, "root", 0, NameValue(c), 0, "")>>
LinkRes(m, c) == <<Resident(m, 0, NameValue(c)),
                   Op("rootentry", 11, "empty", 0, Align8(NameValue(c)) + 16, 0, "")>>
RootEntry(m, n) == Op("rootentry", m, "empty", 0, n, 0, "")

\* Mutant of DataLimit: the room kept for later attributes is too large.
DataLimitLow == 256

\* add_attr_data keeps half of the record for the attributes still to come;
\* security descriptors and bitmaps may fill it.
DataLimit == RecordSize - 512
Data(m, f, nl, vl) == Value(m, f, nl, vl, DataLimit)
SystemSd(m) == Value(m, "sd", 0, 100, RecordSize)
IndexRoot(m, nl) == Resident(m, nl, 48)

RootDirectory ==
    << Resident(5, 0, NameValue(1)), Value(5, "rootsd", 0, 4140, RecordSize),
       IndexRoot(5, 4) >>
\* upgrade_to_large_index: the end entry of the index root gains a VCN.
LargeIndex ==
    << Value(5, "rootbmp", 4, 8, RecordSize), RootEntry(5, 8),
       Scattered(5, "root", 4, 4096, "draft"),
       Op("blockentry", 5, "root", 0, NameValue(1), 0, "") >>
MftFiles ==
    <<Positioned(0, "mft", 0, "draft")>> \o Link(0, 4) \o
    <<Positioned(0, "mftbmp", 0, "final"), Positioned(1, "mirr", 0, "draft")>> \o Link(1, 8) \o
    <<Positioned(2, "log", 0, "final")>> \o Link(2, 8)
AttrDefAndBitmap(bytes) ==
    <<Data(4, "attrdef", 0, 2560)>> \o Link(4, 8) \o
    <<SystemSd(4), Scattered(6, "bitmap", 0, bytes, "draft")>> \o Link(6, 7)
BootFile ==
    <<Positioned(7, "boot", 0, "final")>> \o Link(7, 5) \o
    <<SystemSd(7), Op("backup", 7, "boot", 0, 0, 0, "")>>
VolumeFile(label) ==
    Link(3, 7) \o <<SystemSd(3), Data(3, "empty", 0, 0),
                    Op("volname", 3, "empty", 0, 2 * label, 0, ""), Resident(3, 0, 12)>>
SecureEntries == <<RootEntry(9, 48), RootEntry(9, 40), RootEntry(9, 48), RootEntry(9, 40)>>
SecureFile ==
    <<Positioned(8, "bad", 4, "final"), Data(8, "empty", 0, 0)>> \o Link(8, 8) \o
    Link(9, 7) \o <<Data(9, "sds", 4, 262396), IndexRoot(9, 4), IndexRoot(9, 4)>>
UpCaseAndExtend ==
    <<Data(10, "upcase", 0, 131072), Data(10, "info", 5, 32)>> \o Link(10, 7) \o
    Link(11, 7) \o <<IndexRoot(11, 4)>>
\* A record kept for later: no data and a security descriptor.
Spare(m) == <<Data(m, "empty", 0, 0), SystemSd(m)>>
Reserved == Spare(12) \o Spare(13) \o Spare(14) \o Spare(15)
QuotaEntries == <<RootEntry(24, 72), RootEntry(24, 88), RootEntry(24, 40)>>
ExtendFiles ==
    LinkRes(24, 6) \o <<IndexRoot(24, 2), IndexRoot(24, 2)>> \o QuotaEntries \o
    LinkRes(25, 6) \o <<IndexRoot(25, 2)>> \o LinkRes(26, 8) \o <<IndexRoot(26, 2)>>

\* Mutant of Syncs: $MFT goes out before $Bitmap.
SyncsMftFirst ==
    << Op("sync", 5, "root", 0, 0, 0, "final"), Op("sync", 0, "mft", 0, 0, 0, "final"),
       Op("sync", 1, "mirr", 0, 0, 0, "final"), Op("sync", 6, "bitmap", 0, 0, 0, "final") >>

\* The end of mkntfs_redirect: what the records and the bitmap became since
\* their drafts were written.
Syncs ==
    << Op("sync", 5, "root", 0, 0, 0, "final"), Op("sync", 6, "bitmap", 0, 0, 0, "final"),
       Op("sync", 0, "mft", 0, 0, 0, "final"), Op("sync", 1, "mirr", 0, 0, 0, "final") >>

\* $Bitmap is a multiple of 8 bytes.
BitmapBytes(nr) == Align8(CeilDiv(nr, 8))
Script(nr, label) ==
    RootDirectory \o LargeIndex \o MftFiles \o AttrDefAndBitmap(BitmapBytes(nr)) \o BootFile \o
    VolumeFile(label) \o SecureFile \o SecureEntries \o UpCaseAndExtend \o Reserved \o
    ExtendFiles \o Syncs

-----------------------------------------------------------------------------
At(stage) == pc.at = stage
Goto(stage) == pc' = [at |-> stage, i |-> 0]
Or(ok, stage) == Goto(IF ok THEN stage ELSE "cleanup")
\* The size of s sectors, or b bytes, in clusters.
InClusters(s) == CeilDiv(s, vol.csize)
ByteClusters(b) == CeilDiv(b, vol.csize * 512)

NoRuns == [f \in Files |-> <<>>]
NoVolume == [csize |-> 0, nr |-> 0]
NoRecords == [m \in Records |-> 0]
NoBoot == [bps |-> 0, spc |-> 0, mft |-> 0, cpr |-> 0]
OldDisk == [ver |-> [f \in Files |-> "old"], bits |-> <<>>, backup |-> FALSE, boot |-> NoBoot]
NewJob(size, label) ==
    [size |-> size, label |-> label, ret |-> "none", dirty |-> FALSE,
     faulted |-> FALSE, ignored |-> 0, lost |-> {}]

Init == /\ pc = [at |-> "idle", i |-> 0]
        /\ job = NewJob(0, 0)
        /\ count = 0
        /\ dev = [own |-> "none", open |-> FALSE, frees |-> 0]
        /\ g = [mft_lcn |-> 0, zone |-> 0, alloc |-> <<>>, rl |-> NoRuns]
        /\ vol = NoVolume
        /\ rec = NoRecords
        /\ idx = 0
        /\ disk = OldDisk

\* The default cluster size: 4 KiB, doubled until the clusters fit 32 bits.
DefaultCluster(sectors) == CHOOSE c \in {8, 16, 32, 64, 128, 256, 512} :
    /\ sectors < c * MaxClusters
    /\ c > 8 => sectors >= (c \div 2) * MaxClusters

\* Where $MFT starts on a volume of clusters of c sectors: behind the MFT
\* bitmap, and not before 16 KiB.
FirstMftLcn(c) == LET after == CeilDiv(16, c) + 1
                  IN  IF after * c < 32 THEN CeilDiv(32, c) ELSE after

\* nk_format: the device is allocated and handed to nk_mkntfs_main.
NkFormat(size, label) ==
    /\ At("idle") /\ count < MaxFormats
    /\ "resize" \notin Env => g.mft_lcn \in {0, FirstMftLcn(DefaultCluster(size - 1))}
    /\ count' = count + 1
    /\ job' = NewJob(size, label)
    /\ dev' = [own |-> "bridge", open |-> FALSE, frees |-> 0]
    /\ disk' = OldDisk
    /\ Goto("redirect")
    /\ UNCHANGED <<g, vol, rec, idx>>

\* mkntfs_redirect up to the volume structure, then mkntfs_open_partition:
\* the device now belongs to mkntfs and is open.
OpenPartition ==
    /\ At("redirect")
    /\ dev' = [dev EXCEPT !.own = "mkntfs", !.open = TRUE]
    /\ Goto("params")
    /\ UNCHANGED <<job, count, g, vol, rec, idx, disk>>

\* mkntfs_override_vol_params: the last sector is kept for the backup boot
\* sector, and the volume is at least 1 MiB.
OverrideVolParams ==
    /\ At("params")
    /\ LET sectors == job.size - 1
           c  == DefaultCluster(sectors)
           ok == sectors >= 2048 /\ c < MaxCsize
       IN  /\ vol' = IF ok THEN [csize |-> c, nr |-> sectors \div c] ELSE vol
           /\ Or(ok, "bitmaps")
    /\ UNCHANGED <<job, count, dev, g, rec, idx, disk>>

\* The runlist of a positioned system file, marked as allocated.
Lay(G, f, lcn, len) ==
    [G EXCEPT !.alloc = BitmapAllocate(@, lcn, len),
              !.rl = [@ EXCEPT ![f] = <<[lcn |-> lcn, len |-> len]>>]]

\* Mutant of BitmapTail: the difference is taken the wrong way round.
BitmapTailReversed(G) ==
    [G EXCEPT !.alloc = BitmapAllocate(@, vol.nr, vol.nr - 8 * BitmapBytes(vol.nr))]

\* Mutant of BitmapTail: bits past the volume are left clear.
BitmapTailClear(G) == G

\* $Bitmap can overlap the end of the volume; those bits are set.
BitmapTail(G) ==
    [G EXCEPT !.alloc = BitmapAllocate(@, vol.nr, 8 * BitmapBytes(vol.nr) - vol.nr)]

\* mkntfs_initialize_bitmaps: the MFT bitmap is right after $Boot's data.
InitializeBitmaps ==
    /\ At("bitmaps")
    /\ LET G == BitmapTail(g)
           at == InClusters(16)
       IN  /\ g' = Lay(G, "mftbmp", at, 1)
           /\ Or(/\ WasFree(g.alloc, vol.nr, 8 * BitmapBytes(vol.nr) - vol.nr)
                 /\ WasFree(G.alloc, at, 1), "mft")
    /\ UNCHANGED <<job, count, dev, vol, rec, idx, disk>>

\* g_mft_lcn is kept when a format of this process already decided it.
MftLcn == IF g.mft_lcn # 0 THEN g.mft_lcn ELSE FirstMftLcn(vol.csize)

\* n allocations fail, and nobody looks: the clusters of S are not marked.
Ignoring(n, S) == [job EXCEPT !.faulted = @ \/ n > 0, !.ignored = @ + n, !.lost = @ \cup S]
MayIgnore(n) == n = 0 \/ ("nomem" \in Env /\ job.ignored + n <= MaxIgnored)

\* mkntfs_initialize_rl_mft: $MFT, the MFT zone and, in the middle of the
\* volume, $MFTMirr.  The result of allocating $MFT is not looked at, so that its
\* clusters may stay unmarked (n = 1).
InitializeRlMft ==
    /\ At("mft")
    /\ LET size == IF 54 < vol.csize THEN vol.csize ELSE 54
           G    == Lay(g, "mft", MftLcn, InClusters(size))
           mid  == ((job.size - 1) \div 2) \div vol.csize
           len  == InClusters(8)
       IN  \E n \in 0 .. 1 :
             LET marked == [G EXCEPT !.alloc = IF n = 0 THEN @ ELSE g.alloc]
             IN  /\ MayIgnore(n) /\ (n = 1 => NeedsNode(g.alloc, MftLcn))
                 /\ job' = Ignoring(n, IF n = 0 THEN {} ELSE Cover(G.rl["mft"]))
                 /\ g' = [Lay(marked, "mirr", mid, len) EXCEPT !.mft_lcn = MftLcn,
                                                               !.zone = MftLcn + vol.nr \div 8]
                 /\ Or(WasFree(marked.alloc, mid, len), "logfile")
    /\ UNCHANGED <<count, dev, vol, rec, idx, disk>>

\* The size of $LogFile, in sectors, from the size of the volume.
StandardLog(s) == IF s < 4096 THEN 512
                  ELSE IF s < 7813 THEN 1024
                  ELSE IF s <= 409600 THEN 4096
                  ELSE IF s >= 25165824 THEN 131072
                  ELSE ((s \div 200) \div vol.csize) * vol.csize
\* It is halved until it fits behind $MFTMirr.
FittingLog(lcn, s) ==
    LET Fit[n \in 0 .. s] == IF lcn + n \div vol.csize < vol.nr THEN n ELSE Fit[n \div 2]
    IN  Fit[s]

\* Mutant of LogLcn: the clusters of $MFTMirr are forgotten.
LogLcnOnMirror == g.rl["mirr"][1].lcn
LogLcn == g.rl["mirr"][1].lcn + g.rl["mirr"][1].len

\* mkntfs_initialize_rl_logfile: the size is rounded up to a cluster before it is
\* compared with the minimum, the clusters are those of the size before.
InitializeRlLogfile ==
    /\ At("logfile")
    /\ LET fit  == FittingLog(LogLcn, StandardLog(vol.nr * vol.csize))
           n    == fit \div vol.csize
           size == InClusters(fit) * vol.csize
       IN  /\ g' = IF size < 512 THEN g ELSE Lay(g, "log", LogLcn, n)
           /\ Or(size >= 512 /\ WasFree(g.alloc, LogLcn, n), "boot")
    /\ UNCHANGED <<job, count, dev, vol, rec, idx, disk>>

\* What mkntfs_create_root_structures starts from: every record is laid out,
\* and has its standard information.
LaidOut == [m \in Records |-> 64 + ResidentSize(0, StdInfo(m))]

\* mkntfs_initialize_rl_boot, then the buffer of the records.
InitializeRlBoot ==
    /\ At("boot")
    /\ g' = Lay(g, "boot", 0, InClusters(16))
    /\ rec' = LaidOut
    /\ idx' = 56
    /\ Or(WasFree(g.alloc, 0, InClusters(16)), "script")
    /\ UNCHANGED <<job, count, dev, vol, disk>>

-----------------------------------------------------------------------------
Steps == Script(vol.nr, job.label)
Step == Steps[pc.i + 1]
Doing(op) == At("script") /\ Step.op = op
\* The next entry of the script, or cleanup when it failed or was the last.
Advance(ok) == pc' = IF ok /\ pc.i + 1 < Len(Steps) THEN [pc EXCEPT !.i = @ + 1]
                     ELSE [at |-> "cleanup", i |-> 0]
\* make_room_for_attribute.
MakeRoom(m, size) == rec[m] + size <= RecordSize
Grown(m, size) == IF MakeRoom(m, size) THEN [rec EXCEPT ![m] = @ + size] ELSE rec

\* The geometry in the boot sector: more than 128 sectors per cluster, and MFT
\* records smaller than a cluster, are given as exponents of two.
Log2(n) == CHOOSE k \in 0 .. 20 : 2 ^ k = n
BootSector ==
    [bps |-> 512,
     spc |-> IF vol.csize > 128 THEN 256 - Log2(vol.csize) ELSE vol.csize,
     mft |-> g.mft_lcn,
     cpr |-> IF RecordSize >= vol.csize * 512 THEN RecordSize \div (vol.csize * 512)
             ELSE -Log2(RecordSize)]

\* ntfs_rlwrite of a file: the clusters of its runlist hold version v, and a
\* write of $Bitmap builds the bits from the allocation list as it is now.
Written(d, f, v, a) == [d EXCEPT !.ver = [@ EXCEPT ![f] = v],
                                 !.bits = IF f = "bitmap" THEN a ELSE @,
                                 !.boot = IF f = "boot" THEN BootSector ELSE @]

\* insert_resident_attr_in_mft_record.
AddResident ==
    /\ Doing("resident")
    /\ LET size == ResidentSize(Step.nl, Step.vl)
       IN  rec' = Grown(Step.m, size) /\ Advance(MakeRoom(Step.m, size))
    /\ UNCHANGED <<job, count, dev, g, vol, idx, disk>>

\* add_attr_vol_name: a label has at most 128 UTF-16 units.
AddVolName ==
    /\ Doing("volname")
    /\ LET size == ResidentSize(0, Step.vl)
           ok   == job.label <= 128 /\ MakeRoom(Step.m, size)
       IN  rec' = (IF job.label <= 128 THEN Grown(Step.m, size) ELSE rec) /\ Advance(ok)
    /\ UNCHANGED <<job, count, dev, g, vol, idx, disk>>

\* Whether the device writes of a file succeed; $Bad is sparse and has none.
WriteResults(f) == IF "ioerr" \in Env /\ f # "bad" THEN BOOLEAN ELSE {TRUE}
Version(w) == IF w THEN Step.ver ELSE "torn"
Faulted(w) == job' = [job EXCEPT !.faulted = @ \/ ~w]

\* $Bad is one sparse run of the whole volume (mkntfs_initialize_rl_bad), whose
\* mapping pairs have no offset.
BadPairs == 2 + SignedBytes(vol.nr)

\* insert_positioned_attr_in_mft_record: the runlist was laid out before.
AddPositioned ==
    /\ Doing("positioned")
    /\ LET pairs == IF Step.f = "bad" THEN BadPairs ELSE MappingPairs(g.rl[Step.f])
           size  == NonResidentSize(Step.nl, pairs)
           room  == MakeRoom(Step.m, size)
       IN  \E w \in WriteResults(Step.f) :
               /\ rec' = Grown(Step.m, size)
               /\ disk' = IF room THEN Written(disk, Step.f, Version(w), g.alloc) ELSE disk
               /\ Faulted(w) /\ Advance(room /\ w)
    /\ UNCHANGED <<count, dev, g, vol, idx>>

\* Whether add_attr_data, add_attr_sd or add_attr_bitmap makes it non-resident.
Outgrows == rec[Step.m] + 24 + Step.vl > Step.lim

\* ... resident.
AddValueInside ==
    /\ Doing("value") /\ ~Outgrows
    /\ LET size == ResidentSize(Step.nl, Step.vl)
       IN  rec' = Grown(Step.m, size) /\ Advance(MakeRoom(Step.m, size))
    /\ UNCHANGED <<job, count, dev, g, vol, idx, disk>>

\* ... insert_non_resident_attr_in_mft_record, on scattered clusters.
AddValueOutside ==
    /\ Doing("value") /\ Outgrows
    /\ LET t    == TakeFree(g.alloc, g.zone, vol.nr, ByteClusters(Step.vl))
           rl   == Coalesce(t.lcns)
           size == NonResidentSize(Step.nl, MappingPairs(rl))
           got  == t.zone > 0
           ok   == got /\ MakeRoom(Step.m, size)
       IN  \E w \in WriteResults(Step.f), u \in [1 .. Len(rl) -> 0 .. MaxIgnored] :
             LET n == MapThenSumSet(LAMBDA i : u[i], 1 .. Len(rl))
                 a == AllocateRuns(g.alloc, rl, u)
             IN  /\ MayIgnore(n) /\ MayForget(g.alloc, rl, u)
                 /\ g' = [g EXCEPT !.zone = t.zone, !.alloc = IF got THEN a ELSE @,
                                   !.rl = [@ EXCEPT ![Step.f] = IF got THEN rl ELSE @]]
                 /\ rec' = IF ok THEN Grown(Step.m, size) ELSE rec
                 /\ disk' = IF ok THEN Written(disk, Step.f, Version(w), a) ELSE disk
                 /\ job' = [Ignoring(n, Forgotten(rl, u)) EXCEPT !.faulted = @ \/ ~w]
                 /\ Advance(ok /\ w)
    /\ UNCHANGED <<count, dev, vol, idx>>

\* make_room_for_index_entry_in_index_block: allocated_size is 4096 - 24.
BlockRoom(size) == idx + size <= 4072

\* insert_file_link_in_dir_index: the entry goes into the 4 KiB index block.
AddBlockEntry ==
    /\ Doing("blockentry")
    /\ LET size == Align8(16 + Step.vl)
       IN  idx' = (IF BlockRoom(size) THEN idx + size ELSE idx) /\ Advance(BlockRoom(size))
    /\ UNCHANGED <<job, count, dev, g, vol, rec, disk>>

\* insert_index_entry_in_res_dir_index: its space check compares the record
\* size with bytes_allocated plus the entry, and so never refuses one.
AddRootEntry ==
    /\ Doing("rootentry")
    /\ rec' = [rec EXCEPT ![Step.m] = @ + Step.vl]
    /\ Advance(RecordSize <= Step.vl + RecordSize)
    /\ UNCHANGED <<job, count, dev, g, vol, idx, disk>>

\* initialize_quota: when an entry of $Quota cannot be allocated it returns errno,
\* which is positive, where its caller looks for err < 0: what is left of the
\* $Extend files is skipped, and the format goes on.
QuotaNoMemory ==
    /\ Doing("rootentry") /\ Step.m = 24 /\ MayIgnore(1)
    /\ job' = Ignoring(1, {})
    /\ pc' = [pc EXCEPT !.i = Len(Steps) - Len(Syncs)]
    /\ UNCHANGED <<count, dev, g, vol, rec, idx, disk>>

\* create_backup_boot_sector, behind the last cluster.
BackupBootSector ==
    /\ Doing("backup")
    /\ disk' = [disk EXCEPT !.backup = TRUE]
    /\ Advance(TRUE)
    /\ UNCHANGED <<job, count, dev, g, vol, rec, idx>>

\* ... when it cannot be written the volume is marked dirty, and chkdsk will
\* create it.
BackupBootSectorErr ==
    /\ Doing("backup") /\ "ioerr" \in Env
    /\ job' = [job EXCEPT !.faulted = TRUE, !.dirty = TRUE]
    /\ Advance(TRUE)
    /\ UNCHANGED <<count, dev, g, vol, rec, idx, disk>>

\* The sync of a file whose draft is on disk.  result becomes 0 after the last.
Sync ==
    /\ Doing("sync")
    /\ \E w \in WriteResults(Step.f) :
           /\ disk' = Written(disk, Step.f, Version(w), g.alloc)
           /\ job' = [job EXCEPT !.faulted = @ \/ ~w,
                                 !.ret = IF w /\ pc.i + 1 = Len(Steps) THEN "ok" ELSE @]
           /\ Advance(w)
    /\ UNCHANGED <<count, dev, g, vol, rec, idx>>

\* An allocation fails and is noticed, before or after the device changed hands.
NoMemory ==
    /\ "nomem" \in Env
    /\ pc.at \in {"redirect", "bitmaps", "mft", "logfile", "boot", "script"}
    /\ job' = [job EXCEPT !.faulted = TRUE]
    /\ g' = IF At("mft") THEN [g EXCEPT !.mft_lcn = MftLcn] ELSE g
    /\ Goto("cleanup")
    /\ UNCHANGED <<count, dev, vol, rec, idx, disk>>

\* Mutant of Cleared: g_allocation is not reset.
ClearedButAllocation(G) == [G EXCEPT !.rl = NoRuns]

\* What mkntfs_cleanup resets of the globals.  g_mft_lcn is not among them.
Cleared(G) == [G EXCEPT !.alloc = <<>>, !.rl = NoRuns]

\* mkntfs_cleanup: the device is closed and freed if mkntfs owns it.
Cleanup ==
    /\ At("cleanup")
    /\ dev' = IF dev.own = "mkntfs" THEN [dev EXCEPT !.open = FALSE, !.frees = @ + 1] ELSE dev
    /\ g' = Cleared(g)
    /\ vol' = NoVolume /\ rec' = NoRecords /\ idx' = 0
    /\ Goto("return")
    /\ UNCHANGED <<job, count, disk>>

\* Mutant of Unconsumed: nk_format always frees the device.
UnconsumedAlways == TRUE
Unconsumed == dev.own = "bridge"

\* The end of nk_format.
FormatReturn ==
    /\ At("return")
    /\ dev' = IF Unconsumed THEN [dev EXCEPT !.frees = @ + 1] ELSE dev
    /\ job' = [job EXCEPT !.ret = IF @ = "ok" THEN @ ELSE "err"]
    /\ Goto("idle")
    /\ UNCHANGED <<count, g, vol, rec, idx, disk>>

Next ==
    \/ \E size \in Devices, label \in Labels : NkFormat(size, label)
    \/ OpenPartition
    \/ OverrideVolParams
    \/ InitializeBitmaps
    \/ InitializeRlMft
    \/ InitializeRlLogfile
    \/ InitializeRlBoot
    \/ AddResident
    \/ AddVolName
    \/ AddPositioned
    \/ AddValueInside
    \/ AddValueOutside
    \/ AddBlockEntry
    \/ AddRootEntry
    \/ QuotaNoMemory
    \/ BackupBootSector
    \/ BackupBootSectorErr
    \/ Sync
    \/ NoMemory
    \/ Cleanup
    \/ FormatReturn

Spec == Init /\ [][Next]_vars

-----------------------------------------------------------------------------
(* Probing what was formatted (NTFSFileSystem.swift), in bytes.             *)

IsPow2(n) == \E k \in 0 .. 20 : n = 2 ^ k

\* Cluster and MFT record size as readVolumeLabel decodes them.
ProbeCluster(b) == IF b.spc > 128 THEN 2 ^ (256 - b.spc) ELSE b.spc * b.bps
ProbeRecord(b) == IF b.cpr < 0 THEN 2 ^ (-b.cpr) ELSE b.cpr * ProbeCluster(b)

\* The guards before $Volume is read; the two against overflow of 64 bits are
\* true of every volume that fits TLC's integers.
Decodable(b) ==
    /\ b.bps \in 256 .. 4096 /\ IsPow2(b.bps)
    /\ b.spc > 128 \/ IsPow2(b.spc)
    /\ b.spc > 128 => 256 - b.spc < 22
    /\ ProbeCluster(b) <= 2 ^ 21 /\ b.mft > 0
    /\ IF b.cpr < 0 THEN -b.cpr < 22 ELSE b.cpr > 0 /\ b.cpr <= 65536 \div ProbeCluster(b)
    /\ ProbeRecord(b) \in 512 .. 65536

\* The attributes of $Volume's record, by type, behind the record header.
VolumeAttrs ==
    LET Attr(t, vl) == [type |-> t, vlen |-> vl, alen |-> ResidentSize(0, vl)]
    IN  << Attr(16, StdInfo(3)), Attr(48, NameValue(7)), Attr(80, 100),
           Attr(96, 2 * job.label), Attr(112, 12), Attr(128, 0) >>
AttrEnd(k) == 56 + MapThenSumSet(LAMBDA j : VolumeAttrs[j].alen, 1 .. k)

\* Mutant of LabelFits: one unit less.
LabelFitsShort(a) == a.vlen > 0 /\ a.vlen < 256 /\ 24 + a.vlen <= a.alen

\* The value of VOLUME_NAME is sane and inside its attribute.
LabelFits(a) == a.vlen > 0 /\ a.vlen <= 256 /\ a.vlen % 2 = 0 /\ 24 + a.vlen <= a.alen

\* The walk to the first VOLUME_NAME attribute of a record of n bytes.
LabelIn(n) ==
    LET k == CHOOSE i \in DOMAIN VolumeAttrs : VolumeAttrs[i].type = 96
    IN  IF /\ \A j \in 1 .. k : VolumeAttrs[j].alen >= 24 /\ AttrEnd(j) <= n
           /\ LabelFits(VolumeAttrs[k])
        THEN VolumeAttrs[k].vlen \div 2 ELSE 0

\* readVolumeLabel: the length of the label, 0 when there is none; behind
\* another offset than $Volume's there is no such record.
ReadVolumeLabel(b) ==
    IF /\ Decodable(b)
       /\ b.mft * ProbeCluster(b) + 3 * ProbeRecord(b)
            = g.rl["mft"][1].lcn * vol.csize * 512 + 3 * RecordSize
       /\ ProbeRecord(b) % b.bps = 0
    THEN LabelIn(ProbeRecord(b)) ELSE 0

-----------------------------------------------------------------------------
(* Properties.                                                              *)

Stages == {"idle", "redirect", "params", "bitmaps", "mft", "logfile", "boot",
           "script", "cleanup", "return"}

\* The stages, the format at hand, the globals and the device have their types.
TypeOK ==
    /\ pc.at \in Stages /\ pc.i \in Nat
    /\ job \in [size : Devices \cup {0}, label : Labels \cup {0}, ret : {"none", "ok", "err"},
                dirty : BOOLEAN, faulted : BOOLEAN, ignored : Nat, lost : SUBSET Nat]
    /\ count \in 0 .. MaxFormats
    /\ dev \in [own : {"none", "bridge", "mkntfs"}, open : BOOLEAN, frees : Nat]
    /\ g.mft_lcn \in Nat /\ g.zone \in Nat /\ g.alloc \in Seq(Run)
    /\ \A f \in Files : g.rl[f] \in Seq(Run)
    /\ vol \in [csize : Nat, nr : Nat] /\ rec \in [Records -> Nat] /\ idx \in Nat
    /\ disk.ver \in [Files -> {"old", "draft", "torn", "final"}]

Owned == UNION {Cover(g.rl[f]) : f \in Clustered}

\* No two system files share a cluster and none reaches past the last cluster,
\* where the backup boot sector is: what mkntfs.c's runlist initialisers and
\* its scattered allocator hand out never overlaps, in any format of a process,
\* but for clusters that bitmap_get_and_set could not mark for want of memory.
LayoutDisjoint ==
    /\ \A f, h \in Clustered : f # h => Cover(g.rl[f]) \cap Cover(g.rl[h]) \subseteq job.lost
    /\ Owned \subseteq 0 .. vol.nr - 1

\* When mkntfs_redirect succeeds, $Bitmap on disk marks the clusters of the
\* system files and the bits past the volume, and nothing else: files created
\* after its draft was written are covered by the last sync.  Only clusters whose
\* marking failed unnoticed may be missing.
BitmapTruthful ==
    At("cleanup") /\ job.ret = "ok" =>
        LET used == Owned \cup (vol.nr .. 8 * BitmapBytes(vol.nr) - 1)
        IN  Cover(disk.bits) \subseteq used /\ used \ Cover(disk.bits) \subseteq job.lost

\* $MFT's final records are written only when everything they point to was: a
\* format that fails half-way never leaves a volume that mounts as whole over
\* drafts, and a missing backup boot sector has set the dirty flag.  (That no
\* later write goes to the same clusters is LayoutDisjoint.)
MftComesLast ==
    disk.ver["mft"] = "final" =>
        /\ \A f \in Clustered \ {"mirr"} : disk.ver[f] = "final"
        /\ disk.backup \/ job.dirty

\* The ntfs_device is freed exactly once, by mkntfs_cleanup once mkntfs took it
\* and by nk_format otherwise, and it is closed by then.
DeviceFreedOnce ==
    /\ dev.frees <= 1
    /\ At("idle") /\ count > 0 => dev.frees = 1 /\ ~dev.open

\* A format in which no write and no allocation fails, of a device of a legal
\* size and with a legal label, succeeds, also as the second one of a process.
CleanFormatSucceeds ==
    At("return") /\ ~job.faulted /\ job.label <= 128
        /\ job.size > 2048 /\ DefaultCluster(job.size - 1) < MaxCsize
    => job.ret = "ok"

\* No MFT record and no index block grows past its buffer, though entries of
\* an index root are inserted without a working check, and no empty value is
\* made non-resident, whose runlist would be NULL.
RecordsFit ==
    /\ \A m \in Records : rec[m] <= RecordSize
    /\ idx <= 4072
    /\ At("script") => (Step.op = "value" /\ Outgrows => Step.vl > 0)

\* A volume this program has formatted is probed under its label, not under the
\* default name: readVolumeLabel finds $Volume from the geometry mkntfs encoded
\* ("read the real label ... so disks mount as /Volumes/<label>").
ProbeFindsLabel ==
    At("cleanup") /\ job.ret = "ok" => ReadVolumeLabel(disk.boot) = job.label
=============================================================================
