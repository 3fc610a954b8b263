------------------------------- MODULE Mount -------------------------------
(***************************************************************************)
(* Opening and closing the engine: what nk_mount_io, nk_mount,               *)
(* nk_mount_bitlocker with nk_bde_open, nk_fsck and nk_umount allocate and    *)
(* free, one call after the other, when any of their calls may fail; the     *)
(* read-only fallback of openEngine; and which files a mounted volume then   *)
(* offers to the kernel for offloaded I/O (KOIO).                            *)
(*                                                                         *)
(* A call is a list of things to get, each with the list of things to free   *)
(* when getting it fails.                                                    *)
(***************************************************************************)
EXTENDS Integers, Sequences

CONSTANTS
    BlockSizes,     \* logical block sizes of the device
    ClusterSizes,   \* cluster sizes of a volume found on it
    FormatSizes,    \* cluster sizes nk_format chooses
    MountEnv        \* see MountEnvFlags

\* fail      an allocation or a library call fails
\* statfail  nk_statvfs fails in activate
MountEnvFlags == {"fail", "statfail"}

ASSUME MountAssumption ==
    /\ BlockSizes \subseteq Nat \ {0} /\ ClusterSizes \subseteq Nat \ {0}
    /\ FormatSizes \subseteq ClusterSizes /\ MountEnv \subseteq MountEnvFlags
    /\ \A cs \in FormatSizes, bs \in BlockSizes : cs % bs = 0

VARIABLES
    geo,          \* bs: the device's block size, cs: the cluster size on it
    obj,          \* what became of each object
    unsafe,       \* something was freed twice, or used after it was freed
    call,         \* the call in progress
    vol,          \* the nk_volume: how it was mounted, and read-only
    readOnly,     \* NTFSVolume.readOnly
    active,       \* activate() has been called
    clusterSize   \* NTFSVolume.clusterSize, 0: unknown

mountVars == <<geo, obj, unsafe, call, vol, readOnly, active, clusterSize>>

\* ctx: nk_devctx, dev: ntfs_device, vol: ntfs_volume, v: nk_volume with its
\* table wr; b: nk_bde with bctx, bfio, bdevol (libbde's volume) and d (bde_dev).
Objects == {"ctx", "dev", "vol", "v", "wr", "b", "bctx", "bfio", "bdevol", "d"}
\* libbde_volume_open_file_io_handle and the unlocking allocate nothing of ours.
Nothing == "nothing"
NoVol == [kind |-> "none", ro |-> FALSE]
NoCall == [kind |-> "idle", todo |-> <<>>, undo |-> <<>>, ok |-> TRUE, ro |-> FALSE]

-----------------------------------------------------------------------------
(* The calls.                                                               *)

Get(x, undo) == [get |-> x, undo |-> undo]

\* Mutant of NkMountIo: the device is freed after ntfs_umount freed it.
NkMountIoTwice ==
    << Get("ctx", <<>>), Get("dev", <<"ctx">>), Get("vol", <<"dev", "ctx">>),
       Get("v", <<"vol", "dev", "ctx">>) >>

NkMountIo ==
    << Get("ctx", <<>>), Get("dev", <<"ctx">>), Get("vol", <<"dev", "ctx">>),
       Get("v", <<"vol", "ctx">>) >>

\* nk_mount of an image file: the library allocates the device itself.
NkMountPath == << Get("vol", <<>>), Get("v", <<"vol">>) >>

\* nk_bde_open's label "fail", and nk_bde_free.
BdeFail == <<"bdevol", "bfio", "bctx", "b">>
BdeFree == <<"bdevol", "bfio", "bctx", "d", "b">>

\* nk_bde_open: both structs (what there is of the two is freed), the handles,
\* opening and unlocking, the device.
NkBdeOpen ==
    << Get("b", <<>>), Get("bctx", <<"b">>),
       Get("bfio", <<"bctx", "b">>), Get("bdevol", BdeFail),
       Get(Nothing, BdeFail), Get(Nothing, BdeFail),
       Get("d", BdeFail), Get("dev", <<"d">> \o BdeFail) >>

NkMountBitlocker ==
    NkBdeOpen \o << Get("vol", <<"dev">> \o BdeFree), Get("v", <<"vol">> \o BdeFree) >>

\* nk_fsck: its device is its own, and is gone when it returns.
NkFsck == << Get("ctx", <<>>), Get("dev", <<"ctx">>), Get("vol", <<"dev", "ctx">>) >>
NkFsckEnd == <<"vol", "ctx">>

NkUmount == <<"vol", "ctx">> \o BdeFree \o <<"wr", "v">>

\* What freeing an object reads: the struct that holds the pointer to it, and
\* what the library uses to flush or to close it.
Reads == [x \in Objects |->
    CASE x = "vol"    -> {"v", "dev", "ctx", "d", "bdevol", "bfio", "bctx"}
      [] x = "ctx"    -> {"v"}
      [] x = "wr"     -> {"v"}
      [] x = "b"      -> {"v"}
      [] x = "bdevol" -> {"b", "bfio", "bctx"}
      [] x = "bfio"   -> {"b", "bctx"}
      [] x = "bctx"   -> {"b"}
      [] x = "d"      -> {"b"}
      [] OTHER        -> {}]

SafeToFree(x) == obj[x] # "freed" /\ \A y \in Reads[x] : obj[y] # "freed"
\* ntfs_umount frees the device, and a null pointer is freed without effect.
Released(x) == {y \in Objects : obj[y] = "live" /\ (y = x \/ (x = "vol" /\ y = "dev"))}

-----------------------------------------------------------------------------
Idle == call.kind = "idle"

\* Pointers of a new call are new.
Begin(kind, todo, undo, ro) ==
    /\ call' = [kind |-> kind, todo |-> todo, undo |-> undo, ok |-> TRUE, ro |-> ro]
    /\ obj' = [x \in Objects |-> IF obj[x] = "freed" THEN "none" ELSE obj[x]]

\* openEngine, from activate() or from mount() after an unmount().
OpenEngine(kind) ==
    /\ Idle /\ vol = NoVol /\ active = (kind = "mount")
    /\ Begin(kind, NkMountIo, <<>>, readOnly)
    /\ UNCHANGED <<geo, unsafe, vol, readOnly, active, clusterSize>>

\* The engine over an image, over a BitLocker volume, and for a check.
OpenOther(kind, todo, ro) ==
    /\ Idle /\ vol = NoVol
    /\ Begin(kind, todo, <<>>, ro)
    /\ UNCHANGED <<geo, unsafe, vol, readOnly, active, clusterSize>>

\* The next thing is there ...
GetOk ==
    /\ call.todo # <<>>
    /\ obj' = [x \in Objects |-> IF x = Head(call.todo).get THEN "live" ELSE obj[x]]
    /\ call' = [call EXCEPT !.todo = Tail(@)]
    /\ UNCHANGED <<geo, unsafe, vol, readOnly, active, clusterSize>>

\* ... or it is not, and the call cleans up.
GetFail ==
    /\ call.todo # <<>> /\ "fail" \in MountEnv
    /\ call' = [call EXCEPT !.todo = <<>>, !.undo = Head(call.todo).undo, !.ok = FALSE]
    /\ UNCHANGED <<geo, obj, unsafe, vol, readOnly, active, clusterSize>>

FreeNext ==
    /\ call.todo = <<>> /\ call.undo # <<>>
    /\ LET x == Head(call.undo)
       IN  /\ unsafe' = (unsafe \/ ~SafeToFree(x))
           /\ obj' = [y \in Objects |-> IF y \in Released(x) THEN "freed" ELSE obj[y]]
    /\ call' = [call EXCEPT !.undo = Tail(@)]
    /\ UNCHANGED <<geo, vol, readOnly, active, clusterSize>>

Returning(kinds) == call.kind \in kinds /\ call.todo = <<>> /\ call.undo = <<>>

\* The volume is read-only from now on if the second attempt was needed.
FellBack == readOnly \/ call.ro

\* openEngine succeeded; activate() goes on to ask for the cluster size.
OpenedEngine ==
    /\ Returning({"activate", "mount"}) /\ call.ok
    /\ vol' = [kind |-> "io", ro |-> call.ro]
    /\ readOnly' = FellBack
    /\ active' = TRUE
    /\ clusterSize' \in IF call.kind = "mount" THEN {clusterSize}
                        ELSE {geo.cs} \cup {c \in {0} : "statfail" \in MountEnv}
    /\ call' = NoCall
    /\ UNCHANGED <<geo, obj, unsafe>>

\* Read-write failed: once more, read-only.
TryReadOnly ==
    /\ Returning({"activate", "mount"}) /\ ~call.ok /\ ~call.ro
    /\ Begin(call.kind, NkMountIo, <<>>, TRUE)
    /\ UNCHANGED <<geo, unsafe, vol, readOnly, active, clusterSize>>

\* No engine.
OpenFailed ==
    /\ Returning({"activate", "mount"}) /\ ~call.ok /\ call.ro
    /\ call' = NoCall
    /\ UNCHANGED <<geo, obj, unsafe, vol, readOnly, active, clusterSize>>

OpenedOther ==
    /\ Returning({"path", "bde"})
    /\ vol' = IF call.ok THEN [kind |-> call.kind, ro |-> call.ro] ELSE vol
    /\ call' = NoCall
    /\ UNCHANGED <<geo, obj, unsafe, readOnly, active, clusterSize>>

\* nk_fsck has mounted: it unmounts again.
FsckUnmounts ==
    /\ Returning({"fsck"})
    /\ call' = IF call.ok THEN [call EXCEPT !.undo = NkFsckEnd, !.ok = FALSE] ELSE NoCall
    /\ UNCHANGED <<geo, obj, unsafe, vol, readOnly, active, clusterSize>>

\* closeEngine, from unmount() and from deactivate(); nk_umount of the others.
CloseEngine(deactivate) ==
    /\ Idle /\ vol # NoVol
    /\ Begin("umount", <<>>, NkUmount, FALSE)
    /\ active' = (active /\ ~deactivate)
    /\ UNCHANGED <<geo, unsafe, vol, readOnly, clusterSize>>

Closed ==
    /\ Returning({"umount"})
    /\ vol' = NoVol /\ call' = NoCall
    /\ UNCHANGED <<geo, obj, unsafe, readOnly, active, clusterSize>>

\* startFormat while no engine is open, an unmounted volume still active.
Reformat(cs) ==
    /\ Idle /\ vol = NoVol
    /\ geo' = [geo EXCEPT !.cs = cs]
    /\ UNCHANGED <<obj, unsafe, call, vol, readOnly, active, clusterSize>>

MountInit ==
    /\ geo \in [bs : BlockSizes, cs : ClusterSizes]
    /\ obj = [x \in Objects |-> "none"] /\ unsafe = FALSE
    /\ call = NoCall /\ vol = NoVol
    /\ readOnly \in BOOLEAN /\ active = FALSE /\ clusterSize = 0

MountNext ==
    \/ OpenEngine("activate") \/ OpenEngine("mount")
    \/ OpenOther("path", NkMountPath, FALSE)
    \/ OpenOther("bde", NkMountBitlocker, TRUE)
    \/ OpenOther("fsck", NkFsck, FALSE)
    \/ GetOk \/ GetFail \/ FreeNext
    \/ OpenedEngine \/ TryReadOnly \/ OpenFailed \/ OpenedOther \/ FsckUnmounts
    \/ \E deactivate \in BOOLEAN : CloseEngine(deactivate)
    \/ Closed
    \/ \E cs \in FormatSizes : Reformat(cs)

MountSpec == MountInit /\ [][MountNext]_mountVars

-----------------------------------------------------------------------------
(* Which files ride KOIO.                                                   *)

\* intx: a SYSTEM file that starts with the Interix magic; tail: initialized_size
\* is below the size.
File == {f \in [packed : BOOLEAN, reparse : BOOLEAN, intx : BOOLEAN,
                resident : BOOLEAN, tail : BOOLEAN] : f.resident => ~f.tail}

\* fill_stat and nk_stat_path; packed is compressed or encrypted.
IsSymlink(f) == f.reparse \/ f.intx
KoioOk(f) == /\ ~f.packed /\ ~IsSymlink(f)
             /\ vol.kind # "bde" /\ ~(vol.ro /\ f.tail)

ClustersUnmappable == clusterSize > 0 /\ clusterSize % geo.bs # 0

\* Mutant of Inhibited: resident files of a read-only volume are forgotten.
InhibitedPacked(f) == ~KoioOk(f) \/ ClustersUnmappable
\* makeAttributes: inhibitKernelOffloadedIO.
Inhibited(f) == ~KoioOk(f) \/ ClustersUnmappable \/ (readOnly /\ f.resident)
\* openItem for writing: it asks nk_stat_path (statted: the call succeeded), and
\* lets the open through when that fails.
WriteOpenRefused(f, statted) ==
    statted /\ (~KoioOk(f) \/ ClustersUnmappable) /\ ~IsSymlink(f)

\* nk_blockmap does not answer "not mappable" (forced: the conversion of
\* resident data by ntfs_attr_force_non_resident succeeds); of the files with a
\* tail on a read-only volume it refuses those where a block is partly
\* initialized.
Mappable(f, forced) ==
    /\ vol.kind # "bde" /\ geo.cs % geo.bs = 0
    /\ ~f.packed
    /\ f.resident => ~vol.ro /\ forced
    /\ f.tail => ~vol.ro

-----------------------------------------------------------------------------
\* Types of the objects, of the call in progress and of the mounted volume.
MountTypeOK ==
    /\ geo \in [bs : BlockSizes, cs : ClusterSizes]
    /\ obj \in [Objects -> {"none", "live", "freed"}]
    /\ unsafe \in BOOLEAN /\ readOnly \in BOOLEAN /\ active \in BOOLEAN
    /\ vol \in [kind : {"none", "io", "path", "bde"}, ro : BOOLEAN]
    /\ call.kind \in {"idle", "activate", "mount", "path", "bde", "fsck", "umount"}
    /\ call.ok \in BOOLEAN /\ call.ro \in BOOLEAN
    /\ clusterSize \in {0} \cup ClusterSizes

\* What a mounted volume owns; the table of marks only once it has one.
Owned == CASE vol.kind = "io"   -> {"ctx", "dev", "vol", "v"}
           [] vol.kind = "path" -> {"vol", "v"}
           [] vol.kind = "bde"  -> {"b", "bctx", "bfio", "bdevol", "d", "dev", "vol", "v"}
           [] OTHER             -> {}

\* Whichever call of nk_mount_io, nk_bde_open, nk_mount_bitlocker or nk_fsck
\* fails, nothing is freed twice or read after it was freed, and between calls
\* exactly the objects of the mounted volume are allocated: no failed mount,
\* fallback or unmount leaks one.
HeapExact ==
    /\ ~unsafe
    /\ Idle => {x \in Objects \ {"wr"} : obj[x] = "live"} = Owned
    /\ Idle /\ vol = NoVol => obj["wr"] # "live"

\* A file whose attributes offer it to the kernel is one nk_blockmap maps, and
\* so is a file openItem lets be opened for writing after a stat that succeeded
\* ("streaming writeback to an inhibited item on a KOIO volume wedged the
\* kernel"): through the read-only fallback, remounts, and a format under a
\* volume that is active but unmounted. The only refusal left to nk_blockmap is
\* the failing conversion of a resident file. A stat that fails proves nothing:
\* openItem then grants whatever the file is.
AdvertisedMappable ==
    Idle /\ vol.kind = "io" =>
        \A f \in File, statted, forced \in BOOLEAN :
            LET maps == Mappable(f, forced) \equiv (f.resident => forced)
            IN  /\ ~Inhibited(f) => maps
                /\ ~readOnly /\ ~IsSymlink(f) /\ ~WriteOpenRefused(f, statted)
                     => maps \/ ~statted
=============================================================================
