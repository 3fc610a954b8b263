------------------------------- MODULE Engine -------------------------------
(***************************************************************************)
(* An nk_volume from mount to unmount: the calls of Mount, and between them  *)
(* the operations of Bridge on a volume mounted read-write.  The two share   *)
(* the table wr[]: wr_set allocates it, nk_umount frees it.                  *)
(***************************************************************************)
EXTENDS Mount, Bridge

engineVars == <<mountVars, bridgeVars>>

\* The bound: a volume that was written to is not mounted again.
Untouched == \A r \in Recs : ntfs.recs[r].seq = 1 /\ ntfs.recs[r].strm = NoStream

EngineInit == MountInit /\ BridgeInit

\* A step of a call; after nk_umount there is no table.
MountStep ==
    /\ op = NoOp
    /\ Idle /\ vol = NoVol => Untouched
    /\ MountNext
    /\ wr' = IF vol' = NoVol THEN <<>> ELSE wr
    /\ UNCHANGED <<ntfs, op>>

\* realloc in wr_set: the array is there from the first entry on.
TableOf == [obj EXCEPT !["wr"] = IF Len(wr') > 0 THEN "live" ELSE @]

\* An operation on the volume.
VolumeStep ==
    /\ Idle /\ vol.kind = "io" /\ ~vol.ro
    /\ \/ \E n \in Names, r \in Recs : NkCreate(n, r)
       \/ \E n \in Names : NkDelete(n)
       \/ \E old, new \in Names : RenameLink(old, new)
       \/ RenameDelete \/ RenameRollback
       \/ geo.cs % geo.bs = 0 /\ \E n \in Names : NkBlockmap(n)
       \/ \E n \in Names : NkSettle(n)
       \/ \E n \in Names, val \in Values, policy \in Policies : SetXattr(n, val, policy)
       \/ \E n \in Names : RemoveXattr(n)
    /\ obj' = TableOf
    /\ UNCHANGED <<geo, unsafe, call, vol, readOnly, active, clusterSize>>

\* The extension dies: nothing of the process is left.
ProcessDies ==
    /\ vol # NoVol /\ Crash
    /\ obj' = [x \in Objects |-> "none"] /\ call' = NoCall /\ vol' = NoVol
    /\ active' = FALSE /\ clusterSize' = 0
    /\ UNCHANGED <<geo, unsafe, readOnly>>

EngineNext == MountStep \/ VolumeStep \/ ProcessDies
EngineSpec == EngineInit /\ [][EngineNext]_engineVars

\* Types of both parts.
EngineTypeOK == MountTypeOK /\ BridgeTypeOK
=============================================================================
