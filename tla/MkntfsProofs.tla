----------------------------- MODULE MkntfsProofs -----------------------------
(***************************************************************************)
(* The ntfs_device of nk_format changes hands once, in the middle of a run   *)
(* that may fail before and after: whoever owns it at the end frees it.      *)
(* Proved for devices of every size, every label, any number of formats in   *)
(* one process and every failing write or allocation, noticed or not.         *)
(*                                                                           *)
(* So is, in the second part, that the $MFT is final only when everything     *)
(* else but its mirror is, whichever write or allocation of a format fails.   *)
(***************************************************************************)
EXTENDS Mkntfs, TLAPS

\* The default prover and its time; some steps of logic cite Zenon.
USE SMTT(40)

\* The stages in which mkntfs holds the device open.
Working == {"params", "bitmaps", "mft", "logfile", "boot", "script"}

Device(own, open, frees) == dev = [own |-> own, open |-> open, frees |-> frees]

\* Who has the device at each stage.  A run reaches "cleanup" with the device
\* still the bridge's only when it failed before mkntfs_open_partition.
DeviceInv ==
    /\ pc.at \in Stages /\ count \in Nat
    /\ At("idle") => \/ count = 0 /\ Device("none", FALSE, 0)
                     \/ Device("bridge", FALSE, 1)
                     \/ Device("mkntfs", FALSE, 1)
    /\ At("redirect") => Device("bridge", FALSE, 0)
    /\ pc.at \in Working => Device("mkntfs", TRUE, 0)
    /\ At("cleanup") => Device("bridge", FALSE, 0) \/ Device("mkntfs", TRUE, 0)
    /\ At("return") => Device("bridge", FALSE, 0) \/ Device("mkntfs", FALSE, 1)

\* The invariant holds before the first format.
LEMMA DeviceInit == Init => DeviceInv
  BY DEF Init, DeviceInv, Stages, At, Working, Device

\* A step that leaves the device alone and goes on working, or cleans up.
LEMMA WorkStep ==
  ASSUME DeviceInv, pc.at \in Working, UNCHANGED <<count, dev>>,
         pc'.at \in Working \cup {"cleanup"}
  PROVE  DeviceInv'
  BY DEF DeviceInv, Stages, At, Working, Device

\* Where an entry of the script leads.
LEMMA AdvanceStep ==
  ASSUME NEW ok, At("script"), Advance(ok)
  PROVE  pc'.at \in Working \cup {"cleanup"}
  <1>1. CASE ok /\ pc.i + 1 < Len(Steps)
    <2>1. pc' = [pc EXCEPT !.i = pc.i + 1]
      BY <1>1 DEF Advance
    <2>2. pc'.at = pc.at
      BY <2>1
    <2> QED  BY <2>2 DEF At, Working
  <1>2. CASE ~(ok /\ pc.i + 1 < Len(Steps))
    BY <1>2 DEF Advance
  <1> QED  BY <1>1, <1>2

\* Where a stage leads that succeeds or cleans up.
LEMMA OrStep ==
  ASSUME NEW ok, NEW stage \in Working, Or(ok, stage)
  PROVE  pc'.at \in Working \cup {"cleanup"}
  <1>1. CASE ok  BY <1>1 DEF Or, Goto
  <1>2. CASE ~ok  BY <1>2 DEF Or, Goto
  <1> QED  BY <1>1, <1>2

\* Every step keeps the device with its owner.
LEMMA DeviceNext == DeviceInv /\ [Next]_vars => DeviceInv'
  <1> SUFFICES ASSUME DeviceInv, [Next]_vars PROVE DeviceInv'
    OBVIOUS
  <1>1. ASSUME NEW size \in Devices, NEW label \in Labels, NkFormat(size, label)
        PROVE  DeviceInv'
    BY <1>1 DEF NkFormat, Goto, DeviceInv, Stages, At, Working, Device
  <1>2. CASE OpenPartition
    <2>1. pc.at = "redirect" /\ Device("bridge", FALSE, 0)
      BY <1>2, ZenonT(40) DEF OpenPartition, At, DeviceInv
    <2>2. dev' = [own |-> "mkntfs", open |-> TRUE, frees |-> 0]
      BY <1>2, <2>1, ZenonT(40) DEF OpenPartition, Device
    <2>3. pc'.at = "params" /\ count' = count
      BY <1>2 DEF OpenPartition, Goto
    <2> QED  BY <2>2, <2>3 DEF DeviceInv, Stages, At, Working, Device
  <1>3. CASE OverrideVolParams \/ InitializeBitmaps \/ InitializeRlMft
               \/ InitializeRlLogfile \/ InitializeRlBoot
    <2>1. pc.at \in Working /\ UNCHANGED <<count, dev>>
      BY <1>3, ZenonT(40) DEF OverrideVolParams, InitializeBitmaps, InitializeRlMft,
                  InitializeRlLogfile, InitializeRlBoot, At, Working
    <2>2. \E ok, stage : stage \in Working /\ Or(ok, stage)
      <3>1. CASE OverrideVolParams  BY <3>1 DEF OverrideVolParams, Working
      <3>2. CASE InitializeBitmaps  BY <3>2, ZenonT(40) DEF InitializeBitmaps, Working
      <3>3. CASE InitializeRlMft  BY <3>3 DEF InitializeRlMft, Working
      <3>4. CASE InitializeRlLogfile  BY <3>4 DEF InitializeRlLogfile, Working
      <3>5. CASE InitializeRlBoot  BY <3>5 DEF InitializeRlBoot, Working
      <3> QED  BY <1>3, <3>1, <3>2, <3>3, <3>4, <3>5
    <2>3. pc'.at \in Working \cup {"cleanup"}
      BY <2>2, OrStep
    <2> QED  BY <2>1, <2>3, WorkStep
  <1>4. CASE AddResident \/ AddVolName \/ AddPositioned \/ AddValueInside \/ AddValueOutside
               \/ AddBlockEntry \/ AddRootEntry \/ BackupBootSector \/ BackupBootSectorErr \/ Sync
    <2>1. At("script") /\ UNCHANGED <<count, dev>>
      BY <1>4, ZenonT(40) DEF AddResident, AddVolName, AddPositioned, AddValueInside, AddValueOutside,
                  AddBlockEntry, AddRootEntry, BackupBootSector, BackupBootSectorErr, Sync, Doing
    <2>2. \E ok : Advance(ok)
      <3>1. CASE AddResident  BY <3>1 DEF AddResident
      <3>2. CASE AddVolName  BY <3>2 DEF AddVolName
      <3>3. CASE AddPositioned  BY <3>3 DEF AddPositioned
      <3>4. CASE AddValueInside  BY <3>4 DEF AddValueInside
      <3>5. CASE AddValueOutside  BY <3>5, ZenonT(40) DEF AddValueOutside
      <3>6. CASE AddBlockEntry  BY <3>6 DEF AddBlockEntry
      <3>7. CASE AddRootEntry  BY <3>7 DEF AddRootEntry
      <3>8. CASE BackupBootSector \/ BackupBootSectorErr
        BY <3>8, ZenonT(40) DEF BackupBootSector, BackupBootSectorErr
      <3>9. CASE Sync  BY <3>9 DEF Sync
      <3> QED  BY <1>4, <3>1, <3>2, <3>3, <3>4, <3>5, <3>6, <3>7, <3>8, <3>9
    <2>3. pc'.at \in Working \cup {"cleanup"}
      BY <2>1, <2>2, AdvanceStep
    <2> QED  BY <2>1, <2>3, WorkStep DEF At, Working
  <1>9. CASE QuotaNoMemory
    <2>1. pc' = [pc EXCEPT !.i = Len(Steps) - Len(Syncs)] /\ UNCHANGED <<count, dev>> /\ At("script")
      BY <1>9, ZenonT(40) DEF QuotaNoMemory, Doing
    <2>2. pc'.at = pc.at
      BY <2>1
    <2> QED  BY <2>1, <2>2, WorkStep DEF At, Working
  <1>5. CASE NoMemory
    <2>1. pc'.at = "cleanup" /\ UNCHANGED <<count, dev>>
      BY <1>5 DEF NoMemory, Goto
    <2>2. CASE pc.at \in Working
      BY <2>1, <2>2, WorkStep
    <2>3. CASE pc.at = "redirect"
      BY <2>1, <2>3 DEF DeviceInv, Stages, At, Working, Device
    <2> QED  BY <1>5, <2>2, <2>3 DEF NoMemory, Working
  <1>6. CASE Cleanup
    <2>1. pc'.at = "return" /\ count' = count /\ pc.at = "cleanup"
      BY <1>6 DEF Cleanup, Goto, At
    <2>2. CASE Device("bridge", FALSE, 0)
      <3>1. dev' = dev
        BY <1>6, <2>2 DEF Cleanup, Device
      <3> QED  BY <2>1, <2>2, <3>1 DEF DeviceInv, Stages, At, Working, Device
    <2>3. CASE Device("mkntfs", TRUE, 0)
      <3>1. dev' = [dev EXCEPT !.open = FALSE, !.frees = 0 + 1]
        BY <1>6, <2>3, ZenonT(40) DEF Cleanup, Device
      <3>2. 0 + 1 = 1  OBVIOUS
      <3>3. dev' = [own |-> "mkntfs", open |-> FALSE, frees |-> 1]
        BY <2>3, <3>1, <3>2, ZenonT(40) DEF Device
      <3> QED  BY <2>1, <3>3 DEF DeviceInv, Stages, At, Working, Device
    <2> QED  BY <2>1, <2>2, <2>3, ZenonT(40) DEF DeviceInv, At
  <1>7. CASE FormatReturn
    <2>1. pc'.at = "idle" /\ count' = count /\ pc.at = "return"
      BY <1>7 DEF FormatReturn, Goto, At
    <2>2. CASE Device("bridge", FALSE, 0)
      <3>1. dev' = [dev EXCEPT !.frees = 0 + 1]
        BY <1>7, <2>2, ZenonT(40) DEF FormatReturn, Unconsumed, Device
      <3>2. 0 + 1 = 1  OBVIOUS
      <3>3. dev' = [own |-> "bridge", open |-> FALSE, frees |-> 1]
        BY <2>2, <3>1, <3>2, ZenonT(40) DEF Device
      <3> QED  BY <2>1, <3>3 DEF DeviceInv, Stages, At, Working, Device
    <2>3. CASE Device("mkntfs", FALSE, 1)
      <3>1. dev' = dev
        BY <1>7, <2>3 DEF FormatReturn, Unconsumed, Device
      <3> QED  BY <2>1, <2>3, <3>1 DEF DeviceInv, Stages, At, Working, Device
    <2> QED  BY <2>1, <2>2, <2>3, ZenonT(40) DEF DeviceInv, At
  <1>8. CASE UNCHANGED vars
    BY <1>8 DEF vars, DeviceInv, Stages, At, Working, Device
  <1> QED  BY <1>1, <1>2, <1>3, <1>4, <1>5, <1>6, <1>7, <1>8, <1>9 DEF Next

\* The ntfs_device of nk_format is freed exactly once and closed by the time
\* nk_format returns, whichever call failed and whoever owned it then.
THEOREM DeviceOwnership == Spec => []DeviceFreedOnce
  <1>1. DeviceInv => DeviceFreedOnce
    BY DEF DeviceInv, DeviceFreedOnce, Stages, At, Working, Device
  <1> QED  BY <1>1, DeviceInit, DeviceNext, PTL DEF Spec
-----------------------------------------------------------------------------
(* $MFT is written last.                                                    *)

\* An entry of the script, where V are the sizes that depend on the format.
Entry(V) == [op : {"resident", "value", "positioned", "blockentry", "rootentry",
                   "volname", "backup", "sync"},
             m : Records, f : Files, nl : Int, vl : Int \cup V, lim : Int,
             ver : {"draft", "final", ""}]

\* The files that have one version only; the entries that write a file: all
\* positioned ones, and the values that no MFT record could hold; and the wide
\* entries, that may write a file or belong to an index root.
Plain == Clustered \ {"root", "bitmap", "mft", "mirr"}
Outer(e) == e.op = "value" /\ e.f \in Plain
Certain(e) == e.op = "positioned" \/ Outer(e)
Writes(e) == e.op \in {"value", "positioned"}
Wide(e) == Writes(e) \/ e.op = "rootentry"

\* An entry before the syncs.
Legal(e) ==
    /\ e.op # "sync"
    /\ Writes(e) /\ e.f \in Plain => e.ver = "final"
    /\ Writes(e) /\ e.f = "mft" => e.ver # "final"
    /\ Outer(e) => e.vl \in Nat /\ e.vl > RecordSize /\ e.lim <= RecordSize
    /\ e.op \in {"resident", "rootentry"} => e.nl \in Nat /\ e.vl \in Nat
    /\ e.op = "volname" => e.m = 3

\* A part of the script whose records of wide entries are among M and those of
\* outer values among N, each of which is the first wide entry of its record.
Part(V, s, M, N) ==
    /\ s \in Seq(Entry(V))
    /\ \A k \in 1 .. Len(s) : /\ Legal(s[k])
                              /\ Wide(s[k]) => s[k].m \in M
                              /\ Outer(s[k]) => s[k].m \in N
    /\ \A j, k \in 1 .. Len(s) : j < k /\ Wide(s[j]) /\ Outer(s[k]) => s[j].m # s[k].m

\* The files a part writes for certain, and its other effects.
Sets(s) == {s[k].f : k \in {j \in 1 .. Len(s) : Certain(s[j])}}
BacksUp(s) == \E k \in 1 .. Len(s) : s[k].op = "backup"

\* What a concatenation holds.
LEMMA Concatenated ==
  ASSUME NEW S, NEW a \in Seq(S), NEW b \in Seq(S)
  PROVE  /\ a \o b \in Seq(S) /\ Len(a \o b) = Len(a) + Len(b)
         /\ \A k \in 1 .. Len(a) + Len(b) : (a \o b)[k] = IF k <= Len(a) THEN a[k] ELSE b[k - Len(a)]
  <1>1. a \o b \in Seq(S) /\ Len(a \o b) = Len(a) + Len(b)
    OBVIOUS
  <1>2. \A k \in 1 .. Len(a) + Len(b) : (a \o b)[k] = IF k <= Len(a) THEN a[k] ELSE b[k - Len(a)]
    OBVIOUS
  <1> QED  BY <1>1, <1>2

\* ... entry by entry.
LEMMA Places ==
  ASSUME NEW S, NEW a \in Seq(S), NEW b \in Seq(S)
  PROVE  /\ \A k \in 1 .. Len(a) : k \in 1 .. Len(a \o b) /\ (a \o b)[k] = a[k]
         /\ \A k \in 1 .. Len(b) : Len(a) + k \in 1 .. Len(a \o b) /\ (a \o b)[Len(a) + k] = b[k]
         /\ \A k \in 1 .. Len(a \o b) : \/ k \in 1 .. Len(a)
                                        \/ k - Len(a) \in 1 .. Len(b) /\ (a \o b)[k] = b[k - Len(a)]
  <1>0. Len(a) \in Nat /\ Len(b) \in Nat
    OBVIOUS
  <1>1. Len(a \o b) = Len(a) + Len(b)
    BY Concatenated
  <1>2. \A k \in 1 .. Len(a) + Len(b) : (a \o b)[k] = IF k <= Len(a) THEN a[k] ELSE b[k - Len(a)]
    BY Concatenated
  <1> QED  BY <1>0, <1>1, <1>2

\* Two parts make one, when the first has no wide entry in a record of an outer
\* value of the second.
LEMMA Joined ==
  ASSUME NEW V, NEW s, NEW t, NEW M, NEW N, NEW P, NEW Q,
         Part(V, s, M, N), Part(V, t, P, Q), M \cap Q = {}
  PROVE  Part(V, s \o t, M \cup P, N \cup Q)
  <1> DEFINE u == s \o t
  <1>0. s \in Seq(Entry(V)) /\ t \in Seq(Entry(V))
    BY DEF Part
  <1>1. u \in Seq(Entry(V))
    BY <1>0, Concatenated
  <1>2. /\ \A k \in 1 .. Len(s) : k \in 1 .. Len(u) /\ u[k] = s[k]
        /\ \A k \in 1 .. Len(u) : \/ k \in 1 .. Len(s)
                                  \/ k - Len(s) \in 1 .. Len(t) /\ u[k] = t[k - Len(s)]
    BY <1>0, Places
  <1>L. Len(s) \in Nat /\ Len(t) \in Nat /\ Len(u) \in Nat
    BY <1>0, <1>1
  <1> HIDE DEF u
  <1>3. ASSUME NEW k \in 1 .. Len(u)
        PROVE  /\ Legal(u[k])
               /\ Wide(u[k]) => u[k].m \in M \cup P
               /\ Outer(u[k]) => u[k].m \in N \cup Q
    <2>1. CASE k \in 1 .. Len(s)
      BY <1>2, <2>1 DEF Part
    <2>2. CASE k - Len(s) \in 1 .. Len(t) /\ u[k] = t[k - Len(s)]
      BY <2>2 DEF Part
    <2> QED  BY <1>2, <2>1, <2>2
  <1>4. ASSUME NEW j \in 1 .. Len(u), NEW k \in 1 .. Len(u), j < k, Wide(u[j]), Outer(u[k])
        PROVE  u[j].m # u[k].m
    <2>1. CASE k \in 1 .. Len(s)
      <3>1. j \in 1 .. Len(s)
        BY <1>4, <2>1, <1>L
      <3> QED  BY <1>2, <1>4, <2>1, <3>1 DEF Part
    <2>2. CASE k - Len(s) \in 1 .. Len(t) /\ u[k] = t[k - Len(s)]
      <3>1. u[k].m \in Q
        BY <1>4, <2>2 DEF Part
      <3>2. CASE j \in 1 .. Len(s)
        <4>1. u[j].m \in M
          BY <1>2, <1>4, <3>2 DEF Part
        <4> QED  BY <3>1, <4>1
      <3>3. CASE j - Len(s) \in 1 .. Len(t) /\ u[j] = t[j - Len(s)]
        <4>1. j - Len(s) < k - Len(s)
          BY <1>4, <1>L
        <4> QED  BY <1>4, <2>2, <3>3, <4>1 DEF Part
      <3> QED  BY <1>2, <3>2, <3>3
    <2> QED  BY <1>2, <2>1, <2>2
  <1> QED  BY <1>1, <1>3, <1>4, ZenonT(40) DEF Part, u

\* ... which writes what they write and backs up if one of them does.
LEMMA JoinedEffects ==
  ASSUME NEW V, NEW s \in Seq(Entry(V)), NEW t \in Seq(Entry(V))
  PROVE  /\ Sets(s) \cup Sets(t) \subseteq Sets(s \o t)
         /\ BacksUp(s) \/ BacksUp(t) => BacksUp(s \o t)
  <1> DEFINE u == s \o t
             E == Entry(V)
  <1> HIDE DEF E
  <1>0. s \in Seq(E) /\ t \in Seq(E)
    BY ZenonT(40) DEF E
  <1>1. /\ \A k \in 1 .. Len(s) : k \in 1 .. Len(u) /\ u[k] = s[k]
        /\ \A k \in 1 .. Len(t) : Len(s) + k \in 1 .. Len(u) /\ u[Len(s) + k] = t[k]
    <2>1. \A k \in 1 .. Len(s) : k \in 1 .. Len(u) /\ u[k] = s[k]
      BY <1>0, Places
    <2>2. \A k \in 1 .. Len(t) : Len(s) + k \in 1 .. Len(u) /\ u[Len(s) + k] = t[k]
      BY <1>0, Places
    <2> QED  BY <2>1, <2>2
  <1> HIDE DEF u
  <1>2. ASSUME NEW f \in Sets(s) PROVE f \in Sets(u)
    <2>1. PICK k \in 1 .. Len(s) : Certain(s[k]) /\ f = s[k].f
      BY DEF Sets
    <2>2. k \in 1 .. Len(u) /\ u[k] = s[k]
      BY <1>1
    <2> QED  BY <2>1, <2>2 DEF Sets
  <1>3. ASSUME NEW f \in Sets(t) PROVE f \in Sets(u)
    <2>1. PICK k \in 1 .. Len(t) : Certain(t[k]) /\ f = t[k].f
      BY DEF Sets
    <2>2. Len(s) + k \in 1 .. Len(u) /\ u[Len(s) + k] = t[k]
      BY <1>1
    <2> QED  BY <2>1, <2>2 DEF Sets
  <1>4. BacksUp(s) => BacksUp(u)
    BY <1>1, ZenonT(40) DEF BacksUp
  <1>5. BacksUp(t) => BacksUp(u)
    BY <1>1, ZenonT(40) DEF BacksUp
  <1> QED  BY <1>2, <1>3, <1>4, <1>5, ZenonT(40) DEF u

\* An entry of the right types.
LEMMA OpEntry ==
  ASSUME NEW V, NEW e \in Entry(V), Legal(e), NEW M, NEW N,
         Wide(e) => e.m \in M, Outer(e) => e.m \in N
  PROVE  Part(V, <<e>>, M, N)
  <1>1. <<e>> \in Seq(Entry(V)) /\ Len(<<e>>) = 1 /\ <<e>>[1] = e
    OBVIOUS
  <1> QED  BY <1>1 DEF Part

\* Two of them, the second not an outer value.
LEMMA OpPair ==
  ASSUME NEW V, NEW d \in Entry(V), NEW e \in Entry(V), Legal(d), Legal(e), ~Outer(e), NEW M, NEW N,
         Wide(d) => d.m \in M, Outer(d) => d.m \in N, Wide(e) => e.m \in M
  PROVE  Part(V, <<d, e>>, M, N)
  <1>1. <<d, e>> \in Seq(Entry(V)) /\ Len(<<d, e>>) = 2 /\ <<d, e>>[1] = d /\ <<d, e>>[2] = e
    OBVIOUS
  <1> QED  BY <1>1 DEF Part

\* A resident attribute is narrow.
LEMMA Narrow ==
  ASSUME NEW V, NEW m \in Records, NEW nl \in Nat, NEW vl \in Nat
  PROVE  /\ Resident(m, nl, vl) \in Entry(V) /\ Legal(Resident(m, nl, vl))
         /\ ~Wide(Resident(m, nl, vl)) /\ ~Outer(Resident(m, nl, vl))
  BY DEF Resident, Op, Entry, Files, Records, Legal, Wide, Writes, Outer

\* So is an index root.
LEMMA NarrowRoot ==
  ASSUME NEW V, NEW m \in Records, NEW nl \in Nat
  PROVE  /\ IndexRoot(m, nl) \in Entry(V) /\ Legal(IndexRoot(m, nl))
         /\ ~Wide(IndexRoot(m, nl)) /\ ~Outer(IndexRoot(m, nl))
  <1>1. 48 \in Nat
    OBVIOUS
  <1> QED  BY <1>1, Narrow, ZenonT(40) DEF IndexRoot

\* An entry of an index root is in its record.
LEMMA InRoot ==
  ASSUME NEW V, NEW m \in Records, NEW vl \in Nat
  PROVE  /\ RootEntry(m, vl) \in Entry(V) /\ Legal(RootEntry(m, vl))
         /\ RootEntry(m, vl).m = m /\ ~Outer(RootEntry(m, vl))
  BY DEF RootEntry, Op, Entry, Files, Records, Legal, Wide, Writes, Outer

\* A link in the root directory writes no file.
LEMMA LinkPart ==
  ASSUME NEW V, NEW m \in Records, NEW c \in Nat
  PROVE  Part(V, Link(m, c), {}, {})
  <1> DEFINE n == NameValue(c)
             e == Op("blockentry", m, "root", 0, n, 0, "")
  <1>1. n \in Nat
    BY DEF NameValue
  <1> HIDE DEF n
  <1>2. e \in Entry(V) /\ Legal(e) /\ ~Wide(e) /\ ~Outer(e)
    BY <1>1 DEF Op, Entry, Files, Records, Legal, Wide, Writes, Outer
  <1>3. Part(V, <<Resident(m, 0, n), e>>, {}, {})
    BY <1>1, <1>2, Narrow, OpPair, ZenonT(40)
  <1> QED  BY <1>3, ZenonT(40) DEF Link, n

\* ... nor does one in $Extend.
LEMMA LinkResPart ==
  ASSUME NEW V, NEW m \in Records, NEW c \in Nat
  PROVE  Part(V, LinkRes(m, c), {11}, {})
  <1> DEFINE n == NameValue(c)
             v == Align8(n) + 16
  <1>1. n \in Nat
    BY DEF NameValue
  <1>2. v \in Nat /\ 11 \in Records
    BY <1>1 DEF Align8, CeilDiv, Records
  <1> HIDE DEF n, v
  <1>3. Part(V, <<Resident(m, 0, n), RootEntry(11, v)>>, {11}, {})
    <2>1. /\ Resident(m, 0, n) \in Entry(V) /\ Legal(Resident(m, 0, n))
          /\ ~Wide(Resident(m, 0, n)) /\ ~Outer(Resident(m, 0, n))
      BY <1>1, Narrow, 0 \in Nat, ZenonT(40)
    <2>2. /\ RootEntry(11, v) \in Entry(V) /\ Legal(RootEntry(11, v))
          /\ RootEntry(11, v).m = 11 /\ ~Outer(RootEntry(11, v))
      BY <1>2, InRoot, ZenonT(40)
    <2> QED  BY <2>1, <2>2, OpPair, ZenonT(40)
  <1> QED  BY <1>3, ZenonT(40) DEF LinkRes, RootEntry, n, v

\* A part of the script with one entry for certain.
LEMMA OneSet ==
  ASSUME NEW e, Certain(e)
  PROVE  e.f \in Sets(<<e>>)
  <1>1. Len(<<e>>) = 1 /\ <<e>>[1] = e
    OBVIOUS
  <1> QED  BY <1>1 DEF Sets

\* The entries of the root directory: its security descriptor is the first wide
\* entry of record 5.
LEMMA RootPart ==
  ASSUME NEW V
  PROVE  /\ Part(V, RootDirectory \o LargeIndex, {5}, {5})
         /\ {"rootsd"} \subseteq Sets(RootDirectory \o LargeIndex)
  <1> DEFINE a == Resident(5, 0, NameValue(1))
             b == Value(5, "rootsd", 0, 4140, RecordSize)
             c == IndexRoot(5, 4)
  <1>1. a \in Entry(V) /\ Legal(a) /\ ~Wide(a) /\ ~Outer(a)
    BY DEF Resident, NameValue, Op, Entry, Files, Records, Legal, Wide, Writes, Outer
  <1>2. b \in Entry(V) /\ Legal(b) /\ Certain(b) /\ b.m = 5 /\ b.f = "rootsd"
    BY DEF Value, Op, Entry, Files, Records, Legal, Wide, Writes, Outer, Certain, Plain, Clustered, RecordSize
  <1>3. c \in Entry(V) /\ Legal(c) /\ ~Wide(c) /\ ~Outer(c)
    BY DEF IndexRoot, Resident, Op, Entry, Files, Records, Legal, Wide, Writes, Outer
  <1> HIDE DEF a, b, c
  <1>4. RootDirectory = <<a, b, c>>
    BY DEF RootDirectory, a, b, c
  <1>5. /\ <<a, b, c>> \in Seq(Entry(V)) /\ Len(<<a, b, c>>) = 3
        /\ <<a, b, c>>[1] = a /\ <<a, b, c>>[2] = b /\ <<a, b, c>>[3] = c
    BY <1>1, <1>2, <1>3
  <1>6. Part(V, RootDirectory, {5}, {5})
    BY <1>1, <1>2, <1>3, <1>4, <1>5 DEF Part
  <1>7. "rootsd" \in Sets(RootDirectory)
    BY <1>2, <1>4, <1>5 DEF Sets
  <1> DEFINE d == Value(5, "rootbmp", 4, 8, RecordSize)
             e == RootEntry(5, 8)
             f == Scattered(5, "root", 4, 4096, "draft")
             h == Op("blockentry", 5, "root", 0, NameValue(1), 0, "")
  <1>8. d \in Entry(V) /\ Legal(d) /\ ~Outer(d) /\ d.m = 5
    BY DEF Value, Op, Entry, Files, Records, Legal, Wide, Writes, Outer, Plain, Clustered, RecordSize
  <1>9. e \in Entry(V) /\ Legal(e) /\ ~Outer(e) /\ e.m = 5
    BY DEF RootEntry, Op, Entry, Files, Records, Legal, Wide, Writes, Outer
  <1>10. f \in Entry(V) /\ Legal(f) /\ ~Outer(f) /\ f.m = 5
    BY DEF Scattered, Op, Entry, Files, Records, Legal, Wide, Writes, Outer, Plain, Clustered
  <1>11. h \in Entry(V) /\ Legal(h) /\ ~Outer(h) /\ h.m = 5
    BY DEF NameValue, Op, Entry, Files, Records, Legal, Wide, Writes, Outer
  <1> HIDE DEF d, e, f, h
  <1>12. LargeIndex = <<d, e, f, h>>
    BY DEF LargeIndex, d, e, f, h
  <1>13. /\ <<d, e, f, h>> \in Seq(Entry(V)) /\ Len(<<d, e, f, h>>) = 4
         /\ <<d, e, f, h>>[1] = d /\ <<d, e, f, h>>[2] = e
         /\ <<d, e, f, h>>[3] = f /\ <<d, e, f, h>>[4] = h
    BY <1>8, <1>9, <1>10, <1>11
  <1>14. Part(V, LargeIndex, {5}, {})
    BY <1>8, <1>9, <1>10, <1>11, <1>12, <1>13 DEF Part
  <1>15. Part(V, RootDirectory \o LargeIndex, {5} \cup {5}, {5} \cup {})
    BY <1>6, <1>14, Joined
  <1>16. "rootsd" \in Sets(RootDirectory \o LargeIndex)
    BY <1>6, <1>7, <1>14, JoinedEffects DEF Part
  <1> QED  BY <1>15, <1>16

\* $MFT, its bitmap, $MFTMirr and $LogFile are positioned.
LEMMA MftPart ==
  ASSUME NEW V
  PROVE  /\ Part(V, MftFiles, 0 .. 2, {})
         /\ {"mftbmp", "log"} \subseteq Sets(MftFiles)
  <1> DEFINE a == Positioned(0, "mft", 0, "draft")
             b == Positioned(0, "mftbmp", 0, "final")
             c == Positioned(1, "mirr", 0, "draft")
             d == Positioned(2, "log", 0, "final")
             K == 0 .. 2
  <1>1. /\ a \in Entry(V) /\ Legal(a) /\ ~Outer(a) /\ a.m \in K
        /\ c \in Entry(V) /\ Legal(c) /\ ~Outer(c) /\ c.m \in K
    BY DEF Positioned, Op, Entry, Files, Records, Legal, Wide, Writes, Outer, Plain, Clustered
  <1>2. /\ b \in Entry(V) /\ Legal(b) /\ ~Outer(b) /\ b.m \in K /\ Certain(b) /\ b.f = "mftbmp"
        /\ d \in Entry(V) /\ Legal(d) /\ ~Outer(d) /\ d.m \in K /\ Certain(d) /\ d.f = "log"
    BY DEF Positioned, Op, Entry, Files, Records, Legal, Wide, Writes, Outer, Certain, Plain, Clustered
  <1> HIDE DEF a, b, c, d, K
  <1>3. Part(V, <<a>>, K, {}) /\ Part(V, <<b, c>>, K, {}) /\ Part(V, <<d>>, K, {})
    BY <1>1, <1>2, OpEntry, OpPair
  <1>4. Part(V, Link(0, 4), {}, {}) /\ Part(V, Link(1, 8), {}, {}) /\ Part(V, Link(2, 8), {}, {})
    BY LinkPart DEF Records
  <1>5. "mftbmp" \in Sets(<<b, c>>) /\ "log" \in Sets(<<d>>)
    <2>1. Len(<<b, c>>) = 2 /\ <<b, c>>[1] = b
      OBVIOUS
    <2>2. "mftbmp" \in Sets(<<b, c>>)
      BY <1>2, <2>1 DEF Sets
    <2> QED  BY <1>2, <2>2, OneSet
  <1> DEFINE s1 == <<a>> \o Link(0, 4)
             s2 == s1 \o <<b, c>>
             s3 == s2 \o Link(1, 8)
             s4 == s3 \o <<d>>
             s5 == s4 \o Link(2, 8)
  <1>6. Part(V, s1, K, {})
    BY <1>3, <1>4, Joined, K \cup {} = K, {} \cup {} = {}
  <1> HIDE DEF s1
  <1>7. Part(V, s2, K, {}) /\ "mftbmp" \in Sets(s2)
    <2>1. Part(V, s2, K, {})
      BY <1>3, <1>6, Joined, K \cup K = K, {} \cup {} = {}
    <2> QED  BY <1>3, <1>5, <1>6, <2>1, JoinedEffects, ZenonT(40) DEF Part
  <1> HIDE DEF s2
  <1>8. Part(V, s3, K, {}) /\ "mftbmp" \in Sets(s3)
    <2>1. Part(V, s3, K, {})
      BY <1>4, <1>7, Joined, K \cup {} = K, {} \cup {} = {}
    <2> QED  BY <1>4, <1>7, <2>1, JoinedEffects DEF Part
  <1> HIDE DEF s3
  <1>9. Part(V, s4, K, {}) /\ {"mftbmp", "log"} \subseteq Sets(s4)
    <2>1. Part(V, s4, K, {})
      BY <1>3, <1>8, Joined, K \cup K = K, {} \cup {} = {}
    <2> QED  BY <1>3, <1>5, <1>8, <2>1, JoinedEffects, ZenonT(40) DEF Part
  <1> HIDE DEF s4
  <1>10. Part(V, s5, K, {}) /\ {"mftbmp", "log"} \subseteq Sets(s5)
    <2>1. Part(V, s5, K, {})
      BY <1>4, <1>9, Joined, K \cup {} = K, {} \cup {} = {}
    <2> QED  BY <1>4, <1>9, <2>1, JoinedEffects DEF Part
  <1>11. MftFiles = s5
    BY DEF MftFiles, s1, s2, s3, s4, a, b, c, d
  <1> QED  BY <1>10, <1>11 DEF K

\* Joined and JoinedEffects at once, with larger sets of records.
LEMMA Chained ==
  ASSUME NEW V, NEW s, NEW t, NEW M, NEW N, NEW P, NEW Q, NEW K, NEW L,
         Part(V, s, M, N), Part(V, t, P, Q), M \cap Q = {}, M \cup P \subseteq K, N \cup Q \subseteq L
  PROVE  /\ Part(V, s \o t, K, L)
         /\ Sets(s) \cup Sets(t) \subseteq Sets(s \o t)
         /\ BacksUp(s) \/ BacksUp(t) => BacksUp(s \o t)
  <1>1. Part(V, s \o t, M \cup P, N \cup Q)
    BY Joined
  <1>2. Part(V, s \o t, K, L)
    BY <1>1, ZenonT(40) DEF Part
  <1> QED  BY <1>2, JoinedEffects, ZenonT(40) DEF Part

\* A part without outer values can follow any other.
LEMMA Added ==
  ASSUME NEW V, NEW s, NEW t, NEW K, NEW L, NEW P, Part(V, s, K, L), Part(V, t, P, {}), P \subseteq K
  PROVE  /\ Part(V, s \o t, K, L)
         /\ Sets(s) \cup Sets(t) \subseteq Sets(s \o t)
         /\ BacksUp(s) \/ BacksUp(t) => BacksUp(s \o t)
  <1>1. Part(V, s \o t, K \cup P, L \cup {})
    <2>1. K \cap {} = {}
      OBVIOUS
    <2> QED  BY <2>1, Joined, ZenonT(40)
  <1>2. K \cup P = K /\ L \cup {} = L
    OBVIOUS
  <1>3. Part(V, s \o t, K, L)
    BY <1>1, <1>2, ZenonT(40)
  <1> QED  BY <1>3, JoinedEffects DEF Part

\* An empty value, and a security descriptor that a record can hold.
LEMMA NoData ==
  ASSUME NEW V, NEW m \in Records
  PROVE  /\ Data(m, "empty", 0, 0) \in Entry(V) /\ Legal(Data(m, "empty", 0, 0))
         /\ ~Outer(Data(m, "empty", 0, 0)) /\ Data(m, "empty", 0, 0).m = m
  BY DEF Data, Value, Op, Entry, Files, Records, Legal, Wide, Writes, Outer, Plain, Clustered,
         DataLimit, RecordSize

\* ... of 100 bytes.
LEMMA SmallSd ==
  ASSUME NEW V, NEW m \in Records
  PROVE  SystemSd(m) \in Entry(V) /\ Legal(SystemSd(m)) /\ ~Outer(SystemSd(m)) /\ SystemSd(m).m = m
  BY DEF SystemSd, Value, Op, Entry, Files, Records, Legal, Wide, Writes, Outer, Plain, Clustered, RecordSize

\* $AttrDef's data is the first wide entry of record 4.
LEMMA AttrDefPart ==
  ASSUME NEW V, NEW n \in V
  PROVE  /\ Part(V, AttrDefAndBitmap(n), {4, 6}, {4})
         /\ {"attrdef"} \subseteq Sets(AttrDefAndBitmap(n))
  <1> DEFINE a == Data(4, "attrdef", 0, 2560)
             b == SystemSd(4)
             c == Scattered(6, "bitmap", 0, n, "draft")
             K == {4, 6}
             L == {4}
  <1>1. a \in Entry(V) /\ Legal(a) /\ a.m = 4 /\ Certain(a) /\ a.f = "attrdef"
    BY DEF Data, Value, Op, Entry, Files, Records, Legal, Wide, Writes, Outer, Certain, Plain, Clustered,
           DataLimit, RecordSize
  <1>2. b \in Entry(V) /\ Legal(b) /\ ~Outer(b) /\ b.m = 4
    BY SmallSd, 4 \in Records DEF Records
  <1>3. c \in Entry(V) /\ Legal(c) /\ ~Outer(c) /\ c.m = 6
    BY DEF Scattered, Op, Entry, Files, Records, Legal, Wide, Writes, Outer, Plain, Clustered
  <1> HIDE DEF a, b, c
  <1>4. Part(V, <<a>>, K, L) /\ "attrdef" \in Sets(<<a>>)
    BY <1>1, OpEntry, OneSet
  <1>5. Part(V, <<b, c>>, K, {})
    BY <1>2, <1>3, OpPair
  <1>6. Part(V, Link(4, 8), {}, {}) /\ Part(V, Link(6, 7), {}, {})
    BY LinkPart DEF Records
  <1> HIDE DEF K, L
  <1> DEFINE s1 == <<a>> \o Link(4, 8)
             s2 == s1 \o <<b, c>>
             s3 == s2 \o Link(6, 7)
  <1>7. Part(V, s1, K, L) /\ "attrdef" \in Sets(s1)
    BY <1>4, <1>6, Chained
  <1> HIDE DEF s1
  <1>8. Part(V, s2, K, L) /\ "attrdef" \in Sets(s2)
    <2>1. Part(V, s2, K, L)
      BY <1>5, <1>7, Joined, K \cup K = K, L \cup {} = L
    <2> QED  BY <1>5, <1>7, <2>1, JoinedEffects, ZenonT(40) DEF Part
  <1> HIDE DEF s2
  <1>9. Part(V, s3, K, L) /\ "attrdef" \in Sets(s3)
    <2>1. Part(V, s3, K, L)
      BY <1>6, <1>8, Joined, K \cup {} = K, L \cup {} = L
    <2> QED  BY <1>6, <1>8, <2>1, JoinedEffects DEF Part
  <1>10. AttrDefAndBitmap(n) = s3
    BY DEF AttrDefAndBitmap, s1, s2, a, b, c
  <1> QED  BY <1>9, <1>10 DEF K, L

\* $Boot is positioned and followed by the backup boot sector.
LEMMA BootPart ==
  ASSUME NEW V
  PROVE  /\ Part(V, BootFile, {7}, {})
         /\ {"boot"} \subseteq Sets(BootFile) /\ BacksUp(BootFile)
  <1> DEFINE a == Positioned(7, "boot", 0, "final")
             b == SystemSd(7)
             c == Op("backup", 7, "boot", 0, 0, 0, "")
             K == {7}
  <1>1. a \in Entry(V) /\ Legal(a) /\ ~Outer(a) /\ a.m = 7 /\ Certain(a) /\ a.f = "boot"
    BY DEF Positioned, Op, Entry, Files, Records, Legal, Wide, Writes, Outer, Certain, Plain, Clustered
  <1>2. b \in Entry(V) /\ Legal(b) /\ ~Outer(b) /\ b.m = 7
    BY SmallSd, 7 \in Records DEF Records
  <1>3. c \in Entry(V) /\ Legal(c) /\ ~Outer(c) /\ ~Wide(c) /\ c.op = "backup"
    BY DEF Op, Entry, Files, Records, Legal, Wide, Writes, Outer
  <1> HIDE DEF a, b, c
  <1>4. Part(V, <<a>>, K, {}) /\ "boot" \in Sets(<<a>>)
    BY <1>1, OpEntry, OneSet
  <1>5. Part(V, <<b, c>>, K, {})
    BY <1>2, <1>3, OpPair
  <1>6. BacksUp(<<b, c>>)
    <2>1. Len(<<b, c>>) = 2 /\ <<b, c>>[2] = c
      OBVIOUS
    <2> QED  BY <1>3, <2>1 DEF BacksUp
  <1>7. Part(V, Link(7, 5), {}, {})
    BY LinkPart DEF Records
  <1> HIDE DEF K
  <1> DEFINE s1 == <<a>> \o Link(7, 5)
             s2 == s1 \o <<b, c>>
  <1>8. Part(V, s1, K, {}) /\ "boot" \in Sets(s1)
    BY <1>4, <1>7, Chained
  <1> HIDE DEF s1
  <1>9. Part(V, s2, K, {}) /\ "boot" \in Sets(s2) /\ BacksUp(s2)
    <2>1. Part(V, s2, K, {})
      BY <1>5, <1>6, <1>8, Joined, K \cup K = K, {} \cup {} = {}
    <2> QED  BY <1>5, <1>6, <1>8, <2>1, JoinedEffects, ZenonT(40) DEF Part
  <1>10. BootFile = s2
    BY DEF BootFile, s1, a, b, c
  <1> QED  BY <1>9, <1>10 DEF K

\* $Volume's entries are small; the label's is in record 3.
LEMMA VolumePart ==
  ASSUME NEW V, NEW label, 2 * label \in V
  PROVE  Part(V, VolumeFile(label), {3}, {})
  <1> DEFINE a == SystemSd(3)
             b == Data(3, "empty", 0, 0)
             c == Op("volname", 3, "empty", 0, 2 * label, 0, "")
             d == Resident(3, 0, 12)
             t == <<a, b, c, d>>
  <1>1. /\ a \in Entry(V) /\ Legal(a) /\ ~Outer(a) /\ a.m = 3
        /\ b \in Entry(V) /\ Legal(b) /\ ~Outer(b) /\ b.m = 3
    BY NoData, SmallSd, 3 \in Records DEF Records
  <1>2. c \in Entry(V) /\ Legal(c) /\ ~Outer(c) /\ ~Wide(c)
    BY DEF Op, Entry, Files, Records, Legal, Wide, Writes, Outer
  <1>3. d \in Entry(V) /\ Legal(d) /\ ~Outer(d) /\ ~Wide(d)
    <2>1. 3 \in Records /\ 0 \in Nat /\ 12 \in Nat
      BY DEF Records
    <2> QED  BY <2>1, Narrow, ZenonT(40)
  <1> HIDE DEF a, b, c, d
  <1>4. t \in Seq(Entry(V)) /\ Len(t) = 4 /\ t[1] = a /\ t[2] = b /\ t[3] = c /\ t[4] = d
    BY <1>1, <1>2, <1>3
  <1> HIDE DEF t
  <1>5. Part(V, t, {3}, {})
    BY <1>1, <1>2, <1>3, <1>4 DEF Part
  <1>6. Part(V, Link(3, 7), {}, {})
    BY LinkPart DEF Records
  <1>7. Part(V, Link(3, 7) \o t, {3}, {})
    BY <1>5, <1>6, Chained
  <1> QED  BY <1>7, ZenonT(40) DEF VolumeFile, t, a, b, c, d

\* $SDS is the first wide entry of record 9.
LEMMA SecurePart ==
  ASSUME NEW V
  PROVE  /\ Part(V, SecureFile, {8, 9}, {9})
         /\ {"sds"} \subseteq Sets(SecureFile)
  <1> DEFINE a == Positioned(8, "bad", 4, "final")
             b == Data(8, "empty", 0, 0)
             c == Data(9, "sds", 4, 262396)
             d == IndexRoot(9, 4)
             t == <<c, d, d>>
             K == {8, 9}
             L == {9}
  <1>1. a \in Entry(V) /\ Legal(a) /\ ~Outer(a) /\ a.m = 8
    BY DEF Positioned, Op, Entry, Files, Records, Legal, Wide, Writes, Outer, Plain, Clustered
  <1>2. b \in Entry(V) /\ Legal(b) /\ ~Outer(b) /\ b.m = 8
    BY NoData, 8 \in Records DEF Records
  <1>3. c \in Entry(V) /\ Legal(c) /\ c.m = 9 /\ Certain(c) /\ c.f = "sds"
    BY DEF Data, Value, Op, Entry, Files, Records, Legal, Wide, Writes, Outer, Certain, Plain, Clustered,
           DataLimit, RecordSize
  <1>4. d \in Entry(V) /\ Legal(d) /\ ~Outer(d) /\ ~Wide(d)
    <2>1. 9 \in Records /\ 4 \in Nat
      BY DEF Records
    <2> QED  BY <2>1, NarrowRoot, ZenonT(40)
  <1> HIDE DEF a, b, c, d
  <1>5. Part(V, <<a, b>>, {8}, {})
    BY <1>1, <1>2, OpPair
  <1>6. t \in Seq(Entry(V)) /\ Len(t) = 3 /\ t[1] = c /\ t[2] = d /\ t[3] = d
    BY <1>3, <1>4
  <1> HIDE DEF t
  <1>7. Part(V, t, L, L) /\ "sds" \in Sets(t)
    BY <1>3, <1>4, <1>6 DEF Part, Sets
  <1>8. Part(V, Link(8, 8), {}, {}) /\ Part(V, Link(9, 7), {}, {})
    BY LinkPart DEF Records
  <1> DEFINE s1 == <<a, b>> \o Link(8, 8)
             s2 == s1 \o Link(9, 7)
             s3 == s2 \o t
  <1>9. Part(V, s1, {8}, {})
    BY <1>5, <1>8, Chained
  <1> HIDE DEF s1
  <1>10. Part(V, s2, {8}, {})
    BY <1>8, <1>9, Chained
  <1> HIDE DEF s2
  <1>11. Part(V, s3, K, L) /\ "sds" \in Sets(s3)
    <2>1. Part(V, s3, K, L)
      BY <1>7, <1>10, Joined, {8} \cup L = K, {} \cup L = L, {8} \cap L = {}
    <2> QED  BY <1>7, <1>10, <2>1, JoinedEffects, ZenonT(40) DEF Part
  <1>12. SecureFile = s3
    BY DEF SecureFile, s1, s2, t, a, b, c, d
  <1> QED  BY <1>11, <1>12

\* $UpCase's data is the first wide entry of record 10.
LEMMA UpCasePart ==
  ASSUME NEW V
  PROVE  /\ Part(V, UpCaseAndExtend, {10}, {10})
         /\ {"upcase"} \subseteq Sets(UpCaseAndExtend)
  <1> DEFINE a == Data(10, "upcase", 0, 131072)
             b == Data(10, "info", 5, 32)
             c == IndexRoot(11, 4)
             K == {10}
  <1>1. a \in Entry(V) /\ Legal(a) /\ a.m = 10 /\ Certain(a) /\ a.f = "upcase"
    BY DEF Data, Value, Op, Entry, Files, Records, Legal, Wide, Writes, Outer, Certain, Plain, Clustered,
           DataLimit, RecordSize
  <1>2. b \in Entry(V) /\ Legal(b) /\ ~Outer(b) /\ b.m = 10
    BY DEF Data, Value, Op, Entry, Files, Records, Legal, Wide, Writes, Outer, Plain, Clustered,
           DataLimit, RecordSize
  <1>3. c \in Entry(V) /\ Legal(c) /\ ~Outer(c) /\ ~Wide(c)
    <2>1. 11 \in Records /\ 4 \in Nat
      BY DEF Records
    <2> QED  BY <2>1, NarrowRoot, ZenonT(40)
  <1> HIDE DEF a, b, c
  <1>4. Part(V, <<a, b>>, K, K) /\ Part(V, <<c>>, {}, {})
    BY <1>1, <1>2, <1>3, OpPair, OpEntry
  <1>5. "upcase" \in Sets(<<a, b>>)
    <2>1. Len(<<a, b>>) = 2 /\ <<a, b>>[1] = a
      OBVIOUS
    <2> QED  BY <1>1, <2>1 DEF Sets
  <1>6. Part(V, Link(10, 7), {}, {}) /\ Part(V, Link(11, 7), {}, {})
    BY LinkPart DEF Records
  <1> HIDE DEF K
  <1> DEFINE s1 == <<a, b>> \o Link(10, 7)
             s2 == s1 \o Link(11, 7)
             s3 == s2 \o <<c>>
  <1>7. Part(V, s1, K, K) /\ "upcase" \in Sets(s1)
    <2>1. Part(V, s1, K, K)
      BY <1>4, <1>5, <1>6, Joined, K \cup {} = K, K \cap {} = {}
    <2> QED  BY <1>4, <1>5, <1>6, <2>1, JoinedEffects, ZenonT(40) DEF Part
  <1> HIDE DEF s1
  <1>8. Part(V, s2, K, K) /\ "upcase" \in Sets(s2)
    BY <1>6, <1>7, Chained
  <1> HIDE DEF s2
  <1>9. Part(V, s3, K, K) /\ "upcase" \in Sets(s3)
    BY <1>4, <1>8, Chained
  <1>10. UpCaseAndExtend = s3
    BY DEF UpCaseAndExtend, s1, s2, a, b, c
  <1> QED  BY <1>9, <1>10 DEF K

\* All records but $Quota's.
NoQuota == Records \ {24}

\* The records kept for later have no clusters.
LEMMA ReservedPart ==
  ASSUME NEW V
  PROVE  Part(V, Reserved, NoQuota, {})
  <1>1. ASSUME NEW m \in NoQuota PROVE Part(V, Spare(m), NoQuota, {})
    <2>1. m \in Records
      BY DEF NoQuota
    <2> QED  BY <2>1, NoData, SmallSd, OpPair DEF Spare
  <1>2. 12 \in NoQuota /\ 13 \in NoQuota /\ 14 \in NoQuota /\ 15 \in NoQuota
    BY DEF NoQuota, Records
  <1>3. Part(V, Spare(12) \o Spare(13), NoQuota, {})
    BY <1>1, <1>2, Chained
  <1>4. Part(V, Spare(12) \o Spare(13) \o Spare(14), NoQuota, {})
    BY <1>1, <1>2, <1>3, Chained
  <1>5. Part(V, Spare(12) \o Spare(13) \o Spare(14) \o Spare(15), NoQuota, {})
    BY <1>1, <1>2, <1>4, Chained
  <1> QED  BY <1>5 DEF Reserved

\* Four entries of a resident index, one after the other.
LEMMA SecureEntriesPart ==
  ASSUME NEW V
  PROVE  Part(V, SecureEntries, {9}, {})
  <1> DEFINE a == RootEntry(9, 48)
             b == RootEntry(9, 40)
             t == <<a, b, a, b>>
  <1>1. /\ a \in Entry(V) /\ Legal(a) /\ a.m = 9 /\ ~Outer(a)
        /\ b \in Entry(V) /\ Legal(b) /\ b.m = 9 /\ ~Outer(b)
    BY DEF RootEntry, Op, Entry, Files, Records, Legal, Wide, Writes, Outer
  <1> HIDE DEF a, b
  <1>2. t \in Seq(Entry(V)) /\ Len(t) = 4 /\ t[1] = a /\ t[2] = b /\ t[3] = a /\ t[4] = b
    BY <1>1
  <1> HIDE DEF t
  <1>3. Part(V, t, {9}, {})
    BY <1>1, <1>2 DEF Part
  <1> QED  BY <1>3 DEF SecureEntries, t, a, b

\* The files of $Extend are resident.
LEMMA ExtendPart ==
  ASSUME NEW V
  PROVE  Part(V, ExtendFiles, {11, 24}, {})
  <1> DEFINE a == IndexRoot(24, 2)
             b == RootEntry(24, 72)
             c == RootEntry(24, 88)
             d == RootEntry(24, 40)
             e == IndexRoot(25, 2)
             f == IndexRoot(26, 2)
             K == {11, 24}
  <1>1. /\ a \in Entry(V) /\ Legal(a) /\ ~Wide(a) /\ ~Outer(a)
        /\ e \in Entry(V) /\ Legal(e) /\ ~Wide(e) /\ ~Outer(e)
        /\ f \in Entry(V) /\ Legal(f) /\ ~Wide(f) /\ ~Outer(f)
    <2>1. 24 \in Records /\ 25 \in Records /\ 26 \in Records /\ 2 \in Nat
      BY DEF Records
    <2> QED  BY <2>1, NarrowRoot, ZenonT(40)
  <1>2. /\ b \in Entry(V) /\ Legal(b) /\ b.m \in K /\ ~Outer(b)
        /\ c \in Entry(V) /\ Legal(c) /\ c.m \in K /\ ~Outer(c)
        /\ d \in Entry(V) /\ Legal(d) /\ d.m \in K /\ ~Outer(d)
    <2>1. 24 \in K
      OBVIOUS
    <2> HIDE DEF K
    <2>2. b \in Entry(V) /\ Legal(b) /\ b.m = 24 /\ ~Outer(b)
      BY DEF RootEntry, Op, Entry, Files, Records, Legal, Wide, Writes, Outer
    <2>3. c \in Entry(V) /\ Legal(c) /\ c.m = 24 /\ ~Outer(c)
      BY DEF RootEntry, Op, Entry, Files, Records, Legal, Wide, Writes, Outer
    <2>4. d \in Entry(V) /\ Legal(d) /\ d.m = 24 /\ ~Outer(d)
      BY DEF RootEntry, Op, Entry, Files, Records, Legal, Wide, Writes, Outer
    <2> HIDE DEF b, c, d
    <2> QED  BY <2>1, <2>2, <2>3, <2>4, ZenonT(40)
  <1> HIDE DEF a, b, c, d, e, f
  <1>3. Part(V, <<a, a>>, K, {}) /\ Part(V, <<e>>, K, {}) /\ Part(V, <<f>>, K, {})
    BY <1>1, OpPair, OpEntry
  <1>4. /\ <<b, c, d>> \in Seq(Entry(V)) /\ Len(<<b, c, d>>) = 3
        /\ <<b, c, d>>[1] = b /\ <<b, c, d>>[2] = c /\ <<b, c, d>>[3] = d
    BY <1>2
  <1>5. Part(V, <<b, c, d>>, K, {})
    BY <1>2, <1>4 DEF Part
  <1>6. /\ Part(V, LinkRes(24, 6), {11}, {}) /\ Part(V, LinkRes(25, 6), {11}, {})
        /\ Part(V, LinkRes(26, 8), {11}, {})
    BY LinkResPart DEF Records
  <1>K. {11} \subseteq K /\ K \subseteq K
    OBVIOUS
  <1> HIDE DEF K
  <1> DEFINE s0 == LinkRes(24, 6)
             s1 == s0 \o <<a, a>>
             s2 == s1 \o <<b, c, d>>
             s3 == s2 \o LinkRes(25, 6)
             s4 == s3 \o <<e>>
             s5 == s4 \o LinkRes(26, 8)
             s6 == s5 \o <<f>>
  <1>14. Part(V, s0, K, {})
    BY <1>6, <1>K, ZenonT(40) DEF Part
  <1> HIDE DEF s0
  <1>7. Part(V, s1, K, {})  BY <1>3, <1>14, <1>K, Added, ZenonT(40)
  <1> HIDE DEF s1
  <1>8. Part(V, s2, K, {})  BY <1>5, <1>7, <1>K, Added, ZenonT(40)
  <1> HIDE DEF s2
  <1>9. Part(V, s3, K, {})  BY <1>6, <1>8, <1>K, Added, ZenonT(40)
  <1> HIDE DEF s3
  <1>10. Part(V, s4, K, {})  BY <1>3, <1>9, <1>K, Added, ZenonT(40)
  <1> HIDE DEF s4
  <1>11. Part(V, s5, K, {})  BY <1>6, <1>10, <1>K, Added, ZenonT(40)
  <1> HIDE DEF s5
  <1>12. Part(V, s6, K, {})  BY <1>3, <1>11, <1>K, Added, ZenonT(40)
  <1>13. ExtendFiles = s6
    BY DEF ExtendFiles, QuotaEntries, s0, s1, s2, s3, s4, s5, a, b, c, d, e, f
  <1> QED  BY <1>12, <1>13 DEF K

\* The script before the files of $Extend, and before the syncs.
Front(nr, label) ==
    RootDirectory \o LargeIndex \o MftFiles \o AttrDefAndBitmap(BitmapBytes(nr)) \o BootFile \o
    VolumeFile(label) \o SecureFile \o SecureEntries \o UpCaseAndExtend \o Reserved
Opening(nr, label) == Front(nr, label) \o ExtendFiles

\* The sizes that depend on the volume and the label.
Sizes(nr, label) == {BitmapBytes(nr), 2 * label}

\* The records of the outer values.
OuterRecords == {4, 5, 9, 10}

\* The front is a part without an entry of $Quota, and it writes every plain
\* file and the backup boot sector.
LEMMA FrontPart ==
  ASSUME NEW nr, NEW label
  PROVE  /\ Part(Sizes(nr, label), Front(nr, label), NoQuota, OuterRecords)
         /\ Plain \subseteq Sets(Front(nr, label)) /\ BacksUp(Front(nr, label))
  <1> DEFINE V == Sizes(nr, label)
             n == BitmapBytes(nr)
             K1 == NoQuota \ {4, 9, 10}
             K2 == NoQuota \ {9, 10}
             K3 == NoQuota \ {10}
             R == OuterRecords
  <1>1. n \in V /\ 2 * label \in V
    BY DEF Sizes
  <1> HIDE DEF V, n
  <1>2. /\ {5} \cup (0 .. 2) \subseteq K1 /\ K1 \cap {4} = {} /\ K1 \cup {4, 6} \subseteq K2
        /\ {7} \subseteq K2 /\ {3} \subseteq K2
        /\ K2 \cap {9} = {} /\ K2 \cup {8, 9} \subseteq K3 /\ {9} \subseteq K3
        /\ K3 \cap {10} = {} /\ K3 \cup {10} \subseteq NoQuota /\ NoQuota \subseteq NoQuota
    BY DEF NoQuota, Records
  <1>3. /\ {5} \cup {} \subseteq R /\ R \cup {4} \subseteq R /\ R \cup {} \subseteq R
        /\ R \cup {9} \subseteq R /\ R \cup {10} \subseteq R
    BY DEF OuterRecords
  <1> HIDE DEF K1, K2, K3, R
  <1> DEFINE s0 == RootDirectory \o LargeIndex
             s1 == s0 \o MftFiles
             s2 == s1 \o AttrDefAndBitmap(n)
             s3 == s2 \o BootFile
             s4 == s3 \o VolumeFile(label)
             s5 == s4 \o SecureFile
             s6 == s5 \o SecureEntries
             s7 == s6 \o UpCaseAndExtend
             s8 == s7 \o Reserved
  <1>4. Part(V, s0, {5}, {5}) /\ {"rootsd"} \subseteq Sets(s0)
    BY RootPart
  <1> HIDE DEF s0
  <1>5. Part(V, s1, K1, R) /\ {"rootsd", "mftbmp", "log"} \subseteq Sets(s1)
    <2>1. {5} \cap {} = {}  OBVIOUS
    <2>2. Part(V, MftFiles, 0 .. 2, {}) /\ {"mftbmp", "log"} \subseteq Sets(MftFiles)
      BY MftPart
    <2>3. Part(V, s1, K1, R) /\ Sets(s0) \cup Sets(MftFiles) \subseteq Sets(s1)
      BY <1>2, <1>3, <1>4, <2>1, <2>2, Chained
    <2> QED  BY <1>4, <2>2, <2>3
  <1> HIDE DEF s1
  <1>6. Part(V, s2, K2, R) /\ {"rootsd", "mftbmp", "log", "attrdef"} \subseteq Sets(s2)
    <2>1. Part(V, AttrDefAndBitmap(n), {4, 6}, {4}) /\ {"attrdef"} \subseteq Sets(AttrDefAndBitmap(n))
      BY <1>1, AttrDefPart
    <2>2. Part(V, s2, K2, R) /\ Sets(s1) \cup Sets(AttrDefAndBitmap(n)) \subseteq Sets(s2)
      <3> DEFINE P == {4, 6}
                 Q == {4}
      <3>1. K1 \cap Q = {} /\ K1 \cup P \subseteq K2 /\ R \cup Q \subseteq R /\ Part(V, AttrDefAndBitmap(n), P, Q)
        BY <1>2, <1>3, <2>1
      <3> HIDE DEF P, Q
      <3> QED  BY <1>5, <3>1, Chained
    <2> QED  BY <1>5, <2>1, <2>2
  <1> HIDE DEF s2
  <1>7. /\ Part(V, s3, K2, R) /\ {"rootsd", "mftbmp", "log", "attrdef", "boot"} \subseteq Sets(s3)
        /\ BacksUp(s3)
    <2>1. Part(V, BootFile, {7}, {}) /\ {"boot"} \subseteq Sets(BootFile) /\ BacksUp(BootFile)
      BY BootPart
    <2>2. /\ Part(V, s3, K2, R) /\ Sets(s2) \cup Sets(BootFile) \subseteq Sets(s3)
          /\ BacksUp(s3)
      <3> DEFINE P == {7}
      <3>1. P \subseteq K2 /\ Part(V, BootFile, P, {})
        BY <1>2, <2>1
      <3> HIDE DEF P
      <3> QED  BY <1>6, <2>1, <3>1, Added, ZenonT(40)
    <2> QED  BY <1>6, <2>1, <2>2
  <1> HIDE DEF s3
  <1>8. Part(V, s4, K2, R) /\ Sets(s3) \subseteq Sets(s4) /\ BacksUp(s4)
    <2>1. Part(V, VolumeFile(label), {3}, {})
      BY <1>1, VolumePart
    <2> DEFINE P == {3}
    <2>2. P \subseteq K2 /\ Part(V, VolumeFile(label), P, {})
      BY <1>2, <2>1
    <2> HIDE DEF P
    <2> QED  BY <1>7, <2>2, Added, ZenonT(40)
  <1> HIDE DEF s4
  <1>9. Part(V, s5, K3, R) /\ Sets(s4) \cup {"sds"} \subseteq Sets(s5) /\ BacksUp(s5)
    <2>1. Part(V, SecureFile, {8, 9}, {9}) /\ {"sds"} \subseteq Sets(SecureFile)
      BY SecurePart
    <2>2. Part(V, s5, K3, R) /\ Sets(s4) \cup Sets(SecureFile) \subseteq Sets(s5) /\ BacksUp(s5)
      <3> DEFINE P == {8, 9}
                 Q == {9}
      <3>1. K2 \cap Q = {} /\ K2 \cup P \subseteq K3 /\ R \cup Q \subseteq R /\ Part(V, SecureFile, P, Q)
        BY <1>2, <1>3, <2>1
      <3> HIDE DEF P, Q
      <3>0. Part(V, s4, K2, R)  BY <1>8
      <3>2. Part(V, s4 \o SecureFile, K3, R)
        BY <3>0, <3>1, Chained, ZenonT(40)
      <3>3. s4 \in Seq(Entry(V)) /\ SecureFile \in Seq(Entry(V))
        BY <3>0, <3>1, ZenonT(40) DEF Part
      <3>4. /\ Sets(s4) \cup Sets(SecureFile) \subseteq Sets(s4 \o SecureFile)
            /\ BacksUp(s4) \/ BacksUp(SecureFile) => BacksUp(s4 \o SecureFile)
        BY <3>3, JoinedEffects, ZenonT(40)
      <3> QED  BY <1>8, <3>2, <3>4, ZenonT(40)
    <2> QED  BY <2>1, <2>2
  <1> HIDE DEF s5
  <1>10. Part(V, s6, K3, R) /\ Sets(s5) \subseteq Sets(s6) /\ BacksUp(s6)
    <2> DEFINE P == {9}
    <2>1. P \subseteq K3 /\ Part(V, SecureEntries, P, {})
      BY <1>2, SecureEntriesPart
    <2> HIDE DEF P
    <2> QED  BY <1>9, <2>1, Added, ZenonT(40)
  <1> HIDE DEF s6
  <1>11. Part(V, s7, NoQuota, R) /\ Sets(s6) \cup {"upcase"} \subseteq Sets(s7) /\ BacksUp(s7)
    <2>1. Part(V, UpCaseAndExtend, {10}, {10}) /\ {"upcase"} \subseteq Sets(UpCaseAndExtend)
      BY UpCasePart
    <2>2. Part(V, s7, NoQuota, R) /\ Sets(s6) \cup Sets(UpCaseAndExtend) \subseteq Sets(s7) /\ BacksUp(s7)
      <3> DEFINE P == {10}
                 Q == {10}
      <3>1. K3 \cap Q = {} /\ K3 \cup P \subseteq NoQuota /\ R \cup Q \subseteq R /\ Part(V, UpCaseAndExtend, P, Q)
        BY <1>2, <1>3, <2>1
      <3> HIDE DEF P, Q
      <3>2. Part(V, s7, K3 \cup P, R \cup Q)
        BY <1>10, <3>1, Joined
      <3>3. Part(V, s7, NoQuota, R)
        <4> HIDE DEF s7
        <4> QED  BY <3>1, <3>2 DEF Part
      <3> QED  BY <1>10, <3>1, <3>3, JoinedEffects, ZenonT(40) DEF Part
    <2> QED  BY <2>1, <2>2
  <1> HIDE DEF s7
  <1>12. Part(V, s8, NoQuota, R) /\ Sets(s7) \subseteq Sets(s8) /\ BacksUp(s8)
    <2>1. Part(V, Reserved, NoQuota, {})
      BY ReservedPart
    <2> QED  BY <1>2, <1>11, <2>1, Added, ZenonT(40)
  <1>13. Plain \subseteq Sets(s8)
    <2>1. Plain = {"rootsd", "mftbmp", "log", "attrdef", "boot", "sds", "upcase"}
      BY DEF Plain, Clustered
    <2> HIDE DEF s8
    <2> QED  BY <1>7, <1>8, <1>9, <1>10, <1>11, <1>12, <2>1
  <1>14. Front(nr, label) = s8
    BY DEF Front, s0, s1, s2, s3, s4, s5, s6, s7, n
  <1> QED  BY <1>12, <1>13, <1>14 DEF V, R

\* So does what comes before the syncs.
LEMMA OpeningPart ==
  ASSUME NEW nr, NEW label
  PROVE  /\ Part(Sizes(nr, label), Opening(nr, label), Records, OuterRecords)
         /\ Plain \subseteq Sets(Opening(nr, label)) /\ BacksUp(Opening(nr, label))
  <1> DEFINE V == Sizes(nr, label)
             F == Front(nr, label)
             R == OuterRecords
             P == {11, 24}
  <1>1. Part(V, F, NoQuota, R) /\ Plain \subseteq Sets(F) /\ BacksUp(F)
    BY FrontPart
  <1>2. NoQuota \subseteq Records /\ P \subseteq Records
    BY DEF NoQuota, Records
  <1>3. Part(V, ExtendFiles, P, {})
    BY ExtendPart
  <1> HIDE DEF V, F, R, P
  <1>4. /\ Part(V, F \o ExtendFiles, Records, R)
        /\ Sets(F) \cup Sets(ExtendFiles) \subseteq Sets(F \o ExtendFiles)
        /\ BacksUp(F) \/ BacksUp(ExtendFiles) => BacksUp(F \o ExtendFiles)
    <2>1. Part(V, F, Records, R)
      BY <1>1, <1>2, ZenonT(40) DEF Part
    <2> QED  BY <1>2, <1>3, <2>1, Added, ZenonT(40)
  <1>5. Opening(nr, label) = F \o ExtendFiles
    BY DEF Opening, F
  <1> QED  BY <1>1, <1>4, <1>5 DEF V, R

\* The entries of $Quota come behind the front.
LEMMA QuotaBehind ==
  ASSUME NEW nr, NEW label, NEW k \in 1 .. Len(Opening(nr, label)),
         Opening(nr, label)[k].op = "rootentry", Opening(nr, label)[k].m = 24
  PROVE  LET F == Front(nr, label)
         IN  /\ Len(F) \in Nat /\ Len(F) < k
             /\ \A j \in 1 .. Len(F) : j \in 1 .. Len(Opening(nr, label)) /\ Opening(nr, label)[j] = F[j]
  <1> DEFINE V == Sizes(nr, label)
             F == Front(nr, label)
             H == Opening(nr, label)
             E == Entry(V)
  <1>1. Part(V, F, NoQuota, OuterRecords) /\ Part(V, ExtendFiles, {11, 24}, {})
    BY FrontPart, ExtendPart
  <1>2. F \in Seq(E) /\ ExtendFiles \in Seq(E)
    BY <1>1, ZenonT(40) DEF Part
  <1>3. H = F \o ExtendFiles
    BY DEF Opening
  <1>4. H[k].op = "rootentry" /\ H[k].m = 24 /\ k \in 1 .. Len(H)
    OBVIOUS
  <1> HIDE DEF V, F, H, E
  <1>5. \A j \in 1 .. Len(F) : j \in 1 .. Len(H) /\ H[j] = F[j]
    <2>1. \A j \in 1 .. Len(F) : j \in 1 .. Len(F \o ExtendFiles) /\ (F \o ExtendFiles)[j] = F[j]
      BY <1>2, Places
    <2> QED  BY <1>3, <2>1, ZenonT(40)
  <1>6. k \notin 1 .. Len(F)
    <2> SUFFICES ASSUME k \in 1 .. Len(F) PROVE FALSE
      OBVIOUS
    <2>1. Wide(F[k]) /\ F[k].m = 24
      BY <1>4, <1>5, ZenonT(40) DEF Wide
    <2>2. 24 \in NoQuota
      BY <1>1, <2>1, ZenonT(40) DEF Part
    <2> QED  BY <2>2 DEF NoQuota
  <1>7. Len(F) \in Nat
    BY <1>2
  <1>8. Len(F) < k
    BY <1>4, <1>6, <1>7
  <1> QED  BY <1>5, <1>7, <1>8, ZenonT(40) DEF F, H

\* The script is the front and then the syncs of the root index, of $Bitmap, of
\* $MFT and of $MFTMirr.
LEMMA ScriptShape ==
  ASSUME NEW nr, NEW label
  PROVE  LET F == Opening(nr, label)
             S == Script(nr, label)
         IN  /\ Len(F) \in Nat /\ Len(S) = Len(F) + 4
             /\ \A k \in 1 .. Len(F) : S[k] = F[k] /\ S[k] \in Entry(Sizes(nr, label))
             /\ S[Len(F) + 1] = Op("sync", 5, "root", 0, 0, 0, "final")
             /\ S[Len(F) + 2] = Op("sync", 6, "bitmap", 0, 0, 0, "final")
             /\ S[Len(F) + 3] = Op("sync", 0, "mft", 0, 0, 0, "final")
             /\ S[Len(F) + 4] = Op("sync", 1, "mirr", 0, 0, 0, "final")
  <1> DEFINE F == Opening(nr, label)
             S == Script(nr, label)
             V == Sizes(nr, label)
             a == Op("sync", 5, "root", 0, 0, 0, "final")
             b == Op("sync", 6, "bitmap", 0, 0, 0, "final")
             c == Op("sync", 0, "mft", 0, 0, 0, "final")
             d == Op("sync", 1, "mirr", 0, 0, 0, "final")
  <1>1. F \in Seq(Entry(V))
    BY OpeningPart DEF Part
  <1>2. S = F \o Syncs
    BY DEF Script, Opening, Front
  <1>3. Syncs = <<a, b, c, d>>
    BY DEF Syncs
  <1>4. a \in Entry(V) /\ b \in Entry(V) /\ c \in Entry(V) /\ d \in Entry(V)
    BY DEF Op, Entry, Records, Files
  <1> HIDE DEF F, S, V, a, b, c, d
  <1> DEFINE t == <<a, b, c, d>>
  <1>5. t \in Seq(Entry(V)) /\ Len(t) = 4 /\ t[1] = a /\ t[2] = b /\ t[3] = c /\ t[4] = d
    BY <1>4
  <1> HIDE DEF t
  <1>6. S = F \o t
    BY <1>2, <1>3 DEF t
  <1>7. Len(S) = Len(F) + 4
    <2>1. Len(F \o t) = Len(F) + Len(t)
      BY <1>1, <1>5, Concatenated, ZenonT(40)
    <2> QED  BY <1>5, <1>6, <2>1
  <1>8. \A k \in 1 .. Len(F) : S[k] = F[k]
    BY <1>1, <1>5, <1>6, Places
  <1>9. \A k \in 1 .. Len(t) : S[Len(F) + k] = t[k]
    <2> DEFINE E == Entry(V)
    <2>1. F \in Seq(E) /\ t \in Seq(E)
      BY <1>1, <1>5
    <2> HIDE DEF E
    <2>2. \A k \in 1 .. Len(t) : Len(F) + k \in 1 .. Len(F \o t) /\ (F \o t)[Len(F) + k] = t[k]
      BY <2>1, Places
    <2> QED  BY <1>6, <2>2
  <1>10. S[Len(F) + 1] = a /\ S[Len(F) + 2] = b /\ S[Len(F) + 3] = c /\ S[Len(F) + 4] = d
    BY <1>5, <1>9
  <1>11. Len(F) \in Nat /\ \A k \in 1 .. Len(F) : F[k] \in Entry(V)
    BY <1>1
  <1> QED  BY <1>7, <1>8, <1>10, <1>11 DEF F, S, V, a, b, c, d

-----------------------------------------------------------------------------

\* From here on the default is Zenon; steps with arithmetic or records cite SMT.
USE ZenonT(40)

O == Opening(vol.nr, job.label)

\* The script of the format at hand.
LEMMA StepsNow ==
  /\ Len(O) \in Nat /\ Len(Steps) = Len(O) + 4
  /\ \A k \in 1 .. Len(O) : /\ Steps[k] = O[k] /\ Steps[k] \in Entry(Sizes(vol.nr, job.label))
                            /\ O[k].op # "sync"
  /\ Steps[Len(O) + 1] = Op("sync", 5, "root", 0, 0, 0, "final")
  /\ Steps[Len(O) + 2] = Op("sync", 6, "bitmap", 0, 0, 0, "final")
  /\ Steps[Len(O) + 3] = Op("sync", 0, "mft", 0, 0, 0, "final")
  /\ Steps[Len(O) + 4] = Op("sync", 1, "mirr", 0, 0, 0, "final")
  <1>1. \A k \in 1 .. Len(O) : O[k].op # "sync"
    <2>1. Part(Sizes(vol.nr, job.label), O, Records, OuterRecords)
      BY OpeningPart DEF O
    <2> QED  BY <2>1 DEF Part, Legal
  <1> QED  BY <1>1, ScriptShape, SMTT(40) DEF Steps, O

Versions == {"old", "draft", "torn", "final", ""}

\* The records that the variables hold.
AJob(j) == j = [size |-> j.size, label |-> j.label, ret |-> j.ret, dirty |-> j.dirty,
                faulted |-> j.faulted, ignored |-> j.ignored, lost |-> j.lost]
Shaped ==
    /\ pc = [at |-> pc.at, i |-> pc.i]
    /\ AJob(job)
    /\ disk = [ver |-> disk.ver, bits |-> disk.bits, backup |-> disk.backup, boot |-> disk.boot]
    /\ disk.ver \in [Files -> Versions]

\* What n entries of the script have done: the plain files among them are
\* final, a backup boot sector is there or the volume dirty, a record without a
\* wide entry so far has a size, and of the syncs those that are done count.
Reached(n) ==
    /\ n \in 0 .. Len(O) + 3
    /\ DOMAIN rec = Records
    /\ \A k \in 1 .. Len(O) : k <= n =>
          /\ Certain(O[k]) /\ O[k].f \in Plain => disk.ver[O[k].f] = "final"
          /\ O[k].op = "backup" => disk.backup \/ job.dirty
    /\ \A m \in OuterRecords :
          (\A k \in 1 .. Len(O) : k <= n /\ Wide(O[k]) => O[k].m # m) => rec[m] \in Nat
    /\ n <= Len(O) + 2 => disk.ver["mft"] # "final"
    /\ n >= Len(O) + 1 => disk.ver["root"] = "final"
    /\ n >= Len(O) + 2 => disk.ver["bitmap"] = "final"

\* Before the script $MFT is old; in it the entries done count; afterwards the
\* order is in what is on the device.
LastInv ==
    /\ Shaped
    /\ pc.at \in {"redirect", "params", "bitmaps", "mft", "logfile", "boot"} =>
          disk.ver["mft"] # "final"
    /\ At("script") => Reached(pc.i)
    /\ ~At("script") => MftComesLast

\* The invariant holds before the first format.
LEMMA LastInit == Init => LastInv
  <1> SUFFICES ASSUME Init PROVE LastInv
    OBVIOUS
  <1>1. disk.ver = [f \in Files |-> "old"]
    BY DEF Init, OldDisk
  <1>2. disk.ver["mft"] = "old"
    BY <1>1 DEF Files
  <1>3. Shaped
    <2>1. pc = [at |-> pc.at, i |-> pc.i]
      BY DEF Init
    <2>2. AJob(job)
      BY DEF Init, NewJob, AJob
    <2>3. disk = [ver |-> disk.ver, bits |-> disk.bits, backup |-> disk.backup, boot |-> disk.boot]
      BY DEF Init, OldDisk
    <2>4. disk.ver \in [Files -> Versions]
      BY <1>1 DEF Versions
    <2> QED  BY <2>1, <2>2, <2>3, <2>4 DEF Shaped
  <1> QED  BY <1>2, <1>3 DEF LastInv, MftComesLast, Init, At

\* In the script the invariant says what the property does.
LEMMA LastInScript == ASSUME LastInv, At("script") PROVE MftComesLast
  <1>1. Reached(pc.i)
    BY DEF LastInv
  <1>2. Len(O) \in Nat /\ Plain \subseteq Sets(O) /\ BacksUp(O)
    BY OpeningPart, ScriptShape DEF O
  <1> SUFFICES ASSUME disk.ver["mft"] = "final"
               PROVE  /\ \A f \in Clustered \ {"mirr"} : disk.ver[f] = "final"
                      /\ disk.backup \/ job.dirty
    BY DEF MftComesLast
  <1>3. pc.i = Len(O) + 3
    <2>1. pc.i \in 0 .. Len(O) + 3 /\ ~(pc.i <= Len(O) + 2)
      BY <1>1 DEF Reached
    <2> QED  BY <1>2, <2>1, SMTT(40)
  <1>4. \A k \in 1 .. Len(O) : k <= pc.i
    BY <1>2, <1>3, SMTT(40)
  <1>5. ASSUME NEW f \in Plain PROVE disk.ver[f] = "final"
    <2>1. PICK k \in 1 .. Len(O) : Certain(O[k]) /\ f = O[k].f
      BY <1>2 DEF Sets
    <2> QED  BY <1>1, <1>4, <2>1 DEF Reached
  <1>6. disk.ver["root"] = "final" /\ disk.ver["bitmap"] = "final"
    <2>1. /\ pc.i >= Len(O) + 1 => disk.ver["root"] = "final"
          /\ pc.i >= Len(O) + 2 => disk.ver["bitmap"] = "final"
      BY <1>1 DEF Reached
    <2>2. pc.i >= Len(O) + 1 /\ pc.i >= Len(O) + 2
      BY <1>2, <1>3, SMTT(40)
    <2> QED  BY <2>1, <2>2
  <1>7. disk.backup \/ job.dirty
    <2>1. PICK k \in 1 .. Len(O) : O[k].op = "backup"
      BY <1>2 DEF BacksUp
    <2> QED  BY <1>1, <1>4, <2>1 DEF Reached
  <1>8. \A f \in Clustered \ {"mirr"} : f \in Plain \cup {"root", "bitmap", "mft"}
    BY DEF Plain
  <1> QED  BY <1>5, <1>6, <1>7, <1>8

\* The entry at hand, before the syncs.
LEMMA OpeningEntry ==
  ASSUME LastInv, At("script"), Step.op # "sync"
  PROVE  /\ Len(O) \in Nat /\ pc.i \in Nat /\ pc.i + 1 \in 1 .. Len(O) /\ pc.i + 1 < Len(Steps)
         /\ Step = O[pc.i + 1] /\ Legal(Step) /\ Step.m \in Records /\ Step.f \in Files
         /\ Step.ver \in Versions /\ (Outer(Step) => Outgrows)
  <1>1. Reached(pc.i)
    BY DEF LastInv
  <1> DEFINE V == Sizes(vol.nr, job.label)
  <1>2. /\ Len(O) \in Nat /\ Len(Steps) = Len(O) + 4
        /\ \A k \in 1 .. Len(O) : Steps[k] = O[k] /\ Steps[k] \in Entry(V)
        /\ Steps[Len(O) + 1].op = "sync" /\ Steps[Len(O) + 2].op = "sync"
        /\ Steps[Len(O) + 3].op = "sync" /\ Steps[Len(O) + 4].op = "sync"
    BY StepsNow, SMTT(40) DEF Op
  <1>3. Part(V, O, Records, OuterRecords)
    BY OpeningPart DEF O
  <1> HIDE DEF V
  <1>4. pc.i \in 0 .. Len(O) + 3
    BY <1>1 DEF Reached
  <1>5. pc.i + 1 \in 1 .. Len(O)
    <2>1. CASE pc.i + 1 = Len(O) + 1  BY <1>2, <2>1 DEF Step
    <2>2. CASE pc.i + 1 = Len(O) + 2  BY <1>2, <2>2 DEF Step
    <2>3. CASE pc.i + 1 = Len(O) + 3  BY <1>2, <2>3 DEF Step
    <2>4. CASE pc.i + 1 = Len(O) + 4  BY <1>2, <2>4 DEF Step
    <2> QED  BY <1>2, <1>4, <2>1, <2>2, <2>3, <2>4, SMTT(40)
  <1>6. Step = O[pc.i + 1] /\ Step \in Entry(V)
    BY <1>2, <1>5 DEF Step
  <1>7. Legal(Step)
    BY <1>3, <1>5, <1>6 DEF Part
  <1>8. ASSUME Outer(Step) PROVE Outgrows
    <2>1. Step.m \in OuterRecords
      BY <1>3, <1>5, <1>6, <1>8 DEF Part
    <2>2. ASSUME NEW k \in 1 .. Len(O), k <= pc.i, Wide(O[k]) PROVE O[k].m # Step.m
      <3>1. k < pc.i + 1
        BY <1>2, <1>4, <2>2, SMTT(40)
      <3> QED  BY <1>3, <1>5, <1>6, <1>8, <2>2, <3>1 DEF Part
    <2>3. rec[Step.m] \in Nat
      BY <1>1, <2>1, <2>2 DEF Reached
    <2>4. Step.vl \in Nat /\ Step.vl > 1024 /\ Step.lim <= 1024
      BY <1>7, <1>8 DEF Legal, RecordSize
    <2>5. Step.lim \in Int
      BY <1>6 DEF Entry
    <2> QED  BY <2>3, <2>4, <2>5, SMTT(40) DEF Outgrows
  <1>9. Step.m \in Records /\ Step.f \in Files /\ Step.ver \in Versions
    BY <1>6 DEF Entry, Versions
  <1>10. pc.i \in Nat /\ pc.i + 1 < Len(Steps)
    BY <1>2, <1>4, <1>5, SMTT(40)
  <1> QED  BY <1>2, <1>5, <1>6, <1>7, <1>8, <1>9, <1>10

\* What an entry may do to the sizes of the records.
RecStep ==
    /\ DOMAIN rec' = Records
    /\ \A m \in Records \ {Step.m} : rec'[m] = rec[m]
    /\ ~Wide(Step) /\ Step.m \in OuterRecords /\ rec[Step.m] \in Nat => rec'[Step.m] \in Nat

\* An attribute of a known size, or none, is put into the record.
LEMMA GrownStep ==
  ASSUME LastInv, At("script"), NEW size, rec' = Grown(Step.m, size) \/ rec' = rec,
         ~Wide(Step) /\ Step.m \in OuterRecords => size \in Nat
  PROVE  RecStep
  <1>1. DOMAIN rec = Records
    BY DEF LastInv, Reached
  <1>2. CASE rec' = rec
    BY <1>1, <1>2 DEF RecStep
  <1>3. CASE rec' = [rec EXCEPT ![Step.m] = rec[Step.m] + size]
    <2>1. DOMAIN rec' = Records /\ \A m \in Records \ {Step.m} : rec'[m] = rec[m]
      BY <1>1, <1>3
    <2>2. Step.m \in OuterRecords => rec'[Step.m] = rec[Step.m] + size
      BY <1>1, <1>3, SMTT(40) DEF OuterRecords, Records
    <2> QED  BY <2>1, <2>2, SMTT(40) DEF RecStep
  <1> QED  BY <1>2, <1>3 DEF Grown

\* An entry before the syncs that succeeds.
LEMMA OpeningDone ==
  ASSUME LastInv, At("script"), Step.op # "sync",
         vol' = vol, job'.label = job.label, Shaped', RecStep,
         pc' = [pc EXCEPT !.i = pc.i + 1],
         \/ disk'.ver = disk.ver /\ ~Certain(Step)
         \/ Writes(Step) /\ disk'.ver = [disk.ver EXCEPT ![Step.f] = Step.ver],
         disk.backup \/ job.dirty => disk'.backup \/ job'.dirty,
         Step.op = "backup" => disk'.backup \/ job'.dirty
  PROVE  LastInv'
  <1> DEFINE n == pc.i
  <1>1. Reached(n)
    BY DEF LastInv
  <1>2. /\ Len(O) \in Nat /\ n \in Nat /\ n + 1 \in 1 .. Len(O)
        /\ Step = O[n + 1] /\ Legal(Step) /\ Step.m \in Records /\ Step.f \in Files
    BY OpeningEntry
  <1>3. O' = O
    BY DEF O
  <1>4. pc'.at = "script" /\ pc'.i = n + 1
    BY DEF LastInv, Shaped, At
  <1>5. disk.ver \in [Files -> Versions]
    BY DEF LastInv, Shaped
  <1>6. \A f \in Plain : disk.ver[f] = "final" => disk'.ver[f] = "final"
    BY <1>2, <1>5, SMTT(40) DEF Legal, Plain, Clustered, Files
  <1>7. disk'.ver["mft"] # "final"
    <2>1. disk.ver["mft"] # "final"
      <3>1. n <= Len(O) + 2
        BY <1>2, SMTT(40)
      <3> QED  BY <1>1, <3>1 DEF Reached
    <2> QED  BY <1>2, <1>5, <2>1, SMTT(40) DEF Legal, Files
  <1>8. Certain(Step) /\ Step.f \in Plain => disk'.ver[Step.f] = "final"
    BY <1>2, <1>5 DEF Legal, Certain, Writes, Outer
  <1>9. ASSUME NEW k \in 1 .. Len(O), k <= n + 1
        PROVE  /\ Certain(O[k]) /\ O[k].f \in Plain => disk'.ver[O[k].f] = "final"
               /\ O[k].op = "backup" => disk'.backup \/ job'.dirty
    <2>1. CASE k = n + 1
      BY <1>2, <1>8, <2>1
    <2>2. CASE k <= n
      BY <1>1, <1>6, <2>2 DEF Reached
    <2> QED  BY <1>2, <1>9, <2>1, <2>2, SMTT(40)
  <1>10. ASSUME NEW m \in OuterRecords, \A k \in 1 .. Len(O) : k <= n + 1 /\ Wide(O[k]) => O[k].m # m
         PROVE  rec'[m] \in Nat
    <2>1. \A k \in 1 .. Len(O) : k <= n /\ Wide(O[k]) => O[k].m # m
      BY <1>2, <1>10, SMTT(40)
    <2>2. rec[m] \in Nat
      BY <1>1, <2>1 DEF Reached
    <2>3. Wide(Step) => Step.m # m
      BY <1>2, <1>10, SMTT(40)
    <2>4. m \in Records
      BY SMTT(40) DEF OuterRecords, Records
    <2> QED  BY <2>2, <2>3, <2>4 DEF RecStep
  <1>11. Reached(pc.i)'
    <2>1. /\ n + 1 \in 0 .. Len(O) + 3 /\ ~(n + 1 >= Len(O) + 1) /\ ~(n + 1 >= Len(O) + 2)
      BY <1>2, SMTT(40)
    <2>2. DOMAIN rec' = Records
      BY DEF RecStep
    <2> QED  BY <1>3, <1>4, <1>7, <1>9, <1>10, <2>1, <2>2 DEF Reached
  <1> QED  BY <1>4, <1>11 DEF LastInv, At

\* An entry before the syncs that fails.
LEMMA OpeningFailed ==
  ASSUME LastInv, At("script"), Step.op # "sync", Shaped', pc'.at = "cleanup",
         \/ disk'.ver = disk.ver
         \/ \E v : /\ Writes(Step) /\ (v = Step.ver \/ v = "torn")
                   /\ disk'.ver = [disk.ver EXCEPT ![Step.f] = v]
  PROVE  LastInv'
  <1>1. Reached(pc.i)
    BY DEF LastInv
  <1>2. Len(O) \in Nat /\ pc.i \in Nat /\ pc.i + 1 \in 1 .. Len(O) /\ Legal(Step)
    BY OpeningEntry
  <1>3. disk.ver \in [Files -> Versions]
    BY DEF LastInv, Shaped
  <1>4. disk.ver["mft"] # "final"
    <2>1. pc.i <= Len(O) + 2
      BY <1>2, SMTT(40)
    <2> QED  BY <1>1, <2>1 DEF Reached
  <1>5. disk'.ver["mft"] # "final"
    BY <1>2, <1>3, <1>4 DEF Legal, Files
  <1> QED  BY <1>5 DEF LastInv, MftComesLast, At

\* What a write makes of the device.
LEMMA WrittenShape ==
  ASSUME Shaped, NEW f \in Files, NEW v \in Versions, NEW a, disk' = Written(disk, f, v, a)
  PROVE  /\ disk' = [ver |-> disk'.ver, bits |-> disk'.bits, backup |-> disk'.backup, boot |-> disk'.boot]
         /\ disk'.ver = [disk.ver EXCEPT ![f] = v] /\ disk'.backup = disk.backup
         /\ disk'.ver \in [Files -> Versions]
  <1> DEFINE d == disk
             b == IF f = "bitmap" THEN a ELSE d.bits
             s == IF f = "boot" THEN BootSector ELSE d.boot
  <1>1. disk' = [d EXCEPT !.ver = [d.ver EXCEPT ![f] = v], !.bits = b, !.boot = s]
    BY DEF Written
  <1>2. d = [ver |-> d.ver, bits |-> d.bits, backup |-> d.backup, boot |-> d.boot]
        /\ d.ver \in [Files -> Versions]
    BY DEF Shaped
  <1> HIDE DEF b, s
  <1>3. disk' = [ver |-> [d.ver EXCEPT ![f] = v], bits |-> b, backup |-> d.backup, boot |-> s]
    BY <1>1, <1>2
  <1> QED  BY <1>2, <1>3, SMTT(40)

\* What a fault makes of the job.
LEMMA FaultyJob ==
  ASSUME NEW j, AJob(j), NEW b
  PROVE  LET k == [j EXCEPT !.faulted = b] IN AJob(k) /\ k.label = j.label /\ k.dirty = j.dirty
  <1> DEFINE k == [j EXCEPT !.faulted = b]
  <1>1. k = [size |-> j.size, label |-> j.label, ret |-> j.ret, dirty |-> j.dirty,
             faulted |-> b, ignored |-> j.ignored, lost |-> j.lost]
    BY SMTT(40) DEF AJob
  <1> HIDE DEF k
  <1>2. AJob(k) /\ k.label = j.label /\ k.dirty = j.dirty
    BY <1>1, SMTT(40) DEF AJob
  <1> QED  BY <1>2 DEF k

\* ... what allocations do that fail unnoticed ...
LEMMA IgnoringShape ==
  ASSUME AJob(job), NEW n, NEW L
  PROVE  LET k == Ignoring(n, L) IN AJob(k) /\ k.label = job.label /\ k.dirty = job.dirty
  <1> DEFINE x == job.faulted \/ n > 0
             y == job.ignored + n
             z == job.lost \cup L
             k == Ignoring(n, L)
  <1>1. k = [job EXCEPT !.faulted = x, !.ignored = y, !.lost = z]
    BY DEF Ignoring
  <1>2. job = [size |-> job.size, label |-> job.label, ret |-> job.ret, dirty |-> job.dirty,
               faulted |-> job.faulted, ignored |-> job.ignored, lost |-> job.lost]
    BY DEF AJob
  <1> HIDE DEF x, y, z, k
  <1>3. k = [size |-> job.size, label |-> job.label, ret |-> job.ret, dirty |-> job.dirty,
             faulted |-> x, ignored |-> y, lost |-> z]
    BY <1>1, <1>2
  <1>4. AJob(k) /\ k.label = job.label /\ k.dirty = job.dirty
    BY <1>3, SMTT(40) DEF AJob
  <1> QED  BY <1>4 DEF k

\* ... and both.
LEMMA FaultedShape ==
  ASSUME Shaped, NEW w, NEW n, NEW L,
         Faulted(w) \/ job' = [Ignoring(n, L) EXCEPT !.faulted = @ \/ ~w]
  PROVE  AJob(job') /\ job'.label = job.label /\ job'.dirty = job.dirty
  <1>1. AJob(job)
    BY DEF Shaped
  <1>2. CASE Faulted(w)
    <2> DEFINE b == job.faulted \/ ~w
    <2>1. job' = [job EXCEPT !.faulted = b]
      BY <1>2 DEF Faulted
    <2> HIDE DEF b
    <2> QED  BY <1>1, <2>1, FaultyJob
  <1>3. CASE job' = [Ignoring(n, L) EXCEPT !.faulted = @ \/ ~w]
    <2> DEFINE J == Ignoring(n, L)
               b == J.faulted \/ ~w
    <2>1. AJob(J) /\ J.label = job.label /\ J.dirty = job.dirty
      BY <1>1, IgnoringShape
    <2>2. job' = [J EXCEPT !.faulted = b]
      BY <1>3
    <2> HIDE DEF J, b
    <2> QED  BY <2>1, <2>2, FaultyJob
  <1> QED  BY <1>2, <1>3

\* Where the script leads.
LEMMA AdvanceShape ==
  ASSUME Shaped, At("script"), NEW ok, Advance(ok)
  PROVE  /\ pc' = [at |-> pc'.at, i |-> pc'.i]
         /\ ok /\ pc.i + 1 < Len(Steps) => pc' = [pc EXCEPT !.i = pc.i + 1]
         /\ ~(ok /\ pc.i + 1 < Len(Steps)) => pc'.at = "cleanup"
  <1>1. CASE ok /\ pc.i + 1 < Len(Steps)
    BY <1>1 DEF Shaped, Advance
  <1>2. CASE ~(ok /\ pc.i + 1 < Len(Steps))
    BY <1>2 DEF Advance
  <1> QED  BY <1>1, <1>2

\* An entry that writes nothing keeps the order.
LEMMA QuietStep ==
  ASSUME LastInv, At("script"), NEW ok, Step.op \notin {"sync", "backup"}, ~Certain(Step),
         UNCHANGED <<job, vol, disk>>, RecStep, Advance(ok)
  PROVE  LastInv'
  <1>1. Shaped /\ Shaped'
    <2>1. Shaped
      BY DEF LastInv
    <2>2. pc' = [at |-> pc'.at, i |-> pc'.i]
      BY <2>1, AdvanceShape
    <2> QED  BY <2>1, <2>2 DEF Shaped
  <1>2. CASE ok /\ pc.i + 1 < Len(Steps)
    <2>1. pc' = [pc EXCEPT !.i = pc.i + 1]
      BY <1>1, <1>2, AdvanceShape
    <2> QED  BY <1>1, <2>1, OpeningDone
  <1>3. CASE ~(ok /\ pc.i + 1 < Len(Steps))
    <2>1. pc'.at = "cleanup"
      BY <1>1, <1>3, AdvanceShape
    <2> QED  BY <1>1, <2>1, OpeningFailed
  <1> QED  BY <1>2, <1>3

\* An entry that writes its file, or cannot, keeps it.
LEMMA WritingStep ==
  ASSUME LastInv, At("script"), NEW ok \in BOOLEAN, NEW w \in BOOLEAN, NEW a, Writes(Step), vol' = vol,
         disk' = (IF ok THEN Written(disk, Step.f, Version(w), a) ELSE disk),
         AJob(job'), job'.label = job.label, job'.dirty = job.dirty, RecStep, Advance(ok /\ w)
  PROVE  LastInv'
  <1>0. Step.op \notin {"sync", "backup"}
    BY DEF Writes
  <1>1. Shaped
    BY DEF LastInv
  <1>2. Step.f \in Files /\ Step.ver \in Versions /\ pc.i + 1 < Len(Steps)
    BY <1>0, OpeningEntry
  <1>3. Version(w) \in Versions /\ (w => Version(w) = Step.ver) /\ (~w => Version(w) = "torn")
    BY <1>2 DEF Version, Versions
  <1>5. /\ ok => disk'.ver = [disk.ver EXCEPT ![Step.f] = Version(w)]
        /\ ~ok => disk'.ver = disk.ver
        /\ disk'.backup = disk.backup
        /\ disk' = [ver |-> disk'.ver, bits |-> disk'.bits, backup |-> disk'.backup, boot |-> disk'.boot]
        /\ disk'.ver \in [Files -> Versions]
    <2>1. CASE ok
      <3>1. disk' = Written(disk, Step.f, Version(w), a)
        BY <2>1
      <3> QED  BY <1>1, <1>2, <1>3, <2>1, <3>1, WrittenShape
    <2>2. CASE ~ok
      BY <1>1, <2>2 DEF Shaped
    <2> QED  BY <2>1, <2>2
  <1>6. pc' = [at |-> pc'.at, i |-> pc'.i]
    BY <1>1, AdvanceShape
  <1>7. Shaped'
    BY <1>5, <1>6 DEF Shaped
  <1>8. CASE ok /\ w
    <2>1. pc' = [pc EXCEPT !.i = pc.i + 1]
      BY <1>1, <1>2, <1>8, AdvanceShape
    <2>2. disk'.ver = [disk.ver EXCEPT ![Step.f] = Step.ver]
      BY <1>3, <1>5, <1>8
    <2> QED  BY <1>0, <1>5, <1>7, <2>1, <2>2, OpeningDone
  <1>9. CASE ~(ok /\ w)
    <2>1. pc'.at = "cleanup"
      BY <1>1, <1>9, AdvanceShape
    <2>2. \/ disk'.ver = disk.ver
          \/ \E v : /\ Writes(Step) /\ (v = Step.ver \/ v = "torn")
                    /\ disk'.ver = [disk.ver EXCEPT ![Step.f] = v]
      BY <1>3, <1>5
    <2> QED  BY <1>0, <1>7, <2>1, <2>2, OpeningFailed
  <1> QED  BY <1>8, <1>9

\* The sizes of attributes and index entries that are not in clusters.
LEMMA NarrowSizes ==
  ASSUME Legal(Step), Step.op \in {"resident", "rootentry"}
  PROVE  ResidentSize(Step.nl, Step.vl) \in Nat /\ Step.vl \in Nat
  <1>1. Step.nl \in Nat /\ Step.vl \in Nat
    BY DEF Legal
  <1>2. \A n \in Nat : Align8(n) \in Nat
    BY SMTT(40) DEF Align8, CeilDiv
  <1>3. Align8(2 * Step.nl) \in Nat
    BY <1>1, <1>2, SMTT(40)
  <1>4. 24 + Align8(2 * Step.nl) + Step.vl \in Nat
    BY <1>1, <1>3, SMTT(40)
  <1> QED  BY <1>1, <1>2, <1>4 DEF ResidentSize

\* When the rest of $Extend is skipped, nothing is missing: it has no clusters.
LEMMA QuotaSkipped == ASSUME LastInv, QuotaNoMemory PROVE LastInv'
  <1> DEFINE n == pc.i
             lo == Len(O)
             F == Front(vol.nr, job.label)
  <1>1. /\ At("script") /\ Step.op = "rootentry" /\ Step.m = 24 /\ job' = Ignoring(1, {})
        /\ pc' = [pc EXCEPT !.i = Len(Steps) - Len(Syncs)] /\ UNCHANGED <<vol, rec, disk>>
    BY DEF QuotaNoMemory, Doing
  <1>2. Shaped /\ Reached(n)
    BY <1>1 DEF LastInv
  <1>3. AJob(job') /\ job'.label = job.label /\ job'.dirty = job.dirty
    BY <1>1, <1>2, IgnoringShape DEF Shaped
  <1>4. lo \in Nat /\ n \in Nat /\ n + 1 \in 1 .. lo /\ Step = O[n + 1]
    BY <1>1, OpeningEntry
  <1>5. Len(Steps) - Len(Syncs) = lo
    <2>1. Len(Steps) = lo + 4
      BY StepsNow
    <2>2. Len(Syncs) = 4
      BY SMTT(40) DEF Syncs
    <2> QED  BY <1>4, <2>1, <2>2, SMTT(40)
  <1>6. pc' = [at |-> "script", i |-> lo]
    BY <1>1, <1>2, <1>5 DEF Shaped, At
  <1>7. /\ Len(F) \in Nat /\ Len(F) < n + 1
        /\ \A j \in 1 .. Len(F) : j \in 1 .. lo /\ O[j] = F[j]
    <2> DEFINE H == Opening(vol.nr, job.label)
    <2>1. H = O
      BY DEF O
    <2>2. n + 1 \in 1 .. Len(H) /\ H[n + 1].op = "rootentry" /\ H[n + 1].m = 24
      BY <1>1, <1>4, <2>1
    <2>3. /\ Len(F) \in Nat /\ Len(F) < n + 1
          /\ \A j \in 1 .. Len(F) : j \in 1 .. Len(H) /\ H[j] = F[j]
      BY <2>2, QuotaBehind, SMTT(40)
    <2> QED  BY <2>1, <2>3
  <1>8. Plain \subseteq Sets(F) /\ BacksUp(F)
    BY FrontPart
  <1> HIDE DEF F
  <1>9. \A j \in 1 .. Len(F) : j <= n
    BY <1>4, <1>7, SMTT(40)
  <1>10. ASSUME NEW f \in Plain PROVE disk.ver[f] = "final"
    <2>1. PICK j \in 1 .. Len(F) : Certain(F[j]) /\ f = F[j].f
      BY <1>8 DEF Sets
    <2> QED  BY <1>2, <1>7, <1>9, <2>1 DEF Reached
  <1>11. disk.backup \/ job.dirty
    <2>1. PICK j \in 1 .. Len(F) : F[j].op = "backup"
      BY <1>8 DEF BacksUp
    <2> QED  BY <1>2, <1>7, <1>9, <2>1 DEF Reached
  <1>12. O' = O
    BY <1>1, <1>3 DEF O
  <1>13. \A m \in OuterRecords :
            (\A k \in 1 .. lo : k <= lo /\ Wide(O[k]) => O[k].m # m) => rec[m] \in Nat
    <2> SUFFICES ASSUME NEW m \in OuterRecords,
                        \A k \in 1 .. lo : k <= lo /\ Wide(O[k]) => O[k].m # m
                 PROVE  rec[m] \in Nat
      OBVIOUS
    <2>1. \A k \in 1 .. lo : k <= lo
      BY <1>4, SMTT(40)
    <2> QED  BY <1>2, <2>1 DEF Reached
  <1>14. disk.ver["mft"] # "final"
    <2>1. n <= lo + 2
      BY <1>4, SMTT(40)
    <2> QED  BY <1>2, <2>1 DEF Reached
  <1>15. Reached(pc.i)'
    <2>1. lo \in 0 .. lo + 3 /\ ~(lo >= lo + 1) /\ ~(lo >= lo + 2)
      BY <1>4, SMTT(40)
    <2>2. DOMAIN rec = Records
      BY <1>2 DEF Reached
    <2>3. pc'.i = lo
      BY <1>6
    <2> QED  BY <1>1, <1>3, <1>10, <1>11, <1>12, <1>13, <1>14, <2>1, <2>2, <2>3 DEF Reached
  <1>16. Shaped'
    BY <1>1, <1>2, <1>3, <1>6 DEF Shaped
  <1> QED  BY <1>6, <1>15, <1>16 DEF LastInv, At

\* The entries before the syncs keep the order.
LEMMA LastOpening ==
  ASSUME LastInv,
         AddResident \/ AddVolName \/ AddPositioned \/ AddValueInside \/ AddValueOutside
           \/ AddBlockEntry \/ AddRootEntry \/ QuotaNoMemory
           \/ BackupBootSector \/ BackupBootSectorErr
  PROVE  LastInv'
  <1>1. CASE AddResident
    <2> DEFINE size == ResidentSize(Step.nl, Step.vl)
    <2>1. /\ At("script") /\ Step.op = "resident" /\ UNCHANGED <<job, vol, disk>>
          /\ rec' = Grown(Step.m, size) /\ Advance(MakeRoom(Step.m, size))
      BY <1>1 DEF AddResident, Doing
    <2>2. ~Wide(Step) /\ ~Certain(Step)
      BY <2>1 DEF Wide, Writes, Certain, Outer
    <2>3. Legal(Step)
      BY <2>1, OpeningEntry
    <2>4. size \in Nat
      BY <2>1, <2>2, <2>3, NarrowSizes
    <2> HIDE DEF size
    <2>5. RecStep
      BY <2>1, <2>4, GrownStep
    <2> QED  BY <2>1, <2>2, <2>5, QuietStep
  <1>2. CASE AddVolName
    <2> DEFINE size == ResidentSize(0, Step.vl)
    <2>1. /\ At("script") /\ Step.op = "volname" /\ UNCHANGED <<job, vol, disk>>
          /\ rec' = Grown(Step.m, size) \/ rec' = rec
          /\ Advance(job.label <= 128 /\ MakeRoom(Step.m, size))
      BY <1>2 DEF AddVolName, Doing
    <2>2. ~Wide(Step) /\ ~Certain(Step)
      BY <2>1 DEF Wide, Writes, Certain, Outer
    <2>3. Step.m \notin OuterRecords
      BY <2>1, OpeningEntry, SMTT(40) DEF Legal, OuterRecords
    <2> HIDE DEF size
    <2>5. RecStep
      BY <2>1, <2>3, GrownStep
    <2> QED  BY <2>1, <2>2, <2>5, QuietStep
  <1>3. CASE AddPositioned
    <2> DEFINE pairs == IF Step.f = "bad" THEN BadPairs ELSE MappingPairs(g.rl[Step.f])
               size == NonResidentSize(Step.nl, pairs)
    <2>1. PICK w \in WriteResults(Step.f) :
             /\ rec' = Grown(Step.m, size)
             /\ disk' = IF MakeRoom(Step.m, size) THEN Written(disk, Step.f, Version(w), g.alloc) ELSE disk
             /\ Faulted(w) /\ Advance(MakeRoom(Step.m, size) /\ w)
      BY <1>3 DEF AddPositioned
    <2>2. At("script") /\ Step.op = "positioned" /\ vol' = vol
      BY <1>3 DEF AddPositioned, Doing
    <2>3. Writes(Step) /\ Wide(Step) /\ w \in BOOLEAN
      BY <2>2 DEF Wide, Writes, WriteResults
    <2> HIDE DEF size
    <2>4. RecStep
      BY <2>1, <2>2, <2>3, GrownStep
    <2>5. MakeRoom(Step.m, size) \in BOOLEAN
      BY SMTT(40) DEF MakeRoom
    <2>6. AJob(job') /\ job'.label = job.label /\ job'.dirty = job.dirty
      BY <2>1, FaultedShape DEF LastInv
    <2> QED  BY <2>1, <2>2, <2>3, <2>4, <2>5, <2>6, WritingStep
  <1>4. CASE AddValueInside
    <2> DEFINE size == ResidentSize(Step.nl, Step.vl)
    <2>1. /\ At("script") /\ Step.op = "value" /\ ~Outgrows /\ UNCHANGED <<job, vol, disk>>
          /\ rec' = Grown(Step.m, size) /\ Advance(MakeRoom(Step.m, size))
      BY <1>4 DEF AddValueInside, Doing
    <2> HIDE DEF size
    <2>2. Wide(Step) /\ ~Certain(Step)
      BY <2>1, OpeningEntry DEF Wide, Writes, Certain
    <2>3. RecStep
      BY <2>1, <2>2, GrownStep
    <2> QED  BY <2>1, <2>2, <2>3, QuietStep
  <1>5. CASE AddValueOutside
    <2> DEFINE t == TakeFree(g.alloc, g.zone, vol.nr, ByteClusters(Step.vl))
               rl == Coalesce(t.lcns)
               size == NonResidentSize(Step.nl, MappingPairs(rl))
               ok == t.zone > 0 /\ MakeRoom(Step.m, size)
    <2>0. PICK w \in WriteResults(Step.f), u \in [1 .. Len(rl) -> 0 .. MaxIgnored] :
             /\ rec' = IF ok THEN Grown(Step.m, size) ELSE rec
             /\ disk' = IF ok THEN Written(disk, Step.f, Version(w), AllocateRuns(g.alloc, rl, u)) ELSE disk
             /\ job' = [Ignoring(MapThenSumSet(LAMBDA i : u[i], 1 .. Len(rl)), Forgotten(rl, u))
                           EXCEPT !.faulted = @ \/ ~w]
             /\ Advance(ok /\ w)
      BY <1>5 DEF AddValueOutside
    <2> DEFINE a == AllocateRuns(g.alloc, rl, u)
               n == MapThenSumSet(LAMBDA i : u[i], 1 .. Len(rl))
               L == Forgotten(rl, u)
    <2>1. /\ rec' = IF ok THEN Grown(Step.m, size) ELSE rec
          /\ disk' = IF ok THEN Written(disk, Step.f, Version(w), a) ELSE disk
          /\ job' = [Ignoring(n, L) EXCEPT !.faulted = @ \/ ~w]
          /\ Advance(ok /\ w)
      BY <2>0
    <2> HIDE DEF a, n, L
    <2>2. At("script") /\ Step.op = "value" /\ vol' = vol
      BY <1>5 DEF AddValueOutside, Doing
    <2>3. Writes(Step) /\ Wide(Step) /\ w \in BOOLEAN
      BY <2>2 DEF Wide, Writes, WriteResults
    <2>4. ok \in BOOLEAN
      OBVIOUS
    <2> HIDE DEF size, ok
    <2>5. RecStep
      BY <2>1, <2>2, <2>3, GrownStep
    <2>6. AJob(job') /\ job'.label = job.label /\ job'.dirty = job.dirty
      BY <2>1, FaultedShape DEF LastInv
    <2> QED  BY <2>1, <2>2, <2>3, <2>4, <2>5, <2>6, WritingStep
  <1>6. CASE AddBlockEntry
    <2>1. PICK ok : /\ At("script") /\ Step.op = "blockentry" /\ UNCHANGED <<job, vol, disk>>
                    /\ rec' = rec /\ Advance(ok)
      BY <1>6 DEF AddBlockEntry, Doing
    <2>2. ~Certain(Step) /\ ~Wide(Step)
      BY <2>1 DEF Certain, Outer, Wide, Writes
    <2>3. RecStep
      BY <2>1, GrownStep, 0 \in Nat
    <2> QED  BY <2>1, <2>2, <2>3, QuietStep
  <1>7. CASE AddRootEntry
    <2>1. PICK ok : /\ At("script") /\ Step.op = "rootentry" /\ UNCHANGED <<job, vol, disk>>
                    /\ rec' = [rec EXCEPT ![Step.m] = rec[Step.m] + Step.vl] /\ Advance(ok)
      BY <1>7 DEF AddRootEntry, Doing
    <2>2. ~Certain(Step)
      BY <2>1 DEF Certain, Outer
    <2>3. Legal(Step) /\ Step.m \in Records
      BY <2>1, OpeningEntry
    <2>4. Step.vl \in Nat
      BY <2>1, <2>3, NarrowSizes
    <2>5. DOMAIN rec = Records
      BY <2>1 DEF LastInv, Reached
    <2>6. RecStep
      BY <2>1, <2>3, <2>4, <2>5, SMTT(40) DEF RecStep
    <2> QED  BY <2>1, <2>2, <2>6, QuietStep
  <1>8. CASE BackupBootSector \/ BackupBootSectorErr
    <2>1. /\ At("script") /\ Step.op = "backup" /\ rec' = rec /\ vol' = vol /\ Advance(TRUE)
          /\ \/ disk' = [disk EXCEPT !.backup = TRUE] /\ job' = job
             \/ disk' = disk /\ job' = [job EXCEPT !.faulted = TRUE, !.dirty = TRUE]
      BY <1>8 DEF BackupBootSector, BackupBootSectorErr, Doing
    <2>2. Shaped
      BY DEF LastInv
    <2>3. /\ disk'.ver = disk.ver /\ job'.label = job.label
          /\ disk'.backup \/ job'.dirty
          /\ disk' = [ver |-> disk'.ver, bits |-> disk'.bits, backup |-> disk'.backup, boot |-> disk'.boot]
          /\ AJob(job')
      <3>1. CASE disk' = [disk EXCEPT !.backup = TRUE] /\ job' = job
        BY <2>2, <3>1 DEF Shaped
      <3>2. CASE disk' = disk /\ job' = [job EXCEPT !.faulted = TRUE, !.dirty = TRUE]
        BY <2>2, <3>2 DEF Shaped, AJob
      <3> QED  BY <2>1, <3>1, <3>2
    <2>4. ~Certain(Step) /\ ~Wide(Step) /\ pc.i + 1 < Len(Steps)
      BY <2>1, OpeningEntry DEF Certain, Outer, Wide, Writes
    <2>5. pc' = [at |-> pc'.at, i |-> pc'.i] /\ pc' = [pc EXCEPT !.i = pc.i + 1]
      BY <2>1, <2>2, <2>4, AdvanceShape
    <2>6. Shaped'
      BY <2>2, <2>3, <2>5 DEF Shaped
    <2>7. RecStep
      BY <2>1, GrownStep, 0 \in Nat
    <2> QED  BY <2>1, <2>3, <2>4, <2>5, <2>6, <2>7, OpeningDone
  <1>9. CASE QuotaNoMemory
    BY <1>9, QuotaSkipped
  <1> QED  BY <1>1, <1>2, <1>3, <1>4, <1>5, <1>6, <1>7, <1>8, <1>9

\* The syncs keep the order: $MFT's comes when all but $MFTMirr is final.
LEMMA LastSync == ASSUME LastInv, Sync PROVE LastInv'
  <1> DEFINE n == pc.i
             lo == Len(O)
  <1>1. At("script") /\ Step.op = "sync" /\ UNCHANGED <<vol, rec>>
    BY DEF Sync, Doing
  <1>2. PICK w \in BOOLEAN :
           /\ disk' = Written(disk, Step.f, Version(w), g.alloc)
           /\ job' = [job EXCEPT !.faulted = job.faulted \/ ~w,
                                 !.ret = IF w /\ pc.i + 1 = Len(Steps) THEN "ok" ELSE job.ret]
           /\ Advance(w)
    BY DEF Sync, WriteResults
  <1>3. Reached(n) /\ Shaped
    BY <1>1 DEF LastInv
  <1>4. /\ lo \in Nat /\ Len(Steps) = lo + 4
        /\ \A k \in 1 .. lo : Steps[k] = O[k]
        /\ Steps[lo + 1] = Op("sync", 5, "root", 0, 0, 0, "final")
        /\ Steps[lo + 2] = Op("sync", 6, "bitmap", 0, 0, 0, "final")
        /\ Steps[lo + 3] = Op("sync", 0, "mft", 0, 0, 0, "final")
        /\ Steps[lo + 4] = Op("sync", 1, "mirr", 0, 0, 0, "final")
    BY StepsNow
  <1>5. \A k \in 1 .. lo : O[k].op # "sync"
    BY StepsNow
  <1>6. n \in 0 .. lo + 3
    BY <1>3 DEF Reached
  <1>20. lo \in Nat /\ Len(Steps) = lo + 4
    BY <1>4
  <1>7. n \in lo .. lo + 3
    <2>1. n + 1 \notin 1 .. lo
      BY <1>1, <1>4, <1>5 DEF Step
    <2> QED  BY <1>6, <1>20, <2>1, SMTT(40)
  <1>8. /\ Step.ver = "final"
        /\ Step.f \in Files \ Plain
        /\ n = lo => Step.f = "root"
        /\ n = lo + 1 => Step.f = "bitmap"
        /\ n = lo + 2 => Step.f = "mft"
        /\ n = lo + 3 => Step.f = "mirr"
    <2>1. CASE n = lo
      BY <1>4, <2>1, SMTT(40) DEF Step, Op, Files, Plain
    <2>2. CASE n = lo + 1
      <3>1. Step = Steps[lo + 2]
        BY <1>4, <2>2, SMTT(40) DEF Step
      <3> QED  BY <1>4, <2>2, <3>1, SMTT(40) DEF Op, Files, Plain
    <2>3. CASE n = lo + 2
      <3>1. Step = Steps[lo + 3]
        BY <1>4, <2>3, SMTT(40) DEF Step
      <3> QED  BY <1>4, <2>3, <3>1, SMTT(40) DEF Op, Files, Plain
    <2>4. CASE n = lo + 3
      <3>1. Step = Steps[lo + 4]
        BY <1>4, <2>4, SMTT(40) DEF Step
      <3> QED  BY <1>4, <2>4, <3>1, SMTT(40) DEF Op, Files, Plain
    <2>5. n = lo \/ n = lo + 1 \/ n = lo + 2 \/ n = lo + 3
      BY <1>7, <1>20, SMTT(40)
    <2> QED  BY <2>1, <2>2, <2>3, <2>4, <2>5
  <1> DEFINE v == Version(w)
  <1>9. v \in Versions /\ (w => v = "final") /\ (~w => v = "torn")
    BY <1>8 DEF Version, Versions
  <1> HIDE DEF v, lo
  <1>10. /\ disk' = [ver |-> disk'.ver, bits |-> disk'.bits, backup |-> disk'.backup, boot |-> disk'.boot]
         /\ disk'.ver = [disk.ver EXCEPT ![Step.f] = v] /\ disk'.backup = disk.backup
         /\ disk'.ver \in [Files -> Versions]
    BY <1>2, <1>3, <1>8, <1>9, WrittenShape DEF v
  <1>11. /\ AJob(job')
         /\ job'.label = job.label /\ job'.dirty = job.dirty
    <2> DEFINE r == IF w /\ pc.i + 1 = Len(Steps) THEN "ok" ELSE job.ret
    <2>1. job' = [job EXCEPT !.faulted = job.faulted \/ ~w, !.ret = r]
      BY <1>2
    <2> HIDE DEF r
    <2>2. job = [size |-> job.size, label |-> job.label, ret |-> job.ret, dirty |-> job.dirty,
                 faulted |-> job.faulted, ignored |-> job.ignored, lost |-> job.lost]
      BY <1>3 DEF Shaped, AJob
    <2>3. job' = [size |-> job.size, label |-> job.label, ret |-> r, dirty |-> job.dirty,
                  faulted |-> job.faulted \/ ~w, ignored |-> job.ignored, lost |-> job.lost]
      BY <2>1, <2>2
    <2> QED  BY <2>3, SMTT(40) DEF AJob
  <1>12. /\ pc' = [at |-> pc'.at, i |-> pc'.i]
         /\ w /\ n + 1 < lo + 4 => pc' = [pc EXCEPT !.i = n + 1]
         /\ ~(w /\ n + 1 < lo + 4) => pc'.at = "cleanup"
    BY <1>1, <1>2, <1>3, <1>4, AdvanceShape
  <1>13. Shaped'
    BY <1>10, <1>11, <1>12 DEF Shaped
  <1>14. \A f \in Files \ {Step.f} : disk'.ver[f] = disk.ver[f]
    BY <1>3, <1>10 DEF Shaped
  <1>15. disk'.ver[Step.f] = v
    BY <1>3, <1>8, <1>10 DEF Shaped
  <1>16. O' = O
    BY <1>1, <1>11 DEF O
  <1>17. CASE w /\ n < lo + 3
    <2>1. pc'.at = "script" /\ pc'.i = n + 1
      BY <1>1, <1>3, <1>4, <1>7, <1>12, <1>17, SMTT(40) DEF Shaped, At
    <2>2. ASSUME NEW k \in 1 .. lo
          PROVE  /\ Certain(O[k]) /\ O[k].f \in Plain => disk'.ver[O[k].f] = "final"
                 /\ O[k].op = "backup" => disk'.backup \/ job'.dirty
      <3>1. k <= n
        BY <1>7, <1>20, SMTT(40)
      <3>2. Plain \subseteq Files
        BY DEF Plain, Clustered, Files
      <3> QED  BY <1>3, <1>8, <1>10, <1>11, <1>14, <3>1, <3>2 DEF Reached, lo
    <2>3. ASSUME NEW m \in OuterRecords, \A k \in 1 .. lo : k <= n + 1 /\ Wide(O[k]) => O[k].m # m
          PROVE  rec'[m] \in Nat
      <3>1. \A k \in 1 .. lo : k <= n /\ Wide(O[k]) => O[k].m # m
        BY <1>7, <1>20, <2>3, SMTT(40)
      <3> QED  BY <1>1, <1>3, <3>1 DEF Reached, lo
    <2>4. n + 1 <= lo + 2 => disk'.ver["mft"] # "final"
      <3> SUFFICES ASSUME n + 1 <= lo + 2 PROVE disk'.ver["mft"] # "final"
        OBVIOUS
      <3>1. n \in {lo, lo + 1} /\ n <= lo + 2
        BY <1>7, <1>20, SMTT(40)
      <3>2. disk.ver["mft"] # "final"
        BY <1>3, <3>1 DEF Reached, lo
      <3> QED  BY <1>8, <1>14, <3>1, <3>2 DEF Files
    <2>5. disk'.ver["root"] = "final"
      <3>1. CASE n = lo
        BY <1>8, <1>9, <1>15, <1>17, <3>1
      <3>2. CASE n # lo
        <4>1. n >= lo + 1 /\ Step.f # "root"
          BY <1>7, <1>8, <1>17, <1>20, <3>2, SMTT(40)
        <4> QED  BY <1>3, <1>14, <4>1 DEF Reached, Files, lo
      <3> QED  BY <3>1, <3>2
    <2>6. n + 1 >= lo + 2 => disk'.ver["bitmap"] = "final"
      <3> SUFFICES ASSUME n + 1 >= lo + 2 PROVE disk'.ver["bitmap"] = "final"
        OBVIOUS
      <3>1. CASE n = lo + 1
        BY <1>8, <1>9, <1>15, <1>17, <3>1
      <3>2. CASE n # lo + 1
        <4>1. n >= lo + 2 /\ Step.f # "bitmap"
          BY <1>7, <1>8, <1>17, <1>20, <3>2, SMTT(40)
        <4> QED  BY <1>3, <1>14, <4>1 DEF Reached, Files, lo
      <3> QED  BY <3>1, <3>2
    <2>7. n + 1 \in 0 .. lo + 3 /\ DOMAIN rec' = Records
      <3>1. n + 1 \in 0 .. lo + 3
        BY <1>7, <1>17, <1>20, SMTT(40)
      <3> QED  BY <1>1, <1>3, <3>1 DEF Reached
    <2>8. Reached(pc.i)'
      BY <1>16, <2>1, <2>2, <2>3, <2>4, <2>5, <2>6, <2>7 DEF Reached, lo
    <2> QED  BY <1>13, <2>1, <2>8 DEF LastInv, At
  <1>18. CASE ~w
    <2>1. pc'.at = "cleanup"
      BY <1>12, <1>18
    <2>2. MftComesLast'
      <3>1. CASE n = lo + 3
        BY <1>1, <1>8, <1>10, <1>11, <1>14, <3>1, LastInScript, SMTT(40) DEF MftComesLast, Clustered, Files
      <3>2. CASE n # lo + 3
        <4>1. disk.ver["mft"] # "final"
          <5>1. n <= lo + 2
            BY <1>7, <1>20, <3>2, SMTT(40)
          <5> QED  BY <1>3, <5>1 DEF Reached, lo
        <4>2. disk'.ver["mft"] # "final"
          BY <1>9, <1>14, <1>15, <1>18, <4>1 DEF Files
        <4> QED  BY <4>2 DEF MftComesLast
      <3> QED  BY <3>1, <3>2
    <2> QED  BY <1>13, <2>1, <2>2 DEF LastInv, At
  <1>19. CASE n = lo + 3
    <2>1. pc'.at = "cleanup"
      BY <1>12, <1>19, <1>20, SMTT(40)
    <2>2. MftComesLast'
      BY <1>1, <1>8, <1>10, <1>11, <1>14, <1>19, LastInScript, SMTT(40) DEF MftComesLast, Clustered, Files
    <2> QED  BY <1>13, <2>1, <2>2 DEF LastInv, At
  <1>21. n < lo + 3 \/ n = lo + 3
    BY <1>7, <1>20, SMTT(40)
  <1> QED  BY <1>17, <1>18, <1>19, <1>21

\* Outside the script nothing is written, and a format starts with a device
\* that holds none of it.
LEMMA LastElse ==
  ASSUME LastInv,
         \/ \E size \in Devices, label \in Labels : NkFormat(size, label)
         \/ OpenPartition \/ OverrideVolParams \/ InitializeBitmaps \/ InitializeRlMft
         \/ InitializeRlLogfile \/ InitializeRlBoot
         \/ NoMemory \/ Cleanup \/ FormatReturn \/ UNCHANGED vars
  PROVE  LastInv'
  <1>0. Shaped
    BY DEF LastInv
  <1>1. ASSUME NEW size \in Devices, NEW label \in Labels, NkFormat(size, label) PROVE LastInv'
    <2>1. disk' = OldDisk /\ job' = NewJob(size, label) /\ pc' = [at |-> "redirect", i |-> 0]
      BY <1>1 DEF NkFormat, Goto
    <2>2. disk'.ver = [f \in Files |-> "old"]
      BY <2>1 DEF OldDisk
    <2>3. disk'.ver["mft"] = "old" /\ disk'.ver \in [Files -> Versions]
      BY <2>2 DEF Files, Versions
    <2>4. disk' = [ver |-> disk'.ver, bits |-> disk'.bits, backup |-> disk'.backup, boot |-> disk'.boot]
      BY <2>1 DEF OldDisk
    <2>5. AJob(job')
      BY <2>1 DEF NewJob, AJob
    <2>6. Shaped'
      BY <2>1, <2>3, <2>4, <2>5 DEF Shaped
    <2> QED  BY <2>1, <2>3, <2>6 DEF LastInv, MftComesLast, At
  <1>2. CASE OpenPartition \/ OverrideVolParams \/ InitializeBitmaps \/ InitializeRlMft
               \/ InitializeRlLogfile
    <2>1. /\ pc.at \in {"redirect", "params", "bitmaps", "mft", "logfile"}
          /\ UNCHANGED disk /\ (UNCHANGED job \/ \E n, L : job' = Ignoring(n, L))
          /\ \E s \in {"params", "bitmaps", "mft", "logfile", "boot", "cleanup"} : Goto(s)
      <3>1. CASE OpenPartition  BY <3>1 DEF OpenPartition, At
      <3>2. CASE OverrideVolParams  BY <3>2, SMTT(40) DEF OverrideVolParams, At, Or
      <3>3. CASE InitializeBitmaps  BY <3>3 DEF InitializeBitmaps, At, Or
      <3>4. CASE InitializeRlMft  BY <3>4 DEF InitializeRlMft, At, Or
      <3>5. CASE InitializeRlLogfile  BY <3>5 DEF InitializeRlLogfile, At, Or
      <3> QED  BY <1>2, <3>1, <3>2, <3>3, <3>4, <3>5
    <2>2. PICK s \in {"params", "bitmaps", "mft", "logfile", "boot", "cleanup"} :
             pc' = [at |-> s, i |-> 0]
      BY <2>1 DEF Goto
    <2>5. AJob(job')
      BY <1>0, <2>1, IgnoringShape DEF Shaped
    <2>3. Shaped'
      BY <1>0, <2>1, <2>2, <2>5 DEF Shaped
    <2>4. disk'.ver["mft"] # "final"
      BY <2>1 DEF LastInv
    <2> QED  BY <2>2, <2>3, <2>4 DEF LastInv, MftComesLast, At
  <1>3. CASE InitializeRlBoot
    <2>1. /\ pc.at = "boot" /\ UNCHANGED <<job, vol, disk>> /\ rec' = LaidOut
          /\ \E s \in {"script", "cleanup"} : Goto(s)
      BY <1>3 DEF InitializeRlBoot, At, Or
    <2>2. PICK s \in {"script", "cleanup"} : pc' = [at |-> s, i |-> 0]
      BY <2>1 DEF Goto
    <2>3. Shaped'
      BY <1>0, <2>1, <2>2 DEF Shaped
    <2>4. disk'.ver["mft"] # "final"
      BY <2>1 DEF LastInv
    <2>5. Len(O') \in Nat
      BY ScriptShape DEF O
    <2>6. DOMAIN rec' = Records /\ \A m \in OuterRecords : rec'[m] \in Nat
      BY <2>1, SMTT(40) DEF LaidOut, OuterRecords, Records, ResidentSize, StdInfo, Align8, CeilDiv
    <2>7. pc'.i = 0
      BY <2>2
    <2>8. Reached(pc.i)'
      <3>1. /\ 0 \in 0 .. Len(O') + 3
            /\ \A k \in 1 .. Len(O') : ~(k <= 0)
            /\ ~(0 >= Len(O') + 1) /\ ~(0 >= Len(O') + 2)
        BY <2>5, SMTT(40)
      <3> QED  BY <2>4, <2>6, <2>7, <3>1 DEF Reached
    <2> QED  BY <2>2, <2>3, <2>4, <2>8 DEF LastInv, MftComesLast, At
  <1>4. CASE NoMemory \/ Cleanup \/ FormatReturn
    <2>1. MftComesLast
      BY LastInScript DEF LastInv
    <2>2. /\ disk' = disk
          /\ pc' = [at |-> "cleanup", i |-> 0] \/ pc' = [at |-> "return", i |-> 0]
               \/ pc' = [at |-> "idle", i |-> 0]
      BY <1>4 DEF NoMemory, Cleanup, FormatReturn, Goto
    <2>3. /\ AJob(job')
          /\ job'.dirty = job.dirty
      <3>1. CASE NoMemory
        <4>1. job' = [job EXCEPT !.faulted = TRUE]
          BY <3>1 DEF NoMemory
        <4> QED  BY <1>0, <4>1 DEF Shaped, AJob
      <3>2. CASE Cleanup
        BY <1>0, <3>2 DEF Cleanup, Shaped
      <3>3. CASE FormatReturn
        <4> DEFINE r == IF job.ret = "ok" THEN job.ret ELSE "err"
        <4>1. job' = [job EXCEPT !.ret = r]
          BY <3>3 DEF FormatReturn
        <4> HIDE DEF r
        <4> QED  BY <1>0, <4>1 DEF Shaped, AJob
      <3> QED  BY <1>4, <3>1, <3>2, <3>3
    <2>4. Shaped'
      BY <1>0, <2>2, <2>3 DEF Shaped
    <2>5. MftComesLast'
      BY <2>1, <2>2, <2>3 DEF MftComesLast
    <2>6. pc'.at \in {"cleanup", "return", "idle"}
      BY <2>2, SMTT(40)
    <2>7. pc'.at # "script" /\ pc'.at \notin {"redirect", "params", "bitmaps", "mft", "logfile", "boot"}
      BY <2>6, SMTT(40)
    <2> QED  BY <2>4, <2>5, <2>7 DEF LastInv, At
  <1>5. CASE UNCHANGED vars
    <2>1. O' = O
      BY <1>5 DEF O, vars
    <2>2. UNCHANGED <<pc, job, vol, rec, disk>>
      BY <1>5 DEF vars
    <2> QED  BY <2>1, <2>2 DEF LastInv, Shaped, Reached, MftComesLast, At
  <1> QED  BY <1>1, <1>2, <1>3, <1>4, <1>5

\* The final $MFT is on the device only over final files, for devices and labels
\* of every size, whichever write or allocation fails.
THEOREM MftLast == Spec => []MftComesLast
  <1>1. LastInv /\ [Next]_vars => LastInv'
    <2> SUFFICES ASSUME LastInv, [Next]_vars PROVE LastInv'
      OBVIOUS
    <2>1. CASE AddResident \/ AddVolName \/ AddPositioned \/ AddValueInside \/ AddValueOutside
                 \/ AddBlockEntry \/ AddRootEntry \/ QuotaNoMemory
                 \/ BackupBootSector \/ BackupBootSectorErr
      BY <2>1, LastOpening
    <2>2. CASE Sync
      BY <2>2, LastSync
    <2>3. CASE \/ \E size \in Devices, label \in Labels : NkFormat(size, label)
               \/ OpenPartition \/ OverrideVolParams \/ InitializeBitmaps \/ InitializeRlMft
               \/ InitializeRlLogfile \/ InitializeRlBoot
               \/ NoMemory \/ Cleanup \/ FormatReturn \/ UNCHANGED vars
      BY <2>3, LastElse
    <2> QED  BY <2>1, <2>2, <2>3 DEF Next
  <1>2. LastInv => MftComesLast
    BY LastInScript DEF LastInv
  <1> QED  BY <1>1, <1>2, LastInit, PTL DEF Spec
=============================================================================
