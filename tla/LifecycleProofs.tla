--------------------------- MODULE LifecycleProofs ---------------------------
(***************************************************************************)
(* Proofs about Lifecycle, for any number of volumes and tasks and whatever  *)
(* overlaps: the kernel mount agrees with the engine, nothing that was to be *)
(* left alone is opened read-write, no engine is left behind, a check fails  *)
(* only for what it found, and a task writes under an open volume only if it *)
(* could not have seen it opened.                                            *)
(***************************************************************************)
EXTENDS Lifecycle, FiniteSetTheorems, TLAPS

\* The default prover and its time; some steps of logic cite Zenon.
USE SMTT(40)

\* A volume and a task.
Vol == [engine : Engines, readOnly : BOOLEAN, wantReadOnly : BOOLEAN, active : BOOLEAN,
        kernel : {"none", "coming", "ro", "rw"}]
Task == [kind : {"check", "format"}, checkOnly : BOOLEAN, vol : Nat,
         st : {"queued", "sampled", "running", "done"}, engine : Engines, err : BOOLEAN,
         missed : SUBSET Nat, fault : BOOLEAN]

\* Types.
Types ==
    /\ writable \in BOOLEAN /\ medium \in Media
    /\ vols \in Seq(Vol) /\ last \in 0 .. Len(vols)
    /\ tasks \in Seq(Task)
    /\ \A t \in 1 .. Len(tasks) : tasks[t].vol \in 0 .. Len(vols)

\* A volume is read-only for its engine exactly if it is for the kernel; only
\* the active volume has an engine, and a kernel mount only over one.
VolOK(v) ==
    /\ v.wantReadOnly = v.readOnly /\ (v.readOnly \/ writable)
    /\ v.engine # "no" => v.active /\ v.engine = IF v.readOnly THEN "ro" ELSE "rw"
    /\ v.kernel # "none" => v.active /\ v.engine # "no"
    /\ v.kernel \in {"ro", "rw"} => v.kernel = v.engine
VolsOK == \A u \in 1 .. Len(vols) : VolOK(vols[u]) /\ (vols[u].active => u = last)

\* A task has its turn when the ones before it are done, an engine only then, and
\* goes on only over a volume.
TaskOK(t) ==
    /\ tasks[t].engine = "rw" => writable /\ ~tasks[t].checkOnly
    /\ tasks[t].st \in {"sampled", "running"} => /\ tasks[t].vol # 0
                                                 /\ \A u \in 1 .. t - 1 : tasks[u].st = "done"
    /\ tasks[t].st \in {"queued", "done"} => tasks[t].engine = "no"
    /\ tasks[t].kind = "format" => ~tasks[t].checkOnly
TasksOK == \A t \in 1 .. Len(tasks) : TaskOK(t)

\* Until a task is done, a volume that is open and that it has not missed is the
\* one it captured, and then the task does not write.
Alone == \A t \in 1 .. Len(tasks) : tasks[t].st # "done" =>
            \A u \in 1 .. Len(vols) : vols[u].engine # "no" =>
                \/ u \in tasks[t].missed
                \/ u = tasks[t].vol /\ tasks[t].engine # "rw"

\* The invariant.
LifecycleInv == Types /\ VolsOK /\ TasksOK /\ Alone

\* The tasks are the same but for what they have missed.
SameTasks ==
    /\ tasks' \in Seq(Task) /\ Len(tasks') = Len(tasks)
    /\ \A t \in 1 .. Len(tasks) :
         /\ tasks'[t].kind = tasks[t].kind /\ tasks'[t].checkOnly = tasks[t].checkOnly
         /\ tasks'[t].vol = tasks[t].vol /\ tasks'[t].st = tasks[t].st
         /\ tasks'[t].engine = tasks[t].engine /\ tasks'[t].err = tasks[t].err
         /\ tasks[t].missed \subseteq tasks'[t].missed

\* The loaded volume is new to task t, or the task is yet to ask it.
Noted(t) == \/ last \in tasks'[t].missed
            \/ tasks[t].st = "queued" /\ tasks[t].vol = last

-----------------------------------------------------------------------------
\* Nothing is loaded at first.
LEMMA InvInit == Init => LifecycleInv
BY DEF Init, LifecycleInv, Types, VolsOK, TasksOK, Media, Alone

\* One volume changes: it is the loaded one, and if it gets an engine every
\* unfinished task misses it or is yet to ask it.
LEMMA VolumeChanges ==
    ASSUME LifecycleInv, last # 0, NEW w \in Vol, vols' = [vols EXCEPT ![last] = w],
           UNCHANGED <<writable, medium, last>>, SameTasks, VolOK(w),
           w.engine # "no" /\ vols[last].engine = "no"
             => \A t \in 1 .. Len(tasks) : tasks[t].st # "done" => Noted(t)
    PROVE  LifecycleInv'
<1>1. last \in 1 .. Len(vols) /\ Len(vols) \in Nat
  BY DEF LifecycleInv, Types
<1>2. /\ vols' \in Seq(Vol) /\ Len(vols') = Len(vols) /\ vols'[last] = w
      /\ \A u \in 1 .. Len(vols) : u # last => vols'[u] = vols[u]
  BY <1>1 DEF LifecycleInv, Types
<1>3. Types'
  BY <1>2 DEF LifecycleInv, Types, SameTasks
<1>4. VolsOK'
  BY <1>1, <1>2 DEF LifecycleInv, VolsOK, VolOK
<1>5. TasksOK'
  <2> SUFFICES ASSUME NEW t \in 1 .. Len(tasks) PROVE TaskOK(t)'
    BY DEF TasksOK, SameTasks
  <2>1. TaskOK(t)
    BY DEF LifecycleInv, TasksOK
  <2> QED
    BY <2>1 DEF TaskOK, SameTasks
<1>6. Alone'
  <2> SUFFICES ASSUME NEW t \in 1 .. Len(tasks), tasks[t].st # "done",
                      NEW u \in 1 .. Len(vols), vols'[u].engine # "no"
               PROVE  \/ u \in tasks'[t].missed
                      \/ u = tasks[t].vol /\ tasks[t].engine # "rw"
    BY <1>2 DEF Alone, SameTasks
  <2>1. tasks[t].missed \subseteq tasks'[t].missed
    BY DEF SameTasks
  <2>2. CASE vols[u].engine # "no"
    BY <2>1, <2>2 DEF LifecycleInv, Alone
  <2>3. CASE vols[u].engine = "no"
    <3>1. u = last /\ Noted(t)
      BY <1>2, <2>3
    <3>2. tasks[t].st = "queued" => tasks[t].engine # "rw"
      BY DEF LifecycleInv, TasksOK, TaskOK
    <3> QED
      BY <3>1, <3>2 DEF Noted
  <2> QED
    BY <2>2, <2>3
<1> QED
  BY <1>3, <1>4, <1>5, <1>6 DEF LifecycleInv

\* Nothing happens to the tasks.
LEMMA TasksUnchanged ==
    ASSUME LifecycleInv, UNCHANGED tasks PROVE SameTasks
BY DEF LifecycleInv, Types, SameTasks

\* Opening a volume is noted by the tasks whose sample cannot show it.
LEMMA OpeningNoted ==
    ASSUME LifecycleInv, last # 0, NoteOpening
    PROVE  SameTasks /\ (vols[last].engine = "no" =>
                           \A t \in 1 .. Len(tasks) : tasks[t].st # "done" => Noted(t))
<1>1. CASE vols[last].engine # "no"
  BY <1>1, TasksUnchanged DEF NoteOpening
<1>2. CASE vols[last].engine = "no"
  <2>1. tasks' = TasksMissing(last) /\ Len(tasks) \in Nat /\ last \in Nat
    BY <1>2 DEF NoteOpening, LifecycleInv, Types
  <2>2. ASSUME NEW t \in 1 .. Len(tasks)
        PROVE  /\ tasks[t] \in Task /\ tasks[t].st \in {"queued", "sampled", "running", "done"}
               /\ tasks'[t] \in {tasks[t], [tasks[t] EXCEPT !.missed = @ \cup {last}]}
               /\ \/ tasks'[t] = [tasks[t] EXCEPT !.missed = @ \cup {last}]
                  \/ tasks[t].st = "done" \/ (tasks[t].st = "queued" /\ tasks[t].vol = last)
    <3>1. tasks[t] \in Task
      BY DEF LifecycleInv, Types
    <3>2. tasks[t].st \in {"queued", "sampled", "running", "done"}
      BY <3>1 DEF Task
    <3>3. tasks'[t] = IF \/ tasks[t].st \in {"sampled", "running"}
                         \/ tasks[t].st = "queued" /\ tasks[t].vol # last
                      THEN [tasks[t] EXCEPT !.missed = @ \cup {last}] ELSE tasks[t]
      BY <2>1, ZenonT(40) DEF TasksMissing
    <3> QED
      BY <3>1, <3>2, <3>3, ZenonT(40)
  <2>3. ASSUME NEW t \in 1 .. Len(tasks), tasks'[t] = [tasks[t] EXCEPT !.missed = @ \cup {last}]
        PROVE  /\ tasks'[t] \in Task
               /\ tasks'[t].kind = tasks[t].kind /\ tasks'[t].checkOnly = tasks[t].checkOnly
               /\ tasks'[t].vol = tasks[t].vol /\ tasks'[t].st = tasks[t].st
               /\ tasks'[t].engine = tasks[t].engine /\ tasks'[t].err = tasks[t].err
               /\ tasks'[t].missed = tasks[t].missed \cup {last}
    BY <2>1, <2>2, <2>3 DEF Task
  <2>4. ASSUME NEW t \in 1 .. Len(tasks)
        PROVE  /\ tasks'[t] \in Task
               /\ tasks'[t].kind = tasks[t].kind /\ tasks'[t].checkOnly = tasks[t].checkOnly
               /\ tasks'[t].vol = tasks[t].vol /\ tasks'[t].st = tasks[t].st
               /\ tasks'[t].engine = tasks[t].engine /\ tasks'[t].err = tasks[t].err
               /\ tasks[t].missed \subseteq tasks'[t].missed
    <3>1. CASE tasks'[t] = tasks[t]
      BY <2>2, <3>1, ZenonT(40)
    <3>2. CASE tasks'[t] = [tasks[t] EXCEPT !.missed = @ \cup {last}]
      BY <2>3, <3>2, ZenonT(40)
    <3> QED
      BY <2>2, <3>1, <3>2, ZenonT(40)
  <2>5. \A t \in 1 .. Len(tasks) : tasks[t].st # "done" => Noted(t)
    BY <2>2, <2>3, ZenonT(40) DEF Noted
  <2>6. tasks' \in Seq(Task) /\ Len(tasks') = Len(tasks)
    <3>1. tasks' = [t \in 1 .. Len(tasks) |-> tasks'[t]]
      BY <2>1, ZenonT(40) DEF TasksMissing
    <3> QED
      BY <2>1, <2>4, <3>1
  <2> QED
    BY <2>4, <2>5, <2>6, ZenonT(40) DEF SameTasks
<1> QED
  BY <1>1, <1>2

\* openEngine gives an engine of the mode the volume then has.
LEMMA OpenedOK ==
    ASSUME LifecycleInv, NEW v \in Vol, v.wantReadOnly = v.readOnly, v.readOnly \/ writable,
           v.engine # "no" => v.engine = IF v.readOnly THEN "ro" ELSE "rw",
           NEW w \in Opened(v)
    PROVE  /\ w \in Vol /\ w.wantReadOnly = w.readOnly /\ (w.readOnly \/ writable)
           /\ w.engine = IF w.readOnly THEN "ro" ELSE "rw"
           /\ w.kernel = v.kernel /\ w.active = v.active
<1>1. CASE v.engine # "no"
  BY <1>1 DEF Opened
<1>2. CASE v.engine = "no" /\ v.readOnly
  <2>1. w = [v EXCEPT !.engine = "ro"]
    BY <1>2 DEF Opened
  <2> QED
    BY <1>2, <2>1, ZenonT(40) DEF Vol, Engines
<1>3. CASE v.engine = "no" /\ ~v.readOnly
  <2>1. w = [v EXCEPT !.engine = "rw"] \/ w = FellBack(v)
    BY <1>3 DEF Opened
  <2>2. CASE w = [v EXCEPT !.engine = "rw"]
    BY <1>3, <2>2 DEF Vol, Engines
  <2>3. CASE w = FellBack(v)
    BY <1>3, <2>3, ZenonT(40) DEF Vol, Engines, FellBack
  <2> QED
    BY <2>1, <2>2, <2>3
<1> QED
  BY <1>1, <1>2, <1>3

\* The loaded volume, as the invariant knows it.
LEMMA LastOK ==
    ASSUME LifecycleInv, last # 0
    PROVE  last \in 1 .. Len(vols) /\ vols[last] \in Vol /\ VolOK(vols[last])
BY DEF LifecycleInv, Types, VolsOK

\* Loading, activating, mounting and their counterparts.
LEMMA VolumeSteps ==
    ASSUME LifecycleInv,
           \/ \E rdonly \in BOOLEAN : LoadResource(rdonly)
           \/ UnloadResource \/ Activate \/ MountVolume \/ KernelMount \/ Unmount \/ Deactivate
    PROVE  LifecycleInv'
<1> DEFINE v == vols[last]
<1>1. ASSUME NEW rdonly \in BOOLEAN, LoadResource(rdonly) PROVE LifecycleInv'
  <2> DEFINE ro == ~writable \/ rdonly
             w == [engine |-> "no", readOnly |-> ro, wantReadOnly |-> ro,
                   active |-> FALSE, kernel |-> "none"]
  <2>1. /\ vols' = Append(vols, w) /\ last = 0 /\ last' = Len(vols) + 1
        /\ UNCHANGED <<writable, medium, tasks>>
    BY <1>1 DEF LoadResource
  <2>2. w \in Vol /\ VolOK(w)
    BY ZenonT(40) DEF Vol, Engines, VolOK
  <2>3. w.active = FALSE /\ w.engine = "no"
    OBVIOUS
  <2> HIDE DEF w
  <2>4. /\ vols' \in Seq(Vol) /\ Len(vols) \in Nat /\ Len(vols') = Len(vols) + 1
        /\ vols'[Len(vols) + 1] = w /\ \A u \in 1 .. Len(vols) : vols'[u] = vols[u]
    BY <2>1, <2>2 DEF LifecycleInv, Types
  <2>5. Types'
    BY <2>1, <2>4 DEF LifecycleInv, Types
  <2>6. VolsOK'
    BY <2>1, <2>2, <2>3, <2>4 DEF LifecycleInv, VolsOK, VolOK
  <2>7. TasksOK'
    BY <2>1 DEF LifecycleInv, TasksOK, TaskOK
  <2>8. Alone'
    BY <2>1, <2>3, <2>4 DEF LifecycleInv, Alone
  <2> QED
    BY <2>5, <2>6, <2>7, <2>8 DEF LifecycleInv
<1>2. CASE UnloadResource
  <2>1. last' = 0 /\ UNCHANGED <<writable, medium, vols, tasks>> /\ ~vols[last].active
    BY <1>2 DEF UnloadResource
  <2>2. Types' /\ VolsOK' /\ TasksOK'
    BY <2>1 DEF LifecycleInv, Types, VolsOK, VolOK, TasksOK, TaskOK
  <2>3. Alone'
    BY <2>1 DEF LifecycleInv, Alone
  <2> QED
    BY <2>2, <2>3 DEF LifecycleInv
<1>3. CASE Activate
  <2>1. PICK o \in Opened(v) : vols' = [vols EXCEPT ![last] = [o EXCEPT !.active = TRUE]]
    BY <1>3, ZenonT(40) DEF Activate
  <2>2. last # 0 /\ NoteOpening /\ UNCHANGED <<writable, medium, last>>
    BY <1>3 DEF Activate
  <2>3. v \in Vol /\ VolOK(v) /\ ~v.active
    BY <1>3, <2>2, LastOK DEF Activate
  <2>4. /\ o \in Vol /\ o.wantReadOnly = o.readOnly /\ (o.readOnly \/ writable)
        /\ o.engine = IF o.readOnly THEN "ro" ELSE "rw"
        /\ o.kernel = v.kernel
    BY <2>3, OpenedOK DEF VolOK
  <2>5. v.kernel = "none"
    BY <2>3 DEF VolOK, Vol
  <2> DEFINE w == [o EXCEPT !.active = TRUE]
  <2>6. w \in Vol /\ VolOK(w)
    BY <2>4, <2>5, ZenonT(40) DEF Vol, VolOK
  <2> QED
    BY <2>1, <2>2, <2>6, OpeningNoted, VolumeChanges, ZenonT(40)
<1>4. CASE MountVolume
  <2>1. PICK o \in Opened(v) : vols' = [vols EXCEPT ![last] = [o EXCEPT !.kernel = "coming"]]
    BY <1>4, ZenonT(40) DEF MountVolume
  <2>2. last # 0 /\ NoteOpening /\ UNCHANGED <<writable, medium, last>>
    BY <1>4 DEF MountVolume
  <2>3. v \in Vol /\ VolOK(v) /\ v.active
    BY <1>4, <2>2, LastOK DEF MountVolume
  <2>4. /\ o \in Vol /\ o.wantReadOnly = o.readOnly /\ (o.readOnly \/ writable)
        /\ o.engine = IF o.readOnly THEN "ro" ELSE "rw"
        /\ o.active = v.active
    BY <2>3, OpenedOK, ZenonT(40) DEF VolOK
  <2> DEFINE w == [o EXCEPT !.kernel = "coming"]
  <2>5. w \in Vol /\ VolOK(w)
    BY <2>3, <2>4, ZenonT(40) DEF Vol, VolOK
  <2> QED
    BY <2>1, <2>2, <2>5, OpeningNoted, VolumeChanges, ZenonT(40)
<1>5. CASE KernelMount
  <2> DEFINE w == [v EXCEPT !.kernel = IF v.wantReadOnly THEN "ro" ELSE "rw"]
  <2>1. last # 0 /\ v.kernel = "coming" /\ vols' = [vols EXCEPT ![last] = w]
        /\ UNCHANGED <<writable, medium, last, tasks>>
    BY <1>5 DEF KernelMount
  <2>2. v \in Vol /\ VolOK(v)
    BY <2>1, LastOK
  <2>3. w \in Vol /\ VolOK(w) /\ w.engine = v.engine
    BY <2>1, <2>2 DEF Vol, VolOK
  <2> QED
    BY <2>1, <2>3, TasksUnchanged, VolumeChanges, ZenonT(40)
<1>6. CASE Unmount
  <2> DEFINE w == [v EXCEPT !.kernel = "none", !.engine = "no"]
  <2>1. last # 0 /\ UNCHANGED <<writable, medium, last, tasks>>
    BY <1>6 DEF Unmount
  <2>2. v \in Vol /\ VolOK(v) /\ last \in 1 .. Len(vols) /\ vols \in Seq(Vol)
    BY <2>1, LastOK DEF LifecycleInv, Types
  <2>3. vols' = [vols EXCEPT ![last] = w]
    BY <1>6, <2>2, ZenonT(40) DEF Unmount
  <2>4. w \in Vol /\ VolOK(w) /\ w.engine = "no"
    BY <2>2, ZenonT(40) DEF Vol, VolOK, Engines
  <2> QED
    BY <2>1, <2>3, <2>4, TasksUnchanged, VolumeChanges, ZenonT(40)
<1>7. CASE Deactivate
  <2> DEFINE w == [v EXCEPT !.active = FALSE, !.engine = "no"]
  <2>1. last # 0 /\ v.kernel = "none" /\ UNCHANGED <<writable, medium, last, tasks>>
    BY <1>7 DEF Deactivate
  <2>2. v \in Vol /\ VolOK(v) /\ last \in 1 .. Len(vols) /\ vols \in Seq(Vol)
    BY <2>1, LastOK DEF LifecycleInv, Types
  <2>3. vols' = [vols EXCEPT ![last] = w]
    BY <1>7, <2>2, ZenonT(40) DEF Deactivate
  <2>4. w \in Vol /\ VolOK(w) /\ w.engine = "no"
    BY <2>1, <2>2, ZenonT(40) DEF Vol, VolOK, Engines
  <2> QED
    BY <2>1, <2>3, <2>4, TasksUnchanged, VolumeChanges, ZenonT(40)
<1> QED
  BY <1>1, <1>2, <1>3, <1>4, <1>5, <1>6, <1>7

-----------------------------------------------------------------------------
\* startCheck and startFormat capture the loaded volume, the only one that may
\* have an engine.
LEMMA StartStep ==
    ASSUME LifecycleInv, NEW kind \in {"check", "format"}, NEW checkOnly \in BOOLEAN,
           kind = "format" => ~checkOnly, Start(kind, checkOnly)
    PROVE  LifecycleInv' /\ \A t \in 1 .. Len(tasks) : tasks'[t] = tasks[t]
<1> DEFINE n == [kind |-> kind, checkOnly |-> checkOnly, vol |-> last,
                 st |-> "queued", engine |-> "no", err |-> FALSE,
                 missed |-> {}, fault |-> FALSE]
<1>1. tasks' = Append(tasks, n) /\ UNCHANGED <<writable, medium, vols, last>>
  BY DEF Start
<1>2. n \in Task /\ n.vol \in 0 .. Len(vols)
  BY DEF Task, Engines, LifecycleInv, Types
<1>3. /\ n.engine = "no" /\ n.st = "queued" /\ n.vol = last
      /\ n.kind = "format" => ~n.checkOnly
  OBVIOUS
<1> HIDE DEF n
<1>4. /\ tasks' \in Seq(Task) /\ Len(tasks) \in Nat /\ Len(tasks') = Len(tasks) + 1
      /\ tasks'[Len(tasks) + 1] = n /\ \A t \in 1 .. Len(tasks) : tasks'[t] = tasks[t]
  BY <1>1, <1>2 DEF LifecycleInv, Types
<1>5. Types'
  BY <1>1, <1>2, <1>4 DEF LifecycleInv, Types
<1>6. VolsOK'
  BY <1>1 DEF LifecycleInv, VolsOK, VolOK
<1>7. \A u \in 1 .. Len(vols) : vols[u].engine # "no" => u = last
  BY DEF LifecycleInv, VolsOK, VolOK
<1>8. TasksOK'
  <2> SUFFICES ASSUME NEW t \in 1 .. Len(tasks) + 1 PROVE TaskOK(t)'
    BY <1>4 DEF TasksOK
  <2>1. CASE t = Len(tasks) + 1
    BY <1>1, <1>3, <1>4, <2>1 DEF TaskOK
  <2>2. CASE t \in 1 .. Len(tasks)
    BY <1>1, <1>4, <2>2 DEF TaskOK, LifecycleInv, TasksOK
  <2> QED
    BY <1>4, <2>1, <2>2
<1>9. Alone'
  BY <1>1, <1>3, <1>4, <1>7 DEF LifecycleInv, Alone
<1> QED
  BY <1>4, <1>5, <1>6, <1>8, <1>9 DEF LifecycleInv

\* The task whose turn it is changes, and what it captured does not.
LEMMA TaskChanges ==
    ASSUME LifecycleInv, NEW t \in 1 .. Len(tasks), NEW n \in Task,
           tasks' = [tasks EXCEPT ![t] = n], medium' \in Media,
           UNCHANGED <<writable, vols, last>>,
           tasks[t].st # "done", \A u \in 1 .. t - 1 : tasks[u].st = "done",
           n.vol = tasks[t].vol, n.kind = tasks[t].kind, n.checkOnly = tasks[t].checkOnly,
           n.engine = "rw" => writable /\ ~n.checkOnly,
           n.st \in {"queued", "done"} => n.engine = "no",
           n.st \in {"sampled", "running"} => n.vol # 0,
           n.missed = tasks[t].missed,
           n.engine = "rw" => \A u \in 1 .. Len(vols) : vols[u].engine # "no" => u \in n.missed
    PROVE  LifecycleInv'
<1>1. /\ tasks' \in Seq(Task) /\ Len(tasks') = Len(tasks) /\ tasks'[t] = n /\ Len(tasks) \in Nat
      /\ \A u \in 1 .. Len(tasks) : u # t => tasks'[u] = tasks[u]
  BY DEF LifecycleInv, Types
<1>2. Types'
  BY <1>1 DEF LifecycleInv, Types
<1>3. VolsOK'
  BY DEF LifecycleInv, VolsOK, VolOK
<1>4. TasksOK'
  <2> SUFFICES ASSUME NEW x \in 1 .. Len(tasks) PROVE TaskOK(x)'
    BY <1>1 DEF TasksOK
  <2>1. TaskOK(x)
    BY DEF LifecycleInv, TasksOK
  <2>2. CASE x = t
    BY <1>1, <2>1, <2>2 DEF TaskOK
  <2>3. CASE x # t
    <3>1. tasks[x].st \in {"sampled", "running"} => x < t
      BY <2>1, <2>3 DEF TaskOK
    <3> QED
      BY <1>1, <2>1, <2>3, <3>1 DEF TaskOK
  <2> QED
    BY <2>2, <2>3
<1>5. Alone'
  BY <1>1 DEF LifecycleInv, Alone
<1> QED
  BY <1>2, <1>3, <1>4, <1>5 DEF LifecycleInv

\* A block of the maintenance queue goes on.
LEMMA QueueSteps ==
    ASSUME LifecycleInv, QueueStep
    PROVE  LifecycleInv'
<1>1. PICK t \in 1 .. Len(tasks) :
        \/ NothingLoaded(t) \/ CheckSample(t) \/ FormatSample(t)
        \/ RunEngine(t) \/ CheckDone(t) \/ CheckError(t) \/ FormatDone(t)
  BY DEF QueueStep
<1> DEFINE k == tasks[t]
<1>2. k \in Task /\ TaskOK(t) /\ k.st \in {"queued", "sampled", "running", "done"}
  <2>1. k \in Task
    BY DEF LifecycleInv, Types
  <2>2. TaskOK(t)
    BY DEF LifecycleInv, TasksOK
  <2> QED
    BY <2>1, <2>2 DEF Task
<1>3. k.st # "done" /\ (\A u \in 1 .. t - 1 : tasks[u].st = "done") /\ UNCHANGED <<writable, vols, last>>
  BY <1>1, ZenonT(40) DEF NothingLoaded, CheckSample, FormatSample, RunEngine, CheckDone, CheckError,
     FormatDone, Turn
<1>4. medium' \in Media
  BY <1>1, ZenonT(40) DEF NothingLoaded, CheckSample, FormatSample, RunEngine, CheckDone, CheckError,
     FormatDone, LifecycleInv, Types, Media
<1>5. ASSUME NEW err \in BOOLEAN, NEW fault \in BOOLEAN,
             tasks' = [Finish(t, err) EXCEPT ![t].fault = fault]
      PROVE  LifecycleInv'
  <2> DEFINE n == [k EXCEPT !.st = "done", !.engine = "no", !.err = err, !.fault = fault]
  <2>1. tasks' = [tasks EXCEPT ![t] = n]
    BY <1>5, ZenonT(40) DEF Finish, LifecycleInv, Types
  <2>2. /\ n \in Task /\ n.engine = "no" /\ n.st = "done" /\ n.missed = k.missed
        /\ n.vol = k.vol /\ n.kind = k.kind /\ n.checkOnly = k.checkOnly
    BY <1>2, ZenonT(40) DEF Task, Engines
  <2> HIDE DEF n
  <2> QED
    BY <1>3, <1>4, <2>1, <2>2, TaskChanges, ZenonT(40)
<1>6. ASSUME NEW st \in {"sampled", "running"}, NEW e \in Engines,
             tasks' = [tasks EXCEPT ![t].st = st, ![t].engine = e], k.vol # 0,
             e = "rw" => writable /\ ~k.checkOnly,
             e = "rw" => \A u \in 1 .. Len(vols) : vols[u].engine # "no" => u \in k.missed
      PROVE  LifecycleInv'
  <2> DEFINE n == [k EXCEPT !.st = st, !.engine = e]
  <2>1. tasks' = [tasks EXCEPT ![t] = n]
    BY <1>6, ZenonT(40) DEF LifecycleInv, Types
  <2>2. /\ n \in Task /\ n.engine = e /\ n.st = st /\ n.missed = k.missed
        /\ n.vol = k.vol /\ n.kind = k.kind /\ n.checkOnly = k.checkOnly
    BY <1>2, <1>6, ZenonT(40) DEF Task
  <2> HIDE DEF n
  <2>3. /\ n.engine = "rw" => writable /\ ~n.checkOnly
        /\ n.st \notin {"queued", "done"} /\ n.vol # 0
        /\ n.engine = "rw" => \A u \in 1 .. Len(vols) : vols[u].engine # "no" => u \in n.missed
    BY <1>6, <2>2
  <2> QED
    BY <1>3, <1>4, <2>1, <2>2, <2>3, TaskChanges, ZenonT(40)
\* If the volume the task captured is not open, it has missed all that are.
<1>7. ~EngineOpen(t) => \A u \in 1 .. Len(vols) : vols[u].engine # "no" => u \in k.missed
  BY <1>3 DEF LifecycleInv, Alone, EngineOpen
\* An end without a failing call.
<1>15. ASSUME NEW err \in BOOLEAN, tasks' = Finish(t, err) PROVE LifecycleInv'
  <2> DEFINE n == [k EXCEPT !.st = "done", !.engine = "no", !.err = err]
  <2>1. tasks' = [tasks EXCEPT ![t] = n]
    BY <1>15, ZenonT(40) DEF Finish, LifecycleInv, Types
  <2>2. /\ n \in Task /\ n.engine = "no" /\ n.st = "done" /\ n.missed = k.missed
        /\ n.vol = k.vol /\ n.kind = k.kind /\ n.checkOnly = k.checkOnly
    BY <1>2, ZenonT(40) DEF Task, Engines
  <2> HIDE DEF n
  <2> QED
    BY <1>3, <1>4, <2>1, <2>2, TaskChanges, ZenonT(40)
<1>8. CASE NothingLoaded(t)
  BY <1>15, <1>8, ZenonT(40) DEF NothingLoaded
<1>9. CASE CheckSample(t)
  <2> DEFINE e == IF ~k.checkOnly /\ writable /\ ~EngineOpen(t) THEN "rw" ELSE "ro"
  <2>1. tasks' = [tasks EXCEPT ![t].st = "sampled", ![t].engine = e] /\ e \in Engines
    BY <1>9 DEF CheckSample, Engines
  <2>2. e = "rw" => writable /\ ~k.checkOnly /\ ~EngineOpen(t)
    OBVIOUS
  <2>3. k.vol # 0
    BY <1>9 DEF CheckSample
  <2> HIDE DEF e
  <2> QED
    BY <1>6, <1>7, <2>1, <2>2, <2>3, ZenonT(40)
<1>10. CASE FormatSample(t)
  <2>1. k.kind = "format" /\ ~k.checkOnly /\ k.vol # 0
    BY <1>2, <1>10 DEF FormatSample, TaskOK
  <2>2. CASE writable /\ ~EngineOpen(t)
    BY <1>6, <1>7, <1>10, <2>1, <2>2 DEF FormatSample, Engines
  <2>3. CASE ~(writable /\ ~EngineOpen(t))
    BY <1>15, <1>10, <2>3, ZenonT(40) DEF FormatSample
  <2> QED
    BY <2>2, <2>3
<1>11. CASE RunEngine(t)
  <2>1. k.engine \in Engines
    BY <1>2 DEF Task
  <2>2. tasks' = [tasks EXCEPT ![t].st = "running", ![t].engine = k.engine]
    BY <1>11, ZenonT(40) DEF RunEngine, LifecycleInv, Types, Task
  <2>3. k.engine = "rw" => writable /\ ~k.checkOnly
    BY <1>2 DEF TaskOK
  <2>4. k.engine = "rw" => \A u \in 1 .. Len(vols) : vols[u].engine # "no" => u \in k.missed
    BY <1>3 DEF LifecycleInv, Alone
  <2>5. k.vol # 0
    BY <1>2, <1>11 DEF RunEngine, Turn, TaskOK
  <2> HIDE DEF k
  <2> QED
    BY <1>6, <2>1, <2>2, <2>3, <2>4, <2>5, ZenonT(40)
<1>12. CASE CheckDone(t)
  BY <1>15, <1>12, ZenonT(40) DEF CheckDone, CheckFailed
<1>13. CASE CheckError(t)
  BY <1>5, <1>13, ZenonT(40) DEF CheckError
<1>14. CASE FormatDone(t)
  BY <1>15, <1>14, ZenonT(40) DEF FormatDone
<1> QED
  BY <1>1, <1>8, <1>9, <1>10, <1>11, <1>12, <1>13, <1>14

\* Every step keeps the invariant.
LEMMA InvNext == LifecycleInv /\ [Next]_vars => LifecycleInv'
<1> SUFFICES ASSUME LifecycleInv, [Next]_vars PROVE LifecycleInv'
  OBVIOUS
<1>1. ASSUME NEW checkOnly \in BOOLEAN, Start("check", checkOnly) PROVE LifecycleInv'
  BY <1>1, StartStep
<1>2. CASE Start("format", FALSE)
  BY <1>2, StartStep, ZenonT(40)
<1>3. CASE UNCHANGED vars
  BY <1>3 DEF vars, LifecycleInv, Types, VolsOK, VolOK, TasksOK, TaskOK, Alone
<1> QED
  BY <1>1, <1>2, <1>3, VolumeSteps, QueueSteps, ZenonT(40) DEF Next

\* It is an invariant.
LEMMA Invariant == Spec => []LifecycleInv
BY InvInit, InvNext, PTL DEF Spec

-----------------------------------------------------------------------------
\* For any number of volumes loaded and tasks queued, opened and started in any
\* order: one task and one volume at a time write to the device, and both only
\* if the volume was opened where the task's sample could not show it.
THEOREM WritersExclude == Spec => []OneWriter
<1>1. LifecycleInv => OneWriter
  <2> SUFFICES ASSUME LifecycleInv PROVE OneWriter
    OBVIOUS
  <2> DEFINE tasksRW == {t \in 1 .. Len(tasks) : tasks[t].st = "running" /\ tasks[t].engine = "rw"}
             volsOpen == {v \in 1 .. Len(vols) : vols[v].engine # "no"}
  <2>1. ASSUME NEW S, \A x, y \in S : x = y PROVE Cardinality(S) <= 1
    <3>1. S = {} \/ \E x : S = {x}
      BY <2>1
    <3>2. CASE S = {}
      <4>1. Cardinality(S) = 0
        BY <3>2, FS_EmptySet
      <4> QED
        BY <4>1
    <3>3. ASSUME NEW x, S = {x} PROVE Cardinality(S) <= 1
      <4>1. Cardinality(S) = 1
        BY <3>3, FS_Singleton
      <4> QED
        BY <4>1
    <3> QED
      BY <3>1, <3>2, <3>3, ZenonT(40)
  <2>2. \A x, y \in volsOpen : x = y
    BY DEF LifecycleInv, VolsOK, VolOK
  <2>3. \A x, y \in tasksRW : x = y
    <3> SUFFICES ASSUME NEW x \in tasksRW, NEW y \in tasksRW, x < y PROVE FALSE
      OBVIOUS
    <3>1. TaskOK(y)
      BY DEF LifecycleInv, TasksOK
    <3>2. x \in 1 .. y - 1
      OBVIOUS
    <3> QED
      BY <3>1, <3>2 DEF TaskOK
  <2>4. \A t \in tasksRW : volsOpen \subseteq tasks[t].missed
    BY DEF LifecycleInv, Alone
  <2>5. Cardinality(volsOpen) <= 1 /\ Cardinality(tasksRW) <= 1
    BY <2>1, <2>2, <2>3
  <2> QED
    BY <2>4, <2>5 DEF OneWriter
<1> QED
  BY <1>1, Invariant, PTL

\* An engine is open only for the loaded, active volume, so that unloadResource
\* leaves none behind.
THEOREM EnginesClosed == Spec => []NoEngineLeft
<1>1. LifecycleInv => NoEngineLeft
  BY DEF LifecycleInv, VolsOK, VolOK, NoEngineLeft
<1> QED
  BY <1>1, Invariant, PTL

\* The kernel mount is read-only exactly when the engine is, through every
\* fallback and remount, also when a volume is opened during maintenance.
THEOREM KernelAgrees == Spec => []KernelModeAgrees
<1>1. LifecycleInv => KernelModeAgrees
  BY DEF LifecycleInv, VolsOK, VolOK, KernelModeAgrees
<1> QED
  BY <1>1, Invariant, PTL

\* Neither openEngine nor a task opens a device read-write that is not writable,
\* or a volume that was loaded read-only or fell back.
THEOREM ReadOnlyKept == Spec => []ReadOnlyRespected
<1>1. LifecycleInv => ReadOnlyRespected
  BY DEF LifecycleInv, VolsOK, VolOK, TasksOK, TaskOK, ReadOnlyRespected
<1> QED
  BY <1>1, Invariant, PTL

\* What a check may report as failed, for one task and one step.
Blocked(t) == tasks[t].kind = "check" /\ tasks'[t].err /\ ~tasks[t].err
                => tasks[t].vol # 0 /\ (medium = "broken" \/ tasks'[t].fault)

\* A step of the queue changes one task, and fails a check only over a broken
\* medium or when a call failed.
LEMMA QueueBlocks ==
    ASSUME LifecycleInv, QueueStep, NEW t \in 1 .. Len(tasks)
    PROVE  Blocked(t)
<1>1. PICK x \in 1 .. Len(tasks) :
        \/ NothingLoaded(x) \/ CheckSample(x) \/ FormatSample(x)
        \/ RunEngine(x) \/ CheckDone(x) \/ CheckError(x) \/ FormatDone(x)
  BY DEF QueueStep
<1>2. tasks \in Seq(Task) /\ tasks[t] \in Task /\ tasks[x] \in Task
  BY DEF LifecycleInv, Types
<1>3. CASE t # x
  <2>1. tasks'[t] = tasks[t]
    BY <1>1, <1>2, <1>3 DEF NothingLoaded, CheckSample, FormatSample, RunEngine, CheckDone,
       CheckError, FormatDone, Finish
  <2> QED
    BY <2>1 DEF Blocked
<1>4. CASE t = x
  <2>1. ASSUME NEW err, tasks' = Finish(t, err) PROVE tasks'[t].err = err
    BY <1>2, <2>1 DEF Finish, Task
  <2>2. CASE NothingLoaded(x)
    <3>1. tasks'[t].err = (tasks[t].kind = "format")
      BY <1>4, <2>1, <2>2 DEF NothingLoaded
    <3> QED
      BY <3>1, ZenonT(40) DEF Blocked
  <2>3. CASE CheckSample(x) \/ RunEngine(x)
    <3>1. tasks'[t].err = tasks[t].err
      BY <1>2, <1>4, <2>3 DEF CheckSample, RunEngine, Task
    <3> QED
      BY <3>1 DEF Blocked
  <2>4. CASE FormatSample(x) \/ FormatDone(x)
    BY <1>4, <2>4 DEF FormatSample, FormatDone, Blocked
  <2>5. CASE CheckDone(x) \/ CheckError(x)
    <3>1. tasks[t].vol # 0
      BY <1>2, <1>4, <2>5, ZenonT(40) DEF CheckDone, CheckError, Turn, LifecycleInv, TasksOK, TaskOK
    <3>2. tasks'[t].err => medium = "broken" \/ tasks'[t].fault
      <4>1. CASE CheckError(x)
        BY <1>2, <1>4, <4>1 DEF CheckError, Finish, Task
      <4>2. CASE CheckDone(x)
        <5>1. tasks'[t].err = CheckFailed(tasks[t].engine)
          BY <1>4, <2>1, <4>2 DEF CheckDone
        <5>2. medium \in Media
          BY DEF LifecycleInv, Types
        <5>3. CheckFailed(tasks[t].engine) => medium = "broken"
          BY <5>2 DEF CheckFailed, Accepts, Media
        <5> QED
          BY <5>1, <5>3
      <4> QED
        BY <2>5, <4>1, <4>2
    <3> QED
      BY <3>1, <3>2 DEF Blocked
  <2> QED
    BY <1>1, <2>2, <2>3, <2>4, <2>5
<1> QED
  BY <1>3, <1>4

\* startCheck reports an error only for a volume that is there and broken, or
\* when a call of nk_fsck failed: never because Windows is hibernated, the volume
\* dirty, or nothing loaded.
THEOREM ChecksNeverBlock == Spec => CheckNeverBlocks
<1>1. LifecycleInv /\ [Next]_vars
        => [\A t \in 1 .. Len(tasks) : tasks[t].kind = "check" /\ tasks'[t].err /\ ~tasks[t].err
              => tasks[t].vol # 0 /\ (medium = "broken" \/ tasks'[t].fault)]_vars
  <2> SUFFICES ASSUME LifecycleInv, [Next]_vars, NEW t \in 1 .. Len(tasks) PROVE Blocked(t)
    BY DEF Blocked
  <2>1. CASE QueueStep
    BY <2>1, QueueBlocks
  <2>2. ASSUME NEW kind \in {"check", "format"}, NEW checkOnly \in BOOLEAN,
               kind = "format" => ~checkOnly, Start(kind, checkOnly)
        PROVE  Blocked(t)
    <3>1. tasks'[t] = tasks[t]
      BY <2>2, StartStep
    <3> QED
      BY <3>1 DEF Blocked
  <2>3. CASE SameTasks
    BY <2>3, ZenonT(40) DEF Blocked, SameTasks
  <2>4. CASE Activate \/ MountVolume
    BY <2>3, <2>4, OpeningNoted, ZenonT(40) DEF Activate, MountVolume
  <2>5. CASE tasks' = tasks
    BY <2>3, <2>5, TasksUnchanged
  <2> QED
    BY <2>1, <2>2, <2>4, <2>5, ZenonT(40) DEF Next, vars, LoadResource, UnloadResource,
       KernelMount, Unmount, Deactivate
<1> QED
  BY <1>1, Invariant, PTL DEF Spec, CheckNeverBlocks
=============================================================================
