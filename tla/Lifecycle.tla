------------------------------ MODULE Lifecycle ------------------------------
(***************************************************************************)
(* Loading, activating and mounting a volume (NTFSFileSystem, NTFSVolume)   *)
(* next to the check and format tasks of the maintenance queue.             *)
(*                                                                         *)
(* Every engine over the device counts: the one of a volume and the one a   *)
(* task runs.  A task is started by an upcall that captures the loaded      *)
(* resource and volume and enqueues a block; the queue's own thread runs    *)
(* the blocks one after the other.  Volumes are opened at any time: nothing *)
(* in the code keeps the upcalls away from an unfinished task.              *)
(***************************************************************************)
EXTENDS Integers, Sequences, FiniteSets

CONSTANTS
    MaxVols,      \* bound: volumes ever loaded
    MaxTasks      \* bound: tasks ever started

ASSUME LifecycleAssumption == MaxVols \in Nat /\ MaxTasks \in Nat

VARIABLES
    writable,   \* the block device is writable
    medium,     \* what is on it: "clean", "dirty", "hibernated", "broken"
    vols,       \* the NTFSVolume objects, in order of loading
    last,       \* lastVolume (index) with lastResource, or 0
    tasks       \* check and format tasks, in the order of the queue; of each
                \* also two histories: `missed`, the volumes opened where its
                \* sample of isEngineOpen could not show it, and `fault`, a call
                \* of its nk_fsck failed

vars == <<writable, medium, vols, last, tasks>>

Engines == {"no", "ro", "rw"}
Media == {"clean", "dirty", "hibernated", "broken"}
Accepts(mode) == IF mode = "rw" THEN medium \in {"clean", "dirty"} ELSE medium # "broken"

Init == /\ writable \in BOOLEAN /\ medium \in Media
        /\ vols = <<>> /\ last = 0 /\ tasks = <<>>

-----------------------------------------------------------------------------
\* loadResource: `rdonly` is the mount option.
LoadResource(rdonly) ==
    LET ro == ~writable \/ rdonly
    IN  /\ last = 0 /\ Len(vols) < MaxVols
        /\ vols' = Append(vols, [engine |-> "no", readOnly |-> ro, wantReadOnly |-> ro,
                                 active |-> FALSE, kernel |-> "none"])
        /\ last' = Len(vols) + 1
        /\ UNCHANGED <<writable, medium, tasks>>

UnloadResource ==
    /\ last # 0 /\ ~vols[last].active
    /\ last' = 0
    /\ UNCHANGED <<writable, medium, vols, tasks>>

\* Mutant: the fallback is not reported to the kernel.
FellBackSilently(v) == [v EXCEPT !.engine = "ro", !.readOnly = TRUE]

FellBack(v) == [v EXCEPT !.engine = "ro", !.readOnly = TRUE, !.wantReadOnly = TRUE]

\* Mutant: read-write is tried whatever was asked for.
OpenedWriting(v) ==
    IF v.engine # "no" THEN {v}
    ELSE IF Accepts("rw") THEN {[v EXCEPT !.engine = "rw"]}
    ELSE IF Accepts("ro") THEN {FellBack(v)} ELSE {}

\* openEngine: nothing to do when open; read-write if asked for and possible,
\* else read-only, else an error (no value).
Opened(v) ==
    IF v.engine # "no" THEN {v}
    ELSE IF v.readOnly THEN IF Accepts("ro") THEN {[v EXCEPT !.engine = "ro"]} ELSE {}
    ELSE IF Accepts("rw") THEN {[v EXCEPT !.engine = "rw"]}
    ELSE IF Accepts("ro") THEN {FellBack(v)} ELSE {}

\* The tasks when volume v is opened: one that has sampled, and one that will
\* ask another volume, miss it.
TasksMissing(v) ==
    [t \in 1 .. Len(tasks) |->
        IF tasks[t].st \in {"sampled", "running"} \/ (tasks[t].st = "queued" /\ tasks[t].vol # v)
        THEN [tasks[t] EXCEPT !.missed = @ \cup {v}] ELSE tasks[t]]
NoteOpening == tasks' = IF vols[last].engine = "no" THEN TasksMissing(last) ELSE tasks

Activate ==
    /\ last # 0 /\ ~vols[last].active
    /\ \E v \in Opened(vols[last]) : vols' = [vols EXCEPT ![last] = [v EXCEPT !.active = TRUE]]
    /\ NoteOpening
    /\ UNCHANGED <<writable, medium, last>>

\* mount(); the kernel mount has to come (KernelMount).
MountVolume ==
    /\ last # 0 /\ vols[last].active /\ vols[last].kernel = "none"
    /\ \E v \in Opened(vols[last]) : vols' = [vols EXCEPT ![last] = [v EXCEPT !.kernel = "coming"]]
    /\ NoteOpening
    /\ UNCHANGED <<writable, medium, last>>

\* The kernel reads requestedMountOptions after mount() replied.
KernelMount ==
    /\ last # 0 /\ vols[last].kernel = "coming"
    /\ vols' = [vols EXCEPT ![last].kernel = IF vols[last].wantReadOnly THEN "ro" ELSE "rw"]
    /\ UNCHANGED <<writable, medium, last, tasks>>

\* unmount() closes the engine; the next mount() opens it again.
Unmount ==
    /\ last # 0 /\ vols[last].kernel \in {"ro", "rw"}
    /\ vols' = [vols EXCEPT ![last].kernel = "none", ![last].engine = "no"]
    /\ UNCHANGED <<writable, medium, last, tasks>>

\* Mutant: the engine is left to unmount(), which an unmounted volume never gets.
DeactivateOpen ==
    /\ last # 0 /\ vols[last].active /\ vols[last].kernel = "none"
    /\ vols' = [vols EXCEPT ![last].active = FALSE]
    /\ UNCHANGED <<writable, medium, last, tasks>>

\* deactivate() closes the engine that activate() opened.
Deactivate ==
    /\ last # 0 /\ vols[last].active /\ vols[last].kernel = "none"
    /\ vols' = [vols EXCEPT ![last].active = FALSE, ![last].engine = "no"]
    /\ UNCHANGED <<writable, medium, last, tasks>>

-----------------------------------------------------------------------------
\* startCheck and startFormat up to the dispatch of the block.
Start(kind, checkOnly) ==
    /\ Len(tasks) < MaxTasks
    /\ tasks' = Append(tasks, [kind |-> kind, checkOnly |-> checkOnly, vol |-> last,
                               st |-> "queued", engine |-> "no", err |-> FALSE,
                               missed |-> {}, fault |-> FALSE])
    /\ UNCHANGED <<writable, medium, vols, last>>

\* Block t has its turn: the queue is serial.
Turn(t, st) == /\ tasks[t].st = st
               /\ \A u \in 1 .. t - 1 : tasks[u].st = "done"
EngineOpen(t) == vols[tasks[t].vol].engine # "no"
Finish(t, err) == [tasks EXCEPT ![t].st = "done", ![t].engine = "no", ![t].err = err]

\* Mutant: returning early signals nothing.
NothingLoadedSilent(t) ==
    /\ Turn(t, "queued") /\ tasks[t].vol = 0
    /\ UNCHANGED vars

\* A check without a resource reports clean, a format fails.
NothingLoaded(t) ==
    /\ Turn(t, "queued") /\ tasks[t].vol = 0
    /\ tasks' = Finish(t, tasks[t].kind = "format")
    /\ UNCHANGED <<writable, medium, vols, last>>

\* Mutant: an open engine does not matter.
CheckSampleBlind(t) ==
    /\ Turn(t, "queued") /\ tasks[t].vol # 0 /\ tasks[t].kind = "check"
    /\ tasks' = [tasks EXCEPT ![t].st = "sampled",
                    ![t].engine = IF ~tasks[t].checkOnly /\ writable THEN "rw" ELSE "ro"]
    /\ UNCHANGED <<writable, medium, vols, last>>

\* The mode of the check is settled, the engine not yet running.
CheckSample(t) ==
    /\ Turn(t, "queued") /\ tasks[t].vol # 0 /\ tasks[t].kind = "check"
    /\ tasks' = [tasks EXCEPT ![t].st = "sampled",
                    ![t].engine = IF ~tasks[t].checkOnly /\ writable /\ ~EngineOpen(t)
                                  THEN "rw" ELSE "ro"]
    /\ UNCHANGED <<writable, medium, vols, last>>

FormatSample(t) ==
    /\ Turn(t, "queued") /\ tasks[t].vol # 0 /\ tasks[t].kind = "format"
    /\ tasks' = IF writable /\ ~EngineOpen(t)
                THEN [tasks EXCEPT ![t].st = "sampled", ![t].engine = "rw"]
                ELSE Finish(t, TRUE)
    /\ UNCHANGED <<writable, medium, vols, last>>

RunEngine(t) ==
    /\ Turn(t, "sampled")
    /\ tasks' = [tasks EXCEPT ![t].st = "running"]
    /\ UNCHANGED <<writable, medium, vols, last>>

\* Mutant: a hibernated Windows fails the check.
CheckFailedHibernated(mode) == ~Accepts(mode)

\* nk_fsck returns -1; -2 (hibernated) is not an error for startCheck.
CheckFailed(mode) == ~Accepts(mode) /\ medium # "hibernated"

\* nk_fsck: a repair clears the dirty flag of a volume it could mount.
CheckDone(t) ==
    /\ Turn(t, "running") /\ tasks[t].kind = "check"
    /\ medium' = IF tasks[t].engine = "rw" /\ medium = "dirty" THEN "clean" ELSE medium
    /\ tasks' = Finish(t, CheckFailed(tasks[t].engine))
    /\ UNCHANGED <<writable, vols, last>>

\* A call of nk_fsck fails, whatever is on the medium: an allocation, a read of
\* the mount, clearing the dirty flag, or the unmount after it was cleared.
CheckError(t) ==
    /\ Turn(t, "running") /\ tasks[t].kind = "check"
    /\ medium' \in {medium} \cup
                   {m \in {"clean"} : tasks[t].engine = "rw" /\ medium = "dirty"}
    /\ tasks' = [Finish(t, TRUE) EXCEPT ![t].fault = TRUE]
    /\ UNCHANGED <<writable, vols, last>>

\* nk_format: a new volume, or a broken one when it failed half-way.
FormatDone(t) ==
    /\ Turn(t, "running") /\ tasks[t].kind = "format"
    /\ \/ medium' = "clean" /\ tasks' = Finish(t, FALSE)
       \/ medium' = "broken" /\ tasks' = Finish(t, TRUE)
    /\ UNCHANGED <<writable, vols, last>>

QueueStep == \E t \in 1 .. Len(tasks) :
    \/ NothingLoaded(t) \/ CheckSample(t) \/ FormatSample(t)
    \/ RunEngine(t) \/ CheckDone(t) \/ CheckError(t) \/ FormatDone(t)

Next == \/ \E rdonly \in BOOLEAN : LoadResource(rdonly)
        \/ UnloadResource \/ Activate \/ MountVolume \/ KernelMount \/ Unmount \/ Deactivate
        \/ \E checkOnly \in BOOLEAN : Start("check", checkOnly)
        \/ Start("format", FALSE)
        \/ QueueStep

Fairness == WF_vars(QueueStep)
Spec == Init /\ [][Next]_vars /\ Fairness

-----------------------------------------------------------------------------
\* An engine is open only for the volume that is loaded and active: whatever
\* sequence of activate, mount, unmount and deactivate came before, unloadResource
\* leaves none behind ("Volume closes its engine handle in deactivate()").
NoEngineLeft ==
    \A v \in 1 .. Len(vols) : vols[v].engine # "no" => v = last /\ vols[v].active

\* One block of the maintenance queue and one volume at a time have an engine that
\* writes, and both have only if the volume was opened behind the task's back:
\* after it sampled isEngineOpen, or as another volume than the one it captured
\* ("Never do plain-write RMW under a mounted engine"). An engine that was open
\* when the task was started, or opened before it had its turn, keeps it from
\* writing.
OneWriter ==
    LET tasksRW == {t \in 1 .. Len(tasks) : tasks[t].st = "running" /\ tasks[t].engine = "rw"}
        volsOpen == {v \in 1 .. Len(vols) : vols[v].engine # "no"}
    IN  /\ Cardinality(tasksRW) <= 1 /\ Cardinality(volsOpen) <= 1
        /\ \A t \in tasksRW : volsOpen \subseteq tasks[t].missed

\* The kernel mounts read-only exactly when the engine is read-only, whichever
\* open fell back ("the KERNEL mount goes read-only too, so Finder/statfs agree
\* with reality").
KernelModeAgrees ==
    \A v \in 1 .. Len(vols) : vols[v].kernel \in {"ro", "rw"} => vols[v].kernel = vols[v].engine

\* Nothing opens the device read-write that is not writable or was asked to be
\* left alone, through any sequence of remounts and tasks.
ReadOnlyRespected ==
    /\ \A v \in 1 .. Len(vols) : vols[v].engine = "rw" => writable /\ ~vols[v].readOnly
    /\ \A t \in 1 .. Len(tasks) : tasks[t].engine = "rw" => writable /\ ~tasks[t].checkOnly

\* "blocking the mount here would help nobody": a check reports an error only
\* over a loaded volume, and there only if the volume is broken or one of its own
\* calls failed: never because Windows is hibernated, the volume dirty, or nothing
\* loaded.
CheckNeverBlocks ==
    [][\A t \in 1 .. Len(tasks) : tasks[t].kind = "check" /\ tasks'[t].err /\ ~tasks[t].err
          => tasks[t].vol # 0 /\ (medium = "broken" \/ tasks'[t].fault)]_vars

\* Every task signals completion: "without it the whole disk subsystem
\* (diskarbitrationd) wedges".
EveryTaskCompletes ==
    \A t \in 1 .. MaxTasks : t \in 1 .. Len(tasks) ~> t \in 1 .. Len(tasks) /\ tasks[t].st = "done"
=============================================================================
