---------------------------- MODULE DeviceWorker ----------------------------
(***************************************************************************)
(* Life cycle of a virtio device's worker thread: WorkerSlot, reservation, *)
(* stop flag (src/src/devices/virtio_dev.rs) under start_worker and        *)
(* stop_worker of a device.  With HasDisk the device is virtio-blk, whose  *)
(* disk handle moves into the worker and back (virtio_blk.rs); without it, *)
(* virtio-net or virtio-vsock.                                             *)
(*                                                                         *)
(* Callers may call both operations at any time; Vmm::run is one caller.   *)
(* A worker polls with a 50 ms timeout, so it reads the stop flag again    *)
(* and again whether or not it is kicked; the eventfd is left out.         *)
(***************************************************************************)
EXTENDS Naturals, FiniteSets

CONSTANTS
    Callers,     \* threads that hold the device
    HasDisk,     \* TRUE for virtio-blk
    MaxWorkers,  \* bound: workers spawned in a behaviour
    MayFail      \* TRUE: eventfd clones and spawns may fail, workers may panic

ASSUME DeviceWorkerAssumption ==
    /\ MaxWorkers \in Nat
    /\ {HasDisk, MayFail} \subseteq BOOLEAN

Workers == 1 .. MaxWorkers
None == 0

VARIABLES
    pc,       \* where each caller stands
    slot,     \* WorkerSlot: "idle", "starting", or the handle of a worker
    stop,     \* the stop flag shared with every worker of the device
    state,    \* of each worker: "none", "running", "done", "panicked"
    disk,     \* who holds the disk: "device", "start", "lost", or a worker
    joining   \* the handle each caller took out of the slot

vars == <<pc, slot, stop, state, disk, joining>>

\* A slot or disk holder: tagged with a worker number, None when there is none.
Tag(kind, w) == [kind |-> kind, worker |-> w]
Is(x, kind) == x.kind = kind
Running(w) == Tag("running", w)

Starting == {"take_disk", "clone", "clear", "spawn", "commit", "give_back", "release"}
Stopping == {"take_worker", "join"}

Init ==
    /\ pc = [t \in Callers |-> "ready"]
    /\ slot = Tag("idle", None)
    /\ stop = FALSE
    /\ state = [w \in Workers |-> "none"]
    /\ disk = Tag("device", None)
    /\ joining = [t \in Callers |-> None]

Goto(t, l) == pc' = [pc EXCEPT ![t] = l]
Fresh == {w \in Workers : state[w] = "none"}

------------------------------------------------------------------------------
(* start_worker *)

\* mutant of Reserve: any slot that is not running may be reserved.
ReserveStarting(t) ==
    /\ pc[t] = "ready" /\ Fresh # {}
    /\ IF ~ Is(slot, "running")
       THEN slot' = Tag("starting", None) /\ Goto(t, IF HasDisk THEN "take_disk" ELSE "clone")
       ELSE UNCHANGED <<slot, pc>>
    /\ UNCHANGED <<stop, state, disk, joining>>

\* reserve(): only an idle slot; otherwise start_worker returns Ok at once.
Reserve(t) ==
    /\ pc[t] = "ready" /\ Fresh # {}
    /\ Is(slot, "idle")
    /\ slot' = Tag("starting", None)
    /\ Goto(t, IF HasDisk THEN "take_disk" ELSE "clone")
    /\ UNCHANGED <<stop, state, disk, joining>>

\* mutant of TakeDisk: the disk handle is duplicated rather than moved.
TakeDiskShared(t) ==
    /\ pc[t] = "take_disk"
    /\ Goto(t, "clone")
    /\ UNCHANGED <<slot, stop, state, disk, joining>>

\* "block disk already in use": the reservation is dropped.
TakeDisk(t) ==
    /\ pc[t] = "take_disk"
    /\ IF Is(disk, "device")
       THEN disk' = Tag("start", None) /\ Goto(t, "clone")
       ELSE UNCHANGED disk /\ Goto(t, "release")
    /\ UNCHANGED <<slot, stop, state, joining>>

CloneKick(t) ==
    /\ pc[t] = "clone"
    /\ \/ Goto(t, "clear")
       \/ MayFail /\ Goto(t, IF HasDisk THEN "give_back" ELSE "release")
    /\ UNCHANGED <<slot, stop, state, disk, joining>>

ClearStop(t) ==
    /\ pc[t] = "clear"
    /\ stop' = FALSE
    /\ Goto(t, "spawn")
    /\ UNCHANGED <<slot, state, disk, joining>>

\* The worker runs from here on, before its handle is in the slot.
Spawn(t) ==
    /\ pc[t] = "spawn"
    /\ \/ \E w \in Fresh :
             /\ \A x \in Fresh : w <= x
             /\ state' = [state EXCEPT ![w] = "running"]
             /\ disk' = IF HasDisk THEN Tag("worker", w) ELSE disk
             /\ joining' = [joining EXCEPT ![t] = w]
             /\ Goto(t, "commit")
       \/ /\ MayFail
          /\ Goto(t, IF HasDisk THEN "give_back" ELSE "release")
          /\ UNCHANGED <<state, disk, joining>>
    /\ UNCHANGED <<slot, stop>>

\* mutant of Commit: the reservation stays active, and its drop empties any slot.
CommitReleased(t) ==
    /\ pc[t] = "commit"
    /\ slot' = Tag("idle", None)
    /\ joining' = [joining EXCEPT ![t] = None]
    /\ Goto(t, "ready")
    /\ UNCHANGED <<stop, state, disk>>

Commit(t) ==
    /\ pc[t] = "commit"
    /\ slot' = Running(joining[t])
    /\ joining' = [joining EXCEPT ![t] = None]
    /\ Goto(t, "ready")
    /\ UNCHANGED <<stop, state, disk>>

\* A failed start: the disk is put back, then the reservation is dropped.
GiveBack(t) ==
    /\ pc[t] = "give_back"
    /\ disk' = Tag("device", None)
    /\ Goto(t, "release")
    /\ UNCHANGED <<slot, stop, state, joining>>

\* mutant of Release: the reservation of a failed start is leaked.
ReleaseNever(t) ==
    /\ pc[t] = "release"
    /\ Goto(t, "ready")
    /\ UNCHANGED <<slot, stop, state, disk, joining>>

Release(t) ==
    /\ pc[t] = "release"
    /\ slot' = IF Is(slot, "starting") THEN Tag("idle", None) ELSE slot
    /\ Goto(t, "ready")
    /\ UNCHANGED <<stop, state, disk, joining>>

------------------------------------------------------------------------------
(* stop_worker *)

RequestStop(t) ==
    /\ pc[t] = "ready"
    /\ stop' = TRUE
    /\ Goto(t, "take_worker")
    /\ UNCHANGED <<slot, state, disk, joining>>

\* take_worker() retries while the slot is "starting".
TakeWorker(t) ==
    /\ pc[t] = "take_worker" /\ ~ Is(slot, "starting")
    /\ slot' = Tag("idle", None)
    /\ joining' = [joining EXCEPT ![t] = slot.worker]
    /\ Goto(t, IF Is(slot, "running") THEN "join" ELSE "ready")
    /\ UNCHANGED <<stop, state, disk>>

\* mutant of Join: the disk of the worker's outcome is dropped.
JoinDropsDisk(t) ==
    /\ pc[t] = "join" /\ state[joining[t]] \in {"done", "panicked"}
    /\ disk' = IF HasDisk THEN Tag("lost", None) ELSE disk
    /\ joining' = [joining EXCEPT ![t] = None]
    /\ Goto(t, "ready")
    /\ UNCHANGED <<slot, stop, state>>

\* A worker that returned hands its disk back; one that panicked took it down.
Join(t) ==
    /\ pc[t] = "join" /\ state[joining[t]] \in {"done", "panicked"}
    /\ disk' = IF HasDisk /\ state[joining[t]] = "done" THEN Tag("device", None) ELSE disk
    /\ joining' = [joining EXCEPT ![t] = None]
    /\ Goto(t, "ready")
    /\ UNCHANGED <<slot, stop, state>>

------------------------------------------------------------------------------
(* The worker *)

\* The loop ends when it reads the stop flag.
WorkerStops(w) ==
    /\ state[w] = "running" /\ stop
    /\ state' = [state EXCEPT ![w] = "done"]
    /\ UNCHANGED <<pc, slot, stop, disk, joining>>

\* poll fails, or the thread panics and drops its disk.
WorkerFails(w) ==
    /\ MayFail /\ state[w] = "running"
    /\ \/ state' = [state EXCEPT ![w] = "done"] /\ UNCHANGED disk
       \/ /\ state' = [state EXCEPT ![w] = "panicked"]
          /\ disk' = IF HasDisk THEN Tag("lost", None) ELSE disk
    /\ UNCHANGED <<pc, slot, stop, joining>>

StartStep(t) ==
    \/ TakeDisk(t) \/ CloneKick(t) \/ ClearStop(t) \/ Spawn(t)
    \/ Commit(t) \/ GiveBack(t) \/ Release(t)

StopStep(t) == TakeWorker(t) \/ Join(t)

Next ==
    \/ \E t \in Callers : Reserve(t) \/ RequestStop(t) \/ StartStep(t) \/ StopStep(t)
    \/ \E w \in Workers : WorkerStops(w) \/ WorkerFails(w)

Spec == Init /\ [][Next]_vars

\* Threads run; a worker comes back to its loop test at least every 50 ms.
FairSpec ==
    /\ Spec
    /\ \A t \in Callers : WF_vars(StartStep(t)) /\ WF_vars(StopStep(t))
    /\ \A w \in Workers : WF_vars(WorkerStops(w))

------------------------------------------------------------------------------
(* Properties *)

Live == {w \in Workers : state[w] = "running"}

\* Type invariant; the tags of slot and disk agree with their worker number.
TypeOK ==
    /\ pc \in [Callers -> {"ready"} \cup Starting \cup Stopping]
    /\ slot \in {Tag("idle", None), Tag("starting", None)} \cup {Running(w) : w \in Workers}
    /\ stop \in BOOLEAN
    /\ state \in [Workers -> {"none", "running", "done", "panicked"}]
    /\ disk \in {Tag(k, None) : k \in {"device", "start", "lost"}}
                \cup {Tag("worker", w) : w \in Workers}
    /\ joining \in [Callers -> Workers \cup {None}]

\* The slot is "starting" exactly while one start_worker is under way, so a
\* failed start never blocks later starts nor keeps take_worker spinning.
SlotIsOwned ==
    /\ Is(slot, "starting") <=> \E t \in Callers : pc[t] \in Starting
    /\ \A t, u \in Callers : pc[t] \in Starting /\ pc[u] \in Starting => t = u

\* Two workers never drive the same disk: the second start fails because the
\* disk is out, even while a stop is joining the worker it took from the slot.
OneWorkerPerDisk == HasDisk => Cardinality(Live) <= 1

\* The disk handle is never lost to a failed start or to a stop: once nothing is
\* under way and no worker is left, the device holds it, unless a worker
\* panicked.
DiskComesBack ==
    HasDisk /\ ~ (\E w \in Workers : state[w] = "panicked")
            /\ (\A t \in Callers : pc[t] = "ready") /\ Is(slot, "idle")
        => Is(disk, "device")

\* A worker whose handle is in no hands is one nobody can stop or join.
NoWorkerIsForgotten ==
    \A w \in Live : slot = Running(w) \/ \E t \in Callers : joining[t] = w

\* "Stop the worker and wait for it to exit.": unless start_worker is called
\* for ever, stop_worker returns, or a start_worker that overlapped it has
\* cleared the stop flag (clear_stop) and set a worker going.
StopReturnsUnlessRestarted ==
    <>[](\A t \in Callers : pc[t] \notin Starting) =>
        \A t \in Callers : pc[t] \in Stopping ~> pc[t] = "ready" \/ ~ stop

==============================================================================
