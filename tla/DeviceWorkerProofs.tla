------------------------- MODULE DeviceWorkerProofs -------------------------
(***************************************************************************)
(* Safety of the device worker's life cycle, for any number of callers and *)
(* workers.                                                                *)
(*                                                                         *)
(* The argument is one of ownership.  A worker's handle is in one place at *)
(* a time, the slot or the hands of a single caller (HandleInv); the disk  *)
(* is with the device, with the one start that is under way, or with one   *)
(* worker whose handle is held (DiskInv).                                  *)
(***************************************************************************)
EXTENDS DeviceWorker, FiniteSetTheorems, TLAPS

\* Places of start_worker where it has the disk, and where a caller has a handle.
WithDisk == {"clone", "clear", "spawn", "give_back"}
WithHandle == {"commit", "join"}

\* The handle of w is in the slot, or in the hands of a caller.
Held(w) == slot = Running(w) \/ \E t \in Callers : joining[t] = w

\* Every handle is in one place, and is that of a worker that was spawned.
HandleInv ==
    /\ \A t \in Callers : joining[t] # None <=> pc[t] \in WithHandle
    /\ \A t, u \in Callers : joining[t] # None /\ joining[t] = joining[u] => t = u
    /\ \A t \in Callers : joining[t] # None => slot # Running(joining[t])
    /\ \A w \in Workers : Held(w) => state[w] # "none"

\* The disk is where the handles say.
DiskInv ==
    HasDisk =>
        /\ \A t \in Callers : pc[t] \in WithDisk => disk = Tag("start", None)
        /\ disk = Tag("start", None) => \E t \in Callers : pc[t] \in WithDisk
        /\ \A w \in Workers : state[w] = "running" => disk = Tag("worker", w)
        /\ \A w \in Workers : state[w] = "done" /\ Held(w) => disk = Tag("worker", w)
        /\ \A w \in Workers : disk = Tag("worker", w) => Held(w) /\ state[w] # "panicked"
        /\ disk = Tag("lost", None) => \E w \in Workers : state[w] = "panicked"

IInv == TypeOK /\ SlotIsOwned /\ HandleInv /\ NoWorkerIsForgotten /\ DiskInv

------------------------------------------------------------------------------
(* Every step keeps each part of the invariant. *)

\* What marks an empty hand is not the number of a worker.
LEMMA NoneIsNoWorker == None \notin Workers
BY DEF None, Workers

\* Type correctness; Commit puts the handle of a worker into the slot.
LEMMA TypeStep ==
    ASSUME TypeOK, HandleInv, [Next]_vars
    PROVE  TypeOK'
<1> USE DeviceWorkerAssumption DEF TypeOK,
       Goto, Tag, Is, Running, Starting, Stopping, Workers, None, Fresh
<1>1. CASE \E t \in Callers : Reserve(t)
  BY <1>1 DEF Reserve
<1>2. CASE \E t \in Callers : RequestStop(t)
  BY <1>2 DEF RequestStop
<1>3. CASE \E t \in Callers : TakeDisk(t)
  BY <1>3 DEF TakeDisk
<1>4. CASE \E t \in Callers : CloneKick(t)
  BY <1>4 DEF CloneKick
<1>5. CASE \E t \in Callers : ClearStop(t)
  BY <1>5 DEF ClearStop
<1>6. CASE \E t \in Callers : Spawn(t)
  <2>1. PICK t \in Callers : Spawn(t)
    BY <1>6
  <2>2. CASE \E w \in Fresh : /\ state' = [state EXCEPT ![w] = "running"]
                              /\ disk' = IF HasDisk THEN Tag("worker", w) ELSE disk
                              /\ joining' = [joining EXCEPT ![t] = w]
                              /\ Goto(t, "commit") /\ UNCHANGED <<slot, stop>>
    BY <2>2 DEF Goto, Fresh, Starting
  <2>3. CASE /\ Goto(t, IF HasDisk THEN "give_back" ELSE "release")
             /\ UNCHANGED <<slot, stop, state, disk, joining>>
    BY <2>3 DEF Goto, Starting
  <2>4. QED
    BY <2>1, <2>2, <2>3 DEF Spawn
<1>7. CASE \E t \in Callers : Commit(t)
  BY <1>7 DEF Commit, HandleInv, WithHandle
<1>8. CASE \E t \in Callers : GiveBack(t)
  BY <1>8 DEF GiveBack
<1>9. CASE \E t \in Callers : Release(t)
  BY <1>9 DEF Release
<1>10. CASE \E t \in Callers : TakeWorker(t)
  BY <1>10 DEF TakeWorker
<1>11. CASE \E t \in Callers : Join(t)
  BY <1>11 DEF Join
<1>12. CASE \E w \in Workers : WorkerStops(w)
  BY <1>12 DEF WorkerStops
<1>13. CASE \E w \in Workers : WorkerFails(w)
  BY <1>13 DEF WorkerFails
<1>14. CASE UNCHANGED vars
  BY <1>14 DEF vars
<1>15. QED
  BY <1>1, <1>2, <1>3, <1>4, <1>5, <1>6, <1>7, <1>8, <1>9, <1>10, <1>11, <1>12, <1>13, <1>14
  DEF Next, StartStep, StopStep

\* The slot is "starting" for exactly one caller or for none.
LEMMA SlotStep ==
    ASSUME TypeOK, SlotIsOwned, [Next]_vars
    PROVE  SlotIsOwned'
<1> USE DEF TypeOK, SlotIsOwned,
       Goto, Tag, Is, Starting, Stopping
<1>1. CASE \E t \in Callers : Reserve(t)
  BY <1>1 DEF Reserve
<1>2. CASE \E t \in Callers : RequestStop(t)
  BY <1>2 DEF RequestStop
<1>3. CASE \E t \in Callers : TakeDisk(t)
  BY <1>3 DEF TakeDisk
<1>4. CASE \E t \in Callers : CloneKick(t)
  BY <1>4 DEF CloneKick
<1>5. CASE \E t \in Callers : ClearStop(t)
  BY <1>5 DEF ClearStop
<1>6. CASE \E t \in Callers : Spawn(t)
  BY <1>6 DEF Spawn
<1>7. CASE \E t \in Callers : Commit(t)
  BY <1>7 DEF Commit, Running
<1>8. CASE \E t \in Callers : GiveBack(t)
  BY <1>8 DEF GiveBack
<1>9. CASE \E t \in Callers : Release(t)
  BY <1>9 DEF Release
<1>10. CASE \E t \in Callers : TakeWorker(t)
  BY <1>10 DEF TakeWorker
<1>11. CASE \E t \in Callers : Join(t)
  BY <1>11 DEF Join
<1>12. CASE \E w \in Workers : WorkerStops(w)
  BY <1>12 DEF WorkerStops
<1>13. CASE \E w \in Workers : WorkerFails(w)
  BY <1>13 DEF WorkerFails
<1>14. CASE UNCHANGED vars
  BY <1>14 DEF vars
<1>15. QED
  BY <1>1, <1>2, <1>3, <1>4, <1>5, <1>6, <1>7, <1>8, <1>9, <1>10, <1>11, <1>12, <1>13, <1>14
  DEF Next, StartStep, StopStep

\* A handle is in one place.
LEMMA HandleStep ==
    ASSUME TypeOK, SlotIsOwned, HandleInv, [Next]_vars
    PROVE  HandleInv'
<1> USE NoneIsNoWorker DEF TypeOK, HandleInv, WithHandle, Held,
       Goto, Tag, Is, Running, Starting, Stopping, SlotIsOwned, Fresh
<1>1. CASE \E t \in Callers : Reserve(t)
  BY <1>1 DEF Reserve
<1>2. CASE \E t \in Callers : RequestStop(t)
  BY <1>2 DEF RequestStop
<1>3. CASE \E t \in Callers : TakeDisk(t)
  BY <1>3 DEF TakeDisk
<1>4. CASE \E t \in Callers : CloneKick(t)
  BY <1>4 DEF CloneKick
<1>5. CASE \E t \in Callers : ClearStop(t)
  BY <1>5 DEF ClearStop
<1>6. CASE \E t \in Callers : Spawn(t)
  BY <1>6 DEF Spawn
<1>7. CASE \E t \in Callers : Commit(t)
  BY <1>7 DEF Commit
<1>8. CASE \E t \in Callers : GiveBack(t)
  BY <1>8 DEF GiveBack
<1>9. CASE \E t \in Callers : Release(t)
  BY <1>9 DEF Release
<1>10. CASE \E t \in Callers : TakeWorker(t)
  BY <1>10 DEF TakeWorker
<1>11. CASE \E t \in Callers : Join(t)
  BY <1>11 DEF Join
<1>12. CASE \E w \in Workers : WorkerStops(w)
  BY <1>12 DEF WorkerStops
<1>13. CASE \E w \in Workers : WorkerFails(w)
  BY <1>13 DEF WorkerFails
<1>14. CASE UNCHANGED vars
  BY <1>14 DEF vars
<1>15. QED
  BY <1>1, <1>2, <1>3, <1>4, <1>5, <1>6, <1>7, <1>8, <1>9, <1>10, <1>11, <1>12, <1>13, <1>14
  DEF Next, StartStep, StopStep

\* A running worker's handle is held.
LEMMA ForgottenStep ==
    ASSUME TypeOK, SlotIsOwned, HandleInv, NoWorkerIsForgotten, [Next]_vars
    PROVE  NoWorkerIsForgotten'
<1> USE NoneIsNoWorker DEF TypeOK, NoWorkerIsForgotten, Live,
       Goto, Tag, Is, Running, Starting, Stopping, SlotIsOwned, Fresh, HandleInv, WithHandle
<1>1. CASE \E t \in Callers : Reserve(t)
  BY <1>1 DEF Reserve
<1>2. CASE \E t \in Callers : RequestStop(t)
  BY <1>2 DEF RequestStop
<1>3. CASE \E t \in Callers : TakeDisk(t)
  BY <1>3 DEF TakeDisk
<1>4. CASE \E t \in Callers : CloneKick(t)
  BY <1>4 DEF CloneKick
<1>5. CASE \E t \in Callers : ClearStop(t)
  BY <1>5 DEF ClearStop
<1>6. CASE \E t \in Callers : Spawn(t)
  BY <1>6 DEF Spawn
<1>7. CASE \E t \in Callers : Commit(t)
  BY <1>7 DEF Commit
<1>8. CASE \E t \in Callers : GiveBack(t)
  BY <1>8 DEF GiveBack
<1>9. CASE \E t \in Callers : Release(t)
  BY <1>9 DEF Release
<1>10. CASE \E t \in Callers : TakeWorker(t)
  BY <1>10 DEF TakeWorker
<1>11. CASE \E t \in Callers : Join(t)
  BY <1>11 DEF Join
<1>12. CASE \E w \in Workers : WorkerStops(w)
  BY <1>12 DEF WorkerStops
<1>13. CASE \E w \in Workers : WorkerFails(w)
  BY <1>13 DEF WorkerFails
<1>14. CASE UNCHANGED vars
  BY <1>14 DEF vars
<1>15. QED
  BY <1>1, <1>2, <1>3, <1>4, <1>5, <1>6, <1>7, <1>8, <1>9, <1>10, <1>11, <1>12, <1>13, <1>14
  DEF Next, StartStep, StopStep

\* The disk is where the handles say.
LEMMA DiskStep ==
    ASSUME TypeOK, SlotIsOwned, HandleInv, NoWorkerIsForgotten, DiskInv, [Next]_vars, HasDisk
    PROVE  DiskInv'
<1> USE NoneIsNoWorker DEF TypeOK, DiskInv, WithDisk, Held,
       Goto, Tag, Is, Running, Starting, Stopping, SlotIsOwned, Fresh, HandleInv, WithHandle,
       NoWorkerIsForgotten, Live
<1>1. CASE \E t \in Callers : Reserve(t)
  BY <1>1 DEF Reserve
<1>2. CASE \E t \in Callers : RequestStop(t)
  BY <1>2 DEF RequestStop
<1>3. CASE \E t \in Callers : TakeDisk(t)
  BY <1>3 DEF TakeDisk
<1>4. CASE \E t \in Callers : CloneKick(t)
  BY <1>4 DEF CloneKick
<1>5. CASE \E t \in Callers : ClearStop(t)
  BY <1>5 DEF ClearStop
<1>6. CASE \E t \in Callers : Spawn(t)
  BY <1>6 DEF Spawn
<1>7. CASE \E t \in Callers : Commit(t)
  BY <1>7 DEF Commit
<1>8. CASE \E t \in Callers : GiveBack(t)
  BY <1>8 DEF GiveBack
<1>9. CASE \E t \in Callers : Release(t)
  BY <1>9 DEF Release
<1>10. CASE \E t \in Callers : TakeWorker(t)
  BY <1>10 DEF TakeWorker
<1>11. CASE \E t \in Callers : Join(t)
  BY <1>11 DEF Join
<1>12. CASE \E w \in Workers : WorkerStops(w)
  BY <1>12 DEF WorkerStops
<1>13. CASE \E w \in Workers : WorkerFails(w)
  BY <1>13 DEF WorkerFails
<1>14. CASE UNCHANGED vars
  BY <1>14 DEF vars
<1>15. QED
  BY <1>1, <1>2, <1>3, <1>4, <1>5, <1>6, <1>7, <1>8, <1>9, <1>10, <1>11, <1>12, <1>13, <1>14
  DEF Next, StartStep, StopStep

------------------------------------------------------------------------------
(* The theorems *)

\* Nothing is held and nobody is under way at first.
LEMMA InitIInv ==
    ASSUME Init
    PROVE  IInv
BY NoneIsNoWorker, DeviceWorkerAssumption
   DEF Init, IInv, TypeOK, SlotIsOwned, HandleInv, NoWorkerIsForgotten, DiskInv, Held, Live,
       Tag, Is, Running, Starting, Stopping, WithDisk, WithHandle

\* The invariant is inductive.
THEOREM Inductive == Spec => []IInv
<1>1. ASSUME IInv, [Next]_vars PROVE IInv'
  <2>1. HasDisk => DiskInv'
    BY <1>1, DiskStep DEF IInv
  <2>2. QED
    BY <1>1, <2>1, TypeStep, SlotStep, HandleStep, ForgottenStep DEF IInv, DiskInv
<1>2. QED
  BY <1>1, InitIInv, PTL DEF Spec

\* reserve(), commit() and the drop of a reservation: the slot is "starting"
\* exactly while one start_worker is under way.
THEOREM SlotHasOneOwner == Spec => []SlotIsOwned
BY Inductive, PTL DEF IInv

\* take_worker() and commit(): some caller can always stop and join a running
\* worker.
THEOREM WorkersAreHeld == Spec => []NoWorkerIsForgotten
BY Inductive, PTL DEF IInv

\* start_worker() of virtio-blk: however starts, stops and failures interleave,
\* no two workers use one disk.
THEOREM DiskHasOneWorker == Spec => []OneWorkerPerDisk
<1>1. ASSUME IInv PROVE OneWorkerPerDisk
  <2> SUFFICES ASSUME HasDisk PROVE Cardinality(Live) <= 1
    BY DEF OneWorkerPerDisk
  <2>1. Live \subseteq {disk.worker}
    BY <1>1 DEF IInv, DiskInv, Live, Tag
  <2>2. IsFiniteSet({disk.worker}) /\ Cardinality({disk.worker}) = 1
    BY FS_Singleton
  <2>3. Cardinality(Live) <= Cardinality({disk.worker})
    BY <2>1, <2>2, FS_Subset
  <2>4. QED
    BY <2>2, <2>3
<1>2. QED
  BY <1>1, Inductive, PTL

\* start_worker() and stop_worker() of virtio-blk: when all calls are over and no
\* worker is left, the device has its disk again.
THEOREM DiskIsReturned == Spec => []DiskComesBack
<1>1. ASSUME IInv PROVE DiskComesBack
  <2> SUFFICES ASSUME HasDisk, \A w \in Workers : state[w] # "panicked",
                      \A t \in Callers : pc[t] = "ready", Is(slot, "idle")
               PROVE  Is(disk, "device")
    BY DEF DiskComesBack
  <2>1. \A w \in Workers : ~ Held(w)
    BY <1>1, NoneIsNoWorker DEF IInv, TypeOK, HandleInv, WithHandle, Held, Is, Running, Tag
  <2>2. disk # Tag("start", None) /\ disk # Tag("lost", None)
        /\ \A w \in Workers : disk # Tag("worker", w)
    BY <1>1, <2>1 DEF IInv, DiskInv, WithDisk
  <2>3. QED
    BY <1>1, <2>2 DEF IInv, TypeOK, Is, Tag
<1>2. QED
  BY <1>1, Inductive, PTL

==============================================================================
