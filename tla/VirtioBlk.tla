------------------------------ MODULE VirtioBlk ------------------------------
(***************************************************************************)
(* The request queue of the virtio-blk device                              *)
(* (src/src/devices/virtio_blk.rs): its worker, the requests it serves on  *)
(* the disk backend (BlockDisk), and a guest driver that may reset the     *)
(* device at any time.                                                     *)
(*                                                                         *)
(* The worker holds the device's mutex only while it pops, completes or    *)
(* signals, so register writes of the guest come between any two system    *)
(* calls of a request.  What a chain asks for is chosen when the worker    *)
(* looks at it.  The stop flag and the end of the worker are in            *)
(* DeviceWorker.                                                           *)
(***************************************************************************)
EXTENDS BlockDisk, FiniteSets

CONSTANTS
    RQ,           \* QUEUE_REQUEST
    FLUSH, RO,    \* VIRTIO_BLK_F_FLUSH, VIRTIO_BLK_F_RO
    V1,           \* VIRTIO_F_VERSION_1
    Spans,        \* <<sector, length>> a transfer may name
    MaxOffset,    \* the largest u64, in sectors
    MaxReqs,      \* bound: requests the driver posts
    MaxResets     \* bound: resets by the driver

ASSUME VirtioBlkAssumption ==
    /\ Spans \subseteq Nat \X (0 .. MaxLen) /\ MaxOffset \in Nat /\ Capacity <= MaxOffset
    /\ MaxReqs \in Nat /\ MaxResets \in Nat
    /\ Cardinality({FLUSH, RO, V1}) = 3
    /\ {Zero, Old, Junk} \cap 1 .. MaxReqs = {}

VARIABLES
    mmio,    \* the transport, ring included
    kick,    \* notify_fd is readable
    disk,    \* the backend
    worker,  \* [pc, req, ask, io, status, data, used]: the request in hand, what
             \* it asks for, the backend call, the answer, used_any
    guest    \* [epoch, setup, posted, mine, owes, isr, back]

vars == <<mmio, kick, disk, worker, guest>>

AdvertisedFeatures(readonly) == {V1, FLUSH} \cup (IF readonly THEN {RO} ELSE {})

T == INSTANCE VirtioMmio WITH
         Queues <- {RQ}, LowFeatures <- {FLUSH, RO}, HighFeatures <- {V1},
         DeviceFeatures <- AdvertisedFeatures(disk.readonly), Version1 <- V1

NoReq == [id |-> 0, epoch |-> 0]
NoAsk == [type |-> "none", sector |-> 0, len |-> 0, room |-> FALSE]
Idle == [pc |-> "poll", req |-> NoReq, ask |-> NoAsk, io |-> NoIo,
         status |-> "none", data |-> <<>>, used |-> FALSE]

Init ==
    /\ disk \in OpenDiskImage
    /\ mmio = T!NewMmio
    /\ kick = FALSE
    /\ worker = Idle
    /\ guest = [epoch |-> 1, setup |-> FALSE, posted |-> 0, mine |-> {},
                owes |-> FALSE, isr |-> FALSE, back |-> <<>>]

At(l) == worker.pc = l
Ready == T!Ready(mmio, RQ)
Avail == T!Avail(mmio, RQ)
Used == T!Used(mmio, RQ)

------------------------------------------------------------------------------
(* handle_request *)

\* The chains a driver may post: a type, the sectors it names and whether there
\* is room for the answer.  "bad" is a chain whose header cannot be read.
Ask(type, span, room) ==
    [type |-> type, sector |-> span[1], len |-> span[2], room |-> room]
Asks ==
    {Ask(type, span, TRUE) : type \in {"in", "out"}, span \in Spans}
    \cup {Ask(type, <<0, MaxLen>>, TRUE) : type \in {"flush", "get_id", "other"}}
    \cup {Ask(type, <<0, MaxLen>>, FALSE) :
              type \in {"in", "out", "flush", "get_id", "other", "bad"}}

Overflows(ask) == ask.sector + ask.len > MaxOffset
OutOfRange(ask) == ask.sector + ask.len > Capacity
Zeros(len) == [i \in 1 .. len |-> Zero]

\* The request req is in hand: answered at once, or given to the backend.  An
\* answer needs room for its status byte; handle_request fails without it.
Take(req, ask) ==
    [worker EXCEPT !.pc = "add_used", !.req = req, !.ask = ask]
Answer(req, ask, d, status, data) ==
    /\ disk' = d
    /\ worker' = [Take(req, ask) EXCEPT !.data = data,
                                        !.status = IF ask.room THEN status ELSE "none"]
Start(req, ask, d, io) ==
    /\ disk' = d
    /\ worker' = [Take(req, ask) EXCEPT !.pc = "io", !.io = io]

HandleIn(req, ask) ==
    \/ (~ ask.room \/ Overflows(ask)) /\ Answer(req, ask, disk, "none", <<>>)
    \/ /\ ask.room /\ ~ Overflows(ask) /\ OutOfRange(ask)
       /\ Answer(req, ask, ZeroScratch(disk, ask.len), "ioerr", Zeros(ask.len))
    \/ /\ ask.room /\ ~ Overflows(ask) /\ ~ OutOfRange(ask)
       /\ IF ask.len = 0 THEN Answer(req, ask, disk, "ok", <<>>)
          ELSE Start(req, ask, disk, Transfer(disk, "read", ask.sector, ask.len))

\* mutant of Refused: the image's own read-only state is not looked at.
RefusedByFeature(ask, feats) == RO \in feats \/ OutOfRange(ask)

Refused(ask, feats) == disk.readonly \/ RO \in feats \/ OutOfRange(ask)

HandleOut(req, ask, feats) ==
    LET d == FillScratch(disk, ask.len, req.id)
    IN  \/ Overflows(ask) /\ Answer(req, ask, d, "none", <<>>)
        \/ ~ Overflows(ask) /\ Refused(ask, feats) /\ Answer(req, ask, d, "ioerr", <<>>)
        \/ /\ ~ Overflows(ask) /\ ~ Refused(ask, feats)
           /\ IF ask.len = 0 THEN Answer(req, ask, d, "ok", <<>>)
              ELSE Start(req, ask, d, Transfer(d, "write", ask.sector, ask.len))

HandleFlush(req, ask, feats) ==
    \/ FLUSH \notin feats /\ Answer(req, ask, disk, "unsupp", <<>>)
    \/ FLUSH \in feats /\ disk.readonly /\ Answer(req, ask, disk, "ok", <<>>)
    \/ FLUSH \in feats /\ ~ disk.readonly /\ Start(req, ask, disk, FlushData(disk))

HandleRequest(req, ask, feats) ==
    \/ ask.type = "in" /\ HandleIn(req, ask)
    \/ ask.type = "out" /\ HandleOut(req, ask, feats)
    \/ ask.type = "flush" /\ HandleFlush(req, ask, feats)
    \/ ask.type = "get_id" /\ Answer(req, ask, disk, "ok", <<>>)
    \/ /\ ask.type = "other"
       /\ Answer(req, ask, IF ask.room THEN ZeroScratch(disk, ask.len) ELSE disk, "unsupp", <<>>)
    \/ ask.type = "bad" /\ Answer(req, ask, disk, "none", <<>>)

\* One system call of the backend.  IN hands over the scratch buffer: what was
\* read, or zeros after an error.
DiskIo ==
    /\ At("io")
    /\ \E o \in Call(disk, worker.io) :
          LET d == IF o.res = "error" /\ worker.ask.type = "in"
                   THEN ZeroScratch(o.disk, worker.ask.len) ELSE o.disk
          IN  /\ disk' = d
              /\ worker' = [worker EXCEPT
                    !.io = o.io,
                    !.pc = IF o.res = "more" THEN "io" ELSE "add_used",
                    !.status = CASE o.res = "more" \/ ~ worker.ask.room -> "none"
                                 [] o.res = "ok" -> "ok"
                                 [] OTHER -> "ioerr",
                    !.data = IF o.res # "more" /\ worker.ask.type = "in"
                             THEN SubSeq(d.scratch, 1, worker.ask.len) ELSE <<>>]
    /\ UNCHANGED <<mmio, kick, guest>>

------------------------------------------------------------------------------
(* worker_loop and process_queue *)

PollReady ==
    /\ At("poll") /\ kick
    /\ kick' = FALSE
    /\ worker' = [worker EXCEPT !.pc = "pop"]
    /\ UNCHANGED <<mmio, disk, guest>>

\* capacity, readonly and driver_features are read with the chain, under the lock.
Pop ==
    /\ At("pop") /\ Ready /\ Avail # <<>>
    /\ mmio' = T!PopAvail(mmio, RQ)
    /\ \E ask \in Asks : HandleRequest(Head(Avail), ask, mmio.features)
    /\ UNCHANGED <<kick, guest>>

\* mutant of AddUsed: a request that failed is not given back.
AddUsedIfAnswered ==
    /\ At("add_used")
    /\ mmio' = IF worker.status = "none" THEN mmio
               ELSE T!AddUsed(mmio, RQ, IF Ready THEN worker.req ELSE NoReq)
    /\ worker' = [Idle EXCEPT !.pc = "pop", !.used = TRUE]
    /\ disk' = IF worker.ask.type = "flush" THEN [disk EXCEPT !.lost = {}] ELSE disk
    /\ UNCHANGED <<kick, guest>>

\* mutant of AddUsed: used_any is set only for a request that was answered.
AddUsedQuietly ==
    /\ At("add_used")
    /\ mmio' = T!AddUsed(mmio, RQ, IF Ready THEN worker.req ELSE NoReq)
    /\ worker' = [Idle EXCEPT !.pc = "pop", !.used = worker.used \/ worker.status # "none"]
    /\ disk' = IF worker.ask.type = "flush" THEN [disk EXCEPT !.lost = {}] ELSE disk
    /\ UNCHANGED <<kick, guest>>

\* A completion is written to the ring the queue has now, which need not be the
\* one the request came from; without a ring it only moves the index.
AddUsed ==
    /\ At("add_used")
    /\ mmio' = T!AddUsed(mmio, RQ, IF Ready THEN worker.req ELSE NoReq)
    /\ worker' = [Idle EXCEPT !.pc = "pop", !.used = TRUE]
    /\ disk' = IF worker.ask.type = "flush" THEN [disk EXCEPT !.lost = {}] ELSE disk
    /\ UNCHANGED <<kick, guest>>

PopNone ==
    /\ At("pop") /\ (~ Ready \/ Avail = <<>>)
    /\ worker' = IF worker.used THEN [Idle EXCEPT !.pc = "signal"] ELSE Idle
    /\ UNCHANGED <<mmio, kick, disk, guest>>

\* mutant of Signal: the eventfd is read after the queue instead of before it.
SignalClearsKick ==
    /\ At("signal")
    /\ mmio' = T!SignalUsedQueue(mmio)
    /\ worker' = Idle
    /\ kick' = FALSE
    /\ UNCHANGED <<disk, guest>>

Signal ==
    /\ At("signal")
    /\ mmio' = T!SignalUsedQueue(mmio)
    /\ worker' = Idle
    /\ UNCHANGED <<kick, disk, guest>>

WorkerStep == PollReady \/ Pop \/ DiskIo \/ AddUsed \/ PopNone \/ Signal

\* The kernel ends an operation whose ring is gone.
Late ==
    /\ disk.late # NoIo
    /\ disk' \in LateIo(disk)
    /\ UNCHANGED <<mmio, kick, worker, guest>>

------------------------------------------------------------------------------
(* The guest driver *)

\* A reset before anything was posted would lead back to the start.
DriverReset ==
    /\ guest.epoch <= MaxResets /\ guest.mine # {}
    /\ mmio' = T!WriteStatus(mmio, {})
    /\ guest' = [guest EXCEPT !.epoch = @ + 1, !.setup = FALSE, !.mine = {},
                              !.owes = FALSE, !.isr = FALSE, !.back = <<>>]
    /\ UNCHANGED <<kick, disk, worker>>

\* The driver accepts some of what is advertised (VirtioNet has one that errs):
\* both halves of the features, then FEATURES_OK.
DriverFeatures ==
    /\ mmio.status = {}
    /\ \E value \in SUBSET AdvertisedFeatures(disk.readonly) :
          /\ V1 \in value
          /\ mmio' = T!WriteStatus(T!WriteDriverFeatures(T!WriteDriverFeatures(mmio, 0, value),
                                                         1, value),
                                   {"driver", "features_ok"})
    /\ UNCHANGED <<kick, disk, worker, guest>>

EnableQueue ==
    /\ "features_ok" \in mmio.status /\ ~ guest.setup
    /\ mmio' = T!WriteQueueReady(mmio, RQ, TRUE, TRUE)
    /\ guest' = [guest EXCEPT !.setup = TRUE]
    /\ UNCHANGED <<kick, disk, worker>>

Post ==
    LET req == [id |-> guest.posted + 1, epoch |-> guest.epoch]
    IN  /\ Ready /\ req.id <= MaxReqs
        /\ mmio' = [mmio EXCEPT !.queues[RQ].avail = Append(@, req)]
        /\ guest' = [guest EXCEPT !.posted = @ + 1, !.owes = TRUE, !.mine = @ \cup {req}]
        /\ UNCHANGED <<kick, disk, worker>>

Notify ==
    /\ guest.owes
    /\ guest' = [guest EXCEPT !.owes = FALSE]
    /\ kick' = TRUE
    /\ UNCHANGED <<mmio, disk, worker>>

Interrupt ==
    /\ mmio.intr
    /\ mmio' = T!WriteInterruptAck(mmio)
    /\ guest' = [guest EXCEPT !.isr = TRUE]
    /\ UNCHANGED <<kick, disk, worker>>

\* An index moved before the ring was set up shows with the next completion.
Visible == IF \A i \in DOMAIN Used : Used[i] = NoReq THEN <<>> ELSE Used

Reap ==
    /\ guest.isr
    /\ guest' = [guest EXCEPT !.isr = FALSE, !.back = @ \o Visible]
    /\ mmio' = IF Visible = <<>> THEN mmio ELSE [mmio EXCEPT !.queues[RQ].used = <<>>]
    /\ UNCHANGED <<kick, disk, worker>>

DriverStep ==
    DriverReset \/ DriverFeatures \/ EnableQueue \/ Post \/ Notify \/ Interrupt \/ Reap

Next == WorkerStep \/ Late \/ DriverStep

Spec == Init /\ [][Next]_vars

\* The worker runs and the driver sends the notify it owes.
FairSpec == Spec /\ WF_vars(WorkerStep) /\ WF_vars(Notify)

------------------------------------------------------------------------------
(* Properties *)

Entries(seq) == {seq[i] : i \in DOMAIN seq}
InHand == At("io") \/ At("add_used")

\* Where a request is: on the ring, in hand, completed, or seen by the driver.
Places(req) ==
    <<req \in Entries(Avail), InHand /\ req = worker.req,
      req \in Entries(Used), req \in Entries(guest.back)>>

\* Every request the driver posted since its last reset is in one place: none is
\* completed twice or forgotten, whatever the disk does and whatever the chain
\* looks like (process_queue: unwrap_or(1) completes a request that failed).
RequestsConserved ==
    Ready =>
        /\ \A req \in guest.mine :
              \E i \in 1 .. 4 : \A j \in 1 .. 4 : Places(req)[j] <=> i = j
        /\ \A i, j \in DOMAIN guest.back : guest.back[i] = guest.back[j] => i = j

\* The lock is released while a request is served, so a reset in between brings
\* a completion the new driver never asked for, but never more than one.
AtMostOneStale ==
    LET seen == guest.back \o Used
        stale(i) == seen[i].epoch # guest.epoch
    IN  \A i, j \in DOMAIN seen : stale(i) /\ stale(j) => i = j

\* Between two passes of the worker, completed requests the driver has not seen
\* have their interrupt pending or being handled (used_any, signal_used_queue).
UsedIsSignalled == At("poll") /\ Visible # <<>> => mmio.intr \/ guest.isr

\* An answer tells the truth: the data of an IN are the sectors it asked for, or
\* zeros with IOERR, never what an earlier request left in the scratch buffer;
\* an OUT answered OK is in the file, all of it, across short writes, errors of
\* the ring and EINVAL from O_DIRECT.  This holds until the ring has been dropped
\* with an operation in flight (disable_ring).
AnswerTellsTruth ==
    At("add_used") /\ ~ disk.stray =>
        \A i \in 1 .. worker.ask.len :
            LET stored == disk.data[worker.ask.sector + i - 1]
            IN  /\ worker.ask.type = "in" /\ worker.status # "none" =>
                      worker.data[i] = IF worker.status = "ok" THEN stored ELSE Zero
                /\ worker.ask.type = "out" /\ worker.status = "ok" => stored = worker.req.id

Covers(io, u) == io.op = "write" /\ u \in io.at .. io.at + io.len - 1

\* A sector changes only while the worker serves an OUT that covers it, on an
\* image that may be written, or through the one write left in flight.
OnlyWritesChangeDisk ==
    [][\A u \in Sectors : disk'.data[u] # disk.data[u] =>
          \/ At("io") /\ Covers(worker.io, u) /\ ~ disk.readonly
             /\ (disk.stray \/ disk'.data[u] = worker.req.id)
          \/ Covers(disk.late, u)]_vars

\* A FLUSH answered OK on a writable image leaves nothing unwritten, and no
\* sector was lost since the last FLUSH was answered.  Exceptions: a write still
\* in flight, and a loss that the ring reported and fsync_fd did not pass on.
FlushIsDurable ==
    At("add_used") /\ worker.ask.type = "flush" /\ worker.status = "ok" /\ ~ disk.readonly
        => (disk.stray \/ disk.dirty = {}) /\ (disk.stray \/ worker.io.swallowed \/ disk.lost = {})

\* Every posted request is completed, unless the driver resets the device.
RequestsComplete == (Avail # <<>> \/ InHand) ~> (Avail = <<>> /\ ~ InHand) \/ ~ Ready

==============================================================================
