------------------------------ MODULE BlockDisk ------------------------------
(***************************************************************************)
(* The disk backend of the virtio-blk worker (struct BlockDisk in          *)
(* src/src/devices/virtio_blk.rs): two descriptors of one image file,      *)
(* an io_uring that is dropped at its first error, and one scratch buffer. *)
(*                                                                         *)
(* A call of the backend is a record `io`; one system call of it turns a   *)
(* disk and an io into one of a set of outcomes [disk, io, res], where res *)
(* says whether the call is over ("ok", "error") or goes on ("more").      *)
(* Bytes are counted in sectors; a sector holds the number of the request  *)
(* that wrote it.                                                          *)
(***************************************************************************)
EXTENDS Naturals, Sequences

CONSTANTS
    Capacity,     \* capacity_sectors of the image
    MaxLen,       \* sectors the scratch buffer holds
    DirectAlign,  \* direct_align, in sectors
    Zero,         \* content of a sector of zeros
    Old,          \* content of a sector no request has written
    Junk          \* content of scratch memory nobody has written

ASSUME BlockDiskAssumption ==
    /\ Capacity \in Nat \ {0} /\ MaxLen \in Nat /\ DirectAlign \in Nat \ {0}
    /\ Zero # Old /\ Zero # Junk /\ Old # Junk

Sectors == 0 .. Capacity - 1
NoIo == [op |-> "none", at |-> 0, len |-> 0, done |-> 0, prefer |-> FALSE,
         fds |-> <<>>, swallowed |-> FALSE]

\* open_disk_image: the image may be read-only, O_DIRECT or io_uring missing.
\* `late` is an operation the kernel still works on after its ring is gone, and
\* `stray` says that there has been one.  The page cache: `data`, the sectors
\* not yet on the medium, those a writeback lost since a FLUSH was answered,
\* and the descriptors that have not reported that loss yet.
OpenDiskImage ==
    {[readonly |-> ro, direct |-> direct, useDirect |-> direct, ring |-> ring,
      scratch |-> [i \in 1 .. MaxLen |-> Junk], late |-> NoIo, stray |-> FALSE,
      data |-> [u \in Sectors |-> Old], dirty |-> {}, lost |-> {}, err |-> {}] :
        ro \in BOOLEAN, direct \in BOOLEAN, ring \in BOOLEAN}

AllFds(d) == IF d.direct THEN {"direct", "buffered"} ELSE {"buffered"}

------------------------------------------------------------------------------
(* BlockDisk *)

FillScratch(d, len, value) ==
    [d EXCEPT !.scratch = [i \in 1 .. MaxLen |-> IF i <= len THEN value ELSE @[i]]]

\* mutant of ZeroScratch: the buffer keeps what an earlier request left in it.
ZeroScratchNot(d, len) == d

ZeroScratch(d, len) == FillScratch(d, len, Zero)

PreferDirect(d, at, len) ==
    d.useDirect /\ d.direct /\ at % DirectAlign = 0 /\ len % DirectAlign = 0

DisableDirect(d) == [d EXCEPT !.useDirect = FALSE]

\* "Drop io_uring after draining completions": those that are there.
DisableRing(d) == [d EXCEPT !.ring = FALSE]

Transfer(d, op, at, len) ==
    [NoIo EXCEPT !.op = op, !.at = at, !.len = len, !.prefer = PreferDirect(d, at, len)]

------------------------------------------------------------------------------
(* pread, pwrite and their io_uring counterparts *)

Outcome(d, io, res) == [disk |-> d, io |-> io, res |-> res]

\* The kernel moves the sectors numbered from + 1 .. to of a transfer.
Move(d, io, from, to) ==
    LET part == (from + 1) .. to
    IN  IF io.op = "read"
        THEN [d EXCEPT !.scratch =
                [i \in 1 .. MaxLen |-> IF i \in part THEN d.data[io.at + i - 1] ELSE @[i]]]
        ELSE LET written == {io.at + i - 1 : i \in part}
             IN  [d EXCEPT !.data = [u \in Sectors |-> IF u \in written
                                                       THEN d.scratch[u - io.at + 1] ELSE @[u]],
                           !.dirty = @ \cup written,
                           !.lost = @ \ written]

\* A transfer that may be short: the loop goes on with what is left.
Progress(d, io) ==
    {Outcome(Move(d, io, io.done, n), [io EXCEPT !.done = n],
             IF n = io.len THEN "ok" ELSE "more") : n \in (io.done + 1) .. io.len}

\* ring_read, ring_write: an error, an end of file, or a wait that ends without
\* the completion.  All of them drop the ring and start over without it, the
\* last one while the kernel may still be at work on the scratch buffer.
RingIo(d, io) ==
    LET again == [io EXCEPT !.done = 0]
    IN  Progress(d, io) \cup
        {Outcome(DisableRing(d), again, "more"),
         Outcome([DisableRing(d) EXCEPT !.late = io, !.stray = TRUE], again, "more")}

\* pread_all, pwrite_all, and the retry of read_at and write_at on the buffered
\* descriptor after EINVAL from the O_DIRECT one.
PlainIo(d, io) ==
    Progress(d, io) \cup {Outcome(d, io, "error")} \cup
    (IF io.prefer /\ d.useDirect
     THEN {Outcome(DisableDirect(d), [io EXCEPT !.done = 0, !.prefer = FALSE], "more")}
     ELSE {})

\* The operation left behind ends, with or without effect.
LateIo(d) == {[Move(d, d.late, d.late.done, d.late.len) EXCEPT !.late = NoIo],
              [d EXCEPT !.late = NoIo]}

------------------------------------------------------------------------------
(* fdatasync *)

\* flush_data: both descriptors when O_DIRECT is in use.
FlushData(d) ==
    [NoIo EXCEPT !.op = "fsync",
                 !.fds = IF d.useDirect /\ d.direct THEN <<"direct", "buffered">>
                                                    ELSE <<"buffered">>]

\* The kernel reports a writeback error once on each descriptor; the sectors it
\* lost are not written again.
Sync(d, fd) ==
    IF fd \in d.err THEN {[disk |-> [d EXCEPT !.err = @ \ {fd}], ok |-> FALSE]}
    ELSE {[disk |-> [d EXCEPT !.dirty = {}], ok |-> TRUE]} \cup
         (IF d.dirty = {} THEN {}
          ELSE {[disk |-> [d EXCEPT !.dirty = {}, !.lost = @ \cup d.dirty,
                                    !.err = AllFds(d) \ {fd}],
                 ok |-> FALSE]})

FsyncDone(d, io) ==
    Outcome(d, [io EXCEPT !.fds = Tail(@)], IF Len(io.fds) = 1 THEN "ok" ELSE "more")

\* mutant of RingFsync: a wait that ends without the completion counts as done.
RingFsyncNoWait(d, io) ==
    {FsyncDone(s.disk, io) : s \in {t \in Sync(d, Head(io.fds)) : t.ok}}
    \cup {FsyncDone(DisableRing(d), io)}

\* ring_fsync and the fallback of fsync_fd: on any error, or without the
\* completion, the descriptor is synced again without the ring.
RingFsync(d, io) ==
    LET syncs == Sync(d, Head(io.fds))
        again(s) == Outcome(DisableRing(s.disk), [io EXCEPT !.swallowed = @ \/ ~ s.ok], "more")
    IN  {FsyncDone(s.disk, io) : s \in {t \in syncs : t.ok}}
        \cup {again(s) : s \in syncs}
        \cup {again([disk |-> d, ok |-> TRUE])}

PlainFsync(d, io) ==
    {IF s.ok THEN FsyncDone(s.disk, io) ELSE Outcome(s.disk, io, "error") :
        s \in Sync(d, Head(io.fds))}

\* One system call of read_at, write_at or flush_data.
Call(d, io) ==
    CASE io.op = "fsync" -> IF d.ring THEN RingFsync(d, io) ELSE PlainFsync(d, io)
      [] OTHER -> IF d.ring THEN RingIo(d, io) ELSE PlainIo(d, io)

==============================================================================
