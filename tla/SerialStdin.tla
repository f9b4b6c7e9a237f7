----------------------------- MODULE SerialStdin -----------------------------
(***************************************************************************)
(* The input side of the serial console (src/src/devices/serial.rs): host  *)
(* stdin, the stdin worker, the UART's RX FIFO, the reply to a cursor      *)
(* position query (CSI 6n) and the eventfd that tells the worker of space. *)
(*                                                                         *)
(* Operations of SerialConsole run under its mutex and are one step each;  *)
(* the worker's steps between them (poll, eventfd reads) are steps of      *)
(* their own.  A byte is a pair: <<0, n>> is the n-th byte of stdin and    *)
(* <<q, j>> the j-th byte of the reply to query q.  The UART itself        *)
(* (vm_superio) is external: a FIFO of FifoSize bytes, loopback off.       *)
(***************************************************************************)
EXTENDS Retain

CONSTANTS
    FifoSize,    \* UART_FIFO_SIZE
    ReplyLen,    \* length of "\x1b[1;80R"
    StdinBytes,  \* bound: bytes that arrive on stdin
    Queries,     \* bound: CSI 6n queries of the guest
    AutoReply    \* dsr_auto_reply

ASSUME SerialStdinAssumption ==
    /\ {FifoSize, ReplyLen, StdinBytes, Queries} \subseteq Nat
    /\ FifoSize > 0
    /\ AutoReply \in BOOLEAN

VARIABLES
    serial,   \* [fifo, pending, ready]: RX FIFO, pending_rx, stdin_ready
    spaceFd,  \* rx_space_fd is readable
    stopFd,   \* stop_fd is readable
    stdin,    \* [sent, buf, closed]: bytes sent so far, those unread, EOF
    worker,   \* [pc, watch, wait]: position, watch_stdin, wait_for_space
    guest     \* [got, asked]: bytes read, queries written

vars == <<serial, spaceFd, stopFd, stdin, worker, guest>>

Least(a, b) == IF a <= b THEN a ELSE b
Capacity(s) == FifoSize - Len(s.fifo)
Reply(q) == [j \in 1 .. ReplyLen |-> <<q, j>>]

Init ==
    /\ \E r \in BOOLEAN :
          /\ serial = [fifo |-> <<>>, pending |-> <<>>, ready |-> r]
          /\ worker = [pc |-> "poll", watch |-> r, wait |-> FALSE]
    /\ spaceFd = FALSE /\ stopFd = FALSE
    /\ stdin = [sent |-> 0, buf |-> <<>>, closed |-> FALSE]
    /\ guest = [got |-> <<>>, asked |-> 0]

------------------------------------------------------------------------------
(* SerialConsole *)

FlushPendingRx(s) ==
    LET n == Least(Capacity(s), Len(s.pending))
    IN  [s EXCEPT !.fifo = @ \o SubSeq(s.pending, 1, n),
                  !.pending = SubSeq(@, n + 1, Len(@))]

\* mutant of DrainStdin: stdin is read before the pending reply is flushed.
DrainStdinFirst(s, in) ==
    LET n == IF s.ready THEN Least(Capacity(s), Len(in.buf)) ELSE 0
        read == [s EXCEPT !.fifo = @ \o SubSeq(in.buf, 1, n)]
    IN  [serial |-> FlushPendingRx(read), left |-> SubSeq(in.buf, n + 1, Len(in.buf))]

\* mutant of DrainStdin: it reads more than the FIFO can take.
DrainStdinGreedy(s, in) ==
    LET f == FlushPendingRx(s)
        n == IF s.ready THEN Least(Capacity(f), Len(in.buf)) ELSE 0
    IN  [serial |-> [f EXCEPT !.fifo = @ \o SubSeq(in.buf, 1, n)],
         left |-> IF s.ready THEN <<>> ELSE in.buf]

\* drain_stdin: the console and stdin after it.  EOF is seen only when a read
\* is made, that is, when the FIFO still has room.
DrainStdin(s, in) ==
    LET f == FlushPendingRx(s)
        n == IF s.ready THEN Least(Capacity(f), Len(in.buf)) ELSE 0
        d == [f EXCEPT !.fifo = @ \o SubSeq(in.buf, 1, n)]
        eof == in.closed /\ n = Len(in.buf) /\ Capacity(d) > 0
    IN  [serial |-> [d EXCEPT !.ready = @ /\ ~ eof],
         left |-> SubSeq(in.buf, n + 1, Len(in.buf))]

\* bus_read of RBR: takes a byte if there is one, and announces the space.
BusRead ==
    /\ IF serial.fifo = <<>> THEN UNCHANGED <<serial, guest>>
       ELSE /\ serial' = [serial EXCEPT !.fifo = Tail(@)]
            /\ guest' = [guest EXCEPT !.got = Append(@, Head(serial.fifo))]
    /\ spaceFd' = TRUE
    /\ UNCHANGED <<stopFd, stdin, worker>>

\* bus_write of the last byte of CSI 6n: observe_guest_tx.
BusWriteQuery ==
    LET s == FlushPendingRx([serial EXCEPT !.pending = @ \o Reply(guest.asked + 1)])
    IN  /\ AutoReply /\ guest.asked < Queries
        /\ serial' = s
        /\ spaceFd' = (spaceFd \/ Capacity(s) > 0)
        /\ guest' = [guest EXCEPT !.asked = @ + 1]
        /\ UNCHANGED <<stopFd, stdin, worker>>

------------------------------------------------------------------------------
(* stdin_worker_loop *)

At(l) == worker.pc = l
Goto(l) == worker' = [worker EXCEPT !.pc = l]

\* mutant of PollStop: while it waits for space it polls rx_space_fd alone.
PollStopUnlessWaiting ==
    /\ At("poll") /\ stopFd /\ (worker.wait => spaceFd)
    /\ stopFd' = FALSE
    /\ Goto("done")
    /\ UNCHANGED <<serial, spaceFd, stdin, guest>>

\* poll reports stop_fd first, whatever else is readable.
PollStop ==
    /\ At("poll") /\ stopFd
    /\ stopFd' = FALSE
    /\ Goto("done")
    /\ UNCHANGED <<serial, spaceFd, stdin, guest>>

\* Waiting for space: clear the eventfd, then drain.
PollSpace ==
    /\ At("poll") /\ ~ stopFd /\ worker.wait /\ spaceFd
    /\ spaceFd' = FALSE
    /\ worker' = [worker EXCEPT !.pc = "drain", !.wait = FALSE]
    /\ UNCHANGED <<serial, stopFd, stdin, guest>>

PollStdin ==
    /\ At("poll") /\ ~ stopFd /\ ~ worker.wait /\ worker.watch
    /\ \/ stdin.buf # <<>> /\ Goto("drain")
       \/ stdin.buf = <<>> /\ stdin.closed /\ Goto("drain_hup")
       \/ stdin.buf = <<>> /\ stdin.closed /\ Goto("drain")
    /\ UNCHANGED <<serial, spaceFd, stopFd, stdin, guest>>

\* POLLERR on stdin.
PollError ==
    /\ At("poll") /\ ~ stopFd /\ ~ worker.wait /\ worker.watch /\ stdin.closed
    /\ worker' = [worker EXCEPT !.watch = FALSE]
    /\ UNCHANGED <<serial, spaceFd, stopFd, stdin, guest>>

\* drain_stdin under the lock; its status decides what is polled next.
Drain ==
    LET d == DrainStdin(serial, stdin)
        full == d.serial.ready /\ Capacity(d.serial) = 0
    IN  /\ At("drain")
        /\ serial' = d.serial
        /\ stdin' = [stdin EXCEPT !.buf = d.left]
        /\ worker' = [pc |-> IF full THEN "clear" ELSE "poll",
                      watch |-> d.serial.ready, wait |-> full]
        /\ UNCHANGED <<spaceFd, stopFd, guest>>

DrainHup ==
    LET d == DrainStdin(serial, stdin)
    IN  /\ At("drain_hup")
        /\ serial' = d.serial
        /\ stdin' = [stdin EXCEPT !.buf = d.left]
        /\ worker' = [worker EXCEPT !.pc = "poll", !.watch = FALSE]
        /\ UNCHANGED <<spaceFd, stopFd, guest>>

\* A read of stdin fails after k bytes: drain_stdin returns Err, the worker ends.
DrainFails ==
    LET f == FlushPendingRx(serial)
    IN  /\ worker.pc \in {"drain", "drain_hup"} /\ serial.ready
        /\ \E k \in 0 .. Len(stdin.buf) :
              /\ k < Capacity(f)
              /\ serial' = [f EXCEPT !.fifo = @ \o SubSeq(stdin.buf, 1, k)]
              /\ stdin' = [stdin EXCEPT !.buf = SubSeq(@, k + 1, Len(@))]
        /\ Goto("done")
        /\ UNCHANGED <<spaceFd, stopFd, guest>>

\* "clear stale signals before waiting"
ClearSpace ==
    /\ At("clear")
    /\ spaceFd' = FALSE
    /\ Goto("poll")
    /\ UNCHANGED <<serial, stopFd, stdin, guest>>

------------------------------------------------------------------------------
(* Environment *)

Arrive ==
    /\ stdin.sent < StdinBytes /\ ~ stdin.closed
    /\ stdin' = [stdin EXCEPT !.sent = @ + 1, !.buf = Append(@, <<0, stdin.sent + 1>>)]
    /\ UNCHANGED <<serial, spaceFd, stopFd, worker, guest>>

CloseStdin ==
    /\ ~ stdin.closed
    /\ stdin' = [stdin EXCEPT !.closed = TRUE]
    /\ UNCHANGED <<serial, spaceFd, stopFd, worker, guest>>

\* StdinWorker::stop, or its Drop.
Stop ==
    /\ ~ stopFd /\ ~ At("done")
    /\ stopFd' = TRUE
    /\ UNCHANGED <<serial, spaceFd, stdin, worker, guest>>

WorkerStep ==
    PollStop \/ PollSpace \/ PollStdin \/ PollError \/ Drain \/ DrainHup \/ ClearSpace

Next ==
    \/ WorkerStep \/ DrainFails
    \/ BusRead \/ BusWriteQuery
    \/ Arrive \/ CloseStdin \/ Stop

Spec == Init /\ [][Next]_vars

\* The worker thread runs; the guest reads what the UART holds.
FairSpec ==
    Spec /\ WF_vars(WorkerStep) /\ WF_vars(serial.fifo # <<>> /\ BusRead)

------------------------------------------------------------------------------
(* Properties *)

FromStdin(b) == b[1] = 0
StdinByte == {0} \X Nat
InFlight == guest.got \o serial.fifo

\* No byte of stdin is lost, repeated or reordered between read() and the
\* guest: those the guest got, those in the FIFO and those unread are 1, 2, ...
InputInOrder ==
    Retain(InFlight, StdinByte) \o stdin.buf = [n \in 1 .. stdin.sent |-> <<0, n>>]

\* A cursor position reply reaches the guest in one piece: neither typed input
\* nor another reply splits it, even when it did not fit the FIFO at once.
ReplyInOnePiece ==
    \A i \in 1 .. Len(InFlight) - 1 :
        ~ FromStdin(InFlight[i]) /\ InFlight[i][2] < ReplyLen
            => InFlight[i + 1] = <<InFlight[i][1], InFlight[i][2] + 1>>

\* "Wake the worker and wait for it to exit.": after stop the worker ends.
StopEndsWorker == stopFd ~> At("done")

\* "Wakes the stdin worker when RX FIFO has space after being full.": a worker
\* that waits for space has been signalled, or the guest has bytes left to read
\* and will signal it.
SpaceWakesWorker ==
    At("poll") /\ worker.wait /\ ~ spaceFd => serial.fifo # <<>>

==============================================================================
