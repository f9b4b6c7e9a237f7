------------------------------ MODULE VirtioNet ------------------------------
(***************************************************************************)
(* The virtio-net device (src/src/devices/virtio_net.rs): its worker, the  *)
(* frames it holds back in each direction, the TAP and a guest driver that *)
(* may reset the device at any time.                                       *)
(*                                                                         *)
(* process_net_once runs under the device's mutex, which register writes   *)
(* take too; the rings, the TAP and the eventfd do not need it.  So each   *)
(* turn of its loops is a step, and only register writes wait for the end. *)
(* What a buffer or a frame turns out to be (too small, malformed, short)  *)
(* is chosen when the device looks at it.  The stop flag and the end of    *)
(* the worker are in DeviceWorker.                                         *)
(***************************************************************************)
EXTENDS VirtioMmio

CONSTANTS
    TX, RX,      \* the queues
    MaxTx,       \* bound: buffers the driver posts on TX
    MaxRx,       \* bound: buffers the driver posts on RX
    MaxFrames,   \* bound: frames that arrive on the TAP
    MaxResets,   \* bound: resets by the driver
    TapCap       \* frames the TAP takes before a write would block

ASSUME VirtioNetAssumption ==
    /\ Queues = {TX, RX} /\ TX # RX
    /\ {MaxTx, MaxRx, MaxFrames, MaxResets, TapCap} \subseteq Nat

VARIABLES
    mmio,    \* the transport, rings included
    kick,    \* notify_fd is readable
    net,     \* [tx, rx]: pending_tx, pending_rx_len
    worker,  \* [pc, wantIn, wantOut, irq, gave, err]
    tap,     \* [in, arrived, out, held]: unread frames and their count, frames
             \* sent, and how many fill its queue
    guest    \* [epoch, setup, posted, mine, owes, isr, back, got]: resets, queues
             \* set up, buffers posted, TX buffers posted since the reset,
             \* notify owed, in the handler, TX buffers received, frames of the
             \* RX buffers received (NoFrame in one that came back empty)

vars == <<mmio, kick, net, worker, tap, guest>>

NoFrame == 0
NoBuf == [id |-> 0, epoch |-> 0, frame |-> NoFrame]

\* The worker at the top of its loop; flags not in use are FALSE.  `err` says
\* that the last pass met an error, which the worker itself only logs.
Idle == [pc |-> "look", wantIn |-> FALSE, wantOut |-> FALSE, irq |-> FALSE,
         gave |-> FALSE, err |-> FALSE]

\* The device after a reset; the TAP may still be full of the frames an earlier
\* driver sent.
Init ==
    /\ mmio = NewMmio
    /\ kick = FALSE
    /\ net = [tx |-> NoBuf, rx |-> NoFrame]
    /\ worker = Idle
    /\ tap = [in |-> <<>>, arrived |-> 0, out |-> <<>>, held |-> TapCap]
    /\ guest = [epoch |-> 1, setup |-> {}, posted |-> [q \in Queues |-> 0],
                mine |-> {}, owes |-> FALSE, isr |-> FALSE, back |-> {}, got |-> <<>>]

At(l) == worker.pc = l
Goto(l) == worker' = [worker EXCEPT !.pc = l]
Unlocked == worker.pc \in {"look", "poll", "tx_start"}
TapRoom == tap.held < TapCap

------------------------------------------------------------------------------
(* worker_loop *)

\* mutant of Look: a held TX frame does not ask for POLLOUT.
LookInOnly ==
    /\ At("look")
    /\ worker' = [worker EXCEPT !.pc = "poll", !.wantIn = net.rx = NoFrame, !.wantOut = FALSE]
    /\ UNCHANGED <<mmio, kick, net, tap, guest>>

\* What to wait for, read under the lock and used after it is released.
Look ==
    /\ At("look")
    /\ worker' = [worker EXCEPT !.pc = "poll",
                                !.wantIn = net.rx = NoFrame,
                                !.wantOut = net.tx # NoBuf /\ Ready(mmio, TX)]
    /\ UNCHANGED <<mmio, kick, net, tap, guest>>

SomethingReady ==
    kick \/ (worker.wantIn /\ tap.in # <<>>) \/ (worker.wantOut /\ TapRoom)

PollReady ==
    /\ At("poll") /\ SomethingReady
    /\ kick' = FALSE
    /\ worker' = [Idle EXCEPT !.pc = "tx_start"]
    /\ UNCHANGED <<mmio, net, tap, guest>>

PollTimeout ==
    /\ At("poll") /\ ~ SomethingReady
    /\ worker' = [Idle EXCEPT !.err = worker.err]
    /\ UNCHANGED <<mmio, kick, net, tap, guest>>

------------------------------------------------------------------------------
(* process_tx *)

\* complete_tx: the buffer goes back and the pass will raise an interrupt.
Complete(m, buf, next, err) ==
    /\ mmio' = AddUsed(m, TX, buf)
    /\ worker' = [worker EXCEPT !.pc = next, !.irq = TRUE, !.err = @ \/ err]

\* mutant of Send: a frame that would block is given back unsent and also held.
SendCompletesHeld(m, buf) ==
    \/ /\ TapRoom
       /\ tap' = [tap EXCEPT !.out = Append(@, buf.id), !.held = @ + 1]
       /\ net' = [net EXCEPT !.tx = NoBuf]
       /\ Complete(m, buf, "tx", FALSE)
    \/ /\ ~ TapRoom
       /\ net' = [net EXCEPT !.tx = buf]
       /\ Complete(m, buf, "rx_start", FALSE)
       /\ UNCHANGED tap
    \/ /\ net' = [net EXCEPT !.tx = NoBuf]
       /\ Complete(m, buf, "rx_start", TRUE)
       /\ UNCHANGED tap

\* tap_try_send of a frame that was held or just taken: sent, held back, or a
\* hard error, which gives the buffer back and ends process_tx.
Send(m, buf) ==
    \/ /\ TapRoom
       /\ tap' = [tap EXCEPT !.out = Append(@, buf.id), !.held = @ + 1]
       /\ net' = [net EXCEPT !.tx = NoBuf]
       /\ Complete(m, buf, "tx", FALSE)
    \/ /\ ~ TapRoom
       /\ net' = [net EXCEPT !.tx = buf]
       /\ mmio' = m
       /\ Goto("rx_start")
       /\ UNCHANGED tap
    \/ /\ net' = [net EXCEPT !.tx = NoBuf]
       /\ Complete(m, buf, "rx_start", TRUE)
       /\ UNCHANGED tap

\* mutant of StartTx: new buffers are taken before the held frame is sent.
StartTxNewFirst ==
    /\ At("tx_start") /\ Ready(mmio, TX)
    /\ \/ net.tx = NoBuf /\ Goto("tx") /\ UNCHANGED <<mmio, net, tap>>
       \/ net.tx # NoBuf /\ Avail(mmio, TX) = <<>> /\ Send(mmio, net.tx)
       \/ /\ net.tx # NoBuf /\ Avail(mmio, TX) # <<>> /\ TapRoom
          /\ tap' = [tap EXCEPT !.out = Append(@, Head(Avail(mmio, TX)).id), !.held = @ + 1]
          /\ Complete(PopAvail(mmio, TX), Head(Avail(mmio, TX)), "rx_start", FALSE)
          /\ UNCHANGED net
    /\ UNCHANGED <<kick, guest>>

StartTx ==
    /\ At("tx_start") /\ Ready(mmio, TX)
    /\ \/ net.tx = NoBuf /\ Goto("tx") /\ UNCHANGED <<mmio, net, tap>>
       \/ net.tx # NoBuf /\ Send(mmio, net.tx)
    /\ UNCHANGED <<kick, guest>>

\* "Drop held TX across reset / queue not-ready"
TxNotReady ==
    /\ At("tx_start") /\ ~ Ready(mmio, TX)
    /\ net' = [net EXCEPT !.tx = NoBuf]
    /\ Goto("rx_start")
    /\ UNCHANGED <<mmio, kick, tap, guest>>

\* The next chain: a frame, one shorter than the header, or unreadable.
TxNext ==
    LET m == PopAvail(mmio, TX)
        buf == Head(Avail(mmio, TX))
    IN  /\ At("tx") /\ Avail(mmio, TX) # <<>>
        /\ \/ Send(m, buf)
           \/ Complete(m, buf, "tx", FALSE) /\ UNCHANGED <<net, tap>>
           \/ Complete(m, buf, "rx_start", TRUE) /\ UNCHANGED <<net, tap>>
        /\ UNCHANGED <<kick, guest>>

TxDone ==
    /\ At("tx") /\ Avail(mmio, TX) = <<>>
    /\ Goto("rx_start")
    /\ UNCHANGED <<mmio, kick, net, tap, guest>>

------------------------------------------------------------------------------
(* process_rx *)

RxNotReady ==
    /\ At("rx_start") /\ ~ Ready(mmio, RX)
    /\ net' = [net EXCEPT !.rx = NoFrame]
    /\ Goto("finish")
    /\ UNCHANGED <<mmio, kick, tap, guest>>

ToFlush == Goto("flush")

\* A held frame goes first.
StartRx ==
    /\ At("rx_start") /\ Ready(mmio, RX)
    /\ IF net.rx = NoFrame THEN Goto("rx") ELSE ToFlush
    /\ UNCHANGED <<mmio, kick, net, tap, guest>>

\* A read of the TAP: a frame, one too short to keep, nothing, or an error.
ReadTap ==
    /\ At("rx")
    /\ \/ /\ tap.in # <<>>
          /\ tap' = [tap EXCEPT !.in = Tail(@)]
          /\ \/ net' = [net EXCEPT !.rx = Head(tap.in)] /\ ToFlush
             \/ UNCHANGED <<net, worker>>
       \/ tap.in = <<>> /\ Goto("finish") /\ UNCHANGED <<net, tap>>
       \/ /\ worker' = [worker EXCEPT !.pc = "finish", !.err = TRUE]
          /\ UNCHANGED <<net, tap>>
    /\ UNCHANGED <<mmio, kick, guest>>

\* mutant of FlushChain: a delivered frame stays pending.
FlushChainKeeps ==
    LET m == PopAvail(mmio, RX)
        buf == Head(Avail(mmio, RX))
    IN  /\ At("flush") /\ Avail(mmio, RX) # <<>>
        /\ \/ /\ mmio' = AddUsed(m, RX, [buf EXCEPT !.frame = net.rx])
              /\ worker' = [worker EXCEPT !.pc = "finish", !.irq = TRUE]
              /\ UNCHANGED net
           \/ /\ mmio' = AddUsed(m, RX, buf)
              /\ worker' = [worker EXCEPT !.gave = TRUE]
              /\ UNCHANGED net
        /\ UNCHANGED <<kick, tap, guest>>

\* flush_pending_rx takes a chain: it fits the frame, it is too small and goes
\* back empty, or it is malformed: then `?` leaves at once, the chain is not
\* given back, and that smaller ones were is forgotten with `used_any`.
FlushChain ==
    LET m == PopAvail(mmio, RX)
        buf == Head(Avail(mmio, RX))
    IN  /\ At("flush") /\ Avail(mmio, RX) # <<>>
        /\ \/ /\ mmio' = AddUsed(m, RX, [buf EXCEPT !.frame = net.rx])
              /\ net' = [net EXCEPT !.rx = NoFrame]
              /\ worker' = [worker EXCEPT !.pc = "rx", !.irq = TRUE, !.gave = FALSE]
           \/ /\ mmio' = AddUsed(m, RX, buf)
              /\ worker' = [worker EXCEPT !.gave = TRUE]
              /\ UNCHANGED net
           \/ /\ mmio' = m
              /\ worker' = [worker EXCEPT !.pc = "finish", !.err = TRUE,
                                          !.gave = FALSE]
              /\ UNCHANGED net
        /\ UNCHANGED <<kick, tap, guest>>

\* mutant of FlushEmpty: the frame is kept though every chain was too small.
FlushEmptyKeeps ==
    /\ At("flush") /\ Avail(mmio, RX) = <<>>
    /\ worker' = [worker EXCEPT !.pc = "finish", !.irq = @ \/ worker.gave]
    /\ UNCHANGED <<mmio, kick, net, tap, guest>>

\* No chain left: the frame is dropped if some were seen, and held otherwise.
FlushEmpty ==
    /\ At("flush") /\ Avail(mmio, RX) = <<>>
    /\ worker' = [worker EXCEPT !.pc = IF worker.gave THEN "rx" ELSE "finish",
                                !.irq = @ \/ worker.gave,
                                !.gave = FALSE]
    /\ net' = [net EXCEPT !.rx = IF worker.gave THEN NoFrame ELSE @]
    /\ UNCHANGED <<mmio, kick, tap, guest>>

\* mutant of Finish: a pass that met an error raises no interrupt.
FinishUnlessError ==
    /\ At("finish")
    /\ mmio' = IF worker.irq /\ ~ worker.err THEN SignalUsedQueue(mmio) ELSE mmio
    /\ worker' = [Idle EXCEPT !.err = worker.err]
    /\ UNCHANGED <<kick, net, tap, guest>>

\* The end of process_net_once.
Finish ==
    /\ At("finish")
    /\ mmio' = IF worker.irq THEN SignalUsedQueue(mmio) ELSE mmio
    /\ worker' = [Idle EXCEPT !.err = worker.err]
    /\ UNCHANGED <<kick, net, tap, guest>>

WorkerStep ==
    \/ Look \/ PollReady \/ PollTimeout
    \/ StartTx \/ TxNotReady \/ TxNext \/ TxDone
    \/ StartRx \/ RxNotReady \/ ReadTap \/ FlushChain \/ FlushEmpty
    \/ Finish

------------------------------------------------------------------------------
(* The guest driver; register writes go through VirtioDev::write *)

WriteRegister(m) == Unlocked /\ mmio' = m

\* The driver starts over: its rings are new and hold nothing.
DriverReset ==
    /\ guest.epoch <= MaxResets
    /\ WriteRegister(WriteStatus(mmio, {}))
    /\ guest' = [guest EXCEPT !.epoch = @ + 1, !.setup = {}, !.owes = FALSE,
                              !.isr = FALSE, !.mine = {}, !.back = {}]
    /\ UNCHANGED <<kick, net, worker, tap>>

DriverFeatures ==
    /\ mmio.status = {}
    /\ \E sel \in 0 .. 2, value \in SUBSET (LowFeatures \cup HighFeatures) :
          WriteRegister(WriteDriverFeatures(mmio, sel, value))
    /\ UNCHANGED <<kick, net, worker, tap, guest>>

DriverFeaturesOk ==
    /\ mmio.status = {}
    /\ WriteRegister(WriteStatus(mmio, {"driver", "features_ok"}))
    /\ UNCHANGED <<kick, net, worker, tap, guest>>

\* The driver enables each queue once between resets.  It writes 0 to
\* REG_QUEUE_READY only after a reset, when that changes nothing.
EnableQueue(q) ==
    /\ "features_ok" \in mmio.status /\ q \notin guest.setup
    /\ \E valid \in BOOLEAN : WriteRegister(WriteQueueReady(mmio, q, TRUE, valid))
    /\ guest' = [guest EXCEPT !.setup = @ \cup {q}]
    /\ UNCHANGED <<kick, net, worker, tap>>

\* A buffer is put on the ring, in shared memory; the notify comes later.
Post(q) ==
    LET n == guest.posted[q] + 1
        buf == [id |-> n, epoch |-> guest.epoch, frame |-> NoFrame]
    IN  /\ Ready(mmio, q) /\ n <= (IF q = TX THEN MaxTx ELSE MaxRx)
        /\ mmio' = [mmio EXCEPT !.queues[q].avail = Append(@, buf)]
        /\ guest' = [guest EXCEPT !.posted[q] = n, !.owes = TRUE,
                                  !.mine = IF q = TX THEN @ \cup {buf} ELSE @]
        /\ UNCHANGED <<kick, net, worker, tap>>

\* REG_QUEUE_NOTIFY, through the ioeventfd or VirtioDev::write.
Notify ==
    /\ guest.owes
    /\ guest' = [guest EXCEPT !.owes = FALSE]
    /\ kick' = TRUE
    /\ UNCHANGED <<mmio, net, worker, tap>>

\* The interrupt handler acknowledges first and looks at the rings afterwards.
Interrupt ==
    /\ mmio.intr
    /\ WriteRegister(WriteInterruptAck(mmio))
    /\ guest' = [guest EXCEPT !.isr = TRUE]
    /\ UNCHANGED <<kick, net, worker, tap>>

Frames(bufs) == [i \in DOMAIN bufs |-> bufs[i].frame]

Reap ==
    /\ guest.isr
    /\ guest' = [guest EXCEPT
            !.isr = FALSE,
            !.back = @ \cup {Used(mmio, TX)[i] : i \in DOMAIN Used(mmio, TX)},
            !.got = @ \o Frames(Used(mmio, RX))]
    /\ mmio' = [mmio EXCEPT !.queues = [q \in Queues |-> [@[q] EXCEPT !.used = <<>>]]]
    /\ UNCHANGED <<kick, net, worker, tap>>

(* The TAP *)

TapArrive ==
    /\ tap.arrived < MaxFrames
    /\ tap' = [tap EXCEPT !.arrived = @ + 1, !.in = Append(@, tap.arrived + 1)]
    /\ UNCHANGED <<mmio, kick, net, worker, guest>>

TapDrain ==
    /\ tap.held > 0
    /\ tap' = [tap EXCEPT !.held = @ - 1]
    /\ UNCHANGED <<mmio, kick, net, worker, guest>>

Next ==
    \/ WorkerStep
    \/ DriverReset \/ DriverFeatures \/ DriverFeaturesOk
    \/ \E q \in Queues : EnableQueue(q) \/ Post(q)
    \/ Notify \/ Interrupt \/ Reap
    \/ TapArrive \/ TapDrain

Spec == Init /\ [][Next]_vars

\* The worker runs, the driver sends the notify it owes, the host network takes
\* what was written to the TAP.  Nothing makes the driver post or reset.
FairSpec == Spec /\ WF_vars(WorkerStep) /\ WF_vars(Notify) /\ WF_vars(TapDrain)

------------------------------------------------------------------------------
(* Properties *)

Entries(bufs) == {bufs[i] : i \in DOMAIN bufs}
Increasing(seq) == \A i, j \in DOMAIN seq : i < j => seq[i] < seq[j]

\* Where a TX buffer is: on the ring, held back, or given back.
Places(buf) ==
    <<buf \in Entries(Avail(mmio, TX)), buf = net.tx,
      buf \in Entries(Used(mmio, TX)), buf \in guest.back>>

\* Every TX buffer the driver posted since its last reset is in one place: none
\* is completed twice, completed while it is still held, or forgotten, whatever
\* the TAP and the frames do (process_tx).
TxBuffersConserved ==
    Ready(mmio, TX) =>
        /\ \A buf \in guest.mine :
              \E i \in 1 .. 4 : \A j \in 1 .. 4 : Places(buf)[j] <=> i = j
        /\ \A i, j \in DOMAIN Used(mmio, TX) : Used(mmio, TX)[i] = Used(mmio, TX)[j] => i = j

\* Frames leave on the TAP in the order they were posted, each once, although
\* one of them may have been held back (pending_tx).
TxInOrder == Increasing(tap.out)

\* Frames reach the guest in the order they arrived, each once, although one of
\* them may have been held back (pending_rx_len).
RxInOrder ==
    \A i, j \in DOMAIN guest.got :
        i < j /\ guest.got[i] # NoFrame /\ guest.got[j] # NoFrame
            => guest.got[i] < guest.got[j]

\* "Always raise used-queue IRQ if any descriptor was completed, even when a
\* later step returns an error": for TX, between two passes, completed buffers
\* the driver has not seen have their interrupt pending or being handled.
TxUsedIsSignalled ==
    Unlocked /\ Used(mmio, TX) # <<>> => mmio.intr \/ guest.isr

Waiting(n) == n = net.tx.id \/ \E buf \in Entries(Avail(mmio, TX)) : buf.id = n

\* A posted frame is sent or given back, held back or not, unless the driver
\* resets the device or the worker's last pass met an error.
TxMovesOn ==
    \A n \in 1 .. MaxTx :
        Waiting(n) ~> ~ Waiting(n) \/ ~ Ready(mmio, TX) \/ worker.err

\* "avoids permanent POLLIN starve": a held RX frame is delivered or dropped
\* once the driver posts buffers, whatever their size, with the exceptions of
\* TxMovesOn.
HeldRxMovesOn ==
    net.rx # NoFrame /\ Avail(mmio, RX) # <<>>
        ~> net.rx = NoFrame \/ ~ Ready(mmio, RX) \/ worker.err

\* "so head indices cannot leak into a re-initialized ring": what the driver
\* finds on its used ring was posted since its last reset.
NoHeadLeaks ==
    \A buf \in Entries(Used(mmio, TX)) : buf.epoch = guest.epoch

==============================================================================
