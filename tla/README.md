# Verification of kitsune

kitsune is a virtual machine monitor for KVM. It runs one thread per vCPU, one
worker thread per virtio device, and one thread that feeds stdin to the serial
console. This directory holds TLA+ models of the parts where those threads, the
guest and the host can meet in an unforeseen order. TLC checks the models on small
instances. TLAPS proves theorems about them for every value of the constants.

Paths below are relative to the repository; line numbers are those of the mapped
sources (`PROJECT.json`, `map`).

## 1. Inventory of the system

| Part | Source | State | Operations that change it |
|---|---|---|---|
| Run/stop protocol | `vmm.rs` 237-551 | stop flag, kick registry, signal handler, threads | `run`, `run_vcpu_loop`, `request_stop`, `kick_all` |
| VM construction, loading | `vmm.rs` 31-235 | KVM fds, guest memory | `new`, `add_*_device`, `load_*` (before any thread exists) |
| vsock multiplexer | `vsock_mux.rs` | connections, credit counters, two output queues | guest packets, socket events, deadlines |
| virtio-vsock device | `virtio_vsock.rs` | queues, `queues_ready`, `need_reset_event` | `worker_loop`, `drive`, `pull_tx`, `push_rx`, `push_reset_event` |
| Worker life cycle | `virtio_dev.rs`, `start_worker`/`stop_worker` of the devices | `WorkerSlot`, stop flag, disk handle | `reserve`, `commit`, `take_worker`, join |
| Serial input | `serial.rs` | RX FIFO, `pending_rx`, two eventfds | `drain_stdin`, `bus_read`, `observe_guest_tx`, `stdin_worker_loop` |
| virtio-net | `virtio_net.rs` | pending TX head, pending RX packet, queues | `process_tx`, `process_rx`, `flush_pending_rx` |
| virtio-blk | `virtio_blk.rs` | request queue, disk, io_uring | `process_queue`, `handle_request`, `BlockDisk` |
| virtio-mmio registers | `virtio_mmio.rs` | status, features, queue set-up, interrupt status | `write_reg`, `reset`, `signal_used_queue` |
| Port bus, legacy devices | `pio_bus.rs`, `legacy_io.rs` | reset and sleep ports | `write`, `read` |
| Boot layout | `boot.rs`, `memory.rs`, `cmdline.rs`, `gdt.rs` | guest memory before the first vCPU runs | placement of kernel, initrd, boot data |
| vCPU set-up | `vcpu.rs` | page tables, CPUID table, registers | `setup_identity_map`, `apply_cpu_topology`, `setup_*` |
| ACPI tables | `acpi.rs` | guest memory | `install_tables` |
| Program | `main.rs`, `config.rs`, `error.rs` | none | |

How the parts meet. vCPU threads call the serial console and the devices' register
files under their mutexes; a QueueNotify write kicks the device's eventfd. A device
worker polls its eventfd and host fds, takes the device's mutex and drives the
queues. `Vmm::run` starts and stops the workers and the stdin thread, and joins the
vCPU threads after setting the stop flag and signalling them.

What is hard in it: signals that race the entry into KVM_RUN; errors of one thread
among many; a start that fails half way; a lost eventfd wake-up; credit counters
that wrap; packets and shutdowns that overtake one another; a connection dropped
with packets queued; a device reset by the guest between two steps of its worker; an
io_uring dropped with an operation in flight; sizes at the limit of a table or page.
`PROJECT.json` lists these hazards at the lines where they bite.

## 2. Modules

**`VcpuRun`** models `Vmm::run` and the vCPU loops. `main` is the position of
`run()`, `at` its loop index, `pc[v]` the position of vCPU thread `v`. The BSP runs
on the thread of `run()`. The guest is the environment: `KvmExit(v, e)` lets KVM_RUN
return any exit `e`, sorted by what the loop makes of it (`EndsCleanly`,
`EndsWithError`, `EndsThroughTry`, `Continues`). `CheckStop` and `EnterKvm` are
separate steps, as are the store and the kick of `request_stop`. `kicked[v]` says
that a signal interrupted a KVM_RUN in progress; a signal outside KVM_RUN only runs
the empty handler. Every start (handler, stdin worker, device, AP thread) may fail.
A failed AP spawn is the one early return that cleans nothing up; `main` is then
`"abandoned"`.

**`VcpuRunProofs`** holds the theorems about it (section 5).

**`VsockMux`** models `Mux`. It has no variables: each handler is an operator from
the Mux's state to the next, so a handler that calls another is written as in the
code (`OnRw` calls `FlushConn`, which calls `Ingest` and `MaybeCredit`). What comes
from outside is a parameter: the packet, what `read` returned, how many units the
socket accepts (`room`). Counters are kept modulo `CounterMod`, which stands for
2^32. A deadline is a Boolean: whether one is set.

**`VsockMuxOpen`** holds a Mux as a variable and lets any guest and any host act on
it: every packet kind in every state, any announced `fwd_cnt`, short writes, EOF,
errors, deadlines, loss of the transport. One action per entry point the device
worker calls.

**`VsockStream`** puts one connection between a host application and a guest driver
that follows the credit rules, with bounded TX and RX queues. The guest driver and
the host application are external, modelled from the packets the code exchanges with
them. **`ByteStream`** is the abstract specification: bytes written are delivered in
order, none invented. `VsockStream` is checked to implement it in each direction
(`ToGuest`, `ToHost`: INSTANCE with bytes written and bytes delivered as the
mapping). **`MCVsockStream`** gives `Flow` its value.

**`DeviceWorker`** models `WorkerSlot`, `WorkerReservation`, the stop flag and the
`start_worker`/`stop_worker` of the devices. Each lock section is a step. With
`HasDisk` the device is virtio-blk, whose disk handle moves into the worker's
closure and back; `disk` says who holds it. A worker polls with a timeout of 50 ms,
so it reads the stop flag whether or not it is kicked, and the eventfd is left out.

**`SerialStdin`** models the input side of the console. Operations of
`SerialConsole` run under its mutex and are one step; the worker's poll and its reads
of the eventfd are steps of their own. The UART is the external crate vm_superio: a
FIFO of `FifoSize` bytes, loopback off. A byte is a pair that says where it comes
from: typed input, or the reply to the n-th cursor position query.

**`VirtioMmio`** models the transport's registers as operators, in the manner of
`VsockMux`: reset, feature negotiation, status, queue enable, interrupt status. A
queue is its ready flag and the two rings as the device sees them; ring addresses are
abstract. `virtio_queue` is an external crate.

**`VirtioNet`** models the virtio-net worker on that transport. `net` holds the two
frames that may be held back (`pending_tx`, `pending_rx_len`), `worker` the position
in `worker_loop` and `process_net_once` with the flags it carries, `tap` the TAP and
`guest` a driver that keeps to the order of set-up and may reset at any time. Each
turn of a loop is a step. The mutex is the predicate `Unlocked`: register writes wait
for it, while posting to a ring, notifying and TAP traffic do not. The errors of the TAP,
of the frames and of the chains are disjuncts. `add_used` always succeeds, here and in
`VirtioBlk`: it fails for a head beyond the queue's size or a ring outside guest memory, and
heads are popped from the ring they go back to. (One exception: a head carried across a
reset into a ring set up smaller. The call then fails and `?` ends the pass.) A buffer
carries the number of the reset since which it was posted; only properties read it.

**`BlockDisk`** models the disk backend of virtio-blk: the two descriptors of an image
(buffered and O_DIRECT), the io_uring that is dropped at its first error, the scratch
buffer. A backend call is a record; one system call of it is a set of outcomes: the
whole of it, a short transfer, EINVAL from O_DIRECT, an error, the end of the file.
The kernel is external: a page cache whose writeback may fail, which each descriptor
reports once, and an operation that goes on after its ring is gone (`late`; `stray`
records that there was one).

**`VirtioBlk`** models the virtio-blk worker on that backend and on `VirtioMmio`, with
a driver as in `VirtioNet`. The mutex is held while a request is popped, completed or
signalled and released while it is served, so a reset may come between any two system
calls of a request. Requests are checked as in `handle_request`: type, negotiated
features, read-only image, range and overflow, buffer direction. **`MCVirtioBlk`**
gives `Spans` its value.

**`BootLayout`** holds what kitsune places in guest memory before the vCPUs run, as
operators over addresses: `validate_mem_size`, `place_initrd`, the memory map, the
ACPI tables, `setup_identity_map` with its page tables as functions, the device
windows. `Translate` is the MMU's walk of those tables and is external, as are the
sizes of the tables that the acpi_tables crate writes.

**`CpuTopology`** models `apply_cpu_topology`. A CPUID entry is reduced to the numbers
that describe the topology; each is truncated to the bits the code masks it with.

**`Retain`** holds `VecDeque::retain`, which the multiplexer and the console use, as a
recursive function on prefixes.

**`DeviceWorkerProofs`**, **`VsockMuxProofs`**, **`SerialStdinProofs`**,
**`VirtioNetProofs`** and **`VirtioBlkProofs`** hold the theorems about those modules,
**`RetainProofs`** the lemmas about `Retain`, and **`GuestSetupProofs`** the theorems
about `BootLayout` and `CpuTopology`. These two describe functions, not behaviours:
what there is to know of them is proved for all inputs, and no run instantiates them.

Definitions named as mutants in their comments are variants of the definition that
follows them. Each is a plausible bug, and the property it is listed with
(`PROJECT.json`, `mutants`) fails under it.

## 3. Runs

| Run | Config | Result | What it asks |
|---|---|---|---|
| `vcpu_run` | `VcpuRun.cfg` | holds | Does `run()` keep its registry, handler, workers and errors straight, and can anything but a missed kick hold it up? |
| `vsock_open` | `VsockMux_open.cfg` | holds | Do queues, windows, handshake and deadlines hold against any guest? |
| `vsock_stream` | `VsockStream_ample.cfg` | holds | Is a connection a byte stream both ways, as long as the guest has credit? |
| `vsock_progress` | `VsockStream_live.cfg` | holds | Can anything but a byte set aside for lack of credit keep a byte from the guest, and does the guest get credit back until all its bytes have arrived? |
| `vsock_reorder` | `VsockStream_reorder.cfg` | violated | Is it still a stream when credit runs out? |
| `worker` | `DeviceWorker.cfg` | holds | Do slot, disk and handles stay consistent under concurrent starts and stops? |
| `serial` | `SerialStdin.cfg` | holds | Does input arrive whole and in order, and does stop end the worker? |
| `serial_wakeup` | `SerialStdin_wakeup.cfg` | violated | Is a worker that waits for space always woken? |
| `net` | `VirtioNet.cfg` | holds | Does virtio-net keep buffers, interrupts and frame order straight on every error path? |
| `net_progress` | `VirtioNet_live.cfg` | holds | Can a frame be held back for ever? |
| `net_stale_head` | `VirtioNet_stale.cfg` | violated | Can a head index cross a reset? |
| `blk` | `VirtioBlk.cfg` | holds | Does every request get one true answer, and is a flushed write on the medium, across resets, short transfers and failures of each backend? |

What the violated runs show:

- **`vsock_reorder`**. With no credit left `ingest` sets bytes aside in `prefetched`.
  A credit update does not flush them, while the socket is still polled, so bytes the
  host writes later are sent first. If the guest then sends nothing but credit updates,
  the bytes set aside stay where they are: `ToGuestProgress` (section 4) excepts this case,
  and fails without the exception.
- **`serial_wakeup`**. The worker finds the FIFO full, the guest empties it and
  signals `rx_space_fd`, and the worker then clears the eventfd before it waits.
- **`net_stale_head`**. A TX frame is held because the TAP is full. The driver resets
  the device and enables the queue again before the worker's next pass. The worker
  finds the queue ready, sends the old frame and completes its head on the new ring.

### Bounds and why they are enough

- `vcpu_run`: 3 vCPUs and 2 devices. Two APs are the least with which one can fail
  while another is joined, and two devices the least with a partial start.
  `ExitOnHlt` is TRUE, which gives the BSP the debug exits and the APs the others.
- `vsock_open`: one flow. The handlers touch only the flow of their packet, apart from
  `alloc_host_port` and `kill_connections`. `CounterMod` 3 makes counters wrap within
  a few packets. Chunk, window and prefetch limits of one or two bytes are reached at
  once; queue bounds (`MaxCtrl`, `MaxData`) limit how long the guest goes without
  posting buffers. `connect` on a Unix socket never reports EINPROGRESS, so
  `ConnectResults` leaves "pending" out.
- `vsock_stream`, `vsock_progress`: three bytes each way, a window of two, payloads of up
  to two, RX buffers of one byte, so packets are split, credit is exhausted towards the
  host and updates are needed. In `vsock_stream` the guest has credit for all the host
  writes (`GuestBuf`), and `prefetched` room for it (`MaxPrefetch`), which matters before
  the guest has answered; `vsock_reorder` shows what happens when credit runs out. A
  `prefetched` that is full loses what a last read brings beyond it (624-632, 659), which
  no run shows. In `vsock_progress` the guest has credit for one byte of three at a time,
  so bytes are set aside in most behaviours and leave again when the guest sends.
  `HostCap` there covers all the guest writes, so the host socket is never full (721) and
  `ToHostProgress` says nothing of a mux that gives a connection up on EAGAIN;
  `vsock_stream` has that case. The guest connects in `vsock_progress`, so no handshake
  deadline ends the connection.
- `worker`: `Vmm::run` is the only caller today; `WorkerSlot` is written for several,
  and its "starting" state exists only for them, so the model has several. Three
  callers, three workers: one being joined, one running and one starting.
- `serial`: a FIFO of 3, replies of 2, 3 typed bytes, 2 queries: a reply fits once
  but not twice, and typed input finds the FIFO with no, some or all of its room.
- `net`: two buffers per queue, two frames, one reset, a TAP that holds one frame. It
  starts full, as an earlier driver may have left it, so any TX frame may be held
  back; the first RX buffer may be too small or malformed and the second fit, and the
  reset falls between any two steps. `net_progress` has one RX buffer and one frame.
- `blk`: an image of two sectors, alignment of two, two requests, one reset. A request
  is aligned and whole, unaligned, past the end, empty, or past the largest offset; a
  transfer of two sectors can be short. Two requests are the least with which the
  second can find what the first left in the scratch buffer, the ring or the page
  cache. All eight kinds of image (read-only, O_DIRECT, io_uring) are initial states.

`CHECK_DEADLOCK FALSE` is set where the system ends: `run()` returns, a connection
has moved all its bytes, the stdin worker has stopped, the driver has posted all its
requests or has given up after features were refused. `vsock_open` and `worker` check
deadlock.

### Fairness

- `VcpuRun`: every thread that can take a step of its own takes one, and a KVM_RUN
  that was interrupted returns. Nothing makes a guest leave KVM_RUN on its own.
- `VsockStream`: the worker polls with a timeout of 50 ms and on each pass handles
  ready sockets and both queues; the guest driver handles what it is sent, and the guest
  application writes until it has written all its bytes. Nobody needs to read.
  `WorkerFair` spells ENABLED out for the worker's three actions (TLC evaluates it very
  slowly for them); that the guards are right was checked on an instance with two bytes
  each way.
- `DeviceWorker`: callers run, and a worker reaches its loop test again. Nothing
  makes the environment start or stop.
- `VirtioNet`: the worker runs, the driver sends the notify it owes, the TAP drains.
- `VirtioBlk`: the worker runs (`poll` returns once kicked, system calls return), and
  the driver sends the notify it owes.
- `SerialStdin`: the worker runs, and the guest reads a FIFO that is not empty.

## 4. What the properties say

Each property carries a comment in its module. The ones that took thought:

- `FirstErrorReported`: whatever the order in which vCPUs fail, the lowest index is
  reported and no worker error masks it.
- `WindowExact`: bytes held for the host equal `received - fwd_cnt` in wrapping
  arithmetic, and never exceed `BUF_ALLOC`, whatever the guest sends.
- `OnlyRstOutlivesConn`: after a connection is dropped nothing but a RST is sent for
  its flow: no payload, credit or shutdown of it can reach a new connection on the same
  ports. The RST can: one still queued when the ports are used again is sent after that,
  and the guest takes it for the new connection.
- `ToGuestProgress`: every byte the host writes reaches the guest or lies in `prefetched`,
  now and at every later time. Bytes are put there for lack of credit (`ingest`, 635-637)
  and leave only through `flush_conn` (714). That is called when the guest answers the
  handshake, sends data or shuts down, and when the socket is writable and polled for that; a CREDIT_UPDATE calls
  nothing (414), and POLLOUT is asked for only with other work to do (293). The property
  says that nothing else holds a byte up: not a full RX queue, not a half-closed
  connection, not bytes that went the other way.
- `CreditRespected`: the mux never sends beyond the credit announced, across wraps.
- `OneWorkerPerDisk`: a start that follows a stop still joining its worker cannot
  open the disk a second time.
- `TxBuffersConserved`: each TX buffer posted since the last reset is in exactly one
  of four places, on every path through `process_tx`.
- `OnlyMissedKickBlocks`: a kick that arrives between the test of the stop flag and
  KVM_RUN runs the no-op handler and is lost; a halted vCPU then stays in the kernel
  and `run()` waits in `join`. The property says that nothing else can hold `run()` up.
- `WaitingHasDeadline`: a connection that waits for its peer (half open, connecting, or
  shut by the mux itself in either direction) has a deadline that
  `check_timeouts` will see.
- `DataOnlyWhileOpen`: payload is queued either way only on an established
  connection, and none towards the guest once that side is shut.
- `AnswerTellsTruth`: the data of an IN are the sectors asked for, or zeros with an
  error, never another request's; an OUT answered OK is in the file. It holds until a
  ring was dropped with an operation in flight. `disable_ring` means to prevent that ("so
  scratch is not shared with in-flight I/O", `virtio_blk.rs` 694), but `drain_ring` takes
  the completions that are there and waits for none, so the operation still shares the
  buffer.
- `FlushIsDurable`: a FLUSH answered OK leaves nothing unwritten and hides no loss. A
  writeback error that the ring reported is excepted: the fallback `fdatasync` then
  succeeds, because the kernel reports an error once.
- `AtMostOneStale`: a reset while a request is served brings one completion the new
  driver did not ask for, never two.
- `ReplyInOnePiece`: typed input never splits a cursor position reply.

## 5. Proofs

`VcpuRunProofs` proves, for any number of vCPUs and devices and either value of
`ExitOnHlt` (assumption `VcpuRunAssumption`):

| Theorem | Statement |
|---|---|
| `TypeCorrect` | `Spec => []TypeOK` |
| `RegistryCorrect` | `Spec => []RegistryIsLive` |
| `OkOnlyAfterStop` | `Spec => []OkMeansStop` |
| `KickIsHandled` | `Spec => []KickHasHandler` |
| `ReturnIsClean` | `Spec => []CleanReturn` |
| `FirstErrorIsReported` | `Spec => []FirstErrorReported` |

The argument. None of these is inductive alone. `SpawnInv` says that a thread not yet
created is in state "none"; without it a spawn could put a running thread back to its
start, and `RegistryIsLive` would not survive. `StopInv` extends `OkMeansStop` to
threads on their way out. `PhaseInv` ties the position of `run()` to the guards it
holds and to how far the threads are: all created from "bsp" on, all ended after
"join". `DevicesInv` bounds the running devices by the loop index. `ReportInv` says
what `firstErr` holds in each phase; while joining, either nothing failed below the
index, or the least failed vCPU is reported and lies below it. Two lemmas
(`MainStepThreads`, `VcpuMoveThreads`) state what `run()` and a vCPU thread never
touch, and carry most cases.

`DeviceWorkerProofs` proves, for any number of callers and workers and with or without
a disk (assumption `DeviceWorkerAssumption`):

| Theorem | Statement |
|---|---|
| `Inductive` | `Spec => []IInv` |
| `SlotHasOneOwner` | `Spec => []SlotIsOwned` |
| `WorkersAreHeld` | `Spec => []NoWorkerIsForgotten` |
| `DiskHasOneWorker` | `Spec => []OneWorkerPerDisk` |
| `DiskIsReturned` | `Spec => []DiskComesBack` |

The argument is one of ownership. `OneWorkerPerDisk` counts workers and says nothing
of who may start one, so `IInv` follows the things that are handed over. A worker's
handle is in the slot or in the hands of one caller (`HandleInv`). The disk is in the
device, with the one start that is under way, or with a worker whose handle is held
(`DiskInv`); a worker that panicked keeps neither. Two workers on one disk would make
the disk be in two places.

`VsockMuxProofs` is about the multiplexer in an open environment (`VsockMuxOpen`): any
guest, any host, any set of ports, buffer sizes, limits and counter width (assumptions
`VsockMuxAssumption` and `VsockMuxOpenAssumption`; a buffer size the guest announces is
a counter value, and `BUF_ALLOC` is smaller than a turn of the counters).

| Theorem | Statement |
|---|---|
| `MuxInvariant` | `Spec => []Inv(mux)` |
| `RstOnlyAfterDrop` | `Spec => []OnlyRstOutlivesConn` |
| `WindowIsExact` | `Spec => []WindowExact` |
| `CtrlIsBounded` | `Spec => []CtrlBounded` |
| `PayloadOnlyWhileOpen` | `Spec => DataOnlyWhileOpen` |
| `CreditIsRespected` | `Spec => CreditRespected` |
| `WaitersTimeOut` | `Spec => []WaitingHasDeadline`, if no `connect` is pending |

The handlers call one another, so the proof follows the calls. `Inv` is a predicate on a
Mux record; `Moves(m, n)` says what a handler may do to the connections that stay and to
the data queue. Each handler has one lemma: from `Inv(m)` its result satisfies `Inv` and
`Moves`. `Moves` is transitive, so a handler that calls three others is three citations;
`Responds` is the weaker relation of a handler that also opens a connection. `Inv` needs
more than the properties say: every queued control packet fits its connection (a
SHUTDOWN names only directions that are shut, a RESPONSE stands only after the connect),
otherwise neither the bound of the queue nor `OnlyRstOutlivesConn` is inductive. Counters
are handled by two lemmas on `%` (`WrapRange`, `Distance`). The hypothesis of
`WaitersTimeOut` is what the code relies on: `connect` on a non-blocking Unix socket
succeeds or fails and never reports EINPROGRESS. A pending connect does get a deadline
(449), but `finish_connect` clears it (683) even if `mark_local_shut` has set one for the
shutdown meanwhile, and the connection is then left without.

`SerialStdinProofs` proves, for any FIFO size, length of the replies and amount of input
(assumption `SerialStdinAssumption`):

| Theorem | Statement |
|---|---|
| `SerialInvariant` | `Spec => []Inv` |
| `StdinInOrder` | `Spec => []InputInOrder` |
| `ReplyStaysWhole` | `Spec => []ReplyInOnePiece` |

`Inv` takes what the guest has read, the FIFO and the pending replies as one sequence, in
which every reply is whole (`Whole`): a reply that a full FIFO cut in two has its rest at
the head of `pending_rx`. Its typed bytes, followed by those still in stdin, are all the
bytes typed, in order (`Conveys`). A step moves a byte along that sequence or appends to
it.

`VirtioNetProofs` proves, for any number of buffers, frames and resets and any TAP
capacity (assumption `VirtioNetAssumption`):

| Theorem | Statement |
|---|---|
| `NetInvariant` | `Spec => []Inv` |
| `BuffersAreConserved` | `Spec => []TxBuffersConserved` |
| `TxStaysInOrder` | `Spec => []TxInOrder` |
| `RxStaysInOrder` | `Spec => []RxInOrder` |
| `UsedBuffersAreSignalled` | `Spec => []TxUsedIsSignalled` |

Buffers are numbered as they are posted, and frames as they arrive. What is further along
the way of a buffer (avail ring, held back, used ring, driver) was posted earlier, and there
are bounds that separate one stage from the next (`TxBetween`; `RxBetween` for frames from
the TAP). A buffer in two places would be on both sides of a bound. `Control` says what a
place in `worker_loop` implies: nothing is held back where a new frame is taken, and no
interrupt is owed once the mutex is free.

`VirtioBlkProofs` proves, for any image, buffer and alignment, any spans, and any number
of requests and resets (assumptions `BlockDiskAssumption`, `VirtioBlkAssumption`):

| Theorem | Statement |
|---|---|
| `BlkInvariant` | `Spec => []Inv` |
| `RequestsAreConserved` | `Spec => []RequestsConserved` |
| `StaleAtMostOnce` | `Spec => []AtMostOneStale` |
| `InterruptIsOwed` | `Spec => []UsedIsSignalled` |
| `AnswersAreTrue` | `Spec => []AnswerTellsTruth` |
| `FlushesAreDurable` | `Spec => []FlushIsDurable` |
| `DiskChangesByWrites` | `Spec => OnlyWritesChangeDisk` |

Two arguments that do not need each other. The way of a request (`Way`): as in
virtio-net, with the request in hand as a stage of its own; only the first completion
after a reset may be older than it (`Fresh`), because what the worker had in hand is the
one thing a reset does not clear. And the request in hand (`Serves`): while a read is
under way the scratch buffer equals the file as far as it has come, while a write is under
way the buffer holds the guest's data and the file has them as far; starting over without
the ring or without O_DIRECT goes back to nothing, which holds. `LossInHand` says that a
loss is always that of a flush not yet answered. From the moment a ring was dropped with
an operation in flight only the range of what it may touch is claimed (`LateOK`).

`RetainProofs` proves what `retain` keeps: the elements that pass, in their order, each
once (`RetainEmbeds`). This is an induction over the length of a sequence, phrased with
sets: the least element of a set of counterexamples (`LeastElement`, from `WFMin`).

`GuestSetupProofs` has no state; its theorems about `BootLayout` hold for every memory
size that `validate_mem_size` accepts, every initrd length and kernel end:

| Theorem | Statement |
|---|---|
| `PlaceInitrdIsBest` | `place_initrd` succeeds exactly if a page-aligned place exists, and takes the highest |
| `IdentityMapSucceeds` | no valid size is refused by `setup_identity_map` |
| `RamIsIdentityMapped` | the walk of the page tables maps each address of RAM to itself |
| `DevicesAreUnmapped` | and no address from the device windows up |
| `AcpiTablesFit` | the tables follow each other and end below 1 MiB |
| `BootDataInOrder` | GDT to command line, and the stack: no two overlap, all in reported RAM |
| `MemoryMapIsSound` | the memory map offers all of RAM from 1 MiB up, no tables, no devices |
| `MmioWindowsAreDisjoint` | no two devices share a register |

The walk is reduced to one fact (`TranslateByPage`): it reads the entry numbered
`address \div 2 MiB` of the concatenated page directories. What remains is division with
remainder, and the bound of 1664 large pages in at most four directories
(`TableCounts`). Assumed: at most 32 vCPUs (`MAX_VCPUS`), a DSDT of up to 64 KiB
(three devices and COM1 take a few hundred bytes), a command line that `Cmdline::new(4096)`
accepts.

It also shows of `apply_cpu_topology` (`CpuTopology`), for any table the host's KVM starts
from, that every leaf a guest may enumerate processors with gives the same answer and
leaf 0xb is always complete (`LeavesAgree`), and that there is one entry per leaf if
there was (`LeavesAreUnique`). No number is truncated: 32 vCPUs fit every field.

Only model-checked: liveness (outside the prover's reach), with `OnlyMissedKickBlocks`
among it; the refinement of `ByteStream` and `HostEofAfterData`, where an
invariant would have to follow every byte through two queues and the buffers between
them; and the properties of the violated runs, which do not hold.

## 6. Not modelled

- KVM ioctls of VM construction, MSRs, segment and control registers, bytes of the ACPI
  tables, argument parsing, text of the command line: straight-line code or tables of
  constants without interleaving. Reading a kernel image is the linux_loader crate.
- The virtio-vsock device's event queue, used rings and interrupts. Its worker holds the
  mutex for a whole pass, so what can interleave with it are passes, and the pass is
  modelled as the Mux sees it. Two hazards stay open there: a reset and
  re-initialisation between two passes is not noticed, and an error in `push_rx` ends
  the pass without the interrupt for buffers already returned.
- Port bus and legacy devices: each access is one assignment under a lock; the reset and
  power-off they ask for are exits of `VcpuRun`.
- Serial output and terminal mode: pure I/O.
- Message wording, byte encodings of headers and descriptor rings.
- Weak memory: the stop flags are single atomics, read in a loop.
- A second call of `run()`, which finds no vCPUs: `main.rs` makes one call.

Behaviours met while modelling that no run states, recorded as hazards: an AP whose
PIO or MMIO handler fails leaves alone, without a stop; a failed AP spawn leaves
threads behind; `SHUTDOWN` overtakes queued data; EAGAIN on a host socket shuts the
connection; a stop that overlaps a start may lose its flag to `clear_stop`; a
malformed RX chain swallows the interrupt for smaller ones given back before it; an
error in virtio-net leaves the rest of the ring waiting for the next notify.
