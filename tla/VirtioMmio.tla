----------------------------- MODULE VirtioMmio -----------------------------
(***************************************************************************)
(* The virtio-mmio transport (src/src/devices/virtio_mmio.rs): registers,  *)
(* queues and interrupt status, as operators from a transport to the next. *)
(* A device module holds the transport as part of its state.               *)
(*                                                                         *)
(* The *_SEL registers are parameters of the write they select for: the    *)
(* driver writes one right before the other.  Ring addresses are abstract: *)
(* what matters of them is whether the queue they describe is valid.       *)
(***************************************************************************)
EXTENDS Naturals, Sequences

CONSTANTS
    Queues,          \* the device's queues
    LowFeatures,     \* feature bits 0 .. 31
    HighFeatures,    \* feature bits 32 .. 63
    DeviceFeatures,  \* device_features: what the device offers
    Version1         \* VIRTIO_F_VERSION_1

ASSUME VirtioMmioAssumption ==
    /\ LowFeatures \cap HighFeatures = {}
    /\ DeviceFeatures \subseteq LowFeatures \cup HighFeatures
    /\ Version1 \in DeviceFeatures

\* STATUS bits: the two the device looks at, and "driver" for all others.
StatusBits == {"driver", "features_ok", "failed"}

\* A queue: enabled or not, buffers the device may take, buffers given back.
NewQueue == [ready |-> FALSE, avail |-> <<>>, used |-> <<>>]

NewMmio ==
    [status |-> {}, features |-> {}, intr |-> FALSE,
     queues |-> [q \in Queues |-> NewQueue]]

------------------------------------------------------------------------------
(* write_reg *)

\* mutant of Reset: the queues are disabled and keep what is on them.
ResetKeepsAvail(m) ==
    [NewMmio EXCEPT !.queues = [q \in Queues |-> [NewQueue EXCEPT !.avail = m.queues[q].avail]]]

Reset(m) == NewMmio

\* REG_DRIVER_FEATURES under driver_features_sel `sel`.
WriteDriverFeatures(m, sel, value) ==
    LET half == CASE sel = 0 -> LowFeatures [] sel = 1 -> HighFeatures [] OTHER -> {}
    IN  [m EXCEPT !.features = (@ \ half) \cup (value \cap half)]

Acceptable(features) == features \subseteq DeviceFeatures /\ Version1 \in features

\* REG_STATUS: zero resets; FEATURES_OK does not stick to a bad choice.
WriteStatus(m, value) ==
    IF value = {} THEN Reset(m)
    ELSE IF "features_ok" \in value /\ ~ Acceptable(m.features)
    THEN [m EXCEPT !.status = (value \ {"features_ok"}) \cup {"failed"}]
    ELSE [m EXCEPT !.status = value]

\* REG_QUEUE_READY: a queue that is not valid does not become ready.
WriteQueueReady(m, q, value, valid) ==
    [m EXCEPT !.queues[q].ready = value /\ valid]

WriteInterruptAck(m) == [m EXCEPT !.intr = FALSE]

SignalUsedQueue(m) == [m EXCEPT !.intr = TRUE]

------------------------------------------------------------------------------
(* virtio_queue::Queue *)

Ready(m, q) == m.queues[q].ready
Avail(m, q) == m.queues[q].avail
Used(m, q) == m.queues[q].used

\* pop_descriptor_chain of a queue that has one, and add_used.
PopAvail(m, q) == [m EXCEPT !.queues[q].avail = Tail(@)]
AddUsed(m, q, buf) == [m EXCEPT !.queues[q].used = Append(@, buf)]

==============================================================================
