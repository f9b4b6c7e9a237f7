----------------------------- MODULE VsockStream -----------------------------
(***************************************************************************)
(* One vsock connection end to end: a host application, the host socket,   *)
(* the multiplexer (VsockMux), the two virtqueues and a guest driver that  *)
(* follows the virtio-vsock credit rules.  It asks whether the connection  *)
(* is a stream: ByteStream in each direction.                              *)
(*                                                                         *)
(* Bytes are numbered in the order they are written.  The device worker    *)
(* (virtio_vsock.rs worker_loop, drive) is split into its calls into the   *)
(* mux; between two of them the guest may act, because a buffer the guest  *)
(* has freed is one it may not have posted yet, and a packet it has built  *)
(* one it may not have queued yet.                                         *)
(***************************************************************************)
EXTENDS VsockMux

CONSTANTS
    Flow,          \* the connection
    HostConnects,  \* TRUE: the host sends CONNECT; FALSE: the guest a REQUEST
    HostBytes,     \* bound: bytes the host application writes
    GuestBytes,    \* bound: bytes the guest application writes
    GuestBuf,      \* buf_alloc the guest announces
    HostCap,       \* units the host application's socket buffer holds
    RxBufs,        \* bound: buffers the guest posts on the RX queue
    RxSpace,       \* payload bytes of one RX buffer
    TxSlots,       \* bound: packets on the TX queue
    HostMayShut    \* TRUE: the host application shuts its sending side

ASSUME VsockStreamAssumption ==
    /\ Flow \in Flows
    /\ {HostBytes, GuestBytes, GuestBuf, HostCap, RxBufs, RxSpace, TxSlots} \subseteq Nat
    /\ {HostConnects, HostMayShut} \subseteq BOOLEAN
    /\ HostConnects => HostPort(Flow) = FirstPort   \* what alloc_host_port tries first

VARIABLES
    mux,     \* the multiplexer
    host,    \* [wrote, sock (written, not read by the mux), shut, held, got]
    guest,   \* [open, got, read, sent, peerFwd, shut]
    tx, rx   \* TX packets not yet pulled, RX packets not yet handled

vars == <<mux, host, guest, tx, rx>>

Conn == mux.conns[Flow]
Connected == Flow \in Live(mux)
Room == HostCap - host.held

\* A packet of the guest driver, with the credit it carries.
GuestPkt(op, flags, data) ==
    [flow |-> Flow, ours |-> TRUE, stream |-> TRUE, op |-> op, flags |-> flags,
     buf |-> GuestBuf, fwd |-> Wrap(guest.read), data |-> data]
Send(op, flags, data) == tx' = Append(tx, GuestPkt(op, flags, data))

\* The mux becomes m, with `sock` left to read; what it wrote is in the host
\* application's buffer.
MuxBecomes(m, sock) ==
    /\ mux' = [m EXCEPT !.out = NoOut]
    /\ host' = [host EXCEPT
            !.sock = sock,
            !.held = @ + Len(m.out.bytes) + (IF m.out.ok THEN 1 ELSE 0),
            !.got = @ \o m.out.bytes]

------------------------------------------------------------------------------
\* The connection starts with the CONNECT line read, or the REQUEST handled.
Init ==
    /\ mux = IF HostConnects
             THEN FinishIncoming(AcceptOne(EmptyMux), GuestPort(Flow), <<>>)
             ELSE OnGuestRequest(EmptyMux, Flow,
                      [buf |-> GuestBuf, fwd |-> 0, data |-> <<>>], "done")
    /\ host = [wrote |-> 0, sock |-> <<>>, shut |-> FALSE, held |-> 0, got |-> <<>>]
    /\ guest = [open |-> FALSE, got |-> <<>>, read |-> 0, sent |-> 0,
                peerFwd |-> 0, shut |-> FALSE]
    /\ tx = <<>> /\ rx = <<>>

(* Host application *)

HostWrite ==
    /\ host.wrote < HostBytes /\ ~ host.shut
    /\ host' = [host EXCEPT !.wrote = @ + 1, !.sock = Append(@, host.wrote + 1)]
    /\ UNCHANGED <<mux, guest, tx, rx>>

HostShut ==
    /\ HostMayShut /\ ~ host.shut
    /\ host' = [host EXCEPT !.shut = TRUE]
    /\ UNCHANGED <<mux, guest, tx, rx>>

HostRead ==
    /\ host.held > 0
    /\ host' = [host EXCEPT !.held = @ - 1]
    /\ UNCHANGED <<mux, guest, tx, rx>>

(* Device worker *)

Readable == WantRead(Conn) /\ (host.sock # <<>> \/ host.shut)
Writable == WantWrite(Conn) /\ Room > 0

StreamEvent ==
    LET n == Least(MaxChunk, Len(host.sock))
        rd == IF host.sock # <<>> THEN [kind |-> "data", bytes |-> SubSeq(host.sock, 1, n)]
                                  ELSE [kind |-> "eof"]
        left == IF Readable THEN SubSeq(host.sock, n + 1, Len(host.sock)) ELSE host.sock
    IN  /\ Connected /\ (Readable \/ Writable)
        /\ MuxBecomes(OnFd(mux, Flow, [readable |-> Readable, writable |-> Writable,
                                       rd |-> rd, connected |-> TRUE, room |-> Room]),
                      left)
        /\ UNCHANGED <<guest, tx, rx>>

Timeout ==
    /\ Connected /\ Conn.expiry
    /\ MuxBecomes(DropConn(mux, Flow, TRUE), host.sock)
    /\ UNCHANGED <<guest, tx, rx>>

PullTx ==
    /\ tx # <<>>
    /\ MuxBecomes(HandleGuestPkt(mux, Head(tx), "done", Room), host.sock)
    /\ tx' = Tail(tx)
    /\ UNCHANGED <<guest, rx>>

PushRx ==
    /\ HasOut(mux) /\ Len(rx) < RxBufs
    /\ rx' = Append(rx, [pkt |-> SentPkt(mux, RxSpace),
                         fwd |-> IF Connected THEN Conn.fwd ELSE 0])
    /\ mux' = PopOut(mux, RxSpace)
    /\ UNCHANGED <<host, guest, tx>>

(* Guest driver *)

GuestRx ==
    LET p == Head(rx).pkt
        g == [guest EXCEPT !.peerFwd = Head(rx).fwd]
    IN  /\ rx # <<>> /\ Len(tx) < TxSlots
        /\ rx' = Tail(rx)
        /\ CASE p.op = "REQUEST" -> guest' = [g EXCEPT !.open = TRUE] /\ Send("RESPONSE", {}, <<>>)
             [] p.op = "RESPONSE" -> guest' = [g EXCEPT !.open = TRUE] /\ UNCHANGED tx
             [] p.op = "RW" -> guest' = [g EXCEPT !.got = @ \o p.data] /\ UNCHANGED tx
             [] p.op = "CREDIT_REQUEST" -> guest' = g /\ Send("CREDIT_UPDATE", {}, <<>>)
             [] p.op = "CREDIT_UPDATE" -> guest' = g /\ UNCHANGED tx
             [] p.op = "SHUTDOWN" ->
                  guest' = [g EXCEPT !.shut = @ \/ "recv" \in p.flags] /\ UNCHANGED tx
             [] p.op = "RST" -> guest' = [g EXCEPT !.open = FALSE] /\ UNCHANGED tx
        /\ UNCHANGED <<mux, host>>

GuestRead ==
    /\ guest.open /\ guest.read < Len(guest.got) /\ Len(tx) < TxSlots
    /\ guest' = [guest EXCEPT !.read = @ + 1]
    /\ \/ UNCHANGED tx
       \/ tx' = Append(tx, [GuestPkt("CREDIT_UPDATE", {}, <<>>)
                                EXCEPT !.fwd = Wrap(guest.read + 1)])
    /\ UNCHANGED <<mux, host, rx>>

GuestWrite ==
    \E n \in 1 .. MaxPayload :
        /\ guest.open /\ ~ guest.shut /\ guest.sent + n <= GuestBytes /\ Len(tx) < TxSlots
        /\ Wrap(guest.sent - guest.peerFwd) + n <= BufAlloc
        /\ Send("RW", {}, [i \in 1 .. n |-> guest.sent + i])
        /\ guest' = [guest EXCEPT !.sent = @ + n]
        /\ UNCHANGED <<mux, host, rx>>

GuestShut ==
    /\ guest.open /\ ~ guest.shut /\ guest.sent = GuestBytes /\ Len(tx) < TxSlots
    /\ Send("SHUTDOWN", {"send"}, <<>>)
    /\ guest' = [guest EXCEPT !.shut = TRUE]
    /\ UNCHANGED <<mux, host, rx>>

Worker == StreamEvent \/ PullTx \/ PushRx

Next ==
    \/ HostWrite \/ HostShut \/ HostRead
    \/ Worker \/ Timeout
    \/ GuestRx \/ GuestRead \/ GuestWrite \/ GuestShut

Spec == Init /\ [][Next]_vars

\* The worker polls with a 50 ms timeout and drives both queues on every pass.
\* This is WF of its actions with ENABLED written out: each of them changes the
\* state whenever its guard holds.
WorkerFair ==
    /\ []<>~ (Connected /\ (Readable \/ Writable)) \/ []<><<StreamEvent>>_vars
    /\ []<>(tx = <<>>) \/ []<><<PullTx>>_vars
    /\ []<>~ (HasOut(mux) /\ Len(rx) < RxBufs) \/ []<><<PushRx>>_vars

\* The guest driver handles what it is sent, and the guest application writes
\* all it has to; neither application need read.
FairSpec == Spec /\ WorkerFair /\ WF_vars(GuestRx) /\ WF_vars(GuestWrite)

------------------------------------------------------------------------------
(* Properties *)

HostSent == [i \in 1 .. host.wrote |-> i]
GuestSent == [i \in 1 .. guest.sent |-> i]

ToGuest == INSTANCE ByteStream
               WITH written <- HostSent, delivered <- guest.got
ToHost == INSTANCE ByteStream
              WITH written <- GuestSent, delivered <- host.got

\* The bytes the guest is given are those the host wrote, in order
\* (read_conn, ingest, flush_conn, push_rx).
ToGuestIsStream == ToGuest!Spec

\* The bytes the host is given are those the guest wrote, in order
\* (on_rw, flush_to_host).
ToHostIsStream == ToHost!Spec

\* ingest has set byte n aside, for want of credit.
Stashed(n) == Connected /\ n \in Entries(Conn.pre)

\* Every byte the host writes reaches the guest or lies in `prefetched`; as this
\* is claimed of every later time too, a byte that leaves `prefetched` reaches
\* the guest, and nothing else holds one up.  The exception is real, and may
\* last for ever: ingest sets aside what the guest has no credit for, only
\* flush_conn sends it, and on a CREDIT_UPDATE neither handle_guest_pkt nor
\* interests leads there.
ToGuestProgress ==
    \A n \in 1 .. HostBytes :
        host.wrote >= n ~> (n \in Entries(guest.got) \/ Stashed(n))

\* A guest that has more to write than fits the window is given credit again
\* (maybe_credit) until all its bytes have reached the host.
ToHostProgress == <>(host.got = [i \in 1 .. GuestBytes |-> i])

\* The host application sees the end of the guest's stream only after all of
\* it, unless the mux gave up writing to the host (flush_conn).
HostEofAfterData ==
    Connected /\ Conn.hostWriteShut /\ ~ Conn.localShutRecv
        => Len(host.got) = guest.sent

==============================================================================
