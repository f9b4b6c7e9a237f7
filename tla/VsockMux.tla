------------------------------ MODULE VsockMux ------------------------------
(***************************************************************************)
(* The host side of virtio-vsock: the multiplexer between guest packets    *)
(* and host Unix sockets (src/src/devices/vsock_mux.rs).                   *)
(*                                                                         *)
(* A flow is a pair <<guest port, host port>>.  The state of the Mux is    *)
(* one record; each handler of the code is an operator from records to     *)
(* records, so that a handler that calls another one is written as the     *)
(* code is.  Everything outside is a parameter: what a guest packet holds, *)
(* what a read returns, and how much of a write a host socket accepts.     *)
(* VsockMuxOpen and VsockStream hold the state and choose the parameters.  *)
(*                                                                         *)
(* Payloads are sequences of bytes; a byte is whatever the composing       *)
(* module chooses.  The "OK <port>\n" line is one unit.  The u32 counters  *)
(* are kept modulo CounterMod.  An Instant deadline is a BOOLEAN: whether  *)
(* one is set; it may pass at any time.                                    *)
(***************************************************************************)
EXTENDS Integers, Sequences, FiniteSets, Retain

CONSTANTS
    GuestPorts,    \* guest ports in use
    HostPorts,     \* host ports: an interval of naturals that stands for the u32s
    FirstPort,     \* smallest port alloc_host_port hands out (1024)
    PortTries,     \* attempts of alloc_host_port (60_000)
    CounterMod,    \* 2^32
    BufAlloc,      \* BUF_ALLOC
    MaxChunk,      \* MAX_CHUNK
    MaxPayload,    \* MAX_PAYLOAD
    MaxConns,      \* MAX_CONNS
    MaxPrefetch,   \* MAX_PREFETCH
    CreditThresh   \* max(BUF_ALLOC / 4, 4096)

ASSUME VsockMuxAssumption ==
    /\ \A p \in HostPorts : p \in Nat
    /\ \E last \in HostPorts : \A p \in HostPorts : p = last \/ (p < last /\ p + 1 \in HostPorts)
    /\ FirstPort \in HostPorts
    /\ {PortTries, CounterMod, BufAlloc, MaxChunk, MaxPayload, MaxConns,
        MaxPrefetch, CreditThresh} \subseteq Nat \ {0}
    /\ BufAlloc < CounterMod

Flows == GuestPorts \X HostPorts
GuestPort(f) == f[1]
HostPort(f) == f[2]

Least(a, b) == IF a <= b THEN a ELSE b
LastPort == CHOOSE p \in HostPorts : \A q \in HostPorts : q <= p
Wrap(n) == n % CounterMod

------------------------------------------------------------------------------
(* Conn, OutPkt, Mux *)

NewConn(phase) ==
    [phase |-> phase, connecting |-> FALSE,
     peerBuf |-> 0, peerFwd |-> 0, sent |-> 0,
     received |-> 0, fwd |-> 0, lastFwd |-> 0,
     toHost |-> <<>>, ok |-> FALSE, pre |-> <<>>,
     localShutSend |-> FALSE, localShutRecv |-> FALSE,
     peerShutSend |-> FALSE, peerShutRecv |-> FALSE,
     hostWriteShut |-> FALSE, expiry |-> FALSE]

\* mutant of PeerAvail: bytes in flight are not counted.
PeerAvailStale(c) == c.peerBuf

PeerAvail(c) ==
    LET inflight == Wrap(c.sent - c.peerFwd)
    IN  IF inflight < c.peerBuf THEN c.peerBuf - inflight ELSE 0

LocalFree(c) ==
    LET held == Wrap(c.received - c.fwd)
    IN  IF held < BufAlloc THEN BufAlloc - held ELSE 0

Pkt(f, op, flags, data) == [flow |-> f, op |-> op, flags |-> flags, data |-> data]
Ctrl(f, op) == Pkt(f, op, {}, <<>>)

\* out: what the handler under way wrote to the flow's host socket, the OK line
\* and payload bytes.
NoOut == [ok |-> FALSE, bytes |-> <<>>]
EmptyMux ==
    [conns |-> <<>>, incoming |-> 0, next |-> FirstPort,
     ctrl |-> <<>>, data |-> <<>>, out |-> NoOut]

Live(m) == DOMAIN m.conns
PutConn(m, f, c) ==
    [m EXCEPT !.conns = [g \in Live(m) \cup {f} |->
                            IF g = f THEN c ELSE m.conns[g]]]

Enqueue(m, p) ==
    IF p.op = "RW" THEN [m EXCEPT !.data = Append(@, p)]
                   ELSE [m EXCEPT !.ctrl = Append(@, p)]

Queued(m, f, op) ==
    \E i \in DOMAIN m.ctrl : m.ctrl[i].flow = f /\ m.ctrl[i].op = op

EnqueueOnce(m, f, op) == IF Queued(m, f, op) THEN m ELSE Enqueue(m, Ctrl(f, op))

EnqueueRst(m, f) ==
    LET others == {p \in Entries(m.ctrl) : ~ (p.flow = f /\ p.op = "RST")}
    IN  Enqueue([m EXCEPT !.ctrl = Retain(@, others)], Ctrl(f, "RST"))

Purge(queue, f) == Retain(queue, {p \in Entries(queue) : p.flow # f})

\* mutant of DropConn: the data queue is not purged.
DropConnKeepsData(m, f, rst) ==
    LET gone == [m EXCEPT !.conns = [g \in Live(m) \ {f} |-> m.conns[g]],
                          !.ctrl = Purge(@, f)]
    IN  IF rst THEN EnqueueRst(gone, f) ELSE gone

DropConn(m, f, rst) ==
    LET gone == [m EXCEPT !.conns = [g \in Live(m) \ {f} |-> m.conns[g]],
                          !.ctrl = Purge(@, f),
                          !.data = Purge(@, f)]
    IN  IF rst THEN EnqueueRst(gone, f) ELSE gone

\* mutant of MarkLocalShut: no deadline is set.
MarkLocalShutForever(m, f, recv, send) ==
    LET c == m.conns[f]
        shut == [c EXCEPT !.localShutSend = @ \/ send, !.localShutRecv = @ \/ recv]
    IN  IF f \notin Live(m) THEN m
        ELSE IF c.phase = "WaitGuest" THEN DropConn(m, f, TRUE)
        ELSE Enqueue(PutConn(m, f, shut), Pkt(f, "SHUTDOWN", {"send", "recv"}, <<>>))

MarkLocalShut(m, f, recv, send) ==
    LET c == m.conns[f]
        flags == (IF send /\ ~ c.localShutSend THEN {"send"} ELSE {})
                 \cup (IF recv /\ ~ c.localShutRecv THEN {"recv"} ELSE {})
        shut == [c EXCEPT !.localShutSend = @ \/ send,
                          !.localShutRecv = @ \/ recv,
                          !.expiry = @ \/ flags # {}]
    IN  IF f \notin Live(m) THEN m
        ELSE IF c.phase = "WaitGuest" THEN DropConn(m, f, TRUE)
        ELSE IF flags = {} THEN m
        ELSE Enqueue(PutConn(m, f, shut), Pkt(f, "SHUTDOWN", flags, <<>>))

------------------------------------------------------------------------------
(* Host to guest: ingest *)

Stash(c, bytes) ==
    LET room == IF Len(c.pre) < MaxPrefetch THEN MaxPrefetch - Len(c.pre) ELSE 0
    IN  [c EXCEPT !.pre = @ \o SubSeq(bytes, 1, Least(room, Len(bytes)))]

\* The RW packets for a payload: pieces of at most MAX_CHUNK bytes.
Chunks(f, bytes) ==
    [i \in 1 .. (Len(bytes) + MaxChunk - 1) \div MaxChunk |->
        Pkt(f, "RW", {}, SubSeq(bytes, (i - 1) * MaxChunk + 1,
                                Least(i * MaxChunk, Len(bytes))))]

\* mutant of Ingest: neither the phase nor the shutdown flags are looked at.
IngestUnguarded(m, f, bytes) ==
    IF f \notin Live(m) THEN m
    ELSE PutConn([m EXCEPT !.data = @ \o Chunks(f, bytes)], f,
                 [m.conns[f] EXCEPT !.sent = Wrap(@ + Len(bytes))])

Ingest(m, f, bytes) ==
    LET c == m.conns[f]
        n == Least(Len(bytes), PeerAvail(c))
        rest == SubSeq(bytes, n + 1, Len(bytes))
        sent == [c EXCEPT !.sent = Wrap(@ + n)]
        queued == [m EXCEPT !.data = @ \o Chunks(f, SubSeq(bytes, 1, n))]
    IN  IF bytes = <<>> \/ f \notin Live(m) THEN m
        ELSE IF c.phase # "Established" \/ c.localShutSend \/ c.peerShutRecv
        THEN PutConn(m, f, Stash(c, bytes))
        ELSE IF rest = <<>> THEN PutConn(queued, f, sent)
        ELSE EnqueueOnce(PutConn(queued, f, Stash(sent, rest)), f, "CREDIT_REQUEST")

------------------------------------------------------------------------------
(* Guest to host: flush_conn and credit *)

\* mutant of EnqueueCredit: a queued CREDIT_UPDATE is not looked for.
EnqueueCreditAlways(m, f) ==
    Enqueue(PutConn(m, f, [m.conns[f] EXCEPT !.lastFwd = m.conns[f].fwd]),
            Ctrl(f, "CREDIT_UPDATE"))

EnqueueCredit(m, f) ==
    IF Queued(m, f, "CREDIT_UPDATE") THEN m
    ELSE Enqueue(PutConn(m, f, [m.conns[f] EXCEPT !.lastFwd = m.conns[f].fwd]),
                 Ctrl(f, "CREDIT_UPDATE"))

\* mutant of MaybeCredit: the guest is never told of freed space.
MaybeCreditNever(m, f) == m

MaybeCredit(m, f) ==
    IF f \in Live(m) /\ Wrap(m.conns[f].fwd - m.conns[f].lastFwd) >= CreditThresh
    THEN EnqueueCredit(m, f) ELSE m

\* mutant of FlushConn: to_host is drained only when all of it was written.
FlushConnResends(m, f, room) ==
    LET c == m.conns[f]
        n == Least(room, Len(c.toHost))
        wrote == [m EXCEPT !.out = [ok |-> c.ok, bytes |-> SubSeq(c.toHost, 1, n)]]
    IN  IF f \notin Live(m) THEN m
        ELSE IF n = Len(c.toHost)
        THEN PutConn(wrote, f, [c EXCEPT !.ok = FALSE, !.toHost = <<>>, !.fwd = Wrap(@ + n)])
        ELSE MarkLocalShut(wrote, f, TRUE, TRUE)

\* The host socket accepts `room` units before send() fails.
FlushConn(m, f, room) ==
    LET c == m.conns[f]
        okSent == ~ c.ok \/ room > 0
        left == IF c.ok THEN room - 1 ELSE room
        n == IF okSent THEN Least(left, Len(c.toHost)) ELSE 0
        flushed == okSent /\ n = Len(c.toHost)
        written == [c EXCEPT !.ok = ~ okSent,
                             !.toHost = SubSeq(@, n + 1, Len(@)),
                             !.fwd = Wrap(@ + n)]
        clean == [written EXCEPT
                    !.hostWriteShut = @ \/ c.peerShutSend, !.pre = <<>>]
        wrote == [m EXCEPT !.out = [ok |-> c.ok /\ okSent, bytes |-> SubSeq(c.toHost, 1, n)]]
    IN  IF f \notin Live(m) THEN m
        ELSE IF flushed
        THEN MaybeCredit(Ingest(PutConn(wrote, f, clean), f, c.pre), f)
        ELSE MarkLocalShut(PutConn(wrote, f, written), f, TRUE, TRUE)

------------------------------------------------------------------------------
(* Packets from the guest: handle_guest_pkt *)

OnGuestRequest(m, f, h, connect) ==
    LET c == [NewConn("Established") EXCEPT !.peerBuf = h.buf, !.peerFwd = h.fwd]
    IN  IF f \in Live(m) THEN DropConn(m, f, TRUE)
        ELSE IF h.data # <<>> \/ connect = "fail" THEN EnqueueRst(m, f)
        ELSE IF connect = "done"
        THEN Enqueue(PutConn(m, f, c), Ctrl(f, "RESPONSE"))
        ELSE PutConn(m, f, [c EXCEPT !.connecting = TRUE, !.expiry = TRUE])

OnResponse(m, f, room) ==
    IF m.conns[f].phase # "WaitGuest" THEN m
    ELSE FlushConn(PutConn(m, f, [m.conns[f] EXCEPT
                        !.phase = "Established", !.expiry = FALSE, !.ok = TRUE]),
                   f, room)

OnShutdown(m, f, flags, room) ==
    FlushConn(PutConn(m, f, [m.conns[f] EXCEPT
                        !.peerShutRecv = @ \/ "recv" \in flags,
                        !.localShutSend = @ \/ "recv" \in flags,
                        !.peerShutSend = @ \/ "send" \in flags]),
              f, room)

\* mutants of OnRw: the window is not checked; the wrong local flag is looked at.
OnRwAccepting(m, f, bytes, room, accept, checked) ==
    LET c == m.conns[f]
    IN  IF bytes = <<>> \/ ~ accept THEN m
        ELSE IF checked /\ Len(bytes) > LocalFree(c) THEN DropConn(m, f, TRUE)
        ELSE FlushConn(PutConn(m, f, [c EXCEPT !.received = Wrap(@ + Len(bytes)),
                                               !.toHost = @ \o bytes]), f, room)
OnRwUnchecked(m, f, bytes, room) ==
    OnRwAccepting(m, f, bytes, room, m.conns[f].phase = "Established", FALSE)
OnRwWrongFlag(m, f, bytes, room) ==
    OnRwAccepting(m, f, bytes, room,
        m.conns[f].phase = "Established" /\ ~ m.conns[f].localShutSend, TRUE)

OnRw(m, f, bytes, room) ==
    LET c == m.conns[f]
        accept == /\ c.phase = "Established"
                  /\ ~ c.localShutRecv /\ ~ c.peerShutSend
    IN  IF bytes = <<>> \/ ~ accept THEN m
        ELSE IF Len(bytes) > LocalFree(c) THEN DropConn(m, f, TRUE)
        ELSE FlushConn(PutConn(m, f, [c EXCEPT
                            !.received = Wrap(@ + Len(bytes)),
                            !.toHost = @ \o bytes]),
                       f, room)

\* h: [flow, ours, stream, op, flags, buf, fwd, data].
HandleGuestPkt(m, h, connect, room) ==
    LET f == h.flow
        known == f \in Live(m)
        m1 == IF known
              THEN PutConn(m, f, [m.conns[f] EXCEPT
                                    !.peerBuf = h.buf, !.peerFwd = h.fwd])
              ELSE m
    IN  CASE ~ h.ours -> m
          [] h.ours /\ ~ h.stream ->
                IF h.op = "RST" THEN m ELSE EnqueueRst(m, f)
          [] h.ours /\ h.stream /\ h.op = "REQUEST" ->
                OnGuestRequest(m, f, h, connect)
          [] h.ours /\ h.stream /\ h.op # "REQUEST" /\ ~ known ->
                IF h.op = "RST" THEN m ELSE EnqueueRst(m, f)
          [] h.ours /\ h.stream /\ known /\ h.op = "RESPONSE" ->
                OnResponse(m1, f, room)
          [] h.ours /\ h.stream /\ known /\ h.op = "RST" ->
                DropConn(m1, f, FALSE)
          [] h.ours /\ h.stream /\ known /\ h.op = "SHUTDOWN" ->
                OnShutdown(m1, f, h.flags, room)
          [] h.ours /\ h.stream /\ known /\ h.op = "RW" ->
                IF Len(h.data) > MaxPayload THEN DropConn(m1, f, TRUE)
                ELSE OnRw(m1, f, h.data, room)
          [] h.ours /\ h.stream /\ known /\ h.op = "CREDIT_REQUEST" ->
                EnqueueCredit(m1, f)
          [] OTHER -> m1

------------------------------------------------------------------------------
(* Host sockets: on_fd, timeouts *)

\* interests(): which events of a stream are polled.
WantWrite(c) == c.connecting \/ c.ok \/ c.toHost # <<>>
\* mutant of WantRead: peer_shut_send is looked at in place of local_shut_send.
WantReadWrongFlag(c) ==
    ~ c.connecting /\ ~ c.ok /\ ~ c.peerShutSend /\ Len(c.pre) < MaxPrefetch
WantRead(c) ==
    ~ c.connecting /\ ~ c.ok /\ ~ c.localShutSend /\ Len(c.pre) < MaxPrefetch
Polled(c) == WantWrite(c) \/ WantRead(c)

AcceptOne(m) ==
    IF m.incoming + Cardinality(Live(m)) >= MaxConns THEN m
    ELSE [m EXCEPT !.incoming = @ + 1]

NextPort(p) == IF p = LastPort THEN FirstPort ELSE p + 1
PortInUse(m, p) == \E f \in Live(m) : HostPort(f) = p

\* port: the candidates of alloc_host_port's loop, in order.  The first free one
\* is taken; next is the position the search ends at.
AllocHostPort(m) ==
    LET port[i \in 0 .. PortTries] == IF i = 0 THEN m.next ELSE NextPort(port[i - 1])
        Free == {i \in 0 .. PortTries - 1 : ~ PortInUse(m, port[i])}
        i == CHOOSE k \in Free : \A l \in Free : k <= l
    IN  IF Free = {} THEN [found |-> FALSE, next |-> port[PortTries]]
        ELSE [found |-> TRUE, port |-> port[i], next |-> port[i + 1]]

\* read_incoming: what the next chunk of a CONNECT line amounts to.
CloseIncoming(m) == [m EXCEPT !.incoming = @ - 1]

FinishIncoming(m, gport, rest) ==
    LET a == AllocHostPort(m)
        m1 == [CloseIncoming(m) EXCEPT !.next = a.next]
        f == <<gport, a.port>>
    IN  IF ~ a.found THEN m1
        ELSE IF f \in Live(m) THEN EnqueueRst(m1, f)
        ELSE Enqueue(PutConn(m1, f, [NewConn("WaitGuest") EXCEPT
                                        !.pre = rest, !.expiry = TRUE]),
                     Ctrl(f, "REQUEST"))

OnHostEof(m, f) ==
    IF m.conns[f].phase = "WaitGuest" THEN DropConn(m, f, TRUE)
    ELSE MarkLocalShut(m, f, FALSE, TRUE)

\* rd: the outcome of the read: [kind |-> "data" | "eof" | "again" | "error", bytes].
ReadConn(m, f, rd) ==
    CASE rd.kind = "data" -> Ingest(m, f, rd.bytes)
      [] rd.kind = "eof" -> OnHostEof(m, f)
      [] rd.kind = "again" -> m
      [] rd.kind = "error" -> MarkLocalShut(m, f, TRUE, TRUE)

FinishConnect(m, f, ok) ==
    IF ok
    THEN Enqueue(PutConn(m, f, [m.conns[f] EXCEPT !.connecting = FALSE,
                                                  !.expiry = FALSE]),
                 Ctrl(f, "RESPONSE"))
    ELSE DropConn(m, f, TRUE)

OnWritable(m, f, ok, room) ==
    IF m.conns[f].connecting THEN FinishConnect(m, f, ok)
    ELSE FlushConn(m, f, room)

\* on_fd for a stream: ev = [readable, writable, rd, connected, room].
OnFd(m, f, ev) ==
    LET m1 == IF ev.readable THEN ReadConn(m, f, ev.rd) ELSE m
    IN  IF f \in Live(m1) /\ ev.writable
        THEN OnWritable(m1, f, ev.connected, ev.room)
        ELSE m1

KillConnections(m) ==
    [m EXCEPT !.incoming = 0, !.conns = <<>>, !.ctrl = <<>>, !.data = <<>>]

------------------------------------------------------------------------------
(* Packets to the guest: pop_out and the split of push_rx *)

HasOut(m) == m.ctrl # <<>> \/ m.data # <<>>
FrontPkt(m) == IF m.ctrl # <<>> THEN Head(m.ctrl) ELSE Head(m.data)

\* The packet written to an RX buffer with `space` bytes after the header.
SentPkt(m, space) ==
    [FrontPkt(m) EXCEPT !.data = SubSeq(@, 1, Least(space, Len(@)))]

\* mutant of PopOut: the rest of a split packet goes to the back of the queue.
PopOutToBack(m, space) ==
    LET rest == SubSeq(FrontPkt(m).data, space + 1, Len(FrontPkt(m).data))
    IN  IF m.ctrl # <<>> THEN [m EXCEPT !.ctrl = Tail(@)]
        ELSE IF rest = <<>> THEN [m EXCEPT !.data = Tail(@)]
        ELSE [m EXCEPT !.data = Append(Tail(@), [FrontPkt(m) EXCEPT !.data = rest])]

PopOut(m, space) ==
    LET rest == SubSeq(FrontPkt(m).data, Least(space, Len(FrontPkt(m).data)) + 1,
                       Len(FrontPkt(m).data))
    IN  IF m.ctrl # <<>> THEN [m EXCEPT !.ctrl = Tail(@)]
        ELSE IF rest = <<>> THEN [m EXCEPT !.data = Tail(@)]
        ELSE [m EXCEPT !.data = <<[FrontPkt(m) EXCEPT !.data = rest]>> \o Tail(@)]

==============================================================================
