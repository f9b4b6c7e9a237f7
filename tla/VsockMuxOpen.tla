---------------------------- MODULE VsockMuxOpen ----------------------------
(***************************************************************************)
(* The vsock multiplexer in an open environment: the guest may send any    *)
(* packet at any time, host sockets may return anything a Unix socket can, *)
(* and deadlines may pass at any time.  One action per entry point that    *)
(* the device worker calls (virtio_vsock.rs worker_loop, pull_tx, push_rx, *)
(* drive).  What holds here holds whatever the guest driver does.          *)
(***************************************************************************)
EXTENDS VsockMux

CONSTANTS
    Byte,          \* the one payload byte value
    GuestBufs,     \* buf_alloc values a guest header may carry
    ConnectResults,\* what connect_unix may return
    MaxRead,       \* bound: bytes returned by one read of a host socket
    MaxRoom,       \* bound: units a host socket accepts before it is full
    MaxCtrl,       \* bound: packets queued to the guest before it pops one
    MaxData        \* bound: RW packets queued to the guest before it pops one

ASSUME VsockMuxOpenAssumption ==
    /\ GuestBufs \subseteq 0 .. CounterMod - 1
    /\ {MaxRead, MaxRoom} \subseteq Nat

VARIABLE mux

Bytes(n) == [i \in 1 .. n |-> Byte]
ShutFlags == {{"send"}, {"recv"}, {"send", "recv"}}

Header(f, stream, op, flags, buf, fwd, data) ==
    [flow |-> f, ours |-> TRUE, stream |-> stream, op |-> op, flags |-> flags,
     buf |-> buf, fwd |-> fwd, data |-> data]

\* Packets a guest may send on flow f.  Any credit may be announced; a packet of
\* another kind repeats the credit last announced, since one that changes it has
\* the effect of a CREDIT_UPDATE followed by one that does not.
CreditPkts(f) ==
    {Header(f, TRUE, "CREDIT_UPDATE", {}, b, n, <<>>) :
        b \in GuestBufs, n \in 0 .. CounterMod - 1}

RequestPkts(f) ==
    {Header(f, TRUE, "REQUEST", {}, b, 0, Bytes(n)) : b \in GuestBufs, n \in {0, 1}}

OtherPkts(f) ==
    LET b == IF f \in Live(mux) THEN mux.conns[f].peerBuf ELSE 0
        n == IF f \in Live(mux) THEN mux.conns[f].peerFwd ELSE 0
    IN  {Header(f, TRUE, op, {}, b, n, <<>>) : op \in {"RESPONSE", "RST", "CREDIT_REQUEST"}}
        \cup {Header(f, TRUE, "SHUTDOWN", fl, b, n, <<>>) : fl \in ShutFlags}
        \cup {Header(f, TRUE, "RW", {}, b, n, Bytes(k)) : k \in 0 .. MaxPayload + 1}
        \cup {Header(f, FALSE, op, {}, b, n, <<>>) : op \in {"RST", "RW"}}

\* What poll and the socket calls may report.  A socket whose connect is still
\* pending can be neither read nor written; a socket may fail at any time.
Rooms(f) == IF f \in Live(mux) /\ mux.conns[f].connecting THEN {0} ELSE 0 .. MaxRoom

Reads(c) ==
    {[kind |-> k] : k \in {"again", "error"}}
    \cup (IF c.connecting THEN {}
          ELSE {[kind |-> "eof"]} \cup {[kind |-> "data", bytes |-> Bytes(n)] : n \in 1 .. MaxRead})

Event(ins, outs, rds, oks, rooms) ==
    [readable : ins, writable : outs, rd : rds, connected : oks, room : rooms]

Events(f) ==
    LET c == mux.conns[f]
        oks == {ok \in BOOLEAN : ok \/ c.connecting}
    IN  Event({TRUE}, {FALSE}, Reads(c), {TRUE}, {0})
        \cup Event({FALSE}, {TRUE}, {[kind |-> "again"]}, oks, Rooms(f))
        \cup Event({TRUE}, {TRUE}, Reads(c), oks, Rooms(f))

QueuesHaveRoom == Len(mux.ctrl) < MaxCtrl /\ Len(mux.data) < MaxData
\* What was written to a host socket is of no interest here.
Becomes(m) == mux' = [m EXCEPT !.out = NoOut]

------------------------------------------------------------------------------
Init == mux = EmptyMux

GuestCredit ==
    /\ QueuesHaveRoom
    /\ \E f \in Flows : \E h \in CreditPkts(f) : Becomes(HandleGuestPkt(mux, h, "fail", 0))

GuestRequest ==
    /\ QueuesHaveRoom
    /\ \E f \in Flows : \E h \in RequestPkts(f), r \in ConnectResults :
          Becomes(HandleGuestPkt(mux, h, r, 0))

GuestPacket ==
    /\ QueuesHaveRoom
    /\ \E f \in Flows : \E h \in OtherPkts(f), room \in Rooms(f) :
          Becomes(HandleGuestPkt(mux, h, "fail", room))

\* pull_tx: a packet whose payload cannot be read.
GuestPacketBroken ==
    /\ QueuesHaveRoom
    /\ \E f \in Flows : Becomes(DropConn(mux, f, TRUE))

Accept == QueuesHaveRoom /\ Becomes(AcceptOne(mux))

ReadIncoming ==
    /\ QueuesHaveRoom
    /\ mux.incoming > 0
    /\ \/ Becomes(CloseIncoming(mux))
       \/ \E g \in GuestPorts, n \in 0 .. MaxRead :
             Becomes(FinishIncoming(mux, g, Bytes(n)))

StreamEvent ==
    /\ QueuesHaveRoom
    /\ \E f \in Live(mux) :
          /\ Polled(mux.conns[f])
          /\ \E ev \in Events(f) : Becomes(OnFd(mux, f, ev))

Timeout ==
    \E f \in Live(mux) : mux.conns[f].expiry /\ Becomes(DropConn(mux, f, TRUE))

TransportDown == Becomes(KillConnections(mux))

PushRx == \E space \in 0 .. MaxChunk : HasOut(mux) /\ Becomes(PopOut(mux, space))

Next ==
    \/ GuestCredit \/ GuestRequest \/ GuestPacket \/ GuestPacketBroken \/ Accept \/ ReadIncoming
    \/ StreamEvent \/ Timeout \/ TransportDown \/ PushRx

Spec == Init /\ [][Next]_mux

------------------------------------------------------------------------------
(* Properties *)

\* Nothing but a RST is ever sent for a flow that is gone: drop_conn purges
\* both queues, and every other enqueue is for a live connection.
OnlyRstOutlivesConn ==
    /\ \A i \in DOMAIN mux.ctrl :
          mux.ctrl[i].op = "RST" \/ mux.ctrl[i].flow \in Live(mux)
    /\ \A i \in DOMAIN mux.data : mux.data[i].flow \in Live(mux)

\* The receive window is exact whatever the guest sends: the bytes held for the
\* host are received - fwd_cnt (u32 arithmetic) and never exceed BUF_ALLOC.
WindowExact ==
    \A f \in Live(mux) :
        /\ Wrap(mux.conns[f].received - mux.conns[f].fwd) = Len(mux.conns[f].toHost)
        /\ Len(mux.conns[f].toHost) <= BufAlloc

\* At most one RST, CREDIT_UPDATE and CREDIT_REQUEST, and at most one
\* announcement of each shutdown direction, is queued per flow, so one flow
\* can hold only a bounded number of control packets of a guest that posts no
\* buffers.
CtrlBounded ==
    \A i, j \in DOMAIN mux.ctrl :
        /\ i # j
        /\ mux.ctrl[i].flow = mux.ctrl[j].flow
        /\ mux.ctrl[i].op = mux.ctrl[j].op
        => /\ mux.ctrl[i].op = "SHUTDOWN"
           /\ mux.ctrl[i].flags \cap mux.ctrl[j].flags = {}

\* A peer that never answers does not keep a connection for ever: one that is
\* half open, or that the mux itself has shut in either direction, has a deadline
\* for check_timeouts.
WaitingHasDeadline ==
    \A f \in Live(mux) :
        LET c == mux.conns[f]
        IN  \/ c.phase = "WaitGuest" \/ c.connecting
            \/ c.localShutRecv \/ (c.localShutSend /\ ~ c.peerShutRecv)
            => c.expiry

DataOf(m, f) == Retain(m.data, {p \in Entries(m.data) : p.flow = f})

\* Payload moves only on a connection the guest has answered (on_response, on_rw)
\* and none is queued for the guest once the sending side is shut (ingest).
DataOnlyWhileOpen ==
    [][\A f \in Live(mux) \cap Live(mux)' :
          LET c == mux.conns[f]
              c2 == mux'.conns[f]
              queued == Len(DataOf(mux', f)) > Len(DataOf(mux, f))
          IN  /\ queued \/ Len(c2.toHost) > Len(c.toHost) => c2.phase = "Established"
              /\ queued => ~ (c.localShutSend /\ c2.localShutSend)]_mux

\* The mux never sends more than the credit the guest has announced leaves room
\* for (peer_avail, ingest), u32 counters wrapping included.
CreditRespected ==
    [][\A f \in Live(mux) \cap Live(mux)' :
          mux'.conns[f].sent # mux.conns[f].sent
            => Wrap(mux'.conns[f].sent - mux'.conns[f].peerFwd) <= mux'.conns[f].peerBuf]_mux

==============================================================================
