--------------------------- MODULE VsockMuxProofs ---------------------------
(***************************************************************************)
(* Proofs about the vsock multiplexer in an open environment, for all port *)
(* sets, buffer sizes and counter widths.  Inv is an invariant of the Mux  *)
(* record that every handler keeps; Moves relates the record before and    *)
(* after a handler, and is transitive, so that a handler that calls others *)
(* is treated as the sequence of its calls.                                *)
(***************************************************************************)
EXTENDS VsockMuxOpen, RetainProofs

------------------------------------------------------------------------------
(* The inductive invariant *)

Counter == 0 .. CounterMod - 1
Payload == Seq({Byte})

ConnType ==
    [phase : {"WaitGuest", "Established"}, connecting : BOOLEAN,
     peerBuf : Counter, peerFwd : Counter, sent : Counter,
     received : Counter, fwd : Counter, lastFwd : Counter,
     toHost : Payload, ok : BOOLEAN, pre : Payload,
     localShutSend : BOOLEAN, localShutRecv : BOOLEAN,
     peerShutSend : BOOLEAN, peerShutRecv : BOOLEAN,
     hostWriteShut : BOOLEAN, expiry : BOOLEAN]

Ops == {"REQUEST", "RESPONSE", "RST", "SHUTDOWN", "RW", "CREDIT_UPDATE", "CREDIT_REQUEST"}
Packet == [flow : Flows, op : Ops, flags : SUBSET {"send", "recv"}, data : Payload]

IsMux(m) == DOMAIN m = {"conns", "incoming", "next", "ctrl", "data", "out"}

TypeOK(m) ==
    /\ IsMux(m)
    /\ Live(m) \subseteq Flows
    /\ \A f \in Live(m) : m.conns[f] \in ConnType
    /\ m.next \in HostPorts
    /\ m.ctrl \in Seq(Packet)
    /\ m.data \in Seq(Packet)

\* The bytes held for the host are exactly what the counters say.
Window(c) ==
    /\ Wrap(c.received - c.fwd) = Len(c.toHost)
    /\ Len(c.toHost) <= BufAlloc

\* A queued control packet says only what the connection has done: the
\* directions of a SHUTDOWN are shut, and a RESPONSE follows the connect.
ShutOf(c) == (IF c.localShutSend THEN {"send"} ELSE {})
             \cup (IF c.localShutRecv THEN {"recv"} ELSE {})
Fits(p, c) ==
    /\ p.op = "SHUTDOWN" => p.flags \subseteq ShutOf(c)
    /\ p.op = "RESPONSE" => ~ c.connecting

Clash(p, q) ==
    /\ p.flow = q.flow
    /\ p.op = q.op
    /\ p.op = "SHUTDOWN" => p.flags \cap q.flags # {}

Inv(m) ==
    /\ TypeOK(m)
    /\ \A f \in Live(m) : Window(m.conns[f])
    /\ \A i \in 1 .. Len(m.ctrl) :
          \/ m.ctrl[i].op = "RST"
          \/ m.ctrl[i].flow \in Live(m) /\ Fits(m.ctrl[i], m.conns[m.ctrl[i].flow])
    /\ \A i \in 1 .. Len(m.data) : m.data[i].flow \in Live(m)
    /\ \A i, j \in 1 .. Len(m.ctrl) : i # j => ~ Clash(m.ctrl[i], m.ctrl[j])

\* The mux itself has shut the sending side; the guest has not asked for it.
ShutSend(c) == c.localShutSend /\ ~ c.peerShutRecv

\* The deadline of a connection; it needs that no connect is ever pending.
Deadline(c) ==
    /\ ~ c.connecting
    /\ c.phase = "WaitGuest" => c.expiry /\ ~ c.localShutRecv /\ ~ ShutSend(c)
    /\ c.localShutRecv \/ ShutSend(c) => c.expiry

\* What a handler may do to a connection that stays.
Keeps(c, d) ==
    /\ c.localShutSend => d.localShutSend
    /\ c.localShutRecv => d.localShutRecv
    /\ d.connecting => c.connecting
Evolves(c, d) ==
    /\ Keeps(c, d)
    /\ d.peerBuf = c.peerBuf /\ d.peerFwd = c.peerFwd
    /\ d.sent = c.sent \/ Wrap(d.sent - d.peerFwd) <= d.peerBuf
    /\ c.phase = "Established" => d.phase = "Established"
    /\ Len(d.toHost) > Len(c.toHost) => d.phase = "Established"
    /\ Deadline(c) => Deadline(d)

Count(m, f) == Len(DataOf(m, f))

\* A handler opens no connection, lets the others evolve, and queues payload
\* only for one that is established and not shut for sending.
Moves(m, n) ==
    /\ Live(n) \subseteq Live(m)
    /\ \A f \in Live(n) :
          /\ Evolves(m.conns[f], n.conns[f])
          /\ Count(n, f) > Count(m, f)
                => n.conns[f].phase = "Established" /\ ~ m.conns[f].localShutSend

------------------------------------------------------------------------------
(* u32 arithmetic *)

\* The constants are positive, and the window is smaller than a turn of a counter.
LEMMA Bounds ==
    /\ CounterMod \in Nat \ {0} /\ BufAlloc \in Nat \ {0} /\ BufAlloc < CounterMod
    /\ MaxChunk \in Nat \ {0} /\ MaxPayload \in Nat \ {0} /\ MaxConns \in Nat \ {0}
    /\ MaxPrefetch \in Nat \ {0} /\ CreditThresh \in Nat \ {0} /\ PortTries \in Nat \ {0}
  BY VsockMuxAssumption

\* Division with remainder has one result.
LEMMA ModUnique ==
    ASSUME NEW M \in Nat \ {0}, NEW x \in Int, NEW q \in Int, NEW r \in 0 .. M - 1,
           x = M * q + r
    PROVE  x % M = r
  <1> DEFINE p == x \div M
             s == x % M
             a == M * p
             b == M * q
             d == M * (p - q)
  <1>1. x = a + s /\ s \in 0 .. M - 1 /\ p \in Int  OBVIOUS
  <1>2. x = b + r /\ a \in Int /\ b \in Int /\ d \in Int /\ a - b = d  BY <1>1
  <1>3. (p - q >= 1 => d >= M) /\ (p - q <= -1 => d <= -M)
    <2> HIDE DEF p
    <2> QED  BY <1>1
  <1>4. d < M /\ d > -M
    <2> HIDE DEF a, b, d, s
    <2> QED  BY <1>1, <1>2
  <1>5. p = q  BY <1>1, <1>2, <1>3, <1>4
  <1> QED  BY <1>1, <1>2, <1>5

\* Counters that differ by less than a turn.
LEMMA WrapRange ==
    ASSUME NEW x \in Int
    PROVE  /\ Wrap(x) \in Counter
           /\ 0 <= x /\ x < CounterMod => Wrap(x) = x
           /\ CounterMod <= x /\ x < 2 * CounterMod => Wrap(x) = x - CounterMod
           /\ -CounterMod <= x /\ x < 0 => Wrap(x) = x + CounterMod
  <1> DEFINE M == CounterMod
  <1>0. M \in Nat \ {0}  BY Bounds
  <1>1. Wrap(x) \in Counter  BY <1>0 DEF Wrap, Counter
  <1>2. ASSUME 0 <= x, x < M PROVE Wrap(x) = x
    <2>1. x = M * 0 + x /\ x \in 0 .. M - 1  BY <1>0, <1>2
    <2> QED  BY <1>0, <2>1, ModUnique DEF Wrap
  <1>3. ASSUME M <= x, x < 2 * M PROVE Wrap(x) = x - M
    <2>1. x = M * 1 + (x - M) /\ x - M \in 0 .. M - 1  BY <1>0, <1>3
    <2> QED  BY <1>0, <2>1, ModUnique DEF Wrap
  <1>4. ASSUME -M <= x, x < 0 PROVE Wrap(x) = x + M
    <2>1. x = M * (-1) + (x + M) /\ x + M \in 0 .. M - 1  BY <1>0, <1>4
    <2> QED  BY <1>0, <2>1, ModUnique DEF Wrap
  <1> QED  BY <1>1, <1>2, <1>3, <1>4

\* A distance grows with the leading counter and shrinks with the trailing one.
LEMMA Distance ==
    ASSUME NEW a \in Counter, NEW b \in Counter, NEW k \in Nat
    PROVE  /\ Wrap(a - b) + k < CounterMod => Wrap(Wrap(a + k) - b) = Wrap(a - b) + k
           /\ k <= Wrap(a - b) => Wrap(a - Wrap(b + k)) = Wrap(a - b) - k
  <1>0. CounterMod \in Nat \ {0}  BY Bounds
  <1>1. Wrap(a - b) = IF a >= b THEN a - b ELSE a - b + CounterMod
    BY <1>0, WrapRange DEF Counter
  <1>2. ASSUME k < CounterMod
        PROVE  /\ Wrap(a + k) = IF a + k < CounterMod THEN a + k ELSE a + k - CounterMod
               /\ Wrap(b + k) = IF b + k < CounterMod THEN b + k ELSE b + k - CounterMod
    BY <1>0, <1>2, WrapRange DEF Counter
  <1>3. ASSUME Wrap(a - b) + k < CounterMod PROVE Wrap(Wrap(a + k) - b) = Wrap(a - b) + k
    <2>1. k < CounterMod  BY <1>0, <1>1, <1>3 DEF Counter
    <2> DEFINE c == Wrap(a + k)
    <2>2. c \in Counter  BY WrapRange DEF Counter
    <2>3. Wrap(c - b) = IF c >= b THEN c - b ELSE c - b + CounterMod
      <3> HIDE DEF c
      <3> QED  BY <1>0, <2>2, WrapRange DEF Counter
    <2> QED  BY <1>0, <1>1, <1>2, <1>3, <2>1, <2>3 DEF Counter
  <1>4. ASSUME k <= Wrap(a - b) PROVE Wrap(a - Wrap(b + k)) = Wrap(a - b) - k
    <2>1. k < CounterMod  BY <1>0, <1>1, <1>4 DEF Counter
    <2> DEFINE c == Wrap(b + k)
    <2>2. c \in Counter  BY WrapRange DEF Counter
    <2>3. Wrap(a - c) = IF a >= c THEN a - c ELSE a - c + CounterMod
      <3> HIDE DEF c
      <3> QED  BY <1>0, <2>2, WrapRange DEF Counter
    <2> QED  BY <1>0, <1>1, <1>2, <1>4, <2>1, <2>3 DEF Counter
  <1> QED  BY <1>3, <1>4

------------------------------------------------------------------------------
(* Steps of a handler *)

\* Lengths are natural numbers.
LEMMA CountNat ==
    ASSUME NEW m, TypeOK(m), NEW f
    PROVE  Count(m, f) \in Nat
  <1>1. m.data \in Seq(Packet)  BY DEF TypeOK
  <1> QED  BY <1>1, RetainSeq DEF Count, DataOf

\* A connection may stay as it is.
LEMMA EvolvesRefl ==
    ASSUME NEW c \in ConnType
    PROVE  Evolves(c, c)
  <1>1. Len(c.toHost) \in Nat  BY DEF ConnType, Payload
  <1> QED  BY <1>1 DEF Evolves, Keeps

\* It may evolve twice.
LEMMA EvolvesTrans ==
    ASSUME NEW a \in ConnType, NEW b \in ConnType, NEW c \in ConnType,
           Evolves(a, b), Evolves(b, c)
    PROVE  Evolves(a, c)
  <1>1. Keeps(a, c)  BY DEF Evolves, Keeps
  <1>2. Len(a.toHost) \in Nat /\ Len(b.toHost) \in Nat /\ Len(c.toHost) \in Nat
    BY DEF ConnType, Payload
  <1> QED  BY <1>1, <1>2 DEF Evolves

\* All of them may stay.
LEMMA MovesRefl ==
    ASSUME NEW m, NEW n, n.conns = m.conns, n.data = m.data, TypeOK(m)
    PROVE  Moves(m, n)
  <1>1. \A f : Count(n, f) = Count(m, f)  BY DEF Count, DataOf
  <1>2. \A f : Count(m, f) \in Nat  BY CountNat
  <1>3. \A f \in Live(m) : Evolves(m.conns[f], m.conns[f])  BY EvolvesRefl DEF TypeOK
  <1> QED  BY <1>1, <1>2, <1>3 DEF Moves, Live

\* A handler that calls two others.
LEMMA MovesTrans ==
    ASSUME NEW m, NEW n, NEW o, TypeOK(m), TypeOK(n), TypeOK(o), Moves(m, n), Moves(n, o)
    PROVE  Moves(m, o)
  <1>1. Live(o) \subseteq Live(n) /\ Live(n) \subseteq Live(m)  BY DEF Moves
  <1>2. ASSUME NEW f \in Live(o)
        PROVE  /\ Evolves(m.conns[f], o.conns[f])
               /\ Count(o, f) > Count(m, f)
                     => o.conns[f].phase = "Established" /\ ~ m.conns[f].localShutSend
    <2> DEFINE a == m.conns[f]
               b == n.conns[f]
               c == o.conns[f]
    <2>1. a \in ConnType /\ b \in ConnType /\ c \in ConnType  BY <1>1, <1>2 DEF TypeOK
    <2>2. Evolves(a, b) /\ Evolves(b, c)  BY <1>1, <1>2 DEF Moves
    <2>3. /\ Count(o, f) > Count(n, f) => c.phase = "Established" /\ ~ b.localShutSend
          /\ Count(n, f) > Count(m, f) => b.phase = "Established" /\ ~ a.localShutSend
      BY <1>1, <1>2 DEF Moves
    <2>4. Count(m, f) \in Nat /\ Count(n, f) \in Nat /\ Count(o, f) \in Nat  BY CountNat
    <2> HIDE DEF a, b, c
    <2>5. Evolves(a, c)  BY <2>1, <2>2, EvolvesTrans
    <2>6. Count(o, f) > Count(m, f) => c.phase = "Established" /\ ~ a.localShutSend
      BY <2>2, <2>3, <2>4 DEF Evolves, Keeps
    <2> QED  BY <2>5, <2>6 DEF a, c
  <1> QED  BY <1>1, <1>2 DEF Moves

\* The record after PutConn.
LEMMA PutFields ==
    ASSUME NEW m, IsMux(m), NEW f, NEW c
    PROVE  LET n == PutConn(m, f, c)
           IN  /\ IsMux(n)
               /\ n.ctrl = m.ctrl /\ n.data = m.data /\ n.next = m.next
               /\ Live(n) = Live(m) \cup {f}
               /\ n.conns[f] = c
               /\ \A g \in Live(m) : g # f => n.conns[g] = m.conns[g]
  BY DEF IsMux, PutConn, Live

\* A connection that is new, or shuts no less than before, can be put.
LEMMA PutInv ==
    ASSUME NEW m, Inv(m), NEW f \in Flows, NEW c \in ConnType, Window(c),
           f \in Live(m) => Keeps(m.conns[f], c)
    PROVE  Inv(PutConn(m, f, c))
  <1> DEFINE n == PutConn(m, f, c)
  <1>1. /\ IsMux(n)
        /\ n.ctrl = m.ctrl /\ n.data = m.data /\ n.next = m.next
        /\ Live(n) = Live(m) \cup {f}
        /\ n.conns[f] = c
        /\ \A g \in Live(m) : g # f => n.conns[g] = m.conns[g]
    BY PutFields DEF Inv, TypeOK
  <1> HIDE DEF n
  <1>2. TypeOK(n)  BY <1>1 DEF Inv, TypeOK
  <1>3. \A g \in Live(n) : Window(n.conns[g])  BY <1>1 DEF Inv
  <1>4. ASSUME NEW i \in 1 .. Len(n.ctrl), n.ctrl[i].op # "RST"
        PROVE  n.ctrl[i].flow \in Live(n) /\ Fits(n.ctrl[i], n.conns[n.ctrl[i].flow])
    <2> DEFINE p == m.ctrl[i]
    <2>1. p = n.ctrl[i] /\ p.flow \in Live(m) /\ Fits(p, m.conns[p.flow])
      BY <1>1, <1>4 DEF Inv
    <2>2. CASE p.flow # f  BY <1>1, <2>1, <2>2
    <2>3. CASE p.flow = f
      <3> HIDE DEF p
      <3>1. Keeps(m.conns[f], c) /\ Fits(p, m.conns[f])  BY <2>1, <2>3
      <3>2. Fits(p, c)  BY <3>1 DEF Keeps, Fits, ShutOf
      <3> QED  BY <1>1, <2>1, <2>3, <3>2
    <2> QED  BY <2>2, <2>3
  <1>5. \A i \in 1 .. Len(n.data) : n.data[i].flow \in Live(n)  BY <1>1 DEF Inv
  <1>6. \A i, j \in 1 .. Len(n.ctrl) : i # j => ~ Clash(n.ctrl[i], n.ctrl[j])
    BY <1>1 DEF Inv
  <1> QED  BY <1>2, <1>3, <1>4, <1>5, <1>6 DEF Inv, n

\* One that evolves.
LEMMA PutMoves ==
    ASSUME NEW m, Inv(m), NEW f \in Live(m), NEW c \in ConnType, Window(c),
           Evolves(m.conns[f], c)
    PROVE  Inv(PutConn(m, f, c)) /\ Moves(m, PutConn(m, f, c))
  <1> DEFINE n == PutConn(m, f, c)
  <1>1. /\ n.data = m.data
        /\ Live(n) = Live(m) \cup {f}
        /\ n.conns[f] = c
        /\ \A g \in Live(m) : g # f => n.conns[g] = m.conns[g]
    BY PutFields, SMTT(30) DEF Inv, TypeOK
  <1>2. Inv(n)  BY PutInv DEF Inv, TypeOK, Evolves
  <1> HIDE DEF n
  <1>3. \A g : Count(n, g) = Count(m, g)  BY <1>1 DEF Count, DataOf
  <1>4. \A g : Count(m, g) \in Nat  BY CountNat DEF Inv
  <1>5. \A g \in Live(m) : Evolves(m.conns[g], m.conns[g])
    BY EvolvesRefl DEF Inv, TypeOK
  <1>6. Moves(m, n)  BY <1>1, <1>3, <1>4, <1>5 DEF Moves
  <1> QED  BY <1>2, <1>6 DEF n

------------------------------------------------------------------------------
(* The queues *)

Places(h, r, q) ==
    \A i \in 1 .. Len(r) :
        /\ h[i] \in 1 .. Len(q)
        /\ r[i] = q[h[i]]
        /\ \A j \in 1 .. Len(r) : i # j => h[i] # h[j]

\* The packets kept are packets of the queue, at different places.
LEMMA Kept ==
    ASSUME NEW q \in Seq(Packet), NEW S, NEW r, r = Retain(q, S)
    PROVE  /\ r \in Seq(Packet)
           /\ \A i \in 1 .. Len(r) : r[i] \in S
           /\ \E h : Places(h, r, q)
  <1>1. r \in Seq(Packet)  BY RetainSeq
  <1>2. PICK h : Embeds(h, r, q, Len(q), S)  BY RetainEmbeds
  <1>3. \A i \in 1 .. Len(r) :
            h[i] \in 1 .. Len(q) /\ r[i] = q[h[i]] /\ r[i] \in S
    BY <1>2 DEF Embeds
  <1>4. \A i, j \in 1 .. Len(r) : i # j => h[i] # h[j]
    BY <1>1, <1>2, <1>3 DEF Embeds
  <1>5. Places(h, r, q)  BY <1>3, <1>4 DEF Places
  <1> QED  BY <1>1, <1>3, <1>5

\* Control packets to f.
LEMMA CtrlPacket ==
    ASSUME NEW f \in Flows, NEW op \in Ops, NEW flags \in SUBSET {"send", "recv"}
    PROVE  /\ Pkt(f, op, flags, <<>>) \in Packet
           /\ Pkt(f, op, flags, <<>>).flow = f
           /\ Pkt(f, op, flags, <<>>).op = op
           /\ Pkt(f, op, flags, <<>>).flags = flags
  BY DEF Pkt, Packet, Payload

\* A control packet that fits its connection and is not queued yet can be queued.
LEMMA EnqueueInv ==
    ASSUME NEW m, Inv(m), NEW p \in Packet, p.op # "RW",
           p.op = "RST" \/ (p.flow \in Live(m) /\ Fits(p, m.conns[p.flow])),
           \A i \in 1 .. Len(m.ctrl) : ~ Clash(m.ctrl[i], p)
    PROVE  Inv(Enqueue(m, p)) /\ Moves(m, Enqueue(m, p))
  <1> DEFINE n == Enqueue(m, p)
  <1>1. /\ IsMux(n)
        /\ n.conns = m.conns /\ n.data = m.data /\ n.next = m.next
        /\ n.ctrl = Append(m.ctrl, p)
    BY DEF Inv, TypeOK, IsMux, Enqueue
  <1> HIDE DEF n
  <1>2. m.ctrl \in Seq(Packet)  BY DEF Inv, TypeOK
  <1>3. /\ n.ctrl \in Seq(Packet)
        /\ Len(n.ctrl) = Len(m.ctrl) + 1
        /\ \A i \in 1 .. Len(n.ctrl) :
              IF i = Len(n.ctrl) THEN n.ctrl[i] = p
              ELSE i \in 1 .. Len(m.ctrl) /\ n.ctrl[i] = m.ctrl[i]
    BY <1>1, <1>2
  <1>4. Live(n) = Live(m)  BY <1>1 DEF Live
  <1>5. TypeOK(n)  BY <1>1, <1>3, <1>4 DEF Inv, TypeOK
  <1>6. \A g \in Live(n) : Window(n.conns[g])  BY <1>1, <1>4 DEF Inv
  <1>7. \A i \in 1 .. Len(n.ctrl) :
          \/ n.ctrl[i].op = "RST"
          \/ n.ctrl[i].flow \in Live(n) /\ Fits(n.ctrl[i], n.conns[n.ctrl[i].flow])
    BY <1>1, <1>3, <1>4 DEF Inv
  <1>8. \A i \in 1 .. Len(n.data) : n.data[i].flow \in Live(n)  BY <1>1, <1>4 DEF Inv
  <1>9. \A q, r : Clash(q, r) => Clash(r, q)  BY DEF Clash
  <1>10. ASSUME NEW i \in 1 .. Len(n.ctrl), NEW j \in 1 .. Len(n.ctrl), i # j
         PROVE  ~ Clash(n.ctrl[i], n.ctrl[j])
    <2>1. CASE i = Len(n.ctrl)  BY <1>3, <1>9, <1>10, <2>1
    <2>2. CASE j = Len(n.ctrl)  BY <1>3, <1>10, <2>2
    <2>3. CASE i # Len(n.ctrl) /\ j # Len(n.ctrl)  BY <1>3, <1>10, <2>3 DEF Inv
    <2> QED  BY <2>1, <2>2, <2>3
  <1>11. Inv(n)  BY <1>5, <1>6, <1>7, <1>8, <1>10 DEF Inv
  <1>12. Moves(m, n)  BY <1>1, MovesRefl DEF Inv
  <1> QED  BY <1>11, <1>12 DEF n

\* A packet that needs no repetition.
LEMMA EnqueueOnceInv ==
    ASSUME NEW m, Inv(m), NEW f \in Live(m), NEW op \in {"CREDIT_UPDATE", "CREDIT_REQUEST"}
    PROVE  LET n == EnqueueOnce(m, f, op) IN Inv(n) /\ Moves(m, n)
  <1>1. CASE Queued(m, f, op)  BY <1>1, MovesRefl DEF EnqueueOnce, Inv
  <1>2. CASE ~ Queued(m, f, op)
    <2> DEFINE p == Ctrl(f, op)
    <2>1. f \in Flows /\ op \in Ops /\ op # "RW" /\ op # "SHUTDOWN" /\ op # "RESPONSE"
      BY DEF Inv, TypeOK, Ops
    <2>2. p \in Packet /\ p.flow = f /\ p.op = op  BY <2>1, CtrlPacket DEF Ctrl
    <2> HIDE DEF p
    <2>3. m.ctrl \in Seq(Packet)  BY DEF Inv, TypeOK
    <2>4. \A i \in 1 .. Len(m.ctrl) : ~ Clash(m.ctrl[i], p)
      BY <1>2, <2>2, <2>3 DEF Queued, Clash
    <2>5. Inv(Enqueue(m, p)) /\ Moves(m, Enqueue(m, p))
      BY <2>1, <2>2, <2>4, EnqueueInv, SMTT(30) DEF Fits
    <2> QED  BY <1>2, <2>5 DEF EnqueueOnce, p
  <1> QED  BY <1>1, <1>2, SMTT(30)

\* Packets and connections may go, as long as none is left of a connection that went.
LEMMA FilterInv ==
    ASSUME NEW m, Inv(m), NEW n, IsMux(n), NEW S,
           n.next = m.next, n.ctrl = Retain(m.ctrl, S), n.data \in Seq(Packet),
           Live(n) \subseteq Live(m), \A f \in Live(n) : n.conns[f] = m.conns[f],
           \A p \in S : p.op = "RST" \/ p.flow \in Live(n) \/ p.flow \notin Live(m),
           \A i \in 1 .. Len(n.data) : n.data[i].flow \in Live(n)
    PROVE  Inv(n)
  <1>1. m.ctrl \in Seq(Packet)  BY DEF Inv, TypeOK
  <1>2. n.ctrl \in Seq(Packet) /\ \A i \in 1 .. Len(n.ctrl) : n.ctrl[i] \in S
    BY <1>1, Kept
  <1>3. PICK h : Places(h, n.ctrl, m.ctrl)  BY <1>1, Kept
  <1>4. TypeOK(n)  BY <1>2 DEF Inv, TypeOK
  <1>5. \A f \in Live(n) : Window(n.conns[f])  BY DEF Inv
  <1>6. ASSUME NEW i \in 1 .. Len(n.ctrl), n.ctrl[i].op # "RST"
        PROVE  n.ctrl[i].flow \in Live(n) /\ Fits(n.ctrl[i], n.conns[n.ctrl[i].flow])
    <2> DEFINE p == n.ctrl[i]
    <2>1. p.flow \in Live(m) /\ Fits(p, m.conns[p.flow])  BY <1>3, <1>6 DEF Inv, Places
    <2>2. p.flow \in Live(n)  BY <1>2, <1>6, <2>1
    <2> QED  BY <2>1, <2>2
  <1>7. ASSUME NEW i \in 1 .. Len(n.ctrl), NEW j \in 1 .. Len(n.ctrl), i # j
        PROVE  ~ Clash(n.ctrl[i], n.ctrl[j])
    <2>1. /\ h[i] \in 1 .. Len(m.ctrl) /\ h[j] \in 1 .. Len(m.ctrl) /\ h[i] # h[j]
          /\ n.ctrl[i] = m.ctrl[h[i]] /\ n.ctrl[j] = m.ctrl[h[j]]
      BY <1>3, <1>7 DEF Places
    <2> QED  BY <2>1, Zenon DEF Inv
  <1> QED  BY <1>4, <1>5, <1>6, <1>7 DEF Inv

\* enqueue_rst: one RST of a flow is queued, whether it is live or not.
LEMMA EnqueueRstInv ==
    ASSUME NEW m, Inv(m), NEW f \in Flows
    PROVE  Inv(EnqueueRst(m, f)) /\ Moves(m, EnqueueRst(m, f))
  <1> DEFINE others == {p \in Entries(m.ctrl) : ~ (p.flow = f /\ p.op = "RST")}
             n == [m EXCEPT !.ctrl = Retain(@, others)]
             p == Ctrl(f, "RST")
  <1>1. /\ IsMux(n)
        /\ n.conns = m.conns /\ n.data = m.data /\ n.next = m.next
        /\ n.ctrl = Retain(m.ctrl, others)
    BY DEF Inv, TypeOK, IsMux
  <1>2. Live(n) = Live(m)  BY <1>1 DEF Live
  <1>3. m.ctrl \in Seq(Packet) /\ n.data \in Seq(Packet)
    BY <1>1 DEF Inv, TypeOK
  <1>4. p \in Packet /\ p.flow = f /\ p.op = "RST"  BY CtrlPacket DEF Ctrl, Ops
  <1> HIDE DEF n, p
  <1>5. Inv(n)
    <2>1. \A q \in others : q.op = "RST" \/ q.flow \in Live(n) \/ q.flow \notin Live(m)
      BY <1>2
    <2>2. \A i \in 1 .. Len(n.data) : n.data[i].flow \in Live(n)  BY <1>1, <1>2 DEF Inv
    <2> HIDE DEF others
    <2> QED  BY <1>1, <1>2, <1>3, <2>1, <2>2, FilterInv, Zenon
  <1>6. \A i \in 1 .. Len(n.ctrl) : ~ Clash(n.ctrl[i], p)
    <2>1. \A i \in 1 .. Len(n.ctrl) : n.ctrl[i] \in others
      <3> HIDE DEF others
      <3> QED  BY <1>1, <1>3, Kept
    <2> QED  BY <1>4, <2>1 DEF Clash
  <1>7. Inv(Enqueue(n, p)) /\ Moves(n, Enqueue(n, p))
    BY <1>4, <1>5, <1>6, EnqueueInv
  <1>8. Moves(m, n)  BY <1>1, MovesRefl, SMTT(30) DEF Inv
  <1>9. Moves(m, Enqueue(n, p))  BY <1>5, <1>7, <1>8, MovesTrans DEF Inv
  <1>10. EnqueueRst(m, f) = Enqueue(n, p)  BY DEF EnqueueRst, n, p
  <1> QED  BY <1>7, <1>9, <1>10

OfFlow(g) == {p \in Packet : p.flow = g}

\* The packets of one flow, as a set that does not depend on the queue.
LEMMA FlowPackets ==
    ASSUME NEW q \in Seq(Packet), NEW g
    PROVE  Retain(q, {p \in Entries(q) : p.flow = g}) = Retain(q, OfFlow(g))
  <1> DEFINE R == {p \in Entries(q) : p.flow = g}
  <1>1. \A i \in 1 .. Len(q) : q[i] \in R <=> q[i] \in OfFlow(g)  BY DEF Entries, OfFlow
  <1> HIDE DEF R
  <1> QED  BY <1>1, RetainSame DEF R

\* Purging a queue of one flow leaves what it holds of another.
LEMMA PurgeOther ==
    ASSUME NEW q \in Seq(Packet), NEW f, NEW g, f # g
    PROVE  Retain(Purge(q, f), OfFlow(g)) = Retain(q, OfFlow(g))
  <1> DEFINE S == {p \in Entries(q) : p.flow # f}
  <1>1. Purge(q, f) = Retain(q, S)  BY DEF Purge
  <1>2. \A i \in 1 .. Len(q) : q[i] \in OfFlow(g) <=> q[i] \in S \cap OfFlow(g)
    BY DEF Entries, OfFlow
  <1> HIDE DEF S
  <1>3. Retain(q, OfFlow(g)) = Retain(q, S \cap OfFlow(g))  BY <1>2, RetainSame
  <1>4. Retain(Retain(q, S), OfFlow(g)) = Retain(q, S \cap OfFlow(g))  BY RetainTwice
  <1> QED  BY <1>1, <1>3, <1>4

\* drop_conn: nothing of the connection is left but the RST.
LEMMA DropInv ==
    ASSUME NEW m, Inv(m), NEW f \in Flows, NEW rst \in BOOLEAN
    PROVE  Inv(DropConn(m, f, rst)) /\ Moves(m, DropConn(m, f, rst))
  <1> DEFINE n == [m EXCEPT !.conns = [g \in Live(m) \ {f} |-> m.conns[g]],
                            !.ctrl = Purge(@, f), !.data = Purge(@, f)]
  <1>1. /\ IsMux(n)
        /\ Live(n) = Live(m) \ {f}
        /\ \A g \in Live(n) : n.conns[g] = m.conns[g]
        /\ n.next = m.next /\ n.ctrl = Purge(m.ctrl, f) /\ n.data = Purge(m.data, f)
    BY DEF Inv, TypeOK, IsMux, Live
  <1> HIDE DEF n
  <1>2. m.ctrl \in Seq(Packet) /\ m.data \in Seq(Packet)  BY DEF Inv, TypeOK
  <1>3. Inv(n)
    <2> DEFINE S == {p \in Entries(m.ctrl) : p.flow # f}
               T == {p \in Entries(m.data) : p.flow # f}
    <2>1. \A p \in S : p.op = "RST" \/ p.flow \in Live(n) \/ p.flow \notin Live(m)
      BY <1>1
    <2>2. n.ctrl = Retain(m.ctrl, S) /\ n.data = Retain(m.data, T)  BY <1>1 DEF Purge
    <2>3. \A p \in T : p.flow # f  OBVIOUS
    <2> HIDE DEF S, T
    <2>4. n.data \in Seq(Packet) /\ \A i \in 1 .. Len(n.data) : n.data[i] \in T
      BY <1>2, <2>2, Kept
    <2>5. PICK h : Places(h, n.data, m.data)  BY <1>2, <2>2, Kept
    <2>6. \A i \in 1 .. Len(n.data) : n.data[i].flow \in Live(n)
      BY <1>1, <2>3, <2>4, <2>5 DEF Inv, Places
    <2> QED  BY <1>1, <2>1, <2>2, <2>4, <2>6, FilterInv, Zenon
  <1>4. Moves(m, n)
    <2>0. n.data \in Seq(Packet)  BY <1>3 DEF Inv, TypeOK
    <2>1. ASSUME NEW g \in Live(n) PROVE Count(n, g) = Count(m, g)
      <3>1. f # g  BY <1>1
      <3>2. DataOf(n, g) = Retain(n.data, OfFlow(g))  BY <2>0, FlowPackets DEF DataOf
      <3>3. DataOf(m, g) = Retain(m.data, OfFlow(g))  BY <1>2, FlowPackets DEF DataOf
      <3>4. DataOf(n, g) = DataOf(m, g)  BY <1>1, <1>2, <3>1, <3>2, <3>3, PurgeOther
      <3> QED  BY <3>4 DEF Count
    <2>2. \A g : Count(m, g) \in Nat  BY CountNat DEF Inv
    <2>3. \A g \in Live(m) : Evolves(m.conns[g], m.conns[g])
      BY EvolvesRefl DEF Inv, TypeOK
    <2> QED  BY <1>1, <2>1, <2>2, <2>3 DEF Moves
  <1>5. Inv(EnqueueRst(n, f)) /\ Moves(n, EnqueueRst(n, f))  BY <1>3, EnqueueRstInv, SMTT(30)
  <1>6. Moves(m, EnqueueRst(n, f))  BY <1>3, <1>4, <1>5, MovesTrans DEF Inv
  <1>7. DropConn(m, f, rst) = IF rst THEN EnqueueRst(n, f) ELSE n  BY DEF DropConn, n
  <1> QED  BY <1>3, <1>4, <1>5, <1>6, <1>7

------------------------------------------------------------------------------
(* What the handlers do to one connection *)

\* A change that leaves the counters of the peer and the shutdown state alone.
Quiet(c, d) ==
    /\ d \in ConnType
    /\ d.phase = c.phase /\ d.connecting = c.connecting /\ d.expiry = c.expiry
    /\ d.peerBuf = c.peerBuf /\ d.peerFwd = c.peerFwd
    /\ d.localShutSend = c.localShutSend /\ d.localShutRecv = c.localShutRecv
    /\ d.peerShutRecv = c.peerShutRecv

\* A quiet step that sends within the credit is one a handler may take.
LEMMA QuietEvolves ==
    ASSUME NEW c \in ConnType, NEW d, Quiet(c, d),
           d.sent = c.sent \/ Wrap(d.sent - d.peerFwd) <= d.peerBuf,
           Len(d.toHost) <= Len(c.toHost)
    PROVE  Evolves(c, d)
  <1>1. Len(c.toHost) \in Nat /\ Len(d.toHost) \in Nat  BY DEF Quiet, ConnType, Payload
  <1>2. Keeps(c, d)  BY DEF Quiet, Keeps
  <1>3. Deadline(c) => Deadline(d)  BY DEF Quiet, Deadline, ShutSend
  <1> QED  BY <1>1, <1>2, <1>3 DEF Quiet, Evolves

\* The directions that mark_local_shutdown shuts, and the connection after it.
NewShut(c, recv, send) ==
    (IF send /\ ~ c.localShutSend THEN {"send"} ELSE {})
    \cup (IF recv /\ ~ c.localShutRecv THEN {"recv"} ELSE {})
ShutConnection(c, recv, send) ==
    [c EXCEPT !.localShutSend = @ \/ send, !.localShutRecv = @ \/ recv,
              !.expiry = @ \/ NewShut(c, recv, send) # {}]

\* mark_local_shut: the directions newly shut are announced, and a deadline is set.
LEMMA ShutConn ==
    ASSUME NEW c \in ConnType, Window(c), c.phase = "Established",
           NEW recv \in BOOLEAN, NEW send \in BOOLEAN
    PROVE  /\ NewShut(c, recv, send) \in SUBSET {"send", "recv"}
           /\ ShutConnection(c, recv, send) \in ConnType /\ Window(ShutConnection(c, recv, send))
           /\ Evolves(c, ShutConnection(c, recv, send))
           /\ NewShut(c, recv, send) \subseteq ShutOf(ShutConnection(c, recv, send))
           /\ NewShut(c, recv, send) \cap ShutOf(c) = {}
  <1> DEFINE flags == (IF send /\ ~ c.localShutSend THEN {"send"} ELSE {})
                      \cup (IF recv /\ ~ c.localShutRecv THEN {"recv"} ELSE {})
             x == c.localShutSend \/ send
             y == c.localShutRecv \/ recv
             z == c.expiry \/ flags # {}
             shut == [c EXCEPT !.localShutSend = x, !.localShutRecv = y, !.expiry = z]
  <1>1. x \in BOOLEAN /\ y \in BOOLEAN /\ z \in BOOLEAN  OBVIOUS
  <1>2. flags \in SUBSET {"send", "recv"} /\ flags \cap ShutOf(c) = {}  BY DEF ShutOf
  <1>3. (y => c.localShutRecv \/ z) /\ (x => c.localShutSend \/ z)  OBVIOUS
  <1>4. flags \subseteq (IF x THEN {"send"} ELSE {}) \cup (IF y THEN {"recv"} ELSE {})
    OBVIOUS
  <1>5. (c.localShutSend => x) /\ (c.localShutRecv => y) /\ (c.expiry => z)  OBVIOUS
  <1> HIDE DEF flags, x, y, z
  <1>6. /\ shut \in ConnType
        /\ shut.localShutSend = x /\ shut.localShutRecv = y /\ shut.expiry = z
        /\ shut.peerShutRecv = c.peerShutRecv
        /\ shut.phase = c.phase /\ shut.connecting = c.connecting
        /\ shut.peerBuf = c.peerBuf /\ shut.peerFwd = c.peerFwd /\ shut.sent = c.sent
        /\ shut.received = c.received /\ shut.fwd = c.fwd /\ shut.toHost = c.toHost
    BY <1>1, Zenon DEF ConnType
  <1> HIDE DEF shut
  <1>7. Window(shut)  BY <1>6 DEF Window
  <1>8. flags \subseteq ShutOf(shut)  BY <1>4, <1>6 DEF ShutOf
  <1>9. Evolves(c, shut)
    <2>1. Keeps(c, shut)  BY <1>5, <1>6 DEF Keeps
    <2>2. Deadline(c) => Deadline(shut)  BY <1>3, <1>5, <1>6 DEF Deadline, ShutSend
    <2> QED  BY <1>6, <2>1, <2>2 DEF Evolves
  <1>10. flags = NewShut(c, recv, send)  BY Zenon DEF flags, NewShut
  <1>11. shut = ShutConnection(c, recv, send)  BY <1>10, Zenon DEF shut, x, y, z, ShutConnection
  <1> QED  BY <1>2, <1>6, <1>7, <1>8, <1>9, <1>10, <1>11, Zenon

\* ingest: the credit left covers what is sent.
LEMMA SentConn ==
    ASSUME NEW c \in ConnType, Window(c), NEW k \in Nat
    PROVE  LET n == Least(k, PeerAvail(c))
               sent == [c EXCEPT !.sent = Wrap(@ + n)]
           IN  /\ n \in 0 .. k
               /\ Quiet(c, sent) /\ Window(sent) /\ Evolves(c, sent)
  <1> DEFINE n == Least(k, PeerAvail(c))
             w == Wrap(c.sent + n)
             sent == [c EXCEPT !.sent = w]
  <1>0. c.sent \in Counter /\ c.peerFwd \in Counter /\ c.peerBuf \in Counter
    BY DEF ConnType
  <1>1. Wrap(c.sent - c.peerFwd) \in Counter /\ CounterMod \in Nat
    BY <1>0, WrapRange, Bounds DEF Counter
  <1>2. n \in 0 .. k /\ (n = 0 \/ Wrap(c.sent - c.peerFwd) + n <= c.peerBuf)
    BY <1>0, <1>1 DEF Least, PeerAvail, Counter
  <1> HIDE DEF n
  <1>3. w \in Counter  BY <1>0, <1>2, WrapRange DEF Counter
  <1>4. w = c.sent \/ Wrap(w - c.peerFwd) <= c.peerBuf
    <2>1. CASE n = 0
      <3>1. c.sent + n = c.sent /\ c.sent \in Int /\ 0 <= c.sent /\ c.sent < CounterMod
        BY <1>0, <1>1, <2>1 DEF Counter
      <3> QED  BY <3>1, WrapRange
    <2>2. CASE n # 0
      <3>1. Wrap(c.sent - c.peerFwd) + n < CounterMod  BY <1>0, <1>1, <1>2, <2>2 DEF Counter
      <3>2. Wrap(w - c.peerFwd) = Wrap(c.sent - c.peerFwd) + n
        BY <1>0, <1>2, <3>1, Distance
      <3> QED  BY <1>2, <2>2, <3>2
    <2> QED  BY <2>1, <2>2
  <1> HIDE DEF w
  <1>5. /\ Quiet(c, sent) /\ sent.sent = w
        /\ sent.received = c.received /\ sent.fwd = c.fwd /\ sent.toHost = c.toHost
        /\ sent.peerBuf = c.peerBuf /\ sent.peerFwd = c.peerFwd
    BY <1>3 DEF ConnType, Quiet
  <1> HIDE DEF sent
  <1>6. Window(sent)  BY <1>5 DEF Window
  <1>7. Len(sent.toHost) <= Len(c.toHost)  BY <1>5 DEF ConnType, Payload
  <1>8. Evolves(c, sent)  BY <1>4, <1>5, <1>7, QuietEvolves
  <1> QED  BY <1>2, <1>5, <1>6, <1>8 DEF sent, w, n

\* stash_prefetch touches the stash only.
LEMMA StashConn ==
    ASSUME NEW c \in ConnType, Window(c), NEW bytes \in Payload
    PROVE  LET d == Stash(c, bytes)
           IN  Quiet(c, d) /\ Window(d) /\ Evolves(c, d)
  <1> DEFINE room == IF Len(c.pre) < MaxPrefetch THEN MaxPrefetch - Len(c.pre) ELSE 0
             k == Least(room, Len(bytes))
             s == c.pre \o SubSeq(bytes, 1, k)
             d == [c EXCEPT !.pre = s]
  <1>0. c.pre \in Payload /\ MaxPrefetch \in Nat  BY Bounds DEF ConnType
  <1>1. k \in 0 .. Len(bytes)  BY <1>0 DEF Least, Payload
  <1> HIDE DEF k
  <1>2. s \in Payload  BY <1>0, <1>1 DEF Payload
  <1> HIDE DEF s
  <1>3. /\ Quiet(c, d) /\ d.sent = c.sent
        /\ d.received = c.received /\ d.fwd = c.fwd /\ d.toHost = c.toHost
    BY <1>2 DEF ConnType, Quiet
  <1>4. d = Stash(c, bytes)  BY DEF Stash, d, s, k
  <1> HIDE DEF d
  <1>5. Window(d)  BY <1>3 DEF Window
  <1>6. Len(d.toHost) <= Len(c.toHost)  BY <1>3 DEF ConnType, Payload
  <1>7. Evolves(c, d)  BY <1>3, <1>6, QuietEvolves
  <1> QED  BY <1>3, <1>4, <1>5, <1>7

------------------------------------------------------------------------------
(* mark_local_shut, ingest, credit, flush_conn *)

\* mark_local_shut: a shutdown direction is announced once.
LEMMA MarkShutInv ==
    ASSUME NEW m, Inv(m), NEW f \in Flows, NEW recv \in BOOLEAN, NEW send \in BOOLEAN
    PROVE  LET n == MarkLocalShut(m, f, recv, send) IN Inv(n) /\ Moves(m, n)
  <1> DEFINE c == m.conns[f]
             flags == (IF send /\ ~ c.localShutSend THEN {"send"} ELSE {})
                      \cup (IF recv /\ ~ c.localShutRecv THEN {"recv"} ELSE {})
             shut == [c EXCEPT !.localShutSend = @ \/ send,
                               !.localShutRecv = @ \/ recv,
                               !.expiry = @ \/ flags # {}]
             p == Pkt(f, "SHUTDOWN", flags, <<>>)
             n == PutConn(m, f, shut)
  <1>1. MarkLocalShut(m, f, recv, send)
            = IF f \notin Live(m) THEN m
              ELSE IF c.phase = "WaitGuest" THEN DropConn(m, f, TRUE)
              ELSE IF flags = {} THEN m ELSE Enqueue(n, p)
    BY DEF MarkLocalShut
  <1>2. Inv(m) /\ Moves(m, m)  BY MovesRefl DEF Inv
  <1>3. Inv(DropConn(m, f, TRUE)) /\ Moves(m, DropConn(m, f, TRUE))  BY DropInv, Zenon
  <1>4. ASSUME f \in Live(m), c.phase # "WaitGuest"
        PROVE  Inv(Enqueue(n, p)) /\ Moves(m, Enqueue(n, p))
    <2>1. c \in ConnType /\ Window(c) /\ c.phase = "Established"
      BY <1>4 DEF Inv, TypeOK, ConnType
    <2>2. /\ flags \in SUBSET {"send", "recv"}
          /\ shut \in ConnType /\ Window(shut) /\ Evolves(c, shut)
          /\ flags \subseteq ShutOf(shut) /\ flags \cap ShutOf(c) = {}
      <3> HIDE DEF c
      <3>1. flags = NewShut(c, recv, send)  BY Zenon DEF NewShut
      <3>2. shut = ShutConnection(c, recv, send)  BY Zenon DEF ShutConnection, NewShut
      <3> HIDE DEF flags, shut
      <3> QED  BY <2>1, <3>1, <3>2, ShutConn, Zenon
    <2> HIDE DEF flags, shut
    <2>3. Inv(n) /\ Moves(m, n)  BY <1>4, <2>2, PutMoves, SMTT(30)
    <2>4. n.ctrl = m.ctrl /\ f \in Live(n) /\ n.conns[f] = shut
      BY PutFields DEF Inv, TypeOK
    <2> HIDE DEF n
    <2>5. p \in Packet /\ p.flow = f /\ p.op = "SHUTDOWN" /\ p.flags = flags
      BY <2>2, CtrlPacket DEF Ops
    <2> HIDE DEF p
    <2>6. Fits(p, n.conns[p.flow])  BY <2>2, <2>4, <2>5 DEF Fits
    <2>7. ASSUME NEW i \in 1 .. Len(n.ctrl) PROVE ~ Clash(n.ctrl[i], p)
      <3> SUFFICES ASSUME n.ctrl[i].flow = f, n.ctrl[i].op = "SHUTDOWN"
                   PROVE  n.ctrl[i].flags \cap flags = {}
        BY <2>5 DEF Clash
      <3>1. i \in 1 .. Len(m.ctrl) /\ m.ctrl[i].flow = f /\ m.ctrl[i].op = "SHUTDOWN"
        BY <2>4
      <3>2. Fits(m.ctrl[i], c)  BY <3>1 DEF Inv
      <3>3. n.ctrl[i].flags \subseteq ShutOf(c)  BY <2>4, <3>1, <3>2 DEF Fits
      <3> QED  BY <2>2, <3>3
    <2>8. Inv(Enqueue(n, p)) /\ Moves(n, Enqueue(n, p))
      BY <2>3, <2>4, <2>5, <2>6, <2>7, EnqueueInv, SMTT(30)
    <2> QED  BY <2>3, <2>8, MovesTrans, Zenon DEF Inv
  <1> HIDE DEF n, p, flags
  <1> QED  BY <1>1, <1>2, <1>3, <1>4, Zenon

\* RW packets may be queued for an established connection not shut for sending.
LEMMA QueueData ==
    ASSUME NEW m, Inv(m), NEW f \in Live(m), NEW ks \in Seq(Packet),
           \A i \in 1 .. Len(ks) : ks[i].flow = f,
           m.conns[f].phase = "Established", ~ m.conns[f].localShutSend
    PROVE  LET n == [m EXCEPT !.data = @ \o ks]
           IN  Inv(n) /\ Moves(m, n) /\ n.conns = m.conns
  <1> DEFINE n == [m EXCEPT !.data = @ \o ks]
  <1>1. /\ IsMux(n)
        /\ n.conns = m.conns /\ n.next = m.next /\ n.ctrl = m.ctrl
        /\ n.data = m.data \o ks
    BY DEF Inv, TypeOK, IsMux
  <1> HIDE DEF n
  <1>2. m.data \in Seq(Packet)  BY DEF Inv, TypeOK
  <1>3. n.data \in Seq(Packet)  BY <1>1, <1>2
  <1>4. Live(n) = Live(m)  BY <1>1 DEF Live
  <1>5. \A i \in 1 .. Len(n.data) : n.data[i].flow \in Live(n)
    <2> TAKE i \in 1 .. Len(n.data)
    <2>1. CASE i <= Len(m.data)
      <3>1. i \in 1 .. Len(m.data) /\ n.data[i] = m.data[i]  BY <1>1, <1>2, <2>1
      <3> QED  BY <1>4, <3>1, SMTT(30) DEF Inv
    <2>2. CASE i > Len(m.data)
      <3>1. i - Len(m.data) \in 1 .. Len(ks) /\ n.data[i] = ks[i - Len(m.data)]
        BY <1>1, <1>2, <2>2, SMTT(30)
      <3> QED  BY <1>4, <3>1
    <2> QED  BY <1>2, <2>1, <2>2
  <1>6. Inv(n)
    <2>1. TypeOK(n)  BY <1>1, <1>3, <1>4, SMTT(30) DEF Inv, TypeOK
    <2> QED  BY <1>1, <1>4, <1>5, <2>1, SMTT(30) DEF Inv
  <1>7. ASSUME NEW g \in Live(m), g # f PROVE Count(n, g) = Count(m, g)
    <2>1. DataOf(n, g) = Retain(n.data, OfFlow(g))  BY <1>3, FlowPackets DEF DataOf
    <2>2. DataOf(m, g) = Retain(m.data, OfFlow(g))  BY <1>2, FlowPackets DEF DataOf
    <2>3. \A i \in 1 .. Len(ks) : ks[i] \notin OfFlow(g)  BY <1>7 DEF OfFlow
    <2>4. Retain(ks, OfFlow(g)) = <<>>  BY <2>3, RetainUniform
    <2>5. Retain(n.data, OfFlow(g)) = Retain(m.data, OfFlow(g)) \o <<>>
      <3>1. Retain(m.data \o ks, OfFlow(g))
                = Retain(m.data, OfFlow(g)) \o Retain(ks, OfFlow(g))
        <4> DEFINE q == m.data
        <4>1. q \in Seq(Packet)  BY <1>2
        <4> HIDE DEF q
        <4>2. Retain(q \o ks, OfFlow(g)) = Retain(q, OfFlow(g)) \o Retain(ks, OfFlow(g))
          BY <4>1, RetainConcat
        <4> QED  BY <4>2 DEF q
      <3> QED  BY <1>1, <2>4, <3>1
    <2>6. Retain(m.data, OfFlow(g)) \in Seq(Packet)  BY <1>2, RetainSeq
    <2>7. DataOf(n, g) = DataOf(m, g)  BY <2>1, <2>2, <2>5, <2>6, SMTT(30)
    <2> QED  BY <2>7 DEF Count
  <1>8. \A g : Count(m, g) \in Nat  BY CountNat DEF Inv
  <1>9. \A g \in Live(m) : Evolves(m.conns[g], m.conns[g])
    BY EvolvesRefl DEF Inv, TypeOK
  <1>10. Moves(m, n)  BY <1>1, <1>4, <1>7, <1>8, <1>9, SMTT(30) DEF Moves
  <1> QED  BY <1>1, <1>6, <1>10 DEF n

\* The pieces of a payload are packets of the flow.
LEMMA ChunksSeq ==
    ASSUME NEW f \in Flows, NEW bytes \in Payload
    PROVE  /\ Chunks(f, bytes) \in Seq(Packet)
           /\ \A i \in 1 .. Len(Chunks(f, bytes)) : Chunks(f, bytes)[i].flow = f
  <1> DEFINE l == Len(bytes)
             k == (l + MaxChunk - 1) \div MaxChunk
             piece(i) == SubSeq(bytes, (i - 1) * MaxChunk + 1, Least(i * MaxChunk, l))
  <1>0. MaxChunk \in Nat \ {0} /\ l \in Nat  BY Bounds DEF Payload
  <1>1. k \in Nat  BY <1>0
  <1> HIDE DEF k
  <1>2. ASSUME NEW i \in 1 .. k
        PROVE  /\ Pkt(f, "RW", {}, piece(i)) \in Packet
               /\ Pkt(f, "RW", {}, piece(i)).flow = f
    <2> DEFINE a == (i - 1) * MaxChunk
               b == Least(i * MaxChunk, l)
    <2>1. a \in Nat /\ i * MaxChunk \in Nat
      <3>1. i - 1 \in Nat /\ i \in Nat  BY <1>1
      <3> QED  BY <1>0, <3>1
    <2>2. b \in 0 .. l  BY <1>0, <2>1 DEF Least
    <2> HIDE DEF a, b
    <2>3. SubSeq(bytes, a + 1, b) \in Payload  BY <1>0, <2>1, <2>2 DEF Payload
    <2>4. piece(i) \in Payload  BY <2>3 DEF a, b
    <2> HIDE DEF piece
    <2> QED  BY <2>4 DEF Pkt, Packet, Ops
  <1>3. Chunks(f, bytes) = [i \in 1 .. k |-> Pkt(f, "RW", {}, piece(i))]
    BY DEF Chunks, k
  <1> HIDE DEF piece
  <1> QED  BY <1>1, <1>2, <1>3

\* ingest: what is read goes to the guest within its credit, or to the stash.
LEMMA IngestInv ==
    ASSUME NEW m, Inv(m), NEW f \in Flows, NEW bytes \in Payload
    PROVE  LET n == Ingest(m, f, bytes) IN Inv(n) /\ Moves(m, n)
  <1> DEFINE c == m.conns[f]
             n == Least(Len(bytes), PeerAvail(c))
             rest == SubSeq(bytes, n + 1, Len(bytes))
             sent == [c EXCEPT !.sent = Wrap(@ + n)]
             ks == Chunks(f, SubSeq(bytes, 1, n))
             queued == [m EXCEPT !.data = @ \o ks]
             a == PutConn(queued, f, sent)
             b == PutConn(queued, f, Stash(sent, rest))
             s == PutConn(m, f, Stash(c, bytes))
  <1>1. Ingest(m, f, bytes)
            = IF bytes = <<>> \/ f \notin Live(m) THEN m
              ELSE IF c.phase # "Established" \/ c.localShutSend \/ c.peerShutRecv THEN s
              ELSE IF rest = <<>> THEN a
              ELSE EnqueueOnce(b, f, "CREDIT_REQUEST")
    BY SMTT(30) DEF Ingest
  <1>2. Inv(m) /\ Moves(m, m)  BY MovesRefl DEF Inv
  <1>3. ASSUME f \in Live(m) PROVE c \in ConnType /\ Window(c)
    BY <1>3, SMTT(30) DEF Inv, TypeOK
  <1>4. ASSUME f \in Live(m) PROVE Inv(s) /\ Moves(m, s)
    <2>1. Quiet(c, Stash(c, bytes)) /\ Window(Stash(c, bytes)) /\ Evolves(c, Stash(c, bytes))
      BY <1>3, <1>4, StashConn
    <2> QED  BY <1>4, <2>1, PutMoves DEF Quiet
  <1>5. ASSUME f \in Live(m), c.phase = "Established", ~ c.localShutSend
        PROVE  /\ Inv(a) /\ Moves(m, a)
               /\ Inv(EnqueueOnce(b, f, "CREDIT_REQUEST"))
               /\ Moves(m, EnqueueOnce(b, f, "CREDIT_REQUEST"))
    <2>1. /\ n \in 0 .. Len(bytes)
          /\ Quiet(c, sent) /\ Window(sent) /\ Evolves(c, sent)
      <3>1. Len(bytes) \in Nat  BY DEF Payload
      <3> HIDE DEF c
      <3> QED  BY <1>3, <1>5, <3>1, SentConn
    <2> HIDE DEF n, sent
    <2>2. SubSeq(bytes, 1, n) \in Payload /\ rest \in Payload  BY <2>1 DEF Payload
    <2> HIDE DEF rest
    <2>3. ks \in Seq(Packet) /\ \A i \in 1 .. Len(ks) : ks[i].flow = f
      BY <2>2, ChunksSeq
    <2> HIDE DEF ks
    <2>4. Inv(queued) /\ Moves(m, queued) /\ queued.conns = m.conns
      BY <1>5, <2>3, QueueData, Zenon
    <2> HIDE DEF queued
    <2>5. f \in Live(queued) /\ queued.conns[f] = c  BY <1>5, <2>4 DEF Live
    <2>6. sent \in ConnType  BY <2>1 DEF Quiet
    <2>7. Inv(a) /\ Moves(queued, a)  BY <2>1, <2>4, <2>5, <2>6, PutMoves
    <2>8. Moves(m, a)  BY <2>4, <2>7, MovesTrans, Zenon DEF Inv
    <2> DEFINE d == Stash(sent, rest)
    <2>9. Quiet(sent, d) /\ Window(d) /\ Evolves(sent, d)  BY <2>1, <2>2, <2>6, StashConn, SMTT(30)
    <2> HIDE DEF d
    <2>10. d \in ConnType /\ Evolves(c, d)
      <3>1. d \in ConnType  BY <2>9 DEF Quiet
      <3> HIDE DEF c
      <3> QED  BY <1>3, <1>5, <2>1, <2>6, <2>9, <3>1, EvolvesTrans, SMTT(30)
    <2>11. Inv(b) /\ Moves(queued, b)
      BY <2>4, <2>5, <2>9, <2>10, PutMoves, SMTT(30) DEF d
    <2>12. f \in Live(b)  BY <2>4, PutFields DEF Inv, TypeOK
    <2> HIDE DEF b
    <2>13. /\ Inv(EnqueueOnce(b, f, "CREDIT_REQUEST"))
           /\ Moves(b, EnqueueOnce(b, f, "CREDIT_REQUEST"))
      BY <2>11, <2>12, EnqueueOnceInv, SMTT(30)
    <2>14. Moves(m, b)  BY <2>4, <2>11, MovesTrans, SMTT(30) DEF Inv
    <2>15. Moves(m, EnqueueOnce(b, f, "CREDIT_REQUEST"))
      BY <2>11, <2>13, <2>14, MovesTrans DEF Inv
    <2> QED  BY <2>7, <2>8, <2>13, <2>15
  <1> HIDE DEF a, b, s, rest
  <1> QED  BY <1>1, <1>2, <1>4, <1>5

\* enqueue_credit and maybe_credit.
LEMMA CreditInv ==
    ASSUME NEW m, Inv(m), NEW f \in Live(m)
    PROVE  LET n == EnqueueCredit(m, f) IN Inv(n) /\ Moves(m, n)
  <1> DEFINE c == m.conns[f]
             d == [c EXCEPT !.lastFwd = c.fwd]
             n == PutConn(m, f, d)
  <1>1. c \in ConnType /\ Window(c) /\ f \in Flows  BY DEF Inv, TypeOK
  <1>2. /\ Quiet(c, d) /\ d.sent = c.sent
        /\ d.received = c.received /\ d.fwd = c.fwd /\ d.toHost = c.toHost
    <2> HIDE DEF c
    <2>1. c.fwd \in Counter  BY <1>1 DEF ConnType
    <2> QED  BY <1>1, <2>1 DEF ConnType, Quiet
  <1> HIDE DEF d
  <1>3. d \in ConnType /\ Window(d) /\ Len(d.toHost) <= Len(c.toHost)
    <2> HIDE DEF c
    <2> QED  BY <1>1, <1>2 DEF Quiet, Window, ConnType, Payload
  <1>4. Evolves(c, d)
    <2> HIDE DEF c
    <2> QED  BY <1>1, <1>2, <1>3, QuietEvolves
  <1>5. Inv(n) /\ Moves(m, n)  BY <1>3, <1>4, PutMoves, SMTT(30)
  <1>6. n.ctrl = m.ctrl /\ f \in Live(n)  BY PutFields DEF Inv, TypeOK
  <1> HIDE DEF n
  <1>7. CASE Queued(m, f, "CREDIT_UPDATE")  BY <1>7, MovesRefl DEF EnqueueCredit, Inv
  <1>8. CASE ~ Queued(m, f, "CREDIT_UPDATE")
    <2>1. ~ Queued(n, f, "CREDIT_UPDATE")  BY <1>6, <1>8 DEF Queued
    <2>2. EnqueueCredit(m, f) = EnqueueOnce(n, f, "CREDIT_UPDATE")
      BY <1>8, <2>1 DEF EnqueueCredit, EnqueueOnce, n, d
    <2>3. /\ Inv(EnqueueOnce(n, f, "CREDIT_UPDATE"))
          /\ Moves(n, EnqueueOnce(n, f, "CREDIT_UPDATE"))
      BY <1>5, <1>6, EnqueueOnceInv
    <2> QED  BY <1>5, <2>2, <2>3, MovesTrans, Zenon DEF Inv
  <1> QED  BY <1>7, <1>8

\* maybe_credit: a credit update, or nothing.
LEMMA MaybeCreditInv ==
    ASSUME NEW m, Inv(m), NEW f
    PROVE  LET n == MaybeCredit(m, f) IN Inv(n) /\ Moves(m, n)
  <1>1. Inv(m) /\ Moves(m, m)  BY MovesRefl DEF Inv
  <1>2. ASSUME f \in Live(m) PROVE Inv(EnqueueCredit(m, f)) /\ Moves(m, EnqueueCredit(m, f))
    BY <1>2, CreditInv
  <1> QED  BY <1>1, <1>2, SMTT(30) DEF MaybeCredit

\* flush_conn: what is written leaves to_host and counts as forwarded.
LEMMA WrittenConn ==
    ASSUME NEW c \in ConnType, Window(c), NEW n \in 0 .. Len(c.toHost), NEW ok \in BOOLEAN
    PROVE  LET d == [c EXCEPT !.ok = ok,
                              !.toHost = SubSeq(@, n + 1, Len(@)),
                              !.fwd = Wrap(@ + n)]
           IN  /\ Quiet(c, d) /\ Window(d) /\ Evolves(c, d)
               /\ d.hostWriteShut = c.hostWriteShut
  <1> DEFINE t == SubSeq(c.toHost, n + 1, Len(c.toHost))
             w == Wrap(c.fwd + n)
             d == [c EXCEPT !.ok = ok, !.toHost = t, !.fwd = w]
  <1>0. /\ c.toHost \in Payload /\ Len(c.toHost) \in Nat
        /\ c.received \in Counter /\ c.fwd \in Counter /\ CounterMod \in Nat
    BY Bounds DEF ConnType, Payload
  <1>1. t \in Payload /\ Len(t) = Len(c.toHost) - n
    <2> DEFINE q == c.toHost
    <2>1. q \in Seq({Byte})  BY <1>0 DEF Payload
    <2> HIDE DEF q
    <2>2. n \in 0 .. Len(q)  BY DEF q
    <2>3. SubSeq(q, n + 1, Len(q)) \in Seq({Byte}) /\ Len(SubSeq(q, n + 1, Len(q))) = Len(q) - n
      BY <2>1, <2>2
    <2> QED  BY <2>3 DEF q, Payload
  <1>2. w \in Counter
    <2>1. c.fwd + n \in Int  BY <1>0 DEF Counter
    <2> QED  BY <2>1, WrapRange
  <1>3. Wrap(c.received - w) = Len(c.toHost) - n
    <2>1. n \in Nat /\ n <= Wrap(c.received - c.fwd)  BY <1>0 DEF Window
    <2> QED  BY <1>0, <2>1, Distance DEF Window
  <1> HIDE DEF t, w
  <1>4. /\ Quiet(c, d) /\ d.sent = c.sent /\ d.hostWriteShut = c.hostWriteShut
        /\ d.received = c.received /\ d.fwd = w /\ d.toHost = t
    BY <1>1, <1>2, Zenon DEF ConnType, Quiet
  <1> HIDE DEF d
  <1>5. Window(d)
    <2>1. Len(c.toHost) <= BufAlloc /\ BufAlloc \in Nat  BY Bounds DEF Window
    <2> QED  BY <1>0, <1>1, <1>3, <1>4, <2>1 DEF Window
  <1>6. Evolves(c, d)
    <2>1. Len(d.toHost) <= Len(c.toHost)  BY <1>0, <1>1, <1>4
    <2> QED  BY <1>4, <2>1, QuietEvolves
  <1> QED  BY <1>4, <1>5, <1>6 DEF d, t, w

\* The rest of the record is of no concern to Inv and Moves.
LEMMA SameQueues ==
    ASSUME NEW m, Inv(m), NEW n, IsMux(n), n.conns = m.conns, n.next = m.next,
           n.ctrl = m.ctrl, n.data = m.data
    PROVE  Inv(n) /\ Moves(m, n)
  <1>1. Live(n) = Live(m)  BY DEF Live
  <1>2. TypeOK(n)  BY <1>1, SMTT(30) DEF Inv, TypeOK
  <1>3. Inv(n)  BY <1>1, <1>2 DEF Inv
  <1>4. Moves(m, n)  BY MovesRefl DEF Inv
  <1> QED  BY <1>3, <1>4

\* What was written to a host socket is not part of the state of the mux.
LEMMA OutInv ==
    ASSUME NEW m, Inv(m), NEW o
    PROVE  LET n == [m EXCEPT !.out = o]
           IN  Inv(n) /\ Moves(m, n) /\ n.conns = m.conns
  <1> DEFINE n == [m EXCEPT !.out = o]
  <1>1. /\ IsMux(n)
        /\ n.conns = m.conns /\ n.next = m.next /\ n.ctrl = m.ctrl /\ n.data = m.data
    BY DEF Inv, TypeOK, IsMux
  <1> HIDE DEF n
  <1> QED  BY <1>1, SameQueues, Zenon DEF n

\* flush_conn: the payload, then the stash, then the credit; or a full shutdown.
LEMMA FlushInv ==
    ASSUME NEW m, Inv(m), NEW f \in Flows, NEW room \in Nat
    PROVE  LET n == FlushConn(m, f, room) IN Inv(n) /\ Moves(m, n)
  <1> DEFINE c == m.conns[f]
             okSent == ~ c.ok \/ room > 0
             left == IF c.ok THEN room - 1 ELSE room
             n == IF okSent THEN Least(left, Len(c.toHost)) ELSE 0
             flushed == okSent /\ n = Len(c.toHost)
             written == [c EXCEPT !.ok = ~ okSent,
                                  !.toHost = SubSeq(@, n + 1, Len(@)),
                                  !.fwd = Wrap(@ + n)]
             clean == [written EXCEPT !.hostWriteShut = @ \/ c.peerShutSend, !.pre = <<>>]
             wrote == [m EXCEPT !.out = [ok |-> c.ok /\ okSent, bytes |-> SubSeq(c.toHost, 1, n)]]
             a == PutConn(wrote, f, clean)
             b == PutConn(wrote, f, written)
  <1>1. FlushConn(m, f, room)
            = IF f \notin Live(m) THEN m
              ELSE IF flushed THEN MaybeCredit(Ingest(a, f, c.pre), f)
              ELSE MarkLocalShut(b, f, TRUE, TRUE)
    BY DEF FlushConn
  <1>2. Inv(m) /\ Moves(m, m)  BY MovesRefl DEF Inv
  <1>3. ASSUME f \in Live(m)
        PROVE  /\ LET o == MaybeCredit(Ingest(a, f, c.pre), f) IN Inv(o) /\ Moves(m, o)
               /\ LET o == MarkLocalShut(b, f, TRUE, TRUE) IN Inv(o) /\ Moves(m, o)
    <2>1. c \in ConnType /\ Window(c) /\ c.pre \in Payload  BY <1>3 DEF Inv, TypeOK, ConnType
    <2>2. n \in 0 .. Len(c.toHost) /\ (~ okSent) \in BOOLEAN
      <3>1. Len(c.toHost) \in Nat /\ c.ok \in BOOLEAN  BY <2>1 DEF ConnType, Payload
      <3>2. okSent => left \in Nat  BY <3>1
      <3> HIDE DEF okSent, left
      <3> QED  BY <3>1, <3>2 DEF Least
    <2>3. /\ Quiet(c, written) /\ Window(written) /\ Evolves(c, written)
          /\ written.hostWriteShut = c.hostWriteShut
      <3> HIDE DEF c, okSent, n
      <3> QED  BY <2>1, <2>2, WrittenConn, Zenon
    <2>4. clean \in ConnType /\ Window(clean) /\ Evolves(c, clean)
      <3> DEFINE h == written.hostWriteShut \/ c.peerShutSend
                 e == [written EXCEPT !.hostWriteShut = h, !.pre = <<>>]
      <3>1. h \in BOOLEAN /\ <<>> \in Payload  BY DEF Payload
      <3>2. clean = e  OBVIOUS
      <3> HIDE DEF h, c, written, clean
      <3>3. written \in ConnType  BY <2>3 DEF Quiet
      <3>4. /\ Quiet(written, e) /\ e.sent = written.sent
            /\ e.received = written.received /\ e.fwd = written.fwd /\ e.toHost = written.toHost
        BY <3>1, <3>3, Zenon DEF ConnType, Quiet
      <3> HIDE DEF e
      <3>5. Len(e.toHost) <= Len(written.toHost)  BY <3>3, <3>4 DEF ConnType, Payload
      <3>6. Evolves(written, e) /\ e \in ConnType
        BY <3>3, <3>4, <3>5, QuietEvolves DEF Quiet
      <3>7. Window(e)  BY <2>3, <3>4 DEF Window
      <3>8. Evolves(c, e)  BY <2>1, <2>3, <3>3, <3>6, EvolvesTrans
      <3> QED  BY <3>2, <3>6, <3>7, <3>8
    <2>5. Inv(wrote) /\ Moves(m, wrote) /\ wrote.conns = m.conns  BY OutInv, Zenon
    <2>6. written \in ConnType  BY <2>3 DEF Quiet
    <2> HIDE DEF written, clean, wrote
    <2>7. f \in Live(wrote) /\ wrote.conns[f] = c  BY <1>3, <2>5, SMTT(30) DEF Live
    <2>8. Inv(a) /\ Moves(wrote, a) /\ Inv(b) /\ Moves(wrote, b)
      BY <2>3, <2>4, <2>5, <2>6, <2>7, PutMoves
    <2> HIDE DEF a, b
    <2>9. Moves(m, a) /\ Moves(m, b)  BY <2>5, <2>8, MovesTrans, Zenon DEF Inv
    <2> DEFINE i == Ingest(a, f, c.pre)
    <2>10. Inv(i) /\ Moves(a, i)  BY <2>1, <2>8, IngestInv
    <2> HIDE DEF i
    <2>11. Moves(m, i)  BY <2>8, <2>9, <2>10, MovesTrans, Zenon DEF Inv
    <2>12. Inv(MaybeCredit(i, f)) /\ Moves(i, MaybeCredit(i, f))  BY <2>10, MaybeCreditInv
    <2>13. Moves(m, MaybeCredit(i, f))  BY <2>10, <2>11, <2>12, MovesTrans, Zenon DEF Inv
    <2>14. /\ Inv(MarkLocalShut(b, f, TRUE, TRUE))
           /\ Moves(b, MarkLocalShut(b, f, TRUE, TRUE))
      BY <2>8, MarkShutInv, Zenon
    <2>15. Moves(m, MarkLocalShut(b, f, TRUE, TRUE))  BY <2>8, <2>9, <2>14, MovesTrans, Zenon DEF Inv
    <2> QED  BY <2>12, <2>13, <2>14, <2>15, Zenon DEF i
  <1> HIDE DEF a, b, flushed
  <1> QED  BY <1>1, <1>2, <1>3, Zenon

------------------------------------------------------------------------------
(* Packets from the guest *)

\* on_response.
LEMMA ResponseInv ==
    ASSUME NEW m, Inv(m), NEW f \in Live(m), NEW room \in Nat
    PROVE  LET n == OnResponse(m, f, room) IN Inv(n) /\ Moves(m, n)
  <1> DEFINE c == m.conns[f]
             d == [c EXCEPT !.phase = "Established", !.expiry = FALSE, !.ok = TRUE]
             a == PutConn(m, f, d)
  <1>1. OnResponse(m, f, room) = IF c.phase # "WaitGuest" THEN m ELSE FlushConn(a, f, room)
    BY DEF OnResponse
  <1>2. Inv(m) /\ Moves(m, m)  BY MovesRefl DEF Inv
  <1>3. c \in ConnType /\ Window(c) /\ f \in Flows  BY DEF Inv, TypeOK
  <1>4. ASSUME c.phase = "WaitGuest"
        PROVE  Inv(FlushConn(a, f, room)) /\ Moves(m, FlushConn(a, f, room))
    <2>1. /\ d \in ConnType
          /\ d.phase = "Established" /\ d.connecting = c.connecting
          /\ d.peerBuf = c.peerBuf /\ d.peerFwd = c.peerFwd /\ d.sent = c.sent
          /\ d.localShutSend = c.localShutSend /\ d.localShutRecv = c.localShutRecv
          /\ d.peerShutRecv = c.peerShutRecv
          /\ d.received = c.received /\ d.fwd = c.fwd /\ d.toHost = c.toHost
      <3> HIDE DEF c
      <3> QED  BY <1>3, Zenon DEF ConnType
    <2> HIDE DEF d
    <2>2. Window(d) /\ Evolves(c, d)
      <3> HIDE DEF c
      <3>1. Keeps(c, d)  BY <2>1 DEF Keeps
      <3>2. Deadline(c) => Deadline(d)  BY <1>4, <2>1, SMTT(30) DEF Deadline, ShutSend
      <3> QED  BY <1>3, <2>1, <3>1, <3>2 DEF Window, Evolves
    <2>3. Inv(a) /\ Moves(m, a)  BY <2>1, <2>2, PutMoves
    <2> HIDE DEF a
    <2>4. Inv(FlushConn(a, f, room)) /\ Moves(a, FlushConn(a, f, room))
      BY <1>3, <2>3, FlushInv
    <2> QED  BY <2>3, <2>4, MovesTrans, Zenon DEF Inv
  <1> HIDE DEF a, c
  <1> QED  BY <1>1, <1>2, <1>4

\* on_shutdown.
LEMMA ShutdownInv ==
    ASSUME NEW m, Inv(m), NEW f \in Live(m), NEW flags, NEW room \in Nat
    PROVE  LET n == OnShutdown(m, f, flags, room) IN Inv(n) /\ Moves(m, n)
  <1> DEFINE c == m.conns[f]
             x == c.peerShutRecv \/ "recv" \in flags
             y == c.localShutSend \/ "recv" \in flags
             z == c.peerShutSend \/ "send" \in flags
             d == [c EXCEPT !.peerShutRecv = x, !.localShutSend = y, !.peerShutSend = z]
             a == PutConn(m, f, d)
  <1>1. OnShutdown(m, f, flags, room) = FlushConn(a, f, room)  BY DEF OnShutdown
  <1>2. c \in ConnType /\ Window(c) /\ f \in Flows  BY DEF Inv, TypeOK
  <1>3. /\ x \in BOOLEAN /\ y \in BOOLEAN /\ z \in BOOLEAN /\ (c.localShutSend => y)
        /\ y /\ ~ x => ShutSend(c)
    BY DEF ShutSend
  <1> HIDE DEF x, y, z
  <1>4. /\ d \in ConnType
        /\ d.phase = c.phase /\ d.connecting = c.connecting /\ d.expiry = c.expiry
        /\ d.peerBuf = c.peerBuf /\ d.peerFwd = c.peerFwd /\ d.sent = c.sent
        /\ d.localShutSend = y /\ d.localShutRecv = c.localShutRecv /\ d.peerShutRecv = x
        /\ d.received = c.received /\ d.fwd = c.fwd /\ d.toHost = c.toHost
    <2> HIDE DEF c
    <2> QED  BY <1>2, <1>3, ZenonT(40) DEF ConnType
  <1> HIDE DEF d
  <1>5. Window(d) /\ Evolves(c, d)
    <2> HIDE DEF c
    <2>1. Keeps(c, d)  BY <1>3, <1>4 DEF Keeps
    <2>2. Deadline(c) => Deadline(d)  BY <1>3, <1>4 DEF Deadline, ShutSend
    <2>3. ~ (Len(d.toHost) > Len(c.toHost))  BY <1>2, <1>4, SMTT(30) DEF ConnType, Payload
    <2> QED  BY <1>2, <1>4, <2>1, <2>2, <2>3 DEF Window, Evolves
  <1>6. Inv(a) /\ Moves(m, a)  BY <1>4, <1>5, PutMoves
  <1> HIDE DEF a
  <1>7. Inv(FlushConn(a, f, room)) /\ Moves(a, FlushConn(a, f, room))
    BY <1>2, <1>6, FlushInv
  <1> QED  BY <1>1, <1>6, <1>7, MovesTrans, Zenon DEF Inv

\* on_rw: what is taken fits the window.
LEMMA RwInv ==
    ASSUME NEW m, Inv(m), NEW f \in Live(m), NEW bytes \in Payload, NEW room \in Nat
    PROVE  LET n == OnRw(m, f, bytes, room) IN Inv(n) /\ Moves(m, n)
  <1> DEFINE c == m.conns[f]
             accept == c.phase = "Established" /\ ~ c.localShutRecv /\ ~ c.peerShutSend
             k == Len(bytes)
             w == Wrap(c.received + k)
             t == c.toHost \o bytes
             d == [c EXCEPT !.received = w, !.toHost = t]
             a == PutConn(m, f, d)
  <1>1. OnRw(m, f, bytes, room)
            = IF bytes = <<>> \/ ~ accept THEN m
              ELSE IF k > LocalFree(c) THEN DropConn(m, f, TRUE)
              ELSE FlushConn(a, f, room)
    BY SMTT(30) DEF OnRw
  <1>2. Inv(m) /\ Moves(m, m)  BY MovesRefl, SMTT(30) DEF Inv
  <1>3. c \in ConnType /\ Window(c) /\ f \in Flows  BY DEF Inv, TypeOK
  <1>4. Inv(DropConn(m, f, TRUE)) /\ Moves(m, DropConn(m, f, TRUE))  BY <1>3, DropInv, Zenon
  <1>5. ASSUME bytes # <<>>, accept, ~ (k > LocalFree(c))
        PROVE  Inv(FlushConn(a, f, room)) /\ Moves(m, FlushConn(a, f, room))
    <2>0. /\ c.toHost \in Payload /\ Len(c.toHost) \in Nat /\ k \in Nat /\ k > 0
          /\ c.received \in Counter /\ c.fwd \in Counter
          /\ CounterMod \in Nat /\ BufAlloc \in Nat /\ BufAlloc < CounterMod
      <3>1. c.toHost \in Payload /\ c.received \in Counter /\ c.fwd \in Counter
        BY <1>3 DEF ConnType
      <3> HIDE DEF c
      <3>2. Len(c.toHost) \in Nat /\ k \in Nat /\ k > 0  BY <1>5, <3>1 DEF Payload
      <3> QED  BY <3>1, <3>2, Bounds
    <2>1. Len(c.toHost) + k <= BufAlloc
      <3>1. Wrap(c.received - c.fwd) = Len(c.toHost) /\ Len(c.toHost) <= BufAlloc
        BY <1>3 DEF Window
      <3>2. LocalFree(c) = IF Len(c.toHost) < BufAlloc THEN BufAlloc - Len(c.toHost) ELSE 0
        BY <3>1 DEF LocalFree
      <3> QED  BY <1>5, <2>0, <3>1, <3>2, SMTT(30)
    <2>2. t \in Payload /\ Len(t) = Len(c.toHost) + k
      <3> DEFINE q == c.toHost
      <3>1. q \in Seq({Byte}) /\ bytes \in Seq({Byte})  BY <2>0 DEF Payload
      <3> HIDE DEF q
      <3>2. q \o bytes \in Seq({Byte}) /\ Len(q \o bytes) = Len(q) + Len(bytes)  BY <3>1
      <3> QED  BY <3>2 DEF q, Payload
    <2>3. w \in Counter
      <3>1. c.received + k \in Int  BY <2>0, SMTT(30) DEF Counter
      <3> QED  BY <3>1, WrapRange
    <2>4. Wrap(w - c.fwd) = Len(t)
      <3>1. Wrap(c.received - c.fwd) = Len(c.toHost)  BY <1>3 DEF Window
      <3>2. Wrap(c.received - c.fwd) + k < CounterMod  BY <2>0, <2>1, <3>1
      <3> HIDE DEF k
      <3> QED  BY <2>0, <2>2, <3>1, <3>2, Distance, SMTT(30)
    <2> HIDE DEF w, t
    <2>5. /\ d \in ConnType
          /\ d.phase = c.phase /\ d.connecting = c.connecting /\ d.expiry = c.expiry
          /\ d.peerBuf = c.peerBuf /\ d.peerFwd = c.peerFwd /\ d.sent = c.sent
          /\ d.localShutSend = c.localShutSend /\ d.localShutRecv = c.localShutRecv
          /\ d.peerShutRecv = c.peerShutRecv
          /\ d.received = w /\ d.fwd = c.fwd /\ d.toHost = t
      <3> HIDE DEF c
      <3> QED  BY <1>3, <2>2, <2>3, Zenon DEF ConnType
    <2> HIDE DEF d
    <2>6. Window(d)  BY <2>1, <2>2, <2>4, <2>5, SMTT(30) DEF Window
    <2>7. Evolves(c, d)
      <3>1. c.phase = "Established"  BY <1>5, SMTT(30)
      <3> HIDE DEF c
      <3>2. Keeps(c, d)  BY <2>5 DEF Keeps
      <3>3. Deadline(c) => Deadline(d)  BY <2>5, SMTT(30) DEF Deadline, ShutSend
      <3> QED  BY <2>5, <3>1, <3>2, <3>3, SMTT(30) DEF Evolves
    <2>8. Inv(a) /\ Moves(m, a)  BY <2>5, <2>6, <2>7, PutMoves
    <2> HIDE DEF a
    <2>9. Inv(FlushConn(a, f, room)) /\ Moves(a, FlushConn(a, f, room))
      BY <1>3, <2>8, FlushInv, SMTT(30)
    <2> QED  BY <2>8, <2>9, MovesTrans, Zenon DEF Inv
  <1> HIDE DEF a, accept, k
  <1> QED  BY <1>1, <1>2, <1>4, <1>5, Zenon

------------------------------------------------------------------------------
(* Actions *)

\* What an action may do to a connection that is there before and after.
Responds(m, n) ==
    \A f \in Live(m) \cap Live(n) :
        LET c == m.conns[f]
            d == n.conns[f]
        IN  /\ d.sent = c.sent \/ Wrap(d.sent - d.peerFwd) <= d.peerBuf
            /\ Count(n, f) > Count(m, f) \/ Len(d.toHost) > Len(c.toHost)
                  => d.phase = "Established"
            /\ Count(n, f) > Count(m, f) => ~ (c.localShutSend /\ d.localShutSend)
            /\ Deadline(c) => Deadline(d)

\* A connection that is new has the deadline it needs.
OpensTimed(m, n) == \A f \in Live(n) \ Live(m) : Deadline(n.conns[f])

\* Handlers that open nothing.
LEMMA MovesResponds ==
    ASSUME NEW m, NEW n, Moves(m, n)
    PROVE  Responds(m, n) /\ OpensTimed(m, n)
  BY DEF Moves, Evolves, Keeps, Responds, OpensTimed

\* handle_guest_pkt notes the credit before it looks at the packet.
LEMMA PeerStep ==
    ASSUME NEW m, Inv(m), NEW f \in Live(m), NEW buf \in Counter, NEW fwd \in Counter
    PROVE  LET m1 == PutConn(m, f, [m.conns[f] EXCEPT !.peerBuf = buf, !.peerFwd = fwd])
           IN  /\ Inv(m1) /\ f \in Live(m1)
               /\ \A n : Moves(m1, n) => Responds(m, n) /\ OpensTimed(m, n)
  <1> DEFINE c == m.conns[f]
             d == [c EXCEPT !.peerBuf = buf, !.peerFwd = fwd]
             m1 == PutConn(m, f, d)
  <1>1. c \in ConnType /\ Window(c) /\ f \in Flows  BY Zenon DEF Inv, TypeOK
  <1>2. /\ d \in ConnType
        /\ d.phase = c.phase /\ d.connecting = c.connecting /\ d.expiry = c.expiry
        /\ d.sent = c.sent
        /\ d.localShutSend = c.localShutSend /\ d.localShutRecv = c.localShutRecv
        /\ d.peerShutRecv = c.peerShutRecv
        /\ d.received = c.received /\ d.fwd = c.fwd /\ d.toHost = c.toHost
    <2> HIDE DEF c
    <2> QED  BY <1>1, Zenon DEF ConnType
  <1> HIDE DEF d
  <1>3. Window(d) /\ Keeps(c, d) /\ (Deadline(c) => Deadline(d))
    <2> HIDE DEF c
    <2> QED  BY <1>1, <1>2 DEF Window, Keeps, Deadline, ShutSend
  <1>4. Inv(m1)  BY <1>1, <1>2, <1>3, PutInv, SMTT(30)
  <1>5. /\ Live(m1) = Live(m) /\ m1.data = m.data /\ m1.conns[f] = d
        /\ \A g \in Live(m) : g # f => m1.conns[g] = m.conns[g]
    <2>1. Live(m) \cup {f} = Live(m)
      <3> DEFINE L == Live(m)
      <3> HIDE DEF L
      <3>1. L \cup {f} = L  BY SMTT(30) DEF L
      <3> QED  BY <3>1 DEF L
    <2>2. IsMux(m)  BY DEF Inv, TypeOK
    <2>3. /\ Live(m1) = Live(m) \cup {f} /\ m1.data = m.data /\ m1.conns[f] = d
          /\ \A g \in Live(m) : g # f => m1.conns[g] = m.conns[g]
      BY <2>2, PutFields
    <2> QED  BY <2>1, <2>3
  <1> HIDE DEF m1
  <1>6. \A g : Count(m1, g) = Count(m, g)  BY <1>5 DEF Count, DataOf
  <1>7. ASSUME NEW n, Moves(m1, n) PROVE Responds(m, n) /\ OpensTimed(m, n)
    <2>1. Responds(m1, n) /\ OpensTimed(m1, n)  BY <1>7, MovesResponds, SMTT(30)
    <2>2. ASSUME NEW g \in Live(m) \cap Live(n)
          PROVE  /\ m1.conns[g].sent = m.conns[g].sent
                 /\ m1.conns[g].toHost = m.conns[g].toHost
                 /\ m1.conns[g].localShutSend = m.conns[g].localShutSend
                 /\ Deadline(m.conns[g]) => Deadline(m1.conns[g])
      <3>1. CASE g = f  BY <1>2, <1>3, <1>5, <3>1, SMTT(30)
      <3>2. CASE g # f  BY <1>5, <3>2, SMTT(30)
      <3> QED  BY <3>1, <3>2, SMTT(30)
    <2>3. Responds(m, n)  BY <1>5, <1>6, <2>1, <2>2 DEF Responds
    <2>4. OpensTimed(m, n)  BY <1>5, <2>1, SMTT(30) DEF OpensTimed
    <2> QED  BY <2>3, <2>4
  <1> QED  BY <1>4, <1>5, <1>7 DEF m1, d

\* on_guest_request.
LEMMA RequestInv ==
    ASSUME NEW m, Inv(m), NEW f \in Flows, NEW h, h.buf \in Counter, h.fwd \in Counter,
           NEW connect
    PROVE  LET n == OnGuestRequest(m, f, h, connect)
           IN  /\ Inv(n) /\ Responds(m, n)
               /\ connect \in {"done", "fail"} => OpensTimed(m, n)
  <1> DEFINE e == [NewConn("Established") EXCEPT !.peerBuf = h.buf, !.peerFwd = h.fwd]
             w == [e EXCEPT !.connecting = TRUE, !.expiry = TRUE]
             a == PutConn(m, f, e)
             p == Ctrl(f, "RESPONSE")
             b == PutConn(m, f, w)
  <1>1. OnGuestRequest(m, f, h, connect)
            = IF f \in Live(m) THEN DropConn(m, f, TRUE)
              ELSE IF h.data # <<>> \/ connect = "fail" THEN EnqueueRst(m, f)
              ELSE IF connect = "done" THEN Enqueue(a, p) ELSE b
    BY DEF OnGuestRequest
  <1>2. /\ Inv(DropConn(m, f, TRUE)) /\ Moves(m, DropConn(m, f, TRUE))
        /\ Inv(EnqueueRst(m, f)) /\ Moves(m, EnqueueRst(m, f))
    BY DropInv, EnqueueRstInv, Zenon
  <1>3. ASSUME f \notin Live(m)
        PROVE  /\ Inv(Enqueue(a, p)) /\ Responds(m, Enqueue(a, p)) /\ OpensTimed(m, Enqueue(a, p))
               /\ Inv(b) /\ Responds(m, b)
    <2>1. /\ e \in ConnType /\ ~ e.connecting /\ e.phase = "Established"
          /\ ~ e.localShutRecv /\ ~ e.localShutSend
          /\ e.received = 0 /\ e.fwd = 0 /\ e.toHost = <<>>
      <3>1. 0 \in Counter /\ <<>> \in Payload  BY Bounds DEF Counter, Payload
      <3> HIDE DEF Counter, Payload
      <3> QED  BY <3>1, Zenon DEF NewConn, ConnType
    <2> HIDE DEF e
    <2>2. w \in ConnType /\ w.received = 0 /\ w.fwd = 0 /\ w.toHost = <<>>
      BY <2>1, Zenon DEF ConnType
    <2> HIDE DEF w
    <2>3. Wrap(0 - 0) = 0 /\ Len(<<>>) = 0 /\ 0 <= BufAlloc
      <3>1. 0 - 0 = 0 /\ 0 < CounterMod /\ 0 <= BufAlloc  BY Bounds
      <3> QED  BY <3>1, WrapRange
    <2>4. Window(e) /\ Window(w)  BY <2>1, <2>2, <2>3, SMTT(30) DEF Window
    <2>5. Inv(a) /\ Inv(b)  BY <1>3, <2>1, <2>2, <2>4, PutInv, SMTT(30)
    <2>6. /\ Live(a) = Live(m) \cup {f} /\ a.conns[f] = e /\ a.data = m.data /\ a.ctrl = m.ctrl
          /\ \A g \in Live(m) : g # f => a.conns[g] = m.conns[g]
          /\ Live(b) = Live(m) \cup {f} /\ b.data = m.data
          /\ \A g \in Live(m) : g # f => b.conns[g] = m.conns[g]
      <3>1. IsMux(m)  BY Zenon DEF Inv, TypeOK
      <3> QED  BY <3>1, PutFields
    <2> HIDE DEF a, b
    <2>7. /\ \A g : Count(a, g) = Count(m, g) /\ Count(b, g) = Count(m, g)
          /\ \A g : Count(m, g) \in Nat
      <3>1. TypeOK(m)  BY Zenon DEF Inv
      <3>2. \A g : Count(m, g) \in Nat  BY <3>1, CountNat, Zenon
      <3>3. \A g : Count(a, g) = Count(m, g) /\ Count(b, g) = Count(m, g)
        BY <2>6, Zenon DEF Count, DataOf
      <3> QED  BY <3>2, <3>3, Zenon
    <2>8. ASSUME NEW g \in Live(m) PROVE Len(m.conns[g].toHost) \in Nat
      <3>1. m.conns[g] \in ConnType  BY Zenon DEF Inv, TypeOK
      <3> QED  BY <3>1 DEF ConnType, Payload
    <2>9. Responds(m, a) /\ Responds(m, b)  BY <1>3, <2>6, <2>7, <2>8, SMTT(30) DEF Responds
    <2>10. p \in Packet /\ p.flow = f /\ p.op = "RESPONSE"  BY CtrlPacket DEF Ctrl, Ops
    <2> HIDE DEF p
    <2>11. \A i \in 1 .. Len(a.ctrl) : ~ Clash(a.ctrl[i], p)
      BY <1>3, <2>6, <2>10, Zenon DEF Inv, Clash
    <2>12. Inv(Enqueue(a, p)) /\ Moves(a, Enqueue(a, p))
      BY <2>1, <2>5, <2>6, <2>10, <2>11, EnqueueInv, Zenon DEF Fits
    <2>13. (Enqueue(a, p)).conns = a.conns /\ (Enqueue(a, p)).data = a.data
      BY <2>5, <2>10 DEF Inv, TypeOK, IsMux, Enqueue
    <2>14. Responds(m, Enqueue(a, p))
      <3> DEFINE n == Enqueue(a, p)
      <3>1. n.conns = a.conns /\ Live(n) = Live(a) /\ \A g : Count(n, g) = Count(a, g)
        BY <2>13 DEF Live, Count, DataOf
      <3> HIDE DEF n
      <3> QED  BY <2>9, <3>1, Zenon DEF Responds, n
    <2>15. OpensTimed(m, Enqueue(a, p))
      BY <2>1, <2>6, <2>13, Zenon DEF OpensTimed, Deadline, ShutSend, Live
    <2> QED  BY <2>5, <2>9, <2>12, <2>14, <2>15, SMTT(30)
  <1> HIDE DEF a, b, p
  <1>4. CASE f \in Live(m) \/ h.data # <<>> \/ connect = "fail"
    BY <1>1, <1>2, <1>4, MovesResponds, Zenon
  <1>5. CASE ~ (f \in Live(m) \/ h.data # <<>> \/ connect = "fail")
    BY <1>1, <1>3, <1>5, Zenon
  <1> QED  BY <1>4, <1>5

\* handle_guest_pkt, for any packet.
LEMMA GuestPktInv ==
    ASSUME NEW m, Inv(m), NEW h, h.flow \in Flows, h.buf \in Counter, h.fwd \in Counter,
           h.data \in Payload, NEW connect, NEW room \in Nat
    PROVE  LET n == HandleGuestPkt(m, h, connect, room)
           IN  /\ Inv(n) /\ Responds(m, n)
               /\ connect \in {"done", "fail"} => OpensTimed(m, n)
  <1> DEFINE f == h.flow
             known == f \in Live(m)
             m1 == PutConn(m, f, [m.conns[f] EXCEPT !.peerBuf = h.buf, !.peerFwd = h.fwd])
             n == HandleGuestPkt(m, h, connect, room)
             Good(o) == Inv(o) /\ Responds(m, o) /\ OpensTimed(m, o)
  <1>1. Good(m) /\ Good(EnqueueRst(m, f))
    <2>1. Moves(m, m)  BY MovesRefl DEF Inv
    <2>2. Inv(EnqueueRst(m, f)) /\ Moves(m, EnqueueRst(m, f))  BY EnqueueRstInv, SMTT(30)
    <2> QED  BY <2>1, <2>2, MovesResponds, Zenon
  <1>2. LET o == OnGuestRequest(m, f, h, connect)
        IN  /\ Inv(o) /\ Responds(m, o)
            /\ connect \in {"done", "fail"} => OpensTimed(m, o)
    BY RequestInv
  <1>3. ASSUME known
        PROVE  /\ Good(m1)
               /\ Good(OnResponse(m1, f, room))
               /\ Good(DropConn(m1, f, FALSE))
               /\ Good(DropConn(m1, f, TRUE))
               /\ Good(OnShutdown(m1, f, h.flags, room))
               /\ Good(OnRw(m1, f, h.data, room))
               /\ Good(EnqueueCredit(m1, f))
    <2>1. Inv(m1) /\ f \in Live(m1) /\ \A o : Moves(m1, o) => Responds(m, o) /\ OpensTimed(m, o)
      BY <1>3, PeerStep, Zenon
    <2> HIDE DEF m1
    <2>2. \A o : Inv(o) /\ Moves(m1, o) => Good(o)  BY <2>1
    <2> HIDE DEF Good
    <2>3. Good(m1)
      <3>1. Moves(m1, m1)  BY <2>1, MovesRefl, Zenon DEF Inv
      <3> QED  BY <2>1, <2>2, <3>1, ZenonT(40)
    <2>4. Good(OnResponse(m1, f, room))  BY <2>1, <2>2, ResponseInv
    <2>5. Good(DropConn(m1, f, FALSE)) /\ Good(DropConn(m1, f, TRUE))  BY <2>1, <2>2, DropInv, Zenon
    <2>6. Good(OnShutdown(m1, f, h.flags, room))  BY <2>1, <2>2, ShutdownInv, SMTT(30)
    <2>7. Good(OnRw(m1, f, h.data, room))  BY <2>1, <2>2, RwInv, SMTT(30)
    <2>8. Good(EnqueueCredit(m1, f))  BY <2>1, <2>2, CreditInv
    <2> QED  BY <2>3, <2>4, <2>5, <2>6, <2>7, <2>8, Zenon
  <1>4. \/ n = m
        \/ n = EnqueueRst(m, f)
        \/ n = OnGuestRequest(m, f, h, connect)
        \/ /\ known
           /\ \/ n = m1
              \/ n = OnResponse(m1, f, room)
              \/ n = DropConn(m1, f, FALSE)
              \/ n = DropConn(m1, f, TRUE)
              \/ n = OnShutdown(m1, f, h.flags, room)
              \/ n = OnRw(m1, f, h.data, room)
              \/ n = EnqueueCredit(m1, f)
    BY Zenon DEF HandleGuestPkt
  <1> HIDE DEF n, m1
  <1> QED  BY <1>1, <1>2, <1>3, <1>4, Zenon DEF n

------------------------------------------------------------------------------
(* Host sockets *)

\* on_host_eof and read_conn.
LEMMA ReadInv ==
    ASSUME NEW m, Inv(m), NEW f \in Flows, NEW rd,
           rd.kind \in {"data", "eof", "again", "error"},
           rd.kind = "data" => rd.bytes \in Payload
    PROVE  LET n == ReadConn(m, f, rd) IN Inv(n) /\ Moves(m, n)
  <1> DEFINE n == ReadConn(m, f, rd)
  <1>1. CASE rd.kind = "data"
    <2>1. n = Ingest(m, f, rd.bytes)  BY <1>1 DEF ReadConn
    <2> QED  BY <1>1, <2>1, IngestInv
  <1>2. CASE rd.kind = "eof"
    <2>1. n = DropConn(m, f, TRUE) \/ n = MarkLocalShut(m, f, FALSE, TRUE)
      BY <1>2, Zenon DEF ReadConn, OnHostEof
    <2> QED  BY <2>1, DropInv, MarkShutInv, Zenon
  <1>3. CASE rd.kind = "again"
    <2>1. n = m  BY <1>3 DEF ReadConn
    <2> QED  BY <2>1, MovesRefl, Zenon DEF Inv
  <1>4. CASE rd.kind = "error"
    <2>1. n = MarkLocalShut(m, f, TRUE, TRUE)  BY <1>4 DEF ReadConn
    <2> QED  BY <2>1, MarkShutInv, Zenon
  <1> QED  BY <1>1, <1>2, <1>3, <1>4, SMTT(30)

\* finish_connect: the RESPONSE follows a connect that was pending.
LEMMA ConnectInv ==
    ASSUME NEW m, Inv(m), NEW f \in Live(m), m.conns[f].connecting, NEW ok \in BOOLEAN
    PROVE  LET n == FinishConnect(m, f, ok) IN Inv(n) /\ Moves(m, n)
  <1> DEFINE c == m.conns[f]
             d == [c EXCEPT !.connecting = FALSE, !.expiry = FALSE]
             a == PutConn(m, f, d)
             p == Ctrl(f, "RESPONSE")
  <1>1. c \in ConnType /\ Window(c) /\ f \in Flows  BY DEF Inv, TypeOK
  <1>2. CASE ~ ok
    <2>1. FinishConnect(m, f, ok) = DropConn(m, f, TRUE)  BY <1>2 DEF FinishConnect
    <2> QED  BY <1>1, <2>1, DropInv, Zenon
  <1>3. CASE ok
    <2>1. /\ d \in ConnType /\ ~ d.connecting /\ d.phase = c.phase
          /\ d.peerBuf = c.peerBuf /\ d.peerFwd = c.peerFwd /\ d.sent = c.sent
          /\ d.localShutSend = c.localShutSend /\ d.localShutRecv = c.localShutRecv
          /\ d.peerShutRecv = c.peerShutRecv
          /\ d.received = c.received /\ d.fwd = c.fwd /\ d.toHost = c.toHost
      <3> HIDE DEF c
      <3> QED  BY <1>1, Zenon DEF ConnType
    <2> HIDE DEF d
    <2>2. Window(d) /\ Evolves(c, d)
      <3>1. ~ Deadline(c)  BY DEF Deadline
      <3> HIDE DEF c
      <3>2. Keeps(c, d)  BY <2>1 DEF Keeps
      <3>3. Len(c.toHost) \in Nat  BY <1>1 DEF ConnType, Payload
      <3>4. ~ (Len(d.toHost) > Len(c.toHost))
        <4>1. Len(d.toHost) = Len(c.toHost)  BY <2>1, Zenon
        <4> QED  BY <3>3, <4>1
      <3> QED  BY <1>1, <2>1, <3>1, <3>2, <3>4, Zenon DEF Window, Evolves
    <2>3. Inv(a) /\ Moves(m, a)  BY <2>1, <2>2, PutMoves, SMTT(30)
    <2>4. a.ctrl = m.ctrl /\ f \in Live(a) /\ a.conns[f] = d
      <3>1. IsMux(m)  BY Zenon DEF Inv, TypeOK
      <3>2. a.ctrl = m.ctrl /\ a.conns[f] = d /\ Live(a) = Live(m) \cup {f}
        BY <3>1, PutFields, SMTT(30)
      <3> QED  BY <3>2
    <2> HIDE DEF a
    <2>5. p \in Packet /\ p.flow = f /\ p.op = "RESPONSE"  BY <1>1, CtrlPacket DEF Ctrl, Ops
    <2> HIDE DEF p
    <2>6. \A i \in 1 .. Len(a.ctrl) : ~ Clash(a.ctrl[i], p)
      BY <2>4, <2>5, ZenonT(40) DEF Inv, Clash, Fits
    <2>7. Inv(Enqueue(a, p)) /\ Moves(a, Enqueue(a, p))
      BY <2>1, <2>3, <2>4, <2>5, <2>6, EnqueueInv, SMTT(30) DEF Fits
    <2>8. FinishConnect(m, f, ok) = Enqueue(a, p)  BY <1>3, Zenon DEF FinishConnect, a, d, p
    <2> QED  BY <2>3, <2>7, <2>8, MovesTrans, Zenon DEF Inv
  <1> QED  BY <1>2, <1>3, SMTT(30)

\* on_fd for a stream.
LEMMA FdInv ==
    ASSUME NEW m, Inv(m), NEW f \in Live(m), NEW ev,
           ev.rd.kind \in {"data", "eof", "again", "error"},
           ev.rd.kind = "data" => ev.rd.bytes \in Payload,
           ev.connected \in BOOLEAN, ev.room \in Nat
    PROVE  LET n == OnFd(m, f, ev) IN Inv(n) /\ Moves(m, n)
  <1> DEFINE m1 == IF ev.readable THEN ReadConn(m, f, ev.rd) ELSE m
             w == OnWritable(m1, f, ev.connected, ev.room)
  <1>0. f \in Flows  BY DEF Inv, TypeOK
  <1>1. Inv(m1) /\ Moves(m, m1)
    <2>1. Inv(m) /\ Moves(m, m)  BY MovesRefl, SMTT(30) DEF Inv
    <2>2. LET n == ReadConn(m, f, ev.rd) IN Inv(n) /\ Moves(m, n)  BY <1>0, ReadInv, SMTT(30)
    <2> QED  BY <2>1, <2>2, SMTT(30)
  <1>2. OnFd(m, f, ev) = IF f \in Live(m1) /\ ev.writable THEN w ELSE m1  BY DEF OnFd
  <1> HIDE DEF m1
  <1>3. ASSUME f \in Live(m1) PROVE Inv(w) /\ Moves(m1, w)
    <2>1. CASE m1.conns[f].connecting
      <3>1. w = FinishConnect(m1, f, ev.connected)  BY <2>1, SMTT(30) DEF OnWritable
      <3> QED  BY <1>1, <1>3, <2>1, <3>1, ConnectInv, SMTT(30)
    <2>2. CASE ~ m1.conns[f].connecting
      <3>1. w = FlushConn(m1, f, ev.room)  BY <2>2 DEF OnWritable
      <3> QED  BY <1>0, <1>1, <3>1, FlushInv, SMTT(30)
    <2> QED  BY <2>1, <2>2, SMTT(30)
  <1> HIDE DEF w
  <1>4. f \in Live(m1) => Moves(m, w)  BY <1>1, <1>3, MovesTrans, Zenon DEF Inv
  <1> QED  BY <1>1, <1>2, <1>3, <1>4, SMTT(30)

------------------------------------------------------------------------------
(* Host ports *)

\* The ports tried follow one another in the range of host ports.
LEMMA NextPortIn ==
    ASSUME NEW p \in HostPorts
    PROVE  NextPort(p) \in HostPorts
  <1>1. PICK last \in HostPorts :
          \A q \in HostPorts : q = last \/ (q < last /\ q + 1 \in HostPorts)
    BY VsockMuxAssumption
  <1>2. \A q \in HostPorts : q \in Nat /\ q <= last
    <2>1. \A q \in HostPorts : q \in Nat  BY VsockMuxAssumption
    <2> QED  BY <1>1, <2>1
  <1>3. LastPort \in HostPorts /\ \A q \in HostPorts : q <= LastPort
    BY <1>1, <1>2 DEF LastPort
  <1>4. LastPort = last
    <2>1. LastPort <= last /\ last <= LastPort /\ LastPort \in Nat /\ last \in Nat
      BY <1>2, <1>3
    <2> QED  BY <2>1
  <1> QED  BY <1>1, <1>4, VsockMuxAssumption DEF NextPort

\* k[i] is the port tried after i others, for i <= n.
Tries(k, p, n) ==
    k[0] = p /\ \A i \in 1 .. n : k[i] = NextPort(k[i - 1])

\* The ports alloc_host_port tries exist: its loop is well defined.
LEMMA TriesExist ==
    ASSUME NEW p \in HostPorts
    PROVE  \E k \in [0 .. PortTries -> HostPorts] : Tries(k, p, PortTries)
  <1> DEFINE N == PortTries
             K == [0 .. N -> HostPorts]
             T == {n \in 0 .. N : \E k \in K : Tries(k, p, n)}
  <1>0. N \in Nat /\ N \in 0 .. N /\ 0 \in 0 .. N  BY VsockMuxAssumption
  <1>1. 0 \in T
    <2>1. [i \in 0 .. N |-> p] \in K  OBVIOUS
    <2>2. Tries([i \in 0 .. N |-> p], p, 0)  BY <1>0 DEF Tries
    <2> QED  BY <1>0, <2>1, <2>2
  <1>2. ASSUME NEW n \in 0 .. N, n \in T, n < N PROVE n + 1 \in T
    <2>1. PICK k \in K : Tries(k, p, n)  BY <1>2
    <2> DEFINE e == NextPort(k[n])
               l == [k EXCEPT ![n + 1] = e]
    <2>2. e \in HostPorts  BY <2>1, NextPortIn
    <2> HIDE DEF e
    <2>3. l \in K /\ n + 1 \in 0 .. N  BY <1>0, <1>2, <2>1, <2>2, SMTT(30)
    <2>4. l[n + 1] = e /\ \A i \in 0 .. n : l[i] = k[i]  BY <1>0, <1>2, <2>1, SMTT(30)
    <2> HIDE DEF l
    <2>5. Tries(l, p, n + 1)
      <3>1. l[0] = p  BY <1>0, <1>2, <2>1, <2>4, SMTT(30) DEF Tries
      <3>2. ASSUME NEW i \in 1 .. n + 1 PROVE l[i] = NextPort(l[i - 1])
        <4>1. CASE i = n + 1
          <5>1. i - 1 = n /\ n \in 0 .. n  BY <1>0, <4>1, SMTT(30)
          <5> QED  BY <2>4, <4>1, <5>1, SMTT(30) DEF e
        <4>2. CASE i # n + 1
          <5>1. i \in 1 .. n /\ i \in 0 .. n /\ i - 1 \in 0 .. n  BY <1>0, <4>2
          <5> QED  BY <2>1, <2>4, <5>1, SMTT(30) DEF Tries
        <4> QED  BY <4>1, <4>2
      <3> QED  BY <3>1, <3>2 DEF Tries
    <2> HIDE DEF K
    <2> QED  BY <2>3, <2>5
  <1>3. N \in T
    <2> HIDE DEF T
    <2> QED  BY <1>0, <1>1, <1>2, InductionTo, SMTT(30)
  <1> QED  BY <1>3

\* alloc_host_port stays in the range.
LEMMA AllocIn ==
    ASSUME NEW m, m.next \in HostPorts
    PROVE  LET a == AllocHostPort(m)
           IN  /\ a.next \in HostPorts
               /\ a.found \in BOOLEAN
               /\ a.found => a.port \in HostPorts
  <1> DEFINE N == PortTries
             F(k) == [i \in 0 .. N |-> IF i = 0 THEN m.next ELSE NextPort(k[i - 1])]
             port == CHOOSE k : k = F(k)
  <1>0. N \in Nat \ {0} /\ 0 \in 0 .. N /\ N \in 0 .. N  BY VsockMuxAssumption
  <1>1. PICK k \in [0 .. N -> HostPorts] : Tries(k, m.next, N)  BY TriesExist
  <1>2. k = F(k)
    <2>1. ASSUME NEW i \in 0 .. N PROVE k[i] = IF i = 0 THEN m.next ELSE NextPort(k[i - 1])
      <3>1. i = 0 \/ i \in 1 .. N  BY <1>0
      <3> QED  BY <1>1, <3>1 DEF Tries
    <2> QED  BY <1>1, <2>1, SMTT(30)
  <1>3. port = F(port)
    <2> HIDE DEF F
    <2> QED  BY <1>2
  <1>4. \A i \in 0 .. N : port[i] \in HostPorts
    <2> DEFINE T == {i \in 0 .. N : port[i] \in HostPorts}
    <2> HIDE DEF port
    <2>1. 0 \in T  BY <1>0, <1>3
    <2>2. ASSUME NEW i \in 0 .. N, i \in T, i < N PROVE i + 1 \in T
      <3>1. i + 1 \in 0 .. N /\ i + 1 # 0 /\ (i + 1) - 1 = i  BY <1>0, <2>2
      <3>2. port[i + 1] = NextPort(port[i])  BY <1>3, <3>1
      <3> QED  BY <2>2, <3>1, <3>2, NextPortIn, SMTT(30)
    <2>3. \A i \in 0 .. N : i \in T
      <3> HIDE DEF T
      <3> QED  BY <1>0, <2>1, <2>2, InductionTo
    <2> QED  BY <2>3
  <1> DEFINE Free == {i \in 0 .. N - 1 : ~ PortInUse(m, port[i])}
             first == CHOOSE i \in Free : \A l \in Free : i <= l
  <1>5. AllocHostPort(m) = IF Free = {} THEN [found |-> FALSE, next |-> port[N]]
                           ELSE [found |-> TRUE, port |-> port[first], next |-> port[first + 1]]
    BY Zenon DEF AllocHostPort
  <1> HIDE DEF port
  <1>6. CASE Free = {}
    <2>1. port[N] \in HostPorts  BY <1>0, <1>4, SMTT(30)
    <2> QED  BY <1>5, <1>6, <2>1, SMTT(30)
  <1>7. CASE Free # {}
    <2>1. Free \in SUBSET Nat /\ Free \subseteq 0 .. N - 1  BY <1>0
    <2> HIDE DEF Free
    <2>2. \E i \in Free : \A l \in Free : i <= l  BY <1>7, <2>1, LeastElement
    <2>3. first \in Free  BY <2>2
    <2> HIDE DEF first
    <2>4. first \in 0 .. N /\ first + 1 \in 0 .. N  BY <1>0, <2>1, <2>3
    <2>5. port[first] \in HostPorts /\ port[first + 1] \in HostPorts  BY <1>4, <2>4, SMTT(30)
    <2> QED  BY <1>5, <1>7, <2>5, SMTT(30)
  <1> QED  BY <1>6, <1>7, SMTT(30)

\* finish_incoming: the REQUEST of a new connection, with its deadline.
LEMMA IncomingInv ==
    ASSUME NEW m, Inv(m), NEW g \in GuestPorts, NEW rest \in Payload
    PROVE  LET n == FinishIncoming(m, g, rest)
           IN  Inv(n) /\ Responds(m, n) /\ OpensTimed(m, n)
  <1> DEFINE a == AllocHostPort(m)
             m1 == [CloseIncoming(m) EXCEPT !.next = a.next]
             f == <<g, a.port>>
             d == [NewConn("WaitGuest") EXCEPT !.pre = rest, !.expiry = TRUE]
             b == PutConn(m1, f, d)
             p == Ctrl(f, "REQUEST")
  <1>1. FinishIncoming(m, g, rest)
            = IF ~ a.found THEN m1
              ELSE IF f \in Live(m) THEN EnqueueRst(m1, f) ELSE Enqueue(b, p)
    BY DEF FinishIncoming
  <1>2. a.next \in HostPorts /\ a.found \in BOOLEAN /\ (a.found => a.port \in HostPorts)
    BY AllocIn, Zenon DEF Inv, TypeOK
  <1> HIDE DEF a
  <1>3. Inv(m1) /\ Moves(m, m1) /\ m1.conns = m.conns /\ m1.ctrl = m.ctrl /\ m1.data = m.data
    <2>1. /\ IsMux(m1) /\ m1.conns = m.conns /\ m1.next = a.next
          /\ m1.ctrl = m.ctrl /\ m1.data = m.data
      <3> DEFINE k == CloseIncoming(m)
      <3>1. /\ IsMux(k) /\ k.conns = m.conns /\ k.ctrl = m.ctrl /\ k.data = m.data
        BY DEF Inv, TypeOK, IsMux, CloseIncoming
      <3> HIDE DEF k
      <3> QED  BY <3>1, Zenon DEF IsMux, k
    <2> HIDE DEF m1
    <2>2. Live(m1) = Live(m)  BY <2>1 DEF Live
    <2>3. TypeOK(m1)  BY <1>2, <2>1, <2>2, Zenon DEF Inv, TypeOK
    <2>4. Inv(m1)  BY <2>1, <2>2, <2>3, ZenonT(40) DEF Inv
    <2>5. Moves(m, m1)  BY <2>1, MovesRefl, Zenon DEF Inv
    <2> QED  BY <2>1, <2>4, <2>5
  <1> HIDE DEF m1
  <1>4. CASE ~ a.found  BY <1>1, <1>3, <1>4, MovesResponds, SMTT(30)
  <1>5. CASE a.found /\ f \in Live(m)
    <2>1. f \in Flows  BY <1>5, Zenon DEF Inv, TypeOK
    <2>2. Inv(EnqueueRst(m1, f)) /\ Moves(m1, EnqueueRst(m1, f))
      BY <1>3, <2>1, EnqueueRstInv, Zenon
    <2>3. Moves(m, EnqueueRst(m1, f))  BY <1>3, <2>2, MovesTrans, Zenon DEF Inv
    <2> QED  BY <1>1, <1>5, <2>2, <2>3, MovesResponds, SMTT(30)
  <1>6. CASE a.found /\ f \notin Live(m)
    <2>1. f \in Flows /\ f \notin Live(m1)  BY <1>2, <1>3, <1>6 DEF Flows, Live
    <2> HIDE DEF f
    <2>2. /\ d \in ConnType /\ ~ d.connecting /\ d.expiry
          /\ ~ d.localShutRecv /\ ~ d.localShutSend
          /\ d.received = 0 /\ d.fwd = 0 /\ d.toHost = <<>>
      <3>1. 0 \in Counter /\ <<>> \in Payload  BY Bounds DEF Counter, Payload
      <3> HIDE DEF Counter, Payload
      <3> QED  BY <3>1, Zenon DEF NewConn, ConnType
    <2> HIDE DEF d
    <2>3. Window(d)
      <3>1. 0 - 0 = 0 /\ 0 < CounterMod /\ 0 <= BufAlloc  BY Bounds
      <3>2. Wrap(0 - 0) = 0 /\ Len(<<>>) = 0  BY <3>1, WrapRange, SMTT(30)
      <3> QED  BY <2>2, <3>1, <3>2 DEF Window
    <2>4. Inv(b)  BY <1>3, <2>1, <2>2, <2>3, PutInv, SMTT(30)
    <2>5. /\ Live(b) = Live(m) \cup {f} /\ b.conns[f] = d /\ b.data = m.data /\ b.ctrl = m.ctrl
          /\ \A h \in Live(m) : h # f => b.conns[h] = m.conns[h]
      <3>1. IsMux(m1) /\ Live(m1) = Live(m)  BY <1>3 DEF Inv, TypeOK, Live
      <3> QED  BY <1>3, <3>1, PutFields, SMTT(30)
    <2> HIDE DEF b
    <2>6. p \in Packet /\ p.flow = f /\ p.op = "REQUEST"  BY <2>1, CtrlPacket, SMTT(30) DEF Ctrl, Ops
    <2> HIDE DEF p
    <2>7. \A i \in 1 .. Len(b.ctrl) : ~ Clash(b.ctrl[i], p)
      <3>1. f \notin Live(m)  BY <1>6 DEF f
      <3> QED  BY <2>5, <2>6, <3>1, SMTT(30) DEF Inv, Clash
    <2>8. Inv(Enqueue(b, p))  BY <2>4, <2>5, <2>6, <2>7, EnqueueInv, Zenon DEF Fits
    <2>9. (Enqueue(b, p)).conns = b.conns /\ (Enqueue(b, p)).data = b.data
      BY <2>4, <2>6 DEF Inv, TypeOK, IsMux, Enqueue
    <2> DEFINE n == Enqueue(b, p)
    <2> HIDE DEF n
    <2>10. /\ \A h : Count(n, h) = Count(m, h) /\ Count(m, h) \in Nat
           /\ \A h \in Live(m) : Len(m.conns[h].toHost) \in Nat
      <3>1. n.data = m.data  BY <2>5, <2>9 DEF n
      <3>2. \A h : Count(n, h) = Count(m, h)  BY <3>1, SMTT(30) DEF Count, DataOf
      <3>3. \A h : Count(m, h) \in Nat  BY CountNat, SMTT(30) DEF Inv
      <3>4. \A h \in Live(m) : Len(m.conns[h].toHost) \in Nat
        BY DEF Inv, TypeOK, ConnType, Payload
      <3> QED  BY <3>2, <3>3, <3>4, SMTT(30)
    <2>11. /\ Live(n) = Live(m) \cup {f} /\ n.conns[f] = d
           /\ \A h \in Live(m) : h # f => n.conns[h] = m.conns[h]
      BY <2>5, <2>9, SMTT(30) DEF n, Live
    <2>12. f \notin Live(m)  BY <1>6 DEF f
    <2>13. Responds(m, n)  BY <2>10, <2>11, <2>12, SMTT(30) DEF Responds
    <2>14. OpensTimed(m, n)  BY <2>2, <2>11 DEF OpensTimed, Deadline, ShutSend
    <2> QED  BY <1>1, <1>6, <2>8, <2>13, <2>14, SMTT(30) DEF n, f
  <1> QED  BY <1>2, <1>4, <1>5, <1>6, SMTT(30)

------------------------------------------------------------------------------
(* Packets to the guest, and the loss of the transport *)

\* What the front of the data queue adds to a flow's count.
LEMMA FrontCount ==
    ASSUME NEW x \in Packet, NEW t \in Seq(Packet), NEW g
    PROVE  /\ Len(Retain(t, OfFlow(g))) \in Nat
           /\ Len(Retain(<<x>> \o t, OfFlow(g)))
                 = (IF x.flow = g THEN 1 ELSE 0) + Len(Retain(t, OfFlow(g)))
  <1> DEFINE S == OfFlow(g)
  <1>1. x \in S <=> x.flow = g  BY DEF OfFlow
  <1>2. <<x>> \in Seq(Packet) /\ Len(<<x>>) = 1 /\ <<x>>[1] = x  OBVIOUS
  <1> HIDE DEF S
  <1>3. Retain(<<x>>, S) = IF x \in S THEN <<x>> ELSE <<>>
    <2>1. CASE x \in S
      <3>1. \A i \in 1 .. Len(<<x>>) : <<x>>[i] \in S  BY <1>2, <2>1
      <3> QED  BY <1>2, <2>1, <3>1, RetainUniform, Zenon
    <2>2. CASE x \notin S
      <3>1. \A i \in 1 .. Len(<<x>>) : <<x>>[i] \notin S  BY <1>2, <2>2
      <3> QED  BY <1>2, <2>2, <3>1, RetainUniform, Zenon
    <2> QED  BY <2>1, <2>2
  <1>4. Retain(<<x>> \o t, S) = Retain(<<x>>, S) \o Retain(t, S)
    <2> DEFINE s == <<x>>
    <2>1. s \in Seq(Packet)  BY <1>2
    <2> HIDE DEF s
    <2>2. Retain(s \o t, S) = Retain(s, S) \o Retain(t, S)  BY <2>1, RetainConcat
    <2> QED  BY <2>2 DEF s
  <1>5. Retain(t, S) \in Seq(Packet)  BY RetainSeq
  <1> DEFINE r == Retain(t, S)
  <1> HIDE DEF r
  <1>6. r \in Seq(Packet) /\ Retain(<<x>> \o t, S) = (IF x \in S THEN <<x>> ELSE <<>>) \o r
    BY <1>3, <1>4, <1>5, Zenon DEF r
  <1>7. /\ Len(r) \in Nat
        /\ Len(Retain(<<x>> \o t, S)) = (IF x \in S THEN 1 ELSE 0) + Len(r)
    BY <1>6
  <1> QED  BY <1>1, <1>7 DEF r, S

\* The rest of a split packet.
LEMMA RestPacket ==
    ASSUME NEW x \in Packet, NEW rest \in Payload
    PROVE  [x EXCEPT !.data = rest] \in Packet /\ [x EXCEPT !.data = rest].flow = x.flow
  <1>1. x \in [flow : Flows, op : Ops, flags : SUBSET {"send", "recv"}, data : Payload]
    BY DEF Packet
  <1> DEFINE F == SUBSET {"send", "recv"}
  <1>2. x \in [flow : Flows, op : Ops, flags : F, data : Payload]  BY <1>1
  <1> HIDE DEF F
  <1>3. /\ [x EXCEPT !.data = rest] \in [flow : Flows, op : Ops, flags : F, data : Payload]
        /\ [x EXCEPT !.data = rest].flow = x.flow
    BY <1>2
  <1> QED  BY <1>3 DEF Packet, F

\* pop_out and the split of push_rx.
LEMMA PopInv ==
    ASSUME NEW m, Inv(m), HasOut(m), NEW space \in Nat
    PROVE  LET n == PopOut(m, space) IN Inv(n) /\ Moves(m, n)
  <1> DEFINE n == PopOut(m, space)
  <1>0. IsMux(m) /\ m.ctrl \in Seq(Packet) /\ m.data \in Seq(Packet)  BY DEF Inv, TypeOK
  <1>1. CASE m.ctrl # <<>>
    <2>1. n = [m EXCEPT !.ctrl = Tail(@)]  BY <1>1 DEF PopOut
    <2> DEFINE q == Tail(m.ctrl)
    <2>2. /\ q \in Seq(Packet)
          /\ \A i \in 1 .. Len(q) : i + 1 \in 1 .. Len(m.ctrl) /\ q[i] = m.ctrl[i + 1]
      BY <1>0, <1>1
    <2>3. n = [m EXCEPT !.ctrl = q]  BY <2>1
    <2> HIDE DEF n, q
    <2>4. /\ IsMux(n) /\ n.ctrl = q
          /\ n.conns = m.conns /\ n.next = m.next /\ n.data = m.data
      BY <1>0, <2>3, SMTT(30) DEF IsMux
    <2>5. Live(n) = Live(m)  BY <2>4 DEF Live
    <2>6. TypeOK(n)  BY <2>2, <2>4, <2>5, ZenonT(40) DEF Inv, TypeOK
    <2>7. \A i \in 1 .. Len(n.ctrl) :
            \/ n.ctrl[i].op = "RST"
            \/ n.ctrl[i].flow \in Live(n) /\ Fits(n.ctrl[i], n.conns[n.ctrl[i].flow])
      BY <2>2, <2>4, <2>5, SMTT(30) DEF Inv
    <2>8. ASSUME NEW i \in 1 .. Len(n.ctrl), NEW j \in 1 .. Len(n.ctrl), i # j
          PROVE  ~ Clash(n.ctrl[i], n.ctrl[j])
      <3>1. i + 1 # j + 1  BY <2>8
      <3> QED  BY <2>2, <2>4, <3>1, Zenon DEF Inv
    <2>9. Inv(n)  BY <2>4, <2>5, <2>6, <2>7, <2>8, Zenon DEF Inv
    <2>10. Moves(m, n)  BY <2>4, MovesRefl, Zenon DEF Inv
    <2> QED  BY <2>9, <2>10 DEF n
  <1>2. CASE m.ctrl = <<>>
    <2> DEFINE x == Head(m.data)
               t == Tail(m.data)
               k == Least(space, Len(x.data)) + 1
               rest == SubSeq(x.data, k, Len(x.data))
               y == [x EXCEPT !.data = rest]
               q == IF rest = <<>> THEN t ELSE <<y>> \o t
    <2>1. m.data # <<>>  BY <1>2, SMTT(30) DEF HasOut
    <2>2. x \in Packet /\ t \in Seq(Packet) /\ m.data = <<x>> \o t  BY <1>0, <2>1
    <2>3. n = [m EXCEPT !.data = q]
      <3>1. FrontPkt(m) = x  BY <1>2 DEF FrontPkt
      <3>2. n = IF rest = <<>> THEN [m EXCEPT !.data = Tail(@)]
                ELSE [m EXCEPT !.data = <<y>> \o Tail(@)]
        BY <1>2, <3>1 DEF PopOut
      <3> HIDE DEF n, x, y, rest
      <3>3. CASE rest = <<>>  BY <3>2, <3>3
      <3>4. CASE rest # <<>>  BY <3>2, <3>4
      <3> QED  BY <3>3, <3>4
    <2> HIDE DEF x, t
    <2>4. rest \in Payload
      <3>1. x.data \in Payload /\ Len(x.data) \in Nat  BY <2>2 DEF Packet, Payload
      <3>2. k \in 1 .. Len(x.data) + 1  BY <3>1 DEF Least
      <3> HIDE DEF k
      <3> DEFINE z == x.data
      <3> HIDE DEF z
      <3>3. z \in Seq({Byte}) /\ k \in 1 .. Len(z) + 1  BY <3>1, <3>2 DEF z, Payload
      <3>4. SubSeq(z, k, Len(z)) \in Seq({Byte})  BY <3>3
      <3> QED  BY <3>4 DEF z, Payload
    <2> HIDE DEF rest
    <2>5. y \in Packet /\ y.flow = x.flow  BY <2>2, <2>4, RestPacket
    <2> HIDE DEF y
    <2>6. q = t \/ q = <<y>> \o t  OBVIOUS
    <2> HIDE DEF q, n
    <2>7. /\ IsMux(n) /\ n.data = q
          /\ n.conns = m.conns /\ n.next = m.next /\ n.ctrl = m.ctrl
      BY <1>0, <2>3 DEF IsMux
    <2>8. Live(n) = Live(m)  BY <2>7 DEF Live
    <2>9. /\ x.flow \in Live(m)
          /\ \A i \in 1 .. Len(t) : t[i].flow \in Live(m)
      <3>1. Len(t) \in Nat /\ Len(m.data) = Len(t) + 1  BY <2>2
      <3>2. m.data[1] = x /\ \A i \in 1 .. Len(t) : m.data[i + 1] = t[i]  BY <2>2, <3>1
      <3>3. 1 \in 1 .. Len(m.data) /\ \A i \in 1 .. Len(t) : i + 1 \in 1 .. Len(m.data)
        BY <3>1, SMTT(30)
      <3>4. \A i \in 1 .. Len(m.data) : m.data[i].flow \in Live(m)  BY DEF Inv
      <3>5. x.flow \in Live(m)  BY <3>2, <3>3, <3>4, SMTT(30)
      <3>6. ASSUME NEW i \in 1 .. Len(t) PROVE t[i].flow \in Live(m)
        BY <3>2, <3>3, <3>4, SMTT(30)
      <3> QED  BY <3>5, <3>6
    <2>10. q \in Seq(Packet) /\ \A i \in 1 .. Len(q) : q[i].flow \in Live(m)
      <3>1. CASE q = t  BY <2>2, <2>9, <3>1, SMTT(30)
      <3>2. CASE q = <<y>> \o t
        <4>1. q \in Seq(Packet) /\ Len(q) = Len(t) + 1 /\ Len(t) \in Nat  BY <2>2, <2>5, <3>2, SMTT(30)
        <4>2. q[1] = y /\ \A i \in 1 .. Len(q) : i # 1 => i - 1 \in 1 .. Len(t) /\ q[i] = t[i - 1]
          BY <2>2, <2>5, <3>2, <4>1, SMTT(30)
        <4> QED  BY <2>5, <2>9, <4>1, <4>2, SMTT(30)
      <3> QED  BY <2>6, <3>1, <3>2, SMTT(30)
    <2>11. Inv(n)
      <3>1. TypeOK(n)  BY <2>7, <2>8, <2>10, SMTT(30) DEF Inv, TypeOK
      <3> QED  BY <2>7, <2>8, <2>10, <3>1, ZenonT(40) DEF Inv
    <2>12. ASSUME NEW g PROVE ~ (Count(n, g) > Count(m, g))
      <3>1. DataOf(n, g) = Retain(q, OfFlow(g))  BY <2>7, <2>10, FlowPackets, SMTT(30) DEF DataOf
      <3>2. DataOf(m, g) = Retain(<<x>> \o t, OfFlow(g))
        <4>1. DataOf(m, g) = Retain(m.data, OfFlow(g))  BY <1>0, FlowPackets DEF DataOf
        <4> QED  BY <2>2, <4>1
      <3> DEFINE l == Len(Retain(t, OfFlow(g)))
      <3>3. l \in Nat /\ Count(m, g) = (IF x.flow = g THEN 1 ELSE 0) + l
        BY <2>2, <3>2, FrontCount, SMTT(30) DEF Count
      <3>4. Count(n, g) = l \/ Count(n, g) = (IF x.flow = g THEN 1 ELSE 0) + l
        <4>1. CASE q = t  BY <3>1, <4>1, SMTT(30) DEF Count
        <4>2. CASE q = <<y>> \o t
          <5>1. Len(Retain(<<y>> \o t, OfFlow(g))) = (IF y.flow = g THEN 1 ELSE 0) + l
            BY <2>2, <2>5, FrontCount, SMTT(30)
          <5> QED  BY <2>5, <3>1, <4>2, <5>1, SMTT(30) DEF Count
        <4> QED  BY <2>6, <4>1, <4>2, SMTT(30)
      <3> HIDE DEF l
      <3> QED  BY <3>3, <3>4, SMTT(30)
    <2>13. Moves(m, n)
      <3>1. \A g \in Live(m) : Evolves(m.conns[g], m.conns[g])
        BY EvolvesRefl DEF Inv, TypeOK
      <3> QED  BY <2>7, <2>8, <2>12, <3>1, SMTT(30) DEF Moves
    <2> QED  BY <2>11, <2>13 DEF n
  <1> QED  BY <1>1, <1>2, SMTT(30)

\* kill_connections.
LEMMA KillInv ==
    ASSUME NEW m, Inv(m)
    PROVE  LET n == KillConnections(m) IN Inv(n) /\ Moves(m, n)
  <1> DEFINE n == KillConnections(m)
  <1>1. /\ IsMux(n) /\ n.next = m.next
        /\ n.conns = <<>> /\ n.ctrl = <<>> /\ n.data = <<>>
    BY DEF KillConnections, Inv, TypeOK, IsMux
  <1> HIDE DEF n
  <1>2. Live(n) = {}  BY <1>1 DEF Live
  <1>3. Len(n.ctrl) = 0 /\ Len(n.data) = 0 /\ n.ctrl \in Seq(Packet) /\ n.data \in Seq(Packet)
    BY <1>1
  <1>4. Inv(n)
    <2>1. m.next \in HostPorts  BY Zenon DEF Inv, TypeOK
    <2>2. TypeOK(n)  BY <1>1, <1>2, <1>3, <2>1, Zenon DEF TypeOK
    <2>3. 1 .. Len(n.ctrl) = {} /\ 1 .. Len(n.data) = {}  BY <1>3
    <2> QED  BY <1>2, <2>2, <2>3, Zenon DEF Inv
  <1>5. Moves(m, n)  BY <1>2 DEF Moves
  <1> QED  BY <1>4, <1>5 DEF n

\* bind.
LEMMA EmptyInv == Inv(EmptyMux)
  <1> DEFINE n == EmptyMux
  <1>1. /\ IsMux(n) /\ n.next = FirstPort
        /\ n.conns = <<>> /\ n.ctrl = <<>> /\ n.data = <<>>
    BY DEF EmptyMux, IsMux
  <1> HIDE DEF n
  <1>2. Live(n) = {}  BY <1>1 DEF Live
  <1>3. Len(n.ctrl) = 0 /\ Len(n.data) = 0 /\ n.ctrl \in Seq(Packet) /\ n.data \in Seq(Packet)
    BY <1>1, SMTT(30)
  <1>4. Inv(n)  BY <1>1, <1>2, <1>3, VsockMuxAssumption, SMTT(30) DEF Inv, TypeOK
  <1> QED  BY <1>4, SMTT(30) DEF n

------------------------------------------------------------------------------
(* The specification *)

\* One handler of the mux, then the record of what it wrote is cleared.
LEMMA BecomesInv ==
    ASSUME NEW n, Inv(n), Responds(mux, n), Becomes(n)
    PROVE  Inv(mux') /\ Responds(mux, mux') /\ (OpensTimed(mux, n) => OpensTimed(mux, mux'))
  <1>1. mux' = [n EXCEPT !.out = NoOut]  BY DEF Becomes
  <1>2. Inv(mux') /\ mux'.conns = n.conns  BY <1>1, OutInv
  <1>3. mux'.data = n.data  BY <1>1 DEF Inv, TypeOK, IsMux
  <1>4. Live(mux') = Live(n) /\ \A f : Count(mux', f) = Count(n, f)
    BY <1>2, <1>3 DEF Live, Count, DataOf
  <1>5. Responds(mux, mux')  BY <1>2, <1>4, Zenon DEF Responds
  <1>6. OpensTimed(mux, n) => OpensTimed(mux, mux')  BY <1>2, <1>4 DEF OpensTimed
  <1> QED  BY <1>2, <1>5, <1>6

\* A handler that opens no connection.
LEMMA BecomesMoves ==
    ASSUME Inv(mux), NEW n, Inv(n), Moves(mux, n), Becomes(n)
    PROVE  Inv(mux') /\ Responds(mux, mux') /\ OpensTimed(mux, mux')
  BY MovesResponds, BecomesInv

\* Payload as the environment makes it.
LEMMA BytesPayload ==
    ASSUME NEW n \in Nat
    PROVE  Bytes(n) \in Payload
  BY DEF Bytes, Payload

\* Every action keeps Inv, and does to a connection only what Responds allows.
LEMMA NextInv ==
    ASSUME Inv(mux), Next
    PROVE  /\ Inv(mux') /\ Responds(mux, mux')
           /\ ConnectResults \subseteq {"done", "fail"} => OpensTimed(mux, mux')
  <1>0. 0 \in Counter /\ 0 \in Nat /\ <<>> \in Payload /\ GuestBufs \subseteq Counter
    BY Bounds, VsockMuxOpenAssumption DEF Counter, Payload
  <1>1. CASE GuestCredit
    <2>0. PICK f \in Flows : \E h \in CreditPkts(f) : Becomes(HandleGuestPkt(mux, h, "fail", 0))
      BY <1>1 DEF GuestCredit
    <2>1. PICK h \in CreditPkts(f) : Becomes(HandleGuestPkt(mux, h, "fail", 0))
      BY <2>0, SMTT(30)
    <2>2. h.flow \in Flows /\ h.buf \in Counter /\ h.fwd \in Counter /\ h.data \in Payload
      BY <1>0, <2>1, SMTT(30) DEF CreditPkts, Header, Counter
    <2> DEFINE n == HandleGuestPkt(mux, h, "fail", 0)
    <2>3. Inv(n) /\ Responds(mux, n) /\ OpensTimed(mux, n)  BY <1>0, <2>2, GuestPktInv, SMTT(30)
    <2> HIDE DEF n
    <2> QED  BY <2>1, <2>3, BecomesInv, SMTT(30) DEF n
  <1>2. CASE GuestRequest
    <2>0. PICK f \in Flows : \E h \in RequestPkts(f), r \in ConnectResults :
              Becomes(HandleGuestPkt(mux, h, r, 0))
      BY <1>2 DEF GuestRequest
    <2>1. PICK h \in RequestPkts(f), r \in ConnectResults :
              Becomes(HandleGuestPkt(mux, h, r, 0))
      BY <2>0, SMTT(30)
    <2>2. h.flow \in Flows /\ h.buf \in Counter /\ h.fwd \in Counter /\ h.data \in Payload
      <3>1. \A k \in {0, 1} : Bytes(k) \in Payload  BY BytesPayload, SMTT(30)
      <3> QED  BY <1>0, <2>1, <3>1, SMTT(30) DEF RequestPkts, Header
    <2> DEFINE n == HandleGuestPkt(mux, h, r, 0)
    <2>3. Inv(n) /\ Responds(mux, n) /\ (r \in {"done", "fail"} => OpensTimed(mux, n))
      BY <1>0, <2>2, GuestPktInv, SMTT(30)
    <2> HIDE DEF n
    <2> QED  BY <2>1, <2>3, BecomesInv, SMTT(30) DEF n
  <1>3. CASE GuestPacket
    <2>0. PICK f \in Flows : \E h \in OtherPkts(f), room \in Rooms(f) :
              Becomes(HandleGuestPkt(mux, h, "fail", room))
      BY <1>3 DEF GuestPacket
    <2>1. PICK h \in OtherPkts(f), room \in Rooms(f) :
              Becomes(HandleGuestPkt(mux, h, "fail", room))
      BY <2>0
    <2>2. room \in Nat  BY <2>1, VsockMuxOpenAssumption DEF Rooms
    <2>3. h.flow \in Flows /\ h.buf \in Counter /\ h.fwd \in Counter /\ h.data \in Payload
      <3> DEFINE b == IF f \in Live(mux) THEN mux.conns[f].peerBuf ELSE 0
                 c == IF f \in Live(mux) THEN mux.conns[f].peerFwd ELSE 0
      <3>1. b \in Counter /\ c \in Counter  BY <1>0, Zenon DEF Inv, TypeOK, ConnType
      <3>2. \A k \in 0 .. MaxPayload + 1 : Bytes(k) \in Payload
        BY BytesPayload, Bounds
      <3>3. \/ \E op \in {"RESPONSE", "RST", "CREDIT_REQUEST"} :
                  h = Header(f, TRUE, op, {}, b, c, <<>>)
            \/ \E fl \in ShutFlags : h = Header(f, TRUE, "SHUTDOWN", fl, b, c, <<>>)
            \/ \E k \in 0 .. MaxPayload + 1 : h = Header(f, TRUE, "RW", {}, b, c, Bytes(k))
            \/ \E op \in {"RST", "RW"} : h = Header(f, FALSE, op, {}, b, c, <<>>)
        BY <2>1, Zenon DEF OtherPkts, Header
      <3> HIDE DEF b, c
      <3>4. ASSUME NEW set, NEW op, NEW fl, NEW d \in Payload,
                   h = Header(f, set, op, fl, b, c, d)
            PROVE  h.flow \in Flows /\ h.buf \in Counter /\ h.fwd \in Counter /\ h.data \in Payload
        BY <3>1, <3>4, Zenon DEF Header
      <3> QED  BY <1>0, <3>2, <3>3, <3>4, Zenon
    <2> DEFINE n == HandleGuestPkt(mux, h, "fail", room)
    <2>4. Inv(n) /\ Responds(mux, n) /\ OpensTimed(mux, n)  BY <2>2, <2>3, GuestPktInv, Zenon
    <2> HIDE DEF n
    <2> QED  BY <2>1, <2>4, BecomesInv DEF n
  <1>4. CASE GuestPacketBroken
    <2>1. PICK f \in Flows : Becomes(DropConn(mux, f, TRUE))  BY <1>4, Zenon DEF GuestPacketBroken
    <2> QED  BY <2>1, DropInv, BecomesMoves, Zenon
  <1>5. CASE Accept
    <2> DEFINE n == AcceptOne(mux)
    <2>1. /\ IsMux(n) /\ n.conns = mux.conns /\ n.next = mux.next
          /\ n.ctrl = mux.ctrl /\ n.data = mux.data
      BY DEF Inv, TypeOK, IsMux, AcceptOne
    <2>2. Becomes(n)  BY <1>5 DEF Accept
    <2> HIDE DEF n
    <2> QED  BY <2>1, <2>2, SameQueues, BecomesMoves, SMTT(30)
  <1>6. CASE ReadIncoming
    <2>1. CASE Becomes(CloseIncoming(mux))
      <3> DEFINE n == CloseIncoming(mux)
      <3>1. /\ IsMux(n) /\ n.conns = mux.conns /\ n.next = mux.next
            /\ n.ctrl = mux.ctrl /\ n.data = mux.data
        BY DEF Inv, TypeOK, IsMux, CloseIncoming
      <3>2. Becomes(n)  BY <2>1
      <3> HIDE DEF n
      <3> QED  BY <3>1, <3>2, SameQueues, BecomesMoves
    <2>2. CASE \E g \in GuestPorts, k \in 0 .. MaxRead :
                  Becomes(FinishIncoming(mux, g, Bytes(k)))
      <3>1. PICK g \in GuestPorts, k \in 0 .. MaxRead : Becomes(FinishIncoming(mux, g, Bytes(k)))
        BY <2>2
      <3>2. Bytes(k) \in Payload  BY BytesPayload, VsockMuxOpenAssumption
      <3> QED  BY <3>1, <3>2, IncomingInv, BecomesInv, SMTT(30)
    <2> QED  BY <1>6, <2>1, <2>2, SMTT(30) DEF ReadIncoming
  <1>7. CASE StreamEvent
    <2>0. PICK f \in Live(mux) : \E ev \in Events(f) : Becomes(OnFd(mux, f, ev))
      BY <1>7 DEF StreamEvent
    <2>1. PICK ev \in Events(f) : Becomes(OnFd(mux, f, ev))  BY <2>0, SMTT(30)
    <2>2. /\ ev.rd.kind \in {"data", "eof", "again", "error"}
          /\ ev.rd.kind = "data" => ev.rd.bytes \in Payload
          /\ ev.connected \in BOOLEAN /\ ev.room \in Nat
      <3>1. \A k \in 1 .. MaxRead : Bytes(k) \in Payload
        BY BytesPayload, VsockMuxOpenAssumption, SMTT(30)
      <3>2. \A rd \in Reads(mux.conns[f]) :
              /\ rd.kind \in {"data", "eof", "again", "error"}
              /\ rd.kind = "data" => rd.bytes \in Payload
        BY <3>1 DEF Reads
      <3>3. \A room \in Rooms(f) : room \in Nat  BY VsockMuxOpenAssumption DEF Rooms
      <3> DEFINE c == mux.conns[f]
                 oks == {ok \in BOOLEAN : ok \/ c.connecting}
      <3>4. \/ ev \in Event({TRUE}, {FALSE}, Reads(c), {TRUE}, {0})
            \/ ev \in Event({FALSE}, {TRUE}, {[kind |-> "again"]}, oks, Rooms(f))
            \/ ev \in Event({TRUE}, {TRUE}, Reads(c), oks, Rooms(f))
        BY <2>1, Zenon DEF Events
      <3>5. oks \subseteq BOOLEAN  BY Zenon
      <3> HIDE DEF c, oks
      <3>6. ASSUME NEW ins, NEW outs, NEW rds, NEW os, NEW rooms, ev \in Event(ins, outs, rds, os, rooms)
            PROVE  ev.rd \in rds /\ ev.connected \in os /\ ev.room \in rooms
        BY <3>6, Zenon DEF Event
      <3>7. /\ ev.rd \in Reads(c) \/ ev.rd = [kind |-> "again"]
            /\ ev.room = 0 \/ ev.room \in Rooms(f)
            /\ ev.connected \in BOOLEAN
        <4>1. {TRUE} \subseteq BOOLEAN  OBVIOUS
        <4>2. ev.connected \in {TRUE} \/ ev.connected \in oks  BY <3>4, <3>6, Zenon
        <4>3. ev.connected \in BOOLEAN  BY <3>5, <4>1, <4>2, Zenon
        <4>4. ev.rd \in Reads(c) \/ ev.rd \in {[kind |-> "again"]}  BY <3>4, <3>6, Zenon
        <4>5. ev.room \in {0} \/ ev.room \in Rooms(f)  BY <3>4, <3>6, ZenonT(40)
        <4> QED  BY <4>3, <4>4, <4>5, Zenon
      <3> QED  BY <1>0, <3>2, <3>3, <3>7, SMTT(30) DEF c
    <2> DEFINE n == OnFd(mux, f, ev)
    <2>3. Inv(n) /\ Moves(mux, n)  BY <2>1, <2>2, FdInv
    <2> HIDE DEF n
    <2> QED  BY <2>1, <2>3, BecomesMoves, Zenon DEF n
  <1>8. CASE Timeout
    <2>1. PICK f \in Live(mux) : Becomes(DropConn(mux, f, TRUE))  BY <1>8, Zenon DEF Timeout
    <2>2. f \in Flows  BY <2>1, Zenon DEF Inv, TypeOK
    <2> QED  BY <2>1, <2>2, DropInv, BecomesMoves, Zenon
  <1>9. CASE TransportDown  BY <1>9, KillInv, BecomesMoves, SMTT(30) DEF TransportDown
  <1>10. CASE PushRx
    <2>1. PICK space \in 0 .. MaxChunk : HasOut(mux) /\ Becomes(PopOut(mux, space))
      BY <1>10 DEF PushRx
    <2>2. space \in Nat  BY <2>1, Bounds
    <2> QED  BY <2>1, <2>2, PopInv, BecomesMoves, SMTT(30)
  <1> QED  BY <1>1, <1>2, <1>3, <1>4, <1>5, <1>6, <1>7, <1>8, <1>9, <1>10, SMTT(30) DEF Next

------------------------------------------------------------------------------
(* Theorems *)

\* The invariant of the mux, whatever the guest, the sockets and the clock do.
THEOREM MuxInvariant == Spec => []Inv(mux)
  <1>1. Init => Inv(mux)  BY EmptyInv DEF Init
  <1>2. Inv(mux) /\ [Next]_mux => Inv(mux)'
    <2> SUFFICES ASSUME Inv(mux), [Next]_mux PROVE Inv(mux)'  OBVIOUS
    <2>1. CASE Next  BY <2>1, NextInv
    <2>2. CASE UNCHANGED mux  BY <2>2
    <2> QED  BY <2>1, <2>2
  <1> QED  BY <1>1, <1>2, PTL DEF Spec

\* drop_conn leaves nothing but a RST behind.
THEOREM RstOnlyAfterDrop == Spec => []OnlyRstOutlivesConn
  <1>1. Inv(mux) => OnlyRstOutlivesConn
    <2> SUFFICES ASSUME Inv(mux) PROVE OnlyRstOutlivesConn  BY SMTT(30)
    <2>1. DOMAIN mux.ctrl = 1 .. Len(mux.ctrl) /\ DOMAIN mux.data = 1 .. Len(mux.data)
      BY SMTT(30) DEF Inv, TypeOK
    <2> QED  BY <2>1 DEF Inv, OnlyRstOutlivesConn
  <1> QED  BY <1>1, MuxInvariant, PTL

\* The window is exact: on_rw refuses what would not fit, and received and
\* fwd_cnt move with the bytes held, for every counter width above BUF_ALLOC.
THEOREM WindowIsExact == Spec => []WindowExact
  <1>1. Inv(mux) => WindowExact  BY SMTT(30) DEF Inv, Window, WindowExact
  <1> QED  BY <1>1, MuxInvariant, PTL

\* enqueue_once, enqueue_rst and mark_local_shutdown never queue a repeat.
THEOREM CtrlIsBounded == Spec => []CtrlBounded
  <1>1. Inv(mux) => CtrlBounded
    <2> SUFFICES ASSUME Inv(mux) PROVE CtrlBounded  OBVIOUS
    <2>1. DOMAIN mux.ctrl = 1 .. Len(mux.ctrl)  BY SMTT(30) DEF Inv, TypeOK
    <2>2. \A i, j \in DOMAIN mux.ctrl : i # j => ~ Clash(mux.ctrl[i], mux.ctrl[j])
      BY <2>1 DEF Inv
    <2> QED  BY <2>2, SMTT(30) DEF Clash, CtrlBounded
  <1> QED  BY <1>1, MuxInvariant, PTL

\* ingest is never reached for a connection that is not established, or that is
\* shut for sending, and on_rw takes no payload before the guest has answered.
THEOREM PayloadOnlyWhileOpen == Spec => DataOnlyWhileOpen
  <1> DEFINE A == \A f \in Live(mux) \cap Live(mux)' :
          LET c == mux.conns[f]
              c2 == mux'.conns[f]
              queued == Len(DataOf(mux', f)) > Len(DataOf(mux, f))
          IN  /\ queued \/ Len(c2.toHost) > Len(c.toHost) => c2.phase = "Established"
              /\ queued => ~ (c.localShutSend /\ c2.localShutSend)
  <1>1. Inv(mux) /\ [Next]_mux => [A]_mux
    <2> SUFFICES ASSUME Inv(mux), Next PROVE A  OBVIOUS
    <2>1. Responds(mux, mux')  BY NextInv
    <2>2. Live(mux)' = Live(mux')  BY DEF Live
    <2> QED  BY <2>1, <2>2, SMTT(30) DEF Responds, Count
  <1> QED  BY <1>1, MuxInvariant, PTL DEF Spec, DataOnlyWhileOpen

\* ingest cuts what it reads to peer_avail, so sent never runs ahead of credit.
THEOREM CreditIsRespected == Spec => CreditRespected
  <1> DEFINE A == \A f \in Live(mux) \cap Live(mux)' :
          mux'.conns[f].sent # mux.conns[f].sent
            => Wrap(mux'.conns[f].sent - mux'.conns[f].peerFwd) <= mux'.conns[f].peerBuf
  <1>1. Inv(mux) /\ [Next]_mux => [A]_mux
    <2> SUFFICES ASSUME Inv(mux), Next PROVE A  OBVIOUS
    <2>1. Responds(mux, mux')  BY NextInv
    <2>2. Live(mux)' = Live(mux')  BY DEF Live
    <2> QED  BY <2>1, <2>2, SMTT(30) DEF Responds
  <1> QED  BY <1>1, MuxInvariant, PTL DEF Spec, CreditRespected

\* Nothing waits without a deadline, where connect to a Unix socket succeeds or
\* fails at once, as it does on Linux.
THEOREM WaitersTimeOut ==
    ASSUME ConnectResults \subseteq {"done", "fail"}
    PROVE  Spec => []WaitingHasDeadline
  <1> DEFINE Timed == \A f \in Live(mux) : Deadline(mux.conns[f])
  <1>1. Init => Timed
    <2>1. EmptyMux.conns = <<>>  BY DEF EmptyMux
    <2> QED  BY <2>1 DEF Init, Live
  <1>2. Inv(mux) /\ Timed /\ [Next]_mux => Timed'
    <2> SUFFICES ASSUME Inv(mux), Timed, [Next]_mux PROVE Timed'  BY SMTT(30)
    <2>1. CASE Next
      <3>1. Responds(mux, mux') /\ OpensTimed(mux, mux')  BY <2>1, NextInv
      <3> QED  BY <3>1 DEF Responds, OpensTimed
    <2>2. CASE UNCHANGED mux  BY <2>2, SMTT(30)
    <2> QED  BY <2>1, <2>2
  <1>3. Timed => WaitingHasDeadline  BY DEF Deadline, ShutSend, WaitingHasDeadline
  <1> HIDE DEF Timed
  <1> QED  BY <1>1, <1>2, <1>3, MuxInvariant, PTL DEF Spec

==============================================================================
