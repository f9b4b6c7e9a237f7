--------------------------- MODULE VirtioNetProofs ---------------------------
(***************************************************************************)
(* Proofs about the virtio-net device, for any number of buffers, frames   *)
(* and resets and any depth of the TAP's queue.  The argument is one of    *)
(* order: along the way a TX buffer takes (ring, held back, used ring,     *)
(* driver) and the way an RX frame takes (TAP, held back, used ring,       *)
(* driver), what is further along came earlier.                            *)
(***************************************************************************)
EXTENDS VirtioNet, TLAPS

Buf == [id : Nat, epoch : Nat, frame : Nat]
Queue == [ready : BOOLEAN, avail : Seq(Buf), used : Seq(Buf)]
Mmio == [status : SUBSET StatusBits, features : SUBSET (LowFeatures \cup HighFeatures),
         intr : BOOLEAN, queues : [Queues -> Queue]]
Labels == {"look", "poll", "tx_start", "tx", "rx_start", "rx", "flush", "finish"}

TypeOK ==
    /\ mmio \in Mmio
    /\ kick \in BOOLEAN
    /\ net \in [tx : Buf, rx : Nat]
    /\ worker \in [pc : Labels, wantIn : BOOLEAN, wantOut : BOOLEAN, irq : BOOLEAN,
                   gave : BOOLEAN, err : BOOLEAN]
    /\ tap \in [in : Seq(Nat), arrived : Nat, out : Seq(Nat), held : Nat]
    /\ guest \in [epoch : Nat, setup : SUBSET Queues, posted : [Queues -> Nat],
                  mine : SUBSET Buf, owes : BOOLEAN, isr : BOOLEAN, back : SUBSET Buf,
                  got : Seq(Nat)]

\* The ids of `bufs` grow, and all of them are between low and high.
Ordered(bufs, low, high) ==
    /\ \A i \in 1 .. Len(bufs) : low < bufs[i].id /\ bufs[i].id <= high
    /\ \A i, j \in 1 .. Len(bufs) : i < j => bufs[i].id < bufs[j].id

\* On the way of a TX buffer: the driver has those up to a, the used ring those
\* up to b, the one held back is next, and the ring has the ones after c.
TxBetween(avail, used, tx, out, back, posted, a, b, c) ==
    /\ a <= b /\ b <= c /\ c <= posted
    /\ \A buf \in back : 0 < buf.id /\ buf.id <= a
    /\ Ordered(used, a, b)
    /\ tx # NoBuf => b < tx.id /\ tx.id <= c
    /\ Ordered(avail, c, posted)
    /\ \A i \in 1 .. Len(out) : out[i] <= b
    /\ \A i, j \in 1 .. Len(out) : i < j => out[i] < out[j]
TxOrder(avail, used, tx, out, back, posted) ==
    \E a, b, c \in Nat : TxBetween(avail, used, tx, out, back, posted, a, b, c)

\* A buffer of the driver's is on that way.
TxKept(mine, avail, used, tx, back) ==
    \A buf \in mine :
        /\ buf # NoBuf
        /\ \/ \E i \in 1 .. Len(avail) : avail[i] = buf
           \/ buf = tx
           \/ \E i \in 1 .. Len(used) : used[i] = buf
           \/ buf \in back

\* The frames of a sequence grow, and all of them are between low and high.
Rising(frames, low, high) ==
    /\ \A i \in 1 .. Len(frames) :
          frames[i] # NoFrame => low < frames[i] /\ frames[i] <= high
    /\ \A i, j \in 1 .. Len(frames) :
          i < j /\ frames[i] # NoFrame /\ frames[j] # NoFrame => frames[i] < frames[j]

\* On the way of an RX frame: the driver has those up to a, the used ring those
\* up to b, the one held back is next, and the TAP has the ones after c.  The
\* buffers on the ring carry none.
RxBetween(avail, used, rx, in, got, arrived, a, b, c) ==
    /\ a <= b /\ b <= c /\ c <= arrived
    /\ Rising(got, 0, a)
    /\ Rising(Frames(used), a, b)
    /\ rx # NoFrame => b < rx /\ rx <= c
    /\ Rising(in, c, arrived) /\ \A i \in 1 .. Len(in) : in[i] # NoFrame
    /\ \A i \in 1 .. Len(avail) : avail[i].frame = NoFrame
RxOrder(avail, used, rx, in, got, arrived) ==
    \E a, b, c \in Nat : RxBetween(avail, used, rx, in, got, arrived, a, b, c)

TxInv ==
    /\ TxOrder(Avail(mmio, TX), Used(mmio, TX), net.tx, tap.out, guest.back, guest.posted[TX])
    /\ TxKept(guest.mine, Avail(mmio, TX), Used(mmio, TX), net.tx, guest.back)
RxInv ==
    RxOrder(Avail(mmio, RX), Used(mmio, RX), net.rx, tap.in, guest.got, tap.arrived)

\* What a place in the worker's code says of the rest, and what a queue that is
\* not enabled does.
Control ==
    /\ At("tx") => net.tx = NoBuf
    /\ At("rx") => net.rx = NoFrame
    /\ At("flush") => net.rx # NoFrame
    /\ Unlocked => ~ worker.irq
    /\ Used(mmio, TX) # <<>> => mmio.intr \/ guest.isr \/ worker.irq
    /\ \A q \in Queues : Ready(mmio, q) => q \in guest.setup
    /\ ~ Ready(mmio, TX) => guest.mine = {}

Inv == TypeOK /\ TxInv /\ RxInv /\ Control

------------------------------------------------------------------------------
(* The way of a TX buffer *)

\* A buffer with a larger id may come last.
LEMMA OrderedAppend ==
    ASSUME NEW bufs \in Seq(Buf), NEW buf \in Buf, NEW low \in Nat, NEW high \in Nat,
           Ordered(bufs, low, high), low <= high, high < buf.id
    PROVE  Ordered(Append(bufs, buf), low, buf.id)
  <1> DEFINE s == Append(bufs, buf)
             n == Len(bufs)
  <1>1. n \in Nat /\ Len(s) = n + 1 /\ s[n + 1] = buf /\ \A i \in 1 .. n : s[i] = bufs[i]
    OBVIOUS
  <1>2. buf.id \in Nat /\ \A i \in 1 .. n : bufs[i].id \in Nat
    <2>1. \A x \in Buf : x.id \in Nat  BY DEF Buf
    <2>2. \A i \in 1 .. n : bufs[i] \in Buf  OBVIOUS
    <2> QED  BY <2>1, <2>2
  <1>3. \A i \in 1 .. n : low < bufs[i].id /\ bufs[i].id <= high  BY DEF Ordered
  <1>4. \A i, j \in 1 .. n : i < j => bufs[i].id < bufs[j].id  BY DEF Ordered
  <1> HIDE DEF s, n
  <1>5. ASSUME NEW i \in 1 .. Len(s) PROVE low < s[i].id /\ s[i].id <= buf.id
    BY <1>1, <1>2, <1>3
  <1>6. ASSUME NEW i \in 1 .. Len(s), NEW j \in 1 .. Len(s), i < j PROVE s[i].id < s[j].id
    <2>1. i \in 1 .. n  BY <1>1, <1>6
    <2>2. CASE j = n + 1  BY <1>1, <1>2, <1>3, <2>1, <2>2
    <2>3. CASE j # n + 1
      <3>1. j \in 1 .. n  BY <1>1, <2>3
      <3> QED  BY <1>1, <1>4, <1>6, <2>1, <3>1
    <2> QED  BY <2>2, <2>3
  <1> QED  BY <1>5, <1>6 DEF Ordered, s

\* The first buffer has the smallest id.
LEMMA OrderedTail ==
    ASSUME NEW bufs \in Seq(Buf), NEW low \in Nat, NEW high \in Nat, bufs # <<>>,
           Ordered(bufs, low, high)
    PROVE  /\ Head(bufs) \in Buf /\ Head(bufs).id \in Nat /\ Tail(bufs) \in Seq(Buf)
           /\ low < Head(bufs).id /\ Head(bufs).id <= high
           /\ Ordered(Tail(bufs), Head(bufs).id, high)
  <1> DEFINE t == Tail(bufs)
             h == Head(bufs)
             n == Len(bufs)
  <1>1. /\ n \in Nat /\ n > 0 /\ t \in Seq(Buf) /\ Len(t) = n - 1 /\ h = bufs[1]
        /\ \A i \in 1 .. n - 1 : t[i] = bufs[i + 1]
    OBVIOUS
  <1>2. h \in Buf  OBVIOUS
  <1>3. h.id \in Nat  BY <1>2 DEF Buf
  <1>4. \A i \in 1 .. n : low < bufs[i].id /\ bufs[i].id <= high  BY DEF Ordered
  <1>5. \A i, j \in 1 .. n : i < j => bufs[i].id < bufs[j].id  BY DEF Ordered
  <1> HIDE DEF t, h, n
  <1>6. low < h.id /\ h.id <= high  BY <1>1, <1>4
  <1>7. ASSUME NEW i \in 1 .. Len(t) PROVE h.id < t[i].id /\ t[i].id <= high
    <2>1. i + 1 \in 1 .. n /\ 1 \in 1 .. n /\ 1 < i + 1 /\ t[i] = bufs[i + 1]  BY <1>1
    <2> QED  BY <1>1, <1>4, <1>5, <2>1
  <1>8. ASSUME NEW i \in 1 .. Len(t), NEW j \in 1 .. Len(t), i < j PROVE t[i].id < t[j].id
    <2>1. i + 1 \in 1 .. n /\ j + 1 \in 1 .. n /\ i + 1 < j + 1  BY <1>1, <1>8
    <2> QED  BY <1>1, <1>5, <2>1, Zenon
  <1>9. Ordered(t, h.id, high)  BY <1>7, <1>8 DEF Ordered
  <1> QED  BY <1>1, <1>2, <1>3, <1>6, <1>9 DEF t, h

\* The driver posts a buffer.
LEMMA TxPost ==
    ASSUME NEW avail \in Seq(Buf), NEW used \in Seq(Buf), NEW tx \in Buf, NEW out \in Seq(Nat),
           NEW back \in SUBSET Buf, NEW posted \in Nat, NEW buf \in Buf, buf.id = posted + 1,
           TxOrder(avail, used, tx, out, back, posted)
    PROVE  TxOrder(Append(avail, buf), used, tx, out, back, posted + 1)
  <1>1. PICK a, b, c \in Nat : TxBetween(avail, used, tx, out, back, posted, a, b, c)
    BY DEF TxOrder
  <1>2. Ordered(Append(avail, buf), c, posted + 1)  BY <1>1, OrderedAppend DEF TxBetween
  <1>3. TxBetween(Append(avail, buf), used, tx, out, back, posted + 1, a, b, c)
    BY <1>1, <1>2 DEF TxBetween
  <1> QED  BY <1>3 DEF TxOrder

\* The device takes the first buffer of the ring while it holds none.
LEMMA TxTake ==
    ASSUME NEW avail \in Seq(Buf), NEW used \in Seq(Buf), NEW out \in Seq(Nat),
           NEW back \in SUBSET Buf, NEW posted \in Nat, avail # <<>>,
           TxOrder(avail, used, NoBuf, out, back, posted)
    PROVE  /\ Head(avail) \in Buf /\ Head(avail) # NoBuf /\ Tail(avail) \in Seq(Buf)
           /\ TxOrder(Tail(avail), used, Head(avail), out, back, posted)
  <1>1. PICK a, b, c \in Nat : TxBetween(avail, used, NoBuf, out, back, posted, a, b, c)
    BY DEF TxOrder
  <1> DEFINE h == Head(avail)
  <1>2. h \in Buf /\ h.id \in Nat /\ c < h.id /\ h.id <= posted /\ Tail(avail) \in Seq(Buf)
    BY <1>1, OrderedTail DEF TxBetween
  <1>3. Ordered(Tail(avail), h.id, posted)  BY <1>1, OrderedTail DEF TxBetween
  <1>4. TxBetween(Tail(avail), used, h, out, back, posted, a, b, h.id)
    BY <1>1, <1>2, <1>3 DEF TxBetween
  <1>5. TxOrder(Tail(avail), used, h, out, back, posted)  BY <1>2, <1>4 DEF TxOrder
  <1>6. h # NoBuf  BY <1>2 DEF NoBuf
  <1> QED  BY <1>2, <1>5, <1>6

\* The device gives the held buffer back, sent or not.
LEMMA TxGive ==
    ASSUME NEW avail \in Seq(Buf), NEW used \in Seq(Buf), NEW tx \in Buf, NEW out \in Seq(Nat),
           NEW back \in SUBSET Buf, NEW posted \in Nat, tx # NoBuf,
           TxOrder(avail, used, tx, out, back, posted)
    PROVE  /\ TxOrder(avail, Append(used, tx), NoBuf, out, back, posted)
           /\ TxOrder(avail, Append(used, tx), NoBuf, Append(out, tx.id), back, posted)
  <1>1. PICK a, b, c \in Nat : TxBetween(avail, used, tx, out, back, posted, a, b, c)
    BY DEF TxOrder
  <1>2. tx.id \in Nat /\ b < tx.id /\ tx.id <= c  BY <1>1 DEF TxBetween, Buf
  <1>3. Ordered(Append(used, tx), a, tx.id)  BY <1>1, <1>2, OrderedAppend DEF TxBetween
  <1>4. TxBetween(avail, Append(used, tx), NoBuf, out, back, posted, a, tx.id, c)
    BY <1>1, <1>2, <1>3 DEF TxBetween
  <1>5. TxBetween(avail, Append(used, tx), NoBuf, Append(out, tx.id), back, posted, a, tx.id, c)
    <2> DEFINE o == Append(out, tx.id)
               n == Len(out)
    <2>1. n \in Nat /\ Len(o) = n + 1 /\ o[n + 1] = tx.id /\ \A i \in 1 .. n : o[i] = out[i]
      BY <1>2
    <2>2. \A i \in 1 .. n : out[i] \in Nat /\ out[i] <= b  BY <1>1 DEF TxBetween
    <2>3. \A i, j \in 1 .. n : i < j => out[i] < out[j]  BY <1>1 DEF TxBetween
    <2> HIDE DEF o, n
    <2>4. ASSUME NEW i \in 1 .. Len(o) PROVE o[i] <= tx.id
      <3>1. i = n + 1 \/ i \in 1 .. n  BY <2>1
      <3> QED  BY <1>2, <2>1, <2>2, <3>1
    <2>5. ASSUME NEW i \in 1 .. Len(o), NEW j \in 1 .. Len(o), i < j PROVE o[i] < o[j]
      <3>1. CASE j = n + 1
        <4>1. i \in 1 .. n  BY <2>1, <2>5, <3>1
        <4>2. o[i] <= b /\ o[i] \in Nat /\ o[j] = tx.id  BY <2>1, <2>2, <3>1, <4>1, Zenon
        <4> QED  BY <1>2, <4>2
      <3>2. CASE j # n + 1
        <4>1. i \in 1 .. n /\ j \in 1 .. n  BY <2>1, <2>5, <3>2
        <4> QED  BY <2>1, <2>3, <2>5, <4>1
      <3> QED  BY <3>1, <3>2
    <2> QED  BY <1>4, <2>4, <2>5, Zenon DEF TxBetween, o
  <1> QED  BY <1>2, <1>4, <1>5 DEF TxOrder

\* The held buffer is dropped, and the rings may be emptied by a reset.
LEMMA TxDrop ==
    ASSUME NEW avail \in Seq(Buf), NEW used \in Seq(Buf), NEW tx \in Buf, NEW out \in Seq(Nat),
           NEW back \in SUBSET Buf, NEW posted \in Nat,
           TxOrder(avail, used, tx, out, back, posted)
    PROVE  /\ TxOrder(avail, used, NoBuf, out, back, posted)
           /\ TxOrder(<<>>, <<>>, tx, out, {}, posted)
  <1>1. PICK a, b, c \in Nat : TxBetween(avail, used, tx, out, back, posted, a, b, c)
    BY DEF TxOrder
  <1>2. TxBetween(avail, used, NoBuf, out, back, posted, a, b, c)  BY <1>1 DEF TxBetween
  <1>3. TxBetween(<<>>, <<>>, tx, out, {}, posted, a, b, c)  BY <1>1 DEF TxBetween, Ordered
  <1> QED  BY <1>2, <1>3 DEF TxOrder

\* The driver takes what is on the used ring.
LEMMA TxReap ==
    ASSUME NEW avail \in Seq(Buf), NEW used \in Seq(Buf), NEW tx \in Buf, NEW out \in Seq(Nat),
           NEW back \in SUBSET Buf, NEW posted \in Nat,
           TxOrder(avail, used, tx, out, back, posted)
    PROVE  TxOrder(avail, <<>>, tx, out, back \cup {used[i] : i \in DOMAIN used}, posted)
  <1>1. PICK a, b, c \in Nat : TxBetween(avail, used, tx, out, back, posted, a, b, c)
    BY DEF TxOrder
  <1> DEFINE more == back \cup {used[i] : i \in DOMAIN used}
  <1>2. ASSUME NEW buf \in more PROVE 0 < buf.id /\ buf.id <= b
    <2>1. CASE buf \in back  BY <1>1, <2>1 DEF TxBetween, Buf
    <2>2. CASE buf \notin back
      <3>1. PICK i \in 1 .. Len(used) : buf = used[i]  BY <1>2, <2>2
      <3>2. a < buf.id /\ buf.id <= b /\ buf \in Buf  BY <1>1, <3>1 DEF TxBetween, Ordered
      <3> QED  BY <3>2 DEF Buf
    <2> QED  BY <2>1, <2>2
  <1>3. TxBetween(avail, <<>>, tx, out, more, posted, b, b, c)
    <2> HIDE DEF more
    <2> QED  BY <1>1, <1>2 DEF TxBetween, Ordered
  <1> QED  BY <1>3, Zenon DEF TxOrder

\* A buffer of the driver's stays on the way when it moves from the ring into the
\* device, when it is given back, and when the driver takes it.
LEMMA TxKeptMoves ==
    ASSUME NEW avail \in Seq(Buf), NEW used \in Seq(Buf), NEW tx \in Buf,
           NEW back \in SUBSET Buf, NEW mine, TxKept(mine, avail, used, tx, back)
    PROVE  /\ TxKept(mine, avail, Append(used, tx), NoBuf, back)
           /\ tx = NoBuf /\ avail # <<>>
                => TxKept(mine, Tail(avail), used, Head(avail), back)
           /\ TxKept(mine, avail, <<>>, tx, back \cup {used[i] : i \in DOMAIN used})
           /\ \A buf \in Buf : buf # NoBuf
                => TxKept(mine \cup {buf}, Append(avail, buf), used, tx, back)
  <1>1. TxKept(mine, avail, Append(used, tx), NoBuf, back)
    <2> SUFFICES ASSUME NEW buf \in mine, buf # NoBuf
                 PROVE  \/ \E i \in 1 .. Len(avail) : avail[i] = buf
                        \/ \E i \in 1 .. Len(Append(used, tx)) : Append(used, tx)[i] = buf
                        \/ buf \in back
      BY DEF TxKept
    <2>1. CASE buf = tx
      <3>1. Len(used) + 1 \in 1 .. Len(Append(used, tx)) /\ Append(used, tx)[Len(used) + 1] = tx
        OBVIOUS
      <3> QED  BY <2>1, <3>1
    <2>2. ASSUME NEW i \in 1 .. Len(used), used[i] = buf
          PROVE  i \in 1 .. Len(Append(used, tx)) /\ Append(used, tx)[i] = buf
      BY <2>2
    <2> QED  BY <2>1, <2>2 DEF TxKept
  <1>2. ASSUME tx = NoBuf, avail # <<>>
        PROVE  TxKept(mine, Tail(avail), used, Head(avail), back)
    <2>1. ASSUME NEW i \in 1 .. Len(avail)
          PROVE  avail[i] = Head(avail) \/ \E j \in 1 .. Len(Tail(avail)) : Tail(avail)[j] = avail[i]
      <3>1. CASE i # 1
        <4>1. i - 1 \in 1 .. Len(Tail(avail)) /\ Tail(avail)[i - 1] = avail[i]  BY <1>2, <3>1
        <4> QED  BY <4>1, Zenon
      <3> QED  BY <1>2, <3>1
    <2> QED  BY <1>2, <2>1 DEF TxKept
  <1>3. TxKept(mine, avail, <<>>, tx, back \cup {used[i] : i \in DOMAIN used})
    BY DEF TxKept
  <1>4. ASSUME NEW buf \in Buf, buf # NoBuf
        PROVE  TxKept(mine \cup {buf}, Append(avail, buf), used, tx, back)
    <2>1. Len(avail) + 1 \in 1 .. Len(Append(avail, buf)) /\ Append(avail, buf)[Len(avail) + 1] = buf
      OBVIOUS
    <2>2. \A i \in 1 .. Len(avail) :
              i \in 1 .. Len(Append(avail, buf)) /\ Append(avail, buf)[i] = avail[i]
      OBVIOUS
    <2> QED  BY <1>4, <2>1, <2>2 DEF TxKept
  <1> QED  BY <1>1, <1>2, <1>3, <1>4

------------------------------------------------------------------------------
(* The way of an RX frame *)

\* An empty buffer, or a larger frame, may come last.
LEMMA RisingAppend ==
    ASSUME NEW s \in Seq(Nat), NEW low \in Nat, NEW high \in Nat, Rising(s, low, high),
           NEW x \in Nat, NEW top \in Nat, low <= high, high <= top,
           x # NoFrame => high < x /\ x <= top
    PROVE  Rising(Append(s, x), low, top)
  <1> DEFINE t == Append(s, x)
             n == Len(s)
  <1>1. n \in Nat /\ Len(t) = n + 1 /\ t[n + 1] = x /\ \A i \in 1 .. n : t[i] = s[i]
    OBVIOUS
  <1>2. \A i \in 1 .. n : s[i] \in Nat  OBVIOUS
  <1>3. \A i \in 1 .. n : s[i] # NoFrame => low < s[i] /\ s[i] <= high  BY DEF Rising
  <1>4. \A i, j \in 1 .. n : i < j /\ s[i] # NoFrame /\ s[j] # NoFrame => s[i] < s[j]
    BY DEF Rising
  <1> HIDE DEF t, n
  <1>5. ASSUME NEW i \in 1 .. Len(t), t[i] # NoFrame PROVE low < t[i] /\ t[i] <= top
    <2>1. CASE i = n + 1  BY <1>1, <1>5, <2>1
    <2>2. CASE i # n + 1
      <3>1. i \in 1 .. n  BY <1>1, <2>2
      <3>2. t[i] \in Nat /\ low < t[i] /\ t[i] <= high  BY <1>1, <1>2, <1>3, <1>5, <3>1
      <3> QED  BY <3>2
    <2> QED  BY <2>1, <2>2
  <1>6. ASSUME NEW i \in 1 .. Len(t), NEW j \in 1 .. Len(t), i < j, t[i] # NoFrame, t[j] # NoFrame
        PROVE  t[i] < t[j]
    <2>1. i \in 1 .. n  BY <1>1, <1>6
    <2>2. t[i] \in Nat /\ t[i] <= high  BY <1>1, <1>2, <1>3, <1>6, <2>1
    <2>3. CASE j = n + 1
      <3>1. t[j] = x  BY <1>1, <2>3
      <3> QED  BY <1>6, <2>2, <3>1
    <2>4. CASE j # n + 1
      <3>1. j \in 1 .. n  BY <1>1, <2>4
      <3> QED  BY <1>1, <1>4, <1>6, <2>1, <3>1, SMTT(30)
    <2> QED  BY <2>3, <2>4
  <1> QED  BY <1>5, <1>6, Zenon DEF Rising, t

\* The frame that comes first is the smallest.
LEMMA RisingTail ==
    ASSUME NEW s \in Seq(Nat), NEW low \in Nat, NEW high \in Nat, Rising(s, low, high),
           s # <<>>, \A i \in 1 .. Len(s) : s[i] # NoFrame
    PROVE  /\ Head(s) \in Nat /\ Head(s) # NoFrame /\ low < Head(s) /\ Head(s) <= high
           /\ Tail(s) \in Seq(Nat) /\ Rising(Tail(s), Head(s), high)
           /\ \A i \in 1 .. Len(Tail(s)) : Tail(s)[i] # NoFrame
  <1> DEFINE t == Tail(s)
             h == Head(s)
             n == Len(s)
  <1>1. /\ n \in Nat /\ n > 0 /\ t \in Seq(Nat) /\ Len(t) = n - 1 /\ h = s[1] /\ h \in Nat
        /\ \A i \in 1 .. n - 1 : t[i] = s[i + 1]
    OBVIOUS
  <1>2. \A i \in 1 .. n : s[i] \in Nat /\ s[i] # NoFrame  OBVIOUS
  <1>3. \A i \in 1 .. n : low < s[i] /\ s[i] <= high  BY <1>2 DEF Rising
  <1>4. \A i, j \in 1 .. n : i < j => s[i] < s[j]  BY <1>2 DEF Rising
  <1> HIDE DEF t, h, n
  <1>5. ASSUME NEW i \in 1 .. Len(t)
        PROVE  i + 1 \in 1 .. n /\ 1 \in 1 .. n /\ 1 < i + 1 /\ t[i] = s[i + 1]
    BY <1>1
  <1>6. ASSUME NEW i \in 1 .. Len(t) PROVE h < t[i] /\ t[i] <= high /\ t[i] # NoFrame
    BY <1>1, <1>2, <1>3, <1>4, <1>5, Zenon
  <1>7. ASSUME NEW i \in 1 .. Len(t), NEW j \in 1 .. Len(t), i < j PROVE t[i] < t[j]
    <2>1. i + 1 \in 1 .. n /\ j + 1 \in 1 .. n /\ i + 1 < j + 1  BY <1>1, <1>7
    <2> QED  BY <1>1, <1>4, <2>1
  <1>8. Rising(t, h, high)  BY <1>6, <1>7 DEF Rising
  <1>9. h # NoFrame /\ low < h /\ h <= high  BY <1>1, <1>2, <1>3
  <1> QED  BY <1>1, <1>6, <1>8, <1>9 DEF t, h

\* Frames that follow others stay in order.
LEMMA RisingConcat ==
    ASSUME NEW s \in Seq(Nat), NEW t \in Seq(Nat), NEW a \in Nat, NEW b \in Nat, a <= b,
           Rising(s, 0, a), Rising(t, a, b)
    PROVE  Rising(s \o t, 0, b)
  <1> DEFINE u == s \o t
             n == Len(s)
  <1>1. /\ n \in Nat /\ Len(t) \in Nat /\ Len(u) = n + Len(t)
        /\ \A i \in 1 .. n : u[i] = s[i]
        /\ \A i \in 1 .. Len(u) : i > n => u[i] = t[i - n]
    OBVIOUS
  <1>2. (\A i \in 1 .. n : s[i] \in Nat) /\ (\A i \in 1 .. Len(t) : t[i] \in Nat)  OBVIOUS
  <1>3. /\ \A i \in 1 .. n : s[i] # NoFrame => 0 < s[i] /\ s[i] <= a
        /\ \A i, j \in 1 .. n : i < j /\ s[i] # NoFrame /\ s[j] # NoFrame => s[i] < s[j]
    BY DEF Rising
  <1>4. /\ \A i \in 1 .. Len(t) : t[i] # NoFrame => a < t[i] /\ t[i] <= b
        /\ \A i, j \in 1 .. Len(t) : i < j /\ t[i] # NoFrame /\ t[j] # NoFrame => t[i] < t[j]
    BY DEF Rising
  <1> HIDE DEF u, n
  <1>5. ASSUME NEW i \in 1 .. Len(u)
        PROVE  \/ i \in 1 .. n /\ u[i] = s[i]
               \/ i > n /\ i - n \in 1 .. Len(t) /\ u[i] = t[i - n]
    <2>1. CASE i <= n  BY <1>1, <2>1
    <2>2. CASE i > n  BY <1>1, <2>2
    <2> QED  BY <1>1, <2>1, <2>2
  <1>6. ASSUME NEW i \in 1 .. Len(u), u[i] # NoFrame PROVE 0 < u[i] /\ u[i] <= b
    BY <1>2, <1>3, <1>4, <1>5, <1>6
  <1>7. ASSUME NEW i \in 1 .. Len(u), NEW j \in 1 .. Len(u), i < j, u[i] # NoFrame, u[j] # NoFrame
        PROVE  u[i] < u[j]
    <2>1. CASE j \in 1 .. n
      <3>1. i \in 1 .. n  BY <1>1, <1>7, <2>1
      <3> QED  BY <1>1, <1>3, <1>7, <2>1, <3>1
    <2>2. CASE j \notin 1 .. n
      <3>1. j - n \in 1 .. Len(t) /\ u[j] = t[j - n]  BY <1>5, <2>2
      <3>2. CASE i \in 1 .. n
        <4>1. u[i] \in Nat /\ u[i] <= a  BY <1>1, <1>2, <1>3, <1>7, <3>2
        <4>2. u[j] \in Nat /\ a < u[j]  BY <1>2, <1>4, <1>7, <3>1
        <4> QED  BY <4>1, <4>2
      <3>3. CASE i \notin 1 .. n
        <4>1. i - n \in 1 .. Len(t) /\ u[i] = t[i - n]  BY <1>5, <3>3
        <4>2. i - n < j - n  BY <1>1, <1>7
        <4> QED  BY <1>4, <1>7, <3>1, <4>1, <4>2
      <3> QED  BY <3>2, <3>3
    <2> QED  BY <2>1, <2>2
  <1> QED  BY <1>6, <1>7 DEF Rising, u

\* The frames of a sequence of buffers.
LEMMA FramesSeq ==
    ASSUME NEW bufs \in Seq(Buf), NEW buf \in Buf
    PROVE  /\ Frames(bufs) \in Seq(Nat) /\ Frames(<<>>) = <<>>
           /\ buf.frame \in Nat
           /\ Frames(Append(bufs, buf)) = Append(Frames(bufs), buf.frame)
  <1>1. \A x \in Buf : x.frame \in Nat  BY DEF Buf
  <1>2. Frames(bufs) \in Seq(Nat) /\ Len(Frames(bufs)) = Len(bufs)  BY <1>1 DEF Frames
  <1>3. Frames(<<>>) = <<>>  BY DEF Frames
  <1>4. Frames(Append(bufs, buf)) = Append(Frames(bufs), buf.frame)
    <2> DEFINE l == Append(bufs, buf)
               r == Append(Frames(bufs), buf.frame)
    <2>1. l \in Seq(Buf) /\ r \in Seq(Nat)  BY <1>1, <1>2
    <2>2. Frames(l) \in Seq(Nat) /\ Len(Frames(l)) = Len(l)  BY <1>1, <2>1 DEF Frames
    <2>3. Len(r) = Len(Frames(l))  BY <1>2, <2>2
    <2>4. ASSUME NEW i \in 1 .. Len(r) PROVE Frames(l)[i] = r[i]
      BY <1>2, <2>1, <2>3 DEF Frames
    <2> DEFINE f == Frames(l)
    <2> HIDE DEF l, r, f
    <2>5. f = r
      <3>1. f \in Seq(Nat) /\ Len(f) = Len(r) /\ \A i \in 1 .. Len(r) : f[i] = r[i]
        BY <2>2, <2>3, <2>4 DEF f
      <3> QED  BY <2>1, <3>1
    <2> QED  BY <2>5 DEF l, r, f
  <1> QED  BY <1>1, <1>2, <1>3, <1>4

\* The driver posts a buffer.
LEMMA RxPost ==
    ASSUME NEW avail \in Seq(Buf), NEW used, NEW rx, NEW in, NEW got, NEW arrived,
           NEW buf \in Buf, buf.frame = NoFrame, RxOrder(avail, used, rx, in, got, arrived)
    PROVE  RxOrder(Append(avail, buf), used, rx, in, got, arrived)
  <1>1. PICK a, b, c \in Nat : RxBetween(avail, used, rx, in, got, arrived, a, b, c)
    BY DEF RxOrder
  <1>2. \A i \in 1 .. Len(Append(avail, buf)) : Append(avail, buf)[i].frame = NoFrame
    BY <1>1 DEF RxBetween
  <1>3. RxBetween(Append(avail, buf), used, rx, in, got, arrived, a, b, c)
    BY <1>1, <1>2 DEF RxBetween
  <1> QED  BY <1>3 DEF RxOrder

\* The device takes a buffer and gives it back with the held frame, gives it back
\* empty, or loses it.
LEMMA RxFlush ==
    ASSUME NEW avail \in Seq(Buf), NEW used \in Seq(Buf), NEW rx \in Nat, NEW in, NEW got,
           NEW arrived \in Nat, avail # <<>>, RxOrder(avail, used, rx, in, got, arrived)
    PROVE  LET buf == Head(avail)
               full == [buf EXCEPT !.frame = rx]
           IN  /\ buf \in Buf /\ full \in Buf /\ Tail(avail) \in Seq(Buf)
               /\ rx # NoFrame
                    => RxOrder(Tail(avail), Append(used, full), NoFrame, in, got, arrived)
               /\ RxOrder(Tail(avail), Append(used, buf), rx, in, got, arrived)
               /\ RxOrder(Tail(avail), used, rx, in, got, arrived)
  <1>1. PICK a, b, c \in Nat : RxBetween(avail, used, rx, in, got, arrived, a, b, c)
    BY DEF RxOrder
  <1> DEFINE buf == Head(avail)
             full == [buf EXCEPT !.frame = rx]
             t == Tail(avail)
  <1>2. buf \in Buf /\ t \in Seq(Buf) /\ buf = avail[1] /\ 1 \in 1 .. Len(avail)  OBVIOUS
  <1>3. full \in Buf /\ full.frame = rx  BY <1>2, Zenon DEF Buf
  <1>4. buf.frame = NoFrame  BY <1>1, <1>2 DEF RxBetween
  <1>5. \A i \in 1 .. Len(t) : t[i].frame = NoFrame
    <2>1. \A i \in 1 .. Len(t) : i + 1 \in 1 .. Len(avail) /\ t[i] = avail[i + 1]  OBVIOUS
    <2> QED  BY <1>1, <2>1 DEF RxBetween
  <1>6. RxBetween(t, used, rx, in, got, arrived, a, b, c)  BY <1>1, <1>5 DEF RxBetween
  <1> HIDE DEF buf, full, t
  <1>7. Frames(used) \in Seq(Nat) /\ Rising(Frames(used), a, b) /\ a <= b
    BY <1>1, <1>2, FramesSeq DEF RxBetween
  <1>8. RxBetween(t, Append(used, buf), rx, in, got, arrived, a, b, c)
    <2>1. Rising(Append(Frames(used), NoFrame), a, b)  BY <1>7, RisingAppend DEF NoFrame
    <2>2. Rising(Frames(Append(used, buf)), a, b)  BY <1>2, <1>4, <2>1, FramesSeq, Zenon
    <2> QED  BY <1>6, <2>2 DEF RxBetween
  <1>9. ASSUME rx # NoFrame
        PROVE  RxBetween(t, Append(used, full), NoFrame, in, got, arrived, a, rx, c)
    <2>1. b < rx /\ rx <= c /\ b <= rx  BY <1>1, <1>9 DEF RxBetween
    <2>2. Rising(Append(Frames(used), rx), a, rx)  BY <1>7, <2>1, RisingAppend
    <2>3. Rising(Frames(Append(used, full)), a, rx)  BY <1>3, <2>2, FramesSeq, Zenon
    <2> QED  BY <1>6, <1>7, <2>1, <2>3 DEF RxBetween
  <1> QED  BY <1>2, <1>3, <1>6, <1>8, <1>9 DEF RxOrder, buf, full, t

\* The device reads a frame of the TAP while it holds none, and keeps it or not.
LEMMA RxRead ==
    ASSUME NEW avail, NEW used, NEW in \in Seq(Nat), NEW got, NEW arrived \in Nat, in # <<>>,
           RxOrder(avail, used, NoFrame, in, got, arrived)
    PROVE  /\ Head(in) \in Nat /\ Head(in) # NoFrame /\ Tail(in) \in Seq(Nat)
           /\ RxOrder(avail, used, Head(in), Tail(in), got, arrived)
           /\ RxOrder(avail, used, NoFrame, Tail(in), got, arrived)
  <1>1. PICK a, b, c \in Nat : RxBetween(avail, used, NoFrame, in, got, arrived, a, b, c)
    BY DEF RxOrder
  <1> DEFINE h == Head(in)
             t == Tail(in)
  <1>2. /\ h \in Nat /\ h # NoFrame /\ c < h /\ h <= arrived
        /\ t \in Seq(Nat) /\ Rising(t, h, arrived) /\ \A i \in 1 .. Len(t) : t[i] # NoFrame
    BY <1>1, RisingTail DEF RxBetween
  <1> HIDE DEF h, t
  <1>3. RxBetween(avail, used, h, t, got, arrived, a, b, h)  BY <1>1, <1>2 DEF RxBetween
  <1>4. RxBetween(avail, used, NoFrame, t, got, arrived, a, b, h)  BY <1>1, <1>2 DEF RxBetween
  <1> QED  BY <1>2, <1>3, <1>4 DEF RxOrder, h, t

\* The held frame is dropped, and the rings may be emptied by a reset.
LEMMA RxDrop ==
    ASSUME NEW avail, NEW used, NEW rx, NEW in, NEW got, NEW arrived,
           RxOrder(avail, used, rx, in, got, arrived)
    PROVE  /\ RxOrder(avail, used, NoFrame, in, got, arrived)
           /\ RxOrder(<<>>, <<>>, rx, in, got, arrived)
  <1>1. PICK a, b, c \in Nat : RxBetween(avail, used, rx, in, got, arrived, a, b, c)
    BY DEF RxOrder
  <1>2. RxBetween(avail, used, NoFrame, in, got, arrived, a, b, c)  BY <1>1 DEF RxBetween
  <1>3. Frames(<<>>) = <<>>  BY DEF Frames
  <1>4. RxBetween(<<>>, <<>>, rx, in, got, arrived, a, b, c)
    BY <1>1, <1>3 DEF RxBetween, Rising
  <1> QED  BY <1>2, <1>4 DEF RxOrder

\* A frame arrives on the TAP.
LEMMA RxArrive ==
    ASSUME NEW avail, NEW used, NEW rx, NEW in \in Seq(Nat), NEW got, NEW arrived \in Nat,
           RxOrder(avail, used, rx, in, got, arrived)
    PROVE  RxOrder(avail, used, rx, Append(in, arrived + 1), got, arrived + 1)
  <1>1. PICK a, b, c \in Nat : RxBetween(avail, used, rx, in, got, arrived, a, b, c)
    BY DEF RxOrder
  <1> DEFINE n == arrived + 1
             t == Append(in, n)
  <1>2. n \in Nat /\ n # NoFrame /\ arrived < n /\ arrived <= n  BY DEF NoFrame
  <1>3. \A i \in 1 .. Len(t) : t[i] # NoFrame
    <2>1. \A i \in 1 .. Len(in) : in[i] # NoFrame  BY <1>1 DEF RxBetween
    <2> QED  BY <1>2, <2>1
  <1> HIDE DEF n, t
  <1>4. Rising(t, c, n)  BY <1>1, <1>2, RisingAppend DEF RxBetween, t
  <1>5. RxBetween(avail, used, rx, t, got, n, a, b, c)  BY <1>1, <1>2, <1>3, <1>4 DEF RxBetween
  <1> QED  BY <1>5 DEF RxOrder, n, t

\* The driver takes what is on the used ring.
LEMMA RxReap ==
    ASSUME NEW avail, NEW used \in Seq(Buf), NEW rx, NEW in, NEW got \in Seq(Nat), NEW arrived,
           RxOrder(avail, used, rx, in, got, arrived)
    PROVE  /\ Frames(used) \in Seq(Nat)
           /\ RxOrder(avail, <<>>, rx, in, got \o Frames(used), arrived)
  <1>1. PICK a, b, c \in Nat : RxBetween(avail, used, rx, in, got, arrived, a, b, c)
    BY DEF RxOrder
  <1> DEFINE f == Frames(used)
  <1>2. f \in Seq(Nat)
    <2>1. \A x \in Buf : x.frame \in Nat  BY DEF Buf
    <2> QED  BY <2>1 DEF Frames
  <1>3. Rising(f, a, b) /\ Rising(got, 0, a) /\ a <= b  BY <1>1 DEF RxBetween
  <1> HIDE DEF f
  <1>4. Rising(got \o f, 0, b)  BY <1>2, <1>3, RisingConcat
  <1>5. Frames(<<>>) = <<>>  BY DEF Frames
  <1>6. RxBetween(avail, <<>>, rx, in, got \o f, arrived, b, b, c)
    BY <1>1, <1>4, <1>5 DEF RxBetween, Rising
  <1> QED  BY <1>2, <1>6 DEF RxOrder, f

------------------------------------------------------------------------------
(* The transport *)

\* n differs from m at most in the rings of q.
Elsewhere(m, n, q) ==
    /\ n \in Mmio /\ n.intr = m.intr
    /\ \A r \in Queues :
          /\ Ready(n, r) = Ready(m, r)
          /\ r # q => Avail(n, r) = Avail(m, r) /\ Used(n, r) = Used(m, r)

\* The rings of a transport.
LEMMA RingTypes ==
    ASSUME NEW m \in Mmio, NEW q \in Queues
    PROVE  /\ Avail(m, q) \in Seq(Buf) /\ Used(m, q) \in Seq(Buf)
           /\ Ready(m, q) \in BOOLEAN /\ m.intr \in BOOLEAN
  BY DEF Mmio, Queue, Avail, Used, Ready

\* A new transport.
LEMMA NewFields ==
    /\ NewMmio \in Mmio /\ NewMmio.intr = FALSE
    /\ \A q \in Queues : /\ Avail(NewMmio, q) = <<>> /\ Used(NewMmio, q) = <<>>
                         /\ ~ Ready(NewMmio, q)
  <1>1. <<>> \in Seq(Buf)  OBVIOUS
  <1>2. NewQueue \in Queue  BY <1>1 DEF NewQueue, Queue
  <1>3. NewMmio \in Mmio  BY <1>2 DEF NewMmio, Mmio
  <1> QED  BY <1>3 DEF NewMmio, NewQueue, Avail, Used, Ready

\* Queue::pop_descriptor_chain.
LEMMA PopFields ==
    ASSUME NEW m \in Mmio, NEW q \in Queues, Avail(m, q) # <<>>
    PROVE  LET n == PopAvail(m, q)
           IN  /\ Elsewhere(m, n, q)
               /\ Avail(n, q) = Tail(Avail(m, q)) /\ Used(n, q) = Used(m, q)
  <1> DEFINE n == PopAvail(m, q)
             t == Tail(Avail(m, q))
  <1>1. t \in Seq(Buf)  BY RingTypes
  <1>2. n = [m EXCEPT !.queues = [m.queues EXCEPT ![q] = [m.queues[q] EXCEPT !.avail = t]]]
    BY DEF PopAvail, Avail
  <1> HIDE DEF n, t
  <1>3. [m.queues[q] EXCEPT !.avail = t] \in Queue  BY <1>1, Zenon DEF Mmio, Queue
  <1>4. n \in Mmio  BY <1>2, <1>3 DEF Mmio
  <1>5. n.intr = m.intr /\ n.queues = [m.queues EXCEPT ![q] = [m.queues[q] EXCEPT !.avail = t]]
    BY <1>2 DEF Mmio
  <1>6. Avail(n, q) = t /\ Used(n, q) = Used(m, q) /\ Ready(n, q) = Ready(m, q)
    BY <1>5 DEF Avail, Used, Ready, Mmio, Queue
  <1>7. \A r \in Queues : r # q => /\ Avail(n, r) = Avail(m, r) /\ Used(n, r) = Used(m, r)
                                   /\ Ready(n, r) = Ready(m, r)
    BY <1>5 DEF Avail, Used, Ready, Mmio
  <1> QED  BY <1>4, <1>5, <1>6, <1>7 DEF Elsewhere, n, t

\* Queue::add_used.
LEMMA UsedFields ==
    ASSUME NEW m \in Mmio, NEW q \in Queues, NEW buf \in Buf
    PROVE  LET n == AddUsed(m, q, buf)
           IN  /\ Elsewhere(m, n, q)
               /\ Avail(n, q) = Avail(m, q) /\ Used(n, q) = Append(Used(m, q), buf)
  <1> DEFINE n == AddUsed(m, q, buf)
             t == Append(Used(m, q), buf)
  <1>1. t \in Seq(Buf)  BY RingTypes
  <1>2. n = [m EXCEPT !.queues = [m.queues EXCEPT ![q] = [m.queues[q] EXCEPT !.used = t]]]
    BY DEF AddUsed, Used
  <1> HIDE DEF n, t
  <1>3. [m.queues[q] EXCEPT !.used = t] \in Queue  BY <1>1, Zenon DEF Mmio, Queue
  <1>4. n \in Mmio  BY <1>2, <1>3 DEF Mmio
  <1>5. n.intr = m.intr /\ n.queues = [m.queues EXCEPT ![q] = [m.queues[q] EXCEPT !.used = t]]
    BY <1>2 DEF Mmio
  <1>6. Used(n, q) = t /\ Avail(n, q) = Avail(m, q) /\ Ready(n, q) = Ready(m, q)
    BY <1>5 DEF Avail, Used, Ready, Mmio, Queue
  <1>7. \A r \in Queues : r # q => /\ Avail(n, r) = Avail(m, r) /\ Used(n, r) = Used(m, r)
                                   /\ Ready(n, r) = Ready(m, r)
    BY <1>5 DEF Avail, Used, Ready, Mmio
  <1> QED  BY <1>4, <1>5, <1>6, <1>7 DEF Elsewhere, n, t

------------------------------------------------------------------------------
(* Steps of the worker *)

\* Both queues are queues.
LEMMA TwoQueues == TX \in Queues /\ RX \in Queues /\ TX # RX
  BY VirtioNetAssumption

\* A buffer in hand, wherever it came from, is given back, and was sent or not.
LEMMA GiveInv ==
    ASSUME Inv, NEW m, NEW buf \in Buf, buf # NoBuf, Elsewhere(mmio, m, TX),
           Used(m, TX) = Used(mmio, TX),
           TxOrder(Avail(m, TX), Used(m, TX), buf, tap.out, guest.back, guest.posted[TX]),
           TxKept(guest.mine, Avail(m, TX), Used(m, TX), buf, guest.back),
           NEW next \in {"tx", "rx_start"}, NEW err \in BOOLEAN,
           Complete(m, buf, next, err), net' = [net EXCEPT !.tx = NoBuf],
           \/ tap' = tap
           \/ tap' = [tap EXCEPT !.out = Append(@, buf.id), !.held = @ + 1],
           UNCHANGED <<kick, guest>>
    PROVE  Inv'
  <1>0. /\ m \in Mmio /\ Avail(m, TX) \in Seq(Buf) /\ Used(m, TX) \in Seq(Buf) /\ m.intr = mmio.intr
        /\ Avail(m, RX) = Avail(mmio, RX) /\ Used(m, RX) = Used(mmio, RX)
        /\ \A q \in Queues : Ready(m, q) = Ready(mmio, q)
    BY TwoQueues, RingTypes DEF Elsewhere
  <1>1. tap.out \in Seq(Nat) /\ guest.back \in SUBSET Buf /\ guest.posted[TX] \in Nat /\ buf.id \in Nat
    BY TwoQueues DEF Inv, TypeOK, Buf
  <1>2. net'.tx = NoBuf /\ net'.rx = net.rx /\ net' \in [tx : Buf, rx : Nat]
    BY Zenon DEF Inv, TypeOK, NoBuf, Buf, NoFrame
  <1>3. worker'.pc = next /\ worker'.irq
    BY DEF Complete, Inv, TypeOK
  <1>4. /\ Elsewhere(m, mmio', TX) /\ Avail(mmio', TX) = Avail(m, TX)
        /\ Used(mmio', TX) = Append(Used(m, TX), buf)
    BY <1>0, UsedFields, TwoQueues DEF Complete
  <1>5. /\ mmio' \in Mmio
        /\ Avail(mmio', RX) = Avail(mmio, RX) /\ Used(mmio', RX) = Used(mmio, RX)
        /\ \A q \in Queues : Ready(mmio', q) = Ready(mmio, q)
    BY <1>0, <1>4, TwoQueues DEF Elsewhere
  <1>6. /\ tap'.in = tap.in /\ tap'.arrived = tap.arrived
        /\ tap' \in [in : Seq(Nat), arrived : Nat, out : Seq(Nat), held : Nat]
        /\ tap'.out = tap.out \/ tap'.out = Append(tap.out, buf.id)
    <2> DEFINE o == Append(tap.out, buf.id)
               h == tap.held + 1
    <2>1. tap \in [in : Seq(Nat), arrived : Nat, out : Seq(Nat), held : Nat]  BY DEF Inv, TypeOK
    <2>2. o \in Seq(Nat) /\ h \in Nat  BY <1>1, <2>1
    <2>3. tap' = tap \/ tap' = [tap EXCEPT !.out = o, !.held = h]  OBVIOUS
    <2> HIDE DEF o, h
    <2>4. CASE tap' = tap  BY <2>1, <2>4
    <2>5. CASE tap' = [tap EXCEPT !.out = o, !.held = h]
      <3>1. tap'.in = tap.in /\ tap'.arrived = tap.arrived /\ tap'.out = o  BY <2>1, <2>5
      <3>2. tap' \in [in : Seq(Nat), arrived : Nat, out : Seq(Nat), held : Nat]
        BY <2>1, <2>2, <2>5, Zenon
      <3> QED  BY <3>1, <3>2 DEF o
    <2> QED  BY <2>3, <2>4, <2>5
  <1>7. worker' \in [pc : Labels, wantIn : BOOLEAN, wantOut : BOOLEAN, irq : BOOLEAN,
                     gave : BOOLEAN, err : BOOLEAN]
    BY Zenon DEF Complete, Inv, TypeOK, Labels
  <1>8. TypeOK'  BY <1>2, <1>5, <1>6, <1>7 DEF Inv, TypeOK
  <1>9. TxInv'
    <2>1. TxOrder(Avail(m, TX), Append(Used(m, TX), buf), NoBuf, tap'.out, guest.back,
                  guest.posted[TX])
      <3>1. /\ TxOrder(Avail(m, TX), Append(Used(m, TX), buf), NoBuf, tap.out, guest.back,
                       guest.posted[TX])
            /\ TxOrder(Avail(m, TX), Append(Used(m, TX), buf), NoBuf, Append(tap.out, buf.id),
                       guest.back, guest.posted[TX])
        BY <1>0, <1>1, TxGive
      <3> QED  BY <1>6, <3>1, Zenon
    <2>2. TxKept(guest.mine, Avail(m, TX), Append(Used(m, TX), buf), NoBuf, guest.back)
      BY <1>0, <1>1, TxKeptMoves, Zenon
    <2> QED  BY <1>2, <1>4, <2>1, <2>2 DEF TxInv
  <1>10. RxInv'  BY <1>2, <1>5, <1>6 DEF Inv, RxInv
  <1>11. Control'  BY <1>2, <1>3, <1>5, TwoQueues DEF Inv, Control, At, Unlocked
  <1> QED  BY <1>8, <1>9, <1>10, <1>11 DEF Inv

\* tap_try_send of a buffer in hand.
LEMMA SendInv ==
    ASSUME Inv, NEW m, NEW buf \in Buf, buf # NoBuf, Elsewhere(mmio, m, TX),
           Used(m, TX) = Used(mmio, TX),
           TxOrder(Avail(m, TX), Used(m, TX), buf, tap.out, guest.back, guest.posted[TX]),
           TxKept(guest.mine, Avail(m, TX), Used(m, TX), buf, guest.back),
           Send(m, buf), UNCHANGED <<kick, guest>>
    PROVE  Inv'
  <1>0. /\ m \in Mmio /\ Avail(m, TX) \in Seq(Buf) /\ Used(m, TX) \in Seq(Buf) /\ m.intr = mmio.intr
        /\ Avail(m, RX) = Avail(mmio, RX) /\ Used(m, RX) = Used(mmio, RX)
        /\ \A q \in Queues : Ready(m, q) = Ready(mmio, q)
    BY TwoQueues, RingTypes DEF Elsewhere
  <1>2. CASE ~ TapRoom /\ mmio' = m /\ net' = [net EXCEPT !.tx = buf] /\ Goto("rx_start") /\ tap' = tap
    <2>1. net'.tx = buf /\ net'.rx = net.rx /\ net' \in [tx : Buf, rx : Nat]
      BY <1>2, Zenon DEF Inv, TypeOK
    <2>2. worker'.pc = "rx_start" /\ worker'.irq = worker.irq
      BY <1>2 DEF Goto, Inv, TypeOK
    <2>3. TypeOK'
      BY <1>0, <1>2, <2>1, Zenon DEF Inv, TypeOK, Goto, Labels
    <2>4. TxInv'  BY <1>2, <2>1 DEF TxInv
    <2>5. RxInv'  BY <1>0, <1>2, <2>1 DEF Inv, RxInv
    <2>6. Control'  BY <1>0, <1>2, <2>2, TwoQueues DEF Inv, Control, At, Unlocked
    <2> QED  BY <2>3, <2>4, <2>5, <2>6 DEF Inv
  <1>3. ASSUME NEW next \in {"tx", "rx_start"}, NEW err \in BOOLEAN,
               Complete(m, buf, next, err), net' = [net EXCEPT !.tx = NoBuf],
               \/ tap' = tap
               \/ tap' = [tap EXCEPT !.out = Append(@, buf.id), !.held = @ + 1]
        PROVE  Inv'
    BY <1>3, GiveInv, Zenon
  <1> QED  BY <1>2, <1>3, Zenon DEF Send

\* A step that moves the worker and leaves rings, frames and driver alone.
LEMMA MoveInv ==
    ASSUME Inv, UNCHANGED <<mmio, net, tap, guest>>, kick' \in BOOLEAN,
           worker' \in [pc : Labels, wantIn : BOOLEAN, wantOut : BOOLEAN, irq : BOOLEAN,
                        gave : BOOLEAN, err : BOOLEAN],
           worker.irq => worker'.irq,
           worker'.pc \in {"look", "poll", "tx_start"} => ~ worker'.irq,
           worker'.pc = "tx" => net.tx = NoBuf,
           worker'.pc = "rx" => net.rx = NoFrame,
           worker'.pc = "flush" => net.rx # NoFrame
    PROVE  Inv'
  <1>1. TypeOK'  BY DEF Inv, TypeOK
  <1>2. TxInv' /\ RxInv'  BY DEF Inv, TxInv, RxInv
  <1>3. Control'  BY DEF Inv, Control, At, Unlocked
  <1> QED  BY <1>1, <1>2, <1>3 DEF Inv

\* worker_loop keeps the invariant.
LEMMA LoopInv ==
    ASSUME Inv, Look \/ PollReady \/ PollTimeout
    PROVE  Inv'
  <1> DEFINE W == [pc : Labels, wantIn : BOOLEAN, wantOut : BOOLEAN, irq : BOOLEAN,
                   gave : BOOLEAN, err : BOOLEAN]
  <1>1. worker \in W /\ kick \in BOOLEAN  BY DEF Inv, TypeOK
  <1>2. At("look") \/ At("poll") => ~ worker.irq  BY DEF Inv, Control, At, Unlocked
  <1>3. CASE Look
    <2>1. PICK i, o \in BOOLEAN :
              worker' = [worker EXCEPT !.pc = "poll", !.wantIn = i, !.wantOut = o]
      BY <1>3, Zenon DEF Look
    <2>2. worker' \in W /\ worker'.pc = "poll" /\ worker'.irq = worker.irq
      BY <1>1, <2>1, Zenon DEF Labels
    <2> QED  BY <1>1, <1>2, <1>3, <2>2, MoveInv DEF Look
  <1>4. CASE PollReady
    <2>1. worker' \in W /\ worker'.pc = "tx_start" /\ ~ worker'.irq
      BY <1>4, Zenon DEF PollReady, Idle, Labels
    <2> QED  BY <1>1, <1>2, <1>4, <2>1, MoveInv, Zenon DEF PollReady
  <1>5. CASE PollTimeout
    <2>1. worker' \in W /\ worker'.pc = "look" /\ ~ worker'.irq
      BY <1>1, <1>5, Zenon DEF PollTimeout, Idle, Labels
    <2> QED  BY <1>1, <1>2, <1>5, <2>1, MoveInv DEF PollTimeout
  <1> QED  BY <1>3, <1>4, <1>5

\* process_tx keeps the invariant.
LEMMA TxStepInv ==
    ASSUME Inv, StartTx \/ TxNotReady \/ TxNext \/ TxDone
    PROVE  Inv'
  <1> DEFINE W == [pc : Labels, wantIn : BOOLEAN, wantOut : BOOLEAN, irq : BOOLEAN,
                   gave : BOOLEAN, err : BOOLEAN]
  <1>1. /\ worker \in W /\ kick \in BOOLEAN /\ mmio \in Mmio /\ net \in [tx : Buf, rx : Nat]
        /\ tap.out \in Seq(Nat) /\ guest.back \in SUBSET Buf /\ guest.posted[TX] \in Nat
    BY TwoQueues DEF Inv, TypeOK
  <1>2. Avail(mmio, TX) \in Seq(Buf) /\ Used(mmio, TX) \in Seq(Buf)  BY <1>1, RingTypes, TwoQueues
  <1>3. ASSUME NEW l \in {"tx", "rx_start"}, Goto(l)
        PROVE  worker' \in W /\ worker'.pc = l /\ worker'.irq = worker.irq
    BY <1>1, <1>3 DEF Goto, Labels
  <1>4. CASE StartTx
    <2>1. CASE net.tx = NoBuf /\ Goto("tx") /\ UNCHANGED <<mmio, net, tap>>
      BY <1>1, <1>3, <1>4, <2>1, MoveInv DEF StartTx
    <2>2. CASE net.tx # NoBuf /\ Send(mmio, net.tx)
      <3>1. Elsewhere(mmio, mmio, TX)  BY <1>1 DEF Elsewhere
      <3> QED  BY <1>1, <1>4, <2>2, <3>1, SendInv, Zenon DEF StartTx, Inv, TxInv
    <2> QED  BY <1>4, <2>1, <2>2 DEF StartTx
  <1>5. CASE TxNotReady
    <2>1. worker' \in W /\ worker'.pc = "rx_start" /\ worker'.irq = worker.irq
      BY <1>3, <1>5 DEF TxNotReady
    <2>2. net'.tx = NoBuf /\ net'.rx = net.rx /\ net' \in [tx : Buf, rx : Nat]
      BY <1>1, <1>5 DEF TxNotReady, NoBuf, Buf, NoFrame
    <2>3. TypeOK'  BY <1>5, <2>1, <2>2 DEF TxNotReady, Inv, TypeOK
    <2>4. TxInv'
      <3>1. guest.mine = {}  BY <1>5 DEF TxNotReady, Inv, Control
      <3>2. TxOrder(Avail(mmio, TX), Used(mmio, TX), NoBuf, tap.out, guest.back, guest.posted[TX])
        BY <1>1, <1>2, TxDrop DEF Inv, TxInv
      <3> QED  BY <1>5, <2>2, <3>1, <3>2 DEF TxNotReady, TxInv, TxKept
    <2>5. RxInv'  BY <1>5, <2>2 DEF TxNotReady, Inv, RxInv
    <2>6. Control'  BY <1>5, <2>1 DEF TxNotReady, Inv, Control, At, Unlocked
    <2> QED  BY <2>3, <2>4, <2>5, <2>6 DEF Inv
  <1>6. CASE TxNext
    <2> DEFINE m == PopAvail(mmio, TX)
               buf == Head(Avail(mmio, TX))
    <2>1. At("tx") /\ Avail(mmio, TX) # <<>> /\ net.tx = NoBuf  BY <1>6 DEF TxNext, Inv, Control
    <2>2. /\ Elsewhere(mmio, m, TX) /\ Avail(m, TX) = Tail(Avail(mmio, TX))
          /\ Used(m, TX) = Used(mmio, TX)
      BY <1>1, <2>1, PopFields, TwoQueues
    <2>3. /\ buf \in Buf /\ buf # NoBuf
          /\ TxOrder(Tail(Avail(mmio, TX)), Used(mmio, TX), buf, tap.out, guest.back,
                     guest.posted[TX])
      BY <1>1, <1>2, <2>1, TxTake DEF Inv, TxInv
    <2>4. TxKept(guest.mine, Tail(Avail(mmio, TX)), Used(mmio, TX), buf, guest.back)
      BY <1>1, <1>2, <2>1, TxKeptMoves, Zenon DEF Inv, TxInv
    <2> HIDE DEF m, buf
    <2>5. CASE Send(m, buf)
      BY <1>6, <2>2, <2>3, <2>4, <2>5, SendInv, Zenon DEF TxNext
    <2>6. ASSUME NEW next \in {"tx", "rx_start"}, NEW err \in BOOLEAN,
                 Complete(m, buf, next, err), UNCHANGED <<net, tap>>
          PROVE  Inv'
      <3>1. net = [net EXCEPT !.tx = NoBuf]  BY <1>1, <2>1
      <3> QED  BY <1>6, <2>2, <2>3, <2>4, <2>6, <3>1, GiveInv, Zenon DEF TxNext
    <2> QED  BY <1>6, <2>5, <2>6, Zenon DEF TxNext, m, buf
  <1>7. CASE TxDone
    BY <1>1, <1>3, <1>7, MoveInv DEF TxDone
  <1> QED  BY <1>4, <1>5, <1>6, <1>7

\* process_rx and the end of process_net_once keep the invariant.
LEMMA RxStepInv ==
    ASSUME Inv, StartRx \/ RxNotReady \/ ReadTap \/ FlushChain \/ FlushEmpty \/ Finish
    PROVE  Inv'
  <1> DEFINE W == [pc : Labels, wantIn : BOOLEAN, wantOut : BOOLEAN, irq : BOOLEAN,
                   gave : BOOLEAN, err : BOOLEAN]
  <1>1. /\ worker \in W /\ kick \in BOOLEAN /\ mmio \in Mmio /\ net \in [tx : Buf, rx : Nat]
        /\ tap.in \in Seq(Nat) /\ tap.arrived \in Nat /\ net.rx \in Nat
    BY DEF Inv, TypeOK
  <1>2. Avail(mmio, RX) \in Seq(Buf) /\ Used(mmio, RX) \in Seq(Buf)  BY <1>1, RingTypes, TwoQueues
  <1>3. ASSUME NEW l \in {"rx", "flush", "finish"}, Goto(l)
        PROVE  worker' \in W /\ worker'.pc = l /\ worker'.irq = worker.irq
    BY <1>1, <1>3 DEF Goto, Labels
  <1>4. ASSUME UNCHANGED <<kick, mmio, guest>>, net'.tx = net.tx, net' \in [tx : Buf, rx : Nat],
               worker' \in W, worker'.pc \in {"rx", "flush", "finish"}, worker.irq => worker'.irq,
               worker'.pc = "rx" => net'.rx = NoFrame, worker'.pc = "flush" => net'.rx # NoFrame,
               tap' \in [in : Seq(Nat), arrived : Nat, out : Seq(Nat), held : Nat],
               tap'.out = tap.out, tap'.arrived = tap.arrived,
               RxOrder(Avail(mmio, RX), Used(mmio, RX), net'.rx, tap'.in, guest.got, tap.arrived)
        PROVE  Inv'
    <2>1. TypeOK'  BY <1>4 DEF Inv, TypeOK
    <2>2. TxInv'  BY <1>4 DEF Inv, TxInv
    <2>3. RxInv'  BY <1>4 DEF RxInv
    <2>4. Control'  BY <1>4 DEF Inv, Control, At, Unlocked
    <2> QED  BY <2>1, <2>2, <2>3, <2>4 DEF Inv
  <1>5. CASE StartRx
    BY <1>1, <1>3, <1>5, MoveInv DEF StartRx, ToFlush
  <1>6. CASE RxNotReady
    <2>1. net'.rx = NoFrame /\ net'.tx = net.tx /\ net' \in [tx : Buf, rx : Nat]
      BY <1>1, <1>6 DEF RxNotReady, NoFrame
    <2>2. RxOrder(Avail(mmio, RX), Used(mmio, RX), NoFrame, tap.in, guest.got, tap.arrived)
      BY RxDrop DEF Inv, RxInv
    <2>3. worker' \in W /\ worker'.pc = "finish" /\ worker'.irq = worker.irq
      BY <1>3, <1>6 DEF RxNotReady
    <2> QED  BY <1>4, <1>6, <2>1, <2>2, <2>3 DEF RxNotReady, Inv, TypeOK
  <1>7. CASE ReadTap
    <2>1. At("rx") /\ net.rx = NoFrame  BY <1>7 DEF ReadTap, Inv, Control
    <2>2. CASE /\ tap.in # <<>> /\ tap' = [tap EXCEPT !.in = Tail(@)]
               /\ \/ net' = [net EXCEPT !.rx = Head(tap.in)] /\ Goto("flush")
                  \/ UNCHANGED <<net, worker>>
      <3>1. /\ Head(tap.in) \in Nat /\ Head(tap.in) # NoFrame /\ Tail(tap.in) \in Seq(Nat)
            /\ RxOrder(Avail(mmio, RX), Used(mmio, RX), Head(tap.in), Tail(tap.in), guest.got,
                       tap.arrived)
            /\ RxOrder(Avail(mmio, RX), Used(mmio, RX), NoFrame, Tail(tap.in), guest.got,
                       tap.arrived)
        BY <1>1, <2>1, <2>2, RxRead, Zenon DEF Inv, RxInv
      <3> DEFINE h == Head(tap.in)
                 t == Tail(tap.in)
      <3>2. tap' = [tap EXCEPT !.in = t]  BY <2>2
      <3> HIDE DEF h, t
      <3>3. /\ tap' \in [in : Seq(Nat), arrived : Nat, out : Seq(Nat), held : Nat]
            /\ tap'.in = t /\ tap'.out = tap.out /\ tap'.arrived = tap.arrived
        BY <3>1, <3>2, Zenon DEF Inv, TypeOK, t
      <3>4. CASE net' = [net EXCEPT !.rx = h] /\ Goto("flush")
        <4>1. net'.rx = h /\ net'.tx = net.tx /\ net' \in [tx : Buf, rx : Nat]
          BY <1>1, <3>1, <3>4 DEF h
        <4>2. worker' \in W /\ worker'.pc = "flush" /\ worker'.irq = worker.irq  BY <1>3, <3>4
        <4> QED  BY <1>4, <1>7, <3>1, <3>3, <4>1, <4>2 DEF ReadTap, h, t
      <3>5. CASE UNCHANGED <<net, worker>>
        BY <1>1, <1>4, <1>7, <2>1, <3>1, <3>3, <3>5 DEF ReadTap, t, At
      <3> QED  BY <2>2, <3>4, <3>5 DEF h
    <2>3. CASE Goto("finish") /\ UNCHANGED <<net, tap>>
      BY <1>1, <1>3, <1>7, <2>3, MoveInv DEF ReadTap
    <2>4. CASE worker' = [worker EXCEPT !.pc = "finish", !.err = TRUE] /\ UNCHANGED <<net, tap>>
      <3>1. worker' \in W /\ worker'.pc = "finish" /\ worker'.irq = worker.irq
        BY <1>1, <2>4, Zenon DEF Labels
      <3> QED  BY <1>1, <1>7, <2>4, <3>1, MoveInv DEF ReadTap
    <2> QED  BY <1>7, <2>2, <2>3, <2>4 DEF ReadTap, ToFlush
  <1>8. CASE FlushChain
    <2> DEFINE m == PopAvail(mmio, RX)
               buf == Head(Avail(mmio, RX))
               full == [buf EXCEPT !.frame = net.rx]
    <2>1. At("flush") /\ Avail(mmio, RX) # <<>> /\ net.rx # NoFrame
      BY <1>8 DEF FlushChain, Inv, Control
    <2>2. /\ Elsewhere(mmio, m, RX) /\ Avail(m, RX) = Tail(Avail(mmio, RX))
          /\ Used(m, RX) = Used(mmio, RX)
      BY <1>1, <2>1, PopFields, TwoQueues
    <2>3. /\ buf \in Buf /\ full \in Buf
          /\ RxOrder(Tail(Avail(mmio, RX)), Append(Used(mmio, RX), full), NoFrame, tap.in,
                     guest.got, tap.arrived)
          /\ RxOrder(Tail(Avail(mmio, RX)), Append(Used(mmio, RX), buf), net.rx, tap.in,
                     guest.got, tap.arrived)
          /\ RxOrder(Tail(Avail(mmio, RX)), Used(mmio, RX), net.rx, tap.in, guest.got,
                     tap.arrived)
      BY <1>1, <1>2, <2>1, RxFlush DEF Inv, RxInv
    <2> HIDE DEF m, buf, full
    <2>4. m \in Mmio  BY <2>2 DEF Elsewhere
    <2>5. ASSUME Elsewhere(m, mmio', RX), net'.tx = net.tx, net' \in [tx : Buf, rx : Nat],
                 worker' \in W, worker'.pc \in {"rx", "flush", "finish"}, worker.irq => worker'.irq,
                 worker'.pc = "rx" => net'.rx = NoFrame, worker'.pc = "flush" => net'.rx # NoFrame,
                 RxOrder(Avail(mmio', RX), Used(mmio', RX), net'.rx, tap.in, guest.got, tap.arrived)
          PROVE  Inv'
      <3>1. UNCHANGED <<kick, tap, guest>>  BY <1>8 DEF FlushChain
      <3>2. /\ mmio' \in Mmio /\ mmio'.intr = mmio.intr
            /\ Avail(mmio', TX) = Avail(mmio, TX) /\ Used(mmio', TX) = Used(mmio, TX)
            /\ \A q \in Queues : Ready(mmio', q) = Ready(mmio, q)
        BY <2>2, <2>5, TwoQueues, SMTT(30) DEF Elsewhere
      <3>3. TypeOK'  BY <2>5, <3>1, <3>2 DEF Inv, TypeOK
      <3>4. TxInv'  BY <2>5, <3>1, <3>2 DEF Inv, TxInv
      <3>5. RxInv'  BY <2>5, <3>1, SMTT(30) DEF RxInv
      <3>6. Control'  BY <2>5, <3>1, <3>2, TwoQueues DEF Inv, Control, At, Unlocked
      <3> QED  BY <3>3, <3>4, <3>5, <3>6 DEF Inv
    <2>6. CASE /\ mmio' = AddUsed(m, RX, full)
               /\ net' = [net EXCEPT !.rx = NoFrame]
               /\ worker' = [worker EXCEPT !.pc = "rx", !.irq = TRUE, !.gave = FALSE]
      <3>1. /\ Elsewhere(m, mmio', RX) /\ Avail(mmio', RX) = Avail(m, RX)
            /\ Used(mmio', RX) = Append(Used(m, RX), full)
        BY <2>3, <2>4, <2>6, UsedFields, TwoQueues
      <3>2. net'.tx = net.tx /\ net'.rx = NoFrame /\ net' \in [tx : Buf, rx : Nat]
        BY <1>1, <2>6 DEF NoFrame
      <3>3. worker' \in W /\ worker'.pc = "rx" /\ worker'.irq  BY <1>1, <2>6, Zenon DEF Labels
      <3> QED  BY <2>2, <2>3, <2>5, <3>1, <3>2, <3>3
    <2>7. CASE /\ mmio' = AddUsed(m, RX, buf)
               /\ worker' = [worker EXCEPT !.gave = TRUE]
               /\ UNCHANGED net
      <3>1. /\ Elsewhere(m, mmio', RX) /\ Avail(mmio', RX) = Avail(m, RX)
            /\ Used(mmio', RX) = Append(Used(m, RX), buf)
        BY <2>3, <2>4, <2>7, UsedFields, TwoQueues
      <3>2. worker' \in W /\ worker'.pc = "flush" /\ worker'.irq = worker.irq
        BY <1>1, <2>1, <2>7, Zenon DEF At
      <3> QED  BY <1>1, <2>1, <2>2, <2>3, <2>5, <2>7, <3>1, <3>2
    <2>8. CASE /\ mmio' = m
               /\ worker' = [worker EXCEPT !.pc = "finish", !.err = TRUE, !.gave = FALSE]
               /\ UNCHANGED net
      <3>1. Elsewhere(m, mmio', RX)  BY <2>4, <2>8 DEF Elsewhere
      <3>2. worker' \in W /\ worker'.pc = "finish" /\ worker'.irq = worker.irq
        BY <1>1, <2>8, Zenon DEF Labels
      <3> QED  BY <1>1, <2>2, <2>3, <2>5, <2>8, <3>1, <3>2, Zenon
    <2> QED  BY <1>8, <2>6, <2>7, <2>8 DEF FlushChain, m, buf, full
  <1>9. CASE FlushEmpty
    <2>1. worker.gave \in BOOLEAN /\ worker.irq \in BOOLEAN  BY <1>1
    <2>2. CASE worker.gave
      <3>1. /\ worker' = [worker EXCEPT !.pc = "rx", !.irq = TRUE, !.gave = FALSE]
            /\ net' = [net EXCEPT !.rx = NoFrame] /\ UNCHANGED <<mmio, kick, tap, guest>>
        BY <1>9, <2>1, <2>2, Zenon DEF FlushEmpty
      <3>2. net'.tx = net.tx /\ net'.rx = NoFrame /\ net' \in [tx : Buf, rx : Nat]
        BY <1>1, <3>1 DEF NoFrame
      <3>3. worker' \in W /\ worker'.pc = "rx" /\ worker'.irq  BY <1>1, <3>1, Zenon DEF Labels
      <3>4. RxOrder(Avail(mmio, RX), Used(mmio, RX), NoFrame, tap.in, guest.got, tap.arrived)
        BY RxDrop DEF Inv, RxInv
      <3> QED  BY <1>4, <3>1, <3>2, <3>3, <3>4 DEF Inv, TypeOK
    <2>3. CASE ~ worker.gave
      <3>1. /\ worker' = [worker EXCEPT !.pc = "finish", !.irq = worker.irq, !.gave = FALSE]
            /\ net' = net /\ UNCHANGED <<mmio, kick, tap, guest>>
        BY <1>1, <1>9, <2>1, <2>3, Zenon DEF FlushEmpty
      <3>2. worker' \in W /\ worker'.pc = "finish" /\ worker'.irq = worker.irq
        BY <1>1, <3>1, Zenon DEF Labels
      <3> QED  BY <1>1, <3>1, <3>2, MoveInv
    <2> QED  BY <2>2, <2>3
  <1>10. CASE Finish
    <2>1. UNCHANGED <<kick, net, tap, guest>>  BY <1>10 DEF Finish
    <2>2. worker' \in W /\ worker'.pc = "look" /\ ~ worker'.irq
      BY <1>1, <1>10, Zenon DEF Finish, Idle, Labels
    <2>3. /\ mmio' \in Mmio /\ mmio'.queues = mmio.queues
          /\ worker.irq \/ mmio.intr => mmio'.intr
      BY <1>1, <1>10, Zenon DEF Finish, SignalUsedQueue, Mmio
    <2>4. /\ \A q \in Queues : /\ Avail(mmio', q) = Avail(mmio, q) /\ Used(mmio', q) = Used(mmio, q)
                               /\ Ready(mmio', q) = Ready(mmio, q)
      BY <2>3 DEF Avail, Used, Ready
    <2>5. TypeOK'  BY <2>1, <2>2, <2>3 DEF Inv, TypeOK
    <2>6. TxInv' /\ RxInv'  BY <2>1, <2>4, TwoQueues DEF Inv, TxInv, RxInv
    <2>7. Control'  BY <2>1, <2>2, <2>3, <2>4, TwoQueues DEF Inv, Control, At, Unlocked
    <2> QED  BY <2>5, <2>6, <2>7 DEF Inv
  <1> QED  BY <1>5, <1>6, <1>7, <1>8, <1>9, <1>10

------------------------------------------------------------------------------
(* Steps of the driver and of the TAP *)

\* Register writes of the driver keep the invariant.
LEMMA RegisterInv ==
    ASSUME Inv, \/ DriverReset \/ DriverFeatures \/ DriverFeaturesOk
                \/ (\E q \in Queues : EnableQueue(q)) \/ Interrupt
    PROVE  Inv'
  <1>1. mmio \in Mmio /\ ~ worker.irq
    <2>1. Unlocked
      BY Zenon DEF DriverReset, DriverFeatures, DriverFeaturesOk, EnableQueue, Interrupt, WriteRegister
    <2> QED  BY <2>1 DEF Inv, TypeOK, Control
  <1>2. DOMAIN mmio = {"status", "features", "intr", "queues"}  BY <1>1 DEF Mmio
  <1>3. CASE DriverReset
    <2>1. mmio' = NewMmio /\ UNCHANGED <<kick, net, worker, tap>>
      BY <1>3 DEF DriverReset, WriteRegister, WriteStatus, Reset
    <2>2. /\ guest' = [guest EXCEPT !.epoch = @ + 1, !.setup = {}, !.owes = FALSE,
                                    !.isr = FALSE, !.mine = {}, !.back = {}]
      BY <1>3 DEF DriverReset
    <2>3. guest'.mine = {} /\ guest'.back = {} /\ guest'.posted = guest.posted /\ guest'.got = guest.got
      BY <2>2 DEF Inv, TypeOK
    <2>4. TypeOK'
      <3>1. guest.epoch + 1 \in Nat  BY DEF Inv, TypeOK
      <3> QED  BY <2>1, <2>2, <3>1, NewFields, Zenon DEF Inv, TypeOK
    <2>5. TxInv'
      <3>1. TxOrder(<<>>, <<>>, net.tx, tap.out, {}, guest.posted[TX])
        <4>1. /\ Avail(mmio, TX) \in Seq(Buf) /\ Used(mmio, TX) \in Seq(Buf) /\ net.tx \in Buf
              /\ tap.out \in Seq(Nat) /\ guest.back \in SUBSET Buf /\ guest.posted[TX] \in Nat
          BY <1>1, RingTypes, TwoQueues DEF Inv, TypeOK
        <4> QED  BY <4>1, TxDrop DEF Inv, TxInv
      <3> QED  BY <2>1, <2>3, <3>1, NewFields, TwoQueues DEF TxInv, TxKept
    <2>6. RxInv'  BY <2>1, <2>3, RxDrop, NewFields, TwoQueues DEF Inv, RxInv
    <2>7. Control'  BY <2>1, <2>3, NewFields, TwoQueues DEF Inv, Control, At, Unlocked
    <2> QED  BY <2>4, <2>5, <2>6, <2>7 DEF Inv
  <1>4. ASSUME mmio' \in Mmio, mmio'.queues = mmio.queues, UNCHANGED <<kick, net, worker, tap>>,
               \/ guest' = guest /\ mmio'.intr = mmio.intr
               \/ guest' = [guest EXCEPT !.isr = TRUE]
        PROVE  Inv'
    <2>1. \A q \in Queues : /\ Avail(mmio', q) = Avail(mmio, q) /\ Used(mmio', q) = Used(mmio, q)
                            /\ Ready(mmio', q) = Ready(mmio, q)
      BY <1>4 DEF Avail, Used, Ready
    <2>2. /\ guest'.mine = guest.mine /\ guest'.back = guest.back /\ guest'.posted = guest.posted
          /\ guest'.got = guest.got /\ guest'.setup = guest.setup
          /\ guest'.isr \/ (guest'.isr = guest.isr /\ mmio'.intr = mmio.intr)
      <3>1. guest' = guest => guest'.isr = guest.isr  OBVIOUS
      <3>2. guest' = [guest EXCEPT !.isr = TRUE] => guest'.isr  BY DEF Inv, TypeOK
      <3>3. /\ guest'.mine = guest.mine /\ guest'.back = guest.back /\ guest'.posted = guest.posted
            /\ guest'.got = guest.got /\ guest'.setup = guest.setup
        BY <1>4 DEF Inv, TypeOK
      <3> QED  BY <1>4, <3>1, <3>2, <3>3
    <2>3. TypeOK'  BY <1>4, Zenon DEF Inv, TypeOK
    <2>4. TxInv' /\ RxInv'  BY <1>4, <2>1, <2>2, TwoQueues DEF Inv, TxInv, RxInv
    <2>5. Control'  BY <1>4, <2>1, <2>2, TwoQueues DEF Inv, Control, At, Unlocked
    <2> QED  BY <2>3, <2>4, <2>5 DEF Inv
  <1>5. CASE DriverFeatures
    <2>1. PICK sel \in 0 .. 2, value \in SUBSET (LowFeatures \cup HighFeatures) :
              mmio' = WriteDriverFeatures(mmio, sel, value)
      BY <1>5 DEF DriverFeatures, WriteRegister
    <2> DEFINE half == CASE sel = 0 -> LowFeatures [] sel = 1 -> HighFeatures [] OTHER -> {}
               features == (mmio.features \ half) \cup (value \cap half)
    <2>2. features \in SUBSET (LowFeatures \cup HighFeatures)  BY <1>1 DEF Mmio
    <2>3. mmio' = [mmio EXCEPT !.features = features]  BY <2>1 DEF WriteDriverFeatures
    <2> HIDE DEF features
    <2>4. mmio' \in Mmio /\ mmio'.queues = mmio.queues /\ mmio'.intr = mmio.intr
      BY <1>1, <1>2, <2>2, <2>3 DEF Mmio
    <2> QED  BY <1>4, <1>5, <2>4 DEF DriverFeatures
  <1>6. CASE DriverFeaturesOk
    <2>1. PICK status \in SUBSET StatusBits : mmio' = [mmio EXCEPT !.status = status]
      <3>1. mmio' = WriteStatus(mmio, {"driver", "features_ok"})
        BY <1>6 DEF DriverFeaturesOk, WriteRegister
      <3>2. {"driver", "features_ok"} # {}  OBVIOUS
      <3>3. /\ ({"driver", "features_ok"} \ {"features_ok"}) \cup {"failed"} \in SUBSET StatusBits
            /\ {"driver", "features_ok"} \in SUBSET StatusBits
        BY DEF StatusBits
      <3> QED  BY <3>1, <3>2, <3>3, Zenon DEF WriteStatus
    <2>2. mmio' \in Mmio /\ mmio'.queues = mmio.queues /\ mmio'.intr = mmio.intr
      BY <1>1, <1>2, <2>1 DEF Mmio
    <2> QED  BY <1>4, <1>6, <2>2 DEF DriverFeaturesOk
  <1>7. CASE Interrupt
    <2>1. mmio' = [mmio EXCEPT !.intr = FALSE]
      BY <1>7 DEF Interrupt, WriteRegister, WriteInterruptAck
    <2>2. mmio' \in Mmio /\ mmio'.queues = mmio.queues  BY <1>1, <1>2, <2>1, Zenon DEF Mmio
    <2> QED  BY <1>4, <1>7, <2>2 DEF Interrupt
  <1>8. ASSUME NEW q \in Queues, EnableQueue(q) PROVE Inv'
    <2>1. PICK valid \in BOOLEAN : mmio' = WriteQueueReady(mmio, q, TRUE, valid)
      BY <1>8, Zenon DEF EnableQueue, WriteRegister
    <2>2. /\ q \notin guest.setup /\ guest' = [guest EXCEPT !.setup = @ \cup {q}]
          /\ UNCHANGED <<kick, net, worker, tap>>
      BY <1>8 DEF EnableQueue
    <2>3. mmio' = [mmio EXCEPT !.queues = [mmio.queues EXCEPT ![q] =
                                              [mmio.queues[q] EXCEPT !.ready = valid]]]
      BY <2>1, Zenon DEF WriteQueueReady
    <2>4. [mmio.queues[q] EXCEPT !.ready = valid] \in Queue  BY <1>1, Zenon DEF Mmio, Queue
    <2>5. mmio' \in Mmio  BY <1>1, <2>3, <2>4 DEF Mmio
    <2>6. /\ mmio'.intr = mmio.intr
          /\ mmio'.queues = [mmio.queues EXCEPT ![q] = [mmio.queues[q] EXCEPT !.ready = valid]]
      BY <1>2, <2>3
    <2>7. /\ \A r \in Queues : Avail(mmio', r) = Avail(mmio, r) /\ Used(mmio', r) = Used(mmio, r)
          /\ \A r \in Queues : r # q => Ready(mmio', r) = Ready(mmio, r)
      BY <1>1, <2>6 DEF Avail, Used, Ready, Mmio, Queue
    <2>8. /\ guest'.mine = guest.mine /\ guest'.back = guest.back /\ guest'.posted = guest.posted
          /\ guest'.got = guest.got /\ guest'.setup = guest.setup \cup {q} /\ guest'.isr = guest.isr
      BY <2>2 DEF Inv, TypeOK
    <2>9. ~ Ready(mmio, q)  BY <2>2 DEF Inv, Control
    <2>10. TypeOK'
      <3>1. guest.setup \cup {q} \in SUBSET Queues  BY DEF Inv, TypeOK
      <3> QED  BY <2>2, <2>5, <3>1, Zenon DEF Inv, TypeOK
    <2>11. TxInv' /\ RxInv'  BY <2>2, <2>7, <2>8, TwoQueues DEF Inv, TxInv, RxInv
    <2>12. Control'
      BY <2>2, <2>6, <2>7, <2>8, <2>9, TwoQueues DEF Inv, Control, At, Unlocked
    <2> QED  BY <2>10, <2>11, <2>12 DEF Inv
  <1> QED  BY <1>3, <1>5, <1>6, <1>7, <1>8

\* What the driver does in shared memory, and the TAP, keep the invariant.
LEMMA OutsideInv ==
    ASSUME Inv, (\E q \in Queues : Post(q)) \/ Notify \/ Reap \/ TapArrive \/ TapDrain
    PROVE  Inv'
  <1>1. /\ mmio \in Mmio /\ net.tx \in Buf /\ tap.in \in Seq(Nat) /\ tap.out \in Seq(Nat)
        /\ tap.arrived \in Nat /\ tap.held \in Nat
        /\ guest.back \in SUBSET Buf /\ guest.mine \in SUBSET Buf /\ guest.got \in Seq(Nat)
        /\ guest.epoch \in Nat /\ guest.posted \in [Queues -> Nat]
    BY DEF Inv, TypeOK
  <1>2. /\ Avail(mmio, TX) \in Seq(Buf) /\ Used(mmio, TX) \in Seq(Buf)
        /\ Avail(mmio, RX) \in Seq(Buf) /\ Used(mmio, RX) \in Seq(Buf)
        /\ guest.posted[TX] \in Nat
    BY <1>1, RingTypes, TwoQueues
  <1>3. DOMAIN guest = {"epoch", "setup", "posted", "mine", "owes", "isr", "back", "got"}
    BY DEF Inv, TypeOK
  <1>4. ASSUME NEW q \in Queues, Post(q) PROVE Inv'
    <2> DEFINE n == guest.posted[q] + 1
               buf == [id |-> n, epoch |-> guest.epoch, frame |-> NoFrame]
               a == Append(Avail(mmio, q), buf)
               posted == [guest.posted EXCEPT ![q] = n]
               mine == IF q = TX THEN guest.mine \cup {buf} ELSE guest.mine
    <2>1. n \in Nat /\ n # 0 /\ posted \in [Queues -> Nat] /\ posted[q] = n  BY <1>1
    <2>2. buf \in Buf /\ buf.id = n /\ buf.frame = NoFrame /\ buf # NoBuf
      BY <1>1, <2>1 DEF Buf, NoBuf, NoFrame
    <2>3. /\ mmio' = [mmio EXCEPT !.queues = [mmio.queues EXCEPT ![q] =
                                                  [mmio.queues[q] EXCEPT !.avail = a]]]
          /\ guest' = [guest EXCEPT !.posted = posted, !.owes = TRUE, !.mine = mine]
          /\ UNCHANGED <<kick, net, worker, tap>> /\ Ready(mmio, q)
      BY <1>4, Zenon DEF Post, Avail
    <2>4. \A r \in Queues : r # q => posted[r] = guest.posted[r]  BY <1>1, SMTT(30)
    <2>5. a \in Seq(Buf)  BY <1>1, <2>2, RingTypes, SMTT(30)
    <2>6. mine \in SUBSET Buf  BY <1>1, <2>2, SMTT(30)
    <2>7. TX = q => mine = guest.mine \cup {buf}  OBVIOUS
    <2>8. TX # q => mine = guest.mine  OBVIOUS
    <2> HIDE DEF n, buf, a, posted, mine
    <2>9. [mmio.queues[q] EXCEPT !.avail = a] \in Queue  BY <1>1, <2>5, Zenon DEF Mmio, Queue
    <2>10. /\ mmio'.intr = mmio.intr
           /\ mmio'.queues = [mmio.queues EXCEPT ![q] = [mmio.queues[q] EXCEPT !.avail = a]]
      BY <1>1, <2>3 DEF Mmio
    <2>11. mmio' \in Mmio  BY <1>1, <2>3, <2>9, Zenon DEF Mmio
    <2>12. /\ Avail(mmio', q) = a
           /\ \A r \in Queues : /\ Used(mmio', r) = Used(mmio, r) /\ Ready(mmio', r) = Ready(mmio, r)
                                /\ r # q => Avail(mmio', r) = Avail(mmio, r)
      BY <1>1, <2>10, SMTT(30) DEF Avail, Used, Ready, Mmio, Queue
    <2>13. /\ guest'.posted = posted /\ guest'.mine = mine /\ guest'.back = guest.back
           /\ guest'.got = guest.got /\ guest'.isr = guest.isr /\ guest'.setup = guest.setup
      BY <1>3, <2>3
    <2>14. TypeOK'  BY <2>1, <2>3, <2>6, <2>11, Zenon DEF Inv, TypeOK
    <2>15. TxInv'
      <3>1. CASE q = TX
        <4>1. TxOrder(a, Used(mmio, TX), net.tx, tap.out, guest.back, n)
          BY <1>1, <1>2, <2>2, <3>1, TxPost, SMTT(30) DEF Inv, TxInv, n, a
        <4>2. TxKept(guest.mine \cup {buf}, a, Used(mmio, TX), net.tx, guest.back)
          BY <1>1, <1>2, <2>2, <3>1, TxKeptMoves, Zenon DEF Inv, TxInv, a
        <4> QED  BY <2>1, <2>3, <2>7, <2>12, <2>13, <3>1, <4>1, <4>2, TwoQueues DEF TxInv
      <3>2. CASE q # TX
        BY <2>3, <2>4, <2>8, <2>12, <2>13, <3>2, TwoQueues DEF Inv, TxInv
      <3> QED  BY <3>1, <3>2
    <2>16. RxInv'
      <3>1. CASE q = RX
        <4>1. RxOrder(a, Used(mmio, RX), net.rx, tap.in, guest.got, tap.arrived)
          BY <1>2, <2>2, <3>1, RxPost DEF Inv, RxInv, a
        <4> QED  BY <2>3, <2>12, <2>13, <3>1, <4>1, TwoQueues DEF RxInv
      <3>2. CASE q # RX
        BY <2>3, <2>12, <2>13, <3>2, TwoQueues DEF Inv, RxInv
      <3> QED  BY <3>1, <3>2
    <2>17. Control'
      BY <2>3, <2>8, <2>10, <2>12, <2>13, TwoQueues DEF Inv, Control, At, Unlocked
    <2> QED  BY <2>14, <2>15, <2>16, <2>17 DEF Inv
  <1>5. CASE Notify
    <2>1. guest' = [guest EXCEPT !.owes = FALSE] /\ kick' = TRUE /\ UNCHANGED <<mmio, net, worker, tap>>
      BY <1>5 DEF Notify
    <2>2. /\ guest'.posted = guest.posted /\ guest'.mine = guest.mine /\ guest'.back = guest.back
          /\ guest'.got = guest.got /\ guest'.isr = guest.isr /\ guest'.setup = guest.setup
      BY <1>3, <2>1
    <2>3. TypeOK'  BY <2>1, Zenon DEF Inv, TypeOK
    <2>4. TxInv' /\ RxInv' /\ Control'
      BY <2>1, <2>2 DEF Inv, TxInv, RxInv, Control, At, Unlocked
    <2> QED  BY <2>3, <2>4 DEF Inv
  <1>6. CASE Reap
    <2> DEFINE back == guest.back \cup {Used(mmio, TX)[i] : i \in DOMAIN Used(mmio, TX)}
               got == guest.got \o Frames(Used(mmio, RX))
               queues == [q \in Queues |-> [mmio.queues[q] EXCEPT !.used = <<>>]]
    <2>1. /\ guest' = [guest EXCEPT !.isr = FALSE, !.back = back, !.got = got]
          /\ mmio' = [mmio EXCEPT !.queues = queues]
          /\ UNCHANGED <<kick, net, worker, tap>>
      BY <1>6, Zenon DEF Reap
    <2>2. back \in SUBSET Buf  BY <1>1, <1>2
    <2>3. got \in Seq(Nat)
      <3>1. Frames(Used(mmio, RX)) \in Seq(Nat)  BY <1>1, <1>2, RxReap, Zenon DEF Inv, RxInv
      <3> QED  BY <1>1, <3>1
    <2>4. queues \in [Queues -> Queue]
      <3>1. \A q \in Queues : mmio.queues[q] \in Queue  BY <1>1, Zenon DEF Mmio
      <3>2. <<>> \in Seq(Buf)  OBVIOUS
      <3>3. \A x \in Queue : [x EXCEPT !.used = <<>>] \in Queue  BY <3>2, Zenon DEF Queue
      <3> QED  BY <3>1, <3>3
    <2>5. \A q \in Queues : /\ queues[q].avail = mmio.queues[q].avail /\ queues[q].used = <<>>
                            /\ queues[q].ready = mmio.queues[q].ready
      BY <1>1, Zenon DEF Mmio, Queue
    <2>6. TxOrder(Avail(mmio, TX), <<>>, net.tx, tap.out, back, guest.posted[TX])
      BY <1>1, <1>2, TxReap, Zenon DEF Inv, TxInv
    <2>7. TxKept(guest.mine, Avail(mmio, TX), <<>>, net.tx, back)
      BY <1>1, <1>2, TxKeptMoves, Zenon DEF Inv, TxInv
    <2>8. RxOrder(Avail(mmio, RX), <<>>, net.rx, tap.in, got, tap.arrived)
      BY <1>1, <1>2, RxReap DEF Inv, RxInv
    <2> HIDE DEF back, got, queues
    <2>9. /\ guest'.posted = guest.posted /\ guest'.mine = guest.mine /\ guest'.back = back
          /\ guest'.got = got /\ guest'.setup = guest.setup
      BY <1>3, <2>1
    <2>10. mmio' \in Mmio /\ mmio'.queues = queues  BY <1>1, <2>1, <2>4, Zenon DEF Mmio
    <2>11. \A q \in Queues : /\ Avail(mmio', q) = Avail(mmio, q) /\ Used(mmio', q) = <<>>
                             /\ Ready(mmio', q) = Ready(mmio, q)
      BY <2>5, <2>10 DEF Avail, Used, Ready
    <2>12. TypeOK'  BY <2>1, <2>2, <2>3, <2>10, Zenon DEF Inv, TypeOK
    <2>13. TxInv'  BY <2>1, <2>6, <2>7, <2>9, <2>11, TwoQueues DEF TxInv
    <2>14. RxInv'  BY <2>1, <2>8, <2>9, <2>11, TwoQueues DEF RxInv
    <2>15. Control'  BY <2>1, <2>9, <2>11, TwoQueues DEF Inv, Control, At, Unlocked
    <2> QED  BY <2>12, <2>13, <2>14, <2>15 DEF Inv
  <1>7. CASE TapArrive
    <2> DEFINE n == tap.arrived + 1
               in == Append(tap.in, n)
    <2>1. tap' = [tap EXCEPT !.arrived = n, !.in = in] /\ UNCHANGED <<mmio, kick, net, worker, guest>>
      BY <1>7 DEF TapArrive
    <2>2. n \in Nat /\ in \in Seq(Nat)  BY <1>1
    <2>3. RxOrder(Avail(mmio, RX), Used(mmio, RX), net.rx, in, guest.got, n)
      BY <1>1, RxArrive DEF Inv, RxInv
    <2> HIDE DEF n, in
    <2>4. tap'.arrived = n /\ tap'.in = in /\ tap'.out = tap.out  BY <2>1 DEF Inv, TypeOK
    <2>5. TypeOK'  BY <2>1, <2>2, Zenon DEF Inv, TypeOK
    <2>6. TxInv' /\ RxInv' /\ Control'
      BY <2>1, <2>3, <2>4 DEF Inv, TxInv, RxInv, Control, At, Unlocked
    <2> QED  BY <2>5, <2>6 DEF Inv
  <1>8. CASE TapDrain
    <2>1. tap' = [tap EXCEPT !.held = tap.held - 1] /\ UNCHANGED <<mmio, kick, net, worker, guest>>
      BY <1>8 DEF TapDrain
    <2>2. tap.held - 1 \in Nat  BY <1>1, <1>8 DEF TapDrain
    <2>3. tap'.arrived = tap.arrived /\ tap'.in = tap.in /\ tap'.out = tap.out
      BY <2>1 DEF Inv, TypeOK
    <2>4. TypeOK'  BY <2>1, <2>2, Zenon DEF Inv, TypeOK
    <2>5. TxInv' /\ RxInv' /\ Control'
      BY <2>1, <2>3 DEF Inv, TxInv, RxInv, Control, At, Unlocked
    <2> QED  BY <2>4, <2>5 DEF Inv
  <1> QED  BY <1>4, <1>5, <1>6, <1>7, <1>8

------------------------------------------------------------------------------
(* The theorems *)

\* The device starts in the invariant and every step keeps it.
THEOREM NetInvariant == Spec => []Inv
  <1>1. Init => Inv
    <2> SUFFICES ASSUME Init PROVE Inv  OBVIOUS
    <2>1. /\ net.tx = NoBuf /\ net.rx = NoFrame /\ worker.pc = "look" /\ ~ worker.irq
          /\ tap.in = <<>> /\ tap.arrived = 0 /\ tap.out = <<>>
          /\ guest.mine = {} /\ guest.back = {} /\ guest.got = <<>> /\ guest.posted[TX] = 0
      BY TwoQueues DEF Init, Idle
    <2>2. TypeOK
      <3>1. <<>> \in Seq(Nat) /\ TapCap \in Nat  BY VirtioNetAssumption
      <3>2. NoBuf \in Buf /\ NoFrame \in Nat  BY DEF NoBuf, NoFrame, Buf
      <3> QED  BY <3>1, <3>2, NewFields, Zenon DEF Init, TypeOK, Idle, Labels
    <2>3. TxBetween(<<>>, <<>>, NoBuf, <<>>, {}, 0, 0, 0, 0)  BY DEF TxBetween, Ordered
    <2>4. RxBetween(<<>>, <<>>, NoFrame, <<>>, <<>>, 0, 0, 0, 0)
      BY DEF RxBetween, Rising, Frames
    <2>5. mmio = NewMmio  BY SMTT(30) DEF Init
    <2>6. TxInv  BY <2>1, <2>3, <2>5, NewFields, TwoQueues DEF TxInv, TxOrder, TxKept
    <2>7. RxInv  BY <2>1, <2>4, <2>5, NewFields, TwoQueues, Zenon DEF RxInv, RxOrder
    <2>8. Control  BY <2>1, <2>5, NewFields, TwoQueues DEF Control, At, Unlocked
    <2> QED  BY <2>2, <2>6, <2>7, <2>8 DEF Inv
  <1>2. Inv /\ [Next]_vars => Inv'
    <2> SUFFICES ASSUME Inv, [Next]_vars PROVE Inv'  OBVIOUS
    <2>1. CASE WorkerStep  BY <2>1, LoopInv, TxStepInv, RxStepInv DEF WorkerStep
    <2>2. CASE UNCHANGED vars
      <3>1. /\ mmio' = mmio /\ kick' = kick /\ net' = net
            /\ worker' = worker /\ tap' = tap /\ guest' = guest
        BY <2>2, Zenon DEF vars
      <3>2. TypeOK'  BY <3>1, Zenon DEF Inv, TypeOK
      <3>3. TxInv'  BY <3>1, Zenon DEF Inv, TxInv
      <3>4. RxInv'  BY <3>1, Zenon DEF Inv, RxInv
      <3>5. Control'  BY <3>1, Zenon DEF Inv, Control, At, Unlocked
      <3> QED  BY <3>2, <3>3, <3>4, <3>5, Zenon DEF Inv
    <2> QED  BY <2>1, <2>2, RegisterInv, OutsideInv DEF Next
  <1> QED  BY <1>1, <1>2, PTL DEF Spec

\* Every TX buffer posted since the last reset is in one place, and none is on
\* the used ring twice (process_tx, complete_tx).
THEOREM BuffersAreConserved == Spec => []TxBuffersConserved
  <1>1. Inv => TxBuffersConserved
    <2> SUFFICES ASSUME Inv PROVE TxBuffersConserved  OBVIOUS
    <2> DEFINE avail == Avail(mmio, TX)
               used == Used(mmio, TX)
    <2>1. avail \in Seq(Buf) /\ used \in Seq(Buf) /\ net.tx \in Buf /\ guest.mine \in SUBSET Buf
      BY RingTypes, TwoQueues DEF Inv, TypeOK
    <2>2. PICK a, b, c \in Nat :
              TxBetween(avail, used, net.tx, tap.out, guest.back, guest.posted[TX], a, b, c)
      BY DEF Inv, TxInv, TxOrder
    <2>3. TxKept(guest.mine, avail, used, net.tx, guest.back)  BY DEF Inv, TxInv
    <2> HIDE DEF avail, used
    <2>4. /\ \A i \in 1 .. Len(avail) : c < avail[i].id
          /\ \A i \in 1 .. Len(used) : a < used[i].id /\ used[i].id <= b
          /\ \A i, j \in 1 .. Len(used) : i < j => used[i].id < used[j].id
          /\ \A buf \in guest.back : buf.id <= a
          /\ net.tx # NoBuf => b < net.tx.id /\ net.tx.id <= c
          /\ a <= b /\ b <= c
      BY <2>2 DEF TxBetween, Ordered
    <2>5. ASSUME NEW buf \in guest.mine
          PROVE  \E i \in 1 .. 4 : \A j \in 1 .. 4 : Places(buf)[j] <=> i = j
      <3> DEFINE p == buf \in Entries(avail)
                 q == buf = net.tx
                 r == buf \in Entries(used)
                 s == buf \in guest.back
      <3>1. buf \in Buf /\ buf.id \in Nat /\ buf # NoBuf  BY <2>1, <2>3 DEF TxKept, Buf
      <3>2. p <=> \E i \in 1 .. Len(avail) : avail[i] = buf  BY <2>1 DEF Entries
      <3>3. r <=> \E i \in 1 .. Len(used) : used[i] = buf  BY <2>1 DEF Entries
      <3>4. p \/ q \/ r \/ s  BY <2>3, <3>2, <3>3 DEF TxKept
      <3>5. /\ p => c < buf.id
            /\ q => b < buf.id /\ buf.id <= c
            /\ r => a < buf.id /\ buf.id <= b
            /\ s => buf.id <= a
        BY <2>4, <3>1, <3>2, <3>3
      <3>6. \/ p /\ ~ q /\ ~ r /\ ~ s
            \/ ~ p /\ q /\ ~ r /\ ~ s
            \/ ~ p /\ ~ q /\ r /\ ~ s
            \/ ~ p /\ ~ q /\ ~ r /\ s
        <4> HIDE DEF p, q, r, s
        <4> QED  BY <2>4, <3>1, <3>4, <3>5
      <3>7. /\ Places(buf)[1] <=> p
            /\ Places(buf)[2] <=> q
            /\ Places(buf)[3] <=> r
            /\ Places(buf)[4] <=> s
        BY Zenon DEF Places, avail, used
      <3> HIDE DEF p, q, r, s
      <3> QED  BY <3>6, <3>7
    <2>6. \A i, j \in DOMAIN used : used[i] = used[j] => i = j
      <3>1. DOMAIN used = 1 .. Len(used)  BY <2>1
      <3>2. \A i \in 1 .. Len(used) : used[i].id \in Nat
        <4>1. \A x \in Buf : x.id \in Nat  BY DEF Buf
        <4>2. \A i \in 1 .. Len(used) : used[i] \in Buf  BY <2>1
        <4> QED  BY <4>1, <4>2
      <3> QED  BY <2>4, <3>1, <3>2
    <2> QED  BY <2>5, <2>6 DEF TxBuffersConserved, used
  <1> QED  BY <1>1, NetInvariant, PTL

\* Frames leave on the TAP in the order they were posted (pending_tx goes first).
THEOREM TxStaysInOrder == Spec => []TxInOrder
  <1>1. Inv => TxInOrder
    <2> SUFFICES ASSUME Inv PROVE TxInOrder  OBVIOUS
    <2>1. tap.out \in Seq(Nat)  BY DEF Inv, TypeOK
    <2>2. \A i, j \in 1 .. Len(tap.out) : i < j => tap.out[i] < tap.out[j]
      BY DEF Inv, TxInv, TxOrder, TxBetween
    <2>3. DOMAIN tap.out = 1 .. Len(tap.out)  BY <2>1
    <2> QED  BY <2>2, <2>3 DEF TxInOrder, Increasing
  <1> QED  BY <1>1, NetInvariant, PTL

\* Frames reach the guest in the order they arrived (pending_rx_len goes first).
THEOREM RxStaysInOrder == Spec => []RxInOrder
  <1>1. Inv => RxInOrder
    <2> SUFFICES ASSUME Inv PROVE RxInOrder  OBVIOUS
    <2>1. guest.got \in Seq(Nat)  BY DEF Inv, TypeOK
    <2>2. PICK a \in Nat : Rising(guest.got, 0, a)  BY DEF Inv, RxInv, RxOrder, RxBetween
    <2> QED  BY <2>1, <2>2 DEF RxInOrder, Rising
  <1> QED  BY <1>1, NetInvariant, PTL

\* Completed TX buffers always have their interrupt, whatever error ended the
\* pass (the end of process_net_once).
THEOREM UsedBuffersAreSignalled == Spec => []TxUsedIsSignalled
  <1>1. Inv => TxUsedIsSignalled  BY DEF Inv, Control, TxUsedIsSignalled
  <1> QED  BY <1>1, NetInvariant, PTL

==============================================================================
