---------------------------- MODULE VirtioBlkProofs ----------------------------
(***************************************************************************)
(* Proofs about the virtio-blk device, for any number of requests and      *)
(* resets, any size of image and scratch buffer.  Two arguments that do    *)
(* not need each other: along the way a request takes (ring, worker, used  *)
(* ring, driver) what is further along was posted earlier; and while the   *)
(* backend is at work, the scratch buffer and the file agree as far as the *)
(* transfer has come.                                                      *)
(***************************************************************************)
EXTENDS VirtioBlk, TLAPS

Req == [id : Nat, epoch : Nat]
Content == {Zero, Old, Junk} \cup Nat
Fds == {"direct", "buffered"}
Io == [op : {"none", "read", "write", "fsync"}, at : Nat, len : Nat, done : Nat,
       prefer : BOOLEAN, fds : Seq(Fds), swallowed : BOOLEAN]
Disk == [readonly : BOOLEAN, direct : BOOLEAN, useDirect : BOOLEAN, ring : BOOLEAN,
         scratch : [1 .. MaxLen -> Content], late : Io, stray : BOOLEAN,
         data : [Sectors -> Content], dirty : SUBSET Sectors, lost : SUBSET Sectors,
         err : SUBSET Fds]
AskType == [type : {"none", "in", "out", "flush", "get_id", "other", "bad"},
            sector : Nat, len : 0 .. MaxLen, room : BOOLEAN]
Worker == [pc : {"poll", "pop", "io", "add_used", "signal"}, req : Req, ask : AskType,
           io : Io, status : {"none", "ok", "ioerr", "unsupp"}, data : Seq(Content),
           used : BOOLEAN]
Guest == [epoch : Nat, setup : BOOLEAN, posted : Nat, mine : SUBSET Req, owes : BOOLEAN,
          isr : BOOLEAN, back : Seq(Req)]
Queue == [ready : BOOLEAN, avail : Seq(Req), used : Seq(Req)]
Mmio == [status : SUBSET {"driver", "features_ok", "failed"}, features : SUBSET {FLUSH, RO, V1},
         intr : BOOLEAN, queues : [{RQ} -> Queue]]

TypeOK ==
    /\ mmio \in Mmio
    /\ kick \in BOOLEAN
    /\ disk \in Disk
    /\ worker \in Worker
    /\ guest \in Guest

------------------------------------------------------------------------------
(* The way of a request *)

\* The ids of `reqs` grow, from low on and below high.
Ordered(reqs, low, high) ==
    /\ \A i \in 1 .. Len(reqs) : low <= reqs[i].id /\ reqs[i].id < high
    /\ \A i, j \in 1 .. Len(reqs) : i < j => reqs[i].id < reqs[j].id

\* The driver has those below a, the used ring those below b, the one in hand is
\* next, and the ring has those from c on.
Between(avail, used, hand, back, posted, a, b, c) ==
    /\ a <= b /\ b <= c /\ c <= posted + 1
    /\ Ordered(back, 0, a)
    /\ Ordered(used, a, b)
    /\ hand # NoReq => 0 < hand.id /\ b <= hand.id /\ hand.id < c
    /\ Ordered(avail, c, posted + 1)
    /\ \A i \in 1 .. Len(avail) : 0 < avail[i].id
Order(avail, used, hand, back, posted) ==
    \E a, b, c \in Nat : Between(avail, used, hand, back, posted, a, b, c)

\* A request of the driver's is on that way.
Kept(mine, avail, used, hand, back) ==
    \A req \in mine :
        /\ req # NoReq
        /\ \/ \E i \in 1 .. Len(avail) : avail[i] = req
           \/ req = hand
           \/ \E i \in 1 .. Len(used) : used[i] = req
           \/ \E i \in 1 .. Len(back) : back[i] = req

\* Only the first completion since a reset can be older than the reset.
Fresh(avail, used, hand, back, epoch) ==
    /\ \A i \in 1 .. Len(back) : i > 1 => back[i].epoch = epoch
    /\ \A i \in 1 .. Len(used) : i > 1 \/ back # <<>> => used[i].epoch = epoch
    /\ hand # NoReq => hand.epoch = epoch \/ (back = <<>> /\ used = <<>>)
    /\ \A i \in 1 .. Len(avail) : avail[i].epoch = epoch

\* A queue that is not enabled holds nothing but a completion that came late, of
\* which only the index shows.
Disabled(avail, used, hand, back, mine) ==
    /\ avail = <<>> /\ back = <<>> /\ mine = {}
    /\ used = <<>> \/ hand = NoReq
    /\ \A i \in 1 .. Len(used) : used[i] = NoReq

Way(avail, used, hand, back, posted, mine, epoch) ==
    /\ Order(avail, used, hand, back, posted)
    /\ Kept(mine, avail, used, hand, back)
    /\ Fresh(avail, used, hand, back, epoch)

WayInv ==
    /\ Way(Avail, Used, worker.req, guest.back, guest.posted, guest.mine, guest.epoch)
    /\ ~ Ready => Disabled(Avail, Used, worker.req, guest.back, guest.mine)
    /\ InHand <=> worker.req # NoReq

Signalled ==
    /\ Visible # <<>> => mmio.intr \/ guest.isr \/ worker.used \/ At("signal")
    /\ At("poll") => ~ worker.used

------------------------------------------------------------------------------
(* The request in hand *)

InRange(io) == io.len <= MaxLen /\ io.at + io.len <= Capacity /\ io.done <= io.len

\* A read has filled the scratch buffer as far as it has come.
Filled(d, io) == \A i \in 1 .. io.done : d.scratch[i] = d.data[io.at + i - 1]

\* A write finds its data in the scratch buffer, and has put them into the file
\* as far as it has come.
Stored(d, io, id) ==
    /\ \A i \in 1 .. io.len : d.scratch[i] = id
    /\ \A i \in 1 .. io.done : d.data[io.at + i - 1] = id

\* What the backend call has to do with the request it serves.
Serves(d, ask, io, id) ==
    \/ /\ ask.type = "in" /\ io.op = "read"
       /\ io.at = ask.sector /\ io.len = ask.len /\ InRange(io)
       /\ ~ d.stray => Filled(d, io)
    \/ /\ ask.type = "out" /\ io.op = "write" /\ ~ d.readonly
       /\ io.at = ask.sector /\ io.len = ask.len /\ InRange(io)
       /\ ~ d.stray => Stored(d, io, id)
    \/ ask.type = "flush" /\ io.op = "fsync" /\ io.fds # <<>>

\* An operation left behind by a ring that is gone.
LateOK(d) ==
    d.late # NoIo => d.stray /\ InRange(d.late) /\ d.late.op \in {"read", "write"}

\* A sector is lost only by a flush, which has not been answered yet.
LossInHand(d) ==
    d.lost # {} => /\ InHand /\ worker.ask.type = "flush"
                   /\ worker.io.swallowed \/ (At("add_used") /\ worker.status # "ok")

DiskInv ==
    /\ LateOK(disk)
    /\ At("io") => Serves(disk, worker.ask, worker.io, worker.req.id)
    /\ LossInHand(disk)
    /\ AnswerTellsTruth
    /\ FlushIsDurable

Inv == TypeOK /\ WayInv /\ Signalled /\ DiskInv

------------------------------------------------------------------------------
(* Lemmas about the way of a request *)

\* A request with a larger id may come last.
LEMMA OrderedAppend ==
    ASSUME NEW reqs \in Seq(Req), NEW req \in Req, NEW low \in Nat, NEW high \in Nat,
           NEW top \in Nat, Ordered(reqs, low, high), low <= high, high <= req.id, req.id < top
    PROVE  Ordered(Append(reqs, req), low, top)
  <1> DEFINE s == Append(reqs, req)
             n == Len(reqs)
  <1>1. n \in Nat /\ Len(s) = n + 1 /\ s[n + 1] = req /\ \A i \in 1 .. n : s[i] = reqs[i]
    OBVIOUS
  <1>2. req.id \in Nat /\ \A i \in 1 .. n : reqs[i].id \in Nat
    <2>1. \A x \in Req : x.id \in Nat  BY DEF Req
    <2>2. \A i \in 1 .. n : reqs[i] \in Req  OBVIOUS
    <2> QED  BY <2>1, <2>2
  <1>3. \A i \in 1 .. n : low <= reqs[i].id /\ reqs[i].id < high  BY DEF Ordered
  <1>4. \A i, j \in 1 .. n : i < j => reqs[i].id < reqs[j].id  BY DEF Ordered
  <1> HIDE DEF s, n
  <1>5. ASSUME NEW i \in 1 .. Len(s) PROVE low <= s[i].id /\ s[i].id < top
    <2>1. i = n + 1 \/ i \in 1 .. n  BY <1>1
    <2> QED  BY <1>1, <1>2, <1>3, <2>1
  <1>6. ASSUME NEW i \in 1 .. Len(s), NEW j \in 1 .. Len(s), i < j PROVE s[i].id < s[j].id
    <2>1. i \in 1 .. n  BY <1>1, <1>6
    <2>2. CASE j = n + 1  BY <1>1, <1>2, <1>3, <2>1, <2>2
    <2>3. CASE j # n + 1
      <3>1. j \in 1 .. n  BY <1>1, <2>3
      <3> QED  BY <1>1, <1>4, <1>6, <2>1, <3>1, Zenon
    <2> QED  BY <2>2, <2>3
  <1> QED  BY <1>5, <1>6 DEF Ordered, s

\* The first request has the smallest id.
LEMMA OrderedTail ==
    ASSUME NEW reqs \in Seq(Req), NEW low \in Nat, NEW high \in Nat, reqs # <<>>,
           Ordered(reqs, low, high)
    PROVE  /\ Head(reqs) \in Req /\ Head(reqs).id \in Nat /\ Tail(reqs) \in Seq(Req)
           /\ low <= Head(reqs).id /\ Head(reqs).id < high
           /\ Ordered(Tail(reqs), Head(reqs).id + 1, high)
  <1> DEFINE t == Tail(reqs)
             h == Head(reqs)
             n == Len(reqs)
  <1>1. /\ n \in Nat /\ n > 0 /\ t \in Seq(Req) /\ Len(t) = n - 1 /\ h = reqs[1]
        /\ \A i \in 1 .. n - 1 : t[i] = reqs[i + 1]
    OBVIOUS
  <1>2. h \in Req /\ \A i \in 1 .. n : reqs[i] \in Req  OBVIOUS
  <1>3. h.id \in Nat /\ \A i \in 1 .. n : reqs[i].id \in Nat
    <2>1. \A x \in Req : x.id \in Nat  BY DEF Req
    <2> QED  BY <1>2, <2>1
  <1>4. \A i \in 1 .. n : low <= reqs[i].id /\ reqs[i].id < high  BY DEF Ordered
  <1>5. \A i, j \in 1 .. n : i < j => reqs[i].id < reqs[j].id  BY DEF Ordered
  <1> HIDE DEF t, h, n
  <1>6. low <= h.id /\ h.id < high  BY <1>1, <1>4
  <1>7. ASSUME NEW i \in 1 .. Len(t) PROVE h.id + 1 <= t[i].id /\ t[i].id < high
    <2>1. i + 1 \in 1 .. n /\ 1 \in 1 .. n /\ 1 < i + 1 /\ t[i] = reqs[i + 1]  BY <1>1
    <2>2. h.id < t[i].id /\ t[i].id < high /\ t[i].id \in Nat
      BY <1>1, <1>3, <1>4, <1>5, <2>1, Zenon
    <2> QED  BY <1>3, <2>2
  <1>8. ASSUME NEW i \in 1 .. Len(t), NEW j \in 1 .. Len(t), i < j PROVE t[i].id < t[j].id
    <2>1. i + 1 \in 1 .. n /\ j + 1 \in 1 .. n /\ i + 1 < j + 1  BY <1>1, <1>8
    <2>2. t[i] = reqs[i + 1] /\ t[j] = reqs[j + 1]  BY <1>1
    <2> QED  BY <1>5, <2>1, <2>2, Zenon
  <1>9. Ordered(t, h.id + 1, high)  BY <1>7, <1>8 DEF Ordered
  <1> QED  BY <1>1, <1>2, <1>3, <1>6, <1>9 DEF t, h

\* Smaller ids may come before larger ones.
LEMMA OrderedConcat ==
    ASSUME NEW r \in Seq(Req), NEW s \in Seq(Req), NEW low \in Nat, NEW mid \in Nat,
           NEW high \in Nat, Ordered(r, low, mid), Ordered(s, mid, high), low <= mid, mid <= high
    PROVE  Ordered(r \o s, low, high)
  <1> DEFINE t == r \o s
             m == Len(r)
             n == Len(s)
  <1>1. /\ m \in Nat /\ n \in Nat /\ Len(t) = m + n
        /\ \A i \in 1 .. m : t[i] = r[i]
        /\ \A i \in m + 1 .. m + n : i - m \in 1 .. n /\ t[i] = s[i - m]
    OBVIOUS
  <1>2. /\ \A i \in 1 .. m : r[i].id \in Nat
        /\ \A i \in 1 .. n : s[i].id \in Nat
    <2>1. \A x \in Req : x.id \in Nat  BY DEF Req
    <2>2. (\A i \in 1 .. m : r[i] \in Req) /\ (\A i \in 1 .. n : s[i] \in Req)  OBVIOUS
    <2> QED  BY <2>1, <2>2
  <1>3. /\ \A i \in 1 .. m : low <= r[i].id /\ r[i].id < mid
        /\ \A i \in 1 .. n : mid <= s[i].id /\ s[i].id < high
    BY DEF Ordered
  <1>4. /\ \A i, j \in 1 .. m : i < j => r[i].id < r[j].id
        /\ \A i, j \in 1 .. n : i < j => s[i].id < s[j].id
    BY DEF Ordered
  <1> HIDE DEF t, m, n
  <1>5. \A i \in 1 .. Len(t) : i \in 1 .. m \/ i \in m + 1 .. m + n  BY <1>1
  <1>6. ASSUME NEW i \in 1 .. Len(t) PROVE low <= t[i].id /\ t[i].id < high
    BY <1>1, <1>2, <1>3, <1>5
  <1>7. ASSUME NEW i \in 1 .. Len(t), NEW j \in 1 .. Len(t), i < j PROVE t[i].id < t[j].id
    <2>1. CASE j \in 1 .. m
      <3>1. i \in 1 .. m  BY <1>1, <1>7, <2>1
      <3> QED  BY <1>1, <1>4, <1>7, <2>1, <3>1
    <2>2. CASE i \in 1 .. m /\ j \in m + 1 .. m + n
      <3>1. t[i].id \in Nat /\ t[i].id < mid /\ t[j].id \in Nat /\ mid <= t[j].id
        BY <1>1, <1>2, <1>3, <2>2, Zenon
      <3> QED  BY <3>1
    <2>3. CASE i \in m + 1 .. m + n
      <3>1. j \in m + 1 .. m + n  BY <1>1, <1>7, <2>3
      <3>2. i - m \in 1 .. n /\ j - m \in 1 .. n /\ i - m < j - m  BY <1>1, <1>7, <2>3, <3>1
      <3>3. t[i] = s[i - m] /\ t[j] = s[j - m]  BY <1>1, <2>3, <3>1
      <3> QED  BY <1>4, <3>2, <3>3, Zenon
    <2> QED  BY <1>5, <2>1, <2>2, <2>3
  <1> QED  BY <1>6, <1>7 DEF Ordered, t

\* An entry of a sequence is one of the sequence it is appended to, and so on.
LEMMA Appended ==
    ASSUME NEW s \in Seq(Req), NEW x \in Req
    PROVE  /\ Append(s, x) \in Seq(Req) /\ Len(Append(s, x)) = Len(s) + 1
           /\ Append(s, x) # <<>>
           /\ Len(s) + 1 \in 1 .. Len(Append(s, x)) /\ Append(s, x)[Len(s) + 1] = x
           /\ \A i \in 1 .. Len(s) : i \in 1 .. Len(Append(s, x)) /\ Append(s, x)[i] = s[i]
           /\ \A i \in 1 .. Len(Append(s, x)) : i # Len(s) + 1 => i \in 1 .. Len(s)
  OBVIOUS

\* The driver posts a request.
LEMMA WayPost ==
    ASSUME NEW avail \in Seq(Req), NEW used \in Seq(Req), NEW hand \in Req, NEW back \in Seq(Req),
           NEW posted \in Nat, NEW mine \in SUBSET Req, NEW epoch \in Nat,
           NEW req \in Req, req.id = posted + 1, req.epoch = epoch,
           Way(avail, used, hand, back, posted, mine, epoch)
    PROVE  Way(Append(avail, req), used, hand, back, posted + 1, mine \cup {req}, epoch)
  <1> DEFINE s == Append(avail, req)
  <1>1. PICK a, b, c \in Nat : Between(avail, used, hand, back, posted, a, b, c)
    BY DEF Way, Order
  <1>2. Ordered(s, c, posted + 1 + 1)
    BY <1>1, OrderedAppend, SMTT(30) DEF Between
  <1>3. /\ s \in Seq(Req) /\ Len(s) = Len(avail) + 1
        /\ Len(s) \in 1 .. Len(s) /\ s[Len(s)] = req
        /\ \A i \in 1 .. Len(avail) : i \in 1 .. Len(s) /\ s[i] = avail[i]
        /\ \A i \in 1 .. Len(s) : i # Len(s) => i \in 1 .. Len(avail)
    BY Appended
  <1> HIDE DEF s
  <1>4. \A i \in 1 .. Len(s) : s[i] = req \/ (i \in 1 .. Len(avail) /\ s[i] = avail[i])
    BY <1>3, Zenon
  <1>5. 0 < req.id  OBVIOUS
  <1>6. \A i \in 1 .. Len(s) : 0 < s[i].id  BY <1>1, <1>4, <1>5, Zenon DEF Between
  <1>7. Between(s, used, hand, back, posted + 1, a, b, c)
    <2>1. c <= posted + 1 + 1  BY <1>1 DEF Between
    <2> QED  BY <1>1, <1>2, <1>6, <2>1, Zenon DEF Between
  <1>8. Order(s, used, hand, back, posted + 1)  BY <1>7 DEF Order
  <1>9. req # NoReq  BY <1>5 DEF NoReq
  <1>10. Kept(mine \cup {req}, s, used, hand, back)
    <2> SUFFICES ASSUME NEW x \in mine \cup {req}
                 PROVE  /\ x # NoReq
                        /\ \/ \E i \in 1 .. Len(s) : s[i] = x
                           \/ x = hand
                           \/ \E i \in 1 .. Len(used) : used[i] = x
                           \/ \E i \in 1 .. Len(back) : back[i] = x
      BY Zenon DEF Kept
    <2>1. CASE x = req  BY <1>3, <1>9, <2>1, Zenon
    <2>2. CASE x \in mine  BY <1>3, <2>2, Zenon DEF Way, Kept
    <2> QED  BY <2>1, <2>2
  <1>11. Fresh(s, used, hand, back, epoch)  BY <1>4, Zenon DEF Way, Fresh
  <1> QED  BY <1>8, <1>10, <1>11 DEF Way, s

\* The worker takes the first request of the ring while it has none.
LEMMA WayTake ==
    ASSUME NEW avail \in Seq(Req), NEW used \in Seq(Req), NEW back \in Seq(Req),
           NEW posted \in Nat, NEW mine \in SUBSET Req, NEW epoch \in Nat, avail # <<>>,
           Way(avail, used, NoReq, back, posted, mine, epoch)
    PROVE  /\ Head(avail) \in Req /\ Head(avail) # NoReq /\ Tail(avail) \in Seq(Req)
           /\ Way(Tail(avail), used, Head(avail), back, posted, mine, epoch)
  <1> DEFINE t == Tail(avail)
             h == Head(avail)
  <1>1. PICK a, b, c \in Nat : Between(avail, used, NoReq, back, posted, a, b, c)
    BY DEF Way, Order
  <1>2. /\ h \in Req /\ h.id \in Nat /\ t \in Seq(Req) /\ c <= h.id /\ h.id < posted + 1
        /\ Ordered(t, h.id + 1, posted + 1)
    BY <1>1, OrderedTail DEF Between
  <1>3. /\ 1 \in 1 .. Len(avail) /\ h = avail[1]
        /\ \A i \in 1 .. Len(t) : i + 1 \in 1 .. Len(avail) /\ t[i] = avail[i + 1]
        /\ \A i \in 1 .. Len(avail) : i = 1 \/ (i - 1 \in 1 .. Len(t) /\ t[i - 1] = avail[i])
    OBVIOUS
  <1> HIDE DEF t, h
  <1>4. 0 < h.id  BY <1>1, <1>3, Zenon DEF Between
  <1>5. h # NoReq  BY <1>4 DEF NoReq
  <1>6. \A i \in 1 .. Len(t) : 0 < t[i].id  BY <1>1, <1>3, Zenon DEF Between
  <1>7. Between(t, used, h, back, posted, a, b, h.id + 1)
    <2>1. b <= h.id /\ h.id < h.id + 1 /\ b <= h.id + 1 /\ h.id + 1 <= posted + 1
      BY <1>1, <1>2 DEF Between
    <2> QED  BY <1>1, <1>2, <1>4, <1>6, <2>1, Zenon DEF Between
  <1>8. h.id + 1 \in Nat  BY <1>2
  <1>9. Order(t, used, h, back, posted)  BY <1>7, <1>8, Zenon DEF Order
  <1>10. Kept(mine, t, used, h, back)
    <2> SUFFICES ASSUME NEW x \in mine, ~ \E i \in 1 .. Len(t) : t[i] = x, x # h
                 PROVE  /\ x # NoReq
                        /\ \/ \E i \in 1 .. Len(used) : used[i] = x
                           \/ \E i \in 1 .. Len(back) : back[i] = x
      <3>1. \A x \in mine : x # NoReq  BY Zenon DEF Way, Kept
      <3> QED  BY <3>1, Zenon DEF Kept
    <2>1. ~ \E i \in 1 .. Len(avail) : avail[i] = x  BY <1>3, Zenon
    <2> QED  BY <2>1, Zenon DEF Way, Kept
  <1>11. Fresh(t, used, h, back, epoch)
    <2>1. \A i \in 1 .. Len(avail) : avail[i].epoch = epoch  BY Zenon DEF Way, Fresh
    <2>2. h.epoch = epoch /\ \A i \in 1 .. Len(t) : t[i].epoch = epoch  BY <1>3, <2>1, Zenon
    <2>3. /\ \A i \in 1 .. Len(back) : i > 1 => back[i].epoch = epoch
          /\ \A i \in 1 .. Len(used) : i > 1 \/ back # <<>> => used[i].epoch = epoch
      BY Zenon DEF Way, Fresh
    <2> QED  BY <2>2, <2>3, Zenon DEF Fresh
  <1> QED  BY <1>2, <1>5, <1>9, <1>10, <1>11 DEF Way, t, h

\* The worker completes the request in hand.
LEMMA WayGive ==
    ASSUME NEW avail \in Seq(Req), NEW used \in Seq(Req), NEW hand \in Req, NEW back \in Seq(Req),
           NEW posted \in Nat, NEW mine \in SUBSET Req, NEW epoch \in Nat, hand # NoReq,
           Way(avail, used, hand, back, posted, mine, epoch)
    PROVE  Way(avail, Append(used, hand), NoReq, back, posted, mine, epoch)
  <1> DEFINE s == Append(used, hand)
  <1>1. PICK a, b, c \in Nat : Between(avail, used, hand, back, posted, a, b, c)
    BY DEF Way, Order
  <1>2. hand.id \in Nat /\ b <= hand.id /\ hand.id < c /\ a <= b /\ c <= posted + 1
    BY <1>1 DEF Between, Req
  <1>3. Ordered(s, a, c)  BY <1>1, <1>2, OrderedAppend DEF Between
  <1>4. /\ Len(s) \in 1 .. Len(s) /\ s[Len(s)] = hand
        /\ \A i \in 1 .. Len(used) : i \in 1 .. Len(s) /\ s[i] = used[i]
        /\ \A i \in 1 .. Len(s) : i # Len(s) => i \in 1 .. Len(used)
    BY Appended
  <1>5. used = <<>> => Len(s) = 1  OBVIOUS
  <1> HIDE DEF s
  <1>6. Between(avail, s, NoReq, back, posted, a, c, c)
    <2>1. a <= c /\ c <= c  BY <1>2
    <2> QED  BY <1>1, <1>2, <1>3, <2>1, Zenon DEF Between
  <1>7. Order(avail, s, NoReq, back, posted)  BY <1>6, Zenon DEF Order
  <1>8. Kept(mine, avail, s, NoReq, back)
    <2> SUFFICES ASSUME NEW x \in mine, ~ \E i \in 1 .. Len(s) : s[i] = x
                 PROVE  /\ x # NoReq
                        /\ \/ \E i \in 1 .. Len(avail) : avail[i] = x
                           \/ \E i \in 1 .. Len(back) : back[i] = x
      <3>1. \A x \in mine : x # NoReq  BY Zenon DEF Way, Kept
      <3> QED  BY <3>1, Zenon DEF Kept
    <2>1. x # hand /\ ~ \E i \in 1 .. Len(used) : used[i] = x  BY <1>4, Zenon
    <2> QED  BY <2>1, Zenon DEF Way, Kept
  <1>9. Fresh(avail, s, NoReq, back, epoch)
    <2>1. ASSUME NEW i \in 1 .. Len(s), i > 1 \/ back # <<>> PROVE s[i].epoch = epoch
      <3>1. CASE i = Len(s)
        <4>1. back # <<>> \/ used # <<>>
          <5>1. 1 > 1 => FALSE  OBVIOUS
          <5> QED  BY <1>5, <2>1, <3>1, <5>1, Zenon
        <4> QED  BY <1>4, <3>1, <4>1, Zenon DEF Way, Fresh
      <3>2. CASE i # Len(s)  BY <1>4, <2>1, <3>2, Zenon DEF Way, Fresh
      <3> QED  BY <3>1, <3>2
    <2> QED  BY <2>1, Zenon DEF Way, Fresh
  <1> QED  BY <1>7, <1>8, <1>9 DEF Way, s

\* The request in hand is older than a reset, and there is no ring yet to write
\* its completion to.
LEMMA WayLate ==
    ASSUME NEW posted \in Nat, NEW epoch \in Nat
    PROVE  Way(<<>>, Append(<<>>, NoReq), NoReq, <<>>, posted, {}, epoch)
  <1> DEFINE s == Append(<<>>, NoReq)
  <1>1. /\ s \in Seq(Req) /\ Len(s) = 1 /\ s[1] = NoReq
        /\ NoReq.id = 0 /\ Len(<<>>) = 0
    BY DEF NoReq, Req
  <1> HIDE DEF s
  <1>2. Between(<<>>, s, NoReq, <<>>, posted, 0, 1, 1)
    <2>1. Ordered(s, 0, 1)  BY <1>1 DEF Ordered
    <2>2. Ordered(<<>>, 0, 0) /\ Ordered(<<>>, 1, posted + 1)  BY DEF Ordered
    <2> QED  BY <1>1, <2>1, <2>2 DEF Between
  <1>3. Order(<<>>, s, NoReq, <<>>, posted)  BY <1>2 DEF Order
  <1>4. Kept({}, <<>>, s, NoReq, <<>>)  BY DEF Kept
  <1>5. Fresh(<<>>, s, NoReq, <<>>, epoch)  BY <1>1 DEF Fresh
  <1> QED  BY <1>3, <1>4, <1>5 DEF Way, s

\* A reset empties the rings; a request may stay in hand.
LEMMA WayReset ==
    ASSUME NEW avail \in Seq(Req), NEW used \in Seq(Req), NEW hand \in Req, NEW back \in Seq(Req),
           NEW posted \in Nat, NEW mine \in SUBSET Req, NEW epoch \in Nat, NEW new \in Nat,
           Way(avail, used, hand, back, posted, mine, epoch)
    PROVE  Way(<<>>, <<>>, hand, <<>>, posted, {}, new)
  <1>1. PICK a, b, c \in Nat : Between(avail, used, hand, back, posted, a, b, c)
    BY DEF Way, Order
  <1>2. Between(<<>>, <<>>, hand, <<>>, posted, a, b, c)  BY <1>1 DEF Between, Ordered
  <1>3. Order(<<>>, <<>>, hand, <<>>, posted)  BY <1>2 DEF Order
  <1>4. Kept({}, <<>>, <<>>, hand, <<>>)  BY DEF Kept
  <1>5. Fresh(<<>>, <<>>, hand, <<>>, new)  BY DEF Fresh
  <1> QED  BY <1>3, <1>4, <1>5 DEF Way

\* The driver takes what is on the used ring.
LEMMA WayReap ==
    ASSUME NEW avail \in Seq(Req), NEW used \in Seq(Req), NEW hand \in Req, NEW back \in Seq(Req),
           NEW posted \in Nat, NEW mine \in SUBSET Req, NEW epoch \in Nat,
           Way(avail, used, hand, back, posted, mine, epoch)
    PROVE  Way(avail, <<>>, hand, back \o used, posted, mine, epoch)
  <1> DEFINE t == back \o used
             m == Len(back)
  <1>1. PICK a, b, c \in Nat : Between(avail, used, hand, back, posted, a, b, c)
    BY DEF Way, Order
  <1>2. Ordered(t, 0, b)
    <2>1. 0 <= a /\ a <= b  BY <1>1 DEF Between
    <2> QED  BY <1>1, <2>1, OrderedConcat DEF Between
  <1>3. /\ m \in Nat /\ Len(used) \in Nat /\ Len(t) = m + Len(used)
        /\ \A i \in 1 .. m : i \in 1 .. Len(t) /\ t[i] = back[i]
        /\ \A i \in 1 .. Len(used) : m + i \in 1 .. Len(t) /\ t[m + i] = used[i]
        /\ \A i \in 1 .. Len(t) : i \notin 1 .. m => i - m \in 1 .. Len(used) /\ t[i] = used[i - m]
    OBVIOUS
  <1>4. (back = <<>> => m = 0) /\ (back = <<>> /\ used = <<>> => t = <<>>)  OBVIOUS
  <1> HIDE DEF t, m
  <1>5. Between(avail, <<>>, hand, t, posted, b, b, c)
    <2>1. Ordered(<<>>, b, b) /\ b <= b  BY DEF Ordered
    <2> QED  BY <1>1, <1>2, <2>1, Zenon DEF Between
  <1>6. Order(avail, <<>>, hand, t, posted)  BY <1>5, Zenon DEF Order
  <1>7. Kept(mine, avail, <<>>, hand, t)
    <2> SUFFICES ASSUME NEW x \in mine, ~ \E i \in 1 .. Len(t) : t[i] = x
                 PROVE  /\ x # NoReq
                        /\ \/ \E i \in 1 .. Len(avail) : avail[i] = x
                           \/ x = hand
      <3>1. \A x \in mine : x # NoReq  BY Zenon DEF Way, Kept
      <3> QED  BY <3>1, Zenon DEF Kept
    <2>1. ~ \E i \in 1 .. m : back[i] = x  BY <1>3, Zenon
    <2>2. ~ \E i \in 1 .. Len(used) : used[i] = x  BY <1>3, Zenon
    <2> QED  BY <2>1, <2>2, Zenon DEF Way, Kept, m
  <1>8. Fresh(avail, <<>>, hand, t, epoch)
    <2>1. ASSUME NEW i \in 1 .. Len(t), i > 1 PROVE t[i].epoch = epoch
      <3>1. CASE i \in 1 .. m  BY <1>3, <2>1, <3>1, Zenon DEF Way, Fresh, m
      <3>2. CASE i \notin 1 .. m
        <4>1. i - m \in 1 .. Len(used) /\ t[i] = used[i - m]  BY <1>3, <3>2
        <4>2. i - m > 1 \/ back # <<>>  BY <1>4, <2>1
        <4> QED  BY <4>1, <4>2, Zenon DEF Way, Fresh
      <3> QED  BY <3>1, <3>2
    <2>2. \A i \in 1 .. Len(<<>>) : FALSE  OBVIOUS
    <2>3. hand # NoReq => hand.epoch = epoch \/ (t = <<>> /\ <<>> = <<>>)
      BY <1>4, Zenon DEF Way, Fresh
    <2>4. \A i \in 1 .. Len(avail) : avail[i].epoch = epoch  BY Zenon DEF Way, Fresh
    <2> QED  BY <2>1, <2>2, <2>3, <2>4, Zenon DEF Fresh
  <1> QED  BY <1>6, <1>7, <1>8 DEF Way, t

------------------------------------------------------------------------------
(* The transport *)

\* What the registers' operators do to the one queue and the interrupt status.
LEMMA RingFields ==
    ASSUME NEW m \in Mmio
    PROVE  /\ m.queues[RQ] \in Queue /\ m.queues[RQ].ready \in BOOLEAN
           /\ m.queues[RQ].avail \in Seq(Req) /\ m.queues[RQ].used \in Seq(Req)
           /\ m.intr \in BOOLEAN
  BY DEF Mmio, Queue

\* pop_avail takes the head of the ring and leaves the rest of the transport.
LEMMA PopFields ==
    ASSUME NEW m \in Mmio, m.queues[RQ].avail # <<>>
    PROVE  LET n == T!PopAvail(m, RQ)
           IN  /\ n \in Mmio /\ n.intr = m.intr
               /\ n.queues[RQ].ready = m.queues[RQ].ready
               /\ n.queues[RQ].avail = Tail(m.queues[RQ].avail)
               /\ n.queues[RQ].used = m.queues[RQ].used
  <1>1. Tail(m.queues[RQ].avail) \in Seq(Req)  BY RingFields
  <1> QED  BY <1>1, Zenon DEF T!PopAvail, Mmio, Queue

\* add_used appends to the used ring and leaves the rest of the transport.
LEMMA AddUsedFields ==
    ASSUME NEW m \in Mmio, NEW req \in Req
    PROVE  LET n == T!AddUsed(m, RQ, req)
           IN  /\ n \in Mmio /\ n.intr = m.intr
               /\ n.queues[RQ].ready = m.queues[RQ].ready
               /\ n.queues[RQ].avail = m.queues[RQ].avail
               /\ n.queues[RQ].used = Append(m.queues[RQ].used, req)
  <1>1. Append(m.queues[RQ].used, req) \in Seq(Req)  BY RingFields
  <1> QED  BY <1>1, Zenon DEF T!AddUsed, Mmio, Queue

\* The interrupt status is set and acknowledged without touching the rings.
LEMMA IntrFields ==
    ASSUME NEW m \in Mmio
    PROVE  /\ T!SignalUsedQueue(m) \in Mmio /\ T!SignalUsedQueue(m).intr = TRUE
           /\ T!SignalUsedQueue(m).queues = m.queues
           /\ T!WriteInterruptAck(m) \in Mmio /\ T!WriteInterruptAck(m).queues = m.queues
  BY Zenon DEF T!SignalUsedQueue, T!WriteInterruptAck, Mmio

\* The transport after a reset: no features, no ring.
LEMMA NewFields ==
    /\ T!NewMmio \in Mmio
    /\ T!NewMmio.queues[RQ].ready = FALSE
    /\ T!NewMmio.queues[RQ].avail = <<>> /\ T!NewMmio.queues[RQ].used = <<>>
  <1>1. <<>> \in Seq(Req)  OBVIOUS
  <1> QED  BY <1>1 DEF T!NewMmio, T!NewQueue, Mmio, Queue

\* Enabling the queue makes it ready and leaves its rings alone.
LEMMA EnableFields ==
    ASSUME NEW m \in Mmio
    PROVE  LET n == T!WriteQueueReady(m, RQ, TRUE, TRUE)
           IN  /\ n \in Mmio /\ n.intr = m.intr
               /\ n.queues[RQ].ready
               /\ n.queues[RQ].avail = m.queues[RQ].avail
               /\ n.queues[RQ].used = m.queues[RQ].used
  BY Zenon DEF T!WriteQueueReady, Mmio, Queue

\* Feature negotiation leaves the queue alone.
LEMMA FeatureFields ==
    ASSUME NEW m \in Mmio, NEW value \in SUBSET AdvertisedFeatures(disk.readonly)
    PROVE  LET n == T!WriteStatus(T!WriteDriverFeatures(T!WriteDriverFeatures(m, 0, value), 1, value),
                                  {"driver", "features_ok"})
           IN  n \in Mmio /\ n.intr = m.intr /\ n.queues = m.queues
  <1> DEFINE F == {FLUSH, RO, V1}
  <1>1. value \subseteq F  BY DEF AdvertisedFeatures
  <1>2. ASSUME NEW x \in Mmio, NEW sel \in {0, 1}
        PROVE  LET y == T!WriteDriverFeatures(x, sel, value)
               IN  y \in Mmio /\ y.intr = x.intr /\ y.queues = x.queues
    <2> DEFINE half == CASE sel = 0 -> {FLUSH, RO} [] sel = 1 -> {V1} [] OTHER -> {}
    <2>1. (x.features \ half) \cup (value \cap half) \subseteq F  BY <1>1 DEF Mmio
    <2> HIDE DEF half
    <2>2. [x EXCEPT !.features = (@ \ half) \cup (value \cap half)] \in Mmio
      BY <2>1 DEF Mmio
    <2> QED  BY <2>2 DEF T!WriteDriverFeatures, half, Mmio
  <1> DEFINE p == T!WriteDriverFeatures(m, 0, value)
             q == T!WriteDriverFeatures(p, 1, value)
  <1>3. p \in Mmio /\ p.intr = m.intr /\ p.queues = m.queues  BY <1>2
  <1>4. q \in Mmio /\ q.intr = p.intr /\ q.queues = p.queues  BY <1>2, <1>3
  <1> HIDE DEF p, q
  <1>5. LET n == T!WriteStatus(q, {"driver", "features_ok"})
        IN  n \in Mmio /\ n.intr = q.intr /\ n.queues = q.queues
    BY <1>4 DEF T!WriteStatus, Mmio
  <1> QED  BY <1>3, <1>4, <1>5 DEF p, q

------------------------------------------------------------------------------
(* The backend *)

\* What a transfer leaves alone.
Same(m, d) ==
    /\ m.readonly = d.readonly /\ m.direct = d.direct /\ m.useDirect = d.useDirect
    /\ m.ring = d.ring /\ m.late = d.late /\ m.stray = d.stray /\ m.err = d.err

\* m is d after sectors from + 1 .. to of the transfer io are read, or written.
ReadPart(m, d, io, from, to) ==
    /\ m \in Disk /\ Same(m, d)
    /\ m.data = d.data /\ m.dirty = d.dirty /\ m.lost = d.lost
    /\ \A i \in 1 .. MaxLen :
          m.scratch[i] = IF i \in from + 1 .. to THEN d.data[io.at + i - 1] ELSE d.scratch[i]
WrotePart(m, d, io, from, to) ==
    /\ m \in Disk /\ Same(m, d)
    /\ m.scratch = d.scratch /\ m.lost \subseteq d.lost
    /\ \A u \in Sectors :
          m.data[u] = IF u \in io.at + from .. io.at + to - 1
                      THEN d.scratch[u - io.at + 1] ELSE d.data[u]

\* The kernel copies part of a read to the scratch buffer.
LEMMA MoveRead ==
    ASSUME NEW d \in Disk, NEW io \in Io, io.op = "read", InRange(io),
           NEW from \in Nat, NEW to \in Nat, to <= io.len
    PROVE  ReadPart(Move(d, io, from, to), d, io, from, to)
  <1> DEFINE s == [i \in 1 .. MaxLen |-> IF i \in from + 1 .. to THEN d.data[io.at + i - 1]
                                                                 ELSE d.scratch[i]]
             m == [d EXCEPT !.scratch = s]
  <1>1. Move(d, io, from, to) = m  BY DEF Move, Disk
  <1>2. s \in [1 .. MaxLen -> Content]
    <2> SUFFICES ASSUME NEW i \in 1 .. MaxLen PROVE s[i] \in Content  OBVIOUS
    <2>1. CASE i \in from + 1 .. to
      <3>1. io.at \in Nat /\ io.len \in Nat /\ Capacity \in Nat  BY BlockDiskAssumption DEF Io
      <3>2. io.at + i - 1 \in Sectors  BY <2>1, <3>1 DEF Sectors, InRange
      <3>3. d.data[io.at + i - 1] \in Content  BY <3>2 DEF Disk
      <3> QED  BY <2>1, <3>3
    <2>2. CASE i \notin from + 1 .. to
      <3>1. d.scratch[i] \in Content  BY Zenon DEF Disk
      <3> QED  BY <2>2, <3>1
    <2> QED  BY <2>1, <2>2
  <1>3. \A i \in 1 .. MaxLen : s[i] = IF i \in from + 1 .. to THEN d.data[io.at + i - 1]
                                                              ELSE d.scratch[i]
    OBVIOUS
  <1> HIDE DEF s
  <1>4. m \in Disk /\ m.scratch = s /\ m.data = d.data /\ m.dirty = d.dirty /\ m.lost = d.lost
    BY <1>2, Zenon DEF Disk
  <1>5. Same(m, d)  BY Zenon DEF Disk, Same
  <1> HIDE DEF m
  <1> QED  BY <1>1, <1>3, <1>4, <1>5, Zenon DEF ReadPart

\* The kernel copies part of a write to the file.
LEMMA MoveWrite ==
    ASSUME NEW d \in Disk, NEW io \in Io, io.op = "write", InRange(io),
           NEW from \in Nat, NEW to \in Nat, to <= io.len
    PROVE  WrotePart(Move(d, io, from, to), d, io, from, to)
  <1> DEFINE W == {io.at + i - 1 : i \in from + 1 .. to}
             f == [u \in Sectors |-> IF u \in W THEN d.scratch[u - io.at + 1] ELSE d.data[u]]
             m == [d EXCEPT !.data = f, !.dirty = @ \cup W, !.lost = @ \ W]
  <1>1. Move(d, io, from, to) = m  BY DEF Move, Disk
  <1>2. io.at \in Nat /\ io.len \in Nat /\ Capacity \in Nat /\ MaxLen \in Nat
    BY BlockDiskAssumption DEF Io
  <1>3. W = io.at + from .. io.at + to - 1
    <2>1. ASSUME NEW u \in io.at + from .. io.at + to - 1 PROVE u \in W
      <3>1. u - io.at + 1 \in from + 1 .. to /\ u = io.at + (u - io.at + 1) - 1  BY <1>2
      <3> QED  BY <3>1
    <2>2. ASSUME NEW i \in from + 1 .. to
          PROVE  io.at + i - 1 \in io.at + from .. io.at + to - 1
      BY <1>2
    <2> QED  BY <2>1, <2>2
  <1> HIDE DEF W
  <1>4. W \subseteq Sectors  BY <1>2, <1>3 DEF Sectors, InRange
  <1>5. f \in [Sectors -> Content]
    <2> SUFFICES ASSUME NEW u \in Sectors PROVE f[u] \in Content  OBVIOUS
    <2>1. CASE u \in W
      <3>1. u - io.at + 1 \in 1 .. MaxLen
        <4>1. u \in io.at + from .. io.at + to - 1  BY <1>3, <2>1, Zenon
        <4>2. to <= MaxLen  BY <1>2 DEF InRange
        <4> QED  BY <1>2, <4>1, <4>2
      <3>2. d.scratch[u - io.at + 1] \in Content  BY <3>1, Zenon DEF Disk
      <3> QED  BY <2>1, <3>2
    <2>2. CASE u \notin W
      <3>1. d.data[u] \in Content  BY DEF Disk
      <3> QED  BY <2>2, <3>1
    <2> QED  BY <2>1, <2>2
  <1>6. \A u \in Sectors : f[u] = IF u \in W THEN d.scratch[u - io.at + 1] ELSE d.data[u]
    OBVIOUS
  <1> HIDE DEF f
  <1>7. (d.dirty \cup W) \in SUBSET Sectors /\ (d.lost \ W) \in SUBSET Sectors
    BY <1>4 DEF Disk
  <1>8. m \in Disk /\ m.data = f /\ m.scratch = d.scratch /\ m.lost = d.lost \ W
    BY <1>5, <1>7, Zenon DEF Disk
  <1>9. Same(m, d)  BY Zenon DEF Disk, Same
  <1> HIDE DEF m
  <1> QED  BY <1>1, <1>3, <1>6, <1>8, <1>9, Zenon DEF WrotePart

\* The fields of an outcome.
LEMMA OutcomeFields ==
    ASSUME NEW d, NEW io, NEW res
    PROVE  /\ Outcome(d, io, res).disk = d /\ Outcome(d, io, res).io = io
           /\ Outcome(d, io, res).res = res
  BY DEF Outcome

\* The arguments of a transfer after n sectors, and when it starts over.
LEMMA DoneFields ==
    ASSUME NEW io \in Io, NEW n \in Nat
    PROVE  LET j == [io EXCEPT !.done = n]
               k == [io EXCEPT !.done = 0, !.prefer = FALSE]
           IN  /\ j \in Io /\ j.op = io.op /\ j.at = io.at /\ j.len = io.len /\ j.done = n
               /\ k \in Io /\ k.op = io.op /\ k.at = io.at /\ k.len = io.len /\ k.done = 0
  BY Zenon DEF Io

\* After a system call that moved nothing, read_at and write_at start over, without
\* the ring or without O_DIRECT, or give up.
Restarts(d, io, o) ==
    /\ o.disk \in Disk /\ o.disk.scratch = d.scratch /\ o.disk.data = d.data
    /\ o.disk.dirty = d.dirty /\ o.disk.lost = d.lost /\ o.disk.readonly = d.readonly
    /\ \/ o.disk.late = d.late /\ o.disk.stray = d.stray
       \/ o.disk.late = io /\ o.disk.stray
    /\ o.io \in Io /\ o.io.op = io.op /\ o.io.at = io.at /\ o.io.len = io.len
    /\ \/ o.io.done = 0 /\ o.res = "more"
       \/ o.io = io /\ o.res = "error"

\* A system call of a transfer moves the next sectors, or ends as Restarts says.
LEMMA TransferSteps ==
    ASSUME NEW d \in Disk, NEW io \in Io, io.op \in {"read", "write"}, NEW o \in Call(d, io)
    PROVE  \/ \E n \in io.done + 1 .. io.len :
                 /\ o.disk = Move(d, io, io.done, n) /\ o.io = [io EXCEPT !.done = n]
                 /\ o.res = IF n = io.len THEN "ok" ELSE "more"
           \/ Restarts(d, io, o)
  <1>1. CASE o \in Progress(d, io)
    <2>1. PICK n \in io.done + 1 .. io.len :
              o = Outcome(Move(d, io, io.done, n), [io EXCEPT !.done = n],
                          IF n = io.len THEN "ok" ELSE "more")
      BY <1>1, Zenon DEF Progress
    <2>2. /\ o.disk = Move(d, io, io.done, n) /\ o.io = [io EXCEPT !.done = n]
          /\ o.res = IF n = io.len THEN "ok" ELSE "more"
      BY <2>1, OutcomeFields
    <2> QED  BY <2>2, Zenon
  <1> DEFINE again == [io EXCEPT !.done = 0]
             plain == [io EXCEPT !.done = 0, !.prefer = FALSE]
             gone == DisableRing(d)
             left == [gone EXCEPT !.late = io, !.stray = TRUE]
             buffered == DisableDirect(d)
  <1>2. again \in Io /\ again.op = io.op /\ again.at = io.at /\ again.len = io.len /\ again.done = 0
    BY DoneFields, Zenon
  <1>3. plain \in Io /\ plain.op = io.op /\ plain.at = io.at /\ plain.len = io.len /\ plain.done = 0
    BY DoneFields, Zenon
  <1>4. /\ gone \in Disk /\ gone.scratch = d.scratch /\ gone.data = d.data
        /\ gone.dirty = d.dirty /\ gone.lost = d.lost /\ gone.readonly = d.readonly
        /\ gone.late = d.late /\ gone.stray = d.stray
    BY Zenon DEF DisableRing, Disk
  <1>5. /\ buffered \in Disk /\ buffered.scratch = d.scratch /\ buffered.data = d.data
        /\ buffered.dirty = d.dirty /\ buffered.lost = d.lost /\ buffered.readonly = d.readonly
        /\ buffered.late = d.late /\ buffered.stray = d.stray
    BY Zenon DEF DisableDirect, Disk
  <1> HIDE DEF gone, buffered, again, plain
  <1>6. /\ left \in Disk /\ left.scratch = d.scratch /\ left.data = d.data
        /\ left.dirty = d.dirty /\ left.lost = d.lost /\ left.readonly = d.readonly
        /\ left.late = io /\ left.stray
    BY <1>4, Zenon DEF Disk
  <1> HIDE DEF left
  <1>7. \/ o \in Progress(d, io)
        \/ o = Outcome(gone, again, "more")
        \/ o = Outcome(left, again, "more")
        \/ o = Outcome(d, io, "error")
        \/ o = Outcome(buffered, plain, "more")
    BY DEF Call, RingIo, PlainIo, gone, left, again, buffered, plain
  <1>8. CASE o = Outcome(gone, again, "more")
    <2>1. o.disk = gone /\ o.io = again /\ o.res = "more"  BY <1>8, OutcomeFields
    <2> QED  BY <1>2, <1>4, <2>1, Zenon DEF Restarts
  <1>9. CASE o = Outcome(left, again, "more")
    <2>1. o.disk = left /\ o.io = again /\ o.res = "more"  BY <1>9, OutcomeFields
    <2> QED  BY <1>2, <1>6, <2>1, Zenon DEF Restarts
  <1>10. CASE o = Outcome(d, io, "error")
    <2>1. o.disk = d /\ o.io = io /\ o.res = "error"  BY <1>10, OutcomeFields
    <2> QED  BY <2>1, Zenon DEF Restarts
  <1>11. CASE o = Outcome(buffered, plain, "more")
    <2>1. o.disk = buffered /\ o.io = plain /\ o.res = "more"  BY <1>11, OutcomeFields
    <2> QED  BY <1>3, <1>5, <2>1, Zenon DEF Restarts
  <1> QED  BY <1>1, <1>7, <1>8, <1>9, <1>10, <1>11, Zenon

\* What a system call of a transfer keeps, whatever its outcome.
KeepsIo(d, io, o) ==
    /\ o.disk \in Disk /\ LateOK(o.disk) /\ o.disk.readonly = d.readonly
    /\ o.disk.lost \subseteq d.lost /\ (d.stray => o.disk.stray)
    /\ o.io \in Io /\ o.io.op = io.op /\ o.io.at = io.at /\ o.io.len = io.len
    /\ InRange(o.io)
    /\ o.res \in {"more", "ok", "error"} /\ (o.res = "ok" => o.io.done = io.len)

\* Starting over or giving up keeps what a transfer keeps.
LEMMA RestartKeeps ==
    ASSUME NEW d \in Disk, LateOK(d), NEW io \in Io, io.op \in {"read", "write"}, InRange(io),
           NEW o, Restarts(d, io, o)
    PROVE  KeepsIo(d, io, o)
  <1>1. LateOK(o.disk)  BY Zenon DEF LateOK, Restarts
  <1>2. 0 <= io.len /\ io.done \in Nat  BY DEF Io
  <1>3. InRange(o.io)  BY <1>2 DEF InRange, Restarts
  <1> QED  BY <1>1, <1>3 DEF KeepsIo, Restarts

\* A read fills the scratch buffer from its beginning.
LEMMA ReadCall ==
    ASSUME NEW d \in Disk, LateOK(d), NEW io \in Io, io.op = "read", InRange(io),
           ~ d.stray => Filled(d, io), NEW o \in Call(d, io)
    PROVE  /\ KeepsIo(d, io, o)
           /\ o.disk.data = d.data
           /\ ~ o.disk.stray => Filled(o.disk, o.io)
  <1>1. CASE Restarts(d, io, o)
    <2>1. KeepsIo(d, io, o)  BY <1>1, RestartKeeps
    <2>2. o.io.done = 0 => Filled(o.disk, o.io)  BY DEF Filled
    <2>3. o.io = io => (~ o.disk.stray => Filled(o.disk, o.io))
      BY <1>1, Zenon DEF Restarts, Filled
    <2> QED  BY <1>1, <2>1, <2>2, <2>3, Zenon DEF Restarts
  <1>2. ASSUME NEW n \in io.done + 1 .. io.len, o.disk = Move(d, io, io.done, n),
               o.io = [io EXCEPT !.done = n], o.res = IF n = io.len THEN "ok" ELSE "more"
        PROVE  /\ KeepsIo(d, io, o)
               /\ o.disk.data = d.data
               /\ ~ o.disk.stray => Filled(o.disk, o.io)
    <2>1. /\ io.at \in Nat /\ io.len \in Nat /\ io.done \in Nat /\ n \in Nat
          /\ io.done < n /\ n <= io.len /\ MaxLen \in Nat
      BY <1>2, BlockDiskAssumption DEF Io
    <2>2. /\ o.disk \in Disk /\ Same(o.disk, d)
          /\ o.disk.data = d.data /\ o.disk.dirty = d.dirty /\ o.disk.lost = d.lost
          /\ \A i \in 1 .. MaxLen :
                o.disk.scratch[i] = IF i \in io.done + 1 .. n THEN d.data[io.at + i - 1]
                                                              ELSE d.scratch[i]
      <3>1. ReadPart(Move(d, io, io.done, n), d, io, io.done, n)  BY <2>1, MoveRead, Zenon
      <3> QED  BY <1>2, <3>1, Zenon DEF ReadPart
    <2>3. /\ o.io \in Io /\ o.io.op = io.op /\ o.io.at = io.at /\ o.io.len = io.len
          /\ o.io.done = n
      <3> DEFINE j == [io EXCEPT !.done = n]
      <3>1. j \in Io /\ j.op = io.op /\ j.at = io.at /\ j.len = io.len /\ j.done = n
        BY <2>1, DoneFields, Zenon
      <3>2. o.io = j  BY <1>2
      <3> HIDE DEF j
      <3> QED  BY <3>1, <3>2, Zenon
    <2>4. KeepsIo(d, io, o)
      <3>1. InRange(o.io)  BY <2>1, <2>3 DEF InRange
      <3>2. LateOK(o.disk)  BY <2>2, Zenon DEF LateOK, Same
      <3> QED  BY <1>2, <2>2, <2>3, <3>1, <3>2 DEF KeepsIo, Same
    <2>5. ASSUME ~ o.disk.stray, NEW i \in 1 .. n PROVE o.disk.scratch[i] = o.disk.data[io.at + i - 1]
      <3>1. i \in 1 .. MaxLen  BY <2>1 DEF InRange
      <3>2. CASE i \in io.done + 1 .. n  BY <2>2, <3>1, <3>2, Zenon
      <3>3. CASE i \notin io.done + 1 .. n
        <4>1. i \in 1 .. io.done  BY <2>1, <3>3
        <4>2. d.scratch[i] = d.data[io.at + i - 1]  BY <2>2, <2>5, <4>1, Zenon DEF Filled, Same
        <4> QED  BY <2>2, <3>1, <3>3, <4>2, Zenon
      <3> QED  BY <3>2, <3>3
    <2>6. ~ o.disk.stray => Filled(o.disk, o.io)  BY <2>3, <2>5, Zenon DEF Filled
    <2> QED  BY <2>2, <2>4, <2>6
  <1> QED  BY <1>1, <1>2, TransferSteps, Zenon

\* A write puts the scratch buffer into the file from its beginning, and touches
\* no other sector.
LEMMA WriteCall ==
    ASSUME NEW d \in Disk, LateOK(d), NEW io \in Io, io.op = "write", InRange(io),
           NEW id, ~ d.stray => Stored(d, io, id), NEW o \in Call(d, io)
    PROVE  /\ KeepsIo(d, io, o)
           /\ \A u \in Sectors : o.disk.data[u] # d.data[u]
                => u \in io.at .. io.at + io.len - 1 /\ (d.stray \/ o.disk.data[u] = id)
           /\ ~ o.disk.stray => Stored(o.disk, o.io, id)
  <1>1. CASE Restarts(d, io, o)
    <2>1. KeepsIo(d, io, o)  BY <1>1, RestartKeeps
    <2>2. o.disk.data = d.data /\ o.disk.scratch = d.scratch /\ o.io.len = io.len
      BY <1>1, Zenon DEF Restarts
    <2>3. ASSUME ~ o.disk.stray PROVE Stored(o.disk, o.io, id)
      <3>1. ~ d.stray  BY <1>1, <2>3, Zenon DEF Restarts
      <3>2. \A i \in 1 .. io.len : d.scratch[i] = id  BY <3>1, Zenon DEF Stored
      <3>3. CASE o.io = io  BY <2>2, <3>1, <3>3, Zenon DEF Stored
      <3>4. CASE o.io.done = 0
        <4>1. \A i \in 1 .. o.io.done : FALSE  BY <3>4
        <4> QED  BY <2>2, <3>2, <4>1, Zenon DEF Stored
      <3> QED  BY <1>1, <3>3, <3>4, Zenon DEF Restarts
    <2> QED  BY <2>1, <2>2, <2>3, Zenon
  <1>2. ASSUME NEW n \in io.done + 1 .. io.len, o.disk = Move(d, io, io.done, n),
               o.io = [io EXCEPT !.done = n], o.res = IF n = io.len THEN "ok" ELSE "more"
        PROVE  /\ KeepsIo(d, io, o)
               /\ \A u \in Sectors : o.disk.data[u] # d.data[u]
                    => u \in io.at .. io.at + io.len - 1 /\ (d.stray \/ o.disk.data[u] = id)
               /\ ~ o.disk.stray => Stored(o.disk, o.io, id)
    <2>1. /\ io.at \in Nat /\ io.len \in Nat /\ io.done \in Nat /\ n \in Nat
          /\ io.done < n /\ n <= io.len /\ Capacity \in Nat
      BY <1>2, BlockDiskAssumption DEF Io
    <2>2. /\ o.disk \in Disk /\ Same(o.disk, d)
          /\ o.disk.scratch = d.scratch /\ o.disk.lost \subseteq d.lost
          /\ \A u \in Sectors :
                o.disk.data[u] = IF u \in io.at + io.done .. io.at + n - 1
                                 THEN d.scratch[u - io.at + 1] ELSE d.data[u]
      <3>1. WrotePart(Move(d, io, io.done, n), d, io, io.done, n)  BY <2>1, MoveWrite, Zenon
      <3> QED  BY <1>2, <3>1, Zenon DEF WrotePart
    <2>3. /\ o.io \in Io /\ o.io.op = io.op /\ o.io.at = io.at /\ o.io.len = io.len
          /\ o.io.done = n
      <3> DEFINE j == [io EXCEPT !.done = n]
      <3>1. j \in Io /\ j.op = io.op /\ j.at = io.at /\ j.len = io.len /\ j.done = n
        BY <2>1, DoneFields, Zenon
      <3>2. o.io = j  BY <1>2
      <3> HIDE DEF j
      <3> QED  BY <3>1, <3>2, Zenon
    <2>4. KeepsIo(d, io, o)
      <3>1. InRange(o.io)  BY <2>1, <2>3 DEF InRange
      <3>2. LateOK(o.disk)  BY <2>2, Zenon DEF LateOK, Same
      <3> QED  BY <1>2, <2>2, <2>3, <3>1, <3>2 DEF KeepsIo, Same
    <2>5. ASSUME NEW u \in Sectors, u \in io.at + io.done .. io.at + n - 1, ~ d.stray
          PROVE  o.disk.data[u] = id
      <3>1. u - io.at + 1 \in 1 .. io.len  BY <2>1, <2>5
      <3>2. d.scratch[u - io.at + 1] = id  BY <2>5, <3>1, Zenon DEF Stored
      <3> QED  BY <2>2, <2>5, <3>2, Zenon
    <2>6. ASSUME NEW u \in Sectors, o.disk.data[u] # d.data[u]
          PROVE  u \in io.at .. io.at + io.len - 1 /\ (d.stray \/ o.disk.data[u] = id)
      <3>1. u \in io.at + io.done .. io.at + n - 1  BY <2>2, <2>6, Zenon
      <3>2. u \in io.at .. io.at + io.len - 1  BY <2>1, <3>1
      <3> QED  BY <2>5, <3>1, <3>2, Zenon
    <2>7. ASSUME ~ o.disk.stray PROVE Stored(o.disk, o.io, id)
      <3>1. ~ d.stray  BY <2>2, <2>7, Zenon DEF Same
      <3>2. \A i \in 1 .. o.io.len : o.disk.scratch[i] = id
        BY <2>2, <2>3, <3>1, Zenon DEF Stored
      <3>3. ASSUME NEW i \in 1 .. n PROVE o.disk.data[io.at + i - 1] = id
        <4>1. io.at + i - 1 \in Sectors  BY <2>1 DEF InRange, Sectors
        <4>2. CASE i \in io.done + 1 .. n
          <5>1. io.at + i - 1 \in io.at + io.done .. io.at + n - 1  BY <2>1, <4>2
          <5> QED  BY <2>5, <3>1, <4>1, <5>1, Zenon
        <4>3. CASE i \notin io.done + 1 .. n
          <5>1. i \in 1 .. io.done  BY <2>1, <4>3
          <5>2. io.at + i - 1 \notin io.at + io.done .. io.at + n - 1  BY <2>1, <5>1
          <5>3. d.data[io.at + i - 1] = id  BY <3>1, <5>1, Zenon DEF Stored
          <5> QED  BY <2>2, <4>1, <5>2, <5>3, Zenon
        <4> QED  BY <4>2, <4>3
      <3> QED  BY <2>3, <3>2, <3>3, Zenon DEF Stored
    <2> QED  BY <2>4, <2>6, <2>7
  <1> QED  BY <1>1, <1>2, TransferSteps, Zenon

\* An operation left behind moves its sectors, or not, and is gone.
LEMMA LateCall ==
    ASSUME NEW d \in Disk, LateOK(d), d.late # NoIo, NEW m \in LateIo(d)
    PROVE  /\ m \in Disk /\ LateOK(m) /\ m.readonly = d.readonly
           /\ m.stray /\ d.stray /\ m.lost \subseteq d.lost
           /\ \A u \in Sectors : m.data[u] # d.data[u] => Covers(d.late, u)
  <1>1. PICK io \in Io : io = d.late  BY DEF Disk
  <1>2. /\ d.stray /\ InRange(io) /\ io.op \in {"read", "write"} /\ NoIo \in Io
        /\ io.at \in Nat /\ io.len \in Nat /\ io.done \in Nat
    BY <1>1 DEF LateOK, Io, NoIo
  <1>3. PICK from \in Nat, to \in Nat : from = io.done /\ to = io.len /\ to <= io.len
    BY <1>2
  <1>4. PICK p : p = Move(d, io, from, to)  OBVIOUS
  <1>5. /\ p \in Disk /\ Same(p, d) /\ p.lost \subseteq d.lost
        /\ \A u \in Sectors : p.data[u] # d.data[u] => Covers(io, u)
    <2>3. io \in Io /\ InRange(io) /\ from \in Nat /\ to \in Nat /\ to <= io.len
      BY <1>1, <1>2, <1>3
    <2>1. CASE io.op = "read"
      <3>1. p \in Disk /\ Same(p, d) /\ p.data = d.data /\ p.lost = d.lost
        <4>1. ReadPart(Move(d, io, from, to), d, io, from, to)  BY <2>1, <2>3, MoveRead
        <4> QED  BY <1>4, <4>1, Zenon DEF ReadPart
      <3> QED  BY <3>1
    <2>2. CASE io.op = "write"
      <3>1. /\ p \in Disk /\ Same(p, d) /\ p.lost \subseteq d.lost
            /\ \A u \in Sectors :
                  p.data[u] = IF u \in io.at + from .. io.at + to - 1
                              THEN d.scratch[u - io.at + 1] ELSE d.data[u]
        <4>1. WrotePart(Move(d, io, from, to), d, io, from, to)  BY <2>2, <2>3, MoveWrite
        <4> QED  BY <1>4, <4>1, Zenon DEF WrotePart
      <3>2. io.at + from .. io.at + to - 1 \subseteq io.at .. io.at + io.len - 1
        BY <1>2, <1>3
      <3> QED  BY <2>2, <3>1, <3>2, Zenon DEF Covers
    <2> QED  BY <1>2, <2>1, <2>2
  <1>6. m = [p EXCEPT !.late = NoIo] \/ m = [d EXCEPT !.late = NoIo]
    BY <1>1, <1>3, <1>4, Zenon DEF LateIo
  <1>7. ASSUME NEW x \in Disk, m = [x EXCEPT !.late = NoIo]
        PROVE  /\ m \in Disk /\ m.late = NoIo /\ m.stray = x.stray /\ m.lost = x.lost
               /\ m.data = x.data /\ m.readonly = x.readonly
    BY <1>2, <1>7, Zenon DEF Disk
  <1>8. m.late = NoIo => LateOK(m)  BY Zenon DEF LateOK
  <1>9. CASE m = [d EXCEPT !.late = NoIo]
    BY <1>2, <1>7, <1>8, <1>9, Zenon
  <1>10. CASE m = [p EXCEPT !.late = NoIo]
    BY <1>1, <1>2, <1>5, <1>7, <1>8, <1>10, Zenon DEF Same
  <1> QED  BY <1>6, <1>9, <1>10


------------------------------------------------------------------------------
(* fdatasync *)

\* One fdatasync: it reports a loss, or leaves nothing dirty and loses nothing.
Synced(d, s) ==
    /\ s.disk \in Disk /\ s.disk.data = d.data /\ s.disk.late = d.late
    /\ s.disk.stray = d.stray /\ s.disk.readonly = d.readonly
    /\ s.ok \in BOOLEAN
    /\ s.ok => s.disk.dirty = {} /\ s.disk.lost = d.lost

\* What Sync may answer.
LEMMA SyncSteps ==
    ASSUME NEW d \in Disk, NEW fd \in Fds, NEW s \in Sync(d, fd)
    PROVE  Synced(d, s)
  <1> DEFINE e1 == d.err \ {fd}
             e2 == AllFds(d) \ {fd}
             l2 == d.lost \cup d.dirty
             a == [disk |-> [d EXCEPT !.err = e1], ok |-> FALSE]
             b == [disk |-> [d EXCEPT !.dirty = {}], ok |-> TRUE]
             c == [disk |-> [d EXCEPT !.dirty = {}, !.lost = l2, !.err = e2], ok |-> FALSE]
  <1>1. e1 \in SUBSET Fds /\ e2 \in SUBSET Fds /\ l2 \in SUBSET Sectors
    BY DEF Disk, AllFds, Fds
  <1>2. s = a \/ s = b \/ s = c  BY DEF Sync
  <1> HIDE DEF e1, e2, l2
  <1>3. [d EXCEPT !.err = e1] \in Disk  BY <1>1, Zenon DEF Disk
  <1>4. [d EXCEPT !.dirty = {}] \in Disk
    <2>1. {} \in SUBSET Sectors  OBVIOUS
    <2> QED  BY <2>1, Zenon DEF Disk
  <1>5. [d EXCEPT !.dirty = {}, !.lost = l2, !.err = e2] \in Disk
    <2>1. {} \in SUBSET Sectors  OBVIOUS
    <2> QED  BY <1>1, <2>1, Zenon DEF Disk
  <1>6. CASE s = a
    <2>1. s.disk = [d EXCEPT !.err = e1] /\ s.ok = FALSE  BY <1>6, Zenon
    <2> HIDE DEF a
    <2> QED  BY <1>3, <2>1, Zenon DEF Synced, Disk
  <1>7. CASE s = b
    <2>1. s.disk = [d EXCEPT !.dirty = {}] /\ s.ok = TRUE  BY <1>7, Zenon
    <2> HIDE DEF b
    <2> QED  BY <1>4, <2>1, Zenon DEF Synced, Disk
  <1>8. CASE s = c
    <2>1. s.disk = [d EXCEPT !.dirty = {}, !.lost = l2, !.err = e2] /\ s.ok = FALSE
      BY <1>8, Zenon
    <2> HIDE DEF c
    <2> QED  BY <1>5, <2>1, Zenon DEF Synced, Disk
  <1> QED  BY <1>2, <1>6, <1>7, <1>8

\* What a system call of flush_data keeps.
KeepsFlush(d, io, o) ==
    /\ o.disk \in Disk /\ o.disk.data = d.data /\ o.disk.late = d.late
    /\ o.disk.stray = d.stray /\ o.disk.readonly = d.readonly
    /\ o.io \in Io /\ o.io.op = "fsync"
    /\ o.res \in {"ok", "more", "error"}
    /\ o.res = "more" => o.io.fds # <<>>
    /\ o.res = "ok" => o.disk.dirty = {}
    /\ io.swallowed => o.io.swallowed
    /\ o.disk.lost = d.lost \/ o.io.swallowed \/ o.res = "error"

\* The descriptor is synced: the next one, or the flush is over.
LEMMA FsyncEnds ==
    ASSUME NEW d \in Disk, NEW io \in Io, io.op = "fsync", io.fds # <<>>,
           NEW s, Synced(d, s), s.ok
    PROVE  KeepsFlush(d, io, FsyncDone(s.disk, io))
  <1> DEFINE t == Tail(io.fds)
             j == [io EXCEPT !.fds = t]
             r == IF Len(io.fds) = 1 THEN "ok" ELSE "more"
             o == Outcome(s.disk, j, r)
  <1>1. t \in Seq(Fds) /\ (r = "more" => t # <<>>)
    <2>1. io.fds \in Seq(Fds)  BY Zenon DEF Io
    <2>2. t \in Seq(Fds) /\ Len(t) = Len(io.fds) - 1  BY <2>1
    <2>3. r = "more" => Len(io.fds) # 1  OBVIOUS
    <2>4. Len(<<>>) = 0  OBVIOUS
    <2>5. Len(io.fds) \in Nat  BY <2>1
    <2> HIDE DEF t, r
    <2>6. r = "more" => Len(t) # 0  BY <2>2, <2>3, <2>5
    <2> QED  BY <2>2, <2>4, <2>6, Zenon
  <1>2. r \in {"ok", "more", "error"}  OBVIOUS
  <1>3. FsyncDone(s.disk, io) = o  BY Zenon DEF FsyncDone
  <1> HIDE DEF t, r
  <1>4. j \in Io /\ j.op = "fsync" /\ j.fds = t /\ j.swallowed = io.swallowed
    BY <1>1, Zenon DEF Io
  <1> HIDE DEF j
  <1>5. o.disk = s.disk /\ o.io = j /\ o.res = r  BY OutcomeFields
  <1> HIDE DEF o
  <1>6. KeepsFlush(d, io, o)  BY <1>1, <1>2, <1>4, <1>5, Zenon DEF KeepsFlush, Synced
  <1> QED  BY <1>3, <1>6, Zenon

\* The ring is dropped, and the descriptor synced again.
LEMMA FsyncAgain ==
    ASSUME NEW d \in Disk, NEW io \in Io, io.op = "fsync", io.fds # <<>>,
           NEW s, Synced(d, s)
    PROVE  KeepsFlush(d, io, Outcome(DisableRing(s.disk), [io EXCEPT !.swallowed = @ \/ ~ s.ok], "more"))
  <1> DEFINE w == io.swallowed \/ ~ s.ok
             j == [io EXCEPT !.swallowed = w]
             e == DisableRing(s.disk)
             o == Outcome(e, j, "more")
  <1>1. w \in BOOLEAN /\ (io.swallowed => w) /\ (~ s.ok => w)  OBVIOUS
  <1> HIDE DEF w
  <1>2. j \in Io /\ j.op = "fsync" /\ j.fds = io.fds /\ j.swallowed = w
    BY <1>1, Zenon DEF Io
  <1>3. /\ e \in Disk /\ e.data = s.disk.data /\ e.late = s.disk.late
        /\ e.stray = s.disk.stray /\ e.readonly = s.disk.readonly /\ e.lost = s.disk.lost
    <2>1. s.disk \in Disk  BY Zenon DEF Synced
    <2> QED  BY <2>1, Zenon DEF DisableRing, Disk
  <1> HIDE DEF j, e
  <1>4. o.disk = e /\ o.io = j /\ o.res = "more"  BY OutcomeFields
  <1> HIDE DEF o
  <1>5. KeepsFlush(d, io, o)
    <2>1. o.res # "ok" /\ o.res \in {"ok", "more", "error"}  BY <1>4
    <2> QED  BY <1>1, <1>2, <1>3, <1>4, <2>1, Zenon DEF KeepsFlush, Synced
  <1> QED  BY <1>5, Zenon DEF o, e, j, w

\* One system call of flush_data.
LEMMA FsyncCall ==
    ASSUME NEW d \in Disk, NEW io \in Io, io.op = "fsync", io.fds # <<>>, NEW o \in Call(d, io)
    PROVE  KeepsFlush(d, io, o)
  <1> DEFINE fd == Head(io.fds)
             S == Sync(d, fd)
             again(s) == Outcome(DisableRing(s.disk), [io EXCEPT !.swallowed = @ \/ ~ s.ok], "more")
             still == [disk |-> d, ok |-> TRUE]
  <1>1. fd \in Fds  BY DEF Io
  <1> HIDE DEF fd
  <1>2. \A s \in S : Synced(d, s)  BY <1>1, SyncSteps, Zenon
  <1>3. \/ \E s \in S : s.ok /\ o = FsyncDone(s.disk, io)
        \/ \E s \in S : o = again(s)
        \/ o = again(still)
        \/ \E s \in S : o = Outcome(s.disk, io, "error")
    <2> HIDE DEF S
    <2>1. Call(d, io) = IF d.ring THEN RingFsync(d, io) ELSE PlainFsync(d, io)
      BY Zenon DEF Call
    <2>2. CASE o \in RingFsync(d, io)  BY <2>2, Zenon DEF RingFsync, S, fd
    <2>3. CASE o \in PlainFsync(d, io)  BY <2>3, Zenon DEF PlainFsync, S, fd
    <2> QED  BY <2>1, <2>2, <2>3, Zenon
  <1> HIDE DEF S
  <1>4. ASSUME NEW s \in S, s.ok, o = FsyncDone(s.disk, io) PROVE KeepsFlush(d, io, o)
    BY <1>2, <1>4, FsyncEnds, Zenon
  <1>5. ASSUME NEW s \in S, o = again(s) PROVE KeepsFlush(d, io, o)
    <2>1. Synced(d, s)  BY <1>2, Zenon
    <2>2. KeepsFlush(d, io, again(s))  BY <2>1, FsyncAgain, Zenon
    <2> QED  BY <1>5, <2>2, Zenon
  <1>6. ASSUME o = again(still) PROVE KeepsFlush(d, io, o)
    <2> DEFINE e == DisableRing(d)
               w == io.swallowed \/ ~ TRUE
               j == [io EXCEPT !.swallowed = w]
    <2>1. o = Outcome(e, j, "more")
      <3>1. still.disk = d /\ still.ok = TRUE  BY Zenon
      <3> HIDE DEF still
      <3> QED  BY <1>6, <3>1, Zenon
    <2>2. w \in BOOLEAN /\ (io.swallowed => w)  OBVIOUS
    <2> HIDE DEF w
    <2>3. j \in Io /\ j.op = "fsync" /\ j.fds = io.fds /\ j.swallowed = w
      BY <2>2, Zenon DEF Io
    <2>4. /\ e \in Disk /\ e.data = d.data /\ e.late = d.late
          /\ e.stray = d.stray /\ e.readonly = d.readonly /\ e.lost = d.lost
      BY Zenon DEF DisableRing, Disk
    <2> HIDE DEF j, e
    <2>5. o.disk = e /\ o.io = j /\ o.res = "more"  BY <2>1, OutcomeFields
    <2>6. o.res # "ok" /\ o.res \in {"ok", "more", "error"}  BY <2>5
    <2> QED  BY <2>2, <2>3, <2>4, <2>5, <2>6, Zenon DEF KeepsFlush
  <1>7. ASSUME NEW s \in S, o = Outcome(s.disk, io, "error") PROVE KeepsFlush(d, io, o)
    <2>1. Synced(d, s)  BY <1>2, Zenon
    <2>2. o.disk = s.disk /\ o.io = io /\ o.res = "error"  BY <1>7, OutcomeFields
    <2>3. o.res # "ok" /\ o.res # "more" /\ o.res \in {"ok", "more", "error"}  BY <2>2
    <2> QED  BY <2>1, <2>2, <2>3, Zenon DEF KeepsFlush, Synced
  <1> QED  BY <1>3, <1>4, <1>5, <1>6, <1>7, Zenon

------------------------------------------------------------------------------
(* handle_request *)

\* AnswerTellsTruth and FlushIsDurable of a disk and a worker with an answer.
Truth(d, w) ==
    ~ d.stray =>
        \A i \in 1 .. w.ask.len :
            LET stored == d.data[w.ask.sector + i - 1]
            IN  /\ w.ask.type = "in" /\ w.status # "none" =>
                      w.data[i] = IF w.status = "ok" THEN stored ELSE Zero
                /\ w.ask.type = "out" /\ w.status = "ok" => stored = w.req.id
Durable(d, w) ==
    w.ask.type = "flush" /\ w.status = "ok" /\ ~ d.readonly
        => (d.stray \/ d.dirty = {}) /\ (d.stray \/ w.io.swallowed \/ d.lost = {})

\* What handle_request does to the disk before it answers or starts.
Prepared(d, e) ==
    /\ e \in Disk /\ e.data = d.data /\ e.readonly = d.readonly /\ e.late = d.late
    /\ e.stray = d.stray /\ e.lost = d.lost

\* The worker after handle_request has looked at a chain.
Handled(d, e, w, x, req) ==
    /\ Prepared(d, e)
    /\ x \in Worker /\ x.req = req /\ x.used = w.used
    /\ \/ x.pc = "io" /\ Serves(e, x.ask, x.io, req.id)
       \/ x.pc = "add_used" /\ Truth(e, x) /\ Durable(e, x)

\* The chains a driver posts are well typed.
LEMMA AskTyped ==
    ASSUME NEW ask \in Asks
    PROVE  ask \in AskType /\ ask.len \in 0 .. MaxLen /\ ask.sector \in Nat
  <1>1. \A s \in Spans : s[1] \in Nat /\ s[2] \in 0 .. MaxLen  BY VirtioBlkAssumption
  <1>2. 0 \in Nat /\ MaxLen \in 0 .. MaxLen  BY BlockDiskAssumption
  <1>3. \A type, span, room : type \in {"in", "out", "flush", "get_id", "other", "bad"}
              /\ span[1] \in Nat /\ span[2] \in 0 .. MaxLen /\ room \in BOOLEAN
              => Ask(type, span, room) \in AskType
    BY DEF Ask, AskType
  <1>4. <<0, MaxLen>>[1] \in Nat /\ <<0, MaxLen>>[2] \in 0 .. MaxLen  BY <1>2
  <1>5. PICK type \in {"in", "out", "flush", "get_id", "other", "bad"},
             span \in Spans \cup {<<0, MaxLen>>}, room \in BOOLEAN : ask = Ask(type, span, room)
    <2>1. \A x \in {"in", "out", "flush", "get_id", "other"} :
             x \in {"in", "out", "flush", "get_id", "other", "bad"}
      OBVIOUS
    <2>2. \A x \in {"in", "out"} : x \in {"in", "out", "flush", "get_id", "other"}  OBVIOUS
    <2>3. \A x \in {"flush", "get_id", "other"} : x \in {"in", "out", "flush", "get_id", "other"}
      OBVIOUS
    <2>4. TRUE \in BOOLEAN /\ FALSE \in BOOLEAN  OBVIOUS
    <2> DEFINE A == {Ask(type, span, TRUE) : type \in {"in", "out"}, span \in Spans}
               B == {Ask(type, <<0, MaxLen>>, TRUE) : type \in {"flush", "get_id", "other"}}
               C == {Ask(type, <<0, MaxLen>>, FALSE) :
                        type \in {"in", "out", "flush", "get_id", "other", "bad"}}
    <2>5. CASE ask \in A
      <3>1. PICK type \in {"in", "out"}, span \in Spans : ask = Ask(type, span, TRUE)
        BY <2>5 DEF Ask
      <3> QED  BY <2>1, <2>2, <2>4, <3>1, Zenon
    <2>6. CASE ask \in B
      <3>1. PICK type \in {"flush", "get_id", "other"} : ask = Ask(type, <<0, MaxLen>>, TRUE)
        BY <2>6, Zenon
      <3> QED  BY <2>1, <2>3, <2>4, <3>1, Zenon
    <2>7. CASE ask \in C
      <3>1. PICK type \in {"in", "out", "flush", "get_id", "other", "bad"} :
               ask = Ask(type, <<0, MaxLen>>, FALSE)
        BY <2>7, Zenon
      <3> QED  BY <2>4, <3>1, Zenon
    <2>8. ask \in A \/ ask \in B \/ ask \in C  BY DEF Asks, Ask
    <2> HIDE DEF A, B, C
    <2> QED  BY <2>5, <2>6, <2>7, <2>8, Zenon
  <1>6. span[1] \in Nat /\ span[2] \in 0 .. MaxLen  BY <1>1, <1>4
  <1>7. ask \in AskType  BY <1>3, <1>5, <1>6
  <1> QED  BY <1>7 DEF AskType

\* Filling part of the scratch buffer changes nothing else.
LEMMA ScratchFields ==
    ASSUME NEW d \in Disk, NEW len \in 0 .. MaxLen, NEW value \in Content
    PROVE  LET n == FillScratch(d, len, value)
           IN  /\ n \in Disk /\ n.data = d.data /\ n.readonly = d.readonly /\ n.late = d.late
               /\ n.stray = d.stray /\ n.lost = d.lost /\ n.dirty = d.dirty
               /\ \A i \in 1 .. len : n.scratch[i] = value
  <1> DEFINE s == [i \in 1 .. MaxLen |-> IF i <= len THEN value ELSE d.scratch[i]]
             n == [d EXCEPT !.scratch = s]
  <1>1. s \in [1 .. MaxLen -> Content]
    <2>1. \A i \in 1 .. MaxLen : d.scratch[i] \in Content  BY Zenon DEF Disk
    <2> QED  BY <2>1
  <1>2. \A i \in 1 .. len : s[i] = value
    <2>1. MaxLen \in Nat  BY BlockDiskAssumption
    <2>2. \A i \in 1 .. len : i \in 1 .. MaxLen /\ i <= len  BY <2>1
    <2> QED  BY <2>2, Zenon
  <1>3. FillScratch(d, len, value) = n  BY Zenon DEF FillScratch
  <1> HIDE DEF s
  <1>4. /\ n \in Disk /\ n.data = d.data /\ n.readonly = d.readonly /\ n.late = d.late
        /\ n.stray = d.stray /\ n.lost = d.lost /\ n.dirty = d.dirty /\ n.scratch = s
    BY <1>1, Zenon DEF Disk
  <1> HIDE DEF n
  <1> QED  BY <1>2, <1>3, <1>4, Zenon

\* The status bytes.
Statuses == {"none", "ok", "ioerr", "unsupp"}

\* The request is answered at once.
LEMMA AnswerStep ==
    ASSUME worker \in Worker, NEW req \in Req, NEW ask \in AskType, NEW d,
           NEW status \in Statuses, NEW data \in Seq(Content),
           Answer(req, ask, d, status, data)
    PROVE  /\ disk' = d
           /\ worker' \in Worker /\ worker'.pc = "add_used" /\ worker'.req = req
           /\ worker'.ask = ask /\ worker'.data = data /\ worker'.used = worker.used
           /\ worker'.status = status \/ worker'.status = "none"
  <1> DEFINE st == IF ask.room THEN status ELSE "none"
             t == [worker EXCEPT !.pc = "add_used", !.req = req, !.ask = ask]
             w == [t EXCEPT !.data = data, !.status = st]
  <1>1. st \in {"none", "ok", "ioerr", "unsupp"}  BY DEF Statuses
  <1>2. disk' = d /\ worker' = w  BY Zenon DEF Answer, Take
  <1>3. "add_used" \in {"poll", "pop", "io", "add_used", "signal"}  OBVIOUS
  <1> HIDE DEF st
  <1>4. t \in Worker /\ t.pc = "add_used" /\ t.req = req /\ t.ask = ask /\ t.used = worker.used
    BY <1>3, Zenon DEF Worker
  <1> HIDE DEF t
  <1>5. /\ w \in Worker /\ w.pc = t.pc /\ w.req = t.req /\ w.ask = t.ask /\ w.used = t.used
        /\ w.data = data /\ w.status = st
    BY <1>1, <1>4, Zenon DEF Worker
  <1> HIDE DEF w
  <1> QED  BY <1>2, <1>4, <1>5, Zenon DEF st

\* The request is given to the backend.
LEMMA StartStep ==
    ASSUME worker \in Worker, NEW req \in Req, NEW ask \in AskType, NEW d, NEW io \in Io,
           Start(req, ask, d, io)
    PROVE  /\ disk' = d
           /\ worker' \in Worker /\ worker'.pc = "io" /\ worker'.req = req
           /\ worker'.ask = ask /\ worker'.io = io /\ worker'.used = worker.used
  <1> DEFINE t == [worker EXCEPT !.pc = "add_used", !.req = req, !.ask = ask]
             w == [t EXCEPT !.pc = "io", !.io = io]
  <1>1. disk' = d /\ worker' = w  BY Zenon DEF Start, Take
  <1>2. /\ "add_used" \in {"poll", "pop", "io", "add_used", "signal"}
        /\ "io" \in {"poll", "pop", "io", "add_used", "signal"}
    OBVIOUS
  <1>3. t \in Worker /\ t.req = req /\ t.ask = ask /\ t.used = worker.used
    BY <1>2, Zenon DEF Worker
  <1> HIDE DEF t
  <1>4. /\ w \in Worker /\ w.pc = "io" /\ w.req = t.req /\ w.ask = t.ask /\ w.used = t.used
        /\ w.io = io
    BY <1>2, <1>3, Zenon DEF Worker
  <1> HIDE DEF w
  <1> QED  BY <1>1, <1>3, <1>4, Zenon

\* An answer at once claims nothing of the disk.
LEMMA AnswerHandled ==
    ASSUME worker \in Worker, NEW req \in Req, NEW ask \in AskType, NEW d, Prepared(disk, d),
           NEW status \in Statuses, NEW data \in Seq(Content),
           Answer(req, ask, d, status, data),
           ask.type = "flush" => status # "ok" \/ disk.readonly,
           ask.type = "out" => status # "ok" \/ ask.len = 0,
           ask.type = "in" => \/ status = "none" \/ ask.len = 0
                              \/ status = "ioerr" /\ \A i \in 1 .. ask.len : data[i] = Zero
    PROVE  Handled(disk, disk', worker, worker', req)
  <1> DEFINE w == worker'
             e == disk'
  <1>1. /\ e = d /\ w \in Worker /\ w.pc = "add_used" /\ w.req = req
        /\ w.ask = ask /\ w.data = data /\ w.used = worker.used
        /\ w.status = status \/ w.status = "none"
    BY AnswerStep, Zenon
  <1>2. w.status = status \/ w.status = "none"  BY <1>1, Zenon
  <1> HIDE DEF w, e
  <1>3. Durable(e, w)
    <2>1. "none" # "ok"  OBVIOUS
    <2> QED  BY <1>1, <1>2, <2>1, Zenon DEF Durable, Prepared
  <1>4. Truth(e, w)
    <2>1. "none" # "ok" /\ "none" # "ioerr" /\ "ioerr" # "ok"  OBVIOUS
    <2>2. ask.len = 0 => 1 .. ask.len = {}  OBVIOUS
    <2>3. ASSUME NEW i \in 1 .. ask.len, ask.type = "in", w.status # "none"
          PROVE  w.data[i] = Zero /\ w.status # "ok"
      BY <1>1, <1>2, <2>1, <2>2, <2>3, Zenon
    <2>4. ASSUME NEW i \in 1 .. ask.len, ask.type = "out" PROVE w.status # "ok"
      BY <1>2, <2>1, <2>2, <2>4, Zenon
    <2> QED  BY <1>1, <2>3, <2>4, Zenon DEF Truth
  <1> QED  BY <1>1, <1>3, <1>4, Zenon DEF Handled, e, w

\* A call of the backend starts as Serves says.
LEMMA StartHandled ==
    ASSUME worker \in Worker, NEW req \in Req, NEW ask \in AskType, NEW d, Prepared(disk, d),
           NEW io \in Io, Start(req, ask, d, io), Serves(d, ask, io, req.id)
    PROVE  Handled(disk, disk', worker, worker', req)
  BY StartStep, Zenon DEF Handled

\* The arguments of a transfer and of a flush.
LEMMA TransferFields ==
    ASSUME NEW d \in Disk, NEW op \in {"read", "write"}, NEW at \in Nat, NEW len \in Nat
    PROVE  LET io == Transfer(d, op, at, len)
           IN  io \in Io /\ io.op = op /\ io.at = at /\ io.len = len /\ io.done = 0
  <1> DEFINE p == PreferDirect(d, at, len)
             io == [NoIo EXCEPT !.op = op, !.at = at, !.len = len, !.prefer = p]
  <1>1. p \in BOOLEAN  BY DEF PreferDirect, Disk
  <1>2. NoIo \in Io  BY DEF NoIo, Io
  <1>3. NoIo.done = 0  BY DEF NoIo
  <1>4. op \in {"none", "read", "write", "fsync"}  OBVIOUS
  <1>5. Transfer(d, op, at, len) = io  BY Zenon DEF Transfer
  <1> HIDE DEF p
  <1>6. io \in Io /\ io.op = op /\ io.at = at /\ io.len = len /\ io.done = NoIo.done
    BY <1>1, <1>2, <1>4, Zenon DEF Io
  <1> QED  BY <1>3, <1>5, <1>6, Zenon

\* A flush has a descriptor to sync.
LEMMA FlushFields ==
    ASSUME NEW d
    PROVE  FlushData(d) \in Io /\ FlushData(d).op = "fsync" /\ FlushData(d).fds # <<>>
  <1> DEFINE s == IF d.useDirect /\ d.direct THEN <<"direct", "buffered">> ELSE <<"buffered">>
             io == [NoIo EXCEPT !.op = "fsync", !.fds = s]
  <1>1. s \in Seq(Fds) /\ s # <<>>
    <2>1. "direct" \in Fds /\ "buffered" \in Fds  BY DEF Fds
    <2>2. <<"direct", "buffered">> \in Seq(Fds) /\ <<"buffered">> \in Seq(Fds)  BY <2>1
    <2>3. <<"direct", "buffered">> # <<>> /\ <<"buffered">> # <<>>  OBVIOUS
    <2> QED  BY <2>2, <2>3, Zenon
  <1>2. NoIo \in Io  BY DEF NoIo, Io
  <1>3. "fsync" \in {"none", "read", "write", "fsync"}  OBVIOUS
  <1>4. FlushData(d) = io  BY Zenon DEF FlushData
  <1> HIDE DEF s
  <1>5. io \in Io /\ io.op = "fsync" /\ io.fds = s  BY <1>1, <1>2, <1>3, Zenon DEF Io
  <1> QED  BY <1>1, <1>4, <1>5, Zenon

\* IN: an error is answered with zeros, and a read starts at the sector it names.
LEMMA InHandled ==
    ASSUME disk \in Disk, worker \in Worker, NEW req \in Req, NEW ask \in AskType,
           ask.type = "in", HandleIn(req, ask)
    PROVE  Handled(disk, disk', worker, worker', req)
  <1>1. ask.len \in 0 .. MaxLen /\ ask.len \in Nat /\ ask.sector \in Nat /\ MaxLen \in Nat
    BY BlockDiskAssumption DEF AskType
  <1>2. Prepared(disk, disk)  BY Zenon DEF Prepared
  <1>3. <<>> \in Seq(Content)  OBVIOUS
  <1>4. ask.type # "flush" /\ ask.type # "out"  OBVIOUS
  <1>5. CASE Answer(req, ask, disk, "none", <<>>)
    <2>1. "none" \in Statuses  BY DEF Statuses
    <2> QED  BY <1>2, <1>3, <1>4, <1>5, <2>1, AnswerHandled, Zenon
  <1>6. CASE Answer(req, ask, ZeroScratch(disk, ask.len), "ioerr", Zeros(ask.len))
    <2>1. "ioerr" \in Statuses  BY DEF Statuses
    <2>2. Zeros(ask.len) \in Seq(Content) /\ \A i \in 1 .. ask.len : Zeros(ask.len)[i] = Zero
      BY <1>1 DEF Zeros, Content
    <2>3. Prepared(disk, ZeroScratch(disk, ask.len))
      <3>1. Zero \in Content  BY DEF Content
      <3> QED  BY <1>1, <3>1, ScratchFields, Zenon DEF Prepared, ZeroScratch
    <2> QED  BY <1>4, <1>6, <2>1, <2>2, <2>3, AnswerHandled, Zenon
  <1>7. CASE ask.len = 0 /\ Answer(req, ask, disk, "ok", <<>>)
    <2>1. "ok" \in Statuses  BY DEF Statuses
    <2> QED  BY <1>2, <1>3, <1>4, <1>7, <2>1, AnswerHandled, Zenon
  <1>8. CASE ~ OutOfRange(ask) /\ Start(req, ask, disk, Transfer(disk, "read", ask.sector, ask.len))
    <2> DEFINE io == Transfer(disk, "read", ask.sector, ask.len)
    <2>1. /\ io \in Io /\ io.op = "read" /\ io.at = ask.sector /\ io.len = ask.len
          /\ io.done = 0
      BY <1>1, TransferFields
    <2> HIDE DEF io
    <2>2. InRange(io)
      <3>1. ask.sector + ask.len <= Capacity /\ ask.len <= MaxLen
        BY <1>1, <1>8, BlockDiskAssumption DEF OutOfRange
      <3> QED  BY <1>1, <2>1, <3>1 DEF InRange
    <2>3. Filled(disk, io)  BY <2>1 DEF Filled
    <2>4. Serves(disk, ask, io, req.id)  BY <2>1, <2>2, <2>3, Zenon DEF Serves
    <2>5. Start(req, ask, disk, io)  BY <1>8, Zenon DEF io
    <2> QED  BY <1>2, <2>1, <2>4, <2>5, StartHandled, Zenon
  <1> QED  BY <1>5, <1>6, <1>7, <1>8, Zenon DEF HandleIn

\* OUT: the write finds the guest's data in the scratch buffer.
LEMMA OutHandled ==
    ASSUME disk \in Disk, worker \in Worker, NEW req \in Req, NEW ask \in AskType, NEW feats,
           ask.type = "out", HandleOut(req, ask, feats)
    PROVE  Handled(disk, disk', worker, worker', req)
  <1> DEFINE d == FillScratch(disk, ask.len, req.id)
             io == Transfer(d, "write", ask.sector, ask.len)
  <1>1. ask.len \in 0 .. MaxLen /\ ask.len \in Nat /\ ask.sector \in Nat /\ MaxLen \in Nat
    BY BlockDiskAssumption DEF AskType
  <1>2. Prepared(disk, d) /\ d \in Disk /\ \A i \in 1 .. ask.len : d.scratch[i] = req.id
    <2>1. req.id \in Content  BY DEF Content, Req
    <2> QED  BY <1>1, <2>1, ScratchFields, ZenonT(40) DEF Prepared
  <1>3. <<>> \in Seq(Content)  OBVIOUS
  <1>4. ask.type # "flush" /\ ask.type # "in"  OBVIOUS
  <1>5. \/ Answer(req, ask, d, "none", <<>>)
        \/ Answer(req, ask, d, "ioerr", <<>>)
        \/ ask.len = 0 /\ Answer(req, ask, d, "ok", <<>>)
        \/ ~ Refused(ask, feats) /\ Start(req, ask, d, io)
    BY Zenon DEF HandleOut
  <1> HIDE DEF d
  <1>6. CASE Answer(req, ask, d, "none", <<>>)
    <2>1. "none" \in Statuses /\ "none" # "ok"  BY DEF Statuses
    <2> QED  BY <1>2, <1>3, <1>4, <1>6, <2>1, AnswerHandled, Zenon
  <1>7. CASE Answer(req, ask, d, "ioerr", <<>>)
    <2>1. "ioerr" \in Statuses /\ "ioerr" # "ok"  BY DEF Statuses
    <2> QED  BY <1>2, <1>3, <1>4, <1>7, <2>1, AnswerHandled, Zenon
  <1>8. CASE ask.len = 0 /\ Answer(req, ask, d, "ok", <<>>)
    <2>1. "ok" \in Statuses  BY DEF Statuses
    <2> QED  BY <1>2, <1>3, <1>4, <1>8, <2>1, AnswerHandled, Zenon
  <1>9. CASE ~ Refused(ask, feats) /\ Start(req, ask, d, io)
    <2>1. /\ io \in Io /\ io.op = "write" /\ io.at = ask.sector /\ io.len = ask.len
          /\ io.done = 0
      BY <1>1, <1>2, TransferFields
    <2>2. Start(req, ask, d, io)  BY <1>9, Zenon
    <2> HIDE DEF io
    <2>3. InRange(io)
      <3>1. ask.sector + ask.len <= Capacity /\ ask.len <= MaxLen
        BY <1>1, <1>9, BlockDiskAssumption DEF Refused, OutOfRange
      <3> QED  BY <1>1, <2>1, <3>1 DEF InRange
    <2>4. Stored(d, io, req.id)
      <3>1. 1 .. io.done = {}  BY <2>1
      <3> QED  BY <1>2, <2>1, <3>1, Zenon DEF Stored
    <2>5. ~ d.readonly  BY <1>2, <1>9, Zenon DEF Refused, Prepared
    <2>6. Serves(d, ask, io, req.id)  BY <2>1, <2>3, <2>4, <2>5, Zenon DEF Serves
    <2> QED  BY <1>2, <2>1, <2>2, <2>6, StartHandled, Zenon
  <1> QED  BY <1>5, <1>6, <1>7, <1>8, <1>9, Zenon

\* FLUSH: without the backend only an image that cannot be written answers OK.
LEMMA FlushHandled ==
    ASSUME disk \in Disk, worker \in Worker, NEW req \in Req, NEW ask \in AskType, NEW feats,
           ask.type = "flush", HandleFlush(req, ask, feats)
    PROVE  Handled(disk, disk', worker, worker', req)
  <1>1. Prepared(disk, disk)  BY Zenon DEF Prepared
  <1>2. <<>> \in Seq(Content)  OBVIOUS
  <1>3. ask.type # "out" /\ ask.type # "in"  OBVIOUS
  <1>4. CASE Answer(req, ask, disk, "unsupp", <<>>)
    <2>1. "unsupp" \in Statuses /\ "unsupp" # "ok"  BY DEF Statuses
    <2> QED  BY <1>1, <1>2, <1>3, <1>4, <2>1, AnswerHandled, Zenon
  <1>5. CASE disk.readonly /\ Answer(req, ask, disk, "ok", <<>>)
    <2>1. "ok" \in Statuses  BY DEF Statuses
    <2> QED  BY <1>1, <1>2, <1>3, <1>5, <2>1, AnswerHandled, Zenon
  <1>6. CASE Start(req, ask, disk, FlushData(disk))
    <2>1. /\ FlushData(disk) \in Io /\ FlushData(disk).op = "fsync"
          /\ FlushData(disk).fds # <<>>
      BY FlushFields, Zenon
    <2>2. Serves(disk, ask, FlushData(disk), req.id)  BY <2>1, Zenon DEF Serves
    <2> QED  BY <1>1, <1>6, <2>1, <2>2, StartHandled, Zenon
  <1> QED  BY <1>4, <1>5, <1>6, Zenon DEF HandleFlush

\* Every chain, whatever it asks for.
LEMMA RequestHandled ==
    ASSUME disk \in Disk, worker \in Worker, NEW req \in Req, NEW ask \in Asks, NEW feats,
           HandleRequest(req, ask, feats)
    PROVE  Handled(disk, disk', worker, worker', req)
  <1>1. ask \in AskType /\ ask.len \in 0 .. MaxLen  BY AskTyped, Zenon
  <1>2. Prepared(disk, disk)  BY Zenon DEF Prepared
  <1>3. <<>> \in Seq(Content)  OBVIOUS
  <1>4. CASE ask.type = "in" /\ HandleIn(req, ask)  BY <1>1, <1>4, InHandled, Zenon
  <1>5. CASE ask.type = "out" /\ HandleOut(req, ask, feats)  BY <1>1, <1>5, OutHandled, Zenon
  <1>6. CASE ask.type = "flush" /\ HandleFlush(req, ask, feats)
    BY <1>1, <1>6, FlushHandled, Zenon
  <1>7. CASE ask.type = "get_id" /\ Answer(req, ask, disk, "ok", <<>>)
    <2>1. "ok" \in Statuses  BY DEF Statuses
    <2>2. ask.type # "in" /\ ask.type # "out" /\ ask.type # "flush"  BY <1>7
    <2> QED  BY <1>1, <1>2, <1>3, <1>7, <2>1, <2>2, AnswerHandled, Zenon
  <1>8. CASE /\ ask.type = "other"
             /\ Answer(req, ask, IF ask.room THEN ZeroScratch(disk, ask.len) ELSE disk,
                       "unsupp", <<>>)
    <2> DEFINE d == IF ask.room THEN ZeroScratch(disk, ask.len) ELSE disk
    <2>1. "unsupp" \in Statuses  BY DEF Statuses
    <2>2. ask.type # "in" /\ ask.type # "out" /\ ask.type # "flush"  BY <1>8
    <2>3. Prepared(disk, ZeroScratch(disk, ask.len))
      <3>1. Zero \in Content  BY DEF Content
      <3> QED  BY <1>1, <3>1, ScratchFields, Zenon DEF Prepared, ZeroScratch
    <2>4. Prepared(disk, d)  BY <1>2, <2>3, Zenon
    <2>5. Answer(req, ask, d, "unsupp", <<>>)  BY <1>8, Zenon
    <2> HIDE DEF d
    <2> QED  BY <1>1, <1>3, <2>1, <2>2, <2>4, <2>5, AnswerHandled, Zenon
  <1>9. CASE ask.type = "bad" /\ Answer(req, ask, disk, "none", <<>>)
    <2>1. "none" \in Statuses  BY DEF Statuses
    <2>2. ask.type # "in" /\ ask.type # "out" /\ ask.type # "flush"  BY <1>9
    <2> QED  BY <1>1, <1>2, <1>3, <1>9, <2>1, <2>2, AnswerHandled, Zenon
  <1> QED  BY <1>4, <1>5, <1>6, <1>7, <1>8, <1>9, Zenon DEF HandleRequest

------------------------------------------------------------------------------
(* The backend at work *)

\* A prefix of the scratch buffer.
LEMMA Prefix ==
    ASSUME NEW s \in [1 .. MaxLen -> Content], NEW len \in 0 .. MaxLen
    PROVE  /\ SubSeq(s, 1, len) \in Seq(Content)
           /\ \A i \in 1 .. len : SubSeq(s, 1, len)[i] = s[i]
  <1>1. MaxLen \in Nat /\ len \in Nat /\ len <= MaxLen  BY BlockDiskAssumption
  <1>2. s = [i \in 1 .. MaxLen |-> s[i]]  OBVIOUS
  <1>3. [i \in 1 .. MaxLen |-> s[i]] \in Seq(Content) /\ Len([i \in 1 .. MaxLen |-> s[i]]) = MaxLen
    BY <1>1
  <1>4. s \in Seq(Content) /\ Len(s) = MaxLen  BY <1>2, <1>3, Zenon
  <1> QED  BY <1>1, <1>4

\* The disk after a system call: an IN that failed hands over zeros.
After(o) ==
    IF o.res = "error" /\ worker.ask.type = "in" THEN ZeroScratch(o.disk, worker.ask.len)
                                                 ELSE o.disk

\* What is known of the worker after a system call with outcome o.
Answered(o) ==
    /\ disk' = After(o) /\ worker' \in Worker
    /\ worker'.req = worker.req /\ worker'.ask = worker.ask /\ worker'.io = o.io
    /\ worker'.used = worker.used
    /\ worker'.pc = IF o.res = "more" THEN "io" ELSE "add_used"
    /\ worker'.status = "ok" => o.res = "ok"
    /\ o.res # "more" /\ worker.ask.type = "in" =>
          \A i \in 1 .. worker.ask.len : worker'.data[i] = disk'.scratch[i]
    /\ o.res = "ok" => worker'.status \in {"none", "ok"}
    /\ o.res = "error" => worker'.status # "ok"

\* What a system call does to the worker.
LEMMA IoFields ==
    ASSUME TypeOK, DiskIo
    PROVE  \E o \in Call(disk, worker.io) :
              disk' = After(o) /\ (o.io \in Io /\ After(o) \in Disk => Answered(o))
  <1>1. worker \in Worker /\ worker.ask \in AskType /\ worker.ask.len \in 0 .. MaxLen
    BY DEF TypeOK, Worker, AskType
  <1> DEFINE pc(o) == IF o.res = "more" THEN "io" ELSE "add_used"
             st(o) == CASE o.res = "more" \/ ~ worker.ask.room -> "none"
                        [] o.res = "ok" -> "ok"
                        [] OTHER -> "ioerr"
             dt(o) == IF o.res # "more" /\ worker.ask.type = "in"
                      THEN SubSeq(After(o).scratch, 1, worker.ask.len) ELSE <<>>
             w(o) == [worker EXCEPT !.io = o.io, !.pc = pc(o), !.status = st(o), !.data = dt(o)]
  <1>2. PICK o \in Call(disk, worker.io) : disk' = After(o) /\ worker' = w(o)
    BY Zenon DEF DiskIo, After
  <1>3. pc(o) \in {"poll", "pop", "io", "add_used", "signal"}  OBVIOUS
  <1>4. /\ st(o) \in {"none", "ok", "ioerr", "unsupp"}
        /\ st(o) = "ok" => o.res = "ok"
        /\ o.res = "ok" => st(o) \in {"none", "ok"}
        /\ o.res = "error" => st(o) # "ok"
    OBVIOUS
  <1>5. ASSUME After(o) \in Disk
        PROVE  /\ dt(o) \in Seq(Content)
               /\ o.res # "more" /\ worker.ask.type = "in" =>
                     \A i \in 1 .. worker.ask.len : dt(o)[i] = After(o).scratch[i]
    <2>1. After(o).scratch \in [1 .. MaxLen -> Content]  BY <1>5, Zenon DEF Disk
    <2>2. <<>> \in Seq(Content)  OBVIOUS
    <2>3. /\ SubSeq(After(o).scratch, 1, worker.ask.len) \in Seq(Content)
          /\ \A i \in 1 .. worker.ask.len :
                SubSeq(After(o).scratch, 1, worker.ask.len)[i] = After(o).scratch[i]
      BY <1>1, <2>1, Prefix, Zenon
    <2> QED  BY <2>2, <2>3, Zenon
  <1> HIDE DEF st, dt
  <1>6. ASSUME o.io \in Io, After(o) \in Disk
        PROVE  /\ w(o) \in Worker
               /\ w(o).req = worker.req /\ w(o).ask = worker.ask /\ w(o).used = worker.used
               /\ w(o).io = o.io /\ w(o).pc = pc(o) /\ w(o).status = st(o) /\ w(o).data = dt(o)
    <2> HIDE DEF pc
    <2>1. dt(o) \in Seq(Content)  BY <1>5, <1>6, Zenon
    <2> QED  BY <1>1, <1>3, <1>4, <1>6, <2>1, Zenon DEF Worker
  <1> HIDE DEF w
  <1>7. ASSUME o.io \in Io, After(o) \in Disk PROVE Answered(o)
    BY <1>2, <1>4, <1>5, <1>6, <1>7, Zenon DEF Answered
  <1> QED  BY <1>2, <1>7, Zenon

\* The parts of DiskInv that a system call can disturb.
Served ==
    /\ disk' \in Disk /\ LateOK(disk')
    /\ worker'.pc = "io" => Serves(disk', worker'.ask, worker'.io, worker'.req.id)
    /\ worker'.pc = "add_used" => Truth(disk', worker') /\ Durable(disk', worker')
    /\ disk'.lost # {} => /\ worker'.ask.type = "flush"
                          /\ \/ worker'.io.swallowed
                             \/ worker'.pc = "add_used" /\ worker'.status # "ok"

\* A system call of a read.
LEMMA ReadServed ==
    ASSUME TypeOK, DiskInv, At("io"), worker.ask.type = "in",
           Serves(disk, worker.ask, worker.io, worker.req.id), NEW o \in Call(disk, worker.io),
           disk' = After(o), o.io \in Io /\ After(o) \in Disk => Answered(o)
    PROVE  Served /\ Answered(o) /\ disk'.data = disk.data
  <1> DEFINE io == worker.io
             ask == worker.ask
             id == worker.req.id
  <1>1. /\ disk \in Disk /\ io \in Io /\ ask.len \in 0 .. MaxLen /\ ask.len \in Nat
        /\ ask.sector \in Nat
    BY BlockDiskAssumption DEF TypeOK, Worker, AskType
  <1>2. /\ io.op = "read" /\ io.at = ask.sector /\ io.len = ask.len /\ InRange(io)
        /\ ~ disk.stray => Filled(disk, io)
    <2>1. ask.type # "out" /\ ask.type # "flush"  OBVIOUS
    <2> QED  BY <2>1, Zenon DEF Serves
  <1>3. LateOK(disk) /\ disk.lost = {}
    <2>1. worker.ask.type # "flush"  OBVIOUS
    <2> QED  BY <2>1, Zenon DEF DiskInv, LossInHand
  <1>4. /\ KeepsIo(disk, io, o) /\ (~ o.disk.stray => Filled(o.disk, o.io))
        /\ o.disk.data = disk.data
    <2>1. /\ disk \in Disk /\ LateOK(disk) /\ io \in Io /\ io.op = "read" /\ InRange(io)
          /\ ~ disk.stray => Filled(disk, io)
      BY <1>1, <1>2, <1>3, Zenon
    <2> HIDE DEF io
    <2>2. o \in Call(disk, io)  BY Zenon DEF io
    <2> QED  BY <2>1, <2>2, ReadCall, Zenon
  <1> DEFINE z == ZeroScratch(o.disk, ask.len)
  <1>5. /\ z \in Disk /\ z.data = o.disk.data /\ z.late = o.disk.late /\ z.lost = o.disk.lost
        /\ z.stray = o.disk.stray /\ z.readonly = o.disk.readonly
        /\ \A i \in 1 .. ask.len : z.scratch[i] = Zero
    <2>1. Zero \in Content /\ o.disk \in Disk  BY <1>4 DEF Content, KeepsIo
    <2>2. z = FillScratch(o.disk, ask.len, Zero)  BY Zenon DEF ZeroScratch
    <2> HIDE DEF z
    <2> QED  BY <1>1, <2>1, <2>2, ScratchFields, SMTT(30)
  <1>6. disk' = o.disk \/ (o.res = "error" /\ disk' = z)  BY Zenon DEF After
  <1>7. o.res # "error" => disk' = o.disk  BY Zenon DEF After
  <1>8. o.res = "error" => disk' = z  BY Zenon DEF After
  <1> HIDE DEF z
  <1>9. /\ disk' \in Disk /\ LateOK(disk') /\ disk'.lost = {} /\ disk'.stray = o.disk.stray
        /\ o.io \in Io /\ disk'.data = disk.data
    BY <1>3, <1>4, <1>5, <1>6, Zenon DEF KeepsIo, LateOK
  <1>10. Answered(o)  BY <1>9, Zenon
  <1>11. worker'.ask = ask /\ worker'.req.id = id /\ worker'.io = o.io
    BY <1>10, Zenon DEF Answered
  <1> HIDE DEF io, ask, id
  <1>12. ASSUME worker'.pc = "io" PROVE Serves(disk', worker'.ask, worker'.io, worker'.req.id)
    <2>1. o.res = "more"
      <3>1. "io" # "add_used"  OBVIOUS
      <3> QED  BY <1>10, <1>12, <3>1, Zenon DEF Answered
    <2>2. disk' = o.disk
      <3>1. "more" # "error"  OBVIOUS
      <3> QED  BY <1>7, <2>1, <3>1, Zenon
    <2> QED  BY <1>2, <1>4, <1>11, <2>2, Zenon DEF Serves, KeepsIo, ask
  <1>13. ASSUME ~ disk'.stray, NEW i \in 1 .. ask.len, worker'.pc = "add_used",
                worker'.status # "none"
         PROVE  worker'.data[i] = IF worker'.status = "ok" THEN disk'.data[ask.sector + i - 1]
                                                           ELSE Zero
    <2>1. worker'.data[i] = disk'.scratch[i] /\ o.res # "more"
      <3>1. "io" # "add_used"  OBVIOUS
      <3>2. o.res # "more"  BY <1>10, <1>13, <3>1, Zenon DEF Answered
      <3> QED  BY <1>10, <3>2, Zenon DEF Answered, ask
    <2>2. CASE o.res = "ok"
      <3>1. disk' = o.disk /\ worker'.status = "ok"
        <4>1. "ok" # "error"  OBVIOUS
        <4> QED  BY <1>7, <1>10, <1>13, <2>2, <4>1, Zenon DEF Answered
      <3>2. o.io.done = ask.len /\ o.io.at = ask.sector
        BY <1>2, <1>4, <2>2, Zenon DEF KeepsIo
      <3>3. o.disk.scratch[i] = o.disk.data[ask.sector + i - 1]
        BY <1>4, <1>9, <1>13, <3>2, Zenon DEF Filled
      <3> QED  BY <2>1, <3>1, <3>3, Zenon
    <2>3. CASE o.res = "error"
      <3>1. worker'.status # "ok"  BY <1>10, <2>3, Zenon DEF Answered
      <3>2. disk'.scratch[i] = Zero  BY <1>5, <1>8, <2>3, Zenon
      <3> QED  BY <2>1, <3>1, <3>2, Zenon
    <2> QED  BY <1>4, <2>1, <2>2, <2>3, Zenon DEF KeepsIo
  <1>14. ask.type # "out" /\ ask.type # "flush"  BY DEF ask
  <1>15. worker'.pc = "add_used" => Truth(disk', worker')
    BY <1>11, <1>13, <1>14, Zenon DEF Truth
  <1>16. Durable(disk', worker')  BY <1>11, <1>14, Zenon DEF Durable
  <1> QED  BY <1>9, <1>10, <1>12, <1>15, <1>16, Zenon DEF Served

\* A system call of a write.
LEMMA WriteServed ==
    ASSUME TypeOK, DiskInv, At("io"), worker.ask.type = "out",
           Serves(disk, worker.ask, worker.io, worker.req.id), NEW o \in Call(disk, worker.io),
           disk' = After(o), o.io \in Io /\ After(o) \in Disk => Answered(o)
    PROVE  /\ Served /\ Answered(o)
           /\ \A u \in Sectors : disk'.data[u] # disk.data[u]
                 => /\ Covers(worker.io, u) /\ ~ disk.readonly
                    /\ disk.stray \/ disk'.data[u] = worker.req.id
  <1> DEFINE io == worker.io
             ask == worker.ask
             id == worker.req.id
  <1>1. /\ disk \in Disk /\ io \in Io /\ ask.len \in Nat /\ ask.sector \in Nat
    BY BlockDiskAssumption DEF TypeOK, Worker, AskType
  <1>2. /\ io.op = "write" /\ io.at = ask.sector /\ io.len = ask.len /\ InRange(io)
        /\ ~ disk.readonly /\ (~ disk.stray => Stored(disk, io, id))
    <2>1. ask.type # "in" /\ ask.type # "flush"  OBVIOUS
    <2> QED  BY <2>1, Zenon DEF Serves
  <1>3. LateOK(disk) /\ disk.lost = {}
    <2>1. worker.ask.type # "flush"  OBVIOUS
    <2> QED  BY <2>1, Zenon DEF DiskInv, LossInHand
  <1>4. /\ KeepsIo(disk, io, o) /\ (~ o.disk.stray => Stored(o.disk, o.io, id))
        /\ \A u \in Sectors : o.disk.data[u] # disk.data[u]
              => u \in io.at .. io.at + io.len - 1 /\ (disk.stray \/ o.disk.data[u] = id)
    <2>1. /\ disk \in Disk /\ LateOK(disk) /\ io \in Io /\ io.op = "write" /\ InRange(io)
          /\ ~ disk.stray => Stored(disk, io, id)
      BY <1>1, <1>2, <1>3, Zenon
    <2> HIDE DEF io, id
    <2>2. o \in Call(disk, io)  BY Zenon DEF io
    <2> QED  BY <2>1, <2>2, WriteCall
  <1>5. disk' = o.disk
    <2>1. worker.ask.type # "in"  OBVIOUS
    <2> QED  BY <2>1, Zenon DEF After
  <1>6. /\ disk' \in Disk /\ LateOK(disk') /\ disk'.lost = {} /\ o.io \in Io
        /\ disk'.readonly = disk.readonly
    BY <1>3, <1>4, <1>5, Zenon DEF KeepsIo
  <1>7. Answered(o)  BY <1>6, Zenon
  <1>8. worker'.ask = ask /\ worker'.req.id = id /\ worker'.io = o.io
    BY <1>7, Zenon DEF Answered
  <1>9. ask.type = "out" /\ ask.type # "in" /\ ask.type # "flush"  OBVIOUS
  <1>10. \A u \in Sectors : disk'.data[u] # disk.data[u]
            => /\ Covers(io, u) /\ ~ disk.readonly
               /\ disk.stray \/ disk'.data[u] = id
    BY <1>2, <1>4, <1>5, Zenon DEF Covers
  <1> HIDE DEF ask, id
  <1>11. ASSUME worker'.pc = "io" PROVE Serves(disk', worker'.ask, worker'.io, worker'.req.id)
    BY <1>2, <1>4, <1>5, <1>6, <1>8, <1>9, Zenon DEF Serves, KeepsIo
  <1>12. ASSUME ~ disk'.stray, NEW i \in 1 .. ask.len, worker'.status = "ok"
         PROVE  disk'.data[ask.sector + i - 1] = id
    <2>1. o.res = "ok"  BY <1>7, <1>12, Zenon DEF Answered
    <2>2. o.io.done = ask.len /\ o.io.at = ask.sector  BY <1>2, <1>4, <2>1, Zenon DEF KeepsIo
    <2> QED  BY <1>4, <1>5, <1>12, <2>2, Zenon DEF Stored
  <1>13. Truth(disk', worker')  BY <1>8, <1>9, <1>12, Zenon DEF Truth
  <1>14. Durable(disk', worker')  BY <1>8, <1>9, Zenon DEF Durable
  <1>15. Served  BY <1>6, <1>11, <1>13, <1>14, Zenon DEF Served
  <1> QED  BY <1>7, <1>10, <1>15, Zenon DEF id, io

\* A system call of a flush.
LEMMA FlushServed ==
    ASSUME TypeOK, DiskInv, At("io"), worker.ask.type = "flush",
           Serves(disk, worker.ask, worker.io, worker.req.id), NEW o \in Call(disk, worker.io),
           disk' = After(o), o.io \in Io /\ After(o) \in Disk => Answered(o)
    PROVE  Served /\ Answered(o) /\ disk'.data = disk.data
  <1> DEFINE io == worker.io
             ask == worker.ask
  <1>1. disk \in Disk /\ io \in Io  BY DEF TypeOK, Worker
  <1>2. ask.type = "flush" /\ ask.type # "in" /\ ask.type # "out"  OBVIOUS
  <1>3. io.op = "fsync" /\ io.fds # <<>>  BY <1>2, Zenon DEF Serves
  <1>4. LateOK(disk) /\ (disk.lost # {} => io.swallowed)
    <2>1. "io" # "add_used"  OBVIOUS
    <2> QED  BY <2>1, Zenon DEF DiskInv, LossInHand, At
  <1>5. KeepsFlush(disk, io, o)
    <2> HIDE DEF io
    <2>1. o \in Call(disk, io)  BY Zenon DEF io
    <2> QED  BY <1>1, <1>3, <2>1, FsyncCall, Zenon
  <1>6. disk' = o.disk  BY <1>2, Zenon DEF After
  <1>7. /\ disk' \in Disk /\ LateOK(disk') /\ o.io \in Io /\ disk'.data = disk.data
    BY <1>4, <1>5, <1>6, Zenon DEF KeepsFlush, LateOK
  <1>8. Answered(o)  BY <1>7, Zenon
  <1>9. worker'.ask = ask /\ worker'.io = o.io  BY <1>8, Zenon DEF Answered
  <1> HIDE DEF ask, io
  <1>10. ASSUME worker'.pc = "io" PROVE Serves(disk', worker'.ask, worker'.io, worker'.req.id)
    <2>1. o.res = "more"
      <3>1. "io" # "add_used"  OBVIOUS
      <3> QED  BY <1>8, <1>10, <3>1, Zenon DEF Answered
    <2> QED  BY <1>2, <1>5, <1>9, <2>1, Zenon DEF Serves, KeepsFlush
  <1>11. ASSUME disk'.lost # {}
         PROVE  o.io.swallowed \/ (worker'.pc = "add_used" /\ worker'.status # "ok")
    <2>1. CASE o.res = "error"
      <3>1. "error" # "more"  OBVIOUS
      <3> QED  BY <1>8, <2>1, <3>1, Zenon DEF Answered
    <2>2. CASE o.disk.lost = disk.lost  BY <1>4, <1>5, <1>6, <1>11, <2>2, Zenon DEF KeepsFlush
    <2> QED  BY <1>5, <2>1, <2>2, Zenon DEF KeepsFlush
  <1>12. Durable(disk', worker')
    <2>1. SUFFICES ASSUME worker'.status = "ok"
                   PROVE  disk'.dirty = {} /\ (o.io.swallowed \/ disk'.lost = {})
      BY <1>9, Zenon DEF Durable
    <2>2. o.res = "ok"  BY <1>8, <2>1, Zenon DEF Answered
    <2> QED  BY <1>5, <1>6, <1>11, <2>1, <2>2, Zenon DEF KeepsFlush
  <1>13. Truth(disk', worker')  BY <1>2, <1>9, Zenon DEF Truth
  <1>14. Served  BY <1>2, <1>7, <1>9, <1>10, <1>11, <1>12, <1>13, Zenon DEF Served
  <1> QED  BY <1>7, <1>8, <1>14, Zenon

\* One system call for the request in hand; it writes to the disk what the guest
\* gave, where the guest said.
LEMMA IoServed ==
    ASSUME TypeOK, DiskInv, DiskIo
    PROVE  /\ Served
           /\ \E o : Answered(o)
           /\ \A u \in Sectors : disk'.data[u] # disk.data[u]
                 => /\ Covers(worker.io, u) /\ ~ disk.readonly
                    /\ disk.stray \/ disk'.data[u] = worker.req.id
  <1>1. At("io") /\ Serves(disk, worker.ask, worker.io, worker.req.id)
    BY Zenon DEF DiskIo, DiskInv
  <1>2. PICK o \in Call(disk, worker.io) :
               disk' = After(o) /\ (o.io \in Io /\ After(o) \in Disk => Answered(o))
    BY IoFields, Zenon
  <1>3. CASE worker.ask.type = "in"
    <2>1. Served /\ Answered(o) /\ disk'.data = disk.data
      BY <1>1, <1>2, <1>3, ReadServed, Zenon
    <2> QED  BY <2>1, Zenon
  <1>4. CASE worker.ask.type = "out"  BY <1>1, <1>2, <1>4, WriteServed, Zenon
  <1>5. CASE worker.ask.type = "flush"
    <2>1. Served /\ Answered(o) /\ disk'.data = disk.data
      BY <1>1, <1>2, <1>5, FlushServed, Zenon
    <2> QED  BY <2>1, Zenon
  <1> QED  BY <1>1, <1>3, <1>4, <1>5, Zenon DEF Serves

------------------------------------------------------------------------------
(* What the steps have in common *)

\* The queue, before and after a step.
LEMMA Rings ==
    /\ Ready = mmio.queues[RQ].ready /\ Ready' = mmio'.queues[RQ].ready
    /\ Avail = mmio.queues[RQ].avail /\ Avail' = mmio'.queues[RQ].avail
    /\ Used = mmio.queues[RQ].used /\ Used' = mmio'.queues[RQ].used
  BY Zenon DEF Ready, Avail, Used, T!Ready, T!Avail, T!Used

\* What TypeOK says of the fields the steps look at.
LEMMA Typed ==
    ASSUME TypeOK
    PROVE  /\ Avail \in Seq(Req) /\ Used \in Seq(Req) /\ Ready \in BOOLEAN /\ mmio \in Mmio
           /\ worker \in Worker /\ worker.req \in Req /\ worker.used \in BOOLEAN
           /\ guest \in Guest /\ guest.back \in Seq(Req) /\ guest.posted \in Nat
           /\ guest.mine \in SUBSET Req /\ guest.epoch \in Nat
  <1>1. mmio \in Mmio /\ worker \in Worker /\ guest \in Guest  BY Zenon DEF TypeOK
  <1>2. Avail \in Seq(Req) /\ Used \in Seq(Req) /\ Ready \in BOOLEAN
    BY <1>1, RingFields, Rings, Zenon
  <1>3. worker.req \in Req /\ worker.used \in BOOLEAN  BY <1>1, Zenon DEF Worker
  <1>4. /\ guest.back \in Seq(Req) /\ guest.posted \in Nat
        /\ guest.mine \in SUBSET Req /\ guest.epoch \in Nat
    BY <1>1, Zenon DEF Guest
  <1> QED  BY <1>1, <1>2, <1>3, <1>4, Zenon

\* The worker that polls.
LEMMA IdleTyped ==
    ASSUME NEW pc \in {"poll", "pop", "io", "add_used", "signal"}, NEW used \in BOOLEAN
    PROVE  LET w == [Idle EXCEPT !.pc = pc, !.used = used]
           IN  w \in Worker /\ w.pc = pc /\ w.used = used /\ w.req = NoReq
  <1>1. NoReq \in Req  BY DEF NoReq, Req
  <1>2. NoAsk \in AskType  BY BlockDiskAssumption DEF NoAsk, AskType
  <1>3. NoIo \in Io  BY DEF NoIo, Io
  <1>4. "poll" \in {"poll", "pop", "io", "add_used", "signal"}
        /\ "none" \in {"none", "ok", "ioerr", "unsupp"} /\ <<>> \in Seq(Content)
    OBVIOUS
  <1>5. Idle \in Worker /\ Idle.req = NoReq
    BY <1>1, <1>2, <1>3, <1>4, Zenon DEF Idle, Worker
  <1> HIDE DEF Idle
  <1> QED  BY <1>5, Zenon DEF Worker

\* The worker between two rounds of its loop.
LEMMA IdleFields ==
    /\ Idle \in Worker /\ Idle.pc = "poll" /\ Idle.used = FALSE /\ Idle.req = NoReq
    /\ LET w == [Idle EXCEPT !.pc = "signal"]
       IN  w \in Worker /\ w.pc = "signal" /\ w.used = FALSE /\ w.req = NoReq
  <1>1. NoReq \in Req  BY DEF NoReq, Req
  <1>2. NoAsk \in AskType  BY BlockDiskAssumption DEF NoAsk, AskType
  <1>3. NoIo \in Io  BY DEF NoIo, Io
  <1>4. /\ "poll" \in {"poll", "pop", "io", "add_used", "signal"}
        /\ "signal" \in {"poll", "pop", "io", "add_used", "signal"}
        /\ "none" \in {"none", "ok", "ioerr", "unsupp"} /\ <<>> \in Seq(Content)
    OBVIOUS
  <1>5. Idle \in Worker /\ Idle.pc = "poll" /\ Idle.used = FALSE /\ Idle.req = NoReq
    BY <1>1, <1>2, <1>3, <1>4, Zenon DEF Idle, Worker
  <1> HIDE DEF Idle
  <1> QED  BY <1>4, <1>5, Zenon DEF Worker

\* The way of the requests does not change.
LEMMA WaySame ==
    ASSUME WayInv, Avail' = Avail, Used' = Used, Ready => Ready',
           worker'.req = worker.req, InHand' <=> InHand,
           guest'.back = guest.back, guest'.posted = guest.posted,
           guest'.mine = guest.mine, guest'.epoch = guest.epoch
    PROVE  WayInv'
  <1>1. Way(Avail, Used, worker.req, guest.back, guest.posted, guest.mine, guest.epoch)
    BY Zenon DEF WayInv
  <1>2. Way(Avail', Used', worker'.req, guest'.back, guest'.posted, guest'.mine, guest'.epoch)
    BY <1>1, Zenon
  <1>3. ~ Ready' => Disabled(Avail', Used', worker'.req, guest'.back, guest'.mine)
    BY Zenon DEF WayInv
  <1>4. InHand' <=> worker'.req # NoReq  BY Zenon DEF WayInv
  <1> QED  BY <1>2, <1>3, <1>4, Zenon DEF WayInv

\* What is visible depends on the used ring only.
LEMMA VisibleSame ==
    ASSUME Used' = Used
    PROVE  Visible' = Visible
  BY Zenon DEF Visible

\* Steps of the driver do not touch what DiskInv is about.
LEMMA DiskSame ==
    ASSUME DiskInv, disk' = disk, worker' = worker
    PROVE  DiskInv'
  <1>1. LateOK(disk') /\ LossInHand(disk)'
    BY Zenon DEF DiskInv, LossInHand, InHand, At
  <1>2. At("io")' => Serves(disk', worker'.ask, worker'.io, worker'.req.id)
    BY Zenon DEF DiskInv, At
  <1>3. AnswerTellsTruth'  BY Zenon DEF DiskInv, AnswerTellsTruth, At
  <1>4. FlushIsDurable'  BY Zenon DEF DiskInv, FlushIsDurable, At
  <1> QED  BY <1>1, <1>2, <1>3, <1>4, Zenon DEF DiskInv

\* No request is in hand after the step.
LEMMA DiskIdle ==
    ASSUME LateOK(disk'), disk'.lost = {}, worker'.pc # "io", worker'.pc # "add_used"
    PROVE  DiskInv'
  BY Zenon DEF DiskInv, LossInHand, AnswerTellsTruth, FlushIsDurable, At

\* A request is in hand after the step.
LEMMA DiskServed ==
    ASSUME Served, worker'.pc = "io" \/ worker'.pc = "add_used"
    PROVE  DiskInv'
  <1>1. LateOK(disk') /\ LossInHand(disk)'
    BY Zenon DEF Served, LossInHand, InHand, At
  <1>2. At("io")' => Serves(disk', worker'.ask, worker'.io, worker'.req.id)
    BY Zenon DEF Served, At
  <1>3. AnswerTellsTruth'  BY Zenon DEF Served, Truth, AnswerTellsTruth, At
  <1>4. FlushIsDurable'  BY Zenon DEF Served, Durable, FlushIsDurable, At
  <1> QED  BY <1>1, <1>2, <1>3, <1>4, Zenon DEF DiskInv

\* Between two requests nothing is lost.
LEMMA NotInHand ==
    ASSUME WayInv, DiskInv, worker.pc # "io", worker.pc # "add_used"
    PROVE  worker.req = NoReq /\ disk.lost = {} /\ LateOK(disk) /\ ~ InHand
  BY Zenon DEF WayInv, DiskInv, LossInHand, InHand, At

------------------------------------------------------------------------------
(* The steps of the worker *)

\* worker_loop wakes up.
LEMMA PollReadyInv == ASSUME Inv, PollReady PROVE Inv'
  <1>1. TypeOK /\ WayInv /\ Signalled /\ DiskInv /\ worker.pc = "poll"
    BY Zenon DEF Inv, PollReady, At
  <1>2. worker.pc # "io" /\ worker.pc # "add_used" /\ worker.pc # "signal"  BY <1>1
  <1>3. /\ worker' \in Worker /\ worker'.pc = "pop" /\ worker'.req = worker.req
        /\ worker'.used = worker.used
    <2>1. "pop" \in {"poll", "pop", "io", "add_used", "signal"}  OBVIOUS
    <2> QED  BY <1>1, <2>1, Zenon DEF PollReady, TypeOK, Worker
  <1>4. worker'.pc # "io" /\ worker'.pc # "add_used" /\ worker'.pc # "poll"  BY <1>3
  <1>5. mmio' = mmio /\ disk' = disk /\ guest' = guest /\ kick' = FALSE
    BY Zenon DEF PollReady
  <1>6. TypeOK'  BY <1>1, <1>3, <1>5, Zenon DEF TypeOK
  <1>7. Avail' = Avail /\ Used' = Used /\ Ready' = Ready  BY <1>5, Rings, Zenon
  <1>8. WayInv'
    <2>1. InHand' <=> InHand  BY <1>2, <1>4, Zenon DEF InHand, At
    <2> QED  BY <1>1, <1>3, <1>5, <1>7, <2>1, WaySame, Zenon
  <1>9. Signalled'
    <2>1. Visible' = Visible  BY <1>7, VisibleSame, Zenon
    <2> QED  BY <1>1, <1>2, <1>3, <1>4, <1>5, <2>1, Zenon DEF Signalled, At
  <1>10. DiskInv'
    <2>1. LateOK(disk) /\ disk.lost = {}  BY <1>1, <1>2, NotInHand, Zenon
    <2> QED  BY <1>4, <1>5, <2>1, DiskIdle, Zenon
  <1> QED  BY <1>6, <1>8, <1>9, <1>10, Zenon DEF Inv

\* process_queue finds a chain.
LEMMA PopInv == ASSUME Inv, Pop PROVE Inv' /\ disk'.data = disk.data
  <1>1. /\ TypeOK /\ WayInv /\ Signalled /\ DiskInv /\ worker.pc = "pop"
        /\ Ready /\ Avail # <<>>
    BY Zenon DEF Inv, Pop, At
  <1>2. worker.pc # "io" /\ worker.pc # "add_used" /\ worker.pc # "signal"  BY <1>1
  <1>3. worker.req = NoReq /\ disk.lost = {} /\ LateOK(disk)  BY <1>1, <1>2, NotInHand, Zenon
  <1> DEFINE req == Head(Avail)
  <1>4. /\ req \in Req /\ req # NoReq
        /\ Way(Tail(Avail), Used, req, guest.back, guest.posted, guest.mine, guest.epoch)
    <2>1. Way(Avail, Used, NoReq, guest.back, guest.posted, guest.mine, guest.epoch)
      BY <1>1, <1>3, Zenon DEF WayInv
    <2> QED  BY <1>1, <2>1, Typed, WayTake, Zenon
  <1>5. /\ mmio' \in Mmio /\ mmio'.intr = mmio.intr /\ Ready' = Ready
        /\ Avail' = Tail(Avail) /\ Used' = Used
    <2>1. mmio \in Mmio /\ mmio.queues[RQ].avail # <<>>  BY <1>1, Typed, Rings, Zenon
    <2>2. mmio' = T!PopAvail(mmio, RQ)  BY Zenon DEF Pop
    <2> QED  BY <2>1, <2>2, PopFields, Rings, Zenon
  <1>6. Handled(disk, disk', worker, worker', req)
    <2>1. PICK ask \in Asks : HandleRequest(req, ask, mmio.features)  BY Zenon DEF Pop
    <2>2. disk \in Disk /\ worker \in Worker  BY <1>1, Zenon DEF TypeOK
    <2> HIDE DEF req
    <2> QED  BY <1>4, <2>1, <2>2, RequestHandled, Zenon
  <1>7. kick' = kick /\ guest' = guest  BY Zenon DEF Pop
  <1> HIDE DEF req
  <1>8. /\ worker' \in Worker /\ worker'.req = req /\ worker'.used = worker.used
        /\ worker'.pc = "io" \/ worker'.pc = "add_used"
        /\ disk' \in Disk /\ disk'.data = disk.data
    BY <1>6, Zenon DEF Handled, Prepared
  <1>9. TypeOK'  BY <1>1, <1>5, <1>7, <1>8, Zenon DEF TypeOK
  <1>10. WayInv'
    <2>1. InHand'  BY <1>8, Zenon DEF InHand, At
    <2> QED  BY <1>1, <1>4, <1>5, <1>7, <1>8, <2>1, Zenon DEF WayInv
  <1>11. Signalled'
    <2>1. Visible' = Visible  BY <1>5, VisibleSame, Zenon
    <2>2. worker'.pc # "poll"  BY <1>8
    <2> QED  BY <1>1, <1>2, <1>5, <1>7, <1>8, <2>1, <2>2, Zenon DEF Signalled, At
  <1>12. DiskInv'
    <2>1. LateOK(disk') /\ disk'.lost = {}
      BY <1>3, <1>6, Zenon DEF Handled, Prepared, LateOK
    <2>2. "io" # "add_used"  OBVIOUS
    <2>3. Served  BY <1>6, <1>8, <2>1, <2>2, Zenon DEF Served, Handled
    <2> QED  BY <1>8, <2>3, DiskServed, Zenon
  <1> QED  BY <1>8, <1>9, <1>10, <1>11, <1>12, Zenon DEF Inv

\* A system call of the backend.
LEMMA DiskIoInv == ASSUME Inv, DiskIo PROVE Inv'
  <1>1. TypeOK /\ WayInv /\ Signalled /\ DiskInv /\ worker.pc = "io"
    BY Zenon DEF Inv, DiskIo, At
  <1>2. Served  BY <1>1, IoServed, Zenon
  <1>3. PICK o : Answered(o)  BY <1>1, IoServed, Zenon
  <1>4. /\ worker' \in Worker /\ worker'.req = worker.req /\ worker'.used = worker.used
        /\ worker'.pc = "io" \/ worker'.pc = "add_used"
    BY <1>3, Zenon DEF Answered
  <1>5. mmio' = mmio /\ kick' = kick /\ guest' = guest  BY Zenon DEF DiskIo
  <1>6. TypeOK'  BY <1>1, <1>2, <1>4, <1>5, Zenon DEF TypeOK, Served
  <1>7. Avail' = Avail /\ Used' = Used /\ Ready' = Ready  BY <1>5, Rings, Zenon
  <1>8. WayInv'
    <2>1. InHand' <=> InHand  BY <1>1, <1>4, Zenon DEF InHand, At
    <2> QED  BY <1>1, <1>4, <1>5, <1>7, <2>1, WaySame, Zenon
  <1>9. Signalled'
    <2>1. Visible' = Visible  BY <1>7, VisibleSame, Zenon
    <2>2. worker'.pc # "poll" /\ worker.pc # "signal"  BY <1>1, <1>4
    <2> QED  BY <1>1, <1>4, <1>5, <2>1, <2>2, Zenon DEF Signalled, At
  <1>10. DiskInv'  BY <1>2, <1>4, DiskServed, Zenon
  <1> QED  BY <1>6, <1>8, <1>9, <1>10, Zenon DEF Inv

\* A completion on the ring the queue has now.
LEMMA AddUsedInv == ASSUME Inv, AddUsed PROVE Inv' /\ disk'.data = disk.data
  <1>1. TypeOK /\ WayInv /\ Signalled /\ DiskInv /\ worker.pc = "add_used"
    BY Zenon DEF Inv, AddUsed, At
  <1>2. worker.req # NoReq  BY <1>1, Zenon DEF WayInv, InHand, At
  <1> DEFINE req == IF Ready THEN worker.req ELSE NoReq
  <1>3. req \in Req
    <2>1. NoReq \in Req  BY DEF NoReq, Req
    <2> QED  BY <1>1, <2>1, Typed, Zenon
  <1>4. /\ mmio' \in Mmio /\ mmio'.intr = mmio.intr /\ Ready' = Ready
        /\ Avail' = Avail /\ Used' = Append(Used, req)
    <2>1. mmio \in Mmio  BY <1>1, Typed, Zenon
    <2>2. mmio' = T!AddUsed(mmio, RQ, req)  BY Zenon DEF AddUsed
    <2> HIDE DEF req
    <2> QED  BY <1>3, <2>1, <2>2, AddUsedFields, Rings, Zenon
  <1>5. worker' \in Worker /\ worker'.pc = "pop" /\ worker'.used = TRUE /\ worker'.req = NoReq
    <2>1. "pop" \in {"poll", "pop", "io", "add_used", "signal"} /\ TRUE \in BOOLEAN  OBVIOUS
    <2>2. worker' = [Idle EXCEPT !.pc = "pop", !.used = TRUE]  BY Zenon DEF AddUsed
    <2> QED  BY <2>1, <2>2, IdleTyped, Zenon
  <1>6. worker'.pc # "io" /\ worker'.pc # "add_used" /\ worker'.pc # "poll"  BY <1>5
  <1>7. kick' = kick /\ guest' = guest  BY Zenon DEF AddUsed
  <1>8. /\ disk' \in Disk /\ disk'.late = disk.late /\ disk'.stray = disk.stray
        /\ disk'.data = disk.data /\ disk'.lost = {}
    <2>1. disk \in Disk  BY <1>1, Zenon DEF TypeOK
    <2>2. CASE worker.ask.type = "flush"
      <3>1. disk' = [disk EXCEPT !.lost = {}]  BY <2>2, Zenon DEF AddUsed
      <3>2. {} \in SUBSET Sectors  OBVIOUS
      <3> QED  BY <2>1, <3>1, <3>2, Zenon DEF Disk
    <2>3. CASE worker.ask.type # "flush"
      <3>1. disk' = disk  BY <2>3, Zenon DEF AddUsed
      <3>2. disk.lost = {}  BY <1>1, <2>3, Zenon DEF DiskInv, LossInHand
      <3> QED  BY <2>1, <3>1, <3>2, Zenon
    <2> QED  BY <2>2, <2>3
  <1>9. TypeOK'  BY <1>1, <1>4, <1>5, <1>7, <1>8, Zenon DEF TypeOK
  <1>10. WayInv'
    <2>1. ~ InHand'  BY <1>6, Zenon DEF InHand, At
    <2>2. CASE Ready
      <3>1. Way(Avail, Append(Used, worker.req), NoReq, guest.back, guest.posted,
                guest.mine, guest.epoch)
        <4>1. Way(Avail, Used, worker.req, guest.back, guest.posted, guest.mine, guest.epoch)
          BY <1>1, Zenon DEF WayInv
        <4> QED  BY <1>1, <1>2, <4>1, Typed, WayGive, Zenon
      <3>2. Used' = Append(Used, worker.req)  BY <1>4, <2>2, Zenon
      <3> QED  BY <1>4, <1>5, <1>7, <2>1, <2>2, <3>1, <3>2, Zenon DEF WayInv
    <2>3. CASE ~ Ready
      <3>1. Avail = <<>> /\ guest.back = <<>> /\ guest.mine = {} /\ Used = <<>>
        BY <1>1, <1>2, <2>3, Zenon DEF WayInv, Disabled
      <3>2. Used' = Append(<<>>, NoReq)  BY <1>4, <2>3, <3>1, Zenon
      <3>3. Way(<<>>, Append(<<>>, NoReq), NoReq, <<>>, guest.posted, {}, guest.epoch)
        BY <1>1, Typed, WayLate, Zenon
      <3>4. \A i \in 1 .. Len(Append(<<>>, NoReq)) : Append(<<>>, NoReq)[i] = NoReq  OBVIOUS
      <3>5. Disabled(Avail', Used', NoReq, guest'.back, guest'.mine)
        BY <1>4, <1>7, <3>1, <3>2, <3>4, Zenon DEF Disabled
      <3> QED  BY <1>4, <1>5, <1>7, <2>1, <3>1, <3>2, <3>3, <3>5, Zenon DEF WayInv
    <2> QED  BY <2>2, <2>3
  <1>11. Signalled'  BY <1>5, <1>6, Zenon DEF Signalled, At
  <1>12. DiskInv'
    <2>1. LateOK(disk')  BY <1>1, <1>8, Zenon DEF DiskInv, LateOK
    <2> QED  BY <1>6, <1>8, <2>1, DiskIdle, Zenon
  <1> QED  BY <1>8, <1>9, <1>10, <1>11, <1>12, Zenon DEF Inv

\* process_queue finds no more chains.
LEMMA PopNoneInv == ASSUME Inv, PopNone PROVE Inv'
  <1>1. TypeOK /\ WayInv /\ Signalled /\ DiskInv /\ worker.pc = "pop"
    BY Zenon DEF Inv, PopNone, At
  <1>2. worker.pc # "io" /\ worker.pc # "add_used" /\ worker.pc # "signal"  BY <1>1
  <1>3. worker.req = NoReq /\ disk.lost = {} /\ LateOK(disk) /\ ~ InHand
    BY <1>1, <1>2, NotInHand, Zenon
  <1>4. /\ worker' \in Worker /\ worker'.req = NoReq /\ worker'.used = FALSE
        /\ worker'.pc = IF worker.used THEN "signal" ELSE "poll"
    <2> DEFINE s == [Idle EXCEPT !.pc = "signal"]
    <2>1. worker' = IF worker.used THEN s ELSE Idle  BY Zenon DEF PopNone
    <2>2. s \in Worker /\ s.pc = "signal" /\ s.used = FALSE /\ s.req = NoReq
      BY IdleFields, Zenon
    <2> HIDE DEF s
    <2> QED  BY <2>1, <2>2, IdleFields, Zenon
  <1>5. worker'.pc # "io" /\ worker'.pc # "add_used"  BY <1>4
  <1>6. mmio' = mmio /\ kick' = kick /\ disk' = disk /\ guest' = guest  BY Zenon DEF PopNone
  <1>7. TypeOK'  BY <1>1, <1>4, <1>6, Zenon DEF TypeOK
  <1>8. Avail' = Avail /\ Used' = Used /\ Ready' = Ready  BY <1>6, Rings, Zenon
  <1>9. WayInv'
    <2>1. InHand' <=> InHand  BY <1>3, <1>5, Zenon DEF InHand, At
    <2> QED  BY <1>1, <1>3, <1>4, <1>6, <1>8, <2>1, WaySame, Zenon
  <1>10. Signalled'
    <2>1. Visible' = Visible  BY <1>8, VisibleSame, Zenon
    <2> QED  BY <1>1, <1>2, <1>4, <1>6, <2>1, Zenon DEF Signalled, At
  <1>11. DiskInv'  BY <1>3, <1>5, <1>6, DiskIdle, Zenon
  <1> QED  BY <1>7, <1>9, <1>10, <1>11, Zenon DEF Inv

\* signal_used_queue.
LEMMA SignalInv == ASSUME Inv, Signal PROVE Inv'
  <1>1. TypeOK /\ WayInv /\ Signalled /\ DiskInv /\ worker.pc = "signal"
    BY Zenon DEF Inv, Signal, At
  <1>2. worker.pc # "io" /\ worker.pc # "add_used"  BY <1>1
  <1>3. worker.req = NoReq /\ disk.lost = {} /\ LateOK(disk) /\ ~ InHand
    BY <1>1, <1>2, NotInHand, Zenon
  <1>4. /\ worker' \in Worker /\ worker'.req = NoReq /\ worker'.used = FALSE
        /\ worker'.pc = "poll"
    BY IdleFields, Zenon DEF Signal
  <1>5. worker'.pc # "io" /\ worker'.pc # "add_used"  BY <1>4
  <1>6. kick' = kick /\ disk' = disk /\ guest' = guest  BY Zenon DEF Signal
  <1>7. mmio' \in Mmio /\ mmio'.intr = TRUE /\ mmio'.queues = mmio.queues
    BY <1>1, IntrFields, Zenon DEF Signal, TypeOK
  <1>8. TypeOK'  BY <1>1, <1>4, <1>6, <1>7, Zenon DEF TypeOK
  <1>9. Avail' = Avail /\ Used' = Used /\ Ready' = Ready  BY <1>7, Rings, Zenon
  <1>10. WayInv'
    <2>1. InHand' <=> InHand  BY <1>3, <1>5, Zenon DEF InHand, At
    <2> QED  BY <1>1, <1>3, <1>4, <1>6, <1>9, <2>1, WaySame, Zenon
  <1>11. Signalled'  BY <1>4, <1>7, Zenon DEF Signalled
  <1>12. DiskInv'  BY <1>3, <1>5, <1>6, DiskIdle, Zenon
  <1> QED  BY <1>8, <1>10, <1>11, <1>12, Zenon DEF Inv

------------------------------------------------------------------------------
(* The operation left behind, and the steps of the driver *)

\* It is the last case in which the answer of a request need not be true.
LEMMA LateInv ==
    ASSUME Inv, Late
    PROVE  /\ Inv'
           /\ \A u \in Sectors : disk'.data[u] # disk.data[u] => Covers(disk.late, u)
  <1>1. TypeOK /\ WayInv /\ Signalled /\ DiskInv  BY Zenon DEF Inv
  <1>2. /\ disk' \in Disk /\ LateOK(disk') /\ disk'.readonly = disk.readonly
        /\ disk'.stray /\ disk'.lost \subseteq disk.lost
        /\ \A u \in Sectors : disk'.data[u] # disk.data[u] => Covers(disk.late, u)
    <2>1. disk \in Disk /\ LateOK(disk) /\ disk.late # NoIo /\ disk' \in LateIo(disk)
      BY <1>1, Zenon DEF TypeOK, DiskInv, Late
    <2> QED  BY <2>1, LateCall, Zenon
  <1>3. mmio' = mmio /\ kick' = kick /\ worker' = worker /\ guest' = guest
    BY Zenon DEF Late
  <1>4. TypeOK'  BY <1>1, <1>2, <1>3, Zenon DEF TypeOK
  <1>5. Avail' = Avail /\ Used' = Used /\ Ready' = Ready  BY <1>3, Rings, Zenon
  <1>6. WayInv'
    <2>1. InHand' <=> InHand  BY <1>3, Zenon DEF InHand, At
    <2> QED  BY <1>1, <1>3, <1>5, <2>1, WaySame, Zenon
  <1>7. Signalled'
    <2>1. Visible' = Visible  BY <1>5, VisibleSame, Zenon
    <2> QED  BY <1>1, <1>3, <2>1, Zenon DEF Signalled, At
  <1>8. DiskInv'
    <2>1. disk'.lost # {} => disk.lost # {}  BY <1>2
    <2>2. LossInHand(disk)'  BY <1>1, <1>3, <2>1, Zenon DEF DiskInv, LossInHand, InHand, At
    <2>3. At("io")' => Serves(disk', worker'.ask, worker'.io, worker'.req.id)
      BY <1>1, <1>2, <1>3, Zenon DEF DiskInv, At, Serves
    <2>4. AnswerTellsTruth'  BY <1>2, Zenon DEF AnswerTellsTruth
    <2>5. FlushIsDurable'  BY <1>2, Zenon DEF FlushIsDurable
    <2> QED  BY <1>2, <2>2, <2>3, <2>4, <2>5, Zenon DEF DiskInv
  <1> QED  BY <1>2, <1>4, <1>6, <1>7, <1>8, Zenon DEF Inv

\* Nothing of the old driver's is left, except the request in hand.
LEMMA DriverResetInv == ASSUME Inv, DriverReset PROVE Inv'
  <1>1. TypeOK /\ WayInv /\ Signalled /\ DiskInv  BY Zenon DEF Inv
  <1>2. kick' = kick /\ disk' = disk /\ worker' = worker  BY Zenon DEF DriverReset
  <1>3. mmio' \in Mmio /\ Ready' = FALSE /\ Avail' = <<>> /\ Used' = <<>>
    <2>1. mmio' = T!NewMmio  BY Zenon DEF DriverReset, T!WriteStatus, T!Reset
    <2> QED  BY <2>1, NewFields, Rings, Zenon
  <1>4. /\ guest' \in Guest /\ guest'.epoch = guest.epoch + 1 /\ guest'.epoch \in Nat
        /\ guest'.mine = {} /\ guest'.back = <<>> /\ guest'.posted = guest.posted
    <2> DEFINE e == guest.epoch + 1
    <2>1. e \in Nat /\ <<>> \in Seq(Req) /\ {} \in SUBSET Req  BY <1>1, Typed
    <2>2. guest' = [guest EXCEPT !.epoch = e, !.setup = FALSE, !.mine = {},
                                 !.owes = FALSE, !.isr = FALSE, !.back = <<>>]
      BY Zenon DEF DriverReset
    <2>3. guest \in Guest  BY <1>1, Zenon DEF TypeOK
    <2> HIDE DEF e
    <2>4. /\ guest' \in Guest /\ guest'.epoch = e
          /\ guest'.mine = {} /\ guest'.back = <<>> /\ guest'.posted = guest.posted
      BY <2>1, <2>2, <2>3, Zenon DEF Guest
    <2> QED  BY <2>1, <2>4, Zenon DEF e
  <1>5. TypeOK'  BY <1>1, <1>2, <1>3, <1>4, Zenon DEF TypeOK
  <1>6. WayInv'
    <2>1. Way(Avail, Used, worker.req, guest.back, guest.posted, guest.mine, guest.epoch)
      BY <1>1, Zenon DEF WayInv
    <2>2. Way(<<>>, <<>>, worker.req, <<>>, guest.posted, {}, guest'.epoch)
      BY <1>1, <1>4, <2>1, Typed, WayReset, Zenon
    <2>3. InHand' <=> worker'.req # NoReq  BY <1>1, <1>2, Zenon DEF WayInv, InHand, At
    <2>4. 1 .. Len(<<>>) = {}  OBVIOUS
    <2>5. Disabled(Avail', Used', worker'.req, guest'.back, guest'.mine)
      BY <1>3, <1>4, <2>4, Zenon DEF Disabled
    <2> QED  BY <1>2, <1>3, <1>4, <2>2, <2>3, <2>5, Zenon DEF WayInv
  <1>7. Signalled'
    <2>1. Visible' = <<>>  BY <1>3, Zenon DEF Visible
    <2> QED  BY <1>1, <1>2, <2>1, Zenon DEF Signalled, At
  <1>8. DiskInv'  BY <1>1, <1>2, DiskSame, Zenon
  <1> QED  BY <1>5, <1>6, <1>7, <1>8, Zenon DEF Inv

\* Feature negotiation.
LEMMA DriverFeaturesInv == ASSUME Inv, DriverFeatures PROVE Inv'
  <1>1. TypeOK /\ WayInv /\ Signalled /\ DiskInv  BY Zenon DEF Inv
  <1>2. kick' = kick /\ disk' = disk /\ worker' = worker /\ guest' = guest
    BY Zenon DEF DriverFeatures
  <1>3. mmio' \in Mmio /\ mmio'.intr = mmio.intr /\ mmio'.queues = mmio.queues
    BY <1>1, FeatureFields, Zenon DEF DriverFeatures, TypeOK
  <1>4. TypeOK'  BY <1>1, <1>2, <1>3, Zenon DEF TypeOK
  <1>5. Avail' = Avail /\ Used' = Used /\ Ready' = Ready  BY <1>3, Rings, Zenon
  <1>6. WayInv'
    <2>1. InHand' <=> InHand  BY <1>2, Zenon DEF InHand, At
    <2> QED  BY <1>1, <1>2, <1>5, <2>1, WaySame, Zenon
  <1>7. Signalled'
    <2>1. Visible' = Visible  BY <1>5, VisibleSame, Zenon
    <2> QED  BY <1>1, <1>2, <1>3, <2>1, Zenon DEF Signalled, At
  <1>8. DiskInv'  BY <1>1, <1>2, DiskSame, Zenon
  <1> QED  BY <1>4, <1>6, <1>7, <1>8, Zenon DEF Inv

\* The queue is enabled; a completion that came before shows its index.
LEMMA EnableQueueInv == ASSUME Inv, EnableQueue PROVE Inv'
  <1>1. TypeOK /\ WayInv /\ Signalled /\ DiskInv  BY Zenon DEF Inv
  <1>2. kick' = kick /\ disk' = disk /\ worker' = worker  BY Zenon DEF EnableQueue
  <1>3. /\ mmio' \in Mmio /\ mmio'.intr = mmio.intr
        /\ Ready' /\ Avail' = Avail /\ Used' = Used
    <2>1. mmio \in Mmio /\ mmio' = T!WriteQueueReady(mmio, RQ, TRUE, TRUE)
      BY <1>1, Zenon DEF EnableQueue, TypeOK
    <2> QED  BY <2>1, EnableFields, Rings, Zenon
  <1>4. /\ guest' \in Guest /\ guest'.epoch = guest.epoch /\ guest'.isr = guest.isr
        /\ guest'.mine = guest.mine /\ guest'.back = guest.back /\ guest'.posted = guest.posted
    BY <1>1, Zenon DEF EnableQueue, TypeOK, Guest
  <1>5. TypeOK'  BY <1>1, <1>2, <1>3, <1>4, Zenon DEF TypeOK
  <1>6. WayInv'
    <2>1. InHand' <=> InHand  BY <1>2, Zenon DEF InHand, At
    <2> QED  BY <1>1, <1>2, <1>3, <1>4, <2>1, WaySame, Zenon
  <1>7. Signalled'
    <2>1. Visible' = Visible  BY <1>3, VisibleSame, Zenon
    <2> QED  BY <1>1, <1>2, <1>3, <1>4, <2>1, Zenon DEF Signalled, At
  <1>8. DiskInv'  BY <1>1, <1>2, DiskSame, Zenon
  <1> QED  BY <1>5, <1>6, <1>7, <1>8, Zenon DEF Inv

\* A new request has the largest id.
LEMMA PostInv == ASSUME Inv, Post PROVE Inv'
  <1>1. TypeOK /\ WayInv /\ Signalled /\ DiskInv  BY Zenon DEF Inv
  <1> DEFINE n == guest.posted + 1
             req == [id |-> n, epoch |-> guest.epoch]
             mine == guest.mine \cup {req}
  <1>2. kick' = kick /\ disk' = disk /\ worker' = worker /\ Ready  BY Zenon DEF Post
  <1>3. /\ mmio' = [mmio EXCEPT !.queues[RQ].avail = Append(@, req)]
        /\ guest' = [guest EXCEPT !.posted = n, !.owes = TRUE, !.mine = mine]
    BY Zenon DEF Post
  <1>4. n \in Nat /\ req \in Req /\ req.id = n /\ req.epoch = guest.epoch
    BY <1>1, Typed DEF Req
  <1>5. mine \in SUBSET Req  BY <1>1, <1>4, Typed, Zenon
  <1> HIDE DEF n, req, mine
  <1>6. mmio \in Mmio /\ guest \in Guest  BY <1>1, Zenon DEF TypeOK
  <1>7. /\ mmio' \in Mmio /\ mmio'.intr = mmio.intr
        /\ Ready' = Ready /\ Avail' = Append(Avail, req) /\ Used' = Used
    <2>1. Append(mmio.queues[RQ].avail, req) \in Seq(Req)  BY <1>4, <1>6, RingFields
    <2>2. /\ mmio' \in Mmio /\ mmio'.intr = mmio.intr
          /\ mmio'.queues[RQ].ready = mmio.queues[RQ].ready
          /\ mmio'.queues[RQ].avail = Append(mmio.queues[RQ].avail, req)
          /\ mmio'.queues[RQ].used = mmio.queues[RQ].used
      BY <1>3, <1>6, <2>1, Zenon DEF Mmio, Queue
    <2> QED  BY <2>2, Rings, Zenon
  <1>8. /\ guest' \in Guest /\ guest'.epoch = guest.epoch /\ guest'.isr = guest.isr
        /\ guest'.mine = mine /\ guest'.back = guest.back /\ guest'.posted = n
    BY <1>3, <1>4, <1>5, <1>6, Zenon DEF Guest
  <1>9. TypeOK'  BY <1>1, <1>2, <1>7, <1>8, Zenon DEF TypeOK
  <1>10. WayInv'
    <2>1. Way(Avail, Used, worker.req, guest.back, guest.posted, guest.mine, guest.epoch)
      BY <1>1, Zenon DEF WayInv
    <2>2. req.id = guest.posted + 1  BY <1>4, Zenon DEF n
    <2>3. Way(Append(Avail, req), Used, worker.req, guest.back, guest.posted + 1,
              guest.mine \cup {req}, guest.epoch)
      BY <1>1, <1>4, <2>1, <2>2, Typed, WayPost, Zenon
    <2>4. InHand' <=> worker'.req # NoReq  BY <1>1, <1>2, Zenon DEF WayInv, InHand, At
    <2>5. Way(Avail', Used', worker'.req, guest'.back, guest'.posted, guest'.mine, guest'.epoch)
      BY <1>2, <1>7, <1>8, <2>3, Zenon DEF n, mine
    <2> QED  BY <1>2, <1>7, <2>4, <2>5, Zenon DEF WayInv
  <1>11. Signalled'
    <2>1. Visible' = Visible  BY <1>7, VisibleSame, Zenon
    <2> QED  BY <1>1, <1>2, <1>7, <1>8, <2>1, Zenon DEF Signalled, At
  <1>12. DiskInv'  BY <1>1, <1>2, DiskSame, Zenon
  <1> QED  BY <1>9, <1>10, <1>11, <1>12, Zenon DEF Inv

\* The driver notifies the device.
LEMMA NotifyInv == ASSUME Inv, Notify PROVE Inv'
  <1>1. TypeOK /\ WayInv /\ Signalled /\ DiskInv  BY Zenon DEF Inv
  <1>2. kick' = TRUE /\ disk' = disk /\ worker' = worker /\ mmio' = mmio
    BY Zenon DEF Notify
  <1>3. /\ guest' \in Guest /\ guest'.epoch = guest.epoch /\ guest'.isr = guest.isr
        /\ guest'.mine = guest.mine /\ guest'.back = guest.back /\ guest'.posted = guest.posted
    BY <1>1, Zenon DEF Notify, TypeOK, Guest
  <1>4. TypeOK'  BY <1>1, <1>2, <1>3, Zenon DEF TypeOK
  <1>5. Avail' = Avail /\ Used' = Used /\ Ready' = Ready  BY <1>2, Rings, Zenon
  <1>6. WayInv'
    <2>1. InHand' <=> InHand  BY <1>2, Zenon DEF InHand, At
    <2> QED  BY <1>1, <1>2, <1>3, <1>5, <2>1, WaySame, Zenon
  <1>7. Signalled'
    <2>1. Visible' = Visible  BY <1>5, VisibleSame, Zenon
    <2> QED  BY <1>1, <1>2, <1>3, <2>1, Zenon DEF Signalled, At
  <1>8. DiskInv'  BY <1>1, <1>2, DiskSame, Zenon
  <1> QED  BY <1>4, <1>6, <1>7, <1>8, Zenon DEF Inv

\* The driver takes the interrupt.
LEMMA InterruptInv == ASSUME Inv, Interrupt PROVE Inv'
  <1>1. TypeOK /\ WayInv /\ Signalled /\ DiskInv  BY Zenon DEF Inv
  <1>2. kick' = kick /\ disk' = disk /\ worker' = worker  BY Zenon DEF Interrupt
  <1>3. mmio' \in Mmio /\ mmio'.queues = mmio.queues
    BY <1>1, IntrFields, Zenon DEF Interrupt, TypeOK
  <1>4. /\ guest' \in Guest /\ guest'.epoch = guest.epoch /\ guest'.isr = TRUE
        /\ guest'.mine = guest.mine /\ guest'.back = guest.back /\ guest'.posted = guest.posted
    BY <1>1, Zenon DEF Interrupt, TypeOK, Guest
  <1>5. TypeOK'  BY <1>1, <1>2, <1>3, <1>4, Zenon DEF TypeOK
  <1>6. Avail' = Avail /\ Used' = Used /\ Ready' = Ready  BY <1>3, Rings, Zenon
  <1>7. WayInv'
    <2>1. InHand' <=> InHand  BY <1>2, Zenon DEF InHand, At
    <2> QED  BY <1>1, <1>2, <1>4, <1>6, <2>1, WaySame, Zenon
  <1>8. Signalled'  BY <1>1, <1>2, <1>4, Zenon DEF Signalled, At
  <1>9. DiskInv'  BY <1>1, <1>2, DiskSame, Zenon
  <1> QED  BY <1>5, <1>7, <1>8, <1>9, Zenon DEF Inv

\* The driver looks at the used ring.
LEMMA ReapInv == ASSUME Inv, Reap PROVE Inv'
  <1>1. TypeOK /\ WayInv /\ Signalled /\ DiskInv  BY Zenon DEF Inv
  <1>2. kick' = kick /\ disk' = disk /\ worker' = worker  BY Zenon DEF Reap
  <1>3. /\ Avail \in Seq(Req) /\ Used \in Seq(Req) /\ mmio \in Mmio /\ guest \in Guest
        /\ guest.back \in Seq(Req) /\ worker.req \in Req /\ guest.posted \in Nat
        /\ guest.mine \in SUBSET Req /\ guest.epoch \in Nat
    BY <1>1, Typed, Zenon
  <1> DEFINE back == guest.back \o Visible
  <1>4. Visible = <<>> \/ Visible = Used  BY Zenon DEF Visible
  <1>5. back \in Seq(Req) /\ (Visible = <<>> => back = guest.back)
    <2>1. Visible \in Seq(Req)
      <3>1. <<>> \in Seq(Req)  OBVIOUS
      <3> QED  BY <1>3, <1>4, <3>1, Zenon
    <2> HIDE DEF Visible
    <2>2. guest.back \o <<>> = guest.back  BY <1>3
    <2>3. guest.back \o Visible \in Seq(Req)  BY <1>3, <2>1
    <2> QED  BY <2>2, <2>3, Zenon
  <1>6. guest' = [guest EXCEPT !.isr = FALSE, !.back = back]  BY Zenon DEF Reap
  <1> HIDE DEF back
  <1>7. /\ guest' \in Guest /\ guest'.epoch = guest.epoch
        /\ guest'.mine = guest.mine /\ guest'.back = back /\ guest'.posted = guest.posted
    BY <1>3, <1>5, <1>6, Zenon DEF Guest
  <1>8. InHand' <=> InHand  BY <1>2, Zenon DEF InHand, At
  <1>9. DiskInv'  BY <1>1, <1>2, DiskSame, Zenon
  <1>10. CASE Visible = <<>>
    <2>1. mmio' = mmio  BY <1>10, Zenon DEF Reap
    <2>2. TypeOK'  BY <1>1, <1>2, <1>7, <2>1, Zenon DEF TypeOK
    <2>3. Avail' = Avail /\ Used' = Used /\ Ready' = Ready  BY <2>1, Rings, Zenon
    <2>4. WayInv'  BY <1>1, <1>2, <1>5, <1>7, <1>8, <1>10, <2>3, WaySame, Zenon
    <2>5. Visible' = <<>>  BY <1>10, <2>3, VisibleSame, Zenon
    <2>6. Signalled'  BY <1>1, <1>2, <2>5, Zenon DEF Signalled, At
    <2> QED  BY <1>9, <2>2, <2>4, <2>6, Zenon DEF Inv
  <1>11. CASE Visible # <<>>
    <2>1. Visible = Used /\ back = guest.back \o Used  BY <1>4, <1>11, Zenon DEF back
    <2>2. /\ mmio' \in Mmio /\ Ready' = Ready /\ Avail' = Avail /\ Used' = <<>>
      <3>1. mmio' = [mmio EXCEPT !.queues[RQ].used = <<>>]  BY <1>11, Zenon DEF Reap
      <3>2. <<>> \in Seq(Req)  OBVIOUS
      <3>3. /\ mmio' \in Mmio
            /\ mmio'.queues[RQ].ready = mmio.queues[RQ].ready
            /\ mmio'.queues[RQ].avail = mmio.queues[RQ].avail
            /\ mmio'.queues[RQ].used = <<>>
        BY <1>3, <3>1, <3>2, Zenon DEF Mmio, Queue
      <3> QED  BY <3>3, Rings, Zenon
    <2>3. TypeOK'  BY <1>1, <1>2, <1>7, <2>2, Zenon DEF TypeOK
    <2>4. Ready
      <3>1. SUFFICES ASSUME ~ Ready PROVE FALSE  OBVIOUS
      <3>2. \A i \in 1 .. Len(Used) : Used[i] = NoReq
        BY <1>1, <3>1, Zenon DEF WayInv, Disabled
      <3>3. DOMAIN Used = 1 .. Len(Used)  BY <1>3
      <3> QED  BY <1>11, <3>2, <3>3, Zenon DEF Visible
    <2>5. WayInv'
      <3>1. Way(Avail, Used, worker.req, guest.back, guest.posted, guest.mine, guest.epoch)
        BY <1>1, Zenon DEF WayInv
      <3>2. Way(Avail, <<>>, worker.req, back, guest.posted, guest.mine, guest.epoch)
        BY <1>3, <2>1, <3>1, WayReap, Zenon
      <3>3. InHand' <=> worker'.req # NoReq  BY <1>1, <1>2, <1>8, Zenon DEF WayInv
      <3> QED  BY <1>2, <1>7, <2>2, <2>4, <3>2, <3>3, Zenon DEF WayInv
    <2>6. Signalled'
      <3>1. Visible' = <<>>  BY <2>2, Zenon DEF Visible
      <3> QED  BY <1>1, <1>2, <3>1, Zenon DEF Signalled, At
    <2> QED  BY <1>9, <2>3, <2>5, <2>6, Zenon DEF Inv
  <1> QED  BY <1>10, <1>11

------------------------------------------------------------------------------
(* The theorems *)

\* The state the device starts in.
LEMMA InitInv == ASSUME Init PROVE Inv
  <1>1. disk \in Disk /\ disk.late = NoIo /\ disk.lost = {}
    <2>1. PICK ro \in BOOLEAN, direct \in BOOLEAN, ring \in BOOLEAN :
             disk = [readonly |-> ro, direct |-> direct, useDirect |-> direct, ring |-> ring,
                     scratch |-> [i \in 1 .. MaxLen |-> Junk], late |-> NoIo, stray |-> FALSE,
                     data |-> [u \in Sectors |-> Old], dirty |-> {}, lost |-> {}, err |-> {}]
      BY DEF Init, OpenDiskImage
    <2>2. /\ [i \in 1 .. MaxLen |-> Junk] \in [1 .. MaxLen -> Content]
          /\ [u \in Sectors |-> Old] \in [Sectors -> Content]
      BY DEF Content
    <2>3. NoIo \in Io  BY DEF NoIo, Io
    <2>4. {} \in SUBSET Sectors /\ {} \in SUBSET Fds  OBVIOUS
    <2> QED  BY <2>1, <2>2, <2>3, <2>4, Zenon DEF Disk
  <1>2. /\ worker \in Worker /\ worker.pc = "poll" /\ worker.used = FALSE
        /\ worker.req = NoReq
    BY IdleFields, Zenon DEF Init
  <1>3. /\ guest \in Guest /\ guest.epoch = 1 /\ guest.posted = 0 /\ guest.mine = {}
        /\ guest.back = <<>>
    BY DEF Init, Guest
  <1>4. mmio \in Mmio /\ Ready = FALSE /\ Avail = <<>> /\ Used = <<>>
    BY NewFields, Rings, Zenon DEF Init
  <1>5. TypeOK
    <2>1. kick \in BOOLEAN  BY Zenon DEF Init
    <2> QED  BY <1>1, <1>2, <1>3, <1>4, <2>1, Zenon DEF TypeOK
  <1>6. worker.pc # "io" /\ worker.pc # "add_used"  BY <1>2
  <1>7. WayInv
    <2>1. Order(<<>>, <<>>, NoReq, <<>>, 0)
      <3>1. Between(<<>>, <<>>, NoReq, <<>>, 0, 0, 0, 0)  BY DEF Between, Ordered
      <3>2. 0 \in Nat  OBVIOUS
      <3> QED  BY <3>1, <3>2, Zenon DEF Order
    <2>2. Kept({}, <<>>, <<>>, NoReq, <<>>)  BY Zenon DEF Kept
    <2>3. 1 .. Len(<<>>) = {}  OBVIOUS
    <2>4. Fresh(<<>>, <<>>, NoReq, <<>>, 1)  BY <2>3, Zenon DEF Fresh
    <2>5. Disabled(<<>>, <<>>, NoReq, <<>>, {})  BY <2>3, Zenon DEF Disabled
    <2> QED  BY <1>2, <1>3, <1>4, <1>6, <2>1, <2>2, <2>4, <2>5, Zenon DEF WayInv, Way, InHand, At
  <1>8. Signalled
    <2>1. Visible = <<>>  BY <1>4, Zenon DEF Visible
    <2> QED  BY <1>2, <2>1, Zenon DEF Signalled
  <1>9. DiskInv
    BY <1>1, <1>6, Zenon DEF DiskInv, LateOK, LossInHand, AnswerTellsTruth, FlushIsDurable, At
  <1> QED  BY <1>5, <1>7, <1>8, <1>9, Zenon DEF Inv

\* Every step keeps the invariant.
LEMMA NextInv == ASSUME Inv, [Next]_vars PROVE Inv'
  <1>1. CASE UNCHANGED vars
    <2>1. mmio' = mmio /\ kick' = kick /\ disk' = disk /\ worker' = worker /\ guest' = guest
      BY <1>1, Zenon DEF vars
    <2>2. TypeOK /\ WayInv /\ Signalled /\ DiskInv  BY Zenon DEF Inv
    <2>3. Avail' = Avail /\ Used' = Used /\ Ready' = Ready  BY <2>1, Rings, Zenon
    <2>4. InHand' <=> InHand  BY <2>1, Zenon DEF InHand, At
    <2>5. WayInv'  BY <2>1, <2>2, <2>3, <2>4, WaySame, Zenon
    <2>6. Visible' = Visible  BY <2>3, VisibleSame, Zenon
    <2>7. Signalled'  BY <2>1, <2>2, <2>6, Zenon DEF Signalled, At
    <2>8. DiskInv'  BY <2>1, <2>2, DiskSame, Zenon
    <2>9. TypeOK'  BY <2>1, <2>2, Zenon DEF TypeOK
    <2> QED  BY <2>5, <2>7, <2>8, <2>9, Zenon DEF Inv
  <1>2. CASE WorkerStep
    BY <1>2, PollReadyInv, PopInv, DiskIoInv, AddUsedInv, PopNoneInv, SignalInv, Zenon
       DEF WorkerStep
  <1>3. CASE Late  BY <1>3, LateInv, Zenon
  <1>4. CASE DriverStep
    BY <1>4, DriverResetInv, DriverFeaturesInv, EnableQueueInv, PostInv, NotifyInv,
       InterruptInv, ReapInv, Zenon DEF DriverStep
  <1> QED  BY <1>1, <1>2, <1>3, <1>4, Zenon DEF Next

\* The invariant of the device: the order along the way of the requests, the
\* interrupt that is owed, and what the backend has done for the request in hand.
THEOREM BlkInvariant == Spec => []Inv
  <1>1. Init => Inv  BY InitInv
  <1>2. Inv /\ [Next]_vars => Inv'  BY NextInv
  <1> QED  BY <1>1, <1>2, PTL DEF Spec

\* A request is in one place only: ids grow along the way.
LEMMA OnePlace == ASSUME Inv PROVE RequestsConserved
  <1>1. TypeOK /\ WayInv  BY Zenon DEF Inv
  <1> DEFINE hand == worker.req
             back == guest.back
  <1>2. /\ Avail \in Seq(Req) /\ Used \in Seq(Req) /\ back \in Seq(Req) /\ hand \in Req
        /\ guest.mine \in SUBSET Req /\ guest.posted \in Nat
    BY <1>1, Typed, Zenon
  <1>3. PICK a \in Nat, b \in Nat, c \in Nat :
           Between(Avail, Used, hand, back, guest.posted, a, b, c)
    BY <1>1, Zenon DEF WayInv, Way, Order
  <1>4. /\ \A i \in 1 .. Len(back) : back[i].id < a
        /\ \A i \in 1 .. Len(Used) : a <= Used[i].id /\ Used[i].id < b
        /\ hand # NoReq => b <= hand.id /\ hand.id < c
        /\ \A i \in 1 .. Len(Avail) : c <= Avail[i].id
        /\ a <= b /\ b <= c
        /\ \A i, j \in 1 .. Len(back) : i < j => back[i].id < back[j].id
    BY <1>3, Zenon DEF Between, Ordered
  <1>5. InHand <=> hand # NoReq  BY <1>1, Zenon DEF WayInv
  <1>6. /\ DOMAIN Avail = 1 .. Len(Avail) /\ DOMAIN Used = 1 .. Len(Used)
        /\ DOMAIN back = 1 .. Len(back)
    BY <1>2
  <1>7. ASSUME NEW req \in guest.mine
        PROVE  \E i \in 1 .. 4 : \A j \in 1 .. 4 : Places(req)[j] <=> i = j
    <2> DEFINE p1 == req \in Entries(Avail)
               p2 == InHand /\ req = worker.req
               p3 == req \in Entries(Used)
               p4 == req \in Entries(guest.back)
    <2>1. req \in Req /\ req.id \in Nat  BY <1>2 DEF Req
    <2>2. req # NoReq /\ (p1 \/ req = hand \/ p3 \/ p4)
      BY <1>1, <1>6, Zenon DEF WayInv, Way, Kept, Entries
    <2>3. p1 \/ p2 \/ p3 \/ p4  BY <1>5, <2>2, Zenon
    <2>4. p1 => c <= req.id  BY <1>4, <1>6, Zenon DEF Entries
    <2>5. p2 => b <= req.id /\ req.id < c  BY <1>4, <1>5, Zenon
    <2>6. p3 => a <= req.id /\ req.id < b  BY <1>4, <1>6, Zenon DEF Entries
    <2>7. p4 => req.id < a  BY <1>4, <1>6, Zenon DEF Entries
    <2>8. Places(req) = <<p1, p2, p3, p4>>  BY Zenon DEF Places
    <2> HIDE DEF p1, p2, p3, p4
    <2>9. /\ ~ (p1 /\ p2) /\ ~ (p1 /\ p3) /\ ~ (p1 /\ p4)
          /\ ~ (p2 /\ p3) /\ ~ (p2 /\ p4) /\ ~ (p3 /\ p4)
      BY <1>4, <2>1, <2>4, <2>5, <2>6, <2>7
    <2>10. /\ Places(req)[1] <=> p1
           /\ Places(req)[2] <=> p2
           /\ Places(req)[3] <=> p3
           /\ Places(req)[4] <=> p4
      BY <2>8
    <2>11. \A j : j \in 1 .. 4 <=> (j = 1 \/ j = 2 \/ j = 3 \/ j = 4)  OBVIOUS
    <2>12. 1 # 2 /\ 1 # 3 /\ 1 # 4 /\ 2 # 3 /\ 2 # 4 /\ 3 # 4  OBVIOUS
    <2> DEFINE P(i) == Places(req)[i]
    <2>13. P(1) => \A j \in 1 .. 4 : P(j) <=> 1 = j  BY <2>9, <2>10, <2>11, <2>12, Zenon
    <2>14. P(2) => \A j \in 1 .. 4 : P(j) <=> 2 = j  BY <2>9, <2>10, <2>11, <2>12, Zenon
    <2>15. P(3) => \A j \in 1 .. 4 : P(j) <=> 3 = j  BY <2>9, <2>10, <2>11, <2>12, Zenon
    <2>16. P(4) => \A j \in 1 .. 4 : P(j) <=> 4 = j  BY <2>9, <2>10, <2>11, <2>12, Zenon
    <2> QED  BY <2>3, <2>10, <2>11, <2>13, <2>14, <2>15, <2>16, Zenon
  <1>8. ASSUME NEW i \in DOMAIN back, NEW j \in DOMAIN back, back[i] = back[j]
        PROVE  i = j
    <2>1. back[i].id \in Nat /\ back[j].id \in Nat /\ back[i].id = back[j].id
      <3>1. back[i] \in Req /\ back[j] \in Req  BY <1>2, <1>6
      <3> QED  BY <1>8, <3>1, Zenon DEF Req
    <2>2. ~ (i < j) /\ ~ (j < i)  BY <1>4, <1>6, <2>1
    <2>3. i \in Nat /\ j \in Nat  BY <1>6
    <2> QED  BY <2>2, <2>3
  <1> QED  BY <1>7, <1>8, Zenon DEF RequestsConserved

\* Only the first completion can be stale.
LEMMA FirstIsStale == ASSUME Inv PROVE AtMostOneStale
  <1>1. TypeOK /\ WayInv  BY Zenon DEF Inv
  <1> DEFINE back == guest.back
             seen == back \o Used
  <1>2. Used \in Seq(Req) /\ back \in Seq(Req)  BY <1>1, Typed, Zenon
  <1>3. /\ \A i \in 1 .. Len(back) : i > 1 => back[i].epoch = guest.epoch
        /\ \A i \in 1 .. Len(Used) : i > 1 \/ back # <<>> => Used[i].epoch = guest.epoch
    BY <1>1, Zenon DEF WayInv, Way, Fresh
  <1> HIDE DEF back
  <1>4. ASSUME NEW i \in DOMAIN seen, i # 1 PROVE seen[i].epoch = guest.epoch
    <2>1. /\ Len(back) \in Nat /\ Len(Used) \in Nat /\ i \in 1 .. Len(back) + Len(Used)
          /\ i > 1
      BY <1>2, <1>4
    <2>2. CASE i \in 1 .. Len(back)
      <3>1. seen[i] = back[i]  BY <1>2, <2>2
      <3> QED  BY <1>3, <2>1, <2>2, <3>1, Zenon
    <2>3. CASE i \notin 1 .. Len(back)
      <3> DEFINE k == i - Len(back)
      <3>1. k \in 1 .. Len(Used) /\ seen[i] = Used[k] /\ (Len(back) = 0 => k > 1)
        BY <1>2, <2>1, <2>3
      <3>2. Len(back) # 0 => back # <<>>  BY <1>2
      <3> HIDE DEF k
      <3> QED  BY <1>3, <3>1, <3>2, Zenon
    <2> QED  BY <2>2, <2>3
  <1> QED  BY <1>4, Zenon DEF AtMostOneStale, back

\* No request is lost or completed twice, for any number of requests and resets.
THEOREM RequestsAreConserved == Spec => []RequestsConserved
  BY BlkInvariant, OnePlace, PTL

\* A driver sees at most one completion of a request from before its reset.
THEOREM StaleAtMostOnce == Spec => []AtMostOneStale
  BY BlkInvariant, FirstIsStale, PTL

\* When the worker polls, no completion waits without its interrupt.
THEOREM InterruptIsOwed == Spec => []UsedIsSignalled
  <1>1. Inv => UsedIsSignalled
    <2>1. "poll" # "signal"  OBVIOUS
    <2> QED  BY <2>1, Zenon DEF Inv, Signalled, UsedIsSignalled, At
  <1> QED  BY <1>1, BlkInvariant, PTL

\* The data of an IN and the effect of an OUT are what the answer says, for any
\* image, any span and any sequence of short transfers and fallbacks.
THEOREM AnswersAreTrue == Spec => []AnswerTellsTruth
  <1>1. Inv => AnswerTellsTruth  BY Zenon DEF Inv, DiskInv
  <1> QED  BY <1>1, BlkInvariant, PTL

\* A FLUSH answered OK has made the writes durable.
THEOREM FlushesAreDurable == Spec => []FlushIsDurable
  <1>1. Inv => FlushIsDurable  BY Zenon DEF Inv, DiskInv
  <1> QED  BY <1>1, BlkInvariant, PTL

\* A sector changes only through an OUT that covers it, or the write in flight.
THEOREM DiskChangesByWrites == Spec => OnlyWritesChangeDisk
  <1> DEFINE A == \A u \in Sectors : disk'.data[u] # disk.data[u] =>
                     \/ At("io") /\ Covers(worker.io, u) /\ ~ disk.readonly
                        /\ (disk.stray \/ disk'.data[u] = worker.req.id)
                     \/ Covers(disk.late, u)
  <1>1. Inv /\ [Next]_vars => [A]_vars
    <2>1. SUFFICES ASSUME Inv, Next PROVE A  BY Zenon
    <2>2. CASE DiskIo
      BY <2>1, <2>2, IoServed, Zenon DEF Inv, DiskIo
    <2>3. CASE Late  BY <2>1, <2>3, LateInv, Zenon
    <2>4. CASE Pop  BY <2>1, <2>4, PopInv, Zenon
    <2>5. CASE AddUsed  BY <2>1, <2>5, AddUsedInv, Zenon
    <2>6. CASE disk' = disk  BY <2>6, Zenon
    <2>7. CASE PollReady \/ PopNone \/ Signal
      BY <2>6, <2>7, Zenon DEF PollReady, PopNone, Signal
    <2>8. CASE DriverStep
      BY <2>6, <2>8, Zenon DEF DriverStep, DriverReset, DriverFeatures, EnableQueue, Post,
         Notify, Interrupt, Reap
    <2> QED  BY <2>1, <2>2, <2>3, <2>4, <2>5, <2>7, <2>8, Zenon DEF Next, WorkerStep
  <1> HIDE DEF A
  <1>2. Spec => [][A]_vars  BY <1>1, BlkInvariant, PTL DEF Spec
  <1> QED  BY <1>2 DEF OnlyWritesChangeDisk, A
==============================================================================
