-------------------------- MODULE SerialStdinProofs --------------------------
(***************************************************************************)
(* Proofs about the input side of the serial console, for every FIFO size, *)
(* reply length and number of bytes and queries.  The invariant is stated  *)
(* of the five values a byte passes through, so that each thing that can   *)
(* happen to a byte is one lemma, and an action is a sequence of those.    *)
(***************************************************************************)
EXTENDS SerialStdin, RetainProofs

ReplyByte == (Nat \ {0}) \X Nat
AnyByte == Nat \X Nat

\* Every reply byte but the last of a reply is followed by the next one.
Whole(seq) ==
    \A i \in 1 .. Len(seq) :
        ~ FromStdin(seq[i]) /\ seq[i][2] < ReplyLen
            => i < Len(seq) /\ seq[i + 1] = <<seq[i][1], seq[i][2] + 1>>

\* Concatenation under a name of its own, which the provers do not look into.
Cat(s, t) == s \o t

\* fifo: the RX FIFO, pending: pending_rx, unread: stdin, got: what the guest
\* has read, sent: how many bytes stdin has brought.  The pending bytes count
\* for Whole: the reply they belong to may have been cut in two by a full FIFO.
Conveys(fifo, pending, unread, got, sent) ==
    /\ fifo \in Seq(AnyByte) /\ Len(fifo) <= FifoSize
    /\ pending \in Seq(ReplyByte)
    /\ unread \in Seq(StdinByte)
    /\ got \in Seq(AnyByte)
    /\ sent \in Nat
    /\ Cat(Retain(Cat(got, fifo), StdinByte), unread) = [n \in 1 .. sent |-> <<0, n>>]
    /\ Whole(Cat(Cat(got, fifo), pending))

\* Concatenation yields a sequence, and the empty one changes nothing.
LEMMA CatSeq ==
    ASSUME NEW X, NEW s \in Seq(X), NEW t \in Seq(X)
    PROVE  /\ Cat(s, t) \in Seq(X) /\ Len(Cat(s, t)) = Len(s) + Len(t)
           /\ Cat(s, <<>>) = s
  BY DEF Cat

\* Concatenation is associative.
LEMMA CatAssoc ==
    ASSUME NEW X, NEW s \in Seq(X), NEW t \in Seq(X), NEW u \in Seq(X)
    PROVE  Cat(Cat(s, t), u) = Cat(s, Cat(t, u))
  <1> DEFINE a == (s \o t) \o u
             b == s \o (t \o u)
  <1>1. a \in Seq(X) /\ b \in Seq(X) /\ Len(a) = Len(b)  OBVIOUS
  <1>2. \A i \in 1 .. Len(a) : a[i] = b[i]  OBVIOUS
  <1> HIDE DEF a, b
  <1>3. a = b  BY <1>1, <1>2, SeqEqual
  <1> QED  BY <1>3 DEF a, b, Cat

\* Retain goes through a concatenation.
LEMMA RetainCat ==
    ASSUME NEW X, NEW s \in Seq(X), NEW t \in Seq(X), NEW S
    PROVE  Retain(Cat(s, t), S) = Cat(Retain(s, S), Retain(t, S))
  BY RetainConcat DEF Cat

\* The parts of a sequence before and after a cut.
LEMMA Cut ==
    ASSUME NEW X, NEW s \in Seq(X), NEW k \in 0 .. Len(s)
    PROVE  /\ SubSeq(s, 1, k) \in Seq(X) /\ Len(SubSeq(s, 1, k)) = k
           /\ SubSeq(s, k + 1, Len(s)) \in Seq(X)
           /\ Len(SubSeq(s, k + 1, Len(s))) = Len(s) - k
           /\ Cat(SubSeq(s, 1, k), SubSeq(s, k + 1, Len(s))) = s
  <1> DEFINE a == SubSeq(s, 1, k)
             b == SubSeq(s, k + 1, Len(s))
  <1>1. a \in Seq(X) /\ Len(a) = k /\ \A i \in 1 .. k : a[i] = s[i]  OBVIOUS
  <1>2. b \in Seq(X) /\ Len(b) = Len(s) - k /\ \A i \in 1 .. Len(s) - k : b[i] = s[k + i]
    OBVIOUS
  <1>3. Cat(a, b) = s
    <2> HIDE DEF a, b
    <2> DEFINE c == a \o b
    <2>1. /\ c \in Seq(X) /\ Len(c) = Len(s)
          /\ \A i \in 1 .. k : c[i] = a[i]
          /\ \A i \in 1 .. Len(s) - k : c[k + i] = b[i]
      BY <1>1, <1>2
    <2> HIDE DEF c
    <2>2. ASSUME NEW i \in 1 .. Len(s) PROVE c[i] = s[i]
      <3>1. CASE i <= k  BY <1>1, <2>1, <3>1
      <3>2. CASE i > k
        <4>1. i - k \in 1 .. Len(s) - k /\ k + (i - k) = i  BY <3>2
        <4> QED  BY <1>2, <2>1, <4>1, Zenon
      <3> QED  BY <3>1, <3>2
    <2>3. c = s  BY <2>1, <2>2, SeqEqual
    <2> QED  BY <2>3 DEF c, Cat
  <1> QED  BY <1>1, <1>2, <1>3

\* Pieces that are whole make a whole.
LEMMA WholeConcat ==
    ASSUME NEW s \in Seq(AnyByte), NEW t \in Seq(AnyByte), Whole(s), Whole(t)
    PROVE  Whole(Cat(s, t))
  <1> DEFINE u == s \o t
  <1>1. /\ Len(u) = Len(s) + Len(t)
        /\ \A i \in 1 .. Len(s) : u[i] = s[i]
        /\ \A i \in 1 .. Len(t) : u[Len(s) + i] = t[i]
    OBVIOUS
  <1> HIDE DEF u
  <1> SUFFICES ASSUME NEW i \in 1 .. Len(u), ~ FromStdin(u[i]), u[i][2] < ReplyLen
               PROVE  i < Len(u) /\ u[i + 1] = <<u[i][1], u[i][2] + 1>>
    BY DEF Whole, u, Cat
  <1>2. CASE i <= Len(s)
    <2>1. i < Len(s) /\ s[i + 1] = <<s[i][1], s[i][2] + 1>>  BY <1>1, <1>2 DEF Whole
    <2> QED  BY <1>1, <1>2, <2>1
  <1>3. CASE i > Len(s)
    <2> DEFINE j == i - Len(s)
    <2>1. j \in 1 .. Len(t) /\ u[i] = t[j]  BY <1>1, <1>3
    <2>2. j < Len(t) /\ t[j + 1] = <<t[j][1], t[j][2] + 1>>  BY <2>1 DEF Whole
    <2>3. u[Len(s) + (j + 1)] = t[j + 1]  BY <1>1, <2>1, <2>2
    <2> QED  BY <1>1, <2>1, <2>2, <2>3
  <1> QED  BY <1>2, <1>3

------------------------------------------------------------------------------
(* What can happen to a byte *)

\* The kinds of byte.
LEMMA Kinds ==
    /\ StdinByte \subseteq AnyByte /\ ReplyByte \subseteq AnyByte
    /\ StdinByte \cap ReplyByte = {}
    /\ \A b \in StdinByte : FromStdin(b)
    /\ \A b \in ReplyByte : ~ FromStdin(b)
    /\ Seq(StdinByte) \subseteq Seq(AnyByte) /\ Seq(ReplyByte) \subseteq Seq(AnyByte)
  BY DEF StdinByte, ReplyByte, AnyByte, FromStdin

\* flush_pending_rx: the first k pending bytes move to the FIFO.
LEMMA FlushConveys ==
    ASSUME NEW f, NEW p, NEW b, NEW g, NEW n, Conveys(f, p, b, g, n),
           NEW k \in 0 .. Len(p), Len(f) + k <= FifoSize
    PROVE  Conveys(f \o SubSeq(p, 1, k), SubSeq(p, k + 1, Len(p)), b, g, n)
  <1> DEFINE a == SubSeq(p, 1, k)
             r == SubSeq(p, k + 1, Len(p))
  <1>0. f \in Seq(AnyByte) /\ p \in Seq(ReplyByte) /\ g \in Seq(AnyByte)  BY DEF Conveys
  <1>1. a \in Seq(ReplyByte) /\ r \in Seq(ReplyByte) /\ Len(a) = k /\ Cat(a, r) = p
    BY <1>0, Cut
  <1> HIDE DEF a, r
  <1>2. a \in Seq(AnyByte) /\ r \in Seq(AnyByte)  BY <1>1, Kinds
  <1>3. Cat(f, a) \in Seq(AnyByte) /\ Len(Cat(f, a)) <= FifoSize
    BY <1>0, <1>1, <1>2, SerialStdinAssumption, CatSeq, Zenon
  <1>4. Cat(g, f) \in Seq(AnyByte) /\ Cat(g, Cat(f, a)) = Cat(Cat(g, f), a)
    BY <1>0, <1>2, CatSeq, CatAssoc
  <1>5. Retain(Cat(g, Cat(f, a)), StdinByte) = Retain(Cat(g, f), StdinByte)
    <2>1. \A i \in 1 .. Len(a) : a[i] \notin StdinByte  BY <1>1, Kinds
    <2>2. Retain(a, StdinByte) = <<>>  BY <1>2, <2>1, RetainUniform
    <2>3. Retain(Cat(g, f), StdinByte) \in Seq(AnyByte)  BY <1>4, RetainSeq
    <2> QED  BY <1>2, <1>4, <2>2, <2>3, RetainCat, CatSeq
  <1>6. Cat(Cat(g, Cat(f, a)), r) = Cat(Cat(g, f), p)  BY <1>1, <1>2, <1>4, CatAssoc
  <1>7. Conveys(Cat(f, a), r, b, g, n)  BY <1>1, <1>3, <1>5, <1>6 DEF Conveys
  <1> QED  BY <1>7 DEF a, r, Cat

\* drain_stdin: the first k unread bytes move to the FIFO, which happens only
\* when no reply is pending.
LEMMA FillConveys ==
    ASSUME NEW f, NEW p, NEW b, NEW g, NEW n, Conveys(f, p, b, g, n),
           NEW k \in 0 .. Len(b), Len(f) + k <= FifoSize, k > 0 => p = <<>>
    PROVE  Conveys(f \o SubSeq(b, 1, k), p, SubSeq(b, k + 1, Len(b)), g, n)
  <1> DEFINE a == SubSeq(b, 1, k)
             r == SubSeq(b, k + 1, Len(b))
  <1>0. f \in Seq(AnyByte) /\ b \in Seq(StdinByte) /\ g \in Seq(AnyByte)  BY DEF Conveys
  <1>1. a \in Seq(StdinByte) /\ r \in Seq(StdinByte) /\ Len(a) = k /\ Cat(a, r) = b
    BY <1>0, Cut
  <1> HIDE DEF a, r
  <1>2. a \in Seq(AnyByte) /\ r \in Seq(AnyByte)  BY <1>1, Kinds
  <1>3. Cat(f, a) \in Seq(AnyByte) /\ Len(Cat(f, a)) <= FifoSize
    BY <1>0, <1>1, <1>2, SerialStdinAssumption, CatSeq, Zenon
  <1>4. Cat(g, f) \in Seq(AnyByte) /\ Cat(g, Cat(f, a)) = Cat(Cat(g, f), a)
    BY <1>0, <1>2, CatSeq, CatAssoc
  <1>5. Cat(Retain(Cat(g, Cat(f, a)), StdinByte), r) = Cat(Retain(Cat(g, f), StdinByte), b)
    <2>1. \A i \in 1 .. Len(a) : a[i] \in StdinByte  BY <1>1
    <2>2. Retain(a, StdinByte) = a  BY <1>2, <2>1, RetainUniform
    <2>3. Retain(Cat(g, f), StdinByte) \in Seq(AnyByte)  BY <1>4, RetainSeq
    <2>4. Retain(Cat(g, Cat(f, a)), StdinByte) = Cat(Retain(Cat(g, f), StdinByte), a)
      BY <1>2, <1>4, <2>2, RetainCat
    <2> QED  BY <1>1, <1>2, <2>3, <2>4, CatAssoc
  <1>6. Whole(Cat(Cat(g, Cat(f, a)), p))
    <2>1. Whole(a)  BY <1>1, Kinds DEF Whole
    <2>2. CASE k = 0
      <3>1. a = <<>>  BY <1>1, <2>2
      <3>2. Cat(Cat(g, f), a) = Cat(g, f)  BY <1>4, <3>1, CatSeq
      <3> QED  BY <1>4, <3>2 DEF Conveys
    <2>3. CASE k > 0
      <3>1. p = <<>>  BY <2>3
      <3>2. Cat(Cat(g, f), a) \in Seq(AnyByte)  BY <1>2, <1>4, CatSeq
      <3>3. Cat(Cat(g, f), p) = Cat(g, f)  BY <1>4, <3>1, CatSeq
      <3>4. Cat(Cat(Cat(g, f), a), p) = Cat(Cat(g, f), a)  BY <3>1, <3>2, CatSeq
      <3>5. Whole(Cat(g, f))  BY <3>3 DEF Conveys
      <3>6. Whole(Cat(Cat(g, f), a))  BY <1>2, <1>4, <2>1, <3>5, WholeConcat
      <3> QED  BY <1>4, <3>4, <3>6
    <2> QED  BY <2>2, <2>3
  <1>7. Conveys(Cat(f, a), p, r, g, n)  BY <1>1, <1>3, <1>5, <1>6 DEF Conveys
  <1> QED  BY <1>7 DEF a, r, Cat

\* bus_read: the guest takes the first byte of the FIFO.
LEMMA ReadConveys ==
    ASSUME NEW f, NEW p, NEW b, NEW g, NEW n, Conveys(f, p, b, g, n), f # <<>>
    PROVE  Conveys(Tail(f), p, b, Append(g, Head(f)), n)
  <1>0. f \in Seq(AnyByte) /\ g \in Seq(AnyByte) /\ Len(f) > 0  BY DEF Conveys
  <1> DEFINE t == Tail(f)
             h == Append(g, Head(f))
  <1>1. t \in Seq(AnyByte) /\ h \in Seq(AnyByte) /\ Len(t) = Len(f) - 1  BY <1>0
  <1>2. Cat(h, t) = Cat(g, f)
    <2>1. h \o t \in Seq(AnyByte) /\ g \o f \in Seq(AnyByte) /\ Len(h \o t) = Len(g \o f)
      BY <1>0, <1>1
    <2>2. \A i \in 1 .. Len(g \o f) : (h \o t)[i] = (g \o f)[i]  BY <1>0, <1>1
    <2> HIDE DEF h, t
    <2> QED  BY <2>1, <2>2, SeqEqual DEF Cat
  <1> HIDE DEF h, t
  <1>3. Len(t) <= FifoSize  BY <1>0, <1>1, SerialStdinAssumption DEF Conveys
  <1>4. Conveys(t, p, b, h, n)  BY <1>1, <1>2, <1>3 DEF Conveys
  <1> QED  BY <1>4 DEF h, t

\* observe_guest_tx: the reply to query q joins what is pending.
LEMMA QueryConveys ==
    ASSUME NEW f, NEW p, NEW b, NEW g, NEW n, Conveys(f, p, b, g, n), NEW q \in Nat \ {0}
    PROVE  Conveys(f, p \o Reply(q), b, g, n)
  <1> DEFINE r == Reply(q)
  <1>0. f \in Seq(AnyByte) /\ p \in Seq(ReplyByte) /\ g \in Seq(AnyByte) /\ ReplyLen \in Nat
    BY SerialStdinAssumption DEF Conveys
  <1>1. /\ r \in Seq(ReplyByte) /\ Len(r) = ReplyLen
        /\ \A j \in 1 .. ReplyLen : r[j] = <<q, j>>
    BY <1>0 DEF Reply, ReplyByte
  <1> HIDE DEF r
  <1>2. Whole(r)  BY <1>0, <1>1 DEF Whole
  <1>3. r \in Seq(AnyByte) /\ p \in Seq(AnyByte)  BY <1>0, <1>1, Kinds
  <1>4. Cat(g, f) \in Seq(AnyByte)  BY <1>0, CatSeq
  <1>5. Cat(Cat(g, f), p) \in Seq(AnyByte)  BY <1>3, <1>4, CatSeq
  <1>6. Whole(Cat(Cat(Cat(g, f), p), r))  BY <1>2, <1>3, <1>5, WholeConcat DEF Conveys
  <1>7. Cat(Cat(Cat(g, f), p), r) = Cat(Cat(g, f), Cat(p, r))  BY <1>3, <1>4, CatAssoc
  <1>8. Cat(p, r) \in Seq(ReplyByte)  BY <1>0, <1>1, CatSeq
  <1>9. Conveys(f, Cat(p, r), b, g, n)  BY <1>6, <1>7, <1>8 DEF Conveys
  <1> QED  BY <1>9 DEF r, Cat

\* A byte arrives on stdin.
LEMMA ArriveConveys ==
    ASSUME NEW f, NEW p, NEW b, NEW g, NEW n, Conveys(f, p, b, g, n)
    PROVE  Conveys(f, p, Append(b, <<0, n + 1>>), g, n + 1)
  <1> DEFINE x == <<0, n + 1>>
             c == Append(b, x)
             s == Retain(Cat(g, f), StdinByte)
             e == [i \in 1 .. n |-> <<0, i>>]
             d == [i \in 1 .. n + 1 |-> <<0, i>>]
  <1>0. n \in Nat /\ b \in Seq(StdinByte) /\ Cat(s, b) = e  BY DEF Conveys
  <1>1. x \in StdinByte /\ x \in AnyByte  BY <1>0 DEF StdinByte, AnyByte
  <1>2. c \in Seq(StdinByte)  BY <1>0, <1>1
  <1>3. s \in Seq(AnyByte) /\ b \in Seq(AnyByte)
    <2>1. Cat(g, f) \in Seq(AnyByte)  BY CatSeq DEF Conveys
    <2> QED  BY <1>0, <2>1, RetainSeq, Kinds
  <1>4. Cat(s, c) = Append(e, x)
    <2> HIDE DEF s, e, x
    <2> QED  BY <1>0, <1>1, <1>3, ConcatAppend DEF Cat
  <1>5. Append(e, x) = d
    <2>1. e \in Seq(AnyByte) /\ d \in Seq(AnyByte) /\ Len(e) = n /\ Len(d) = n + 1
      BY <1>0 DEF AnyByte
    <2>2. /\ \A i \in 1 .. n : e[i] = <<0, i>>
          /\ \A i \in 1 .. n + 1 : d[i] = <<0, i>>
      BY <1>0
    <2> HIDE DEF e, d
    <2> DEFINE u == Append(e, x)
    <2>3. d[n + 1] = x  BY <1>0, <2>2
    <2> HIDE DEF x
    <2>4. u \in Seq(AnyByte) /\ Len(u) = n + 1 /\ u[n + 1] = x /\ \A i \in 1 .. n : u[i] = e[i]
      BY <1>0, <1>1, <2>1
    <2> HIDE DEF u
    <2>5. \A i \in 1 .. n + 1 : u[i] = d[i]
      <3>1. \A i \in 1 .. n + 1 : i \in 1 .. n \/ i = n + 1  BY <1>0
      <3>2. \A i \in 1 .. n : i \in 1 .. n + 1  BY <1>0
      <3> QED  BY <2>2, <2>3, <2>4, <3>1, <3>2, Zenon
    <2>6. u = d  BY <2>1, <2>4, <2>5, SeqEqual
    <2> QED  BY <2>6 DEF u
  <1>6. n + 1 \in Nat  BY <1>0
  <1>7. Cat(Retain(Cat(g, f), StdinByte), c) = [i \in 1 .. n + 1 |-> <<0, i>>]
    BY <1>4, <1>5, Zenon
  <1> HIDE DEF c, s, e, d
  <1>8. Conveys(f, p, c, g, n + 1)  BY <1>2, <1>6, <1>7 DEF Conveys
  <1> QED  BY <1>8 DEF c

------------------------------------------------------------------------------
(* The inductive invariant *)

Inv ==
    /\ DOMAIN serial = {"fifo", "pending", "ready"}
    /\ DOMAIN stdin = {"sent", "buf", "closed"}
    /\ DOMAIN guest = {"got", "asked"}
    /\ guest.asked \in Nat
    /\ Conveys(serial.fifo, serial.pending, stdin.buf, guest.got, stdin.sent)

\* flush_pending_rx leaves bytes pending only in front of a full FIFO.
LEMMA FlushKeeps ==
    ASSUME NEW s, NEW b, NEW g, NEW n, DOMAIN s = {"fifo", "pending", "ready"},
           Conveys(s.fifo, s.pending, b, g, n)
    PROVE  LET f == FlushPendingRx(s)
           IN  /\ DOMAIN f = {"fifo", "pending", "ready"} /\ f.ready = s.ready
               /\ Conveys(f.fifo, f.pending, b, g, n)
               /\ Capacity(f) \in Nat
               /\ Capacity(f) > 0 => f.pending = <<>>
  <1> DEFINE p == s.pending
             k == Least(Capacity(s), Len(p))
             f == FlushPendingRx(s)
  <1>1. s.fifo \in Seq(AnyByte) /\ p \in Seq(ReplyByte) /\ Len(s.fifo) <= FifoSize
    BY DEF Conveys
  <1>2. FifoSize \in Nat /\ Len(s.fifo) \in Nat /\ Len(p) \in Nat
    BY <1>1, SerialStdinAssumption
  <1>3. k \in 0 .. Len(p) /\ Len(s.fifo) + k <= FifoSize
        /\ (Len(s.fifo) + k < FifoSize => k = Len(p))
    <2> HIDE DEF p
    <2> QED  BY <1>1, <1>2 DEF Least, Capacity
  <1>4. /\ DOMAIN f = {"fifo", "pending", "ready"} /\ f.ready = s.ready
        /\ f.fifo = s.fifo \o SubSeq(p, 1, k) /\ f.pending = SubSeq(p, k + 1, Len(p))
    BY Zenon DEF FlushPendingRx
  <1> HIDE DEF f, k
  <1>5. Conveys(f.fifo, f.pending, b, g, n)  BY <1>3, <1>4, FlushConveys
  <1>6. Len(f.fifo) = Len(s.fifo) + k /\ Len(f.pending) = Len(p) - k /\ f.pending \in Seq(ReplyByte)
    <2> DEFINE a == SubSeq(p, 1, k)
    <2>1. a \in Seq(ReplyByte) /\ Len(a) = k /\ Len(f.pending) = Len(p) - k
      BY <1>1, <1>3, <1>4, Cut
    <2>2. f.fifo = Cat(s.fifo, a) /\ a \in Seq(AnyByte)  BY <1>4, <2>1, Kinds, SMTT(30) DEF Cat
    <2> HIDE DEF a
    <2> QED  BY <1>1, <1>5, <2>1, <2>2, CatSeq, Zenon DEF Conveys
  <1>7. Capacity(f) \in Nat /\ (Capacity(f) > 0 => f.pending = <<>>)
    BY <1>2, <1>3, <1>6 DEF Capacity
  <1> QED  BY <1>4, <1>5, <1>7 DEF f

\* drain_stdin, whether or not it comes to the end of what it could read.
LEMMA FeedKeeps ==
    ASSUME Inv, NEW k \in 0 .. Len(stdin.buf), k <= Capacity(FlushPendingRx(serial)),
           serial'.fifo = FlushPendingRx(serial).fifo \o SubSeq(stdin.buf, 1, k),
           serial'.pending = FlushPendingRx(serial).pending,
           DOMAIN serial' = {"fifo", "pending", "ready"},
           stdin' = [stdin EXCEPT !.buf = SubSeq(@, k + 1, Len(@))], UNCHANGED guest
    PROVE  Inv'
  <1> DEFINE f == FlushPendingRx(serial)
             b == stdin.buf
  <1>1. /\ Conveys(f.fifo, f.pending, b, guest.got, stdin.sent)
        /\ Capacity(f) \in Nat /\ (Capacity(f) > 0 => f.pending = <<>>)
    BY FlushKeeps, Zenon DEF Inv
  <1>2. k \in 0 .. Len(b) /\ k <= Capacity(f) /\ b \in Seq(StdinByte) /\ f.fifo \in Seq(AnyByte)
    BY <1>1 DEF Conveys
  <1>3. FifoSize \in Nat  BY SerialStdinAssumption
  <1>4. Len(f.fifo) + k <= FifoSize /\ (k > 0 => f.pending = <<>>)
    <2> HIDE DEF f, b
    <2> QED  BY <1>1, <1>2, <1>3 DEF Capacity
  <1>5. Conveys(f.fifo \o SubSeq(b, 1, k), f.pending, SubSeq(b, k + 1, Len(b)), guest.got, stdin.sent)
    <2> HIDE DEF f, b
    <2> QED  BY <1>1, <1>2, <1>4, FillConveys
  <1>6. /\ DOMAIN stdin' = {"sent", "buf", "closed"} /\ stdin'.sent = stdin.sent
        /\ stdin'.buf = SubSeq(b, k + 1, Len(b))
    BY SMTT(30) DEF Inv
  <1> QED  BY <1>5, <1>6 DEF Inv

\* Every action keeps the invariant.
LEMMA NextKeeps ==
    ASSUME Inv, [Next]_vars
    PROVE  Inv'
  <1>0. /\ DOMAIN serial = {"fifo", "pending", "ready"}
        /\ DOMAIN stdin = {"sent", "buf", "closed"} /\ DOMAIN guest = {"got", "asked"}
        /\ guest.asked \in Nat
        /\ Conveys(serial.fifo, serial.pending, stdin.buf, guest.got, stdin.sent)
    BY DEF Inv
  <1>1. CASE UNCHANGED <<serial, stdin, guest>>  BY <1>1 DEF Inv
  <1>2. CASE PollStop \/ PollSpace \/ PollStdin \/ PollError \/ ClearSpace \/ Stop
    BY <1>1, <1>2 DEF PollStop, PollSpace, PollStdin, PollError, ClearSpace, Stop
  <1>3. ASSUME serial' = DrainStdin(serial, stdin).serial,
               stdin' = [stdin EXCEPT !.buf = DrainStdin(serial, stdin).left],
               UNCHANGED guest
        PROVE  Inv'
    <2> DEFINE f == FlushPendingRx(serial)
               k == IF serial.ready THEN Least(Capacity(f), Len(stdin.buf)) ELSE 0
    <2>1. DOMAIN f = {"fifo", "pending", "ready"} /\ Capacity(f) \in Nat
      BY <1>0, FlushKeeps
    <2>2. k \in 0 .. Len(stdin.buf) /\ k <= Capacity(f)
      <3>1. Len(stdin.buf) \in Nat  BY <1>0 DEF Conveys
      <3> HIDE DEF f
      <3> QED  BY <2>1, <3>1 DEF Least
    <2> HIDE DEF f, k
    <2>3. /\ DrainStdin(serial, stdin).serial.fifo = f.fifo \o SubSeq(stdin.buf, 1, k)
          /\ DrainStdin(serial, stdin).serial.pending = f.pending
          /\ DOMAIN DrainStdin(serial, stdin).serial = {"fifo", "pending", "ready"}
          /\ DrainStdin(serial, stdin).left = SubSeq(stdin.buf, k + 1, Len(stdin.buf))
      BY <2>1, Zenon DEF DrainStdin, f, k
    <2>4. stdin' = [stdin EXCEPT !.buf = SubSeq(@, k + 1, Len(@))]  BY <1>3, <2>3
    <2> QED  BY <1>3, <2>2, <2>3, <2>4, FeedKeeps, Zenon DEF f
  <1>4. CASE Drain  BY <1>3, <1>4 DEF Drain
  <1>5. CASE DrainHup  BY <1>3, <1>5 DEF DrainHup
  <1>6. CASE DrainFails
    <2> DEFINE f == FlushPendingRx(serial)
    <2>1. PICK k \in 0 .. Len(stdin.buf) :
              /\ k < Capacity(f)
              /\ serial' = [f EXCEPT !.fifo = @ \o SubSeq(stdin.buf, 1, k)]
              /\ stdin' = [stdin EXCEPT !.buf = SubSeq(@, k + 1, Len(@))]
      BY <1>6, Zenon DEF DrainFails
    <2>2. DOMAIN f = {"fifo", "pending", "ready"} /\ Capacity(f) \in Nat
      BY <1>0, FlushKeeps, Zenon
    <2>3. k <= Capacity(f) /\ UNCHANGED guest  BY <1>6, <2>1, <2>2 DEF DrainFails
    <2>4. /\ serial'.fifo = f.fifo \o SubSeq(stdin.buf, 1, k)
          /\ serial'.pending = f.pending /\ DOMAIN serial' = {"fifo", "pending", "ready"}
      <3> HIDE DEF f
      <3> QED  BY <2>1, <2>2, SMTT(30)
    <2> QED  BY <2>1, <2>3, <2>4, FeedKeeps, Zenon
  <1>7. CASE BusRead
    <2>1. CASE serial.fifo = <<>>  BY <1>1, <1>7, <2>1 DEF BusRead
    <2>2. CASE serial.fifo # <<>>
      <3>1. /\ DOMAIN serial' = {"fifo", "pending", "ready"} /\ DOMAIN guest' = {"got", "asked"}
            /\ serial'.fifo = Tail(serial.fifo) /\ serial'.pending = serial.pending
            /\ guest'.got = Append(guest.got, Head(serial.fifo)) /\ guest'.asked = guest.asked
            /\ stdin' = stdin
        BY <1>0, <1>7, <2>2 DEF BusRead
      <3>2. Conveys(Tail(serial.fifo), serial.pending, stdin.buf,
                    Append(guest.got, Head(serial.fifo)), stdin.sent)
        BY <1>0, <2>2, ReadConveys
      <3> QED  BY <1>0, <3>1, <3>2 DEF Inv
    <2> QED  BY <2>1, <2>2
  <1>8. CASE BusWriteQuery
    <2> DEFINE q == guest.asked + 1
               s == [serial EXCEPT !.pending = @ \o Reply(q)]
               f == FlushPendingRx(s)
    <2>1. /\ DOMAIN s = {"fifo", "pending", "ready"}
          /\ s.fifo = serial.fifo /\ s.pending = serial.pending \o Reply(q)
      BY <1>0
    <2>2. q \in Nat \ {0}  BY <1>0
    <2> HIDE DEF q, s
    <2>3. Conveys(s.fifo, s.pending, stdin.buf, guest.got, stdin.sent)
      BY <1>0, <2>1, <2>2, QueryConveys
    <2>4. /\ DOMAIN f = {"fifo", "pending", "ready"}
          /\ Conveys(f.fifo, f.pending, stdin.buf, guest.got, stdin.sent)
      BY <2>1, <2>3, FlushKeeps, Zenon
    <2>5. /\ serial' = f /\ stdin' = stdin
          /\ guest' = [guest EXCEPT !.asked = @ + 1]
      BY <1>8 DEF BusWriteQuery, s, q
    <2>6. DOMAIN guest' = {"got", "asked"} /\ guest'.got = guest.got /\ guest'.asked = q
      BY <1>0, <2>5 DEF q
    <2> HIDE DEF f
    <2> QED  BY <1>0, <2>2, <2>4, <2>5, <2>6 DEF Inv
  <1>9. CASE Arrive
    <2>1. /\ serial' = serial /\ guest' = guest
          /\ DOMAIN stdin' = {"sent", "buf", "closed"} /\ stdin'.sent = stdin.sent + 1
          /\ stdin'.buf = Append(stdin.buf, <<0, stdin.sent + 1>>)
      BY <1>0, <1>9 DEF Arrive
    <2> QED  BY <1>0, <2>1, ArriveConveys DEF Inv
  <1>10. CASE CloseStdin
    <2>1. /\ serial' = serial /\ guest' = guest
          /\ DOMAIN stdin' = {"sent", "buf", "closed"} /\ stdin'.sent = stdin.sent
          /\ stdin'.buf = stdin.buf
      BY <1>0, <1>10 DEF CloseStdin
    <2> QED  BY <1>0, <2>1 DEF Inv
  <1>11. CASE UNCHANGED vars  BY <1>1, <1>11 DEF vars
  <1> QED
    BY <1>2, <1>4, <1>5, <1>6, <1>7, <1>8, <1>9, <1>10, <1>11 DEF Next, WorkerStep

\* Every byte of stdin and of a reply is accounted for, whatever the guest and
\* the worker do and whenever they do it.
THEOREM SerialInvariant == Spec => []Inv
  <1>1. Init => Inv
    <2> SUFFICES ASSUME Init PROVE Inv  OBVIOUS
    <2>1. /\ DOMAIN serial = {"fifo", "pending", "ready"}
          /\ serial.fifo = <<>> /\ serial.pending = <<>>
          /\ DOMAIN stdin = {"sent", "buf", "closed"} /\ stdin.buf = <<>> /\ stdin.sent = 0
          /\ DOMAIN guest = {"got", "asked"} /\ guest.got = <<>> /\ guest.asked = 0
      BY DEF Init
    <2>2. <<>> \in Seq(AnyByte) /\ <<>> \in Seq(StdinByte) /\ <<>> \in Seq(ReplyByte)
          /\ Len(<<>>) = 0
      OBVIOUS
    <2>3. Cat(<<>>, <<>>) = <<>>  BY DEF Cat
    <2>4. Retain(<<>>, StdinByte) = <<>>  BY <2>2, RetainSeq, Zenon
    <2>5. [n \in 1 .. 0 |-> <<0, n>>] = <<>>  OBVIOUS
    <2>6. Whole(<<>>)  BY DEF Whole
    <2>7. Len(<<>>) <= FifoSize  BY <2>2, SerialStdinAssumption
    <2>8. Conveys(<<>>, <<>>, <<>>, <<>>, 0)
      BY <2>2, <2>3, <2>4, <2>5, <2>6, <2>7 DEF Conveys
    <2> QED  BY <2>1, <2>8 DEF Inv
  <1>2. Inv /\ [Next]_vars => Inv'  BY NextKeeps
  <1> QED  BY <1>1, <1>2, PTL DEF Spec

\* drain_stdin reads no more than the FIFO takes, and in order.
THEOREM StdinInOrder == Spec => []InputInOrder
  <1>1. Inv => InputInOrder  BY DEF Inv, Conveys, InputInOrder, InFlight, Cat
  <1> QED  BY <1>1, SerialInvariant, PTL

\* A reply that does not fit the FIFO at once still arrives in one piece:
\* drain_stdin and observe_guest_tx flush pending_rx before they add to it.
THEOREM ReplyStaysWhole == Spec => []ReplyInOnePiece
  <1>1. Inv => ReplyInOnePiece
    <2> SUFFICES ASSUME Inv, NEW i \in 1 .. Len(InFlight) - 1,
                        ~ FromStdin(InFlight[i]), InFlight[i][2] < ReplyLen
                 PROVE  InFlight[i + 1] = <<InFlight[i][1], InFlight[i][2] + 1>>
      BY DEF ReplyInOnePiece
    <2> DEFINE x == InFlight
               p == serial.pending
               y == Cat(x, p)
    <2>1. x \in Seq(AnyByte) /\ p \in Seq(AnyByte)
      BY CatSeq, Kinds DEF Inv, Conveys, InFlight, Cat
    <2>2. Whole(y)  BY DEF Inv, Conveys, InFlight, Cat
    <2> HIDE DEF x, p
    <2>3. Len(y) = Len(x) + Len(p) /\ \A j \in 1 .. Len(x) : y[j] = x[j]
      BY <2>1 DEF Cat
    <2> HIDE DEF y
    <2>4. i \in 1 .. Len(x) /\ i + 1 \in 1 .. Len(x) /\ i \in 1 .. Len(y)
      BY <2>1, <2>3 DEF x
    <2>5. y[i] = x[i] /\ y[i + 1] = x[i + 1]  BY <2>3, <2>4
    <2>6. ~ FromStdin(y[i]) /\ y[i][2] < ReplyLen  BY <2>5 DEF x
    <2>7. y[i + 1] = <<y[i][1], y[i][2] + 1>>  BY <2>2, <2>4, <2>6 DEF Whole
    <2> QED  BY <2>5, <2>7 DEF x
  <1> QED  BY <1>1, SerialInvariant, PTL

==============================================================================
