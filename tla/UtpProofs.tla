----------------------------- MODULE UtpProofs -----------------------------
(***************************************************************************)
(* Proofs about Utp, for every window, threshold, number of faults and     *)
(* load that the sequence numbers can tell apart: the connection is a byte *)
(* stream in each direction, and a cancelled connect leaves no stream.     *)
(*                                                                         *)
(* The bound on the loads is the protocol's: the network may keep a        *)
(* duplicate for ever, and one that is half the number space old would be  *)
(* taken for new data.                                                     *)
(***************************************************************************)
EXTENDS Utp, FiniteSetTheorems, WellFoundedInduction, TLAPS

----------------------------------------------------------------------------
(* Shapes.                                                                 *)

Types == {"SYN", "STATE", "DATA", "FIN"}
PacketType == [to : Ends, type : Types, seq : Nat, ack : Nat, wnd : Int,
               payload : Nat, sack : Nat]
ChunkType == [seq : Nat, payload : Nat]
StateType == [seq : Nat, ack : Nat, expected : Nat, lastAck : Nat, remoteWnd : Int,
              unacked : Seq(ChunkType), dups : Nat, fast : Nat, recvBuf : Seq(Nat),
              outOfOrder : SUBSET ChunkType, advertised : Int, readClosed : BOOLEAN,
              writeClosed : BOOLEAN, isReset : BOOLEAN]

Shape ==
    /\ net \subseteq PacketType
    /\ st \in [Ends -> StateType]
    /\ reg \in [Ends -> BOOLEAN] /\ eof \in [Ends -> BOOLEAN]
    /\ handle \in [Ends -> {"none", "open", "ended", "dropped"}]
    /\ todo \in [Ends -> Nat] /\ sent \in [Ends -> Nat]
    /\ got \in [Ends -> Seq(Nat)]

----------------------------------------------------------------------------
(* Numbers.  The handshake fixes the number of each end's first chunk.     *)

First(e) == IF e = "a" THEN 2 ELSE 1

\* The chunks that e has written, with the numbers they were given.
Written(e) == {o \in ChunkType : /\ o.payload \in 1..sent[e]
                                 /\ o.seq = First(e) + o.payload - 1}

\* No number is given twice, and no two chunks are half the space apart.
NumbersFit == \A e \in Ends : 2 * (sent[e] + todo[e] + 3) <= SeqMod

Made(e) == st[e].expected # 0

\* Everything e keeps for resending was written, and its next number is the next.
Sending(e, s) ==
    /\ s.unacked \in Seq(Written(e))
    /\ s.expected # 0 => s.seq = First(e) + sent[e] + (IF s.writeClosed THEN 1 ELSE 0)

\* What e buffers continues what was read, and what it holds was written.
Receiving(e, s) ==
    /\ s.outOfOrder \subseteq Written(Other(e)) /\ IsFiniteSet(s.outOfOrder)
    /\ \A i \in 1..Len(s.recvBuf) : s.recvBuf[i] = Len(got[e]) + i
    /\ Len(got[e]) + Len(s.recvBuf) <= sent[Other(e)]
    /\ s.expected # 0 => s.expected = First(Other(e)) + Len(got[e]) + Len(s.recvBuf)

StreamsOK == \A e \in Ends : Sending(e, st[e]) /\ Receiving(e, st[e])

Syn == Packet("b", "SYN", 1, 0, RecvWnd, NoPayload, 0)

\* What is in transit, and that the handshake comes first.
InTransit ==
    /\ \A p \in net : p.type = "DATA" =>
           [seq |-> p.seq, payload |-> p.payload] \in Written(Other(p.to))
    /\ \A p \in net : p.type = "SYN" => p = Syn /\ ~Made("b") /\ dial # "idle"
    /\ ~Made("a") => \A p \in net : /\ p.to = "b" => p = Syn
                                    /\ p.to = "a" /\ p.type = "STATE" => p.seq = 1

\* An end that has no stream has done nothing.
Unmade ==
    \A e \in Ends : ~Made(e) =>
        /\ handle[e] = "none" /\ ~reg[e] /\ sent[e] = 0
        /\ got[e] = <<>> /\ st[e].recvBuf = <<>> /\ st[e].unacked = <<>>

Handshake ==
    /\ dial \in {"idle", "syn"} => ~Made("a")
    /\ dial = "idle" => ~Made("b")
    /\ dial # "done" => handle["a"] = "none"
    /\ dial = "ready" => Made("a")
    /\ \A e \in Ends : eof[e] => handle[e] \in {"ended", "dropped"}

UtpInv == Shape /\ NumbersFit /\ StreamsOK /\ InTransit /\ Unmade /\ Handshake

----------------------------------------------------------------------------
(* Arithmetic of the sequence numbers, where they do not wrap.             *)

\* A set of naturals that is not empty has a least member.
LEMMA LeastNatural ==
    ASSUME NEW T \in SUBSET Nat, T # {}
    PROVE  \E m \in T : \A k \in T : m <= k
<1>1. PICK m \in T : \A k \in T : ~(<<k, m>> \in OpToRel(<, Nat))
  BY WFMin, NatLessThanWellFounded
<1>2. \A k \in T : ~(k < m)
  BY <1>1 DEF OpToRel
<1> QED
  BY <1>2

\* A number below the modulus is its own remainder.
LEMMA NoWrap ==
    ASSUME SeqMod \in Nat, NEW x \in Nat, x < SeqMod
    PROVE  x % SeqMod = x
  OBVIOUS

\* A difference of two numbers below half the modulus, compared as the code does.
LEMMA Differences ==
    ASSUME SeqMod \in Nat, NEW x \in Nat, NEW y \in Nat,
           2 * x < SeqMod, 2 * y < SeqMod
    PROVE  /\ x >= y => Sub(x, y) = x - y
           /\ x < y => Sub(x, y) = x - y + SeqMod
           /\ Positive(Sub(x, y)) => x > y
<1>1. /\ SeqMod \div 2 \in Nat
      /\ 2 * (SeqMod \div 2) <= SeqMod /\ SeqMod <= 2 * (SeqMod \div 2) + 1
  OBVIOUS
<1>2. x >= y => Sub(x, y) = x - y
  BY DEF Sub
<1>3. x < y => Sub(x, y) = x - y + SeqMod
  BY DEF Sub
<1> QED
  BY <1>1, <1>2, <1>3 DEF Positive

\* Whatever is subtracted, the result is a sequence number.
LEMMA SubType ==
    ASSUME SeqMod \in Nat, SeqMod > 0, NEW x \in Int, NEW y \in Int
    PROVE  Sub(x, y) \in Nat
  BY DEF Sub

LEMMA Others ==
    /\ Other("a") = "b" /\ Other("b") = "a"
    /\ \A e \in Ends : Other(e) \in Ends /\ Other(e) # e /\ Other(Other(e)) = e
  BY DEF Other, Ends

\* A prefix dropped from a sequence leaves its members where they were.
LEMMA Suffixes ==
    ASSUME NEW S, NEW q \in Seq(S), NEW n \in Nat
    PROVE  SubSeq(q, n + 1, Len(q)) \in Seq(S)
  OBVIOUS

LEMMA Sizes ==
    /\ SeqMod \in Nat /\ RecvWnd \in Nat
    /\ \A l \in Loads, e \in Ends : l[e] \in Nat /\ SeqMod >= 2 * (l[e] + 3)
  BY UtpAssumption

----------------------------------------------------------------------------
(* What a packet does to the state of a stream.                            *)

\* The fields of a stream state that say what was written and read.
SameStream(s, t) ==
    /\ t.seq = s.seq /\ t.ack = s.ack /\ t.expected = s.expected
    /\ t.recvBuf = s.recvBuf /\ t.outOfOrder = s.outOfOrder
    /\ t.writeClosed = s.writeClosed

\* An acknowledgement only shortens what is kept for resending.
LEMMA AcknowledgeShape ==
    ASSUME NEW s \in StateType, NEW p \in PacketType
    PROVE  /\ Acknowledge(s, p) \in StateType
           /\ SameStream(s, Acknowledge(s, p))
           /\ \A S : s.unacked \in Seq(S) => Acknowledge(s, p).unacked \in Seq(S)
<1> DEFINE acked == {i \in DOMAIN s.unacked :
                       \A j \in 1..i : NonNegative(Sub(p.ack, s.unacked[j].seq))}
           rest == SubSeq(s.unacked, Cardinality(acked) + 1, Len(s.unacked))
           last == IF acked # {} THEN p.ack ELSE s.lastAck
           dups == IF acked # {} THEN 0
                   ELSE IF p.ack = s.lastAck /\ rest # <<>> /\ s.dups < DupAcks
                        THEN s.dups + 1 ELSE s.dups
<1>1. s.unacked \in Seq(ChunkType)
  BY DEF StateType
<1>2. Len(s.unacked) \in Nat /\ DOMAIN s.unacked = 1..Len(s.unacked)
  BY <1>1
<1>3. Cardinality(acked) \in Nat
  <2>1. IsFiniteSet(1..Len(s.unacked))
    BY <1>2, FS_Interval
  <2>2. acked \subseteq 1..Len(s.unacked)
    BY <1>2
  <2> HIDE DEF acked
  <2> QED
    BY <2>1, <2>2, FS_Subset, FS_CardinalityType
<1>4. Acknowledge(s, p) = [s EXCEPT !.remoteWnd = p.wnd, !.unacked = rest,
                                    !.lastAck = last, !.dups = dups]
  BY DEF Acknowledge
<1>5. last \in Nat /\ dups \in Nat /\ p.wnd \in Int
  <2> HIDE DEF acked, rest
  <2> QED
    BY DEF StateType, PacketType
<1> HIDE DEF acked
<1>6. \A S : s.unacked \in Seq(S) => rest \in Seq(S)
  BY <1>3, Suffixes
<1>7. rest \in Seq(ChunkType)
  BY <1>1, <1>6
<1> HIDE DEF rest, last, dups
<1>8. Acknowledge(s, p) \in StateType
  BY <1>4, <1>5, <1>7 DEF StateType
<1>9. SameStream(s, Acknowledge(s, p)) /\ Acknowledge(s, p).unacked = rest
  BY <1>4 DEF StateType, SameStream
<1> QED
  BY <1>6, <1>8, <1>9

\* The packets held that follow number x: n of them, and then a gap.
Follow(held, x, n) ==
    /\ \A i \in 1..n : \E o \in held : o.seq = (x + i) % SeqMod
    /\ ~\E o \in held : o.seq = (x + n + 1) % SeqMod

\* There is such an n, no greater than the number held, and it stays below
\* the highest number held.
LEMMA HeldRun ==
    ASSUME SeqMod \in Nat, NEW u \in Nat, 2 * u + 1 < SeqMod,
           NEW x \in Nat, x <= u,
           NEW held \in SUBSET ChunkType, IsFiniteSet(held),
           \A o \in held : o.seq <= u
    PROVE  /\ \E n \in 0..Cardinality(held) : Follow(held, x, n)
           /\ \A n \in Nat : Follow(held, x, n) => x + n <= u
<1> DEFINE gaps == {n \in Nat : ~\E o \in held : o.seq = x + n + 1}
<1>1. u \in gaps
  BY DEF ChunkType
<1>2. PICK m \in gaps : \A k \in gaps : m <= k
  BY <1>1, LeastNatural
<1>3. m \in Nat /\ m <= u
  BY <1>1, <1>2
<1>4. \A i \in 1..(m + 1) : (x + i) % SeqMod = x + i
  <2> TAKE i \in 1..(m + 1)
  <2>1. x + i \in Nat /\ x + i < SeqMod
    BY <1>3
  <2> QED
    BY <2>1, NoWrap
<1>5. \A i \in 1..m : \E o \in held : o.seq = x + i
  <2> TAKE i \in 1..m
  <2>1. i - 1 \in Nat /\ i - 1 < m
    BY <1>3
  <2>2. i - 1 \notin gaps
    BY <1>2, <1>3, <2>1
  <2>3. \E o \in held : o.seq = x + (i - 1) + 1
    BY <2>1, <2>2
  <2>4. x + (i - 1) + 1 = x + i
    BY <1>3
  <2> QED
    BY <2>3, <2>4
<1>6. Follow(held, x, m)
  <2>1. \A i \in 1..m : \E o \in held : o.seq = (x + i) % SeqMod
    BY <1>3, <1>4, <1>5
  <2>2. (x + m + 1) % SeqMod = x + m + 1
    BY <1>3, NoWrap
  <2>3. ~\E o \in held : o.seq = x + m + 1
    BY <1>2
  <2> QED
    BY <2>1, <2>2, <2>3 DEF Follow
<1>7. x + m <= u
  <2>1. CASE m = 0
    BY <2>1
  <2>2. CASE m > 0
    BY <1>3, <1>5, <2>2
  <2> QED
    BY <1>3, <2>1, <2>2
<1>8. m <= Cardinality(held)
  <2> DEFINE at == [i \in 1..m |-> CHOOSE o \in held : o.seq = x + i]
  <2>1. \A i \in 1..m : at[i] \in held /\ at[i].seq = x + i
    BY <1>5
  <2>2. at \in [1..m -> held]
    BY <2>1
  <2>3. \A i, j \in 1..m : at[i] = at[j] => i = j
    <3> SUFFICES ASSUME NEW i \in 1..m, NEW j \in 1..m, at[i] = at[j] PROVE i = j
      OBVIOUS
    <3>1. x + i = x + j
      BY <2>1
    <3> HIDE DEF at
    <3> QED
      BY <1>3, <3>1
  <2> HIDE DEF at
  <2>4. at \in Injection(1..m, held)
    BY <2>2, <2>3 DEF Injection, IsInjective
  <2>5. Cardinality(1..m) = m
    BY <1>3, FS_Interval
  <2> QED
    BY <2>4, <2>5, FS_Injection
<1>9. \E n \in 0..Cardinality(held) : Follow(held, x, n)
  <2>1. Cardinality(held) \in Nat
    BY FS_CardinalityType
  <2> QED
    BY <1>3, <1>6, <1>8, <2>1
<1>10. ASSUME NEW n \in Nat, Follow(held, x, n) PROVE n <= m
  <2> SUFFICES ASSUME n > m PROVE FALSE
    BY <1>3
  <2>1. m + 1 \in 1..n
    BY <1>3
  <2>2. \E o \in held : o.seq = (x + (m + 1)) % SeqMod
    BY <1>10, <2>1 DEF Follow
  <2>3. x + (m + 1) = x + m + 1
    BY <1>3
  <2> QED
    BY <1>6, <2>2, <2>3 DEF Follow
<1> QED
  BY <1>3, <1>7, <1>9, <1>10

\* What end e knows of the numbers of the other end's chunks.
LEMMA Numbers ==
    ASSUME Shape, NumbersFit, NEW e \in Ends
    PROVE  /\ SeqMod \in Nat /\ sent[e] \in Nat /\ First(e) \in 1..2
           /\ 2 * (First(e) + sent[e]) + 1 < SeqMod
           /\ \A o \in Written(e) : /\ o.payload \in Nat /\ o.payload >= 1
                                    /\ o.payload <= sent[e]
                                    /\ o.seq = First(e) + o.payload - 1
<1>1. SeqMod \in Nat /\ sent[e] \in Nat /\ todo[e] \in Nat
  BY Sizes DEF Shape
<1>2. First(e) \in 1..2
  BY DEF First
<1>3. 2 * (sent[e] + todo[e] + 3) <= SeqMod
  BY DEF NumbersFit
<1>4. 2 * (First(e) + sent[e]) + 1 < SeqMod
  BY <1>1, <1>2, <1>3
<1>5. \A o \in Written(e) : o.payload \in 1..sent[e] /\ o.seq = First(e) + o.payload - 1
  BY DEF Written
<1> QED
  BY <1>1, <1>2, <1>4, <1>5

\* The chunks of that run, in the order of their numbers.
Run(held, x, n) ==
    [i \in 1..n |-> (CHOOSE o \in held : o.seq = (x + i) % SeqMod).payload]

\* What is held was written by an end that has written w chunks, the first of
\* them under the number b.
Held(held, b, w) ==
    /\ held \in SUBSET ChunkType /\ IsFiniteSet(held)
    /\ \A o \in held : o.payload >= 1 /\ o.payload <= w /\ o.seq = b + o.payload - 1

Fits(b, w) == SeqMod \in Nat /\ b \in 1..2 /\ w \in Nat /\ 2 * (b + w) + 1 < SeqMod

\* Number x is the number of chunk c.
Chunk(b, w, x, c) == c \in Nat /\ c >= 1 /\ c <= w /\ x = b + c - 1

\* The sequence r is the n chunks after chunk c, whose number is x.
Continues(w, x, c, n, r) ==
    /\ n \in Nat /\ c + n <= w /\ (x + n + 1) % SeqMod = x + n + 1
    /\ r \in Seq(Nat) /\ Len(r) = n
    /\ \A i \in 1..n : r[i] = c + i

\* The run behind chunk c of a writer that has written w chunks, the first
\* under the number b, is c + 1, c + 2, ...
LEMMA RunInOrder ==
    ASSUME NEW b, NEW w, Fits(b, w), NEW held, Held(held, b, w),
           NEW x, NEW c, Chunk(b, w, x, c),
           NEW n \in 0..Cardinality(held), Follow(held, x, n)
    PROVE  Continues(w, x, c, n, Run(held, x, n))
<1> USE DEF Fits, Chunk
<1>1. n \in Nat /\ held \in SUBSET ChunkType /\ IsFiniteSet(held)
  BY FS_CardinalityType DEF Held
<1>2. \A o \in held : /\ o.seq \in Nat /\ o.payload \in Nat /\ o.seq <= b + w - 1
                      /\ o.seq = b + o.payload - 1
  BY DEF ChunkType, Held
<1>3. x + n <= b + w - 1
  <2>1. b + w - 1 \in Nat /\ 2 * (b + w - 1) + 1 < SeqMod /\ x <= b + w - 1
    OBVIOUS
  <2> QED
    BY <1>1, <1>2, <2>1, HeldRun
<1>4. (x + n + 1) % SeqMod = x + n + 1
  BY <1>1, <1>3, NoWrap
<1>5. \A i \in 1..n : Run(held, x, n)[i] = c + i
  <2> TAKE i \in 1..n
  <2> DEFINE o == CHOOSE q \in held : q.seq = (x + i) % SeqMod
  <2>1. \E q \in held : q.seq = (x + i) % SeqMod
    BY DEF Follow
  <2>2. o \in held /\ o.seq = (x + i) % SeqMod
    BY <2>1
  <2>3. Run(held, x, n)[i] = o.payload
    BY DEF Run
  <2> HIDE DEF o
  <2>4. x + i \in Nat /\ x + i < SeqMod
    BY <1>1, <1>3
  <2>5. o.seq = x + i
    BY <2>2, <2>4, NoWrap
  <2>6. o.payload \in Nat /\ o.seq = b + o.payload - 1
    BY <1>2, <2>2
  <2> QED
    BY <1>1, <2>3, <2>5, <2>6
<1>6. Run(held, x, n) \in Seq(Nat) /\ Len(Run(held, x, n)) = n
  <2>1. DOMAIN Run(held, x, n) = 1..n /\ Run(held, x, n) = [i \in 1..n |-> Run(held, x, n)[i]]
    BY DEF Run
  <2>2. \A i \in 1..n : Run(held, x, n)[i] \in Nat
    BY <1>1, <1>5
  <2>3. Run(held, x, n) \in [1..n -> Nat]
    BY <2>1, <2>2
  <2> QED
    BY <1>1, <2>3
<1> QED
  BY <1>1, <1>3, <1>4, <1>5, <1>6 DEF Continues

LEMMA RunExists ==
    ASSUME NEW b, NEW w, Fits(b, w), NEW held, Held(held, b, w),
           NEW x, NEW c, Chunk(b, w, x, c)
    PROVE  \E n \in 0..Cardinality(held) : Follow(held, x, n)
<1> DEFINE u == b + w - 1
<1>1. SeqMod \in Nat /\ u \in Nat /\ 2 * u + 1 < SeqMod /\ x \in Nat /\ x <= u
  BY DEF Fits, Chunk
<1>2. held \in SUBSET ChunkType /\ IsFiniteSet(held)
  BY DEF Held
<1>3. \A o \in held : o.seq <= u
  BY DEF Fits, Held, ChunkType
<1> HIDE DEF u
<1> QED
  BY <1>1, <1>2, <1>3, HeldRun

LEMMA Concatenation ==
    ASSUME NEW q \in Seq(Nat), NEW r \in Seq(Nat)
    PROVE  /\ q \o r \in Seq(Nat) /\ Len(q \o r) = Len(q) + Len(r)
           /\ \A i \in 1..Len(q) : (q \o r)[i] = q[i]
           /\ \A i \in 1..Len(r) : (q \o r)[Len(q) + i] = r[i]
  OBVIOUS

\* A buffer that holds the chunks after g, continued by the chunks that
\* follow, still holds the chunks after g.
LEMMA BufferGrows ==
    ASSUME NEW g \in Nat, NEW q \in Seq(Nat), \A i \in 1..Len(q) : q[i] = g + i,
           NEW r \in Seq(Nat), \A i \in 1..Len(r) : r[i] = g + Len(q) + i
    PROVE  /\ q \o r \in Seq(Nat) /\ Len(q \o r) = Len(q) + Len(r)
           /\ \A i \in 1..Len(q \o r) : (q \o r)[i] = g + i
<1> DEFINE l == Len(q)
           m == Len(r)
           buf == q \o r
<1>1. l \in Nat /\ m \in Nat
  OBVIOUS
<1>2. /\ buf \in Seq(Nat) /\ Len(buf) = l + m
      /\ \A i \in 1..l : buf[i] = q[i]
      /\ \A i \in 1..m : buf[l + i] = r[i]
  BY Concatenation
<1>3. \A i \in 1..l : q[i] = g + i
  OBVIOUS
<1>4. \A i \in 1..m : r[i] = g + l + i
  OBVIOUS
<1>5. ASSUME NEW i \in 1..(l + m) PROVE buf[i] = g + i
  <2> HIDE DEF l, m, buf
  <2>1. CASE i <= l
    <3>1. i \in 1..l
      BY <1>1, <2>1
    <3> QED
      BY <1>2, <1>3, <3>1
  <2>2. CASE i > l
    <3>1. i - l \in 1..m /\ l + (i - l) = i
      BY <1>1, <2>2
    <3>2. buf[l + (i - l)] = r[i - l] /\ r[i - l] = g + l + (i - l)
      BY <1>2, <1>4, <3>1
    <3> QED
      BY <1>1, <3>1, <3>2
  <2> QED
    BY <1>1, <2>1, <2>2
<1> QED
  BY <1>2, <1>5

\* What one end's reading side knows, in numbers.
LEMMA ReadingSide ==
    ASSUME Shape, NumbersFit, NEW e \in Ends, NEW s \in StateType, Receiving(e, s)
    PROVE  /\ Len(got[e]) \in Nat /\ s.recvBuf \in Seq(Nat) /\ Len(s.recvBuf) \in Nat
           /\ Held(s.outOfOrder, First(Other(e)), sent[Other(e)])
<1>1. got[e] \in Seq(Nat)
  BY DEF Shape
<1>2. s.recvBuf \in Seq(Nat)
  BY DEF StateType
<1>3. s.outOfOrder \subseteq Written(Other(e)) /\ IsFiniteSet(s.outOfOrder)
  BY DEF Receiving
<1>4. s.outOfOrder \in SUBSET ChunkType
  BY <1>3 DEF Written
<1>5. \A o \in s.outOfOrder : /\ o.payload >= 1 /\ o.payload <= sent[Other(e)]
                              /\ o.seq = First(Other(e)) + o.payload - 1
  BY <1>3, Numbers, Others
<1> QED
  BY <1>1, <1>2, <1>3, <1>4, <1>5 DEF Held

\* What a data packet from the other end carries.
LEMMA ChunkArrives ==
    ASSUME Shape, NumbersFit, NEW e \in Ends, NEW p,
           [seq |-> p.seq, payload |-> p.payload] \in Written(Other(e))
    PROVE  /\ Fits(First(Other(e)), sent[Other(e)])
           /\ Chunk(First(Other(e)), sent[Other(e)], p.seq, p.payload)
<1>1. Other(e) \in Ends
  BY Others
<1> DEFINE o == [seq |-> p.seq, payload |-> p.payload]
<1>2. o.seq = p.seq /\ o.payload = p.payload
  OBVIOUS
<1> HIDE DEF o
<1>3. o \in Written(Other(e))
  BY DEF o
<1> QED
  BY <1>1, <1>2, <1>3, Numbers DEF Fits, Chunk

\* The chunk that was expected goes to the reader with the run behind it.
LEMMA ExpectedArrives ==
    ASSUME Shape, NumbersFit, NEW e \in Ends, NEW s \in StateType,
           Receiving(e, s), s.expected # 0, NEW p \in PacketType,
           [seq |-> p.seq, payload |-> p.payload] \in Written(Other(e)),
           p.seq = s.expected,
           NEW n \in 0..Cardinality(s.outOfOrder), Follow(s.outOfOrder, p.seq, n)
    PROVE  LET buf == s.recvBuf \o <<p.payload>> \o Run(s.outOfOrder, p.seq, n)
           IN  /\ buf \in Seq(Nat)
               /\ \A i \in 1..Len(buf) : buf[i] = Len(got[e]) + i
               /\ Len(got[e]) + Len(buf) <= sent[Other(e)]
               /\ (p.seq + n + 1) % SeqMod
                     = First(Other(e)) + Len(got[e]) + Len(buf)
<1> DEFINE b == First(Other(e))
           w == sent[Other(e)]
           g == Len(got[e])
           q == s.recvBuf
           held == s.outOfOrder
           c == p.payload
           r == Run(held, p.seq, n)
           head == q \o <<c>>
<1>1. /\ SeqMod \in Nat /\ b \in 1..2 /\ w \in Nat /\ 2 * (b + w) + 1 < SeqMod
      /\ c \in Nat /\ c >= 1 /\ c <= w /\ p.seq = b + c - 1
  BY ChunkArrives DEF Fits, Chunk
<1>2. /\ g \in Nat /\ q \in Seq(Nat) /\ Len(q) \in Nat
      /\ Held(held, b, w)
  BY ReadingSide
<1>3. /\ \A i \in 1..Len(q) : q[i] = g + i
      /\ s.expected = b + g + Len(q)
  BY DEF Receiving
<1>4. p.seq = b + g + Len(q) /\ n \in 0..Cardinality(held) /\ Follow(held, p.seq, n)
  BY <1>3
<1> HIDE DEF b, w, g, q, held, c
<1>5. c = g + Len(q) + 1 /\ p.seq \in Nat
  BY <1>1, <1>2, <1>4
<1>6. /\ n \in Nat /\ c + n <= w /\ (p.seq + n + 1) % SeqMod = p.seq + n + 1
      /\ r \in Seq(Nat) /\ Len(r) = n
      /\ \A i \in 1..n : r[i] = c + i
  <2>1. Fits(b, w) /\ Chunk(b, w, p.seq, c)
    BY <1>1 DEF Fits, Chunk
  <2>2. Continues(w, p.seq, c, n, r)
    BY <1>2, <1>4, <2>1, RunInOrder
  <2> HIDE DEF r
  <2> QED
    BY <2>2 DEF Continues
<1> HIDE DEF r
<1>7. /\ head \in Seq(Nat) /\ Len(head) = Len(q) + 1
      /\ \A i \in 1..Len(head) : head[i] = g + i
  <2>1. <<c>> \in Seq(Nat) /\ Len(<<c>>) = 1 /\ \A i \in 1..1 : <<c>>[i] = g + Len(q) + i
    BY <1>1, <1>5
  <2> HIDE DEF head
  <2>2. head = q \o <<c>>
    BY DEF head
  <2> QED
    BY <1>2, <1>3, <2>1, <2>2, BufferGrows, ZenonT(60)
<1> HIDE DEF head
<1>8. \A i \in 1..Len(r) : r[i] = g + Len(head) + i
  BY <1>2, <1>5, <1>6, <1>7
<1>9. /\ head \o r \in Seq(Nat) /\ Len(head \o r) = Len(head) + Len(r)
      /\ \A i \in 1..Len(head \o r) : (head \o r)[i] = g + i
  BY <1>2, <1>6, <1>7, <1>8, BufferGrows, ZenonT(60)
<1>10. /\ g + Len(head \o r) <= w
       /\ (p.seq + n + 1) % SeqMod = b + g + Len(head \o r)
  BY <1>1, <1>2, <1>4, <1>5, <1>6, <1>7, <1>9
<1> QED
  BY <1>9, <1>10 DEF b, w, g, q, held, c, r, head

\* The fields of a stream state that say what was written.
SameSending(s, t) ==
    t.seq = s.seq /\ t.unacked = s.unacked /\ t.writeClosed = s.writeClosed

\* A stream state in which the buffer, the number expected and the packets
\* held out of order are new.
WithReading(s, buf, x, held, a) ==
    [[s EXCEPT !.recvBuf = buf, !.expected = x, !.outOfOrder = held] EXCEPT !.ack = a]
WithHeld(s, held, a) == [[s EXCEPT !.outOfOrder = held] EXCEPT !.ack = a]
WithAck(s, a) == [s EXCEPT !.ack = a]

LEMMA NewReading ==
    ASSUME NEW s \in StateType, NEW buf \in Seq(Nat), NEW x \in Nat,
           NEW held \in SUBSET ChunkType, NEW a \in Nat, NEW t,
           t = WithReading(s, buf, x, held, a)
    PROVE  /\ t \in StateType /\ SameSending(s, t)
           /\ t.recvBuf = buf /\ t.expected = x /\ t.outOfOrder = held
  BY DEF StateType, SameSending, WithReading

LEMMA NewHeld ==
    ASSUME NEW s \in StateType, NEW held \in SUBSET ChunkType, NEW a \in Nat,
           NEW t, t = WithHeld(s, held, a)
    PROVE  /\ t \in StateType /\ SameSending(s, t)
           /\ t.recvBuf = s.recvBuf /\ t.expected = s.expected /\ t.outOfOrder = held
  BY DEF StateType, SameSending, WithHeld

LEMMA NewAck ==
    ASSUME NEW s \in StateType, NEW a \in Nat, NEW t, t = WithAck(s, a)
    PROVE  /\ t \in StateType /\ SameSending(s, t)
           /\ t.recvBuf = s.recvBuf /\ t.expected = s.expected
           /\ t.outOfOrder = s.outOfOrder
  BY DEF StateType, SameSending, WithAck

\* A chunk of the other end that arrives leaves the reading side in order,
\* whether it is expected, early or old.
LEMMA TakeDataShape ==
    ASSUME Shape, NumbersFit, NEW e \in Ends, NEW s \in StateType,
           Receiving(e, s), s.expected # 0, NEW p \in PacketType,
           [seq |-> p.seq, payload |-> p.payload] \in Written(Other(e))
    PROVE  /\ TakeData(s, p) \in StateType
           /\ SameSending(s, TakeData(s, p))
           /\ Receiving(e, TakeData(s, p)) /\ TakeData(s, p).expected # 0
<1> DEFINE held == s.outOfOrder
           n == CHOOSE k \in 0..Cardinality(held) : Follow(held, p.seq, k)
           buf == s.recvBuf \o <<p.payload>> \o Run(held, p.seq, n)
           x == (p.seq + n + 1) % SeqMod
           left == {o \in held : Sub(o.seq, p.seq) > n}
           more == {o \in held : o.seq # p.seq}
                      \cup {[seq |-> p.seq, payload |-> p.payload]}
           t1 == [s EXCEPT !.recvBuf = buf, !.expected = x, !.outOfOrder = left]
           t2 == [s EXCEPT !.outOfOrder = more]
           r == IF p.seq = s.expected THEN t1
                ELSE IF Positive(Sub(p.seq, s.expected)) THEN t2 ELSE s
           t == TakeData(s, p)
<1>1. t = [r EXCEPT !.ack = Sub(r.expected, 1)]
  BY DEF TakeData, Follow, Run
<1>2. /\ held \subseteq Written(Other(e)) /\ IsFiniteSet(held)
      /\ \A i \in 1..Len(s.recvBuf) : s.recvBuf[i] = Len(got[e]) + i
      /\ Len(got[e]) + Len(s.recvBuf) <= sent[Other(e)]
      /\ s.expected = First(Other(e)) + Len(got[e]) + Len(s.recvBuf)
  BY DEF Receiving
<1>3. /\ SeqMod \in Nat /\ SeqMod > 0 /\ s.expected \in Nat
      /\ held \in SUBSET ChunkType
  <2>1. s.expected \in Nat /\ held \in SUBSET ChunkType
    BY DEF StateType
  <2>2. SeqMod \in Nat /\ sent[e] \in Nat /\ First(e) \in 1..2 /\ 2 * (First(e) + sent[e]) + 1 < SeqMod
    BY Numbers
  <2> QED
    BY <2>1, <2>2
<1>4. CASE p.seq = s.expected
  <2>1. n \in 0..Cardinality(held) /\ Follow(held, p.seq, n)
    <3> DEFINE b == First(Other(e))
               w == sent[Other(e)]
    <3>1. Fits(b, w) /\ Held(held, b, w) /\ Chunk(b, w, p.seq, p.payload)
      BY ReadingSide, ChunkArrives
    <3> HIDE DEF b, w
    <3>2. \E k \in 0..Cardinality(held) : Follow(held, p.seq, k)
      BY <3>1, RunExists
    <3> HIDE DEF held
    <3> QED
      BY <3>2
  <2>2. /\ buf \in Seq(Nat)
        /\ \A i \in 1..Len(buf) : buf[i] = Len(got[e]) + i
        /\ Len(got[e]) + Len(buf) <= sent[Other(e)]
        /\ x = First(Other(e)) + Len(got[e]) + Len(buf)
    <3> HIDE DEF n
    <3> QED
      BY <1>4, <2>1, ExpectedArrives
  <2>3. left \subseteq held /\ IsFiniteSet(left)
    BY <1>2, FS_Subset
  <2>4. x \in Nat /\ x # 0
    <3> HIDE DEF x, buf
    <3>1. First(Other(e)) \in 1..2
      BY DEF First
    <3>2. Len(got[e]) \in Nat
      BY ReadingSide
    <3>3. Len(buf) \in Nat
      BY <2>2
    <3> QED
      BY <2>2, <3>1, <3>2, <3>3
  <2> HIDE DEF x, buf, left
  <2>5. t1.expected = x /\ Sub(x, 1) \in Nat
    BY <1>3, <2>4, SubType DEF StateType
  <2>6. t = WithReading(s, buf, x, left, Sub(x, 1))
    <3>1. r = t1
      BY <1>4
    <3> HIDE DEF r, t1
    <3>2. t = [t1 EXCEPT !.ack = Sub(x, 1)]
      BY <1>1, <2>5, <3>1
    <3> QED
      BY <3>2 DEF WithReading, t1
  <2> HIDE DEF t
  <2>7. /\ t \in StateType /\ SameSending(s, t)
        /\ t.recvBuf = buf /\ t.expected = x /\ t.outOfOrder = left
    <3>1. buf \in Seq(Nat) /\ left \in SUBSET ChunkType
      BY <1>3, <2>2, <2>3
    <3> QED
      BY <2>4, <2>5, <2>6, <3>1, NewReading
  <2>8. Receiving(e, t)
    BY <1>2, <2>2, <2>3, <2>7 DEF Receiving
  <2> QED
    BY <2>4, <2>7, <2>8 DEF t
<1>5. CASE p.seq # s.expected /\ Positive(Sub(p.seq, s.expected))
  <2>1. more \subseteq Written(Other(e)) /\ IsFiniteSet(more)
    BY <1>2, FS_Subset, FS_AddElement
  <2>2. more \in SUBSET ChunkType
    BY <2>1 DEF Written
  <2> HIDE DEF more
  <2>3. t2.expected = s.expected /\ Sub(s.expected, 1) \in Nat
    BY <1>3, SubType DEF StateType
  <2>4. t = WithHeld(s, more, Sub(s.expected, 1))
    <3>1. r = t2
      BY <1>5
    <3> HIDE DEF r, t2
    <3>2. t = [t2 EXCEPT !.ack = Sub(s.expected, 1)]
      BY <1>1, <2>3, <3>1
    <3> QED
      BY <3>2 DEF WithHeld, t2
  <2> HIDE DEF t
  <2>5. /\ t \in StateType /\ SameSending(s, t)
        /\ t.recvBuf = s.recvBuf /\ t.expected = s.expected /\ t.outOfOrder = more
    BY <2>2, <2>3, <2>4, NewHeld
  <2>6. Receiving(e, t)
    BY <1>2, <2>1, <2>5 DEF Receiving
  <2> QED
    BY <2>5, <2>6 DEF t
<1>6. CASE p.seq # s.expected /\ ~Positive(Sub(p.seq, s.expected))
  <2>1. Sub(s.expected, 1) \in Nat /\ t = WithAck(s, Sub(s.expected, 1))
    BY <1>1, <1>3, <1>6, SubType DEF WithAck
  <2> HIDE DEF t
  <2>2. /\ t \in StateType /\ SameSending(s, t)
        /\ t.recvBuf = s.recvBuf /\ t.expected = s.expected /\ t.outOfOrder = s.outOfOrder
    BY <2>1, NewAck
  <2>3. Receiving(e, t)
    BY <2>2 DEF Receiving
  <2> QED
    BY <2>2, <2>3 DEF t
<1> QED
  BY <1>4, <1>5, <1>6

----------------------------------------------------------------------------
(* What the steps do to a stream state and which packets they send.        *)

Good(e, s) == s \in StateType /\ Sending(e, s) /\ Receiving(e, s)

Advertise(s) == [s EXCEPT !.advertised = Window(s)]
WithFast(s, x) == [s EXCEPT !.fast = x]

\* A step that leaves these fields alone keeps a stream state good.
LEMMA SameIsGood ==
    ASSUME NEW e \in Ends, NEW s, Good(e, s), NEW t \in StateType, SameStream(s, t),
           t.unacked \in Seq(Written(e))
    PROVE  Good(e, t)
<1>1. Sending(e, t)
  BY DEF Good, Sending, SameStream
<1>2. Receiving(e, t)
  BY DEF Good, Receiving, SameStream
<1> QED
  BY <1>1, <1>2 DEF Good

LEMMA AdvertiseFields ==
    ASSUME NEW s \in StateType
    PROVE  /\ Advertise(s) \in StateType /\ SameStream(s, Advertise(s))
           /\ Advertise(s).unacked = s.unacked
<1> DEFINE w == Window(s)
<1>1. w \in Int
  BY Sizes DEF StateType, Window
<1>2. Advertise(s) = [s EXCEPT !.advertised = w]
  BY DEF Advertise
<1> HIDE DEF w
<1> QED
  BY <1>1, <1>2 DEF StateType, SameStream

LEMMA AdvertiseIsGood ==
    ASSUME NEW e \in Ends, NEW s, Good(e, s)
    PROVE  Good(e, Advertise(s)) /\ Advertise(s).expected = s.expected
<1>1. s \in StateType /\ s.unacked \in Seq(Written(e))
  BY DEF Good, Sending
<1>2. /\ Advertise(s) \in StateType /\ SameStream(s, Advertise(s))
      /\ Advertise(s).unacked = s.unacked
  BY <1>1, AdvertiseFields
<1> QED
  BY <1>1, <1>2, SameIsGood DEF SameStream

LEMMA AcknowledgeIsGood ==
    ASSUME NEW e \in Ends, NEW s, Good(e, s), NEW p \in PacketType
    PROVE  Good(e, Acknowledge(s, p)) /\ Acknowledge(s, p).expected = s.expected
<1>1. s \in StateType /\ s.unacked \in Seq(Written(e))
  BY DEF Good, Sending
<1>2. /\ Acknowledge(s, p) \in StateType /\ SameStream(s, Acknowledge(s, p))
      /\ Acknowledge(s, p).unacked \in Seq(Written(e))
  BY <1>1, AcknowledgeShape
<1> QED
  BY <1>1, <1>2, SameIsGood DEF SameStream

\* The oldest chunk kept for resending was written.
LEMMA OldestWasWritten ==
    ASSUME NEW e \in Ends, NEW s, Good(e, s), s.unacked # <<>>
    PROVE  Head(s.unacked) \in Written(e) /\ Head(s.unacked).seq \in Nat
<1>1. s.unacked \in Seq(Written(e))
  BY DEF Good, Sending
<1>2. Head(s.unacked) \in Written(e)
  BY <1>1
<1> QED
  BY <1>2 DEF Written, ChunkType

LEMMA FastFields ==
    ASSUME NEW s \in StateType, NEW x \in Nat
    PROVE  /\ WithFast(s, x) \in StateType /\ SameStream(s, WithFast(s, x))
           /\ WithFast(s, x).unacked = s.unacked
  BY DEF StateType, SameStream, WithFast

LEMMA FastIsGood ==
    ASSUME NEW e \in Ends, NEW s, Good(e, s), NEW x \in Nat
    PROVE  Good(e, WithFast(s, x)) /\ WithFast(s, x).expected = s.expected
<1>1. s \in StateType /\ s.unacked \in Seq(Written(e))
  BY DEF Good, Sending
<1>2. /\ WithFast(s, x) \in StateType /\ SameStream(s, WithFast(s, x))
      /\ WithFast(s, x).unacked = s.unacked
  BY <1>1, FastFields
<1> QED
  BY <1>1, <1>2, SameIsGood DEF SameStream

LEMMA FinFields ==
    ASSUME NEW s \in StateType, NEW p \in PacketType
    PROVE  LET t == TakeFin(s, p)
           IN  /\ t \in StateType /\ SameSending(s, t)
               /\ t.recvBuf = s.recvBuf /\ t.expected = s.expected
               /\ t.outOfOrder = s.outOfOrder
<1>1. p.seq \in Nat
  BY DEF PacketType
<1> QED
  BY <1>1 DEF StateType, SameSending, TakeFin

LEMMA FinIsGood ==
    ASSUME NEW e \in Ends, NEW s, Good(e, s), NEW p \in PacketType
    PROVE  Good(e, TakeFin(s, p)) /\ TakeFin(s, p).expected = s.expected
<1> DEFINE t == TakeFin(s, p)
<1>1. s \in StateType
  BY DEF Good
<1>2. /\ t \in StateType /\ SameSending(s, t)
      /\ t.recvBuf = s.recvBuf /\ t.expected = s.expected
      /\ t.outOfOrder = s.outOfOrder
  BY <1>1, FinFields
<1> HIDE DEF t
<1>3. Sending(e, t)
  BY <1>2 DEF Good, Sending, SameSending
<1>4. Receiving(e, t)
  BY <1>2 DEF Good, Receiving
<1> QED
  BY <1>2, <1>3, <1>4 DEF Good, t

LEMMA DataIsGood ==
    ASSUME Shape, NumbersFit, NEW e \in Ends, NEW s, Good(e, s), s.expected # 0,
           NEW p \in PacketType,
           [seq |-> p.seq, payload |-> p.payload] \in Written(Other(e))
    PROVE  Good(e, TakeData(s, p)) /\ TakeData(s, p).expected # 0
<1> DEFINE t == TakeData(s, p)
<1>1. s \in StateType /\ Receiving(e, s)
  BY DEF Good
<1>2. t \in StateType /\ SameSending(s, t) /\ Receiving(e, t) /\ t.expected # 0
  BY <1>1, TakeDataShape
<1> HIDE DEF t
<1>3. Sending(e, t)
  BY <1>2 DEF Good, Sending, SameSending
<1> QED
  BY <1>2, <1>3 DEF Good, t

\* The packets: what is acknowledged and what is sent again.
LEMMA SackType ==
    ASSUME NEW s, IsFiniteSet(s.outOfOrder)
    PROVE  SelectiveAck(s) \in Nat
<1> DEFINE T == {o \in s.outOfOrder : Sub(o.seq, s.ack) >= 2
                                      /\ Positive(Sub(o.seq, s.ack))}
<1>2. T \in SUBSET s.outOfOrder
  OBVIOUS
<1> HIDE DEF T
<1>3. Cardinality(T) \in Nat
  BY <1>2, FS_Subset, FS_CardinalityType
<1> QED
  BY <1>3 DEF SelectiveAck, T

LEMMA AckPacketShape ==
    ASSUME NEW e \in Ends, NEW s \in StateType, NEW sack \in Nat
    PROVE  /\ AckPacket(e, s, sack) \in PacketType
           /\ AckPacket(e, s, sack).to = Other(e)
           /\ AckPacket(e, s, sack).type = "STATE"
<1>1. Other(e) \in Ends /\ Window(s) \in Int /\ s.seq \in Nat /\ s.ack \in Nat
  BY Others, Sizes DEF StateType, Window
<1> QED
  BY <1>1 DEF AckPacket, Packet, PacketType, Types, NoPayload

LEMMA DataPacketShape ==
    ASSUME NEW e \in Ends, NEW s \in StateType, NEW o \in ChunkType
    PROVE  LET p == DataPacket(e, s, o)
           IN  /\ p \in PacketType /\ p.to = Other(e) /\ p.type = "DATA"
               /\ [seq |-> p.seq, payload |-> p.payload] = o
<1>1. Other(e) \in Ends /\ Window(s) \in Int /\ s.ack \in Nat
  BY Others, Sizes DEF StateType, Window
<1>2. o = [seq |-> o.seq, payload |-> o.payload] /\ o.seq \in Nat /\ o.payload \in Nat
  BY DEF ChunkType
<1> QED
  BY <1>1, <1>2 DEF DataPacket, Packet, PacketType, Types

----------------------------------------------------------------------------
(* What is common to the steps.                                            *)

\* A packet that may join what is in transit.
Fresh(q) ==
    /\ q \in PacketType /\ q.type # "SYN"
    /\ q.type = "DATA" => [seq |-> q.seq, payload |-> q.payload] \in Written(Other(q.to))
    /\ ~Made("a") => q.to = "a" /\ (q.type = "STATE" => q.seq = 1)

\* The state of one end changes, nothing is written or read.
LEMMA OneEnd ==
    ASSUME Shape, NumbersFit, StreamsOK, UNCHANGED <<todo, sent, got>>,
           NEW e \in Ends, NEW s, Good(e, s), st' = [st EXCEPT ![e] = s]
    PROVE  /\ st' \in [Ends -> StateType] /\ NumbersFit' /\ StreamsOK'
           /\ st'[e] = s /\ \A f \in Ends \ {e} : st'[f] = st[f]
<1>1. st \in [Ends -> StateType] /\ s \in StateType
  BY DEF Shape, Good
<1>2. /\ st' \in [Ends -> StateType]
      /\ st'[e] = s /\ \A f \in Ends \ {e} : st'[f] = st[f]
  BY <1>1
<1>3. NumbersFit'
  BY DEF NumbersFit
<1>4. \A f \in Ends : Written(f)' = Written(f)
  BY DEF Written
<1>5. \A f \in Ends : Other(f) \in Ends /\ Other(f)' = Other(f) /\ First(f)' = First(f)
  BY Others DEF Other, First
<1>6. ASSUME NEW f \in Ends
      PROVE  /\ (Sending(f, st[f]))' /\ (Receiving(f, st[f]))'
  <2>1. Sending(f, st'[f]) /\ Receiving(f, st'[f])
    <3>1. CASE f = e
      <4>1. Sending(e, s) /\ Receiving(e, s)
        BY DEF Good
      <4> QED
        BY <1>2, <3>1, <4>1
    <3>2. CASE f # e
      <4>1. Sending(f, st[f]) /\ Receiving(f, st[f])
        BY DEF StreamsOK
      <4>2. st'[f] = st[f]
        BY <1>2, <3>2
      <4> QED
        BY <4>1, <4>2
    <3> QED
      BY <3>1, <3>2
  <2>2. (Sending(f, st[f]))'
    BY <1>4, <1>5, <2>1 DEF Sending
  <2>3. (Receiving(f, st[f]))'
    <3>1. Written(Other(f))' = Written(Other(f)) /\ got' = got /\ sent' = sent
      BY <1>4, <1>5
    <3> QED
      BY <1>5, <2>1, <3>1 DEF Receiving
  <2> QED
    BY <2>2, <2>3
<1>7. StreamsOK'
  BY <1>6 DEF StreamsOK
<1> QED
  BY <1>2, <1>3, <1>7

\* Fresh packets join what is in transit, some of which may leave.
LEMMA NetStep ==
    ASSUME Shape, InTransit, NEW Q, \A q \in Q : Fresh(q)', net' \subseteq net \cup Q,
           \A e \in Ends : Written(e) \subseteq Written(e)',
           \A e \in Ends : Made(e)' = Made(e), dial # "idle" => dial' # "idle"
    PROVE  net' \subseteq PacketType /\ InTransit'
<1>1. net \subseteq PacketType
  BY DEF Shape
<1>2. \A q \in Q : q \in PacketType /\ q.type # "SYN"
  BY DEF Fresh
<1>3. net' \subseteq PacketType
  BY <1>1, <1>2
<1>4. Made("a")' = Made("a") /\ Made("b")' = Made("b")
  BY DEF Ends
<1>5. ASSUME NEW p \in net', p.type = "DATA"
      PROVE  [seq |-> p.seq, payload |-> p.payload] \in Written(Other(p.to))'
  <2>1. Other(p.to) \in Ends
    BY <1>3, Others DEF PacketType
  <2>2. CASE p \in net
    <3>1. [seq |-> p.seq, payload |-> p.payload] \in Written(Other(p.to))
      BY <1>5, <2>2 DEF InTransit
    <3> QED
      BY <2>1, <3>1
  <2>3. CASE p \in Q
    BY <1>5, <2>3 DEF Fresh
  <2> QED
    BY <2>2, <2>3
<1>6. \A p \in net' : p.type = "SYN" => p = Syn /\ ~Made("b")' /\ dial' # "idle"
  BY <1>2, <1>4 DEF InTransit
<1>7. ASSUME ~Made("a")', NEW p \in net'
      PROVE  /\ p.to = "b" => p = Syn
             /\ (p.to = "a" /\ p.type = "STATE") => p.seq = 1
  <2>1. CASE p \in net
    BY <1>4, <1>7, <2>1 DEF InTransit
  <2>2. CASE p \in Q
    BY <1>7, <2>2 DEF Fresh
  <2> QED
    BY <2>1, <2>2
<1>8. InTransit'
  BY <1>5, <1>6, <1>7 DEF InTransit
<1> QED
  BY <1>3, <1>8

\* What a step that leaves alone who has a stream keeps of the handshake.
LEMMA SameHands ==
    ASSUME Unmade, UNCHANGED <<sent, got>>, \A e \in Ends : Made(e)' = Made(e),
           \A e \in Ends : ~Made(e) => /\ st'[e].recvBuf = st[e].recvBuf
                                       /\ st'[e].unacked = st[e].unacked
                                       /\ handle'[e] = handle[e] /\ (reg'[e] => reg[e])
    PROVE  Unmade'
  BY DEF Unmade

----------------------------------------------------------------------------
(* Every step keeps the invariant.                                         *)

\* A step that leaves the streams alone and puts nothing in transit.
LEMMA IdleStep ==
    ASSUME UtpInv, UNCHANGED <<st, todo, sent, got>>, net' \subseteq net,
           dial # "idle" => dial' # "idle"
    PROVE  /\ net' \subseteq PacketType /\ InTransit' /\ NumbersFit' /\ StreamsOK'
           /\ st' \in [Ends -> StateType] /\ \A e \in Ends : Made(e)' = Made(e)
<1>1. Shape /\ NumbersFit /\ StreamsOK /\ InTransit
  BY DEF UtpInv
<1>2. \A e \in Ends : Written(e)' = Written(e) /\ Made(e)' = Made(e)
  BY DEF Written, Made
<1>3. net' \subseteq PacketType /\ InTransit'
  <2> DEFINE Q == {}
  <2>1. (\A q \in Q : Fresh(q)') /\ net' \subseteq net \cup Q
    OBVIOUS
  <2>2. \A e \in Ends : Written(e) \subseteq Written(e)'
    BY <1>2
  <2> HIDE DEF Q
  <2> QED
    BY <1>1, <1>2, <2>1, <2>2, NetStep
<1>4. "a" \in Ends /\ Good("a", st["a"]) /\ st' = [st EXCEPT !["a"] = st["a"]]
  BY <1>1 DEF Ends, Good, Shape, StreamsOK
<1>5. NumbersFit' /\ StreamsOK' /\ st' \in [Ends -> StateType]
  BY <1>1, <1>4, OneEnd
<1> QED
  BY <1>2, <1>3, <1>5

LEMMA ConnectKeeps == UtpInv /\ Connect => UtpInv'
<1> SUFFICES ASSUME UtpInv, Connect PROVE UtpInv'
  OBVIOUS
<1>1. Shape /\ NumbersFit /\ StreamsOK /\ InTransit /\ Unmade /\ Handshake
  BY DEF UtpInv
<1>2. /\ dial = "idle" /\ dial' = "syn" /\ net' = net \cup {Syn}
      /\ UNCHANGED <<st, reg, handle, todo, sent, got, eof>>
  BY DEF Connect, Syn
<1>3. ~Made("a") /\ ~Made("b")
  BY <1>1, <1>2 DEF Handshake
<1>4. /\ Syn \in PacketType /\ Syn.type = "SYN" /\ Syn.to = "b"
  BY Sizes DEF Syn, Packet, PacketType, Ends, Types, NoPayload
<1>5. Shape'
  BY <1>1, <1>2, <1>4 DEF Shape
<1>6. NumbersFit' /\ StreamsOK'
  <2>1. "a" \in Ends /\ Good("a", st["a"]) /\ st' = [st EXCEPT !["a"] = st["a"]]
    BY <1>1, <1>2 DEF Ends, Good, Shape, StreamsOK
  <2> QED
    BY <1>1, <1>2, <2>1, OneEnd
<1>7. InTransit'
  <2>1. \A e \in Ends : Written(e)' = Written(e)
    BY <1>2 DEF Written
  <2>2. ~Made("a")' /\ ~Made("b")' /\ dial' # "idle"
    BY <1>2, <1>3 DEF Made
  <2>3. ASSUME NEW p \in net', p.type = "DATA"
        PROVE  [seq |-> p.seq, payload |-> p.payload] \in Written(Other(p.to))'
    <3>1. p \in net
      BY <1>2, <1>4, <2>3
    <3>2. Other(p.to) \in Ends
      BY <1>1, <3>1, Others DEF Shape, PacketType
    <3> QED
      BY <1>1, <2>1, <2>3, <3>1, <3>2 DEF InTransit
  <2>4. \A p \in net' : p.type = "SYN" => p = Syn
    BY <1>1, <1>2 DEF InTransit
  <2>5. \A p \in net' : /\ p.to = "b" => p = Syn
                        /\ (p.to = "a" /\ p.type = "STATE") => p.seq = 1
    BY <1>1, <1>2, <1>3, <1>4 DEF InTransit
  <2> QED
    BY <2>2, <2>3, <2>4, <2>5 DEF InTransit
<1>8. Unmade' /\ Handshake'
  BY <1>1, <1>2, <1>3 DEF Unmade, Handshake, Made
<1> QED
  BY <1>5, <1>6, <1>7, <1>8 DEF UtpInv

LEMMA ConnectedKeeps == UtpInv /\ Connected => UtpInv'
<1> SUFFICES ASSUME UtpInv, Connected PROVE UtpInv'
  OBVIOUS
<1>1. Shape /\ NumbersFit /\ StreamsOK /\ InTransit /\ Unmade /\ Handshake
  BY DEF UtpInv
<1>2. /\ dial = "ready" /\ dial' = "done" /\ handle' = [handle EXCEPT !["a"] = "open"]
      /\ UNCHANGED <<net, st, reg, todo, sent, got, eof>>
  BY DEF Connected
<1>3. /\ net' \subseteq PacketType /\ InTransit' /\ NumbersFit' /\ StreamsOK'
      /\ st' \in [Ends -> StateType] /\ \A e \in Ends : Made(e)' = Made(e)
  BY <1>2, IdleStep
<1>4. Made("a") /\ "a" \in Ends
  BY <1>1, <1>2 DEF Handshake, Ends
<1>5. Shape'
  BY <1>1, <1>2, <1>3, <1>4 DEF Shape
<1>6. /\ handle'["a"] = "open" /\ handle["a"] = "none"
      /\ \A e \in Ends : e # "a" => handle'[e] = handle[e]
  BY <1>1, <1>2, <1>4 DEF Shape, Handshake
<1>7. Unmade'
  BY <1>1, <1>2, <1>3, <1>4, <1>6, SameHands
<1>8. Handshake'
  BY <1>1, <1>2, <1>3, <1>4, <1>6 DEF Handshake
<1> QED
  BY <1>3, <1>5, <1>7, <1>8 DEF UtpInv

LEMMA CancelConnectKeeps == UtpInv /\ CancelConnect => UtpInv'
<1> SUFFICES ASSUME UtpInv, CancelConnect PROVE UtpInv'
  OBVIOUS
<1>1. Shape /\ NumbersFit /\ StreamsOK /\ InTransit /\ Unmade /\ Handshake
  BY DEF UtpInv
<1>2. /\ dial \in {"syn", "ready"} /\ dial' = "cancelled"
      /\ reg' = [reg EXCEPT !["a"] = FALSE]
      /\ UNCHANGED <<net, st, handle, todo, sent, got, eof>>
  BY DEF CancelConnect
<1>3. /\ net' \subseteq PacketType /\ InTransit' /\ NumbersFit' /\ StreamsOK'
      /\ st' \in [Ends -> StateType] /\ \A e \in Ends : Made(e)' = Made(e)
  BY <1>2, IdleStep
<1>4. Shape'
  BY <1>1, <1>2, <1>3 DEF Shape
<1>5. \A e \in Ends : reg'[e] => reg[e]
  BY <1>1, <1>2 DEF Shape
<1>6. Unmade'
  BY <1>1, <1>2, <1>3, <1>5, SameHands
<1>7. Handshake'
  BY <1>1, <1>2, <1>3 DEF Handshake, Ends
<1> QED
  BY <1>3, <1>4, <1>6, <1>7 DEF UtpInv

LEMMA ReadEndKeeps ==
    ASSUME UtpInv, NEW e \in Ends, ReadEnd(e)
    PROVE  UtpInv'
<1>1. Shape /\ NumbersFit /\ StreamsOK /\ InTransit /\ Unmade /\ Handshake
  BY DEF UtpInv
<1>2. /\ handle[e] = "open" /\ eof' = [eof EXCEPT ![e] = TRUE]
      /\ handle' = [handle EXCEPT ![e] = "ended"]
      /\ UNCHANGED <<net, dial, st, reg, todo, sent, got>>
  BY DEF ReadEnd
<1>3. /\ net' \subseteq PacketType /\ InTransit' /\ NumbersFit' /\ StreamsOK'
      /\ st' \in [Ends -> StateType] /\ \A f \in Ends : Made(f)' = Made(f)
  BY <1>2, IdleStep
<1>4. Shape'
  BY <1>1, <1>2, <1>3 DEF Shape
<1>5. /\ handle'[e] = "ended" /\ Made(e)
      /\ \A f \in Ends : f # e => handle'[f] = handle[f] /\ eof'[f] = eof[f]
  BY <1>1, <1>2 DEF Shape, Unmade
<1>6. Unmade'
  BY <1>1, <1>2, <1>3, <1>5, SameHands
<1>7. Handshake'
  BY <1>1, <1>2, <1>3, <1>5 DEF Handshake, Ends
<1> QED
  BY <1>3, <1>4, <1>6, <1>7 DEF UtpInv

LEMMA LoseKeeps ==
    ASSUME UtpInv, NEW p \in net, Lose(p)
    PROVE  UtpInv'
<1>1. Shape /\ NumbersFit /\ StreamsOK /\ InTransit /\ Unmade /\ Handshake
  BY DEF UtpInv
<1>2. net' \subseteq net /\ UNCHANGED <<dial, st, reg, handle, todo, sent, got, eof>>
  BY DEF Lose
<1>3. /\ net' \subseteq PacketType /\ InTransit' /\ NumbersFit' /\ StreamsOK'
      /\ st' \in [Ends -> StateType] /\ \A f \in Ends : Made(f)' = Made(f)
  BY <1>2, IdleStep
<1>4. Shape'
  BY <1>1, <1>2, <1>3 DEF Shape
<1>5. Unmade' /\ Handshake'
  BY <1>1, <1>2, <1>3, SameHands DEF Handshake, Made
<1> QED
  BY <1>3, <1>4, <1>5 DEF UtpInv

\* The step of an end that has a stream: its state changes, nothing is
\* written or read by the application.
LEMMA StreamStep ==
    ASSUME UtpInv, NEW e \in Ends, Made(e), NEW s, Good(e, s), s.expected # 0,
           st' = [st EXCEPT ![e] = s], UNCHANGED <<dial, todo, sent, got, eof>>,
           NEW Q, \A q \in Q : Fresh(q), net' \subseteq net \cup Q
    PROVE  /\ net' \subseteq PacketType /\ InTransit' /\ NumbersFit' /\ StreamsOK'
           /\ st' \in [Ends -> StateType] /\ \A f \in Ends : Made(f)' = Made(f)
           /\ \A f \in Ends : ~Made(f) => st'[f] = st[f]
<1>1. Shape /\ NumbersFit /\ StreamsOK /\ InTransit
  BY DEF UtpInv
<1>2. /\ st' \in [Ends -> StateType] /\ NumbersFit' /\ StreamsOK'
      /\ st'[e] = s /\ \A f \in Ends \ {e} : st'[f] = st[f]
  BY <1>1, OneEnd
<1>3. \A f \in Ends : Written(f)' = Written(f) /\ Made(f)' = Made(f)
  BY <1>2 DEF Written, Made
<1>4. \A q \in Q : Fresh(q)'
  <2> SUFFICES ASSUME NEW q \in Q PROVE Fresh(q)'
    OBVIOUS
  <2>1. Fresh(q) /\ q \in PacketType
    BY DEF Fresh
  <2>2. Other(q.to) \in Ends
    BY <2>1, Others DEF PacketType
  <2>3. Written(Other(q.to))' = Written(Other(q.to)) /\ Made("a")' = Made("a")
    BY <1>3, <2>2 DEF Ends
  <2> QED
    BY <2>1, <2>3 DEF Fresh
<1>5. net' \subseteq PacketType /\ InTransit'
  <2>1. \A f \in Ends : Written(f) \subseteq Written(f)'
    BY <1>3
  <2> QED
    BY <1>1, <1>3, <1>4, <2>1, NetStep
<1> QED
  BY <1>2, <1>3, <1>5

\* What that leaves to show of the step: the hands hold on, or let go.
LEMMA StreamStepKeeps ==
    ASSUME UtpInv, NEW e \in Ends, Made(e), NEW s, Good(e, s), s.expected # 0,
           st' = [st EXCEPT ![e] = s], UNCHANGED <<dial, todo, sent, got, eof>>,
           NEW Q, \A q \in Q : Fresh(q), net' \subseteq net \cup Q,
           \/ UNCHANGED <<reg, handle>>
           \/ /\ handle[e] # "none"
              /\ handle' = [handle EXCEPT ![e] = "dropped"]
              /\ reg' = [reg EXCEPT ![e] = FALSE]
    PROVE  UtpInv'
<1>1. Shape /\ NumbersFit /\ StreamsOK /\ InTransit /\ Unmade /\ Handshake
  BY DEF UtpInv
<1>2. /\ net' \subseteq PacketType /\ InTransit' /\ NumbersFit' /\ StreamsOK'
      /\ st' \in [Ends -> StateType] /\ \A f \in Ends : Made(f)' = Made(f)
      /\ \A f \in Ends : ~Made(f) => st'[f] = st[f]
  BY StreamStep
<1>3. Shape'
  BY <1>1, <1>2 DEF Shape
<1>4. /\ \A f \in Ends : f # e => handle'[f] = handle[f]
      /\ \A f \in Ends : reg'[f] => reg[f]
      /\ handle'[e] = handle[e] \/ (handle[e] # "none" /\ handle'[e] = "dropped")
  BY <1>1 DEF Shape
<1>5. Unmade'
  <2>1. \A f \in Ends : ~Made(f) => /\ st'[f].recvBuf = st[f].recvBuf
                                    /\ st'[f].unacked = st[f].unacked
                                    /\ handle'[f] = handle[f] /\ (reg'[f] => reg[f])
    BY <1>2, <1>4
  <2> QED
    BY <1>1, <1>2, <2>1, SameHands
<1>6. Handshake'
  <2>1. "a" \in Ends /\ "b" \in Ends /\ Made("a")' = Made("a") /\ Made("b")' = Made("b")
    BY <1>2 DEF Ends
  <2>2. dial # "done" => handle'["a"] = "none"
    BY <1>1, <1>4, <2>1 DEF Handshake
  <2>3. \A f \in Ends : eof[f] => handle'[f] \in {"ended", "dropped"}
    BY <1>1, <1>4 DEF Handshake
  <2> QED
    BY <1>1, <2>1, <2>2, <2>3 DEF Handshake
<1> QED
  BY <1>2, <1>3, <1>5, <1>6 DEF UtpInv

LEMMA ResendKeeps ==
    ASSUME UtpInv, NEW e \in Ends, Resend(e)
    PROVE  UtpInv'
<1> DEFINE s == st[e]
           q == DataPacket(e, s, Head(s.unacked))
<1>1. Shape /\ StreamsOK /\ Unmade
  BY DEF UtpInv
<1>2. /\ handle[e] = "open" /\ s.unacked # <<>> /\ net' = net \cup {q}
      /\ st' = [st EXCEPT ![e].advertised = Window(s)]
      /\ UNCHANGED <<dial, reg, handle, todo, sent, got, eof>>
  BY DEF Resend
<1>3. Good(e, s) /\ Made(e) /\ s \in StateType /\ s.expected # 0
  BY <1>1, <1>2 DEF Good, StreamsOK, Shape, Unmade, Made
<1>4. Good(e, Advertise(s)) /\ Advertise(s).expected # 0
  BY <1>3, AdvertiseIsGood
<1>5. st' = [st EXCEPT ![e] = Advertise(s)]
  BY <1>1, <1>2 DEF Shape, Advertise
<1>6. Fresh(q)
  <2>1. Head(s.unacked) \in Written(e) /\ Head(s.unacked) \in ChunkType
    BY <1>2, <1>3, OldestWasWritten DEF Written
  <2>2. /\ q \in PacketType /\ q.to = Other(e) /\ q.type = "DATA"
        /\ [seq |-> q.seq, payload |-> q.payload] = Head(s.unacked)
    BY <1>3, <2>1, DataPacketShape
  <2> HIDE DEF q, s
  <2>3. Other(q.to) = e /\ (~Made("a") => q.to = "a")
    BY <1>3, <2>2, Others DEF Ends
  <2> QED
    BY <2>1, <2>2, <2>3 DEF Fresh
<1> HIDE DEF q, s
<1>7. (\A x \in {q} : Fresh(x)) /\ net' \subseteq net \cup {q}
  BY <1>2, <1>6
<1> QED
  BY <1>2, <1>3, <1>4, <1>5, <1>7, StreamStepKeeps

\* close_write takes the number after the last chunk's.
FinState(s) == [s EXCEPT !.writeClosed = TRUE, !.seq = Succ(@), !.advertised = Window(s)]
FinPacket(e, s) == Packet(Other(e), "FIN", s.seq, s.ack, Window(s), NoPayload, 0)

LEMMA FinStateFields ==
    ASSUME NEW s \in StateType, Succ(s.seq) \in Nat
    PROVE  LET t == FinState(s)
           IN  /\ t \in StateType /\ t.seq = Succ(s.seq) /\ t.writeClosed = TRUE
               /\ t.unacked = s.unacked /\ t.expected = s.expected
               /\ t.recvBuf = s.recvBuf /\ t.outOfOrder = s.outOfOrder
<1> DEFINE w == Window(s)
           x == Succ(s.seq)
<1>1. w \in Int
  BY Sizes DEF StateType, Window
<1>2. FinState(s) = [s EXCEPT !.writeClosed = TRUE, !.seq = x, !.advertised = w]
  BY DEF FinState
<1>3. x \in Nat
  OBVIOUS
<1> HIDE DEF w, x
<1>4. LET t == FinState(s)
      IN  /\ t \in StateType /\ t.seq = x /\ t.writeClosed = TRUE
          /\ t.unacked = s.unacked /\ t.expected = s.expected
          /\ t.recvBuf = s.recvBuf /\ t.outOfOrder = s.outOfOrder
  BY <1>1, <1>2, <1>3 DEF StateType
<1> QED
  BY <1>4 DEF x

LEMMA FinStateIsGood ==
    ASSUME Shape, NumbersFit, NEW e \in Ends, NEW s, Good(e, s), s.expected # 0,
           ~s.writeClosed
    PROVE  Good(e, FinState(s)) /\ FinState(s).expected = s.expected
<1> DEFINE t == FinState(s)
<1>0. s \in StateType /\ s.seq = First(e) + sent[e] + 0
  BY DEF Good, Sending
<1>2. /\ SeqMod \in Nat /\ sent[e] \in Nat /\ First(e) \in 1..2
      /\ 2 * (First(e) + sent[e]) + 1 < SeqMod
  BY Numbers
<1>1. s \in StateType /\ s.seq = First(e) + sent[e]
  BY <1>0, <1>2
<1>3. Succ(s.seq) = First(e) + sent[e] + 1
  BY <1>1, <1>2, NoWrap DEF Succ
<1>4. Succ(s.seq) \in Nat
  BY <1>2, <1>3
<1>5. /\ t \in StateType /\ t.seq = Succ(s.seq) /\ t.writeClosed = TRUE
      /\ t.unacked = s.unacked /\ t.expected = s.expected
      /\ t.recvBuf = s.recvBuf /\ t.outOfOrder = s.outOfOrder
  BY <1>1, <1>4, FinStateFields
<1> HIDE DEF t
<1>6. Sending(e, t)
  BY <1>3, <1>5 DEF Good, Sending
<1>7. Receiving(e, t)
  BY <1>5 DEF Good, Receiving
<1> QED
  BY <1>5, <1>6, <1>7 DEF Good, t

LEMMA FinKeeps ==
    ASSUME UtpInv, NEW e \in Ends, Fin(e), handle[e] # "none",
           UNCHANGED <<dial, todo, sent, got, eof>>,
           \/ UNCHANGED <<reg, handle>>
           \/ /\ handle' = [handle EXCEPT ![e] = "dropped"]
              /\ reg' = [reg EXCEPT ![e] = FALSE]
    PROVE  UtpInv'
<1> DEFINE s == st[e]
           q == FinPacket(e, s)
<1>1. Shape /\ NumbersFit /\ StreamsOK /\ Unmade
  BY DEF UtpInv
<1>2. Good(e, s) /\ Made(e) /\ s \in StateType /\ s.expected # 0
  BY <1>1 DEF Good, StreamsOK, Shape, Unmade, Made
<1>3. CASE s.writeClosed \/ s.isReset
  <2>1. UNCHANGED <<net, st>>
    BY <1>3 DEF Fin
  <2>2. st' = [st EXCEPT ![e] = s]
    BY <1>1, <2>1 DEF Shape
  <2> DEFINE Q == {}
  <2>3. (\A x \in Q : Fresh(x)) /\ net' \subseteq net \cup Q
    BY <2>1
  <2> HIDE DEF Q, s
  <2> QED
    BY <1>2, <2>2, <2>3, StreamStepKeeps
<1>4. CASE ~(s.writeClosed \/ s.isReset)
  <2>1. /\ net' = net \cup {q}
        /\ st' = [st EXCEPT ![e].writeClosed = TRUE, ![e].seq = Succ(@),
                            ![e].advertised = Window(st[e])]
    BY <1>4 DEF Fin, FinPacket
  <2>2. st' = [st EXCEPT ![e] = FinState(s)]
    BY <1>1, <2>1 DEF Shape, FinState
  <2>3. Good(e, FinState(s)) /\ FinState(s).expected # 0
    BY <1>1, <1>2, <1>4, FinStateIsGood
  <2>4. Fresh(q)
    <3>1. s.seq \in Nat /\ s.ack \in Nat /\ Window(s) \in Int /\ Other(e) \in Ends
      BY <1>2, Others, Sizes, SMTT(30) DEF StateType, Window
    <3>2. q \in PacketType /\ q.type = "FIN" /\ q.to = Other(e)
      BY <3>1 DEF FinPacket, Packet, PacketType, Types, NoPayload
    <3> HIDE DEF q, s
    <3> QED
      BY <1>2, <3>2, Others DEF Fresh, Ends
  <2> DEFINE t == FinState(s)
             Q == {q}
  <2>5. (\A x \in Q : Fresh(x)) /\ net' \subseteq net \cup Q
    BY <2>1, <2>4
  <2>6. Good(e, t) /\ t.expected # 0 /\ st' = [st EXCEPT ![e] = t]
    BY <2>2, <2>3
  <2> HIDE DEF q, s, t, Q
  <2> QED
    BY <1>2, <2>5, <2>6, StreamStepKeeps
<1> QED
  BY <1>3, <1>4

\* UtpSocket::close marks the stream reset, even one that was never made.
WithReset(s) == [s EXCEPT !.isReset = TRUE]

LEMMA CloseSocketKeeps ==
    ASSUME UtpInv, NEW e \in Ends, CloseSocket(e)
    PROVE  UtpInv'
<1> DEFINE s == st[e]
           t == WithReset(s)
<1>1. Shape /\ NumbersFit /\ StreamsOK /\ InTransit /\ Unmade /\ Handshake
  BY DEF UtpInv
<1>2. /\ dial' = IF e = "a" /\ dial = "syn" THEN "cancelled" ELSE dial
      /\ st' = [st EXCEPT ![e].isReset = TRUE]
      /\ reg' = [reg EXCEPT ![e] = FALSE]
      /\ UNCHANGED <<net, handle, todo, sent, got, eof>>
  BY DEF CloseSocket
<1>3. s \in StateType /\ Good(e, s)
  BY <1>1 DEF Good, StreamsOK, Shape
<1>4. t \in StateType /\ SameStream(s, t) /\ t.unacked = s.unacked
  BY <1>3 DEF StateType, SameStream, WithReset
<1>5. Good(e, t)
  BY <1>3, <1>4, SameIsGood DEF Good, Sending
<1>6. st' = [st EXCEPT ![e] = t]
  BY <1>1, <1>2 DEF Shape, WithReset
<1> HIDE DEF t
<1>7. /\ st' \in [Ends -> StateType] /\ NumbersFit' /\ StreamsOK'
      /\ st'[e] = t /\ \A f \in Ends \ {e} : st'[f] = st[f]
  BY <1>1, <1>2, <1>5, <1>6, OneEnd
<1>8. \A f \in Ends : Made(f)' = Made(f) /\ Written(f)' = Written(f)
  BY <1>2, <1>4, <1>7 DEF Made, Written, SameStream
<1>9. net' \subseteq PacketType /\ InTransit'
  <2> DEFINE Q == {}
  <2>1. (\A q \in Q : Fresh(q)') /\ net' \subseteq net \cup Q
    BY <1>2
  <2>2. \A f \in Ends : Written(f) \subseteq Written(f)'
    BY <1>8
  <2>3. dial # "idle" => dial' # "idle"
    BY <1>2
  <2> HIDE DEF Q
  <2> QED
    BY <1>1, <1>8, <2>1, <2>2, <2>3, NetStep
<1>10. Shape'
  BY <1>1, <1>2, <1>7, <1>9 DEF Shape
<1>11. Unmade'
  <2>1. \A f \in Ends : /\ st'[f].recvBuf = st[f].recvBuf
                        /\ st'[f].unacked = st[f].unacked /\ (reg'[f] => reg[f])
    BY <1>1, <1>2, <1>4, <1>7 DEF Shape, SameStream
  <2> QED
    BY <1>1, <1>2, <1>8, <2>1, SameHands
<1>12. Handshake'
  BY <1>1, <1>2, <1>8 DEF Handshake, Ends
<1> QED
  BY <1>7, <1>9, <1>10, <1>11, <1>12 DEF UtpInv

\* poll_write gives the next number to the next chunk and keeps it.
WriteState(s, o) ==
    [s EXCEPT !.seq = Succ(@), !.unacked = Append(@, o), !.advertised = Window(s)]

LEMMA WriteStateFields ==
    ASSUME NEW s \in StateType, Succ(s.seq) \in Nat, NEW o \in ChunkType
    PROVE  LET t == WriteState(s, o)
           IN  /\ t \in StateType /\ t.seq = Succ(s.seq)
               /\ t.unacked = Append(s.unacked, o)
               /\ t.writeClosed = s.writeClosed /\ t.expected = s.expected
               /\ t.recvBuf = s.recvBuf /\ t.outOfOrder = s.outOfOrder
<1> DEFINE w == Window(s)
           x == Succ(s.seq)
           u == Append(s.unacked, o)
<1>1. w \in Int /\ x \in Nat
  BY Sizes DEF StateType, Window
<1>2. WriteState(s, o) = [s EXCEPT !.seq = x, !.unacked = u, !.advertised = w]
  BY DEF WriteState
<1>3. u \in Seq(ChunkType)
  BY DEF StateType
<1> HIDE DEF w, x, u
<1>4. LET t == WriteState(s, o)
      IN  /\ t \in StateType /\ t.seq = x /\ t.unacked = u
          /\ t.writeClosed = s.writeClosed /\ t.expected = s.expected
          /\ t.recvBuf = s.recvBuf /\ t.outOfOrder = s.outOfOrder
  BY <1>1, <1>2, <1>3 DEF StateType
<1> QED
  BY <1>4 DEF x, u

LEMMA WriteKeeps ==
    ASSUME UtpInv, NEW e \in Ends, Write(e)
    PROVE  UtpInv'
<1> DEFINE s == st[e]
           o == [seq |-> s.seq, payload |-> sent[e] + 1]
           t == WriteState(s, o)
           f == Other(e)
<1>0. PICK q : q = DataPacket(e, s, o)
  OBVIOUS
<1>1. Shape /\ NumbersFit /\ StreamsOK /\ InTransit /\ Unmade /\ Handshake
  BY DEF UtpInv
<1>2. /\ handle[e] = "open" /\ ~s.writeClosed /\ todo[e] > 0
      /\ net' = net \cup {q}
      /\ st' = [st EXCEPT ![e].seq = Succ(@), ![e].unacked = Append(@, o),
                          ![e].advertised = Window(s)]
      /\ sent' = [sent EXCEPT ![e] = @ + 1]
      /\ todo' = [todo EXCEPT ![e] = @ - 1]
      /\ UNCHANGED <<dial, reg, handle, got, eof>>
  BY <1>0 DEF Write
<1>3. Good(e, s) /\ Made(e) /\ s \in StateType /\ s.expected # 0
  BY <1>1, <1>2 DEF Good, StreamsOK, Shape, Unmade, Made
<1>4. /\ SeqMod \in Nat /\ sent[e] \in Nat /\ First(e) \in 1..2
      /\ 2 * (First(e) + sent[e]) + 1 < SeqMod
  BY <1>1, Numbers
<1>5. s.seq = First(e) + sent[e] /\ s.unacked \in Seq(Written(e))
  <2>1. s.seq = First(e) + sent[e] + 0 /\ s.unacked \in Seq(Written(e))
    BY <1>2, <1>3 DEF Good, Sending
  <2> QED
    BY <1>4, <2>1
<1>6. Succ(s.seq) = First(e) + sent[e] + 1 /\ s.seq \in Nat
  BY <1>4, <1>5, NoWrap, SMTT(30) DEF Succ
<1>7. /\ f \in Ends /\ f # e /\ Other(f) = e /\ \A x \in Ends : x = e \/ x = f
  BY Others DEF Ends
<1>8. /\ sent' \in [Ends -> Nat] /\ todo' \in [Ends -> Nat]
      /\ sent'[e] = sent[e] + 1 /\ todo'[e] = todo[e] - 1
      /\ sent'[f] = sent[f] /\ todo'[f] = todo[f]
  BY <1>1, <1>2, <1>7 DEF Shape
<1>9. o \in ChunkType /\ o \in Written(e)' /\ Written(f)' = Written(f)
      /\ \A x \in Ends : Written(x) \subseteq Written(x)'
  <2>1. o \in ChunkType
    BY <1>4, <1>6 DEF ChunkType
  <2>2. o.payload = sent[e] + 1 /\ o.seq = First(e) + sent[e]
    BY <1>5
  <2> HIDE DEF o
  <2>3. o.payload \in 1..sent'[e] /\ o.seq = First(e) + o.payload - 1
    BY <1>4, <1>8, <2>2
  <2>4. o \in Written(e)'
    BY <2>1, <2>3 DEF Written
  <2>5. Written(f)' = Written(f)
    BY <1>8 DEF Written
  <2>6. 1..sent[e] \subseteq 1..sent'[e]
    BY <1>4, <1>8
  <2>7. Written(e) \subseteq Written(e)'
    BY <2>6 DEF Written
  <2> QED
    BY <1>7, <2>1, <2>4, <2>5, <2>7
<1>10. st' = [st EXCEPT ![e] = t]
  BY <1>1, <1>2 DEF Shape, WriteState
<1> HIDE DEF o
<1>11. /\ t \in StateType /\ t.seq = First(e) + sent[e] + 1
       /\ t.unacked = Append(s.unacked, o)
       /\ t.writeClosed = s.writeClosed /\ t.expected = s.expected
       /\ t.recvBuf = s.recvBuf /\ t.outOfOrder = s.outOfOrder
  <2>1. Succ(s.seq) \in Nat
    BY <1>4, <1>6
  <2> QED
    BY <1>3, <1>6, <1>9, <2>1, WriteStateFields
<1>12. q \in PacketType /\ q.to = f /\ q.type = "DATA"
       /\ [seq |-> q.seq, payload |-> q.payload] = o
  BY <1>0, <1>3, <1>9, DataPacketShape
<1> HIDE DEF t, f
<1>13. st' \in [Ends -> StateType] /\ st'[e] = t /\ st'[f] = st[f]
  BY <1>1, <1>7, <1>10, <1>11 DEF Shape
<1>14. \A x \in Ends : Made(x)' = Made(x)
  BY <1>7, <1>11, <1>13 DEF Made
<1>15. net' \subseteq PacketType /\ InTransit'
  <2> DEFINE Q == {q}
  <2>1. Fresh(q)'
    <3>1. Other(q.to) = e /\ (~Made("a")' => q.to = "a")
      BY <1>3, <1>7, <1>12, <1>14 DEF Ends
    <3>2. [seq |-> q.seq, payload |-> q.payload] \in Written(e)'
      BY <1>9, <1>12
    <3> QED
      BY <1>12, <3>1, <3>2 DEF Fresh
  <2>2. (\A x \in Q : Fresh(x)') /\ net' \subseteq net \cup Q
    BY <1>2, <2>1
  <2>3. dial # "idle" => dial' # "idle"
    BY <1>2
  <2> HIDE DEF Q
  <2> QED
    BY <1>1, <1>9, <1>14, <2>2, <2>3, NetStep
<1>16. NumbersFit'
  <2>1. /\ todo[e] \in Nat /\ 2 * (sent[e] + todo[e] + 3) <= SeqMod
        /\ 2 * (sent[f] + todo[f] + 3) <= SeqMod
    BY <1>1, <1>7 DEF NumbersFit, Shape
  <2>2. sent'[e] + todo'[e] = sent[e] + todo[e]
    BY <1>4, <1>8, <2>1
  <2>3. /\ 2 * (sent'[e] + todo'[e] + 3) <= SeqMod
        /\ 2 * (sent'[f] + todo'[f] + 3) <= SeqMod
    BY <1>8, <2>1, <2>2
  <2> QED
    BY <1>7, <2>3 DEF NumbersFit
<1>17. (Sending(e, st[e]))'
  <2>1. t.unacked \in Seq(Written(e)')
    BY <1>5, <1>9, <1>11
  <2>2. st'[e].seq = First(e) + sent'[e] + 0 /\ ~st'[e].writeClosed
    <3>1. ~t.writeClosed
      BY <1>2, <1>11
    <3>2. First(e) + sent[e] + 1 = First(e) + sent'[e] + 0
      BY <1>4, <1>8
    <3> QED
      BY <1>11, <1>13, <3>1, <3>2
  <2> QED
    BY <1>13, <2>1, <2>2 DEF Sending
<1>18. (Receiving(e, st[e]))'
  <2>1. Receiving(e, st[e])
    BY <1>3 DEF Good
  <2>2. /\ st'[e].outOfOrder = st[e].outOfOrder /\ st'[e].recvBuf = st[e].recvBuf
        /\ st'[e].expected = st[e].expected
    BY <1>11, <1>13
  <2> QED
    BY <1>2, <1>8, <1>9, <2>1, <2>2 DEF Receiving, f
<1>19. (Sending(f, st[f]))'
  <2>1. Sending(f, st[f])
    BY <1>1, <1>7 DEF StreamsOK
  <2> QED
    BY <1>8, <1>9, <1>13, <2>1 DEF Sending
<1>20. (Receiving(f, st[f]))'
  <2>1. Receiving(f, st[f])
    BY <1>1, <1>7 DEF StreamsOK
  <2>2. Len(got[f]) + Len(st[f].recvBuf) <= sent'[e]
    <3>1. Len(got[f]) \in Nat /\ Len(st[f].recvBuf) \in Nat
      <4>1. st[f] \in StateType
        BY <1>1, <1>7 DEF Shape
      <4> QED
        BY <1>1, <1>7, <2>1, <4>1, ReadingSide
    <3>2. Len(got[f]) + Len(st[f].recvBuf) <= sent[e]
      BY <1>7, <2>1 DEF Receiving
    <3>3. sent'[e] = sent[e] + 1
      BY <1>8
    <3>4. \A x, y, z \in Nat : x + y <= z => x + y <= z + 1
      OBVIOUS
    <3> QED
      BY ONLY <1>4, <3>1, <3>2, <3>3, <3>4
  <2>3. st[f].outOfOrder \subseteq Written(e)'
    BY <1>7, <1>9, <2>1 DEF Receiving
  <2> QED
    BY <1>2, <1>7, <1>13, <2>1, <2>2, <2>3 DEF Receiving
<1>21. StreamsOK'
  <2>1. \A x \in Ends : (Sending(x, st[x]))' /\ (Receiving(x, st[x]))'
    BY <1>7, <1>17, <1>18, <1>19, <1>20
  <2> QED
    BY <2>1 DEF StreamsOK
<1>22. Shape'
  BY <1>1, <1>2, <1>8, <1>13, <1>15 DEF Shape
<1>23. Unmade'
  BY <1>1, <1>2, <1>3, <1>7, <1>8, <1>13, <1>14 DEF Unmade
<1>24. Handshake'
  BY <1>1, <1>2, <1>14 DEF Handshake, Ends
<1> QED
  BY <1>15, <1>16, <1>21, <1>22, <1>23, <1>24 DEF UtpInv

\* poll_read takes the first chunk of the buffer.
ReadState(s) == [s EXCEPT !.recvBuf = Tail(@)]

LEMMA ReadStateFields ==
    ASSUME NEW s \in StateType, s.recvBuf # <<>>
    PROVE  LET t == ReadState(s)
           IN  /\ t \in StateType /\ SameSending(s, t) /\ t.expected = s.expected
               /\ t.recvBuf = Tail(s.recvBuf) /\ t.outOfOrder = s.outOfOrder
<1> DEFINE u == Tail(s.recvBuf)
<1>1. u \in Seq(Nat)
  BY DEF StateType
<1>2. ReadState(s) = [s EXCEPT !.recvBuf = u]
  BY DEF ReadState
<1> HIDE DEF u
<1>3. LET t == ReadState(s)
      IN  /\ t \in StateType /\ SameSending(s, t) /\ t.expected = s.expected
          /\ t.recvBuf = u /\ t.outOfOrder = s.outOfOrder
  BY <1>1, <1>2 DEF StateType, SameSending
<1> QED
  BY <1>3 DEF u

LEMMA ReadOne ==
    ASSUME NEW g \in Seq(Nat), NEW q \in Seq(Nat), q # <<>>,
           \A i \in 1..Len(q) : q[i] = Len(g) + i
    PROVE  /\ Append(g, Head(q)) \in Seq(Nat) /\ Tail(q) \in Seq(Nat)
           /\ Head(q) = Len(g) + 1
           /\ Len(Append(g, Head(q))) = Len(g) + 1 /\ Len(Tail(q)) = Len(q) - 1
           /\ \A i \in 1..Len(Tail(q)) : Tail(q)[i] = Len(Append(g, Head(q))) + i
<1>1. Len(q) \in Nat /\ Len(q) >= 1 /\ Len(g) \in Nat
  OBVIOUS
<1>2. Head(q) = Len(g) + 1 /\ Head(q) \in Nat
  BY <1>1
<1>3. /\ Append(g, Head(q)) \in Seq(Nat) /\ Len(Append(g, Head(q))) = Len(g) + 1
  BY <1>2
<1>4. /\ Tail(q) \in Seq(Nat) /\ Len(Tail(q)) = Len(q) - 1
      /\ \A i \in 1..(Len(q) - 1) : Tail(q)[i] = q[i + 1]
  BY <1>1
<1>5. ASSUME NEW i \in 1..(Len(q) - 1) PROVE Tail(q)[i] = Len(g) + 1 + i
  <2>1. i + 1 \in 1..Len(q)
    BY <1>1
  <2>2. q[i + 1] = Len(g) + (i + 1)
    BY <2>1
  <2> QED
    BY <1>1, <1>4, <2>2
<1> QED
  BY <1>2, <1>3, <1>4, <1>5

LEMMA ReadKeeps ==
    ASSUME UtpInv, NEW e \in Ends, Read(e)
    PROVE  UtpInv' /\ got'[e] = Append(got[e], Len(got[e]) + 1)
                   /\ Len(got[e]) < sent[Other(e)]
<1> DEFINE z == st[e]
           f == Other(e)
<1>1. Shape /\ NumbersFit /\ StreamsOK /\ InTransit /\ Unmade /\ Handshake
  BY DEF UtpInv
<1>0. PICK s : s = ReadState(z)
  OBVIOUS
<1>a. PICK q : q = AckPacket(e, s, SelectiveAck(s))
  OBVIOUS
<1> DEFINE Effect(tell) ==
        /\ handle[e] = "open" /\ z.recvBuf # <<>>
        /\ got' = [got EXCEPT ![e] = Append(@, Head(z.recvBuf))]
        /\ net' = IF tell THEN net \cup {q} ELSE net
        /\ st' = [st EXCEPT ![e] = IF tell THEN Advertise(s) ELSE s]
        /\ UNCHANGED <<dial, reg, handle, todo, sent, eof>>
<1>b. PICK tell \in BOOLEAN : Effect(tell)
  <2> DEFINE tell == \/ Window(s) - s.advertised >= WndUpdate
                     \/ s.advertised = 0 /\ Window(s) > 0
  <2>1. tell \in BOOLEAN
    OBVIOUS
  <2>2. Effect(tell)
    BY <1>0, <1>a DEF Read, ReadState, Advertise
  <2> HIDE DEF tell, Effect
  <2> QED
    BY <2>1, <2>2
<1>2. /\ s = ReadState(z) /\ q = AckPacket(e, s, SelectiveAck(s))
      /\ Effect(tell)
  BY <1>0, <1>a, <1>b
<1>3. z \in StateType /\ Made(e) /\ z.expected # 0 /\ Sending(e, z) /\ Receiving(e, z)
  BY <1>1, <1>2 DEF StreamsOK, Shape, Unmade, Made
<1>4. /\ s \in StateType /\ SameSending(z, s) /\ s.expected = z.expected
      /\ s.recvBuf = Tail(z.recvBuf) /\ s.outOfOrder = z.outOfOrder
  BY <1>2, <1>3, ReadStateFields
<1>5. PICK u : u = IF tell THEN Advertise(s) ELSE s
  OBVIOUS
<1>6. /\ u \in StateType /\ SameSending(z, u) /\ u.expected = z.expected
      /\ u.recvBuf = Tail(z.recvBuf) /\ u.outOfOrder = z.outOfOrder
  <2>1. CASE tell
    BY <1>4, <1>5, <2>1, AdvertiseFields DEF SameSending, SameStream
  <2>2. CASE ~tell
    BY <1>4, <1>5, <2>2
  <2> QED
    BY <2>1, <2>2
<1>7. st' = [st EXCEPT ![e] = u]
  BY <1>2, <1>5
<1>8. /\ f \in Ends /\ f # e /\ Other(f) = e /\ \A x \in Ends : x = e \/ x = f
  BY Others DEF Ends
<1>9. /\ st' \in [Ends -> StateType] /\ st'[e] = u /\ st'[f] = st[f]
  BY <1>1, <1>6, <1>7, <1>8 DEF Shape
<1>10. /\ got[e] \in Seq(Nat) /\ z.recvBuf \in Seq(Nat)
       /\ \A i \in 1..Len(z.recvBuf) : z.recvBuf[i] = Len(got[e]) + i
  BY <1>1, <1>3 DEF Shape, StateType, Receiving
<1>11. /\ Append(got[e], Head(z.recvBuf)) \in Seq(Nat)
       /\ Head(z.recvBuf) = Len(got[e]) + 1
       /\ Len(Append(got[e], Head(z.recvBuf))) = Len(got[e]) + 1
       /\ Len(Tail(z.recvBuf)) = Len(z.recvBuf) - 1
       /\ \A i \in 1..Len(Tail(z.recvBuf)) :
             Tail(z.recvBuf)[i] = Len(Append(got[e], Head(z.recvBuf))) + i
  <2> HIDE DEF z
  <2> QED
    BY <1>2, <1>10, ReadOne
<1>12. /\ got'[e] = Append(got[e], Head(z.recvBuf)) /\ got'[f] = got[f]
       /\ got' \in [Ends -> Seq(Nat)]
  BY <1>1, <1>2, <1>8, <1>11 DEF Shape
<1>13. /\ Len(got[e]) \in Nat /\ Len(z.recvBuf) \in Nat /\ Len(z.recvBuf) >= 1
       /\ sent[f] \in Nat /\ Len(got[e]) + Len(z.recvBuf) <= sent[f]
  <2>1. sent[f] \in Nat
    BY <1>1, <1>8 DEF Shape
  <2>2. Len(got[e]) + Len(z.recvBuf) <= sent[f]
    BY <1>3 DEF Receiving
  <2> HIDE DEF z, f
  <2>3. Len(got[e]) \in Nat /\ Len(z.recvBuf) \in Nat /\ Len(z.recvBuf) >= 1
    BY <1>2, <1>10
  <2> QED
    BY <2>1, <2>2, <2>3
<1>14. Len(got[e]) < sent[f]
  <2>1. \A x, y, w \in Nat : y >= 1 /\ x + y <= w => x < w
    OBVIOUS
  <2> QED
    BY ONLY <1>13, <2>1
<1>15. \A x \in Ends : Made(x)' = Made(x) /\ Written(x)' = Written(x)
  BY <1>2, <1>6, <1>8, <1>9 DEF Made, Written
<1> HIDE DEF z, f
<1>16. net' \subseteq PacketType /\ InTransit'
  <2> DEFINE Q == {q}
  <2>1. Made("a")
    <3>1. CASE e = "a"
      BY <1>3, <3>1
    <3>2. CASE e = "b"
      <4>1. f = "a" /\ sent[f] # 0
        BY <1>13, <1>14, <3>2, Others DEF f
      <4> QED
        BY <1>1, <1>8, <4>1 DEF Unmade
    <3> QED
      BY <3>1, <3>2 DEF Ends
  <2>2. q \in PacketType /\ q.type = "STATE"
    <3>1. SelectiveAck(s) \in Nat
      <4>1. IsFiniteSet(s.outOfOrder)
        BY <1>3, <1>4 DEF Receiving
      <4> QED
        BY <4>1, SackType
    <3> QED
      BY <1>2, <1>4, <3>1, AckPacketShape
  <2>3. Made("a")'
    BY <1>15, <2>1 DEF Ends
  <2>4. Fresh(q)'
    BY <2>2, <2>3 DEF Fresh
  <2>5. (\A x \in Q : Fresh(x)') /\ net' \subseteq net \cup Q
    BY <1>2, <2>4
  <2>6. (dial # "idle" => dial' # "idle") /\ \A x \in Ends : Written(x) \subseteq Written(x)'
    BY <1>2, <1>15
  <2> HIDE DEF Q
  <2> QED
    BY <1>1, <1>15, <2>5, <2>6, NetStep
<1>17. NumbersFit'
  BY <1>1, <1>2 DEF NumbersFit
<1>18. (Sending(e, st[e]))'
  BY <1>2, <1>3, <1>6, <1>8, <1>9, <1>15 DEF Sending, SameSending
<1>19. (Receiving(e, st[e]))'
  <2>1. /\ st'[e].outOfOrder = z.outOfOrder /\ st'[e].recvBuf = Tail(z.recvBuf)
        /\ st'[e].expected = z.expected
    BY <1>6, <1>9
  <2>2. z.outOfOrder \subseteq Written(f)' /\ IsFiniteSet(z.outOfOrder)
    BY <1>3, <1>8, <1>15 DEF Receiving, f
  <2>3. Len(got'[e]) + Len(Tail(z.recvBuf)) = Len(got[e]) + Len(z.recvBuf)
    <3>1. Len(got'[e]) = Len(got[e]) + 1 /\ Len(Tail(z.recvBuf)) = Len(z.recvBuf) - 1
      BY <1>11, <1>12
    <3>2. \A x, y \in Nat : (x + 1) + (y - 1) = x + y
      OBVIOUS
    <3> QED
      BY ONLY <1>13, <3>1, <3>2
  <2>4. z.expected = First(f) + Len(got'[e]) + Len(Tail(z.recvBuf))
    <3>1. z.expected = First(f) + Len(got[e]) + Len(z.recvBuf) /\ First(f) \in Nat
      BY <1>3 DEF Receiving, f, First
    <3> QED
      BY <1>11, <1>12, <1>13, <3>1
  <2> QED
    BY <1>2, <1>11, <1>12, <1>13, <2>1, <2>2, <2>3, <2>4 DEF Receiving, f
<1>20. (Sending(f, st[f]))'
  <2>1. Sending(f, st[f])
    BY <1>1, <1>8 DEF StreamsOK
  <2> QED
    BY <1>2, <1>8, <1>9, <1>15, <2>1 DEF Sending
<1>21. (Receiving(f, st[f]))'
  <2>1. Receiving(f, st[f])
    BY <1>1, <1>8 DEF StreamsOK
  <2> QED
    BY <1>2, <1>8, <1>9, <1>12, <1>15, <2>1 DEF Receiving
<1>22. StreamsOK'
  <2>1. \A x \in Ends : (Sending(x, st[x]))' /\ (Receiving(x, st[x]))'
    BY <1>8, <1>18, <1>19, <1>20, <1>21
  <2> QED
    BY <2>1 DEF StreamsOK
<1>23. Shape'
  BY <1>1, <1>2, <1>9, <1>12, <1>16 DEF Shape
<1>24. Unmade'
  BY <1>1, <1>2, <1>3, <1>8, <1>9, <1>12, <1>15 DEF Unmade
<1>25. Handshake'
  BY <1>1, <1>2, <1>15 DEF Handshake, Ends
<1> QED
  BY <1>11, <1>12, <1>14, <1>16, <1>17, <1>22, <1>23, <1>24, <1>25 DEF UtpInv, f

----------------------------------------------------------------------------
(* The receive pump.                                                       *)

NewStream(x, z, s) ==
    /\ s \in StateType /\ s.seq = x /\ s.expected = z
    /\ s.unacked = <<>> /\ s.recvBuf = <<>> /\ s.outOfOrder = {}
    /\ s.writeClosed = FALSE

LEMMA NewStreamFields ==
    ASSUME NEW x \in Nat, NEW y \in Nat, NEW z \in Nat
    PROVE  NewStream(x, z, StreamState(x, y, z))
<1>1. RecvWnd \in Int /\ SeqMod \in Nat
  BY Sizes
<1>2. <<>> \in Seq(ChunkType) /\ <<>> \in Seq(Nat)
  OBVIOUS
<1> QED
  BY <1>1, <1>2 DEF StreamState, StateType, NoSeq, NewStream

\* A stream that was just made has nothing written and nothing read.
LEMMA NewStreamIsGood ==
    ASSUME Shape, NEW e \in Ends, sent[e] = 0, got[e] = <<>>,
           NEW s \in StateType, s.seq = First(e), s.expected = First(Other(e)),
           s.unacked = <<>>, s.recvBuf = <<>>, s.outOfOrder = {}, s.writeClosed = FALSE
    PROVE  Good(e, s) /\ s.expected # 0
<1>1. First(e) \in Nat /\ First(Other(e)) \in Nat /\ First(Other(e)) # 0
  BY DEF First
<1>2. sent[Other(e)] \in Nat
  BY Others DEF Shape
<1>3. Len(<<>>) = 0 /\ <<>> \in Seq(Written(e)) /\ 1..0 = {}
  OBVIOUS
<1>4. Sending(e, s)
  BY <1>1, <1>3 DEF Sending
<1>5. Receiving(e, s)
  <2>1. IsFiniteSet({})
    BY FS_EmptySet
  <2> QED
    BY <1>1, <1>2, <1>3, <2>1 DEF Receiving
<1> QED
  BY <1>1, <1>4, <1>5 DEF Good

\* The SYN-ACK of a SYN.
SynAck(p) == Packet(Other(p.to), "STATE", 1, p.seq, RecvWnd, NoPayload, 0)

LEMMA RecvSynKeeps ==
    ASSUME UtpInv, NEW p \in net, RecvSyn(p, net \ {p}), UNCHANGED <<todo, sent, got, eof>>
    PROVE  UtpInv'
<1>1. Shape /\ NumbersFit /\ StreamsOK /\ InTransit /\ Unmade /\ Handshake
  BY DEF UtpInv
<1>2. /\ p.type = "SYN" /\ dial' = dial
      /\ st' = [st EXCEPT ![p.to] = StreamState(1, p.seq, Succ(p.seq))]
      /\ reg' = [reg EXCEPT ![p.to] = TRUE]
      /\ handle' = [handle EXCEPT ![p.to] = "open"]
      /\ net' = (net \ {p}) \cup {SynAck(p)}
  BY DEF RecvSyn, SynAck
<1>3. p = Syn /\ ~Made("b") /\ dial # "idle" /\ p.to = "b" /\ p.seq = 1
  BY <1>1, <1>2 DEF InTransit, Syn, Packet
<1>4. "a" \in Ends /\ "b" \in Ends /\ Other("b") = "a" /\ \A e \in Ends : e = "a" \/ e = "b"
  BY Others DEF Ends
<1>5. /\ sent["b"] = 0 /\ got["b"] = <<>> /\ handle["b"] = "none"
  BY <1>1, <1>3, <1>4 DEF Unmade
<1>6. Succ(1) = 2
  <2>1. SeqMod \in Nat /\ 2 < SeqMod
    <3>1. /\ SeqMod \in Nat /\ sent["b"] \in Nat /\ First("b") \in 1..2
          /\ 2 * (First("b") + sent["b"]) + 1 < SeqMod
      BY <1>1, <1>4, Numbers
    <3> QED
      BY <3>1
  <2> QED
    BY <2>1 DEF Succ
<1>7. PICK s : s = StreamState(1, 1, 2)
  OBVIOUS
<1>8. st' = [st EXCEPT !["b"] = s]
  BY <1>2, <1>3, <1>6, <1>7
<1>9. Good("b", s) /\ s.expected # 0
  <2>1. /\ s \in StateType /\ s.seq = 1 /\ s.expected = 2
        /\ s.unacked = <<>> /\ s.recvBuf = <<>> /\ s.outOfOrder = {}
        /\ s.writeClosed = FALSE
    <3>1. NewStream(1, 2, s)
      BY <1>7, NewStreamFields
    <3> QED
      BY <3>1 DEF NewStream
  <2>2. First("b") = 1 /\ First(Other("b")) = 2
    BY <1>4 DEF First
  <2> QED
    BY <1>1, <1>4, <1>5, <2>1, <2>2, NewStreamIsGood
<1>10. /\ st' \in [Ends -> StateType] /\ NumbersFit' /\ StreamsOK'
       /\ st'["b"] = s /\ st'["a"] = st["a"]
  BY <1>1, <1>4, <1>8, <1>9, OneEnd
<1>11. Made("b")' /\ Made("a")' = Made("a")
  BY <1>9, <1>10 DEF Made
<1>12. PICK q : q = SynAck(p)
  OBVIOUS
<1>13. q \in PacketType /\ q.type = "STATE" /\ q.to = "a" /\ q.seq = 1
  BY <1>3, <1>4, <1>12, Sizes DEF SynAck, Packet, PacketType, Types, NoPayload
<1>14. net' \subseteq PacketType
  BY <1>1, <1>2, <1>12, <1>13 DEF Shape
<1>15. \A x \in net' : (x \in net /\ x # Syn) \/ x = q
  BY <1>2, <1>3, <1>12
<1>16. InTransit'
  <2>1. ASSUME NEW x \in net', x.type = "DATA"
        PROVE  [seq |-> x.seq, payload |-> x.payload] \in Written(Other(x.to))'
    <3>1. x \in net
      BY <1>13, <1>15, <2>1
    <3>2. [seq |-> x.seq, payload |-> x.payload] \in Written(Other(x.to))
      BY <1>1, <2>1, <3>1 DEF InTransit
    <3>3. Written(Other(x.to))' = Written(Other(x.to))
      BY DEF Written
    <3> QED
      BY <3>2, <3>3
  <2>2. \A x \in net' : x.type # "SYN"
    BY <1>1, <1>13, <1>15 DEF InTransit
  <2>3. ~Made("a")' => \A x \in net' : /\ x.to = "b" => x = Syn
                                       /\ (x.to = "a" /\ x.type = "STATE") => x.seq = 1
    BY <1>1, <1>11, <1>13, <1>15 DEF InTransit
  <2> QED
    BY <2>1, <2>2, <2>3 DEF InTransit
<1>17. Shape'
  BY <1>1, <1>2, <1>3, <1>4, <1>10, <1>14 DEF Shape
<1>18. handle'["a"] = handle["a"] /\ reg'["a"] = reg["a"]
  BY <1>1, <1>2, <1>3, <1>4 DEF Shape
<1>19. Unmade'
  BY <1>1, <1>4, <1>10, <1>11, <1>18 DEF Unmade
<1>20. Handshake'
  BY <1>1, <1>2, <1>3, <1>4, <1>5, <1>11, <1>18 DEF Handshake
<1> QED
  BY <1>10, <1>16, <1>17, <1>19, <1>20 DEF UtpInv

\* The answer to a SYN makes the dialer's stream; nothing else makes one.
WithLastAck(s, x) == [s EXCEPT !.lastAck = x]

LEMMA RecvUnknownKeeps ==
    ASSUME UtpInv, NEW p \in net, NEW rest, rest \subseteq net, RecvUnknown(p, rest),
           UNCHANGED <<todo, sent, got, eof>>
    PROVE  UtpInv'
<1>1. Shape /\ NumbersFit /\ StreamsOK /\ InTransit /\ Unmade /\ Handshake
  BY DEF UtpInv
<1>2. net' \subseteq net /\ handle' = handle
  BY DEF RecvUnknown
<1>3. CASE ~(p.to = "a" /\ dial = "syn" /\ p.type = "STATE" /\ p.ack = 1)
  <2>1. UNCHANGED <<dial, reg, st>>
    BY <1>3 DEF RecvUnknown
  <2>2. /\ net' \subseteq PacketType /\ InTransit' /\ NumbersFit' /\ StreamsOK'
        /\ st' \in [Ends -> StateType] /\ \A f \in Ends : Made(f)' = Made(f)
    BY <1>2, <2>1, IdleStep
  <2>3. Shape'
    BY <1>1, <1>2, <2>1, <2>2 DEF Shape
  <2>4. Unmade' /\ Handshake'
    BY <1>1, <1>2, <2>1, <2>2, SameHands DEF Handshake, Made
  <2> QED
    BY <2>2, <2>3, <2>4 DEF UtpInv
<1>4. CASE p.to = "a" /\ dial = "syn" /\ p.type = "STATE" /\ p.ack = 1
  <2>1. /\ dial' = "ready" /\ reg' = [reg EXCEPT !["a"] = TRUE]
        /\ st' = [st EXCEPT !["a"] = WithLastAck(StreamState(2, Sub(p.seq, 1), p.seq), p.ack)]
    BY <1>4 DEF RecvUnknown, WithLastAck
  <2>2. ~Made("a") /\ p.seq = 1
    BY <1>1, <1>4 DEF Handshake, InTransit
  <2>3. "a" \in Ends /\ "b" \in Ends /\ Other("a") = "b" /\ \A e \in Ends : e = "a" \/ e = "b"
    BY Others DEF Ends
  <2>4. sent["a"] = 0 /\ got["a"] = <<>> /\ handle["a"] = "none"
    BY <1>1, <2>2, <2>3 DEF Unmade
  <2>5. PICK z : z = StreamState(2, Sub(1, 1), 1)
    OBVIOUS
  <2>6. PICK s : s = WithLastAck(z, 1)
    OBVIOUS
  <2>7. st' = [st EXCEPT !["a"] = s]
    BY <1>4, <2>1, <2>2, <2>5, <2>6
  <2>8. Good("a", s) /\ s.expected # 0
    <3>1. Sub(1, 1) \in Nat
      <4>1. /\ SeqMod \in Nat /\ sent["a"] \in Nat /\ First("a") \in 1..2
            /\ 2 * (First("a") + sent["a"]) + 1 < SeqMod
        BY <1>1, <2>3, Numbers
      <4>2. SeqMod \in Nat /\ SeqMod > 0
        BY <4>1
      <4> QED
        BY <4>2, SubType
    <3>2. /\ z \in StateType /\ z.seq = 2 /\ z.expected = 1
          /\ z.unacked = <<>> /\ z.recvBuf = <<>> /\ z.outOfOrder = {}
          /\ z.writeClosed = FALSE
      <4>1. NewStream(2, 1, z)
        BY <2>5, <3>1, NewStreamFields
      <4> QED
        BY <4>1 DEF NewStream
    <3>3. /\ s \in StateType /\ s.seq = 2 /\ s.expected = 1
          /\ s.unacked = <<>> /\ s.recvBuf = <<>> /\ s.outOfOrder = {}
          /\ s.writeClosed = FALSE
      BY <2>6, <3>2 DEF WithLastAck, StateType
    <3>4. First("a") = 2 /\ First(Other("a")) = 1
      BY <2>3 DEF First
    <3> QED
      BY <1>1, <2>3, <2>4, <3>3, <3>4, NewStreamIsGood
  <2>9. /\ st' \in [Ends -> StateType] /\ NumbersFit' /\ StreamsOK'
        /\ st'["a"] = s /\ st'["b"] = st["b"]
    BY <1>1, <2>3, <2>7, <2>8, OneEnd
  <2>10. Made("a")' /\ Made("b")' = Made("b")
    BY <2>8, <2>9 DEF Made
  <2>11. InTransit'
    <3>1. ASSUME NEW x \in net', x.type = "DATA"
          PROVE  [seq |-> x.seq, payload |-> x.payload] \in Written(Other(x.to))'
      <4>1. [seq |-> x.seq, payload |-> x.payload] \in Written(Other(x.to))
        BY <1>1, <1>2, <3>1 DEF InTransit
      <4>2. Written(Other(x.to))' = Written(Other(x.to))
        BY DEF Written
      <4> QED
        BY <4>1, <4>2
    <3> QED
      BY <1>1, <1>2, <2>1, <2>10, <3>1 DEF InTransit
  <2>12. Shape'
    BY <1>1, <1>2, <2>1, <2>9 DEF Shape
  <2>13. reg'["b"] = reg["b"]
    BY <1>1, <2>1, <2>3 DEF Shape
  <2>14. Unmade'
    BY <1>1, <1>2, <2>3, <2>9, <2>10, <2>13 DEF Unmade
  <2>15. Handshake'
    BY <1>1, <1>2, <2>1, <2>3, <2>4, <2>10 DEF Handshake
  <2> QED
    BY <2>9, <2>11, <2>12, <2>14, <2>15 DEF UtpInv
<1> QED
  BY <1>3, <1>4

\* A packet for a stream: it acknowledges, and brings a chunk or the end.
LEMMA RecvStreamKeeps ==
    ASSUME UtpInv, NEW p \in net, NEW rest, rest \subseteq net, RecvStream(p, rest),
           UNCHANGED <<todo, sent, got, eof>>
    PROVE  UtpInv'
<1>1. Shape /\ NumbersFit /\ StreamsOK /\ InTransit /\ Unmade /\ Handshake
  BY DEF UtpInv
<1>2. PICK e : e = p.to
  OBVIOUS
<1>3. PICK s : s = Acknowledge(st[e], p)
  OBVIOUS
<1>4. PICK fast \in BOOLEAN : fast = FastResend(s, p)
  BY DEF FastResend
<1>5. PICK r : r = IF fast THEN WithFast(s, Head(s.unacked).seq) ELSE s
  OBVIOUS
<1>6. PICK t : t = CASE p.type = "DATA" -> TakeData(r, p)
                     [] p.type = "FIN" -> TakeFin(r, p)
                     [] OTHER -> r
  OBVIOUS
<1>7. PICK answer : answer = (p.type \in {"DATA", "FIN"})
  OBVIOUS
<1>8. PICK sack : sack = IF p.type = "DATA" THEN SelectiveAck(t) ELSE 0
  OBVIOUS
<1>9. PICK u : u = IF answer THEN Advertise(t) ELSE t
  OBVIOUS
<1>10. PICK Q : Q = (IF fast THEN {DataPacket(e, s, Head(s.unacked))} ELSE {})
                    \cup (IF answer THEN {AckPacket(e, t, sack)} ELSE {})
  BY Zenon
<1>11. /\ p.type # "SYN" /\ reg[e]
       /\ st' = [st EXCEPT ![e] = u] /\ net' \subseteq net \cup Q
       /\ UNCHANGED <<dial, reg, handle>>
  BY <1>2, <1>3, <1>4, <1>5, <1>6, <1>7, <1>8, <1>9, <1>10, ZenonT(60)
     DEF RecvStream, Advertise, WithFast
<1>12. p \in PacketType /\ e \in Ends
  BY <1>1, <1>2 DEF Shape, PacketType
<1>13. Made(e) /\ Good(e, st[e]) /\ st[e].expected # 0
  BY <1>1, <1>11, <1>12 DEF Unmade, Made, Good, StreamsOK, Shape
<1>14. Made("a")
  BY <1>1, <1>2, <1>11, <1>12, <1>13 DEF InTransit, Syn, Packet, Ends
<1>15. Good(e, s) /\ s.expected # 0
  BY <1>3, <1>12, <1>13, AcknowledgeIsGood
<1>16. fast => s.unacked # <<>>
  BY <1>4 DEF FastResend
<1>17. Good(e, r) /\ r.expected # 0
  <2>1. CASE fast
    BY <1>5, <1>12, <1>15, <1>16, <2>1, OldestWasWritten, FastIsGood
  <2>2. CASE ~fast
    BY <1>5, <1>15, <2>2
  <2> QED
    BY <2>1, <2>2
<1>18. Good(e, t) /\ t.expected # 0
  <2>1. CASE p.type = "DATA"
    <3>1. [seq |-> p.seq, payload |-> p.payload] \in Written(Other(e))
      BY <1>1, <1>2, <2>1 DEF InTransit
    <3>2. t = TakeData(r, p)
      BY <1>6, <2>1
    <3> QED
      BY <1>1, <1>12, <1>17, <3>1, <3>2, DataIsGood
  <2>2. CASE p.type = "FIN"
    <3>1. t = TakeFin(r, p)
      BY <1>6, <2>2
    <3> QED
      BY <1>12, <1>17, <3>1, FinIsGood
  <2>3. CASE p.type # "DATA" /\ p.type # "FIN"
    BY <1>6, <1>17, <2>3
  <2> QED
    BY <2>1, <2>2, <2>3
<1>19. Good(e, u) /\ u.expected # 0
  <2>1. CASE answer
    BY <1>9, <1>12, <1>18, <2>1, AdvertiseIsGood
  <2>2. CASE ~answer
    BY <1>9, <1>18, <2>2
  <2> QED
    BY <2>1, <2>2
<1>20. \A q \in Q : Fresh(q)
  <2>1. ASSUME fast PROVE Fresh(DataPacket(e, s, Head(s.unacked)))
    <3> DEFINE o == Head(s.unacked)
               q == DataPacket(e, s, o)
    <3>1. o \in Written(e) /\ o \in ChunkType
      BY <1>12, <1>15, <1>16, <2>1, OldestWasWritten DEF Written
    <3>2. s \in StateType
      BY <1>15 DEF Good
    <3> HIDE DEF o
    <3>3. /\ q \in PacketType /\ q.to = Other(e) /\ q.type = "DATA"
          /\ [seq |-> q.seq, payload |-> q.payload] = o
      BY <1>12, <3>1, <3>2, DataPacketShape
    <3> HIDE DEF q
    <3>4. Other(q.to) = e
      BY <1>12, <3>3, Others
    <3>5. Fresh(q)
      BY <1>14, <3>1, <3>3, <3>4 DEF Fresh
    <3> QED
      BY <3>5 DEF q, o
  <2>2. Fresh(AckPacket(e, t, sack))
    <3>1. t \in StateType /\ IsFiniteSet(t.outOfOrder)
      BY <1>18 DEF Good, Receiving
    <3>2. sack \in Nat
      BY <1>8, <3>1, SackType
    <3>3. AckPacket(e, t, sack) \in PacketType /\ AckPacket(e, t, sack).type = "STATE"
      BY <1>12, <3>1, <3>2, AckPacketShape
    <3> QED
      BY <1>14, <3>3 DEF Fresh
  <2> QED
    BY <1>10, <2>1, <2>2
<1> QED
  BY <1>11, <1>12, <1>13, <1>19, <1>20, StreamStepKeeps

----------------------------------------------------------------------------
(* The theorems.                                                           *)

LEMMA UtpInit == Init => UtpInv /\ NoOrphanStream
<1> SUFFICES ASSUME Init PROVE UtpInv /\ NoOrphanStream
  OBVIOUS
<1>1. /\ net = {} /\ dial = "idle" /\ st = [e \in Ends |-> StreamState(1, 0, 0)]
      /\ reg = [e \in Ends |-> FALSE] /\ handle = [e \in Ends |-> "none"]
      /\ todo \in Loads /\ sent = [e \in Ends |-> 0]
      /\ got = [e \in Ends |-> <<>>] /\ eof = [e \in Ends |-> FALSE]
  BY DEF Init
<1>2. PICK s : s = StreamState(1, 0, 0)
  OBVIOUS
<1>3. NewStream(1, 0, s)
  BY <1>2, NewStreamFields
<1>4. \A e \in Ends : st[e] = s
  BY <1>1, <1>2
<1>5. Shape
  <2>1. st \in [Ends -> StateType]
    BY <1>1, <1>2, <1>3 DEF NewStream
  <2>2. todo \in [Ends -> Nat]
    BY <1>1, UtpAssumption
  <2> QED
    BY <1>1, <2>1, <2>2 DEF Shape
<1>6. NumbersFit
  <2> SUFFICES ASSUME NEW e \in Ends PROVE 2 * (sent[e] + todo[e] + 3) <= SeqMod
    BY DEF NumbersFit
  <2>1. todo[e] \in Nat /\ SeqMod \in Nat /\ SeqMod >= 2 * (todo[e] + 3)
    BY <1>1, Sizes
  <2>2. sent[e] = 0
    BY <1>1
  <2> QED
    BY <2>1, <2>2
<1>7. StreamsOK
  <2> SUFFICES ASSUME NEW e \in Ends PROVE Sending(e, st[e]) /\ Receiving(e, st[e])
    BY DEF StreamsOK
  <2>1. /\ st[e].expected = 0 /\ st[e].unacked = <<>>
        /\ st[e].recvBuf = <<>> /\ st[e].outOfOrder = {}
    BY <1>3, <1>4 DEF NewStream
  <2>2. /\ Other(e) \in Ends /\ got[e] = <<>> /\ sent[Other(e)] = 0
    BY <1>1, Others
  <2>3. Len(<<>>) = 0 /\ <<>> \in Seq(Written(e)) /\ 1..0 = {} /\ 0 + 0 <= 0
    OBVIOUS
  <2>4. IsFiniteSet({})
    BY FS_EmptySet
  <2> QED
    BY <2>1, <2>2, <2>3, <2>4 DEF Sending, Receiving
<1>8. \A e \in Ends : ~Made(e) /\ st[e].recvBuf = <<>> /\ st[e].unacked = <<>>
  BY <1>3, <1>4 DEF Made, NewStream
<1>9. InTransit /\ Unmade /\ Handshake /\ NoOrphanStream
  BY <1>1, <1>8 DEF InTransit, Unmade, Handshake, NoOrphanStream, Ends
<1> QED
  BY <1>5, <1>6, <1>7, <1>9 DEF UtpInv

LEMMA PumpKeeps ==
    ASSUME UtpInv, NEW p \in net, Receive(p) \/ Duplicate(p)
    PROVE  UtpInv'
<1>1. CASE Receive(p)
  <2>1. UNCHANGED <<todo, sent, got, eof>> /\ net \ {p} \subseteq net
    BY <1>1 DEF Receive, Pump
  <2>2. RecvSyn(p, net \ {p}) \/ RecvUnknown(p, net \ {p}) \/ RecvStream(p, net \ {p})
    BY <1>1 DEF Receive, Pump
  <2> QED
    BY <2>1, <2>2, RecvSynKeeps, RecvUnknownKeeps, RecvStreamKeeps
<1>2. CASE Duplicate(p)
  <2>1. UNCHANGED <<todo, sent, got, eof>> /\ net \subseteq net
    BY <1>2 DEF Duplicate, Pump
  <2>2. RecvUnknown(p, net) \/ RecvStream(p, net)
    BY <1>2 DEF Duplicate, Pump, RecvSyn
  <2> QED
    BY <2>1, <2>2, RecvUnknownKeeps, RecvStreamKeeps
<1> QED
  BY <1>1, <1>2

LEMMA UtpStep == UtpInv /\ [Next]_vars => UtpInv'
<1> SUFFICES ASSUME UtpInv, [Next]_vars PROVE UtpInv'
  OBVIOUS
<1>1. CASE Connect
  BY <1>1, ConnectKeeps
<1>2. CASE Connected
  BY <1>2, ConnectedKeeps
<1>3. CASE CancelConnect
  BY <1>3, CancelConnectKeeps
<1>4. ASSUME NEW e \in Ends, Write(e) PROVE UtpInv'
  BY <1>4, WriteKeeps
<1>5. ASSUME NEW e \in Ends, Resend(e) PROVE UtpInv'
  BY <1>5, ResendKeeps
<1>6. ASSUME NEW e \in Ends, Read(e) PROVE UtpInv'
  BY <1>6, ReadKeeps
<1>7. ASSUME NEW e \in Ends, ReadEnd(e) PROVE UtpInv'
  BY <1>7, ReadEndKeeps
<1>8. ASSUME NEW e \in Ends, Shutdown(e) PROVE UtpInv'
  <2>1. /\ Fin(e) /\ handle[e] # "none"
        /\ UNCHANGED <<dial, todo, sent, got, eof>> /\ UNCHANGED <<reg, handle>>
    BY <1>8 DEF Shutdown
  <2> QED
    BY <2>1, FinKeeps
<1>9. ASSUME NEW e \in Ends, Drop(e) PROVE UtpInv'
  <2>1. /\ Fin(e) /\ handle[e] # "none" /\ UNCHANGED <<dial, todo, sent, got, eof>>
        /\ handle' = [handle EXCEPT ![e] = "dropped"]
        /\ reg' = [reg EXCEPT ![e] = FALSE]
    BY <1>9 DEF Drop
  <2> QED
    BY <2>1, FinKeeps
<1>10. ASSUME NEW e \in Ends, CloseSocket(e) PROVE UtpInv'
  BY <1>10, CloseSocketKeeps
<1>11. ASSUME NEW p \in net, Receive(p) \/ Duplicate(p) PROVE UtpInv'
  BY <1>11, PumpKeeps
<1>12. ASSUME NEW p \in net, Lose(p) PROVE UtpInv'
  BY <1>12, LoseKeeps
<1>13. CASE UNCHANGED vars
  <2>1. /\ UNCHANGED <<st, todo, sent, got>> /\ net' \subseteq net
        /\ UNCHANGED <<dial, reg, handle, eof>>
    BY <1>13 DEF vars
  <2>2. /\ net' \subseteq PacketType /\ InTransit' /\ NumbersFit' /\ StreamsOK'
        /\ st' \in [Ends -> StateType] /\ \A f \in Ends : Made(f)' = Made(f)
    BY <2>1, IdleStep
  <2>3. Shape' /\ Unmade' /\ Handshake'
    BY <2>1, <2>2 DEF UtpInv, Shape, Unmade, Handshake, Made
  <2> QED
    BY <2>2, <2>3 DEF UtpInv
<1> QED
  BY <1>1, <1>2, <1>3, <1>4, <1>5, <1>6, <1>7, <1>8, <1>9, <1>10, <1>11, <1>12, <1>13
     DEF Next

\* A stream in the dialer's registry is there for a connect that is not
\* cancelled: CancelConnect takes away what the pump made for it.
LEMMA OrphanStep == UtpInv /\ NoOrphanStream /\ [Next]_vars => NoOrphanStream'
<1> SUFFICES ASSUME UtpInv, NoOrphanStream, [Next]_vars, dial' = "cancelled"
             PROVE  ~reg'["a"]
  BY DEF NoOrphanStream
<1>1. reg \in [Ends -> BOOLEAN] /\ "a" \in Ends
  BY DEF UtpInv, Shape, Ends
<1>2. ASSUME NEW p \in net, NEW rest, Pump(p, rest) PROVE ~reg'["a"]
  <2>1. CASE RecvSyn(p, rest)
    <3>1. p.to = "b"
      BY <2>1 DEF RecvSyn, UtpInv, InTransit, Syn, Packet
    <3> QED
      BY <1>1, <2>1, <3>1 DEF RecvSyn, NoOrphanStream
  <2>2. CASE RecvUnknown(p, rest)
    BY <1>1, <2>2 DEF RecvUnknown, NoOrphanStream
  <2>3. CASE RecvStream(p, rest)
    BY <2>3 DEF RecvStream, NoOrphanStream
  <2> QED
    BY <1>2, <2>1, <2>2, <2>3 DEF Pump
<1>3. CASE \E p \in net : Receive(p) \/ Duplicate(p)
  BY <1>2, <1>3 DEF Receive, Duplicate
<1>4. CASE Connect \/ Connected \/ CancelConnect \/ \E p \in net : Lose(p)
  BY <1>1, <1>4 DEF Connect, Connected, CancelConnect, Lose, NoOrphanStream
<1>5. CASE \E e \in Ends : Write(e) \/ Resend(e) \/ Read(e) \/ ReadEnd(e) \/ Shutdown(e)
  BY <1>5 DEF Write, Resend, Read, ReadEnd, Shutdown, NoOrphanStream
<1>6. CASE \E e \in Ends : Drop(e) \/ CloseSocket(e)
  BY <1>1, <1>6 DEF Drop, CloseSocket, NoOrphanStream
<1>7. CASE UNCHANGED vars
  BY <1>7 DEF vars, NoOrphanStream
<1> QED
  BY <1>3, <1>4, <1>5, <1>6, <1>7 DEF Next

\* The comment on PendingConnect, for every load and every fault: a cancelled
\* connect leaves no stream in the registry (NoOrphanStream).
THEOREM NoOrphan == Spec => []NoOrphanStream
<1>1. Init => UtpInv /\ NoOrphanStream
  BY UtpInit
<1>2. UtpInv /\ NoOrphanStream /\ [Next]_vars => UtpInv' /\ NoOrphanStream'
  BY UtpStep, OrphanStep
<1> QED
  BY <1>1, <1>2, PTL DEF Spec

\* What a step does to the streams that the applications see.
LEMMA StreamStepMaps == UtpInv /\ [Next]_vars => [Stream!Next]_(Stream!vars)
<1> SUFFICES ASSUME UtpInv, [Next]_vars PROVE Stream!Next \/ UNCHANGED <<sent, got, eof>>
  BY DEF Stream!vars
<1>1. CASE Connect \/ Connected \/ CancelConnect
  BY <1>1 DEF Connect, Connected, CancelConnect
<1>2. CASE \E p \in net : Receive(p) \/ Lose(p) \/ Duplicate(p)
  BY <1>2 DEF Receive, Lose, Duplicate, Pump
<1>3. ASSUME NEW e \in Ends, Write(e) PROVE Stream!Next
  <2>1. Stream!Write(e)
    BY <1>3 DEF Write, Stream!Write
  <2> QED
    BY <2>1 DEF Stream!Next
<1>4. ASSUME NEW e \in Ends, Read(e) PROVE Stream!Next
  <2>1. /\ got'[e] = Append(got[e], Len(got[e]) + 1) /\ Len(got[e]) < sent[Other(e)]
    BY <1>4, ReadKeeps
  <2>2. Other(e) \in Ends \ {e}
    BY Others
  <2>3. ~eof[e]
    BY <1>4 DEF Read, UtpInv, Handshake
  <2>4. got' = [got EXCEPT ![e] = Append(@, Len(@) + 1)] /\ UNCHANGED <<sent, eof>>
    <3>1. got \in [Ends -> Seq(Nat)]
      BY DEF UtpInv, Shape
    <3>2. PICK x : got' = [got EXCEPT ![e] = Append(@, x)]
      BY <1>4 DEF Read
    <3>3. got' = [got EXCEPT ![e] = got'[e]]
      BY <3>1, <3>2
    <3> QED
      BY <1>4, <2>1, <3>1, <3>3 DEF Read
  <2>5. Stream!Read(e)
    BY <2>1, <2>2, <2>3, <2>4 DEF Stream!Read
  <2> QED
    BY <2>5 DEF Stream!Next
<1>5. ASSUME NEW e \in Ends, ReadEnd(e) PROVE Stream!Next
  <2>1. Stream!End(e)
    BY <1>5 DEF ReadEnd, Stream!End
  <2> QED
    BY <2>1 DEF Stream!Next
<1>6. CASE \E e \in Ends : Resend(e) \/ Shutdown(e) \/ Drop(e) \/ CloseSocket(e)
  BY <1>6 DEF Resend, Shutdown, Drop, CloseSocket
<1>7. CASE UNCHANGED vars
  BY <1>7 DEF vars
<1> QED
  BY <1>1, <1>2, <1>3, <1>4, <1>5, <1>6, <1>7 DEF Next

\* The connection is a byte stream in each direction, whatever the network
\* loses, duplicates or reorders and whichever end resends, shuts down, drops
\* or resets: Utp implements ByteStream (ImplementsByteStream).
THEOREM IsByteStream == Spec => ImplementsByteStream
<1>1. Init => UtpInv
  BY UtpInit
<1>2. Init => Stream!Init
  BY DEF Init, Stream!Init
<1>3. UtpInv /\ [Next]_vars => UtpInv'
  BY UtpStep
<1>4. UtpInv /\ [Next]_vars => [Stream!Next]_(Stream!vars)
  BY StreamStepMaps
<1> QED
  BY <1>1, <1>2, <1>3, <1>4, PTL DEF Spec, ImplementsByteStream, Stream!Spec
=============================================================================
