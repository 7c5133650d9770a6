------------------------------- MODULE Utp --------------------------------
(***************************************************************************)
(* One uTP connection of wt-wire/src/utp.rs between the end that dials it  *)
(* ("a") and the end that accepts it ("b"), over a network that loses,     *)
(* duplicates and reorders datagrams.                                      *)
(*                                                                         *)
(* Both ends run the code: connect, accept, poll_read, poll_write, the     *)
(* shutdown and the drop of a stream, and the receive pump of UtpSocket.   *)
(* A packet carries one chunk; the windows are counted in chunks.  The     *)
(* congestion window and the round-trip estimate are left out: a writer    *)
(* may stop sending at any number of chunks in flight above zero, and a    *)
(* timer may run out whenever something is unacknowledged.                 *)
(***************************************************************************)
EXTENDS Integers, Sequences, FiniteSets

CONSTANTS
    Loads,       \* what the two applications may have to write, in chunks
    RecvWnd,     \* DEFAULT_RECV_WND
    WndUpdate,   \* WINDOW_UPDATE_BYTES
    Cwnd,        \* MAX_CWND
    DupAcks,     \* DUP_ACKS_BEFORE_RESEND
    SeqMod,      \* 2^16: sequence numbers are u16
    MaxFaults,   \* bound: datagrams lost or duplicated
    MaxNet,      \* bound: resends and FINs wait while this many are in transit
    MayClose     \* the ends that may shut down, drop the stream or the socket

Ends == {"a", "b"}
Other(e) == CHOOSE f \in Ends : f # e

ASSUME UtpAssumption ==
    /\ Loads \subseteq [Ends -> Nat]
    /\ {RecvWnd, WndUpdate, Cwnd, DupAcks} \subseteq Nat \ {0}
    /\ SeqMod \in Nat /\ \A l \in Loads, e \in Ends : SeqMod >= 2 * (l[e] + 3)
    /\ {MaxFaults, MaxNet} \subseteq Nat
    /\ MayClose \subseteq Ends

VARIABLES
    net,     \* the datagrams in transit
    faults,  \* datagrams lost or duplicated so far
    dial,    \* the connect future of end a and its SYN registration
    st,      \* st[e]: StreamState
    reg,     \* reg[e]: the stream is in the socket's registry
    handle,  \* handle[e]: the application's UtpStream
    todo,    \* todo[e]: chunks the application has still to write
    sent,    \* sent[e]: chunks written by the application
    got,     \* got[e]: chunks read by the application
    eof      \* eof[e]: a read of the application returned the end

vars == <<net, faults, dial, st, reg, handle, todo, sent, got, eof>>

---------------------------------------------------------------------------
(* Sequence numbers are u16 and compared as i16. *)

Sub(x, y) == (x - y) % SeqMod
Positive(d) == d > 0 /\ d < SeqMod \div 2
NonNegative(d) == d < SeqMod \div 2
Succ(x) == (x + 1) % SeqMod

NoSeq == SeqMod      \* Option::None

(* StreamState::new, with the numbers its two callers overwrite *)
StreamState(seq, ack, expected) ==
    [seq |-> seq, ack |-> ack, expected |-> expected, lastAck |-> 0,
     remoteWnd |-> RecvWnd, unacked |-> <<>>, dups |-> 0, fast |-> NoSeq,
     recvBuf |-> <<>>, outOfOrder |-> {}, advertised |-> RecvWnd,
     readClosed |-> FALSE, writeClosed |-> FALSE, isReset |-> FALSE]

NoPayload == 0

(* PacketHeader with its payload, and the number of bits of its selective ack *)
Packet(to, type, seq, ack, wnd, payload, sack) ==
    [to |-> to, type |-> type, seq |-> seq, ack |-> ack, wnd |-> wnd,
     payload |-> payload, sack |-> sack]

(* Mutant: the chunk being read is counted as free space twice. *)
WindowTooWide(s) == RecvWnd - Len(s.recvBuf) + 1

Window(s) == RecvWnd - Len(s.recvBuf)

(* The mask starts at ack + 2; after a FIN that overtook data, ack is ahead
   of what is held and the length byte of the mask wraps to 0. *)
SelectiveAck(s) ==
    Cardinality({o \in s.outOfOrder : Sub(o.seq, s.ack) >= 2
                                      /\ Positive(Sub(o.seq, s.ack))})

AckPacket(e, s, sack) ==
    Packet(Other(e), "STATE", s.seq, s.ack, Window(s), NoPayload, sack)

DataPacket(e, s, o) ==
    Packet(Other(e), "DATA", o.seq, s.ack, Window(s), o.payload, 0)

Room == Cardinality(net) < MaxNet

---------------------------------------------------------------------------
(* connect *)

Init ==
    /\ net = {} /\ faults = 0
    /\ dial = "idle"
    /\ st = [e \in Ends |-> StreamState(1, 0, 0)]
    /\ reg = [e \in Ends |-> FALSE]
    /\ handle = [e \in Ends |-> "none"]
    /\ todo \in Loads
    /\ sent = [e \in Ends |-> 0]
    /\ got = [e \in Ends |-> <<>>]
    /\ eof = [e \in Ends |-> FALSE]

Connect ==
    /\ dial = "idle"
    /\ dial' = "syn"
    /\ net' = net \cup {Packet("b", "SYN", 1, 0, RecvWnd, NoPayload, 0)}
    /\ UNCHANGED <<faults, st, reg, handle, todo, sent, got, eof>>

(* The connect future takes the stream that the pump made for it. *)
Connected ==
    /\ dial = "ready"
    /\ dial' = "done"
    /\ handle' = [handle EXCEPT !["a"] = "open"]
    /\ UNCHANGED <<net, faults, st, reg, todo, sent, got, eof>>

(* Mutant: only the SYN registration is removed. *)
CancelConnectSynOnly ==
    /\ "a" \in MayClose
    /\ dial \in {"syn", "ready"}
    /\ dial' = "cancelled"
    /\ UNCHANGED <<net, faults, st, reg, handle, todo, sent, got, eof>>

(* The connect future times out or is dropped by a lost dial race: what is
   registered under its key goes with it, the stream of a late SYN-ACK too. *)
CancelConnect ==
    /\ "a" \in MayClose
    /\ dial \in {"syn", "ready"}
    /\ dial' = "cancelled"
    /\ reg' = [reg EXCEPT !["a"] = FALSE]
    /\ UNCHANGED <<net, faults, st, handle, todo, sent, got, eof>>

---------------------------------------------------------------------------
(* The application: poll_write, poll_read, poll_shutdown, drop *)

Write(e) ==
    LET s == st[e]
        o == [seq |-> s.seq, payload |-> sent[e] + 1]
    IN  /\ handle[e] = "open" /\ ~s.writeClosed /\ ~s.isReset
        /\ todo[e] > 0
        /\ Len(s.unacked) < Cwnd /\ Len(s.unacked) < s.remoteWnd
        /\ net' = net \cup {DataPacket(e, s, o)}
        /\ st' = [st EXCEPT ![e].seq = Succ(@), ![e].unacked = Append(@, o),
                            ![e].advertised = Window(s)]
        /\ sent' = [sent EXCEPT ![e] = @ + 1]
        /\ todo' = [todo EXCEPT ![e] = @ - 1]
        /\ UNCHANGED <<faults, dial, reg, handle, got, eof>>

(* Mutant: only poll_write resends, when the window is full. *)
ResendOnWriteOnly(e) ==
    LET s == st[e]
    IN  /\ handle[e] = "open" /\ s.unacked # <<>>
        /\ todo[e] > 0 /\ Room
        /\ net' = net \cup {DataPacket(e, s, Head(s.unacked))}
        /\ st' = [st EXCEPT ![e].advertised = Window(s)]
        /\ UNCHANGED <<faults, dial, reg, handle, todo, sent, got, eof>>

(* The oldest packet went unanswered: poll_read after the timeout, poll_write
   after 50 ms when the window lets nothing new out.  Nothing else resends. *)
Resend(e) ==
    LET s == st[e]
    IN  /\ handle[e] = "open" /\ s.unacked # <<>>
        /\ Room
        /\ net' = net \cup {DataPacket(e, s, Head(s.unacked))}
        /\ st' = [st EXCEPT ![e].advertised = Window(s)]
        /\ UNCHANGED <<faults, dial, reg, handle, todo, sent, got, eof>>

(* A read that leaves the buffer emptier tells the peer when the window it
   last heard of was closed or has opened by WndUpdate since. *)
Read(e) ==
    LET s == [st[e] EXCEPT !.recvBuf = Tail(@)]
        tell == \/ Window(s) - s.advertised >= WndUpdate
                \/ s.advertised = 0 /\ Window(s) > 0
    IN  /\ handle[e] = "open" /\ st[e].recvBuf # <<>>
        /\ got' = [got EXCEPT ![e] = Append(@, Head(st[e].recvBuf))]
        /\ net' = IF tell THEN net \cup {AckPacket(e, s, SelectiveAck(s))} ELSE net
        /\ st' = [st EXCEPT ![e] =
                     IF tell THEN [s EXCEPT !.advertised = Window(s)] ELSE s]
        /\ UNCHANGED <<faults, dial, reg, handle, todo, sent, eof>>

ReadEnd(e) ==
    /\ handle[e] = "open" /\ ~eof[e]
    /\ st[e].recvBuf = <<>> /\ (st[e].readClosed \/ st[e].isReset)
    /\ eof' = [eof EXCEPT ![e] = TRUE]
    /\ handle' = [handle EXCEPT ![e] = "ended"]
    /\ UNCHANGED <<net, faults, dial, st, reg, todo, sent, got>>

(* close_write: the FIN takes a sequence number, and is sent this once *)
Fin(e) ==
    IF st[e].writeClosed \/ st[e].isReset
    THEN UNCHANGED <<net, st>>
    ELSE /\ net' = net \cup {Packet(Other(e), "FIN", st[e].seq, st[e].ack,
                                    Window(st[e]), NoPayload, 0)}
         /\ st' = [st EXCEPT ![e].writeClosed = TRUE, ![e].seq = Succ(@),
                             ![e].advertised = Window(st[e])]

Shutdown(e) ==
    /\ e \in MayClose /\ Room
    /\ handle[e] \in {"open", "ended"} /\ ~st[e].writeClosed
    /\ Fin(e)
    /\ UNCHANGED <<faults, dial, reg, handle, todo, sent, got, eof>>

Drop(e) ==
    /\ e \in MayClose /\ Room
    /\ handle[e] \in {"open", "ended"}
    /\ Fin(e)
    /\ handle' = [handle EXCEPT ![e] = "dropped"]
    /\ reg' = [reg EXCEPT ![e] = FALSE]
    /\ UNCHANGED <<faults, dial, todo, sent, got, eof>>

(* UtpSocket::close: pending connects fail, streams are reset and forgotten *)
CloseSocket(e) ==
    /\ e \in MayClose
    /\ reg[e] \/ (e = "a" /\ dial = "syn")
    /\ dial' = IF e = "a" /\ dial = "syn" THEN "cancelled" ELSE dial
    /\ st' = [st EXCEPT ![e].isReset = TRUE]
    /\ reg' = [reg EXCEPT ![e] = FALSE]
    /\ UNCHANGED <<net, faults, handle, todo, sent, got, eof>>

---------------------------------------------------------------------------
(* The receive pump *)

(* A SYN makes a stream and hands it to accept. *)
RecvSyn(p, rest) ==
    /\ p.type = "SYN"
    /\ st' = [st EXCEPT ![p.to] = StreamState(1, p.seq, Succ(p.seq))]
    /\ reg' = [reg EXCEPT ![p.to] = TRUE]
    /\ handle' = [handle EXCEPT ![p.to] = "open"]
    /\ dial' = dial
    /\ net' = rest \cup
                 {Packet(Other(p.to), "STATE", 1, p.seq, RecvWnd, NoPayload, 0)}

(* No such stream: the answer to a pending SYN makes one; the rest is
   dropped, or answered with a RESET under a connection id no end listens to. *)
RecvUnknown(p, rest) ==
    /\ p.type # "SYN" /\ ~reg[p.to]
    /\ net' = rest
    /\ handle' = handle
    /\ IF p.to = "a" /\ dial = "syn" /\ p.type = "STATE" /\ p.ack = 1
       THEN /\ dial' = "ready"
            /\ reg' = [reg EXCEPT !["a"] = TRUE]
            /\ st' = [st EXCEPT !["a"] =
                  [StreamState(2, Sub(p.seq, 1), p.seq) EXCEPT !.lastAck = p.ack]]
       ELSE UNCHANGED <<dial, reg, st>>

(* Cumulative acknowledgement, duplicate acknowledgements and the evidence
   that the oldest packet is lost *)
Acknowledge(s, p) ==
    LET acked == {i \in DOMAIN s.unacked :
                     \A j \in 1..i : NonNegative(Sub(p.ack, s.unacked[j].seq))}
        rest  == SubSeq(s.unacked, Cardinality(acked) + 1, Len(s.unacked))
    IN  [s EXCEPT
           !.remoteWnd = p.wnd, !.unacked = rest,
           !.lastAck = IF acked # {} THEN p.ack ELSE @,
           !.dups = IF acked # {} THEN 0
                    ELSE IF p.ack = s.lastAck /\ rest # <<>> /\ @ < DupAcks
                         THEN @ + 1 ELSE @]

FastResend(s, p) ==
    /\ s.dups >= DupAcks \/ p.sack >= DupAcks
    /\ s.unacked # <<>> /\ s.fast # Head(s.unacked).seq

(* Mutant: a gap is not noticed, what arrives is what comes next. *)
TakeDataUnordered(s, p) ==
    IF NonNegative(Sub(p.seq, s.expected))
    THEN [s EXCEPT !.recvBuf = Append(@, p.payload), !.expected = Succ(p.seq),
                   !.ack = p.seq]
    ELSE s

(* Mutant: data behind a gap is acknowledged as if the gap had arrived. *)
TakeDataAckingHeld(s, p) ==
    IF p.seq = s.expected
    THEN [s EXCEPT !.recvBuf = Append(@, p.payload), !.expected = Succ(@), !.ack = p.seq]
    ELSE [s EXCEPT !.ack = p.seq]

(* In-order data and everything held that follows it go to the reader. *)
TakeData(s, p) ==
    LET held == s.outOfOrder
        last == CHOOSE n \in 0..Cardinality(held) :
                   /\ \A i \in 1..n : \E o \in held : o.seq = (p.seq + i) % SeqMod
                   /\ ~\E o \in held : o.seq = (p.seq + n + 1) % SeqMod
        At(i) == (CHOOSE o \in held : o.seq = (p.seq + i) % SeqMod).payload
        t == IF p.seq = s.expected
             THEN [s EXCEPT
                     !.recvBuf = @ \o <<p.payload>> \o [i \in 1..last |-> At(i)],
                     !.expected = (p.seq + last + 1) % SeqMod,
                     !.outOfOrder = {o \in held : Sub(o.seq, p.seq) > last}]
             ELSE IF Positive(Sub(p.seq, s.expected))
             THEN [s EXCEPT !.outOfOrder = {o \in held : o.seq # p.seq}
                                \cup {[seq |-> p.seq, payload |-> p.payload]}]
             ELSE s
    IN  [t EXCEPT !.ack = Sub(t.expected, 1)]

(* A FIN ends the reading side and acknowledges everything before it,
   received or not. *)
TakeFin(s, p) == [s EXCEPT !.readClosed = TRUE, !.ack = p.seq]

RecvStream(p, rest) ==
    LET e == p.to
        s == Acknowledge(st[e], p)
        fast == FastResend(s, p)
        r == IF fast THEN [s EXCEPT !.fast = Head(s.unacked).seq] ELSE s
        t == CASE p.type = "DATA" -> TakeData(r, p)
               [] p.type = "FIN" -> TakeFin(r, p)
               [] OTHER -> r
        answer == p.type \in {"DATA", "FIN"}
        sack == IF p.type = "DATA" THEN SelectiveAck(t) ELSE 0
    IN  /\ p.type # "SYN" /\ reg[e]
        /\ st' = [st EXCEPT ![e] = IF answer THEN [t EXCEPT !.advertised = Window(t)]
                                             ELSE t]
        /\ net' = rest
                  \cup (IF fast THEN {DataPacket(e, s, Head(s.unacked))} ELSE {})
                  \cup (IF answer THEN {AckPacket(e, t, sack)} ELSE {})
        /\ UNCHANGED <<dial, reg, handle>>

(* The pump takes p off the socket and leaves rest in transit. *)
Pump(p, rest) ==
    /\ RecvSyn(p, rest) \/ RecvUnknown(p, rest) \/ RecvStream(p, rest)
    /\ UNCHANGED <<todo, sent, got, eof>>

Receive(p) == Pump(p, net \ {p}) /\ UNCHANGED faults

(* The network: a datagram is lost, or arrives now and once more later.  A
   SYN is not duplicated: the code would accept the connection twice. *)
Lose(p) ==
    /\ faults < MaxFaults
    /\ faults' = faults + 1
    /\ net' = net \ {p}
    /\ UNCHANGED <<dial, st, reg, handle, todo, sent, got, eof>>

Duplicate(p) ==
    /\ faults < MaxFaults
    /\ faults' = faults + 1
    /\ p.type # "SYN"
    /\ Pump(p, net)

Next ==
    \/ Connect \/ Connected \/ CancelConnect
    \/ \E e \in Ends :
          Write(e) \/ Resend(e) \/ Read(e) \/ ReadEnd(e)
          \/ Shutdown(e) \/ Drop(e) \/ CloseSocket(e)
    \/ \E p \in net : Receive(p) \/ Lose(p) \/ Duplicate(p)

(* Both applications keep polling, their timers run, and the pump reads what
   arrives.  A writer with nothing in flight can always send: the congestion
   window is never below one packet. *)
Fairness ==
    /\ WF_vars(Connect) /\ WF_vars(Connected)
    /\ \A e \in Ends :
          /\ WF_vars(Write(e) /\ st[e].unacked = <<>>)
          /\ WF_vars(Resend(e)) /\ WF_vars(Read(e)) /\ WF_vars(ReadEnd(e))
    /\ \A e \in Ends, type \in {"SYN", "STATE", "DATA"}, seq \in 0..(SeqMod \div 2) :
          WF_vars(\E p \in net : p.to = e /\ p.type = type /\ p.seq = seq /\ Receive(p))

Spec == Init /\ [][Next]_vars
FairSpec == Spec /\ Fairness

---------------------------------------------------------------------------
(* What a socket holds in memory has the shape the code gives it. *)
TypeOK ==
    /\ faults \in 0..MaxFaults
    /\ dial \in {"idle", "syn", "ready", "done", "cancelled"}
    /\ reg \in [Ends -> BOOLEAN] /\ eof \in [Ends -> BOOLEAN]
    /\ handle \in [Ends -> {"none", "open", "ended", "dropped"}]
    /\ \A e \in Ends :
          /\ sent[e] \in Nat /\ todo[e] \in Nat
          /\ {st[e].seq, st[e].ack, st[e].expected} \subseteq 0..(SeqMod - 1)
          /\ Len(st[e].unacked) <= Cwnd
          /\ st[e].remoteWnd \in 0..RecvWnd

(* The connection is a byte stream in each direction: what poll_read returns
   is what the peer's poll_write took, in order, without a gap or a repeat,
   whatever the network lost, duplicated, reordered or the code resent. *)
Stream == INSTANCE ByteStream WITH Ends <- Ends, sent <- sent, got <- got, eof <- eof
ImplementsByteStream == Stream!Spec

(* The comment on PendingConnect: a cancelled connect leaves no stream in the
   registry, not even when the SYN-ACK beat the cancellation to the pump. *)
NoOrphanStream == dial = "cancelled" => ~reg["a"]

(* An acknowledged chunk has arrived: what a writer no longer keeps for
   resending, its peer has read, buffers or holds out of order.  (Until a FIN
   arrives: the FIN acknowledges every earlier packet, arrived or lost.) *)
AckedHasArrived ==
    \A e \in Ends :
       LET f == Other(e)
           kept == {st[e].unacked[i].payload : i \in DOMAIN st[e].unacked}
           arrived == {got[f][i] : i \in DOMAIN got[f]}
                      \cup {st[f].recvBuf[i] : i \in DOMAIN st[f].recvBuf}
                      \cup {o.payload : o \in st[f].outOfOrder}
       IN  reg[e] /\ reg[f] /\ ~st[f].readClosed
              => 1..sent[e] \subseteq kept \cup arrived

(* Everything written is read at the other end, whichever datagrams of a
   finite number are lost, unless somebody closes: the retransmissions of
   poll_read and poll_write keep the stream moving. *)
Closed == \E e \in Ends : st[e].writeClosed \/ st[e].isReset
AllDelivered ==
    dial = "done" ~> Closed \/ \A e \in Ends : todo[e] = 0 /\ Len(got[Other(e)]) = sent[e]
===========================================================================
