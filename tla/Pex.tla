--------------------------------- MODULE Pex ---------------------------------
(***************************************************************************)
(* Peer exchange of a torrent: the feed of connections that came and went, *)
(* the messages built from it for each peer, and the ones taken in.        *)
(*                                                                         *)
(* A message is what the code's factory leaves of a run of events: an add  *)
(* and a drop of one address cancel each other.  A receiver applies it to  *)
(* what it knows.                                                          *)
(***************************************************************************)
EXTENDS Integers, Sequences, SequencesExt, FiniteSets

CONSTANTS Addrs,      \* usable addresses
          Receivers,  \* peers that are sent messages
          Target,     \* PEX_TARG_ADDED
          MaxHold,    \* PEX_MAX_HOLD
          MaxDelta,   \* PEX_MAX_DELTA
          MaxEvents   \* connections and disconnections

VARIABLES
    alive,    \* listed connections
    events,   \* the feed
    hold,     \* drops held back while there are few connections
    cursor,   \* the last event each receiver was told, 0 before the first, or None
    view,     \* what each receiver knows
    resting,  \* rest_until has not passed
    recent    \* senders heard of less than PEX_RECV_MIN_INTERVAL ago

vars == <<alive, events, hold, cursor, view, resting, recent>>

None == -1

Init ==
    /\ alive = {} /\ events = <<>> /\ hold = <<>>
    /\ cursor = [r \in Receivers |-> None]
    /\ view = [r \in Receivers |-> {}]
    /\ resting = FALSE /\ recent = {}

Event(kind, a) == [kind |-> kind, addr |-> a]

\* PexState::add, at the extended handshake.
Add(a) ==
    /\ a \notin alive /\ Len(events) + Len(hold) < MaxEvents
    /\ alive' = alive \cup {a}
    /\ LET flushes == Cardinality(alive) + 1 >= Target
       IN /\ events' = Append(IF flushes THEN events \o hold ELSE events, Event("add", a))
          /\ hold' = IF flushes THEN <<>> ELSE hold
    /\ UNCHANGED <<cursor, view, resting, recent>>

\* PexState::drop_listed
DropListed(a) ==
    /\ a \in alive
    /\ alive' = alive \ {a}
    /\ IF Cardinality(alive) - 1 < Target /\ Len(hold) < MaxHold
       THEN hold' = Append(hold, Event("drop", a)) /\ UNCHANGED events
       ELSE events' = Append(events, Event("drop", a)) /\ UNCHANGED hold
    /\ UNCHANGED <<cursor, view, resting, recent>>

\* MsgFactory::append
Appended(msg, e) ==
    LET same == IF e.kind = "add" THEN msg.added ELSE msg.dropped
        other == IF e.kind = "add" THEN msg.dropped ELSE msg.added
        same2 == IF e.addr \in other THEN same ELSE same \cup {e.addr}
        other2 == IF e.addr \in same THEN other ELSE other \ {e.addr}
    IN IF e.kind = "add" THEN [added |-> same2, dropped |-> other2]
       ELSE [added |-> other2, dropped |-> same2]

NoMsg == [added |-> {}, dropped |-> {}, last |-> 0]

\* Mutant: a message that is full stands for the whole feed.
GenMsgToEnd(c) ==
    LET Full(m) == c # None /\ (Cardinality(m.added) >= MaxDelta \/ Cardinality(m.dropped) >= MaxDelta)
        Step(m, i) == IF Full(m) THEN [m EXCEPT !.last = i]
                      ELSE LET n == Appended([added |-> m.added, dropped |-> m.dropped], events[i])
                           IN [added |-> n.added, dropped |-> n.dropped, last |-> i]
        from == IF c = None THEN 0 ELSE c
    IN FoldLeft(Step, [NoMsg EXCEPT !.last = from], [k \in 1..(Len(events) - from) |-> from + k])

\* genmsg: all events without a cursor, else the next ones up to the limit.
GenMsg(c) ==
    LET Full(m) == c # None /\ (Cardinality(m.added) >= MaxDelta \/ Cardinality(m.dropped) >= MaxDelta)
        Step(m, i) == IF Full(m) THEN m
                      ELSE LET n == Appended([added |-> m.added, dropped |-> m.dropped], events[i])
                           IN [added |-> n.added, dropped |-> n.dropped, last |-> i]
        from == IF c = None THEN 0 ELSE c
    IN FoldLeft(Step, [NoMsg EXCEPT !.last = from], [k \in 1..(Len(events) - from) |-> from + k])

\* maybe_send_pex, when the interval is over.
MaybeSendPex(r) ==
    LET m == GenMsg(cursor[r])
    IN /\ IF m.added = {} /\ m.dropped = {}
          THEN cursor' = [cursor EXCEPT ![r] = None] /\ UNCHANGED view
          ELSE /\ cursor' = [cursor EXCEPT ![r] = m.last]
               /\ view' = [view EXCEPT ![r] = (@ \cup m.added) \ m.dropped]
       /\ UNCHANGED <<alive, events, hold, resting, recent>>

\* ingest_pex: a message that comes too soon after the sender's last or
\* while the torrent rests is dropped, and then not remembered.
IngestPex(r, found) ==
    /\ IF r \in recent \/ resting
       THEN UNCHANGED <<recent, resting>>
       ELSE recent' = recent \cup {r} /\ resting' = found
    /\ UNCHANGED <<alive, events, hold, cursor, view>>

Pass ==
    /\ resting \/ recent # {}
    /\ resting' = FALSE /\ recent' \in SUBSET recent
    /\ UNCHANGED <<alive, events, hold, cursor, view>>

Next ==
    \/ \E a \in Addrs : Add(a)
    \/ \E a \in Addrs : DropListed(a)
    \/ \E r \in Receivers : MaybeSendPex(r)
    \/ \E r \in Receivers, found \in BOOLEAN : IngestPex(r, found)
    \/ Pass

Spec == Init /\ [][Next]_vars

-----------------------------------------------------------------------------
(* Properties.                                                             *)

\* "Go leaves the cursor unchanged when Len==0": a receiver whose messages
\* have come to the end of the feed knows no connection that is gone, except
\* the drops that are held back.
PexTellsDrops ==
    \A r \in Receivers :
        cursor[r] = Len(events) =>
            view[r] \subseteq alive \cup {hold[i].addr : i \in DOMAIN hold}

\* A receiver that has come to the end of the feed, in messages of limited
\* size, knows every connection that stayed.  (One that left and came back
\* while its drop was held back is told as gone: the drop is flushed after
\* the second add.)
PexTellsSteady ==
    \A r \in Receivers :
        cursor[r] = Len(events) =>
            \A a \in alive \ view[r] : \E e \in Range(events \o hold) : e = Event("drop", a)
=============================================================================
