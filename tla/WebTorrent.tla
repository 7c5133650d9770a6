----------------------------- MODULE WebTorrent -----------------------------
(***************************************************************************)
(* A WebTorrent tracker client: the websocket loop with its outbox, the    *)
(* tasks that announce WebRTC offers, and the answers that turn an offer   *)
(* into a peer and ask for one more.  The loop waits for an answered       *)
(* offer's data channel to open before it reads or sends anything else.    *)
(***************************************************************************)
EXTENDS Integers, Sequences, FiniteSets

CONSTANTS Max,        \* max_outstanding_offers, and what the first announce asks for
          MaxOffers,  \* offers ever made
          MaxFaults   \* broken sockets, closed sockets, failed offers and answers, expiries

VARIABLES
    ws,        \* the loop: "down", "up", "accepts", "closed"
    tx,        \* generation of outbox_tx
    rx,        \* the receiver: where it is ("kept", "taken", "none") and its generation
    box,       \* what it holds: the offers of each announce
    outbound,  \* offers waiting for an answer
    old,       \* offers past OFFER_TTL
    tasks,     \* announces under way: at, how many offers are wanted, made, through which sender
    made,      \* offers made so far
    known,     \* offers the tracker hands out
    announced, \* an announce has reached the tracker
    peers,     \* offers that became peers
    faults

vars == <<ws, tx, rx, box, outbound, old, tasks, made, known, announced, peers, faults>>
sock == <<ws, tx, rx>>

Task(want) == [at |-> "sleep", want |-> want, offers |-> {}, tx |-> 0]

\* start_ws_tracker: the client runs and its first announce waits 500 ms.
Init ==
    /\ ws = "down" /\ tx = 1 /\ rx = [at |-> "kept", gen |-> 1] /\ box = <<>>
    /\ outbound = {} /\ old = {} /\ tasks = <<Task(Max)>>
    /\ made = 0 /\ known = {} /\ announced = FALSE /\ peers = {} /\ faults = 0

Fault == faults < MaxFaults /\ faults' = faults + 1

-----------------------------------------------------------------------------
(* announce                                                                *)

\* Old offers are dropped and the sender of this moment is cloned.
AnnounceStarts(i) ==
    /\ tasks[i].at = "sleep" /\ ws # "closed"
    /\ tasks' = [tasks EXCEPT ![i].at = "offers", ![i].tx = tx]
    /\ outbound' = outbound \ old
    /\ UNCHANGED <<sock, box, old, made, known, announced, peers, faults>>

CreateOffer(i) ==
    /\ tasks[i].at = "offers" /\ tasks[i].want > 0 /\ made < MaxOffers
    /\ made' = made + 1
    /\ outbound' = outbound \cup {made + 1}
    /\ tasks' = [tasks EXCEPT ![i].want = @ - 1, ![i].offers = @ \cup {made + 1}]
    /\ UNCHANGED <<sock, box, old, known, announced, peers, faults>>

CreateFails(i) ==
    /\ tasks[i].at = "offers" /\ tasks[i].want > 0
    /\ Fault
    /\ tasks' = [tasks EXCEPT ![i].want = @ - 1]
    /\ UNCHANGED <<sock, box, outbound, old, made, known, announced, peers>>

\* outbox.send: nothing happens if the receiver of that sender is gone.
SendAnnounce(i) ==
    /\ tasks[i].at = "offers" /\ tasks[i].want = 0
    /\ tasks' = [tasks EXCEPT ![i].at = "done", ![i].offers = {}]
    /\ box' = IF rx.at # "none" /\ rx.gen = tasks[i].tx THEN Append(box, tasks[i].offers) ELSE box
    /\ UNCHANGED <<sock, outbound, old, made, known, announced, peers, faults>>

-----------------------------------------------------------------------------
(* do_websocket                                                            *)

\* A receiver the last connection dropped is replaced, with its sender.
Connect ==
    /\ ws = "down"
    /\ ws' = "up"
    /\ IF rx.at = "none"
       THEN tx' = tx + 1 /\ rx' = [at |-> "taken", gen |-> tx + 1]
       ELSE rx' = [rx EXCEPT !.at = "taken"] /\ UNCHANGED tx
    /\ UNCHANGED <<box, outbound, old, tasks, made, known, announced, peers, faults>>

SendOut ==
    /\ ws = "up" /\ box # <<>>
    /\ box' = Tail(box)
    /\ known' = known \cup Head(box) /\ announced' = TRUE
    /\ UNCHANGED <<sock, outbound, old, tasks, made, peers, faults>>

\* An error leaves the loop without giving the receiver back.
WsFails ==
    /\ ws = "up"
    /\ Fault
    /\ ws' = "down" /\ rx' = [rx EXCEPT !.at = "none"] /\ box' = <<>> /\ known' = {}
    /\ UNCHANGED <<tx, outbound, old, tasks, made, announced, peers>>

\* The tracker closes: the receiver is returned for the next connection.
WsCloses ==
    /\ ws = "up"
    /\ Fault
    /\ ws' = "down" /\ rx' = [rx EXCEPT !.at = "kept"] /\ known' = {}
    /\ UNCHANGED <<tx, box, outbound, old, tasks, made, announced, peers>>

\* An answer: its offer is taken out; an unknown one is ignored.
Answer(o) ==
    /\ ws = "up" /\ o \in known
    /\ known' = known \ {o} /\ outbound' = outbound \ {o}
    /\ ws' = IF o \in outbound THEN "accepts" ELSE ws
    /\ peers' = IF o \in outbound THEN peers \cup {o} ELSE peers
    /\ UNCHANGED <<tx, rx, box, old, tasks, made, announced, faults>>

\* Mutant: after an answer as many offers are announced as at the start.
AcceptedMax ==
    /\ ws = "accepts"
    /\ ws' = "up"
    /\ tasks' = Append(tasks, Task(Max))
    /\ UNCHANGED <<tx, rx, box, outbound, old, made, known, announced, peers, faults>>

\* Mutant: an answered offer is not replaced.
AcceptedOnly ==
    /\ ws = "accepts"
    /\ ws' = "up"
    /\ UNCHANGED <<tx, rx, box, outbound, old, tasks, made, known, announced, peers, faults>>

\* The data channel opens: a peer, and an announce of one more offer.
Accepted ==
    /\ ws = "accepts"
    /\ ws' = "up"
    /\ tasks' = Append(tasks, Task(1))
    /\ UNCHANGED <<tx, rx, box, outbound, old, made, known, announced, peers, faults>>

\* It does not open within 30 s.
AcceptFails ==
    /\ ws = "accepts"
    /\ Fault
    /\ ws' = "up"
    /\ UNCHANGED <<tx, rx, box, outbound, old, tasks, made, known, announced, peers>>

\* An offer of another peer: the answer goes through the outbox.
Offered ==
    /\ ws = "up" /\ Len(box) < 2
    /\ box' = IF rx.gen = tx THEN Append(box, {}) ELSE box
    /\ UNCHANGED <<sock, outbound, old, tasks, made, known, announced, peers, faults>>

Expire(o) ==
    /\ o \in outbound \ old
    /\ Fault
    /\ old' = old \cup {o}
    /\ UNCHANGED <<sock, box, outbound, tasks, made, known, announced, peers>>

\* close aborts the loop.
Close ==
    /\ ws # "closed"
    /\ ws' = "closed" /\ rx' = [rx EXCEPT !.at = "none"] /\ box' = <<>> /\ known' = {}
    /\ UNCHANGED <<tx, outbound, old, tasks, made, announced, peers, faults>>

-----------------------------------------------------------------------------

Next ==
    \/ \E i \in 1..Len(tasks) :
         AnnounceStarts(i) \/ CreateOffer(i) \/ CreateFails(i) \/ SendAnnounce(i)
    \/ Connect \/ SendOut \/ WsFails \/ WsCloses \/ Accepted \/ AcceptFails \/ Offered \/ Close
    \/ \E o \in 1..made : Answer(o) \/ Expire(o)

\* Tasks are polled and, once faults are over, the tracker can be reached.
Fairness ==
    /\ WF_vars(Connect) /\ SF_vars(SendOut) /\ WF_vars(Accepted \/ AcceptFails)
    /\ WF_vars(\E i \in 1..Len(tasks) : AnnounceStarts(i) \/ CreateOffer(i) \/ SendAnnounce(i))

Spec == Init /\ [][Next]_vars

-----------------------------------------------------------------------------
(* Properties.                                                             *)

\* Offers hold a peer connection each: there are never more of them than the
\* "outstanding offer budget (bounded resources)", however many announces
\* overlap (announce limits only what one call makes).
OffersAreBounded == Cardinality(outbound) <= Max

\* The offers that announces under way still have to make, each with a
\* number of its own.
Wanted == UNION {{i} \X (1..tasks[i].want) : i \in 1..Len(tasks)}

\* As long as nothing fails, an answered offer is replaced and every offer is
\* at the tracker or on its way to it: the supply of WebRTC peers does not
\* stall after the first match (the announce that handle_tracker_message
\* spawns).
SupplyIsKept ==
    faults = 0 /\ ws # "closed" =>
    /\ Cardinality(outbound) + Cardinality(Wanted) + (IF ws = "accepts" THEN 1 ELSE 0) = Max
    /\ outbound = known \cup (UNION {box[i] : i \in 1..Len(box)})
                        \cup (UNION {tasks[i].offers : i \in 1..Len(tasks)})

\* The first announce reaches the tracker ("so the first announce is not lost
\* on a reconnect that replaces the outbox", start_ws_tracker).
FirstAnnounceIsSent == <>(announced \/ ws = "closed" \/ made = MaxOffers)
=============================================================================
