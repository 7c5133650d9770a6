------------------------------- MODULE Upload -------------------------------
(***************************************************************************)
(* Serving a peer's requests.                                              *)
(*                                                                         *)
(* The connection's handler takes requests and cancels, on its own task.   *)
(* A block in memory is queued at once; one on disk is read on a blocking  *)
(* thread and queued when the read ends.  The writer task drains the queue *)
(* into a batch, waits for tokens and writes.  Queueing a message and      *)
(* waking the writer are two steps.  Every block is one unit of the        *)
(* tit-for-tat account.                                                    *)
(***************************************************************************)
EXTENDS Integers, Sequences, FiniteSets

CONSTANTS Blocks,       \* blocks the peer asks for
          MaxQueued,    \* LOCAL_CLIENT_REQQ
          Batch,        \* messages that fill a write batch
          Headroom,     \* tit_for_tat_headroom
          MaxRequests,  \* requests the peer sends
          MaxEvents     \* choke changes, blocks received and cancels

VARIABLES
    peer,       \* whether it is Fast and we seed to it, and the pieces it allowed fast
    gate,       \* the torrent may upload
    choking,    \* am_choking
    received,   \* useful blocks the peer gave us
    charged,    \* blocks written in the handler's account
    owed,       \* requests for each block that have not been answered
    cancels,    \* peer_cancels
    queued,     \* queued_uploads
    reads,      \* disk reads under way, for each block
    queue,      \* the writer's channel
    poking,     \* senders that have queued a message and not yet notified
    writer,     \* the writer task
    sent,       \* blocks written to the socket
    closed,
    requests, events

account == <<gate, choking, received, charged, events>>
vars == <<peer, account, owed, cancels, queued, reads, queue, poking, writer, sent, closed,
          requests>>

Writer0 == [at |-> "enable", notified |-> FALSE, drained |-> FALSE, batch |-> <<>>]
Msg(kind, b) == [kind |-> kind, block |-> b]
PiecesIn(msgs) == Cardinality({i \in 1..Len(msgs) : msgs[i].kind = "piece"})
AnyBlock == CHOOSE b \in Blocks : TRUE

Init ==
    /\ peer \in [fast : BOOLEAN, seeding : BOOLEAN, grants : SUBSET Blocks]
    /\ gate = TRUE /\ choking = TRUE
    /\ received = 0 /\ charged = 0 /\ events = 0 /\ requests = 0
    /\ owed = [b \in Blocks |-> 0]
    /\ cancels = {} /\ queued = 0
    /\ reads = [b \in Blocks |-> 0]
    /\ queue = <<>> /\ poking = 0
    /\ writer = Writer0
    /\ sent = 0 /\ closed = FALSE

\* ConnHandle::send_message: nothing is queued on a closed connection.
Send(m) ==
    IF closed THEN UNCHANGED <<queue, poking>>
    ELSE queue' = Append(queue, m) /\ poking' = poking + 1

\* upload_allowed
UploadAllowed(wanted) == gate /\ (peer.seeding \/ (wanted /\ charged < received + Headroom))
Choked(b) == choking /\ b \notin peer.grants

-----------------------------------------------------------------------------
(* The handler.                                                            *)

\* reconcile_choke, on every wake: what the peer has that we want is known
\* up to a short cache.
ReconcileChoke(wanted) ==
    /\ ~closed /\ events < MaxEvents
    /\ choking = UploadAllowed(wanted)
    /\ choking' = ~choking /\ events' = events + 1
    /\ Send(Msg(IF choking THEN "unchoke" ELSE "choke", AnyBlock))
    /\ UNCHANGED <<peer, gate, received, charged, owed, cancels, queued, reads, writer, sent,
                   closed, requests>>

Asked(b) ==
    /\ ~closed /\ requests < MaxRequests
    /\ requests' = requests + 1
    /\ owed' = [owed EXCEPT ![b] = @ + 1]

\* handle_request refuses: choked, not allowed or too many blocks queued.
\* A request that is not refused as choked or disallowed undoes a cancel.
Refuse(b) ==
    /\ Asked(b)
    /\ \/ (Choked(b) \/ ~UploadAllowed(TRUE)) /\ UNCHANGED cancels
       \/ ~Choked(b) /\ UploadAllowed(TRUE) /\ queued >= MaxQueued /\ cancels' = cancels \ {b}
    /\ Send(Msg("reject", b))
    /\ UNCHANGED <<peer, account, queued, reads, writer, sent, closed>>

Accepts(b) ==
    /\ Asked(b)
    /\ ~Choked(b) /\ UploadAllowed(TRUE) /\ queued < MaxQueued
    /\ cancels' = cancels \ {b}
    /\ queued' = queued + 1

\* The block is in memory.
Serve(b) ==
    /\ Accepts(b)
    /\ Send(Msg("piece", b))
    /\ charged' = charged + 1
    /\ UNCHANGED <<peer, gate, choking, received, events, reads, writer, sent, closed>>

\* Mutant: a block from disk is charged when it is sent, not when it is asked.
ServeFromDiskUncharged(b) ==
    /\ Accepts(b)
    /\ reads' = [reads EXCEPT ![b] = @ + 1]
    /\ UNCHANGED <<peer, account, queue, poking, writer, sent, closed>>

\* The block is on disk: a blocking thread reads it.
ServeFromDisk(b) ==
    /\ Accepts(b)
    /\ reads' = [reads EXCEPT ![b] = @ + 1]
    /\ charged' = charged + 1
    /\ UNCHANGED <<peer, gate, choking, received, events, queue, poking, writer, sent, closed>>

\* The read ends: its block is queued, or the connection is closed and the
\* place in the queue given back.
ReadDone(b) ==
    /\ reads[b] > 0
    /\ reads' = [reads EXCEPT ![b] = @ - 1]
    /\ Send(Msg("piece", b))
    /\ queued' = IF closed THEN queued - 1 ELSE queued
    /\ UNCHANGED <<peer, account, owed, cancels, writer, sent, closed, requests>>

\* Mutant: the writer is registered only once it polls the notification.
WokenPolled(w) == IF w.at = "wait" THEN [w EXCEPT !.notified = TRUE] ELSE w

\* notify_waiters reaches a writer that has registered in this round.
Woken(w) == IF w.at \in {"drain", "select", "wait"} THEN [w EXCEPT !.notified = TRUE] ELSE w

ReadFails(b) ==
    /\ reads[b] > 0
    /\ reads' = [reads EXCEPT ![b] = @ - 1]
    /\ queued' = queued - 1
    /\ closed' = TRUE /\ writer' = Woken(writer)
    /\ UNCHANGED <<peer, account, owed, cancels, queue, poking, sent, requests>>

Cancel(b) ==
    /\ ~closed /\ events < MaxEvents
    /\ cancels' = cancels \cup {b} /\ events' = events + 1
    /\ UNCHANGED <<peer, gate, choking, received, charged, owed, queued, reads, queue, poking,
                   writer, sent, closed, requests>>

\* The peer gives us a block; the seed policy opens or shuts the gate.
Receive ==
    /\ ~closed /\ events < MaxEvents
    /\ received' = received + 1 /\ events' = events + 1
    /\ UNCHANGED <<peer, gate, choking, charged, owed, cancels, queued, reads, queue, poking,
                   writer, sent, closed, requests>>

SetGate ==
    /\ events < MaxEvents
    /\ gate' = ~gate /\ events' = events + 1
    /\ UNCHANGED <<peer, choking, received, charged, owed, cancels, queued, reads, queue, poking,
                   writer, sent, closed, requests>>

Notify ==
    /\ poking > 0
    /\ poking' = poking - 1
    /\ writer' = Woken(writer)
    /\ UNCHANGED <<peer, account, owed, cancels, queued, reads, queue, sent, closed, requests>>

\* ConnHandle::close, by anyone.
Close ==
    /\ ~closed
    /\ closed' = TRUE /\ writer' = Woken(writer)
    /\ UNCHANGED <<peer, account, owed, cancels, queued, reads, queue, poking, sent, requests>>

-----------------------------------------------------------------------------
(* run_writer_loop.                                                        *)

\* The top of the loop: it ends on a closed connection, or registers.
Enable ==
    /\ writer.at = "enable"
    /\ writer' = IF closed THEN [writer EXCEPT !.at = "done"]
                 ELSE [writer EXCEPT !.at = "drain", !.notified = FALSE, !.drained = FALSE]
    /\ UNCHANGED <<peer, account, owed, cancels, queued, reads, queue, poking, sent, closed, requests>>

\* A block that was cancelled meanwhile is not sent: a Fast peer gets a
\* rejection, another nothing.
Unsent(m) == m.kind = "piece" /\ m.block \in cancels
Encoded(m) == IF ~Unsent(m) THEN <<m>> ELSE IF peer.fast THEN <<Msg("reject", m.block)>> ELSE <<>>

\* Mutant: a block that is not sent keeps its place in the queue.
DrainLeaks ==
    /\ writer.at = "drain"
    /\ queue # <<>> /\ Len(writer.batch) < Batch
    /\ LET m == Head(queue)
       IN /\ queue' = Tail(queue)
          /\ queued' = IF m.kind = "piece" /\ ~Unsent(m) THEN queued - 1 ELSE queued
          /\ cancels' = cancels \ (IF Unsent(m) THEN {m.block} ELSE {})
          /\ owed' = IF Encoded(m) = <<>> THEN [owed EXCEPT ![m.block] = @ - 1] ELSE owed
          /\ writer' = [writer EXCEPT !.batch = @ \o Encoded(m), !.drained = TRUE]
    /\ UNCHANGED <<peer, account, reads, poking, sent, closed, requests>>

Drain ==
    /\ writer.at = "drain"
    /\ queue # <<>> /\ Len(writer.batch) < Batch
    /\ LET m == Head(queue)
       IN /\ queue' = Tail(queue)
          /\ queued' = IF m.kind = "piece" THEN queued - 1 ELSE queued
          /\ cancels' = cancels \ (IF Unsent(m) THEN {m.block} ELSE {})
          /\ owed' = IF Encoded(m) = <<>> THEN [owed EXCEPT ![m.block] = @ - 1] ELSE owed
          /\ writer' = [writer EXCEPT !.batch = @ \o Encoded(m), !.drained = TRUE]
    /\ UNCHANGED <<peer, account, reads, poking, sent, closed, requests>>

\* Nothing more to drain: an empty batch waits, a partial one that grew goes
\* round again, and another is written.
Decide ==
    /\ writer.at = "drain"
    /\ queue = <<>> \/ Len(writer.batch) >= Batch
    /\ writer' = [writer EXCEPT !.at = IF writer.batch = <<>> THEN "select"
                                       ELSE IF Len(writer.batch) < Batch /\ writer.drained
                                       THEN "enable" ELSE "tokens"]
    /\ UNCHANGED <<peer, account, owed, cancels, queued, reads, queue, poking, sent, closed, requests>>

Select ==
    /\ writer.at = "select"
    /\ writer' = [writer EXCEPT !.at = "wait"]
    /\ UNCHANGED <<peer, account, owed, cancels, queued, reads, queue, poking, sent, closed, requests>>

Wake ==
    /\ writer.at = "wait" /\ writer.notified
    /\ writer' = [writer EXCEPT !.at = "enable"]
    /\ UNCHANGED <<peer, account, owed, cancels, queued, reads, queue, poking, sent, closed, requests>>

\* The keepalive timer, two minutes after the last write.
Keepalive ==
    /\ writer.at = "wait"
    /\ writer' = [writer EXCEPT !.at = "enable"]
    /\ UNCHANGED <<peer, account, owed, cancels, queued, reads, queue, poking, sent, closed, requests>>

Answers(b) == Cardinality({i \in 1..Len(writer.batch) :
                             /\ writer.batch[i].block = b
                             /\ writer.batch[i].kind \in {"piece", "reject"}})

\* wait_for_tokens, then one write of the batch; a failed write closes the
\* connection.
Write ==
    /\ writer.at = "tokens"
    /\ \/ /\ writer' = Writer0
          /\ owed' = [b \in Blocks |-> owed[b] - Answers(b)]
          /\ sent' = sent + PiecesIn(writer.batch)
          /\ UNCHANGED closed
       \/ /\ writer' = [writer EXCEPT !.at = "done"] /\ closed' = TRUE
          /\ UNCHANGED <<owed, sent>>
    /\ UNCHANGED <<peer, account, cancels, queued, reads, queue, poking, requests>>

Next ==
    \/ \E w \in BOOLEAN : ReconcileChoke(w)
    \/ \E b \in Blocks :
        \/ Refuse(b) \/ Serve(b) \/ ServeFromDisk(b) \/ Cancel(b)
        \/ ReadDone(b) \/ ReadFails(b)
    \/ Receive \/ SetGate \/ Notify \/ Close
    \/ Enable \/ Drain \/ Decide \/ Select \/ Wake \/ Keepalive \/ Write

\* The runtime polls a task that is ready, a blocking read ends, and a
\* sender that has queued a message notifies.  The keepalive timer is not
\* counted on; the peer reads what is written to it.
Fairness ==
    /\ WF_vars(Enable) /\ WF_vars(Drain) /\ WF_vars(Decide)
    /\ WF_vars(Select) /\ WF_vars(Wake) /\ WF_vars(Write)
    /\ WF_vars(Notify)
    /\ \A b \in Blocks : WF_vars(ReadDone(b))

Spec == Init /\ [][Next]_vars

-----------------------------------------------------------------------------
(* Properties.                                                             *)

\* The disk reads under way, each with a number of its own.
ReadsUnderWay == UNION {{b} \X (1..reads[b]) : b \in Blocks}

\* reserve_upload and release_upload balance over every path of a block: the
\* count is the reads under way and the blocks in the writer's channel.
UploadsBalance == queued = Cardinality(ReadsUnderWay) + PiecesIn(queue)

\* Tit for tat (upload_allowed) holds over blocks still on their way: what
\* was sent, is queued or is being read never exceeds what the peer gave us
\* and the headroom.
UploadIsEarned == peer.seeding \/ sent + PiecesIn(writer.batch) + queued <= received + Headroom

\* A request is answered, with its block or a rejection, without waiting for
\* the keepalive timer: no message is left in the channel by a wakeup that
\* came while the writer was busy (run_writer_loop, send_message).
RequestIsAnswered == \A b \in Blocks : (owed[b] > 0) ~> (owed[b] = 0 \/ closed)
=============================================================================
