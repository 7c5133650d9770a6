------------------------------- MODULE Stream -------------------------------
(***************************************************************************)
(* One request of the media stream server for a file of a saved download:  *)
(* the handler that opens a playback reader on a blocking thread, the task *)
(* that reads the range chunk by chunk into a bounded channel, the core    *)
(* reader that waits for pieces under it, and a player that may hang up at *)
(* any moment.  Offsets count pieces; a read returns the pieces that are   *)
(* there, so it may be shorter than the chunk.                             *)
(***************************************************************************)
EXTENDS Integers, Sequences

CONSTANTS Pieces,     \* the file is pieces 0 .. Pieces - 1
          Chunk,      \* STREAM_CHUNK_BYTES, in pieces
          Depth,      \* frames the channel holds
          Attempts    \* READ_ATTEMPTS of a read that must wait

VARIABLES
    client,    \* "waits", "reads", "gone"
    range,     \* the first and the last piece of the request
    handler,   \* "opens", "dropped", "returned"
    reader,    \* PlaybackReader: "none", "open", "closed"
    task,      \* the spawned loop: "none", "loop", "reads", "sends", "ended"
    off,       \* the loop's offset
    chan,      \* frames: where the pieces of each begin and how many; an error has none
    got,       \* the frames the player received
    core,      \* Reader: pos, reading, and the range it last pushed
    pushed,    \* reader_ranges: the pieces registered with the torrent
    call,      \* the blocking read: at, attempt, and the pieces it read (an error: none, at the offset)
    have,      \* complete pieces
    allowed    \* data_download_allowed

stream == <<client, range, handler, task, off, chan, got>>
host == <<have, allowed>>
vars == <<stream, reader, core, pushed, call, host>>

File == 0..(Pieces - 1)
Idle == [at |-> "idle", attempt |-> 0, data |-> [from |-> 0, n |-> 0]]

Init ==
    /\ client = "waits" /\ handler = "opens" /\ reader = "none" /\ task = "none"
    /\ range \in {r \in File \X File : r[1] <= r[2]}
    /\ off = range[1] /\ chan = <<>> /\ got = <<>>
    /\ core = [pos |-> 0, reading |-> FALSE, pieces |-> {}] /\ pushed = {}
    /\ call = Idle
    /\ have \in SUBSET File /\ allowed = TRUE

-----------------------------------------------------------------------------
(* The core reader.                                                        *)

\* pieces_uncached: the piece at the position once a read has started; the
\* window ahead of it is the session's (module Windows).
Wanted(c) == IF c.reading /\ c.pos < Pieces THEN {c.pos} ELSE {}

\* pos_changed pushes a range that differs from the last one pushed.
PosChanged(c) ==
    IF Wanted(c) = c.pieces THEN core' = c /\ UNCHANGED pushed
    ELSE core' = [c EXCEPT !.pieces = Wanted(c)] /\ pushed' = Wanted(c)

\* Mutant: the range is cleared in the torrent and remembered as pushed.
RefreshDemandKept ==
    /\ core' = core
    /\ pushed' = {}

\* refresh_demand: clear_reader, forget what was pushed, push it again.
RefreshDemand ==
    /\ core' = [core EXCEPT !.pieces = Wanted(core)]
    /\ pushed' = Wanted(core)

Sought(c, p) == IF p = c.pos THEN c ELSE [c EXCEPT !.pos = p, !.reading = FALSE]

\* have: n is the run of complete pieces at p, if there is one, up to want.
Available(p, want, n) ==
    /\ n \in 1..want /\ \A i \in 0..(n - 1) : p + i \in have
    /\ n < want => p + n \notin have

Want == IF range[2] - off + 1 < Chunk THEN range[2] - off + 1 ELSE Chunk

\* read_available: a seek to the offset, then a read that is now reading.
ReadBegins ==
    /\ call.at = "start" /\ reader = "open"
    /\ PosChanged([Sought(core, off) EXCEPT !.reading = TRUE])
    /\ call' = [call EXCEPT !.at = "wait", !.attempt = 1]
    /\ UNCHANGED <<stream, reader, host>>

Returns(data) == call' = [call EXCEPT !.at = "done", !.data = data]
Fails == Returns([from |-> off, n |-> 0])

\* read_at_pos: what is there is read and the position advances.
ReadGets ==
    /\ call.at \in {"wait", "retry"} /\ reader = "open"
    /\ \E n \in 1..Want :
          /\ Available(core.pos, Want, n)
          /\ Returns([from |-> core.pos, n |-> n])
          /\ PosChanged([core EXCEPT !.pos = @ + n])
    /\ UNCHANGED <<stream, reader, host>>

\* A failing storage read is tried once more after a change.
ReadFails ==
    /\ call.at \in {"wait", "retry"} /\ reader = "open"
    /\ IF call.at = "wait" /\ core.pos \in have
       THEN call' = [call EXCEPT !.at = "retry"]
       ELSE call.at = "retry" /\ Fails
    /\ UNCHANGED <<stream, reader, core, pushed, host>>

\* check_cancel_closed, at each turn of the wait; and the checks of a read
\* that starts after the close.
ReadCancelled ==
    /\ call.at \in {"start", "wait", "retry"} /\ reader = "closed"
    /\ Fails
    /\ UNCHANGED <<stream, reader, core, pushed, host>>

\* Missing bytes cannot arrive while transfers are paused.
ReadPaused ==
    /\ call.at = "wait" /\ reader = "open" /\ ~allowed
    /\ core.pos \notin have
    /\ Fails
    /\ UNCHANGED <<stream, reader, core, pushed, host>>

\* An attempt runs out: the demand is published again, or the read fails.
ReadTimesOut ==
    /\ call.at = "wait" /\ reader = "open"
    /\ core.pos \notin have
    /\ IF call.attempt < Attempts
       THEN call' = [call EXCEPT !.attempt = @ + 1] /\ RefreshDemand
       ELSE Fails /\ UNCHANGED <<core, pushed>>
    /\ UNCHANGED <<stream, reader, host>>

-----------------------------------------------------------------------------
(* The handler.                                                            *)

\* open_playback_at, on a blocking thread that nothing can stop; the reader
\* is entered in playback_readers.  A dropped handler never sees it.
Opened ==
    /\ reader = "none" /\ handler \in {"opens", "dropped"}
    /\ reader' = "open"
    /\ UNCHANGED <<stream, core, pushed, call, host>>

OpenFails ==
    /\ reader = "none" /\ handler = "opens"
    /\ reader' = "closed" /\ handler' = "returned" /\ client' = "reads"
    /\ UNCHANGED <<range, task, off, chan, got, core, pushed, call, host>>

Closes == reader' = "closed" /\ pushed' = {}

\* A GET with a satisfiable range spawns the loop.
Respond ==
    /\ handler = "opens" /\ reader = "open"
    /\ handler' = "returned" /\ client' = "reads" /\ task' = "loop"
    /\ UNCHANGED <<range, off, chan, got, reader, core, pushed, call, host>>

\* A HEAD, or a range outside the file, closes the reader at once.
RespondEmpty ==
    /\ handler = "opens" /\ reader = "open"
    /\ handler' = "returned" /\ client' = "reads"
    /\ Closes
    /\ UNCHANGED <<range, task, off, chan, got, core, call, host>>

-----------------------------------------------------------------------------
(* The loop.                                                               *)

Ends == task' = "ended" /\ Closes

LoopReads ==
    /\ task = "loop" /\ off <= range[2] /\ reader = "open" /\ call.at = "idle"
    /\ task' = "reads"
    /\ call' = [Idle EXCEPT !.at = "start"]
    /\ UNCHANGED <<client, range, handler, off, chan, got, reader, core, pushed, host>>

LoopEnds ==
    /\ task = "loop"
    /\ off > range[2] \/ reader = "closed"
    /\ Ends
    /\ UNCHANGED <<client, range, handler, off, chan, got, core, call, host>>

\* The read's arm of the select.
LoopGets ==
    /\ task = "reads" /\ call.at = "done"
    /\ task' = "sends"
    /\ UNCHANGED <<client, range, handler, off, chan, got, reader, core, pushed, call, host>>

\* Mutant: a hang-up is noticed only when a frame is sent.
LoopHangsUpLater ==
    /\ task = "reads" /\ client = "gone" /\ call.at = "done"
    /\ Ends
    /\ UNCHANGED <<client, range, handler, off, chan, got, core, call, host>>

\* The other arm, tx.closed: the reader is closed under the pending read.
LoopHangsUp ==
    /\ task = "reads" /\ client = "gone"
    /\ Ends
    /\ UNCHANGED <<client, range, handler, off, chan, got, core, call, host>>

\* Mutant: the offset advances by what was asked for.
LoopSendsWhole ==
    /\ task = "sends" /\ client # "gone" /\ Len(chan) < Depth
    /\ chan' = Append(chan, call.data)
    /\ call' = Idle
    /\ IF call.data.n = 0 THEN Ends /\ UNCHANGED off
       ELSE off' = off + Want /\ task' = "loop" /\ UNCHANGED <<reader, pushed>>
    /\ UNCHANGED <<client, range, handler, got, core, host>>

\* A frame or the error is sent once the channel has room.
LoopSends ==
    /\ task = "sends" /\ client # "gone" /\ Len(chan) < Depth
    /\ chan' = Append(chan, call.data)
    /\ call' = Idle
    /\ IF call.data.n = 0 THEN Ends /\ UNCHANGED off
       ELSE off' = off + call.data.n /\ task' = "loop" /\ UNCHANGED <<reader, pushed>>
    /\ UNCHANGED <<client, range, handler, got, core, host>>

LoopSendFails ==
    /\ task = "sends" /\ client = "gone"
    /\ call' = Idle
    /\ Ends
    /\ UNCHANGED <<client, range, handler, off, chan, got, core, host>>

\* A read the loop no longer waits for returns to nobody.
ReadLeft ==
    /\ call.at = "done" /\ task = "ended"
    /\ call' = Idle
    /\ UNCHANGED <<stream, reader, core, pushed, host>>

-----------------------------------------------------------------------------
(* The player, the swarm and the rest of the engine.                       *)

Receive ==
    /\ client = "reads" /\ chan # <<>>
    /\ got' = Append(got, Head(chan)) /\ chan' = Tail(chan)
    /\ UNCHANGED <<client, range, handler, task, off, reader, core, pushed, call, host>>

\* hyper drops the handler's future, or the response body and its channel.
HangUp ==
    /\ client # "gone"
    /\ client' = "gone" /\ chan' = <<>>
    /\ handler' = IF handler = "opens" THEN "dropped" ELSE handler
    /\ UNCHANGED <<range, task, off, got, reader, core, pushed, call, host>>

\* Peers fetch what is registered.
Arrives(p) ==
    /\ p \in pushed /\ p \notin have /\ allowed
    /\ have' = have \cup {p}
    /\ UNCHANGED <<stream, reader, core, pushed, call, allowed>>

\* Pausing; closing every reader of the torrent (remove, sleep, shutdown).
Pause ==
    /\ allowed' = ~allowed
    /\ UNCHANGED <<stream, reader, core, pushed, call, have>>

EngineCloses ==
    /\ reader = "open"
    /\ Closes
    /\ UNCHANGED <<stream, core, call, host>>

-----------------------------------------------------------------------------

Loop == LoopReads \/ LoopEnds \/ LoopGets \/ LoopHangsUp \/ LoopSends \/ LoopSendFails
Read == ReadBegins \/ ReadGets \/ ReadFails \/ ReadCancelled \/ ReadLeft

Next ==
    \/ Opened \/ OpenFails \/ Respond \/ RespondEmpty
    \/ Loop \/ Read \/ ReadPaused \/ ReadTimesOut
    \/ Receive \/ HangUp \/ Pause \/ EngineCloses
    \/ \E p \in File : Arrives(p)

\* The runtime polls the loop, and blocking threads run; nothing makes a
\* piece arrive, a timer fire or a pause happen.
Fairness ==
    /\ WF_vars(Opened) /\ WF_vars(Respond \/ RespondEmpty)
    /\ WF_vars(Loop) /\ WF_vars(Read)

Spec == Init /\ [][Next]_vars

-----------------------------------------------------------------------------
(* Properties.                                                             *)

\* Where the frame after the i-th of s begins, and whether all of s follow each
\* other within the range, an error only at the end.
After(s, i) == IF i = 0 THEN range[1] ELSE s[i].from + s[i].n

InOrder(s) ==
    \A i \in 1..Len(s) :
        /\ s[i].from = After(s, i - 1) /\ After(s, i) <= range[2] + 1
        /\ s[i].n = 0 => i = Len(s)

\* The player receives the bytes of its range from the first one on, each
\* once and in order, however short the reads are, and nothing after an error
\* (the loop of handle_stream_request and the position of the core reader).
BytesInOrder ==
    LET s == got \o chan
    IN InOrder(s) /\ (client # "gone" => After(s, Len(s)) = off)

\* A read that waits is waiting for a piece the torrent knows is wanted, also
\* after its demand was published again and the position moved back and forth
\* (pos_changed skips a range it believes it has pushed).
WaitingIsRegistered ==
    call.at \in {"wait", "retry"} /\ reader = "open" => core.pos \in pushed

\* A player that hangs up while it is being served frees its reader without
\* waiting for the pieces the reader misses, and the read under it ends
\* ("prompt cancel on client disconnect").
HangUpFreesReader ==
    (client = "gone" /\ task # "none") ~> (reader = "closed" /\ call = Idle)

\* The same for a player that hangs up at any moment.
HangUpIsPrompt == (client = "gone") ~> (reader = "closed")
=============================================================================
