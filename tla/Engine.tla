------------------------------- MODULE Engine -------------------------------
(***************************************************************************)
(* The engine server's records and the gates they put on transfers.        *)
(*                                                                         *)
(* A control request runs on its caller's thread and takes the record's    *)
(* lock for part of its work only; verification, previews and settings go  *)
(* on beside it.  Whether a torrent may transfer is never stored: every    *)
(* operation ends in apply_transfer_state, which works it out again from   *)
(* the record and the settings, and writes the gate and the verifier's     *)
(* pause flag.  The model has one info hash, which may be added again.     *)
(***************************************************************************)
EXTENDS Naturals, FiniteSets

CONSTANTS Callers,    \* the threads that make control requests
          Ids,        \* record ids, one for each add request
          Previews,   \* preview readers that may be opened
          Uses,       \* the sessions of use to explore: the records that are
                      \* added, the previews, and changes of the payload setting
          NoId        \* not a record

ASSUME EngineAssumption == NoId \notin Ids /\ NoId \notin Previews

VARIABLES
    payload,   \* payload_transfers_allowed
    switches,  \* changes of it so far
    listed,    \* the record in records and records_by_hash, or NoId
    record,    \* the records, listed or held by a handler
    torrent,   \* the torrents the client made, by the add that made them
    attached,  \* the client's current torrent, or NoId
    storage,   \* what the hash's storage is attached to
    request,   \* the step each caller's request has reached
    verifier,  \* the saved-data check of each record
    sweep,     \* records the settings still have to visit
    preview,   \* the preview readers
    slot,      \* preview_active: the reader that holds the one slot, or NoId
    use        \* the session of use that is being explored

vars == <<payload, switches, listed, record, torrent, attached, storage, request,
          verifier, sweep, preview, slot, use>>

Idle == [at |-> "none", id |-> NoId, closes |-> NoId]
NewRecord == [of |-> NoId, configured |-> FALSE, paused |-> FALSE, checking |-> FALSE]

Init ==
    /\ payload \in BOOLEAN /\ switches = 0
    /\ listed = NoId /\ attached = NoId
    /\ record = [i \in Ids |-> NewRecord]
    /\ torrent = [i \in Ids |-> [made |-> FALSE, closed |-> FALSE, gate |-> TRUE]]
    /\ storage = "none"
    /\ request = [c \in Callers |-> Idle]
    /\ verifier = [i \in Ids |-> [runs |-> FALSE, paused |-> FALSE, cancelled |-> FALSE]]
    /\ sweep = {}
    /\ preview = [p \in Previews |-> [of |-> NoId, at |-> "none", draft |-> FALSE]]
    /\ slot = NoId
    /\ use \in Uses

-----------------------------------------------------------------------------
(* apply_transfer_state.                                                   *)

\* Mutant: data that is being checked does not hold transfers back.
ActiveUnchecked(r, pay, closed) ==
    pay /\ r.configured /\ ~r.paused /\ ~closed

Active(r, pay, closed) ==
    pay /\ r.configured /\ ~r.paused /\ ~r.checking /\ ~closed

\* Mutant: a verifier is paused and never let go on.
ApplyStillPaused(i, r, v) ==
    /\ record' = [record EXCEPT ![i] = r]
    /\ torrent' = [torrent EXCEPT ![r.of].gate = Active(r, payload, torrent[r.of].closed)]
    /\ verifier' = [verifier EXCEPT ![i] =
                      IF v.runs THEN [v EXCEPT !.paused = @ \/ r.paused \/ ~payload] ELSE v]

\* The record becomes r; its torrent's gate and its verifier follow.
ApplyTransferState(i, r, v) ==
    /\ record' = [record EXCEPT ![i] = r]
    /\ torrent' = [torrent EXCEPT ![r.of].gate = Active(r, payload, torrent[r.of].closed)]
    /\ verifier' = [verifier EXCEPT ![i] =
                      IF v.runs THEN [v EXCEPT !.paused = r.paused \/ ~payload] ELSE v]

Open(i) == record[i].of # NoId /\ ~torrent[record[i].of].closed

\* A caller's request moves on, once a preview it closes has been closed.
Free(c) == request[c].at = "none"
Finish(c) == request' = [request EXCEPT ![c] = Idle]
Reach(c, step) == request' = [request EXCEPT ![c].at = step]
Ready(c, step) ==
    /\ request[c].at = step
    /\ request[c].closes # NoId => preview[request[c].closes].at = "none"

-----------------------------------------------------------------------------
(* /add.                                                                   *)

\* add_torrent_spec returns the client's torrent of the hash, or a new one,
\* whose gate is open.
ClientAdd(i) ==
    LET t == IF attached # NoId THEN attached ELSE i
    IN /\ record' = [record EXCEPT ![i].of = t]
       /\ torrent' = [torrent EXCEPT ![t].made = TRUE]
       /\ attached' = t

\* The hash is not listed: its torrent is fetched for a new record.
Add(c, i) ==
    /\ i \in use.ids
    /\ Free(c) /\ record[i].of = NoId
    /\ listed = NoId
    /\ ClientAdd(i)
    /\ storage' = IF storage = "none" THEN "open" ELSE storage
    /\ request' = [request EXCEPT ![c] = [at |-> "insert", id |-> i, closes |-> NoId]]
    /\ UNCHANGED <<payload, switches, listed, verifier, sweep, preview, slot, use>>

\* Concurrent additions of one hash coalesce under both maps' locks.
Insert(c) ==
    /\ Ready(c, "insert")
    /\ listed' = IF listed = NoId THEN request[c].id ELSE listed
    /\ Finish(c)
    /\ UNCHANGED <<payload, switches, record, torrent, attached, storage, verifier,
                   sweep, preview, slot, use>>

-----------------------------------------------------------------------------
(* Previews.                                                               *)

\* open_preview: one reader holds the slot until it is closed; before the
\* record is configured it attaches a draft and opens the gate.
OpenPreview(p, i) ==
    /\ p \in use.previews
    /\ preview[p].at = "none" /\ preview[p].of = NoId
    /\ slot # NoId => preview[slot].at # "open"
    /\ listed = i /\ ~record[i].paused
    /\ storage # "none"
    /\ slot' = p
    /\ preview' = [preview EXCEPT ![p] = [of |-> i, at |-> "open", draft |-> ~record[i].configured]]
    /\ IF record[i].configured
       THEN UNCHANGED <<storage, torrent>>
       ELSE /\ storage' = IF storage = "open" THEN "draft" ELSE storage
            /\ torrent' = [torrent EXCEPT ![record[i].of].gate = @ \/ payload]
    /\ UNCHANGED <<payload, switches, listed, record, attached, request, verifier, sweep, use>>

\* close sets the flag, then runs the hook; the 10 s timer, the player and
\* requests call it.
ClosePreview(p) ==
    /\ preview[p].at = "open"
    /\ preview' = [preview EXCEPT ![p].at = "withdraw"]
    /\ UNCHANGED <<payload, switches, listed, record, torrent, attached, storage, request,
                   verifier, sweep, slot, use>>

\* Mutant: the hook clears the slot whoever holds it.
WithdrawAnySlot(p) ==
    /\ preview[p].at = "withdraw"
    /\ slot' = NoId
    /\ preview' = [preview EXCEPT ![p].at = IF preview[p].draft THEN "release" ELSE "none"]
    /\ UNCHANGED <<payload, switches, listed, record, torrent, attached, storage, request,
                   verifier, sweep, use>>

\* The hook withdraws the demand and gives up the slot if it still has it.
WithdrawPreview(p) ==
    /\ preview[p].at = "withdraw"
    /\ slot' = IF slot = p THEN NoId ELSE slot
    /\ preview' = [preview EXCEPT ![p].at = IF preview[p].draft THEN "release" ELSE "none"]
    /\ UNCHANGED <<payload, switches, listed, record, torrent, attached, storage, request,
                   verifier, sweep, use>>

\* Mutant: the draft of a removed record is not released.
ReleaseDraftIfListed(p) ==
    /\ preview[p].at = "release"
    /\ storage' = IF storage = "draft" /\ preview[p].of = listed THEN "open" ELSE storage
    /\ preview' = [preview EXCEPT ![p].at = "disallow"]
    /\ UNCHANGED <<payload, switches, listed, record, torrent, attached, request, verifier,
                   sweep, slot, use>>

\* release_preview_temp drops whatever draft is attached.
ReleaseDraft(p) ==
    /\ preview[p].at = "release"
    /\ storage' = IF storage = "draft" THEN "open" ELSE storage
    /\ preview' = [preview EXCEPT ![p].at = "disallow"]
    /\ UNCHANGED <<payload, switches, listed, record, torrent, attached, request, verifier,
                   sweep, slot, use>>

\* Mutant: the gate is closed without looking at the record again.
EndPreviewAlways(p) ==
    /\ preview[p].at = "disallow"
    /\ preview' = [preview EXCEPT ![p].at = "none"]
    /\ LET r == record[preview[p].of]
       IN torrent' = [torrent EXCEPT ![r.of].gate = FALSE]
    /\ UNCHANGED <<payload, switches, listed, record, attached, storage, request, verifier,
                   sweep, slot, use>>

\* Under the record's lock: a record that was configured meanwhile keeps its gate.
EndPreview(p) ==
    /\ preview[p].at = "disallow"
    /\ preview' = [preview EXCEPT ![p].at = "none"]
    /\ LET r == record[preview[p].of]
       IN torrent' = [torrent EXCEPT ![r.of].gate = @ /\ r.configured]
    /\ UNCHANGED <<payload, switches, listed, record, attached, storage, request, verifier,
                   sweep, slot, use>>

\* close_preview_for: the caller runs the hook itself, unless another thread
\* closed the reader first.
CloseFirst(c, i, step) ==
    LET closes == IF slot # NoId /\ preview[slot].of = i /\ preview[slot].at = "open"
                  THEN slot ELSE NoId
    IN /\ request' = [request EXCEPT ![c] = [at |-> step, id |-> i, closes |-> closes]]
       /\ preview' = IF closes = NoId THEN preview
                     ELSE [preview EXCEPT ![closes].at = "withdraw"]

-----------------------------------------------------------------------------
(* /configure and the check of saved data.                                 *)

Configure(c, i) ==
    /\ Free(c) /\ listed = i
    /\ CloseFirst(c, i, "attach")
    /\ UNCHANGED <<payload, switches, listed, record, torrent, attached, storage, verifier,
                   sweep, slot, use>>

\* The storage is attached once: a Direct Play attachment replaces a draft,
\* a download refuses.
Attach(c, mode) ==
    /\ Ready(c, "attach")
    /\ LET fits == \/ storage \in {"none", "open"}
                   \/ storage = "draft" /\ mode = "stream"
       IN IF Open(request[c].id) /\ fits
          THEN storage' = mode /\ Reach(c, "configure")
          ELSE UNCHANGED storage /\ Finish(c)
    /\ UNCHANGED <<payload, switches, listed, record, torrent, attached, verifier, sweep,
                   preview, slot, use>>

\* The record is configured, and checked first if its files have data.
ConfigureRecord(c, verify) ==
    /\ Ready(c, "configure")
    /\ verify => storage = "saved"
    /\ Finish(c)
    /\ LET i == request[c].id
       IN IF Open(i)
          THEN ApplyTransferState(i,
                   [record[i] EXCEPT !.configured = TRUE, !.checking = verify],
                   [runs |-> verify, paused |-> FALSE, cancelled |-> FALSE])
          ELSE UNCHANGED <<record, torrent, verifier>>
    /\ UNCHANGED <<payload, switches, listed, attached, storage, sweep, preview, slot, use>>

\* check_saved_data stops when it is cancelled and waits while it is paused.
Verified(i) ==
    /\ verifier[i].runs
    /\ verifier[i].cancelled \/ ~verifier[i].paused
    /\ IF Open(i)
       THEN ApplyTransferState(i, [record[i] EXCEPT !.checking = FALSE],
                [verifier[i] EXCEPT !.runs = FALSE])
       ELSE verifier' = [verifier EXCEPT ![i].runs = FALSE] /\ UNCHANGED <<record, torrent>>
    /\ UNCHANGED <<payload, switches, listed, attached, storage, request, sweep, preview, slot, use>>

-----------------------------------------------------------------------------
(* The other requests on a record.                                         *)

Pause(c, i) ==
    /\ Free(c) /\ listed = i
    /\ CloseFirst(c, i, "pause")
    /\ UNCHANGED <<payload, switches, listed, record, torrent, attached, storage, verifier,
                   sweep, slot, use>>

PauseRecord(c) ==
    /\ Ready(c, "pause")
    /\ Finish(c)
    /\ ApplyTransferState(request[c].id, [record[request[c].id] EXCEPT !.paused = TRUE], verifier[request[c].id])
    /\ UNCHANGED <<payload, switches, listed, attached, storage, sweep, preview, slot, use>>

ResumeRecord(i) ==
    /\ listed = i /\ record[i].paused
    /\ ApplyTransferState(i, [record[i] EXCEPT !.paused = FALSE], verifier[i])
    /\ UNCHANGED <<payload, switches, listed, attached, storage, request, sweep, preview, slot, use>>

\* What is wanted of the record changes, and is applied.
Reapply(i) ==
    /\ listed = i
    /\ ApplyTransferState(i, record[i], verifier[i])
    /\ UNCHANGED <<payload, switches, listed, attached, storage, request, sweep, preview, slot, use>>

\* /play refuses a file that is not complete and could not become so.
Play(i, complete) ==
    /\ Open(i) /\ record[i].configured
    /\ complete \/ Active(record[i], payload, FALSE)
    /\ Reapply(i)

Select(i) == Open(i) /\ record[i].configured /\ storage # "none" /\ Reapply(i)

\* /file-only and /focus do not look whether the torrent is closed.
FileOnly(i) == Reapply(i)
Focus(i) == Reapply(i)

\* open_playback_at applies the gates again before it opens the reader.
OpenPlayback(i) == Open(i) /\ Reapply(i)

\* /settings stores the flag first, then applies it to a copy of the list.
Settings ==
    /\ sweep = {} /\ switches < use.switches
    /\ payload' = ~payload /\ switches' = switches + 1
    /\ sweep' = {i \in Ids : i = listed}
    /\ UNCHANGED <<listed, record, torrent, attached, storage, request, verifier, preview, slot, use>>

Sweep(i) ==
    /\ i \in sweep
    /\ sweep' = sweep \ {i}
    /\ ApplyTransferState(i, record[i], verifier[i])
    /\ UNCHANGED <<payload, switches, listed, attached, storage, request, preview, slot, use>>

-----------------------------------------------------------------------------
(* /remove: detached from the lists first, then dropped, then closed.      *)

Remove(c, i) ==
    /\ Free(c) /\ listed = i
    /\ CloseFirst(c, i, "detach")
    /\ UNCHANGED <<payload, switches, listed, record, torrent, attached, storage, verifier,
                   sweep, slot, use>>

Detach(c) ==
    /\ Ready(c, "detach")
    /\ IF listed = request[c].id
       THEN /\ listed' = NoId
            /\ Reach(c, "drop")
            /\ verifier' = [verifier EXCEPT ![listed].cancelled = @ \/ verifier[listed].runs]
       ELSE Finish(c) /\ UNCHANGED <<listed, verifier>>
    /\ UNCHANGED <<payload, switches, record, torrent, attached, storage, sweep, preview, slot, use>>

DropTorrent(c) ==
    /\ Ready(c, "drop")
    /\ LET t == record[request[c].id].of
       IN /\ torrent' = [torrent EXCEPT ![t].closed = TRUE]
          /\ attached' = IF attached = t THEN NoId ELSE attached
    /\ Reach(c, "close")
    /\ UNCHANGED <<payload, switches, listed, record, storage, verifier, sweep, preview, slot, use>>

\* The storage is found by hash, closed and forgotten.
CloseStorage(c) ==
    /\ Ready(c, "close")
    /\ storage' = "none"
    /\ Finish(c)
    /\ UNCHANGED <<payload, switches, listed, record, torrent, attached, verifier, sweep,
                   preview, slot, use>>

Next ==
    \/ \E c \in Callers, i \in Ids : Add(c, i)
    \/ \E c \in Callers : Insert(c)
    \/ \E p \in Previews, i \in Ids : OpenPreview(p, i)
    \/ \E p \in Previews : ClosePreview(p)
    \/ \E p \in Previews : WithdrawPreview(p)
    \/ \E p \in Previews : ReleaseDraft(p)
    \/ \E p \in Previews : EndPreview(p)
    \/ \E c \in Callers, i \in Ids : Configure(c, i)
    \/ \E c \in Callers, mode \in {"saved", "stream"} : Attach(c, mode)
    \/ \E c \in Callers, verify \in BOOLEAN : ConfigureRecord(c, verify)
    \/ \E i \in Ids : Verified(i)
    \/ \E c \in Callers, i \in Ids : Pause(c, i)
    \/ \E c \in Callers : PauseRecord(c)
    \/ \E i \in Ids : ResumeRecord(i)
    \/ \E i \in Ids, complete \in BOOLEAN : Play(i, complete)
    \/ \E i \in Ids : Select(i)
    \/ \E i \in Ids : FileOnly(i)
    \/ \E i \in Ids : Focus(i)
    \/ \E i \in Ids : OpenPlayback(i)
    \/ Settings
    \/ \E i \in Ids : Sweep(i)
    \/ \E c \in Callers, i \in Ids : Remove(c, i)
    \/ \E c \in Callers : Detach(c)
    \/ \E c \in Callers : DropTorrent(c)
    \/ \E c \in Callers : CloseStorage(c)

Spec == Init /\ [][Next]_vars

-----------------------------------------------------------------------------
(* Properties.                                                             *)

\* A record whose torrent is being dropped is on its way out, or was added
\* again in between and shares the torrent's end.
Live(i) == i = listed /\ Open(i) /\ \A c \in Callers : request[c].at # "drop"

\* However requests, the end of verification, previews and settings
\* interleave, a configured record transfers exactly when its state and the
\* settings say so, as soon as the settings have visited it.
GateFollowsState ==
    \A i \in Ids : (Live(i) /\ record[i].configured /\ i \notin sweep) =>
        torrent[record[i].of].gate = Active(record[i], payload, FALSE)

\* Nothing is downloaded over data that is being checked.
CheckedBeforeTransfer ==
    \A i \in Ids : verifier[i].runs /\ Live(i) => ~torrent[record[i].of].gate

\* A verifier that waits has somebody to let it go on: its record is listed
\* and paused, payload is off, or a sweep is about to visit it.
VerifierIsNotForgotten ==
    \A i \in Ids : (verifier[i].runs /\ verifier[i].paused /\ listed = i) =>
        record[i].paused \/ ~payload \/ i \in sweep

\* One preview is open at a time, although a new one may open while the old
\* one's hook is still running.
OnePreview == Cardinality({p \in Previews : preview[p].at = "open"}) <= 1

\* No draft is left behind: it would refuse every later download of the hash.
DraftEndsWithPreview ==
    storage = "draft" => \E p \in Previews : preview[p].draft /\ preview[p].at # "none"

\* Traffic flows when, and only when, the settings, the request and the restore check
\* of the record allow it, and a verifier that was paused is not forgotten.
TransfersAreAllowed == GateFollowsState /\ CheckedBeforeTransfer /\ VerifierIsNotForgotten

\* One preview runs at a time, and its draft storage ends with it.
PreviewIsAlone == OnePreview /\ DraftEndsWithPreview
=============================================================================
