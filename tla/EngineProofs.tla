---------------------------- MODULE EngineProofs ----------------------------
(***************************************************************************)
(* Proofs about Engine and Services, for every number of callers, records, *)
(* previews, torrents, readers and faults.                                 *)
(*                                                                         *)
(* Of Engine: the gates of the transfers and the one preview.  The         *)
(* difficulty is that a record goes on acting after it was removed: a      *)
(* verifier, a sweep of the settings, a preview's hook or a late request   *)
(* still applies its state to a torrent, and a record added again before   *)
(* the removal has dropped that torrent shares it.                         *)
(*                                                                         *)
(* Of Services: the saved resume windows (R), the public tracker list (L), *)
(* the announces of the dispatcher (D), the readers of playback (P), the   *)
(* calls that share a tracker socket (U) and the offers of a WebTorrent    *)
(* tracker (T).                                                            *)
(***************************************************************************)
EXTENDS Engine, Services, Sequences, FiniteSetTheorems, TLAPS

-----------------------------------------------------------------------------
(* Transfers and previews                                                  *)

USE EngineAssumption

RecordType == [of : Ids \cup {NoId}, configured : BOOLEAN, paused : BOOLEAN, checking : BOOLEAN]
TorrentType == [made : BOOLEAN, closed : BOOLEAN, gate : BOOLEAN]
VerifierType == [runs : BOOLEAN, paused : BOOLEAN, cancelled : BOOLEAN]
Steps == {"none", "insert", "attach", "configure", "pause", "detach", "drop", "close"}
RequestType == [at : Steps, id : Ids \cup {NoId}, closes : Previews \cup {NoId}]
PreviewSteps == {"none", "open", "withdraw", "release", "disallow"}
PreviewType == [of : Ids \cup {NoId}, at : PreviewSteps, draft : BOOLEAN]

\* Every variable the proofs look at has its type.
TypeOK ==
    /\ payload \in BOOLEAN
    /\ listed \in Ids \cup {NoId} /\ attached \in Ids \cup {NoId}
    /\ record \in [Ids -> RecordType]
    /\ torrent \in [Ids -> TorrentType]
    /\ request \in [Callers -> RequestType]
    /\ verifier \in [Ids -> VerifierType]
    /\ sweep \subseteq Ids
    /\ preview \in [Previews -> PreviewType]
    /\ slot \in Previews \cup {NoId}

----------------------------------------------------------------------------
(* The life of a record.                                                   *)

Acting(c) == request[c].at \notin {"none", "insert"}
Inserting(c) == request[c].at = "insert"

\* The record was listed: it is, or something that acts on it was started.
Used(i) ==
    \/ i = listed
    \/ \E c \in Callers : Acting(c) /\ request[c].id = i
    \/ verifier[i].runs \/ record[i].configured
    \/ i \in sweep
    \/ \E p \in Previews : preview[p].of = i

\* The torrent of the record is about to be closed by a removal.
Dropping(i) ==
    \E c \in Callers : request[c].at = "drop" /\ record[request[c].id].of = record[i].of

InService(i) == i = listed /\ Open(i) /\ ~Dropping(i)

\* Whoever acts has a record, and a record has a torrent once it was listed.
ActorsHaveRecords ==
    /\ \A c \in Callers : request[c].at # "none" =>
           request[c].id \in Ids /\ record[request[c].id].of # NoId
    /\ \A p \in Previews : preview[p].at # "none" => preview[p].of \in Ids
    /\ \A i \in Ids : Used(i) => record[i].of # NoId

\* A record that is about to be listed was not listed before, and only one request
\* will list it.
InsertedOnce ==
    \A c \in Callers : Inserting(c) =>
        /\ ~Used(request[c].id)
        /\ \A d \in Callers : Inserting(d) /\ request[d].id = request[c].id => d = c

\* A record that was removed can only disturb a torrent that is or will be closed.
RemovedIsHarmless ==
    \A i \in Ids : Used(i) /\ i # listed => torrent[record[i].of].closed \/ Dropping(i)

RecordsInv == TypeOK /\ ActorsHaveRecords /\ InsertedOnce /\ RemovedIsHarmless

----------------------------------------------------------------------------
(* The gates.                                                              *)

GateIsRight ==
    \A i \in Ids : InService(i) /\ record[i].configured /\ i \notin sweep =>
        torrent[record[i].of].gate = Active(record[i], payload, FALSE)

\* The gate of a record that is being checked is shut, visited by the settings or not.
CheckingIsShut ==
    /\ \A i \in Ids : verifier[i].runs => record[i].configured /\ record[i].checking
    /\ \A i \in Ids : InService(i) /\ record[i].configured /\ record[i].checking =>
           ~torrent[record[i].of].gate

GateInv == GateIsRight /\ CheckingIsShut /\ VerifierIsNotForgotten

----------------------------------------------------------------------------
(* The previews.                                                           *)

SlotHoldsOpen == \A p \in Previews : preview[p].at = "open" => slot = p

DraftIsHeld ==
    storage = "draft" =>
        \E p \in Previews : preview[p].draft /\ preview[p].at \in {"open", "withdraw", "release"}

PreviewInv == SlotHoldsOpen /\ DraftIsHeld

----------------------------------------------------------------------------
(* Types.                                                                  *)

\* What apply_transfer_state leaves in the three tables.
LEMMA Applied ==
    ASSUME TypeOK, NEW i \in Ids, NEW r \in RecordType, NEW v \in VerifierType,
           ApplyTransferState(i, r, v)
    PROVE  /\ record' \in [Ids -> RecordType] /\ torrent' \in [Ids -> TorrentType]
           /\ verifier' \in [Ids -> VerifierType]
           /\ \A j \in Ids : record'[j] = IF j = i THEN r ELSE record[j]
           /\ \A j \in Ids : torrent'[j].closed = torrent[j].closed
           /\ \A j \in Ids : j # r.of => torrent'[j].gate = torrent[j].gate
           /\ r.of \in Ids => torrent'[r.of].gate = Active(r, payload, torrent[r.of].closed)
           /\ \A j \in Ids : j # i => verifier'[j] = verifier[j]
           /\ verifier'[i].runs = v.runs
           /\ v.runs => verifier'[i].paused = (r.paused \/ ~payload)
<1>1. Active(r, payload, torrent[r.of].closed) \in BOOLEAN
  BY DEF Active
<1>2. (r.paused \/ ~payload) \in BOOLEAN
  OBVIOUS
<1>3. /\ record' \in [Ids -> RecordType]
      /\ \A j \in Ids : record'[j] = IF j = i THEN r ELSE record[j]
  BY DEF ApplyTransferState, TypeOK
<1>4. /\ torrent' \in [Ids -> TorrentType]
      /\ \A j \in Ids : torrent'[j].closed = torrent[j].closed
      /\ \A j \in Ids : j # r.of => torrent'[j].gate = torrent[j].gate
      /\ r.of \in Ids => torrent'[r.of].gate = Active(r, payload, torrent[r.of].closed)
  BY <1>1, ZenonT(60) DEF ApplyTransferState, TypeOK, TorrentType
<1>5. /\ verifier' \in [Ids -> VerifierType]
      /\ \A j \in Ids : j # i => verifier'[j] = verifier[j]
      /\ verifier'[i].runs = v.runs
      /\ v.runs => verifier'[i].paused = (r.paused \/ ~payload)
  BY <1>2 DEF ApplyTransferState, TypeOK, VerifierType
<1> QED
  BY <1>3, <1>4, <1>5

\* close_preview_for starts a request and perhaps closes the reader in the slot.
LEMMA ClosedFirst ==
    ASSUME TypeOK, NEW c \in Callers, NEW i \in Ids, NEW step \in Steps \ {"none", "insert", "drop"},
           CloseFirst(c, i, step)
    PROVE  /\ request' \in [Callers -> RequestType]
           /\ \A d \in Callers : d # c => request'[d] = request[d]
           /\ request'[c].at = step /\ request'[c].id = i
           /\ preview' \in [Previews -> PreviewType]
           /\ \A p \in Previews : /\ preview'[p].of = preview[p].of
                                  /\ preview'[p].draft = preview[p].draft
                                  /\ \/ preview'[p].at = preview[p].at
                                     \/ preview[p].at = "open" /\ preview'[p].at = "withdraw"
<1> DEFINE closes == IF slot # NoId /\ preview[slot].of = i /\ preview[slot].at = "open"
                     THEN slot ELSE NoId
<1>1. closes \in Previews \cup {NoId}
  BY DEF TypeOK
<1>2. closes # NoId => closes \in Previews /\ preview[closes].at = "open"
  BY DEF TypeOK
<1>3. /\ request' = [request EXCEPT ![c] = [at |-> step, id |-> i, closes |-> closes]]
      /\ preview' = IF closes = NoId THEN preview
                    ELSE [preview EXCEPT ![closes].at = "withdraw"]
  BY DEF CloseFirst
<1> HIDE DEF closes
<1>4. /\ request' \in [Callers -> RequestType]
      /\ \A d \in Callers : d # c => request'[d] = request[d]
      /\ request'[c].at = step /\ request'[c].id = i
  BY <1>1, <1>3 DEF TypeOK, RequestType, Steps
<1>5. CASE closes = NoId
  BY <1>3, <1>4, <1>5 DEF TypeOK
<1>6. CASE closes # NoId
  BY <1>2, <1>3, <1>4, <1>6 DEF TypeOK, PreviewType, PreviewSteps
<1> QED
  BY <1>5, <1>6

\* A request that moves on or ends is a request.
LEMMA RequestMoves ==
    ASSUME TypeOK, NEW c \in Callers, NEW step \in Steps
    PROVE  /\ Finish(c) => request' \in [Callers -> RequestType]
           /\ Reach(c, step) => request' \in [Callers -> RequestType]
  BY DEF TypeOK, Finish, Reach, Idle, RequestType, Steps

\* A record that is changed by a handler is a record.
LEMMA RecordMoves ==
    ASSUME NEW r \in RecordType, NEW b \in BOOLEAN
    PROVE  /\ [r EXCEPT !.configured = TRUE, !.checking = b] \in RecordType
           /\ [r EXCEPT !.checking = FALSE] \in RecordType
           /\ [r EXCEPT !.paused = b] \in RecordType
           /\ [r EXCEPT !.configured = TRUE, !.checking = b].of = r.of
           /\ [r EXCEPT !.checking = FALSE].of = r.of
           /\ [r EXCEPT !.paused = b].of = r.of
  BY DEF RecordType

\* Pausing a record does not change whether it is checked, configuring it does.
LEMMA RecordChecks ==
    ASSUME NEW r \in RecordType, NEW b \in BOOLEAN
    PROVE  /\ LET q == [r EXCEPT !.configured = TRUE, !.checking = b]
              IN q.configured /\ q.checking = b
           /\ LET q == [r EXCEPT !.paused = b]
              IN q.configured = r.configured /\ q.checking = r.checking
  BY DEF RecordType

\* A verifier that ends is a verifier, and does not run.
LEMMA VerifierEnds ==
    ASSUME NEW v \in VerifierType
    PROVE  [v EXCEPT !.runs = FALSE] \in VerifierType /\ ~[v EXCEPT !.runs = FALSE].runs
  BY DEF VerifierType

\* Every step keeps the types.
LEMMA TypeStep == ASSUME TypeOK, ActorsHaveRecords, [Next]_vars PROVE TypeOK'
<1>1. ASSUME NEW c \in Callers, NEW i \in Ids, Add(c, i) PROVE TypeOK'
  <2>1. PICK t \in Ids : /\ record' = [record EXCEPT ![i].of = t] /\ attached' = t
                         /\ torrent' = [torrent EXCEPT ![t].made = TRUE]
    BY <1>1 DEF Add, ClientAdd, TypeOK
  <2>2. record' \in [Ids -> RecordType] /\ torrent' \in [Ids -> TorrentType]
    BY <2>1, ZenonT(60) DEF TypeOK, TorrentType, RecordType
  <2>3. request' \in [Callers -> RequestType]
    BY <1>1 DEF Add, TypeOK, RequestType, Steps
  <2> QED
    BY <1>1, <2>1, <2>2, <2>3 DEF Add, TypeOK
<1>2. ASSUME NEW c \in Callers, Insert(c) PROVE TypeOK'
  BY <1>2, RequestMoves DEF Insert, Ready, ActorsHaveRecords, TypeOK, Steps
<1>3. ASSUME NEW p \in Previews, NEW i \in Ids, OpenPreview(p, i) PROVE TypeOK'
  <2>1. preview' \in [Previews -> PreviewType]
    <3>1. (~record[i].configured) \in BOOLEAN
      OBVIOUS
    <3> QED
      BY <1>3, <3>1 DEF OpenPreview, TypeOK, PreviewType, PreviewSteps
  <2>2. torrent' \in [Ids -> TorrentType]
    BY <1>3 DEF OpenPreview, TypeOK, TorrentType
  <2> QED
    BY <1>3, <2>1, <2>2 DEF OpenPreview, TypeOK
<1>4. ASSUME NEW p \in Previews, ClosePreview(p) \/ WithdrawPreview(p) \/ ReleaseDraft(p)
      PROVE  TypeOK'
  <2>1. preview' \in [Previews -> PreviewType]
    BY <1>4 DEF ClosePreview, WithdrawPreview, ReleaseDraft, TypeOK, PreviewType, PreviewSteps
  <2> QED
    BY <1>4, <2>1 DEF ClosePreview, WithdrawPreview, ReleaseDraft, TypeOK
<1>5. ASSUME NEW p \in Previews, EndPreview(p) PROVE TypeOK'
  <2>1. preview' \in [Previews -> PreviewType]
    BY <1>5 DEF EndPreview, TypeOK, PreviewType, PreviewSteps
  <2>2. torrent' \in [Ids -> TorrentType]
    BY <1>5, ZenonT(60) DEF EndPreview, TypeOK, TorrentType
  <2> QED
    BY <1>5, <2>1, <2>2 DEF EndPreview, TypeOK
<1>6. ASSUME NEW c \in Callers, NEW i \in Ids, Configure(c, i) \/ Pause(c, i) \/ Remove(c, i)
      PROVE  TypeOK'
  <2>1. PICK step \in Steps \ {"none", "insert", "drop"} : CloseFirst(c, i, step)
    BY <1>6 DEF Configure, Pause, Remove, Steps
  <2> QED
    BY <1>6, <2>1, ClosedFirst DEF Configure, Pause, Remove, TypeOK
<1>7. ASSUME NEW c \in Callers, NEW mode \in {"saved", "stream"}, Attach(c, mode) PROVE TypeOK'
  BY <1>7, RequestMoves DEF Attach, TypeOK, Steps
<1>8. ASSUME NEW c \in Callers, NEW verify \in BOOLEAN, ConfigureRecord(c, verify) PROVE TypeOK'
  <2> DEFINE i == request[c].id
             r == [record[i] EXCEPT !.configured = TRUE, !.checking = verify]
             v == [runs |-> verify, paused |-> FALSE, cancelled |-> FALSE]
  <2>1. i \in Ids /\ r \in RecordType /\ v \in VerifierType
    BY <1>8, RecordMoves DEF ConfigureRecord, Ready, ActorsHaveRecords, TypeOK, VerifierType
  <2>2. request' \in [Callers -> RequestType]
    BY <1>8, RequestMoves DEF ConfigureRecord, Steps
  <2>3. CASE ApplyTransferState(i, r, v)
    BY <1>8, <2>1, <2>2, <2>3, Applied DEF ConfigureRecord, TypeOK
  <2>4. CASE UNCHANGED <<record, torrent, verifier>>
    BY <1>8, <2>2, <2>4 DEF ConfigureRecord, TypeOK
  <2> QED
    BY <1>8, <2>3, <2>4 DEF ConfigureRecord
<1>9. ASSUME NEW i \in Ids, Verified(i) PROVE TypeOK'
  <2> DEFINE r == [record[i] EXCEPT !.checking = FALSE]
             v == [verifier[i] EXCEPT !.runs = FALSE]
  <2>1. r \in RecordType /\ v \in VerifierType
    BY RecordMoves, VerifierEnds DEF TypeOK
  <2>2. CASE ApplyTransferState(i, r, v)
    BY <1>9, <2>1, <2>2, Applied DEF Verified, TypeOK
  <2>3. CASE verifier' = [verifier EXCEPT ![i].runs = FALSE] /\ UNCHANGED <<record, torrent>>
    BY <1>9, <2>3 DEF Verified, TypeOK, VerifierType
  <2> QED
    BY <1>9, <2>2, <2>3 DEF Verified
<1>10. ASSUME NEW c \in Callers, PauseRecord(c) PROVE TypeOK'
  <2> DEFINE i == request[c].id
  <2>1. i \in Ids /\ [record[i] EXCEPT !.paused = TRUE] \in RecordType /\ verifier[i] \in VerifierType
    BY <1>10, RecordMoves DEF PauseRecord, Ready, ActorsHaveRecords, TypeOK
  <2>2. request' \in [Callers -> RequestType]
    BY <1>10, RequestMoves DEF PauseRecord, Steps
  <2> QED
    BY <1>10, <2>1, <2>2, Applied DEF PauseRecord, TypeOK
<1>11. ASSUME NEW i \in Ids, ResumeRecord(i) PROVE TypeOK'
  <2>1. [record[i] EXCEPT !.paused = FALSE] \in RecordType /\ verifier[i] \in VerifierType
    BY RecordMoves DEF TypeOK
  <2> QED
    BY <1>11, <2>1, Applied DEF ResumeRecord, TypeOK
<1>12. ASSUME NEW i \in Ids, Reapply(i) \/ Sweep(i) PROVE TypeOK'
  <2>1. record[i] \in RecordType /\ verifier[i] \in VerifierType
    BY DEF TypeOK
  <2> QED
    BY <1>12, <2>1, Applied DEF Reapply, Sweep, TypeOK
<1>13. CASE Settings
  BY <1>13 DEF Settings, TypeOK
<1>14. ASSUME NEW c \in Callers, Detach(c) PROVE TypeOK'
  <2>1. request' \in [Callers -> RequestType]
    BY <1>14, RequestMoves DEF Detach, Steps
  <2>2. verifier' \in [Ids -> VerifierType] /\ listed' \in Ids \cup {NoId}
    BY <1>14 DEF Detach, TypeOK, VerifierType
  <2> QED
    BY <1>14, <2>1, <2>2 DEF Detach, TypeOK
<1>15. ASSUME NEW c \in Callers, DropTorrent(c) PROVE TypeOK'
  <2>1. request' \in [Callers -> RequestType]
    BY <1>15, RequestMoves DEF DropTorrent, Steps
  <2>2. torrent' \in [Ids -> TorrentType] /\ attached' \in Ids \cup {NoId}
    BY <1>15 DEF DropTorrent, TypeOK, TorrentType
  <2> QED
    BY <1>15, <2>1, <2>2 DEF DropTorrent, TypeOK
<1>16. ASSUME NEW c \in Callers, CloseStorage(c) PROVE TypeOK'
  BY <1>16, RequestMoves DEF CloseStorage, TypeOK, Steps
<1>17. CASE UNCHANGED vars
  BY <1>17 DEF TypeOK, vars
<1> QED
  BY <1>1, <1>2, <1>3, <1>4, <1>5, <1>6, <1>7, <1>8, <1>9, <1>10, <1>11, <1>12, <1>13,
     <1>14, <1>15, <1>16, <1>17 DEF Next, Play, Select, FileOnly, Focus, OpenPlayback

----------------------------------------------------------------------------
(* The life of a record: the steps that list, remove or drop one come last. *)

\* A step that neither lists, removes nor drops a record, and acts on no record that
\* nothing acted on before, keeps the invariant.
LEMMA RecordsKept ==
    ASSUME RecordsInv, TypeOK',
           listed' = listed,
           \A i \in Ids : record'[i].of = record[i].of,
           \A i \in Ids : torrent'[i].closed = torrent[i].closed,
           \A i \in Ids : Used(i)' => Used(i),
           \A c \in Callers : request[c].at = "drop" => request'[c] = request[c],
           \A c \in Callers : request'[c].at = "insert" => request'[c] = request[c],
           \A c \in Callers : request'[c].at # "none" =>
               \/ request[c].at # "none" /\ request'[c].id = request[c].id
               \/ request'[c].id = listed /\ listed \in Ids,
           \A p \in Previews : preview'[p].at # "none" => preview'[p].of \in Ids
    PROVE  RecordsInv'
<1>1. ActorsHaveRecords'
  <2>1. Used(listed)
    BY DEF Used
  <2> QED
    BY <2>1 DEF RecordsInv, ActorsHaveRecords
<1>2. InsertedOnce'
  BY DEF RecordsInv, ActorsHaveRecords, InsertedOnce, Inserting
<1>3. \A i \in Ids : Dropping(i) => Dropping(i)'
  BY DEF RecordsInv, ActorsHaveRecords, Dropping
<1>4. RemovedIsHarmless'
  BY <1>3 DEF RecordsInv, ActorsHaveRecords, RemovedIsHarmless, TypeOK, RecordType
<1> QED
  BY <1>1, <1>2, <1>4 DEF RecordsInv

\* The steps of apply_transfer_state: they act on a record that was listed.
LEMMA ApplyKeepsRecords ==
    ASSUME RecordsInv, TypeOK', NEW i \in Ids, Used(i),
           NEW r \in RecordType, r.of = record[i].of, NEW v \in VerifierType,
           ApplyTransferState(i, r, v),
           sweep' \subseteq sweep,
           request' = request \/ \E c \in Callers : Acting(c) /\ request[c].at # "drop" /\ Finish(c),
           UNCHANGED <<listed, preview>>
    PROVE  RecordsInv'
<1>1. \A j \in Ids : record'[j] = IF j = i THEN r ELSE record[j]
  BY Applied DEF RecordsInv
<1>2. \A j \in Ids : torrent'[j].closed = torrent[j].closed
  BY Applied DEF RecordsInv
<1>3. \A j \in Ids : j # i => verifier'[j] = verifier[j]
  BY Applied DEF RecordsInv
<1>4. \A c \in Callers : request'[c] = request[c] \/ (request'[c].at = "none" /\ request[c].at # "drop")
  BY DEF Finish, Idle, RecordsInv, TypeOK
<1>5. \A j \in Ids : Used(j)' => Used(j)
  <2> SUFFICES ASSUME NEW j \in Ids, j # i, Used(j)' PROVE Used(j)
    OBVIOUS
  <2>1. record'[j] = record[j] /\ verifier'[j] = verifier[j]
    BY <1>1, <1>3
  <2> QED
    BY <1>4, <2>1 DEF Used, Acting
<1> QED
  BY <1>1, <1>2, <1>4, <1>5, RecordsKept DEF RecordsInv, ActorsHaveRecords

\* Every step keeps what is known of the life of the records.
LEMMA RecordsStep == ASSUME RecordsInv, [Next]_vars PROVE RecordsInv'
<1>0. TypeOK /\ TypeOK'
  BY TypeStep DEF RecordsInv
<1>1. ASSUME NEW c \in Callers, NEW i \in Ids, Add(c, i) PROVE RecordsInv'
  <2>1. PICK t \in Ids : record' = [record EXCEPT ![i].of = t]
    BY <1>1 DEF Add, ClientAdd, TypeOK, RecordsInv
  <2>2. /\ \A j \in Ids : j # i => record'[j] = record[j]
        /\ record'[i].of = t /\ record'[i].configured = record[i].configured
    BY <1>0, <2>1 DEF TypeOK, RecordType
  <2>3. /\ \A d \in Callers : d # c => request'[d] = request[d]
        /\ request'[c].at = "insert" /\ request'[c].id = i /\ request[c].at = "none"
    BY <1>0, <1>1 DEF Add, Free, TypeOK
  <2>4. \A j \in Ids : Used(j)' <=> Used(j)
    BY <1>1, <2>2, <2>3 DEF Add, Used, Acting
  <2>5. ~Used(i) /\ \A d \in Callers : request[d].at # "none" => request[d].id # i
    BY <1>1 DEF Add, RecordsInv, ActorsHaveRecords
  <2>6. ActorsHaveRecords'
    BY <1>1, <2>2, <2>3, <2>4 DEF Add, RecordsInv, ActorsHaveRecords
  <2>7. InsertedOnce'
    BY <2>3, <2>4, <2>5 DEF RecordsInv, InsertedOnce, ActorsHaveRecords, Inserting
  <2>8. \A j \in Ids : j # i /\ Dropping(j) => Dropping(j)'
    BY <2>2, <2>3, <2>5 DEF Dropping, RecordsInv, ActorsHaveRecords
  <2>9. \A j \in Ids : torrent'[j].closed = torrent[j].closed
    BY <1>0, <1>1 DEF Add, ClientAdd, TypeOK, TorrentType
  <2>10. RemovedIsHarmless'
    BY <1>1, <2>2, <2>4, <2>5, <2>8, <2>9, <1>0 DEF Add, RecordsInv, RemovedIsHarmless,
       ActorsHaveRecords, TypeOK, RecordType
  <2> QED
    BY <1>0, <2>6, <2>7, <2>10 DEF RecordsInv
<1>2. ASSUME NEW c \in Callers, Insert(c) PROVE RecordsInv'
  <2>1. /\ \A d \in Callers : d # c => request'[d] = request[d]
        /\ request'[c].at = "none" /\ Inserting(c) /\ request[c].id \in Ids
    BY <1>0, <1>2 DEF Insert, Ready, Finish, Idle, Inserting, TypeOK, RecordsInv, ActorsHaveRecords
  <2>2. UNCHANGED <<record, torrent, verifier, sweep, preview>>
    BY <1>2 DEF Insert
  <2>3. listed' = listed \/ (listed = NoId /\ listed' = request[c].id)
    BY <1>2 DEF Insert
  <2>4. \A j \in Ids : Used(j)' => Used(j) \/ (j = request[c].id /\ j = listed')
    BY <2>1, <2>2, <2>3 DEF Used, Acting
  <2>5. ActorsHaveRecords'
    BY <2>1, <2>2, <2>4 DEF RecordsInv, ActorsHaveRecords, Inserting
  <2>6. InsertedOnce'
    <3>1. \A d \in Callers : Inserting(d)' => Inserting(d) /\ d # c /\ request'[d] = request[d]
      BY <2>1 DEF Inserting
    <3>2. \A d \in Callers : Inserting(d) /\ d # c => request[d].id # request[c].id /\ request[d].id \in Ids
      BY <2>1 DEF RecordsInv, InsertedOnce, ActorsHaveRecords, Inserting
    <3> QED
      BY <2>4, <3>1, <3>2 DEF RecordsInv, InsertedOnce
  <2>7. \A j \in Ids : Dropping(j) => Dropping(j)'
    BY <2>1, <2>2 DEF Dropping, Inserting
  <2>8. RemovedIsHarmless'
    BY <2>2, <2>3, <2>4, <2>7 DEF RecordsInv, RemovedIsHarmless
  <2> QED
    BY <1>0, <2>5, <2>6, <2>8 DEF RecordsInv
<1>3. ASSUME NEW p \in Previews, NEW i \in Ids, OpenPreview(p, i) PROVE RecordsInv'
  <2>1. /\ \A q \in Previews : q # p => preview'[q] = preview[q]
        /\ preview'[p].of = listed /\ listed = i
    BY <1>0, <1>3 DEF OpenPreview, TypeOK
  <2>2. \A j \in Ids : Used(j)' => Used(j)
    BY <1>3, <2>1 DEF OpenPreview, Used, Acting
  <2>3. \A j \in Ids : torrent'[j].closed = torrent[j].closed
    BY <1>0, <1>3 DEF OpenPreview, TypeOK, TorrentType
  <2> QED
    BY <1>0, <1>3, <2>1, <2>2, <2>3, RecordsKept DEF OpenPreview, RecordsInv, ActorsHaveRecords
<1>4. ASSUME NEW p \in Previews, ClosePreview(p) \/ WithdrawPreview(p) \/ ReleaseDraft(p)
      PROVE  RecordsInv'
  <2>1. \A q \in Previews : preview'[q].of = preview[q].of /\ (q # p => preview'[q] = preview[q])
    BY <1>0, <1>4 DEF ClosePreview, WithdrawPreview, ReleaseDraft, TypeOK, PreviewType
  <2>2. preview[p].at # "none" /\ UNCHANGED <<listed, record, torrent, request, verifier, sweep>>
    BY <1>4 DEF ClosePreview, WithdrawPreview, ReleaseDraft
  <2>3. \A j \in Ids : Used(j)' => Used(j)
    BY <2>1, <2>2 DEF Used, Acting
  <2> QED
    BY <1>0, <2>1, <2>2, <2>3, RecordsKept DEF RecordsInv, ActorsHaveRecords
<1>5. ASSUME NEW p \in Previews, EndPreview(p) PROVE RecordsInv'
  <2>1. \A q \in Previews : preview'[q].of = preview[q].of /\ (q # p => preview'[q] = preview[q])
    BY <1>0, <1>5 DEF EndPreview, TypeOK, PreviewType
  <2>2. preview[p].at # "none" /\ UNCHANGED <<listed, record, request, verifier, sweep>>
    BY <1>5 DEF EndPreview
  <2>3. \A j \in Ids : torrent'[j].closed = torrent[j].closed
    BY <1>0, <1>5 DEF EndPreview, TypeOK, TorrentType
  <2>4. \A j \in Ids : Used(j)' => Used(j)
    BY <2>1, <2>2 DEF Used, Acting
  <2> QED
    BY <1>0, <2>1, <2>2, <2>3, <2>4, RecordsKept DEF RecordsInv, ActorsHaveRecords
<1>6. ASSUME NEW c \in Callers, NEW i \in Ids, Configure(c, i) \/ Pause(c, i) \/ Remove(c, i)
      PROVE  RecordsInv'
  <2>1. PICK step \in Steps \ {"none", "insert", "drop"} : CloseFirst(c, i, step)
    BY <1>6 DEF Configure, Pause, Remove, Steps
  <2>2. /\ \A d \in Callers : d # c => request'[d] = request[d]
        /\ request'[c].at = step /\ request'[c].id = i /\ request[c].at = "none" /\ listed = i
    BY <1>0, <1>6, <2>1, ClosedFirst DEF Configure, Pause, Remove, Free
  <2>3. \A p \in Previews : /\ preview'[p].of = preview[p].of
                            /\ preview'[p].at # "none" => preview[p].at # "none"
    BY <1>0, <2>1, ClosedFirst
  <2>4. UNCHANGED <<listed, record, torrent, verifier, sweep>>
    BY <1>6 DEF Configure, Pause, Remove
  <2>5. \A j \in Ids : Used(j)' => Used(j)
    BY <2>2, <2>3, <2>4 DEF Used, Acting
  <2> QED
    BY <1>0, <2>2, <2>3, <2>4, <2>5, RecordsKept DEF RecordsInv, ActorsHaveRecords
<1>7. ASSUME NEW c \in Callers, NEW mode \in {"saved", "stream"}, Attach(c, mode) \/ CloseStorage(c)
      PROVE  RecordsInv'
  <2>1. /\ \A d \in Callers : d # c => request'[d] = request[d]
        /\ Acting(c) /\ request[c].at # "drop"
        /\ \/ request'[c].at = "none"
           \/ request'[c].at = "configure" /\ request'[c].id = request[c].id
    BY <1>0, <1>7 DEF Attach, CloseStorage, Ready, Finish, Reach, Idle, Acting, TypeOK, RequestType
  <2>2. UNCHANGED <<listed, record, torrent, verifier, sweep, preview>>
    BY <1>7 DEF Attach, CloseStorage
  <2>3. \A j \in Ids : Used(j)' => Used(j)
    BY <2>1, <2>2 DEF Used, Acting
  <2> QED
    BY <1>0, <2>1, <2>2, <2>3, RecordsKept DEF RecordsInv, ActorsHaveRecords, Acting
<1>8. ASSUME NEW c \in Callers, NEW verify \in BOOLEAN, ConfigureRecord(c, verify)
      PROVE  RecordsInv'
  <2> DEFINE i == request[c].id
             r == [record[i] EXCEPT !.configured = TRUE, !.checking = verify]
             v == [runs |-> verify, paused |-> FALSE, cancelled |-> FALSE]
  <2>1. i \in Ids /\ Acting(c) /\ request[c].at # "drop" /\ Used(i) /\ Finish(c)
    BY <1>8 DEF ConfigureRecord, Ready, RecordsInv, ActorsHaveRecords, Acting, Used
  <2>2. r \in RecordType /\ v \in VerifierType /\ r.of = record[i].of
    BY <1>0, <2>1, RecordMoves DEF TypeOK, VerifierType
  <2>3. UNCHANGED <<listed, sweep, preview>>
    BY <1>8 DEF ConfigureRecord
  <2>4. CASE ApplyTransferState(i, r, v)
    BY <1>0, <2>1, <2>2, <2>3, <2>4, ApplyKeepsRecords
  <2>5. CASE UNCHANGED <<record, torrent, verifier>>
    <3>1. \A d \in Callers : d # c => request'[d] = request[d]
      BY <1>0, <2>1 DEF Finish, TypeOK
    <3>2. request'[c].at = "none"
      BY <1>0, <2>1 DEF Finish, Idle, TypeOK
    <3>3. \A j \in Ids : Used(j)' => Used(j)
      BY <2>3, <2>5, <3>1, <3>2 DEF Used, Acting
    <3> QED
      BY <1>0, <2>1, <2>3, <2>5, <3>1, <3>2, <3>3, RecordsKept DEF RecordsInv, ActorsHaveRecords
  <2> QED
    BY <1>8, <2>4, <2>5 DEF ConfigureRecord
<1>9. ASSUME NEW i \in Ids, Verified(i) PROVE RecordsInv'
  <2> DEFINE r == [record[i] EXCEPT !.checking = FALSE]
             v == [verifier[i] EXCEPT !.runs = FALSE]
  <2>1. r \in RecordType /\ v \in VerifierType /\ r.of = record[i].of
    BY <1>0, RecordMoves, VerifierEnds DEF TypeOK
  <2>2. Used(i) /\ UNCHANGED <<listed, sweep, preview, request>>
    BY <1>9 DEF Verified, Used
  <2>3. CASE ApplyTransferState(i, r, v)
    BY <1>0, <2>1, <2>2, <2>3, ApplyKeepsRecords
  <2>4. CASE verifier' = [verifier EXCEPT ![i].runs = FALSE] /\ UNCHANGED <<record, torrent>>
    <3>1. \A j \in Ids : verifier'[j].runs => verifier[j].runs
      BY <1>0, <2>4 DEF TypeOK, VerifierType
    <3>2. \A j \in Ids : Used(j)' => Used(j)
      BY <2>2, <2>4, <3>1 DEF Used, Acting
    <3> QED
      BY <1>0, <2>2, <2>4, <3>2, RecordsKept DEF RecordsInv, ActorsHaveRecords
  <2> QED
    BY <1>9, <2>3, <2>4 DEF Verified
<1>10. ASSUME NEW c \in Callers, PauseRecord(c) PROVE RecordsInv'
  <2> DEFINE i == request[c].id
             r == [record[i] EXCEPT !.paused = TRUE]
  <2>1. i \in Ids /\ Acting(c) /\ request[c].at # "drop" /\ Used(i) /\ Finish(c)
    BY <1>10 DEF PauseRecord, Ready, RecordsInv, ActorsHaveRecords, Acting, Used
  <2>2. r \in RecordType /\ verifier[i] \in VerifierType /\ r.of = record[i].of
    BY <1>0, <2>1, RecordMoves DEF TypeOK, VerifierType
  <2>3. ApplyTransferState(i, r, verifier[i]) /\ UNCHANGED <<listed, sweep, preview>>
    BY <1>10 DEF PauseRecord
  <2> QED
    BY <1>0, <2>1, <2>2, <2>3, ApplyKeepsRecords
<1>11. ASSUME NEW i \in Ids, ResumeRecord(i) PROVE RecordsInv'
  <2> DEFINE r == [record[i] EXCEPT !.paused = FALSE]
  <2>1. r \in RecordType /\ verifier[i] \in VerifierType /\ r.of = record[i].of
    BY <1>0, RecordMoves DEF TypeOK, VerifierType
  <2>2. /\ ApplyTransferState(i, r, verifier[i]) /\ Used(i)
        /\ UNCHANGED <<listed, sweep, preview, request>>
    BY <1>11 DEF ResumeRecord, Used
  <2> QED
    BY <1>0, <2>1, <2>2, ApplyKeepsRecords
<1>12. ASSUME NEW i \in Ids, Reapply(i) \/ Sweep(i) PROVE RecordsInv'
  <2>1. record[i] \in RecordType /\ verifier[i] \in VerifierType
    BY <1>0 DEF TypeOK
  <2>2. /\ ApplyTransferState(i, record[i], verifier[i]) /\ Used(i) /\ sweep' \subseteq sweep
        /\ UNCHANGED <<listed, preview, request>>
    BY <1>12 DEF Reapply, Sweep, Used
  <2> QED
    BY <1>0, <2>1, <2>2, ApplyKeepsRecords
<1>13. CASE Settings
  <2>1. \A j \in Ids : Used(j)' => Used(j)
    BY <1>13 DEF Settings, Used, Acting
  <2> QED
    BY <1>0, <1>13, <2>1, RecordsKept DEF Settings, RecordsInv, ActorsHaveRecords
<1>14. ASSUME NEW c \in Callers, Detach(c) PROVE RecordsInv'
  <2>1. /\ \A d \in Callers : d # c => request'[d] = request[d]
        /\ request[c].at = "detach" /\ request[c].id \in Ids
    BY <1>0, <1>14 DEF Detach, Ready, Finish, Reach, TypeOK, RecordsInv, ActorsHaveRecords
  <2>2. UNCHANGED <<record, torrent, sweep, preview>>
    BY <1>14 DEF Detach
  <2>3. \A j \in Ids : verifier'[j].runs = verifier[j].runs
    BY <1>0, <1>14 DEF Detach, TypeOK, VerifierType
  <2>4. CASE listed = request[c].id
    <3>1. listed' = NoId /\ request'[c].at = "drop" /\ request'[c].id = listed
      BY <1>0, <1>14, <2>4 DEF Detach, Reach, TypeOK, RequestType
    <3>2. \A j \in Ids : Used(j)' => Used(j)
      BY <2>1, <2>2, <2>3, <2>4, <3>1 DEF Used, Acting
    <3>3. ActorsHaveRecords'
      BY <2>1, <2>2, <2>4, <3>1, <3>2 DEF RecordsInv, ActorsHaveRecords
    <3>4. InsertedOnce'
      BY <2>1, <3>1, <3>2 DEF RecordsInv, InsertedOnce, Inserting, ActorsHaveRecords
    <3>5. \A j \in Ids : Dropping(j) => Dropping(j)'
      BY <2>1, <2>2 DEF Dropping
    <3>7. RemovedIsHarmless'
      <4> SUFFICES ASSUME NEW j \in Ids, Used(j)'
                   PROVE  torrent'[record'[j].of].closed \/ Dropping(j)'
        BY DEF RemovedIsHarmless
      <4>1. CASE j = listed
        BY <2>1, <2>2, <2>4, <3>1, <4>1 DEF Dropping
      <4>2. CASE j # listed
        BY <2>2, <3>2, <3>5, <4>2 DEF RecordsInv, RemovedIsHarmless
      <4> QED
        BY <4>1, <4>2
    <3> QED
      BY <1>0, <3>3, <3>4, <3>7 DEF RecordsInv
  <2>5. CASE listed # request[c].id
    <3>1. listed' = listed /\ request'[c].at = "none"
      BY <1>0, <1>14, <2>5 DEF Detach, Finish, Idle, TypeOK
    <3>2. \A j \in Ids : Used(j)' => Used(j)
      BY <2>1, <2>2, <2>3, <3>1 DEF Used, Acting
    <3> QED
      BY <1>0, <2>1, <2>2, <3>1, <3>2, RecordsKept DEF RecordsInv, ActorsHaveRecords
  <2> QED
    BY <2>4, <2>5
<1>15. ASSUME NEW c \in Callers, DropTorrent(c) PROVE RecordsInv'
  <2>1. /\ \A d \in Callers : d # c => request'[d] = request[d]
        /\ request[c].at = "drop" /\ request'[c].at = "close" /\ request'[c].id = request[c].id
        /\ request[c].id \in Ids
    BY <1>0, <1>15 DEF DropTorrent, Ready, Reach, TypeOK, RequestType, RecordsInv, ActorsHaveRecords
  <2>2. UNCHANGED <<listed, record, verifier, sweep, preview>>
    BY <1>15 DEF DropTorrent
  <2>3. record[request[c].id].of \in Ids
    BY <1>0, <2>1 DEF RecordsInv, ActorsHaveRecords, TypeOK, RecordType
  <2>4. /\ torrent'[record[request[c].id].of].closed
        /\ \A t \in Ids : torrent[t].closed => torrent'[t].closed
    BY <1>0, <1>15, <2>3 DEF DropTorrent, TypeOK, TorrentType
  <2>5. \A j \in Ids : Used(j)' => Used(j)
    BY <2>1, <2>2 DEF Used, Acting
  <2>6. \A j \in Ids : Dropping(j) => Dropping(j)' \/ record[j].of = record[request[c].id].of
    BY <2>1, <2>2 DEF Dropping
  <2>7. ActorsHaveRecords'
    BY <2>1, <2>2, <2>5 DEF RecordsInv, ActorsHaveRecords
  <2>8. InsertedOnce'
    BY <2>1, <2>5 DEF RecordsInv, InsertedOnce, Inserting, ActorsHaveRecords
  <2>9. RemovedIsHarmless'
    <3> SUFFICES ASSUME NEW j \in Ids, Used(j)', j # listed'
                 PROVE  torrent'[record'[j].of].closed \/ Dropping(j)'
      BY DEF RemovedIsHarmless
    <3>1. Used(j) /\ j # listed /\ record[j].of \in Ids
      BY <1>0, <2>2, <2>5 DEF RecordsInv, ActorsHaveRecords, TypeOK, RecordType
    <3>2. torrent[record[j].of].closed \/ Dropping(j)
      BY <3>1 DEF RecordsInv, RemovedIsHarmless
    <3> QED
      BY <2>2, <2>4, <2>6, <3>1, <3>2
  <2> QED
    BY <1>0, <2>7, <2>8, <2>9 DEF RecordsInv
<1>16. CASE UNCHANGED vars
  <2>1. \A j \in Ids : Used(j)' => Used(j)
    BY <1>16 DEF Used, Acting, vars
  <2> QED
    BY <1>0, <1>16, <2>1, RecordsKept DEF RecordsInv, ActorsHaveRecords, vars
<1> QED
  BY <1>1, <1>2, <1>3, <1>4, <1>5, <1>6, <1>7, <1>8, <1>9, <1>10, <1>11, <1>12, <1>13,
     <1>14, <1>15, <1>16 DEF Next, Play, Select, FileOnly, Focus, OpenPlayback

----------------------------------------------------------------------------
(* The gates.                                                              *)

\* A record that was removed has another torrent than the one in service.
LEMMA RemovedHasAnotherTorrent ==
    ASSUME RecordsInv, NEW i \in Ids, NEW j \in Ids, Used(i), i # j, InService(j)
    PROVE  record[i].of # record[j].of
  BY DEF RecordsInv, RemovedIsHarmless, InService, Open, Dropping

\* A step that leaves the records and their torrents alone keeps the gates right.
LEMMA GatesKept ==
    ASSUME GateInv, UNCHANGED <<record, torrent, payload, listed, sweep>>,
           \A i \in Ids : verifier'[i].runs =>
               verifier[i].runs /\ verifier'[i].paused = verifier[i].paused,
           \A c \in Callers : request[c].at = "drop" => request'[c] = request[c]
    PROVE  GateInv'
<1>1. \A i \in Ids : InService(i)' => InService(i)
  BY DEF InService, Open, Dropping
<1>2. GateIsRight'
  BY <1>1 DEF GateInv, GateIsRight, Active
<1>3. CheckingIsShut' /\ VerifierIsNotForgotten'
  BY <1>1 DEF GateInv, CheckingIsShut, VerifierIsNotForgotten
<1> QED
  BY <1>2, <1>3 DEF GateInv

\* apply_transfer_state makes the gate of its record right, and that of the record in
\* service stays right if it is another one.
LEMMA ApplyKeepsGates ==
    ASSUME RecordsInv, GateInv, NEW i \in Ids, Used(i),
           NEW r \in RecordType, r.of = record[i].of, NEW v \in VerifierType,
           v.runs => r.configured /\ r.checking,
           ApplyTransferState(i, r, v),
           sweep' \subseteq sweep, sweep \ {i} \subseteq sweep',
           \A c \in Callers : request[c].at = "drop" => request'[c] = request[c],
           UNCHANGED <<listed, payload>>
    PROVE  GateInv'
<1>0. TypeOK /\ r.of \in Ids
  BY DEF RecordsInv, ActorsHaveRecords, TypeOK, RecordType
<1>1. /\ \A j \in Ids : record'[j] = IF j = i THEN r ELSE record[j]
      /\ \A j \in Ids : torrent'[j].closed = torrent[j].closed
      /\ \A j \in Ids : j # r.of => torrent'[j].gate = torrent[j].gate
      /\ torrent'[r.of].gate = Active(r, payload, torrent[r.of].closed)
  BY <1>0, Applied
<1>2. /\ \A j \in Ids : j # i => verifier'[j] = verifier[j]
      /\ verifier'[i].runs = v.runs
      /\ v.runs => verifier'[i].paused = (r.paused \/ ~payload)
  BY <1>0, Applied
<1>3. \A j \in Ids : record'[j].of = record[j].of
  BY <1>1
<1>4. \A j \in Ids : Dropping(j) => Dropping(j)'
  BY <1>3 DEF Dropping, RecordsInv, ActorsHaveRecords
<1>5. \A j \in Ids : InService(j)' => InService(j)
  BY <1>0, <1>1, <1>3, <1>4 DEF InService, Open, TypeOK, RecordType
<1>6. ASSUME NEW j \in Ids, InService(j)', j # i
      PROVE  record'[j] = record[j] /\ torrent'[record'[j].of].gate = torrent[record[j].of].gate
  <2>1. record[i].of # record[j].of
    BY <1>5, <1>6, RemovedHasAnotherTorrent
  <2>2. record[j].of \in Ids
    BY <1>0, <1>5, <1>6 DEF InService, Open, TypeOK, RecordType
  <2> QED
    BY <1>1, <1>6, <2>1, <2>2
<1>7. InService(i)' => torrent'[record'[i].of].gate = Active(r, payload, FALSE)
  <2> SUFFICES ASSUME InService(i)' PROVE torrent'[record'[i].of].gate = Active(r, payload, FALSE)
    OBVIOUS
  <2>1. record'[i] = r /\ ~torrent[r.of].closed
    BY <1>0, <1>1 DEF InService, Open
  <2>2. torrent[r.of].closed = FALSE
    BY <1>0, <2>1 DEF TypeOK, TorrentType
  <2> QED
    BY <1>1, <2>1, <2>2
<1>8. GateIsRight'
  <2> SUFFICES ASSUME NEW j \in Ids, InService(j)', record'[j].configured, j \notin sweep'
               PROVE  torrent'[record'[j].of].gate = Active(record'[j], payload, FALSE)
    BY DEF GateIsRight, Active
  <2>1. CASE j = i
    BY <1>1, <1>7, <2>1
  <2>2. CASE j # i
    BY <1>5, <1>6, <2>2 DEF GateInv, GateIsRight
  <2> QED
    BY <2>1, <2>2
<1>9. CheckingIsShut'
  <2>1. \A j \in Ids : verifier'[j].runs => record'[j].configured /\ record'[j].checking
    BY <1>1, <1>2 DEF GateInv, CheckingIsShut
  <2>2. ASSUME NEW j \in Ids, InService(j)', record'[j].configured, record'[j].checking
        PROVE  ~torrent'[record'[j].of].gate
    <3>1. CASE j = i
      BY <1>1, <1>7, <2>2, <3>1 DEF Active
    <3>2. CASE j # i
      BY <1>5, <1>6, <2>2, <3>2 DEF GateInv, CheckingIsShut
    <3> QED
      BY <3>1, <3>2
  <2> QED
    BY <2>1, <2>2 DEF CheckingIsShut
<1>10. VerifierIsNotForgotten'
  BY <1>1, <1>2 DEF GateInv, VerifierIsNotForgotten
<1> QED
  BY <1>8, <1>9, <1>10 DEF GateInv

\* Every step keeps the gates right.
LEMMA GateStep == ASSUME RecordsInv, GateInv, [Next]_vars PROVE GateInv'
<1>0. TypeOK
  BY DEF RecordsInv
<1>1. ASSUME NEW c \in Callers, NEW i \in Ids, Add(c, i) PROVE GateInv'
  <2>1. PICK t \in Ids : record' = [record EXCEPT ![i].of = t]
    BY <1>0, <1>1 DEF Add, ClientAdd, TypeOK
  <2>2. \A j \in Ids : /\ record'[j].configured = record[j].configured
                       /\ record'[j].checking = record[j].checking
    BY <1>0, <2>1 DEF TypeOK, RecordType
  <2>3. listed' = NoId /\ listed = NoId /\ UNCHANGED verifier
    BY <1>1 DEF Add
  <2> QED
    BY <2>2, <2>3 DEF GateInv, GateIsRight, CheckingIsShut, VerifierIsNotForgotten, InService
<1>2. ASSUME NEW c \in Callers, Insert(c) PROVE GateInv'
  <2>1. Inserting(c) /\ request[c].id \in Ids
    BY <1>2 DEF Insert, Ready, Inserting, RecordsInv, ActorsHaveRecords
  <2>2. ~record[request[c].id].configured /\ ~verifier[request[c].id].runs
    BY <2>1 DEF RecordsInv, InsertedOnce, Used
  <2>3. \A d \in Callers : request[d].at = "drop" => request'[d] = request[d]
    BY <1>0, <1>2 DEF Insert, Ready, Finish, TypeOK
  <2>4. CASE listed' = listed
    BY <1>2, <2>3, <2>4, GatesKept DEF Insert
  <2>5. CASE listed' = request[c].id
    BY <1>2, <2>2, <2>5 DEF Insert, GateInv, GateIsRight, CheckingIsShut, InService,
       VerifierIsNotForgotten
  <2> QED
    BY <1>2, <2>4, <2>5 DEF Insert
<1>3. ASSUME NEW p \in Previews, NEW i \in Ids, OpenPreview(p, i) PROVE GateInv'
  <2>1. CASE record[i].configured
    BY <1>3, <2>1, GatesKept DEF OpenPreview
  <2>2. CASE ~record[i].configured
    BY <1>3, <2>2 DEF OpenPreview, GateInv, GateIsRight, CheckingIsShut, InService,
       VerifierIsNotForgotten
  <2> QED
    BY <2>1, <2>2
<1>4. ASSUME NEW p \in Previews, ClosePreview(p) \/ WithdrawPreview(p) \/ ReleaseDraft(p)
      PROVE  GateInv'
  BY <1>4, GatesKept DEF ClosePreview, WithdrawPreview, ReleaseDraft
<1>5. ASSUME NEW p \in Previews, EndPreview(p) PROVE GateInv'
  <2> DEFINE k == preview[p].of
  <2>1. k \in Ids /\ Used(k) /\ record[k].of \in Ids
    BY <1>0, <1>5 DEF EndPreview, RecordsInv, ActorsHaveRecords, Used, TypeOK, RecordType
  <2>2. torrent' = [torrent EXCEPT ![record[k].of].gate = @ /\ record[k].configured]
    BY <1>5 DEF EndPreview
  <2>3. UNCHANGED <<payload, listed, record, request, verifier, sweep>>
    BY <1>5 DEF EndPreview
  <2> HIDE DEF k
  <2>4. \A t \in Ids : /\ torrent'[t].closed = torrent[t].closed
                       /\ (t # record[k].of \/ record[k].configured) =>
                              torrent'[t].gate = torrent[t].gate
    BY <1>0, <2>1, <2>2 DEF TypeOK, TorrentType
  <2>5. \A j \in Ids : InService(j)' => InService(j)
    BY <1>0, <2>3, <2>4 DEF InService, Open, Dropping, TypeOK, RecordType
  <2>6. ASSUME NEW j \in Ids, InService(j)', record[j].configured
        PROVE  torrent'[record[j].of].gate = torrent[record[j].of].gate
    <3>1. record[j].of \in Ids
      BY <1>0, <2>5, <2>6 DEF InService, Open, TypeOK, RecordType
    <3>2. k = j \/ record[k].of # record[j].of
      BY <2>1, <2>5, <2>6, RemovedHasAnotherTorrent
    <3> QED
      BY <2>4, <2>6, <3>1, <3>2
  <2>7. GateIsRight'
    BY <2>3, <2>5, <2>6 DEF GateInv, GateIsRight, Active
  <2>8. CheckingIsShut' /\ VerifierIsNotForgotten'
    BY <2>3, <2>5, <2>6 DEF GateInv, CheckingIsShut, VerifierIsNotForgotten
  <2> QED
    BY <2>7, <2>8 DEF GateInv
<1>6. ASSUME NEW c \in Callers, NEW i \in Ids, Configure(c, i) \/ Pause(c, i) \/ Remove(c, i)
      PROVE  GateInv'
  <2>1. PICK step \in Steps \ {"none", "insert", "drop"} : CloseFirst(c, i, step)
    BY <1>6 DEF Configure, Pause, Remove, Steps
  <2>2. \A d \in Callers : request[d].at = "drop" => request'[d] = request[d]
    BY <1>0, <1>6, <2>1, ClosedFirst DEF Configure, Pause, Remove, Free
  <2> QED
    BY <1>6, <2>2, GatesKept DEF Configure, Pause, Remove
<1>7. ASSUME NEW c \in Callers, NEW mode \in {"saved", "stream"}, Attach(c, mode) \/ CloseStorage(c)
      PROVE  GateInv'
  <2>1. \A d \in Callers : request[d].at = "drop" => request'[d] = request[d]
    BY <1>0, <1>7 DEF Attach, CloseStorage, Ready, Finish, Reach, TypeOK
  <2> QED
    BY <1>7, <2>1, GatesKept DEF Attach, CloseStorage
<1>8. ASSUME NEW c \in Callers, NEW verify \in BOOLEAN, ConfigureRecord(c, verify)
      PROVE  GateInv'
  <2> DEFINE i == request[c].id
             r == [record[i] EXCEPT !.configured = TRUE, !.checking = verify]
             v == [runs |-> verify, paused |-> FALSE, cancelled |-> FALSE]
  <2>1. i \in Ids /\ Used(i) /\ request[c].at # "drop" /\ Finish(c)
    BY <1>8 DEF ConfigureRecord, Ready, RecordsInv, ActorsHaveRecords, Acting, Used
  <2>2. r \in RecordType /\ v \in VerifierType /\ r.of = record[i].of
    BY <1>0, <2>1, RecordMoves DEF TypeOK, VerifierType
  <2>3. v.runs => r.configured /\ r.checking
    <3>1. record[i] \in RecordType
      BY <1>0, <2>1 DEF TypeOK
    <3> QED
      BY <3>1, RecordChecks
  <2>4. \A d \in Callers : request[d].at = "drop" => request'[d] = request[d]
    BY <1>0, <2>1 DEF Finish, TypeOK
  <2>5. UNCHANGED <<listed, payload, sweep>>
    BY <1>8 DEF ConfigureRecord
  <2>6. CASE ApplyTransferState(i, r, v)
    BY <2>1, <2>2, <2>3, <2>4, <2>5, <2>6, ApplyKeepsGates
  <2>7. CASE UNCHANGED <<record, torrent, verifier>>
    BY <2>4, <2>5, <2>7, GatesKept
  <2> QED
    BY <1>8, <2>6, <2>7 DEF ConfigureRecord
<1>9. ASSUME NEW i \in Ids, Verified(i) PROVE GateInv'
  <2> DEFINE r == [record[i] EXCEPT !.checking = FALSE]
             v == [verifier[i] EXCEPT !.runs = FALSE]
  <2>1. r \in RecordType /\ v \in VerifierType /\ r.of = record[i].of /\ ~v.runs
    BY <1>0, RecordMoves, VerifierEnds DEF TypeOK
  <2>2. Used(i) /\ UNCHANGED <<listed, payload, sweep, request>>
    BY <1>9 DEF Verified, Used
  <2>3. CASE ApplyTransferState(i, r, v)
    BY <2>1, <2>2, <2>3, ApplyKeepsGates
  <2>4. CASE verifier' = [verifier EXCEPT ![i].runs = FALSE] /\ UNCHANGED <<record, torrent>>
    <3>1. \A j \in Ids : verifier'[j].runs => verifier[j].runs /\ verifier'[j].paused = verifier[j].paused
      BY <1>0, <2>4 DEF TypeOK, VerifierType
    <3> QED
      BY <2>2, <2>4, <3>1, GatesKept
  <2> QED
    BY <1>9, <2>3, <2>4 DEF Verified
<1>10. ASSUME NEW c \in Callers, PauseRecord(c) PROVE GateInv'
  <2> DEFINE i == request[c].id
             r == [record[i] EXCEPT !.paused = TRUE]
  <2>1. i \in Ids /\ Used(i) /\ request[c].at # "drop" /\ Finish(c)
    BY <1>10 DEF PauseRecord, Ready, RecordsInv, ActorsHaveRecords, Acting, Used
  <2>2. r \in RecordType /\ verifier[i] \in VerifierType /\ r.of = record[i].of
    BY <1>0, <2>1, RecordMoves DEF TypeOK
  <2>3. verifier[i].runs => r.configured /\ r.checking
    BY <1>0, <2>1, RecordChecks DEF GateInv, CheckingIsShut, TypeOK
  <2>4. \A d \in Callers : request[d].at = "drop" => request'[d] = request[d]
    BY <1>0, <2>1 DEF Finish, TypeOK
  <2>5. ApplyTransferState(i, r, verifier[i]) /\ UNCHANGED <<listed, payload, sweep>>
    BY <1>10 DEF PauseRecord
  <2> QED
    BY <2>1, <2>2, <2>3, <2>4, <2>5, ApplyKeepsGates
<1>11. ASSUME NEW i \in Ids, ResumeRecord(i) PROVE GateInv'
  <2> DEFINE r == [record[i] EXCEPT !.paused = FALSE]
  <2>1. r \in RecordType /\ verifier[i] \in VerifierType /\ r.of = record[i].of
    BY <1>0, RecordMoves DEF TypeOK
  <2>2. verifier[i].runs => r.configured /\ r.checking
    BY <1>0, RecordChecks DEF GateInv, CheckingIsShut, TypeOK
  <2>3. /\ ApplyTransferState(i, r, verifier[i]) /\ Used(i)
        /\ UNCHANGED <<listed, payload, sweep, request>>
    BY <1>11 DEF ResumeRecord, Used
  <2> QED
    BY <2>1, <2>2, <2>3, ApplyKeepsGates
<1>12. ASSUME NEW i \in Ids, Reapply(i) \/ Sweep(i) PROVE GateInv'
  <2>1. record[i] \in RecordType /\ verifier[i] \in VerifierType
    BY <1>0 DEF TypeOK
  <2>2. verifier[i].runs => record[i].configured /\ record[i].checking
    BY DEF GateInv, CheckingIsShut
  <2>3. /\ ApplyTransferState(i, record[i], verifier[i]) /\ Used(i)
        /\ sweep' \subseteq sweep /\ sweep \ {i} \subseteq sweep'
        /\ UNCHANGED <<listed, payload, request>>
    BY <1>12 DEF Reapply, Sweep, Used
  <2> QED
    BY <2>1, <2>2, <2>3, ApplyKeepsGates
<1>13. CASE Settings
  <2>1. /\ UNCHANGED <<listed, record, torrent, request, verifier>>
        /\ sweep' = {i \in Ids : i = listed}
    BY <1>13 DEF Settings
  <2>2. \A i \in Ids : InService(i)' => InService(i) /\ i \in sweep'
    BY <2>1 DEF InService, Open, Dropping
  <2>3. GateIsRight' /\ CheckingIsShut'
    BY <2>1, <2>2 DEF GateInv, GateIsRight, CheckingIsShut
  <2>4. VerifierIsNotForgotten'
    BY <2>1 DEF VerifierIsNotForgotten
  <2> QED
    BY <2>3, <2>4 DEF GateInv
<1>14. ASSUME NEW c \in Callers, Detach(c) PROVE GateInv'
  <2>1. \A d \in Callers : request[d].at = "drop" => request'[d] = request[d]
    BY <1>0, <1>14 DEF Detach, Ready, Finish, Reach, TypeOK
  <2>2. UNCHANGED <<record, torrent, payload, sweep>>
    BY <1>14 DEF Detach
  <2>3. CASE listed' = NoId
    <3>1. \A j \in Ids : verifier'[j].runs = verifier[j].runs
      BY <1>0, <1>14 DEF Detach, TypeOK, VerifierType
    <3> QED
      BY <2>2, <2>3, <3>1 DEF GateInv, GateIsRight, CheckingIsShut, InService,
         VerifierIsNotForgotten
  <2>4. CASE UNCHANGED <<listed, verifier>>
    BY <2>1, <2>2, <2>4, GatesKept
  <2> QED
    BY <1>14, <2>3, <2>4 DEF Detach
<1>15. ASSUME NEW c \in Callers, DropTorrent(c) PROVE GateInv'
  <2> DEFINE t == record[request[c].id].of
  <2>1. t \in Ids /\ request[c].at = "drop"
    BY <1>0, <1>15 DEF DropTorrent, Ready, RecordsInv, ActorsHaveRecords, TypeOK, RecordType
  <2>2. torrent' = [torrent EXCEPT ![t].closed = TRUE]
    BY <1>15 DEF DropTorrent
  <2>3. UNCHANGED <<payload, listed, record, verifier, sweep>>
    BY <1>15 DEF DropTorrent
  <2>4. \A d \in Callers : d # c => request'[d] = request[d]
    BY <1>0, <1>15 DEF DropTorrent, Reach, TypeOK
  <2> HIDE DEF t
  <2>5. \A u \in Ids : /\ torrent'[u].gate = torrent[u].gate
                       /\ ~torrent'[u].closed => ~torrent[u].closed /\ u # t
    BY <1>0, <2>1, <2>2 DEF TypeOK, TorrentType
  <2>6. ASSUME NEW j \in Ids, InService(j)'
        PROVE  InService(j) /\ torrent'[record[j].of].gate = torrent[record[j].of].gate
    <3>1. record[j].of \in Ids /\ j = listed /\ ~torrent'[record[j].of].closed
      BY <1>0, <2>3, <2>6 DEF InService, Open, TypeOK, RecordType
    <3>2. record[j].of # t /\ ~torrent[record[j].of].closed
      BY <2>5, <3>1
    <3>3. ~Dropping(j)
      BY <2>3, <2>4, <2>6, <3>2 DEF Dropping, InService, t
    <3> QED
      BY <2>5, <3>1, <3>2, <3>3 DEF InService, Open
  <2>7. GateIsRight'
    BY <2>3, <2>6 DEF GateInv, GateIsRight, Active
  <2>8. CheckingIsShut' /\ VerifierIsNotForgotten'
    BY <2>3, <2>6 DEF GateInv, CheckingIsShut, VerifierIsNotForgotten
  <2> QED
    BY <2>7, <2>8 DEF GateInv
<1>16. CASE UNCHANGED vars
  BY <1>16, GatesKept DEF vars
<1> QED
  BY <1>1, <1>2, <1>3, <1>4, <1>5, <1>6, <1>7, <1>8, <1>9, <1>10, <1>11, <1>12, <1>13,
     <1>14, <1>15, <1>16 DEF Next, Play, Select, FileOnly, Focus, OpenPlayback

\* What is known of the records holds in every reachable state.
LEMMA RecordsInvariant == Spec => []RecordsInv
<1>1. Init => RecordsInv
  <2> SUFFICES ASSUME Init PROVE RecordsInv
    OBVIOUS
  <2>1. TypeOK
    BY DEF Init, NewRecord, Idle, TypeOK, RecordType, TorrentType, RequestType, Steps,
       VerifierType, PreviewType, PreviewSteps
  <2>2. \A i \in Ids : ~Used(i)
    BY DEF Init, NewRecord, Idle, Used, Acting
  <2> QED
    BY <2>1, <2>2 DEF Init, Idle, RecordsInv, ActorsHaveRecords, InsertedOnce, Inserting,
       RemovedIsHarmless
<1>2. RecordsInv /\ [Next]_vars => RecordsInv'
  BY RecordsStep
<1> QED
  BY <1>1, <1>2, PTL DEF Spec

\* However control requests, previews, verifiers, removals and changes of the settings
\* interleave, the gate of a live record is what its state and the settings say, nothing
\* is transferred over data that is being checked, and no paused verifier is forgotten.
THEOREM TransfersAllowed == Spec => []TransfersAreAllowed
<1>1. Init => GateInv
  <2> SUFFICES ASSUME Init PROVE GateInv
    OBVIOUS
  <2>1. \A i \in Ids : i # listed /\ ~verifier[i].runs
    BY DEF Init
  <2> QED
    BY <2>1 DEF GateInv, GateIsRight, CheckingIsShut, VerifierIsNotForgotten, InService
<1>2. RecordsInv /\ GateInv /\ [Next]_vars => GateInv'
  BY GateStep
<1>3. RecordsInv /\ GateInv => TransfersAreAllowed
  <2> SUFFICES ASSUME RecordsInv, GateInv PROVE TransfersAreAllowed
    OBVIOUS
  <2>1. \A i \in Ids : Live(i) => InService(i)
    BY DEF Live, InService, Dropping
  <2>2. GateFollowsState
    BY <2>1, Zenon DEF GateInv, GateIsRight, GateFollowsState
  <2>3. CheckedBeforeTransfer
    BY <2>1 DEF GateInv, CheckingIsShut, CheckedBeforeTransfer
  <2> QED
    BY <2>2, <2>3 DEF GateInv, TransfersAreAllowed
<1> QED
  BY <1>1, <1>2, <1>3, RecordsInvariant, PTL DEF Spec

----------------------------------------------------------------------------
(* The previews.  The open one holds the slot, and the draft storage has a *)
(* preview whose hook has not released it yet.                             *)

\* A step that opens no preview, releases no draft and lets none go.
LEMMA PreviewKept ==
    ASSUME PreviewInv, UNCHANGED slot,
           storage' = "draft" => storage = "draft",
           \A p \in Previews : /\ preview'[p].draft = preview[p].draft
                               /\ \/ preview'[p].at = preview[p].at
                                  \/ preview[p].at = "open" /\ preview'[p].at = "withdraw"
    PROVE  PreviewInv'
<1>1. SlotHoldsOpen'
  BY DEF PreviewInv, SlotHoldsOpen
<1>2. DraftIsHeld'
  BY DEF PreviewInv, DraftIsHeld
<1> QED
  BY <1>1, <1>2 DEF PreviewInv

\* Every step keeps the slot and the draft with their previews.
LEMMA PreviewStep == ASSUME TypeOK, PreviewInv, [Next]_vars PROVE PreviewInv'
<1>1. ASSUME NEW p \in Previews, NEW i \in Ids, OpenPreview(p, i) PROVE PreviewInv'
  <2>1. /\ \A q \in Previews : q # p => preview'[q] = preview[q]
        /\ preview'[p].at = "open" /\ preview'[p].draft = ~record[i].configured
        /\ preview[p].at = "none" /\ slot' = p
    BY <1>1 DEF OpenPreview, TypeOK
  <2>2. \A q \in Previews : preview[q].at # "open"
    BY <1>1 DEF OpenPreview, PreviewInv, SlotHoldsOpen
  <2>3. SlotHoldsOpen'
    BY <2>1, <2>2 DEF SlotHoldsOpen
  <2>4. CASE record[i].configured
    BY <1>1, <2>1, <2>3, <2>4 DEF OpenPreview, PreviewInv, DraftIsHeld
  <2>5. CASE ~record[i].configured
    BY <2>1, <2>3, <2>5 DEF PreviewInv, DraftIsHeld
  <2> QED
    BY <2>4, <2>5
<1>2. ASSUME NEW p \in Previews, ClosePreview(p) PROVE PreviewInv'
  <2>1. \A q \in Previews : /\ preview'[q].draft = preview[q].draft
                            /\ \/ preview'[q].at = preview[q].at
                               \/ preview[q].at = "open" /\ preview'[q].at = "withdraw"
    BY <1>2 DEF ClosePreview, TypeOK, PreviewType
  <2> QED
    BY <1>2, <2>1, PreviewKept DEF ClosePreview
<1>3. ASSUME NEW p \in Previews, WithdrawPreview(p) PROVE PreviewInv'
  <2>1. /\ \A q \in Previews : q # p => preview'[q] = preview[q]
        /\ preview[p].at = "withdraw" /\ preview'[p].draft = preview[p].draft
        /\ preview'[p].at = IF preview[p].draft THEN "release" ELSE "none"
    BY <1>3 DEF WithdrawPreview, TypeOK, PreviewType
  <2>2. slot' = IF slot = p THEN NoId ELSE slot
    BY <1>3 DEF WithdrawPreview
  <2>3. SlotHoldsOpen'
    BY <2>1, <2>2 DEF PreviewInv, SlotHoldsOpen
  <2>4. DraftIsHeld'
    BY <1>3, <2>1 DEF WithdrawPreview, PreviewInv, DraftIsHeld
  <2> QED
    BY <2>3, <2>4 DEF PreviewInv
<1>4. ASSUME NEW p \in Previews, ReleaseDraft(p) PROVE PreviewInv'
  <2>1. /\ \A q \in Previews : q # p => preview'[q] = preview[q]
        /\ preview'[p].at = "disallow" /\ UNCHANGED slot /\ storage' # "draft"
    BY <1>4 DEF ReleaseDraft, TypeOK, PreviewType
  <2> QED
    BY <2>1 DEF PreviewInv, SlotHoldsOpen, DraftIsHeld
<1>5. ASSUME NEW p \in Previews, EndPreview(p) PROVE PreviewInv'
  <2>1. /\ \A q \in Previews : q # p => preview'[q] = preview[q]
        /\ preview[p].at = "disallow" /\ preview'[p].at = "none"
        /\ UNCHANGED <<slot, storage>>
    BY <1>5 DEF EndPreview, TypeOK, PreviewType
  <2> QED
    BY <2>1 DEF PreviewInv, SlotHoldsOpen, DraftIsHeld
<1>6. ASSUME NEW c \in Callers, NEW i \in Ids, Configure(c, i) \/ Pause(c, i) \/ Remove(c, i)
      PROVE  PreviewInv'
  <2>1. PICK step \in Steps \ {"none", "insert", "drop"} : CloseFirst(c, i, step)
    BY <1>6 DEF Configure, Pause, Remove, Steps
  <2>2. \A q \in Previews : /\ preview'[q].draft = preview[q].draft
                            /\ \/ preview'[q].at = preview[q].at
                               \/ preview[q].at = "open" /\ preview'[q].at = "withdraw"
    BY <2>1, ClosedFirst
  <2> QED
    BY <1>6, <2>2, PreviewKept DEF Configure, Pause, Remove
<1>7. ASSUME NEW c \in Callers, NEW i \in Ids, Add(c, i) PROVE PreviewInv'
  BY <1>7, PreviewKept DEF Add
<1>8. ASSUME NEW c \in Callers, NEW mode \in {"saved", "stream"}, Attach(c, mode) \/ CloseStorage(c)
      PROVE  PreviewInv'
  BY <1>8, PreviewKept DEF Attach, CloseStorage
<1>9. CASE UNCHANGED <<preview, slot, storage>>
  BY <1>9, PreviewKept
<1> QED
  BY <1>1, <1>2, <1>3, <1>4, <1>5, <1>6, <1>7, <1>8, <1>9, Zenon DEF Next, Insert, ConfigureRecord,
     Verified, PauseRecord, ResumeRecord, Play, Select, FileOnly, Focus, OpenPlayback,
     Reapply, Settings, Sweep, Detach, DropTorrent, vars

\* However previews are opened, closed by a timer, a player or a request, and their hooks
\* delayed, one is open at most, and no draft storage outlives the previews that use it.
THEOREM PreviewAlone == Spec => []PreviewIsAlone
<1>1. Init => PreviewInv
  BY DEF Init, PreviewInv, SlotHoldsOpen, DraftIsHeld
<1>2. RecordsInv /\ PreviewInv /\ [Next]_vars => PreviewInv'
  BY PreviewStep DEF RecordsInv
<1>3. PreviewInv => PreviewIsAlone
  <2> SUFFICES ASSUME PreviewInv PROVE PreviewIsAlone
    OBVIOUS
  <2> DEFINE opened == {p \in Previews : preview[p].at = "open"}
  <2>1. opened \subseteq {slot}
    BY DEF PreviewInv, SlotHoldsOpen
  <2>2. IsFiniteSet({slot}) /\ Cardinality({slot}) = 1
    BY FS_Singleton
  <2>3. Cardinality(opened) <= 1
    BY <2>1, <2>2, FS_Subset
  <2>4. DraftEndsWithPreview
    BY DEF PreviewInv, DraftIsHeld, DraftEndsWithPreview
  <2> QED
    BY <2>3, <2>4 DEF PreviewIsAlone, OnePreview
<1> QED
  BY <1>1, <1>2, <1>3, RecordsInvariant, PTL DEF Spec

HIDE EngineAssumption

-----------------------------------------------------------------------------
(* Saved resume windows                                                    *)

SaveType == [at : {"none", "timer", "copy", "protect", "publish"}, hash : Hashes,
             clears : Nat, protected : SUBSET Hashes]

\* A save knows a clear that has happened, and was scheduled when it does anything.
SavesOK ==
    /\ res_save \in [1..MaxSaves -> SaveType]
    /\ \A g \in 1..MaxSaves : res_save[g].clears <= res_clears
    /\ \A g \in 1..MaxSaves : res_save[g].at # "none" => g <= res_generation
    /\ res_pending \in [Hashes -> 0..MaxSaves]
    /\ \A h \in Hashes : res_pending[h] <= res_generation

\* The window on disk was written by a save that was scheduled.
WindowsOK ==
    /\ res_disk \in [Hashes -> 0..MaxSaves]
    /\ \A h \in Hashes : res_disk[h] <= res_generation
    /\ res_clearedAt \in [Hashes -> Nat]
    /\ \A h \in Hashes : res_clearedAt[h] <= res_clears

ResumeInv ==
    /\ res_generation \in 0..MaxSaves /\ res_clears \in Nat /\ res_listed \subseteq Hashes
    /\ SavesOK /\ WindowsOK
    /\ R!ClearedStaysCleared /\ R!WindowsFit

Windows(d) == {h \in Hashes : d[h] # 0}

\* The instances count as this module does.
LEMMA SameCount ==
    ASSUME NEW X
    PROVE  /\ R!Cardinality(X) = Cardinality(X)
           /\ D!Cardinality(X) = Cardinality(X)
           /\ L!Cardinality(X) = Cardinality(X)
BY DEF R!Cardinality, D!Cardinality, L!Cardinality, Cardinality

LEMMA WindowsAre == R!WindowsFit <=> Cardinality(Windows(res_disk)) <= Budget
<1>1. {h \in Hashes : res_disk[h] # R!None} = Windows(res_disk)
  BY DEF R!None, Windows
<1> QED
  BY <1>1, SameCount DEF R!WindowsFit

LEMMA WindowsCount ==
    ASSUME ResumeBounds, NEW d
    PROVE  /\ IsFiniteSet(Windows(d)) /\ Cardinality(Windows(d)) \in Nat
           /\ \A e : Windows(e) \subseteq Windows(d)
                        => Cardinality(Windows(e)) <= Cardinality(Windows(d))
<1>1. IsFiniteSet(Windows(d))
  BY FS_Subset DEF ResumeBounds, Windows
<1> QED
  BY <1>1, FS_Subset, FS_CardinalityType

\* Steps that write no window: some may go.
LEMMA NoWindowWritten ==
    ASSUME ResumeBounds, ResumeInv, SavesOK', UNCHANGED <<res_clears, res_clearedAt>>,
           res_generation' \in 0..MaxSaves, res_generation <= res_generation', res_listed' \subseteq Hashes,
           res_disk' \in [Hashes -> 0..MaxSaves],
           \A h \in Hashes : res_disk'[h] = res_disk[h] \/ res_disk'[h] = 0,
           \A g \in 1..res_generation : res_save'[g].clears = res_save[g].clears
    PROVE  ResumeInv'
<1>1. \A h \in Hashes : res_disk[h] \in 0..MaxSaves /\ res_disk[h] <= res_generation
  BY DEF ResumeInv, WindowsOK
<1>2. MaxSaves \in Nat /\ res_generation \in Nat /\ res_generation' \in Nat
  BY DEF ResumeBounds, ResumeInv
<1>3. WindowsOK'
  BY <1>1, <1>2 DEF ResumeInv, WindowsOK
<1>4. R!ClearedStaysCleared'
  BY <1>1, <1>2 DEF ResumeInv, R!ClearedStaysCleared, R!None
<1>5. R!WindowsFit'
  <2>1. Windows(res_disk') \subseteq Windows(res_disk)
    BY DEF Windows
  <2>2. Cardinality(Windows(res_disk')) <= Cardinality(Windows(res_disk))
    BY <2>1, WindowsCount
  <2>3. Cardinality(Windows(res_disk)) <= Budget /\ Budget \in Nat
    BY WindowsAre DEF ResumeInv, ResumeBounds
  <2>4. Cardinality(Windows(res_disk')) \in Nat /\ Cardinality(Windows(res_disk)) \in Nat
    BY WindowsCount
  <2>5. R!WindowsFit' <=> Cardinality(Windows(res_disk')) <= Budget
    <3>1. {h \in Hashes : res_disk'[h] # R!None} = Windows(res_disk')
      BY DEF R!None, Windows
    <3> QED
      BY <3>1, SameCount DEF R!WindowsFit
  <2> QED
    BY <2>2, <2>3, <2>4, <2>5
<1> QED
  BY <1>3, <1>4, <1>5 DEF ResumeInv

\* One save moves on.
LEMMA SaveMoves ==
    ASSUME ResumeBounds, ResumeInv, NEW g \in 1..MaxSaves, NEW s \in SaveType,
           res_save' = [res_save EXCEPT ![g] = s], s.clears = res_save[g].clears,
           s.at # "none" => res_save[g].at # "none",
           UNCHANGED <<res_clears, res_generation>>,
           res_pending' \in [Hashes -> 0..MaxSaves],
           \A h \in Hashes : res_pending'[h] = res_pending[h] \/ res_pending'[h] = 0
    PROVE  SavesOK' /\ \A x \in 1..MaxSaves : res_save'[x].clears = res_save[x].clears
<1>1. res_generation \in Nat
  BY DEF ResumeInv, ResumeBounds
<1>2. /\ res_save' \in [1..MaxSaves -> SaveType]
      /\ \A x \in 1..MaxSaves : res_save'[x] = IF x = g THEN s ELSE res_save[x]
  BY DEF ResumeInv, SavesOK
<1>3. \A x \in 1..MaxSaves : res_save'[x].clears = res_save[x].clears
  BY <1>2
<1>4. \A x \in 1..MaxSaves : res_save'[x].at # "none" => x <= res_generation
  BY <1>2 DEF ResumeInv, SavesOK
<1>5. \A h \in Hashes : res_pending'[h] <= res_generation
  BY <1>1 DEF ResumeInv, SavesOK
<1> QED
  BY <1>2, <1>3, <1>4, <1>5 DEF ResumeInv, SavesOK

\* Steps that touch no save and no window.
LEMMA SavesAlone ==
    ASSUME ResumeBounds, ResumeInv, res_listed' \subseteq Hashes,
           UNCHANGED <<res_generation, res_clears, res_save, res_pending, res_clearedAt>>,
           res_disk' \in [Hashes -> 0..MaxSaves],
           \A h \in Hashes : res_disk'[h] = res_disk[h] \/ res_disk'[h] = 0
    PROVE  ResumeInv'
<1>1. SavesOK'
  BY DEF ResumeInv, SavesOK
<1>2. res_generation' \in 0..MaxSaves /\ res_generation <= res_generation'
  BY DEF ResumeInv, ResumeBounds
<1> QED
  BY <1>1, <1>2, NoWindowWritten

\* A save moves on and writes nothing.
LEMMA SaveStep ==
    ASSUME ResumeBounds, ResumeInv, NEW g \in 1..MaxSaves, NEW s \in SaveType,
           res_save' = [res_save EXCEPT ![g] = s], s.clears = res_save[g].clears,
           s.at # "none" => res_save[g].at # "none",
           UNCHANGED <<res_clears, res_generation, res_disk, res_listed, res_clearedAt>>,
           res_pending' \in [Hashes -> 0..MaxSaves],
           \A h \in Hashes : res_pending'[h] = res_pending[h] \/ res_pending'[h] = 0
    PROVE  ResumeInv'
<1>1. SavesOK' /\ \A x \in 1..MaxSaves : res_save'[x].clears = res_save[x].clears
  BY SaveMoves
<1>2. /\ res_generation' \in 0..MaxSaves
      /\ res_generation <= res_generation' /\ res_generation \in Nat
      /\ MaxSaves \in Nat /\ res_generation <= MaxSaves /\ res_listed' \subseteq Hashes
  BY DEF ResumeInv, ResumeBounds
<1>3. /\ res_disk' \in [Hashes -> 0..MaxSaves]
      /\ \A h \in Hashes : res_disk'[h] = res_disk[h] \/ res_disk'[h] = 0
  BY DEF ResumeInv, WindowsOK
<1>4. \A x \in 1..res_generation : res_save'[x].clears = res_save[x].clears
  BY <1>1, <1>2
<1> QED
  BY <1>1, <1>2, <1>3, <1>4, NoWindowWritten

LEMMA ScheduleStep ==
    ASSUME ResumeBounds, ResumeInv, NEW h \in Hashes, R!Schedule(h)
    PROVE  ResumeInv'
<1> DEFINE s == [at |-> "timer", hash |-> h, clears |-> res_clears, protected |-> {}]
<1>1. s \in SaveType /\ s.clears = res_clears
  BY DEF SaveType, ResumeInv
<1>2. /\ res_generation' = res_generation + 1
      /\ res_save' = [res_save EXCEPT ![res_generation + 1] = s]
      /\ res_pending' = [res_pending EXCEPT ![h] = res_generation + 1]
      /\ UNCHANGED <<res_clears, res_disk, res_listed, res_clearedAt>>
      /\ res_generation \in Nat /\ MaxSaves \in Nat /\ res_generation + 1 \in 1..MaxSaves
      /\ res_clears \in Nat
  BY DEF R!Schedule, ResumeInv, ResumeBounds
<1> HIDE DEF s
<1>3. /\ res_save' \in [1..MaxSaves -> SaveType]
      /\ \A x \in 1..MaxSaves : res_save'[x] = IF x = res_generation + 1 THEN s ELSE res_save[x]
  BY <1>1, <1>2 DEF ResumeInv, SavesOK
<1>4. /\ res_pending' \in [Hashes -> 0..MaxSaves]
      /\ \A k \in Hashes : res_pending'[k] = IF k = h THEN res_generation + 1 ELSE res_pending[k]
  BY <1>2 DEF ResumeInv, SavesOK
<1>5. SavesOK'
  <2>1. \A x \in 1..MaxSaves : res_save'[x].clears <= res_clears'
    BY <1>1, <1>2, <1>3 DEF ResumeInv, SavesOK
  <2>2. \A x \in 1..MaxSaves : res_save'[x].at # "none" => x <= res_generation'
    BY <1>2, <1>3 DEF ResumeInv, SavesOK
  <2>3. \A k \in Hashes : res_pending'[k] <= res_generation'
    BY <1>2, <1>4 DEF ResumeInv, SavesOK
  <2> QED
    BY <1>3, <1>4, <2>1, <2>2, <2>3 DEF SavesOK
<1>6. \A x \in 1..res_generation : res_save'[x].clears = res_save[x].clears
  BY <1>2, <1>3
<1>7. /\ res_disk' \in [Hashes -> 0..MaxSaves]
      /\ \A k \in Hashes : res_disk'[k] = res_disk[k] \/ res_disk'[k] = 0
  BY <1>2 DEF ResumeInv, WindowsOK
<1>8. /\ res_generation' \in 0..MaxSaves /\ res_generation <= res_generation'
      /\ res_listed' \subseteq Hashes
      /\ UNCHANGED <<res_clears, res_clearedAt>>
  BY <1>2 DEF ResumeInv
<1> QED
  BY <1>5, <1>6, <1>7, <1>8, NoWindowWritten

LEMMA TimerStep ==
    ASSUME ResumeBounds, ResumeInv, NEW g \in 1..MaxSaves, R!Timer(g)
    PROVE  ResumeInv'
<1>1. res_save \in [1..MaxSaves -> SaveType] /\ res_pending \in [Hashes -> 0..MaxSaves]
  BY DEF ResumeInv, SavesOK
<1>2. res_save[g] \in SaveType
  BY <1>1
<1>3. PICK at \in {"none", "copy"} : res_save' = [res_save EXCEPT ![g].at = at]
  BY DEF R!Timer
<1>4. PICK s : s = [res_save[g] EXCEPT !.at = at]
  OBVIOUS
<1>5. s \in SaveType /\ s.clears = res_save[g].clears
  BY <1>2, <1>4 DEF SaveType
<1>6. res_save' = [res_save EXCEPT ![g] = s]
  BY <1>1, <1>3, <1>4
<1>7. /\ res_save[g].at # "none"
      /\ UNCHANGED <<res_clears, res_generation, res_disk, res_listed, res_clearedAt>>
  BY DEF R!Timer
<1>8. /\ res_pending' \in [Hashes -> 0..MaxSaves]
      /\ \A h \in Hashes : res_pending'[h] = res_pending[h] \/ res_pending'[h] = 0
  <2>1. PICK k : res_pending' = [res_pending EXCEPT ![k] = 0] \/ res_pending' = res_pending
    BY DEF R!Timer, R!None
  <2>2. 0 \in 0..MaxSaves
    BY DEF ResumeBounds
  <2> QED
    BY <1>1, <2>1, <2>2
<1> QED
  BY <1>5, <1>6, <1>7, <1>8, SaveStep

LEMMA CopyStep ==
    ASSUME ResumeBounds, ResumeInv, NEW g \in 1..MaxSaves, NEW v \in BOOLEAN, R!Copy(g, v)
    PROVE  ResumeInv'
<1>1. res_save \in [1..MaxSaves -> SaveType] /\ res_pending \in [Hashes -> 0..MaxSaves]
  BY DEF ResumeInv, SavesOK
<1>2. res_save[g] \in SaveType
  BY <1>1
<1>3. PICK at \in {"none", "protect"} : res_save' = [res_save EXCEPT ![g].at = at]
  BY DEF R!Copy
<1>4. PICK s : s = [res_save[g] EXCEPT !.at = at]
  OBVIOUS
<1>5. s \in SaveType /\ s.clears = res_save[g].clears
  BY <1>2, <1>4 DEF SaveType
<1>6. res_save' = [res_save EXCEPT ![g] = s]
  BY <1>1, <1>3, <1>4
<1>7. /\ res_save[g].at # "none"
      /\ UNCHANGED <<res_clears, res_generation, res_disk, res_listed, res_clearedAt, res_pending>>
  BY DEF R!Copy
<1> QED
  BY <1>1, <1>5, <1>6, <1>7, SaveStep

LEMMA ProtectStep ==
    ASSUME ResumeBounds, ResumeInv, NEW g \in 1..MaxSaves, R!Protect(g)
    PROVE  ResumeInv'
<1>1. res_save \in [1..MaxSaves -> SaveType] /\ res_pending \in [Hashes -> 0..MaxSaves]
  BY DEF ResumeInv, SavesOK
<1>2. res_save[g] \in SaveType /\ (res_listed \cap res_held) \in SUBSET Hashes
  BY <1>1 DEF ResumeInv
<1>3. PICK s : s = [res_save[g] EXCEPT !.at = "publish", !.protected = res_listed \cap res_held]
  OBVIOUS
<1>4. s \in SaveType /\ s.clears = res_save[g].clears
  BY <1>2, <1>3 DEF SaveType
<1>5. res_save' = [res_save EXCEPT ![g] = s]
  BY <1>1, <1>3 DEF R!Protect
<1>6. /\ res_save[g].at # "none"
      /\ UNCHANGED <<res_clears, res_generation, res_disk, res_listed, res_clearedAt, res_pending>>
  BY DEF R!Protect
<1> QED
  BY <1>1, <1>4, <1>5, <1>6, SaveStep

LEMMA ShutdownStep ==
    ASSUME ResumeBounds, ResumeInv, R!Shutdown
    PROVE  ResumeInv'
<1> DEFINE taken == {res_pending[h] : h \in Hashes} \ {0}
<1>1. /\ res_save \in [1..MaxSaves -> SaveType] /\ res_pending \in [Hashes -> 0..MaxSaves]
      /\ \A h \in Hashes : res_pending[h] <= res_generation
      /\ \A g \in 1..MaxSaves : res_save[g].at # "none" => g <= res_generation
      /\ \A g \in 1..MaxSaves : res_save[g].clears <= res_clears
      /\ res_generation \in Nat /\ MaxSaves \in Nat
      /\ res_generation \in 0..MaxSaves /\ res_listed \subseteq Hashes
  BY DEF ResumeInv, SavesOK, ResumeBounds
<1>2. /\ res_save' = [g \in 1..MaxSaves |->
                    IF g \in taken THEN [res_save[g] EXCEPT !.at = "copy"] ELSE res_save[g]]
      /\ res_pending' = [h \in Hashes |-> 0]
      /\ UNCHANGED <<res_generation, res_clears, res_disk, res_listed, res_clearedAt>>
  BY DEF R!Shutdown, R!None
<1>3. \A g \in taken : g <= res_generation
  BY <1>1
<1> HIDE DEF taken
<1>4. \A g \in 1..MaxSaves : /\ res_save'[g] \in SaveType /\ res_save'[g].clears = res_save[g].clears
                             /\ res_save'[g].at # "none" => g <= res_generation
  <2> SUFFICES ASSUME NEW g \in 1..MaxSaves
               PROVE  /\ res_save'[g] \in SaveType /\ res_save'[g].clears = res_save[g].clears
                      /\ res_save'[g].at # "none" => g <= res_generation
    OBVIOUS
  <2>1. res_save[g] \in SaveType
    BY <1>1
  <2>2. CASE g \in taken
    <3>1. res_save'[g] = [res_save[g] EXCEPT !.at = "copy"]
      BY <1>2, <2>2
    <3> QED
      BY <1>3, <2>1, <2>2, <3>1 DEF SaveType
  <2>3. CASE g \notin taken
    BY <1>1, <1>2, <2>1, <2>3
  <2> QED
    BY <2>2, <2>3
<1>5. SavesOK'
  <2>1. res_save' \in [1..MaxSaves -> SaveType]
    BY <1>2, <1>4
  <2>2. /\ res_pending' \in [Hashes -> 0..MaxSaves]
        /\ \A h \in Hashes : res_pending'[h] <= res_generation
    BY <1>1, <1>2
  <2> QED
    BY <1>1, <1>2, <1>4, <2>1, <2>2 DEF SavesOK
<1>6. /\ res_generation' \in 0..MaxSaves /\ res_generation <= res_generation'
      /\ res_listed' \subseteq Hashes
      /\ UNCHANGED <<res_clears, res_clearedAt>>
  BY <1>1, <1>2
<1>7. /\ res_disk' \in [Hashes -> 0..MaxSaves]
      /\ \A h \in Hashes : res_disk'[h] = res_disk[h] \/ res_disk'[h] = 0
  BY <1>2 DEF ResumeInv, WindowsOK
<1>8. \A g \in 1..res_generation : res_save'[g].clears = res_save[g].clears
  BY <1>1, <1>4
<1> QED
  BY <1>5, <1>6, <1>7, <1>8, NoWindowWritten

\* One more window keeps to the budget where it fits.
LEMMA FitsOne ==
    ASSUME ResumeBounds, NEW d \in [Hashes -> 0..MaxSaves], NEW h \in Hashes, NEW g,
           R!Fits(d, h)
    PROVE  Cardinality(Windows([d EXCEPT ![h] = g])) <= Budget
<1> DEFINE others == {k \in Hashes \ {h} : d[k] # 0}
           e == [d EXCEPT ![h] = g]
<1>1. Cardinality(others) < Budget
  <2>1. {k \in Hashes \ {h} : d[k] # R!None} = others
    BY DEF R!None
  <2> QED
    BY <2>1, SameCount DEF R!Fits
<1>2. IsFiniteSet(others) /\ h \notin others
  BY FS_Subset DEF ResumeBounds
<1>3. Windows(e) \subseteq others \cup {h}
  BY DEF Windows
<1> HIDE DEF others, e
<1>4. /\ IsFiniteSet(others \cup {h})
      /\ Cardinality(others \cup {h}) = Cardinality(others) + 1
  BY <1>2, FS_AddElement
<1>5. Cardinality(Windows(e)) <= Cardinality(others \cup {h})
  BY <1>3, <1>4, FS_Subset
<1>6. Cardinality(others) \in Nat /\ Cardinality(Windows(e)) \in Nat /\ Budget \in Nat
  BY <1>2, FS_CardinalityType, WindowsCount DEF ResumeBounds
<1>7. Cardinality(Windows(e)) <= Budget
  BY <1>1, <1>4, <1>5, <1>6
<1> QED
  BY <1>7 DEF e

\* Eviction removes windows and writes none.
LEMMA Evicts ==
    ASSUME ResumeBounds, NEW d \in [Hashes -> 0..MaxSaves], NEW keep
    PROVE  /\ R!Kept(d, keep) \in [Hashes -> 0..MaxSaves]
           /\ \A k \in Hashes : R!Kept(d, keep)[k] = d[k] \/ R!Kept(d, keep)[k] = 0
BY DEF R!Kept, R!None, ResumeBounds

LEMMA PublishStep ==
    ASSUME ResumeBounds, ResumeInv, NEW g \in 1..MaxSaves, NEW w \in BOOLEAN, R!Publish(g, w)
    PROVE  ResumeInv'
<1>1. /\ res_save \in [1..MaxSaves -> SaveType] /\ res_pending \in [Hashes -> 0..MaxSaves]
      /\ res_disk \in [Hashes -> 0..MaxSaves] /\ g <= res_generation
      /\ res_generation \in Nat /\ MaxSaves \in Nat /\ res_generation \in 0..MaxSaves
      /\ res_listed \subseteq Hashes
  BY DEF R!Publish, ResumeInv, SavesOK, WindowsOK, ResumeBounds
<1>2. res_save[g] \in SaveType
  BY <1>1
<1>3. PICK s : s = [res_save[g] EXCEPT !.at = "none", !.protected = {}]
  OBVIOUS
<1>4. s \in SaveType /\ s.clears = res_save[g].clears /\ s.at = "none"
  BY <1>2, <1>3 DEF SaveType
<1>5. res_save' = [res_save EXCEPT ![g] = s]
  BY <1>1, <1>3 DEF R!Publish
<1>6. UNCHANGED <<res_clears, res_generation, res_listed, res_clearedAt, res_pending>>
  BY DEF R!Publish
<1>7. SavesOK' /\ \A x \in 1..MaxSaves : res_save'[x].clears = res_save[x].clears
  BY <1>1, <1>4, <1>5, <1>6, SaveMoves
<1>8. PICK left \in [Hashes -> 0..MaxSaves] :
         /\ \A k \in Hashes : left[k] = res_disk[k] \/ left[k] = 0
         /\ \/ res_disk' = left
            \/ /\ res_clears = res_save[g].clears /\ R!Fits(left, res_save[g].hash)
               /\ res_disk' = [left EXCEPT ![res_save[g].hash] = g]
  <2>1. PICK left : left = IF ~R!Fits(res_disk, res_save[g].hash)
                           THEN R!Kept(res_disk, res_save[g].protected) ELSE res_disk
    OBVIOUS
  <2>2. left \in [Hashes -> 0..MaxSaves] /\ \A k \in Hashes : left[k] = res_disk[k] \/ left[k] = 0
    BY <1>1, <2>1, Evicts
  <2>3. \/ res_disk' = res_disk
        \/ res_disk' = left
        \/ /\ res_clears = res_save[g].clears /\ R!Fits(left, res_save[g].hash)
           /\ res_disk' = [left EXCEPT ![res_save[g].hash] = g]
    BY <2>1 DEF R!Publish
  <2> QED
    BY <1>1, <2>2, <2>3
<1>9. /\ res_generation' \in 0..MaxSaves /\ res_generation <= res_generation'
      /\ res_listed' \subseteq Hashes
      /\ UNCHANGED <<res_clears, res_clearedAt>>
      /\ \A x \in 1..res_generation : res_save'[x].clears = res_save[x].clears
  <2>1. 1..res_generation \subseteq 1..MaxSaves /\ res_generation <= res_generation
    BY <1>1
  <2>2. \A x \in 1..res_generation : res_save'[x].clears = res_save[x].clears
    BY <1>7, <2>1
  <2> QED
    BY <1>1, <1>6, <2>1, <2>2
<1>10. CASE res_disk' = left
  BY <1>7, <1>8, <1>9, <1>10, NoWindowWritten
<1>11. CASE /\ res_clears = res_save[g].clears /\ R!Fits(left, res_save[g].hash)
            /\ res_disk' = [left EXCEPT ![res_save[g].hash] = g]
  <2>1. PICK h \in Hashes : h = res_save[g].hash
    BY <1>2 DEF SaveType
  <2>2. /\ res_disk' \in [Hashes -> 0..MaxSaves]
        /\ \A k \in Hashes : res_disk'[k] = IF k = h THEN g ELSE left[k]
    BY <1>1, <1>8, <1>11, <2>1
  <2>3. WindowsOK'
    <3>1. /\ \A k \in Hashes : res_disk[k] <= res_generation
          /\ res_clearedAt \in [Hashes -> Nat] /\ \A k \in Hashes : res_clearedAt[k] <= res_clears
      BY DEF ResumeInv, WindowsOK
    <3>2. \A k \in Hashes : res_disk'[k] <= res_generation
      <4>1. ASSUME NEW k \in Hashes PROVE left[k] <= res_generation
        <5>1. left[k] = res_disk[k] \/ left[k] = 0
          BY <1>8
        <5>2. res_disk[k] <= res_generation /\ 0 <= res_generation
          BY <1>1, <3>1
        <5> QED
          BY <5>1, <5>2
      <4> QED
        BY <1>1, <2>2, <4>1
    <3> QED
      BY <1>6, <2>2, <3>1, <3>2 DEF WindowsOK
  <2>4. R!ClearedStaysCleared'
    <3>1. /\ \A k \in Hashes : res_disk[k] # 0 => res_save[res_disk[k]].clears >= res_clearedAt[k]
          /\ \A k \in Hashes : res_clearedAt[k] <= res_clears /\ res_clearedAt[k] \in Nat
          /\ res_clears \in Nat
      BY DEF ResumeInv, R!ClearedStaysCleared, R!None, WindowsOK
    <3>2. ASSUME NEW k \in Hashes, res_disk'[k] # 0 PROVE res_save'[res_disk'[k]].clears >= res_clearedAt[k]
      <4>1. res_disk'[k] \in 1..MaxSaves
        BY <1>1, <2>2, <3>2
      <4>2. res_save'[res_disk'[k]].clears = res_save[res_disk'[k]].clears
        BY <1>7, <4>1
      <4>3. CASE k = h
        BY <1>11, <2>2, <3>1, <4>2, <4>3
      <4>4. CASE k # h
        BY <1>8, <2>2, <3>1, <3>2, <4>2, <4>4
      <4> QED
        BY <4>3, <4>4
    <3> QED
      BY <1>6, <3>2 DEF R!ClearedStaysCleared, R!None
  <2>5. R!WindowsFit'
    <3>1. Cardinality(Windows(res_disk')) <= Budget
      BY <1>11, <2>1, FitsOne
    <3>2. {k \in Hashes : res_disk'[k] # R!None} = Windows(res_disk')
      BY DEF R!None, Windows
    <3> QED
      BY <3>1, <3>2, SameCount DEF R!WindowsFit
  <2> QED
    BY <1>7, <1>9, <2>3, <2>4, <2>5 DEF ResumeInv
<1> QED
  BY <1>8, <1>10, <1>11

LEMMA ClearEndStep ==
    ASSUME ResumeBounds, ResumeInv, R!ClearEnd
    PROVE  ResumeInv'
<1>1. /\ res_save \in [1..MaxSaves -> SaveType] /\ res_pending \in [Hashes -> 0..MaxSaves]
      /\ res_disk \in [Hashes -> 0..MaxSaves]
      /\ res_generation \in Nat /\ MaxSaves \in Nat /\ res_generation \in 0..MaxSaves
      /\ res_listed \subseteq Hashes /\ res_clears \in Nat
      /\ res_clearedAt \in [Hashes -> Nat] /\ \A h \in Hashes : res_clearedAt[h] <= res_clears
      /\ \A h \in Hashes : res_disk[h] <= res_generation
  BY DEF ResumeInv, SavesOK, WindowsOK, ResumeBounds
<1>2. res_clears' = res_clears + 1 /\ UNCHANGED <<res_generation, res_save, res_listed>>
  BY DEF R!ClearEnd
<1>3. \A g \in 1..MaxSaves : res_save[g].clears \in Nat
  BY <1>1 DEF SaveType
<1>4. SavesOK'
  <2>1. /\ res_pending' \in [Hashes -> 0..MaxSaves]
        /\ \A h \in Hashes : res_pending'[h] <= res_generation
    <3>1. res_pending' = res_pending \/ res_pending' = [h \in Hashes |-> 0]
      BY DEF R!ClearEnd, R!None
    <3>2. \A h \in Hashes : res_pending[h] <= res_generation
      BY DEF ResumeInv, SavesOK
    <3> QED
      BY <1>1, <3>1, <3>2
  <2>2. \A g \in 1..MaxSaves : res_save[g].clears <= res_clears + 1
    BY <1>1, <1>3 DEF ResumeInv, SavesOK
  <2> QED
    BY <1>2, <2>1, <2>2 DEF ResumeInv, SavesOK
<1>5. PICK keep :
          \/ res_disk' = res_disk /\ res_clearedAt' = res_clearedAt
          \/ /\ res_disk' = R!Kept(res_disk, keep)
             /\ res_clearedAt' = [h \in Hashes |-> IF h \in keep THEN res_clearedAt[h] ELSE res_clears + 1]
  BY DEF R!ClearEnd
<1>6. /\ res_disk' \in [Hashes -> 0..MaxSaves] /\ res_clearedAt' \in [Hashes -> Nat]
      /\ \A h \in Hashes : res_clearedAt'[h] <= res_clears + 1
      /\ \A h \in Hashes : res_disk'[h] # 0 => res_disk'[h] = res_disk[h] /\ res_clearedAt'[h] = res_clearedAt[h]
  <2>1. CASE res_disk' = res_disk /\ res_clearedAt' = res_clearedAt
    BY <1>1, <2>1
  <2>2. CASE /\ res_disk' = R!Kept(res_disk, keep)
             /\ res_clearedAt' = [h \in Hashes |-> IF h \in keep THEN res_clearedAt[h] ELSE res_clears + 1]
    BY <1>1, <2>2 DEF R!Kept, R!None
  <2> QED
    BY <1>5, <2>1, <2>2
<1>7. WindowsOK'
  <2>1. ASSUME NEW h \in Hashes PROVE res_disk'[h] <= res_generation
    <3>1. res_disk'[h] = 0 \/ res_disk'[h] = res_disk[h]
      BY <1>6
    <3>2. res_disk[h] <= res_generation /\ 0 <= res_generation
      BY <1>1
    <3> QED
      BY <3>1, <3>2
  <2> QED
    BY <1>2, <1>6, <2>1 DEF WindowsOK
<1>8. R!ClearedStaysCleared'
  BY <1>2, <1>6 DEF ResumeInv, R!ClearedStaysCleared, R!None
<1>9. R!WindowsFit'
  <2>1. Windows(res_disk') \subseteq Windows(res_disk)
    BY <1>6 DEF Windows
  <2>2. Cardinality(Windows(res_disk')) <= Cardinality(Windows(res_disk))
    BY <2>1, WindowsCount
  <2>3. Cardinality(Windows(res_disk)) <= Budget /\ Budget \in Nat
    BY WindowsAre DEF ResumeInv, ResumeBounds
  <2>4. Cardinality(Windows(res_disk')) \in Nat /\ Cardinality(Windows(res_disk)) \in Nat
    BY WindowsCount
  <2>5. {h \in Hashes : res_disk'[h] # R!None} = Windows(res_disk')
    BY DEF R!None, Windows
  <2>6. Cardinality(Windows(res_disk')) <= Budget
    BY <2>2, <2>3, <2>4
  <2> QED
    BY <2>5, <2>6, SameCount DEF R!WindowsFit
<1> QED
  BY <1>1, <1>2, <1>4, <1>7, <1>8, <1>9 DEF ResumeInv

LEMMA ResumeInit == ASSUME ResumeBounds, R!Init PROVE ResumeInv
<1>1. /\ res_generation = 0 /\ res_clears = 0 /\ res_listed = Hashes
      /\ res_save = [g \in 1..MaxSaves |-> R!NoSave]
      /\ res_pending = [h \in Hashes |-> 0] /\ res_disk = [h \in Hashes |-> 0]
      /\ res_clearedAt = [h \in Hashes |-> 0]
      /\ MaxSaves \in Nat /\ Budget \in Nat
  BY DEF R!Init, R!None, ResumeBounds
<1>2. R!NoSave \in SaveType /\ R!NoSave.clears = 0 /\ R!NoSave.at = "none"
  <2>1. PICK h \in Hashes : h = CHOOSE k \in Hashes : TRUE
    BY DEF ResumeBounds
  <2> QED
    BY <2>1 DEF R!NoSave, SaveType
<1>3. SavesOK /\ WindowsOK
  BY <1>1, <1>2 DEF SavesOK, WindowsOK
<1>4. R!ClearedStaysCleared
  BY <1>1 DEF R!ClearedStaysCleared, R!None
<1>5. R!WindowsFit
  <2>1. Windows(res_disk) = {}
    BY <1>1 DEF Windows
  <2>2. Cardinality(Windows(res_disk)) = 0
    BY <2>1, FS_EmptySet
  <2>3. Cardinality(Windows(res_disk)) <= Budget
    BY <1>1, <2>2
  <2> QED
    BY <2>3, WindowsAre
<1> QED
  BY <1>1, <1>3, <1>4, <1>5 DEF ResumeInv

LEMMA ResumeStep == ASSUME ResumeBounds, ResumeInv, [R!Next]_(R!vars) PROVE ResumeInv'
<1>0. /\ res_disk \in [Hashes -> 0..MaxSaves] /\ res_listed \subseteq Hashes /\ MaxSaves \in Nat
  BY DEF ResumeInv, WindowsOK, ResumeBounds
<1>1. ASSUME NEW h \in Hashes, R!OpenReader(h) PROVE ResumeInv'
  BY <1>0, <1>1, SavesAlone DEF R!OpenReader
<1>2. ASSUME NEW h \in Hashes, R!Schedule(h) PROVE ResumeInv'
  BY <1>2, ScheduleStep
<1>3. ASSUME NEW h \in Hashes, R!Release(h) PROVE ResumeInv'
  BY <1>0, <1>3, SavesAlone DEF R!Release
<1>4. ASSUME NEW g \in 1..MaxSaves, R!Timer(g) PROVE ResumeInv'
  BY <1>4, TimerStep
<1>5. ASSUME R!Shutdown PROVE ResumeInv'
  BY <1>5, ShutdownStep
<1>6. ASSUME NEW g \in 1..MaxSaves, NEW v \in BOOLEAN, R!Copy(g, v) PROVE ResumeInv'
  BY <1>6, CopyStep
<1>7. ASSUME NEW g \in 1..MaxSaves, R!Protect(g) PROVE ResumeInv'
  BY <1>7, ProtectStep
<1>8. ASSUME NEW g \in 1..MaxSaves, NEW w \in BOOLEAN, R!Publish(g, w) PROVE ResumeInv'
  BY <1>8, PublishStep
<1>9. ASSUME NEW h \in Hashes, R!Apply(h) PROVE ResumeInv'
  BY <1>0, <1>9, SavesAlone DEF R!Apply
<1>10. ASSUME NEW b \in BOOLEAN, R!ClearStart(b) PROVE ResumeInv'
  BY <1>0, <1>10, SavesAlone DEF R!ClearStart
<1>11. ASSUME R!ClearEnd PROVE ResumeInv'
  BY <1>11, ClearEndStep
<1>12. ASSUME NEW h \in Hashes, R!Remove(h) PROVE ResumeInv'
  BY <1>0, <1>12, SavesAlone DEF R!Remove
<1>13. ASSUME NEW h \in Hashes, R!RemoveWindow(h) PROVE ResumeInv'
  <2>1. /\ res_disk' \in [Hashes -> 0..MaxSaves]
        /\ \A k \in Hashes : res_disk'[k] = res_disk[k] \/ res_disk'[k] = 0
    BY <1>0, <1>13 DEF R!RemoveWindow, R!None
  <2> QED
    BY <1>0, <1>13, <2>1, SavesAlone DEF R!RemoveWindow
<1>14. ASSUME UNCHANGED R!vars PROVE ResumeInv'
  BY <1>0, <1>14, SavesAlone DEF R!vars
<1> QED
  BY <1>1, <1>2, <1>3, <1>4, <1>5, <1>6, <1>7, <1>8, <1>9, <1>10, <1>11, <1>12, <1>13, <1>14
     DEF R!Next

(***************************************************************************)
(* However saves, timers, clears, evictions and removals overlap, a saved  *)
(* window on disk was scheduled after the clear that last removed its      *)
(* torrent's (persist_resume, clear_engine_cache), and the windows keep to *)
(* RESUME_WINDOW_TOTAL_MAX.                                                *)
(***************************************************************************)
THEOREM WindowsStayCleared == R!Spec => []PositionsStayCleared
<1>1. R!Init => ResumeInv
  BY ResumeAssumption, ResumeInit
<1>2. ResumeInv /\ [R!Next]_(R!vars) => ResumeInv'
  BY ResumeAssumption, ResumeStep
<1>3. ResumeInv => PositionsStayCleared
  BY DEF ResumeInv, PositionsStayCleared, R!PositionsStayCleared
<1> QED
  BY <1>1, <1>2, <1>3, PTL DEF R!Spec

-----------------------------------------------------------------------------
(* The public tracker list                                                 *)

CacheType == [list : SUBSET Trackers, tag : Nat, failures : 0..MaxFailures, wait : Nat]
FetchType == [at : {"idle", "asks", "stores", "saves"}, copy : CacheType, error : BOOLEAN]
ListedTorrent == [at : {"absent", "magnet", "info"}, private : BOOLEAN, given : SUBSET Trackers]

Tagged(c) == (c.tag = 0) = (c.list = {}) /\ (c.tag # 0 => c.list = Lists[c.tag])

\* The copy that a refresh works on and the one on disk are tagged as well.
CachesOK ==
    /\ list_cache \in CacheType /\ list_disk \in CacheType /\ list_fetch \in FetchType
    /\ Tagged(list_cache) /\ Tagged(list_disk) /\ Tagged(list_fetch.copy)
    /\ list_cache.wait <= Day

\* A torrent that is not there was given nothing.
GivenOK ==
    /\ list_torrents \in [Torrents -> ListedTorrent]
    /\ \A t \in Torrents : /\ Cardinality(list_torrents[t].given) <= Limit
                           /\ list_torrents[t].private => list_torrents[t].given = {}
                           /\ list_torrents[t].at = "absent" => list_torrents[t].given = {}

ListInv == list_source \in DOMAIN Lists /\ CachesOK /\ GivenOK

LEMMA ListInvLawful == ASSUME ListInv PROVE L!ListIsLawful
<1>1. L!TagIsOfList /\ L!AttemptIsNear
  BY DEF ListInv, CachesOK, Tagged, L!TagIsOfList, L!AttemptIsNear, L!None
<1>2. L!SupplementIsLawful
  BY SameCount DEF ListInv, GivenOK, L!SupplementIsLawful
<1> QED
  BY <1>1, <1>2 DEF L!ListIsLawful

LEMMA NoCacheOK ==
    ASSUME ListBounds
    PROVE  /\ L!NoCache \in CacheType /\ Tagged(L!NoCache) /\ L!NoCache.wait <= Day
           /\ L!NoFetch \in FetchType /\ L!NoFetch.copy = L!NoCache
<1>1. 0 \in 0..MaxFailures /\ 0 <= Day
  BY DEF ListBounds
<1> QED
  BY <1>1 DEF CacheType, FetchType, Tagged, L!NoCache, L!NoFetch, L!None

LEMMA NoneGiven ==
    ASSUME ListBounds,
           list_torrents = [t \in Torrents |-> [at |-> "absent", private |-> FALSE, given |-> {}]]
    PROVE  GivenOK
<1>1. Cardinality({}) <= Limit
  BY FS_EmptySet DEF ListBounds
<1> QED
  BY <1>1 DEF GivenOK, ListedTorrent

LEMMA ListInit == ASSUME ListBounds, L!Init PROVE ListInv
<1>1. list_source \in DOMAIN Lists
  BY DEF L!Init, ListBounds
<1>2. CachesOK
  BY NoCacheOK DEF L!Init, CachesOK
<1>3. GivenOK
  BY NoneGiven DEF L!Init
<1> QED
  BY <1>1, <1>2, <1>3 DEF ListInv

\* Steps of the refresh leave the torrents alone.
LEMMA GivenAlone ==
    ASSUME ListInv, CachesOK', UNCHANGED list_torrents, list_source' \in DOMAIN Lists
    PROVE  ListInv'
BY DEF ListInv, GivenOK

\* The outcome of an attempt keeps the list with its tag, and puts the next
\* attempt within a day.
LEMMA AfterOK ==
    ASSUME ListBounds, NEW c \in CacheType, Tagged(c), NEW e \in BOOLEAN
    PROVE  L!After(c, e) \in CacheType /\ Tagged(L!After(c, e)) /\ L!After(c, e).wait <= Day
<1>1. CASE e
  <2>1. PICK f : f = L!Lesser(c.failures + 1, MaxFailures)
    OBVIOUS
  <2>2. f \in 1..MaxFailures
    BY <2>1 DEF L!Lesser, ListBounds, CacheType
  <2>3. PICK d : d = [c EXCEPT !.failures = f]
    OBVIOUS
  <2>4. /\ d \in CacheType /\ d.failures = f /\ d.list = c.list /\ d.tag = c.tag
    BY <2>2, <2>3 DEF CacheType
  <2>5. PICK w : w = L!Delayed(d)
    OBVIOUS
  <2>6. w \in Nat /\ w <= Day
    <3>1. f - 1 \in 0..MaxFailures
      BY <2>2 DEF ListBounds
    <3>2. 2 ^ (f - 1) \in Nat
      BY <3>1 DEF ListBounds
    <3>3. PICK p \in Nat : p = 2 ^ (f - 1)
      BY <3>2
    <3>4. w = IF p < Day THEN p ELSE Day
      BY <2>4, <2>5, <3>3 DEF L!Delayed, L!Lesser
    <3> QED
      BY <3>4 DEF ListBounds
  <2>7. L!After(c, e) = [d EXCEPT !.wait = w]
    BY <1>1, <2>1, <2>3, <2>5 DEF L!After
  <2> QED
    BY <2>4, <2>6, <2>7 DEF CacheType, Tagged
<1>2. CASE ~e
  <2>1. L!After(c, e) = [c EXCEPT !.failures = 0, !.wait = Day]
    BY <1>2 DEF L!After
  <2>2. 0 \in 0..MaxFailures /\ Day \in Nat /\ Day <= Day
    BY DEF ListBounds
  <2> QED
    BY <2>1, <2>2 DEF CacheType, Tagged
<1> QED
  BY <1>1, <1>2

LEMMA ReceiveStep ==
    ASSUME ListBounds, ListInv, L!Receive
    PROVE  ListInv'
<1>1. /\ list_fetch \in FetchType /\ Tagged(list_fetch.copy) /\ list_source \in DOMAIN Lists
      /\ list_source \in Nat /\ list_source # 0 /\ Lists[list_source] \subseteq Trackers
  BY DEF ListInv, CachesOK, ListBounds, Trackers
<1>2. list_fetch.copy \in CacheType
  BY <1>1 DEF FetchType
<1>3. PICK c : c = IF L!Unchanged(list_fetch.copy) \/ Lists[list_source] = {} THEN list_fetch.copy
                   ELSE [list_fetch.copy EXCEPT !.tag = list_source, !.list = Lists[list_source]]
  OBVIOUS
<1>4. c \in CacheType /\ Tagged(c)
  <2>1. CASE c = list_fetch.copy
    BY <1>1, <1>2, <2>1
  <2>2. CASE /\ Lists[list_source] # {}
             /\ c = [list_fetch.copy EXCEPT !.tag = list_source, !.list = Lists[list_source]]
    <3>1. c \in CacheType /\ c.tag = list_source /\ c.list = Lists[list_source]
      BY <1>1, <1>2, <2>2 DEF CacheType
    <3> QED
      BY <1>1, <2>2, <3>1 DEF Tagged
  <2> QED
    BY <1>3, <2>1, <2>2
<1>5. PICK e \in BOOLEAN : list_fetch' = [list_fetch EXCEPT !.at = "stores", !.copy = c, !.error = e]
  BY <1>3 DEF L!Receive
<1>6. list_fetch' \in FetchType /\ list_fetch'.copy = c
  BY <1>1, <1>4, <1>5 DEF FetchType
<1>7. UNCHANGED <<list_source, list_cache, list_disk, list_torrents>>
  BY DEF L!Receive
<1>8. CachesOK'
  BY <1>4, <1>6, <1>7 DEF ListInv, CachesOK
<1> QED
  BY <1>1, <1>7, <1>8, GivenAlone

LEMMA StoreStep ==
    ASSUME ListBounds, ListInv, L!Store
    PROVE  ListInv'
<1>1. /\ list_fetch \in FetchType /\ Tagged(list_fetch.copy) /\ list_source \in DOMAIN Lists
      /\ list_disk \in CacheType /\ Tagged(list_disk)
  BY DEF ListInv, CachesOK
<1>2. list_fetch.copy \in CacheType /\ list_fetch.error \in BOOLEAN
  BY <1>1 DEF FetchType
<1>3. PICK c : c = L!After(list_fetch.copy, list_fetch.error)
  OBVIOUS
<1>4. c \in CacheType /\ Tagged(c) /\ c.wait <= Day
  BY <1>1, <1>2, <1>3, AfterOK
<1>5. /\ list_cache' = c /\ list_fetch' = [list_fetch EXCEPT !.at = "saves", !.copy = c]
      /\ UNCHANGED <<list_source, list_disk, list_torrents>>
  BY <1>3 DEF L!Store
<1>6. list_fetch' \in FetchType /\ list_fetch'.copy = c
  BY <1>1, <1>4, <1>5 DEF FetchType
<1>7. CachesOK'
  BY <1>1, <1>4, <1>5, <1>6 DEF CachesOK
<1> QED
  BY <1>1, <1>5, <1>7, GivenAlone

LEMMA RestartStep ==
    ASSUME ListBounds, ListInv, L!Restart
    PROVE  ListInv'
<1>1. /\ list_disk \in CacheType /\ Tagged(list_disk)
      /\ list_fetch \in FetchType /\ Tagged(list_fetch.copy)
      /\ list_source \in DOMAIN Lists
  BY DEF ListInv, CachesOK
<1>2. list_fetch.copy \in CacheType
  BY <1>1 DEF FetchType
<1>3. PICK saved \in {list_disk, list_fetch.copy}, back \in BOOLEAN :
         /\ list_cache' = L!Loaded(IF back THEN [saved EXCEPT !.wait = Far] ELSE saved)
         /\ list_disk' = saved
  BY DEF L!Restart
<1>4. saved \in CacheType /\ Tagged(saved)
  BY <1>1, <1>2, <1>3
<1>5. PICK seen : seen = IF back THEN [saved EXCEPT !.wait = Far] ELSE saved
  OBVIOUS
<1>6. seen \in CacheType /\ seen.list = saved.list /\ seen.tag = saved.tag
  BY <1>4, <1>5 DEF CacheType, ListBounds
<1>7. PICK w : w = IF seen.wait > Day THEN 0 ELSE seen.wait
  OBVIOUS
<1>8. w \in Nat /\ w <= Day
  BY <1>6, <1>7 DEF CacheType, ListBounds
<1>9. list_cache' = [seen EXCEPT !.wait = w]
  BY <1>3, <1>5, <1>7 DEF L!Loaded
<1>10. /\ list_cache' \in CacheType /\ list_cache'.list = saved.list /\ list_cache'.tag = saved.tag
       /\ list_cache'.wait = w
  BY <1>6, <1>8, <1>9 DEF CacheType
<1>11. /\ list_fetch' = L!NoFetch /\ UNCHANGED list_source
       /\ list_torrents' = [t \in Torrents |-> [at |-> "absent", private |-> FALSE, given |-> {}]]
  BY DEF L!Restart
<1>12. CachesOK'
  <2>1. Tagged(list_cache')
    BY <1>4, <1>10 DEF Tagged
  <2>2. list_cache'.wait <= Day
    BY <1>8, <1>10
  <2> QED
    BY <1>3, <1>4, <1>10, <1>11, <2>1, <2>2, NoCacheOK DEF CachesOK
<1>13. GivenOK'
  <2>1. Cardinality({}) <= Limit
    BY FS_EmptySet DEF ListBounds
  <2> QED
    BY <1>11, <2>1 DEF GivenOK, ListedTorrent
<1> QED
  BY <1>1, <1>11, <1>12, <1>13 DEF ListInv

LEMMA TickStep ==
    ASSUME ListBounds, ListInv, L!Tick
    PROVE  ListInv'
<1>1. /\ list_cache \in CacheType /\ Tagged(list_cache) /\ list_cache.wait <= Day
      /\ list_disk \in CacheType /\ Tagged(list_disk)
      /\ list_fetch \in FetchType /\ Tagged(list_fetch.copy)
      /\ list_source \in DOMAIN Lists /\ Day \in Nat
  BY DEF ListInv, CachesOK, ListBounds
<1>2. list_cache.wait \in Nat /\ list_disk.wait \in Nat /\ list_cache.wait > 0
  BY <1>1 DEF CacheType, L!Tick
<1>3. PICK w \in Nat : w = list_cache.wait - 1
  BY <1>2
<1>4. PICK v \in Nat : v = IF list_disk.wait > 0 THEN list_disk.wait - 1 ELSE 0
  BY <1>2
<1>5. /\ list_cache' = [list_cache EXCEPT !.wait = w] /\ list_disk' = [list_disk EXCEPT !.wait = v]
      /\ UNCHANGED <<list_source, list_fetch, list_torrents>>
  BY <1>3, <1>4 DEF L!Tick
<1>6. list_cache' \in CacheType /\ Tagged(list_cache') /\ list_cache'.wait = w
  BY <1>1, <1>5 DEF CacheType, Tagged
<1>7. list_disk' \in CacheType /\ Tagged(list_disk')
  BY <1>1, <1>5 DEF CacheType, Tagged
<1>8. w <= Day
  BY <1>1, <1>2, <1>3
<1>9. CachesOK'
  BY <1>1, <1>5, <1>6, <1>7, <1>8 DEF CachesOK
<1> QED
  BY <1>1, <1>5, <1>9, GivenAlone

\* Steps of one torrent leave the caches alone.
LEMMA CachesAlone ==
    ASSUME ListInv, GivenOK', UNCHANGED <<list_source, list_cache, list_disk, list_fetch>>
    PROVE  ListInv'
BY DEF ListInv, CachesOK

\* One torrent changes to a lawful state.
LEMMA OneTorrent ==
    ASSUME ListInv, NEW t \in Torrents, NEW r \in ListedTorrent,
           list_torrents' = [list_torrents EXCEPT ![t] = r],
           Cardinality(r.given) <= Limit, r.private => r.given = {},
           r.at = "absent" => r.given = {}
    PROVE  GivenOK'
<1>1. list_torrents \in [Torrents -> ListedTorrent]
  BY DEF ListInv, GivenOK
<1>2. /\ list_torrents' \in [Torrents -> ListedTorrent]
      /\ \A x \in Torrents : list_torrents'[x] = IF x = t THEN r ELSE list_torrents[x]
  BY <1>1
<1> QED
  BY <1>2 DEF ListInv, GivenOK

\* What is given in one go fills the room that is left at most.
LEMMA RoomIsKept ==
    ASSUME ListBounds, NEW G \in SUBSET Trackers, NEW F \in SUBSET Trackers,
           Cardinality(G) <= Limit, NEW n \in Nat,
           Limit - Cardinality(G) > 0,
           Cardinality(F) = L!Lesser(Limit - Cardinality(G), n)
    PROVE  Cardinality(G \cup F) <= Limit
<1>1. IsFiniteSet(G) /\ IsFiniteSet(F) /\ IsFiniteSet(G \cap F)
  BY FS_Subset DEF ListBounds
<1>2. Cardinality(G \cup F) = Cardinality(G) + Cardinality(F) - Cardinality(G \cap F)
  BY <1>1, FS_Union
<1>3. Cardinality(G) \in Nat /\ Cardinality(F) \in Nat /\ Cardinality(G \cap F) \in Nat
  BY <1>1, FS_CardinalityType
<1>4. Cardinality(F) <= Limit - Cardinality(G)
  BY <1>3 DEF L!Lesser, ListBounds
<1> QED
  BY <1>2, <1>3, <1>4 DEF ListBounds

LEMMA SupplementStep ==
    ASSUME ListBounds, ListInv, NEW t \in Torrents, L!Supplement(t)
    PROVE  ListInv'
<1>1. /\ list_torrents \in [Torrents -> ListedTorrent] /\ list_cache.list \subseteq Trackers
      /\ \A x \in Torrents : Cardinality(list_torrents[x].given) <= Limit
  BY DEF ListInv, GivenOK, CachesOK, CacheType
<1>2. list_torrents[t] \in ListedTorrent /\ list_torrents[t].given \in SUBSET Trackers
  BY <1>1 DEF ListedTorrent
<1>3. L!Snapshot \subseteq Trackers
  BY <1>1 DEF L!Snapshot, Trackers
<1>4. PICK missing : missing = L!Snapshot \ list_torrents[t].given
  OBVIOUS
<1>5. missing \subseteq Trackers /\ Cardinality(missing) \in Nat
  BY <1>3, <1>4, FS_Subset, FS_CardinalityType DEF ListBounds
<1>6. PICK more \in SUBSET missing :
         /\ Cardinality(more) = L!Lesser(Limit - Cardinality(list_torrents[t].given), Cardinality(missing))
         /\ list_torrents' = [list_torrents EXCEPT ![t].given = @ \cup more]
  BY <1>4, SameCount DEF L!Supplement, L!Supplemented
<1>7. /\ list_torrents[t].at = "info" /\ ~list_torrents[t].private
      /\ Limit - Cardinality(list_torrents[t].given) > 0
      /\ UNCHANGED <<list_source, list_cache, list_disk, list_fetch>>
  BY SameCount DEF L!Supplement, L!Supplemented
<1>8. PICK r : r = [list_torrents[t] EXCEPT !.given = @ \cup more]
  OBVIOUS
<1>9. /\ r \in ListedTorrent /\ r.given = list_torrents[t].given \cup more
      /\ r.private = list_torrents[t].private /\ r.at = list_torrents[t].at
  BY <1>2, <1>5, <1>6, <1>8 DEF ListedTorrent
<1>10. list_torrents' = [list_torrents EXCEPT ![t] = r]
  BY <1>1, <1>6, <1>8
<1>11. Cardinality(r.given) <= Limit
  BY <1>1, <1>2, <1>5, <1>6, <1>7, <1>9, RoomIsKept
<1>12. GivenOK'
  BY <1>7, <1>9, <1>10, <1>11, OneTorrent
<1> QED
  BY <1>7, <1>12, CachesAlone

LEMMA KnowStep ==
    ASSUME ListInv, NEW t \in Torrents, NEW p \in BOOLEAN, NEW at \in {"magnet", "info"},
           L!AddTorrent(t, p, at) \/ L!GotInfo(t)
    PROVE  ListInv'
<1>1. list_torrents \in [Torrents -> ListedTorrent]
  BY DEF ListInv, GivenOK
<1>2. list_torrents[t] \in ListedTorrent
  BY <1>1
<1>3. /\ Cardinality(list_torrents[t].given) <= Limit
      /\ list_torrents[t].private => list_torrents[t].given = {}
      /\ list_torrents[t].at = "absent" => list_torrents[t].given = {}
  BY DEF ListInv, GivenOK
<1>4. CASE L!AddTorrent(t, p, at)
  <2>1. PICK r : r = [list_torrents[t] EXCEPT !.at = at, !.private = p]
    OBVIOUS
  <2>2. r \in ListedTorrent /\ r.given = list_torrents[t].given /\ r.at = at
    BY <1>2, <2>1 DEF ListedTorrent
  <2>3. list_torrents' = [list_torrents EXCEPT ![t] = r]
    BY <1>1, <1>4, <2>1 DEF L!AddTorrent
  <2>4. r.given = {}
    BY <1>3, <1>4, <2>2 DEF L!AddTorrent
  <2>5. GivenOK'
    BY <1>3, <2>2, <2>3, <2>4, OneTorrent
  <2> QED
    BY <1>4, <2>5, CachesAlone DEF L!AddTorrent
<1>5. CASE L!GotInfo(t)
  <2>1. PICK r : r = [list_torrents[t] EXCEPT !.at = "info"]
    OBVIOUS
  <2>2. /\ r \in ListedTorrent /\ r.given = list_torrents[t].given /\ r.at = "info"
        /\ r.private = list_torrents[t].private
    BY <1>2, <2>1 DEF ListedTorrent
  <2>3. list_torrents' = [list_torrents EXCEPT ![t] = r]
    BY <1>1, <1>5, <2>1 DEF L!GotInfo
  <2>4. GivenOK'
    BY <1>3, <2>2, <2>3, OneTorrent
  <2> QED
    BY <1>5, <2>4, CachesAlone DEF L!GotInfo
<1> QED
  BY <1>4, <1>5

LEMMA ListStep ==
    ASSUME ListBounds, ListInv, [L!Next]_(L!vars)
    PROVE  ListInv'
<1>0. /\ list_cache \in CacheType /\ list_disk \in CacheType /\ list_fetch \in FetchType
      /\ Tagged(list_cache) /\ Tagged(list_disk)
      /\ Tagged(list_fetch.copy) /\ list_cache.wait <= Day
      /\ list_source \in DOMAIN Lists
  BY DEF ListInv, CachesOK
<1>1. ASSUME L!Begin PROVE ListInv'
  <2>1. list_fetch' \in FetchType /\ list_fetch'.copy = list_cache
    BY <1>0, <1>1 DEF L!Begin, FetchType
  <2>2. CachesOK'
    BY <1>0, <1>1, <2>1 DEF L!Begin, CachesOK
  <2> QED
    BY <1>0, <1>1, <2>2, GivenAlone DEF L!Begin
<1>2. ASSUME L!Receive PROVE ListInv'
  BY <1>2, ReceiveStep
<1>3. ASSUME L!Store PROVE ListInv'
  BY <1>3, StoreStep
<1>4. ASSUME L!Save PROVE ListInv'
  <2>1. /\ list_fetch' = L!NoFetch /\ list_disk' \in {list_disk, list_fetch.copy}
        /\ UNCHANGED <<list_source, list_cache, list_torrents>>
    BY <1>4 DEF L!Save
  <2>2. list_fetch.copy \in CacheType
    BY <1>0 DEF FetchType
  <2>3. CachesOK'
    BY <1>0, <2>1, <2>2, NoCacheOK DEF CachesOK
  <2> QED
    BY <1>0, <2>1, <2>3, GivenAlone
<1>5. ASSUME L!FetchFails PROVE ListInv'
  <2>1. list_fetch' \in FetchType /\ list_fetch'.copy = list_fetch.copy
    BY <1>0, <1>5 DEF L!FetchFails, FetchType
  <2>2. CachesOK'
    BY <1>0, <1>5, <2>1 DEF L!FetchFails, CachesOK
  <2> QED
    BY <1>0, <1>5, <2>2, GivenAlone DEF L!FetchFails
<1>6. ASSUME L!Restart PROVE ListInv'
  BY <1>6, RestartStep
<1>7. ASSUME L!Tick PROVE ListInv'
  BY <1>7, TickStep
<1>8. ASSUME L!Republish PROVE ListInv'
  <2>1. /\ list_source' \in DOMAIN Lists
        /\ UNCHANGED <<list_cache, list_disk, list_fetch, list_torrents>>
    BY <1>8 DEF L!Republish
  <2>2. CachesOK'
    BY <1>0, <2>1 DEF CachesOK
  <2> QED
    BY <2>1, <2>2, GivenAlone
<1>9. ASSUME NEW t \in Torrents, NEW p \in BOOLEAN, NEW at \in {"magnet", "info"},
             L!AddTorrent(t, p, at)
      PROVE  ListInv'
  BY <1>9, KnowStep
<1>10. ASSUME NEW t \in Torrents, L!GotInfo(t) PROVE ListInv'
  <2>1. TRUE \in BOOLEAN /\ "info" \in {"magnet", "info"}
    OBVIOUS
  <2> QED
    BY <1>10, <2>1, KnowStep
<1>11. ASSUME NEW t \in Torrents, L!Supplement(t) PROVE ListInv'
  BY <1>11, SupplementStep
<1>12. ASSUME UNCHANGED L!vars PROVE ListInv'
  <2>1. UNCHANGED <<list_source, list_cache, list_disk, list_fetch, list_torrents>>
    BY <1>12 DEF L!vars
  <2>2. CachesOK'
    BY <1>0, <2>1 DEF CachesOK
  <2> QED
    BY <1>0, <2>1, <2>2, GivenAlone
<1> QED
  BY <1>1, <1>2, <1>3, <1>4, <1>5, <1>6, <1>7, <1>8, <1>9, <1>10, <1>11, <1>12
     DEF L!Next, L!Worker

(***************************************************************************)
(* After any mixture of refreshes, refused lists, failed fetches and       *)
(* saves, restarts and clocks that move back, the cached tracker list is   *)
(* the one of its tag (refresh_from), the next attempt is within a day     *)
(* (TrackerPool::new), and no torrent is given more trackers than the      *)
(* limit, a private one none (supplement_trackers).                        *)
(***************************************************************************)
THEOREM ListLawful == L!Spec => []ListIsLawful
<1>1. L!Init => ListInv
  BY ListAssumption, ListInit
<1>2. ListInv /\ [L!Next]_(L!vars) => ListInv'
  BY ListAssumption, ListStep
<1>3. ListInv => ListIsLawful
  BY ListInvLawful DEF ListIsLawful
<1> QED
  BY <1>1, <1>2, <1>3, PTL DEF L!Spec

-----------------------------------------------------------------------------
(* Announces                                                               *)

Keys == Urls \X Hashes
SlotType == [active : BOOLEAN, event : {"gone", "started", "none"}, epoch : Nat]
AnnounceType == [url : Urls, hash : Hashes, event : {"gone", "started", "none"},
                 epoch : Nat, at : {"client", "sent"}]

Of(A, u) == {a \in A : a.url = u}
For(a, k, e) == a.url = k[1] /\ a.hash = k[2] /\ a.epoch = e

\* A slot, and an announce sent for it, are of an epoch that was given out.
EpochsOK ==
    /\ dis_epoch \in Nat
    /\ dis_slot \in [Keys -> SlotType] /\ \A k \in Keys : dis_slot[k].epoch <= dis_epoch
    /\ dis_announces \subseteq AnnounceType /\ IsFiniteSet(dis_announces)
    /\ \A a \in dis_announces : a.epoch <= dis_epoch

\* One announce for each epoch of a slot.
AnnouncesAreOne ==
    \A a, b \in dis_announces : (a.url = b.url /\ a.hash = b.hash /\ a.epoch = b.epoch) => a = b

CountsOK ==
    /\ dis_inflight \in [Urls -> Nat]
    /\ \A u \in Urls : dis_inflight[u] = Cardinality(Of(dis_announces, u)) /\ dis_inflight[u] <= MaxPerTracker

SlotsOK ==
    \A k \in Keys : dis_slot[k] # D!NoSlot =>
        /\ dis_slot[k].active <=> \E a \in dis_announces : For(a, k, dis_slot[k].epoch)
        /\ dis_slot[k].event = "none" => dis_slot[k].epoch \in dis_answered

AnnounceInv == EpochsOK /\ AnnouncesAreOne /\ CountsOK /\ SlotsOK

LEMMA AnnounceInvCounts == ASSUME AnnounceInv PROVE D!AnnouncesAreCounted
<1>1. D!InflightIsCounted
  BY SameCount DEF AnnounceInv, CountsOK, Of, D!InflightIsCounted
<1>2. D!StaleResultIgnored
  BY DEF AnnounceInv, SlotsOK, For, Keys, D!StaleResultIgnored
<1> QED
  BY <1>1, <1>2 DEF D!AnnouncesAreCounted

LEMMA AnnounceInit == ASSUME MaxPerTracker \in Nat, D!Init PROVE AnnounceInv
<1>1. /\ dis_slot = [k \in Keys |-> D!NoSlot] /\ dis_epoch = 0 /\ dis_inflight = [u \in Urls |-> 0]
      /\ dis_announces = {}
  BY DEF D!Init, Keys
<1>2. D!NoSlot \in SlotType /\ D!NoSlot.epoch = 0
  BY DEF D!NoSlot, SlotType
<1>3. EpochsOK
  BY <1>1, <1>2, FS_EmptySet DEF EpochsOK
<1>4. CountsOK
  <2>1. \A u \in Urls : Of(dis_announces, u) = {}
    BY <1>1 DEF Of
  <2>2. Cardinality({}) = 0 /\ 0 <= MaxPerTracker
    BY FS_EmptySet
  <2> QED
    BY <1>1, <2>1, <2>2 DEF CountsOK
<1> QED
  BY <1>1, <1>3, <1>4 DEF AnnounceInv, AnnouncesAreOne, SlotsOK

\* Slots come, with a new epoch, and go: what runs is not disturbed.
LEMMA SlotsChange ==
    ASSUME AnnounceInv, UNCHANGED <<dis_inflight, dis_announces, dis_answered>>,
           dis_epoch' \in Nat, dis_epoch <= dis_epoch', dis_slot' \in [Keys -> SlotType],
           \A k \in Keys :
               \/ dis_slot'[k] = dis_slot[k]
               \/ dis_slot'[k] = D!NoSlot
               \/ /\ dis_slot'[k].active = FALSE /\ dis_slot'[k].event = "started"
                  /\ dis_slot'[k].epoch = dis_epoch + 1 /\ dis_epoch' = dis_epoch + 1
    PROVE  AnnounceInv'
<1>1. /\ dis_epoch \in Nat /\ dis_announces \subseteq AnnounceType /\ IsFiniteSet(dis_announces)
      /\ \A a \in dis_announces : a.epoch <= dis_epoch /\ a.epoch \in Nat
      /\ \A k \in Keys : dis_slot[k].epoch <= dis_epoch /\ dis_slot[k].epoch \in Nat
  BY DEF AnnounceInv, EpochsOK, AnnounceType, SlotType
<1>2. D!NoSlot.epoch = 0
  BY DEF D!NoSlot
<1>3. \A k \in Keys : dis_slot'[k].epoch <= dis_epoch'
  <2> SUFFICES ASSUME NEW k \in Keys PROVE dis_slot'[k].epoch <= dis_epoch'
    OBVIOUS
  <2>1. dis_slot'[k].epoch = dis_slot[k].epoch \/ dis_slot'[k].epoch = 0 \/ dis_slot'[k].epoch = dis_epoch'
    BY <1>2
  <2>2. dis_slot[k].epoch <= dis_epoch /\ dis_slot[k].epoch \in Nat
    BY <1>1
  <2> QED
    BY <1>1, <2>1, <2>2
<1>4. EpochsOK'
  <2>1. \A a \in dis_announces : a.epoch <= dis_epoch'
    BY <1>1
  <2> QED
    BY <1>1, <1>3, <2>1 DEF EpochsOK
<1>5. AnnouncesAreOne' /\ CountsOK'
  BY DEF AnnounceInv, AnnouncesAreOne, CountsOK
<1>6. SlotsOK'
  <2> SUFFICES ASSUME NEW k \in Keys, dis_slot'[k] # D!NoSlot
               PROVE  /\ dis_slot'[k].active <=> \E a \in dis_announces : For(a, k, dis_slot'[k].epoch)
                      /\ dis_slot'[k].event = "none" => dis_slot'[k].epoch \in dis_answered
    BY DEF SlotsOK
  <2>1. CASE dis_slot'[k] = dis_slot[k]
    BY <2>1 DEF AnnounceInv, SlotsOK
  <2>2. CASE /\ dis_slot'[k].active = FALSE /\ dis_slot'[k].event = "started"
             /\ dis_slot'[k].epoch = dis_epoch + 1
    <3>1. \A a \in dis_announces : a.epoch # dis_epoch + 1
      BY <1>1
    <3> QED
      BY <2>2, <3>1 DEF For
  <2> QED
    BY <2>1, <2>2
<1> QED
  BY <1>4, <1>5, <1>6 DEF AnnounceInv

LEMMA DispatcherAlone ==
    ASSUME AnnounceInv, UNCHANGED <<dis_slot, dis_epoch, dis_inflight, dis_announces, dis_answered>>
    PROVE  AnnounceInv'
BY DEF AnnounceInv, EpochsOK, AnnouncesAreOne, CountsOK, SlotsOK

\* One more announce is one more of its tracker.
LEMMA CountOne ==
    ASSUME NEW A, IsFiniteSet(A), NEW a, a \notin A, NEW u
    PROVE  /\ IsFiniteSet(Of(A, u)) /\ Cardinality(Of(A, u)) \in Nat
           /\ Cardinality(Of(A \cup {a}, u)) =
                IF a.url = u THEN Cardinality(Of(A, u)) + 1 ELSE Cardinality(Of(A, u))
<1>1. IsFiniteSet(Of(A, u)) /\ Cardinality(Of(A, u)) \in Nat
  BY FS_Subset, FS_CardinalityType DEF Of
<1>2. CASE a.url = u
  <2>1. Of(A \cup {a}, u) = Of(A, u) \cup {a} /\ a \notin Of(A, u)
    BY <1>2 DEF Of
  <2> QED
    BY <1>1, <1>2, <2>1, FS_AddElement
<1>3. CASE a.url # u
  <2>1. Of(A \cup {a}, u) = Of(A, u)
    BY <1>3 DEF Of
  <2> QED
    BY <1>1, <1>3, <2>1
<1> QED
  BY <1>2, <1>3, <1>1

LEMMA DispatchStep ==
    ASSUME MaxPerTracker \in Nat, AnnounceInv, NEW u \in Urls, NEW h \in Hashes, D!Dispatch(u, h)
    PROVE  AnnounceInv'
<1>1. PICK k \in Keys : k = <<u, h>>
  BY DEF Keys
<1>2. k[1] = u /\ k[2] = h
  BY <1>1
<1>3. /\ dis_slot \in [Keys -> SlotType] /\ dis_slot[k] \in SlotType
      /\ dis_slot[k].epoch <= dis_epoch
      /\ dis_announces \subseteq AnnounceType /\ IsFiniteSet(dis_announces) /\ dis_epoch \in Nat
      /\ dis_inflight \in [Urls -> Nat]
  BY DEF AnnounceInv, EpochsOK, CountsOK
<1>4. PICK s : s = [dis_slot[k] EXCEPT !.active = TRUE]
  OBVIOUS
<1>5. /\ s \in SlotType /\ s.active = TRUE /\ s.event = dis_slot[k].event
      /\ s.epoch = dis_slot[k].epoch
  BY <1>3, <1>4 DEF SlotType
<1>6. PICK a : a = [url |-> u, hash |-> h, event |-> dis_slot[k].event,
                    epoch |-> dis_slot[k].epoch, at |-> "client"]
  OBVIOUS
<1>7. a \in AnnounceType /\ a.url = u /\ a.hash = h /\ a.epoch = dis_slot[k].epoch
  BY <1>3, <1>6 DEF AnnounceType, SlotType
<1>8. /\ dis_slot' = [dis_slot EXCEPT ![k] = s]
      /\ dis_inflight' = [dis_inflight EXCEPT ![u] = dis_inflight[u] + 1]
      /\ dis_announces' = dis_announces \cup {a} /\ UNCHANGED <<dis_epoch, dis_answered>>
      /\ dis_slot[k] # D!NoSlot /\ ~dis_slot[k].active /\ dis_inflight[u] < MaxPerTracker
  BY <1>1, <1>3, <1>4, <1>6 DEF D!Dispatch
<1>9. \A b \in dis_announces : ~For(b, k, dis_slot[k].epoch)
  BY <1>8 DEF AnnounceInv, SlotsOK
<1>10. a \notin dis_announces
  BY <1>2, <1>7, <1>9 DEF For
<1>11. /\ dis_slot' \in [Keys -> SlotType]
       /\ \A x \in Keys : dis_slot'[x] = IF x = k THEN s ELSE dis_slot[x]
  BY <1>3, <1>5, <1>8
<1>12. EpochsOK'
  <2>1. IsFiniteSet(dis_announces')
    BY <1>3, <1>8, FS_AddElement
  <2>2. \A x \in Keys : dis_slot'[x].epoch <= dis_epoch
    BY <1>3, <1>5, <1>11 DEF AnnounceInv, EpochsOK
  <2>3. \A b \in dis_announces' : b.epoch <= dis_epoch
    BY <1>3, <1>7, <1>8 DEF AnnounceInv, EpochsOK
  <2> QED
    BY <1>3, <1>7, <1>8, <1>11, <2>1, <2>2, <2>3 DEF EpochsOK
<1>13. AnnouncesAreOne'
  <2>1. \A b \in dis_announces : ~(a.url = b.url /\ a.hash = b.hash /\ a.epoch = b.epoch)
    BY <1>2, <1>7, <1>9 DEF For
  <2> QED
    BY <1>8, <2>1 DEF AnnounceInv, AnnouncesAreOne
<1>14. CountsOK'
  <2>1. /\ dis_inflight' \in [Urls -> Nat]
        /\ \A v \in Urls : dis_inflight'[v] = IF v = u THEN dis_inflight[u] + 1 ELSE dis_inflight[v]
    BY <1>3, <1>8
  <2>2. \A v \in Urls : /\ dis_inflight[v] = Cardinality(Of(dis_announces, v))
                        /\ dis_inflight[v] <= MaxPerTracker /\ dis_inflight[v] \in Nat
    BY <1>3 DEF AnnounceInv, CountsOK
  <2>3. ASSUME NEW v \in Urls
        PROVE  /\ dis_inflight'[v] = Cardinality(Of(dis_announces', v))
               /\ dis_inflight'[v] <= MaxPerTracker
    <3>1. Cardinality(Of(dis_announces', v)) =
            IF u = v THEN Cardinality(Of(dis_announces, v)) + 1 ELSE Cardinality(Of(dis_announces, v))
      BY <1>3, <1>7, <1>8, <1>10, CountOne
    <3>2. CASE v = u
      BY <1>8, <2>1, <2>2, <3>1, <3>2
    <3>3. CASE v # u
      BY <2>1, <2>2, <3>1, <3>3
    <3> QED
      BY <3>2, <3>3
  <2> QED
    BY <2>1, <2>3 DEF CountsOK
<1>15. SlotsOK'
  <2> SUFFICES ASSUME NEW x \in Keys, dis_slot'[x] # D!NoSlot
               PROVE  /\ dis_slot'[x].active <=> \E b \in dis_announces' : For(b, x, dis_slot'[x].epoch)
                      /\ dis_slot'[x].event = "none" => dis_slot'[x].epoch \in dis_answered
    BY <1>8 DEF SlotsOK
  <2>1. CASE x = k
    <3>1. dis_slot'[x] = s /\ For(a, x, s.epoch) /\ a \in dis_announces'
      BY <1>2, <1>5, <1>7, <1>8, <1>11, <2>1 DEF For
    <3>2. s.event = "none" => s.epoch \in dis_answered
      BY <1>5, <1>8 DEF AnnounceInv, SlotsOK
    <3> QED
      BY <1>5, <3>1, <3>2
  <2>2. CASE x # k
    <3>1. dis_slot'[x] = dis_slot[x]
      BY <1>11, <2>2
    <3>2. x[1] # u \/ x[2] # h
      BY <1>1, <2>2 DEF Keys
    <3>3. ~For(a, x, dis_slot[x].epoch)
      BY <1>7, <3>2 DEF For
    <3>4. /\ dis_slot[x].active <=> \E b \in dis_announces : For(b, x, dis_slot[x].epoch)
          /\ dis_slot[x].event = "none" => dis_slot[x].epoch \in dis_answered
      BY <3>1 DEF AnnounceInv, SlotsOK
    <3> QED
      BY <1>8, <3>1, <3>3, <3>4
  <2> QED
    BY <2>1, <2>2
<1> QED
  BY <1>12, <1>13, <1>14, <1>15 DEF AnnounceInv

\* Without one announce, each tracker has as many as the others leave.
LEMMA CountLess ==
    ASSUME AnnounceInv, NEW a \in dis_announces, NEW u \in Urls
    PROVE  /\ Cardinality(Of(dis_announces \ {a}, u)) \in Nat
           /\ dis_inflight[u] = Cardinality(Of(dis_announces \ {a}, u)) + IF a.url = u THEN 1 ELSE 0
           /\ dis_inflight[u] <= MaxPerTracker
<1>1. IsFiniteSet(dis_announces \ {a})
  BY FS_RemoveElement DEF AnnounceInv, EpochsOK
<1>2. (dis_announces \ {a}) \cup {a} = dis_announces
  OBVIOUS
<1>3. /\ Cardinality(Of(dis_announces \ {a}, u)) \in Nat
      /\ Cardinality(Of((dis_announces \ {a}) \cup {a}, u)) =
           IF a.url = u THEN Cardinality(Of(dis_announces \ {a}, u)) + 1
           ELSE Cardinality(Of(dis_announces \ {a}, u))
  BY <1>1, CountOne
<1>4. dis_inflight[u] = Cardinality(Of(dis_announces, u)) /\ dis_inflight[u] <= MaxPerTracker
  BY DEF AnnounceInv, CountsOK
<1>5. PICK n : n = Cardinality(Of(dis_announces \ {a}, u))
  OBVIOUS
<1>6. n \in Nat /\ dis_inflight[u] = IF a.url = u THEN n + 1 ELSE n
  BY <1>2, <1>3, <1>4, <1>5
<1>7. dis_inflight[u] = n + IF a.url = u THEN 1 ELSE 0
  BY <1>6
<1> QED
  BY <1>4, <1>5, <1>6, <1>7

LEMMA FindClientStep ==
    ASSUME AnnounceInv, NEW a \in dis_announces, D!FindClient(a)
    PROVE  AnnounceInv'
<1>1. /\ a \in AnnounceType /\ dis_announces \subseteq AnnounceType /\ IsFiniteSet(dis_announces)
      /\ \A b \in dis_announces : b.epoch <= dis_epoch
  BY DEF AnnounceInv, EpochsOK
<1>2. PICK c : c = [a EXCEPT !.at = "sent"]
  OBVIOUS
<1>3. /\ c \in AnnounceType /\ c.url = a.url /\ c.hash = a.hash /\ c.epoch = a.epoch
      /\ c.at = "sent"
  BY <1>1, <1>2 DEF AnnounceType
<1>4. /\ dis_announces' = (dis_announces \ {a}) \cup {c} /\ a.at = "client"
      /\ UNCHANGED <<dis_slot, dis_epoch, dis_inflight, dis_answered>>
  BY <1>2 DEF D!FindClient
<1>5. c \notin dis_announces
  BY <1>3, <1>4 DEF AnnounceInv, AnnouncesAreOne
<1>6. IsFiniteSet(dis_announces \ {a})
  BY <1>1, FS_RemoveElement
<1>7. EpochsOK'
  <2>1. IsFiniteSet(dis_announces')
    BY <1>4, <1>6, FS_AddElement
  <2>2. \A b \in dis_announces' : b.epoch <= dis_epoch
    BY <1>1, <1>3, <1>4
  <2> QED
    BY <1>1, <1>3, <1>4, <2>1, <2>2 DEF AnnounceInv, EpochsOK
<1>8. AnnouncesAreOne'
  <2>1. \A b \in dis_announces \ {a} : ~(c.url = b.url /\ c.hash = b.hash /\ c.epoch = b.epoch)
    BY <1>3 DEF AnnounceInv, AnnouncesAreOne
  <2> QED
    BY <1>4, <2>1 DEF AnnounceInv, AnnouncesAreOne
<1>9. CountsOK'
  <2>1. ASSUME NEW u \in Urls
        PROVE  /\ dis_inflight[u] = Cardinality(Of(dis_announces', u))
               /\ dis_inflight[u] <= MaxPerTracker
    <3>1. Cardinality(Of(dis_announces', u)) =
            IF c.url = u THEN Cardinality(Of(dis_announces \ {a}, u)) + 1
            ELSE Cardinality(Of(dis_announces \ {a}, u))
      BY <1>4, <1>5, <1>6, CountOne
    <3> QED
      BY <1>3, <3>1, CountLess
  <2> QED
    BY <1>4, <2>1 DEF AnnounceInv, CountsOK
<1>10. SlotsOK'
  <2>1. ASSUME NEW k \in Keys, NEW e
        PROVE  (\E b \in dis_announces' : For(b, k, e)) <=> \E b \in dis_announces : For(b, k, e)
    <3>1. For(c, k, e) <=> For(a, k, e)
      BY <1>3 DEF For
    <3> QED
      BY <1>4, <3>1
  <2> QED
    BY <1>4, <2>1 DEF AnnounceInv, SlotsOK
<1> QED
  BY <1>7, <1>8, <1>9, <1>10 DEF AnnounceInv

LEMMA FinishStep ==
    ASSUME AnnounceInv, NEW a \in dis_announces, NEW ok \in BOOLEAN, D!FinishAnnounce(a, ok),
           MaxPerTracker \in Nat
    PROVE  AnnounceInv'
<1>1. /\ a \in AnnounceType /\ dis_announces \subseteq AnnounceType /\ IsFiniteSet(dis_announces)
      /\ dis_slot \in [Keys -> SlotType] /\ dis_inflight \in [Urls -> Nat] /\ dis_epoch \in Nat
  BY DEF AnnounceInv, EpochsOK, CountsOK
<1>2. a.url \in Urls /\ a.hash \in Hashes
  BY <1>1 DEF AnnounceType
<1>3. PICK k \in Keys : k = <<a.url, a.hash>>
  BY <1>2 DEF Keys
<1>4. dis_slot[k] \in SlotType /\ k[1] = a.url /\ k[2] = a.hash
  BY <1>1, <1>3
<1>5. PICK s : s = [dis_slot[k] EXCEPT !.active = FALSE, !.event = IF ok THEN "none" ELSE @]
  OBVIOUS
<1>6. /\ s \in SlotType /\ s.active = FALSE /\ s.epoch = dis_slot[k].epoch
      /\ s.event = IF ok THEN "none" ELSE dis_slot[k].event
  BY <1>4, <1>5 DEF SlotType
<1> DEFINE mine == dis_slot[k] # D!NoSlot /\ dis_slot[k].epoch = a.epoch
<1>7. /\ dis_announces' = dis_announces \ {a}
      /\ dis_inflight' = [dis_inflight EXCEPT ![a.url] = dis_inflight[a.url] - 1]
      /\ dis_slot' = IF mine THEN [dis_slot EXCEPT ![k] = s] ELSE dis_slot
      /\ dis_answered' = IF ok THEN dis_answered \cup {a.epoch} ELSE dis_answered
      /\ UNCHANGED dis_epoch
  BY <1>1, <1>3, <1>5 DEF D!FinishAnnounce
<1>8. /\ dis_slot' \in [Keys -> SlotType]
      /\ \A x \in Keys : dis_slot'[x] = IF mine /\ x = k THEN s ELSE dis_slot[x]
  BY <1>1, <1>6, <1>7
<1> HIDE DEF mine
<1>9. EpochsOK'
  <2>1. IsFiniteSet(dis_announces')
    BY <1>1, <1>7, FS_RemoveElement
  <2>2. \A x \in Keys : dis_slot'[x].epoch <= dis_epoch
    BY <1>6, <1>8 DEF AnnounceInv, EpochsOK
  <2> QED
    BY <1>7, <1>8, <2>1, <2>2 DEF AnnounceInv, EpochsOK
<1>10. AnnouncesAreOne'
  BY <1>7 DEF AnnounceInv, AnnouncesAreOne
<1>11. CountsOK'
  <2>1. \A u \in Urls : dis_inflight'[u] = IF u = a.url THEN dis_inflight[u] - 1 ELSE dis_inflight[u]
    BY <1>1, <1>2, <1>7
  <2>2. ASSUME NEW u \in Urls
        PROVE  /\ dis_inflight'[u] = Cardinality(Of(dis_announces', u))
               /\ dis_inflight'[u] <= MaxPerTracker
               /\ dis_inflight'[u] \in Nat
    <3>1. /\ Cardinality(Of(dis_announces', u)) \in Nat
          /\ dis_inflight[u] = Cardinality(Of(dis_announces', u)) + IF a.url = u THEN 1 ELSE 0
          /\ dis_inflight[u] <= MaxPerTracker
      BY <1>7, CountLess
    <3>2. dis_inflight'[u] = Cardinality(Of(dis_announces', u))
      BY <2>1, <3>1
    <3> QED
      BY <3>1, <3>2
  <2>3. dis_inflight' \in [Urls -> Nat]
    BY <1>1, <1>7, <2>2
  <2> QED
    BY <2>2, <2>3 DEF CountsOK
<1>12. SlotsOK'
  <2> SUFFICES ASSUME NEW x \in Keys, dis_slot'[x] # D!NoSlot
               PROVE  /\ dis_slot'[x].active <=> \E b \in dis_announces' : For(b, x, dis_slot'[x].epoch)
                      /\ dis_slot'[x].event = "none" => dis_slot'[x].epoch \in dis_answered'
    BY DEF SlotsOK
  <2>1. CASE mine /\ x = k
    <3>1. dis_slot'[x] = s /\ dis_slot[k] # D!NoSlot /\ s.epoch = a.epoch
      BY <1>6, <1>8, <2>1 DEF mine
    <3>2. \A b \in dis_announces' : ~For(b, x, a.epoch)
      BY <1>4, <1>7, <2>1 DEF AnnounceInv, AnnouncesAreOne, For
    <3>3. s.event = "none" => s.epoch \in dis_answered'
      <4>1. CASE ok
        BY <1>7, <3>1, <4>1
      <4>2. CASE ~ok
        <5>1. dis_slot[k].event = "none" => dis_slot[k].epoch \in dis_answered
          BY <3>1 DEF AnnounceInv, SlotsOK
        <5> QED
          BY <1>6, <1>7, <4>2, <5>1
      <4> QED
        BY <4>1, <4>2
    <3> QED
      BY <1>6, <3>1, <3>2, <3>3
  <2>2. CASE ~(mine /\ x = k)
    <3>1. dis_slot'[x] = dis_slot[x]
      BY <1>8, <2>2
    <3>2. ~For(a, x, dis_slot[x].epoch)
      <4>1. CASE x = k
        BY <2>2, <3>1, <4>1 DEF mine, For
      <4>2. CASE x # k
        <5>1. x[1] # a.url \/ x[2] # a.hash
          BY <1>3, <4>2 DEF Keys
        <5> QED
          BY <5>1 DEF For
      <4> QED
        BY <4>1, <4>2
    <3>3. /\ dis_slot[x].active <=> \E b \in dis_announces : For(b, x, dis_slot[x].epoch)
          /\ dis_slot[x].event = "none" => dis_slot[x].epoch \in dis_answered
      BY <3>1 DEF AnnounceInv, SlotsOK
    <3>4. dis_answered \subseteq dis_answered'
      BY <1>7
    <3> QED
      BY <1>7, <3>1, <3>2, <3>3, <3>4
  <2> QED
    BY <2>1, <2>2
<1> QED
  BY <1>9, <1>10, <1>11, <1>12 DEF AnnounceInv

\* The calls reach the dispatcher's slots in three ways only.
LEMMA AddSlotsStep ==
    ASSUME AnnounceInv, NEW t, D!AddSlots(t)
    PROVE  AnnounceInv'
<1>1. PICK h : h = dis_thread[t].hash
  OBVIOUS
<1>2. /\ dis_epoch' = dis_epoch + 1 /\ UNCHANGED <<dis_inflight, dis_announces, dis_answered>>
      /\ dis_slot' = [k \in Keys |->
                    IF k[2] = h /\ dis_slot[k] = D!NoSlot
                    THEN [active |-> FALSE, event |-> "started", epoch |-> dis_epoch + 1]
                    ELSE dis_slot[k]]
  BY <1>1 DEF D!AddSlots, D!AddTrackers, Keys
<1>3. dis_epoch \in Nat /\ dis_slot \in [Keys -> SlotType]
  BY DEF AnnounceInv, EpochsOK
<1>4. dis_epoch' \in Nat /\ dis_epoch <= dis_epoch'
  BY <1>2, <1>3
<1>5. PICK new : new = [active |-> FALSE, event |-> "started", epoch |-> dis_epoch + 1]
  OBVIOUS
<1>6. /\ new \in SlotType /\ new.active = FALSE /\ new.event = "started"
      /\ new.epoch = dis_epoch + 1
  BY <1>3, <1>5 DEF SlotType
<1>7. \A k \in Keys : dis_slot'[k] = dis_slot[k] \/ dis_slot'[k] = new
  BY <1>2, <1>5
<1>8. dis_slot' \in [Keys -> SlotType]
  BY <1>2, <1>3, <1>6, <1>7
<1> QED
  BY <1>2, <1>4, <1>6, <1>7, <1>8, SlotsChange

LEMMA SlotsGo ==
    ASSUME AnnounceInv, UNCHANGED <<dis_epoch, dis_inflight, dis_announces, dis_answered>>, NEW G,
           dis_slot' = [k \in Keys |-> IF k[2] \in G THEN D!NoSlot ELSE dis_slot[k]]
    PROVE  AnnounceInv'
<1>1. dis_epoch \in Nat /\ dis_slot \in [Keys -> SlotType] /\ D!NoSlot \in SlotType
  BY DEF AnnounceInv, EpochsOK, SlotType, D!NoSlot
<1>2. dis_epoch' \in Nat /\ dis_epoch <= dis_epoch'
  BY <1>1
<1>3. /\ dis_slot' \in [Keys -> SlotType]
      /\ \A k \in Keys : dis_slot'[k] = dis_slot[k] \/ dis_slot'[k] = D!NoSlot
  BY <1>1
<1> QED
  BY <1>2, <1>3, SlotsChange

LEMMA AnnounceStep ==
    ASSUME MaxPerTracker \in Nat, AnnounceInv, [D!Next]_(D!vars)
    PROVE  AnnounceInv'
<1>1. ASSUME NEW u \in Urls, NEW h \in Hashes, D!Dispatch(u, h) PROVE AnnounceInv'
  BY <1>1, DispatchStep
<1>2. ASSUME NEW a \in dis_announces, D!FindClient(a) PROVE AnnounceInv'
  BY <1>2, FindClientStep
<1>3. ASSUME NEW a \in dis_announces, NEW ok \in BOOLEAN, D!FinishAnnounce(a, ok) PROVE AnnounceInv'
  BY <1>3, FinishStep
<1>4. ASSUME NEW t \in Threads, D!AddSlots(t) PROVE AnnounceInv'
  BY <1>4, AddSlotsStep
<1>5. ASSUME NEW t \in Threads, D!StopTrackers(t) PROVE AnnounceInv'
  <2>1. dis_slot' = [k \in Keys |-> IF k[2] \in {dis_thread[t].hash} THEN D!NoSlot ELSE dis_slot[k]]
    BY <1>5 DEF D!StopTrackers, D!RemoveTorrent, Keys
  <2>2. UNCHANGED <<dis_epoch, dis_inflight, dis_announces, dis_answered>>
    BY <1>5 DEF D!StopTrackers, D!RemoveTorrent
  <2> QED
    BY <2>1, <2>2, SlotsGo
<1>6. ASSUME D!Close PROVE AnnounceInv'
  <2>1. dis_slot' = [k \in Keys |-> IF k[2] \in {h \in Hashes : dis_torrents[h] # 0}
                                THEN D!NoSlot ELSE dis_slot[k]]
    BY <1>6 DEF D!Close, Keys
  <2>2. UNCHANGED <<dis_epoch, dis_inflight, dis_announces, dis_answered>>
    BY <1>6 DEF D!Close
  <2> QED
    BY <2>1, <2>2, SlotsGo
<1>7. ASSUME D!ResetClients PROVE AnnounceInv'
  BY <1>7, DispatcherAlone DEF D!ResetClients
<1>8. ASSUME UNCHANGED D!dispatcher PROVE AnnounceInv'
  BY <1>8, DispatcherAlone DEF D!dispatcher
<1>9. ASSUME NEW t \in Threads, NEW h \in Hashes, D!Register(t, h) \/ D!Unregister(t, h)
      PROVE  AnnounceInv'
  BY <1>8, <1>9 DEF D!Register, D!Unregister
<1>10. ASSUME NEW t \in Threads, NEW h \in Hashes, NEW op, D!CallOn(t, h, op)
       PROVE  AnnounceInv'
  BY <1>8, <1>10 DEF D!CallOn
<1>11. ASSUME NEW t \in Threads,
              D!PushSnapshot(t) \/ D!StartWsTracker(t) \/ D!AbortAnnouncer(t)
       PROVE  AnnounceInv'
  BY <1>8, <1>11 DEF D!PushSnapshot, D!StartWsTracker, D!AbortAnnouncer
<1>12. ASSUME NEW t \in Threads, D!SpawnAnnouncer(t) \/ D!ReleaseEntry(t)
       PROVE  AnnounceInv'
  BY <1>8, <1>12 DEF D!SpawnAnnouncer, D!ReleaseEntry
<1>13. ASSUME NEW d \in dis_dht, D!DhtLoop(d) PROVE AnnounceInv'
  BY <1>8, <1>13 DEF D!DhtLoop
<1>14. ASSUME UNCHANGED D!vars PROVE AnnounceInv'
  BY <1>14, DispatcherAlone DEF D!vars
<1> QED
  BY <1>1, <1>2, <1>3, <1>4, <1>5, <1>6, <1>7, <1>9, <1>10, <1>11, <1>12, <1>13, <1>14
     DEF D!Next

(***************************************************************************)
(* However torrents come, go and come back while announces run, a tracker  *)
(* has exactly as many places taken as announces run and never more than   *)
(* MAX_CONCURRENT_ANNOUNCES_PER_TRACKER (dispatch_once), and the result of *)
(* an announce counts for the slot it was sent for only (finish_announce): *)
(* a slot is busy exactly while its own announce runs, and past Started    *)
(* only when its own was answered.                                         *)
(***************************************************************************)
THEOREM AnnouncesCounted == D!Spec => []AnnouncesAreCounted
<1>1. D!Init => AnnounceInv
  BY DiscoveryAssumption, AnnounceInit
<1>2. AnnounceInv /\ [D!Next]_(D!vars) => AnnounceInv'
  BY DiscoveryAssumption, AnnounceStep
<1>3. AnnounceInv => AnnouncesAreCounted
  BY AnnounceInvCounts DEF AnnouncesAreCounted
<1> QED
  BY <1>1, <1>2, <1>3, PTL DEF D!Spec

-----------------------------------------------------------------------------
(* Playback readers                                                        *)

Holding == {"claim", "check", "yield", "focus"}
SessionType == [stage : {"none", "opening", "open", "gone"}, closed : BOOLEAN, gen : Nat,
                pos : Int, opening : BOOLEAN, probed : SUBSET Int, settled : BOOLEAN,
                parked : BOOLEAN, entering : BOOLEAN, idle : BOOLEAN]
OpType == [who : {"none", "open", "refresh", "read", "close"},
           at : Holding \cup {"none", "opened", "refreshed", "admit", "wait", "return",
                              "unfocus", "clear", "report"},
           pos : Int, then : {"none", "opened", "refreshed", "admit", "return"}, call : Int]
HoldType == [pos : Int, held : BOOLEAN, gen : Nat]
CallType == [P!Gens -> {"none", "queued", "running", "ended"}]

PlaybackTypes ==
    /\ pb_session \in [Readers -> SessionType]
    /\ pb_op \in [Readers -> OpType]
    /\ pb_call \in [Readers -> CallType]
    /\ pb_token \in [Readers -> Nat]
    /\ pb_use \in Sessions

\* Who holds a session's lock knows the stage the session is in.
LockFits(s, o) ==
    /\ o.who = "none" => o.at = "none"
    /\ o.who = "open" => /\ s.stage = "opening" /\ o.then = "opened"
                         /\ o.at \in Holding \cup {"opened"}
    /\ o.who = "refresh" => /\ s.stage = "open" /\ o.then = "refreshed"
                            /\ o.at \in Holding \cup {"refreshed"}
    /\ o.who = "read" => /\ s.stage = "open" /\ o.then \in {"admit", "return"}
                         /\ o.at \in Holding \cup {"admit", "wait", "return"}
    /\ o.who = "close" => s.stage = "gone" /\ o.at \in {"unfocus", "clear", "report"}

\* The token of an open reader is its latest read's, no read is ahead, and
\* nothing is read before the session is open.
TokenFits(s, c, t) ==
    /\ s.stage \in {"none", "opening"} => s.gen = 0 /\ ~s.entering
    /\ s.stage = "gone" => s.closed
    /\ ~s.closed => t = s.gen
    /\ \A g \in P!Gens : g > s.gen => c[g] = "none"

\* The read that holds the lock is the newest one that ran, and was told to
\* stop once it is not the one a pause or a close would tell.
ReadFits(r, s, o, c, t, told) ==
    o.who = "read" =>
        /\ o.call \in P!Gens /\ c[o.call] = "running"
        /\ (~s.closed /\ o.call = t) \/ <<r, o.call>> \in told
        /\ \A g \in P!Gens : g > o.call => c[g] \notin {"running", "ended"}

ReaderFits(r, s, o, c, t, told) ==
    LockFits(s, o) /\ TokenFits(s, c, t) /\ ReadFits(r, s, o, c, t, told)

ReadersFit ==
    \A r \in Readers :
        ReaderFits(r, pb_session[r], pb_op[r], pb_call[r], pb_token[r], pb_cancelled)

\* Somebody who still plays, or is closing, will see to the playhead.
PlayheadIsMinded ==
    pb_playhead # P!Nobody =>
        \E r \in Readers : \/ pb_session[r].stage \in {"opening", "open"}
                           \/ pb_op[r].at \in {"unfocus", "clear"}

HoldsFit == pb_resume \in HoldType /\ P!HeldDemandExpires

\* Whoever has a demand in the coordinator plays.
OwnersPlay == \A r \in pb_owners : r \in Readers /\ pb_session[r].stage \in {"opening", "open"}

PlaybackInv ==
    /\ PlaybackTypes /\ ReadersFit /\ PlayheadIsMinded /\ OwnersPlay
    /\ P!NoReadSurvivesPause /\ P!ClosedOwnsNothing /\ HoldsFit

\* What a step may do to the records of one reader.
Elsewhere(r) ==
    \A q \in Readers \ {r} : /\ pb_session'[q] = pb_session[q] /\ pb_op'[q] = pb_op[q]
                             /\ pb_call'[q] = pb_call[q] /\ pb_token'[q] = pb_token[q]

\* Cancelling more reads leaves a reader in order.
LEMMA MoreAreTold ==
    ASSUME NEW r, NEW s, NEW o, NEW c, NEW t, NEW told, NEW more,
           ReaderFits(r, s, o, c, t, told), told \subseteq more
    PROVE  ReaderFits(r, s, o, c, t, more)
BY DEF ReaderFits, ReadFits

\* A step of one reader keeps the others in order.
LEMMA OneReader ==
    ASSUME PlaybackInv, NEW r \in Readers, PlaybackTypes', Elsewhere(r),
           pb_cancelled \subseteq pb_cancelled',
           ReaderFits(r, pb_session'[r], pb_op'[r], pb_call'[r], pb_token'[r], pb_cancelled')
    PROVE  ReadersFit'
<1> SUFFICES ASSUME NEW q \in Readers
             PROVE  ReaderFits(q, pb_session'[q], pb_op'[q], pb_call'[q], pb_token'[q], pb_cancelled')
  BY DEF ReadersFit
<1>1. CASE q = r
  BY <1>1
<1>2. CASE q # r
  <2>1. ReaderFits(q, pb_session[q], pb_op[q], pb_call[q], pb_token[q], pb_cancelled)
    BY DEF PlaybackInv, ReadersFit
  <2>2. ReaderFits(q, pb_session[q], pb_op[q], pb_call[q], pb_token[q], pb_cancelled')
    BY <2>1, MoreAreTold
  <2> QED
    BY <2>2, <1>2 DEF Elsewhere
<1> QED
  BY <1>1, <1>2

\* Moving on under the lock.
LEMMA LockMoves ==
    ASSUME PlaybackTypes, NEW r \in Readers,
           NEW a \in Holding \cup {"opened", "refreshed", "admit", "wait", "return", "clear", "report"},
           pb_op' = [pb_op EXCEPT ![r].at = a]
    PROVE  /\ pb_op' \in [Readers -> OpType]
           /\ \A q \in Readers \ {r} : pb_op'[q] = pb_op[q]
           /\ pb_op'[r].at = a /\ pb_op'[r].who = pb_op[r].who
           /\ pb_op'[r].then = pb_op[r].then /\ pb_op'[r].call = pb_op[r].call
<1>1. pb_op \in [Readers -> OpType] /\ pb_op[r] \in OpType
  BY DEF PlaybackTypes
<1>2. pb_op'[r] = [pb_op[r] EXCEPT !.at = a] /\ \A q \in Readers \ {r} : pb_op'[q] = pb_op[q]
  BY <1>1
<1>3. [pb_op[r] EXCEPT !.at = a] \in OpType
  BY <1>1 DEF OpType
<1> QED
  BY <1>1, <1>2, <1>3 DEF OpType

\* Steps that neither take nor leave the lock, and touch no read.
LEMMA SameRead ==
    ASSUME PlaybackInv, NEW r \in Readers,
           pb_session' \in [Readers -> SessionType], pb_op' \in [Readers -> OpType],
           \A q \in Readers \ {r} : pb_session'[q] = pb_session[q] /\ pb_op'[q] = pb_op[q],
           pb_session'[r].stage = pb_session[r].stage,
           pb_session'[r].closed = pb_session[r].closed,
           pb_session'[r].gen = pb_session[r].gen,
           pb_session'[r].entering => pb_session[r].entering \/ pb_session[r].stage = "open",
           pb_op'[r].who = pb_op[r].who, pb_op'[r].call = pb_op[r].call,
           LockFits(pb_session'[r], pb_op'[r]),
           UNCHANGED <<pb_call, pb_token, pb_cancelled, pb_use>>
    PROVE  PlaybackTypes' /\ ReadersFit'
<1>1. PlaybackTypes'
  BY DEF PlaybackInv, PlaybackTypes
<1>2. Elsewhere(r)
  BY DEF Elsewhere
<1>3. ReaderFits(r, pb_session[r], pb_op[r], pb_call[r], pb_token[r], pb_cancelled)
  BY DEF PlaybackInv, ReadersFit
<1>4. ReaderFits(r, pb_session'[r], pb_op'[r], pb_call'[r], pb_token'[r], pb_cancelled')
  BY <1>3 DEF ReaderFits, TokenFits, ReadFits
<1> QED
  BY <1>1, <1>2, <1>4, OneReader

\* What a reader's place under its lock tells.
LEMMA HolderIs ==
    ASSUME PlaybackInv, NEW r \in Readers
    PROVE  /\ pb_session[r] \in SessionType /\ pb_op[r] \in OpType
           /\ LockFits(pb_session[r], pb_op[r])
           /\ pb_op[r].at \in Holding \cup {"opened", "refreshed", "admit", "wait", "return"}
                => pb_session[r].stage \in {"opening", "open"}
           /\ pb_op[r].at \in {"unfocus", "clear", "report"} => pb_session[r].stage = "gone"
<1>1. pb_session[r] \in SessionType /\ pb_op[r] \in OpType /\ LockFits(pb_session[r], pb_op[r])
  BY DEF PlaybackInv, PlaybackTypes, ReadersFit, ReaderFits
<1> QED
  BY <1>1 DEF OpType, LockFits, Holding

\* A window step: the session keeps its stage and lock, and the reads go on.
WindowStep(r) ==
    /\ pb_session' \in [Readers -> SessionType] /\ pb_op' \in [Readers -> OpType]
    /\ \A q \in Readers \ {r} : pb_session'[q] = pb_session[q] /\ pb_op'[q] = pb_op[q]
    /\ pb_session'[r].stage = pb_session[r].stage
    /\ pb_session'[r].closed = pb_session[r].closed
    /\ pb_session'[r].gen = pb_session[r].gen
    /\ pb_session'[r].entering = pb_session[r].entering
    /\ pb_op'[r].who = pb_op[r].who /\ pb_op'[r].call = pb_op[r].call
    /\ pb_op'[r].then = pb_op[r].then
    /\ pb_op[r].at \in Holding
    /\ pb_op'[r].at \in (Holding \cup {pb_op[r].then}) \ {"wait", "clear", "unfocus"}
    /\ UNCHANGED <<pb_call, pb_token, pb_cancelled, pb_use, pb_resume, pb_timers, pb_allowed>>

LEMMA WindowStepInv ==
    ASSUME PlaybackInv, NEW r \in Readers, WindowStep(r),
           pb_owners' \subseteq pb_owners \cup {r},
           pb_active' \in {pb_active, r, P!Nobody}, pb_playing' \in {pb_playing, r, P!Nobody},
           P!Nobody \notin Readers
    PROVE  PlaybackInv'
<1>1. pb_session[r].stage \in {"opening", "open"} /\ LockFits(pb_session[r], pb_op[r])
  BY HolderIs DEF WindowStep
<1>2. LockFits(pb_session'[r], pb_op'[r])
  BY <1>1 DEF LockFits, WindowStep, Holding
<1>3. PlaybackTypes' /\ ReadersFit'
  BY <1>2, SameRead DEF WindowStep
<1>4. PlayheadIsMinded'
  BY <1>1 DEF PlayheadIsMinded, WindowStep
<1>5. P!NoReadSurvivesPause'
  <2> SUFFICES ASSUME ~pb_allowed', NEW q \in Readers, pb_op'[q].at = "wait"
               PROVE  <<q, pb_op'[q].call>> \in pb_cancelled'
    BY DEF P!NoReadSurvivesPause, P!At
  <2>1. q # r
    BY DEF WindowStep
  <2> QED
    BY <2>1 DEF PlaybackInv, P!NoReadSurvivesPause, P!At, WindowStep
<1>6. P!ClosedOwnsNothing'
  BY <1>1 DEF PlaybackInv, P!ClosedOwnsNothing, WindowStep
<1>7. HoldsFit'
  BY DEF PlaybackInv, HoldsFit, P!HeldDemandExpires, WindowStep
<1>8. OwnersPlay'
  BY <1>1 DEF PlaybackInv, OwnersPlay, WindowStep
<1> QED
  BY <1>3, <1>4, <1>5, <1>6, <1>7, <1>8 DEF PlaybackInv

\* The position and phase of a session are no business of the invariant.
LEMMA ClaimStep ==
    ASSUME PlaybackBounds, PlaybackInv, NEW r \in Readers, P!Claim(r)
    PROVE  PlaybackInv'
<1>1. pb_session \in [Readers -> SessionType] /\ pb_session[r] \in SessionType /\ pb_op[r] \in OpType
  BY DEF PlaybackInv, PlaybackTypes
<1>2. PICK o \in BOOLEAN : o = P!OpeningAfter(pb_session[r], pb_op[r].pos)
  BY DEF P!OpeningAfter
<1>3. PICK u \in BOOLEAN : u = (pb_session[r].settled /\ pb_op[r].pos = pb_session[r].pos
                                   /\ o = pb_session[r].opening)
  OBVIOUS
<1>4. PICK b : b = IF o THEN pb_session[r].probed \cup ({pb_op[r].pos} \cap {0, LastPiece})
                   ELSE pb_session[r].probed
  OBVIOUS
<1>5. b \subseteq Int /\ pb_op[r].pos \in Int
  BY <1>1, <1>4 DEF SessionType, OpType
<1>6. PICK s : s = [pb_session[r] EXCEPT !.pos = pb_op[r].pos, !.opening = o, !.settled = u, !.probed = b]
  OBVIOUS
<1>7. /\ s \in SessionType /\ s.stage = pb_session[r].stage
      /\ s.closed = pb_session[r].closed /\ s.gen = pb_session[r].gen /\ s.entering = pb_session[r].entering
  BY <1>1, <1>5, <1>6 DEF SessionType
<1>8. pb_session' = [pb_session EXCEPT ![r] = s]
  <2>1. pb_session' = [pb_session EXCEPT ![r].pos = pb_op[r].pos,
                         ![r].opening = P!OpeningAfter(pb_session[r], pb_op[r].pos),
                         ![r].settled = @ /\ pb_op[r].pos = pb_session[r].pos
                            /\ P!OpeningAfter(pb_session[r], pb_op[r].pos) = pb_session[r].opening,
                         ![r].probed = IF P!OpeningAfter(pb_session[r], pb_op[r].pos)
                                       THEN @ \cup ({pb_op[r].pos} \cap {0, LastPiece}) ELSE @]
    BY Zenon DEF P!Claim
  <2>2. pb_session' = [pb_session EXCEPT ![r].pos = pb_op[r].pos, ![r].opening = o,
                         ![r].settled = @ /\ pb_op[r].pos = pb_session[r].pos /\ o = pb_session[r].opening,
                         ![r].probed = IF o THEN @ \cup ({pb_op[r].pos} \cap {0, LastPiece}) ELSE @]
    BY <2>1, <1>2, Zenon
  <2>3. pb_session' = [pb_session EXCEPT ![r].pos = pb_op[r].pos, ![r].opening = o,
                         ![r].settled = u, ![r].probed = b]
    BY <2>2, <1>1, <1>3, <1>4
  <2> QED
    BY <2>3, <1>1, <1>6
<1>9. /\ pb_op' \in [Readers -> OpType] /\ \A q \in Readers \ {r} : pb_op'[q] = pb_op[q]
      /\ pb_op'[r].at = "check" /\ pb_op'[r].who = pb_op[r].who
      /\ pb_op'[r].then = pb_op[r].then /\ pb_op'[r].call = pb_op[r].call
  BY LockMoves DEF P!Claim, P!Step, Holding, PlaybackInv
<1>10. /\ pb_op[r].at = "claim"
       /\ pb_active' = r /\ pb_owners' = pb_owners /\ pb_playing' = pb_playing
       /\ UNCHANGED <<pb_call, pb_token, pb_cancelled, pb_use, pb_resume, pb_timers, pb_allowed>>
  BY Zenon DEF P!Claim, P!At
<1>11. WindowStep(r)
  BY <1>1, <1>7, <1>8, <1>9, <1>10 DEF WindowStep, Holding
<1> QED
  BY <1>10, <1>11, WindowStepInv DEF PlaybackBounds, P!Nobody

LEMMA OutbidStep ==
    ASSUME PlaybackBounds, PlaybackInv, NEW r \in Readers, P!Outbid(r)
    PROVE  PlaybackInv'
<1>1. /\ pb_op' \in [Readers -> OpType] /\ \A q \in Readers \ {r} : pb_op'[q] = pb_op[q]
      /\ pb_op'[r].at = "yield" /\ pb_op'[r].who = pb_op[r].who
      /\ pb_op'[r].then = pb_op[r].then /\ pb_op'[r].call = pb_op[r].call
  BY LockMoves DEF P!Outbid, P!Step, Holding, PlaybackInv
<1>2. pb_session \in [Readers -> SessionType]
  BY DEF PlaybackInv, PlaybackTypes
<1>3. WindowStep(r)
  BY <1>1, <1>2 DEF P!Outbid, P!At, Holding, WindowStep
<1> QED
  BY <1>3, WindowStepInv DEF P!Outbid, P!Drop, PlaybackBounds, P!Nobody

LEMMA YieldFocusStep ==
    ASSUME PlaybackBounds, PlaybackInv, NEW r \in Readers, P!YieldFocus(r) \/ P!Focus(r)
    PROVE  PlaybackInv'
<1>1. pb_op[r] \in OpType /\ LockFits(pb_session[r], pb_op[r]) /\ pb_op[r].at \in {"yield", "focus"}
  BY HolderIs DEF P!YieldFocus, P!Focus, P!At
<1>2. pb_op[r].then \in {"opened", "refreshed", "admit", "return"}
  BY <1>1 DEF LockFits, OpType
<1>3. pb_op' = [pb_op EXCEPT ![r].at = pb_op[r].then]
  BY DEF P!YieldFocus, P!Focus, P!Step
<1>4. WindowStep(r)
  BY <1>1, <1>2, <1>3, LockMoves DEF P!YieldFocus, P!Focus, Holding, PlaybackInv, PlaybackTypes,
     WindowStep, P!coordinator
<1> QED
  BY <1>4, WindowStepInv DEF P!YieldFocus, P!Focus, PlaybackBounds, P!Nobody, P!coordinator

LEMMA UnchangedStep ==
    ASSUME PlaybackBounds, PlaybackInv, NEW r \in Readers, P!Unchanged(r)
    PROVE  PlaybackInv'
<1>1. /\ pb_op' \in [Readers -> OpType] /\ \A q \in Readers \ {r} : pb_op'[q] = pb_op[q]
      /\ pb_op'[r].at = "focus" /\ pb_op'[r].who = pb_op[r].who
      /\ pb_op'[r].then = pb_op[r].then /\ pb_op'[r].call = pb_op[r].call
  BY LockMoves DEF P!Unchanged, P!Step, Holding, PlaybackInv
<1>2. pb_session \in [Readers -> SessionType]
  BY DEF PlaybackInv, PlaybackTypes
<1>3. WindowStep(r)
  BY <1>1, <1>2 DEF P!Unchanged, P!At, Holding, WindowStep, P!coordinator
<1> QED
  BY <1>3, WindowStepInv DEF P!Unchanged, PlaybackBounds, P!Nobody, P!coordinator

LEMMA UpdateStep ==
    ASSUME PlaybackBounds, PlaybackInv, NEW r \in Readers, P!Update(r)
    PROVE  PlaybackInv'
<1>1. pb_session \in [Readers -> SessionType] /\ pb_session[r] \in SessionType
  BY DEF PlaybackInv, PlaybackTypes
<1>2. PICK s : s = [pb_session[r] EXCEPT !.settled = TRUE]
  OBVIOUS
<1>3. /\ s \in SessionType /\ s.stage = pb_session[r].stage
      /\ s.closed = pb_session[r].closed /\ s.gen = pb_session[r].gen /\ s.entering = pb_session[r].entering
  BY <1>1, <1>2 DEF SessionType
<1>4. pb_session' = [pb_session EXCEPT ![r] = s]
  BY <1>1, <1>2 DEF P!Update
<1>5. /\ pb_op' \in [Readers -> OpType] /\ \A q \in Readers \ {r} : pb_op'[q] = pb_op[q]
      /\ pb_op'[r].at = "focus" /\ pb_op'[r].who = pb_op[r].who
      /\ pb_op'[r].then = pb_op[r].then /\ pb_op'[r].call = pb_op[r].call
  BY LockMoves DEF P!Update, P!Step, Holding, PlaybackInv
<1>6. WindowStep(r)
  BY <1>1, <1>3, <1>4, <1>5 DEF P!Update, P!At, Holding, WindowStep
<1> QED
  BY <1>6, WindowStepInv DEF P!Update, PlaybackBounds, P!Nobody

-----------------------------------------------------------------------------
\* Steps that leave every lock and read as they are, and mark a session.
LEMMA MarkStep ==
    ASSUME PlaybackInv, NEW r \in Readers, NEW s \in SessionType,
           s.stage = pb_session[r].stage, s.closed = pb_session[r].closed, s.gen = pb_session[r].gen,
           s.entering => pb_session[r].entering \/ pb_session[r].stage = "open",
           pb_session' = [pb_session EXCEPT ![r] = s],
           UNCHANGED <<pb_call, pb_token, pb_cancelled, pb_op, pb_use, pb_resume, pb_timers,
                       pb_playhead, pb_allowed, pb_owners, pb_active, pb_playing>>
    PROVE  PlaybackInv'
<1>1. LockFits(pb_session[r], pb_op[r])
  BY HolderIs
<1>2. /\ pb_session' \in [Readers -> SessionType]
      /\ \A q \in Readers : pb_session'[q].stage = pb_session[q].stage
      /\ \A q \in Readers \ {r} : pb_session'[q] = pb_session[q]
      /\ pb_session'[r] = s
  BY DEF PlaybackInv, PlaybackTypes
<1>3. LockFits(pb_session'[r], pb_op'[r])
  BY <1>1, <1>2 DEF LockFits
<1>4. pb_op' \in [Readers -> OpType]
  BY DEF PlaybackInv, PlaybackTypes
<1>5. PlaybackTypes' /\ ReadersFit'
  BY <1>2, <1>3, <1>4, SameRead
<1> QED
  BY <1>2, <1>5 DEF PlaybackInv, PlayheadIsMinded, P!NoReadSurvivesPause, P!At,
     P!ClosedOwnsNothing, HoldsFit, P!HeldDemandExpires, OwnersPlay

LEMMA EnterStep ==
    ASSUME PlaybackInv, NEW r \in Readers, P!Enter(r)
    PROVE  PlaybackInv'
<1>1. pb_session \in [Readers -> SessionType] /\ pb_session[r] \in SessionType
  BY DEF PlaybackInv, PlaybackTypes
<1>2. PICK s : s = [pb_session[r] EXCEPT !.entering = TRUE]
  OBVIOUS
<1>3. /\ s \in SessionType /\ s.stage = pb_session[r].stage
      /\ s.closed = pb_session[r].closed /\ s.gen = pb_session[r].gen /\ pb_session[r].stage = "open"
  BY <1>1, <1>2 DEF SessionType, P!Enter
<1>4. pb_session' = [pb_session EXCEPT ![r] = s]
  BY <1>1, <1>2 DEF P!Enter
<1> QED
  BY <1>3, <1>4, MarkStep DEF P!Enter, P!coordinator

LEMMA IdlesStep ==
    ASSUME PlaybackInv, NEW r \in Readers, P!Idles(r)
    PROVE  PlaybackInv'
<1>1. pb_session \in [Readers -> SessionType] /\ pb_session[r] \in SessionType
  BY DEF PlaybackInv, PlaybackTypes
<1>2. PICK s : s = [pb_session[r] EXCEPT !.idle = TRUE, !.settled = FALSE]
  OBVIOUS
<1>3. /\ s \in SessionType /\ s.stage = pb_session[r].stage
      /\ s.closed = pb_session[r].closed /\ s.gen = pb_session[r].gen /\ s.entering = pb_session[r].entering
  BY <1>1, <1>2 DEF SessionType
<1>4. pb_session' = [pb_session EXCEPT ![r] = s]
  BY <1>1, <1>2 DEF P!Idles
<1> QED
  BY <1>3, <1>4, MarkStep DEF P!Idles, P!coordinator

LEMMA ParkFlagStep ==
    ASSUME PlaybackInv, NEW r \in Readers, P!ParkFlag(r)
    PROVE  PlaybackInv'
<1>1. pb_session \in [Readers -> SessionType] /\ pb_session[r] \in SessionType
  BY DEF PlaybackInv, PlaybackTypes
<1>2. PICK s : s = [pb_session[r] EXCEPT !.parked = TRUE]
  OBVIOUS
<1>3. /\ s \in SessionType /\ s.stage = pb_session[r].stage
      /\ s.closed = pb_session[r].closed /\ s.gen = pb_session[r].gen /\ s.entering = pb_session[r].entering
  BY <1>1, <1>2 DEF SessionType
<1>4. pb_session' = [pb_session EXCEPT ![r] = s]
  BY <1>1, <1>2 DEF P!ParkFlag
<1> QED
  BY <1>3, <1>4, MarkStep DEF P!ParkFlag, P!coordinator

LEMMA ParkStep ==
    ASSUME PlaybackInv, NEW r \in Readers, P!Park(r)
    PROVE  PlaybackInv'
<1>1. pb_session \in [Readers -> SessionType] /\ pb_session[r] \in SessionType
  BY DEF PlaybackInv, PlaybackTypes
<1>2. CASE pb_session' = pb_session
  <2>1. pb_session' = [pb_session EXCEPT ![r] = pb_session[r]]
    BY <1>1, <1>2
  <2> QED
    BY <1>1, <2>1, MarkStep DEF P!Park, P!coordinator
<1>3. CASE pb_session' = [pb_session EXCEPT ![r].idle = FALSE]
  <2>1. PICK s : s = [pb_session[r] EXCEPT !.idle = FALSE]
    OBVIOUS
  <2>2. /\ s \in SessionType /\ s.stage = pb_session[r].stage
        /\ s.closed = pb_session[r].closed /\ s.gen = pb_session[r].gen /\ s.entering = pb_session[r].entering
    BY <1>1, <2>1 DEF SessionType
  <2>3. pb_session' = [pb_session EXCEPT ![r] = s]
    BY <1>1, <1>3, <2>1
  <2> QED
    BY <2>2, <2>3, MarkStep DEF P!Park, P!coordinator
<1> QED
  BY <1>2, <1>3 DEF P!Park

\* Parking takes from the coordinator and touches no lock.
LEMMA ParkDropStep ==
    ASSUME PlaybackBounds, PlaybackInv, NEW r \in Readers, P!ParkDrop(r)
    PROVE  PlaybackInv'
<1>1. /\ pb_owners' \subseteq pb_owners /\ pb_active' \in {pb_active, P!Nobody}
      /\ pb_playing' \in {pb_playing, P!Nobody}
  BY DEF P!ParkDrop, P!Drop
<1>2. UNCHANGED <<pb_session, pb_call, pb_token, pb_cancelled, pb_op, pb_use, pb_resume, pb_timers,
                  pb_playhead, pb_allowed>>
  BY DEF P!ParkDrop
<1>3. PlaybackTypes' /\ ReadersFit' /\ PlayheadIsMinded'
  BY <1>2 DEF PlaybackInv, PlaybackTypes, ReadersFit, PlayheadIsMinded
<1> QED
  BY <1>1, <1>2, <1>3 DEF PlaybackInv, P!NoReadSurvivesPause, P!At,
     P!ClosedOwnsNothing, HoldsFit, P!HeldDemandExpires, PlaybackBounds, P!Nobody, OwnersPlay

-----------------------------------------------------------------------------
\* A step of one reader that may take and leave its lock.
LEMMA ReaderStepInv ==
    ASSUME PlaybackInv, P!Nobody \notin Readers, NEW r \in Readers, PlaybackTypes', Elsewhere(r),
           pb_cancelled \subseteq pb_cancelled', pb_allowed' = pb_allowed,
           ReaderFits(r, pb_session'[r], pb_op'[r], pb_call'[r], pb_token'[r], pb_cancelled'),
           pb_owners' \subseteq pb_owners, pb_active' \in {pb_active, P!Nobody},
           pb_playing' \in {pb_playing, P!Nobody, r},
           pb_playing' = r /\ pb_playing # r => pb_session'[r].stage # "gone",
           pb_session'[r].stage = "gone" =>
                \/ pb_session[r].stage = "gone"
                \/ r \notin pb_owners' /\ pb_active' # r /\ pb_playing' # r,
           r \in pb_owners' => pb_session'[r].stage \in {"opening", "open"},
           ~pb_allowed /\ pb_op'[r].at = "wait"
                => pb_op[r].at = "wait" /\ pb_op'[r].call = pb_op[r].call,
           PlayheadIsMinded', HoldsFit'
    PROVE  PlaybackInv'
<1>1. ReadersFit'
  BY OneReader
<1>2. P!NoReadSurvivesPause'
  BY DEF PlaybackInv, P!NoReadSurvivesPause, P!At, Elsewhere
<1>3. P!ClosedOwnsNothing'
  <2> SUFFICES ASSUME NEW q \in Readers, pb_session'[q].stage = "gone"
               PROVE  q \notin pb_owners' /\ pb_active' # q /\ pb_playing' # q
    BY DEF P!ClosedOwnsNothing
  <2>1. pb_session[q].stage = "gone" => q \notin pb_owners /\ pb_active # q /\ pb_playing # q
    BY DEF PlaybackInv, P!ClosedOwnsNothing
  <2>2. q # P!Nobody
    OBVIOUS
  <2>3. CASE q = r
    BY <2>1, <2>2, <2>3
  <2>4. CASE q # r
    BY <2>1, <2>2, <2>4 DEF Elsewhere
  <2> QED
    BY <2>3, <2>4
<1>4. OwnersPlay'
  BY DEF PlaybackInv, OwnersPlay, Elsewhere
<1> QED
  BY <1>1, <1>2, <1>3, <1>4 DEF PlaybackInv

\* The playhead stays minded when the reader goes on playing.
LEMMA StillMinded ==
    ASSUME PlaybackInv, NEW r \in Readers, Elsewhere(r), pb_playhead' = pb_playhead,
           pb_session[r].stage \in {"opening", "open"} \/ pb_op[r].at \in {"unfocus", "clear"}
                => \/ pb_session'[r].stage \in {"opening", "open"}
                   \/ pb_op'[r].at \in {"unfocus", "clear"}
    PROVE  PlayheadIsMinded'
<1> SUFFICES ASSUME pb_playhead # P!Nobody
             PROVE  \E q \in Readers : \/ pb_session'[q].stage \in {"opening", "open"}
                                       \/ pb_op'[q].at \in {"unfocus", "clear"}
  BY DEF PlayheadIsMinded
<1>1. PICK q \in Readers : \/ pb_session[q].stage \in {"opening", "open"}
                           \/ pb_op[q].at \in {"unfocus", "clear"}
  BY DEF PlaybackInv, PlayheadIsMinded
<1>2. CASE q = r
  BY <1>1, <1>2
<1>3. CASE q # r
  BY <1>1, <1>3 DEF Elsewhere
<1> QED
  BY <1>2, <1>3

\* What the records of a reader are.
LEMMA ReaderIs ==
    ASSUME PlaybackInv, NEW r \in Readers
    PROVE  /\ pb_session \in [Readers -> SessionType] /\ pb_session[r] \in SessionType
           /\ pb_op \in [Readers -> OpType] /\ pb_op[r] \in OpType
           /\ pb_call \in [Readers -> CallType] /\ pb_call[r] \in CallType
           /\ pb_token \in [Readers -> Nat] /\ pb_token[r] \in Nat
           /\ pb_use \in Sessions
           /\ LockFits(pb_session[r], pb_op[r]) /\ TokenFits(pb_session[r], pb_call[r], pb_token[r])
           /\ ReadFits(r, pb_session[r], pb_op[r], pb_call[r], pb_token[r], pb_cancelled)
BY DEF PlaybackInv, PlaybackTypes, ReadersFit, ReaderFits

LEMMA IdleIs == P!Idle \in OpType /\ P!Idle.who = "none" /\ P!Idle.at = "none"
BY DEF P!Idle, OpType, Holding

LEMMA OpenStep ==
    ASSUME PlaybackBounds, PlaybackInv, NEW r \in Readers, NEW pos \in pb_use.at, P!Open(r, pos)
    PROVE  PlaybackInv'
<1>1. pos \in Int /\ P!Nobody \notin Readers
  BY ReaderIs DEF PlaybackBounds, P!Nobody
<1>2. PICK s : s = [pb_session[r] EXCEPT !.stage = "opening"]
  OBVIOUS
<1>3. /\ s \in SessionType /\ s.stage = "opening"
      /\ s.closed = pb_session[r].closed /\ s.gen = pb_session[r].gen /\ s.entering = pb_session[r].entering
  BY <1>2, ReaderIs DEF SessionType
<1>4. pb_session' = [pb_session EXCEPT ![r] = s] /\ pb_session[r].stage = "none"
  BY <1>2, ReaderIs DEF P!Open
<1>5. PICK o : o = [who |-> "open", at |-> "claim", pos |-> pos, then |-> "opened", call |-> 0]
  OBVIOUS
<1>6. o \in OpType /\ o.who = "open" /\ o.at = "claim" /\ o.then = "opened"
  BY <1>1, <1>5 DEF OpType, Holding
<1>7. pb_op' = [pb_op EXCEPT ![r] = o]
  BY <1>5 DEF P!Open, P!Lock
<1>8. UNCHANGED <<pb_call, pb_token, pb_cancelled, pb_owners, pb_active, pb_playing, pb_resume,
                  pb_timers, pb_playhead, pb_allowed, pb_use>>
  BY DEF P!Open, P!coordinator
<1>9. PlaybackTypes' /\ Elsewhere(r) /\ pb_session'[r] = s /\ pb_op'[r] = o
  BY <1>3, <1>4, <1>6, <1>7, <1>8, ReaderIs DEF PlaybackTypes, Elsewhere
<1>10. ReaderFits(r, s, o, pb_call'[r], pb_token'[r], pb_cancelled')
  <2>1. LockFits(s, o)
    BY <1>3, <1>6 DEF LockFits, Holding
  <2>2. TokenFits(s, pb_call'[r], pb_token'[r])
    BY <1>3, <1>4, <1>8, ReaderIs DEF TokenFits
  <2> QED
    BY <1>6, <2>1, <2>2 DEF ReaderFits, ReadFits
<1>11. PlayheadIsMinded'
  BY <1>3, <1>8, <1>9, StillMinded
<1>12. HoldsFit'
  BY <1>8 DEF PlaybackInv, HoldsFit, P!HeldDemandExpires
<1> QED
  BY <1>1, <1>3, <1>4, <1>6, <1>8, <1>9, <1>10, <1>11, <1>12, ReaderStepInv

\* The coordinator, the holds and the other records stay.
Beside == UNCHANGED <<pb_owners, pb_active, pb_playing, pb_resume, pb_timers, pb_playhead,
                      pb_allowed, pb_use>>

LEMMA OpenedStep ==
    ASSUME PlaybackBounds, PlaybackInv, NEW r \in Readers, P!Opened(r)
    PROVE  PlaybackInv'
<1>1. P!Nobody \notin Readers
  BY DEF PlaybackBounds, P!Nobody
<1>2. PICK s : s = [pb_session[r] EXCEPT !.stage = "open"]
  OBVIOUS
<1>3. /\ s \in SessionType /\ s.stage = "open"
      /\ s.closed = pb_session[r].closed /\ s.gen = pb_session[r].gen /\ s.entering = pb_session[r].entering
  BY <1>2, ReaderIs DEF SessionType
<1>4. pb_session' = [pb_session EXCEPT ![r] = s]
  BY <1>2, ReaderIs DEF P!Opened
<1>5. PICK o : o = P!Idle
  OBVIOUS
<1>6. o \in OpType /\ o.who = "none" /\ o.at = "none"
  BY <1>5, IdleIs
<1>7. pb_op' = [pb_op EXCEPT ![r] = o] /\ pb_op[r].at = "opened"
  BY <1>5 DEF P!Opened, P!At
<1>8. UNCHANGED <<pb_call, pb_token, pb_cancelled>> /\ Beside
  BY DEF P!Opened, P!coordinator, Beside
<1>9. PlaybackTypes' /\ Elsewhere(r) /\ pb_session'[r] = s /\ pb_op'[r] = o
  BY <1>3, <1>4, <1>6, <1>7, <1>8, ReaderIs DEF PlaybackTypes, Elsewhere, Beside
<1>10. ReaderFits(r, s, o, pb_call'[r], pb_token'[r], pb_cancelled')
  <2>1. LockFits(s, o)
    BY <1>3, <1>6 DEF LockFits
  <2>2. TokenFits(s, pb_call'[r], pb_token'[r])
    BY <1>3, <1>8, ReaderIs DEF TokenFits
  <2> QED
    BY <1>6, <2>1, <2>2 DEF ReaderFits, ReadFits
<1>11. PlayheadIsMinded'
  BY <1>3, <1>8, <1>9, StillMinded DEF Beside
<1>12. HoldsFit'
  BY <1>8 DEF PlaybackInv, HoldsFit, P!HeldDemandExpires, Beside
<1> QED
  BY <1>1, <1>3, <1>6, <1>8, <1>9, <1>10, <1>11, <1>12, ReaderStepInv DEF Beside

\* A step of the lock alone, by somebody who is no read.
LEMMA LockAlone ==
    ASSUME PlaybackBounds, PlaybackInv, NEW r \in Readers, NEW o \in OpType,
           pb_op' = [pb_op EXCEPT ![r] = o], o.who # "read", o.at # "wait",
           LockFits(pb_session[r], o),
           UNCHANGED <<pb_session, pb_call, pb_token, pb_cancelled, pb_owners, pb_active, pb_playing,
                       pb_allowed, pb_use>>,
           PlayheadIsMinded', HoldsFit'
    PROVE  PlaybackInv'
<1>1. P!Nobody \notin Readers
  BY DEF PlaybackBounds, P!Nobody
<1>2. PlaybackTypes' /\ Elsewhere(r) /\ pb_op'[r] = o
  BY ReaderIs DEF PlaybackTypes, Elsewhere
<1>3. ReaderFits(r, pb_session'[r], o, pb_call'[r], pb_token'[r], pb_cancelled')
  BY ReaderIs DEF ReaderFits, ReadFits
<1>4. r \in pb_owners' => pb_session'[r].stage \in {"opening", "open"}
  BY DEF PlaybackInv, OwnersPlay
<1> QED
  BY <1>1, <1>2, <1>3, <1>4, ReaderStepInv

LEMMA RefreshStep ==
    ASSUME PlaybackBounds, PlaybackInv, NEW r \in Readers, P!Refresh(r)
    PROVE  PlaybackInv'
<1>1. PICK o : o = [who |-> "refresh", at |-> "claim", pos |-> pb_session[r].pos,
                    then |-> "refreshed", call |-> 0]
  OBVIOUS
<1>2. pb_session[r].pos \in Int /\ pb_session[r].stage = "open"
  BY ReaderIs DEF SessionType, P!Refresh, P!OpenReaders
<1>3. o \in OpType /\ o.who = "refresh" /\ o.at = "claim" /\ o.then = "refreshed"
  BY <1>1, <1>2 DEF OpType, Holding
<1>4. pb_op' = [pb_op EXCEPT ![r] = o]
  BY <1>1 DEF P!Refresh, P!Lock
<1>5. UNCHANGED <<pb_session, pb_call, pb_token, pb_cancelled>> /\ Beside
  BY DEF P!Refresh, P!coordinator, Beside
<1>6. LockFits(pb_session[r], o)
  BY <1>2, <1>3 DEF LockFits, Holding
<1>7. Elsewhere(r)
  BY <1>4, <1>5, ReaderIs DEF Elsewhere
<1>8. PlayheadIsMinded' /\ HoldsFit'
  BY <1>2, <1>5, <1>7, StillMinded DEF Beside, PlaybackInv, HoldsFit, P!HeldDemandExpires
<1> QED
  BY <1>3, <1>4, <1>5, <1>6, <1>8, LockAlone DEF Beside

LEMMA RefreshedStep ==
    ASSUME PlaybackBounds, PlaybackInv, NEW r \in Readers, P!Refreshed(r)
    PROVE  PlaybackInv'
<1>1. PICK o : o = P!Idle
  OBVIOUS
<1>2. o \in OpType /\ o.who = "none" /\ o.at = "none"
  BY <1>1, IdleIs
<1>3. pb_op' = [pb_op EXCEPT ![r] = o] /\ pb_op[r].at = "refreshed"
  BY <1>1 DEF P!Refreshed, P!At
<1>4. UNCHANGED <<pb_session, pb_call, pb_token, pb_cancelled>> /\ Beside
  BY DEF P!Refreshed, P!coordinator, Beside
<1>5. LockFits(pb_session[r], o)
  BY <1>2 DEF LockFits
<1>6. Elsewhere(r)
  BY <1>3, <1>4, ReaderIs DEF Elsewhere
<1>7. PlayheadIsMinded' /\ HoldsFit'
  BY <1>3, <1>4, <1>6, StillMinded DEF Beside, PlaybackInv, HoldsFit, P!HeldDemandExpires
<1> QED
  BY <1>2, <1>3, <1>4, <1>5, <1>7, LockAlone DEF Beside

\* Closing looks whether anybody still plays: an owner does.
LEMMA UnfocusStep ==
    ASSUME PlaybackBounds, PlaybackInv, NEW r \in Readers, P!Unfocus(r)
    PROVE  PlaybackInv'
<1>1. PICK a : a = IF pb_owners = {} THEN "clear" ELSE "report"
  OBVIOUS
<1>2. PICK o : o = [pb_op[r] EXCEPT !.at = a]
  OBVIOUS
<1>3. a \in {"clear", "report"} /\ pb_op[r].at = "unfocus" /\ pb_session[r].stage = "gone"
  BY <1>1, HolderIs DEF P!Unfocus, P!At
<1>4. pb_op[r].who = "close"
  BY <1>3, ReaderIs DEF LockFits, OpType, Holding
<1>5. o \in OpType /\ o.who = "close" /\ o.at = a
  BY <1>2, <1>3, <1>4, ReaderIs DEF OpType
<1>6. pb_op' = [pb_op EXCEPT ![r] = o]
  BY <1>1, <1>2, ReaderIs DEF P!Unfocus, P!Step
<1>7. UNCHANGED <<pb_session, pb_call, pb_token, pb_cancelled>> /\ Beside
  BY DEF P!Unfocus, P!coordinator, Beside
<1>8. LockFits(pb_session[r], o)
  BY <1>3, <1>5 DEF LockFits
<1>9. Elsewhere(r) /\ pb_op'[r] = o
  BY <1>6, <1>7, ReaderIs DEF Elsewhere
<1>10. PlayheadIsMinded'
  <2>1. CASE pb_owners = {}
    BY <2>1, <1>1, <1>5, <1>9 DEF PlayheadIsMinded
  <2>2. CASE pb_owners # {}
    <3>1. PICK q \in pb_owners : q \in Readers /\ pb_session[q].stage \in {"opening", "open"}
      BY <2>2 DEF PlaybackInv, OwnersPlay
    <3> QED
      BY <3>1, <1>7 DEF PlayheadIsMinded
  <2> QED
    BY <2>1, <2>2
<1>11. HoldsFit'
  BY <1>7 DEF Beside, PlaybackInv, HoldsFit, P!HeldDemandExpires
<1> QED
  BY <1>3, <1>5, <1>6, <1>7, <1>8, <1>10, <1>11, LockAlone DEF Beside

LEMMA ClearFocusStep ==
    ASSUME PlaybackBounds, PlaybackInv, NEW r \in Readers, P!ClearFocus(r)
    PROVE  PlaybackInv'
<1>1. PICK o : o = [pb_op[r] EXCEPT !.at = "report"]
  OBVIOUS
<1>2. pb_op[r].at = "clear" /\ pb_session[r].stage = "gone"
  BY HolderIs DEF P!ClearFocus, P!At
<1>3. pb_op[r].who = "close"
  BY <1>2, ReaderIs DEF LockFits, OpType, Holding
<1>4. o \in OpType /\ o.who = "close" /\ o.at = "report"
  BY <1>1, <1>3, ReaderIs DEF OpType
<1>5. pb_op' = [pb_op EXCEPT ![r] = o]
  BY <1>1, ReaderIs DEF P!ClearFocus, P!Step
<1>6. UNCHANGED <<pb_session, pb_call, pb_token, pb_cancelled, pb_owners, pb_active, pb_playing,
                  pb_resume, pb_timers, pb_allowed, pb_use>>
  BY DEF P!ClearFocus, P!coordinator
<1>7. LockFits(pb_session[r], o)
  BY <1>2, <1>4 DEF LockFits
<1>8. PlayheadIsMinded' /\ HoldsFit'
  BY <1>6 DEF P!ClearFocus, PlayheadIsMinded, PlaybackInv, HoldsFit, P!HeldDemandExpires
<1> QED
  BY <1>4, <1>5, <1>6, <1>7, <1>8, LockAlone

LEMMA ReportStep ==
    ASSUME PlaybackBounds, PlaybackInv, NEW r \in Readers, P!Report(r)
    PROVE  PlaybackInv'
<1>1. PICK o : o = P!Idle
  OBVIOUS
<1>2. o \in OpType /\ o.who = "none" /\ o.at = "none"
  BY <1>1, IdleIs
<1>3. pb_op' = [pb_op EXCEPT ![r] = o] /\ pb_op[r].at = "report"
  BY <1>1 DEF P!Report, P!At
<1>4. UNCHANGED <<pb_session, pb_call, pb_token, pb_cancelled, pb_owners, pb_active, pb_playing,
                  pb_playhead, pb_allowed, pb_use>>
  BY DEF P!Report
<1>5. LockFits(pb_session[r], o) /\ pb_session[r].stage = "gone"
  BY <1>2, <1>3, HolderIs DEF LockFits
<1>6. Elsewhere(r)
  BY <1>3, <1>4, ReaderIs DEF Elsewhere
<1>7. PlayheadIsMinded'
  BY <1>3, <1>4, <1>5, <1>6, StillMinded
<1>8. HoldsFit'
  <2>1. CASE UNCHANGED <<pb_resume, pb_timers>>
    BY <2>1 DEF PlaybackInv, HoldsFit, P!HeldDemandExpires
  <2>2. CASE pb_resume' = [pb_resume EXCEPT !.held = TRUE, !.gen = @ + 1]
             /\ pb_timers' = pb_timers \cup {pb_resume.gen + 1}
    <3>1. pb_resume \in HoldType /\ pb_resume.gen + 1 \in Nat
      BY DEF PlaybackInv, HoldsFit, HoldType
    <3>2. pb_resume' \in HoldType /\ pb_resume'.gen = pb_resume.gen + 1
      BY <2>2, <3>1 DEF HoldType
    <3> QED
      BY <2>2, <3>2 DEF HoldsFit, P!HeldDemandExpires
  <2> QED
    BY <2>1, <2>2 DEF P!Report
<1> QED
  BY <1>2, <1>3, <1>4, <1>5, <1>7, <1>8, LockAlone

\* A read that registers cancels the one before it.
LEMMA RegisterStep ==
    ASSUME PlaybackBounds, PlaybackInv, NEW r \in Readers, P!Register(r)
    PROVE  PlaybackInv'
<1>1. PICK g : g = pb_session[r].gen + 1
  OBVIOUS
<1>2. g \in Nat /\ pb_session[r].gen \in Nat /\ g > pb_session[r].gen /\ P!Nobody \notin Readers
  BY <1>1, ReaderIs DEF SessionType, PlaybackBounds, P!Nobody
<1>3. PICK s : s = [pb_session[r] EXCEPT !.entering = FALSE, !.gen = g, !.parked = FALSE, !.idle = FALSE]
  OBVIOUS
<1>4. s \in SessionType /\ s.stage = pb_session[r].stage /\ s.closed = pb_session[r].closed /\ s.gen = g
  BY <1>2, <1>3, ReaderIs DEF SessionType
<1>5. PICK c : c = [pb_call[r] EXCEPT ![g] = "queued"]
  OBVIOUS
<1>6. /\ c \in CallType
      /\ \A x \in P!Gens : c[x] = IF x = g THEN "queued" ELSE pb_call[r][x]
  BY <1>5, ReaderIs DEF CallType
<1>7. /\ pb_session' = [pb_session EXCEPT ![r] = s] /\ pb_call' = [pb_call EXCEPT ![r] = c]
      /\ pb_token' = [pb_token EXCEPT ![r] = g]
      /\ pb_cancelled \subseteq pb_cancelled'
      /\ pb_token[r] # 0 => <<r, pb_token[r]>> \in pb_cancelled'
  BY <1>1, <1>3, <1>5, ReaderIs DEF P!Register
<1>8. UNCHANGED pb_op /\ Beside
  BY DEF P!Register, P!coordinator, Beside
<1>9. PlaybackTypes' /\ Elsewhere(r) /\ pb_session'[r] = s /\ pb_call'[r] = c /\ pb_token'[r] = g
  BY <1>2, <1>4, <1>6, <1>7, <1>8, ReaderIs DEF PlaybackTypes, Elsewhere, Beside
<1>10. LockFits(s, pb_op[r])
  BY <1>4, ReaderIs DEF LockFits
<1>11. TokenFits(s, c, g)
  <2>1. pb_session[r].entering
    BY DEF P!Register
  <2> QED
    BY <2>1, <1>2, <1>4, <1>6, ReaderIs DEF TokenFits, P!Gens, PlaybackBounds
<1>12. ReadFits(r, s, pb_op[r], c, g, pb_cancelled')
  <2> SUFFICES ASSUME pb_op[r].who = "read"
               PROVE  /\ pb_op[r].call \in P!Gens /\ c[pb_op[r].call] = "running"
                      /\ <<r, pb_op[r].call>> \in pb_cancelled'
                      /\ \A x \in P!Gens : x > pb_op[r].call => c[x] \notin {"running", "ended"}
    BY DEF ReadFits
  <2>1. /\ pb_op[r].call \in P!Gens /\ pb_call[r][pb_op[r].call] = "running"
        /\ (~pb_session[r].closed /\ pb_op[r].call = pb_token[r]) \/ <<r, pb_op[r].call>> \in pb_cancelled
        /\ \A x \in P!Gens : x > pb_op[r].call => pb_call[r][x] \notin {"running", "ended"}
    BY ReaderIs DEF ReadFits
  <2>2. g \notin P!Gens \/ pb_call[r][g] = "none"
    BY <1>2, <2>1, ReaderIs DEF TokenFits, P!Gens
  <2>3. pb_op[r].call # g
    BY <2>1, <2>2
  <2>4. pb_op[r].call # 0
    BY <2>1 DEF P!Gens, PlaybackBounds
  <2> QED
    BY <2>1, <2>3, <2>4, <1>6, <1>7
<1>13. PlayheadIsMinded' /\ HoldsFit'
  BY <1>4, <1>8, <1>9, StillMinded DEF Beside, PlaybackInv, HoldsFit, P!HeldDemandExpires
<1>14. r \in pb_owners' => pb_session'[r].stage \in {"opening", "open"}
  BY <1>4, <1>8, <1>9 DEF Beside, PlaybackInv, OwnersPlay
<1>15. ReaderFits(r, pb_session'[r], pb_op'[r], pb_call'[r], pb_token'[r], pb_cancelled')
  BY <1>8, <1>9, <1>10, <1>11, <1>12 DEF ReaderFits
<1> QED
  BY <1>2, <1>4, <1>7, <1>8, <1>9, <1>13, <1>14, <1>15, ReaderStepInv DEF Beside

\* Steps of one reader's calls and lock that leave its session and token alone.
LEMMA CallStep ==
    ASSUME PlaybackBounds, PlaybackInv, NEW r \in Readers, NEW o \in OpType, NEW c \in CallType,
           pb_op' = [pb_op EXCEPT ![r] = o], pb_call' = [pb_call EXCEPT ![r] = c],
           LockFits(pb_session[r], o), \A g \in P!Gens : g > pb_session[r].gen => c[g] = "none",
           ReadFits(r, pb_session[r], o, c, pb_token[r], pb_cancelled),
           pb_session[r].stage = "open" \/ (o = pb_op[r] /\ pb_playing' = pb_playing),
           o.at = "wait" => pb_allowed \/ (pb_op[r].at = "wait" /\ o.call = pb_op[r].call),
           UNCHANGED <<pb_session, pb_token, pb_cancelled, pb_owners, pb_active, pb_playhead,
                       pb_timers, pb_allowed, pb_use>>,
           pb_playing' \in {pb_playing, r}, HoldsFit'
    PROVE  PlaybackInv'
<1>1. P!Nobody \notin Readers
  BY DEF PlaybackBounds, P!Nobody
<1>2. PlaybackTypes' /\ Elsewhere(r) /\ pb_op'[r] = o /\ pb_call'[r] = c
  BY ReaderIs DEF PlaybackTypes, Elsewhere
<1>3. TokenFits(pb_session[r], c, pb_token[r])
  BY ReaderIs DEF TokenFits
<1>4. ReaderFits(r, pb_session'[r], pb_op'[r], pb_call'[r], pb_token'[r], pb_cancelled')
  BY <1>2, <1>3 DEF ReaderFits
<1>5. PlayheadIsMinded'
  BY <1>2, StillMinded
<1>6. r \in pb_owners' => pb_session'[r].stage \in {"opening", "open"}
  BY DEF PlaybackInv, OwnersPlay
<1> QED
  BY <1>1, <1>2, <1>4, <1>5, <1>6, ReaderStepInv

\* Only a read that was registered is queued, and only an open session reads.
LEMMA QueuedIs ==
    ASSUME PlaybackInv, NEW r \in Readers, NEW g \in P!Gens, pb_call[r][g] # "none", PlaybackBounds
    PROVE  ~(g > pb_session[r].gen)
BY ReaderIs DEF TokenFits

LEMMA StageIs ==
    ASSUME PlaybackInv, NEW r \in Readers, pb_op[r].at \in {"admit", "wait", "return"}
    PROVE  /\ pb_op[r].who = "read" /\ pb_session[r].stage = "open"
           /\ pb_op[r].call \in P!Gens /\ pb_call[r][pb_op[r].call] = "running"
BY ReaderIs DEF LockFits, OpType, Holding, ReadFits

\* A read ends and lets go of the lock.
LEMMA EndStep ==
    ASSUME PlaybackBounds, PlaybackInv, NEW r \in Readers,
           pb_op[r].at \in {"admit", "wait", "return"}, P!End(r),
           UNCHANGED <<pb_session, pb_token, pb_cancelled, pb_owners, pb_active, pb_playhead,
                       pb_timers, pb_allowed, pb_use>>,
           pb_playing' \in {pb_playing, r}, HoldsFit'
    PROVE  PlaybackInv'
<1>1. /\ pb_op[r].who = "read" /\ pb_session[r].stage = "open"
      /\ pb_op[r].call \in P!Gens /\ pb_call[r][pb_op[r].call] = "running"
  BY StageIs
<1>2. PICK k : k = pb_op[r].call
  OBVIOUS
<1>3. k \in P!Gens /\ ~(k > pb_session[r].gen)
  BY <1>1, <1>2, QueuedIs
<1>4. PICK c : c = [pb_call[r] EXCEPT ![k] = "ended"]
  OBVIOUS
<1>5. c \in CallType /\ \A x \in P!Gens : c[x] = IF x = k THEN "ended" ELSE pb_call[r][x]
  BY <1>4, ReaderIs DEF CallType
<1>6. PICK o : o = P!Idle
  OBVIOUS
<1>7. o \in OpType /\ o.who = "none" /\ o.at = "none"
  BY <1>6, IdleIs
<1>8. pb_op' = [pb_op EXCEPT ![r] = o] /\ pb_call' = [pb_call EXCEPT ![r] = c]
  BY <1>2, <1>4, <1>6, ReaderIs DEF P!End
<1>9. LockFits(pb_session[r], o) /\ ReadFits(r, pb_session[r], o, c, pb_token[r], pb_cancelled)
  BY <1>7 DEF LockFits, ReadFits
<1>10. \A x \in P!Gens : x > pb_session[r].gen => c[x] = "none"
  BY <1>3, <1>5, ReaderIs DEF TokenFits
<1> QED
  BY <1>1, <1>5, <1>7, <1>8, <1>9, <1>10, CallStep

LEMMA GiveUpStep ==
    ASSUME PlaybackBounds, PlaybackInv, NEW r \in Readers, NEW g \in P!Gens, P!GiveUp(r, g)
    PROVE  PlaybackInv'
<1>1. pb_op[r].who = "none" /\ pb_call[r][g] = "queued" /\ ~(g > pb_session[r].gen)
  BY QueuedIs DEF P!GiveUp, P!Unlocked
<1>2. PICK c : c = [pb_call[r] EXCEPT ![g] = "ended"]
  OBVIOUS
<1>3. c \in CallType /\ \A x \in P!Gens : c[x] = IF x = g THEN "ended" ELSE pb_call[r][x]
  BY <1>2, ReaderIs DEF CallType
<1>4. pb_op' = [pb_op EXCEPT ![r] = pb_op[r]] /\ pb_call' = [pb_call EXCEPT ![r] = c]
  BY <1>2, ReaderIs DEF P!GiveUp
<1>5. /\ ReadFits(r, pb_session[r], pb_op[r], c, pb_token[r], pb_cancelled)
      /\ LockFits(pb_session[r], pb_op[r]) /\ pb_op[r].at = "none"
  BY <1>1, ReaderIs DEF ReadFits, LockFits
<1>6. \A x \in P!Gens : x > pb_session[r].gen => c[x] = "none"
  BY <1>1, <1>3, ReaderIs DEF TokenFits
<1>7. /\ UNCHANGED <<pb_session, pb_token, pb_cancelled, pb_owners, pb_active, pb_playhead,
                      pb_timers, pb_allowed, pb_use, pb_playing>>
      /\ HoldsFit'
  BY DEF P!GiveUp, P!coordinator, PlaybackInv, HoldsFit, P!HeldDemandExpires
<1> QED
  BY <1>3, <1>4, <1>5, <1>6, <1>7, CallStep, ReaderIs

\* A queued read belongs to a session that has been opened.
LEMMA ReadStep ==
    ASSUME PlaybackBounds, PlaybackInv, NEW r \in Readers, NEW g \in P!Gens, NEW pos \in pb_use.at,
           P!Read(r, g, pos)
    PROVE  PlaybackInv'
<1>1. /\ pb_op[r].who = "none" /\ pb_call[r][g] = "queued" /\ ~pb_session[r].closed
      /\ g = pb_session[r].gen /\ pos \in Int /\ g \in Int
  BY ReaderIs DEF P!Read, P!Unlocked, P!Superseded, PlaybackBounds, P!Gens
<1>2. PICK c : c = [pb_call[r] EXCEPT ![g] = "running"]
  OBVIOUS
<1>3. c \in CallType /\ \A x \in P!Gens : c[x] = IF x = g THEN "running" ELSE pb_call[r][x]
  BY <1>2, ReaderIs DEF CallType
<1>4. PICK o : o = [who |-> "read", at |-> "claim", pos |-> pos, then |-> "admit", call |-> g]
  OBVIOUS
<1>5. o \in OpType /\ o.who = "read" /\ o.at = "claim" /\ o.then = "admit" /\ o.call = g
  BY <1>1, <1>4 DEF OpType, Holding
<1>6. pb_op' = [pb_op EXCEPT ![r] = o] /\ pb_call' = [pb_call EXCEPT ![r] = c]
  BY <1>2, <1>4, ReaderIs DEF P!Read, P!Lock
<1>7. pb_session[r].stage = "open"
  BY <1>1, ReaderIs DEF TokenFits, SessionType, P!Gens, PlaybackBounds
<1>8. LockFits(pb_session[r], o)
  BY <1>5, <1>7 DEF LockFits, Holding
<1>9. \A x \in P!Gens : x > g => c[x] = "none"
  BY <1>1, <1>3, ReaderIs DEF TokenFits, P!Gens
<1>10. ReadFits(r, pb_session[r], o, c, pb_token[r], pb_cancelled)
  BY <1>1, <1>3, <1>5, <1>9, ReaderIs DEF ReadFits, TokenFits
<1>11. /\ UNCHANGED <<pb_session, pb_token, pb_cancelled, pb_owners, pb_active, pb_playhead,
                       pb_timers, pb_allowed, pb_use, pb_playing>>
       /\ HoldsFit'
  BY DEF P!Read, P!coordinator, PlaybackInv, HoldsFit, P!HeldDemandExpires
<1> QED
  BY <1>1, <1>3, <1>5, <1>6, <1>7, <1>8, <1>9, <1>10, <1>11, CallStep

\* Under the lock a read moves from one place to the next.
LEMMA ReadMoves ==
    ASSUME PlaybackBounds, PlaybackInv, NEW r \in Readers, NEW o \in OpType,
           pb_op[r].at \in {"admit", "wait"}, pb_op' = [pb_op EXCEPT ![r] = o],
           o.who = "read", o.call = pb_op[r].call, o.then \in {"admit", "return"},
           (o.at = "wait" /\ pb_allowed) \/ o.at = "claim",
           UNCHANGED <<pb_session, pb_call, pb_token, pb_cancelled>>, Beside
    PROVE  PlaybackInv'
<1>1. pb_op[r].who = "read" /\ pb_session[r].stage = "open"
  BY StageIs
<1>2. LockFits(pb_session[r], o)
  BY <1>1 DEF LockFits, Holding
<1>3. ReadFits(r, pb_session[r], o, pb_call[r], pb_token[r], pb_cancelled)
  BY <1>1, ReaderIs DEF ReadFits
<1>4. \A g \in P!Gens : g > pb_session[r].gen => pb_call[r][g] = "none"
  BY ReaderIs DEF TokenFits
<1>5. pb_call' = [pb_call EXCEPT ![r] = pb_call[r]] /\ pb_call[r] \in CallType
  BY ReaderIs
<1>6. HoldsFit'
  BY DEF PlaybackInv, HoldsFit, P!HeldDemandExpires, Beside
<1> QED
  BY <1>1, <1>2, <1>3, <1>4, <1>5, <1>6, CallStep DEF Beside

LEMMA AdmitStep ==
    ASSUME PlaybackBounds, PlaybackInv, NEW r \in Readers, P!Admit(r)
    PROVE  PlaybackInv'
<1>1. /\ pb_op[r].at = "admit" /\ UNCHANGED <<pb_session, pb_token, pb_cancelled>>
      /\ Beside
  BY DEF P!Admit, P!At, Beside, P!coordinator
<1>2. CASE pb_allowed
  <2>1. PICK o : o = [pb_op[r] EXCEPT !.at = "wait"]
    OBVIOUS
  <2>2. pb_op[r].who = "read" /\ pb_op[r].then \in {"admit", "return"}
    BY <1>1, ReaderIs, StageIs DEF LockFits
  <2>3. /\ o \in OpType /\ o.who = "read" /\ o.at = "wait" /\ o.call = pb_op[r].call
        /\ o.then = pb_op[r].then
    BY <2>1, <2>2, ReaderIs DEF OpType
  <2>4. pb_op' = [pb_op EXCEPT ![r] = o] /\ pb_call' = pb_call
    BY <1>2, <2>1, ReaderIs DEF P!Admit, P!Step
  <2> QED
    BY <1>1, <1>2, <2>2, <2>3, <2>4, ReadMoves
<1>3. CASE ~pb_allowed
  <2>1. P!End(r)
    BY <1>3 DEF P!Admit
  <2>2. HoldsFit'
    BY <1>1 DEF PlaybackInv, HoldsFit, P!HeldDemandExpires, Beside
  <2> QED
    BY <1>1, <2>1, <2>2, EndStep DEF Beside
<1> QED
  BY <1>2, <1>3

LEMMA DeliverStep ==
    ASSUME PlaybackBounds, PlaybackInv, NEW r \in Readers, P!Deliver(r)
    PROVE  PlaybackInv'
<1>1. /\ pb_op[r].at = "wait" /\ UNCHANGED <<pb_session, pb_call, pb_token, pb_cancelled>>
      /\ Beside
  BY DEF P!Deliver, P!At, Beside, P!coordinator
<1>2. PICK o : o = [pb_op[r] EXCEPT !.at = "claim", !.then = "return"]
  OBVIOUS
<1>3. pb_op[r].who = "read"
  BY <1>1, StageIs
<1>4. /\ o \in OpType /\ o.who = "read" /\ o.at = "claim" /\ o.call = pb_op[r].call
      /\ o.then = "return"
  BY <1>2, <1>3, ReaderIs DEF OpType, Holding
<1>5. pb_op' = [pb_op EXCEPT ![r] = o]
  BY <1>2, ReaderIs DEF P!Deliver
<1> QED
  BY <1>1, <1>4, <1>5, ReadMoves

LEMMA ReturnStep ==
    ASSUME PlaybackBounds, PlaybackInv, NEW r \in Readers, P!Return(r)
    PROVE  PlaybackInv'
<1>1. /\ pb_op[r].at = "return" /\ P!End(r) /\ pb_playing' \in {pb_playing, r}
      /\ UNCHANGED <<pb_session, pb_token, pb_cancelled, pb_owners, pb_active, pb_playhead,
                     pb_timers, pb_allowed, pb_use>>
  BY DEF P!Return, P!At
<1>2. pb_resume' = pb_resume \/ pb_resume' = [pb_resume EXCEPT !.pos = pb_op[r].pos]
  BY DEF P!Return
<1>3. pb_resume \in HoldType /\ pb_op[r].pos \in Int
  BY ReaderIs DEF PlaybackInv, HoldsFit, OpType
<1>4. pb_resume' \in HoldType /\ pb_resume'.held = pb_resume.held /\ pb_resume'.gen = pb_resume.gen
  BY <1>2, <1>3 DEF HoldType
<1>5. HoldsFit'
  BY <1>1, <1>4 DEF PlaybackInv, HoldsFit, P!HeldDemandExpires
<1> QED
  BY <1>1, <1>5, EndStep

LEMMA InterruptStep ==
    ASSUME PlaybackBounds, PlaybackInv, NEW r \in Readers, P!Interrupt(r) \/ P!TimeOut(r)
    PROVE  PlaybackInv'
<1>1. /\ pb_op[r].at = "wait" /\ P!End(r) /\ UNCHANGED <<pb_session, pb_token, pb_cancelled>>
      /\ Beside
  BY DEF P!Interrupt, P!TimeOut, P!At, Beside, P!coordinator
<1>2. HoldsFit'
  BY <1>1 DEF PlaybackInv, HoldsFit, P!HeldDemandExpires, Beside
<1> QED
  BY <1>1, <1>2, EndStep DEF Beside

\* Closing cancels the read that is under way and takes a generation.
LEMMA CloseStep ==
    ASSUME PlaybackBounds, PlaybackInv, NEW r \in Readers, P!Close(r)
    PROVE  PlaybackInv'
<1>1. /\ pb_session[r].stage = "open" /\ ~pb_session[r].closed /\ UNCHANGED <<pb_call, pb_op>>
      /\ Beside
  BY DEF P!Close, Beside, P!coordinator
<1>2. pb_session[r].gen \in Nat /\ pb_session[r].gen + 1 \in Nat /\ P!Nobody \notin Readers
  BY ReaderIs DEF SessionType, PlaybackBounds, P!Nobody
<1>3. PICK s : s = [pb_session[r] EXCEPT !.closed = TRUE, !.gen = pb_session[r].gen + 1]
  OBVIOUS
<1>4. s \in SessionType /\ s.stage = "open" /\ s.closed /\ s.gen = pb_session[r].gen + 1
  BY <1>1, <1>2, <1>3, ReaderIs DEF SessionType
<1>5. /\ pb_session' = [pb_session EXCEPT ![r] = s] /\ pb_token' = [pb_token EXCEPT ![r] = 0]
      /\ pb_cancelled \subseteq pb_cancelled'
      /\ pb_token[r] # 0 => <<r, pb_token[r]>> \in pb_cancelled'
  BY <1>3, ReaderIs DEF P!Close
<1>6. PlaybackTypes' /\ Elsewhere(r) /\ pb_session'[r] = s /\ pb_token'[r] = 0
  BY <1>1, <1>4, <1>5, ReaderIs DEF PlaybackTypes, Elsewhere, Beside
<1>7. LockFits(s, pb_op[r])
  BY <1>1, <1>4, ReaderIs DEF LockFits
<1>8. TokenFits(s, pb_call[r], 0)
  <2>1. \A g \in P!Gens : g > s.gen => g > pb_session[r].gen
    BY <1>2, <1>4 DEF P!Gens, PlaybackBounds
  <2> QED
    BY <2>1, <1>4, ReaderIs DEF TokenFits
<1>9. ReadFits(r, s, pb_op[r], pb_call[r], 0, pb_cancelled')
  <2> SUFFICES ASSUME pb_op[r].who = "read"
               PROVE  /\ pb_op[r].call \in P!Gens /\ pb_call[r][pb_op[r].call] = "running"
                      /\ <<r, pb_op[r].call>> \in pb_cancelled'
                      /\ \A g \in P!Gens : g > pb_op[r].call => pb_call[r][g] \notin {"running", "ended"}
    BY DEF ReadFits
  <2>1. /\ pb_op[r].call \in P!Gens /\ pb_call[r][pb_op[r].call] = "running"
        /\ pb_op[r].call = pb_token[r] \/ <<r, pb_op[r].call>> \in pb_cancelled
        /\ \A g \in P!Gens : g > pb_op[r].call => pb_call[r][g] \notin {"running", "ended"}
    BY ReaderIs DEF ReadFits
  <2>2. pb_op[r].call # 0
    BY <2>1 DEF P!Gens, PlaybackBounds
  <2> QED
    BY <2>1, <2>2, <1>5
<1>10. ReaderFits(r, pb_session'[r], pb_op'[r], pb_call'[r], pb_token'[r], pb_cancelled')
  BY <1>1, <1>6, <1>7, <1>8, <1>9 DEF ReaderFits
<1>11. PlayheadIsMinded' /\ HoldsFit'
  BY <1>1, <1>4, <1>6, StillMinded DEF Beside, PlaybackInv, HoldsFit, P!HeldDemandExpires
<1> QED
  BY <1>1, <1>2, <1>4, <1>5, <1>6, <1>10, <1>11, ReaderStepInv DEF Beside

\* The session ends under its lock, and takes its marks with it.
LEMMA CloseSessionStep ==
    ASSUME PlaybackBounds, PlaybackInv, NEW r \in Readers, P!CloseSession(r)
    PROVE  PlaybackInv'
<1>1. /\ pb_session[r].stage = "open" /\ pb_session[r].closed /\ pb_op[r].who = "none"
      /\ UNCHANGED <<pb_call, pb_token, pb_cancelled, pb_resume, pb_timers, pb_playhead, pb_allowed, pb_use>>
  BY DEF P!CloseSession, P!Unlocked
<1>2. P!Nobody \notin Readers
  BY DEF PlaybackBounds, P!Nobody
<1>3. /\ pb_owners' = pb_owners \ {r} /\ pb_active' \in {pb_active, P!Nobody} /\ pb_active' # r
      /\ pb_playing' \in {pb_playing, P!Nobody} /\ pb_playing' # r
  BY <1>2 DEF P!CloseSession, P!Drop
<1>4. PICK s : s = [pb_session[r] EXCEPT !.stage = "gone"]
  OBVIOUS
<1>5. s \in SessionType /\ s.stage = "gone" /\ s.closed /\ s.gen = pb_session[r].gen
  BY <1>1, <1>4, ReaderIs DEF SessionType
<1>6. PICK o : o = [who |-> "close", at |-> "unfocus", pos |-> 0, then |-> "none", call |-> 0]
  OBVIOUS
<1>7. o \in OpType /\ o.who = "close" /\ o.at = "unfocus"
  BY <1>6 DEF OpType, Holding
<1>8. pb_session' = [pb_session EXCEPT ![r] = s] /\ pb_op' = [pb_op EXCEPT ![r] = o]
  BY <1>4, <1>6, ReaderIs DEF P!CloseSession, P!Lock
<1>9. PlaybackTypes' /\ Elsewhere(r) /\ pb_session'[r] = s /\ pb_op'[r] = o
  BY <1>1, <1>5, <1>7, <1>8, ReaderIs DEF PlaybackTypes, Elsewhere
<1>10. LockFits(s, o) /\ TokenFits(s, pb_call[r], pb_token[r])
  BY <1>5, <1>7, ReaderIs DEF LockFits, TokenFits
<1>11. ReaderFits(r, pb_session'[r], pb_op'[r], pb_call'[r], pb_token'[r], pb_cancelled')
  BY <1>1, <1>7, <1>9, <1>10 DEF ReaderFits, ReadFits
<1>12. PlayheadIsMinded' /\ HoldsFit'
  BY <1>1, <1>7, <1>9, StillMinded DEF PlaybackInv, HoldsFit, P!HeldDemandExpires
<1> QED
  BY <1>1, <1>2, <1>3, <1>5, <1>7, <1>9, <1>11, <1>12, ReaderStepInv

\* Steps of the record, beside every reader.
LEMMA RecordStep ==
    ASSUME PlaybackInv, HoldsFit', P!NoReadSurvivesPause', pb_cancelled \subseteq pb_cancelled',
           UNCHANGED <<pb_session, pb_call, pb_token, pb_op, pb_owners, pb_active, pb_playing,
                       pb_playhead, pb_use>>
    PROVE  PlaybackInv'
<1>1. PlaybackTypes' /\ PlayheadIsMinded' /\ OwnersPlay' /\ P!ClosedOwnsNothing'
  BY DEF PlaybackInv, PlaybackTypes, PlayheadIsMinded, OwnersPlay, P!ClosedOwnsNothing
<1>2. ReadersFit'
  <2> SUFFICES ASSUME NEW q \in Readers
               PROVE  ReaderFits(q, pb_session[q], pb_op[q], pb_call[q], pb_token[q], pb_cancelled')
    BY DEF ReadersFit
  <2>1. ReaderFits(q, pb_session[q], pb_op[q], pb_call[q], pb_token[q], pb_cancelled)
    BY DEF PlaybackInv, ReadersFit
  <2> QED
    BY <2>1, MoreAreTold
<1> QED
  BY <1>1, <1>2 DEF PlaybackInv

LEMMA ExpireStep ==
    ASSUME PlaybackInv, NEW g, P!Expire(g)
    PROVE  PlaybackInv'
<1>1. pb_resume \in HoldType /\ (pb_resume.held => pb_resume.gen \in pb_timers)
  BY DEF PlaybackInv, HoldsFit, P!HeldDemandExpires
<1>2. CASE pb_resume.gen = g
  <2>1. pb_resume' = [pb_resume EXCEPT !.held = FALSE]
    BY <1>2 DEF P!Expire
  <2>2. pb_resume' \in HoldType /\ ~pb_resume'.held
    BY <1>1, <2>1 DEF HoldType
  <2> QED
    BY <2>2, RecordStep DEF P!Expire, P!readers, PlaybackInv, HoldsFit, P!HeldDemandExpires,
       P!NoReadSurvivesPause, P!At
<1>3. CASE pb_resume.gen # g
  BY <1>1, <1>3, RecordStep DEF P!Expire, P!readers, PlaybackInv, HoldsFit, P!HeldDemandExpires,
     P!NoReadSurvivesPause, P!At
<1> QED
  BY <1>2, <1>3

LEMMA PlayStep ==
    ASSUME PlaybackBounds, PlaybackInv, NEW pos \in P!Pieces, P!Play(pos)
    PROVE  PlaybackInv'
<1>1. pb_resume' \in HoldType /\ ~pb_resume'.held
  BY DEF P!Play, PlaybackInv, HoldsFit, HoldType, P!Pieces, PlaybackBounds
<1>2. HoldsFit' /\ P!NoReadSurvivesPause'
  BY <1>1 DEF HoldsFit, P!HeldDemandExpires, P!Play, P!readers, PlaybackInv, P!NoReadSurvivesPause, P!At
<1> QED
  BY <1>2, RecordStep DEF P!Play, P!readers

\* Whoever waits for bytes holds the token that a pause cancels, or was told before.
LEMMA PauseStep ==
    ASSUME PlaybackBounds, PlaybackInv, P!Pause
    PROVE  PlaybackInv'
<1>1. pb_resume' \in HoldType /\ ~pb_resume'.held
  <2>1. pb_resume \in HoldType /\ pb_resume.gen + 1 \in Nat
    BY DEF PlaybackInv, HoldsFit, HoldType
  <2> QED
    BY <2>1 DEF P!Pause, HoldType
<1>2. P!NoReadSurvivesPause'
  <2> SUFFICES ASSUME NEW r \in Readers, pb_op[r].at = "wait"
               PROVE  <<r, pb_op[r].call>> \in pb_cancelled'
    BY DEF P!NoReadSurvivesPause, P!At, P!Pause
  <2>1. pb_op[r].who = "read" /\ pb_session[r].stage = "open" /\ pb_op[r].call \in P!Gens
    BY StageIs
  <2>2. (~pb_session[r].closed /\ pb_op[r].call = pb_token[r]) \/ <<r, pb_op[r].call>> \in pb_cancelled
    BY <2>1, ReaderIs DEF ReadFits
  <2>3. pb_op[r].call # 0
    BY <2>1 DEF P!Gens, PlaybackBounds
  <2> QED
    BY <2>1, <2>2, <2>3 DEF P!Pause, P!OpenReaders
<1>3. HoldsFit' /\ pb_cancelled \subseteq pb_cancelled'
  BY <1>1 DEF HoldsFit, P!HeldDemandExpires, P!Pause
<1> QED
  BY <1>2, <1>3, RecordStep DEF P!Pause

LEMMA ResumeAllowedStep ==
    ASSUME PlaybackInv, P!Resume
    PROVE  PlaybackInv'
<1>1. HoldsFit' /\ P!NoReadSurvivesPause'
  BY DEF HoldsFit, P!HeldDemandExpires, P!Resume, P!coordinator, P!readers, PlaybackInv, P!NoReadSurvivesPause
<1> QED
  BY <1>1, RecordStep DEF P!Resume, P!coordinator, P!readers

-----------------------------------------------------------------------------
LEMMA PlaybackInit == PlaybackBounds /\ P!Init => PlaybackInv
<1> SUFFICES ASSUME PlaybackBounds, P!Init PROVE PlaybackInv
  OBVIOUS
<1>1. P!Reader0 \in SessionType
  BY DEF P!Reader0, SessionType
<1>2. PlaybackTypes
  BY <1>1, IdleIs DEF P!Init, PlaybackTypes, CallType
<1>3. ReadersFit
  <2> SUFFICES ASSUME NEW r \in Readers
               PROVE  ReaderFits(r, pb_session[r], pb_op[r], pb_call[r], pb_token[r], pb_cancelled)
    BY DEF ReadersFit
  <2>1. /\ pb_session[r] = P!Reader0 /\ pb_op[r] = P!Idle /\ pb_token[r] = 0
        /\ \A g \in P!Gens : pb_call[r][g] = "none"
    BY DEF P!Init
  <2>2. LockFits(P!Reader0, P!Idle) /\ P!Idle.who # "read"
    BY DEF LockFits, P!Reader0, P!Idle
  <2>3. TokenFits(P!Reader0, pb_call[r], 0)
    BY <2>1 DEF TokenFits, P!Reader0
  <2> QED
    BY <2>1, <2>2, <2>3 DEF ReaderFits, ReadFits
<1>4. PlayheadIsMinded /\ OwnersPlay /\ P!NoReadSurvivesPause
  BY DEF P!Init, PlayheadIsMinded, OwnersPlay, P!NoReadSurvivesPause, P!At
<1>5. P!ClosedOwnsNothing
  BY DEF P!Init, P!ClosedOwnsNothing, P!Reader0
<1>6. HoldsFit
  BY DEF P!Init, HoldsFit, P!HeldDemandExpires, HoldType
<1> QED
  BY <1>2, <1>3, <1>4, <1>5, <1>6 DEF PlaybackInv

LEMMA PlaybackNext == PlaybackBounds /\ PlaybackInv /\ P!Next => PlaybackInv'
<1> SUFFICES ASSUME PlaybackBounds, PlaybackInv, P!Next PROVE PlaybackInv'
  OBVIOUS
<1>1. CASE \E r \in Readers, pos \in pb_use.at : P!Open(r, pos)
  BY <1>1, OpenStep
<1>2. CASE \E r \in Readers, g \in P!Gens, pos \in pb_use.at : P!Read(r, g, pos)
  BY <1>2, ReadStep
<1>3. CASE \E r \in Readers, g \in P!Gens : P!GiveUp(r, g)
  BY <1>3, GiveUpStep
<1>4. CASE \E r \in Readers : P!Claim(r) \/ P!Outbid(r) \/ P!Unchanged(r) \/ P!Update(r)
  BY <1>4, ClaimStep, OutbidStep, UnchangedStep, UpdateStep
<1>5. CASE \E r \in Readers : P!YieldFocus(r) \/ P!Focus(r)
  BY <1>5, YieldFocusStep
<1>6. CASE \E r \in Readers : P!Opened(r) \/ P!Refresh(r) \/ P!Refreshed(r)
  BY <1>6, OpenedStep, RefreshStep, RefreshedStep
<1>7. CASE \E r \in Readers : P!Enter(r) \/ P!Register(r) \/ P!Admit(r) \/ P!Deliver(r) \/ P!Return(r)
  BY <1>7, EnterStep, RegisterStep, AdmitStep, DeliverStep, ReturnStep
<1>8. CASE \E r \in Readers : P!Interrupt(r) \/ P!TimeOut(r)
  BY <1>8, InterruptStep
<1>9. CASE \E r \in Readers : P!Idles(r) \/ P!Park(r) \/ P!ParkDrop(r) \/ P!ParkFlag(r)
  BY <1>9, IdlesStep, ParkStep, ParkDropStep, ParkFlagStep
<1>10. CASE \E r \in Readers : P!Close(r) \/ P!CloseSession(r)
  BY <1>10, CloseStep, CloseSessionStep
<1>11. CASE \E r \in Readers : P!Unfocus(r) \/ P!ClearFocus(r) \/ P!Report(r)
  BY <1>11, UnfocusStep, ClearFocusStep, ReportStep
<1>12. CASE \E g \in 1..MaxHolds : P!Expire(g)
  BY <1>12, ExpireStep
<1>13. CASE \E pos \in P!Pieces : P!Play(pos)
  BY <1>13, PlayStep
<1>14. CASE P!Pause \/ P!Resume
  BY <1>14, PauseStep, ResumeAllowedStep
<1> QED
  BY <1>1, <1>2, <1>3, <1>4, <1>5, <1>6, <1>7, <1>8, <1>9, <1>10, <1>11, <1>12, <1>13, <1>14
     DEF P!Next

\* Whatever seeks, refreshes, parks, pauses, closes and holds interleave, on
\* any number of readers: a session serves its latest read, a read that waits
\* while transfers are stopped was told to stop, and a closed reader leaves no
\* owner, playhead or endless hold behind (playback.rs: read, cancel_pending,
\* close, PlaybackPriorityCoordinator; server.rs: on_playback_closed).
THEOREM ReadersEndCleanly == P!Spec => []ReadersEndClean
<1>1. PlaybackInv => ReadersEndClean
  <2> SUFFICES ASSUME PlaybackInv PROVE ReadersEndClean
    OBVIOUS
  <2>1. P!LatestReadWins
    BY ReaderIs DEF P!LatestReadWins, ReadFits
  <2>2. P!PlayheadEndsWithPlayback
    BY DEF PlaybackInv, PlayheadIsMinded, P!PlayheadEndsWithPlayback
  <2>3. P!NoReadSurvivesPause /\ P!ClosedOwnsNothing /\ P!HeldDemandExpires
    BY DEF PlaybackInv, HoldsFit
  <2> QED
    BY <2>1, <2>2, <2>3 DEF ReadersEndClean
<1>2. PlaybackInv /\ [P!Next]_(P!vars) => PlaybackInv'
  <2>1. PlaybackInv /\ UNCHANGED P!vars => PlaybackInv'
    <3> SUFFICES ASSUME PlaybackInv, UNCHANGED P!vars PROVE PlaybackInv'
      OBVIOUS
    <3>1. HoldsFit' /\ P!NoReadSurvivesPause'
      BY DEF P!vars, P!readers, P!coordinator, HoldsFit, P!HeldDemandExpires, PlaybackInv,
         P!NoReadSurvivesPause, P!At
    <3> QED
      BY <3>1, RecordStep DEF P!vars, P!readers, P!coordinator
  <2> QED
    BY <2>1, PlaybackNext, PlaybackAssumption
<1> QED
  BY <1>1, <1>2, PlaybackInit, PlaybackAssumption, PTL DEF P!Spec

-----------------------------------------------------------------------------
(* Calls that share a tracker's socket                                     *)

\* A bag's datagrams, told apart by numbering the copies of each.
Copies(B) == {p \in (DOMAIN B) \X Nat : 1 <= p[2] /\ p[2] <= B[p[1]]}
Datagrams(B) == Cardinality(Copies(B))
BagFits(B) == B \in [DOMAIN B -> Nat \ {0}] /\ IsFiniteSet(Copies(B))

LEMMA EmptyFits == BagFits(U!EmptyBag) /\ Datagrams(U!EmptyBag) = 0 /\ DOMAIN U!EmptyBag = {}
<1>1. DOMAIN U!EmptyBag = {} /\ U!EmptyBag \in [{} -> Nat \ {0}]
  BY DEF U!EmptyBag, U!SetToBag
<1>2. Copies(U!EmptyBag) = {}
  BY <1>1 DEF Copies
<1> QED
  BY <1>1, <1>2, FS_EmptySet DEF BagFits, Datagrams

LEMMA OneMore ==
    ASSUME NEW B, NEW m, BagFits(B)
    PROVE  /\ BagFits(U!Plus(B, m)) /\ DOMAIN U!Plus(B, m) = (DOMAIN B) \cup {m}
           /\ Datagrams(U!Plus(B, m)) = Datagrams(B) + 1 /\ Datagrams(B) \in Nat
<1>1. PICK A : A = U!Plus(B, m)
  OBVIOUS
<1>2. PICK n : n = IF m \in DOMAIN B THEN B[m] ELSE 0
  OBVIOUS
<1>3. n \in Nat
  BY <1>2 DEF BagFits
<1>4. /\ DOMAIN A = (DOMAIN B) \cup {m}
      /\ A[m] = n + 1 /\ \A e \in DOMAIN B : e # m => A[e] = B[e]
  <2>1. A = [e \in (DOMAIN B) \cup {m} |-> (IF e \in DOMAIN B THEN B[e] ELSE 0)
                                             + (IF e \in {m} THEN 1 ELSE 0)]
    BY <1>1 DEF U!Plus, U!SetToBag, U!(+)
  <2>2. \A e \in DOMAIN B : B[e] \in Nat
    BY DEF BagFits
  <2> QED
    BY <2>1, <2>2, <1>2
<1>5. A \in [DOMAIN A -> Nat \ {0}]
  <2>1. \A e \in DOMAIN A : A[e] \in Nat \ {0}
    BY <1>3, <1>4 DEF BagFits
  <2>2. A = [e \in DOMAIN A |-> A[e]]
    BY <1>1 DEF U!Plus, U!SetToBag, U!(+)
  <2> QED
    BY <2>1, <2>2
<1>6. Copies(A) = Copies(B) \cup {<<m, n + 1>>} /\ <<m, n + 1>> \notin Copies(B)
  <2>1. ASSUME NEW e, NEW k PROVE <<e, k>> \in Copies(A) <=> <<e, k>> \in Copies(B) \/ <<e, k>> = <<m, n + 1>>
    <3>1. <<e, k>> \in Copies(A) <=> e \in DOMAIN A /\ k \in Nat /\ 1 <= k /\ k <= A[e]
      BY DEF Copies
    <3>2. <<e, k>> \in Copies(B) <=> e \in DOMAIN B /\ k \in Nat /\ 1 <= k /\ k <= B[e]
      BY DEF Copies
    <3>3. CASE e = m
      BY <3>1, <3>2, <3>3, <1>2, <1>3, <1>4
    <3>4. CASE e # m
      BY <3>1, <3>2, <3>4, <1>4
    <3> QED
      BY <3>3, <3>4
  <2>2. \A p \in Copies(A) \cup Copies(B) : p = <<p[1], p[2]>>
    BY DEF Copies
  <2>3. <<m, n + 1>> \notin Copies(B)
    BY <1>2, <1>3 DEF Copies
  <2> QED
    BY <2>1, <2>2, <2>3
<1>7. IsFiniteSet(Copies(A)) /\ Cardinality(Copies(A)) = Cardinality(Copies(B)) + 1
  BY <1>6, FS_AddElement DEF BagFits
<1> QED
  BY <1>1, <1>4, <1>5, <1>7, FS_CardinalityType DEF BagFits, Datagrams

LEMMA OneLess ==
    ASSUME NEW B, NEW m \in DOMAIN B, BagFits(B)
    PROVE  /\ BagFits(U!Minus(B, m)) /\ DOMAIN U!Minus(B, m) \subseteq DOMAIN B
           /\ Datagrams(U!Minus(B, m)) = Datagrams(B) - 1 /\ Datagrams(B) \in Nat
<1>1. PICK A : A = U!Minus(B, m)
  OBVIOUS
<1>2. PICK n : n = B[m]
  OBVIOUS
<1>3. n \in Nat \ {0} /\ \A e \in DOMAIN B : B[e] \in Nat \ {0}
  BY <1>2 DEF BagFits
<1>4. PICK C : C = [e \in DOMAIN B |-> IF e \in {m} THEN B[e] - 1 ELSE B[e]]
  OBVIOUS
<1>5. A = [e \in {d \in DOMAIN B : C[d] > 0} |-> C[e]]
  BY <1>1, <1>4 DEF U!Minus, U!SetToBag, U!(-)
<1>6. /\ C[m] = n - 1 /\ \A e \in DOMAIN B : e # m => C[e] = B[e]
      /\ \A e \in DOMAIN B : C[e] \in Nat
  BY <1>2, <1>3, <1>4
<1>7. A \in [DOMAIN A -> Nat \ {0}] /\ DOMAIN A \subseteq DOMAIN B
  BY <1>5, <1>6
<1>8. Copies(A) = Copies(B) \ {<<m, n>>} /\ <<m, n>> \in Copies(B)
  <2>1. ASSUME NEW e, NEW k PROVE <<e, k>> \in Copies(A) <=> <<e, k>> \in Copies(B) /\ <<e, k>> # <<m, n>>
    <3>1. <<e, k>> \in Copies(A) <=> e \in DOMAIN B /\ k \in Nat /\ 1 <= k /\ k <= C[e]
      <4>1. <<e, k>> \in Copies(A) <=> e \in DOMAIN A /\ k \in Nat /\ 1 <= k /\ k <= A[e]
        BY DEF Copies
      <4>2. e \in DOMAIN A <=> e \in DOMAIN B /\ C[e] > 0
        BY <1>5
      <4>3. e \in DOMAIN A => A[e] = C[e]
        BY <1>5
      <4> QED
        BY <4>1, <4>2, <4>3, <1>6
    <3>2. <<e, k>> \in Copies(B) <=> e \in DOMAIN B /\ k \in Nat /\ 1 <= k /\ k <= B[e]
      BY DEF Copies
    <3>3. CASE e = m
      BY <3>1, <3>2, <3>3, <1>2, <1>3, <1>6
    <3>4. CASE e # m
      BY <3>1, <3>2, <3>4, <1>6
    <3> QED
      BY <3>3, <3>4
  <2>2. \A p \in Copies(A) \cup Copies(B) : p = <<p[1], p[2]>>
    BY DEF Copies
  <2>3. <<m, n>> \in Copies(B)
    BY <1>2, <1>3 DEF Copies
  <2> QED
    BY <2>1, <2>2, <2>3
<1>9. IsFiniteSet(Copies(A)) /\ Cardinality(Copies(A)) = Cardinality(Copies(B)) - 1
  BY <1>8, FS_RemoveElement DEF BagFits
<1> QED
  BY <1>1, <1>7, <1>9, FS_CardinalityType DEF BagFits, Datagrams

UdpCall == [at : {"idle", "connect", "announce"}, tid : Nat, id : Nat]
UdpRequest == [tid : Nat, kind : {"connect", "announce"}, id : Nat]
AnswerType == [tid : Nat, id : Nat]

UdpTypes ==
    /\ udp_call \in [Calls -> UdpCall]
    /\ udp_tids \in Nat /\ udp_issued \in Nat /\ udp_faults \in Nat
    /\ udp_ids \subseteq Nat \ {0}
    /\ udp_state \in [id : Nat, fresh : BOOLEAN]
    /\ BagFits(udp_requests) /\ DOMAIN udp_requests \subseteq UdpRequest
    /\ BagFits(udp_answers) /\ DOMAIN udp_answers \subseteq AnswerType

\* Transactions are numbered as they start.
TidsFit ==
    /\ \A r \in DOMAIN udp_requests : r.tid <= udp_tids
    /\ \A a \in DOMAIN udp_answers : a.tid <= udp_tids /\ a.tid # 0
    /\ \A r \in DOMAIN udp_requests : r.tid # 0
    /\ \A c \in Calls : udp_call[c].at # "idle" => udp_call[c].tid # 0 /\ udp_call[c].tid <= udp_tids
    /\ \A c \in Calls : udp_call[c].at = "idle" => udp_call[c].tid = 0

\* The tracker still accepts an id that the client holds fresh, that a call
\* announces with, or that an answer brings to the call that waits for it.
IdsFit ==
    /\ udp_state.fresh => udp_state.id \in udp_ids
    /\ \A r \in DOMAIN udp_requests : r.kind = "announce" => r.id \in udp_ids
    /\ \A c \in Calls : udp_call[c].at = "announce" => udp_call[c].id \in udp_ids
    /\ \A a \in DOMAIN udp_answers, c \in Calls :
          a.tid = udp_call[c].tid /\ a.id # 0 => a.id \in udp_ids

WaitingCalls(call) == {c \in Calls : call[c].at \in {"connect", "announce"}}

\* Nothing lost: there is a datagram for every call that waits.
DatagramsFit ==
    udp_faults = 0 =>
        Datagrams(udp_requests) + Datagrams(udp_answers) = Cardinality(WaitingCalls(udp_call))

UdpInv == UdpTypes /\ TidsFit /\ IdsFit /\ DatagramsFit /\ udp_refused = FALSE

\* What a call does to the number of calls that wait.
LEMMA WaitingChanges ==
    ASSUME IsFiniteSet(Calls), NEW call \in [Calls -> UdpCall], NEW c \in Calls, NEW k \in UdpCall,
           NEW next, next = [call EXCEPT ![c] = k]
    PROVE  /\ Cardinality(WaitingCalls(call)) \in Nat
           /\ call[c].at = "idle" /\ k.at # "idle"
                => Cardinality(WaitingCalls(next)) = Cardinality(WaitingCalls(call)) + 1
           /\ call[c].at # "idle" /\ k.at = "idle"
                => Cardinality(WaitingCalls(next)) = Cardinality(WaitingCalls(call)) - 1
           /\ call[c].at # "idle" /\ k.at # "idle" => WaitingCalls(next) = WaitingCalls(call)
<1>1. IsFiniteSet(WaitingCalls(call))
  BY FS_Subset DEF WaitingCalls
<1>2. call[c] \in UdpCall /\ next[c] = k /\ \A d \in Calls : d # c => next[d] = call[d]
  OBVIOUS
<1>3. ASSUME call[c].at = "idle", k.at # "idle"
      PROVE  WaitingCalls(next) = WaitingCalls(call) \cup {c} /\ c \notin WaitingCalls(call)
  BY <1>2, <1>3 DEF WaitingCalls, UdpCall
<1>4. ASSUME call[c].at # "idle", k.at = "idle"
      PROVE  WaitingCalls(next) = WaitingCalls(call) \ {c} /\ c \in WaitingCalls(call)
  BY <1>2, <1>4 DEF WaitingCalls, UdpCall
<1>5. ASSUME call[c].at # "idle", k.at # "idle"
      PROVE  WaitingCalls(next) = WaitingCalls(call)
  BY <1>2, <1>5 DEF WaitingCalls, UdpCall
<1>6. Cardinality(WaitingCalls(call)) \in Nat
  BY <1>1, FS_CardinalityType
<1>7. Cardinality(WaitingCalls(call) \cup {c}) =
        IF c \in WaitingCalls(call) THEN Cardinality(WaitingCalls(call)) ELSE Cardinality(WaitingCalls(call)) + 1
  BY <1>1, FS_AddElement
<1>8. Cardinality(WaitingCalls(call) \ {c}) =
        IF c \in WaitingCalls(call) THEN Cardinality(WaitingCalls(call)) - 1 ELSE Cardinality(WaitingCalls(call))
  BY <1>1, FS_RemoveElement
<1> QED
  BY <1>3, <1>4, <1>5, <1>6, <1>7, <1>8

\* A call sends the first request of a round trip, beside other changes.
LEMMA SendFits ==
    ASSUME IsFiniteSet(Calls), UdpInv, NEW c \in Calls, NEW kind \in {"connect", "announce"}, NEW id \in Nat,
           U!Send(c, kind, id), kind = "announce" => id \in udp_ids,
           UNCHANGED <<udp_ids, udp_issued, udp_faults>>,
           udp_state' \in [id : Nat, fresh : BOOLEAN], udp_state'.fresh => udp_state'.id \in udp_ids,
           BagFits(udp_answers'), DOMAIN udp_answers' \subseteq DOMAIN udp_answers
    PROVE  /\ UdpTypes' /\ TidsFit' /\ IdsFit'
           /\ Datagrams(udp_requests') = Datagrams(udp_requests) + 1
           /\ Datagrams(udp_requests) \in Nat
<1>1. PICK k : k = [at |-> kind, tid |-> udp_tids + 1, id |-> id]
  OBVIOUS
<1>2. PICK r : r = U!Request(udp_tids + 1, kind, id)
  OBVIOUS
<1>3. /\ k \in UdpCall /\ k.at = kind /\ k.tid = udp_tids + 1 /\ k.id = id
      /\ r \in UdpRequest /\ r.tid = udp_tids + 1 /\ r.kind = kind /\ r.id = id
  BY <1>1, <1>2 DEF UdpInv, UdpTypes, UdpCall, UdpRequest, U!Request
<1>4. /\ udp_call' = [udp_call EXCEPT ![c] = k] /\ udp_requests' = U!Plus(udp_requests, r)
      /\ udp_tids' = udp_tids + 1
  BY <1>1, <1>2 DEF U!Send
<1>5. /\ BagFits(udp_requests') /\ DOMAIN udp_requests' = (DOMAIN udp_requests) \cup {r}
      /\ Datagrams(udp_requests') = Datagrams(udp_requests) + 1 /\ Datagrams(udp_requests) \in Nat
  BY <1>4, OneMore DEF UdpInv, UdpTypes
<1>6. /\ udp_call' \in [Calls -> UdpCall] /\ udp_call'[c] = k
      /\ \A d \in Calls : d # c => udp_call'[d] = udp_call[d]
  BY <1>3, <1>4 DEF UdpInv, UdpTypes
<1>7. UdpTypes'
  BY <1>3, <1>4, <1>5, <1>6 DEF UdpInv, UdpTypes
<1>8. /\ udp_tids \in Nat /\ \A x \in DOMAIN udp_requests : x.tid \in Nat
      /\ \A a \in DOMAIN udp_answers : a.tid \in Nat
      /\ \A d \in Calls : udp_call[d].tid \in Nat /\ udp_call[d].at \in {"idle", "connect", "announce"}
  BY DEF UdpInv, UdpTypes, UdpRequest, AnswerType, UdpCall
<1>9. TidsFit'
  <2>1. \A x \in DOMAIN udp_requests' : x.tid <= udp_tids' /\ x.tid # 0
    BY <1>3, <1>4, <1>5, <1>8 DEF UdpInv, TidsFit
  <2>2. \A a \in DOMAIN udp_answers' : a.tid <= udp_tids' /\ a.tid # 0
    BY <1>4, <1>8 DEF UdpInv, TidsFit
  <2>3. ASSUME NEW d \in Calls
        PROVE  /\ udp_call'[d].at # "idle" => udp_call'[d].tid # 0 /\ udp_call'[d].tid <= udp_tids'
               /\ udp_call'[d].at = "idle" => udp_call'[d].tid = 0
    <3>1. CASE d = c
      BY <3>1, <1>3, <1>4, <1>6, <1>8
    <3>2. CASE d # c
      BY <3>2, <1>4, <1>6, <1>8 DEF UdpInv, TidsFit
    <3> QED
      BY <3>1, <3>2
  <2> QED
    BY <2>1, <2>2, <2>3 DEF TidsFit
<1>10. IdsFit'
  <2>1. \A x \in DOMAIN udp_requests' : x.kind = "announce" => x.id \in udp_ids'
    BY <1>3, <1>5 DEF UdpInv, IdsFit
  <2>2. \A d \in Calls : udp_call'[d].at = "announce" => udp_call'[d].id \in udp_ids'
    BY <1>3, <1>6 DEF UdpInv, IdsFit
  <2>3. ASSUME NEW a \in DOMAIN udp_answers', NEW d \in Calls, a.tid = udp_call'[d].tid, a.id # 0
        PROVE  a.id \in udp_ids'
    <3>1. a \in DOMAIN udp_answers /\ a.tid <= udp_tids
      BY DEF UdpInv, TidsFit
    <3>2. d # c
      BY <3>1, <2>3, <1>3, <1>6, <1>8
    <3> QED
      BY <3>1, <3>2, <2>3, <1>6 DEF UdpInv, IdsFit
  <2> QED
    BY <2>1, <2>2, <2>3 DEF IdsFit
<1> QED
  BY <1>5, <1>7, <1>9, <1>10

LEMMA StartStep ==
    ASSUME IsFiniteSet(Calls), UdpInv, NEW c \in Calls, U!Start(c)
    PROVE  UdpInv'
<1>1. /\ udp_call[c].at = "idle" /\ udp_state \in [id : Nat, fresh : BOOLEAN]
      /\ UNCHANGED <<udp_state, udp_ids, udp_answers, udp_issued, udp_faults, udp_refused>>
  BY DEF U!Start, UdpInv, UdpTypes
<1>2. PICK kind \in {"connect", "announce"}, id \in Nat :
          U!Send(c, kind, id) /\ (kind = "announce" => id \in udp_ids)
  BY <1>1 DEF U!Start, U!NoConnectionId, UdpInv, IdsFit
<1>3. BagFits(udp_answers') /\ (udp_state'.fresh => udp_state'.id \in udp_ids)
  BY <1>1 DEF UdpInv, UdpTypes, IdsFit
<1>4. /\ UdpTypes' /\ TidsFit' /\ IdsFit' /\ Datagrams(udp_requests') = Datagrams(udp_requests) + 1
      /\ Datagrams(udp_requests) \in Nat
  BY <1>1, <1>2, <1>3, SendFits
<1>5. PICK k : k = [at |-> kind, tid |-> udp_tids + 1, id |-> id]
  OBVIOUS
<1>6. k \in UdpCall /\ k.at # "idle" /\ udp_call' = [udp_call EXCEPT ![c] = k]
  BY <1>2, <1>5 DEF U!Send, UdpCall, UdpInv, UdpTypes
<1>7. /\ Cardinality(WaitingCalls(udp_call')) = Cardinality(WaitingCalls(udp_call)) + 1
      /\ Cardinality(WaitingCalls(udp_call)) \in Nat
  <2>1. udp_call \in [Calls -> UdpCall]
    BY DEF UdpInv, UdpTypes
  <2> QED
    BY <1>1, <1>6, <2>1, WaitingChanges
<1>8. Datagrams(udp_answers) \in Nat
  BY OneMore DEF UdpInv, UdpTypes
<1>9. DatagramsFit'
  BY <1>1, <1>4, <1>7, <1>8 DEF UdpInv, DatagramsFit
<1> QED
  BY <1>1, <1>4, <1>9 DEF UdpInv

LEMMA TakeStep ==
    ASSUME IsFiniteSet(Calls), UdpInv, NEW c \in Calls, NEW a, U!Take(c, a)
    PROVE  UdpInv'
<1>1. /\ udp_call[c].at \in {"connect", "announce"} /\ a \in DOMAIN udp_answers
      /\ a.tid = udp_call[c].tid /\ udp_answers' = U!Minus(udp_answers, a)
      /\ UNCHANGED <<udp_ids, udp_issued, udp_faults, udp_refused>>
  BY DEF U!Take, U!Waiting, U!BagIn, U!BagToSet
<1>2. /\ BagFits(udp_answers') /\ DOMAIN udp_answers' \subseteq DOMAIN udp_answers
      /\ Datagrams(udp_answers') = Datagrams(udp_answers) - 1 /\ Datagrams(udp_answers) \in Nat
  BY <1>1, OneLess DEF UdpInv, UdpTypes
<1>3. a.id \in Nat
  BY <1>1 DEF UdpInv, UdpTypes, AnswerType
<1>4. CASE udp_state' = [id |-> a.id, fresh |-> TRUE] /\ U!Send(c, "announce", a.id) /\ a.id # 0
  <2>1. a.id \in udp_ids
    BY <1>1, <1>4 DEF UdpInv, IdsFit
  <2>2. /\ udp_state' \in [id : Nat, fresh : BOOLEAN]
        /\ udp_state'.fresh => udp_state'.id \in udp_ids
    BY <1>3, <1>4, <2>1
  <2>3. /\ UdpTypes' /\ TidsFit' /\ IdsFit' /\ Datagrams(udp_requests') = Datagrams(udp_requests) + 1
        /\ Datagrams(udp_requests) \in Nat
    BY <1>1, <1>2, <1>3, <1>4, <2>1, <2>2, SendFits
  <2>4. PICK k : k = [at |-> "announce", tid |-> udp_tids + 1, id |-> a.id]
    OBVIOUS
  <2>5. k \in UdpCall /\ k.at # "idle" /\ udp_call' = [udp_call EXCEPT ![c] = k]
    BY <1>3, <1>4, <2>4 DEF U!Send, UdpCall, UdpInv, UdpTypes
  <2>6. /\ WaitingCalls(udp_call') = WaitingCalls(udp_call)
        /\ Cardinality(WaitingCalls(udp_call)) \in Nat
    <3>1. udp_call \in [Calls -> UdpCall]
      BY DEF UdpInv, UdpTypes
    <3>2. udp_call[c].at # "idle"
      BY <1>1
    <3> QED
      BY <2>5, <3>1, <3>2, WaitingChanges
  <2>7. DatagramsFit'
    BY <1>1, <1>2, <2>3, <2>6 DEF UdpInv, DatagramsFit
  <2> QED
    BY <1>1, <2>3, <2>7 DEF UdpInv
<1>5. CASE /\ udp_call' = [udp_call EXCEPT ![c] = U!Idle]
           /\ UNCHANGED <<udp_state, udp_requests, udp_sends, udp_tids>>
  <2>1. U!Idle \in UdpCall /\ U!Idle.at = "idle" /\ U!Idle.tid = 0
    BY DEF U!Idle, UdpCall, U!NoConnectionId
  <2>2. /\ udp_call' \in [Calls -> UdpCall] /\ udp_call'[c] = U!Idle
        /\ \A d \in Calls : d # c => udp_call'[d] = udp_call[d]
    BY <1>5, <2>1 DEF UdpInv, UdpTypes
  <2>3. UdpTypes'
    BY <1>1, <1>2, <1>5, <2>2 DEF UdpInv, UdpTypes
  <2>4. TidsFit'
    BY <1>2, <1>5, <2>1, <2>2 DEF UdpInv, TidsFit
  <2>5. IdsFit'
    <3>1. ASSUME NEW x \in DOMAIN udp_answers', NEW d \in Calls, x.tid = udp_call'[d].tid, x.id # 0
          PROVE  x.id \in udp_ids'
      <4>1. x \in DOMAIN udp_answers /\ x.tid # 0
        BY <1>2 DEF UdpInv, TidsFit
      <4>2. d # c
        BY <3>1, <4>1, <2>1, <2>2
      <4> QED
        BY <3>1, <4>1, <4>2, <2>2, <1>1 DEF UdpInv, IdsFit
    <3>2. \A d \in Calls : udp_call'[d].at = "announce" => udp_call'[d].id \in udp_ids'
      BY <1>1, <2>1, <2>2 DEF UdpInv, IdsFit
    <3> QED
      BY <1>1, <1>5, <3>1, <3>2 DEF UdpInv, IdsFit
  <2>6. /\ Cardinality(WaitingCalls(udp_call')) = Cardinality(WaitingCalls(udp_call)) - 1
        /\ Cardinality(WaitingCalls(udp_call)) \in Nat
    BY <1>1, <1>5, <2>1, WaitingChanges DEF UdpInv, UdpTypes
  <2>7. Datagrams(udp_requests) \in Nat
    BY OneMore DEF UdpInv, UdpTypes
  <2>8. DatagramsFit'
    BY <1>1, <1>2, <1>5, <2>6, <2>7 DEF UdpInv, DatagramsFit
  <2> QED
    BY <1>1, <2>3, <2>4, <2>5, <2>8 DEF UdpInv
<1> QED
  BY <1>4, <1>5 DEF U!Take, U!NoConnectionId

LEMMA StealStep ==
    ASSUME IsFiniteSet(Calls), UdpInv, NEW c \in Calls, NEW a, U!Steal(c, a)
    PROVE  UdpInv'
<1>1. /\ udp_call[c].at \in {"connect", "announce"} /\ a \in DOMAIN udp_answers
      /\ udp_answers' = U!Minus(udp_answers, a)
      /\ UNCHANGED <<udp_state, udp_call, udp_ids, udp_issued, udp_tids, udp_faults, udp_refused>>
  BY DEF U!Steal, U!Waiting, U!BagIn, U!BagToSet
<1>2. /\ BagFits(udp_answers') /\ DOMAIN udp_answers' \subseteq DOMAIN udp_answers
      /\ Datagrams(udp_answers') = Datagrams(udp_answers) - 1 /\ Datagrams(udp_answers) \in Nat
  BY <1>1, OneLess DEF UdpInv, UdpTypes
<1>3. PICK r : r = U!Request(udp_call[c].tid, udp_call[c].at, udp_call[c].id)
  OBVIOUS
<1>4. udp_call[c] \in UdpCall
  BY DEF UdpInv, UdpTypes
<1>5. r \in UdpRequest /\ r.tid = udp_call[c].tid /\ r.kind = udp_call[c].at /\ r.id = udp_call[c].id
  BY <1>1, <1>3, <1>4 DEF U!Request, UdpRequest, UdpCall
<1>6. udp_requests' = U!Plus(udp_requests, r)
  BY <1>3 DEF U!Steal
<1>7. /\ BagFits(udp_requests') /\ DOMAIN udp_requests' = (DOMAIN udp_requests) \cup {r}
      /\ Datagrams(udp_requests') = Datagrams(udp_requests) + 1 /\ Datagrams(udp_requests) \in Nat
  BY <1>6, OneMore DEF UdpInv, UdpTypes
<1>8. UdpTypes'
  BY <1>1, <1>2, <1>5, <1>7 DEF UdpInv, UdpTypes
<1>9. TidsFit'
  BY <1>1, <1>2, <1>5, <1>7 DEF UdpInv, TidsFit
<1>10. IdsFit'
  BY <1>1, <1>2, <1>5, <1>7 DEF UdpInv, IdsFit
<1>11. IsFiniteSet(WaitingCalls(udp_call)) /\ Cardinality(WaitingCalls(udp_call)) \in Nat
  BY FS_Subset, FS_CardinalityType DEF WaitingCalls
<1>12. DatagramsFit'
  BY <1>1, <1>2, <1>7, <1>11 DEF UdpInv, DatagramsFit
<1> QED
  BY <1>1, <1>8, <1>9, <1>10, <1>12 DEF UdpInv

\* A call that ends leaves the rest as it is: the numbers and the ids fit.
LEMMA DeadlineStep ==
    ASSUME IsFiniteSet(Calls), UdpInv, NEW c \in Calls, U!Deadline(c)
    PROVE  UdpInv'
<1>1. /\ udp_faults' = udp_faults + 1 /\ udp_call' = [udp_call EXCEPT ![c] = U!Idle]
      /\ UNCHANGED <<udp_state, udp_ids, udp_requests, udp_answers, udp_issued, udp_tids, udp_refused>>
  BY DEF U!Deadline
<1>2. U!Idle \in UdpCall /\ U!Idle.at = "idle" /\ U!Idle.tid = 0
  BY DEF U!Idle, UdpCall, U!NoConnectionId
<1>3. /\ udp_call' \in [Calls -> UdpCall] /\ udp_call'[c] = U!Idle
      /\ \A d \in Calls : d # c => udp_call'[d] = udp_call[d]
  BY <1>1, <1>2 DEF UdpInv, UdpTypes
<1>4. UdpTypes'
  BY <1>1, <1>3 DEF UdpInv, UdpTypes
<1>5. TidsFit'
  BY <1>1, <1>2, <1>3 DEF UdpInv, TidsFit
<1>6. IdsFit'
  <2>1. ASSUME NEW x \in DOMAIN udp_answers', NEW d \in Calls, x.tid = udp_call'[d].tid, x.id # 0
        PROVE  x.id \in udp_ids'
    <3>1. x \in DOMAIN udp_answers /\ x.tid # 0
      BY <1>1 DEF UdpInv, TidsFit
    <3>2. d # c
      BY <2>1, <3>1, <1>2, <1>3
    <3> QED
      BY <2>1, <3>1, <3>2, <1>1, <1>3 DEF UdpInv, IdsFit
  <2>2. \A d \in Calls : udp_call'[d].at = "announce" => udp_call'[d].id \in udp_ids'
    BY <1>1, <1>2, <1>3 DEF UdpInv, IdsFit
  <2> QED
    BY <1>1, <2>1, <2>2 DEF UdpInv, IdsFit
<1>7. DatagramsFit'
  BY <1>1 DEF UdpInv, UdpTypes, DatagramsFit
<1> QED
  BY <1>1, <1>4, <1>5, <1>6, <1>7 DEF UdpInv

\* A request at the tracker becomes one answer: of a connect with an id that
\* is accepted from now on, of an announce without one.
LEMMA AnswerStep ==
    ASSUME IsFiniteSet(Calls), UdpInv, NEW r, U!Answer(r)
    PROVE  UdpInv'
<1>1. /\ r \in DOMAIN udp_requests /\ udp_requests' = U!Minus(udp_requests, r)
      /\ UNCHANGED <<udp_state, udp_call, udp_tids, udp_faults>>
  BY DEF U!Answer, U!BagIn, U!BagToSet
<1>2. /\ BagFits(udp_requests') /\ DOMAIN udp_requests' \subseteq DOMAIN udp_requests
      /\ Datagrams(udp_requests') = Datagrams(udp_requests) - 1 /\ Datagrams(udp_requests) \in Nat
  BY <1>1, OneLess DEF UdpInv, UdpTypes
<1>3. r.tid \in Nat /\ r.tid # 0 /\ r.tid <= udp_tids /\ r.kind \in {"connect", "announce"}
  BY <1>1 DEF UdpInv, UdpTypes, TidsFit, UdpRequest
<1>4. PICK a : /\ a \in AnswerType /\ a.tid = r.tid
               /\ udp_answers' = U!Plus(udp_answers, a)
               /\ a.id # 0 => a.id \in udp_ids'
               /\ udp_ids \subseteq udp_ids' /\ udp_ids' \subseteq Nat \ {0} /\ udp_issued' \in Nat
               /\ udp_refused' = FALSE
  <2>1. CASE r.kind = "connect"
    <3>1. /\ udp_issued' = udp_issued + 1 /\ udp_ids' = udp_ids \cup {udp_issued + 1}
          /\ udp_answers' = U!Plus(udp_answers, [tid |-> r.tid, id |-> udp_issued + 1])
          /\ udp_refused' = udp_refused
      BY <2>1 DEF U!Answer
    <3>2. PICK a : a = [tid |-> r.tid, id |-> udp_issued + 1]
      OBVIOUS
    <3>3. udp_issued \in Nat /\ udp_ids \subseteq Nat \ {0} /\ udp_refused = FALSE
      BY DEF UdpInv, UdpTypes
    <3>4. a \in AnswerType /\ a.tid = r.tid /\ a.id = udp_issued + 1
      BY <1>3, <3>2, <3>3 DEF AnswerType
    <3> QED
      BY <3>1, <3>2, <3>3, <3>4
  <2>2. CASE r.kind # "connect"
    <3>1. /\ udp_answers' = U!Plus(udp_answers, [tid |-> r.tid, id |-> 0])
          /\ udp_refused' = (udp_refused \/ r.id \notin udp_ids)
          /\ udp_issued' = udp_issued /\ udp_ids' = udp_ids
      BY <2>2 DEF U!Answer, U!NoConnectionId
    <3>2. PICK a : a = [tid |-> r.tid, id |-> 0]
      OBVIOUS
    <3>3. udp_issued \in Nat /\ udp_ids \subseteq Nat \ {0} /\ udp_refused = FALSE
      BY DEF UdpInv, UdpTypes
    <3>4. a \in AnswerType /\ a.tid = r.tid /\ a.id = 0
      BY <1>3, <3>2 DEF AnswerType
    <3>5. r.id \in udp_ids
      BY <1>1, <1>3, <2>2 DEF UdpInv, IdsFit
    <3>6. udp_refused' = FALSE
      BY <3>1, <3>3, <3>5
    <3> QED
      BY <3>1, <3>2, <3>3, <3>4, <3>6
  <2> QED
    BY <2>1, <2>2
<1>5. /\ BagFits(udp_answers') /\ DOMAIN udp_answers' = (DOMAIN udp_answers) \cup {a}
      /\ Datagrams(udp_answers') = Datagrams(udp_answers) + 1 /\ Datagrams(udp_answers) \in Nat
  BY <1>4, OneMore DEF UdpInv, UdpTypes
<1>6. UdpTypes'
  BY <1>1, <1>2, <1>4, <1>5 DEF UdpInv, UdpTypes
<1>7. TidsFit'
  BY <1>1, <1>2, <1>3, <1>4, <1>5 DEF UdpInv, TidsFit
<1>8. IdsFit'
  BY <1>1, <1>2, <1>4, <1>5 DEF UdpInv, IdsFit
<1>9. IsFiniteSet(WaitingCalls(udp_call)) /\ Cardinality(WaitingCalls(udp_call)) \in Nat
  BY FS_Subset, FS_CardinalityType DEF WaitingCalls
<1>10. DatagramsFit'
  BY <1>1, <1>2, <1>5, <1>9 DEF UdpInv, DatagramsFit
<1> QED
  BY <1>4, <1>6, <1>7, <1>8, <1>10 DEF UdpInv

LEMMA LoseStep ==
    ASSUME UdpInv, NEW r, U!Lose(r)
    PROVE  UdpInv'
<1>1. /\ r \in DOMAIN udp_requests /\ udp_requests' = U!Minus(udp_requests, r)
      /\ udp_faults' = udp_faults + 1
      /\ UNCHANGED <<udp_state, udp_call, udp_ids, udp_answers, udp_issued, udp_tids, udp_refused>>
  BY DEF U!Lose, U!BagIn, U!BagToSet
<1>2. BagFits(udp_requests') /\ DOMAIN udp_requests' \subseteq DOMAIN udp_requests
  BY <1>1, OneLess DEF UdpInv, UdpTypes
<1>3. UdpTypes'
  BY <1>1, <1>2 DEF UdpInv, UdpTypes
<1>4. TidsFit'
  BY <1>1, <1>2 DEF UdpInv, TidsFit
<1>5. IdsFit'
  BY <1>1, <1>2 DEF UdpInv, IdsFit
<1>6. DatagramsFit'
  BY <1>1 DEF UdpInv, UdpTypes, DatagramsFit
<1> QED
  BY <1>1, <1>3, <1>4, <1>5, <1>6 DEF UdpInv

LEMMA AgeStep ==
    ASSUME UdpInv, U!Age
    PROVE  UdpInv'
<1>1. /\ udp_state' = [udp_state EXCEPT !.fresh = FALSE]
      /\ UNCHANGED <<udp_call, udp_ids, udp_requests, udp_answers, udp_issued, udp_tids, udp_faults, udp_refused>>
  BY DEF U!Age
<1>2. udp_state' \in [id : Nat, fresh : BOOLEAN] /\ ~udp_state'.fresh
  BY <1>1 DEF UdpInv, UdpTypes
<1>3. UdpTypes'
  BY <1>1, <1>2 DEF UdpInv, UdpTypes
<1>4. TidsFit'
  BY <1>1 DEF UdpInv, TidsFit
<1>5. IdsFit'
  BY <1>1, <1>2 DEF UdpInv, IdsFit
<1>6. DatagramsFit'
  BY <1>1 DEF UdpInv, DatagramsFit, WaitingCalls
<1> QED
  BY <1>1, <1>3, <1>4, <1>5, <1>6 DEF UdpInv

LEMMA ForgetStep ==
    ASSUME UdpInv, NEW id, U!Forget(id)
    PROVE  UdpInv'
<1>1. /\ ~(udp_state.fresh /\ udp_state.id = id)
      /\ \A c \in Calls : udp_call[c].id # id
      /\ \A r \in DOMAIN udp_requests : r.id # id
      /\ \A a \in DOMAIN udp_answers : a.id = id => \A c \in Calls : udp_call[c].tid # a.tid
      /\ udp_ids' = udp_ids \ {id}
      /\ UNCHANGED <<udp_state, udp_call, udp_requests, udp_answers, udp_issued, udp_tids, udp_faults, udp_refused>>
  BY DEF U!Forget, U!BagToSet
<1>2. UdpTypes'
  BY <1>1 DEF UdpInv, UdpTypes
<1>3. TidsFit'
  BY <1>1 DEF UdpInv, TidsFit
<1>4. IdsFit'
  BY <1>1 DEF UdpInv, IdsFit
<1>5. DatagramsFit'
  BY <1>1 DEF UdpInv, DatagramsFit, WaitingCalls
<1> QED
  BY <1>1, <1>2, <1>3, <1>4, <1>5 DEF UdpInv

LEMMA UdpInit ==
    ASSUME U!Init
    PROVE  UdpInv
<1>1. /\ udp_state = [id |-> 0, fresh |-> FALSE] /\ udp_call = [c \in Calls |-> U!Idle]
      /\ udp_ids = {} /\ udp_requests = U!EmptyBag /\ udp_answers = U!EmptyBag
      /\ udp_issued = 0 /\ udp_tids = 0 /\ udp_faults = 0 /\ udp_refused = FALSE
  BY DEF U!Init, U!NoConnectionId
<1>2. U!Idle \in UdpCall /\ U!Idle.at = "idle" /\ U!Idle.tid = 0
  BY DEF U!Idle, UdpCall, U!NoConnectionId
<1>3. BagFits(U!EmptyBag) /\ DOMAIN U!EmptyBag = {} /\ Datagrams(U!EmptyBag) = 0
  BY EmptyFits
<1>4. UdpTypes
  BY <1>1, <1>2, <1>3 DEF UdpTypes
<1>5. TidsFit /\ IdsFit
  BY <1>1, <1>2, <1>3 DEF TidsFit, IdsFit
<1>6. WaitingCalls(udp_call) = {}
  BY <1>1, <1>2 DEF WaitingCalls
<1>7. DatagramsFit
  <2>1. Cardinality(WaitingCalls(udp_call)) = 0
    BY <1>6, FS_EmptySet
  <2>2. Datagrams(udp_requests) = 0 /\ Datagrams(udp_answers) = 0
    BY <1>1, <1>3
  <2> QED
    BY <2>1, <2>2 DEF DatagramsFit
<1> QED
  BY <1>1, <1>4, <1>5, <1>7 DEF UdpInv

LEMMA UdpNext ==
    ASSUME IsFiniteSet(Calls), UdpInv, [U!Next]_(U!vars)
    PROVE  UdpInv'
<1>1. CASE \E c \in Calls : U!Start(c) \/ U!Deadline(c)
  BY <1>1, StartStep, DeadlineStep
<1>2. CASE \E c \in Calls, a \in U!BagToSet(udp_answers) : U!Take(c, a) \/ U!Steal(c, a)
  BY <1>2, TakeStep, StealStep
<1>3. CASE \E r \in U!BagToSet(udp_requests) : U!Answer(r) \/ U!Lose(r)
  BY <1>3, AnswerStep, LoseStep
<1>4. CASE U!Age \/ \E id \in udp_ids : U!Forget(id)
  BY <1>4, AgeStep, ForgetStep
<1>5. CASE UNCHANGED U!vars
  BY <1>5 DEF U!vars, UdpInv, UdpTypes, TidsFit, IdsFit, DatagramsFit, WaitingCalls
<1> QED
  BY <1>1, <1>2, <1>3, <1>4, <1>5 DEF U!Next

\* A call waits, so there is a datagram; the ids are accepted by the last part.
LEMMA UdpImplies ==
    ASSUME IsFiniteSet(Calls), UdpInv
    PROVE  AnswersAreShared
<1>1. ASSUME udp_faults = 0, NEW c \in Calls, udp_call[c].at \in {"connect", "announce"},
             udp_requests = U!EmptyBag, udp_answers = U!EmptyBag
      PROVE  FALSE
  <2>1. Cardinality(WaitingCalls(udp_call)) = 0
    BY <1>1, EmptyFits DEF UdpInv, DatagramsFit
  <2>2. IsFiniteSet(WaitingCalls(udp_call)) /\ c \in WaitingCalls(udp_call)
    BY <1>1, FS_Subset DEF WaitingCalls
  <2> QED
    BY <2>1, <2>2, FS_EmptySet
<1> QED
  BY <1>1 DEF AnswersAreShared, U!NobodyWaitsInSilence, U!IdIsAccepted, U!Waiting, UdpInv

\* However many calls share the socket and however their answers are mixed up,
\* none waits in silence while nothing was lost, because whoever reads another's
\* answer asks again (the `continue` of round_trip in udp.rs), and no announce
\* carries a connection id the tracker has forgotten (should_reconnect).
THEOREM CallsShareAnswers == U!Spec => []AnswersAreShared
<1>1. U!Init => UdpInv
  BY UdpInit
<1>2. UdpInv /\ [U!Next]_(U!vars) => UdpInv'
  BY UdpNext, UdpAssumption
<1>3. UdpInv => AnswersAreShared
  BY UdpImplies, UdpAssumption
<1> QED
  BY <1>1, <1>2, <1>3, PTL DEF U!Spec

-----------------------------------------------------------------------------
(* The offers of a WebTorrent tracker                                      *)

WsTask == [at : {"sleep", "offers", "done"}, want : Nat, offers : SUBSET Nat, tx : Nat]
WsReceiver == [at : {"kept", "taken", "none"}, gen : Nat]

\* The offers still wanted, those in the outbox and those of the announces
\* under way.
WsWants(t) == UNION {{i} \X (1..t[i].want) : i \in 1..Len(t)}
WsBoxed(b) == UNION {b[i] : i \in 1..Len(b)}
WsMade(t) == UNION {t[i].offers : i \in 1..Len(t)}
WsRest(t, i) == UNION {t[j].offers : j \in 1..Len(t) \ {i}}

\* No offer is in two places.
WsBoxApart(b) == \A i, j \in 1..Len(b) : i # j => b[i] \cap b[j] = {}
WsTasksApart(t) == \A i, j \in 1..Len(t) : i # j => t[i].offers \cap t[j].offers = {}

WsTypes ==
    /\ ws_ws \in {"down", "up", "accepts", "closed"}
    /\ ws_tx \in Nat /\ ws_rx \in WsReceiver /\ ws_box \in Seq(SUBSET Nat)
    /\ ws_tasks \in Seq(WsTask) /\ IsFiniteSet(WsWants(ws_tasks))
    /\ ws_made \in Nat /\ ws_faults \in Nat /\ ws_outbound \subseteq 1..ws_made

\* An offer is outstanding, still wanted, or being accepted.
WsCount == Cardinality(ws_outbound) + Cardinality(WsWants(ws_tasks)) + (IF ws_ws = "accepts" THEN 1 ELSE 0)

\* While nothing fails there is one outbox, and every announce goes to it.
WsOneOutbox ==
    /\ ws_old = {} /\ ws_tx = 1 /\ ws_rx.gen = 1 /\ ws_rx.at # "none"
    /\ \A i \in 1..Len(ws_tasks) : ws_tasks[i].at = "offers" => ws_tasks[i].tx = 1

\* Every outstanding offer is in one place.
WsPlaces ==
    /\ ws_outbound = ws_known \cup WsBoxed(ws_box) \cup WsMade(ws_tasks)
    /\ ws_known \cap WsBoxed(ws_box) = {} /\ ws_known \cap WsMade(ws_tasks) = {}
    /\ WsBoxed(ws_box) \cap WsMade(ws_tasks) = {}
    /\ WsBoxApart(ws_box) /\ WsTasksApart(ws_tasks)

WsSteady == ws_faults = 0 /\ ws_ws # "closed" => WsCount = MaxOutstanding /\ WsOneOutbox /\ WsPlaces

WsInv == WsTypes /\ WsCount <= MaxOutstanding /\ WsSteady

\* The instance counts as this module does.
LEMMA WsCounts == ASSUME NEW X PROVE T!Cardinality(X) = Cardinality(X)
BY DEF T!Cardinality, Cardinality

\* The outbox takes one more announce.
LEMMA WsBoxAppend ==
    ASSUME NEW b \in Seq(SUBSET Nat), NEW x \in SUBSET Nat
    PROVE  /\ Append(b, x) \in Seq(SUBSET Nat)
           /\ WsBoxed(Append(b, x)) = WsBoxed(b) \cup x
           /\ WsBoxApart(b) /\ x \cap WsBoxed(b) = {} => WsBoxApart(Append(b, x))
<1>1. PICK c : c = Append(b, x)
  OBVIOUS
<1>2. /\ c \in Seq(SUBSET Nat) /\ Len(c) = Len(b) + 1 /\ Len(b) \in Nat /\ c[Len(b) + 1] = x
      /\ \A i \in 1..Len(b) : c[i] = b[i]
  BY <1>1
<1>3. 1..Len(c) = 1..Len(b) \cup {Len(b) + 1} /\ Len(b) + 1 \notin 1..Len(b)
  BY <1>2
<1>4. WsBoxed(c) = WsBoxed(b) \cup x
  BY <1>2, <1>3 DEF WsBoxed
<1>5. ASSUME WsBoxApart(b), x \cap WsBoxed(b) = {} PROVE WsBoxApart(c)
  <2> SUFFICES ASSUME NEW i \in 1..Len(c), NEW j \in 1..Len(c), i # j PROVE c[i] \cap c[j] = {}
    BY DEF WsBoxApart
  <2>1. \A k \in 1..Len(b) : b[k] \cap x = {}
    BY <1>5 DEF WsBoxed
  <2>2. CASE i \in 1..Len(b) /\ j \in 1..Len(b)
    BY <1>2, <1>5, <2>2 DEF WsBoxApart
  <2>3. CASE i \in 1..Len(b) /\ j = Len(b) + 1
    BY <1>2, <2>1, <2>3
  <2>4. CASE j \in 1..Len(b) /\ i = Len(b) + 1
    BY <1>2, <2>1, <2>4
  <2> QED
    BY <1>3, <2>2, <2>3, <2>4
<1> QED
  BY <1>1, <1>2, <1>4, <1>5

\* The first announce leaves the outbox.
LEMMA WsBoxTail ==
    ASSUME NEW b \in Seq(SUBSET Nat), b # <<>>
    PROVE  /\ Tail(b) \in Seq(SUBSET Nat)
           /\ WsBoxed(b) = Head(b) \cup WsBoxed(Tail(b))
           /\ WsBoxApart(b) => WsBoxApart(Tail(b)) /\ Head(b) \cap WsBoxed(Tail(b)) = {}
<1>1. PICK c : c = Tail(b)
  OBVIOUS
<1>2. /\ c \in Seq(SUBSET Nat) /\ Len(b) = Len(c) + 1 /\ Len(c) \in Nat /\ Head(b) = b[1]
      /\ \A i \in 1..Len(c) : c[i] = b[i + 1]
  BY <1>1
<1>3. /\ \A i \in 1..Len(c) : i + 1 \in 1..Len(b) /\ i + 1 # 1
      /\ \A i \in 1..Len(b) : i = 1 \/ (i - 1 \in 1..Len(c) /\ (i - 1) + 1 = i)
      /\ 1 \in 1..Len(b)
  BY <1>2
<1>4. ASSUME NEW o PROVE o \in WsBoxed(b) <=> o \in Head(b) \/ o \in WsBoxed(c)
  <2>1. ASSUME NEW i \in 1..Len(b), o \in b[i] PROVE o \in Head(b) \/ o \in WsBoxed(c)
    <3>1. CASE i = 1
      BY <1>2, <2>1, <3>1
    <3>2. CASE i # 1
      <4>1. PICK k \in 1..Len(c) : k + 1 = i
        BY <1>3, <3>2
      <4> QED
        BY <1>2, <2>1, <4>1 DEF WsBoxed
    <3> QED
      BY <3>1, <3>2
  <2>2. ASSUME NEW i \in 1..Len(c), o \in c[i] PROVE o \in WsBoxed(b)
    BY <1>2, <1>3, <2>2 DEF WsBoxed
  <2>3. o \in Head(b) => o \in WsBoxed(b)
    BY <1>2, <1>3 DEF WsBoxed
  <2> QED
    BY <2>1, <2>2, <2>3 DEF WsBoxed
<1>5. ASSUME WsBoxApart(b) PROVE WsBoxApart(c) /\ Head(b) \cap WsBoxed(c) = {}
  <2>1. ASSUME NEW i \in 1..Len(c), NEW j \in 1..Len(c), i # j PROVE c[i] \cap c[j] = {}
    <3>1. i + 1 \in 1..Len(b) /\ j + 1 \in 1..Len(b) /\ i + 1 # j + 1
      BY <1>2, <1>3, <2>1
    <3>2. b[i + 1] \cap b[j + 1] = {}
      BY <1>5, <3>1 DEF WsBoxApart
    <3> QED
      BY <1>2, <3>2
  <2>2. \A i \in 1..Len(c) : b[1] \cap c[i] = {}
    BY <1>2, <1>3, <1>5 DEF WsBoxApart
  <2> QED
    BY <1>2, <2>1, <2>2 DEF WsBoxApart, WsBoxed
<1> QED
  BY <1>1, <1>2, <1>4, <1>5

\* One task changes: the offers of the others stay where they are.
LEMMA WsTaskOffers ==
    ASSUME NEW t, NEW u, Len(u) = Len(t), NEW i \in 1..Len(t),
           \A j \in 1..Len(t) : j # i => u[j].offers = t[j].offers
    PROVE  /\ WsMade(t) = t[i].offers \cup WsRest(t, i)
           /\ WsMade(u) = u[i].offers \cup WsRest(t, i)
           /\ WsTasksApart(t) => t[i].offers \cap WsRest(t, i) = {}
           /\ WsTasksApart(t) /\ u[i].offers \cap WsRest(t, i) = {} => WsTasksApart(u)
<1>1. WsMade(t) = t[i].offers \cup WsRest(t, i)
  BY DEF WsMade, WsRest
<1>2. WsMade(u) = u[i].offers \cup WsRest(t, i)
  BY DEF WsMade, WsRest
<1>3. WsTasksApart(t) => t[i].offers \cap WsRest(t, i) = {}
  BY DEF WsTasksApart, WsRest
<1>4. ASSUME WsTasksApart(t), u[i].offers \cap WsRest(t, i) = {} PROVE WsTasksApart(u)
  <2> SUFFICES ASSUME NEW j \in 1..Len(t), NEW k \in 1..Len(t), j # k
               PROVE  u[j].offers \cap u[k].offers = {}
    BY DEF WsTasksApart
  <2>1. \A l \in 1..Len(t) : l # i => t[l].offers \cap u[i].offers = {}
    BY <1>4 DEF WsRest
  <2>2. CASE j = i
    BY <2>1, <2>2
  <2>3. CASE k = i
    BY <2>1, <2>3
  <2>4. CASE j # i /\ k # i
    BY <1>4, <2>4 DEF WsTasksApart
  <2> QED
    BY <2>2, <2>3, <2>4
<1> QED
  BY <1>1, <1>2, <1>3, <1>4

\* A task makes one of the offers it wants.
LEMMA WsOneLess ==
    ASSUME NEW t \in Seq(WsTask), NEW u \in Seq(WsTask), Len(u) = Len(t), NEW i \in 1..Len(t),
           \A j \in 1..Len(t) : j # i => u[j].want = t[j].want,
           t[i].want > 0, u[i].want = t[i].want - 1, IsFiniteSet(WsWants(t))
    PROVE  /\ IsFiniteSet(WsWants(u)) /\ Cardinality(WsWants(u)) = Cardinality(WsWants(t)) - 1
           /\ Cardinality(WsWants(t)) \in Nat
<1>0. u[i] \in WsTask /\ t[i] \in WsTask
  OBVIOUS
<1>1. PICK n \in Nat : n = u[i].want
  BY <1>0 DEF WsTask
<1>2. t[i].want = n + 1
  BY <1>0, <1>1 DEF WsTask
<1>3. 1..(n + 1) = (1..n) \cup {n + 1} /\ n + 1 \notin 1..n
  BY <1>1
<1>4. WsWants(u) = WsWants(t) \ {<<i, n + 1>>} /\ <<i, n + 1>> \in WsWants(t)
  <2>1. ASSUME NEW v, NEW p
        PROVE  p \in WsWants(v) <=> \E j \in 1..Len(v) : \E k \in 1..v[j].want : p = <<j, k>>
    BY DEF WsWants
  <2>2. <<i, n + 1>> \in WsWants(t)
    BY <1>2, <1>3, <2>1
  <2>3. ASSUME NEW p PROVE p \in WsWants(u) <=> p \in WsWants(t) /\ p # <<i, n + 1>>
    <3>1. ASSUME NEW j \in 1..Len(t), NEW k \in 1..u[j].want, p = <<j, k>>
          PROVE  p \in WsWants(t) /\ p # <<i, n + 1>>
      <4>1. CASE j = i
        <5>1. k \in 1..n /\ k \in 1..t[j].want /\ k # n + 1
          BY <1>1, <1>2, <1>3, <3>1, <4>1
        <5> QED
          BY <2>1, <3>1, <5>1
      <4>2. CASE j # i
        BY <2>1, <3>1, <4>2
      <4> QED
        BY <4>1, <4>2
    <3>2. ASSUME NEW j \in 1..Len(t), NEW k \in 1..t[j].want, p = <<j, k>>, p # <<i, n + 1>>
          PROVE  p \in WsWants(u)
      <4>1. k \in 1..u[j].want
        <5>1. CASE j = i
          BY <1>1, <1>2, <1>3, <3>2, <5>1
        <5>2. CASE j # i
          BY <3>2, <5>2
        <5> QED
          BY <5>1, <5>2
      <4> QED
        BY <2>1, <3>2, <4>1
    <3>3. ASSUME p \in WsWants(u) PROVE p \in WsWants(t) /\ p # <<i, n + 1>>
      <4>1. \E j \in 1..Len(u) : \E k \in 1..u[j].want : p = <<j, k>>
        BY <3>3 DEF WsWants
      <4>2. PICK j \in 1..Len(t) : \E k \in 1..u[j].want : p = <<j, k>>
        BY <4>1
      <4>3. PICK k \in 1..u[j].want : p = <<j, k>>
        BY <4>2
      <4> QED
        BY <3>1, <4>3, Zenon
    <3>4. ASSUME p \in WsWants(t), p # <<i, n + 1>> PROVE p \in WsWants(u)
      <4>1. \E j \in 1..Len(t) : \E k \in 1..t[j].want : p = <<j, k>>
        BY <3>4 DEF WsWants
      <4>2. PICK j \in 1..Len(t) : \E k \in 1..t[j].want : p = <<j, k>>
        BY <4>1
      <4>3. PICK k \in 1..t[j].want : p = <<j, k>>
        BY <4>2
      <4> QED
        BY <3>2, <3>4, <4>3, Zenon
    <3> QED
      BY <3>3, <3>4
  <2> QED
    BY <2>2, <2>3
<1> QED
  BY <1>4, FS_RemoveElement, FS_CardinalityType

\* A task that is started for one more offer.
LEMMA WsOneMore ==
    ASSUME NEW t \in Seq(WsTask), IsFiniteSet(WsWants(t)), NEW u, u = Append(t, T!Task(1))
    PROVE  /\ u \in Seq(WsTask) /\ IsFiniteSet(WsWants(u))
           /\ Cardinality(WsWants(u)) = Cardinality(WsWants(t)) + 1 /\ Cardinality(WsWants(t)) \in Nat
           /\ WsMade(u) = WsMade(t) /\ (WsTasksApart(t) => WsTasksApart(u))
           /\ \A i \in 1..Len(u) : u[i].at = "offers" => i \in 1..Len(t) /\ u[i] = t[i]
<1>1. PICK m \in WsTask : m = T!Task(1) /\ m.want = 1 /\ m.offers = {} /\ m.at = "sleep"
  BY DEF T!Task, WsTask
<1>2. PICK n \in Nat : n = Len(t)
  OBVIOUS
<1>3. /\ u \in Seq(WsTask) /\ Len(u) = n + 1 /\ u[n + 1] = m
      /\ \A i \in 1..n : u[i] = t[i]
  BY <1>1, <1>2
<1>4. 1..(n + 1) = (1..n) \cup {n + 1} /\ n + 1 \notin 1..n /\ 1..1 = {1}
  BY <1>2
<1>5. WsWants(u) = WsWants(t) \cup {<<n + 1, 1>>}
  <2>1. \A i \in 1..n : {i} \X (1..u[i].want) = {i} \X (1..t[i].want)
    BY <1>3
  <2>2. {n + 1} \X (1..u[n + 1].want) = {<<n + 1, 1>>}
    BY <1>1, <1>3, <1>4
  <2>3. WsWants(u) = (UNION {{i} \X (1..u[i].want) : i \in 1..n}) \cup ({n + 1} \X (1..u[n + 1].want))
    BY <1>3, <1>4 DEF WsWants
  <2>4. UNION {{i} \X (1..u[i].want) : i \in 1..n} = WsWants(t)
    BY <1>2, <2>1 DEF WsWants
  <2> QED
    BY <2>2, <2>3, <2>4
<1>6. <<n + 1, 1>> \notin WsWants(t)
  BY <1>2, <1>4 DEF WsWants
<1>7. WsMade(u) = WsMade(t)
  BY <1>1, <1>2, <1>3, <1>4 DEF WsMade
<1>8. ASSUME WsTasksApart(t) PROVE WsTasksApart(u)
  <2> SUFFICES ASSUME NEW i \in 1..Len(u), NEW j \in 1..Len(u), i # j
               PROVE  u[i].offers \cap u[j].offers = {}
    BY DEF WsTasksApart
  <2>1. CASE i \in 1..n /\ j \in 1..n
    BY <1>2, <1>3, <1>8, <2>1 DEF WsTasksApart
  <2>2. CASE i = n + 1 \/ j = n + 1
    BY <1>1, <1>3, <2>2
  <2> QED
    BY <1>3, <1>4, <2>1, <2>2
<1>9. \A i \in 1..Len(u) : u[i].at = "offers" => i \in 1..Len(t) /\ u[i] = t[i]
  BY <1>1, <1>2, <1>3, <1>4
<1> QED
  BY <1>3, <1>5, <1>6, <1>7, <1>8, <1>9, FS_AddElement, FS_CardinalityType

-----------------------------------------------------------------------------

LEMMA WsFinite ==
    ASSUME WsTypes
    PROVE  /\ IsFiniteSet(ws_outbound) /\ Cardinality(ws_outbound) \in Nat
           /\ Cardinality(WsWants(ws_tasks)) \in Nat /\ MaxOutstanding \in Nat
<1>1. IsFiniteSet(1..ws_made) /\ ws_outbound \subseteq 1..ws_made /\ IsFiniteSet(WsWants(ws_tasks))
  BY FS_Interval DEF WsTypes
<1>2. IsFiniteSet(ws_outbound)
  BY <1>1, FS_Subset
<1> QED
  BY <1>1, <1>2, FS_CardinalityType, WebTorrentAssumption

\* A step of one task.
LEMMA WsTaskSet ==
    ASSUME NEW t \in Seq(WsTask), NEW i \in 1..Len(t), NEW m \in WsTask, NEW u, u = [t EXCEPT ![i] = m]
    PROVE  /\ u \in Seq(WsTask) /\ Len(u) = Len(t) /\ u[i] = m
           /\ \A j \in 1..Len(t) : j # i => u[j] = t[j]
OBVIOUS

\* A task that makes an offer, and one that fails to.
LEMMA WsTaskMakes ==
    ASSUME NEW s \in WsTask, s.want > 0, NEW o \in Nat, NEW m,
           m = [s EXCEPT !.want = @ - 1, !.offers = @ \cup {o}]
    PROVE  m \in WsTask /\ m.want = s.want - 1 /\ m.offers = s.offers \cup {o} /\ m.tx = s.tx
<1>1. /\ s.want \in Nat /\ s.want - 1 \in Nat /\ s.offers \cup {o} \in SUBSET Nat
      /\ s.at \in {"sleep", "offers", "done"} /\ s.tx \in Nat
  BY DEF WsTask
<1>2. m = [at |-> s.at, want |-> s.want - 1, offers |-> s.offers \cup {o}, tx |-> s.tx]
  BY DEF WsTask
<1> QED
  BY <1>1, <1>2 DEF WsTask

LEMMA WsTaskFails ==
    ASSUME NEW s \in WsTask, s.want > 0, NEW m, m = [s EXCEPT !.want = @ - 1]
    PROVE  m \in WsTask /\ m.want = s.want - 1
<1>1. /\ s.want \in Nat /\ s.want - 1 \in Nat /\ s.offers \in SUBSET Nat
      /\ s.at \in {"sleep", "offers", "done"} /\ s.tx \in Nat
  BY DEF WsTask
<1>2. m = [at |-> s.at, want |-> s.want - 1, offers |-> s.offers, tx |-> s.tx]
  BY DEF WsTask
<1> QED
  BY <1>1, <1>2 DEF WsTask

LEMMA WsSameWants ==
    ASSUME NEW t, NEW u, Len(u) = Len(t), \A j \in 1..Len(t) : u[j].want = t[j].want
    PROVE  WsWants(u) = WsWants(t)
BY DEF WsWants

\* A failure, or the end of the client: only the bound is left to show.
LEMMA WsFailed ==
    ASSUME WsTypes', WsCount' <= MaxOutstanding, ws_faults' > 0 \/ ws_ws' = "closed"
    PROVE  WsInv'
BY DEF WsInv, WsSteady, WsTypes

LEMMA WsAnnounceStarts ==
    ASSUME WsInv, NEW i \in 1..Len(ws_tasks), T!AnnounceStarts(i)
    PROVE  WsInv'
<1>1. /\ ws_tasks[i].at = "sleep" /\ ws_ws # "closed"
      /\ ws_tasks' = [ws_tasks EXCEPT ![i].at = "offers", ![i].tx = ws_tx]
      /\ ws_outbound' = ws_outbound \ ws_old
      /\ UNCHANGED <<ws_ws, ws_tx, ws_rx, ws_box, ws_old, ws_made, ws_known, ws_faults>>
  BY DEF T!AnnounceStarts, T!sock
<1>2. WsTypes /\ ws_tasks \in Seq(WsTask) /\ ws_tx \in Nat /\ ws_tasks[i] \in WsTask
  BY DEF WsInv, WsTypes
<1>3. PICK m : m = [ws_tasks[i] EXCEPT !.at = "offers", !.tx = ws_tx]
  OBVIOUS
<1>4. m \in WsTask /\ m.want = ws_tasks[i].want /\ m.offers = ws_tasks[i].offers /\ m.tx = ws_tx
  BY <1>2, <1>3 DEF WsTask
<1>5. ws_tasks' = [ws_tasks EXCEPT ![i] = m]
  BY <1>1, <1>2, <1>3
<1>6. /\ ws_tasks' \in Seq(WsTask) /\ Len(ws_tasks') = Len(ws_tasks) /\ ws_tasks'[i] = m
      /\ \A j \in 1..Len(ws_tasks) : j # i => ws_tasks'[j] = ws_tasks[j]
  BY <1>2, <1>4, <1>5, WsTaskSet
<1>7. /\ \A j \in 1..Len(ws_tasks) : ws_tasks'[j].want = ws_tasks[j].want
      /\ \A j \in 1..Len(ws_tasks) : ws_tasks'[j].offers = ws_tasks[j].offers
  BY <1>4, <1>6
<1>8. WsWants(ws_tasks') = WsWants(ws_tasks)
  BY <1>6, <1>7, WsSameWants
<1>9. WsMade(ws_tasks') = WsMade(ws_tasks) /\ (WsTasksApart(ws_tasks) => WsTasksApart(ws_tasks'))
  BY <1>6, <1>7 DEF WsMade, WsTasksApart
<1>10. WsTypes'
  BY <1>1, <1>2, <1>6, <1>8 DEF WsTypes
<1>11. Cardinality(ws_outbound') <= Cardinality(ws_outbound) /\ Cardinality(ws_outbound') \in Nat
  BY <1>1, <1>2, WsFinite, FS_Subset, FS_CardinalityType
<1>12. WsCount' <= MaxOutstanding
  <2>1. WsCount <= MaxOutstanding
    BY DEF WsInv
  <2> QED
    BY <1>1, <1>2, <1>8, <1>11, <2>1, WsFinite DEF WsCount
<1>13. ASSUME ws_faults = 0 PROVE (WsCount = MaxOutstanding /\ WsOneOutbox /\ WsPlaces)'
  <2>1. WsCount = MaxOutstanding /\ WsOneOutbox /\ WsPlaces
    BY <1>1, <1>13 DEF WsInv, WsSteady
  <2>2. ws_outbound' = ws_outbound
    BY <1>1, <2>1 DEF WsOneOutbox
  <2>3. WsCount' = MaxOutstanding
    BY <1>1, <1>8, <2>1, <2>2 DEF WsCount
  <2>4. WsOneOutbox'
    BY <1>1, <1>4, <1>6, <2>1 DEF WsOneOutbox
  <2>5. WsPlaces'
    BY <1>1, <1>9, <2>1, <2>2 DEF WsPlaces
  <2> QED
    BY <2>3, <2>4, <2>5
<1> QED
  BY <1>1, <1>10, <1>12, <1>13 DEF WsInv, WsSteady

\* The new offer is in no other place: it has not been made before.
LEMMA WsCreateOffer ==
    ASSUME WsInv, NEW i \in 1..Len(ws_tasks), T!CreateOffer(i)
    PROVE  WsInv'
<1>1. PICK o : o = ws_made + 1
  OBVIOUS
<1>2. /\ ws_tasks[i].at = "offers" /\ ws_tasks[i].want > 0
      /\ ws_made' = ws_made + 1 /\ ws_outbound' = ws_outbound \cup {o}
      /\ ws_tasks' = [ws_tasks EXCEPT ![i].want = @ - 1, ![i].offers = @ \cup {o}]
      /\ UNCHANGED <<ws_ws, ws_tx, ws_rx, ws_box, ws_old, ws_known, ws_faults>>
  BY <1>1 DEF T!CreateOffer, T!sock
<1>3. WsTypes /\ ws_tasks \in Seq(WsTask) /\ ws_made \in Nat /\ ws_tasks[i] \in WsTask
  BY DEF WsInv, WsTypes
<1>4. o \in Nat /\ o \in 1..ws_made' /\ 1..ws_made \subseteq 1..ws_made' /\ o \notin 1..ws_made
  BY <1>1, <1>2, <1>3
<1>5. PICK m : m = [ws_tasks[i] EXCEPT !.want = @ - 1, !.offers = @ \cup {o}]
  OBVIOUS
<1>6. /\ m \in WsTask /\ m.want = ws_tasks[i].want - 1 /\ m.offers = ws_tasks[i].offers \cup {o}
      /\ m.tx = ws_tasks[i].tx
  <2>1. ws_tasks[i] \in WsTask /\ ws_tasks[i].want > 0 /\ o \in Nat
    BY <1>2, <1>3, <1>4
  <2>2. PICK s : s = ws_tasks[i]
    OBVIOUS
  <2>3. s \in WsTask /\ s.want > 0 /\ m = [s EXCEPT !.want = @ - 1, !.offers = @ \cup {o}]
    BY <1>5, <2>1, <2>2
  <2>4. m \in WsTask /\ m.want = s.want - 1 /\ m.offers = s.offers \cup {o} /\ m.tx = s.tx
    BY <2>1, <2>3, WsTaskMakes
  <2> QED
    BY <2>2, <2>4
<1>7. ws_tasks' = [ws_tasks EXCEPT ![i] = m]
  BY <1>2, <1>3, <1>5
<1>8. /\ ws_tasks' \in Seq(WsTask) /\ Len(ws_tasks') = Len(ws_tasks) /\ ws_tasks'[i] = m
      /\ \A j \in 1..Len(ws_tasks) : j # i => ws_tasks'[j] = ws_tasks[j]
  BY <1>3, <1>6, <1>7, WsTaskSet
<1>9. /\ IsFiniteSet(WsWants(ws_tasks'))
      /\ Cardinality(WsWants(ws_tasks')) = Cardinality(WsWants(ws_tasks)) - 1
  <2>1. IsFiniteSet(WsWants(ws_tasks))
    BY <1>3 DEF WsTypes
  <2>2. \A j \in 1..Len(ws_tasks) : j # i => ws_tasks'[j].want = ws_tasks[j].want
    BY <1>8
  <2>3. ws_tasks'[i].want = ws_tasks[i].want - 1
    BY <1>6, <1>8
  <2> QED
    BY <1>2, <1>3, <1>8, <2>1, <2>2, <2>3, WsOneLess
<1>10. o \notin ws_outbound /\ ws_outbound' \subseteq 1..ws_made'
  BY <1>2, <1>3, <1>4 DEF WsTypes
<1>11. Cardinality(ws_outbound') = Cardinality(ws_outbound) + 1
  BY <1>2, <1>3, <1>10, WsFinite, FS_AddElement
<1>12. WsTypes'
  BY <1>2, <1>3, <1>8, <1>9, <1>10 DEF WsTypes
<1>13. WsCount' = WsCount
  BY <1>2, <1>3, <1>9, <1>11, WsFinite DEF WsCount
<1>14. ASSUME ws_faults = 0, ws_ws # "closed" PROVE (WsCount = MaxOutstanding /\ WsOneOutbox /\ WsPlaces)'
  <2>1. WsCount = MaxOutstanding /\ WsOneOutbox /\ WsPlaces
    BY <1>14 DEF WsInv, WsSteady
  <2>2. WsOneOutbox'
    BY <1>2, <1>6, <1>8, <2>1 DEF WsOneOutbox
  <2>3. /\ WsMade(ws_tasks) = ws_tasks[i].offers \cup WsRest(ws_tasks, i)
        /\ WsMade(ws_tasks') = ws_tasks'[i].offers \cup WsRest(ws_tasks, i)
        /\ WsTasksApart(ws_tasks) => ws_tasks[i].offers \cap WsRest(ws_tasks, i) = {}
        /\ WsTasksApart(ws_tasks) /\ ws_tasks'[i].offers \cap WsRest(ws_tasks, i) = {}
             => WsTasksApart(ws_tasks')
    BY <1>8, WsTaskOffers
  <2>4. WsMade(ws_tasks') = WsMade(ws_tasks) \cup {o}
    BY <1>6, <1>8, <2>3
  <2>5. o \notin ws_known /\ o \notin WsBoxed(ws_box) /\ o \notin WsMade(ws_tasks)
    BY <1>10, <2>1 DEF WsPlaces
  <2>6. WsTasksApart(ws_tasks')
    <3>1. ws_tasks'[i].offers \cap WsRest(ws_tasks, i) = {}
      BY <1>6, <1>8, <2>1, <2>3, <2>5 DEF WsPlaces
    <3> QED
      BY <2>1, <2>3, <3>1 DEF WsPlaces
  <2>7. WsPlaces'
    BY <1>2, <2>1, <2>4, <2>5, <2>6 DEF WsPlaces
  <2> QED
    BY <1>13, <2>1, <2>2, <2>7
<1> QED
  BY <1>2, <1>12, <1>13, <1>14 DEF WsInv, WsSteady

LEMMA WsCreateFails ==
    ASSUME WsInv, NEW i \in 1..Len(ws_tasks), T!CreateFails(i)
    PROVE  WsInv'
<1>1. /\ ws_tasks[i].want > 0 /\ ws_faults' = ws_faults + 1
      /\ ws_tasks' = [ws_tasks EXCEPT ![i].want = @ - 1]
      /\ UNCHANGED <<ws_ws, ws_tx, ws_rx, ws_box, ws_outbound, ws_made>>
  BY DEF T!CreateFails, T!Fault, T!sock
<1>2. WsTypes /\ ws_tasks \in Seq(WsTask) /\ ws_faults \in Nat /\ ws_tasks[i] \in WsTask
  BY DEF WsInv, WsTypes
<1>3. PICK m : m = [ws_tasks[i] EXCEPT !.want = @ - 1]
  OBVIOUS
<1>4. m \in WsTask /\ m.want = ws_tasks[i].want - 1
  BY <1>1, <1>2, <1>3, WsTaskFails
<1>5. ws_tasks' = [ws_tasks EXCEPT ![i] = m]
  BY <1>1, <1>2, <1>3
<1>6. /\ ws_tasks' \in Seq(WsTask) /\ Len(ws_tasks') = Len(ws_tasks) /\ ws_tasks'[i] = m
      /\ \A j \in 1..Len(ws_tasks) : j # i => ws_tasks'[j] = ws_tasks[j]
  BY <1>2, <1>4, <1>5, WsTaskSet
<1>7. /\ IsFiniteSet(WsWants(ws_tasks'))
      /\ Cardinality(WsWants(ws_tasks')) = Cardinality(WsWants(ws_tasks)) - 1
  <2>1. IsFiniteSet(WsWants(ws_tasks))
    BY <1>2 DEF WsTypes
  <2>2. \A j \in 1..Len(ws_tasks) : j # i => ws_tasks'[j].want = ws_tasks[j].want
    BY <1>6
  <2>3. ws_tasks'[i].want = ws_tasks[i].want - 1
    BY <1>4, <1>6
  <2> QED
    BY <1>1, <1>2, <1>6, <2>1, <2>2, <2>3, WsOneLess
<1>8. WsTypes'
  BY <1>1, <1>2, <1>6, <1>7 DEF WsTypes
<1>9. WsCount' <= MaxOutstanding
  <2>1. WsCount <= MaxOutstanding
    BY DEF WsInv
  <2> QED
    BY <1>1, <1>2, <1>7, <2>1, WsFinite DEF WsCount
<1> QED
  BY <1>1, <1>2, <1>8, <1>9, WsFailed

\* The offers of an announce go to the outbox.
LEMMA WsSendAnnounce ==
    ASSUME WsInv, NEW i \in 1..Len(ws_tasks), T!SendAnnounce(i)
    PROVE  WsInv'
<1>1. PICK x : x = ws_tasks[i].offers
  OBVIOUS
<1>2. /\ ws_tasks[i].at = "offers"
      /\ ws_tasks' = [ws_tasks EXCEPT ![i].at = "done", ![i].offers = {}]
      /\ ws_box' = IF ws_rx.at # "none" /\ ws_rx.gen = ws_tasks[i].tx THEN Append(ws_box, x) ELSE ws_box
      /\ UNCHANGED <<ws_ws, ws_tx, ws_rx, ws_outbound, ws_old, ws_made, ws_known, ws_faults>>
  BY <1>1 DEF T!SendAnnounce, T!sock
<1>3. /\ WsTypes /\ ws_tasks \in Seq(WsTask) /\ ws_tasks[i] \in WsTask /\ ws_box \in Seq(SUBSET Nat)
      /\ x \in SUBSET Nat
  <2>1. WsTypes /\ ws_tasks \in Seq(WsTask) /\ ws_tasks[i] \in WsTask /\ ws_box \in Seq(SUBSET Nat)
    BY DEF WsInv, WsTypes
  <2> QED
    BY <1>1, <2>1 DEF WsTask
<1>4. PICK m : m = [ws_tasks[i] EXCEPT !.at = "done", !.offers = {}]
  OBVIOUS
<1>5. m \in WsTask /\ m.want = ws_tasks[i].want /\ m.offers = {} /\ m.at = "done"
  BY <1>3, <1>4 DEF WsTask
<1>6. ws_tasks' = [ws_tasks EXCEPT ![i] = m]
  BY <1>2, <1>3, <1>4
<1>7. /\ ws_tasks' \in Seq(WsTask) /\ Len(ws_tasks') = Len(ws_tasks) /\ ws_tasks'[i] = m
      /\ \A j \in 1..Len(ws_tasks) : j # i => ws_tasks'[j] = ws_tasks[j]
  BY <1>3, <1>5, <1>6, WsTaskSet
<1>8. WsWants(ws_tasks') = WsWants(ws_tasks)
  <2>1. \A j \in 1..Len(ws_tasks) : ws_tasks'[j].want = ws_tasks[j].want
    BY <1>5, <1>7
  <2> QED
    BY <1>7, <2>1, WsSameWants
<1>9. ws_box' \in Seq(SUBSET Nat)
  BY <1>2, <1>3, WsBoxAppend
<1>10. WsTypes'
  BY <1>2, <1>3, <1>7, <1>8, <1>9 DEF WsTypes
<1>11. WsCount' = WsCount
  BY <1>2, <1>8 DEF WsCount
<1>12. ASSUME ws_faults = 0, ws_ws # "closed" PROVE (WsCount = MaxOutstanding /\ WsOneOutbox /\ WsPlaces)'
  <2>1. WsCount = MaxOutstanding /\ WsOneOutbox /\ WsPlaces
    BY <1>12 DEF WsInv, WsSteady
  <2>2. ws_box' = Append(ws_box, x)
    BY <1>2, <2>1 DEF WsOneOutbox
  <2>3. WsOneOutbox'
    BY <1>2, <1>5, <1>7, <2>1 DEF WsOneOutbox
  <2>4. /\ WsMade(ws_tasks) = x \cup WsRest(ws_tasks, i)
        /\ WsMade(ws_tasks') = m.offers \cup WsRest(ws_tasks, i)
        /\ WsTasksApart(ws_tasks) => x \cap WsRest(ws_tasks, i) = {}
        /\ WsTasksApart(ws_tasks) /\ m.offers \cap WsRest(ws_tasks, i) = {} => WsTasksApart(ws_tasks')
    BY <1>1, <1>7, WsTaskOffers
  <2>5. x \cap WsBoxed(ws_box) = {} /\ WsBoxApart(ws_box)
    BY <2>1, <2>4 DEF WsPlaces
  <2>6. WsBoxed(ws_box') = WsBoxed(ws_box) \cup x /\ WsBoxApart(ws_box')
    BY <1>3, <2>2, <2>5, WsBoxAppend
  <2>7. WsPlaces'
    BY <1>2, <1>5, <2>1, <2>4, <2>6 DEF WsPlaces
  <2> QED
    BY <1>11, <2>1, <2>3, <2>7
<1> QED
  BY <1>2, <1>10, <1>11, <1>12 DEF WsInv, WsSteady

\* While nothing fails the receiver is at hand: it is not replaced.
LEMMA WsConnect ==
    ASSUME WsInv, T!Connect
    PROVE  WsInv'
<1>1. /\ ws_ws = "down" /\ ws_ws' = "up"
      /\ IF ws_rx.at = "none" THEN ws_tx' = ws_tx + 1 /\ ws_rx' = [at |-> "taken", gen |-> ws_tx + 1]
         ELSE ws_rx' = [ws_rx EXCEPT !.at = "taken"] /\ ws_tx' = ws_tx
      /\ UNCHANGED <<ws_box, ws_outbound, ws_old, ws_tasks, ws_made, ws_known, ws_faults>>
  BY DEF T!Connect
<1>2. WsTypes /\ ws_rx \in WsReceiver /\ ws_tx \in Nat
  BY DEF WsInv, WsTypes
<1>3. ws_rx' \in WsReceiver /\ ws_tx' \in Nat
  BY <1>1, <1>2 DEF WsReceiver
<1>4. WsTypes'
  BY <1>1, <1>2, <1>3 DEF WsTypes
<1>5. WsCount' = WsCount
  BY <1>1 DEF WsCount
<1>6. ASSUME ws_faults = 0 PROVE (WsCount = MaxOutstanding /\ WsOneOutbox /\ WsPlaces)'
  <2>1. WsCount = MaxOutstanding /\ WsOneOutbox /\ WsPlaces
    BY <1>1, <1>6 DEF WsInv, WsSteady
  <2>2. ws_rx' = [ws_rx EXCEPT !.at = "taken"] /\ ws_tx' = ws_tx
    BY <1>1, <2>1 DEF WsOneOutbox
  <2>3. ws_rx'.gen = ws_rx.gen /\ ws_rx'.at = "taken"
    BY <1>2, <2>2 DEF WsReceiver
  <2>4. WsOneOutbox'
    BY <1>1, <2>1, <2>2, <2>3 DEF WsOneOutbox
  <2>5. WsPlaces'
    BY <1>1, <2>1 DEF WsPlaces
  <2> QED
    BY <1>5, <2>1, <2>4, <2>5
<1> QED
  BY <1>1, <1>4, <1>5, <1>6 DEF WsInv, WsSteady

\* The offers of the first announce go to the tracker.
LEMMA WsSendOut ==
    ASSUME WsInv, T!SendOut
    PROVE  WsInv'
<1>1. /\ ws_ws = "up" /\ ws_box # <<>> /\ ws_box' = Tail(ws_box) /\ ws_known' = ws_known \cup Head(ws_box)
      /\ UNCHANGED <<ws_ws, ws_tx, ws_rx, ws_outbound, ws_old, ws_tasks, ws_made, ws_faults>>
  BY DEF T!SendOut, T!sock
<1>2. WsTypes /\ ws_box \in Seq(SUBSET Nat)
  BY DEF WsInv, WsTypes
<1>3. /\ ws_box' \in Seq(SUBSET Nat)
      /\ WsBoxed(ws_box) = Head(ws_box) \cup WsBoxed(ws_box')
      /\ WsBoxApart(ws_box) => WsBoxApart(ws_box') /\ Head(ws_box) \cap WsBoxed(ws_box') = {}
  BY <1>1, <1>2, WsBoxTail
<1>4. WsTypes'
  BY <1>1, <1>2, <1>3 DEF WsTypes
<1>5. WsCount' = WsCount
  BY <1>1 DEF WsCount
<1>6. ASSUME ws_faults = 0 PROVE (WsCount = MaxOutstanding /\ WsOneOutbox /\ WsPlaces)'
  <2>1. WsCount = MaxOutstanding /\ WsOneOutbox /\ WsPlaces
    BY <1>1, <1>6 DEF WsInv, WsSteady
  <2>2. WsOneOutbox'
    BY <1>1, <2>1 DEF WsOneOutbox
  <2>3. WsPlaces'
    <3>1. PICK h : h = Head(ws_box)
      OBVIOUS
    <3>2. /\ WsBoxed(ws_box) = h \cup WsBoxed(ws_box') /\ h \cap WsBoxed(ws_box') = {}
          /\ ws_known' = ws_known \cup h /\ WsBoxApart(ws_box')
      BY <1>1, <1>3, <2>1, <3>1 DEF WsPlaces
    <3> QED
      BY <1>1, <2>1, <3>2 DEF WsPlaces
  <2> QED
    BY <1>5, <2>1, <2>2, <2>3
<1> QED
  BY <1>1, <1>4, <1>5, <1>6 DEF WsInv, WsSteady

\* The socket ends, an accept fails, an offer grows old, the client closes.
LEMMA WsEnds ==
    ASSUME WsInv,
           T!WsFails \/ T!WsCloses \/ T!AcceptFails \/ (\E o \in 1..ws_made : T!Expire(o)) \/ T!Close
    PROVE  WsInv'
<1>1. WsTypes /\ ws_rx \in WsReceiver /\ ws_faults \in Nat
  BY DEF WsInv, WsTypes
<1>2. /\ UNCHANGED <<ws_tx, ws_outbound, ws_tasks, ws_made>>
      /\ ws_rx' = ws_rx \/ ws_rx' = [ws_rx EXCEPT !.at = "none"] \/ ws_rx' = [ws_rx EXCEPT !.at = "kept"]
      /\ ws_box' = ws_box \/ ws_box' = <<>>
  BY DEF T!WsFails, T!WsCloses, T!AcceptFails, T!Expire, T!Close, T!sock
<1>3. /\ ws_ws' \in {"down", "up", "closed"} \/ ws_ws' = ws_ws
      /\ ws_faults' = ws_faults + 1 \/ (ws_faults' = ws_faults /\ ws_ws' = "closed")
  BY DEF T!WsFails, T!WsCloses, T!AcceptFails, T!Expire, T!Close, T!sock, T!Fault
<1>4. ws_rx' \in WsReceiver
  BY <1>1, <1>2 DEF WsReceiver
<1>5. ws_box' \in Seq(SUBSET Nat)
  <2>1. ws_box \in Seq(SUBSET Nat) /\ <<>> \in Seq(SUBSET Nat)
    BY <1>1 DEF WsTypes
  <2> QED
    BY <1>2, <2>1
<1>6. ws_faults' \in Nat /\ (ws_faults' > 0 \/ ws_ws' = "closed")
  BY <1>1, <1>3
<1>7. ws_ws' \in {"down", "up", "accepts", "closed"}
  BY <1>1, <1>3 DEF WsTypes
<1>8. WsTypes'
  BY <1>1, <1>2, <1>4, <1>5, <1>6, <1>7 DEF WsTypes
<1>9. WsCount' <= MaxOutstanding
  <2>1. WsCount <= MaxOutstanding
    BY DEF WsInv
  <2>2. (IF ws_ws' = "accepts" THEN 1 ELSE 0) <= (IF ws_ws = "accepts" THEN 1 ELSE 0)
    BY <1>3
  <2> QED
    BY <1>1, <1>2, <2>1, <2>2, WsFinite DEF WsCount
<1> QED
  BY <1>6, <1>8, <1>9, WsFailed

\* An answered offer is outstanding no more: it is being accepted.
LEMMA WsAnswer ==
    ASSUME WsInv, NEW o, T!Answer(o)
    PROVE  WsInv'
<1>1. /\ ws_ws = "up" /\ o \in ws_known
      /\ ws_known' = ws_known \ {o} /\ ws_outbound' = ws_outbound \ {o}
      /\ ws_ws' = IF o \in ws_outbound THEN "accepts" ELSE ws_ws
      /\ UNCHANGED <<ws_tx, ws_rx, ws_box, ws_old, ws_tasks, ws_made, ws_faults>>
  BY DEF T!Answer
<1>2. WsTypes
  BY DEF WsInv
<1>3. WsTypes'
  BY <1>1, <1>2 DEF WsTypes
<1>4. Cardinality(ws_outbound') = IF o \in ws_outbound THEN Cardinality(ws_outbound) - 1
                                  ELSE Cardinality(ws_outbound)
  BY <1>1, <1>2, WsFinite, FS_RemoveElement
<1>5. WsCount' = WsCount
  BY <1>1, <1>2, <1>4, WsFinite DEF WsCount
<1>6. ASSUME ws_faults = 0 PROVE (WsCount = MaxOutstanding /\ WsOneOutbox /\ WsPlaces)'
  <2>1. WsCount = MaxOutstanding /\ WsOneOutbox /\ WsPlaces
    BY <1>1, <1>6 DEF WsInv, WsSteady
  <2>2. WsOneOutbox'
    BY <1>1, <2>1 DEF WsOneOutbox
  <2>3. WsPlaces'
    BY <1>1, <2>1 DEF WsPlaces
  <2> QED
    BY <1>5, <2>1, <2>2, <2>3
<1> QED
  BY <1>1, <1>3, <1>5, <1>6 DEF WsInv, WsSteady

\* The offer that was accepted is wanted again.
LEMMA WsAccepted ==
    ASSUME WsInv, T!Accepted
    PROVE  WsInv'
<1>1. /\ ws_ws = "accepts" /\ ws_ws' = "up" /\ ws_tasks' = Append(ws_tasks, T!Task(1))
      /\ UNCHANGED <<ws_tx, ws_rx, ws_box, ws_outbound, ws_old, ws_made, ws_known, ws_faults>>
  BY DEF T!Accepted
<1>2. WsTypes /\ ws_tasks \in Seq(WsTask) /\ IsFiniteSet(WsWants(ws_tasks))
  BY DEF WsInv, WsTypes
<1>3. /\ ws_tasks' \in Seq(WsTask) /\ IsFiniteSet(WsWants(ws_tasks'))
      /\ Cardinality(WsWants(ws_tasks')) = Cardinality(WsWants(ws_tasks)) + 1
      /\ WsMade(ws_tasks') = WsMade(ws_tasks) /\ (WsTasksApart(ws_tasks) => WsTasksApart(ws_tasks'))
      /\ \A i \in 1..Len(ws_tasks') :
            ws_tasks'[i].at = "offers" => i \in 1..Len(ws_tasks) /\ ws_tasks'[i] = ws_tasks[i]
  BY <1>1, <1>2, WsOneMore
<1>4. WsTypes'
  BY <1>1, <1>2, <1>3 DEF WsTypes
<1>5. WsCount' = WsCount
  BY <1>1, <1>2, <1>3, WsFinite DEF WsCount
<1>6. ASSUME ws_faults = 0 PROVE (WsCount = MaxOutstanding /\ WsOneOutbox /\ WsPlaces)'
  <2>1. WsCount = MaxOutstanding /\ WsOneOutbox /\ WsPlaces
    BY <1>1, <1>6 DEF WsInv, WsSteady
  <2>2. WsOneOutbox'
    BY <1>1, <1>3, <2>1 DEF WsOneOutbox
  <2>3. WsPlaces'
    BY <1>1, <1>3, <2>1 DEF WsPlaces
  <2> QED
    BY <1>5, <2>1, <2>2, <2>3
<1> QED
  BY <1>1, <1>4, <1>5, <1>6 DEF WsInv, WsSteady

\* The answer to another peer's offer carries no offer of ours.
LEMMA WsOffered ==
    ASSUME WsInv, T!Offered
    PROVE  WsInv'
<1>1. /\ ws_ws = "up" /\ (ws_box' = Append(ws_box, {}) \/ ws_box' = ws_box)
      /\ UNCHANGED <<ws_ws, ws_tx, ws_rx, ws_outbound, ws_old, ws_tasks, ws_made, ws_known, ws_faults>>
  BY DEF T!Offered, T!sock
<1>2. WsTypes /\ ws_box \in Seq(SUBSET Nat)
  BY DEF WsInv, WsTypes
<1>3. /\ ws_box' \in Seq(SUBSET Nat) /\ WsBoxed(ws_box') = WsBoxed(ws_box)
      /\ WsBoxApart(ws_box) => WsBoxApart(ws_box')
  <2>1. PICK x \in SUBSET Nat : x = {}
    OBVIOUS
  <2>2. /\ Append(ws_box, x) \in Seq(SUBSET Nat) /\ WsBoxed(Append(ws_box, x)) = WsBoxed(ws_box) \cup x
        /\ WsBoxApart(ws_box) /\ x \cap WsBoxed(ws_box) = {} => WsBoxApart(Append(ws_box, x))
    BY <1>2, WsBoxAppend
  <2>3. CASE ws_box' = ws_box
    BY <1>2, <2>3
  <2>4. CASE ws_box' = Append(ws_box, {})
    BY <2>1, <2>2, <2>4
  <2> QED
    BY <1>1, <2>3, <2>4
<1>4. WsTypes'
  BY <1>1, <1>2, <1>3 DEF WsTypes
<1>5. WsCount' = WsCount
  BY <1>1 DEF WsCount
<1>6. ASSUME ws_faults = 0 PROVE (WsCount = MaxOutstanding /\ WsOneOutbox /\ WsPlaces)'
  <2>1. WsCount = MaxOutstanding /\ WsOneOutbox /\ WsPlaces
    BY <1>1, <1>6 DEF WsInv, WsSteady
  <2>2. WsOneOutbox'
    BY <1>1, <2>1 DEF WsOneOutbox
  <2>3. WsPlaces'
    BY <1>1, <1>3, <2>1 DEF WsPlaces
  <2> QED
    BY <1>5, <2>1, <2>2, <2>3
<1> QED
  BY <1>1, <1>4, <1>5, <1>6 DEF WsInv, WsSteady

LEMMA WsInit == T!Init => WsInv
<1> SUFFICES ASSUME T!Init PROVE WsInv
  OBVIOUS
<1>1. /\ ws_ws = "down" /\ ws_tx = 1 /\ ws_rx = [at |-> "kept", gen |-> 1] /\ ws_box = <<>>
      /\ ws_outbound = {} /\ ws_old = {} /\ ws_tasks = <<T!Task(MaxOutstanding)>>
      /\ ws_made = 0 /\ ws_known = {} /\ ws_faults = 0
  BY DEF T!Init
<1>2. PICK m : m = T!Task(MaxOutstanding)
  OBVIOUS
<1>3. m \in WsTask /\ m.want = MaxOutstanding /\ m.offers = {} /\ m.at = "sleep"
  BY <1>2, WebTorrentAssumption DEF T!Task, WsTask
<1>4. ws_tasks \in Seq(WsTask) /\ Len(ws_tasks) = 1 /\ ws_tasks[1] = m /\ 1..1 = {1}
  BY <1>1, <1>2, <1>3
<1>5. IsFiniteSet(WsWants(ws_tasks)) /\ Cardinality(WsWants(ws_tasks)) = MaxOutstanding
  <2>1. WsWants(ws_tasks) = {1} \X (1..MaxOutstanding)
    BY <1>3, <1>4 DEF WsWants
  <2>2. IsFiniteSet({1}) /\ Cardinality({1}) = 1
    BY FS_Singleton
  <2>3. IsFiniteSet(1..MaxOutstanding) /\ Cardinality(1..MaxOutstanding) = MaxOutstanding
    BY FS_Interval, WebTorrentAssumption
  <2>4. IsFiniteSet({1} \X (1..MaxOutstanding))
        /\ Cardinality({1} \X (1..MaxOutstanding)) = Cardinality({1}) * Cardinality(1..MaxOutstanding)
    BY <2>2, <2>3, FS_Product
  <2> QED
    BY <2>1, <2>2, <2>3, <2>4, WebTorrentAssumption
<1>6. WsTypes
  BY <1>1, <1>4, <1>5 DEF WsTypes, WsReceiver
<1>7. Cardinality(ws_outbound) = 0
  BY <1>1, FS_EmptySet
<1>8. WsCount = MaxOutstanding
  BY <1>1, <1>5, <1>7, WebTorrentAssumption DEF WsCount
<1>9. WsOneOutbox
  BY <1>1, <1>3, <1>4 DEF WsOneOutbox
<1>10. WsPlaces
  <2>1. WsMade(ws_tasks) = {} /\ WsTasksApart(ws_tasks)
    BY <1>3, <1>4 DEF WsMade, WsTasksApart
  <2>2. WsBoxed(ws_box) = {} /\ WsBoxApart(ws_box)
    BY <1>1 DEF WsBoxed, WsBoxApart
  <2> QED
    BY <1>1, <2>1, <2>2 DEF WsPlaces
<1> QED
  BY <1>6, <1>8, <1>9, <1>10, WebTorrentAssumption DEF WsInv, WsSteady

LEMMA WsNext == WsInv /\ [T!Next]_T!vars => WsInv'
<1> SUFFICES ASSUME WsInv, [T!Next]_T!vars PROVE WsInv'
  OBVIOUS
<1>1. CASE T!Next
  <2>1. ASSUME NEW i \in 1..Len(ws_tasks),
               T!AnnounceStarts(i) \/ T!CreateOffer(i) \/ T!CreateFails(i) \/ T!SendAnnounce(i)
        PROVE  WsInv'
    BY <2>1, WsAnnounceStarts, WsCreateOffer, WsCreateFails, WsSendAnnounce
  <2>2. CASE T!Connect \/ T!SendOut \/ T!Accepted \/ T!Offered
    BY <2>2, WsConnect, WsSendOut, WsAccepted, WsOffered
  <2>3. CASE T!WsFails \/ T!WsCloses \/ T!AcceptFails \/ T!Close \/ \E o \in 1..ws_made : T!Expire(o)
    BY <2>3, WsEnds
  <2>4. ASSUME NEW o \in 1..ws_made, T!Answer(o) PROVE WsInv'
    BY <2>4, WsAnswer
  <2> QED
    BY <1>1, <2>1, <2>2, <2>3, <2>4 DEF T!Next
<1>2. CASE UNCHANGED T!vars
  <2>1. UNCHANGED <<ws_ws, ws_tx, ws_rx, ws_box, ws_outbound, ws_old, ws_tasks, ws_made, ws_known, ws_faults>>
    BY <1>2 DEF T!vars
  <2> QED
    BY <2>1 DEF WsInv, WsTypes, WsCount, WsSteady, WsOneOutbox, WsPlaces
<1> QED
  BY <1>1, <1>2

LEMMA WsKept == WsInv => OffersAreKept
<1> SUFFICES ASSUME WsInv PROVE OffersAreKept
  OBVIOUS
<1>1. WsTypes /\ WsCount <= MaxOutstanding
  BY DEF WsInv
<1>2. T!OffersAreBounded
  <2>1. Cardinality(ws_outbound) <= MaxOutstanding
    BY <1>1, WsFinite DEF WsCount
  <2> QED
    BY <2>1, WsCounts DEF T!OffersAreBounded
<1>3. T!SupplyIsKept
  <2>1. ASSUME ws_faults = 0, ws_ws # "closed"
        PROVE  /\ Cardinality(ws_outbound) + Cardinality(WsWants(ws_tasks))
                    + (IF ws_ws = "accepts" THEN 1 ELSE 0) = MaxOutstanding
               /\ ws_outbound = ws_known \cup WsBoxed(ws_box) \cup WsMade(ws_tasks)
    BY <2>1 DEF WsInv, WsSteady, WsCount, WsPlaces
  <2>2. T!Cardinality(T!Wanted) = Cardinality(WsWants(ws_tasks))
    <3>1. T!Wanted = WsWants(ws_tasks)
      BY DEF T!Wanted, WsWants
    <3> QED
      BY <3>1, WsCounts
  <2>3. T!Cardinality(ws_outbound) = Cardinality(ws_outbound)
    BY WsCounts
  <2>4. /\ UNION {ws_box[i] : i \in 1..Len(ws_box)} = WsBoxed(ws_box)
        /\ UNION {ws_tasks[i].offers : i \in 1..Len(ws_tasks)} = WsMade(ws_tasks)
    BY DEF WsBoxed, WsMade
  <2> QED
    BY <2>1, <2>2, <2>3, <2>4 DEF T!SupplyIsKept
<1> QED
  BY <1>2, <1>3 DEF OffersAreKept

(* However announces, answers, broken sockets and the end of offers         *)
(* interleave, a client never has more offers outstanding than its budget;  *)
(* and while nothing fails an answered offer is replaced by exactly one,    *)
(* and every outstanding offer is at the tracker or on its way to it        *)
(* (announce, do_websocket and handle_tracker_message of webtorrent/mod.rs).*)
THEOREM OffersKept == T!Spec => []OffersAreKept
<1>1. T!Init => WsInv
  BY WsInit
<1>2. WsInv /\ [T!Next]_T!vars => WsInv'
  BY WsNext
<1>3. WsInv => OffersAreKept
  BY WsKept
<1> QED
  BY <1>1, <1>2, <1>3, PTL DEF T!Spec
=============================================================================
