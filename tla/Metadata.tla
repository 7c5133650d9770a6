------------------------------ MODULE Metadata ------------------------------
(***************************************************************************)
(* How a magnet gets its info: ut_metadata pieces asked of every peer, and *)
(* the magnet's source URLs, both of which give the torrent its info.      *)
(*                                                                         *)
(* A connection's handler runs on its own task; what it asked for is its   *)
(* own, the assembly is the torrent's.  A peer advertises a size and       *)
(* answers with pieces of that size, rejects, or stays silent.             *)
(***************************************************************************)
EXTENDS Naturals, FiniteSets

CONSTANTS Peers,     \* peers with ut_metadata
          Pieces,    \* metadata pieces of the right size; a wrong size has one
          Slots,     \* METADATA_OUTSTANDING_PER_PEER
          MaxFaults  \* corrupt pieces, lost or rejected requests

VARIABLES
    kind,       \* the size each peer advertises
    conn,       \* peers whose extended handshake has come
    asked,      \* PeerMetadataState: pieces each connection waits for
    remote,     \* requests that a peer has not answered
    answers,    \* answers on their way
    size,       \* the size of the assembly, or "none"
    pieces,     \* what each completed piece of the assembly holds
    verified,   \* the exchange has verified bytes
    info,       \* the torrent's info: none, or what it was made of
    setter,     \* threads about to call set_info
    source,     \* where the fetch of a source URL is
    faults

vars == <<kind, conn, asked, remote, answers, size, pieces, verified, info, setter, source, faults>>
network == <<conn, asked, remote, answers>>
assembly == <<size, pieces, verified>>

Empty == [i \in Pieces |-> "missing"]
PiecesOf(s) == IF s = "right" THEN Pieces ELSE IF s = "wrong" THEN {CHOOSE i \in Pieces : TRUE} ELSE {}

Init ==
    /\ kind \in [Peers -> {"right", "wrong"}]
    /\ conn = {} /\ remote = {} /\ answers = {}
    /\ asked = [p \in Peers |-> {}]
    /\ size = "none" /\ pieces = Empty /\ verified = FALSE
    /\ info = "none" /\ setter = {} /\ source = "idle" /\ faults = 0

-----------------------------------------------------------------------------
(* The exchange, under its lock.                                           *)

\* MetadataExchange::set_size: another size starts over.
SizeAfter(s) == IF verified THEN size ELSE s
PiecesAfter(s) == IF verified \/ size = s THEN pieces ELSE Empty

\* request_metadata_pieces asks a peer for pieces nobody gave, as many as it
\* has slots for; left is what it still waits for.
AskMore(p, left, rest) ==
    LET needed == IF info # "none" \/ verified' THEN {}
                  ELSE {i \in PiecesOf(size') : pieces'[i] = "missing" /\ i \notin left}
    IN \E new \in SUBSET needed :
         /\ new # {} => Cardinality(left \cup new) <= Slots
         /\ new # needed => Cardinality(left \cup new) >= Slots
         /\ asked' = [asked EXCEPT ![p] = left \cup new]
         /\ remote' = rest \cup {<<p, i>> : i \in new}

\* Before that, the peer's size is set.
TakeSize(p) ==
    /\ size' = IF info = "none" THEN SizeAfter(kind[p]) ELSE size
    /\ pieces' = IF info = "none" THEN PiecesAfter(kind[p]) ELSE pieces
    /\ UNCHANGED verified

\* on_data and verify_bytes: the piece is kept; the last one verifies all of
\* them, and a failure starts over and fails the connection that brought it.
\* Mutant: the hash of the assembled bytes is not compared.
OnDataUnverified(s, i, data) ==
    LET filled == [PiecesAfter(s) EXCEPT ![i] = data]
        all == \A j \in PiecesOf(s) : filled[j] # "missing"
    IN /\ size' = SizeAfter(s)
       /\ verified' = (verified \/ all)
       /\ pieces' = IF verified THEN pieces ELSE filled

\* Mutant: pieces that failed together stay marked as there.
OnDataKept(s, i, data) ==
    LET filled == [PiecesAfter(s) EXCEPT ![i] = data]
        all == \A j \in PiecesOf(s) : filled[j] # "missing"
        good == s = "right" /\ \A j \in PiecesOf(s) : filled[j] = "good"
    IN /\ size' = SizeAfter(s)
       /\ verified' = (verified \/ (all /\ good))
       /\ pieces' = IF verified THEN pieces ELSE filled

OnData(s, i, data) ==
    LET filled == [PiecesAfter(s) EXCEPT ![i] = data]
        all == \A j \in PiecesOf(s) : filled[j] # "missing"
        good == s = "right" /\ \A j \in PiecesOf(s) : filled[j] = "good"
    IN /\ size' = SizeAfter(s)
       /\ verified' = (verified \/ (all /\ good))
       /\ pieces' = IF verified THEN pieces ELSE IF all /\ ~good THEN Empty ELSE filled

-----------------------------------------------------------------------------
(* Connections.                                                            *)

Handshake(p) ==
    /\ p \notin conn
    /\ conn' = conn \cup {p}
    /\ TakeSize(p)
    /\ AskMore(p, {}, remote)
    /\ UNCHANGED <<kind, answers, info, setter, source, faults>>

Silent(p) == {i \in asked[p] : <<p, i>> \notin remote
                               /\ \A a \in answers : ~(a.peer = p /\ a.piece = i)}

\* Mutant: a request that timed out is never forgotten.
WakePatient(p, late) ==
    /\ p \in conn /\ late = {}
    /\ TakeSize(p)
    /\ AskMore(p, asked[p], remote)
    /\ UNCHANGED <<kind, conn, answers, info, setter, source, faults>>

\* The connection's wake, every second without info: requests that timed out,
\* lost or merely late, are asked again.
Wake(p, late) ==
    /\ p \in conn
    /\ late \subseteq asked[p] \ Silent(p)
    /\ late # {} => faults < MaxFaults
    /\ faults' = IF late = {} THEN faults ELSE faults + 1
    /\ TakeSize(p)
    /\ AskMore(p, asked[p] \ (Silent(p) \cup late), remote)
    /\ UNCHANGED <<kind, conn, answers, info, setter, source>>

Lose(r) ==
    /\ r \in remote /\ faults < MaxFaults
    /\ remote' = remote \ {r} /\ faults' = faults + 1
    /\ UNCHANGED <<kind, conn, asked, answers, assembly, info, setter, source>>

\* What a peer answers: a peer with the wrong size serves other bytes.
Answer(r, what) ==
    /\ r \in remote
    /\ what # "good" => faults < MaxFaults \/ (what = "bad" /\ kind[r[1]] = "wrong")
    /\ what = "good" => kind[r[1]] = "right"
    /\ faults' = faults + IF what = "good" \/ kind[r[1]] = "wrong" THEN 0 ELSE 1
    /\ remote' = remote \ {r}
    /\ answers' = answers \cup {[peer |-> r[1], piece |-> r[2], data |-> what]}
    /\ UNCHANGED <<kind, conn, asked, assembly, info, setter, source>>

Disconnected(p) ==
    /\ conn' = conn \ {p}
    /\ asked' = [asked EXCEPT ![p] = {}]
    /\ remote' = {r \in remote : r[1] # p}
    /\ answers' = {a \in answers : a.peer # p}

\* The data message: the request is done, the bytes go to the assembly, and
\* the verified info is for this handler to set; otherwise it asks for more.
ReceiveData(a) ==
    /\ a \in answers /\ a.data # "reject"
    /\ OnData(kind[a.peer], a.piece, a.data)
    /\ IF ~verified /\ ~verified' /\ pieces' = Empty
       THEN Disconnected(a.peer)
       ELSE /\ AskMore(a.peer, asked[a.peer] \ {a.piece}, remote)
            /\ answers' = answers \ {a} /\ conn' = conn
    /\ setter' = IF verified' /\ ~verified THEN setter \cup {"peer"} ELSE setter
    /\ UNCHANGED <<kind, info, source, faults>>

ReceiveReject(a) ==
    /\ a \in answers /\ a.data = "reject"
    /\ TakeSize(a.peer)
    /\ AskMore(a.peer, asked[a.peer] \ {a.piece}, remote)
    /\ answers' = answers \ {a}
    /\ UNCHANGED <<kind, conn, info, setter, source, faults>>

Leave(p) ==
    /\ p \in conn /\ faults < MaxFaults /\ faults' = faults + 1
    /\ Disconnected(p)
    /\ UNCHANGED <<kind, assembly, info, setter, source>>

\* set_info, after the exchange's lock is released.
SetInfo(t) ==
    /\ t \in setter
    /\ setter' = setter \ {t}
    /\ info' = IF t = "source" THEN "good"
               ELSE IF \A i \in PiecesOf(size) : pieces[i] = "good" /\ size = "right"
               THEN "good" ELSE "bad"
    /\ UNCHANGED <<kind, network, assembly, source, faults>>

-----------------------------------------------------------------------------
(* start_metadata_sources: one fetch at a time, while there is no info.    *)

Fetch(result) ==
    /\ source = "idle" /\ info = "none"
    /\ result = "failed" => faults < MaxFaults
    /\ faults' = IF result = "failed" THEN faults + 1 ELSE faults
    /\ source' = CASE result = "failed" -> "idle"     \* retried in a minute
                   [] result = "mismatch" -> "done"
                   [] OTHER -> "merge"
    /\ UNCHANGED <<kind, network, assembly, info, setter>>

\* merge_spec looks whether there is info, then sets it.
Merge ==
    /\ source = "merge"
    /\ source' = "done"
    /\ setter' = IF info = "none" THEN setter \cup {"source"} ELSE setter
    /\ UNCHANGED <<kind, network, assembly, info, faults>>

Next ==
    \/ \E p \in Peers : Handshake(p)
    \/ \E p \in Peers, late \in SUBSET Pieces : Wake(p, late)
    \/ \E r \in remote : Lose(r)
    \/ \E r \in remote, what \in {"good", "bad", "reject"} : Answer(r, what)
    \/ \E a \in answers : ReceiveData(a)
    \/ \E a \in answers : ReceiveReject(a)
    \/ \E p \in Peers : Leave(p)
    \/ \E t \in {"peer", "source"} : SetInfo(t)
    \/ \E result \in {"failed", "mismatch", "match"} : Fetch(result)
    \/ Merge

\* Peers that are known are dialed again, handlers are woken every second,
\* and an answer that was sent arrives.
Fairness ==
    /\ \A p \in Peers : WF_vars(Handshake(p)) /\ WF_vars(Wake(p, {}))
    /\ \A p \in Peers, i \in Pieces :
        /\ WF_vars(Answer(<<p, i>>, "good"))
        /\ \A d \in {"good", "bad"} : WF_vars(ReceiveData([peer |-> p, piece |-> i, data |-> d]))
        /\ WF_vars(ReceiveReject([peer |-> p, piece |-> i, data |-> "reject"]))
    /\ \A t \in {"peer", "source"} : WF_vars(SetInfo(t))

Spec == Init /\ [][Next]_vars

-----------------------------------------------------------------------------
(* Properties.                                                             *)

\* Whatever peers of different sizes and with corrupt pieces contribute, in
\* whatever order, the torrent's info is made of the bytes the magnet names.
InfoIsGenuine == info # "bad"

\* When the peers agree on the size, the info comes: lost requests time out,
\* rejected and corrupt pieces are asked for again, and a failed assembly
\* starts over.
MagnetGetsInfo == (\A p \in Peers : kind[p] = "right") ~> (info # "none")
=============================================================================
