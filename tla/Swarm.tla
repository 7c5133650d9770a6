------------------------------- MODULE Swarm -------------------------------
(***************************************************************************)
(* The peers of one torrent: the pool of known addresses, the dialer, the  *)
(* half-open budget, the listener, the registry of established             *)
(* connections and the tasks that drive them.                              *)
(*                                                                         *)
(* wt-core/src/client.rs runs the dialer, the accept task and attaches     *)
(* connections; torrent.rs keeps pool and registry; conn/ dials, accepts   *)
(* and drives; torrent_impls.rs handles a close.  Each registry is a lock  *)
(* of its own, so an attach is two steps (the checks, then the insertion   *)
(* under the write lock) and a close is two (the flag, then the reader     *)
(* task's on_closed, which knows only the address).                        *)
(***************************************************************************)
EXTENDS Integers, FiniteSets, FiniteSetsExt

CONSTANTS
    Addrs,       \* remote addresses
    PeerOf,      \* PeerOf[a]: the peer id found behind an address
    Conns,       \* dial tasks and connections that may exist at a time
    NoConn,
    Total,       \* total_half_open_conns
    PerTorrent,  \* half_open_conns_per_torrent
    HighWater,   \* torrent_peers_high_water
    BurstConns,  \* PEER_BURST_CONNS
    Elsewhere,   \* connections of the client's other torrents
    Sessions     \* what happens around the swarm, see Session

(* What may happen, how often in all, the peers known and the limit at the start. *)
Events == {"add", "forget", "accept", "leave", "drop", "choke", "limit", "route",
           "burst", "deliver", "webrtc", "dropTorrent", "close"}
Session == [events : SUBSET Events, moves : Nat, known : SUBSET Addrs,
            limit : Nat, limits : SUBSET Nat]

ASSUME SwarmAssumption ==
    /\ IsFiniteSet(Addrs) /\ IsFiniteSet(Conns)
    /\ NoConn \notin Addrs /\ NoConn \notin Conns
    /\ {Total, PerTorrent, HighWater, BurstConns, Elsewhere} \subseteq Nat
    /\ Sessions \subseteq Session

VARIABLES
    conn,       \* conn[c]: a dial task or connection, see Unused
    handles,    \* conn_handles
    known, dialing,      \* known_peers, dialing_peers
    backoff, failed,     \* dial_backoff not yet over, dial_fail_counts above 0
    halfOpen, halfHere,  \* HalfOpenTracker: total, per torrent
    limit,      \* max_established_conns
    burst,      \* peer_burst_until: "off", "on" or "over"
    burstLimit, \* peer_burst_limit
    torrent,    \* "open", "flagged" (closed is set) or "swept" (its handles were closed)
    client,     \* "open", "closing" (tasks aborted) or "closed"
    session, moves

poolVars == <<known, dialing, backoff, failed>>
halfVars == <<halfOpen, halfHere>>
limitVars == <<limit, burst, burstLimit>>
endVars == <<torrent, client>>
vars == <<conn, handles, poolVars, halfVars, limitVars, endVars, session, moves>>

(* A task or connection: "spawned" (dial task), "dialing" (holds both half-open
   guards), "arriving" (inbound, holds the global one), "queued" (accepted channel),
   "shaken" (before attach_driver), "checked" (attach_connection before its write
   lock, with the limit it read), "live" (reader and writer run), "aborted" (they were
   aborted).  why is the close reason: "" while open. *)
Phases == {"unused", "spawned", "dialing", "arriving", "queued", "shaken", "checked", "live", "aborted"}
Reasons == {"", "gone", "silent", "replaced", "deliberate"}
Connection ==
    [phase : Phases, addr : Addrs \cup {NoConn}, out : BOOLEAN, dialled : BOOLEAN, second : BOOLEAN,
     rerouted : BOOLEAN, max : Nat, useful : BOOLEAN, why : Reasons]
Unused == [phase |-> "unused", addr |-> NoConn, out |-> FALSE, dialled |-> FALSE, second |-> FALSE,
           rerouted |-> FALSE, max |-> 0, useful |-> FALSE, why |-> ""]

Free == {c \in Conns : conn[c].phase = "unused"}
In(phase) == {c \in Conns : conn[c].phase = phase}
Registered == {a \in Addrs : handles[a] # NoConn}
Open == {a \in Registered : conn[handles[a]].why = ""}
Outgoing == {a \in Registered : conn[handles[a]].out}

closed == torrent # "open"

bursting == burst = "on"

conn_limit == IF limit > 0 /\ bursting THEN Max({limit, burstLimit}) ELSE limit

(* Bursts raise the half-open limits to what BurstConns peers would get. *)
HalfLimit(n) == IF bursting THEN Max({n, BurstConns}) ELSE n

max_half_open ==
    LET incoming == Cardinality(Registered \ Outgoing)
        room == conn_limit - Cardinality(Registered) + Max({5, incoming - conn_limit \div 2})
    IN  Min({Max({0, room}), HalfLimit(PerTorrent)})

(* Mutant: the pool is not trimmed. *)
AddedUntrimmed(pool, a) == {pool \cup {a}}

(* add_peers: over high water somebody goes. *)
Added(pool, a) ==
    IF Cardinality(pool \cup {a}) <= HighWater THEN {pool \cup {a}}
    ELSE {(pool \cup {a}) \ {v} : v \in pool \cup {a}}

(* retire_connection and close of the handles at the addresses in as. *)
Closed(cs, as, why) ==
    [c \in Conns |-> IF cs[c].why = "" /\ \E a \in as : handles[a] = c
                     THEN [cs[c] EXCEPT !.why = why] ELSE cs[c]]
Without(as) == [a \in Addrs |-> IF a \in as THEN NoConn ELSE handles[a]]

(* worst_bad_conn_addr: an open connection in the direction there is too much of,
   otherwise one that wasted chunks or is old, which any may be. *)
WorstBad(out) ==
    LET o == Cardinality(Outgoing)
        i == Cardinality(Registered) - o
        wrongWay == {a \in Open : IF out THEN i - o > 1 /\ ~conn[handles[a]].out
                                            ELSE o - i > 1 /\ conn[handles[a]].out}
    IN  IF wrongWay # {} THEN wrongWay ELSE Open \cup {NoConn}

Happens(event) ==
    /\ event \in session.events /\ moves > 0
    /\ moves' = moves - 1 /\ UNCHANGED session
Quiet == UNCHANGED <<session, moves>>

Init ==
    /\ session \in Sessions
    /\ moves = session.moves
    /\ conn = [c \in Conns |-> Unused]
    /\ handles = [a \in Addrs |-> NoConn]
    /\ known = session.known
    /\ dialing = {} /\ backoff = {} /\ failed = {}
    /\ halfOpen = 0 /\ halfHere = 0
    /\ limit = session.limit /\ burst = "off" /\ burstLimit = 0
    /\ torrent = "open" /\ client = "open"

----------------------------------------------------------------------------
(* The pool. *)

AddPeers(a) ==
    /\ client = "open" /\ Happens("add")
    /\ known' \in Added(known, a)
    /\ UNCHANGED <<conn, handles, dialing, backoff, failed, halfVars, limitVars, endVars>>

ForgetPeers ==
    /\ known # {} /\ Happens("forget")
    /\ known' = {}
    /\ UNCHANGED <<conn, handles, dialing, backoff, failed, halfVars, limitVars, endVars>>

BackoffEnds(a) ==
    /\ a \in backoff
    /\ backoff' = backoff \ {a} /\ Quiet
    /\ UNCHANGED <<conn, handles, known, dialing, failed, halfVars, limitVars, endVars>>

----------------------------------------------------------------------------
(* The dialer: one pass of its loop. *)

Eligible == known \ (Registered \cup dialing \cup backoff)

(* end_peer_burst_if_due, which each pass begins with: the least productive go. *)
TrimBurst ==
    /\ client = "open" /\ ~closed /\ burst = "over"
    /\ burst' = "off"
    /\ \E cut \in {s \in SUBSET Open :
                       Cardinality(s) = Max({0, Cardinality(Open) - limit})} :
           /\ conn' = Closed(conn, cut, "replaced")
           /\ handles' = Without(cut)
    /\ UNCHANGED <<poolVars, halfVars, limit, burstLimit, endVars>> /\ Quiet

(* wants_conns and the half-open headroom; a bad connection may be replaced. *)
Headroom(replaceable) ==
    IF Cardinality(Registered) < conn_limit \/ replaceable
    THEN Max({0, Min({max_half_open - Cardinality(dialing), HalfLimit(Total) - halfOpen,
                      Cardinality(Free)})})
    ELSE 0

(* take_dial_candidates: those that never failed come first.  A pass that takes several
   is several passes in a row here. *)
Candidates == IF Eligible \subseteq failed THEN Eligible ELSE Eligible \ failed

(* update_peer_burst_limit, which a pass does before it dials. *)
SharedBurstLimit ==
    LET mine == Cardinality(Registered)
    IN  Min({mine + Max({0, BurstConns - mine - Elsewhere}), BurstConns})

UpdateBurstLimit ==
    /\ client = "open" /\ ~closed /\ bursting /\ burstLimit # SharedBurstLimit
    /\ burstLimit' = SharedBurstLimit
    /\ UNCHANGED <<conn, handles, poolVars, halfVars, limit, burst, endVars>> /\ Quiet

Dial(a) ==
    /\ client = "open" /\ ~closed
    /\ burst # "over" /\ (bursting => burstLimit = SharedBurstLimit)
    /\ a \in Candidates
    /\ \E bad \in WorstBad(TRUE) : Headroom(bad # NoConn) > 0
    /\ conn' = [conn EXCEPT ![CHOOSE c \in Free : TRUE] =
                    [Unused EXCEPT !.phase = "spawned", !.out = TRUE, !.dialled = TRUE, !.addr = a]]
    /\ known' = known \ {a}
    /\ dialing' = dialing \cup {a}
    /\ UNCHANGED <<handles, backoff, failed, halfVars, limitVars, endVars>> /\ Quiet

(* dial_finished. *)
DialFinished(a, ok) ==
    /\ dialing' = dialing \ {a}
    /\ failed' = IF ok THEN failed ELSE failed \cup {a}
    /\ backoff' = IF ok THEN backoff ELSE backoff \cup {a}

(* Mutant: the address stays in dialing_peers. *)
RequeueStillDialing(c) ==
    /\ conn' = [conn EXCEPT ![c] = Unused]
    /\ known' \in Added(known, conn[c].addr)
    /\ UNCHANGED <<dialing, failed, backoff>>

(* The task ends and puts its peer back, without a penalty. *)
Requeue(c) ==
    /\ conn' = [conn EXCEPT ![c] = Unused]
    /\ known' \in Added(known, conn[c].addr)
    /\ DialFinished(conn[c].addr, TRUE)

DialEnds(c, ok) ==
    /\ conn' = [conn EXCEPT ![c] = Unused]
    /\ DialFinished(conn[c].addr, ok)
    /\ UNCHANGED known

(* dial_peer_transport up to the first wait of dial_peer: both guards, or none. *)
DialStart(c) ==
    /\ conn[c].phase = "spawned" /\ Quiet
    /\ UNCHANGED <<handles, limitVars, endVars>>
    /\ \/ /\ closed
          /\ DialEnds(c, FALSE) /\ UNCHANGED halfVars
       \/ /\ ~closed /\ handles[conn[c].addr] # NoConn
          /\ DialEnds(c, TRUE) /\ UNCHANGED halfVars
       \/ /\ ~closed /\ handles[conn[c].addr] = NoConn
          /\ IF halfOpen < HalfLimit(Total) /\ halfHere < HalfLimit(PerTorrent)
             THEN /\ halfOpen' = halfOpen + 1 /\ halfHere' = halfHere + 1
                  /\ conn' = [conn EXCEPT ![c].phase = "dialing"]
                  /\ UNCHANGED poolVars
             ELSE Requeue(c) /\ UNCHANGED halfVars

ReleaseBoth == halfOpen' = halfOpen - 1 /\ halfHere' = halfHere - 1

(* No transport answers, or the second handshake fails too. *)
DialFails(c) ==
    /\ conn[c].phase = "dialing"
    /\ DialEnds(c, FALSE) /\ ReleaseBoth
    /\ UNCHANGED <<handles, limitVars, endVars>> /\ Quiet

(* The first handshake fails: the transport is dialled again for the other header. *)
HandshakeFails(c) ==
    /\ conn[c].phase = "dialing" /\ ~conn[c].second
    /\ conn' = [conn EXCEPT ![c].second = TRUE]
    /\ UNCHANGED <<handles, poolVars, halfVars, limitVars, endVars>> /\ Quiet

(* Mutant: the guards outlive the cancelled dial. *)
DialReroutedHolding(c) ==
    /\ conn[c].phase = "dialing" /\ conn[c].rerouted
    /\ Requeue(c) /\ UNCHANGED halfVars
    /\ UNCHANGED <<handles, limitVars, endVars>> /\ Quiet

(* The dial's select! sees the new route before the dial ends. *)
DialRerouted(c) ==
    /\ conn[c].phase = "dialing" /\ conn[c].rerouted
    /\ Requeue(c) /\ ReleaseBoth
    /\ UNCHANGED <<handles, limitVars, endVars>> /\ Quiet

DialShakes(c) ==
    /\ conn[c].phase = "dialing"
    /\ conn' = [conn EXCEPT ![c] = [@ EXCEPT !.phase = "shaken", !.second = FALSE, !.rerouted = FALSE]]
    /\ ReleaseBoth
    /\ UNCHANGED <<handles, poolVars, limitVars, endVars>> /\ Quiet

----------------------------------------------------------------------------
(* The listener and the accept task. *)

Accept(a) ==
    /\ client = "open" /\ Free # {} /\ Happens("accept")
    /\ halfOpen < Total
    /\ halfOpen' = halfOpen + 1
    /\ conn' = [conn EXCEPT ![CHOOSE c \in Free : TRUE] = [Unused EXCEPT !.phase = "arriving", !.addr = a]]
    /\ UNCHANGED <<handles, poolVars, halfHere, limitVars, endVars>>

(* handle_inbound_connection ends: refused or timed out, or queued for the client. *)
Inbound(c) ==
    /\ conn[c].phase = "arriving"
    /\ halfOpen' = halfOpen - 1
    /\ \/ conn' = [conn EXCEPT ![c] = Unused]
       \/ /\ halfHere < PerTorrent /\ torrent # "swept" /\ client = "open"
          /\ conn' = [conn EXCEPT ![c].phase = "queued"]
    /\ UNCHANGED <<handles, poolVars, halfHere, limitVars, endVars>> /\ Quiet

(* The accept task hands it to attach_accepted, which looks the torrent up. *)
AttachAccepted(c) ==
    /\ conn[c].phase = "queued"
    /\ conn' = IF closed \/ client # "open" THEN [conn EXCEPT ![c] = Unused]
                                            ELSE [conn EXCEPT ![c].phase = "shaken"]
    /\ UNCHANGED <<handles, poolVars, halfVars, limitVars, endVars>> /\ Quiet

(* attach_webrtc_peer: a data channel opened, by our offer or theirs; no half-open slot. *)
AttachWebRtcPeer(a) ==
    /\ client = "open" /\ ~closed /\ Free # {} /\ Happens("webrtc")
    /\ handles[a] = NoConn
    /\ \E offered \in BOOLEAN :
         conn' = [conn EXCEPT ![CHOOSE c \in Free : TRUE] =
                    [Unused EXCEPT !.phase = "shaken", !.addr = a, !.out = offered]]
    /\ UNCHANGED <<handles, poolVars, halfVars, limitVars, endVars>>

----------------------------------------------------------------------------
(* attach_driver and attach_connection. *)

Duplicate(c) ==
    \/ handles[conn[c].addr] # NoConn
    \/ \E a \in Open : PeerOf[a] = PeerOf[conn[c].addr]

(* A refused dial still counts as one that worked when its address is connected. *)
Refused(c) ==
    /\ conn' = [conn EXCEPT ![c] = Unused]
    /\ UNCHANGED handles
    /\ IF conn[c].dialled THEN DialFinished(conn[c].addr, handles[conn[c].addr] # NoConn)
                      ELSE UNCHANGED <<dialing, backoff, failed>>

AttachCheck(c) ==
    /\ conn[c].phase = "shaken"
    /\ \/ /\ client # "open" \/ closed \/ Duplicate(c)
          /\ Refused(c)
       \/ /\ client = "open" /\ ~closed /\ ~Duplicate(c)
          /\ LET passed == [conn EXCEPT ![c] = [@ EXCEPT !.phase = "checked", !.max = conn_limit]] IN
             IF Cardinality(Registered) < conn_limit
             THEN /\ conn' = passed
                  /\ UNCHANGED <<handles, dialing, backoff, failed>>
             ELSE \E victim \in WorstBad(conn[c].out) :
                     IF victim = NoConn THEN Refused(c)
                     ELSE /\ conn' = Closed(passed, {victim}, "replaced")
                          /\ handles' = Without({victim})
                          /\ UNCHANGED <<dialing, backoff, failed>>
    /\ UNCHANGED <<known, halfVars, limitVars, endVars>> /\ Quiet

(* Mutant: inserted on the strength of the earlier checks. *)
AttachInsertUnchecked(c) ==
    /\ conn[c].phase = "checked"
    /\ handles' = [handles EXCEPT ![conn[c].addr] = c]
    /\ conn' = [conn EXCEPT ![c] = [@ EXCEPT !.phase = "live", !.max = 0]]
    /\ IF conn[c].dialled THEN DialFinished(conn[c].addr, TRUE)
                      ELSE UNCHANGED <<dialing, backoff, failed>>
    /\ UNCHANGED <<known, halfVars, limitVars, endVars>> /\ Quiet

(* Under the write lock: the same questions again, with the limit read before. *)
AttachInsert(c) ==
    /\ conn[c].phase = "checked"
    /\ IF Duplicate(c) \/ Cardinality(Registered) >= conn[c].max
       THEN Refused(c)
       ELSE /\ handles' = [handles EXCEPT ![conn[c].addr] = c]
            /\ conn' = [conn EXCEPT ![c] = [@ EXCEPT !.phase = "live", !.max = 0]]
            /\ IF conn[c].dialled THEN DialFinished(conn[c].addr, TRUE)
                              ELSE UNCHANGED <<dialing, backoff, failed>>
    /\ UNCHANGED <<known, halfVars, limitVars, endVars>> /\ Quiet

----------------------------------------------------------------------------
(* A connection's reader. *)

(* A useful chunk: note_peer_helpful. *)
Delivers(c) ==
    /\ conn[c].phase = "live" /\ conn[c].why = "" /\ ~conn[c].useful /\ Happens("deliver")
    /\ conn' = [conn EXCEPT ![c].useful = TRUE]
    /\ backoff' = backoff \ {conn[c].addr} /\ failed' = failed \ {conn[c].addr}
    /\ UNCHANGED <<handles, known, dialing, halfVars, limitVars, endVars>>

(* End of stream, reset or garbage ("gone"); the deadline or a write error ("silent"). *)
PeerLeaves(c) ==
    /\ conn[c].phase = "live" /\ conn[c].why = "" /\ Happens("leave")
    /\ \E why \in {"gone", "silent"} : conn' = [conn EXCEPT ![c].why = why]
    /\ UNCHANGED <<handles, poolVars, halfVars, limitVars, endVars>>

(* on_closed and peer_closed, by address: what is registered there now is retired. *)
ReaderEnds(c) ==
    /\ conn[c].phase = "live" /\ conn[c].why # ""
    /\ LET a == conn[c].addr
           h == handles[a]
       IN  /\ conn' = [conn EXCEPT ![c] = Unused]
           /\ handles' = Without({a})
           /\ IF h # NoConn /\ conn[h].why = "gone" /\ ~conn[h].useful
              THEN DialFinished(a, FALSE) /\ UNCHANGED known
              ELSE IF h # NoConn /\ conn[h].out /\ conn[h].useful
                      /\ conn[h].why # "deliberate" /\ ~closed
              THEN /\ backoff' = backoff \cup {a} /\ known' \in Added(known, a)
                   /\ UNCHANGED <<dialing, failed>>
              ELSE UNCHANGED poolVars
    /\ UNCHANGED <<halfVars, limitVars, endVars>> /\ Quiet

----------------------------------------------------------------------------
(* What the engine asks for. *)

DropPeer(a) ==
    /\ handles[a] # NoConn /\ Happens("drop")
    /\ conn' = Closed(conn, {a}, "deliberate")
    /\ UNCHANGED <<handles, poolVars, halfVars, limitVars, endVars>>

DropChokers(a) ==
    /\ ~closed /\ Happens("choke")
    /\ Cardinality(known) > 2 * Max({0, conn_limit - Cardinality(Registered)})
    /\ handles[a] # NoConn
    /\ conn' = Closed(conn, {a}, "replaced")
    /\ handles' = Without({a})
    /\ backoff' = backoff \cup {a}
    /\ UNCHANGED <<known, dialing, failed, halfVars, limitVars, endVars>>

(* The worst go until the rest fits; handles that are closed already are not counted out. *)
SetMaxEstablishedConns(n) ==
    /\ n \in session.limits \ {limit} /\ Happens("limit")
    /\ limit' = n
    /\ LET excess == Max({0, Cardinality(Registered) - n}) IN
       \E cut \in {s \in SUBSET Open :
                       Cardinality(s) = Min({excess, Cardinality(Open)})} :
           /\ conn' = Closed(conn, cut, "replaced")
           /\ handles' = Without(cut)
    /\ UNCHANGED <<poolVars, halfVars, burst, burstLimit, endVars>>

StartPeerBurst ==
    /\ limit > 0 /\ limit < BurstConns /\ ~closed /\ ~bursting /\ Happens("burst")
    /\ burst' = "on"
    /\ UNCHANGED <<conn, handles, poolVars, halfVars, limit, burstLimit, endVars>>

BurstEnds ==
    /\ bursting
    /\ burst' = "over"
    /\ UNCHANGED <<conn, handles, poolVars, halfVars, limit, burstLimit, endVars>> /\ Quiet

(* route_changed: tasks that wait on the old epoch are told. *)
RouteChanged ==
    /\ Happens("route")
    /\ conn' = [c \in Conns |-> IF conn[c].phase = "dialing" THEN [conn[c] EXCEPT !.rerouted = TRUE]
                                                             ELSE conn[c]]
    /\ backoff' = {} /\ failed' = {}
    /\ UNCHANGED <<handles, known, dialing, halfVars, limitVars, endVars>>

CloseAllPeers ==
    /\ Registered # {} /\ Happens("route")
    /\ conn' = Closed(conn, Addrs, "deliberate")
    /\ handles' = Without(Addrs)
    /\ UNCHANGED <<poolVars, halfVars, limitVars, endVars>>

(* drop_torrent: the flag first, the handles after detach_torrent. *)
DropTorrent ==
    /\ torrent = "open" /\ client = "open" /\ Happens("dropTorrent")
    /\ torrent' = "flagged"
    /\ UNCHANGED <<conn, handles, poolVars, halfVars, limitVars, client>>

DropHandles ==
    /\ torrent = "flagged"
    /\ torrent' = "swept"
    /\ conn' = Closed(conn, Addrs, "deliberate")
    /\ UNCHANGED <<handles, poolVars, halfVars, limitVars, client>> /\ Quiet

(* Client::close: the tasks are aborted at their next wait, so guards go and readers
   never reach on_closed; a connection being attached is past its last wait. *)
CloseClient ==
    /\ client = "open" /\ Happens("close")
    /\ client' = "closing"
    /\ conn' = [c \in Conns |-> IF conn[c].phase \in {"spawned", "dialing", "queued"} THEN Unused
                                ELSE IF conn[c].phase = "live" THEN [conn[c] EXCEPT !.phase = "aborted"]
                                ELSE conn[c]]
    /\ LET dials == Cardinality(In("dialing"))
       IN  halfOpen' = halfOpen - dials /\ halfHere' = halfHere - dials
    /\ UNCHANGED <<handles, poolVars, limitVars, torrent>>

CloseTorrents ==
    /\ client = "closing"
    /\ client' = "closed" /\ torrent' = "swept"
    /\ conn' = Closed(conn, Addrs, "deliberate")
    /\ handles' = Without(Addrs)
    /\ UNCHANGED <<poolVars, halfVars, limitVars>> /\ Quiet

----------------------------------------------------------------------------
Next ==
    \/ \E a \in Addrs : AddPeers(a)
    \/ ForgetPeers
    \/ \E a \in Addrs : BackoffEnds(a)
    \/ TrimBurst
    \/ UpdateBurstLimit
    \/ \E a \in Addrs : Dial(a)
    \/ \E c \in Conns : DialStart(c)
    \/ \E c \in Conns : DialFails(c)
    \/ \E c \in Conns : HandshakeFails(c)
    \/ \E c \in Conns : DialRerouted(c)
    \/ \E c \in Conns : DialShakes(c)
    \/ \E a \in Addrs : Accept(a)
    \/ \E c \in Conns : Inbound(c)
    \/ \E c \in Conns : AttachAccepted(c)
    \/ \E a \in Addrs : AttachWebRtcPeer(a)
    \/ \E c \in Conns : AttachCheck(c)
    \/ \E c \in Conns : AttachInsert(c)
    \/ \E c \in Conns : Delivers(c)
    \/ \E c \in Conns : PeerLeaves(c)
    \/ \E c \in Conns : ReaderEnds(c)
    \/ \E a \in Addrs : DropPeer(a)
    \/ \E a \in Addrs : DropChokers(a)
    \/ \E n \in session.limits : SetMaxEstablishedConns(n)
    \/ StartPeerBurst
    \/ BurstEnds
    \/ RouteChanged
    \/ CloseAllPeers
    \/ DropTorrent
    \/ DropHandles
    \/ CloseClient
    \/ CloseTorrents

Spec == Init /\ [][Next]_vars

(* A dial, handshake, attach or reader task goes on: exactly one of these is its next step. *)
TaskStep(c) ==
    \/ DialStart(c) \/ DialFails(c) \/ DialShakes(c) \/ DialRerouted(c)
    \/ Inbound(c) \/ AttachAccepted(c) \/ AttachCheck(c) \/ AttachInsert(c)
    \/ ReaderEnds(c)

(* The dialer loop runs on a timer, timers expire, and the runtime goes on polling
   tasks: dials and handshakes have deadlines. *)
Fairness ==
    /\ WF_vars(TrimBurst \/ UpdateBurstLimit \/ \E a \in Addrs : Dial(a))
    /\ WF_vars(BurstEnds)
    /\ WF_vars(\E a \in Addrs : BackoffEnds(a))
    /\ WF_vars(\E c \in Conns : TaskStep(c))

FairSpec == Spec /\ Fairness

----------------------------------------------------------------------------
(* Every variable has its type, and the pool keeps to its high water. *)
TypeOK ==
    /\ conn \in [Conns -> Connection]
    /\ handles \in [Addrs -> Conns \cup {NoConn}]
    /\ \A s \in {known, dialing, backoff, failed} : s \subseteq Addrs
    /\ Cardinality(known) <= HighWater
    /\ {halfOpen, halfHere, limit, burstLimit, moves} \subseteq Nat
    /\ burst \in {"off", "on", "over"}
    /\ torrent \in {"open", "flagged", "swept"} /\ client \in {"open", "closing", "closed"}
    /\ session \in Sessions

(* The half-open budget is neither leaked nor overdrawn (conn/half_open.rs): the counters
   are what the running dials and inbound handshakes hold, whichever way those end. *)
HalfOpenIsHeld ==
    /\ halfOpen = Cardinality(In("dialing") \cup In("arriving"))
    /\ halfHere = Cardinality(In("dialing"))
    /\ halfOpen <= Max({Total, BurstConns})

(* attach_connection: however many attaches race, the registry never holds two open
   connections to one peer, nor more than the largest limit that was in force. *)
OneSlotPerPeer ==
    /\ \A a, b \in Open : PeerOf[a] = PeerOf[b] => a = b
    /\ \E most \in {BurstConns, session.limit} \cup session.limits :
          Cardinality(Registered) <= most

(* A half-open slot belongs to a dial or handshake in progress, and a peer reached
   under two addresses holds one place in the registry (half_open.rs,
   attach_connection). *)
SlotsAreHeld == HalfOpenIsHeld /\ OneSlotPerPeer

(* take_dial_candidates and dial_finished: a known peer does not wait for ever while the
   torrent has room for it; a route change, a lost half-open race, a backoff or a close
   never leaves an address marked as being dialled with nobody dialling it. *)
ReadyIsDialled ==
    \A a \in Addrs :
        []<>(\/ a \notin known \/ handles[a] # NoConn
             \/ closed \/ client # "open" \/ Headroom(FALSE) = 0)

(* torrent.rs:578 promises one slot per peer: no two open connections of one peer run. *)
OneConnectionPerPeer ==
    \A c, d \in In("live") :
        conn[c].why = "" /\ conn[d].why = "" /\ PeerOf[conn[c].addr] = PeerOf[conn[d].addr] => c = d

=============================================================================
