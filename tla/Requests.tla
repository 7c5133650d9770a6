------------------------------ MODULE Requests ------------------------------
(***************************************************************************)
(* How wt-core shares the blocks of a torrent among its peer connections:  *)
(* the block table and the picker (sched.rs), the handler of a connection  *)
(* (peer_conn.rs), the registry of connections (torrent.rs), the web seed  *)
(* loop and the application of hash results.                               *)
(*                                                                         *)
(* No lock covers a handler.  Every connection runs its handler on its own *)
(* task and the table is changed one block at a time, so what a picker saw *)
(* may be gone when the block is claimed.  pc[a] is where handler a stands *)
(* between two such changes.                                               *)
(*                                                                         *)
(* A block is a number.  A connection is one incarnation: two connections  *)
(* with the same address have the same PeerKey.  The age of a request is   *)
(* 0 (just asked), 1 (late: past OVERDUE_AFTER, urgent_steal_after and     *)
(* STALLED_AFTER) or 2 (past DEAD_PEER_AFTER).                             *)
(***************************************************************************)
EXTENDS Naturals, FiniteSets

CONSTANTS
    Blocks, Pieces,
    Piece,           \* Piece[b]: the piece of block b
    Conns,
    Addr,            \* Addr[c]: the remote address of c
    Fast,            \* connections whose peer rejects what we cancel
    Serves,          \* Serves[c]: the pieces the peer of c has
    Reliable,        \* connections that stay up and answer in the end
    Pace,            \* Pace[c]: how fast the peer of c is while it answers
    QueueLimit,      \* nominal_max_requests
    Starving,        \* STARVING_REQUESTS
    OpenLimit,       \* pieces that may hold RAM while unverified
    EndgamePieces,   \* ENDGAME_BYTES in pieces
    FocusPieces,     \* pieces a player may seek to
    SeekCopies,      \* SEEK_HEDGES
    Web,             \* the web seed loops: {} or one name
    None,
    MaxExpects,      \* bound: answers counted as expected for one block
    MaxTrouble       \* bound: chokes, rejects, retracted and allowed-fast pieces, closes,
                     \* write errors, bad hashes, web blocks, seeks and pauses together

Addrs == {Addr[c] : c \in Conns}
Actors == Conns \cup Web

ASSUME RequestsAssumption ==
    /\ Blocks \subseteq Nat /\ Pieces \subseteq Nat
    /\ IsFiniteSet(Blocks) /\ IsFiniteSet(Pieces)
    /\ Piece \in [Blocks -> Pieces]
    /\ Fast \subseteq Conns /\ Reliable \subseteq Conns
    /\ Serves \in [Conns -> SUBSET Pieces] /\ Pace \in [Conns -> Nat]
    /\ FocusPieces \subseteq Pieces
    /\ Web \cap Conns = {}
    /\ None \notin Addrs \cup Conns \cup Blocks \cup Pieces
    /\ {"free", "copy", "eager"} \cap Addrs = {}
    /\ MaxExpects \in Nat \ {0} /\ MaxTrouble \in Nat
    /\ QueueLimit \in Nat \ {0} /\ Starving \in Nat /\ OpenLimit \in Nat
    /\ EndgamePieces \in Nat /\ SeekCopies \in Nat

VARIABLES
    registry,     \* conn_handles: the connection registered at an address
    phase,        \* "new", "open" (the reader task runs) or "gone"
    closed,       \* connections whose handle is closed
    dropping,     \* the drop_conn_addr in progress
    owner, second, age,  \* BlockTable: holder, second copy, age of the request
    looked,       \* <<b, c>>: c refilled since the request for b became late
    writing, dirty,
    checking, complete,
    clearing,     \* the failed piece whose dirty bits are still set
    outstanding, cancelled,
    expiring,     \* cancelled_at
    expects,      \* valid_receive_chunks
    has, choking, allowed, interested,
    known,        \* what is known of a peer: "no" rate, "probed", or how long ago
                  \* its last useful block came: "useful" (within the steal window),
                  \* "quiet" or "dead" (DEAD_PEER_AFTER)
    need,         \* need_request_update
    refocus,      \* refocus_requested
    focus,        \* the piece at the playhead, or None
    copies,       \* seek_hedge: eager copies left
    handed,       \* SharedQueue: the blocks behind the cursors
    rewound,      \* the cursors were rewound less than REWIND_EVERY ago
    paused,       \* data_download_disallowed
    pc, trouble

netVars    == <<registry, phase, closed, dropping>>
tableVars  == <<owner, second, age, looked>>
bitVars    == <<writing, dirty>>
pieceVars  == <<checking, complete, clearing>>
askVars    == <<outstanding, cancelled, expiring, expects>>
remoteVars == <<has, choking, allowed, interested, known>>
flagVars   == <<need, refocus>>
schedVars  == <<focus, copies, handed, rewound, paused>>
vars == <<netVars, tableVars, bitVars, pieceVars, askVars, remoteVars, flagVars,
          schedVars, pc, trouble>>

Takes == {"free", "copy", "eager"} \cup Addrs   \* an address: From(holder)
Of(p) == {b \in Blocks : Piece[b] = p}
Open(c) == phase[c] = "open"
Idle == [at |-> "idle", blk |-> None, todo |-> {}]
At(a, where) == pc[a].at = where
Goto(a, where, b, todo) ==
    pc' = [pc EXCEPT ![a] = [at |-> where, blk |-> b, todo |-> todo]]
Rest(a) == pc' = [pc EXCEPT ![a] = Idle]
ClaimAll(a, todo) == IF todo = {} THEN Rest(a) ELSE Goto(a, "claim", None, todo)
Spend == trouble < MaxTrouble /\ trouble' = trouble + 1

----------------------------------------------------------------------------
Init ==
    /\ registry = [a \in Addrs |-> None]
    /\ phase = [c \in Conns |-> "new"]
    /\ closed = {}
    /\ dropping = [conn |-> None, at |-> "idle"]
    /\ owner = [b \in Blocks |-> None] /\ second = [b \in Blocks |-> None]
    /\ age = [b \in Blocks |-> 0] /\ looked = {}
    /\ writing = {} /\ dirty = {}
    /\ checking = {} /\ complete = {} /\ clearing = {}
    /\ outstanding = [c \in Conns |-> {}] /\ cancelled = [c \in Conns |-> {}]
    /\ expiring = [c \in Conns |-> {}]
    /\ expects = [c \in Conns |-> [b \in Blocks |-> 0]]
    /\ has = [c \in Conns |-> {}] /\ choking = [c \in Conns |-> TRUE]
    /\ allowed = [c \in Conns |-> {}] /\ interested = {}
    /\ known = [c \in Conns |-> "no"]
    /\ need = {} /\ refocus = {}
    /\ focus = None /\ copies = 0
    /\ handed = {} /\ rewound = FALSE /\ paused = FALSE
    /\ pc = [a \in Actors |-> Idle]
    /\ trouble = 0

----------------------------------------------------------------------------
(* The block table.  A change of owner restarts the clock of the request.  *)

TableStep(own, sec, restarted) ==
    LET fresh == {b \in Blocks : own[b] # owner[b]} \cup restarted
    IN  /\ owner' = own
        /\ second' = sec
        /\ age' = [b \in Blocks |-> IF b \in fresh THEN 0 ELSE age[b]]
        /\ looked' = {x \in looked : x[1] \notin fresh}

\* What is left of owner (of second) when address a gives up the blocks S.
Without(holder, S, a) ==
    [b \in Blocks |-> IF b \in S /\ holder[b] = a THEN None ELSE holder[b]]

Holds(b, a) == owner[b] = a \/ second[b] = a

\* release and release_second of every block in S.
GiveUpOwnerOnly(S, a) == TableStep(Without(owner, S, a), second, {})
GiveUp(S, a) == TableStep(Without(owner, S, a), Without(second, S, a), {})

\* forget_peer: a peer left, everything held under its key is handed back.
ForgetPeer(a) == GiveUp(Blocks, a)

\* clear: the block is done, nobody holds it.
Clear(b) == TableStep([owner EXCEPT ![b] = None], [second EXCEPT ![b] = None], {})

----------------------------------------------------------------------------
(* The picker.  ahead stands for every comparison of rates, arrival times  *)
(* and recent usefulness: the connections c does not outrun.  Peers of one *)
(* pace compare either way, anew at every pick.                            *)

Measured == {c \in Conns : Open(c) /\ known[c] # "no"}

\* Every request of the peer is late: its rate sinks to nothing.
Silent(c) ==
    /\ outstanding[c] # {}
    /\ \A b \in outstanding[c] : owner[b] = Addr[c] => age[b] > 0

Rankings(c) ==
    LET live == {o \in Measured \ {c} : ~Silent(o)}
        faster == {o \in live : Pace[o] > Pace[c]}
    IN  IF known[c] = "no" THEN {Measured \ {c}}
        ELSE {faster \cup S : S \in SUBSET {o \in live : Pace[o] = Pace[c]}}

Wanted == Pieces \ (complete \cup checking)
Blocked(c, p) == choking[c] /\ p \notin allowed[c]
Fetchable(c) == {p \in Wanted \cap has[c] : ~Blocked(c, p)}
Unasked(c) == Blocks \ (outstanding[c] \cup cancelled[c])
BlockFree(b) == b \notin dirty \cup writing /\ owner[b] = None
Window == {b \in Blocks : Piece[b] = focus}
Room(c) == QueueLimit - Cardinality(outstanding[c])
CanServe(o, p) ==
    /\ Open(o) /\ ~choking[o] /\ p \in has[o]
    /\ Cardinality(outstanding[o]) < QueueLimit

Lowest(S, n) == {b \in S : Cardinality({d \in S : d < b}) < n}
Picked(S, take) == {[req |-> b, take |-> take] : b \in S}

\* How c gets playhead block b: free, from a late holder, or as a second copy
\* (before it is late only while the seek's copies last).
PlayheadTake(c, b, ahead) ==
    LET holder == IF owner[b] = Addr[c] THEN None ELSE owner[b]
        late == age[b] > 0
        quicker == \E o \in ahead : Addr[o] # holder /\ CanServe(o, Piece[b])
        copyable == second[b] = None /\ known[c] # "no" /\ ~quicker
    IN  CASE holder = None -> IF quicker THEN None ELSE "free"
          [] holder # None /\ late /\ known[c] = "useful"
               /\ \A o \in ahead : Addr[o] # holder -> holder
          [] OTHER -> IF copyable /\ late THEN "copy"
                      ELSE IF copyable /\ copies > 0 THEN "eager" ELSE None

PickPlayhead(c, want, ahead) ==
    LET near == {b \in Window \cap Unasked(c) :
                   /\ Piece[b] \in Fetchable(c)
                   /\ b \notin dirty \cup writing
                   /\ PlayheadTake(c, b, ahead) # None}
    IN  {[req |-> b, take |-> PlayheadTake(c, b, ahead)] : b \in Lowest(near, want)}

\* A piece nobody has started; started and hashing pieces hold RAM.
Fresh(p, behind) == Of(p) \cap (dirty \cup behind) = {}
OpenPieces(behind) ==
    Cardinality(checking) + Cardinality({p \in Wanted : ~Fresh(p, behind)})

\* RAM is spoken for: a peer with requests left does not start piece p.
Barred(c, p, behind) ==
    /\ Fresh(p, behind) /\ p # focus
    /\ OpenPieces(behind) >= OpenLimit
    /\ Cardinality(outstanding[c]) >= Starving

QueuePieces(c, behind) ==
    {p \in Fetchable(c) : \A q \in Fetchable(c) : q <= p => ~Barred(c, q, behind)}

PickQueue(c, want, behind) ==
    Lowest({b \in Unasked(c) \ (behind \cup Window) :
              Piece[b] \in QueuePieces(c, behind) /\ BlockFree(b)}, want)

\* The cursors stop behind the last block taken, or at the end of the pieces.
Scanned(c, want, behind) ==
    LET taken == PickQueue(c, want, behind)
    IN  {b \in Blocks : /\ Piece[b] \in QueuePieces(c, behind) /\ want > 0
                        /\ Cardinality(taken) < want \/ \E t \in taken : b <= t}

PickEndgame(c, want) ==
    LET left == {b \in Unasked(c) \ (dirty \cup writing) : Piece[b] \in Fetchable(c)}
        free == {b \in left : owner[b] = None}
    IN  IF free # {} THEN Picked(Lowest(free, want), "free")
        ELSE Picked(Lowest(left, want), "copy")

\* Blocks stuck with peers that c outruns.
PickStalled(c, want, ahead) ==
    LET stuck == {b \in Unasked(c) :
                    /\ Piece[b] \in Wanted \cap has[c]
                    /\ owner[b] \notin {None, Addr[c]} /\ age[b] > 0
                    /\ \A o \in ahead : Addr[o] # owner[b]}
    IN  {[req |-> b, take |-> owner[b]] : b \in Lowest(stuck, want)}

Endgame == focus = None /\ Cardinality(Wanted) <= EndgamePieces

PickBlocks(c, ahead, behind) ==
    LET want == Room(c)
        near == PickPlayhead(c, want, ahead)
        rest == IF Endgame THEN PickEndgame(c, want)
                ELSE Picked(PickQueue(c, want - Cardinality(near), behind), "free")
        pick == near \cup rest
    IN  IF pick = {} /\ want > 0 /\ ~choking[c] /\ known[c] # "no"
        THEN PickStalled(c, want, ahead) ELSE pick

----------------------------------------------------------------------------
(* A connection's handler: requests.                                       *)

\* cancel_outstanding for the requests S of c.
CancelOutstanding(c, S) ==
    /\ outstanding' = [outstanding EXCEPT ![c] = @ \ S]
    /\ cancelled' = IF c \in Fast THEN [cancelled EXCEPT ![c] = @ \cup S] ELSE cancelled
    /\ expiring' = [expiring EXCEPT ![c] = @ \cup S]
    /\ GiveUp(S, Addr[c])
    /\ UNCHANGED expects

\* after_message: a handler that needs an update goes on to update_requests.
AfterMessage(c, needs) ==
    /\ need' = IF needs THEN need \cup {c} ELSE need
    /\ IF needs \/ c \in need THEN Goto(c, "refill", None, {}) ELSE Rest(c)

WantsRefill(c, requests) == 2 * Cardinality(requests) <= QueueLimit

\* A block another peer took or finished, or one a seek left behind.
Displaced(c) == {b \in outstanding[c] : b \in dirty \/ ~Holds(b, Addr[c])}
LeftBehind(c) == {b \in outstanding[c] : c \in refocus /\ Piece[b] # focus}

\* update_requests: what is displaced is cancelled before anything is picked.
Refill(c) ==
    /\ At(c, "refill")
    /\ \/ /\ paused \/ c \in closed
          /\ Rest(c)
          /\ UNCHANGED <<tableVars, askVars, flagVars>>
       \/ /\ ~paused /\ c \notin closed
          /\ need' = need \ {c} /\ refocus' = refocus \ {c}
          /\ CancelOutstanding(c, Displaced(c) \cup LeftBehind(c))
          /\ Goto(c, "pick", None, {})
    /\ UNCHANGED <<netVars, bitVars, pieceVars, remoteVars, schedVars, trouble>>

\* The peer has something we want, choking or not.
InterestingUnblocked(c) == Fetchable(c) # {}
Interesting(c) ==
    \/ has[c] \cap Wanted # {}
    \/ c \in interested /\ has[c] \ complete # {}
    \/ focus # None /\ ~paused /\ \E p \in has[c] \ complete : p >= focus

Pick(c) ==
    /\ At(c, "pick")
    /\ \E ahead \in Rankings(c) :
         LET behind == IF rewound THEN handed ELSE {}
             near == Cardinality(PickPlayhead(c, Room(c), ahead))
         IN  /\ ClaimAll(c, PickBlocks(c, ahead, behind))
             /\ handed' = IF Endgame THEN handed
                          ELSE behind \cup Scanned(c, Room(c) - near, behind)
             /\ rewound' = (rewound \/ ~Endgame)
    /\ interested' = IF Interesting(c) THEN interested \cup {c} ELSE interested \ {c}
    /\ looked' = looked \cup {<<b, c>> : b \in {d \in Blocks : age[d] = 1}}
    /\ UNCHANGED <<netVars, owner, second, age, bitVars, pieceVars, askVars, has,
                   choking, allowed, known, flagVars, focus, copies, paused, trouble>>

Head(c) == CHOOSE t \in pc[c].todo : \A u \in pc[c].todo : t.req <= u.req
Others(c) == pc[c].todo \ {Head(c)}

\* The first half of a claim.  From(holder) releases the holder; the block must
\* be undelivered and, but for a second copy, not in writing; an eager copy
\* pays from the seek's copies.
Claim(c) ==
    /\ At(c, "claim")
    /\ LET t == Head(c)
           copy == t.take \in {"copy", "eager"}
           paid == t.take # "eager" \/ copies > 0
           possible == t.req \notin dirty /\ (copy \/ t.req \notin writing)
       IN  /\ TableStep(Without(owner, {t.req}, t.take), second, {})
           /\ copies' = IF t.take = "eager" /\ paid /\ possible THEN copies - 1 ELSE copies
           /\ IF paid /\ possible THEN Goto(c, "take", None, pc[c].todo)
              ELSE ClaimAll(c, Others(c))
    /\ UNCHANGED <<netVars, bitVars, pieceVars, askVars, remoteVars, flagVars, focus,
                   handed, rewound, paused, trouble>>

\* send_request: one more answer is expected, and the block may be asked again.
SendRequest(c, b) ==
    /\ outstanding' = [outstanding EXCEPT ![c] = @ \cup {b}]
    /\ expects' = [expects EXCEPT ![c][b] = IF @ < MaxExpects THEN @ + 1 ELSE @]
    /\ cancelled' = [cancelled EXCEPT ![c] = @ \ {b}]
    /\ expiring' = [expiring EXCEPT ![c] = @ \ {b}]

\* The second half: the table decides, then the request is sent.  A closed
\* connection sends nothing and hands the block back.
Take(c) ==
    /\ At(c, "take")
    /\ LET b == Head(c).req
           copy == Head(c).take \in {"copy", "eager"}
           won == IF copy THEN second[b] = None ELSE owner[b] \in {None, Addr[c]}
           sent == won /\ c \notin closed
       IN  /\ \/ /\ sent /\ SendRequest(c, b)
                 /\ IF copy THEN TableStep(owner, [second EXCEPT ![b] = Addr[c]], {})
                    ELSE TableStep([owner EXCEPT ![b] = Addr[c]], second, {b})
              \/ /\ ~sent /\ UNCHANGED askVars
                 /\ IF won /\ ~copy THEN TableStep([owner EXCEPT ![b] = None], second, {})
                    ELSE UNCHANGED tableVars
           /\ copies' = IF Head(c).take = "eager" /\ ~sent THEN copies + 1 ELSE copies
           /\ IF won /\ ~sent THEN Rest(c) ELSE ClaimAll(c, Others(c))
    /\ UNCHANGED <<netVars, bitVars, pieceVars, remoteVars, flagVars, focus, handed,
                   rewound, paused, trouble>>

----------------------------------------------------------------------------
(* A connection's handler: delivered blocks.  Web seeds write with the same *)
(* steps but hold nothing in the table.                                    *)

ExpectedAlways(c, b) == Open(c)
Expected(c, b) == Open(c) /\ (b \in outstanding[c] \/ expects[c][b] > 0)

\* handle_piece up to the reservation: the local request is settled first, so
\* that a failed write can be asked again.  The download limiter may hold up a
\* block read off the socket, so the connection may be closed by then.
HandlePiece(c, b) ==
    /\ Expected(c, b) /\ At(c, "idle")
    /\ outstanding' = [outstanding EXCEPT ![c] = @ \ {b}]
    /\ cancelled' = [cancelled EXCEPT ![c] = @ \ {b}]
    /\ expiring' = [expiring EXCEPT ![c] = @ \ {b}]
    /\ expects' = [expects EXCEPT ![c][b] = @ - 1]
    /\ TableStep(owner, Without(second, {b}, Addr[c]), {})
    /\ Goto(c, "reserve", b, {})
    /\ UNCHANGED <<netVars, bitVars, pieceVars, remoteVars, flagVars, schedVars, trouble>>

Finished(a) ==
    IF a \in Web THEN Rest(a) /\ UNCHANGED need
    ELSE AfterMessage(a, WantsRefill(a, outstanding[a]))

\* piece_all_dirty, read before the lock queue_piece_hash takes.
HashIfAllDirty(a) ==
    IF Of(Piece[pc[a].blk]) \subseteq dirty
    THEN Goto(a, "queue", pc[a].blk, {}) /\ UNCHANGED need
    ELSE Finished(a)

\* The block is written or being written: this copy is wasted.  A web seed
\* looks at the piece after every fetch, whatever became of its blocks.
Wasted(a) ==
    IF a \in Web THEN HashIfAllDirty(a) /\ UNCHANGED tableVars
    ELSE /\ GiveUp({pc[a].blk}, Addr[a])
         /\ AfterMessage(a, WantsRefill(a, outstanding[a]))

\* begin_chunk_write: the piece and the block are looked at, then one atomic bit
\* is set, then the block is looked at again.
Reserve(a) ==
    /\ At(a, "reserve")
    /\ LET b == pc[a].blk
       IN  IF a \in Web /\ paused THEN Rest(a) /\ UNCHANGED <<tableVars, need>>
           ELSE IF Piece[b] \in complete \cup checking \/ b \in dirty THEN Wasted(a)
           ELSE Goto(a, "begin", b, {}) /\ UNCHANGED <<tableVars, need>>
    /\ UNCHANGED <<netVars, bitVars, pieceVars, askVars, remoteVars, refocus, schedVars, trouble>>

BeginWrite(a) ==
    /\ At(a, "begin")
    /\ LET b == pc[a].blk
       IN  IF b \in writing THEN Wasted(a) /\ UNCHANGED writing
           ELSE /\ writing' = writing \cup {b}
                /\ Goto(a, "recheck", b, {}) /\ UNCHANGED <<tableVars, need>>
    /\ UNCHANGED <<netVars, dirty, pieceVars, askVars, remoteVars, refocus, schedVars, trouble>>

\* The writer may have finished between the two checks.
FinishedNever(b) == FALSE
FinishedMeanwhile(b) == b \in dirty

Recheck(a) ==
    /\ At(a, "recheck")
    /\ LET b == pc[a].blk
       IN  IF FinishedMeanwhile(b) THEN Wasted(a) /\ writing' = writing \ {b}
           ELSE Goto(a, "write", b, {}) /\ UNCHANGED <<tableVars, need, writing>>
    /\ UNCHANGED <<netVars, dirty, pieceVars, askVars, remoteVars, refocus, schedVars, trouble>>

\* finish_chunk_write: dirty before the reservation is released.
WriteChunk(a) ==
    /\ At(a, "write")
    /\ dirty' = dirty \cup {pc[a].blk}
    /\ Goto(a, "end", pc[a].blk, {})
    /\ UNCHANGED <<netVars, tableVars, writing, pieceVars, askVars, remoteVars, flagVars,
                   schedVars, trouble>>

\* A failed write makes the block requestable again.
WriteError(a) ==
    /\ At(a, "write") /\ Spend
    /\ writing' = writing \ {pc[a].blk}
    /\ IF a \in Web THEN HashIfAllDirty(a) /\ UNCHANGED tableVars
       ELSE /\ TableStep(Without(owner, {pc[a].blk}, Addr[a]), second, {})
            /\ AfterMessage(a, TRUE)
    /\ UNCHANGED <<netVars, dirty, pieceVars, askVars, remoteVars, refocus, schedVars>>

EndWrite(a) ==
    /\ At(a, "end")
    /\ writing' = writing \ {pc[a].blk}
    /\ IF a \in Web THEN HashIfAllDirty(a)
       ELSE Goto(a, "settle", pc[a].blk, {}) /\ UNCHANGED need
    /\ UNCHANGED <<netVars, tableVars, dirty, pieceVars, askVars, remoteVars, refocus,
                   schedVars, trouble>>

\* on_chunk_received: the peer is useful and nobody holds the block.
Received(c) ==
    /\ At(c, "settle")
    /\ known' = [known EXCEPT ![c] = "useful"]
    /\ Clear(pc[c].blk)
    /\ HashIfAllDirty(c)
    /\ UNCHANGED <<netVars, bitVars, pieceVars, askVars, has, choking, allowed, interested,
                   refocus, schedVars, trouble>>

QueuePieceHash(a) ==
    /\ At(a, "queue")
    /\ LET p == Piece[pc[a].blk]
       IN  checking' = IF p \in complete THEN checking ELSE checking \cup {p}
    /\ Finished(a)
    /\ UNCHANGED <<netVars, tableVars, bitVars, complete, clearing, askVars, remoteVars,
                   refocus, schedVars, trouble>>

\* The web seed loop fetched a block nobody had delivered when it looked.
WebFetch(w, b) ==
    /\ At(w, "idle") /\ ~paused /\ Spend
    /\ Piece[b] \in Wanted /\ b \notin dirty
    /\ Goto(w, "reserve", b, {})
    /\ UNCHANGED <<netVars, tableVars, bitVars, pieceVars, askVars, remoteVars, flagVars,
                   schedVars>>

\* apply_hash_result: first the piece, then (only for a bad one) its blocks.
HashResult(p, valid) ==
    /\ clearing = {} /\ p \in checking
    /\ checking' = checking \ {p}
    /\ \/ valid /\ complete' = complete \cup {p} /\ UNCHANGED <<clearing, trouble>>
       \/ ~valid /\ Spend /\ clearing' = {p} /\ UNCHANGED complete
    /\ UNCHANGED <<netVars, tableVars, bitVars, askVars, remoteVars, flagVars, schedVars, pc>>

ClearDirty(p) ==
    /\ p \in clearing
    /\ clearing' = {}
    /\ dirty' = dirty \ Of(p)
    /\ UNCHANGED <<netVars, tableVars, writing, checking, complete, askVars, remoteVars,
                   flagVars, schedVars, pc, trouble>>

----------------------------------------------------------------------------
(* A connection's handler: the other messages.                             *)

Receives(c) == Open(c) /\ c \notin closed /\ At(c, "idle")

Choke(c) ==
    /\ Receives(c) /\ ~choking[c] /\ Spend
    /\ choking' = [choking EXCEPT ![c] = TRUE]
    /\ CancelOutstanding(c, {b \in outstanding[c] : Piece[b] \notin allowed[c]})
    /\ AfterMessage(c, TRUE)
    /\ UNCHANGED <<netVars, bitVars, pieceVars, has, allowed, interested, known, refocus,
                   schedVars>>

Unchoke(c) ==
    /\ Receives(c) /\ choking[c] /\ c \in interested
    /\ choking' = [choking EXCEPT ![c] = FALSE]
    /\ AfterMessage(c, TRUE)
    /\ UNCHANGED <<netVars, tableVars, bitVars, pieceVars, askVars, has, allowed, interested,
                   known, refocus, schedVars, trouble>>

\* Bitfield, HaveAll and HaveNone: what the peer no longer has is cancelled.
Bitfield(c, S) ==
    /\ Receives(c) /\ S # has[c]
    /\ IF has[c] \subseteq S THEN UNCHANGED trouble ELSE c \notin Reliable /\ Spend
    /\ has' = [has EXCEPT ![c] = S]
    /\ LET gone == {b \in outstanding[c] : Piece[b] \in has[c] \ S}
       IN  /\ CancelOutstanding(c, gone)
           /\ AfterMessage(c, gone # {} \/ (S \ has[c]) \ complete # {})
    /\ UNCHANGED <<netVars, bitVars, pieceVars, choking, allowed, interested, known, refocus,
                   schedVars>>

AllowedFast(c, p) ==
    /\ Receives(c) /\ c \in Fast /\ p \notin allowed[c] /\ Spend
    /\ allowed' = [allowed EXCEPT ![c] = @ \cup {p}]
    /\ AfterMessage(c, TRUE)
    /\ UNCHANGED <<netVars, tableVars, bitVars, pieceVars, askVars, has, choking, interested,
                   known, refocus, schedVars>>

\* The answer to a cancel costs nothing; rejecting a live request does.
Reject(c, b) ==
    /\ Receives(c) /\ c \in Fast /\ expects[c][b] > 0
    /\ IF b \in outstanding[c] THEN Spend ELSE UNCHANGED trouble
    /\ outstanding' = [outstanding EXCEPT ![c] = @ \ {b}]
    /\ cancelled' = [cancelled EXCEPT ![c] = @ \ {b}]
    /\ expiring' = [expiring EXCEPT ![c] = @ \ {b}]
    /\ expects' = [expects EXCEPT ![c][b] = @ - 1]
    /\ GiveUp({b}, Addr[c])
    /\ AfterMessage(c, TRUE)
    /\ UNCHANGED <<netVars, bitVars, pieceVars, remoteVars, refocus, schedVars>>

\* The answer to maybe_probe_speed: it is not stored, it only measures the peer.
Probe(c) ==
    /\ Receives(c) /\ ~choking[c] /\ known[c] = "no"
    /\ outstanding[c] = {} /\ has[c] # {} /\ ~paused
    /\ known' = [known EXCEPT ![c] = "probed"]
    /\ UNCHANGED <<netVars, tableVars, bitVars, pieceVars, askVars, has, choking, allowed,
                   interested, flagVars, schedVars, pc, trouble>>

----------------------------------------------------------------------------
(* Wakes: a timer runs on_wake of every connection with work to do.        *)

Wake(c) ==
    /\ Receives(c) /\ ~paused
    /\ \/ c \in need \/ c \in refocus
       \/ Displaced(c) # {}
       \/ c \notin interested /\ has[c] \ complete # {}
       \/ /\ ~choking[c] \/ allowed[c] # {}
          /\ WantsRefill(c, outstanding[c]) /\ has[c] \ complete # {}
    /\ Goto(c, "refill", None, {})
    /\ UNCHANGED <<netVars, tableVars, bitVars, pieceVars, askVars, remoteVars, flagVars,
                   schedVars, trouble>>

\* A cancel that got no answer stops counting after a while.
WakeExpire(c) ==
    /\ Receives(c) /\ ~paused /\ expiring[c] # {}
    /\ cancelled' = [cancelled EXCEPT ![c] = @ \ expiring[c]]
    /\ expects' = [expects EXCEPT ![c] =
                     [b \in Blocks |-> IF b \in expiring[c] \ outstanding[c] THEN 0 ELSE @[b]]]
    /\ expiring' = [expiring EXCEPT ![c] = {}]
    /\ need' = need \cup {c}
    /\ Goto(c, "refill", None, {})
    /\ UNCHANGED <<netVars, tableVars, bitVars, pieceVars, outstanding, remoteVars, refocus,
                   schedVars, trouble>>

\* A peer that delivered nothing for DEAD_PEER_AFTER gives up its old requests.
\* The clock of a request is that of the block's owner, whoever it is.
WakeStale(c) ==
    /\ Receives(c) /\ ~paused /\ known[c] \notin {"useful", "quiet"}
    /\ LET stale == {b \in outstanding[c] : owner[b] # None /\ age[b] = 2}
       IN  stale # {} /\ CancelOutstanding(c, stale)
    /\ need' = need \cup {c}
    /\ Goto(c, "refill", None, {})
    /\ UNCHANGED <<netVars, bitVars, pieceVars, remoteVars, refocus, schedVars, trouble>>

WakePaused(c) ==
    /\ Receives(c) /\ paused /\ outstanding[c] # {}
    /\ CancelOutstanding(c, outstanding[c])
    /\ UNCHANGED <<netVars, bitVars, pieceVars, remoteVars, flagVars, schedVars, pc, trouble>>

\* Time passes since the last useful block of c.
Quieter(c) ==
    /\ Open(c) /\ known[c] \in {"useful", "quiet"}
    /\ known' = [known EXCEPT ![c] = IF @ = "useful" THEN "quiet" ELSE "dead"]
    /\ UNCHANGED <<netVars, tableVars, bitVars, pieceVars, askVars, has, choking, allowed,
                   interested, flagVars, schedVars, pc, trouble>>

\* Time passes for the request of b.  STALLED_AFTER is 8 s and DEAD_PEER_AFTER
\* 30 s: in between, every peer with room to ask for it has refilled many times.
Older(b) ==
    /\ owner[b] # None /\ age[b] < 2
    /\ age[b] = 1 => \A c \in Conns :
         (/\ Open(c) /\ c \notin closed /\ ~paused /\ Piece[b] \in Fetchable(c)
          /\ WantsRefill(c, outstanding[c]) /\ ~Holds(b, Addr[c])) => <<b, c>> \in looked
    /\ age' = [age EXCEPT ![b] = @ + 1]
    /\ looked' = {x \in looked : x[1] # b}
    /\ UNCHANGED <<netVars, owner, second, bitVars, pieceVars, askVars, remoteVars,
                   flagVars, schedVars, pc, trouble>>

RewindDue ==
    /\ rewound
    /\ rewound' = FALSE
    /\ UNCHANGED <<netVars, tableVars, bitVars, pieceVars, askVars, remoteVars, flagVars,
                   focus, copies, handed, paused, pc, trouble>>

----------------------------------------------------------------------------
(* Playback and the life of a connection.                                  *)

\* A seek moves the playhead, grants eager copies, rewinds the queue and makes
\* every registered connection drop what is not at the playhead.
Seek(p) ==
    /\ p # focus /\ Spend
    /\ focus' = p /\ copies' = SeekCopies /\ rewound' = FALSE
    /\ refocus' = refocus \cup {c \in Conns : registry[Addr[c]] = c}
    /\ UNCHANGED <<netVars, tableVars, bitVars, pieceVars, askVars, remoteVars, need, handed,
                   paused, pc>>

Pause ==
    /\ ~paused /\ Spend
    /\ paused' = TRUE
    /\ UNCHANGED <<netVars, tableVars, bitVars, pieceVars, askVars, remoteVars, flagVars,
                   focus, copies, handed, rewound, pc>>

Resume ==
    /\ paused
    /\ paused' = FALSE
    /\ UNCHANGED <<netVars, tableVars, bitVars, pieceVars, askVars, remoteVars, flagVars,
                   focus, copies, handed, rewound, pc, trouble>>

\* attach_connection: one slot per address.
Attach(c) ==
    /\ phase[c] = "new" /\ registry[Addr[c]] = None
    /\ registry' = [registry EXCEPT ![Addr[c]] = c]
    /\ phase' = [phase EXCEPT ![c] = "open"]
    /\ UNCHANGED <<closed, dropping, tableVars, bitVars, pieceVars, askVars, remoteVars,
                   flagVars, schedVars, pc, trouble>>

\* The peer hangs up, a deadline passes or the caller drops the peer.
Close(c) ==
    /\ Open(c) /\ c \notin closed \cup Reliable /\ Spend
    /\ closed' = closed \cup {c}
    /\ UNCHANGED <<registry, phase, dropping, tableVars, bitVars, pieceVars, askVars,
                   remoteVars, flagVars, schedVars, pc>>

\* drop_conn_addr: retire, close, forget, from another thread.
DropConn(c) ==
    /\ dropping.at = "idle" /\ Spend
    /\ registry[Addr[c]] = c /\ c \notin Reliable
    /\ registry' = [registry EXCEPT ![Addr[c]] = None]
    /\ dropping' = [conn |-> c, at |-> "close"]
    /\ UNCHANGED <<phase, closed, tableVars, bitVars, pieceVars, askVars, remoteVars,
                   flagVars, schedVars, pc>>

DropClose ==
    /\ dropping.at = "close"
    /\ closed' = closed \cup {dropping.conn}
    /\ dropping' = [dropping EXCEPT !.at = "forget"]
    /\ UNCHANGED <<registry, phase, tableVars, bitVars, pieceVars, askVars, remoteVars,
                   flagVars, schedVars, pc, trouble>>

DropForget ==
    /\ dropping.at = "forget"
    /\ ForgetPeer(Addr[dropping.conn])
    /\ dropping' = [conn |-> None, at |-> "idle"]
    /\ UNCHANGED <<registry, phase, closed, bitVars, pieceVars, askVars, remoteVars,
                   flagVars, schedVars, pc, trouble>>

\* retire_connection removes whatever connection is registered at the address.
RetireConnection(a) == registry' = [registry EXCEPT ![a] = None]

\* on_closed: own assignments are cleared and the address is retired ...
OnClosed(c) ==
    /\ Open(c) /\ c \in closed /\ At(c, "idle")
    /\ TableStep(Without(owner, outstanding[c], Addr[c]), second, {})
    /\ RetireConnection(Addr[c])
    /\ Goto(c, "forget", None, {})
    /\ UNCHANGED <<phase, closed, dropping, bitVars, pieceVars, askVars, remoteVars,
                   flagVars, schedVars, trouble>>

\* ... and peer_closed hands back everything held under the key.
PeerClosed(c) ==
    /\ At(c, "forget")
    /\ ForgetPeer(Addr[c])
    /\ phase' = [phase EXCEPT ![c] = "gone"]
    /\ Rest(c)
    /\ outstanding' = [outstanding EXCEPT ![c] = {}]
    /\ cancelled' = [cancelled EXCEPT ![c] = {}]
    /\ expiring' = [expiring EXCEPT ![c] = {}]
    /\ expects' = [expects EXCEPT ![c] = [b \in Blocks |-> 0]]
    /\ has' = [has EXCEPT ![c] = {}] /\ choking' = [choking EXCEPT ![c] = TRUE]
    /\ allowed' = [allowed EXCEPT ![c] = {}] /\ interested' = interested \ {c}
    /\ known' = [known EXCEPT ![c] = "no"]
    /\ need' = need \ {c} /\ refocus' = refocus \ {c}
    /\ UNCHANGED <<registry, closed, dropping, bitVars, pieceVars, schedVars, trouble>>

----------------------------------------------------------------------------
WriteStep(a) ==
    \/ Reserve(a) \/ BeginWrite(a) \/ Recheck(a) \/ WriteChunk(a) \/ WriteError(a)
    \/ EndWrite(a) \/ QueuePieceHash(a)

HandlerStep(c) ==
    \/ Refill(c) \/ Pick(c) \/ Claim(c) \/ Take(c)
    \/ Received(c) \/ PeerClosed(c)

Message(c) ==
    \/ Choke(c) \/ Unchoke(c) \/ Probe(c)
    \/ \E b \in Blocks : HandlePiece(c, b) \/ Reject(c, b)
    \/ \E S \in {Serves[c], {}} : Bitfield(c, S)
    \/ \E p \in Serves[c] : AllowedFast(c, p)

Timer(c) == Wake(c) \/ WakeExpire(c) \/ WakeStale(c) \/ WakePaused(c) \/ Quieter(c)

Life(c) == Attach(c) \/ Close(c) \/ DropConn(c) \/ OnClosed(c)

Torrent ==
    \/ \E p \in Pieces : ClearDirty(p) \/ \E valid \in BOOLEAN : HashResult(p, valid)
    \/ \E p \in FocusPieces : Seek(p)
    \/ \E b \in Blocks : Older(b) \/ \E w \in Web : WebFetch(w, b)
    \/ RewindDue \/ Pause \/ Resume \/ DropClose \/ DropForget

Next ==
    \/ \E c \in Conns : HandlerStep(c) \/ Message(c) \/ Timer(c) \/ Life(c)
    \/ \E a \in Actors : WriteStep(a)
    \/ Torrent

\* Tasks and threads run, timers fire, and the peer of a reliable connection
\* sends its bitfield, unchokes an interested client and answers requests.
Runs(c) == HandlerStep(c) \/ WriteStep(c) \/ OnClosed(c)
Answers(c) == Unchoke(c) \/ Probe(c) \/ \E b \in Blocks : HandlePiece(c, b)

Fairness ==
    /\ \A c \in Conns :
         /\ WF_vars(Runs(c)) /\ WF_vars(Wake(c))
         /\ WF_vars(WakeExpire(c)) /\ WF_vars(WakeStale(c)) /\ WF_vars(Quieter(c))
    /\ \A w \in Web : WF_vars(WriteStep(w))
    /\ \A c \in Reliable :
         /\ WF_vars(Attach(c) \/ Bitfield(c, Serves[c]))
         /\ SF_vars(Answers(c))
    /\ \A p \in Pieces : WF_vars(ClearDirty(p) \/ HashResult(p, TRUE))
    /\ \A b \in Blocks : WF_vars(Older(b))
    /\ WF_vars(RewindDue) /\ WF_vars(Resume) /\ WF_vars(DropClose \/ DropForget)

Spec == Init /\ [][Next]_vars
FairSpec == Spec /\ Fairness

----------------------------------------------------------------------------
(* Properties                                                              *)

\* Type invariant: the table, the handlers and the registry keep the ranges
\* their Rust types give them.
TypeOK ==
    /\ registry \in [Addrs -> Conns \cup {None}]
    /\ phase \in [Conns -> {"new", "open", "gone"}]
    /\ closed \subseteq Conns
    /\ dropping \in [conn : Conns \cup {None}, at : {"idle", "close", "forget"}]
    /\ owner \in [Blocks -> Addrs \cup {None}] /\ second \in [Blocks -> Addrs \cup {None}]
    /\ age \in [Blocks -> 0..2] /\ looked \subseteq Blocks \X Conns
    /\ writing \subseteq Blocks /\ dirty \subseteq Blocks
    /\ checking \subseteq Pieces /\ complete \subseteq Pieces /\ clearing \subseteq Pieces
    /\ outstanding \in [Conns -> SUBSET Blocks] /\ cancelled \in [Conns -> SUBSET Blocks]
    /\ expiring \in [Conns -> SUBSET Blocks]
    /\ expects \in [Conns -> [Blocks -> 0..MaxExpects]]
    /\ has \in [Conns -> SUBSET Pieces] /\ allowed \in [Conns -> SUBSET Pieces]
    /\ choking \in [Conns -> BOOLEAN] /\ interested \subseteq Conns
    /\ known \in [Conns -> {"no", "probed", "useful", "quiet", "dead"}]
    /\ need \subseteq Conns /\ refocus \subseteq Conns
    /\ focus \in Pieces \cup {None} /\ copies \in Nat
    /\ handed \subseteq Blocks /\ rewound \in BOOLEAN /\ paused \in BOOLEAN
    /\ pc \in [Actors -> [at : {"idle", "refill", "pick", "claim", "take", "reserve",
                                "begin", "recheck", "write", "end", "settle", "queue",
                                "forget"},
                          blk : Blocks \cup {None},
                          todo : SUBSET [req : Blocks, take : Takes]]]
    /\ trouble \in 0..MaxTrouble

Writer(a, b) == pc[a].blk = b /\ pc[a].at \in {"recheck", "write", "end"}

\* begin_chunk_write and finish_chunk_write: however deliveries of the same
\* block interleave (owner, second copy, late answer to a cancelled request,
\* web seed), one of them reserves it, and what is already stored is not
\* written again while it counts as delivered.
OneBlockWriter ==
    \A b \in Blocks :
      /\ \A a, d \in Actors : Writer(a, b) /\ Writer(d, b) => a = d
      /\ \A a \in Actors : pc[a].blk = b /\ At(a, "write") => b \in writing \ dirty

\* The handler of c is settling block b: it gives its claim up before it rests.
Settling(c, b) ==
    /\ pc[c].blk = b
    /\ pc[c].at \in {"reserve", "begin", "recheck", "write", "end", "settle"}

\* Every path out of a request (answer, waste, error, choke, reject, retracted
\* piece, steal, timeout, close, drop) gives the claim back: a block is never
\* held under a key whose connections have not asked for it, which would keep
\* it from every other peer for good.
HoldersAsk ==
    \A b \in Blocks, a \in Addrs : Holds(b, a) =>
      \E c \in Conns : Addr[c] = a /\ Open(c) /\ (b \in outstanding[c] \/ Settling(c, b))

\* Whatever unreliable peers do (hold requests in silence, choke, reject, hang
\* up, answer late), one peer that answers is enough to complete the torrent,
\* and every request left over for a block that has come is cancelled.
Downloads == <>[](complete = Pieces /\ \A c \in Conns : outstanding[c] = {})

=============================================================================
