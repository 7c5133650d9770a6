--------------------------- MODULE RequestsProofs ---------------------------
(***************************************************************************)
(* One writer per block, and no block held by a key that does not ask for  *)
(* it, for any number of blocks, connections, addresses and web seeds.     *)
(*                                                                         *)
(* OneBlockWriter alone is not inductive: it says nothing of the bit that  *)
(* keeps a second delivery out.  WriterInv adds that every handler between *)
(* begin_write and end_write has its block's writing bit set.  Nor is      *)
(* HoldersAsk: on_closed and a failed write give up only the owner's half  *)
(* of a claim.  AskInv adds that the holder of a second copy has the       *)
(* request itself, and that a handler runs only while its connection does. *)
(***************************************************************************)
EXTENDS Requests, TLAPS

Stages == {"recheck", "write", "end"}

\* Handlers between begin_write and end_write hold the bit, alone, and what
\* is about to be written has not been delivered.
WriterInv ==
    /\ pc = [a \in Actors |-> pc[a]]
    /\ \A a \in Actors : pc[a].at \in Stages => pc[a].blk \in writing
    /\ \A a, d \in Actors :
         pc[a].at \in Stages /\ pc[d].at \in Stages /\ pc[a].blk = pc[d].blk => a = d
    /\ \A a \in Actors : pc[a].at = "write" => pc[a].blk \notin dirty

\* A handler that goes to a stage outside the reserved section, and leaves the
\* bits alone, disturbs no writer.
LEMMA Leaves ==
    ASSUME NEW a \in Actors, NEW r, r.at \notin Stages,
           WriterInv, pc' = [pc EXCEPT ![a] = r], UNCHANGED bitVars
    PROVE  WriterInv'
  BY DEF WriterInv, bitVars, Stages

\* Steps that move no handler and deliver no block disturb no writer.
LEMMA Stays ==
    ASSUME WriterInv, UNCHANGED <<pc, writing>>, dirty' \subseteq dirty
    PROVE  WriterInv'
  BY DEF WriterInv, Stages

\* The goals of the stages outside the reserved section.
LEMMA Elsewhere ==
    ASSUME NEW a, NEW b, NEW todo, NEW where,
           where \in {"refill", "pick", "claim", "take", "reserve", "begin", "settle",
                      "queue", "forget"},
           WriterInv, a \in Actors, Goto(a, where, b, todo), UNCHANGED bitVars
    PROVE  WriterInv'
  BY Leaves DEF Goto, Stages

LEMMA Rests ==
    ASSUME NEW a \in Actors, WriterInv, Rest(a), UNCHANGED bitVars
    PROVE  WriterInv'
  BY Leaves DEF Rest, Idle, Stages

LEMMA Goes ==
    ASSUME NEW a \in Actors, NEW needs, WriterInv, AfterMessage(a, needs), UNCHANGED bitVars
    PROVE  WriterInv'
  BY Elsewhere, Rests DEF AfterMessage

LEMMA Claims ==
    ASSUME NEW a \in Actors, NEW todo, WriterInv, ClaimAll(a, todo), UNCHANGED bitVars
    PROVE  WriterInv'
  BY Elsewhere, Rests DEF ClaimAll

----------------------------------------------------------------------------
LEMMA InitWriter == Init => WriterInv
  BY DEF Init, WriterInv, Idle, Stages

\* The steps of a delivery: only BeginWrite enters the reserved section, with the
\* bit it set, and only its owner gives the bit back.
LEMMA WriteSteps ==
    ASSUME NEW a \in Actors, WriterInv, WriteStep(a)
    PROVE  WriterInv'
<1> DEFINE b == pc[a].blk
<1>1. ASSUME NEW d \in Actors, Finished(d), UNCHANGED bitVars PROVE WriterInv'
  BY <1>1, Rests, Goes DEF Finished
<1>2. ASSUME NEW d \in Actors, HashIfAllDirty(d), UNCHANGED bitVars PROVE WriterInv'
  BY <1>1, <1>2, Elsewhere DEF HashIfAllDirty
<1>3. ASSUME NEW d \in Actors, Wasted(d), UNCHANGED bitVars PROVE WriterInv'
  BY <1>2, <1>3, Goes DEF Wasted
<1>4. CASE Reserve(a)
  BY <1>3, <1>4, Elsewhere, Rests DEF Reserve
<1>5. CASE BeginWrite(a)
  <2>1. CASE b \in writing
    BY <1>3, <1>5, <2>1 DEF BeginWrite, bitVars
  <2>2. CASE b \notin writing
    BY <1>5, <2>2 DEF BeginWrite, WriterInv, Goto, Stages
  <2> QED BY <2>1, <2>2
<1>6. ASSUME NEW r, r.at \notin Stages, pc' = [pc EXCEPT ![a] = r],
             pc[a].at \in Stages, writing' = writing \ {b}, UNCHANGED dirty
      PROVE  WriterInv'
  BY <1>6 DEF WriterInv, Stages
<1>7. ASSUME pc[a].at \in Stages, writing' = writing \ {b}, UNCHANGED dirty,
             \/ HashIfAllDirty(a) \/ \E needs : AfterMessage(a, needs)
             \/ Goto(a, "settle", b, {})
      PROVE  WriterInv'
  <2>1. \E r : r.at \notin Stages /\ pc' = [pc EXCEPT ![a] = r]
    BY <1>7 DEF HashIfAllDirty, Finished, AfterMessage, Goto, Rest, Idle, Stages
  <2> QED BY <1>6, <1>7, <2>1
<1>8. CASE Recheck(a)
  <2>1. CASE FinishedMeanwhile(b)
    BY <1>7, <1>8, <2>1 DEF Recheck, Wasted, At, Stages
  <2>2. CASE ~FinishedMeanwhile(b)
    BY <1>8, <2>2 DEF Recheck, FinishedMeanwhile, WriterInv, Goto, At, Stages
  <2> QED BY <2>1, <2>2
<1>9. CASE WriteChunk(a)
  BY <1>9 DEF WriteChunk, WriterInv, Goto, At, Stages
<1>10. CASE WriteError(a)
  BY <1>7, <1>10 DEF WriteError, At, Stages
<1>11. CASE EndWrite(a)
  BY <1>7, <1>11 DEF EndWrite, At, Stages
<1>12. CASE QueuePieceHash(a)
  BY <1>1, <1>12 DEF QueuePieceHash
<1> QED BY <1>4, <1>5, <1>8, <1>9, <1>10, <1>11, <1>12 DEF WriteStep

\* A connection's other steps never enter the reserved section.
LEMMA ConnectionSteps ==
    ASSUME NEW c \in Conns, WriterInv, HandlerStep(c) \/ Message(c) \/ Timer(c) \/ Life(c)
    PROVE  WriterInv'
<1> c \in Actors
  BY DEF Actors
<1>1. CASE HandlerStep(c)
  <2>1. CASE Refill(c)
    BY <2>1, Elsewhere, Rests DEF Refill
  <2>2. CASE Pick(c)
    BY <2>2, Claims DEF Pick
  <2>3. CASE Claim(c)
    BY <2>3, Elsewhere, Claims DEF Claim
  <2>4. CASE Take(c)
    BY <2>4, Rests, Claims DEF Take
  <2>5. CASE Received(c)
    BY <2>5, Elsewhere, Rests, Goes DEF Received, HashIfAllDirty, Finished
  <2>6. CASE PeerClosed(c)
    BY <2>6, Rests DEF PeerClosed
  <2> QED BY <1>1, <2>1, <2>2, <2>3, <2>4, <2>5, <2>6 DEF HandlerStep
<1>2. CASE Message(c)
  <2>1. CASE Choke(c) \/ Unchoke(c)
    BY <2>1, Goes DEF Choke, Unchoke
  <2>2. CASE Probe(c)
    BY <2>2, Stays DEF Probe, bitVars
  <2>3. ASSUME NEW b \in Blocks, HandlePiece(c, b) PROVE WriterInv'
    BY <2>3, Elsewhere DEF HandlePiece
  <2>4. ASSUME NEW b \in Blocks, Reject(c, b) PROVE WriterInv'
    BY <2>4, Goes DEF Reject
  <2>5. ASSUME NEW S, Bitfield(c, S) PROVE WriterInv'
    BY <2>5, Goes DEF Bitfield
  <2>6. ASSUME NEW p, AllowedFast(c, p) PROVE WriterInv'
    BY <2>6, Goes DEF AllowedFast
  <2> QED BY <1>2, <2>1, <2>2, <2>3, <2>4, <2>5, <2>6 DEF Message
<1>3. CASE Timer(c)
  <2>1. CASE Wake(c) \/ WakeExpire(c) \/ WakeStale(c)
    BY <2>1, Elsewhere DEF Wake, WakeExpire, WakeStale
  <2>2. CASE WakePaused(c) \/ Quieter(c)
    BY <2>2, Stays DEF WakePaused, Quieter, bitVars
  <2> QED BY <1>3, <2>1, <2>2 DEF Timer
<1>4. CASE Life(c)
  <2>1. CASE Attach(c) \/ Close(c) \/ DropConn(c)
    BY <2>1, Stays DEF Attach, Close, DropConn, bitVars
  <2>2. CASE OnClosed(c)
    BY <2>2, Elsewhere DEF OnClosed
  <2> QED BY <1>4, <2>1, <2>2 DEF Life
<1> QED BY <1>1, <1>2, <1>3, <1>4

\* Nor do the steps of the torrent; a failed hash only takes delivered bits away.
LEMMA TorrentSteps ==
    ASSUME WriterInv, Torrent
    PROVE  WriterInv'
<1>1. ASSUME NEW p, ClearDirty(p) PROVE WriterInv'
  BY <1>1, Stays DEF ClearDirty
<1>2. ASSUME NEW p, NEW valid, HashResult(p, valid) PROVE WriterInv'
  BY <1>2, Stays DEF HashResult, bitVars
<1>3. ASSUME NEW p, Seek(p) PROVE WriterInv'
  BY <1>3, Stays DEF Seek, bitVars
<1>4. ASSUME NEW b, Older(b) PROVE WriterInv'
  BY <1>4, Stays DEF Older, bitVars
<1>5. ASSUME NEW w \in Web, NEW b, WebFetch(w, b) PROVE WriterInv'
  BY <1>5, Elsewhere DEF WebFetch, Actors
<1>6. CASE RewindDue \/ Pause \/ Resume
  BY <1>6, Stays DEF RewindDue, Pause, Resume, bitVars
<1>7. CASE DropClose \/ DropForget
  BY <1>7, Stays DEF DropClose, DropForget, bitVars
<1> QED BY <1>1, <1>2, <1>3, <1>4, <1>5, <1>6, <1>7 DEF Torrent

LEMMA NextWriter == WriterInv /\ [Next]_vars => WriterInv'
<1> SUFFICES ASSUME WriterInv, [Next]_vars PROVE WriterInv'
  OBVIOUS
<1>1. CASE UNCHANGED vars
  BY <1>1, Stays DEF vars, bitVars
<1>2. CASE Next
  BY <1>2, ConnectionSteps, WriteSteps, TorrentSteps DEF Next
<1> QED BY <1>1, <1>2

LEMMA WriterImplies == WriterInv => OneBlockWriter
  BY DEF WriterInv, OneBlockWriter, Writer, At, Stages

\* begin_chunk_write and finish_chunk_write keep a block to one writer at a time,
\* and nobody writes a block that counts as delivered: for any number of blocks,
\* pieces, connections and web seeds, and any choice the picker makes.
THEOREM BlockWriterTheorem == Spec => []OneBlockWriter
<1>1. Spec => []WriterInv
  BY InitWriter, NextWriter, PTL DEF Spec
<1> QED BY <1>1, WriterImplies, PTL

----------------------------------------------------------------------------
(* A block held under a key is asked for under that key.                   *)

SettlingAt == {"reserve", "begin", "recheck", "write", "end", "settle"}
Settles(r, b) == r.blk = b /\ r.at \in SettlingAt

Wants(c, b) == Open(c) /\ b \in outstanding[c]
Asks(c, b) == Open(c) /\ (b \in outstanding[c] \/ Settles(pc[c], b))

Tables ==
    /\ owner = [b \in Blocks |-> owner[b]] /\ second = [b \in Blocks |-> second[b]]
    /\ phase = [c \in Conns |-> phase[c]] /\ outstanding = [c \in Conns |-> outstanding[c]]
    /\ pc = [a \in Actors |-> pc[a]]

\* The owner of a block asks for it or is settling it; who holds a second copy asks
\* for it; a handler at work belongs to a running connection.
AskInv ==
    /\ Tables
    /\ \A c \in Conns : pc[c].at # "idle" => Open(c)
    /\ \A b \in Blocks, a \in Addrs : owner[b] = a => \E c \in Conns : Addr[c] = a /\ Asks(c, b)
    /\ \A b \in Blocks, a \in Addrs : second[b] = a => \E c \in Conns : Addr[c] = a /\ Wants(c, b)

\* Nothing is newly held, and who is still a holder still asks.
Keeps ==
    \A b \in Blocks, c \in Conns :
      /\ owner'[b] = Addr[c] => owner[b] = Addr[c] /\ (Asks(c, b) => Asks(c, b)')
      /\ second'[b] = Addr[c] => second[b] = Addr[c] /\ (Wants(c, b) => Wants(c, b)')

LEMMA KeepAsking ==
    ASSUME AskInv, Tables', Keeps, \A c \in Conns : pc'[c].at # "idle" => phase'[c] = "open"
    PROVE  AskInv'
<1>1. ASSUME NEW b \in Blocks, NEW a \in Addrs, owner'[b] = a
      PROVE  \E c \in Conns : Addr[c] = a /\ Asks(c, b)'
  BY <1>1 DEF AskInv, Keeps, Addrs
<1>2. ASSUME NEW b \in Blocks, NEW a \in Addrs, second'[b] = a
      PROVE  \E c \in Conns : Addr[c] = a /\ Wants(c, b)'
  BY <1>2 DEF AskInv, Keeps, Addrs
<1> QED
  BY <1>1, <1>2 DEF AskInv, Open

\* Who holds what after a change that only takes away.
Less ==
    /\ owner' = [b \in Blocks |-> owner'[b]] /\ second' = [b \in Blocks |-> second'[b]]
    /\ \A b \in Blocks, a \in Addrs : (owner'[b] = a => owner[b] = a) /\ (second'[b] = a => second[b] = a)

\* The blocks in S are no longer held by a, as owner and as second.
NotOwned(S, a) == \A b \in Blocks : b \in S => owner'[b] # a
NotSecond(S, a) == \A b \in Blocks : b \in S => second'[b] # a

LEMMA NoneIsNoAddress == \A c \in Conns : Addr[c] \in Addrs /\ None # Addr[c]
  BY RequestsAssumption DEF Addrs

LEMMA GiveUpOwner ==
    ASSUME Tables, NEW S, NEW c \in Conns, NEW restarted,
           TableStep(Without(owner, S, Addr[c]), second, restarted)
    PROVE  Less /\ NotOwned(S, Addr[c])
  BY RequestsAssumption, NoneIsNoAddress DEF Tables, TableStep, Without, Less, NotOwned

LEMMA GiveUpBoth ==
    ASSUME Tables, NEW S, NEW c \in Conns, GiveUp(S, Addr[c])
    PROVE  Less /\ NotOwned(S, Addr[c]) /\ NotSecond(S, Addr[c])
  BY RequestsAssumption, NoneIsNoAddress DEF Tables, GiveUp, TableStep, Without, Less, NotOwned, NotSecond

LEMMA TableStays ==
    ASSUME Tables, UNCHANGED <<owner, second>>
    PROVE  Less
  BY DEF Tables, Less

\* One connection moves: what it no longer asks for it no longer holds.
LEMMA OneMoves ==
    ASSUME AskInv, NEW c \in Conns, NEW r, NEW O, phase' = phase, Less,
           pc' = [pc EXCEPT ![c] = r], r.at # "idle" => Open(c),
           outstanding' = [outstanding EXCEPT ![c] = O],
           \A b \in Blocks : owner'[b] = Addr[c] /\ Asks(c, b) => b \in O \/ Settles(r, b),
           \A b \in Blocks : second'[b] = Addr[c] /\ Wants(c, b) => b \in O
    PROVE  AskInv'
<1>1. c \in Actors /\ Conns \subseteq Actors
  BY DEF Actors
<1>2. Tables'
  BY DEF AskInv, Tables, Less
<1>3. pc'[c] = r /\ outstanding'[c] = O
  BY <1>1 DEF AskInv, Tables
<1>4. \A d \in Conns : d # c => pc'[d] = pc[d] /\ outstanding'[d] = outstanding[d]
  BY <1>1 DEF AskInv, Tables
<1>5. Keeps
  <2> SUFFICES ASSUME NEW b \in Blocks, NEW d \in Conns
               PROVE  /\ owner'[b] = Addr[d] => owner[b] = Addr[d] /\ (Asks(d, b) => Asks(d, b)')
                      /\ second'[b] = Addr[d] => second[b] = Addr[d] /\ (Wants(d, b) => Wants(d, b)')
    BY DEF Keeps
  <2>1. Addr[d] \in Addrs
    BY NoneIsNoAddress
  <2>2. CASE d = c
    BY <1>3, <2>1, <2>2 DEF Less, Asks, Wants, Open
  <2>3. CASE d # c
    BY <1>4, <2>1, <2>3 DEF Less, Asks, Wants, Open
  <2> QED
    BY <2>2, <2>3
<1>6. \A d \in Conns : pc'[d].at # "idle" => phase'[d] = "open"
  BY <1>3, <1>4 DEF AskInv, Open
<1> QED
  BY <1>2, <1>5, <1>6, KeepAsking

\* Where a handler may be when it does not settle a block.
Elsewheres == {"idle", "refill", "pick", "claim", "take", "queue", "forget"}
Moves(a) == \E r : pc' = [pc EXCEPT ![a] = r] /\ r.at \in Elsewheres

LEMMA Moving ==
    ASSUME NEW a, NEW b, NEW todo, NEW needs, NEW where \in Elsewheres,
           \/ Goto(a, where, b, todo) \/ Rest(a) \/ ClaimAll(a, todo) \/ AfterMessage(a, needs)
           \/ Finished(a) \/ HashIfAllDirty(a)
    PROVE  Moves(a)
<1>1. ASSUME NEW w \in Elsewheres, NEW d, NEW t, Goto(a, w, d, t) PROVE Moves(a)
  <2> DEFINE r == [at |-> w, blk |-> d, todo |-> t]
  <2>1. pc' = [pc EXCEPT ![a] = r] /\ r.at \in Elsewheres
    BY <1>1 DEF Goto
  <2> HIDE DEF r
  <2> QED
    BY <2>1 DEF Moves
<1> "refill" \in Elsewheres /\ "claim" \in Elsewheres /\ "queue" \in Elsewheres
  BY DEF Elsewheres
<1>2. CASE Rest(a)
  <2>1. pc' = [pc EXCEPT ![a] = Idle] /\ Idle.at \in Elsewheres
    BY <1>2 DEF Rest, Idle, Elsewheres
  <2> QED
    BY <2>1 DEF Moves
<1>3. CASE ClaimAll(a, todo)
  BY <1>1, <1>2, <1>3 DEF ClaimAll
<1>4. ASSUME NEW n, AfterMessage(a, n) PROVE Moves(a)
  BY <1>1, <1>2, <1>4 DEF AfterMessage
<1>5. CASE Finished(a)
  BY <1>2, <1>4, <1>5 DEF Finished
<1>6. CASE HashIfAllDirty(a)
  BY <1>1, <1>5, <1>6 DEF HashIfAllDirty
<1> QED
  BY <1>1, <1>2, <1>3, <1>4, <1>5, <1>6

\* A handler goes on with the same requests: the block it was settling is given up.
LEMMA Turns ==
    ASSUME AskInv, NEW c \in Conns, Open(c), phase' = phase, outstanding' = outstanding, Less,
           Moves(c), pc[c].at \in SettlingAt => NotOwned({pc[c].blk}, Addr[c])
    PROVE  AskInv'
<1>1. PICK r : pc' = [pc EXCEPT ![c] = r] /\ r.at \in Elsewheres
  BY DEF Moves
<1>2. outstanding' = [outstanding EXCEPT ![c] = outstanding[c]]
  BY DEF AskInv, Tables
<1>3. \A b \in Blocks : owner'[b] = Addr[c] /\ Asks(c, b) => b \in outstanding[c]
  BY DEF Asks, Settles, NotOwned
<1>4. \A b \in Blocks : second'[b] = Addr[c] /\ Wants(c, b) => b \in outstanding[c]
  BY DEF Wants
<1> QED
  BY <1>1, <1>2, <1>3, <1>4, OneMoves

\* A handler goes on with the block it is settling.
LEMMA Settlement ==
    ASSUME AskInv, NEW c \in Conns, Open(c), phase' = phase, outstanding' = outstanding, Less,
           NEW where \in SettlingAt, Goto(c, where, pc[c].blk, {})
    PROVE  AskInv'
<1> DEFINE r == [at |-> where, blk |-> pc[c].blk, todo |-> {}]
<1>1. pc' = [pc EXCEPT ![c] = r]
  BY DEF Goto
<1>2. outstanding' = [outstanding EXCEPT ![c] = outstanding[c]]
  BY DEF AskInv, Tables
<1>3. \A b \in Blocks : owner'[b] = Addr[c] /\ Asks(c, b) => b \in outstanding[c] \/ Settles(r, b)
  BY DEF Asks, Settles
<1>4. \A b \in Blocks : second'[b] = Addr[c] /\ Wants(c, b) => b \in outstanding[c]
  BY DEF Wants
<1> HIDE DEF r
<1> QED
  BY <1>1, <1>2, <1>3, <1>4, OneMoves

\* A handler cancels some of its requests.
LEMMA Cancels ==
    ASSUME AskInv, NEW c \in Conns, Open(c), phase' = phase, NEW S,
           CancelOutstanding(c, S), Moves(c) \/ pc' = pc, pc[c].at \notin SettlingAt
    PROVE  AskInv'
<1>1. PICK r : pc' = [pc EXCEPT ![c] = r] /\ r.at \notin SettlingAt
  <2>1. CASE Moves(c)
    BY <2>1 DEF Moves, Elsewheres, SettlingAt
  <2>2. CASE pc' = pc
    <3>1. pc' = [pc EXCEPT ![c] = pc[c]]
      BY <2>2 DEF AskInv, Tables, Actors
    <3> QED
      BY <3>1
  <2> QED
    BY <2>1, <2>2
<1>2. outstanding' = [outstanding EXCEPT ![c] = outstanding[c] \ S]
  BY DEF CancelOutstanding
<1>3. Less /\ NotOwned(S, Addr[c]) /\ NotSecond(S, Addr[c])
  BY GiveUpBoth DEF CancelOutstanding, AskInv
<1>4. \A b \in Blocks : owner'[b] = Addr[c] /\ Asks(c, b) => b \in outstanding[c] \ S
  BY <1>3 DEF Asks, Settles, NotOwned
<1>5. \A b \in Blocks : second'[b] = Addr[c] /\ Wants(c, b) => b \in outstanding[c] \ S
  BY <1>3 DEF Wants, NotSecond
<1> QED
  BY <1>1, <1>2, <1>3, <1>4, <1>5, OneMoves

\* No handler of a connection moves, and nothing is asked or held that was not.
LEMMA Nobody ==
    ASSUME AskInv, outstanding' = outstanding, Less, pc' = [a \in Actors |-> pc'[a]],
           \A c \in Conns : pc'[c] = pc[c],
           phase' = [c \in Conns |-> phase'[c]], \A c \in Conns : Open(c) => phase'[c] = "open"
    PROVE  AskInv'
<1>1. Tables'
  BY DEF AskInv, Tables, Less
<1>2. Keeps
  BY NoneIsNoAddress DEF Keeps, Less, Asks, Wants, Open
<1>3. \A c \in Conns : pc'[c].at # "idle" => phase'[c] = "open"
  BY DEF AskInv, Open
<1> QED
  BY <1>1, <1>2, <1>3, KeepAsking

LEMMA InitAsk == Init => AskInv
<1> SUFFICES ASSUME Init PROVE AskInv
  OBVIOUS
<1>1. Tables
  BY DEF Init, Tables
<1>2. \A b \in Blocks, a \in Addrs : owner[b] # a /\ second[b] # a
  BY RequestsAssumption DEF Init
<1>3. \A c \in Conns : pc[c].at = "idle"
  BY DEF Init, Idle, Actors
<1> QED
  BY <1>1, <1>2, <1>3 DEF AskInv

\* The second half of a claim is the one step that makes a holder, and it asks.
LEMMA TakeAsks ==
    ASSUME AskInv, NEW c \in Conns, Take(c)
    PROVE  AskInv'
<1>0. PICK b : b = Head(c).req
  OBVIOUS
<1>1. Open(c) /\ pc[c].at \notin SettlingAt /\ phase' = phase /\ Tables
  BY DEF Take, At, AskInv, SettlingAt, netVars
<1>2. Moves(c)
  BY Moving DEF Take, Elsewheres
<1>3. CASE outstanding' = outstanding /\ Less
  BY <1>1, <1>2, <1>3, Turns
<1>4. CASE UNCHANGED <<askVars, tableVars>>
  BY <1>3, <1>4, <1>1, TableStays DEF askVars, tableVars
<1>5. CASE UNCHANGED askVars /\ TableStep([owner EXCEPT ![b] = None], second, {})
  <2>1. Less
    BY <1>1, <1>5, NoneIsNoAddress, RequestsAssumption DEF Less, Tables, TableStep
  <2> QED
    BY <1>3, <1>5, <2>1 DEF askVars
<1>6. CASE SendRequest(c, b) /\ \/ TableStep(owner, [second EXCEPT ![b] = Addr[c]], {})
                                \/ TableStep([owner EXCEPT ![b] = Addr[c]], second, {b})
  <2>1. PICK r : pc' = [pc EXCEPT ![c] = r] /\ r.at \in Elsewheres
    BY <1>2 DEF Moves
  <2>2. Tables'
    BY <1>1, <1>6, <2>1 DEF Tables, TableStep, SendRequest
  <2>3. c \in Actors /\ Conns \subseteq Actors
    BY DEF Actors
  <2>4. outstanding'[c] = outstanding[c] \cup {b}
        /\ \A d \in Conns : d # c => outstanding'[d] = outstanding[d] /\ pc'[d] = pc[d]
    BY <1>1, <1>6, <2>1, <2>3 DEF Tables, SendRequest
  <2>5. \A d \in Conns, e \in Blocks : (Asks(d, e) => Asks(d, e)') /\ (Wants(d, e) => Wants(d, e)')
    BY <1>1, <2>4 DEF Asks, Wants, Settles, Open
  <2>6. Wants(c, b)' /\ Asks(c, b)'
    BY <1>1, <2>4 DEF Asks, Wants, Open
  <2>7. \A e \in Blocks : /\ owner'[e] = owner[e] \/ (e = b /\ owner'[e] = Addr[c])
                          /\ second'[e] = second[e] \/ (e = b /\ second'[e] = Addr[c])
    BY <1>1, <1>6 DEF Tables, TableStep
  <2>8. ASSUME NEW e \in Blocks, NEW a \in Addrs, owner'[e] = a
        PROVE  \E d \in Conns : Addr[d] = a /\ Asks(d, e)'
    <3>1. CASE owner[e] = a
      <4>1. PICK d \in Conns : Addr[d] = a /\ Asks(d, e)
        BY <3>1 DEF AskInv
      <4> QED
        BY <4>1, <2>5
    <3>2. CASE e = b /\ Addr[c] = a
      BY <3>2, <2>6
    <3> QED
      BY <2>7, <2>8, <3>1, <3>2
  <2>9. ASSUME NEW e \in Blocks, NEW a \in Addrs, second'[e] = a
        PROVE  \E d \in Conns : Addr[d] = a /\ Wants(d, e)'
    <3>1. CASE second[e] = a
      <4>1. PICK d \in Conns : Addr[d] = a /\ Wants(d, e)
        BY <3>1 DEF AskInv
      <4> QED
        BY <4>1, <2>5
    <3>2. CASE e = b /\ Addr[c] = a
      BY <3>2, <2>6
    <3> QED
      BY <2>7, <2>9, <3>1, <3>2
  <2>10. \A d \in Conns : pc'[d].at # "idle" => phase'[d] = "open"
    <3> SUFFICES ASSUME NEW d \in Conns, pc'[d].at # "idle" PROVE phase'[d] = "open"
      OBVIOUS
    <3> QED
      BY <1>1, <2>4 DEF AskInv, Open
  <2> QED
    BY <2>2, <2>8, <2>9, <2>10 DEF AskInv, Open
<1> QED
  BY <1>0, <1>4, <1>5, <1>6 DEF Take

\* peer_closed hands back what is held under the key of the connection that ends.
LEMMA PeerClosedAsks ==
    ASSUME AskInv, NEW c \in Conns, PeerClosed(c)
    PROVE  AskInv'
<1>1. Less /\ NotOwned(Blocks, Addr[c]) /\ NotSecond(Blocks, Addr[c])
  BY GiveUpBoth DEF PeerClosed, ForgetPeer, AskInv
<1>2. /\ outstanding' = [outstanding EXCEPT ![c] = {}] /\ phase' = [phase EXCEPT ![c] = "gone"]
      /\ pc' = [pc EXCEPT ![c] = Idle]
  BY DEF PeerClosed, Rest
<1>3. Tables'
  BY <1>1, <1>2 DEF Less, AskInv, Tables
<1>4. \A d \in Conns : d # c => outstanding'[d] = outstanding[d] /\ phase'[d] = phase[d] /\ pc'[d] = pc[d]
  BY <1>2 DEF AskInv, Tables, Actors
<1>5. pc'[c].at = "idle"
  BY <1>2 DEF AskInv, Tables, Actors, Idle
<1>6. Keeps
  <2> SUFFICES ASSUME NEW b \in Blocks, NEW d \in Conns
               PROVE  /\ owner'[b] = Addr[d] => owner[b] = Addr[d] /\ (Asks(d, b) => Asks(d, b)')
                      /\ second'[b] = Addr[d] => second[b] = Addr[d] /\ (Wants(d, b) => Wants(d, b)')
    BY DEF Keeps
  <2>1. CASE d = c
    BY <1>1, <2>1 DEF NotOwned, NotSecond
  <2>2. CASE d # c
    BY <1>1, <1>4, <2>2, NoneIsNoAddress DEF Less, Asks, Wants, Open
  <2> QED
    BY <2>1, <2>2
<1>7. \A d \in Conns : pc'[d].at # "idle" => phase'[d] = "open"
  BY <1>4, <1>5 DEF AskInv, Open
<1> QED
  BY <1>3, <1>6, <1>7, KeepAsking

\* handle_piece: the request becomes a settlement, a second copy is given up at once.
LEMMA HandlePieceAsks ==
    ASSUME AskInv, NEW c \in Conns, NEW b \in Blocks, HandlePiece(c, b)
    PROVE  AskInv'
<1> DEFINE r == [at |-> "reserve", blk |-> b, todo |-> {}]
<1>1. /\ Open(c) /\ phase' = phase /\ pc[c].at = "idle"
      /\ pc' = [pc EXCEPT ![c] = r] /\ outstanding' = [outstanding EXCEPT ![c] = outstanding[c] \ {b}]
  BY DEF HandlePiece, Expected, At, Goto, netVars
<1>2. Less /\ \A e \in Blocks : e = b => second'[e] # Addr[c]
  BY NoneIsNoAddress, RequestsAssumption DEF HandlePiece, TableStep, Without, Less, AskInv, Tables
<1>3. r.blk = b /\ r.at \in SettlingAt
  BY DEF SettlingAt
<1> HIDE DEF r
<1>4. \A e \in Blocks : owner'[e] = Addr[c] /\ Asks(c, e) => e \in outstanding[c] \ {b} \/ Settles(r, e)
  BY <1>1, <1>3 DEF Asks, Settles, SettlingAt
<1>5. \A e \in Blocks : second'[e] = Addr[c] /\ Wants(c, e) => e \in outstanding[c] \ {b}
  BY <1>2 DEF Wants
<1> QED
  BY <1>1, <1>2, <1>4, <1>5, OneMoves

\* The steps of a handler that delivers a block.
LEMMA WriteStepsAsk ==
    ASSUME AskInv, NEW c \in Conns, WriteStep(c) \/ Received(c)
    PROVE  AskInv'
<1> c \notin Web
  BY RequestsAssumption
<1>1. Open(c) /\ phase' = phase /\ outstanding' = outstanding /\ Tables
  BY DEF WriteStep, Reserve, BeginWrite, Recheck, WriteChunk, WriteError, EndWrite, QueuePieceHash,
     Received, At, AskInv, netVars, askVars
<1>2. CASE Wasted(c)
  <2>1. GiveUp({pc[c].blk}, Addr[c]) /\ Moves(c)
    BY <1>2, Moving DEF Wasted, Elsewheres
  <2>2. Less /\ NotOwned({pc[c].blk}, Addr[c])
    BY <1>1, <2>1, GiveUpBoth
  <2> QED
    BY <1>1, <2>1, <2>2, Turns
<1>3. ASSUME UNCHANGED tableVars, NEW where \in SettlingAt, Goto(c, where, pc[c].blk, {})
      PROVE  AskInv'
  BY <1>1, <1>3, TableStays, Settlement DEF tableVars
<1> "begin" \in SettlingAt /\ "recheck" \in SettlingAt /\ "write" \in SettlingAt
    /\ "end" \in SettlingAt /\ "settle" \in SettlingAt
  BY DEF SettlingAt
<1>4. CASE Reserve(c)
  BY <1>2, <1>3, <1>4 DEF Reserve
<1>5. CASE BeginWrite(c)
  BY <1>2, <1>3, <1>5 DEF BeginWrite
<1>6. CASE Recheck(c)
  BY <1>2, <1>3, <1>6 DEF Recheck
<1>7. CASE WriteChunk(c)
  BY <1>3, <1>7 DEF WriteChunk
<1>8. CASE WriteError(c)
  <2>1. TableStep(Without(owner, {pc[c].blk}, Addr[c]), second, {}) /\ Moves(c)
    BY <1>8, Moving DEF WriteError, Elsewheres
  <2>2. Less /\ NotOwned({pc[c].blk}, Addr[c])
    BY <1>1, <2>1, GiveUpOwner
  <2> QED
    BY <1>1, <2>1, <2>2, Turns
<1>9. CASE EndWrite(c)
  BY <1>3, <1>9 DEF EndWrite
<1>10. CASE QueuePieceHash(c)
  <2>1. Moves(c) /\ pc[c].at \notin SettlingAt /\ Less
    BY <1>1, <1>10, Moving, TableStays DEF QueuePieceHash, Elsewheres, At, SettlingAt, tableVars
  <2> QED
    BY <1>1, <2>1, Turns
<1>11. CASE Received(c)
  <2>1. Moves(c)
    BY <1>11, Moving DEF Received, Elsewheres
  <2>2. Less /\ NotOwned({pc[c].blk}, Addr[c])
    BY <1>1, <1>11, NoneIsNoAddress, RequestsAssumption
       DEF Received, Clear, TableStep, Less, Tables, NotOwned
  <2> QED
    BY <1>1, <2>1, <2>2, Turns
<1> QED
  BY <1>4, <1>5, <1>6, <1>7, <1>8, <1>9, <1>10, <1>11 DEF WriteStep

\* Messages and timers: what is taken from the requests is given up in the table.
LEMMA MessagesAsk ==
    ASSUME AskInv, NEW c \in Conns, Message(c) \/ Timer(c)
    PROVE  AskInv'
<1>1. Tables
  BY DEF AskInv
<1>2. ASSUME Receives(c), phase' = phase, NEW S, CancelOutstanding(c, S), Moves(c) \/ pc' = pc
      PROVE  AskInv'
  <2>1. Open(c) /\ pc[c].at \notin SettlingAt
    BY <1>2 DEF Receives, At, SettlingAt
  <2> QED
    BY <1>2, <2>1, Cancels
<1>3. ASSUME Receives(c), phase' = phase, outstanding' = outstanding, UNCHANGED tableVars, Moves(c)
      PROVE  AskInv'
  <2>1. Open(c) /\ pc[c].at \notin SettlingAt /\ Less
    BY <1>1, <1>3, TableStays DEF Receives, At, SettlingAt, tableVars
  <2> QED
    BY <1>3, <2>1, Turns
<1>4. ASSUME UNCHANGED <<phase, outstanding, tableVars, pc>> PROVE AskInv'
  <2>1. Less
    BY <1>1, <1>4, TableStays DEF tableVars
  <2> QED
    BY <1>1, <1>4, <2>1, Nobody DEF Tables, Open
<1>5. CASE Choke(c)
  BY <1>2, <1>5, Moving DEF Choke, netVars, Elsewheres
<1>6. CASE Unchoke(c)
  BY <1>3, <1>6, Moving DEF Unchoke, netVars, askVars, Elsewheres
<1>7. CASE Probe(c)
  BY <1>4, <1>7 DEF Probe, netVars, askVars
<1>8. ASSUME NEW b \in Blocks, HandlePiece(c, b) PROVE AskInv'
  BY <1>8, HandlePieceAsks
<1>9. ASSUME NEW b \in Blocks, Reject(c, b) PROVE AskInv'
  <2>1. Receives(c) /\ phase' = phase /\ Moves(c) /\ GiveUp({b}, Addr[c])
        /\ outstanding' = [outstanding EXCEPT ![c] = outstanding[c] \ {b}]
    BY <1>9, Moving DEF Reject, netVars, Elsewheres
  <2>2. Open(c) /\ pc[c].at \notin SettlingAt
    BY <2>1 DEF Receives, At, SettlingAt
  <2>3. Less /\ NotOwned({b}, Addr[c]) /\ NotSecond({b}, Addr[c])
    BY <1>1, <2>1, GiveUpBoth
  <2>4. PICK r : pc' = [pc EXCEPT ![c] = r]
    BY <2>1 DEF Moves
  <2>5. \A e \in Blocks : owner'[e] = Addr[c] /\ Asks(c, e) => e \in outstanding[c] \ {b}
    BY <2>2, <2>3 DEF Asks, Settles, NotOwned
  <2>6. \A e \in Blocks : second'[e] = Addr[c] /\ Wants(c, e) => e \in outstanding[c] \ {b}
    BY <2>3 DEF Wants, NotSecond
  <2> QED
    BY <2>1, <2>2, <2>3, <2>4, <2>5, <2>6, OneMoves
<1>10. ASSUME NEW S, Bitfield(c, S) PROVE AskInv'
  BY <1>2, <1>10, Moving DEF Bitfield, netVars, Elsewheres
<1>11. ASSUME NEW p, AllowedFast(c, p) PROVE AskInv'
  BY <1>3, <1>11, Moving DEF AllowedFast, netVars, askVars, Elsewheres
<1>12. CASE Wake(c) \/ WakeExpire(c)
  BY <1>3, <1>12, Moving DEF Wake, WakeExpire, netVars, askVars, Elsewheres
<1>13. CASE WakeStale(c)
  BY <1>2, <1>13, Moving DEF WakeStale, netVars, Elsewheres
<1>14. CASE WakePaused(c)
  BY <1>2, <1>14 DEF WakePaused, netVars
<1>15. CASE Quieter(c)
  BY <1>4, <1>15 DEF Quieter, netVars, askVars
<1> QED
  BY <1>5, <1>6, <1>7, <1>8, <1>9, <1>10, <1>11, <1>12, <1>13, <1>14, <1>15 DEF Message, Timer

\* The handler's own steps and the life of a connection.
LEMMA HandlersAsk ==
    ASSUME AskInv, NEW c \in Conns, HandlerStep(c) \/ Life(c)
    PROVE  AskInv'
<1>1. Tables
  BY DEF AskInv
<1>2. ASSUME pc[c].at # "idle" \/ Open(c), pc[c].at \notin SettlingAt, phase' = phase,
             outstanding' = outstanding, Less, Moves(c)
      PROVE  AskInv'
  <2>1. Open(c)
    BY <1>2 DEF AskInv
  <2> QED
    BY <1>2, <2>1, Turns
<1>3. CASE Refill(c)
  <2>1. pc[c].at = "refill" /\ pc[c].at \notin SettlingAt /\ phase' = phase /\ Open(c) /\ Moves(c)
    BY <1>3, Moving DEF Refill, At, SettlingAt, netVars, AskInv, Elsewheres
  <2>2. CASE UNCHANGED <<tableVars, askVars>>
    <3>1. Less
      BY <1>1, <2>2, TableStays DEF tableVars
    <3> QED
      BY <1>2, <2>1, <2>2, <3>1 DEF askVars
  <2>3. ASSUME NEW S, CancelOutstanding(c, S) PROVE AskInv'
    BY <2>1, <2>3, Cancels
  <2> QED
    BY <1>3, <2>2, <2>3 DEF Refill
<1>4. CASE Pick(c)
  <2>1. Less
    BY <1>1, <1>4, TableStays DEF Pick
  <2>2. Moves(c)
    BY <1>4, Moving DEF Pick, Elsewheres
  <2> QED
    BY <1>2, <1>4, <2>1, <2>2 DEF Pick, At, SettlingAt, netVars, askVars
<1>5. CASE Claim(c)
  <2>1. Less
    BY <1>1, <1>5, NoneIsNoAddress, RequestsAssumption DEF Claim, TableStep, Without, Less, Tables
  <2>2. Moves(c)
    BY <1>5, Moving DEF Claim, Elsewheres
  <2> QED
    BY <1>2, <1>5, <2>1, <2>2 DEF Claim, At, SettlingAt, netVars, askVars
<1>6. CASE Take(c)
  BY <1>6, TakeAsks
<1>7. CASE Received(c)
  BY <1>7, WriteStepsAsk
<1>8. CASE PeerClosed(c)
  BY <1>8, PeerClosedAsks
<1>9. CASE Attach(c) \/ Close(c) \/ DropConn(c)
  <2>1. UNCHANGED <<outstanding, tableVars, pc>>
    BY <1>9 DEF Attach, Close, DropConn, askVars
  <2>2. phase' = [d \in Conns |-> phase'[d]] /\ \A d \in Conns : Open(d) => phase'[d] = "open"
    BY <1>1, <1>9 DEF Attach, Close, DropConn, Tables, Open
  <2>3. Less
    BY <1>1, <2>1, TableStays DEF tableVars
  <2> QED
    BY <1>1, <2>1, <2>2, <2>3, Nobody DEF Tables
<1>10. CASE OnClosed(c)
  <2>1. Less
    BY <1>1, <1>10, GiveUpOwner DEF OnClosed
  <2>2. Moves(c)
    BY <1>10, Moving DEF OnClosed, Elsewheres
  <2> QED
    BY <1>2, <1>10, <2>1, <2>2 DEF OnClosed, At, SettlingAt, askVars
<1> QED
  BY <1>3, <1>4, <1>5, <1>6, <1>7, <1>8, <1>9, <1>10 DEF HandlerStep, Life

\* The torrent and its web seeds hold nothing.
LEMMA TorrentAsks ==
    ASSUME AskInv, Torrent \/ \E w \in Web : WriteStep(w)
    PROVE  AskInv'
<1>1. Tables
  BY DEF AskInv
<1>2. ASSUME UNCHANGED <<phase, outstanding>>, Less, NEW w \in Web, NEW r, pc' = [pc EXCEPT ![w] = r]
      PROVE  AskInv'
  <2>1. \A c \in Conns : c # w
    BY RequestsAssumption
  <2>2. pc' = [a \in Actors |-> pc'[a]] /\ \A c \in Conns : pc'[c] = pc[c]
    BY <1>1, <1>2, <2>1 DEF Tables, Actors
  <2> QED
    BY <1>1, <1>2, <2>2, Nobody DEF Tables, Open
<1>3. ASSUME UNCHANGED <<phase, outstanding, pc>>, Less PROVE AskInv'
  BY <1>1, <1>3, Nobody DEF Tables, Open
<1>4. CASE DropForget
  <2>1. Less
    BY <1>1, <1>4, RequestsAssumption DEF DropForget, ForgetPeer, GiveUp, TableStep, Without, Less, Tables
  <2> QED
    BY <1>3, <1>4, <2>1 DEF DropForget, askVars
<1>5. ASSUME UNCHANGED <<phase, outstanding, pc, owner, second>> PROVE AskInv'
  BY <1>1, <1>3, <1>5, TableStays
<1>6. ASSUME NEW p, ClearDirty(p) PROVE AskInv'
  BY <1>5, <1>6 DEF ClearDirty, netVars, askVars, tableVars
<1>7. ASSUME NEW p, NEW valid, HashResult(p, valid) PROVE AskInv'
  BY <1>5, <1>7 DEF HashResult, netVars, askVars, tableVars
<1>8. ASSUME NEW p, Seek(p) PROVE AskInv'
  BY <1>5, <1>8 DEF Seek, netVars, askVars, tableVars
<1>9. ASSUME NEW b, Older(b) PROVE AskInv'
  BY <1>5, <1>9 DEF Older, netVars, askVars
<1>10. CASE RewindDue \/ Pause \/ Resume \/ DropClose
  BY <1>5, <1>10 DEF RewindDue, Pause, Resume, DropClose, netVars, askVars, tableVars
<1>11. ASSUME NEW w \in Web, NEW b, WebFetch(w, b) PROVE AskInv'
  <2>1. PICK r : pc' = [pc EXCEPT ![w] = r]
    BY <1>11 DEF WebFetch, Goto
  <2>2. Less
    BY <1>1, <1>11, TableStays DEF WebFetch, tableVars
  <2> QED
    BY <1>2, <1>11, <2>1, <2>2 DEF WebFetch, netVars, askVars
<1>12. ASSUME NEW w \in Web, WriteStep(w) PROVE AskInv'
  <2>1. UNCHANGED <<phase, outstanding, tableVars>>
    BY <1>12 DEF WriteStep, Reserve, BeginWrite, Recheck, WriteChunk, WriteError, EndWrite,
       QueuePieceHash, Wasted, netVars, askVars
  <2>2. \E r : pc' = [pc EXCEPT ![w] = r]
    <3>1. ASSUME Moves(w) PROVE \E r : pc' = [pc EXCEPT ![w] = r]
      BY <3>1 DEF Moves
    <3>2. ASSUME NEW where, NEW b, NEW todo, Goto(w, where, b, todo) PROVE \E r : pc' = [pc EXCEPT ![w] = r]
      BY <3>2 DEF Goto
    <3>3. ASSUME HashIfAllDirty(w) \/ Finished(w) \/ Rest(w) PROVE \E r : pc' = [pc EXCEPT ![w] = r]
      BY <3>1, <3>3, Moving DEF Elsewheres
    <3> QED
      BY <1>12, <3>2, <3>3 DEF WriteStep, Reserve, BeginWrite, Recheck, WriteChunk, WriteError, EndWrite,
         QueuePieceHash, Wasted
  <2>3. Less
    BY <1>1, <2>1, TableStays DEF tableVars
  <2> QED
    BY <1>2, <2>1, <2>2, <2>3
<1> QED
  BY <1>4, <1>6, <1>7, <1>8, <1>9, <1>10, <1>11, <1>12 DEF Torrent

LEMMA NextAsk == AskInv /\ [Next]_vars => AskInv'
<1> SUFFICES ASSUME AskInv, [Next]_vars PROVE AskInv'
  OBVIOUS
<1>1. CASE UNCHANGED vars
  <2>1. UNCHANGED <<phase, outstanding, pc, owner, second>>
    BY <1>1 DEF vars, netVars, askVars, tableVars
  <2>2. Less
    BY <2>1, TableStays DEF AskInv
  <2> QED
    BY <2>1, <2>2, Nobody DEF AskInv, Tables, Open
<1>2. CASE Next
  BY <1>2, MessagesAsk, HandlersAsk, WriteStepsAsk, TorrentAsks DEF Next, Actors
<1> QED BY <1>1, <1>2

LEMMA AskImplies == AskInv => HoldersAsk
  BY DEF AskInv, HoldersAsk, Holds, Asks, Wants, Settles, Settling, SettlingAt

\* Every path out of a request gives the claim back (peer_conn.rs, sched.rs): for any
\* number of blocks, connections and addresses, shared ones too, and any order of
\* answers, errors, chokes, steals, timeouts, closes and drops, a block is held only
\* under a key one of whose running connections asks for it or is settling it.
THEOREM HoldersAskTheorem == Spec => []HoldersAsk
<1>1. Spec => []AskInv
  BY InitAsk, NextAsk, PTL DEF Spec
<1> QED BY <1>1, AskImplies, PTL
=============================================================================
