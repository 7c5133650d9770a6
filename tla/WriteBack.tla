----------------------------- MODULE WriteBack -----------------------------
(***************************************************************************)
(* The saved-download write-back cache of wt-storage: RAM slots for pieces *)
(* being received, the unlocked flush of a slot to its file, eviction,     *)
(* write-through when nothing can be evicted, the unlocked fill of a       *)
(* partial slot, hashing, completion, reselection of destination files and *)
(* close.  Peer threads (Writers), hash workers (Hashers) and threads that *)
(* refresh a piece's completion (Refreshers) share one mutex; every disk   *)
(* access marked "io" below runs with the mutex released.                  *)
(*                                                                         *)
(* Data: a block of a piece holds "zero" (never written), "bad" or "good"; *)
(* a piece hashes correctly when every block is "good".  Byte ranges are   *)
(* sets of blocks.  All pieces have the same length, so the cache limit is *)
(* a number of slots.  The LRU order is abstracted: any piece a victim     *)
(* pass accepts may be the one it takes.                                   *)
(***************************************************************************)
EXTENDS Naturals, FiniteSets

CONSTANTS
    Pieces, Blocks,
    First,           \* the block holding byte 0 of a piece
    Writers, Hashers, Refreshers,
    Cap,             \* max_cache_bytes, in slots
    MaxTries,        \* flush attempts before a write goes through (8 in the code)
    MaxBad,          \* bound: corrupt blocks peers deliver
    MaxIoErrors,     \* bound: disk writes and reads that fail
    MaxSelections,   \* bound: reselections that replace destination files
    MaxRefreshes,    \* bound: spontaneous completion refreshes
    Careful,         \* TRUE: hashing, refreshing and reselecting are kept apart (see README)
    Free, None

ASSUME WriteBackAssumption ==
    /\ First \in Blocks
    /\ Cap \in Nat /\ Cap >= 1
    /\ MaxTries \in Nat /\ MaxBad \in Nat /\ MaxIoErrors \in Nat
    /\ MaxSelections \in Nat /\ MaxRefreshes \in Nat
    /\ Careful \in BOOLEAN
    /\ Free \notin Writers \cup Hashers \cup Refreshers
    /\ None \notin Pieces \cup Blocks
    /\ Writers \cap Hashers = {} /\ Writers \cap Refreshers = {}
    /\ Hashers \cap Refreshers = {}

VARIABLES
    slot,       \* cache, cache_dirty, dirty_spans, partial_slots, flush_raced, flush_new
    flushing,   \* pieces an unlocked writer owns
    evicting,   \* pieces frozen for eviction
    completed,  \* storage's completion bits
    disk,       \* disk[p][h]: the blocks of p in the h-th destination file it was given
    handle,     \* handle[p]: the destination currently open for p
    filesGen,
    phase,      \* "open", "draining" (close is publishing) or "closed"
    sealed,     \* completion bits at the moment close cleared them
    lock,       \* the thread that keeps the mutex across its next step, or Free
    parked,     \* threads waiting on flush_done
    pc, job, io,
    status,     \* the torrent's view of a piece: receiving, checking, complete
    got,        \* dirty_chunks: the bytes acknowledged to the torrent, "zero" when not
    todo,       \* pieces the select handler has yet to refresh
    used        \* how much of each bound is spent

fileVars  == <<disk, handle, filesGen>>
lifeVars  == <<completed, phase, sealed>>
storeVars == <<slot, flushing, evicting, fileVars, lifeVars>>
procVars  == <<lock, parked, pc, job, io>>
coreVars  == <<status, got, todo, used>>
vars == <<storeVars, procVars, coreVars>>

Data   == {"zero", "bad", "good"}
Bytes  == [Blocks -> Data]
Procs  == Writers \cup Hashers \cup Refreshers
Zeroes == [b \in Blocks |-> "zero"]
closed == phase = "closed"

NoSlot == [here |-> FALSE, ram |-> Zeroes, dirty |-> FALSE, spans |-> {},
           partial |-> FALSE, have |-> {}, raced |-> FALSE, fresh |-> {}]
NoJob  == [p |-> None, b |-> None, v |-> "zero", victim |-> None, tries |-> 0,
           complete |-> FALSE]
NoIo   == [at |-> "none", spans |-> {}, data |-> Zeroes, handle |-> 0, gen |-> 0,
           ok |-> TRUE]

----------------------------------------------------------------------------
(* Slots.                                                                  *)

\* drop_cache_locked: the span list of partial_slots and flush_raced survive it.
DroppedKeepingSpans(s) ==
    IF s.here THEN [s EXCEPT !.here = FALSE, !.ram = Zeroes, !.dirty = FALSE, !.fresh = {}]
              ELSE s
Dropped(s) ==
    IF s.here THEN [s EXCEPT !.here = FALSE, !.ram = Zeroes, !.dirty = FALSE,
                             !.spans = {}, !.fresh = {}]
              ELSE s

\* A slot created for a write of an attached download starts partial and empty.
CreatedAsWhole(s) == [s EXCEPT !.here = TRUE, !.ram = Zeroes, !.partial = FALSE, !.have = {}]
Created(s) == [s EXCEPT !.here = TRUE, !.ram = Zeroes, !.partial = TRUE, !.have = {}]

\* The tail of write_locked: the block lands in the slot, which is being flushed or not.
StoredUnnoticed(s, b, v, busy) ==
    LET have == IF s.partial THEN s.have \cup {b} ELSE s.have IN
    [s EXCEPT !.ram[b] = v, !.dirty = TRUE, !.spans = @ \cup {b},
              !.have = IF have = Blocks THEN {} ELSE have,
              !.partial = s.partial /\ have # Blocks]
Stored(s, b, v, busy) ==
    LET have == IF s.partial THEN s.have \cup {b} ELSE s.have IN
    [s EXCEPT !.ram[b] = v, !.dirty = TRUE, !.spans = @ \cup {b},
              !.have = IF have = Blocks THEN {} ELSE have,
              !.partial = s.partial /\ have # Blocks,
              !.raced = busy \/ s.raced,
              !.fresh = IF busy THEN @ \cup {b} ELSE @]

\* What an unlocked flush has left to do once its write is on disk.
Arrived(s)  == IF s.raced /\ s.here THEN s.fresh ELSE {}
Settled(s)  == [s EXCEPT !.raced = FALSE, !.fresh = {}]
Flushed(s)  == [Settled(s) EXCEPT !.dirty = Arrived(s) # {}, !.spans = Arrived(s)]

\* The ranges a flush of the slot writes: the dirty spans, else the whole slot.
PlanSpans(s) == IF s.spans # {} \/ s.partial THEN s.spans ELSE Blocks

\* fill_partial_slot_unlocked: received ranges win over the copy read from disk.
FilledWithDisk(s, d) ==
    IF s.partial /\ s.here THEN [s EXCEPT !.ram = d, !.partial = FALSE, !.have = {}] ELSE s
Filled(s, d) ==
    IF s.partial /\ s.here
    THEN [s EXCEPT !.ram = [b \in Blocks |-> IF b \in s.have THEN s.ram[b] ELSE d[b]],
                   !.partial = FALSE, !.have = {}]
    ELSE s

Valid(s, b) == s.here /\ (~s.partial \/ b \in s.have)

\* The byte a read of the piece would return now.
Readable(p, b) ==
    IF Valid(slot[p], b) THEN slot[p].ram[b] ELSE disk[p][handle[p]][b]

\* write_all_at on the file a plan was made for.
Put(p, h, S, d) ==
    disk' = [disk EXCEPT ![p][h] = [b \in Blocks |-> IF b \in S THEN d[b] ELSE @[b]]]

----------------------------------------------------------------------------
Init ==
    /\ slot = [p \in Pieces |-> NoSlot]
    /\ flushing = {} /\ evicting = {} /\ completed = {} /\ sealed = {}
    /\ disk = [p \in Pieces |-> [h \in 0..MaxSelections |-> Zeroes]]
    /\ handle = [p \in Pieces |-> 0]
    /\ filesGen = 0
    /\ phase = "open"
    /\ lock = Free /\ parked = {}
    /\ pc = [q \in Procs |-> "idle"]
    /\ job = [q \in Procs |-> NoJob]
    /\ io = [q \in Procs |-> NoIo]
    /\ status = [p \in Pieces |-> "receiving"]
    /\ got = [p \in Pieces |-> Zeroes]
    /\ todo = {}
    /\ used = [bad |-> 0, io |-> 0, refresh |-> 0]

\* q may run: it holds the mutex, or the mutex is free and q is not waiting.
Runs(q) == lock \in {Free, q} /\ q \notin parked

Notify == parked' = {}
Goto(q, l) == pc' = [pc EXCEPT ![q] = l]
IoMayFail == used.io < MaxIoErrors
SpendIo == used' = [used EXCEPT !.io = @ + 1]

\* An I/O plan made under the mutex; it keeps the handle and generation it saw.
Plan(p, S, d) == [at |-> "io", spans |-> S, data |-> d, handle |-> handle[p],
                  gen |-> filesGen, ok |-> TRUE]

----------------------------------------------------------------------------
(* flush_piece_unlocked, called by an eviction ("evict"), by mark_complete *)
(* ("complete") and by a fill ("fill").                                    *)

Target(q) == IF pc[q] = "evict" THEN job[q].victim ELSE job[q].p

InFlush(q, at) == pc[q] \in {"evict", "complete", "fill"} /\ io[q].at = at

\* Another thread writes this piece unlocked: wait for it on flush_done.
FlushWait(q) ==
    /\ InFlush(q, "want") /\ Runs(q)
    /\ Target(q) \in flushing
    /\ parked' = parked \cup {q} /\ lock' = Free
    /\ UNCHANGED <<storeVars, pc, job, io, coreVars>>

NothingToFlush(p) == closed \/ ~slot[p].here \/ ~slot[p].dirty

FlushSkip(q) ==
    /\ InFlush(q, "want") /\ Runs(q)
    /\ Target(q) \notin flushing
    /\ NothingToFlush(Target(q))
    /\ io' = [io EXCEPT ![q].at = "ret", ![q].ok = ~closed]
    /\ lock' = q
    /\ UNCHANGED <<storeVars, parked, pc, job, coreVars>>

FlushStart(q) ==
    /\ InFlush(q, "want") /\ Runs(q)
    /\ LET p == Target(q) IN
       /\ p \notin flushing
       /\ ~NothingToFlush(p)
       /\ flushing' = flushing \cup {p}
       /\ slot' = [slot EXCEPT ![p] = Settled(@)]
       /\ io' = [io EXCEPT ![q] = Plan(p, PlanSpans(slot[p]), slot[p].ram)]
    /\ lock' = Free
    /\ UNCHANGED <<evicting, lifeVars, fileVars, parked, pc, job, coreVars>>

\* PieceFlush::write, unlocked: every range reaches the file, or it fails part way.
FlushIo(q) ==
    /\ InFlush(q, "io")
    /\ \/ /\ Put(Target(q), io[q].handle, io[q].spans, io[q].data)
          /\ io' = [io EXCEPT ![q].at = "done"]
          /\ UNCHANGED used
       \/ /\ IoMayFail /\ SpendIo
          /\ \E S \in SUBSET io[q].spans :
                S # io[q].spans /\ Put(Target(q), io[q].handle, S, io[q].data)
          /\ io' = [io EXCEPT ![q].at = "done", ![q].ok = FALSE]
    /\ UNCHANGED <<slot, flushing, evicting, lifeVars, handle, filesGen, lock, parked, pc, job, status, got, todo>>

\* The flush has the mutex again.  until_clean callers flush once more when a
\* block arrived or the files were replaced meanwhile; a fill does not.
FlushEnd(q) ==
    /\ InFlush(q, "done") /\ Runs(q)
    /\ LET p == Target(q)
           again == IF pc[q] = "fill" THEN "ret" ELSE "want"
           failed == closed \/ ~io[q].ok
           moved == filesGen # io[q].gen
       IN
       /\ flushing' = flushing \ {p}
       /\ slot' = [slot EXCEPT ![p] = IF failed \/ moved THEN Settled(@) ELSE Flushed(@)]
       /\ io' = [io EXCEPT ![q].at = IF ~failed /\ (moved \/ Arrived(slot[p]) # {})
                                     THEN again ELSE "ret",
                           ![q].ok = ~failed]
    /\ Notify /\ lock' = q
    /\ UNCHANGED <<evicting, lifeVars, fileVars, pc, job, coreVars>>

----------------------------------------------------------------------------
(* Receiving a block: begin_chunk_write, write_locked, finish_chunk_write. *)

Writing(p, b) == \E w \in Writers : job[w].p = p /\ job[w].b = b

BeginChunkWrite(w, p, b, v) ==
    /\ pc[w] = "idle"
    /\ ~closed
    /\ status[p] = "receiving"
    /\ got[p][b] = "zero" /\ ~Writing(p, b)
    /\ v = "bad" => used.bad < MaxBad
    /\ used' = IF v = "bad" THEN [used EXCEPT !.bad = @ + 1] ELSE used
    /\ job' = [job EXCEPT ![w] = [NoJob EXCEPT !.p = p, !.b = b, !.v = v]]
    /\ Goto(w, "enter")
    /\ UNCHANGED <<storeVars, lock, parked, io, status, got, todo>>

\* finish_chunk_write: the block is dirty only when the write succeeded.
FinishChunkWrite(w) ==
    /\ pc[w] = "ack"
    /\ got' = IF io[w].ok THEN [got EXCEPT ![job[w].p][job[w].b] = job[w].v] ELSE got
    /\ job' = [job EXCEPT ![w] = NoJob]
    /\ io' = [io EXCEPT ![w] = NoIo]
    /\ Goto(w, "idle")
    /\ UNCHANGED <<storeVars, lock, parked, status, todo, used>>

\* The write returns to the peer thread.
Returns(w, ok) ==
    /\ io' = [io EXCEPT ![w] = [NoIo EXCEPT !.ok = ok]]
    /\ Goto(w, "ack") /\ lock' = Free

WriteEnter(w) ==
    /\ pc[w] = "enter" /\ Runs(w)
    /\ \/ closed /\ Returns(w, FALSE)
       \/ ~closed /\ Goto(w, "write") /\ lock' = w /\ UNCHANGED io
    /\ UNCHANGED <<storeVars, parked, job, coreVars>>

\* A write-through or an unlocked flush owns the uncached piece.
AwaitsOwnerNever(p) == FALSE
AwaitsOwner(p) == ~slot[p].here /\ p \in flushing

\* write_locked waits: for an eviction of its piece, then for the piece's owner.
WriteWait(w) ==
    /\ Runs(w)
    /\ \/ /\ pc[w] = "write" /\ job[w].p \in evicting
          /\ UNCHANGED pc
       \/ /\ pc[w] = "await" \/ (pc[w] = "write" /\ job[w].p \notin evicting)
          /\ AwaitsOwner(job[w].p)
          /\ Goto(w, "await")
    /\ parked' = parked \cup {w} /\ lock' = Free
    /\ UNCHANGED <<storeVars, job, io, coreVars>>

\* Past both waits.
WriteGoes(w) ==
    /\ pc[w] \in {"write", "await"} /\ Runs(w)
    /\ pc[w] = "write" => job[w].p \notin evicting
    /\ ~AwaitsOwner(job[w].p)

WriteClosed(w) ==
    /\ WriteGoes(w) /\ closed
    /\ Returns(w, FALSE)
    /\ UNCHANGED <<storeVars, parked, job, coreVars>>

Cached == {p \in Pieces : slot[p].here}

\* ensure_cache_slot_locked: pieces that may be dropped at once, verified ones first.
CleanVictims(p) == {v \in Cached \ (flushing \cup {p}) : ~slot[v].dirty}
FirstVictims(p) == IF CleanVictims(p) \cap completed # {}
                   THEN CleanVictims(p) \cap completed ELSE CleanVictims(p)
DirtyVictims(p) == Cached \ (flushing \cup {p})

StoreBlock(w, sl, created) ==
    LET p == job[w].p
        s == IF created THEN Created(sl[p]) ELSE sl[p]
    IN slot' = [sl EXCEPT ![p] = Stored(s, job[w].b, job[w].v, p \in flushing)]

\* CacheSlot::Ready: the slot exists, there is room, or a clean slot makes room.
WriteCached(w) ==
    /\ WriteGoes(w) /\ ~closed
    /\ LET p == job[w].p IN
       \/ slot[p].here /\ StoreBlock(w, slot, FALSE)
       \/ ~slot[p].here /\ Cardinality(Cached) < Cap /\ StoreBlock(w, slot, TRUE)
       \/ /\ ~slot[p].here /\ Cardinality(Cached) >= Cap
          /\ \E v \in FirstVictims(p) :
                StoreBlock(w, [slot EXCEPT ![v] = Dropped(@)], TRUE)
    /\ Returns(w, TRUE)
    /\ UNCHANGED <<flushing, evicting, lifeVars, fileVars, parked, job, coreVars>>

NeedsFlush(p) == ~slot[p].here /\ Cardinality(Cached) >= Cap /\ CleanVictims(p) = {}

\* CacheSlot::FlushFirst: freeze a dirty victim and write it back unlocked.
WriteEvictsOnceMore(w) ==
    /\ WriteGoes(w) /\ ~closed
    /\ NeedsFlush(job[w].p)
    /\ job[w].tries <= MaxTries
    /\ \E v \in DirtyVictims(job[w].p) :
          /\ evicting' = evicting \cup {v}
          /\ job' = [job EXCEPT ![w].victim = v, ![w].tries = @ + 1]
    /\ io' = [io EXCEPT ![w] = [NoIo EXCEPT !.at = "want"]]
    /\ Goto(w, "evict") /\ lock' = w
    /\ UNCHANGED <<slot, flushing, lifeVars, fileVars, parked, coreVars>>
WriteEvicts(w) ==
    /\ WriteGoes(w) /\ ~closed
    /\ NeedsFlush(job[w].p)
    /\ job[w].tries < MaxTries
    /\ \E v \in DirtyVictims(job[w].p) :
          /\ evicting' = evicting \cup {v}
          /\ job' = [job EXCEPT ![w].victim = v, ![w].tries = @ + 1]
    /\ io' = [io EXCEPT ![w] = [NoIo EXCEPT !.at = "want"]]
    /\ Goto(w, "evict") /\ lock' = w
    /\ UNCHANGED <<slot, flushing, lifeVars, fileVars, parked, coreVars>>

\* write_through_unlocked: own the uncached piece and write the block itself.
BeginThrough(w) ==
    LET p == job[w].p
        d == [b \in Blocks |-> job[w].v]
    IN /\ flushing' = flushing \cup {p}
       /\ io' = [io EXCEPT ![w] = Plan(p, {job[w].b}, d)]
       /\ Goto(w, "through") /\ lock' = Free

WriteThrough(w) ==
    /\ WriteGoes(w) /\ ~closed
    /\ NeedsFlush(job[w].p)
    /\ job[w].tries >= MaxTries \/ DirtyVictims(job[w].p) = {}
    /\ BeginThrough(w)
    /\ UNCHANGED <<slot, evicting, lifeVars, fileVars, parked, job, coreVars>>

\* The victim's flush is over: drop it when clean, and wake who waited for it.
EvictReturn(w) ==
    /\ pc[w] = "evict" /\ io[w].at = "ret" /\ Runs(w)
    /\ LET v == job[w].victim
           p == job[w].p
           clean == io[w].ok /\ ~slot[v].dirty /\ v \notin flushing
       IN
       /\ evicting' = evicting \ {v}
       /\ slot' = IF ~closed /\ clean THEN [slot EXCEPT ![v] = Dropped(@)] ELSE slot
       /\ \/ closed /\ Returns(w, FALSE) /\ UNCHANGED flushing
          \/ /\ ~closed /\ (clean \/ slot[p].here \/ p \in flushing)
             /\ Goto(w, "write") /\ lock' = w
             /\ io' = [io EXCEPT ![w] = NoIo]
             /\ UNCHANGED flushing
          \/ /\ ~closed /\ ~clean /\ ~slot[p].here /\ p \notin flushing
             /\ BeginThrough(w)
    /\ job' = [job EXCEPT ![w].victim = None]
    /\ Notify
    /\ UNCHANGED <<lifeVars, fileVars, coreVars>>

ThroughIo(w) ==
    /\ pc[w] = "through" /\ io[w].at = "io"
    /\ \/ /\ Put(job[w].p, io[w].handle, io[w].spans, io[w].data)
          /\ io' = [io EXCEPT ![w].at = "done"]
          /\ UNCHANGED used
       \/ /\ IoMayFail /\ SpendIo
          /\ io' = [io EXCEPT ![w].at = "done", ![w].ok = FALSE]
          /\ UNCHANGED disk
    /\ UNCHANGED <<slot, flushing, evicting, lifeVars, handle, filesGen, lock, parked, pc, job, status, got, todo>>

ThroughEndQuietly(w) ==
    /\ pc[w] = "through" /\ io[w].at = "done" /\ Runs(w)
    /\ \/ /\ ~closed /\ filesGen # io[w].gen
          /\ io' = [io EXCEPT ![w] = Plan(job[w].p, @.spans, @.data)]
          /\ lock' = Free
          /\ UNCHANGED <<flushing, parked, pc>>
       \/ /\ closed \/ filesGen = io[w].gen
          /\ flushing' = flushing \ {job[w].p}
          /\ UNCHANGED parked
          /\ Returns(w, ~closed /\ io[w].ok)
    /\ UNCHANGED <<slot, evicting, lifeVars, fileVars, job, coreVars>>
ThroughEnd(w) ==
    /\ pc[w] = "through" /\ io[w].at = "done" /\ Runs(w)
    /\ \/ /\ ~closed /\ filesGen # io[w].gen
          /\ io' = [io EXCEPT ![w] = Plan(job[w].p, @.spans, @.data)]
          /\ lock' = Free
          /\ UNCHANGED <<flushing, parked, pc>>
       \/ /\ closed \/ filesGen = io[w].gen
          /\ flushing' = flushing \ {job[w].p}
          /\ Notify
          /\ Returns(w, ~closed /\ io[w].ok)
    /\ UNCHANGED <<slot, evicting, lifeVars, fileVars, job, coreVars>>

----------------------------------------------------------------------------
(* Reading a piece: read_piece_data_unlocked with its fill.                *)

\* A hash reads the whole piece, a refresh one byte at offset 0.
Wanted(q) == IF q \in Hashers THEN Blocks ELSE {First}

AfterRead(q) == IF q \in Hashers THEN "verdict" ELSE "settle"

ReadDone(q, d, ok) ==
    /\ io' = [io EXCEPT ![q] = [NoIo EXCEPT !.data = d, !.ok = ok]]
    /\ Goto(q, AfterRead(q)) /\ lock' = Free

\* Copies from the slot, or plans a read of the files when there is none.
CopyOrPlan(q) ==
    LET p == job[q].p IN
    IF slot[p].here THEN ReadDone(q, slot[p].ram, TRUE)
    ELSE /\ io' = [io EXCEPT ![q] = Plan(p, {}, Zeroes)]
         /\ Goto(q, "direct") /\ lock' = Free

ReadStart(q) ==
    /\ pc[q] = "read" /\ Runs(q)
    /\ LET p == job[q].p IN
       \/ closed /\ ReadDone(q, Zeroes, FALSE)
       \/ /\ ~closed
          /\ slot[p].here /\ slot[p].partial /\ ~(Wanted(q) \subseteq slot[p].have)
          /\ io' = [io EXCEPT ![q] = [NoIo EXCEPT !.at = "want"]]
          /\ Goto(q, "fill") /\ lock' = q
       \/ /\ ~closed
          /\ ~(slot[p].here /\ slot[p].partial /\ ~(Wanted(q) \subseteq slot[p].have))
          /\ CopyOrPlan(q)
    /\ UNCHANGED <<storeVars, parked, job, coreVars>>

\* fill_partial_slot_unlocked after its flush: read the whole piece unlocked.
FillReturn(q) ==
    /\ pc[q] = "fill" /\ io[q].at = "ret" /\ Runs(q)
    /\ LET p == job[q].p IN
       \/ ~io[q].ok /\ ReadDone(q, Zeroes, FALSE)
       \/ io[q].ok /\ ~(slot[p].here /\ slot[p].partial) /\ CopyOrPlan(q)
       \/ /\ io[q].ok /\ slot[p].here /\ slot[p].partial
          /\ io' = [io EXCEPT ![q] = Plan(p, {}, Zeroes)]
          /\ Goto(q, "load") /\ lock' = Free
    /\ UNCHANGED <<storeVars, parked, job, coreVars>>

\* The unlocked disk read of a fill ("load") or of an uncached piece ("direct").
ReadIo(q) ==
    /\ pc[q] \in {"load", "direct"} /\ io[q].at = "io"
    /\ \/ /\ io' = [io EXCEPT ![q].at = "done", ![q].data = disk[job[q].p][io[q].handle]]
          /\ UNCHANGED used
       \/ /\ IoMayFail /\ SpendIo
          /\ io' = [io EXCEPT ![q].at = "done", ![q].ok = FALSE]
    /\ UNCHANGED <<storeVars, lock, parked, pc, job, status, got, todo>>

DirectEnd(q) ==
    /\ pc[q] = "direct" /\ io[q].at = "done"
    /\ io' = [io EXCEPT ![q] = [NoIo EXCEPT !.data = io[q].data, !.ok = io[q].ok]]
    /\ Goto(q, AfterRead(q))
    /\ UNCHANGED <<storeVars, lock, parked, job, coreVars>>

Overlay(q) ==
    /\ pc[q] = "load" /\ io[q].at = "done" /\ Runs(q)
    /\ LET p == job[q].p
           failed == closed \/ filesGen # io[q].gen \/ ~io[q].ok
       IN
       \/ failed /\ ReadDone(q, Zeroes, FALSE) /\ UNCHANGED slot
       \/ /\ ~failed
          /\ slot' = [slot EXCEPT ![p] = Filled(@, io[q].data)]
          /\ Goto(q, "copy") /\ lock' = q
          /\ UNCHANGED io
    /\ UNCHANGED <<flushing, evicting, lifeVars, fileVars, parked, job, coreVars>>

CopyAfterFill(q) ==
    /\ pc[q] = "copy" /\ Runs(q)
    /\ CopyOrPlan(q)
    /\ UNCHANGED <<storeVars, parked, job, coreVars>>

----------------------------------------------------------------------------
(* Hashing and completion: queue_piece_hash, apply_hash_result,            *)
(* mark_complete, mark_not_complete.                                       *)

Refreshing(p) == \E q \in Refreshers : job[q].p = p

QueuePieceHashEarly(h, p) ==
    /\ pc[h] = "idle"
    /\ status[p] = "receiving"
    /\ \A b \in Blocks : got[p][b] # "zero" \/ Writing(p, b)
    /\ Careful => ~Refreshing(p)
    /\ status' = [status EXCEPT ![p] = "checking"]
    /\ job' = [job EXCEPT ![h] = [NoJob EXCEPT !.p = p]]
    /\ Goto(h, "read")
    /\ UNCHANGED <<storeVars, lock, parked, io, got, todo, used>>
QueuePieceHash(h, p) ==
    /\ pc[h] = "idle"
    /\ status[p] = "receiving"
    /\ \A b \in Blocks : got[p][b] # "zero"
    /\ Careful => ~Refreshing(p)
    /\ status' = [status EXCEPT ![p] = "checking"]
    /\ job' = [job EXCEPT ![h] = [NoJob EXCEPT !.p = p]]
    /\ Goto(h, "read")
    /\ UNCHANGED <<storeVars, lock, parked, io, got, todo, used>>

Idle(q) ==
    /\ job' = [job EXCEPT ![q] = NoJob]
    /\ io' = [io EXCEPT ![q] = NoIo]
    /\ Goto(q, "idle")

Correct(q) == io[q].ok /\ \A b \in Blocks : io[q].data[b] = "good"

\* mark_not_complete: a trusted bit is never cleared; the slot goes with the claim.
MarkNotComplete(p) ==
    slot' = IF closed \/ p \in completed THEN slot ELSE [slot EXCEPT ![p] = Dropped(@)]

\* The torrent forgets every block of the piece and requests it again.
ForgetPiece(p) ==
    /\ status' = [status EXCEPT ![p] = "receiving"]
    /\ got' = [got EXCEPT ![p] = Zeroes]

\* A correct hash goes on to mark_complete.
BeginCompleteUnflushed(h) ==
    /\ pc[h] = "verdict" /\ Correct(h) /\ Runs(h)
    /\ io' = [io EXCEPT ![h] = [NoIo EXCEPT !.at = "ret"]]
    /\ Goto(h, "complete") /\ lock' = h
    /\ UNCHANGED <<storeVars, parked, job, coreVars>>
BeginComplete(h) ==
    /\ pc[h] = "verdict" /\ Correct(h) /\ Runs(h)
    /\ io' = [io EXCEPT ![h] = [NoIo EXCEPT !.at = "want"]]
    /\ Goto(h, "complete") /\ lock' = h
    /\ UNCHANGED <<storeVars, parked, job, coreVars>>

CompleteReturn(h) ==
    /\ pc[h] = "complete" /\ io[h].at = "ret" /\ Runs(h)
    /\ io[h].ok
    /\ completed' = completed \cup {job[h].p}
    /\ status' = [status EXCEPT ![job[h].p] = "complete"]
    /\ Idle(h) /\ lock' = Free
    /\ UNCHANGED <<slot, flushing, evicting, fileVars, phase, sealed, parked, got, todo, used>>

HashFails(h) ==
    /\ \/ pc[h] = "verdict" /\ ~Correct(h)
       \/ pc[h] = "complete" /\ io[h].at = "ret" /\ ~io[h].ok
    /\ Runs(h)
    /\ MarkNotComplete(job[h].p)
    /\ ForgetPiece(job[h].p)
    /\ Idle(h) /\ lock' = Free
    /\ UNCHANGED <<flushing, evicting, lifeVars, fileVars, parked, todo, used>>

----------------------------------------------------------------------------
(* refresh_piece_completion: reads the storage's completion, probes the    *)
(* piece when the torrent claims local data, then updates the torrent.     *)

BeginRefresh(q, p) ==
    /\ pc[q] = "idle" /\ lock = Free
    /\ \/ p \in todo /\ todo' = todo \ {p} /\ UNCHANGED used
       \/ /\ ~closed /\ used.refresh < MaxRefreshes
          /\ used' = [used EXCEPT !.refresh = @ + 1]
          /\ UNCHANGED todo
    /\ Careful => status[p] # "checking"
    /\ job' = [job EXCEPT ![q] = [NoJob EXCEPT !.p = p, !.complete = p \in completed]]
    /\ Goto(q, IF p \notin completed /\ (status[p] = "complete" \/ got[p] # Zeroes)
               THEN "read" ELSE "settle")
    /\ UNCHANGED <<storeVars, lock, parked, io, status, got>>

SettleRefresh(q) ==
    /\ pc[q] = "settle" /\ Runs(q)
    /\ LET p == job[q].p
           lost == ~io[q].ok
           evicted == lost \/ (status[p] = "complete" /\ ~job[q].complete)
       IN
       /\ IF lost THEN MarkNotComplete(p) ELSE UNCHANGED slot
       /\ IF evicted THEN ForgetPiece(p)
          ELSE /\ status' = IF job[q].complete THEN [status EXCEPT ![p] = "complete"]
                            ELSE status
               /\ UNCHANGED got
    /\ Idle(q) /\ lock' = Free
    /\ UNCHANGED <<flushing, evicting, lifeVars, fileVars, parked, todo, used>>

----------------------------------------------------------------------------
(* update_selection and close.                                             *)

\* Every byte the slot holds is still to be written.
NoCleanBytes(s) == {b \in Blocks : Valid(s, b)} \subseteq s.spans

\* The pieces in R get a fresh destination, rebuilt from the verified pieces;
\* their completion bits are cleared, and the handler goes on to refresh them all.
UpdateSelection(R) ==
    /\ phase = "open" /\ lock = Free
    /\ filesGen < MaxSelections
    /\ Careful => /\ \A p \in Pieces : status[p] # "checking" /\ ~Refreshing(p)
                  /\ \A p \in R \ completed : NoCleanBytes(slot[p])
    /\ handle' = [p \in Pieces |-> IF p \in R THEN filesGen + 1 ELSE handle[p]]
    /\ disk' = [p \in Pieces |->
                  IF p \in R /\ p \in completed
                  THEN [disk[p] EXCEPT ![filesGen + 1] = disk[p][handle[p]]]
                  ELSE disk[p]]
    /\ filesGen' = filesGen + 1
    /\ completed' = completed \ R
    /\ todo' = Pieces
    /\ UNCHANGED <<slot, flushing, evicting, phase, sealed, procVars, status, got, used>>

DirtyPieces == {p \in Cached : slot[p].dirty}

\* flush_all_dirty_locked after writing the ranges in wrote[p] of each piece.
FlushedLocked(wrote) ==
    /\ disk' = [p \in Pieces |->
                  [disk[p] EXCEPT ![handle[p]] =
                     [b \in Blocks |-> IF b \in wrote[p] THEN slot[p].ram[b] ELSE @[b]]]]
    /\ slot' = [p \in Pieces |->
                  IF p \in DirtyPieces
                  THEN [slot[p] EXCEPT !.dirty = wrote[p] # PlanSpans(slot[p]),
                                       !.spans = IF wrote[p] = {} THEN @
                                                 ELSE PlanSpans(slot[p]) \ wrote[p]]
                  ELSE slot[p]]

\* close, first half: flush_all_dirty_locked, stopping at the first error.
CloseFlush ==
    LET all  == [p \in Pieces |-> IF p \in DirtyPieces THEN PlanSpans(slot[p]) ELSE {}] IN
    /\ phase = "open" /\ lock = Free
    /\ phase' = "draining"
    /\ \/ FlushedLocked(all) /\ UNCHANGED used
       \/ /\ IoMayFail /\ SpendIo
          /\ \E S \in SUBSET DirtyPieces, x \in DirtyPieces :
                \E X \in SUBSET all[x] :
                   /\ x \notin S /\ X # all[x]
                   /\ FlushedLocked([p \in Pieces |-> IF p \in S THEN all[p]
                                                     ELSE IF p = x THEN X ELSE {}])
    /\ UNCHANGED <<flushing, evicting, completed, handle, filesGen, sealed, procVars, status, got, todo>>

\* close, second half, after the final checkpoint: nothing of the cache is left.
CloseFinish ==
    /\ phase = "draining" /\ lock = Free
    /\ phase' = "closed"
    /\ sealed' = completed
    /\ completed' = {} /\ evicting' = {}
    /\ slot' = [p \in Pieces |-> [NoSlot EXCEPT !.raced = slot[p].raced]]
    /\ filesGen' = filesGen + 1
    /\ Notify
    /\ UNCHANGED <<flushing, disk, handle, lock, pc, job, io, coreVars>>

\* Closed and every thread returned: the storage object is dropped.
Stopped ==
    /\ closed /\ \A q \in Procs : pc[q] = "idle"
    /\ UNCHANGED vars

----------------------------------------------------------------------------
WriterStep(w) ==
    \/ FlushWait(w) \/ FlushSkip(w) \/ FlushStart(w) \/ FlushIo(w) \/ FlushEnd(w)
    \/ WriteEnter(w) \/ WriteWait(w) \/ WriteClosed(w) \/ WriteCached(w) \/ WriteEvicts(w)
    \/ WriteThrough(w) \/ EvictReturn(w) \/ ThroughIo(w) \/ ThroughEnd(w)
    \/ FinishChunkWrite(w)

ReaderStep(q) ==
    \/ FlushWait(q) \/ FlushSkip(q) \/ FlushStart(q) \/ FlushIo(q) \/ FlushEnd(q)
    \/ ReadStart(q) \/ FillReturn(q) \/ ReadIo(q) \/ DirectEnd(q) \/ Overlay(q)
    \/ CopyAfterFill(q)

HasherStep(h) ==
    \/ ReaderStep(h) \/ BeginComplete(h) \/ CompleteReturn(h) \/ HashFails(h)

RefresherStep(q) == ReaderStep(q) \/ SettleRefresh(q)

Next ==
    \/ \E w \in Writers, p \in Pieces, b \in Blocks, v \in {"good", "bad"} :
          BeginChunkWrite(w, p, b, v)
    \/ \E w \in Writers : WriterStep(w)
    \/ \E h \in Hashers, p \in Pieces : QueuePieceHash(h, p)
    \/ \E h \in Hashers : HasherStep(h)
    \/ \E q \in Refreshers, p \in Pieces : BeginRefresh(q, p)
    \/ \E q \in Refreshers : RefresherStep(q)
    \/ \E R \in SUBSET Pieces : R # {} /\ UpdateSelection(R)
    \/ CloseFlush
    \/ CloseFinish
    \/ Stopped

Spec == Init /\ [][Next]_vars

\* Every thread that can run does: the mutex is never held across an I/O, and a
\* waiter is woken by notify_all.
Fairness ==
    /\ \A w \in Writers : WF_vars(WriterStep(w))
    /\ \A h \in Hashers : WF_vars(HasherStep(h))
    /\ \A q \in Refreshers : WF_vars(RefresherStep(q))

----------------------------------------------------------------------------
(* Properties.                                                             *)

SlotType == [here : BOOLEAN, ram : Bytes, dirty : BOOLEAN, spans : SUBSET Blocks,
             partial : BOOLEAN, have : SUBSET Blocks, raced : BOOLEAN,
             fresh : SUBSET Blocks]
JobType == [p : Pieces \cup {None}, b : Blocks \cup {None}, v : Data,
            victim : Pieces \cup {None}, tries : 0..MaxTries, complete : BOOLEAN]
IoType == [at : {"none", "want", "io", "done", "ret"}, spans : SUBSET Blocks,
           data : Bytes, handle : 0..MaxSelections, gen : Nat, ok : BOOLEAN]
Labels == {"idle", "enter", "write", "await", "evict", "through", "ack", "read", "fill",
           "load", "copy", "direct", "verdict", "complete", "settle"}

\* Every variable has its type.
TypeOK ==
    /\ slot \in [Pieces -> SlotType]
    /\ flushing \subseteq Pieces /\ evicting \subseteq Pieces
    /\ completed \subseteq Pieces /\ sealed \subseteq Pieces
    /\ disk \in [Pieces -> [0..MaxSelections -> Bytes]]
    /\ handle \in [Pieces -> 0..MaxSelections]
    /\ filesGen \in Nat
    /\ phase \in {"open", "draining", "closed"}
    /\ lock \in Procs \cup {Free} /\ parked \subseteq Procs
    /\ pc \in [Procs -> Labels]
    /\ job \in [Procs -> JobType]
    /\ io \in [Procs -> IoType]
    /\ status \in [Pieces -> {"receiving", "checking", "complete"}]
    /\ got \in [Pieces -> Bytes]
    /\ todo \subseteq Pieces
    /\ used \in [bad : 0..MaxBad, io : 0..MaxIoErrors, refresh : 0..MaxRefreshes]

\* A piece the storage reports complete has its verified bytes in the file that is
\* open for it, and after close in the file that was (mark_complete flushes until
\* clean; close does not wait for unlocked writers, whose late writes must be harmless).
CompletedIsSaved ==
    \A p \in completed \cup sealed :
        LET saved == disk[p][handle[p]] IN \A b \in DOMAIN saved : saved[b] = "good"

\* Every block acknowledged to the torrent is readable with the bytes the peer sent,
\* from RAM or from disk, through flush, eviction, write-through, fill and retry
\* (reselection of the piece's file discards partial data on purpose).
NoLostBlock ==
    ~closed =>
        \A p \in DOMAIN got : \A b \in DOMAIN got[p] :
            got[p][b] # "zero" /\ handle[p] = 0 => Readable(p, b) = got[p][b]

\* At most one thread has an unlocked write of a piece in flight, so an older snapshot
\* is never written over a newer one ("One unlocked writer per piece").
UnlockedWriter(q, p) ==
    /\ io[q].at \in {"io", "done"}
    /\ \/ pc[q] = "through" /\ job[q].p = p
       \/ pc[q] \in {"evict", "complete", "fill"} /\ Target(q) = p
OneWriter ==
    \A p \in Pieces, q, r \in Procs : UnlockedWriter(q, p) /\ UnlockedWriter(r, p) => q = r

\* Bytes once on disk are never overwritten by the zeroes of a slot that did not
\* receive them ("Stale ones would make a later slot flush zeros").
KeepsBytes ==
    \A p \in DOMAIN disk : \A h \in DOMAIN disk[p] : \A b \in DOMAIN disk[p][h] :
        disk[p][h][b] # "zero" => disk'[p][h][b] # "zero"
DiskNeverZeroed == [][KeepsBytes]_vars

\* The torrent accepts no block of a piece the storage has completed
\* ("Blocks are never rewritten (core rejects duplicates)").
CompletedNotRewritten ==
    \A w \in Writers : pc[w] # "idle" => job[w].p \notin completed

\* A block write that started returns: no thread waits for a wake-up that never comes.
WriteReturns == \A w \in Writers : pc[w] = "enter" ~> pc[w] = "idle"
=============================================================================
