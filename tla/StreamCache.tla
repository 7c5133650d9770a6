---------------------------- MODULE StreamCache ----------------------------
(***************************************************************************)
(* Direct Play: the bounded RAM cache of a torrent that is streamed, the   *)
(* startup pieces it saves to disk, what the torrent believes about both,  *)
(* and the player's reader, which may be given blocks before their piece   *)
(* is verified.                                                            *)
(*                                                                         *)
(* wt-storage/src/storage/{direct_play,write_back,piece,layout}.rs are the *)
(* cache; wt-core/src/{lib,torrent}.rs the completion state of the         *)
(* torrent; wt-engine/src/playback_core.rs the reader.  Every change of    *)
(* the cache is one critical section of the storage mutex; a refresh, a    *)
(* hash result, a delivery and a read are several.                         *)
(***************************************************************************)
EXTENDS Integers, Sequences, FiniteSets, SequencesExt

CONSTANTS
    Pieces, Blocks,
    Cap,         \* max_cache_bytes in pieces
    PreviewCap,  \* PREVIEW_BUDGET_BYTES in pieces
    Quick,       \* startup pieces within DIRECT_STARTUP_BUDGET, checked when attaching
    Sessions     \* what the user and the swarm do, see Session

(* A session: whether it begins with a preview, the startup pieces of the files
   it plays, the startup pieces an earlier session left on disk, the window it
   resumes with, what the player reads, and two bounds: the blocks received and
   the corrupt ones among them. *)
Session ==
    [preview : BOOLEAN, plans : SUBSET SUBSET Pieces, onDisk : SUBSET Pieces,
     window : SUBSET Pieces, wants : SUBSET (Pieces \X Blocks),
     maxSent : Nat, maxBad : Nat]

ASSUME StreamAssumption ==
    /\ IsFiniteSet(Pieces) /\ IsFiniteSet(Blocks) /\ Blocks # {}
    /\ Pieces \cup Blocks \subseteq Nat \ {0}
    /\ {Cap, PreviewCap} \subseteq Nat \ {0}
    /\ Quick \subseteq Pieces
    /\ \A s \in Sessions : s \in Session

VARIABLES
    mode,      \* "off", "preview", "stream" or "closed"
    cache,     \* the slots and what is known of them, see NoCache
    startup, saved, preload,       \* startup_pieces, startup_saved, preload_pieces
    file,      \* file[p]: the startup file of p
    pending, flight,               \* startup_pending, startup_in_flight, with their bytes
    demand,    \* stream_demand
    have, dirty, checking,         \* the torrent's pieces and dirty_chunks
    hash,      \* hash[p]: a hash result on its way to apply_hash_result
    landing,   \* the block stored but not yet marked in dirty_chunks
    due,       \* pieces whose on_stream_evict callback was spawned
    refresh,   \* the refresh_piece_completion of the callback and of the reader
    reader,    \* the player's read in progress
    served, failed, news,          \* served_unverified, failed_pieces, a new hash failure
    exposed,   \* pieces of which the player holds corrupt bytes: unverified, or rejected
    session,   \* the session
    sent       \* the blocks received so far, by what they hold

torrentVars == <<have, dirty, checking, hash, landing>>
startupVars == <<startup, saved, preload, file, pending, flight>>
readerVars == <<reader, served, failed, news, exposed>>
vars == <<mode, cache, startupVars, demand, torrentVars, due, refresh, readerVars, session, sent>>

None == "none"
NoPiece == 0   \* pieces and blocks are numbered from 1

---------------------------------------------------------------------------
(* The cache.  cache.order lists pieces from the least recently used. *)

NoSlot == [b \in {} |-> b]

NoCache ==
    [slot |-> [p \in Pieces |-> NoSlot], order |-> <<>>, bytes |-> 0,
     ranges |-> [p \in Pieces |-> {}], whole |-> {}, lost |-> {}, completed |-> {}]

Held(c, p) == c.slot[p] # NoSlot
Good(slot) == DOMAIN slot = Blocks /\ \A b \in Blocks : slot[b] = "good"
Touch(c, p) == [c EXCEPT !.order = Append(Remove(@, p), p)]

(* drop_cache_locked *)
Drop(c, p) ==
    IF Held(c, p)
    THEN [c EXCEPT !.slot[p] = NoSlot, !.bytes = @ - 1, !.order = Remove(@, p)]
    ELSE c

Limit == IF mode = "preview" THEN PreviewCap ELSE Cap

(* A full piece waiting for its hash is never a victim.  The first pass also
   spares what readers demand and startup pieces that are not on disk yet. *)
Spared(c, p, pass) ==
    \/ p \notin c.completed /\ p \in c.whole
    \/ /\ pass = 0
       /\ \/ p \in demand
          \/ p \in preload /\ p \notin saved
          \/ p \in startup /\ p \in c.completed /\ p \notin saved

Victims(c, p, pass) ==
    {i \in DOMAIN c.order : c.order[i] # p /\ ~Spared(c, c.order[i], pass)}

NeedsRoom(c, p) == ~Held(c, p) /\ c.bytes >= Limit
Busy(c, p) == NeedsRoom(c, p) /\ Victims(c, p, 1) = {}

Victim(c, p) ==
    LET first == Victims(c, p, 0)
        any == IF first # {} THEN first ELSE Victims(c, p, 1)
    IN  c.order[CHOOSE i \in any : \A j \in any : i <= j]

(* Mutant: an evicted piece stays complete. *)
EvictStillComplete(c, v) ==
    [Drop(c, v) EXCEPT !.lost = IF v \in c.completed THEN @ ELSE @ \cup {v},
                       !.ranges[v] = {}, !.whole = @ \ {v}]

Evict(c, v) ==
    [Drop(c, v) EXCEPT
       !.lost = IF v \in c.completed THEN @ ELSE @ \cup {v},
       !.ranges[v] = {}, !.whole = @ \ {v},
       !.completed = IF v \in saved THEN @ ELSE @ \ {v}]

(* Mutant: the limit is not enforced. *)
MakeNoRoom(c, p) == c

(* ensure_stream_slot_locked.  A victim without a slot frees nothing: the
   loop looks for room again, finds the same victim and never ends. *)
MakeRoom(c, p) == IF NeedsRoom(c, p) THEN Evict(c, Victim(c, p)) ELSE c
Spins(c, p) == NeedsRoom(c, p) /\ ~Busy(c, p) /\ ~Held(c, Victim(c, p))
Evicted(c, p) == IF NeedsRoom(c, p) THEN {Victim(c, p)} \ saved ELSE {}

WithSlot(c, p) ==
    LET r == MakeRoom(c, p)
    IN  Touch(IF Held(r, p) THEN r
              ELSE [r EXCEPT !.slot[p] = [b \in Blocks |-> "zero"], !.bytes = @ + 1], p)

(* DocumentPiece::write_locked for an attached stream *)
Store(c, p, b, data) ==
    LET w == WithSlot(c, p)
        received == w.ranges[p] \cup {b}
    IN  [w EXCEPT !.slot[p][b] = data, !.ranges[p] = received,
                  !.whole = IF received = Blocks /\ p \notin w.lost THEN @ \cup {p}
                                                                   ELSE @ \ {p}]

(* mark_not_complete: nothing is taken back from a completed piece *)
MarkNotComplete(c, p) ==
    IF p \in c.completed THEN c
    ELSE [Drop(c, p) EXCEPT !.lost = @ \ {p}, !.ranges[p] = {}, !.whole = @ \ {p}]

(* read_piece_data_unlocked: what reading all of p returns *)
Readable(c, p) == p \notin c.lost /\ (Held(c, p) \/ p \in saved)
Contents(c, p) ==
    IF Held(c, p) THEN c.slot[p] ELSE [b \in Blocks |-> file[p]]

(* validate_startup_pieces_locked.  The slot of a validated piece goes
   without its bytes being given back and without leaving the order. *)
Validate(c, P) ==
    LET valid == {p \in P : file[p] = "good"}
    IN  [c EXCEPT
           !.slot = [p \in Pieces |-> IF p \in valid THEN NoSlot ELSE @[p]],
           !.ranges = [p \in Pieces |-> IF p \in valid THEN {} ELSE @[p]],
           !.whole = @ \ valid, !.lost = @ \ valid, !.completed = @ \cup valid]
Validated(P) == {p \in P : file[p] = "good"}
Checked(P) == [p \in Pieces |-> IF p \in P /\ file[p] = "bad" THEN "none" ELSE file[p]]

---------------------------------------------------------------------------
(* Attaching and closing *)

Idle == [phase |-> "idle", p |-> NoPiece, b |-> NoPiece, got |-> None]
NoRefresh == [pc |-> "off", p |-> NoPiece, complete |-> FALSE, lost |-> FALSE]
Refreshers == {"callback", "reader"}

Init ==
    /\ mode = "off" /\ cache = NoCache
    /\ startup = {} /\ saved = {} /\ preload = {}
    /\ file \in [Pieces -> {"none", "good", "bad"}]
    /\ session \in Sessions
    /\ \A p \in Pieces : p \in session.onDisk <=> file[p] # "none"
    /\ pending = {} /\ flight = {}
    /\ demand = {}
    /\ have = {} /\ dirty = [p \in Pieces |-> {}] /\ checking = {}
    /\ hash = [p \in Pieces |-> None] /\ landing = {}
    /\ due = {} /\ refresh = [t \in Refreshers |-> NoRefresh]
    /\ reader = Idle /\ served = {} /\ failed = {} /\ news = FALSE
    /\ exposed = [unverified |-> {}, rejected |-> {}]
    /\ sent = [good |-> 0, bad |-> 0]

Attached == mode \in {"stream", "preview"}

(* on_stream_evict is spawned for pieces evicted or verified; handle_configure
   sets it, so a preview has none. *)
Notify(P) == IF mode = "stream" THEN due \cup P ELSE due

Forget == cache' = NoCache /\ saved' = {} /\ demand' = {}

(* attach_direct_play and update_all_piece_completion; a preview is released *)
Attach(plan) ==
    /\ mode \in {"off", "preview"}
    /\ mode' = "stream"
    /\ startup' = plan /\ preload' = preload /\ demand' = {}
    /\ saved' = Validated(plan \cap Quick)
    /\ file' = Checked(plan \cap Quick)
    /\ cache' = [NoCache EXCEPT !.completed = saved']
    /\ have' = saved' /\ dirty' = [p \in Pieces |-> {}] /\ checking' = {}
    /\ UNCHANGED <<pending, flight, hash, landing, due, refresh, readerVars, session, sent>>

AttachPreview(plan) ==
    /\ mode = "off" /\ session.preview
    /\ mode' = "preview"
    /\ startup' = plan /\ preload' = preload /\ Forget
    /\ UNCHANGED <<file, pending, flight, torrentVars, due, refresh, readerVars, session, sent>>

ReleasePreview ==
    /\ mode = "preview"
    /\ mode' = "off"
    /\ startup' = {} /\ preload' = preload /\ Forget
    /\ have' = {} /\ dirty' = [p \in Pieces |-> {}] /\ checking' = {}
    /\ UNCHANGED <<file, pending, flight, hash, landing, due, refresh, readerVars, session, sent>>

(* close waits until no startup piece is being written *)
Close ==
    /\ mode # "closed"
    /\ pending = {} /\ flight = {}
    /\ mode' = "closed"
    /\ cache' = NoCache
    /\ UNCHANGED <<startupVars, demand, torrentVars, due, refresh, readerVars, session, sent>>

---------------------------------------------------------------------------
(* Startup pieces *)

(* save_startup_piece_locked for the pieces of P: a copy of the slot is queued *)
Queued(c, P) ==
    pending \cup {[p |-> p, data |-> c.slot[p]] :
                     p \in {q \in P : /\ q \in startup' /\ q \notin saved' /\ Held(c, q)
                                     /\ ~\E r \in pending \cup flight' : r.p = q}}

(* drain_startup_pieces takes one from the queue and writes it unlocked ... *)
DrainStart ==
    /\ flight = {} /\ pending # {}
    /\ \E r \in pending : flight' = {r} /\ pending' = pending \ {r}
    /\ UNCHANGED <<mode, cache, startup, saved, preload, file, demand, torrentVars,
                   due, refresh, readerVars, session, sent>>

(* ... and commits it, unless the write failed or the plan has changed. *)
DrainCommit(ok) ==
    /\ flight' = {}
    /\ \E r \in flight :
          LET p == r.p
              c == IF cache.slot[p] = r.data THEN cache
                   ELSE [Drop(cache, p) EXCEPT !.ranges[p] = {}, !.whole = @ \ {p}]
          IN  IF ok /\ p \in startup
              THEN /\ file' = [file EXCEPT ![p] = IF Good(r.data) THEN "good" ELSE "bad"]
                   /\ cache' = [c EXCEPT !.lost = @ \ {p}, !.completed = @ \cup {p}]
                   /\ saved' = saved \cup {p}
                   /\ UNCHANGED startup
                   /\ pending' = Queued(cache', cache'.completed)
              ELSE UNCHANGED <<file, cache, saved, startup, pending>>
    /\ UNCHANGED <<mode, preload, demand, torrentVars, due, refresh, readerVars, session, sent>>

(* set_startup_file: another file is played.  Startup pieces it does not share
   are forgotten and deleted, the ones it has on disk are looked at. *)
SetStartupFile(plan) ==
    LET next == plan \cup preload
        gone == startup \ next
        c == [cache EXCEPT !.completed = {p \in @ : p \in gone => Held(cache, p)}]
        missing == {p \in plan : p \notin saved /\ p \notin c.completed}
    IN  /\ mode = "stream" /\ startup # next
        /\ startup' = next /\ preload' = preload
        /\ cache' = Validate(c, missing)
        /\ saved' = (saved \ gone) \cup Validated(missing)
        /\ file' = [p \in Pieces |-> IF p \in gone THEN "none" ELSE Checked(missing)[p]]
        /\ UNCHANGED <<mode, pending, flight, demand, torrentVars, due, refresh,
                       readerVars, session, sent>>

(* set_preload_file: the next episode's pieces join the startup pieces *)
SetPreloadFile(plan) ==
    LET missing == {p \in plan : p \notin saved /\ p \notin cache.completed}
    IN  /\ mode = "stream" /\ preload # plan
        /\ preload' = plan
        /\ startup' = startup \cup plan
        /\ cache' = Validate(cache, missing)
        /\ saved' = saved \cup Validated(missing)
        /\ file' = Checked(missing)
        /\ UNCHANGED <<mode, pending, flight, demand, torrentVars, due, refresh,
                       readerVars, session, sent>>

(* inject_verified_bytes: the verified pieces of a resume window are installed *)
Inject(p) ==
    /\ mode = "stream"
    /\ ~(p \in cache.completed /\ Held(cache, p))
    /\ ~Busy(cache, p) /\ ~Spins(cache, p)
    /\ LET c == WithSlot(cache, p)
       IN  cache' = [c EXCEPT !.slot[p] = [b \in Blocks |-> "good"], !.lost = @ \ {p},
                              !.ranges[p] = Blocks, !.whole = @ \cup {p},
                              !.completed = @ \cup {p}]
    /\ due' = Notify(Evicted(cache, p) \cup {p})
    /\ UNCHANGED <<mode, startupVars, demand, torrentVars, refresh, readerVars, session, sent>>

---------------------------------------------------------------------------
(* Blocks from peers, and the verdict on a piece *)

(* A block is stored; an I/O lock may be released before its bit is set.  Data
   for a completed piece is dropped; a busy cache fails the write. *)
Arrive(p, b, data) ==
    /\ Attached /\ landing = {}
    /\ p \notin have /\ p \notin checking /\ b \notin dirty[p]
    /\ sent.good + sent.bad < session.maxSent /\ (data = "bad" => sent.bad < session.maxBad)
    /\ sent' = [sent EXCEPT ![data] = @ + 1]
    /\ landing' = {<<p, b>>}
    /\ IF p \in cache.completed THEN UNCHANGED <<cache, due>>
       ELSE /\ ~Busy(cache, p) /\ ~Spins(cache, p)
            /\ cache' = Store(cache, p, b, data)
            /\ due' = Notify(Evicted(cache, p))
    /\ UNCHANGED <<mode, startupVars, demand, have, dirty, checking, hash, refresh,
                   readerVars, session>>

(* finish_chunk_write; the last block of a piece queues its hash *)
Land(p, b) ==
    /\ <<p, b>> \in landing
    /\ landing' = {}
    /\ dirty' = [dirty EXCEPT ![p] = @ \cup {b}]
    /\ checking' = IF dirty'[p] = Blocks /\ p \notin have THEN checking \cup {p} ELSE checking
    /\ UNCHANGED <<mode, cache, startupVars, demand, have, hash, due, refresh,
                   readerVars, session, sent>>

Hash(p) ==
    /\ p \in checking /\ hash[p] = None
    /\ hash' = [hash EXCEPT ![p] =
                   IF Readable(cache, p) /\ Good(Contents(cache, p)) THEN "correct" ELSE "wrong"]
    /\ UNCHANGED <<mode, cache, startupVars, demand, have, dirty, checking, landing,
                   due, refresh, readerVars, session, sent>>

(* apply_hash_result, storage first: mark_complete or mark_not_complete *)
ApplyToStorage(p) ==
    LET valid == /\ hash[p] = "correct" /\ Attached
                 /\ p \notin cache.lost /\ (p \in cache.whole \/ p \in saved)
    IN  /\ hash[p] \in {"correct", "wrong"}
        /\ hash' = [hash EXCEPT ![p] = IF valid THEN "valid" ELSE "invalid"]
        /\ cache' = IF valid THEN [cache EXCEPT !.completed = @ \cup {p}]
                    ELSE IF Attached THEN MarkNotComplete(cache, p) ELSE cache
        /\ failed' = IF valid THEN failed \ {p} ELSE failed \cup {p}
        /\ news' = (news \/ ~valid)
        /\ exposed' = IF valid THEN exposed
                      ELSE [unverified |-> exposed.unverified \ {p},
                            rejected |-> exposed.rejected \cup (exposed.unverified \cap {p})]
        /\ UNCHANGED <<startup, saved, flight>>
        /\ pending' = IF valid THEN Queued(cache', {p}) ELSE pending
        /\ due' = IF valid THEN Notify({p}) ELSE due
        /\ UNCHANGED <<mode, preload, file, demand, have, dirty, checking, landing,
                       refresh, reader, served, session, sent>>

(* ... then the torrent's piece, and the bits of a bad one *)
ApplyToTorrent(p) ==
    /\ hash[p] \in {"valid", "invalid"}
    /\ hash' = [hash EXCEPT ![p] = None]
    /\ checking' = checking \ {p}
    /\ have' = IF hash[p] = "valid" THEN have \cup {p} ELSE have \ {p}
    /\ dirty' = IF hash[p] = "valid" THEN dirty ELSE [dirty EXCEPT ![p] = {}]
    /\ UNCHANGED <<mode, cache, startupVars, demand, landing, due, refresh, readerVars, session, sent>>

---------------------------------------------------------------------------
(* refresh_piece_completion, run by on_stream_evict and by the reader *)

Snapshot(p) == [pc |-> "probe", p |-> p, complete |-> p \in cache.completed, lost |-> FALSE]

RefreshStart(t, p) ==
    /\ refresh[t].pc = "off"
    /\ IF t = "callback" THEN p \in due ELSE reader.phase = "waiting" /\ reader.p = p
    /\ due' = IF t = "callback" THEN due \ {p} ELSE due
    /\ refresh' = [refresh EXCEPT ![t] = Snapshot(p)]
    /\ UNCHANGED <<mode, cache, startupVars, demand, torrentVars, readerVars, session, sent>>

(* Is there local data that can no longer be read? *)
RefreshProbe(t) ==
    LET r == refresh[t]
        gone == /\ ~r.complete /\ (r.p \in have \/ dirty[r.p] # {})
                /\ ~Readable(cache, r.p)
    IN  /\ r.pc = "probe"
        /\ refresh' = [refresh EXCEPT ![t].lost = gone,
                                      ![t].pc = IF gone THEN "reset" ELSE "write"]
        /\ UNCHANGED <<mode, cache, startupVars, demand, torrentVars, due, readerVars, session, sent>>

RefreshReset(t) ==
    /\ refresh[t].pc = "reset"
    /\ refresh' = [refresh EXCEPT ![t].pc = "write"]
    /\ cache' = IF Attached THEN MarkNotComplete(cache, refresh[t].p) ELSE cache
    /\ UNCHANGED <<mode, startupVars, demand, torrentVars, due, readerVars, session, sent>>

(* Mutant: the bits of the dropped blocks are kept. *)
RefreshWriteKeepBits(t) ==
    LET r == refresh[t]
        evicted == (r.p \in have /\ ~r.complete) \/ r.lost
    IN  /\ r.pc = "write"
        /\ refresh' = [refresh EXCEPT ![t] = NoRefresh]
        /\ have' = IF r.complete THEN have \cup {r.p} ELSE have \ {r.p}
        /\ checking' = IF evicted THEN checking \ {r.p} ELSE checking
        /\ UNCHANGED <<mode, cache, startupVars, demand, dirty, hash, landing, due,
                       readerVars, session, sent>>

RefreshWrite(t) ==
    LET r == refresh[t]
        evicted == (r.p \in have /\ ~r.complete) \/ r.lost
    IN  /\ r.pc = "write"
        /\ refresh' = [refresh EXCEPT ![t] = NoRefresh]
        /\ have' = IF r.complete THEN have \cup {r.p} ELSE have \ {r.p}
        /\ checking' = IF evicted THEN checking \ {r.p} ELSE checking
        /\ dirty' = IF evicted THEN [dirty EXCEPT ![r.p] = {}] ELSE dirty
        /\ UNCHANGED <<mode, cache, startupVars, demand, hash, landing, due, readerVars, session, sent>>

---------------------------------------------------------------------------
(* The player's reader *)

(* check_served_pieces: a piece the player was given unverified was rejected *)
Rejected == news /\ served \cap failed # {}

ReadFails ==
    /\ reader.phase = "idle" /\ Rejected
    /\ reader' = [Idle EXCEPT !.phase = "ended"]
    /\ news' = FALSE /\ served' = served \ failed
    /\ UNCHANGED <<mode, cache, startupVars, demand, torrentVars, due, refresh, failed,
                   exposed, session, sent>>

(* A read publishes its demand and looks at its piece before it waits. *)
ReadStart(p, b) ==
    /\ mode = "stream" /\ reader.phase = "idle" /\ ~Rejected
    /\ reader' = [phase |-> "waiting", p |-> p, b |-> b, got |-> None]
    /\ refresh' = [refresh EXCEPT !["reader"] = Snapshot(p)]
    /\ news' = FALSE
    /\ demand' = {p}
    /\ UNCHANGED <<mode, cache, startupVars, torrentVars, due, served, failed, exposed,
                   session, sent>>

(* Mutant: any part of a slot is read. *)
MayReadAny(c, p, b) == p \notin c.lost /\ (Held(c, p) \/ p \in saved)

(* read_verified_stream and read_received_locked: a verified piece, or a received
   block of another *)
MayRead(c, p, b) ==
    IF p \in c.completed THEN Readable(c, p)
    ELSE p \notin c.lost /\ Held(c, p) /\ b \in c.ranges[p]

ReadBytes ==
    LET p == reader.p
        data == Contents(cache, p)[reader.b]
    IN  /\ Attached /\ reader.phase = "waiting" /\ refresh["reader"].pc = "off"
        /\ MayRead(cache, p, reader.b)
        /\ reader' = [reader EXCEPT !.phase = "noting", !.got = data]
        /\ cache' = Touch(cache, p)
        /\ exposed' = IF data = "bad" THEN [exposed EXCEPT !.unverified = @ \cup {p}]
                                      ELSE exposed
        /\ UNCHANGED <<mode, startupVars, demand, torrentVars, due, refresh, served,
                       failed, news, session, sent>>

(* Mutant: only pieces the torrent already has are remembered. *)
NoteServedComplete ==
    /\ reader.phase = "noting"
    /\ served' = IF reader.p \in have THEN served \cup {reader.p} ELSE served
    /\ reader' = Idle
    /\ UNCHANGED <<mode, cache, startupVars, demand, torrentVars, due, refresh, failed,
                   news, exposed, session, sent>>

(* note_served *)
NoteServed ==
    /\ reader.phase = "noting"
    /\ served' = IF reader.p \in have THEN served ELSE served \cup {reader.p}
    /\ reader' = Idle
    /\ UNCHANGED <<mode, cache, startupVars, demand, torrentVars, due, refresh, failed,
                   news, exposed, session, sent>>

(* The player opens the stream again and reads everything it needs afresh. *)
Reopen ==
    /\ mode = "stream" /\ reader.phase = "ended"
    /\ reader' = Idle /\ served' = {} /\ news' = FALSE
    /\ exposed' = [unverified |-> {}, rejected |-> {}]
    /\ UNCHANGED <<mode, cache, startupVars, demand, torrentVars, due, refresh, failed, session, sent>>

(* The read is cancelled, times out, or the storage is closed. *)
ReadGivesUp ==
    /\ reader.phase = "waiting" /\ refresh["reader"].pc = "off"
    /\ reader' = Idle /\ demand' = {}
    /\ UNCHANGED <<mode, cache, startupVars, torrentVars, due, refresh, served, failed,
                   news, exposed, session, sent>>

---------------------------------------------------------------------------
Next ==
    \/ \E plan \in session.plans : Attach(plan)
    \/ \E plan \in session.plans : AttachPreview(plan)
    \/ \E plan \in session.plans : SetStartupFile(plan)
    \/ \E plan \in session.plans : SetPreloadFile(plan)
    \/ ReleasePreview \/ Close
    \/ DrainStart \/ \E ok \in BOOLEAN : DrainCommit(ok)
    \/ \E p \in session.window : Inject(p)
    \/ \E p \in Pieces, b \in Blocks, data \in {"good", "bad"} : Arrive(p, b, data)
    \/ \E p \in Pieces, b \in Blocks : Land(p, b)
    \/ \E p \in Pieces : Hash(p)
    \/ \E p \in Pieces : ApplyToStorage(p)
    \/ \E p \in Pieces : ApplyToTorrent(p)
    \/ \E t \in Refreshers, p \in Pieces : RefreshStart(t, p)
    \/ \E t \in Refreshers : RefreshProbe(t)
    \/ \E t \in Refreshers : RefreshReset(t)
    \/ \E t \in Refreshers : RefreshWrite(t)
    \/ \E w \in session.wants : ReadStart(w[1], w[2])
    \/ ReadFails \/ ReadBytes \/ NoteServed \/ ReadGivesUp \/ Reopen

Spec == Init /\ [][Next]_vars

(* A waiting read looks at its piece again every 250 ms. *)
ReaderRefreshes ==
    \/ \E p \in Pieces : RefreshStart("reader", p)
    \/ RefreshProbe("reader") \/ RefreshReset("reader") \/ RefreshWrite("reader")

Fairness == WF_vars(ReaderRefreshes)

FairSpec == Spec /\ Fairness

---------------------------------------------------------------------------
(* Properties *)

Slots == UNION {[B -> {"good", "bad", "zero"}] : B \in {{}, Blocks}}
Copies == [p : Pieces, data : Slots]

(* Every variable keeps its type, and the cache never holds more than its
   limit: ensure_stream_slot_locked makes room before a slot is added. *)
TypeOK ==
    /\ mode \in {"off", "preview", "stream", "closed"}
    /\ cache.slot \in [Pieces -> Slots] /\ cache.bytes \in 0..Limit
    /\ \A i, j \in DOMAIN cache.order : cache.order[i] = cache.order[j] => i = j
    /\ cache.ranges \in [Pieces -> SUBSET Blocks]
    /\ {cache.whole, cache.lost, cache.completed} \subseteq SUBSET Pieces
    /\ {startup, saved, preload, demand, have, checking, due, served, failed}
          \subseteq SUBSET Pieces
    /\ file \in [Pieces -> {"none", "good", "bad"}]
    /\ pending \cup flight \subseteq Copies /\ Cardinality(flight) <= 1
    /\ dirty \in [Pieces -> SUBSET Blocks]
    /\ hash \in [Pieces -> {None, "correct", "wrong", "valid", "invalid"}]
    /\ landing \subseteq Pieces \X Blocks /\ Cardinality(landing) <= 1
    /\ reader.phase \in {"idle", "waiting", "noting", "ended"}
    /\ exposed \in [unverified : SUBSET Pieces, rejected : SUBSET Pieces]
    /\ sent.good + sent.bad <= session.maxSent /\ sent.bad <= session.maxBad

(* A piece the storage calls complete can be read in full, and every byte of
   it came from a peer, a saved file or a verified window: whatever eviction,
   startup saving, a change of file or a late hash verdict did in between. *)
CompleteIsWhole ==
    \A p \in cache.completed :
        Readable(cache, p) /\ \A b \in Blocks : Contents(cache, p)[b] \in {"good", "bad"}

(* Only verified data is saved: a startup file that counts as saved holds the
   torrent's bytes. *)
SavedIsVerified == \A p \in saved : file[p] = "good"

(* The player is never given bytes nobody sent: a slot starts as zeroes and only
   received ranges of it may be read before the piece is verified. *)
NothingFabricated == reader.got # "zero"

(* "Bytes currently held in the piece RAM cache": the counter that decides
   whether there is room agrees with the slots. *)
BytesAreHeld == cache.bytes = Cardinality({p \in Pieces : Held(cache, p)})

(* No further read begins while the player holds corrupt bytes of a piece whose
   last verdict is a failure: check_served_pieces ends the stream first. *)
RejectedEndsStream ==
    [][reader.phase = "idle" /\ reader'.phase = "waiting"
          => exposed.rejected \cap failed = {}]_vars

(* Blocks the torrent counts but the storage has dropped do not keep a waiting
   read waiting: they are given up, so that they can be requested again. *)
Unrequestable(p) ==
    /\ mode = "stream" /\ reader.phase = "waiting" /\ reader.p = p
    /\ ~Readable(cache, p) /\ (p \in have \/ dirty[p] # {})
EvictedIsFetchedAgain == \A p \in Pieces : Unrequestable(p) ~> ~Unrequestable(p)
===========================================================================
