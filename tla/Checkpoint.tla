----------------------------- MODULE Checkpoint -----------------------------
(***************************************************************************)
(* Durability of saved downloads in wt-storage: which pieces a restarted   *)
(* engine may trust without hashing them.  Completed pieces wait for an    *)
(* fsync of their files; a drain (a timer thread, the end of a restore     *)
(* verification, or close) snapshots the completion bits, syncs, and       *)
(* publishes a checkpoint by rename.  The process may be killed and the    *)
(* device may lose power between any two steps.                            *)
(*                                                                         *)
(* A destination of file f is a number: 0 at first, then one per           *)
(* reselection (Android creates a new document for each).  Verified bytes  *)
(* are triples <<f, destination, piece>>; a piece spans one file or more.  *)
(***************************************************************************)
EXTENDS Naturals, FiniteSets

CONSTANTS
    Pieces, Files,
    Span,            \* Span[p]: the files piece p has bytes in
    MaxSelections,   \* bound: reselections
    MaxRejects,      \* bound: pieces found incomplete (mark_not_complete)
    MaxFailures,     \* bound: failed fsyncs and checkpoint writes
    MaxCrashes,      \* bound: process kills and power losses
    MaxOpens,        \* bound: times the storage is attached
    MaxVerifies,     \* bound: restore verifications that run to the end
    MaxDeletes       \* bound: delete_checkpoint calls

ASSUME CheckpointAssumption ==
    /\ Span \in [Pieces -> SUBSET Files]
    /\ MaxSelections \in Nat /\ MaxRejects \in Nat /\ MaxFailures \in Nat
    /\ MaxCrashes \in Nat /\ MaxOpens \in Nat /\ MaxVerifies \in Nat
    /\ MaxDeletes \in Nat

VARIABLES
    cache,      \* verified bytes the page cache returns
    dur,        \* the part of them that survives a power loss
    node,       \* node[f]: the destination open for f
    cp,         \* the checkpoint file as a reader sees it
    past,       \* what it may be after a power loss: the rename is never synced
    open,       \* attached and not closed
    completed, pending, dirty, seq, gen, filesGen, flushing, scheduled, frozen,
    verify,     \* "none" or "checking": check_saved_data runs
    deleting,   \* delete_checkpoint has bumped the generation, the file is not removed yet
    deleted,    \* the file was removed and nothing newer than the deletion was snapshot
    drain,      \* the one drain_sync_and_checkpoint_with in progress
    used        \* how much of each bound is spent

diskVars  == <<cache, dur, node>>
fileVars  == <<cp, past>>
bitVars   == <<completed, pending, dirty, seq>>
timerVars == <<flushing, scheduled>>
lifeVars  == <<open, gen, filesGen, frozen, verify, deleting, deleted>>
vars == <<diskVars, fileVars, bitVars, timerVars, lifeVars, drain, used>>

Nodes == 0..MaxSelections
Idents == [Files -> Nodes]

NoCp == [bits |-> {}, ids |-> [f \in Files |-> 0], there |-> FALSE]
NoDrain == [at |-> "idle", by |-> "timer", has |-> FALSE, snap |-> {},
            ids |-> [f \in Files |-> 0], syncs |-> {}, failed |-> {},
            gen |-> 0, seq |-> 0, fgen |-> 0, ok |-> TRUE]

\* The bytes of p in the destinations ids.
Bytes(p, ids) == {<<f, ids[f], p>> : f \in Span[p]}
OfFiles(p) == Span[p]
Of(p) == {<<f, node[f]>> : f \in Span[p]}
Overlapping(F) == {p \in Pieces : Span[p] \cap F # {}}

Spend(what) == used' = [used EXCEPT ![what] = @ + 1]
MayFail == used.failure < MaxFailures

----------------------------------------------------------------------------
Init ==
    /\ cache = {} /\ dur = {}
    /\ node = [f \in Files |-> 0]
    /\ cp = NoCp /\ past = {NoCp}
    /\ open = FALSE
    /\ completed = {} /\ pending = {} /\ dirty = FALSE /\ seq = 0
    /\ gen = 0 /\ filesGen = 0
    /\ flushing = FALSE /\ scheduled = FALSE /\ frozen = FALSE
    /\ verify = "none" /\ deleting = FALSE /\ deleted = FALSE
    /\ drain = NoDrain
    /\ used = [select |-> 0, reject |-> 0, failure |-> 0, crash |-> 0, open |-> 0,
               verify |-> 0, delete |-> 0]

----------------------------------------------------------------------------
(* Attaching: load_checkpoint_locked trusts a bit when every file the      *)
(* piece overlaps has the identity the checkpoint recorded.                *)

LoadedAnyFile(ids) == {p \in cp.bits : \E f \in Span[p] : cp.ids[f] = ids[f]}
Loaded(ids) == {p \in cp.bits : \A f \in Span[p] : cp.ids[f] = ids[f]}

\* The app may come back with any destination a file was given before.
Attach(ids, checks) ==
    /\ ~open /\ used.open < MaxOpens /\ Spend("open")
    /\ \A f \in Files : ids[f] <= used.select
    /\ checks => used.verify < MaxVerifies
    /\ open' = TRUE /\ node' = ids
    /\ completed' = Loaded(ids)
    /\ dirty' = cp.there
    /\ frozen' = (cp.there /\ checks)
    /\ verify' = IF checks THEN "checking" ELSE "none"
    /\ pending' = {} /\ seq' = 0 /\ gen' = 0 /\ filesGen' = 1
    /\ flushing' = FALSE /\ scheduled' = FALSE
    /\ UNCHANGED <<cache, dur, fileVars, deleting, deleted, drain>>

----------------------------------------------------------------------------
(* Completing pieces.                                                      *)

\* schedule_checkpoint_flush_locked, with the dirty flag and pending syncs as set.
Schedule(isDirty, syncs) ==
    scheduled' = (scheduled \/ (open /\ ~flushing /\ (isDirty \/ syncs # {})))

\* A flush puts the verified bytes of p into the page cache (see WriteBack).
Save(p) ==
    /\ open
    /\ cache' = cache \cup Bytes(p, node)
    /\ UNCHANGED <<dur, node, fileVars, bitVars, timerVars, lifeVars, drain, used>>

\* mark_complete: the hash matched and the flush succeeded, so the bytes are in place.
MarkCompleteUnsynced(p) ==
    /\ open /\ p \notin completed
    /\ Bytes(p, node) \subseteq cache
    /\ completed' = completed \cup {p}
    /\ dirty' = TRUE /\ seq' = seq + 1
    /\ Schedule(TRUE, pending)
    /\ UNCHANGED <<diskVars, fileVars, pending, flushing, lifeVars, drain, used>>
MarkComplete(p) ==
    /\ open /\ p \notin completed
    /\ Bytes(p, node) \subseteq cache
    /\ completed' = completed \cup {p}
    /\ pending' = pending \cup Of(p)
    /\ dirty' = TRUE /\ seq' = seq + 1
    /\ Schedule(TRUE, pending')
    /\ UNCHANGED <<diskVars, fileVars, flushing, lifeVars, drain, used>>

\* mark_not_complete of a piece that was not trusted (else it returns at once).
MarkNotComplete(p) ==
    /\ open /\ ~frozen /\ p \notin completed
    /\ used.reject < MaxRejects /\ Spend("reject")
    /\ dirty' = TRUE /\ seq' = seq + 1
    /\ Schedule(TRUE, pending)
    /\ UNCHANGED <<diskVars, fileVars, completed, pending, flushing, lifeVars, drain>>

\* The completed pieces' bytes of the files in F, copied to the destination n.
Copied(F, n) == {t \in F \X {n} \X completed : t[1] \in Span[t[3]]}

\* update_selection, once no drain runs: the files in F get a fresh destination,
\* rebuilt from completed pieces, whose bits are cleared.
UpdateSelectionKeepingBits(F) ==
    /\ open /\ ~flushing
    /\ used.select < MaxSelections /\ Spend("select")
    /\ LET n == used.select + 1 IN
       /\ node' = [f \in Files |-> IF f \in F THEN n ELSE node[f]]
       /\ cache' = cache \cup Copied(F, n)
    /\ completed' = completed
    /\ filesGen' = IF F = {} THEN filesGen ELSE filesGen + 1
    /\ dirty' = TRUE /\ seq' = seq + 1
    /\ Schedule(TRUE, pending)
    /\ UNCHANGED <<dur, fileVars, pending, flushing, open, gen, frozen, verify, deleting,
                   deleted, drain>>
UpdateSelection(F) ==
    /\ open /\ ~flushing
    /\ used.select < MaxSelections /\ Spend("select")
    /\ LET n == used.select + 1 IN
       /\ node' = [f \in Files |-> IF f \in F THEN n ELSE node[f]]
       /\ cache' = cache \cup Copied(F, n)
    /\ completed' = completed \ Overlapping(F)
    /\ filesGen' = IF F = {} THEN filesGen ELSE filesGen + 1
    /\ dirty' = TRUE /\ seq' = seq + 1
    /\ Schedule(TRUE, pending)
    /\ UNCHANGED <<dur, fileVars, pending, flushing, open, gen, frozen, verify, deleting,
                   deleted, drain>>

----------------------------------------------------------------------------
(* A drain: started by the timer, by mark_verified or by close; each sets  *)
(* checkpoint_flushing first, so there is one at a time.                   *)

Begin(by) ==
    /\ flushing' = TRUE
    /\ drain' = [NoDrain EXCEPT !.at = "snap", !.by = by]

\* run_scheduled_checkpoint_flush after its sleep.
TimerFires ==
    /\ scheduled /\ scheduled' = FALSE
    /\ IF open /\ ~flushing /\ (dirty \/ pending # {})
       THEN Begin("timer")
       ELSE UNCHANGED <<flushing, drain>>
    /\ UNCHANGED <<diskVars, fileVars, bitVars, lifeVars, used>>

MarkVerified ==
    /\ open /\ ~flushing /\ verify = "checking"
    /\ used.verify < MaxVerifies
    /\ dirty' = TRUE /\ seq' = seq + 1
    /\ Begin("verify") /\ Spend("verify")
    /\ UNCHANGED <<diskVars, fileVars, completed, pending, scheduled, lifeVars>>

\* check_saved_data was cancelled.
CancelVerify ==
    /\ open /\ verify = "checking" /\ drain.by # "verify"
    /\ verify' = "none" /\ frozen' = FALSE
    /\ UNCHANGED <<diskVars, fileVars, bitVars, timerVars, open, gen, filesGen, deleting,
                   deleted, drain, used>>

Close ==
    /\ open /\ ~flushing
    /\ dirty' = TRUE /\ seq' = seq + 1
    /\ Begin("close")
    /\ UNCHANGED <<diskVars, fileVars, completed, pending, scheduled, lifeVars, used>>

\* Phase 1: the completion bits, then the pending syncs, of one critical section.
\* Descriptors no longer open are dropped.
DrainSnapshot ==
    /\ drain.at = "snap"
    /\ \/ /\ drain' = [drain EXCEPT !.at = "sync", !.has = dirty, !.snap = completed,
                          !.ids = node, !.gen = gen, !.seq = seq, !.fgen = filesGen,
                          !.syncs = {s \in pending : s[2] = node[s[1]]}]
          /\ pending' = {}
          /\ deleted' = FALSE
          /\ UNCHANGED used
       \/ /\ dirty /\ MayFail /\ Spend("failure")   \* FileIdentitySnapshot::new
          /\ drain' = [drain EXCEPT !.at = "ret", !.ok = FALSE]
          /\ UNCHANGED <<pending, deleted>>
    /\ UNCHANGED <<diskVars, fileVars, completed, dirty, seq, timerVars, open, gen, filesGen,
                   frozen, verify, deleting>>

\* Phase 2: one fsync, unlocked.
DrainSync(s) ==
    /\ drain.at = "sync" /\ s \in drain.syncs
    /\ \/ /\ dur' = dur \cup {t \in cache : t[1] = s[1] /\ t[2] = s[2]}
          /\ drain' = [drain EXCEPT !.syncs = @ \ {s}]
          /\ UNCHANGED used
       \/ /\ MayFail /\ Spend("failure")
          /\ drain' = [drain EXCEPT !.syncs = @ \ {s}, !.failed = @ \cup {s}]
          /\ UNCHANGED dur
    /\ UNCHANGED <<cache, node, fileVars, bitVars, timerVars, lifeVars>>

\* After the syncs: a failure queues its file again, and nothing is published.
DrainSyncedForgetting ==
    /\ drain.at = "sync" /\ drain.syncs = {}
    /\ drain' = [drain EXCEPT !.at = IF drain.has THEN "check" ELSE "ret",
                              !.failed = {}]
    /\ UNCHANGED <<diskVars, fileVars, bitVars, timerVars, lifeVars, used>>
DrainSynced ==
    /\ drain.at = "sync" /\ drain.syncs = {}
    /\ IF drain.failed # {}
       THEN /\ pending' = pending \cup drain.failed
            /\ drain' = [drain EXCEPT !.at = "ret", !.failed = {}, !.ok = FALSE]
       ELSE /\ drain' = [drain EXCEPT !.at = IF drain.has THEN "check" ELSE "ret"]
            /\ UNCHANGED pending
    /\ UNCHANGED <<diskVars, fileVars, completed, dirty, seq, timerVars, lifeVars, used>>

\* Phase 3: the generations must still be the snapshot's.
DrainCheck ==
    /\ drain.at = "check"
    /\ drain' = [drain EXCEPT !.at = IF gen # drain.gen \/ filesGen # drain.fgen
                                     THEN "ret" ELSE "write",
                              !.ok = gen # drain.gen \/ filesGen = drain.fgen]
    /\ UNCHANGED <<diskVars, fileVars, bitVars, timerVars, lifeVars, used>>

\* Phase 4, unlocked: write_piece_checkpoint renames a synced temporary file.
DrainWrite ==
    /\ drain.at = "write"
    /\ \/ /\ cp' = [bits |-> drain.snap, ids |-> drain.ids, there |-> TRUE]
          /\ past' = past \cup {cp'}
          /\ drain' = [drain EXCEPT !.at = "final"]
          /\ UNCHANGED used
       \/ /\ MayFail /\ Spend("failure")
          /\ drain' = [drain EXCEPT !.at = "final", !.ok = FALSE]
          /\ UNCHANGED fileVars
    /\ UNCHANGED <<diskVars, bitVars, timerVars, lifeVars>>

\* Phase 5: a publish that raced a deletion is undone; the dirty flag is cleared
\* only when no bit changed since the snapshot.
DrainFinalAlwaysClean ==
    /\ drain.at = "final"
    /\ IF gen # drain.gen \/ filesGen # drain.fgen
       THEN /\ cp' = NoCp /\ past' = past \cup {NoCp}
            /\ drain' = [drain EXCEPT !.at = "ret", !.ok = TRUE]
            /\ UNCHANGED dirty
       ELSE /\ dirty' = (dirty /\ ~drain.ok)
            /\ drain' = [drain EXCEPT !.at = "ret"]
            /\ UNCHANGED fileVars
    /\ UNCHANGED <<diskVars, completed, pending, seq, timerVars, lifeVars, used>>
DrainFinalNoUndo ==
    /\ drain.at = "final"
    /\ dirty' = (dirty /\ (~drain.ok \/ seq # drain.seq))
    /\ drain' = [drain EXCEPT !.at = "ret"]
    /\ UNCHANGED <<diskVars, fileVars, completed, pending, seq, timerVars, lifeVars, used>>
DrainFinal ==
    /\ drain.at = "final"
    /\ IF gen # drain.gen \/ filesGen # drain.fgen
       THEN /\ cp' = NoCp /\ past' = past \cup {NoCp}
            /\ drain' = [drain EXCEPT !.at = "ret", !.ok = TRUE]
            /\ UNCHANGED dirty
       ELSE /\ dirty' = (dirty /\ (~drain.ok \/ seq # drain.seq))
            /\ drain' = [drain EXCEPT !.at = "ret"]
            /\ UNCHANGED fileVars
    /\ UNCHANGED <<diskVars, completed, pending, seq, timerVars, lifeVars, used>>

\* The timer thread takes the mutex again and schedules what is left.
TimerReturnsQuietly ==
    /\ drain.at = "ret" /\ drain.by = "timer"
    /\ flushing' = FALSE /\ drain' = NoDrain
    /\ UNCHANGED <<diskVars, fileVars, bitVars, scheduled, lifeVars, used>>
TimerReturns ==
    /\ drain.at = "ret" /\ drain.by = "timer"
    /\ flushing' = FALSE /\ drain' = NoDrain
    /\ scheduled' = (scheduled \/ dirty \/ pending # {})
    /\ UNCHANGED <<diskVars, fileVars, bitVars, lifeVars, used>>

\* drain_now for mark_verified: its result is not looked at.
VerifyReturns ==
    /\ drain.at = "ret" /\ drain.by = "verify"
    /\ flushing' = FALSE /\ drain' = NoDrain
    /\ verify' = "none" /\ frozen' = FALSE
    /\ UNCHANGED <<diskVars, fileVars, bitVars, scheduled, open, gen, filesGen, deleting,
                   deleted, used>>

\* The storage object is gone with all it had in memory.
Dropped ==
    /\ open' = FALSE
    /\ completed' = {} /\ pending' = {} /\ dirty' = FALSE /\ seq' = 0
    /\ gen' = 0 /\ filesGen' = 0
    /\ flushing' = FALSE /\ scheduled' = FALSE /\ frozen' = FALSE
    /\ verify' = "none"
    /\ drain' = NoDrain
    /\ UNCHANGED node

\* drain_now for close, which goes on to clear everything.
CloseReturns ==
    /\ drain.at = "ret" /\ drain.by = "close"
    /\ Dropped
    /\ UNCHANGED <<cache, dur, fileVars, deleting, deleted, used>>

----------------------------------------------------------------------------
(* delete_checkpoint, kill and power loss.                                 *)

DeleteCheckpoint ==
    /\ open /\ ~deleting
    /\ used.delete < MaxDeletes /\ Spend("delete")
    /\ dirty' = FALSE /\ gen' = gen + 1
    /\ deleting' = TRUE
    /\ UNCHANGED <<diskVars, fileVars, completed, pending, seq, timerVars, open, filesGen,
                   frozen, verify, deleted, drain>>

\* delete_piece_checkpoint, with the mutex released.
DeleteFile ==
    /\ deleting /\ deleting' = FALSE
    /\ cp' = NoCp /\ past' = past \cup {NoCp}
    /\ deleted' = (drain.at \in {"idle", "snap"} \/ drain.gen # gen)
    /\ UNCHANGED <<diskVars, bitVars, timerVars, open, gen, filesGen, frozen, verify, drain,
                   used>>

Kill ==
    /\ open /\ used.crash < MaxCrashes /\ Spend("crash")
    /\ Dropped /\ deleting' = FALSE /\ deleted' = FALSE
    /\ UNCHANGED <<cache, dur, fileVars>>

\* Bytes not synced survive or not, and so does the last rename or removal.
PowerLoss ==
    /\ used.crash < MaxCrashes /\ Spend("crash")
    /\ Dropped /\ deleting' = FALSE /\ deleted' = FALSE
    /\ \E S \in SUBSET (cache \ dur) : cache' = dur \cup S /\ dur' = dur \cup S
    /\ \E c \in past : cp' = c /\ past' = {c}

----------------------------------------------------------------------------
DrainStep ==
    \/ DrainSnapshot
    \/ \E s \in Files \X Nodes : DrainSync(s)
    \/ DrainSynced \/ DrainCheck \/ DrainWrite \/ DrainFinal
    \/ TimerReturns \/ VerifyReturns \/ CloseReturns

Next ==
    \/ \E ids \in Idents, checks \in BOOLEAN : Attach(ids, checks)
    \/ \E p \in Pieces : Save(p) \/ MarkComplete(p) \/ MarkNotComplete(p)
    \/ \E F \in SUBSET Files : UpdateSelection(F)
    \/ TimerFires \/ MarkVerified \/ CancelVerify \/ Close
    \/ DrainStep
    \/ DeleteCheckpoint \/ DeleteFile
    \/ Kill \/ PowerLoss

Spec == Init /\ [][Next]_vars

\* The timer thread's sleep ends, and a drain's thread is scheduled; nothing else
\* is certain to happen.
Fairness == WF_vars(TimerFires) /\ WF_vars(DrainStep)

----------------------------------------------------------------------------
(* Properties.                                                             *)

CpType == [bits : SUBSET Pieces, ids : Idents, there : BOOLEAN]

DrainStages == {"idle", "snap", "sync", "check", "write", "final", "ret"}
DrainRec == [at : DrainStages,
             by : {"timer", "verify", "close"}, has : BOOLEAN,
             snap : SUBSET Pieces, ids : Idents,
             syncs : SUBSET (Files \X Nodes), failed : SUBSET (Files \X Nodes),
             gen : Nat, seq : Nat, fgen : Nat, ok : BOOLEAN]
UsedRec == [select : 0..MaxSelections, reject : 0..MaxRejects,
            failure : 0..MaxFailures, crash : 0..MaxCrashes, open : 0..MaxOpens,
            verify : 0..MaxVerifies, delete : 0..MaxDeletes]

DiskOK == cache \subseteq Files \X Nodes \X Pieces /\ dur \subseteq cache /\ node \in Idents
FileOK == cp \in CpType /\ past \subseteq CpType
BitsOK == completed \subseteq Pieces /\ pending \subseteq Files \X Nodes
CountsOK == seq \in Nat /\ gen \in Nat /\ filesGen \in Nat
FlagsOK ==
    /\ open \in BOOLEAN /\ dirty \in BOOLEAN
    /\ flushing \in BOOLEAN /\ scheduled \in BOOLEAN /\ frozen \in BOOLEAN
    /\ deleting \in BOOLEAN /\ deleted \in BOOLEAN
    /\ verify \in {"none", "checking"}

\* Every variable has its type.
TypeOK ==
    /\ DiskOK /\ FileOK /\ BitsOK /\ CountsOK /\ FlagsOK
    /\ drain \in DrainRec /\ used \in UsedRec

Durable(c) == \A p \in c.bits : Bytes(p, c.ids) \subseteq dur

\* The inductive strengthening of the two invariants below.  Bytes of a completed piece
\* are on the device, or their file waits for a sync, in the queue or in the drain.
InDrain == drain.syncs \cup drain.failed
CompletedIsQueued ==
    \A p \in completed : \A f \in Span[p] :
        /\ <<f, node[f], p>> \in cache
        /\ <<f, node[f], p>> \in dur \/ <<f, node[f]>> \in pending \cup InDrain

\* The bits a drain took are on the device or wait in this very drain.
SnapshotIsQueued ==
    drain.at \in {"sync", "check", "write"} =>
        \A p \in drain.snap : \A f \in Span[p] :
            /\ <<f, drain.ids[f], p>> \in cache
            /\ <<f, drain.ids[f], p>> \in dur \/ <<f, drain.ids[f]>> \in InDrain

\* Only a syncing drain owns syncs, and one drain runs at a time.
OneDrain ==
    /\ drain.at # "sync" => InDrain = {}
    /\ drain.at # "idle" => flushing /\ open

\* Every checkpoint a restart may find claims only pieces whose bytes survive a power
\* loss in the very destinations it names ("Only completion bits present before taking
\* pending syncs may become durable in this pass").
CheckpointIsDurable == \A c \in past \cup {cp} : Durable(c)

\* A piece the storage reports complete, restored from a checkpoint or verified in this
\* process, has its bytes in the files that are open, after any kill, power loss,
\* failed sync, reselection or deletion.
CompletedIsPresent == open => \A p \in completed : Bytes(p, node) \subseteq cache

Recorded(p) == p \in cp.bits /\ \A f \in Span[p] : cp.ids[f] = node[f]

\* A completion the drain's snapshot missed keeps the checkpoint dirty: while the flag is
\* clear (and nothing was deleted) the checkpoint file holds every completed piece, with
\* the destinations that are open ("A completion published meanwhile is not in this
\* snapshot").
CleanIsPublished ==
    open /\ ~dirty /\ used.delete = 0 => \A p \in completed : Recorded(p)

\* A publish that raced delete_checkpoint does not bring the deleted file back: the
\* drain removes what it renamed when the generation moved under it.
DeletedStaysDeleted ==
    deleted /\ drain.at \in {"idle", "ret"} => ~cp.there

\* Completed pieces are recorded some time after they finish, whatever fails on the
\* way, unless the process ends or the files are replaced first ("so a killed process
\* resumes without rehashing").
EventuallyRecorded ==
    \A p \in Pieces : (open /\ p \in completed) ~> (~open \/ p \notin completed \/ Recorded(p))
=============================================================================
