-------------------------- MODULE CheckpointProofs --------------------------
(***************************************************************************)
(* Proofs about Checkpoint, for every set of pieces and files and every    *)
(* bound: type correctness, and that a checkpoint a restart may find names *)
(* only bytes that survive a power loss.                                   *)
(***************************************************************************)
EXTENDS Checkpoint, TLAPS

USE CheckpointAssumption

----------------------------------------------------------------------------
(* Types of the records.                                                   *)

\* The idle drain is a drain.
LEMMA NoDrainType == NoDrain \in DrainRec
  BY DEF NoDrain, DrainRec, DrainStages, Idents, Nodes

\* The missing checkpoint file is a checkpoint.
LEMMA NoCpType == NoCp \in CpType
  BY DEF NoCp, CpType, Idents, Nodes

\* A drain that moves on, with or without a result, is a drain.
LEMMA DrainMoves ==
    ASSUME NEW d \in DrainRec, NEW at \in DrainStages, NEW ok \in BOOLEAN
    PROVE  /\ [d EXCEPT !.at = at] \in DrainRec
           /\ [d EXCEPT !.at = at, !.ok = ok] \in DrainRec
           /\ [d EXCEPT !.at = at, !.failed = {}, !.ok = ok] \in DrainRec
  BY DEF DrainRec

\* checkpoint_flushing is set and a drain begins.
LEMMA DrainBegins ==
    ASSUME NEW by \in {"timer", "verify", "close"}, Begin(by)
    PROVE  drain' \in DrainRec
  BY NoDrainType DEF Begin, DrainRec, DrainStages

\* Phase 1 leaves a drain with the bits, identities and syncs it copied.
LEMMA SnapshotType == ASSUME TypeOK, DrainSnapshot PROVE drain' \in DrainRec
<1>1. {s \in pending : s[2] = node[s[1]]} \in SUBSET (Files \X Nodes)
  BY DEF TypeOK, BitsOK
<1>2. CASE drain' = [drain EXCEPT !.at = "sync", !.has = dirty, !.snap = completed,
                          !.ids = node, !.gen = gen, !.seq = seq, !.fgen = filesGen,
                          !.syncs = {s \in pending : s[2] = node[s[1]]}]
  BY <1>1, <1>2, ZenonT(60) DEF TypeOK, BitsOK, DiskOK, CountsOK, FlagsOK, DrainRec, DrainStages
<1>3. CASE drain' = [drain EXCEPT !.at = "ret", !.ok = FALSE]
  BY <1>3, DrainMoves, Zenon DEF TypeOK, DrainStages
<1> QED
  BY <1>2, <1>3 DEF DrainSnapshot

\* Phase 2 moves a file from the syncs to do, possibly to the failed ones.
LEMMA SyncType ==
    ASSUME TypeOK, NEW s \in Files \X Nodes, DrainSync(s)
    PROVE  drain' \in DrainRec
<1>1. CASE drain' = [drain EXCEPT !.syncs = @ \ {s}]
  BY <1>1 DEF TypeOK, DrainRec
<1>2. CASE drain' = [drain EXCEPT !.syncs = @ \ {s}, !.failed = @ \cup {s}]
  BY <1>2 DEF TypeOK, DrainRec
<1> QED
  BY <1>1, <1>2 DEF DrainSync

----------------------------------------------------------------------------
\* Type correctness: no handler takes a variable out of its type, and synced bytes are
\* always bytes that were written.
THEOREM TypeCorrect == Spec => []TypeOK
<1>1. Init => TypeOK
  <2> SUFFICES ASSUME Init PROVE TypeOK
    OBVIOUS
  <2>1. DiskOK /\ FileOK
    BY NoCpType DEF Init, DiskOK, FileOK, Idents, Nodes
  <2>2. BitsOK /\ CountsOK /\ FlagsOK
    BY DEF Init, BitsOK, CountsOK, FlagsOK
  <2>3. drain \in DrainRec /\ used \in UsedRec
    BY NoDrainType DEF Init, UsedRec
  <2> QED
    BY <2>1, <2>2, <2>3 DEF TypeOK
<1>2. TypeOK /\ [Next]_vars => TypeOK'
  <2> SUFFICES ASSUME TypeOK, [Next]_vars PROVE TypeOK'
    OBVIOUS
  <2>1. ASSUME NEW ids \in Idents, NEW checks \in BOOLEAN, Attach(ids, checks) PROVE TypeOK'
    <3>1. BitsOK'
      BY <2>1 DEF Attach, Loaded, TypeOK, BitsOK, FileOK, CpType
    <3>2. CountsOK' /\ FlagsOK'
      BY <2>1 DEF Attach, TypeOK, CountsOK, FlagsOK, FileOK, CpType
    <3>3. used' \in UsedRec
      BY <2>1 DEF Attach, Spend, TypeOK, UsedRec
    <3> QED
      BY <2>1, <3>1, <3>2, <3>3 DEF TypeOK, Attach, DiskOK, FileOK, fileVars
  <2>2. ASSUME NEW p \in Pieces, Save(p) PROVE TypeOK'
    <3>1. DiskOK'
      BY <2>2 DEF Save, Bytes, TypeOK, DiskOK, Idents
    <3> QED
      BY <2>2, <3>1 DEF TypeOK, Save, FileOK, BitsOK, CountsOK, FlagsOK, fileVars, bitVars,
         timerVars, lifeVars
  <2>3. ASSUME NEW p \in Pieces, MarkComplete(p) PROVE TypeOK'
    <3>1. BitsOK'
      BY <2>3 DEF MarkComplete, Of, TypeOK, BitsOK, DiskOK, Idents
    <3>2. CountsOK' /\ FlagsOK'
      BY <2>3 DEF MarkComplete, Schedule, TypeOK, CountsOK, FlagsOK, lifeVars
    <3> QED
      BY <2>3, <3>1, <3>2 DEF TypeOK, MarkComplete, DiskOK, FileOK, diskVars, fileVars
  <2>4. ASSUME NEW p \in Pieces, MarkNotComplete(p) PROVE TypeOK'
    <3>1. CountsOK' /\ FlagsOK'
      BY <2>4 DEF MarkNotComplete, Schedule, TypeOK, CountsOK, FlagsOK, lifeVars
    <3>2. used' \in UsedRec
      BY <2>4 DEF MarkNotComplete, Spend, TypeOK, UsedRec
    <3> QED
      BY <2>4, <3>1, <3>2 DEF TypeOK, MarkNotComplete, DiskOK, FileOK, BitsOK, diskVars,
         fileVars
  <2>5. ASSUME NEW F \in SUBSET Files, UpdateSelection(F) PROVE TypeOK'
    <3>1. used.select + 1 \in Nodes
      BY <2>5 DEF UpdateSelection, TypeOK, UsedRec, Nodes
    <3>2. Copied(F, used.select + 1) \subseteq Files \X Nodes \X Pieces
      BY <3>1 DEF Copied, TypeOK, BitsOK
    <3>3. node' \in Idents
      BY <2>5, <3>1 DEF UpdateSelection, TypeOK, DiskOK, Idents
    <3>4. DiskOK'
      BY <2>5, <3>2, <3>3 DEF UpdateSelection, TypeOK, DiskOK
    <3>5. CountsOK' /\ FlagsOK'
      BY <2>5 DEF UpdateSelection, Schedule, TypeOK, CountsOK, FlagsOK
    <3>6. used' \in UsedRec
      BY <2>5 DEF UpdateSelection, Spend, TypeOK, UsedRec
    <3> QED
      BY <2>5, <3>1, <3>2, <3>3, <3>4, <3>5, <3>6 DEF TypeOK, UpdateSelection, FileOK,
         BitsOK, fileVars
  <2>6. CASE TimerFires
    <3>1. drain' \in DrainRec
      BY <2>6, DrainBegins DEF TimerFires, TypeOK
    <3>2. FlagsOK'
      BY <2>6 DEF TimerFires, Begin, TypeOK, FlagsOK, bitVars, lifeVars
    <3> QED
      BY <2>6, <3>1, <3>2 DEF TypeOK, TimerFires, DiskOK, FileOK, BitsOK, CountsOK,
         diskVars, fileVars, bitVars, lifeVars
  <2>7. CASE MarkVerified
    <3>1. drain' \in DrainRec
      BY <2>7, DrainBegins DEF MarkVerified
    <3>2. CountsOK' /\ FlagsOK'
      BY <2>7 DEF MarkVerified, Begin, TypeOK, CountsOK, FlagsOK, lifeVars
    <3>3. used' \in UsedRec
      BY <2>7 DEF MarkVerified, Spend, TypeOK, UsedRec
    <3> QED
      BY <2>7, <3>1, <3>2, <3>3 DEF TypeOK, MarkVerified, DiskOK, FileOK, BitsOK, diskVars,
         fileVars
  <2>8. CASE CancelVerify
    BY <2>8 DEF TypeOK, CancelVerify, DiskOK, FileOK, BitsOK, CountsOK, FlagsOK, diskVars,
       fileVars, bitVars, timerVars
  <2>9. CASE Close
    <3>1. drain' \in DrainRec
      BY <2>9, DrainBegins DEF Close
    <3>2. CountsOK' /\ FlagsOK'
      BY <2>9 DEF Close, Begin, TypeOK, CountsOK, FlagsOK, lifeVars
    <3> QED
      BY <2>9, <3>1, <3>2 DEF TypeOK, Close, DiskOK, FileOK, BitsOK, diskVars, fileVars
  <2>10. CASE DrainSnapshot
    <3>1. drain' \in DrainRec
      BY <2>10, SnapshotType
    <3>2. used' \in UsedRec
      BY <2>10 DEF DrainSnapshot, MayFail, Spend, TypeOK, UsedRec
    <3> QED
      BY <2>10, <3>1, <3>2, ZenonT(60) DEF TypeOK, DrainSnapshot, DiskOK, FileOK, BitsOK, CountsOK,
         FlagsOK, diskVars, fileVars, timerVars
  <2>11. ASSUME NEW s \in Files \X Nodes, DrainSync(s) PROVE TypeOK'
    <3>1. drain' \in DrainRec
      BY <2>11, SyncType
    <3>2. DiskOK'
      BY <2>11 DEF DrainSync, TypeOK, DiskOK
    <3>3. used' \in UsedRec
      BY <2>11 DEF DrainSync, MayFail, Spend, TypeOK, UsedRec
    <3> QED
      BY <2>11, <3>1, <3>2, <3>3 DEF TypeOK, DrainSync, FileOK, BitsOK, CountsOK, FlagsOK,
         fileVars, bitVars, timerVars, lifeVars
  <2>12. CASE DrainSynced
    <3>1. drain' \in DrainRec
      BY <2>12, DrainMoves, ZenonT(60) DEF DrainSynced, TypeOK, DrainStages
    <3>2. BitsOK'
      BY <2>12 DEF DrainSynced, TypeOK, BitsOK, DrainRec
    <3> QED
      BY <2>12, <3>1, <3>2 DEF TypeOK, DrainSynced, DiskOK, FileOK, CountsOK, FlagsOK,
         diskVars, fileVars, timerVars, lifeVars
  <2>13. CASE DrainCheck
    <3>1. drain' \in DrainRec
      BY <2>13, DrainMoves, ZenonT(60) DEF DrainCheck, TypeOK, DrainStages
    <3> QED
      BY <2>13, <3>1 DEF TypeOK, DrainCheck, DiskOK, FileOK, BitsOK, CountsOK, FlagsOK,
         diskVars, fileVars, bitVars, timerVars, lifeVars
  <2>14. CASE DrainWrite
    <3>1. drain' \in DrainRec
      BY <2>14, DrainMoves DEF DrainWrite, TypeOK, DrainStages
    <3>2. [bits |-> drain.snap, ids |-> drain.ids, there |-> TRUE] \in CpType
      BY DEF TypeOK, DrainRec, CpType
    <3>3. FileOK'
      BY <2>14, <3>2, Zenon DEF DrainWrite, TypeOK, FileOK, fileVars
    <3>4. used' \in UsedRec
      BY <2>14 DEF DrainWrite, MayFail, Spend, TypeOK, UsedRec
    <3> QED
      BY <2>14, <3>1, <3>2, <3>3, <3>4 DEF TypeOK, DrainWrite, DiskOK, BitsOK, CountsOK,
         FlagsOK, diskVars, bitVars, timerVars, lifeVars
  <2>15. CASE DrainFinal
    <3>1. drain' \in DrainRec
      BY <2>15, DrainMoves, Zenon DEF DrainFinal, TypeOK, DrainStages
    <3>2. FileOK'
      BY <2>15, NoCpType DEF DrainFinal, TypeOK, FileOK, fileVars
    <3>3. FlagsOK'
      BY <2>15 DEF DrainFinal, TypeOK, FlagsOK, timerVars, lifeVars
    <3> QED
      BY <2>15, <3>1, <3>2, <3>3 DEF TypeOK, DrainFinal, DiskOK, BitsOK, CountsOK, diskVars,
         timerVars, lifeVars
  <2>16. CASE TimerReturns
    <3>1. FlagsOK'
      BY <2>16 DEF TimerReturns, TypeOK, FlagsOK, bitVars, lifeVars
    <3> QED
      BY <2>16, <3>1, NoDrainType DEF TypeOK, TimerReturns, DiskOK, FileOK, BitsOK,
         CountsOK, diskVars, fileVars, bitVars, lifeVars
  <2>17. CASE VerifyReturns
    BY <2>17, NoDrainType DEF TypeOK, VerifyReturns, DiskOK, FileOK, BitsOK, CountsOK,
       FlagsOK, diskVars, fileVars, bitVars
  <2>18. CASE CloseReturns
    BY <2>18, NoDrainType DEF TypeOK, CloseReturns, Dropped, DiskOK, FileOK, BitsOK,
       CountsOK, FlagsOK, fileVars
  <2>19. CASE DeleteCheckpoint
    <3>1. CountsOK'
      BY <2>19 DEF DeleteCheckpoint, TypeOK, CountsOK
    <3>2. FlagsOK'
      BY <2>19 DEF DeleteCheckpoint, TypeOK, FlagsOK, timerVars
    <3>3. used' \in UsedRec
      BY <2>19 DEF DeleteCheckpoint, Spend, TypeOK, UsedRec
    <3> QED
      BY <2>19, <3>1, <3>2, <3>3 DEF TypeOK, DeleteCheckpoint, DiskOK, FileOK, BitsOK, diskVars,
         fileVars
  <2>20. CASE DeleteFile
    <3>1. FileOK'
      BY <2>20, NoCpType DEF DeleteFile, TypeOK, FileOK
    <3>2. FlagsOK'
      BY <2>20 DEF DeleteFile, TypeOK, FlagsOK, bitVars, timerVars
    <3> QED
      BY <2>20, <3>1, <3>2 DEF TypeOK, DeleteFile, DiskOK, BitsOK, CountsOK, diskVars,
         bitVars, timerVars
  <2>21. CASE Kill
    <3>1. used' \in UsedRec
      BY <2>21 DEF Kill, Spend, TypeOK, UsedRec
    <3> QED
      BY <2>21, <3>1, NoDrainType DEF TypeOK, Kill, Dropped, DiskOK, FileOK, BitsOK,
         CountsOK, FlagsOK, fileVars
  <2>22. CASE PowerLoss
    <3>1. DiskOK'
      BY <2>22 DEF PowerLoss, Dropped, TypeOK, DiskOK
    <3>2. FileOK'
      BY <2>22 DEF PowerLoss, TypeOK, FileOK
    <3>3. used' \in UsedRec
      BY <2>22 DEF PowerLoss, Spend, TypeOK, UsedRec
    <3> QED
      BY <2>22, <3>1, <3>2, <3>3, NoDrainType DEF TypeOK, PowerLoss, Dropped, BitsOK,
         CountsOK, FlagsOK
  <2>23. CASE UNCHANGED vars
    BY <2>23 DEF TypeOK, DiskOK, FileOK, BitsOK, CountsOK, FlagsOK, vars, diskVars,
       fileVars, bitVars, timerVars, lifeVars
  <2> QED
    BY <2>1, <2>2, <2>3, <2>4, <2>5, <2>6, <2>7, <2>8, <2>9, <2>10, <2>11, <2>12, <2>13,
       <2>14, <2>15, <2>16, <2>17, <2>18, <2>19, <2>20, <2>21, <2>22, <2>23 DEF Next,
       DrainStep
<1> QED
  BY <1>1, <1>2, PTL DEF Spec

----------------------------------------------------------------------------
(* Durability.  CheckpointIsDurable is not inductive: what a drain is      *)
(* about to publish must be synced by then, so the bits it took, and the   *)
(* completed pieces it may take next, must each be durable or queued.      *)

DurabilityInv ==
    CheckpointIsDurable /\ CompletedIsQueued /\ SnapshotIsQueued /\ OneDrain

\* Phase 1 moves the syncs of completed pieces from the queue into the drain.
LEMMA SnapshotQueues ==
    ASSUME TypeOK, DurabilityInv, DrainSnapshot
    PROVE  CompletedIsQueued' /\ SnapshotIsQueued'
<1> DEFINE syncs == {s \in pending : s[2] = node[s[1]]}
<1>0. UNCHANGED <<cache, dur, node, completed>> /\ InDrain = {}
  BY DEF DrainSnapshot, diskVars, DurabilityInv, OneDrain
<1>1. CASE /\ pending' = {}
           /\ drain' = [drain EXCEPT !.at = "sync", !.has = dirty, !.snap = completed,
                          !.ids = node, !.gen = gen, !.seq = seq, !.fgen = filesGen,
                          !.syncs = {s \in pending : s[2] = node[s[1]]}]
  <2>1. drain'.snap = completed /\ drain'.ids = node /\ drain'.syncs = syncs
    BY <1>1 DEF TypeOK, DrainRec
  <2>2. \A p \in completed : \A f \in Span[p] :
            /\ <<f, node[f], p>> \in cache
            /\ <<f, node[f], p>> \in dur \/ <<f, node[f]>> \in syncs
    BY <1>0 DEF DurabilityInv, CompletedIsQueued
  <2> QED
    BY <1>0, <2>1, <2>2 DEF CompletedIsQueued, SnapshotIsQueued, InDrain
<1>2. CASE UNCHANGED pending /\ drain' = [drain EXCEPT !.at = "ret", !.ok = FALSE]
  <2>1. drain'.at = "ret" /\ InDrain' = InDrain
    BY <1>2 DEF TypeOK, DrainRec, InDrain
  <2> QED
    BY <1>0, <1>2, <2>1 DEF CompletedIsQueued, SnapshotIsQueued, DurabilityInv
<1> QED
  BY <1>1, <1>2 DEF DrainSnapshot

\* Phase 2: a sync that succeeds makes its file's bytes durable, one that fails stays
\* with the drain.
LEMMA SyncQueues ==
    ASSUME TypeOK, DurabilityInv, NEW s \in Files \X Nodes, DrainSync(s)
    PROVE  CompletedIsQueued' /\ SnapshotIsQueued'
<1>1. /\ drain'.at = drain.at /\ drain'.snap = drain.snap /\ drain'.ids = drain.ids
      /\ UNCHANGED <<cache, node, pending, completed>> /\ dur \subseteq dur'
  BY DEF DrainSync, TypeOK, DrainRec, bitVars
<1>2. \A f \in Files, n \in Nodes, p \in Pieces :
         <<f, n>> \in InDrain /\ <<f, n, p>> \in cache
            => <<f, n>> \in InDrain' \/ <<f, n, p>> \in dur'
  <2>1. CASE /\ dur' = dur \cup {t \in cache : t[1] = s[1] /\ t[2] = s[2]}
             /\ drain' = [drain EXCEPT !.syncs = @ \ {s}]
    <3>1. drain'.syncs = drain.syncs \ {s} /\ drain'.failed = drain.failed
      BY <2>1 DEF TypeOK, DrainRec
    <3> QED
      BY <2>1, <3>1 DEF InDrain
  <2>2. CASE drain' = [drain EXCEPT !.syncs = @ \ {s}, !.failed = @ \cup {s}]
    <3>1. drain'.syncs = drain.syncs \ {s} /\ drain'.failed = drain.failed \cup {s}
      BY <2>2 DEF TypeOK, DrainRec
    <3> QED
      BY <3>1 DEF InDrain
  <2> QED
    BY <2>1, <2>2 DEF DrainSync
<1>3. CompletedIsQueued'
  BY <1>1, <1>2 DEF DurabilityInv, CompletedIsQueued, TypeOK, BitsOK, DiskOK, Idents
<1>4. SnapshotIsQueued'
  BY <1>1, <1>2 DEF DurabilityInv, SnapshotIsQueued, TypeOK, DrainRec, Idents
<1> QED
  BY <1>3, <1>4

\* Phase 4: by then nothing of the snapshot waits for a sync.
LEMMA WritePublishesDurable ==
    ASSUME TypeOK, DurabilityInv, DrainWrite
    PROVE  CheckpointIsDurable'
<1>1. \A p \in drain.snap : Bytes(p, drain.ids) \subseteq dur
  BY DEF DrainWrite, DurabilityInv, SnapshotIsQueued, OneDrain, Bytes
<1>2. UNCHANGED dur
  BY DEF DrainWrite, diskVars
<1>3. CASE UNCHANGED fileVars
  BY <1>2, <1>3 DEF DurabilityInv, CheckpointIsDurable, Durable, fileVars
<1>4. CASE /\ cp' = [bits |-> drain.snap, ids |-> drain.ids, there |-> TRUE]
           /\ past' = past \cup {cp'}
  <2>1. \A p \in cp'.bits : Bytes(p, cp'.ids) \subseteq dur'
    BY <1>1, <1>2, <1>4
  <2> QED
    BY <1>2, <1>4, <2>1 DEF DurabilityInv, CheckpointIsDurable, Durable
<1> QED
  BY <1>3, <1>4 DEF DrainWrite

\* Every step of the storage, a kill or a power loss included, keeps the invariant.
LEMMA DurabilityStep ==
    ASSUME TypeOK, DurabilityInv, [Next]_vars
    PROVE  DurabilityInv'
<1>1. ASSUME NEW ids \in Idents, NEW checks \in BOOLEAN, Attach(ids, checks) PROVE DurabilityInv'
  <2>1. CompletedIsQueued'
    BY <1>1 DEF DurabilityInv, Attach, CheckpointIsDurable, Durable, Bytes, Loaded,
       CompletedIsQueued, OneDrain, TypeOK, DiskOK
  <2> QED
    BY <1>1, <2>1 DEF DurabilityInv, Attach, CheckpointIsDurable, Durable, SnapshotIsQueued,
       InDrain, OneDrain, fileVars
<1>2. ASSUME NEW p \in Pieces, Save(p) PROVE DurabilityInv'
  <2>1. CompletedIsQueued'
    BY <1>2 DEF DurabilityInv, Save, CompletedIsQueued, InDrain, bitVars
  <2>2. SnapshotIsQueued'
    BY <1>2 DEF DurabilityInv, Save, SnapshotIsQueued, InDrain
  <2> QED
    BY <1>2, <2>1, <2>2 DEF DurabilityInv, Save, CheckpointIsDurable, Durable, OneDrain,
       InDrain, fileVars, timerVars, lifeVars
<1>3. ASSUME NEW p \in Pieces, MarkComplete(p) PROVE DurabilityInv'
  <2>1. CompletedIsQueued'
    BY <1>3 DEF DurabilityInv, MarkComplete, CompletedIsQueued, InDrain, Of, Bytes, diskVars
  <2> QED
    BY <1>3, <2>1 DEF DurabilityInv, MarkComplete, CheckpointIsDurable, Durable,
       SnapshotIsQueued, InDrain, OneDrain, diskVars, fileVars, lifeVars
<1>4. ASSUME NEW p \in Pieces, MarkNotComplete(p) PROVE DurabilityInv'
  BY <1>4 DEF DurabilityInv, MarkNotComplete, CheckpointIsDurable, Durable,
     CompletedIsQueued, SnapshotIsQueued, OneDrain, InDrain, diskVars, fileVars, lifeVars
<1>5. ASSUME NEW F \in SUBSET Files, UpdateSelection(F) PROVE DurabilityInv'
  <2>1. CompletedIsQueued'
    BY <1>5 DEF DurabilityInv, UpdateSelection, CompletedIsQueued, InDrain, Overlapping,
       TypeOK, DiskOK, BitsOK
  <2>2. SnapshotIsQueued'
    BY <1>5 DEF DurabilityInv, UpdateSelection, SnapshotIsQueued, InDrain
  <2> QED
    BY <1>5, <2>1, <2>2 DEF DurabilityInv, UpdateSelection, CheckpointIsDurable, Durable,
       OneDrain, InDrain, fileVars
<1>6. CASE TimerFires
  <2>1. CompletedIsQueued'
    BY <1>6 DEF DurabilityInv, TimerFires, CompletedIsQueued, Begin, NoDrain, OneDrain,
       InDrain, diskVars, bitVars
  <2>2. SnapshotIsQueued'
    BY <1>6 DEF DurabilityInv, TimerFires, SnapshotIsQueued, Begin, NoDrain, InDrain,
       diskVars
  <2>3. OneDrain'
    BY <1>6 DEF DurabilityInv, TimerFires, OneDrain, Begin, NoDrain, InDrain, lifeVars
  <2> QED
    BY <1>6, <2>1, <2>2, <2>3 DEF DurabilityInv, TimerFires, CheckpointIsDurable, Durable,
       diskVars, fileVars
<1>7. CASE MarkVerified
  <2>1. CompletedIsQueued'
    BY <1>7 DEF DurabilityInv, MarkVerified, CompletedIsQueued, Begin, NoDrain, OneDrain,
       InDrain, diskVars
  <2>2. SnapshotIsQueued'
    BY <1>7 DEF DurabilityInv, MarkVerified, SnapshotIsQueued, Begin, NoDrain
  <2>3. OneDrain'
    BY <1>7 DEF DurabilityInv, MarkVerified, OneDrain, Begin, NoDrain, InDrain, lifeVars
  <2> QED
    BY <1>7, <2>1, <2>2, <2>3 DEF DurabilityInv, MarkVerified, CheckpointIsDurable, Durable,
       diskVars, fileVars
<1>8. CASE CancelVerify
  BY <1>8 DEF DurabilityInv, CancelVerify, CheckpointIsDurable, Durable, CompletedIsQueued,
     SnapshotIsQueued, OneDrain, InDrain, diskVars, fileVars, bitVars, timerVars
<1>9. CASE Close
  <2>1. CompletedIsQueued'
    BY <1>9 DEF DurabilityInv, Close, CompletedIsQueued, Begin, NoDrain, OneDrain, InDrain,
       diskVars
  <2>2. SnapshotIsQueued'
    BY <1>9 DEF DurabilityInv, Close, SnapshotIsQueued, Begin, NoDrain
  <2>3. OneDrain'
    BY <1>9 DEF DurabilityInv, Close, OneDrain, Begin, NoDrain, InDrain, lifeVars
  <2> QED
    BY <1>9, <2>1, <2>2, <2>3 DEF DurabilityInv, Close, CheckpointIsDurable, Durable,
       diskVars, fileVars
<1>10. CASE DrainSnapshot
  <2>1. CompletedIsQueued' /\ SnapshotIsQueued'
    BY <1>10, SnapshotQueues
  <2>2. OneDrain'
    BY <1>10 DEF DurabilityInv, DrainSnapshot, OneDrain, InDrain, TypeOK, DrainRec,
       timerVars
  <2> QED
    BY <1>10, <2>1, <2>2 DEF DurabilityInv, DrainSnapshot, CheckpointIsDurable, Durable,
       diskVars, fileVars
<1>11. ASSUME NEW s \in Files \X Nodes, DrainSync(s) PROVE DurabilityInv'
  <2>1. CheckpointIsDurable'
    BY <1>11 DEF DurabilityInv, DrainSync, CheckpointIsDurable, Durable, fileVars
  <2>2. CompletedIsQueued' /\ SnapshotIsQueued'
    BY <1>11, SyncQueues
  <2>3. OneDrain'
    BY <1>11 DEF DurabilityInv, DrainSync, OneDrain, TypeOK, DrainRec, timerVars, lifeVars
  <2> QED
    BY <2>1, <2>2, <2>3 DEF DurabilityInv
<1>12. CASE DrainSynced
  <2>1. CompletedIsQueued'
    BY <1>12 DEF DurabilityInv, DrainSynced, CompletedIsQueued, InDrain, TypeOK, DrainRec,
       diskVars
  <2>2. SnapshotIsQueued'
    BY <1>12, ZenonT(60) DEF DurabilityInv, DrainSynced, SnapshotIsQueued, InDrain, TypeOK, DrainRec,
       diskVars
  <2>3. OneDrain'
    BY <1>12 DEF DurabilityInv, DrainSynced, OneDrain, InDrain, TypeOK, DrainRec, timerVars,
       lifeVars
  <2> QED
    BY <1>12, <2>1, <2>2, <2>3 DEF DurabilityInv, DrainSynced, CheckpointIsDurable, Durable,
       diskVars, fileVars
<1>13. CASE DrainCheck
  <2>1. CompletedIsQueued'
    BY <1>13 DEF DurabilityInv, DrainCheck, CompletedIsQueued, InDrain, TypeOK, DrainRec,
       diskVars, bitVars
  <2>2. SnapshotIsQueued'
    BY <1>13 DEF DurabilityInv, DrainCheck, SnapshotIsQueued, InDrain, TypeOK, DrainRec,
       diskVars
  <2>3. OneDrain'
    BY <1>13 DEF DurabilityInv, DrainCheck, OneDrain, InDrain, TypeOK, DrainRec, timerVars,
       lifeVars
  <2> QED
    BY <1>13, <2>1, <2>2, <2>3 DEF DurabilityInv, DrainCheck, CheckpointIsDurable, Durable,
       diskVars, fileVars
<1>14. CASE DrainWrite
  <2>1. CheckpointIsDurable'
    BY <1>14, WritePublishesDurable
  <2>2. CompletedIsQueued'
    BY <1>14 DEF DurabilityInv, DrainWrite, CompletedIsQueued, InDrain, TypeOK, DrainRec,
       diskVars, bitVars
  <2>3. SnapshotIsQueued'
    BY <1>14, ZenonT(60) DEF DurabilityInv, DrainWrite, SnapshotIsQueued, InDrain, TypeOK, DrainRec,
       diskVars
  <2>4. OneDrain'
    BY <1>14 DEF DurabilityInv, DrainWrite, OneDrain, InDrain, TypeOK, DrainRec, timerVars,
       lifeVars
  <2> QED
    BY <2>1, <2>2, <2>3, <2>4 DEF DurabilityInv
<1>15. CASE DrainFinal
  <2>1. CheckpointIsDurable'
    BY <1>15 DEF DurabilityInv, DrainFinal, CheckpointIsDurable, Durable, NoCp, diskVars,
       fileVars
  <2>2. CompletedIsQueued'
    BY <1>15, ZenonT(60) DEF DurabilityInv, DrainFinal, CompletedIsQueued, InDrain, TypeOK, DrainRec,
       diskVars
  <2>3. drain'.at = "ret"
    BY <1>15 DEF DurabilityInv, DrainFinal, TypeOK, DrainRec
  <2>4. OneDrain'
    BY <1>15 DEF DurabilityInv, DrainFinal, OneDrain, InDrain, TypeOK, DrainRec, timerVars,
       lifeVars
  <2> QED
    BY <1>15, <2>1, <2>2, <2>3, <2>4 DEF DurabilityInv, DrainFinal, SnapshotIsQueued,
       InDrain, SnapshotIsQueued
<1>16. CASE TimerReturns
  <2>1. CompletedIsQueued'
    BY <1>16 DEF DurabilityInv, TimerReturns, CompletedIsQueued, OneDrain, InDrain,
       diskVars, bitVars
  <2> QED
    BY <1>16, <2>1 DEF DurabilityInv, TimerReturns, CheckpointIsDurable, Durable,
       SnapshotIsQueued, InDrain, OneDrain, NoDrain, diskVars, fileVars
<1>17. CASE VerifyReturns
  <2>1. CompletedIsQueued'
    BY <1>17 DEF DurabilityInv, VerifyReturns, CompletedIsQueued, OneDrain, InDrain,
       diskVars, bitVars
  <2> QED
    BY <1>17, <2>1 DEF DurabilityInv, VerifyReturns, CheckpointIsDurable, Durable,
       SnapshotIsQueued, InDrain, OneDrain, NoDrain, diskVars, fileVars
<1>18. CASE CloseReturns
  BY <1>18 DEF DurabilityInv, CloseReturns, CheckpointIsDurable, Durable, CompletedIsQueued,
     SnapshotIsQueued, OneDrain, InDrain, Dropped, NoDrain, fileVars
<1>19. CASE DeleteCheckpoint
  BY <1>19 DEF DurabilityInv, DeleteCheckpoint, CheckpointIsDurable, Durable,
     CompletedIsQueued, SnapshotIsQueued, OneDrain, InDrain, diskVars, fileVars, timerVars
<1>20. CASE DeleteFile
  <2>1. CheckpointIsDurable'
    BY <1>20 DEF DurabilityInv, DeleteFile, CheckpointIsDurable, Durable, NoCp, diskVars
  <2> QED
    BY <1>20, <2>1 DEF DurabilityInv, DeleteFile, CompletedIsQueued, InDrain,
       SnapshotIsQueued, OneDrain, diskVars, bitVars, timerVars
<1>21. CASE Kill
  BY <1>21 DEF DurabilityInv, Kill, CheckpointIsDurable, Durable, CompletedIsQueued,
     SnapshotIsQueued, OneDrain, InDrain, Dropped, NoDrain, fileVars
<1>22. CASE PowerLoss
  <2>1. CheckpointIsDurable'
    BY <1>22 DEF DurabilityInv, PowerLoss, CheckpointIsDurable, Durable
  <2> QED
    BY <1>22, <2>1 DEF DurabilityInv, PowerLoss, CompletedIsQueued, InDrain,
       SnapshotIsQueued, OneDrain, Dropped, NoDrain
<1>23. CASE UNCHANGED vars
  BY <1>23 DEF DurabilityInv, CheckpointIsDurable, Durable, CompletedIsQueued,
     SnapshotIsQueued, OneDrain, InDrain, vars, diskVars, fileVars, bitVars, timerVars,
     lifeVars
<1> QED
  BY <1>1, <1>2, <1>3, <1>4, <1>5, <1>6, <1>7, <1>8, <1>9, <1>10, <1>11, <1>12, <1>13,
     <1>14, <1>15, <1>16, <1>17, <1>18, <1>19, <1>20, <1>21, <1>22, <1>23 DEF Next,
     DrainStep

\* The inductive invariant holds in every reachable state.
LEMMA DurabilityInvariant == Spec => []DurabilityInv
<1>1. Init => DurabilityInv
  BY DEF Init, DurabilityInv, CheckpointIsDurable, Durable, CompletedIsQueued,
     SnapshotIsQueued, OneDrain, InDrain, NoCp, NoDrain
<1>2. TypeOK /\ DurabilityInv /\ [Next]_vars => DurabilityInv'
  BY DurabilityStep
<1> QED
  BY <1>1, <1>2, TypeCorrect, PTL DEF Spec

\* Whatever fails and whenever the device loses power, a checkpoint that a restart may
\* find claims only pieces whose bytes are on the device, in the destinations it names.
THEOREM CheckpointDurable == Spec => []CheckpointIsDurable
  BY DurabilityInvariant, PTL DEF DurabilityInv

\* A piece reported complete is there to be read, restored from a checkpoint or not.
THEOREM CompletedPresent == Spec => []CompletedIsPresent
<1>1. DurabilityInv => CompletedIsPresent
  BY DEF DurabilityInv, CompletedIsQueued, CompletedIsPresent, Bytes
<1> QED
  BY <1>1, DurabilityInvariant, PTL

----------------------------------------------------------------------------
(* No completion is forgotten: the dirty flag.  A drain may clear it only  *)
(* when its snapshot is still current, so the counter checkpoint_seq must  *)
(* move with every change of the bits or of the destinations.              *)

Running == drain.at \in {"sync", "check", "write", "final"}
Undeleted == used.delete = 0

\* While the counter stands still the snapshot is what it was taken from.
SnapshotIsCurrent ==
    Running => /\ drain.seq <= seq
               /\ drain.seq = seq => drain.snap = completed /\ drain.ids = node

\* A drain that carries a checkpoint leaves the flag set until its last phase.
DirtyUntilFinal == Running /\ drain.has /\ Undeleted => dirty

PublishedAtFinal ==
    /\ drain.at \in {"check", "write", "final"} => drain.has
    /\ drain.at = "final" /\ drain.ok /\ Undeleted =>
          cp.bits = drain.snap /\ cp.ids = drain.ids

MissingIsEmpty ==
    /\ \A c \in past \cup {cp} : ~c.there => c.bits = {}
    /\ deleting => ~Undeleted

PublishInv ==
    CleanIsPublished /\ SnapshotIsCurrent /\ DirtyUntilFinal /\ PublishedAtFinal /\ MissingIsEmpty

\* Every step keeps the invariant.
LEMMA PublishStep ==
    ASSUME TypeOK, OneDrain, PublishInv, [Next]_vars
    PROVE  PublishInv'
<1>1. ASSUME NEW ids \in Idents, NEW checks \in BOOLEAN, Attach(ids, checks) PROVE PublishInv'
  <2>1. CleanIsPublished'
    BY <1>1 DEF PublishInv, Attach, CleanIsPublished, Recorded, Undeleted, MissingIsEmpty,
       Loaded, fileVars
  <2>2. drain.at = "idle"
    BY <1>1 DEF PublishInv, Attach, OneDrain
  <2> QED
    BY <1>1, <2>1, <2>2 DEF PublishInv, Attach, SnapshotIsCurrent, Running, DirtyUntilFinal,
       Undeleted, PublishedAtFinal, MissingIsEmpty, Spend, TypeOK, UsedRec, fileVars
<1>2. ASSUME NEW p \in Pieces, Save(p) PROVE PublishInv'
  BY <1>2 DEF PublishInv, Save, CleanIsPublished, Recorded, SnapshotIsCurrent,
     DirtyUntilFinal, PublishedAtFinal, MissingIsEmpty, Running, Undeleted, diskVars,
     fileVars, bitVars, timerVars, lifeVars
<1>3. ASSUME NEW p \in Pieces, MarkComplete(p) PROVE PublishInv'
  <2>1. SnapshotIsCurrent'
    BY <1>3 DEF PublishInv, MarkComplete, SnapshotIsCurrent, Running, TypeOK, DrainRec,
       CountsOK, diskVars
  <2> QED
    BY <1>3, <2>1 DEF PublishInv, MarkComplete, CleanIsPublished, Recorded, Undeleted,
       DirtyUntilFinal, Running, PublishedAtFinal, MissingIsEmpty, diskVars, fileVars,
       lifeVars
<1>4. ASSUME NEW p \in Pieces, MarkNotComplete(p) PROVE PublishInv'
  <2>1. SnapshotIsCurrent'
    BY <1>4 DEF PublishInv, MarkNotComplete, SnapshotIsCurrent, Running, TypeOK, DrainRec,
       CountsOK, diskVars
  <2>2. used'.delete = used.delete
    BY <1>4 DEF PublishInv, MarkNotComplete, Spend, TypeOK, UsedRec
  <2> QED
    BY <1>4, <2>1, <2>2 DEF PublishInv, MarkNotComplete, CleanIsPublished, Recorded,
       Undeleted, DirtyUntilFinal, Running, PublishedAtFinal, MissingIsEmpty, diskVars,
       fileVars, lifeVars
<1>5. ASSUME NEW F \in SUBSET Files, UpdateSelection(F) PROVE PublishInv'
  <2>1. drain.at = "idle"
    BY <1>5 DEF PublishInv, UpdateSelection, OneDrain
  <2>2. used'.delete = used.delete
    BY <1>5 DEF PublishInv, UpdateSelection, Spend, TypeOK, UsedRec
  <2> QED
    BY <1>5, <2>1, <2>2 DEF PublishInv, UpdateSelection, CleanIsPublished, Recorded,
       Undeleted, SnapshotIsCurrent, Running, DirtyUntilFinal, PublishedAtFinal,
       MissingIsEmpty, fileVars
<1>6. CASE TimerFires
  BY <1>6 DEF PublishInv, TimerFires, CleanIsPublished, Recorded, SnapshotIsCurrent,
     DirtyUntilFinal, PublishedAtFinal, MissingIsEmpty, Running, Undeleted, Begin, NoDrain,
     diskVars, fileVars, bitVars, lifeVars
<1>7. CASE MarkVerified
  <2>1. used'.delete = used.delete
    BY <1>7 DEF PublishInv, MarkVerified, Spend, TypeOK, UsedRec
  <2> QED
    BY <1>7, <2>1 DEF PublishInv, MarkVerified, CleanIsPublished, Recorded, Undeleted,
       SnapshotIsCurrent, Running, DirtyUntilFinal, PublishedAtFinal, MissingIsEmpty, Begin,
       NoDrain, diskVars, fileVars, lifeVars
<1>8. CASE CancelVerify
  BY <1>8 DEF PublishInv, CancelVerify, CleanIsPublished, Recorded, SnapshotIsCurrent,
     DirtyUntilFinal, PublishedAtFinal, MissingIsEmpty, Running, Undeleted, diskVars,
     fileVars, bitVars, timerVars
<1>9. CASE Close
  BY <1>9 DEF PublishInv, Close, CleanIsPublished, Recorded, SnapshotIsCurrent,
     DirtyUntilFinal, PublishedAtFinal, MissingIsEmpty, Running, Undeleted, Begin, NoDrain,
     diskVars, fileVars, lifeVars
<1>10. CASE DrainSnapshot
  <2>1. used'.delete = used.delete
    BY <1>10 DEF PublishInv, DrainSnapshot, MayFail, Spend, TypeOK, UsedRec
  <2>2. SnapshotIsCurrent'
    <3>1. \/ drain'.at = "ret"
          \/ drain'.seq = seq /\ drain'.snap = completed /\ drain'.ids = node
      BY <1>10 DEF DrainSnapshot, TypeOK, DrainRec
    <3>2. UNCHANGED <<completed, node, seq>> /\ seq \in Nat
      BY <1>10 DEF DrainSnapshot, diskVars, TypeOK, CountsOK
    <3> QED
      BY <3>1, <3>2 DEF SnapshotIsCurrent, Running
  <2>3. DirtyUntilFinal'
    BY <1>10, <2>1 DEF PublishInv, DrainSnapshot, DirtyUntilFinal, Running, Undeleted,
       TypeOK, DrainRec, FlagsOK
  <2>4. PublishedAtFinal'
    BY <1>10, <2>1, ZenonT(60) DEF PublishInv, DrainSnapshot, PublishedAtFinal, Undeleted, TypeOK,
       DrainRec, fileVars
  <2> QED
    BY <1>10, <2>1, <2>2, <2>3, <2>4 DEF PublishInv, DrainSnapshot, CleanIsPublished,
       Recorded, Undeleted, MissingIsEmpty, diskVars, fileVars, timerVars
<1>11. ASSUME NEW s \in Files \X Nodes, DrainSync(s) PROVE PublishInv'
  <2>1. used'.delete = used.delete
    BY <1>11 DEF PublishInv, DrainSync, MayFail, Spend, TypeOK, UsedRec
  <2>2. SnapshotIsCurrent'
    BY <1>11 DEF PublishInv, DrainSync, SnapshotIsCurrent, Running, TypeOK, DrainRec,
       bitVars
  <2>3. DirtyUntilFinal'
    BY <1>11, <2>1 DEF PublishInv, DrainSync, DirtyUntilFinal, Running, Undeleted, TypeOK,
       DrainRec, bitVars
  <2>4. PublishedAtFinal'
    BY <1>11, <2>1 DEF PublishInv, DrainSync, PublishedAtFinal, Undeleted, TypeOK, DrainRec,
       fileVars
  <2> QED
    BY <1>11, <2>1, <2>2, <2>3, <2>4 DEF PublishInv, DrainSync, CleanIsPublished, Recorded,
       Undeleted, MissingIsEmpty, fileVars, bitVars, lifeVars
<1>12. CASE DrainSynced
  <2>1. SnapshotIsCurrent'
    BY <1>12 DEF PublishInv, DrainSynced, SnapshotIsCurrent, Running, TypeOK, DrainRec,
       diskVars
  <2>2. DirtyUntilFinal'
    BY <1>12 DEF PublishInv, DrainSynced, DirtyUntilFinal, Running, Undeleted, TypeOK,
       DrainRec
  <2>3. PublishedAtFinal'
    BY <1>12 DEF PublishInv, DrainSynced, PublishedAtFinal, Undeleted, TypeOK, DrainRec,
       fileVars
  <2> QED
    BY <1>12, <2>1, <2>2, <2>3 DEF PublishInv, DrainSynced, CleanIsPublished, Recorded,
       Undeleted, MissingIsEmpty, diskVars, fileVars, lifeVars
<1>13. CASE DrainCheck
  <2>1. SnapshotIsCurrent'
    BY <1>13 DEF PublishInv, DrainCheck, SnapshotIsCurrent, Running, TypeOK, DrainRec,
       diskVars, bitVars
  <2>2. DirtyUntilFinal'
    BY <1>13 DEF PublishInv, DrainCheck, DirtyUntilFinal, Running, Undeleted, TypeOK,
       DrainRec, bitVars
  <2>3. PublishedAtFinal'
    BY <1>13 DEF PublishInv, DrainCheck, PublishedAtFinal, Undeleted, TypeOK, DrainRec,
       fileVars
  <2> QED
    BY <1>13, <2>1, <2>2, <2>3 DEF PublishInv, DrainCheck, CleanIsPublished, Recorded,
       Undeleted, MissingIsEmpty, diskVars, fileVars, bitVars, lifeVars
<1>14. CASE DrainWrite
  <2>1. used'.delete = used.delete
    BY <1>14 DEF PublishInv, DrainWrite, MayFail, Spend, TypeOK, UsedRec
  <2>2. CleanIsPublished'
    BY <1>14, <2>1 DEF PublishInv, DrainWrite, CleanIsPublished, PublishedAtFinal,
       DirtyUntilFinal, Running, Undeleted, bitVars
  <2>3. SnapshotIsCurrent'
    BY <1>14 DEF PublishInv, DrainWrite, SnapshotIsCurrent, Running, TypeOK, DrainRec,
       diskVars, bitVars
  <2>4. DirtyUntilFinal'
    BY <1>14, <2>1 DEF PublishInv, DrainWrite, DirtyUntilFinal, Running, Undeleted, TypeOK,
       DrainRec, bitVars
  <2>5. PublishedAtFinal'
    <3>1. drain'.has /\ drain'.snap = drain.snap /\ drain'.ids = drain.ids
      BY <1>14 DEF DrainWrite, PublishInv, PublishedAtFinal, TypeOK, DrainRec
    <3>2. ~drain'.ok \/ (cp'.bits = drain.snap /\ cp'.ids = drain.ids)
      <4>1. CASE cp' = [bits |-> drain.snap, ids |-> drain.ids, there |-> TRUE]
        BY <4>1
      <4>2. CASE drain' = [drain EXCEPT !.at = "final", !.ok = FALSE]
        BY <4>2 DEF TypeOK, DrainRec
      <4> QED
        BY <1>14, <4>1, <4>2 DEF DrainWrite
    <3> QED
      BY <3>1, <3>2 DEF PublishedAtFinal
  <2>6. MissingIsEmpty'
    BY <1>14, <2>1 DEF PublishInv, DrainWrite, MissingIsEmpty, Undeleted, fileVars, lifeVars
  <2> QED
    BY <2>1, <2>2, <2>3, <2>4, <2>5, <2>6 DEF PublishInv
<1>15. CASE DrainFinal
  <2>1. CleanIsPublished'
    BY <1>15 DEF PublishInv, DrainFinal, CleanIsPublished, Recorded, Undeleted,
       SnapshotIsCurrent, PublishedAtFinal, DirtyUntilFinal, Running, fileVars, diskVars,
       lifeVars
  <2>2. drain'.at = "ret"
    BY <1>15 DEF PublishInv, DrainFinal, TypeOK, DrainRec
  <2>3. MissingIsEmpty'
    BY <1>15 DEF PublishInv, DrainFinal, MissingIsEmpty, Undeleted, NoCp, fileVars, lifeVars
  <2> QED
    BY <1>15, <2>1, <2>2, <2>3 DEF PublishInv, DrainFinal, SnapshotIsCurrent, Running,
       DirtyUntilFinal, Undeleted, PublishedAtFinal
<1>16. CASE TimerReturns
  BY <1>16 DEF PublishInv, TimerReturns, CleanIsPublished, Recorded, SnapshotIsCurrent,
     DirtyUntilFinal, PublishedAtFinal, MissingIsEmpty, Running, Undeleted, NoDrain,
     diskVars, fileVars, bitVars, lifeVars
<1>17. CASE VerifyReturns
  BY <1>17 DEF PublishInv, VerifyReturns, CleanIsPublished, Recorded, SnapshotIsCurrent,
     DirtyUntilFinal, PublishedAtFinal, MissingIsEmpty, Running, Undeleted, NoDrain,
     diskVars, fileVars, bitVars
<1>18. CASE CloseReturns
  BY <1>18 DEF PublishInv, CloseReturns, CleanIsPublished, Recorded, SnapshotIsCurrent,
     DirtyUntilFinal, PublishedAtFinal, MissingIsEmpty, Running, Undeleted, Dropped,
     NoDrain, fileVars
<1>19. CASE DeleteCheckpoint
  <2>1. used'.delete # 0
    BY <1>19 DEF PublishInv, DeleteCheckpoint, Spend, TypeOK, UsedRec
  <2> QED
    BY <1>19, <2>1 DEF PublishInv, DeleteCheckpoint, CleanIsPublished, Recorded, Undeleted,
       SnapshotIsCurrent, Running, DirtyUntilFinal, PublishedAtFinal, MissingIsEmpty,
       diskVars, fileVars
<1>20. CASE DeleteFile
  <2>1. used.delete # 0
    BY <1>20 DEF PublishInv, DeleteFile, MissingIsEmpty, Undeleted
  <2>2. \A c \in past' \cup {cp'} : ~c.there => c.bits = {}
    BY <1>20 DEF PublishInv, DeleteFile, MissingIsEmpty, NoCp
  <2> QED
    BY <1>20, <2>1, <2>2 DEF PublishInv, DeleteFile, CleanIsPublished, Recorded, Undeleted,
       SnapshotIsCurrent, Running, DirtyUntilFinal, PublishedAtFinal, MissingIsEmpty,
       diskVars, bitVars
<1>21. CASE Kill
  <2>1. used'.delete = used.delete
    BY <1>21 DEF PublishInv, Kill, Spend, TypeOK, UsedRec
  <2> QED
    BY <1>21, <2>1 DEF PublishInv, Kill, CleanIsPublished, Recorded, Undeleted,
       SnapshotIsCurrent, Running, DirtyUntilFinal, PublishedAtFinal, MissingIsEmpty,
       Dropped, NoDrain, fileVars
<1>22. CASE PowerLoss
  <2>1. used'.delete = used.delete
    BY <1>22 DEF PublishInv, PowerLoss, Spend, TypeOK, UsedRec
  <2>2. MissingIsEmpty'
    BY <1>22 DEF PublishInv, PowerLoss, MissingIsEmpty
  <2> QED
    BY <1>22, <2>1, <2>2 DEF PublishInv, PowerLoss, CleanIsPublished, Recorded, Undeleted,
       SnapshotIsCurrent, Running, DirtyUntilFinal, PublishedAtFinal, Dropped, NoDrain
<1>23. CASE UNCHANGED vars
  BY <1>23 DEF PublishInv, CleanIsPublished, Recorded, SnapshotIsCurrent, DirtyUntilFinal,
     PublishedAtFinal, MissingIsEmpty, Running, Undeleted, vars, diskVars, fileVars,
     bitVars, timerVars, lifeVars
<1> QED
  BY <1>1, <1>2, <1>3, <1>4, <1>5, <1>6, <1>7, <1>8, <1>9, <1>10, <1>11, <1>12, <1>13,
     <1>14, <1>15, <1>16, <1>17, <1>18, <1>19, <1>20, <1>21, <1>22, <1>23 DEF Next,
     DrainStep

\* While the dirty flag is clear the checkpoint file holds every completed piece: no
\* completion that a running drain missed is ever forgotten.
THEOREM CleanPublished == Spec => []CleanIsPublished
<1>1. Init => PublishInv
  BY DEF Init, PublishInv, CleanIsPublished, SnapshotIsCurrent, DirtyUntilFinal,
     PublishedAtFinal, MissingIsEmpty, Running, NoCp, NoDrain
<1>2. TypeOK /\ DurabilityInv /\ PublishInv /\ [Next]_vars => PublishInv'
  BY PublishStep DEF DurabilityInv
<1>3. PublishInv => CleanIsPublished
  BY DEF PublishInv
<1> QED
  BY <1>1, <1>2, <1>3, TypeCorrect, DurabilityInvariant, PTL DEF Spec
----------------------------------------------------------------------------
(* Deletion.  The file may come back only between a publish that raced the *)
(* deletion and its undoing, and a drain that runs then has the generation *)
(* of before, so that it will see that it must undo.                       *)

RacingDrainIsOld == Running => drain.gen <= gen /\ (deleted => drain.gen # gen)
BackOnlyUntilUndone == deleted /\ drain.at # "final" => ~cp.there

DeletionInv == RacingDrainIsOld /\ BackOnlyUntilUndone

\* A step that leaves the deletion, the checkpoint file, the generation and the stage of
\* the drain alone, or that ends it, keeps the invariant.
LEMMA DeletionUntouched ==
    ASSUME DeletionInv, UNCHANGED <<cp, deleted, gen, drain>>
    PROVE  DeletionInv'
  BY DEF DeletionInv, RacingDrainIsOld, BackOnlyUntilUndone, Running

\* Every step keeps the invariant.
LEMMA DeletionStep ==
    ASSUME TypeOK, OneDrain, DeletionInv, [Next]_vars
    PROVE  DeletionInv'
<1> USE DEF DeletionInv, RacingDrainIsOld, BackOnlyUntilUndone, Running
<1>1. ASSUME NEW ids \in Idents, NEW checks \in BOOLEAN, Attach(ids, checks)
      PROVE  DeletionInv'
  BY <1>1 DEF Attach, OneDrain, fileVars
<1>2. ASSUME NEW p \in Pieces, Save(p) \/ MarkComplete(p) \/ MarkNotComplete(p)
      PROVE  DeletionInv'
  BY <1>2, DeletionUntouched DEF Save, MarkComplete, MarkNotComplete, fileVars, lifeVars
<1>3. ASSUME NEW F \in SUBSET Files, UpdateSelection(F) PROVE DeletionInv'
  BY <1>3, DeletionUntouched DEF UpdateSelection, fileVars
<1>4. CASE TimerFires \/ MarkVerified \/ Close
  <2>1. CASE UNCHANGED drain
    BY <1>4, <2>1, DeletionUntouched DEF TimerFires, MarkVerified, Close, fileVars, lifeVars
  <2>2. CASE \E by \in {"timer", "verify", "close"} : Begin(by) /\ ~flushing
    <3>1. drain.at = "idle" /\ drain'.at = "snap"
      BY <2>2 DEF Begin, NoDrain, OneDrain
    <3> QED
      BY <1>4, <3>1 DEF TimerFires, MarkVerified, Close, fileVars, lifeVars
  <2> QED
    BY <1>4, <2>1, <2>2 DEF TimerFires, MarkVerified, Close
<1>5. CASE CancelVerify
  BY <1>5, DeletionUntouched DEF CancelVerify, fileVars
<1>6. CASE DrainSnapshot
  <2>1. \/ drain'.at = "ret" /\ UNCHANGED deleted
        \/ drain'.gen = gen /\ deleted' = FALSE
    BY <1>6 DEF DrainSnapshot, TypeOK, DrainRec
  <2>2. UNCHANGED <<cp, gen>> /\ drain.at = "snap"
    BY <1>6 DEF DrainSnapshot, fileVars
  <2> QED
    BY <2>1, <2>2 DEF TypeOK, CountsOK
<1>7. ASSUME NEW s \in Files \X Nodes, DrainSync(s) PROVE DeletionInv'
  <2>1. drain'.at = drain.at /\ drain'.gen = drain.gen
    BY <1>7 DEF DrainSync, TypeOK, DrainRec
  <2> QED
    BY <1>7, <2>1 DEF DrainSync, fileVars, lifeVars
<1>8. CASE DrainSynced \/ DrainCheck
  <2>1. /\ drain.at \in {"sync", "check"} /\ drain'.at \in {"check", "write", "ret"}
        /\ drain'.gen = drain.gen
    BY <1>8 DEF DrainSynced, DrainCheck, TypeOK, DrainRec
  <2> QED
    BY <1>8, <2>1 DEF DrainSynced, DrainCheck, fileVars, lifeVars
<1>9. CASE DrainWrite
  <2>1. drain.at = "write" /\ drain'.at = "final" /\ drain'.gen = drain.gen
    BY <1>9 DEF DrainWrite, TypeOK, DrainRec
  <2> QED
    BY <1>9, <2>1 DEF DrainWrite, lifeVars
<1>10. CASE DrainFinal
  <2>1. drain.at = "final" /\ drain'.at = "ret"
    BY <1>10 DEF DrainFinal, TypeOK, DrainRec
  <2>2. deleted => cp' = NoCp
    BY <1>10, <2>1 DEF DrainFinal
  <2> QED
    BY <1>10, <2>1, <2>2 DEF DrainFinal, NoCp, lifeVars
<1>11. CASE TimerReturns \/ VerifyReturns \/ CloseReturns
  <2>1. drain.at = "ret" /\ drain'.at = "idle"
    BY <1>11 DEF TimerReturns, VerifyReturns, CloseReturns, Dropped, NoDrain
  <2> QED
    BY <1>11, <2>1 DEF TimerReturns, VerifyReturns, CloseReturns, fileVars, lifeVars
<1>12. CASE DeleteCheckpoint
  BY <1>12 DEF DeleteCheckpoint, TypeOK, CountsOK, DrainRec, fileVars
<1>13. CASE DeleteFile
  BY <1>13 DEF DeleteFile, NoCp
<1>14. CASE Kill \/ PowerLoss
  BY <1>14 DEF Kill, PowerLoss, Dropped, NoDrain
<1>15. CASE UNCHANGED vars
  BY <1>15, DeletionUntouched DEF vars, fileVars, lifeVars
<1> QED
  BY <1>1, <1>2, <1>3, <1>4, <1>5, <1>6, <1>7, <1>8, <1>9, <1>10, <1>11, <1>12, <1>13,
     <1>14, <1>15 DEF Next, DrainStep

\* A checkpoint the user deleted stays deleted: whatever drain was running when the file
\* was removed, once it has returned there is no file, until a later snapshot is taken.
THEOREM DeletedStays == Spec => []DeletedStaysDeleted
<1>1. Init => DeletionInv
  BY DEF Init, DeletionInv, RacingDrainIsOld, BackOnlyUntilUndone, Running, NoCp, NoDrain
<1>2. TypeOK /\ DurabilityInv /\ DeletionInv /\ [Next]_vars => DeletionInv'
  BY DeletionStep DEF DurabilityInv
<1>3. DeletionInv => DeletedStaysDeleted
  BY DEF DeletionInv, BackOnlyUntilUndone, DeletedStaysDeleted
<1> QED
  BY <1>1, <1>2, <1>3, TypeCorrect, DurabilityInvariant, PTL DEF Spec
=============================================================================
