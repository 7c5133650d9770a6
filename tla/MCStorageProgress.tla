------------------------- MODULE MCStorageProgress -------------------------
(* What the storage promises to finish, on small instances of its two       *)
(* parts; part, which never changes, names the one that runs while the      *)
(* other stays in its initial state.                                        *)
(*   cache       evicting, waiting, writing through and closing (WriteBack, *)
(*               with the constants of the .cfg);                           *)
(*   checkpoint  failed syncs and writes that the timer retries.            *)
EXTENDS WriteBack, TLC

CONSTANTS p1, p2, f1, f2
VARIABLE part

VARIABLES
    cp_cache, cp_dur, cp_node, cp_cp, cp_past, cp_open, cp_completed,
    cp_pending, cp_dirty, cp_seq, cp_gen, cp_filesGen, cp_flushing,
    cp_scheduled, cp_frozen, cp_verify, cp_deleting, cp_deleted, cp_drain,
    cp_used

cpVars ==
    <<cp_cache, cp_dur, cp_node, cp_cp, cp_past, cp_open, cp_completed,
      cp_pending, cp_dirty, cp_seq, cp_gen, cp_filesGen, cp_flushing,
      cp_scheduled, cp_frozen, cp_verify, cp_deleting, cp_deleted, cp_drain,
      cp_used>>

K == INSTANCE Checkpoint WITH
        Pieces <- {p1, p2}, Files <- {f1, f2},
        Span <- (p1 :> {f1}) @@ (p2 :> {f1, f2}), MaxSelections <- 1,
        MaxRejects <- 0, MaxFailures <- 1, MaxCrashes <- 0, MaxOpens <- 1,
        MaxVerifies <- 0, MaxDeletes <- 0, cache <- cp_cache, dur <- cp_dur,
        node <- cp_node, cp <- cp_cp, past <- cp_past, open <- cp_open,
        completed <- cp_completed, pending <- cp_pending, dirty <- cp_dirty,
        seq <- cp_seq, gen <- cp_gen, filesGen <- cp_filesGen,
        flushing <- cp_flushing, scheduled <- cp_scheduled,
        frozen <- cp_frozen, verify <- cp_verify, deleting <- cp_deleting,
        deleted <- cp_deleted, drain <- cp_drain, used <- cp_used

MCInit == part \in {"cache", "checkpoint"} /\ Init /\ K!Init
MCNext == \/ part = "cache" /\ Next /\ UNCHANGED <<part, cpVars>>
          \/ part = "checkpoint" /\ K!Next /\ UNCHANGED <<part, vars>>
MCSpec == /\ MCInit /\ [][MCNext]_<<part, vars, cpVars>>
          /\ \/ part = "cache" /\ Fairness
             \/ part = "checkpoint" /\ K!Fairness

(* A block write that started returns, whatever evicts, flushes or waits on *)
(* flush_done beside it (WriteReturns, piece.rs).                           *)
CacheWriteReturns == part = "cache" => WriteReturns

(* A completed piece is in the checkpoint file some time after it finished, *)
(* whatever fails on the way (EventuallyRecorded, checkpoint_flush.rs).     *)
CompletionIsRecorded == part = "checkpoint" => K!EventuallyRecorded
=============================================================================
