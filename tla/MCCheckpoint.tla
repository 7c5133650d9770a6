---------------------------- MODULE MCCheckpoint ----------------------------
(* Small instances of Checkpoint for TLC: a piece inside the first file and *)
(* one across the boundary of both.  Behaviours stay within one of two sets *)
(* of bounds; part, which never changes, says which.                        *)
(*   select  kill or power loss, restart with any earlier destination, one  *)
(*           reselection;                                                   *)
(*   delete  failed syncs and writes, restore verification, deletion racing *)
(*           a publish.                                                     *)
EXTENDS Checkpoint, TLC

CONSTANTS p1, p2, f1, f2
MCPieces == {p1, p2}
MCFiles  == {f1, f2}
MCSpan   == (p1 :> {f1}) @@ (p2 :> {f1, f2})

VARIABLE part

S == INSTANCE Checkpoint WITH
        MaxRejects <- 0, MaxFailures <- 0, MaxVerifies <- 0, MaxDeletes <- 0
D == INSTANCE Checkpoint WITH MaxSelections <- 0

MCInit == Init /\ part \in {"select", "delete"}
MCNext == \/ part = "select" /\ S!Next /\ UNCHANGED part
          \/ part = "delete" /\ D!Next /\ UNCHANGED part
MCSpec == MCInit /\ [][MCNext]_<<part, vars>>
=============================================================================
