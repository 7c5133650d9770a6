---------------------------- MODULE MCWriteBack ----------------------------
(* Two small instances of WriteBack in one state space; part, which never  *)
(* changes, names the one a behaviour belongs to.                          *)
(*   evict    the constants of the .cfg: one slot for two pieces, so every *)
(*            write of the other piece evicts, and one failed disk access; *)
(*   refresh  one piece of three blocks, a reselection of its file and two *)
(*            threads that refresh its completion while it is hashed.      *)
EXTENDS WriteBack, TLC

CONSTANTS q1, d1, d2, d3, r1
VARIABLE part

R == INSTANCE WriteBack WITH
        Pieces <- {q1}, Blocks <- {d1, d2, d3}, First <- d1,
        Refreshers <- {r1}, MaxIoErrors <- 0,
        MaxSelections <- 1, MaxRefreshes <- 2

MCInit == \/ part = "evict" /\ Init
          \/ part = "refresh" /\ R!Init
MCNext == \/ part = "evict" /\ Next /\ UNCHANGED part
          \/ part = "refresh" /\ R!Next /\ UNCHANGED part
MCSpec == MCInit /\ [][MCNext]_<<part, vars>>

Symmetry == Permutations(Pieces) \cup Permutations(Writers)
            \cup Permutations({d2, d3})
=============================================================================
