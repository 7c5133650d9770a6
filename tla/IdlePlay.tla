------------------------------ MODULE IdlePlay ------------------------------
(***************************************************************************)
(* Resting an idle Direct Play session and waking it.                      *)
(*                                                                         *)
(* The tick of every second holds the record's lock; reads take only the   *)
(* lock of the idle state, so that a wake, which needs both, runs on a     *)
(* thread of its own.  Time is abstracted: last activity grows old at any  *)
(* moment while no read is under way.                                      *)
(***************************************************************************)
EXTENDS Naturals, FiniteSets

CONSTANTS Readers,    \* the reads that may be under way
          Wakers,     \* the threads that wake_direct_play may run on
          MaxChanges  \* changes of the record and the settings

VARIABLES
    policy,     \* IdleDirectPlay: the reads under way, resting, old activity
    restPeers,  \* rest_peers holds addresses
    cap,        \* the torrent may have connections
    resting,    \* the record's copy
    tick,       \* where the tick is in its visit of the record
    waker,      \* where each wake thread is
    eligible,   \* direct play, configured, not paused; the idle limit is not 0
    changes

vars == <<policy, restPeers, cap, resting, tick, waker, eligible, changes>>

Init ==
    /\ policy = [reading |-> {}, resting |-> FALSE, old |-> FALSE]
    /\ restPeers = FALSE /\ cap = TRUE /\ resting = FALSE
    /\ tick = "none"
    /\ waker = [w \in Wakers |-> "none"]
    /\ eligible = TRUE /\ changes = 0

RecordFree == tick = "none"

\* spawn_wake_direct_play
Spawn ==
    /\ \E w \in Wakers : waker[w] = "none"
    /\ waker' = [waker EXCEPT ![CHOOSE w \in Wakers : waker[w] = "none"] = "state"]

-----------------------------------------------------------------------------
(* Reads.                                                                  *)

BeginRead(r) ==
    /\ r \notin policy.reading
    /\ policy' = [policy EXCEPT !.reading = @ \cup {r}, !.old = FALSE]
    /\ IF policy.resting THEN Spawn ELSE UNCHANGED waker
    /\ UNCHANGED <<restPeers, cap, resting, tick, eligible, changes>>

EndRead(r) ==
    /\ r \in policy.reading
    /\ policy' = [policy EXCEPT !.reading = @ \ {r}, !.old = FALSE]
    /\ UNCHANGED <<restPeers, cap, resting, tick, waker, eligible, changes>>

\* /play touches the session and wakes it while the player starts.
Touch ==
    /\ policy' = [policy EXCEPT !.old = FALSE]
    /\ IF policy.resting THEN Spawn ELSE UNCHANGED waker
    /\ UNCHANGED <<restPeers, cap, resting, tick, eligible, changes>>

Age ==
    /\ ~policy.old
    /\ policy' = [policy EXCEPT !.old = TRUE]
    /\ UNCHANGED <<restPeers, cap, resting, tick, waker, eligible, changes>>

-----------------------------------------------------------------------------
(* wake_direct_play.                                                       *)

\* Under the idle lock: the first waker takes the addresses.
MarkAwake(w) ==
    /\ waker[w] = "state"
    /\ waker' = [waker EXCEPT ![w] = IF policy.resting THEN "record" ELSE "none"]
    /\ policy' = [policy EXCEPT !.resting = FALSE]
    /\ restPeers' = (restPeers /\ ~policy.resting)
    /\ UNCHANGED <<cap, resting, tick, eligible, changes>>

\* Under the record's lock: addresses and slots are given back.
Wake(w) ==
    /\ waker[w] = "record" /\ RecordFree
    /\ waker' = [waker EXCEPT ![w] = "none"]
    /\ cap' = TRUE /\ resting' = FALSE
    /\ UNCHANGED <<policy, restPeers, tick, eligible, changes>>

-----------------------------------------------------------------------------
(* direct_play_idle_tick, with the record's lock.                          *)

\* Mutant: a read that waits does not keep the session awake.
TickOverReads(filling) ==
    /\ tick = "none"
    /\ LET rests == eligible /\ ~filling /\ policy.old /\ ~policy.resting
           wakes == ~eligible /\ policy.resting
       IN /\ policy' = [policy EXCEPT !.resting = (eligible /\ @) \/ rests,
                                      !.old = @ /\ eligible]
          /\ tick' = IF rests THEN "rest" ELSE IF wakes THEN "wake" ELSE "none"
    /\ UNCHANGED <<restPeers, cap, resting, waker, eligible, changes>>

Tick(filling) ==
    /\ tick = "none"
    /\ LET rests == /\ eligible /\ policy.reading = {} /\ ~filling
                    /\ policy.old /\ ~policy.resting
           wakes == ~eligible /\ policy.resting
       IN /\ policy' = [policy EXCEPT !.resting = (eligible /\ @) \/ rests,
                                      !.old = @ /\ eligible]
          /\ tick' = IF rests THEN "rest" ELSE IF wakes THEN "wake" ELSE "none"
    /\ UNCHANGED <<restPeers, cap, resting, waker, eligible, changes>>

\* Mutant: a read that woke the session meanwhile is not noticed.
RestAnyway ==
    /\ tick = "rest"
    /\ tick' = "none"
    /\ restPeers' = cap /\ cap' = FALSE /\ resting' = TRUE
    /\ UNCHANGED <<policy, waker, eligible, changes>>

\* rest_direct_play looks again under the idle lock.
Rest ==
    /\ tick = "rest"
    /\ tick' = "none"
    /\ IF policy.resting
       THEN restPeers' = cap /\ cap' = FALSE /\ resting' = TRUE
       ELSE UNCHANGED <<restPeers, cap, resting>>
    /\ UNCHANGED <<policy, waker, eligible, changes>>

\* A session that may not rest any more is woken by the tick itself.
TickWakes ==
    /\ tick = "wake"
    /\ tick' = "none"
    /\ restPeers' = FALSE /\ cap' = TRUE /\ resting' = FALSE
    /\ UNCHANGED <<policy, waker, eligible, changes>>

\* Pausing, resuming, and the idle limit of the settings.
Change ==
    /\ RecordFree /\ changes < MaxChanges
    /\ eligible' = ~eligible /\ changes' = changes + 1
    /\ UNCHANGED <<policy, restPeers, cap, resting, tick, waker>>

\* /settings gives a new limit to sessions that do not rest.
SetMaxPeers ==
    /\ RecordFree /\ ~resting
    /\ cap' = TRUE
    /\ UNCHANGED <<policy, restPeers, resting, tick, waker, eligible, changes>>

Next ==
    \/ \E r \in Readers : BeginRead(r)
    \/ \E r \in Readers : EndRead(r)
    \/ Touch
    \/ Age
    \/ \E w \in Wakers : MarkAwake(w)
    \/ \E w \in Wakers : Wake(w)
    \/ \E filling \in BOOLEAN : Tick(filling)
    \/ Rest
    \/ TickWakes
    \/ Change
    \/ SetMaxPeers

\* Threads that were started run, and the tick finishes its visit.
Fairness ==
    /\ \A w \in Wakers : WF_vars(MarkAwake(w)) /\ WF_vars(Wake(w))
    /\ WF_vars(Rest) /\ WF_vars(TickWakes)

Spec == Init /\ [][Next]_vars

-----------------------------------------------------------------------------
(* Properties.                                                             *)

\* A read that waits for bytes gets connections: whatever tick, read or
\* /play rested or woke the session, it does not stay without them.
ReadGetsPeers == \A r \in Readers : (r \in policy.reading) ~> (cap \/ r \notin policy.reading)

\* While a read is under way the session has connections or somebody is
\* about to give them back.
ReaderIsServed ==
    policy.reading # {} =>
        \/ cap
        \/ tick = "wake"
        \/ \E w \in Wakers : waker[w] = "record" \/ (waker[w] = "state" /\ policy.resting)

\* Addresses are kept only while the session rests, so the next wake hands
\* them back: none are left behind by a rest that lost against a read.
PeersComeBack == restPeers => policy.resting \/ tick = "wake"
=============================================================================
