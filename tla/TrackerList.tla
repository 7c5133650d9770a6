----------------------------- MODULE TrackerList -----------------------------
(***************************************************************************)
(* The public tracker list: a cache in memory and on disk that a worker    *)
(* refreshes with conditional requests and a growing delay after failures, *)
(* and the torrents that the list supplements once their metadata says     *)
(* they are not private.  Time counts down to the next attempt, in units   *)
(* of the first delay.                                                     *)
(***************************************************************************)
EXTENDS Integers, FiniteSets

CONSTANTS Lists,       \* what the source published: versions to sets of trackers
          Default,     \* DEFAULT_ANNOUNCE
          Core,        \* the first of them, which every snapshot holds
          Torrents,
          Limit,       \* TRACKER_SUPPLEMENT_LIMIT
          MaxFailures, \* 7: where the delay stops growing
          Day,         \* TRACKER_REFRESH_INTERVAL, in units
          Far,         \* a next attempt beyond a day, after the clock moved back
          MaxFaults    \* failed fetches, crashes and changed clocks

VARIABLES
    source,    \* the version the source serves
    cache,     \* trackers, the tag they came with, failures, time to the next attempt
    disk,      \* the cache as saved
    fetch,     \* the refresh under way: at, its copy of the cache, its error
    torrents,  \* what is known of each torrent and the trackers it was given
    faults

vars == <<source, cache, disk, fetch, torrents, faults>>

None == 0
NoCache == [list |-> {}, tag |-> None, failures |-> 0, wait |-> 0]
NoFetch == [at |-> "idle", copy |-> NoCache, error |-> FALSE]
Lesser(a, b) == IF a < b THEN a ELSE b

Init ==
    /\ source = 1
    /\ cache = NoCache /\ disk = NoCache /\ fetch = NoFetch
    /\ torrents = [t \in Torrents |-> [at |-> "absent", private |-> FALSE, given |-> {}]]
    /\ faults = 0

Fault == faults < MaxFaults /\ faults' = faults + 1

-----------------------------------------------------------------------------
(* refresh_from                                                            *)

\* The worker wakes, takes a copy of the cache and sends its request.
Begin ==
    /\ fetch.at = "idle" /\ cache.wait = 0
    /\ fetch' = [at |-> "asks", copy |-> cache, error |-> FALSE]
    /\ UNCHANGED <<source, cache, disk, torrents, faults>>

Unchanged(c) == c.tag # None /\ c.tag = source

\* Mutant: the tag of a list without a usable tracker is kept.
ReceiveTagged ==
    /\ fetch.at = "asks"
    /\ fetch' =
         [fetch EXCEPT !.at = "stores",
             !.copy = IF Unchanged(@) THEN @
                      ELSE [@ EXCEPT !.tag = source,
                                     !.list = IF Lists[source] = {} THEN @ ELSE Lists[source]],
             !.error = IF Unchanged(fetch.copy) THEN fetch.copy.list = {} ELSE Lists[source] = {}]
    /\ UNCHANGED <<source, cache, disk, torrents, faults>>

\* Not modified, or a list; an empty one is refused and what was cached stays.
Receive ==
    /\ fetch.at = "asks"
    /\ fetch' =
         [fetch EXCEPT !.at = "stores",
             !.copy = IF Unchanged(@) \/ Lists[source] = {} THEN @
                      ELSE [@ EXCEPT !.tag = source, !.list = Lists[source]],
             !.error = IF Unchanged(fetch.copy) THEN fetch.copy.list = {} ELSE Lists[source] = {}]
    /\ UNCHANGED <<source, cache, disk, torrents, faults>>

FetchFails ==
    /\ Fault /\ fetch.at = "asks"
    /\ fetch' = [fetch EXCEPT !.at = "stores", !.error = TRUE]
    /\ UNCHANGED <<source, cache, disk, torrents>>

\* The outcome goes into the cache with the time of the next attempt.
Delayed(c) == Lesser(2 ^ (c.failures - 1), Day)

After(c, error) ==
    IF error
    THEN LET d == [c EXCEPT !.failures = Lesser(@ + 1, MaxFailures)]
         IN [d EXCEPT !.wait = Delayed(d)]
    ELSE [c EXCEPT !.failures = 0, !.wait = Day]

Store ==
    /\ fetch.at = "stores"
    /\ cache' = After(fetch.copy, fetch.error)
    /\ fetch' = [fetch EXCEPT !.at = "saves", !.copy = After(fetch.copy, fetch.error)]
    /\ UNCHANGED <<source, disk, torrents, faults>>

\* A blocking thread writes a new file and renames it, or fails.
Save ==
    /\ fetch.at = "saves"
    /\ fetch' = NoFetch
    /\ \/ disk' = fetch.copy /\ UNCHANGED faults
       \/ Fault /\ UNCHANGED disk
    /\ UNCHANGED <<source, cache, torrents>>

\* Mutant: the next attempt is believed as it was saved.
LoadedAsIs(d) == d

\* TrackerPool::new: a next attempt beyond a day is not believed.
Loaded(d) == [d EXCEPT !.wait = IF @ > Day THEN 0 ELSE @]

\* The process dies at any point and starts again; the clock may have moved
\* back meanwhile.  A save under way may still have landed.
Restart ==
    /\ Fault
    /\ \E saved \in {disk} \cup (IF fetch.at = "saves" THEN {fetch.copy} ELSE {}),
          back \in BOOLEAN :
         LET seen == IF back THEN [saved EXCEPT !.wait = Far] ELSE saved
         IN cache' = Loaded(seen) /\ disk' = saved
    /\ fetch' = NoFetch
    /\ torrents' = [t \in Torrents |-> [at |-> "absent", private |-> FALSE, given |-> {}]]
    /\ UNCHANGED source

Tick ==
    /\ cache.wait > 0 /\ fetch.at = "idle"
    /\ cache' = [cache EXCEPT !.wait = @ - 1]
    /\ disk' = [disk EXCEPT !.wait = IF @ > 0 THEN @ - 1 ELSE 0]
    /\ UNCHANGED <<source, fetch, torrents, faults>>

\* The source publishes another list.
Republish ==
    /\ source + 1 \in DOMAIN Lists
    /\ source' = source + 1
    /\ UNCHANGED <<cache, disk, fetch, torrents, faults>>

-----------------------------------------------------------------------------
(* supplement_trackers, after an addition, when metadata arrives, after a  *)
(* refresh and at every tick of the sampler.                               *)

AddTorrent(t, private, at) ==
    /\ torrents[t].at = "absent"
    /\ torrents' = [torrents EXCEPT ![t].at = at, ![t].private = private]
    /\ UNCHANGED <<source, cache, disk, fetch, faults>>

GotInfo(t) ==
    /\ torrents[t].at = "magnet"
    /\ torrents' = [torrents EXCEPT ![t].at = "info"]
    /\ UNCHANGED <<source, cache, disk, fetch, faults>>

Snapshot == IF cache.list = {} THEN Default ELSE Core \cup cache.list

\* As many of the missing trackers as the limit still allows.
Supplemented(t) ==
    LET missing == Snapshot \ torrents[t].given
        room == Limit - Cardinality(torrents[t].given)
    IN /\ missing # {} /\ room > 0
       /\ \E more \in SUBSET missing :
            /\ Cardinality(more) = Lesser(room, Cardinality(missing))
            /\ torrents' = [torrents EXCEPT ![t].given = @ \cup more]
       /\ UNCHANGED <<source, cache, disk, fetch, faults>>

\* Mutant: a magnet is supplemented before its metadata is known.
SupplementEarly(t) ==
    /\ torrents[t].at = "info" => ~torrents[t].private
    /\ torrents[t].at # "absent"
    /\ Supplemented(t)

Supplement(t) ==
    /\ torrents[t].at = "info" /\ ~torrents[t].private
    /\ Supplemented(t)

-----------------------------------------------------------------------------

Worker == Begin \/ Receive \/ Store \/ Save

Next ==
    \/ Worker \/ FetchFails \/ Restart \/ Tick \/ Republish
    \/ \E t \in Torrents :
         \/ \E p \in BOOLEAN, at \in {"magnet", "info"} : AddTorrent(t, p, at)
         \/ GotInfo(t) \/ Supplement(t)

Spec == Init /\ [][Next]_vars

-----------------------------------------------------------------------------
(* Properties.                                                             *)

\* The cached list is the list its tag stands for, after every mixture of
\* failures, refused lists and restarts, so that "not modified" never
\* confirms a list the source has replaced (refresh_from).
TagIsOfList ==
    \A c \in {cache, disk} : (c.tag = None) = (c.list = {}) /\ (c.tag # None => c.list = Lists[c.tag])

\* However often the list changes, a torrent is never given more than the
\* limit, and a private one is given no public tracker, also one added as a
\* magnet before anybody knows it is private (supplement_trackers).
SupplementIsLawful ==
    \A t \in Torrents :
        /\ Cardinality(torrents[t].given) <= Limit
        /\ torrents[t].private => torrents[t].given = {}

\* The next attempt is never more than a day away, also after a restart under
\* a clock that moved back (TrackerPool::new).
AttemptIsNear == cache.wait <= Day

\* The list and what is done with it keep to the rules, after any failures.
ListIsLawful == TagIsOfList /\ SupplementIsLawful /\ AttemptIsNear
=============================================================================
