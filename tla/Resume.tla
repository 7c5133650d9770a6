------------------------------- MODULE Resume -------------------------------
(***************************************************************************)
(* Saved resume windows.                                                   *)
(*                                                                         *)
(* A reader that closes schedules a save; the newest one of a torrent is   *)
(* written two quiet seconds later, on a thread of its own, by a copy of   *)
(* verified bytes and then a publication under the resume lock.  Clearing  *)
(* the cache, a full budget and /remove delete windows meanwhile.  A       *)
(* window is named by the generation of the save that wrote it.            *)
(***************************************************************************)
EXTENDS Naturals, FiniteSets

CONSTANTS Hashes,     \* the torrents
          MaxSaves,   \* saves that may be scheduled
          MaxClears,  \* times the cache may be cleared
          Budget      \* windows that fit in RESUME_WINDOW_TOTAL_MAX

VARIABLES
    generation,       \* the last save that was scheduled
    clears,           \* clear_generation
    save,             \* the saves, by generation
    pending,          \* the save of each torrent that waits for its timer, or 0
    disk, known,      \* the window of each torrent on disk and in memory, or 0
    listed,           \* torrents with a record that is not closed
    held,             \* torrents with an open reader or a resume demand
    removing,         \* torrents whose directory /remove still has to delete
    clearing,         \* the clear request under way
    shutting,         \* shutting_down
    clearedAt         \* the clear that last removed each torrent's window

vars == <<generation, clears, save, pending, disk, known, listed, held, removing, clearing,
          shutting, clearedAt>>

None == 0
NoSave == [at |-> "none", hash |-> CHOOSE h \in Hashes : TRUE, clears |-> 0, protected |-> {}]
NoClear == [runs |-> FALSE, resume |-> FALSE, protected |-> {}]

Init ==
    /\ generation = 0 /\ clears = 0 /\ shutting = FALSE
    /\ save = [g \in 1..MaxSaves |-> NoSave]
    /\ pending = [h \in Hashes |-> None]
    /\ disk = [h \in Hashes |-> None] /\ known = disk
    /\ listed = Hashes /\ held = {} /\ removing = {}
    /\ clearing = NoClear
    /\ clearedAt = [h \in Hashes |-> 0]

-----------------------------------------------------------------------------
(* Saving.                                                                 *)

OpenReader(h) ==
    /\ h \in listed \ held /\ ~shutting
    /\ held' = held \cup {h}
    /\ UNCHANGED <<generation, clears, save, pending, disk, known, listed, removing, clearing,
                   shutting, clearedAt>>

\* schedule_resume_persist, when a reader closes: an earlier save of the
\* torrent that still waits is replaced.
Schedule(h) ==
    /\ h \in listed \cap held /\ generation < MaxSaves
    /\ generation' = generation + 1
    /\ save' = [save EXCEPT ![generation + 1] =
                  [at |-> "timer", hash |-> h, clears |-> clears, protected |-> {}]]
    /\ pending' = [pending EXCEPT ![h] = generation + 1]
    /\ UNCHANGED <<clears, disk, known, listed, held, removing, clearing, shutting, clearedAt>>

\* The demand that a closed reader left behind expires.
Release(h) ==
    /\ h \in held
    /\ held' = held \ {h}
    /\ UNCHANGED <<generation, clears, save, pending, disk, known, listed, removing, clearing,
                   shutting, clearedAt>>

\* The timer takes its save if it is still the torrent's newest.
Timer(g) ==
    /\ save[g].at = "timer"
    /\ LET h == save[g].hash
           mine == pending[h] = g /\ ~shutting
       IN /\ save' = [save EXCEPT ![g].at = IF mine THEN "copy" ELSE "none"]
          /\ pending' = IF mine THEN [pending EXCEPT ![h] = None] ELSE pending
    /\ UNCHANGED <<generation, clears, disk, known, listed, held, removing, clearing, shutting,
                   clearedAt>>

\* close(): what waits for a timer is saved at once.
Shutdown ==
    /\ ~shutting
    /\ shutting' = TRUE
    /\ LET taken == {pending[h] : h \in Hashes} \ {None}
       IN save' = [g \in 1..MaxSaves |->
                     IF g \in taken THEN [save[g] EXCEPT !.at = "copy"] ELSE save[g]]
    /\ pending' = [h \in Hashes |-> None]
    /\ UNCHANGED <<generation, clears, disk, known, listed, held, removing, clearing, clearedAt>>

\* persist_resume copies the verified bytes there are, if the torrent is open.
Copy(g, verified) ==
    /\ save[g].at = "copy"
    /\ save' = [save EXCEPT ![g].at =
                  IF verified /\ save[g].hash \in listed THEN "protect" ELSE "none"]
    /\ UNCHANGED <<generation, clears, pending, disk, known, listed, held, removing, clearing,
                   shutting, clearedAt>>

\* protected_resume_hashes is read before the resume lock is taken.
Protect(g) ==
    /\ save[g].at = "protect"
    /\ save' = [save EXCEPT ![g].at = "publish", ![g].protected = listed \cap held]
    /\ UNCHANGED <<generation, clears, pending, disk, known, listed, held, removing, clearing,
                   shutting, clearedAt>>

\* remove_inactive_resume_windows
Kept(window, protected) == [h \in Hashes |-> IF h \in protected THEN window[h] ELSE None]

Fits(windows, h) == Cardinality({k \in Hashes \ {h} : windows[k] # None}) < Budget

\* Mutant: what was cleared since the save was scheduled is not looked at.
PublishOverClear(g, written) ==
    /\ save[g].at = "publish"
    /\ LET h == save[g].hash
           evicts == ~Fits(disk, h)
           left == IF evicts THEN Kept(disk, save[g].protected) ELSE disk
           leftKnown == IF evicts THEN Kept(known, save[g].protected) ELSE known
           done == written /\ Fits(left, h)
       IN /\ disk' = IF done THEN [left EXCEPT ![h] = g] ELSE left
          /\ known' = IF done THEN [leftKnown EXCEPT ![h] = g] ELSE leftKnown
    /\ save' = [save EXCEPT ![g].at = "none", ![g].protected = {}]
    /\ UNCHANGED <<generation, clears, pending, listed, held, removing, clearing, shutting,
                   clearedAt>>

\* Mutant: the budget is not looked at again after evicting.
PublishOnceEvicted(g, written) ==
    /\ save[g].at = "publish"
    /\ LET h == save[g].hash
           evicts == ~Fits(disk, h)
           left == IF evicts THEN Kept(disk, save[g].protected) ELSE disk
       IN IF clears = save[g].clears
          THEN disk' = [left EXCEPT ![h] = g] /\ known' = [known EXCEPT ![h] = g]
          ELSE UNCHANGED <<disk, known>>
    /\ save' = [save EXCEPT ![g].at = "none", ![g].protected = {}]
    /\ UNCHANGED <<generation, clears, pending, listed, held, removing, clearing, shutting,
                   clearedAt>>

\* Publication, under the resume lock: nothing of before a clear is written,
\* and inactive windows make room once.
Publish(g, written) ==
    /\ save[g].at = "publish"
    /\ LET h == save[g].hash
           evicts == ~Fits(disk, h)
           left == IF evicts THEN Kept(disk, save[g].protected) ELSE disk
           leftKnown == IF evicts THEN Kept(known, save[g].protected) ELSE known
           done == written /\ Fits(left, h)
       IN IF clears # save[g].clears
          THEN UNCHANGED <<disk, known>>
          ELSE /\ disk' = IF done THEN [left EXCEPT ![h] = g] ELSE left
               /\ known' = IF done THEN [leftKnown EXCEPT ![h] = g] ELSE leftKnown
    /\ save' = [save EXCEPT ![g].at = "none", ![g].protected = {}]
    /\ UNCHANGED <<generation, clears, pending, listed, held, removing, clearing, shutting,
                   clearedAt>>

\* apply_resume_window_to_storage, when a reader opens: a window that is not
\* in memory is loaded and injected.
Apply(h) ==
    /\ h \in listed
    /\ disk[h] # None
    /\ known' = [known EXCEPT ![h] = disk[h]]
    /\ UNCHANGED <<generation, clears, save, pending, disk, listed, held, removing, clearing,
                   shutting, clearedAt>>

-----------------------------------------------------------------------------
(* Clearing and removing.                                                  *)

\* clear_engine_cache for any valid categories: who is protected is read first.
ClearStart(resume) ==
    /\ ~clearing.runs /\ clears < MaxClears
    /\ clearing' = [runs |-> TRUE, resume |-> resume, protected |-> listed \cap held]
    /\ UNCHANGED <<generation, clears, save, pending, disk, known, listed, held, removing,
                   shutting, clearedAt>>

ClearEnd ==
    /\ clearing.runs
    /\ clears' = clears + 1
    /\ clearing' = NoClear
    /\ IF clearing.resume
       THEN /\ pending' = [h \in Hashes |-> None]
            /\ known' = [h \in Hashes |-> None]
            /\ disk' = Kept(disk, clearing.protected)
            /\ clearedAt' = [h \in Hashes |->
                               IF h \in clearing.protected THEN clearedAt[h] ELSE clears + 1]
       ELSE UNCHANGED <<pending, known, disk, clearedAt>>
    /\ UNCHANGED <<generation, save, listed, held, removing, shutting>>

\* /remove closes the torrent and its readers, then deletes the directory
\* without the resume lock.
Remove(h) ==
    /\ h \in listed
    /\ listed' = listed \ {h} /\ held' = held \ {h}
    /\ removing' = removing \cup {h}
    /\ UNCHANGED <<generation, clears, save, pending, disk, known, clearing, shutting, clearedAt>>

RemoveWindow(h) ==
    /\ h \in removing
    /\ removing' = removing \ {h}
    /\ disk' = [disk EXCEPT ![h] = None]
    /\ UNCHANGED <<generation, clears, save, pending, known, listed, held, clearing, shutting,
                   clearedAt>>

Next ==
    \/ \E h \in Hashes : OpenReader(h)
    \/ \E h \in Hashes : Schedule(h)
    \/ \E h \in Hashes : Release(h)
    \/ \E g \in 1..MaxSaves : Timer(g)
    \/ Shutdown
    \/ \E g \in 1..MaxSaves, verified \in BOOLEAN : Copy(g, verified)
    \/ \E g \in 1..MaxSaves : Protect(g)
    \/ \E g \in 1..MaxSaves, written \in BOOLEAN : Publish(g, written)
    \/ \E h \in Hashes : Apply(h)
    \/ \E resume \in BOOLEAN : ClearStart(resume)
    \/ ClearEnd
    \/ \E h \in Hashes : Remove(h)
    \/ \E h \in Hashes : RemoveWindow(h)

Spec == Init /\ [][Next]_vars

-----------------------------------------------------------------------------
(* Properties.                                                             *)

\* "An old snapshot cannot resurrect a cleared window": a window on disk was
\* scheduled after the clear that last removed its torrent's window, however
\* long its copy, its timer and its publication were under way.
ClearedStaysCleared ==
    \A h \in Hashes : disk[h] # None => save[disk[h]].clears >= clearedAt[h]

\* The windows of all torrents stay within the disk budget, although who is
\* protected was read before the lock.
WindowsFit == Cardinality({h \in Hashes : disk[h] # None}) <= Budget

\* What a clear or the budget removed stays removed.
PositionsStayCleared == ClearedStaysCleared /\ WindowsFit
=============================================================================
