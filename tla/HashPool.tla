------------------------------ MODULE HashPool ------------------------------
(***************************************************************************)
(* The piece hasher pool of a torrent.                                     *)
(*                                                                         *)
(* A connection whose block completes a piece queues a job: it pushes it   *)
(* under the queue's lock and notifies one worker afterwards.  A worker    *)
(* looks at the shutdown flag, the cancel token and the queue under that   *)
(* lock and then waits on the condition variable.  Results go to a thread  *)
(* that applies them.                                                      *)
(***************************************************************************)
EXTENDS Naturals, FiniteSets, Functions

CONSTANTS Jobs,     \* numbers; a smaller one is more urgent
          Queuers,  \* threads that queue jobs
          Workers   \* piece_hashers_per_torrent

VARIABLES
    queuer,     \* what each queueing thread is doing, and its job
    unasked,    \* jobs nobody has queued yet
    refused,    \* jobs the pool refused: the piece may be requested again
    lock,       \* the holder of the queue's lock
    queue,      \* the heap
    worker,     \* where each worker is
    job,        \* the job each worker holds
    results,    \* the result channel
    applied,    \* jobs whose result has been applied: how it went
    stop,       \* shut_down and the cancel token
    closing     \* where Drop is

vars == <<queuer, unasked, refused, lock, queue, worker, job, results, applied, stop, closing>>
asking == <<queuer, unasked, refused>>

Nobody == 0
NoJob == 0

Init ==
    /\ queuer = [q \in Queuers |-> [at |-> "idle", job |-> NoJob]]
    /\ unasked = Jobs /\ refused = {}
    /\ lock = Nobody /\ queue = {}
    /\ worker = [w \in Workers |-> "free"]
    /\ job = [w \in Workers |-> NoJob]
    /\ results = {} /\ applied = [j \in Jobs |-> "no"]
    /\ stop = [shut |-> FALSE, cancel |-> FALSE]
    /\ closing = "no"

-----------------------------------------------------------------------------
(* PieceHasherPool::queue.                                                 *)

\* The flags are looked at without the queue's lock.
Ask(q, j) ==
    /\ queuer[q].at = "idle" /\ j \in unasked /\ closing = "no"
    /\ unasked' = unasked \ {j}
    /\ IF stop.shut \/ stop.cancel
       THEN refused' = refused \cup {j} /\ UNCHANGED queuer
       ELSE queuer' = [queuer EXCEPT ![q] = [at |-> "push", job |-> j]] /\ UNCHANGED refused
    /\ UNCHANGED <<lock, queue, worker, job, results, applied, stop, closing>>

Push(q) ==
    /\ queuer[q].at = "push" /\ lock = Nobody
    /\ queue' = queue \cup {queuer[q].job}
    /\ queuer' = [queuer EXCEPT ![q].at = "notify"]
    /\ UNCHANGED <<unasked, refused, lock, worker, job, results, applied, stop, closing>>

\* notify_one reaches one worker that waits, if there is one.
Notify(q) ==
    /\ queuer[q].at = "notify"
    /\ queuer' = [queuer EXCEPT ![q] = [at |-> "idle", job |-> NoJob]]
    /\ LET waiting == {w \in Workers : worker[w] = "wait"}
       IN IF waiting = {} THEN UNCHANGED worker
          ELSE \E w \in waiting : worker' = [worker EXCEPT ![w] = "free"]
    /\ UNCHANGED <<unasked, refused, lock, queue, job, results, applied, stop, closing>>

-----------------------------------------------------------------------------
(* worker_loop.                                                            *)

Lock(w) ==
    /\ worker[w] = "free" /\ lock = Nobody
    /\ lock' = w /\ worker' = [worker EXCEPT ![w] = "look"]
    /\ UNCHANGED <<asking, queue, job, results, applied, stop, closing>>

Cancelled(S) == {[job |-> j, how |-> "cancelled"] : j \in S}

\* Mutant: the worker lets the lock go before it waits.
LookUnlocked(w) ==
    /\ worker[w] = "look"
    /\ IF stop.shut
       THEN /\ worker' = [worker EXCEPT ![w] = "done"] /\ lock' = Nobody
            /\ UNCHANGED <<queue, job, results>>
       ELSE IF stop.cancel
       THEN /\ results' = results \cup Cancelled(queue) /\ queue' = {}
            /\ worker' = [worker EXCEPT ![w] = "sleep"] /\ lock' = Nobody
            /\ UNCHANGED job
       ELSE IF queue = {}
       THEN /\ worker' = [worker EXCEPT ![w] = "sleep"] /\ lock' = Nobody
            /\ UNCHANGED <<queue, job, results>>
       ELSE LET top == CHOOSE j \in queue : \A k \in queue : j <= k
            IN /\ queue' = queue \ {top} /\ job' = [job EXCEPT ![w] = top]
               /\ worker' = [worker EXCEPT ![w] = "hash"] /\ lock' = Nobody
               /\ UNCHANGED results
    /\ UNCHANGED <<asking, applied, stop, closing>>

\* The inner loop, with the lock: end, drain a cancelled pool, take the most
\* urgent job, or go to wait, still with the lock.
Look(w) ==
    /\ worker[w] = "look"
    /\ IF stop.shut
       THEN /\ worker' = [worker EXCEPT ![w] = "done"] /\ lock' = Nobody
            /\ UNCHANGED <<queue, job, results>>
       ELSE IF stop.cancel
       THEN /\ results' = results \cup Cancelled(queue) /\ queue' = {}
            /\ worker' = [worker EXCEPT ![w] = "sleep"]
            /\ UNCHANGED <<lock, job>>
       ELSE IF queue = {}
       THEN /\ worker' = [worker EXCEPT ![w] = "sleep"]
            /\ UNCHANGED <<lock, queue, job, results>>
       ELSE LET top == CHOOSE j \in queue : \A k \in queue : j <= k
            IN /\ queue' = queue \ {top} /\ job' = [job EXCEPT ![w] = top]
               /\ worker' = [worker EXCEPT ![w] = "hash"] /\ lock' = Nobody
               /\ UNCHANGED results
    /\ UNCHANGED <<asking, applied, stop, closing>>

\* wait_for gives the lock up and waits in one step.
Wait(w) ==
    /\ worker[w] = "sleep"
    /\ worker' = [worker EXCEPT ![w] = "wait"]
    /\ lock' = IF lock = w THEN Nobody ELSE lock
    /\ UNCHANGED <<asking, queue, job, results, applied, stop, closing>>

\* IDLE_WAIT passes.
Timeout(w) ==
    /\ worker[w] = "wait"
    /\ worker' = [worker EXCEPT ![w] = "free"]
    /\ UNCHANGED <<asking, lock, queue, job, results, applied, stop, closing>>

\* run_job, or emit_cancelled when the pool is cancelled by then.
Hash(w, how) ==
    /\ worker[w] = "hash"
    /\ (how = "cancelled") = stop.cancel
    /\ results' = results \cup {[job |-> job[w], how |-> how]}
    /\ worker' = [worker EXCEPT ![w] = "free"] /\ job' = [job EXCEPT ![w] = NoJob]
    /\ UNCHANGED <<asking, lock, queue, applied, stop, closing>>

-----------------------------------------------------------------------------

\* The result thread of start_hashing.
Apply(r) ==
    /\ r \in results /\ closing = "no"
    /\ results' = results \ {r}
    /\ applied' = [applied EXCEPT ![r.job] = r.how]
    /\ UNCHANGED <<asking, lock, queue, worker, job, stop, closing>>

\* CancelToken::cancel, then wake.
Cancel ==
    /\ ~stop.cancel /\ closing = "no"
    /\ stop' = [stop EXCEPT !.cancel = TRUE]
    /\ worker' = [w \in Workers |-> IF worker[w] = "wait" THEN "free" ELSE worker[w]]
    /\ UNCHANGED <<asking, lock, queue, job, results, applied, closing>>

\* The torrent is dropped, so no queue call is under way: shutdown sets the
\* flag, notifies without the lock, and joins every worker.
Shutdown ==
    /\ closing = "no" /\ \A q \in Queuers : queuer[q].at = "idle"
    /\ stop' = [stop EXCEPT !.shut = TRUE] /\ closing' = "notify"
    /\ UNCHANGED <<asking, lock, queue, worker, job, results, applied>>

NotifyAll ==
    /\ closing = "notify"
    /\ worker' = [w \in Workers |-> IF worker[w] = "wait" THEN "free" ELSE worker[w]]
    /\ closing' = "join"
    /\ UNCHANGED <<asking, lock, queue, job, results, applied, stop>>

Join ==
    /\ closing = "join" /\ \A w \in Workers : worker[w] = "done"
    /\ closing' = "done"
    /\ UNCHANGED <<asking, lock, queue, worker, job, results, applied, stop>>

Next ==
    \/ \E q \in Queuers : Push(q) \/ Notify(q) \/ \E j \in Jobs : Ask(q, j)
    \/ \E w \in Workers : Lock(w) \/ Look(w) \/ Wait(w) \/ Timeout(w)
                          \/ \E how \in {"correct", "wrong", "cancelled"} : Hash(w, how)
    \/ \E r \in results : Apply(r)
    \/ Cancel \/ Shutdown \/ NotifyAll \/ Join

\* Threads run, a lock that is let go is taken by the thread that waits for
\* it, and a hash ends.  The idle timer is not counted on.
Fairness ==
    /\ \A q \in Queuers : SF_vars(Push(q)) /\ WF_vars(Notify(q))
    /\ \A w \in Workers :
        /\ WF_vars(Lock(w)) /\ WF_vars(Look(w)) /\ WF_vars(Wait(w))
        /\ WF_vars(\E how \in {"correct", "wrong", "cancelled"} : Hash(w, how))
    /\ WF_vars(\E r \in results : Apply(r))
    /\ WF_vars(NotifyAll) /\ WF_vars(Join)

Spec == Init /\ [][Next]_vars

-----------------------------------------------------------------------------
(* Properties.                                                             *)

\* A job the pool accepted gets its result without the help of the idle
\* timer, unless the torrent is dropped ("Queueing a job and shutting down
\* both notify; this is only a safety net"): the piece does not stay in
\* checking.
JobIsHashed ==
    \A j \in Jobs : (\E q \in Queuers : queuer[q].job = j) ~> (applied[j] # "no" \/ stop.shut)
=============================================================================
