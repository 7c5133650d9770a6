------------------------------ MODULE Preview -------------------------------
(***************************************************************************)
(* The reader of one preview session: reads that admit the pieces they     *)
(* need within a byte budget, publish them as demand and wait for them,    *)
(* while the session is closed by its owner or by its ten-second timer.    *)
(* A read holds the admission lock throughout and the lock of the reading  *)
(* function while it waits; closing takes only the latter.                 *)
(***************************************************************************)
EXTENDS Integers, FiniteSets

CONSTANTS Pieces,    \* pieces of the previewed file
          Threads,   \* reading threads
          Closers,   \* the owner and the timer
          Budget     \* PREVIEW_BUDGET_BYTES, in pieces

VARIABLES
    closed,      \* PreviewReader::closed
    cancelled,   \* the core reader's token
    gone,        \* inner_read is None
    admission,   \* holder of the admission lock
    inner,       \* holder of the inner_read lock
    admitted,    \* pieces admitted in this session
    spent,       \* admitted_bytes, in pieces
    demand,      \* the coordinator's preview demand
    fetched,     \* pieces that were ever demanded
    complete,    \* pieces storage has
    read,        \* where each thread is, what it reads and what it will demand
    close        \* where each closer is

vars == <<closed, cancelled, gone, admission, inner, admitted, spent, demand, fetched,
          complete, read, close>>
session == <<closed, cancelled, gone>>
Nobody == "nobody"
AtRest == [at |-> "idle", range |-> {}, wants |-> {}]

Init ==
    /\ closed = FALSE /\ cancelled = FALSE /\ gone = FALSE
    /\ admission = Nobody /\ inner = Nobody
    /\ admitted = {} /\ spent = 0 /\ demand = {} /\ fetched = {}
    /\ complete \in SUBSET Pieces
    /\ read = [t \in Threads |-> AtRest]
    /\ close = [c \in Closers |-> "idle"]

-----------------------------------------------------------------------------
(* read_at                                                                 *)

\* The closed check; the admission lock comes after it.
ReadStarts(t, range) ==
    /\ read[t].at = "idle" /\ ~closed
    /\ read' = [read EXCEPT ![t] = [AtRest EXCEPT !.at = "lock", !.range = range]]
    /\ UNCHANGED <<session, admission, inner, admitted, spent, demand, fetched, complete, close>>

Lock(t) ==
    /\ read[t].at = "lock" /\ admission = Nobody
    /\ admission' = t
    /\ read' = [read EXCEPT ![t].at = "admit"]
    /\ UNCHANGED <<session, inner, admitted, spent, demand, fetched, complete, close>>

New(range) == range \ (admitted \cup complete)

\* Mutant: each piece is weighed against the budget by itself.
AdmitEach(t) ==
    /\ read[t].at = "admit"
    /\ IF ~closed /\ (New(read[t].range) = {} \/ spent + 1 <= Budget)
       THEN /\ admitted' = admitted \cup New(read[t].range)
            /\ spent' = spent + Cardinality(New(read[t].range))
            /\ read' = [read EXCEPT ![t].at = "demand"]
            /\ UNCHANGED admission
       ELSE /\ read' = [read EXCEPT ![t] = AtRest]
            /\ admission' = Nobody
            /\ UNCHANGED <<admitted, spent>>
    /\ UNCHANGED <<session, inner, demand, fetched, complete, close>>

\* admit_range: all of the pieces, or an error.
Admit(t) ==
    /\ read[t].at = "admit"
    /\ IF ~closed /\ spent + Cardinality(New(read[t].range)) <= Budget
       THEN /\ admitted' = admitted \cup New(read[t].range)
            /\ spent' = spent + Cardinality(New(read[t].range))
            /\ read' = [read EXCEPT ![t].at = "demand"]
            /\ UNCHANGED admission
       ELSE /\ read' = [read EXCEPT ![t] = AtRest]
            /\ admission' = Nobody
            /\ UNCHANGED <<admitted, spent>>
    /\ UNCHANGED <<session, inner, demand, fetched, complete, close>>

Collect(t) ==
    /\ read[t].at = "demand"
    /\ read' = [read EXCEPT ![t].at = "publish", ![t].wants = admitted \ complete]
    /\ UNCHANGED <<session, admission, inner, admitted, spent, demand, fetched, complete, close>>

Publish(t) ==
    /\ read[t].at = "publish"
    /\ demand' = read[t].wants /\ fetched' = fetched \cup read[t].wants
    /\ read' = [read EXCEPT ![t].at = "enter"]
    /\ UNCHANGED <<session, admission, inner, admitted, spent, complete, close>>

\* The reading function is called under its lock; without one the read fails.
Enter(t) ==
    /\ read[t].at = "enter" /\ inner = Nobody
    /\ IF gone
       THEN /\ admission' = Nobody /\ UNCHANGED inner
            /\ read' = [read EXCEPT ![t] = AtRest]
       ELSE /\ inner' = t /\ UNCHANGED admission
            /\ read' = [read EXCEPT ![t].at = "wait"]
    /\ UNCHANGED <<session, admitted, spent, demand, fetched, complete, close>>

\* It returns with the bytes or, cancelled, with an error.
Return(t) ==
    /\ read[t].at = "wait"
    /\ cancelled \/ read[t].range \subseteq complete
    /\ admission' = Nobody /\ inner' = Nobody
    /\ read' = [read EXCEPT ![t] = AtRest]
    /\ UNCHANGED <<session, admitted, spent, demand, fetched, complete, close>>

\* Payload transfers are paused: a read that needs missing pieces fails.
Paused(t) ==
    /\ \/ read[t].at = "admit" /\ New(read[t].range) # {}
       \/ read[t].at = "wait" /\ ~(read[t].range \subseteq complete)
    /\ admission' = Nobody
    /\ inner' = IF inner = t THEN Nobody ELSE inner
    /\ read' = [read EXCEPT ![t] = AtRest]
    /\ UNCHANGED <<session, admitted, spent, demand, fetched, complete, close>>

-----------------------------------------------------------------------------
(* close                                                                   *)

Step(c, to) == close' = [close EXCEPT ![c] = to]

\* Only the first closer goes on.
CloseStarts(c) ==
    /\ close[c] = "idle"
    /\ Step(c, IF closed THEN "done" ELSE "cancel")
    /\ closed' = TRUE
    /\ UNCHANGED <<cancelled, gone, admission, inner, admitted, spent, demand, fetched, complete, read>>

\* Mutant: the lock of the reading function is taken before the hooks run.
CancelUnderLock(c) ==
    /\ close[c] = "cancel" /\ inner = Nobody
    /\ Step(c, "withdraw")
    /\ cancelled' = TRUE
    /\ UNCHANGED <<closed, gone, admission, inner, admitted, spent, demand, fetched, complete, read>>

\* The hook, first half: the waiting read is cancelled.
Cancel(c) ==
    /\ close[c] = "cancel"
    /\ Step(c, "withdraw")
    /\ cancelled' = TRUE
    /\ UNCHANGED <<closed, gone, admission, inner, admitted, spent, demand, fetched, complete, read>>

\* Second half: the preview's demand is withdrawn.
Withdraw(c) ==
    /\ close[c] = "withdraw"
    /\ Step(c, "drop")
    /\ demand' = {}
    /\ UNCHANGED <<session, admission, inner, admitted, spent, fetched, complete, read>>

\* The reading function is dropped once no read is in it.
Drop(c) ==
    /\ close[c] = "drop" /\ inner = Nobody
    /\ Step(c, "done")
    /\ gone' = TRUE /\ admitted' = {}
    /\ UNCHANGED <<closed, cancelled, admission, inner, spent, demand, fetched, complete, read>>

-----------------------------------------------------------------------------

\* Peers deliver what is demanded.
Arrives(p) ==
    /\ p \in demand /\ p \notin complete
    /\ complete' = complete \cup {p}
    /\ UNCHANGED <<session, admission, inner, admitted, spent, demand, fetched, read, close>>

ReadStep(t) == Lock(t) \/ Admit(t) \/ Collect(t) \/ Publish(t) \/ Enter(t) \/ Return(t)
CloseStep(c) == Cancel(c) \/ Withdraw(c) \/ Drop(c)

Next ==
    \/ \E t \in Threads : ReadStep(t) \/ Paused(t) \/ \E r \in (SUBSET Pieces) \ {{}} : ReadStarts(t, r)
    \/ \E c \in Closers : CloseStarts(c) \/ CloseStep(c)
    \/ \E p \in Pieces : Arrives(p)

\* Threads run; no piece has to arrive.
Fairness ==
    /\ \A t \in Threads : WF_vars(ReadStep(t))
    /\ \A c \in Closers : WF_vars(CloseStep(c))

Spec == Init /\ [][Next]_vars

-----------------------------------------------------------------------------
(* Properties.                                                             *)

\* A preview session never makes the torrent fetch more than its budget,
\* whatever ranges its reads ask for and whatever completes meanwhile
\* (admit_preview_range).
BudgetIsKept == Cardinality(fetched) <= Budget

\* Closing a preview never waits for the pieces its reads wait for: the reads
\* are cancelled before the lock they hold is taken (PreviewReader::close).
CloseReturns == \A c \in Closers : (close[c] = "cancel") ~> (close[c] = "done")

\* A closed preview demands nothing.  It may: a read that collected its
\* demand before the close publishes it after the withdrawal.
ClosedDemandsNothing ==
    gone /\ (\A t \in Threads : read[t] = AtRest) => demand = {}
=============================================================================
