----------------------------- MODULE UdpTracker -----------------------------
(***************************************************************************)
(* The UDP tracker client: concurrent announces that share one connection  *)
(* id and, through the uTP socket's channel for other datagrams, one       *)
(* stream of answers.  Whoever reads an answer of another transaction      *)
(* drops it and sends its own request again.  A transaction id is random   *)
(* in the code and a fresh number here.                                    *)
(***************************************************************************)
EXTENDS Integers, FiniteSets, Bags

CONSTANTS Calls,      \* announces and scrapes under way at the same time
          MaxCalls,   \* how many a task makes
          MaxIds,     \* connection ids the tracker hands out
          MaxSends,   \* datagrams
          MaxFaults   \* lost datagrams and passed deadlines

VARIABLES
    state,     \* ConnState: the connection id and whether it is younger than 60 s
    call,      \* round_trip: at, transaction, connection id it sends
    made,      \* calls each task has made
    ids,       \* ids the tracker handed out and still accepts
    requests,  \* requests under way: a bag
    answers,   \* the channel of answers: a bag, as datagrams are reordered
    sends, issued, tids, faults, refused

vars == <<state, call, made, ids, requests, answers, sends, issued, tids, faults, refused>>

NoConnectionId == 0
Idle == [at |-> "idle", tid |-> 0, id |-> NoConnectionId]
Plus(bag, m) == bag (+) SetToBag({m})
Minus(bag, m) == bag (-) SetToBag({m})

Init ==
    /\ state = [id |-> NoConnectionId, fresh |-> FALSE]
    /\ call = [c \in Calls |-> Idle] /\ made = [c \in Calls |-> 0]
    /\ ids = {} /\ requests = EmptyBag /\ answers = EmptyBag
    /\ sends = 0 /\ issued = 0 /\ tids = 0 /\ faults = 0 /\ refused = FALSE

Request(tid, kind, id) == [tid |-> tid, kind |-> kind, id |-> id]
Waiting(c) == call[c].at \in {"connect", "announce"}

\* The first send of a round trip, with a new transaction id.
Send(c, kind, id) ==
    /\ sends < MaxSends
    /\ sends' = sends + 1 /\ tids' = tids + 1
    /\ call' = [call EXCEPT ![c] = [at |-> kind, tid |-> tids + 1, id |-> id]]
    /\ requests' = Plus(requests, Request(tids + 1, kind, id))

\* Mutant: a connection id is used as long as there is one.
StartTrusting(c) ==
    /\ call[c].at = "idle" /\ made[c] < MaxCalls
    /\ made' = [made EXCEPT ![c] = @ + 1]
    /\ IF state.id # NoConnectionId THEN Send(c, "announce", state.id) ELSE Send(c, "connect", NoConnectionId)
    /\ UNCHANGED <<state, ids, answers, issued, faults, refused>>

\* announce and scrape: ensure_connected, then the request.
Start(c) ==
    /\ call[c].at = "idle" /\ made[c] < MaxCalls
    /\ made' = [made EXCEPT ![c] = @ + 1]
    /\ IF state.fresh THEN Send(c, "announce", state.id) ELSE Send(c, "connect", NoConnectionId)
    /\ UNCHANGED <<state, ids, answers, issued, faults, refused>>

\* round_trip: an answer of this transaction.  A connect is followed by the
\* announce with the id the call itself received.
Take(c, a) ==
    /\ Waiting(c) /\ BagIn(a, answers) /\ a.tid = call[c].tid
    /\ answers' = Minus(answers, a)
    /\ IF call[c].at = "connect" /\ a.id # NoConnectionId
       THEN state' = [id |-> a.id, fresh |-> TRUE] /\ Send(c, "announce", a.id)
       ELSE /\ call' = [call EXCEPT ![c] = Idle]
            /\ UNCHANGED <<state, requests, sends, tids>>
    /\ UNCHANGED <<made, ids, issued, faults, refused>>

\* Mutant: after an answer of another transaction the wait goes on.
SkipAnswer(c, a) ==
    /\ Waiting(c) /\ BagIn(a, answers) /\ a.tid # call[c].tid
    /\ answers' = Minus(answers, a)
    /\ UNCHANGED <<state, call, made, ids, requests, sends, issued, tids, faults, refused>>

\* Another transaction's answer is dropped and the request sent again.
Steal(c, a) ==
    /\ Waiting(c) /\ BagIn(a, answers) /\ a.tid # call[c].tid
    /\ sends < MaxSends
    /\ answers' = Minus(answers, a)
    /\ sends' = sends + 1
    /\ requests' = Plus(requests, Request(call[c].tid, call[c].at, call[c].id))
    /\ UNCHANGED <<state, call, made, ids, issued, tids, faults, refused>>

\* The deadline of 15 s, which is also the first attempt's timeout.
Deadline(c) ==
    /\ Waiting(c) /\ faults < MaxFaults
    /\ faults' = faults + 1
    /\ call' = [call EXCEPT ![c] = Idle]
    /\ UNCHANGED <<state, made, ids, requests, answers, sends, issued, tids, refused>>

-----------------------------------------------------------------------------
(* The tracker and the network.                                            *)

\* A connect is answered with a new id, an announce with an accepted id with
\* peers and any other with an error.
Answer(r) ==
    /\ BagIn(r, requests)
    /\ requests' = Minus(requests, r)
    /\ IF r.kind = "connect"
       THEN /\ issued < MaxIds
            /\ issued' = issued + 1 /\ ids' = ids \cup {issued + 1}
            /\ answers' = Plus(answers, [tid |-> r.tid, id |-> issued + 1])
            /\ UNCHANGED refused
       ELSE /\ answers' = Plus(answers, [tid |-> r.tid, id |-> NoConnectionId])
            /\ refused' = (refused \/ r.id \notin ids)
            /\ UNCHANGED <<issued, ids>>
    /\ UNCHANGED <<state, call, made, sends, tids, faults>>

Lose(r) ==
    /\ BagIn(r, requests) /\ faults < MaxFaults
    /\ faults' = faults + 1
    /\ requests' = Minus(requests, r)
    /\ UNCHANGED <<state, call, made, ids, answers, sends, issued, tids, refused>>

\* The client's id turns 60 s old.
Age ==
    /\ state.fresh
    /\ state' = [state EXCEPT !.fresh = FALSE]
    /\ UNCHANGED <<call, made, ids, requests, answers, sends, issued, tids, faults, refused>>

\* The tracker forgets an id after two minutes: by then it is stale at the
\* client and every call that took it while fresh has met its deadline.
Forget(id) ==
    /\ id \in ids
    /\ ~(state.fresh /\ state.id = id)
    /\ \A c \in Calls : call[c].id # id
    /\ \A r \in BagToSet(requests) : r.id # id
    /\ \A a \in BagToSet(answers) : a.id = id => \A c \in Calls : call[c].tid # a.tid
    /\ ids' = ids \ {id}
    /\ UNCHANGED <<state, call, made, requests, answers, sends, issued, tids, faults, refused>>

-----------------------------------------------------------------------------

Next ==
    \/ \E c \in Calls :
         \/ Start(c) \/ Deadline(c)
         \/ \E a \in BagToSet(answers) : Take(c, a) \/ Steal(c, a)
    \/ \E r \in BagToSet(requests) : Answer(r) \/ Lose(r)
    \/ Age
    \/ \E id \in ids : Forget(id)

Spec == Init /\ [][Next]_vars

-----------------------------------------------------------------------------
(* Properties.                                                             *)

\* As long as nothing is lost, no announce waits in silence: a call that takes
\* another's answer asks again, and the answer it then has no use for sets the
\* other asking again (the `continue` of round_trip).
NobodyWaitsInSilence ==
    faults = 0 /\ (\E c \in Calls : Waiting(c)) => requests # EmptyBag \/ answers # EmptyBag

\* No announce reaches the tracker with a connection id it has forgotten,
\* also when several calls connect at once and the last answer's id is the one
\* that is kept (should_reconnect, ensure_connected).
IdIsAccepted == ~refused
=============================================================================
