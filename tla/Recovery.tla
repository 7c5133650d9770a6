------------------------------ MODULE Recovery ------------------------------
(***************************************************************************)
(* Recovery from a change of network.                                      *)
(*                                                                         *)
(* The app posts changes with a generation; the ones that are not newer    *)
(* are ignored.  Each accepted change is an episode; a connected one gets a*)
(* thread that closes the old route's peers and then reconnects in four    *)
(* rounds, until a newer episode takes over.  A connection carries the     *)
(* episode of the route it was made on.                                    *)
(***************************************************************************)
EXTENDS Naturals, FiniteSets

CONSTANTS Records,    \* torrent records of the engine
          Peers,      \* dialable addresses
          MaxGen,     \* generations the app may post
          MaxChanges, \* pauses, resumes and removals
          Rounds      \* NETWORK_RETRY_DELAYS: 0, 3, 10 and 30 seconds

VARIABLES
    generation,    \* the newest generation accepted
    episode,       \* changes accepted
    worker,        \* the recovery thread of each episode
    conns,         \* connections of each record: the route each peer is on, or none
    cached,        \* reconnect_peers of each record
    dropped,       \* peers recovery closed that have not come back
    state,         \* whether each record runs, is paused or is closed
    swept,         \* the last episode that closed each record's peers
    found,         \* the last episode that rediscovered each record
    changes

vars == <<generation, episode, worker, conns, cached, dropped, state, swept, found, changes>>

None == MaxGen + 1
NoWorker == [at |-> "none", todo |-> {}, pending |-> FALSE, round |-> 0]
Connected(r) == {p \in Peers : conns[r][p] # None}

Init ==
    /\ generation = 0 /\ episode = 0 /\ changes = 0
    /\ worker = [e \in 1..MaxGen |-> NoWorker]
    /\ conns = [r \in Records |-> [p \in Peers |-> None]]
    /\ cached = [r \in Records |-> {}]
    /\ dropped = [r \in Records |-> {}]
    /\ state = [r \in Records |-> "runs"]
    /\ swept = [r \in Records |-> 0] /\ found = swept

\* on_network_change: callbacks that are late or repeated are ignored.
OnNetworkChange(g) ==
    /\ g > generation
    /\ generation' = g /\ episode' = episode + 1

\* handle_network_change
Post(g, connected) ==
    /\ OnNetworkChange(g)
    /\ worker' = IF connected
                 THEN [worker EXCEPT ![episode + 1] =
                         [at |-> "visit", todo |-> Records, pending |-> FALSE, round |-> 1]]
                 ELSE worker
    /\ UNCHANGED <<conns, cached, dropped, state, swept, found, changes>>

\* The visit of one record, with its lock: the peers of the old route are
\* closed and their addresses kept with the ones that are still to come back.
\* Mutant: the addresses of an earlier recovery are not carried over.
VisitForgets(e, r) ==
    /\ worker[e].at = "visit" /\ r \in worker[e].todo
    /\ worker' = [worker EXCEPT ![e].todo = @ \ {r}]
    /\ IF e = episode /\ state[r] = "runs"
       THEN /\ cached' = [cached EXCEPT ![r] = Connected(r)]
            /\ dropped' = [dropped EXCEPT ![r] = @ \cup Connected(r)]
            /\ conns' = [conns EXCEPT ![r] = [p \in Peers |-> None]]
            /\ swept' = [swept EXCEPT ![r] = e]
       ELSE UNCHANGED <<cached, dropped, conns, swept>>
    /\ UNCHANGED <<generation, episode, state, found, changes>>

\* Mutant: the peers of the old route are left to their deadlines.
VisitKeeps(e, r) ==
    /\ worker[e].at = "visit" /\ r \in worker[e].todo
    /\ worker' = [worker EXCEPT ![e].todo = @ \ {r}]
    /\ IF e = episode /\ state[r] = "runs"
       THEN /\ cached' = [cached EXCEPT ![r] = @ \cup Connected(r)]
            /\ swept' = [swept EXCEPT ![r] = e]
       ELSE UNCHANGED <<cached, swept>>
    /\ UNCHANGED <<generation, episode, conns, dropped, state, found, changes>>

Visit(e, r) ==
    /\ worker[e].at = "visit" /\ r \in worker[e].todo
    /\ worker' = [worker EXCEPT ![e].todo = @ \ {r}]
    /\ IF e = episode /\ state[r] = "runs"
       THEN /\ cached' = [cached EXCEPT ![r] = @ \cup Connected(r)]
            /\ dropped' = [dropped EXCEPT ![r] = @ \cup Connected(r)]
            /\ conns' = [conns EXCEPT ![r] = [p \in Peers |-> None]]
            /\ swept' = [swept EXCEPT ![r] = e]
       ELSE UNCHANGED <<cached, dropped, conns, swept>>
    /\ UNCHANGED <<generation, episode, state, found, changes>>

\* A round starts when its delay is over, or the thread ends.
Round(e) ==
    /\ worker[e].at \in {"visit", "round"} /\ worker[e].todo = {}
    /\ LET w == worker[e]
           first == w.at = "visit"
           ends == e # episode \/ (~first /\ (~w.pending \/ w.round = Rounds))
       IN worker' = [worker EXCEPT ![e] =
                       IF ends THEN NoWorker
                       ELSE [at |-> "round", todo |-> Records, pending |-> FALSE,
                             round |-> IF first THEN 1 ELSE w.round + 1]]
    /\ UNCHANGED <<generation, episode, conns, cached, dropped, state, swept, found, changes>>

\* Mutant: a torrent that has peers is passed over in the first round too.
ReconnectIfAlone(e, r) ==
    /\ worker[e].at = "round" /\ r \in worker[e].todo
    /\ LET skipped == state[r] # "runs" \/ Connected(r) # {}
       IN /\ worker' = [worker EXCEPT ![e].todo = @ \ {r}, ![e].pending = @ \/ ~skipped]
          /\ found' = IF skipped THEN found ELSE [found EXCEPT ![r] = e]
    /\ UNCHANGED <<generation, episode, conns, cached, dropped, state, swept, changes>>

\* One record of a round: its addresses are handed back and its trackers and
\* DHT asked, unless it is paused, closed or, after the first round, has peers.
Reconnect(e, r) ==
    /\ worker[e].at = "round" /\ r \in worker[e].todo
    /\ LET skipped == \/ state[r] # "runs"
                      \/ worker[e].round > 1 /\ Connected(r) # {}
       IN /\ worker' = [worker EXCEPT ![e].todo = @ \ {r}, ![e].pending = @ \/ ~skipped]
          /\ found' = IF skipped THEN found ELSE [found EXCEPT ![r] = e]
    /\ UNCHANGED <<generation, episode, conns, cached, dropped, state, swept, changes>>

\* Peers connect on the route of the moment, and leave.
Connect(r, p) ==
    /\ state[r] # "closed" /\ conns[r][p] = None
    /\ conns' = [conns EXCEPT ![r][p] = episode]
    /\ dropped' = [dropped EXCEPT ![r] = @ \ {p}]
    /\ UNCHANGED <<generation, episode, worker, cached, state, swept, found, changes>>

Leave(r, p) ==
    /\ conns[r][p] # None
    /\ conns' = [conns EXCEPT ![r][p] = None]
    /\ UNCHANGED <<generation, episode, worker, cached, dropped, state, swept, found, changes>>

\* /pause, /resume and /remove
Change(r, to) ==
    /\ changes < MaxChanges /\ changes' = changes + 1
    /\ state[r] \notin {to, "closed"}
    /\ state' = [state EXCEPT ![r] = to]
    /\ conns' = IF to = "closed" THEN [conns EXCEPT ![r] = [p \in Peers |-> None]] ELSE conns
    /\ UNCHANGED <<generation, episode, worker, cached, dropped, swept, found>>

Next ==
    \/ \E g \in 1..MaxGen, connected \in BOOLEAN : Post(g, connected)
    \/ \E e \in 1..MaxGen, r \in Records : Visit(e, r)
    \/ \E e \in 1..MaxGen : Round(e)
    \/ \E e \in 1..MaxGen, r \in Records : Reconnect(e, r)
    \/ \E r \in Records, p \in Peers : Connect(r, p)
    \/ \E r \in Records, p \in Peers : Leave(r, p)
    \/ \E r \in Records, to \in {"runs", "paused", "closed"} : Change(r, to)

\* A recovery thread keeps running.
Fairness ==
    \A e \in 1..MaxGen :
        /\ WF_vars(Round(e))
        /\ \A r \in Records : WF_vars(Visit(e, r)) /\ WF_vars(Reconnect(e, r))

Spec == Init /\ [][Next]_vars

-----------------------------------------------------------------------------
(* Properties.                                                             *)

\* However many changes of network follow each other, the address of a peer
\* that recovery closed is kept for reconnecting until the peer is back.
AddressesKept == \A r \in Records : dropped[r] \subseteq cached[r]

\* Once recovery has closed a torrent's peers, no connection of an older
\* route is left or comes back, until the network changes again.
OldRouteIsGone ==
    \A r \in Records : swept[r] = episode => \A p \in Connected(r) : conns[r][p] = episode

\* After the newest change every torrent that runs looks for peers on the
\* new route, even one that already found some, unless a newer change takes over.
EveryTorrentSearches ==
    \A e \in 1..MaxGen, r \in Records :
        (episode = e /\ worker[e].at = "visit" /\ state[r] = "runs")
        ~> (found[r] = e \/ episode # e \/ state[r] # "runs")
=============================================================================
