---------------------------- MODULE PromiseProofs ----------------------------
(***************************************************************************)
(* Proofs about Promises, for every number of peers, readers, pieces and   *)
(* faults: the info of a magnet (M), recovery from a change of network     *)
(* (N), resting and waking (I), the budget of a preview (V), a range       *)
(* served to a player (S), the pieces of a byte range and of a window (W), *)
(* and the blocks uploaded to a peer (Q).                                  *)
(***************************************************************************)
EXTENDS Promises, Sequences, FiniteSetTheorems, TLAPS

-----------------------------------------------------------------------------
(* The info of a magnet                                                    *)

\* Verified bytes are the whole of the right size, and a peer's handler sets
\* the info only of verified bytes, which no later piece or size changes.
MetaInv ==
    /\ meta_verified \in BOOLEAN
    /\ meta_verified => meta_size = "right" /\ \A i \in MetaPieces : meta_pieces[i] = "good"
    /\ "peer" \in meta_setter => meta_verified
    /\ meta_info # "bad"

\* The size a peer advertises changes nothing that is verified.
LEMMA TakeSizeStep ==
    ASSUME MetaInv, NEW p, M!TakeSize(p), UNCHANGED <<meta_setter, meta_info>>
    PROVE  MetaInv'
<1>1. meta_verified' = meta_verified
  BY DEF M!TakeSize
<1>2. meta_verified => meta_size' = meta_size /\ meta_pieces' = meta_pieces
  BY DEF M!TakeSize, M!SizeAfter, M!PiecesAfter
<1> QED
  BY <1>1, <1>2 DEF MetaInv

\* The last piece verifies all of them together.
LEMMA ReceiveDataStep ==
    ASSUME MetaInv, NEW a, M!ReceiveData(a)
    PROVE  MetaInv'
<1>1. PICK filled : filled = [M!PiecesAfter(meta_kind[a.peer]) EXCEPT ![a.piece] = a.data]
  OBVIOUS
<1>2. PICK complete \in BOOLEAN :
        complete = (\A j \in M!PiecesOf(meta_kind[a.peer]) : filled[j] # "missing")
  OBVIOUS
<1>3. PICK good \in BOOLEAN :
        good = (meta_kind[a.peer] = "right" /\ \A j \in M!PiecesOf(meta_kind[a.peer]) : filled[j] = "good")
  OBVIOUS
<1>4. /\ meta_size' = M!SizeAfter(meta_kind[a.peer])
      /\ meta_verified' = (meta_verified \/ (complete /\ good))
      /\ meta_pieces' = IF meta_verified THEN meta_pieces ELSE IF complete /\ ~good THEN M!Empty ELSE filled
  BY <1>1, <1>2, <1>3, Zenon DEF M!ReceiveData, M!OnData
<1>5. /\ meta_setter' = IF meta_verified' /\ ~meta_verified THEN meta_setter \cup {"peer"} ELSE meta_setter
      /\ meta_info' = meta_info
  BY DEF M!ReceiveData
<1>6. CASE meta_verified
  BY <1>4, <1>5, <1>6 DEF MetaInv, M!SizeAfter
<1>7. CASE ~meta_verified /\ complete /\ good
  <2>1. meta_kind[a.peer] = "right" /\ \A j \in MetaPieces : filled[j] = "good"
    BY <1>3, <1>7 DEF M!PiecesOf
  <2>2. meta_size' = "right" /\ meta_pieces' = filled /\ meta_verified' = TRUE
    BY <1>4, <1>7, <2>1 DEF M!SizeAfter
  <2> QED
    BY <1>5, <2>1, <2>2 DEF MetaInv
<1>8. CASE ~meta_verified /\ ~(complete /\ good)
  <2>1. meta_verified' = FALSE
    BY <1>4, <1>8
  <2>2. meta_setter' = meta_setter
    BY <1>5, <2>1
  <2> QED
    BY <1>5, <1>8, <2>1, <2>2 DEF MetaInv
<1> QED
  BY <1>6, <1>7, <1>8 DEF MetaInv

LEMMA SetInfoStep ==
    ASSUME MetaInv, NEW t \in {"peer", "source"}, M!SetInfo(t)
    PROVE  MetaInv'
<1>1. /\ t \in meta_setter /\ meta_setter' = meta_setter \ {t}
      /\ UNCHANGED <<meta_size, meta_pieces, meta_verified>>
  BY DEF M!SetInfo, M!assembly
<1>2. meta_info' = "good"
  <2>1. CASE t = "source"
    BY <2>1 DEF M!SetInfo
  <2>2. CASE t = "peer"
    <3>1. meta_size = "right" /\ \A i \in MetaPieces : meta_pieces[i] = "good"
      BY <1>1, <2>2 DEF MetaInv
    <3>2. \A i \in M!PiecesOf(meta_size) : meta_pieces[i] = "good" /\ meta_size = "right"
      BY <3>1 DEF M!PiecesOf
    <3> QED
      BY <2>2, <3>2 DEF M!SetInfo
  <2> QED
    BY <2>1, <2>2
<1> QED
  BY <1>1, <1>2 DEF MetaInv

LEMMA MetaNext ==
    ASSUME MetaInv, [M!Next]_(M!vars)
    PROVE  MetaInv'
<1>1. CASE \E p \in MetaPeers : M!Handshake(p) \/ \E late \in SUBSET MetaPieces : M!Wake(p, late)
  BY <1>1, TakeSizeStep DEF M!Handshake, M!Wake
<1>2. CASE \E a \in meta_answers : M!ReceiveReject(a)
  BY <1>2, TakeSizeStep DEF M!ReceiveReject
<1>3. CASE \E a \in meta_answers : M!ReceiveData(a)
  BY <1>3, ReceiveDataStep
<1>4. CASE \E t \in {"peer", "source"} : M!SetInfo(t)
  BY <1>4, SetInfoStep
<1>5. ASSUME UNCHANGED <<meta_size, meta_pieces, meta_verified, meta_info, meta_setter>>
      PROVE  MetaInv'
  BY <1>5 DEF MetaInv
<1>6. CASE \E r \in meta_remote : M!Lose(r) \/ \E what \in {"good", "bad", "reject"} : M!Answer(r, what)
  BY <1>5, <1>6 DEF M!Lose, M!Answer, M!assembly
<1>7. CASE \E p \in MetaPeers : M!Leave(p)
  BY <1>5, <1>7 DEF M!Leave, M!assembly
<1>8. CASE \E result \in {"failed", "mismatch", "match"} : M!Fetch(result)
  BY <1>5, <1>8 DEF M!Fetch, M!assembly
<1>9. CASE M!Merge
  BY <1>9 DEF M!Merge, M!assembly, MetaInv
<1>10. CASE UNCHANGED M!vars
  BY <1>5, <1>10 DEF M!vars
<1> QED
  BY <1>1, <1>2, <1>3, <1>4, <1>6, <1>7, <1>8, <1>9, <1>10 DEF M!Next

\* Of however many peers and pieces: corrupt pieces, peers of another size,
\* late answers and the race with the source URLs never give the torrent an
\* info other than the one the magnet names (verify_bytes, set_info).
THEOREM GenuineInfo == M!Spec => []InfoIsGenuine
<1>1. M!Init => MetaInv
  BY DEF M!Init, MetaInv
<1>2. MetaInv /\ [M!Next]_(M!vars) => MetaInv'
  BY MetaNext
<1>3. MetaInv => InfoIsGenuine
  BY DEF MetaInv, InfoIsGenuine, M!InfoIsGenuine
<1> QED
  BY <1>1, <1>2, <1>3, PTL DEF M!Spec

-----------------------------------------------------------------------------
(* Recovery from a change of network                                       *)

\* No record was swept by an episode that is yet to come.
RecoveryInv ==
    /\ rec_episode \in Nat
    /\ rec_conns \in [Records -> [Addresses -> Nat]]
    /\ rec_cached \in [Records -> SUBSET Addresses]
    /\ rec_dropped \in [Records -> SUBSET Addresses]
    /\ rec_swept \in [Records -> Nat]
    /\ \A r \in Records : rec_swept[r] <= rec_episode
    /\ \A r \in Records : rec_dropped[r] \subseteq rec_cached[r]
    /\ \A r \in Records : rec_swept[r] = rec_episode =>
          \A p \in Addresses : rec_conns[r][p] \in {rec_episode, N!None}

LEMMA PostStep ==
    ASSUME RecoveryInv, NEW g, NEW c, N!Post(g, c)
    PROVE  RecoveryInv'
<1>1. /\ rec_episode' = rec_episode + 1
      /\ UNCHANGED <<rec_conns, rec_cached, rec_dropped, rec_swept>>
  BY DEF N!Post, N!OnNetworkChange
<1>2. \A r \in Records : rec_swept[r] \in Nat /\ rec_swept[r] <= rec_episode
  BY DEF RecoveryInv
<1>3. \A r \in Records : rec_swept'[r] <= rec_episode' /\ rec_swept'[r] # rec_episode'
  BY <1>1, <1>2 DEF RecoveryInv
<1> QED
  BY <1>1, <1>3 DEF RecoveryInv

LEMMA VisitStep ==
    ASSUME MaxGen \in Nat, RecoveryInv, NEW e \in 1..MaxGen, NEW r \in Records, N!Visit(e, r)
    PROVE  RecoveryInv'
<1>1. rec_episode' = rec_episode
  BY DEF N!Visit
<1>2. CASE e = rec_episode /\ rec_state[r] = "runs"
  <2>1. PICK lost : lost = N!Connected(r)
    OBVIOUS
  <2>2. lost \in SUBSET Addresses
    BY <2>1 DEF N!Connected
  <2>3. PICK nobody : nobody = [p \in Addresses |-> N!None]
    OBVIOUS
  <2>4. nobody \in [Addresses -> Nat] /\ \A p \in Addresses : nobody[p] = N!None
    BY <2>3 DEF N!None
  <2>5. /\ rec_cached' = [rec_cached EXCEPT ![r] = @ \cup lost]
        /\ rec_dropped' = [rec_dropped EXCEPT ![r] = @ \cup lost]
        /\ rec_conns' = [rec_conns EXCEPT ![r] = nobody]
        /\ rec_swept' = [rec_swept EXCEPT ![r] = e]
    BY <1>2, <2>1, <2>3 DEF N!Visit
  <2>6. /\ rec_cached' \in [Records -> SUBSET Addresses] /\ rec_dropped' \in [Records -> SUBSET Addresses]
        /\ rec_conns' \in [Records -> [Addresses -> Nat]] /\ rec_swept' \in [Records -> Nat]
    BY <2>2, <2>4, <2>5 DEF RecoveryInv
  <2>7. \A x \in Records : rec_swept'[x] <= rec_episode' /\ rec_dropped'[x] \subseteq rec_cached'[x]
    BY <1>1, <1>2, <2>5 DEF RecoveryInv
  <2>8. \A x \in Records : rec_swept'[x] = rec_episode' =>
           \A p \in Addresses : rec_conns'[x][p] \in {rec_episode', N!None}
    BY <1>1, <2>4, <2>5 DEF RecoveryInv
  <2> QED
    BY <1>1, <2>6, <2>7, <2>8 DEF RecoveryInv
<1>3. CASE ~(e = rec_episode /\ rec_state[r] = "runs")
  <2>1. UNCHANGED <<rec_cached, rec_dropped, rec_conns, rec_swept>>
    BY <1>3 DEF N!Visit
  <2> QED
    BY <1>1, <2>1 DEF RecoveryInv
<1> QED
  BY <1>2, <1>3

\* One connection comes on the route of the moment, or goes.
LEMMA ConnStep ==
    ASSUME MaxGen \in Nat, RecoveryInv, NEW r \in Records, NEW q \in Addresses,
           N!Connect(r, q) \/ N!Leave(r, q)
    PROVE  RecoveryInv'
<1>1. /\ UNCHANGED <<rec_episode, rec_cached, rec_swept>>
      /\ rec_dropped' = [rec_dropped EXCEPT ![r] = @ \ {q}] \/ rec_dropped' = rec_dropped
  BY DEF N!Connect, N!Leave
<1>2. PICK route \in {rec_episode, N!None} : rec_conns' = [rec_conns EXCEPT ![r][q] = route]
  BY DEF N!Connect, N!Leave
<1>3. route \in Nat
  BY <1>2 DEF RecoveryInv, N!None
<1>4. rec_conns' \in [Records -> [Addresses -> Nat]]
  BY <1>2, <1>3 DEF RecoveryInv
<1>5. \A x \in Records, p \in Addresses : rec_conns'[x][p] \in {rec_conns[x][p], route}
  BY <1>2 DEF RecoveryInv
<1>6. /\ rec_dropped' \in [Records -> SUBSET Addresses]
      /\ \A x \in Records : rec_dropped'[x] \subseteq rec_dropped[x]
  BY <1>1 DEF RecoveryInv
<1>7. \A x \in Records : rec_swept'[x] = rec_episode' =>
         \A p \in Addresses : rec_conns'[x][p] \in {rec_episode', N!None}
  BY <1>1, <1>2, <1>5 DEF RecoveryInv, N!None
<1> QED
  BY <1>1, <1>4, <1>6, <1>7 DEF RecoveryInv

LEMMA ChangeRecordStep ==
    ASSUME MaxGen \in Nat, RecoveryInv, NEW r \in Records, NEW to, N!Change(r, to)
    PROVE  RecoveryInv'
<1>1. UNCHANGED <<rec_episode, rec_cached, rec_dropped, rec_swept>>
  BY DEF N!Change
<1>2. PICK nobody : nobody = [p \in Addresses |-> N!None]
  OBVIOUS
<1>3. nobody \in [Addresses -> Nat] /\ \A p \in Addresses : nobody[p] = N!None
  BY <1>2 DEF N!None
<1>4. rec_conns' = [rec_conns EXCEPT ![r] = nobody] \/ rec_conns' = rec_conns
  BY <1>2 DEF N!Change
<1>5. /\ rec_conns' \in [Records -> [Addresses -> Nat]]
      /\ \A x \in Records, p \in Addresses : rec_conns'[x][p] \in {rec_conns[x][p], N!None}
  BY <1>3, <1>4 DEF RecoveryInv
<1>6. \A x \in Records : rec_swept'[x] = rec_episode' =>
         \A p \in Addresses : rec_conns'[x][p] \in {rec_episode', N!None}
  BY <1>1, <1>5 DEF RecoveryInv
<1> QED
  BY <1>1, <1>5, <1>6 DEF RecoveryInv

LEMMA RecoveryNext ==
    ASSUME MaxGen \in Nat, RecoveryInv, [N!Next]_(N!vars)
    PROVE  RecoveryInv'
<1>1. CASE \E g \in 1..MaxGen, c \in BOOLEAN : N!Post(g, c)
  BY <1>1, PostStep
<1>2. CASE \E e \in 1..MaxGen, r \in Records : N!Visit(e, r)
  BY <1>2, VisitStep
<1>3. CASE \E r \in Records, p \in Addresses : N!Connect(r, p) \/ N!Leave(r, p)
  BY <1>3, ConnStep
<1>4. CASE \E r \in Records, to \in {"runs", "paused", "closed"} : N!Change(r, to)
  BY <1>4, ChangeRecordStep
<1>5. ASSUME UNCHANGED <<rec_episode, rec_conns, rec_cached, rec_dropped, rec_swept>>
      PROVE  RecoveryInv'
  BY <1>5 DEF RecoveryInv
<1>6. CASE \E e \in 1..MaxGen : N!Round(e) \/ \E r \in Records : N!Reconnect(e, r)
  BY <1>5, <1>6 DEF N!Round, N!Reconnect
<1>7. CASE UNCHANGED N!vars
  BY <1>5, <1>7 DEF N!vars
<1> QED
  BY <1>1, <1>2, <1>3, <1>4, <1>6, <1>7 DEF N!Next

LEMMA RecoveryInit ==
    ASSUME MaxGen \in Nat, N!Init
    PROVE  RecoveryInv
<1>1. N!None \in Nat
  BY DEF N!None
<1> QED
  BY <1>1 DEF N!Init, RecoveryInv

\* For any number of torrents, peers and changes of network: the addresses of
\* closed peers are kept until the peers are back, and no connection of an
\* older route survives or follows the sweep of an episode (recover_network).
THEOREM RecoverySound == N!Spec => []RecoveryIsSound
<1>1. N!Init => RecoveryInv
  BY RecoveryInit, RecoveryAssumption
<1>2. RecoveryInv /\ [N!Next]_(N!vars) => RecoveryInv'
  BY RecoveryNext, RecoveryAssumption
<1>3. RecoveryInv => RecoveryIsSound
  BY DEF RecoveryInv, RecoveryIsSound, N!AddressesKept, N!OldRouteIsGone, N!Connected
<1> QED
  BY <1>1, <1>2, <1>3, PTL DEF N!Spec

-----------------------------------------------------------------------------
(* Resting and waking a Direct Play session                                *)

\* A session that rests under a read has a wake thread that was started for
\* it, and one without connections rests, or its wake is on the way.
IdleInv ==
    /\ idle_policy \in [reading : SUBSET IdleReaders, resting : BOOLEAN, old : BOOLEAN]
    /\ idle_restPeers \in BOOLEAN /\ idle_cap \in BOOLEAN /\ idle_eligible \in BOOLEAN
    /\ idle_tick \in {"none", "rest", "wake"}
    /\ idle_waker \in [Wakers -> {"none", "state", "record"}]
    /\ idle_policy.reading # {} /\ idle_policy.resting => \E w \in Wakers : idle_waker[w] = "state"
    /\ ~idle_cap => \/ idle_policy.resting \/ idle_tick = "wake"
                    \/ \E w \in Wakers : idle_waker[w] = "record"
    /\ idle_restPeers => idle_policy.resting \/ idle_tick = "wake"

\* What a spawned thread adds, and that it displaces nobody.
LEMMA SpawnFits ==
    ASSUME IdleInv, I!Spawn
    PROVE  /\ idle_waker' \in [Wakers -> {"none", "state", "record"}]
           /\ \E w \in Wakers : idle_waker'[w] = "state"
           /\ \A w \in Wakers : idle_waker[w] = "record" => idle_waker'[w] = "record"
<1>1. PICK w : w = CHOOSE v \in Wakers : idle_waker[v] = "none"
  OBVIOUS
<1>2. w \in Wakers /\ idle_waker[w] = "none"
  BY <1>1 DEF I!Spawn
<1>3. idle_waker' = [idle_waker EXCEPT ![w] = "state"]
  BY <1>1 DEF I!Spawn
<1> QED
  BY <1>2, <1>3 DEF IdleInv

LEMMA BeginReadStep ==
    ASSUME IdleInv, NEW r \in IdleReaders, I!BeginRead(r)
    PROVE  IdleInv'
<1>1. /\ UNCHANGED <<idle_restPeers, idle_cap, idle_tick, idle_eligible>>
      /\ idle_policy' = [idle_policy EXCEPT !.reading = @ \cup {r}, !.old = FALSE]
      /\ IF idle_policy.resting THEN I!Spawn ELSE idle_waker' = idle_waker
  BY DEF I!BeginRead
<1>2. /\ idle_policy' \in [reading : SUBSET IdleReaders, resting : BOOLEAN, old : BOOLEAN]
      /\ idle_policy'.resting = idle_policy.resting
  BY <1>1 DEF IdleInv
<1>3. CASE idle_policy.resting
  <2>1. /\ idle_waker' \in [Wakers -> {"none", "state", "record"}]
        /\ \E w \in Wakers : idle_waker'[w] = "state"
        /\ \A w \in Wakers : idle_waker[w] = "record" => idle_waker'[w] = "record"
    BY <1>1, <1>3, SpawnFits
  <2> QED
    BY <1>1, <1>2, <1>3, <2>1 DEF IdleInv
<1>4. CASE ~idle_policy.resting
  BY <1>1, <1>2, <1>4 DEF IdleInv
<1> QED
  BY <1>3, <1>4

LEMMA MarkAwakeStep ==
    ASSUME IdleInv, NEW w \in Wakers, I!MarkAwake(w)
    PROVE  IdleInv'
<1>1. /\ UNCHANGED <<idle_cap, idle_tick, idle_eligible>> /\ idle_waker[w] = "state"
      /\ idle_waker' = [idle_waker EXCEPT ![w] = IF idle_policy.resting THEN "record" ELSE "none"]
      /\ idle_policy' = [idle_policy EXCEPT !.resting = FALSE]
      /\ idle_restPeers' = (idle_restPeers /\ ~idle_policy.resting)
  BY DEF I!MarkAwake
<1>2. /\ idle_policy' \in [reading : SUBSET IdleReaders, resting : BOOLEAN, old : BOOLEAN]
      /\ idle_policy'.resting = FALSE
  BY <1>1 DEF IdleInv
<1>3. /\ idle_waker' \in [Wakers -> {"none", "state", "record"}]
      /\ idle_policy.resting => idle_waker'[w] = "record"
      /\ \A v \in Wakers : idle_waker[v] = "record" => idle_waker'[v] = "record"
  BY <1>1 DEF IdleInv
<1>4. ~idle_cap' => idle_tick' = "wake" \/ \E v \in Wakers : idle_waker'[v] = "record"
  BY <1>1, <1>3 DEF IdleInv
<1>5. idle_restPeers' \in BOOLEAN /\ (idle_restPeers' => idle_tick' = "wake")
  BY <1>1 DEF IdleInv
<1> QED
  BY <1>1, <1>2, <1>3, <1>4, <1>5 DEF IdleInv

LEMMA IdleTickStep ==
    ASSUME IdleInv, NEW filling \in BOOLEAN, I!Tick(filling)
    PROVE  IdleInv'
<1>1. PICK rests \in BOOLEAN : rests = (/\ idle_eligible /\ idle_policy.reading = {} /\ ~filling
                                        /\ idle_policy.old /\ ~idle_policy.resting)
  OBVIOUS
<1>2. PICK wakes \in BOOLEAN : wakes = (~idle_eligible /\ idle_policy.resting)
  OBVIOUS
<1>3. /\ idle_policy' = [idle_policy EXCEPT !.resting = (idle_eligible /\ @) \/ rests,
                                            !.old = @ /\ idle_eligible]
      /\ idle_tick' = IF rests THEN "rest" ELSE IF wakes THEN "wake" ELSE "none"
      /\ idle_tick = "none"
      /\ UNCHANGED <<idle_restPeers, idle_cap, idle_waker, idle_eligible>>
  BY <1>1, <1>2, Zenon DEF I!Tick
<1>4. idle_policy \in [reading : SUBSET IdleReaders, resting : BOOLEAN, old : BOOLEAN]
  BY DEF IdleInv
<1>5. /\ idle_policy' \in [reading : SUBSET IdleReaders, resting : BOOLEAN, old : BOOLEAN]
      /\ idle_policy'.reading = idle_policy.reading
      /\ idle_policy'.resting = ((idle_eligible /\ idle_policy.resting) \/ rests)
  BY <1>3, <1>4 DEF IdleInv
<1>6. CASE rests
  BY <1>1, <1>3, <1>5, <1>6 DEF IdleInv
<1>7. CASE wakes
  BY <1>2, <1>1, <1>3, <1>5, <1>7 DEF IdleInv
<1>8. CASE ~rests /\ ~wakes
  BY <1>2, <1>3, <1>5, <1>8 DEF IdleInv
<1> QED
  BY <1>6, <1>7, <1>8

LEMMA IdleNext ==
    ASSUME IdleInv, [I!Next]_(I!vars)
    PROVE  IdleInv'
<1>1. CASE (\E r \in IdleReaders : I!BeginRead(r))
  BY <1>1, BeginReadStep
<1>2. CASE \E r \in IdleReaders : I!EndRead(r)
  <2>1. PICK r \in IdleReaders : I!EndRead(r)
    BY <1>2
  <2>2. /\ idle_policy' = [idle_policy EXCEPT !.reading = @ \ {r}, !.old = FALSE]
        /\ UNCHANGED <<idle_restPeers, idle_cap, idle_tick, idle_waker, idle_eligible>>
    BY <2>1 DEF I!EndRead
  <2>3. /\ idle_policy' \in [reading : SUBSET IdleReaders, resting : BOOLEAN, old : BOOLEAN]
        /\ idle_policy'.reading \subseteq idle_policy.reading /\ idle_policy'.resting = idle_policy.resting
    BY <2>2 DEF IdleInv
  <2> QED
    BY <2>2, <2>3 DEF IdleInv
<1>3. CASE I!Touch
  <2>1. CASE idle_policy.resting
    <3>1. /\ idle_waker' \in [Wakers -> {"none", "state", "record"}]
          /\ \E w \in Wakers : idle_waker'[w] = "state"
          /\ \A w \in Wakers : idle_waker[w] = "record" => idle_waker'[w] = "record"
      BY <1>3, <2>1, SpawnFits DEF I!Touch
    <3>2. /\ idle_policy' \in [reading : SUBSET IdleReaders, resting : BOOLEAN, old : BOOLEAN]
          /\ idle_policy'.resting = idle_policy.resting
      BY <1>3 DEF I!Touch, IdleInv
    <3> QED
      BY <1>3, <2>1, <3>1, <3>2 DEF I!Touch, IdleInv
  <2>2. CASE ~idle_policy.resting
    BY <1>3, <2>2 DEF I!Touch, IdleInv
  <2> QED
    BY <2>1, <2>2
<1>4. CASE I!Age
  BY <1>4 DEF I!Age, IdleInv
<1>5. CASE \E w \in Wakers : I!MarkAwake(w)
  BY <1>5, MarkAwakeStep
<1>6. CASE \E w \in Wakers : I!Wake(w)
  BY <1>6 DEF I!Wake, I!RecordFree, IdleInv
<1>7. CASE \E filling \in BOOLEAN : I!Tick(filling)
  BY <1>7, IdleTickStep
<1>8. CASE I!Rest
  BY <1>8 DEF I!Rest, IdleInv
<1>9. CASE I!TickWakes
  BY <1>9 DEF I!TickWakes, IdleInv
<1>10. CASE I!Change
  BY <1>10 DEF I!Change, IdleInv
<1>11. CASE I!SetMaxPeers
  BY <1>11 DEF I!SetMaxPeers, IdleInv
<1>12. CASE UNCHANGED I!vars
  BY <1>12 DEF I!vars, IdleInv
<1> QED
  BY <1>1, <1>2, <1>3, <1>4, <1>5, <1>6, <1>7, <1>8, <1>9, <1>10, <1>11, <1>12 DEF I!Next

\* However reads, /play, pauses and the tick race, and on however many wake
\* threads: no read is left with a resting session that nobody wakes, and no
\* address stays behind (rest_direct_play, wake_direct_play).
THEOREM RestingUndone == I!Spec => []RestingIsUndone
<1>1. I!Init => IdleInv
  <2> SUFFICES ASSUME I!Init PROVE IdleInv
    OBVIOUS
  <2>1. /\ idle_policy = [reading |-> {}, resting |-> FALSE, old |-> FALSE]
        /\ idle_restPeers = FALSE /\ idle_cap = TRUE /\ idle_eligible = TRUE /\ idle_tick = "none"
        /\ idle_waker = [w \in Wakers |-> "none"]
    BY DEF I!Init
  <2>2. idle_policy \in [reading : SUBSET IdleReaders, resting : BOOLEAN, old : BOOLEAN]
    BY <2>1
  <2> QED
    BY <2>1, <2>2 DEF IdleInv
<1>2. IdleInv /\ [I!Next]_(I!vars) => IdleInv'
  BY IdleNext
<1>3. IdleInv => RestingIsUndone
  BY DEF IdleInv, RestingIsUndone, I!ReaderIsServed, I!PeersComeBack
<1> QED
  BY <1>1, <1>2, <1>3, PTL DEF I!Spec

-----------------------------------------------------------------------------
(* The budget of a preview                                                 *)

ReadPlaces == {"idle", "lock", "admit", "demand", "publish", "enter", "wait"}
ReadType == [at : ReadPlaces, range : SUBSET PreviewPieces, wants : SUBSET PreviewPieces]

\* What was ever admitted is paid for.  Closing forgets what was admitted and
\* pieces complete meanwhile, so the set is not one the session still has.
PreviewInv ==
    /\ pre_admitted \subseteq PreviewPieces
    /\ pre_spent \in Nat /\ pre_spent <= PreviewBudget
    /\ pre_read \in [PreviewThreads -> ReadType]
    /\ \E paid \in SUBSET PreviewPieces :
          /\ Cardinality(paid) <= pre_spent
          /\ pre_fetched \subseteq paid /\ pre_admitted \subseteq paid
          /\ \A t \in PreviewThreads : pre_read[t].wants \subseteq paid

\* A step that pays for nothing new: what it demands or collects was paid for.
LEMMA PaidBefore ==
    ASSUME PreviewInv, pre_spent' = pre_spent, pre_admitted' \subseteq pre_admitted,
           pre_read' \in [PreviewThreads -> ReadType],
           \A t \in PreviewThreads :
               \/ pre_read'[t].wants \subseteq pre_read[t].wants
               \/ pre_read'[t].wants \subseteq pre_admitted,
           \/ pre_fetched' = pre_fetched
           \/ \E t \in PreviewThreads : pre_fetched' = pre_fetched \cup pre_read[t].wants
    PROVE  PreviewInv'
<1>1. PICK paid \in SUBSET PreviewPieces :
          /\ Cardinality(paid) <= pre_spent
          /\ pre_fetched \subseteq paid /\ pre_admitted \subseteq paid
          /\ \A t \in PreviewThreads : pre_read[t].wants \subseteq paid
  BY DEF PreviewInv
<1>2. /\ Cardinality(paid) <= pre_spent'
      /\ pre_fetched' \subseteq paid /\ pre_admitted' \subseteq paid
      /\ \A t \in PreviewThreads : pre_read'[t].wants \subseteq paid
  BY <1>1
<1>3. pre_admitted' \subseteq PreviewPieces /\ pre_spent' \in Nat /\ pre_spent' <= PreviewBudget
  BY DEF PreviewInv
<1> QED
  BY <1>2, <1>3 DEF PreviewInv

LEMMA PreviewAdmitStep ==
    ASSUME IsFiniteSet(PreviewPieces), PreviewBudget \in Nat, PreviewInv,
           NEW t \in PreviewThreads, V!Admit(t)
    PROVE  PreviewInv'
<1>1. PICK new : new = V!New(pre_read[t].range)
  OBVIOUS
<1>2. pre_read \in [PreviewThreads -> ReadType]
  BY DEF PreviewInv
<1>3. new \subseteq PreviewPieces
  BY <1>1, <1>2 DEF V!New, ReadType
<1>4. IsFiniteSet(new) /\ Cardinality(new) \in Nat
  BY <1>3, FS_Subset, FS_CardinalityType
<1>5. V!Cardinality(new) = Cardinality(new)
  BY DEF V!Cardinality, Cardinality
<1>6. pre_fetched' = pre_fetched
  BY DEF V!Admit
<1>7. CASE ~pre_closed /\ pre_spent + V!Cardinality(V!New(pre_read[t].range)) <= PreviewBudget
  <2>1. /\ pre_admitted' = pre_admitted \cup new /\ pre_spent' = pre_spent + Cardinality(new)
        /\ pre_read' = [pre_read EXCEPT ![t].at = "demand"]
        /\ pre_spent + Cardinality(new) <= PreviewBudget
    BY <1>1, <1>5, <1>7 DEF V!Admit
  <2>2. /\ pre_read' \in [PreviewThreads -> ReadType]
        /\ \A x \in PreviewThreads : pre_read'[x].wants = pre_read[x].wants
    BY <1>2, <2>1 DEF ReadType, ReadPlaces
  <2>3. PICK paid \in SUBSET PreviewPieces :
            /\ Cardinality(paid) <= pre_spent
            /\ pre_fetched \subseteq paid /\ pre_admitted \subseteq paid
            /\ \A x \in PreviewThreads : pre_read[x].wants \subseteq paid
    BY DEF PreviewInv
  <2>4. IsFiniteSet(paid) /\ Cardinality(paid) \in Nat /\ pre_spent \in Nat
    BY <2>3, FS_Subset, FS_CardinalityType DEF PreviewInv
  <2>5. Cardinality(paid \cup new) <= Cardinality(paid) + Cardinality(new)
    <3>1. IsFiniteSet(paid \cap new) /\ Cardinality(paid \cap new) \in Nat
      BY <1>4, FS_Subset, FS_CardinalityType
    <3>2. Cardinality(paid \cup new) = Cardinality(paid) + Cardinality(new) - Cardinality(paid \cap new)
      BY <1>4, <2>4, FS_Union
    <3> QED
      BY <1>4, <2>4, <3>1, <3>2
  <2>6. IsFiniteSet(paid \cup new) /\ Cardinality(paid \cup new) \in Nat
    BY <1>4, <2>4, FS_Union, FS_CardinalityType
  <2>7. Cardinality(paid \cup new) <= pre_spent'
    BY <1>4, <2>1, <2>3, <2>4, <2>5, <2>6
  <2>8. /\ paid \cup new \in SUBSET PreviewPieces
        /\ pre_fetched' \subseteq paid \cup new /\ pre_admitted' \subseteq paid \cup new
        /\ \A x \in PreviewThreads : pre_read'[x].wants \subseteq paid \cup new
    BY <1>3, <1>6, <2>1, <2>2, <2>3
  <2>9. pre_admitted' \subseteq PreviewPieces /\ pre_spent' \in Nat /\ pre_spent' <= PreviewBudget
    BY <1>3, <1>4, <2>1, <2>4 DEF PreviewInv
  <2> QED
    BY <2>2, <2>7, <2>8, <2>9 DEF PreviewInv
<1>8. CASE ~(~pre_closed /\ pre_spent + V!Cardinality(V!New(pre_read[t].range)) <= PreviewBudget)
  <2>1. /\ pre_read' = [pre_read EXCEPT ![t] = V!AtRest]
        /\ UNCHANGED <<pre_admitted, pre_spent>>
    BY <1>8 DEF V!Admit
  <2>2. V!AtRest \in ReadType /\ V!AtRest.wants = {}
    BY DEF V!AtRest, ReadType, ReadPlaces
  <2>3. /\ pre_read' \in [PreviewThreads -> ReadType]
        /\ \A x \in PreviewThreads : pre_read'[x].wants \subseteq pre_read[x].wants
    BY <1>2, <2>1, <2>2
  <2> QED
    BY <1>6, <2>1, <2>3, PaidBefore
<1> QED
  BY <1>7, <1>8

\* A read that goes on or ends: its place changes, and its wants only to none.
LEMMA PreviewReadMoves ==
    ASSUME PreviewInv, NEW t \in PreviewThreads, NEW k \in ReadType, k.wants \subseteq pre_read[t].wants,
           pre_read' = [pre_read EXCEPT ![t] = k], UNCHANGED <<pre_admitted, pre_spent>>,
           pre_fetched' = pre_fetched \/ pre_fetched' = pre_fetched \cup pre_read[t].wants
    PROVE  PreviewInv'
<1>1. pre_read \in [PreviewThreads -> ReadType]
  BY DEF PreviewInv
<1>2. /\ pre_read' \in [PreviewThreads -> ReadType]
      /\ \A x \in PreviewThreads : pre_read'[x].wants \subseteq pre_read[x].wants
  BY <1>1
<1>3. \/ pre_fetched' = pre_fetched
      \/ \E x \in PreviewThreads : pre_fetched' = pre_fetched \cup pre_read[x].wants
  OBVIOUS
<1> QED
  BY <1>2, <1>3, PaidBefore

LEMMA ThreadStep ==
    ASSUME IsFiniteSet(PreviewPieces), PreviewBudget \in Nat, PreviewInv, NEW t \in PreviewThreads,
           \/ V!ReadStep(t) \/ V!Paused(t)
           \/ \E r \in (SUBSET PreviewPieces) \ {{}} : V!ReadStarts(t, r)
    PROVE  PreviewInv'
<1>1. pre_read \in [PreviewThreads -> ReadType] /\ pre_read[t] \in ReadType
  BY DEF PreviewInv
<1>2. V!AtRest \in ReadType /\ V!AtRest.wants = {}
  BY DEF V!AtRest, ReadType, ReadPlaces
<1>3. CASE V!Admit(t)
  BY <1>3, PreviewAdmitStep
<1>4. CASE V!Collect(t)
  <2>1. PICK k : k = [pre_read[t] EXCEPT !.at = "publish", !.wants = pre_admitted \ pre_complete]
    OBVIOUS
  <2>2. k \in ReadType /\ k.wants = pre_admitted \ pre_complete
    BY <1>1, <2>1 DEF ReadType, ReadPlaces, PreviewInv
  <2>3. pre_read' = [pre_read EXCEPT ![t] = k] /\ UNCHANGED <<pre_admitted, pre_spent, pre_fetched>>
    BY <1>4, <1>1, <2>1 DEF V!Collect, ReadType
  <2>4. /\ pre_read' \in [PreviewThreads -> ReadType]
        /\ \A x \in PreviewThreads :
              \/ pre_read'[x].wants \subseteq pre_read[x].wants
              \/ pre_read'[x].wants \subseteq pre_admitted
    BY <1>1, <2>2, <2>3
  <2> QED
    BY <2>3, <2>4, PaidBefore
<1>5. ASSUME NEW place \in ReadPlaces, pre_read' = [pre_read EXCEPT ![t].at = place],
             UNCHANGED <<pre_admitted, pre_spent>>,
             pre_fetched' = pre_fetched \/ pre_fetched' = pre_fetched \cup pre_read[t].wants
      PROVE  PreviewInv'
  <2>1. PICK k : k = [pre_read[t] EXCEPT !.at = place]
    OBVIOUS
  <2>2. k \in ReadType /\ k.wants = pre_read[t].wants
    BY <1>1, <2>1 DEF ReadType
  <2>3. pre_read' = [pre_read EXCEPT ![t] = k]
    BY <1>5, <1>1, <2>1 DEF ReadType
  <2> QED
    BY <1>5, <2>2, <2>3, PreviewReadMoves
<1>6. ASSUME pre_read' = [pre_read EXCEPT ![t] = V!AtRest], UNCHANGED <<pre_admitted, pre_spent, pre_fetched>>
      PROVE  PreviewInv'
  BY <1>2, <1>6, PreviewReadMoves
<1>7. CASE V!Lock(t)
  BY <1>5, <1>7 DEF V!Lock, ReadPlaces
<1>8. CASE V!Publish(t)
  BY <1>5, <1>8 DEF V!Publish, ReadPlaces
<1>9. CASE V!Enter(t)
  <2>1. CASE pre_gone
    BY <1>6, <1>9, <2>1 DEF V!Enter, ReadPlaces
  <2>2. CASE ~pre_gone
    BY <1>5, <1>9, <2>2 DEF V!Enter, ReadPlaces
  <2> QED
    BY <2>1, <2>2
<1>10. CASE V!Return(t) \/ V!Paused(t)
  BY <1>6, <1>10 DEF V!Return, V!Paused
<1>11. CASE \E r \in (SUBSET PreviewPieces) \ {{}} : V!ReadStarts(t, r)
  <2>1. PICK r \in SUBSET PreviewPieces : V!ReadStarts(t, r)
    BY <1>11
  <2>2. PICK k : k = [V!AtRest EXCEPT !.at = "lock", !.range = r]
    OBVIOUS
  <2>3. k \in ReadType /\ k.wants = {}
    BY <2>1, <2>2 DEF V!AtRest, ReadType, ReadPlaces
  <2>4. pre_read' = [pre_read EXCEPT ![t] = k] /\ UNCHANGED <<pre_admitted, pre_spent, pre_fetched>>
    BY <2>1, <2>2 DEF V!ReadStarts
  <2> QED
    BY <2>3, <2>4, PreviewReadMoves
<1> QED
  BY <1>3, <1>4, <1>7, <1>8, <1>9, <1>10, <1>11 DEF V!ReadStep

LEMMA PreviewNext ==
    ASSUME IsFiniteSet(PreviewPieces), PreviewBudget \in Nat, PreviewInv, [V!Next]_(V!vars)
    PROVE  PreviewInv'
<1>1. CASE \E t \in PreviewThreads :
             \/ V!ReadStep(t) \/ V!Paused(t)
             \/ \E r \in (SUBSET PreviewPieces) \ {{}} : V!ReadStarts(t, r)
  BY <1>1, ThreadStep
<1>2. ASSUME UNCHANGED <<pre_spent, pre_fetched, pre_read>>, pre_admitted' \subseteq pre_admitted
      PROVE  PreviewInv'
  <2>1. pre_read' \in [PreviewThreads -> ReadType]
    BY <1>2 DEF PreviewInv
  <2>2. \A t \in PreviewThreads : pre_read'[t].wants \subseteq pre_read[t].wants
    BY <1>2
  <2> QED
    BY <1>2, <2>1, <2>2, PaidBefore
<1>3. CASE \E c \in Closers : V!CloseStarts(c) \/ V!CloseStep(c)
  BY <1>2, <1>3 DEF V!CloseStarts, V!CloseStep, V!Cancel, V!Withdraw, V!Drop
<1>4. CASE \E p \in PreviewPieces : V!Arrives(p)
  BY <1>2, <1>4 DEF V!Arrives
<1>5. CASE UNCHANGED V!vars
  BY <1>2, <1>5 DEF V!vars
<1> QED
  BY <1>1, <1>3, <1>4, <1>5 DEF V!Next

LEMMA PreviewInit ==
    ASSUME PreviewBudget \in Nat, V!Init
    PROVE  PreviewInv
<1>1. /\ pre_admitted = {} /\ pre_spent = 0 /\ pre_fetched = {}
      /\ pre_read = [t \in PreviewThreads |-> V!AtRest]
  BY DEF V!Init
<1>2. V!AtRest \in ReadType /\ V!AtRest.wants = {}
  BY DEF V!AtRest, ReadType, ReadPlaces
<1>3. Cardinality({}) <= pre_spent
  BY <1>1, FS_EmptySet
<1> QED
  BY <1>1, <1>2, <1>3 DEF PreviewInv

LEMMA PreviewImplies ==
    ASSUME IsFiniteSet(PreviewPieces), PreviewBudget \in Nat, PreviewInv
    PROVE  BudgetIsKept
<1>1. PICK paid \in SUBSET PreviewPieces : Cardinality(paid) <= pre_spent /\ pre_fetched \subseteq paid
  BY DEF PreviewInv
<1>2. IsFiniteSet(paid)
  BY FS_Subset
<1>3. /\ IsFiniteSet(pre_fetched) /\ Cardinality(pre_fetched) <= Cardinality(paid)
      /\ Cardinality(pre_fetched) \in Nat /\ Cardinality(paid) \in Nat
  BY <1>1, <1>2, FS_Subset, FS_CardinalityType
<1>4. V!Cardinality(pre_fetched) = Cardinality(pre_fetched)
  BY DEF V!Cardinality, Cardinality
<1> QED
  BY <1>1, <1>3, <1>4 DEF PreviewInv, BudgetIsKept, V!BudgetIsKept

\* For any finite file and any budget, number of threads and closers, a
\* preview session never demands more pieces than its budget pays for, also
\* when pieces complete, reads fail and the session is closed meanwhile
\* (admit_range, PreviewReader::close).
THEOREM BudgetKept == V!Spec => []BudgetIsKept
<1>1. V!Init => PreviewInv
  BY PreviewInit, PreviewAssumption
<1>2. PreviewInv /\ [V!Next]_(V!vars) => PreviewInv'
  BY PreviewNext, PreviewAssumption
<1>3. PreviewInv => BudgetIsKept
  BY PreviewImplies, PreviewAssumption
<1> QED
  BY <1>1, <1>2, <1>3, PTL DEF V!Spec

-----------------------------------------------------------------------------
(* A range served to a player                                              *)

FrameType == [from : Nat, n : Nat]

StreamTypes ==
    /\ str_range \in Nat \X Nat /\ str_range[2] < FilePieces
    /\ str_off \in Nat /\ str_range[1] <= str_off /\ str_off <= str_range[2] + 1
    /\ str_got \in Seq(FrameType) /\ str_chan \in Seq(FrameType)
    /\ str_core \in [pos : Nat, reading : BOOLEAN, pieces : SUBSET Nat]
    /\ str_call \in [at : {"idle", "start", "wait", "retry", "done"}, attempt : Nat, data : FrameType]
    /\ str_task \in {"none", "loop", "reads", "sends", "ended"}

\* The frames sent so far end where the loop stands, and an error ends the loop.
SentInOrder ==
    /\ S!BytesInOrder
    /\ \A i \in 1..Len(str_got \o str_chan) : (str_got \o str_chan)[i].n = 0 => str_task = "ended"
    /\ str_handler = "opens" => str_client # "gone"

\* A read that goes on is the loop's and stands at its offset, whose piece it
\* has registered; its result, if the loop still waits for it, is of that offset.
ReadOfLoop ==
    /\ str_call.at \in {"start", "wait", "retry"} /\ str_reader = "open" => str_task = "reads"
    /\ str_task = "reads" => str_off <= str_range[2]
    /\ str_task = "sends" => str_call.at = "done"
    /\ str_call.at \in {"wait", "retry"} /\ str_reader = "open" =>
          str_core.pos = str_off /\ str_core.reading /\ str_core.pieces = {str_off}
    /\ str_call.at = "done" /\ str_task \in {"reads", "sends"} =>
          str_call.data.from = str_off /\ str_off + str_call.data.n <= str_range[2] + 1
    /\ str_reader # "closed" => str_core.pieces = str_pushed
    /\ str_reader = "none" => str_call.at = "idle"
    /\ str_handler = "opens" => str_task = "none"

StreamInv == StreamTypes /\ SentInOrder /\ ReadOfLoop

LEMMA ConcatAppend ==
    ASSUME NEW s \in Seq(FrameType), NEW t \in Seq(FrameType), NEW f \in FrameType
    PROVE  s \o Append(t, f) = Append(s \o t, f)
<1>1. s \o Append(t, f) \in Seq(FrameType) /\ Append(s \o t, f) \in Seq(FrameType)
  OBVIOUS
<1>2. Len(s \o Append(t, f)) = Len(s) + Len(t) + 1 /\ Len(Append(s \o t, f)) = Len(s) + Len(t) + 1
  OBVIOUS
<1>3. \A i \in 1..(Len(s) + Len(t) + 1) : (s \o Append(t, f))[i] = Append(s \o t, f)[i]
  OBVIOUS
<1> QED
  BY <1>1, <1>2, <1>3

LEMMA HeadMoves ==
    ASSUME NEW T, NEW s \in Seq(T), NEW t \in Seq(T), t # <<>>
    PROVE  /\ Append(s, Head(t)) \o Tail(t) = s \o t
           /\ Append(s, Head(t)) \in Seq(T) /\ Tail(t) \in Seq(T)
<1>1. Head(t) \in T /\ Tail(t) \in Seq(T) /\ Append(s, Head(t)) \in Seq(T) /\ Len(Tail(t)) = Len(t) - 1
      /\ Len(t) > 0
  OBVIOUS
<1>2. Append(s, Head(t)) \o Tail(t) \in Seq(T) /\ s \o t \in Seq(T)
  BY <1>1
<1>3. Len(Append(s, Head(t)) \o Tail(t)) = Len(s) + Len(t) /\ Len(s \o t) = Len(s) + Len(t)
  BY <1>1
<1>4. \A i \in 1..(Len(s) + Len(t)) : (Append(s, Head(t)) \o Tail(t))[i] = (s \o t)[i]
  BY <1>1
<1> QED
  BY <1>1, <1>2, <1>3, <1>4

\* One more frame, which begins where the others end.
LEMMA OneMoreFrame ==
    ASSUME StreamTypes, NEW s \in Seq(FrameType), NEW f \in FrameType, S!InOrder(s),
           f.from = S!After(s, Len(s)), f.from + f.n <= str_range[2] + 1,
           \A i \in 1..Len(s) : s[i].n # 0
    PROVE  /\ S!InOrder(Append(s, f)) /\ Len(Append(s, f)) = Len(s) + 1
           /\ S!After(Append(s, f), Len(s) + 1) = f.from + f.n
           /\ \A i \in 1..(Len(s) + 1) : Append(s, f)[i].n = 0 => f.n = 0
<1>1. PICK r : r = Append(s, f)
  OBVIOUS
<1>2. /\ r \in Seq(FrameType) /\ Len(r) = Len(s) + 1 /\ r[Len(s) + 1] = f
      /\ \A i \in 1..Len(s) : r[i] = s[i]
  BY <1>1
<1>3. Len(s) \in Nat /\ f.from \in Nat /\ f.n \in Nat
  BY DEF FrameType
<1>4. \A i \in 0..Len(s) : S!After(r, i) = S!After(s, i)
  BY <1>2, <1>3 DEF S!After
<1>5. S!After(r, Len(s) + 1) = f.from + f.n
  BY <1>2, <1>3 DEF S!After
<1>6. ASSUME NEW i \in 1..Len(r)
      PROVE  /\ r[i].from = S!After(r, i - 1) /\ S!After(r, i) <= str_range[2] + 1
             /\ r[i].n = 0 => i = Len(r)
  <2>1. CASE i = Len(s) + 1
    BY <1>2, <1>3, <1>4, <1>5, <2>1
  <2>2. CASE i # Len(s) + 1
    <3>1. i \in 1..Len(s) /\ i - 1 \in 0..Len(s) /\ i \in 0..Len(s)
      BY <1>2, <1>3, <2>2
    <3>2. s[i].from = S!After(s, i - 1) /\ S!After(s, i) <= str_range[2] + 1
      BY <3>1 DEF S!InOrder
    <3> QED
      BY <1>2, <1>4, <3>1, <3>2
  <2> QED
    BY <2>1, <2>2
<1> QED
  BY <1>1, <1>2, <1>3, <1>5, <1>6 DEF S!InOrder

\* What remains when the last frames are dropped.
LEMMA FramesDropped ==
    ASSUME NEW s \in Seq(FrameType), NEW t \in Seq(FrameType), S!InOrder(s \o t)
    PROVE  S!InOrder(s)
<1>1. /\ Len(s \o t) = Len(s) + Len(t) /\ Len(s) \in Nat /\ Len(t) \in Nat
      /\ \A i \in 1..Len(s) : (s \o t)[i] = s[i]
  OBVIOUS
<1>2. ASSUME NEW i \in 1..Len(s)
      PROVE  /\ s[i].from = S!After(s, i - 1) /\ S!After(s, i) <= str_range[2] + 1
             /\ s[i].n = 0 => i = Len(s)
  <2>1. i \in 1..Len(s \o t)
    BY <1>1
  <2>2. S!After(s \o t, i - 1) = S!After(s, i - 1) /\ S!After(s \o t, i) = S!After(s, i)
    BY <1>1 DEF S!After
  <2> QED
    BY <1>1, <2>1, <2>2 DEF S!InOrder
<1> QED
  BY <1>2 DEF S!InOrder

\* A step that sends and receives nothing.
LEMMA SentKept ==
    ASSUME SentInOrder, UNCHANGED <<str_got, str_chan, str_range, str_off>>,
           str_client' = str_client \/ (str_client # "gone" /\ str_client' # "gone"),
           str_handler' = str_handler \/ str_handler' # "opens",
           str_task = "ended" => str_task' = "ended"
    PROVE  SentInOrder'
<1>1. PICK s : s = str_got \o str_chan
  OBVIOUS
<1>2. S!InOrder(s) /\ (str_client # "gone" => S!After(s, Len(s)) = str_off)
  BY <1>1 DEF SentInOrder, S!BytesInOrder
<1>3. str_got' \o str_chan' = s
  BY <1>1
<1>4. S!BytesInOrder'
  BY <1>2, <1>3 DEF S!BytesInOrder, S!InOrder, S!After
<1> QED
  BY <1>1, <1>3, <1>4 DEF SentInOrder

ReadCallType == [at : {"idle", "start", "wait", "retry", "done"}, attempt : Nat, data : FrameType]

\* The handler opens the reader and answers.
LEMMA HandlerStep ==
    ASSUME StreamInv, S!Opened \/ S!OpenFails \/ S!Respond \/ S!RespondEmpty
    PROVE  StreamInv'
<1>1. UNCHANGED <<str_range, str_off, str_chan, str_got, str_core, str_call>>
  BY DEF S!Opened, S!OpenFails, S!Respond, S!RespondEmpty, S!stream
<1>2. /\ str_client' = str_client \/ (str_client # "gone" /\ str_client' # "gone")
      /\ str_handler' = str_handler \/ str_handler' # "opens"
      /\ str_task = "ended" => str_task' = "ended"
  BY DEF StreamInv, SentInOrder, ReadOfLoop, S!Opened, S!OpenFails, S!Respond, S!RespondEmpty, S!stream
<1>3. SentInOrder'
  BY <1>1, <1>2, SentKept DEF StreamInv
<1>4. StreamTypes'
  BY <1>1 DEF StreamInv, StreamTypes, S!Opened, S!OpenFails, S!Respond, S!RespondEmpty, S!stream
<1>5. ReadOfLoop'
  BY <1>1 DEF StreamInv, StreamTypes, ReadOfLoop, S!Opened, S!OpenFails, S!Respond, S!RespondEmpty, S!stream, S!Closes
<1> QED
  BY <1>3, <1>4, <1>5 DEF StreamInv

\* The loop asks for a read, takes its result, or ends.
LEMMA LoopStep ==
    ASSUME StreamInv, S!LoopReads \/ S!LoopEnds \/ S!LoopGets \/ S!LoopHangsUp \/ S!LoopSendFails
    PROVE  StreamInv'
<1>1. UNCHANGED <<str_range, str_off, str_chan, str_got, str_core, str_client, str_handler>>
  BY DEF S!LoopReads, S!LoopEnds, S!LoopGets, S!LoopHangsUp, S!LoopSendFails
<1>2. str_task # "ended" \/ str_task' = "ended"
  BY DEF S!LoopReads, S!LoopEnds, S!LoopGets, S!LoopHangsUp, S!LoopSendFails
<1>3. SentInOrder'
  BY <1>1, <1>2, SentKept DEF StreamInv
<1>4. S!Idle \in ReadCallType /\ S!Idle.at = "idle" /\ [S!Idle EXCEPT !.at = "start"] \in ReadCallType
      /\ [S!Idle EXCEPT !.at = "start"].at = "start"
  BY DEF S!Idle, ReadCallType, FrameType
<1>5. CASE S!LoopReads
  BY <1>1, <1>3, <1>4, <1>5 DEF StreamInv, StreamTypes, ReadOfLoop, S!LoopReads, ReadCallType
<1>6. CASE S!LoopEnds
  BY <1>1, <1>3, <1>6 DEF StreamInv, StreamTypes, ReadOfLoop, S!LoopEnds, S!Ends, S!Closes
<1>7. CASE S!LoopGets
  BY <1>1, <1>3, <1>7 DEF StreamInv, StreamTypes, ReadOfLoop, S!LoopGets
<1>8. CASE S!LoopHangsUp
  BY <1>1, <1>3, <1>8 DEF StreamInv, StreamTypes, ReadOfLoop, S!LoopHangsUp, S!Ends, S!Closes
<1>9. CASE S!LoopSendFails
  BY <1>1, <1>3, <1>4, <1>9 DEF StreamInv, StreamTypes, ReadOfLoop, S!LoopSendFails, S!Ends, S!Closes, ReadCallType
<1> QED
  BY <1>5, <1>6, <1>7, <1>8, <1>9

LEMMA LoopSendsStep ==
    ASSUME StreamInv, S!LoopSends
    PROVE  StreamInv'
<1>1. PICK f : f = str_call.data
  OBVIOUS
<1>2. /\ f \in FrameType /\ f.from = str_off /\ str_off + f.n <= str_range[2] + 1
      /\ f.from \in Nat /\ f.n \in Nat /\ str_off \in Nat
      /\ str_range[1] \in Nat /\ str_range[2] \in Nat /\ str_range[1] <= str_off
      /\ str_got \in Seq(FrameType) /\ str_chan \in Seq(FrameType)
  BY <1>1 DEF StreamInv, StreamTypes, ReadOfLoop, FrameType, S!LoopSends
<1>3. /\ str_task = "sends" /\ str_client # "gone" /\ str_chan' = Append(str_chan, f)
      /\ str_call' = S!Idle /\ UNCHANGED <<str_client, str_range, str_handler, str_got, str_core>>
      /\ \/ f.n = 0 /\ str_task' = "ended" /\ str_off' = str_off /\ str_reader' = "closed"
         \/ /\ f.n # 0 /\ str_off' = str_off + f.n /\ str_task' = "loop"
            /\ UNCHANGED <<str_reader, str_pushed>>
  BY <1>1 DEF S!LoopSends, S!Ends, S!Closes
<1>4. str_off' = str_off + f.n /\ (f.n = 0 => str_task' = "ended")
  BY <1>2, <1>3
<1>5. PICK s : s = str_got \o str_chan
  OBVIOUS
<1>6. /\ s \in Seq(FrameType) /\ S!InOrder(s) /\ S!After(s, Len(s)) = str_off
      /\ \A i \in 1..Len(s) : s[i].n # 0
  BY <1>2, <1>3, <1>5 DEF StreamInv, SentInOrder, S!BytesInOrder
<1>7. PICK r : r = Append(s, f)
  OBVIOUS
<1>8. str_got' \o str_chan' = r /\ str_chan' \in Seq(FrameType)
  <2>1. str_got \o Append(str_chan, f) = Append(str_got \o str_chan, f)
    BY <1>2, ConcatAppend
  <2>2. str_got' \o str_chan' = Append(s, f)
    BY <1>3, <1>5, <2>1
  <2>3. str_chan' \in Seq(FrameType)
    BY <1>2, <1>3
  <2> QED
    BY <1>7, <2>2, <2>3
<1>9. StreamTypes
  BY DEF StreamInv
<1>10. /\ S!InOrder(r) /\ Len(r) = Len(s) + 1 /\ S!After(r, Len(s) + 1) = f.from + f.n
       /\ \A i \in 1..(Len(s) + 1) : r[i].n = 0 => f.n = 0
  BY <1>2, <1>6, <1>7, <1>9, OneMoreFrame
<1>11. S!BytesInOrder'
  BY <1>2, <1>3, <1>4, <1>8, <1>10 DEF S!BytesInOrder, S!InOrder, S!After
<1>12. SentInOrder'
  BY <1>3, <1>4, <1>8, <1>10, <1>11 DEF SentInOrder, StreamInv
<1>13. S!Idle \in ReadCallType /\ S!Idle.at = "idle"
  BY DEF S!Idle, ReadCallType, FrameType
<1>14. StreamTypes'
  <2>1. /\ str_off' \in Nat /\ str_range[1] <= str_off' /\ str_off' <= str_range[2] + 1
        /\ str_task' \in {"none", "loop", "reads", "sends", "ended"}
    BY <1>2, <1>3, <1>4
  <2>2. str_range' = str_range /\ str_got' = str_got /\ str_core' = str_core /\ str_call' \in ReadCallType
    BY <1>3, <1>13
  <2> QED
    BY <1>8, <1>9, <2>1, <2>2 DEF StreamTypes, ReadCallType
<1>15. ReadOfLoop'
  BY <1>3, <1>13 DEF StreamInv, ReadOfLoop
<1> QED
  BY <1>12, <1>14, <1>15 DEF StreamInv

LEMMA PlayerStep ==
    ASSUME StreamInv, S!Receive \/ S!HangUp
    PROVE  StreamInv'
<1>1. str_got \in Seq(FrameType) /\ str_chan \in Seq(FrameType)
  BY DEF StreamInv, StreamTypes
<1>2. UNCHANGED <<str_range, str_task, str_off, str_reader, str_core, str_pushed, str_call>>
  BY DEF S!Receive, S!HangUp
<1>3. ReadOfLoop'
  BY <1>2 DEF StreamInv, ReadOfLoop, S!Receive, S!HangUp
<1>4. CASE S!Receive
  <2>1. /\ str_got' = Append(str_got, Head(str_chan)) /\ str_chan' = Tail(str_chan) /\ str_chan # <<>>
        /\ UNCHANGED <<str_client, str_handler>>
    BY <1>4 DEF S!Receive
  <2>2. /\ str_got' \o str_chan' = str_got \o str_chan
        /\ str_got' \in Seq(FrameType) /\ str_chan' \in Seq(FrameType)
    BY <1>1, <2>1, HeadMoves
  <2>3. SentInOrder'
    BY <1>2, <2>1, <2>2 DEF StreamInv, SentInOrder, S!BytesInOrder, S!InOrder, S!After
  <2>4. StreamTypes'
    BY <1>2, <2>2 DEF StreamInv, StreamTypes
  <2> QED
    BY <1>3, <2>3, <2>4 DEF StreamInv
<1>5. CASE S!HangUp
  <2>1. /\ str_client' = "gone" /\ str_chan' = <<>> /\ str_got' = str_got
        /\ str_handler' # "opens"
    BY <1>5 DEF S!HangUp
  <2>2. str_got' \o str_chan' = str_got /\ str_chan' \in Seq(FrameType)
    BY <1>1, <2>1
  <2>3. S!InOrder(str_got)
    BY <1>1, FramesDropped DEF StreamInv, SentInOrder, S!BytesInOrder
  <2>4. S!BytesInOrder'
    BY <1>2, <2>1, <2>2, <2>3 DEF S!BytesInOrder, S!InOrder, S!After
  <2>5. \A i \in 1..Len(str_got) : i \in 1..Len(str_got \o str_chan) /\ (str_got \o str_chan)[i] = str_got[i]
    BY <1>1
  <2>6. SentInOrder'
    BY <1>2, <2>1, <2>2, <2>4, <2>5 DEF StreamInv, SentInOrder
  <2>7. StreamTypes'
    BY <1>1, <1>2, <2>1, <2>2 DEF StreamInv, StreamTypes
  <2> QED
    BY <1>3, <2>6, <2>7 DEF StreamInv
<1> QED
  BY <1>4, <1>5

\* The pieces come, transfers pause, and the engine closes readers.
LEMMA HostStep ==
    ASSUME StreamInv, S!Pause \/ S!EngineCloses \/ \E p \in S!File : S!Arrives(p)
    PROVE  StreamInv'
<1>1. UNCHANGED <<str_client, str_range, str_handler, str_task, str_off, str_chan, str_got, str_core, str_call>>
  BY DEF S!Pause, S!EngineCloses, S!Arrives, S!stream
<1>2. str_reader' = "closed" \/ UNCHANGED <<str_reader, str_pushed>>
  BY DEF S!Pause, S!EngineCloses, S!Arrives, S!Closes
<1>3. SentInOrder'
  BY <1>1, SentKept DEF StreamInv
<1>4. StreamTypes'
  BY <1>1 DEF StreamInv, StreamTypes
<1>5. ReadOfLoop'
  BY <1>1, <1>2 DEF StreamInv, ReadOfLoop
<1> QED
  BY <1>3, <1>4, <1>5 DEF StreamInv

\* What a step of the reader leaves to show: it sends nothing.
LEMMA ReaderFrame ==
    ASSUME StreamInv, UNCHANGED <<S!stream, str_reader>>,
           str_core' \in [pos : Nat, reading : BOOLEAN, pieces : SUBSET Nat], str_call' \in ReadCallType,
           ReadOfLoop'
    PROVE  StreamInv'
<1>1. UNCHANGED <<str_client, str_range, str_handler, str_task, str_off, str_chan, str_got>>
  BY DEF S!stream
<1>2. SentInOrder'
  BY <1>1, SentKept DEF StreamInv
<1>3. StreamTypes'
  BY <1>1 DEF StreamInv, StreamTypes, ReadCallType
<1> QED
  BY <1>2, <1>3 DEF StreamInv

\* pos_changed: what is remembered as pushed is what is registered.
LEMMA PosChangedFits ==
    ASSUME NEW c \in [pos : Nat, reading : BOOLEAN, pieces : SUBSET Nat], S!PosChanged(c), c.pieces = str_pushed
    PROVE  /\ str_core' \in [pos : Nat, reading : BOOLEAN, pieces : SUBSET Nat]
           /\ str_core'.pos = c.pos /\ str_core'.reading = c.reading
           /\ str_core'.pieces = S!Wanted(c) /\ str_pushed' = S!Wanted(c)
<1>1. S!Wanted(c) \in SUBSET Nat
  BY DEF S!Wanted
<1>2. CASE S!Wanted(c) = c.pieces
  BY <1>2 DEF S!PosChanged
<1>3. CASE S!Wanted(c) # c.pieces
  BY <1>1, <1>3 DEF S!PosChanged
<1> QED
  BY <1>2, <1>3


LEMMA ReadBeginsStep ==
    ASSUME FilePieces \in Nat, StreamInv, S!ReadBegins
    PROVE  StreamInv'
<1>1. PICK c : c = [S!Sought(str_core, str_off) EXCEPT !.reading = TRUE]
  OBVIOUS
<1>2. /\ str_core \in [pos : Nat, reading : BOOLEAN, pieces : SUBSET Nat] /\ str_off \in Nat
      /\ str_core.pieces = str_pushed /\ str_call \in ReadCallType
      /\ str_task = "reads" /\ str_off <= str_range[2] /\ str_range[2] \in Nat /\ str_range[2] < FilePieces
      /\ str_handler # "opens"
  BY DEF StreamInv, StreamTypes, ReadOfLoop, ReadCallType, S!ReadBegins
<1>3. /\ c \in [pos : Nat, reading : BOOLEAN, pieces : SUBSET Nat]
      /\ c.pos = str_off /\ c.reading = TRUE /\ c.pieces = str_pushed
  BY <1>1, <1>2 DEF S!Sought
<1>4. S!PosChanged(c)
  BY <1>1 DEF S!ReadBegins
<1>5. S!Wanted(c) = {str_off}
  BY <1>2, <1>3 DEF S!Wanted
<1>6. /\ str_core' \in [pos : Nat, reading : BOOLEAN, pieces : SUBSET Nat]
      /\ str_core'.pos = str_off /\ str_core'.reading = TRUE
      /\ str_core'.pieces = {str_off} /\ str_pushed' = {str_off}
  BY <1>3, <1>4, <1>5, PosChangedFits
<1>7. /\ str_call' = [str_call EXCEPT !.at = "wait", !.attempt = 1] /\ str_reader = "open"
      /\ UNCHANGED <<S!stream, str_reader>>
      /\ UNCHANGED <<str_range, str_handler, str_task, str_off>>
  BY DEF S!ReadBegins, S!stream
<1>8. str_call' \in ReadCallType /\ str_call'.at = "wait"
  BY <1>2, <1>7 DEF ReadCallType
<1>9. ReadOfLoop'
  BY <1>2, <1>6, <1>7, <1>8 DEF ReadOfLoop
<1> QED
  BY <1>6, <1>7, <1>8, <1>9, ReaderFrame

LEMMA ReadGetsStep ==
    ASSUME FilePieces \in Nat, Chunk \in Nat, StreamInv, S!ReadGets
    PROVE  StreamInv'
<1>1. /\ str_core \in [pos : Nat, reading : BOOLEAN, pieces : SUBSET Nat] /\ str_off \in Nat
      /\ str_core.pieces = str_pushed /\ str_call \in ReadCallType /\ str_core.pos = str_off
      /\ str_task = "reads" /\ str_off <= str_range[2] /\ str_range[2] \in Nat
      /\ str_handler # "opens"
  BY DEF StreamInv, StreamTypes, ReadOfLoop, ReadCallType, S!ReadGets
<1>2. PICK n \in 1..S!Want :
          /\ S!Returns([from |-> str_core.pos, n |-> n])
          /\ S!PosChanged([str_core EXCEPT !.pos = @ + n])
  BY DEF S!ReadGets
<1>3. n \in Nat /\ str_off + n <= str_range[2] + 1
  BY <1>1, <1>2 DEF S!Want
<1>4. PICK c : c = [str_core EXCEPT !.pos = @ + n]
  OBVIOUS
<1>5. c \in [pos : Nat, reading : BOOLEAN, pieces : SUBSET Nat] /\ c.pieces = str_pushed
  BY <1>1, <1>3, <1>4
<1>6. /\ str_core' \in [pos : Nat, reading : BOOLEAN, pieces : SUBSET Nat]
      /\ str_core'.pieces = str_pushed'
  BY <1>2, <1>4, <1>5, PosChangedFits
<1>7. PICK f : f = [from |-> str_core.pos, n |-> n]
  OBVIOUS
<1>8. f \in FrameType /\ f.from = str_off /\ f.n = n
  BY <1>1, <1>3, <1>7 DEF FrameType
<1>9. /\ str_call' = [str_call EXCEPT !.at = "done", !.data = f] /\ str_reader = "open"
      /\ UNCHANGED <<S!stream, str_reader>>
      /\ UNCHANGED <<str_range, str_handler, str_task, str_off>>
  BY <1>2, <1>7 DEF S!ReadGets, S!Returns, S!stream
<1>10. str_call' \in ReadCallType /\ str_call'.at = "done" /\ str_call'.data = f
  BY <1>1, <1>8, <1>9 DEF ReadCallType
<1>11. ReadOfLoop'
  BY <1>1, <1>3, <1>6, <1>8, <1>9, <1>10 DEF ReadOfLoop
<1> QED
  BY <1>6, <1>9, <1>10, <1>11, ReaderFrame

\* A read that fails returns no piece, at the loop's offset.
LEMMA FailsFits ==
    ASSUME StreamInv, S!Fails, UNCHANGED <<S!stream, str_reader, str_core, str_pushed>>, str_reader # "none",
           str_call.at = "start" \/ str_call.at = "wait" \/ str_call.at = "retry"
    PROVE  StreamInv'
<1>1. PICK f : f = [from |-> str_off, n |-> 0]
  OBVIOUS
<1>2. /\ str_core \in [pos : Nat, reading : BOOLEAN, pieces : SUBSET Nat] /\ str_off \in Nat
      /\ str_call \in ReadCallType /\ str_range[2] \in Nat /\ str_off <= str_range[2] + 1
      /\ UNCHANGED <<str_range, str_handler, str_task, str_off>>
  BY DEF StreamInv, StreamTypes, ReadCallType, S!stream
<1>3. f \in FrameType /\ f.from = str_off /\ f.n = 0
  BY <1>1, <1>2 DEF FrameType
<1>4. str_call' = [str_call EXCEPT !.at = "done", !.data = f]
  BY <1>1 DEF S!Fails, S!Returns
<1>5. str_call' \in ReadCallType /\ str_call'.at = "done" /\ str_call'.data = f
  BY <1>2, <1>3, <1>4 DEF ReadCallType
<1>6. ReadOfLoop'
  BY <1>2, <1>3, <1>5 DEF ReadOfLoop, StreamInv
<1>7. str_core' \in [pos : Nat, reading : BOOLEAN, pieces : SUBSET Nat]
  BY <1>2
<1> QED
  BY <1>5, <1>6, <1>7, ReaderFrame

\* The other steps of a read.
LEMMA ReadGoesOn ==
    ASSUME FilePieces \in Nat, StreamInv,
           S!ReadFails \/ S!ReadCancelled \/ S!ReadPaused \/ S!ReadTimesOut \/ S!ReadLeft
    PROVE  StreamInv'
<1>1. /\ str_core \in [pos : Nat, reading : BOOLEAN, pieces : SUBSET Nat] /\ str_off \in Nat
      /\ str_call \in ReadCallType /\ str_range[2] < FilePieces /\ str_range[2] \in Nat
  BY DEF StreamInv, StreamTypes, ReadCallType
<1>2. CASE S!ReadCancelled
  BY <1>2, FailsFits DEF S!ReadCancelled
<1>3. CASE S!ReadPaused
  BY <1>3, FailsFits DEF S!ReadPaused
<1>4. CASE S!ReadFails
  <2>1. CASE str_call.at = "wait" /\ str_core.pos \in str_have
    <3>1. /\ str_call' = [str_call EXCEPT !.at = "retry"]
          /\ UNCHANGED <<S!stream, str_reader, str_core, str_pushed>>
          /\ UNCHANGED <<str_range, str_handler, str_task, str_off>>
      BY <1>4, <2>1 DEF S!ReadFails, S!stream
    <3>2. str_call' \in ReadCallType /\ str_call'.at = "retry" /\ str_core' = str_core
      BY <1>1, <3>1 DEF ReadCallType
    <3>3. ReadOfLoop'
      BY <2>1, <3>1, <3>2 DEF StreamInv, ReadOfLoop
    <3> QED
      BY <1>1, <3>1, <3>2, <3>3, ReaderFrame
  <2>2. CASE ~(str_call.at = "wait" /\ str_core.pos \in str_have)
    BY <1>4, <2>2, FailsFits DEF S!ReadFails
  <2> QED
    BY <2>1, <2>2
<1>5. CASE S!ReadTimesOut
  <2>1. CASE str_call.attempt < Attempts
    <3>1. /\ str_call' = [str_call EXCEPT !.attempt = @ + 1]
          /\ str_core' = [str_core EXCEPT !.pieces = S!Wanted(str_core)] /\ str_pushed' = S!Wanted(str_core)
          /\ UNCHANGED <<S!stream, str_reader>>
          /\ UNCHANGED <<str_range, str_handler, str_task, str_off>>
      BY <1>5, <2>1 DEF S!ReadTimesOut, S!RefreshDemand, S!stream
    <3>2. /\ str_core.pos = str_off /\ str_core.reading /\ str_off <= str_range[2]
          /\ str_call.at = "wait" /\ str_task = "reads" /\ str_reader = "open" /\ str_handler # "opens"
      BY <1>5 DEF S!ReadTimesOut, StreamInv, ReadOfLoop
    <3>3. S!Wanted(str_core) = {str_off}
      BY <1>1, <3>2 DEF S!Wanted
    <3>4. str_call' \in ReadCallType /\ str_call'.at = "wait"
      BY <1>1, <3>1, <3>2 DEF ReadCallType
    <3>5. /\ str_core' \in [pos : Nat, reading : BOOLEAN, pieces : SUBSET Nat]
          /\ str_core'.pos = str_off /\ str_core'.reading = str_core.reading
          /\ str_core'.pieces = {str_off} /\ str_pushed' = {str_off}
      BY <1>1, <3>1, <3>2, <3>3
    <3>6. ReadOfLoop'
      BY <3>1, <3>2, <3>4, <3>5 DEF ReadOfLoop
    <3> QED
      BY <3>1, <3>4, <3>5, <3>6, ReaderFrame
  <2>2. CASE ~(str_call.attempt < Attempts)
    BY <1>5, <2>2, FailsFits DEF S!ReadTimesOut
  <2> QED
    BY <2>1, <2>2
<1>6. CASE S!ReadLeft
  <2>1. S!Idle \in ReadCallType /\ S!Idle.at = "idle"
    BY DEF S!Idle, ReadCallType, FrameType
  <2>2. /\ str_call' = S!Idle /\ str_task = "ended" /\ UNCHANGED <<S!stream, str_reader, str_core, str_pushed>>
        /\ UNCHANGED <<str_range, str_handler, str_task, str_off>>
    BY <1>6 DEF S!ReadLeft, S!stream
  <2>3. ReadOfLoop'
    BY <2>1, <2>2 DEF StreamInv, ReadOfLoop
  <2> QED
    BY <1>1, <2>1, <2>2, <2>3, ReaderFrame
<1> QED
  BY <1>2, <1>3, <1>4, <1>5, <1>6

LEMMA StreamNext ==
    ASSUME FilePieces \in Nat, Chunk \in Nat, StreamInv, [S!Next]_(S!vars)
    PROVE  StreamInv'
<1>1. CASE S!Opened \/ S!OpenFails \/ S!Respond \/ S!RespondEmpty
  BY <1>1, HandlerStep
<1>2. CASE S!Loop
  BY <1>2, LoopStep, LoopSendsStep DEF S!Loop
<1>3. CASE S!Read \/ S!ReadPaused \/ S!ReadTimesOut
  BY <1>3, ReadBeginsStep, ReadGetsStep, ReadGoesOn DEF S!Read
<1>4. CASE S!Receive \/ S!HangUp
  BY <1>4, PlayerStep
<1>5. CASE S!Pause \/ S!EngineCloses \/ \E p \in S!File : S!Arrives(p)
  BY <1>5, HostStep
<1>6. CASE UNCHANGED S!vars
  <2>1. /\ UNCHANGED <<S!stream, str_reader>> /\ UNCHANGED <<str_core, str_pushed, str_call>>
        /\ UNCHANGED <<str_range, str_handler, str_task, str_off>>
    BY <1>6 DEF S!vars, S!stream
  <2>2. ReadOfLoop' /\ str_call' \in ReadCallType
        /\ str_core' \in [pos : Nat, reading : BOOLEAN, pieces : SUBSET Nat]
    BY <2>1 DEF StreamInv, StreamTypes, ReadOfLoop, ReadCallType
  <2> QED
    BY <2>1, <2>2, ReaderFrame
<1> QED
  BY <1>1, <1>2, <1>3, <1>4, <1>5, <1>6 DEF S!Next

LEMMA StreamInit ==
    ASSUME FilePieces \in Nat, S!Init
    PROVE  StreamInv
<1>1. /\ str_client = "waits" /\ str_handler = "opens" /\ str_reader = "none" /\ str_task = "none"
      /\ str_off = str_range[1] /\ str_chan = <<>> /\ str_got = <<>>
      /\ str_core = [pos |-> 0, reading |-> FALSE, pieces |-> {}] /\ str_pushed = {}
      /\ str_call = S!Idle
  BY DEF S!Init
<1>2. str_range \in (0..(FilePieces - 1)) \X (0..(FilePieces - 1)) /\ str_range[1] <= str_range[2]
  BY DEF S!Init, S!File
<1>3. S!Idle \in ReadCallType /\ S!Idle.at = "idle"
  BY DEF S!Idle, ReadCallType, FrameType
<1>4. str_core \in [pos : Nat, reading : BOOLEAN, pieces : SUBSET Nat] /\ str_core.pieces = {}
  BY <1>1
<1>5. str_range \in Nat \X Nat /\ str_range[2] < FilePieces /\ str_range[1] \in Nat /\ str_range[2] \in Nat
  BY <1>2
<1>6. StreamTypes
  BY <1>1, <1>2, <1>3, <1>4, <1>5 DEF StreamTypes, ReadCallType
<1>7. str_got \o str_chan = <<>> /\ Len(<<>>) = 0
  BY <1>1
<1>8. SentInOrder
  BY <1>1, <1>7 DEF SentInOrder, S!BytesInOrder, S!InOrder, S!After
<1>9. ReadOfLoop
  BY <1>1, <1>3, <1>4 DEF ReadOfLoop
<1> QED
  BY <1>6, <1>8, <1>9 DEF StreamInv

\* For a file of any size and a chunk of at least one piece, whatever the
\* channel holds and however short the reads are: the player gets its range in
\* order and without gaps up to where the loop stands, nothing beyond it and
\* nothing after an error, and a waiting read's piece is registered with the
\* torrent, also after refresh_demand (handle_stream_request, pos_changed).
THEOREM RangeServed == S!Spec => []RangeIsServed
<1>1. S!Init => StreamInv
  BY StreamInit, StreamAssumption
<1>2. StreamInv /\ [S!Next]_(S!vars) => StreamInv'
  BY StreamNext, StreamAssumption
<1>3. StreamInv => RangeIsServed
  BY DEF StreamInv, SentInOrder, ReadOfLoop, RangeIsServed, S!WaitingIsRegistered
<1> QED
  BY <1>1, <1>2, <1>3, PTL DEF S!Spec

-----------------------------------------------------------------------------
(* Byte ranges, pieces and windows                                         *)

\* Division by a positive number, as the provers use it.
LEMMA DivBounds ==
    ASSUME NEW x \in Int, NEW d \in Nat \ {0}
    PROVE  x \div d \in Int /\ d * (x \div d) <= x /\ x < d * (x \div d) + d
OBVIOUS

LEMMA DivIs ==
    ASSUME NEW x \in Int, NEW d \in Nat \ {0}, NEW q \in Int, d * q <= x, x < d * q + d
    PROVE  x \div d = q
OBVIOUS

LEMMA DivMono ==
    ASSUME NEW x \in Int, NEW y \in Int, x <= y, NEW d \in Nat \ {0}
    PROVE  x \div d <= y \div d
OBVIOUS

LEMMA TimesMono ==
    ASSUME NEW d \in Nat \ {0}, NEW x \in Int, NEW y \in Int, x <= y
    PROVE  d * x \in Int /\ d * y \in Int /\ d * x <= d * y
OBVIOUS

LEMMA TimesSucc ==
    ASSUME NEW d \in Nat \ {0}, NEW x \in Int
    PROVE  d * x \in Int /\ d * (x + 1) = d * x + d
OBVIOUS

\* A piece that begins before the end of a byte has a byte up to it.
LEMMA DivAtMost ==
    ASSUME NEW x \in Int, NEW d \in Nat \ {0}, NEW q \in Int, q <= x \div d
    PROVE  d * q \in Int /\ d * q <= x
<1>1. x \div d \in Int /\ d * (x \div d) <= x
  BY DivBounds
<1>2. d * q \in Int /\ d * (x \div d) \in Int /\ d * q <= d * (x \div d)
  BY <1>1, TimesMono
<1> QED
  BY <1>1, <1>2

LEMMA DivAtLeast ==
    ASSUME NEW x \in Int, NEW d \in Nat \ {0}, NEW q \in Int, x \div d <= q
    PROVE  d * q \in Int /\ x < d * q + d
<1>1. x \div d \in Int /\ x < d * (x \div d) + d
  BY DivBounds
<1>2. d * q \in Int /\ d * (x \div d) \in Int /\ d * (x \div d) <= d * q
  BY <1>1, TimesMono
<1> QED
  BY <1>1, <1>2

LEMMA CeilIs ==
    ASSUME NEW x \in Int, NEW d \in Nat \ {0}
    PROVE  W!CeilDiv(x, d) = (x - 1) \div d + 1 /\ (x - 1) \div d \in Int
<1>1. PICK q : q = (x - 1) \div d
  OBVIOUS
<1>2. q \in Int /\ d * q <= x - 1 /\ x - 1 < d * q + d
  BY <1>1, DivBounds
<1>3. d * (q + 1) = d * q + d /\ d * q \in Int
  BY <1>2, TimesSucc
<1>4. d * (q + 1) <= x + d - 1 /\ x + d - 1 < d * (q + 1) + d
  BY <1>2, <1>3
<1>5. (x + d - 1) \div d = q + 1
  BY <1>2, <1>4, DivIs
<1> QED
  BY <1>1, <1>2, <1>5 DEF W!CeilDiv

\* The same with the numbers named, for terms the provers cannot match.
LEMMA CeilOf ==
    ASSUME NEW x, NEW d, x \in Int, d \in Nat \ {0}
    PROVE  W!CeilDiv(x, d) = (x - 1) \div d + 1 /\ (x - 1) \div d \in Int
BY CeilIs

LEMMA DivMonoOf ==
    ASSUME NEW x, NEW y, NEW d, x \in Int, y \in Int, x <= y, d \in Nat \ {0}
    PROVE  x \div d <= y \div d
BY DivMono

WinLayout == [pl : Nat \ {0}, off : Nat, len : Nat, total : Nat]
WinPlan == [budget : Nat, keyframes : Nat, readers : Nat \ {0}, forward : Nat,
            urgent : Nat \ {0}, ghost : BOOLEAN]
WinFile(f) == f \in WinLayout /\ f.off + f.len <= f.total

\* The pieces that hold a byte of lo..hi.
LEMMA OverlappingIs ==
    ASSUME NEW f, WinFile(f), NEW lo \in Nat, NEW hi \in Int, lo <= hi, lo < f.total
    PROVE  {p \in 0..(W!NumPieces(f) - 1) :
              \E x \in W!Larger(lo, 0)..hi : x < f.total /\ x \div f.pl = p}
           = (lo \div f.pl)..(W!Smaller(hi \div f.pl, (f.total - 1) \div f.pl))
<1>1. f.pl \in Nat \ {0} /\ f.total \in Nat
  BY DEF WinFile, WinLayout
<1>2. PICK d : d = f.pl
  OBVIOUS
<1>3. PICK t : t = f.total
  OBVIOUS
<1>4. d \in Nat \ {0} /\ t \in Nat
  BY <1>1, <1>2, <1>3
<1>5. W!NumPieces(f) - 1 = (t - 1) \div d /\ (t - 1) \div d \in Int
  <2>1. W!CeilDiv(t, d) = (t - 1) \div d + 1 /\ (t - 1) \div d \in Int
    BY <1>4, CeilIs
  <2>2. W!NumPieces(f) = W!CeilDiv(t, d)
    BY <1>2, <1>3 DEF W!NumPieces
  <2> QED
    BY <2>1, <2>2
<1>6. W!Larger(lo, 0) = lo
  BY DEF W!Larger
<1>7. lo \div d \in Int /\ hi \div d \in Int /\ 0 <= lo \div d
  <2>1. lo \div d \in Int /\ hi \div d \in Int
    BY <1>4, DivBounds
  <2>2. 0 \div d = 0
    BY <1>4
  <2>3. 0 \div d <= lo \div d
    BY <1>4, DivMono
  <2> QED
    BY <2>1, <2>2, <2>3
<1>8. ASSUME NEW p \in 0..((t - 1) \div d), NEW x \in lo..hi, x < t, x \div d = p
      PROVE  p \in (lo \div d)..(W!Smaller(hi \div d, (t - 1) \div d))
  <2>1. lo \div d <= x \div d /\ x \div d <= hi \div d
    BY <1>4, <1>8, DivMono
  <2> QED
    BY <1>5, <1>7, <1>8, <2>1, SMTT(30) DEF W!Smaller
<1>9. ASSUME NEW p \in (lo \div d)..(W!Smaller(hi \div d, (t - 1) \div d))
      PROVE  p \in 0..((t - 1) \div d) /\ \E x \in lo..hi : x < t /\ x \div d = p
  <2>1. p \in Int /\ lo \div d <= p /\ p <= hi \div d /\ p <= (t - 1) \div d
    BY <1>5, <1>7, <1>9 DEF W!Smaller
  <2>2. d * p \in Int /\ d * p <= hi /\ d * p <= t - 1 /\ lo < d * p + d
    <3>1. d * p \in Int /\ d * p <= hi
      BY <1>4, <2>1, DivAtMost
    <3>2. t - 1 \in Int
      BY <1>4
    <3>3. d * p <= t - 1
      BY <1>4, <2>1, <3>2, DivAtMost
    <3>4. lo < d * p + d
      BY <1>4, <2>1, DivAtLeast
    <3> QED
      BY <3>1, <3>3, <3>4
  <2>3. PICK x : x = W!Larger(lo, d * p)
    OBVIOUS
  <2>4. x \in lo..hi /\ x < t /\ d * p <= x /\ x < d * p + d
    BY <1>3, <1>4, <2>2, <2>3 DEF W!Larger
  <2>5. x \div d = p
    BY <1>4, <2>1, <2>4, DivIs
  <2> QED
    BY <1>5, <1>7, <2>1, <2>4, <2>5
<1>10. {p \in 0..((t - 1) \div d) : \E x \in lo..hi : x < t /\ x \div d = p}
       = (lo \div d)..(W!Smaller(hi \div d, (t - 1) \div d))
  BY <1>8, <1>9, Zenon
<1> QED
  BY <1>2, <1>3, <1>5, <1>6, <1>10

\* byte_region_pieces names the pieces of a byte range.
LEMMA RegionIsExact ==
    ASSUME NEW f, WinFile(f), NEW a \in Int, NEW b \in Int
    PROVE  W!PiecesOf(W!ByteRegionPieces(f, a, b)) = W!Overlapping(f, a, a + b - 1)
<1>1. f.pl \in Nat \ {0} /\ f.total \in Nat
  BY DEF WinFile, WinLayout
<1>2. PICK o : o = W!Larger(a, 0)
  OBVIOUS
<1>3. PICK n : n = (IF a < 0 THEN b + a ELSE b)
  OBVIOUS
<1>4. o \in Nat /\ n \in Int /\ o + n = a + b /\ a <= o
  BY <1>2, <1>3 DEF W!Larger
<1>5. W!Larger(o, 0) = o
  BY <1>4 DEF W!Larger
<1>6. W!Overlapping(f, a, a + b - 1) =
        {p \in 0..(W!NumPieces(f) - 1) :
           \E x \in W!Larger(o, 0)..(o + n - 1) : x < f.total /\ x \div f.pl = p}
  BY <1>2, <1>4, <1>5 DEF W!Overlapping
<1>7. CASE a >= f.total \/ n <= 0
  <2>1. W!PiecesOf(W!ByteRegionPieces(f, a, b)) = {}
    BY <1>3, <1>7 DEF W!ByteRegionPieces, W!NoSpan, W!Span, W!PiecesOf
  <2>2. \A x \in W!Larger(o, 0)..(o + n - 1) : ~(x < f.total)
    BY <1>1, <1>4, <1>5, <1>7
  <2> QED
    BY <1>6, <2>1, <2>2, Zenon
<1>8. CASE ~(a >= f.total) /\ ~(n <= 0)
  <2>1. W!ByteRegionPieces(f, a, b)
          = W!Span(o \div f.pl, W!Smaller(W!CeilDiv(o + n, f.pl), W!NumPieces(f)))
    BY <1>2, <1>3, <1>8, Zenon DEF W!ByteRegionPieces
  <2>2. W!CeilDiv(o + n, f.pl) = (o + n - 1) \div f.pl + 1 /\ (o + n - 1) \div f.pl \in Int
    <3>1. PICK m : m = o + n
      OBVIOUS
    <3>2. m \in Int /\ o + n - 1 = m - 1
      BY <1>4, <3>1
    <3>3. W!CeilDiv(m, f.pl) = (m - 1) \div f.pl + 1 /\ (m - 1) \div f.pl \in Int
      BY ONLY <1>1, <3>2, CeilOf, Zenon
    <3> QED
      BY <3>1, <3>2, <3>3, Zenon
  <2>3. W!CeilDiv(f.total, f.pl) = (f.total - 1) \div f.pl + 1 /\ (f.total - 1) \div f.pl \in Int
    <3>1. f.total \in Int
      BY <1>1
    <3> QED
      BY ONLY <1>1, <3>1, CeilOf, Zenon
  <2>4. W!PiecesOf(W!ByteRegionPieces(f, a, b))
          = (o \div f.pl)..(W!Smaller((o + n - 1) \div f.pl, (f.total - 1) \div f.pl))
    <3>1. W!PiecesOf(W!ByteRegionPieces(f, a, b))
            = (o \div f.pl)..(W!Smaller(W!CeilDiv(o + n, f.pl), W!CeilDiv(f.total, f.pl)) - 1)
      BY <2>1 DEF W!Span, W!PiecesOf, W!NumPieces
    <3>2. ASSUME NEW u \in Int, NEW v \in Int
          PROVE  W!Smaller(u + 1, v + 1) - 1 = W!Smaller(u, v)
      BY DEF W!Smaller
    <3> QED
      BY <2>2, <2>3, <3>1, <3>2
  <2>5. CASE o < f.total
    <3>1. o + n - 1 \in Int /\ o <= o + n - 1
      BY <1>4, <1>8
    <3> QED
      BY <1>4, <1>6, <2>4, <2>5, <3>1, OverlappingIs
  <2>6. CASE ~(o < f.total)
    <3>1. o = 0 /\ f.total = 0
      BY <1>1, <1>2, <1>8, <2>6 DEF W!Larger
    <3>2. (f.total - 1) \div f.pl = -1
      <4>1. f.pl * (-1) <= -1 /\ -1 < f.pl * (-1) + f.pl
        BY <1>1
      <4> QED
        BY <1>1, <3>1, <4>1, DivIs
    <3>3. o \div f.pl = 0
      BY <1>1, <3>1
    <3>4. W!PiecesOf(W!ByteRegionPieces(f, a, b)) = {}
      <4>1. W!Smaller((o + n - 1) \div f.pl, -1) <= -1 /\ W!Smaller((o + n - 1) \div f.pl, -1) \in Int
        BY <2>2 DEF W!Smaller
      <4> QED
        BY <2>4, <3>2, <3>3, <4>1
    <3>5. \A x \in W!Larger(o, 0)..(o + n - 1) : ~(x < f.total)
      BY <1>4, <1>5, <3>1
    <3> QED
      BY <1>6, <3>4, <3>5, Zenon
  <2> QED
    BY <2>5, <2>6
<1> QED
  BY <1>7, <1>8

\* file_piece_range of a part of the file that is not empty.
LEMMA FileRangeIs ==
    ASSUME NEW f, WinFile(f), NEW s \in Nat, NEW e \in Nat, s < e, e <= f.len
    PROVE  /\ W!FilePieceRange(f, s, e)
                = W!Span((f.off + s) \div f.pl, (f.off + e - 1) \div f.pl + 1)
           /\ (f.off + s) \div f.pl \in Nat /\ (f.off + e - 1) \div f.pl \in Nat
           /\ (f.off + s) \div f.pl <= (f.off + e - 1) \div f.pl
           /\ W!BeginPiece(f) \in Int /\ W!BeginPiece(f) <= (f.off + s) \div f.pl
           /\ W!EndPiece(f) \in Int /\ (f.off + e - 1) \div f.pl + 1 <= W!EndPiece(f)
<1>1. f.pl \in Nat \ {0} /\ f.total \in Nat /\ f.off \in Nat /\ f.len \in Nat
  BY DEF WinFile, WinLayout
<1>2. /\ f.off \in Int /\ f.off + s \in Int /\ f.off + e - 1 \in Int /\ f.off + f.len - 1 \in Int
      /\ 0 <= f.off /\ f.off <= f.off + s /\ f.off + s <= f.off + e - 1
      /\ f.off + e - 1 <= f.off + f.len - 1 /\ f.off + f.len \in Int
  BY <1>1
<1>3. PICK b : b = (f.off + s) \div f.pl
  OBVIOUS
<1>4. PICK p : p = (f.off + e - 1) \div f.pl
  OBVIOUS
<1>5. PICK z : z = (f.off + f.len - 1) \div f.pl
  OBVIOUS
<1>6. PICK g : g = f.off \div f.pl
  OBVIOUS
<1>7. b \in Int /\ p \in Int /\ z \in Int /\ g \in Int
  BY <1>1, <1>2, <1>3, <1>4, <1>5, <1>6, DivBounds
<1>8. g <= b /\ b <= p /\ p <= z
  BY <1>1, <1>2, <1>3, <1>4, <1>5, <1>6, DivMono
<1>9. 0 <= g
  <2>1. 0 \div f.pl = 0
    BY <1>1
  <2>2. 0 \div f.pl <= f.off \div f.pl
    BY ONLY <1>1, <1>2, 0 \in Int, DivMonoOf, Zenon
  <2> QED
    BY <1>6, <2>1, <2>2
<1>10. W!BeginPiece(f) = g
  BY <1>6 DEF W!BeginPiece
<1>11. W!EndPiece(f) = z + 1
  <2>1. W!CeilDiv(f.off + f.len, f.pl) = z + 1
    <3>1. PICK m : m = f.off + f.len
      OBVIOUS
    <3>2. m \in Int /\ f.off + f.len - 1 = m - 1
      BY <1>1, <3>1
    <3>3. W!CeilDiv(m, f.pl) = (m - 1) \div f.pl + 1
      BY ONLY <1>1, <3>2, CeilOf, Zenon
    <3> QED
      BY <1>5, <3>1, <3>2, <3>3, Zenon
  <2> QED
    BY <1>1, <2>1 DEF W!EndPiece
<1>12. W!Larger(s, 0) = s /\ W!Smaller(e, f.len) = e
  BY <1>1 DEF W!Larger, W!Smaller
<1>13. W!Larger(b, g) = b /\ W!Smaller(p + 1, z + 1) = p + 1
  BY <1>7, <1>8 DEF W!Larger, W!Smaller
<1>14. ~(s >= e) /\ ~(b > p + 1)
  BY <1>7, <1>8
<1>15. W!FilePieceRange(f, s, e) = W!Span(b, p + 1)
  BY <1>3, <1>4, <1>10, <1>11, <1>12, <1>13, <1>14, Zenon DEF W!FilePieceRange
<1> QED
  BY <1>3, <1>4, <1>7, <1>8, <1>9, <1>10, <1>11, <1>15

\* file_piece_range names the pieces of a part of the file.
LEMMA FileRangeIsExact ==
    ASSUME NEW f, WinFile(f), NEW a \in Int, NEW b \in Int
    PROVE  W!PiecesOf(W!FilePieceRange(f, a, b))
             = W!Overlapping(f, f.off + W!Larger(a, 0), f.off + W!Smaller(b, f.len) - 1)
<1>1. f.pl \in Nat \ {0} /\ f.total \in Nat /\ f.off \in Nat /\ f.len \in Nat /\ f.off + f.len <= f.total
  BY DEF WinFile, WinLayout
<1>2. PICK s : s = W!Larger(a, 0)
  OBVIOUS
<1>3. PICK e : e = W!Smaller(b, f.len)
  OBVIOUS
<1>4. s \in Nat /\ a <= s /\ e \in Int /\ e <= b /\ e <= f.len
  BY <1>1, <1>2, <1>3 DEF W!Larger, W!Smaller
<1>5. W!Larger(f.off + s, 0) = f.off + s
  BY <1>1, <1>4 DEF W!Larger
<1>6. CASE s >= e
  <2>1. W!PiecesOf(W!FilePieceRange(f, a, b)) = {}
    BY <1>2, <1>3, <1>6 DEF W!FilePieceRange, W!NoSpan, W!Span, W!PiecesOf
  <2>2. W!Larger(f.off + s, 0)..(f.off + e - 1) = {}
    BY <1>1, <1>4, <1>5, <1>6
  <2>3. W!Overlapping(f, f.off + s, f.off + e - 1) = {}
    BY <2>2, Zenon DEF W!Overlapping
  <2> QED
    BY <1>2, <1>3, <2>1, <2>3
<1>7. CASE ~(s >= e)
  <2>1. ~(a >= b) /\ e \in Nat /\ s < e
    BY <1>2, <1>3, <1>4, <1>7
  <2>2. W!Larger(s, 0) = s /\ W!Smaller(e, f.len) = e /\ ~(s >= e)
    BY <1>1, <1>4, <1>7 DEF W!Larger, W!Smaller
  <2>3. W!FilePieceRange(f, a, b) = W!FilePieceRange(f, s, e)
    BY <1>2, <1>3, <1>7, <2>1, <2>2, Zenon DEF W!FilePieceRange
  <2>4. W!FilePieceRange(f, s, e) = W!Span((f.off + s) \div f.pl, (f.off + e - 1) \div f.pl + 1)
    BY <1>4, <2>1, FileRangeIs
  <2>5. (f.off + s) \div f.pl \in Int /\ (f.off + e - 1) \div f.pl \in Int
    BY <1>4, <2>1, FileRangeIs
  <2>6. W!PiecesOf(W!FilePieceRange(f, a, b)) = ((f.off + s) \div f.pl)..((f.off + e - 1) \div f.pl)
    BY <2>3, <2>4, <2>5 DEF W!Span, W!PiecesOf
  <2>7. /\ f.off + s \in Nat /\ f.off + e - 1 \in Int /\ f.off + s <= f.off + e - 1
        /\ f.off + s < f.total /\ f.off + e - 1 <= f.total - 1 /\ f.total - 1 \in Int
    BY <1>1, <1>4, <2>1
  <2>8. W!Smaller((f.off + e - 1) \div f.pl, (f.total - 1) \div f.pl) = (f.off + e - 1) \div f.pl
    <3>1. (f.off + e - 1) \div f.pl <= (f.total - 1) \div f.pl
      BY ONLY <1>1, <2>7, DivMonoOf, Zenon
    <3> QED
      BY <1>1, <2>5, <2>7, <3>1, DivBounds DEF W!Smaller
  <2>9. W!Overlapping(f, f.off + s, f.off + e - 1)
          = ((f.off + s) \div f.pl)..((f.off + e - 1) \div f.pl)
    BY <2>7, <2>8, OverlappingIs DEF W!Overlapping
  <2> QED
    BY <1>2, <1>3, <2>6, <2>9
<1> QED
  BY <1>6, <1>7

WinBytes(f, a, b) ==
    {x \in 0..(f.len - 1) :
       IF a < 0 THEN b > 0 /\ x >= f.len - b ELSE x >= a /\ (b < 0 \/ x <= b)}

\* parse_range names the bytes of the file a header asks for.
LEMMA HeaderIsExact ==
    ASSUME NEW f, WinFile(f), NEW a \in Int, NEW b \in Int
    PROVE  UNION {r[1]..r[2] : r \in W!ParseRange(f, a, b)} = WinBytes(f, a, b)
<1>1. f.len \in Nat
  BY DEF WinFile, WinLayout
<1>2. ASSUME NEW u, NEW v PROVE UNION {r[1]..r[2] : r \in {<<u, v>>}} = u..v
  OBVIOUS
<1>3. UNION {r[1]..r[2] : r \in {}} = {}
  OBVIOUS
<1>4. CASE a < 0 /\ (b <= 0 \/ f.len <= 0)
  <2>1. W!ParseRange(f, a, b) = {}
    BY <1>4 DEF W!ParseRange
  <2>2. WinBytes(f, a, b) = {}
    BY <1>1, <1>4 DEF WinBytes
  <2> QED
    BY <1>3, <2>1, <2>2
<1>5. CASE a < 0 /\ ~(b <= 0 \/ f.len <= 0)
  <2>1. W!ParseRange(f, a, b) = {<<W!Larger(f.len - b, 0), f.len - 1>>}
    BY <1>5 DEF W!ParseRange
  <2>2. WinBytes(f, a, b) = W!Larger(f.len - b, 0)..(f.len - 1)
    BY <1>1, <1>5 DEF W!Larger, WinBytes
  <2> QED
    BY <1>2, <2>1, <2>2
<1>6. ASSUME ~(a < 0)
      PROVE  UNION {r[1]..r[2] : r \in W!ParseRange(f, a, b)} = WinBytes(f, a, b)
  <2>1. PICK e : e = (IF b < 0 THEN f.len - 1 ELSE W!Smaller(b, f.len - 1))
    OBVIOUS
  <2>2. CASE a >= f.len \/ a > e
    <3>1. W!ParseRange(f, a, b) = {}
      BY <1>6, <2>1, <2>2 DEF W!ParseRange
    <3>2. WinBytes(f, a, b) = {}
      BY <1>1, <1>6, <2>1, <2>2 DEF W!Smaller, WinBytes
    <3> QED
      BY <1>3, <3>1, <3>2
  <2>3. CASE ~(a >= f.len \/ a > e)
    <3>1. W!ParseRange(f, a, b) = {<<a, e>>}
      BY <1>6, <2>1, <2>3 DEF W!ParseRange
    <3>2. WinBytes(f, a, b) = a..e
      BY <1>1, <1>6, <2>1, <2>3 DEF W!Smaller, WinBytes
    <3> QED
      BY <1>2, <3>1, <3>2
  <2> QED
    BY <2>2, <2>3
<1> QED
  BY <1>4, <1>5, <1>6

LEMMA RangesExact ==
    ASSUME WinFile(win_input.f), win_input.a \in Int, win_input.b \in Int
    PROVE  W!RangesAreExact
<1> DEFINE f == win_input.f
           a == win_input.a
           b == win_input.b
<1>1. W!PiecesOf(W!ByteRegionPieces(f, a, b)) = W!Overlapping(f, a, a + b - 1)
  BY RegionIsExact
<1>2. W!PiecesOf(W!FilePieceRange(f, a, b))
        = W!Overlapping(f, f.off + W!Larger(a, 0), f.off + W!Smaller(b, f.len) - 1)
  BY FileRangeIsExact
<1>3. UNION {r[1]..r[2] : r \in W!ParseRange(f, a, b)} = WinBytes(f, a, b)
  BY HeaderIsExact
<1> QED
  BY <1>1, <1>2, <1>3, Zenon DEF W!RangesAreExact, WinBytes

\* The next byte is in the same piece or in the next one.
LEMMA DivNext ==
    ASSUME NEW x \in Int, NEW d \in Nat \ {0}
    PROVE  (x + 1) \div d \in Int /\ (x + 1) \div d <= x \div d + 1
<1>1. PICK q : q = x \div d
  OBVIOUS
<1>2. q \in Int /\ x < d * q + d
  BY <1>1, DivBounds
<1>3. PICK y : y = x + 1
  OBVIOUS
<1>4. y \in Int
  BY <1>3
<1>5. PICK r : r = y \div d
  OBVIOUS
<1>6. r \in Int /\ d * r <= y
  BY <1>4, <1>5, DivBounds
<1>7. d * r \in Int /\ d * q \in Int /\ d * (q + 1) = d * q + d /\ d * (q + 1 + 1) = d * (q + 1) + d
  BY <1>2, <1>6, TimesSucc
<1>8. ASSUME r >= q + 1 + 1 PROVE FALSE
  <2>1. d * (q + 1 + 1) <= d * r
    BY <1>2, <1>6, <1>8, TimesMono
  <2> QED
    BY <1>2, <1>3, <1>6, <1>7, <2>1
<1> QED
  BY <1>1, <1>2, <1>3, <1>5, <1>6, <1>8

\* Two parts of the file that follow each other cover what they do together.
LEMMA RangesJoin ==
    ASSUME NEW f, WinFile(f), NEW s \in Nat, NEW m \in Nat, NEW e \in Nat,
           s < m, m <= e, e <= f.len
    PROVE  W!PiecesOf(W!FilePieceRange(f, s, m)) \cup W!PiecesOf(W!FilePieceRange(f, m, e))
             = W!PiecesOf(W!FilePieceRange(f, s, e))
<1>1. f.pl \in Nat \ {0} /\ f.off \in Nat /\ f.len \in Nat
  BY DEF WinFile, WinLayout
<1>2. CASE m = e
  <2>1. W!FilePieceRange(f, m, e) = W!NoSpan
    BY <1>2 DEF W!FilePieceRange
  <2>2. W!PiecesOf(W!NoSpan) = {}
    BY DEF W!NoSpan, W!Span, W!PiecesOf
  <2> QED
    BY <1>2, <2>1, <2>2
<1>3. CASE m < e
  <2>1. m <= f.len /\ s < e
    BY <1>1, <1>3
  <2>2. PICK b : b = (f.off + s) \div f.pl
    OBVIOUS
  <2>3. PICK x : x = (f.off + m - 1) \div f.pl
    OBVIOUS
  <2>4. PICK y : y = (f.off + m) \div f.pl
    OBVIOUS
  <2>5. PICK p : p = (f.off + e - 1) \div f.pl
    OBVIOUS
  <2>6. /\ W!FilePieceRange(f, s, m) = W!Span(b, x + 1) /\ b \in Nat /\ x \in Nat /\ b <= x
    BY <2>1, <2>2, <2>3, FileRangeIs
  <2>7. /\ W!FilePieceRange(f, m, e) = W!Span(y, p + 1) /\ y \in Nat /\ p \in Nat /\ y <= p
    BY <1>3, <2>4, <2>5, FileRangeIs
  <2>8. W!FilePieceRange(f, s, e) = W!Span(b, p + 1)
    BY <2>1, <2>2, <2>5, FileRangeIs
  <2>9. x <= y /\ y <= x + 1
    <3>1. PICK w : w = f.off + m - 1
      OBVIOUS
    <3>2. w \in Int /\ w + 1 = f.off + m /\ w + 1 \in Int /\ w <= w + 1
      BY <1>1, <3>1
    <3>3. x = w \div f.pl /\ y = (w + 1) \div f.pl
      BY <2>3, <2>4, <3>1, <3>2
    <3>4. w \div f.pl <= (w + 1) \div f.pl
      BY <1>1, <3>2, DivMono
    <3>5. (w + 1) \div f.pl <= w \div f.pl + 1
      BY <1>1, <3>2, DivNext
    <3> QED
      BY <3>3, <3>4, <3>5
  <2> QED
    BY <2>6, <2>7, <2>8, <2>9 DEF W!Span, W!PiecesOf
<1> QED
  BY <1>2, <1>3

\* What update_window asks of a window that asks for one run of pieces.
WinRun(f, w, play) ==
    \E k \in Int : /\ play <= k /\ k < W!EndPiece(f)
                   /\ W!Wanted(w) = play..k
                   /\ w.urgent.begin = play /\ play \in W!PiecesOf(w.urgent)

\* Where the reader is, in the file's pieces.
LEMMA PlayIsInFile ==
    ASSUME NEW f, WinFile(f), NEW pos \in 0..(f.len - 1)
    PROVE  /\ (f.off + pos) \div f.pl \in Int
           /\ W!BeginPiece(f) \in Int /\ W!BeginPiece(f) <= (f.off + pos) \div f.pl
           /\ W!EndPiece(f) \in Int /\ (f.off + pos) \div f.pl < W!EndPiece(f)
<1>1. f.off \in Nat /\ f.len \in Nat
  BY DEF WinFile, WinLayout
<1>2. pos \in Nat /\ pos + 1 \in Nat /\ pos < pos + 1 /\ pos + 1 <= f.len
      /\ f.off + (pos + 1) - 1 = f.off + pos
  BY <1>1
<1>3. /\ (f.off + pos) \div f.pl \in Nat
      /\ W!BeginPiece(f) \in Int /\ W!BeginPiece(f) <= (f.off + pos) \div f.pl
      /\ W!EndPiece(f) \in Int /\ (f.off + (pos + 1) - 1) \div f.pl + 1 <= W!EndPiece(f)
  BY <1>2, FileRangeIs
<1> QED
  BY <1>2, <1>3

\* A window bounded by bytes.
LEMMA UnboundedRuns ==
    ASSUME NEW f, WinFile(f), NEW plan \in WinPlan, NEW pos \in 0..(f.len - 1), ~W!Bounded(f, plan)
    PROVE  WinRun(f, W!Window(f, plan, pos), (f.off + pos) \div f.pl)
<1>1. f.pl \in Nat \ {0} /\ f.off \in Nat /\ f.len \in Nat
  BY DEF WinFile, WinLayout
<1>2. plan.urgent \in Nat \ {0} /\ plan.forward \in Nat
  BY DEF WinPlan
<1>3. PICK fwd : fwd = W!Larger(plan.forward, plan.urgent)
  OBVIOUS
<1>4. PICK m1 : m1 = W!Smaller(pos + plan.urgent, f.len)
  OBVIOUS
<1>5. PICK m2 : m2 = W!Smaller(pos + fwd, f.len)
  OBVIOUS
<1>6. PICK m3 : m3 = W!Smaller(pos + fwd + (IF plan.ghost THEN 4 * f.pl ELSE 0), f.len)
  OBVIOUS
<1>7. pos \in Nat /\ m1 \in Nat /\ m2 \in Nat /\ pos < m1 /\ m1 <= m2 /\ m2 <= f.len
  BY <1>1, <1>2, <1>3, <1>4, <1>5 DEF W!Larger, W!Smaller
<1>8. m3 \in Nat /\ m2 <= m3 /\ m3 <= f.len
  <2>1. PICK g : g = (IF plan.ghost THEN 4 * f.pl ELSE 0)
    OBVIOUS
  <2>2. g \in Nat
    BY <1>1, <2>1
  <2> QED
    BY <1>1, <1>2, <1>3, <1>5, <1>6, <2>1, <2>2 DEF W!Larger, W!Smaller
<1>9. PICK w : w = W!Window(f, plan, pos)
  OBVIOUS
<1>10. /\ w.urgent = W!FilePieceRange(f, pos, m1)
       /\ w.readahead = W!FilePieceRange(f, m1, m2)
       /\ w.lookahead = W!FilePieceRange(f, m2, m3)
  BY <1>3, <1>4, <1>5, <1>6, <1>9 DEF W!Window
<1>11. W!Wanted(w) = W!PiecesOf(W!FilePieceRange(f, pos, m3))
  <2>1. W!PiecesOf(w.urgent) \cup W!PiecesOf(w.readahead) = W!PiecesOf(W!FilePieceRange(f, pos, m2))
    BY <1>7, <1>10, RangesJoin
  <2>2. pos < m2
    BY <1>7
  <2>3. W!PiecesOf(W!FilePieceRange(f, pos, m2)) \cup W!PiecesOf(w.lookahead)
          = W!PiecesOf(W!FilePieceRange(f, pos, m3))
    BY <1>7, <1>8, <1>10, <2>2, RangesJoin
  <2> QED
    BY <2>1, <2>3, Zenon DEF W!Wanted
<1>12. PICK play : play = (f.off + pos) \div f.pl
  OBVIOUS
<1>13. PICK k : k = (f.off + m3 - 1) \div f.pl
  OBVIOUS
<1>14. /\ W!FilePieceRange(f, pos, m3) = W!Span(play, k + 1)
       /\ play \in Nat /\ k \in Nat /\ play <= k /\ W!EndPiece(f) \in Int /\ k + 1 <= W!EndPiece(f)
  <2>1. pos < m3
    BY <1>7, <1>8
  <2> QED
    BY <1>7, <1>8, <1>12, <1>13, <2>1, FileRangeIs
<1>15. W!Wanted(w) = play..k
  BY <1>11, <1>14 DEF W!Span, W!PiecesOf
<1>16. PICK u : u = (f.off + m1 - 1) \div f.pl
  OBVIOUS
<1>17. w.urgent = W!Span(play, u + 1) /\ u \in Nat /\ play <= u
  <2>1. m1 <= f.len
    BY <1>1, <1>7
  <2> QED
    BY <1>7, <1>10, <1>12, <1>16, <2>1, FileRangeIs
<1>18. w.urgent.begin = play /\ play \in W!PiecesOf(w.urgent)
  BY <1>14, <1>17 DEF W!Span, W!PiecesOf
<1> QED
  BY <1>9, <1>12, <1>14, <1>15, <1>18 DEF WinRun

\* What a reader may fill is at least a piece, and all readers' parts and the
\* keyframes fit the cache.
LEMMA AllowanceType ==
    ASSUME NEW f, WinFile(f), NEW plan \in WinPlan
    PROVE  /\ W!Allowance(f, plan) \in Int /\ W!Allowance(f, plan) >= 1
           /\ plan.budget - plan.keyframes * f.pl \in Int
           /\ W!Allowance(f, plan) <=
                W!Larger(((plan.budget - plan.keyframes * f.pl) \div f.pl) \div plan.readers, 1)
<1>1. PICK d : d = f.pl
  OBVIOUS
<1>2. PICK n : n = plan.readers
  OBVIOUS
<1>3. d \in Nat \ {0} /\ n \in Nat \ {0} /\ plan.budget \in Nat /\ plan.keyframes \in Nat
  BY <1>1, <1>2 DEF WinFile, WinLayout, WinPlan
<1>4. PICK b : b = plan.budget - plan.keyframes * d
  OBVIOUS
<1>5. b \in Int
  BY <1>3, <1>4
<1>6. PICK v : v = (LET r == W!Larger(b \div 20, d) IN IF r >= b THEN 0 ELSE r)
  OBVIOUS
<1>7. v \in Int
  BY <1>3, <1>5, <1>6 DEF W!Larger
<1>8. PICK x : x = ((b - v) \div n) \div d
  OBVIOUS
<1>9. x \in Int
  <2>1. b - v \in Int
    BY <1>5, <1>7
  <2>2. (b - v) \div n \in Int
    BY <1>3, <2>1, DivBounds
  <2> QED
    BY <1>3, <1>8, <2>2, DivBounds
<1>10. PICK q : q = (b \div d) \div n
  OBVIOUS
<1>11. q \in Int
  <2>1. b \div d \in Int
    BY <1>3, <1>5, DivBounds
  <2> QED
    BY <1>3, <1>10, <2>1, DivBounds
<1>12. W!Allowance(f, plan) = W!Smaller(W!Larger(x, 1), W!Larger(q, 1))
  BY <1>1, <1>2, <1>4, <1>6, <1>8, <1>10, Zenon DEF W!Allowance
<1>13. /\ W!Smaller(W!Larger(x, 1), W!Larger(q, 1)) \in Int
       /\ W!Smaller(W!Larger(x, 1), W!Larger(q, 1)) >= 1
       /\ W!Smaller(W!Larger(x, 1), W!Larger(q, 1)) <= W!Larger(q, 1)
  BY <1>9, <1>11 DEF W!Smaller, W!Larger
<1> QED
  BY <1>1, <1>2, <1>4, <1>5, <1>10, <1>12, <1>13

LEMMA AllowanceFits ==
    ASSUME NEW f, WinFile(f), NEW plan \in WinPlan, NEW n \in Nat,
           n <= W!Allowance(f, plan),
           plan.budget - plan.keyframes * f.pl >= plan.readers * f.pl
    PROVE  plan.readers * n + plan.keyframes <= plan.budget \div f.pl
<1>1. PICK d : d = f.pl
  OBVIOUS
<1>2. PICK m : m = plan.readers
  OBVIOUS
<1>3. PICK kf : kf = plan.keyframes
  OBVIOUS
<1>4. PICK bud : bud = plan.budget
  OBVIOUS
<1>5. d \in Nat \ {0} /\ m \in Nat \ {0} /\ bud \in Nat /\ kf \in Nat
  BY <1>1, <1>2, <1>3, <1>4 DEF WinFile, WinLayout, WinPlan
<1>6. PICK b : b = bud - kf * d
  OBVIOUS
<1>7. b \in Int /\ b >= m * d
  BY <1>1, <1>2, <1>3, <1>4, <1>5, <1>6
<1>8. PICK c : c = b \div d
  OBVIOUS
<1>9. c \in Int /\ d * c <= b /\ b < d * c + d
  BY <1>5, <1>7, <1>8, DivBounds
<1>10. m <= c
  <2>1. ASSUME c + 1 <= m PROVE FALSE
    <3>1. d * (c + 1) <= d * m
      BY <1>5, <1>9, <2>1, TimesMono
    <3>2. d * (c + 1) = d * c + d /\ d * c \in Int /\ d * m = m * d /\ d * m \in Int
      BY <1>5, <1>9, TimesSucc
    <3> QED
      BY <1>5, <1>7, <1>9, <3>1, <3>2
  <2> QED
    BY <1>5, <1>9, <2>1
<1>11. PICK q : q = c \div m
  OBVIOUS
<1>12. q \in Int /\ m * q <= c /\ m * q \in Int
  BY <1>5, <1>9, <1>11, DivBounds, TimesMono
<1>13. q >= 1
  <2>1. m \div m = 1
    BY <1>5, DivIs
  <2>2. m \div m <= c \div m
    BY <1>5, <1>9, <1>10, DivMono
  <2> QED
    BY <1>11, <2>1, <2>2
<1>14. n <= q
  <2>1. W!Allowance(f, plan) \in Int /\ W!Allowance(f, plan) <= W!Larger(q, 1)
    BY <1>1, <1>2, <1>3, <1>4, <1>6, <1>8, <1>11, AllowanceType
  <2>2. W!Larger(q, 1) = q
    BY <1>12, <1>13 DEF W!Larger
  <2> QED
    BY <1>12, <2>1, <2>2
<1>15. m * n \in Int /\ m * n <= m * q
  BY <1>5, <1>12, <1>14, TimesMono
<1>16. bud \div d = c + kf
  <2>1. d * (c + kf) = d * c + kf * d /\ d * c \in Int /\ kf * d \in Int
    BY <1>5, <1>9
  <2>2. PICK s : s = c + kf
    OBVIOUS
  <2>3. s \in Int /\ bud \in Int /\ d * s <= bud /\ bud < d * s + d
    BY <1>5, <1>6, <1>9, <2>1, <2>2
  <2> QED
    BY <1>5, <2>2, <2>3, DivIs
<1>17. m * n + kf <= bud \div d
  BY <1>5, <1>9, <1>12, <1>15, <1>16
<1> QED
  BY <1>1, <1>2, <1>3, <1>4, <1>17

\* The tiers of a window, from the reader on.
LEMMA TiersOrdered ==
    ASSUME NEW f, WinFile(f), NEW plan \in WinPlan
    PROVE  LET t == W!Tiers(f, plan)
           IN /\ t.urgent \in Int /\ t.forward \in Int /\ t.ahead \in Int
              /\ 1 <= t.urgent /\ t.urgent <= t.forward /\ t.forward <= t.ahead
              /\ t.ahead <= W!Allowance(f, plan)
<1>1. PICK d : d = f.pl
  OBVIOUS
<1>2. d \in Nat \ {0} /\ plan.urgent \in Int /\ plan.forward \in Int
  BY <1>1 DEF WinFile, WinLayout, WinPlan
<1>3. PICK al : al = W!Allowance(f, plan)
  OBVIOUS
<1>4. al \in Int /\ al >= 1
  BY <1>3, AllowanceType
<1>5. PICK x : x = W!CeilDiv(W!Larger(plan.forward, d), d)
  OBVIOUS
<1>6. PICK y : y = W!CeilDiv(plan.urgent, d)
  OBVIOUS
<1>7. x \in Int /\ y \in Int
  <2>1. W!Larger(plan.forward, d) \in Int
    BY <1>2 DEF W!Larger
  <2> QED
    BY <1>2, <1>5, <1>6, <2>1, CeilIs
<1>8. PICK bk : bk = W!Larger(al \div 4, 1)
  OBVIOUS
<1>9. PICK fw : fw = W!Larger(W!Smaller(x, al), 1)
  OBVIOUS
<1>10. PICK t : t = W!Tiers(f, plan)
  OBVIOUS
<1>11. fw \in Int /\ 1 <= fw /\ fw <= al
  BY <1>4, <1>7, <1>9 DEF W!Larger, W!Smaller
<1>12. CASE plan.ghost /\ al >= 3
  <2>1. /\ t.ahead = al /\ t.forward = al - bk
        /\ t.urgent = W!Smaller(W!Larger((al - bk) \div 4, 1), al - bk - 1)
    BY <1>1, <1>3, <1>8, <1>10, <1>12 DEF W!Tiers
  <2>2. bk \in Int /\ 1 <= bk /\ bk <= al - 2
    BY <1>4, <1>8, <1>12 DEF W!Larger
  <2>3. (al - bk) \div 4 \in Int
    BY <1>4, <2>2
  <2> QED
    BY <1>3, <1>4, <1>10, <2>1, <2>2, <2>3 DEF W!Larger, W!Smaller
<1>13. CASE ~(plan.ghost /\ al >= 3)
  <2>1. t.ahead = fw /\ t.forward = fw /\ t.urgent = W!Larger(W!Smaller(y, fw), 1)
    BY <1>1, <1>3, <1>5, <1>6, <1>9, <1>10, <1>13 DEF W!Tiers
  <2> QED
    BY <1>3, <1>4, <1>7, <1>10, <1>11, <2>1 DEF W!Larger, W!Smaller
<1> QED
  BY <1>12, <1>13

\* A window bounded by the cache.
LEMMA BoundedRuns ==
    ASSUME NEW f, WinFile(f), NEW plan \in WinPlan, NEW pos \in 0..(f.len - 1), W!Bounded(f, plan)
    PROVE  /\ WinRun(f, W!Window(f, plan, pos), (f.off + pos) \div f.pl)
           /\ Cardinality(W!Wanted(W!Window(f, plan, pos))) \in Nat
           /\ Cardinality(W!Wanted(W!Window(f, plan, pos))) <= W!Allowance(f, plan)
<1>1. PICK play : play = (f.off + pos) \div f.pl
  OBVIOUS
<1>2. PICK last : last = W!EndPiece(f)
  OBVIOUS
<1>3. play \in Int /\ last \in Int /\ play < last
  BY <1>1, <1>2, PlayIsInFile
<1>4. PICK t : t = W!Tiers(f, plan)
  OBVIOUS
<1>5. /\ t.urgent \in Int /\ t.forward \in Int /\ t.ahead \in Int
      /\ 1 <= t.urgent /\ t.urgent <= t.forward /\ t.forward <= t.ahead
      /\ t.ahead <= W!Allowance(f, plan) /\ W!Allowance(f, plan) \in Int
  BY <1>4, TiersOrdered, AllowanceType
<1>6. PICK e : e = W!Smaller(play + t.ahead, last)
  OBVIOUS
<1>7. PICK ue : ue = W!Smaller(play + t.urgent, e)
  OBVIOUS
<1>8. PICK fe : fe = W!Smaller(play + t.forward, e)
  OBVIOUS
<1>9. /\ e \in Int /\ ue \in Int /\ fe \in Int
      /\ play < ue /\ ue <= fe /\ fe <= e /\ e <= last /\ e <= play + t.ahead
  BY <1>3, <1>5, <1>6, <1>7, <1>8 DEF W!Smaller
<1>10. PICK w : w = W!Window(f, plan, pos)
  OBVIOUS
<1>11. /\ w.urgent = W!Span(play, ue) /\ w.readahead = W!Span(ue, fe) /\ w.lookahead = W!Span(fe, e)
  BY <1>1, <1>2, <1>4, <1>6, <1>7, <1>8, <1>10 DEF W!Window
<1>12. W!Wanted(w) = play..(e - 1)
  BY <1>3, <1>9, <1>11 DEF W!Wanted, W!PiecesOf, W!Span
<1>13. w.urgent.begin = play /\ play \in W!PiecesOf(w.urgent)
  BY <1>3, <1>9, <1>11 DEF W!PiecesOf, W!Span
<1>14. WinRun(f, w, play)
  BY <1>2, <1>3, <1>9, <1>12, <1>13 DEF WinRun
<1>15. Cardinality(play..(e - 1)) = e - play
  <2>1. e - 1 \in Int /\ e - 1 >= play /\ e - 1 - play + 1 = e - play
    BY <1>3, <1>9
  <2> QED
    BY <1>3, <1>9, <2>1, FS_Interval
<1> QED
  BY <1>1, <1>3, <1>5, <1>9, <1>10, <1>12, <1>14, <1>15

LEMMA WindowFits ==
    ASSUME NEW f, WinFile(f), NEW plan \in WinPlan, NEW pos \in 0..(f.len - 1),
           NEW w, w = W!Window(f, plan, pos)
    PROVE    /\ plan.budget - plan.keyframes * f.pl >= plan.readers * f.pl =>
                   plan.readers * Cardinality(W!Wanted(w)) + plan.keyframes <= plan.budget \div f.pl
             /\ (f.off + pos) \div f.pl \in W!PiecesOf(w.urgent)
             /\ \A p \in W!Wanted(w) :
                   w.urgent.begin <= p /\ (w.urgent.begin)..p \subseteq W!Wanted(w)
             /\ W!Wanted(w) \subseteq W!BeginPiece(f)..(W!EndPiece(f) - 1)
<1>1. PICK play : play = (f.off + pos) \div f.pl
  OBVIOUS
<1>2. WinRun(f, w, play)
  BY <1>1, BoundedRuns, UnboundedRuns
<1>3. PICK k \in Int : /\ play <= k /\ k < W!EndPiece(f) /\ W!Wanted(w) = play..k
                       /\ w.urgent.begin = play /\ play \in W!PiecesOf(w.urgent)
  BY <1>2 DEF WinRun
<1>4. /\ play \in Int /\ W!BeginPiece(f) \in Int /\ W!BeginPiece(f) <= play
      /\ W!EndPiece(f) \in Int
  BY <1>1, PlayIsInFile
<1>5. \A p \in W!Wanted(w) :
         w.urgent.begin <= p /\ (w.urgent.begin)..p \subseteq W!Wanted(w)
  BY <1>3, <1>4
<1>6. W!Wanted(w) \subseteq W!BeginPiece(f)..(W!EndPiece(f) - 1)
  BY <1>3, <1>4
<1>7. ASSUME plan.budget - plan.keyframes * f.pl >= plan.readers * f.pl
      PROVE  plan.readers * Cardinality(W!Wanted(w)) + plan.keyframes <= plan.budget \div f.pl
  <2>1. W!Bounded(f, plan)
    <3>1. PICK d : d = f.pl
      OBVIOUS
    <3>2. PICK m : m = plan.readers
      OBVIOUS
    <3>3. d \in Nat \ {0} /\ m \in Nat \ {0} /\ plan.budget - plan.keyframes * d \in Int
      BY <3>1, <3>2, AllowanceType DEF WinFile, WinLayout, WinPlan
    <3>4. d * 1 <= d * m /\ d * 1 = d /\ d * m = m * d /\ d * m \in Int
      BY <3>3, TimesMono
    <3>5. plan.budget - plan.keyframes * d >= d
      BY <1>7, <3>1, <3>2, <3>3, <3>4
    <3> QED
      BY <3>1, <3>5 DEF W!Bounded
  <2>2. Cardinality(W!Wanted(w)) \in Nat /\ Cardinality(W!Wanted(w)) <= W!Allowance(f, plan)
    BY <2>1, BoundedRuns
  <2> QED
    BY <1>7, <2>2, AllowanceFits
<1> QED
  BY <1>1, <1>3, <1>5, <1>6, <1>7

\* The instance counts as this module does.
LEMMA WinCount == ASSUME NEW X PROVE W!Cardinality(X) = Cardinality(X)
BY DEF W!Cardinality, Cardinality

LEMMA WindowsFitCache ==
    ASSUME WinFile(win_input.f), win_input.plan \in WinPlan, win_input.a \in Int
    PROVE  W!WindowFitsCache
<1> DEFINE f == win_input.f
           plan == win_input.plan
           pos == win_input.a
           w == W!Window(f, plan, pos)
<1>1. ASSUME pos \in 0..(f.len - 1)
      PROVE  /\ plan.budget - plan.keyframes * f.pl >= plan.readers * f.pl =>
                  plan.readers * Cardinality(W!Wanted(w)) + plan.keyframes <= plan.budget \div f.pl
             /\ (f.off + pos) \div f.pl \in W!PiecesOf(w.urgent)
             /\ \A p \in W!Wanted(w) :
                  w.urgent.begin <= p /\ (w.urgent.begin)..p \subseteq W!Wanted(w)
             /\ W!Wanted(w) \subseteq W!BeginPiece(f)..(W!EndPiece(f) - 1)
  <2> HIDE DEF f, plan, pos, w
  <2>1. WinFile(f) /\ plan \in WinPlan
    BY DEF f, plan
  <2>2. w = W!Window(f, plan, pos)
    BY DEF w
  <2> QED
    BY <1>1, <2>1, <2>2, WindowFits, Zenon
<1> QED
  BY <1>1, WinCount, Zenon DEF W!WindowFitsCache

\* What is asked is asked of a file, with a plan and offsets.
WinInv == win_input \in [f : Layouts, plan : Plans, a : Offsets, b : Offsets]

LEMMA WinInit == WindowBounds /\ W!Init => WinInv
BY DEF WindowBounds, W!Init, W!First, WinInv

LEMMA WinStep == WindowBounds /\ WinInv /\ [W!Next]_win_input => WinInv'
<1> SUFFICES ASSUME WindowBounds, WinInv, [W!Next]_win_input PROVE WinInv'
  OBVIOUS
<1>1. W!First \in [f : Layouts, plan : Plans, a : Offsets, b : Offsets]
  BY DEF WindowBounds, W!First
<1>2. CASE W!AskRange
  BY <1>1, <1>2 DEF W!AskRange, WinInv
<1>3. CASE W!AskWindow
  BY <1>1, <1>3 DEF W!AskWindow, WinInv
<1>4. CASE UNCHANGED win_input
  BY <1>4 DEF WinInv
<1> QED
  BY <1>2, <1>3, <1>4 DEF W!Next

LEMMA WinExact == WindowBounds /\ WinInv => WindowsAreExact
<1> SUFFICES ASSUME WindowBounds, WinInv PROVE WindowsAreExact
  OBVIOUS
<1>1. win_input.f \in Layouts /\ win_input.plan \in Plans /\ win_input.a \in Offsets /\ win_input.b \in Offsets
  BY DEF WinInv
<1>2. WinFile(win_input.f) /\ win_input.plan \in WinPlan /\ win_input.a \in Int /\ win_input.b \in Int
  BY <1>1, Zenon DEF WindowBounds, WinFile, WinLayout, WinPlan
<1> QED
  BY <1>2, RangesExact, WindowsFitCache DEF WindowsAreExact

(* Whatever the sizes of pieces, files and caches: a byte range stands for  *)
(* the pieces that hold it and the windows of all readers fit the cache.    *)
THEOREM WindowsExact == W!Spec => []WindowsAreExact
<1>1. WindowBounds
  BY WindowAssumption
<1>2. W!Init => WinInv
  BY <1>1, WinInit
<1>3. WinInv /\ [W!Next]_win_input => WinInv'
  BY <1>1, WinStep
<1>4. WinInv => WindowsAreExact
  BY <1>1, WinExact
<1> QED
  BY <1>2, <1>3, <1>4, PTL DEF W!Spec

-----------------------------------------------------------------------------
(* Serving a peer                                                          *)

UpMsg == [kind : {"piece", "reject", "choke", "unchoke"}, block : UploadBlocks \cup {Q!AnyBlock}]
UpWriter == [at : {"enable", "drain", "select", "wait", "tokens", "done"}, notified : BOOLEAN,
             drained : BOOLEAN, batch : Seq(UpMsg)]

\* The blocks among the messages, and the reads under way.
UpPieces(msgs) == Cardinality({i \in 1..Len(msgs) : msgs[i].kind = "piece"})
UpReads(f) == UNION {{b} \X (1..f[b]) : b \in UploadBlocks}

UpTypes ==
    /\ up_reads \in [UploadBlocks -> Nat] /\ IsFiniteSet(UpReads(up_reads))
    /\ up_queue \in Seq(UpMsg) /\ up_writer \in UpWriter
    /\ up_queued \in Int /\ up_charged \in Nat /\ up_received \in Nat /\ up_sent \in Nat

\* What is sent, in the batch, queued or being read was charged when it was
\* asked for, and only what the peer has earned is charged.
UpCharged ==
    /\ up_sent + UpPieces(up_writer.batch) + up_queued <= up_charged
    /\ up_peer.seeding \/ up_charged <= up_received + Headroom

UpInv == UpTypes /\ up_queued = Cardinality(UpReads(up_reads)) + UpPieces(up_queue) /\ UpCharged

\* The instance counts as this module does.
LEMMA UpCount == ASSUME NEW X PROVE Q!Cardinality(X) = Cardinality(X)
BY DEF Q!Cardinality, Cardinality

LEMMA UpPiecesAre == ASSUME NEW s PROVE Q!PiecesIn(s) = UpPieces(s)
BY UpCount DEF Q!PiecesIn, UpPieces

LEMMA UpReadsAre == Cardinality(Q!ReadsUnderWay) = Cardinality(UpReads(up_reads))
BY DEF Q!ReadsUnderWay, UpReads

LEMMA UpPiecesType ==
    ASSUME NEW s \in Seq(UpMsg)
    PROVE  /\ IsFiniteSet({i \in 1..Len(s) : s[i].kind = "piece"}) /\ UpPieces(s) \in Nat
           /\ s = <<>> => UpPieces(s) = 0
<1>1. IsFiniteSet(1..Len(s))
  BY FS_Interval
<1>2. IsFiniteSet({i \in 1..Len(s) : s[i].kind = "piece"})
  BY <1>1, FS_Subset
<1>3. ASSUME s = <<>> PROVE {i \in 1..Len(s) : s[i].kind = "piece"} = {}
  BY <1>3
<1> QED
  BY <1>2, <1>3, FS_CardinalityType, FS_EmptySet DEF UpPieces

LEMMA UpAppended ==
    ASSUME NEW s \in Seq(UpMsg), NEW m \in UpMsg
    PROVE  /\ Append(s, m) \in Seq(UpMsg)
           /\ UpPieces(Append(s, m)) = UpPieces(s) + IF m.kind = "piece" THEN 1 ELSE 0
<1>1. PICK t : t = Append(s, m)
  OBVIOUS
<1>2. /\ t \in Seq(UpMsg) /\ Len(t) = Len(s) + 1 /\ t[Len(s) + 1] = m /\ Len(s) \in Nat
      /\ \A i \in 1..Len(s) : t[i] = s[i]
  BY <1>1
<1>3. PICK X : X = {i \in 1..Len(s) : s[i].kind = "piece"}
  OBVIOUS
<1>4. IsFiniteSet(X) /\ Cardinality(X) = UpPieces(s) /\ UpPieces(s) \in Nat
  BY <1>3, UpPiecesType DEF UpPieces
<1>5. CASE m.kind = "piece"
  <2>1. {i \in 1..Len(t) : t[i].kind = "piece"} = X \cup {Len(s) + 1} /\ Len(s) + 1 \notin X
    BY <1>2, <1>3, <1>5
  <2>2. Cardinality(X \cup {Len(s) + 1}) = Cardinality(X) + 1
    BY <1>4, <2>1, FS_AddElement
  <2> QED
    BY <1>1, <1>2, <1>4, <1>5, <2>1, <2>2 DEF UpPieces
<1>6. CASE m.kind # "piece"
  <2>1. {i \in 1..Len(t) : t[i].kind = "piece"} = X
    BY <1>2, <1>3, <1>6
  <2>2. UpPieces(t) = UpPieces(s)
    BY <1>4, <2>1 DEF UpPieces
  <2> QED
    BY <1>1, <1>2, <1>4, <1>6, <2>2
<1> QED
  BY <1>5, <1>6

LEMMA UpTaken ==
    ASSUME NEW s \in Seq(UpMsg), s # <<>>
    PROVE  /\ Head(s) \in UpMsg /\ Tail(s) \in Seq(UpMsg)
           /\ UpPieces(s) = UpPieces(Tail(s)) + IF Head(s).kind = "piece" THEN 1 ELSE 0
           /\ UpPieces(Tail(s)) \in Nat
<1>1. PICK t : t = Tail(s)
  OBVIOUS
<1>2. /\ t \in Seq(UpMsg) /\ Len(s) = Len(t) + 1 /\ Len(t) \in Nat /\ Head(s) = s[1] /\ Head(s) \in UpMsg
      /\ \A i \in 1..Len(t) : t[i] = s[i + 1]
  BY <1>1
<1>3. PICK X : X = {i \in 1..Len(t) : t[i].kind = "piece"}
  OBVIOUS
<1>4. PICK Y : Y = {i \in 2..Len(s) : s[i].kind = "piece"}
  OBVIOUS
<1>5. IsFiniteSet(X) /\ Cardinality(X) = UpPieces(t) /\ UpPieces(t) \in Nat
  BY <1>2, <1>3, UpPiecesType DEF UpPieces
<1>6. IsFiniteSet(Y) /\ Cardinality(Y) = Cardinality(X)
  <2>1. PICK f : f = [i \in X |-> i + 1]
    OBVIOUS
  <2>2. \A i \in X : i \in Nat /\ i + 1 \in Y
    BY <1>2, <1>3, <1>4
  <2>3. \A j \in Y : j - 1 \in X /\ (j - 1) + 1 = j
    BY <1>2, <1>3, <1>4
  <2>4. f \in [X -> Y] /\ \A i \in X : f[i] = i + 1
    BY <2>1, <2>2
  <2>5. \A i, j \in X : f[i] = f[j] => i = j
    BY <2>2, <2>4
  <2>6. \A j \in Y : \E i \in X : f[i] = j
    BY <2>3, <2>4
  <2>7. ExistsBijection(X, Y)
    BY <2>4, <2>5, <2>6, Zenon DEF ExistsBijection, Bijection, Injection, Surjection, IsInjective
  <2> QED
    BY <1>5, <2>7, FS_Bijection
<1>7. CASE Head(s).kind = "piece"
  <2>1. {i \in 1..Len(s) : s[i].kind = "piece"} = Y \cup {1} /\ 1 \notin Y
    BY <1>2, <1>4, <1>7
  <2>2. Cardinality(Y \cup {1}) = Cardinality(Y) + 1
    BY <1>6, <2>1, FS_AddElement
  <2> QED
    BY <1>1, <1>2, <1>5, <1>6, <1>7, <2>1, <2>2 DEF UpPieces
<1>8. CASE Head(s).kind # "piece"
  <2>1. {i \in 1..Len(s) : s[i].kind = "piece"} = Y
    BY <1>2, <1>4, <1>8
  <2>2. UpPieces(s) = UpPieces(t)
    BY <1>5, <1>6, <2>1 DEF UpPieces
  <2> QED
    BY <1>1, <1>2, <1>5, <1>8, <2>2
<1> QED
  BY <1>7, <1>8

\* One more read under way, and one less.
LEMMA UpReadMore ==
    ASSUME NEW f \in [UploadBlocks -> Nat], NEW b \in UploadBlocks, IsFiniteSet(UpReads(f)),
           NEW g, g = [f EXCEPT ![b] = f[b] + 1]
    PROVE  /\ g \in [UploadBlocks -> Nat] /\ IsFiniteSet(UpReads(g))
           /\ Cardinality(UpReads(g)) = Cardinality(UpReads(f)) + 1 /\ Cardinality(UpReads(f)) \in Nat
<1>1. PICK n : n = f[b]
  OBVIOUS
<1>2. /\ g \in [UploadBlocks -> Nat] /\ n \in Nat /\ g[b] = n + 1
      /\ \A c \in UploadBlocks : c # b => g[c] = f[c]
  BY <1>1
<1>3. UpReads(g) = UpReads(f) \cup {<<b, n + 1>>} /\ <<b, n + 1>> \notin UpReads(f)
  <2>1. ASSUME NEW h \in [UploadBlocks -> Nat], NEW p
        PROVE  p \in UpReads(h) <=> \E c \in UploadBlocks : \E k \in 1..h[c] : p = <<c, k>>
    BY DEF UpReads
  <2>2. 1..(n + 1) = (1..n) \cup {n + 1} /\ n + 1 \notin 1..n
    BY <1>2
  <2>3. ASSUME NEW p PROVE p \in UpReads(g) <=> p \in UpReads(f) \/ p = <<b, n + 1>>
    <3>1. ASSUME NEW c \in UploadBlocks, NEW k \in 1..g[c], p = <<c, k>>
          PROVE  p \in UpReads(f) \/ p = <<b, n + 1>>
      <4>1. CASE c = b
        BY <1>1, <1>2, <2>1, <2>2, <3>1, <4>1
      <4>2. CASE c # b
        BY <1>2, <2>1, <3>1, <4>2
      <4> QED
        BY <4>1, <4>2
    <3>2. ASSUME NEW c \in UploadBlocks, NEW k \in 1..f[c], p = <<c, k>>
          PROVE  p \in UpReads(g)
      <4>1. k \in 1..g[c]
        <5>1. CASE c = b
          BY <1>1, <1>2, <2>2, <3>2, <5>1
        <5>2. CASE c # b
          BY <1>2, <3>2, <5>2
        <5> QED
          BY <5>1, <5>2
      <4> QED
        BY <1>2, <2>1, <3>2, <4>1
    <3>3. <<b, n + 1>> \in UpReads(g)
      BY <1>2, <2>1, <2>2
    <3>4. ASSUME p \in UpReads(g) PROVE p \in UpReads(f) \/ p = <<b, n + 1>>
      <4>1. \E c \in UploadBlocks : \E k \in 1..g[c] : p = <<c, k>>
        <5>1. g \in [UploadBlocks -> Nat]
          BY <1>2
        <5> QED
          BY <2>1, <3>4, <5>1, Zenon
      <4> QED
        BY <3>1, <4>1
    <3>5. ASSUME p \in UpReads(f) PROVE p \in UpReads(g)
      <4>1. \E c \in UploadBlocks : \E k \in 1..f[c] : p = <<c, k>>
        BY <2>1, <3>5
      <4> QED
        BY <3>2, <4>1
    <3> QED
      BY <3>3, <3>4, <3>5
  <2>4. <<b, n + 1>> \notin UpReads(f)
    BY <1>1, <2>1, <2>2
  <2> QED
    BY <2>3, <2>4
<1>4. /\ IsFiniteSet(UpReads(f) \cup {<<b, n + 1>>})
      /\ Cardinality(UpReads(f) \cup {<<b, n + 1>>}) = Cardinality(UpReads(f)) + 1
  BY <1>3, FS_AddElement
<1> QED
  BY <1>2, <1>3, <1>4, FS_CardinalityType

LEMMA UpReadLess ==
    ASSUME NEW f \in [UploadBlocks -> Nat], NEW b \in UploadBlocks, IsFiniteSet(UpReads(f)), f[b] > 0,
           NEW g, g = [f EXCEPT ![b] = f[b] - 1]
    PROVE  /\ g \in [UploadBlocks -> Nat] /\ IsFiniteSet(UpReads(g))
           /\ Cardinality(UpReads(g)) = Cardinality(UpReads(f)) - 1 /\ Cardinality(UpReads(f)) \in Nat
<1>1. g \in [UploadBlocks -> Nat] /\ f = [g EXCEPT ![b] = g[b] + 1]
  <2>1. f[b] \in Nat /\ f[b] - 1 \in Nat /\ (f[b] - 1) + 1 = f[b]
    OBVIOUS
  <2>2. g \in [UploadBlocks -> Nat] /\ g[b] = f[b] - 1 /\ \A c \in UploadBlocks : c # b => g[c] = f[c]
    BY <2>1
  <2>3. PICK h : h = [g EXCEPT ![b] = g[b] + 1]
    OBVIOUS
  <2>4. h \in [UploadBlocks -> Nat] /\ \A c \in UploadBlocks : h[c] = f[c]
    BY <2>1, <2>2, <2>3
  <2>5. h = f
    <3>1. h = [c \in UploadBlocks |-> h[c]] /\ f = [c \in UploadBlocks |-> f[c]]
      BY <2>4
    <3> QED
      BY <2>4, <3>1, Zenon
  <2> QED
    BY <2>2, <2>3, <2>5
<1>2. UpReads(g) \subseteq UpReads(f)
  <2>1. \A c \in UploadBlocks : 1..g[c] \subseteq 1..f[c]
    OBVIOUS
  <2> QED
    BY <2>1 DEF UpReads
<1>3. IsFiniteSet(UpReads(g))
  BY <1>2, FS_Subset
<1>4. Cardinality(UpReads(f)) = Cardinality(UpReads(g)) + 1 /\ Cardinality(UpReads(g)) \in Nat
  BY <1>1, <1>3, UpReadMore
<1> QED
  BY <1>1, <1>3, <1>4

-----------------------------------------------------------------------------

\* What is queued on a connection that is open is one message longer.
LEMMA UpSent ==
    ASSUME UpTypes, NEW m \in UpMsg, Q!Send(m)
    PROVE  /\ up_queue' \in Seq(UpMsg) /\ UpPieces(up_queue) \in Nat
           /\ UpPieces(up_queue') = UpPieces(up_queue)
                                    + IF ~up_closed /\ m.kind = "piece" THEN 1 ELSE 0
<1>1. up_queue \in Seq(UpMsg) /\ UpPieces(up_queue) \in Nat
  BY UpPiecesType DEF UpTypes
<1>2. CASE up_closed
  <2>1. up_queue' = up_queue
    BY <1>2 DEF Q!Send
  <2> QED
    BY <1>1, <1>2, <2>1
<1>3. CASE ~up_closed
  <2>1. up_queue' = Append(up_queue, m)
    BY <1>3 DEF Q!Send
  <2>2. UpPieces(up_queue') = UpPieces(up_queue) + IF m.kind = "piece" THEN 1 ELSE 0
    BY <1>1, <2>1, UpAppended
  <2>3. up_queue' \in Seq(UpMsg)
    BY <1>1, <2>1, UpAppended
  <2> QED
    BY <1>1, <1>3, <2>2, <2>3
<1> QED
  BY <1>2, <1>3

\* A step that takes, queues and writes no block.
LEMMA UpBeside ==
    ASSUME UpInv, UNCHANGED <<up_peer, up_reads, up_queued, up_charged, up_sent>>,
           up_queue' \in Seq(UpMsg), UpPieces(up_queue') = UpPieces(up_queue),
           up_writer' \in UpWriter, up_writer'.batch = up_writer.batch,
           up_received' \in Nat, up_received' >= up_received
    PROVE  UpInv'
<1>1. UpTypes' /\ Headroom \in Nat
  BY UploadAssumption DEF UpInv, UpTypes
<1>2. UpCharged'
  <2>1. up_received \in Nat /\ up_charged \in Nat
    BY DEF UpInv, UpTypes
  <2>2. up_sent + UpPieces(up_writer.batch) + up_queued <= up_charged
    BY DEF UpInv, UpCharged
  <2>3. up_sent' + UpPieces(up_writer'.batch) + up_queued' <= up_charged'
    BY <2>2
  <2>4. up_peer'.seeding \/ up_charged' <= up_received' + Headroom
    <3>1. up_peer.seeding \/ up_charged <= up_received + Headroom
      BY Zenon DEF UpInv, UpCharged
    <3>2. up_charged <= up_received + Headroom => up_charged' <= up_received' + Headroom
      BY <1>1, <2>1
    <3> QED
      BY <3>1, <3>2
  <2> QED
    BY <2>3, <2>4 DEF UpCharged
<1>3. up_queued' = Cardinality(UpReads(up_reads')) + UpPieces(up_queue')
  BY DEF UpInv
<1> QED
  BY <1>1, <1>2, <1>3 DEF UpInv

\* A block that is accepted is charged to what the peer has earned.
LEMMA UpAccepted ==
    ASSUME UpInv, NEW b \in UploadBlocks, Q!Accepts(b), up_charged' = up_charged + 1,
           UNCHANGED <<up_peer, up_received, up_writer, up_sent>>,
           up_queue' \in Seq(UpMsg), up_reads' \in [UploadBlocks -> Nat], IsFiniteSet(UpReads(up_reads')),
           Cardinality(UpReads(up_reads')) + UpPieces(up_queue')
             = Cardinality(UpReads(up_reads)) + UpPieces(up_queue) + 1
    PROVE  UpInv'
<1>1. /\ up_queued' = up_queued + 1
      /\ up_peer.seeding \/ up_charged < up_received + Headroom
  BY DEF Q!Accepts, Q!UploadAllowed
<1>2. /\ up_queued \in Int /\ up_charged \in Nat /\ up_received \in Nat /\ up_sent \in Nat
      /\ up_writer \in UpWriter /\ Headroom \in Nat
  BY UploadAssumption DEF UpInv, UpTypes
<1>3. UpTypes'
  BY <1>1, <1>2 DEF UpTypes
<1>4. UpPieces(up_writer.batch) \in Nat
  BY <1>2, UpPiecesType DEF UpWriter
<1>5. UpCharged'
  <2>1. up_sent + UpPieces(up_writer.batch) + up_queued <= up_charged
    BY DEF UpInv, UpCharged
  <2>2. up_sent' + UpPieces(up_writer'.batch) + up_queued' <= up_charged'
    BY <1>1, <1>2, <1>4, <2>1
  <2>3. up_peer'.seeding \/ up_charged' <= up_received' + Headroom
    BY <1>1, <1>2
  <2> QED
    BY <2>2, <2>3 DEF UpCharged
<1>6. up_queued' = Cardinality(UpReads(up_reads')) + UpPieces(up_queue')
  <2>1. up_queued = Cardinality(UpReads(up_reads)) + UpPieces(up_queue)
    BY DEF UpInv
  <2> QED
    BY <1>1, <2>1
<1> QED
  BY <1>3, <1>5, <1>6 DEF UpInv

LEMMA UpInit == Q!Init => UpInv
<1> SUFFICES ASSUME Q!Init PROVE UpInv
  OBVIOUS
<1>1. /\ up_received = 0 /\ up_charged = 0 /\ up_queued = 0 /\ up_sent = 0
      /\ up_reads = [b \in UploadBlocks |-> 0] /\ up_queue = <<>> /\ up_writer = Q!Writer0
  BY DEF Q!Init
<1>2. <<>> \in Seq(UpMsg) /\ UpPieces(<<>>) = 0
  <2>1. <<>> \in Seq(UpMsg)
    OBVIOUS
  <2> QED
    BY <2>1, UpPiecesType, Zenon
<1>3. up_writer \in UpWriter /\ up_writer.batch = <<>>
  BY <1>1, <1>2 DEF Q!Writer0, UpWriter
<1>4. UpReads(up_reads) = {}
  BY <1>1 DEF UpReads
<1>5. UpTypes
  BY <1>1, <1>2, <1>3, <1>4, FS_EmptySet DEF UpTypes
<1>6. UpCharged
  BY <1>1, <1>2, <1>3, UploadAssumption DEF UpCharged
<1>7. Cardinality(UpReads(up_reads)) = 0
  BY <1>4, FS_EmptySet
<1> QED
  BY <1>1, <1>2, <1>5, <1>6, <1>7 DEF UpInv

\* Messages that are not blocks, and blocks.
LEMMA UpMessages ==
    ASSUME NEW b \in UploadBlocks
    PROVE  /\ Q!Msg("piece", b) \in UpMsg /\ Q!Msg("piece", b).kind = "piece"
           /\ Q!Msg("reject", b) \in UpMsg /\ Q!Msg("reject", b).kind # "piece"
BY DEF Q!Msg, UpMsg

\* The steps of the handler that accept no block.
LEMMA UpHandler ==
    ASSUME UpInv,
           \/ \E w \in BOOLEAN : Q!ReconcileChoke(w)
           \/ \E b \in UploadBlocks : Q!Refuse(b) \/ Q!Cancel(b)
           \/ Q!Receive \/ Q!SetGate
    PROVE  UpInv'
<1>1. /\ up_queue \in Seq(UpMsg) /\ up_writer \in UpWriter /\ up_received \in Nat /\ UpTypes
      /\ UpPieces(up_queue) \in Nat
  BY UpPiecesType DEF UpInv, UpTypes
<1>2. UNCHANGED <<up_peer, up_reads, up_queued, up_charged, up_sent, up_writer>>
  BY DEF Q!ReconcileChoke, Q!Refuse, Q!Cancel, Q!Receive, Q!SetGate, Q!account
<1>3. up_received' \in Nat /\ up_received' >= up_received
  <2>1. up_received' = up_received \/ up_received' = up_received + 1
    BY Zenon DEF Q!ReconcileChoke, Q!Refuse, Q!Cancel, Q!Receive, Q!SetGate, Q!account
  <2> QED
    BY <1>1, <2>1
<1>4. up_queue' \in Seq(UpMsg) /\ UpPieces(up_queue') = UpPieces(up_queue)
  <2>1. ASSUME NEW w \in BOOLEAN, Q!ReconcileChoke(w)
        PROVE  up_queue' \in Seq(UpMsg) /\ UpPieces(up_queue') = UpPieces(up_queue)
    <3>1. PICK m : m = Q!Msg(IF up_choking THEN "unchoke" ELSE "choke", Q!AnyBlock)
      OBVIOUS
    <3>2. m \in UpMsg /\ m.kind # "piece"
      BY <3>1 DEF Q!Msg, UpMsg
    <3>3. Q!Send(m)
      BY <2>1, <3>1 DEF Q!ReconcileChoke
    <3> QED
      BY <1>1, <3>2, <3>3, UpSent
  <2>2. ASSUME NEW b \in UploadBlocks, Q!Refuse(b)
        PROVE  up_queue' \in Seq(UpMsg) /\ UpPieces(up_queue') = UpPieces(up_queue)
    <3>1. Q!Send(Q!Msg("reject", b))
      BY <2>2 DEF Q!Refuse
    <3> QED
      BY <1>1, <3>1, UpMessages, UpSent
  <2>3. ASSUME (\E b \in UploadBlocks : Q!Cancel(b)) \/ Q!Receive \/ Q!SetGate
        PROVE  up_queue' = up_queue
    BY <2>3 DEF Q!Cancel, Q!Receive, Q!SetGate
  <2> QED
    BY <1>1, <2>1, <2>2, <2>3
<1>5. up_writer' \in UpWriter /\ up_writer'.batch = up_writer.batch
  BY <1>1, <1>2
<1> QED
  BY <1>2, <1>3, <1>4, <1>5, UpBeside

LEMMA UpServe ==
    ASSUME UpInv, NEW b \in UploadBlocks, Q!Serve(b)
    PROVE  UpInv'
<1>1. /\ Q!Accepts(b) /\ Q!Send(Q!Msg("piece", b)) /\ up_charged' = up_charged + 1
      /\ UNCHANGED <<up_peer, up_received, up_writer, up_sent, up_reads>>
  BY DEF Q!Serve
<1>2. ~up_closed /\ UpTypes
  BY <1>1 DEF Q!Accepts, Q!Asked, UpInv
<1>3. /\ up_queue' \in Seq(UpMsg) /\ UpPieces(up_queue) \in Nat
      /\ UpPieces(up_queue') = UpPieces(up_queue) + 1
  BY <1>1, <1>2, UpMessages, UpSent
<1>4. up_reads' = up_reads /\ up_reads \in [UploadBlocks -> Nat] /\ IsFiniteSet(UpReads(up_reads))
  BY <1>1, <1>2 DEF UpTypes
<1>5. Cardinality(UpReads(up_reads)) \in Nat
  BY <1>4, FS_CardinalityType
<1>6. Cardinality(UpReads(up_reads')) + UpPieces(up_queue')
        = Cardinality(UpReads(up_reads)) + UpPieces(up_queue) + 1
  BY <1>3, <1>4, <1>5
<1> QED
  BY <1>1, <1>3, <1>4, <1>6, UpAccepted

LEMMA UpServeFromDisk ==
    ASSUME UpInv, NEW b \in UploadBlocks, Q!ServeFromDisk(b)
    PROVE  UpInv'
<1>1. /\ Q!Accepts(b) /\ up_reads' = [up_reads EXCEPT ![b] = up_reads[b] + 1]
      /\ up_charged' = up_charged + 1
      /\ UNCHANGED <<up_peer, up_received, up_writer, up_sent, up_queue>>
  BY DEF Q!ServeFromDisk
<1>2. /\ up_reads \in [UploadBlocks -> Nat] /\ IsFiniteSet(UpReads(up_reads))
      /\ up_queue \in Seq(UpMsg) /\ UpPieces(up_queue) \in Nat
  BY UpPiecesType DEF UpInv, UpTypes
<1>3. /\ up_reads' \in [UploadBlocks -> Nat] /\ IsFiniteSet(UpReads(up_reads'))
      /\ Cardinality(UpReads(up_reads')) = Cardinality(UpReads(up_reads)) + 1
      /\ Cardinality(UpReads(up_reads)) \in Nat
  BY <1>1, <1>2, UpReadMore
<1>4. Cardinality(UpReads(up_reads')) + UpPieces(up_queue')
        = Cardinality(UpReads(up_reads)) + UpPieces(up_queue) + 1
  BY <1>1, <1>2, <1>3
<1>5. up_queue' \in Seq(UpMsg)
  BY <1>1, <1>2
<1> QED
  BY <1>1, <1>3, <1>4, <1>5, UpAccepted

\* A read that ends hands its block on or gives its place back.
LEMMA UpReadEnds ==
    ASSUME UpInv, NEW b \in UploadBlocks, up_reads[b] > 0,
           up_reads' = [up_reads EXCEPT ![b] = up_reads[b] - 1],
           UNCHANGED <<up_peer, up_received, up_charged, up_sent>>,
           up_writer' \in UpWriter, up_writer'.batch = up_writer.batch,
           up_queue' \in Seq(UpMsg), NEW given \in {0, 1},
           UpPieces(up_queue') = UpPieces(up_queue) + given,
           up_queued' = up_queued - 1 + given
    PROVE  UpInv'
<1>1. /\ up_queued \in Int /\ up_charged \in Nat /\ up_received \in Nat /\ up_sent \in Nat
      /\ up_writer \in UpWriter /\ up_queue \in Seq(UpMsg)
      /\ up_reads \in [UploadBlocks -> Nat] /\ IsFiniteSet(UpReads(up_reads))
  BY DEF UpInv, UpTypes
<1>2. /\ up_reads' \in [UploadBlocks -> Nat] /\ IsFiniteSet(UpReads(up_reads'))
      /\ Cardinality(UpReads(up_reads')) = Cardinality(UpReads(up_reads)) - 1
      /\ Cardinality(UpReads(up_reads)) \in Nat
  BY <1>1, UpReadLess
<1>3. UpPieces(up_queue) \in Nat /\ UpPieces(up_writer.batch) \in Nat
  BY <1>1, UpPiecesType DEF UpWriter
<1>4. up_queued' \in Int
  BY <1>1
<1>5. UpTypes'
  BY <1>1, <1>2, <1>4 DEF UpTypes
<1>6. UpCharged'
  <2>1. up_sent + UpPieces(up_writer.batch) + up_queued <= up_charged
    BY DEF UpInv, UpCharged
  <2>2. up_sent' + UpPieces(up_writer'.batch) + up_queued' <= up_charged'
    BY <1>1, <1>3, <2>1
  <2>3. up_peer'.seeding \/ up_charged' <= up_received' + Headroom
    BY Zenon DEF UpInv, UpCharged
  <2> QED
    BY <2>2, <2>3 DEF UpCharged
<1>7. up_queued' = Cardinality(UpReads(up_reads')) + UpPieces(up_queue')
  <2>1. up_queued = Cardinality(UpReads(up_reads)) + UpPieces(up_queue)
    BY DEF UpInv
  <2> QED
    BY <1>2, <1>3, <2>1
<1> QED
  BY <1>5, <1>6, <1>7 DEF UpInv

LEMMA UpWoken ==
    ASSUME UpInv
    PROVE  Q!Woken(up_writer) \in UpWriter /\ Q!Woken(up_writer).batch = up_writer.batch
<1>1. up_writer \in UpWriter
  BY DEF UpInv, UpTypes
<1> QED
  BY <1>1 DEF Q!Woken, UpWriter

LEMMA UpReadSteps ==
    ASSUME UpInv, NEW b \in UploadBlocks, Q!ReadDone(b) \/ Q!ReadFails(b)
    PROVE  UpInv'
<1>1. UpTypes /\ up_queued \in Int /\ up_queue \in Seq(UpMsg) /\ up_writer \in UpWriter
      /\ UpPieces(up_queue) \in Nat
  BY UpPiecesType DEF UpInv, UpTypes
<1>2. CASE Q!ReadDone(b) /\ ~up_closed
  <2>1. /\ up_reads[b] > 0 /\ up_reads' = [up_reads EXCEPT ![b] = up_reads[b] - 1]
        /\ Q!Send(Q!Msg("piece", b)) /\ up_queued' = up_queued
        /\ UNCHANGED <<up_peer, up_received, up_charged, up_sent, up_writer>>
    BY <1>2 DEF Q!ReadDone, Q!account
  <2>2. up_queue' \in Seq(UpMsg) /\ UpPieces(up_queue') = UpPieces(up_queue) + 1
    BY <1>1, <1>2, <2>1, UpMessages, UpSent
  <2>3. up_queued' = up_queued - 1 + 1
    BY <1>1, <2>1
  <2>4. up_writer' \in UpWriter /\ up_writer'.batch = up_writer.batch
    BY <1>1, <2>1
  <2> QED
    BY <2>1, <2>2, <2>3, <2>4, UpReadEnds
<1>3. CASE Q!ReadDone(b) /\ up_closed
  <2>1. /\ up_reads[b] > 0 /\ up_reads' = [up_reads EXCEPT ![b] = up_reads[b] - 1]
        /\ up_queued' = up_queued - 1
        /\ UNCHANGED <<up_peer, up_received, up_charged, up_sent, up_writer, up_queue>>
    BY <1>3 DEF Q!ReadDone, Q!account, Q!Send
  <2>2. /\ up_queue' \in Seq(UpMsg) /\ UpPieces(up_queue') = UpPieces(up_queue) + 0
        /\ up_queued' = up_queued - 1 + 0
    BY <1>1, <2>1
  <2>3. up_writer' \in UpWriter /\ up_writer'.batch = up_writer.batch
    BY <1>1, <2>1
  <2> QED
    BY <2>1, <2>2, <2>3, UpReadEnds
<1>4. CASE Q!ReadFails(b)
  <2>1. /\ up_reads[b] > 0 /\ up_reads' = [up_reads EXCEPT ![b] = up_reads[b] - 1]
        /\ up_queued' = up_queued - 1 /\ up_writer' = Q!Woken(up_writer)
        /\ UNCHANGED <<up_peer, up_received, up_charged, up_sent, up_queue>>
    BY <1>4 DEF Q!ReadFails, Q!account
  <2>2. /\ up_queue' \in Seq(UpMsg) /\ UpPieces(up_queue') = UpPieces(up_queue) + 0
        /\ up_queued' = up_queued - 1 + 0
    BY <1>1, <2>1
  <2>3. up_writer' \in UpWriter /\ up_writer'.batch = up_writer.batch
    BY <2>1, UpWoken
  <2> QED
    BY <2>1, <2>2, <2>3, UpReadEnds
<1> QED
  BY <1>2, <1>3, <1>4

\* The steps of the writer that only move it, and those that wake or close it.
LEMMA UpMoves ==
    ASSUME UpInv, Q!Notify \/ Q!Close \/ Q!Enable \/ Q!Decide \/ Q!Select \/ Q!Wake \/ Q!Keepalive
    PROVE  UpInv'
<1>1. up_writer \in UpWriter /\ up_received \in Nat /\ up_queue \in Seq(UpMsg)
  BY DEF UpInv, UpTypes
<1>2. UNCHANGED <<up_peer, up_reads, up_queued, up_charged, up_sent, up_received, up_queue>>
  BY DEF Q!Notify, Q!Close, Q!Enable, Q!Decide, Q!Select, Q!Wake, Q!Keepalive, Q!account
<1>3. up_writer' \in UpWriter /\ up_writer'.batch = up_writer.batch
  <2>1. ASSUME Q!Notify \/ Q!Close
        PROVE  up_writer' \in UpWriter /\ up_writer'.batch = up_writer.batch
    BY <2>1, UpWoken DEF Q!Notify, Q!Close
  <2>2. ASSUME Q!Enable \/ Q!Decide \/ Q!Select \/ Q!Wake \/ Q!Keepalive
        PROVE  up_writer' \in UpWriter /\ up_writer'.batch = up_writer.batch
    BY <1>1, <2>2 DEF Q!Enable, Q!Decide, Q!Select, Q!Wake, Q!Keepalive, UpWriter
  <2> QED
    BY <2>1, <2>2
<1> QED
  BY <1>1, <1>2, <1>3, UpBeside

\* A message that is taken from the queue releases its place, and is in the
\* batch unless it was cancelled.
LEMMA UpDrain ==
    ASSUME UpInv, Q!Drain
    PROVE  UpInv'
<1>1. PICK m : m = Head(up_queue)
  OBVIOUS
<1>2. /\ up_queue # <<>> /\ up_queue' = Tail(up_queue)
      /\ up_queued' = IF m.kind = "piece" THEN up_queued - 1 ELSE up_queued
      /\ up_writer' = [up_writer EXCEPT !.batch = up_writer.batch \o Q!Encoded(m), !.drained = TRUE]
      /\ UNCHANGED <<up_peer, up_received, up_charged, up_reads, up_sent>>
  BY <1>1 DEF Q!Drain, Q!account
<1>3. /\ up_queued \in Int /\ up_charged \in Nat /\ up_received \in Nat /\ up_sent \in Nat
      /\ up_writer \in UpWriter /\ up_queue \in Seq(UpMsg)
      /\ up_reads \in [UploadBlocks -> Nat] /\ IsFiniteSet(UpReads(up_reads))
  BY DEF UpInv, UpTypes
<1>4. PICK piece : piece = (IF m.kind = "piece" THEN 1 ELSE 0)
  OBVIOUS
<1>5. /\ m \in UpMsg /\ up_queue' \in Seq(UpMsg) /\ UpPieces(up_queue) = UpPieces(up_queue') + piece
      /\ UpPieces(up_queue') \in Nat /\ piece \in {0, 1}
  BY <1>1, <1>2, <1>3, <1>4, UpTaken
<1>6. up_queued' = up_queued - piece /\ up_queued' \in Int
  BY <1>2, <1>3, <1>4
<1>7. PICK s : s = up_writer.batch
  OBVIOUS
<1>8. s \in Seq(UpMsg) /\ UpPieces(s) \in Nat
  BY <1>3, <1>7, UpPiecesType DEF UpWriter
<1>9. PICK t : t = s \o Q!Encoded(m)
  OBVIOUS
<1>10. t \in Seq(UpMsg) /\ UpPieces(t) \in Nat /\ UpPieces(t) <= UpPieces(s) + piece
  <2>1. ASSUME NEW n \in UpMsg, Q!Encoded(m) = <<n>>, n.kind = "piece" => m.kind = "piece"
        PROVE  t \in Seq(UpMsg) /\ UpPieces(t) \in Nat /\ UpPieces(t) <= UpPieces(s) + piece
    <3>1. t = Append(s, n)
      BY <1>8, <1>9, <2>1
    <3>2. UpPieces(t) = UpPieces(s) + (IF n.kind = "piece" THEN 1 ELSE 0) /\ t \in Seq(UpMsg)
      BY <1>8, <3>1, UpAppended
    <3> QED
      BY <1>4, <1>8, <2>1, <3>2
  <2>2. CASE ~Q!Unsent(m)
    <3>1. Q!Encoded(m) = <<m>>
      BY <2>2 DEF Q!Encoded
    <3> QED
      BY <1>5, <2>1, <3>1
  <2>3. CASE Q!Unsent(m) /\ up_peer.fast
    <3>1. PICK n : n = Q!Msg("reject", m.block)
      OBVIOUS
    <3>2. n \in UpMsg /\ n.kind # "piece"
      BY <1>5, <3>1 DEF Q!Msg, UpMsg
    <3>3. Q!Encoded(m) = <<n>>
      BY <2>3, <3>1 DEF Q!Encoded
    <3> QED
      BY <2>1, <3>2, <3>3
  <2>4. CASE Q!Unsent(m) /\ ~up_peer.fast
    <3>1. Q!Encoded(m) = <<>>
      BY <2>4 DEF Q!Encoded
    <3>2. t = s
      BY <1>8, <1>9, <3>1
    <3> QED
      BY <1>5, <1>8, <3>2
  <2> QED
    BY <2>2, <2>3, <2>4
<1>11. up_writer' \in UpWriter /\ up_writer'.batch = t
  BY <1>2, <1>3, <1>7, <1>9, <1>10 DEF UpWriter
<1>12. UpTypes'
  BY <1>2, <1>3, <1>5, <1>6, <1>11 DEF UpTypes
<1>13. UpCharged'
  <2>1. up_sent + UpPieces(s) + up_queued <= up_charged
    BY <1>7 DEF UpInv, UpCharged
  <2>2. up_sent' + UpPieces(t) + up_queued' <= up_charged'
    BY <1>2, <1>3, <1>5, <1>6, <1>8, <1>10, <2>1
  <2>3. up_peer'.seeding \/ up_charged' <= up_received' + Headroom
    BY <1>2, Zenon DEF UpInv, UpCharged
  <2> QED
    BY <1>11, <2>2, <2>3 DEF UpCharged
<1>14. up_queued' = Cardinality(UpReads(up_reads')) + UpPieces(up_queue')
  <2>1. up_queued = Cardinality(UpReads(up_reads)) + UpPieces(up_queue)
    BY DEF UpInv
  <2>2. Cardinality(UpReads(up_reads)) \in Nat
    BY <1>3, FS_CardinalityType
  <2> QED
    BY <1>2, <1>5, <1>6, <2>1, <2>2
<1> QED
  BY <1>12, <1>13, <1>14 DEF UpInv

LEMMA UpWrite ==
    ASSUME UpInv, Q!Write
    PROVE  UpInv'
<1>1. /\ up_queued \in Int /\ up_charged \in Nat /\ up_received \in Nat /\ up_sent \in Nat
      /\ up_writer \in UpWriter /\ up_queue \in Seq(UpMsg)
      /\ up_reads \in [UploadBlocks -> Nat] /\ IsFiniteSet(UpReads(up_reads))
  BY DEF UpInv, UpTypes
<1>2. UNCHANGED <<up_peer, up_received, up_charged, up_reads, up_queue, up_queued>>
  BY DEF Q!Write, Q!account
<1>3. CASE up_writer' = [up_writer EXCEPT !.at = "done"] /\ up_sent' = up_sent
  <2>1. up_writer' \in UpWriter /\ up_writer'.batch = up_writer.batch
    BY <1>1, <1>3 DEF UpWriter
  <2> QED
    BY <1>1, <1>2, <1>3, <2>1, UpBeside
<1>4. CASE up_writer' = Q!Writer0 /\ up_sent' = up_sent + Q!PiecesIn(up_writer.batch)
  <2>1. up_writer' \in UpWriter /\ up_writer'.batch = <<>>
    BY <1>4 DEF Q!Writer0, UpWriter
  <2>2. UpPieces(up_writer'.batch) = 0
    BY <2>1, UpPiecesType DEF UpWriter
  <2>3. UpPieces(up_writer.batch) \in Nat
    BY <1>1, UpPiecesType DEF UpWriter
  <2>4. up_sent' = up_sent + UpPieces(up_writer.batch)
    BY <1>4, UpPiecesAre
  <2>5. UpTypes'
    BY <1>1, <1>2, <2>1, <2>3, <2>4 DEF UpTypes
  <2>6. UpCharged'
    <3>1. up_sent + UpPieces(up_writer.batch) + up_queued <= up_charged
      BY DEF UpInv, UpCharged
    <3>2. up_sent' + UpPieces(up_writer'.batch) + up_queued' <= up_charged'
      BY <1>1, <1>2, <2>2, <2>3, <2>4, <3>1
    <3>3. up_peer'.seeding \/ up_charged' <= up_received' + Headroom
      BY <1>2, Zenon DEF UpInv, UpCharged
    <3> QED
      BY <3>2, <3>3 DEF UpCharged
  <2> QED
    BY <1>2, <2>5, <2>6 DEF UpInv
<1> QED
  BY <1>3, <1>4 DEF Q!Write

LEMMA UpNext == UpInv /\ [Q!Next]_Q!vars => UpInv'
<1> SUFFICES ASSUME UpInv, [Q!Next]_Q!vars PROVE UpInv'
  OBVIOUS
<1>1. CASE UNCHANGED Q!vars
  BY <1>1 DEF Q!vars, Q!account, UpInv, UpTypes, UpCharged
<1>2. ASSUME NEW w \in BOOLEAN, Q!ReconcileChoke(w) PROVE UpInv'
  BY <1>2, UpHandler
<1>3. ASSUME NEW b \in UploadBlocks,
             Q!Refuse(b) \/ Q!Serve(b) \/ Q!ServeFromDisk(b) \/ Q!Cancel(b) \/ Q!ReadDone(b) \/ Q!ReadFails(b)
      PROVE  UpInv'
  BY <1>3, UpHandler, UpServe, UpServeFromDisk, UpReadSteps
<1>4. ASSUME Q!Receive \/ Q!SetGate PROVE UpInv'
  BY <1>4, UpHandler
<1>5. ASSUME Q!Notify \/ Q!Close \/ Q!Enable \/ Q!Decide \/ Q!Select \/ Q!Wake \/ Q!Keepalive
      PROVE  UpInv'
  BY <1>5, UpMoves
<1> QED
  BY <1>1, <1>2, <1>3, <1>4, <1>5, UpDrain, UpWrite DEF Q!Next

LEMMA UpRight == UpInv => UploadIsRight
<1> SUFFICES ASSUME UpInv PROVE UploadIsRight
  OBVIOUS
<1>1. /\ up_queued \in Int /\ up_charged \in Nat /\ up_received \in Nat /\ up_sent \in Nat
      /\ up_writer.batch \in Seq(UpMsg) /\ Headroom \in Nat
  BY UploadAssumption DEF UpInv, UpTypes, UpWriter
<1>2. Q!UploadsBalance
  <2>1. up_queued = Cardinality(UpReads(up_reads)) + UpPieces(up_queue)
    BY DEF UpInv
  <2> QED
    BY <2>1, UpPiecesAre, UpReadsAre, UpCount DEF Q!UploadsBalance
<1>3. Q!UploadIsEarned
  <2>1. UpPieces(up_writer.batch) \in Nat
    BY <1>1, UpPiecesType
  <2>2. up_sent + UpPieces(up_writer.batch) + up_queued <= up_charged
    BY DEF UpInv, UpCharged
  <2>3. up_peer.seeding \/ up_charged <= up_received + Headroom
    BY Zenon DEF UpInv, UpCharged
  <2>4. up_charged <= up_received + Headroom
          => up_sent + UpPieces(up_writer.batch) + up_queued <= up_received + Headroom
    BY <1>1, <2>1, <2>2
  <2> QED
    BY <2>3, <2>4, UpPiecesAre DEF Q!UploadIsEarned
<1> QED
  BY <1>2, <1>3 DEF UploadIsRight

(* However requests, cancels, disk reads, failures and a close of the       *)
(* connection interleave with the writer, every block has exactly one place *)
(* while it is read or queued (reserve_upload, release_upload), and what a  *)
(* peer is sent, counting the blocks on their way, it has earned            *)
(* (upload_allowed).                                                        *)
THEOREM UploadRight == Q!Spec => []UploadIsRight
<1>1. Q!Init => UpInv
  BY UpInit
<1>2. UpInv /\ [Q!Next]_Q!vars => UpInv'
  BY UpNext
<1>3. UpInv => UploadIsRight
  BY UpRight
<1> QED
  BY <1>1, <1>2, <1>3, PTL DEF Q!Spec

-----------------------------------------------------------------------------
(* Peers and readers                                                       *)

(* What peers contribute is checked before it is used, what is known of     *)
(* them survives a change of network, and what they are sent they have      *)
(* earned (metadata/mod.rs, recover_network, upload_allowed).               *)
THEOREM PeersTreatedRight == M!Spec /\ N!Spec /\ Q!Spec => []PeersAreTreatedRight
BY GenuineInfo, RecoverySound, UploadRight, PTL DEF PeersAreTreatedRight

(* A rest is undone by a read, a range reaches the player whole and in      *)
(* order, and a preview keeps to its budget (idle_direct_play.rs,           *)
(* stream_http.rs, admit_preview_range).                                    *)
THEOREM ReadersServed == I!Spec /\ S!Spec /\ V!Spec => []ReadersAreServed
BY RestingUndone, RangeServed, BudgetKept, PTL DEF ReadersAreServed
=============================================================================
