-------------------------- MODULE WriteBackProofs --------------------------
(***************************************************************************)
(* What the write-back cache keeps for every number of pieces, blocks,     *)
(* threads and slots: bytes that reached a file are never overwritten with *)
(* the zeroes of a slot that did not receive them, one thread at a time    *)
(* writes a piece unlocked, and the torrent accepts no block of a piece    *)
(* the storage has completed.                                              *)
(***************************************************************************)
EXTENDS WriteBack, TLAPS

Sent == {"good", "bad"}

(* Threads: the label of a thread says what its job and its plan hold. *)

WriterAt == {"enter", "write", "await", "evict", "through", "ack"}
ReaderAt == {"read", "fill", "load", "copy", "direct"}
FlushAt  == {"evict", "complete", "fill"}

LocalOK(q, l, j, i, g) ==
    /\ l = "idle" => j = NoJob /\ i = NoIo
    /\ l # "idle" => j.p \in Pieces
    /\ q \in Writers => l \in {"idle"} \cup WriterAt
    /\ q \in Hashers => l \in {"idle", "verdict", "complete"} \cup ReaderAt
    /\ q \in Refreshers => l \in {"idle", "settle"} \cup ReaderAt
    /\ l \in WriterAt => j.b \in Blocks /\ j.v \in Sent
    /\ l = "evict" => j.victim \in Pieces
    /\ j.complete => l = "settle" /\ i.ok
    /\ l \notin FlushAt => i.at \notin {"want", "ret"}
    /\ i.handle <= g

(* The ranges of an unlocked write were all received. *)
PlanOK(l, i) ==
    l \in FlushAt \cup {"through"} /\ i.at \in {"io", "done"}
        => \A b \in i.spans : i.data[b] # "zero"

Threads ==
    /\ pc \in [Procs -> Labels] /\ job \in [Procs -> JobType] /\ io \in [Procs -> IoType]
    /\ filesGen \in Nat
    /\ \A q \in Procs : LocalOK(q, pc[q], job[q], io[q], filesGen)

Plans == \A q \in Procs : PlanOK(pc[q], io[q])

(* A flush returns to its caller with the mutex held. *)
LockOK ==
    \A q \in Procs : io[q].at = "ret" => lock = q /\ (io[q].ok => ~closed)

(* Slots: what a slot has yet to write, it received. *)
SlotOK(s) ==
    /\ s \in SlotType
    /\ ~s.here => ~s.dirty /\ s.spans = {} /\ s.fresh = {}
    /\ s.dirty => s.spans # {}
    /\ \A b \in s.spans \cup s.fresh : s.ram[b] # "zero" /\ (s.partial => b \in s.have)

SlotsOK == slot \in [Pieces -> SlotType] /\ \A p \in Pieces : SlotOK(slot[p])

(* Files: those no selection has created yet are empty. *)
FilesOK ==
    /\ disk \in [Pieces -> [0..MaxSelections -> Bytes]]
    /\ handle \in [Pieces -> 0..MaxSelections]
    /\ \A p \in Pieces : handle[p] <= filesGen
    /\ \A p \in Pieces, h \in 0..MaxSelections : h > filesGen => disk[p][h] = Zeroes

StoreInv == Threads /\ Plans /\ LockOK /\ SlotsOK /\ FilesOK

(* Unlocked writers own their piece. *)
OwnInv == OneWriter /\ \A p \in Pieces, q \in Procs : UnlockedWriter(q, p) => p \in flushing

(* The torrent: a block is being written only while it is missing; a piece is hashed by
   one thread, and no refresh of it is under way; a refresh knows whether the piece is
   complete. *)
Missing == \A w \in Writers : pc[w] # "idle" => got[job[w].p][job[w].b] = "zero"
OneCopy ==
    \A w, x \in Writers :
        pc[w] # "idle" /\ pc[x] # "idle" /\ job[w].p = job[x].p /\ job[w].b = job[x].b => w = x
Claimed ==
    ~closed => \A p \in Pieces, b \in Blocks : status[p] # "receiving" => got[p][b] # "zero"
Trusted == \A p \in completed : status[p] = "complete" /\ ~closed
Hashed ==
    /\ \A h \in Hashers : pc[h] # "idle" => status[job[h].p] = "checking"
    /\ \A h, k \in Hashers : pc[h] # "idle" /\ pc[k] # "idle" /\ job[h].p = job[k].p => h = k
Refreshed ==
    \A r \in Refreshers : pc[r] # "idle" =>
        /\ status[job[r].p] # "checking"
        /\ ~closed => (job[r].complete <=> job[r].p \in completed)

TorrentInv ==
    /\ Careful
    /\ status \in [Pieces -> {"receiving", "checking", "complete"}]
    /\ got \in [Pieces -> Bytes] /\ completed \subseteq Pieces
    /\ Missing /\ OneCopy /\ Claimed /\ Trusted /\ Hashed /\ Refreshed

-----------------------------------------------------------------------------
(* Slots *)

LEMMA ZeroBytes == Zeroes \in Bytes /\ NoSlot \in SlotType /\ SlotOK(NoSlot)
BY DEF Zeroes, Bytes, Data, NoSlot, SlotType, SlotOK

LEMMA DroppedOK ==
    ASSUME NEW s, SlotOK(s)
    PROVE  SlotOK(Dropped(s)) /\ ~Dropped(s).here
BY ZeroBytes DEF SlotOK, SlotType, Dropped

LEMMA CreatedOK ==
    ASSUME NEW s, SlotOK(s), ~s.here
    PROVE  SlotOK(Created(s)) /\ Created(s).here
BY ZeroBytes DEF SlotOK, SlotType, Created

LEMMA StoredOK ==
    ASSUME NEW s, NEW b \in Blocks, NEW v \in Sent, NEW busy \in BOOLEAN, SlotOK(s), s.here
    PROVE  SlotOK(Stored(s, b, v, busy))
<1> DEFINE have == IF s.partial THEN s.have \cup {b} ELSE s.have
           ram == [s.ram EXCEPT ![b] = v]
           t == Stored(s, b, v, busy)
<1>1. s \in SlotType
  BY DEF SlotOK
<1>2. have \in SUBSET Blocks
  BY <1>1 DEF SlotType
<1>3. ram \in Bytes /\ \A x \in Blocks : ram[x] = IF x = b THEN v ELSE s.ram[x]
  BY <1>1 DEF SlotType, Bytes, Data, Sent
<1>4. t = [s EXCEPT !.ram = ram, !.dirty = TRUE, !.spans = @ \cup {b},
                    !.have = IF have = Blocks THEN {} ELSE have,
                    !.partial = s.partial /\ have # Blocks,
                    !.raced = busy \/ s.raced,
                    !.fresh = IF busy THEN @ \cup {b} ELSE @]
  BY <1>1 DEF Stored, SlotType
<1> HIDE DEF have, ram, t
<1>5. /\ t \in SlotType /\ t.here /\ t.ram = ram /\ t.spans = s.spans \cup {b} /\ t.dirty
      /\ t.fresh \subseteq s.fresh \cup {b}
      /\ t.partial => s.partial /\ t.have = have
  BY <1>1, <1>2, <1>3, <1>4, ZenonT(60) DEF SlotType, SlotOK
<1>6. ASSUME NEW x \in t.spans \cup t.fresh
      PROVE  t.ram[x] # "zero" /\ (t.partial => x \in t.have)
  <2>1. x \in Blocks /\ (x = b \/ x \in s.spans \cup s.fresh)
    BY <1>1, <1>5 DEF SlotType
  <2>2. v # "zero"
    BY DEF Sent
  <2> QED
    BY <2>1, <2>2, <1>3, <1>5 DEF SlotOK, have
<1> QED
  BY <1>5, <1>6 DEF SlotOK, t

LEMMA SettledOK ==
    ASSUME NEW s, SlotOK(s)
    PROVE  SlotOK(Settled(s)) /\ SlotOK(Flushed(s))
BY DEF SlotOK, SlotType, Settled, Flushed, Arrived

LEMMA FilledOK ==
    ASSUME NEW s, NEW d \in Bytes, SlotOK(s)
    PROVE  SlotOK(Filled(s, d))
<1> DEFINE ram == [b \in Blocks |-> IF b \in s.have THEN s.ram[b] ELSE d[b]]
           t == [s EXCEPT !.ram = ram, !.partial = FALSE, !.have = {}]
<1>1. CASE s.partial /\ s.here
  <2>1. ram \in Bytes /\ \A b \in Blocks : b \in s.have => ram[b] = s.ram[b]
    BY DEF SlotOK, SlotType, Bytes
  <2> HIDE DEF ram
  <2>2. /\ t \in SlotType /\ t.here /\ ~t.partial /\ t.ram = ram /\ t.spans = s.spans
        /\ t.fresh = s.fresh /\ t.dirty = s.dirty
    BY <2>1, <1>1 DEF SlotOK, SlotType
  <2> HIDE DEF t
  <2>3. SlotOK(t)
    BY <2>1, <2>2, <1>1 DEF SlotOK, SlotType
  <2> QED
    BY <2>3, <1>1 DEF Filled, t, ram
<1> QED
  BY <1>1 DEF Filled

(* What a flush plans to write was received. *)
LEMMA PlanReceived ==
    ASSUME NEW s, SlotOK(s), s.dirty
    PROVE  /\ PlanSpans(s) = s.spans /\ s.spans \subseteq Blocks /\ s.ram \in Bytes
           /\ \A b \in PlanSpans(s) : s.ram[b] # "zero"
BY DEF SlotOK, SlotType, PlanSpans

-----------------------------------------------------------------------------
(* One thread moves *)

Owns(l, j, i, p) ==
    /\ i.at \in {"io", "done"}
    /\ \/ l \in {"through", "complete", "fill"} /\ j.p = p
       \/ l = "evict" /\ j.victim = p

LEMMA OwnsIs == \A q, p : UnlockedWriter(q, p) <=> Owns(pc[q], job[q], io[q], p)
BY DEF UnlockedWriter, Owns, Target

Move(q, l, j, i) ==
    /\ pc' = [pc EXCEPT ![q] = l]
    /\ job' = [job EXCEPT ![q] = j]
    /\ io' = [io EXCEPT ![q] = i]

LockStep(q, i) ==
    \/ lock' = lock /\ i.at # "ret"
    \/ lock \in {Free, q} /\ (i.at = "ret" => lock' = q /\ (i.ok => ~closed))

(* The mover takes a piece nobody owns, and gives up only what it owns. *)
OwnStep(q, l, j, i) ==
    \A p \in Pieces :
        /\ Owns(l, j, i, p) =>
              p \in flushing' /\ (Owns(pc[q], job[q], io[q], p) \/ p \notin flushing)
        /\ p \in flushing /\ p \notin flushing' => Owns(pc[q], job[q], io[q], p)

Local(q, l, j, i) ==
    /\ l \in Labels /\ j \in JobType /\ i \in IoType
    /\ LocalOK(q, l, j, i, filesGen) /\ PlanOK(l, i)
    /\ LockStep(q, i) /\ OwnStep(q, l, j, i)

GoodMove(q) == \E l, j, i : Move(q, l, j, i) /\ Local(q, l, j, i)

(* The others stay where they are. *)
Others(q) ==
    \A r \in Procs : r # q => pc'[r] = pc[r] /\ job'[r] = job[r] /\ io'[r] = io[r]

LEMMA MovesOthers ==
    ASSUME Threads, NEW q \in Procs, NEW l, NEW j, NEW i, Move(q, l, j, i)
    PROVE  Others(q) /\ pc'[q] = l /\ job'[q] = j /\ io'[q] = i
BY DEF Threads, Move, Others

LEMMA ThreadMoves ==
    ASSUME Threads, Plans, LockOK, OwnInv, NEW q \in Procs, GoodMove(q),
           UNCHANGED <<filesGen, phase>>
    PROVE  Threads' /\ Plans' /\ LockOK' /\ OwnInv' /\ Others(q)
<1>1. PICK l, j, i : Move(q, l, j, i) /\ Local(q, l, j, i)
  BY DEF GoodMove
<1>2. Others(q) /\ pc'[q] = l /\ job'[q] = j /\ io'[q] = i
  BY <1>1, MovesOthers
<1>3. /\ l \in Labels /\ j \in JobType /\ i \in IoType
      /\ LocalOK(q, l, j, i, filesGen) /\ PlanOK(l, i)
      /\ LockStep(q, i) /\ OwnStep(q, l, j, i)
  BY <1>1 DEF Local
<1>4. pc' \in [Procs -> Labels] /\ job' \in [Procs -> JobType] /\ io' \in [Procs -> IoType]
  BY <1>1, <1>3 DEF Move, Threads
<1>5. \A r \in Procs : LocalOK(r, pc'[r], job'[r], io'[r], filesGen)
  BY <1>2, <1>3 DEF Others, Threads
<1>6. Threads'
  BY <1>4, <1>5 DEF Threads
<1>7. Plans'
  BY <1>2, <1>3 DEF Plans, Others
<1>8. LockOK'
  <2> SUFFICES ASSUME NEW r \in Procs, io'[r].at = "ret"
               PROVE  lock' = r /\ (io'[r].ok => ~closed')
    BY DEF LockOK
  <2>1. closed' = closed /\ r # Free
    BY WriteBackAssumption DEF closed, Procs
  <2>2. CASE r = q
    BY <2>1, <2>2, <1>2, <1>3 DEF LockStep
  <2>3. CASE r # q
    <3>1. lock = r /\ (io[r].ok => ~closed) /\ io'[r] = io[r]
      BY <2>3, <1>2 DEF LockOK, Others
    <3> QED
      BY <3>1, <2>1, <2>3, <1>3 DEF LockStep
  <2> QED
    BY <2>2, <2>3
<1>9. OwnInv'
  <2> DEFINE O(r, p) == Owns(pc[r], job[r], io[r], p)
             N(r, p) == Owns(pc'[r], job'[r], io'[r], p)
  <2>1. /\ \A p \in Pieces, r, x \in Procs : O(r, p) /\ O(x, p) => r = x
        /\ \A p \in Pieces, r \in Procs : O(r, p) => p \in flushing
    BY OwnsIs DEF OwnInv, OneWriter
  <2>2. \A p \in Pieces, r \in Procs : r # q => (N(r, p) <=> O(r, p))
    BY <1>2 DEF Others
  <2>3. \A p \in Pieces : /\ N(q, p) => p \in flushing' /\ (O(q, p) \/ p \notin flushing)
                          /\ p \in flushing /\ p \notin flushing' => O(q, p)
    BY <1>2, <1>3 DEF OwnStep
  <2> HIDE DEF O, N
  <2>4. /\ \A p \in Pieces, r, x \in Procs : N(r, p) /\ N(x, p) => r = x
        /\ \A p \in Pieces, r \in Procs : N(r, p) => p \in flushing'
    BY <2>1, <2>2, <2>3
  <2>5. \A r, p : UnlockedWriter(r, p)' <=> N(r, p)
    BY DEF UnlockedWriter, Owns, Target, N
  <2> QED
    BY <2>4, <2>5 DEF OwnInv, OneWriter
<1> QED
  BY <1>2, <1>6, <1>7, <1>8, <1>9

(* The torrent sees nothing of what a thread does inside the storage. *)
Steady ==
    /\ UNCHANGED <<status, got, completed, phase>>
    /\ \A r \in Procs : /\ pc'[r] = "idle" <=> pc[r] = "idle"
                        /\ job'[r].p = job[r].p /\ job'[r].b = job[r].b
                        /\ job'[r].complete = job[r].complete

LEMMA SteadyOK ==
    ASSUME TorrentInv, Steady
    PROVE  TorrentInv'
<1>1. Writers \subseteq Procs /\ Hashers \subseteq Procs /\ Refreshers \subseteq Procs
  BY DEF Procs
<1>2. closed' = closed
  BY DEF Steady, closed
<1>3. Missing' /\ OneCopy'
  BY <1>1 DEF TorrentInv, Steady, Missing, OneCopy
<1>4. Claimed' /\ Trusted'
  BY <1>2 DEF TorrentInv, Steady, Claimed, Trusted
<1>5. Hashed' /\ Refreshed'
  BY <1>1, <1>2 DEF TorrentInv, Steady, Hashed, Refreshed
<1> QED
  BY <1>3, <1>4, <1>5 DEF TorrentInv, Steady

LEMMA SlotChanges ==
    ASSUME SlotsOK, NEW p, NEW t, p \in Pieces => SlotOK(t), slot' = [slot EXCEPT ![p] = t]
    PROVE  SlotsOK'
<1>1. slot' \in [Pieces -> SlotType]
  BY DEF SlotsOK, SlotOK
<1>2. \A x \in Pieces : SlotOK(slot'[x])
  BY DEF SlotsOK
<1> QED
  BY <1>1, <1>2 DEF SlotsOK

LEMMA FilesStill ==
    ASSUME FilesOK, UNCHANGED fileVars
    PROVE  FilesOK' /\ KeepsBytes
BY DEF FilesOK, fileVars, KeepsBytes

LEMMA KeepsIf ==
    ASSUME disk \in [Pieces -> [0..MaxSelections -> Bytes]],
           \A x \in Pieces : \A y \in 0..MaxSelections : \A b \in Blocks :
              disk[x][y][b] # "zero" => disk'[x][y][b] # "zero"
    PROVE  KeepsBytes
<1> SUFFICES ASSUME NEW x \in DOMAIN disk, NEW y \in DOMAIN disk[x],
                    NEW b \in DOMAIN disk[x][y], disk[x][y][b] # "zero"
             PROVE  disk'[x][y][b] # "zero"
  BY DEF KeepsBytes
<1>1. x \in Pieces /\ disk[x] \in [0..MaxSelections -> Bytes]
  OBVIOUS
<1>2. y \in 0..MaxSelections /\ disk[x][y] \in [Blocks -> Data]
  BY <1>1 DEF Bytes
<1>3. b \in Blocks
  BY <1>2
<1> QED
  BY <1>1, <1>2, <1>3

(* A write of received blocks to an existing file *)
LEMMA PutOK ==
    ASSUME FilesOK, filesGen \in Nat, UNCHANGED <<handle, filesGen>>,
           NEW p \in Pieces, NEW h \in 0..MaxSelections, NEW S \in SUBSET Blocks,
           NEW d \in Bytes, h <= filesGen, \A b \in S : d[b] # "zero", Put(p, h, S, d)
    PROVE  FilesOK' /\ KeepsBytes
<1> DEFINE new == [b \in Blocks |-> IF b \in S THEN d[b] ELSE disk[p][h][b]]
<1>1. /\ disk \in [Pieces -> [0..MaxSelections -> Bytes]]
      /\ disk[p] \in [0..MaxSelections -> Bytes] /\ disk[p][h] \in Bytes
  BY DEF FilesOK
<1>2. disk' = [disk EXCEPT ![p] = [disk[p] EXCEPT ![h] = new]]
  BY <1>1 DEF Put
<1>3. new \in Bytes /\ \A b \in Blocks : disk[p][h][b] # "zero" => new[b] # "zero"
  BY <1>1 DEF Bytes
<1> HIDE DEF new
<1>4. /\ disk' \in [Pieces -> [0..MaxSelections -> Bytes]]
      /\ \A x \in Pieces, y \in 0..MaxSelections :
            disk'[x][y] = IF x = p /\ y = h THEN new ELSE disk[x][y]
  BY <1>1, <1>2, <1>3
<1>5. \A y \in 0..MaxSelections : y > filesGen => y # h
  <2>1. MaxSelections \in Nat
    BY WriteBackAssumption
  <2> QED
    BY <2>1
<1>6. FilesOK'
  <2>1. \A x \in Pieces, y \in 0..MaxSelections : y > filesGen' => disk'[x][y] = Zeroes
    BY <1>4, <1>5 DEF FilesOK
  <2> QED
    BY <1>4, <2>1 DEF FilesOK
<1>7. \A x \in Pieces : \A y \in 0..MaxSelections : \A b \in Blocks :
         disk[x][y][b] # "zero" => disk'[x][y][b] # "zero"
  BY <1>3, <1>4
<1>8. KeepsBytes
  BY <1>1, <1>7, KeepsIf
<1> QED
  BY <1>6, <1>8

(* Everything the steps inside the storage must keep. *)
Inv == StoreInv /\ OwnInv
Fine == Inv' /\ KeepsBytes /\ Steady

SteadyJob(q, l, j) ==
    /\ l = "idle" <=> pc[q] = "idle"
    /\ j.p = job[q].p /\ j.b = job[q].b /\ j.complete = job[q].complete

torrentVars == <<status, got, completed, phase>>

LEMMA Writes ==
    ASSUME Inv, NEW q \in Procs, NEW l, NEW j, NEW i, Move(q, l, j, i), Local(q, l, j, i),
           SteadyJob(q, l, j), UNCHANGED <<torrentVars, filesGen>>,
           SlotsOK', FilesOK', KeepsBytes
    PROVE  Fine
<1>1. GoodMove(q)
  BY DEF GoodMove
<1>2. UNCHANGED <<filesGen, phase, status, got, completed>>
  BY DEF torrentVars
<1>3. Threads' /\ Plans' /\ LockOK' /\ OwnInv' /\ Others(q)
  BY <1>1, <1>2, ThreadMoves DEF Inv, StoreInv
<1>4. pc'[q] = l /\ job'[q] = j
  BY MovesOthers DEF Inv, StoreInv
<1>5. Steady
  BY <1>2, <1>3, <1>4 DEF Steady, SteadyJob, Others
<1> QED
  BY <1>3, <1>5 DEF Fine, Inv, StoreInv

LEMMA Inside ==
    ASSUME Inv, NEW q \in Procs, NEW l, NEW j, NEW i, Move(q, l, j, i), Local(q, l, j, i),
           SteadyJob(q, l, j), UNCHANGED <<torrentVars, fileVars>>, SlotsOK'
    PROVE  Fine
<1>1. FilesOK' /\ KeepsBytes
  BY FilesStill DEF Inv, StoreInv, fileVars
<1> QED
  BY <1>1, Writes DEF fileVars

LEMMA SlotsStill ==
    ASSUME SlotsOK, UNCHANGED slot
    PROVE  SlotsOK'
BY DEF SlotsOK

(* What is known of a thread before it moves. *)
LEMMA ThreadFacts ==
    ASSUME Inv, NEW q \in Procs
    PROVE  /\ pc[q] \in Labels /\ job[q] \in JobType /\ io[q] \in IoType
           /\ LocalOK(q, pc[q], job[q], io[q], filesGen) /\ PlanOK(pc[q], io[q])
           /\ pc = [pc EXCEPT ![q] = pc[q]] /\ job = [job EXCEPT ![q] = job[q]]
           /\ io = [io EXCEPT ![q] = io[q]]
           /\ q # Free
           /\ filesGen \in Nat
BY WriteBackAssumption DEF Inv, StoreInv, Threads, Plans, Procs

-----------------------------------------------------------------------------
(* The unlocked flush *)

LEMMA FlushWaitOK ==
    ASSUME Inv, NEW q \in Procs, FlushWait(q)
    PROVE  Fine
<1>1. /\ pc[q] \in Labels /\ job[q] \in JobType /\ io[q] \in IoType
      /\ LocalOK(q, pc[q], job[q], io[q], filesGen) /\ PlanOK(pc[q], io[q])
      /\ pc = [pc EXCEPT ![q] = pc[q]] /\ job = [job EXCEPT ![q] = job[q]]
      /\ io = [io EXCEPT ![q] = io[q]]
  BY ThreadFacts
<1>2. /\ UNCHANGED <<pc, job, io, flushing, slot, torrentVars, fileVars>>
      /\ lock \in {Free, q} /\ io[q].at = "want"
  BY DEF FlushWait, storeVars, lifeVars, coreVars, fileVars, torrentVars, Runs, InFlush
<1>3. Move(q, pc[q], job[q], io[q])
  BY <1>1, <1>2 DEF Move
<1>4. Local(q, pc[q], job[q], io[q])
  BY <1>1, <1>2 DEF Local, LockStep, OwnStep, Owns
<1>5. SteadyJob(q, pc[q], job[q])
  BY DEF SteadyJob
<1> QED
  BY <1>2, <1>3, <1>4, <1>5, Inside, SlotsStill DEF Inv, StoreInv

(* A flush has a target, and its thread holds no snapshot of a completion. *)
LEMMA FlushFacts ==
    ASSUME Inv, NEW q \in Procs, pc[q] \in FlushAt
    PROVE  Target(q) \in Pieces /\ ~job[q].complete
BY ThreadFacts DEF LocalOK, FlushAt, Target, JobType

(* Only the plan of a flushing thread changes. *)
LEMMA FlushLocal ==
    ASSUME Inv, NEW q \in Procs, pc[q] \in FlushAt, NEW i \in IoType, i.handle <= filesGen
    PROVE  LocalOK(q, pc[q], job[q], i, filesGen)
<1>1. LocalOK(q, pc[q], job[q], io[q], filesGen) /\ ~job[q].complete
  BY ThreadFacts, FlushFacts
<1> QED
  BY <1>1 DEF LocalOK, FlushAt

LEMMA FlushSkipOK ==
    ASSUME Inv, NEW q \in Procs, FlushSkip(q)
    PROVE  Fine
<1> DEFINE i == [io[q] EXCEPT !.at = "ret", !.ok = ~closed]
<1>1. /\ pc[q] \in Labels /\ job[q] \in JobType /\ io[q] \in IoType
      /\ LocalOK(q, pc[q], job[q], io[q], filesGen)
      /\ pc = [pc EXCEPT ![q] = pc[q]] /\ job = [job EXCEPT ![q] = job[q]]
  BY ThreadFacts
<1>2. /\ UNCHANGED <<pc, job, flushing, slot, torrentVars, fileVars>>
      /\ lock \in {Free, q} /\ lock' = q /\ pc[q] \in FlushAt
      /\ io' = [io EXCEPT ![q] = i]
  BY <1>1 DEF FlushSkip, storeVars, lifeVars, coreVars, fileVars, torrentVars, Runs, InFlush,
         FlushAt
<1>3. i \in IoType /\ i.at = "ret" /\ i.handle = io[q].handle /\ (i.ok => ~closed)
  BY <1>1 DEF IoType
<1> HIDE DEF i
<1>4. Move(q, pc[q], job[q], i)
  BY <1>1, <1>2 DEF Move
<1>5. LocalOK(q, pc[q], job[q], i, filesGen)
  BY <1>1, <1>2, <1>3, FlushLocal DEF LocalOK
<1>6. Local(q, pc[q], job[q], i)
  BY <1>1, <1>2, <1>3, <1>5 DEF Local, LockStep, OwnStep, Owns, PlanOK
<1>7. SteadyJob(q, pc[q], job[q])
  BY DEF SteadyJob
<1> QED
  BY <1>2, <1>4, <1>6, <1>7, Inside, SlotsStill DEF Inv, StoreInv

LEMMA PlanIs ==
    ASSUME Inv, NEW p \in Pieces, NEW S \in SUBSET Blocks, NEW d \in Bytes
    PROVE  /\ Plan(p, S, d) \in IoType /\ Plan(p, S, d).handle <= filesGen
           /\ Plan(p, S, d).spans = S /\ Plan(p, S, d).data = d /\ Plan(p, S, d).at = "io"
           /\ Plan(p, S, d).ok
BY DEF Plan, IoType, Inv, StoreInv, FilesOK, Threads

LEMMA FlushStartOK ==
    ASSUME Inv, NEW q \in Procs, FlushStart(q)
    PROVE  Fine
<1> DEFINE p == Target(q)
           i == Plan(p, PlanSpans(slot[p]), slot[p].ram)
<1>1. /\ pc[q] \in Labels /\ job[q] \in JobType /\ io[q] \in IoType
      /\ pc = [pc EXCEPT ![q] = pc[q]] /\ job = [job EXCEPT ![q] = job[q]]
  BY ThreadFacts
<1>2. /\ UNCHANGED <<pc, job, torrentVars, fileVars>>
      /\ lock \in {Free, q} /\ pc[q] \in FlushAt
      /\ p \notin flushing /\ flushing' = flushing \cup {p}
      /\ slot' = [slot EXCEPT ![p] = Settled(slot[p])] /\ slot[p].dirty
      /\ io' = [io EXCEPT ![q] = i]
  BY DEF FlushStart, lifeVars, coreVars, fileVars, torrentVars, Runs, InFlush, FlushAt,
         NothingToFlush
<1>3. p \in Pieces
  BY <1>2, FlushFacts
<1>4. SlotOK(slot[p])
  BY <1>3 DEF Inv, StoreInv, SlotsOK
<1>5. /\ PlanSpans(slot[p]) \in SUBSET Blocks /\ slot[p].ram \in Bytes
      /\ \A b \in PlanSpans(slot[p]) : slot[p].ram[b] # "zero"
  BY <1>2, <1>4, PlanReceived
<1>6. /\ i \in IoType /\ i.handle <= filesGen /\ i.at = "io"
      /\ \A b \in i.spans : i.data[b] # "zero"
  BY <1>3, <1>5, PlanIs, SMTT(30)
<1>7. Owns(pc[q], job[q], i, p) /\ \A x \in Pieces : Owns(pc[q], job[q], i, x) => x = p
  BY <1>2, <1>6 DEF Owns, Target, FlushAt
<1> HIDE DEF i, p
<1>8. SlotsOK'
  BY <1>2, <1>4, SettledOK, SlotChanges DEF Inv, StoreInv
<1>9. Move(q, pc[q], job[q], i)
  BY <1>1, <1>2 DEF Move
<1>10. LocalOK(q, pc[q], job[q], i, filesGen)
  BY <1>2, <1>6, FlushLocal
<1>11. LockStep(q, i) /\ OwnStep(q, pc[q], job[q], i)
  BY <1>2, <1>6, <1>7 DEF LockStep, OwnStep
<1>12. Local(q, pc[q], job[q], i)
  BY <1>1, <1>6, <1>10, <1>11 DEF Local, PlanOK
<1>13. SteadyJob(q, pc[q], job[q])
  BY DEF SteadyJob
<1> QED
  BY <1>2, <1>8, <1>9, <1>12, <1>13, Inside

(* The write of a plan, whole or in part *)
LEMMA PlanWritten ==
    ASSUME Inv, NEW q \in Procs, NEW p \in Pieces, NEW S, io[q].at = "io",
           pc[q] \in FlushAt \cup {"through"}, S \subseteq io[q].spans,
           Put(p, io[q].handle, S, io[q].data), UNCHANGED <<handle, filesGen>>
    PROVE  FilesOK' /\ KeepsBytes
<1>1. /\ io[q].handle \in 0..MaxSelections /\ io[q].handle <= filesGen /\ filesGen \in Nat
      /\ io[q].data \in Bytes /\ io[q].spans \in SUBSET Blocks
      /\ \A b \in io[q].spans : io[q].data[b] # "zero"
  BY ThreadFacts DEF IoType, LocalOK, PlanOK
<1>2. S \in SUBSET Blocks /\ \A b \in S : io[q].data[b] # "zero"
  BY <1>1
<1>3. FilesOK
  BY DEF Inv, StoreInv
<1> QED
  BY <1>1, <1>2, <1>3, PutOK

LEMMA FlushIoOK ==
    ASSUME Inv, NEW q \in Procs, FlushIo(q)
    PROVE  Fine
<1>1. /\ pc[q] \in Labels /\ job[q] \in JobType /\ io[q] \in IoType
      /\ LocalOK(q, pc[q], job[q], io[q], filesGen) /\ PlanOK(pc[q], io[q])
      /\ pc = [pc EXCEPT ![q] = pc[q]] /\ job = [job EXCEPT ![q] = job[q]]
  BY ThreadFacts
<1>2. /\ UNCHANGED <<pc, job, flushing, slot, torrentVars, handle, filesGen, lock>>
      /\ pc[q] \in FlushAt /\ io[q].at = "io"
      /\ \E S : S \subseteq io[q].spans /\ Put(Target(q), io[q].handle, S, io[q].data)
  BY DEF FlushIo, lifeVars, torrentVars, InFlush, FlushAt
<1>3. FilesOK' /\ KeepsBytes
  BY <1>2, PlanWritten, FlushFacts
<1>4. PICK ok \in BOOLEAN : io' = [io EXCEPT ![q] = [io[q] EXCEPT !.at = "done", !.ok = ok]]
  <2>1. io[q] = [io[q] EXCEPT !.ok = io[q].ok] /\ io[q].ok \in BOOLEAN
    BY <1>1 DEF IoType
  <2>2. [io[q] EXCEPT !.at = "done"] = [io[q] EXCEPT !.at = "done", !.ok = io[q].ok]
    BY <1>1 DEF IoType
  <2>3. \/ io' = [io EXCEPT ![q] = [io[q] EXCEPT !.at = "done"]]
        \/ io' = [io EXCEPT ![q] = [io[q] EXCEPT !.at = "done", !.ok = FALSE]]
    BY DEF FlushIo
  <2> QED
    BY <2>1, <2>2, <2>3
<1> DEFINE i == [io[q] EXCEPT !.at = "done", !.ok = ok]
<1>5. /\ i \in IoType /\ i.at = "done" /\ i.handle = io[q].handle /\ i.spans = io[q].spans
      /\ i.data = io[q].data
  BY <1>1 DEF IoType
<1>6. io' = [io EXCEPT ![q] = i]
  BY <1>4
<1> HIDE DEF i
<1>7. Move(q, pc[q], job[q], i)
  BY <1>1, <1>2, <1>6 DEF Move
<1>8. LocalOK(q, pc[q], job[q], i, filesGen)
  BY <1>1, <1>2, <1>5, FlushLocal DEF LocalOK
<1>9. PlanOK(pc[q], i) /\ LockStep(q, i)
  BY <1>1, <1>2, <1>5 DEF PlanOK, LockStep
<1>10. OwnStep(q, pc[q], job[q], i)
  <2>1. \A x : Owns(pc[q], job[q], i, x) => Owns(pc[q], job[q], io[q], x)
    BY <1>2, <1>5 DEF Owns
  <2>2. \A x \in Pieces : Owns(pc[q], job[q], io[q], x) => x \in flushing
    BY OwnsIs DEF Inv, OwnInv
  <2> QED
    BY <2>1, <2>2, <1>2 DEF OwnStep
<1>11. Local(q, pc[q], job[q], i)
  BY <1>1, <1>5, <1>8, <1>9, <1>10 DEF Local
<1>12. SteadyJob(q, pc[q], job[q])
  BY DEF SteadyJob
<1> QED
  BY <1>2, <1>3, <1>7, <1>11, <1>12, Writes, SlotsStill DEF Inv, StoreInv

LEMMA FlushEndOK ==
    ASSUME Inv, NEW q \in Procs, FlushEnd(q)
    PROVE  Fine
<1> DEFINE p == Target(q)
           again == IF pc[q] = "fill" THEN "ret" ELSE "want"
           failed == closed \/ ~io[q].ok
           moved == filesGen # io[q].gen
           at == IF ~failed /\ (moved \/ Arrived(slot[p]) # {}) THEN again ELSE "ret"
           i == [io[q] EXCEPT !.at = at, !.ok = ~failed]
           t == IF failed \/ moved THEN Settled(slot[p]) ELSE Flushed(slot[p])
<1>1. /\ pc[q] \in Labels /\ job[q] \in JobType /\ io[q] \in IoType
      /\ LocalOK(q, pc[q], job[q], io[q], filesGen) /\ PlanOK(pc[q], io[q])
      /\ pc = [pc EXCEPT ![q] = pc[q]] /\ job = [job EXCEPT ![q] = job[q]]
  BY ThreadFacts
<1>2. /\ UNCHANGED <<pc, job, torrentVars, fileVars>>
      /\ lock \in {Free, q} /\ lock' = q /\ pc[q] \in FlushAt /\ io[q].at = "done"
      /\ flushing' = flushing \ {p}
      /\ slot' = [slot EXCEPT ![p] = t]
      /\ io' = [io EXCEPT ![q] = i]
  BY DEF FlushEnd, lifeVars, coreVars, fileVars, torrentVars, Runs, InFlush, FlushAt
<1>3. p \in Pieces
  BY <1>2, FlushFacts
<1>4. SlotOK(t)
  BY <1>3, SettledOK DEF Inv, StoreInv, SlotsOK
<1>5. Owns(pc[q], job[q], io[q], p)
  BY <1>2 DEF Owns, Target, FlushAt
<1>6. at \in {"want", "ret"} /\ (~failed => ~closed) /\ failed \in BOOLEAN
  BY DEF closed
<1> HIDE DEF t, p, at, failed
<1>7. i \in IoType /\ i.at = at /\ i.handle = io[q].handle /\ i.ok = ~failed
  BY <1>1, <1>6 DEF IoType
<1> HIDE DEF i
<1>8. SlotsOK'
  BY <1>2, <1>4, SlotChanges DEF Inv, StoreInv
<1>9. Move(q, pc[q], job[q], i)
  BY <1>1, <1>2 DEF Move
<1>10. LocalOK(q, pc[q], job[q], i, filesGen)
  BY <1>1, <1>2, <1>7, FlushLocal DEF LocalOK
<1>11. LockStep(q, i) /\ OwnStep(q, pc[q], job[q], i) /\ PlanOK(pc[q], i)
  BY <1>2, <1>5, <1>6, <1>7 DEF LockStep, OwnStep, Owns, PlanOK
<1>12. Local(q, pc[q], job[q], i)
  BY <1>1, <1>7, <1>10, <1>11 DEF Local
<1>13. SteadyJob(q, pc[q], job[q])
  BY DEF SteadyJob
<1> QED
  BY <1>2, <1>8, <1>9, <1>12, <1>13, Inside

-----------------------------------------------------------------------------
(* Writers *)

LEMMA NoIoIs ==
    /\ NoIo \in IoType /\ NoIo.at = "none" /\ NoIo.handle = 0 /\ NoIo.ok
    /\ \A ok \in BOOLEAN, d \in Bytes :
          LET i == [NoIo EXCEPT !.data = d, !.ok = ok]
          IN  i \in IoType /\ i.at = "none" /\ i.handle = 0 /\ i.ok = ok
    /\ \A ok \in BOOLEAN :
          LET i == [NoIo EXCEPT !.ok = ok]
          IN  i \in IoType /\ i.at = "none" /\ i.handle = 0 /\ i.ok = ok
    /\ LET i == [NoIo EXCEPT !.at = "want"]
       IN  i \in IoType /\ i.at = "want" /\ i.handle = 0 /\ i.ok
<1>1. MaxSelections \in Nat
  BY WriteBackAssumption
<1>2. NoIo \in IoType
  BY <1>1, ZeroBytes DEF NoIo, IoType
<1>3. NoIo.at = "none" /\ NoIo.handle = 0 /\ NoIo.ok
  BY DEF NoIo
<1> QED
  BY <1>2, <1>3 DEF IoType

LEMMA NoJobIs == NoJob \in JobType /\ NoJob.p = None /\ NoJob.b = None /\ ~NoJob.complete
<1>1. MaxTries \in Nat
  BY WriteBackAssumption
<1> QED
  BY <1>1 DEF NoJob, JobType, Data

(* A move that neither owns nor returns *)
LEMMA Unowned ==
    ASSUME NEW q \in Procs, NEW l \in Labels, NEW j \in JobType, NEW i \in IoType,
           LocalOK(q, l, j, i, filesGen), i.at # "ret",
           l \in FlushAt \cup {"through"} => i.at \notin {"io", "done"},
           UNCHANGED flushing, lock \in {Free, q} \/ UNCHANGED lock
    PROVE  Local(q, l, j, i)
BY DEF Local, PlanOK, LockStep, OwnStep, Owns, FlushAt

LEMMA WriterFacts ==
    ASSUME Inv, NEW w \in Writers
    PROVE  /\ w \in Procs /\ w \notin Hashers /\ w \notin Refreshers
           /\ pc[w] # "idle" => /\ job[w].p \in Pieces /\ job[w].b \in Blocks
                                /\ job[w].v \in Sent /\ ~job[w].complete
                                /\ pc[w] \in WriterAt
<1>1. w \in Procs /\ w \notin Hashers /\ w \notin Refreshers
  BY WriteBackAssumption DEF Procs
<1> QED
  BY <1>1, ThreadFacts DEF LocalOK, WriterAt

SameBlock(w, j) ==
    j.p = job[w].p /\ j.b = job[w].b /\ j.v = job[w].v /\ j.complete = job[w].complete

LEMMA SameJob == \A w : SameBlock(w, job[w])
BY DEF SameBlock

LEMMA WriterLocal ==
    ASSUME Inv, NEW w \in Writers, pc[w] # "idle", NEW l \in WriterAt, NEW i \in IoType,
           NEW j \in JobType, SameBlock(w, j),
           i.handle <= filesGen, l = "evict" => j.victim \in Pieces,
           l # "evict" => i.at \notin {"want", "ret"}
    PROVE  LocalOK(w, l, j, i, filesGen) /\ l \in Labels
BY WriterFacts DEF LocalOK, WriterAt, FlushAt, Labels, JobType, SameBlock

LEMMA WriterReturns ==
    ASSUME Inv, NEW w \in Writers, pc[w] # "idle", NEW ok \in BOOLEAN, Returns(w, ok),
           UNCHANGED <<job, flushing, torrentVars, fileVars>>, SlotsOK', lock \in {Free, w}
    PROVE  Fine
<1> DEFINE i == [NoIo EXCEPT !.ok = ok]
<1>1. w \in Procs
  BY WriterFacts
<1>2. job[w] \in JobType /\ job = [job EXCEPT ![w] = job[w]] /\ filesGen \in Nat
  BY <1>1, ThreadFacts
<1>3. i \in IoType /\ i.at = "none" /\ i.handle = 0
  BY NoIoIs
<1> HIDE DEF i
<1>4. "ack" \in WriterAt
  BY DEF WriterAt
<1>5. LocalOK(w, "ack", job[w], i, filesGen) /\ "ack" \in Labels
  BY <1>2, <1>3, <1>4, SameJob, WriterLocal
<1>6. Local(w, "ack", job[w], i)
  BY <1>1, <1>2, <1>3, <1>5, Unowned
<1>7. Move(w, "ack", job[w], i)
  BY <1>2 DEF Returns, Goto, Move, i
<1>8. SteadyJob(w, "ack", job[w])
  BY DEF SteadyJob
<1> QED
  BY <1>1, <1>6, <1>7, <1>8, Inside

(* A writer goes to another label, where it has no plan. *)
LEMMA WriterGoes ==
    ASSUME Inv, NEW w \in Writers, pc[w] # "idle",
           NEW l \in WriterAt \ {"evict", "through"}, Goto(w, l),
           NEW i \in IoType, i.at \notin {"want", "ret"}, i.handle <= filesGen, io' = [io EXCEPT ![w] = i],
           UNCHANGED <<job, flushing, torrentVars, fileVars>>, SlotsOK', lock \in {Free, w}
    PROVE  Fine
<1>1. w \in Procs
  BY WriterFacts
<1>2. job[w] \in JobType /\ job = [job EXCEPT ![w] = job[w]]
  BY <1>1, ThreadFacts
<1>3. LocalOK(w, l, job[w], i, filesGen) /\ l \in Labels
  BY <1>2, SameJob, WriterLocal
<1>4. Local(w, l, job[w], i)
  BY <1>1, <1>2, <1>3, Unowned DEF WriterAt, FlushAt
<1>5. Move(w, l, job[w], i)
  BY <1>2 DEF Goto, Move
<1>6. SteadyJob(w, l, job[w])
  BY DEF SteadyJob, WriterAt
<1> QED
  BY <1>1, <1>4, <1>5, <1>6, Inside

LEMMA WriteEnterOK ==
    ASSUME Inv, NEW w \in Writers, WriteEnter(w)
    PROVE  Fine
<1>1. /\ UNCHANGED <<job, flushing, slot, torrentVars, fileVars>> /\ lock \in {Free, w}
      /\ pc[w] = "enter"
  BY DEF WriteEnter, storeVars, lifeVars, coreVars, fileVars, torrentVars, Runs
<1>2. SlotsOK'
  BY <1>1, SlotsStill DEF Inv, StoreInv
<1>3. CASE Returns(w, FALSE)
  BY <1>1, <1>2, <1>3, WriterReturns
<1>4. CASE Goto(w, "write") /\ UNCHANGED io
  <2>1. /\ io[w] \in IoType /\ io[w].at \notin {"want", "ret"} /\ io[w].handle <= filesGen
        /\ io' = [io EXCEPT ![w] = io[w]]
    BY <1>1, <1>4, ThreadFacts, WriterFacts DEF LocalOK, FlushAt
  <2>2. "write" \in WriterAt \ {"evict", "through"}
    BY DEF WriterAt
  <2> QED
    BY <1>1, <1>2, <1>4, <2>1, <2>2, WriterGoes
<1> QED
  BY <1>3, <1>4 DEF WriteEnter

LEMMA WriteWaitOK ==
    ASSUME Inv, NEW w \in Writers, WriteWait(w)
    PROVE  Fine
<1>1. /\ UNCHANGED <<job, io, flushing, slot, torrentVars, fileVars>> /\ lock \in {Free, w}
      /\ pc[w] \in {"write", "await"}
      /\ UNCHANGED pc \/ Goto(w, "await")
  BY DEF WriteWait, storeVars, lifeVars, coreVars, fileVars, torrentVars, Runs
<1>2. SlotsOK'
  BY <1>1, SlotsStill DEF Inv, StoreInv
<1>3. /\ io[w] \in IoType /\ io[w].at \notin {"want", "ret"} /\ io[w].handle <= filesGen
      /\ io' = [io EXCEPT ![w] = io[w]] /\ pc = [pc EXCEPT ![w] = pc[w]]
  BY <1>1, ThreadFacts, WriterFacts DEF LocalOK, FlushAt
<1>4. PICK l \in {"write", "await"} : Goto(w, l)
  BY <1>1, <1>3 DEF Goto
<1>5. l \in WriterAt \ {"evict", "through"}
  BY DEF WriterAt
<1> QED
  BY <1>1, <1>2, <1>3, <1>4, <1>5, WriterGoes

LEMMA WriteClosedOK ==
    ASSUME Inv, NEW w \in Writers, WriteClosed(w)
    PROVE  Fine
<1>1. /\ UNCHANGED <<job, flushing, slot, torrentVars, fileVars>> /\ lock \in {Free, w}
      /\ pc[w] # "idle" /\ Returns(w, FALSE)
  BY DEF WriteClosed, WriteGoes, storeVars, lifeVars, coreVars, fileVars, torrentVars, Runs
<1>2. SlotsOK'
  BY <1>1, SlotsStill DEF Inv, StoreInv
<1> QED
  BY <1>1, <1>2, WriterReturns

(* The block of w is stored in a slot, created when there is none. *)
LEMMA BlockStored ==
    ASSUME Inv, NEW w \in Writers, pc[w] # "idle", NEW sl, NEW created \in BOOLEAN,
           sl \in [Pieces -> SlotType], \A p \in Pieces : SlotOK(sl[p]),
           created = ~sl[job[w].p].here, StoreBlock(w, sl, created)
    PROVE  SlotsOK'
<1> DEFINE p == job[w].p
           s == IF created THEN Created(sl[p]) ELSE sl[p]
           t == Stored(s, job[w].b, job[w].v, p \in flushing)
<1>1. p \in Pieces /\ job[w].b \in Blocks /\ job[w].v \in Sent
  BY WriterFacts
<1>2. SlotOK(s) /\ s.here
  BY <1>1, CreatedOK
<1>3. SlotOK(t)
  <2> DEFINE busy == p \in flushing
  <2>1. busy \in BOOLEAN
    OBVIOUS
  <2> HIDE DEF s, busy
  <2>2. SlotOK(Stored(s, job[w].b, job[w].v, busy))
    BY <1>1, <1>2, <2>1, StoredOK
  <2> QED
    BY <2>2 DEF busy
<1>4. slot' = [sl EXCEPT ![p] = t]
  BY DEF StoreBlock
<1> HIDE DEF t, p
<1>5. slot' \in [Pieces -> SlotType]
  BY <1>3, <1>4 DEF SlotOK
<1>6. \A x \in Pieces : SlotOK(slot'[x])
  BY <1>3, <1>4
<1> QED
  BY <1>5, <1>6 DEF SlotsOK

LEMMA WriteCachedOK ==
    ASSUME Inv, NEW w \in Writers, WriteCached(w)
    PROVE  Fine
<1>1. /\ UNCHANGED <<job, flushing, torrentVars, fileVars>> /\ lock \in {Free, w}
      /\ pc[w] # "idle" /\ Returns(w, TRUE)
  BY DEF WriteCached, WriteGoes, lifeVars, coreVars, fileVars, torrentVars, Runs
<1> DEFINE p == job[w].p
<1>2. slot \in [Pieces -> SlotType] /\ \A x \in Pieces : SlotOK(slot[x])
  BY DEF Inv, StoreInv, SlotsOK
<1>3. p \in Pieces /\ slot[p].here \in BOOLEAN
  BY <1>1, <1>2, WriterFacts DEF SlotType
<1>4. CASE slot[p].here /\ StoreBlock(w, slot, FALSE)
  BY <1>1, <1>2, <1>3, <1>4, BlockStored, WriterReturns
<1>5. CASE ~slot[p].here /\ StoreBlock(w, slot, TRUE)
  BY <1>1, <1>2, <1>3, <1>5, BlockStored, WriterReturns
<1>6. CASE /\ ~slot[p].here
           /\ \E v \in FirstVictims(p) : StoreBlock(w, [slot EXCEPT ![v] = Dropped(@)], TRUE)
  <2>1. PICK v \in FirstVictims(p) : StoreBlock(w, [slot EXCEPT ![v] = Dropped(@)], TRUE)
    BY <1>6
  <2>2. v \in Pieces /\ v # p
    BY DEF FirstVictims, CleanVictims, Cached
  <2> DEFINE sl == [slot EXCEPT ![v] = Dropped(slot[v])]
  <2>3. SlotOK(Dropped(slot[v]))
    BY <1>2, <2>2, DroppedOK
  <2>4. /\ sl \in [Pieces -> SlotType] /\ \A x \in Pieces : SlotOK(sl[x])
        /\ sl[p] = slot[p]
    BY <1>2, <1>3, <2>2, <2>3 DEF SlotOK
  <2>5. StoreBlock(w, sl, TRUE)
    BY <2>1
  <2> HIDE DEF sl, p
  <2>6. SlotsOK'
    BY <1>1, <1>6, <2>4, <2>5, BlockStored DEF p
  <2> QED
    BY <1>1, <2>6, WriterReturns
<1> QED
  BY <1>4, <1>5, <1>6 DEF WriteCached

LEMMA WriteEvictsOK ==
    ASSUME Inv, NEW w \in Writers, WriteEvicts(w)
    PROVE  Fine
<1>1. /\ UNCHANGED <<flushing, slot, torrentVars, fileVars>> /\ lock \in {Free, w}
      /\ pc[w] # "idle" /\ job[w].tries < MaxTries
      /\ io' = [io EXCEPT ![w] = [NoIo EXCEPT !.at = "want"]] /\ Goto(w, "evict")
  BY DEF WriteEvicts, WriteGoes, lifeVars, coreVars, fileVars, torrentVars, Runs
<1>2. PICK v \in DirtyVictims(job[w].p) :
         job' = [job EXCEPT ![w] = [job[w] EXCEPT !.victim = v, !.tries = @ + 1]]
  BY DEF WriteEvicts
<1>3. v \in Pieces
  BY DEF DirtyVictims, Cached
<1> DEFINE j == [job[w] EXCEPT !.victim = v, !.tries = @ + 1]
           i == [NoIo EXCEPT !.at = "want"]
<1>4. w \in Procs
  BY WriterFacts
<1>5. job[w] \in JobType /\ filesGen \in Nat
  BY <1>4, ThreadFacts
<1>6. MaxTries \in Nat
  BY WriteBackAssumption
<1>7. j \in JobType /\ SameBlock(w, j) /\ j.victim = v
  <2>1. job[w].tries \in 0..MaxTries
    BY <1>5 DEF JobType
  <2>2. PICK n : n = job[w].tries + 1
    OBVIOUS
  <2>3. n \in 0..MaxTries
    BY <2>1, <2>2, <1>1, <1>6
  <2>4. j = [job[w] EXCEPT !.victim = v, !.tries = n]
    BY <1>5, <2>2 DEF JobType
  <2> HIDE DEF j
  <2> QED
    BY <1>3, <1>5, <2>3, <2>4 DEF JobType, SameBlock
<1>8. i \in IoType /\ i.at = "want" /\ i.handle = 0
  BY NoIoIs
<1>9. Move(w, "evict", j, i)
  BY <1>1, <1>2 DEF Move, Goto
<1> HIDE DEF i, j
<1>10. "evict" \in WriterAt
  BY DEF WriterAt
<1>11. LocalOK(w, "evict", j, i, filesGen) /\ "evict" \in Labels
  BY <1>1, <1>3, <1>5, <1>7, <1>8, <1>10, WriterLocal
<1>12. Local(w, "evict", j, i)
  BY <1>1, <1>4, <1>7, <1>8, <1>11, Unowned
<1>13. SteadyJob(w, "evict", j)
  BY <1>1, <1>7 DEF SteadyJob, SameBlock
<1>14. SlotsOK'
  BY <1>1, SlotsStill DEF Inv, StoreInv
<1> QED
  BY <1>1, <1>4, <1>9, <1>12, <1>13, <1>14, Inside

LEMMA ThroughBegins ==
    ASSUME Inv, NEW w \in Writers, pc[w] # "idle", NEW j \in JobType, SameBlock(w, j),
           job' = [job EXCEPT ![w] = j], BeginThrough(w), job[w].p \notin flushing,
           ~\E p \in Pieces : Owns(pc[w], job[w], io[w], p),
           UNCHANGED <<torrentVars, fileVars>>, SlotsOK', lock \in {Free, w}
    PROVE  Fine
<1> DEFINE p == job[w].p
           d == [b \in Blocks |-> job[w].v]
           i == Plan(p, {job[w].b}, d)
<1>1. w \in Procs /\ p \in Pieces /\ job[w].b \in Blocks /\ job[w].v \in Sent
  BY WriterFacts
<1>2. d \in Bytes /\ d[job[w].b] # "zero" /\ {job[w].b} \in SUBSET Blocks
  BY <1>1 DEF Bytes, Data, Sent
<1>3. Move(w, "through", j, i) /\ flushing' = flushing \cup {p}
  BY DEF BeginThrough, Move, Goto
<1> HIDE DEF d
<1>4. /\ i \in IoType /\ i.handle <= filesGen /\ i.at = "io"
      /\ \A b \in i.spans : i.data[b] # "zero"
  BY <1>1, <1>2, PlanIs
<1> HIDE DEF i
<1>5. "through" \in WriterAt
  BY DEF WriterAt
<1>6. LocalOK(w, "through", j, i, filesGen) /\ "through" \in Labels
  BY <1>4, <1>5, WriterLocal
<1>7. OwnStep(w, "through", j, i)
  BY <1>3 DEF OwnStep, Owns, SameBlock
<1>8. LockStep(w, i)
  BY <1>4 DEF LockStep
<1>9. Local(w, "through", j, i)
  BY <1>4, <1>6, <1>7, <1>8 DEF Local, PlanOK
<1>10. SteadyJob(w, "through", j)
  BY DEF SteadyJob, SameBlock
<1> QED
  BY <1>1, <1>3, <1>9, <1>10, Inside

LEMMA WriteThroughOK ==
    ASSUME Inv, NEW w \in Writers, WriteThrough(w)
    PROVE  Fine
<1>1. /\ UNCHANGED <<job, slot, torrentVars, fileVars>> /\ lock \in {Free, w}
      /\ pc[w] \in {"write", "await"} /\ BeginThrough(w) /\ job[w].p \notin flushing
  BY DEF WriteThrough, WriteGoes, NeedsFlush, AwaitsOwner, lifeVars, coreVars, fileVars,
         torrentVars, Runs
<1>2. w \in Procs
  BY WriterFacts
<1>3. job[w] \in JobType /\ job' = [job EXCEPT ![w] = job[w]]
  BY <1>1, <1>2, ThreadFacts
<1>4. ~\E p \in Pieces : Owns(pc[w], job[w], io[w], p)
  BY <1>1 DEF Owns
<1>5. SlotsOK'
  BY <1>1, SlotsStill DEF Inv, StoreInv
<1> QED
  BY <1>1, <1>3, <1>4, <1>5, SameJob, ThroughBegins

LEMMA EvictReturnOK ==
    ASSUME Inv, NEW w \in Writers, EvictReturn(w)
    PROVE  Fine
<1> DEFINE v == job[w].victim
           j == [job[w] EXCEPT !.victim = None]
<1>1. /\ UNCHANGED <<torrentVars, fileVars>> /\ lock \in {Free, w}
      /\ pc[w] = "evict" /\ io[w].at = "ret"
      /\ job' = [job EXCEPT ![w] = j]
      /\ slot' = slot \/ slot' = [slot EXCEPT ![v] = Dropped(slot[v])]
  BY DEF EvictReturn, lifeVars, coreVars, fileVars, torrentVars, Runs
<1>2. w \in Procs /\ pc[w] # "idle"
  BY <1>1, WriterFacts
<1>3. job[w] \in JobType /\ filesGen \in Nat
  BY <1>2, ThreadFacts
<1>4. j \in JobType /\ SameBlock(w, j)
  BY <1>3 DEF JobType, SameBlock
<1> HIDE DEF j
<1>5. SlotsOK'
  <2>1. SlotsOK /\ (v \in Pieces => SlotOK(Dropped(slot[v])))
    BY DroppedOK DEF Inv, StoreInv, SlotsOK
  <2> QED
    BY <1>1, <2>1, SlotChanges, SlotsStill
<1>6. ~\E p \in Pieces : Owns(pc[w], job[w], io[w], p)
  BY <1>1 DEF Owns
<1>7. ASSUME NEW l \in {"ack", "write"}, Goto(w, l), NEW i \in IoType, i.at = "none",
             i.handle = 0, io' = [io EXCEPT ![w] = i], UNCHANGED flushing
      PROVE  Fine
  <2>1. l \in WriterAt \ {"evict", "through"}
    BY DEF WriterAt
  <2>2. LocalOK(w, l, j, i, filesGen) /\ l \in Labels
    BY <1>2, <1>3, <1>4, <1>7, <2>1, WriterLocal
  <2>3. Local(w, l, j, i)
    BY <1>1, <1>2, <1>4, <1>7, <2>2, Unowned
  <2>4. Move(w, l, j, i)
    BY <1>1, <1>7 DEF Move, Goto
  <2>5. SteadyJob(w, l, j)
    BY <1>2, <1>4 DEF SteadyJob, SameBlock
  <2> QED
    BY <1>1, <1>2, <1>5, <2>3, <2>4, <2>5, Inside
<1>8. CASE Returns(w, FALSE) /\ UNCHANGED flushing
  <2> DEFINE i == [NoIo EXCEPT !.ok = FALSE]
  <2>1. i \in IoType /\ i.at = "none" /\ i.handle = 0
    BY NoIoIs
  <2>2. io' = [io EXCEPT ![w] = i] /\ Goto(w, "ack")
    BY <1>8 DEF Returns
  <2> HIDE DEF i
  <2> QED
    BY <2>1, <2>2, <1>7, <1>8
<1>9. CASE Goto(w, "write") /\ io' = [io EXCEPT ![w] = NoIo] /\ UNCHANGED flushing
  BY <1>9, <1>7, NoIoIs
<1>10. CASE job[w].p \notin flushing /\ BeginThrough(w)
  BY <1>10, <1>1, <1>2, <1>4, <1>5, <1>6, ThroughBegins
<1> QED
  BY <1>8, <1>9, <1>10 DEF EvictReturn

LEMMA ThroughIoOK ==
    ASSUME Inv, NEW w \in Writers, ThroughIo(w)
    PROVE  Fine
<1>0. w \in Procs
  BY WriterFacts
<1>1. /\ pc[w] \in Labels /\ job[w] \in JobType /\ io[w] \in IoType
      /\ LocalOK(w, pc[w], job[w], io[w], filesGen) /\ PlanOK(pc[w], io[w])
      /\ pc = [pc EXCEPT ![w] = pc[w]] /\ job = [job EXCEPT ![w] = job[w]]
  BY <1>0, ThreadFacts
<1>2. /\ UNCHANGED <<pc, job, flushing, slot, torrentVars, handle, filesGen, lock>>
      /\ pc[w] = "through" /\ io[w].at = "io"
      /\ \/ Put(job[w].p, io[w].handle, io[w].spans, io[w].data)
         \/ UNCHANGED disk
  BY DEF ThroughIo, lifeVars, torrentVars
<1>3. FilesOK' /\ KeepsBytes
  <2>1. CASE Put(job[w].p, io[w].handle, io[w].spans, io[w].data)
    BY <1>0, <1>2, <2>1, PlanWritten, WriterFacts
  <2>2. CASE UNCHANGED disk
    BY <1>2, <2>2, FilesStill DEF fileVars, Inv, StoreInv
  <2> QED
    BY <1>2, <2>1, <2>2
<1>4. PICK ok \in BOOLEAN : io' = [io EXCEPT ![w] = [io[w] EXCEPT !.at = "done", !.ok = ok]]
  <2>1. io[w].ok \in BOOLEAN
    BY <1>1 DEF IoType
  <2>2. [io[w] EXCEPT !.at = "done"] = [io[w] EXCEPT !.at = "done", !.ok = io[w].ok]
    BY <1>1 DEF IoType
  <2>3. \/ io' = [io EXCEPT ![w] = [io[w] EXCEPT !.at = "done"]]
        \/ io' = [io EXCEPT ![w] = [io[w] EXCEPT !.at = "done", !.ok = FALSE]]
    BY DEF ThroughIo
  <2> QED
    BY <2>1, <2>2, <2>3
<1> DEFINE i == [io[w] EXCEPT !.at = "done", !.ok = ok]
<1>5. /\ i \in IoType /\ i.at = "done" /\ i.handle = io[w].handle /\ i.spans = io[w].spans
      /\ i.data = io[w].data
  BY <1>1 DEF IoType
<1>6. io' = [io EXCEPT ![w] = i]
  BY <1>4
<1> HIDE DEF i
<1>7. Move(w, pc[w], job[w], i)
  BY <1>1, <1>2, <1>6 DEF Move
<1>8. LocalOK(w, pc[w], job[w], i, filesGen)
  BY <1>1, <1>2, <1>5 DEF LocalOK
<1>9. PlanOK(pc[w], i) /\ LockStep(w, i)
  BY <1>1, <1>2, <1>5 DEF PlanOK, LockStep
<1>10. OwnStep(w, pc[w], job[w], i)
  <2>1. \A x : Owns(pc[w], job[w], i, x) => Owns(pc[w], job[w], io[w], x)
    BY <1>2, <1>5 DEF Owns
  <2>2. \A x \in Pieces : Owns(pc[w], job[w], io[w], x) => x \in flushing
    BY <1>0, OwnsIs DEF Inv, OwnInv
  <2> QED
    BY <2>1, <2>2, <1>2 DEF OwnStep
<1>11. Local(w, pc[w], job[w], i)
  BY <1>1, <1>5, <1>8, <1>9, <1>10 DEF Local
<1>12. SteadyJob(w, pc[w], job[w])
  BY DEF SteadyJob
<1> QED
  BY <1>0, <1>2, <1>3, <1>7, <1>11, <1>12, Writes, SlotsStill DEF Inv, StoreInv

LEMMA ThroughEndOK ==
    ASSUME Inv, NEW w \in Writers, ThroughEnd(w)
    PROVE  Fine
<1>0. w \in Procs
  BY WriterFacts
<1>1. /\ pc[w] \in Labels /\ job[w] \in JobType /\ io[w] \in IoType /\ filesGen \in Nat
      /\ LocalOK(w, pc[w], job[w], io[w], filesGen) /\ PlanOK(pc[w], io[w])
      /\ pc = [pc EXCEPT ![w] = pc[w]] /\ job = [job EXCEPT ![w] = job[w]]
  BY <1>0, ThreadFacts
<1>2. /\ UNCHANGED <<job, slot, torrentVars, fileVars>> /\ lock \in {Free, w}
      /\ pc[w] = "through" /\ io[w].at = "done"
  BY DEF ThroughEnd, lifeVars, coreVars, fileVars, torrentVars, Runs
<1>3. /\ job[w].p \in Pieces /\ Owns(pc[w], job[w], io[w], job[w].p)
  BY <1>2, WriterFacts DEF Owns
<1>4. SlotsOK'
  BY <1>2, SlotsStill DEF Inv, StoreInv
<1>5. CASE /\ io' = [io EXCEPT ![w] = Plan(job[w].p, io[w].spans, io[w].data)]
           /\ UNCHANGED <<flushing, pc>>
  <2> DEFINE i == Plan(job[w].p, io[w].spans, io[w].data)
  <2>1. io[w].spans \in SUBSET Blocks /\ io[w].data \in Bytes
    BY <1>1 DEF IoType
  <2>2. /\ i \in IoType /\ i.handle <= filesGen /\ i.at = "io" /\ i.spans = io[w].spans
        /\ i.data = io[w].data
    BY <1>3, <2>1, PlanIs
  <2>3. Move(w, pc[w], job[w], i)
    BY <1>1, <1>2, <1>5 DEF Move
  <2> HIDE DEF i
  <2>4. LocalOK(w, pc[w], job[w], i, filesGen)
    BY <1>1, <1>2, <2>2 DEF LocalOK
  <2>5. PlanOK(pc[w], i) /\ LockStep(w, i)
    BY <1>1, <1>2, <2>2 DEF PlanOK, LockStep
  <2>6. OwnStep(w, pc[w], job[w], i)
    <3>1. \A x : Owns(pc[w], job[w], i, x) => Owns(pc[w], job[w], io[w], x)
      BY <1>2, <2>2 DEF Owns
    <3>2. \A x \in Pieces : Owns(pc[w], job[w], io[w], x) => x \in flushing
      BY <1>0, OwnsIs DEF Inv, OwnInv
    <3> QED
      BY <3>1, <3>2, <1>5 DEF OwnStep
  <2>7. Local(w, pc[w], job[w], i)
    BY <1>1, <2>2, <2>4, <2>5, <2>6 DEF Local
  <2>8. SteadyJob(w, pc[w], job[w])
    BY DEF SteadyJob
  <2> QED
    BY <1>0, <1>2, <1>4, <2>3, <2>7, <2>8, Inside
<1>6. CASE flushing' = flushing \ {job[w].p} /\ Returns(w, ~closed /\ io[w].ok)
  <2> DEFINE ok == ~closed /\ io[w].ok
             i == [NoIo EXCEPT !.ok = ok]
  <2>1. ok \in BOOLEAN
    BY DEF closed
  <2>2. Move(w, "ack", job[w], i)
    BY <1>1, <1>2, <1>6 DEF Returns, Goto, Move
  <2> HIDE DEF ok
  <2>3. i \in IoType /\ i.at = "none" /\ i.handle = 0
    BY <2>1, NoIoIs
  <2> HIDE DEF i
  <2>4. "ack" \in WriterAt
    BY DEF WriterAt
  <2>5. LocalOK(w, "ack", job[w], i, filesGen) /\ "ack" \in Labels
    BY <1>1, <1>2, <2>3, <2>4, SameJob, WriterLocal
  <2>6. OwnStep(w, "ack", job[w], i) /\ LockStep(w, i) /\ PlanOK("ack", i)
    BY <1>2, <1>3, <1>6, <2>3 DEF OwnStep, Owns, LockStep, PlanOK
  <2>7. Local(w, "ack", job[w], i)
    BY <1>1, <2>3, <2>5, <2>6 DEF Local
  <2>8. SteadyJob(w, "ack", job[w])
    BY <1>2 DEF SteadyJob
  <2> QED
    BY <1>0, <1>2, <1>4, <2>2, <2>7, <2>8, Inside
<1> QED
  BY <1>5, <1>6 DEF ThroughEnd

-----------------------------------------------------------------------------
(* Hashers and refreshers read *)

Readers == Hashers \cup Refreshers

LEMMA ReaderFacts ==
    ASSUME Inv, NEW q \in Readers
    PROVE  q \in Procs /\ q \notin Writers
BY WriteBackAssumption DEF Procs, Readers

(* A reader that is not settling goes on with its piece. *)
LEMMA ReaderGoes ==
    ASSUME Inv, NEW q \in Readers, pc[q] \in ReaderAt \cup {"verdict"},
           NEW l \in ReaderAt \cup {AfterRead(q)} \cup {"complete"},
           l = "complete" => q \in Hashers,
           Goto(q, l), NEW i \in IoType, i.handle <= filesGen, io' = [io EXCEPT ![q] = i],
           i.at # "ret", i.at = "want" => l \in FlushAt,
           l \in FlushAt => i.at = "want",
           UNCHANGED <<job, flushing, torrentVars, fileVars>>, SlotsOK',
           lock \in {Free, q} \/ UNCHANGED lock
    PROVE  Fine
<1>1. q \in Procs /\ q \notin Writers
  BY ReaderFacts
<1>2. /\ job[q] \in JobType /\ job = [job EXCEPT ![q] = job[q]]
      /\ LocalOK(q, pc[q], job[q], io[q], filesGen)
  BY <1>1, ThreadFacts
<1>3. job[q].p \in Pieces /\ ~job[q].complete /\ pc[q] # "idle"
  BY <1>2 DEF LocalOK, ReaderAt, JobType
<1>4. l \in Labels /\ l # "idle" /\ l \notin WriterAt
  BY DEF ReaderAt, AfterRead, Labels, WriterAt
<1>5. LocalOK(q, l, job[q], i, filesGen)
  <2>1. q \in Hashers => l \in {"idle", "verdict", "complete"} \cup ReaderAt
    BY DEF AfterRead
  <2>2. q \in Refreshers => l \in {"idle", "settle"} \cup ReaderAt
    BY WriteBackAssumption DEF AfterRead, Readers
  <2> QED
    BY <1>1, <1>3, <1>4, <2>1, <2>2 DEF LocalOK, WriterAt
<1>6. l # "through"
  BY <1>4 DEF WriterAt
<1>7. Local(q, l, job[q], i)
  BY <1>1, <1>2, <1>4, <1>5, <1>6, Unowned
<1>8. Move(q, l, job[q], i)
  BY <1>2 DEF Move, Goto
<1>9. SteadyJob(q, l, job[q])
  BY <1>3, <1>4 DEF SteadyJob
<1> QED
  BY <1>1, <1>7, <1>8, <1>9, Inside

LEMMA ReadDoneOK ==
    ASSUME Inv, NEW q \in Readers, pc[q] \in ReaderAt, NEW d \in Bytes, NEW ok \in BOOLEAN,
           ReadDone(q, d, ok),
           UNCHANGED <<job, flushing, torrentVars, fileVars>>, SlotsOK', lock \in {Free, q}
    PROVE  Fine
<1> DEFINE i == [NoIo EXCEPT !.data = d, !.ok = ok]
<1>1. i \in IoType /\ i.at = "none" /\ i.handle = 0
  BY NoIoIs
<1>2. io' = [io EXCEPT ![q] = i] /\ Goto(q, AfterRead(q))
  BY DEF ReadDone
<1>3. AfterRead(q) \notin FlushAt /\ AfterRead(q) # "complete" /\ filesGen \in Nat
  BY ThreadFacts, ReaderFacts DEF AfterRead, FlushAt
<1> HIDE DEF i
<1>4. PICK l : l = AfterRead(q)
  OBVIOUS
<1>5. /\ l \in ReaderAt \cup {AfterRead(q)} \cup {"complete"} /\ Goto(q, l)
      /\ l # "complete" /\ l \notin FlushAt
      /\ pc[q] \in ReaderAt \cup {"verdict"} /\ i.handle <= filesGen
  BY <1>1, <1>2, <1>3, <1>4
<1> QED
  BY <1>1, <1>2, <1>5, ReaderGoes

(* A plan to read the files of the piece *)
LEMMA ReadPlanned ==
    ASSUME Inv, NEW q \in Readers, pc[q] \in ReaderAt, NEW l \in {"load", "direct"}, Goto(q, l),
           io' = [io EXCEPT ![q] = Plan(job[q].p, {}, Zeroes)],
           UNCHANGED <<job, flushing, torrentVars, fileVars>>, SlotsOK', lock \in {Free, q}
    PROVE  Fine
<1> DEFINE i == Plan(job[q].p, {}, Zeroes)
<1>1. q \in Procs
  BY ReaderFacts
<1>2. job[q].p \in Pieces
  BY <1>1, ThreadFacts DEF LocalOK, ReaderAt
<1>3. i \in IoType /\ i.handle <= filesGen /\ i.at = "io"
  BY <1>2, PlanIs, ZeroBytes
<1> HIDE DEF i
<1>4. l \in ReaderAt /\ l \notin FlushAt
  BY DEF ReaderAt, FlushAt
<1> QED
  BY <1>3, <1>4, ReaderGoes DEF i, FlushAt

LEMMA CopyOrPlanOK ==
    ASSUME Inv, NEW q \in Readers, pc[q] \in ReaderAt, CopyOrPlan(q),
           UNCHANGED <<job, flushing, torrentVars, fileVars>>, SlotsOK', lock \in {Free, q}
    PROVE  Fine
<1>1. job[q].p \in Pieces
  BY ThreadFacts, ReaderFacts DEF LocalOK, ReaderAt
<1>2. slot[job[q].p].ram \in Bytes
  BY <1>1 DEF Inv, StoreInv, SlotsOK, SlotType
<1>3. CASE ReadDone(q, slot[job[q].p].ram, TRUE)
  BY <1>2, <1>3, ReadDoneOK
<1>4. CASE Goto(q, "direct") /\ io' = [io EXCEPT ![q] = Plan(job[q].p, {}, Zeroes)]
  BY <1>4, ReadPlanned
<1> QED
  BY <1>3, <1>4 DEF CopyOrPlan

LEMMA ReadStartOK ==
    ASSUME Inv, NEW q \in Readers, ReadStart(q)
    PROVE  Fine
<1>1. /\ UNCHANGED <<job, flushing, slot, torrentVars, fileVars>> /\ lock \in {Free, q}
      /\ pc[q] \in ReaderAt
  BY DEF ReadStart, storeVars, lifeVars, coreVars, fileVars, torrentVars, Runs, ReaderAt
<1>2. SlotsOK'
  BY <1>1, SlotsStill DEF Inv, StoreInv
<1>3. CASE ReadDone(q, Zeroes, FALSE)
  BY <1>1, <1>2, <1>3, ReadDoneOK, ZeroBytes
<1>4. CASE CopyOrPlan(q)
  BY <1>1, <1>2, <1>4, CopyOrPlanOK
<1>5. CASE io' = [io EXCEPT ![q] = [NoIo EXCEPT !.at = "want"]] /\ Goto(q, "fill")
  <2> DEFINE i == [NoIo EXCEPT !.at = "want"]
  <2>1. i \in IoType /\ i.at = "want" /\ i.handle = 0
    BY NoIoIs
  <2>2. io' = [io EXCEPT ![q] = i]
    BY <1>5
  <2> HIDE DEF i
  <2>3. "fill" \in ReaderAt /\ "fill" \in FlushAt /\ i.handle <= filesGen
    BY <2>1, ThreadFacts, ReaderFacts DEF ReaderAt, FlushAt
  <2> QED
    BY <1>1, <1>2, <1>5, <2>1, <2>2, <2>3, ReaderGoes
<1> QED
  BY <1>3, <1>4, <1>5 DEF ReadStart

LEMMA FillReturnOK ==
    ASSUME Inv, NEW q \in Readers, FillReturn(q)
    PROVE  Fine
<1>1. /\ UNCHANGED <<job, flushing, slot, torrentVars, fileVars>> /\ lock \in {Free, q}
      /\ pc[q] \in ReaderAt
  BY DEF FillReturn, storeVars, lifeVars, coreVars, fileVars, torrentVars, Runs, ReaderAt
<1>2. SlotsOK'
  BY <1>1, SlotsStill DEF Inv, StoreInv
<1>3. CASE ReadDone(q, Zeroes, FALSE)
  BY <1>1, <1>2, <1>3, ReadDoneOK, ZeroBytes
<1>4. CASE CopyOrPlan(q)
  BY <1>1, <1>2, <1>4, CopyOrPlanOK
<1>5. CASE io' = [io EXCEPT ![q] = Plan(job[q].p, {}, Zeroes)] /\ Goto(q, "load")
  BY <1>1, <1>2, <1>5, ReadPlanned
<1> QED
  BY <1>3, <1>4, <1>5 DEF FillReturn

LEMMA ReadIoOK ==
    ASSUME Inv, NEW q \in Readers, ReadIo(q)
    PROVE  Fine
<1>0. q \in Procs
  BY ReaderFacts
<1>1. /\ UNCHANGED <<pc, job, flushing, slot, torrentVars, fileVars, lock>>
      /\ pc[q] \in {"load", "direct"}
  BY DEF ReadIo, storeVars, lifeVars, fileVars, torrentVars
<1>2. /\ io[q] \in IoType /\ io[q].handle <= filesGen /\ pc = [pc EXCEPT ![q] = pc[q]]
      /\ job[q].p \in Pieces
  BY <1>0, <1>1, ThreadFacts DEF LocalOK
<1>3. disk[job[q].p][io[q].handle] \in Bytes
  BY <1>2, ZenonT(60) DEF Inv, StoreInv, FilesOK, IoType
<1>4. SlotsOK'
  BY <1>1, SlotsStill DEF Inv, StoreInv
<1>5. PICK i \in IoType : /\ i.handle = io[q].handle /\ i.at = "done"
                          /\ io' = [io EXCEPT ![q] = i]
  <2> DEFINE d == disk[job[q].p][io[q].handle]
             a == [io[q] EXCEPT !.at = "done", !.data = d]
             b == [io[q] EXCEPT !.at = "done", !.ok = FALSE]
  <2>1. io' = [io EXCEPT ![q] = a] \/ io' = [io EXCEPT ![q] = b]
    BY DEF ReadIo
  <2> HIDE DEF d
  <2>2. /\ a \in IoType /\ a.handle = io[q].handle /\ a.at = "done"
        /\ b \in IoType /\ b.handle = io[q].handle /\ b.at = "done"
    BY <1>2, <1>3 DEF IoType, d
  <2> HIDE DEF a, b
  <2> QED
    BY <2>1, <2>2
<1>6. PICK l : l = pc[q]
  OBVIOUS
<1>7. l \in ReaderAt /\ l \notin FlushAt /\ Goto(q, l) /\ l # "complete"
  BY <1>1, <1>2, <1>6 DEF ReaderAt, FlushAt, Goto
<1> QED
  BY <1>1, <1>2, <1>4, <1>5, <1>6, <1>7, ReaderGoes

LEMMA DirectEndOK ==
    ASSUME Inv, NEW q \in Readers, DirectEnd(q)
    PROVE  Fine
<1>0. q \in Procs
  BY ReaderFacts
<1>1. /\ UNCHANGED <<job, flushing, slot, torrentVars, fileVars, lock>>
      /\ pc[q] \in ReaderAt /\ Goto(q, AfterRead(q))
  BY DEF DirectEnd, storeVars, lifeVars, coreVars, fileVars, torrentVars, ReaderAt
<1>2. SlotsOK'
  BY <1>1, SlotsStill DEF Inv, StoreInv
<1> DEFINE i == [NoIo EXCEPT !.data = io[q].data, !.ok = io[q].ok]
<1>3. io[q].data \in Bytes /\ io[q].ok \in BOOLEAN /\ filesGen \in Nat
  BY <1>0, ThreadFacts DEF IoType
<1>4. i \in IoType /\ i.at = "none" /\ i.handle = 0
  BY <1>3, NoIoIs
<1>5. io' = [io EXCEPT ![q] = i]
  BY DEF DirectEnd
<1> HIDE DEF i
<1>6. PICK l : l = AfterRead(q)
  OBVIOUS
<1>7. l \notin FlushAt /\ l # "complete" /\ i.handle <= filesGen
  BY <1>3, <1>4, <1>6 DEF AfterRead, FlushAt
<1> QED
  BY <1>1, <1>2, <1>4, <1>5, <1>6, <1>7, ReaderGoes

LEMMA OverlayOK ==
    ASSUME Inv, NEW q \in Readers, Overlay(q)
    PROVE  Fine
<1>0. q \in Procs
  BY ReaderFacts
<1>1. /\ UNCHANGED <<job, flushing, torrentVars, fileVars>> /\ lock \in {Free, q}
      /\ pc[q] = "load" /\ io[q].at = "done"
  BY DEF Overlay, lifeVars, coreVars, fileVars, torrentVars, Runs
<1>2. pc[q] \in ReaderAt
  BY <1>1 DEF ReaderAt
<1>3. io[q] \in IoType /\ io[q].handle <= filesGen /\ job[q].p \in Pieces
      /\ io = [io EXCEPT ![q] = io[q]] /\ io[q].data \in Bytes
  BY <1>0, <1>1, ThreadFacts DEF LocalOK, IoType
<1>4. CASE ReadDone(q, Zeroes, FALSE) /\ UNCHANGED slot
  <2>1. SlotsOK'
    BY <1>4, SlotsStill DEF Inv, StoreInv
  <2> QED
    BY <1>1, <1>2, <1>4, <2>1, ReadDoneOK, ZeroBytes
<1>5. CASE /\ slot' = [slot EXCEPT ![job[q].p] = Filled(slot[job[q].p], io[q].data)]
           /\ Goto(q, "copy") /\ UNCHANGED io
  <2>1. SlotsOK
    BY DEF Inv, StoreInv
  <2>2. SlotOK(Filled(slot[job[q].p], io[q].data))
    BY <1>3, <2>1, FilledOK DEF SlotsOK
  <2>3. SlotsOK'
    BY <1>5, <2>1, <2>2, SlotChanges
  <2>4. "copy" \in ReaderAt /\ "copy" \notin FlushAt
    BY DEF ReaderAt, FlushAt
  <2>5. io' = [io EXCEPT ![q] = io[q]]
    BY <1>3, <1>5
  <2> QED
    BY <1>1, <1>2, <1>3, <1>5, <2>3, <2>4, <2>5, ReaderGoes
<1> QED
  BY <1>4, <1>5 DEF Overlay

LEMMA CopyAfterFillOK ==
    ASSUME Inv, NEW q \in Readers, CopyAfterFill(q)
    PROVE  Fine
<1>1. /\ UNCHANGED <<job, flushing, slot, torrentVars, fileVars>> /\ lock \in {Free, q}
      /\ pc[q] \in ReaderAt /\ CopyOrPlan(q)
  BY DEF CopyAfterFill, storeVars, lifeVars, coreVars, fileVars, torrentVars, Runs, ReaderAt
<1>2. SlotsOK'
  BY <1>1, SlotsStill DEF Inv, StoreInv
<1> QED
  BY <1>1, <1>2, CopyOrPlanOK

LEMMA BeginCompleteOK ==
    ASSUME Inv, NEW h \in Hashers, BeginComplete(h)
    PROVE  Fine
<1>0. h \in Readers
  BY DEF Readers
<1>1. /\ UNCHANGED <<job, flushing, slot, torrentVars, fileVars>> /\ lock \in {Free, h}
      /\ pc[h] = "verdict" /\ Goto(h, "complete")
  BY DEF BeginComplete, storeVars, lifeVars, coreVars, fileVars, torrentVars, Runs
<1>2. SlotsOK'
  BY <1>1, SlotsStill DEF Inv, StoreInv
<1> DEFINE i == [NoIo EXCEPT !.at = "want"]
<1>3. i \in IoType /\ i.at = "want" /\ i.handle = 0
  BY NoIoIs
<1>4. io' = [io EXCEPT ![h] = i]
  BY DEF BeginComplete
<1> HIDE DEF i
<1>5. "complete" \in FlushAt /\ i.handle <= filesGen
  BY <1>0, <1>3, ThreadFacts, ReaderFacts DEF FlushAt
<1> QED
  BY <1>0, <1>1, <1>2, <1>3, <1>4, <1>5, ReaderGoes

-----------------------------------------------------------------------------
(* Threads start and finish *)

LEMMA Turns ==
    ASSUME Inv, NEW q \in Procs, NEW l, NEW j, NEW i, Move(q, l, j, i), Local(q, l, j, i),
           UNCHANGED <<fileVars, phase>>, SlotsOK'
    PROVE  Inv' /\ KeepsBytes /\ Others(q) /\ pc'[q] = l /\ job'[q] = j
<1>1. FilesOK' /\ KeepsBytes
  BY FilesStill DEF Inv, StoreInv, fileVars
<1>2. GoodMove(q)
  BY DEF GoodMove
<1>3. Threads' /\ Plans' /\ LockOK' /\ OwnInv' /\ Others(q)
  BY <1>2, ThreadMoves DEF Inv, StoreInv, fileVars
<1>4. pc'[q] = l /\ job'[q] = j
  BY MovesOthers DEF Inv, StoreInv
<1> QED
  BY <1>1, <1>3, <1>4 DEF Inv, StoreInv

LEMMA NoPlan ==
    ASSUME Inv, NEW q \in Procs
    PROVE  NoIo.at = "none" /\ NoIo.ok /\ NoIo.handle <= filesGen
<1>1. filesGen \in Nat
  BY ThreadFacts
<1> QED
  BY <1>1 DEF NoIo

LEMMA GoesIdle ==
    ASSUME Inv, NEW q \in Procs, job' = [job EXCEPT ![q] = NoJob],
           io' = [io EXCEPT ![q] = NoIo], Goto(q, "idle"),
           UNCHANGED <<flushing, fileVars, phase>>, SlotsOK',
           lock \in {Free, q} \/ UNCHANGED lock
    PROVE  Inv' /\ KeepsBytes /\ Others(q) /\ pc'[q] = "idle" /\ job'[q] = NoJob
<1>1. Move(q, "idle", NoJob, NoIo)
  BY DEF Move, Goto
<1>2. LocalOK(q, "idle", NoJob, NoIo, filesGen) /\ "idle" \in Labels
  <2>1. NoIo.at = "none" /\ NoIo.ok /\ NoIo.handle <= filesGen
    BY NoPlan
  <2>2. ~NoJob.complete
    BY NoJobIs
  <2> QED
    BY <2>1, <2>2 DEF LocalOK, WriterAt, Labels
<1>3. Local(q, "idle", NoJob, NoIo)
  BY <1>2, NoIoIs, NoJobIs, Unowned DEF FlushAt
<1> QED
  BY <1>1, <1>3, Turns

LEMMA Starts ==
    ASSUME Inv, NEW q \in Procs, pc[q] = "idle", NEW l \in {"enter", "read", "settle"},
           NEW j \in JobType, job' = [job EXCEPT ![q] = j], Goto(q, l),
           LocalOK(q, l, j, NoIo, filesGen),
           UNCHANGED <<io, flushing, slot, fileVars, phase, lock>>
    PROVE  Inv' /\ KeepsBytes /\ Others(q) /\ pc'[q] = l /\ job'[q] = j
<1>1. io[q] = NoIo /\ io = [io EXCEPT ![q] = io[q]]
  BY ThreadFacts DEF LocalOK
<1>2. Move(q, l, j, NoIo)
  BY <1>1 DEF Move, Goto
<1>3. l \in Labels /\ l \notin FlushAt \cup {"through"}
  BY DEF Labels, FlushAt
<1>4. Local(q, l, j, NoIo)
  BY <1>3, NoIoIs, Unowned
<1>5. SlotsOK'
  BY SlotsStill DEF Inv, StoreInv
<1> QED
  BY <1>2, <1>4, <1>5, Turns

LEMMA BeginChunkWriteOK ==
    ASSUME Inv, NEW w \in Writers, NEW p \in Pieces, NEW b \in Blocks, NEW v \in Sent,
           BeginChunkWrite(w, p, b, v)
    PROVE  /\ Inv' /\ KeepsBytes /\ Others(w) /\ pc'[w] = "enter"
           /\ job'[w].p = p /\ job'[w].b = b
<1> DEFINE j == [NoJob EXCEPT !.p = p, !.b = b, !.v = v]
<1>1. /\ UNCHANGED <<io, flushing, slot, fileVars, phase, lock>> /\ pc[w] = "idle"
      /\ Goto(w, "enter") /\ job' = [job EXCEPT ![w] = j]
  BY DEF BeginChunkWrite, storeVars, lifeVars, fileVars
<1>2. w \in Procs /\ w \notin Hashers /\ w \notin Refreshers
  BY WriterFacts
<1>3. /\ j \in JobType /\ j.p = p /\ j.b = b /\ j.v = v /\ ~j.complete
  BY NoJobIs DEF JobType, Data, Sent
<1> HIDE DEF j
<1>4. LocalOK(w, "enter", j, NoIo, filesGen)
  <2>1. NoIo.at = "none" /\ NoIo.ok /\ NoIo.handle <= filesGen
    BY <1>2, NoPlan
  <2> QED
    BY <2>1, <1>2, <1>3 DEF LocalOK, WriterAt, FlushAt
<1> QED
  BY <1>1, <1>2, <1>3, <1>4, Starts

LEMMA QueuePieceHashOK ==
    ASSUME Inv, NEW h \in Hashers, NEW p \in Pieces, QueuePieceHash(h, p)
    PROVE  Inv' /\ KeepsBytes /\ Others(h) /\ pc'[h] = "read" /\ job'[h].p = p
<1> DEFINE j == [NoJob EXCEPT !.p = p]
<1>1. /\ UNCHANGED <<io, flushing, slot, fileVars, phase, lock>> /\ pc[h] = "idle"
      /\ Goto(h, "read") /\ job' = [job EXCEPT ![h] = j]
  BY DEF QueuePieceHash, storeVars, lifeVars, fileVars
<1>2. h \in Procs /\ h \notin Writers /\ h \notin Refreshers
  BY WriteBackAssumption DEF Procs
<1>3. j \in JobType /\ j.p = p /\ ~j.complete
  BY NoJobIs DEF JobType
<1> HIDE DEF j
<1>4. LocalOK(h, "read", j, NoIo, filesGen)
  <2>1. NoIo.at = "none" /\ NoIo.ok /\ NoIo.handle <= filesGen
    BY <1>2, NoPlan
  <2> QED
    BY <2>1, <1>2, <1>3 DEF LocalOK, WriterAt, FlushAt, ReaderAt
<1> QED
  BY <1>1, <1>2, <1>3, <1>4, Starts

LEMMA BeginRefreshOK ==
    ASSUME Inv, NEW q \in Refreshers, NEW p \in Pieces, BeginRefresh(q, p)
    PROVE  /\ Inv' /\ KeepsBytes /\ Others(q) /\ pc'[q] # "idle" /\ job'[q].p = p
           /\ job'[q].complete <=> p \in completed
<1> DEFINE j == [NoJob EXCEPT !.p = p, !.complete = p \in completed]
           l == IF p \notin completed /\ (status[p] = "complete" \/ got[p] # Zeroes)
                THEN "read" ELSE "settle"
<1>1. /\ UNCHANGED <<io, flushing, slot, fileVars, phase, lock>> /\ pc[q] = "idle"
      /\ Goto(q, l) /\ job' = [job EXCEPT ![q] = j]
  BY DEF BeginRefresh, storeVars, lifeVars, fileVars
<1>2. q \in Procs /\ q \notin Writers /\ q \notin Hashers
  BY WriteBackAssumption DEF Procs
<1>3. j \in JobType /\ j.p = p /\ (j.complete <=> p \in completed)
  <2>1. CASE p \in completed
    <3>1. j = [NoJob EXCEPT !.p = p, !.complete = TRUE]
      BY <2>1
    <3> HIDE DEF j
    <3> QED
      BY <3>1, <2>1, NoJobIs DEF JobType
  <2>2. CASE p \notin completed
    <3>0. (p \in completed) = FALSE
      BY <2>2
    <3>1. j = [NoJob EXCEPT !.p = p, !.complete = FALSE]
      BY <3>0, Zenon
    <3> HIDE DEF j
    <3> QED
      BY <3>1, <2>2, NoJobIs DEF JobType
  <2> QED
    BY <2>1, <2>2
<1>4. l \in {"enter", "read", "settle"} /\ l # "enter" /\ (p \in completed => l = "settle")
  OBVIOUS
<1> HIDE DEF j, l
<1>5. LocalOK(q, l, j, NoIo, filesGen)
  <2>1. NoIo.at = "none" /\ NoIo.ok /\ NoIo.handle <= filesGen
    BY <1>2, NoPlan
  <2> QED
    BY <2>1, <1>2, <1>3, <1>4 DEF LocalOK, WriterAt, FlushAt, ReaderAt
<1>6. Inv' /\ KeepsBytes /\ Others(q) /\ pc'[q] = l /\ job'[q] = j
  BY <1>1, <1>2, <1>3, <1>4, <1>5, Starts
<1> QED
  BY <1>3, <1>4, <1>6

LEMMA FinishChunkWriteOK ==
    ASSUME Inv, NEW w \in Writers, FinishChunkWrite(w)
    PROVE  Inv' /\ KeepsBytes /\ Others(w) /\ pc'[w] = "idle" /\ job'[w] = NoJob
<1>1. /\ UNCHANGED <<flushing, slot, fileVars, phase, lock>> /\ Goto(w, "idle")
      /\ job' = [job EXCEPT ![w] = NoJob] /\ io' = [io EXCEPT ![w] = NoIo]
  BY DEF FinishChunkWrite, storeVars, lifeVars, fileVars
<1>2. SlotsOK'
  BY <1>1, SlotsStill DEF Inv, StoreInv
<1>3. w \in Procs
  BY WriterFacts
<1> QED
  BY <1>1, <1>2, <1>3, GoesIdle

LEMMA NotCompleteOK ==
    ASSUME Inv, NEW p, MarkNotComplete(p)
    PROVE  SlotsOK'
<1>1. SlotsOK /\ (p \in Pieces => SlotOK(Dropped(slot[p])))
  BY DroppedOK DEF Inv, StoreInv, SlotsOK
<1> QED
  BY <1>1, SlotChanges, SlotsStill DEF MarkNotComplete

LEMMA CompleteReturnOK ==
    ASSUME Inv, NEW h \in Hashers, CompleteReturn(h)
    PROVE  Inv' /\ KeepsBytes /\ Others(h) /\ pc'[h] = "idle" /\ job'[h] = NoJob /\ ~closed
<1>1. /\ UNCHANGED <<flushing, slot, fileVars, phase>> /\ Goto(h, "idle")
      /\ job' = [job EXCEPT ![h] = NoJob] /\ io' = [io EXCEPT ![h] = NoIo]
      /\ lock \in {Free, h} /\ io[h].at = "ret" /\ io[h].ok
  BY DEF CompleteReturn, Idle, Runs
<1>2. SlotsOK'
  BY <1>1, SlotsStill DEF Inv, StoreInv
<1>3. h \in Procs
  BY DEF Procs
<1>4. ~closed
  BY <1>1, <1>3 DEF Inv, StoreInv, LockOK
<1> QED
  BY <1>1, <1>2, <1>3, <1>4, GoesIdle

LEMMA HashFailsOK ==
    ASSUME Inv, NEW h \in Hashers, HashFails(h)
    PROVE  Inv' /\ KeepsBytes /\ Others(h) /\ pc'[h] = "idle" /\ job'[h] = NoJob
<1>1. /\ UNCHANGED <<flushing, fileVars, phase>> /\ Goto(h, "idle")
      /\ job' = [job EXCEPT ![h] = NoJob] /\ io' = [io EXCEPT ![h] = NoIo]
      /\ lock \in {Free, h} /\ MarkNotComplete(job[h].p)
  BY DEF HashFails, Idle, Runs, lifeVars
<1>2. SlotsOK'
  BY <1>1, NotCompleteOK
<1>3. h \in Procs
  BY DEF Procs
<1> QED
  BY <1>1, <1>2, <1>3, GoesIdle

LEMMA SettleRefreshOK ==
    ASSUME Inv, NEW q \in Refreshers, SettleRefresh(q)
    PROVE  Inv' /\ KeepsBytes /\ Others(q) /\ pc'[q] = "idle" /\ job'[q] = NoJob
<1>1. /\ UNCHANGED <<flushing, fileVars, phase>> /\ Goto(q, "idle")
      /\ job' = [job EXCEPT ![q] = NoJob] /\ io' = [io EXCEPT ![q] = NoIo]
      /\ lock \in {Free, q} /\ (MarkNotComplete(job[q].p) \/ UNCHANGED slot)
  BY DEF SettleRefresh, Idle, Runs, lifeVars
<1>2. SlotsOK'
  BY <1>1, NotCompleteOK, SlotsStill DEF Inv, StoreInv
<1>3. q \in Procs
  BY DEF Procs
<1> QED
  BY <1>1, <1>2, <1>3, GoesIdle

-----------------------------------------------------------------------------
(* Reselection and close *)

LEMMA UpdateSelectionOK ==
    ASSUME Inv, NEW R \in SUBSET Pieces, UpdateSelection(R)
    PROVE  Inv' /\ KeepsBytes
<1>1. /\ UNCHANGED <<slot, flushing, phase, lock, pc, job, io>> /\ lock = Free
      /\ filesGen < MaxSelections /\ filesGen' = filesGen + 1
      /\ handle' = [p \in Pieces |-> IF p \in R THEN filesGen + 1 ELSE handle[p]]
      /\ disk' = [p \in Pieces |->
                    IF p \in R /\ p \in completed
                    THEN [disk[p] EXCEPT ![filesGen + 1] = disk[p][handle[p]]]
                    ELSE disk[p]]
  BY DEF UpdateSelection, procVars
<1>2. /\ filesGen \in Nat /\ MaxSelections \in Nat
      /\ disk \in [Pieces -> [0..MaxSelections -> Bytes]]
      /\ handle \in [Pieces -> 0..MaxSelections]
      /\ \A p \in Pieces : handle[p] <= filesGen
      /\ \A p \in Pieces, h \in 0..MaxSelections : h > filesGen => disk[p][h] = Zeroes
  BY WriteBackAssumption DEF Inv, StoreInv, FilesOK, Threads
<1>3. filesGen + 1 \in 0..MaxSelections /\ filesGen' \in Nat
  BY <1>1, <1>2
<1>4. PICK n : n = filesGen + 1
  OBVIOUS
<1>5. /\ disk' \in [Pieces -> [0..MaxSelections -> Bytes]]
      /\ \A p \in Pieces, h \in 0..MaxSelections : h # n => disk'[p][h] = disk[p][h]
  BY <1>1, <1>2, <1>3, <1>4
<1>6. \A p \in Pieces : disk[p][n] = Zeroes
  BY <1>2, <1>3, <1>4
<1>7. KeepsBytes
  <2>1. \A x \in Pieces : \A y \in 0..MaxSelections : \A b \in Blocks :
           disk[x][y][b] # "zero" => disk'[x][y][b] # "zero"
    BY <1>5, <1>6 DEF Zeroes
  <2> QED
    BY <2>1, <1>2, KeepsIf
<1>8. handle' \in [Pieces -> 0..MaxSelections] /\ \A p \in Pieces : handle'[p] <= filesGen'
  BY <1>1, <1>2, <1>3
<1>9. \A p \in Pieces, h \in 0..MaxSelections : h > filesGen' => disk'[p][h] = Zeroes
  <2> SUFFICES ASSUME NEW p \in Pieces, NEW h \in 0..MaxSelections, h > filesGen'
               PROVE  disk'[p][h] = Zeroes
    OBVIOUS
  <2>1. h # n /\ h > filesGen
    BY <1>1, <1>2, <1>4
  <2> QED
    BY <2>1, <1>2, <1>5
<1>10. FilesOK'
  BY <1>5, <1>8, <1>9 DEF FilesOK
<1>11. Threads'
  <2>1. \A q \in Procs : io[q].handle <= filesGen => io[q].handle <= filesGen + 1
    BY <1>2 DEF Inv, StoreInv, Threads, IoType
  <2>2. \A q \in Procs : LocalOK(q, pc[q], job[q], io[q], filesGen')
    BY <1>1, <2>1 DEF Inv, StoreInv, Threads, LocalOK
  <2> QED
    BY <1>1, <1>3, <2>2 DEF Inv, StoreInv, Threads
<1>12. Plans' /\ LockOK' /\ SlotsOK' /\ OwnInv'
  BY <1>1 DEF Inv, StoreInv, Plans, LockOK, SlotsOK, OwnInv, OneWriter, UnlockedWriter, Target,
              closed
<1> QED
  BY <1>7, <1>10, <1>11, <1>12 DEF Inv, StoreInv

(* Writing some of what the slots owe, and keeping the rest owed *)
LEMMA FlushedLockedOK ==
    ASSUME Inv, NEW wrote, FlushedLocked(wrote), UNCHANGED <<handle, filesGen>>,
           \A p \in Pieces : wrote[p] \subseteq IF p \in DirtyPieces THEN slot[p].spans ELSE {}
    PROVE  SlotsOK' /\ FilesOK' /\ KeepsBytes
<1>1. /\ disk \in [Pieces -> [0..MaxSelections -> Bytes]]
      /\ handle \in [Pieces -> 0..MaxSelections]
      /\ \A p \in Pieces : handle[p] <= filesGen
      /\ \A p \in Pieces, h \in 0..MaxSelections : h > filesGen => disk[p][h] = Zeroes
      /\ filesGen \in Nat
      /\ \A p \in Pieces : SlotOK(slot[p]) /\ slot[p] \in SlotType
  BY DEF Inv, StoreInv, FilesOK, SlotsOK, Threads
<1> DEFINE new(p) == [b \in Blocks |-> IF b \in wrote[p] THEN slot[p].ram[b]
                                       ELSE disk[p][handle[p]][b]]
<1>2. disk' = [p \in Pieces |-> [disk[p] EXCEPT ![handle[p]] = new(p)]]
  BY <1>1 DEF FlushedLocked
<1>3. \A p \in Pieces : /\ new(p) \in Bytes
                        /\ \A b \in Blocks : disk[p][handle[p]][b] # "zero" => new(p)[b] # "zero"
  <2> SUFFICES ASSUME NEW p \in Pieces
               PROVE  /\ new(p) \in Bytes
                      /\ \A b \in Blocks : disk[p][handle[p]][b] # "zero" => new(p)[b] # "zero"
    OBVIOUS
  <2>1. disk[p][handle[p]] \in Bytes /\ slot[p].ram \in Bytes
    BY <1>1 DEF SlotType
  <2>2. \A b \in wrote[p] : slot[p].ram[b] # "zero"
    BY <1>1 DEF SlotOK
  <2> QED
    BY <2>1, <2>2 DEF Bytes
<1> HIDE DEF new
<1>4. /\ disk' \in [Pieces -> [0..MaxSelections -> Bytes]]
      /\ \A p \in Pieces, h \in 0..MaxSelections :
            disk'[p][h] = IF h = handle[p] THEN new(p) ELSE disk[p][h]
  BY <1>1, <1>2, <1>3
<1>5. KeepsBytes
  <2>1. \A x \in Pieces : \A y \in 0..MaxSelections : \A b \in Blocks :
           disk[x][y][b] # "zero" => disk'[x][y][b] # "zero"
    BY <1>3, <1>4
  <2> QED
    BY <2>1, <1>1, KeepsIf
<1>6. FilesOK'
  <2>1. \A p \in Pieces, h \in 0..MaxSelections : h > filesGen => h # handle[p]
    BY <1>1
  <2>2. \A p \in Pieces, h \in 0..MaxSelections : h > filesGen' => disk'[p][h] = Zeroes
    BY <1>1, <1>4, <2>1
  <2> QED
    BY <1>1, <1>4, <2>2 DEF FilesOK
<1> DEFINE t(p) == [slot[p] EXCEPT !.dirty = wrote[p] # PlanSpans(slot[p]),
                                   !.spans = IF wrote[p] = {} THEN @
                                             ELSE PlanSpans(slot[p]) \ wrote[p]]
           u(p) == IF p \in DirtyPieces THEN t(p) ELSE slot[p]
<1>7. slot' = [p \in Pieces |-> u(p)]
  BY DEF FlushedLocked
<1>8. ASSUME NEW p \in Pieces PROVE SlotOK(u(p))
  <2>1. CASE p \notin DirtyPieces
    BY <2>1, <1>1
  <2>2. CASE p \in DirtyPieces
    <3>1. SlotOK(slot[p]) /\ slot[p].dirty /\ slot[p].here /\ wrote[p] \subseteq slot[p].spans
      BY <1>1, <2>2 DEF DirtyPieces, Cached
    <3>2. PlanSpans(slot[p]) = slot[p].spans
      BY <3>1, PlanReceived
    <3>3. PICK s : s = slot[p]
      OBVIOUS
    <3>4. PICK W : W = wrote[p]
      OBVIOUS
    <3>5. SlotOK(s) /\ s.dirty /\ s.here /\ W \subseteq s.spans
      BY <3>1, <3>3, <3>4
    <3>6. t(p) = [s EXCEPT !.dirty = W # s.spans, !.spans = IF W = {} THEN @ ELSE s.spans \ W]
      BY <3>2, <3>3, <3>4
    <3>7. SlotOK([s EXCEPT !.dirty = W # s.spans, !.spans = IF W = {} THEN @ ELSE s.spans \ W])
      <4> DEFINE x == [s EXCEPT !.dirty = W # s.spans,
                                !.spans = IF W = {} THEN @ ELSE s.spans \ W]
      <4>1. /\ x \in SlotType /\ x.here /\ x.dirty = (W # s.spans)
            /\ x.spans = s.spans \ W /\ x.ram = s.ram /\ x.partial = s.partial
            /\ x.have = s.have /\ x.fresh = s.fresh
        BY <3>5 DEF SlotOK, SlotType
      <4> HIDE DEF x
      <4>2. SlotOK(x)
        BY <3>5, <4>1 DEF SlotOK
      <4> QED
        BY <4>2 DEF x
    <3> QED
      BY <2>2, <3>6, <3>7
  <2> QED
    BY <2>1, <2>2
<1> HIDE DEF u
<1>9. SlotsOK'
  <2>1. \A p \in Pieces : slot'[p] = u(p) /\ u(p) \in SlotType
    BY <1>7, <1>8 DEF SlotOK
  <2>2. slot' \in [Pieces -> SlotType]
    BY <1>7, <2>1
  <2> QED
    BY <1>8, <2>1, <2>2 DEF SlotsOK
<1> QED
  BY <1>5, <1>6, <1>9

LEMMA CloseFlushOK ==
    ASSUME Inv, CloseFlush
    PROVE  Inv' /\ KeepsBytes
<1> DEFINE all == [p \in Pieces |-> IF p \in DirtyPieces THEN PlanSpans(slot[p]) ELSE {}]
<1>1. /\ UNCHANGED <<flushing, handle, filesGen, lock, pc, job, io>> /\ lock = Free
  BY DEF CloseFlush, procVars
<1>2. \A p \in Pieces : all[p] = IF p \in DirtyPieces THEN slot[p].spans ELSE {}
  BY PlanReceived DEF DirtyPieces, Inv, StoreInv, SlotsOK
<1>3. PICK wrote : /\ FlushedLocked(wrote)
                   /\ \A p \in Pieces : wrote[p] \subseteq all[p]
  <2>1. CASE FlushedLocked(all)
    BY <2>1
  <2>2. CASE \E S \in SUBSET DirtyPieces, x \in DirtyPieces :
                \E X \in SUBSET all[x] :
                   FlushedLocked([p \in Pieces |-> IF p \in S THEN all[p]
                                                   ELSE IF p = x THEN X ELSE {}])
    <3>0. PICK S \in SUBSET DirtyPieces, x \in DirtyPieces :
             \E X \in SUBSET all[x] :
                FlushedLocked([p \in Pieces |-> IF p \in S THEN all[p]
                                                ELSE IF p = x THEN X ELSE {}])
      BY <2>2
    <3>1. PICK X \in SUBSET all[x] :
             FlushedLocked([p \in Pieces |-> IF p \in S THEN all[p]
                                             ELSE IF p = x THEN X ELSE {}])
      BY <3>0
    <3> DEFINE wr == [p \in Pieces |-> IF p \in S THEN all[p] ELSE IF p = x THEN X ELSE {}]
    <3>2. FlushedLocked(wr)
      BY <3>1
    <3> HIDE DEF all
    <3>3. \A p \in Pieces : wr[p] \subseteq all[p]
      OBVIOUS
    <3> HIDE DEF wr
    <3> QED
      BY <3>2, <3>3
  <2> QED
    BY <2>1, <2>2 DEF CloseFlush
<1> HIDE DEF all
<1>4. SlotsOK' /\ FilesOK' /\ KeepsBytes
  BY <1>1, <1>2, <1>3, FlushedLockedOK
<1>5. LockOK'
  BY <1>1, WriteBackAssumption DEF Inv, StoreInv, LockOK, Procs
<1>6. Threads' /\ Plans' /\ OwnInv'
  BY <1>1 DEF Inv, StoreInv, Threads, Plans, OwnInv, OneWriter, UnlockedWriter, Target
<1> QED
  BY <1>4, <1>5, <1>6 DEF Inv, StoreInv

LEMMA CloseFinishOK ==
    ASSUME Inv, CloseFinish
    PROVE  Inv' /\ KeepsBytes
<1>1. /\ UNCHANGED <<flushing, disk, handle, lock, pc, job, io>> /\ lock = Free
      /\ filesGen' = filesGen + 1
      /\ slot' = [p \in Pieces |-> [NoSlot EXCEPT !.raced = slot[p].raced]]
  BY DEF CloseFinish
<1>2. LockOK'
  BY <1>1, WriteBackAssumption DEF Inv, StoreInv, LockOK, Procs
<1>3. Plans' /\ OwnInv'
  BY <1>1 DEF Inv, StoreInv, Plans, OwnInv, OneWriter, UnlockedWriter, Target
<1>4. filesGen \in Nat
  BY DEF Inv, StoreInv, Threads
<1>5. Threads'
  <2>1. \A q \in Procs : io[q].handle <= filesGen => io[q].handle <= filesGen + 1
    BY <1>4 DEF Inv, StoreInv, Threads, IoType
  <2>2. \A q \in Procs : LocalOK(q, pc[q], job[q], io[q], filesGen')
    BY <1>1, <2>1 DEF Inv, StoreInv, Threads, LocalOK
  <2> QED
    BY <1>1, <1>4, <2>2 DEF Inv, StoreInv, Threads
<1>6. FilesOK' /\ KeepsBytes
  <2>1. /\ \A p \in Pieces : handle[p] \in 0..MaxSelections /\ handle[p] <= filesGen
        /\ MaxSelections \in Nat
    BY WriteBackAssumption DEF Inv, StoreInv, FilesOK
  <2>2. \A p \in Pieces : handle[p] <= filesGen + 1
    BY <1>4, <2>1
  <2>3. \A h \in 0..MaxSelections : h > filesGen + 1 => h > filesGen
    BY <1>4, <2>1
  <2> QED
    BY <1>1, <2>2, <2>3 DEF Inv, StoreInv, FilesOK, KeepsBytes
<1>7. SlotsOK'
  <2>1. \A p \in Pieces : SlotOK([NoSlot EXCEPT !.raced = slot[p].raced])
    <3> SUFFICES ASSUME NEW p \in Pieces PROVE SlotOK([NoSlot EXCEPT !.raced = slot[p].raced])
      OBVIOUS
    <3>1. slot[p].raced \in BOOLEAN
      BY DEF Inv, StoreInv, SlotsOK, SlotType
    <3> QED
      BY <3>1, ZeroBytes DEF SlotOK, SlotType, NoSlot
  <2>2. \A p \in Pieces : slot'[p] = [NoSlot EXCEPT !.raced = slot[p].raced]
    BY <1>1
  <2>3. \A p \in Pieces : SlotOK(slot'[p])
    BY <2>1, <2>2
  <2>4. slot' \in [Pieces -> SlotType]
    BY <1>1, <2>1 DEF SlotOK
  <2> QED
    BY <2>3, <2>4 DEF SlotsOK
<1> QED
  BY <1>2, <1>3, <1>5, <1>6, <1>7 DEF Inv, StoreInv

-----------------------------------------------------------------------------
(* What the torrent sees of the steps that are not steady *)

LEMMA Kinds ==
    /\ Writers \subseteq Procs /\ Hashers \subseteq Procs /\ Refreshers \subseteq Procs
    /\ \A w \in Writers : w \notin Hashers /\ w \notin Refreshers
    /\ \A h \in Hashers : h \notin Writers /\ h \notin Refreshers
    /\ \A r \in Refreshers : r \notin Writers /\ r \notin Hashers
BY WriteBackAssumption DEF Procs

LEMMA BeginChunkWriteSeen ==
    ASSUME Inv, TorrentInv, NEW w \in Writers, NEW p \in Pieces, NEW b \in Blocks,
           NEW v \in Sent, BeginChunkWrite(w, p, b, v)
    PROVE  TorrentInv'
<1>1. Others(w) /\ pc'[w] = "enter" /\ job'[w].p = p /\ job'[w].b = b
  BY BeginChunkWriteOK
<1>2. /\ UNCHANGED <<status, got, completed, phase>> /\ got[p][b] = "zero" /\ ~Writing(p, b)
      /\ closed' = closed
  BY DEF BeginChunkWrite, storeVars, lifeVars, closed
<1>3. \A r \in Procs : r # w => pc'[r] = pc[r] /\ job'[r] = job[r]
  BY <1>1 DEF Others
<1>4. Missing' /\ OneCopy'
  BY <1>1, <1>2, <1>3, Kinds DEF TorrentInv, Missing, OneCopy, Writing
<1>5. Claimed' /\ Trusted'
  BY <1>2 DEF TorrentInv, Claimed, Trusted
<1>6. Hashed' /\ Refreshed'
  BY <1>2, <1>3, Kinds DEF TorrentInv, Hashed, Refreshed
<1> QED
  BY <1>2, <1>4, <1>5, <1>6 DEF TorrentInv

LEMMA FinishChunkWriteSeen ==
    ASSUME Inv, TorrentInv, NEW w \in Writers, FinishChunkWrite(w)
    PROVE  TorrentInv'
<1>1. Others(w) /\ pc'[w] = "idle"
  BY FinishChunkWriteOK
<1>2. /\ UNCHANGED <<status, completed, phase>> /\ closed' = closed /\ pc[w] = "ack"
      /\ \/ got' = [got EXCEPT ![job[w].p][job[w].b] = job[w].v]
         \/ got' = got
  BY DEF FinishChunkWrite, storeVars, lifeVars, closed
<1>3. \A r \in Procs : r # w => pc'[r] = pc[r] /\ job'[r] = job[r]
  BY <1>1 DEF Others
<1>4. job[w].p \in Pieces /\ job[w].b \in Blocks /\ job[w].v \in Sent
  BY <1>2, WriterFacts
<1>5. /\ got \in [Pieces -> Bytes]
      /\ got' \in [Pieces -> Bytes]
      /\ \A p \in Pieces, b \in Blocks :
            /\ got[p][b] # "zero" => got'[p][b] # "zero"
            /\ ~(p = job[w].p /\ b = job[w].b) => got'[p][b] = got[p][b]
  <2>1. got \in [Pieces -> Bytes]
    BY DEF TorrentInv
  <2>2. CASE got' = got
    BY <2>1, <2>2
  <2>3. CASE got' = [got EXCEPT ![job[w].p][job[w].b] = job[w].v]
    BY <2>1, <2>3, <1>4 DEF Bytes, Data, Sent
  <2> QED
    BY <2>2, <2>3, <1>2
<1>6. \A x \in Writers : pc[x] # "idle" => job[x].p \in Pieces /\ job[x].b \in Blocks
  BY WriterFacts
<1>7. Missing'
  BY <1>1, <1>2, <1>3, <1>5, <1>6, Kinds DEF TorrentInv, Missing, OneCopy
<1>8. OneCopy'
  BY <1>1, <1>3, Kinds DEF TorrentInv, OneCopy
<1>9. Claimed' /\ Trusted'
  BY <1>2, <1>5 DEF TorrentInv, Claimed, Trusted
<1>10. Hashed' /\ Refreshed'
  BY <1>2, <1>3, Kinds DEF TorrentInv, Hashed, Refreshed
<1> QED
  BY <1>2, <1>5, <1>7, <1>8, <1>9, <1>10 DEF TorrentInv

LEMMA QueuePieceHashSeen ==
    ASSUME Inv, TorrentInv, NEW h \in Hashers, NEW p \in Pieces, QueuePieceHash(h, p)
    PROVE  TorrentInv'
<1>1. Others(h) /\ pc'[h] = "read" /\ job'[h].p = p
  BY QueuePieceHashOK
<1>2. /\ UNCHANGED <<got, completed, phase>> /\ closed' = closed
      /\ status[p] = "receiving" /\ status' = [status EXCEPT ![p] = "checking"]
      /\ \A b \in Blocks : got[p][b] # "zero"
      /\ ~Refreshing(p)
  BY DEF QueuePieceHash, TorrentInv, storeVars, lifeVars, closed
<1>3. \A r \in Procs : r # h => pc'[r] = pc[r] /\ job'[r] = job[r]
  BY <1>1 DEF Others
<1>4. /\ status' \in [Pieces -> {"receiving", "checking", "complete"}]
      /\ status'[p] = "checking" /\ \A x \in Pieces : x # p => status'[x] = status[x]
  BY <1>2 DEF TorrentInv
<1>5. Missing' /\ OneCopy'
  BY <1>2, <1>3, Kinds DEF TorrentInv, Missing, OneCopy
<1>6. Claimed' /\ Trusted'
  BY <1>2, <1>4 DEF TorrentInv, Claimed, Trusted
<1>7. \A q \in Procs : pc[q] # "idle" => job[q].p \in Pieces
  BY ThreadFacts DEF LocalOK
<1>8. Hashed'
  BY <1>1, <1>2, <1>3, <1>4, <1>7, Kinds DEF TorrentInv, Hashed
<1>9. Refreshed'
  BY <1>2, <1>3, <1>4, <1>7, Kinds DEF TorrentInv, Refreshed, Refreshing
<1> QED
  BY <1>2, <1>4, <1>5, <1>6, <1>8, <1>9 DEF TorrentInv

LEMMA CompleteReturnSeen ==
    ASSUME Inv, TorrentInv, NEW h \in Hashers, CompleteReturn(h)
    PROVE  TorrentInv'
<1>1. Others(h) /\ pc'[h] = "idle" /\ ~closed
  BY CompleteReturnOK
<1>2. PICK p : p = job[h].p
  OBVIOUS
<1>3. /\ UNCHANGED <<got, phase>> /\ closed' = closed /\ pc[h] # "idle"
      /\ status' = [status EXCEPT ![p] = "complete"] /\ completed' = completed \cup {p}
  BY <1>2 DEF CompleteReturn, closed
<1>4. \A r \in Procs : r # h => pc'[r] = pc[r] /\ job'[r] = job[r]
  BY <1>1 DEF Others
<1>5. \A q \in Procs : pc[q] # "idle" => job[q].p \in Pieces
  BY ThreadFacts DEF LocalOK
<1>6. p \in Pieces /\ status[p] = "checking"
  BY <1>2, <1>3, <1>5, Kinds DEF TorrentInv, Hashed
<1>7. /\ status' \in [Pieces -> {"receiving", "checking", "complete"}]
      /\ status'[p] = "complete" /\ \A x \in Pieces : x # p => status'[x] = status[x]
  BY <1>3, <1>6 DEF TorrentInv
<1>8. Missing' /\ OneCopy'
  BY <1>3, <1>4, Kinds DEF TorrentInv, Missing, OneCopy
<1>9. Claimed' /\ Trusted'
  BY <1>1, <1>3, <1>6, <1>7 DEF TorrentInv, Claimed, Trusted
<1>10. Hashed'
  BY <1>1, <1>2, <1>3, <1>4, <1>5, <1>7, Kinds DEF TorrentInv, Hashed
<1>11. Refreshed'
  BY <1>3, <1>4, <1>5, <1>6, <1>7, Kinds DEF TorrentInv, Refreshed
<1> QED
  BY <1>3, <1>6, <1>7, <1>8, <1>9, <1>10, <1>11 DEF TorrentInv

(* The torrent forgets a piece that is not complete and that no thread is hashing. *)
LEMMA Forgets ==
    ASSUME TorrentInv, NEW q \in Procs, Others(q), pc'[q] = "idle", NEW p \in Pieces,
           ForgetPiece(p), UNCHANGED <<completed, phase>>, p \notin completed,
           \A r \in Procs : pc[r] # "idle" => job[r].p \in Pieces,
           \A w \in Writers : pc[w] # "idle" => job[w].b \in Blocks,
           \A h \in Hashers : pc[h] # "idle" /\ h # q => job[h].p # p
    PROVE  TorrentInv'
<1>1. \A r \in Procs : r # q => pc'[r] = pc[r] /\ job'[r] = job[r]
  BY DEF Others
<1>2. /\ status' \in [Pieces -> {"receiving", "checking", "complete"}]
      /\ status'[p] = "receiving" /\ \A x \in Pieces : x # p => status'[x] = status[x]
  BY DEF TorrentInv, ForgetPiece
<1>3. /\ got' \in [Pieces -> Bytes] /\ \A x \in Pieces : x # p => got'[x] = got[x]
      /\ \A b \in Blocks : got'[p][b] = "zero"
  BY ZeroBytes DEF TorrentInv, ForgetPiece, Zeroes
<1>4. closed' = closed
  BY DEF closed
<1>5. Missing' /\ OneCopy'
  BY <1>1, <1>3, Kinds DEF TorrentInv, Missing, OneCopy
<1>6. Claimed' /\ Trusted'
  BY <1>2, <1>3, <1>4 DEF TorrentInv, Claimed, Trusted
<1>7. Hashed'
  BY <1>1, <1>2, Kinds DEF TorrentInv, Hashed
<1>8. Refreshed'
  BY <1>1, <1>2, <1>4, Kinds DEF TorrentInv, Refreshed
<1> QED
  BY <1>2, <1>3, <1>5, <1>6, <1>7, <1>8 DEF TorrentInv

LEMMA HashFailsSeen ==
    ASSUME Inv, TorrentInv, NEW h \in Hashers, HashFails(h)
    PROVE  TorrentInv'
<1>1. Others(h) /\ pc'[h] = "idle" /\ h \in Procs
  BY HashFailsOK, Kinds
<1>2. PICK p : p = job[h].p
  OBVIOUS
<1>3. UNCHANGED <<completed, phase>> /\ ForgetPiece(p) /\ pc[h] # "idle"
  BY <1>2 DEF HashFails, lifeVars
<1>4. \A q \in Procs : pc[q] # "idle" => job[q].p \in Pieces
  BY ThreadFacts DEF LocalOK
<1>5. \A w \in Writers : pc[w] # "idle" => job[w].b \in Blocks
  BY WriterFacts
<1>6. p \in Pieces /\ p \notin completed
  BY <1>1, <1>2, <1>3, <1>4 DEF TorrentInv, Hashed, Trusted
<1>7. \A k \in Hashers : pc[k] # "idle" /\ k # h => job[k].p # p
  BY <1>2, <1>3 DEF TorrentInv, Hashed
<1> QED
  BY <1>1, <1>3, <1>4, <1>5, <1>6, <1>7, Forgets

LEMMA BeginRefreshSeen ==
    ASSUME Inv, TorrentInv, NEW q \in Refreshers, NEW p \in Pieces, BeginRefresh(q, p)
    PROVE  TorrentInv'
<1>1. Others(q) /\ pc'[q] # "idle" /\ job'[q].p = p /\ (job'[q].complete <=> p \in completed)
  BY BeginRefreshOK
<1>2. UNCHANGED <<status, got, completed, phase>> /\ closed' = closed /\ status[p] # "checking"
  BY DEF BeginRefresh, TorrentInv, storeVars, lifeVars, closed
<1>3. \A r \in Procs : r # q => pc'[r] = pc[r] /\ job'[r] = job[r]
  BY <1>1 DEF Others
<1>4. Missing' /\ OneCopy'
  BY <1>2, <1>3, Kinds DEF TorrentInv, Missing, OneCopy
<1>5. Claimed' /\ Trusted' /\ Hashed'
  BY <1>2, <1>3, Kinds DEF TorrentInv, Claimed, Trusted, Hashed
<1>6. Refreshed'
  BY <1>1, <1>2, <1>3, Kinds DEF TorrentInv, Refreshed
<1> QED
  BY <1>2, <1>4, <1>5, <1>6 DEF TorrentInv

LEMMA SettleRefreshSeen ==
    ASSUME Inv, TorrentInv, NEW q \in Refreshers, SettleRefresh(q)
    PROVE  TorrentInv'
<1>1. Others(q) /\ pc'[q] = "idle" /\ q \in Procs
  BY SettleRefreshOK, Kinds
<1>2. PICK p : p = job[q].p
  OBVIOUS
<1>3. /\ UNCHANGED <<completed, phase>> /\ closed' = closed /\ pc[q] # "idle"
      /\ \/ /\ ForgetPiece(p) /\ (~io[q].ok \/ ~job[q].complete)
         \/ /\ got' = got
            /\ \/ job[q].complete /\ status' = [status EXCEPT ![p] = "complete"]
               \/ status' = status
  BY <1>2 DEF SettleRefresh, lifeVars, closed
<1>4. \A r \in Procs : pc[r] # "idle" => job[r].p \in Pieces
  BY ThreadFacts DEF LocalOK
<1>5. \A w \in Writers : pc[w] # "idle" => job[w].b \in Blocks
  BY WriterFacts
<1>6. /\ p \in Pieces /\ status[p] # "checking"
      /\ ~closed => (job[q].complete <=> p \in completed)
      /\ job[q].complete => io[q].ok
  <2>1. job[q].complete => io[q].ok
    BY <1>1, ThreadFacts DEF LocalOK
  <2> QED
    BY <1>1, <1>2, <1>3, <1>4, <2>1 DEF TorrentInv, Refreshed
<1>7. \A h \in Hashers : pc[h] # "idle" => job[h].p # p
  BY <1>6 DEF TorrentInv, Hashed
<1>8. CASE ForgetPiece(p) /\ (~io[q].ok \/ ~job[q].complete)
  <2>1. p \notin completed
    BY <1>6, <1>8 DEF TorrentInv, Trusted
  <2> QED
    BY <1>1, <1>3, <1>4, <1>5, <1>6, <1>7, <1>8, <2>1, Forgets
<1>9. CASE /\ got' = got
           /\ \/ job[q].complete /\ status' = [status EXCEPT ![p] = "complete"]
              \/ status' = status
  <2>1. \A r \in Procs : r # q => pc'[r] = pc[r] /\ job'[r] = job[r]
    BY <1>1 DEF Others
  <2>2. /\ status' \in [Pieces -> {"receiving", "checking", "complete"}]
        /\ \A x \in Pieces : x # p => status'[x] = status[x]
        /\ status'[p] = status[p] \/ (job[q].complete /\ status'[p] = "complete")
    BY <1>6, <1>9 DEF TorrentInv
  <2>3. ~closed => status'[p] = status[p]
    BY <1>6, <2>2 DEF TorrentInv, Trusted
  <2>4. Missing' /\ OneCopy'
    BY <1>1, <1>9, <2>1, Kinds DEF TorrentInv, Missing, OneCopy
  <2>5. Claimed' /\ Trusted'
    BY <1>3, <1>6, <1>9, <2>2, <2>3 DEF TorrentInv, Claimed, Trusted
  <2>6. Hashed'
    BY <1>4, <1>7, <2>1, <2>2, Kinds DEF TorrentInv, Hashed
  <2>7. Refreshed'
    BY <1>1, <1>3, <1>4, <1>6, <2>1, <2>2, Kinds DEF TorrentInv, Refreshed
  <2> QED
    BY <1>3, <1>9, <2>2, <2>4, <2>5, <2>6, <2>7 DEF TorrentInv
<1> QED
  BY <1>3, <1>8, <1>9

LEMMA UpdateSelectionSeen ==
    ASSUME Inv, TorrentInv, NEW R \in SUBSET Pieces, UpdateSelection(R)
    PROVE  TorrentInv'
<1>1. /\ UNCHANGED <<status, got, phase, pc, job>> /\ completed' = completed \ R
      /\ closed' = closed /\ \A p \in Pieces : ~Refreshing(p)
  BY DEF UpdateSelection, TorrentInv, procVars, closed
<1>2. \A r \in Refreshers : pc[r] = "idle"
  BY <1>1, ThreadFacts, Kinds DEF LocalOK, Refreshing
<1>3. Missing' /\ OneCopy' /\ Hashed'
  BY <1>1 DEF TorrentInv, Missing, OneCopy, Hashed
<1>4. Claimed' /\ Trusted' /\ Refreshed'
  BY <1>1, <1>2 DEF TorrentInv, Claimed, Trusted, Refreshed
<1> QED
  BY <1>1, <1>3, <1>4 DEF TorrentInv

LEMMA CloseSeen ==
    ASSUME TorrentInv, CloseFlush \/ CloseFinish
    PROVE  TorrentInv'
<1>1. /\ UNCHANGED <<status, got, pc, job>> /\ ~closed
      /\ \/ completed' = completed /\ ~closed'
         \/ completed' = {} /\ closed'
  BY DEF CloseFlush, CloseFinish, procVars, coreVars, closed
<1>2. Missing' /\ OneCopy' /\ Hashed'
  BY <1>1 DEF TorrentInv, Missing, OneCopy, Hashed
<1>3. Claimed' /\ Trusted' /\ Refreshed'
  BY <1>1 DEF TorrentInv, Claimed, Trusted, Refreshed
<1> QED
  BY <1>1, <1>2, <1>3 DEF TorrentInv

-----------------------------------------------------------------------------
(* The invariants are inductive *)

LEMMA InitOK ==
    ASSUME Init
    PROVE  Inv /\ (Careful => TorrentInv)
<1>1. Threads
  <2>0. NoIo.at = "none" /\ NoIo.handle <= 0 /\ ~NoJob.complete
    BY NoJobIs DEF NoIo
  <2>1. \A q \in Procs : LocalOK(q, "idle", NoJob, NoIo, 0)
    BY <2>0 DEF LocalOK, WriterAt
  <2> QED
    BY <2>1, NoIoIs, NoJobIs DEF Init, Threads, Labels
<1>2. \A q \in Procs : pc[q] = "idle" /\ io[q].at = "none" /\ job[q] = NoJob
  BY NoIoIs DEF Init
<1>3. Plans /\ LockOK /\ OwnInv
  BY <1>2 DEF Plans, PlanOK, LockOK, OwnInv, OneWriter, UnlockedWriter
<1>4. SlotsOK
  BY ZeroBytes DEF Init, SlotsOK
<1>5. FilesOK
  BY ZeroBytes, WriteBackAssumption DEF Init, FilesOK
<1>6. ASSUME Careful PROVE TorrentInv
  <2>1. Missing /\ OneCopy /\ Hashed /\ Refreshed
    BY <1>2, Kinds DEF Missing, OneCopy, Hashed, Refreshed
  <2>2. Claimed /\ Trusted
    BY DEF Init, Claimed, Trusted
  <2> QED
    BY <1>6, <2>1, <2>2, ZeroBytes DEF Init, TorrentInv
<1> QED
  BY <1>1, <1>3, <1>4, <1>5, <1>6 DEF Inv, StoreInv

LEMMA FlushSteps ==
    ASSUME Inv, NEW q \in Procs,
           FlushWait(q) \/ FlushSkip(q) \/ FlushStart(q) \/ FlushIo(q) \/ FlushEnd(q)
    PROVE  Fine
BY FlushWaitOK, FlushSkipOK, FlushStartOK, FlushIoOK, FlushEndOK

LEMMA WriterSteps ==
    ASSUME Inv, NEW w \in Writers, WriterStep(w), ~FinishChunkWrite(w)
    PROVE  Fine
<1>1. w \in Procs
  BY WriterFacts
<1>2. CASE FlushWait(w) \/ FlushSkip(w) \/ FlushStart(w) \/ FlushIo(w) \/ FlushEnd(w)
  BY <1>1, <1>2, FlushSteps
<1>3. CASE WriteEnter(w) \/ WriteWait(w) \/ WriteClosed(w) \/ WriteCached(w)
  BY <1>3, WriteEnterOK, WriteWaitOK, WriteClosedOK, WriteCachedOK
<1>4. CASE WriteEvicts(w) \/ WriteThrough(w) \/ EvictReturn(w)
  BY <1>4, WriteEvictsOK, WriteThroughOK, EvictReturnOK
<1>5. CASE ThroughIo(w) \/ ThroughEnd(w)
  BY <1>5, ThroughIoOK, ThroughEndOK
<1> QED
  BY <1>2, <1>3, <1>4, <1>5 DEF WriterStep

LEMMA ReaderSteps ==
    ASSUME Inv, NEW q \in Readers, ReaderStep(q)
    PROVE  Fine
<1>1. q \in Procs
  BY ReaderFacts
<1>2. CASE FlushWait(q) \/ FlushSkip(q) \/ FlushStart(q) \/ FlushIo(q) \/ FlushEnd(q)
  BY <1>1, <1>2, FlushSteps
<1>3. CASE ReadStart(q) \/ FillReturn(q) \/ ReadIo(q)
  BY <1>3, ReadStartOK, FillReturnOK, ReadIoOK
<1>4. CASE DirectEnd(q) \/ Overlay(q) \/ CopyAfterFill(q)
  BY <1>4, DirectEndOK, OverlayOK, CopyAfterFillOK
<1> QED
  BY <1>2, <1>3, <1>4 DEF ReaderStep

(* A step is steady, or one of the eight the torrent sees. *)
Seen ==
    \/ \E w \in Writers, p \in Pieces, b \in Blocks, v \in Sent : BeginChunkWrite(w, p, b, v)
    \/ \E w \in Writers : FinishChunkWrite(w)
    \/ \E h \in Hashers, p \in Pieces : QueuePieceHash(h, p)
    \/ \E h \in Hashers : CompleteReturn(h) \/ HashFails(h)
    \/ \E q \in Refreshers, p \in Pieces : BeginRefresh(q, p)
    \/ \E q \in Refreshers : SettleRefresh(q)
    \/ \E R \in SUBSET Pieces : UpdateSelection(R)
    \/ CloseFlush \/ CloseFinish

LEMMA SeenOrSteady ==
    ASSUME Inv, Next
    PROVE  Seen \/ Fine \/ UNCHANGED vars
<1>1. CASE \E w \in Writers : WriterStep(w)
  BY <1>1, WriterSteps DEF Seen
<1>2. CASE \E h \in Hashers : HasherStep(h)
  <2>1. PICK h \in Hashers : HasherStep(h)
    BY <1>2
  <2>2. h \in Readers
    BY DEF Readers
  <2> QED
    BY <2>1, <2>2, ReaderSteps, BeginCompleteOK DEF Seen, HasherStep
<1>3. CASE \E q \in Refreshers : RefresherStep(q)
  <2>1. PICK q \in Refreshers : RefresherStep(q)
    BY <1>3
  <2>2. q \in Readers
    BY DEF Readers
  <2> QED
    BY <2>1, <2>2, ReaderSteps DEF Seen, RefresherStep
<1>4. CASE Stopped
  BY <1>4 DEF Stopped
<1> QED
  BY <1>1, <1>2, <1>3, <1>4 DEF Next, Seen, Sent

LEMMA SeenOK ==
    ASSUME Inv, Seen
    PROVE  Inv' /\ KeepsBytes /\ (TorrentInv => TorrentInv')
<1>1. CASE \E w \in Writers, p \in Pieces, b \in Blocks, v \in Sent :
              BeginChunkWrite(w, p, b, v)
  BY <1>1, BeginChunkWriteOK, BeginChunkWriteSeen
<1>2. CASE \E w \in Writers : FinishChunkWrite(w)
  BY <1>2, FinishChunkWriteOK, FinishChunkWriteSeen
<1>3. CASE \E h \in Hashers, p \in Pieces : QueuePieceHash(h, p)
  BY <1>3, QueuePieceHashOK, QueuePieceHashSeen
<1>4. CASE \E h \in Hashers : CompleteReturn(h)
  BY <1>4, CompleteReturnOK, CompleteReturnSeen
<1>5. CASE \E h \in Hashers : HashFails(h)
  BY <1>5, HashFailsOK, HashFailsSeen
<1>6. CASE \E q \in Refreshers, p \in Pieces : BeginRefresh(q, p)
  BY <1>6, BeginRefreshOK, BeginRefreshSeen
<1>7. CASE \E q \in Refreshers : SettleRefresh(q)
  BY <1>7, SettleRefreshOK, SettleRefreshSeen
<1>8. CASE \E R \in SUBSET Pieces : UpdateSelection(R)
  BY <1>8, UpdateSelectionOK, UpdateSelectionSeen
<1>9. CASE CloseFlush \/ CloseFinish
  BY <1>9, CloseFlushOK, CloseFinishOK, CloseSeen
<1> QED
  BY <1>1, <1>2, <1>3, <1>4, <1>5, <1>6, <1>7, <1>8, <1>9 DEF Seen

LEMMA StillOK ==
    ASSUME Inv, UNCHANGED vars
    PROVE  Inv' /\ (TorrentInv => TorrentInv')
<1>1. UNCHANGED <<slot, flushing, fileVars, completed, phase, lock, pc, job, io, status, got>>
  BY DEF vars, storeVars, lifeVars, procVars, coreVars
<1>2. SlotsOK' /\ FilesOK'
  BY <1>1, SlotsStill, FilesStill DEF Inv, StoreInv
<1>3. Threads' /\ Plans' /\ LockOK' /\ OwnInv'
  BY <1>1 DEF Inv, StoreInv, Threads, Plans, LockOK, OwnInv, OneWriter, UnlockedWriter, Target,
              fileVars, closed
<1>4. Steady
  BY <1>1 DEF Steady
<1> QED
  BY <1>2, <1>3, <1>4, SteadyOK DEF Inv, StoreInv

LEMMA StepOK ==
    ASSUME Inv, [Next]_vars
    PROVE  Inv' /\ [KeepsBytes]_vars /\ (TorrentInv => TorrentInv')
<1>1. CASE Seen
  BY <1>1, SeenOK
<1>2. CASE Fine
  BY <1>2, SteadyOK DEF Fine
<1>3. CASE UNCHANGED vars
  BY <1>3, StillOK
<1> QED
  BY <1>1, <1>2, <1>3, SeenOrSteady

-----------------------------------------------------------------------------
(* Bytes that reached a destination file are never overwritten with the zeroes of a slot
   that did not receive them, whatever interleaving of flushes, evictions, write-throughs,
   fills, reselections, I/O errors and close happens: every range a plan or a slot still
   owes was received (flush_piece_unlocked, write_locked, drop_cache_locked). *)
THEOREM NotZeroed == Spec => DiskNeverZeroed
<1>1. Init => Inv
  BY InitOK
<1>2. Inv /\ [Next]_vars => Inv'
  BY StepOK
<1>3. Inv /\ [Next]_vars => [KeepsBytes]_vars
  BY StepOK
<1> QED
  BY <1>1, <1>2, <1>3, PTL DEF Spec, DiskNeverZeroed

(* One thread at a time has an unlocked write of a piece in flight, so an older snapshot
   of a slot never lands over a newer one ("One unlocked writer per piece" of
   flush_piece_unlocked and of the write-through path). *)
THEOREM OneUnlockedWriter == Spec => []OneWriter
<1>1. Init => Inv
  BY InitOK
<1>2. Inv /\ [Next]_vars => Inv'
  BY StepOK
<1>3. Inv => OneWriter
  BY DEF Inv, OwnInv
<1> QED
  BY <1>1, <1>2, <1>3, PTL DEF Spec

(* As long as hashing, refreshing and reselecting a piece are kept apart, the torrent never
   accepts a block of a piece the storage has completed: begin_chunk_write turns away what
   is not missing, and a completed piece has nothing missing until its file is closed. *)
THEOREM NotRewritten ==
    ASSUME Careful
    PROVE  Spec => []CompletedNotRewritten
<1>1. Init => Inv /\ TorrentInv
  BY InitOK
<1>2. Inv /\ TorrentInv /\ [Next]_vars => Inv' /\ TorrentInv'
  BY StepOK
<1>3. Inv /\ TorrentInv => CompletedNotRewritten
  <2> SUFFICES ASSUME Inv, TorrentInv, NEW w \in Writers, pc[w] # "idle", job[w].p \in completed
               PROVE  FALSE
    BY DEF CompletedNotRewritten
  <2>1. job[w].p \in Pieces /\ job[w].b \in Blocks
    BY WriterFacts
  <2>2. got[job[w].p][job[w].b] = "zero"
    BY DEF TorrentInv, Missing
  <2>3. status[job[w].p] = "complete" /\ ~closed
    BY DEF TorrentInv, Trusted
  <2> QED
    BY <2>1, <2>2, <2>3 DEF TorrentInv, Claimed
<1> QED
  BY <1>1, <1>2, <1>3, PTL DEF Spec
=============================================================================
