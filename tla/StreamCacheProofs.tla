------------------------- MODULE StreamCacheProofs -------------------------
(***************************************************************************)
(* What the Direct Play cache keeps for every number of pieces, blocks and *)
(* slots and every session: a piece the storage calls complete can be read *)
(* in full, and the player is never given bytes nobody sent.               *)
(***************************************************************************)
EXTENDS StreamCache, TLAPS

Received == {"good", "bad"}
Full(d) == d \in [Blocks -> Received]

(* A slot is absent or has a value for every block; a block counts as received
   only in a slot that holds it; a whole piece has all of its blocks. *)
Holds(c) ==
    /\ c.slot \in [Pieces -> Slots]
    /\ c.ranges \in [Pieces -> SUBSET Blocks]
    /\ \A p \in Pieces : \A b \in c.ranges[p] :
          Held(c, p) /\ c.slot[p][b] \in Received
    /\ \A p \in Pieces : p \in c.whole => Blocks \subseteq c.ranges[p]

(* A completed piece is not lost; it has a slot, which is then full, or it is
   one of the startup pieces S. *)
Keeps(c, S) ==
    /\ c.completed \subseteq Pieces
    /\ \A p \in c.completed :
          /\ p \notin c.lost
          /\ Held(c, p) \/ p \in S
          /\ Held(c, p) => Full(c.slot[p])

Shape(c) ==
    c = [slot |-> c.slot, order |-> c.order, bytes |-> c.bytes, ranges |-> c.ranges,
         whole |-> c.whole, lost |-> c.lost, completed |-> c.completed]

CacheOK(c, S) == Shape(c) /\ Holds(c) /\ Keeps(c, S)

(* The startup pieces S have a file in f. *)
OnDisk(S, f) == S \subseteq Pieces /\ \A p \in S : f[p] \in Received

FullCopy(r) == r.p \in Pieces /\ Full(r.data)

(* The copies queued for the startup files are of whole pieces. *)
CopiesOK ==
    /\ \A r \in pending \cup flight : FullCopy(r)
    /\ mode = "closed" => pending = {} /\ flight = {}

ReaderOK ==
    /\ reader = [phase |-> reader.phase, p |-> reader.p, b |-> reader.b, got |-> reader.got]
    /\ reader.phase = "waiting" => reader.p \in Pieces /\ reader.b \in Blocks
    /\ reader.got # "zero"

(* The inductive invariant. *)
StreamInv ==
    /\ session \in Sessions
    /\ file \in [Pieces -> {"none", "good", "bad"}]
    /\ CacheOK(cache, saved)
    /\ OnDisk(saved, file)
    /\ mode # "closed" => saved \subseteq cache.completed
    /\ CopiesOK
    /\ ReaderOK

-----------------------------------------------------------------------------
(* Slots *)

LEMMA SlotTypes ==
    /\ NoSlot \in Slots
    /\ [Blocks -> {"good", "bad", "zero"}] \subseteq Slots
    /\ [Blocks -> Received] \subseteq Slots
    /\ \A s \in Slots : s # NoSlot => s \in [Blocks -> {"good", "bad", "zero"}]
    /\ \A s : s \in [Blocks -> {"good", "bad", "zero"}] => s # NoSlot
    /\ \A s : Full(s) => s # NoSlot
<1>0. Blocks # {}
  BY StreamAssumption
<1>1. NoSlot \in Slots
  BY DEF Slots, NoSlot
<1>2. [Blocks -> {"good", "bad", "zero"}] \subseteq Slots
  BY DEF Slots
<1>3. [Blocks -> Received] \subseteq [Blocks -> {"good", "bad", "zero"}]
  BY DEF Received
<1>4. ASSUME NEW s \in Slots, s # NoSlot
      PROVE  s \in [Blocks -> {"good", "bad", "zero"}]
  <2>1. CASE s \in [{} -> {"good", "bad", "zero"}]
    BY <2>1, <1>4 DEF NoSlot
  <2> QED
    BY <2>1 DEF Slots
<1>5. ASSUME NEW s, s \in [Blocks -> {"good", "bad", "zero"}]
      PROVE  s # NoSlot
  <2>1. DOMAIN NoSlot = {} /\ DOMAIN s = Blocks
    BY <1>5 DEF NoSlot
  <2> QED
    BY <2>1, <1>0
<1> QED
  BY <1>1, <1>2, <1>3, <1>4, <1>5 DEF Full

(* One slot, its ranges and its flags change; everything else stays. *)
Except(c, d, p) ==
    /\ Shape(c) /\ Shape(d)
    /\ d.slot \in [Pieces -> Slots] /\ d.ranges \in [Pieces -> SUBSET Blocks]
    /\ d.completed \subseteq Pieces
    /\ \A q \in Pieces : q # p => /\ d.slot[q] = c.slot[q] /\ d.ranges[q] = c.ranges[q]
                                  /\ q \in d.whole => q \in c.whole
                                  /\ q \in d.lost => q \in c.lost
                                  /\ q \in d.completed <=> q \in c.completed

LEMMA OneSlot ==
    ASSUME NEW c, NEW d, NEW p, NEW S, CacheOK(c, S), Except(c, d, p),
           p \in Pieces => \A b \in d.ranges[p] : Held(d, p) /\ d.slot[p][b] \in Received,
           p \in Pieces /\ p \in d.whole => Blocks \subseteq d.ranges[p],
           p \in d.completed => /\ p \notin d.lost
                                /\ Held(d, p) \/ p \in S
                                /\ Held(d, p) => Full(d.slot[p])
    PROVE  CacheOK(d, S)
<1>1. Holds(d)
  BY DEF Holds, CacheOK, Except, Held
<1>2. Keeps(d, S)
  BY DEF Keeps, CacheOK, Except, Held
<1> QED
  BY <1>1, <1>2 DEF CacheOK, Except

(* A slot goes with all that was received of it. *)
Gone(c, d, p) ==
    /\ Except(c, d, p)
    /\ p \in Pieces => /\ d.slot[p] = NoSlot /\ d.ranges[p] = {}
    /\ p \notin d.whole

LEMMA SlotGone ==
    ASSUME NEW c, NEW d, NEW p, NEW S, CacheOK(c, S), Gone(c, d, p),
           p \in d.completed => p \notin d.lost /\ p \in S
    PROVE  CacheOK(d, S)
<1>1. p \in d.completed => /\ p \notin d.lost
                           /\ Held(d, p) \/ p \in S
                           /\ Held(d, p) => Full(d.slot[p])
  BY DEF Gone, Held, Except
<1> QED
  BY <1>1, OneSlot DEF Gone

LEMMA DropShape ==
    ASSUME NEW c, NEW p, NEW S, CacheOK(c, S)
    PROVE  /\ Shape(Drop(c, p))
           /\ Drop(c, p).slot \in [Pieces -> Slots]
           /\ p \in Pieces => Drop(c, p).slot[p] = NoSlot
           /\ \A q \in Pieces : q # p => Drop(c, p).slot[q] = c.slot[q]
           /\ Drop(c, p).ranges = c.ranges /\ Drop(c, p).whole = c.whole
           /\ Drop(c, p).lost = c.lost /\ Drop(c, p).completed = c.completed
BY SlotTypes DEF Drop, Shape, CacheOK, Holds, Held

LEMMA EvictGone ==
    ASSUME NEW c, NEW v, CacheOK(c, saved)
    PROVE  CacheOK(Evict(c, v), saved)
<1> DEFINE e == Drop(c, v)
           d == Evict(c, v)
<1>1. /\ Shape(e) /\ e.slot \in [Pieces -> Slots]
      /\ v \in Pieces => e.slot[v] = NoSlot
      /\ \A q \in Pieces : q # v => e.slot[q] = c.slot[q]
      /\ e.ranges = c.ranges /\ e.whole = c.whole
      /\ e.lost = c.lost /\ e.completed = c.completed
  BY DropShape
<1>2. d = [e EXCEPT !.lost = IF v \in c.completed THEN @ ELSE @ \cup {v},
                    !.ranges[v] = {}, !.whole = @ \ {v},
                    !.completed = IF v \in saved THEN @ ELSE @ \ {v}]
  BY DEF Evict
<1> HIDE DEF e, d
<1>3. c.ranges \in [Pieces -> SUBSET Blocks] /\ c.completed \subseteq Pieces /\ Shape(c)
  BY DEF CacheOK, Holds, Keeps
<1>4. /\ Shape(d) /\ d.slot = e.slot /\ d.ranges = [c.ranges EXCEPT ![v] = {}]
      /\ d.whole = c.whole \ {v}
      /\ d.lost = IF v \in c.completed THEN c.lost ELSE c.lost \cup {v}
      /\ d.completed = IF v \in saved THEN c.completed ELSE c.completed \ {v}
  BY <1>1, <1>2 DEF Shape
<1>5. Gone(c, d, v)
  BY <1>1, <1>3, <1>4, ZenonT(60) DEF Gone, Except
<1>6. v \in d.completed => v \notin d.lost /\ v \in saved
  BY <1>4 DEF CacheOK, Keeps
<1>7. CacheOK(d, saved)
  BY <1>5, <1>6, SlotGone
<1> QED
  BY <1>7 DEF d

LEMMA RoomMade ==
    ASSUME NEW c, NEW p, CacheOK(c, saved)
    PROVE  /\ CacheOK(MakeRoom(c, p), saved)
           /\ saved \subseteq c.completed => saved \subseteq MakeRoom(c, p).completed
<1>1. ASSUME NEW v, saved \subseteq c.completed
      PROVE  saved \subseteq Evict(c, v).completed
  BY <1>1, DropShape DEF Evict, CacheOK, Shape
<1> QED
  BY <1>1, EvictGone DEF MakeRoom

LEMMA Touched ==
    ASSUME NEW c, NEW p, NEW S, CacheOK(c, S)
    PROVE  CacheOK(Touch(c, p), S) /\ Touch(c, p).completed = c.completed
<1> DEFINE d == Touch(c, p)
<1>1. d = [c EXCEPT !.order = Append(Remove(@, p), p)]
  BY DEF Touch
<1> HIDE DEF d
<1>2. Shape(d) /\ d.slot = c.slot /\ d.ranges = c.ranges /\ d.whole = c.whole
      /\ d.lost = c.lost /\ d.completed = c.completed
  BY <1>1 DEF Shape, CacheOK
<1>3. CacheOK(d, S)
  BY <1>2 DEF CacheOK, Holds, Keeps, Held
<1> QED
  BY <1>2, <1>3 DEF d

(* WithSlot makes room, then gives p a slot if it has none. *)
LEMMA SlotMade ==
    ASSUME NEW c, NEW p \in Pieces, CacheOK(c, saved)
    PROVE  LET r == MakeRoom(c, p)
               w == WithSlot(c, p)
           IN  /\ Shape(w) /\ w.slot \in [Pieces -> Slots]
               /\ w.slot[p] \in [Blocks -> {"good", "bad", "zero"}]
               /\ Held(r, p) => w.slot[p] = r.slot[p]
               /\ \A q \in Pieces : q # p => w.slot[q] = r.slot[q]
               /\ w.ranges = r.ranges /\ w.whole = r.whole
               /\ w.lost = r.lost /\ w.completed = r.completed
<1> DEFINE r == MakeRoom(c, p)
           s == IF Held(r, p) THEN r
                ELSE [r EXCEPT !.slot[p] = [b \in Blocks |-> "zero"], !.bytes = @ + 1]
           w == WithSlot(c, p)
<1>1. CacheOK(r, saved)
  BY RoomMade
<1>2. w = [s EXCEPT !.order = Append(Remove(@, p), p)]
  BY DEF WithSlot, Touch
<1> DEFINE zeroes == [b \in Blocks |-> "zero"]
<1>3. zeroes \in [Blocks -> {"good", "bad", "zero"}] /\ zeroes \in Slots
  BY SlotTypes
<1> HIDE DEF zeroes, r, w
<1>4. /\ Shape(s) /\ s.slot \in [Pieces -> Slots]
      /\ s.slot[p] \in [Blocks -> {"good", "bad", "zero"}]
      /\ Held(r, p) => s.slot[p] = r.slot[p]
      /\ \A q \in Pieces : q # p => s.slot[q] = r.slot[q]
      /\ s.ranges = r.ranges /\ s.whole = r.whole
      /\ s.lost = r.lost /\ s.completed = r.completed
  <2>1. CASE Held(r, p)
    BY <2>1, <1>1, SlotTypes DEF CacheOK, Holds, Held
  <2>2. CASE ~Held(r, p)
    <3>1. s = [r EXCEPT !.slot[p] = zeroes, !.bytes = @ + 1]
      BY <2>2 DEF zeroes
    <3> HIDE DEF s
    <3>2. r.slot \in [Pieces -> Slots] /\ Shape(r)
      BY <1>1 DEF CacheOK, Holds
    <3>3. /\ Shape(s) /\ s.slot = [r.slot EXCEPT ![p] = zeroes] /\ s.ranges = r.ranges
          /\ s.whole = r.whole /\ s.lost = r.lost /\ s.completed = r.completed
      BY <3>1, <3>2 DEF Shape
    <3> QED
      BY <3>2, <3>3, <1>3, <2>2
  <2> QED
    BY <2>1, <2>2
<1> HIDE DEF s
<1>5. /\ Shape(w) /\ w.slot = s.slot /\ w.ranges = s.ranges /\ w.whole = s.whole
      /\ w.lost = s.lost /\ w.completed = s.completed
  BY <1>2, <1>4 DEF Shape
<1> QED
  BY <1>4, <1>5 DEF r, w

LEMMA BlockStored ==
    ASSUME NEW c, NEW p \in Pieces, NEW b \in Blocks, NEW data \in Received,
           CacheOK(c, saved), p \notin c.completed
    PROVE  /\ CacheOK(Store(c, p, b, data), saved)
           /\ saved \subseteq c.completed => saved \subseteq Store(c, p, b, data).completed
<1> DEFINE r == MakeRoom(c, p)
           w == WithSlot(c, p)
           received == w.ranges[p] \cup {b}
           d == Store(c, p, b, data)
<1>1. CacheOK(r, saved) /\ (saved \subseteq c.completed => saved \subseteq r.completed)
  BY RoomMade
<1>2. /\ Shape(w) /\ w.slot \in [Pieces -> Slots]
      /\ w.slot[p] \in [Blocks -> {"good", "bad", "zero"}]
      /\ Held(r, p) => w.slot[p] = r.slot[p]
      /\ \A q \in Pieces : q # p => w.slot[q] = r.slot[q]
      /\ w.ranges = r.ranges /\ w.whole = r.whole
      /\ w.lost = r.lost /\ w.completed = r.completed
  BY SlotMade
<1>3. d = [w EXCEPT !.slot[p][b] = data, !.ranges[p] = received,
                    !.whole = IF received = Blocks /\ p \notin w.lost THEN @ \cup {p}
                                                                     ELSE @ \ {p}]
  BY DEF Store
<1>4. p \notin r.completed
  BY DropShape DEF MakeRoom, Evict, CacheOK, Shape
<1> HIDE DEF r, w, d
<1>5. /\ r.ranges \in [Pieces -> SUBSET Blocks] /\ Shape(r) /\ r.completed \subseteq Pieces
      /\ \A x \in r.ranges[p] : Held(r, p) /\ r.slot[p][x] \in Received
  BY <1>1 DEF CacheOK, Holds, Keeps
<1>6. /\ Shape(d) /\ d.slot = [w.slot EXCEPT ![p][b] = data]
      /\ d.ranges = [w.ranges EXCEPT ![p] = received]
      /\ d.lost = w.lost /\ d.completed = w.completed
      /\ p \in d.whole => received = Blocks
      /\ \A q \in Pieces : q # p => (q \in d.whole <=> q \in w.whole)
  BY <1>2, <1>3 DEF Shape
<1>7. received \in SUBSET Blocks
  BY <1>2, <1>5
<1> HIDE DEF received
<1>8. /\ d.slot \in [Pieces -> Slots] /\ d.slot[p] \in [Blocks -> {"good", "bad", "zero"}]
      /\ \A x \in Blocks : d.slot[p][x] = IF x = b THEN data ELSE w.slot[p][x]
      /\ \A q \in Pieces : q # p => d.slot[q] = w.slot[q]
  <2> DEFINE s == [w.slot[p] EXCEPT ![b] = data]
  <2>1. d.slot = [w.slot EXCEPT ![p] = s]
    BY <1>6
  <2>2. /\ s \in [Blocks -> {"good", "bad", "zero"}]
        /\ \A x \in Blocks : s[x] = IF x = b THEN data ELSE w.slot[p][x]
    BY <1>2 DEF Received
  <2>3. s \in Slots
    BY <2>2, SlotTypes
  <2> HIDE DEF s
  <2> QED
    BY <2>1, <2>2, <2>3, <1>2
<1>9. Except(r, d, p)
  BY <1>2, <1>5, <1>6, <1>7, <1>8 DEF Except
<1>10. ASSUME NEW x \in d.ranges[p]
       PROVE  Held(d, p) /\ d.slot[p][x] \in Received
  <2>1. x \in Blocks /\ (x = b \/ x \in r.ranges[p])
    BY <1>2, <1>5, <1>6, <1>7 DEF received
  <2>2. Held(d, p)
    BY <1>8, SlotTypes DEF Held
  <2> QED
    BY <2>1, <2>2, <1>2, <1>5, <1>8
<1>11. p \in d.whole => Blocks \subseteq d.ranges[p]
  BY <1>2, <1>5, <1>6
<1>12. CacheOK(d, saved)
  BY <1>1, <1>9, <1>10, <1>11, <1>2, <1>4, <1>6, OneSlot
<1> QED
  BY <1>1, <1>2, <1>6, <1>12 DEF d

LEMMA NotComplete ==
    ASSUME NEW c, NEW p, CacheOK(c, saved)
    PROVE  /\ CacheOK(MarkNotComplete(c, p), saved)
           /\ MarkNotComplete(c, p).completed = c.completed
<1>1. CASE p \in c.completed
  BY <1>1 DEF MarkNotComplete
<1>2. CASE p \notin c.completed
  <2> DEFINE e == Drop(c, p)
             d == MarkNotComplete(c, p)
  <2>1. /\ Shape(e) /\ e.slot \in [Pieces -> Slots]
        /\ p \in Pieces => e.slot[p] = NoSlot
        /\ \A q \in Pieces : q # p => e.slot[q] = c.slot[q]
        /\ e.ranges = c.ranges /\ e.whole = c.whole
        /\ e.lost = c.lost /\ e.completed = c.completed
    BY DropShape
  <2>2. d = [e EXCEPT !.lost = @ \ {p}, !.ranges[p] = {}, !.whole = @ \ {p}]
    BY <1>2 DEF MarkNotComplete
  <2> HIDE DEF e, d
  <2>3. c.ranges \in [Pieces -> SUBSET Blocks] /\ c.completed \subseteq Pieces /\ Shape(c)
    BY DEF CacheOK, Holds, Keeps
  <2>4. /\ Shape(d) /\ d.slot = e.slot /\ d.ranges = [c.ranges EXCEPT ![p] = {}]
        /\ d.whole = c.whole \ {p} /\ d.lost = c.lost \ {p}
        /\ d.completed = c.completed
    BY <2>1, <2>2 DEF Shape
  <2>5. Gone(c, d, p)
    BY <2>1, <2>3, <2>4 DEF Gone, Except
  <2>6. CacheOK(d, saved)
    BY <2>4, <2>5, <1>2, SlotGone
  <2> QED
    BY <2>4, <2>6 DEF d
<1> QED
  BY <1>1, <1>2

(* Startup pieces found good on disk are complete and need no slot. *)
LEMMA StartupFound ==
    ASSUME NEW c, NEW S, NEW P \in SUBSET Pieces, CacheOK(c, S)
    PROVE  /\ CacheOK(Validate(c, P), S \cup Validated(P))
           /\ Validate(c, P).completed = c.completed \cup Validated(P)
<1> DEFINE valid == Validated(P)
           d == Validate(c, P)
<1>1. d = [c EXCEPT
             !.slot = [p \in Pieces |-> IF p \in valid THEN NoSlot ELSE @[p]],
             !.ranges = [p \in Pieces |-> IF p \in valid THEN {} ELSE @[p]],
             !.whole = @ \ valid, !.lost = @ \ valid, !.completed = @ \cup valid]
  BY DEF Validate, Validated
<1>2. valid \subseteq Pieces
  BY DEF Validated
<1> HIDE DEF valid, d
<1>3. /\ Shape(d)
      /\ d.slot = [p \in Pieces |-> IF p \in valid THEN NoSlot ELSE c.slot[p]]
      /\ d.ranges = [p \in Pieces |-> IF p \in valid THEN {} ELSE c.ranges[p]]
      /\ d.whole = c.whole \ valid /\ d.lost = c.lost \ valid
      /\ d.completed = c.completed \cup valid
  BY <1>1 DEF Shape, CacheOK
<1>4. d.slot \in [Pieces -> Slots] /\ d.ranges \in [Pieces -> SUBSET Blocks]
  BY <1>3, SlotTypes DEF CacheOK, Holds
<1>5. Holds(d)
  BY <1>3, <1>4 DEF CacheOK, Holds, Held
<1>6. Keeps(d, S \cup valid)
  BY <1>2, <1>3 DEF CacheOK, Keeps, Held
<1> QED
  BY <1>3, <1>5, <1>6 DEF CacheOK, valid, d

LEMMA EmptyOK ==
    ASSUME NEW S \in SUBSET Pieces
    PROVE  /\ CacheOK([NoCache EXCEPT !.completed = S], S)
           /\ CacheOK(NoCache, S)
<1> DEFINE d == [NoCache EXCEPT !.completed = S]
<1>1. /\ Shape(NoCache) /\ NoCache.slot = [p \in Pieces |-> NoSlot]
      /\ NoCache.ranges = [p \in Pieces |-> {}]
      /\ NoCache.whole = {} /\ NoCache.lost = {} /\ NoCache.completed = {}
  BY DEF NoCache, Shape
<1>2. /\ Shape(d) /\ d.slot = [p \in Pieces |-> NoSlot] /\ d.ranges = [p \in Pieces |-> {}]
      /\ d.whole = {} /\ d.lost = {} /\ d.completed = S
  BY <1>1 DEF Shape
<1> HIDE DEF d
<1>3. CacheOK(d, S)
  BY <1>2, SlotTypes DEF CacheOK, Holds, Keeps, Held
<1>4. CacheOK(NoCache, S)
  BY <1>1, SlotTypes DEF CacheOK, Holds, Keeps, Held
<1> QED
  BY <1>3, <1>4 DEF d

-----------------------------------------------------------------------------
(* Steps *)

LEMMA InitOK == Init => StreamInv
<1> SUFFICES ASSUME Init PROVE StreamInv
  OBVIOUS
<1>1. CacheOK(cache, saved)
  BY EmptyOK DEF Init
<1>2. ReaderOK
  BY DEF Init, ReaderOK, Idle, None
<1>3. OnDisk(saved, file) /\ CopiesOK /\ session \in Sessions
  BY DEF Init, OnDisk, CopiesOK
<1>4. file \in [Pieces -> {"none", "good", "bad"}] /\ saved = {}
  BY DEF Init
<1> QED
  BY <1>1, <1>2, <1>3, <1>4 DEF StreamInv

storeVars == <<session, file, cache, saved, mode, pending, flight>>

LEMMA Still ==
    ASSUME StreamInv, UNCHANGED <<storeVars, reader>>
    PROVE  StreamInv'
BY DEF StreamInv, storeVars, CopiesOK, ReaderOK

LEMMA ReaderMoves ==
    ASSUME StreamInv, UNCHANGED storeVars, ReaderOK'
    PROVE  StreamInv'
BY DEF StreamInv, storeVars, CopiesOK

LEMMA CacheMoves ==
    ASSUME StreamInv, UNCHANGED <<session, file, saved, mode, pending, flight, reader>>,
           CacheOK(cache', saved),
           mode # "closed" => saved \subseteq cache'.completed
    PROVE  StreamInv'
BY DEF StreamInv, CopiesOK, ReaderOK

LEMMA Quiet ==
    ASSUME StreamInv,
           \/ \E p \in Pieces, b \in Blocks : Land(p, b)
           \/ \E p \in Pieces : Hash(p)
           \/ \E p \in Pieces : ApplyToTorrent(p)
           \/ \E t \in Refreshers, p \in Pieces : RefreshStart(t, p)
           \/ \E t \in Refreshers : RefreshProbe(t)
           \/ \E t \in Refreshers : RefreshWrite(t)
    PROVE  StreamInv'
<1>1. UNCHANGED <<storeVars, reader>>
  BY DEF storeVars, Land, Hash, ApplyToTorrent, RefreshStart, RefreshProbe, RefreshWrite,
         startupVars, readerVars
<1> QED
  BY <1>1, Still

LEMMA Reads ==
    ASSUME StreamInv,
           \/ \E w \in session.wants : ReadStart(w[1], w[2])
           \/ ReadFails \/ NoteServed \/ ReadGivesUp \/ Reopen
    PROVE  StreamInv'
<1>1. UNCHANGED storeVars
  BY DEF storeVars, ReadStart, ReadFails, NoteServed, ReadGivesUp, Reopen, startupVars, readerVars
<1>2. ASSUME NEW w \in session.wants, ReadStart(w[1], w[2]) PROVE ReaderOK'
  <2>1. w[1] \in Pieces /\ w[2] \in Blocks
    BY <1>2, StreamAssumption DEF StreamInv, Session
  <2> QED
    BY <1>2, <2>1 DEF ReadStart, ReaderOK, None
<1>3. ASSUME ReadFails PROVE ReaderOK'
  <2>1. reader' = [phase |-> "ended", p |-> NoPiece, b |-> NoPiece, got |-> None]
    BY <1>3 DEF ReadFails, Idle
  <2> QED
    BY <2>1 DEF ReaderOK, None
<1>4. ASSUME NoteServed \/ ReadGivesUp \/ Reopen PROVE ReaderOK'
  BY <1>4 DEF NoteServed, ReadGivesUp, Reopen, ReaderOK, Idle, None
<1> QED
  BY <1>1, <1>2, <1>3, <1>4, ReaderMoves

LEMMA ReadsBytes ==
    ASSUME StreamInv, ReadBytes
    PROVE  StreamInv'
<1> DEFINE p == reader.p
           data == Contents(cache, p)[reader.b]
<1>1. p \in Pieces /\ reader.b \in Blocks
  BY DEF StreamInv, ReaderOK, ReadBytes
<1>2. data \in Received
  <2>1. CASE p \in cache.completed
    BY <2>1, <1>1 DEF ReadBytes, MayRead, Readable, Contents, StreamInv, CacheOK, Keeps,
                      OnDisk, Full
  <2>2. CASE p \notin cache.completed
    BY <2>2, <1>1 DEF ReadBytes, MayRead, Contents, StreamInv, CacheOK, Holds
  <2> QED
    BY <2>1, <2>2
<1>3. reader' = [reader EXCEPT !.phase = "noting", !.got = data]
  BY DEF ReadBytes
<1> HIDE DEF data
<1>4. ReaderOK'
  <2>1. reader'.got = data /\ reader'.phase = "noting" /\ reader'.p = reader.p
        /\ reader'.b = reader.b
        /\ reader' = [phase |-> reader'.phase, p |-> reader'.p, b |-> reader'.b,
                      got |-> reader'.got]
    BY <1>3 DEF ReaderOK, StreamInv
  <2> QED
    BY <2>1, <1>2 DEF ReaderOK, Received
<1>5. /\ CacheOK(cache', saved) /\ cache'.completed = cache.completed
      /\ UNCHANGED <<session, file, saved, mode, pending, flight>>
  BY Touched DEF ReadBytes, StreamInv, startupVars
<1> QED
  BY <1>4, <1>5 DEF StreamInv, CopiesOK

LEMMA Attaches ==
    ASSUME StreamInv, NEW plan \in session.plans,
           Attach(plan) \/ AttachPreview(plan)
    PROVE  StreamInv'
<1>1. plan \subseteq Pieces
  BY StreamAssumption DEF StreamInv, Session
<1>2. UNCHANGED <<session, pending, flight, reader>> /\ mode # "closed" /\ mode' # "closed"
  BY DEF Attach, AttachPreview, readerVars
<1>3. CopiesOK' /\ ReaderOK' /\ session' \in Sessions
  BY <1>2 DEF StreamInv, CopiesOK, ReaderOK
<1>4. CASE Attach(plan)
  <2>1. /\ saved' = Validated(plan \cap Quick) /\ file' = Checked(plan \cap Quick)
        /\ cache' = [NoCache EXCEPT !.completed = saved']
    BY <1>4 DEF Attach
  <2>2. saved' \in SUBSET Pieces /\ OnDisk(saved', file')
        /\ file' \in [Pieces -> {"none", "good", "bad"}]
    BY <2>1, <1>1 DEF Validated, Checked, OnDisk, Received, StreamInv
  <2>3. CacheOK(cache', saved')
    BY <2>1, <2>2, EmptyOK
  <2>4. cache'.completed = saved'
    BY <2>1 DEF NoCache
  <2> QED
    BY <1>3, <2>2, <2>3, <2>4 DEF StreamInv
<1>5. CASE AttachPreview(plan)
  <2>1. cache' = NoCache /\ saved' = {} /\ file' = file
    BY <1>5 DEF AttachPreview, Forget
  <2>2. CacheOK(cache', saved')
    BY <2>1, EmptyOK
  <2> QED
    BY <1>3, <2>1, <2>2 DEF StreamInv, OnDisk
<1> QED
  BY <1>4, <1>5

LEMMA Empties ==
    ASSUME StreamInv, ReleasePreview \/ Close
    PROVE  StreamInv'
<1>1. UNCHANGED <<session, file, pending, flight, reader>> /\ cache' = NoCache
  BY DEF ReleasePreview, Close, Forget, readerVars, startupVars
<1>2. CASE ReleasePreview
  <2>1. saved' = {} /\ mode' = "off"
    BY <1>2 DEF ReleasePreview, Forget
  <2>2. CacheOK(cache', saved')
    BY <1>1, <2>1, EmptyOK
  <2>3. CopiesOK' /\ ReaderOK' /\ OnDisk(saved', file')
    BY <1>1, <2>1 DEF StreamInv, CopiesOK, ReaderOK, OnDisk
  <2> QED
    BY <1>1, <2>1, <2>2, <2>3 DEF StreamInv
<1>3. CASE Close
  <2>1. saved' = saved /\ mode' = "closed" /\ pending = {} /\ flight = {}
    BY <1>3 DEF Close, startupVars
  <2>2. CacheOK(cache', saved')
    BY <1>1, <2>1, EmptyOK DEF StreamInv, OnDisk
  <2>3. CopiesOK' /\ ReaderOK' /\ OnDisk(saved', file')
    BY <1>1, <2>1 DEF StreamInv, CopiesOK, ReaderOK, OnDisk
  <2> QED
    BY <1>1, <2>1, <2>2, <2>3 DEF StreamInv
<1> QED
  BY <1>2, <1>3

LEMMA Resets ==
    ASSUME StreamInv, NEW t \in Refreshers, RefreshReset(t)
    PROVE  StreamInv'
<1>1. /\ UNCHANGED <<session, file, saved, mode, pending, flight, reader>>
      /\ cache' = IF Attached THEN MarkNotComplete(cache, refresh[t].p) ELSE cache
  BY DEF RefreshReset, startupVars, readerVars
<1>2. CacheOK(cache, saved) /\ (mode # "closed" => saved \subseteq cache.completed)
  BY DEF StreamInv
<1>3. CacheOK(cache', saved) /\ cache'.completed = cache.completed
  BY <1>1, <1>2, NotComplete
<1> QED
  BY <1>1, <1>2, <1>3, CacheMoves

LEMMA Arrives ==
    ASSUME StreamInv, NEW p \in Pieces, NEW b \in Blocks, NEW data \in {"good", "bad"},
           Arrive(p, b, data)
    PROVE  StreamInv'
<1>1. /\ UNCHANGED <<session, file, saved, mode, pending, flight, reader>>
      /\ mode # "closed"
      /\ \/ cache' = cache
         \/ p \notin cache.completed /\ cache' = Store(cache, p, b, data)
  BY DEF Arrive, Attached, startupVars, readerVars
<1>2. CacheOK(cache, saved) /\ saved \subseteq cache.completed
  BY <1>1 DEF StreamInv
<1>3. CacheOK(cache', saved) /\ saved \subseteq cache'.completed
  BY <1>1, <1>2, BlockStored DEF Received
<1> QED
  BY <1>1, <1>3, CacheMoves

LEMMA Plays ==
    ASSUME StreamInv, NEW plan \in session.plans,
           SetStartupFile(plan) \/ SetPreloadFile(plan)
    PROVE  StreamInv'
<1>1. plan \subseteq Pieces
  BY StreamAssumption DEF StreamInv, Session
<1>2. UNCHANGED <<session, pending, flight, reader, mode>> /\ mode = "stream"
  BY DEF SetStartupFile, SetPreloadFile, readerVars
<1>3. CopiesOK' /\ ReaderOK' /\ session' \in Sessions
  BY <1>2 DEF StreamInv, CopiesOK, ReaderOK
<1>4. /\ CacheOK(cache, saved) /\ saved \subseteq cache.completed /\ OnDisk(saved, file)
      /\ file \in [Pieces -> {"none", "good", "bad"}]
  BY <1>2 DEF StreamInv
<1>5. CASE SetPreloadFile(plan)
  <2> DEFINE missing == {p \in plan : p \notin saved /\ p \notin cache.completed}
  <2>1. /\ cache' = Validate(cache, missing) /\ saved' = saved \cup Validated(missing)
        /\ file' = Checked(missing)
    BY <1>5 DEF SetPreloadFile
  <2>2. missing \in SUBSET Pieces
    BY <1>1
  <2>3. /\ OnDisk(saved', file') /\ file' \in [Pieces -> {"none", "good", "bad"}]
    BY <2>1, <2>2, <1>4 DEF OnDisk, Validated, Checked, Received
  <2> HIDE DEF missing
  <2>4. CacheOK(cache', saved') /\ cache'.completed = cache.completed \cup Validated(missing)
    BY <2>1, <2>2, <1>4, StartupFound
  <2> QED
    BY <1>3, <1>4, <2>1, <2>3, <2>4 DEF StreamInv
<1>6. CASE SetStartupFile(plan)
  <2> DEFINE gone == startup \ (plan \cup preload)
             c == [cache EXCEPT !.completed = {p \in @ : p \in gone => Held(cache, p)}]
             kept == {p \in cache.completed : p \in gone => Held(cache, p)}
             missing == {p \in plan : p \notin saved /\ p \notin c.completed}
  <2>1. /\ cache' = Validate(c, missing)
        /\ saved' = (saved \ gone) \cup Validated(missing)
        /\ file' = [p \in Pieces |-> IF p \in gone THEN "none" ELSE Checked(missing)[p]]
    BY <1>6 DEF SetStartupFile
  <2>2. missing \in SUBSET Pieces /\ missing \cap gone = {} /\ missing \cap saved = {}
    BY <1>1
  <2>3. /\ Shape(c) /\ c.slot = cache.slot /\ c.ranges = cache.ranges /\ c.whole = cache.whole
        /\ c.lost = cache.lost
        /\ c.completed = {p \in cache.completed : p \in gone => Held(cache, p)}
    <3>1. c = [cache EXCEPT !.completed = kept]
      OBVIOUS
    <3> HIDE DEF c, kept
    <3>2. /\ Shape(c) /\ c.slot = cache.slot /\ c.ranges = cache.ranges
          /\ c.whole = cache.whole /\ c.lost = cache.lost /\ c.completed = kept
      BY <3>1, <1>4 DEF CacheOK, Shape
    <3> QED
      BY <3>2 DEF kept
  <2> HIDE DEF gone, c, missing
  <2>4. OnDisk(saved', file') /\ file' \in [Pieces -> {"none", "good", "bad"}]
    BY <2>1, <2>2, <1>4 DEF OnDisk, Validated, Checked, Received
  <2>5. CacheOK(c, saved \ gone)
    BY <2>3, <1>4 DEF CacheOK, Holds, Keeps, Held
  <2>6. CacheOK(cache', saved') /\ cache'.completed = c.completed \cup Validated(missing)
    BY <2>1, <2>2, <2>5, StartupFound
  <2>7. saved' \subseteq cache'.completed
    BY <2>1, <2>3, <2>6, <1>4
  <2> QED
    BY <1>3, <2>4, <2>6, <2>7 DEF StreamInv
<1> QED
  BY <1>5, <1>6

LEMMA Injects ==
    ASSUME StreamInv, NEW p \in session.window, Inject(p)
    PROVE  StreamInv'
<1>0. p \in Pieces
  BY StreamAssumption DEF StreamInv, Session
<1> DEFINE r == MakeRoom(cache, p)
           w == WithSlot(cache, p)
           good == [b \in Blocks |-> "good"]
<1>1. /\ UNCHANGED <<session, file, saved, mode, pending, flight, reader>>
      /\ mode # "closed"
      /\ cache' = [w EXCEPT !.slot[p] = good, !.lost = @ \ {p}, !.ranges[p] = Blocks,
                            !.whole = @ \cup {p}, !.completed = @ \cup {p}]
  BY DEF Inject, startupVars, readerVars
<1>2. CacheOK(cache, saved) /\ saved \subseteq cache.completed
  BY <1>1 DEF StreamInv
<1>3. CacheOK(r, saved) /\ saved \subseteq r.completed
  BY <1>2, RoomMade
<1>4. /\ Shape(w) /\ w.slot \in [Pieces -> Slots]
      /\ \A q \in Pieces : q # p => w.slot[q] = r.slot[q]
      /\ w.ranges = r.ranges /\ w.whole = r.whole
      /\ w.lost = r.lost /\ w.completed = r.completed
  BY <1>0, <1>2, SlotMade
<1>5. Full(good) /\ good \in Slots /\ good # NoSlot
  BY SlotTypes DEF Full, Received
<1> HIDE DEF r, w, good
<1>6. PICK d : d = cache'
  OBVIOUS
<1>7. /\ Shape(d) /\ d.slot = [w.slot EXCEPT ![p] = good]
      /\ d.ranges = [w.ranges EXCEPT ![p] = Blocks] /\ d.lost = w.lost \ {p}
      /\ d.whole = w.whole \cup {p} /\ d.completed = w.completed \cup {p}
  BY <1>1, <1>4, <1>6 DEF Shape
<1>8. /\ Shape(r) /\ r.ranges \in [Pieces -> SUBSET Blocks] /\ r.completed \subseteq Pieces
  BY <1>3 DEF CacheOK, Holds, Keeps
<1>9. Except(r, d, p)
  BY <1>0, <1>4, <1>5, <1>7, <1>8 DEF Except
<1>10. d.slot[p] = good /\ d.ranges[p] = Blocks
  BY <1>0, <1>4, <1>7, <1>8
<1>11. Full(d.slot[p]) /\ Held(d, p)
  BY <1>5, <1>10 DEF Held
<1>12. \A b \in d.ranges[p] : Held(d, p) /\ d.slot[p][b] \in Received
  BY <1>10, <1>11 DEF Full
<1>13. CacheOK(d, saved)
  BY <1>3, <1>7, <1>9, <1>10, <1>11, <1>12, OneSlot
<1>14. saved \subseteq d.completed
  BY <1>3, <1>4, <1>7
<1> QED
  BY <1>1, <1>6, <1>13, <1>14, CacheMoves

(* What is queued for the startup files is a copy of a whole piece. *)
LEMMA CopiesFull ==
    ASSUME NEW c, NEW S, NEW P \in SUBSET c.completed, CacheOK(c, S),
           \A r \in pending : FullCopy(r)
    PROVE  \A r \in Queued(c, P) : FullCopy(r)
<1> SUFFICES ASSUME NEW r \in Queued(c, P), r \notin pending PROVE FullCopy(r)
  OBVIOUS
<1>1. PICK q \in P : r = [p |-> q, data |-> c.slot[q]] /\ Held(c, q)
  BY DEF Queued
<1>2. q \in Pieces /\ Full(c.slot[q])
  BY <1>1 DEF CacheOK, Keeps
<1> QED
  BY <1>1, <1>2 DEF FullCopy

LEMMA Applies ==
    ASSUME StreamInv, NEW p \in Pieces, ApplyToStorage(p)
    PROVE  StreamInv'
<1> DEFINE valid == /\ hash[p] = "correct" /\ Attached
                    /\ p \notin cache.lost /\ (p \in cache.whole \/ p \in saved)
<1>1. /\ UNCHANGED <<session, file, saved, mode, flight, reader>>
      /\ cache' = IF valid THEN [cache EXCEPT !.completed = @ \cup {p}]
                  ELSE IF Attached THEN MarkNotComplete(cache, p) ELSE cache
      /\ pending' = IF valid THEN Queued(cache', {p}) ELSE pending
  BY DEF ApplyToStorage
<1>2. CacheOK(cache, saved) /\ (mode # "closed" => saved \subseteq cache.completed)
  BY DEF StreamInv
<1>3. ReaderOK'
  BY <1>1 DEF StreamInv, ReaderOK
<1>4. CASE ~valid
  <2>1. CacheOK(cache', saved) /\ cache'.completed = cache.completed
    BY <1>1, <1>2, <1>4, NotComplete
  <2>2. pending' = pending
    BY <1>1, <1>4
  <2> QED
    BY <1>1, <1>2, <2>1, <2>2, CacheMoves
<1>5. CASE valid
  <2>1. mode # "closed" /\ saved \subseteq cache.completed
    BY <1>5, <1>2 DEF Attached
  <2>2. PICK d : d = cache'
    OBVIOUS
  <2>3. /\ Shape(d) /\ d.slot = cache.slot /\ d.ranges = cache.ranges /\ d.whole = cache.whole
        /\ d.lost = cache.lost /\ d.completed = cache.completed \cup {p}
    BY <1>1, <1>2, <1>5, <2>2 DEF CacheOK, Shape
  <2>4. ASSUME p \notin cache.completed
        PROVE  Held(cache, p) /\ Full(cache.slot[p])
    <3>1. p \in cache.whole /\ Blocks \subseteq cache.ranges[p]
      BY <1>2, <1>5, <2>1, <2>4 DEF CacheOK, Holds
    <3>2. \A b \in Blocks : Held(cache, p) /\ cache.slot[p][b] \in Received
      BY <3>1, <1>2 DEF CacheOK, Holds
    <3>3. Held(cache, p)
      BY <3>2, StreamAssumption
    <3>4. cache.slot[p] \in [Blocks -> {"good", "bad", "zero"}]
      BY <3>3, <1>2, SlotTypes DEF CacheOK, Holds, Held
    <3> QED
      BY <3>2, <3>3, <3>4 DEF Full
  <2>5. CacheOK(d, saved)
    BY <1>2, <1>5, <2>3, <2>4 DEF CacheOK, Holds, Keeps, Held
  <2>6. \A r \in Queued(d, {p}) : FullCopy(r)
    BY <2>3, <2>5, CopiesFull DEF StreamInv, CopiesOK
  <2>7. CopiesOK'
    BY <1>1, <1>5, <2>1, <2>2, <2>6 DEF StreamInv, CopiesOK
  <2> QED
    BY <1>1, <1>3, <2>1, <2>2, <2>3, <2>5, <2>7 DEF StreamInv
<1> QED
  BY <1>4, <1>5

LEMMA Drains ==
    ASSUME StreamInv, DrainStart
    PROVE  StreamInv'
<1>1. UNCHANGED <<session, file, cache, saved, mode, reader>>
      /\ mode # "closed" /\ pending' \cup flight' \subseteq pending \cup flight
  BY DEF DrainStart, StreamInv, CopiesOK, readerVars
<1> QED
  BY <1>1 DEF StreamInv, CopiesOK, ReaderOK

LEMMA DrainCommits ==
    ASSUME StreamInv, NEW ok \in BOOLEAN, DrainCommit(ok)
    PROVE  StreamInv'
<1>1. /\ UNCHANGED <<session, mode, reader>> /\ flight' = {} /\ mode # "closed"
  BY DEF DrainCommit, readerVars, StreamInv, CopiesOK
<1>2. /\ CacheOK(cache, saved) /\ saved \subseteq cache.completed /\ OnDisk(saved, file)
      /\ file \in [Pieces -> {"none", "good", "bad"}] /\ session \in Sessions
      /\ \A r \in pending \cup flight : FullCopy(r)
  BY <1>1 DEF StreamInv, CopiesOK
<1>3. ReaderOK'
  BY <1>1 DEF StreamInv, ReaderOK
<1>4. CASE UNCHANGED <<file, cache, saved, startup, pending>>
  BY <1>1, <1>2, <1>3, <1>4 DEF StreamInv, CopiesOK
<1>5. CASE ~UNCHANGED <<file, cache, saved, startup, pending>>
  <2>1. PICK r \in flight :
           LET p == r.p
               c == IF cache.slot[p] = r.data THEN cache
                    ELSE [Drop(cache, p) EXCEPT !.ranges[p] = {}, !.whole = @ \ {p}]
           IN  /\ file' = [file EXCEPT ![p] = IF Good(r.data) THEN "good" ELSE "bad"]
               /\ cache' = [c EXCEPT !.lost = @ \ {p}, !.completed = @ \cup {p}]
               /\ saved' = saved \cup {p}
               /\ pending' = Queued(cache', cache'.completed)
    BY <1>5 DEF DrainCommit
  <2> DEFINE p == r.p
             e == Drop(cache, p)
             x == [e EXCEPT !.ranges[p] = {}, !.whole = @ \ {p}]
             c == IF cache.slot[p] = r.data THEN cache ELSE x
  <2>2. p \in Pieces /\ Full(r.data)
    BY <1>2 DEF FullCopy
  <2>3. /\ Shape(e) /\ e.slot \in [Pieces -> Slots]
        /\ e.slot[p] = NoSlot
        /\ \A q \in Pieces : q # p => e.slot[q] = cache.slot[q]
        /\ e.ranges = cache.ranges /\ e.whole = cache.whole
        /\ e.lost = cache.lost /\ e.completed = cache.completed
    BY <1>2, <2>2, DropShape
  <2>4. PICK d : d = cache'
    OBVIOUS
  <2>5. d = [c EXCEPT !.lost = @ \ {p}, !.completed = @ \cup {p}]
    BY <2>1, <2>4
  <2> HIDE DEF e
  <2>6. CacheOK(d, saved') /\ d.completed = cache.completed \cup {p}
    <3>1. CacheOK(cache, saved') /\ p \in saved'
      BY <1>2, <2>1 DEF CacheOK, Keeps
    <3>2. CASE cache.slot[p] = r.data
      <4>1. /\ Shape(d) /\ d.slot = cache.slot /\ d.ranges = cache.ranges
            /\ d.whole = cache.whole /\ d.lost = cache.lost \ {p}
            /\ d.completed = cache.completed \cup {p}
        BY <1>2, <2>5, <3>2 DEF CacheOK, Shape
      <4> QED
        BY <4>1, <2>2, <3>1, <3>2 DEF CacheOK, Holds, Keeps, Held
    <3>3. CASE cache.slot[p] # r.data
      <4>0. x = [e EXCEPT !.ranges[p] = {}, !.whole = @ \ {p}]
        OBVIOUS
      <4>1. d = [x EXCEPT !.lost = @ \ {p}, !.completed = @ \cup {p}]
        BY <2>5, <3>3
      <4> HIDE DEF x, p
      <4>2. /\ Shape(x) /\ x.slot = e.slot /\ x.ranges = [cache.ranges EXCEPT ![p] = {}]
            /\ x.whole = cache.whole \ {p} /\ x.lost = cache.lost
            /\ x.completed = cache.completed
        BY <4>0, <2>3 DEF Shape
      <4>3. /\ Shape(d) /\ d.slot = e.slot /\ d.ranges = [cache.ranges EXCEPT ![p] = {}]
            /\ d.whole = cache.whole \ {p} /\ d.lost = cache.lost \ {p}
            /\ d.completed = cache.completed \cup {p}
        BY <4>1, <4>2 DEF Shape
      <4>4. Gone(cache, d, p)
        BY <4>3, <2>2, <2>3, <1>2 DEF Gone, Except, CacheOK, Holds, Keeps
      <4>5. CacheOK(d, saved')
        BY <4>3, <4>4, <3>1, SlotGone
      <4> QED
        BY <4>3, <4>5
    <3> QED
      BY <3>2, <3>3
  <2>7. /\ OnDisk(saved', file') /\ file' \in [Pieces -> {"none", "good", "bad"}]
    BY <2>1, <2>2, <1>2 DEF OnDisk, Received
  <2>8. CopiesOK'
    <3>1. \A y \in Queued(d, d.completed) : FullCopy(y)
      BY <1>2, <2>6, CopiesFull
    <3> QED
      BY <1>1, <2>1, <2>4, <3>1 DEF CopiesOK
  <2>9. saved' \subseteq cache'.completed
    BY <1>2, <2>1, <2>4, <2>6
  <2> QED
    BY <1>1, <1>2, <1>3, <2>4, <2>6, <2>7, <2>8, <2>9 DEF StreamInv
<1> QED
  BY <1>4, <1>5

LEMMA StepOK == StreamInv /\ [Next]_vars => StreamInv'
<1> SUFFICES ASSUME StreamInv, [Next]_vars PROVE StreamInv'
  OBVIOUS
<1>1. CASE UNCHANGED vars
  BY <1>1, Still DEF vars, storeVars, startupVars, readerVars
<1>2. CASE Next
  BY <1>2, Attaches, Plays, Empties, Drains, DrainCommits, Injects, Arrives, Quiet,
     Applies, Resets, Reads, ReadsBytes DEF Next
<1> QED
  BY <1>1, <1>2

LEMMA StreamInvHolds == Spec => []StreamInv
BY InitOK, StepOK, PTL DEF Spec

(* A piece the storage calls complete can be read in full, whatever its cache
   evicted, saved, dropped or found on disk in the meantime; every byte of it was
   received, verified or read from a startup file. *)
THEOREM CompleteWhole == Spec => []CompleteIsWhole
<1>1. StreamInv => CompleteIsWhole
  <2> SUFFICES ASSUME StreamInv, NEW p \in cache.completed
               PROVE  /\ Readable(cache, p)
                      /\ \A b \in Blocks : Contents(cache, p)[b] \in {"good", "bad"}
    BY DEF CompleteIsWhole
  <2> QED
    BY DEF StreamInv, CacheOK, Keeps, OnDisk, Readable, Contents, Full, Received
<1> QED
  BY <1>1, StreamInvHolds, PTL

(* The player is given only bytes somebody sent, also while blocks of an
   unverified piece are evicted and received again around the read. *)
THEOREM Genuine == Spec => []NothingFabricated
<1>1. StreamInv => NothingFabricated
  BY DEF StreamInv, ReaderOK, NothingFabricated
<1> QED
  BY <1>1, StreamInvHolds, PTL
=============================================================================
