---------------------------- MODULE SwarmProofs ----------------------------
(***************************************************************************)
(* Proofs about Swarm, for any number of addresses, tasks, limits and      *)
(* sessions: the half-open budget is what the running dials and handshakes *)
(* hold, and the registry holds one open connection per peer and no more   *)
(* connections than the largest limit.                                     *)
(*                                                                         *)
(* SlotsAreHeld is not inductive: a task that is given up must not leave   *)
(* its entry behind, and the limit that an attach was checked against may  *)
(* be older than the one in force.  SwarmInv adds whose entry a handle is  *)
(* and that every limit read before an attach is one that was in force.    *)
(***************************************************************************)
EXTENDS Swarm, FiniteSetTheorems, TLAPS

Limits == {BurstConns, session.limit} \cup session.limits
Bounded(n) == \E most \in Limits : n <= most

\* A task knows its address and was checked against a limit that was in force.
TaskOK(r) ==
    /\ r \in Connection
    /\ r.phase # "unused" => r.addr \in Addrs
    /\ Bounded(r.max)

Tasks == conn \in [Conns -> Connection] /\ \A c \in Conns : TaskOK(conn[c])

\* A handle belongs to a connection at its address that runs or was aborted.
Handles ==
    /\ handles \in [Addrs -> Conns \cup {NoConn}]
    /\ \A a \in Addrs : handles[a] # NoConn =>
           /\ conn[handles[a]].phase \in {"live", "aborted"}
           /\ conn[handles[a]].addr = a

LimitsOK ==
    /\ session \in Session
    /\ limit \in {session.limit} \cup session.limits
    /\ burstLimit \in Nat /\ burstLimit <= BurstConns

SwarmInv == Tasks /\ Handles /\ LimitsOK /\ OneSlotPerPeer /\ HalfOpenIsHeld

----------------------------------------------------------------------------
(* The greater and the smaller of two numbers.                             *)

LEMMA MaxOfTwo ==
    ASSUME NEW x \in Int, NEW y \in Int
    PROVE  /\ Max({x, y}) \in Int /\ Max({x, y}) >= x /\ Max({x, y}) >= y
           /\ (Max({x, y}) = x \/ Max({x, y}) = y)
<1>1. \E m \in {x, y} : \A n \in {x, y} : m >= n
  OBVIOUS
<1>2. Max({x, y}) \in {x, y} /\ \A n \in {x, y} : Max({x, y}) >= n
  BY <1>1 DEF Max
<1> QED
  BY <1>2

LEMMA MinOfTwo ==
    ASSUME NEW x \in Int, NEW y \in Int
    PROVE  /\ Min({x, y}) \in Int /\ Min({x, y}) <= x /\ Min({x, y}) <= y
           /\ (Min({x, y}) = x \/ Min({x, y}) = y)
<1>1. \E m \in {x, y} : \A n \in {x, y} : n >= m
  OBVIOUS
<1>2. Min({x, y}) \in {x, y} /\ \A n \in {x, y} : n >= Min({x, y})
  BY <1>1 DEF Min
<1> QED
  BY <1>2

LEMMA MinOfThree ==
    ASSUME NEW x \in Int, NEW y \in Int, NEW z \in Int
    PROVE  Min({x, y, z}) \in Int /\ Min({x, y, z}) <= z
<1>1. \E m \in {x, y, z} : \A n \in {x, y, z} : n >= m
  OBVIOUS
<1>2. Min({x, y, z}) \in {x, y, z} /\ \A n \in {x, y, z} : n >= Min({x, y, z})
  BY <1>1 DEF Min
<1> QED
  BY <1>2

LEMMA Sizes ==
    /\ IsFiniteSet(Addrs) /\ IsFiniteSet(Conns) /\ NoConn \notin Addrs /\ NoConn \notin Conns
    /\ Total \in Nat /\ PerTorrent \in Nat /\ BurstConns \in Nat /\ Elsewhere \in Nat
  BY SwarmAssumption

LEMMA RegisteredIsFinite ==
    ASSUME NEW S \in SUBSET Addrs
    PROVE  IsFiniteSet(S) /\ Cardinality(S) \in Nat
  BY Sizes, FS_Subset, FS_CardinalityType

LEMMA TasksAreFinite ==
    ASSUME NEW S \in SUBSET Conns
    PROVE  IsFiniteSet(S) /\ Cardinality(S) \in Nat
  BY Sizes, FS_Subset, FS_CardinalityType

\* The limit that an attach reads is one that is in force.
LEMMA ConnLimit ==
    ASSUME LimitsOK
    PROVE  conn_limit \in Nat /\ Bounded(conn_limit) /\ limit \in Nat
<1>1. limit \in Nat /\ burstLimit \in Nat /\ burstLimit <= BurstConns /\ BurstConns \in Nat
  BY Sizes DEF LimitsOK, Session
<1>2. Bounded(limit)
  BY <1>1 DEF LimitsOK, Bounded, Limits
<1>3. Bounded(burstLimit)
  BY <1>1 DEF Bounded, Limits
<1>4. limit \in Int /\ burstLimit \in Int
  BY <1>1
<1>5. Max({limit, burstLimit}) = limit \/ Max({limit, burstLimit}) = burstLimit
  BY <1>4, MaxOfTwo
<1> QED
  BY <1>1, <1>2, <1>3, <1>5 DEF conn_limit

----------------------------------------------------------------------------
(* What the steps have in common.                                          *)

\* A registered connection goes on, perhaps closed.
Kept(r, t) ==
    /\ t.phase \in {"live", "aborted"} /\ t.addr = r.addr
    /\ t.why = "" => r.why = ""

\* Every handle that remains is the one that was there.
Keeps ==
    /\ handles' \in [Addrs -> Conns \cup {NoConn}]
    /\ \A a \in Addrs : handles'[a] # NoConn =>
           handles'[a] = handles[a] /\ Kept(conn[handles[a]], conn'[handles[a]])

LEMMA LimitsAreNumbers ==
    ASSUME LimitsOK
    PROVE  Limits \subseteq Nat
  BY Sizes DEF LimitsOK, Limits, Session

LEMMA RegistryStep ==
    ASSUME LimitsOK, Handles, OneSlotPerPeer, session' = session, Keeps
    PROVE  Handles' /\ OneSlotPerPeer'
<1>1. \A a \in Addrs : handles'[a] # NoConn =>
          /\ handles[a] # NoConn /\ handles'[a] = handles[a]
          /\ conn'[handles'[a]].phase \in {"live", "aborted"}
          /\ conn'[handles'[a]].addr = a
          /\ conn'[handles'[a]].why = "" => conn[handles[a]].why = ""
  BY DEF Keeps, Kept, Handles
<1>2. Handles'
  BY <1>1 DEF Keeps, Handles
<1>3. Registered' \subseteq Registered /\ Open' \subseteq Open
  BY <1>1 DEF Registered, Open
<1>4. /\ Cardinality(Registered) \in Nat /\ Cardinality(Registered') \in Nat
      /\ Cardinality(Registered') <= Cardinality(Registered)
  <2>1. Registered \in SUBSET Addrs /\ Registered' \in SUBSET Registered
    BY <1>3 DEF Registered
  <2>2. IsFiniteSet(Registered) /\ Cardinality(Registered) \in Nat
    BY <2>1, RegisteredIsFinite
  <2>3. IsFiniteSet(Registered') /\ Cardinality(Registered') <= Cardinality(Registered)
    BY <2>1, <2>2, FS_Subset
  <2> QED
    BY <2>2, <2>3, FS_CardinalityType
<1>5. PICK most \in Limits : Cardinality(Registered) <= most
  BY DEF OneSlotPerPeer, Limits
<1>6. \A a, b \in Open' : PeerOf[a] = PeerOf[b] => a = b
  BY <1>3 DEF OneSlotPerPeer
<1>7. most \in Limits'
  BY <1>5 DEF Limits
<1>8. Cardinality(Registered') <= most
  BY <1>4, <1>5, LimitsAreNumbers
<1> QED
  BY <1>2, <1>6, <1>7, <1>8 DEF OneSlotPerPeer, Limits

\* Handles and tasks of which neither changes.
LEMMA PoolStep ==
    ASSUME SwarmInv, UNCHANGED <<conn, handles, halfVars, limit, burstLimit, session>>
    PROVE  SwarmInv'
<1>1. (Tasks /\ Handles /\ LimitsOK)'
  BY DEF SwarmInv, Tasks, TaskOK, Bounded, Limits, Handles, LimitsOK
<1>2. OneSlotPerPeer' /\ HalfOpenIsHeld'
  BY DEF SwarmInv, OneSlotPerPeer, HalfOpenIsHeld, Open, Registered, In, halfVars
<1> QED
  BY <1>1, <1>2 DEF SwarmInv

\* A task of which there is no handle is any other task afterwards; a task of which
\* there is one is kept.
LEMMA OneTask ==
    ASSUME SwarmInv, session' = session, handles' = handles,
           NEW c \in Conns, NEW r, conn' = [conn EXCEPT ![c] = r], TaskOK(r),
           conn[c].phase \notin {"live", "aborted"} \/ Kept(conn[c], r)
    PROVE  Tasks' /\ Handles' /\ OneSlotPerPeer'
<1>1. conn'[c] = r /\ \A d \in Conns : d # c => conn'[d] = conn[d]
  BY DEF SwarmInv, Tasks
<1>2. Tasks'
  BY <1>1 DEF SwarmInv, Tasks, TaskOK, Bounded, Limits
<1>3. \A a \in Addrs : handles[a] # NoConn => Kept(conn[handles[a]], conn'[handles[a]])
  <2> SUFFICES ASSUME NEW a \in Addrs, handles[a] # NoConn
               PROVE  Kept(conn[handles[a]], conn'[handles[a]])
    OBVIOUS
  <2>1. handles[a] \in Conns /\ conn[handles[a]].phase \in {"live", "aborted"}
    BY DEF SwarmInv, Handles
  <2> QED
    BY <1>1, <2>1 DEF Kept
<1>4. Keeps
  BY <1>3 DEF Keeps, SwarmInv, Handles
<1> QED
  BY <1>2, <1>4, RegistryStep DEF SwarmInv

\* Closing the connections at some addresses, and forgetting their handles or not.
LEMMA Closing ==
    ASSUME SwarmInv, session' = session, NEW as \in SUBSET Addrs, NEW why \in Reasons, why # "",
           conn' = Closed(conn, as, why), handles' = handles \/ handles' = Without(as)
    PROVE  /\ Tasks' /\ Handles' /\ OneSlotPerPeer'
           /\ \A c \in Conns : conn'[c].phase = conn[c].phase
<1>1. \A c \in Conns : conn'[c] = conn[c] \/ conn'[c] = [conn[c] EXCEPT !.why = why]
  BY DEF Closed
<1>2. \A c \in Conns : conn'[c] \in Connection /\ conn'[c].phase = conn[c].phase
                       /\ conn'[c].addr = conn[c].addr /\ conn'[c].max = conn[c].max
                       /\ (conn'[c].why = "" => conn[c].why = "")
  <2> SUFFICES ASSUME NEW c \in Conns
               PROVE  conn'[c] \in Connection /\ conn'[c].phase = conn[c].phase
                       /\ conn'[c].addr = conn[c].addr /\ conn'[c].max = conn[c].max
                       /\ (conn'[c].why = "" => conn[c].why = "")
    OBVIOUS
  <2>1. conn[c] \in Connection
    BY DEF SwarmInv, Tasks
  <2> QED
    BY <1>1, <2>1 DEF Connection
<1>3. DOMAIN conn' = Conns /\ conn' = [c \in Conns |-> conn'[c]]
  BY DEF Closed
<1>4. Tasks'
  BY <1>2, <1>3, ZenonT(60) DEF SwarmInv, Tasks, TaskOK, Bounded, Limits
<1>5. /\ handles' \in [Addrs -> Conns \cup {NoConn}]
      /\ \A a \in Addrs : handles'[a] # NoConn => handles'[a] = handles[a]
  BY DEF Without, SwarmInv, Handles
<1>6. Keeps
  <2> SUFFICES ASSUME NEW a \in Addrs, handles'[a] # NoConn
               PROVE  Kept(conn[handles[a]], conn'[handles[a]])
    BY <1>5 DEF Keeps
  <2>1. handles[a] \in Conns /\ conn[handles[a]].phase \in {"live", "aborted"}
    BY <1>5 DEF SwarmInv, Handles
  <2> QED
    BY <1>2, <2>1 DEF Kept
<1> QED
  BY <1>2, <1>4, <1>6, RegistryStep DEF SwarmInv

----------------------------------------------------------------------------
(* The half-open budget.                                                   *)

HalfPhases == {"dialing", "arriving"}

LEMMA HalfTypes ==
    ASSUME HalfOpenIsHeld
    PROVE  /\ halfOpen \in Nat /\ halfHere \in Nat /\ Max({Total, BurstConns}) \in Nat
           /\ Max({Total, BurstConns}) >= Total /\ Max({Total, BurstConns}) >= BurstConns
<1>1. In("dialing") \in SUBSET Conns /\ In("dialing") \cup In("arriving") \in SUBSET Conns
  BY DEF In
<1>2. halfOpen \in Nat /\ halfHere \in Nat
  BY <1>1, TasksAreFinite DEF HalfOpenIsHeld
<1>3. Total \in Int /\ BurstConns \in Int /\ Total \in Nat /\ BurstConns \in Nat
  BY Sizes
<1>4. Max({Total, BurstConns}) \in Nat
  BY <1>3, MaxOfTwo
<1>5. Max({Total, BurstConns}) >= Total /\ Max({Total, BurstConns}) >= BurstConns
  BY <1>3, MaxOfTwo
<1> QED
  BY <1>2, <1>4, <1>5

\* Nobody begins or ends a dial or an inbound handshake.
LEMMA HalfStays ==
    ASSUME HalfOpenIsHeld, UNCHANGED halfVars,
           \A c \in Conns : \A p \in HalfPhases : conn'[c].phase = p <=> conn[c].phase = p
    PROVE  HalfOpenIsHeld'
<1>1. In("dialing")' = In("dialing") /\ In("arriving")' = In("arriving")
  BY DEF In, HalfPhases
<1> QED
  BY <1>1 DEF HalfOpenIsHeld, halfVars

\* The same, of a single task.
LEMMA HalfApart ==
    ASSUME Tasks, HalfOpenIsHeld, UNCHANGED halfVars, NEW c \in Conns, NEW r,
           conn' = [conn EXCEPT ![c] = r],
           (conn[c].phase \notin HalfPhases /\ r.phase \notin HalfPhases) \/ conn[c].phase = r.phase
    PROVE  HalfOpenIsHeld'
<1>1. conn'[c] = r /\ \A d \in Conns : d # c => conn'[d] = conn[d]
  BY DEF Tasks
<1> QED
  BY <1>1, HalfStays DEF HalfPhases

\* A dial takes both guards.
LEMMA HalfDials ==
    ASSUME Tasks, HalfOpenIsHeld, NEW c \in Conns, NEW r, conn' = [conn EXCEPT ![c] = r],
           conn[c].phase \notin HalfPhases, r.phase = "dialing",
           halfOpen' = halfOpen + 1, halfHere' = halfHere + 1, halfOpen < Max({Total, BurstConns})
    PROVE  HalfOpenIsHeld'
<1>1. conn'[c] = r /\ \A d \in Conns : d # c => conn'[d] = conn[d]
  BY DEF Tasks
<1>2. In("dialing")' = In("dialing") \cup {c} /\ c \notin In("dialing")
  BY <1>1 DEF In, HalfPhases
<1>3. (In("dialing") \cup In("arriving"))' = (In("dialing") \cup In("arriving")) \cup {c}
      /\ c \notin In("dialing") \cup In("arriving")
  BY <1>1 DEF In, HalfPhases
<1>4. IsFiniteSet(In("dialing")) /\ IsFiniteSet(In("dialing") \cup In("arriving"))
  <2>1. In("dialing") \in SUBSET Conns /\ In("dialing") \cup In("arriving") \in SUBSET Conns
    BY DEF In
  <2> QED
    BY <2>1, TasksAreFinite
<1>5. Cardinality(In("dialing")') = Cardinality(In("dialing")) + 1
  BY <1>2, <1>4, FS_AddElement
<1>6. Cardinality((In("dialing") \cup In("arriving"))') = Cardinality(In("dialing") \cup In("arriving")) + 1
  BY <1>3, <1>4, FS_AddElement
<1> QED
  BY <1>5, <1>6, HalfTypes DEF HalfOpenIsHeld

\* A dial gives them back.
LEMMA HalfDialled ==
    ASSUME Tasks, HalfOpenIsHeld, NEW c \in Conns, NEW r, conn' = [conn EXCEPT ![c] = r],
           conn[c].phase = "dialing", r.phase \notin HalfPhases, ReleaseBoth
    PROVE  HalfOpenIsHeld'
<1>1. conn'[c] = r /\ \A d \in Conns : d # c => conn'[d] = conn[d]
  BY DEF Tasks
<1>2. In("dialing")' = In("dialing") \ {c} /\ c \in In("dialing")
  BY <1>1 DEF In, HalfPhases
<1>3. (In("dialing") \cup In("arriving"))' = (In("dialing") \cup In("arriving")) \ {c}
      /\ c \in In("dialing") \cup In("arriving")
  BY <1>1 DEF In, HalfPhases
<1>4. IsFiniteSet(In("dialing")) /\ IsFiniteSet(In("dialing") \cup In("arriving"))
  <2>1. In("dialing") \in SUBSET Conns /\ In("dialing") \cup In("arriving") \in SUBSET Conns
    BY DEF In
  <2> QED
    BY <2>1, TasksAreFinite
<1>5. Cardinality(In("dialing")') = Cardinality(In("dialing")) - 1
  BY <1>2, <1>4, FS_RemoveElement
<1>6. Cardinality((In("dialing") \cup In("arriving"))') = Cardinality(In("dialing") \cup In("arriving")) - 1
  BY <1>3, <1>4, FS_RemoveElement
<1> QED
  BY <1>5, <1>6, HalfTypes DEF HalfOpenIsHeld, ReleaseBoth

\* An inbound handshake takes the global guard ...
LEMMA HalfArrives ==
    ASSUME Tasks, HalfOpenIsHeld, NEW c \in Conns, NEW r, conn' = [conn EXCEPT ![c] = r],
           conn[c].phase \notin HalfPhases, r.phase = "arriving",
           halfOpen' = halfOpen + 1, halfHere' = halfHere, halfOpen < Max({Total, BurstConns})
    PROVE  HalfOpenIsHeld'
<1>1. conn'[c] = r /\ \A d \in Conns : d # c => conn'[d] = conn[d]
  BY DEF Tasks
<1>2. In("dialing")' = In("dialing")
  BY <1>1 DEF In, HalfPhases
<1>3. (In("dialing") \cup In("arriving"))' = (In("dialing") \cup In("arriving")) \cup {c}
      /\ c \notin In("dialing") \cup In("arriving")
  BY <1>1 DEF In, HalfPhases
<1>4. IsFiniteSet(In("dialing") \cup In("arriving"))
  <2>1. In("dialing") \cup In("arriving") \in SUBSET Conns
    BY DEF In
  <2> QED
    BY <2>1, TasksAreFinite
<1>5. Cardinality((In("dialing") \cup In("arriving"))') = Cardinality(In("dialing") \cup In("arriving")) + 1
  BY <1>3, <1>4, FS_AddElement
<1> QED
  BY <1>2, <1>5, HalfTypes DEF HalfOpenIsHeld

\* ... and gives it back.
LEMMA HalfArrived ==
    ASSUME Tasks, HalfOpenIsHeld, NEW c \in Conns, NEW r, conn' = [conn EXCEPT ![c] = r],
           conn[c].phase = "arriving", r.phase \notin HalfPhases,
           halfOpen' = halfOpen - 1, halfHere' = halfHere
    PROVE  HalfOpenIsHeld'
<1>1. conn'[c] = r /\ \A d \in Conns : d # c => conn'[d] = conn[d]
  BY DEF Tasks
<1>2. In("dialing")' = In("dialing")
  BY <1>1 DEF In, HalfPhases
<1>3. (In("dialing") \cup In("arriving"))' = (In("dialing") \cup In("arriving")) \ {c}
      /\ c \in In("dialing") \cup In("arriving")
  BY <1>1 DEF In, HalfPhases
<1>4. IsFiniteSet(In("dialing") \cup In("arriving"))
  <2>1. In("dialing") \cup In("arriving") \in SUBSET Conns
    BY DEF In
  <2> QED
    BY <2>1, TasksAreFinite
<1>5. Cardinality((In("dialing") \cup In("arriving"))') = Cardinality(In("dialing") \cup In("arriving")) - 1
  BY <1>3, <1>4, FS_RemoveElement
<1> QED
  BY <1>2, <1>5, HalfTypes DEF HalfOpenIsHeld

----------------------------------------------------------------------------
(* The steps, component by component.                                      *)

LEMMA LimitsStay ==
    ASSUME LimitsOK, UNCHANGED limitVars, session' = session
    PROVE  LimitsOK'
  BY DEF LimitsOK, limitVars

\* Every action of the session keeps it.
LEMMA SessionStays ==
    ASSUME NEW e
    PROVE  (Happens(e) => session' = session) /\ (Quiet => session' = session)
  BY DEF Happens, Quiet

LEMMA UnusedIsOK ==
    ASSUME LimitsOK
    PROVE  /\ TaskOK(Unused) /\ Unused.phase = "unused" /\ Unused.why = "" /\ Unused.max = 0
           /\ Bounded(0) /\ Unused \in Connection
<1>1. Bounded(0)
  BY Sizes DEF LimitsOK, Session, Bounded, Limits
<1>2. Unused \in Connection
  BY DEF Unused, Connection, Phases, Reasons
<1> QED
  BY <1>1, <1>2 DEF TaskOK, Unused

\* A task ends.
LEMMA TaskEnds ==
    ASSUME SwarmInv, session' = session, handles' = handles, UNCHANGED limitVars,
           NEW c \in Conns, conn[c].phase \notin {"live", "aborted"},
           conn' = [conn EXCEPT ![c] = Unused],
           \/ conn[c].phase \notin HalfPhases /\ UNCHANGED halfVars
           \/ conn[c].phase = "dialing" /\ ReleaseBoth
           \/ conn[c].phase = "arriving" /\ halfOpen' = halfOpen - 1 /\ halfHere' = halfHere
    PROVE  SwarmInv'
<1>1. TaskOK(Unused) /\ Unused.phase = "unused" /\ Unused.phase \notin HalfPhases
  BY UnusedIsOK DEF SwarmInv, HalfPhases
<1>2. Tasks' /\ Handles' /\ OneSlotPerPeer'
  BY <1>1, OneTask
<1>3. LimitsOK'
  BY LimitsStay DEF SwarmInv
<1>4. HalfOpenIsHeld'
  <2>1. CASE conn[c].phase \notin HalfPhases /\ UNCHANGED halfVars
    BY <1>1, <2>1, HalfApart DEF SwarmInv
  <2>2. CASE conn[c].phase = "dialing" /\ ReleaseBoth
    BY <1>1, <2>2, HalfDialled DEF SwarmInv
  <2>3. CASE conn[c].phase = "arriving" /\ halfOpen' = halfOpen - 1 /\ halfHere' = halfHere
    BY <1>1, <2>3, HalfArrived DEF SwarmInv
  <2> QED
    BY <2>1, <2>2, <2>3
<1> QED
  BY <1>2, <1>3, <1>4 DEF SwarmInv

\* A record of a task after a change of its phase, its flags or its limit.
LEMMA TaskFields ==
    ASSUME NEW r, TaskOK(r), r.phase # "unused"
    PROVE  /\ r \in Connection /\ r.addr \in Addrs /\ Bounded(r.max)
           /\ \A p \in Phases : TaskOK([r EXCEPT !.phase = p])
                                /\ [r EXCEPT !.phase = p].phase = p
           /\ TaskOK([r EXCEPT !.second = TRUE])
           /\ TaskOK([r EXCEPT !.rerouted = TRUE])
           /\ TaskOK([r EXCEPT !.useful = TRUE])
           /\ \A w \in Reasons : TaskOK([r EXCEPT !.why = w])
           /\ TaskOK([r EXCEPT !.phase = "shaken", !.second = FALSE, !.rerouted = FALSE])
           /\ \A n \in Nat : Bounded(n) => TaskOK([r EXCEPT !.phase = "checked", !.max = n])
           /\ Bounded(0) => TaskOK([r EXCEPT !.phase = "live", !.max = 0])
<1>1. r \in Connection /\ r.addr \in Addrs /\ Bounded(r.max)
  BY DEF TaskOK
<1>2. \A p \in Phases : TaskOK([r EXCEPT !.phase = p]) /\ [r EXCEPT !.phase = p].phase = p
  BY <1>1 DEF TaskOK, Connection
<1>3. TaskOK([r EXCEPT !.second = TRUE]) /\ TaskOK([r EXCEPT !.rerouted = TRUE])
      /\ TaskOK([r EXCEPT !.useful = TRUE])
  BY <1>1 DEF TaskOK, Connection
<1>4. \A w \in Reasons : TaskOK([r EXCEPT !.why = w])
  BY <1>1 DEF TaskOK, Connection
<1>5. TaskOK([r EXCEPT !.phase = "shaken", !.second = FALSE, !.rerouted = FALSE])
  BY <1>1 DEF TaskOK, Connection, Phases
<1>6. \A n \in Nat : Bounded(n) => TaskOK([r EXCEPT !.phase = "checked", !.max = n])
  BY <1>1 DEF TaskOK, Connection, Phases
<1>7. Bounded(0) => TaskOK([r EXCEPT !.phase = "live", !.max = 0])
  BY <1>1 DEF TaskOK, Connection, Phases
<1> QED
  BY <1>1, <1>2, <1>3, <1>4, <1>5, <1>6, <1>7

\* A new task begins in a free place.
LEMMA TaskBegins ==
    ASSUME SwarmInv, session' = session, handles' = handles, UNCHANGED limitVars, Free # {},
           NEW r, TaskOK(r), conn' = [conn EXCEPT ![CHOOSE c \in Free : TRUE] = r],
           \/ r.phase \notin HalfPhases /\ UNCHANGED halfVars
           \/ /\ r.phase = "arriving" /\ halfOpen < Total
              /\ halfOpen' = halfOpen + 1 /\ halfHere' = halfHere
    PROVE  SwarmInv'
<1>1. PICK c \in Free : c = CHOOSE d \in Free : TRUE
  OBVIOUS
<1>2. c \in Conns /\ conn[c].phase = "unused" /\ conn' = [conn EXCEPT ![c] = r]
  BY <1>1 DEF Free
<1>3. conn[c].phase \notin {"live", "aborted"} /\ conn[c].phase \notin HalfPhases
  BY <1>2 DEF HalfPhases
<1>4. Tasks' /\ Handles' /\ OneSlotPerPeer'
  BY <1>2, <1>3, OneTask
<1>5. LimitsOK'
  BY LimitsStay DEF SwarmInv
<1>6. HalfOpenIsHeld'
  <2>1. CASE r.phase \notin HalfPhases /\ UNCHANGED halfVars
    BY <1>2, <1>3, <2>1, HalfApart DEF SwarmInv
  <2>2. CASE /\ r.phase = "arriving" /\ halfOpen < Total
             /\ halfOpen' = halfOpen + 1 /\ halfHere' = halfHere
    <3>1. halfOpen < Max({Total, BurstConns})
      BY <2>2, HalfTypes, Sizes DEF SwarmInv
    <3> QED
      BY <1>2, <1>3, <2>2, <3>1, HalfArrives DEF SwarmInv
  <2> QED
    BY <2>1, <2>2
<1> QED
  BY <1>4, <1>5, <1>6 DEF SwarmInv

LEMMA HalfLimits ==
    ASSUME NEW n \in Nat
    PROVE  /\ HalfLimit(n) \in Nat
           /\ n = Total => HalfLimit(n) <= Max({Total, BurstConns})
<1>1. n \in Int /\ BurstConns \in Int /\ BurstConns \in Nat /\ Total \in Int
  BY Sizes
<1>2. Max({n, BurstConns}) \in Nat
  BY <1>1, MaxOfTwo
<1>3. Max({Total, BurstConns}) \in Int /\ Max({Total, BurstConns}) >= Total
  BY <1>1, MaxOfTwo
<1> QED
  BY <1>1, <1>2, <1>3 DEF HalfLimit

\* The dialer dials no more than there are free places.
LEMMA HeadroomIsFree ==
    ASSUME SwarmInv, dialing \in SUBSET Addrs, NEW b \in BOOLEAN, Headroom(b) > 0
    PROVE  Free # {}
<1> SUFFICES ASSUME Free = {} PROVE FALSE
  OBVIOUS
<1>1. Cardinality(Free) = 0
  BY FS_EmptySet
<1>2. conn_limit \in Nat
  BY ConnLimit DEF SwarmInv
<1>3. Cardinality(Registered) \in Nat /\ Cardinality(Registered \ Outgoing) \in Nat
  <2>1. Registered \in SUBSET Addrs /\ (Registered \ Outgoing) \in SUBSET Addrs
    BY DEF Registered
  <2> QED
    BY <2>1, RegisteredIsFinite
<1>4. max_half_open \in Int
  <2> DEFINE incoming == Cardinality(Registered \ Outgoing)
             wide == incoming - conn_limit \div 2
             room == conn_limit - Cardinality(Registered) + Max({5, wide})
  <2>1. wide \in Int
    BY <1>2, <1>3
  <2> HIDE DEF wide
  <2>2. Max({5, wide}) \in Int
    <3>1. 5 \in Int
      OBVIOUS
    <3> QED
      BY <2>1, <3>1, MaxOfTwo
  <2>3. room \in Int
    BY <1>2, <1>3, <2>2
  <2>5. max_half_open = Min({Max({0, room}), HalfLimit(PerTorrent)})
    BY DEF max_half_open, wide
  <2> HIDE DEF room
  <2>4. Max({0, room}) \in Int /\ HalfLimit(PerTorrent) \in Int
    <3>1. 0 \in Int
      OBVIOUS
    <3>2. Max({0, room}) \in Int
      BY <2>3, <3>1, MaxOfTwo
    <3> QED
      BY <3>2, HalfLimits, Sizes
  <2> QED
    BY <2>4, <2>5, MinOfTwo
<1> DEFINE mine == max_half_open - Cardinality(dialing)
           all == HalfLimit(Total) - halfOpen
           least == Min({mine, all, Cardinality(Free)})
<1>5. all \in Int
  BY HalfTypes, HalfLimits, Sizes DEF SwarmInv
<1>6. mine \in Int
  BY <1>4, RegisteredIsFinite
<1>7. Cardinality(Free) \in Int
  BY <1>1
<1>8. Headroom(b) = Max({0, least})
  <2>1. Headroom(b) # 0
    OBVIOUS
  <2> QED
    BY <2>1 DEF Headroom
<1> HIDE DEF mine, all
<1>9. least \in Int /\ least <= 0
  BY <1>1, <1>5, <1>6, <1>7, MinOfThree
<1> HIDE DEF least
<1>10. Max({0, least}) = 0
  <2>1. 0 \in Int
    OBVIOUS
  <2>2. (Max({0, least}) = 0 \/ Max({0, least}) = least) /\ Max({0, least}) >= 0
    BY <1>9, <2>1, MaxOfTwo
  <2> QED
    BY <1>9, <2>2
<1> QED
  BY <1>8, <1>10

\* What is new in a free place, and what it needs.
LEMMA NewTasks ==
    ASSUME LimitsOK, NEW a \in Addrs
    PROVE  /\ TaskOK([Unused EXCEPT !.phase = "spawned", !.out = TRUE, !.dialled = TRUE, !.addr = a])
           /\ TaskOK([Unused EXCEPT !.phase = "arriving", !.addr = a])
           /\ \A b \in BOOLEAN : TaskOK([Unused EXCEPT !.phase = "shaken", !.addr = a, !.out = b])
  BY UnusedIsOK DEF TaskOK, Connection, Phases, Unused

LEMMA DialStep ==
    ASSUME SwarmInv, dialing \in SUBSET Addrs, NEW a \in Addrs, Dial(a)
    PROVE  SwarmInv'
<1> DEFINE r == [Unused EXCEPT !.phase = "spawned", !.out = TRUE, !.dialled = TRUE, !.addr = a]
<1>1. \E bad \in WorstBad(TRUE) : Headroom(bad # NoConn) > 0
  BY DEF Dial
<1>2. Free # {}
  BY <1>1, HeadroomIsFree
<1>3. conn' = [conn EXCEPT ![CHOOSE c \in Free : TRUE] = r]
  BY DEF Dial
<1>4. session' = session /\ handles' = handles /\ UNCHANGED limitVars /\ UNCHANGED halfVars
  BY SessionStays DEF Dial
<1>5. TaskOK(r) /\ r.phase \notin HalfPhases
  BY NewTasks DEF SwarmInv, Unused, HalfPhases
<1> HIDE DEF r
<1> QED
  BY <1>2, <1>3, <1>4, <1>5, TaskBegins

LEMMA AcceptStep ==
    ASSUME SwarmInv, NEW a \in Addrs, Accept(a)
    PROVE  SwarmInv'
<1> DEFINE r == [Unused EXCEPT !.phase = "arriving", !.addr = a]
<1>1. Free # {} /\ conn' = [conn EXCEPT ![CHOOSE c \in Free : TRUE] = r]
  BY DEF Accept
<1>2. /\ session' = session /\ handles' = handles /\ UNCHANGED limitVars
      /\ halfOpen < Total /\ halfOpen' = halfOpen + 1 /\ halfHere' = halfHere
  BY SessionStays, SMTT(30) DEF Accept
<1>3. TaskOK(r) /\ r.phase = "arriving"
  BY NewTasks DEF SwarmInv, Unused
<1> HIDE DEF r
<1> QED
  BY <1>1, <1>2, <1>3, TaskBegins

LEMMA WebRtcStep ==
    ASSUME SwarmInv, NEW a \in Addrs, AttachWebRtcPeer(a)
    PROVE  SwarmInv'
<1>1. PICK b \in BOOLEAN : conn' = [conn EXCEPT ![CHOOSE c \in Free : TRUE] =
                                      [Unused EXCEPT !.phase = "shaken", !.addr = a, !.out = b]]
  BY DEF AttachWebRtcPeer
<1> DEFINE r == [Unused EXCEPT !.phase = "shaken", !.addr = a, !.out = b]
<1>2. Free # {} /\ conn' = [conn EXCEPT ![CHOOSE c \in Free : TRUE] = r]
  BY <1>1 DEF AttachWebRtcPeer
<1>3. session' = session /\ handles' = handles /\ UNCHANGED limitVars /\ UNCHANGED halfVars
  BY SessionStays DEF AttachWebRtcPeer
<1>4. TaskOK(r) /\ r.phase \notin HalfPhases
  BY NewTasks DEF SwarmInv, Unused, HalfPhases
<1> HIDE DEF r
<1> QED
  BY <1>2, <1>3, <1>4, TaskBegins

LEMMA DialStartStep ==
    ASSUME SwarmInv, NEW c \in Conns, DialStart(c)
    PROVE  SwarmInv'
<1>1. /\ conn[c].phase = "spawned" /\ session' = session /\ handles' = handles
      /\ UNCHANGED limitVars
  BY SessionStays DEF DialStart
<1>2. conn[c].phase \notin {"live", "aborted"} /\ conn[c].phase \notin HalfPhases
  BY <1>1 DEF HalfPhases
<1>3. CASE conn' = [conn EXCEPT ![c] = Unused] /\ UNCHANGED halfVars
  BY <1>1, <1>2, <1>3, TaskEnds, Zenon
<1>4. CASE /\ halfOpen < HalfLimit(Total) /\ halfOpen' = halfOpen + 1 /\ halfHere' = halfHere + 1
           /\ conn' = [conn EXCEPT ![c].phase = "dialing"]
  <2> DEFINE r == [conn[c] EXCEPT !.phase = "dialing"]
  <2>1. TaskOK(conn[c]) /\ conn[c].phase # "unused" /\ "dialing" \in Phases
    BY <1>1 DEF SwarmInv, Tasks, Phases
  <2>2. TaskOK(r) /\ r.phase = "dialing"
    BY <2>1, TaskFields, Zenon
  <2>3. conn' = [conn EXCEPT ![c] = r]
    BY <1>4
  <2> HIDE DEF r
  <2>4. Tasks' /\ Handles' /\ OneSlotPerPeer'
    BY <1>1, <1>2, <2>2, <2>3, OneTask
  <2>5. LimitsOK'
    BY <1>1, LimitsStay DEF SwarmInv
  <2>6. halfOpen < Max({Total, BurstConns})
    BY <1>4, HalfTypes, HalfLimits, Sizes DEF SwarmInv
  <2>7. HalfOpenIsHeld'
    BY <1>2, <1>4, <2>2, <2>3, <2>6, HalfDials DEF SwarmInv
  <2> QED
    BY <2>4, <2>5, <2>7 DEF SwarmInv
<1> QED
  BY <1>3, <1>4 DEF DialStart, DialEnds, Requeue

LEMMA DialEndsStep ==
    ASSUME SwarmInv, NEW c \in Conns, DialFails(c) \/ DialRerouted(c)
    PROVE  SwarmInv'
<1>1. /\ conn[c].phase = "dialing" /\ session' = session /\ handles' = handles
      /\ UNCHANGED limitVars /\ ReleaseBoth /\ conn' = [conn EXCEPT ![c] = Unused]
  BY SessionStays DEF DialFails, DialRerouted, DialEnds, Requeue
<1>2. conn[c].phase \notin {"live", "aborted"}
  BY <1>1
<1> QED
  BY <1>1, <1>2, TaskEnds

\* A task goes on without a change of the half-open budget.
LEMMA TaskGoesOn ==
    ASSUME SwarmInv, session' = session, handles' = handles, UNCHANGED limitVars, UNCHANGED halfVars,
           NEW c \in Conns, NEW r, TaskOK(r), conn' = [conn EXCEPT ![c] = r],
           conn[c].phase \notin {"live", "aborted"} \/ Kept(conn[c], r),
           (conn[c].phase \notin HalfPhases /\ r.phase \notin HalfPhases) \/ conn[c].phase = r.phase
    PROVE  SwarmInv'
<1>1. Tasks' /\ Handles' /\ OneSlotPerPeer'
  BY OneTask
<1>2. LimitsOK'
  BY LimitsStay DEF SwarmInv
<1>3. HalfOpenIsHeld'
  BY HalfApart DEF SwarmInv
<1> QED
  BY <1>1, <1>2, <1>3 DEF SwarmInv

LEMMA HandshakeStep ==
    ASSUME SwarmInv, NEW c \in Conns, HandshakeFails(c)
    PROVE  SwarmInv'
<1> DEFINE r == [conn[c] EXCEPT !.second = TRUE]
<1>1. /\ conn[c].phase = "dialing" /\ session' = session /\ handles' = handles
      /\ UNCHANGED limitVars /\ UNCHANGED halfVars /\ conn' = [conn EXCEPT ![c] = r]
  BY SessionStays DEF HandshakeFails
<1>2. TaskOK(conn[c]) /\ conn[c].phase # "unused"
  BY <1>1 DEF SwarmInv, Tasks
<1>3. TaskOK(r) /\ r.phase = conn[c].phase
  BY <1>2, TaskFields DEF TaskOK, Connection
<1> HIDE DEF r
<1> QED
  BY <1>1, <1>3, TaskGoesOn

LEMMA DialShakesStep ==
    ASSUME SwarmInv, NEW c \in Conns, DialShakes(c)
    PROVE  SwarmInv'
<1> DEFINE r == [conn[c] EXCEPT !.phase = "shaken", !.second = FALSE, !.rerouted = FALSE]
<1>1. /\ conn[c].phase = "dialing" /\ session' = session /\ handles' = handles
      /\ UNCHANGED limitVars /\ ReleaseBoth /\ conn' = [conn EXCEPT ![c] = r]
  BY SessionStays DEF DialShakes
<1>2. TaskOK(conn[c]) /\ conn[c].phase # "unused"
  BY <1>1 DEF SwarmInv, Tasks
<1>3. TaskOK(r) /\ r.phase = "shaken"
  BY <1>2, TaskFields DEF TaskOK, Connection
<1> HIDE DEF r
<1>4. r.phase \notin HalfPhases
  BY <1>3 DEF HalfPhases
<1>5. Tasks' /\ Handles' /\ OneSlotPerPeer'
  BY <1>1, <1>3, OneTask
<1>6. LimitsOK'
  BY <1>1, LimitsStay DEF SwarmInv
<1>7. HalfOpenIsHeld'
  BY <1>1, <1>4, HalfDialled DEF SwarmInv
<1> QED
  BY <1>5, <1>6, <1>7 DEF SwarmInv

LEMMA InboundStep ==
    ASSUME SwarmInv, NEW c \in Conns, Inbound(c)
    PROVE  SwarmInv'
<1>1. /\ conn[c].phase = "arriving" /\ session' = session /\ handles' = handles
      /\ UNCHANGED limitVars /\ halfOpen' = halfOpen - 1 /\ halfHere' = halfHere
  BY SessionStays DEF Inbound
<1>2. conn[c].phase \notin {"live", "aborted"}
  BY <1>1
<1>3. CASE conn' = [conn EXCEPT ![c] = Unused]
  BY <1>1, <1>2, <1>3, TaskEnds, Zenon
<1>4. CASE conn' = [conn EXCEPT ![c].phase = "queued"]
  <2> DEFINE r == [conn[c] EXCEPT !.phase = "queued"]
  <2>1. TaskOK(conn[c]) /\ conn[c].phase # "unused" /\ "queued" \in Phases
    BY <1>1 DEF SwarmInv, Tasks, Phases
  <2>2. TaskOK(r) /\ r.phase = "queued"
    BY <2>1, TaskFields, Zenon
  <2>3. conn' = [conn EXCEPT ![c] = r]
    BY <1>4
  <2> HIDE DEF r
  <2>4. r.phase \notin HalfPhases
    BY <2>2 DEF HalfPhases
  <2>5. Tasks' /\ Handles' /\ OneSlotPerPeer'
    BY <1>1, <1>2, <2>2, <2>3, OneTask
  <2>6. LimitsOK'
    BY <1>1, LimitsStay DEF SwarmInv
  <2>7. HalfOpenIsHeld'
    BY <1>1, <2>3, <2>4, HalfArrived DEF SwarmInv
  <2> QED
    BY <2>5, <2>6, <2>7 DEF SwarmInv
<1> QED
  BY <1>3, <1>4 DEF Inbound

LEMMA AttachAcceptedStep ==
    ASSUME SwarmInv, NEW c \in Conns, AttachAccepted(c)
    PROVE  SwarmInv'
<1>1. /\ conn[c].phase = "queued" /\ session' = session /\ handles' = handles
      /\ UNCHANGED limitVars /\ UNCHANGED halfVars
  BY SessionStays DEF AttachAccepted
<1>2. conn[c].phase \notin {"live", "aborted"} /\ conn[c].phase \notin HalfPhases
  BY <1>1 DEF HalfPhases
<1>3. CASE conn' = [conn EXCEPT ![c] = Unused]
  BY <1>1, <1>2, <1>3, TaskEnds
<1>4. CASE conn' = [conn EXCEPT ![c].phase = "shaken"]
  <2> DEFINE r == [conn[c] EXCEPT !.phase = "shaken"]
  <2>1. TaskOK(conn[c]) /\ conn[c].phase # "unused" /\ "shaken" \in Phases
    BY <1>1 DEF SwarmInv, Tasks, Phases
  <2>2. TaskOK(r) /\ r.phase = "shaken"
    BY <2>1, TaskFields, Zenon
  <2>3. conn' = [conn EXCEPT ![c] = r]
    BY <1>4
  <2> HIDE DEF r
  <2>4. r.phase \notin HalfPhases
    BY <2>2 DEF HalfPhases
  <2> QED
    BY <1>1, <1>2, <2>2, <2>3, <2>4, TaskGoesOn
<1> QED
  BY <1>3, <1>4 DEF AttachAccepted

\* The first questions: a connection replaced in favour of the new one is closed and
\* gives up its handle.
LEMMA AttachCheckStep ==
    ASSUME SwarmInv, NEW c \in Conns, AttachCheck(c)
    PROVE  SwarmInv'
<1> DEFINE r == [conn[c] EXCEPT !.phase = "checked", !.max = conn_limit]
<1>1. /\ conn[c].phase = "shaken" /\ session' = session /\ UNCHANGED limitVars /\ UNCHANGED halfVars
  BY SessionStays DEF AttachCheck
<1>2. conn[c].phase \notin {"live", "aborted"} /\ conn[c].phase \notin HalfPhases
  BY <1>1 DEF HalfPhases
<1>3. TaskOK(conn[c]) /\ conn[c].phase # "unused" /\ conn[c] \in Connection
  BY <1>1 DEF SwarmInv, Tasks
<1>4. TaskOK(r) /\ r.phase = "checked"
  <2>1. conn_limit \in Nat /\ Bounded(conn_limit)
    BY ConnLimit DEF SwarmInv
  <2> QED
    BY <1>3, <2>1, TaskFields DEF Connection
<1>5. CASE Refused(c)
  <2>1. conn' = [conn EXCEPT ![c] = Unused] /\ handles' = handles
    BY <1>5 DEF Refused
  <2> QED
    BY <1>1, <1>2, <2>1, TaskEnds
<1>6. CASE conn' = [conn EXCEPT ![c] = [@ EXCEPT !.phase = "checked", !.max = conn_limit]]
           /\ handles' = handles
  <2>1. conn' = [conn EXCEPT ![c] = r]
    BY <1>6
  <2> HIDE DEF r
  <2>2. r.phase \notin HalfPhases
    BY <1>4 DEF HalfPhases
  <2> QED
    BY <1>1, <1>2, <1>4, <1>6, <2>1, <2>2, TaskGoesOn
<1>7. ASSUME NEW victim \in WorstBad(conn[c].out), victim # NoConn,
             conn' = Closed([conn EXCEPT ![c] = [@ EXCEPT !.phase = "checked", !.max = conn_limit]],
                            {victim}, "replaced"),
             handles' = Without({victim})
      PROVE  SwarmInv'
  <2> DEFINE passed == [conn EXCEPT ![c] = r]
  <2>1. conn' = Closed(passed, {victim}, "replaced")
    BY <1>7
  <2>2. passed[c] = r /\ \A d \in Conns : d # c => passed[d] = conn[d]
    BY DEF SwarmInv, Tasks
  <2>3. \A d \in Conns : TaskOK(passed[d])
    BY <1>4, <2>2 DEF SwarmInv, Tasks
  <2> HIDE DEF passed
  <2>4. \A d \in Conns : conn'[d] = passed[d] \/ conn'[d] = [passed[d] EXCEPT !.why = "replaced"]
    BY <2>1 DEF Closed
  <2>5. \A d \in Conns : TaskOK(conn'[d]) /\ conn'[d].phase = passed[d].phase
           /\ conn'[d].addr = passed[d].addr /\ (conn'[d].why = "" => passed[d].why = "")
    <3> SUFFICES ASSUME NEW d \in Conns
                 PROVE  TaskOK(conn'[d]) /\ conn'[d].phase = passed[d].phase
           /\ conn'[d].addr = passed[d].addr /\ (conn'[d].why = "" => passed[d].why = "")
      OBVIOUS
    <3>1. passed[d] \in Connection /\ TaskOK(passed[d])
      BY <2>3 DEF TaskOK
    <3> QED
      BY <2>4, <3>1, ZenonT(60) DEF TaskOK, Connection, Reasons
  <2>6. Tasks'
    <3>1. conn' = [d \in Conns |-> conn'[d]]
      BY <2>1 DEF Closed
    <3> QED
      BY <1>1, <2>5, <3>1 DEF Tasks, TaskOK, Bounded, Limits
  <2>7. /\ handles' \in [Addrs -> Conns \cup {NoConn}]
        /\ \A a \in Addrs : handles'[a] # NoConn => handles'[a] = handles[a]
    BY <1>7 DEF Without, SwarmInv, Handles
  <2>8. Keeps
    <3> SUFFICES ASSUME NEW a \in Addrs, handles'[a] # NoConn
                 PROVE  Kept(conn[handles[a]], conn'[handles[a]])
      BY <2>7 DEF Keeps
    <3>1. handles[a] \in Conns /\ conn[handles[a]].phase \in {"live", "aborted"}
      BY <2>7 DEF SwarmInv, Handles
    <3>2. passed[handles[a]] = conn[handles[a]]
      BY <1>2, <2>2, <3>1
    <3> QED
      BY <2>5, <3>1, <3>2 DEF Kept
  <2>9. Handles' /\ OneSlotPerPeer'
    BY <1>1, <2>8, RegistryStep DEF SwarmInv
  <2>10. LimitsOK'
    BY <1>1, LimitsStay DEF SwarmInv
  <2>11. HalfOpenIsHeld'
    <3>1. \A d \in Conns : \A p \in HalfPhases : conn'[d].phase = p <=> conn[d].phase = p
      BY <1>2, <1>4, <2>2, <2>5 DEF HalfPhases
    <3> QED
      BY <1>1, <3>1, HalfStays DEF SwarmInv
  <2> QED
    BY <2>6, <2>9, <2>10, <2>11 DEF SwarmInv
<1> QED
  BY <1>5, <1>6, <1>7 DEF AttachCheck

\* Under the write lock: the address is free, no open connection has the same peer and
\* there is room under the limit that was read before.
LEMMA AttachInsertStep ==
    ASSUME SwarmInv, NEW c \in Conns, AttachInsert(c)
    PROVE  SwarmInv'
<1> DEFINE r == [conn[c] EXCEPT !.phase = "live", !.max = 0]
           addr == conn[c].addr
<1>1. /\ conn[c].phase = "checked" /\ session' = session /\ UNCHANGED limitVars /\ UNCHANGED halfVars
  BY SessionStays DEF AttachInsert
<1>2. conn[c].phase \notin {"live", "aborted"} /\ conn[c].phase \notin HalfPhases
  BY <1>1 DEF HalfPhases
<1>3. TaskOK(conn[c]) /\ conn[c].phase # "unused" /\ conn[c] \in Connection /\ addr \in Addrs
      /\ conn[c].max \in Nat /\ Bounded(conn[c].max)
  BY <1>1 DEF SwarmInv, Tasks, TaskOK, Connection
<1>4. CASE Refused(c)
  <2>1. conn' = [conn EXCEPT ![c] = Unused] /\ handles' = handles
    BY <1>4 DEF Refused
  <2> QED
    BY <1>1, <1>2, <2>1, TaskEnds
<1>5. CASE /\ ~(Duplicate(c) \/ Cardinality(Registered) >= conn[c].max)
           /\ handles' = [handles EXCEPT ![conn[c].addr] = c]
           /\ conn' = [conn EXCEPT ![c] = [@ EXCEPT !.phase = "live", !.max = 0]]
  <2>1. TaskOK(r) /\ r.phase = "live" /\ r.addr = addr
    BY <1>3, TaskFields, UnusedIsOK DEF SwarmInv, Connection
  <2>2. conn'[c] = r /\ \A d \in Conns : d # c => conn'[d] = conn[d]
    BY <1>5 DEF SwarmInv, Tasks
  <2>3. conn' = [conn EXCEPT ![c] = r]
    BY <1>5
  <2> HIDE DEF r
  <2>4. Tasks'
    <3>1. conn' \in [Conns -> Connection]
      BY <2>1, <2>3 DEF SwarmInv, Tasks, TaskOK
    <3> QED
      BY <1>1, <2>1, <2>2, <3>1 DEF SwarmInv, Tasks, TaskOK, Bounded, Limits
  <2>5. /\ handles[addr] = NoConn /\ handles'[addr] = c
        /\ \A a \in Addrs : a # addr => handles'[a] = handles[a]
        /\ handles' \in [Addrs -> Conns \cup {NoConn}]
    BY <1>3, <1>5 DEF Duplicate, SwarmInv, Handles
  <2>6. \A a \in Addrs : a # addr /\ handles[a] # NoConn =>
            handles[a] \in Conns /\ handles[a] # c /\ conn'[handles[a]] = conn[handles[a]]
    BY <1>2, <2>2 DEF SwarmInv, Handles
  <2>7. Handles'
    <3> SUFFICES ASSUME NEW a \in Addrs, handles'[a] # NoConn
                 PROVE  /\ conn'[handles'[a]].phase \in {"live", "aborted"}
                        /\ conn'[handles'[a]].addr = a
      BY <2>5 DEF Handles
    <3>1. CASE a = addr
      BY <2>1, <2>2, <2>5, <3>1
    <3>2. CASE a # addr
      BY <2>5, <2>6, <3>2 DEF SwarmInv, Handles
    <3> QED
      BY <3>1, <3>2
  <2>8. Registered' = Registered \cup {addr} /\ addr \notin Registered
    BY <1>3, <2>5, SwarmAssumption DEF Registered
  <2>9. Open' \subseteq Open \cup {addr}
    BY <2>5, <2>6, <2>8 DEF Open, Registered
  <2>10. \A a \in Open : PeerOf[a] # PeerOf[addr]
    BY <1>5 DEF Duplicate
  <2>11. \A a, b \in Open' : PeerOf[a] = PeerOf[b] => a = b
    BY <2>9, <2>10 DEF SwarmInv, OneSlotPerPeer
  <2>12. Cardinality(Registered') = Cardinality(Registered) + 1 /\ Cardinality(Registered) \in Nat
    <3>1. Registered \in SUBSET Addrs
      BY DEF Registered
    <3> QED
      BY <2>8, <3>1, RegisteredIsFinite, FS_AddElement
  <2>13. Cardinality(Registered') <= conn[c].max
    BY <1>3, <1>5, <2>12
  <2>14. PICK most \in Limits : conn[c].max <= most
    BY <1>3 DEF Bounded
  <2>15. Cardinality(Registered') <= most
    BY <1>3, <2>12, <2>13, <2>14, LimitsAreNumbers DEF SwarmInv
  <2>16. OneSlotPerPeer'
    BY <1>1, <2>11, <2>14, <2>15 DEF OneSlotPerPeer, Limits
  <2>17. LimitsOK'
    BY <1>1, LimitsStay DEF SwarmInv
  <2>18. HalfOpenIsHeld'
    <3>1. r.phase \notin HalfPhases
      BY <2>1 DEF HalfPhases
    <3> QED
      BY <1>1, <1>2, <2>3, <3>1, HalfApart DEF SwarmInv
  <2> QED
    BY <2>4, <2>7, <2>16, <2>17, <2>18 DEF SwarmInv
<1> QED
  BY <1>4, <1>5 DEF AttachInsert

LEMMA DeliversStep ==
    ASSUME SwarmInv, NEW c \in Conns, Delivers(c)
    PROVE  SwarmInv'
<1> DEFINE r == [conn[c] EXCEPT !.useful = TRUE]
<1>1. /\ conn[c].phase = "live" /\ session' = session /\ handles' = handles
      /\ UNCHANGED limitVars /\ UNCHANGED halfVars /\ conn' = [conn EXCEPT ![c] = r]
  BY SessionStays DEF Delivers
<1>2. TaskOK(conn[c]) /\ conn[c].phase # "unused" /\ conn[c] \in Connection
  BY <1>1 DEF SwarmInv, Tasks
<1>3. TaskOK(r) /\ Kept(conn[c], r) /\ conn[c].phase = r.phase
  BY <1>1, <1>2, TaskFields DEF Kept, Connection
<1> HIDE DEF r
<1> QED
  BY <1>1, <1>3, TaskGoesOn

LEMMA PeerLeavesStep ==
    ASSUME SwarmInv, NEW c \in Conns, PeerLeaves(c)
    PROVE  SwarmInv'
<1>1. PICK why \in {"gone", "silent"} : conn' = [conn EXCEPT ![c].why = why]
  BY DEF PeerLeaves
<1> DEFINE r == [conn[c] EXCEPT !.why = why]
<1>2. /\ conn[c].phase = "live" /\ session' = session /\ handles' = handles
      /\ UNCHANGED limitVars /\ UNCHANGED halfVars /\ conn' = [conn EXCEPT ![c] = r]
  BY <1>1, SessionStays DEF PeerLeaves
<1>3. TaskOK(conn[c]) /\ conn[c].phase # "unused" /\ conn[c] \in Connection /\ why \in Reasons
  BY <1>2 DEF SwarmInv, Tasks, Reasons
<1>4. TaskOK(r) /\ Kept(conn[c], r) /\ conn[c].phase = r.phase
  BY <1>1, <1>2, <1>3, TaskFields DEF Kept, Connection
<1> HIDE DEF r
<1> QED
  BY <1>2, <1>4, TaskGoesOn

\* on_closed retires whatever is registered at the address: no handle of the task stays.
LEMMA ReaderEndsStep ==
    ASSUME SwarmInv, NEW c \in Conns, ReaderEnds(c)
    PROVE  SwarmInv'
<1>1. /\ conn[c].phase = "live" /\ session' = session /\ UNCHANGED limitVars /\ UNCHANGED halfVars
      /\ conn' = [conn EXCEPT ![c] = Unused] /\ handles' = Without({conn[c].addr})
  BY SessionStays DEF ReaderEnds
<1>2. conn'[c] = Unused /\ \A d \in Conns : d # c => conn'[d] = conn[d]
  BY <1>1 DEF SwarmInv, Tasks
<1>3. TaskOK(Unused) /\ Unused.phase = "unused"
  BY UnusedIsOK DEF SwarmInv
<1>4. Tasks'
  <2>1. conn' \in [Conns -> Connection]
    BY <1>1, <1>3 DEF SwarmInv, Tasks, TaskOK
  <2> QED
    BY <1>1, <1>2, <1>3, <2>1 DEF SwarmInv, Tasks, TaskOK, Bounded, Limits
<1>5. /\ handles' \in [Addrs -> Conns \cup {NoConn}]
      /\ \A a \in Addrs : handles'[a] # NoConn => handles'[a] = handles[a] /\ a # conn[c].addr
  BY <1>1 DEF Without, SwarmInv, Handles
<1>6. Keeps
  <2> SUFFICES ASSUME NEW a \in Addrs, handles'[a] # NoConn
               PROVE  Kept(conn[handles[a]], conn'[handles[a]])
    BY <1>5 DEF Keeps
  <2>1. handles[a] \in Conns /\ conn[handles[a]].phase \in {"live", "aborted"}
        /\ conn[handles[a]].addr = a
    BY <1>5 DEF SwarmInv, Handles
  <2>2. conn'[handles[a]] = conn[handles[a]]
    BY <1>2, <1>5, <2>1
  <2> QED
    BY <2>1, <2>2 DEF Kept
<1>7. Handles' /\ OneSlotPerPeer'
  BY <1>1, <1>6, RegistryStep DEF SwarmInv
<1>8. LimitsOK'
  BY <1>1, LimitsStay DEF SwarmInv
<1>9. HalfOpenIsHeld'
  <2>1. conn[c].phase \notin HalfPhases /\ Unused.phase \notin HalfPhases
    BY <1>1, <1>3 DEF HalfPhases
  <2> QED
    BY <1>1, <2>1, HalfApart DEF SwarmInv
<1> QED
  BY <1>4, <1>7, <1>8, <1>9 DEF SwarmInv

\* The actions that close connections and leave the half-open budget alone.
LEMMA ClosingStep ==
    ASSUME SwarmInv, session' = session, UNCHANGED halfVars,
           NEW as \in SUBSET Addrs, NEW why \in {"replaced", "deliberate"},
           conn' = Closed(conn, as, why), handles' = handles \/ handles' = Without(as),
           limit' \in {session.limit} \cup session.limits, burstLimit' = burstLimit
    PROVE  SwarmInv'
<1>1. why \in Reasons /\ why # ""
  BY DEF Reasons
<1>2. Tasks' /\ Handles' /\ OneSlotPerPeer' /\ \A c \in Conns : conn'[c].phase = conn[c].phase
  BY <1>1, Closing
<1>3. HalfOpenIsHeld'
  BY <1>2, HalfStays DEF SwarmInv
<1>4. LimitsOK'
  BY DEF SwarmInv, LimitsOK
<1> QED
  BY <1>2, <1>3, <1>4 DEF SwarmInv

LEMMA ClosingSteps ==
    ASSUME SwarmInv,
           \/ TrimBurst \/ CloseAllPeers \/ DropHandles \/ CloseTorrents
           \/ \E a \in Addrs : DropPeer(a) \/ DropChokers(a)
           \/ \E n \in session.limits : SetMaxEstablishedConns(n)
    PROVE  SwarmInv'
<1> limit \in {session.limit} \cup session.limits
  BY DEF SwarmInv, LimitsOK
<1>1. CASE TrimBurst
  <2>1. PICK cut \in SUBSET Open : conn' = Closed(conn, cut, "replaced") /\ handles' = Without(cut)
    BY <1>1 DEF TrimBurst
  <2>2. cut \in SUBSET Addrs
    BY DEF Open, Registered
  <2>3. session' = session /\ UNCHANGED halfVars /\ limit' = limit /\ burstLimit' = burstLimit
    BY <1>1, SessionStays DEF TrimBurst
  <2> QED
    BY <2>1, <2>2, <2>3, ClosingStep
<1>2. CASE CloseAllPeers
  <2>1. /\ conn' = Closed(conn, Addrs, "deliberate") /\ handles' = Without(Addrs)
        /\ session' = session /\ UNCHANGED halfVars /\ limit' = limit /\ burstLimit' = burstLimit
    BY <1>2, SessionStays DEF CloseAllPeers, limitVars
  <2> QED
    BY <2>1, ClosingStep
<1>3. CASE DropHandles
  <2>1. /\ conn' = Closed(conn, Addrs, "deliberate") /\ handles' = handles
        /\ session' = session /\ UNCHANGED halfVars /\ limit' = limit /\ burstLimit' = burstLimit
    BY <1>3, SessionStays DEF DropHandles, limitVars
  <2> QED
    BY <2>1, ClosingStep
<1>4. CASE CloseTorrents
  <2>1. /\ conn' = Closed(conn, Addrs, "deliberate") /\ handles' = Without(Addrs)
        /\ session' = session /\ UNCHANGED halfVars /\ limit' = limit /\ burstLimit' = burstLimit
    BY <1>4, SessionStays DEF CloseTorrents, limitVars
  <2> QED
    BY <2>1, ClosingStep
<1>5. ASSUME NEW a \in Addrs, DropPeer(a) PROVE SwarmInv'
  <2>1. /\ conn' = Closed(conn, {a}, "deliberate") /\ handles' = handles /\ {a} \in SUBSET Addrs
        /\ session' = session /\ UNCHANGED halfVars /\ limit' = limit /\ burstLimit' = burstLimit
    BY <1>5, SessionStays DEF DropPeer, limitVars
  <2> QED
    BY <2>1, ClosingStep
<1>6. ASSUME NEW a \in Addrs, DropChokers(a) PROVE SwarmInv'
  <2>1. /\ conn' = Closed(conn, {a}, "replaced") /\ handles' = Without({a}) /\ {a} \in SUBSET Addrs
        /\ session' = session /\ UNCHANGED halfVars /\ limit' = limit /\ burstLimit' = burstLimit
    BY <1>6, SessionStays DEF DropChokers, limitVars
  <2> QED
    BY <2>1, ClosingStep
<1>7. ASSUME NEW n \in session.limits, SetMaxEstablishedConns(n) PROVE SwarmInv'
  <2>1. PICK cut \in SUBSET Open : conn' = Closed(conn, cut, "replaced") /\ handles' = Without(cut)
    BY <1>7 DEF SetMaxEstablishedConns
  <2>2. cut \in SUBSET Addrs
    BY DEF Open, Registered
  <2>3. session' = session /\ UNCHANGED halfVars /\ limit' = n /\ burstLimit' = burstLimit
    BY <1>7, SessionStays DEF SetMaxEstablishedConns
  <2> QED
    BY <2>1, <2>2, <2>3, ClosingStep
<1> QED
  BY <1>1, <1>2, <1>3, <1>4, <1>5, <1>6, <1>7

LEMMA UpdateBurstLimitStep ==
    ASSUME SwarmInv, UpdateBurstLimit
    PROVE  SwarmInv'
<1> DEFINE mine == Cardinality(Registered)
           left == BurstConns - mine - Elsewhere
           share == mine + Max({0, left})
<1>1. mine \in Nat /\ BurstConns \in Nat /\ Elsewhere \in Nat
  <2>1. Registered \in SUBSET Addrs
    BY DEF Registered
  <2> QED
    BY <2>1, RegisteredIsFinite, Sizes
<1>2. SharedBurstLimit = Min({share, BurstConns})
  BY DEF SharedBurstLimit
<1> HIDE DEF mine
<1>3. left \in Int /\ 0 \in Int
  BY <1>1
<1> HIDE DEF left
<1>4. Max({0, left}) \in Int /\ Max({0, left}) >= 0
  BY <1>3, MaxOfTwo
<1>5. share \in Nat
  BY <1>1, <1>4
<1> HIDE DEF share
<1>6. share \in Int /\ BurstConns \in Int
  BY <1>1, <1>5
<1>7. /\ (Min({share, BurstConns}) = share \/ Min({share, BurstConns}) = BurstConns)
      /\ Min({share, BurstConns}) <= BurstConns
  BY <1>6, MinOfTwo
<1>8. SharedBurstLimit \in Nat /\ SharedBurstLimit <= BurstConns
  BY <1>1, <1>2, <1>5, <1>7
<1>9. /\ burstLimit' = SharedBurstLimit /\ limit' = limit /\ session' = session
      /\ UNCHANGED <<conn, handles, halfVars>>
  BY SessionStays DEF UpdateBurstLimit
<1>10. LimitsOK'
  BY <1>8, <1>9 DEF SwarmInv, LimitsOK
<1>11. Tasks' /\ Handles'
  BY <1>9 DEF SwarmInv, Tasks, TaskOK, Bounded, Limits, Handles
<1>12. OneSlotPerPeer' /\ HalfOpenIsHeld'
  BY <1>9 DEF SwarmInv, OneSlotPerPeer, HalfOpenIsHeld, Open, Registered, In, halfVars
<1> QED
  BY <1>10, <1>11, <1>12 DEF SwarmInv

LEMMA RouteChangedStep ==
    ASSUME SwarmInv, RouteChanged
    PROVE  SwarmInv'
<1>1. /\ session' = session /\ UNCHANGED halfVars /\ UNCHANGED limitVars /\ handles' = handles
      /\ conn' = [c \in Conns |-> IF conn[c].phase = "dialing" THEN [conn[c] EXCEPT !.rerouted = TRUE]
                                                               ELSE conn[c]]
  BY SessionStays DEF RouteChanged
<1>2. \A c \in Conns : /\ TaskOK(conn'[c]) /\ conn'[c].phase = conn[c].phase
                       /\ conn[c].phase # "dialing" => conn'[c] = conn[c]
  <2> SUFFICES ASSUME NEW c \in Conns
               PROVE  /\ TaskOK(conn'[c]) /\ conn'[c].phase = conn[c].phase
                      /\ conn[c].phase # "dialing" => conn'[c] = conn[c]
    OBVIOUS
  <2>1. TaskOK(conn[c]) /\ conn[c] \in Connection
    BY DEF SwarmInv, Tasks
  <2>2. CASE conn[c].phase = "dialing"
    <3>1. conn'[c] = [conn[c] EXCEPT !.rerouted = TRUE]
      BY <1>1, <2>2, SMTT(30)
    <3>2. TaskOK([conn[c] EXCEPT !.rerouted = TRUE])
      BY <2>1, <2>2, TaskFields, Zenon
    <3> QED
      BY <2>1, <2>2, <3>1, <3>2 DEF Connection
  <2>3. CASE conn[c].phase # "dialing"
    BY <1>1, <2>1, <2>3
  <2> QED
    BY <2>2, <2>3
<1>3. Tasks'
  <2>1. conn' \in [Conns -> Connection]
    BY <1>1, <1>2 DEF TaskOK
  <2> QED
    BY <1>1, <1>2, <2>1 DEF Tasks, TaskOK, Bounded, Limits
<1>4. Keeps
  <2>1. \A a \in Addrs : handles[a] # NoConn => conn'[handles[a]] = conn[handles[a]]
            /\ conn[handles[a]].phase \in {"live", "aborted"}
    BY <1>2 DEF SwarmInv, Handles
  <2> QED
    BY <1>1, <2>1 DEF Keeps, Kept, SwarmInv, Handles
<1>5. Handles' /\ OneSlotPerPeer'
  BY <1>1, <1>4, RegistryStep DEF SwarmInv
<1>6. LimitsOK'
  BY <1>1, LimitsStay DEF SwarmInv
<1>7. HalfOpenIsHeld'
  BY <1>1, <1>2, HalfStays DEF SwarmInv
<1> QED
  BY <1>3, <1>5, <1>6, <1>7 DEF SwarmInv

\* The client closes: every dial is aborted and gives both its guards back, inbound
\* handshakes go on.
LEMMA CloseClientStep ==
    ASSUME SwarmInv, CloseClient
    PROVE  SwarmInv'
<1>1. /\ session' = session /\ UNCHANGED limitVars /\ handles' = handles
      /\ conn' = [c \in Conns |-> IF conn[c].phase \in {"spawned", "dialing", "queued"} THEN Unused
                                  ELSE IF conn[c].phase = "live" THEN [conn[c] EXCEPT !.phase = "aborted"]
                                  ELSE conn[c]]
      /\ halfOpen' = halfOpen - Cardinality(In("dialing"))
      /\ halfHere' = halfHere - Cardinality(In("dialing"))
  BY SessionStays DEF CloseClient
<1>2. \A c \in Conns : /\ TaskOK(conn'[c])
                       /\ conn'[c].phase # "dialing" /\ (conn'[c].phase = "arriving" <=> conn[c].phase = "arriving")
                       /\ conn[c].phase \in {"live", "aborted"} => Kept(conn[c], conn'[c])
  <2> SUFFICES ASSUME NEW c \in Conns
               PROVE  /\ TaskOK(conn'[c])
                      /\ conn'[c].phase # "dialing" /\ (conn'[c].phase = "arriving" <=> conn[c].phase = "arriving")
                      /\ conn[c].phase \in {"live", "aborted"} => Kept(conn[c], conn'[c])
    OBVIOUS
  <2>1. TaskOK(conn[c]) /\ conn[c] \in Connection
    BY DEF SwarmInv, Tasks
  <2>2. CASE conn[c].phase \in {"spawned", "dialing", "queued"}
    <3>1. conn'[c] = Unused /\ TaskOK(Unused) /\ Unused.phase = "unused"
      BY <1>1, <2>2, UnusedIsOK DEF SwarmInv
    <3> QED
      BY <2>2, <3>1
  <2>3. CASE conn[c].phase = "live"
    <3>1. conn'[c] = [conn[c] EXCEPT !.phase = "aborted"]
      BY <1>1, <2>3
    <3>2. TaskOK([conn[c] EXCEPT !.phase = "aborted"]) /\ [conn[c] EXCEPT !.phase = "aborted"].phase = "aborted"
      BY <2>1, <2>3, TaskFields, Zenon DEF Phases
    <3> QED
      BY <2>1, <2>3, <3>1, <3>2, ZenonT(60) DEF Connection, Kept
  <2>4. CASE conn[c].phase \notin {"spawned", "dialing", "queued", "live"}
    <3>1. conn'[c] = conn[c]
      BY <1>1, <2>4
    <3> QED
      BY <2>1, <2>4, <3>1 DEF Kept
  <2> QED
    BY <2>2, <2>3, <2>4
<1>3. Tasks'
  <2>1. conn' \in [Conns -> Connection]
    BY <1>1, <1>2 DEF TaskOK
  <2> QED
    BY <1>1, <1>2, <2>1 DEF Tasks, TaskOK, Bounded, Limits
<1>4. Keeps
  <2>1. \A a \in Addrs : handles[a] # NoConn => Kept(conn[handles[a]], conn'[handles[a]])
    BY <1>2 DEF SwarmInv, Handles
  <2> QED
    BY <1>1, <2>1 DEF Keeps, SwarmInv, Handles
<1>5. Handles' /\ OneSlotPerPeer'
  BY <1>1, <1>4, RegistryStep DEF SwarmInv
<1>6. LimitsOK'
  BY <1>1, LimitsStay DEF SwarmInv
<1>7. HalfOpenIsHeld'
  <2>1. In("dialing")' = {} /\ In("arriving")' = In("arriving")
    BY <1>2 DEF In
  <2>2. /\ IsFiniteSet(In("dialing")) /\ IsFiniteSet(In("arriving"))
        /\ Cardinality(In("dialing")) \in Nat /\ Cardinality(In("arriving")) \in Nat
    <3>1. In("dialing") \in SUBSET Conns /\ In("arriving") \in SUBSET Conns
      BY DEF In
    <3> QED
      BY <3>1, TasksAreFinite
  <2>3. In("dialing") \cap In("arriving") = {}
    BY DEF In
  <2>4. Cardinality(In("dialing") \cup In("arriving")) =
            Cardinality(In("dialing")) + Cardinality(In("arriving"))
    <3>1. Cardinality(In("dialing") \cap In("arriving")) = 0
      BY <2>3, FS_EmptySet
    <3>2. Cardinality(In("dialing") \cup In("arriving")) = Cardinality(In("dialing"))
              + Cardinality(In("arriving")) - Cardinality(In("dialing") \cap In("arriving"))
      BY <2>2, FS_Union
    <3> QED
      BY <2>2, <3>1, <3>2
  <2>5. halfOpen' = Cardinality(In("arriving")) /\ halfHere' = 0 /\ halfOpen' <= halfOpen
    BY <1>1, <2>2, <2>4 DEF SwarmInv, HalfOpenIsHeld
  <2>6. Cardinality(In("dialing")') = 0
    BY <2>1, FS_EmptySet
  <2>7. (In("dialing") \cup In("arriving"))' = In("arriving")
    BY <2>1
  <2>8. halfOpen' <= Max({Total, BurstConns})
    BY <2>2, <2>5, HalfTypes DEF SwarmInv, HalfOpenIsHeld
  <2> QED
    BY <2>5, <2>6, <2>7, <2>8 DEF HalfOpenIsHeld
<1> QED
  BY <1>3, <1>5, <1>6, <1>7 DEF SwarmInv

----------------------------------------------------------------------------
(* The theorem.                                                            *)

\* The addresses being dialled are addresses.
LEMMA DialingStep ==
    ASSUME SwarmInv, dialing \in SUBSET Addrs, [Next]_vars
    PROVE  dialing' \in SUBSET Addrs
<1>2. ASSUME NEW a \in Addrs, Dial(a) PROVE dialing' \in SUBSET Addrs
  BY <1>2 DEF Dial
<1>3. CASE \/ \E a \in Addrs : AddPeers(a) \/ BackoffEnds(a) \/ Accept(a) \/ AttachWebRtcPeer(a)
                                \/ DropPeer(a) \/ DropChokers(a)
           \/ \E c \in Conns : DialStart(c) \/ DialFails(c) \/ DialRerouted(c) \/ HandshakeFails(c)
                                \/ DialShakes(c)
  BY <1>3 DEF AddPeers, BackoffEnds, Accept, AttachWebRtcPeer, DropPeer, DropChokers, DialStart,
     DialFails, DialRerouted, HandshakeFails, DialShakes, DialEnds, Requeue, DialFinished, poolVars
<1>4. CASE \E c \in Conns : Inbound(c) \/ AttachAccepted(c) \/ AttachCheck(c) \/ AttachInsert(c)
                            \/ Delivers(c) \/ PeerLeaves(c) \/ ReaderEnds(c)
  BY <1>4 DEF Inbound, AttachAccepted, AttachCheck, AttachInsert, Delivers, PeerLeaves, ReaderEnds,
     Refused, DialFinished, poolVars
<1>5. CASE \/ ForgetPeers \/ TrimBurst \/ UpdateBurstLimit
           \/ \E n \in session.limits : SetMaxEstablishedConns(n)
           \/ StartPeerBurst \/ BurstEnds \/ RouteChanged \/ CloseAllPeers \/ DropTorrent
           \/ DropHandles \/ CloseClient \/ CloseTorrents \/ UNCHANGED vars
  BY <1>5 DEF ForgetPeers, TrimBurst, UpdateBurstLimit, SetMaxEstablishedConns, StartPeerBurst,
     BurstEnds, RouteChanged, CloseAllPeers, DropTorrent, DropHandles, CloseClient, CloseTorrents,
     vars, poolVars
<1> QED
  BY <1>2, <1>3, <1>4, <1>5 DEF Next

LEMMA SwarmInit ==
    ASSUME Init
    PROVE  SwarmInv /\ dialing \in SUBSET Addrs
<1>1. session \in Session
  BY SwarmAssumption DEF Init
<1>2. LimitsOK
  BY <1>1, Sizes DEF Init, LimitsOK
<1>3. Tasks
  BY <1>2, UnusedIsOK DEF Init, Tasks
<1>4. Handles
  BY DEF Init, Handles
<1>5. Registered = {} /\ Open = {}
  BY DEF Init, Registered, Open
<1>6. OneSlotPerPeer
  <2>1. session.limit \in Nat /\ Cardinality(Registered) = 0
    BY <1>1, <1>5, FS_EmptySet DEF Session
  <2> QED
    BY <1>5, <2>1 DEF OneSlotPerPeer
<1>7. HalfOpenIsHeld
  <2>1. In("dialing") = {} /\ In("dialing") \cup In("arriving") = {}
    BY DEF Init, In, Unused
  <2>2. Max({Total, BurstConns}) >= 0
    <3>1. Total \in Int /\ BurstConns \in Int /\ Total \in Nat
      BY Sizes
    <3> QED
      BY <3>1, MaxOfTwo
  <2>3. 0 <= Max({Total, BurstConns})
    <3>1. Total \in Int /\ BurstConns \in Int
      BY Sizes
    <3>2. Max({Total, BurstConns}) \in Int
      BY <3>1, MaxOfTwo
    <3> QED
      BY <2>2, <3>2
  <2> QED
    BY <2>1, <2>3, FS_EmptySet DEF Init, HalfOpenIsHeld
<1> QED
  BY <1>2, <1>3, <1>4, <1>6, <1>7 DEF SwarmInv, Init

LEMMA SwarmStep ==
    ASSUME SwarmInv, dialing \in SUBSET Addrs, [Next]_vars
    PROVE  SwarmInv'
<1>2. CASE \/ \E a \in Addrs : AddPeers(a) \/ BackoffEnds(a)
           \/ ForgetPeers \/ StartPeerBurst \/ BurstEnds \/ DropTorrent \/ UNCHANGED vars
  <2>1. UNCHANGED <<conn, handles, halfVars, limit, burstLimit, session>>
    BY <1>2, SessionStays DEF AddPeers, BackoffEnds, ForgetPeers, StartPeerBurst, BurstEnds,
       DropTorrent, vars, limitVars
  <2> QED
    BY <2>1, PoolStep
<1>3. CASE \/ TrimBurst \/ CloseAllPeers \/ DropHandles \/ CloseTorrents
           \/ \E a \in Addrs : DropPeer(a) \/ DropChokers(a)
           \/ \E n \in session.limits : SetMaxEstablishedConns(n)
  BY <1>3, ClosingSteps
<1>4. CASE \E a \in Addrs : Dial(a) \/ Accept(a) \/ AttachWebRtcPeer(a)
  BY <1>4, DialStep, AcceptStep, WebRtcStep
<1>5. CASE \E c \in Conns : DialStart(c) \/ DialFails(c) \/ DialRerouted(c) \/ HandshakeFails(c)
                            \/ DialShakes(c)
  BY <1>5, DialStartStep, DialEndsStep, HandshakeStep, DialShakesStep
<1>6. CASE \E c \in Conns : Inbound(c) \/ AttachAccepted(c) \/ AttachCheck(c) \/ AttachInsert(c)
  BY <1>6, InboundStep, AttachAcceptedStep, AttachCheckStep, AttachInsertStep
<1>7. CASE \E c \in Conns : Delivers(c) \/ PeerLeaves(c) \/ ReaderEnds(c)
  BY <1>7, DeliversStep, PeerLeavesStep, ReaderEndsStep
<1>8. CASE UpdateBurstLimit \/ RouteChanged \/ CloseClient
  BY <1>8, UpdateBurstLimitStep, RouteChangedStep, CloseClientStep
<1> QED
  BY <1>2, <1>3, <1>4, <1>5, <1>6, <1>7, <1>8 DEF Next

\* conn/half_open.rs and attach_connection, for every set of addresses and tasks, every
\* limit and every history of dials, accepts, closes and limit changes: the half-open
\* counters are exactly what the dials and handshakes in progress hold, the registry has
\* one open connection per peer and never more connections than the largest limit.
THEOREM SlotsHeld == Spec => []SlotsAreHeld
<1>1. Init => SwarmInv /\ dialing \in SUBSET Addrs
  BY SwarmInit
<1>2. (SwarmInv /\ dialing \in SUBSET Addrs) /\ [Next]_vars
      => (SwarmInv /\ dialing \in SUBSET Addrs)'
  BY SwarmStep, DialingStep
<1>3. SwarmInv => SlotsAreHeld
  BY DEF SwarmInv, SlotsAreHeld
<1> QED
  BY <1>1, <1>2, <1>3, PTL DEF Spec
=============================================================================
