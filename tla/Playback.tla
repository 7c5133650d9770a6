------------------------------ MODULE Playback ------------------------------
(***************************************************************************)
(* Playback readers, and the coordinator that merges what they demand.     *)
(*                                                                         *)
(* Every open video stream is a PlaybackReader around a PlaybackSession.   *)
(* A session moves a window over the file and publishes it: it updates the *)
(* torrent's PlaybackPriorityCoordinator, which keeps one demand for each  *)
(* owner, and moves the torrent's request focus.  Reads, window refreshes, *)
(* idle parking, closing and pausing run on different threads; a session's *)
(* own lock serialises what happens to one session, and a newer read       *)
(* cancels the one before it through a token that needs no lock.  Which    *)
(* pieces a window holds and how demands merge is module Windows.          *)
(*                                                                         *)
(* All readers of the instance play one file.  A piece stands for the part *)
(* of the file it holds: 0 is the container's head, LastPiece its tail.         *)
(***************************************************************************)
EXTENDS Integers, FiniteSets

CONSTANTS Readers,      \* the playback readers of one file
          LastPiece,         \* the file's last piece
          MaxReads,     \* bound: reads a player issues on one reader
          MaxReaders,   \* DIRECT_PLAY_MAX_READERS
          MaxHolds,     \* bound: resume holds taken
          Adaptive,     \* the readers with an adaptive buffer, which park
          Sessions      \* the sessions of use to explore: how many reads each
                        \* reader gets and where, and what else goes on

Pieces == 0..LastPiece
Nobody == "nobody"
Gens == 1..MaxReads + 1    \* closing takes a generation too

VARIABLES
    session,   \* what each PlaybackSession keeps, and its reader's flags
    call,      \* the read calls of each reader, by generation
    token,     \* the cancel token a reader's latest read registered
    cancelled, \* tokens that have been cancelled
    op,        \* the holder of each session's lock and where it is
    parker,    \* the idle sampler's progress on each reader
    owners,    \* coordinator: the sessions with a demand in it
    active,    \* coordinator: the session that may fetch this file
    playing,   \* coordinator: the session that is playing
    resume,    \* coordinator: resume position, held demand, its generation
    timers,    \* generations whose 90 s expiry has not run
    playhead,  \* the session that set the torrent's request focus, or Nobody
    allowed,   \* transfers are active for this record
    use        \* the session of use that is being explored

readers == <<session, call, token, cancelled, op, parker>>
coordinator == <<owners, active, playing, resume>>
vars == <<readers, coordinator, timers, playhead, allowed, use>>

-----------------------------------------------------------------------------
(* A session's window.                                                     *)

\* The opening phase ends with a read of the body, or of the head after both
\* the head and the tail have been read.
OpeningAfter(s, pos) ==
    /\ s.opening
    /\ pos \in {0, LastPiece}
    /\ ~(pos = 0 /\ {0, LastPiece} \subseteq s.probed)

Idle == [who |-> "none", at |-> "none", pos |-> 0, then |-> "none", call |-> 0]
Reader0 == [stage |-> "none", closed |-> FALSE, gen |-> 0, pos |-> -1, opening |-> TRUE,
            probed |-> {}, settled |-> FALSE, parked |-> FALSE, entering |-> FALSE, idle |-> FALSE]

Init ==
    /\ session = [r \in Readers |-> Reader0]
    /\ call = [r \in Readers |-> [g \in Gens |-> "none"]]
    /\ token = [r \in Readers |-> 0]
    /\ cancelled = {}
    /\ op = [r \in Readers |-> Idle]
    /\ parker = [r \in Readers |-> "none"]
    /\ owners = {}
    /\ active = Nobody /\ playing = Nobody
    /\ resume = [pos |-> 0, held |-> FALSE, gen |-> 0]
    /\ timers = {}
    /\ playhead = Nobody
    /\ allowed = TRUE
    /\ use \in Sessions

OpenReaders == {r \in Readers : session[r].stage = "open" /\ ~session[r].closed}
Unlocked(r) == op[r].who = "none"
Lock(r, who, at, pos, then, g) ==
    op' = [op EXCEPT ![r] = [who |-> who, at |-> at, pos |-> pos,
                             then |-> then, call |-> g]]
At(r, at) == op[r].at = at
Step(r, at) == op' = [op EXCEPT ![r].at = at]

-----------------------------------------------------------------------------
(* update_window, run under the session's lock by reads, opens, refreshes. *)

\* The session moves to the position, settles its phase and takes the file.
Claim(r) ==
    /\ At(r, "claim")
    /\ LET s == session[r]
           pos == op[r].pos
           opening == OpeningAfter(s, pos)
       IN session' = [session EXCEPT ![r].pos = pos, ![r].opening = opening,
                        ![r].settled = @ /\ pos = s.pos /\ opening = s.opening,
                        ![r].probed = IF opening THEN @ \cup ({pos} \cap {0, LastPiece}) ELSE @]
    /\ active' = r
    /\ Step(r, "check")
    /\ UNCHANGED <<call, token, cancelled, parker, owners, playing, resume, timers,
                   playhead, allowed, use>>

\* coordinator.remove: the session's demand, window, file and playing mark.
Drop(r) ==
    /\ owners' = owners \ {r}
    /\ active' = IF active = r THEN Nobody ELSE active
    /\ playing' = IF playing = r THEN Nobody ELSE playing

\* Another session took the file in between: this one clears its demand.
Outbid(r) ==
    /\ At(r, "check")
    /\ active \notin {Nobody, r}
    /\ Drop(r)
    /\ Step(r, "yield")
    /\ UNCHANGED <<session, call, token, cancelled, parker, resume, timers, playhead,
                   allowed, use>>

YieldFocus(r) ==
    /\ At(r, "yield")
    /\ playhead' = r
    /\ Step(r, op[r].then)
    /\ UNCHANGED <<session, call, token, cancelled, parker, coordinator, timers, allowed, use>>

\* An unchanged window is not published again for a second.
Unchanged(r) ==
    /\ At(r, "check")
    /\ active \in {Nobody, r}
    /\ session[r].settled
    /\ Step(r, "focus")
    /\ UNCHANGED <<session, call, token, cancelled, parker, coordinator, timers, playhead,
                   allowed, use>>

Update(r) ==
    /\ At(r, "check")
    /\ active \in {Nobody, r}
    /\ owners' = owners \cup {r}
    /\ session' = [session EXCEPT ![r].settled = TRUE]
    /\ Step(r, "focus")
    /\ UNCHANGED <<call, token, cancelled, parker, active, playing, resume, timers,
                   playhead, allowed, use>>

\* Focus after priorities, so that a woken peer refills from the new window.
Focus(r) ==
    /\ At(r, "focus")
    /\ playhead' = r
    /\ Step(r, op[r].then)
    /\ UNCHANGED <<session, call, token, cancelled, parker, coordinator, timers, allowed, use>>

-----------------------------------------------------------------------------
(* Opening and refreshing.                                                 *)

\* open: the limit is checked against a snapshot, before the reader counts.
Open(r, start) ==
    /\ session[r].stage = "none" /\ use.reads[r] > 0
    /\ allowed
    /\ Cardinality(OpenReaders) < MaxReaders
    /\ session' = [session EXCEPT ![r].stage = "opening"]
    /\ Lock(r, "open", "claim", start, "opened", 0)
    /\ UNCHANGED <<call, token, cancelled, parker, coordinator, timers, playhead, allowed, use>>

\* open_playback_at registers the reader; the others' windows are refreshed.
Opened(r) ==
    /\ At(r, "opened")
    /\ session' = [session EXCEPT ![r].stage = "open"]
    /\ op' = [op EXCEPT ![r] = Idle]
    /\ UNCHANGED <<call, token, cancelled, parker, coordinator, timers, playhead, allowed, use>>

\* refresh_window, when a reader opened or closed and when settings changed:
\* only if nothing else holds the session.
Refresh(r) ==
    /\ "refresh" \in use.does
    /\ r \in OpenReaders
    /\ Unlocked(r)
    /\ Lock(r, "refresh", "claim", session[r].pos, "refreshed", 0)
    /\ UNCHANGED <<session, call, token, cancelled, parker, coordinator, timers, playhead,
                   allowed, use>>

Refreshed(r) ==
    /\ At(r, "refreshed")
    /\ op' = [op EXCEPT ![r] = Idle]
    /\ UNCHANGED <<session, call, token, cancelled, parker, coordinator, timers, playhead,
                   allowed, use>>

-----------------------------------------------------------------------------
(* Reading.                                                                *)

InFlight(r) == \E g \in Gens : call[r][g] \in {"queued", "running"}

\* A read looks at the closed flag before it registers.
Enter(r) ==
    /\ session[r].stage = "open" /\ ~session[r].closed
    /\ ~session[r].entering
    /\ session[r].gen < use.reads[r]
    /\ session' = [session EXCEPT ![r].entering = TRUE]
    /\ UNCHANGED <<call, token, cancelled, op, parker, coordinator, timers, playhead,
                   allowed, use>>

\* It cancels the read before it, takes the next generation and unparks.
Register(r) ==
    /\ session[r].entering
    /\ LET g == session[r].gen + 1
       IN /\ cancelled' = IF token[r] # 0 THEN cancelled \cup {<<r, token[r]>>} ELSE cancelled
          /\ token' = [token EXCEPT ![r] = g]
          /\ call' = [call EXCEPT ![r][g] = "queued"]
          /\ session' = [session EXCEPT ![r].entering = FALSE, ![r].gen = g,
                                     ![r].parked = FALSE, ![r].idle = FALSE]
    /\ UNCHANGED <<op, parker, coordinator, timers, playhead, allowed, use>>

\* Mutant: only closing, not a newer read, makes a queued read give up.
SupersededByClosing(r, g) == session[r].closed

\* Under the session lock a read that was closed or superseded gives up.
Superseded(r, g) == session[r].closed \/ g # session[r].gen

GiveUp(r, g) ==
    /\ call[r][g] = "queued"
    /\ Unlocked(r)
    /\ Superseded(r, g)
    /\ call' = [call EXCEPT ![r][g] = "ended"]
    /\ UNCHANGED <<session, token, cancelled, op, parker, coordinator, timers, playhead,
                   allowed, use>>

\* Otherwise it moves the window to its offset before it waits for bytes.
Read(r, g, pos) ==
    /\ call[r][g] = "queued"
    /\ Unlocked(r)
    /\ ~Superseded(r, g)
    /\ call' = [call EXCEPT ![r][g] = "running"]
    /\ Lock(r, "read", "claim", pos, "admit", g)
    /\ UNCHANGED <<session, token, cancelled, parker, coordinator, timers, playhead,
                   allowed, use>>

End(r) ==
    /\ call' = [call EXCEPT ![r][op[r].call] = "ended"]
    /\ op' = [op EXCEPT ![r] = Idle]

\* read_inner refuses while the record's transfers are stopped.
Admit(r) ==
    /\ At(r, "admit")
    /\ IF allowed THEN Step(r, "wait") /\ UNCHANGED call ELSE End(r)
    /\ UNCHANGED <<session, token, cancelled, parker, coordinator, timers, playhead,
                   allowed, use>>

\* The bytes arrive: the window follows the cursor.
Deliver(r) ==
    /\ At(r, "wait")
    /\ op' = [op EXCEPT ![r].at = "claim", ![r].then = "return"]
    /\ UNCHANGED <<session, call, token, cancelled, parker, coordinator, timers, playhead,
                   allowed, use>>

\* A session past its opening phase is then the playing one, and remembers
\* where it read unless that is the head or the tail.
Return(r) ==
    /\ At(r, "return")
    /\ playing' = IF session[r].opening THEN playing ELSE r
    /\ resume' = IF ~session[r].opening /\ op[r].pos \notin {0, LastPiece}
                 THEN [resume EXCEPT !.pos = op[r].pos] ELSE resume
    /\ End(r)
    /\ UNCHANGED <<session, token, cancelled, parker, owners, active, timers, playhead,
                   allowed, use>>

\* The wait ends early when its token is cancelled, and after 45 s.
Interrupt(r) ==
    /\ At(r, "wait")
    /\ <<r, op[r].call>> \in cancelled
    /\ End(r)
    /\ UNCHANGED <<session, token, cancelled, parker, coordinator, timers, playhead,
                   allowed, use>>

TimeOut(r) ==
    /\ At(r, "wait")
    /\ End(r)
    /\ UNCHANGED <<session, token, cancelled, parker, coordinator, timers, playhead,
                   allowed, use>>

-----------------------------------------------------------------------------
(* Parking an idle reader.                                                 *)

\* The reader has not read for idle_after, far longer than the second for
\* which a window it published counts as unchanged.
Idles(r) ==
    /\ "idle" \in use.does
    /\ r \in OpenReaders
    /\ ~session[r].idle /\ ~InFlight(r) /\ Unlocked(r)
    /\ session' = [session EXCEPT ![r].idle = TRUE, ![r].settled = FALSE]
    /\ UNCHANGED <<call, token, cancelled, op, parker, coordinator, timers, playhead,
                   allowed, use>>

\* The playing reader starts over; a session whose lock is held does not
\* count as playing.
Park(r) ==
    /\ r \in Adaptive \cap OpenReaders
    /\ parker[r] = "none"
    /\ session[r].idle /\ ~session[r].parked /\ ~InFlight(r)
    /\ IF Unlocked(r) /\ playing = r
       THEN session' = [session EXCEPT ![r].idle = FALSE] /\ UNCHANGED parker
       ELSE parker' = [parker EXCEPT ![r] = "checked"] /\ UNCHANGED session
    /\ UNCHANGED <<call, token, cancelled, op, coordinator, timers, playhead, allowed, use>>

\* park_idle skips a session whose lock is held, and the reader is marked
\* parked either way.
ParkDrop(r) ==
    /\ parker[r] = "checked"
    /\ parker' = [parker EXCEPT ![r] = IF InFlight(r) THEN "none" ELSE "flag"]
    /\ IF ~InFlight(r) /\ Unlocked(r) /\ session[r].stage = "open"
       THEN Drop(r)
       ELSE UNCHANGED <<owners, active, playing>>
    /\ UNCHANGED <<session, call, token, cancelled, op, resume, timers, playhead, allowed, use>>

ParkFlag(r) ==
    /\ parker[r] = "flag"
    /\ parker' = [parker EXCEPT ![r] = "none"]
    /\ session' = [session EXCEPT ![r].parked = TRUE]
    /\ UNCHANGED <<call, token, cancelled, op, coordinator, timers, playhead, allowed, use>>

-----------------------------------------------------------------------------
(* Closing.                                                                *)

\* The flag, the token and the generation change before the lock is taken,
\* so a read that waits for bytes lets go of it.
Close(r) ==
    /\ session[r].stage = "open" /\ ~session[r].closed
    /\ session' = [session EXCEPT ![r].closed = TRUE, ![r].gen = @ + 1]
    /\ cancelled' = IF token[r] # 0 THEN cancelled \cup {<<r, token[r]>>} ELSE cancelled
    /\ token' = [token EXCEPT ![r] = 0]
    /\ UNCHANGED <<call, op, parker, coordinator, timers, playhead, allowed, use>>

\* Mutant: closing does not wait for the lock of a running read.
CloseSessionUnlocked(r) ==
    /\ session[r].stage = "open" /\ session[r].closed
    /\ session' = [session EXCEPT ![r].stage = "gone"]
    /\ Drop(r)
    /\ UNCHANGED <<call, op, token, cancelled, parker, resume, timers, playhead, allowed, use>>

CloseSession(r) ==
    /\ session[r].stage = "open" /\ session[r].closed
    /\ Unlocked(r)
    /\ session' = [session EXCEPT ![r].stage = "gone"]
    /\ Drop(r)
    /\ Lock(r, "close", "unfocus", 0, "none", 0)
    /\ UNCHANGED <<call, token, cancelled, parker, resume, timers, playhead, allowed, use>>

\* Mutant: closing never looks whether it was the last session.
UnfocusNever(r) ==
    /\ At(r, "unfocus")
    /\ Step(r, "report")
    /\ UNCHANGED <<session, call, token, cancelled, parker, coordinator, timers, playhead,
                   allowed, use>>

\* The last session takes the playhead with it: the check, then the write.
Unfocus(r) ==
    /\ At(r, "unfocus")
    /\ Step(r, IF owners = {} THEN "clear" ELSE "report")
    /\ UNCHANGED <<session, call, token, cancelled, parker, coordinator, timers, playhead,
                   allowed, use>>

ClearFocus(r) ==
    /\ At(r, "clear")
    /\ playhead' = Nobody
    /\ Step(r, "report")
    /\ UNCHANGED <<session, call, token, cancelled, parker, coordinator, timers, allowed, use>>

\* on_playback_closed: the last reader of a file holds its resume position
\* for 90 s, unless the file has none or transfers are stopped.
Report(r) ==
    /\ At(r, "report")
    /\ op' = [op EXCEPT ![r] = Idle]
    /\ IF resume.pos # 0 /\ OpenReaders = {} /\ allowed
       THEN /\ resume.gen < MaxHolds
            /\ resume' = [resume EXCEPT !.held = TRUE, !.gen = @ + 1]
            /\ timers' = timers \cup {resume.gen + 1}
       ELSE UNCHANGED <<resume, timers>>
    /\ UNCHANGED <<session, call, token, cancelled, parker, owners, active, playing,
                   playhead, allowed, use>>

\* A hold expires only if no later hold, pause or play replaced it.
Expire(g) ==
    /\ g \in timers
    /\ timers' = timers \ {g}
    /\ resume' = IF resume.gen = g THEN [resume EXCEPT !.held = FALSE] ELSE resume
    /\ UNCHANGED <<readers, owners, active, playing, playhead, allowed, use>>

-----------------------------------------------------------------------------
(* The record: /play and pausing.                                          *)

\* Mutant: a play request takes a generation and leaves the hold in place.
PlayKeepsHold(pos) ==
    /\ "play" \in use.does
    /\ allowed
    /\ resume.gen < MaxHolds
    /\ resume' = [pos |-> pos, held |-> resume.held, gen |-> resume.gen + 1]
    /\ UNCHANGED <<readers, owners, active, playing, timers, playhead, allowed, use>>

\* prepare_resume: a play request at an offset replaces what was held.
Play(pos) ==
    /\ "play" \in use.does
    /\ allowed
    /\ resume.gen < MaxHolds
    /\ resume' = [pos |-> pos, held |-> FALSE, gen |-> resume.gen + 1]
    /\ UNCHANGED <<readers, owners, active, playing, timers, playhead, allowed, use>>

\* Mutant: pausing leaves the reads that wait for bytes alone.
PauseLeavesReads ==
    /\ "pause" \in use.does
    /\ allowed
    /\ resume.gen < MaxHolds
    /\ allowed' = FALSE
    /\ resume' = [resume EXCEPT !.held = FALSE, !.gen = @ + 1]
    /\ UNCHANGED <<readers, owners, active, playing, timers, playhead, use>>

\* apply_transfer_state of a stopped record: nothing held, every reader's
\* pending read cancelled without its lock, every priority withdrawn.
Pause ==
    /\ "pause" \in use.does
    /\ allowed
    /\ resume.gen < MaxHolds
    /\ allowed' = FALSE
    /\ resume' = [resume EXCEPT !.held = FALSE, !.gen = @ + 1]
    /\ cancelled' = cancelled \cup {<<r, token[r]>> : r \in {q \in OpenReaders : token[q] # 0}}
    /\ UNCHANGED <<session, call, token, op, parker, owners, active, playing, timers,
                   playhead, use>>

Resume ==
    /\ ~allowed
    /\ allowed' = TRUE
    /\ UNCHANGED <<readers, coordinator, timers, playhead, use>>

Next ==
    \/ \E r \in Readers, pos \in use.at : Open(r, pos)
    \/ \E r \in Readers, g \in Gens, pos \in use.at : Read(r, g, pos)
    \/ \E r \in Readers, g \in Gens : GiveUp(r, g)
    \/ \E r \in Readers : Claim(r)
    \/ \E r \in Readers : Outbid(r)
    \/ \E r \in Readers : YieldFocus(r)
    \/ \E r \in Readers : Unchanged(r)
    \/ \E r \in Readers : Update(r)
    \/ \E r \in Readers : Focus(r)
    \/ \E r \in Readers : Opened(r)
    \/ \E r \in Readers : Refresh(r)
    \/ \E r \in Readers : Refreshed(r)
    \/ \E r \in Readers : Enter(r)
    \/ \E r \in Readers : Register(r)
    \/ \E r \in Readers : Admit(r)
    \/ \E r \in Readers : Deliver(r)
    \/ \E r \in Readers : Return(r)
    \/ \E r \in Readers : Interrupt(r)
    \/ \E r \in Readers : TimeOut(r)
    \/ \E r \in Readers : Idles(r)
    \/ \E r \in Readers : Park(r)
    \/ \E r \in Readers : ParkDrop(r)
    \/ \E r \in Readers : ParkFlag(r)
    \/ \E r \in Readers : Close(r)
    \/ \E r \in Readers : CloseSession(r)
    \/ \E r \in Readers : Unfocus(r)
    \/ \E r \in Readers : ClearFocus(r)
    \/ \E r \in Readers : Report(r)
    \/ \E g \in 1..MaxHolds : Expire(g)
    \/ \E pos \in Pieces : Play(pos)
    \/ Pause
    \/ Resume

Spec == Init /\ [][Next]_vars

-----------------------------------------------------------------------------
(* Properties.                                                             *)

TypeOK ==
    /\ \A r \in Readers :
        /\ session[r].stage \in {"none", "opening", "open", "gone"}
        /\ session[r].gen \in 0..MaxReads + 1
        /\ session[r].pos \in Pieces \cup {-1}
        /\ token[r] \in 0..MaxReads + 1
        /\ \A g \in Gens : call[r][g] \in {"none", "queued", "running", "ended"}
        /\ parker[r] \in {"none", "checked", "flag"}
    /\ owners \subseteq Readers
    /\ {active, playing, playhead} \subseteq Readers \cup {Nobody}
    /\ resume.pos \in Pieces /\ resume.held \in BOOLEAN /\ resume.gen \in 0..MaxHolds
    /\ timers \subseteq 1..MaxHolds
    /\ allowed \in BOOLEAN

\* The playhead does not outlive playback: once every session is closed, the
\* torrent has no request focus, whichever threads moved it last.
PlayheadEndsWithPlayback ==
    (\A r \in Readers : /\ session[r].stage \in {"none", "gone"}
                        /\ op[r].at \in {"none", "report"})
        => playhead = Nobody

\* A read that is waiting for bytes while transfers are stopped has been told
\* to stop, although pausing never takes the lock the read holds.
NoReadSurvivesPause ==
    ~allowed => \A r \in Readers : At(r, "wait") => <<r, op[r].call>> \in cancelled

\* A session never serves a read after it has started a newer one, so an
\* abandoned seek cannot move the cursor or the window back.
LatestReadWins ==
    \A r \in Readers : op[r].who = "read" =>
        \A g \in Gens : g > op[r].call => call[r][g] \notin {"running", "ended"}

\* Demand held for a closed reader always has the timer that withdraws it.
HeldDemandExpires == resume.held => resume.gen \in timers

\* A closed session is nobody's owner: no demand, file or playing mark of its
\* is left in the coordinator.
ClosedOwnsNothing ==
    \A r \in Readers : session[r].stage = "gone" =>
        r \notin owners /\ active # r /\ playing # r

\* A read that waits for bytes has published what it waits for, parked or
\* not: only a session that lost the file to another waits without demand.
WaitingIsDemanded ==
    \A r \in Readers : At(r, "wait") /\ active = r => r \in owners
=============================================================================
