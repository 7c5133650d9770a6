------------------------------ MODULE MCEngine ------------------------------
(* Small instances of the engine and the services around it, in one state    *)
(* space.  part, which never changes, names the component a behaviour is of; *)
(* the others stay in one initial state.  Engine and Services have their     *)
(* constants from the .cfg.                                                  *)
(*   engine      Engine: records, requests, verifiers and previews;          *)
(*   session     Playback: the stream readers and their coordinator;         *)
(*   resume      Resume: saved positions and their cached windows;           *)
(*   discovery   Discovery: announces of torrents that come and go;          *)
(*   udp         UdpTracker: calls that share one tracker socket;            *)
(*   webtorrent  WebTorrent: offers through a WebSocket tracker;             *)
(*   list        TrackerList: the refreshed list of public trackers;         *)
(*   pex         Pex: the peer exchange a receiver is told.                  *)
EXTENDS Engine, Services, TLC

CONSTANTS i1, i2, p1, p2,       \* records and previews
          c1, c2,               \* callers, and calls of a tracker
          ra, rb, a1, a2, a3
VARIABLE part

\* Previews that follow one another on one record while settings change once,
\* and settings that change twice beside one preview; and a hash that is added again
\* while it is removed.
MCUses ==
    {[ids |-> {i1}, previews |-> {p1, p2}, switches |-> 1],
     [ids |-> {i1}, previews |-> {p1}, switches |-> 2],
     [ids |-> {i1, i2}, previews |-> {}, switches |-> 1]}

\* One reader that seeks while it is paused and closed; two readers racing
\* for the file while windows are refreshed; an idle reader beside a playing
\* one; and closing, holding and playing again.
Reads(a, b) == [r \in {ra, rb} |-> IF r = ra THEN a ELSE b]
ReaderSessions ==
    {[reads |-> Reads(2, 0), at |-> 0..2, does |-> {"pause", "refresh"}],
     [reads |-> Reads(1, 1), at |-> {1}, does |-> {"refresh"}],
     [reads |-> Reads(1, 1), at |-> {1}, does |-> {"idle"}],
     [reads |-> Reads(0, 2), at |-> {1}, does |-> {"idle", "refresh"}],
     [reads |-> Reads(3, 0), at |-> {0, 1}, does |-> {"play"}]}

\* What is published for the tracker list, one after the other.
MCLists == <<{"a", "b"}, {}, {"b", "c"}, {"d"}>>

CallersAreAlike == Permutations({c1, c2})

----------------------------------------------------------------------------
VARIABLES
    pex_alive, pex_events, pex_hold, pex_cursor, pex_view, pex_resting,
    pex_recent

pexVars ==
    <<pex_alive, pex_events, pex_hold, pex_cursor, pex_view, pex_resting,
      pex_recent>>

X == INSTANCE Pex WITH
        Addrs <- {a1, a2, a3}, Receivers <- {ra}, Target <- 2, MaxHold <- 1,
        MaxDelta <- 1, MaxEvents <- 5, alive <- pex_alive,
        events <- pex_events, hold <- pex_hold, cursor <- pex_cursor,
        view <- pex_view, resting <- pex_resting, recent <- pex_recent

----------------------------------------------------------------------------
all ==
    <<part, vars, pbVars, resVars, disVars, udpVars, wsVars, listVars, pexVars>>

MCInit ==
    /\ part \in {"engine", "session", "resume", "discovery", "udp", "webtorrent",
                 "list", "pex"}
    /\ Init /\ P!Init /\ R!Init /\ D!Init /\ U!Init /\ T!Init /\ L!Init /\ X!Init
    /\ part # "engine" => payload /\ use = CHOOSE u \in Uses : TRUE
    /\ part # "session" => pb_use = CHOOSE u \in Sessions : TRUE

\* The components other than p are left alone.
Others(p) ==
    /\ UNCHANGED part
    /\ p # "engine" => UNCHANGED vars
    /\ p # "session" => UNCHANGED pbVars
    /\ p # "resume" => UNCHANGED resVars
    /\ p # "discovery" => UNCHANGED disVars
    /\ p # "udp" => UNCHANGED udpVars
    /\ p # "webtorrent" => UNCHANGED wsVars
    /\ p # "list" => UNCHANGED listVars
    /\ p # "pex" => UNCHANGED pexVars

MCNext ==
    \/ part = "engine" /\ Next /\ Others("engine")
    \/ part = "session" /\ P!Next /\ Others("session")
    \/ part = "resume" /\ R!Next /\ Others("resume")
    \/ part = "discovery" /\ D!Next /\ Others("discovery")
    \/ part = "udp" /\ U!Next /\ Others("udp")
    \/ part = "webtorrent" /\ T!Next /\ Others("webtorrent")
    \/ part = "list" /\ L!Next /\ Others("list")
    \/ part = "pex" /\ X!Next /\ Others("pex")

MCSpec == MCInit /\ [][MCNext]_all

----------------------------------------------------------------------------
(* A receiver whose messages have come to the end of the feed knows every   *)
(* connection that stayed (Pex: PexTellsSteady; pex/mod.rs).                *)
ExchangeTellsSteady ==
    part = "pex" => X!PexTellsSteady
=============================================================================
