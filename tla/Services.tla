------------------------------ MODULE Services ------------------------------
(***************************************************************************)
(* Six services that run beside the engine's records, side by side:        *)
(*   P  Playback, the readers and the coordinator of playback.rs;          *)
(*   R  Resume, the saved windows of playback_resume.rs;                   *)
(*   D  Discovery, the announces of announcer.rs and sources.rs;           *)
(*   L  TrackerList, the public tracker list of trackers.rs;               *)
(*   U  UdpTracker, the calls of udp.rs that share one socket;             *)
(*   T  WebTorrent, the offers of webtorrent/mod.rs.                       *)
(* They share no state; the hashes of R and D are the same torrents.       *)
(***************************************************************************)
EXTENDS Integers, FiniteSets

CONSTANTS Readers, LastPiece, MaxReads, MaxReaders, MaxHolds, Adaptive, Sessions,
          Hashes, MaxSaves, MaxClears, Budget,
          Urls, Threads, MaxAdds, MaxCalls, MaxPerTracker,
          Calls, MaxTrips, MaxIds, MaxSends, MaxLost,
          MaxOutstanding, MaxOffers, MaxBroken,
          Lists, Default, Core, Torrents, Limit, MaxFailures, Day, Far, MaxFaults

Trackers == Default \cup Core \cup UNION {Lists[v] : v \in DOMAIN Lists}

\* Players read within the file, and a reader is never taken for none.
PlaybackBounds ==
    /\ LastPiece \in Nat /\ MaxReads \in Nat
    /\ "nobody" \notin Readers
    /\ \A u \in Sessions : u.at \subseteq 0..LastPiece

ResumeBounds ==
    /\ IsFiniteSet(Hashes) /\ Hashes # {}
    /\ MaxSaves \in Nat /\ Budget \in Nat

\* Versions count from 1.  Powers of two are numbers: the provers do not know.
ListBounds ==
    /\ 1 \in DOMAIN Lists /\ DOMAIN Lists \subseteq Nat \ {0}
    /\ IsFiniteSet(Trackers)
    /\ Limit \in Nat /\ MaxFailures \in Nat \ {0} /\ Day \in Nat /\ Far \in Nat
    /\ \A n \in 0..MaxFailures : 2 ^ n \in Nat

ASSUME PlaybackAssumption == PlaybackBounds
ASSUME ResumeAssumption == ResumeBounds
ASSUME DiscoveryAssumption == MaxPerTracker \in Nat
ASSUME UdpAssumption == IsFiniteSet(Calls)
ASSUME WebTorrentAssumption == MaxOutstanding \in Nat
ASSUME ListAssumption == ListBounds

-----------------------------------------------------------------------------
VARIABLES
    pb_session, pb_call, pb_token, pb_cancelled, pb_op, pb_parker, pb_owners,
    pb_active, pb_playing, pb_resume, pb_timers, pb_playhead, pb_allowed,
    pb_use

pbVars ==
    <<pb_session, pb_call, pb_token, pb_cancelled, pb_op, pb_parker,
      pb_owners, pb_active, pb_playing, pb_resume, pb_timers, pb_playhead,
      pb_allowed, pb_use>>

P == INSTANCE Playback WITH
        session <- pb_session, call <- pb_call, token <- pb_token,
        cancelled <- pb_cancelled, op <- pb_op, parker <- pb_parker,
        owners <- pb_owners, active <- pb_active, playing <- pb_playing,
        resume <- pb_resume, timers <- pb_timers, playhead <- pb_playhead,
        allowed <- pb_allowed, use <- pb_use

VARIABLES
    res_generation, res_clears, res_save, res_pending, res_disk, res_known,
    res_listed, res_held, res_removing, res_clearing, res_shutting,
    res_clearedAt

resVars ==
    <<res_generation, res_clears, res_save, res_pending, res_disk, res_known,
      res_listed, res_held, res_removing, res_clearing, res_shutting,
      res_clearedAt>>

R == INSTANCE Resume WITH
        generation <- res_generation, clears <- res_clears, save <- res_save,
        pending <- res_pending, disk <- res_disk, known <- res_known,
        listed <- res_listed, held <- res_held, removing <- res_removing,
        clearing <- res_clearing, shutting <- res_shutting,
        clearedAt <- res_clearedAt

VARIABLES
    dis_torrents, dis_adds, dis_calls, dis_adding, dis_dht, dis_handle,
    dis_ws, dis_snapshots, dis_slot, dis_epoch, dis_inflight, dis_announces,
    dis_clients, dis_answered, dis_thread, dis_closed

disVars ==
    <<dis_torrents, dis_adds, dis_calls, dis_adding, dis_dht, dis_handle,
      dis_ws, dis_snapshots, dis_slot, dis_epoch, dis_inflight, dis_announces,
      dis_clients, dis_answered, dis_thread, dis_closed>>

D == INSTANCE Discovery WITH
        torrents <- dis_torrents, adds <- dis_adds, calls <- dis_calls, adding <- dis_adding,
        dht <- dis_dht, handle <- dis_handle, ws <- dis_ws,
        snapshots <- dis_snapshots, slot <- dis_slot, epoch <- dis_epoch,
        inflight <- dis_inflight, announces <- dis_announces,
        clients <- dis_clients, answered <- dis_answered,
        thread <- dis_thread, closed <- dis_closed

VARIABLES
    udp_state, udp_call, udp_made, udp_ids, udp_requests, udp_answers,
    udp_sends, udp_issued, udp_tids, udp_faults, udp_refused

udpVars ==
    <<udp_state, udp_call, udp_made, udp_ids, udp_requests, udp_answers,
      udp_sends, udp_issued, udp_tids, udp_faults, udp_refused>>

U == INSTANCE UdpTracker WITH
        MaxCalls <- MaxTrips, MaxFaults <- MaxLost, state <- udp_state, call <- udp_call,
        made <- udp_made, ids <- udp_ids, requests <- udp_requests,
        answers <- udp_answers, sends <- udp_sends, issued <- udp_issued,
        tids <- udp_tids, faults <- udp_faults, refused <- udp_refused

VARIABLES
    ws_ws, ws_tx, ws_rx, ws_box, ws_outbound, ws_old, ws_tasks, ws_made,
    ws_known, ws_announced, ws_peers, ws_faults

wsVars ==
    <<ws_ws, ws_tx, ws_rx, ws_box, ws_outbound, ws_old, ws_tasks, ws_made,
      ws_known, ws_announced, ws_peers, ws_faults>>

T == INSTANCE WebTorrent WITH
        Max <- MaxOutstanding, MaxFaults <- MaxBroken, ws <- ws_ws, tx <- ws_tx,
        rx <- ws_rx, box <- ws_box, outbound <- ws_outbound, old <- ws_old,
        tasks <- ws_tasks, made <- ws_made, known <- ws_known,
        announced <- ws_announced, peers <- ws_peers, faults <- ws_faults

VARIABLES
    list_source, list_cache, list_disk, list_fetch, list_torrents, list_faults

listVars ==
    <<list_source, list_cache, list_disk, list_fetch, list_torrents,
      list_faults>>

L == INSTANCE TrackerList WITH
        source <- list_source, cache <- list_cache,
        disk <- list_disk, fetch <- list_fetch, torrents <- list_torrents,
        faults <- list_faults

-----------------------------------------------------------------------------
(* Between a seek, a pause, a close, a hold and a play the latest read of a *)
(* reader wins and nothing of an ended one stays: no read, owner, playhead  *)
(* or held demand (Playback; playback.rs).                                  *)
ReadersEndClean ==
    /\ P!LatestReadWins
    /\ P!NoReadSurvivesPause /\ P!ClosedOwnsNothing
    /\ P!PlayheadEndsWithPlayback /\ P!HeldDemandExpires

(* A position that was cleared is not brought back by a save under way, and *)
(* the saved windows fit their budget (Resume: ClearedStaysCleared and      *)
(* WindowsFit; playback_resume.rs).                                         *)
PositionsStayCleared == R!PositionsStayCleared

(* The announces counted against a tracker are those that run and within    *)
(* its limit, and the result of an announce for a removed torrent is not    *)
(* taken for that of the re-added one (Discovery: InflightIsCounted and     *)
(* StaleResultIgnored; announcer.rs).                                       *)
AnnouncesAreCounted == D!AnnouncesAreCounted

(* Of the calls sharing a socket none waits in silence because another took *)
(* its answer, and no announce reaches the tracker with an id it forgot     *)
(* (UdpTracker: NobodyWaitsInSilence and IdIsAccepted; udp.rs).             *)
AnswersAreShared == U!NobodyWaitsInSilence /\ U!IdIsAccepted

(* Offers stay within their budget and an answered one is replaced          *)
(* (WebTorrent: OffersAreBounded and SupplyIsKept; webtorrent/mod.rs).      *)
OffersAreKept == T!OffersAreBounded /\ T!SupplyIsKept

(* The cached list is the one its tag names, a torrent gets public trackers *)
(* only if it may, and the next attempt is near (TrackerList: TagIsOfList,  *)
(* SupplementIsLawful and AttemptIsNear; trackers.rs).                      *)
ListIsLawful == L!ListIsLawful
=============================================================================
