------------------------------ MODULE Promises ------------------------------
(***************************************************************************)
(* Components that owe a peer or a reader something, side by side:         *)
(*   M  Metadata, the info of a magnet, fetched from several peers;        *)
(*   N  Recovery, the connections after a change of network;               *)
(*   I  IdlePlay, resting and waking a paused stream's peers;              *)
(*   S  Stream, an HTTP range served from a core reader;                   *)
(*   V  Preview, a preview's bounded reads and its close;                  *)
(*   W  Windows, the pieces a reader's bytes and its window stand for;     *)
(*   Q  Upload, a peer's requests, from the choke to the socket.           *)
(* They share no state.                                                    *)
(***************************************************************************)
EXTENDS Integers, FiniteSets

CONSTANTS MetaPeers, MetaPieces, Slots, MetaFaults,
          Records, Addresses, MaxGen, RecordChanges, Rounds,
          IdleReaders, Wakers, IdleChanges,
          FilePieces, Chunk, Depth, Attempts,
          PreviewPieces, PreviewThreads, Closers, PreviewBudget,
          Layouts, Offsets, Plans,
          UploadBlocks, MaxQueued, Batch, Headroom, MaxRequests, UploadEvents

\* A piece has a length, a file ends where its torrent ends at the latest, and
\* somebody reads.
WindowBounds ==
    /\ Layouts # {} /\ Offsets # {} /\ Plans # {}
    /\ Layouts \subseteq [pl : Nat \ {0}, off : Nat, len : Nat, total : Nat]
    /\ \A f \in Layouts : f.off + f.len <= f.total
    /\ Offsets \subseteq Int
    /\ Plans \subseteq [budget : Nat, keyframes : Nat, readers : Nat \ {0}, forward : Nat,
                        urgent : Nat \ {0}, ghost : BOOLEAN]

ASSUME RecoveryAssumption == MaxGen \in Nat
ASSUME StreamAssumption == FilePieces \in Nat /\ Chunk \in Nat \ {0}
ASSUME PreviewAssumption == IsFiniteSet(PreviewPieces) /\ PreviewBudget \in Nat
ASSUME WindowAssumption == WindowBounds
ASSUME UploadAssumption == Headroom \in Nat

-----------------------------------------------------------------------------
VARIABLES
    meta_kind, meta_conn, meta_asked, meta_remote, meta_answers, meta_size,
    meta_pieces, meta_verified, meta_info, meta_setter, meta_source,
    meta_faults

metaVars ==
    <<meta_kind, meta_conn, meta_asked, meta_remote, meta_answers, meta_size,
      meta_pieces, meta_verified, meta_info, meta_setter, meta_source,
      meta_faults>>

M == INSTANCE Metadata WITH
        Peers <- MetaPeers, Pieces <- MetaPieces, MaxFaults <- MetaFaults,
        kind <- meta_kind, conn <- meta_conn, asked <- meta_asked,
        remote <- meta_remote, answers <- meta_answers, size <- meta_size,
        pieces <- meta_pieces, verified <- meta_verified, info <- meta_info,
        setter <- meta_setter, source <- meta_source, faults <- meta_faults

VARIABLES
    rec_generation, rec_episode, rec_worker, rec_conns, rec_cached,
    rec_dropped, rec_state, rec_swept, rec_found, rec_changes

recVars ==
    <<rec_generation, rec_episode, rec_worker, rec_conns, rec_cached,
      rec_dropped, rec_state, rec_swept, rec_found, rec_changes>>

N == INSTANCE Recovery WITH
        Peers <- Addresses, MaxChanges <- RecordChanges,
        generation <- rec_generation, episode <- rec_episode,
        worker <- rec_worker, conns <- rec_conns, cached <- rec_cached,
        dropped <- rec_dropped, state <- rec_state, swept <- rec_swept,
        found <- rec_found, changes <- rec_changes

VARIABLES
    idle_policy, idle_restPeers, idle_cap, idle_resting, idle_tick,
    idle_waker, idle_eligible, idle_changes

idleVars ==
    <<idle_policy, idle_restPeers, idle_cap, idle_resting, idle_tick,
      idle_waker, idle_eligible, idle_changes>>

I == INSTANCE IdlePlay WITH
        Readers <- IdleReaders, MaxChanges <- IdleChanges,
        policy <- idle_policy, restPeers <- idle_restPeers, cap <- idle_cap,
        resting <- idle_resting, tick <- idle_tick, waker <- idle_waker,
        eligible <- idle_eligible, changes <- idle_changes

VARIABLES
    str_client, str_range, str_handler, str_reader, str_task, str_off,
    str_chan, str_got, str_core, str_pushed, str_call, str_have, str_allowed

strVars ==
    <<str_client, str_range, str_handler, str_reader, str_task, str_off,
      str_chan, str_got, str_core, str_pushed, str_call, str_have, str_allowed>>

S == INSTANCE Stream WITH
        Pieces <- FilePieces,
        client <- str_client, range <- str_range, handler <- str_handler,
        reader <- str_reader, task <- str_task, off <- str_off,
        chan <- str_chan, got <- str_got, core <- str_core,
        pushed <- str_pushed, call <- str_call, have <- str_have,
        allowed <- str_allowed

VARIABLES
    pre_closed, pre_cancelled, pre_gone, pre_admission, pre_inner,
    pre_admitted, pre_spent, pre_demand, pre_fetched, pre_complete, pre_read,
    pre_close

preVars ==
    <<pre_closed, pre_cancelled, pre_gone, pre_admission, pre_inner,
      pre_admitted, pre_spent, pre_demand, pre_fetched, pre_complete,
      pre_read, pre_close>>

V == INSTANCE Preview WITH
        Pieces <- PreviewPieces, Threads <- PreviewThreads,
        Budget <- PreviewBudget, closed <- pre_closed, cancelled <- pre_cancelled,
        gone <- pre_gone, admission <- pre_admission, inner <- pre_inner,
        admitted <- pre_admitted, spent <- pre_spent, demand <- pre_demand,
        fetched <- pre_fetched, complete <- pre_complete, read <- pre_read,
        close <- pre_close

VARIABLES
    win_input

winVars ==
    <<win_input>>

W == INSTANCE Windows WITH input <- win_input

VARIABLES
    up_peer, up_gate, up_choking, up_received, up_charged, up_owed,
    up_cancels, up_queued, up_reads, up_queue, up_poking, up_writer, up_sent,
    up_closed, up_requests, up_events

upVars ==
    <<up_peer, up_gate, up_choking, up_received, up_charged, up_owed,
      up_cancels, up_queued, up_reads, up_queue, up_poking, up_writer,
      up_sent, up_closed, up_requests, up_events>>

Q == INSTANCE Upload WITH
        Blocks <- UploadBlocks, MaxEvents <- UploadEvents,
        peer <- up_peer, gate <- up_gate,
        choking <- up_choking, received <- up_received, charged <- up_charged,
        owed <- up_owed, cancels <- up_cancels, queued <- up_queued,
        reads <- up_reads, queue <- up_queue, poking <- up_poking,
        writer <- up_writer, sent <- up_sent, closed <- up_closed,
        requests <- up_requests, events <- up_events

-----------------------------------------------------------------------------
(* Whatever peers of different sizes and with corrupt pieces contribute, in *)
(* whatever order, the info of a magnet is made of the bytes it names       *)
(* (Metadata; metadata/mod.rs).                                             *)
InfoIsGenuine == M!InfoIsGenuine

(* However many changes of network follow each other, the address of a peer *)
(* that recovery closed is kept until the peer is back, and once recovery   *)
(* has closed a torrent's peers no connection of an older route is left     *)
(* (Recovery: AddressesKept and OldRouteIsGone; recover_network).           *)
RecoveryIsSound == N!AddressesKept /\ N!OldRouteIsGone

(* While a read is under way the session has connections or somebody is     *)
(* about to give them back, and no address stays behind a rest that lost    *)
(* against a read (IdlePlay: ReaderIsServed and PeersComeBack;              *)
(* idle_direct_play.rs, server.rs).                                         *)
RestingIsUndone == I!ReaderIsServed /\ I!PeersComeBack

(* The player receives the bytes of its range from the first one on, each   *)
(* once and in order, and a read that waits is waiting for a piece that the *)
(* torrent knows is wanted (Stream: BytesInOrder and WaitingIsRegistered;   *)
(* stream_http.rs, reader.rs).                                              *)
RangeIsServed == S!BytesInOrder /\ S!WaitingIsRegistered

(* A preview never makes the torrent fetch more than its budget, whatever   *)
(* ranges its reads ask for and whatever completes meanwhile (Preview;      *)
(* admit_preview_range).                                                    *)
BudgetIsKept == V!BudgetIsKept

(* The piece range of a byte range is exact and the windows of all readers  *)
(* fit the cache, at every boundary of the file (Windows: RangesAreExact    *)
(* and WindowFitsCache; adaptive_buffer.rs and playback.rs).                *)
WindowsAreExact == W!RangesAreExact /\ W!WindowFitsCache

(* The bytes reserved for a peer are those being read or queued for it on   *)
(* every path of a block, and what it is sent it has earned, counting the    *)
(* blocks still on their way (Upload: UploadsBalance and UploadIsEarned;     *)
(* conn/handle.rs, peer_conn.rs).                                            *)
UploadIsRight == Q!UploadsBalance /\ Q!UploadIsEarned

(* Peers are treated right: what they contribute is checked before it is    *)
(* used, what is known of them survives a change of network, and what they  *)
(* are sent they have earned, on every path of a block.                     *)
PeersAreTreatedRight == InfoIsGenuine /\ RecoveryIsSound /\ UploadIsRight

(* Readers are served: a rest is undone by a read, a range reaches the      *)
(* player whole and in order, and a preview keeps to its budget.            *)
ReadersAreServed == RestingIsUndone /\ RangeIsServed /\ BudgetIsKept
=============================================================================
