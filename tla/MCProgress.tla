----------------------------- MODULE MCProgress -----------------------------
(* Small instances of the components that owe somebody an answer, in one     *)
(* state space.  part, which never changes, names the component a behaviour  *)
(* is of and whose fairness holds; the others stay in one initial state.     *)
(*   metadata  Metadata: the info of a magnet, fetched from several peers;   *)
(*   recovery  Recovery: the connections after a change of network;          *)
(*   idle      IdlePlay: resting and waking a paused stream's peers;         *)
(*   upload    Upload: a peer's requests, from the choke to the socket;      *)
(*   pool      HashPool: the threads that hash pieces;                       *)
(*   stream    Stream: an HTTP range served from a core reader;              *)
(*   preview   Preview: a preview's bounded reads and its close;             *)
(*   windows   Windows: byte and piece ranges of the playback policies.      *)
(* Progress.cfg gives the constants of Promises.                             *)
EXTENDS Promises

VARIABLE part

\* File layouts, window plans and offsets around their piece boundaries.
MCLayouts == {[pl |-> pl, off |-> off, len |-> len, total |-> off + len + rest] :
              pl \in {2, 3}, off \in {0, 3}, len \in {1, 8}, rest \in {0, 2}}
MCPlans == [budget : {0, 9, 20}, keyframes : {0, 2}, readers : {1, 3}, forward : {3, 9},
            urgent : {2, 4}, ghost : BOOLEAN]
MCOffsets == {-2, 0, 1, 2, 3, 5, 8, 9, 12}

VARIABLES
    pool_queuer, pool_unasked, pool_refused, pool_lock, pool_queue,
    pool_worker, pool_job, pool_results, pool_applied, pool_stop, pool_closing

poolVars ==
    <<pool_queuer, pool_unasked, pool_refused, pool_lock, pool_queue,
      pool_worker, pool_job, pool_results, pool_applied, pool_stop,
      pool_closing>>

H == INSTANCE HashPool WITH
        Jobs <- {1, 2}, Queuers <- {1, 2}, Workers <- {1, 2},
        queuer <- pool_queuer, unasked <- pool_unasked,
        refused <- pool_refused, lock <- pool_lock, queue <- pool_queue,
        worker <- pool_worker, job <- pool_job, results <- pool_results,
        applied <- pool_applied, stop <- pool_stop, closing <- pool_closing

----------------------------------------------------------------------------
all ==
    <<part, metaVars, recVars, idleVars, upVars, poolVars, strVars, preVars,
      winVars>>

MCInit ==
    /\ part \in {"metadata", "recovery", "idle", "upload", "pool", "stream",
                 "preview", "windows"}
    /\ M!Init /\ N!Init /\ I!Init /\ Q!Init /\ H!Init /\ S!Init /\ V!Init /\ W!Init
    /\ part # "metadata" => meta_kind = [p \in MetaPeers |-> "right"]
    /\ part # "upload" => ~up_peer.fast /\ ~up_peer.seeding /\ up_peer.grants = {}
    /\ part # "stream" => str_range = <<0, 0>> /\ str_have = {}
    /\ part # "preview" => pre_complete = {}

\* The components other than p are left alone.
Others(p) ==
    /\ UNCHANGED part
    /\ p # "metadata" => UNCHANGED metaVars
    /\ p # "recovery" => UNCHANGED recVars
    /\ p # "idle" => UNCHANGED idleVars
    /\ p # "upload" => UNCHANGED upVars
    /\ p # "pool" => UNCHANGED poolVars
    /\ p # "stream" => UNCHANGED strVars
    /\ p # "preview" => UNCHANGED preVars
    /\ p # "windows" => UNCHANGED winVars

MCNext ==
    \/ part = "metadata" /\ M!Next /\ Others("metadata")
    \/ part = "recovery" /\ N!Next /\ Others("recovery")
    \/ part = "idle" /\ I!Next /\ Others("idle")
    \/ part = "upload" /\ Q!Next /\ Others("upload")
    \/ part = "pool" /\ H!Next /\ Others("pool")
    \/ part = "stream" /\ S!Next /\ Others("stream")
    \/ part = "preview" /\ V!Next /\ Others("preview")
    \/ part = "windows" /\ W!Next /\ Others("windows")

\* The Fairness of each component, for the behaviours that are its own.
MetadataFairness ==
    /\ \A p \in MetaPeers :
        /\ WF_metaVars(part = "metadata" /\ M!Handshake(p))
        /\ WF_metaVars(part = "metadata" /\ M!Wake(p, {}))
    /\ \A p \in MetaPeers, i \in MetaPieces :
        /\ WF_metaVars(part = "metadata" /\ M!Answer(<<p, i>>, "good"))
        /\ \A d \in {"good", "bad"} :
            WF_metaVars(part = "metadata"
                        /\ M!ReceiveData([peer |-> p, piece |-> i, data |-> d]))
        /\ WF_metaVars(part = "metadata"
                       /\ M!ReceiveReject([peer |-> p, piece |-> i, data |-> "reject"]))
    /\ \A t \in {"peer", "source"} : WF_metaVars(part = "metadata" /\ M!SetInfo(t))

RecoveryFairness ==
    \A e \in 1..MaxGen :
        /\ WF_recVars(part = "recovery" /\ N!Round(e))
        /\ \A r \in Records :
            /\ WF_recVars(part = "recovery" /\ N!Visit(e, r))
            /\ WF_recVars(part = "recovery" /\ N!Reconnect(e, r))

IdleFairness ==
    /\ \A w \in Wakers :
        /\ WF_idleVars(part = "idle" /\ I!MarkAwake(w))
        /\ WF_idleVars(part = "idle" /\ I!Wake(w))
    /\ WF_idleVars(part = "idle" /\ I!Rest)
    /\ WF_idleVars(part = "idle" /\ I!TickWakes)

UploadFairness ==
    /\ WF_upVars(part = "upload" /\ Q!Enable) /\ WF_upVars(part = "upload" /\ Q!Drain)
    /\ WF_upVars(part = "upload" /\ Q!Decide) /\ WF_upVars(part = "upload" /\ Q!Select)
    /\ WF_upVars(part = "upload" /\ Q!Wake) /\ WF_upVars(part = "upload" /\ Q!Write)
    /\ WF_upVars(part = "upload" /\ Q!Notify)
    /\ \A b \in UploadBlocks : WF_upVars(part = "upload" /\ Q!ReadDone(b))

PoolFairness ==
    /\ \A q \in {1, 2} :
        /\ SF_poolVars(part = "pool" /\ H!Push(q))
        /\ WF_poolVars(part = "pool" /\ H!Notify(q))
    /\ \A w \in {1, 2} :
        /\ WF_poolVars(part = "pool" /\ H!Lock(w))
        /\ WF_poolVars(part = "pool" /\ H!Look(w))
        /\ WF_poolVars(part = "pool" /\ H!Wait(w))
        /\ WF_poolVars(part = "pool"
                       /\ \E how \in {"correct", "wrong", "cancelled"} : H!Hash(w, how))
    /\ WF_poolVars(part = "pool" /\ \E r \in pool_results : H!Apply(r))
    /\ WF_poolVars(part = "pool" /\ H!NotifyAll)
    /\ WF_poolVars(part = "pool" /\ H!Join)

StreamFairness ==
    /\ WF_strVars(part = "stream" /\ S!Opened)
    /\ WF_strVars(part = "stream" /\ (S!Respond \/ S!RespondEmpty))
    /\ WF_strVars(part = "stream" /\ S!Loop)
    /\ WF_strVars(part = "stream" /\ S!Read)

PreviewFairness ==
    /\ \A t \in PreviewThreads : WF_preVars(part = "preview" /\ V!ReadStep(t))
    /\ \A c \in Closers : WF_preVars(part = "preview" /\ V!CloseStep(c))

MCSpec ==
    /\ MCInit /\ [][MCNext]_all
    /\ MetadataFairness /\ RecoveryFairness /\ IdleFairness /\ UploadFairness
    /\ PoolFairness /\ StreamFairness /\ PreviewFairness

----------------------------------------------------------------------------
(* A magnet whose peers agree gets its info, whatever is lost, rejected or  *)
(* corrupt on the way (Metadata; metadata/mod.rs).                          *)
MagnetGetsInfo == part = "metadata" => M!MagnetGetsInfo

(* After a change of network every running torrent looks for peers on the   *)
(* new route, unless a newer change takes over (Recovery; recover_network). *)
EveryTorrentSearches == part = "recovery" => N!EveryTorrentSearches

(* A read that waits for bytes gets its peers back, however it races the    *)
(* tick that rests them (IdlePlay; idle_direct_play.rs, server.rs).         *)
ReadGetsPeers == part = "idle" => I!ReadGetsPeers

(* A request that was accepted and a job that was queued get their answer   *)
(* without the help of a keep-alive or idle timer: no wake-up is lost       *)
(* (Upload, HashPool; conn/driver.rs and hashing/pool.rs).                  *)
NoWakeupIsLost ==
    /\ part = "upload" => Q!RequestIsAnswered
    /\ part = "pool" => H!JobIsHashed

(* A player that hangs up frees its reader, and closing a preview returns,  *)
(* without the pieces they wait for (Stream, Preview; stream_http.rs and    *)
(* preview.rs).                                                             *)
LeavingIsPrompt ==
    /\ part = "stream" => S!HangUpFreesReader
    /\ part = "preview" => V!CloseReturns
=============================================================================
