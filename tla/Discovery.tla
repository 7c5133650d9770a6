------------------------------ MODULE Discovery ------------------------------
(***************************************************************************)
(* Discovery of peers for the torrents of a client: the tracker announce   *)
(* dispatcher, the DHT announcers and the WebSocket tracker clients, under *)
(* the calls that add, refresh, rediscover and remove torrents.            *)
(*                                                                         *)
(* Registering and unregistering hold add_torrent_lock; the dial loop's    *)
(* refresh, the tracker list's additions and network recovery do not.      *)
(* Every call takes its locks one after the other, one step each.  Time is *)
(* abstracted: an idle slot is due at any moment.                          *)
(***************************************************************************)
EXTENDS Naturals, FiniteSets

CONSTANTS Urls,          \* http and udp trackers of every torrent
          Hashes,        \* short info hashes
          Threads,       \* callers
          MaxAdds,       \* registrations, each a new entry
          MaxCalls,      \* other calls
          MaxPerTracker  \* MAX_CONCURRENT_ANNOUNCES_PER_TRACKER

VARIABLES
    torrents,    \* the entry registered for each hash, or 0
    adds, calls, \* entries and calls made so far
    adding,      \* add_torrent_lock is held
    dht,         \* the running DHT announcers, by entry
    handle,      \* the announcer whose handle the entry keeps, or 0
    ws,          \* running WebSocket clients: the entry each is stored on, or 0
    snapshots,   \* hashes with a snapshot in the dispatcher
    slot,        \* the dispatcher's slots
    epoch,       \* next_epoch
    inflight,    \* url_inflight
    announces,   \* the announces that run
    clients,     \* trackers with a client
    answered,    \* the epochs of slots one of whose announces succeeded
    thread,      \* where each caller is
    closed

vars == <<torrents, adds, calls, adding, dht, handle, ws, snapshots, slot, epoch, inflight,
          announces, clients, answered, thread, closed>>
dispatcher == <<slot, epoch, inflight, announces, clients, answered>>
registry == <<torrents, adds, adding, closed>>
lookups == <<dht, handle, ws>>

Idle == [op |-> "none", at |-> "none", hash |-> CHOOSE h \in Hashes : TRUE, entry |-> 0]
NoSlot == [active |-> FALSE, event |-> "gone", epoch |-> 0]
Entries == 1..MaxAdds

Init ==
    /\ torrents = [h \in Hashes |-> 0]
    /\ adds = 0 /\ calls = 0 /\ adding = FALSE
    /\ dht = {} /\ handle = [e \in Entries |-> 0] /\ ws = {}
    /\ snapshots = {}
    /\ slot = [k \in Urls \X Hashes |-> NoSlot]
    /\ epoch = 0
    /\ inflight = [u \in Urls |-> 0]
    /\ announces = {} /\ clients = {} /\ answered = {}
    /\ thread = [t \in Threads |-> Idle]
    /\ closed = FALSE

Goto(t, at) == thread' = [thread EXCEPT ![t].at = at]
Return(t) == thread' = [thread EXCEPT ![t] = Idle]

-----------------------------------------------------------------------------
(* The announce dispatcher.                                                *)

\* AnnounceDispatcher::add_trackers: a slot that is there stays as it is.
AddTrackers(h) ==
    /\ epoch' = epoch + 1
    /\ slot' = [k \in Urls \X Hashes |->
                  IF k[2] = h /\ slot[k] = NoSlot
                  THEN [active |-> FALSE, event |-> "started", epoch |-> epoch + 1]
                  ELSE slot[k]]
    /\ UNCHANGED <<inflight, announces, clients, answered>>

\* remove_torrent: the slots go now; Stopped is sent on the side, uncounted.
RemoveTorrent(h) ==
    /\ snapshots' = snapshots \ {h}
    /\ slot' = [k \in Urls \X Hashes |-> IF k[2] = h THEN NoSlot ELSE slot[k]]
    /\ UNCHANGED <<epoch, inflight, announces, clients, answered>>

\* dispatch_once takes one due slot.
Dispatch(u, h) ==
    /\ ~closed
    /\ slot[<<u, h>>] # NoSlot /\ ~slot[<<u, h>>].active
    /\ inflight[u] < MaxPerTracker
    /\ h \in snapshots
    /\ slot' = [slot EXCEPT ![<<u, h>>].active = TRUE]
    /\ inflight' = [inflight EXCEPT ![u] = @ + 1]
    /\ announces' = announces \cup {[url |-> u, hash |-> h, event |-> slot[<<u, h>>].event,
                                     epoch |-> slot[<<u, h>>].epoch, at |-> "client"]}
    /\ UNCHANGED <<registry, calls, lookups, snapshots, epoch, clients, answered, thread>>

\* run_announce takes the tracker's client or makes one and keeps it.
FindClient(a) ==
    /\ a \in announces /\ a.at = "client"
    /\ announces' = (announces \ {a}) \cup {[a EXCEPT !.at = "sent"]}
    /\ clients' = clients \cup {a.url}
    /\ UNCHANGED <<registry, calls, lookups, snapshots, slot, epoch, inflight, answered, thread>>

\* Mutant: the tracker's place is given back only for a slot that is there.
FinishEpochFirst(a, ok) ==
    /\ a \in announces /\ (ok => a.at = "sent")
    /\ announces' = announces \ {a}
    /\ LET s == slot[<<a.url, a.hash>>]
           mine == s # NoSlot /\ s.epoch = a.epoch
       IN /\ inflight' = IF mine THEN [inflight EXCEPT ![a.url] = @ - 1] ELSE inflight
          /\ slot' = IF mine
                     THEN [slot EXCEPT ![<<a.url, a.hash>>].active = FALSE,
                                       ![<<a.url, a.hash>>].event = IF ok THEN "none" ELSE @]
                     ELSE slot
          /\ answered' = IF ok THEN answered \cup {a.epoch} ELSE answered
    /\ UNCHANGED <<registry, calls, lookups, snapshots, epoch, clients, thread>>

\* Mutant: any slot of the tracker and hash takes the result.
FinishAnySlot(a, ok) ==
    /\ a \in announces /\ (ok => a.at = "sent")
    /\ announces' = announces \ {a}
    /\ inflight' = [inflight EXCEPT ![a.url] = @ - 1]
    /\ LET there == slot[<<a.url, a.hash>>] # NoSlot
       IN /\ slot' = IF there
                     THEN [slot EXCEPT ![<<a.url, a.hash>>].active = FALSE,
                                       ![<<a.url, a.hash>>].event = IF ok THEN "none" ELSE @]
                     ELSE slot
          /\ answered' = IF ok THEN answered \cup {a.epoch} ELSE answered
    /\ UNCHANGED <<registry, calls, lookups, snapshots, epoch, clients, thread>>

\* finish_announce: the result counts for the slot it was sent for only.
FinishAnnounce(a, ok) ==
    /\ a \in announces /\ (ok => a.at = "sent")
    /\ announces' = announces \ {a}
    /\ inflight' = [inflight EXCEPT ![a.url] = @ - 1]
    /\ LET s == slot[<<a.url, a.hash>>]
           mine == s # NoSlot /\ s.epoch = a.epoch
       IN /\ slot' = IF mine
                     THEN [slot EXCEPT ![<<a.url, a.hash>>].active = FALSE,
                                       ![<<a.url, a.hash>>].event = IF ok THEN "none" ELSE @]
                     ELSE slot
          /\ answered' = IF ok THEN answered \cup {a.epoch} ELSE answered
    /\ UNCHANGED <<registry, calls, lookups, snapshots, epoch, clients, thread>>

\* network_changed: the next announces build fresh clients.
ResetClients ==
    /\ clients # {} /\ calls < MaxCalls
    /\ clients' = {} /\ calls' = calls + 1
    /\ UNCHANGED <<registry, lookups, snapshots, slot, epoch, inflight, announces, answered,
                   thread>>

-----------------------------------------------------------------------------
(* Calls.  Each starts under the lock of the registry.                     *)

Call(t, op, at, h, e) ==
    /\ thread[t] = Idle /\ ~closed
    /\ thread' = [thread EXCEPT ![t] = [op |-> op, at |-> at, hash |-> h, entry |-> e]]

\* register_torrent, with add_torrent_lock: an info hash that is registered
\* is refused.
Register(t, h) ==
    /\ ~adding /\ adds < MaxAdds /\ torrents[h] = 0
    /\ Call(t, "register", "snapshot", h, adds + 1)
    /\ adds' = adds + 1 /\ adding' = TRUE
    /\ torrents' = [torrents EXCEPT ![h] = adds + 1]
    /\ UNCHANGED <<calls, closed, lookups, snapshots, dispatcher>>

\* unregister_torrent, with add_torrent_lock.
Unregister(t, h) ==
    /\ ~adding /\ torrents[h] # 0
    /\ Call(t, "unregister", "stop", h, torrents[h])
    /\ adding' = TRUE
    /\ torrents' = [torrents EXCEPT ![h] = 0]
    /\ UNCHANGED <<adds, calls, closed, lookups, snapshots, dispatcher>>

\* The calls on a torrent somebody still holds: the dial loop's refresh, new
\* trackers, and rediscovery after a network change.
CallOn(t, h, op) ==
    /\ calls < MaxCalls /\ torrents[h] # 0
    /\ Call(t, op, CASE op = "trackers" -> "slots" [] OTHER -> "snapshot", h, torrents[h])
    /\ calls' = calls + 1
    /\ UNCHANGED <<registry, lookups, snapshots, dispatcher>>

\* push_snapshot; announce_now only moves the time.  A refresh looks again
\* whether the hash is registered.
PushSnapshot(t) ==
    /\ thread[t].at = "snapshot"
    /\ snapshots' = IF thread[t].op = "refresh" /\ torrents[thread[t].hash] = 0
                    THEN snapshots ELSE snapshots \cup {thread[t].hash}
    /\ CASE thread[t].op = "register" -> Goto(t, "slots")
         [] thread[t].op = "rediscover" -> Goto(t, "abort")
         [] OTHER -> Return(t)
    /\ UNCHANGED <<registry, calls, lookups, dispatcher>>

AddSlots(t) ==
    /\ thread[t].at = "slots"
    /\ AddTrackers(thread[t].hash)
    /\ Goto(t, "ws")
    /\ UNCHANGED <<registry, calls, lookups, snapshots>>

\* start_ws_tracker: the client runs; it is stored on the entry that is
\* registered by now, if there is one.
StartWsTracker(t) ==
    /\ thread[t].at = "ws"
    /\ ws' = ws \cup {[by |-> thread[t].entry, on |-> torrents[thread[t].hash]]}
    /\ IF thread[t].op = "register" THEN Goto(t, "abort") ELSE Return(t)
    /\ UNCHANGED <<registry, calls, dht, handle, snapshots, dispatcher>>

\* spawn_dht_announcer: the old announcer is aborted under the entry's lock...
AbortAnnouncer(t) ==
    /\ thread[t].at = "abort"
    /\ LET e == thread[t].entry
       IN IF closed
          THEN /\ Return(t)
               /\ adding' = (adding /\ thread[t].op # "register")
               /\ UNCHANGED <<dht, handle>>
          ELSE /\ Goto(t, "spawn")
               /\ dht' = {d \in dht : ~(d.entry = e /\ d.id = handle[e])}
               /\ handle' = [handle EXCEPT ![e] = 0]
               /\ UNCHANGED adding
    /\ UNCHANGED <<torrents, adds, closed, calls, ws, snapshots, dispatcher>>

\* ... and the new one's handle is stored under another.
SpawnAnnouncer(t) ==
    /\ thread[t].at = "spawn"
    /\ LET e == thread[t].entry
           id == 1 + Cardinality({d \in dht : d.entry = e})
       IN /\ dht' = dht \cup {[entry |-> e, id |-> id]}
          /\ handle' = [handle EXCEPT ![e] = id]
    /\ adding' = (adding /\ thread[t].op # "register")
    /\ Return(t)
    /\ UNCHANGED <<torrents, adds, closed, calls, ws, snapshots, dispatcher>>

\* unregister_torrent tells the dispatcher, then stops what the entry keeps.
StopTrackers(t) ==
    /\ thread[t].at = "stop"
    /\ RemoveTorrent(thread[t].hash)
    /\ Goto(t, "release")
    /\ UNCHANGED <<registry, calls, lookups>>

ReleaseEntry(t) ==
    /\ thread[t].at = "release"
    /\ LET e == thread[t].entry
       IN /\ ws' = {c \in ws : c.on # e}
          /\ dht' = {d \in dht : ~(d.entry = e /\ d.id = handle[e])}
          /\ handle' = [handle EXCEPT ![e] = 0]
    /\ adding' = FALSE
    /\ Return(t)
    /\ UNCHANGED <<torrents, adds, closed, calls, snapshots, dispatcher>>

\* Sources::close
Close ==
    /\ ~closed
    /\ closed' = TRUE
    /\ torrents' = [h \in Hashes |-> 0]
    /\ LET open == {torrents[h] : h \in Hashes} \ {0}
           shut == {h \in Hashes : torrents[h] # 0}
       IN /\ ws' = {c \in ws : c.on \notin open}
          /\ dht' = {d \in dht : ~(d.entry \in open /\ d.id = handle[d.entry])}
          /\ handle' = [e \in Entries |-> IF e \in open THEN 0 ELSE handle[e]]
          /\ snapshots' = snapshots \ shut
          /\ slot' = [k \in Urls \X Hashes |-> IF k[2] \in shut THEN NoSlot ELSE slot[k]]
    /\ UNCHANGED <<adds, adding, calls, epoch, inflight, announces, clients, answered, thread>>

\* An announcer that comes round its loop sees that the sources are closed.
DhtLoop(d) ==
    /\ d \in dht /\ closed
    /\ dht' = dht \ {d}
    /\ UNCHANGED <<registry, calls, handle, ws, snapshots, dispatcher, thread>>

Next ==
    \/ \E u \in Urls, h \in Hashes : Dispatch(u, h)
    \/ \E a \in announces : FindClient(a)
    \/ \E a \in announces, ok \in BOOLEAN : FinishAnnounce(a, ok)
    \/ ResetClients
    \/ \E t \in Threads, h \in Hashes : Register(t, h)
    \/ \E t \in Threads, h \in Hashes : Unregister(t, h)
    \/ \E t \in Threads, h \in Hashes, op \in {"refresh", "trackers", "rediscover"} : CallOn(t, h, op)
    \/ \E t \in Threads : PushSnapshot(t)
    \/ \E t \in Threads : AddSlots(t)
    \/ \E t \in Threads : StartWsTracker(t)
    \/ \E t \in Threads : AbortAnnouncer(t)
    \/ \E t \in Threads : SpawnAnnouncer(t)
    \/ \E t \in Threads : StopTrackers(t)
    \/ \E t \in Threads : ReleaseEntry(t)
    \/ Close
    \/ \E d \in dht : DhtLoop(d)

Spec == Init /\ [][Next]_vars

-----------------------------------------------------------------------------
(* Properties.                                                             *)

\* However torrents come, go and come back while announces run, a tracker is
\* never asked by more than two at a time, and no place of it leaks: the
\* count is that of the announces that run.
InflightIsCounted ==
    \A u \in Urls :
        /\ inflight[u] = Cardinality({a \in announces : a.url = u})
        /\ inflight[u] <= MaxPerTracker

\* The result of an announce for a removed torrent is not the re-added one's:
\* a slot is busy while its own announce runs and never longer, and it is past
\* Started only if a tracker answered its own.
StaleResultIgnored ==
    \A k \in Urls \X Hashes : slot[k] # NoSlot =>
        /\ slot[k].active <=> \E a \in announces : a.epoch = slot[k].epoch /\ a.hash = k[2]
                                                   /\ a.url = k[1]
        /\ slot[k].event = "none" => slot[k].epoch \in answered

\* Announces are counted and answered for what they were sent for.
AnnouncesAreCounted == InflightIsCounted /\ StaleResultIgnored

\* "Stop its trackers and DHT.  Left registered, they kept announcing for the
\* dead torrent": once no call is under way, only registered torrents have
\* slots, announcers and WebSocket clients, one announcer each.
DeadTorrentIsSilent ==
    (~closed /\ \A t \in Threads : thread[t] = Idle) =>
        /\ \A k \in Urls \X Hashes : slot[k] # NoSlot => torrents[k[2]] # 0
        /\ \A d \in dht : \E h \in Hashes : torrents[h] = d.entry
=============================================================================
