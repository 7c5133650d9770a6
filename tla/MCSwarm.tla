------------------------------ MODULE MCSwarm ------------------------------
(* Small instances of Swarm: three addresses, two of them of the same peer. *)
EXTENDS Swarm

MCPeerOf == [a \in {"a", "b", "c"} |-> IF a = "c" THEN "q" ELSE "p"]

Around(events, n, start, limit0, limits0) ==
    [events |-> events, moves |-> n, known |-> start, limit |-> limit0, limits |-> limits0]

AllSessions ==
    {Around({"add", "leave", "route", "deliver"}, 3, {"a", "c"}, 2, {}),
     Around({"accept", "leave", "choke"}, 2, {"a", "c"}, 1, {}),
     Around({"limit", "burst"}, 3, {"a", "c"}, 1, {1, 2}),
     Around({"drop", "forget", "webrtc"}, 2, {"b"}, 2, {}),
     Around({"dropTorrent", "accept", "close"}, 3, {"a"}, 2, {})}

=============================================================================
