--------------------------- MODULE MCStreamCache ---------------------------
(* Small instances of StreamCache: a preview, a play with a corrupt block, a   *)
(* saved download, a resumed window, and a switch from the cache to a file.   *)
EXTENDS StreamCache

Base == [preview |-> FALSE, plans |-> {{1}}, onDisk |-> {}, window |-> {},
         wants |-> {}, maxSent |-> 4, maxBad |-> 0]

Previewed == [Base EXCEPT !.preview = TRUE]
Played == [Base EXCEPT !.plans = {{}}, !.wants = {<<1, 2>>}, !.maxSent = 3, !.maxBad = 1]
Saved == [Base EXCEPT !.wants = {<<1, 1>>}, !.maxSent = 3]
Resumed == [Base EXCEPT !.plans = {{}}, !.wants = {<<2, 1>>}, !.window = {2}, !.maxSent = 2]
Switched == [Base EXCEPT !.plans = {{}, {1}}, !.onDisk = {1}]

AllSessions == {Previewed, Played, Saved, Resumed, Switched}

(* The switch between a cache and a file, alone. *)
SwitchedOnly == {Switched}
===========================================================================
