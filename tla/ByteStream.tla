---------------------------- MODULE ByteStream ----------------------------
(***************************************************************************)
(* What a peer connection expects of its transport, whichever it is: in    *)
(* each direction the reader takes, in order and without a gap, a prefix   *)
(* of what the writer wrote.  A stream may end at any point, and nothing   *)
(* is read after its end.                                                  *)
(***************************************************************************)
EXTENDS Naturals, Sequences

CONSTANT Ends

VARIABLES
    sent,   \* sent[e]: how many chunks end e has written; chunk i is the number i
    got,    \* got[e]: the chunks end e has read from the other one
    eof     \* eof[e]: end e has been told that there is no more to read

vars == <<sent, got, eof>>

Init ==
    /\ sent = [e \in Ends |-> 0]
    /\ got = [e \in Ends |-> <<>>]
    /\ eof = [e \in Ends |-> FALSE]

Write(e) ==
    /\ sent' = [sent EXCEPT ![e] = @ + 1]
    /\ UNCHANGED <<got, eof>>

Read(e) ==
    /\ ~eof[e]
    /\ \E f \in Ends \ {e} :
          /\ Len(got[e]) < sent[f]
          /\ got' = [got EXCEPT ![e] = Append(@, Len(@) + 1)]
    /\ UNCHANGED <<sent, eof>>

End(e) ==
    /\ eof' = [eof EXCEPT ![e] = TRUE]
    /\ UNCHANGED <<sent, got>>

Next == \E e \in Ends : Write(e) \/ Read(e) \/ End(e)

Spec == Init /\ [][Next]_vars
===========================================================================
