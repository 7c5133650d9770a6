------------------------------ MODULE RateLimit ------------------------------
(***************************************************************************)
(* The token bucket that the connections of a client share.                *)
(*                                                                         *)
(* A connection reserves tokens in parts no larger than the burst and      *)
(* sleeps for the delay it is given (wait_for_tokens).  A tick is the time *)
(* in which one token arrives.                                             *)
(***************************************************************************)
EXTENDS Integers

CONSTANTS Callers,  \* the connections
          Burst,    \* the bucket
          MaxTime   \* ticks

VARIABLES
    now,      \* the clock
    tokens,   \* tokens in the bucket
    last,     \* when it was last filled; after a reservation, in the future
    until,    \* when each caller's sleep ends
    waits,    \* what each caller sleeps for, or 0
    granted   \* tokens that callers have been let through with

vars == <<now, tokens, last, until, waits, granted>>

Smaller(a, b) == IF a < b THEN a ELSE b

Init ==
    /\ now = 0 /\ tokens = Burst /\ last = 0 /\ granted = 0
    /\ until = [c \in Callers |-> 0]
    /\ waits = [c \in Callers |-> 0]

\* Inner::advance
Filled == IF now > last THEN Smaller(tokens + (now - last), Burst) ELSE tokens
FilledAt == IF now > last THEN now ELSE last

\* reserve_delay, of a part no larger than the burst: it is let through at
\* once, or is given a delay and takes what the bucket has.
ReserveDelay(c, n) ==
    /\ waits[c] = 0
    /\ IF Filled >= n
       THEN /\ tokens' = Filled - n /\ last' = FilledAt
            /\ granted' = granted + n
            /\ UNCHANGED <<until, waits>>
       ELSE /\ tokens' = 0 /\ last' = now + (n - Filled)
            /\ until' = [until EXCEPT ![c] = now + (n - Filled)]
            /\ waits' = [waits EXCEPT ![c] = n]
            /\ UNCHANGED granted
    /\ UNCHANGED now

\* The sleep ends; the reservation already took the tokens.
Slept(c) ==
    /\ waits[c] > 0 /\ now >= until[c]
    /\ granted' = granted + waits[c]
    /\ waits' = [waits EXCEPT ![c] = 0]
    /\ UNCHANGED <<now, tokens, last, until>>

Tick ==
    /\ now < MaxTime
    /\ now' = now + 1
    /\ UNCHANGED <<tokens, last, until, waits, granted>>

Next ==
    \/ \E c \in Callers : Slept(c) \/ \E n \in 1..Burst : ReserveDelay(c, n)
    \/ Tick

Spec == Init /\ [][Next]_vars

\* The rate holds whoever asks: in any time no more is let through than the
\* burst and what arrived since (reserve_delay: "so subsequent calls account
\* for the reservation time").
RateIsKept == granted <= Burst + now
=============================================================================
