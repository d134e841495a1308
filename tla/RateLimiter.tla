----------------------------- MODULE RateLimiter -----------------------------
(***************************************************************************)
(* The token bucket in front of the HTTP services, for one client address. *)
(* Time is counted in steps in which the bucket gains Rate tokens.  A      *)
(* bucket that was not asked for a while is thrown away, and the next      *)
(* request of the address starts with a full one.                          *)
(***************************************************************************)
EXTENDS Integers, Sequences

CONSTANTS Rate, Burst,
          Forget,    \* how long a bucket must have been idle to be thrown away
          MaxClock   \* bound on time

(* A bucket that is thrown away would be full: the services pass bursts of *)
(* twice the rate per second and forget after three minutes.               *)
ASSUME LimiterAssumption ==
    /\ Rate \in Nat /\ Burst \in Nat \ {0} /\ Forget \in Nat /\ MaxClock \in Nat
    /\ Burst <= Rate * Forget

VARIABLES
    clock,
    known,      \* the map has a bucket for the address
    tokens,     \* of the bucket
    lastSeen,   \* time of the last request, admitted or not
    admitted    \* history: the times of the requests let through

limiterVars == <<clock, known, tokens, lastSeen, admitted>>

LimiterInit ==
    /\ clock = 0
    /\ known = FALSE
    /\ tokens = 0
    /\ lastSeen = 0
    /\ admitted = << >>

Tick ==
    /\ clock < MaxClock
    /\ clock' = clock + 1
    /\ UNCHANGED <<known, tokens, lastSeen, admitted>>

(* Mutant: idle time counts from the first request. *)
RefilledFromStart ==
    IF tokens + Rate * clock > Burst THEN Burst ELSE tokens + Rate * clock

Refilled ==
    IF tokens + Rate * (clock - lastSeen) > Burst THEN Burst
    ELSE tokens + Rate * (clock - lastSeen)

AllowNew ==
    /\ ~known
    /\ known' = TRUE
    /\ tokens' = Burst - 1
    /\ admitted' = Append(admitted, clock)
    /\ lastSeen' = clock
    /\ UNCHANGED clock

(* A request that is refused has been refilled too and counts as seen. *)
AllowKnown ==
    /\ known
    /\ tokens' = IF Refilled < 1 THEN Refilled ELSE Refilled - 1
    /\ admitted' = IF Refilled < 1 THEN admitted ELSE Append(admitted, clock)
    /\ lastSeen' = clock
    /\ UNCHANGED <<clock, known>>

Cleanup ==
    /\ known /\ clock - lastSeen > Forget
    /\ known' = FALSE
    /\ UNCHANGED <<clock, tokens, lastSeen, admitted>>

LimiterNext == Tick \/ AllowNew \/ AllowKnown \/ Cleanup

LimiterSpec == LimiterInit /\ [][LimiterNext]_limiterVars

-----------------------------------------------------------------------------
(* Properties *)

(* Type correctness; a bucket never holds more than Burst tokens. *)
LimiterTypeOK ==
    /\ clock \in 0..MaxClock
    /\ known \in BOOLEAN
    /\ tokens \in 0..Burst
    /\ lastSeen \in 0..clock
    /\ admitted \in Seq(0..clock)

(* In no interval, wherever it starts, are more requests let through than  *)
(* a full bucket and what the interval adds to it, although buckets are    *)
(* thrown away and filled anew.                                            *)
RateIsKept ==
    \A i, j \in DOMAIN admitted :
        i <= j => j - i + 1 <= Burst + Rate * (admitted[j] - admitted[i])
=============================================================================
