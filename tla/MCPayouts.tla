----------------------------- MODULE MCPayouts -----------------------------
(* Instances of Payouts for TLC. *)
EXTENDS Payouts, TLC

CONSTANTS r1, r2, u1, p1, p2

MCOwner == [r \in Requests |-> u1]
\* The second of two requests of Amount 1 is eligible only if 3 were earned:
\* 3 - 1 (held) - 1 (pending, subtracted again) leaves 1.
MCEarned == [u \in Users |-> 3]
\* Enough for one request, not for two.
MCEarnedOnce == [u \in Users |-> 1]
Workers == Permutations(Procs)
=============================================================================
