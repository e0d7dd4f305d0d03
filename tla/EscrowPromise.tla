--------------------------- MODULE EscrowPromise ---------------------------
(***************************************************************************)
(* What the platform promises about the money of every sale.  It holds     *)
(* only what the customer has paid, hands it out once and as a whole, and  *)
(* takes back at most once, from the parties at fault, just what they were *)
(* given.  No sale goes back: what was handed out is never held again, and *)
(* a sale that was returned is done with.                                  *)
(***************************************************************************)
EXTENDS Integers

CONSTANTS
  Items,     \* the sales
  Earners,   \* who shares in a sale
  Owner,     \* the earner who always does
  Blames,    \* the sets of earners a refund may be taken from
  Start      \* where each sale stands at first

VARIABLES
  stage,     \* where the money of each sale is
  earned,    \* earned[s][x]: times earner x was given his share of sale s
  lost       \* lost[s][x]: times it was taken back from him

Nothing == [x \in Earners |-> 0]

Init ==
  /\ stage = Start
  /\ earned = [s \in Items |-> Nothing]
  /\ lost = [s \in Items |-> Nothing]

Moves(s, from, to) == stage[s] = from /\ stage' = [stage EXCEPT ![s] = to]

Pay(s) == Moves(s, "due", "paid") /\ UNCHANGED <<earned, lost>>
Hold(s) == Moves(s, "paid", "held") /\ UNCHANGED <<earned, lost>>

HandOut(s, payees) ==
  /\ Moves(s, "held", "handed_out")
  /\ Owner \in payees
  /\ earned' = [earned EXCEPT ![s] = [x \in Earners |-> IF x \in payees THEN 1 ELSE 0]]
  /\ UNCHANGED lost

GiveBack(s) == Moves(s, "held", "returned") /\ UNCHANGED <<earned, lost>>

TakeBack(s, blamed) ==
  /\ Moves(s, "handed_out", "returned")
  /\ lost' = [lost EXCEPT ![s] = [x \in Earners |-> IF x \in blamed THEN earned[s][x] ELSE 0]]
  /\ UNCHANGED earned

Next ==
  \E s \in Items :
    \/ Pay(s) \/ Hold(s) \/ GiveBack(s)
    \/ \E payees \in SUBSET Earners : HandOut(s, payees)
    \/ \E blamed \in Blames : TakeBack(s, blamed)

Spec == Init /\ [][Next]_<<stage, earned, lost>>
=============================================================================
