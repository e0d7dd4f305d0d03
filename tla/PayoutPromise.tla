--------------------------- MODULE PayoutPromise ---------------------------
(***************************************************************************)
(* What the withdrawal pipeline promises a user's ledger: asking takes     *)
(* Amount out of the balance once, and a transfer that comes back puts it  *)
(* in again once.  Nothing else touches the balance, and it never goes     *)
(* below zero.                                                             *)
(***************************************************************************)
EXTENDS Integers

CONSTANTS Requests, Users, Owner, Earned, Amount

VARIABLES balance, held, returned

Init == balance = Earned /\ held = {} /\ returned = {}

Hold(r) ==
  /\ r \notin held
  /\ balance[Owner[r]] >= Amount
  /\ held' = held \union {r}
  /\ balance' = [balance EXCEPT ![Owner[r]] = @ - Amount]
  /\ UNCHANGED returned

Return(r) ==
  /\ r \in held \ returned
  /\ returned' = returned \union {r}
  /\ balance' = [balance EXCEPT ![Owner[r]] = @ + Amount]
  /\ UNCHANGED held

Next == \E r \in Requests : Hold(r) \/ Return(r)

Spec == Init /\ [][Next]_<<balance, held, returned>>
=============================================================================
