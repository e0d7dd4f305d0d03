------------------------------ MODULE Requests ------------------------------
(***************************************************************************)
(* The web and task workers that serve requests.  A handler that reads the *)
(* database and writes it in a later statement without having locked what  *)
(* it read is two steps of a worker: the first keeps in work[w] what the   *)
(* handler remembers, the second writes.  Between the two every other      *)
(* worker may run.  A handler that locks the rows it reads, or is a single *)
(* statement, is one step and needs no entry here.  A worker may die       *)
(* between its two steps: what it has not committed is lost.               *)
(***************************************************************************)
EXTENDS Integers, FiniteSets

CONSTANTS
    Users,      \* accounts
    Workers,    \* web and task workers
    None        \* the value of an empty column or variable

ASSUME RequestsAssumption == None \notin Users /\ IsFiniteSet(Workers) /\ Workers # {}

VARIABLE work   \* work[w]: what worker w remembers between its two steps

Idle == [op |-> "idle"]

RequestsInit == work = [w \in Workers |-> Idle]

Free(w) == work[w] = Idle
Doing(w, op) == work[w].op = op
Starts(w, job) == work' = [work EXCEPT ![w] = job]
Ends(w) == work' = [work EXCEPT ![w] = Idle]

(* A worker that dies, or whose transaction is rolled back. *)
Dies(w) == ~Free(w) /\ Ends(w)
=============================================================================
