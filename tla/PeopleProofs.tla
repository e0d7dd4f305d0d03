---------------------------- MODULE PeopleProofs ----------------------------
(***************************************************************************)
(* Theorems about those who work for the platform and with it and about    *)
(* what reaches them, for any number of workers, rows, connections and     *)
(* messages.  Staff: a code is accepted once, and the history of a branch  *)
(* tells its agent; codes and agents step together, as a code for a link   *)
(* leads to it.  DriverOnboarding: a driver's phases have their records.   *)
(* Onboarding: a business is onboarded once.  Realtime: no connection      *)
(* misses a change and a driver that orders are matched with is connected; *)
(* orders, chats and presence step together.  Support: tickets are in      *)
(* hand.  Notices: messages are listed as they were meant.                 *)
(***************************************************************************)
EXTENDS Staff, DriverOnboarding, Onboarding, Realtime, Support, Notices,
        FiniteSetTheorems, SequenceTheorems, TLAPS

StaffNext == CodesNext(Grants) \/ AgentsNext(Users \X Devices)
StaffSpec == RequestsInit /\ StaffInit /\ [][StaffNext]_<<work, StaffVars>>

HistoryEntry == [user : Users, device : Devices, action : AgentAction]

\* What a worker remembers.
StaffRemembers ==
  \A w \in Workers :
    /\ Doing(w, "send") => work[w].grant \in Grants /\ work[w].before \in 0 .. MaxSends - 1
    /\ Doing(w, "verify") =>
         work[w].digits \in Digits /\ work[w].grant \in Grants /\ work[w].claim \in Users
    /\ Doing(w, "linked") => work[w].shop \in Shops
    /\ Linking(w) =>
         /\ work[w].shop \in shops /\ work[w].user \in Users /\ work[w].device \in Devices
         /\ work[w].target \in Rows \cup {None}

StaffWork == work = [w \in Workers |-> work[w]] /\ StaffRemembers

CodesTypes ==
  /\ code \in [Digits -> Grants \cup {None}] /\ minted \in [Digits -> Grants \cup {None}]
  /\ lock \subseteq Digits /\ lapsed \subseteq Digits
  /\ sends \in [Requesters -> 0 .. MaxSends]
  /\ uses \in [Digits -> Nat] /\ accepted \in [Digits -> SUBSET Grants]

AgentsTypes ==
  /\ shops \subseteq Shops /\ vacated \subseteq shops
  /\ agent \in [Rows -> AgentRow \cup {None}]
  /\ latest \in [Shops -> HistoryEntry \cup {None}]

(* Why a code is used once: while its lock and its entry last, one worker  *)
(* at most verifies it, under the lock, with the entry still there; and an *)
(* entry that is there has not been used since it was minted.              *)
Verifies(w, d) == Doing(w, "verify") /\ work[w].digits = d

OneVerifies ==
  \A d \in Digits \ lapsed : \A w \in Workers : Verifies(w, d) =>
    /\ d \in lock /\ code[d] # None /\ work[w].grant = code[d]
    /\ \A v \in Workers : Verifies(v, d) => v = w

FreshCode ==
  \A d \in Digits \ lapsed :
    /\ code[d] # None => uses[d] = 0 /\ accepted[d] = {} /\ code[d] = minted[d]
    /\ uses[d] <= 1 /\ accepted[d] \subseteq {minted[d]}

(* Why the history tells the agent: the constraints of the table hold, and *)
(* only branches that exist have a row or a history.                       *)
RowsOfShops ==
  /\ Consistent(agent)
  /\ \A r \in Rows : agent[r] # None => agent[r].shop \in shops
  /\ \A b \in Shops : latest[b] # None => b \in shops

CodesInv == CodesTypes /\ OneVerifies /\ FreshCode
AgentsInv == AgentsTypes /\ RowsOfShops /\ HistoryTellsAgent
StaffInv == StaffWork /\ CodesInv /\ AgentsInv

-----------------------------------------------------------------------------
\* The work of one worker changes.
LEMMA WorkerStep ==
  ASSUME work = [v \in Workers |-> work[v]], NEW w \in Workers, NEW job,
         work' = [work EXCEPT ![w] = job]
  PROVE  /\ work' = [v \in Workers |-> work'[v]]
         /\ work'[w] = job /\ \A v \in Workers : v # w => work'[v] = work[v]
  OBVIOUS

LEMMA StaffWorkStep ==
  ASSUME StaffWork, NEW w \in Workers, NEW job, work' = [work EXCEPT ![w] = job],
         \A v \in Workers : v # w /\ Linking(v) => work[v].shop \in shops',
         job.op = "send" => job.grant \in Grants /\ job.before \in 0 .. MaxSends - 1,
         job.op = "verify" => job.digits \in Digits /\ job.grant \in Grants /\ job.claim \in Users,
         job.op = "linked" => job.shop \in Shops,
         job.op = "linking" => /\ job.shop \in shops' /\ job.user \in Users /\ job.device \in Devices
                               /\ job.target \in Rows \cup {None}
  PROVE  StaffWork'
<1>1. /\ work' = [v \in Workers |-> work'[v]]
      /\ work'[w] = job /\ \A v \in Workers : v # w => work'[v] = work[v]
  BY WorkerStep DEF StaffWork
<1> QED BY <1>1 DEF StaffWork, StaffRemembers, Doing, Linking

\* A worker that stops, or that goes on with something else than a code.
LEMMA CodesKept ==
  ASSUME CodesInv, StaffWork, UNCHANGED CodesVars, NEW w \in Workers, NEW job,
         work' = [work EXCEPT ![w] = job], job.op # "verify"
  PROVE  CodesInv'
<1>1. work'[w] = job /\ \A v \in Workers : v # w => work'[v] = work[v]
  BY WorkerStep DEF StaffWork
<1>2. \A v \in Workers, d \in Digits : Verifies(v, d)' => Verifies(v, d) /\ work'[v] = work[v]
  BY <1>1 DEF Verifies, Doing
<1> QED BY <1>2 DEF CodesInv, CodesTypes, OneVerifies, FreshCode, CodesVars

LEMMA AgentsKept == AgentsInv /\ UNCHANGED AgentsVars => AgentsInv'
  BY DEF AgentsInv, AgentsVars, AgentsTypes, RowsOfShops, HistoryTellsAgent, RowsAt

\* No worker verifies a code that lapses unnoticed.
LEMMA SameWorkCodes ==
  ASSUME CodesInv, UNCHANGED <<work, minted, uses, accepted>>, CodesTypes',
         lapsed \subseteq lapsed',
         \A d \in Digits \ lapsed' :
           \/ code'[d] = code[d] /\ (d \in lock => d \in lock')
           \/ code'[d] = None /\ ~Verifying(d)
           \/ code'[d] = code[d] /\ ~Verifying(d)
  PROVE  CodesInv'
<1>1. \A d \in Digits \ lapsed', w \in Workers : Verifies(w, d)' => Verifies(w, d) /\ Verifying(d)
  BY DEF Verifies, Verifying, Doing
<1>2. OneVerifies'
  BY <1>1 DEF CodesInv, OneVerifies, Verifies, Doing
<1>3. FreshCode'
  BY DEF CodesInv, FreshCode
<1> QED BY <1>2, <1>3 DEF CodesInv

-----------------------------------------------------------------------------
(* The codes. *)
LEMMA SendReadsKeeps ==
  ASSUME StaffInv, NEW w \in Workers, NEW g \in Grants, SendReads(w, g)
  PROVE  StaffInv'
<1> DEFINE job == [op |-> "send", grant |-> g, before |-> sends[g.of]]
<1>1. work' = [work EXCEPT ![w] = job] /\ UNCHANGED <<CodesVars, AgentsVars>>
  BY DEF SendReads, Starts, StaffVars
<1>2. sends[g.of] \in 0 .. MaxSends - 1
  <2>1. g.of \in Requesters
    BY DEF Grants, Requesters
  <2> QED BY <2>1, StaffAssumption DEF SendReads, StaffInv, CodesInv, CodesTypes
<1>3. shops' = shops
  BY <1>1 DEF AgentsVars
<1>4. StaffWork'
  BY <1>1, <1>2, <1>3, StaffWorkStep DEF StaffInv, StaffWork, StaffRemembers
<1>5. job.op # "verify"
  OBVIOUS
<1> HIDE DEF job
<1>6. CodesInv' /\ AgentsInv'
  BY <1>1, <1>5, CodesKept, AgentsKept DEF StaffInv
<1> QED BY <1>4, <1>6 DEF StaffInv

LEMMA SendMintsKeeps ==
  ASSUME StaffInv, NEW w \in Workers, NEW d \in Digits, SendMints(w, d)
  PROVE  StaffInv'
<1> DEFINE g == work[w].grant
<1>1. g \in Grants /\ work[w].before \in 0 .. MaxSends - 1 /\ g.of \in Requesters
  BY DEF SendMints, StaffInv, StaffWork, StaffRemembers, Grants, Requesters
<1>2. /\ code[d] = None
      /\ sends' = [sends EXCEPT ![g.of] = work[w].before + 1]
      /\ code' = [code EXCEPT ![d] = g] /\ minted' = [minted EXCEPT ![d] = g]
      /\ uses' = [uses EXCEPT ![d] = 0] /\ accepted' = [accepted EXCEPT ![d] = {}]
      /\ lapsed' = IF Verifying(d) THEN lapsed ELSE lapsed \ {d}
      /\ work' = [work EXCEPT ![w] = Idle] /\ UNCHANGED lock /\ UNCHANGED AgentsVars
  BY DEF SendMints, Ends
<1>3. CodesTypes'
  BY <1>1, <1>2, StaffAssumption DEF StaffInv, CodesInv, CodesTypes
<1>4. \A v \in Workers, e \in Digits : Verifies(v, e)' => Verifies(v, e) /\ work'[v] = work[v]
  BY <1>2, WorkerStep DEF Verifies, Doing, Idle, StaffInv, StaffWork
<1>5. ASSUME NEW e \in Digits \ lapsed', e = d
      PROVE  \A v \in Workers : ~Verifies(v, d)
  <2>1. CASE Verifying(d)
    BY <1>2, <1>5, <2>1 DEF StaffInv, CodesInv, OneVerifies
  <2>2. CASE ~Verifying(d)
    BY <2>2 DEF Verifying, Verifies
  <2> QED BY <2>1, <2>2
<1>6. \A e \in Digits \ lapsed' : e # d =>
        e \notin lapsed /\ code'[e] = code[e] /\ minted'[e] = minted[e]
        /\ uses'[e] = uses[e] /\ accepted'[e] = accepted[e]
  BY <1>2
<1>7. code'[d] = g /\ minted'[d] = g /\ uses'[d] = 0 /\ accepted'[d] = {}
  BY <1>2 DEF StaffInv, CodesInv, CodesTypes
<1>8. OneVerifies'
  BY <1>2, <1>4, <1>5, <1>6 DEF StaffInv, CodesInv, OneVerifies
<1>9. FreshCode'
  BY <1>6, <1>7 DEF StaffInv, CodesInv, FreshCode
<1>10. StaffWork'
  BY <1>2, StaffWorkStep DEF StaffInv, Idle, AgentsVars, StaffWork, StaffRemembers
<1> QED BY <1>2, <1>3, <1>8, <1>9, <1>10, AgentsKept DEF StaffInv, CodesInv

LEMMA VerifyTakesKeeps ==
  ASSUME StaffInv, NEW w \in Workers, NEW d \in Digits, NEW u \in Users, VerifyTakes(w, d, u)
  PROVE  StaffInv'
<1> DEFINE job == [op |-> "verify", digits |-> d, grant |-> code[d], claim |-> u]
<1>1. /\ d \notin lock /\ lock' = lock \cup {d}
      /\ UNCHANGED <<code, sends, minted, uses, accepted, lapsed>> /\ UNCHANGED AgentsVars
  BY DEF VerifyTakes, Unlocked
<1>2. CodesTypes' /\ FreshCode'
  BY <1>1 DEF StaffInv, CodesInv, CodesTypes, FreshCode
<1>3. CASE code[d] = None
  <2>1. UNCHANGED work
    BY <1>3 DEF VerifyTakes
  <2>2. OneVerifies'
    BY <1>1, <2>1 DEF StaffInv, CodesInv, OneVerifies, Verifies, Doing
  <2>3. StaffWork'
    BY <1>1, <2>1 DEF StaffInv, StaffWork, StaffRemembers, Doing, Linking, AgentsVars
  <2> QED BY <1>1, <1>2, <2>2, <2>3, AgentsKept DEF StaffInv, CodesInv
<1>4. CASE code[d] # None
  <2>1. work' = [work EXCEPT ![w] = job]
    BY <1>4 DEF VerifyTakes, Starts
  <2>2. code[d] \in Grants
    BY <1>4 DEF StaffInv, CodesInv, CodesTypes
  <2>3. StaffWork'
    BY <1>1, <2>1, <2>2, StaffWorkStep DEF StaffInv, StaffWork, StaffRemembers, AgentsVars
  <2>4. work'[w] = job /\ \A v \in Workers : v # w => work'[v] = work[v]
    BY <2>1, WorkerStep DEF StaffInv, StaffWork
  <2>5. ASSUME NEW e \in Digits \ lapsed, NEW v \in Workers, Verifies(v, e)'
        PROVE  /\ e \in lock' /\ code'[e] # None /\ work'[v].grant = code'[e]
               /\ \A x \in Workers : Verifies(x, e)' => x = v
    <3>1. \A x \in Workers : ~Verifies(x, d) \/ d \in lapsed
      BY <1>1 DEF StaffInv, CodesInv, OneVerifies
    <3>2. CASE e = d
      BY <1>1, <1>4, <2>4, <2>5, <3>1, <3>2 DEF Verifies, Doing
    <3>3. CASE e # d
      BY <1>1, <2>4, <2>5, <3>3 DEF StaffInv, CodesInv, OneVerifies, Verifies, Doing
    <3> QED BY <3>2, <3>3
  <2>6. OneVerifies'
    BY <1>1, <2>5 DEF OneVerifies
  <2> QED BY <1>1, <1>2, <2>3, <2>6, AgentsKept DEF StaffInv, CodesInv
<1> QED BY <1>3, <1>4

\* What is accepted for a code is what it was minted for.
LEMMA HonouredIsTheirs ==
  ASSUME NEW g \in Grants, NEW u \in Users, Honoured(g, u)
  PROVE  [g EXCEPT !.of = IF g.purpose = "email" THEN u ELSE @] = g
  BY DEF Grants, Honoured

LEMMA GrantedIsGrant ==
  ASSUME NEW g \in Grants, NEW u \in Users
  PROVE  [g EXCEPT !.of = IF g.purpose = "email" THEN u ELSE @] \in Grants
<1>1. CASE g \in [purpose : {"link"}, of : Shops]
  BY <1>1 DEF Grants
<1>2. CASE g \in [purpose : {"email", "role", "update"}, of : Users]
  BY <1>2 DEF Grants
<1> QED BY <1>1, <1>2 DEF Grants

LEMMA VerifyDeletesKeeps ==
  ASSUME StaffInv, NEW w \in Workers, VerifyDeletes(w)
  PROVE  StaffInv'
<1> DEFINE j == work[w]
           d == j.digits
           g == j.grant
           granted == [g EXCEPT !.of = IF g.purpose = "email" THEN j.claim ELSE @]
<1>1. Verifies(w, d) /\ d \in Digits /\ g \in Grants /\ j.claim \in Users
  BY DEF VerifyDeletes, StaffInv, StaffWork, StaffRemembers, Verifies
<1>2. /\ code' = [code EXCEPT ![d] = None] /\ uses' = [uses EXCEPT ![d] = uses[d] + 1]
      /\ UNCHANGED <<lock, sends, minted, lapsed>> /\ UNCHANGED AgentsVars
      /\ accepted' = IF Honoured(g, j.claim) THEN [accepted EXCEPT ![d] = accepted[d] \cup {granted}]
                     ELSE accepted
  BY DEF VerifyDeletes
<1>3. PICK job : /\ work' = [work EXCEPT ![w] = job]
                 /\ job = Idle \/ (job = [op |-> "linked", shop |-> g.of] /\ g.purpose = "link")
  <2>1. CASE g.purpose = "link"
    BY <2>1 DEF VerifyDeletes, Starts
  <2>2. CASE g.purpose # "link"
    BY <2>2 DEF VerifyDeletes, Ends
  <2> QED BY <2>1, <2>2
<1>4. granted \in Grants /\ (Honoured(g, j.claim) => granted = g)
  BY <1>1, HonouredIsTheirs, GrantedIsGrant
<1>5. StaffWork'
  <2>1. job.op # "send" /\ job.op # "verify" /\ job.op # "linking"
    BY <1>3 DEF Idle
  <2>2. job.op = "linked" => job.shop \in Shops
    BY <1>1, <1>3 DEF Idle, Grants
  <2>3. \A v \in Workers : Linking(v) => work[v].shop \in shops'
    BY <1>2 DEF StaffInv, StaffWork, StaffRemembers, AgentsVars
  <2> HIDE DEF j, d, g
  <2> QED BY <1>3, <2>1, <2>2, <2>3, StaffWorkStep DEF StaffInv
<1> HIDE DEF granted
<1>6. /\ uses'[d] = uses[d] + 1 /\ code'[d] = None
      /\ accepted'[d] = IF Honoured(g, j.claim) THEN accepted[d] \cup {granted} ELSE accepted[d]
      /\ \A e \in Digits : e # d => uses'[e] = uses[e] /\ accepted'[e] = accepted[e] /\ code'[e] = code[e]
  BY <1>1, <1>2 DEF StaffInv, CodesInv, CodesTypes
<1>7. CodesTypes'
  BY <1>1, <1>2, <1>4 DEF StaffInv, CodesInv, CodesTypes
<1>8. \A v \in Workers, e \in Digits : Verifies(v, e)' => v # w /\ Verifies(v, e) /\ work'[v] = work[v]
  BY <1>3, WorkerStep DEF Verifies, Doing, Idle, StaffInv, StaffWork
<1>9. OneVerifies'
  BY <1>1, <1>2, <1>6, <1>8 DEF StaffInv, CodesInv, OneVerifies
<1>10. d \in lapsed \/ (uses[d] = 0 /\ accepted[d] = {} /\ minted[d] = g)
  BY <1>1 DEF StaffInv, CodesInv, OneVerifies, FreshCode
<1>11. FreshCode'
  BY <1>2, <1>4, <1>6, <1>10 DEF StaffInv, CodesInv, FreshCode
<1> QED BY <1>2, <1>5, <1>7, <1>9, <1>11, AgentsKept DEF StaffInv, CodesInv

LEMMA SameWork ==
  ASSUME StaffWork, UNCHANGED <<work, shops>>
  PROVE  StaffWork'
  BY DEF StaffWork, StaffRemembers, Doing, Linking

LEMMA LapsesKeep ==
  ASSUME StaffInv, NEW d \in Digits, LockLapses(d) \/ CodeExpires(d)
  PROVE  StaffInv'
<1>1. /\ UNCHANGED <<work, minted, uses, accepted, sends>> /\ UNCHANGED AgentsVars
      /\ lapsed' = IF Verifying(d) THEN lapsed \cup {d} ELSE lapsed
      /\ \/ lock' = lock \ {d} /\ UNCHANGED code
         \/ code' = [code EXCEPT ![d] = None] /\ UNCHANGED lock
  BY DEF LockLapses, CodeExpires
<1>2. CodesTypes'
  BY <1>1 DEF StaffInv, CodesInv, CodesTypes
<1>3. lapsed \subseteq lapsed' /\ (d \notin lapsed' => ~Verifying(d))
  BY <1>1
<1>4. ASSUME NEW e \in Digits \ lapsed'
      PROVE  \/ code'[e] = code[e] /\ (e \in lock => e \in lock')
             \/ code'[e] = None /\ ~Verifying(e)
             \/ code'[e] = code[e] /\ ~Verifying(e)
  BY <1>1, <1>3 DEF StaffInv, CodesInv, CodesTypes
<1>5. CodesInv'
  BY <1>1, <1>2, <1>3, <1>4, SameWorkCodes DEF StaffInv
<1> QED BY <1>1, <1>5, SameWork, AgentsKept DEF StaffInv, AgentsVars

LEMMA RateWindowEndsKeeps ==
  ASSUME StaffInv, NEW q \in Requesters, RateWindowEnds(q)
  PROVE  StaffInv'
<1>1. /\ sends' = [sends EXCEPT ![q] = 0] /\ UNCHANGED AgentsVars
      /\ UNCHANGED <<work, code, lock, minted, uses, accepted, lapsed>>
  BY DEF RateWindowEnds
<1>2. CodesTypes'
  BY <1>1, StaffAssumption DEF StaffInv, CodesInv, CodesTypes
<1>3. CodesInv'
  BY <1>1, <1>2, SameWorkCodes DEF StaffInv
<1> QED BY <1>1, <1>3, SameWork, AgentsKept DEF StaffInv, AgentsVars

LEMMA StaffDiesKeeps ==
  ASSUME StaffInv, NEW w \in Workers, Dies(w), UNCHANGED StaffVars
  PROVE  StaffInv'
<1>1. work' = [work EXCEPT ![w] = Idle] /\ UNCHANGED <<CodesVars, AgentsVars>> /\ UNCHANGED shops
  BY DEF Dies, Ends, StaffVars, AgentsVars
<1>2. StaffWork'
  BY <1>1, StaffWorkStep DEF Idle, StaffInv, StaffWork, StaffRemembers
<1>3. CodesInv'
  <2>1. Idle.op # "verify"
    BY DEF Idle
  <2> QED BY <1>1, <2>1, CodesKept DEF StaffInv
<1> QED BY <1>1, <1>2, <1>3, AgentsKept DEF StaffInv

-----------------------------------------------------------------------------
(* The agents. *)
LEMMA LinkAcceptedKeeps ==
  ASSUME StaffInv, NEW w \in Workers, NEW b \in Shops, LinkAccepted(w, b)
  PROVE  StaffInv'
<1> DEFINE job == [op |-> "linked", shop |-> b]
<1>1. work' = [work EXCEPT ![w] = job] /\ UNCHANGED <<CodesVars, AgentsVars>> /\ UNCHANGED shops
  BY DEF LinkAccepted, Starts, StaffVars, AgentsVars
<1>2. StaffWork'
  BY <1>1, StaffWorkStep DEF StaffInv, StaffWork, StaffRemembers
<1>3. CodesInv'
  <2>1. job.op # "verify"
    OBVIOUS
  <2> HIDE DEF job
  <2> QED BY <1>1, <2>1, CodesKept DEF StaffInv
<1> QED BY <1>1, <1>2, <1>3, AgentsKept DEF StaffInv

LEMMA LinkReadsKeeps ==
  ASSUME StaffInv, NEW w \in Workers, NEW u \in Users, NEW device \in Devices,
         LinkReads(w, u, device)
  PROVE  StaffInv'
<1> DEFINE b == work[w].shop
           target == IF RowsFor(u) = {} THEN None ELSE CHOOSE r \in RowsFor(u) : TRUE
           job == [op |-> "linking", shop |-> b, user |-> u, device |-> device, target |-> target]
<1>1. /\ UNCHANGED <<CodesVars, AgentsVars>> /\ UNCHANGED shops
      /\ work' = [work EXCEPT ![w] = Idle] \/ (b \in shops /\ work' = [work EXCEPT ![w] = job])
  BY DEF LinkReads, Starts, Ends, StaffVars, AgentsVars
<1>2. target \in Rows \cup {None}
  BY DEF RowsFor
<1> HIDE DEF target
<1>3. StaffWork' /\ CodesInv'
  <2>1. CASE work' = [work EXCEPT ![w] = Idle]
    <3>1. StaffWork'
      BY <1>1, <2>1, StaffWorkStep DEF Idle, StaffInv, StaffWork, StaffRemembers
    <3>2. Idle.op # "verify"
      BY DEF Idle
    <3> QED BY <1>1, <2>1, <3>1, <3>2, CodesKept DEF StaffInv
  <2>2. CASE b \in shops /\ work' = [work EXCEPT ![w] = job]
    <3>1. StaffWork'
      BY <1>1, <1>2, <2>2, StaffWorkStep DEF StaffInv, StaffWork, StaffRemembers
    <3>2. CodesInv'
      <4>1. job.op # "verify"
        OBVIOUS
      <4> HIDE DEF job
      <4> QED BY <1>1, <2>2, <4>1, CodesKept DEF StaffInv
    <3> QED BY <3>1, <3>2
  <2> QED BY <1>1, <2>1, <2>2
<1> QED BY <1>1, <1>3, AgentsKept DEF StaffInv

\* Rows are dropped, of branches that go or whose vacancy is noted.
LEMMA RowsDropped ==
  ASSUME AgentsInv, NEW gone \in SUBSET Rows,
         agent' = [r \in Rows |-> IF r \in gone THEN None ELSE agent[r]],
         shops' \subseteq shops, vacated' \subseteq shops',
         latest' \in [Shops -> HistoryEntry \cup {None}],
         \A b \in Shops : \/ latest'[b] = latest[b] /\ (b \in shops => b \in shops')
                          \/ latest'[b] = None /\ RowsAt(b) \subseteq gone,
         \A b \in Shops : b \in vacated /\ latest'[b] # None => b \in vacated',
         \A r \in gone : agent[r] # None /\ latest'[agent[r].shop] # None => agent[r].shop \in vacated'
  PROVE  AgentsInv'
<1>1. \A r \in Rows : agent'[r] # None => agent'[r] = agent[r] /\ r \notin gone /\ agent[r].shop \in Shops
  BY DEF AgentsInv, AgentsTypes, AgentRow
<1>2. AgentsTypes'
  BY DEF AgentsInv, AgentsTypes
<1>3. ASSUME NEW r \in Rows, agent'[r] # None
      PROVE  latest'[agent[r].shop] = latest[agent[r].shop] /\ agent[r].shop \in shops'
  <2>1. r \in RowsAt(agent[r].shop) /\ agent[r].shop \in shops
    BY <1>1, <1>3 DEF RowsAt, AgentsInv, RowsOfShops
  <2> QED BY <1>1, <1>3, <2>1
<1>4. RowsOfShops'
  <2>1. Consistent(agent')
    BY <1>1 DEF AgentsInv, RowsOfShops, Consistent
  <2>2. \A b \in Shops : latest'[b] # None => b \in shops'
    BY DEF AgentsInv, RowsOfShops
  <2> QED BY <1>1, <1>3, <2>1, <2>2 DEF RowsOfShops, Consistent
<1>5. HistoryTellsAgent'
  <2>1. ASSUME NEW b \in Shops, latest'[b] # None, RowsAt(b)' = {}
        PROVE  latest'[b].action = "revoked" \/ b \in vacated'
    <3>1. latest'[b] = latest[b]
      BY <2>1
    <3>2. CASE RowsAt(b) = {}
      BY <2>1, <3>1, <3>2 DEF AgentsInv, HistoryTellsAgent
    <3>3. CASE RowsAt(b) # {}
      <4>1. PICK r \in Rows : agent[r] # None /\ agent[r].shop = b
        BY <3>3 DEF RowsAt
      <4>2. r \in gone
        BY <2>1, <4>1 DEF RowsAt
      <4> QED BY <2>1, <4>1, <4>2
    <3> QED BY <3>2, <3>3
  <2>2. ASSUME NEW r \in Rows, agent'[r] # None
        PROVE  LET h == latest'[agent'[r].shop] IN
               /\ h # None
               /\ <<h.user, h.device>> = <<agent'[r].user, agent'[r].device>>
               /\ agent'[r].revoked <=> h.action = "revoked"
    BY <1>1, <1>3, <2>2 DEF AgentsInv, HistoryTellsAgent
  <2> QED BY <2>1, <2>2 DEF HistoryTellsAgent
<1> QED BY <1>2, <1>4, <1>5 DEF AgentsInv

LEMMA DeleteBranchKeeps ==
  ASSUME StaffInv, NEW b \in Shops, DeleteBranch(b)
  PROVE  StaffInv'
<1>1. /\ shops' = shops \ {b} /\ latest' = [latest EXCEPT ![b] = None] /\ vacated' = vacated \ {b}
      /\ agent' = [r \in Rows |-> IF r \in RowsAt(b) THEN None ELSE agent[r]]
      /\ UNCHANGED work /\ UNCHANGED CodesVars
      /\ \A w \in Workers : Linking(w) => work[w].shop # b
  BY DEF DeleteBranch
<1>2. latest' \in [Shops -> HistoryEntry \cup {None}] /\ vacated' \subseteq shops' /\ latest'[b] = None
      /\ \A c \in Shops : c # b => latest'[c] = latest[c]
  BY <1>1 DEF StaffInv, AgentsInv, AgentsTypes
<1>3. AgentsInv'
  <2> DEFINE gone == RowsAt(b)
  <2>1. gone \in SUBSET Rows /\ \A r \in gone : agent[r].shop = b
    BY DEF RowsAt
  <2>2. agent' = [r \in Rows |-> IF r \in gone THEN None ELSE agent[r]]
    BY <1>1
  <2>3. ASSUME NEW c \in Shops
        PROVE  \/ latest'[c] = latest[c] /\ (c \in shops => c \in shops')
               \/ latest'[c] = None /\ RowsAt(c) \subseteq gone
    <3>1. CASE c = b
      BY <1>2, <3>1
    <3>2. CASE c # b
      BY <1>1, <1>2, <3>2
    <3> QED BY <3>1, <3>2
  <2>4. \A c \in Shops : c \in vacated /\ latest'[c] # None => c \in vacated'
    BY <1>1, <1>2
  <2>5. \A r \in gone : agent[r] # None /\ latest'[agent[r].shop] # None => agent[r].shop \in vacated'
    BY <1>2, <2>1
  <2> HIDE DEF gone
  <2> QED BY <1>1, <1>2, <2>1, <2>2, <2>3, <2>4, <2>5, RowsDropped DEF StaffInv
<1>4. StaffWork'
  BY <1>1 DEF StaffInv, StaffWork, StaffRemembers, Doing, Linking
<1>5. CodesInv'
  BY <1>1 DEF StaffInv, CodesInv, CodesTypes, OneVerifies, FreshCode, Verifies, Doing, CodesVars
<1> QED BY <1>3, <1>4, <1>5 DEF StaffInv

LEMMA DeleteAccountKeeps ==
  ASSUME StaffInv, NEW u \in Users, DeleteAccount(u)
  PROVE  StaffInv'
<1>1. /\ vacated' = vacated \cup {agent[r].shop : r \in RowsFor(u)}
      /\ agent' = [r \in Rows |-> IF r \in RowsFor(u) THEN None ELSE agent[r]]
      /\ UNCHANGED <<work, shops, latest>> /\ UNCHANGED CodesVars
  BY DEF DeleteAccount
<1>2. RowsFor(u) \in SUBSET Rows /\ \A r \in RowsFor(u) : agent[r].shop \in shops
  BY DEF RowsFor, StaffInv, AgentsInv, RowsOfShops
<1>3. vacated' \subseteq shops' /\ latest' \in [Shops -> HistoryEntry \cup {None}]
  BY <1>1, <1>2 DEF StaffInv, AgentsInv, AgentsTypes
<1>4. AgentsInv'
  <2> DEFINE gone == RowsFor(u)
  <2>1. gone \in SUBSET Rows /\ agent' = [r \in Rows |-> IF r \in gone THEN None ELSE agent[r]]
    BY <1>1, <1>2
  <2>2. \A r \in gone : agent[r].shop \in vacated'
    BY <1>1
  <2>3. shops' \subseteq shops /\ vacated \subseteq vacated'
        /\ \A b \in Shops : latest'[b] = latest[b] /\ (b \in shops => b \in shops')
    BY <1>1
  <2> HIDE DEF gone
  <2>4. \A b \in Shops : b \in vacated /\ latest'[b] # None => b \in vacated'
    BY <2>3
  <2>5. \A r \in gone : agent[r] # None /\ latest'[agent[r].shop] # None => agent[r].shop \in vacated'
    BY <2>2
  <2> QED BY <1>3, <2>1, <2>3, <2>4, <2>5, RowsDropped DEF StaffInv
<1>5. CodesInv'
  BY <1>1 DEF StaffInv, CodesInv, CodesTypes, OneVerifies, FreshCode, Verifies, Doing, CodesVars
<1> QED BY <1>1, <1>4, <1>5, SameWork DEF StaffInv

LEMMA RevokeKeeps ==
  ASSUME StaffInv, NEW r \in Rows, NEW revoked \in BOOLEAN, Revoke(r, revoked)
  PROVE  StaffInv'
<1> DEFINE row == agent[r]
           entry == Entry(row, IF revoked THEN "revoked" ELSE "unrevoked")
<1>1. /\ row # None /\ agent' = [agent EXCEPT ![r] = [row EXCEPT !.revoked = revoked]]
      /\ Consistent(agent') /\ latest' = [latest EXCEPT ![row.shop] = entry]
      /\ UNCHANGED <<work, shops, vacated>> /\ UNCHANGED CodesVars
  BY DEF Revoke
<1>2. row \in AgentRow /\ row.shop \in shops /\ row.shop \in Shops
  BY <1>1 DEF StaffInv, AgentsInv, AgentsTypes, RowsOfShops, AgentRow
<1>3. /\ agent'[r] \in AgentRow /\ agent'[r].shop = row.shop /\ agent'[r].user = row.user
      /\ agent'[r].device = row.device /\ agent'[r].revoked = revoked
  BY <1>1, <1>2 DEF StaffInv, AgentsInv, AgentsTypes, AgentRow
<1>4. /\ entry \in HistoryEntry /\ entry.user = row.user /\ entry.device = row.device
      /\ revoked <=> entry.action = "revoked"
  BY <1>2 DEF Entry, HistoryEntry, AgentRow, AgentAction
<1> HIDE DEF entry, row
<1>5. \A q \in Rows : q # r => agent'[q] = agent[q]
  BY <1>1
<1>6. AgentsTypes'
  BY <1>1, <1>2, <1>3, <1>4, <1>5 DEF StaffInv, AgentsInv, AgentsTypes
<1>7. latest'[row.shop] = entry /\ \A b \in Shops : b # row.shop => latest'[b] = latest[b]
  BY <1>1, <1>2 DEF StaffInv, AgentsInv, AgentsTypes
<1>8. agent'[r] # None /\ entry # None
  BY <1>3, <1>4, RowsAssumption DEF HistoryEntry
<1>9. \A q \in Rows : q # r /\ agent[q] # None => agent[q].shop # row.shop /\ agent[q].shop \in Shops
  BY <1>1 DEF StaffInv, AgentsInv, AgentsTypes, RowsOfShops, Consistent, AgentRow, row
<1>10. RowsOfShops'
  BY <1>1, <1>2, <1>3, <1>5, <1>7 DEF StaffInv, AgentsInv, RowsOfShops
<1>11. HistoryTellsAgent'
  <2>1. ASSUME NEW q \in Rows, agent'[q] # None
        PROVE  LET h == latest'[agent'[q].shop] IN
               /\ h # None
               /\ <<h.user, h.device>> = <<agent'[q].user, agent'[q].device>>
               /\ agent'[q].revoked <=> h.action = "revoked"
    <3>1. CASE q = r
      BY <1>3, <1>4, <1>7, <1>8, <3>1
    <3>2. CASE q # r
      BY <1>5, <1>7, <1>9, <2>1, <3>2 DEF StaffInv, AgentsInv, HistoryTellsAgent
    <3> QED BY <3>1, <3>2
  <2>2. ASSUME NEW b \in Shops, latest'[b] # None, RowsAt(b)' = {}
        PROVE  latest'[b].action = "revoked" \/ b \in vacated'
    <3>1. b # row.shop
      BY <1>3, <1>8, <2>2 DEF RowsAt
    <3>2. RowsAt(b) = {}
      BY <1>5, <2>2, <3>1 DEF RowsAt, row
    <3> QED BY <1>1, <1>7, <2>2, <3>1, <3>2 DEF StaffInv, AgentsInv, HistoryTellsAgent
  <2> QED BY <2>1, <2>2 DEF HistoryTellsAgent
<1>12. CodesInv'
  BY <1>1 DEF StaffInv, CodesInv, CodesTypes, OneVerifies, FreshCode, Verifies, Doing, CodesVars
<1> QED BY <1>1, <1>6, <1>10, <1>11, <1>12, SameWork DEF StaffInv, AgentsInv

\* An id is free for the agent of a branch without a row.
LEMMA FreeRow ==
  ASSUME AgentsInv, NEW b \in Shops, RowsAt(b) = {}
  PROVE  \E r \in Rows : agent[r] = None
<1> SUFFICES ASSUME \A r \in Rows : agent[r] # None PROVE FALSE
  OBVIOUS
<1> DEFINE f == [r \in Rows |-> agent[r].shop]
           Others == Shops \ {b}
<1>1. f \in [Rows -> Others]
  BY DEF AgentsInv, AgentsTypes, AgentRow, RowsAt
<1>2. IsFiniteSet(Others) /\ Cardinality(Others) = Cardinality(Shops) - 1
  BY RowsAssumption, FS_RemoveElement
<1>3. Cardinality(Shops) \in Nat /\ Cardinality(Rows) \in Nat /\ Cardinality(Others) \in Nat
  BY <1>2, RowsAssumption, FS_CardinalityType
<1>4. Cardinality(Others) < Cardinality(Rows)
  BY <1>2, <1>3, RowsAssumption
<1> HIDE DEF f, Others
<1>5. \E q, r \in Rows : q # r /\ f[q] = f[r]
  BY <1>1, <1>2, <1>4, RowsAssumption, FS_PigeonHole
<1> USE DEF f
<1> QED BY <1>5 DEF AgentsInv, RowsOfShops, Consistent

\* A row is the branch's now, the branch's others are gone, and the branch
\* the row was taken from has a vacancy that is noted or a revoked agent.
LEMMA RowPlaced ==
  ASSUME AgentsInv, NEW b \in shops, NEW id \in Rows, NEW row \in AgentRow, NEW entry \in HistoryEntry,
         row.shop = b, ~row.revoked, entry.user = row.user, entry.device = row.device,
         entry.action # "revoked",
         agent' = [r \in Rows |-> IF r = id THEN row ELSE IF r \in RowsAt(b) THEN None ELSE agent[r]],
         Consistent(agent'),
         latest' = [latest EXCEPT ![b] = entry], UNCHANGED shops,
         vacated' \subseteq shops, vacated \ {b} \subseteq vacated',
         agent[id] # None /\ agent[id].shop # b /\ ~agent[id].revoked => agent[id].shop \in vacated'
  PROVE  AgentsInv'
<1>1. b \in Shops
  BY DEF AgentsInv, AgentsTypes
<1>2. /\ agent'[id] = row /\ row # None /\ entry # None
      /\ latest'[b] = entry /\ \A c \in Shops : c # b => latest'[c] = latest[c]
  BY <1>1, RowsAssumption DEF AgentsInv, AgentsTypes, HistoryEntry
<1>3. ASSUME NEW r \in Rows, r # id, agent'[r] # None
      PROVE  agent'[r] = agent[r] /\ agent[r].shop # b /\ agent[r].shop \in Shops
  BY <1>3 DEF RowsAt, AgentsInv, AgentsTypes, AgentRow
<1>4. AgentsTypes'
  BY <1>1 DEF AgentsInv, AgentsTypes
<1>5. RowsOfShops'
  <2>1. \A r \in Rows : agent'[r] # None => agent'[r].shop \in shops'
    BY <1>2, <1>3 DEF AgentsInv, RowsOfShops
  <2>2. \A c \in Shops : latest'[c] # None => c \in shops'
    BY <1>2 DEF AgentsInv, RowsOfShops
  <2> QED BY <2>1, <2>2 DEF RowsOfShops, Consistent
<1>6. ASSUME NEW r \in Rows, agent'[r] # None
      PROVE  LET h == latest'[agent'[r].shop] IN
             /\ h # None
             /\ <<h.user, h.device>> = <<agent'[r].user, agent'[r].device>>
             /\ agent'[r].revoked <=> h.action = "revoked"
  <2>1. CASE r = id
    <3>1. row.revoked <=> entry.action = "revoked"
      OBVIOUS
    <3> QED BY <1>2, <2>1, <3>1
  <2>2. CASE r # id
    BY <1>2, <1>3, <1>6, <2>2 DEF AgentsInv, HistoryTellsAgent
  <2> QED BY <2>1, <2>2
<1>7. ASSUME NEW c \in Shops, latest'[c] # None, RowsAt(c)' = {}
      PROVE  latest'[c].action = "revoked" \/ c \in vacated'
  <2>1. c # b /\ latest'[c] = latest[c]
    BY <1>2, <1>7 DEF RowsAt
  <2>2. CASE RowsAt(c) = {}
    BY <1>7, <2>1, <2>2 DEF AgentsInv, HistoryTellsAgent
  <2>3. CASE RowsAt(c) # {}
    <3>1. PICK r \in Rows : agent[r] # None /\ agent[r].shop = c
      BY <2>3 DEF RowsAt
    <3>2. r = id
      BY <1>7, <2>1, <3>1 DEF RowsAt
    <3>3. CASE agent[id].revoked
      BY <2>1, <3>1, <3>2, <3>3 DEF AgentsInv, HistoryTellsAgent
    <3> QED BY <2>1, <3>1, <3>2, <3>3
  <2> QED BY <2>2, <2>3
<1> QED BY <1>4, <1>5, <1>6, <1>7 DEF AgentsInv, HistoryTellsAgent

LEMMA LinkCommitsKeeps ==
  ASSUME StaffInv, NEW w \in Workers, LinkCommits(w)
  PROVE  StaffInv'
<1> DEFINE j == work[w]
           b == j.shop
           here == RowsAt(b)
           reclaims == j.target # None /\ j.target \notin here
           stale == reclaims /\ agent[j.target] # None /\ ~agent[j.target].revoked
           row == [shop |-> b, user |-> j.user, device |-> j.device, revoked |-> FALSE]
           entry == Entry([user |-> j.user, device |-> j.device], IF reclaims THEN "reclaimed" ELSE "assigned")
           free == {r \in Rows : agent[r] = None}
           id == IF j.target # None THEN j.target
                 ELSE IF here # {} THEN CHOOSE r \in here : TRUE ELSE CHOOSE r \in free : TRUE
<1>1. b \in shops /\ b \in Shops /\ j.user \in Users /\ j.device \in Devices /\ j.target \in Rows \cup {None}
  BY DEF LinkCommits, StaffInv, StaffWork, StaffRemembers, AgentsInv, AgentsTypes
<1>2. work' = [work EXCEPT ![w] = Idle] /\ UNCHANGED CodesVars /\ UNCHANGED shops
  BY DEF LinkCommits, Ends, AgentsVars
<1>3. StaffWork' /\ CodesInv'
  <2>1. StaffWork'
    BY <1>2, StaffWorkStep DEF Idle, StaffInv, StaffWork, StaffRemembers
  <2>2. Idle.op # "verify"
    BY DEF Idle
  <2> QED BY <1>2, <2>1, <2>2, CodesKept DEF StaffInv
<1>4. CASE UNCHANGED AgentsVars
  BY <1>3, <1>4, AgentsKept DEF StaffInv
<1>5. CASE ~UNCHANGED AgentsVars
  <2>1. /\ agent' = Placed(j) /\ Consistent(Placed(j)) /\ latest' = [latest EXCEPT ![b] = entry]
        /\ vacated' = (vacated \cup (IF stale THEN {agent[j.target].shop} ELSE {})) \ {b}
    BY <1>5 DEF LinkCommits
  <2>2. agent' = [r \in Rows |-> IF r = id THEN row ELSE IF r \in here THEN None ELSE agent[r]]
    BY <2>1 DEF Placed
  <2>3. row \in AgentRow /\ row.shop = b /\ ~row.revoked /\ row.user = j.user /\ row.device = j.device
    BY <1>1 DEF AgentRow, AgentsInv, AgentsTypes
  <2>4. entry \in HistoryEntry /\ entry.user = j.user /\ entry.device = j.device /\ entry.action # "revoked"
    BY <1>1 DEF Entry, HistoryEntry, AgentAction
  <2>5. id \in Rows /\ (agent[id] # None /\ agent[id].shop # b => id = j.target /\ reclaims)
    <3>1. CASE j.target # None
      BY <1>1, <3>1 DEF RowsAt
    <3>2. CASE j.target = None /\ here # {}
      <4>1. id \in here
        BY <3>2
      <4> QED BY <4>1 DEF RowsAt
    <3>3. CASE j.target = None /\ here = {}
      <4>1. free # {}
        BY <1>1, <3>3, FreeRow DEF StaffInv
      <4>2. id \in free
        BY <3>3, <4>1
      <4> QED BY <4>2
    <3> QED BY <3>1, <3>2, <3>3
  <2>6. stale => agent[j.target].shop \in shops
    BY <1>1 DEF StaffInv, AgentsInv, RowsOfShops
  <2>7. vacated' \subseteq shops /\ vacated \ {b} \subseteq vacated'
    BY <2>1, <2>6 DEF StaffInv, AgentsInv, AgentsTypes
  <2>8. agent[id] # None /\ agent[id].shop # b /\ ~agent[id].revoked => agent[id].shop \in vacated'
    BY <2>1, <2>5
  <2>9. /\ agent' = [r \in Rows |-> IF r = id THEN row ELSE IF r \in RowsAt(b) THEN None ELSE agent[r]]
        /\ Consistent(agent') /\ entry.user = row.user /\ entry.device = row.device
    BY <2>1, <2>2, <2>3, <2>4
  <2> HIDE DEF id, row, entry, here, stale, reclaims, free, b, j
  <2>10. AgentsInv'
    BY <1>1, <1>2, <2>1, <2>3, <2>4, <2>5, <2>7, <2>8, <2>9, RowPlaced DEF StaffInv
  <2> QED BY <1>3, <2>10 DEF StaffInv
<1> QED BY <1>4, <1>5

-----------------------------------------------------------------------------
LEMMA InitStaff == RequestsInit /\ StaffInit => StaffInv
<1> SUFFICES ASSUME RequestsInit, StaffInit PROVE StaffInv
  OBVIOUS
<1>1. StaffWork
  BY DEF RequestsInit, StaffWork, StaffRemembers, Idle, Doing, Linking
<1>2. CodesInv
  BY StaffAssumption DEF StaffInit, RequestsInit, CodesInv, CodesTypes, OneVerifies, FreshCode, Verifies, Doing, Idle
<1>3. AgentsInv
  BY DEF StaffInit, AgentsInv, AgentsTypes, RowsOfShops, HistoryTellsAgent, Consistent
<1> QED BY <1>1, <1>2, <1>3 DEF StaffInv

LEMMA NextStaff == StaffInv /\ [StaffNext]_<<work, StaffVars>> => StaffInv'
<1> SUFFICES ASSUME StaffInv, [StaffNext]_<<work, StaffVars>> PROVE StaffInv'
  OBVIOUS
<1>1. CASE CodesNext(Grants)
  BY <1>1, SendReadsKeeps, SendMintsKeeps, VerifyTakesKeeps, VerifyDeletesKeeps, LapsesKeep,
     RateWindowEndsKeeps, StaffDiesKeeps DEF CodesNext
<1>2. CASE AgentsNext(Users \X Devices)
  BY <1>2, LinkAcceptedKeeps, LinkReadsKeeps, LinkCommitsKeeps, RevokeKeeps, DeleteBranchKeeps,
     DeleteAccountKeeps, StaffDiesKeeps DEF AgentsNext
<1>3. CASE UNCHANGED <<work, StaffVars>>
  <2>1. UNCHANGED <<work, shops>> /\ UNCHANGED AgentsVars /\ UNCHANGED <<work, CodesVars>>
    BY <1>3 DEF StaffVars, AgentsVars
  <2>2. CodesInv'
    BY <2>1 DEF StaffInv, CodesInv, CodesTypes, OneVerifies, FreshCode, Verifies, Doing, CodesVars
  <2> QED BY <2>1, <2>2, SameWork, AgentsKept DEF StaffInv
<1> QED BY <1>1, <1>2, <1>3 DEF StaffNext

LEMMA StaffInvType == StaffInv => StaffType
  BY DEF StaffInv, CodesInv, CodesTypes, AgentsInv, AgentsTypes, StaffType, HistoryEntry

(* A code is accepted once, and for what it was minted for, by however     *)
(* many requests that present it at the same time                          *)
(* (common/otp/base.py:OTPManager.verify).                                 *)
THEOREM CodeIsUsedOnce == StaffSpec => []CodeUsedOnce
<1>1. StaffInv => CodeUsedOnce
  BY DEF StaffInv, CodesInv, FreshCode, CodeUsedOnce
<1> QED BY <1>1, InitStaff, NextStaff, PTL DEF StaffSpec

(* The newest history entry of a branch tells who its agent is and whether *)
(* it is revoked, however links, revocations and deletions overlap         *)
(* (accounts/views/account_views.py:LinkApproveView).                      *)
THEOREM HistoryIsRight == StaffSpec => []HistoryTellsAgent
<1>1. StaffInv => HistoryTellsAgent
  BY DEF StaffInv, AgentsInv
<1> QED BY <1>1, InitStaff, NextStaff, PTL DEF StaffSpec

-----------------------------------------------------------------------------
(* DriverOnboarding: however phases and replacements of the availability   *)
(* overlap, a draft holds no phase without its records.                    *)
DriverState == <<work, DriverVars>>
DriverStart == \E n \in 0 .. 3 : DriverInit(1 .. n)
DriverNext == PhasesNext(0 .. 4, Days) \/ ScheduleNext \/ ChecksNext
DriverSpec == RequestsInit /\ DriverStart /\ [][DriverNext]_DriverState

\* Phases that are complete, each with its papers and the phase before it.
Supported(complete, there) ==
  /\ complete \subseteq 1 .. 3
  /\ \A p \in complete : Written(p) \subseteq there /\ (p = 1 \/ p - 1 \in complete)

PhaseOps ==
  {"person", "account", "kin", "referral", "license", "nin", "bvn", "guarantors", "vehicle", "clear", "answer"}
PhaseJobs == [op : PhaseOps, phase : 1 .. 3, draft : Drafts, answers : SUBSET (1 .. 3)]
FillJobs == [op : {"fill"}, phase : 1 .. 3, draft : Drafts, answers : SUBSET (1 .. 3), left : SUBSET Days]

\* The phase a step belongs to, and the papers that are there before it.
Reached(op, phase, there) ==
  /\ op \in {"person", "account", "kin", "referral"} => phase = 1
  /\ op \in {"license", "nin", "bvn", "guarantors", "vehicle"} => phase = 2
  /\ op \in {"clear", "fill"} => phase = 3
  /\ op = "account" => {"person"} \subseteq there
  /\ op = "kin" => {"person", "account"} \subseteq there
  /\ op = "referral" => {"person", "account", "kin"} \subseteq there
  /\ op = "nin" => {"license"} \subseteq there
  /\ op = "bvn" => {"license", "nin"} \subseteq there
  /\ op = "guarantors" => {"license", "nin", "bvn"} \subseteq there
  /\ op = "vehicle" => {"license", "nin", "bvn", "guarantors"} \subseteq there
  /\ op = "answer" => Written(phase) \subseteq there

Fits(j, rows, there) ==
  /\ j.op \in PhaseOps => j \in PhaseJobs
  /\ j.op = "fill" => j \in FillJobs
  /\ j.op \in PhaseOps \cup {"fill"} =>
       /\ rows[j.draft] # None
       /\ Supported(j.answers, there)
       /\ j.phase = 1 \/ j.phase - 1 \in j.answers
       /\ Reached(j.op, j.phase, there)

DriverTypes ==
  /\ DOMAIN work = Workers
  /\ answers \in [Drafts -> (SUBSET (1 .. 3)) \cup {None}]
  /\ newest \in Drafts \cup {None} /\ (newest # None => answers[newest] # None)

DriverWork == \A w \in Workers : Fits(work[w], answers, papers)
DraftsHold == \A d \in Drafts : answers[d] # None => Supported(answers[d], papers)

\* Unless replacements overlapped, what is missing is what is left to do.
OneReplaces ==
  ~torn =>
    /\ Replacing = {} => slots = wanted
    /\ \A w \in Replacing :
         Replacing = {w} /\ work[w].left \subseteq wanted /\ slots = wanted \ work[w].left

DriverInv == DriverTypes /\ DriverWork /\ DraftsHold /\ OneReplaces

-----------------------------------------------------------------------------
LEMMA IdleDriver == Idle.op \notin PhaseOps \cup {"fill", "schedule", "draft"}
  BY DEF Idle, PhaseOps

LEMMA IdleFits == ASSUME NEW rows, NEW there PROVE Fits(Idle, rows, there)
  BY IdleDriver DEF Fits

LEMMA SupportedMore ==
  ASSUME NEW A, NEW there, NEW more, Supported(A, there), there \subseteq more
  PROVE  Supported(A, more)
  BY DEF Supported

LEMMA ReachedMore ==
  ASSUME NEW op, NEW phase, NEW there, NEW more, Reached(op, phase, there), there \subseteq more
  PROVE  Reached(op, phase, more)
  BY DEF Reached

LEMMA FitsMore ==
  ASSUME NEW j, NEW rows, NEW rows2, NEW there, NEW more,
         Fits(j, rows, there), there \subseteq more,
         \A d \in Drafts : rows[d] # None => rows2[d] # None
  PROVE  Fits(j, rows2, more)
<1>1. ASSUME j.op \in PhaseOps \cup {"fill"}
      PROVE  /\ rows2[j.draft] # None /\ Supported(j.answers, more)
             /\ j.phase = 1 \/ j.phase - 1 \in j.answers
             /\ Reached(j.op, j.phase, more)
  <2>1. j.draft \in Drafts
    BY <1>1 DEF Fits, PhaseJobs, FillJobs
  <2>2. /\ rows[j.draft] # None /\ Supported(j.answers, there) /\ Reached(j.op, j.phase, there)
        /\ j.phase = 1 \/ j.phase - 1 \in j.answers
    BY <1>1 DEF Fits
  <2> QED BY <2>1, <2>2, SupportedMore, ReachedMore
<1>2. (j.op \in PhaseOps => j \in PhaseJobs) /\ (j.op = "fill" => j \in FillJobs)
  BY DEF Fits
<1> QED BY <1>1, <1>2 DEF Fits

LEMMA InitDriver == RequestsInit /\ DriverStart => DriverInv
<1> SUFFICES ASSUME RequestsInit, NEW n \in 0 .. 3, DriverInit(1 .. n) PROVE DriverInv
  BY DEF DriverStart
<1> DEFINE d == CHOOSE x \in Drafts : TRUE
           none == 1 .. n = {}
<1>1. d \in Drafts
  BY DriverOnboardingAssumption
<1>2. /\ answers = [x \in Drafts |-> IF x = d /\ ~none THEN 1 .. n ELSE None]
      /\ newest = (IF none THEN None ELSE d)
      /\ papers = UNION {Written(p) : p \in 1 .. n} /\ slots = {} /\ wanted = {}
  BY DEF DriverInit
<1>3. 1 .. n \in SUBSET (1 .. 3) /\ 1 .. n # None
  BY DriverOnboardingAssumption
<1> HIDE DEF d, none
<1>4. DriverTypes
  BY <1>1, <1>2, <1>3 DEF RequestsInit, DriverTypes
<1>5. DriverWork
  BY IdleFits DEF RequestsInit, DriverWork
<1>6. Supported(1 .. n, papers)
  <2>1. \A p \in 1 .. n : Written(p) \subseteq papers
    BY <1>2
  <2>2. \A p \in 1 .. n : p = 1 \/ p - 1 \in 1 .. n
    OBVIOUS
  <2> QED BY <1>3, <2>1, <2>2 DEF Supported
<1>7. DraftsHold
  BY <1>2, <1>6 DEF DraftsHold
<1>8. Replacing = {}
  BY IdleDriver DEF RequestsInit, Replacing
<1>9. OneReplaces
  BY <1>2, <1>8 DEF OneReplaces
<1> QED BY <1>4, <1>5, <1>7, <1>9 DEF DriverInv

\* What workers remember still fits when papers and drafts have come.
LEMMA PhasesFit ==
  ASSUME DriverInv, NEW w \in Workers, NEW job, work' = [work EXCEPT ![w] = job],
         papers \subseteq papers', \A d \in Drafts : answers[d] # None => answers'[d] # None,
         Fits(job, answers', papers')
  PROVE  DOMAIN work' = Workers /\ DriverWork'
<1>1. /\ DOMAIN work' = Workers
      /\ work'[w] = job /\ \A v \in Workers : v # w => work'[v] = work[v]
  BY DEF DriverInv, DriverTypes
<1>2. ASSUME NEW v \in Workers PROVE Fits(work'[v], answers', papers')
  <2>1. CASE v = w
    BY <1>1, <2>1
  <2>2. CASE v # w
    <3>1. Fits(work[v], answers, papers)
      BY DEF DriverInv, DriverWork
    <3> QED BY <1>1, <2>2, <3>1, FitsMore
  <2> QED BY <2>1, <2>2
<1> QED BY <1>1, <1>2 DEF DriverWork

LEMMA NobodyReplaces ==
  ASSUME DriverInv, NEW w \in Workers, NEW job, work' = [work EXCEPT ![w] = job],
         work[w].op \notin {"fill", "schedule"}, job.op \notin {"fill", "schedule"},
         UNCHANGED <<slots, wanted, torn>>
  PROVE  OneReplaces'
<1>1. work'[w] = job /\ \A v \in Workers : v # w => work'[v] = work[v]
  BY DEF DriverInv, DriverTypes
<1>2. Replacing' = Replacing /\ \A v \in Replacing : work'[v] = work[v]
  BY <1>1 DEF Replacing
<1> QED BY <1>2 DEF DriverInv, OneReplaces

\* A step that leaves the drafts as they are.
LEMMA PhaseStep ==
  ASSUME DriverInv, NEW w \in Workers, NEW job, work' = [work EXCEPT ![w] = job],
         papers \subseteq papers', UNCHANGED <<answers, newest>>, Fits(job, answers, papers'), OneReplaces'
  PROVE  DriverInv'
<1>1. DOMAIN work' = Workers /\ DriverWork'
  BY PhasesFit
<1>2. DriverTypes'
  BY <1>1 DEF DriverInv, DriverTypes
<1>3. \A d \in Drafts : answers[d] # None => Supported(answers[d], papers')
  BY SupportedMore DEF DriverInv, DraftsHold
<1>4. DraftsHold'
  BY <1>3 DEF DraftsHold
<1> QED BY <1>1, <1>2, <1>4 DEF DriverInv

\* A draft gets phases that are supported.
LEMMA DraftStep ==
  ASSUME DriverInv, NEW w \in Workers, NEW job, work' = [work EXCEPT ![w] = job],
         NEW d \in Drafts, NEW complete, answers' = [answers EXCEPT ![d] = complete],
         Supported(complete, papers), papers' = papers, newest' \in {newest, d},
         Fits(job, answers', papers), OneReplaces'
  PROVE  DriverInv'
<1>1. complete \in SUBSET (1 .. 3) /\ complete # None
  BY DriverOnboardingAssumption DEF Supported
<1>2. /\ answers' \in [Drafts -> (SUBSET (1 .. 3)) \cup {None}]
      /\ answers'[d] = complete /\ \A x \in Drafts : x # d => answers'[x] = answers[x]
  BY <1>1 DEF DriverInv, DriverTypes
<1>3. \A x \in Drafts : answers[x] # None => answers'[x] # None
  BY <1>1, <1>2
<1>4. DOMAIN work' = Workers /\ DriverWork'
  BY <1>3, PhasesFit
<1>5. newest' \in Drafts \cup {None} /\ (newest' # None => answers'[newest'] # None)
  BY <1>1, <1>2, <1>3 DEF DriverInv, DriverTypes
<1>6. DriverTypes'
  BY <1>2, <1>4, <1>5 DEF DriverTypes
<1>7. \A x \in Drafts : answers'[x] # None => Supported(answers'[x], papers)
  BY <1>2 DEF DriverInv, DraftsHold
<1>8. DraftsHold'
  BY <1>7 DEF DraftsHold
<1> QED BY <1>4, <1>6, <1>8 DEF DriverInv

-----------------------------------------------------------------------------
\* A phase that opens begins with its first statement.
LEMMA PhaseBegins ==
  ASSUME NEW phase \in 1 .. 3, NEW d \in Drafts, NEW complete, NEW rows, NEW there,
         PhaseOpen(phase, complete), rows[d] # None, Supported(complete, there)
  PROVE  LET job == [op |-> FirstStatement(phase), phase |-> phase, draft |-> d, answers |-> complete]
         IN  Fits(job, rows, there) /\ job.op \notin {"fill", "schedule"}
<1> DEFINE job == [op |-> FirstStatement(phase), phase |-> phase, draft |-> d, answers |-> complete]
<1>1. /\ FirstStatement(phase) \in {"person", "license", "clear"}
      /\ FirstStatement(phase) = "person" => phase = 1
      /\ FirstStatement(phase) = "license" => phase = 2
      /\ FirstStatement(phase) = "clear" => phase = 3
  BY DEF FirstStatement
<1>2. complete \in SUBSET (1 .. 3) /\ (phase = 1 \/ phase - 1 \in complete)
  BY DEF Supported, PhaseOpen
<1>3. /\ job \in PhaseJobs /\ job.op = FirstStatement(phase) /\ job.phase = phase
      /\ job.draft = d /\ job.answers = complete
  BY <1>1, <1>2 DEF PhaseJobs, PhaseOps
<1> HIDE DEF job
<1>4. Reached(job.op, job.phase, there) /\ job.op \notin {"fill", "schedule"}
  BY <1>1, <1>3 DEF Reached
<1>5. Fits(job, rows, there)
  BY <1>2, <1>3, <1>4 DEF Fits
<1> QED BY <1>4, <1>5 DEF job

LEMMA StepDraftFound ==
  ASSUME DriverInv, NEW w \in Workers, NEW phase \in 0 .. 4, DraftFound(w, phase)
  PROVE  DriverInv'
<1> DEFINE started == [op |-> FirstStatement(phase), phase |-> phase,
                       draft |-> newest, answers |-> answers[newest]]
           draft == [op |-> "draft", phase |-> phase]
<1>1. /\ work[w] = Idle /\ work[w].op \notin {"fill", "schedule"}
      /\ UNCHANGED <<answers, newest, papers, slots, wanted, torn>>
  BY IdleDriver DEF DraftFound, Free
<1>2. \/ work' = [work EXCEPT ![w] = draft]
      \/ /\ newest # None /\ phase \in 1 .. 3 /\ PhaseOpen(phase, answers[newest])
         /\ work' = [work EXCEPT ![w] = started]
      \/ work' = work
  BY DEF DraftFound, Starts
<1>3. CASE work' = [work EXCEPT ![w] = draft]
  <2>1. draft.op \notin PhaseOps \cup {"fill", "schedule"}
    BY DEF PhaseOps
  <2> HIDE DEF draft
  <2>2. Fits(draft, answers, papers)
    BY <2>1 DEF Fits
  <2>3. OneReplaces'
    BY <1>1, <1>3, <2>1, NobodyReplaces
  <2> QED BY <1>1, <1>3, <2>2, <2>3, PhaseStep
<1>4. CASE /\ newest # None /\ phase \in 1 .. 3 /\ PhaseOpen(phase, answers[newest])
           /\ work' = [work EXCEPT ![w] = started]
  <2>1. newest \in Drafts /\ answers[newest] # None /\ Supported(answers[newest], papers)
    BY <1>4 DEF DriverInv, DriverTypes, DraftsHold
  <2>2. Fits(started, answers, papers) /\ started.op \notin {"fill", "schedule"}
    BY <1>4, <2>1, PhaseBegins
  <2> HIDE DEF started
  <2>3. OneReplaces'
    BY <1>1, <1>4, <2>2, NobodyReplaces
  <2> QED BY <1>1, <1>4, <2>2, <2>3, PhaseStep
<1>5. CASE work' = work
  <2>1. DriverTypes' /\ DriverWork' /\ DraftsHold'
    BY <1>1, <1>5 DEF DriverInv, DriverTypes, DriverWork, DraftsHold
  <2>2. OneReplaces'
    BY <1>1, <1>5 DEF DriverInv, OneReplaces, Replacing
  <2> QED BY <2>1, <2>2 DEF DriverInv
<1> QED BY <1>2, <1>3, <1>4, <1>5

LEMMA StepDraftCreated ==
  ASSUME DriverInv, NEW w \in Workers, NEW d \in Drafts, DraftCreated(w, d) PROVE DriverInv'
<1> DEFINE phase == work[w].phase
           started == [op |-> FirstStatement(phase), phase |-> phase, draft |-> d, answers |-> {}]
           idle == Idle
<1>1. /\ work[w].op \notin {"fill", "schedule"}
      /\ answers' = [answers EXCEPT ![d] = {}] /\ newest' = d
      /\ UNCHANGED <<papers, slots, wanted, torn>>
  BY DEF DraftCreated, Doing
<1>2. Supported({}, papers)
  BY DEF Supported
<1>3. {} # None /\ answers'[d] = {}
  BY <1>1, DriverOnboardingAssumption DEF DriverInv, DriverTypes
<1>4. \/ phase \in 1 .. 3 /\ PhaseOpen(phase, {}) /\ work' = [work EXCEPT ![w] = started]
      \/ work' = [work EXCEPT ![w] = idle]
  BY DEF DraftCreated, Starts, Ends
<1>5. CASE phase \in 1 .. 3 /\ PhaseOpen(phase, {}) /\ work' = [work EXCEPT ![w] = started]
  <2>1. Fits(started, answers', papers) /\ started.op \notin {"fill", "schedule"}
    <3> HIDE DEF phase
    <3> QED BY <1>2, <1>3, <1>5, PhaseBegins
  <2> HIDE DEF started
  <2>2. OneReplaces'
    BY <1>1, <1>5, <2>1, NobodyReplaces
  <2> QED BY <1>1, <1>2, <1>5, <2>1, <2>2, DraftStep
<1>6. CASE work' = [work EXCEPT ![w] = idle]
  <2>1. Fits(idle, answers', papers) /\ idle.op \notin {"fill", "schedule"}
    BY IdleFits, IdleDriver
  <2> HIDE DEF idle
  <2>2. OneReplaces'
    BY <1>1, <1>6, <2>1, NobodyReplaces
  <2> QED BY <1>1, <1>2, <1>6, <2>1, <2>2, DraftStep
<1> QED BY <1>4, <1>5, <1>6

\* A phase goes on to its next statement.
LEMMA PhaseGoesOn ==
  ASSUME DriverInv, NEW w \in Workers, NEW from \in PhaseOps, NEW to \in PhaseOps, Goes(w, from, to),
         papers \subseteq papers', UNCHANGED <<answers, newest, slots, wanted, torn>>,
         Reached(from, work[w].phase, papers) => Reached(to, work[w].phase, papers')
  PROVE  DriverInv'
<1> DEFINE job == [work[w] EXCEPT !.op = to]
           j == work[w]
<1>1. j.op = from /\ work' = [work EXCEPT ![w] = job]
  BY DEF Goes, Doing, Starts
<1>2. Fits(j, answers, papers)
  BY DEF DriverInv, DriverWork
<1>3. /\ j \in PhaseJobs /\ answers[j.draft] # None /\ Supported(j.answers, papers)
      /\ j.phase = 1 \/ j.phase - 1 \in j.answers
      /\ Reached(j.op, j.phase, papers)
  BY <1>1, <1>2 DEF Fits
<1>4. /\ job \in PhaseJobs /\ job.op = to /\ job.phase = j.phase /\ job.draft = j.draft
      /\ job.answers = j.answers
  BY <1>3 DEF PhaseJobs
<1> HIDE DEF job
<1>5. Fits(job, answers, papers')
  BY <1>1, <1>3, <1>4, SupportedMore DEF Fits, PhaseOps
<1>6. job.op \notin {"fill", "schedule"} /\ work[w].op \notin {"fill", "schedule"}
  BY <1>1, <1>4 DEF PhaseOps
<1>7. OneReplaces'
  BY <1>1, <1>6, NobodyReplaces
<1> QED BY <1>1, <1>5, <1>7, PhaseStep

LEMMA StepsOfPhases ==
  ASSUME DriverInv, NEW w \in Workers,
         \/ PersonSaves(w) \/ AccountSaves(w) \/ KinSaves(w)
         \/ LicenseSaves(w) \/ NinSaves(w) \/ BvnSaves(w) \/ GuarantorsSave(w) \/ VehicleSaves(w)
  PROVE  DriverInv'
<1>1. CASE PersonSaves(w)
  BY <1>1, PhaseGoesOn DEF PersonSaves, Puts, PhaseOps, Reached
<1>2. CASE AccountSaves(w)
  BY <1>2, PhaseGoesOn DEF AccountSaves, Puts, PhaseOps, Reached
<1>3. CASE KinSaves(w)
  BY <1>3, PhaseGoesOn DEF KinSaves, Puts, PhaseOps, Reached
<1>4. CASE LicenseSaves(w)
  BY <1>4, PhaseGoesOn DEF LicenseSaves, Puts, PhaseOps, Reached
<1>5. CASE NinSaves(w)
  BY <1>5, PhaseGoesOn DEF NinSaves, Puts, PhaseOps, Reached
<1>6. CASE BvnSaves(w)
  BY <1>6, PhaseGoesOn DEF BvnSaves, Puts, PhaseOps, Reached
<1>7. CASE GuarantorsSave(w)
  BY <1>7, PhaseGoesOn DEF GuarantorsSave, Puts, PhaseOps, Reached
<1>8. CASE VehicleSaves(w)
  BY <1>8, PhaseGoesOn DEF VehicleSaves, Puts, PhaseOps, Reached, Written
<1> QED BY <1>1, <1>2, <1>3, <1>4, <1>5, <1>6, <1>7, <1>8

\* A request that ends, of no replacement.
LEMMA PhaseEnds ==
  ASSUME DriverInv, NEW w \in Workers, work[w].op \notin {"fill", "schedule"}, work' = [work EXCEPT ![w] = Idle],
         UNCHANGED <<answers, newest, papers, slots, wanted, torn>>
  PROVE  DriverInv'
<1> DEFINE idle == Idle
<1>1. idle.op \notin {"fill", "schedule"} /\ Fits(idle, answers, papers) /\ work' = [work EXCEPT ![w] = idle]
  BY IdleDriver, IdleFits
<1> HIDE DEF idle
<1>2. OneReplaces'
  BY <1>1, NobodyReplaces
<1> QED BY <1>1, <1>2, PhaseStep

LEMMA StepReferralApplied ==
  ASSUME DriverInv, NEW w \in Workers, NEW refused, ReferralApplied(w, refused) PROVE DriverInv'
<1>1. CASE refused
  <2>1. /\ work[w].op \notin {"fill", "schedule"} /\ work' = [work EXCEPT ![w] = Idle]
        /\ UNCHANGED <<answers, newest, papers, slots, wanted, torn>>
    BY <1>1 DEF ReferralApplied, Doing, Ends, DriverVars
  <2> QED BY <2>1, PhaseEnds
<1>2. CASE ~refused
  BY <1>2, PhaseGoesOn DEF ReferralApplied, DriverVars, PhaseOps, Reached, Written
<1> QED BY <1>1, <1>2

LEMMA StepAnswersSave == ASSUME DriverInv, NEW w \in Workers, AnswersSave(w) PROVE DriverInv'
<1> DEFINE j == work[w]
           complete == j.answers \cup {j.phase}
           d == j.draft
           idle == Idle
<1>1. j.op = "answer" /\ Fits(j, answers, papers)
  BY DEF AnswersSave, Doing, DriverInv, DriverWork
<1>2. /\ j.phase \in 1 .. 3 /\ d \in Drafts /\ Supported(j.answers, papers)
      /\ j.phase = 1 \/ j.phase - 1 \in j.answers
      /\ Written(j.phase) \subseteq papers
  BY <1>1 DEF Fits, PhaseOps, PhaseJobs, Reached
<1>3. Supported(complete, papers)
  BY <1>2 DEF Supported
<1>4. /\ work' = [work EXCEPT ![w] = idle] /\ answers' = [answers EXCEPT ![d] = complete]
      /\ UNCHANGED <<newest, papers, slots, wanted, torn>>
  BY DEF AnswersSave, Ends
<1>5. Fits(idle, answers', papers) /\ idle.op \notin {"fill", "schedule"}
  BY IdleFits, IdleDriver
<1> HIDE DEF idle, complete, d
<1>6. OneReplaces'
  BY <1>1, <1>4, <1>5, NobodyReplaces
<1> QED BY <1>2, <1>3, <1>4, <1>5, <1>6, DraftStep

-----------------------------------------------------------------------------
\* A replacement of the availability begins.
LEMMA ReplacingBegins ==
  ASSUME DriverInv, NEW w \in Workers, work[w].op \notin {"fill", "schedule"},
         NEW job, work' = [work EXCEPT ![w] = job], job.op \in {"fill", "schedule"},
         slots' = {}, wanted' = job.left, torn' = (Replacing # {})
  PROVE  OneReplaces'
<1>1. work'[w] = job /\ \A v \in Workers : v # w => work'[v] = work[v]
  BY DEF DriverInv, DriverTypes
<1>2. Replacing' = Replacing \cup {w}
  BY <1>1 DEF Replacing
<1> QED BY <1>1, <1>2 DEF OneReplaces

\* A replacement is over, having done what was left.
LEMMA ReplacingEnds ==
  ASSUME DriverInv, NEW w \in Replacing, NEW job, work' = [work EXCEPT ![w] = job],
         job.op \notin {"fill", "schedule"},
         torn' \/ (~torn /\ wanted' = wanted /\ slots' = slots \cup work[w].left)
  PROVE  OneReplaces'
<1>1. /\ w \in Workers /\ work'[w] = job /\ \A v \in Workers : v # w => work'[v] = work[v]
  BY DEF DriverInv, DriverTypes, Replacing
<1>2. Replacing' = Replacing \ {w}
  BY <1>1 DEF Replacing
<1>3. ASSUME ~torn, wanted' = wanted, slots' = slots \cup work[w].left
      PROVE  Replacing' = {} /\ slots' = wanted'
  <2>1. Replacing = {w} /\ work[w].left \subseteq wanted /\ slots = wanted \ work[w].left
    BY <1>3 DEF DriverInv, OneReplaces
  <2> QED BY <1>2, <1>3, <2>1
<1> QED BY <1>3 DEF OneReplaces

LEMMA StepSlotsDeleted ==
  ASSUME DriverInv, NEW w \in Workers, NEW days \in SUBSET Days, SlotsDeleted(w, days) PROVE DriverInv'
<1> DEFINE j == work[w]
           job == [op |-> "fill", phase |-> 3, draft |-> j.draft, answers |-> j.answers, left |-> days]
<1>1. j.op = "clear" /\ Fits(j, answers, papers)
  BY DEF SlotsDeleted, Doing, DriverInv, DriverWork
<1>2. /\ j \in PhaseJobs /\ answers[j.draft] # None /\ Supported(j.answers, papers)
      /\ j.phase = 3 /\ (j.phase = 1 \/ j.phase - 1 \in j.answers)
  BY <1>1 DEF Fits, PhaseOps, Reached
<1>3. /\ job \in FillJobs /\ job.op = "fill" /\ job.phase = 3 /\ job.draft = j.draft
      /\ job.answers = j.answers /\ job.left = days
  BY <1>2 DEF FillJobs, PhaseJobs
<1>4. /\ work' = [work EXCEPT ![w] = job] /\ slots' = {} /\ wanted' = days /\ torn' = (Replacing # {})
      /\ UNCHANGED <<answers, newest, papers>>
  BY DEF SlotsDeleted, Starts
<1> HIDE DEF job
<1>5. Fits(job, answers, papers)
  <2>1. Reached("fill", 3, papers)
    BY DEF Reached
  <2> QED BY <1>2, <1>3, <2>1 DEF Fits, PhaseOps
<1>6. OneReplaces'
  BY <1>1, <1>3, <1>4, ReplacingBegins
<1> QED BY <1>4, <1>5, <1>6, PhaseStep

LEMMA StepSlotCreated ==
  ASSUME DriverInv, NEW w \in Workers, NEW day \in Days, SlotCreated(w, day) PROVE DriverInv'
<1> DEFINE j == work[w]
           job == [j EXCEPT !.left = @ \ {day}]
           idle == Idle
<1>1. j.op = "fill" /\ Fits(j, answers, papers) /\ w \in Replacing /\ day \in j.left
  BY DEF SlotCreated, Doing, DriverInv, DriverWork, Replacing
<1>2. /\ j \in FillJobs /\ answers[j.draft] # None /\ Supported(j.answers, papers)
      /\ j.phase = 1 \/ j.phase - 1 \in j.answers
      /\ Reached(j.op, j.phase, papers)
  BY <1>1 DEF Fits
<1>3. UNCHANGED <<answers, newest, papers, wanted>> /\ torn' = (torn \/ day \in slots)
  BY DEF SlotCreated
<1>4. CASE day \in slots
  <2>1. work' = [work EXCEPT ![w] = idle] /\ slots' = slots /\ torn'
    BY <1>3, <1>4 DEF SlotCreated, Ends
  <2>2. idle.op \notin {"fill", "schedule"} /\ Fits(idle, answers, papers)
    BY IdleDriver, IdleFits
  <2> HIDE DEF idle
  <2>3. OneReplaces'
    BY <1>1, <2>1, <2>2, ReplacingEnds
  <2> QED BY <1>3, <2>1, <2>2, <2>3, PhaseStep
<1>5. CASE day \notin slots
  <2>1. work' = [work EXCEPT ![w] = job] /\ slots' = slots \cup {day}
    BY <1>5 DEF SlotCreated, Starts
  <2>2. /\ job \in FillJobs /\ job.op = "fill" /\ job.phase = j.phase /\ job.draft = j.draft
        /\ job.answers = j.answers /\ job.left = j.left \ {day}
    BY <1>2 DEF FillJobs
  <2> HIDE DEF job
  <2>3. Fits(job, answers, papers)
    BY <1>1, <1>2, <2>2 DEF Fits, PhaseOps
  <2>4. work'[w] = job /\ \A v \in Workers : v # w => work'[v] = work[v]
    BY <2>1 DEF DriverInv, DriverTypes
  <2>5. Replacing' = Replacing
    BY <1>1, <2>2, <2>4 DEF Replacing
  <2>6. OneReplaces'
    <3> SUFFICES ASSUME ~torn'
                 PROVE  \A v \in Replacing :
                          Replacing = {v} /\ work'[v].left \subseteq wanted' /\ slots' = wanted' \ work'[v].left
      BY <1>1, <2>5 DEF OneReplaces
    <3>1. Replacing = {w} /\ j.left \subseteq wanted /\ slots = wanted \ j.left
      BY <1>1, <1>3 DEF DriverInv, OneReplaces
    <3>2. job.left \subseteq wanted /\ slots \cup {day} = wanted \ job.left
      BY <1>1, <2>2, <3>1
    <3> QED BY <1>3, <2>1, <2>4, <3>1, <3>2
  <2> QED BY <1>3, <2>1, <2>3, <2>6, PhaseStep
<1> QED BY <1>4, <1>5

LEMMA StepBagSaves == ASSUME DriverInv, NEW w \in Workers, BagSaves(w) PROVE DriverInv'
<1> DEFINE j == work[w]
           job == [op |-> "answer", phase |-> 3, draft |-> j.draft, answers |-> j.answers]
<1>1. j.op = "fill" /\ Fits(j, answers, papers) /\ w \in Replacing /\ j.left = {}
  BY DEF BagSaves, Doing, DriverInv, DriverWork, Replacing
<1>2. /\ j \in FillJobs /\ answers[j.draft] # None /\ Supported(j.answers, papers)
      /\ j.phase = 3 /\ (j.phase = 1 \/ j.phase - 1 \in j.answers)
  BY <1>1 DEF Fits, Reached
<1>3. /\ job \in PhaseJobs /\ job.op = "answer" /\ job.phase = 3 /\ job.draft = j.draft
      /\ job.answers = j.answers
  BY <1>2 DEF FillJobs, PhaseJobs, PhaseOps
<1>4. /\ work' = [work EXCEPT ![w] = job] /\ papers' = papers \cup {"bag"}
      /\ UNCHANGED <<answers, newest, slots, wanted, torn>>
  BY DEF BagSaves, Starts, Puts
<1> HIDE DEF job
<1>5. Fits(job, answers, papers')
  <2>1. Reached("answer", 3, papers')
    BY <1>4 DEF Reached, Written
  <2>2. Supported(job.answers, papers')
    BY <1>2, <1>3, <1>4, SupportedMore
  <2> QED BY <1>2, <1>3, <2>1, <2>2 DEF Fits
<1>6. OneReplaces'
  BY <1>1, <1>3, <1>4, ReplacingEnds
<1> QED BY <1>4, <1>5, <1>6, PhaseStep

LEMMA StepScheduleDeleted ==
  ASSUME DriverInv, NEW w \in Workers, NEW days \in SUBSET Days, ScheduleDeleted(w, days) PROVE DriverInv'
<1> DEFINE job == [op |-> "schedule", left |-> days]
<1>1. work[w].op \notin {"fill", "schedule"}
  BY IdleDriver DEF ScheduleDeleted, Free
<1>2. job.op = "schedule" /\ job.left = days
  OBVIOUS
<1>3. /\ work' = [work EXCEPT ![w] = job] /\ slots' = {} /\ wanted' = days /\ torn' = (Replacing # {})
      /\ UNCHANGED <<answers, newest, papers>>
  BY DEF ScheduleDeleted, Starts
<1> HIDE DEF job
<1>4. Fits(job, answers, papers)
  BY <1>2 DEF Fits, PhaseOps
<1>5. OneReplaces'
  BY <1>1, <1>2, <1>3, ReplacingBegins
<1> QED BY <1>3, <1>4, <1>5, PhaseStep

\* A replacement ends, in either way.
LEMMA StepsThatEndReplacing ==
  ASSUME DriverInv, NEW w \in Workers, ScheduleCreated(w) \/ (DriverDies(w) /\ w \in Replacing) PROVE DriverInv'
<1> DEFINE idle == Idle
<1>1. w \in Replacing
  BY DEF ScheduleCreated, Doing, Replacing
<1>2. work' = [work EXCEPT ![w] = idle] /\ UNCHANGED <<answers, newest, papers, wanted>>
  BY DEF ScheduleCreated, DriverDies, Dies, Ends
<1>3. torn' \/ (~torn /\ slots' = slots \cup work[w].left)
  BY DEF ScheduleCreated, DriverDies
<1>4. idle.op \notin {"fill", "schedule"} /\ Fits(idle, answers, papers)
  BY IdleDriver, IdleFits
<1> HIDE DEF idle
<1>5. OneReplaces'
  BY <1>1, <1>2, <1>3, <1>4, ReplacingEnds
<1> QED BY <1>2, <1>4, <1>5, PhaseStep

LEMMA StepDriverDies == ASSUME DriverInv, NEW w \in Workers, DriverDies(w) PROVE DriverInv'
<1>1. CASE w \in Replacing
  BY <1>1, StepsThatEndReplacing
<1>2. CASE w \notin Replacing
  <2>1. /\ work[w].op \notin {"fill", "schedule"} /\ work' = [work EXCEPT ![w] = Idle]
        /\ UNCHANGED <<answers, newest, papers, slots, wanted>> /\ torn' = (torn \/ w \in Replacing)
    BY <1>2 DEF DriverDies, Dies, Ends, Replacing
  <2>2. torn' <=> torn
    BY <1>2, <2>1
  <2> DEFINE idle == Idle
  <2>3. idle.op \notin {"fill", "schedule"} /\ Fits(idle, answers, papers) /\ work' = [work EXCEPT ![w] = idle]
    BY <2>1, IdleDriver, IdleFits
  <2> HIDE DEF idle
  <2>4. work'[w] = idle /\ \A v \in Workers : v # w => work'[v] = work[v]
    BY <2>3 DEF DriverInv, DriverTypes
  <2>5. Replacing' = Replacing /\ \A v \in Replacing : work'[v] = work[v]
    BY <2>1, <2>3, <2>4 DEF Replacing
  <2>6. OneReplaces'
    BY <2>1, <2>2, <2>5 DEF DriverInv, OneReplaces
  <2> QED BY <2>1, <2>3, <2>6, PhaseStep
<1> QED BY <1>1, <1>2

\* Nothing of the phases changes; papers may come.
LEMMA DriverStays ==
  ASSUME DriverInv, papers \subseteq papers', UNCHANGED <<work, answers, newest, slots, wanted, torn>>
  PROVE  DriverInv'
<1>1. DriverTypes' /\ OneReplaces'
  BY DEF DriverInv, DriverTypes, OneReplaces, Replacing
<1>2. \A w \in Workers : Fits(work[w], answers, papers')
  BY FitsMore DEF DriverInv, DriverWork
<1>3. \A d \in Drafts : answers[d] # None => Supported(answers[d], papers')
  BY SupportedMore DEF DriverInv, DraftsHold
<1> QED BY <1>1, <1>2, <1>3 DEF DriverInv, DriverWork, DraftsHold

LEMMA NextDriver == DriverInv /\ [DriverNext]_DriverState => DriverInv'
<1> SUFFICES ASSUME DriverInv, [DriverNext]_DriverState PROVE DriverInv'
  OBVIOUS
<1>1. CASE PhasesNext(0 .. 4, Days)
  BY <1>1, StepDraftFound, StepDraftCreated, StepsOfPhases, StepBagSaves, StepAnswersSave, StepDriverDies,
     StepReferralApplied, StepSlotsDeleted, StepSlotCreated DEF PhasesNext
<1>2. CASE ScheduleNext
  BY <1>2, StepScheduleDeleted, StepsThatEndReplacing DEF ScheduleNext
<1>3. CASE ChecksNext
  <2>1. papers \subseteq papers' /\ UNCHANGED <<work, answers, newest, slots, wanted, torn>>
    BY <1>3 DEF ChecksNext, NinChecked, BvnChecked, BvnValidated, AccountChecked, FaceChecked, ApproveDriver, Puts
  <2> QED BY <2>1, DriverStays
<1>4. CASE UNCHANGED DriverState
  BY <1>4, DriverStays DEF DriverState, DriverVars
<1> QED BY <1>1, <1>2, <1>3, <1>4 DEF DriverNext

\* However phases overlap and requests die, a draft holds no phase without
\* the ones before it and everything they write, and the availability is what
\* the last replacement asked for (accounts/views/driver_reg_views.py,
\* driver_api/views.py:DriverAvailabilityView).
THEOREM PhasesAreBacked == DriverSpec => []PhasesHaveRecords
<1>1. RequestsInit /\ DriverStart => DriverInv
  BY InitDriver
<1>2. DriverInv /\ [DriverNext]_DriverState => DriverInv'
  BY NextDriver
<1>3. DriverInv => PhasesHaveRecords
  BY DEF DriverInv, DraftsHold, Supported, OneReplaces, PhasesHaveRecords
<1> QED BY <1>1, <1>2, <1>3, PTL DEF DriverSpec

-----------------------------------------------------------------------------
(* Onboarding: however phases and reviews overlap, menus are registered    *)
(* once per onboarding.                                                    *)
BusinessState == <<work, BusinessVars>>
BusinessNext == ApplyingNext(Businesses) \/ ReviewsNext
BusinessSpec == RequestsInit /\ BusinessInit /\ [][BusinessNext]_BusinessState

BusinessTypes ==
  /\ DOMAIN work = Workers
  /\ onboard \in StatusRows \cup {None}
  /\ owned \in Businesses \cup {None} /\ failed \subseteq Businesses
  /\ registered \in Nat /\ excess \in Nat

\* A status says that the onboarding is complete after it was.
TrueStatus(status, menus, own) == status.complete => menus > 0 /\ own # None

\* What a request remembers, given what there is now.
Recalls(j, status, own, menus, decided) ==
  /\ j.op \in {"first", "second", "third", "review"} => status # None
  /\ j.op = "second" => j.own \in Businesses /\ j.asks \in BOOLEAN
  /\ j.op = "third" => own # None /\ j.review \in BOOLEAN /\ j.complete = FALSE
  /\ j.op = "review" => j.status \in StatusRows /\ TrueStatus(j.status, menus, own)
  /\ j.op \in {"business", "papers"} => decided

BusinessWork == \A w \in Workers : Recalls(work[w], onboard, owned, registered, reviewed)

OwnedFirst == (owned # None => onboard # None) /\ (registered > 0 => onboard # None)

\* Each registration beyond the first is an excess, before the next as well.
RegisteredOnce ==
  /\ registered <= 1 + excess
  /\ onboard # None /\ ~onboard.complete => registered <= excess
  /\ onboard # None => TrueStatus(onboard, registered, owned)

ReviewIsDue == onboard # None => (onboard.review /\ ~reviewed => owned \in failed \ ready)

BusinessInv == BusinessTypes /\ BusinessWork /\ OwnedFirst /\ RegisteredOnce /\ ReviewIsDue

-----------------------------------------------------------------------------
LEMMA IdleApplicant == Idle.op \notin {"first", "second", "third", "review", "business", "papers"}
  BY DEF Idle

LEMMA StatusRow ==
  ASSUME NEW row \in StatusRows
  PROVE  row # None /\ row.complete \in BOOLEAN /\ row.review \in BOOLEAN /\ row.step \in 0 .. 3
  BY OnboardingAssumption DEF StatusRows

\* The fields that a save of some columns leaves alone.
LEMMA StatusStep ==
  ASSUME NEW row \in StatusRows, NEW s \in 0 .. 3
  PROVE  /\ [row EXCEPT !.step = s] \in StatusRows
         /\ [row EXCEPT !.step = s].complete = row.complete
         /\ [row EXCEPT !.step = s].review = row.review
  BY DEF StatusRows

LEMMA StatusReview ==
  ASSUME NEW row \in StatusRows, NEW r \in BOOLEAN
  PROVE  /\ [row EXCEPT !.review = r] \in StatusRows
         /\ [row EXCEPT !.review = r].complete = row.complete
         /\ [row EXCEPT !.review = r].review = r
  BY DEF StatusRows

LEMMA InitBusiness == RequestsInit /\ BusinessInit => BusinessInv
<1> SUFFICES ASSUME RequestsInit, BusinessInit PROVE BusinessInv
  OBVIOUS
<1>1. BusinessTypes
  BY DEF RequestsInit, BusinessInit, BusinessTypes
<1>2. BusinessWork
  BY IdleApplicant DEF RequestsInit, BusinessWork, Recalls
<1>3. OwnedFirst /\ RegisteredOnce /\ ReviewIsDue
  BY DEF BusinessInit, OwnedFirst, RegisteredOnce, ReviewIsDue
<1> QED BY <1>1, <1>2, <1>3 DEF BusinessInv

\* What was remembered stays true.
Grows ==
  /\ onboard # None => onboard' # None
  /\ owned # None => owned' # None
  /\ registered' \in Nat /\ registered <= registered'
  /\ reviewed => reviewed'

LEMMA SavedGrows ==
  ASSUME onboard # None => onboard' # None, owned # None => owned' # None,
         registered \in Nat, registered' = registered,
         NEW again, reviewed' = (reviewed \/ again) \/ reviewed' = reviewed
  PROVE  Grows
<1>1. registered' \in Nat /\ registered <= registered'
  OBVIOUS
<1>2. reviewed => reviewed'
  <2>1. CASE reviewed' = (reviewed \/ again)
    BY Zenon, <2>1
  <2>2. CASE reviewed' = reviewed
    BY Zenon, <2>2
  <2> QED BY Zenon, <2>1, <2>2
<1> QED BY Zenon, <1>1, <1>2 DEF Grows

LEMMA ApplicantTurns ==
  ASSUME BusinessInv, NEW w \in Workers, NEW job, work' = [work EXCEPT ![w] = job],
         Grows,
         Recalls(job, onboard', owned', registered', reviewed')
  PROVE  DOMAIN work' = Workers /\ BusinessWork'
<1>1. /\ DOMAIN work' = Workers
      /\ work'[w] = job /\ \A v \in Workers : v # w => work'[v] = work[v]
  BY DEF BusinessInv, BusinessTypes
<1>2. ASSUME NEW v \in Workers PROVE Recalls(work'[v], onboard', owned', registered', reviewed')
  <2>1. CASE v = w
    BY <1>1, <2>1
  <2>2. CASE v # w
    <3>1. Recalls(work[v], onboard, owned, registered, reviewed) /\ registered \in Nat
      BY DEF BusinessInv, BusinessWork, BusinessTypes
    <3> QED BY <1>1, <2>2, <3>1 DEF Recalls, TrueStatus, Grows
  <2> QED BY <2>1, <2>2
<1> QED BY <1>1, <1>2 DEF BusinessWork

LEMMA ApplicantFrees ==
  ASSUME BusinessInv, NEW w \in Workers, work' = [work EXCEPT ![w] = Idle],
         Grows
  PROVE  DOMAIN work' = Workers /\ BusinessWork'
<1> DEFINE job == Idle
<1>1. Recalls(job, onboard', owned', registered', reviewed') /\ work' = [work EXCEPT ![w] = job]
  BY IdleApplicant DEF Recalls
<1> HIDE DEF job
<1> QED BY <1>1, ApplicantTurns

\* Nothing that is kept changes.
LEMMA BusinessStays ==
  ASSUME BusinessInv, UNCHANGED <<onboard, owned, failed, registered, excess>>,
         reviewed => reviewed', reviewed' \/ (ready' = ready),
         DOMAIN work' = Workers /\ BusinessWork'
  PROVE  BusinessInv'
<1>1. BusinessTypes' /\ OwnedFirst' /\ RegisteredOnce'
  BY DEF BusinessInv, BusinessTypes, OwnedFirst, RegisteredOnce, TrueStatus
<1>2. ReviewIsDue'
  BY DEF BusinessInv, ReviewIsDue
<1> QED BY <1>1, <1>2 DEF BusinessInv

LEMMA ApplicantQuiet ==
  ASSUME BusinessInv, NEW w \in Workers, NEW job, work' = [work EXCEPT ![w] = job], UNCHANGED BusinessVars,
         Recalls(job, onboard, owned, registered, reviewed)
  PROVE  BusinessInv'
<1>1. /\ UNCHANGED <<onboard, owned, failed, registered, excess>> /\ reviewed' = reviewed /\ ready' = ready
      /\ registered \in Nat
  BY DEF BusinessVars, BusinessInv, BusinessTypes
<1>2. Grows
  BY <1>1 DEF Grows
<1>3. DOMAIN work' = Workers /\ BusinessWork'
  BY <1>1, <1>2, ApplicantTurns
<1> QED BY <1>1, <1>3, BusinessStays

-----------------------------------------------------------------------------
LEMMA StepRegistered == ASSUME BusinessInv, Registered PROVE BusinessInv'
<1> DEFINE row == [step |-> 0, complete |-> FALSE, review |-> FALSE]
<1>1. row \in StatusRows /\ row.complete = FALSE /\ row.review = FALSE
  BY DEF StatusRows
<1>2. /\ onboard = None /\ onboard' = row
      /\ UNCHANGED <<work, owned, created, ready, failed, located, registered, excess, reviewed>>
  BY DEF Registered
<1> HIDE DEF row
<1>3. row # None /\ owned = None /\ registered = 0
  <2>1. row # None
    BY <1>1, StatusRow
  <2>2. registered \in Nat /\ ~(registered > 0) /\ owned = None
    BY <1>2 DEF BusinessInv, OwnedFirst, BusinessTypes
  <2> QED BY <2>1, <2>2
<1>4. BusinessTypes'
  BY <1>1, <1>2 DEF BusinessInv, BusinessTypes
<1>5. BusinessWork'
  <2>1. ASSUME NEW w \in Workers PROVE Recalls(work[w], row, owned, registered, reviewed)
    BY <1>2, <1>3 DEF BusinessInv, BusinessWork, Recalls
  <2> QED BY <1>2, <2>1 DEF BusinessWork
<1>6. OwnedFirst' /\ ReviewIsDue'
  BY <1>1, <1>2, <1>3 DEF OwnedFirst, ReviewIsDue
<1>7. RegisteredOnce'
  BY <1>1, <1>2, <1>3 DEF BusinessInv, BusinessTypes, RegisteredOnce, TrueStatus
<1> QED BY <1>4, <1>5, <1>6, <1>7 DEF BusinessInv

\* A step of a phase that keeps whether the onboarding is complete.
LEMMA PhaseSaved ==
  ASSUME BusinessInv, NEW row \in StatusRows, onboard # None, onboard' = row, row.complete = onboard.complete,
         owned' \in Businesses, failed' \subseteq Businesses,
         UNCHANGED <<registered, excess>>,
         row.review /\ ~reviewed' => owned' \in failed' \ ready',
         DOMAIN work' = Workers /\ BusinessWork'
  PROVE  BusinessInv'
<1>1. row # None /\ owned' # None
  BY StatusRow, OnboardingAssumption
<1>2. BusinessTypes'
  BY DEF BusinessInv, BusinessTypes
<1>3. OwnedFirst' /\ ReviewIsDue'
  BY <1>1 DEF OwnedFirst, ReviewIsDue
<1>4. RegisteredOnce'
  BY <1>1 DEF BusinessInv, RegisteredOnce, TrueStatus
<1> QED BY <1>2, <1>3, <1>4 DEF BusinessInv

LEMMA StepPhase1Saves ==
  ASSUME BusinessInv, NEW w \in Workers, NEW b \in Businesses, Phase1Saves(w, b) PROVE BusinessInv'
<1> DEFINE row == [onboard EXCEPT !.step = 1]
           j == work[w]
<1>1. j.op = "first" /\ onboard \in StatusRows /\ onboard # None /\ registered \in Nat
  BY DEF Phase1Saves, Doing, BusinessInv, BusinessWork, BusinessTypes, Recalls
<1>2. row \in StatusRows /\ row.complete = onboard.complete /\ row.review = onboard.review /\ row # None
  <2>1. 1 \in 0 .. 3
    OBVIOUS
  <2>2. row \in StatusRows /\ row.complete = onboard.complete /\ row.review = onboard.review
    BY <1>1, <2>1, StatusStep
  <2> QED BY <2>2, StatusRow
<1>3. /\ work' = [work EXCEPT ![w] = Idle] /\ onboard' = row
      /\ UNCHANGED <<failed, registered, excess>>
  BY DEF Phase1Saves, Ends
<1> HIDE DEF row
<1>4. failed' \subseteq Businesses
  BY <1>3 DEF BusinessInv, BusinessTypes
<1>5. CASE j.own = None
  <2>1. owned' = b /\ reviewed' = (reviewed \/ owned # None) /\ ready' = ready
    BY <1>5 DEF Phase1Saves
  <2>2. b # None
    BY OnboardingAssumption
  <2>3. DOMAIN work' = Workers /\ BusinessWork'
    <3>1. Grows
      <4>1. (onboard # None => onboard' # None) /\ (owned # None => owned' # None) /\ registered' = registered
        BY <1>2, <1>3, <2>1, <2>2
      <4> QED BY <1>1, <2>1, <4>1, SavedGrows
    <3> QED BY <1>3, <3>1, ApplicantFrees
  <2>4. row.review /\ ~reviewed' => owned' \in failed' \ ready'
    <3>1. ASSUME row.review, ~reviewed' PROVE FALSE
      <4>1. owned = None /\ ~reviewed
        BY <2>1, <3>1
      <4>2. owned \in failed
        BY <1>1, <1>2, <3>1, <4>1 DEF BusinessInv, ReviewIsDue
      <4> QED BY <4>1, <4>2, OnboardingAssumption DEF BusinessInv, BusinessTypes
    <3> QED BY <3>1
  <2> QED BY <1>1, <1>2, <1>3, <1>4, <2>1, <2>3, <2>4, PhaseSaved
<1>6. CASE j.own # None
  <2>1. owned' = owned /\ reviewed' = (reviewed \/ ready' # ready)
    BY <1>6 DEF Phase1Saves
  <2>2. DOMAIN work' = Workers /\ BusinessWork'
    <3>1. Grows
      <4>1. (onboard # None => onboard' # None) /\ (owned # None => owned' # None) /\ registered' = registered
        BY <1>2, <1>3, <2>1
      <4> QED BY <1>1, <2>1, <4>1, SavedGrows
    <3> QED BY <1>3, <3>1, ApplicantFrees
  <2>3. row.review /\ ~reviewed' => owned' \in failed' \ ready'
    BY <1>1, <1>2, <1>3, <2>1 DEF BusinessInv, ReviewIsDue
  <2>4. BusinessTypes' /\ OwnedFirst'
    BY <1>2, <1>3, <2>1, <2>2 DEF BusinessInv, BusinessTypes, OwnedFirst
  <2>5. RegisteredOnce' /\ ReviewIsDue'
    BY <1>1, <1>2, <1>3, <2>1, <2>3 DEF BusinessInv, RegisteredOnce, TrueStatus, ReviewIsDue
  <2> QED BY <2>2, <2>4, <2>5 DEF BusinessInv
<1> QED BY <1>5, <1>6

LEMMA StepPhase2Saves ==
  ASSUME BusinessInv, NEW w \in Workers, NEW lists \in BOOLEAN, Phase2Saves(w, lists) PROVE BusinessInv'
<1> DEFINE b == work[w].own
           asks == work[w].asks
           stepped == [onboard EXCEPT !.step = 2]
           row == [stepped EXCEPT !.review = asks]
<1>1. /\ onboard \in StatusRows /\ onboard # None /\ registered \in Nat
      /\ b \in Businesses /\ asks \in BOOLEAN
  BY DEF Phase2Saves, Doing, BusinessInv, BusinessWork, BusinessTypes, Recalls
<1>2. row \in StatusRows /\ row.complete = onboard.complete /\ row.review = asks /\ row # None
  <2>1. 2 \in 0 .. 3
    OBVIOUS
  <2>2. stepped \in StatusRows /\ stepped.complete = onboard.complete
    BY <1>1, <2>1, StatusStep
  <2> HIDE DEF stepped, asks
  <2>3. row \in StatusRows /\ row.complete = stepped.complete /\ row.review = asks
    BY <1>1, <2>2, StatusReview
  <2> QED BY <2>2, <2>3, StatusRow
<1>3. /\ work' = [work EXCEPT ![w] = Idle] /\ onboard' = row
      /\ failed' = (IF asks THEN failed \cup {b} ELSE failed)
      /\ ready' = Put(ready, b, ~asks) /\ reviewed' = (reviewed \/ b # owned)
      /\ UNCHANGED <<owned, registered, excess>>
  BY DEF Phase2Saves, Ends, NeedsReview
<1> HIDE DEF row, b, asks
<1>4. DOMAIN work' = Workers /\ BusinessWork'
  <2>1. Grows
    <3>1. (onboard # None => onboard' # None) /\ (owned # None => owned' # None) /\ registered' = registered
      BY <1>2, <1>3
    <3> QED BY <1>1, <1>3, <3>1, SavedGrows
  <2> QED BY <1>3, <2>1, ApplicantFrees
<1>5. row.review /\ ~reviewed' => owned' \in failed' \ ready'
  BY <1>2, <1>3 DEF Put
<1>6. BusinessTypes' /\ OwnedFirst'
  BY <1>1, <1>2, <1>3, <1>4 DEF BusinessInv, BusinessTypes, OwnedFirst
<1>7. RegisteredOnce' /\ ReviewIsDue'
  BY <1>1, <1>2, <1>3, <1>5 DEF BusinessInv, RegisteredOnce, TrueStatus, ReviewIsDue
<1> QED BY <1>4, <1>6, <1>7 DEF BusinessInv

LEMMA StepPhase3Saves == ASSUME BusinessInv, NEW w \in Workers, Phase3Saves(w) PROVE BusinessInv'
<1> DEFINE j == work[w]
           row == [step |-> 3, complete |-> TRUE, review |-> j.review]
<1>1. /\ onboard \in StatusRows /\ onboard # None /\ owned # None
      /\ j.review \in BOOLEAN /\ j.complete = FALSE /\ registered \in Nat /\ excess \in Nat
  BY DEF Phase3Saves, Doing, BusinessInv, BusinessWork, BusinessTypes, Recalls
<1>2. row \in StatusRows /\ row.complete = TRUE /\ row.review = j.review
  BY <1>1 DEF StatusRows
<1>3. /\ work' = [work EXCEPT ![w] = Idle] /\ onboard' = row /\ registered' = registered + 1
      /\ excess' = (IF onboard.complete /\ ~j.complete THEN excess + 1 ELSE excess)
      /\ reviewed' = (reviewed \/ j.review # onboard.review)
      /\ UNCHANGED <<owned, ready, failed>>
  BY DEF Phase3Saves, Ends
<1> HIDE DEF row
<1>4. row # None /\ registered' \in Nat /\ registered <= registered' /\ excess' \in Nat
  <2>1. row # None
    BY <1>2, StatusRow
  <2> QED BY <1>1, <1>3, <2>1
<1>5. DOMAIN work' = Workers /\ BusinessWork'
  <2>1. Grows
    BY <1>1, <1>3, <1>4 DEF Grows
  <2> QED BY <1>3, <2>1, ApplicantFrees
<1>6. BusinessTypes' /\ OwnedFirst'
  BY <1>2, <1>3, <1>4, <1>5 DEF BusinessInv, BusinessTypes, OwnedFirst
<1>7. RegisteredOnce'
  <2>1. CASE onboard.complete
    <3>1. excess' = excess + 1 /\ registered <= 1 + excess
      BY <1>1, <1>3, <2>1 DEF BusinessInv, RegisteredOnce
    <3> QED BY <1>1, <1>2, <1>3, <3>1 DEF RegisteredOnce, TrueStatus
  <2>2. CASE ~onboard.complete
    <3>1. excess' = excess /\ registered <= excess
      BY <1>1, <1>3, <2>2 DEF BusinessInv, RegisteredOnce
    <3> QED BY <1>1, <1>2, <1>3, <3>1 DEF RegisteredOnce, TrueStatus
  <2> QED BY <2>1, <2>2
<1>8. ReviewIsDue'
  BY <1>1, <1>2, <1>3 DEF BusinessInv, ReviewIsDue
<1> QED BY <1>5, <1>6, <1>7, <1>8 DEF BusinessInv

LEMMA StepReviewSavesStatus ==
  ASSUME BusinessInv, NEW w \in Workers, NEW says \in BOOLEAN \cup {None}, ReviewSavesStatus(w, says)
  PROVE  BusinessInv'
<1> DEFINE j == work[w]
           review == IF says = None THEN j.status.review ELSE says
           row == [j.status EXCEPT !.review = review]
           job == [op |-> "business", own |-> j.own, ready |-> says = FALSE]
           idle == Idle
<1>1. /\ onboard \in StatusRows /\ onboard # None /\ j.status \in StatusRows
      /\ TrueStatus(j.status, registered, owned) /\ registered \in Nat /\ excess \in Nat
  BY DEF ReviewSavesStatus, Doing, BusinessInv, BusinessWork, BusinessTypes, Recalls
<1>2. review \in BOOLEAN
  BY <1>1, StatusRow
<1>3. /\ onboard' = row
      /\ excess' = (IF onboard.complete /\ ~j.status.complete THEN excess + 1 ELSE excess)
      /\ reviewed' /\ UNCHANGED <<owned, ready, failed, registered>>
      /\ work' = [work EXCEPT ![w] = idle] \/ work' = [work EXCEPT ![w] = job]
  BY DEF ReviewSavesStatus, Ends, Starts
<1> HIDE DEF review
<1>4. row \in StatusRows /\ row.complete = j.status.complete /\ row # None
  <2>1. row \in StatusRows /\ row.complete = j.status.complete
    BY <1>1, <1>2, StatusReview
  <2> QED BY <2>1, StatusRow
<1> HIDE DEF row
<1>5. DOMAIN work' = Workers /\ BusinessWork'
  <2>1. /\ Recalls(idle, onboard', owned', registered', reviewed')
        /\ Recalls(job, onboard', owned', registered', reviewed')
    BY <1>3, IdleApplicant DEF Recalls
  <2>2. Grows
    BY <1>1, <1>3, <1>4 DEF Grows
  <2> HIDE DEF idle, job
  <2> QED BY <1>3, <2>1, <2>2, ApplicantTurns
<1>6. excess' \in Nat
  BY <1>1, <1>3
<1>7. BusinessTypes' /\ OwnedFirst' /\ ReviewIsDue'
  BY <1>3, <1>4, <1>5, <1>6 DEF BusinessInv, BusinessTypes, OwnedFirst, ReviewIsDue
<1>8. RegisteredOnce'
  <2>1. CASE onboard.complete /\ ~j.status.complete
    <3>1. excess' = excess + 1 /\ registered <= 1 + excess
      BY <1>1, <1>3, <2>1 DEF BusinessInv, RegisteredOnce
    <3> QED BY <1>1, <1>3, <1>4, <2>1, <3>1 DEF RegisteredOnce, TrueStatus
  <2>2. CASE ~(onboard.complete /\ ~j.status.complete)
    <3>1. excess' = excess /\ registered <= 1 + excess
      BY <1>1, <1>3, <2>2 DEF BusinessInv, RegisteredOnce
    <3>2. ~row.complete => registered <= excess
      BY <1>1, <1>4, <2>2 DEF BusinessInv, RegisteredOnce
    <3> QED BY <1>1, <1>3, <1>4, <3>1, <3>2 DEF RegisteredOnce, TrueStatus
  <2> QED BY <2>1, <2>2
<1> QED BY <1>5, <1>7, <1>8 DEF BusinessInv

LEMMA StepReviewSavesBusiness == ASSUME BusinessInv, NEW w \in Workers, ReviewSavesBusiness(w) PROVE BusinessInv'
<1> DEFINE job == [op |-> "papers", own |-> work[w].own]
<1>1. reviewed /\ registered \in Nat
  BY DEF ReviewSavesBusiness, Doing, BusinessInv, BusinessWork, BusinessTypes, Recalls
<1>2. Recalls(job, onboard, owned, registered, reviewed)
  BY <1>1 DEF Recalls
<1>3. work' = [work EXCEPT ![w] = job] /\ UNCHANGED <<onboard, owned, failed, registered, excess, reviewed>>
  BY DEF ReviewSavesBusiness, Starts
<1> HIDE DEF job
<1>4. DOMAIN work' = Workers /\ BusinessWork'
  <2>1. Recalls(job, onboard', owned', registered', reviewed')
    BY <1>2, <1>3
  <2>2. Grows
    BY <1>1, <1>3 DEF Grows
  <2> QED BY <1>3, <2>1, <2>2, ApplicantTurns
<1> QED BY <1>1, <1>3, <1>4, BusinessStays

LEMMA StepReviewSavesPapers ==
  ASSUME BusinessInv, NEW w \in Workers, NEW passes \in BOOLEAN, ReviewSavesPapers(w, passes)
  PROVE  BusinessInv'
<1>1. reviewed /\ registered \in Nat
  BY DEF ReviewSavesPapers, Doing, BusinessInv, BusinessWork, BusinessTypes, Recalls
<1>2. /\ work' = [work EXCEPT ![w] = Idle] /\ failed' \subseteq failed
      /\ UNCHANGED <<onboard, owned, ready, registered, excess, reviewed>>
  BY DEF ReviewSavesPapers, Ends
<1>3. DOMAIN work' = Workers /\ BusinessWork'
  <2>1. Grows
    BY <1>1, <1>2 DEF Grows
  <2> QED BY <1>2, <2>1, ApplicantFrees
<1>4. BusinessTypes' /\ OwnedFirst' /\ RegisteredOnce'
  BY <1>2, <1>3 DEF BusinessInv, BusinessTypes, OwnedFirst, RegisteredOnce, TrueStatus
<1>5. ReviewIsDue'
  BY <1>1, <1>2 DEF ReviewIsDue
<1> QED BY <1>3, <1>4, <1>5 DEF BusinessInv

LEMMA StepRecorded == ASSUME BusinessInv, Recorded PROVE BusinessInv'
<1>1. /\ failed' = failed \cup {owned} /\ owned # None
      /\ UNCHANGED <<work, onboard, owned, ready, registered, excess, reviewed>>
  BY DEF Recorded
<1>2. BusinessWork' /\ BusinessTypes' /\ OwnedFirst' /\ RegisteredOnce'
  BY <1>1 DEF BusinessInv, BusinessWork, BusinessTypes, OwnedFirst, RegisteredOnce, TrueStatus
<1>3. ReviewIsDue'
  BY <1>1 DEF BusinessInv, ReviewIsDue
<1> QED BY <1>2, <1>3 DEF BusinessInv

LEMMA StepAdminSetsReady ==
  ASSUME BusinessInv, NEW b \in Businesses, NEW on \in BOOLEAN, AdminSetsReady(b, on) PROVE BusinessInv'
<1>1. reviewed' = TRUE /\ UNCHANGED <<work, onboard, owned, failed, registered, excess>>
  BY DEF AdminSetsReady
<1>2. BusinessWork' /\ DOMAIN work' = Workers
  BY <1>1 DEF BusinessInv, BusinessTypes, BusinessWork, Recalls
<1> QED BY <1>1, <1>2, BusinessStays

LEMMA StepsThatLoad ==
  ASSUME BusinessInv, NEW w \in Workers,
         \/ Phase1Reads(w) \/ Phase3Reads(w) \/ ReviewLoads(w) \/ ApplicantDies(w)
         \/ \E asks \in BOOLEAN : Phase2Reads(w, asks)
  PROVE  BusinessInv'
<1>1. onboard # None => onboard \in StatusRows
  BY DEF BusinessInv, BusinessTypes
<1>2. CASE Phase1Reads(w)
  <2> DEFINE job == [op |-> "first", own |-> owned, ready |-> owned \in ready]
  <2>1. Recalls(job, onboard, owned, registered, reviewed)
    BY <1>2 DEF Phase1Reads, Recalls
  <2>2. work' = [work EXCEPT ![w] = job] /\ UNCHANGED BusinessVars
    BY <1>2 DEF Phase1Reads, Starts
  <2> HIDE DEF job
  <2> QED BY <2>1, <2>2, ApplicantQuiet
<1>3. CASE Phase3Reads(w)
  <2> DEFINE job == [op |-> "third", review |-> onboard.review, complete |-> onboard.complete]
  <2>1. owned # None /\ onboard # None /\ onboard.review \in BOOLEAN /\ onboard.complete = FALSE
    BY <1>1, <1>3, StatusRow DEF Phase3Reads, BusinessInv, OwnedFirst
  <2>2. Recalls(job, onboard, owned, registered, reviewed)
    BY <2>1 DEF Recalls
  <2>3. work' = [work EXCEPT ![w] = job] /\ UNCHANGED BusinessVars
    BY <1>3 DEF Phase3Reads, Starts
  <2> HIDE DEF job
  <2> QED BY <2>2, <2>3, ApplicantQuiet
<1>4. CASE ReviewLoads(w)
  <2> DEFINE job == [op |-> "review", status |-> onboard, own |-> owned]
  <2>1. onboard # None /\ TrueStatus(onboard, registered, owned)
    BY <1>4 DEF ReviewLoads, BusinessInv, RegisteredOnce
  <2>2. Recalls(job, onboard, owned, registered, reviewed)
    BY <1>1, <2>1 DEF Recalls
  <2>3. work' = [work EXCEPT ![w] = job] /\ UNCHANGED BusinessVars
    BY <1>4 DEF ReviewLoads, Starts
  <2> HIDE DEF job
  <2> QED BY <2>2, <2>3, ApplicantQuiet
<1>5. CASE ApplicantDies(w)
  <2> DEFINE job == Idle
  <2>1. Recalls(job, onboard, owned, registered, reviewed)
    BY IdleApplicant DEF Recalls
  <2>2. work' = [work EXCEPT ![w] = job] /\ UNCHANGED BusinessVars
    BY <1>5 DEF ApplicantDies, Dies, Ends
  <2> HIDE DEF job
  <2> QED BY <2>1, <2>2, ApplicantQuiet
<1>6. ASSUME NEW asks \in BOOLEAN, Phase2Reads(w, asks) PROVE BusinessInv'
  <2> DEFINE job == [op |-> "second", own |-> owned, asks |-> asks]
  <2>1. owned \in Businesses /\ onboard # None
    BY <1>6 DEF Phase2Reads, BusinessInv, BusinessTypes, OwnedFirst
  <2>2. Recalls(job, onboard, owned, registered, reviewed)
    BY <2>1 DEF Recalls
  <2>3. work' = [work EXCEPT ![w] = job] /\ UNCHANGED BusinessVars
    BY <1>6 DEF Phase2Reads, Starts
  <2> HIDE DEF job
  <2> QED BY <2>2, <2>3, ApplicantQuiet
<1> QED BY <1>2, <1>3, <1>4, <1>5, <1>6

LEMMA NextBusiness == BusinessInv /\ [BusinessNext]_BusinessState => BusinessInv'
<1> SUFFICES ASSUME BusinessInv, [BusinessNext]_BusinessState PROVE BusinessInv'
  OBVIOUS
<1>1. CASE ApplyingNext(Businesses)
  BY <1>1, StepRegistered, StepsThatLoad, StepPhase3Saves, StepPhase1Saves, StepPhase2Saves, StepRecorded
     DEF ApplyingNext, TinChecked, RcChecked, BusinessBvnChecked
<1>2. CASE ReviewsNext
  BY <1>2, StepsThatLoad, StepReviewSavesBusiness, StepReviewSavesStatus, StepReviewSavesPapers,
     StepAdminSetsReady DEF ReviewsNext
<1>3. CASE UNCHANGED BusinessState
  <2>1. UNCHANGED <<work, onboard, owned, failed, ready, registered, excess, reviewed>>
    BY <1>3 DEF BusinessState, BusinessVars
  <2>2. BusinessWork' /\ DOMAIN work' = Workers
    BY <2>1 DEF BusinessInv, BusinessTypes, BusinessWork
  <2> QED BY <2>1, <2>2, BusinessStays
<1> QED BY <1>1, <1>2, <1>3 DEF BusinessNext

\* However phases and reviews overlap, menus are registered once but for the
\* excess that is counted, a complete onboarding has its menus, and a
\* business is flagged for review only with a failed check, not ready, unless
\* someone decided otherwise (menu/views/registration.py,
\* accounts/views/business_reg_views.py, verification/serializers.py).
THEOREM BusinessesAreOnboardedOnce == BusinessSpec => []OnboardedOnce
<1>1. RequestsInit /\ BusinessInit => BusinessInv
  BY InitBusiness
<1>2. BusinessInv /\ [BusinessNext]_BusinessState => BusinessInv'
  BY NextBusiness
<1>3. BusinessInv => OnboardedOnce
  BY DEF BusinessInv, BusinessTypes, OwnedFirst, RegisteredOnce, ReviewIsDue, TrueStatus, OnboardedOnce
<1> QED BY <1>1, <1>2, <1>3, PTL DEF BusinessSpec

-----------------------------------------------------------------------------
(* Realtime: what connections know of the changes, and whether a driver    *)
(* that orders are matched with has one.                                   *)
RealtimeState == <<work, RealtimeVars>>
RealtimeNext == WatchingNext(Sockets) \/ PresenceNext
RealtimeSpec == RequestsInit /\ RealtimeInit /\ [][RealtimeNext]_RealtimeState

WatchStages == {"new", "joining", "joined", "open", "closed"}
GroupLists == {q \in Seq(Kinds) : Len(q) > 0}    \* the groups to be told
WatchJobs ==
  {Idle, [op |-> "clean"]} \cup
  [op : {"announce"}, change : Nat, left : GroupLists]

\* What the steps read has its type; the bound on changes does not matter.
WatchTypes ==
  /\ work \in [Workers -> WatchJobs]
  /\ kind \in [Sockets -> Kinds]
  /\ changes \in [Topics -> Nat] /\ announced \in [Kinds -> Nat]
  /\ members \in [Kinds -> SUBSET Sockets]
  /\ stage \in [Sockets -> WatchStages]
  /\ inbox \in [Sockets -> Seq(Nat)] /\ seen \in [Sockets -> Nat]

\* A change is saved before any group is told of it.
SavedFirst ==
  /\ \A g \in Kinds : announced[g] <= changes[TopicOf(g)]
  /\ \A w \in Workers : Doing(w, "announce") =>
       \A i \in 1 .. Len(work[w].left) : work[w].change <= changes[TopicOf(work[w].left[i])]

\* A connection is only in groups that are told of what its snapshot shows,
\* and is open only once it has joined all of them.
OwnTopic ==
  /\ \A s \in Sockets, g \in Kinds : s \in members[g] => TopicOf(g) = TopicOf(kind[s])
  /\ \A s \in Sockets : stage[s] = "joining" => kind[s] \in {"branch", "admin"}

\* The inductive form of NothingMissed: what an open connection was not told
\* of is in its inbox.
ToldOrWaiting ==
  \A s \in Sockets, g \in Kinds : stage[s] = "open" /\ s \in members[g] =>
     \/ seen[s] >= announced[g]
     \/ \E i \in 1 .. Len(inbox[s]) : inbox[s][i] >= announced[g]

WatchInv == WatchTypes /\ SavedFirst /\ OwnTopic /\ ToldOrWaiting

-----------------------------------------------------------------------------
LEMMA LargerOfTwo ==
  ASSUME NEW m \in Nat, NEW n \in Nat
  PROVE  Max({m, n}) = IF m >= n THEN m ELSE n
<1> DEFINE top == IF m >= n THEN m ELSE n
<1>1. top \in {m, n} /\ \A y \in {m, n} : top >= y
  OBVIOUS
<1>2. \A x \in {m, n} : (\A y \in {m, n} : x >= y) => x = top
  OBVIOUS
<1>3. Max({m, n}) \in {m, n} /\ \A y \in {m, n} : Max({m, n}) >= y
  BY <1>1, Zenon DEF Max
<1> QED BY <1>2, <1>3

LEMMA TailOf ==
  ASSUME NEW q \in GroupLists, Len(q) # 1
  PROVE  /\ Tail(q) \in GroupLists /\ Len(Tail(q)) = Len(q) - 1
         /\ \A i \in 1 .. Len(Tail(q)) : Tail(q)[i] = q[i + 1]
<1>1. q \in Seq(Kinds) /\ Len(q) > 0 /\ Len(q) \in Nat
  BY DEF GroupLists
<1>2. /\ Tail(q) \in Seq(Kinds) /\ Len(Tail(q)) = Len(q) - 1
      /\ \A i \in 1 .. Len(Tail(q)) : Tail(q)[i] = q[i + 1]
  BY <1>1
<1>3. Len(Tail(q)) > 0
  BY <1>1, <1>2
<1> QED BY <1>2, <1>3 DEF GroupLists

LEMMA Audience ==
  ASSUME NEW a \in Audiences \cup {<<"order">>, <<"order", "admin">>}
  PROVE  /\ a \in GroupLists
         /\ \A i \in 1 .. Len(a) : TopicOf(a[i]) = "order"
<1> DEFINE Good(b) == b \in GroupLists /\ \A i \in 1 .. Len(b) : TopicOf(b[i]) = "order"
<1>1. Good(<<"admin">>)
  BY DEF TopicOf, Kinds, GroupLists
<1>2. Good(<<"order">>)
  BY DEF TopicOf, Kinds, GroupLists
<1>3. Good(<<"order", "branch">>)
  BY DEF TopicOf, Kinds, GroupLists
<1>4. Good(<<"order", "admin">>)
  BY DEF TopicOf, Kinds, GroupLists
<1>5. Good(<<"order", "branch", "driver">>)
  BY DEF TopicOf, Kinds, GroupLists
<1>6. Good(<<"order", "admin", "driver">>)
  BY DEF TopicOf, Kinds, GroupLists
<1>7. Good(<<"order", "branch", "admin", "driver">>)
  BY DEF TopicOf, Kinds, GroupLists
<1> HIDE DEF Good
<1>8. Good(a)
  BY <1>1, <1>2, <1>3, <1>4, <1>5, <1>6, <1>7, Zenon DEF Audiences
<1> QED BY <1>8 DEF Good

LEMMA InitWatch == RequestsInit /\ RealtimeInit => WatchInv
  BY DEF RequestsInit, RealtimeInit, WatchInv, WatchTypes, SavedFirst, OwnTopic, ToldOrWaiting,
         WatchJobs, WatchStages, Idle, Doing, TopicOf, Kinds, Topics

\* A change that is saved and will be announced.
LEMMA SavesWatch ==
  ASSUME WatchInv, NEW w \in Workers, NEW topic \in Topics, NEW a \in GroupLists,
         \A i \in 1 .. Len(a) : TopicOf(a[i]) = topic,
         Saves(w, topic, a)
  PROVE  WatchInv'
<1> USE DEF WatchInv, WatchTypes
<1>1. /\ changes' = [changes EXCEPT ![topic] = changes[topic] + 1]
      /\ work' = [work EXCEPT ![w] = [op |-> "announce", change |-> changes'[topic], left |-> a]]
      /\ UNCHANGED <<kind, members, stage, inbox, seen, announced>>
  BY DEF Saves, Starts
<1>2. changes' \in [Topics -> Nat] /\ \A t \in Topics : changes'[t] >= changes[t]
  BY <1>1
<1>3. WatchTypes'
  BY <1>1, <1>2 DEF WatchJobs
<1>4. \A g \in Kinds : TopicOf(g) \in Topics
  BY DEF TopicOf, Topics, Kinds
<1>5. SavedFirst'
  <2>1. \A g \in Kinds : announced'[g] <= changes'[TopicOf(g)]
    BY <1>1, <1>2, <1>4 DEF SavedFirst
  <2>2. ASSUME NEW v \in Workers, Doing(v, "announce")', NEW i \in 1 .. Len(work'[v].left)
        PROVE  work'[v].change <= changes'[TopicOf(work'[v].left[i])]
    <3>1. CASE v = w
      BY <1>1, <1>2, <2>2, <3>1
    <3>2. CASE v # w
      <4>1. work'[v] = work[v]
        BY <1>1, <3>2
      <4>2. work[v] \in [op : {"announce"}, change : Nat, left : GroupLists]
        BY <2>2, <4>1 DEF Doing, WatchJobs, Idle
      <4>3. work[v].left[i] \in Kinds /\ work[v].change \in Nat
        BY <2>2, <4>1, <4>2 DEF GroupLists
      <4> QED BY <1>2, <1>4, <2>2, <4>1, <4>3 DEF SavedFirst, Doing
    <3> QED BY <3>1, <3>2
  <2> QED BY <2>1, <2>2 DEF SavedFirst
<1>6. OwnTopic' /\ ToldOrWaiting'
  BY <1>1 DEF OwnTopic, ToldOrWaiting
<1> QED BY <1>3, <1>5, <1>6

LEMMA AnnouncesWatch ==
  ASSUME WatchInv, NEW w \in Workers, Announces(w)
  PROVE  WatchInv'
<1> DEFINE j == work[w]
           group == Head(j.left)
           rest == [op |-> "announce", change |-> j.change, left |-> Tail(j.left)]
           heard == {s \in members[group] : stage[s] # "closed"}
<1> USE DEF WatchInv, WatchTypes
<1>1. j \in [op : {"announce"}, change : Nat, left : GroupLists]
  BY DEF Announces, Doing, WatchJobs, Idle
<1>2. group \in Kinds /\ group = j.left[1] /\ Len(j.left) >= 1 /\ j.change \in Nat
  BY <1>1 DEF GroupLists
<1>3. /\ inbox' = [s \in Sockets |-> IF s \in heard THEN Append(inbox[s], j.change) ELSE inbox[s]]
      /\ announced' = [announced EXCEPT ![group] =
                         IF announced[group] >= j.change THEN announced[group] ELSE j.change]
      /\ UNCHANGED <<kind, changes, members, stage, seen>>
  BY <1>2, LargerOfTwo DEF Announces
<1>4. \/ work' = [work EXCEPT ![w] = Idle]
      \/ Len(j.left) # 1 /\ work' = [work EXCEPT ![w] = rest]
  BY <1>1, <1>2, TailOf DEF Announces, Starts, Ends
<1>5. Len(j.left) # 1 =>
        /\ Tail(j.left) \in GroupLists
        /\ Len(Tail(j.left)) = Len(j.left) - 1
        /\ \A i \in 1 .. Len(Tail(j.left)) : Tail(j.left)[i] = j.left[i + 1]
  <2>1. j.left \in GroupLists
    BY <1>1
  <2> HIDE DEF j
  <2> QED BY <2>1, TailOf
<1>6. WatchTypes'
  <2>1. work' \in [Workers -> WatchJobs]
    <3>1. Idle \in WatchJobs
      BY DEF WatchJobs
    <3>2. Len(j.left) # 1 => rest \in WatchJobs
      BY <1>2, <1>5 DEF WatchJobs
    <3> QED BY <1>4, <3>1, <3>2
  <2>2. inbox' \in [Sockets -> Seq(Nat)] /\ announced' \in [Kinds -> Nat]
    BY <1>2, <1>3
  <2> QED BY <1>3, <2>1, <2>2
<1>7. SavedFirst'
  <2>1. j.change <= changes[TopicOf(group)]
    <3>1. Doing(w, "announce") /\ SavedFirst
      BY DEF Announces
    <3> HIDE DEF WatchInv, WatchTypes
    <3>2. \A i \in 1 .. Len(j.left) : j.change <= changes[TopicOf(j.left[i])]
      BY <3>1 DEF SavedFirst
    <3>3. 1 \in 1 .. Len(j.left) /\ group = j.left[1]
      BY <1>1, <1>2
    <3> QED BY <3>2, <3>3
  <2>2. \A g \in Kinds : announced'[g] <= changes'[TopicOf(g)]
    BY <1>2, <1>3, <2>1 DEF SavedFirst
  <2>3. ASSUME NEW v \in Workers, Doing(v, "announce")', NEW i \in 1 .. Len(work'[v].left)
        PROVE  work'[v].change <= changes'[TopicOf(work'[v].left[i])]
    <3>1. CASE v = w
      <4>1. Len(j.left) # 1 /\ work'[w] = rest
        <5>1. work'[w] # Idle
          BY <2>3, <3>1 DEF Doing, Idle
        <5> QED BY <1>4, <5>1
      <4>2. work'[w].change = j.change /\ work'[w].left = Tail(j.left)
        BY <1>1, <4>1
      <4>3. i + 1 \in 1 .. Len(j.left) /\ work'[w].left[i] = j.left[i + 1]
        BY <1>5, <2>3, <3>1, <4>1, <4>2
      <4> QED BY <1>3, <3>1, <4>2, <4>3 DEF SavedFirst, Announces
    <3>2. CASE v # w
      BY <1>3, <1>4, <2>3, <3>2 DEF SavedFirst, Doing
    <3> QED BY <3>1, <3>2
  <2> QED BY <2>2, <2>3 DEF SavedFirst
<1>8. OwnTopic'
  BY <1>3 DEF OwnTopic
<1>9. ToldOrWaiting'
  <2> SUFFICES ASSUME NEW s \in Sockets, NEW g \in Kinds, stage[s] = "open", s \in members[g]
               PROVE  \/ seen[s] >= announced'[g]
                      \/ \E i \in 1 .. Len(inbox'[s]) : inbox'[s][i] >= announced'[g]
    BY <1>3 DEF ToldOrWaiting
  <2>1. \A i \in 1 .. Len(inbox[s]) : i \in 1 .. Len(inbox'[s]) /\ inbox'[s][i] = inbox[s][i]
    BY <1>2, <1>3
  <2>2. CASE g = group /\ announced'[g] = j.change
    <3>1. inbox'[s] = Append(inbox[s], j.change)
      BY <1>3, <2>2
    <3>2. /\ Len(inbox'[s]) = Len(inbox[s]) + 1 /\ inbox'[s][Len(inbox[s]) + 1] = j.change
          /\ Len(inbox[s]) \in Nat
      BY <1>2, <3>1
    <3> QED BY <1>2, <2>2, <3>2
  <2>3. CASE announced'[g] = announced[g]
    BY <2>1, <2>3 DEF ToldOrWaiting
  <2> QED BY <1>2, <1>3, <2>2, <2>3
<1> QED BY <1>6, <1>7, <1>8, <1>9

\* Only connections step.
LEMMA SameSaved ==
  ASSUME WatchInv, UNCHANGED <<work, changes, announced>>
  PROVE  SavedFirst'
  BY DEF WatchInv, SavedFirst, Doing

LEMMA RefusedWatch ==
  ASSUME WatchInv, NEW s \in Sockets, Refused(s)
  PROVE  WatchInv'
<1>1. SavedFirst'
  BY SameSaved DEF Refused
<1> QED BY <1>1 DEF Refused, WatchInv, WatchTypes, WatchStages, OwnTopic, ToldOrWaiting

LEMMA LetInWatch ==
  ASSUME WatchInv, NEW s \in Sockets, NEW consumer \in Kinds, NEW next \in {"joining", "joined"},
         next = "joining" => consumer \in {"branch", "admin"},
         LetIn(s, consumer, next)
  PROVE  WatchInv'
<1>1. SavedFirst'
  BY SameSaved DEF LetIn
<1>2. WatchTypes'
  BY DEF LetIn, Joined, WatchInv, WatchTypes, WatchStages
<1>3. OwnTopic'
  BY DEF LetIn, Joined, WatchInv, WatchTypes, OwnTopic
<1>4. ToldOrWaiting'
  BY DEF LetIn, Joined, WatchInv, WatchTypes, ToldOrWaiting
<1> QED BY <1>1, <1>2, <1>3, <1>4 DEF WatchInv

LEMMA ConnectsWatch ==
  ASSUME WatchInv, NEW s \in Sockets, Connects(s)
  PROVE  WatchInv'
  BY RefusedWatch, LetInWatch
     DEF Connects, OrderConnects, ChatConnects, DriverConnects, BranchConnects, AdminConnects, Kinds

LEMMA JoinsWatch ==
  ASSUME WatchInv, NEW s \in Sockets, NEW active \in BOOLEAN, JoinsOrders(s, active)
  PROVE  WatchInv'
<1>1. SavedFirst'
  BY SameSaved DEF JoinsOrders
<1>2. "order" \in Kinds
  BY DEF Kinds
<1>3. /\ members' = members \/ members' = [members EXCEPT !["order"] = @ \cup {s}]
      /\ stage[s] = "joining" /\ stage' = [stage EXCEPT ![s] = "joined"]
      /\ UNCHANGED <<work, kind, changes, inbox, seen, announced>>
  BY Zenon DEF JoinsOrders, Joined
<1>4. members' \in [Kinds -> SUBSET Sockets]
  <2>1. members \in [Kinds -> SUBSET Sockets] /\ members["order"] \cup {s} \in SUBSET Sockets
    BY <1>2 DEF WatchInv, WatchTypes
  <2> QED BY <1>3, <2>1
<1>5. \A r \in Sockets, g \in Kinds : r \in members'[g] =>
        r \in members[g] \/ (r = s /\ g = "order" /\ kind[s] \in {"branch", "admin"})
  BY <1>2, <1>3 DEF WatchInv, WatchTypes, OwnTopic
<1>6. WatchTypes'
  BY <1>3, <1>4 DEF WatchInv, WatchTypes, WatchStages
<1>7. OwnTopic'
  BY <1>3, <1>5 DEF WatchInv, WatchTypes, OwnTopic, TopicOf
<1>8. ToldOrWaiting'
  BY <1>3, <1>5 DEF WatchInv, WatchTypes, ToldOrWaiting
<1> QED BY <1>1, <1>6, <1>7, <1>8 DEF WatchInv

\* A snapshot shows all that was announced to the groups joined before.
LEMMA SnapshotTells ==
  ASSUME WatchInv, NEW s \in Sockets
  PROVE  /\ changes[TopicOf(kind[s])] \in Nat
         /\ \A g \in Kinds : s \in members[g] => changes[TopicOf(kind[s])] >= announced[g]
<1>1. kind[s] \in Kinds /\ \A g \in Kinds : TopicOf(g) \in Topics
  BY DEF WatchInv, WatchTypes, TopicOf, Topics, Kinds
<1> QED BY <1>1 DEF WatchInv, WatchTypes, SavedFirst, OwnTopic

LEMMA SnapshotWatch ==
  ASSUME WatchInv, NEW s \in Sockets, Snapshot(s)
  PROVE  WatchInv'
<1>1. SavedFirst'
  BY SameSaved DEF Snapshot
<1>2. WatchTypes' /\ OwnTopic'
  BY SnapshotTells DEF Snapshot, WatchInv, WatchTypes, WatchStages, OwnTopic
<1>3. ToldOrWaiting'
  BY SnapshotTells DEF Snapshot, WatchInv, WatchTypes, ToldOrWaiting
<1> QED BY <1>1, <1>2, <1>3 DEF WatchInv

LEMMA ReadsWatch ==
  ASSUME WatchInv, NEW s \in Sockets, NEW consumer, Reads(s, consumer)
  PROVE  WatchInv'
<1>1. SavedFirst'
  BY SameSaved DEF Reads
<1>2. WatchTypes' /\ OwnTopic'
  BY SnapshotTells DEF Reads, WatchInv, WatchTypes, OwnTopic
<1>3. ToldOrWaiting'
  BY SnapshotTells DEF Reads, WatchInv, WatchTypes, ToldOrWaiting
<1> QED BY <1>1, <1>2, <1>3 DEF WatchInv

LEMMA HandlesWatch ==
  ASSUME WatchInv, NEW s \in Sockets, Handles(s)
  PROVE  WatchInv'
<1> DEFINE q == inbox[s]
<1>1. q \in Seq(Nat) /\ q # <<>> /\ seen[s] \in Nat
  BY DEF Handles, WatchInv, WatchTypes
<1>2. /\ Head(q) \in Nat /\ Head(q) = q[1] /\ Tail(q) \in Seq(Nat)
      /\ Len(q) \in Nat /\ Len(Tail(q)) = Len(q) - 1
      /\ \A i \in 1 .. Len(Tail(q)) : Tail(q)[i] = q[i + 1]
  BY <1>1
<1>3. /\ seen' = [seen EXCEPT ![s] = IF seen[s] >= q[1] THEN seen[s] ELSE q[1]]
      /\ inbox' = [inbox EXCEPT ![s] = Tail(q)]
      /\ UNCHANGED <<work, kind, changes, members, stage, announced>>
  BY <1>1, <1>2, LargerOfTwo DEF Handles
<1>4. SavedFirst'
  BY <1>3, SameSaved
<1>5. WatchTypes' /\ OwnTopic'
  BY <1>1, <1>2, <1>3 DEF WatchInv, WatchTypes, OwnTopic
<1>6. ToldOrWaiting'
  <2> SUFFICES ASSUME NEW r \in Sockets, NEW g \in Kinds, stage[r] = "open", r \in members[g]
               PROVE  \/ seen'[r] >= announced[g]
                      \/ \E i \in 1 .. Len(inbox'[r]) : inbox'[r][i] >= announced[g]
    BY <1>3 DEF ToldOrWaiting
  <2>1. \/ seen[r] >= announced[g]
        \/ \E i \in 1 .. Len(inbox[r]) : inbox[r][i] >= announced[g]
    BY DEF WatchInv, ToldOrWaiting
  <2>2. CASE r # s
    BY <1>3, <2>1, <2>2 DEF WatchInv, WatchTypes
  <2>3. CASE r = s /\ seen[s] >= announced[g]
    BY <1>1, <1>2, <1>3, <2>3 DEF WatchInv, WatchTypes
  <2>4. ASSUME r = s, NEW i \in 1 .. Len(q), q[i] >= announced[g]
        PROVE  \/ seen'[r] >= announced[g]
               \/ \E k \in 1 .. Len(inbox'[r]) : inbox'[r][k] >= announced[g]
    <3>1. CASE i = 1
      BY <1>1, <1>2, <1>3, <2>4, <3>1 DEF WatchInv, WatchTypes
    <3>2. CASE i # 1
      <4>1. inbox'[r] = Tail(q)
        BY <1>3, <2>4 DEF WatchInv, WatchTypes
      <4> HIDE DEF q
      <4>2. i - 1 \in 1 .. Len(Tail(q)) /\ Tail(q)[i - 1] = q[i]
        <5>1. i - 1 \in 1 .. Len(Tail(q)) /\ (i - 1) + 1 = i
          BY <1>2, <2>4, <3>2
        <5> QED BY <1>2, <5>1
      <4>3. inbox'[r][i - 1] >= announced[g]
        BY <2>4, <4>1, <4>2
      <4> QED BY <4>1, <4>2, <4>3
    <3> QED BY <3>1, <3>2
  <2> QED BY <2>1, <2>2, <2>3, <2>4
<1> QED BY <1>4, <1>5, <1>6 DEF WatchInv

LEMMA DisconnectsWatch ==
  ASSUME WatchInv, NEW s \in Sockets, Disconnects(s)
  PROVE  WatchInv'
<1>1. SavedFirst'
  BY SameSaved DEF Disconnects
<1>2. \A g \in Kinds : members'[g] \subseteq members[g]
  BY DEF Disconnects, Leaves
<1>3. WatchTypes'
  BY <1>2 DEF Disconnects, Leaves, WatchInv, WatchTypes, WatchStages
<1>4. OwnTopic'
  BY <1>2 DEF Disconnects, WatchInv, WatchTypes, OwnTopic
<1>5. ToldOrWaiting'
  BY <1>2 DEF Disconnects, WatchInv, WatchTypes, ToldOrWaiting
<1> QED BY <1>1, <1>3, <1>4, <1>5 DEF WatchInv

\* A worker is given something else to do, or nothing, and no connection steps.
LEMMA ElsewhereWatch ==
  ASSUME WatchInv, UNCHANGED SocketVars,
         \/ UNCHANGED work
         \/ \E w \in Workers : \E job \in {Idle, [op |-> "clean"]} : work' = [work EXCEPT ![w] = job]
  PROVE  WatchInv'
<1>1. work' \in [Workers -> WatchJobs] /\ \A w \in Workers : Doing(w, "announce")' => work'[w] = work[w]
  <2>1. Idle \in WatchJobs /\ [op |-> "clean"] \in WatchJobs /\ work \in [Workers -> WatchJobs]
    BY DEF WatchJobs, WatchInv, WatchTypes
  <2>2. CASE UNCHANGED work
    BY <2>1, <2>2
  <2>3. ASSUME NEW v \in Workers, NEW job \in {Idle, [op |-> "clean"]}, work' = [work EXCEPT ![v] = job]
        PROVE  work' \in [Workers -> WatchJobs] /\ \A w \in Workers : Doing(w, "announce")' => work'[w] = work[w]
    <3>1. job.op # "announce" /\ job \in WatchJobs
      BY <2>1 DEF Idle
    <3>2. work'[v] = job /\ \A w \in Workers : w # v => work'[w] = work[w]
      BY <2>1, <2>3
    <3> QED BY <2>1, <2>3, <3>1, <3>2 DEF Doing
  <2> QED BY <2>2, <2>3
<1>2. UNCHANGED <<kind, changes, members, stage, inbox, seen, announced>>
  BY DEF SocketVars
<1>3. SavedFirst'
  BY <1>1, <1>2 DEF WatchInv, SavedFirst, Doing
<1> QED BY <1>1, <1>2, <1>3 DEF WatchInv, WatchTypes, OwnTopic, ToldOrWaiting

LEMMA PresenceWatch ==
  ASSUME WatchInv, PresenceNext
  PROVE  WatchInv'
<1>1. UNCHANGED SocketVars
  BY DEF PresenceNext, TrackerOpens, TrackerOpened, TrackerCloses, TrackerClosed, Reports, Moves,
         TrackerDies, LocationAges, StampAges, CleansLocations, CleansProfiles, DriverSwitches
<1>2. \/ UNCHANGED work
      \/ \E w \in Workers : \E job \in {Idle, [op |-> "clean"]} : work' = [work EXCEPT ![w] = job]
  BY DEF PresenceNext, TrackerOpens, TrackerOpened, TrackerCloses, TrackerClosed, Reports, Moves,
         TrackerDies, LocationAges, StampAges, CleansLocations, CleansProfiles, DriverSwitches,
         Starts, Ends
<1> QED BY <1>1, <1>2, ElsewhereWatch

LEMMA WatchingWatch ==
  ASSUME WatchInv, WatchingNext(Sockets)
  PROVE  WatchInv'
<1>1. ASSUME NEW w \in Workers, NEW a \in Audiences, OrderChanges(w, a) PROVE WatchInv'
  BY <1>1, Audience, SavesWatch DEF OrderChanges, Topics
<1>2. ASSUME NEW w \in Workers, NEW s \in Sockets, ChatSends(w, s) PROVE WatchInv'
  <2>1. <<"chat">> \in GroupLists /\ \A i \in 1 .. Len(<<"chat">>) : TopicOf(<<"chat">>[i]) = "chat"
    BY DEF GroupLists, Kinds, TopicOf
  <2> QED BY <1>2, <2>1, SavesWatch DEF ChatSends, Topics
<1>3. ASSUME NEW w \in Workers, NEW s \in Sockets, DriverForced(w, s) \/ StatusForced(w, s)
      PROVE  WatchInv'
  BY <1>3, Audience, SavesWatch DEF DriverForced, StatusForced, Overrides, Topics
<1>4. ASSUME NEW w \in Workers, DriverForcedByPage(w) \/ StatusForcedByPage(w)
      PROVE  WatchInv'
  BY <1>4, Audience, SavesWatch DEF DriverForcedByPage, StatusForcedByPage, OverridesByPage, Topics
<1>5. ASSUME NEW w \in Workers, Dies(w), UNCHANGED RealtimeVars PROVE WatchInv'
  BY <1>5, ElsewhereWatch DEF Dies, Ends, RealtimeVars
<1>6. ASSUME NEW s \in Sockets, Requested(s) PROVE WatchInv'
  BY <1>6, ReadsWatch
     DEF Requested, StatusRequested, OrdersRequested, AssignmentsRequested, DashboardRequested
<1> QED BY <1>1, <1>2, <1>3, <1>4, <1>5, <1>6, AnnouncesWatch, ConnectsWatch, JoinsWatch,
           SnapshotWatch, HandlesWatch, DisconnectsWatch DEF WatchingNext, HeartbeatCloses

LEMMA NextWatch == WatchInv /\ [RealtimeNext]_RealtimeState => WatchInv'
<1> SUFFICES ASSUME WatchInv, [RealtimeNext]_RealtimeState PROVE WatchInv'
  OBVIOUS
<1>1. CASE UNCHANGED RealtimeState
  BY <1>1, ElsewhereWatch DEF RealtimeState, RealtimeVars
<1> QED BY <1>1, WatchingWatch, PresenceWatch DEF RealtimeNext

(* A connection that has handled what it received knows every change that  *)
(* was announced to a group it is in, however connections, handlers,       *)
(* announcements and deaths of workers interleave                          *)
(* (common/websockets/consumers, menu/websocket_utils.py).                 *)
THEOREM NothingIsMissed == RealtimeSpec => []NothingMissed
<1>1. WatchInv => NothingMissed
  BY DEF WatchInv, WatchTypes, ToldOrWaiting, NothingMissed
<1> QED BY <1>1, InitWatch, NextWatch, PTL DEF RealtimeSpec

-----------------------------------------------------------------------------
Alive == {"opening", "open", "closing", "died"}

\* The inductive invariant of presence.
PresenceInv ==
  /\ track \in [Sockets -> {"new", "closed"} \cup Alive]
  /\ location # None => location \in [online : BOOLEAN, fresh : BOOLEAN]
  /\ ReachableIsConnected

LEMMA LocatedKept ==
  ASSUME NEW value \in BOOLEAN, Located(value),
         location # None => location \in [online : BOOLEAN, fresh : BOOLEAN]
  PROVE  location' # None => location' \in [online : BOOLEAN, fresh : BOOLEAN]
<1>1. CASE location = None
  BY <1>1 DEF Located
<1>2. CASE location # None
  <2>1. location \in [online : BOOLEAN, fresh : BOOLEAN]
    BY <1>2
  <2>2. location' = [location EXCEPT !.online = value]
    BY <1>2 DEF Located
  <2> QED BY <2>1, <2>2
<1> QED BY <1>1, <1>2

LEMMA PresenceKept ==
  ASSUME PresenceInv, [RealtimeNext]_RealtimeState
  PROVE  PresenceInv'
<1> DEFINE Steps(s) ==
      \/ TrackerOpens(s) \/ TrackerOpened(s) \/ TrackerCloses(s)
      \/ TrackerClosed(s) \/ Reports(s) \/ TrackerDies(s)
<1>1. CASE UNCHANGED PresenceVars
  BY <1>1 DEF PresenceVars, PresenceInv, ReachableIsConnected
<1>2. ASSUME NEW s \in Sockets, Steps(s) PROVE PresenceInv'
  <2>1. track' \in [Sockets -> {"new", "closed"} \cup Alive]
    BY <1>2 DEF PresenceInv, Alive, TrackerOpens, TrackerOpened, TrackerCloses, TrackerClosed,
         Reports, Moves, TrackerDies
  <2>2. \/ track'[s] \in Alive
        \/ TrackerClosed(s)
    BY <1>2 DEF PresenceInv, Alive, TrackerOpens, TrackerOpened, TrackerCloses, Reports, Moves, TrackerDies
  <2>3. location' # None => location' \in [online : BOOLEAN, fresh : BOOLEAN]
    <3>1. CASE TrackerOpened(s)
      BY <3>1, LocatedKept DEF PresenceInv, TrackerOpened
    <3>2. CASE TrackerClosed(s)
      BY <3>2, LocatedKept DEF PresenceInv, TrackerClosed
    <3>3. CASE Reports(s)
      BY <3>3 DEF Reports
    <3>4. CASE UNCHANGED location
      BY <3>4 DEF PresenceInv
    <3> QED BY <1>2, <3>1, <3>2, <3>3, <3>4 DEF TrackerOpens, TrackerCloses, TrackerDies
  <2>4. CASE track'[s] \in Alive
    BY <2>1, <2>3, <2>4 DEF PresenceInv, ReachableIsConnected, Alive
  <2>5. CASE TrackerClosed(s)
    <3>1. location' # None => ~location'.online
      BY <2>5 DEF TrackerClosed, Located
    <3> QED BY <2>1, <2>3, <3>1 DEF PresenceInv, ReachableIsConnected
  <2> QED BY <2>2, <2>4, <2>5
<1>3. CASE LocationAges
  BY <1>3 DEF LocationAges, PresenceInv, ReachableIsConnected
<1>4. CASE StampAges
  BY <1>4 DEF StampAges, PresenceInv, ReachableIsConnected
<1>5. ASSUME NEW w \in Workers, CleansLocations(w) \/ CleansProfiles(w) PROVE PresenceInv'
  BY <1>5 DEF CleansLocations, CleansProfiles, PresenceInv, ReachableIsConnected
<1>6. ASSUME NEW value \in BOOLEAN, DriverSwitches(value) PROVE PresenceInv'
  BY <1>6 DEF DriverSwitches, PresenceInv, ReachableIsConnected
<1>7. WatchingNext(Sockets) \/ UNCHANGED RealtimeState => UNCHANGED PresenceVars
  BY DEF WatchingNext, RealtimeState, RealtimeVars, OrderChanges, ChatSends, Saves, DriverForced, StatusForced,
     Overrides, DriverForcedByPage, StatusForcedByPage, OverridesByPage, Announces, Connects, Refused,
     OrderConnects, ChatConnects, DriverConnects, BranchConnects, AdminConnects, LetIn, JoinsOrders,
     Snapshot, Requested, StatusRequested, OrdersRequested, AssignmentsRequested, DashboardRequested,
     Reads, Handles, Disconnects, HeartbeatCloses
<1> QED BY <1>1, <1>2, <1>3, <1>4, <1>5, <1>6, <1>7 DEF RealtimeNext, PresenceNext

(* Whenever a driver's location says he is online he has a connection, or  *)
(* one died under him (common/websockets/consumers/driver.py).             *)
THEOREM ReachableDriver == RealtimeSpec => []ReachableIsConnected
<1>1. RequestsInit /\ RealtimeInit => PresenceInv
  BY DEF RealtimeInit, PresenceInv, ReachableIsConnected
<1>2. PresenceInv /\ [RealtimeNext]_RealtimeState => PresenceInv'
  BY PresenceKept
<1> QED BY <1>1, <1>2, PTL DEF RealtimeSpec, PresenceInv

-----------------------------------------------------------------------------
(* Support: however assignments, closings and reopenings overlap, a ticket *)
(* tells whose it is and whether it is closed.                             *)
SupportSpec == RequestsInit /\ SupportInit /\ [][SupportNext]_<<work, SupportVars>>

\* Whoever works on a ticket, and whatever was queued for it, found its row.
SupportWork ==
  \A w \in Workers :
    /\ work[w].op \in {"file", "claim", "close", "reopen", "reopened"} =>
         work[w].ticket \in Tickets /\ Filed(work[w].ticket)
    /\ Doing(w, "claim") => work[w].agent \in Agents

SupportTypes ==
  /\ DOMAIN work = Workers
  /\ ticket \in [Tickets -> TicketRows \cup {None}]
  /\ messages \in [Tickets -> SUBSET Senders]
  /\ queued \cup overtaken \cup orphan \subseteq {t \in Tickets : Filed(t)}

SupportInv == SupportTypes /\ SupportWork /\ TicketInHand

LEMMA IdleSupporter == Idle.op \notin {"file", "claim", "close", "reopen", "reopened"}
  BY DEF Idle

LEMMA InitSupport == RequestsInit /\ SupportInit => SupportInv
<1> SUFFICES ASSUME RequestsInit, SupportInit PROVE SupportInv
  OBVIOUS
<1>1. \A w \in Workers : work[w].op \notin {"file", "claim", "close", "reopen", "reopened"}
  BY IdleSupporter DEF RequestsInit
<1>2. SupportTypes
  BY DEF RequestsInit, SupportInit, SupportTypes
<1>3. SupportWork
  BY <1>1 DEF SupportWork, Doing
<1>4. TicketInHand
  BY DEF TicketInHand, SupportInit, Filed
<1> QED BY <1>2, <1>3, <1>4 DEF SupportInv

\* What a worker remembers while no row goes.
LEMMA SupporterTurns ==
  ASSUME SupportInv, NEW w \in Workers, NEW job, work' = [work EXCEPT ![w] = job],
         \A t \in Tickets : Filed(t) => Filed(t)',
         job.op \in {"file", "claim", "close", "reopen", "reopened"} =>
            job.ticket \in Tickets /\ ticket'[job.ticket] # None,
         job.op = "claim" => job.agent \in Agents
  PROVE  DOMAIN work' = Workers /\ SupportWork'
<1>1. /\ DOMAIN work' = Workers
      /\ work'[w] = job /\ \A v \in Workers : v # w => work'[v] = work[v]
  BY DEF SupportInv, SupportTypes
<1>2. ASSUME NEW v \in Workers
      PROVE  /\ (work[v].op \in {"file", "claim", "close", "reopen", "reopened"} =>
                  work[v].ticket \in Tickets /\ Filed(work[v].ticket))'
             /\ Doing(v, "claim")' => work'[v].agent \in Agents
  <2>1. CASE v = w
    BY <1>1, <2>1 DEF Doing, Filed
  <2>2. CASE v # w
    BY <1>1, <2>2 DEF SupportInv, SupportWork, Doing
  <2> QED BY <2>1, <2>2
<1> QED BY <1>1, <1>2 DEF SupportWork

\* The rows that were there stay, with what they say.
LEMMA TicketsStay ==
  ASSUME SupportInv, UNCHANGED <<ticket, overtaken, orphan>>,
         messages' \in [Tickets -> SUBSET Senders], queued' \subseteq {t \in Tickets : Filed(t)},
         DOMAIN work' = Workers, SupportWork'
  PROVE  SupportInv'
<1>1. SupportTypes'
  BY DEF SupportInv, SupportTypes, Filed
<1>2. TicketInHand'
  BY DEF SupportInv, TicketInHand, Filed
<1> QED BY <1>1, <1>2 DEF SupportInv

LEMMA SupporterQuiet ==
  ASSUME SupportInv, NEW w \in Workers, NEW job, work' = [work EXCEPT ![w] = job],
         UNCHANGED SupportVars,
         job.op \in {"file", "claim", "close", "reopen", "reopened"} =>
            job.ticket \in Tickets /\ Filed(job.ticket),
         job.op = "claim" => job.agent \in Agents
  PROVE  SupportInv'
<1>1. \A t : Filed(t) <=> Filed(t)'
  BY DEF SupportVars, Filed
<1>2. DOMAIN work' = Workers /\ SupportWork'
  BY <1>1, SupporterTurns DEF Filed
<1> QED BY <1>2, TicketsStay DEF SupportVars, SupportInv, SupportTypes

LEMMA TicketRow ==
  ASSUME SupportInv, NEW t \in Tickets, Filed(t)
  PROVE  /\ ticket[t] \in TicketRows /\ ticket[t].status \in {"open", "in_progress", "closed"}
         /\ ticket[t].closedAt \in BOOLEAN /\ ticket[t].agent \in Agents \cup {None}
<1>1. ticket[t] \in TicketRows
  BY DEF SupportInv, SupportTypes, Filed
<1> QED BY <1>1 DEF TicketRows, TicketStatus

\* A row that says of itself what it should.
LEMMA TicketSaved ==
  ASSUME SupportInv, NEW t \in Tickets, NEW row \in TicketRows, ticket' = [ticket EXCEPT ![t] = row],
         \A x \in Tickets : x # t => (x \in overtaken' <=> x \in overtaken) /\ (x \in orphan' <=> x \in orphan),
         overtaken' \cup orphan' \subseteq Tickets,
         messages' = messages, queued' = queued,
         row.status = "closed" => row.closedAt,
         row.closedAt => row.status = "closed" \/ t \in overtaken',
         row.status = "in_progress" => row.agent # None \/ t \in orphan',
         row.status = "open" => row.agent = None,
         (\A x \in Tickets : Filed(x) => Filed(x)') /\ ticket'[t] # None => DOMAIN work' = Workers /\ SupportWork'
  PROVE  SupportInv'
<1>1. /\ ticket' \in [Tickets -> TicketRows \cup {None}]
      /\ ticket'[t] = row /\ \A x \in Tickets : x # t => ticket'[x] = ticket[x]
  BY DEF SupportInv, SupportTypes
<1>2. row # None
  BY SupportAssumption
<1>3. Filed(t)' /\ \A x \in Tickets : Filed(x) => Filed(x)'
  BY <1>1, <1>2 DEF Filed
<1>4. queued' \cup overtaken' \cup orphan' \subseteq {x \in Tickets : Filed(x)'}
  BY <1>3 DEF SupportInv, SupportTypes
<1>5. SupportTypes'
  <2>1. DOMAIN work' = Workers
    BY <1>1, <1>2, <1>3
  <2>2. messages' \in [Tickets -> SUBSET Senders]
    BY DEF SupportTypes, SupportInv
  <2> QED BY <1>1, <1>4, <2>1, <2>2 DEF SupportTypes
<1>6. ASSUME NEW x \in Tickets, Filed(x)'
      PROVE  /\ ticket'[x].status = "closed" => ticket'[x].closedAt
             /\ ticket'[x].closedAt => ticket'[x].status = "closed" \/ x \in overtaken'
             /\ ticket'[x].status = "in_progress" => ticket'[x].agent # None \/ x \in orphan'
             /\ ticket'[x].status = "open" => ticket'[x].agent = None
  <2>1. CASE x = t
    BY <1>1, <2>1
  <2>2. CASE x # t
    <3>1. Filed(x) /\ ticket'[x] = ticket[x]
      BY <1>1, <1>6, <2>2 DEF Filed
    <3>2. (x \in overtaken' <=> x \in overtaken) /\ (x \in orphan' <=> x \in orphan)
      BY <2>2
    <3> QED BY <3>1, <3>2 DEF SupportInv, TicketInHand
  <2> QED BY <2>1, <2>2
<1>7. TicketInHand'
  BY <1>6 DEF TicketInHand
<1> QED BY <1>3, <1>5, <1>7 DEF SupportInv, Filed

-----------------------------------------------------------------------------
LEMMA StepTicketFiled ==
  ASSUME SupportInv, NEW w \in Workers, NEW t \in Tickets, NEW u \in Users, TicketFiled(w, t, u)
  PROVE  SupportInv'
<1> DEFINE row == [owner |-> u, status |-> "open", agent |-> None, closedAt |-> FALSE]
           job == [op |-> "file", ticket |-> t]
<1>1. /\ row \in TicketRows /\ row.status = "open" /\ ~row.closedAt /\ row.agent = None
      /\ job.op = "file" /\ job.ticket = t
  BY DEF TicketRows, TicketStatus
<1>2. /\ ticket' = [ticket EXCEPT ![t] = row] /\ work' = [work EXCEPT ![w] = job]
      /\ UNCHANGED <<queued, messages, overtaken, orphan>>
  BY DEF TicketFiled, Starts
<1> HIDE DEF row, job
<1>3. overtaken' \cup orphan' \subseteq Tickets
  BY <1>2 DEF SupportInv, SupportTypes
<1>4. (\A x \in Tickets : Filed(x) => Filed(x)') /\ ticket'[t] # None => DOMAIN work' = Workers /\ SupportWork'
  BY <1>1, <1>2, SupporterTurns DEF Filed
<1> QED BY <1>1, <1>2, <1>3, <1>4, TicketSaved

\* A worker is done, and the row it worked on is there.
LEMMA SupporterFrees ==
  ASSUME SupportInv, NEW w \in Workers, work' = [work EXCEPT ![w] = Idle],
         \A t \in Tickets : Filed(t) => Filed(t)'
  PROVE  DOMAIN work' = Workers /\ SupportWork'
<1> DEFINE job == Idle
<1>1. job.op \notin {"file", "claim", "close", "reopen", "reopened"} /\ work' = [work EXCEPT ![w] = job]
  BY IdleSupporter
<1> HIDE DEF job
<1> QED BY <1>1, SupporterTurns

LEMMA StepFirstMessage == ASSUME SupportInv, NEW w \in Workers, FirstMessage(w) PROVE SupportInv'
<1> DEFINE t == work[w].ticket
<1>1. t \in Tickets /\ Filed(t)
  BY DEF FirstMessage, SupportInv, SupportWork, Doing
<1>2. /\ work' = [work EXCEPT ![w] = Idle] /\ queued' = queued \cup {t}
      /\ messages' = [messages EXCEPT ![t] = @ \cup {"owner"}]
      /\ UNCHANGED <<ticket, overtaken, orphan>>
  BY DEF FirstMessage, Ends, Writes
<1> HIDE DEF t
<1>3. messages' \in [Tickets -> SUBSET Senders] /\ queued' \subseteq {x \in Tickets : Filed(x)}
  BY <1>1, <1>2 DEF SupportInv, SupportTypes, Senders
<1>4. DOMAIN work' = Workers /\ SupportWork'
  BY <1>2, SupporterFrees DEF Filed
<1> QED BY <1>2, <1>3, <1>4, TicketsStay

LEMMA StepMessageSent ==
  ASSUME SupportInv, NEW t \in Tickets, NEW sender \in Senders, MessageSent(t, sender)
  PROVE  SupportInv'
<1>1. messages' \in [Tickets -> SUBSET Senders] /\ UNCHANGED <<work, ticket, queued, overtaken, orphan>>
  BY DEF MessageSent, Writes, SupportInv, SupportTypes
<1>2. queued' \subseteq {x \in Tickets : Filed(x)} /\ DOMAIN work' = Workers
  BY <1>1 DEF SupportInv, SupportTypes
<1>3. SupportWork'
  BY <1>1 DEF SupportInv, SupportWork, Doing, Filed
<1> QED BY <1>1, <1>2, <1>3, TicketsStay

\* An agent gets the ticket, whatever became of it.
LEMMA TicketAssigned ==
  ASSUME SupportInv, NEW t \in Tickets, Filed(t), NEW a \in Agents, Assigns(t, a),
         UNCHANGED <<queued, messages, orphan>>,
         (\A x \in Tickets : Filed(x) => Filed(x)') /\ ticket'[t] # None => DOMAIN work' = Workers /\ SupportWork'
  PROVE  SupportInv'
<1> DEFINE row == [ticket[t] EXCEPT !.agent = a, !.status = "in_progress"]
<1>1. ticket[t] \in TicketRows /\ a # None
  BY TicketRow, SupportAssumption
<1>2. /\ row \in TicketRows /\ row.status = "in_progress" /\ row.agent = a
      /\ row.closedAt = ticket[t].closedAt
  BY <1>1 DEF TicketRows, TicketStatus
<1>3. /\ ticket' = [ticket EXCEPT ![t] = row]
      /\ overtaken' = IF ticket[t].closedAt THEN overtaken \cup {t} ELSE overtaken
  BY DEF Assigns
<1>4. overtaken' \cup orphan' \subseteq Tickets
  BY <1>3 DEF SupportInv, SupportTypes
<1>5. ticket[t].closedAt => t \in overtaken'
  BY <1>3
<1>6. \A x \in Tickets : x # t => (x \in overtaken' <=> x \in overtaken) /\ (x \in orphan' <=> x \in orphan)
  BY <1>3
<1> HIDE DEF row
<1> QED BY <1>1, <1>2, <1>3, <1>4, <1>5, <1>6, TicketSaved

LEMMA StepAutoAssign ==
  ASSUME SupportInv, NEW t \in Tickets, NEW a \in Agents, AutoAssign(t, a) PROVE SupportInv'
<1>1. Filed(t) /\ Assigns(t, a) /\ UNCHANGED <<work, queued, messages, orphan>>
  BY DEF AutoAssign, SupportInv, SupportTypes
<1>2. (\A x \in Tickets : Filed(x) => Filed(x)') => DOMAIN work' = Workers /\ SupportWork'
  BY <1>1 DEF SupportInv, SupportTypes, SupportWork, Doing
<1> QED BY <1>1, <1>2, TicketAssigned

LEMMA StepClaimSaves == ASSUME SupportInv, NEW w \in Workers, ClaimSaves(w) PROVE SupportInv'
<1> DEFINE t == work[w].ticket
           a == work[w].agent
<1>1. t \in Tickets /\ Filed(t) /\ a \in Agents
  BY DEF ClaimSaves, SupportInv, SupportWork, Doing
<1>2. Assigns(t, a) /\ work' = [work EXCEPT ![w] = Idle] /\ UNCHANGED <<queued, messages, orphan>>
  BY DEF ClaimSaves, Ends
<1> HIDE DEF t, a
<1>3. (\A x \in Tickets : Filed(x) => Filed(x)') => DOMAIN work' = Workers /\ SupportWork'
  BY <1>2, SupporterFrees
<1> QED BY <1>1, <1>2, <1>3, TicketAssigned

LEMMA StepCloseSaves == ASSUME SupportInv, NEW w \in Workers, CloseSaves(w) PROVE SupportInv'
<1> DEFINE t == work[w].ticket
           row == Closing(ticket[t])
<1>1. t \in Tickets /\ Filed(t)
  BY DEF CloseSaves, SupportInv, SupportWork, Doing
<1>2. ticket[t] \in TicketRows
  BY <1>1, TicketRow
<1>3. row \in TicketRows /\ row.status = "closed" /\ row.closedAt
  BY <1>2 DEF TicketRows, TicketStatus, Closing
<1>4. /\ ticket' = [ticket EXCEPT ![t] = row] /\ overtaken' = overtaken \ {t}
      /\ work' = [work EXCEPT ![w] = Idle] /\ UNCHANGED <<queued, messages, orphan>>
  BY DEF CloseSaves, Ends
<1> HIDE DEF row, t
<1>5. overtaken' \cup orphan' \subseteq Tickets
  BY <1>4 DEF SupportInv, SupportTypes
<1>6. (\A x \in Tickets : Filed(x) => Filed(x)') => DOMAIN work' = Workers /\ SupportWork'
  BY <1>4, SupporterFrees
<1>7. \A x \in Tickets : x # t => (x \in overtaken' <=> x \in overtaken) /\ (x \in orphan' <=> x \in orphan)
  BY <1>4
<1> QED BY <1>1, <1>3, <1>4, <1>5, <1>6, <1>7, TicketSaved

LEMMA StepReopenSaves == ASSUME SupportInv, NEW w \in Workers, ReopenSaves(w) PROVE SupportInv'
<1> DEFINE t == work[w].ticket
           row == [ticket[t] EXCEPT !.status = "in_progress", !.closedAt = FALSE]
           job == [op |-> "reopened", ticket |-> t]
<1>1. t \in Tickets /\ Filed(t) /\ job.op = "reopened" /\ job.ticket = t
  BY DEF ReopenSaves, SupportInv, SupportWork, Doing
<1>2. ticket[t] \in TicketRows
  BY <1>1, TicketRow
<1>3. row \in TicketRows /\ row.status = "in_progress" /\ row.closedAt = FALSE /\ row.agent = ticket[t].agent
  BY <1>2 DEF TicketRows, TicketStatus
<1>4. /\ ticket' = [ticket EXCEPT ![t] = row] /\ overtaken' = overtaken \ {t}
      /\ orphan' = (IF ticket[t].agent = None THEN orphan \cup {t} ELSE orphan)
      /\ work' = [work EXCEPT ![w] = job] /\ UNCHANGED <<queued, messages>>
  BY DEF ReopenSaves, Starts
<1> HIDE DEF row, t, job
<1>5. overtaken' \cup orphan' \subseteq Tickets
  BY <1>1, <1>4 DEF SupportInv, SupportTypes
<1>6. (\A x \in Tickets : Filed(x) => Filed(x)') /\ ticket'[t] # None => DOMAIN work' = Workers /\ SupportWork'
  BY <1>1, <1>4, SupporterTurns DEF Filed
<1>7. \A x \in Tickets : x # t => (x \in overtaken' <=> x \in overtaken) /\ (x \in orphan' <=> x \in orphan)
  BY <1>4
<1>8. row.status = "in_progress" => row.agent # None \/ t \in orphan'
  BY <1>3, <1>4
<1>9. /\ row.status = "closed" => row.closedAt
      /\ row.closedAt => row.status = "closed" \/ t \in overtaken'
      /\ row.status = "open" => row.agent = None
  BY <1>3
<1>10. ticket' = [ticket EXCEPT ![t] = row] /\ messages' = messages /\ queued' = queued
  BY <1>4
<1> QED BY <1>1, <1>3, <1>5, <1>6, <1>7, <1>8, <1>9, <1>10, TicketSaved

LEMMA StepReopenTells == ASSUME SupportInv, NEW w \in Workers, ReopenTells(w) PROVE SupportInv'
<1> DEFINE t == work[w].ticket
<1>1. t \in Tickets
  BY DEF ReopenTells, SupportInv, SupportWork, Doing
<1>2. /\ work' = [work EXCEPT ![w] = Idle] /\ messages' = [messages EXCEPT ![t] = @ \cup {"system"}]
      /\ UNCHANGED <<ticket, queued, overtaken, orphan>>
  BY DEF ReopenTells, Ends, Writes
<1> HIDE DEF t
<1>3. messages' \in [Tickets -> SUBSET Senders] /\ queued' \subseteq {x \in Tickets : Filed(x)}
  BY <1>1, <1>2 DEF SupportInv, SupportTypes, Senders
<1>4. DOMAIN work' = Workers /\ SupportWork'
  BY <1>2, SupporterFrees DEF Filed
<1> QED BY <1>2, <1>3, <1>4, TicketsStay

LEMMA StepsThatRead ==
  ASSUME SupportInv, NEW w \in Workers, NEW t \in Tickets, NEW by,
         \/ by \in Agents /\ ClaimReads(w, t, by)
         \/ CloseReads(w, t, by) \/ ReopenReads(w, t, by)
  PROVE  SupportInv'
<1>1. ASSUME by \in Agents, ClaimReads(w, t, by) PROVE SupportInv'
  <2> DEFINE job == [op |-> "claim", ticket |-> t, agent |-> by]
  <2>1. job.op = "claim" /\ job.ticket = t /\ job.agent = by
    OBVIOUS
  <2>2. Filed(t) /\ work' = [work EXCEPT ![w] = job] /\ UNCHANGED SupportVars
    BY <1>1 DEF ClaimReads, Starts
  <2> HIDE DEF job
  <2> QED BY <1>1, <2>1, <2>2, SupporterQuiet
<1>2. ASSUME CloseReads(w, t, by) PROVE SupportInv'
  <2> DEFINE job == [op |-> "close", ticket |-> t]
  <2>1. job.op = "close" /\ job.ticket = t
    OBVIOUS
  <2>2. Filed(t) /\ work' = [work EXCEPT ![w] = job] /\ UNCHANGED SupportVars
    BY <1>2 DEF CloseReads, Starts
  <2> HIDE DEF job
  <2> QED BY <2>1, <2>2, SupporterQuiet
<1>3. ASSUME ReopenReads(w, t, by) PROVE SupportInv'
  <2> DEFINE job == [op |-> "reopen", ticket |-> t]
  <2>1. job.op = "reopen" /\ job.ticket = t
    OBVIOUS
  <2>2. Filed(t) /\ work' = [work EXCEPT ![w] = job] /\ UNCHANGED SupportVars
    BY <1>3 DEF ReopenReads, Starts
  <2> HIDE DEF job
  <2> QED BY <2>1, <2>2, SupporterQuiet
<1> QED BY <1>1, <1>2, <1>3

LEMMA NextSupport == SupportInv /\ [SupportNext]_<<work, SupportVars>> => SupportInv'
<1> SUFFICES ASSUME SupportInv, [SupportNext]_<<work, SupportVars>> PROVE SupportInv'
  OBVIOUS
<1>1. ASSUME NEW w \in Workers, Dies(w), UNCHANGED SupportVars PROVE SupportInv'
  <2> DEFINE job == Idle
  <2>1. job.op \notin {"file", "claim", "close", "reopen", "reopened"} /\ work' = [work EXCEPT ![w] = job]
    BY <1>1, IdleSupporter DEF Dies, Ends
  <2> HIDE DEF job
  <2> QED BY <1>1, <2>1, SupporterQuiet
<1>2. ASSUME UNCHANGED <<work, SupportVars>> PROVE SupportInv'
  <2>1. SupportWork' /\ DOMAIN work' = Workers
    BY <1>2 DEF SupportInv, SupportTypes, SupportWork, SupportVars, Filed, Doing
  <2> QED BY <1>2, <2>1, TicketsStay DEF SupportInv, SupportTypes, SupportVars
<1>3. ASSUME SupportNext PROVE SupportInv'
  BY <1>1, <1>3, StepTicketFiled, StepMessageSent, StepAutoAssign, StepsThatRead, StepFirstMessage,
     StepClaimSaves, StepCloseSaves, StepReopenSaves, StepReopenTells DEF SupportNext
<1> QED BY <1>2, <1>3

\* However assignments, closings and reopenings overlap, a closed ticket says
\* when it was closed, one in progress has its agent, and an open one has
\* none, but for what came after a closing or before an assignment
\* (support_center/views.py, support_center/task.py).
THEOREM TicketsAreInHand == SupportSpec => [](SupportType /\ TicketInHand)
<1>1. RequestsInit /\ SupportInit => SupportInv
  BY InitSupport
<1>2. SupportInv /\ [SupportNext]_<<work, SupportVars>> => SupportInv'
  BY NextSupport
<1>3. SupportInv => SupportType /\ TicketInHand
  BY DEF SupportInv, SupportTypes, SupportType, Filed
<1> QED BY <1>1, <1>2, <1>3, PTL DEF SupportSpec

-----------------------------------------------------------------------------
(* Notices: however broadcasts, pushes, device changes and deleted         *)
(* accounts overlap, the list tells what was meant for whom.               *)
NoticesStart == \E existing \in SUBSET Users : NoticesInit(existing)
NoticesSpec == RequestsInit /\ NoticesStart /\ [][NoticesNext]_<<work, NoticesVars>>

Meant(n, u) == meant[n] # None /\ u \in meant[n]

\* What is still to be pushed, or listed, is of users who exist.
NoticesWork ==
  \A w \in Workers :
    /\ work[w].op \in {"tokens", "push"} => Meant(work[w].message, work[w].user)
    /\ Doing(w, "broadcast") => work[w].message \in Messages /\ work[w].audience \subseteq Users

NoticesTypes ==
  /\ DOMAIN work = Workers
  /\ accounts \subseteq Users /\ phoneOf \in [Phones -> accounts \cup {None}]
  /\ listed \subseteq Messages \X accounts /\ is_read \subseteq listed
  /\ meant \in [Messages -> (SUBSET Users) \cup {None}]

NoticesKept ==
  /\ \A n \in Messages, u \in accounts : <<n, u>> \in listed <=> Meant(n, u)
  /\ \A p \in pushed : Meant(p[1], p[2])

NoticesInv == NoticesTypes /\ NoticesWork /\ NoticesKept

LEMMA IdleNotifier == Idle.op \notin {"tokens", "push", "broadcast"}
  BY DEF Idle

LEMMA InitNotices == RequestsInit /\ NoticesStart => NoticesInv
<1> SUFFICES ASSUME RequestsInit, NEW existing \in SUBSET Users, NoticesInit(existing)
             PROVE  NoticesInv
  BY DEF NoticesStart
<1>1. DOMAIN work = Workers /\ \A w \in Workers : work[w].op \notin {"tokens", "push", "broadcast"}
  BY IdleNotifier DEF RequestsInit
<1>2. NoticesTypes
  BY <1>1 DEF NoticesInit, NoticesTypes
<1>3. NoticesWork
  BY <1>1 DEF NoticesWork, Doing
<1>4. NoticesKept
  BY DEF NoticesKept, NoticesInit, Meant
<1> QED BY <1>2, <1>3, <1>4 DEF NoticesInv

\* What was meant stays meant, and so does what workers remember of it.
LEMMA NotifierTurns ==
  ASSUME NoticesInv, NEW w \in Workers, NEW job, work' = [work EXCEPT ![w] = job],
         \A n, u : Meant(n, u) => Meant(n, u)',
         job.op \in {"tokens", "push"} => meant'[job.message] # None /\ job.user \in meant'[job.message],
         job.op = "broadcast" => job.message \in Messages /\ job.audience \subseteq Users
  PROVE  DOMAIN work' = Workers /\ NoticesWork'
<1>1. /\ DOMAIN work' = Workers
      /\ work'[w] = job /\ \A v \in Workers : v # w => work'[v] = work[v]
  BY DEF NoticesInv, NoticesTypes
<1>2. ASSUME NEW v \in Workers
      PROVE  /\ (work[v].op \in {"tokens", "push"} => Meant(work[v].message, work[v].user))'
             /\ (Doing(v, "broadcast") => work[v].message \in Messages /\ work[v].audience \subseteq Users)'
  <2>1. CASE v = w
    BY <1>1, <2>1 DEF Doing, Meant
  <2>2. CASE v # w
    BY <1>1, <2>2 DEF NoticesInv, NoticesWork, Doing, Meant
  <2> QED BY <2>1, <2>2
<1> QED BY <1>1, <1>2 DEF NoticesWork

LEMMA NotifierStays ==
  ASSUME NoticesInv, work' = work, \A n, u : Meant(n, u) => Meant(n, u)'
  PROVE  DOMAIN work' = Workers /\ NoticesWork'
  BY DEF NoticesInv, NoticesTypes, NoticesWork, Doing, Meant

LEMMA NotifierFrees ==
  ASSUME NoticesInv, NEW w \in Workers, work' = [work EXCEPT ![w] = Idle],
         \A n, u : Meant(n, u) => Meant(n, u)'
  PROVE  DOMAIN work' = Workers /\ NoticesWork'
<1> DEFINE job == Idle
<1>1. job.op \notin {"tokens", "push", "broadcast"} /\ work' = [work EXCEPT ![w] = job]
  BY IdleNotifier
<1> HIDE DEF job
<1> QED BY <1>1, NotifierTurns

\* A step after which only workers remember something else.
LEMMA NotifierQuiet ==
  ASSUME NoticesInv, NEW w \in Workers, NEW job, work' = [work EXCEPT ![w] = job], UNCHANGED NoticesVars,
         job.op \in {"tokens", "push"} => meant[job.message] # None /\ job.user \in meant[job.message],
         job.op = "broadcast" => job.message \in Messages /\ job.audience \subseteq Users
  PROVE  NoticesInv'
<1>1. DOMAIN work' = Workers /\ NoticesWork'
  BY NotifierTurns DEF NoticesVars, Meant
<1>2. NoticesTypes' /\ NoticesKept'
  BY <1>1 DEF NoticesInv, NoticesTypes, NoticesKept, NoticesVars, Meant
<1> QED BY <1>1, <1>2 DEF NoticesInv

\* A message gets its audience and its rows at once.
LEMMA MessageListed ==
  ASSUME NoticesInv, NEW n \in Messages, meant[n] = None, NEW audience, audience \subseteq accounts,
         meant' = [meant EXCEPT ![n] = audience],
         listed' = listed \cup {<<n, u>> : u \in audience},
         UNCHANGED <<accounts, phoneOf, is_read, pushed>>,
         (\A m, u : Meant(m, u) => Meant(m, u)') => DOMAIN work' = Workers /\ NoticesWork'
  PROVE  NoticesInv'
<1>1. audience \subseteq Users /\ audience # None
  BY NoticesAssumption DEF NoticesInv, NoticesTypes
<1>2. /\ meant' \in [Messages -> (SUBSET Users) \cup {None}] /\ DOMAIN meant = Messages
      /\ meant'[n] = audience /\ \A m : m # n => meant'[m] = meant[m]
  <2>1. /\ meant' \in [Messages -> (SUBSET Users) \cup {None}] /\ DOMAIN meant = Messages
        /\ meant'[n] = audience
    BY <1>1 DEF NoticesInv, NoticesTypes
  <2>2. \A m : m # n => meant'[m] = meant[m]
    OBVIOUS
  <2> QED BY <2>1, <2>2
<1>3. \A m, u : Meant(m, u) => Meant(m, u)'
  BY <1>2 DEF Meant
<1>4. \A m, u : Meant(m, u)' <=> Meant(m, u) \/ (m = n /\ u \in audience)
  BY <1>1, <1>2 DEF Meant
<1>5. \A m, u : <<m, u>> \in listed' <=> <<m, u>> \in listed \/ (m = n /\ u \in audience)
  OBVIOUS
<1>6. DOMAIN work' = Workers /\ NoticesWork'
  BY <1>3
<1>7. NoticesTypes'
  <2>1. listed' \subseteq Messages \X accounts' /\ is_read' \subseteq listed'
    BY DEF NoticesInv, NoticesTypes
  <2> QED BY <1>2, <1>6, <2>1 DEF NoticesInv, NoticesTypes
<1>8. NoticesKept'
  <2>1. \A m \in Messages, u \in accounts : <<m, u>> \in listed' <=> Meant(m, u)'
    BY <1>4, <1>5 DEF NoticesInv, NoticesKept
  <2>2. \A p \in pushed : Meant(p[1], p[2])'
    BY <1>4 DEF NoticesInv, NoticesKept
  <2> QED BY <2>1, <2>2 DEF NoticesKept
<1> QED BY <1>6, <1>7, <1>8 DEF NoticesInv

-----------------------------------------------------------------------------
LEMMA StepNotified ==
  ASSUME NoticesInv, NEW w \in Workers, NEW n \in Messages, NEW u \in Users, NEW push, Notified(w, n, u, push)
  PROVE  NoticesInv'
<1> DEFINE job == [op |-> "tokens", message |-> n, user |-> u]
           audience == {u}
<1>1. job.op = "tokens" /\ job.message = n /\ job.user = u
  OBVIOUS
<1>2. /\ meant[n] = None /\ audience \subseteq accounts /\ u \in audience
      /\ meant' = [meant EXCEPT ![n] = audience]
      /\ listed' = listed \cup {<<n, x>> : x \in audience}
      /\ UNCHANGED <<accounts, phoneOf, is_read, pushed>>
      /\ work' = [work EXCEPT ![w] = job] \/ work' = work
  BY DEF Notified, Lists, Starts
<1>3. audience # None
  BY NoticesAssumption
<1> HIDE DEF job, audience
<1>4. meant'[n] = audience
  BY <1>2 DEF NoticesInv, NoticesTypes
<1>5. (\A m, x : Meant(m, x) => Meant(m, x)') => DOMAIN work' = Workers /\ NoticesWork'
  <2>1. CASE work' = [work EXCEPT ![w] = job]
    BY <1>1, <1>2, <1>3, <1>4, <2>1, NotifierTurns
  <2>2. CASE work' = work
    BY <2>2, NotifierStays
  <2> QED BY <1>2, <2>1, <2>2
<1> QED BY <1>2, <1>5, MessageListed

LEMMA StepPhonesFound == ASSUME NoticesInv, NEW w \in Workers, PhonesFound(w) PROVE NoticesInv'
<1> DEFINE found == {d \in Phones : phoneOf[d] = work[w].user}
           job == [op |-> "push", message |-> work[w].message, user |-> work[w].user, phones |-> found]
           idle == Idle
<1>1. meant[work[w].message] # None /\ work[w].user \in meant[work[w].message]
  BY DEF PhonesFound, NoticesInv, NoticesWork, Doing, Meant
<1>2. /\ job.op = "push" /\ job.message = work[w].message /\ job.user = work[w].user
      /\ idle.op \notin {"tokens", "push", "broadcast"}
  BY IdleNotifier
<1>3. UNCHANGED NoticesVars /\ (work' = [work EXCEPT ![w] = job] \/ work' = [work EXCEPT ![w] = idle])
  BY DEF PhonesFound, Starts, Ends
<1> HIDE DEF job, idle
<1> QED BY <1>1, <1>2, <1>3, NotifierQuiet

\* Nothing of what is listed or meant changes.
LEMMA ListsStay ==
  ASSUME NoticesInv, UNCHANGED <<listed, meant>>, accounts' = accounts,
         phoneOf' \in [Phones -> accounts \cup {None}], is_read' \subseteq listed,
         \A p \in pushed' : Meant(p[1], p[2]),
         (\A n, u : Meant(n, u) => Meant(n, u)') => DOMAIN work' = Workers /\ NoticesWork'
  PROVE  NoticesInv'
<1>1. \A n, u : Meant(n, u)' <=> Meant(n, u)
  BY DEF Meant
<1>2. DOMAIN work' = Workers /\ NoticesWork'
  BY <1>1
<1>3. NoticesTypes'
  BY <1>2 DEF NoticesInv, NoticesTypes
<1>4. NoticesKept'
  BY <1>1 DEF NoticesInv, NoticesKept
<1> QED BY <1>2, <1>3, <1>4 DEF NoticesInv

LEMMA StepPushes == ASSUME NoticesInv, NEW w \in Workers, NEW taken, Pushes(w, taken) PROVE NoticesInv'
<1> DEFINE n == work[w].message
           u == work[w].user
<1>1. Meant(n, u)
  BY DEF Pushes, NoticesInv, NoticesWork, Doing
<1>2. /\ work' = [work EXCEPT ![w] = Idle] /\ pushed' = pushed \cup {<<n, u, d>> : d \in taken}
      /\ UNCHANGED <<accounts, phoneOf, listed, is_read, meant>>
  BY DEF Pushes, Ends
<1> HIDE DEF n, u
<1>3. \A p \in pushed' : Meant(p[1], p[2])
  BY <1>1, <1>2 DEF NoticesInv, NoticesKept
<1>4. (\A m, x : Meant(m, x) => Meant(m, x)') => DOMAIN work' = Workers /\ NoticesWork'
  BY <1>2, NotifierFrees
<1> QED BY <1>2, <1>3, <1>4, ListsStay DEF NoticesInv, NoticesTypes

LEMMA StepBroadcastReads ==
  ASSUME NoticesInv, NEW w \in Workers, NEW n \in Messages, NEW audience, BroadcastReads(w, n, audience)
  PROVE  NoticesInv'
<1> DEFINE job == [op |-> "broadcast", message |-> n, audience |-> audience]
<1>1. job.op = "broadcast" /\ job.message = n /\ job.audience \subseteq Users
  BY DEF BroadcastReads, NoticesInv, NoticesTypes
<1>2. work' = [work EXCEPT ![w] = job] /\ UNCHANGED NoticesVars
  BY DEF BroadcastReads, Starts
<1> HIDE DEF job
<1> QED BY <1>1, <1>2, NotifierQuiet

LEMMA StepBroadcastCommits == ASSUME NoticesInv, NEW w \in Workers, BroadcastCommits(w) PROVE NoticesInv'
<1> DEFINE n == work[w].message
           audience == work[w].audience
<1>1. n \in Messages /\ meant[n] = None
  BY DEF BroadcastCommits, NoticesInv, NoticesWork, Doing
<1>2. work' = [work EXCEPT ![w] = Idle] /\ UNCHANGED <<accounts, phoneOf, is_read, pushed>>
  BY DEF BroadcastCommits, Ends
<1>3. (\A m, x : Meant(m, x) => Meant(m, x)') => DOMAIN work' = Workers /\ NoticesWork'
  BY <1>2, NotifierFrees
<1>4. CASE audience \subseteq accounts
  <2>1. UNION {Lists(n, x) : x \in audience} = {<<n, x>> : x \in audience}
    BY DEF Lists
  <2>2. /\ meant' = [meant EXCEPT ![n] = audience]
        /\ listed' = listed \cup {<<n, x>> : x \in audience}
    BY <1>4, <2>1 DEF BroadcastCommits
  <2> HIDE DEF n, audience
  <2> QED BY <1>1, <1>2, <1>3, <1>4, <2>2, MessageListed
<1>5. CASE ~(audience \subseteq accounts)
  <2>1. UNCHANGED <<listed, meant>>
    BY <1>5 DEF BroadcastCommits
  <2>2. \A p \in pushed' : Meant(p[1], p[2])
    BY <1>2 DEF NoticesInv, NoticesKept
  <2>3. phoneOf' \in [Phones -> accounts \cup {None}] /\ is_read' \subseteq listed
    BY <1>2 DEF NoticesInv, NoticesTypes
  <2> QED BY <1>2, <1>3, <2>1, <2>2, <2>3, ListsStay
<1> QED BY <1>4, <1>5

\* Devices change hands and rows are read.
LEMMA StepsOfDevices ==
  ASSUME NoticesInv,
         \/ \E d \in Phones, u \in Users : PhoneRegistered(d, u) \/ PhoneUnregistered(d, u)
         \/ \E u \in Users : ReadAll(u)
  PROVE  NoticesInv'
<1>1. /\ work' = work /\ UNCHANGED <<accounts, listed, meant, pushed>>
      /\ phoneOf' \in [Phones -> accounts \cup {None}] /\ is_read' \subseteq listed
  BY DEF PhoneRegistered, PhoneUnregistered, ReadAll, NoticesInv, NoticesTypes
<1>2. (\A m, x : Meant(m, x) => Meant(m, x)') => DOMAIN work' = Workers /\ NoticesWork'
  BY <1>1, NotifierStays
<1>3. \A p \in pushed' : Meant(p[1], p[2])
  BY <1>1 DEF NoticesInv, NoticesKept
<1> QED BY <1>1, <1>2, <1>3, ListsStay

LEMMA StepReadLoads ==
  ASSUME NoticesInv, NEW w \in Workers, NEW n, NEW u, ReadLoads(w, n, u) PROVE NoticesInv'
<1> DEFINE job == [op |-> "read", row |-> <<n, u>>]
<1>1. job.op = "read" /\ work' = [work EXCEPT ![w] = job] /\ UNCHANGED NoticesVars
  BY DEF ReadLoads, Starts
<1> HIDE DEF job
<1> QED BY <1>1, NotifierQuiet

LEMMA StepReadSaves == ASSUME NoticesInv, NEW w \in Workers, ReadSaves(w) PROVE NoticesInv'
<1>1. /\ work' = [work EXCEPT ![w] = Idle] /\ UNCHANGED <<accounts, phoneOf, listed, pushed, meant>>
      /\ is_read' \subseteq listed
  BY DEF ReadSaves, Ends, NoticesInv, NoticesTypes
<1>2. (\A m, x : Meant(m, x) => Meant(m, x)') => DOMAIN work' = Workers /\ NoticesWork'
  BY <1>1, NotifierFrees
<1>3. \A p \in pushed' : Meant(p[1], p[2])
  BY <1>1 DEF NoticesInv, NoticesKept
<1> QED BY <1>1, <1>2, <1>3, ListsStay DEF NoticesInv, NoticesTypes

\* The rows and tokens of an account go with it.
LEMMA StepAccountDeleted == ASSUME NoticesInv, NEW u \in Users, AccountDeleted(u) PROVE NoticesInv'
<1>1. /\ accounts' = accounts \ {u} /\ listed' = {r \in listed : r[2] # u} /\ is_read' = {r \in is_read : r[2] # u}
      /\ phoneOf' = [d \in Phones |-> IF phoneOf[d] = u THEN None ELSE phoneOf[d]]
      /\ UNCHANGED <<work, pushed, meant>>
  BY DEF AccountDeleted
<1>2. \A n, v : Meant(n, v)' <=> Meant(n, v)
  BY <1>1 DEF Meant
<1>3. DOMAIN work' = Workers /\ NoticesWork'
  BY <1>1, <1>2, NotifierStays
<1>4. NoticesTypes'
  <2>1. accounts' \subseteq Users /\ is_read' \subseteq listed'
    BY <1>1 DEF NoticesInv, NoticesTypes
  <2>2. \A d \in Phones : phoneOf[d] \in accounts \cup {None}
    BY DEF NoticesInv, NoticesTypes
  <2>3. phoneOf' \in [Phones -> accounts' \cup {None}]
    BY <1>1, <2>2
  <2>4. listed' \subseteq Messages \X accounts'
    BY <1>1 DEF NoticesInv, NoticesTypes
  <2>5. meant' \in [Messages -> (SUBSET Users) \cup {None}]
    BY <1>1 DEF NoticesInv, NoticesTypes
  <2> QED BY <1>3, <2>1, <2>3, <2>4, <2>5 DEF NoticesTypes
<1>5. NoticesKept'
  <2>1. ASSUME NEW n \in Messages, NEW v \in accounts'
        PROVE  <<n, v>> \in listed' <=> Meant(n, v)'
    <3>1. v \in accounts /\ v # u
      BY <1>1, <2>1
    <3>2. <<n, v>> \in listed' <=> <<n, v>> \in listed
      BY <1>1, <3>1
    <3> QED BY <1>2, <3>1, <3>2 DEF NoticesInv, NoticesKept
  <2>2. \A p \in pushed' : Meant(p[1], p[2])'
    BY <1>1, <1>2 DEF NoticesInv, NoticesKept
  <2> QED BY <2>1, <2>2 DEF NoticesKept
<1> QED BY <1>3, <1>4, <1>5 DEF NoticesInv

LEMMA NextNotices == NoticesInv /\ [NoticesNext]_<<work, NoticesVars>> => NoticesInv'
<1> SUFFICES ASSUME NoticesInv, [NoticesNext]_<<work, NoticesVars>> PROVE NoticesInv'
  OBVIOUS
<1>1. ASSUME NEW w \in Workers, Dies(w), UNCHANGED NoticesVars PROVE NoticesInv'
  <2> DEFINE job == Idle
  <2>1. job.op \notin {"tokens", "push", "broadcast"} /\ work' = [work EXCEPT ![w] = job]
    BY <1>1, IdleNotifier DEF Dies, Ends
  <2> HIDE DEF job
  <2> QED BY <1>1, <2>1, NotifierQuiet
<1>2. ASSUME UNCHANGED <<work, NoticesVars>> PROVE NoticesInv'
  <2>1. (\A m, x : Meant(m, x) => Meant(m, x)') => DOMAIN work' = Workers /\ NoticesWork'
    BY <1>2, NotifierStays
  <2> QED BY <1>2, <2>1, ListsStay DEF NoticesInv, NoticesTypes, NoticesKept, NoticesVars
<1>3. ASSUME NoticesNext PROVE NoticesInv'
  BY <1>1, <1>3, StepNotified, StepReadLoads, StepPushes, StepBroadcastReads, StepPhonesFound,
     StepBroadcastCommits, StepReadSaves, StepsOfDevices, StepAccountDeleted DEF NoticesNext
<1> QED BY <1>2, <1>3

\* Whatever overlaps, a message that was sent is in the list of exactly those
\* it was meant for who still have an account, and nothing else was pushed
\* (notifications/services.py:notify_user, admin_api/views.py).
THEOREM ListsAreAsMeant == NoticesSpec => [](NoticesType /\ ListedAsMeant)
<1>1. RequestsInit /\ NoticesStart => NoticesInv
  BY InitNotices
<1>2. NoticesInv /\ [NoticesNext]_<<work, NoticesVars>> => NoticesInv'
  BY NextNotices
<1>3. NoticesInv => NoticesType /\ ListedAsMeant
  BY DEF NoticesInv, NoticesTypes, NoticesKept, NoticesType, ListedAsMeant, Meant
<1> QED BY <1>1, <1>2, <1>3, PTL DEF NoticesSpec
=============================================================================
