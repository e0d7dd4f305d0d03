------------------------------- MODULE Staff --------------------------------
(***************************************************************************)
(* One-time codes and the branch agents linked with them.  A code is kept  *)
(* in the cache under its digits until it is used or expires; whoever      *)
(* knows the digits may use it.  A branch has at most one agent row, a     *)
(* user has at most one, and an active agent's device is its alone: these  *)
(* three are constraints of the database.  The rows are reused and moved,  *)
(* and PrimaryAgentHistory tells what happened to each branch.  Codes of   *)
(* one kind are presented where that kind is asked for.                    *)
(***************************************************************************)
EXTENDS Requests

CONSTANTS
    Digits,     \* what a code may be
    MaxSends,   \* codes one requester gets in a rate window (MAX_OTP_SENDS)
    Shops,      \* branches
    Devices,    \* devices agents log in from
    Rows        \* ids of PrimaryAgent rows

ASSUME StaffAssumption == MaxSends \in Nat

VARIABLES
    code,       \* cache: digits -> what the code was sent for, None without an entry
    lock,       \* digits whose ten second lock is in the cache
    sends,      \* cache: codes sent to each requester in the window
    minted,     \* history: what the digits were last minted for
    uses,       \* history: times the digits were accepted since then
    accepted,   \* history: what they were accepted for since then
    lapsed,     \* history: digits whose lock or entry ran out under a verification
    shops,      \* branches that exist
    agent,      \* PrimaryAgent rows, None where there is none
    latest,     \* the newest history entry of each branch, None without one
    vacated     \* history: branches whose agent left without an entry

CodesVars == <<code, lock, sends, minted, uses, accepted, lapsed>>
AgentsVars == <<shops, agent, latest, vacated>>
StaffVars == <<CodesVars, AgentsVars>>

(* What a code is for: the purpose, and the user or branch it stands for.  *)
Grants == [purpose : {"email", "role", "update"}, of : Users] \cup [purpose : {"link"}, of : Shops]
Requesters == Users \cup Shops

AgentRow == [shop : Shops, user : Users, device : Devices, revoked : BOOLEAN]
AgentAction == {"assigned", "reclaimed", "revoked", "unrevoked"}
ASSUME RowsAssumption ==
    /\ None \notin AgentRow \cup [user : Users, device : Devices, action : AgentAction]
    /\ IsFiniteSet(Rows) /\ IsFiniteSet(Shops) /\ Cardinality(Shops) <= Cardinality(Rows)

RowsAt(b) == {r \in Rows : agent[r] # None /\ agent[r].shop = b}
RowsFor(u) == {r \in Rows : agent[r] # None /\ agent[r].user = u}
Entry(row, action) == [user |-> row.user, device |-> row.device, action |-> action]

(* The three constraints of the table.                                     *)
Consistent(table) ==
    \A q, r \in Rows : q # r /\ table[q] # None /\ table[r] # None =>
        /\ table[q].shop # table[r].shop /\ table[q].user # table[r].user
        /\ table[q].device = table[r].device => table[q].revoked \/ table[r].revoked

StaffInit ==
    /\ code = [d \in Digits |-> None] /\ lock = {} /\ sends = [q \in Requesters |-> 0]
    /\ minted = [d \in Digits |-> None] /\ uses = [d \in Digits |-> 0]
    /\ accepted = [d \in Digits |-> {}] /\ lapsed = {}
    /\ shops = Shops /\ agent = [r \in Rows |-> None]
    /\ latest = [b \in Shops |-> None] /\ vacated = {}

-----------------------------------------------------------------------------
\* A bug: the lock of the digits is not honoured.
UnlockedAlways(d) == TRUE
Unlocked(d) == d \notin lock

Verifying(d) == \E w \in Workers : Doing(w, "verify") /\ work[w].digits = d

(* OTPManager.send and send_blank: the rate limit is read and written, and *)
(* a code is minted whose digits are not in the cache.                     *)
SendReads(w, grant) ==
    /\ Free(w)
    /\ grant.purpose = "link" => grant.of \in shops
    /\ sends[grant.of] < MaxSends
    /\ Starts(w, [op |-> "send", grant |-> grant, before |-> sends[grant.of]])
    /\ UNCHANGED StaffVars

SendMints(w, d) ==
    LET j == work[w] IN
    /\ Doing(w, "send") /\ code[d] = None
    /\ sends' = [sends EXCEPT ![j.grant.of] = j.before + 1]
    /\ code' = [code EXCEPT ![d] = j.grant]
    /\ minted' = [minted EXCEPT ![d] = j.grant]
    /\ uses' = [uses EXCEPT ![d] = 0]
    /\ accepted' = [accepted EXCEPT ![d] = {}]
    /\ lapsed' = IF Verifying(d) THEN lapsed ELSE lapsed \ {d}
    /\ Ends(w)
    /\ UNCHANGED <<lock, AgentsVars>>

RateWindowEnds(q) ==
    /\ sends[q] > 0
    /\ sends' = [sends EXCEPT ![q] = 0]
    /\ UNCHANGED <<work, code, lock, minted, uses, accepted, lapsed, AgentsVars>>

(* OTPManager.verify: the lock is taken and stays, the entry is read, and  *)
(* deleted in a later call.  A caller says whose the code should be.       *)
VerifyTakes(w, d, claim) ==
    /\ Free(w) /\ Unlocked(d)
    /\ lock' = lock \cup {d}
    /\ IF code[d] = None THEN UNCHANGED work
       ELSE Starts(w, [op |-> "verify", digits |-> d, grant |-> code[d], claim |-> claim])
    /\ UNCHANGED <<code, sends, minted, uses, accepted, lapsed, AgentsVars>>

(* services.verify compares what the code stands for with the claim, for   *)
(* an email; RegisterBAdmin, PasswordResetView, AppAdminApproveView and    *)
(* the receivers of changed details then do their one write.               *)
Honoured(grant, claim) == grant.purpose = "email" => claim = grant.of

VerifyDeletes(w) ==
    LET j == work[w]
        granted == [j.grant EXCEPT !.of = IF j.grant.purpose = "email" THEN j.claim ELSE @] IN
    /\ Doing(w, "verify")
    /\ code' = [code EXCEPT ![j.digits] = None]
    /\ uses' = [uses EXCEPT ![j.digits] = @ + 1]
    /\ accepted' = IF Honoured(j.grant, j.claim)
                      THEN [accepted EXCEPT ![j.digits] = @ \cup {granted}] ELSE accepted
    /\ IF j.grant.purpose = "link" THEN Starts(w, [op |-> "linked", shop |-> j.grant.of]) ELSE Ends(w)
    /\ UNCHANGED <<lock, sends, minted, lapsed, AgentsVars>>

LockLapses(d) ==
    /\ d \in lock
    /\ lock' = lock \ {d}
    /\ lapsed' = IF Verifying(d) THEN lapsed \cup {d} ELSE lapsed
    /\ UNCHANGED <<work, code, sends, minted, uses, accepted, AgentsVars>>

CodeExpires(d) ==
    /\ code[d] # None
    /\ code' = [code EXCEPT ![d] = None]
    /\ lapsed' = IF Verifying(d) THEN lapsed \cup {d} ELSE lapsed
    /\ UNCHANGED <<work, lock, sends, minted, uses, accepted, AgentsVars>>

-----------------------------------------------------------------------------
Linking(w) == Doing(w, "linking")

(* LinkApproveView begins with such a verification; where the codes are    *)
(* left out, it is for any branch.                                         *)
LinkAccepted(w, b) ==
    /\ Free(w) /\ b \in shops
    /\ Starts(w, [op |-> "linked", shop |-> b])
    /\ UNCHANGED StaffVars

(* Up to the last row it locks: the branch and the new agent's account are *)
(* locked, the row that account has is only read.                          *)
LinkReads(w, u, device) ==
    LET b == work[w].shop
        elsewhere(r) == ~agent[r].revoked /\ agent[r].shop # b IN
    /\ Doing(w, "linked")
    /\ \A v \in Workers : Linking(v) => work[v].shop # b /\ work[v].user # u
    /\ IF b \notin shops \/ \E r \in RowsFor(u) : elsewhere(r)
         THEN Ends(w)
         ELSE Starts(w, [op |-> "linking", shop |-> b, user |-> u, device |-> device,
                         target |-> IF RowsFor(u) = {} THEN None ELSE CHOOSE r \in RowsFor(u) : TRUE])
    /\ UNCHANGED StaffVars

(* The rest: refused when the branch has an active agent or its old one's  *)
(* device is somebody's; else the account's own row is moved here and the  *)
(* branch's old row dropped, or the old row is given to the new agent, or  *)
(* a row is created.  A constraint violated undoes it all.                 *)
Placed(j) ==
    LET here == RowsAt(j.shop)
        row == [shop |-> j.shop, user |-> j.user, device |-> j.device, revoked |-> FALSE]
        free == {r \in Rows : agent[r] = None}
        id == IF j.target # None THEN j.target
              ELSE IF here # {} THEN CHOOSE r \in here : TRUE ELSE CHOOSE r \in free : TRUE IN
    [r \in Rows |-> IF r = id THEN row ELSE IF r \in here THEN None ELSE agent[r]]

LinkCommits(w) ==
    LET j == work[w]
        here == RowsAt(j.shop)
        taken(r) == \E q \in Rows \ {r} : agent[q] # None /\ ~agent[q].revoked /\ agent[q].device = j.device
        refused == \E r \in here : taken(r) \/ ~agent[r].revoked
        reclaims == j.target # None /\ j.target \notin here
        stale == reclaims /\ agent[j.target] # None /\ ~agent[j.target].revoked
        row == [user |-> j.user, device |-> j.device] IN
    /\ Linking(w)
    /\ Ends(w)
    /\ IF refused \/ ~Consistent(Placed(j)) THEN UNCHANGED AgentsVars
       ELSE /\ agent' = Placed(j)
            /\ latest' = [latest EXCEPT ![j.shop] =
                            Entry(row, IF reclaims THEN "reclaimed" ELSE "assigned")]
            /\ vacated' = (vacated \cup (IF stale THEN {agent[j.target].shop} ELSE {})) \ {j.shop}
            /\ UNCHANGED shops
    /\ UNCHANGED CodesVars

\* A bug: no history entry is written.
RevokeUnrecorded(r, revoked) ==
    /\ agent[r] # None
    /\ agent' = [agent EXCEPT ![r].revoked = revoked]
    /\ Consistent(agent')
    /\ UNCHANGED <<work, shops, latest, vacated, CodesVars>>

(* StaffRevokeView, under the row's lock.                                  *)
Revoke(r, revoked) ==
    /\ agent[r] # None
    /\ agent' = [agent EXCEPT ![r].revoked = revoked]
    /\ Consistent(agent')
    /\ latest' = [latest EXCEPT ![agent[r].shop] =
                    Entry(agent[r], IF revoked THEN "revoked" ELSE "unrevoked")]
    /\ UNCHANGED <<work, shops, vacated, CodesVars>>

(* DeleteBranchView, whose DELETE waits for who has the branch locked, and *)
(* DeleteAccountView and Delete2AccountView.                               *)
DeleteBranch(b) ==
    /\ b \in shops /\ \A w \in Workers : Linking(w) => work[w].shop # b
    /\ shops' = shops \ {b}
    /\ agent' = [r \in Rows |-> IF r \in RowsAt(b) THEN None ELSE agent[r]]
    /\ latest' = [latest EXCEPT ![b] = None]
    /\ vacated' = vacated \ {b}
    /\ UNCHANGED <<work, CodesVars>>

DeleteAccount(u) ==
    /\ RowsFor(u) # {} /\ \A w \in Workers : Linking(w) => work[w].user # u
    /\ agent' = [r \in Rows |-> IF r \in RowsFor(u) THEN None ELSE agent[r]]
    /\ vacated' = vacated \cup {agent[r].shop : r \in RowsFor(u)}
    /\ UNCHANGED <<work, shops, latest, CodesVars>>

-----------------------------------------------------------------------------
CodesNext(grants) ==
    \/ \E w \in Workers, g \in grants : SendReads(w, g)
    \/ \E w \in Workers, d \in Digits : SendMints(w, d)
    \/ \E w \in Workers, d \in Digits, u \in Users : VerifyTakes(w, d, u)
    \/ \E w \in Workers : VerifyDeletes(w)
    \/ \E d \in Digits : LockLapses(d) \/ CodeExpires(d)
    \/ \E q \in Requesters : RateWindowEnds(q)
    \/ \E w \in Workers : Dies(w) /\ UNCHANGED StaffVars

AgentsNext(logins) ==
    \/ \E w \in Workers, b \in Shops : LinkAccepted(w, b)
    \/ \E w \in Workers, login \in logins : LinkReads(w, login[1], login[2])
    \/ \E w \in Workers : LinkCommits(w)
    \/ \E r \in Rows, revoked \in BOOLEAN : Revoke(r, revoked)
    \/ \E b \in Shops : DeleteBranch(b)
    \/ \E login \in logins : DeleteAccount(login[1])
    \/ \E w \in Workers : Dies(w) /\ UNCHANGED StaffVars

-----------------------------------------------------------------------------
StaffType ==
    /\ \A d \in Digits : code[d] # None => code[d] \in Grants
    /\ lock \subseteq Digits /\ sends \in [Requesters -> 0 .. MaxSends]
    /\ \A d \in Digits : minted[d] # None => minted[d] \in Grants
    /\ uses \in [Digits -> Nat] /\ accepted \in [Digits -> SUBSET Grants] /\ lapsed \subseteq Digits
    /\ shops \subseteq Shops /\ vacated \subseteq shops
    /\ \A r \in Rows : agent[r] # None => agent[r] \in AgentRow
    /\ \A b \in Shops : latest[b] # None =>
         latest[b] \in [user : Users, device : Devices, action : AgentAction]

(* A code is accepted once, whoever asks at the same time, unless its lock *)
(* or its entry ran out under a verification; and only for what one was    *)
(* minted for (common/otp/base.py:OTPManager.verify,                       *)
(* authflow/services/services.py:verify).                                  *)
CodeUsedOnce ==
    \A d \in Digits \ lapsed :
        /\ uses[d] <= 1
        /\ code[d] # None => uses[d] = 0
        /\ accepted[d] \subseteq {minted[d]}

(* The newest history entry of a branch names its agent and device and     *)
(* tells whether it is revoked; and a branch whose history ends with an    *)
(* active agent has one, but for an account deleted and for a row that was *)
(* unrevoked while another branch was taking it over                       *)
(* (accounts/views/account_views.py:LinkApproveView,                       *)
(* business_api/views.py:StaffRevokeView).                                 *)
HistoryTellsAgent ==
    /\ \A r \in Rows : agent[r] # None =>
         LET h == latest[agent[r].shop] IN
         /\ h # None
         /\ <<h.user, h.device>> = <<agent[r].user, agent[r].device>>
         /\ agent[r].revoked <=> h.action = "revoked"
    /\ \A b \in Shops : latest[b] # None /\ RowsAt(b) = {} =>
         latest[b].action = "revoked" \/ b \in vacated
=============================================================================
