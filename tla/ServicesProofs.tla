--------------------------- MODULE ServicesProofs ---------------------------
(***************************************************************************)
(* The types of every part around orders and withdrawals, for any number   *)
(* of workers, users, rows and amounts.  A part's type is not inductive by *)
(* itself: what its workers remember between two steps has a type too, and *)
(* what they write is typed because the part's own invariant says what     *)
(* they read.  XTyped is the type of part X with that and the invariant    *)
(* of its theorem; it holds at the start and is kept by every step of X.   *)
(* In the end the parts are put together as MCServices does.               *)
(***************************************************************************)
EXTENDS MCServices, AccountsProofs, ShopProofs, PeopleProofs

-----------------------------------------------------------------------------
(* Ratings. *)
RatingJobs ==
  {Idle}
    \cup [op : {"rate"}, order : RatedOrders, stars : Stars, sum : Int, count : Nat]
    \cup [op : {"signal"}, party : Parties, stars : Stars, created : BOOLEAN]
RatingsTyped == RatingInv /\ RatingsType /\ work \in [Workers -> RatingJobs]

\* What a worker remembers of the op it is at.
LEMMA RatingJob ==
  ASSUME RatingsTyped, NEW w \in Workers
  PROVE  /\ Doing(w, "rate") =>
              work[w] \in [op : {"rate"}, order : RatedOrders, stars : Stars, sum : Int, count : Nat]
         /\ Doing(w, "signal") =>
              work[w] \in [op : {"signal"}, party : Parties, stars : Stars, created : BOOLEAN]
         /\ Idle \in RatingJobs
BY DEF RatingsTyped, RatingJobs, Doing, Idle

LEMMA BranchTotals ==
  ASSUME NEW f
  PROVE  /\ f \in [Parties -> Int] => Total(f) \in Int
         /\ f \in [Parties -> Nat] => Total(f) \in Nat
<1>1. IsFiniteSet(Branches) /\ Branches \subseteq Parties
  BY RatingsAssumption
<1>2. ASSUME f \in [Parties -> Int] PROVE SumFunctionOnSet(f, Branches) \in Int
  <2>1. \A p \in Branches : f[p] \in Int
    BY <1>1, <1>2
  <2> QED BY <1>1, <2>1, SumType
<1>3. ASSUME f \in [Parties -> Nat] PROVE SumFunctionOnSet(f, Branches) \in Nat
  <2>1. \A p \in Branches : f[p] \in Nat
    BY <1>1, <1>3
  <2> QED BY <1>1, <2>1, SumNat
<1> QED BY <1>2, <1>3 DEF Total

LEMMA SubmissionTyped ==
  ASSUME RatingsTyped, NEW w \in Workers, SubmitSaves(w)
  PROVE  RatingsType' /\ work' \in [Workers -> RatingJobs]
<1> DEFINE j == work[w]
           p == PartyOf(j.order)
           new == stars[j.order] = None
<1>1. j \in [op : {"rate"}, order : RatedOrders, stars : Stars, sum : Int, count : Nat]
  BY RatingJob DEF SubmitSaves
<1>2. p \in Parties /\ Stars \subseteq Int
  BY <1>1, PartyOfOrder, RatingsAssumption
<1>3. /\ stars' = [stars EXCEPT ![j.order] = j.stars] /\ ever' = ever \cup {j.order}
      /\ sum' = [sum EXCEPT ![p] = j.sum + j.stars - (IF new THEN 0 ELSE stars[j.order])]
      /\ count' = [count EXCEPT ![p] = j.count + (IF new THEN 1 ELSE 0)]
      /\ rollup' = IF p \in Branches THEN [sum |-> Total(sum'), count |-> Total(count')] ELSE rollup
      /\ work' = [work EXCEPT ![w] = [op |-> "signal", party |-> p, stars |-> j.stars, created |-> new]]
  BY DEF SubmitSaves, Starts
<1>4. /\ stars \in [RatedOrders -> Stars \cup {None}] /\ ever \subseteq RatedOrders
      /\ sum \in [Parties -> Int] /\ count \in [Parties -> Nat] /\ rollup \in [sum : Int, count : Nat]
      /\ work \in [Workers -> RatingJobs]
  BY DEF RatingsTyped, RatingsType
<1> HIDE DEF j, p
<1>5. /\ stars' \in [RatedOrders -> Stars \cup {None}] /\ ever' \subseteq RatedOrders
  BY <1>1, <1>3, <1>4
<1>6. sum' \in [Parties -> Int]
  <2>1. stars[j.order] \in Stars \cup {None} /\ j.sum \in Int /\ j.stars \in Stars
    BY <1>1, <1>4
  <2>2. (~new => stars[j.order] \in Int) /\ j.sum \in Int /\ j.stars \in Int
    BY <1>2, <2>1
  <2>3. j.sum + j.stars - (IF new THEN 0 ELSE stars[j.order]) \in Int
    BY <2>2
  <2> QED BY <1>2, <1>3, <1>4, <2>3
<1>7. count' \in [Parties -> Nat]
  <2>1. j.count + (IF new THEN 1 ELSE 0) \in Nat
    BY <1>1
  <2> QED BY <1>2, <1>3, <1>4, <2>1
<1>8. rollup' \in [sum : Int, count : Nat]
  BY <1>3, <1>4, <1>6, <1>7, BranchTotals
<1>9. work' \in [Workers -> RatingJobs]
  BY <1>1, <1>2, <1>3, <1>4 DEF RatingJobs
<1> QED BY <1>5, <1>6, <1>7, <1>8, <1>9 DEF RatingsType

LEMMA SignalTyped ==
  ASSUME RatingsTyped, NEW w \in Workers, SignalApplies(w)
  PROVE  RatingsType' /\ work' \in [Workers -> RatingJobs]
<1> DEFINE j == work[w]
<1>1. j \in [op : {"signal"}, party : Parties, stars : Stars, created : BOOLEAN]
  BY RatingJob DEF SignalApplies
<1>2. Once(j.created) \in 0 .. 1 /\ j.stars \in 1 .. 5
  <2>1. Once(j.created) \in 0 .. 1
    BY DEF Once
  <2>2. j.stars \in Stars
    BY <1>1
  <2> QED BY <2>1, <2>2, RatingsAssumption
<1>3. Once(j.created) * j.stars \in Int
  BY <1>2
<1>4. sum \in [Parties -> Int] /\ count \in [Parties -> Nat] /\ work \in [Workers -> RatingJobs]
  BY DEF RatingsTyped, RatingsType
<1>5. /\ sum' = [sum EXCEPT ![j.party] = @ + Once(j.created) * j.stars]
      /\ count' = [count EXCEPT ![j.party] = @ + Once(j.created)]
      /\ work' = [work EXCEPT ![w] = Idle] /\ UNCHANGED <<stars, ever, rollup>>
  BY DEF SignalApplies, Ends
<1> HIDE DEF j
<1>6. sum' \in [Parties -> Int]
  BY <1>1, <1>3, <1>4, <1>5
<1>7. count' \in [Parties -> Nat]
  BY <1>1, <1>2, <1>4, <1>5
<1>8. work' \in [Workers -> RatingJobs]
  BY <1>4, <1>5, RatingJob
<1> QED BY <1>5, <1>6, <1>7, <1>8 DEF RatingsTyped, RatingsType

LEMMA RatingDeletedTyped ==
  ASSUME RatingsTyped, NEW o \in RatedOrders, RatingDeleted(o)
  PROVE  RatingsType'
<1> DEFINE p == PartyOf(o)
           left == Left(count[p])
<1>1. /\ stars \in [RatedOrders -> Stars \cup {None}]
      /\ sum \in [Parties -> Int] /\ count \in [Parties -> Nat]
  BY DEF RatingsTyped, RatingsType
<1>2. p \in Parties /\ stars[o] \in Int
  <2>1. stars[o] \in Stars
    BY <1>1 DEF RatingDeleted
  <2>2. p \in Parties
    BY PartyOfOrder
  <2>3. Stars \subseteq Int
    BY RatingsAssumption
  <2> QED BY <2>1, <2>2, <2>3
<1>3. left \in Nat
  BY <1>1, <1>2 DEF Left
<1>4. /\ stars' = [stars EXCEPT ![o] = None] /\ count' = [count EXCEPT ![p] = left]
      /\ sum' = [sum EXCEPT ![p] = IF left = 0 THEN 0 ELSE @ - stars[o]]
      /\ UNCHANGED <<ever, rollup>>
  BY DEF RatingDeleted
<1> HIDE DEF p, left
<1>5. stars' \in [RatedOrders -> Stars \cup {None}] /\ count' \in [Parties -> Nat]
  BY <1>1, <1>2, <1>3, <1>4
<1>6. sum' \in [Parties -> Int]
  BY <1>1, <1>2, <1>4
<1> QED BY <1>4, <1>5, <1>6 DEF RatingsTyped, RatingsType

LEMMA RecountedTyped ==
  ASSUME RatingsTyped, NEW ps \in SUBSET Parties, Recounted(ps)
  PROVE  RatingsType'
<1>1. ASSUME NEW p \in Parties PROVE Cardinality({o \in Rated[p] : stars[o] # None}) \in Nat
  <2> DEFINE rows == {o \in Rated[p] : stars[o] # None}
  <2>1. rows \subseteq ever /\ IsFiniteSet(ever)
    BY DEF RatingsTyped, RatingInv, RatingTypes, RatedOrders
  <2>2. IsFiniteSet(rows)
    BY <2>1, FS_Subset
  <2> QED BY <2>2, FS_CardinalityType
<1>2. count' \in [Parties -> Nat]
  BY <1>1 DEF Recounted, RatingsTyped, RatingsType
<1> QED BY <1>2 DEF Recounted, RatingsTyped, RatingsType

LEMMA RatingsTypeKept ==
  RatingsTyped /\ [RatingsNext]_RatingsState => RatingsType' /\ work' \in [Workers -> RatingJobs]
<1> SUFFICES ASSUME RatingsTyped, [RatingsNext]_RatingsState
             PROVE  RatingsType' /\ work' \in [Workers -> RatingJobs]
  OBVIOUS
<1>1. ASSUME NEW w \in Workers, NEW o \in RatedOrders, NEW n \in Stars, SubmitReads(w, o, n)
      PROVE  RatingsType' /\ work' \in [Workers -> RatingJobs]
  <2>1. sum[PartyOf(o)] \in Int /\ count[PartyOf(o)] \in Nat
    BY PartyOfOrder DEF RatingsTyped, RatingsType
  <2>2. work' \in [Workers -> RatingJobs]
    BY <1>1, <2>1 DEF SubmitReads, Starts, RatingsTyped, RatingJobs
  <2> QED BY <1>1, <2>2 DEF SubmitReads, RatingsVars, RatingsTyped, RatingsType
<1>2. ASSUME NEW w \in Workers, Dies(w) /\ UNCHANGED RatingsVars
      PROVE  RatingsType' /\ work' \in [Workers -> RatingJobs]
  BY <1>2, RatingJob DEF Dies, Ends, RatingsVars, RatingsTyped, RatingsType
<1>3. CASE UNCHANGED RatingsState
  BY <1>3 DEF RatingsState, RatingsVars, RatingsTyped, RatingsType
<1>4. ASSUME NEW o \in RatedOrders, RatingDeleted(o)
      PROVE  RatingsType' /\ work' \in [Workers -> RatingJobs]
  BY <1>4, RatingDeletedTyped DEF RatingDeleted, RatingsTyped
<1>5. ASSUME NEW ps \in {Parties \ Branches, Branches}, Recounted(ps)
      PROVE  RatingsType' /\ work' \in [Workers -> RatingJobs]
  <2>1. ps \in SUBSET Parties
    BY RatingsAssumption
  <2> QED BY <1>5, <2>1, RecountedTyped DEF Recounted, RatingsTyped
<1> QED BY <1>1, <1>2, <1>3, <1>4, <1>5, SubmissionTyped, SignalTyped DEF RatingsNext

-----------------------------------------------------------------------------
(* Coupons. *)
SpunByRegulars ==
  /\ \A w \in Workers : Doing(w, "spin") => work[w].user \in Regulars
  /\ \A c \in Coupons : \A i \in 1 .. Len(wallet[c]) : wallet[c][i].user \in Regulars

CouponsTyped == CouponInv /\ SpunByRegulars

LEMMA CouponsTypedType == CouponsTyped => CouponsType
<1> SUFFICES ASSUME CouponInv, SpunByRegulars PROVE CouponsType
  BY DEF CouponsTyped
<1>1. ASSUME NEW c \in Coupons, NEW i \in DOMAIN wallet[c]
      PROVE  wallet[c][i] \in [user : Regulars, during : BOOLEAN]
  <2>1. wallet[c] \in Seq(WalletEntry)
    BY DEF CouponInv, CouponTypes
  <2>2. i \in 1 .. Len(wallet[c]) /\ wallet[c][i] \in WalletEntry
    BY <2>1
  <2> QED BY <2>2 DEF SpunByRegulars, WalletEntry
<1> QED BY <1>1 DEF CouponInv, CouponTypes, CouponsType, CouponRow, WheelRow, Exists

LEMMA SpunByRegularsKept ==
  CouponInv /\ SpunByRegulars /\ [CouponsNext]_CouponsState => SpunByRegulars'
<1> SUFFICES ASSUME CouponInv, SpunByRegulars, [CouponsNext]_CouponsState PROVE SpunByRegulars'
  OBVIOUS
<1>0. work = [w \in Workers |-> work[w]] /\ wallet \in [Coupons -> Seq(WalletEntry)]
  BY DEF CouponInv, CouponTypes
<1>1. ASSUME NEW w \in Workers, NEW job, work' = [work EXCEPT ![w] = job],
             job.op = "spin" => job.user \in Regulars, UNCHANGED wallet
      PROVE  SpunByRegulars'
  BY <1>0, <1>1 DEF SpunByRegulars, Doing
<1>2. ASSUME UNCHANGED <<work, wallet>> PROVE SpunByRegulars'
  BY <1>2 DEF SpunByRegulars, Doing
<1>3. ASSUME NEW c \in Coupons, NEW form \in Forms, CouponCreated(c, form) PROVE SpunByRegulars'
  BY <1>2, <1>3 DEF CouponCreated
<1>4. ASSUME NEW w \in Workers, NEW c \in Coupons, CouponLoads(w, c) PROVE SpunByRegulars'
  BY <1>1, <1>4 DEF CouponLoads, Starts, CouponsVars
<1>5. ASSUME NEW w \in Workers, NEW form \in Forms, CouponSaves(w, form) PROVE SpunByRegulars'
  BY <1>1, <1>5 DEF CouponSaves, Ends, Idle
<1>6. ASSUME NEW c \in Coupons, WindowPasses(c) PROVE SpunByRegulars'
  BY <1>2, <1>6 DEF WindowPasses
<1>7. ASSUME NEW k \in Wheels, NEW active \in BOOLEAN, NEW chosen \in SUBSET Coupons,
             WheelSaved(k, active, chosen)
      PROVE  SpunByRegulars'
  BY <1>2, <1>7 DEF WheelSaved
<1>8. ASSUME NEW w \in Workers, NEW u \in Users, NEW k \in Wheels, SpinReads(w, u, k)
      PROVE  SpunByRegulars'
  BY <1>1, <1>8 DEF SpinReads, Starts, CouponsVars
<1>9. ASSUME NEW w \in Workers, NEW c \in Coupons, SpinAwards(w, c) PROVE SpunByRegulars'
  <2> DEFINE entry == [user |-> work[w].user, during |-> Updating(c)]
  <2>1. /\ wallet' = [wallet EXCEPT ![c] = Append(wallet[c], entry)]
        /\ work' = [work EXCEPT ![w] = Idle] /\ entry.user \in Regulars
    BY <1>0, <1>9 DEF SpinAwards, Ends, SpunByRegulars
  <2> HIDE DEF entry
  <2>2. \A v \in Workers : Doing(v, "spin")' => work'[v].user \in Regulars
    BY <1>0, <2>1 DEF SpunByRegulars, Doing, Idle
  <2>3. ASSUME NEW d \in Coupons, NEW i \in 1 .. Len(wallet'[d]) PROVE wallet'[d][i].user \in Regulars
    <3>1. wallet[d] \in Seq(WalletEntry)
      BY <1>0
    <3>2. CASE d # c
      BY <1>0, <2>1, <2>3, <3>2 DEF SpunByRegulars
    <3>3. CASE d = c
      <4> DEFINE s == wallet[c]
      <4>1. s \in Seq(WalletEntry) /\ wallet'[d] = Append(s, entry)
        BY <1>0, <2>1, <3>3
      <4>2. \A k \in 1 .. Len(s) : s[k].user \in Regulars
        BY DEF SpunByRegulars
      <4> HIDE DEF s
      <4>3. Len(s) \in Nat /\ i \in 1 .. Len(s) + 1
            /\ Append(s, entry)[i] = IF i = Len(s) + 1 THEN entry ELSE s[i]
        BY <2>3, <4>1
      <4> QED BY <2>1, <4>1, <4>2, <4>3
    <3> QED BY <3>2, <3>3
  <2> QED BY <2>2, <2>3 DEF SpunByRegulars
<1>10. ASSUME NEW w \in Workers, NEW c \in Coupons, SpinMisses(w, c) PROVE SpunByRegulars'
  <2>1. CASE work' = [work EXCEPT ![w] = Idle]
    BY <1>1, <1>10, <2>1 DEF SpinMisses, CouponsVars, Idle
  <2>2. CASE work' = [work EXCEPT ![w] = [work[w] EXCEPT !.offers = @ \ {c}, !.again = FALSE]]
    <3>1. [work[w] EXCEPT !.offers = @ \ {c}, !.again = FALSE].user = work[w].user
      OBVIOUS
    <3>2. work[w].user \in Regulars
      BY <1>10 DEF SpinMisses, SpunByRegulars
    <3> QED BY <1>1, <1>10, <2>2, <3>1, <3>2 DEF SpinMisses, CouponsVars
  <2> QED BY <1>10, <2>1, <2>2 DEF SpinMisses, Starts, Ends
<1>11. ASSUME NEW w \in Workers, Dies(w), UNCHANGED CouponsVars PROVE SpunByRegulars'
  BY <1>1, <1>11 DEF Dies, Ends, Idle, CouponsVars
<1>12. CASE UNCHANGED CouponsState
  BY <1>2, <1>12 DEF CouponsState, CouponsVars
<1> QED BY <1>3, <1>4, <1>5, <1>6, <1>7, <1>8, <1>9, <1>10, <1>11, <1>12 DEF CouponsNext

-----------------------------------------------------------------------------
(* Points. *)
LedgerRow ==
  [user : Users, key : ClientKeys \cup {b.key : b \in owed}, points : Int, after : Int, month : 1 .. LastMonth]
StandingRow == [user : Users, points : Nat]

\* What a worker is about to write is a row of its table, and a snapshot is
\* of a month that has ended.
PointsTyped ==
  /\ PointsInv
  /\ month \in 1 .. LastMonth
  /\ ledger \subseteq LedgerRow
  /\ \A r \in redemptions : \E e \in ledger : e.key = r.key
  /\ DOMAIN snapshot = 1 .. LastMonth
  /\ \A m \in 1 .. LastMonth : snapshot[m] # None => snapshot[m] \subseteq StandingRow /\ m < month
  /\ \A w \in Workers :
       /\ Doing(w, "award") \/ Doing(w, "redeem") => work[w].row \in LedgerRow
       /\ Doing(w, "finalize") => work[w].month \in 1 .. month - 1 /\ work[w].rows \subseteq StandingRow

LEMMA PointsTypedType == PointsTyped => PointsType
<1> SUFFICES ASSUME PointsTyped PROVE PointsType
  OBVIOUS
<1>1. ASSUME NEW r \in redemptions
      PROVE  r \in [user : Users, key : {e.key : e \in ledger}, points : Amounts, status : Statuses]
  <2>1. r \in Redemption /\ \E e \in ledger : e.key = r.key
    BY DEF PointsTyped, PointsInv, PointsTypes
  <2> QED BY <2>1 DEF Redemption
<1>2. rule \in RuleValues \cup {None}
  BY DEF PointsTyped, PointsInv, PointsTypes
<1> QED BY <1>1, <1>2 DEF PointsTyped, PointsType, LedgerRow, StandingRow

LEMMA NewRowTyped ==
  ASSUME PointsTyped, NEW u \in Users, NEW key \in ClientKeys \cup {b.key : b \in owed}, NEW n \in Int
  PROVE  NewRow(u, key, n) \in LedgerRow
<1>1. Balance(u) \in Int
  BY BalanceIsInt DEF PointsTyped, PointsInv, Balance, RowsOf, BalanceIn
<1> QED BY <1>1 DEF NewRow, LedgerRow, PointsTyped

LEMMA StandingTyped ==
  ASSUME PointsTyped, NEW m
  PROVE  Standing(m) \subseteq StandingRow
<1> DEFINE Earned(u) == Sum({e \in RowsOf(u) : e.month = m})
<1>1. ASSUME NEW u PROVE Earned(u) \in Int
  <2> DEFINE mine == {e \in RowsOf(u) : e.month = m}
             f == [e \in mine |-> e.points]
  <2>1. IsFiniteSet(mine) /\ mine \subseteq ledger
    BY FS_Subset DEF PointsTyped, PointsInv, PointsTypes, RowsOf
  <2>2. \A e \in mine : f[e] \in Int
    BY <2>1 DEF PointsTyped, PointsInv, PointsTypes
  <2> QED BY <2>1, <2>2, SumType DEF Sum, SumFunction
<1>2. Standing(m) = {[user |-> u, points |-> Earned(u)] : u \in {v \in Users : Earned(v) > 0}}
  BY DEF Standing
<1> HIDE DEF Earned
<1>3. ASSUME NEW u \in Users, Earned(u) > 0 PROVE [user |-> u, points |-> Earned(u)] \in StandingRow
  BY <1>1, <1>3 DEF StandingRow
<1> QED BY <1>2, <1>3

\* A worker turns to a job, and the ledger and the requests stay or take it.
LEMMA PointsTypedStep ==
  ASSUME PointsTyped, PointsInv', NEW w \in Workers, NEW job, work' = [work EXCEPT ![w] = job],
         UNCHANGED <<owed, month>>, ledger \subseteq ledger', ledger' \subseteq LedgerRow,
         \A r \in redemptions' : \E e \in ledger' : e.key = r.key,
         UNCHANGED snapshot \/
           (DOMAIN snapshot' = DOMAIN snapshot /\
            \A m \in DOMAIN snapshot : snapshot'[m] = snapshot[m]
                 \/ (snapshot'[m] \subseteq StandingRow /\ m < month)),
         job.op \in {"award", "redeem"} => job.row \in LedgerRow,
         job.op = "finalize" => job.month \in 1 .. month - 1 /\ job.rows \subseteq StandingRow
  PROVE  PointsTyped'
<1>1. work = [v \in Workers |-> work[v]]
  BY DEF PointsTyped, PointsInv, PointsTypes
<1>2. LedgerRow' = LedgerRow /\ StandingRow' = StandingRow
  BY DEF LedgerRow, StandingRow
<1>3. ASSUME NEW v \in Workers
      PROVE  /\ Doing(v, "award")' \/ Doing(v, "redeem")' => work'[v].row \in LedgerRow
             /\ Doing(v, "finalize")' => work'[v].month \in 1 .. month - 1 /\ work'[v].rows \subseteq StandingRow
  <2>1. CASE v = w
    BY <1>1, <2>1 DEF Doing
  <2>2. CASE v # w
    BY <1>1, <2>2 DEF Doing, PointsTyped
  <2> QED BY <2>1, <2>2
<1>4. /\ DOMAIN snapshot' = 1 .. LastMonth
      /\ \A m \in 1 .. LastMonth : snapshot'[m] # None => snapshot'[m] \subseteq StandingRow /\ m < month
  BY DEF PointsTyped
<1> QED BY <1>2, <1>3, <1>4 DEF PointsTyped

LEMMA PointsTypedAside ==
  ASSUME PointsTyped, PointsInv', UNCHANGED <<work, ledger, redemptions, snapshot>>, owed \subseteq owed',
         month' \in 1 .. LastMonth, month <= month'
  PROVE  PointsTyped'
<1>1. LedgerRow \subseteq LedgerRow' /\ StandingRow' = StandingRow
  <2>1. {b.key : b \in owed} \subseteq {b.key : b \in owed'}
    OBVIOUS
  <2> QED BY <2>1 DEF LedgerRow, StandingRow
<1>2. ASSUME NEW m \in 1 .. LastMonth, snapshot[m] # None PROVE snapshot[m] \subseteq StandingRow /\ m < month'
  BY <1>2 DEF PointsTyped
<1>3. ASSUME NEW v \in Workers
      PROVE  /\ Doing(v, "award") \/ Doing(v, "redeem") => work[v].row \in LedgerRow'
             /\ Doing(v, "finalize") => work[v].month \in 1 .. month' - 1 /\ work[v].rows \subseteq StandingRow
  <2>1. Doing(v, "award") \/ Doing(v, "redeem") => work[v].row \in LedgerRow
    BY DEF PointsTyped
  <2>2. Doing(v, "finalize") => work[v].month \in 1 .. month' - 1 /\ work[v].rows \subseteq StandingRow
    BY DEF PointsTyped
  <2> QED BY <1>1, <2>1, <2>2
<1>4. \A v \in Workers, op \in {"award", "redeem", "finalize"} : Doing(v, op)' = Doing(v, op)
  BY DEF Doing
<1>5. ledger' \subseteq LedgerRow' /\ DOMAIN snapshot' = 1 .. LastMonth
  BY <1>1 DEF PointsTyped
<1> QED BY <1>1, <1>2, <1>3, <1>4, <1>5 DEF PointsTyped

LEMMA IdleForPoints == Idle.op \notin {"award", "redeem", "resolve", "finalize"}
  BY DEF Idle

LEMMA RedeemingTyped ==
  ASSUME PointsTyped, PointsInv', NEW w \in Workers, Redeeming(w)
  PROVE  PointsTyped'
<1>1. ASSUME NEW u \in Users, NEW n \in Amounts, NEW k \in ClientKeys, RedeemReads(w, u, n, k)
      PROVE  PointsTyped'
  <2> DEFINE row == IF RowOf(k) = {} THEN NewRow(u, k, 0 - n) ELSE CHOOSE e \in RowOf(k) : TRUE
             job == [op |-> "redeem", user |-> u, points |-> n, row |-> row]
  <2>1. row \in LedgerRow
    <3>1. NewRow(u, k, 0 - n) \in LedgerRow
      BY PointsAssumption, NewRowTyped
    <3>2. RowOf(k) # {} => (CHOOSE e \in RowOf(k) : TRUE) \in ledger
      BY DEF RowOf
    <3> QED BY <3>1, <3>2 DEF PointsTyped
  <2>2. work' = [work EXCEPT ![w] = job] /\ UNCHANGED <<owed, month, ledger, redemptions, snapshot>>
    BY <1>1 DEF RedeemReads, Starts, PointsVars
  <2>3. job.op = "redeem" /\ job.row = row
    OBVIOUS
  <2> HIDE DEF row, job
  <2> QED BY <2>1, <2>2, <2>3, PointsTypedStep DEF PointsTyped
<1>2. CASE RedeemCommits(w)
  <2> DEFINE row == work[w].row
  <2>1. row \in LedgerRow
    BY <1>2 DEF RedeemCommits, PointsTyped
  <2>2. /\ work' = [work EXCEPT ![w] = Idle] /\ UNCHANGED <<owed, month, snapshot>>
        /\ \/ UNCHANGED <<ledger, redemptions>>
           \/ /\ ledger' = ledger \cup {row}
              /\ \A r \in redemptions' : r \in redemptions \/ r.key = row.key
    BY <1>2 DEF RedeemCommits, Ends
  <2> HIDE DEF row
  <2>3. ledger \subseteq ledger' /\ ledger' \subseteq LedgerRow /\ \A r \in redemptions' : \E e \in ledger' : e.key = r.key
    BY <2>1, <2>2 DEF PointsTyped
  <2> QED BY <2>2, <2>3, IdleForPoints, PointsTypedStep
<1>3. ASSUME NEW r \in redemptions, NEW s \in Statuses, ResolveReads(w, r, s)
      PROVE  PointsTyped'
  <2> DEFINE job == [op |-> "resolve", key |-> r.key, status |-> s]
  <2>1. work' = [work EXCEPT ![w] = job] /\ UNCHANGED <<owed, month, ledger, redemptions, snapshot>>
    BY <1>3 DEF ResolveReads, Starts, PointsVars
  <2>2. job.op = "resolve"
    OBVIOUS
  <2> HIDE DEF job
  <2> QED BY <2>1, <2>2, PointsTypedStep DEF PointsTyped
<1>4. CASE ResolveSaves(w)
  <2> DEFINE j == work[w]
             JudgedRow(r) == IF r.key = j.key THEN [r EXCEPT !.status = j.status] ELSE r
  <2>1. /\ work' = [work EXCEPT ![w] = Idle] /\ UNCHANGED <<owed, month, snapshot>>
        /\ redemptions' = {JudgedRow(r) : r \in redemptions}
        /\ ledger' = IF j.status = "rejected"
                       THEN ledger \cup UNION {Reversal(e) : e \in RowOf(j.key)} ELSE ledger
    BY <1>4 DEF ResolveSaves, Ends
  <2>2. \A e \in RowOf(j.key) : Reversal(e) = {}
    <3>1. j.key \in ClientKeys
      BY <1>4 DEF ResolveSaves, PointsTyped, PointsInv, PointsTypes, PointsWork
    <3>2. SUFFICES ASSUME NEW e \in RowOf(j.key) PROVE ~(e.points > 0)
      BY DEF Reversal
    <3>3. e \in ledger /\ e.key \in ClientKeys
      BY <3>1 DEF RowOf
    <3>4. PICK r \in redemptions : e.points = 0 - r.points
      BY <3>3 DEF PointsTyped, PointsInv, CountedOnce
    <3>5. r.points \in Nat \ {0}
      BY PointsAssumption DEF PointsTyped, PointsInv, PointsTypes, Redemption
    <3> QED BY <3>4, <3>5
  <2>3. ledger' = ledger
    <3>1. UNION {Reversal(e) : e \in RowOf(j.key)} = {}
      BY <2>2
    <3> QED BY <2>1, <3>1
  <2>4. \A r \in redemptions : JudgedRow(r).key = r.key
    BY DEF PointsTyped, PointsInv, PointsTypes, Redemption
  <2> HIDE DEF JudgedRow
  <2>5. \A r \in redemptions' : \E e \in ledger' : e.key = r.key
    BY <2>1, <2>3, <2>4 DEF PointsTyped
  <2> QED BY <2>1, <2>3, <2>5, IdleForPoints, PointsTypedStep DEF PointsTyped
<1> QED BY <1>1, <1>2, <1>3, <1>4 DEF Redeeming

LEMMA NextPointsTyped == PointsTyped /\ [PointsNext \/ AwardQueued]_PointsState => PointsTyped'
<1> SUFFICES ASSUME PointsTyped, [PointsNext \/ AwardQueued]_PointsState PROVE PointsTyped'
  OBVIOUS
<1>0. PointsInv'
  BY NextPoints DEF PointsTyped
<1>1. ASSUME NEW w \in Workers, Awarding(w) PROVE PointsTyped'
  <2>1. ASSUME NEW a \in owed, AwardReads(w, a) PROVE PointsTyped'
    <3> DEFINE row == NewRow(a.user, a.key, PointsFor(a))
               job == [op |-> "award", row |-> row]
    <3>1. a.user \in Users /\ a.points \in Nat \cup {None} /\ rule \in RuleValues \cup {None}
      BY DEF PointsTyped, PointsInv, PointsTypes
    <3>2. FlatPoints \in Nat
      BY <3>1, PointsAssumption DEF FlatPoints
    <3>3. PointsFor(a) \in Nat
      BY <3>1, <3>2 DEF PointsFor
    <3>4. row \in LedgerRow
      <4>1. a.key \in ClientKeys \cup {b.key : b \in owed} /\ PointsFor(a) \in Int
        BY <3>3
      <4> QED BY <3>1, <4>1, NewRowTyped
    <3>5. work' = [work EXCEPT ![w] = job] /\ UNCHANGED <<owed, month, ledger, redemptions, snapshot>>
      BY <2>1 DEF AwardReads, Starts, PointsVars
    <3>6. job.op = "award" /\ job.row = row
      OBVIOUS
    <3> HIDE DEF row, job
    <3> QED BY <1>0, <3>4, <3>5, <3>6, PointsTypedStep DEF PointsTyped
  <2>2. CASE AwardCommits(w)
    <3>1. work[w].row \in LedgerRow
      BY <2>2 DEF AwardCommits, PointsTyped
    <3>2. /\ work' = [work EXCEPT ![w] = Idle] /\ UNCHANGED <<owed, month, snapshot, redemptions>>
          /\ ledger' = ledger \cup {work[w].row} \/ ledger' = ledger
      BY <2>2 DEF AwardCommits, Ends
    <3>3. ledger \subseteq ledger' /\ ledger' \subseteq LedgerRow
      BY <3>1, <3>2 DEF PointsTyped
    <3>4. \A r \in redemptions' : \E e \in ledger' : e.key = r.key
      BY <3>2, <3>3 DEF PointsTyped
    <3> QED BY <1>0, <3>2, <3>3, <3>4, IdleForPoints, PointsTypedStep
  <2> QED BY <1>1, <2>1, <2>2 DEF Awarding
<1>2. ASSUME NEW w \in Workers, Ranking(w) PROVE PointsTyped'
  <2>1. CASE FinalizeReads(w)
    <3> DEFINE job == [op |-> "finalize", month |-> month - 1, rows |-> Standing(month - 1)]
    <3>1. work' = [work EXCEPT ![w] = job] /\ UNCHANGED <<owed, month, ledger, redemptions, snapshot>>
      BY <2>1 DEF FinalizeReads, Starts, PointsVars
    <3>2. job.op = "finalize" /\ job.month \in 1 .. month - 1 /\ job.rows \subseteq StandingRow
      BY <2>1, StandingTyped DEF FinalizeReads, PointsTyped
    <3> HIDE DEF job
    <3> QED BY <1>0, <3>1, <3>2, PointsTypedStep DEF PointsTyped
  <2>2. CASE FinalizeCommits(w)
    <3> DEFINE j == work[w]
    <3>1. j.month < month /\ j.rows \subseteq StandingRow
      <4>1. j.month \in 1 .. month - 1 /\ j.rows \subseteq StandingRow /\ month \in Int
        BY <2>2 DEF FinalizeCommits, PointsTyped
      <4> QED BY <4>1
    <3>2. /\ work' = [work EXCEPT ![w] = Idle] /\ UNCHANGED <<owed, month, ledger, redemptions>>
          /\ snapshot' = snapshot \/ snapshot' = [snapshot EXCEPT ![j.month] = j.rows]
      BY <2>2 DEF FinalizeCommits, Ends
    <3> HIDE DEF j
    <3>3. /\ DOMAIN snapshot' = DOMAIN snapshot
          /\ \A m \in DOMAIN snapshot :
               snapshot'[m] = snapshot[m] \/ (snapshot'[m] \subseteq StandingRow /\ m < month)
      BY <3>1, <3>2
    <3>4. ledger \subseteq ledger' /\ ledger' \subseteq LedgerRow /\ \A r \in redemptions' : \E e \in ledger' : e.key = r.key
      BY <3>2 DEF PointsTyped
    <3> QED BY <1>0, <3>2, <3>3, <3>4, IdleForPoints, PointsTypedStep
  <2> QED BY <1>2, <2>1, <2>2 DEF Ranking
<1>3. ASSUME NEW w \in Workers, Dies(w), UNCHANGED PointsVars PROVE PointsTyped'
  <2>1. work' = [work EXCEPT ![w] = Idle] /\ UNCHANGED <<owed, month, ledger, redemptions, snapshot>>
    BY <1>3 DEF Dies, Ends, PointsVars
  <2> QED BY <1>0, <2>1, IdleForPoints, PointsTypedStep DEF PointsTyped
<1>4. ASSUME NEW v \in RuleValues \cup {None}, SetRule(v) PROVE PointsTyped'
  BY <1>0, <1>4, PointsTypedAside DEF SetRule, PointsTyped
<1>5. CASE MonthEnds
  BY <1>0, <1>5, PointsAssumption, PointsTypedAside DEF MonthEnds, PointsTyped
<1>6. CASE UNCHANGED PointsState
  BY <1>0, <1>6, PointsTypedAside DEF PointsState, PointsVars, PointsTyped
<1>7. CASE AwardQueued
  BY <1>0, <1>7, PointsTypedAside DEF AwardQueued, PointsTyped, PointsInv, PointsTypes
<1> QED BY <1>0, <1>1, <1>2, <1>3, <1>4, <1>5, <1>6, <1>7, RedeemingTyped DEF PointsNext

-----------------------------------------------------------------------------
(* Subscriptions. *)
PayerTypes ==
  \A w \in Workers :
    /\ Doing(w, "features") => work[w].features \subseteq Features
    /\ Doing(w, "mark") \/ Doing(w, "card") => work[w].event \in events
SubscriptionsTyped == SubscriptionInv /\ SubscriptionsType /\ PayerTypes

\* A worker turns to a job that remembers as much as its type says.
LEMMA PayerTypesStep ==
  ASSUME SubscriptionsTyped, NEW w \in Workers, NEW job, work' = [work EXCEPT ![w] = job],
         events \subseteq events',
         job.op = "features" => job.features \subseteq Features,
         job.op \in {"mark", "card"} => job.event \in events'
  PROVE  PayerTypes'
<1>1. work = [v \in Workers |-> work[v]]
  BY DEF SubscriptionsTyped, SubscriptionInv, SubscriptionTypes
<1>2. ASSUME NEW v \in Workers
      PROVE  /\ Doing(v, "features")' => work'[v].features \subseteq Features
             /\ Doing(v, "mark")' \/ Doing(v, "card")' => work'[v].event \in events'
  <2>1. CASE v = w
    BY <1>1, <2>1 DEF Doing
  <2>2. CASE v # w
    BY <1>1, <2>2 DEF Doing, SubscriptionsTyped, PayerTypes
  <2> QED BY <2>1, <2>2
<1> QED BY <1>2 DEF PayerTypes

LEMMA PayerTypesStay ==
  ASSUME SubscriptionsTyped, UNCHANGED work, events \subseteq events'
  PROVE  PayerTypes'
  BY DEF SubscriptionsTyped, PayerTypes, Doing

LEMMA IdlePayerTypes == Idle.op \notin {"features", "mark", "card"}
  BY DEF Idle

LEMMA PlansTyped ==
  ASSUME SubscriptionsTyped, PlansNext
  PROVE  SubscriptionsType' /\ PayerTypes'
<1>1. ASSUME NEW w \in Workers, PlanCreate(w) PROVE SubscriptionsType' /\ PayerTypes'
  <2> DEFINE job == [op |-> "plan"]
  <2>1. work' = [work EXCEPT ![w] = job] /\ events' = events /\ job.op = "plan"
    BY <1>1 DEF PlanCreate, Starts
  <2> HIDE DEF job
  <2>2. PayerTypes'
    BY <2>1, PayerTypesStep
  <2> QED BY <1>1, <2>2 DEF PlanCreate, SubscriptionsTyped, SubscriptionsType
<1>2. ASSUME NEW w \in Workers, FeaturesRead(w) PROVE SubscriptionsType' /\ PayerTypes'
  <2> DEFINE job == [op |-> "features", features |-> plan.features]
  <2>1. work' = [work EXCEPT ![w] = job] /\ events' = events /\ job.op = "features"
    BY <1>2 DEF FeaturesRead, Starts, SubscriptionsVars
  <2>2. job.features \subseteq Features
    BY DEF SubscriptionsTyped, SubscriptionsType
  <2> HIDE DEF job
  <2>3. PayerTypes'
    BY <2>1, <2>2, PayerTypesStep
  <2> QED BY <1>2, <2>3 DEF FeaturesRead, SubscriptionsVars, SubscriptionsTyped, SubscriptionsType
<1>3. ASSUME NEW w \in Workers, FeaturesCache(w) PROVE SubscriptionsType' /\ PayerTypes'
  <2>1. work' = [work EXCEPT ![w] = Idle] /\ events' = events /\ cached' = work[w].features
    BY <1>3 DEF FeaturesCache, Ends
  <2>2. cached' \subseteq Features
    BY <1>3, <2>1 DEF FeaturesCache, SubscriptionsTyped, PayerTypes
  <2>3. PayerTypes'
    BY <2>1, IdlePayerTypes, PayerTypesStep
  <2> QED BY <1>3, <2>2, <2>3 DEF FeaturesCache, SubscriptionsTyped, SubscriptionsType
<1>4. ASSUME NEW w \in Workers, NEW f \in SUBSET Features, PlanSave(w, f)
      PROVE  SubscriptionsType' /\ PayerTypes'
  <2>1. work' = [work EXCEPT ![w] = Idle] /\ events' = events
    BY <1>4 DEF PlanSave, Ends
  <2>2. PayerTypes'
    BY <2>1, IdlePayerTypes, PayerTypesStep
  <2> QED BY <1>4, <2>2 DEF PlanSave, SubscriptionsTyped, SubscriptionsType
<1>5. ASSUME NEW f \in SUBSET Features, PlanUpdate(f) PROVE SubscriptionsType' /\ PayerTypes'
  BY <1>5, PayerTypesStay DEF PlanUpdate, SubscriptionsTyped, SubscriptionsType
<1>6. CASE PlanDisable
  BY <1>6, PayerTypesStay DEF PlanDisable, SubscriptionsTyped, SubscriptionsType
<1>7. CASE FeaturesExpire
  BY <1>7, PayerTypesStay DEF FeaturesExpire, SubscriptionsTyped, SubscriptionsType
<1> QED BY <1>1, <1>2, <1>3, <1>4, <1>5, <1>6, <1>7 DEF PlansNext

LEMMA SubscribingTyped ==
  ASSUME SubscriptionsTyped, SubscribingNext
  PROVE  SubscriptionsType' /\ PayerTypes'
<1>1. ASSUME NEW c \in Codes, Subscribe(c) \/ PaystackDisables(c)
             \/ \E fails \in BOOLEAN : CancelSubscription(c, fails)
      PROVE  SubscriptionsType' /\ PayerTypes'
  <2>1. /\ UNCHANGED <<work, processed, card, cut, plan, cached>>
        /\ \/ UNCHANGED remote
           \/ remote' = [remote EXCEPT ![c] = "live"]
           \/ remote' = [remote EXCEPT ![c] = "disabled"]
        /\ UNCHANGED sub \/ sub' = [sub EXCEPT ![c] = "inactive"]
        /\ \/ UNCHANGED events
           \/ events' = events \cup {Event("create", c)}
           \/ events' = events \cup {Event("disable", c)}
    BY <1>1 DEF Subscribe, PaystackDisables, CancelSubscription
  <2>2. /\ events \subseteq events'
        /\ events' \subseteq [type : {"create", "disable", "card"}, id : Codes \cup Cards]
    BY <2>1 DEF Event, SubscriptionsTyped, SubscriptionsType
  <2>3. /\ remote' \in [Codes -> {"none", "live", "disabled"}]
        /\ sub' \in [Codes -> {"none", "active", "inactive"}]
    BY <2>1 DEF SubscriptionsTyped, SubscriptionsType
  <2> QED BY <2>1, <2>2, <2>3, PayerTypesStay DEF SubscriptionsTyped, SubscriptionsType
<1>2. ASSUME NEW w \in Workers, NEW e \in events, EventApplies(w, e)
      PROVE  SubscriptionsType' /\ PayerTypes'
  <2> DEFINE job == [op |-> "mark", event |-> e]
  <2>1. /\ work' = [work EXCEPT ![w] = job] /\ events' = events /\ job.op = "mark" /\ job.event = e
        /\ UNCHANGED <<remote, events, processed, card, cut, plan, cached>>
        /\ sub' = Created(e.id) \/ sub' = sub \/ sub' = [sub EXCEPT ![e.id] = "inactive"]
    BY <1>2 DEF EventApplies, Starts, Disabled
  <2> HIDE DEF job
  <2>2. PayerTypes'
    BY <2>1, PayerTypesStep
  <2>3. sub' \in [Codes -> {"none", "active", "inactive"}]
    BY <2>1 DEF Created, SubscriptionsTyped, SubscriptionsType
  <2> QED BY <2>1, <2>2, <2>3 DEF SubscriptionsTyped, SubscriptionsType
<1> QED BY <1>1, <1>2 DEF SubscribingNext

LEMMA CardsTyped ==
  ASSUME SubscriptionsTyped, CardsNext
  PROVE  SubscriptionsType' /\ PayerTypes'
<1>1. ASSUME NEW c \in Cards, CardCharged(c) PROVE SubscriptionsType' /\ PayerTypes'
  <2>1. events' = events \cup {Event("card", c)} /\ UNCHANGED work
    BY <1>1 DEF CardCharged
  <2>2. /\ events \subseteq events'
        /\ events' \subseteq [type : {"create", "disable", "card"}, id : Codes \cup Cards]
    BY <2>1 DEF Event, SubscriptionsTyped, SubscriptionsType
  <2> QED BY <1>1, <2>1, <2>2, PayerTypesStay DEF CardCharged, SubscriptionsTyped, SubscriptionsType
<1>2. ASSUME NEW w \in Workers, NEW e \in events, CardReads(w, e) PROVE SubscriptionsType' /\ PayerTypes'
  <2> DEFINE job == IF card[e.id] = "none"
                      THEN [op |-> "card", event |-> e, first |-> FirstCard(Holder[e.id])]
                      ELSE [op |-> "mark", event |-> e]
  <2>1. work' = [work EXCEPT ![w] = job] /\ job.op \in {"mark", "card"} /\ job.event = e
    BY <1>2 DEF CardReads, Starts
  <2> HIDE DEF job
  <2>2. PayerTypes'
    BY <1>2, <2>1, PayerTypesStep DEF CardReads, SubscriptionsVars
  <2> QED BY <1>2, <2>2 DEF CardReads, SubscriptionsVars, SubscriptionsTyped, SubscriptionsType
<1>3. ASSUME NEW w \in Workers, NEW c \in Cards, PrimaryClears(w, c) PROVE SubscriptionsType' /\ PayerTypes'
  <2> DEFINE job == [op |-> "primary", card |-> c]
  <2>1. work' = [work EXCEPT ![w] = job] /\ events' = events /\ job.op = "primary"
    BY <1>3 DEF PrimaryClears, Starts
  <2> HIDE DEF job
  <2>2. PayerTypes'
    BY <2>1, PayerTypesStep
  <2>3. card' \in [Cards -> {"none", "plain", "primary"}]
    BY <1>3 DEF PrimaryClears, SubscriptionsTyped, SubscriptionsType
  <2> QED BY <1>3, <2>2, <2>3 DEF PrimaryClears, SubscriptionsTyped, SubscriptionsType
<1>4. ASSUME NEW w \in Workers, CardCreates(w) PROVE SubscriptionsType' /\ PayerTypes'
  <2> DEFINE job == IF card[work[w].event.id] = "none" THEN [op |-> "mark", event |-> work[w].event] ELSE Idle
  <2>1. /\ work' = [work EXCEPT ![w] = job] /\ events' = events
        /\ job.op \in {"mark", "idle"} /\ (job.op = "mark" => job.event = work[w].event)
    BY <1>4 DEF CardCreates, Starts, Ends, Idle
  <2>2. work[w].event \in events
    BY <1>4 DEF CardCreates, SubscriptionsTyped, PayerTypes
  <2> HIDE DEF job
  <2>3. PayerTypes'
    BY <2>1, <2>2, PayerTypesStep
  <2>4. card' \in [Cards -> {"none", "plain", "primary"}]
    BY <1>4 DEF CardCreates, SubscriptionsTyped, SubscriptionsType
  <2> QED BY <1>4, <2>3, <2>4 DEF CardCreates, SubscriptionsTyped, SubscriptionsType
<1>5. ASSUME NEW w \in Workers, PrimarySets(w) PROVE SubscriptionsType' /\ PayerTypes'
  <2>1. work' = [work EXCEPT ![w] = Idle] /\ events' = events
    BY <1>5 DEF PrimarySets, Ends
  <2>2. PayerTypes'
    BY <2>1, IdlePayerTypes, PayerTypesStep
  <2>3. card' \in [Cards -> {"none", "plain", "primary"}] /\ cut' \subseteq Users
    BY <1>5 DEF PrimarySets, SubscriptionsTyped, SubscriptionsType
  <2> QED BY <1>5, <2>2, <2>3 DEF PrimarySets, SubscriptionsTyped, SubscriptionsType
<1> QED BY <1>1, <1>2, <1>3, <1>4, <1>5 DEF CardsNext

LEMMA SubscriptionsTypeKept ==
  SubscriptionsTyped /\ [SubscriptionsNext]_SubscriptionsState => SubscriptionsType' /\ PayerTypes'
<1> SUFFICES ASSUME SubscriptionsTyped, [SubscriptionsNext]_SubscriptionsState
             PROVE  SubscriptionsType' /\ PayerTypes'
  OBVIOUS
<1>1. ASSUME NEW w \in Workers, EventMarked(w) PROVE SubscriptionsType' /\ PayerTypes'
  <2>1. work' = [work EXCEPT ![w] = Idle] /\ events' = events /\ work[w].event \in events
    BY <1>1 DEF EventMarked, Ends, SubscriptionsTyped, PayerTypes
  <2>2. PayerTypes'
    BY <2>1, IdlePayerTypes, PayerTypesStep
  <2> QED BY <1>1, <2>1, <2>2 DEF EventMarked, SubscriptionsTyped, SubscriptionsType
<1>2. ASSUME NEW w \in Workers, SubscriberDies(w) PROVE SubscriptionsType' /\ PayerTypes'
  <2>1. work' = [work EXCEPT ![w] = Idle] /\ events' = events
    BY <1>2 DEF SubscriberDies, Dies, Ends
  <2>2. PayerTypes'
    BY <2>1, IdlePayerTypes, PayerTypesStep
  <2>3. Doing(w, "primary") => Holder[work[w].card] \in Users
    BY SubscriptionsAssumption DEF SubscriptionsTyped, SubscriptionInv, SubscriptionWork
  <2>4. cut' \subseteq Users
    BY <1>2, <2>3 DEF SubscriberDies, SubscriptionsTyped, SubscriptionsType
  <2> QED BY <1>2, <2>2, <2>4 DEF SubscriberDies, SubscriptionsTyped, SubscriptionsType
<1>3. CASE UNCHANGED SubscriptionsState
  BY <1>3, PayerTypesStay DEF SubscriptionsState, SubscriptionsVars, SubscriptionsTyped, SubscriptionsType
<1> QED BY <1>1, <1>2, <1>3, PlansTyped, SubscribingTyped, CardsTyped DEF SubscriptionsNext, WorkerNext

-----------------------------------------------------------------------------
(* Onboarding of businesses. *)
\* A request remembers a business that exists.
OwnedBy(j, businesses) ==
  /\ j.op \in {"first", "review"} => j.own \in businesses \cup {None}
  /\ j.op \in {"second", "business", "papers"} => j.own \in businesses
BusinessTables ==
  /\ owned \in created \cup {None} /\ created \subseteq Businesses
  /\ ready \subseteq created /\ failed \subseteq created /\ located \subseteq created
  /\ excess \in 0 .. MaxExcess /\ reviewed \in BOOLEAN
BusinessTyped == BusinessInv /\ BusinessTables /\ \A w \in Workers : OwnedBy(work[w], created)

LEMMA BusinessTypedType == BusinessTyped => BusinessType
  BY DEF BusinessTyped, BusinessTables, BusinessInv, BusinessTypes, BusinessType

LEMMA IdleOwner == \A businesses : OwnedBy(Idle, businesses)
  BY DEF OwnedBy, Idle

LEMMA OwnersStep ==
  ASSUME BusinessTyped, NEW w \in Workers, NEW job, work' = [work EXCEPT ![w] = job],
         OwnedBy(job, created'), created \subseteq created'
  PROVE  \A v \in Workers : OwnedBy(work'[v], created')
<1> SUFFICES ASSUME NEW v \in Workers PROVE OwnedBy(work'[v], created')
  OBVIOUS
<1>1. DOMAIN work = Workers /\ OwnedBy(work[v], created)
  BY DEF BusinessTyped, BusinessInv, BusinessTypes
<1>2. CASE v = w
  BY <1>1, <1>2
<1>3. CASE v # w
  <2>1. work'[v] = work[v]
    BY <1>1, <1>3
  <2>2. OwnedBy(work[v], created')
    BY <1>1 DEF OwnedBy
  <2> QED BY <2>1, <2>2
<1> QED BY <1>2, <1>3

LEMMA ApplyingTyped ==
  ASSUME BusinessTyped, ApplyingNext(Businesses)
  PROVE  BusinessTables' /\ \A w \in Workers : OwnedBy(work'[w], created')
<1> DEFINE Typed == BusinessTables' /\ \A w \in Workers : OwnedBy(work'[w], created')
<1>0. BusinessTables /\ \A w \in Workers : OwnedBy(work[w], created)
  BY DEF BusinessTyped
<1>1. CASE Registered
  BY <1>0, <1>1 DEF Registered, BusinessTables
<1>2. ASSUME NEW w \in Workers, Phase1Reads(w) PROVE Typed
  <2> DEFINE job == [op |-> "first", own |-> owned, ready |-> owned \in ready]
  <2>1. work' = [work EXCEPT ![w] = job] /\ UNCHANGED BusinessVars /\ job.op = "first" /\ job.own = owned
    BY <1>2 DEF Phase1Reads, Starts
  <2> HIDE DEF job
  <2>2. created' = created /\ OwnedBy(job, created')
    BY <1>0, <2>1 DEF OwnedBy, BusinessTables, BusinessVars
  <2> QED BY <1>0, <2>1, <2>2, OwnersStep DEF BusinessTables, BusinessVars
<1>3. ASSUME NEW w \in Workers, NEW b \in Businesses, Phase1Saves(w, b) PROVE Typed
  <2>1. work' = [work EXCEPT ![w] = Idle] /\ UNCHANGED <<failed, located, excess>>
    BY <1>3 DEF Phase1Saves, Ends
  <2>2. BusinessTables' /\ created \subseteq created'
    <3>1. CASE work[w].own = None
      BY <1>0, <1>3, <3>1 DEF Phase1Saves, BusinessTables
    <3>2. CASE work[w].own # None
      <4>1. b \in created
        BY <1>0, <1>3, <3>2 DEF Phase1Saves, Doing, OwnedBy
      <4> QED BY <1>0, <1>3, <3>2, <4>1 DEF Phase1Saves, BusinessTables, Put
    <3> QED BY <3>1, <3>2
  <2> QED BY <2>1, <2>2, IdleOwner, OwnersStep
<1>4. ASSUME NEW w \in Workers, NEW on \in BOOLEAN, Phase2Reads(w, on) PROVE Typed
  <2> DEFINE job == [op |-> "second", own |-> owned, asks |-> on]
  <2>1. /\ work' = [work EXCEPT ![w] = job] /\ UNCHANGED BusinessVars
        /\ job.op = "second" /\ job.own = owned /\ owned # None
    BY <1>4 DEF Phase2Reads, Starts
  <2> HIDE DEF job
  <2>2. created' = created /\ OwnedBy(job, created')
    BY <1>0, <2>1 DEF OwnedBy, BusinessTables, BusinessVars
  <2> QED BY <1>0, <2>1, <2>2, OwnersStep DEF BusinessTables, BusinessVars
<1>5. ASSUME NEW w \in Workers, NEW lists \in BOOLEAN, Phase2Saves(w, lists) PROVE Typed
  <2>1. work' = [work EXCEPT ![w] = Idle] /\ UNCHANGED <<owned, created, excess>>
    BY <1>5 DEF Phase2Saves, Ends
  <2>2. work[w].own \in created
    BY <1>0, <1>5 DEF Phase2Saves, Doing, OwnedBy
  <2>3. /\ failed' \subseteq created /\ located' \subseteq created /\ reviewed' \in BOOLEAN
        /\ ready' \subseteq created
    BY <1>0, <1>5, <2>2 DEF Phase2Saves, WithBranches, Put, BusinessTables
  <2>4. BusinessTables'
    BY <1>0, <2>1, <2>3 DEF BusinessTables
  <2> QED BY <2>1, <2>4, IdleOwner, OwnersStep
<1>6. ASSUME NEW w \in Workers, Phase3Reads(w) PROVE Typed
  <2> DEFINE job == [op |-> "third", review |-> onboard.review, complete |-> onboard.complete]
  <2>1. work' = [work EXCEPT ![w] = job] /\ UNCHANGED BusinessVars /\ job.op = "third"
    BY <1>6 DEF Phase3Reads, Starts
  <2> HIDE DEF job
  <2>2. created' = created /\ OwnedBy(job, created')
    BY <2>1 DEF OwnedBy, BusinessVars
  <2> QED BY <1>0, <2>1, <2>2, OwnersStep DEF BusinessTables, BusinessVars
<1>7. ASSUME NEW w \in Workers, Phase3Saves(w) PROVE Typed
  <2>1. /\ work' = [work EXCEPT ![w] = Idle] /\ UNCHANGED <<owned, created, ready, failed, located>>
        /\ excess < MaxExcess /\ (excess' = excess + 1 \/ excess' = excess) /\ reviewed' \in BOOLEAN
    BY <1>7 DEF Phase3Saves, Ends
  <2>2. BusinessTables'
    BY <1>0, <2>1, OnboardingAssumption DEF BusinessTables
  <2> QED BY <2>1, <2>2, IdleOwner, OwnersStep
<1>8. ASSUME NEW w \in Workers, ApplicantDies(w) PROVE Typed
  <2>1. work' = [work EXCEPT ![w] = Idle] /\ UNCHANGED BusinessVars
    BY <1>8 DEF ApplicantDies, Dies, Ends
  <2> QED BY <1>0, <2>1, IdleOwner, OwnersStep DEF BusinessTables, BusinessVars
<1>9. CASE TinChecked \/ RcChecked \/ BusinessBvnChecked
  BY <1>0, <1>9 DEF TinChecked, RcChecked, BusinessBvnChecked, Recorded, BusinessTables
<1> QED BY <1>1, <1>2, <1>3, <1>4, <1>5, <1>6, <1>7, <1>8, <1>9 DEF ApplyingNext

LEMMA ReviewsTyped ==
  ASSUME BusinessTyped, ReviewsNext
  PROVE  BusinessTables' /\ \A w \in Workers : OwnedBy(work'[w], created')
<1> DEFINE Typed == BusinessTables' /\ \A w \in Workers : OwnedBy(work'[w], created')
<1>0. BusinessTables /\ \A w \in Workers : OwnedBy(work[w], created)
  BY DEF BusinessTyped
<1>1. ASSUME NEW w \in Workers, ReviewLoads(w) PROVE Typed
  <2> DEFINE job == [op |-> "review", status |-> onboard, own |-> owned]
  <2>1. work' = [work EXCEPT ![w] = job] /\ UNCHANGED BusinessVars /\ job.op = "review" /\ job.own = owned
    BY <1>1 DEF ReviewLoads, Starts
  <2> HIDE DEF job
  <2>2. created' = created /\ OwnedBy(job, created')
    BY <1>0, <2>1 DEF OwnedBy, BusinessTables, BusinessVars
  <2> QED BY <1>0, <2>1, <2>2, OwnersStep DEF BusinessTables, BusinessVars
<1>2. ASSUME NEW w \in Workers, NEW says \in BOOLEAN \cup {None}, ReviewSavesStatus(w, says) PROVE Typed
  <2> DEFINE job == IF work[w].own = None THEN Idle
                    ELSE [op |-> "business", own |-> work[w].own, ready |-> says = FALSE]
  <2>1. work[w].own \in created \cup {None}
    BY <1>0, <1>2 DEF ReviewSavesStatus, Doing, OwnedBy
  <2>2. OwnedBy(job, created)
    BY <2>1 DEF OwnedBy, Idle
  <2>3. /\ work' = [work EXCEPT ![w] = job] /\ UNCHANGED <<owned, created, ready, failed, located>>
        /\ excess < MaxExcess /\ (excess' = excess + 1 \/ excess' = excess) /\ reviewed' = TRUE
    BY <1>2 DEF ReviewSavesStatus, Ends, Starts
  <2> HIDE DEF job
  <2>4. BusinessTables'
    BY <1>0, <2>3, OnboardingAssumption DEF BusinessTables
  <2> QED BY <2>2, <2>3, <2>4, OwnersStep
<1>3. ASSUME NEW w \in Workers, ReviewSavesBusiness(w) PROVE Typed
  <2> DEFINE job == [op |-> "papers", own |-> work[w].own]
  <2>1. work[w].own \in created
    BY <1>0, <1>3 DEF ReviewSavesBusiness, Doing, OwnedBy
  <2>2. OwnedBy(job, created)
    BY <2>1 DEF OwnedBy
  <2>3. /\ work' = [work EXCEPT ![w] = job]
        /\ UNCHANGED <<owned, created, failed, located, excess, reviewed>>
        /\ ready' = Put(ready, work[w].own, work[w].ready)
    BY <1>3 DEF ReviewSavesBusiness, Starts
  <2> HIDE DEF job
  <2>4. BusinessTables'
    BY <1>0, <2>1, <2>3 DEF BusinessTables, Put
  <2> QED BY <2>2, <2>3, <2>4, OwnersStep
<1>4. ASSUME NEW w \in Workers, NEW passes \in BOOLEAN, ReviewSavesPapers(w, passes) PROVE Typed
  <2>1. /\ work' = [work EXCEPT ![w] = Idle] /\ UNCHANGED <<owned, created, ready, located, excess, reviewed>>
        /\ failed' \subseteq failed
    BY <1>4 DEF ReviewSavesPapers, Ends
  <2>2. BusinessTables'
    BY <1>0, <2>1 DEF BusinessTables
  <2> QED BY <2>1, <2>2, IdleOwner, OwnersStep
<1>5. ASSUME NEW b \in Businesses, NEW on \in BOOLEAN, AdminSetsReady(b, on) PROVE Typed
  BY <1>0, <1>5 DEF AdminSetsReady, Put, BusinessTables
<1> QED BY <1>1, <1>2, <1>3, <1>4, <1>5 DEF ReviewsNext

LEMMA NextBusinessTyped == BusinessTyped /\ [BusinessNext]_BusinessState => BusinessTyped'
<1> SUFFICES ASSUME BusinessTyped, [BusinessNext]_BusinessState PROVE BusinessTyped'
  OBVIOUS
<1>1. BusinessInv'
  BY NextBusiness DEF BusinessTyped
<1>2. CASE UNCHANGED BusinessState
  BY <1>1, <1>2 DEF BusinessState, BusinessVars, BusinessTyped, BusinessTables
<1> QED BY <1>1, <1>2, ApplyingTyped, ReviewsTyped DEF BusinessNext, BusinessTyped

-----------------------------------------------------------------------------
(* Onboarding of drivers. *)
DriverPapers == (UNION {Written(p) : p \in 1 .. 3}) \cup {"bank_account", "face_match"}
ScheduleListed == \A w \in Workers : Doing(w, "schedule") => work[w].left \subseteq Days
DriverTables ==
  /\ profile \in BOOLEAN /\ torn \in BOOLEAN /\ approved \in BOOLEAN
  /\ papers \subseteq DriverPapers /\ slots \subseteq Days /\ wanted \subseteq Days
DriverTyped == DriverInv /\ DriverTables /\ ScheduleListed

LEMMA DriverTypedType == DriverTyped => DriverType
<1> SUFFICES ASSUME DriverTyped PROVE DriverType
  OBVIOUS
<1>1. /\ \A d \in Drafts : answers[d] # None => answers[d] \subseteq 1 .. 3
      /\ newest # None => answers[newest] # None
  BY DEF DriverTyped, DriverInv, DriverTypes
<1>2. {profile, torn, approved} \subseteq BOOLEAN
  BY DEF DriverTyped, DriverTables
<1>3. papers \subseteq DriverPapers /\ slots \cup wanted \subseteq Days
  BY DEF DriverTyped, DriverTables
<1> QED BY <1>1, <1>2, <1>3 DEF DriverType, DriverPapers

LEMMA PapersOfPhases ==
  {"person", "account", "kin", "license", "nin", "bvn", "guarantors", "vehicle", "bag",
   "bank_account", "face_match"} \subseteq DriverPapers
<1>1. /\ {"person", "account", "kin"} \subseteq Written(1)
      /\ {"license", "nin", "bvn", "guarantors", "vehicle"} \subseteq Written(2)
      /\ {"bag"} \subseteq Written(3)
  BY DEF Written
<1>2. /\ \A p \in 1 .. 3 : Written(p) \subseteq DriverPapers
      /\ {"bank_account", "face_match"} \subseteq DriverPapers
  <2>1. ASSUME NEW p \in 1 .. 3, NEW x \in Written(p) PROVE x \in DriverPapers
    BY <2>1 DEF DriverPapers
  <2>2. ASSUME NEW x \in {"bank_account", "face_match"} PROVE x \in DriverPapers
    BY <2>2, Zenon DEF DriverPapers
  <2> QED BY <2>1, <2>2
<1>3. 1 \in 1 .. 3 /\ 2 \in 1 .. 3 /\ 3 \in 1 .. 3
  OBVIOUS
<1>4. Written(1) \subseteq DriverPapers /\ Written(2) \subseteq DriverPapers /\ Written(3) \subseteq DriverPapers
  BY <1>2, <1>3
<1> QED BY <1>1, <1>2, <1>4

\* A request turns to a job that is no replacement of the whole schedule, or
\* one of listed days.
LEMMA ScheduleStep ==
  ASSUME DriverTyped, NEW w \in Workers, NEW job, work' = [work EXCEPT ![w] = job],
         job.op = "schedule" => job.left \subseteq Days
  PROVE  ScheduleListed'
<1> SUFFICES ASSUME NEW v \in Workers, Doing(v, "schedule")' PROVE work'[v].left \subseteq Days
  BY DEF ScheduleListed
<1>1. DOMAIN work = Workers
  BY DEF DriverTyped, DriverInv, DriverTypes
<1>2. CASE v = w
  BY <1>1, <1>2 DEF Doing
<1>3. CASE v # w
  BY <1>1, <1>3 DEF Doing, DriverTyped, ScheduleListed
<1> QED BY <1>2, <1>3

LEMMA IdleSchedule == Idle.op # "schedule"
  BY DEF Idle

LEMMA FirstOp == ASSUME NEW phase \in 1 .. 3 PROVE FirstStatement(phase) # "schedule"
<1>1. phase = 1 \/ phase = 2 \/ phase = 3
  OBVIOUS
<1> QED BY <1>1 DEF FirstStatement

\* A statement of a phase, and the paper it puts.
LEMMA StatementTyped ==
  ASSUME DriverTyped, NEW w \in Workers, NEW from \in PhaseOps, NEW to \in PhaseOps, Goes(w, from, to),
         UNCHANGED DriverVars \/ \E paper \in DriverPapers : Puts(paper)
  PROVE  DriverTables' /\ ScheduleListed'
<1> DEFINE job == [work[w] EXCEPT !.op = to]
<1>1. work[w] \in PhaseJobs /\ work' = [work EXCEPT ![w] = job]
  BY DEF Goes, Doing, Starts, DriverTyped, DriverInv, DriverWork, Fits
<1>2. job.op = to /\ to # "schedule"
  BY <1>1 DEF PhaseJobs, PhaseOps
<1> HIDE DEF job
<1>3. ScheduleListed'
  BY <1>1, <1>2, ScheduleStep
<1> QED BY <1>3 DEF DriverVars, Puts, DriverTyped, DriverTables

LEMMA PhaseStatementsTyped ==
  ASSUME DriverTyped, NEW w \in Workers,
         \/ PersonSaves(w) \/ AccountSaves(w) \/ KinSaves(w)
         \/ LicenseSaves(w) \/ NinSaves(w) \/ BvnSaves(w) \/ GuarantorsSave(w) \/ VehicleSaves(w)
  PROVE  DriverTables' /\ ScheduleListed'
<1>1. \A op \in {"person", "account", "kin", "referral", "license", "nin", "bvn", "guarantors", "vehicle", "answer"} :
        op \in PhaseOps
  BY DEF PhaseOps
<1>2. \A paper \in {"person", "account", "kin", "license", "nin", "bvn", "guarantors", "vehicle"} :
        paper \in DriverPapers
  BY PapersOfPhases
<1>3. CASE PersonSaves(w)
  BY <1>1, <1>2, <1>3, StatementTyped DEF PersonSaves
<1>4. CASE AccountSaves(w)
  BY <1>1, <1>2, <1>4, StatementTyped DEF AccountSaves
<1>5. CASE KinSaves(w)
  BY <1>1, <1>2, <1>5, StatementTyped DEF KinSaves
<1>6. CASE LicenseSaves(w)
  BY <1>1, <1>2, <1>6, StatementTyped DEF LicenseSaves
<1>7. CASE NinSaves(w)
  BY <1>1, <1>2, <1>7, StatementTyped DEF NinSaves
<1>8. CASE BvnSaves(w)
  BY <1>1, <1>2, <1>8, StatementTyped DEF BvnSaves
<1>9. CASE GuarantorsSave(w)
  BY <1>1, <1>2, <1>9, StatementTyped DEF GuarantorsSave
<1>10. CASE VehicleSaves(w)
  BY <1>1, <1>2, <1>10, StatementTyped DEF VehicleSaves
<1> QED BY <1>3, <1>4, <1>5, <1>6, <1>7, <1>8, <1>9, <1>10

LEMMA DraftFoundTyped ==
  ASSUME DriverTyped, NEW w \in Workers, NEW phase \in 0 .. 4, DraftFound(w, phase)
  PROVE  DriverTables' /\ ScheduleListed'
<1>1. DriverTables'
  BY DEF DraftFound, DriverTyped, DriverTables
<1>2. CASE newest = None
  <2> DEFINE job == [op |-> "draft", phase |-> phase]
  <2>1. work' = [work EXCEPT ![w] = job] /\ job.op = "draft"
    BY <1>2 DEF DraftFound, Starts
  <2> HIDE DEF job
  <2> QED BY <1>1, <2>1, ScheduleStep
<1>3. CASE newest # None /\ phase \in 1 .. 3 /\ PhaseOpen(phase, answers[newest])
  <2> DEFINE job == [op |-> FirstStatement(phase), phase |-> phase, draft |-> newest, answers |-> answers[newest]]
  <2>1. work' = [work EXCEPT ![w] = job] /\ job.op = FirstStatement(phase)
    BY <1>3 DEF DraftFound, Starts
  <2> HIDE DEF job
  <2> QED BY <1>1, <1>3, <2>1, FirstOp, ScheduleStep
<1>4. CASE newest # None /\ ~(phase \in 1 .. 3 /\ PhaseOpen(phase, answers[newest]))
  <2>1. work' = work
    BY <1>4 DEF DraftFound
  <2> QED BY <1>1, <2>1 DEF DriverTyped, ScheduleListed, Doing
<1> QED BY <1>2, <1>3, <1>4

LEMMA DraftCreatedTyped ==
  ASSUME DriverTyped, NEW w \in Workers, NEW d \in Drafts, DraftCreated(w, d)
  PROVE  DriverTables' /\ ScheduleListed'
<1> DEFINE phase == work[w].phase
           job == [op |-> FirstStatement(phase), phase |-> phase, draft |-> d, answers |-> {}]
<1>1. DriverTables'
  BY DEF DraftCreated, DriverTyped, DriverTables
<1>2. \/ phase \in 1 .. 3 /\ work' = [work EXCEPT ![w] = job]
      \/ work' = [work EXCEPT ![w] = Idle]
  BY DEF DraftCreated, Starts, Ends
<1>3. job.op = FirstStatement(phase)
  OBVIOUS
<1> HIDE DEF phase, job
<1> QED BY <1>1, <1>2, <1>3, FirstOp, IdleSchedule, ScheduleStep

LEMMA ReplacementTyped ==
  ASSUME DriverTyped, NEW w \in Workers,
         \/ \E chosen \in SUBSET Days : SlotsDeleted(w, chosen) \/ ScheduleDeleted(w, chosen)
         \/ \E day \in Days : SlotCreated(w, day)
         \/ ScheduleCreated(w)
  PROVE  DriverTables' /\ ScheduleListed'
<1>0. DriverTables
  BY DEF DriverTyped
<1>1. ASSUME NEW chosen \in SUBSET Days, SlotsDeleted(w, chosen) PROVE DriverTables' /\ ScheduleListed'
  <2> DEFINE job == [op |-> "fill", phase |-> 3, draft |-> work[w].draft,
                     answers |-> work[w].answers, left |-> chosen]
  <2>1. work' = [work EXCEPT ![w] = job] /\ job.op = "fill"
    BY <1>1 DEF SlotsDeleted, Starts
  <2> HIDE DEF job
  <2>2. ScheduleListed'
    BY <2>1, ScheduleStep
  <2> QED BY <1>0, <1>1, <2>2 DEF SlotsDeleted, DriverTables
<1>2. ASSUME NEW chosen \in SUBSET Days, ScheduleDeleted(w, chosen) PROVE DriverTables' /\ ScheduleListed'
  <2> DEFINE job == [op |-> "schedule", left |-> chosen]
  <2>1. work' = [work EXCEPT ![w] = job] /\ job.left = chosen
    BY <1>2 DEF ScheduleDeleted, Starts
  <2> HIDE DEF job
  <2>2. ScheduleListed'
    BY <2>1, ScheduleStep
  <2> QED BY <1>0, <1>2, <2>2 DEF ScheduleDeleted, DriverTables
<1>3. ASSUME NEW day \in Days, SlotCreated(w, day) PROVE DriverTables' /\ ScheduleListed'
  <2> DEFINE job == [work[w] EXCEPT !.left = @ \ {day}]
  <2>1. /\ work' = [work EXCEPT ![w] = Idle] \/ work' = [work EXCEPT ![w] = job]
        /\ slots' = slots \/ slots' = slots \cup {day}
        /\ torn' = (torn \/ day \in slots)
        /\ UNCHANGED <<profile, answers, newest, papers, wanted, approved>>
    BY <1>3 DEF SlotCreated, Starts, Ends
  <2>2. work[w] \in FillJobs
    BY <1>3 DEF SlotCreated, Doing, DriverTyped, DriverInv, DriverWork, Fits
  <2>3. job.op = "fill"
    BY <2>2 DEF FillJobs
  <2> HIDE DEF job
  <2>4. ScheduleListed'
    BY <2>1, <2>3, IdleSchedule, ScheduleStep
  <2> QED BY <1>0, <2>1, <2>4 DEF DriverTables
<1>4. CASE ScheduleCreated(w)
  <2>1. /\ work' = [work EXCEPT ![w] = Idle] /\ work[w].left \subseteq Days
        /\ slots' = slots \/ slots' = slots \cup work[w].left
        /\ torn' \in BOOLEAN
        /\ UNCHANGED <<profile, answers, newest, papers, wanted, approved>>
    BY <1>0, <1>4 DEF ScheduleCreated, Ends, DriverTyped, ScheduleListed, DriverTables
  <2>2. ScheduleListed'
    BY <2>1, IdleSchedule, ScheduleStep
  <2> QED BY <1>0, <2>1, <2>2 DEF DriverTables
<1> QED BY <1>1, <1>2, <1>3, <1>4

LEMMA EndingsTyped ==
  ASSUME DriverTyped, NEW w \in Workers,
         \/ BagSaves(w) \/ AnswersSave(w) \/ DriverDies(w)
         \/ \E refused \in BOOLEAN : ReferralApplied(w, refused)
  PROVE  DriverTables' /\ ScheduleListed'
<1>0. DriverTables
  BY DEF DriverTyped
<1>1. CASE BagSaves(w)
  <2> DEFINE job == [op |-> "answer", phase |-> 3, draft |-> work[w].draft, answers |-> work[w].answers]
  <2>1. work' = [work EXCEPT ![w] = job] /\ job.op = "answer"
    BY <1>1 DEF BagSaves, Starts
  <2> HIDE DEF job
  <2>2. ScheduleListed'
    BY <2>1, ScheduleStep
  <2> QED BY <1>0, <1>1, <2>2, PapersOfPhases DEF BagSaves, Puts, DriverTables
<1>2. CASE AnswersSave(w)
  <2>1. work' = [work EXCEPT ![w] = Idle]
    BY <1>2 DEF AnswersSave, Ends
  <2>2. ScheduleListed'
    BY <2>1, IdleSchedule, ScheduleStep
  <2> QED BY <1>0, <1>2, <2>2 DEF AnswersSave, DriverTables
<1>3. CASE DriverDies(w)
  <2>1. work' = [work EXCEPT ![w] = Idle]
    BY <1>3 DEF DriverDies, Dies, Ends
  <2>2. ScheduleListed'
    BY <2>1, IdleSchedule, ScheduleStep
  <2> QED BY <1>0, <1>3, <2>2 DEF DriverDies, DriverTables
<1>4. ASSUME NEW refused \in BOOLEAN, ReferralApplied(w, refused) PROVE DriverTables' /\ ScheduleListed'
  <2>1. CASE refused
    <3>1. work' = [work EXCEPT ![w] = Idle]
      BY <1>4, <2>1 DEF ReferralApplied, Ends
    <3>2. ScheduleListed'
      BY <3>1, IdleSchedule, ScheduleStep
    <3> QED BY <1>0, <1>4, <3>2 DEF ReferralApplied, DriverVars, DriverTables
  <2>2. CASE ~refused
    <3>1. "referral" \in PhaseOps /\ "answer" \in PhaseOps
      BY DEF PhaseOps
    <3> QED BY <1>4, <2>2, <3>1, StatementTyped DEF ReferralApplied
  <2> QED BY <2>1, <2>2
<1> QED BY <1>1, <1>2, <1>3, <1>4

LEMMA NextDriverTyped == DriverTyped /\ [DriverNext]_DriverState => DriverTyped'
<1> SUFFICES ASSUME DriverTyped, [DriverNext]_DriverState PROVE DriverTables' /\ ScheduleListed'
  BY NextDriver DEF DriverTyped
<1>1. CASE PhasesNext(0 .. 4, Days)
  BY <1>1, PhaseStatementsTyped, DraftFoundTyped, DraftCreatedTyped, ReplacementTyped, EndingsTyped DEF PhasesNext
<1>2. CASE ScheduleNext
  BY <1>2, ReplacementTyped DEF ScheduleNext
<1>3. CASE ChecksNext
  <2>1. /\ UNCHANGED <<work, profile, slots, wanted, torn>>
        /\ approved' = approved \/ approved' = TRUE
        /\ papers' = papers \/ \E paper \in {"nin", "bvn", "bank_account", "face_match"} : papers' = papers \cup {paper}
    BY <1>3 DEF ChecksNext, NinChecked, BvnChecked, BvnValidated, AccountChecked, FaceChecked, ApproveDriver, Puts
  <2>2. ScheduleListed'
    BY <2>1 DEF DriverTyped, ScheduleListed, Doing
  <2> QED BY <2>1, <2>2, PapersOfPhases DEF DriverTyped, DriverTables
<1>4. CASE UNCHANGED DriverState
  BY <1>4 DEF DriverState, DriverVars, DriverTyped, DriverTables, ScheduleListed, Doing
<1> QED BY <1>1, <1>2, <1>3, <1>4 DEF DriverNext

LEMMA InitDriverTyped ==
  ASSUME RequestsInit, DriverStart PROVE DriverTyped
<1>1. PICK n \in 0 .. 3 : DriverInit(1 .. n)
  BY DEF DriverStart
<1>2. papers \subseteq DriverPapers
  BY <1>1 DEF DriverInit, DriverPapers
<1>3. ScheduleListed
  BY IdleSchedule DEF RequestsInit, ScheduleListed, Doing
<1>4. DriverTables
  BY <1>1, <1>2 DEF DriverInit, DriverTables
<1> QED BY <1>3, <1>4, InitDriver DEF DriverTyped

-----------------------------------------------------------------------------
(* WebSockets. *)
Bounded ==
  /\ \A t \in Topics : changes[t] <= MaxChanges
  /\ \A w \in Workers : Doing(w, "announce") => work[w].change \in 1 .. MaxChanges
  /\ \A s \in Sockets : \A i \in 1 .. Len(inbox[s]) : inbox[s][i] \in 1 .. MaxChanges
  /\ \A s \in Sockets : seen[s] <= MaxChanges
Flagged == online \in BOOLEAN /\ stamped \in {"never", "recent", "old"}
RealtimeTyped == WatchInv /\ PresenceInv /\ Bounded /\ Flagged

LEMMA RealtimeTypedType == RealtimeTyped => RealtimeType
<1> SUFFICES ASSUME RealtimeTyped PROVE RealtimeType
  OBVIOUS
<1>1. /\ kind \in [Sockets -> Kinds] /\ members \in [Kinds -> SUBSET Sockets]
      /\ changes \in [Topics -> Nat] /\ announced \in [Kinds -> Nat] /\ seen \in [Sockets -> Nat]
      /\ stage \in [Sockets -> WatchStages] /\ inbox \in [Sockets -> Seq(Nat)]
  BY DEF RealtimeTyped, WatchInv, WatchTypes
<1>2. changes \in [Topics -> 0 .. MaxChanges] /\ seen \in [Sockets -> 0 .. MaxChanges]
  BY <1>1, RealtimeAssumption DEF RealtimeTyped, Bounded
<1>3. announced \in [Kinds -> 0 .. MaxChanges]
  <2>1. ASSUME NEW g \in Kinds PROVE announced[g] \in 0 .. MaxChanges
    <3>1. TopicOf(g) \in Topics
      BY DEF TopicOf, Topics
    <3>2. announced[g] <= changes[TopicOf(g)]
      BY DEF RealtimeTyped, WatchInv, SavedFirst
    <3> QED BY <1>1, <1>2, <3>1, <3>2, RealtimeAssumption
  <2> QED BY <1>1, <2>1
<1>4. \A s \in Sockets : \A i \in DOMAIN inbox[s] : inbox[s][i] \in 1 .. MaxChanges
  <2>1. \A s \in Sockets : DOMAIN inbox[s] = 1 .. Len(inbox[s])
    BY <1>1
  <2> QED BY <2>1 DEF RealtimeTyped, Bounded
<1>5. /\ track \in [Sockets -> {"new", "opening", "open", "closing", "closed", "died"}]
      /\ location # None => location \in [online : BOOLEAN, fresh : BOOLEAN]
  BY DEF RealtimeTyped, PresenceInv, Alive
<1> QED BY <1>1, <1>2, <1>3, <1>4, <1>5 DEF RealtimeType, RealtimeTyped, Flagged, WatchStages

LEMMA SavesBounded ==
  ASSUME RealtimeTyped, NEW w \in Workers, NEW topic \in Topics, NEW a, Saves(w, topic, a)
  PROVE  Bounded' /\ Flagged'
<1>1. /\ changes \in [Topics -> Nat] /\ work \in [Workers -> WatchJobs]
  BY DEF RealtimeTyped, WatchInv, WatchTypes
<1>2. /\ changes[topic] < MaxChanges /\ changes' = [changes EXCEPT ![topic] = changes[topic] + 1]
      /\ work' = [work EXCEPT ![w] = [op |-> "announce", change |-> changes'[topic], left |-> a]]
      /\ UNCHANGED <<inbox, seen, online, stamped>>
  BY DEF Saves, Starts, PresenceVars
<1>3. changes'[topic] \in 1 .. MaxChanges /\ \A t \in Topics : changes'[t] <= MaxChanges
  BY <1>1, <1>2, RealtimeAssumption DEF RealtimeTyped, Bounded
<1>4. ASSUME NEW v \in Workers, Doing(v, "announce")' PROVE work'[v].change \in 1 .. MaxChanges
  <2>1. CASE v = w
    BY <1>1, <1>2, <1>3, <2>1
  <2>2. CASE v # w
    BY <1>1, <1>2, <1>4, <2>2 DEF Doing, RealtimeTyped, Bounded
  <2> QED BY <2>1, <2>2
<1> QED BY <1>2, <1>3, <1>4 DEF RealtimeTyped, Bounded, Flagged

LEMMA AnnouncesBounded ==
  ASSUME RealtimeTyped, NEW w \in Workers, Announces(w)
  PROVE  Bounded' /\ Flagged'
<1> DEFINE n == work[w].change
           rest == [op |-> "announce", change |-> n, left |-> Tail(work[w].left)]
<1>1. /\ work \in [Workers -> WatchJobs] /\ inbox \in [Sockets -> Seq(Nat)]
  BY DEF RealtimeTyped, WatchInv, WatchTypes
<1>2. n \in 1 .. MaxChanges
  BY DEF Announces, RealtimeTyped, Bounded
<1>3. /\ work' = [work EXCEPT ![w] = Idle] \/ work' = [work EXCEPT ![w] = rest]
      /\ \A s \in Sockets : inbox'[s] = inbox[s] \/ inbox'[s] = Append(inbox[s], n)
      /\ UNCHANGED <<changes, seen, online, stamped>>
  BY DEF Announces, Starts, Ends, PresenceVars
<1>4. ASSUME NEW v \in Workers, Doing(v, "announce")' PROVE work'[v].change \in 1 .. MaxChanges
  <2>1. CASE v = w
    BY <1>1, <1>2, <1>3, <1>4, <2>1 DEF Doing, Idle
  <2>2. CASE v # w
    BY <1>1, <1>3, <1>4, <2>2 DEF Doing, RealtimeTyped, Bounded
  <2> QED BY <2>1, <2>2
<1> HIDE DEF n, rest
<1>5. ASSUME NEW s \in Sockets, NEW i \in 1 .. Len(inbox'[s]) PROVE inbox'[s][i] \in 1 .. MaxChanges
  <2> DEFINE q == inbox[s]
  <2>1. q \in Seq(Nat) /\ \A k \in 1 .. Len(q) : q[k] \in 1 .. MaxChanges
    BY <1>1 DEF RealtimeTyped, Bounded
  <2>2. inbox'[s] = q \/ inbox'[s] = Append(q, n)
    BY <1>3
  <2> HIDE DEF q
  <2>3. CASE inbox'[s] = q
    BY <1>5, <2>1, <2>3
  <2>4. CASE inbox'[s] = Append(q, n)
    <3>1. i \in 1 .. Len(q) \/ (i = Len(q) + 1 /\ Append(q, n)[i] = n)
      BY <1>2, <1>5, <2>1, <2>4
    <3>2. i \in 1 .. Len(q) => Append(q, n)[i] = q[i]
      BY <2>1
    <3> QED BY <1>2, <2>1, <2>4, <3>1, <3>2
  <2> QED BY <2>2, <2>3, <2>4
<1> QED BY <1>3, <1>4, <1>5 DEF RealtimeTyped, Bounded, Flagged

\* What a connection is told is bounded as what was saved is.
LEMMA ToldBounded ==
  ASSUME RealtimeTyped, NEW s \in Sockets,
         Snapshot(s) \/ Requested(s) \/ Handles(s) \/ Disconnects(s)
  PROVE  Bounded' /\ Flagged'
<1>1. /\ kind \in [Sockets -> Kinds] /\ inbox \in [Sockets -> Seq(Nat)]
      /\ changes \in [Topics -> Nat] /\ seen \in [Sockets -> Nat]
  BY DEF RealtimeTyped, WatchInv, WatchTypes
<1>2. UNCHANGED <<work, changes, online, stamped>>
  BY DEF Snapshot, Requested, StatusRequested, OrdersRequested, AssignmentsRequested, DashboardRequested,
         Reads, Handles, Disconnects, PresenceVars
<1>3. ASSUME NEW g \in Kinds, seen' = [seen EXCEPT ![s] = changes[TopicOf(g)]], UNCHANGED inbox
      PROVE  Bounded' /\ Flagged'
  <2>1. TopicOf(g) \in Topics
    BY DEF TopicOf, Topics
  <2>2. changes[TopicOf(g)] <= MaxChanges
    BY <2>1 DEF RealtimeTyped, Bounded
  <2> QED BY <1>1, <1>2, <1>3, <2>2 DEF RealtimeTyped, Bounded, Flagged, Doing
<1>4. CASE Snapshot(s)
  BY <1>1, <1>3, <1>4 DEF Snapshot
<1>5. CASE Requested(s)
  BY <1>3, <1>5 DEF Requested, StatusRequested, OrdersRequested, AssignmentsRequested, DashboardRequested,
         Reads, Kinds
<1>6. CASE Handles(s)
  <2> DEFINE q == inbox[s]
  <2>1. q \in Seq(Nat) /\ q # <<>> /\ seen[s] \in Nat /\ seen[s] <= MaxChanges
    BY <1>1, <1>6 DEF Handles, RealtimeTyped, Bounded
  <2>2. \A i \in 1 .. Len(q) : q[i] \in 1 .. MaxChanges
    BY DEF RealtimeTyped, Bounded
  <2>3. /\ Head(q) = q[1] /\ Head(q) \in Nat /\ Head(q) \in 1 .. MaxChanges
        /\ Len(Tail(q)) = Len(q) - 1 /\ Len(q) \in Nat
        /\ \A i \in 1 .. Len(Tail(q)) : Tail(q)[i] = q[i + 1]
    BY <2>1, <2>2
  <2>4. /\ seen' = [seen EXCEPT ![s] = Max({seen[s], Head(q)})]
        /\ inbox' = [inbox EXCEPT ![s] = Tail(q)]
    BY <1>6 DEF Handles
  <2> HIDE DEF q
  <2>5. \A i \in 1 .. Len(Tail(q)) : Tail(q)[i] \in 1 .. MaxChanges
    <3>1. \A i \in 1 .. Len(Tail(q)) : i + 1 \in 1 .. Len(q)
      BY <2>3
    <3> QED BY <2>2, <2>3, <3>1
  <2>6. Max({seen[s], Head(q)}) <= MaxChanges
    BY <2>1, <2>3, LargerOfTwo
  <2> QED BY <1>1, <1>2, <2>4, <2>5, <2>6 DEF RealtimeTyped, Bounded, Flagged, Doing
<1>7. CASE Disconnects(s)
  <2>1. UNCHANGED seen /\ \A r \in Sockets : inbox'[r] = inbox[r] \/ inbox'[r] = <<>>
    BY <1>1, <1>7 DEF Disconnects
  <2>2. \A r \in Sockets : \A i \in 1 .. Len(inbox'[r]) : inbox'[r][i] \in 1 .. MaxChanges
    BY <2>1 DEF RealtimeTyped, Bounded
  <2> QED BY <1>2, <2>1, <2>2 DEF RealtimeTyped, Bounded, Flagged, Doing
<1> QED BY <1>4, <1>5, <1>6, <1>7

LEMMA AsideBounded ==
  ASSUME RealtimeTyped, UNCHANGED <<changes, inbox, seen>>,
         \/ UNCHANGED work
         \/ \E w \in Workers : \E job \in {Idle, [op |-> "clean"]} : work' = [work EXCEPT ![w] = job],
         Flagged'
  PROVE  Bounded' /\ Flagged'
<1>1. ASSUME NEW v \in Workers, Doing(v, "announce")' PROVE work'[v].change \in 1 .. MaxChanges
  <2>1. CASE UNCHANGED work
    BY <1>1, <2>1 DEF Doing, RealtimeTyped, Bounded
  <2>2. ASSUME NEW w \in Workers, NEW job \in {Idle, [op |-> "clean"]}, work' = [work EXCEPT ![w] = job]
        PROVE  work'[v].change \in 1 .. MaxChanges
    <3>1. work \in [Workers -> WatchJobs] /\ job.op # "announce"
      BY DEF RealtimeTyped, WatchInv, WatchTypes, Idle
    <3>2. v # w /\ work'[v] = work[v]
      BY <1>1, <2>2, <3>1 DEF Doing
    <3> QED BY <1>1, <3>2 DEF Doing, RealtimeTyped, Bounded
  <2> QED BY <2>1, <2>2
<1> QED BY <1>1 DEF RealtimeTyped, Bounded

LEMMA WatchingBounded ==
  ASSUME RealtimeTyped, WatchingNext(Sockets)
  PROVE  Bounded' /\ Flagged'
<1>1. ASSUME NEW w \in Workers, NEW topic \in Topics, NEW a, Saves(w, topic, a) PROVE Bounded' /\ Flagged'
  BY <1>1, SavesBounded
<1>2. \A w \in Workers :
        /\ \A a \in Audiences : OrderChanges(w, a) => Bounded' /\ Flagged'
        /\ \A s \in Sockets : ChatSends(w, s) \/ DriverForced(w, s) \/ StatusForced(w, s) => Bounded' /\ Flagged'
        /\ DriverForcedByPage(w) \/ StatusForcedByPage(w) => Bounded' /\ Flagged'
  BY <1>1 DEF OrderChanges, ChatSends, DriverForced, StatusForced, Overrides, DriverForcedByPage,
              StatusForcedByPage, OverridesByPage, Topics
<1>3. ASSUME NEW s \in Sockets, Connects(s) \/ \E active \in BOOLEAN : JoinsOrders(s, active)
      PROVE  Bounded' /\ Flagged'
  <2>1. UNCHANGED <<work, changes, inbox, seen, online, stamped>>
    BY <1>3 DEF Connects, Refused, OrderConnects, ChatConnects, DriverConnects, BranchConnects, AdminConnects,
                LetIn, JoinsOrders, PresenceVars
  <2> QED BY <2>1, AsideBounded DEF RealtimeTyped, Flagged
<1>4. ASSUME NEW w \in Workers, Dies(w), UNCHANGED RealtimeVars PROVE Bounded' /\ Flagged'
  BY <1>4, AsideBounded DEF Dies, Ends, RealtimeVars, SocketVars, PresenceVars, RealtimeTyped, Flagged
<1> QED BY <1>2, <1>3, <1>4, AnnouncesBounded, ToldBounded DEF WatchingNext, HeartbeatCloses

LEMMA PresenceBounded ==
  ASSUME RealtimeTyped, PresenceNext
  PROVE  Bounded' /\ Flagged'
<1>1. UNCHANGED <<changes, inbox, seen>>
  BY DEF PresenceNext, TrackerOpens, TrackerOpened, TrackerCloses, TrackerClosed, Reports, Moves,
         TrackerDies, LocationAges, StampAges, CleansLocations, CleansProfiles, DriverSwitches, SocketVars
<1>2. \/ UNCHANGED work
      \/ \E w \in Workers : \E job \in {Idle, [op |-> "clean"]} : work' = [work EXCEPT ![w] = job]
  BY DEF PresenceNext, TrackerOpens, TrackerOpened, TrackerCloses, TrackerClosed, Reports, Moves,
         TrackerDies, LocationAges, StampAges, CleansLocations, CleansProfiles, DriverSwitches,
         Starts, Ends
<1>3. Flagged'
  BY DEF RealtimeTyped, Flagged, PresenceNext, TrackerOpens, TrackerOpened, TrackerCloses, TrackerClosed,
         Reports, Moves, TrackerDies, LocationAges, StampAges, CleansLocations, CleansProfiles, DriverSwitches
<1> QED BY <1>1, <1>2, <1>3, AsideBounded

LEMMA NextRealtimeTyped == RealtimeTyped /\ [RealtimeNext]_RealtimeState => RealtimeTyped'
<1> SUFFICES ASSUME RealtimeTyped, [RealtimeNext]_RealtimeState PROVE Bounded' /\ Flagged'
  BY NextWatch, PresenceKept DEF RealtimeTyped
<1>1. CASE UNCHANGED RealtimeState
  BY <1>1, AsideBounded DEF RealtimeState, RealtimeVars, SocketVars, PresenceVars, RealtimeTyped, Flagged
<1> QED BY <1>1, WatchingBounded, PresenceBounded DEF RealtimeNext

LEMMA InitRealtimeTyped == RequestsInit /\ RealtimeInit => RealtimeTyped
<1> SUFFICES ASSUME RequestsInit, RealtimeInit PROVE RealtimeTyped
  OBVIOUS
<1>1. PresenceInv
  BY DEF RealtimeInit, PresenceInv, ReachableIsConnected
<1>2. /\ \A t \in Topics : changes[t] = 0
      /\ \A s \in Sockets : seen[s] = 0 /\ inbox[s] = <<>>
      /\ \A w \in Workers : ~Doing(w, "announce")
  BY DEF RequestsInit, RealtimeInit, Doing, Idle
<1>3. Bounded
  BY <1>2, RealtimeAssumption DEF Bounded
<1>4. Flagged
  BY DEF RealtimeInit, Flagged
<1> QED BY <1>1, <1>3, <1>4, InitWatch DEF RealtimeTyped

-----------------------------------------------------------------------------
(* Browsing. *)
ViewLists == {v \in Seq(Stores) : Len(v) <= ViewSlots}
DetailJobs == [op : {"detail"}, session : Sessions, store : Stores, viewed : ViewLists]
ViewsTyped ==
  /\ viewed \in [Sessions -> ViewLists]
  /\ \A w \in Workers : Doing(w, "detail") => work[w] \in DetailJobs
BrowsingTyped == BrowsingInv /\ ViewsTyped

LEMMA BrowsingTypedType == BrowsingTyped => BrowsingType
<1> SUFFICES ASSUME BrowsingTyped PROVE BrowsingType
  OBVIOUS
<1>1. ASSUME NEW s \in Sessions
      PROVE  DOMAIN viewed[s] \subseteq 1 .. ViewSlots /\ Remembered(viewed[s]) \subseteq Stores
  <2>1. viewed[s] \in Seq(Stores) /\ Len(viewed[s]) <= ViewSlots
    BY DEF BrowsingTyped, ViewsTyped, ViewLists
  <2>2. DOMAIN viewed[s] \subseteq 1 .. ViewSlots
    BY <2>1, BrowsingAssumption
  <2> QED BY <2>1, <2>2 DEF Remembered
<1> QED BY <1>1 DEF BrowsingTyped, BrowsingInv, BrowsingType

\* A session's list stays one of stores, and no longer than it may be.
LEMMA ViewAdded ==
  ASSUME NEW v \in ViewLists, NEW b \in Stores
  PROVE  Front(Prepend(b, v), ViewSlots) \in ViewLists
<1> DEFINE n == Len(v)
           more == Prepend(b, v)
           m == Fewer(ViewSlots, n + 1)
<1>1. v \in Seq(Stores) /\ n \in Nat /\ DOMAIN v = 1 .. n /\ ViewSlots \in Nat
  BY BrowsingAssumption DEF ViewLists
<1>2. Cardinality(DOMAIN v) = n
  BY <1>1, FS_Interval
<1>3. more = [i \in 1 .. n + 1 |-> IF i = 1 THEN b ELSE v[i - 1]]
  BY <1>2 DEF Prepend
<1>4. \A i \in 1 .. n + 1 : more[i] \in Stores
  BY <1>1, <1>3
<1>5. Cardinality(DOMAIN more) = n + 1
  <2>1. DOMAIN more = 1 .. n + 1
    BY <1>3
  <2> HIDE DEF more, n
  <2>2. Cardinality(1 .. n + 1) = n + 1
    BY <1>1, FS_Interval
  <2> QED BY <2>1, <2>2
<1> HIDE DEF more
<1>6. Front(more, ViewSlots) = [i \in 1 .. m |-> more[i]]
  BY <1>5 DEF Front
<1>7. m \in Nat /\ m <= ViewSlots /\ m <= n + 1
  BY <1>1 DEF Fewer
<1> HIDE DEF m, n
<1>8. [i \in 1 .. m |-> more[i]] \in Seq(Stores) /\ Len([i \in 1 .. m |-> more[i]]) = m
  <2>1. \A i \in 1 .. m : more[i] \in Stores
    BY <1>1, <1>4, <1>7
  <2> QED BY <1>7, <2>1
<1> QED BY <1>6, <1>7, <1>8 DEF ViewLists, more

\* Putting a page together is not about sessions.
LEMMA PagesLeaveViews ==
  ASSUME BrowsingTyped, NEW w \in Workers, PagesNext(w)
  PROVE  ViewsTyped'
<1>1. UNCHANGED viewed
  BY DEF PagesNext, SearchStarts, TopPickStarts, FirstQuery, SearchGoesOn, TopPickGoesOn, FeaturedStarts,
         AdvertStarts, OnlyQuery, SearchAnswered, HomeAnswered, Answers, StoreOpens, StoreCloses, StoreSubscribes,
         BrowsingVars
<1>2. ASSUME NEW job, work' = [work EXCEPT ![w] = job], job.op # "detail"
      PROVE  ViewsTyped'
  BY <1>1, <1>2 DEF BrowsingTyped, BrowsingInv, ViewsTyped, Doing
<1>3. ASSUME NEW page \in PageKinds, NEW first, Starts(w, Page(page, first)) PROVE ViewsTyped'
  <2> DEFINE job == Page(page, first)
  <2>1. job.op # "detail" /\ work' = [work EXCEPT ![w] = job]
    BY <1>3 DEF Page, PageKinds, Starts
  <2> HIDE DEF job
  <2> QED BY <1>2, <2>1
<1>4. CASE SearchStarts(w) \/ TopPickStarts(w) \/ FeaturedStarts(w) \/ AdvertStarts(w)
  BY <1>3, <1>4 DEF SearchStarts, TopPickStarts, FeaturedStarts, AdvertStarts, FirstQuery, OnlyQuery, PageKinds
<1>5. CASE SearchGoesOn(w)
  <2> DEFINE job == [work[w] EXCEPT !.op = "results", !.rest = Others(work[w].first)]
  <2>1. work' = [work EXCEPT ![w] = job] /\ PageJob(work[w])
    BY <1>5 DEF SearchGoesOn, Starts, Doing, BrowsingTyped, BrowsingInv, NoPage, PageKinds
  <2>2. job.op = "results"
    BY <2>1 DEF PageJob
  <2> HIDE DEF job
  <2> QED BY <1>2, <2>1, <2>2
<1>6. CASE TopPickGoesOn(w)
  <2>1. PICK rest : work' = [work EXCEPT ![w] = [work[w] EXCEPT !.op = "picks", !.rest = rest]]
    BY <1>6 DEF TopPickGoesOn, Starts
  <2> DEFINE job == [work[w] EXCEPT !.op = "picks", !.rest = rest]
  <2>2. work' = [work EXCEPT ![w] = job] /\ PageJob(work[w])
    BY <1>6, <2>1 DEF TopPickGoesOn, Doing, BrowsingTyped, BrowsingInv, NoPage, PageKinds
  <2>3. job.op = "picks"
    BY <2>2 DEF PageJob
  <2> HIDE DEF job
  <2> QED BY <1>2, <2>2, <2>3
<1>7. CASE SearchAnswered(w) \/ HomeAnswered(w)
  BY <1>2, <1>7 DEF SearchAnswered, HomeAnswered, Answers, Ends, Idle
<1>8. ASSUME NEW b \in Stores, StoreOpens(b) \/ StoreSubscribes(b) PROVE ViewsTyped'
  BY <1>1, <1>8 DEF StoreOpens, StoreSubscribes, BrowsingTyped, ViewsTyped, Doing
<1>9. ASSUME NEW b \in Stores, StoreCloses(b) PROVE ViewsTyped'
  <2>1. ASSUME NEW v \in Workers, Doing(v, "detail")' PROVE work'[v] \in DetailJobs
    <3>1. work'[v] = NoLonger(work[v], b) /\ (NoPage(work[v]) \/ PageJob(work[v]))
      BY <1>9 DEF StoreCloses, BrowsingTyped, BrowsingInv
    <3>2. CASE NoPage(work[v])
      BY <2>1, <3>1, <3>2 DEF NoPage, NoLonger, Doing, BrowsingTyped, ViewsTyped
    <3>3. CASE PageJob(work[v])
      <4>1. NoLonger(work[v], b).op = work[v].op /\ work[v].op # "detail"
        BY <3>3 DEF NoLonger, PageJob, PageKinds
      <4> QED BY <2>1, <3>1, <4>1 DEF Doing
    <3> QED BY <3>1, <3>2, <3>3
  <2> QED BY <1>1, <2>1 DEF BrowsingTyped, ViewsTyped, DetailJobs, ViewLists
<1> QED BY <1>4, <1>5, <1>6, <1>7, <1>8, <1>9 DEF PagesNext

LEMMA ViewingTyped ==
  ASSUME BrowsingTyped, NEW w \in Workers, ViewingNext(w)
  PROVE  ViewsTyped'
<1>0. /\ work = [v \in Workers |-> work[v]] /\ viewed \in [Sessions -> ViewLists]
      /\ \A v \in Workers : Doing(v, "detail") => work[v] \in DetailJobs
  BY DEF BrowsingTyped, BrowsingInv, ViewsTyped
<1>1. ASSUME NEW s \in Sessions, NEW b \in Stores, DetailReads(w, s, b) PROVE ViewsTyped'
  <2> DEFINE job == [op |-> "detail", session |-> s, store |-> b, viewed |-> viewed[s]]
  <2>1. work' = [work EXCEPT ![w] = job] /\ UNCHANGED viewed
    BY <1>1 DEF DetailReads, Starts, BrowsingVars
  <2>2. job \in DetailJobs
    BY <1>0 DEF DetailJobs
  <2> HIDE DEF job
  <2> QED BY <1>0, <2>1, <2>2 DEF ViewsTyped, Doing
<1>2. CASE DetailAnswers(w)
  <2> DEFINE j == work[w]
             seen2 == Front(Prepend(j.store, j.viewed), ViewSlots)
  <2>1. j \in DetailJobs
    BY <1>0, <1>2 DEF DetailAnswers
  <2>2. seen2 \in ViewLists
    BY <2>1, ViewAdded DEF DetailJobs
  <2>3. /\ work' = [work EXCEPT ![w] = Idle]
        /\ viewed' = viewed \/ viewed' = [viewed EXCEPT ![j.session] = seen2]
    BY <1>2 DEF DetailAnswers, Ends
  <2> HIDE DEF j, seen2
  <2>4. viewed' \in [Sessions -> ViewLists]
    BY <1>0, <2>2, <2>3
  <2>5. \A v \in Workers : Doing(v, "detail")' => work'[v] \in DetailJobs
    BY <1>0, <2>3 DEF Doing, Idle
  <2> QED BY <2>4, <2>5 DEF ViewsTyped, DetailJobs, ViewLists
<1> QED BY <1>1, <1>2 DEF ViewingNext

LEMMA NextBrowsingTyped == BrowsingTyped /\ [BrowsingNext]_<<work, BrowsingVars>> => BrowsingTyped'
<1> SUFFICES ASSUME BrowsingTyped, [BrowsingNext]_<<work, BrowsingVars>> PROVE ViewsTyped'
  BY NextBrowsing DEF BrowsingTyped
<1>1. CASE UNCHANGED <<work, BrowsingVars>>
  BY <1>1 DEF BrowsingTyped, BrowsingVars, ViewsTyped, Doing
<1> QED BY <1>1, PagesLeaveViews, ViewingTyped DEF BrowsingNext

LEMMA InitBrowsingTyped == RequestsInit /\ BrowsingInit => BrowsingTyped
<1> SUFFICES ASSUME RequestsInit, BrowsingInit PROVE BrowsingTyped
  OBVIOUS
<1>1. << >> \in ViewLists
  BY BrowsingAssumption DEF ViewLists
<1>2. ViewsTyped
  BY <1>1 DEF RequestsInit, BrowsingInit, ViewsTyped, Doing, Idle
<1> QED BY <1>2, InitBrowsing DEF BrowsingTyped

-----------------------------------------------------------------------------
(* Bank accounts. *)
BankTyped ==
  /\ BankInv
  /\ codes \in [Holders -> 0 .. MaxCodes]
  /\ changed \subseteq Holders /\ offered \subseteq Merchants \X Banks
  /\ requests \in 0 .. MaxRequests
  /\ raced \subseteq PayoutAccounts /\ kept \subseteq PayoutAccounts /\ missed \subseteq PayoutAccounts

LEMMA BankTypedType == BankTyped => BankAccountsType
  BY DEF BankTyped, BankInv, BankTypes, BankAccountsType

LEMMA InitBankTyped == RequestsInit /\ BankAccountsInit => BankTyped
<1>1. RequestsInit /\ BankAccountsInit => BankInv
  BY InitBank
<1> QED BY <1>1, BankAccountsAssumption DEF BankAccountsInit, BankTyped

LEMMA NextBankTyped == BankTyped /\ [BankAccountsNext]_BankState => BankTyped'
<1> SUFFICES ASSUME BankTyped, [BankAccountsNext]_BankState PROVE BankTyped'
  OBVIOUS
<1>0. BankInv'
  BY NextBank DEF BankTyped
<1> DEFINE Rest ==
             /\ codes' \in [Holders -> 0 .. MaxCodes]
             /\ changed' \subseteq Holders /\ offered' \subseteq Merchants \X Banks
             /\ requests' \in 0 .. MaxRequests
             /\ raced' \subseteq PayoutAccounts /\ kept' \subseteq PayoutAccounts /\ missed' \subseteq PayoutAccounts
<1>1. SUFFICES Rest
  BY <1>0 DEF BankTyped
<1>2. \A a \in PayoutAccounts : Racing(a) \subseteq PayoutAccounts
  BY DEF Racing
<1>3. Counts => requests' \in 0 .. MaxRequests
  BY BankAccountsAssumption DEF Counts, BankTyped
<1>4. \A w \in Workers :
        /\ Doing(w, "asking") => work[w].account \in PayoutAccounts
        /\ Doing(w, "registering") => work[w].account \in PayoutAccounts
        /\ Doing(w, "committing") => work[w].account \in PayoutAccounts
        /\ work[w] # Idle => Doing(w, "asking") \/ Doing(w, "registering") \/ Doing(w, "committing")
  BY DEF BankTyped, BankInv, BankTypes, BankWork, PayoutAccounts
<1>5. ASSUME NEW w \in Workers, NEW h \in Holders, NEW b \in Complete, HolderCreates(w, h, b) PROVE Rest
  BY <1>3, <1>5 DEF HolderCreates, BankTyped
<1>6. ASSUME NEW w \in Workers, NEW h \in Holders, NEW b \in Complete, ChangeConfirmed(w, h, b) PROVE Rest
  <2>1. codes' \in [Holders -> 0 .. MaxCodes]
    <3>1. codes \in [Holders -> 0 .. MaxCodes] /\ codes[h] > 0 /\ codes' = [codes EXCEPT ![h] = @ - 1]
      BY <1>6 DEF ChangeConfirmed, BankTyped
    <3>2. codes[h] - 1 \in 0 .. MaxCodes
      BY <3>1, BankAccountsAssumption
    <3> QED BY <3>1, <3>2
  <2>2. h \in PayoutAccounts
    BY DEF PayoutAccounts
  <2> QED BY <1>2, <1>3, <1>6, <2>1, <2>2 DEF ChangeConfirmed, BankTyped
<1>7. ASSUME NEW h \in Holders, ChangeAsked(h) PROVE Rest
  <2>1. codes \in [Holders -> 0 .. MaxCodes] /\ codes[h] < MaxCodes /\ codes' = [codes EXCEPT ![h] = @ + 1]
    BY <1>7 DEF ChangeAsked, BankTyped
  <2>2. codes[h] + 1 \in 0 .. MaxCodes
    BY <2>1, BankAccountsAssumption
  <2>3. codes' \in [Holders -> 0 .. MaxCodes]
    BY <2>1, <2>2
  <2> QED BY <1>7, <2>3 DEF ChangeAsked, BankTyped
<1>8. ASSUME NEW m \in Merchants, NEW b \in Banks, MerchantOffers(m, b) PROVE Rest
  BY <1>3, <1>8 DEF MerchantOffers, BankTyped
<1>9. ASSUME NEW w \in Workers, NEW m \in Merchants, NEW b \in Banks, MerchantSaves(w, m, b) \/ ApplicantSaves(w, m, b)
      PROVE  Rest
  BY <1>3, <1>9 DEF MerchantSaves, ApplicantSaves, Saving, BankTyped
<1>10. ASSUME NEW w \in Workers, NEW a \in PayoutAccounts, TaskLoads(w, a) PROVE Rest
  <2>1. missed' \subseteq missed \cup {a}
    BY <1>10 DEF TaskLoads
  <2> QED BY <1>10, <2>1 DEF TaskLoads, BankTyped
<1>11. ASSUME NEW w \in Workers, TaskQueued(w) \/ TaskSaves(w) PROVE Rest
  BY <1>11 DEF TaskQueued, TaskSaves, BankTyped
<1>12. ASSUME NEW w \in Workers, MerchantCommits(w) PROVE Rest
  <2> DEFINE m == work[w].account
  <2>1. m \in PayoutAccounts
    BY <1>4, <1>12 DEF MerchantCommits
  <2>2. /\ raced' = raced \cup Racing(m) /\ kept' \subseteq kept \cup {m}
        /\ UNCHANGED <<codes, changed, offered, requests, missed>>
    BY <1>12 DEF MerchantCommits
  <2> HIDE DEF m
  <2> QED BY <1>2, <2>1, <2>2 DEF BankTyped
<1>13. ASSUME NEW w \in Workers, TaskLost(w) PROVE Rest
  <2>1. missed' = missed \/ (missed' = missed \cup {work[w].account} /\ ~Doing(w, "committing") /\ work[w] # Idle)
    BY <1>13 DEF TaskLost, Dies, Free
  <2> QED BY <1>4, <1>13, <2>1 DEF TaskLost, BankTyped
<1>14. CASE DayEnds \/ UNCHANGED BankState
  BY <1>14 DEF DayEnds, BankState, BankVars, BankTyped
<1> QED BY <1>5, <1>6, <1>7, <1>8, <1>9, <1>10, <1>11, <1>12, <1>13, <1>14 DEF BankAccountsNext

-----------------------------------------------------------------------------
(* Referrals.  Nobody is awarded points while referrals are exercised: only *)
(* the queue of awards moves. *)
NothingEarned ==
  /\ ledger = {} /\ redemptions = {} /\ rule = None
  /\ snapshot = [m \in 1 .. LastMonth |-> None]
ReferralsTyped == ReferralInv /\ NothingEarned

LEMMA ReferralsTypedType == ReferralsTyped => PointsType /\ ReferralsType
<1> SUFFICES ASSUME ReferralsTyped PROVE PointsType /\ ReferralsType
  OBVIOUS
<1>1. PointsType
  BY DEF PointsType, ReferralsTyped, NothingEarned
<1>2. ASSUME NEW u \in Referees PROVE referral[u] \in ReferralRow
  BY DEF Referees, Applied, ReferralsTyped, ReferralInv, ReferralTypes
<1>3. ASSUME NEW i \in DOMAIN payouts
      PROVE  payouts[i] \in [user : Users, units : Nat, rows : SUBSET Users]
  <2>1. payouts \in Seq(PayoutRow)
    BY DEF ReferralsTyped, ReferralInv, ReferralTypes
  <2>2. payouts[i] \in PayoutRow
    <3>1. DOMAIN payouts = 1 .. Len(payouts) /\ \A k \in 1 .. Len(payouts) : payouts[k] \in PayoutRow
      BY <2>1
    <3> QED BY <3>1
  <2> QED BY <2>2 DEF PayoutRow
<1> QED BY <1>1, <1>2, <1>3 DEF ReferralsType

LEMMA NextReferralsTyped == ReferralsTyped /\ [ReferralsNext]_ReferralState => ReferralsTyped'
<1> SUFFICES ASSUME ReferralsTyped, [ReferralsNext]_ReferralState PROVE ReferralsTyped'
  OBVIOUS
<1>1. ReferralInv'
  BY NextReferral DEF ReferralsTyped
<1>2. UNCHANGED <<ledger, redemptions, rule, snapshot>>
  BY DEF ReferralsNext, Referring, ApplyReads, ApplyCommits, PayoutCounts, PayoutTakes, DayPasses, Convert,
         ReferralState, PointsVars
<1> QED BY <1>1, <1>2 DEF ReferralsTyped, NothingEarned

LEMMA InitReferralsTyped ==
  ASSUME NEW tasks, RequestsInit, PointsInit(tasks), ReferralsInit
  PROVE  ReferralsTyped
  BY InitReferral DEF PointsInit, ReferralsTyped, NothingEarned

-----------------------------------------------------------------------------
(* Checkout. *)
CheckoutTyped ==
  /\ SplitInv
  /\ place \in [Places -> {"inactive", "active", "accepting"}]
  /\ \A s \in sales : s.total \in Nat /\ s.split \in Shares

LEMMA TotalsTyped ==
  ASSUME NEW items \in Nat, NEW distance \in Farness
  PROVE  Totals(items, distance) \in [items : Nat, delivery : Nat, grand : Nat]
<1>1. Fee(distance) \in Nat
  BY FeeType DEF Farness
<1>2. Commission * items \in Nat
  BY CheckoutAssumption, TimesMonotone
<1>3. 100 * items + Fee(distance) + Commission * items \in Nat
  BY <1>1, <1>2
<1> QED BY <1>1, <1>3, StoredNear DEF Totals

LEMMA OrdersTyped ==
  ASSUME SplitInv, NEW o \in orders
  PROVE  o.totals \in [items : Nat, delivery : Nat, grand : Nat]
<1>1. PICK items \in Nat, distance \in Farness : o.totals = Totals(items, distance)
  BY DEF SplitInv, OrdersKept, OrderRow
<1> QED BY <1>1, TotalsTyped

LEMMA CheckoutTypedType == CheckoutTyped => CheckoutType
<1> SUFFICES ASSUME CheckoutTyped PROVE CheckoutType
  OBVIOUS
<1>1. \A k \in SaleKeys : keyRow[k] # None => keyRow[k].payload \in Charges
  BY DEF CheckoutTyped, SplitInv, CheckoutInv, SaleTypes, KeyRows
<1>2. \A o \in orders : o.totals \in [items : Nat, delivery : Nat, grand : Nat]
  BY OrdersTyped DEF CheckoutTyped
<1> QED BY <1>1, <1>2 DEF CheckoutTyped, SplitInv, CheckoutInv, SaleTypes, PriceTypes, CheckoutType

LEMMA InitCheckoutTyped == RequestsInit /\ CheckoutInit => CheckoutTyped
<1>1. RequestsInit /\ CheckoutInit => SplitInv
  BY InitSplit
<1> QED BY <1>1 DEF CheckoutInit, CheckoutTyped

LEMMA OrderSaleTyped ==
  ASSUME SplitInv, NEW o \in orders
  PROVE  LET total == Max({o.totals.grand, MinCharge}) IN
         total \in Nat /\ OrderSplit(total, o.totals) \in Shares
<1> DEFINE total == Max({o.totals.grand, MinCharge})
<1>1. PICK items \in Nat, distance \in Farness : items >= MinSubtotal /\ o.totals = Totals(items, distance)
  BY DEF SplitInv, OrdersKept, OrderRow
<1>2. total \in Nat
  BY <1>1, OrderSplitAddsUp DEF Farness
<1> HIDE DEF total
<1>3. o.totals.items \in Nat /\ o.totals.delivery \in Nat
  BY OrdersTyped
<1>4. OrderSplit(total, o.totals) \in Shares
  BY <1>2, <1>3 DEF OrderSplit, Shares
<1> QED BY <1>2, <1>4 DEF total

LEMMA PercentSaleTyped ==
  ASSUME NEW total \in Nat, NEW referred \in BOOLEAN
  PROVE  PercentSplit(total, referred) \in Shares
<1>1. /\ Percents.driver \in Nat /\ Percents.business \in Nat /\ Percents.referral \in Nat
  BY CheckoutAssumption
<1>2. ASSUME NEW percent \in Nat PROVE (total * percent) \div 100 \in Nat
  <2>1. total * percent \in Nat
    BY TimesMonotone
  <2> QED BY <2>1
<1> DEFINE driver == (total * Percents.driver) \div 100
           business == (total * Percents.business) \div 100
           referrer == IF referred THEN (total * Percents.referral) \div 100 ELSE 0
<1>3. driver \in Nat /\ business \in Nat /\ referrer \in Nat
  BY <1>1, <1>2
<1>4. PercentSplit(total, referred) =
        [platform |-> total - driver - business - referrer,
         driver |-> driver, business |-> business, referral |-> referrer]
  BY DEF PercentSplit
<1> HIDE DEF driver, business, referrer
<1> QED BY <1>3, <1>4 DEF Shares

LEMMA NextCheckoutTyped == CheckoutTyped /\ [CheckoutNext]_<<work, CheckoutVars>> => CheckoutTyped'
<1> SUFFICES ASSUME CheckoutTyped, [CheckoutNext]_<<work, CheckoutVars>> PROVE CheckoutTyped'
  OBVIOUS
<1>0. SplitInv'
  BY NextSplit DEF CheckoutTyped
<1>1. ASSUME UNCHANGED <<place, sales>> PROVE CheckoutTyped'
  BY <1>0, <1>1 DEF CheckoutTyped, Shares
<1>2. ASSUME UNCHANGED place, NEW sale, sales' = sales \cup {sale}, sale.total \in Nat, sale.split \in Shares
      PROVE  CheckoutTyped'
  BY <1>0, <1>2 DEF CheckoutTyped, Shares
<1>3. ASSUME NEW b \in Places, NEW to \in {"inactive", "active", "accepting"}, PlaceSwitches(b, to)
      PROVE  CheckoutTyped'
  BY <1>0, <1>3 DEF PlaceSwitches, CheckoutTyped, Shares
<1>4. ASSUME NEW o \in orders, OrderCharged(o) PROVE CheckoutTyped'
  <2> DEFINE total == Max({o.totals.grand, MinCharge})
             split == OrderSplit(total, o.totals)
             sale == [id |-> NextSale, order |-> o.id, key |-> None, total |-> total, split |-> split]
  <2>1. total \in Nat /\ split \in Shares
    BY OrderSaleTyped DEF CheckoutTyped
  <2>2. sales' = sales \cup {sale} /\ UNCHANGED place
    BY <1>4 DEF OrderCharged, Sold
  <2>3. sale.total = total /\ sale.split = split
    OBVIOUS
  <2> HIDE DEF total, split, sale
  <2> QED BY <1>2, <2>1, <2>2, <2>3
<1>5. ASSUME NEW w \in Workers, NEW referred \in BOOLEAN, SaleCreates(w, referred) PROVE CheckoutTyped'
  <2> DEFINE j == work[w]
             split == PercentSplit(j.amount, referred)
             sale == [id |-> NextSale, order |-> None, key |-> j.key, total |-> j.amount, split |-> split]
  <2>1. j.amount \in Nat
    <3>1. j.key \in SaleKeys /\ keyRow[j.key] # None /\ j.amount = keyRow[j.key].payload
      BY <1>5 DEF SaleCreates, CheckoutTyped, SplitInv, CheckoutInv, SaleWork
    <3>2. keyRow[j.key] \in KeyRows
      BY <3>1 DEF CheckoutTyped, SplitInv, CheckoutInv, SaleTypes
    <3>3. keyRow[j.key].payload \in Charges
      BY <3>2 DEF KeyRows
    <3> QED BY <3>1, <3>3, CheckoutAssumption
  <2>2. split \in Shares
    BY <2>1, PercentSaleTyped
  <2>3. sales' = sales \cup {sale} /\ UNCHANGED place
    BY <1>5 DEF SaleCreates, Sold
  <2>4. sale.total = j.amount /\ sale.split = split
    OBVIOUS
  <2> HIDE DEF split, sale
  <2> QED BY <1>2, <2>1, <2>2, <2>3, <2>4
<1>6. CASE UNCHANGED <<work, CheckoutVars>>
  BY <1>1, <1>6 DEF CheckoutVars
<1>7. CASE OrderingNext
  BY <1>1, <1>3, <1>4, <1>7
     DEF OrderingNext, Reprice, Respecial, OrderReads, OrderCreates, CheckoutDies, CheckoutVars
<1>8. CASE DiscountsNext(Stores)
  BY <1>1, <1>8 DEF DiscountsNext, CouponTried, CouponUndone, CheckoutVars
<1>9. CASE SellingNext
  BY <1>1, <1>5, <1>9 DEF SellingNext, SaleBegins, SaleAnswers, CheckoutDies, CheckoutVars
<1> QED BY <1>6, <1>7, <1>8, <1>9 DEF CheckoutNext

-----------------------------------------------------------------------------
(* Allowance. *)
AllowanceTyped ==
  /\ AllowanceInv
  /\ lastRole \in [Payees -> FirstRoles \cup PayoutRoles]
  /\ hurdles \in [Payees -> SUBSET Hurdles]
  /\ pinned \subseteq Payees /\ rejudged \subseteq Payees

LEMMA AllowanceTypedType == AllowanceTyped => AllowanceType
  BY DEF AllowanceTyped, AllowanceInv, AllowanceTypes, Tables, AllowanceType

LEMMA InitAllowanceTyped == RequestsInit /\ AllowanceInit => AllowanceTyped
<1> SUFFICES ASSUME RequestsInit, AllowanceInit PROVE AllowanceTyped
  OBVIOUS
<1>1. AllowanceInv
  BY InitAllowance
<1>2. lastRole \in [Payees -> FirstRoles] /\ hurdles \in [Payees -> SUBSET Hurdles] /\ pinned = {} /\ rejudged = {}
  BY DEF AllowanceInit
<1>3. lastRole \in [Payees -> FirstRoles \cup PayoutRoles]
  BY <1>2
<1> QED BY <1>1, <1>2, <1>3 DEF AllowanceTyped

LEMMA HoldsTyped ==
  ASSUME AllowanceTyped, NEW u, NEW k, NEW a, NEW r \in {"business_owner", "driver", "referral"}, NEW status,
         Holds(u, k, a, r, status)
  PROVE  lastRole' \in [Payees -> FirstRoles \cup PayoutRoles]
<1>1. r \in FirstRoles \cup PayoutRoles
  BY AllowanceAssumption
<1>2. lastRole' = [lastRole EXCEPT ![u] = r]
  BY DEF Holds
<1> QED BY <1>1, <1>2 DEF AllowanceTyped

LEMMA SettlesTyped ==
  ASSUME AllowanceTyped, NEW w \in Workers, Settles(w)
  PROVE  /\ lastRole' \in [Payees -> FirstRoles \cup PayoutRoles] /\ rejudged' \subseteq Payees
         /\ UNCHANGED <<hurdles, pinned>>
<1> DEFINE i == work[w].slot
           row == granted[i]
<1>1. row \in GrantRows
  BY AmountsAreNat DEF Settles, AllowanceTyped, AllowanceInv, AllowanceWork, AllowanceTypes
<1>2. row.user \in Payees /\ row.role \in FirstRoles \cup PayoutRoles
  BY <1>1, AllowanceAssumption DEF GrantRows
<1>3. ASSUME NEW verdict, NEW status, NEW completed, Judged(w, verdict, status, completed)
      PROVE  (rejudged' = rejudged \/ rejudged' = rejudged \cup {row.user}) /\ UNCHANGED <<hurdles, pinned>>
  BY <1>3 DEF Judged
<1>4. /\ rejudged' = rejudged \/ rejudged' = rejudged \cup {row.user}
      /\ UNCHANGED <<hurdles, pinned>>
      /\ lastRole' = lastRole \/ lastRole' = [lastRole EXCEPT ![row.user] = row.role]
  <2>1. CASE Sent(w)
    BY <1>3, <2>1 DEF Sent
  <2>2. CASE Paid(w)
    BY <1>3, <2>2 DEF Paid
  <2>3. CASE Failed(w)
    BY <1>3, <2>3 DEF Failed
  <2> QED BY <2>1, <2>2, <2>3 DEF Settles
<1> HIDE DEF row
<1> QED BY <1>2, <1>4 DEF AllowanceTyped

LEMMA NextAllowanceTyped == AllowanceTyped /\ [AllowanceNext]_AllowanceState => AllowanceTyped'
<1> SUFFICES ASSUME AllowanceTyped, [AllowanceNext]_AllowanceState PROVE AllowanceTyped'
  OBVIOUS
<1>0. AllowanceInv'
  BY NextAllowance DEF AllowanceTyped
<1>1. ASSUME lastRole' \in [Payees -> FirstRoles \cup PayoutRoles], rejudged' \subseteq Payees,
             UNCHANGED <<hurdles, pinned>>
      PROVE  AllowanceTyped'
  BY <1>0, <1>1 DEF AllowanceTyped, PayoutRoles
<1>2. ASSUME UNCHANGED <<lastRole, rejudged, hurdles, pinned>> PROVE AllowanceTyped'
  BY <1>1, <1>2 DEF AllowanceTyped
<1>3. ASSUME NEW u \in Payees, PinSaved(u) PROVE AllowanceTyped'
  BY <1>0, <1>3 DEF PinSaved, AllowanceTyped, PayoutRoles
<1>4. ASSUME NEW u \in Payees, NEW h \in Hurdles, HurdleChanges(u, h) PROVE AllowanceTyped'
  <2>1. hurdles' \in [Payees -> SUBSET Hurdles]
    BY <1>4 DEF HurdleChanges, AllowanceTyped
  <2> QED BY <1>0, <1>4, <2>1 DEF HurdleChanges, AllowanceTyped, PayoutRoles
<1>5. ASSUME NEW w \in Workers, Creates(w) PROVE AllowanceTyped'
  <2> DEFINE j == work[w]
             r == Role(j.user, j.role)
  <2>1. UNCHANGED <<rejudged, hurdles, pinned>>
    BY <1>5 DEF Creates
  <2>2. lastRole' = lastRole \/ (Allowed(j.user, j.amount, r) /\ Holds(j.user, j.key, j.amount, r, "pending_batch"))
    BY <1>5 DEF Creates
  <2>3. CASE lastRole' = lastRole
    BY <1>2, <2>1, <2>3
  <2>4. CASE Allowed(j.user, j.amount, r) /\ Holds(j.user, j.key, j.amount, r, "pending_batch")
    <3> DEFINE u == j.user
               k == j.key
               a == j.amount
               status == "pending_batch"
    <3> HIDE DEF r
    <3>1. r \in {"business_owner", "driver", "referral"}
      BY <2>4 DEF Allowed
    <3>2. Holds(u, k, a, r, status)
      BY <2>4
    <3> HIDE DEF u, k, a, status
    <3>3. lastRole' \in [Payees -> FirstRoles \cup PayoutRoles]
      BY <3>1, <3>2, HoldsTyped
    <3> QED BY <1>1, <2>1, <3>3 DEF AllowanceTyped
  <2> QED BY <2>2, <2>3, <2>4
<1>6. ASSUME NEW u \in Payees, NEW k \in Keys, NEW a \in Sums, DriverAsks(u, k, a) PROVE AllowanceTyped'
  <2> DEFINE r == "driver"
             status == "processing"
  <2>1. Holds(u, k, a, r, status) /\ r \in {"business_owner", "driver", "referral"}
        /\ UNCHANGED <<rejudged, hurdles, pinned>>
    BY <1>6 DEF DriverAsks
  <2> HIDE DEF r, status
  <2>2. lastRole' \in [Payees -> FirstRoles \cup PayoutRoles]
    BY <2>1, HoldsTyped
  <2> QED BY <1>1, <2>1, <2>2 DEF AllowanceTyped
<1>7. ASSUME NEW w \in Workers, Settles(w) PROVE AllowanceTyped'
  BY <1>1, <1>7, SettlesTyped DEF AllowanceTyped
<1>8. CASE UNCHANGED AllowanceState
  BY <1>2, <1>8 DEF AllowanceState, AllowanceVars
<1>9. CASE AskingNext(Keys)
  <2>1. ASSUME NEW w, NEW scope, NEW u, NEW k, NEW a, NEW r, Begins(w, scope, u, k, a, r) PROVE AllowanceTyped'
    BY <1>2, <2>1 DEF Begins
  <2>2. ASSUME NEW w, NEW u, NEW k, NEW a, BusinessAsks(w, u, k, a) PROVE AllowanceTyped'
    BY <2>1, <2>2 DEF BusinessAsks
  <2>3. ASSUME NEW w, NEW u, NEW k, NEW a, NEW r, WalletAsks(w, u, k, a, r) PROVE AllowanceTyped'
    BY <2>1, <2>3 DEF WalletAsks
  <2>4. ASSUME NEW w, AnswerSaved(w) PROVE AllowanceTyped'
    BY <1>2, <2>4 DEF AnswerSaved
  <2> QED BY <1>3, <1>4, <1>5, <1>9, <2>2, <2>3, <2>4 DEF AskingNext
<1>10. CASE DrawingNext(Keys, Sums)
  BY <1>6, <1>10 DEF DrawingNext
<1>11. CASE SettlingNext
  BY <1>2, <1>7, <1>11 DEF SettlingNext, AdminRetries, AdminMarksPaid, AdminMarksFailed, Loads, AskerDies,
                           HoursPass, Midnight, AllowanceVars
<1> QED BY <1>8, <1>9, <1>10, <1>11 DEF AllowanceNext

-----------------------------------------------------------------------------
(* The other parts have their types in the invariants of their theorems.   *)
LEMMA PicturesInvType == PicturesInv => PicturesType
  BY DEF PicturesInv
LEMMA CatalogInvType == CatalogInv => CatalogType
  BY DEF CatalogInv, CatalogTypes
LEMMA TaggingInvType == TaggingInv => TaggingType
  BY DEF TaggingInv, TaggingTypes
LEMMA SupportInvType == SupportInv => SupportType
  BY DEF SupportInv, SupportTypes, SupportType, Filed
LEMMA NoticesInvType == NoticesInv => NoticesType
  BY DEF NoticesInv, NoticesTypes, NoticesType

\* How the others start.
LEMMA InitRatingsTyped == RequestsInit /\ RatingsInit => RatingsTyped
<1> SUFFICES ASSUME RequestsInit, RatingsInit PROVE RatingsTyped
  OBVIOUS
<1>1. RatingInv
  BY InitRatings
<1>2. work \in [Workers -> RatingJobs]
  BY DEF RequestsInit, RatingJobs
<1>3. RatingsType
  BY DEF RatingsInit, RatingsType
<1> QED BY <1>1, <1>2, <1>3 DEF RatingsTyped

LEMMA InitSpunByRegulars == RequestsInit /\ CouponsInit => SpunByRegulars
<1> SUFFICES ASSUME RequestsInit, CouponsInit PROVE SpunByRegulars
  OBVIOUS
<1>1. \A c \in Coupons : wallet[c] = <<>> /\ Len(<<>>) = 0
  BY DEF CouponsInit
<1>2. \A w \in Workers : work[w].op # "spin"
  BY DEF RequestsInit, Idle
<1> QED BY <1>1, <1>2 DEF SpunByRegulars, Doing

LEMMA InitPointsTyped ==
  ASSUME NEW tasks, RequestsInit, PointsInit(tasks),
         \A a \in tasks : a.user \in Users /\ a.key \notin ClientKeys /\ a.points \in Nat \cup {None}
  PROVE  PointsTyped
<1>1. PointsInv
  BY InitPoints
<1>2. /\ ledger = {} /\ redemptions = {} /\ month \in 1 .. LastMonth
      /\ snapshot = [m \in 1 .. LastMonth |-> None]
  BY PointsAssumption DEF PointsInit
<1>3. \A w \in Workers : work[w].op \notin {"award", "redeem", "finalize"}
  BY DEF RequestsInit, Idle
<1>4. /\ ledger \subseteq LedgerRow /\ \A r \in redemptions : \E e \in ledger : e.key = r.key
      /\ DOMAIN snapshot = 1 .. LastMonth
      /\ \A m \in 1 .. LastMonth : snapshot[m] # None => snapshot[m] \subseteq StandingRow /\ m < month
  BY <1>2
<1> QED BY <1>1, <1>2, <1>3, <1>4 DEF PointsTyped, Doing

LEMMA InitSubscriptionsTyped ==
  ASSUME NEW saved, RequestsInit, SubscriptionsInit(saved)
  PROVE  SubscriptionsTyped
<1>1. SubscriptionInv
  BY InitSubscriptions
<1>2. PayerTypes
  BY IdlePayerTypes DEF RequestsInit, PayerTypes, Doing
<1>3. SubscriptionsType
  BY DEF SubscriptionsInit, SubscriptionsType
<1> QED BY <1>1, <1>2, <1>3 DEF SubscriptionsTyped

LEMMA InitBusinessTyped == RequestsInit /\ BusinessInit => BusinessTyped
<1> SUFFICES ASSUME RequestsInit, BusinessInit PROVE BusinessTyped
  OBVIOUS
<1>1. BusinessInv
  BY InitBusiness
<1>2. BusinessTables
  <2>1. /\ owned = None /\ created = {} /\ ready = {} /\ failed = {} /\ located = {}
        /\ excess = 0 /\ reviewed = FALSE
    BY DEF BusinessInit
  <2>2. 0 \in 0 .. MaxExcess
    BY OnboardingAssumption
  <2> QED BY <2>1, <2>2 DEF BusinessTables
<1>3. \A w \in Workers : OwnedBy(work[w], created)
  BY IdleOwner DEF RequestsInit
<1> QED BY <1>1, <1>2, <1>3 DEF BusinessTyped

-----------------------------------------------------------------------------
(* Each part by itself, with every action and input it has: its tables,    *)
(* its cache entries and what its workers remember between two steps keep  *)
(* their types, however its requests, tasks, deaths and expiries           *)
(* interleave.                                                             *)
THEOREM PartsKeepTypes ==
  /\ PointsSpec => []PointsType
  /\ ReferralsSpec => [](PointsType /\ ReferralsType)
  /\ RatingsSpec => []RatingsType
  /\ SubscriptionsSpec => []SubscriptionsType
  /\ CouponsSpec => []CouponsType
  /\ StaffSpec => []StaffType
  /\ BusinessSpec => []BusinessType
  /\ DriverSpec => []DriverType
  /\ CatalogSpec => []CatalogType
  /\ CheckoutSpec => []CheckoutType
  /\ SupportSpec => []SupportType
  /\ RealtimeSpec => []RealtimeType
  /\ PicturesSpec => []PicturesType
  /\ BrowsingSpec => []BrowsingType
  /\ TaggingSpec => []TaggingType
  /\ NoticesSpec => []NoticesType
  /\ BankSpec => []BankAccountsType
  /\ AllowanceSpec => []AllowanceType
<1>1. PointsSpec => []PointsType
  <2>1. RequestsInit /\ PointsInit({}) => PointsTyped
    BY InitPointsTyped
  <2>2. PointsTyped /\ [PointsNext \/ AwardQueued]_PointsState => PointsTyped'
    BY NextPointsTyped
  <2>3. PointsTyped => PointsType
    BY PointsTypedType
  <2> QED BY <2>1, <2>2, <2>3, PTL DEF PointsSpec
<1>2. ReferralsSpec => [](PointsType /\ ReferralsType)
  <2>1. RequestsInit /\ PointsInit({}) /\ ReferralsInit => ReferralsTyped
    BY InitReferralsTyped
  <2>2. ReferralsTyped /\ [ReferralsNext]_ReferralState => ReferralsTyped'
    BY NextReferralsTyped
  <2>3. ReferralsTyped => PointsType /\ ReferralsType
    BY ReferralsTypedType
  <2> QED BY <2>1, <2>2, <2>3, PTL DEF ReferralsSpec
<1>3. RatingsSpec => []RatingsType
  <2>1. RequestsInit /\ RatingsInit => RatingsTyped
    BY InitRatingsTyped
  <2>2. RatingsTyped /\ [RatingsNext]_RatingsState => RatingsTyped'
    BY NextRatings, RatingsTypeKept DEF RatingsTyped
  <2>3. RatingsTyped => RatingsType
    BY DEF RatingsTyped
  <2> QED BY <2>1, <2>2, <2>3, PTL DEF RatingsSpec
<1>4. SubscriptionsSpec => []SubscriptionsType
  <2>1. RequestsInit /\ SubscriptionsInit({}) => SubscriptionsTyped
    BY InitSubscriptionsTyped
  <2>2. SubscriptionsTyped /\ [SubscriptionsNext]_SubscriptionsState => SubscriptionsTyped'
    BY NextSubscriptions, SubscriptionsTypeKept DEF SubscriptionsTyped
  <2>3. SubscriptionsTyped => SubscriptionsType
    BY DEF SubscriptionsTyped
  <2> QED BY <2>1, <2>2, <2>3, PTL DEF SubscriptionsSpec
<1>5. CouponsSpec => []CouponsType
  <2>1. RequestsInit /\ CouponsInit => CouponsTyped
    BY InitCoupons, InitSpunByRegulars DEF CouponsTyped
  <2>2. CouponsTyped /\ [CouponsNext]_CouponsState => CouponsTyped'
    BY NextCoupons, SpunByRegularsKept DEF CouponsTyped
  <2>3. CouponsTyped => CouponsType
    BY CouponsTypedType
  <2> QED BY <2>1, <2>2, <2>3, PTL DEF CouponsSpec
<1>6. StaffSpec => []StaffType
  <2>1. RequestsInit /\ StaffInit => StaffInv
    BY InitStaff
  <2>2. StaffInv /\ [StaffNext]_<<work, StaffVars>> => StaffInv'
    BY NextStaff
  <2>3. StaffInv => StaffType
    BY StaffInvType
  <2> QED BY <2>1, <2>2, <2>3, PTL DEF StaffSpec
<1>7. BusinessSpec => []BusinessType
  <2>1. RequestsInit /\ BusinessInit => BusinessTyped
    BY InitBusinessTyped
  <2>2. BusinessTyped /\ [BusinessNext]_BusinessState => BusinessTyped'
    BY NextBusinessTyped
  <2>3. BusinessTyped => BusinessType
    BY BusinessTypedType
  <2> QED BY <2>1, <2>2, <2>3, PTL DEF BusinessSpec
<1>8. DriverSpec => []DriverType
  <2>1. RequestsInit /\ DriverStart => DriverTyped
    BY InitDriverTyped
  <2>2. DriverTyped /\ [DriverNext]_DriverState => DriverTyped'
    BY NextDriverTyped
  <2>3. DriverTyped => DriverType
    BY DriverTypedType
  <2> QED BY <2>1, <2>2, <2>3, PTL DEF DriverSpec
<1>9. CatalogSpec => []CatalogType
  <2>1. RequestsInit /\ CatalogInit => CatalogInv
    BY InitCatalog
  <2>2. CatalogInv /\ [CatalogNext]_<<work, CatalogVars>> => CatalogInv'
    BY NextCatalog
  <2>3. CatalogInv => CatalogType
    BY CatalogInvType
  <2> QED BY <2>1, <2>2, <2>3, PTL DEF CatalogSpec
<1>10. CheckoutSpec => []CheckoutType
  <2>1. RequestsInit /\ CheckoutInit => CheckoutTyped
    BY InitCheckoutTyped
  <2>2. CheckoutTyped /\ [CheckoutNext]_<<work, CheckoutVars>> => CheckoutTyped'
    BY NextCheckoutTyped
  <2>3. CheckoutTyped => CheckoutType
    BY CheckoutTypedType
  <2> QED BY <2>1, <2>2, <2>3, PTL DEF CheckoutSpec
<1>11. SupportSpec => []SupportType
  <2>1. RequestsInit /\ SupportInit => SupportInv
    BY InitSupport
  <2>2. SupportInv /\ [SupportNext]_<<work, SupportVars>> => SupportInv'
    BY NextSupport
  <2>3. SupportInv => SupportType
    BY SupportInvType
  <2> QED BY <2>1, <2>2, <2>3, PTL DEF SupportSpec
<1>12. RealtimeSpec => []RealtimeType
  <2>1. RequestsInit /\ RealtimeInit => RealtimeTyped
    BY InitRealtimeTyped
  <2>2. RealtimeTyped /\ [RealtimeNext]_RealtimeState => RealtimeTyped'
    BY NextRealtimeTyped
  <2>3. RealtimeTyped => RealtimeType
    BY RealtimeTypedType
  <2> QED BY <2>1, <2>2, <2>3, PTL DEF RealtimeSpec
<1>13. PicturesSpec => []PicturesType
  <2>1. RequestsInit /\ PicturesInit => PicturesInv
    BY InitPictures
  <2>2. PicturesInv /\ [PicturesNext]_<<work, PicturesVars>> => PicturesInv'
    BY NextPictures
  <2>3. PicturesInv => PicturesType
    BY PicturesInvType
  <2> QED BY <2>1, <2>2, <2>3, PTL DEF PicturesSpec
<1>14. BrowsingSpec => []BrowsingType
  <2>1. RequestsInit /\ BrowsingInit => BrowsingTyped
    BY InitBrowsingTyped
  <2>2. BrowsingTyped /\ [BrowsingNext]_<<work, BrowsingVars>> => BrowsingTyped'
    BY NextBrowsingTyped
  <2>3. BrowsingTyped => BrowsingType
    BY BrowsingTypedType
  <2> QED BY <2>1, <2>2, <2>3, PTL DEF BrowsingSpec
<1>15. TaggingSpec => []TaggingType
  <2>1. RequestsInit /\ TaggingInit => TaggingInv
    BY InitTagging
  <2>2. TaggingInv /\ [TaggingNext]_<<work, TaggingVars>> => TaggingInv'
    BY NextTagging
  <2>3. TaggingInv => TaggingType
    BY TaggingInvType
  <2> QED BY <2>1, <2>2, <2>3, PTL DEF TaggingSpec
<1>16. NoticesSpec => []NoticesType
  <2>1. RequestsInit /\ NoticesStart => NoticesInv
    BY InitNotices
  <2>2. NoticesInv /\ [NoticesNext]_<<work, NoticesVars>> => NoticesInv'
    BY NextNotices
  <2>3. NoticesInv => NoticesType
    BY NoticesInvType
  <2> QED BY <2>1, <2>2, <2>3, PTL DEF NoticesSpec
<1>17. BankSpec => []BankAccountsType
  <2>1. RequestsInit /\ BankAccountsInit => BankTyped
    BY InitBankTyped
  <2>2. BankTyped /\ [BankAccountsNext]_BankState => BankTyped'
    BY NextBankTyped
  <2>3. BankTyped => BankAccountsType
    BY BankTypedType
  <2> QED BY <2>1, <2>2, <2>3, PTL DEF BankSpec
<1>18. AllowanceSpec => []AllowanceType
  <2>1. RequestsInit /\ AllowanceInit => AllowanceTyped
    BY InitAllowanceTyped
  <2>2. AllowanceTyped /\ [AllowanceNext]_AllowanceState => AllowanceTyped'
    BY NextAllowanceTyped
  <2>3. AllowanceTyped => AllowanceType
    BY AllowanceTypedType
  <2> QED BY <2>1, <2>2, <2>3, PTL DEF AllowanceSpec
<1> QED BY <1>1, <1>2, <1>3, <1>4, <1>5, <1>6, <1>7, <1>8, <1>9, <1>10, <1>11, <1>12, <1>13, <1>14, <1>15, <1>16, <1>17, <1>18

-----------------------------------------------------------------------------
(* The parts together, as MCServices runs them: only the part in focus     *)
(* takes steps, and every one of its steps is a step of the part's own     *)
(* specification, with what MCServices gives it among what the part knows. *)

\* What is kept of the part in focus.
ServicesInv ==
  /\ focus \in Foci
  /\ focus \in {"points", "ranking"} => PointsTyped
  /\ focus = "referrals" => ReferralsTyped
  /\ focus = "ratings" => RatingsTyped
  /\ focus \in {"subscriptions", "cards"} => SubscriptionsTyped
  /\ focus = "coupons" => CouponsTyped
  /\ focus \in {"codes", "agents"} => StaffInv
  /\ focus \in {"businesses", "reviews"} => BusinessTyped
  /\ focus \in {"drivers", "shifts"} => DriverTyped
  /\ focus \in {"lines", "moves", "outlets"} => CatalogInv
  /\ focus \in {"ordering", "discounts", "selling"} => CheckoutTyped
  /\ focus = "support" => SupportInv
  /\ focus \in {"watching", "presence"} => RealtimeTyped
  /\ focus = "pictures" => PicturesInv
  /\ focus \in {"pages", "viewing"} => BrowsingTyped
  /\ focus \in {"tags", "groups"} => TaggingInv
  /\ focus = "notices" => NoticesInv
  /\ focus = "banks" => BankTyped
  /\ focus \in {"wallets", "drawing"} => AllowanceTyped

LEMMA StepsInFocus ==
  /\ PointsStep => focus \in {"points", "ranking"}
  /\ ReferralsStep => focus = "referrals"
  /\ RatingsStep => focus = "ratings"
  /\ SubscriptionsStep => focus \in {"subscriptions", "cards"}
  /\ CouponsStep => focus = "coupons"
  /\ StaffStep => focus \in {"codes", "agents"}
  /\ BusinessesStep => focus \in {"businesses", "reviews"}
  /\ DriversStep => focus \in {"drivers", "shifts"}
  /\ CatalogStep => focus \in {"lines", "moves", "outlets"}
  /\ CheckoutStep => focus \in {"ordering", "discounts", "selling"}
  /\ SupportStep => focus = "support"
  /\ RealtimeStep => focus \in {"watching", "presence"}
  /\ PicturesStep => focus = "pictures"
  /\ BrowsingStep => focus \in {"pages", "viewing"}
  /\ TaggingStep => focus \in {"tags", "groups"}
  /\ NoticesStep => focus = "notices"
  /\ BanksStep => focus = "banks"
  /\ AllowanceStep => focus \in {"wallets", "drawing"}
  BY DEF PointsStep, ReferralsStep, RatingsStep, SubscriptionsStep, CouponsStep, StaffStep, BusinessesStep, DriversStep, CatalogStep, CheckoutStep, SupportStep, RealtimeStep, PicturesStep, BrowsingStep, TaggingStep, NoticesStep, BanksStep, AllowanceStep

(* Every step is one of the part in focus.                                 *)
LEMMA OnlyFocusSteps ==
  ASSUME Next
  PROVE  /\ UNCHANGED focus
         /\ focus \in {"points", "ranking"} => PointsStep
         /\ focus = "referrals" => ReferralsStep
         /\ focus = "ratings" => RatingsStep
         /\ focus \in {"subscriptions", "cards"} => SubscriptionsStep
         /\ focus = "coupons" => CouponsStep
         /\ focus \in {"codes", "agents"} => StaffStep
         /\ focus \in {"businesses", "reviews"} => BusinessesStep
         /\ focus \in {"drivers", "shifts"} => DriversStep
         /\ focus \in {"lines", "moves", "outlets"} => CatalogStep
         /\ focus \in {"ordering", "discounts", "selling"} => CheckoutStep
         /\ focus = "support" => SupportStep
         /\ focus \in {"watching", "presence"} => RealtimeStep
         /\ focus = "pictures" => PicturesStep
         /\ focus \in {"pages", "viewing"} => BrowsingStep
         /\ focus \in {"tags", "groups"} => TaggingStep
         /\ focus = "notices" => NoticesStep
         /\ focus = "banks" => BanksStep
         /\ focus \in {"wallets", "drawing"} => AllowanceStep
<1>1. UNCHANGED focus
  BY DEF Next, Only
<1>2. \/ PointsStep
      \/ ReferralsStep
      \/ RatingsStep
      \/ SubscriptionsStep
      \/ CouponsStep
      \/ StaffStep
      \/ BusinessesStep
      \/ DriversStep
      \/ CatalogStep
      \/ CheckoutStep
      \/ SupportStep
      \/ RealtimeStep
      \/ PicturesStep
      \/ BrowsingStep
      \/ TaggingStep
      \/ NoticesStep
      \/ BanksStep
      \/ AllowanceStep
  BY DEF Next
<1> QED BY <1>1, <1>2, StepsInFocus

(* A part's steps here are steps of the part.                              *)
LEMMA PointsSteps == PointsStep => PointsNext
  BY DEF PointsStep, PointsNext
LEMMA ReferralsSteps == ReferralsStep => ReferralsNext
  BY DEF ReferralsStep
LEMMA RatingsSteps == RatingsStep => RatingsNext
  BY DEF RatingsStep
LEMMA SubscriptionsSteps == SubscriptionsStep => SubscriptionsNext
  BY DEF SubscriptionsStep, SubscriptionsNext
LEMMA CouponsSteps == CouponsStep => CouponsNext
  BY DEF CouponsStep

LEMMA StaffSteps == StaffStep => StaffNext
<1> SUFFICES ASSUME StaffStep PROVE StaffNext
  OBVIOUS
<1>0. MCGrants \subseteq Grants /\ MCLogins \subseteq Users \X Devices
  BY MCInputs
<1> DEFINE grants == MCGrants  logins == MCLogins
<1> HIDE DEF grants, logins
<1>1. ASSUME CodesNext(grants), grants \subseteq Grants PROVE CodesNext(Grants)
  BY <1>1 DEF CodesNext
<1>2. ASSUME AgentsNext(logins), logins \subseteq Users \X Devices PROVE AgentsNext(Users \X Devices)
  BY <1>2 DEF AgentsNext
<1> QED BY <1>0, <1>1, <1>2 DEF StaffStep, StaffNext, grants, logins

LEMMA BusinessesSteps == BusinessesStep => BusinessNext
<1> SUFFICES ASSUME BusinessesStep PROVE BusinessNext
  OBVIOUS
<1>1. ApplyingNext({"b1"}) => ApplyingNext(Businesses)
  BY MCInputs DEF ApplyingNext
<1> QED BY <1>1 DEF BusinessesStep, BusinessNext

LEMMA DriversSteps == DriversStep => DriverNext
<1> SUFFICES ASSUME DriversStep PROVE DriverNext
  OBVIOUS
<1>1. ASSUME NEW phases \in SUBSET (0 .. 4), NEW days \in SUBSET Days, PhasesNext(phases, days)
      PROVE  PhasesNext(0 .. 4, Days)
  BY <1>1 DEF PhasesNext
<1>2. {0, 1, 2, 4} \in SUBSET (0 .. 4) /\ {3} \in SUBSET (0 .. 4) /\ {1} \in SUBSET Days /\ Days \in SUBSET Days
  BY MCInputs
<1> QED BY <1>1, <1>2 DEF DriversStep, DriverNext

LEMMA CatalogSteps == CatalogStep => CatalogNext
<1> SUFFICES ASSUME CatalogStep PROVE CatalogNext
  OBVIOUS
<1>1. ASSUME NEW lines \in SUBSET Lines, NEW bases \in SUBSET BaseItems, LinesNext(lines, bases)
      PROVE  LinesNext(Lines, BaseItems)
  BY <1>1 DEF LinesNext
<1>2. /\ Lines \in SUBSET Lines /\ {"i1"} \in SUBSET Lines
      /\ BaseItems \in SUBSET BaseItems /\ {"x"} \in SUBSET BaseItems
  BY MCInputs
<1> QED BY <1>1, <1>2 DEF CatalogStep, CatalogNext

LEMMA CheckoutSteps == CheckoutStep => CheckoutNext
<1> SUFFICES ASSUME CheckoutStep PROVE CheckoutNext
  OBVIOUS
<1>1. DiscountsNext({"b1", "b2"}) => DiscountsNext(Stores)
  BY MCInputs DEF DiscountsNext
<1> QED BY <1>1 DEF CheckoutStep, CheckoutNext

LEMMA SupportSteps == SupportStep => SupportNext
  BY DEF SupportStep

LEMMA RealtimeSteps == RealtimeStep => RealtimeNext
<1> SUFFICES ASSUME RealtimeStep PROVE RealtimeNext
  OBVIOUS
<1>1. WatchingNext({1}) => WatchingNext(Sockets)
  BY MCInputs DEF WatchingNext
<1> QED BY <1>1 DEF RealtimeStep, RealtimeNext

LEMMA PicturesSteps == PicturesStep => PicturesNext
  BY DEF PicturesStep
LEMMA BrowsingSteps == BrowsingStep => BrowsingNext
  BY DEF BrowsingStep, BrowsingNext

LEMMA TaggingSteps == TaggingStep => TaggingNext
<1> SUFFICES ASSUME TaggingStep PROVE TaggingNext
  OBVIOUS
<1>1. TagsNext({"Burger", "Suya"}) => TagsNext(Spellings)
  BY MCInputs DEF TagsNext
<1> QED BY <1>1 DEF TaggingStep, TaggingNext

LEMMA NoticesSteps == NoticesStep => NoticesNext
  BY DEF NoticesStep
LEMMA BanksSteps == BanksStep => BankAccountsNext
  BY DEF BanksStep

LEMMA AllowanceSteps == AllowanceStep => AllowanceNext
<1> SUFFICES ASSUME AllowanceStep PROVE AllowanceNext
  OBVIOUS
<1>1. AskingNext({1}) => AskingNext(Keys)
  BY MCInputs DEF AskingNext
<1>2. ASSUME NEW K \in SUBSET Keys, DrawingNext(K, {1}) PROVE DrawingNext(Keys, Sums)
  BY <1>2, MCInputs DEF DrawingNext
<1>3. {1, 2} \in SUBSET Keys
  BY MCInputs
<1> DEFINE next == {Cardinality(Of(u1)) + 1} \cap Keys
<1>4. next \in SUBSET Keys
  OBVIOUS
<1> HIDE DEF next
<1>5. (\E w \in Workers : AskerDies(w)) => SettlingNext
  BY DEF SettlingNext
<1> QED BY <1>1, <1>2, <1>3, <1>4, <1>5 DEF AllowanceStep, AllowanceNext, next

(* What the part in focus keeps, a step or a stutter keeps.                *)
LEMMA NextServices == ServicesInv /\ [Next]_AllVars => ServicesInv'
<1> SUFFICES ASSUME ServicesInv, [Next]_AllVars PROVE ServicesInv'
  OBVIOUS
<1>0. UNCHANGED focus
  BY OnlyFocusSteps DEF AllVars
<1>1. ASSUME focus \in {"points", "ranking"} PROVE PointsTyped'
  <2>1. PointsTyped
    BY <1>1 DEF ServicesInv
  <2>2. [PointsNext]_PointsState
    <3>1. CASE Next
      BY <1>1, <3>1, OnlyFocusSteps, PointsSteps
    <3>2. CASE UNCHANGED AllVars
      BY <3>2 DEF AllVars, PointsState
    <3> QED BY <3>1, <3>2
  <2> QED BY <2>1, <2>2, NextPointsTyped
<1>2. ASSUME focus = "referrals" PROVE ReferralsTyped'
  <2>1. ReferralsTyped
    BY <1>2 DEF ServicesInv
  <2>2. [ReferralsNext]_ReferralState
    <3>1. CASE Next
      BY <1>2, <3>1, OnlyFocusSteps, ReferralsSteps
    <3>2. CASE UNCHANGED AllVars
      BY <3>2 DEF AllVars, ReferralState
    <3> QED BY <3>1, <3>2
  <2> QED BY <2>1, <2>2, NextReferralsTyped
<1>3. ASSUME focus = "ratings" PROVE RatingsTyped'
  <2>1. RatingsTyped
    BY <1>3 DEF ServicesInv
  <2>2. [RatingsNext]_RatingsState
    <3>1. CASE Next
      BY <1>3, <3>1, OnlyFocusSteps, RatingsSteps
    <3>2. CASE UNCHANGED AllVars
      BY <3>2 DEF AllVars, RatingsState
    <3> QED BY <3>1, <3>2
  <2> QED BY <2>1, <2>2, NextRatings, RatingsTypeKept DEF RatingsTyped
<1>4. ASSUME focus \in {"subscriptions", "cards"} PROVE SubscriptionsTyped'
  <2>1. SubscriptionsTyped
    BY <1>4 DEF ServicesInv
  <2>2. [SubscriptionsNext]_SubscriptionsState
    <3>1. CASE Next
      BY <1>4, <3>1, OnlyFocusSteps, SubscriptionsSteps
    <3>2. CASE UNCHANGED AllVars
      BY <3>2 DEF AllVars, SubscriptionsState
    <3> QED BY <3>1, <3>2
  <2> QED BY <2>1, <2>2, NextSubscriptions, SubscriptionsTypeKept DEF SubscriptionsTyped
<1>5. ASSUME focus = "coupons" PROVE CouponsTyped'
  <2>1. CouponsTyped
    BY <1>5 DEF ServicesInv
  <2>2. [CouponsNext]_CouponsState
    <3>1. CASE Next
      BY <1>5, <3>1, OnlyFocusSteps, CouponsSteps
    <3>2. CASE UNCHANGED AllVars
      BY <3>2 DEF AllVars, CouponsState
    <3> QED BY <3>1, <3>2
  <2> QED BY <2>1, <2>2, NextCoupons, SpunByRegularsKept DEF CouponsTyped
<1>6. ASSUME focus \in {"codes", "agents"} PROVE StaffInv'
  <2>1. StaffInv
    BY <1>6 DEF ServicesInv
  <2>2. [StaffNext]_<<work, StaffVars>>
    <3>1. CASE Next
      BY <1>6, <3>1, OnlyFocusSteps, StaffSteps
    <3>2. CASE UNCHANGED AllVars
      BY <3>2 DEF AllVars
    <3> QED BY <3>1, <3>2
  <2> QED BY <2>1, <2>2, NextStaff
<1>7. ASSUME focus \in {"businesses", "reviews"} PROVE BusinessTyped'
  <2>1. BusinessTyped
    BY <1>7 DEF ServicesInv
  <2>2. [BusinessNext]_BusinessState
    <3>1. CASE Next
      BY <1>7, <3>1, OnlyFocusSteps, BusinessesSteps
    <3>2. CASE UNCHANGED AllVars
      BY <3>2 DEF AllVars, BusinessState
    <3> QED BY <3>1, <3>2
  <2> QED BY <2>1, <2>2, NextBusinessTyped
<1>8. ASSUME focus \in {"drivers", "shifts"} PROVE DriverTyped'
  <2>1. DriverTyped
    BY <1>8 DEF ServicesInv
  <2>2. [DriverNext]_DriverState
    <3>1. CASE Next
      BY <1>8, <3>1, OnlyFocusSteps, DriversSteps
    <3>2. CASE UNCHANGED AllVars
      BY <3>2 DEF AllVars, DriverState
    <3> QED BY <3>1, <3>2
  <2> QED BY <2>1, <2>2, NextDriverTyped
<1>9. ASSUME focus \in {"lines", "moves", "outlets"} PROVE CatalogInv'
  <2>1. CatalogInv
    BY <1>9 DEF ServicesInv
  <2>2. [CatalogNext]_<<work, CatalogVars>>
    <3>1. CASE Next
      BY <1>9, <3>1, OnlyFocusSteps, CatalogSteps
    <3>2. CASE UNCHANGED AllVars
      BY <3>2 DEF AllVars
    <3> QED BY <3>1, <3>2
  <2> QED BY <2>1, <2>2, NextCatalog
<1>10. ASSUME focus \in {"ordering", "discounts", "selling"} PROVE CheckoutTyped'
  <2>1. CheckoutTyped
    BY <1>10 DEF ServicesInv
  <2>2. [CheckoutNext]_<<work, CheckoutVars>>
    <3>1. CASE Next
      BY <1>10, <3>1, OnlyFocusSteps, CheckoutSteps
    <3>2. CASE UNCHANGED AllVars
      BY <3>2 DEF AllVars
    <3> QED BY <3>1, <3>2
  <2> QED BY <2>1, <2>2, NextCheckoutTyped
<1>11. ASSUME focus = "support" PROVE SupportInv'
  <2>1. SupportInv
    BY <1>11 DEF ServicesInv
  <2>2. [SupportNext]_<<work, SupportVars>>
    <3>1. CASE Next
      BY <1>11, <3>1, OnlyFocusSteps, SupportSteps
    <3>2. CASE UNCHANGED AllVars
      BY <3>2 DEF AllVars
    <3> QED BY <3>1, <3>2
  <2> QED BY <2>1, <2>2, NextSupport
<1>12. ASSUME focus \in {"watching", "presence"} PROVE RealtimeTyped'
  <2>1. RealtimeTyped
    BY <1>12 DEF ServicesInv
  <2>2. [RealtimeNext]_RealtimeState
    <3>1. CASE Next
      BY <1>12, <3>1, OnlyFocusSteps, RealtimeSteps
    <3>2. CASE UNCHANGED AllVars
      BY <3>2 DEF AllVars, RealtimeState
    <3> QED BY <3>1, <3>2
  <2> QED BY <2>1, <2>2, NextRealtimeTyped
<1>13. ASSUME focus = "pictures" PROVE PicturesInv'
  <2>1. PicturesInv
    BY <1>13 DEF ServicesInv
  <2>2. [PicturesNext]_<<work, PicturesVars>>
    <3>1. CASE Next
      BY <1>13, <3>1, OnlyFocusSteps, PicturesSteps
    <3>2. CASE UNCHANGED AllVars
      BY <3>2 DEF AllVars
    <3> QED BY <3>1, <3>2
  <2> QED BY <2>1, <2>2, NextPictures
<1>14. ASSUME focus \in {"pages", "viewing"} PROVE BrowsingTyped'
  <2>1. BrowsingTyped
    BY <1>14 DEF ServicesInv
  <2>2. [BrowsingNext]_<<work, BrowsingVars>>
    <3>1. CASE Next
      BY <1>14, <3>1, OnlyFocusSteps, BrowsingSteps
    <3>2. CASE UNCHANGED AllVars
      BY <3>2 DEF AllVars
    <3> QED BY <3>1, <3>2
  <2> QED BY <2>1, <2>2, NextBrowsingTyped
<1>15. ASSUME focus \in {"tags", "groups"} PROVE TaggingInv'
  <2>1. TaggingInv
    BY <1>15 DEF ServicesInv
  <2>2. [TaggingNext]_<<work, TaggingVars>>
    <3>1. CASE Next
      BY <1>15, <3>1, OnlyFocusSteps, TaggingSteps
    <3>2. CASE UNCHANGED AllVars
      BY <3>2 DEF AllVars
    <3> QED BY <3>1, <3>2
  <2> QED BY <2>1, <2>2, NextTagging
<1>16. ASSUME focus = "notices" PROVE NoticesInv'
  <2>1. NoticesInv
    BY <1>16 DEF ServicesInv
  <2>2. [NoticesNext]_<<work, NoticesVars>>
    <3>1. CASE Next
      BY <1>16, <3>1, OnlyFocusSteps, NoticesSteps
    <3>2. CASE UNCHANGED AllVars
      BY <3>2 DEF AllVars
    <3> QED BY <3>1, <3>2
  <2> QED BY <2>1, <2>2, NextNotices
<1>17. ASSUME focus = "banks" PROVE BankTyped'
  <2>1. BankTyped
    BY <1>17 DEF ServicesInv
  <2>2. [BankAccountsNext]_BankState
    <3>1. CASE Next
      BY <1>17, <3>1, OnlyFocusSteps, BanksSteps
    <3>2. CASE UNCHANGED AllVars
      BY <3>2 DEF AllVars, BankState
    <3> QED BY <3>1, <3>2
  <2> QED BY <2>1, <2>2, NextBankTyped
<1>18. ASSUME focus \in {"wallets", "drawing"} PROVE AllowanceTyped'
  <2>1. AllowanceTyped
    BY <1>18 DEF ServicesInv
  <2>2. [AllowanceNext]_AllowanceState
    <3>1. CASE Next
      BY <1>18, <3>1, OnlyFocusSteps, AllowanceSteps
    <3>2. CASE UNCHANGED AllVars
      BY <3>2 DEF AllVars, AllowanceState
    <3> QED BY <3>1, <3>2
  <2> QED BY <2>1, <2>2, NextAllowanceTyped
<1> QED BY <1>0, <1>1, <1>2, <1>3, <1>4, <1>5, <1>6, <1>7, <1>8, <1>9, <1>10, <1>11, <1>12, <1>13, <1>14, <1>15, <1>16, <1>17, <1>18 DEF ServicesInv

LEMMA InitServices == Init => ServicesInv
<1> SUFFICES ASSUME Init PROVE ServicesInv
  OBVIOUS
<1>0. focus \in Foci /\ RequestsInit
  BY DEF Init
<1> DEFINE tasks == IF focus \in {"points", "ranking"} THEN MCQueued ELSE {}
           saved == IF focus = "subscriptions" THEN {"c1"} ELSE {}
           phases == IF focus = "shifts" THEN {1, 2} ELSE {}
<1>1. /\ PointsInit(tasks) /\ SubscriptionsInit(saved) /\ DriverInit(phases) /\ NoticesInit({u1, u2})
      /\ ReferralsInit /\ RatingsInit /\ CouponsInit /\ StaffInit /\ BusinessInit /\ CatalogInit
      /\ CheckoutInit /\ SupportInit /\ RealtimeInit /\ PicturesInit /\ BrowsingInit /\ TaggingInit
      /\ BankAccountsInit /\ AllowanceInit
  BY DEF Init
<1>2. \A a \in tasks : a.user \in Users /\ a.key \notin ClientKeys /\ a.points \in Nat \cup {None}
  BY MCInputs DEF MCQueued
<1>3. DriverStart
  <2>1. phases = 1 .. 2 \/ phases = 1 .. 0
    OBVIOUS
  <2>2. 2 \in 0 .. 3 /\ 0 \in 0 .. 3
    OBVIOUS
  <2> HIDE DEF phases
  <2> QED BY <1>1, <2>1, <2>2 DEF DriverStart
<1>4. NoticesStart
  BY <1>1, MCInputs DEF NoticesStart
<1> HIDE DEF tasks, saved, phases
<1>5. PointsTyped
  BY <1>0, <1>1, <1>2, InitPointsTyped
<1>6. ReferralsTyped
  BY <1>0, <1>1, InitReferralsTyped
<1>7. SubscriptionsTyped
  BY <1>0, <1>1, InitSubscriptionsTyped
<1>8. RatingsTyped /\ CouponsTyped
  BY <1>0, <1>1, InitRatingsTyped, InitCoupons, InitSpunByRegulars DEF CouponsTyped
<1>9. StaffInv /\ BusinessTyped /\ DriverTyped
  BY <1>0, <1>1, <1>3, InitStaff, InitBusinessTyped, InitDriverTyped
<1>10. CatalogInv /\ CheckoutTyped /\ SupportInv
  BY <1>0, <1>1, InitCatalog, InitCheckoutTyped, InitSupport
<1>11. RealtimeTyped /\ PicturesInv /\ BrowsingTyped
  BY <1>0, <1>1, InitRealtimeTyped, InitPictures, InitBrowsingTyped
<1>12. TaggingInv /\ NoticesInv
  BY <1>0, <1>1, <1>4, InitTagging, InitNotices
<1>13. BankTyped /\ AllowanceTyped
  BY <1>0, <1>1, InitBankTyped, InitAllowanceTyped
<1> QED BY <1>0, <1>5, <1>6, <1>7, <1>8, <1>9, <1>10, <1>11, <1>12, <1>13 DEF ServicesInv

LEMMA ServicesInvType == ServicesInv => ServicesTypeOK
<1> SUFFICES ASSUME ServicesInv PROVE ServicesTypeOK
  OBVIOUS
<1>1. CASE focus \in {"points", "ranking"}
  <2>1. PointsType
    BY <1>1, PointsTypedType DEF ServicesInv
  <2> QED BY <1>1, <2>1 DEF ServicesTypeOK
<1>2. CASE focus = "referrals"
  <2>1. PointsType /\ ReferralsType
    BY <1>2, ReferralsTypedType DEF ServicesInv
  <2> QED BY <1>2, <2>1 DEF ServicesTypeOK
<1>3. CASE focus = "ratings"
  <2>1. RatingsType
    BY <1>3 DEF ServicesInv, RatingsTyped
  <2> QED BY <1>3, <2>1 DEF ServicesTypeOK
<1>4. CASE focus \in {"subscriptions", "cards"}
  <2>1. SubscriptionsType
    BY <1>4 DEF ServicesInv, SubscriptionsTyped
  <2> QED BY <1>4, <2>1 DEF ServicesTypeOK
<1>5. CASE focus = "coupons"
  <2>1. CouponsType
    BY <1>5, CouponsTypedType DEF ServicesInv
  <2> QED BY <1>5, <2>1 DEF ServicesTypeOK
<1>6. CASE focus \in {"codes", "agents"}
  <2>1. StaffType
    BY <1>6, StaffInvType DEF ServicesInv
  <2> QED BY <1>6, <2>1 DEF ServicesTypeOK
<1>7. CASE focus \in {"businesses", "reviews"}
  <2>1. BusinessType
    BY <1>7, BusinessTypedType DEF ServicesInv
  <2> QED BY <1>7, <2>1 DEF ServicesTypeOK
<1>8. CASE focus \in {"drivers", "shifts"}
  <2>1. DriverType
    BY <1>8, DriverTypedType DEF ServicesInv
  <2> QED BY <1>8, <2>1 DEF ServicesTypeOK
<1>9. CASE focus \in {"lines", "moves", "outlets"}
  <2>1. CatalogType
    BY <1>9, CatalogInvType DEF ServicesInv
  <2> QED BY <1>9, <2>1 DEF ServicesTypeOK
<1>10. CASE focus \in {"ordering", "discounts", "selling"}
  <2>1. CheckoutType
    BY <1>10, CheckoutTypedType DEF ServicesInv
  <2> QED BY <1>10, <2>1 DEF ServicesTypeOK
<1>11. CASE focus = "support"
  <2>1. SupportType
    BY <1>11, SupportInvType DEF ServicesInv
  <2> QED BY <1>11, <2>1 DEF ServicesTypeOK
<1>12. CASE focus \in {"watching", "presence"}
  <2>1. RealtimeType
    BY <1>12, RealtimeTypedType DEF ServicesInv
  <2> QED BY <1>12, <2>1 DEF ServicesTypeOK
<1>13. CASE focus = "pictures"
  <2>1. PicturesType
    BY <1>13, PicturesInvType DEF ServicesInv
  <2> QED BY <1>13, <2>1 DEF ServicesTypeOK
<1>14. CASE focus \in {"pages", "viewing"}
  <2>1. BrowsingType
    BY <1>14, BrowsingTypedType DEF ServicesInv
  <2> QED BY <1>14, <2>1 DEF ServicesTypeOK
<1>15. CASE focus \in {"tags", "groups"}
  <2>1. TaggingType
    BY <1>15, TaggingInvType DEF ServicesInv
  <2> QED BY <1>15, <2>1 DEF ServicesTypeOK
<1>16. CASE focus = "notices"
  <2>1. NoticesType
    BY <1>16, NoticesInvType DEF ServicesInv
  <2> QED BY <1>16, <2>1 DEF ServicesTypeOK
<1>17. CASE focus = "banks"
  <2>1. BankAccountsType
    BY <1>17, BankTypedType DEF ServicesInv
  <2> QED BY <1>17, <2>1 DEF ServicesTypeOK
<1>18. CASE focus \in {"wallets", "drawing"}
  <2>1. AllowanceType
    BY <1>18, AllowanceTypedType DEF ServicesInv
  <2> QED BY <1>18, <2>1 DEF ServicesTypeOK
<1> QED BY <1>1, <1>2, <1>3, <1>4, <1>5, <1>6, <1>7, <1>8, <1>9, <1>10, <1>11, <1>12, <1>13, <1>14, <1>15, <1>16, <1>17, <1>18 DEF ServicesInv, Foci

(* Whatever part is exercised, its tables, its cache entries and what its  *)
(* workers remember between two steps keep their types, however the        *)
(* requests, tasks, deaths and expiries of the part interleave: statuses   *)
(* and phases stay within their choices, keys refer to rows there are,     *)
(* counters and sums stay in range.                                        *)
THEOREM ServicesTyped == Spec => []ServicesTypeOK
<1>1. Init => ServicesInv
  BY InitServices
<1>2. ServicesInv /\ [Next]_AllVars => ServicesInv'
  BY NextServices
<1>3. ServicesInv => ServicesTypeOK
  BY ServicesInvType
<1> QED BY <1>1, <1>2, <1>3, PTL DEF Spec
=============================================================================
