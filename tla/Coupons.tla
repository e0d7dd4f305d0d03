------------------------------ MODULE Coupons -------------------------------
(***************************************************************************)
(* Reward coupons: the administrator's edits of coupons and wheels, and    *)
(* the customer's spin, which claims one of a coupon's limited uses and    *)
(* puts an entry in the customer's wallet.  Redeeming is absent because    *)
(* apply_coupon_to_order saves a column orders do not have: it raises and  *)
(* the order, the use and the wallet entry's mark are all rolled back.     *)
(***************************************************************************)
EXTENDS Requests, Sequences, FiniteSetsExt

CONSTANTS
    Coupons,        \* coupon rows
    Wheels,         \* wheel rows
    Regulars,       \* customers with 20 delivered orders this month
    Forms,          \* what an administrator's forms for a coupon hold
    MaxEntries      \* bound: wallet entries of a coupon

(* Where a coupon stands in its validity: not begun, three hours left at   *)
(* least, less, or over.                                                   *)
Windows == {"later", "lasting", "closing", "closed"}
CouponForms == [limit : Nat \ {0}, active : BOOLEAN, window : Windows, reward : BOOLEAN]

ASSUME CouponsAssumption ==
    /\ Regulars \subseteq Users /\ Forms \subseteq CouponForms /\ MaxEntries \in Nat
    /\ None \notin [form : CouponForms, uses : Nat]
    /\ None \notin [active : BOOLEAN, coupons : SUBSET Coupons]

VARIABLES
    coupon,         \* the coupon's columns, None before it is created
    wheel,          \* the wheel's columns, None before it is created
    wallet,         \* wallet[c]: UserCouponWallet entries of coupon c
    highest         \* history: the highest limit coupon c was ever given

CouponsVars == <<coupon, wheel, wallet, highest>>

Exists(table, id) == table[id] # None

\* A bug: the limit of uses is not looked at.
EligibleUnlimited(c) ==
    /\ Exists(coupon, c)
    /\ coupon[c].form.active /\ coupon[c].form.reward
    /\ coupon[c].form.window \in {"lasting", "closing"}

(* eligible_coupon_for_wheel_q, and the least lifetime a spin asks for.    *)
Eligible(c) ==
    /\ Exists(coupon, c)
    /\ coupon[c].form.active /\ coupon[c].form.reward
    /\ coupon[c].form.window \in {"lasting", "closing"}
    /\ coupon[c].uses < coupon[c].form.limit
Offered(c) == Eligible(c) /\ coupon[c].form.window = "lasting"

Updating(c) == \E w \in Workers : Doing(w, "coupon") /\ work[w].coupon = c

CouponsInit ==
    /\ coupon = [c \in Coupons |-> None] /\ wheel = [k \in Wheels |-> None]
    /\ wallet = [c \in Coupons |-> <<>>] /\ highest = [c \in Coupons |-> 0]

Saved(c, form, n) ==
    /\ coupon' = [coupon EXCEPT ![c] = [form |-> form, uses |-> n]]
    /\ highest' = [highest EXCEPT ![c] = Max({@, form.limit})]

-----------------------------------------------------------------------------
(* AdminCouponCreateView.                                                  *)
CouponCreated(c, form) ==
    /\ ~Exists(coupon, c)
    /\ Saved(c, form, 0)
    /\ UNCHANGED <<work, wheel, wallet>>

(* AdminCouponUpdateView loads the coupon and saves every column of it,    *)
(* the counter of its uses as it was loaded included.                      *)
CouponLoads(w, c) ==
    /\ Free(w) /\ Exists(coupon, c)
    /\ Starts(w, [op |-> "coupon", coupon |-> c, uses |-> coupon[c].uses])
    /\ UNCHANGED CouponsVars

CouponSaves(w, form) ==
    /\ Doing(w, "coupon")
    /\ Saved(work[w].coupon, form, work[w].uses)
    /\ Ends(w)
    /\ UNCHANGED <<wheel, wallet>>

WindowPasses(c) ==
    /\ Exists(coupon, c) /\ coupon[c].form.window # "closed"
    /\ coupon' = [coupon EXCEPT ![c].form.window =
                    CASE @ = "later" -> "lasting" [] @ = "lasting" -> "closing" [] OTHER -> "closed"]
    /\ UNCHANGED <<work, wheel, wallet, highest>>

(* AdminCouponWheelCreateView, AdminCouponWheelUpdateView: only eligible   *)
(* coupons are kept.  An update that activates the wheel deactivates the   *)
(* others; a creation does not.                                            *)
WheelSaved(k, active, chosen) ==
    LET row == [active |-> active, coupons |-> {c \in chosen : Eligible(c)}]
        off(l) == Exists(wheel, k) /\ active /\ Exists(wheel, l) IN
    /\ wheel' = [l \in Wheels |-> IF l = k THEN row
                                  ELSE IF off(l) THEN [wheel[l] EXCEPT !.active = FALSE]
                                  ELSE wheel[l]]
    /\ UNCHANGED <<work, coupon, wallet, highest>>

-----------------------------------------------------------------------------
(* CouponWheelSpinView: the active wheel's coupons as they are now, from   *)
(* which one is drawn at random, and another once when that one is gone.   *)
SpinReads(w, u, k) ==
    /\ Free(w) /\ u \in Regulars
    /\ Exists(wheel, k) /\ wheel[k].active
    /\ LET offers == {c \in wheel[k].coupons : Offered(c)} IN
       /\ offers # {}
       /\ \A c \in offers : Len(wallet[c]) < MaxEntries
       /\ Starts(w, [op |-> "spin", user |-> u, offers |-> offers, again |-> TRUE])
    /\ UNCHANGED CouponsVars

(* award_coupon_to_user: a conditional update claims a use, and the entry  *)
(* is created in its transaction.                                          *)
SpinAwards(w, c) ==
    LET j == work[w] IN
    /\ Doing(w, "spin") /\ c \in j.offers
    /\ Eligible(c)
    /\ coupon' = [coupon EXCEPT ![c].uses = @ + 1]
    /\ wallet' = [wallet EXCEPT ![c] = Append(@, [user |-> j.user, during |-> Updating(c)])]
    /\ Ends(w)
    /\ UNCHANGED <<wheel, highest>>

SpinMisses(w, c) ==
    LET j == work[w] IN
    /\ Doing(w, "spin") /\ c \in j.offers
    /\ ~Eligible(c)
    /\ IF j.again /\ j.offers # {c}
         THEN Starts(w, [j EXCEPT !.offers = @ \ {c}, !.again = FALSE])
         ELSE Ends(w)
    /\ UNCHANGED CouponsVars

-----------------------------------------------------------------------------
CouponsNext ==
    \/ \E c \in Coupons, form \in Forms : CouponCreated(c, form)
    \/ \E w \in Workers, c \in Coupons : CouponLoads(w, c)
    \/ \E w \in Workers, form \in Forms : CouponSaves(w, form)
    \/ \E c \in Coupons : WindowPasses(c)
    \/ \E k \in Wheels, active \in BOOLEAN, chosen \in SUBSET Coupons : WheelSaved(k, active, chosen)
    \/ \E w \in Workers, u \in Users, k \in Wheels : SpinReads(w, u, k)
    \/ \E w \in Workers, c \in Coupons : SpinAwards(w, c) \/ SpinMisses(w, c)
    \/ \E w \in Workers : Dies(w) /\ UNCHANGED CouponsVars

-----------------------------------------------------------------------------
CouponsType ==
    /\ \A c \in Coupons : Exists(coupon, c) => coupon[c] \in [form : CouponForms, uses : Nat]
    /\ \A k \in Wheels : Exists(wheel, k) => wheel[k] \in [active : BOOLEAN, coupons : SUBSET Coupons]
    /\ \A c \in Coupons : \A i \in DOMAIN wallet[c] : wallet[c][i] \in [user : Regulars, during : BOOLEAN]
    /\ highest \in [Coupons -> Nat]

(* A coupon is awarded no more often than the highest limit it was given,  *)
(* but for the awards an administrator's update of it overlapped, which    *)
(* writes the older counter back                                           *)
(* (coupons_discount/services/wheel.py:award_coupon_to_user,               *)
(* coupons_discount/views.py:AdminCouponUpdateView).                       *)
AwardsWithinLimit ==
    \A c \in Coupons :
        LET overlapped == {i \in DOMAIN wallet[c] : wallet[c][i].during}
            counted == Len(wallet[c]) - Cardinality(overlapped)
            used == IF Exists(coupon, c) THEN coupon[c].uses ELSE 0 IN
        counted <= used /\ used <= highest[c]
=============================================================================
