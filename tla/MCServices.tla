----------------------------- MODULE MCServices ------------------------------
(***************************************************************************)
(* The components around orders and withdrawals for TLC.  They share the   *)
(* workers; focus, chosen at the start, is the part that is exercised, so  *)
(* that the state spaces of the parts add up instead of multiplying.       *)
(***************************************************************************)
EXTENDS Referrals, Ratings, Subscriptions, Coupons, Staff, Onboarding,
        DriverOnboarding, Catalog,
        Checkout, Support, Realtime, Pictures, Browsing, Tagging, Notices,
        BankAccounts, Allowance, TLC

CONSTANTS u1, u2, u3

VARIABLE focus

MCQueued ==
    {[user |-> u1, key |-> <<"refund", 1>>, points |-> 2],
     [user |-> u1, key |-> <<"referral-success", u2>>, points |-> None]}
MCInvitations == {<<u1, u2, "driver">>, <<u1, u3, "driver">>, <<u2, u1, "customer">>}
MCRated == [p \in Parties |-> IF p = "branch" THEN {1, 2} ELSE {}]
MCHolder == [c \in Codes \cup Cards |-> u1]
MCForms ==
    {[limit |-> 1, active |-> TRUE, window |-> "lasting", reward |-> TRUE],
     [limit |-> 2, active |-> TRUE, window |-> "closing", reward |-> TRUE],
     [limit |-> 1, active |-> FALSE, window |-> "later", reward |-> FALSE]}
MCPercents == [driver |-> 10, business |-> 80, referral |-> 3]
MCGrants == {[purpose |-> "email", of |-> u1], [purpose |-> "link", of |-> "b1"]}

MCLogins == {<<u1, "v1">>, <<u1, "v2">>, <<u2, "v1">>}
MCProfiles == [u \in {u1} |-> {"driver", "business_owner"}]
MCEarnings == [u \in {u1} |-> 5]
MCLeastSum == [r \in {"driver", "business_owner", "referral"} |-> IF r = "business_owner" THEN 2 ELSE 1]

MCOffer == [kind |-> "delivery", unit |-> "percent", value |-> 0, target |-> None, buy |-> None,
            get |-> None, every |-> 0, free |-> 0, of |-> "everyone"]
MCOffers ==
    {MCOffer, [MCOffer EXCEPT !.kind = "categorydiscount", !.value = 150, !.target = "rice"],
     [MCOffer EXCEPT !.kind = "itemdiscount", !.unit = "amount", !.value = 30000, !.target = "i1"]} \cup
    {[MCOffer EXCEPT !.kind = k, !.value = 15, !.target = target, !.of = "b1"] :
        k \in {"itemdiscount", "categorydiscount"}, target \in {"i1", "rice"}} \cup
    {[MCOffer EXCEPT !.kind = "BxGy", !.buy = "i1", !.get = get, !.every = every, !.free = free] :
        get \in {"i1", "i2"}, every \in 1 .. 2, free \in {1, 3}}
MCLine(dish, price, extra, quantity) ==
    [dish |-> dish, category |-> IF dish = "i1" THEN "rice" ELSE "drinks", price |-> price,
     extra |-> extra, quantity |-> quantity]
MCBaskets ==
    {<<MCLine("i1", 250000, 0, q)>> : q \in 1 .. 3} \cup
    {<<MCLine("i2", 20000, e, 1), MCLine("i1", 250000, 13, q), MCLine("i2", 20000, 0, 2)>> : e \in {0, 500}, q \in 1 .. 3}

MCFold == [s \in {"Burger", "burger", "Suya"} |-> IF s = "Suya" THEN "suya" ELSE "burger"]

Foci == {"points", "ranking", "referrals", "ratings", "subscriptions", "cards", "coupons",
         "codes", "agents", "businesses", "reviews", "drivers", "shifts", "lines", "moves", "outlets", "ordering", "discounts", "selling",
         "support", "watching", "presence", "pictures", "pages", "viewing", "tags", "groups", "notices",
         "banks", "wallets", "drawing"}

(* What the parts are given below is among what they know.                 *)
ASSUME MCInputs ==
    /\ {u1, u2, u3} \subseteq Users /\ \A a \in MCQueued : a.key \notin ClientKeys
    /\ MCGrants \subseteq Grants /\ MCLogins \subseteq Users \X Devices
    /\ "b1" \in Businesses /\ {"b1", "b2"} \subseteq Stores
    /\ 1 \in Days /\ "x" \in BaseItems /\ "i1" \in Lines
    /\ 1 \in Sockets /\ {"Burger", "Suya"} \subseteq Spellings
    /\ {1, 2} \subseteq Keys /\ 1 \in Sums

Init ==
    /\ focus \in Foci
    /\ RequestsInit
    /\ PointsInit(IF focus \in {"points", "ranking"} THEN MCQueued ELSE {})
    /\ ReferralsInit /\ RatingsInit
    /\ SubscriptionsInit(IF focus = "subscriptions" THEN {"c1"} ELSE {})
    /\ CouponsInit /\ StaffInit /\ BusinessInit /\ CatalogInit /\ CheckoutInit /\ SupportInit
    /\ DriverInit(IF focus = "shifts" THEN {1, 2} ELSE {})
    /\ RealtimeInit /\ PicturesInit /\ BrowsingInit /\ TaggingInit /\ NoticesInit({u1, u2})
    /\ BankAccountsInit /\ AllowanceInit
    /\ focus = "wallets" \/ (hurdles = [u \in Payees |-> {}] /\ lastRole = [u \in Payees |-> None])
    /\ focus # "pages" => near = {} /\ paying = {}
    /\ focus # "ordering" => \A i \in Dishes : menuPrice[i] = Min(Prices)
    /\ focus # "watching" => \A s \in Sockets : kind[s] = "order"
    /\ focus = "watching" => kind[2] = "order"

(* A part steps and nothing else does.                                     *)
Only(part) ==
    /\ UNCHANGED focus
    /\ IF part \in {"points", "referrals"} THEN TRUE ELSE UNCHANGED PointsVars
    /\ IF part = "referrals" THEN TRUE ELSE UNCHANGED ReferralsVars
    /\ IF part = "ratings" THEN TRUE ELSE UNCHANGED RatingsVars
    /\ IF part = "subscriptions" THEN TRUE ELSE UNCHANGED SubscriptionsVars
    /\ IF part = "coupons" THEN TRUE ELSE UNCHANGED CouponsVars
    /\ IF part = "staff" THEN TRUE ELSE UNCHANGED StaffVars
    /\ IF part = "businesses" THEN TRUE ELSE UNCHANGED BusinessVars
    /\ IF part = "drivers" THEN TRUE ELSE UNCHANGED DriverVars
    /\ IF part = "catalog" THEN TRUE ELSE UNCHANGED CatalogVars
    /\ IF part = "checkout" THEN TRUE ELSE UNCHANGED CheckoutVars
    /\ IF part = "support" THEN TRUE ELSE UNCHANGED SupportVars
    /\ IF part = "realtime" THEN TRUE ELSE UNCHANGED RealtimeVars
    /\ IF part = "pictures" THEN TRUE ELSE UNCHANGED PicturesVars
    /\ IF part = "browsing" THEN TRUE ELSE UNCHANGED BrowsingVars
    /\ IF part = "tagging" THEN TRUE ELSE UNCHANGED TaggingVars
    /\ IF part = "notices" THEN TRUE ELSE UNCHANGED NoticesVars
    /\ IF part = "banks" THEN TRUE ELSE UNCHANGED BankVars
    /\ IF part = "allowance" THEN TRUE ELSE UNCHANGED AllowanceVars

(* The rule is settled before anybody redeems; it changes at any time      *)
(* while awards are ranked.                                                *)
PointsStep ==
    \/ /\ focus = "points"
       /\ \/ \E w \in Workers : Awarding(w) \/ Redeeming(w)
          \/ ledger = {} /\ \E v \in RuleValues : SetRule(v)
    \/ /\ focus = "ranking"
       /\ \/ \E w \in Workers : Awarding(w) \/ Ranking(w)
          \/ \E v \in RuleValues \cup {None} : SetRule(v)
          \/ MonthEnds
    \/ /\ focus \in {"points", "ranking"}
       /\ \E w \in Workers : Dies(w) /\ UNCHANGED PointsVars

ReferralsStep == focus = "referrals" /\ ReferralsNext
RatingsStep == focus = "ratings" /\ RatingsNext
CouponsStep == focus = "coupons" /\ CouponsNext
SupportStep == focus = "support" /\ SupportNext

RealtimeStep ==
    \/ focus = "watching" /\ WatchingNext({1})
    \/ focus = "presence" /\ PresenceNext

PicturesStep == focus = "pictures" /\ ~clashed /\ PicturesNext
NoticesStep == focus = "notices" /\ NoticesNext
BanksStep == focus = "banks" /\ BankAccountsNext
AllowanceStep ==
    \/ focus = "wallets" /\ (AskingNext({1}) \/ DrawingNext({1, 2}, {1}) \/ \E w \in Workers : AskerDies(w))
    \/ focus = "drawing" /\ rejudged = {} /\ (DrawingNext({Cardinality(Of(u1)) + 1} \cap Keys, {1}) \/ SettlingNext)

(* One page is put together at a time: pages do not touch each other.      *)
BrowsingStep ==
    \/ focus = "pages" /\ \E w \in Workers : (\A v \in Workers \ {w} : Free(v)) /\ PagesNext(w)
    \/ focus = "viewing" /\ \E w \in Workers : ViewingNext(w)

TaggingStep ==
    \/ focus = "tags" /\ (TagsNext(Spellings) \/ DecisionsNext)
    \/ focus = "groups" /\ (TagsNext({"Burger", "Suya"}) \/ GroupsNext)

SubscriptionsStep ==
    \/ focus = "subscriptions" /\ (PlansNext \/ SubscribingNext \/ WorkerNext)
    \/ focus = "cards" /\ (CardsNext \/ WorkerNext)

StaffStep ==
    \/ focus = "codes" /\ CodesNext(MCGrants)
    \/ focus = "agents" /\ AgentsNext(MCLogins)

BusinessesStep ==
    \/ focus = "businesses" /\ ApplyingNext(Businesses)
    \/ focus = "reviews" /\ (ApplyingNext({"b1"}) \/ ReviewsNext)

DriversStep ==
    \/ focus = "drivers" /\ PhasesNext({0, 1, 2, 4}, {1})
    \/ focus = "shifts" /\ (PhasesNext({3}, Days) \/ ScheduleNext \/ ChecksNext)

CatalogStep ==
    \/ focus = "lines" /\ LinesNext(Lines, {"x"})
    \/ focus = "moves" /\ LinesNext(Lines, BaseItems) /\ \E w \in Workers : Doing(w, "idle")'
    \/ focus = "outlets" /\ (LinesNext({"i1"}, BaseItems) \/ OutletsNext)

CheckoutStep ==
    \/ focus = "ordering" /\ OrderingNext
    \/ focus = "discounts" /\ DiscountsNext({"b1", "b2"}) /\ \E w \in Workers : Doing(w, "idle")'
    \/ focus = "selling" /\ SellingNext

Next ==
    \/ PointsStep /\ UNCHANGED ReferralsVars /\ Only("points")
    \/ ReferralsStep /\ Only("referrals")
    \/ RatingsStep /\ Only("ratings")
    \/ SubscriptionsStep /\ Only("subscriptions")
    \/ CouponsStep /\ Only("coupons")
    \/ StaffStep /\ Only("staff")
    \/ BusinessesStep /\ Only("businesses")
    \/ DriversStep /\ Only("drivers")
    \/ CatalogStep /\ Only("catalog")
    \/ CheckoutStep /\ Only("checkout")
    \/ SupportStep /\ Only("support")
    \/ RealtimeStep /\ Only("realtime")
    \/ PicturesStep /\ Only("pictures")
    \/ BrowsingStep /\ Only("browsing")
    \/ TaggingStep /\ Only("tagging")
    \/ NoticesStep /\ Only("notices")
    \/ BanksStep /\ Only("banks")
    \/ AllowanceStep /\ Only("allowance")

AllVars == <<work, focus, PointsVars, ReferralsVars, RatingsVars, SubscriptionsVars, CouponsVars,
             StaffVars, BusinessVars, DriverVars, CatalogVars, CheckoutVars, SupportVars, RealtimeVars,
             PicturesVars, BrowsingVars, TaggingVars, NoticesVars, BankVars, AllowanceVars>>

Spec == Init /\ [][Next]_AllVars

MCSymmetry == Permutations(Workers)

(* Every component keeps the types of its tables, its cache entries and    *)
(* what its workers remember.  The parts that do not step stay as they     *)
(* started, so the type of the part in focus is the one to look at.        *)
ServicesTypeOK ==
    CASE focus \in {"points", "ranking"} -> PointsType
      [] focus = "referrals" -> PointsType /\ ReferralsType
      [] focus = "ratings" -> RatingsType
      [] focus \in {"subscriptions", "cards"} -> SubscriptionsType
      [] focus = "coupons" -> CouponsType
      [] focus \in {"codes", "agents"} -> StaffType
      [] focus \in {"businesses", "reviews"} -> BusinessType
      [] focus \in {"drivers", "shifts"} -> DriverType
      [] focus \in {"lines", "moves", "outlets"} -> CatalogType
      [] focus \in {"ordering", "discounts", "selling"} -> CheckoutType
      [] focus = "support" -> SupportType
      [] focus \in {"watching", "presence"} -> RealtimeType
      [] focus = "pictures" -> PicturesType
      [] focus \in {"pages", "viewing"} -> BrowsingType
      [] focus \in {"tags", "groups"} -> TaggingType
      [] focus = "notices" -> NoticesType
      [] focus = "banks" -> BankAccountsType
      [] focus \in {"wallets", "drawing"} -> AllowanceType
=============================================================================
