---------------------------- MODULE Subscriptions ---------------------------
(***************************************************************************)
(* Plans and their features, subscriptions and saved cards.  Paystack      *)
(* creates and disables subscriptions and charges cards; this side follows *)
(* through webhook events, which may come late, twice or in any order, and *)
(* are applied again until they are marked processed.                      *)
(***************************************************************************)
EXTENDS Requests

CONSTANTS
    Codes,      \* subscription codes Paystack hands out
    Cards,      \* authorization codes of cards
    Features,   \* features an administrator gives the plan
    Holder      \* Holder[c]: the user who pays with card or subscription c

ASSUME SubscriptionsAssumption == Holder \in [Codes \cup Cards -> Users]

VARIABLES
    remote,     \* Paystack's subscriptions: "none", "live" or "disabled"
    sub,        \* the local Subscription row: "none", "active" or "inactive"
    events,     \* webhook events Paystack has sent, and may send again
    processed,  \* events whose PaystackWebhookLog row is processed
    card,       \* the CardAuthorization row: "none", "plain" or "primary"
    cut,        \* users for whom a change of the primary card died halfway
    plan,       \* the plan: where it exists, its features
    cached      \* the plan's cached features, None without an entry

SubscriptionsVars == <<remote, sub, events, processed, card, cut, plan, cached>>

CardsOf(u) == {c \in Cards : Holder[c] = u /\ card[c] # "none"}
PrimaryOf(u) == {c \in CardsOf(u) : card[c] = "primary"}

FirstCard(u) == CardsOf(u) = {}

ActiveOf(u) == {c \in Codes : Holder[c] = u /\ sub[c] = "active"}
Event(type, id) == [type |-> type, id |-> id]

(* Before the first step every card of `saved' is its holder's primary one. *)
SubscriptionsInit(saved) ==
    /\ remote = [c \in Codes |-> "none"] /\ sub = [c \in Codes |-> "none"]
    /\ events = {} /\ processed = {}
    /\ card = [c \in Cards |-> IF c \in saved THEN "primary" ELSE "none"] /\ cut = {}
    /\ plan = [remote |-> FALSE, local |-> FALSE, open |-> FALSE, features |-> {}]
    /\ cached = None

-----------------------------------------------------------------------------
(* PlanListCreateView.create: Paystack first, the local row after.         *)
PlanCreate(w) ==
    /\ Free(w) /\ ~plan.remote
    /\ plan' = [plan EXCEPT !.remote = TRUE]
    /\ Starts(w, [op |-> "plan"])
    /\ UNCHANGED <<remote, sub, events, processed, card, cut, cached>>

PlanSave(w, features) ==
    /\ Doing(w, "plan")
    /\ plan' = [plan EXCEPT !.local = TRUE, !.open = TRUE, !.features = features]
    /\ Ends(w)
    /\ UNCHANGED <<remote, sub, events, processed, card, cut, cached>>

(* PlanDetailView.update; the cached features are left as they are.        *)
PlanUpdate(features) ==
    /\ plan.local /\ plan.features # features
    /\ plan' = [plan EXCEPT !.features = features]
    /\ UNCHANGED <<work, remote, sub, events, processed, card, cut, cached>>

(* PlanDisableView: nobody's plan any more, but no check reads it.         *)
PlanDisable ==
    /\ plan.open
    /\ plan' = [plan EXCEPT !.open = FALSE]
    /\ UNCHANGED <<work, remote, sub, events, processed, card, cut, cached>>

(* get_all_features and check_feature: on a miss the rows are read, then   *)
(* cached; an empty list is not cached.                                    *)
FeaturesRead(w) ==
    /\ Free(w) /\ cached = None /\ plan.features # {}
    /\ Starts(w, [op |-> "features", features |-> plan.features])
    /\ UNCHANGED SubscriptionsVars

FeaturesCache(w) ==
    /\ Doing(w, "features")
    /\ cached' = work[w].features
    /\ Ends(w)
    /\ UNCHANGED <<remote, sub, events, processed, card, cut, plan>>

FeaturesExpire ==
    /\ cached # None
    /\ cached' = None
    /\ UNCHANGED <<work, remote, sub, events, processed, card, cut, plan>>

-----------------------------------------------------------------------------
(* CreateSubscriptionView: nothing is stored here; a user without a        *)
(* primary card fails on the missing card.                                 *)
Subscribe(c) ==
    /\ plan.local /\ remote[c] = "none"
    /\ PrimaryOf(Holder[c]) # {}
    /\ remote' = [remote EXCEPT ![c] = "live"]
    /\ events' = events \cup {Event("create", c)}
    /\ UNCHANGED <<work, sub, processed, card, cut, plan, cached>>

(* CancelSubscriptionView, under the row's lock: a failing call to         *)
(* Paystack is only logged.                                                *)
CancelSubscription(c, fails) ==
    /\ sub[c] = "active"
    /\ sub' = [sub EXCEPT ![c] = "inactive"]
    /\ IF fails THEN UNCHANGED <<remote, events>>
       ELSE /\ remote' = [remote EXCEPT ![c] = "disabled"]
            /\ events' = events \cup {Event("disable", c)}
    /\ UNCHANGED <<work, processed, card, cut, plan, cached>>

(* Paystack ends a subscription on its own.                                *)
PaystackDisables(c) ==
    /\ remote[c] = "live"
    /\ remote' = [remote EXCEPT ![c] = "disabled"]
    /\ events' = events \cup {Event("disable", c)}
    /\ UNCHANGED <<work, sub, processed, card, cut, plan, cached>>

\* A bug: the subscription the user had stays active.
CreatedOnly(c) == [sub EXCEPT ![c] = "active"]

(* on_subscription_created, under the user's lock: the user's other        *)
(* subscriptions end, this one is active, whatever happened to it since.   *)
Created(c) ==
    [d \in Codes |-> IF d = c THEN "active"
                     ELSE IF d \in ActiveOf(Holder[c]) THEN "inactive" ELSE sub[d]]

(* subscription.disable: a row that is not there yet is not created.       *)
Disabled(c) == IF sub[c] = "none" THEN sub ELSE [sub EXCEPT ![c] = "inactive"]

(* handle_paystack_webhook: an event not yet marked processed is applied,  *)
(* and marked in a later statement.                                        *)
EventApplies(w, e) ==
    /\ Free(w)
    /\ e \notin processed /\ e.type \in {"create", "disable"}
    /\ sub' = IF e.type = "create" THEN Created(e.id) ELSE Disabled(e.id)
    /\ Starts(w, [op |-> "mark", event |-> e])
    /\ UNCHANGED <<remote, events, processed, card, cut, plan, cached>>

EventMarked(w) ==
    /\ Doing(w, "mark")
    /\ processed' = processed \cup {work[w].event}
    /\ Ends(w)
    /\ UNCHANGED <<remote, sub, events, card, cut, plan, cached>>

-----------------------------------------------------------------------------
(* SaveCardView starts a small charge; Paystack reports it with the card.  *)
CardCharged(c) ==
    /\ Event("card", c) \notin events
    /\ events' = events \cup {Event("card", c)}
    /\ UNCHANGED <<work, remote, sub, processed, card, cut, plan, cached>>

(* save_card_details: the user's cards are read, the new one is primary    *)
(* when there were none.                                                   *)
CardReads(w, e) ==
    /\ Free(w)
    /\ e \notin processed /\ e.type = "card"
    /\ IF card[e.id] = "none"
         THEN Starts(w, [op |-> "card", event |-> e, first |-> FirstCard(Holder[e.id])])
         ELSE Starts(w, [op |-> "mark", event |-> e])
    /\ UNCHANGED SubscriptionsVars

(* The authorization code is unique: a second row is refused, and the      *)
(* event stays unprocessed.                                                *)
CardCreates(w) ==
    LET j == work[w] IN
    /\ Doing(w, "card")
    /\ IF card[j.event.id] = "none"
         THEN /\ card' = [card EXCEPT ![j.event.id] = IF j.first THEN "primary" ELSE "plain"]
              /\ Starts(w, [op |-> "mark", event |-> j.event])
         ELSE /\ UNCHANGED card
              /\ Ends(w)
    /\ UNCHANGED <<remote, sub, events, processed, cut, plan, cached>>

(* set_primary_card: two statements without a transaction.                 *)
PrimaryClears(w, c) ==
    /\ Free(w) /\ card[c] # "none"
    /\ card' = [d \in Cards |-> IF d \in PrimaryOf(Holder[c]) THEN "plain" ELSE card[d]]
    /\ Starts(w, [op |-> "primary", card |-> c])
    /\ UNCHANGED <<remote, sub, events, processed, cut, plan, cached>>

PrimarySets(w) ==
    LET c == work[w].card IN
    /\ Doing(w, "primary")
    /\ card' = [card EXCEPT ![c] = "primary"]
    /\ cut' = cut \ {Holder[c]}
    /\ Ends(w)
    /\ UNCHANGED <<remote, sub, events, processed, plan, cached>>

SubscriberDies(w) ==
    /\ Dies(w)
    /\ cut' = IF Doing(w, "primary") THEN cut \cup {Holder[work[w].card]} ELSE cut
    /\ UNCHANGED <<remote, sub, events, processed, card, plan, cached>>

-----------------------------------------------------------------------------
PlansNext ==
    \/ \E w \in Workers : PlanCreate(w) \/ FeaturesRead(w) \/ FeaturesCache(w)
    \/ \E w \in Workers, f \in SUBSET Features : PlanSave(w, f)
    \/ \E f \in SUBSET Features : PlanUpdate(f)
    \/ PlanDisable
    \/ FeaturesExpire

SubscribingNext ==
    \/ \E c \in Codes : Subscribe(c) \/ PaystackDisables(c)
    \/ \E c \in Codes, fails \in BOOLEAN : CancelSubscription(c, fails)
    \/ \E w \in Workers, e \in events : EventApplies(w, e)

CardsNext ==
    \/ \E c \in Cards : CardCharged(c)
    \/ \E w \in Workers, e \in events : CardReads(w, e)
    \/ \E w \in Workers, c \in Cards : PrimaryClears(w, c)
    \/ \E w \in Workers : CardCreates(w) \/ PrimarySets(w)

WorkerNext == \E w \in Workers : EventMarked(w) \/ SubscriberDies(w)

SubscriptionsNext == PlansNext \/ SubscribingNext \/ CardsNext \/ WorkerNext

-----------------------------------------------------------------------------
SubscriptionsType ==
    /\ remote \in [Codes -> {"none", "live", "disabled"}]
    /\ sub \in [Codes -> {"none", "active", "inactive"}]
    /\ processed \subseteq events
    /\ events \subseteq [type : {"create", "disable", "card"}, id : Codes \cup Cards]
    /\ card \in [Cards -> {"none", "plain", "primary"}]
    /\ cut \subseteq Users
    /\ plan \in [remote : BOOLEAN, local : BOOLEAN, open : BOOLEAN, features : SUBSET Features]
    /\ cached # None => cached \subseteq Features

(* However late or often Paystack's events come, a user has one active     *)
(* subscription, and a subscription known here is one Paystack created for *)
(* a plan it knows (payments/webhooks/paystack.py:on_subscription_created, *)
(* payments/subscriptions/views.py).                                       *)
OneActive ==
    /\ \A u \in Users : Cardinality(ActiveOf(u)) <= 1
    /\ \A c \in Codes : sub[c] # "none" => remote[c] # "none" /\ plan.remote

(* Two events that save cards and two changes of the primary card may      *)
(* overlap and leave two primary cards; but a user with cards lacks a      *)
(* primary one only while a change is under way, or after one died halfway *)
(* (payments/webhooks/paystack.py:save_card_details,                       *)
(* payments/services/card_service.py:set_primary_card).                    *)
PrimaryKept ==
    \A u \in Users :
        CardsOf(u) # {} /\ PrimaryOf(u) = {} =>
            u \in cut \/ \E w \in Workers : Doing(w, "primary") /\ Holder[work[w].card] = u

(* Whoever pays for a plan has one subscription and one card it is paid    *)
(* with: both of the above.                                                *)
SubscriptionsKept == OneActive /\ PrimaryKept
=============================================================================
