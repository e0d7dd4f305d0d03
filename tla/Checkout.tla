------------------------------ MODULE Checkout ------------------------------
(***************************************************************************)
(* What an order costs, and how a charge is split.  An order is priced     *)
(* from the branch's and the menu's prices, its totals are rounded by the  *)
(* columns they are stored in, and the charge is computed from the stored  *)
(* order.  Clients of the sale endpoint charge an amount of their own,     *)
(* split by the configured percentages, under an idempotency key.          *)
(* Amounts are kobo; a fee before it is stored counts hundredths of one.   *)
(***************************************************************************)
EXTENDS Requests, Discounts

CONSTANTS
    Places,         \* branches
    Dishes,         \* menu items, with the options chosen for them
    Prices,         \* prices a dish may be given
    Quantities,     \* how many of a dish a customer orders
    Distances,      \* distances of a delivery, in what costs a hundredth of a kobo
    Baskets,        \* baskets a coupon is tried on
    Offers,         \* coupons
    MinSubtotal,    \* MIN_ORDER_SUBTOTAL
    MinFee,         \* MINIMUM_PRICE_KM, in hundredths of a kobo
    Commission,     \* PLATFORM_FEES_PERCENT, which is 4: with none, half a kobo of a fee could go missing
    MinCharge,      \* the least amount initialize_order_sale charges
    MaxOrders,      \* bound: orders created
    Charges,        \* amounts clients of the sale endpoint send
    Percents,       \* the configured percentages: [driver, business, referral]
    SaleKeys,       \* idempotency keys of the sale endpoint
    MaxSales        \* bound: sales created

ASSUME CheckoutAssumption ==
    /\ Prices \cup Distances \cup Charges \cup Quantities \subseteq Nat
    /\ {MinSubtotal, MinFee, Commission, MinCharge, MaxOrders, MaxSales} \subseteq Nat
    /\ Percents \in [driver : Nat, business : Nat, referral : Nat]
    /\ Percents.driver + Percents.business + Percents.referral <= 100
    /\ MinCharge <= MinSubtotal /\ Commission > 0
    /\ \A basket \in Baskets : basket \in Seq(UNION {Range(b) : b \in Baskets})
    /\ \A basket \in Baskets : \A i \in DOMAIN basket :
         {basket[i].price, basket[i].extra, basket[i].quantity} \subseteq Nat
    /\ \A c \in Offers : {c.value, c.every, c.free} \subseteq Nat /\ (c.kind = "BxGy" => c.every > 0)
    /\ None \notin SaleKeys \cup Nat \cup [payload : Charges, reply : Nat \cup {None}]

VARIABLES
    place,      \* branches: "inactive", "active" or "accepting" orders
    menuPrice,  \* the menu's price of each dish
    special,    \* special[b][i]: the availability row's price, None without a row
    orders,     \* orders created
    sales,      \* sales created
    keyRow,     \* PaymentIdempotencyKey rows of the sale endpoint
    again       \* history: requests that went on with a key that had no answer yet

CheckoutVars == <<place, menuPrice, special, orders, sales, keyRow, again>>

(* DecimalField rounds half to even when it stores two decimals.           *)
Stored(hundredths) ==
    LET whole == hundredths \div 100
        rest == hundredths % 100 IN
    IF rest > 50 \/ (rest = 50 /\ whole % 2 = 1) THEN whole + 1 ELSE whole

(* calculate_delivery_fee; None is a customer who comes for it.            *)
Fee(distance) == IF distance = None THEN 0 ELSE Max({distance, MinFee})

(* BaseItemAvailability.effective_price before MenuItem.effective_price.   *)
PriceAt(b, i) == IF special[b][i] # None THEN special[b][i] ELSE menuPrice[i]

(* recalculate_totals: the fee of the order in memory is not yet rounded,  *)
(* the one it is stored with is.                                           *)
Totals(items, distance) ==
    [items |-> items, delivery |-> Stored(Fee(distance)),
     grand |-> Stored(100 * items + Fee(distance) + Commission * items)]

\* A bug: the platform gets its commission and what was rounded is nobody's.
OrderSplitTruncated(total, order) ==
    [platform |-> (order.items * Commission) \div 100,
     driver |-> order.delivery, business |-> order.items, referral |-> 0]

(* order_v1_split: the platform has what the others leave of the charge.   *)
OrderSplit(total, order) ==
    [platform |-> total - order.items - order.delivery,
     driver |-> order.delivery, business |-> order.items, referral |-> 0]

(* percent_split: without a referrer the platform has that share too.      *)
PercentSplit(total, referred) ==
    LET part(percent) == (total * percent) \div 100
        driver == part(Percents.driver)
        business == part(Percents.business)
        referrer == IF referred THEN part(Percents.referral) ELSE 0 IN
    [platform |-> total - driver - business - referrer,
     driver |-> driver, business |-> business, referral |-> referrer]

CheckoutInit ==
    /\ place = [b \in Places |-> "accepting"]
    /\ menuPrice \in [Dishes -> Prices]
    /\ special = [b \in Places |-> [i \in Dishes |-> None]]
    /\ orders = {} /\ sales = {}
    /\ keyRow = [k \in SaleKeys |-> None] /\ again = [k \in SaleKeys |-> 0]

-----------------------------------------------------------------------------
(* The business's edits of prices and branches.                            *)
Reprice(i, price) ==
    /\ menuPrice[i] # price
    /\ menuPrice' = [menuPrice EXCEPT ![i] = price]
    /\ UNCHANGED <<work, place, special, orders, sales, keyRow, again>>

Respecial(b, i, price) ==
    /\ special[b][i] # price
    /\ special' = [special EXCEPT ![b][i] = price]
    /\ UNCHANGED <<work, place, menuPrice, orders, sales, keyRow, again>>

PlaceSwitches(b, to) ==
    /\ place[b] # to
    /\ place' = [place EXCEPT ![b] = to]
    /\ UNCHANGED <<work, menuPrice, special, orders, sales, keyRow, again>>

(* OrderCreateSerializer.validate prices the basket; nothing is locked.    *)
OrderReads(w, b, i, quantity, distance) ==
    LET subtotal == PriceAt(b, i) * quantity IN
    /\ Free(w)
    /\ Cardinality(orders) < MaxOrders
    /\ place[b] = "accepting"
    /\ subtotal >= MinSubtotal
    /\ Starts(w, [op |-> "order", subtotal |-> subtotal, distance |-> distance])
    /\ UNCHANGED CheckoutVars

(* OrderCreateSerializer.create stores what was priced then.               *)
OrderCreates(w) ==
    LET j == work[w]
        row == [id |-> Cardinality(orders), sale |-> None,
                totals |-> Totals(j.subtotal, j.distance), distance |-> j.distance] IN
    /\ Doing(w, "order")
    /\ orders' = orders \cup {row}
    /\ Ends(w)
    /\ UNCHANGED <<place, menuPrice, special, sales, keyRow, again>>

(* apply_coupon_to_order discounts the lines and the totals, and then      *)
(* saves a column orders do not have: all of it is rolled back.            *)
CouponTried(w, c, basket, business, distance) ==
    /\ Free(w) /\ Suits(c, basket, business)
    /\ Starts(w, [op |-> "redeeming", coupon |-> c, basket |-> basket, distance |-> distance,
                  totals |-> Totals(ItemsTotal(c, basket), DeliveryFor(c, distance, None))])
    /\ UNCHANGED CheckoutVars

CouponUndone(w) == Doing(w, "redeeming") /\ Ends(w) /\ UNCHANGED CheckoutVars

Sold(sale) == sales' = sales \cup {sale}
NextSale == Cardinality(sales)

(* initialize_order_sale charges the stored order and freezes the split.   *)
OrderCharged(o) ==
    LET total == Max({o.totals.grand, MinCharge}) IN
    /\ o.sale = None
    /\ NextSale < MaxSales
    /\ Sold([id |-> NextSale, order |-> o.id, key |-> None, total |-> total,
             split |-> OrderSplit(total, o.totals)])
    /\ orders' = (orders \ {o}) \cup {[o EXCEPT !.sale = NextSale]}
    /\ UNCHANGED <<work, place, menuPrice, special, keyRow, again>>

-----------------------------------------------------------------------------
\* A bug: a key that has its answer is not recognised.
MayProceedAgain(row, amount) == row # None => row.payload = amount
MayProceed(row, amount) == row # None => row.payload = amount /\ row.reply = None

(* initialize_sale_view, in the three transactions it makes:               *)
(* begin_idempotent_request refuses a key used with another payload, and   *)
(* answers from the row once it has an answer.                             *)
SaleBegins(w, k, amount) ==
    LET row == keyRow[k] IN
    /\ Free(w)
    /\ MayProceed(row, amount)
    /\ keyRow' = IF row = None THEN [keyRow EXCEPT ![k] = [payload |-> amount, reply |-> None]]
                 ELSE keyRow
    /\ again' = IF row # None /\ row.reply = None THEN [again EXCEPT ![k] = @ + 1] ELSE again
    /\ NextSale + again[k] < MaxSales
    /\ Starts(w, [op |-> "sell", key |-> k, amount |-> amount])
    /\ UNCHANGED <<place, menuPrice, special, orders, sales>>

(* initialize_sale, with or without a referrer of the payer.               *)
SaleCreates(w, referred) ==
    LET j == work[w] IN
    /\ Doing(w, "sell")
    /\ NextSale < MaxSales
    /\ Sold([id |-> NextSale, order |-> None, key |-> j.key, total |-> j.amount,
             split |-> PercentSplit(j.amount, referred)])
    /\ Starts(w, [op |-> "answer", key |-> j.key, sale |-> NextSale])
    /\ UNCHANGED <<place, menuPrice, special, orders, keyRow, again>>

(* save_idempotent_response, blind.                                        *)
SaleAnswers(w) ==
    LET j == work[w] IN
    /\ Doing(w, "answer")
    /\ keyRow' = [keyRow EXCEPT ![j.key].reply = j.sale]
    /\ Ends(w)
    /\ UNCHANGED <<place, menuPrice, special, orders, sales, again>>

(* A process dies, or Paystack's refusal is answered with an error.        *)
CheckoutDies(w) == Dies(w) /\ UNCHANGED CheckoutVars

-----------------------------------------------------------------------------
OrderingNext ==
    \/ \E i \in Dishes, price \in Prices : Reprice(i, price)
    \/ \E b \in Places, i \in Dishes, price \in Prices \cup {None} : Respecial(b, i, price)
    \/ \E b \in Places, to \in {"inactive", "active", "accepting"} : PlaceSwitches(b, to)
    \/ \E w \in Workers, b \in Places, i \in Dishes, q \in Quantities, d \in Distances \cup {None} :
         OrderReads(w, b, i, q, d)
    \/ \E w \in Workers : OrderCreates(w) \/ CheckoutDies(w)
    \/ \E o \in orders : OrderCharged(o)

DiscountsNext(businesses) ==
    \/ \E w \in Workers, c \in Offers, basket \in Baskets, business \in businesses, d \in Distances \cup {None} :
         CouponTried(w, c, basket, business, d)
    \/ \E w \in Workers : CouponUndone(w)

SellingNext ==
    \/ \E w \in Workers, k \in SaleKeys, amount \in Charges : SaleBegins(w, k, amount)
    \/ \E w \in Workers, referred \in BOOLEAN : SaleCreates(w, referred)
    \/ \E w \in Workers : SaleAnswers(w) \/ CheckoutDies(w)

-----------------------------------------------------------------------------
Shares == [platform : Int, driver : Nat, business : Nat, referral : Nat]
CheckoutType ==
    /\ place \in [Places -> {"inactive", "active", "accepting"}]
    /\ menuPrice \in [Dishes -> Prices]
    /\ special \in [Places -> [Dishes -> Prices \cup {None}]]
    /\ \A o \in orders : o.totals \in [items : Nat, delivery : Nat, grand : Nat]
    /\ \A s \in sales : s.total \in Nat /\ s.split \in Shares
    /\ \A k \in SaleKeys : keyRow[k] # None => keyRow[k].payload \in Charges
    /\ again \in [SaleKeys -> Nat]

(* Whatever is rounded, truncated or changed while an order waits, the     *)
(* shares of a sale make up its charge and none is negative; an order's    *)
(* charge pays its items and its delivery in full and leaves the platform  *)
(* its commission, to the kobo.  A coupon of at most 100 percent takes no  *)
(* more off a line than it costs, nor makes an order dearer or cheaper     *)
(* than its delivery                                                       *)
(* (payments/services/split_calculator.py, menu/payment_services.py,       *)
(* coupons_discount/services/order.py:recalculate_totals).                 *)
SplitAddsUp ==
    /\ \A s \in sales :
        /\ s.split.platform + s.split.driver + s.split.business + s.split.referral = s.total
        /\ s.split.platform >= 0
        /\ \A o \in orders : o.id = s.order =>
             /\ s.split.business = o.totals.items /\ s.split.driver = o.totals.delivery
             /\ 100 * s.split.platform - Commission * o.totals.items \in -100 .. 100
    /\ \A w \in Workers : Doing(w, "redeeming") =>
        LET j == work[w]
            undiscounted == Totals(Subtotal(j.basket), j.distance) IN
        (j.coupon.unit = "percent" => j.coupon.value <= 100) =>
             /\ \A i \in DOMAIN j.basket : Discount(j.coupon, j.basket, i) \in 0 .. LineTotal(j.basket[i])
             /\ j.totals.delivery <= j.totals.grand /\ j.totals.grand <= undiscounted.grand

(* A key sells once, and once more only for each request that went on      *)
(* while the key had no answer; all its sales are of the one payload it    *)
(* was first used with, and it answers with one of them                    *)
(* (payments/idempotency.py).                                              *)
KeySellsOnce ==
    \A k \in SaleKeys :
        LET mine == {s \in sales : s.key = k} IN
        /\ Cardinality(mine) <= 1 + again[k]
        /\ mine # {} => keyRow[k] # None
        /\ keyRow[k] # None =>
             /\ \A s \in mine : s.total = keyRow[k].payload
             /\ keyRow[k].reply # None => \E s \in mine : s.id = keyRow[k].reply
=============================================================================
