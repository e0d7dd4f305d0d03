----------------------------- MODULE Discounts ------------------------------
(***************************************************************************)
(* What a coupon takes off an order.  A basket is a sequence of lines      *)
(* [dish, category, price, extra, quantity] with extra the price of the    *)
(* options; a coupon is [kind, unit, value, target, buy, get, every, free, *)
(* of] with of the business it is limited to.  Amounts are kobo, and       *)
(* prices whole naira, so that a percentage of one is exact.               *)
(***************************************************************************)
EXTENDS Integers, Sequences, FiniteSetsExt, Functions

LineTotal(line) == (line.price + line.extra) * line.quantity
LinesOf(basket, Is(_)) == {i \in DOMAIN basket : Is(basket[i])}
LinesWith(basket, dish) == LinesOf(basket, LAMBDA line : line.dish = dish)
Units(basket, dish) == SumFunction([i \in LinesWith(basket, dish) |-> basket[i].quantity])
Subtotal(basket) == SumFunction([i \in DOMAIN basket |-> LineTotal(basket[i])])

(* is_valid_for, of a coupon that is active and in its window.             *)
Suits(c, basket, business) ==
    /\ c.of \in {"everyone", business}
    /\ c.kind = "itemdiscount" => LinesWith(basket, c.target) # {}
    /\ c.kind = "categorydiscount" => LinesOf(basket, LAMBDA line : line.category = c.target) # {}
    /\ c.kind = "BxGy" => LinesWith(basket, c.buy) # {} /\ LinesWith(basket, c.get) # {}

(* apply_discount, of one unit.                                            *)
OffUnit(c, price) == IF c.unit = "percent" THEN (price * c.value) \div 100 ELSE Min({price, c.value})

(* calculate_free_items, and those of them a line gets: earlier lines come *)
(* first.                                                                  *)
FreeItems(c, bought) == (bought \div c.every) * c.free
FreeHere(c, basket, i) ==
    LET before == Units(SubSeq(basket, 1, i - 1), c.get) IN
    Max({0, Min({basket[i].quantity, FreeItems(c, Units(basket, c.buy)) - before})})

Discount(c, basket, i) ==
    LET line == basket[i] IN
    CASE c.kind = "itemdiscount" /\ line.dish = c.target -> OffUnit(c, line.price) * line.quantity
      [] c.kind = "categorydiscount" /\ line.category = c.target -> OffUnit(c, line.price) * line.quantity
      [] c.kind = "BxGy" /\ line.dish = c.get -> line.price * FreeHere(c, basket, i)
      [] OTHER -> 0

ItemsTotal(c, basket) ==
    Subtotal(basket) - SumFunction([i \in DOMAIN basket |-> Discount(c, basket, i)])
DeliveryFor(c, distance, none) == IF c.kind = "delivery" THEN none ELSE distance
=============================================================================
