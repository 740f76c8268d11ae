------------------------------ MODULE Checkout ------------------------------
(***************************************************************************)
(* CheckoutService.checkout and what it touches: the customer's cart, the  *)
(* idempotency keys, one coupon, the order number and the monthly count of *)
(* orders.  It is one transaction, whose locks are taken one after         *)
(* another; each wait for a lock ends a step here, and the statements up   *)
(* to the next wait make up the next step.  Its writes show at its commit, *)
(* and until then the rows it has written stay locked.                     *)
(***************************************************************************)
EXTENDS Naturals, FiniteSets

CONSTANTS
  Users,          \* customers; each has one cart
  Keys,           \* Idempotency-Key headers
  Items,          \* cart items
  Owner,          \* whose cart an item is put into
  Requests,       \* what customers send: who, which key, with the coupon or not
  Workers,        \* checkouts that can be in flight at once
  MaxOrders,      \* bound: order numbers
  MaxPeriod,      \* bound: billing periods
  CouponLimits,   \* values the staff give to usageLimitTotal
  PerUserLimit,   \* usageLimitPerUser of the coupon
  PlanLimit,      \* orders_per_month of the shop's plan
  None            \* SQL NULL

ASSUME CheckoutConstants ==
  /\ Owner \in [Items -> Users]
  /\ Requests \subseteq Users \X Keys \X BOOLEAN
  /\ {MaxOrders, MaxPeriod, PerUserLimit, PlanLimit} \subseteq Nat
  /\ CouponLimits \subseteq Nat
  /\ None \notin [user : Users, order : Nat] \cup Nat \cup Users \cup Keys

VARIABLES
  item,     \* where an item is; "removed" and "ordered" have left cart_items
  orders,   \* orders with their items and coupon_usages
  key,      \* idempotency_keys
  coupon,   \* usedCount and usageLimitTotal of the coupon
  counter,  \* app_settings: the last order number
  period,   \* subscriptions.currentPeriodStart, None before the first
  usage,    \* usage of orders_per_month, by billing period
  replies,  \* what customers were answered: which order a key stands for
  session   \* per worker: the checkout in flight and what it has read

shop == <<orders, key, coupon, counter, usage>>
vars == <<item, shop, period, replies, session>>

-----------------------------------------------------------------------------
Periods == 1 .. MaxPeriod

(* The period is not a column of orders: it is recorded here to compare    *)
(* the orders with what was reserved for them.                             *)
OrderRows == [number : Nat, user : Users, key : Keys, items : SUBSET Items,
              coupon : BOOLEAN, period : Periods]

KeyRows == [user : Users, order : Nat]

Replies == [user : Users, key : Keys, order : Nat]

Steps == {"idle", "lock", "claim", "validate", "coupon", "number", "commit"}

Idle == [step |-> "idle", user |-> None, key |-> None, coupon |-> FALSE,
         items |-> {}, number |-> 0, period |-> None]

Sessions ==
  {Idle} \cup
  [step : Steps \ {"idle"}, user : Users, key : Keys, coupon : BOOLEAN,
   items : SUBSET Items, number : Nat, period : Periods \cup {None}]

TypeOK ==
  /\ item \in [Items -> {"new", "cart", "removed", "ordered"}]
  /\ orders \subseteq OrderRows
  /\ key \in [Keys -> KeyRows \cup {None}]
  /\ coupon \in [used : Nat, limit : Nat]
  /\ counter \in Nat
  /\ period \in Periods \cup {None}
  /\ usage \in [Periods -> Nat]
  /\ replies \subseteq Replies
  /\ session \in [Workers -> Sessions]

Init ==
  /\ item = [i \in Items |-> "new"]
  /\ orders = {}
  /\ key = [k \in Keys |-> None]
  /\ coupon \in [used : {0}, limit : CouponLimits]
  /\ counter = 0
  /\ period = None
  /\ usage = [p \in Periods |-> 0]
  /\ replies = {}
  /\ session = [w \in Workers |-> Idle]

-----------------------------------------------------------------------------
At(w, step) == session[w].step = step

Become(w, s) == session' = [session EXCEPT ![w] = s]

Finish(w) == Become(w, Idle)

InCart(u) == { i \in Items : Owner[i] = u /\ item[i] = "cart" }

CouponOrders(u) == { o \in orders : o.coupon /\ o.user = u }

Answer(u, k, n) == replies' = replies \cup {[user |-> u, key |-> k, order |-> n]}

-----------------------------------------------------------------------------
(* Row locks.  A lock is held from the statement that takes it until the   *)
(* transaction ends.                                                       *)

(* SELECT ... FROM carts ... FOR UPDATE                                    *)
HoldsCart(w, u) ==
  /\ session[w].user = u
  /\ session[w].step \in {"claim", "validate", "coupon", "number", "commit"}

CartLocked_NoForUpdate(u) == FALSE

CartLocked(u) == \E w \in Workers : HoldsCart(w, u)

(* The unique index of idempotency_keys.key makes a second INSERT wait for *)
(* the first.                                                              *)
HoldsKey(w, k) ==
  /\ session[w].key = k
  /\ session[w].step \in {"validate", "coupon", "number", "commit"}

KeyLocked_NoUniqueIndex(k) == FALSE

KeyLocked(k) == \E w \in Workers : HoldsKey(w, k)

(* The coupon's row after the UPDATE that claims a use.                    *)
HoldsCoupon(w) == session[w].coupon /\ session[w].step \in {"number", "commit"}

CouponLocked == \E w \in Workers : HoldsCoupon(w)

(* The row of the order number after the UPDATE that raises it.            *)
HoldsNumber_ReadForShare(w) == session[w].step \in {"number", "commit"}

HoldsNumber(w) == At(w, "commit")

NumberLocked_ReadThenWrite(w) == FALSE

NumberLocked(w) == \E v \in Workers \ {w} : HoldsNumber(v)

-----------------------------------------------------------------------------
(* A request whose key is not known yet starts the transaction.            *)
Request(w, u, k, wantsCoupon) ==
  /\ At(w, "idle")
  /\ <<u, k, wantsCoupon>> \in Requests
  /\ key[k] = None
  /\ Become(w, [Idle EXCEPT !.step = "lock", !.user = u, !.key = k,
                            !.coupon = wantsCoupon])
  /\ UNCHANGED <<item, shop, period, replies>>

(* The fast path: the key's order, for the customer whose key it is.       *)
Repeat(u, k) ==
  /\ key[k] # None
  /\ key[k].user = u
  /\ Answer(u, k, key[k].order)
  /\ UNCHANGED <<item, shop, period, session>>

LockCart(w) ==
  /\ At(w, "lock")
  /\ ~ CartLocked(session[w].user)
  /\ Become(w, [session[w] EXCEPT !.step = "claim"])
  /\ UNCHANGED <<item, shop, period, replies>>

(* INSERT ... ON CONFLICT DO NOTHING, and the cart as it is after it.      *)
Claim(w) ==
  LET s == session[w] IN
  /\ At(w, "claim")
  /\ ~ KeyLocked(s.key)
  /\ key[s.key] = None
  /\ InCart(s.user) # {}
  /\ Become(w, [s EXCEPT !.step = IF s.coupon THEN "validate" ELSE "number",
                         !.items = InCart(s.user)])
  /\ UNCHANGED <<item, shop, period, replies>>

(* The key was claimed and committed since the fast path looked.           *)
Replay(w) ==
  LET s == session[w] IN
  /\ At(w, "claim")
  /\ ~ KeyLocked(s.key)
  /\ key[s.key] # None
  /\ key[s.key].user = s.user
  /\ Answer(s.user, s.key, key[s.key].order)
  /\ Finish(w)
  /\ UNCHANGED <<item, shop, period>>

(* validateCouponCore; the checks that depend on no other request (dates,  *)
(* scope, minimum) are part of Abandon.                                    *)
Eligible(u) == Cardinality(CouponOrders(u)) < PerUserLimit

ValidateCoupon(w) ==
  /\ At(w, "validate")
  /\ Eligible(session[w].user)
  /\ Become(w, [session[w] EXCEPT !.step = "coupon"])
  /\ UNCHANGED <<item, shop, period, replies>>

(* UPDATE coupons ... WHERE usedCount < usageLimitTotal                    *)
ClaimCoupon(w) ==
  /\ At(w, "coupon")
  /\ ~ CouponLocked
  /\ coupon.used < coupon.limit
  /\ Become(w, [session[w] EXCEPT !.step = "number"])
  /\ UNCHANGED <<item, shop, period, replies>>

BillingPeriod_Invented == IF period = None THEN 0 ELSE period

BillingPeriod == period

(* The order number, and the billing period as it is then.                 *)
TakeNumber(w) ==
  /\ At(w, "number")
  /\ ~ NumberLocked(w)
  /\ BillingPeriod # None
  /\ Become(w, [session[w] EXCEPT !.step = "commit", !.number = counter + 1,
                                  !.period = BillingPeriod])
  /\ UNCHANGED <<item, shop, period, replies>>

Reserve_Persistent(p) ==
  /\ usage[p] < PlanLimit
  /\ usage' = [usage EXCEPT ![1] = @ + 1]

(* UsageService.reserve of one order.  No other checkout can be between    *)
(* this and its commit: it would hold the order number.                    *)
Reserve(p) ==
  /\ usage[p] < PlanLimit
  /\ usage' = [usage EXCEPT ![p] = @ + 1]

(* Reservation, order, coupon usage, result of the key, clearing the cart, *)
(* COMMIT, and the answer, which may get lost on its way.                  *)
Commit(w) ==
  LET s == session[w] IN
  /\ At(w, "commit")
  /\ s.number <= MaxOrders
  /\ Reserve(s.period)
  /\ orders' = orders \cup {[number |-> s.number, user |-> s.user,
                             key |-> s.key, items |-> s.items,
                             coupon |-> s.coupon, period |-> s.period]}
  /\ counter' = s.number
  /\ coupon' = [coupon EXCEPT !.used = IF s.coupon THEN @ + 1 ELSE @]
  /\ key' = [key EXCEPT ![s.key] = [user |-> s.user, order |-> s.number]]
  /\ item' = [i \in Items |-> IF i \in s.items /\ item[i] = "cart"
                              THEN "ordered" ELSE item[i]]
  /\ Answer(s.user, s.key, s.number)
  /\ Finish(w)
  /\ UNCHANGED period

(* What the code refuses once it gets there (and the bound on orders).     *)
Refused(w) ==
  LET s == session[w] IN
  \/ /\ At(w, "claim")
     /\ ~ KeyLocked(s.key)
     /\ \/ key[s.key] = None /\ InCart(s.user) = {}
        \/ key[s.key] # None /\ key[s.key].user # s.user
  \/ At(w, "validate") /\ ~ Eligible(s.user)
  \/ At(w, "coupon") /\ ~ CouponLocked /\ coupon.used >= coupon.limit
  \/ At(w, "number") /\ ~ NumberLocked(w) /\ BillingPeriod = None
  \/ At(w, "commit") /\ (usage[s.period] >= PlanLimit \/ s.number > MaxOrders)

(* A refusal, any other failed validation, a lost connection or a crash:   *)
(* the transaction is rolled back.                                         *)
Abandon(w) ==
  /\ ~ At(w, "idle")
  /\ Finish(w)
  /\ UNCHANGED <<item, shop, period, replies>>

Refuse(w) == Refused(w) /\ Abandon(w)

-----------------------------------------------------------------------------
AddItem_NoKeyUpdate(i) ==
  /\ item[i] = "new"
  /\ item' = [item EXCEPT ![i] = "cart"]
  /\ UNCHANGED <<shop, period, replies, session>>

(* CartService.addItem: the foreign key of cart_items waits for the lock   *)
(* on the cart.                                                            *)
AddItem(i) ==
  /\ item[i] = "new"
  /\ ~ CartLocked(Owner[i])
  /\ item' = [item EXCEPT ![i] = "cart"]
  /\ UNCHANGED <<shop, period, replies, session>>

(* CartService.removeItem takes no lock on the cart.                       *)
RemoveItem(i) ==
  /\ item[i] = "cart"
  /\ item' = [item EXCEPT ![i] = "removed"]
  /\ UNCHANGED <<shop, period, replies, session>>

(* CouponsService.updateCoupon                                             *)
UpdateCoupon ==
  /\ ~ CouponLocked
  /\ \E limit \in CouponLimits : coupon' = [coupon EXCEPT !.limit = limit]
  /\ UNCHANGED <<item, orders, key, counter, usage, period, replies, session>>

(* The subscription is activated or renewed.                               *)
Renew ==
  /\ \E p \in Periods : /\ period \in {None} \cup (1 .. p - 1)
                        /\ period' = p
  /\ UNCHANGED <<item, shop, replies, session>>

-----------------------------------------------------------------------------
Next ==
  \/ \E w \in Workers :
       \/ \E u \in Users, k \in Keys, c \in BOOLEAN : Request(w, u, k, c)
       \/ LockCart(w)
       \/ Claim(w)
       \/ Replay(w)
       \/ ValidateCoupon(w)
       \/ ClaimCoupon(w)
       \/ TakeNumber(w)
       \/ Commit(w)
       \/ Abandon(w)
  \/ \E u \in Users, k \in Keys : Repeat(u, k)
  \/ \E i \in Items : AddItem(i) \/ RemoveItem(i)
  \/ UpdateCoupon
  \/ Renew

Spec == Init /\ [][Next]_vars

(* Row locks are granted in the order in which they were asked for, so a   *)
(* checkout that others overtake again and again gets its turn.            *)
Progress(w) ==
  \/ LockCart(w)
  \/ Claim(w) \/ Replay(w)
  \/ ValidateCoupon(w)
  \/ ClaimCoupon(w)
  \/ TakeNumber(w)
  \/ Commit(w)
  \/ Refuse(w)

FairSpec == Spec /\ \A w \in Workers : SF_vars(Progress(w))

-----------------------------------------------------------------------------
(* An idempotency key stands for at most one order, made by the customer   *)
(* who sent it, and every answer to that key names this order: whatever    *)
(* repeats, double clicks and lost answers there are, and whoever else     *)
(* sends the same key (IdempotencyService.claim, the fast path).           *)
OneOrderPerKey ==
  /\ \A o \in orders : key[o.key] = [user |-> o.user, order |-> o.number]
  /\ \A r \in replies : \E o \in orders :
       o.key = r.key /\ o.user = r.user /\ o.number = r.order

(* Two tabs that check out one cart under different keys, and items added  *)
(* or removed meanwhile: an item that left the cart with an order is in    *)
(* exactly one, and one still in the cart is in none.                      *)
ItemOrderedOnce ==
  /\ \A a, b \in orders : a # b => a.items \cap b.items = {}
  /\ \A i \in Items : item[i] = "ordered" => \E o \in orders : i \in o.items
  /\ \A i \in Items : item[i] = "cart" => \A o \in orders : i \notin o.items

(* Order numbers are distinct and have no gaps, although transactions that *)
(* took a number are rolled back (generateOrderNumber).                    *)
OrderNumbersRunOn ==
  /\ \A a, b \in orders : a.number = b.number => a = b
  /\ { o.number : o \in orders } = 1 .. counter

(* The count of a customer's own uses is no compare-and-swap: it relies on *)
(* the lock on the cart, and on the usage being recorded before that is    *)
(* released (validateCouponCore, recordUsage).                             *)
CouponPerUser ==
  \A u \in Users : Cardinality(CouponOrders(u)) <= PerUserLimit

(* The use of a coupon shows at the commit, long after it was claimed: it  *)
(* is one more than before, within the limit of that moment, even when the *)
(* staff lower it and others claim the last use, and comes with the order  *)
(* it was claimed for (validateAndClaim, updateCoupon).                    *)
CouponUsedWithinLimit ==
  [][coupon'.used # coupon.used =>
       /\ coupon'.used = coupon.used + 1
       /\ coupon'.used <= coupon.limit
       /\ \E o \in orders' \ orders : o.coupon]_vars

(* What is reserved for a billing period is the number of orders made      *)
(* under it, and within the plan: an aborted checkout gives back what it   *)
(* reserved, one that a renewal overtakes counts where it was reserved     *)
(* (assertLimit, reserve).                                                 *)
UsageCountsOrders ==
  \A p \in Periods :
    /\ usage[p] = Cardinality({ o \in orders : o.period = p })
    /\ usage[p] <= PlanLimit

OneShot == INSTANCE OneShotCheckout WITH limit <- coupon.limit

(* Cut up by its locks as it is, a checkout looks as if it placed the      *)
(* order at one moment: its transaction commits what is true of cart, key, *)
(* coupon and plan right then, although it has looked at each at another   *)
(* time, and nothing else that anyone does shows in the shop.              *)
PlacesAtOnce == OneShot!ShopSpec

(* A checkout ends: cart, key, coupon and order number are locked in this  *)
(* order by everyone, so that nobody waits for someone who waits for them. *)
CheckoutEnds ==
  \A w \in Workers : ~ At(w, "idle") ~> At(w, "idle")
=============================================================================
