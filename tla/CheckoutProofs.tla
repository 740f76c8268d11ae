--------------------------- MODULE CheckoutProofs ---------------------------
(***************************************************************************)
(* Theorems about Checkout, for any customers, keys, items, workers and    *)
(* bounds.                                                                 *)
(***************************************************************************)
EXTENDS Checkout, FiniteSetTheorems, TLAPS

(* What two checkouts in flight never share.                               *)
Apart(v, w) ==
  /\ \A u \in Users : ~ (HoldsCart(v, u) /\ HoldsCart(w, u))
  /\ \A k \in Keys : ~ (HoldsKey(v, k) /\ HoldsKey(w, k))
  /\ ~ (HoldsCoupon(v) /\ HoldsCoupon(w))
  /\ ~ (HoldsNumber(v) /\ HoldsNumber(w))

(* The items a checkout has read are still its customer's to order.        *)
ItemsHeld(w) ==
  /\ session[w].items # {} =>
       session[w].step \in {"validate", "coupon", "number", "commit"}
  /\ \A i \in session[w].items :
       /\ i \in Items
       /\ Owner[i] = session[w].user
       /\ item[i] \in {"cart", "removed"}
       /\ \A o \in orders : i \notin o.items

(* What a checkout has tested still holds when it acts on it.              *)
TestsHold(w) ==
  /\ \A k \in Keys : HoldsKey(w, k) => key[k] = None
  /\ session[w].step \in {"validate", "coupon"} => session[w].coupon
  /\ session[w].coupon /\ session[w].step \in {"coupon", "number", "commit"} =>
       Eligible(session[w].user)
  /\ HoldsCoupon(w) => coupon.used < coupon.limit
  /\ At(w, "commit") => /\ session[w].number = counter + 1
                        /\ session[w].period \in Periods

CheckoutOK(w) ==
  /\ \A v \in Workers \ {w} : Apart(v, w)
  /\ ItemsHeld(w)
  /\ TestsHold(w)

(* An item in an order has left the cart.                                  *)
OrderedHasLeft ==
  \A o \in orders : \A i \in o.items : item[i] \in {"ordered", "removed"}

(* A key that is committed has an order.                                   *)
KeyHasOrder ==
  \A k \in Keys : key[k] # None =>
    \E o \in orders : o.key = k /\ key[k] = [user |-> o.user, order |-> o.number]

OrdersOK ==
  /\ IsFiniteSet(orders)
  /\ OneOrderPerKey /\ ItemOrderedOnce /\ OrderNumbersRunOn
  /\ CouponPerUser /\ UsageCountsOrders
  /\ OrderedHasLeft /\ KeyHasOrder

Inv == TypeOK /\ OrdersOK /\ \A w \in Workers : CheckoutOK(w)

-----------------------------------------------------------------------------
(* The invariant holds of empty carts and no orders.                       *)
LEMMA InitInv == Init => Inv
<1> SUFFICES ASSUME Init PROVE Inv
  OBVIOUS
<1> USE CheckoutConstants DEF Init
<1>1. TypeOK
  BY DEF TypeOK, Sessions
<1>2. IsFiniteSet(orders) /\ \A S \in SUBSET orders : Cardinality(S) = 0
  <2>1. \A S \in SUBSET orders : S = {}
    OBVIOUS
  <2> QED BY <2>1, FS_EmptySet
<1>3. /\ OneOrderPerKey /\ ItemOrderedOnce /\ OrderNumbersRunOn
      /\ OrderedHasLeft /\ KeyHasOrder
  BY DEF OneOrderPerKey, ItemOrderedOnce, OrderNumbersRunOn, OrderedHasLeft,
         KeyHasOrder
<1>4. CouponPerUser
  BY <1>2 DEF CouponPerUser, CouponOrders
<1>5. UsageCountsOrders
  <2> SUFFICES ASSUME NEW p \in Periods
               PROVE  /\ usage[p] = Cardinality({ o \in orders : o.period = p })
                      /\ usage[p] <= PlanLimit
    BY DEF UsageCountsOrders
  <2>1. Cardinality({ o \in orders : o.period = p }) = 0
    BY <1>2
  <2> QED BY <2>1
<1>6. \A w \in Workers : CheckoutOK(w)
  BY DEF CheckoutOK, Apart, ItemsHeld, TestsHold, HoldsCart, HoldsKey,
         HoldsCoupon, HoldsNumber, At, Idle
<1> QED BY <1>1, <1>2, <1>3, <1>4, <1>5, <1>6 DEF Inv, OrdersOK

(* A step of one checkout that writes nothing but its own session keeps    *)
(* the invariant if that session fits.                                     *)
LEMMA MoveInv ==
  ASSUME Inv, NEW w \in Workers, NEW s \in Sessions, Become(w, s),
         UNCHANGED <<item, shop, period, replies>>, CheckoutOK(w)'
  PROVE  Inv'
<1> USE DEF Inv, Become, shop
<1>1. TypeOK'
  BY DEF TypeOK
<1>2. OrdersOK'
  BY DEF OrdersOK, OneOrderPerKey, ItemOrderedOnce, OrderNumbersRunOn,
         CouponPerUser, CouponOrders, UsageCountsOrders, OrderedHasLeft,
         KeyHasOrder
<1>3. ASSUME NEW v \in Workers PROVE CheckoutOK(v)'
  <2>1. CASE v = w
    BY <2>1
  <2>2. CASE v # w
    <3>1. session'[v] = session[v] /\ CheckoutOK(v)
      BY <2>2 DEF TypeOK
    <3>2. ItemsHeld(v)' /\ TestsHold(v)'
      BY <3>1 DEF CheckoutOK, ItemsHeld, TestsHold, HoldsKey, HoldsCoupon, At,
                  Eligible, CouponOrders
    <3>3. ASSUME NEW x \in Workers \ {v} PROVE Apart(x, v)'
      <4>1. CASE x = w
        <5>1. Apart(v, w)'
          BY <2>2 DEF CheckoutOK
        <5> QED BY <5>1, <4>1 DEF Apart
      <4>2. CASE x # w
        <5>1. session'[x] = session[x] /\ Apart(x, v)
          BY <4>2, <3>1 DEF TypeOK, CheckoutOK
        <5> QED BY <5>1, <3>1 DEF Apart, HoldsCart, HoldsKey, HoldsCoupon,
                                  HoldsNumber, At
      <4> QED BY <4>1, <4>2
    <3> QED BY <3>2, <3>3 DEF CheckoutOK
  <2> QED BY <2>1, <2>2
<1> QED BY <1>1, <1>2, <1>3

(* A session that holds no lock and has read nothing fits anywhere: this   *)
(* is where a checkout starts and where it ends.                           *)
LEMMA FreeFits ==
  ASSUME Inv, NEW w \in Workers, NEW s \in Sessions, Become(w, s),
         s.step \in {"idle", "lock"}, s.items = {}
  PROVE  CheckoutOK(w)'
<1>1. session'[w] = s
  BY DEF Inv, TypeOK, Become
<1>2. \A v \in Workers \ {w} : Apart(v, w)'
  BY <1>1 DEF Apart, HoldsCart, HoldsKey, HoldsCoupon, HoldsNumber, At
<1>3. ItemsHeld(w)' /\ TestsHold(w)'
  BY <1>1 DEF ItemsHeld, TestsHold, HoldsKey, HoldsCoupon, At
<1> QED BY <1>2, <1>3 DEF CheckoutOK

(* checkout, before the transaction.                                       *)
LEMMA RequestInv ==
  ASSUME Inv, NEW w \in Workers, NEW u \in Users, NEW k \in Keys,
         NEW c \in BOOLEAN, Request(w, u, k, c)
  PROVE  Inv'
<1> DEFINE s == [Idle EXCEPT !.step = "lock", !.user = u, !.key = k, !.coupon = c]
<1>1. s \in Sessions /\ s.step = "lock" /\ s.items = {}
  BY DEF Sessions, Idle, Steps
<1>2. Become(w, s) /\ UNCHANGED <<item, shop, period, replies>>
  BY DEF Request
<1> HIDE DEF s
<1> QED BY <1>1, <1>2, FreeFits, MoveInv

(* Every rollback.                                                         *)
LEMMA AbandonInv ==
  ASSUME Inv, NEW w \in Workers, Abandon(w)
  PROVE  Inv'
<1>1. Idle \in Sessions /\ Idle.step = "idle" /\ Idle.items = {}
  BY DEF Sessions, Idle
<1>2. Become(w, Idle) /\ UNCHANGED <<item, shop, period, replies>>
  BY DEF Abandon, Finish
<1> QED BY <1>1, <1>2, FreeFits, MoveInv

(* What a checkout in flight looks like.                                   *)
LEMMA InFlight ==
  ASSUME TypeOK, NEW w \in Workers, ~ At(w, "idle")
  PROVE  session[w] \in [step : Steps \ {"idle"}, user : Users, key : Keys,
                         coupon : BOOLEAN, items : SUBSET Items, number : Nat,
                         period : Periods \cup {None}]
BY DEF TypeOK, Sessions, At, Idle

(* SELECT ... FOR UPDATE of the cart.                                      *)
LEMMA LockCartInv ==
  ASSUME Inv, NEW w \in Workers, LockCart(w)
  PROVE  Inv'
<1> DEFINE s == [session[w] EXCEPT !.step = "claim"]
<1>1. ~ At(w, "idle") /\ TypeOK
  BY DEF LockCart, At, Inv
<1>2. s \in Sessions
  BY <1>1, InFlight DEF Sessions, Steps
<1>3. Become(w, s) /\ UNCHANGED <<item, shop, period, replies>>
  BY DEF LockCart
<1>4. session'[w] = s /\ \A v \in Workers \ {w} : session'[v] = session[v]
  BY <1>1, <1>3 DEF TypeOK, Become
<1>5. \A v \in Workers \ {w} : Apart(v, w)'
  BY <1>1, <1>4, InFlight
     DEF LockCart, CartLocked, Apart, HoldsCart, HoldsKey, HoldsCoupon,
         HoldsNumber, At
<1>6. ItemsHeld(w)' /\ TestsHold(w)'
  BY <1>1, <1>3, <1>4, InFlight
     DEF LockCart, Inv, CheckoutOK, ItemsHeld, TestsHold, HoldsKey,
         HoldsCoupon, At, shop
<1> HIDE DEF s
<1> QED BY <1>2, <1>3, <1>5, <1>6, MoveInv DEF CheckoutOK

(* The claim of the key, and the read of the cart.                         *)
LEMMA ClaimInv ==
  ASSUME Inv, NEW w \in Workers, Claim(w)
  PROVE  Inv'
<1> DEFINE s == [session[w] EXCEPT
                   !.step = IF session[w].coupon THEN "validate" ELSE "number",
                   !.items = InCart(session[w].user)]
<1>1. ~ At(w, "idle") /\ TypeOK /\ CheckoutOK(w) /\ OrdersOK
  BY DEF Claim, At, Inv
<1>2. s \in Sessions
  BY <1>1, InFlight DEF Sessions, Steps, InCart
<1>3. Become(w, s) /\ UNCHANGED <<item, shop, period, replies>>
  BY DEF Claim
<1>4. session'[w] = s /\ \A v \in Workers \ {w} : session'[v] = session[v]
  BY <1>1, <1>3 DEF TypeOK, Become
<1>5. ASSUME NEW v \in Workers \ {w} PROVE Apart(v, w)'
  <2>1. Apart(v, w)
    BY <1>1 DEF CheckoutOK
  <2> QED BY <1>1, <1>4, <2>1, InFlight
          DEF Claim, KeyLocked, Apart, HoldsCart, HoldsKey, HoldsCoupon,
              HoldsNumber, At
<1>6. ItemsHeld(w)'
  BY <1>1, <1>3, <1>4, InFlight
     DEF InCart, ItemsHeld, OrdersOK, ItemOrderedOnce, shop
<1>7. TestsHold(w)'
  BY <1>1, <1>3, <1>4, InFlight
     DEF Claim, TestsHold, HoldsKey, HoldsCoupon, At, shop, Eligible,
         CouponOrders
<1> HIDE DEF s
<1> QED BY <1>2, <1>3, <1>5, <1>6, <1>7, MoveInv DEF CheckoutOK

(* validateCouponCore: the count of uses is read under the cart's lock.    *)
LEMMA ValidateCouponInv ==
  ASSUME Inv, NEW w \in Workers, ValidateCoupon(w)
  PROVE  Inv'
<1> DEFINE s == [session[w] EXCEPT !.step = "coupon"]
<1>1. ~ At(w, "idle") /\ TypeOK /\ CheckoutOK(w)
  BY DEF ValidateCoupon, At, Inv
<1>2. s \in Sessions
  BY <1>1, InFlight DEF Sessions, Steps
<1>3. Become(w, s) /\ UNCHANGED <<item, shop, period, replies>>
  BY DEF ValidateCoupon
<1>4. session'[w] = s /\ \A v \in Workers \ {w} : session'[v] = session[v]
  BY <1>1, <1>3 DEF TypeOK, Become
<1>5. \A v \in Workers \ {w} : Apart(v, w)'
  BY <1>1, <1>4, InFlight
     DEF ValidateCoupon, CheckoutOK, Apart, HoldsCart, HoldsKey, HoldsCoupon,
         HoldsNumber, At
<1>6. ItemsHeld(w)' /\ TestsHold(w)'
  BY <1>1, <1>3, <1>4, InFlight
     DEF ValidateCoupon, CheckoutOK, ItemsHeld, TestsHold, HoldsKey,
         HoldsCoupon, At, shop, Eligible, CouponOrders
<1> HIDE DEF s
<1> QED BY <1>2, <1>3, <1>5, <1>6, MoveInv DEF CheckoutOK

(* validateAndClaim: the claim locks the coupon.                           *)
LEMMA ClaimCouponInv ==
  ASSUME Inv, NEW w \in Workers, ClaimCoupon(w)
  PROVE  Inv'
<1> DEFINE s == [session[w] EXCEPT !.step = "number"]
<1>1. ~ At(w, "idle") /\ TypeOK /\ CheckoutOK(w)
  BY DEF ClaimCoupon, At, Inv
<1>2. s \in Sessions
  BY <1>1, InFlight DEF Sessions, Steps
<1>3. Become(w, s) /\ UNCHANGED <<item, shop, period, replies>>
  BY DEF ClaimCoupon
<1>4. session'[w] = s /\ \A v \in Workers \ {w} : session'[v] = session[v]
  BY <1>1, <1>3 DEF TypeOK, Become
<1>5. \A v \in Workers \ {w} : Apart(v, w)'
  BY <1>1, <1>4, InFlight
     DEF ClaimCoupon, CouponLocked, CheckoutOK, Apart, HoldsCart, HoldsKey,
         HoldsCoupon, HoldsNumber, At
<1>6. ItemsHeld(w)' /\ TestsHold(w)'
  BY <1>1, <1>3, <1>4, InFlight
     DEF ClaimCoupon, CheckoutOK, ItemsHeld, TestsHold, HoldsKey,
         HoldsCoupon, At, shop, Eligible, CouponOrders
<1> HIDE DEF s
<1> QED BY <1>2, <1>3, <1>5, <1>6, MoveInv DEF CheckoutOK

(* generateOrderNumber locks the counter.                                  *)
LEMMA TakeNumberInv ==
  ASSUME Inv, NEW w \in Workers, TakeNumber(w)
  PROVE  Inv'
<1> DEFINE s == [session[w] EXCEPT !.step = "commit", !.number = counter + 1,
                                   !.period = period]
<1>1. ~ At(w, "idle") /\ TypeOK /\ CheckoutOK(w) /\ period \in Periods
  BY DEF TakeNumber, At, Inv, TypeOK, BillingPeriod
<1>n. counter + 1 \in Nat
  BY <1>1 DEF TypeOK
<1>2. s \in Sessions
  BY <1>1, <1>n, InFlight DEF Sessions, Steps
<1>3. Become(w, s) /\ UNCHANGED <<item, shop, period, replies>>
  BY DEF TakeNumber, BillingPeriod
<1>4. session'[w] = s /\ \A v \in Workers \ {w} : session'[v] = session[v]
  BY <1>1, <1>3 DEF TypeOK, Become
<1>5. \A v \in Workers \ {w} : Apart(v, w)'
  BY <1>1, <1>4, InFlight
     DEF TakeNumber, NumberLocked, CheckoutOK, Apart, HoldsCart, HoldsKey,
         HoldsCoupon, HoldsNumber, At
<1>6. ItemsHeld(w)' /\ TestsHold(w)'
  BY <1>1, <1>3, <1>4, InFlight
     DEF TakeNumber, CheckoutOK, ItemsHeld, TestsHold, HoldsKey,
         HoldsCoupon, At, shop, Eligible, CouponOrders
<1> HIDE DEF s
<1> QED BY <1>2, <1>3, <1>5, <1>6, MoveInv DEF CheckoutOK

-----------------------------------------------------------------------------
(* Answers that name a key's order: the fast path and the raced claim.     *)
LEMMA AnswerOK ==
  ASSUME Inv, NEW k \in Keys, key[k] # None,
         Answer(key[k].user, k, key[k].order), UNCHANGED shop
  PROVE  OneOrderPerKey' /\ replies' \subseteq Replies
<1>1. key[k] \in KeyRows
  BY DEF Inv, TypeOK
<1>2. replies' \subseteq Replies
  BY <1>1 DEF Inv, TypeOK, Answer, Replies, KeyRows
<1>3. PICK o \in orders :
        o.key = k /\ key[k] = [user |-> o.user, order |-> o.number]
  BY DEF Inv, OrdersOK, KeyHasOrder
<1>4. ASSUME NEW r \in replies'
      PROVE  \E q \in orders : q.key = r.key /\ q.user = r.user /\ q.number = r.order
  <2>1. CASE r \in replies
    BY <2>1 DEF Inv, OrdersOK, OneOrderPerKey
  <2>2. CASE r = [user |-> key[k].user, key |-> k, order |-> key[k].order]
    BY <2>2, <1>3
  <2> QED BY <2>1, <2>2 DEF Answer
<1>5. OneOrderPerKey'
  BY <1>4 DEF Inv, OrdersOK, OneOrderPerKey, shop
<1> QED BY <1>2, <1>5

(* What a checkout holds and has tested concerns the shop and the sessions *)
(* only.                                                                   *)
LEMMA SessionsKept ==
  ASSUME NEW w \in Workers, CheckoutOK(w), UNCHANGED <<item, shop, session>>
  PROVE  CheckoutOK(w)'
<1> USE DEF shop
<1>1. ASSUME NEW v \in Workers \ {w} PROVE Apart(v, w)'
  <2>1. Apart(v, w)
    BY DEF CheckoutOK
  <2> QED BY <2>1 DEF Apart, HoldsCart, HoldsKey, HoldsCoupon, HoldsNumber, At
<1>2. ItemsHeld(w)'
  BY DEF CheckoutOK, ItemsHeld
<1>3. TestsHold(w)'
  BY DEF CheckoutOK, TestsHold, HoldsKey, HoldsCoupon, At, Eligible, CouponOrders
<1> QED BY <1>1, <1>2, <1>3 DEF CheckoutOK

(* The fast path keeps the invariant.                                      *)
LEMMA RepeatInv ==
  ASSUME Inv, NEW u \in Users, NEW k \in Keys, Repeat(u, k)
  PROVE  Inv'
<1>1. OneOrderPerKey' /\ replies' \subseteq Replies
  BY AnswerOK DEF Repeat
<1>2. TypeOK'
  BY <1>1 DEF Inv, TypeOK, Repeat, shop
<1>3. OrdersOK'
  BY <1>1
     DEF Inv, OrdersOK, ItemOrderedOnce, OrderNumbersRunOn, CouponPerUser,
         CouponOrders, UsageCountsOrders, OrderedHasLeft, KeyHasOrder, Repeat,
         shop
<1>4. \A w \in Workers : CheckoutOK(w)'
  BY SessionsKept DEF Inv, Repeat
<1> QED BY <1>2, <1>3, <1>4 DEF Inv

(* So does the raced claim, which also ends its session.                   *)
LEMMA ReplayInv ==
  ASSUME Inv, NEW w \in Workers, Replay(w)
  PROVE  Inv'
<1>1. ~ At(w, "idle") /\ session[w].key \in Keys
  BY InFlight DEF Inv, Replay, At
<1>2. OneOrderPerKey' /\ replies' \subseteq Replies
  BY <1>1, AnswerOK DEF Replay
<1>3. TypeOK'
  BY <1>2 DEF Inv, TypeOK, Replay, Finish, Become, Sessions, shop
<1>4. OrdersOK'
  BY <1>2
     DEF Inv, OrdersOK, ItemOrderedOnce, OrderNumbersRunOn, CouponPerUser,
         CouponOrders, UsageCountsOrders, OrderedHasLeft, KeyHasOrder, Replay,
         shop
<1>5. session'[w] = Idle /\ \A v \in Workers \ {w} : session'[v] = session[v]
  BY DEF Inv, TypeOK, Replay, Finish, Become
<1>6. ASSUME NEW v \in Workers PROVE CheckoutOK(v)'
  <2>1. CASE v = w
    <3>1. Idle \in Sessions /\ Idle.step = "idle" /\ Idle.items = {}
      BY DEF Sessions, Idle
    <3> QED BY <2>1, <3>1, FreeFits DEF Replay, Finish
  <2>2. CASE v # w
    <3>1. ItemsHeld(v)' /\ TestsHold(v)'
      BY <2>2, <1>5
         DEF Inv, CheckoutOK, ItemsHeld, TestsHold, HoldsKey, HoldsCoupon, At,
             Eligible, CouponOrders, Replay, shop
    <3>2. \A x \in Workers \ {v} : Apart(x, v)'
      BY <2>2, <1>5
         DEF Inv, CheckoutOK, Apart, HoldsCart, HoldsKey, HoldsCoupon,
             HoldsNumber, At, Idle
    <3> QED BY <3>1, <3>2 DEF CheckoutOK
  <2> QED BY <2>1, <2>2
<1> QED BY <1>3, <1>4, <1>6 DEF Inv

-----------------------------------------------------------------------------
(* CartService keeps it: a new item is in no order, one removed in no cart. *)
LEMMA CartInv ==
  ASSUME Inv, NEW i \in Items, AddItem(i) \/ RemoveItem(i)
  PROVE  Inv'
<1>1. /\ \A j \in Items : j # i => item'[j] = item[j]
      /\ \/ item[i] = "new" /\ item'[i] = "cart"
         \/ item[i] = "cart" /\ item'[i] = "removed"
      /\ UNCHANGED <<shop, period, replies, session>>
  BY DEF Inv, TypeOK, AddItem, RemoveItem
<1>2. TypeOK'
  BY <1>1 DEF Inv, TypeOK, AddItem, RemoveItem, shop
<1>3. \A o \in orders : o.items \subseteq Items
  BY DEF Inv, TypeOK, OrderRows
<1>4. ItemOrderedOnce' /\ OrderedHasLeft'
  BY <1>1, <1>3 DEF Inv, OrdersOK, ItemOrderedOnce, OrderedHasLeft, shop
<1>5. OrdersOK'
  BY <1>1, <1>4
     DEF Inv, OrdersOK, OneOrderPerKey, OrderNumbersRunOn, CouponPerUser,
         CouponOrders, UsageCountsOrders, KeyHasOrder, shop
<1>6. ASSUME NEW w \in Workers PROVE CheckoutOK(w)'
  <2>1. \A v \in Workers \ {w} : Apart(v, w)'
    BY <1>1 DEF Inv, CheckoutOK, Apart, HoldsCart, HoldsKey, HoldsCoupon,
                HoldsNumber, At
  <2>2. ItemsHeld(w)'
    BY <1>1 DEF Inv, CheckoutOK, ItemsHeld, shop
  <2>3. TestsHold(w)'
    BY <1>1 DEF Inv, CheckoutOK, TestsHold, HoldsKey, HoldsCoupon, At,
                Eligible, CouponOrders, shop
  <2> QED BY <2>1, <2>2, <2>3 DEF CheckoutOK
<1> QED BY <1>2, <1>5, <1>6 DEF Inv

(* updateCoupon keeps it: nobody holds a claim on the coupon then.         *)
LEMMA UpdateCouponInv ==
  ASSUME Inv, UpdateCoupon
  PROVE  Inv'
<1>1. /\ coupon' \in [used : Nat, limit : Nat]
      /\ UNCHANGED <<item, orders, key, counter, usage, period, replies, session>>
  BY CheckoutConstants DEF Inv, TypeOK, UpdateCoupon
<1>2. TypeOK'
  BY <1>1 DEF Inv, TypeOK
<1>3. OrdersOK'
  BY <1>1 DEF Inv, OrdersOK, OneOrderPerKey, ItemOrderedOnce,
              OrderNumbersRunOn, CouponPerUser, CouponOrders,
              UsageCountsOrders, OrderedHasLeft, KeyHasOrder
<1>4. ASSUME NEW w \in Workers PROVE CheckoutOK(w)'
  <2>1. (\A v \in Workers \ {w} : Apart(v, w)') /\ ItemsHeld(w)'
    BY <1>1 DEF Inv, CheckoutOK, Apart, HoldsCart, HoldsKey, HoldsCoupon,
                HoldsNumber, At, ItemsHeld
  <2>2. TestsHold(w)'
    BY <1>1 DEF Inv, CheckoutOK, TestsHold, HoldsKey, HoldsCoupon, At,
                Eligible, CouponOrders, UpdateCoupon, CouponLocked
  <2> QED BY <2>1, <2>2 DEF CheckoutOK
<1> QED BY <1>2, <1>3, <1>4 DEF Inv

(* A renewal keeps it: what was reserved stays with the period read.       *)
LEMMA RenewInv ==
  ASSUME Inv, Renew
  PROVE  Inv'
<1>1. period' \in Periods /\ UNCHANGED <<item, shop, replies, session>>
  BY DEF Renew
<1>2. TypeOK'
  BY <1>1 DEF Inv, TypeOK, shop
<1>3. OrdersOK'
  BY <1>1 DEF Inv, OrdersOK, OneOrderPerKey, ItemOrderedOnce,
              OrderNumbersRunOn, CouponPerUser, CouponOrders,
              UsageCountsOrders, OrderedHasLeft, KeyHasOrder, shop
<1>4. \A w \in Workers : CheckoutOK(w)'
  BY <1>1, SessionsKept DEF Inv
<1> QED BY <1>2, <1>3, <1>4 DEF Inv

-----------------------------------------------------------------------------
(* The order a checkout makes.                                             *)
NewOrder(s) == [number |-> s.number, user |-> s.user, key |-> s.key,
                items |-> s.items, coupon |-> s.coupon, period |-> s.period]

(* A commit, as its writes, with what its session is known to hold.        *)
LEMMA CommitWrites ==
  ASSUME Inv, NEW w \in Workers, Commit(w)
  PROVE  LET s == session[w] IN
         /\ s.user \in Users /\ s.key \in Keys /\ s.items \subseteq Items
         /\ s.coupon \in BOOLEAN /\ s.period \in Periods
         /\ s.number = counter + 1 /\ counter \in Nat
         /\ s.step = "commit"
         /\ orders' = orders \cup {NewOrder(s)}
         /\ NewOrder(s) \notin orders
         /\ NewOrder(s) \in OrderRows
<1> DEFINE s == session[w]
<1>1. /\ s.user \in Users /\ s.key \in Keys /\ s.items \subseteq Items
      /\ s.coupon \in BOOLEAN /\ s.step = "commit" /\ counter \in Nat
  BY InFlight DEF Inv, TypeOK, Commit, At
<1>2. s.number = counter + 1 /\ s.period \in Periods
  BY <1>1 DEF Inv, CheckoutOK, TestsHold, At
<1>3. orders' = orders \cup {NewOrder(s)}
  BY DEF Commit, NewOrder
<1>4. NewOrder(s) \in OrderRows
  BY <1>1, <1>2 DEF NewOrder, OrderRows
<1>5. NewOrder(s) \notin orders
  <2>1. NewOrder(s).number = counter + 1
    BY <1>2 DEF NewOrder
  <2>2. \A o \in orders : o.number \in 1 .. counter
    BY DEF Inv, OrdersOK, OrderNumbersRunOn
  <2>3. counter + 1 \notin 1 .. counter
    BY <1>1
  <2> QED BY <2>1, <2>2, <2>3
<1> QED BY <1>1, <1>2, <1>3, <1>4, <1>5

LEMMA CommitType ==
  ASSUME Inv, NEW w \in Workers, Commit(w)
  PROVE  TypeOK'
<1> DEFINE s == session[w]
<1>1. /\ s.user \in Users /\ s.key \in Keys /\ s.period \in Periods
      /\ s.number = counter + 1 /\ counter \in Nat
      /\ orders' = orders \cup {NewOrder(s)} /\ NewOrder(s) \in OrderRows
  BY CommitWrites
<1>2. s.number \in Nat
  BY <1>1
<1> HIDE DEF s
<1>3. orders' \subseteq OrderRows
  BY <1>1 DEF Inv, TypeOK
<1>4. item' \in [Items -> {"new", "cart", "removed", "ordered"}]
  BY DEF Inv, TypeOK, Commit
<1>5. key' \in [Keys -> KeyRows \cup {None}]
  BY <1>1, <1>2 DEF Inv, TypeOK, Commit, KeyRows, s
<1>6. coupon' \in [used : Nat, limit : Nat]
  BY DEF Inv, TypeOK, Commit
<1>7. usage' \in [Periods -> Nat]
  BY <1>1 DEF Inv, TypeOK, Commit, Reserve, s
<1>8. replies' \subseteq Replies
  BY <1>1, <1>2 DEF Inv, TypeOK, Commit, Answer, Replies, s
<1>9. session' \in [Workers -> Sessions]
  BY DEF Inv, TypeOK, Commit, Finish, Become, Sessions
<1> QED BY <1>1, <1>2, <1>3, <1>4, <1>5, <1>6, <1>7, <1>8, <1>9
        DEF Inv, TypeOK, Commit, s

LEMMA CommitKeys ==
  ASSUME Inv, NEW w \in Workers, Commit(w)
  PROVE  OneOrderPerKey' /\ KeyHasOrder'
<1> DEFINE s == session[w]
           n == NewOrder(s)
<1>1. s.key \in Keys /\ s.user \in Users /\ orders' = orders \cup {n} /\ s.step = "commit"
  BY CommitWrites
<1>2. n.key = s.key /\ n.user = s.user /\ n.number = s.number
  BY DEF NewOrder
<1>3. key[s.key] = None
  BY <1>1 DEF Inv, CheckoutOK, TestsHold, HoldsKey
<1>4. /\ key'[s.key] = [user |-> s.user, order |-> s.number]
      /\ \A k \in Keys \ {s.key} : key'[k] = key[k]
  BY <1>1 DEF Inv, TypeOK, Commit
<1>5. replies' = replies \cup {[user |-> s.user, key |-> s.key, order |-> s.number]}
  BY DEF Commit, Answer
<1>6. \A o \in orders : /\ o.key \in Keys \ {s.key}
                        /\ key[o.key] = [user |-> o.user, order |-> o.number]
  <2> SUFFICES ASSUME NEW o \in orders
               PROVE  o.key \in Keys \ {s.key}
    BY DEF Inv, OrdersOK, OneOrderPerKey
  <2>1. o.key \in Keys /\ [user |-> o.user, order |-> o.number] \in [user : Users, order : Nat]
    BY DEF Inv, TypeOK, OrderRows
  <2>2. key[o.key] # None
    BY <2>1, CheckoutConstants DEF Inv, OrdersOK, OneOrderPerKey
  <2> QED BY <2>1, <2>2, <1>3
<1> HIDE DEF s, n
<1>7. \A o \in orders' : key'[o.key] = [user |-> o.user, order |-> o.number]
  BY <1>1, <1>2, <1>4, <1>6
<1>8. ASSUME NEW r \in replies'
      PROVE  \E o \in orders' : o.key = r.key /\ o.user = r.user /\ o.number = r.order
  <2>1. CASE r \in replies
    BY <2>1, <1>1 DEF Inv, OrdersOK, OneOrderPerKey
  <2>2. CASE r = [user |-> s.user, key |-> s.key, order |-> s.number]
    BY <2>2, <1>1, <1>2
  <2> QED BY <2>1, <2>2, <1>5
<1>9. KeyHasOrder'
  <2> SUFFICES ASSUME NEW k \in Keys, key'[k] # None
               PROVE  \E o \in orders' :
                        o.key = k /\ key'[k] = [user |-> o.user, order |-> o.number]
    BY DEF KeyHasOrder
  <2>1. CASE k = s.key
    BY <2>1, <1>1, <1>2, <1>4
  <2>2. CASE k # s.key
    BY <2>2, <1>1, <1>4 DEF Inv, OrdersOK, KeyHasOrder
  <2> QED BY <2>1, <2>2
<1> QED BY <1>7, <1>8, <1>9 DEF OneOrderPerKey

LEMMA CommitItems ==
  ASSUME Inv, NEW w \in Workers, Commit(w)
  PROVE  ItemOrderedOnce' /\ OrderedHasLeft'
<1> DEFINE s == session[w]
           n == NewOrder(s)
<1>1. orders' = orders \cup {n} /\ s.items \subseteq Items
  BY CommitWrites
<1>2. n.items = s.items
  BY DEF NewOrder
<1>3. \A i \in s.items : /\ item[i] \in {"cart", "removed"}
                         /\ \A o \in orders : i \notin o.items
  BY DEF Inv, CheckoutOK, ItemsHeld
<1>4. \A i \in Items : item'[i] = IF i \in s.items /\ item[i] = "cart"
                                  THEN "ordered" ELSE item[i]
  BY DEF Commit
<1>5. \A o \in orders : o.items \subseteq Items
  BY DEF Inv, TypeOK, OrderRows
<1>6. /\ ItemOrderedOnce /\ OrderedHasLeft
  BY DEF Inv, OrdersOK
<1> HIDE DEF s, n
<1>7. \A a, b \in orders' : a # b => a.items \cap b.items = {}
  BY <1>1, <1>2, <1>3, <1>6 DEF ItemOrderedOnce
<1>8. \A i \in Items : item'[i] = "ordered" => \E o \in orders' : i \in o.items
  BY <1>1, <1>2, <1>4, <1>6 DEF ItemOrderedOnce
<1>9. \A i \in Items : item'[i] = "cart" => \A o \in orders' : i \notin o.items
  BY <1>1, <1>2, <1>4, <1>6 DEF ItemOrderedOnce
<1>10. \A o \in orders' : \A i \in o.items : item'[i] \in {"ordered", "removed"}
  BY <1>1, <1>2, <1>3, <1>4, <1>5, <1>6 DEF OrderedHasLeft
<1> QED BY <1>7, <1>8, <1>9, <1>10 DEF ItemOrderedOnce, OrderedHasLeft

LEMMA CommitNumbers ==
  ASSUME Inv, NEW w \in Workers, Commit(w)
  PROVE  OrderNumbersRunOn' /\ IsFiniteSet(orders')
<1> DEFINE n == NewOrder(session[w])
<1>1. orders' = orders \cup {n} /\ counter \in Nat
  BY CommitWrites
<1>2. n.number = counter + 1 /\ counter' = counter + 1
  BY CommitWrites DEF NewOrder, Commit
<1>3. /\ \A a, b \in orders : a.number = b.number => a = b
      /\ { o.number : o \in orders } = 1 .. counter
  BY DEF Inv, OrdersOK, OrderNumbersRunOn
<1>4. \A o \in orders : o.number # counter + 1
  <2>1. counter + 1 \notin 1 .. counter
    BY <1>1
  <2> QED BY <2>1, <1>3
<1> HIDE DEF n
<1>5. \A a, b \in orders' : a.number = b.number => a = b
  BY <1>1, <1>2, <1>3, <1>4
<1>6. { o.number : o \in orders' } = 1 .. counter'
  <2>1. { o.number : o \in orders' } = { o.number : o \in orders } \cup {counter + 1}
    BY <1>1, <1>2
  <2>2. (1 .. counter) \cup {counter + 1} = 1 .. counter + 1
    BY <1>1
  <2> QED BY <2>1, <2>2, <1>2, <1>3
<1>7. IsFiniteSet(orders')
  BY <1>1, FS_AddElement DEF Inv, OrdersOK
<1> QED BY <1>5, <1>6, <1>7 DEF OrderNumbersRunOn

(* A set of orders with or without the new one.                            *)
LEMMA OneMore ==
  ASSUME Inv, NEW S \in SUBSET orders, NEW n, n \notin orders
  PROVE  /\ Cardinality(S) \in Nat
         /\ Cardinality(S \cup {n}) = Cardinality(S) + 1
<1>1. IsFiniteSet(S)
  BY FS_Subset DEF Inv, OrdersOK
<1> QED BY <1>1, FS_AddElement, FS_CardinalityType

LEMMA CommitCoupon ==
  ASSUME Inv, NEW w \in Workers, Commit(w)
  PROVE  CouponPerUser'
<1> DEFINE s == session[w]
           n == NewOrder(s)
<1>1. /\ orders' = orders \cup {n} /\ n \notin orders
      /\ s.user \in Users /\ s.step = "commit"
  BY CommitWrites
<1>2. n.coupon = s.coupon /\ n.user = s.user
  BY DEF NewOrder
<1>3. s.coupon => Eligible(s.user)
  BY <1>1 DEF Inv, CheckoutOK, TestsHold
<1> HIDE DEF s, n
<1>4. ASSUME NEW u \in Users PROVE Cardinality(CouponOrders(u)') <= PerUserLimit
  <2>1. CouponOrders(u) \in SUBSET orders
    BY DEF CouponOrders
  <2>2. CASE s.coupon /\ u = s.user
    <3>1. CouponOrders(u)' = CouponOrders(u) \cup {n}
      BY <2>2, <1>1, <1>2 DEF CouponOrders
    <3>2. Cardinality(CouponOrders(u)') = Cardinality(CouponOrders(u)) + 1
      BY <3>1, <2>1, <1>1, OneMore
    <3>3. Cardinality(CouponOrders(u)) < PerUserLimit
      BY <2>2, <1>3 DEF Eligible
    <3>4. Cardinality(CouponOrders(u)) \in Nat /\ PerUserLimit \in Nat
      BY <2>1, <1>1, OneMore, CheckoutConstants
    <3> QED BY <3>2, <3>3, <3>4
  <2>3. CASE ~ (s.coupon /\ u = s.user)
    <3>1. CouponOrders(u)' = CouponOrders(u)
      BY <2>3, <1>1, <1>2 DEF CouponOrders
    <3> QED BY <3>1 DEF Inv, OrdersOK, CouponPerUser
  <2> QED BY <2>2, <2>3
<1> QED BY <1>4 DEF CouponPerUser

LEMMA CommitUsage ==
  ASSUME Inv, NEW w \in Workers, Commit(w)
  PROVE  UsageCountsOrders'
<1> DEFINE s == session[w]
           n == NewOrder(s)
           Of(p, S) == { o \in S : o.period = p }
<1>1. orders' = orders \cup {n} /\ n \notin orders /\ s.period \in Periods
  BY CommitWrites
<1>2. n.period = s.period
  BY DEF NewOrder
<1>3. /\ usage[s.period] < PlanLimit
      /\ usage' = [usage EXCEPT ![s.period] = @ + 1]
  BY DEF Commit, Reserve
<1> HIDE DEF s, n
<1>4. ASSUME NEW p \in Periods
      PROVE  usage'[p] = Cardinality(Of(p, orders')) /\ usage'[p] <= PlanLimit
  <2>1. /\ usage[p] = Cardinality(Of(p, orders)) /\ usage[p] <= PlanLimit
        /\ usage \in [Periods -> Nat] /\ PlanLimit \in Nat
    BY CheckoutConstants DEF Inv, TypeOK, OrdersOK, UsageCountsOrders
  <2>2. CASE p = s.period
    <3>1. Of(p, orders') = Of(p, orders) \cup {n}
      BY <2>2, <1>1, <1>2
    <3>2. Of(p, orders) \in SUBSET orders
      OBVIOUS
    <3> HIDE DEF Of
    <3>3. Cardinality(Of(p, orders')) = Cardinality(Of(p, orders)) + 1
      BY <3>1, <3>2, <1>1, OneMore
    <3>4. usage'[p] = usage[p] + 1 /\ usage[p] < PlanLimit /\ usage[p] \in Nat
      BY <2>1, <2>2, <1>1, <1>3
    <3> QED BY <3>3, <3>4, <2>1
  <2>3. CASE p # s.period
    <3>1. Of(p, orders') = Of(p, orders)
      BY <2>3, <1>1, <1>2
    <3>2. usage'[p] = usage[p]
      BY <2>1, <2>3, <1>3
    <3> HIDE DEF Of
    <3> QED BY <3>1, <3>2, <2>1
  <2> QED BY <2>2, <2>3
<1> QED BY <1>4 DEF UsageCountsOrders

(* The others have different carts and keys, and no claim on the coupon or *)
(* the number that this one held.                                          *)
LEMMA CommitOthers ==
  ASSUME Inv, NEW w \in Workers, Commit(w), NEW v \in Workers
  PROVE  CheckoutOK(v)'
<1> DEFINE s == session[w]
           n == NewOrder(s)
<1>0. session' = [session EXCEPT ![w] = Idle]
  BY DEF Commit, Finish, Become
<1>1. /\ session'[w] = Idle
      /\ \A x \in Workers \ {w} : session'[x] = session[x]
  BY <1>0 DEF Inv, TypeOK
<1>2. CASE v = w
  <2>1. Idle \in Sessions /\ Idle.step = "idle" /\ Idle.items = {}
    BY DEF Sessions, Idle
  <2> QED BY <1>2, <2>1, FreeFits DEF Commit, Finish
<1>3. CASE v # w
  <2>1. /\ orders' = orders \cup {n} /\ s.step = "commit" /\ s.coupon \in BOOLEAN
        /\ s.user \in Users /\ s.key \in Keys
    BY CommitWrites
  <2>2. n.items = s.items /\ n.user = s.user
    BY DEF NewOrder
  <2>3. CheckoutOK(v) /\ Apart(w, v)
    BY <1>3 DEF Inv, CheckoutOK
  <2>4. HoldsCart(w, s.user) /\ HoldsKey(w, s.key) /\ HoldsNumber(w)
    BY <2>1 DEF HoldsCart, HoldsKey, HoldsNumber, At
  <2>5. session[v].step \in {"validate", "coupon", "number", "commit"} =>
          session[v].user # s.user /\ session[v].key # s.key
    BY <2>1, <2>3, <2>4 DEF Apart, HoldsCart, HoldsKey
  <2>6. ~ At(v, "commit")
    BY <2>3, <2>4 DEF Apart, HoldsNumber
  <2>7. HoldsCoupon(v) => coupon' = coupon
    <3> SUFFICES ASSUME HoldsCoupon(v) PROVE coupon' = coupon
      OBVIOUS
    <3>1. ~ s.coupon
      BY <2>1, <2>3 DEF Apart, HoldsCoupon
    <3> QED BY <3>1 DEF Commit, Inv, TypeOK
  <2>8. ItemsHeld(v)'
    <3>1. ASSUME NEW i \in session[v].items
          PROVE  i \in Items /\ i \notin s.items /\ item'[i] = item[i]
      <4>1. i \in Items /\ Owner[i] = session[v].user /\ session[v].user # s.user
        BY <2>3, <2>5 DEF CheckoutOK, ItemsHeld
      <4>2. i \notin s.items
        BY <4>1 DEF Inv, CheckoutOK, ItemsHeld
      <4> QED BY <4>1, <4>2 DEF Commit
    <3> QED BY <3>1, <1>1, <1>3, <2>1, <2>2, <2>3 DEF CheckoutOK, ItemsHeld
  <2>9. session[v].step \in {"coupon", "number", "commit"} =>
          CouponOrders(session[v].user)' = CouponOrders(session[v].user)
    BY <1>1, <1>3, <2>1, <2>2, <2>5 DEF CouponOrders
  <2>10. TestsHold(v)'
    <3>1. \A k \in Keys : HoldsKey(v, k)' => key'[k] = None
      BY <1>1, <1>3, <2>3, <2>5 DEF CheckoutOK, TestsHold, HoldsKey, Commit, Inv, TypeOK
    <3>2. /\ session'[v].coupon
          /\ session'[v].step \in {"coupon", "number", "commit"}
          => Eligible(session[v].user)'
      BY <1>1, <1>3, <2>3, <2>9 DEF CheckoutOK, TestsHold, Eligible
    <3>3. HoldsCoupon(v)' => (coupon.used < coupon.limit)'
      BY <1>1, <1>3, <2>3, <2>7 DEF CheckoutOK, TestsHold, HoldsCoupon
    <3> QED BY <3>1, <3>2, <3>3, <1>1, <1>3, <2>3, <2>6
            DEF CheckoutOK, TestsHold, At, Eligible, CouponOrders
  <2>11. \A x \in Workers \ {v} : Apart(x, v)'
    BY <1>1, <1>3, <2>3 DEF CheckoutOK, Apart, HoldsCart, HoldsKey,
                            HoldsCoupon, HoldsNumber, At, Idle
  <2> QED BY <2>8, <2>10, <2>11 DEF CheckoutOK
<1> QED BY <1>2, <1>3

LEMMA CommitInv ==
  ASSUME Inv, NEW w \in Workers, Commit(w)
  PROVE  Inv'
BY CommitType, CommitKeys, CommitItems, CommitNumbers, CommitCoupon,
   CommitUsage, CommitOthers DEF Inv, OrdersOK

LEMMA StutterInv ==
  ASSUME Inv, UNCHANGED vars
  PROVE  Inv'
<1> USE DEF vars, shop
<1>1. TypeOK'
  BY DEF Inv, TypeOK
<1>2. OrdersOK'
  BY DEF Inv, OrdersOK, OneOrderPerKey, ItemOrderedOnce, OrderNumbersRunOn,
         CouponPerUser, CouponOrders, UsageCountsOrders, OrderedHasLeft,
         KeyHasOrder
<1>3. \A w \in Workers : CheckoutOK(w)'
  BY SessionsKept DEF Inv
<1> QED BY <1>1, <1>2, <1>3 DEF Inv

-----------------------------------------------------------------------------
(* The refinement.  Besides the invariant it needs that what a checkout    *)
(* has read of the cart is all there is in it, which is what the foreign   *)
(* key's wait for the cart's lock is for, that it was asked for, and that  *)
(* a billing period once read has begun.                                   *)
Reads(w) ==
  LET s == session[w] IN
  /\ ~ At(w, "idle") => <<s.user, s.key, s.coupon>> \in Requests
  /\ s.step \in {"validate", "coupon", "number", "commit"} =>
       s.items # {} /\ InCart(s.user) \subseteq s.items
  /\ At(w, "commit") => period # None /\ s.period <= period

(* The columns that count are counts.                                      *)
Counts ==
  /\ counter = Cardinality(orders)
  /\ coupon.used = Cardinality({ o \in orders : o.coupon })

ShopInv == Counts /\ \A w \in Workers : Reads(w)

(* A session goes on with what it has read, while carts only lose items    *)
(* and periods only begin.                                                 *)
LEMMA ReadsKept ==
  ASSUME Inv, NEW v \in Workers, Reads(v), session'[v] = session[v],
         \A i \in Items : Owner[i] = session[v].user /\ item'[i] = "cart" =>
                            item[i] = "cart",
         period' = period \/ (period' \in Periods /\ (period # None => period < period'))
  PROVE  Reads(v)'
<1>1. InCart(session[v].user)' \subseteq InCart(session[v].user)
  BY DEF InCart
<1>2. At(v, "commit") => session[v].period \in Nat
  BY CheckoutConstants DEF Inv, CheckoutOK, TestsHold, Periods
<1>3. period # None => period \in Nat
  BY CheckoutConstants DEF Inv, TypeOK, Periods
<1>4. period' \in Periods => period' \in Nat /\ period' # None
  BY CheckoutConstants DEF Periods
<1> QED BY <1>1, <1>2, <1>3, <1>4 DEF Reads, At

(* A step of one checkout that writes nothing but its own session.         *)
LEMMA MoveShop ==
  ASSUME Inv, ShopInv, NEW w \in Workers, NEW s, Become(w, s),
         UNCHANGED <<item, shop, period>>, Reads(w)'
  PROVE  ShopInv'
<1>1. Counts'
  BY DEF ShopInv, Counts, shop
<1>2. ASSUME NEW v \in Workers, v # w PROVE Reads(v)'
  <2>1. session'[v] = session[v] /\ Reads(v)
    BY <1>2 DEF Become, Inv, TypeOK, ShopInv
  <2> QED BY <2>1, ReadsKept
<1> QED BY <1>1, <1>2 DEF ShopInv

LEMMA StepShop ==
  ASSUME Inv, ShopInv, Next
  PROVE  ShopInv'
<1>0. \A w \in Workers : \A s : Become(w, s) => session'[w] = s
  BY DEF Become, Inv, TypeOK
<1>1. ASSUME NEW w \in Workers, NEW u \in Users, NEW k \in Keys, NEW c \in BOOLEAN,
             Request(w, u, k, c)
      PROVE  ShopInv'
  <2> DEFINE s == [Idle EXCEPT !.step = "lock", !.user = u, !.key = k, !.coupon = c]
  <2>1. Become(w, s) /\ UNCHANGED <<item, shop, period>> /\ <<u, k, c>> \in Requests
    BY <1>1 DEF Request
  <2>2. s.step = "lock" /\ s.user = u /\ s.key = k /\ s.coupon = c
    BY DEF Idle
  <2> HIDE DEF s
  <2>3. Reads(w)'
    BY <1>0, <2>1, <2>2 DEF Reads, At
  <2> QED BY <2>1, <2>3, MoveShop
<1>2. ASSUME NEW w \in Workers, Finish(w), UNCHANGED <<item, shop, period>>
      PROVE  ShopInv'
  <2>1. Become(w, Idle) /\ Reads(w)'
    BY <1>0, <1>2 DEF Finish, Reads, At, Idle
  <2> QED BY <1>2, <2>1, MoveShop
<1>3. ASSUME NEW w \in Workers, LockCart(w) \/ ValidateCoupon(w) \/ ClaimCoupon(w)
      PROVE  ShopInv'
  <2>1. session[w] \in Sessions /\ ~ At(w, "idle") /\ Reads(w)
    BY <1>3 DEF Inv, TypeOK, ShopInv, LockCart, ValidateCoupon, ClaimCoupon, At
  <2>2. PICK step \in {"claim", "coupon", "number"} :
          /\ Become(w, [session[w] EXCEPT !.step = step])
          /\ step = "claim" \/ session[w].step \in {"validate", "coupon"}
    BY <1>3 DEF LockCart, ValidateCoupon, ClaimCoupon, At
  <2> DEFINE s == [session[w] EXCEPT !.step = step]
  <2>3. /\ s.step = step /\ s.user = session[w].user /\ s.key = session[w].key
        /\ s.coupon = session[w].coupon /\ s.items = session[w].items
    BY <2>1, InFlight DEF Inv
  <2>4. UNCHANGED <<item, shop, period>>
    BY <1>3 DEF LockCart, ValidateCoupon, ClaimCoupon
  <2>5. session'[w] = s
    BY <1>0, <2>2
  <2> HIDE DEF s
  <2>6. Reads(w)'
    BY <2>1, <2>2, <2>3, <2>4, <2>5 DEF Reads, At, InCart
  <2>7. Become(w, s)
    BY <2>2 DEF s
  <2> QED BY <2>4, <2>6, <2>7, MoveShop
<1>4. ASSUME NEW w \in Workers, Claim(w) PROVE ShopInv'
  <2> DEFINE step == IF session[w].coupon THEN "validate" ELSE "number"
             s == [session[w] EXCEPT !.step = step, !.items = InCart(session[w].user)]
  <2>1. session[w] \in Sessions /\ ~ At(w, "idle") /\ Reads(w)
    BY <1>4 DEF Inv, TypeOK, ShopInv, Claim, At
  <2>2. /\ s.step = step /\ s.user = session[w].user /\ s.key = session[w].key
        /\ s.coupon = session[w].coupon /\ s.items = InCart(session[w].user)
    BY <2>1, InFlight DEF Inv
  <2>3. Become(w, s) /\ UNCHANGED <<item, shop, period>> /\ InCart(session[w].user) # {}
    BY <1>4 DEF Claim
  <2>4. session'[w] = s /\ step # "commit"
    BY <1>0, <2>3
  <2> HIDE DEF s, step
  <2>5. Reads(w)'
    BY <2>1, <2>2, <2>3, <2>4 DEF Reads, At, InCart
  <2> QED BY <2>3, <2>5, MoveShop
<1>5. ASSUME NEW w \in Workers, TakeNumber(w) PROVE ShopInv'
  <2> DEFINE s == [session[w] EXCEPT !.step = "commit", !.number = counter + 1,
                                     !.period = period]
  <2>1. session[w] \in Sessions /\ At(w, "number") /\ Reads(w) /\ period # None
    BY <1>5 DEF Inv, TypeOK, ShopInv, TakeNumber, BillingPeriod
  <2>2. /\ s.step = "commit" /\ s.user = session[w].user /\ s.key = session[w].key
        /\ s.coupon = session[w].coupon /\ s.items = session[w].items
        /\ s.period = period
    BY <2>1, InFlight DEF Inv, At
  <2>3. Become(w, s) /\ UNCHANGED <<item, shop, period>>
    BY <1>5 DEF TakeNumber, BillingPeriod
  <2>4. session'[w] = s /\ period \in Nat
    BY <1>0, <2>1, <2>3, CheckoutConstants DEF Inv, TypeOK, Periods
  <2> HIDE DEF s
  <2>5. Reads(w)'
    BY <2>1, <2>2, <2>3, <2>4 DEF Reads, At, InCart
  <2> QED BY <2>3, <2>5, MoveShop
<1>6. ASSUME NEW w \in Workers, Commit(w) PROVE ShopInv'
  <2> DEFINE s == session[w]
             n == NewOrder(s)
             With(S) == { o \in S : o.coupon }
  <2>1. /\ orders' = orders \cup {n} /\ n \notin orders /\ s.number = counter + 1
        /\ counter \in Nat /\ s.coupon \in BOOLEAN
    BY <1>6, CommitWrites
  <2>2. /\ counter' = s.number
        /\ coupon' = [coupon EXCEPT !.used = IF s.coupon THEN @ + 1 ELSE @]
    BY <1>6 DEF Commit
  <2>3. n.coupon = s.coupon
    BY DEF NewOrder
  <2>4. coupon \in [used : Nat, limit : Nat] /\ Counts
    BY DEF Inv, TypeOK, ShopInv
  <2>5. With(orders) \in SUBSET orders /\ orders \in SUBSET orders
    OBVIOUS
  <2>6. With(orders') = IF s.coupon THEN With(orders) \cup {n} ELSE With(orders)
    <3> HIDE DEF n, s
    <3> QED BY <2>1, <2>3
  <2> HIDE DEF n, s, With
  <2>7. Cardinality(orders') = Cardinality(orders) + 1
    BY <2>1, <2>5, OneMore
  <2>8. /\ Cardinality(With(orders)) \in Nat
        /\ Cardinality(With(orders) \cup {n}) = Cardinality(With(orders)) + 1
    BY <2>1, <2>5, OneMore
  <2>9. Counts'
    <3>1. counter = Cardinality(orders) /\ coupon.used = Cardinality(With(orders))
      BY <2>4 DEF Counts, With
    <3>2. coupon'.used = IF s.coupon THEN coupon.used + 1 ELSE coupon.used
      BY <2>2, <2>4
    <3>3. coupon'.used = Cardinality(With(orders'))
      BY <2>6, <2>8, <3>1, <3>2
    <3>4. counter' = Cardinality(orders')
      BY <2>1, <2>2, <2>7, <3>1
    <3> QED BY <3>3, <3>4 DEF Counts, With
  <2>10. ASSUME NEW v \in Workers PROVE Reads(v)'
    <3>1. CASE v = w
      <4>1. session'[v] = Idle
        BY <1>0, <1>6, <3>1 DEF Commit, Finish
      <4> QED BY <4>1 DEF Reads, At, Idle
    <3>2. CASE v # w
      <4>1. session'[v] = session[v] /\ Reads(v)
        BY <1>6, <3>2 DEF Commit, Finish, Become, Inv, TypeOK, ShopInv
      <4>2. \A i \in Items : item'[i] = "cart" => item[i] = "cart"
        BY <1>6 DEF Commit
      <4>3. period' = period
        BY <1>6 DEF Commit
      <4> QED BY <4>1, <4>2, <4>3, ReadsKept
    <3> QED BY <3>1, <3>2
  <2> QED BY <2>9, <2>10 DEF ShopInv
<1>7. ASSUME NEW i \in Items, AddItem(i) PROVE ShopInv'
  <2>1. Counts'
    BY <1>7 DEF AddItem, ShopInv, Counts, shop
  <2>2. ASSUME NEW w \in Workers PROVE Reads(w)'
    <3>1. CASE session[w].user = Owner[i]
      <4>1. session[w].step \notin {"claim", "validate", "coupon", "number", "commit"}
        BY <1>7, <3>1 DEF AddItem, CartLocked, HoldsCart
      <4> QED BY <1>7, <4>1 DEF AddItem, ShopInv, Reads, At
    <3>2. CASE session[w].user # Owner[i]
      <4>1. \A j \in Items : Owner[j] = session[w].user /\ item'[j] = "cart" =>
                               item[j] = "cart"
        BY <1>7, <3>2 DEF AddItem, Inv, TypeOK
      <4>2. session' = session /\ period' = period
        BY <1>7 DEF AddItem
      <4> QED BY <4>1, <4>2, ReadsKept DEF ShopInv
    <3> QED BY <3>1, <3>2
  <2> QED BY <2>1, <2>2 DEF ShopInv
<1>8. ASSUME NEW i \in Items, RemoveItem(i) PROVE ShopInv'
  <2>1. \A j \in Items : item'[j] = "cart" => item[j] = "cart"
    BY <1>8 DEF RemoveItem, Inv, TypeOK
  <2>2. UNCHANGED <<orders, counter, coupon, session, period>>
    BY <1>8 DEF RemoveItem, shop
  <2> QED BY <2>1, <2>2, ReadsKept DEF ShopInv, Counts
<1>9. CASE UpdateCoupon
  <2>1. coupon'.used = coupon.used
    BY <1>9 DEF UpdateCoupon, Inv, TypeOK
  <2>2. UNCHANGED <<orders, counter, session, period, item>>
    BY <1>9 DEF UpdateCoupon
  <2> QED BY <2>1, <2>2, ReadsKept DEF ShopInv, Counts
<1>10. CASE Renew
  <2>1. period' \in Periods /\ (period # None => period < period')
    BY <1>10, CheckoutConstants DEF Renew, Periods
  <2>2. UNCHANGED <<orders, counter, coupon, session, item>>
    BY <1>10 DEF Renew, shop
  <2> QED BY <2>1, <2>2, ReadsKept DEF ShopInv, Counts
<1>11. ASSUME NEW u \in Users, NEW k \in Keys, Repeat(u, k) PROVE ShopInv'
  BY <1>11 DEF Repeat, shop, ShopInv, Counts, Reads, At, InCart
<1> QED
  BY <1>1, <1>2, <1>3, <1>4, <1>5, <1>6, <1>7, <1>8, <1>9, <1>10, <1>11
  DEF Next, Replay, Abandon

LEMMA InitShop == Init => ShopInv
<1> SUFFICES ASSUME Init PROVE ShopInv
  OBVIOUS
<1>1. orders = {} /\ { o \in orders : o.coupon } = {}
  BY DEF Init
<1>2. Counts
  BY <1>1, FS_EmptySet DEF Init, Counts
<1>3. \A w \in Workers : Reads(w)
  BY DEF Init, Reads, At, Idle
<1> QED BY <1>2, <1>3 DEF ShopInv

(* Both modules count alike.                                               *)
LEMMA SameCount == \A S : OneShot!Cardinality(S) = Cardinality(S)
  BY DEF OneShot!Cardinality, Cardinality

(* The commit is the moment: all that was read or tested is true then.     *)
LEMMA CommitPlaces ==
  ASSUME Inv, ShopInv, NEW w \in Workers, Commit(w)
  PROVE  OneShot!ShopNext
<1> DEFINE s == session[w]
           n == NewOrder(s)
           S == s.items
<1>1. /\ s.user \in Users /\ s.key \in Keys /\ S \subseteq Items
      /\ s.coupon \in BOOLEAN /\ s.period \in Periods
      /\ s.number = counter + 1 /\ s.step = "commit"
      /\ orders' = orders \cup {n}
  BY CommitWrites
<1>2. /\ <<s.user, s.key, s.coupon>> \in Requests
      /\ S # {} /\ InCart(s.user) \subseteq S
      /\ period # None /\ s.period <= period
  BY <1>1 DEF ShopInv, Reads, At
<1>3. \A o \in orders : o.key # s.key
  <2>1. key[s.key] = None
    BY <1>1 DEF Inv, CheckoutOK, TestsHold, HoldsKey
  <2>2. \A o \in orders : [user |-> o.user, order |-> o.number] \in [user : Users, order : Nat]
    BY DEF Inv, TypeOK, OrderRows
  <2>3. \A o \in orders : key[o.key] = [user |-> o.user, order |-> o.number]
    BY DEF Inv, OrdersOK, OneOrderPerKey
  <2>4. None \notin [user : Users, order : Nat]
    BY CheckoutConstants
  <2>5. \A o \in orders : key[o.key] # None
    BY <2>2, <2>3, <2>4
  <2> QED BY <2>1, <2>5
<1>4. /\ S \in SUBSET OneShot!Orderable(s.user)
      /\ OneShot!CartOf(s.user) = InCart(s.user)
  <2>1. ItemsHeld(w)
    BY DEF Inv, CheckoutOK
  <2> QED BY <2>1 DEF ItemsHeld, OneShot!Orderable, OneShot!CartOf, InCart
<1>5. s.coupon => OneShot!CouponLeft(s.user)
  <2> SUFFICES ASSUME s.coupon PROVE OneShot!CouponLeft(s.user)
    OBVIOUS
  <2>1. Eligible(s.user) /\ coupon.used < coupon.limit
    BY <1>1 DEF Inv, CheckoutOK, TestsHold, HoldsCoupon
  <2>2. OneShot!WithCoupon = { o \in orders : o.coupon }
    BY DEF OneShot!WithCoupon
  <2>3. { o \in OneShot!WithCoupon : o.user = s.user } = CouponOrders(s.user)
    BY DEF OneShot!WithCoupon, CouponOrders
  <2>4. coupon.used = Cardinality({ o \in orders : o.coupon })
    BY DEF ShopInv, Counts
  <2> QED BY <2>1, <2>2, <2>3, <2>4, SameCount DEF OneShot!CouponLeft, Eligible
<1>6. Cardinality({ o \in orders : o.period = s.period }) < PlanLimit
  <2>1. usage[s.period] = Cardinality({ o \in orders : o.period = s.period })
    BY <1>1 DEF Inv, OrdersOK, UsageCountsOrders
  <2> QED BY <2>1 DEF Commit, Reserve
<1>7. s.number = Cardinality(orders) + 1
  BY <1>1 DEF ShopInv, Counts
<1>8. item' = [i \in Items |-> IF i \in InCart(s.user) THEN "ordered" ELSE item[i]]
  <2>1. \A i \in Items : i \in S /\ item[i] = "cart" <=> i \in InCart(s.user)
    BY <1>2 DEF Inv, CheckoutOK, ItemsHeld, InCart
  <2>2. item' = [i \in Items |-> IF i \in S /\ item[i] = "cart"
                                 THEN "ordered" ELSE item[i]]
    BY DEF Commit
  <2> HIDE DEF S, s
  <2> QED BY <2>1, <2>2
<1>9. /\ replies' = replies \cup {[user |-> s.user, key |-> s.key, order |-> s.number]}
      /\ coupon'.limit = coupon.limit /\ period' = period
  BY DEF Commit, Answer, Inv, TypeOK
<1>10. OneShot!Place(s.user, s.key, s.coupon, S, s.period)
  <2>1. n = [number |-> Cardinality(orders) + 1, user |-> s.user, key |-> s.key,
             items |-> S, coupon |-> s.coupon, period |-> s.period]
    BY <1>7 DEF NewOrder
  <2>2. OneShot!Tell(n)
    BY <1>9 DEF OneShot!Tell, NewOrder
  <2>3. orders' = orders \cup {[number |-> OneShot!Cardinality(orders) + 1,
                                user |-> s.user, key |-> s.key, items |-> S,
                                coupon |-> s.coupon, period |-> s.period]}
    BY <1>1, <2>1, SameCount
  <2>4. OneShot!Cardinality({ o \in orders : o.period = s.period }) < PlanLimit
    BY <1>6, SameCount
  <2>5. OneShot!Tell([number |-> OneShot!Cardinality(orders) + 1,
                      user |-> s.user, key |-> s.key, items |-> S,
                      coupon |-> s.coupon, period |-> s.period])
    BY <2>1, <2>2, SameCount
  <2> HIDE DEF n, s, S
  <2> QED BY <1>2, <1>3, <1>4, <1>5, <1>8, <1>9, <2>3, <2>4, <2>5
          DEF OneShot!Place
<1>11. s.period \in OneShot!Begun
  BY <1>1, <1>2, CheckoutConstants DEF OneShot!Begun, Periods, Inv, TypeOK
<1>12. PICK r \in Requests : r = <<s.user, s.key, s.coupon>>
  BY <1>2
<1> HIDE DEF s, S
<1> QED BY <1>4, <1>10, <1>11, <1>12 DEF OneShot!ShopNext

(* A key that is known is answered with its order.                         *)
LEMMA AnswerTells ==
  ASSUME Inv, NEW k \in Keys, key[k] # None,
         Answer(key[k].user, k, key[k].order), UNCHANGED <<item, shop, period>>
  PROVE  OneShot!ShopNext
<1>1. PICK o \in orders :
        o.key = k /\ key[k] = [user |-> o.user, order |-> o.number]
  BY DEF Inv, OrdersOK, KeyHasOrder
<1>2. OneShot!TellAgain(o)
  BY <1>1 DEF OneShot!TellAgain, OneShot!Tell, Answer, shop
<1> QED BY <1>2 DEF OneShot!ShopNext

(* Every step of the transactions is one step of the shop, or none.        *)
LEMMA StepIsShops ==
  ASSUME Inv, ShopInv, Next
  PROVE  OneShot!ShopNext \/ UNCHANGED OneShot!state
<1>1. ASSUME NEW i \in Items, AddItem(i) \/ RemoveItem(i) PROVE OneShot!ShopNext
  <2>1. OneShot!Add(i) \/ OneShot!Remove(i)
    BY <1>1 DEF AddItem, RemoveItem, OneShot!Add, OneShot!Remove, shop
  <2> QED BY <2>1 DEF OneShot!ShopNext
<1>2. CASE UpdateCoupon
  <2>1. OneShot!SetLimit
    BY <1>2 DEF UpdateCoupon, OneShot!SetLimit, Inv, TypeOK
  <2> QED BY <2>1 DEF OneShot!ShopNext
<1>3. CASE Renew
  <2>1. OneShot!StartPeriod
    BY <1>3, CheckoutConstants DEF Renew, Periods, OneShot!StartPeriod, shop
  <2> QED BY <2>1 DEF OneShot!ShopNext
<1>4. ASSUME NEW w \in Workers, Replay(w) PROVE OneShot!ShopNext
  <2>1. session[w].key \in Keys
    BY <1>4, InFlight DEF Inv, Replay, At
  <2> QED BY <1>4, <2>1, AnswerTells DEF Replay
<1>5. ASSUME NEW u \in Users, NEW k \in Keys, Repeat(u, k) PROVE OneShot!ShopNext
  BY <1>5, AnswerTells DEF Repeat
<1>6. CASE UNCHANGED <<item, shop, period, replies>>
  BY <1>6 DEF OneShot!state, shop
<1> QED
  BY <1>1, <1>2, <1>3, <1>4, <1>5, <1>6, CommitPlaces
  DEF Next, Request, LockCart, Claim, ValidateCoupon, ClaimCoupon, TakeNumber,
      Abandon

-----------------------------------------------------------------------------
(* Every reachable state of the shop satisfies the invariant, however many *)
(* checkouts are in flight (CheckoutService.checkout).                     *)
THEOREM InvHolds == Spec => []Inv
<1>1. Inv /\ [Next]_vars => Inv'
  <2> SUFFICES ASSUME Inv, [Next]_vars PROVE Inv'
    OBVIOUS
  <2>1. CASE UNCHANGED vars
    BY <2>1, StutterInv
  <2>2. CASE Next
    BY <2>2, RequestInv, LockCartInv, ClaimInv, ReplayInv, ValidateCouponInv,
       ClaimCouponInv, TakeNumberInv, CommitInv, AbandonInv, RepeatInv,
       CartInv, UpdateCouponInv, RenewInv DEF Next
  <2> QED BY <2>1, <2>2
<1> QED BY InitInv, <1>1, PTL DEF Spec

(* The rows and sessions stay well typed: no order is made without a       *)
(* billing period, a customer and a key (CheckoutService.checkout).        *)
THEOREM TypeCorrect == Spec => []TypeOK
<1>1. Inv => TypeOK
  BY DEF Inv
<1> QED BY InvHolds, <1>1, PTL

(* A key stands for one order and is always answered with it               *)
(* (IdempotencyService.claim and the fast path).                           *)
THEOREM KeysAreOnce == Spec => []OneOrderPerKey
<1>1. Inv => OneOrderPerKey
  BY DEF Inv, OrdersOK
<1> QED BY InvHolds, <1>1, PTL

(* However many tabs check out a cart, an item is ordered once (the lock   *)
(* on the cart in CheckoutService.checkout).                               *)
THEOREM ItemsAreOnce == Spec => []ItemOrderedOnce
<1>1. Inv => ItemOrderedOnce
  BY DEF Inv, OrdersOK
<1> QED BY InvHolds, <1>1, PTL

(* Order numbers are distinct and without gaps (generateOrderNumber).      *)
THEOREM NumbersRunOn == Spec => []OrderNumbersRunOn
<1>1. Inv => OrderNumbersRunOn
  BY DEF Inv, OrdersOK
<1> QED BY InvHolds, <1>1, PTL

(* The plain count of a customer's uses suffices (validateCouponCore).     *)
THEOREM PerUserKept == Spec => []CouponPerUser
<1>1. Inv => CouponPerUser
  BY DEF Inv, OrdersOK
<1> QED BY InvHolds, <1>1, PTL

(* Orders and reservations agree, within the plan (UsageService.reserve).  *)
THEOREM UsageKept == Spec => []UsageCountsOrders
<1>1. Inv => UsageCountsOrders
  BY DEF Inv, OrdersOK
<1> QED BY InvHolds, <1>1, PTL

(* A use is charged within the limit of the moment and with its order      *)
(* (validateAndClaim, updateCoupon).                                       *)
THEOREM CouponKept == Spec => CouponUsedWithinLimit
<1> DEFINE A == coupon'.used # coupon.used =>
                  /\ coupon'.used = coupon.used + 1
                  /\ coupon'.used <= coupon.limit
                  /\ \E o \in orders' \ orders : o.coupon
<1>1. Inv /\ [Next]_vars => [A]_vars
  <2> SUFFICES ASSUME Inv, Next, coupon'.used # coupon.used PROVE A
    OBVIOUS
  <2>1. ASSUME NEW w \in Workers, Commit(w) PROVE A
    <3> DEFINE s == session[w]
               n == NewOrder(s)
    <3>1. /\ orders' = orders \cup {n} /\ n \notin orders /\ s.step = "commit"
          /\ s.coupon \in BOOLEAN
      BY <2>1, CommitWrites
    <3>2. n.coupon = s.coupon
      BY DEF NewOrder
    <3>3. /\ coupon \in [used : Nat, limit : Nat]
          /\ coupon' = [coupon EXCEPT !.used = IF s.coupon THEN @ + 1 ELSE @]
      BY <2>1 DEF Inv, TypeOK, Commit
    <3> HIDE DEF n
    <3>4. s.coupon
      BY <3>3
    <3>5. coupon.used < coupon.limit
      BY <3>1, <3>4 DEF Inv, CheckoutOK, TestsHold, HoldsCoupon
    <3>6. coupon'.used = coupon.used + 1 /\ coupon'.used <= coupon.limit
      BY <3>3, <3>4, <3>5
    <3>7. \E o \in orders' \ orders : o.coupon
      BY <3>1, <3>2, <3>4
    <3> QED BY <3>6, <3>7
  <2>2. CASE UpdateCoupon
    BY <2>2 DEF UpdateCoupon, Inv, TypeOK
  <2>3. CASE UNCHANGED coupon
    BY <2>3
  <2> QED BY <2>1, <2>2, <2>3
          DEF Next, Request, LockCart, Claim, Replay, ValidateCoupon,
              ClaimCoupon, TakeNumber, Abandon, Repeat, AddItem, RemoveItem,
              Renew, shop
<1> QED BY InvHolds, <1>1, PTL DEF Spec, CouponUsedWithinLimit

(* The locked transaction is one step as far as the shop can tell: an      *)
(* order takes all that is in the cart at its commit, and key, coupon,     *)
(* number and plan are as tested then (CheckoutService.checkout).          *)
THEOREM ChecksOutAtOnce == Spec => PlacesAtOnce
<1>1. Init => OneShot!ShopInit
  BY DEF Init, OneShot!ShopInit
<1>2. ShopInv /\ Inv /\ [Next]_vars => ShopInv'
  <2> SUFFICES ASSUME Inv, ShopInv, UNCHANGED vars PROVE ShopInv'
    BY StepShop
  <2> QED BY DEF vars, shop, ShopInv, Counts, Reads, At, InCart
<1>3. Inv /\ ShopInv /\ [Next]_vars => [OneShot!ShopNext]_OneShot!state
  <2> SUFFICES ASSUME UNCHANGED vars PROVE UNCHANGED OneShot!state
    BY StepIsShops
  <2> QED BY DEF vars, shop, OneShot!state
<1> QED BY InvHolds, InitShop, <1>1, <1>2, <1>3, PTL
        DEF Spec, PlacesAtOnce, OneShot!ShopSpec

-----------------------------------------------------------------------------
(* The shop is not too weak a promise: what it leaves out (locks, counters *)
(* and what is in flight) is not needed for what customers rely on.        *)
OneKey == \A a, b \in orders : a.key = b.key => a = b

Numbered ==
  /\ \A a, b \in orders : a.number = b.number => a = b
  /\ { o.number : o \in orders } = 1 .. Cardinality(orders)

Answered == \A r \in replies : \E o \in orders :
              o.key = r.key /\ o.user = r.user /\ o.number = r.order

(* An item never put in a cart is in no order.                             *)
Untouched == \A i \in Items : item[i] = "new" => \A o \in orders : i \notin o.items

ShopKept ==
  /\ IsFiniteSet(orders)
  /\ item = [i \in Items |-> item[i]]
  /\ OneKey /\ Numbered /\ Answered
  /\ Untouched /\ ItemOrderedOnce /\ CouponPerUser

LEMMA ShopInitKept == OneShot!ShopInit => ShopKept
<1> SUFFICES ASSUME OneShot!ShopInit PROVE ShopKept
  OBVIOUS
<1>1. orders = {} /\ replies = {} /\ item = [i \in Items |-> "new"]
  BY DEF OneShot!ShopInit
<1>2. IsFiniteSet(orders) /\ Cardinality(orders) = 0
  BY <1>1, FS_EmptySet
<1>3. OneKey /\ Answered
  BY <1>1 DEF OneKey, Answered
<1>4. Numbered
  BY <1>1, <1>2 DEF Numbered
<1>5. Untouched /\ ItemOrderedOnce
  BY <1>1 DEF Untouched, ItemOrderedOnce
<1>6. CouponPerUser
  <2>1. \A u \in Users : CouponOrders(u) = {}
    BY <1>1 DEF CouponOrders
  <2>2. \A u \in Users : Cardinality(CouponOrders(u)) = 0
    BY <2>1, FS_EmptySet
  <2>3. PerUserLimit \in Nat
    BY CheckoutConstants
  <2> QED BY ONLY <2>2, <2>3 DEF CouponPerUser
<1> QED BY <1>1, <1>2, <1>3, <1>4, <1>5, <1>6 DEF ShopKept

(* An order placed in the shop keeps all of it.                            *)
LEMMA PlaceKeeps ==
  ASSUME ShopKept, NEW r \in Requests,
         NEW S \in SUBSET OneShot!Orderable(r[1]), NEW p,
         OneShot!Place(r[1], r[2], r[3], S, p)
  PROVE  ShopKept'
<1> DEFINE n == [number |-> Cardinality(orders) + 1, user |-> r[1], key |-> r[2],
                 items |-> S, coupon |-> r[3], period |-> p]
<1>1. /\ orders' = orders \cup {n}
      /\ \A o \in orders : o.key # r[2]
      /\ S # {} /\ OneShot!CartOf(r[1]) \subseteq S
      /\ r[3] => OneShot!CouponLeft(r[1])
      /\ item' = [i \in Items |-> IF i \in OneShot!CartOf(r[1]) THEN "ordered" ELSE item[i]]
  BY SameCount DEF OneShot!Place
<1>2. /\ n.number = Cardinality(orders) + 1 /\ n.user = r[1] /\ n.key = r[2]
      /\ n.items = S /\ n.coupon = r[3]
  OBVIOUS
<1>3. replies' = replies \cup {[user |-> n.user, key |-> n.key, order |-> n.number]}
  BY SameCount DEF OneShot!Place, OneShot!Tell
<1>4. PICK m : m = n
  OBVIOUS
<1>5. \A o \in orders : o.items \cap S = {}
  BY DEF OneShot!Orderable
<1>6. m \notin orders
  BY <1>1, <1>2, <1>4
<1>7. IsFiniteSet(orders) /\ Cardinality(orders) \in Nat
  BY FS_CardinalityType DEF ShopKept
<1>8. IsFiniteSet(orders') /\ Cardinality(orders') = Cardinality(orders) + 1
  BY <1>1, <1>4, <1>6, <1>7, FS_AddElement
<1>9. OneKey'
  BY <1>1, <1>2, <1>4 DEF ShopKept, OneKey
<1>10. Numbered'
  <2>1. \A o \in orders : o.number \in 1 .. Cardinality(orders)
    BY DEF ShopKept, Numbered
  <2>2. \A a, b \in orders' : a.number = b.number => a = b
    BY <1>1, <1>2, <1>4, <1>7, <2>1 DEF ShopKept, Numbered
  <2>3. { o.number : o \in orders' } = { o.number : o \in orders } \cup {Cardinality(orders) + 1}
    BY <1>1, <1>2
  <2>4. { o.number : o \in orders' } = 1 .. Cardinality(orders')
    <3>1. { o.number : o \in orders } = 1 .. Cardinality(orders)
      BY DEF ShopKept, Numbered
    <3>2. PICK c \in Nat : c = Cardinality(orders)
      BY <1>7
    <3>3. { o.number : o \in orders' } = (1 .. c) \cup {c + 1}
      BY ONLY <2>3, <3>1, <3>2
    <3>4. (1 .. c) \cup {c + 1} = 1 .. c + 1
      BY ONLY c \in Nat
    <3> QED BY ONLY <1>8, <3>2, <3>3, <3>4
  <2> QED BY <2>2, <2>4 DEF Numbered
<1>11. Answered'
  <2>1. \A x \in replies : \E o \in orders' :
          o.key = x.key /\ o.user = x.user /\ o.number = x.order
    BY <1>1 DEF ShopKept, Answered
  <2>2. m \in orders'
    BY <1>1, <1>4
  <2>3. replies' = replies \cup {[user |-> m.user, key |-> m.key, order |-> m.number]}
    BY <1>3, <1>4
  <2> QED BY ONLY <2>1, <2>2, <2>3 DEF Answered
<1>12. ItemOrderedOnce'
  <2>1. \A a, b \in orders' : a # b => a.items \cap b.items = {}
    BY <1>1, <1>2, <1>4, <1>5 DEF ShopKept, ItemOrderedOnce
  <2>2. ASSUME NEW i \in Items, item'[i] = "ordered"
        PROVE  \E o \in orders' : i \in o.items
    <3>1. CASE i \in OneShot!CartOf(r[1])
      BY <1>1, <1>2, <3>1
    <3>2. CASE i \notin OneShot!CartOf(r[1])
      BY <1>1, <2>2, <3>2 DEF ShopKept, ItemOrderedOnce
    <3> QED BY <3>1, <3>2
  <2>3. ASSUME NEW i \in Items, item'[i] = "cart", NEW o \in orders'
        PROVE  i \notin o.items
    <3>1. i \notin OneShot!CartOf(r[1]) /\ item[i] = "cart"
      BY <1>1, <2>3
    <3>2. i \notin S
      BY <3>1 DEF OneShot!Orderable, OneShot!CartOf
    <3>3. \A q \in orders : i \notin q.items
      BY <3>1 DEF ShopKept, ItemOrderedOnce
    <3> QED BY <1>1, <1>2, <3>2, <3>3
  <2> QED BY <2>1, <2>2, <2>3 DEF ItemOrderedOnce
<1>13. CouponPerUser'
  <2> SUFFICES ASSUME NEW u \in Users
               PROVE  Cardinality(CouponOrders(u)') <= PerUserLimit
    BY DEF CouponPerUser
  <2>1. IsFiniteSet(CouponOrders(u)) /\ Cardinality(CouponOrders(u)) \in Nat
    BY <1>7, FS_Subset, FS_CardinalityType DEF CouponOrders
  <2>2. Cardinality(CouponOrders(u)) <= PerUserLimit
    BY DEF ShopKept, CouponPerUser
  <2>3. CASE r[3] /\ r[1] = u
    <3>1. CouponOrders(u)' = CouponOrders(u) \cup {m} /\ m \notin CouponOrders(u)
      BY <1>1, <1>2, <1>4, <1>6, <2>3 DEF CouponOrders
    <3>2. { o \in OneShot!WithCoupon : o.user = u } = CouponOrders(u)
      BY DEF OneShot!WithCoupon, CouponOrders
    <3>3. Cardinality(CouponOrders(u)) < PerUserLimit
      BY <1>1, <2>3, <3>2, SameCount DEF OneShot!CouponLeft
    <3>4. Cardinality(CouponOrders(u)') = Cardinality(CouponOrders(u)) + 1
      BY <2>1, <3>1, FS_AddElement
    <3>5. PerUserLimit \in Nat
      BY CheckoutConstants
    <3> QED BY ONLY <2>1, <3>3, <3>4, <3>5
  <2>4. CASE ~ (r[3] /\ r[1] = u)
    <3>1. CouponOrders(u)' = CouponOrders(u)
      BY <1>1, <1>2, <2>4 DEF CouponOrders
    <3> QED BY <2>2, <3>1
  <2> QED BY <2>3, <2>4
<1>14. item' = [i \in Items |-> item'[i]]
  BY <1>1
<1>15. Untouched'
  <2> SUFFICES ASSUME NEW i \in Items, item'[i] = "new", NEW o \in orders'
               PROVE  i \notin o.items
    BY DEF Untouched
  <2>1. item[i] = "new"
    BY <1>1
  <2>2. i \notin S
    BY <2>1 DEF OneShot!Orderable
  <2>3. \A q \in orders : i \notin q.items
    BY <2>1 DEF ShopKept, Untouched
  <2> QED BY <1>1, <1>2, <2>2, <2>3
<1> QED BY <1>8, <1>9, <1>10, <1>11, <1>12, <1>13, <1>14, <1>15 DEF ShopKept

LEMMA ShopStepKept == ShopKept /\ [OneShot!ShopNext]_(OneShot!state) => ShopKept'
<1> SUFFICES ASSUME ShopKept, [OneShot!ShopNext]_(OneShot!state) PROVE ShopKept'
  OBVIOUS
<1> USE DEF ShopKept
<1>1. ASSUME NEW r \in Requests, NEW S \in SUBSET OneShot!Orderable(r[1]), NEW p,
             OneShot!Place(r[1], r[2], r[3], S, p)
      PROVE  ShopKept'
  BY <1>1, PlaceKeeps
<1>2. ASSUME UNCHANGED orders
      PROVE  IsFiniteSet(orders)' /\ OneKey' /\ Numbered' /\ CouponPerUser'
  BY <1>2 DEF OneKey, Numbered, CouponPerUser, CouponOrders
<1>3. ASSUME UNCHANGED <<orders, replies>> PROVE Answered'
  BY <1>3 DEF Answered
<1>4. ASSUME UNCHANGED <<orders, item>>
      PROVE  Untouched' /\ ItemOrderedOnce' /\ (item = [i \in Items |-> item[i]])'
  BY <1>4 DEF Untouched, ItemOrderedOnce
<1>5. ASSUME NEW o \in orders, OneShot!TellAgain(o) PROVE ShopKept'
  <2>1. UNCHANGED <<orders, item>>
    BY <1>5 DEF OneShot!TellAgain
  <2>2. replies' = replies \cup {[user |-> o.user, key |-> o.key, order |-> o.number]}
    BY <1>5 DEF OneShot!TellAgain, OneShot!Tell
  <2>3. Answered'
    BY ONLY <2>1, <2>2, o \in orders, ShopKept DEF ShopKept, Answered
  <2> QED BY <1>2, <1>4, <2>1, <2>3
<1>6. ASSUME NEW i \in Items, OneShot!Add(i) PROVE ShopKept'
  <2>1. /\ UNCHANGED <<orders, replies>>
        /\ item[i] = "new" /\ item' = [item EXCEPT ![i] = "cart"]
    BY <1>6 DEF OneShot!Add
  <2>2. ItemOrderedOnce'
    BY <2>1 DEF Untouched, ItemOrderedOnce
  <2>3. Untouched'
    BY <2>1 DEF Untouched
  <2> QED BY <1>2, <1>3, <2>1, <2>2, <2>3
<1>7. ASSUME NEW i \in Items, OneShot!Remove(i) PROVE ShopKept'
  <2>1. /\ UNCHANGED <<orders, replies>>
        /\ item[i] = "cart" /\ item' = [item EXCEPT ![i] = "removed"]
    BY <1>7 DEF OneShot!Remove
  <2>2. ItemOrderedOnce'
    BY <2>1 DEF ItemOrderedOnce
  <2>3. Untouched'
    BY <2>1 DEF Untouched
  <2> QED BY <1>2, <1>3, <2>1, <2>2, <2>3
<1>8. CASE OneShot!SetLimit \/ OneShot!StartPeriod \/ UNCHANGED OneShot!state
  <2>1. UNCHANGED <<orders, item, replies>>
    BY <1>8 DEF OneShot!SetLimit, OneShot!StartPeriod, OneShot!state
  <2> QED BY <1>2, <1>3, <1>4, <2>1
<1> QED BY <1>1, <1>5, <1>6, <1>7, <1>8 DEF OneShot!ShopNext

(* Whoever builds on PlacesAtOnce alone has what customers rely on: an     *)
(* item is ordered once, a key stands for one order and is answered with   *)
(* it, numbers run on, the coupon's limit per customer is kept             *)
(* (CheckoutService.checkout).                                             *)
THEOREM ShopSuffices ==
  PlacesAtOnce => [](ItemOrderedOnce /\ CouponPerUser /\ OneKey /\ Numbered /\ Answered)
<1>1. ShopKept => ItemOrderedOnce /\ CouponPerUser /\ OneKey /\ Numbered /\ Answered
  BY DEF ShopKept
<1> QED BY <1>1, ShopInitKept, ShopStepKept, PTL DEF PlacesAtOnce, OneShot!ShopSpec
=============================================================================
