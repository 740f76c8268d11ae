-------------------------- MODULE OneShotCheckout ---------------------------
(***************************************************************************)
(* What checkout promises the shop: an order is placed at one moment, from *)
(* all that the customer's cart holds then, with every limit kept as it is *)
(* then.  There are no locks and nothing is in flight.  Numbers, uses of   *)
(* the coupon, reservations and known keys are not kept beside the orders, *)
(* they are what the orders say.  Only two things may be older than the    *)
(* order: an item its customer has removed while it was being placed, and  *)
(* its billing period.                                                     *)
(***************************************************************************)
EXTENDS Naturals, FiniteSets

CONSTANTS Items, Owner, Requests, MaxPeriod, CouponLimits, PerUserLimit,
          PlanLimit, None

VARIABLES
  item,    \* where an item is
  orders,  \* the orders placed
  limit,   \* how many orders may use the coupon
  period,  \* the billing period
  replies  \* which order a key was answered with

state == <<item, orders, limit, period, replies>>

ShopInit ==
  /\ item = [i \in Items |-> "new"]
  /\ orders = {}
  /\ limit \in CouponLimits
  /\ period = None
  /\ replies = {}

-----------------------------------------------------------------------------
CartOf(u) == { i \in Items : Owner[i] = u /\ item[i] = "cart" }

(* What may be ordered: nothing that has been ordered before.              *)
Orderable(u) == { i \in Items : /\ Owner[i] = u
                                /\ item[i] \in {"cart", "removed"}
                                /\ \A o \in orders : i \notin o.items }

WithCoupon == { o \in orders : o.coupon }

CouponLeft(u) ==
  /\ Cardinality(WithCoupon) < limit
  /\ Cardinality({ o \in WithCoupon : o.user = u }) < PerUserLimit

Tell(o) == replies' = replies \cup {[user |-> o.user, key |-> o.key, order |-> o.number]}

Place(u, k, c, S, p) ==
  LET new == [number |-> Cardinality(orders) + 1, user |-> u, key |-> k,
              items |-> S, coupon |-> c, period |-> p] IN
  /\ <<u, k, c>> \in Requests
  /\ \A o \in orders : o.key # k
  /\ S # {} /\ CartOf(u) \subseteq S
  /\ c => CouponLeft(u)
  /\ Cardinality({ o \in orders : o.period = p }) < PlanLimit
  /\ orders' = orders \cup {new}
  /\ item' = [i \in Items |-> IF i \in CartOf(u) THEN "ordered" ELSE item[i]]
  /\ Tell(new)
  /\ UNCHANGED <<limit, period>>

TellAgain(o) == Tell(o) /\ UNCHANGED <<item, orders, limit, period>>

Add(i) ==
  /\ item[i] = "new"
  /\ item' = [item EXCEPT ![i] = "cart"]
  /\ UNCHANGED <<orders, limit, period, replies>>

Remove(i) ==
  /\ item[i] = "cart"
  /\ item' = [item EXCEPT ![i] = "removed"]
  /\ UNCHANGED <<orders, limit, period, replies>>

SetLimit ==
  /\ limit' \in CouponLimits
  /\ UNCHANGED <<item, orders, period, replies>>

(* The billing periods there have been, with the present one.              *)
Begun == IF period = None THEN {} ELSE 1 .. period

StartPeriod ==
  /\ period' \in 1 .. MaxPeriod
  /\ period # None => period < period'
  /\ UNCHANGED <<item, orders, limit, replies>>

ShopNext ==
  \/ \E r \in Requests : \E S \in SUBSET Orderable(r[1]), p \in Begun :
       Place(r[1], r[2], r[3], S, p)
  \/ \E o \in orders : TellAgain(o)
  \/ \E i \in Items : Add(i) \/ Remove(i)
  \/ SetLimit
  \/ StartPeriod

ShopSpec == ShopInit /\ [][ShopNext]_state
=============================================================================
