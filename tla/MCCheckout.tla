----------------------------- MODULE MCCheckout -----------------------------
(* Small instances of Checkout for TLC.                                    *)
EXTENDS Checkout, TLC

CONSTANTS u1, u2, k1, k2, k3, i1, i2, i3

(* One customer with two items, one with a single item.                    *)
Carts == i1 :> u1 @@ i2 :> u1 @@ i3 :> u2

(* Two tabs of the one, a customer whose key is the other's, and a request *)
(* without the coupon.                                                     *)
Sent == {<<u1, k1, TRUE>>, <<u1, k2, TRUE>>, <<u2, k2, TRUE>>, <<u2, k3, FALSE>>}
=============================================================================
