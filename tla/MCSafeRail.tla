---------------------------- MODULE MCSafeRail ----------------------------
(***************************************************************************)
(* Instances of SafeRail for TLC.                                          *)
(***************************************************************************)
EXTENDS SafeRail, TLC

CONSTANTS shop, usdc

Pay(recipient, token, amount) ==
  [recipient |-> recipient, token |-> token, amount |-> amount]

\* One of each kind: two sizes within the limits together, one above the
\* maximum, no room for all; another token, strange amounts.
Proposals ==
  { Pay(shop, usdc, 2), Pay(shop, usdc, 3),
    Pay(shop, Native, 2), Pay(shop, usdc, -1), Pay(shop, usdc, Malformed) }

LowCaps  == [max |-> 2, daily |-> 3]
HighCaps == [max |-> 3, daily |-> 4]

OtherCaps == {HighCaps}

Interchangeable == Permutations(ActionId)
=============================================================================
