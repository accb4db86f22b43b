---------------------------- MODULE MCInventory -----------------------------
(***************************************************************************)
(* Instances of Inventory for TLC: two configured devices, and entries for *)
(* every way of listing them: again under another local id, under one that *)
(* another device has, with other components or one of them twice, and     *)
(* entries the client skips or does not accept.                            *)
(***************************************************************************)
EXTENDS Inventory

CONSTANTS a, b, c, d, h1, h2

Entry(id, hw, comps) == [id |-> id, hw |-> hw, comps |-> comps]

MCEntries ==
  { Entry(a, h1, <<1>>), Entry(b, h2, <<1, 2>>),
    Entry(c, h1, <<1>>), Entry(a, h2, <<1>>),
    Entry(b, h2, <<2>>), Entry(c, h1, <<1, 1>>),
    Entry(c, Invalid, <<>>), Entry(d, Invalid, <<>>),
    Entry(c, Invalid, <<1>>), Entry(Invalid, h1, <<>>) }

MCSettings == { [hw |-> h1, comp |-> 1], [hw |-> h2, comp |-> 1] }
=============================================================================
