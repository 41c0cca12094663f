--------------------------- MODULE MCOfferRegistry ---------------------------
(* A small instance of OfferRegistry: two offers that want one name. *)
EXTENDS OfferRegistry

CONSTANTS o1, o2, n1

MCAsked ==
  {[kind |-> "register", offer |-> o1, name |-> n1],
   [kind |-> "register", offer |-> o1, name |-> BadName],
   [kind |-> "register", offer |-> o2, name |-> n1],
   [kind |-> "register", offer |-> o2, name |-> NoName],
   [kind |-> "bind", offer |-> o2, name |-> n1],
   [kind |-> "revoke", offer |-> o1, name |-> NoName],
   Read}
==============================================================================
