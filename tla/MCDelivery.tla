----------------------------- MODULE MCDelivery ------------------------------
(* One package of every kind the hub tells of, and one too short for its type. *)
EXTENDS Delivery

Packages ==
    {[type |-> "EMGRAW", length |-> 20, numbered |-> TRUE],
     [type |-> "QUATERNION", length |-> 18, numbered |-> FALSE]}
=============================================================================
