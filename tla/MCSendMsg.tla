-------------------------------- MODULE MCSendMsg --------------------------------
(***************************************************************************)
(* SendMsg for TLC: a user u who talks in group g (after an event whose    *)
(* echo word is e) and in private, and another group h.                    *)
(***************************************************************************)
EXTENDS SendMsg

CONSTANTS g, h, u, e, both, group, private, again

MCRequest ==
    [a \in {both, group, private, again} |->
        CASE a = both -> [handler |-> "send_msg", echo |-> e, group |-> g, user |-> u]
          [] a = group -> [handler |-> "send_group_msg", echo |-> NoKey, group |-> h, user |-> NoKey]
          [] a = private -> [handler |-> "send_private_msg", echo |-> NoKey, group |-> NoKey, user |-> u]
          [] a = again -> [handler |-> "send_msg", echo |-> NoKey, group |-> g, user |-> u]]
==================================================================================
