---------------------------- MODULE MCPageFeed ----------------------------
(* Two refreshes that overlap, one GPU, two filters, and two settings of     *)
(* which one is switched off at first.                                       *)
EXTENDS PageFeed

OneIsOff == [f \in Field |-> IF f = CHOOSE g \in Field : TRUE THEN "off"
                            ELSE CHOOSE v \in Number : TRUE]
=============================================================================
