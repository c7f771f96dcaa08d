-------------------------------- MODULE MCAT --------------------------------
(* Instances of AT for TLC: an initiator of each type, two targets of any   *)
(* types, three transactions shared out between the two.                   *)
EXTENDS AT

MCWirings ==
  {[t |-> p[1], u |-> p[2]] : p \in {<<"A", "A">>, <<"A", "B">>, <<"A", "C">>, <<"A", "D">>,
     <<"A", "E">>, <<"B", "B">>, <<"B", "C">>, <<"B", "D">>, <<"B", "E">>, <<"C", "C">>,
     <<"C", "D">>, <<"C", "E">>, <<"D", "D">>, <<"D", "E">>, <<"E", "E">>}}

MCLoads == {[a |-> k, b |-> 3 - k] : k \in 0..3}
=============================================================================
