------------------------------ MODULE Stateless ------------------------------
(***************************************************************************)
(* A program that calls what keeps no state, flags and host information,   *)
(* in any order.                                                           *)
(***************************************************************************)
EXTENDS Bits, Hostinfo

Next == Bitwise \/ Hostinfo \/ Forget
Spec == CallsInit /\ [][Next]_call
=============================================================================
