---------------------------- MODULE MCEventChain ----------------------------
(***************************************************************************)
(* An instance of EventChain: three events and three outside writes, enough *)
(* to cut, to reorder and to append on top of what was cut.                 *)
(***************************************************************************)
EXTENDS EventChain

MCMaxEvents == 3
MCMaxDamage == 3
=============================================================================
