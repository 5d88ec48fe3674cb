---------------------------- MODULE MCSpecGraph -----------------------------
(* Every dependency graph on three tasks, dangling and self edges included. *)
EXTENDS SpecGraph

CONSTANTS a, b, c

MCTask == {a, b, c}
=============================================================================
