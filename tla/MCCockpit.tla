------------------------------ MODULE MCCockpit -------------------------------
(* The cockpit for model checking.  Nothing tells one conversation of the    *)
(* server from another, and the properties checked are safety properties.    *)
EXTENDS Cockpit

Interchangeable == Permutations(Convs)
=============================================================================
