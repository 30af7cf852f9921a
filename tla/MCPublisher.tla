---------------------------- MODULE MCPublisher ----------------------------
(* The bounds are in the cfg files. Three generations in MCPublisher.cfg, so   *)
(* that an event can be lost when listeners are there already; two are enough *)
(* for each of the two violations.                                            *)
EXTENDS Publisher
============================================================================
