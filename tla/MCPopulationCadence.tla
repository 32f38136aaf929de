-------------------------- MODULE MCPopulationCadence --------------------------
(* A small instance of the population cadence for TLC.                         *)
EXTENDS PopulationCadence

(* What the comment at runtime_publication.py 273 says: the two generations    *)
(* are decoded independently, and a bad container does not keep the start      *)
(* from reading the other one.  TLC finds it violated.                         *)
BadContainerIsSkipped == loop = "down" /\ Usable # {} => ~Refused
=============================================================================
