------------------------------- MODULE Slots -------------------------------
(* The requests that one process of apps/api handles at a time. *)
EXTENDS FiniteSets

CONSTANT Requests

ASSUME RequestsAssumption == IsFiniteSet(Requests)
=============================================================================
