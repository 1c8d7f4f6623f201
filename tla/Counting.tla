------------------------------- MODULE Counting -------------------------------
(***************************************************************************)
(* How many elements of a sequence are in a set: what the properties of    *)
(* the logger (Rogger) and of the statistics (StatReport) count by.        *)
(***************************************************************************)
EXTENDS Naturals, Sequences, FiniteSets

Among(s, S) == Cardinality({i \in DOMAIN s : s[i] \in S})
===============================================================================
