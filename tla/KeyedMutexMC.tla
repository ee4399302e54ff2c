--------------------------- MODULE KeyedMutexMC ---------------------------
(***************************************************************************)
(* Three callers and two keys: a key's entry is dropped by one caller      *)
(* while a second is between its two steps and a third recreates it.       *)
(* There are as many entries as callers, so allocation never waits.        *)
(***************************************************************************)
EXTENDS KeyedMutex

ASSUME EnoughEntries == Cardinality(Entries) >= Cardinality(Procs)
=============================================================================
