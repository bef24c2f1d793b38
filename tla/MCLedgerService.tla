-------------------------- MODULE MCLedgerService --------------------------
(***************************************************************************)
(* Model checking of LedgerService on small instances.                      *)
(***************************************************************************)
EXTENDS LedgerService

T == INSTANCE TLC

\* Interchangeable requests and values; agents are not, some are uuids.
Interchangeable == T!Permutations(Workers) \cup T!Permutations(Values)
=============================================================================
