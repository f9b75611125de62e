----------------------------- MODULE StoreCalls -----------------------------
(***************************************************************************)
(* The calls of orchestration/store.py: save, get and all.                 *)
(***************************************************************************)
CONSTANTS
  Threads,    \* those that call the store
  RunIds,
  Payloads,   \* what model_dump makes of a run
  None        \* no payload under an id; no call

Saves == [op : {"save"}, id : RunIds, payload : Payloads]
Gets  == [op : {"get"}, id : RunIds]
Alls  == [op : {"all"}]
Calls == Saves \cup Gets \cup Alls

\* What a call returns of the dictionary of all runs; save returns nothing.
NothingSeen == [r \in {} |-> None]

Reads(c, items) ==
  CASE c.op = "get" -> [r \in {c.id} |-> items[r]]
    [] c.op = "all" -> items
    [] OTHER        -> NothingSeen

=============================================================================
