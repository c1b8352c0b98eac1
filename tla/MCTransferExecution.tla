------------------------ MODULE MCTransferExecution ------------------------
(***************************************************************************)
(* TransferExecution for TLC: the plans of a small instance.               *)
(***************************************************************************)
EXTENDS TransferExecution

\* No step (a route that yields none), and each way of tracking, with and
\* without a step before it.
SmallPlans == {<<>>, <<"multi">>, <<"none", "single">>}

============================================================================
