----------------------------- MODULE MCErrorState -----------------------------
(* ErrorState has no constants: every class and number of error the code tells *)
(* apart, and any number of calls.                                             *)
EXTENDS ErrorState
===============================================================================
