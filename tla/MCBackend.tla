------------------------------ MODULE MCBackend ------------------------------
(* Backend with two formats and times of one or two units each: the order  *)
(* of the deadlines is the code's (a retry shorter than the cleanup budget, *)
(* an extension shorter than the total, a pause before the release).       *)
EXTENDS Backend
=============================================================================
