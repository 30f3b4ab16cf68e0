----------------------------- MODULE MCExecute ------------------------------
(***************************************************************************)
(* An instance of a whole call for TLC.  The end of the caller's context   *)
(* multiplies the states by seventeen, so it is met by commands that print *)
(* nothing; module Program has it together with output, for one command.   *)
(***************************************************************************)
EXTENDS Execute

\* Bound: no behaviour has both the end of the context and output.  Neither is a step the
\* fairness asks for, so that what is left is behaviours of FairExecute.
QuietIfCancelled ==
  ctx = "done" => \A s \in Stages : wrote[s] = 0 /\ errCp[s] # "write"
=============================================================================
