----------------------------- MODULE ParseResult ----------------------------
(***************************************************************************)
(* What Parser promises: a file is parsed to the module it declares or, if *)
(* anything is wrong with it, to one of the errors it deserves.  How the   *)
(* bytes arrive, how many threads lower its functions and in which order   *)
(* they finish makes no difference.                                        *)
(***************************************************************************)
EXTENDS WasmBinary

VARIABLES file, options, outcome

Pending == [error |-> Error("pending")]

Init == file \in Files /\ options \in Options /\ outcome = Pending

Parse ==
  /\ outcome = Pending
  /\ outcome' \in Outcomes(file, options)
  /\ UNCHANGED <<file, options>>

Spec == Init /\ [][Parse]_<<file, options, outcome>>

=============================================================================
