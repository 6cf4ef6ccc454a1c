------------------------ MODULE MCRandomPermutations ------------------------
(***************************************************************************)
(* RandomPermutations with two history variables that keep the arrays as   *)
(* they were when no call was running: through them every call is one      *)
(* atomic step of AbstractPermutations.                                    *)
(***************************************************************************)
EXTENDS RandomPermutations

VARIABLES lastrows, lastcols

mcvars == <<vars, lastrows, lastcols>>

MCInit == Init /\ lastrows = randrows /\ lastcols = randcols

MCNext ==
  /\ Next
  /\ lastrows' = IF pc' = "idle" THEN randrows' ELSE lastrows
  /\ lastcols' = IF pc' = "idle" THEN randcols' ELSE lastcols

MCSpec == MCInit /\ [][MCNext]_mcvars

Abstract == INSTANCE AbstractPermutations
              WITH randrows <- lastrows, randcols <- lastcols

\* Seen from its callers RandomPermutationsInitialize is atomic: a call either
\* leaves both arrays alone or replaces a prefix of each by a permutation.
CallIsAtomic == Abstract!Spec
=============================================================================
