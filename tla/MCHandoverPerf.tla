---------------------------- MODULE MCHandoverPerf ----------------------------
EXTENDS HandoverPerf

MCPrograms == {"lfs", "fat"}

\* A shorter and a longer file of an earlier run.
MCLeftovers == {<<9>>, <<9, 9, 9, 9>>}
=============================================================================
