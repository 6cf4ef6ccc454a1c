------------------------------ MODULE MCFatPerf ------------------------------
EXTENDS FatPerf

\* As in the program's list the same file first sequentially, then at random.
\* The first file fits on the card of 5 units.  The block of the third
\* configuration exceeds the buffer.  The last files do not fit: with blocks of
\* 5 a write stores nothing, and random access meets a file that stayed short;
\* with blocks of 2 a write may store a part of its block.
MCConfigs ==
  <<[file |-> 4, block |-> 1, random |-> FALSE],
    [file |-> 4, block |-> 1, random |-> TRUE],
    [file |-> 6, block |-> 6, random |-> TRUE],
    [file |-> 20, block |-> 5, random |-> FALSE],
    [file |-> 20, block |-> 5, random |-> TRUE],
    [file |-> 8, block |-> 2, random |-> TRUE]>>

\* One sequential configuration, for the questions about writing alone.
MCSequential == <<[file |-> 2, block |-> 1, random |-> FALSE]>>

\* Two shorter and a longer file of an earlier run.
MCLeftovers == {<<9>>, <<9, 9>>, <<9, 9, 9, 9, 9>>}
=============================================================================
