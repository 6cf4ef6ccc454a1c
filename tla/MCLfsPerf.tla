------------------------------ MODULE MCLfsPerf ------------------------------
EXTENDS LfsPerf

\* The volume has room for the first file and not for the second; of the second
\* the smaller blocks make a matrix of too many rows.  The largest block is
\* larger than the first file and than the buffer.
MCFileLengths == <<4, 8>>
MCBlockLengths == <<1, 2, 8>>

\* A file that fills the volume and is longer than the first.
MCLeftovers == {<<9, 9, 9, 9, 9>>}
=============================================================================
