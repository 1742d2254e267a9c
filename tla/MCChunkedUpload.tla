--------------------------- MODULE MCChunkedUpload --------------------------
\* A file of three chunks and one of a single chunk, which is sent without a number.
EXTENDS ChunkedUpload
CONSTANTS f1, f2

MCFiles == {f1, f2}
MCChunks == [f \in MCFiles |-> IF f = f1 THEN 3 ELSE 1]
=============================================================================
