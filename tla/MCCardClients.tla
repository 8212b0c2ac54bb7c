---------------------------- MODULE MCCardClients ----------------------------
EXTENDS CardClients

CONSTANTS p, a, b

MCFilePaths == {p}
MCChunks == {a, b}

\* An empty file, and one of two chunks that differ.
MCContents == {<<>>, <<a, b>>}
=============================================================================
