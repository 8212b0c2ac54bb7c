---------------------------- MODULE MCDiscovery ----------------------------
EXTENDS Discovery

CONSTANTS k1, k2, p1, p2

MCKeys == {k1, k2}
MCReaders == <<k1, k2>>
MCPaths == {p1, p2}
=============================================================================
