--------------------------- MODULE MCSyncSession ---------------------------
EXTENDS SyncSession
CONSTANTS p, q
MCPaths == {p, q}
=============================================================================
