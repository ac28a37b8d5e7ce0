--------------------------- MODULE MCPlatformAdmin ---------------------------
\* PlatformAdmin on the small instances of the .cfg files.
EXTENDS PlatformAdmin
=============================================================================
