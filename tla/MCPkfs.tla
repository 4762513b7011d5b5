-------------------------------- MODULE MCPkfs --------------------------------
EXTENDS Pkfs
=============================================================================
