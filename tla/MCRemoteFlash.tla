--------------------------- MODULE MCRemoteFlash ---------------------------
EXTENDS RemoteFlash
=============================================================================
