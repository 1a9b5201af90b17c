--------------------------- MODULE MCGatewayLease ---------------------------
EXTENDS GatewayLease
=============================================================================
