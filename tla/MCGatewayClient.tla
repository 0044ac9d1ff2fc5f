--------------------------- MODULE MCGatewayClient ---------------------------
EXTENDS GatewayClient
=============================================================================
