--------------------------- MODULE MCCurlTransfer ---------------------------
EXTENDS CurlTransfer

AllConfigs == Config

=============================================================================
