--------------------------- MODULE MCSessionTokens ----------------------------
EXTENDS SessionTokens
=============================================================================
