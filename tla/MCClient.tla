------------------------------- MODULE MCClient -------------------------------
\* TLC instance of the client.
EXTENDS Client
=============================================================================
