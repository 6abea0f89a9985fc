--------------------------- MODULE MCClientSession ---------------------------
\* Two requests at a time of a client that two people use one after the other.
EXTENDS ClientSession

=============================================================================
