--------------------------- MODULE MCAccountSync ---------------------------
EXTENDS AccountSync
=============================================================================
