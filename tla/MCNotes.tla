------------------------------ MODULE MCNotes ------------------------------
EXTENDS Notes, TLC
=============================================================================
