----------------------------- MODULE MCHandler -----------------------------
EXTENDS Handler
=============================================================================
