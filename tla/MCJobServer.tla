----------------------------- MODULE MCJobServer -----------------------------
EXTENDS JobServer
=============================================================================
