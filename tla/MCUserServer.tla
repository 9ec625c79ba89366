---------------------------- MODULE MCUserServer ----------------------------
EXTENDS UserServer
=============================================================================
