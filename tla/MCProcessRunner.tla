---------------------------- MODULE MCProcessRunner ----------------------------
EXTENDS ProcessRunner
=============================================================================
