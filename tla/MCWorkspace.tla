------------------------------ MODULE MCWorkspace ------------------------------
EXTENDS Workspace
=============================================================================
