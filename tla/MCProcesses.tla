---------------------------- MODULE MCProcesses ----------------------------
EXTENDS Processes
=============================================================================
