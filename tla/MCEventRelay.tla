------------------------------ MODULE MCEventRelay ------------------------------
EXTENDS EventRelay
================================================================================
