------------------------------- MODULE MCApprovals -------------------------------
EXTENDS Approvals
=================================================================================
