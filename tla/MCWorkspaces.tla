------------------------------ MODULE MCWorkspaces ------------------------------
(* A tool's caller and a CLI session on one task.                          *)
EXTENDS Workspaces
================================================================================
