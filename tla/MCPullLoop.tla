------------------------------ MODULE MCPullLoop ------------------------------
(* The pull loop for TLC; the configurations give the constants numbers.     *)
EXTENDS PullLoop

=============================================================================
