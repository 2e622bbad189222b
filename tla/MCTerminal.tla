----------------------------- MODULE MCTerminal -----------------------------
(* An instance of Terminal for TLC; its constants are small numbers.        *)
EXTENDS Terminal
=============================================================================
