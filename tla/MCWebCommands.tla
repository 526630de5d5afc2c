--------------------------- MODULE MCWebCommands ---------------------------
(* Small instances of WebCommands; the configurations give the bounds.       *)
EXTENDS WebCommands

=============================================================================
