--------------------------- MODULE MCProcessTable ---------------------------
(* The process table on a small instance: see the README for the bounds.     *)
EXTENDS ProcessTable

\* An ordinary exit code and a failure.
MCExitCodes == {0, 7}
=============================================================================
