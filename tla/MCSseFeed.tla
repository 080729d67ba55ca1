------------------------------ MODULE MCSseFeed ------------------------------
(* SseFeed on a small instance: the constants are in the .cfg file.        *)
EXTENDS SseFeed
=============================================================================
