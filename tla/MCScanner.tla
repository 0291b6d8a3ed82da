----------------------------- MODULE MCScanner -------------------------------
(* The scanner with one strike pair, priced from two of its tokens.          *)
EXTENDS Scanner, TLC

ScannerLegs == "u" :> {1, 2}
=============================================================================
