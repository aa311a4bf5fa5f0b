------------------------------ MODULE MCTshark ------------------------------
(* nmdb-import-tshark for TLC; the .cfg files give the captures.           *)
EXTENDS TsharkImport
=============================================================================
