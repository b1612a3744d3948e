---------------------------- MODULE MCScannerLock ----------------------------
(* Small instances of ScannerLock for TLC. *)
EXTENDS ScannerLock
=============================================================================
