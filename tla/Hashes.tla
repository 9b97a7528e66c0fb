------------------------------- MODULE Hashes -------------------------------
(***************************************************************************)
(* The hashes that topics are made of.  They are words, and nothing else   *)
(* is said of them.                                                        *)
(***************************************************************************)

CONSTANTS
  Keccak(_),        \* the hash of bytes, by Keccak256::digest
  Signature(_, _)   \* the hash of an event's name and types
=============================================================================
