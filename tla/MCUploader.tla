----------------------------- MODULE MCUploader -----------------------------
(***************************************************************************)
(* Uploader for TLC: two files of two buffers, under all four combinations *)
(* of the options or, for the counterexample, with encryption alone.       *)
(***************************************************************************)
EXTENDS Uploader

AllOptions  == Option
CryptedOnly == {[crypted |-> TRUE, forceMd5 |-> FALSE]}
=============================================================================
