----------------------------- MODULE OptionNone -----------------------------
(* Option::None, shared by the modules that model an Option field, so     *)
(* that a model composing them has one None.                              *)
CONSTANT None
=============================================================================
