---------------------------- MODULE MC_OptionNone ----------------------------
(* The model value that stands for Option::None in every model.           *)
CONSTANT NoneV
=============================================================================
