----------------------------- MODULE MCProductRun -----------------------------
(***************************************************************************)
(* ProductRun for TLC.                                                      *)
(***************************************************************************)
EXTENDS ProductRun

MCUmiChoices == {<<"left">>, <<"left", "right">>}

=============================================================================
