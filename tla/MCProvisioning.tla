--------------------------- MODULE MCProvisioning ---------------------------
(* Provisioning with a command of two characters in a buffer of four.      *)
EXTENDS Provisioning

MCCommand == <<"p", "a">>

=============================================================================
