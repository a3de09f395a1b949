------------------------ MODULE MCExpansionTransport ------------------------
(* The transport on small instances; the bounds are in the configurations.   *)
EXTENDS ExpansionTransport

Rates   == <<"230400", "9600">>
OneRate == <<"9600">>
=============================================================================
