----------------------------- MODULE MCEndpoint -----------------------------
(* Endpoint as the client and as the server, the client with two           *)
(* connections one after the other and one retry.                          *)
EXTENDS Endpoint
=============================================================================
