----------------------------- MODULE MCClients -----------------------------
(* Two brokers, a producer and a consumer. *)
EXTENDS Clients

CONSTANTS latest, no_key

=============================================================================
