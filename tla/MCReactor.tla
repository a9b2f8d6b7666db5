----------------------------- MODULE MCReactor -----------------------------
(* Reactor for TLC, and what the repository says of it. *)
EXTENDS Reactor

\* Every response a client receives answers one of its own requests, as
\* replica_manager.hpp says of a deferred ACK: it "is sent back to the
\* producer".  drain_response_queue finds the connection by descriptor number.
DeferredToItsProducer ==
  \A c \in Clients : \A i \in DOMAIN received[c] : received[c][i].client = c

=============================================================================
