------------------------- MODULE MCWebsocketGateway -------------------------
(* Small instances of WebsocketGateway for TLC. *)
EXTENDS WebsocketGateway, TLC

(* Sockets, slots and users are interchangeable. *)
Symmetry ==
    Permutations(Clients) \cup Permutations(Slots) \cup Permutations(Users)
=============================================================================
