--------------------------- MODULE MCConnectionPool ---------------------------
(* Small pools and the calls that compete for them. *)
EXTENDS ConnectionPool, TLC

CONSTANTS c1, c2, c3, c4, c5

(* Two creations, two queries and a transaction, for three connections. *)
Mixed == (c1 :> "createEvent") @@ (c2 :> "createEvent") @@ (c3 :> "query")
         @@ (c4 :> "query") @@ (c5 :> "transaction")

Creations == (c1 :> "createEvent") @@ (c2 :> "createEvent")
=============================================================================
