------------------------------ MODULE MCNodeDB ------------------------------
(* A small instance of NodeDB.  With Prefetch = 5 the iterator of deleteNode gives *)
(* all keys of the remote node while one of the six is missing, and passes over    *)
(* its first one when the database has all.                                        *)
EXTENDS NodeDB

CONSTANTS a, self

FieldOrder(f) == CASE f = "discover" -> 1 [] f = "findfail" -> 2
                   [] f = "lastping" -> 3 [] f = "lastpong" -> 4

MCOrder(k) ==
  IF k = VersionKey THEN 9 ELSE FieldOrder(k[2]) + IF k[1] = a THEN 0 ELSE 4
=============================================================================
