---------------------------- MODULE MCApiServer ----------------------------
(* Small instances of ApiServer for TLC                                    *)
EXTENDS ApiServer

(* The keys of the connections, one for each number of clients             *)
Keys == 0..(Cardinality(Client) - 1)
=============================================================================
