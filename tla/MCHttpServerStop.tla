--------------------------- MODULE MCHttpServerStop ---------------------------
(* A server with three worker threads. *)
EXTENDS HttpServerStop
=============================================================================
