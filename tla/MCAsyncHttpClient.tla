--------------------------- MODULE MCAsyncHttpClient ---------------------------
(* Two requests and two descriptors: a connection from the pool, a retry and  *)
(* a time-out of one request meet those of the other.                        *)
EXTENDS AsyncHttpClient
=============================================================================
