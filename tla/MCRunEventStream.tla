--------------------------- MODULE MCRunEventStream ---------------------------
(* One run, three connections of which two may be open at once, pages of two  *)
(* events, and a lease that outlives its stream by one unit of time.          *)
EXTENDS RunEventStream
===============================================================================
