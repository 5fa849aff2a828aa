----------------------------- MODULE MCRealtime -----------------------------
(* Two transcripts and a response of one session, two worker threads.      *)
EXTENDS Realtime
=============================================================================
