---------------------------- MODULE MCLiveSession ----------------------------
(* LiveSession for TLC: the bounds are in live_session.cfg.                *)
EXTENDS LiveSession
=============================================================================
