----------------------------- MODULE MCLiveQuote -----------------------------
(* Instances of LiveQuote for TLC. *)
EXTENDS LiveQuote

Venues == <<"xbull", "aquarius", "stellarbroker">>
=============================================================================
