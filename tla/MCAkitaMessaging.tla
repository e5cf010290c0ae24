-------------------------- MODULE MCAkitaMessaging ---------------------------
(* Two agents, one-message buffers, so that every port and end gets full. *)
EXTENDS AkitaMessaging
==============================================================================
