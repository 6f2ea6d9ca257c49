--------------------------- MODULE MCVoiceControl ---------------------------
(* A MySQL server between two Linux servers, so that a loop can meet it first, *)
(* in the middle or not at all.                                                *)
EXTENDS VoiceControl

MCStored == <<"web", "db", "mail">>
MCMySQL == {"db"}
=============================================================================
