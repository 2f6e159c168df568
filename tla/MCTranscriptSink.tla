-------------------------- MODULE MCTranscriptSink --------------------------
(***************************************************************************)
(* TranscriptSink with a queue of one, two attempts and two payloads: one  *)
(* item in hand, one waiting and a third to overflow, so that an event can *)
(* be repeated with another payload and a close can find all of it.        *)
(***************************************************************************)
EXTENDS TranscriptSink
=============================================================================
