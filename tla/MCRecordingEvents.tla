------------------------- MODULE MCRecordingEvents -------------------------
(* Instances of RecordingEvents for TLC. *)
EXTENDS RecordingEvents

\* Either the recorder writes or the detector reports: the worker does one
\* thing at a time, and the two share nothing but its steps.
OneAtATime == {{"recorder"}, {"detector"}}
=============================================================================
