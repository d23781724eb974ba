---------------------------- MODULE MCFrameParser ----------------------------
(* Instances of FrameParser for TLC. *)
EXTENDS FrameParser, SequencesExt
\* A header of start, start, version, length and a checksum of one byte.  A
\* payload of five bytes is as long as a frame without one.
FiveTimes(header) == 5 * header[4]
SumOfBytes(bytes) == <<FoldSeq(+, 0, bytes) % 3>>
=============================================================================
