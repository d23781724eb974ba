----------------------------- MODULE FrameParser -----------------------------
(***************************************************************************)
(* stm32::FrameParser (src/stm32/protocol.cpp): frames are cut out of the  *)
(* UART's byte stream, which comes in pieces, with noise and with start    *)
(* bytes inside payloads, and is cut off when the port is reopened.        *)
(*                                                                         *)
(*    start | start | version | ... | length | payload | checksum          *)
(*                                                                         *)
(* received is everything the port ever delivered and base how much of it  *)
(* is erased, so that buffer_ is received[base + 1], received[base + 2]... *)
(* The sizes, the field decoder and the checksum are parameters: with 10,  *)
(* 4, two little-endian bytes and CRC-32 they are those of the code.       *)
(***************************************************************************)
EXTENDS Naturals, Sequences

CONSTANTS Byte,           \* values of a byte
          Start1, Start2, \* 0xaa, 0x55
          Version,        \* 1
          HeaderSize,     \* bytes up to the end of the length field: 10
          TrailerSize,    \* bytes of the checksum: 4
          MaxPayload,     \* max_payload
          LengthOf(_),    \* the length field of a header
          Checksum(_),    \* crc32, as the bytes that are sent
          MaxBytes,       \* bound: bytes the port delivers
          ResetWithin     \* bound: bytes after which the port stays open

VARIABLES received,  \* the bytes delivered so far
          base,      \* how many of them were erased from buffer_
          candidate, \* candidate_ and how long it has been one
          pc,        \* inside parse, or waiting for feed
          delivered, \* history: where the frames returned by feed start
          expired,   \* history: candidates that timed out, and when
          before     \* history: how many bytes came before the last reset

vars == <<received, base, candidate, pc, delivered, expired, before>>

ASSUME ParserAssumption ==
  /\ HeaderSize \in Nat /\ HeaderSize > 2
  /\ TrailerSize \in Nat /\ MaxPayload \in Nat
  /\ \A header \in [1..HeaderSize -> Byte] : LengthOf(header) \in Nat
  /\ MaxBytes \in Nat /\ ResetWithin \in Nat

Init ==
  /\ received = <<>> /\ base = 0
  /\ candidate = "none" /\ pc = "idle"
  /\ delivered = {} /\ expired = {} /\ before = 0

History == <<delivered, expired, before>>

-----------------------------------------------------------------------------
\* What parse asks of the bytes from position p on.

Have(p, count) == p + count <= Len(received) + 1

Bytes(p, count) == [i \in 1..count |-> received[p + i - 1]]

BadStart(p) ==
  \/ Have(p, 1) /\ received[p] # Start1
  \/ Have(p, 2) /\ received[p + 1] # Start2

BadVersion(p) == Have(p, 3) /\ received[p + 2] # Version

Length(p) == LengthOf(Bytes(p, HeaderSize))

BadLength(p) == Have(p, HeaderSize) /\ Length(p) > MaxPayload

Size(p) == HeaderSize + Length(p) + TrailerSize

Complete(p) == Have(p, HeaderSize) /\ Have(p, Size(p))

\* The checksum covers everything but the start bytes and itself.
BadChecksum(p) ==
  /\ Complete(p)
  /\ Checksum(Bytes(p + 2, HeaderSize - 2 + Length(p)))
       # Bytes(p + HeaderSize + Length(p), TrailerSize)

Candidate == base + 1

-----------------------------------------------------------------------------
\* FrameParser::parse, one iteration of its loop per step

Erase(count) == base' = base + count /\ candidate' = "none"

Parsing == pc = "parse" /\ base < Len(received)

Skip ==
  /\ Parsing /\ BadStart(Candidate)
  /\ Erase(1)
  /\ UNCHANGED <<received, pc, History>>

\* Mutant: what has timed out goes as a whole.
Expire_All ==
  /\ Parsing /\ ~BadStart(Candidate) /\ candidate = "old"
  /\ Erase(Len(received) - base)
  /\ expired' = expired \cup {<<Candidate, Len(received)>>}
  /\ UNCHANGED <<received, pc, delivered, before>>

\* now - candidate_since_ >= timeout_
Expire ==
  /\ Parsing /\ ~BadStart(Candidate) /\ candidate = "old"
  /\ Erase(1)
  /\ expired' = expired \cup {<<Candidate, Len(received)>>}
  /\ UNCHANGED <<received, pc, delivered, before>>

\* Version, length or checksum are wrong: the next byte may start a frame.
Reject ==
  /\ Parsing /\ ~BadStart(Candidate) /\ candidate # "old"
  /\ BadVersion(Candidate) \/ BadLength(Candidate) \/ BadChecksum(Candidate)
  /\ Erase(1)
  /\ UNCHANGED <<received, pc, History>>

Acceptable(p) == ~BadStart(p) /\ ~BadVersion(p) /\ ~BadLength(p) /\ ~BadChecksum(p)

Deliver ==
  /\ Parsing /\ Acceptable(Candidate) /\ candidate # "old"
  /\ Complete(Candidate)
  /\ delivered' = delivered \cup {Candidate}
  /\ Erase(Size(Candidate))
  /\ UNCHANGED <<received, pc, expired, before>>

\* parse returns: the candidate is marked and more bytes are needed, or the
\* buffer is empty.
NeedMore ==
  /\ Parsing /\ Acceptable(Candidate) /\ candidate # "old"
  /\ ~Complete(Candidate)
  /\ candidate' = "young" /\ pc' = "idle"
  /\ UNCHANGED <<received, base, History>>

Drained ==
  /\ pc = "parse" /\ base = Len(received)
  /\ pc' = "idle"
  /\ UNCHANGED <<received, base, candidate, History>>

Parse == Skip \/ Expire \/ Reject \/ Deliver \/ NeedMore \/ Drained

-----------------------------------------------------------------------------
\* feed, reset and the clock

\* Mutant: feed does nothing without new bytes.
Poll_NeedsBytes == FALSE /\ UNCHANGED vars

\* feed begins with parse(frames, now), which has something to do only when
\* the candidate has become too old.
Poll ==
  /\ pc = "idle" /\ candidate = "old"
  /\ pc' = "parse"
  /\ UNCHANGED <<received, base, candidate, History>>

\* One round of feed's loop.
Push(byte) ==
  /\ pc = "idle" /\ candidate # "old"
  /\ Len(received) < MaxBytes
  /\ received' = Append(received, byte)
  /\ pc' = "parse"
  /\ UNCHANGED <<base, candidate, History>>

\* timeout_ goes by between two calls of feed.
Elapse ==
  /\ pc = "idle" /\ candidate = "young"
  /\ candidate' = "old"
  /\ UNCHANGED <<received, base, pc, History>>

\* The history of expired candidates ends with the connection.
NewConnection ==
  /\ before' = Len(received) /\ expired' = {}
  /\ UNCHANGED <<received, pc, delivered>>

\* Mutant: the candidate is forgotten, its bytes are not.
Reset_KeepsBuffer ==
  /\ pc = "idle" /\ Len(received) <= ResetWithin
  /\ candidate' = "none"
  /\ NewConnection
  /\ UNCHANGED base

\* serial_loop resets the parser when a port fails and when it is opened.
Reset ==
  /\ pc = "idle" /\ Len(received) <= ResetWithin
  /\ base' = Len(received) /\ candidate' = "none"
  /\ NewConnection

Next == Parse \/ Poll \/ Elapse \/ Reset \/ \E byte \in Byte : Push(byte)

\* serial_loop reads the port with a timeout of 20 ms and calls feed with
\* whatever came, nothing included; the clock runs.
Fairness == WF_vars(Parse) /\ WF_vars(Poll) /\ WF_vars(Elapse)

Spec == Init /\ [][Next]_vars /\ Fairness

-----------------------------------------------------------------------------
TypeOK ==
  /\ received \in Seq(Byte)
  /\ base \in 0..Len(received)
  /\ candidate \in {"none", "young", "old"}
  /\ pc \in {"idle", "parse"}
  /\ delivered \subseteq 1..base
  /\ expired \in SUBSET (Nat \X Nat)
  /\ before \in 0..base

\* A whole frame with nothing wrong in it.
Intact(p) == Complete(p) /\ Acceptable(p)

EndOf(p) == p + Size(p) - 1

\* buffer_ never outgrows what the constructor reserves for it, the largest
\* frame, whatever lengths noise seems to announce.
BufferFits == Len(received) - base <= HeaderSize + MaxPayload + TrailerSize

\* Every frame that feed returns is whole and right, no byte belongs to two of
\* them, and none is put together from bytes of two connections.
DeliveredAreSound ==
  \A d \in delivered :
    /\ Intact(d) /\ EndOf(d) <= base
    /\ \A e \in delivered : d < e => EndOf(d) < e
    /\ EndOf(d) <= before \/ d > before

\* Resynchronisation: wherever noise, broken frames and timeouts were, a frame
\* of this connection that arrived intact is returned, unless it begins within
\* another one that was, or the last of it came only after the timeout.
\* In particular a whole frame waiting behind a false start is never timed out.
NoIntactFrameIsLost ==
  \A p \in (before + 1)..base :
    Intact(p) =>
      \/ \E d \in delivered : d <= p /\ p <= EndOf(d)
      \/ \E x \in expired : x[1] = p /\ x[2] < EndOf(p)

\* A silent line empties the buffer: no false start holds the bytes behind it
\* for ever.
SilenceEmptiesBuffer == []<>(base = Len(received))
=============================================================================
