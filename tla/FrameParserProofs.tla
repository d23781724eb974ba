-------------------------- MODULE FrameParserProofs --------------------------
(***************************************************************************)
(* Theorems about FrameParser for streams of any length, any field sizes,  *)
(* any length decoder and any checksum.                                    *)
(***************************************************************************)
EXTENDS FrameParser, TLAPS

\* Nothing from p on can become a frame any more.
Rejected(p) == BadStart(p) \/ BadVersion(p) \/ BadLength(p) \/ BadChecksum(p)

\* Between two calls of feed the buffer is empty or begins with a candidate
\* that is neither refuted nor complete; only such a candidate grows old.
HeldIsUndecided ==
  /\ pc = "idle" => base = Len(received) \/ candidate # "none"
  /\ candidate # "none" =>
       base < Len(received) /\ (candidate = "old" \/ pc = "idle" =>
         Acceptable(Candidate) /\ ~Complete(Candidate))

\* Why an erased byte began no frame: it lies within one that was returned, it
\* timed out before all of its frame was there, or it never can begin one.
ErasedForAReason ==
  \A p \in (before + 1)..base :
    \/ \E d \in delivered : d <= p /\ p <= EndOf(d)
    \/ \E x \in expired : x[1] = p /\ x[2] <= Len(received)
                          /\ (Have(p, HeaderSize) => x[2] < EndOf(p))
    \/ Rejected(p)

\* The inductive invariant.
ParserOK ==
  /\ TypeOK
  /\ HeldIsUndecided
  /\ DeliveredAreSound
  /\ ErasedForAReason

-----------------------------------------------------------------------------
\* What parse concludes from some bytes stays true when more of them arrive.

LEMMA BytesStay ==
  ASSUME TypeOK, NEW byte \in Byte, received' = Append(received, byte),
         NEW p \in Nat, NEW count \in Nat, p > 0, Have(p, count)
  PROVE  Have(p, count)' /\ Bytes(p, count)' = Bytes(p, count)
<1>1. Len(received') = Len(received) + 1
  BY DEF TypeOK
<1>2. \A i \in 1..count : received'[p + i - 1] = received[p + i - 1]
  BY DEF TypeOK, Have
<1> QED
  BY <1>1, <1>2 DEF Have, Bytes, TypeOK

LEMMA LengthIsNat ==
  ASSUME TypeOK, NEW p \in Nat, p > 0, Have(p, HeaderSize)
  PROVE  Length(p) \in Nat
<1>1. Bytes(p, HeaderSize) \in [1..HeaderSize -> Byte]
  BY ParserAssumption DEF TypeOK, Have, Bytes
<1> QED
  BY <1>1, ParserAssumption DEF Length

LEMMA LengthStays ==
  ASSUME TypeOK, NEW byte \in Byte, received' = Append(received, byte),
         NEW p \in Nat, p > 0, Have(p, HeaderSize)
  PROVE  /\ Have(p, HeaderSize)'
         /\ Length(p)' = Length(p) /\ Size(p)' = Size(p) /\ EndOf(p)' = EndOf(p)
<1>1. Have(p, HeaderSize)' /\ Bytes(p, HeaderSize)' = Bytes(p, HeaderSize)
  BY BytesStay, ParserAssumption
<1> QED
  BY <1>1 DEF Length, Size, EndOf

LEMMA VerdictsStay ==
  ASSUME TypeOK, NEW byte \in Byte, received' = Append(received, byte),
         NEW p \in Nat, p > 0
  PROVE  /\ BadStart(p) => BadStart(p)'
         /\ BadVersion(p) => BadVersion(p)'
         /\ BadLength(p) => BadLength(p)'
         /\ Complete(p) => Complete(p)' /\ (BadChecksum(p)' <=> BadChecksum(p))
         /\ Intact(p) => Intact(p)'
<1> USE ParserAssumption
<1>1. /\ Len(received') = Len(received) + 1
      /\ \A i \in 1..Len(received) : received'[i] = received[i]
  BY DEF TypeOK
<1>2. BadStart(p) => BadStart(p)'
  BY <1>1 DEF BadStart, Have, TypeOK
<1>3. BadVersion(p) => BadVersion(p)'
  BY <1>1 DEF BadVersion, Have, TypeOK
<1>4. BadLength(p) => BadLength(p)'
  BY LengthStays DEF BadLength
<1>5. ASSUME Complete(p)
      PROVE  /\ Complete(p)'
             /\ BadChecksum(p)' <=> BadChecksum(p)
             /\ Length(p)' = Length(p) /\ Have(p, HeaderSize)'
  <2>1. /\ Have(p, HeaderSize) /\ Have(p, HeaderSize)' /\ Length(p) \in Nat
        /\ Length(p)' = Length(p) /\ Size(p)' = Size(p)
    BY <1>5, LengthStays, LengthIsNat DEF Complete
  <2>2. Have(p, Size(p)) /\ Have(p, Size(p))'
    BY <1>1, <1>5, <2>1 DEF Complete, Have, Size, TypeOK
  <2>3. /\ Have(p + 2, HeaderSize - 2 + Length(p))
        /\ Have(p + HeaderSize + Length(p), TrailerSize)
    BY <2>1, <2>2 DEF Have, Size, TypeOK
  <2>4. /\ p + 2 \in Nat /\ HeaderSize - 2 + Length(p) \in Nat
        /\ p + HeaderSize + Length(p) \in Nat
        /\ p + 2 > 0 /\ p + HeaderSize + Length(p) > 0
    BY <2>1
  <2>5. Bytes(p + 2, HeaderSize - 2 + Length(p))'
          = Bytes(p + 2, HeaderSize - 2 + Length(p))
    <3>1. Bytes(p + 2, HeaderSize - 2 + Length(p))'
            = [i \in 1..(HeaderSize - 2 + Length(p)) |-> received'[p + 2 + i - 1]]
      BY <2>1 DEF Bytes
    <3>2. \A i \in 1..(HeaderSize - 2 + Length(p)) :
            received'[p + 2 + i - 1] = received[p + 2 + i - 1]
      BY <1>1, <2>3, <2>4 DEF Have, TypeOK
    <3> QED
      BY <3>1, <3>2 DEF Bytes
  <2>6. Bytes(p + HeaderSize + Length(p), TrailerSize)'
          = Bytes(p + HeaderSize + Length(p), TrailerSize)
    <3>1. Bytes(p + HeaderSize + Length(p), TrailerSize)'
            = [i \in 1..TrailerSize |-> received'[p + HeaderSize + Length(p) + i - 1]]
      BY <2>1 DEF Bytes
    <3>2. \A i \in 1..TrailerSize :
            received'[p + HeaderSize + Length(p) + i - 1]
              = received[p + HeaderSize + Length(p) + i - 1]
      <4>1. \A q \in Nat : q > 0 /\ Have(q, TrailerSize) =>
              \A i \in 1..TrailerSize : received'[q + i - 1] = received[q + i - 1]
        BY <1>1 DEF Have, TypeOK
      <4> QED
        BY <2>3, <2>4, <4>1
    <3> QED
      BY <3>1, <3>2 DEF Bytes
  <2> QED
    BY <1>5, <2>1, <2>2, <2>5, <2>6 DEF Complete, BadChecksum
<1>6. Intact(p) => Intact(p)'
  <2> SUFFICES ASSUME Intact(p) PROVE Intact(p)'
    OBVIOUS
  <2>1. Complete(p) /\ Acceptable(p)
    BY DEF Intact
  <2>2. ~BadStart(p)' /\ ~BadVersion(p)'
    BY <1>1, <2>1 DEF Acceptable, BadStart, BadVersion, Complete, Have, TypeOK
  <2>3. ~BadLength(p)'
    BY <1>5, <2>1 DEF Acceptable, BadLength, Complete
  <2> QED
    BY <1>5, <2>1, <2>2, <2>3 DEF Intact, Acceptable
<1> QED
  BY <1>2, <1>3, <1>4, <1>5, <1>6

-----------------------------------------------------------------------------
\* The invariant holds at first and after every step.

LEMMA ParserStarts == Init => ParserOK
BY ParserAssumption
   DEF Init, ParserOK, TypeOK, HeldIsUndecided, DeliveredAreSound, ErasedForAReason

LEMMA PushKeeps ==
  ASSUME ParserOK, NEW byte \in Byte, Push(byte)
  PROVE  ParserOK'
<1> USE ParserAssumption DEF ParserOK
<1>1. /\ received' = Append(received, byte) /\ Len(received') = Len(received) + 1
      /\ received' \in Seq(Byte)
      /\ UNCHANGED <<base, candidate, delivered, expired, before>>
      /\ pc = "idle" /\ pc' = "parse" /\ candidate # "old"
  BY DEF Push, History, TypeOK
<1>2. TypeOK'
  BY <1>1 DEF TypeOK
<1>3. HeldIsUndecided'
  BY <1>1 DEF HeldIsUndecided, TypeOK
<1>4. DeliveredAreSound'
  <2>1. ASSUME NEW d \in delivered
        PROVE  /\ Intact(d)' /\ EndOf(d)' = EndOf(d)
    <3>1. d \in Nat /\ d > 0 /\ Intact(d) /\ Have(d, HeaderSize)
      BY DEF DeliveredAreSound, TypeOK, Intact, Complete
    <3> QED
      BY <1>1, <3>1, VerdictsStay, LengthStays
  <2> QED
    BY <1>1, <2>1 DEF DeliveredAreSound
<1>5. ErasedForAReason'
  <2> SUFFICES ASSUME NEW p \in (before + 1)..base
               PROVE  \/ \E d \in delivered : d <= p /\ p <= EndOf(d)'
                      \/ \E x \in expired : x[1] = p /\ x[2] <= Len(received')
                            /\ (Have(p, HeaderSize)' => x[2] < EndOf(p)')
                      \/ Rejected(p)'
    BY <1>1 DEF ErasedForAReason
  <2>1. p \in Nat /\ p > 0
    BY DEF TypeOK
  <2>2. CASE \E d \in delivered : d <= p /\ p <= EndOf(d)
    <3>1. PICK d \in delivered : d <= p /\ p <= EndOf(d)
      BY <2>2
    <3>2. d \in Nat /\ d > 0 /\ Have(d, HeaderSize)
      BY DEF DeliveredAreSound, TypeOK, Intact, Complete
    <3> QED
      BY <1>1, <3>1, <3>2, LengthStays
  <2>3. CASE \E x \in expired : x[1] = p /\ x[2] <= Len(received)
                                /\ (Have(p, HeaderSize) => x[2] < EndOf(p))
    <3>1. PICK x \in expired : x[1] = p /\ x[2] <= Len(received)
                                /\ (Have(p, HeaderSize) => x[2] < EndOf(p))
      BY <2>3
    <3>2. x[2] \in Nat
      BY DEF TypeOK
    <3>3. CASE Have(p, HeaderSize)
      BY <1>1, <2>1, <3>1, <3>2, <3>3, LengthStays DEF TypeOK
    <3>4. CASE ~Have(p, HeaderSize)
      <4>1. x[2] < p + HeaderSize - 1
        BY <2>1, <3>1, <3>2, <3>4 DEF Have, TypeOK
      <4>2. ASSUME Have(p, HeaderSize)'
            PROVE  EndOf(p)' \in Nat /\ EndOf(p)' >= p + HeaderSize - 1
        <5>1. Length(p)' \in Nat
          <6>1. Bytes(p, HeaderSize)' \in [1..HeaderSize -> Byte]
            BY <1>2, <2>1, <4>2 DEF TypeOK, Have, Bytes
          <6> QED
            BY <6>1 DEF Length
        <5> QED
          BY <2>1, <5>1 DEF EndOf, Size
      <4>4. Have(p, HeaderSize)' => x[2] < EndOf(p)'
        BY <2>1, <3>2, <4>1, <4>2
      <4>5. x[2] <= Len(received')
        BY <1>1, <3>1, <3>2 DEF TypeOK
      <4> QED
        BY <3>1, <4>4, <4>5
    <3> QED
      BY <3>3, <3>4
  <2>4. CASE Rejected(p)
    BY <1>1, <2>1, <2>4, VerdictsStay DEF Rejected, BadChecksum
  <2> QED
    BY <2>2, <2>3, <2>4 DEF ErasedForAReason
<1> QED
  BY <1>2, <1>3, <1>4, <1>5

\* An erased byte that is refuted, or a candidate that timed out.
LEMMA EraseOneKeeps ==
  ASSUME ParserOK, Parsing, Erase(1),
         UNCHANGED <<received, pc, delivered, before>>,
         \/ Rejected(Candidate) /\ expired' = expired
         \/ /\ candidate = "old"
            /\ expired' = expired \cup {<<Candidate, Len(received)>>}
  PROVE  ParserOK'
<1> USE ParserAssumption DEF ParserOK
<1>1. /\ base' = base + 1 /\ candidate' = "none" /\ base + 1 \in 1..Len(received)
      /\ pc = "parse" /\ pc' = "parse" /\ expired \subseteq expired'
      /\ Len(received) \in Nat /\ base \in Nat
  BY DEF Parsing, Erase, TypeOK
<1>2. TypeOK'
  <2>1. expired' \in SUBSET (Nat \X Nat)
    BY <1>1 DEF TypeOK, Candidate
  <2> QED
    BY <1>1, <2>1 DEF TypeOK
<1>3. HeldIsUndecided'
  BY <1>1 DEF HeldIsUndecided
<1>4. /\ \A p, k \in Nat : Have(p, k)' <=> Have(p, k)
      /\ \A p \in Nat : /\ EndOf(p)' = EndOf(p) /\ (Intact(p)' <=> Intact(p))
                       /\ (Rejected(p)' <=> Rejected(p))
  BY DEF Have, EndOf, Size, Length, Bytes, Intact, Complete, Acceptable, Rejected,
         BadStart, BadVersion, BadLength, BadChecksum
<1>5. DeliveredAreSound'
  <2>1. ASSUME NEW d \in delivered PROVE EndOf(d) <= base + 1
    <3>1. EndOf(d) <= base /\ EndOf(d) \in Nat
      <4>1. d \in Nat /\ d > 0 /\ Have(d, HeaderSize) /\ EndOf(d) <= base
        BY DEF DeliveredAreSound, TypeOK, Intact, Complete
      <4> QED
        BY <4>1, LengthIsNat DEF EndOf, Size
    <3> QED
      BY <1>1, <3>1
  <2>2. delivered \subseteq Nat
    BY DEF TypeOK
  <2> QED
    BY <1>1, <1>4, <2>1, <2>2 DEF DeliveredAreSound
<1>6. ErasedForAReason'
  <2> SUFFICES ASSUME NEW p \in (before + 1)..(base + 1)
               PROVE  \/ \E d \in delivered : d <= p /\ p <= EndOf(d)
                      \/ \E x \in expired' : x[1] = p /\ x[2] <= Len(received)
                            /\ (Have(p, HeaderSize) => x[2] < EndOf(p))
                      \/ Rejected(p)
    <3>1. delivered \subseteq Nat /\ before \in Nat
      BY DEF TypeOK
    <3> QED
      BY <1>1, <1>4, <3>1 DEF ErasedForAReason
  <2>1. CASE p \in (before + 1)..base
    BY <1>1, <2>1 DEF ErasedForAReason
  <2>2. CASE p = Candidate /\ Rejected(Candidate)
    BY <2>2
  <2>3. CASE p = Candidate /\ candidate = "old"
                          /\ expired' = expired \cup {<<Candidate, Len(received)>>}
    <3>1. ~Complete(p)
      BY <2>3 DEF HeldIsUndecided
    <3>2. Have(p, HeaderSize) => Len(received) < EndOf(p)
      <4> SUFFICES ASSUME Have(p, HeaderSize) PROVE Len(received) < EndOf(p)
        OBVIOUS
      <4>1. p \in Nat /\ p > 0
        BY <1>1, <2>3 DEF Candidate
      <4>2. Length(p) \in Nat /\ ~Have(p, Size(p))
        BY <3>1, <4>1, LengthIsNat DEF Complete
      <4> QED
        BY <1>1, <4>1, <4>2 DEF Have, EndOf, Size
    <3>3. <<p, Len(received)>> \in expired'
      BY <2>3
    <3> QED
      BY <1>1, <3>2, <3>3
  <2> QED
    BY <1>1, <2>1, <2>2, <2>3 DEF TypeOK, Candidate
<1> QED
  BY <1>2, <1>3, <1>5, <1>6

\* A frame is returned: all of its bytes leave the buffer.
LEMMA DeliverKeeps ==
  ASSUME ParserOK, Deliver
  PROVE  ParserOK'
<1> USE ParserAssumption DEF ParserOK
<1>1. /\ Acceptable(Candidate) /\ Complete(Candidate) /\ Candidate \in Nat /\ Candidate > 0
      /\ delivered' = delivered \cup {Candidate}
      /\ candidate' = "none" /\ base' = base + Size(Candidate)
      /\ UNCHANGED <<received, expired, before>>
      /\ pc = "parse" /\ pc' = "parse"
      /\ Len(received) \in Nat /\ base \in Nat /\ before \in 0..base
  BY DEF Deliver, Parsing, Erase, TypeOK, Candidate
<1>2. /\ Size(Candidate) \in Nat /\ Size(Candidate) > 0
      /\ base' \in 1..Len(received) /\ EndOf(Candidate) = base' /\ base < base'
  <2>1. Length(Candidate) \in Nat
    BY <1>1, LengthIsNat DEF Complete
  <2>2. Size(Candidate) \in Nat /\ Size(Candidate) > 0
    BY <2>1 DEF Size
  <2>3. Candidate + Size(Candidate) <= Len(received) + 1
    BY <1>1 DEF Complete, Have
  <2>4. EndOf(Candidate) = Candidate + Size(Candidate) - 1
    BY DEF EndOf
  <2>5. Candidate = base + 1
    BY DEF Candidate
  <2> QED
    BY <1>1, <2>2, <2>3, <2>4, <2>5
<1>3. TypeOK'
  BY <1>1, <1>2 DEF TypeOK, Candidate
<1>4. HeldIsUndecided'
  BY <1>1 DEF HeldIsUndecided
<1>5. /\ \A p, k \in Nat : Have(p, k)' <=> Have(p, k)
      /\ \A p \in Nat : /\ EndOf(p)' = EndOf(p) /\ (Intact(p)' <=> Intact(p))
                       /\ (Rejected(p)' <=> Rejected(p))
  BY <1>1 DEF Have, EndOf, Size, Length, Bytes, Intact, Complete, Acceptable, Rejected,
         BadStart, BadVersion, BadLength, BadChecksum
<1>6. DeliveredAreSound'
  <2>1. ASSUME NEW d \in delivered
        PROVE  /\ d \in Nat /\ Intact(d) /\ EndOf(d) <= base' /\ d < Candidate /\ EndOf(d) < Candidate
               /\ EndOf(d) <= before \/ d > before
               /\ \A e \in delivered : d < e => EndOf(d) < e
    <3>1. d \in 1..base /\ Intact(d) /\ EndOf(d) <= base
      BY DEF DeliveredAreSound, TypeOK
    <3>2. EndOf(d) \in Nat
      BY <3>1, LengthIsNat DEF Intact, Complete, EndOf, Size
    <3> QED
      BY <1>1, <1>2, <3>1, <3>2 DEF DeliveredAreSound, Candidate
  <2>2. Intact(Candidate) /\ EndOf(Candidate) <= base' /\ Candidate > before
    BY <1>1, <1>2 DEF Intact, Candidate
  <2>3. delivered' \subseteq Nat
    BY <1>3 DEF TypeOK
  <2>4. \A d \in delivered' :
          /\ Intact(d) /\ EndOf(d) <= base'
          /\ EndOf(d) <= before \/ d > before
          /\ \A e \in delivered' : d < e => EndOf(d) < e
    BY <1>1, <2>1, <2>2
  <2> QED
    BY <1>1, <1>5, <2>3, <2>4 DEF DeliveredAreSound
<1>7. ErasedForAReason'
  <2> SUFFICES ASSUME NEW p \in (before + 1)..base'
               PROVE  \/ \E d \in delivered' : d <= p /\ p <= EndOf(d)
                      \/ \E x \in expired : x[1] = p /\ x[2] <= Len(received)
                            /\ (Have(p, HeaderSize) => x[2] < EndOf(p))
                      \/ Rejected(p)
    <3>1. delivered' \subseteq Nat /\ (before + 1)..base' \subseteq Nat
      BY <1>1, <1>2, <1>3 DEF TypeOK
    <3> QED
      BY <1>1, <1>5, <3>1 DEF ErasedForAReason
  <2>1. CASE p \in (before + 1)..base
    BY <1>1, <2>1 DEF ErasedForAReason
  <2>2. CASE Candidate <= p
    BY <1>1, <1>2, <2>2
  <2> QED
    BY <1>1, <1>2, <2>1, <2>2 DEF Candidate
<1> QED
  BY <1>3, <1>4, <1>6, <1>7

\* Verdicts depend on nothing but the bytes.
LEMMA SameBytes ==
  ASSUME received' = received
  PROVE  /\ \A p, k \in Nat : Have(p, k)' <=> Have(p, k)
         /\ \A p \in Nat :
              /\ EndOf(p)' = EndOf(p) /\ (Intact(p)' <=> Intact(p))
              /\ (Rejected(p)' <=> Rejected(p)) /\ (Complete(p)' <=> Complete(p))
              /\ (Acceptable(p)' <=> Acceptable(p))
BY DEF Have, EndOf, Size, Length, Bytes, Intact, Complete, Acceptable, Rejected,
       BadStart, BadVersion, BadLength, BadChecksum

\* Steps that leave the bytes and the frames alone.
LEMMA WaitingKeeps ==
  ASSUME ParserOK, NeedMore \/ Drained \/ Poll \/ Elapse \/ UNCHANGED vars
  PROVE  ParserOK'
<1> USE ParserAssumption DEF ParserOK
<1>1. UNCHANGED <<received, base, History>>
  BY DEF NeedMore, Drained, Poll, Elapse, vars, History
<1>2. TypeOK'
  BY <1>1 DEF TypeOK, NeedMore, Drained, Poll, Elapse, vars, History
<1>3. UNCHANGED <<received, base, delivered, expired, before>>
  BY <1>1 DEF History
<1>4. DeliveredAreSound'
  <2>1. delivered \subseteq Nat
    BY DEF TypeOK
  <2> QED
    BY <1>3, <2>1, SameBytes DEF DeliveredAreSound
<1>5. ErasedForAReason'
  <2>1. delivered \subseteq Nat /\ (before + 1)..base \subseteq Nat
    BY DEF TypeOK
  <2> QED
    BY <1>3, <2>1, SameBytes DEF ErasedForAReason
<1>6. /\ Acceptable(base + 1)' <=> Acceptable(base + 1)
      /\ Complete(base + 1)' <=> Complete(base + 1)
  BY <1>3 DEF Have, Size, Length, Bytes, Complete, Acceptable,
              BadStart, BadVersion, BadLength, BadChecksum
<1>7. HeldIsUndecided'
  BY <1>3, <1>6 DEF HeldIsUndecided, NeedMore, Drained, Poll, Elapse, vars, Parsing, TypeOK,
                    Candidate
<1> QED
  BY <1>2, <1>4, <1>5, <1>7

\* A new connection: nothing of the old one is left to account for.
LEMMA ResetKeeps ==
  ASSUME ParserOK, Reset
  PROVE  ParserOK'
<1> USE ParserAssumption DEF ParserOK
<1>1. /\ base' = Len(received) /\ before' = Len(received) /\ expired' = {}
      /\ candidate' = "none" /\ UNCHANGED <<received, pc, delivered>>
      /\ Len(received) \in Nat /\ base \in 0..Len(received) /\ delivered \subseteq 1..base
  BY DEF Reset, NewConnection, TypeOK
<1>2. TypeOK'
  BY <1>1 DEF TypeOK
<1>3. HeldIsUndecided'
  BY <1>1 DEF HeldIsUndecided
<1>4. DeliveredAreSound'
  <2>1. \A p \in Nat : EndOf(p)' = EndOf(p) /\ (Intact(p)' <=> Intact(p))
    BY <1>1 DEF Have, EndOf, Size, Length, Bytes, Intact, Complete, Acceptable,
                BadStart, BadVersion, BadLength, BadChecksum
  <2>2. ASSUME NEW d \in delivered
        PROVE  d \in Nat /\ Intact(d) /\ EndOf(d) <= Len(received)
    <3>1. d \in 1..base /\ Intact(d) /\ EndOf(d) <= base
      BY <1>1 DEF DeliveredAreSound
    <3>2. EndOf(d) \in Nat
      BY <3>1, LengthIsNat DEF Intact, Complete, EndOf, Size
    <3> QED
      BY <1>1, <3>1, <3>2
  <2> QED
    BY <1>1, <2>1, <2>2 DEF DeliveredAreSound
<1>5. ErasedForAReason'
  BY <1>1 DEF ErasedForAReason
<1> QED
  BY <1>2, <1>3, <1>4, <1>5

LEMMA ParserSteps == ParserOK /\ [Next]_vars => ParserOK'
<1> SUFFICES ASSUME ParserOK, [Next]_vars PROVE ParserOK'
  OBVIOUS
<1>1. CASE Skip
  BY <1>1, EraseOneKeeps DEF Skip, Rejected, History
<1>2. CASE Expire
  BY <1>2, EraseOneKeeps DEF Expire
<1>3. CASE Reject
  BY <1>3, EraseOneKeeps DEF Reject, Rejected, History
<1>4. CASE Deliver
  BY <1>4, DeliverKeeps
<1>5. CASE Reset
  BY <1>5, ResetKeeps
<1>6. CASE \E byte \in Byte : Push(byte)
  BY <1>6, PushKeeps
<1>7. CASE NeedMore \/ Drained \/ Poll \/ Elapse \/ UNCHANGED vars
  BY <1>7, WaitingKeeps
<1> QED
  BY <1>1, <1>2, <1>3, <1>4, <1>5, <1>6, <1>7 DEF Next, Parse

-----------------------------------------------------------------------------
\* The variables of the parser keep their types.
THEOREM ParserTypeCorrect == Spec => []TypeOK
<1>1. ParserOK => TypeOK
  BY DEF ParserOK
<1> QED
  BY <1>1, ParserStarts, ParserSteps, PTL DEF Spec

\* Every frame that feed returns is whole and right, of one connection, and
\* shares no byte with another one.
THEOREM FramesAreSound == Spec => []DeliveredAreSound
<1>1. ParserOK => DeliveredAreSound
  BY DEF ParserOK
<1> QED
  BY <1>1, ParserStarts, ParserSteps, PTL DEF Spec

\* Whatever noise and broken frames come, an intact frame is returned unless it
\* begins within another one or its end came only after the timeout.
THEOREM ParserResynchronises == Spec => []NoIntactFrameIsLost
<1>1. ParserOK => NoIntactFrameIsLost
  <2> SUFFICES ASSUME ParserOK, NEW p \in (before + 1)..base, Intact(p)
               PROVE  \/ \E d \in delivered : d <= p /\ p <= EndOf(d)
                      \/ \E x \in expired : x[1] = p /\ x[2] < EndOf(p)
    BY DEF NoIntactFrameIsLost
  <2>1. ~Rejected(p) /\ Have(p, HeaderSize)
    BY DEF Intact, Acceptable, Rejected, Complete
  <2> QED
    BY <2>1 DEF ParserOK, ErasedForAReason
<1> QED
  BY <1>1, ParserStarts, ParserSteps, PTL DEF Spec

\* The buffer never outgrows the room reserved for the largest frame.
THEOREM BufferIsBounded == Spec => []BufferFits
<1> DEFINE Room == HeaderSize + MaxPayload + TrailerSize
<1>1. Init => BufferFits
  BY ParserAssumption DEF Init, BufferFits
<1>2. ParserOK /\ BufferFits /\ [Next]_vars => BufferFits'
  <2> SUFFICES ASSUME ParserOK, BufferFits, [Next]_vars PROVE BufferFits'
    OBVIOUS
  <2> USE ParserAssumption
  <2>1. ParserOK' /\ base \in 0..Len(received) /\ Len(received) \in Nat
    BY ParserSteps DEF ParserOK, TypeOK
  <2>2. CASE received' = received
    <3>1. base' >= base /\ base' \in Nat
      <4>1. base' \in Nat
        BY <2>1, <2>2 DEF ParserOK, TypeOK
      <4>2. CASE Deliver
        <5>1. Complete(Candidate) /\ base' = base + Size(Candidate)
          BY <4>2 DEF Deliver, Erase
        <5>2. Length(Candidate) \in Nat
          BY <2>1, <5>1, LengthIsNat DEF Complete, Candidate, ParserOK
        <5> QED
          BY <2>1, <5>1, <5>2 DEF Size
      <4>3. CASE ~Deliver
        BY <2>1, <2>2, <4>3
           DEF Next, Parse, Skip, Expire, Reject, Erase, NeedMore, Drained, Poll, Elapse,
               Reset, Push, vars, TypeOK
      <4> QED
        BY <4>1, <4>2, <4>3
    <3> QED
      BY <2>1, <2>2, <3>1 DEF BufferFits
  <2>3. CASE \E byte \in Byte : Push(byte)
    <3>1. /\ Len(received') = Len(received) + 1 /\ base' = base
          /\ pc = "idle" /\ candidate # "old"
      BY <2>3 DEF Push, ParserOK, TypeOK
    <3>2. Len(received) - base < Room
      <4>1. CASE base = Len(received)
        BY <2>1, <4>1
      <4>2. CASE Acceptable(Candidate) /\ ~Complete(Candidate) /\ base < Len(received)
        <5>1. Candidate \in Nat /\ Candidate > 0
          BY <2>1 DEF Candidate
        <5>2. CASE Have(Candidate, HeaderSize)
          <6>1. Length(Candidate) \in Nat
            BY <5>1, <5>2, LengthIsNat DEF ParserOK
          <6>2. Length(Candidate) <= MaxPayload
            BY <4>2, <5>2, <6>1 DEF Acceptable, BadLength
          <6>3. ~Have(Candidate, Size(Candidate))
            BY <4>2, <5>2 DEF Complete
          <6>4. Size(Candidate) = HeaderSize + Length(Candidate) + TrailerSize
            BY DEF Size
          <6> QED
            BY <2>1, <6>1, <6>2, <6>3, <6>4 DEF Have, Candidate
        <5>3. CASE ~Have(Candidate, HeaderSize)
          BY <2>1, <5>3 DEF Have, Candidate
        <5> QED
          BY <5>2, <5>3
      <4> QED
        BY <3>1, <4>1, <4>2 DEF ParserOK, HeldIsUndecided
    <3> QED
      BY <2>1, <3>1, <3>2 DEF BufferFits
  <2>4. received' = received \/ \E byte \in Byte : Push(byte)
    BY DEF Next, Parse, Skip, Expire, Reject, Deliver, NeedMore, Drained, Poll, Elapse, Reset,
           NewConnection, vars
  <2> QED
    BY <2>2, <2>3, <2>4
<1> QED
  BY <1>1, <1>2, ParserStarts, ParserSteps, PTL DEF Spec
=============================================================================
