---------------------------- MODULE SignalCodec ----------------------------
(***************************************************************************)
(* The bit arithmetic of CanDbcHandler: how the signals of a DBC message   *)
(* are put into the data of a frame and read from it (parseSendSignal,     *)
(* parseReceivedSignal), and the range the DBC parser gives to a signal    *)
(* without one (calculatePhysicalRange).                                   *)
(*                                                                         *)
(* A word of the machine is the set of its bits that are one, bit 0 the    *)
(* lowest; it has as many bits as the data of a frame, as in the code.     *)
(* The data of a frame are taken as the word the code reads in little      *)
(* endian order; SwapBytes gives the big endian one.                       *)
(*                                                                         *)
(* A signal is a record with the fields of DbcSignalDescription.  Physical *)
(* values, factors and offsets are integers here, doubles in the code.     *)
(***************************************************************************)
EXTENDS Integers, FiniteSetsExt

CONSTANTS
  Bytes,    \* how many bytes a frame carries, 8 in the code
  ByteSize  \* how many bits a byte has

ASSUME CodecAssumption == Bytes \in Nat \ {0} /\ ByteSize \in Nat \ {0}

W    == Bytes * ByteSize
Bits == 0 .. W - 1
Word == SUBSET Bits

-----------------------------------------------------------------------------
(***************************************************************************)
(* Words.                                                                  *)
(***************************************************************************)

Shl(w, n) == {b \in Bits : b - n \in w}
Shr(w, n) == {b \in Bits : b + n \in w}

\* >> of a signed word copies the sign.
Sar(w, n) == {b \in Bits : IF b + n < W THEN b + n \in w ELSE W - 1 \in w}

\* (1 << size) - 1.
Mask(size) == {b \in Bits : b < size}

\* The bit with the same place in the byte that is as far from the other end.
Mirrored(b)  == (Bytes - 1 - (b \div ByteSize)) * ByteSize + (b % ByteSize)
SwapBytes(w) == {b \in Bits : Mirrored(b) \in w}

\* The numbers a word stands for, unsigned and in two's complement; and the word of a number.
Unsigned(w) == MapThenSumSet(LAMBDA b : 2 ^ b, w)
Signed(w)   == IF W - 1 \in w THEN Unsigned(w) - 2 ^ W ELSE Unsigned(w)
ToWord(n)   == {b \in Bits : (n \div 2 ^ b) % 2 = 1}

-----------------------------------------------------------------------------
(***************************************************************************)
(* The place of a signal.  Bit N of a DBC is bit N of the little endian    *)
(* word; a big endian signal begins with its highest bit at startBit.      *)
(***************************************************************************)

\* Faulty LinearStart: the bits of a byte are counted from the wrong end.
LinearStartMirrored(s) ==
  (W - 1) - ((W - ByteSize) - ByteSize * (s.startBit \div ByteSize)
             + (ByteSize - 1 - (s.startBit % ByteSize)))

\* How many bits of the big endian word are before the signal.
LinearStart(s) ==
  (W - 1) - ((W - ByteSize) - ByteSize * (s.startBit \div ByteSize)
             + (s.startBit % ByteSize))

\* A signal that lies in the frame, the only kind a correct DBC has.
Fits(s) ==
  /\ s.startBit \in Bits /\ s.signalSize \in 1 .. W
  /\ (IF s.byteOrder THEN LinearStart(s) ELSE s.startBit) + s.signalSize <= W

-----------------------------------------------------------------------------
(***************************************************************************)
(* Reading a signal: parseReceivedSignal.                                  *)
(***************************************************************************)

\* The two shifts that isolate the signal.
RawBits(s, data) ==
  IF s.byteOrder
    THEN Shr(Shl(SwapBytes(data), LinearStart(s)), W - s.signalSize)
    ELSE Shr(Shl(data, W - s.startBit - s.signalSize), W - s.signalSize)

\* The two shifts that extend the sign; the result is an int64_t in either case.
RawValue(s, data) ==
  LET raw == RawBits(s, data)
  IN  Signed(IF s.valueType THEN Sar(Shl(raw, W - s.signalSize), W - s.signalSize) ELSE raw)

ParseReceivedSignal(s, data) == RawValue(s, data) * s.factor + s.offset

-----------------------------------------------------------------------------
(***************************************************************************)
(* Writing a signal: parseSendSignal.                                      *)
(***************************************************************************)

Least(a, b)    == IF a <= b THEN a ELSE b
Greatest(a, b) == IF a >= b THEN a ELSE b

Clamped(s, value) == Least(Greatest(value, s.minimum), s.maximum)

\* std::round(p / q): to the nearest, halves away from zero.
Magnitude(n)  == IF n < 0 THEN -n ELSE n
Rounded(p, q) ==
  LET m == (2 * Magnitude(p) + Magnitude(q)) \div (2 * Magnitude(q))
  IN  IF (p < 0) = (q < 0) THEN m ELSE -m

\* Faulty SentBits: the number is not masked.
SentBitsUnmasked(s, value) == ToWord(Rounded(Clamped(s, value) - s.offset, s.factor))

\* maskedRawValue.
SentBits(s, value) ==
  ToWord(Rounded(Clamped(s, value) - s.offset, s.factor)) \intersect Mask(s.signalSize)

\* What a signal adds to the data: it is put into the little or the big endian word,
\* and handleEncodeMessage joins the two byte by byte.
Placed(s, raw) ==
  IF s.byteOrder
    THEN SwapBytes(Shl(raw, W - LinearStart(s) - s.signalSize))
    ELSE Shl(raw, s.startBit)

\* The bits of the data that belong to a signal.
Occupied(s) == Placed(s, Mask(s.signalSize))

-----------------------------------------------------------------------------
\* The numbers the bits of a signal can be.
RawMin(s) == IF s.valueType THEN -(2 ^ (s.signalSize - 1)) ELSE 0
RawMax(s) == IF s.valueType THEN 2 ^ (s.signalSize - 1) - 1 ELSE 2 ^ s.signalSize - 1

\* calculatePhysicalRange: a signal without a range gets that of its bits.
PhysicalRange(s) ==
  IF s.minimum = 0 /\ s.maximum = 0
    THEN [s EXCEPT !.minimum = RawMin(s) * s.factor + s.offset,
                   !.maximum = RawMax(s) * s.factor + s.offset]
    ELSE s
=============================================================================
