--------------------------- MODULE CanDbcHandler ---------------------------
(***************************************************************************)
(* CanDbcHandler: it keeps the messages of the DBC in force by their id,   *)
(* turns the frames that are received into signal values and the values a  *)
(* component wants to send into the data of a frame.  The three handlers   *)
(* run on different threads; each holds dbcMutex for its whole body (the   *)
(* new DBC exclusively), so each is one action.                            *)
(*                                                                         *)
(* The signals of a message are a function of their names: a well-formed   *)
(* DBC has no two signals of one name in a message, and one multiplexor.   *)
(* The slots of the table that hold nullptr are those outside the domain   *)
(* of dbcMessages.                                                         *)
(***************************************************************************)
EXTENDS SignalCodec, Sequences, Functions

CONSTANTS
  TableSize, \* how many slots the table has, 2048 in the code
  Ids,       \* ids of frames and of requests
  Configs,   \* the DBCs a user may load, sequences of message definitions
  Lengths,   \* how many bytes a received frame may have
  Requests   \* values that may be asked for, each a function of names of signals

VARIABLES
  dbcMessages, \* the table
  dbc,         \* history: the DBC that was last handed over
  last         \* history: the last frame or request handled with it, and what became of it

vars == <<dbcMessages, dbc, last>>

NotMultiplexed == -1

Nothing == [kind |-> "nothing"]

Init ==
  /\ dbcMessages = <<>>
  /\ dbc = <<>>
  /\ last = Nothing

-----------------------------------------------------------------------------
(***************************************************************************)
(* A new DBC.                                                              *)
(***************************************************************************)

\* The ids of a config that have a slot; a later definition replaces an earlier one.
Stored(config) == {config[i].messageId : i \in DOMAIN config} \intersect (0 .. TableSize - 1)

Definition(config, id) ==
  LET i == CHOOSE i \in DOMAIN config :
             /\ config[i].messageId = id
             /\ \A j \in DOMAIN config : config[j].messageId = id => j <= i
  IN  [messageSize |-> config[i].messageSize, signals |-> config[i].signals]

\* A signal whose value an int64_t can hold whatever its bits are.
Representable(s) == s.valueType \/ s.signalSize < W

\* A signal of a correct DBC lies in the frame, and its bits can hold its range.
WellFormed(s) ==
  /\ Fits(s)
  /\ s.factor \in Int \ {0} /\ s.offset \in Int
  /\ s.minimum \in Int /\ s.maximum \in Int /\ s.minimum <= s.maximum
  /\ \A value \in s.minimum .. s.maximum :
       Rounded(value - s.offset, s.factor) \in RawMin(s) .. RawMax(s)

\* A correct DBC has such signals, and in a message one multiplexor at most, which is not
\* multiplexed itself.
ASSUME ConfigAssumption ==
  \A config \in Configs : \A id \in Stored(config) :
    LET message == Definition(config, id)
        signals == message.signals
        multiplexors == {n \in DOMAIN signals : signals[n].multiplexer}
    IN  /\ message.messageSize \in Nat
        /\ \A n \in DOMAIN signals : WellFormed(signals[n])
        /\ \A n, m \in multiplexors : n = m
        /\ \A n \in multiplexors :
             signals[n].multiplexedBy = NotMultiplexed /\ Representable(signals[n])

\* Ids and sizes are unsigned; values that are asked for are numbers.
ASSUME FrameAssumption ==
  /\ TableSize \in Nat /\ Lengths \subseteq Nat
  /\ \A asked \in Requests : \A n \in DOMAIN asked : asked[n] \in Int

\* Faulty Loaded: the slots are not cleared.
LoadedOver(config) ==
  [id \in DOMAIN dbcMessages \union Stored(config) |->
     IF id \in Stored(config) THEN Definition(config, id) ELSE dbcMessages[id]]

Loaded(config) == [id \in Stored(config) |-> Definition(config, id)]

HandleNewDbc(config) ==
  /\ dbcMessages' = Loaded(config)
  /\ dbc' = config
  /\ last' = Nothing

-----------------------------------------------------------------------------
(***************************************************************************)
(* A frame is received.                                                    *)
(***************************************************************************)

Plain(signals) == {n \in DOMAIN signals : signals[n].multiplexedBy = NotMultiplexed}

\* The value of the multiplexor, -1 when the message has none.
MultiplexorValue(signals, data) ==
  IF \E n \in Plain(signals) : signals[n].multiplexer
    THEN ParseReceivedSignal(signals[CHOOSE n \in Plain(signals) : signals[n].multiplexer], data)
    ELSE -1

Parsed(signals, data) ==
  LET selected == {n \in DOMAIN signals \ Plain(signals) :
                     signals[n].multiplexedBy = MultiplexorValue(signals, data)}
  IN  [n \in Plain(signals) \union selected |-> ParseReceivedSignal(signals[n], data)]

Accepts(id, len) ==
  /\ id < TableSize
  /\ id \in DOMAIN dbcMessages
  /\ len >= dbcMessages[id].messageSize

\* The event is published, or the frame is dropped.
ParseReceivedMessage(id, len, data) ==
  /\ last' =
       [kind |-> "received", id |-> id, len |-> len, data |-> data,
        published |-> IF Accepts(id, len)
                        THEN {Parsed(dbcMessages[id].signals, data)}
                        ELSE {}]
  /\ UNCHANGED <<dbcMessages, dbc>>

-----------------------------------------------------------------------------
(***************************************************************************)
(* A request to encode a message.                                          *)
(***************************************************************************)

\* Names the message does not have are passed over.
Encoded(signals, asked) ==
  UNION {Placed(signals[n], SentBits(signals[n], asked[n])) :
           n \in DOMAIN asked \intersect DOMAIN signals}

\* A request for an unknown id leaves the frame of the event as it was.
HandleEncodeMessage(id, asked) ==
  /\ last' =
       [kind |-> "encoded", id |-> id, asked |-> asked,
        written |-> IF id < TableSize /\ id \in DOMAIN dbcMessages
                      THEN {[dlc  |-> dbcMessages[id].messageSize,
                             data |-> Encoded(dbcMessages[id].signals, asked)]}
                      ELSE {}]
  /\ UNCHANGED <<dbcMessages, dbc>>

-----------------------------------------------------------------------------

Next ==
  \/ \E config \in Configs : HandleNewDbc(config)
  \/ \E id \in Ids, len \in Lengths, data \in Word : ParseReceivedMessage(id, len, data)
  \/ \E id \in Ids, asked \in Requests : HandleEncodeMessage(id, asked)

Spec == Init /\ [][Next]_vars

-----------------------------------------------------------------------------
(***************************************************************************)
(* What a DBC says about a signal, in its own terms: which bit of the      *)
(* frame holds which bit of the signal.                                    *)
(***************************************************************************)

\* From the highest bit of a big endian signal down: to the next lower bit of the byte,
\* after the lowest to the highest bit of the next byte.
Below(b) == IF b % ByteSize = 0 THEN b + 2 * ByteSize - 1 ELSE b - 1

\* The bits of a signal in the frame, the lowest first.
Position(s) ==
  LET down[i \in 0 .. s.signalSize - 1] == IF i = 0 THEN s.startBit ELSE Below(down[i - 1])
  IN  [k \in 0 .. s.signalSize - 1 |->
         IF s.byteOrder THEN down[s.signalSize - 1 - k] ELSE s.startBit + k]

\* The number these bits are, with the sign in the highest when the signal has one.
Meaning(s, data) ==
  LET weight(k) == IF s.valueType /\ k = s.signalSize - 1 THEN -(2 ^ k) ELSE 2 ^ k
      ones      == {k \in 0 .. s.signalSize - 1 : Position(s)[k] \in data}
  IN  MapThenSumSet(weight, ones) * s.factor + s.offset

\* Two signals that share a bit.
Overlap(s, t) == Range(Position(s)) \intersect Range(Position(t)) # {}

\* The signals the DBC that was last handed over has for an id.
Described(id) == id \in Stored(dbc)
Signals(id)   == Definition(dbc, id).signals

\* A signal that is asked for, in a message with no other that shares its bits.
Alone(signals, asked, n) ==
  /\ n \in DOMAIN asked \intersect DOMAIN signals
  /\ \A m \in (DOMAIN asked \intersect DOMAIN signals) \ {n} : ~Overlap(signals[n], signals[m])

-----------------------------------------------------------------------------
(***************************************************************************)
(* Properties.                                                             *)
(***************************************************************************)

\* The table has slots for small ids only, and what is written is the data of one frame.
TypeOK ==
  /\ DOMAIN dbcMessages \subseteq 0 .. TableSize - 1
  /\ dbc \in Configs \union {<<>>}
  /\ last.kind \in {"nothing", "received", "encoded"}
  /\ last.kind = "encoded" => \A frame \in last.written : frame.data \in Word

\* What is published for a frame is what the DBC that was last handed over says: every signal
\* of the message with the value of its bits, a multiplexed one only when the multiplexor has
\* its value; nothing is published for a frame this DBC has no message for or that is too
\* short for it.  Nothing of an earlier DBC is left.
ReceivedIsWhatDbcSays ==
  last.kind = "received" =>
    IF ~Described(last.id) \/ last.len < Definition(dbc, last.id).messageSize
      THEN last.published = {}
      ELSE LET signals == Signals(last.id)
               chosen(n) ==
                 \/ signals[n].multiplexedBy = NotMultiplexed
                 \/ \E m \in DOMAIN signals :
                      /\ signals[m].multiplexer
                      /\ Meaning(signals[m], last.data) = signals[n].multiplexedBy
           IN  \E values \in last.published :
                 /\ last.published = {values}
                 /\ DOMAIN values = {n \in DOMAIN signals : chosen(n)}
                 /\ \A n \in DOMAIN values :
                      Representable(signals[n]) => values[n] = Meaning(signals[n], last.data)

\* Encoding loses nothing on the way: the raw bits of a signal that were put into a frame are
\* those the decoder isolates from it, whatever other signals without a common bit, of either
\* byte order, are in the frame.
EncodedBitsAreRead ==
  last.kind = "encoded" =>
    \A frame \in last.written :
      LET signals == dbcMessages[last.id].signals
          asked   == DOMAIN last.asked \intersect DOMAIN signals
      IN  \A n \in asked :
            (\A m \in asked \ {n} : Occupied(signals[n]) \intersect Occupied(signals[m]) = {})
               => RawBits(signals[n], frame.data) = SentBits(signals[n], last.asked[n])

\* What another node reads from an encoded frame is the value that was asked for, brought into
\* the range of the signal and to the nearest step of its scale; bits of no signal that was
\* asked for are zero.
EncodedMeansAsked ==
  last.kind = "encoded" =>
    \A frame \in last.written :
      LET signals == Signals(last.id)
          asked   == DOMAIN last.asked \intersect DOMAIN signals
      IN  /\ frame.data \subseteq UNION {Range(Position(signals[n])) : n \in asked}
          /\ \A n \in asked :
               LET s      == signals[n]
                   wanted == IF last.asked[n] < s.minimum THEN s.minimum
                             ELSE IF last.asked[n] > s.maximum THEN s.maximum
                             ELSE last.asked[n]
               IN  Alone(signals, last.asked, n) =>
                     2 * Magnitude(Meaning(s, frame.data) - wanted) <= Magnitude(s.factor)

=============================================================================
