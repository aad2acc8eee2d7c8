---------------------------- MODULE MCDbcLoading ----------------------------
(***************************************************************************)
(* Instances of DbcLoading for TLC: frames of three bytes of two bits.     *)
(* The DBCs have a message with a signal "a" in every place and of every   *)
(* size a frame allows, of either byte order, beside a signal "b" of the   *)
(* other byte order and value type, with a scale and a range; one DBC has  *)
(* a multiplexed message and all the sections a file can have, one has     *)
(* other ids, and one an id the parser cannot read.  The file with all the *)
(* sections is cut off after each token.                                   *)
(***************************************************************************)
EXTENDS DbcLoading, TLC

MCNumbers == [w \in {ToString(n) : n \in -70 .. 70} |-> CHOOSE n \in -70 .. 70 : ToString(n) = w]

MCStrings == {"'1.0'", "''", "'text'"}

MCNames ==
  Symbols \union {ToString(n) : n \in 0 .. 70}
    \union {"VERSION", "NS_", "BS_", "BU_", "SG_", "EV_", "M", "m"}
    \union {"a", "b", "c", "n1", "n2", "Msg", "INT"}

Signal(name, start, size, order, type, factor, offset) ==
  PhysicalRange(
    [signalName |-> name, multiplexer |-> FALSE, multiplexedBy |-> NotMultiplexed,
     startBit |-> start, signalSize |-> size, byteOrder |-> order, valueType |-> type,
     factor |-> factor, offset |-> offset, minimum |-> 0, maximum |-> 0,
     unit |-> "''", receivers |-> <<"n1">>])

\* A DBC that gives a range in its order, also for a falling scale.
InOrder(s) ==
  [s EXCEPT !.minimum = Least(s.minimum, s.maximum), !.maximum = Greatest(s.minimum, s.maximum)]

\* The steps of "a" are 1, 2 or -1.  It is signed at every other place.
MCFirst ==
  {s \in {InOrder(Signal("a", start, size, order, start % 2 = 0,
                         IF size % 3 = 0 THEN -1 ELSE IF size % 2 = 0 THEN 2 ELSE 1, -1)) :
            start \in Bits, size \in 1 .. W, order \in BOOLEAN} : Fits(s)}

\* "b" is beside "a" when there is room, and over it when there is none.
MCSecond(s) ==
  LET all  == {t \in {Signal("b", start, size, ~s.byteOrder, ~s.valueType, 1, 1) :
                        start \in Bits, size \in 2 .. 3} : Fits(t)}
      free == {t \in all : ~Overlap(s, t)}
  IN  [(IF free # {} THEN CHOOSE t \in free : TRUE ELSE CHOOSE t \in all : TRUE)
         EXCEPT !.maximum = 2]

MCMessage(id, size, signals) ==
  [messageId |-> id, messageName |-> "Msg", messageSize |-> size, transmitterName |-> "n1",
   signals |-> signals]

Keywords == {"VAL_TABLE_", "BO_TX_BU_", "EV_", "ENVVAR_DATA_", "SGTYPE_", "BA_DEF_",
             "BA_DEF_DEF_", "BA_", "SIG_GROUP_", "SIG_VALTYPE_"}

\* A file with messages only.
MessagesOnly(messages) ==
  [config |-> [version |-> "", nodes |-> <<>>, messages |-> messages, comments |-> <<>>, values |-> <<>>],
   lines |-> [k \in Keywords \union {"NS_", "BS_"} |-> <<>>]]

\* The multiplexor "a" chooses between "b" and "c", which share their bits.  Three kinds of lines
\* occur twice, all others once.
MCMultiplexed ==
  LET a == [Signal("a", 0, 2, FALSE, FALSE, 1, 0) EXCEPT !.multiplexer = TRUE]
      b == [Signal("b", 3, 3, TRUE, TRUE, 1, 0) EXCEPT !.multiplexedBy = 1, !.receivers = <<"n1", "n2">>]
      c == [Signal("c", 2, 4, FALSE, FALSE, 1, 0) EXCEPT !.multiplexedBy = 2, !.unit = "'text'"]
  IN  [config |->
         [version  |-> "'1.0'", nodes |-> <<"n1", "n2">>,
          messages |-> <<MCMessage(1, 3, <<a, b, c>>), MCMessage(2, 1, <<>>)>>,
          comments |-> <<<<"'text'">>, <<"BO_", 1, "'text'">>, <<"SG_", 1, "a", "''">>,
                         <<"BU_", "n1", "'text'">>>>,
          values   |-> <<<<1, "a", <<<<1, "'text'">>, <<2, "''">>>>>>, <<1, "b", <<>>>>>>],
       lines |->
         [k \in Keywords \union {"NS_", "BS_"} |->
            CASE k = "NS_" -> <<"CM_", "BA_", "VAL_">>
              [] k = "BS_" -> <<"50", ":", "0", ",", "1">>
              [] k \in {"VAL_TABLE_", "BA_", "SGTYPE_"} -> <<<<"a", "0", "''">>, <<"b", "1">>>>
              [] OTHER -> <<<<"a", ":", "1">>>>]]

\* Two definitions of one id, one of a short message, and an id the table has no slot for.
MCOther ==
  MessagesOnly(<<MCMessage(1, 3, <<Signal("a", 0, 2, FALSE, FALSE, 1, 0)>>),
           MCMessage(2, 1, <<Signal("a", 0, 2, FALSE, FALSE, 1, 0)>>),
           MCMessage(1, 1, <<Signal("a", 1, 2, TRUE, TRUE, 1, 0)>>)>>)

\* A message whose identifier is too large for the parser.
MCExtended == MessagesOnly(<<MCMessage(0, 1, <<>>), MCMessage(MaxInt + 1, 1, <<>>)>>)

MCDocuments ==
  <<MCMultiplexed, MCOther, MCExtended>> \o
  FoldSet(LAMBDA s, documents : Append(documents, MessagesOnly(<<MCMessage(0, 3, <<s, MCSecond(s)>>)>>)),
          <<>>, MCFirst)

MCFiles ==
  [document : DOMAIN MCDocuments, lost : {0}] \union [document : {1}, lost : 1 .. Len(Text(MCMultiplexed))]

\* The DBCs as they are written; a file that was cut off yields a part of one.
MCConfigs == {ByName(MCDocuments[d].config) : d \in DOMAIN MCDocuments}

MCRequests ==
  [{"a"} -> {-4, 0, 3}] \union [{"a", "b"} -> {-40, -2, 1, 2, 7, 40}] \union [{"a", "c"} -> {1, 2}]
=============================================================================
