----------------------------- MODULE DbcLoading -----------------------------
(***************************************************************************)
(* From the file of a DBC to the frames: DbcHandler hands the text to the  *)
(* parser and publishes what it makes of it, CanDbcHandler takes it into   *)
(* its table.  A file may have been cut off, by a copy that did not finish *)
(* or a program that is still writing it.                                  *)
(***************************************************************************)
EXTENDS CanDbcHandler, DbcParser

CONSTANTS
  Documents, \* the DBCs, a sequence of [config, lines]: lines has the lines of
             \* the sections the parser passes over, by their keyword
  Files      \* the files, [document, lost]: how many tokens at the end of the text are missing

VARIABLES
  parsing,  \* whether the parsing thread is there: it ends with the first file it refuses
  read      \* history: of which document a file was just loaded, whole or cut off, and what
            \* the parser made of it

loadingVars == <<dbcMessages, dbc, last, parsing, read>>

NoLoad == [document |-> 0, whole |-> FALSE, made |-> {}]

-----------------------------------------------------------------------------
(***************************************************************************)
(* The text of a DBC, as the format has it.                                *)
(***************************************************************************)

Written   == AntiFunction(Numbers)
Word10(n) == Written[n]

Separated(words) ==
  FlattenSeq([i \in DOMAIN words |-> IF i = 1 THEN <<words[i]>> ELSE <<",", words[i]>>])

Lines(document, keyword) ==
  FlattenSeq([i \in DOMAIN document.lines[keyword] |->
                <<keyword>> \o document.lines[keyword][i] \o <<";">>])

\* A range may be left to the reader, when it is that of the bits.
RangeText(s) ==
  IF s.factor > 0 /\ s = PhysicalRange([s EXCEPT !.minimum = 0, !.maximum = 0])
    THEN <<"[", "0", "|", "0", "]">>
    ELSE <<"[", Word10(s.minimum), "|", Word10(s.maximum), "]">>

MultiplexText(s) ==
  IF s.multiplexer THEN <<"M">>
  ELSE IF s.multiplexedBy # NotMultiplexed THEN <<"m", Word10(s.multiplexedBy)>>
  ELSE <<>>

SignalText(s) ==
  <<"SG_", s.signalName>> \o MultiplexText(s) \o
  <<":", Word10(s.startBit), "|", Word10(s.signalSize), "@",
    IF s.byteOrder THEN "0" ELSE "1", IF s.valueType THEN "-" ELSE "+",
    "(", Word10(s.factor), ",", Word10(s.offset), ")">> \o
  RangeText(s) \o <<s.unit>> \o Separated(s.receivers)

MessageText(m) ==
  <<"BO_", Word10(m.messageId), m.messageName, ":", Word10(m.messageSize), m.transmitterName>> \o
  FlattenSeq([i \in DOMAIN m.signals |-> SignalText(m.signals[i])])

\* A comment is what it is about and a text, the description of values what it is about and
\* pairs of a value and its meaning.
CommentText(c) ==
  <<"CM_">> \o [i \in DOMAIN c |-> IF i = 2 /\ c[1] \in {"BO_", "SG_"} THEN Word10(c[i]) ELSE c[i]]
  \o <<";">>

ValuesText(v) ==
  <<"VAL_", Word10(v[1]), v[2]>> \o
  FlattenSeq([i \in DOMAIN v[3] |-> <<Word10(v[3][i][1]), v[3][i][2]>>]) \o <<";">>

\* The first comment stands before the attributes, the others after them.
Text(document) ==
  LET c == document.config
      early == SubSeq(c.comments, 1, Min({1, Len(c.comments)}))
      late  == SubSeq(c.comments, 2, Len(c.comments))
      All(Part(_), parts) == FlattenSeq([i \in DOMAIN parts |-> Part(parts[i])])
  IN  (IF c.version = "" THEN <<>> ELSE <<"VERSION", c.version>>) \o
      <<"NS_", ":">> \o document.lines["NS_"] \o <<"BS_", ":">> \o document.lines["BS_"] \o
      <<"BU_", ":">> \o c.nodes \o Lines(document, "VAL_TABLE_") \o
      All(MessageText, c.messages) \o Lines(document, "BO_TX_BU_") \o
      Lines(document, "EV_") \o Lines(document, "ENVVAR_DATA_") \o Lines(document, "SGTYPE_") \o
      All(CommentText, early) \o Lines(document, "BA_DEF_") \o Lines(document, "BA_DEF_DEF_") \o
      Lines(document, "BA_") \o All(CommentText, late) \o All(ValuesText, c.values) \o
      Lines(document, "SIG_GROUP_") \o Lines(document, "SIG_VALTYPE_")

-----------------------------------------------------------------------------
(***************************************************************************)
(* Loading a file.                                                         *)
(***************************************************************************)

Texts == [d \in DOMAIN Documents |-> Text(Documents[d])]

TextOf(file) ==
  LET text == Texts[file.document] IN SubSeq(text, 1, Len(text) - file.lost)

\* The files, each with what the parser makes of it.
Loads ==
  {[document |-> file.document, whole |-> file.lost = 0, made |-> ParseDbc(TextOf(file))] : file \in Files}

\* The table of CanDbcHandler looks up the signals of a message by their names.
ByName(config) ==
  [i \in DOMAIN config.messages |->
     LET m == config.messages[i]
     IN  [messageId |-> m.messageId, messageSize |-> m.messageSize,
          signals |-> [n \in {m.signals[k].signalName : k \in DOMAIN m.signals} |->
                         m.signals[CHOOSE k \in DOMAIN m.signals : m.signals[k].signalName = n]]]]

InitLoading == Init /\ parsing = TRUE /\ read = NoLoad

\* The parser is given the text and parses it.  A file it refuses leaves the table as it is, and
\* is the last one the parsing thread reads.
LoadFile(load) ==
  /\ parsing
  /\ read' = load
  /\ parsing' = (load.made # {})
  /\ \/ \E config \in load.made : HandleNewDbc(ByName(config))
     \/ load.made = {} /\ last' = Nothing /\ UNCHANGED <<dbcMessages, dbc>>

UseTable ==
  /\ \/ \E id \in Ids, len \in Lengths, data \in SUBSET Bits : ParseReceivedMessage(id, len, data)
     \/ \E id \in Ids, asked \in Requests : HandleEncodeMessage(id, asked)
  /\ read' = NoLoad
  /\ UNCHANGED parsing

NextLoading == (\E load \in Loads : LoadFile(load)) \/ UseTable

LoadingSpec == InitLoading /\ [][NextLoading]_loadingVars

-----------------------------------------------------------------------------
(***************************************************************************)
(* Properties.                                                             *)
(***************************************************************************)

\* A signal that may be the last one of a file that was cut off: some receivers are missing.
SignalCutOf(s, t) == s = [t EXCEPT !.receivers = s.receivers] /\ IsPrefix(s.receivers, t.receivers)

\* The messages of a file that was cut off: the last one may have lost signals.
MessagesCutOf(short, long) ==
  /\ Len(short) <= Len(long)
  /\ \A i \in DOMAIN short :
       LET m == short[i]
           signals == long[i].signals
       IN  /\ m = [long[i] EXCEPT !.signals = m.signals]
           /\ i < Len(short) => m.signals = signals
           /\ Len(m.signals) <= Len(signals)
           /\ \A k \in DOMAIN m.signals :
                IF i < Len(short) \/ k < Len(m.signals) THEN m.signals[k] = signals[k]
                ELSE SignalCutOf(m.signals[k], signals[k])

\* Whether all identifiers are numbers std::stoi can return; those of extended frames are not.
Readable(config) == \A i \in DOMAIN config.messages : config.messages[i].messageId <= MaxInt

\* A DBC is read as it was written: a file that is whole yields the very DBC, with all that it
\* says of every signal, comment and value, however many of the other lines are in between, or
\* nothing at all when an identifier is too large.  A file that was cut off anywhere is refused,
\* or yields a DBC that says nothing else: a part of it that ends where the file ends, and what
\* follows is there only if nothing before is missing.
ReadIsWritten ==
  read # NoLoad =>
    LET written == Documents[read.document].config
    IN  IF read.whole THEN read.made = {config \in {written} : Readable(config)}
        ELSE \A config \in read.made :
               /\ config.version = written.version /\ config.nodes = written.nodes
               /\ MessagesCutOf(config.messages, written.messages)
               /\ IsPrefix(config.comments, written.comments)
               /\ IsPrefix(config.values, written.values)
               /\ config.comments # <<>> => config.messages = written.messages
               /\ config.values # <<>> => config.comments = written.comments
=============================================================================
