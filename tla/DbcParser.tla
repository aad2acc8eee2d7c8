------------------------------ MODULE DbcParser ------------------------------
(***************************************************************************)
(* DbcParser: a recursive descent parser over the rest of the file, with   *)
(* two flags.  parsingValid is false when something that had to be there   *)
(* was not, parsedObject when something that may be there was not.  Each   *)
(* parse function of the code is an operator from a state of the parser to *)
(* the next one; what it returns is in the field out.                      *)
(*                                                                         *)
(* A file is a sequence of tokens: the words and marks of its text.  White *)
(* space is left out: a mark follows its keyword directly where the code   *)
(* looks for the two together ("BS_:"), and no file ends within a word     *)
(* (FileParser appends a space to every line).                             *)
(***************************************************************************)
EXTENDS SignalCodec, Sequences, SequencesExt

CONSTANTS
  Names,    \* the words of letters, digits and _; keywords and unsigned numbers are among them
  Numbers,  \* what the words that are numbers stand for, a function of these words
  MaxInt,   \* 2^31 - 1, the largest number std::stoi returns
  Strings   \* quoted strings, without a semicolon in them

\* parseNodes: a word that ends the list of the nodes.
Symbols ==
  {"CM_", "BA_DEF_", "BA_", "VAL_", "CAT_DEF_", "CAT_", "FILTER", "BA_DEF_DEF_", "EV_DATA_",
   "ENVVAR_DATA_", "SGTYPE_", "SGTYPE_VAL_", "BA_DEF_SGTYPE_", "BA_SGTYPE_", "SIG_TYPE_REF_",
   "VAL_TABLE_", "SIG_GROUP_", "SIG_VALTYPE_", "SIGTYPE_VALTYPE_", "BO_TX_BU_", "BA_DEF_REL_",
   "BA_REL_", "BA_DEF_DEF_REL_", "BU_SG_REL_", "BU_EV_REL_", "BU_BO_REL_", "BO_"}

\* The keywords the code takes for keyword, since it looks at how the file starts.  (It takes
\* VAL_TABLE_ for VAL_, too, and refuses what follows; here the file is refused at the end.)
Starting(keyword) ==
  LET defaults    == {"BA_DEF_DEF_", "BA_DEF_DEF_REL_"}
      definitions == {"BA_DEF_", "BA_DEF_SGTYPE_", "BA_DEF_REL_"} \union defaults
  IN  CASE keyword = "BA_DEF_DEF_" -> defaults
        [] keyword = "BA_DEF_"     -> definitions
        [] keyword = "BA_"         -> {"BA_", "BA_SGTYPE_", "BA_REL_"} \union definitions
        [] keyword = "SGTYPE_"     -> {"SGTYPE_", "SGTYPE_VAL_"}
        [] OTHER                   -> {keyword}

NoConfig == [version |-> "", nodes |-> <<>>, messages |-> <<>>, comments |-> <<>>, values |-> <<>>]

\* The parser at the beginning of parseDbc(); item is the object under construction,
\* list the objects a loop has gathered, returned is true after an early return.
Begin(text) ==
  [file |-> text, parsingValid |-> TRUE, parsedObject |-> TRUE, out |-> "", item |-> <<>>,
   list |-> <<>>, returned |-> FALSE, config |-> NoConfig]

At(p, mark)        == p.file # <<>> /\ Head(p.file) = mark
Starts(p, keyword) == p.file # <<>> /\ Head(p.file) \in Starting(keyword)
Past(p, n)         == [p EXCEPT !.file = SubSeq(@, n + 1, Len(@))]
Absent(p)          == [p EXCEPT !.parsedObject = FALSE]
Invalid(p)         == [p EXCEPT !.parsedObject = FALSE, !.parsingValid = FALSE]
Found(p, value)    == [Past(p, 1) EXCEPT !.parsedObject = TRUE, !.parsingValid = TRUE, !.out = value]

-----------------------------------------------------------------------------
(***************************************************************************)
(* Words.  What is not as it should be stays in the file.                  *)
(***************************************************************************)

ParseCIdentifier(p) ==
  IF p.file # <<>> /\ Head(p.file) \in Names THEN Found(p, Head(p.file))
  ELSE [Invalid(p) EXCEPT !.out = ""]

ParseString(p) ==
  IF p.file # <<>> /\ Head(p.file) \in Strings THEN Found(p, Head(p.file))
  ELSE [Invalid(p) EXCEPT !.out = ""]

ParseDouble(p) ==
  IF p.file # <<>> /\ Head(p.file) \in DOMAIN Numbers THEN Found(p, Numbers[Head(p.file)])
  ELSE [Invalid(p) EXCEPT !.out = 0]

\* std::stoi throws for a number that is too large, after the word was taken.
ParseUInt(p) ==
  IF p.file = <<>> \/ Head(p.file) \notin Names \/ Head(p.file) \notin DOMAIN Numbers
    THEN [Invalid(p) EXCEPT !.out = 0]
  ELSE IF Numbers[Head(p.file)] > MaxInt THEN [Found(p, 0) EXCEPT !.parsingValid = FALSE]
  ELSE Found(p, Numbers[Head(p.file)])

TruncateToNextSemicolon(p) ==
  LET semicolons == {i \in DOMAIN p.file : p.file[i] = ";"}
  IN  IF semicolons = {} THEN Invalid(p)
      ELSE [Past(p, Min(semicolons)) EXCEPT !.parsedObject = TRUE]

\* The functions that pass over a line with a keyword.
PassLine(p, keyword) == IF Starts(p, keyword) THEN TruncateToNextSemicolon(p) ELSE Absent(p)

-----------------------------------------------------------------------------
(***************************************************************************)
(* Loops.  Each turn but the last takes one of the tokens in marks, so     *)
(* there are as many turns as the file has of them, and one more.          *)
(***************************************************************************)

Turns(p, marks) == Append(SelectSeq(p.file, LAMBDA token : token \in marks), "end")

\* while (parse()): the loops over a function that returns whether it found its object.
While(Parse(_), marks, p) ==
  LET Turn(q, token) == IF q.parsedObject THEN Parse(q) ELSE q
  IN  FoldLeft(Turn, [p EXCEPT !.parsedObject = TRUE], Turns(p, marks))

\* The loops that gather what they find and break when there is nothing.
Gather(Parse(_), marks, p) ==
  LET Turn(q, token) ==
        IF ~q.parsedObject THEN q
        ELSE LET r == Parse(q)
             IN  [r EXCEPT !.list = IF r.parsedObject THEN Append(q.list, r.out) ELSE q.list]
  IN  FoldLeft(Turn, [p EXCEPT !.parsedObject = TRUE, !.list = <<>>], Turns(p, marks))

-----------------------------------------------------------------------------
(***************************************************************************)
(* Messages and their signals: a sequence of marks and fields.             *)
(***************************************************************************)

UIntFields   == {"startBit", "signalSize", "byteOrder", "messageId", "messageSize"}
DoubleFields == {"factor", "offset", "minimum", "maximum"}
NameFields   == {"signalName", "messageName", "transmitterName"}

\* A field that cannot be read is left at zero, and the function goes on; a mark that is not
\* there makes it return.
ParseField(p, field) ==
  LET Into(q) == [q EXCEPT !.item[field] = q.out]
  IN  CASE p.returned              -> p
        [] field \in UIntFields   -> Into(ParseUInt(p))
        [] field \in DoubleFields -> Into(ParseDouble(p))
        [] field \in NameFields   -> Into(ParseCIdentifier(p))
        [] field = "unit"         -> Into(ParseString(p))
        [] field = "valueType"    ->
             IF At(p, "+") \/ At(p, "-") THEN [Past(p, 1) EXCEPT !.item.valueType = At(p, "-")]
             ELSE [Invalid(p) EXCEPT !.returned = TRUE]
        [] OTHER                  ->
             IF At(p, field) THEN Past(p, 1) ELSE [Invalid(p) EXCEPT !.returned = TRUE]

\* "M" or "m" and a number, between the name of a signal and its colon.
ParseMultiplex(p) ==
  IF At(p, "M") THEN [Past(p, 1) EXCEPT !.item.multiplexer = TRUE]
  ELSE IF At(p, "m") THEN LET q == ParseUInt(Past(p, 1)) IN [q EXCEPT !.item.multiplexedBy = q.out]
  ELSE p

\* Names with commas between them.
ParseReceivers(p) ==
  LET Turn(q, token) ==
        IF q.returned THEN q
        ELSE LET r == ParseCIdentifier(q)
             IN  IF ~r.parsingValid THEN [r EXCEPT !.returned = TRUE]
                 ELSE LET s == [r EXCEPT !.item.receivers = Append(@, r.out)]
                      IN  IF At(s, ",") THEN Past(s, 1) ELSE [s EXCEPT !.returned = TRUE]
  IN  FoldLeft(Turn, p, Turns(p, {","}))

NoSignal ==
  [signalName |-> "", multiplexer |-> FALSE, multiplexedBy |-> -1, startBit |-> 0, signalSize |-> 0,
   byteOrder |-> 0, valueType |-> FALSE, factor |-> 0, offset |-> 0, minimum |-> 0, maximum |-> 0,
   unit |-> "", receivers |-> <<>>]

SignalFields ==
  <<":", "startBit", "|", "signalSize", "@", "byteOrder", "valueType", "(", "factor", ",",
    "offset", ")", "[", "minimum", "|", "maximum", "]", "unit">>

ParseSignal(p) ==
  IF ~At(p, "SG_") THEN Absent(p)
  ELSE LET named  == ParseField([Past(p, 1) EXCEPT !.item = NoSignal, !.returned = FALSE], "signalName")
           fields == FoldLeft(ParseField, ParseMultiplex(named), SignalFields)
           q      == ParseReceivers(fields)
       IN  IF fields.returned THEN fields
           ELSE IF ~q.parsingValid \/ q.item.byteOrder \notin {0, 1} THEN Invalid(q)
           ELSE [q EXCEPT !.parsedObject = TRUE,
                   !.out = PhysicalRange([q.item EXCEPT !.byteOrder = (@ = 0)])]

MessageFields == <<"messageId", "messageName", ":", "messageSize", "transmitterName">>

\* In a message each field is checked.
ParseMessageField(p, field) ==
  LET q == ParseField(p, field)
  IN  IF q.parsingValid THEN q ELSE [Invalid(q) EXCEPT !.returned = TRUE]

NoMessage == [messageId |-> 0, messageName |-> "", messageSize |-> 0, transmitterName |-> ""]

ParseMessage(p) ==
  IF ~At(p, "BO_") THEN Absent(p)
  ELSE LET head == FoldLeft(ParseMessageField,
                            [Past(p, 1) EXCEPT !.item = NoMessage, !.returned = FALSE], MessageFields)
           q    == Gather(ParseSignal, {"SG_"}, head)
       IN  IF head.returned THEN head
           ELSE IF ~q.parsingValid THEN Invalid(q)
           ELSE [q EXCEPT !.parsedObject = TRUE, !.out = head.item @@ [signals |-> q.list]]

-----------------------------------------------------------------------------
(***************************************************************************)
(* The other objects.                                                      *)
(***************************************************************************)

\* What a comment is about: the functions that parse it, and what they returned.
CommentSubject(p) ==
  LET Then(q, subject) == [q EXCEPT !.item = subject]
      q     == Past(p, 1)
      name  == ParseCIdentifier(q)
      id    == ParseUInt(q)
      named == ParseCIdentifier(id)
  IN  CASE At(p, "BU_") \/ At(p, "EV_") -> Then(name, <<Head(p.file), name.out>>)
        [] At(p, "BO_")                 -> Then(id, <<"BO_", id.out>>)
        [] At(p, "SG_")                 -> Then(named, <<"SG_", id.out, named.out>>)
        [] OTHER                        -> Then(p, <<>>)

ParseComment(p) ==
  IF ~At(p, "CM_") THEN Absent(p)
  ELSE LET q == ParseString(CommentSubject(Past(p, 1)))
       IN  IF ~q.parsingValid \/ ~At(q, ";") THEN Invalid(q)
           ELSE [Past(q, 1) EXCEPT !.parsedObject = TRUE, !.out = Append(q.item, q.out)]

\* A number and its meaning; only whether the meaning is there counts.
ParseValueDescription(p) ==
  LET value   == ParseDouble(p)
      meaning == ParseString(value)
  IN  IF ~meaning.parsingValid THEN Invalid(meaning)
      ELSE [meaning EXCEPT !.out = <<value.out, meaning.out>>]

\* The loop ends at the semicolon, which it takes, or at a description that cannot be read.
ParseSignalValue(p) ==
  IF ~At(p, "VAL_") THEN Absent(p)
  ELSE LET id   == ParseUInt(Past(p, 1))
           name == ParseCIdentifier(id)
           Turn(q) == IF At(q, ";") THEN Absent(Past(q, 1)) ELSE ParseValueDescription(q)
           q    == Gather(Turn, Strings, name)
       IN  IF ~q.parsingValid THEN Invalid(q)
           ELSE [q EXCEPT !.parsedObject = TRUE, !.out = <<id.out, name.out, q.list>>]

ParseVersion(p) ==
  IF ~At(p, "VERSION") THEN [Absent(p) EXCEPT !.out = ""]
  ELSE ParseString([Past(p, 1) EXCEPT !.parsedObject = TRUE])

\* The names at the beginning of the file: as many as there are without a break.
LeadingNames(p, stop) ==
  LET first == SelectInSeq(p.file, LAMBDA token : token \notin Names \/ token \in stop)
  IN  IF first = 0 THEN Len(p.file) ELSE first - 1

\* The list ends with the name before a colon, which is the keyword of the bit timing.
ParseNewSymbols(p) ==
  IF ~At(p, "NS_") THEN Absent(p)
  ELSE LET q == Past(p, 1)
           r == Past(q, 1)
           n == LeadingNames(r, {})
       IN  IF ~At(q, ":") THEN Invalid(q)
           ELSE IF n > 0 /\ At(Past(r, n), ":")
             THEN [Past(r, n - 1) EXCEPT !.parsingValid = TRUE, !.parsedObject = TRUE]
           ELSE Invalid(Past(r, n))

ParseBitTiming(p) ==
  LET rate == ParseUInt(Past(p, 2))
      btr1 == ParseUInt(Past(rate, 1))
  IN  IF ~IsPrefix(<<"BS_", ":">>, p.file) THEN Invalid(p)
      ELSE IF At(Past(p, 2), "BU_") THEN [Past(p, 2) EXCEPT !.parsingValid = TRUE, !.parsedObject = TRUE]
      ELSE IF ~rate.parsingValid THEN [Absent(rate) EXCEPT !.parsingValid = TRUE]
      ELSE IF ~At(rate, ":") THEN Invalid(rate)
      ELSE IF ~At(btr1, ",") THEN Invalid(btr1)
      ELSE ParseUInt([Past(btr1, 1) EXCEPT !.parsedObject = TRUE])

\* The list ends at a keyword.
ParseNodes(p) ==
  LET q == Past(p, 2)
      n == LeadingNames(q, Symbols)
      r == Past(q, n)
  IN  IF ~IsPrefix(<<"BU_", ":">>, p.file) THEN Invalid(p)
      ELSE IF r.file = <<>> \/ Head(r.file) \notin Symbols THEN Invalid(r)
      ELSE [r EXCEPT !.parsingValid = TRUE, !.parsedObject = TRUE, !.out = SubSeq(q.file, 1, n)]

-----------------------------------------------------------------------------
(***************************************************************************)
(* The whole file.                                                         *)
(***************************************************************************)

\* Faulty Sections: the comments after the attributes are left out.
SectionsOnce ==
  <<"version", "symbols", "timing", "nodes", "VAL_TABLE_", "messages", "BO_TX_BU_", "EV_",
    "ENVVAR_DATA_", "SGTYPE_", "comments", "BA_DEF_", "BA_DEF_DEF_", "BA_", "values", "SGTYPE_",
    "SIG_GROUP_", "SIG_VALTYPE_">>

Sections ==
  <<"version", "symbols", "timing", "nodes", "VAL_TABLE_", "messages", "BO_TX_BU_", "EV_",
    "ENVVAR_DATA_", "SGTYPE_", "comments", "BA_DEF_", "BA_DEF_DEF_", "BA_", "comments", "values",
    "SGTYPE_", "SIG_GROUP_", "SIG_VALTYPE_">>

\* The lines of which a file has one at most, and the sections after which the flag is tested.
Single  == {"ENVVAR_DATA_", "SIG_GROUP_", "SIG_VALTYPE_"}
Checked == Single \union {"symbols", "timing", "nodes", "messages", "comments", "values"}

ParseSection(p, section) ==
  CASE section = "version"  -> LET q == ParseVersion(p) IN [q EXCEPT !.config.version = q.out]
    [] section = "symbols"  -> ParseNewSymbols(p)
    [] section = "timing"   -> ParseBitTiming(p)
    [] section = "nodes"    -> LET q == ParseNodes(p) IN [q EXCEPT !.config.nodes = q.out]
    [] section = "messages" -> LET q == Gather(ParseMessage, {"BO_"}, p) IN [q EXCEPT !.config.messages = q.list]
    [] section = "comments" ->
         LET q == Gather(ParseComment, {"CM_"}, p) IN [q EXCEPT !.config.comments = @ \o q.list]
    [] section = "values"   -> LET q == Gather(ParseSignalValue, {"VAL_"}, p) IN [q EXCEPT !.config.values = q.list]
    [] section \in Single   -> PassLine(p, section)
    [] OTHER                -> While(LAMBDA q : PassLine(q, section), Starting(section), p)

\* parseDbc: the config in a set, or the empty set for nullptr.
ParseDbc(text) ==
  LET Turn(q, section) ==
        IF q.returned THEN q
        ELSE LET r == ParseSection(q, section)
             IN  [r EXCEPT !.returned = section \in Checked /\ ~r.parsingValid]
      end == FoldLeft(Turn, Begin(text), Sections)
  IN  IF end.returned \/ end.file # <<>> THEN {} ELSE {end.config}
=============================================================================
