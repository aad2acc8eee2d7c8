----------------------------- MODULE SessionFile -----------------------------
(***************************************************************************)
(* The file of one logging session, from its first byte to its replay      *)
(* (src/src/can_stream, src/src/logging/model/logging_detail_proxy.cpp).   *)
(* The worker of the session writes it through an Mdf4Writer; the detail   *)
(* view pages through it, an export turns it into a CSV file or copies it, *)
(* and a replay plays it or the export, each with a reader of its own,     *)
(* while it is written or afterwards.  The program may crash at any time   *)
(* and be started again.                                                   *)
(*                                                                         *)
(* A file is its header and the records of the DT block.  A record of a    *)
(* raw session is one cell, the frame; one of a DBC session is a cell for  *)
(* the byte with the record id and a cell for each signal.  The time of a  *)
(* record is left out, and so is the padding and linking of the blocks.    *)
(***************************************************************************)
EXTENDS Naturals, Sequences, SequencesExt, FiniteSetsExt

CONSTANTS
  Frames,      \* the raw frames: [id, dlc, data]
  DbcMessages, \* the decoded messages: [id, values], values a function of signal names
  Schemas,     \* what a DBC session may record: sequences of [msgId, signals]
  IdRange,     \* 2^11, the standard identifiers
  ByteRange,   \* 2^8: a record id is one byte
  Capacity,    \* BUFFER_CAPACITY, in cells
  PageSize,    \* DETAIL_PAGE_SIZE
  MaxWrites,   \* bound: how many messages the worker writes
  Dash         \* what a CSV row has for a signal its message lacks

\* A schema comes from a map with the message ids as keys, and the dialog asks
\* for one signal at least.  A decoded message has the identifier of its frame.
\* With more messages than a byte can number, or with a signal that has the name
\* of the column of identifiers, the records of a file are confused (see the
\* README): such schemas are left out.
ASSUME SessionFileAssumption ==
  /\ IdRange \in Nat \ {0} /\ ByteRange \in Nat \ {0}
  /\ Capacity \in Nat \ {0} /\ PageSize \in Nat \ {0} /\ MaxWrites \in Nat
  /\ \A f \in Frames :
       /\ f.id \in 0 .. IdRange - 1
       /\ f = [id |-> f.id, dlc |-> f.dlc, data |-> f.data]
  /\ \A m \in DbcMessages :
       /\ m.id \in 0 .. IdRange - 1
       /\ \A name \in DOMAIN m.values : m.values[name] \in Nat
  /\ \A s \in Schemas :
       /\ s \in Seq([msgId : Nat, signals : Seq(STRING)])
       /\ Len(s) \in 1 .. ByteRange
       /\ \A i, j \in DOMAIN s : s[i].msgId = s[j].msgId => i = j
       /\ \A i \in DOMAIN s :
            /\ Len(s[i].signals) < ByteRange /\ IsInjective(s[i].signals)
            /\ "MsgID" \notin Range(s[i].signals)
  /\ Dash \notin Nat

VARIABLES
  file,    \* what is on the disk
  writer,  \* the Mdf4Writer of the session's worker, and its ofstream
  written, \* the messages the worker has passed to write(), in order
  detail,  \* the detail view and its proxy
  export,  \* the last file that was exported
  player   \* the replay: its reader, what it has sent, whether it has ended

fileVars == <<file, writer, written, detail, export, player>>

NoFile   == [header |-> "none", kind |-> "raw", schema |-> <<>>,
             cells |-> <<>>, length |-> 0, counts |-> <<>>]
NoWriter == [step |-> "off", buffer |-> <<>>, stream |-> <<>>,
             bytes |-> 0, counts |-> <<>>]
NoDetail == [open |-> FALSE, offset |-> 0, page |-> <<>>, reader |-> <<>>]
NoPlayer == [source |-> "none", reader |-> <<>>, out |-> <<>>, ended |-> TRUE]
NoExport == [format |-> "none", kind |-> "raw", file |-> NoFile,
             columns |-> <<>>, rows |-> <<>>]

FileInit ==
  /\ file = NoFile /\ writer = NoWriter /\ written = <<>>
  /\ detail = NoDetail /\ export = NoExport /\ player = NoPlayer

-----------------------------------------------------------------------------
(***************************************************************************)
(* The writer: Mdf4Writer.  write() fills m_buffer; flush() hands it to    *)
(* the ofstream, which passes its bytes to the disk when it likes and      *)
(* before every seek; close() patches the length of the DT block and the   *)
(* counts, which say nothing until then.                                   *)
(***************************************************************************)

\* The constructor: the file is created, and its header is still in the stream.
Create(kind, schema) ==
  /\ writer.step = "off" /\ file.header = "none"
  /\ kind = "raw" <=> schema = <<>>
  /\ file' = [NoFile EXCEPT !.header = "torn", !.kind = kind, !.schema = schema]
  /\ writer' = [writer EXCEPT !.step = "header"]
  /\ UNCHANGED <<written, detail, export, player>>

\* The end of the constructor: m_file.flush() brings the header to the disk.
FlushHeader ==
  /\ writer.step = "header"
  /\ LET zeros == IF file.kind = "raw" THEN <<0>> ELSE [i \in DOMAIN file.schema |-> 0] IN
       /\ file' = [file EXCEPT !.header = "whole", !.counts = zeros]
       /\ writer' = [writer EXCEPT !.step = "write", !.counts = zeros]
  /\ UNCHANGED <<written, detail, export, player>>

RecordId(i) == (i - 1) % ByteRange

\* The groups of a schema that m_msgMeta maps an id to: one or none.
GroupsOf(schema, id) == {i \in DOMAIN schema : schema[i].msgId = id}

\* The cells of a message: the values in the order of the schema, 0.0 for a
\* signal the message does not have; nothing for a message of no group.
Record(kind, schema, m) ==
  IF kind = "raw" THEN <<m>>
  ELSE IF GroupsOf(schema, m.id) = {} THEN <<>>
  ELSE LET i == CHOOSE g \in GroupsOf(schema, m.id) : TRUE
           Cell(name) == IF name \in DOMAIN m.values THEN m.values[name] ELSE 0
       IN  <<RecordId(i)>> \o [k \in DOMAIN schema[i].signals |-> Cell(schema[i].signals[k])]

\* m_recordCounts after a message.
Counted(kind, schema, m, counts) ==
  IF kind = "raw" THEN [counts EXCEPT ![1] = @ + 1]
  ELSE [i \in DOMAIN counts |->
          IF \E g \in GroupsOf(schema, m.id) : RecordId(g) + 1 = i
          THEN counts[i] + 1 ELSE counts[i]]

Flushed(w) == [w EXCEPT !.stream = @ \o w.buffer, !.buffer = <<>>]

Write(m) ==
  /\ writer.step = "write" /\ Len(written) < MaxWrites
  /\ LET record == Record(file.kind, file.schema, m)
         w == [writer EXCEPT !.buffer = @ \o record, !.bytes = @ + Len(record),
                             !.counts = Counted(file.kind, file.schema, m, @)]
     IN  writer' = IF record # <<>> /\ Len(w.buffer) >= Capacity THEN Flushed(w) ELSE w
  /\ written' = Append(written, m)
  /\ UNCHANGED <<file, detail, export, player>>

\* The worker flushes every WORKER_FLUSH_INTERVAL.
Flush ==
  /\ writer.step = "write" /\ writer.buffer # <<>>
  /\ writer' = Flushed(writer)
  /\ UNCHANGED <<file, written, detail, export, player>>

\* The ofstream passes the first n cells on, because its buffer is full.
Spill(n) ==
  /\ writer.step = "write" /\ n \in 1 .. Len(writer.stream)
  /\ file' = [file EXCEPT !.cells = @ \o SubSeq(writer.stream, 1, n)]
  /\ writer' = [writer EXCEPT !.stream = SubSeq(@, n + 1, Len(@))]
  /\ UNCHANGED <<written, detail, export, player>>

\* Faulty CloseFlush: the seek comes before the flush.
CloseSeeksFirst ==
  /\ writer.step = "write"
  /\ file' = [file EXCEPT !.cells = @ \o writer.stream]
  /\ writer' = [writer EXCEPT !.step = "length", !.stream = writer.buffer, !.buffer = <<>>]
  /\ UNCHANGED <<written, detail, export, player>>

\* close(): the last flush, then patchU64 seeks, which empties the stream.
CloseFlush ==
  /\ writer.step = "write"
  /\ file' = [file EXCEPT !.cells = @ \o Flushed(writer).stream]
  /\ writer' = [writer EXCEPT !.step = "length", !.stream = <<>>, !.buffer = <<>>]
  /\ UNCHANGED <<written, detail, export, player>>

PatchLength ==
  /\ writer.step = "length"
  /\ file' = [file EXCEPT !.length = writer.bytes]
  /\ writer' = [writer EXCEPT !.step = "counts"]
  /\ UNCHANGED <<written, detail, export, player>>

PatchCounts ==
  /\ writer.step = "counts"
  /\ file' = [file EXCEPT !.counts = writer.counts]
  /\ writer' = [writer EXCEPT !.step = "closed"]
  /\ UNCHANGED <<written, detail, export, player>>

\* The program dies and is started again: the files remain, the list of the
\* sessions and with it the detail view does not.
Crash ==
  /\ writer.step \notin {"off", "crashed"}
  /\ writer' = [NoWriter EXCEPT !.step = "crashed"]
  /\ detail' = NoDetail /\ player' = NoPlayer
  /\ UNCHANGED <<file, written, export>>

-----------------------------------------------------------------------------
(***************************************************************************)
(* The reader of MDF4 files: Mdf4Reader.  open() reads the header and, in  *)
(* a DBC file, walks through the records to find where each one starts;    *)
(* read() then fetches one from the disk.                                  *)
(***************************************************************************)

\* The group a record id belongs to: of two with the same id the last one.
GroupByRecId(schema, id) == Max({i \in DOMAIN schema : RecordId(i) = id})

Known(schema, id) == \E i \in DOMAIN schema : RecordId(i) = id

\* buildDbcIndex: the walk stops where the DT block ends, or the file, and at an
\* id of no group, which open() then refuses.
Walk(f) ==
  LET from[p \in 1 .. f.length + ByteRange + 1] ==
        IF p > f.length \/ p > Len(f.cells) THEN <<>>
        ELSE IF ~Known(f.schema, f.cells[p]) THEN <<p>>
        ELSE <<p>> \o from[p + 1 + Len(f.schema[GroupByRecId(f.schema, f.cells[p])].signals)]
  IN  from[1]

Mdf4Offsets(f) == IF f.kind = "raw" THEN [i \in 1 .. f.length |-> i] ELSE Walk(f)

\* open() returns true.
Mdf4Opens(f) ==
  /\ f.header = "whole"
  /\ f.kind = "dbc" => \A p \in Range(Mdf4Offsets(f)) : Known(f.schema, f.cells[p])

\* The elements of s that are in S, in their order.
Picked(s, S) ==
  LET picked[n \in 0 .. Len(s)] ==
        IF n = 0 THEN <<>>
        ELSE IF s[n] \in S THEN Append(picked[n - 1], s[n]) ELSE picked[n - 1]
  IN  picked[Len(s)]

\* The columns of a DBC file: each name once, in the order of the groups.
ColumnsOf(schema) ==
  LET columns[g \in 0 .. Len(schema)] ==
        IF g = 0 THEN <<>>
        ELSE LET names == schema[g].signals
             IN  columns[g - 1] \o Picked(names, Range(names) \ Range(columns[g - 1]))
  IN  columns[Len(schema)]

\* A DBC file with a signal "ID" is read as one of raw frames.  With more columns,
\* or with a signal "Data", its rows pass for such frames: also left out.
ASSUME ColumnsAssumption ==
  \A s \in Schemas : "ID" \in Range(ColumnsOf(s)) =>
                       Len(ColumnsOf(s)) <= 4 /\ "Data" \notin Range(ColumnsOf(s))

OpenMdf4(f) ==
  [format |-> "mf4", kind |-> f.kind, offsets |-> Mdf4Offsets(f),
   count |-> Len(Mdf4Offsets(f)), cursor |-> 0]

\* readAt: the i-th record, if the disk has all of its cells.
Mdf4Has(f, offsets, i) ==
  LET p == offsets[i]
      payload == IF f.kind = "raw" THEN 0
                 ELSE Len(f.schema[GroupByRecId(f.schema, f.cells[p])].signals)
  IN  p + payload <= Len(f.cells)

Mdf4Record(f, offsets, i) ==
  LET p == offsets[i] IN
  IF f.kind = "raw" THEN [f.cells[p] EXCEPT !.id = @ % IdRange]
  ELSE LET group == f.schema[GroupByRecId(f.schema, f.cells[p])]
       IN  [id |-> group.msgId,
            values |-> [name \in Range(group.signals) |->
                          f.cells[p + (CHOOSE k \in DOMAIN group.signals :
                                         group.signals[k] = name)]]]

\* The records a loop of read() yields from an offset on, at most n.
Mdf4Slice(f, offsets, from, n) ==
  LET k == Max({j \in 0 .. n : from + j <= Len(offsets)
                                 /\ \A i \in 1 .. j : Mdf4Has(f, offsets, from + i)})
  IN  [i \in 1 .. k |-> Mdf4Record(f, offsets, from + i)]

-----------------------------------------------------------------------------
(***************************************************************************)
(* CSV files: CsvWriter and CsvReader.                                     *)
(***************************************************************************)

\* The columns of raw frames, named without blanks and units.
RawColumns == <<"Time", "Channel", "ID", "Direction", "DLC", "DataLength", "Data">>

CsvColumns(f) ==
  IF f.kind = "raw" THEN RawColumns
  ELSE <<"Time", "MsgID">> \o ColumnsOf(f.schema)

\* setprecision(3): a value, in ten-thousandths, is printed in thousandths.
Printed(v) == ((v + 5) \div 10) * 10

\* The fields splitLine finds in the row write() prints.  A frame without data
\* ends its row with a comma, and std::getline yields no field after it.
CsvRow(kind, columns, m) ==
  IF kind = "raw"
  THEN <<Dash, 1, m.id, "Rx", m.dlc, m.dlc>> \o (IF m.dlc = 0 THEN <<>> ELSE <<m.data>>)
  ELSE [i \in DOMAIN columns |->
          IF i = 1 THEN Dash
          ELSE IF columns[i] = "MsgID" THEN m.id
          ELSE IF columns[i] \in DOMAIN m.values THEN Printed(m.values[columns[i]])
          ELSE Dash]

\* open() takes a file with a column "ID" for one of raw frames.
CsvKind(columns) == IF "ID" \in Range(columns) THEN "raw" ELSE "dbc"

OpenCsv(columns, rows) ==
  [format |-> "csv", kind |-> CsvKind(columns), offsets |-> <<>>,
   count |-> Len(rows), cursor |-> 0]

\* The place of a column, as an index of the fields; m_colData is 6 by default.
ColumnOf(columns, name, default) ==
  LET places == {i \in DOMAIN columns : columns[i] = name}
  IN  IF places = {} THEN default + 1 ELSE Max(places)

\* read() returns true for this row.
CsvReads(kind, columns, row) ==
  IF kind = "raw" THEN Len(row) >= ColumnOf(columns, "Data", 6) ELSE row # <<>>

CsvRecord(kind, columns, row) ==
  IF kind = "raw"
  THEN [id |-> row[ColumnOf(columns, "ID", 2)] % IdRange,
        dlc |-> row[ColumnOf(columns, "DLC", 4)],
        data |-> row[ColumnOf(columns, "Data", 6)]]
  ELSE LET signal == {i \in 2 .. Len(columns) : columns[i] # "MsgID" /\ row[i] # Dash}
       IN  [id |-> row[ColumnOf(columns, "MsgID", 1)] % IdRange,
            values |-> [name \in {columns[i] : i \in signal} |->
                          row[CHOOSE i \in signal : columns[i] = name]]]

-----------------------------------------------------------------------------
(***************************************************************************)
(* The detail view: a LoggingDetailProxy with a reader of its own, and the *)
(* buttons of the paginator.                                               *)
(***************************************************************************)

Listed == writer.step \notin {"off", "header", "crashed"}

\* Faulty LoadPage: the reader goes on from where it stands.
LoadPageUnsought(d, offset) ==
  IF offset > Len(d.reader) THEN d
  ELSE [d EXCEPT !.offset = offset,
                 !.page = Mdf4Slice(file, d.reader, d.offset + Len(d.page), PageSize)]

\* loadPage: a seek, and reads until the page is full or one fails.
LoadPage(d, offset) ==
  IF offset > Len(d.reader) THEN d
  ELSE [d EXCEPT !.offset = offset, !.page = Mdf4Slice(file, d.reader, offset, PageSize)]

OpenDetail ==
  /\ Listed /\ ~detail.open /\ Mdf4Opens(file)
  /\ detail' = LoadPage([NoDetail EXCEPT !.open = TRUE, !.reader = Mdf4Offsets(file)], 0)
  /\ UNCHANGED <<file, writer, written, export, player>>

CurrentPage == detail.offset \div PageSize + 1

NextPage ==
  /\ detail.open /\ detail.offset + PageSize < Len(detail.reader)
  /\ detail' = LoadPage(detail, CurrentPage * PageSize)
  /\ UNCHANGED <<file, writer, written, export, player>>

PrevPage ==
  /\ detail.open /\ detail.offset > 0
  /\ detail' = LoadPage(detail, (CurrentPage - 2) * PageSize)
  /\ UNCHANGED <<file, writer, written, export, player>>

Back ==
  /\ detail.open /\ detail' = NoDetail
  /\ UNCHANGED <<file, writer, written, export, player>>

-----------------------------------------------------------------------------
(***************************************************************************)
(* The export of a listed session: CanConverter.                           *)
(***************************************************************************)

\* The user names a file that no replay reads.
CanExport == Listed /\ (player.ended \/ player.source # "export")

ExportMdf4 ==
  /\ CanExport
  /\ export' = [NoExport EXCEPT !.format = "mf4", !.kind = file.kind, !.file = file]
  /\ UNCHANGED <<file, writer, written, detail, player>>

ExportCsv ==
  /\ CanExport /\ Mdf4Opens(file)
  /\ LET columns == CsvColumns(file)
         offsets == Mdf4Offsets(file)
         records == Mdf4Slice(file, offsets, 0, Len(offsets))
     IN  export' = [NoExport EXCEPT !.format = "csv", !.kind = file.kind, !.columns = columns,
                      !.rows = [i \in DOMAIN records |-> CsvRow(file.kind, columns, records[i])]]
  /\ UNCHANGED <<file, writer, written, detail, player>>

-----------------------------------------------------------------------------
(***************************************************************************)
(* The replay of the session's file, which is found by a scan of logs/, or *)
(* of an exported one, which the user adds: the loop of                    *)
(* ReplayProducerWorker::runReplayLoop over a reader.                      *)
(***************************************************************************)

\* The MDF4 file a source stands for.
FileOf(source) == IF source = "session" THEN file ELSE export.file

Play(source) ==
  /\ writer.step \notin {"off", "header"} /\ player.ended
  /\ source = "export" => export.format # "none"
  /\ IF source = "export" /\ export.format = "csv"
     THEN player' = [NoPlayer EXCEPT !.source = source, !.reader = OpenCsv(export.columns, export.rows),
                                     !.ended = FALSE]
     ELSE /\ Mdf4Opens(FileOf(source))
          /\ player' = [NoPlayer EXCEPT !.source = source, !.reader = OpenMdf4(FileOf(source)),
                                        !.ended = FALSE]
  /\ UNCHANGED <<file, writer, written, detail, export>>

AtEof(p) == p.reader.cursor >= p.reader.count

\* read() is true: the message goes out, the cursor is behind it.
PlayRecord ==
  /\ ~player.ended /\ ~AtEof(player)
  /\ LET i == player.reader.cursor + 1
         r == player.reader
     IN  /\ IF r.format = "csv" THEN CsvReads(r.kind, export.columns, export.rows[i])
            ELSE Mdf4Has(FileOf(player.source), r.offsets, i)
         /\ player' = [player EXCEPT !.reader.cursor = i, !.out = Append(@,
              IF r.format = "csv" THEN CsvRecord(r.kind, export.columns, export.rows[i])
              ELSE Mdf4Record(FileOf(player.source), r.offsets, i))]
  /\ UNCHANGED <<file, writer, written, detail, export>>

\* Faulty PlayFails: a message that cannot be read is skipped.
PlaySkips ==
  /\ ~player.ended /\ ~AtEof(player)
  /\ LET i == player.reader.cursor + 1
         r == player.reader
     IN  /\ ~ IF r.format = "csv" THEN CsvReads(r.kind, export.columns, export.rows[i])
              ELSE Mdf4Has(FileOf(player.source), r.offsets, i)
         /\ player' = [player EXCEPT !.reader.cursor = i]
  /\ UNCHANGED <<file, writer, written, detail, export>>

\* read() is false: the loop breaks.  CsvReader has gone on to the next row,
\* Mdf4Reader has not.
PlayFails ==
  /\ ~player.ended /\ ~AtEof(player)
  /\ LET i == player.reader.cursor + 1
         r == player.reader
     IN  /\ ~ IF r.format = "csv" THEN CsvReads(r.kind, export.columns, export.rows[i])
              ELSE Mdf4Has(FileOf(player.source), r.offsets, i)
         /\ player' = [player EXCEPT !.ended = TRUE,
                         !.reader.cursor = IF r.format = "csv" THEN i ELSE @]
  /\ UNCHANGED <<file, writer, written, detail, export>>

PlayEnds ==
  /\ ~player.ended /\ AtEof(player)
  /\ player' = [player EXCEPT !.ended = TRUE]
  /\ UNCHANGED <<file, writer, written, detail, export>>

PlayStops ==
  /\ ~player.ended /\ player' = NoPlayer
  /\ UNCHANGED <<file, writer, written, detail, export>>

-----------------------------------------------------------------------------
Messages(kind) == IF kind = "raw" THEN Frames ELSE DbcMessages

FileNext ==
  \/ \E kind \in {"raw", "dbc"}, schema \in Schemas \union {<<>>} : Create(kind, schema)
  \/ FlushHeader
  \/ \E m \in Messages(file.kind) : Write(m)
  \/ Flush
  \/ \E n \in 1 .. Len(writer.stream) : Spill(n)
  \/ CloseFlush \/ PatchLength \/ PatchCounts \/ Crash
  \/ OpenDetail \/ NextPage \/ PrevPage \/ Back
  \/ ExportMdf4 \/ ExportCsv
  \/ \E source \in {"session", "export"} : Play(source)
  \/ PlayRecord \/ PlayFails \/ PlayEnds \/ PlayStops

FileSpec == FileInit /\ [][FileNext]_fileVars

-----------------------------------------------------------------------------
(***************************************************************************)
(* Properties.                                                             *)
(***************************************************************************)

\* What a file should say of a message: a frame as it is, a decoded message with
\* the signals of its schema, 0 for one it lacks.
Stored(kind, schema, m) ==
  IF kind = "raw" THEN m
  ELSE LET names == UNION {Range(schema[i].signals) : i \in GroupsOf(schema, m.id)}
       IN  [id |-> m.id, values |-> [n \in names |-> IF n \in DOMAIN m.values
                                                      THEN m.values[n] ELSE 0]]

\* The messages a session records: those of its schema.
Selected(kind, schema) ==
  {m \in Messages(kind) : kind = "raw" \/ GroupsOf(schema, m.id) # {}}

\* What the session has recorded: the messages of its schema, in order.
Recorded ==
  LET kept == Picked(written, Selected(file.kind, file.schema))
  IN  [i \in DOMAIN kept |-> Stored(file.kind, file.schema, kept[i])]

\* The records of the whole file, as a reader opened now would read them.
Readable == Mdf4Slice(file, Mdf4Offsets(file), 0, file.length)

\* A reader that opens the file at any time, while it is written, between two
\* steps of close() or after a crash, sees all of the session or none of it: the
\* length of the DT block, patched after the last flush, never reaches beyond the
\* records the disk has, and a closed file is complete.
AllOrNothing ==
  file.header = "whole" =>
    /\ Mdf4Opens(file)
    /\ Readable \in {<<>>, Recorded}
    /\ writer.step \in {"counts", "closed"} => Readable = Recorded

\* The detail view shows the records of its page and no others, whichever way
\* the user has paged there; a view opened before the file was finished stays empty.
PageIsSlice ==
  detail.open =>
    \/ detail.reader = <<>> /\ detail.page = <<>> /\ detail.offset = 0
    \/ /\ detail.offset % PageSize = 0 /\ detail.offset < Len(Recorded)
       /\ detail.page = SubSeq(Recorded, detail.offset + 1,
                               Min({detail.offset + PageSize, Len(Recorded)}))

\* What a replay of a CSV file should send for a record: the printed values.
Rounded(m) ==
  IF file.kind = "raw" THEN m
  ELSE [m EXCEPT !.values = [n \in DOMAIN m.values |-> Printed(m.values[n])]]

\* A replay of a CSV file ends before the first frame without data, whose row
\* CsvReader refuses, and sends nothing of a DBC file that has a column "ID".
UntilRefused(records) ==
  LET refused == {i \in DOMAIN records : file.kind = "raw" /\ records[i].dlc = 0}
  IN  IF file.kind = "dbc" /\ "ID" \in Range(ColumnsOf(file.schema)) THEN <<>>
      ELSE SubSeq(records, 1, IF refused = {} THEN Len(records) ELSE Min(refused) - 1)

\* A replay, of the session's file, of a copy or of a CSV export, sends the
\* recorded messages in their order, none twice and none left out in between,
\* the values of a CSV file rounded; and one that runs to its end has sent all of
\* them, or up to where CsvReader refuses a row, unless the file was not finished
\* when it was opened or exported.
PlayedIsRecorded ==
  LET csv == player.reader.format = "csv"
      due == IF csv THEN [i \in DOMAIN Recorded |-> Rounded(Recorded[i])] ELSE Recorded
  IN  player.source # "none" =>
        /\ IsPrefix(player.out, due)
        /\ player.ended => player.out \in {<<>>, IF csv THEN UntilRefused(due) ELSE due}
=============================================================================
