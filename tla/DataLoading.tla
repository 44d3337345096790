----------------------------- MODULE DataLoading -----------------------------
(***************************************************************************)
(* How a worker gets the table of a query: a data_loader (io/DataLoader.cpp) *)
(* takes files from its provider (io/data_provider) and lets its parser    *)
(* (io/data_parser) turn them into columns.  parseSchemaService makes a    *)
(* loader to read the schema; executeFileSystemPlanService makes another,  *)
(* and the query calls its load_data once for every scan of the table, with *)
(* the schema of the request, which a loader like the first made before,   *)
(* here or on another worker.                                              *)
(*                                                                         *)
(* The file system and the readers of cuDF and Arrow are external: they    *)
(* open or do not open a file, read as many bytes as they like, and return *)
(* the columns they are asked for.  A cell of a column is known by its     *)
(* file, its column and its row; a row of a csv file is read as one unit.  *)
(***************************************************************************)
EXTENDS Lists, SequencesExt

CONSTANTS
  Tables,             \* the tables and their scans, records of Table
  Rows,               \* the rows of each file
  Listing,            \* the entries of each directory
  Unreadable,         \* files that exist and cannot be opened
  Missing,            \* names of no file
  InMemory,           \* the table of gdf columns, which has no file
  EmptyReadsAllowed,  \* of read_file_into_buffer: 10
  SchemaBytes,        \* how much of a csv file is read for its schema: 8192
  Null                \* no file

(* columns: the names of the columns in the files; dates: those of type    *)
(* DATE32; scans: the column_indices of each load_data, <<>> for all.      *)
Uri == DOMAIN Rows \cup DOMAIN Listing \cup Unreadable \cup Missing
Parser == {"csv", "parquet", "gdf"}

(* parse_schema: parquet leaves out the columns of type DATE32; the schema *)
(* of gdf columns is made by the client.                                   *)
parse_schema(t) ==
  IF t.parser = "parquet" THEN Kept(t.columns, Range(t.columns) \ t.dates) ELSE t.columns

(* A scan names columns of the schema, each once (the plan was made from   *)
(* the schema), and a query scans its tables.                              *)
ASSUME TablesAreTables ==
  \A t \in Tables :
    /\ t.parser \in Parser /\ t.uris \in Seq(Uri)
    /\ t.columns \in Seq(Range(t.columns)) /\ IsInjective(t.columns)
    /\ t.dates \subseteq Range(t.columns)
    /\ t.scans \in Seq(Range(t.scans)) /\ t.scans # <<>>
    /\ \A i \in DOMAIN t.scans :
         t.scans[i] \in Seq(0 .. Len(parse_schema(t)) - 1) /\ IsInjective(t.scans[i])
ASSUME NullIsNoFile == Null \notin Uri
ASSUME SizesAreNumbers ==
  /\ InMemory \in DOMAIN Rows /\ \A f \in DOMAIN Rows : Rows[f] \in Nat
  /\ \A d \in DOMAIN Listing : Listing[d] \in Seq(Uri)
  /\ EmptyReadsAllowed \in Nat \ {0} /\ SchemaBytes \in Nat \ {0}

VARIABLES
  table,                   \* the table
  schema,                  \* ral::io::Schema: the names of its columns
  task,                    \* 0 for get_schema, or the number of the scan
  pc,                      \* where the loader is
  current_file,            \* of uri_data_provider
  directory_uris,
  directory_current_file,
  opened_files,
  file,                    \* the file get_next returned
  total_read,              \* of read_file_into_buffer
  empty_reads,
  columns_per_file,        \* of load_data; in get_schema, the files of get_all
  loaded_columns,          \* of gdf_parser
  handles,                 \* of gdf_parser: the columns whose memory it opened
  columns                  \* what load_data returns

provider == <<current_file, directory_uris, directory_current_file, opened_files>>
reader == <<file, total_read, empty_reads>>
parser == <<loaded_columns, handles>>
vars == <<table, schema, task, pc, provider, reader, columns_per_file, parser, columns>>

file_uris == IF table.parser = "gdf" THEN <<>> ELSE table.uris

(* A new loader with a new provider.                                       *)
Fresh ==
  /\ current_file' = 0 /\ directory_uris' = <<>> /\ directory_current_file' = 0
  /\ opened_files' = {} /\ columns_per_file' = <<>>

Init ==
  /\ table \in Tables
  /\ \/ task = 0 /\ table.parser # "gdf" /\ schema = <<>>
     \/ task = 1 /\ schema = parse_schema(table)
  /\ pc = "iterating"
  /\ current_file = 0 /\ directory_uris = <<>> /\ directory_current_file = 0
  /\ opened_files = {}
  /\ file = Null /\ total_read = 0 /\ empty_reads = 0
  /\ columns_per_file = <<>>
  /\ loaded_columns = <<>> /\ handles = <<>>
  /\ columns = <<>>

-----------------------------------------------------------------------------
(* uri_data_provider; dummy_data_provider has no file.                     *)

(* Mutant: one more than there are.                                        *)
has_next_or_end == current_file <= Len(file_uris)

has_next == current_file < Len(file_uris)

(* What get_next reads next: the index into the directory that is open, or *)
(* into the list itself.                                                   *)
uris == IF directory_uris = <<>> THEN file_uris ELSE directory_uris
position == IF directory_uris = <<>> THEN current_file ELSE directory_current_file
next_uri == uris[position + 1]
Calls == pc = "iterating" /\ has_next /\ position < Len(uris)

(* get_next hands over the file at u, or nullptr if it cannot be opened:   *)
(* load_data skips it with a message, and get_all keeps it.                *)
Hand(u) ==
  LET f == IF u \in DOMAIN Rows THEN u ELSE Null IN
  /\ opened_files' = opened_files \cup {f}
  /\ IF task = 0
       THEN /\ columns_per_file' = Append(columns_per_file, f)
            /\ UNCHANGED <<pc, file>>
       ELSE /\ file' = f
            /\ pc' = IF f = Null THEN "iterating" ELSE "opened"
            /\ UNCHANGED columns_per_file
  /\ UNCHANGED <<table, schema, task, total_read, empty_reads, parser, columns>>

(* Mutants: a scan does not advance the index past what cannot be opened;  *)
(* the index is advanced twice.                                            *)
NextFileIfReadable ==
  /\ Calls /\ directory_uris = <<>>
  /\ next_uri \notin Missing \cup DOMAIN Listing
  /\ current_file' = IF next_uri \in Unreadable /\ task > 0 THEN current_file ELSE current_file + 1
  /\ Hand(next_uri)
  /\ UNCHANGED <<directory_uris, directory_current_file>>

NextFileTwice ==
  /\ Calls /\ directory_uris = <<>>
  /\ next_uri \notin Missing \cup DOMAIN Listing
  /\ current_file' = current_file + 2
  /\ Hand(next_uri)
  /\ UNCHANGED <<directory_uris, directory_current_file>>

NextFile ==
  /\ Calls /\ directory_uris = <<>>
  /\ next_uri \notin Missing \cup DOMAIN Listing
  /\ current_file' = current_file + 1
  /\ Hand(next_uri)
  /\ UNCHANGED <<directory_uris, directory_current_file>>

Stops(how) ==
  /\ pc' = how
  /\ UNCHANGED <<table, schema, task, provider, reader, columns_per_file, parser, columns>>

(* A name of no file: get_next throws, and the service or the query ends   *)
(* with an error.                                                          *)
NextMissing ==
  /\ Calls /\ directory_uris = <<>>
  /\ next_uri \in Missing
  /\ Stops("threw")

(* get_next lists a directory and calls itself: it hands over the first    *)
(* entry, or calls itself for ever if there is none.                       *)
EnterDirectory ==
  /\ Calls /\ directory_uris = <<>>
  /\ next_uri \in DOMAIN Listing /\ Listing[next_uri] # <<>>
  /\ directory_uris' = Listing[next_uri]
  /\ directory_current_file' = 1
  /\ Hand(Listing[next_uri][1])
  /\ UNCHANGED current_file

EnterEmptyDirectory ==
  /\ Calls /\ directory_uris = <<>>
  /\ next_uri \in DOMAIN Listing /\ Listing[next_uri] = <<>>
  /\ Stops("overflow")

(* Inside a directory: the index is compared with > against the size, so   *)
(* the directory would be left only one call after its last entry ...      *)
NextOfDirectory ==
  /\ Calls /\ directory_uris # <<>>
  /\ directory_current_file' = directory_current_file + 1
  /\ Hand(next_uri)
  /\ UNCHANGED <<current_file, directory_uris>>

(* ... and that call, with the one for the readable handle before it,      *)
(* reads past the end of the list.                                         *)
NextPastTheEnd ==
  /\ pc = "iterating" /\ has_next /\ position = Len(uris)
  /\ Stops("undefined")

-----------------------------------------------------------------------------
(* The parsers.                                                            *)

All(names) == [i \in DOMAIN names |-> i - 1]

(* No column_indices means all the columns of the schema.                  *)
Wanted(column_indices) == IF column_indices = <<>> THEN All(schema) ELSE column_indices

Column(f, name) == [name |-> name, cells |-> [r \in 1 .. Rows[f] |-> <<f, name, r>>]]

(* create_empty_columns.                                                   *)
create_empty_columns(w) == [i \in DOMAIN w |-> [name |-> schema[w[i] + 1], cells |-> <<>>]]

(* csv_parser::parse: the reader returns the columns in the order of the   *)
(* file, and they are put back through the argsort of the indices.         *)
argsort(w) == Ranked(w)

(* Mutant: they are gathered instead of scattered.                         *)
put_back_gathered(read, idx) == [i \in DOMAIN idx |-> read[idx[i]]]

put_back(read, idx) ==
  [j \in DOMAIN idx |-> read[CHOOSE i \in DOMAIN idx : idx[i] = j]]

parse_csv(f, w) ==
  LET idx == argsort(w)
      read == [i \in DOMAIN w |-> Column(f, table.columns[w[idx[i]] + 1])]
  IN put_back(read, idx)

(* parquet_parser::parse asks the reader for the columns by name: their    *)
(* indices in the schema are not those in the file.                        *)

(* Mutant: by index.                                                       *)
parse_parquet_by_index(f, w) == [i \in DOMAIN w |-> Column(f, table.columns[w[i] + 1])]

parse_parquet(f, w) == [i \in DOMAIN w |-> Column(f, schema[w[i] + 1])]

(* gdf_parser::parse with the cache of ParserUtil.cpp: the columns that    *)
(* are not loaded yet, then all of them in the order of the request.       *)
LoadedNames == {loaded_columns[k].name : k \in DOMAIN loaded_columns}
NotLoaded(w) == {i \in Range(w) : schema[i + 1] \notin LoadedNames}

(* Mutant: the cache is ignored.                                           *)
get_column_indices_requested(w) == w

get_column_indices_not_already_loaded(w) == Kept(w, NotLoaded(w))

get_columns_that_were_already_loaded(w, new) ==
  LET newIndex(i) == Len(KeptUpTo(w, NotLoaded(w))[i])
  IN [i \in DOMAIN w |->
        IF w[i] \in NotLoaded(w) THEN new[newIndex(i)]
        ELSE loaded_columns[CHOOSE k \in DOMAIN loaded_columns :
                              loaded_columns[k].name = schema[w[i] + 1]]]

(* The columns of the table that the client put into device memory.        *)
opened_columns(w) == [i \in DOMAIN w |-> Column(InMemory, table.columns[w[i] + 1])]

-----------------------------------------------------------------------------
(* data_loader.                                                            *)

(* parse reads a csv file into a buffer first.                             *)
Bytes == IF task = 0 /\ Rows[file] > SchemaBytes THEN SchemaBytes ELSE Rows[file]

ParseFile ==
  /\ pc = "opened"
  /\ total_read' = 0 /\ empty_reads' = 0
  /\ pc' = IF table.parser = "csv" /\ Bytes > 0 THEN "first read" ELSE "parsing"
  /\ UNCHANGED <<table, schema, task, provider, file, columns_per_file, parser, columns>>

(* read_file_into_buffer: the first read, then its loop, in which reads    *)
(* that return nothing are counted.  (total_read_attempts is never         *)
(* incremented.)  What is left unread fails an assertion.                  *)

(* Mutant: the loop ends without the empty reads having been looked at.    *)
ReadWhateverCame ==
  /\ pc \in {"first read", "reading"}
  /\ \E n \in 0 .. Bytes - total_read :
       /\ total_read' = total_read + n
       /\ empty_reads' = IF n = 0 /\ pc = "reading" THEN empty_reads + 1 ELSE empty_reads
  /\ pc' = IF total_read' = Bytes \/ empty_reads' = EmptyReadsAllowed THEN "parsing"
           ELSE "reading"
  /\ UNCHANGED <<table, schema, task, provider, file, columns_per_file, parser, columns>>

Read ==
  /\ pc \in {"first read", "reading"}
  /\ \E n \in 0 .. Bytes - total_read :
       /\ total_read' = total_read + n
       /\ empty_reads' = IF n = 0 /\ pc = "reading" THEN empty_reads + 1 ELSE empty_reads
  /\ pc' = IF total_read' = Bytes THEN "parsing"
           ELSE IF empty_reads' = EmptyReadsAllowed THEN "aborted" ELSE "reading"
  /\ UNCHANGED <<table, schema, task, provider, file, columns_per_file, parser, columns>>

ReadFails ==
  /\ pc \in {"first read", "reading"}
  /\ Stops("aborted")

(* What was read of the file, as columns: the cells of the rows that are   *)
(* in the buffer.                                                          *)
InBuffer(f, cols) ==
  [i \in DOMAIN cols |-> [cols[i] EXCEPT !.cells =
     IF table.parser = "csv" THEN SubSeq(@, 1, total_read) ELSE @]]

Parsed(f, w) == InBuffer(f, IF table.parser = "csv" THEN parse_csv(f, w) ELSE parse_parquet(f, w))

Parse ==
  /\ pc = "parsing" /\ task > 0
  /\ columns_per_file' = Append(columns_per_file, Parsed(file, Wanted(table.scans[task])))
  /\ pc' = "iterating"
  /\ UNCHANGED <<table, schema, task, provider, reader, parser, columns>>

(* get_schema passes all the files on; there may be none.  csv reads the   *)
(* first one; parquet opens them all and reads the first.                  *)
SchemaFiles ==
  IF table.parser = "csv" THEN SubSeq(columns_per_file, 1, 1) ELSE columns_per_file

GetSchema ==
  /\ pc = "iterating" /\ task = 0 /\ ~has_next
  /\ IF columns_per_file = <<>> \/ Null \in Range(SchemaFiles)
       THEN pc' = "undefined" /\ UNCHANGED file
       ELSE pc' = "opened" /\ file' = columns_per_file[1]
  /\ UNCHANGED <<table, schema, task, provider, total_read, empty_reads, columns_per_file,
                 parser, columns>>

ParseSchema ==
  /\ pc = "parsing" /\ task = 0
  /\ schema' = parse_schema(table)
  /\ pc' = "loaded"
  /\ UNCHANGED <<table, task, provider, reader, columns_per_file, parser, columns>>

(* The end of load_data: the provider is reset, then nothing was loaded    *)
(* (and the parser is called without a file), or one file, or several that *)
(* are concatenated column by column.                                      *)

(* Mutant: the provider is not reset.                                      *)
not_reset == UNCHANGED <<current_file, directory_current_file>>

reset == current_file' = 0 /\ directory_current_file' = 0

Concatenated ==
  [i \in DOMAIN columns_per_file[1] |->
     [name |-> columns_per_file[1][i].name,
      cells |-> FlattenSeq([k \in DOMAIN columns_per_file |-> columns_per_file[k][i].cells])]]

LoadData ==
  /\ pc = "iterating" /\ task > 0 /\ ~has_next /\ table.parser # "gdf"
  /\ reset
  /\ columns' = IF columns_per_file = <<>> \/ columns_per_file[1] = <<>>
                THEN create_empty_columns(Wanted(table.scans[task]))
                ELSE Concatenated
  /\ pc' = "loaded"
  /\ UNCHANGED <<table, schema, task, directory_uris, opened_files, reader, columns_per_file, parser>>

(* For a table of gdf columns the parser is always called without a file.  *)
LoadGdf ==
  LET w == Wanted(table.scans[task])
      new == get_column_indices_not_already_loaded(w)
  IN
  /\ pc = "iterating" /\ task > 0 /\ table.parser = "gdf"
  /\ columns' = get_columns_that_were_already_loaded(w, opened_columns(new))
  /\ loaded_columns' = loaded_columns \o opened_columns(new)
  /\ handles' = handles \o [i \in DOMAIN new |-> schema[new[i] + 1]]
  /\ pc' = "loaded"
  /\ UNCHANGED <<table, schema, task, provider, reader, columns_per_file>>

(* The loader of the schema goes out of scope, and so does, after the last *)
(* scan, the loader of the query: the provider closes its files, with a    *)
(* call on nullptr for each it could not open.                             *)
LastTask == task = 0 \/ task = Len(table.scans)

Destroy ==
  /\ pc = "loaded" /\ LastTask
  /\ IF Null \in opened_files
       THEN /\ pc' = "undefined"
            /\ UNCHANGED <<task, provider, columns_per_file>>
       ELSE /\ Fresh
            /\ task' = task + 1
            /\ pc' = IF task' > Len(table.scans) THEN "done" ELSE "iterating"
  /\ UNCHANGED <<table, schema, reader, parser, columns>>

(* The next scan uses the same loader.                                     *)
NextScan ==
  /\ pc = "loaded" /\ ~LastTask
  /\ task' = task + 1
  /\ columns_per_file' = <<>>
  /\ pc' = "iterating"
  /\ UNCHANGED <<table, schema, provider, reader, parser, columns>>

Next ==
  \/ NextFile \/ NextMissing \/ EnterDirectory \/ EnterEmptyDirectory
  \/ NextOfDirectory \/ NextPastTheEnd
  \/ ParseFile \/ Read \/ ReadFails \/ Parse
  \/ GetSchema \/ ParseSchema
  \/ LoadData \/ LoadGdf \/ Destroy \/ NextScan

Spec == Init /\ [][Next]_vars

(* The thread that loads runs on.                                          *)
FairSpec == Spec /\ WF_vars(Next)

-----------------------------------------------------------------------------
Stopped == {"done", "threw", "aborted", "overflow", "undefined"}

TypeOK ==
  /\ table \in Tables
  /\ Range(schema) \subseteq Range(table.columns)
  /\ task \in 0 .. Len(table.scans) + 1
  /\ pc \in {"iterating", "opened", "first read", "reading", "parsing", "loaded"} \cup Stopped
  /\ current_file \in 0 .. Len(file_uris)
  /\ directory_uris \in Range(Listing) \cup {<<>>}
  /\ directory_current_file \in 0 .. Len(directory_uris)
  /\ opened_files \subseteq DOMAIN Rows \cup {Null}
  /\ file \in DOMAIN Rows \cup {Null}
  /\ total_read \in Nat /\ empty_reads \in 0 .. EmptyReadsAllowed

(* The table: the rows of its readable files, one file after the other.    *)
Readable == IF table.parser = "gdf" THEN <<InMemory>>
            ELSE Kept(file_uris, DOMAIN Rows)

Whole(name) == FlattenSeq([k \in DOMAIN Readable |-> Column(Readable[k], name).cells])

(* Every scan of a query, however often it uses the loader, gets exactly   *)
(* the columns it asked for, in its order, with all the rows of all the    *)
(* files that could be opened (load_data, parse, reset).                   *)
ScansAreWhole ==
  pc = "loaded" /\ task > 0 =>
    LET asked == table.scans[task]
        names == parse_schema(table)
        w == IF asked = <<>> THEN All(names) ELSE asked
    IN columns = [i \in DOMAIN w |->
                    [name |-> names[w[i] + 1], cells |-> Whole(names[w[i] + 1])]]

(* Only a directory, or a file that cannot be opened or is not there, is   *)
(* more than the provider and the loader can deal with.                    *)
PlainFilesAreSafe ==
  pc \in {"undefined", "overflow"} =>
    Range(file_uris) \cap (DOMAIN Listing \cup Unreadable) # {} \/ file_uris = <<>>

(* The memory of a column of another process is opened once: the cache of  *)
(* gdf_parser keeps it (opening the same handle again fails).              *)
OpenedOnce == IsInjective(handles)

(* A load ends, whatever the reads return.                                 *)
LoadEnds == <>(pc \in Stopped)
=============================================================================
