--------------------------- MODULE DataLoadingProofs ---------------------------
(***************************************************************************)
(* Plain lists of files are safe, for any tables and scans, however long   *)
(* the list and whatever the reads return.                                 *)
(***************************************************************************)
EXTENDS DataLoading, ListsProofs

(* A list of files, each of which can be opened or is not there at all.    *)
Plain == file_uris # <<>> /\ Range(file_uris) \cap (DOMAIN Listing \cup Unreadable) = {}

(* The provider of a plain list never is in a directory, and get_next      *)
(* returns no nullptr.  get_schema has kept a file for every call.         *)
IInv ==
  /\ table \in Tables /\ task \in Nat
  /\ Plain =>
       /\ directory_uris = <<>>
       /\ current_file \in Nat
       /\ opened_files \subseteq DOMAIN Rows
       /\ task = 0 => columns_per_file \in Seq(DOMAIN Rows)
       /\ task = 0 /\ pc = "iterating" => Len(columns_per_file) = current_file
       /\ pc \notin {"undefined", "overflow"}

LEMMA UrisOfTheList ==
  ASSUME table \in Tables
  PROVE  file_uris \in Seq(Uri)
  BY TablesAreTables DEF file_uris

(* The list is the table's, which no step changes.                         *)
LEMMA PlainStays ==
  ASSUME table' = table
  PROVE  file_uris' = file_uris /\ (Plain' <=> Plain)
  BY DEF file_uris, Plain

LEMMA PlainFile ==
  ASSUME IInv, Plain, Calls
  PROVE  /\ next_uri = file_uris[current_file + 1] /\ next_uri \in Range(file_uris)
         /\ next_uri \in DOMAIN Rows \cup Missing /\ next_uri # Null
<1>1. file_uris \in Seq(Uri) /\ current_file \in Nat /\ directory_uris = <<>>
  BY UrisOfTheList DEF IInv
<1>2. current_file < Len(file_uris)
  BY DEF Calls, has_next
<1>3. next_uri = file_uris[current_file + 1]
  BY <1>1 DEF next_uri, uris, position
<1>4. current_file + 1 \in DOMAIN file_uris
  BY <1>1, <1>2
<1>5. next_uri \in Range(file_uris) /\ next_uri \in Uri
  BY <1>1, <1>3, <1>4 DEF Range
<1>6. QED
  BY <1>3, <1>5, NullIsNoFile DEF Plain, Uri

LEMMA InitIInv == Init => IInv
<1>1. SUFFICES ASSUME Init PROVE IInv
  OBVIOUS
<1>2. <<>> \in Seq(DOMAIN Rows) /\ Len(<<>>) = 0
  OBVIOUS
<1>3. QED
  BY <1>1, <1>2 DEF Init, IInv

LEMMA NextFileSafe ==
  ASSUME IInv, NextFile
  PROVE  IInv'
<1>1. table' = table /\ task' = task
  BY DEF NextFile, Hand
<1>2. SUFFICES ASSUME Plain
               PROVE  /\ directory_uris' = <<>> /\ current_file' \in Nat
                      /\ opened_files' \subseteq DOMAIN Rows
                      /\ task = 0 => columns_per_file' \in Seq(DOMAIN Rows)
                      /\ task = 0 /\ pc' = "iterating" => Len(columns_per_file') = current_file'
                      /\ pc' \notin {"undefined", "overflow"}
  BY <1>1, PlainStays DEF IInv
<1> DEFINE u == next_uri
<1>3. Calls /\ u \notin Missing /\ Hand(u) /\ current_file' = current_file + 1
      /\ directory_uris' = directory_uris
  BY DEF NextFile
<1>4. u \in DOMAIN Rows /\ u # Null
  BY <1>2, <1>3, PlainFile
<1> HIDE DEF u
<1>5. /\ opened_files' = opened_files \cup {u}
      /\ task = 0 => columns_per_file' = Append(columns_per_file, u) /\ pc' = pc
      /\ task # 0 => pc' = "opened"
  BY <1>3, <1>4 DEF Hand
<1>6. pc = "iterating"
  BY <1>3 DEF Calls
<1>7. ASSUME task = 0
      PROVE  /\ columns_per_file' \in Seq(DOMAIN Rows)
             /\ Len(columns_per_file') = current_file'
  <2>1. columns_per_file \in Seq(DOMAIN Rows) /\ Len(columns_per_file) = current_file
    BY <1>2, <1>6, <1>7 DEF IInv
  <2>2. QED
    BY <1>3, <1>4, <1>5, <1>7, <2>1
<1>8. QED
  BY <1>2, <1>3, <1>4, <1>5, <1>6, <1>7 DEF IInv

(* The first file, or all of them, with which get_schema calls the parser. *)
LEMMA SchemaFilesAreFiles ==
  ASSUME columns_per_file \in Seq(DOMAIN Rows), columns_per_file # <<>>
  PROVE  Null \notin Range(SchemaFiles)
<1>1. SchemaFiles = columns_per_file \/ SchemaFiles = SubSeq(columns_per_file, 1, 1)
  BY DEF SchemaFiles
<1>2. ASSUME NEW i \in DOMAIN SchemaFiles PROVE SchemaFiles[i] \in DOMAIN Rows
  <2>1. 1 \in 1 .. Len(columns_per_file)
    OBVIOUS
  <2>2. CASE SchemaFiles = SubSeq(columns_per_file, 1, 1)
    <3>1. DOMAIN SchemaFiles = 1 .. 1 /\ SchemaFiles[1] = columns_per_file[1]
      BY <2>1, <2>2, SubSeqProperties
    <3>2. QED
      BY <1>2, <2>1, <3>1
  <2>3. QED
    BY <1>1, <1>2, <2>2
<1>3. QED
  BY <1>2, NullIsNoFile DEF Uri, Range

LEMMA GetSchemaSafe ==
  ASSUME IInv, GetSchema
  PROVE  IInv'
<1>1. /\ table' = table /\ task' = task /\ directory_uris' = directory_uris
      /\ current_file' = current_file /\ opened_files' = opened_files
      /\ columns_per_file' = columns_per_file
      /\ task = 0 /\ pc = "iterating" /\ ~has_next
  BY DEF GetSchema, provider
<1>2. ASSUME Plain PROVE pc' = "opened"
  <2>1. /\ columns_per_file \in Seq(DOMAIN Rows) /\ Len(columns_per_file) = current_file
        /\ current_file \in Nat
    BY <1>1, <1>2 DEF IInv
  <2>2. file_uris \in Seq(Uri) /\ file_uris # <<>> /\ ~(current_file < Len(file_uris))
    BY <1>1, <1>2, UrisOfTheList DEF IInv, Plain, has_next
  <2>3. columns_per_file # <<>>
    BY <2>1, <2>2
  <2>4. QED
    BY <2>1, <2>3, SchemaFilesAreFiles DEF GetSchema
<1>3. QED
  BY <1>1, <1>2, PlainStays DEF IInv

LEMMA DestroySafe ==
  ASSUME IInv, Destroy
  PROVE  IInv'
<1>1. table' = table /\ pc = "loaded"
  BY DEF Destroy
<1>2. ASSUME Plain PROVE Fresh /\ task' = task + 1 /\ pc' \in {"done", "iterating"}
  <2>1. Null \notin opened_files
    BY <1>2, NullIsNoFile DEF IInv, Uri
  <2>2. QED
    BY <2>1 DEF Destroy
<1>3. <<>> \in Seq(DOMAIN Rows) /\ Len(<<>>) = 0
  OBVIOUS
<1>4. task' \in Nat
  BY DEF Destroy, IInv
<1>5. QED
  BY <1>1, <1>2, <1>3, <1>4, PlainStays DEF IInv, Fresh

(* The other steps take no file from the provider, or are those that a     *)
(* plain list does not allow.                                              *)
LEMMA NextIInv == IInv /\ [Next]_vars => IInv'
<1>1. SUFFICES ASSUME IInv, [Next]_vars PROVE IInv'
  OBVIOUS
<1>2. CASE NextFile
  BY <1>1, <1>2, NextFileSafe
<1>3. CASE NextMissing
  BY <1>1, <1>3, PlainStays DEF NextMissing, Stops, IInv, provider
<1>4. CASE EnterDirectory
  <2>1. ~Plain
    BY <1>1, <1>4, PlainFile DEF EnterDirectory, Plain
  <2>2. table' = table /\ task' = task
    BY <1>4 DEF EnterDirectory, Hand
  <2>3. QED
    BY <1>1, <2>1, <2>2, PlainStays DEF IInv
<1>5. CASE EnterEmptyDirectory
  <2>1. ~Plain
    BY <1>1, <1>5, PlainFile DEF EnterEmptyDirectory, Plain
  <2>2. table' = table /\ task' = task
    BY <1>5 DEF EnterEmptyDirectory, Stops
  <2>3. QED
    BY <1>1, <2>1, <2>2, PlainStays DEF IInv
<1>6. CASE NextOfDirectory
  BY <1>1, <1>6, PlainStays DEF NextOfDirectory, Hand, IInv
<1>7. CASE NextPastTheEnd
  <2>1. ASSUME Plain PROVE FALSE
    <3>1. file_uris \in Seq(Uri) /\ directory_uris = <<>> /\ current_file \in Nat
      BY <1>1, <2>1, UrisOfTheList DEF IInv
    <3>2. current_file < Len(file_uris) /\ current_file = Len(file_uris)
      BY <1>7, <3>1 DEF NextPastTheEnd, has_next, position, uris
    <3>3. QED
      BY <3>1, <3>2
  <2>2. table' = table /\ task' = task
    BY <1>7 DEF NextPastTheEnd, Stops
  <2>3. QED
    BY <1>1, <2>1, <2>2, PlainStays DEF IInv
<1>8. CASE ParseFile
  BY <1>1, <1>8, PlainStays DEF ParseFile, IInv, provider
<1>9. CASE Read
  <2>1. /\ table' = table /\ task' = task /\ columns_per_file' = columns_per_file
        /\ UNCHANGED provider /\ pc' \in {"parsing", "reading", "aborted"}
    BY <1>9 DEF Read
  <2>2. QED
    BY <1>1, <2>1, PlainStays DEF IInv, provider
<1>10. CASE ReadFails
  BY <1>1, <1>10, PlainStays DEF ReadFails, Stops, IInv, provider
<1>11. CASE Parse
  <2>1. /\ table' = table /\ task' = task /\ task > 0 /\ pc' = "iterating" /\ UNCHANGED provider
    BY <1>11 DEF Parse
  <2>2. task # 0
    BY <2>1
  <2>3. QED
    BY <1>1, <2>1, <2>2, PlainStays DEF IInv, provider
<1>12. CASE GetSchema
  BY <1>1, <1>12, GetSchemaSafe
<1>13. CASE ParseSchema
  BY <1>1, <1>13, PlainStays DEF ParseSchema, IInv, provider
<1>14. CASE LoadData
  <2>1. /\ table' = table /\ task' = task /\ columns_per_file' = columns_per_file
        /\ current_file' = 0 /\ directory_uris' = directory_uris /\ opened_files' = opened_files
        /\ pc' = "loaded"
    BY <1>14 DEF LoadData, reset
  <2>2. QED
    BY <1>1, <2>1, PlainStays DEF IInv
<1>15. CASE LoadGdf
  <2>1. table' = table /\ task' = task /\ ~Plain
    BY <1>15 DEF LoadGdf, Plain, file_uris
  <2>2. QED
    BY <1>1, <2>1, PlainStays DEF IInv
<1>16. CASE Destroy
  BY <1>1, <1>16, DestroySafe
<1>17. CASE NextScan
  <2>1. table' = table /\ columns_per_file' = <<>> /\ pc' = "iterating" /\ UNCHANGED provider
        /\ task' \in Nat /\ task' # 0
    BY <1>1, <1>17 DEF NextScan, LastTask, IInv
  <2>2. QED
    BY <1>1, <2>1, PlainStays DEF IInv, provider
<1>18. CASE UNCHANGED vars
  BY <1>1, <1>18, PlainStays DEF vars, IInv, provider
<1>19. QED
  BY <1>1, <1>2, <1>3, <1>4, <1>5, <1>6, <1>7, <1>8, <1>9, <1>10, <1>11, <1>12, <1>13, <1>14,
     <1>15, <1>16, <1>17, <1>18 DEF Next

(* The provider and the loader read no list past its end, call nothing on  *)
(* nullptr and do not recur without end, as long as the list has files, no *)
(* directory and nothing that cannot be opened.                            *)
THEOREM FilesAreSafe == Spec => []PlainFilesAreSafe
<1>1. IInv => PlainFilesAreSafe
  BY DEF IInv, Plain, PlainFilesAreSafe
<1>2. QED
  BY <1>1, InitIInv, NextIInv, PTL DEF Spec
-----------------------------------------------------------------------------
(* The types of the state, and what they rest on: where the loader can be   *)
(* with which file, and that a directory is never left.                     *)
WithFile == {"opened", "first read", "reading", "parsing"}

TInv ==
  /\ TypeOK
  /\ pc # "done" => task <= Len(table.scans)
  /\ schema \in {<<>>, parse_schema(table)}
  /\ task > 0 \/ pc = "loaded" => schema = parse_schema(table)
  /\ task = 0 => columns_per_file \in Seq(DOMAIN Rows \cup {Null})
  /\ pc \in WithFile => file \in DOMAIN Rows
  /\ pc \in {"first read", "reading"} => empty_reads < EmptyReadsAllowed /\ total_read <= Bytes
  /\ pc = "parsing" /\ table.parser = "csv" => total_read = Bytes
  /\ directory_uris # <<>> =>
       /\ has_next /\ pc # "loaded"
       /\ task = 0 => pc \notin WithFile
  /\ pc = "loaded" /\ task > 0 => current_file = 0

LEMMA TableFacts ==
  ASSUME NEW t \in Tables
  PROVE  /\ t.columns \in Seq(Range(t.columns)) /\ IsInjective(t.columns)
         /\ t.scans \in Seq(Range(t.scans)) /\ Len(t.scans) \in Nat /\ Len(t.scans) > 0
         /\ t.uris \in Seq(Uri)
<1>1. /\ t.columns \in Seq(Range(t.columns)) /\ IsInjective(t.columns)
      /\ t.scans \in Seq(Range(t.scans)) /\ t.scans # <<>>
      /\ t.uris \in Seq(Uri)
  BY TablesAreTables
<1>2. Len(t.scans) \in Nat /\ Len(t.scans) > 0
  BY <1>1
<1>3. QED
  BY <1>1, <1>2

(* The schema has some of the columns of the table, each once.              *)
LEMMA SchemaFacts ==
  ASSUME NEW t \in Tables
  PROVE  /\ parse_schema(t) \in Seq(Range(t.columns)) /\ IsInjective(parse_schema(t))
         /\ Range(parse_schema(t)) \subseteq Range(t.columns)
<1> DEFINE C == Range(t.columns)
           D == C \ t.dates
           p == parse_schema(t)
<1>1. t.columns \in Seq(C) /\ IsInjective(t.columns)
  BY TableFacts
<1>2. p = IF t.parser = "parquet" THEN Kept(t.columns, D) ELSE t.columns
  BY DEF parse_schema
<1>3. Kept(t.columns, D) \in Seq(C \cap D) /\ IsInjective(Kept(t.columns, D))
  <2> HIDE DEF C, D
  <2>1. QED
    BY <1>1, KeptType, KeptElements
<1>4. Kept(t.columns, D) \in Seq(C)
  <2>1. C \cap D \subseteq C
    OBVIOUS
  <2> HIDE DEF C, D
  <2>2. QED
    BY <1>3, <2>1, SeqMonotonic
<1>5. p \in Seq(C) /\ IsInjective(p)
  <2> HIDE DEF C, D, p
  <2>1. QED
    BY <1>1, <1>2, <1>3, <1>4
<1>6. Range(p) \subseteq C
  <2> HIDE DEF C, p
  <2>1. \A i \in DOMAIN p : p[i] \in C
    BY <1>5
  <2>2. QED
    BY <2>1 DEF Range
<1>7. QED
  BY <1>5, <1>6

LEMMA BytesType ==
  ASSUME file \in DOMAIN Rows
  PROVE  Bytes \in Nat
BY SizesAreNumbers DEF Bytes

LEMMA InitTInv == Init => TInv
<1>1. SUFFICES ASSUME Init PROVE TInv
  OBVIOUS
<1>2. table \in Tables /\ Len(table.scans) \in Nat /\ Len(table.scans) > 0
  BY <1>1, TableFacts DEF Init
<1>3. Range(parse_schema(table)) \subseteq Range(table.columns) /\ Range(<<>>) = {}
  <2>1. Range(<<>>) = {}
    BY DEF Range
  <2>2. QED
    BY <1>2, <2>1, SchemaFacts
<1>4. file_uris \in Seq(Uri) /\ Len(file_uris) \in Nat /\ Len(<<>>) = 0
  BY <1>2, UrisOfTheList
<1>5. EmptyReadsAllowed \in Nat \ {0}
  BY SizesAreNumbers
<1>6. TypeOK
  BY <1>1, <1>2, <1>3, <1>4, <1>5 DEF Init, TypeOK
<1>7. <<>> \in Seq(DOMAIN Rows \cup {Null})
  OBVIOUS
<1>8. QED
  BY <1>1, <1>2, <1>6, <1>7 DEF Init, TInv, WithFile

(* What get_next hands over and the loader keeps.                           *)
LEMMA HandTInv ==
  ASSUME TInv, NEW u, Hand(u), pc = "iterating",
         current_file' \in 0 .. Len(file_uris),
         directory_uris' \in Range(Listing) \cup {<<>>},
         directory_current_file' \in 0 .. Len(directory_uris'),
         directory_uris' # <<>> => current_file' < Len(file_uris)
  PROVE  TInv'
<1> DEFINE f == IF u \in DOMAIN Rows THEN u ELSE Null
<1>1. f \in DOMAIN Rows \cup {Null}
  OBVIOUS
<1>2. /\ opened_files' = opened_files \cup {f}
      /\ table' = table /\ schema' = schema /\ task' = task
      /\ total_read' = total_read /\ empty_reads' = empty_reads
      /\ task = 0 => columns_per_file' = Append(columns_per_file, f) /\ pc' = pc /\ file' = file
      /\ task # 0 => /\ file' = f /\ columns_per_file' = columns_per_file
                     /\ pc' = IF f = Null THEN "iterating" ELSE "opened"
  BY DEF Hand
<1> HIDE DEF f
<1>3. pc' \in {"iterating", "opened"} /\ file' \in DOMAIN Rows \cup {Null}
  BY <1>1, <1>2 DEF TInv, TypeOK
<1>4. pc' = "opened" => task # 0 /\ file' \in DOMAIN Rows
  BY <1>1, <1>2
<1>5. task = 0 => columns_per_file' \in Seq(DOMAIN Rows \cup {Null})
  <2>1. SUFFICES ASSUME task = 0 PROVE columns_per_file' \in Seq(DOMAIN Rows \cup {Null})
    OBVIOUS
  <2>2. columns_per_file \in Seq(DOMAIN Rows \cup {Null}) /\ columns_per_file' = Append(columns_per_file, f)
    BY <1>2, <2>1 DEF TInv
  <2>3. QED
    BY <1>1, <2>2
<1>6. file_uris' = file_uris
  BY <1>2 DEF file_uris
<1>7. TypeOK'
  BY <1>1, <1>2, <1>3, <1>6 DEF TInv, TypeOK
<1>8. task <= Len(table.scans)
  BY DEF TInv
<1>9. has_next' <=> current_file' < Len(file_uris)
  BY <1>6 DEF has_next
<1>10. QED
  BY <1>2, <1>3, <1>4, <1>5, <1>7, <1>8, <1>9 DEF TInv, WithFile

LEMMA StopsTInv ==
  ASSUME TInv, pc # "done", NEW how \in Stopped, how # "done", Stops(how)
  PROVE  TInv'
<1>1. /\ table' = table /\ schema' = schema /\ task' = task /\ UNCHANGED provider
      /\ UNCHANGED reader /\ columns_per_file' = columns_per_file /\ pc' = how
  BY DEF Stops
<1>2. TypeOK'
  BY <1>1 DEF TInv, TypeOK, provider, reader, file_uris
<1>3. /\ pc' \notin WithFile /\ pc' # "done" /\ pc' # "loaded"
      /\ pc' \notin {"first read", "reading"} /\ pc' # "parsing"
  BY <1>1 DEF Stopped, WithFile
<1>4. directory_uris' = directory_uris /\ (has_next' <=> has_next)
  BY <1>1 DEF provider, has_next, file_uris
<1>5. task <= Len(table.scans)
  BY DEF TInv
<1>6. QED
  BY <1>1, <1>2, <1>3, <1>4, <1>5 DEF TInv

LEMMA CallsFacts ==
  ASSUME TInv, Calls
  PROVE  /\ pc = "iterating" /\ current_file < Len(file_uris) /\ Len(file_uris) \in Nat
         /\ current_file + 1 \in 0 .. Len(file_uris)
         /\ directory_uris = <<>> =>
              next_uri = file_uris[current_file + 1] /\ next_uri \in Uri
         /\ directory_uris # <<>> => directory_current_file < Len(directory_uris)
<1>1. table \in Tables /\ file_uris \in Seq(Uri) /\ current_file \in 0 .. Len(file_uris)
  BY UrisOfTheList DEF TInv, TypeOK
<1>2. pc = "iterating" /\ current_file < Len(file_uris)
  BY DEF Calls, has_next
<1>3. current_file + 1 \in 1 .. Len(file_uris) /\ Len(file_uris) \in Nat
  BY <1>1, <1>2
<1>4. directory_uris = <<>> => next_uri = file_uris[current_file + 1]
  BY DEF next_uri, uris, position
<1>5. directory_uris # <<>> => directory_current_file < Len(directory_uris)
  BY DEF Calls, uris, position
<1>6. QED
  BY <1>1, <1>2, <1>3, <1>4, <1>5

LEMMA ProviderTInv ==
  ASSUME TInv, NextFile \/ NextMissing \/ EnterDirectory \/ EnterEmptyDirectory
                 \/ NextOfDirectory \/ NextPastTheEnd
  PROVE  TInv'
<1>1. CASE NextFile
  <2>1. /\ Calls /\ directory_uris = <<>> /\ Hand(next_uri) /\ current_file' = current_file + 1
        /\ directory_uris' = directory_uris /\ directory_current_file' = directory_current_file
    BY <1>1 DEF NextFile
  <2>2. directory_current_file \in 0 .. Len(directory_uris)
    BY DEF TInv, TypeOK
  <2>3. QED
    BY <2>1, <2>2, CallsFacts, HandTInv
<1>2. CASE NextMissing
  BY <1>2, StopsTInv DEF NextMissing, Stopped, Calls
<1>3. CASE EnterDirectory
  <2>1. /\ Calls /\ directory_uris = <<>> /\ next_uri \in DOMAIN Listing /\ Listing[next_uri] # <<>>
        /\ Hand(Listing[next_uri][1]) /\ current_file' = current_file
        /\ directory_uris' = Listing[next_uri] /\ directory_current_file' = 1
    BY <1>3 DEF EnterDirectory
  <2>2. Listing[next_uri] \in Seq(Uri) /\ Listing[next_uri] \in Range(Listing)
    BY <2>1, SizesAreNumbers DEF Range
  <2>3. 1 \in 0 .. Len(Listing[next_uri])
    BY <2>1, <2>2
  <2>4. current_file \in 0 .. Len(file_uris)
    BY DEF TInv, TypeOK
  <2>5. QED
    BY <2>1, <2>2, <2>3, <2>4, CallsFacts, HandTInv
<1>4. CASE EnterEmptyDirectory
  BY <1>4, StopsTInv DEF EnterEmptyDirectory, Stopped, Calls
<1>5. CASE NextOfDirectory
  <2>1. /\ Calls /\ directory_uris # <<>> /\ Hand(next_uri) /\ current_file' = current_file
        /\ directory_uris' = directory_uris /\ directory_current_file' = directory_current_file + 1
    BY <1>5 DEF NextOfDirectory
  <2>2. /\ current_file \in 0 .. Len(file_uris) /\ directory_uris \in Range(Listing) \cup {<<>>}
        /\ directory_current_file \in 0 .. Len(directory_uris)
    BY DEF TInv, TypeOK
  <2>3. directory_uris \in Seq(Uri)
    BY <2>1, <2>2, SizesAreNumbers DEF Range
  <2>4. Len(directory_uris) \in Nat /\ directory_current_file < Len(directory_uris)
    BY <2>1, <2>3, CallsFacts
  <2>5. directory_current_file + 1 \in 0 .. Len(directory_uris)
    BY <2>2, <2>4
  <2>6. QED
    BY <2>1, <2>2, <2>5, CallsFacts, HandTInv
<1>6. CASE NextPastTheEnd
  BY <1>6, StopsTInv DEF NextPastTheEnd, Stopped
<1>7. QED
  BY <1>1, <1>2, <1>3, <1>4, <1>5, <1>6

LEMMA ReadTInv ==
  ASSUME TInv, Read
  PROVE  TInv'
<1>1. /\ pc \in {"first read", "reading"} /\ UNCHANGED <<table, schema, task, provider, file>>
      /\ columns_per_file' = columns_per_file
  BY DEF Read
<1>2. PICK n \in 0 .. Bytes - total_read :
        /\ total_read' = total_read + n
        /\ empty_reads' = IF n = 0 /\ pc = "reading" THEN empty_reads + 1 ELSE empty_reads
  BY DEF Read
<1>3. pc' = IF total_read' = Bytes THEN "parsing"
            ELSE IF empty_reads' = EmptyReadsAllowed THEN "aborted" ELSE "reading"
  BY DEF Read
<1>4. /\ file \in DOMAIN Rows /\ total_read \in Nat /\ empty_reads \in 0 .. EmptyReadsAllowed
      /\ empty_reads < EmptyReadsAllowed /\ total_read <= Bytes /\ EmptyReadsAllowed \in Nat
  BY <1>1, SizesAreNumbers DEF TInv, TypeOK, WithFile
<1>5. Bytes \in Nat /\ Bytes' = Bytes
  BY <1>1, <1>4, BytesType DEF Bytes
<1>6. /\ total_read' \in Nat /\ total_read' <= Bytes /\ empty_reads' \in 0 .. EmptyReadsAllowed
  BY <1>2, <1>4, <1>5
<1>7. TypeOK'
  BY <1>1, <1>3, <1>6 DEF TInv, TypeOK, provider, file_uris, Stopped
<1>8. pc' = "reading" => empty_reads' < EmptyReadsAllowed
  BY <1>3, <1>4, <1>6
<1>9. /\ directory_uris' = directory_uris /\ (has_next' <=> has_next) /\ current_file' = current_file
      /\ pc \in WithFile
  BY <1>1 DEF provider, has_next, file_uris, WithFile
<1>10. QED
  BY <1>1, <1>3, <1>4, <1>5, <1>6, <1>7, <1>8, <1>9 DEF TInv

LEMMA GetSchemaTInv ==
  ASSUME TInv, GetSchema
  PROVE  TInv'
<1>1. /\ pc = "iterating" /\ task = 0 /\ ~has_next
      /\ UNCHANGED <<table, schema, task, provider, total_read, empty_reads, columns_per_file>>
      /\ pc' \in {"undefined", "opened"}
      /\ pc' = "undefined" => file' = file
      /\ pc' = "opened" => /\ columns_per_file # <<>> /\ Null \notin Range(SchemaFiles)
                           /\ file' = columns_per_file[1]
  BY DEF GetSchema
<1>2. columns_per_file \in Seq(DOMAIN Rows \cup {Null})
  BY <1>1 DEF TInv
<1>3. pc' = "opened" => file' \in DOMAIN Rows
  <2>1. SUFFICES ASSUME pc' = "opened" PROVE columns_per_file[1] \in DOMAIN Rows
    BY <1>1
  <2>2. 1 \in 1 .. Len(columns_per_file) /\ columns_per_file[1] \in DOMAIN Rows \cup {Null}
    BY <1>1, <1>2, <2>1
  <2>3. SchemaFiles = columns_per_file \/ SchemaFiles = SubSeq(columns_per_file, 1, 1)
    BY DEF SchemaFiles
  <2>4. CASE SchemaFiles = SubSeq(columns_per_file, 1, 1)
    <3>1. DOMAIN SchemaFiles = 1 .. 1 /\ SchemaFiles[1] = columns_per_file[1]
      BY <2>2, <2>4, SubSeqProperties
    <3>2. columns_per_file[1] \in Range(SchemaFiles)
      BY <3>1 DEF Range
    <3>3. QED
      BY <1>1, <2>1, <2>2, <3>2
  <2>5. CASE SchemaFiles = columns_per_file
    <3>1. columns_per_file[1] \in Range(SchemaFiles)
      BY <1>2, <2>2, <2>5 DEF Range
    <3>2. QED
      BY <1>1, <2>1, <2>2, <3>1
  <2>6. QED
    BY <2>3, <2>4, <2>5
<1>4. file' \in DOMAIN Rows \cup {Null}
  BY <1>1, <1>3 DEF TInv, TypeOK
<1>5. TypeOK'
  BY <1>1, <1>4 DEF TInv, TypeOK, provider, file_uris, Stopped
<1>6. directory_uris' = directory_uris /\ (has_next' <=> has_next)
  BY <1>1 DEF provider, has_next, file_uris
<1>7. QED
  BY <1>1, <1>2, <1>3, <1>5, <1>6 DEF TInv, WithFile

LEMMA NextTInv == TInv /\ [Next]_vars => TInv'
<1>1. SUFFICES ASSUME TInv, [Next]_vars PROVE TInv'
  OBVIOUS
<1>2. table \in Tables /\ Len(table.scans) \in Nat
  BY <1>1, TableFacts DEF TInv, TypeOK
<1>3. CASE NextFile \/ NextMissing \/ EnterDirectory \/ EnterEmptyDirectory
             \/ NextOfDirectory \/ NextPastTheEnd
  BY <1>1, <1>3, ProviderTInv
<1>4. CASE ParseFile
  <2>1. /\ pc = "opened" /\ total_read' = 0 /\ empty_reads' = 0
        /\ UNCHANGED <<table, schema, task, provider, file, columns_per_file>>
        /\ pc' = IF table.parser = "csv" /\ Bytes > 0 THEN "first read" ELSE "parsing"
    BY <1>4 DEF ParseFile
  <2>2. EmptyReadsAllowed \in Nat \ {0}
    BY SizesAreNumbers
  <2>3. Bytes \in Nat /\ Bytes' = Bytes
    BY <1>1, <2>1, BytesType DEF TInv, WithFile, Bytes
  <2>4. pc' \in {"first read", "parsing"}
    BY <2>1
  <2>5. pc' = "parsing" /\ table.parser = "csv" => Bytes = 0
    <3>1. SUFFICES ASSUME pc' = "parsing", table.parser = "csv" PROVE Bytes = 0
      OBVIOUS
    <3>2. ~(Bytes > 0)
      BY <2>1, <3>1
    <3>3. QED
      BY <2>3, <3>2
  <2>6. TypeOK'
    <3>1. 0 \in 0 .. EmptyReadsAllowed /\ 0 \in Nat
      BY <2>2
    <3>2. total_read' \in Nat /\ empty_reads' \in 0 .. EmptyReadsAllowed
      BY <2>1, <3>1
    <3>3. UNCHANGED <<table, schema, task, provider, file>>
      BY <2>1
    <3>4. QED
      BY <1>1, <2>4, <3>2, <3>3 DEF TInv, TypeOK, provider, file_uris
  <2>7. directory_uris' = directory_uris /\ (has_next' <=> has_next) /\ current_file' = current_file
    BY <2>1 DEF provider, has_next, file_uris
  <2>8. /\ UNCHANGED <<table, schema, task, file, columns_per_file>>
        /\ total_read' = 0 /\ empty_reads' = 0 /\ pc \in WithFile /\ pc # "done" /\ pc # "loaded"
    BY <2>1 DEF WithFile
  <2>9. pc' # "loaded" /\ pc' # "done" /\ 0 < EmptyReadsAllowed /\ 0 <= Bytes'
    <3>1. 0 <= Bytes'
      BY <2>3
    <3>2. 0 < EmptyReadsAllowed
      BY <2>2
    <3>3. pc' # "loaded" /\ pc' # "done"
      BY <2>4
    <3>4. QED
      BY <3>1, <3>2, <3>3
  <2>10. pc' = "parsing" /\ table.parser = "csv" => Bytes' = 0
    <3>1. SUFFICES ASSUME pc' = "parsing", table.parser = "csv" PROVE Bytes' = 0
      OBVIOUS
    <3>2. Bytes = 0
      BY <2>5, <3>1
    <3>3. QED
      BY <2>3, <3>2
  <2>11. QED
    <3>1. /\ task' <= Len(table'.scans) /\ schema' \in {<<>>, parse_schema(table')}
          /\ (task' > 0 => schema' = parse_schema(table'))
          /\ (task' = 0 => columns_per_file' \in Seq(DOMAIN Rows \cup {Null}))
          /\ file' \in DOMAIN Rows
      BY <1>1, <2>8 DEF TInv
    <3>2. directory_uris' # <<>> => has_next' /\ task' # 0
      BY <1>1, <2>7, <2>8 DEF TInv
    <3>3. table'.parser = table.parser
      BY <2>8
    <3>4. QED
      BY <2>6, <2>8, <2>9, <2>10, <3>1, <3>2, <3>3 DEF TInv
<1>5. CASE Read
  BY <1>1, <1>5, ReadTInv
<1>6. CASE ReadFails
  BY <1>1, <1>6, StopsTInv DEF ReadFails, Stopped
<1>7. CASE Parse
  <2>1. /\ pc = "parsing" /\ task > 0 /\ pc' = "iterating"
        /\ UNCHANGED <<table, schema, task, provider, reader>>
    BY <1>7 DEF Parse
  <2>2. TypeOK'
    BY <1>1, <2>1 DEF TInv, TypeOK, provider, reader, file_uris
  <2>3. directory_uris' = directory_uris /\ (has_next' <=> has_next)
    BY <2>1 DEF provider, has_next, file_uris
  <2>4. task # 0
    BY <2>1
  <2>5. QED
    BY <1>1, <2>1, <2>2, <2>3, <2>4 DEF TInv, WithFile
<1>8. CASE GetSchema
  BY <1>1, <1>8, GetSchemaTInv
<1>9. CASE ParseSchema
  <2>1. /\ pc = "parsing" /\ task = 0 /\ pc' = "loaded" /\ schema' = parse_schema(table)
        /\ UNCHANGED <<table, task, provider, reader, columns_per_file>>
    BY <1>9 DEF ParseSchema
  <2>2. Range(parse_schema(table)) \subseteq Range(table.columns)
    BY <1>2, SchemaFacts
  <2>3. TypeOK'
    BY <1>1, <2>1, <2>2 DEF TInv, TypeOK, provider, reader, file_uris
  <2>4. directory_uris' = directory_uris /\ directory_uris = <<>>
    BY <1>1, <2>1 DEF TInv, WithFile, provider
  <2>5. QED
    BY <1>1, <2>1, <2>3, <2>4 DEF TInv, WithFile
<1>10. CASE LoadData
  <2>1. /\ pc = "iterating" /\ task > 0 /\ ~has_next /\ pc' = "loaded"
        /\ current_file' = 0 /\ directory_current_file' = 0
        /\ UNCHANGED <<table, schema, task, directory_uris, opened_files, reader>>
    BY <1>10 DEF LoadData, reset
  <2>2. file_uris \in Seq(Uri) /\ 0 \in 0 .. Len(file_uris)
    BY <1>2, UrisOfTheList
  <2>3. directory_uris = <<>>
    BY <1>1, <2>1 DEF TInv
  <2>4. 0 \in 0 .. Len(directory_uris)
    BY <2>3
  <2>5. TypeOK'
    BY <1>1, <2>1, <2>2, <2>4 DEF TInv, TypeOK, reader, file_uris
  <2>6. task # 0
    BY <2>1
  <2>7. QED
    BY <1>1, <2>1, <2>3, <2>5, <2>6 DEF TInv, WithFile
<1>11. CASE LoadGdf
  <2>1. /\ pc = "iterating" /\ task > 0 /\ table.parser = "gdf" /\ pc' = "loaded"
        /\ UNCHANGED <<table, schema, task, provider, reader>>
    BY <1>11 DEF LoadGdf
  <2>2. TypeOK'
    BY <1>1, <2>1 DEF TInv, TypeOK, provider, reader, file_uris
  <2>3. file_uris = <<>> /\ ~has_next /\ current_file = 0
    <3>1. file_uris = <<>> /\ current_file \in 0 .. Len(file_uris)
      BY <1>1, <2>1 DEF file_uris, TInv, TypeOK
    <3>2. QED
      BY <3>1 DEF has_next
  <2>4. directory_uris' = <<>> /\ current_file' = 0 /\ task # 0
    BY <1>1, <2>1, <2>3 DEF TInv, provider
  <2>5. QED
    BY <1>1, <2>1, <2>2, <2>4 DEF TInv, WithFile
<1>12. CASE Destroy
  <2>1. pc = "loaded" /\ LastTask /\ UNCHANGED <<table, schema, reader>>
    BY <1>12 DEF Destroy
  <2>2. task \in Nat /\ task <= Len(table.scans) /\ schema = parse_schema(table)
    BY <1>1, <1>2, <2>1 DEF TInv, TypeOK
  <2>3. CASE Null \in opened_files
    <3>1. pc' = "undefined" /\ UNCHANGED <<task, provider, columns_per_file>>
      BY <1>12, <2>3 DEF Destroy
    <3>2. TypeOK'
      BY <1>1, <2>1, <3>1 DEF TInv, TypeOK, provider, reader, file_uris, Stopped
    <3>3. directory_uris' = directory_uris /\ directory_uris = <<>>
      BY <1>1, <2>1, <3>1 DEF TInv, provider
    <3>4. QED
      BY <1>1, <2>1, <2>2, <3>1, <3>2, <3>3 DEF TInv, WithFile
  <2>4. CASE Null \notin opened_files
    <3>1. Fresh /\ task' = task + 1 /\ pc' = IF task' > Len(table.scans) THEN "done" ELSE "iterating"
      BY <1>12, <2>4 DEF Destroy
    <3>2. task' \in 1 .. Len(table.scans) + 1 /\ (pc' # "done" => task' <= Len(table.scans))
      BY <1>2, <2>2, <3>1
    <3>3. file_uris \in Seq(Uri) /\ 0 \in 0 .. Len(file_uris) /\ 0 \in 0 .. Len(<<>>)
      BY <1>2, UrisOfTheList
    <3>4. TypeOK'
      BY <1>1, <2>1, <3>1, <3>2, <3>3 DEF TInv, TypeOK, Fresh, reader, file_uris, Stopped
    <3>5. task' # 0 /\ pc' \in {"done", "iterating"} /\ directory_uris' = <<>>
      BY <1>2, <3>1, <3>2 DEF Fresh
    <3>6. QED
      BY <2>1, <2>2, <3>2, <3>4, <3>5 DEF TInv, WithFile
  <2>5. QED
    BY <2>3, <2>4
<1>13. CASE NextScan
  <2>1. /\ pc = "loaded" /\ ~LastTask /\ task' = task + 1 /\ pc' = "iterating"
        /\ UNCHANGED <<table, schema, provider, reader>>
    BY <1>13 DEF NextScan
  <2>2. task \in Nat /\ task <= Len(table.scans) /\ task # Len(table.scans)
    BY <1>1, <1>2, <2>1 DEF TInv, TypeOK, LastTask
  <2>3. task' \in 1 .. Len(table.scans) /\ task' # 0
    BY <1>2, <2>1, <2>2
  <2>4. TypeOK'
    BY <1>1, <1>2, <2>1, <2>3 DEF TInv, TypeOK, provider, reader, file_uris
  <2>5. directory_uris' = directory_uris /\ (has_next' <=> has_next)
    BY <2>1 DEF provider, has_next, file_uris
  <2>6. QED
    BY <1>1, <2>1, <2>3, <2>4, <2>5 DEF TInv, WithFile
<1>14. CASE UNCHANGED vars
  BY <1>1, <1>14 DEF TInv, TypeOK, vars, provider, reader, file_uris, has_next, Bytes
<1>15. QED
  BY <1>1, <1>3, <1>4, <1>5, <1>6, <1>7, <1>8, <1>9, <1>10, <1>11, <1>12, <1>13, <1>14 DEF Next

(* Type correctness, for any tables, scans and reads: get_next stays within *)
(* the list and the open directory, and a file is read to its size.         *)
THEOREM LoadingTypes == Spec => []TypeOK
<1>1. TInv => TypeOK
  BY DEF TInv
<1>2. QED
  BY <1>1, InitTInv, NextTInv, PTL DEF Spec
-----------------------------------------------------------------------------
(* A scan has loaded, and all the rows of them, the readable files among    *)
(* those it has tried, except for the last one while it is being read.      *)
Asked == Wanted(table.scans[task])
Tried == KeptUpTo(file_uris, DOMAIN Rows)[current_file]
LoadedFrom(f) == [i \in DOMAIN Asked |-> Column(f, schema[Asked[i] + 1])]

LInv ==
  task > 0 /\ table.parser # "gdf" /\ directory_uris = <<>> =>
    /\ pc = "iterating" => columns_per_file = [k \in 1 .. Len(Tried) |-> LoadedFrom(Tried[k])]
    /\ pc \in WithFile =>
         /\ Len(Tried) > 0 /\ file = Tried[Len(Tried)]
         /\ columns_per_file = [k \in 1 .. Len(Tried) - 1 |-> LoadedFrom(Tried[k])]

(* The columns of a gdf table that were loaded are those of the handles.    *)
GInv ==
  /\ handles \in Seq(Range(table.columns)) /\ IsInjective(handles)
  /\ loaded_columns = [k \in DOMAIN handles |-> Column(InMemory, handles[k])]

(* What ScansAreWhole promises.                                             *)
WholeScan ==
  [i \in DOMAIN Asked |-> [name |-> schema[Asked[i] + 1], cells |-> Whole(schema[Asked[i] + 1])]]

LEMMA PromiseOfAScan ==
  ASSUME schema = parse_schema(table), columns = WholeScan
  PROVE  ScansAreWhole
BY DEF ScansAreWhole, WholeScan, Asked, Wanted

(* A scan asks for columns of the schema, each once.                        *)
LEMMA AskedFacts ==
  ASSUME table \in Tables, schema = parse_schema(table), task \in 1 .. Len(table.scans)
  PROVE  /\ Asked \in Seq(0 .. Len(schema) - 1) /\ IsInjective(Asked)
         /\ schema \in Seq(Range(table.columns)) /\ IsInjective(schema)
<1>1. schema \in Seq(Range(table.columns)) /\ IsInjective(schema)
  BY SchemaFacts
<1>2. Len(schema) \in Nat
  BY <1>1
<1>3. /\ table.scans[task] \in Seq(0 .. Len(schema) - 1) /\ IsInjective(table.scans[task])
  <2>1. task \in DOMAIN table.scans
    BY TableFacts
  <2>2. QED
    BY <2>1, TablesAreTables
<1>4. All(schema) \in Seq(0 .. Len(schema) - 1) /\ IsInjective(All(schema))
  <2> DEFINE a == [i \in 1 .. Len(schema) |-> i - 1]
  <2>1. All(schema) = a
    BY <1>1 DEF All
  <2>2. \A i \in 1 .. Len(schema) : i - 1 \in 0 .. Len(schema) - 1
    BY <1>2
  <2>3. a \in Seq(0 .. Len(schema) - 1)
    BY <1>2, <2>2
  <2>4. IsInjective(a)
    BY <1>2 DEF IsInjective
  <2>5. QED
    BY <2>1, <2>3, <2>4
<1>5. QED
  BY <1>1, <1>3, <1>4 DEF Asked, Wanted

-----------------------------------------------------------------------------
(* The memory of gdf columns.                                               *)
LEMMA CachedNames ==
  ASSUME GInv
  PROVE  LoadedNames = Range(handles)
<1>1. DOMAIN loaded_columns = DOMAIN handles
  BY DEF GInv
<1>2. \A k \in DOMAIN handles : loaded_columns[k].name = handles[k]
  BY DEF GInv, Column
<1>3. QED
  BY <1>1, <1>2 DEF LoadedNames, Range

LEMMA LoadGdfKeeps ==
  ASSUME TInv, GInv, LoadGdf
  PROVE  GInv' /\ ScansAreWhole'
<1> DEFINE w == Asked
           new == get_column_indices_not_already_loaded(w)
           news == [i \in DOMAIN new |-> schema[new[i] + 1]]
<1>1. /\ task > 0 /\ table.parser = "gdf" /\ UNCHANGED <<table, schema, task>>
      /\ columns' = get_columns_that_were_already_loaded(w, opened_columns(new))
      /\ loaded_columns' = loaded_columns \o opened_columns(new)
      /\ handles' = handles \o news
      /\ pc = "iterating"
  BY DEF LoadGdf, Asked
<1>2. /\ table \in Tables /\ schema = parse_schema(table) /\ task \in 1 .. Len(table.scans)
  <2>1. table \in Tables /\ task \in Nat /\ task <= Len(table.scans) /\ schema = parse_schema(table)
    BY <1>1, TableFacts DEF TInv, TypeOK
  <2>2. Len(table.scans) \in Nat
    BY <2>1, TableFacts
  <2>3. QED
    BY <1>1, <2>1, <2>2
<1>3. schema = table.columns
  BY <1>1, <1>2 DEF parse_schema
<1> DEFINE I == 0 .. Len(schema) - 1
           N == NotLoaded(w)
<1>4. w \in Seq(I) /\ IsInjective(w) /\ schema \in Seq(Range(table.columns)) /\ IsInjective(schema)
  BY <1>2, AskedFacts
<1>5. Len(schema) \in Nat /\ DOMAIN schema = 1 .. Len(schema)
  BY <1>4
<1>6. new = Kept(w, N) /\ new \in Seq(I \cap N) /\ IsInjective(new)
  <2>1. new = Kept(w, N)
    BY DEF get_column_indices_not_already_loaded
  <2> HIDE DEF w, new, N, I
  <2>2. QED
    BY <1>4, <2>1, KeptType, KeptElements
<1>7. \A i \in I : i + 1 \in DOMAIN schema /\ schema[i + 1] \in Range(table.columns)
  BY <1>4, <1>5
<1>8. \A i \in N : schema[i + 1] \notin Range(handles)
  BY CachedNames DEF NotLoaded
<1>9. LoadedNames = Range(handles)
  BY CachedNames
<1>10. handles \in Seq(Range(table.columns)) /\ IsInjective(handles)
  BY DEF GInv
<1>11. /\ DOMAIN new = 1 .. Len(new) /\ Len(new) \in Nat
       /\ \A i \in 1 .. Len(new) : new[i] \in I /\ new[i] \in N
  <2> HIDE DEF new, N, I
  <2>1. QED
    BY <1>6
<1>12. opened_columns(new) = [i \in 1 .. Len(new) |-> Column(InMemory, news[i])]
  <2> HIDE DEF new, N, I
  <2>1. QED
    BY <1>3, <1>11 DEF opened_columns
<1>13. /\ news \in Seq(Range(table.columns)) /\ Len(news) = Len(new)
       /\ \A i \in 1 .. Len(new) : news[i] = schema[new[i] + 1]
  <2> HIDE DEF new, N, I
  <2>1. \A i \in 1 .. Len(new) : schema[new[i] + 1] \in Range(table.columns)
    BY <1>7, <1>11
  <2>2. news = [i \in 1 .. Len(new) |-> schema[new[i] + 1]]
    BY <1>11
  <2> HIDE DEF news
  <2>3. QED
    BY <1>11, <2>1, <2>2
<1>14. GInv'
  <2> HIDE DEF new, N, I, w, news
  <2> DEFINE h == handles \o news
             n == Len(handles)
  <2>1. /\ h \in Seq(Range(table.columns)) /\ Len(h) = n + Len(new) /\ n \in Nat
        /\ \A k \in 1 .. n : h[k] = handles[k]
        /\ \A k \in 1 .. Len(new) : h[n + k] = news[k]
    BY <1>10, <1>11, <1>13
  <2>2. DOMAIN h = 1 .. n + Len(new) /\ DOMAIN handles = 1 .. n
    BY <1>10, <2>1
  <2>3. \A k \in 1 .. n + Len(new) : k \in 1 .. n \/ (k - n \in 1 .. Len(new) /\ k = n + (k - n))
    BY <1>11, <2>1
  <2> HIDE DEF h, n
  <2>4. ASSUME NEW j \in 1 .. n + Len(new), NEW k \in 1 .. n + Len(new), h[j] = h[k]
        PROVE  j = k
    <3>1. CASE j \in 1 .. n /\ k \in 1 .. n
      BY <1>10, <2>1, <2>2, <2>4, <3>1 DEF IsInjective
    <3>2. CASE j \in 1 .. n /\ k \notin 1 .. n
      <4>1. h[j] \in Range(handles)
        BY <2>1, <2>2, <3>2 DEF Range
      <4>2. PICK i \in 1 .. Len(new) : k = n + i /\ h[k] = schema[new[i] + 1]
        BY <1>13, <2>1, <2>3, <3>2
      <4>3. QED
        BY <1>8, <1>11, <2>4, <4>1, <4>2
    <3>3. CASE j \notin 1 .. n /\ k \in 1 .. n
      <4>1. h[k] \in Range(handles)
        BY <2>1, <2>2, <3>3 DEF Range
      <4>2. PICK i \in 1 .. Len(new) : j = n + i /\ h[j] = schema[new[i] + 1]
        BY <1>13, <2>1, <2>3, <3>3
      <4>3. QED
        BY <1>8, <1>11, <2>4, <4>1, <4>2
    <3>4. CASE j \notin 1 .. n /\ k \notin 1 .. n
      <4>1. PICK i \in 1 .. Len(new) : k = n + i /\ h[k] = schema[new[i] + 1]
        BY <1>13, <2>1, <2>3, <3>4
      <4>2. PICK l \in 1 .. Len(new) : j = n + l /\ h[j] = schema[new[l] + 1]
        BY <1>13, <2>1, <2>3, <3>4
      <4>3. new[i] + 1 = new[l] + 1
        BY <1>4, <1>7, <1>11, <2>4, <4>1, <4>2 DEF IsInjective
      <4>4. new[i] = new[l]
        <5>1. new[i] \in Int /\ new[l] \in Int
          BY <1>11 DEF I
        <5>2. QED
          BY <4>3, <5>1
      <4>5. QED
        BY <1>6, <1>11, <4>1, <4>2, <4>4 DEF IsInjective
    <3>5. QED
      BY <3>1, <3>2, <3>3, <3>4
  <2>5. IsInjective(h)
    BY <2>2, <2>4 DEF IsInjective
  <2>6. loaded_columns' = [k \in DOMAIN h |-> Column(InMemory, h[k])]
    <3> DEFINE C == {Column(InMemory, c) : c \in Range(table.columns)}
               a == [k \in 1 .. n |-> Column(InMemory, handles[k])]
               b == [k \in 1 .. Len(new) |-> Column(InMemory, news[k])]
               g == [k \in 1 .. n + Len(new) |-> Column(InMemory, h[k])]
    <3>1. loaded_columns = a /\ opened_columns(new) = b /\ loaded_columns' = a \o b
      BY <1>1, <1>12, <2>2 DEF GInv
    <3>2. /\ \A k \in 1 .. n : handles[k] \in Range(table.columns)
          /\ \A k \in 1 .. Len(new) : news[k] \in Range(table.columns)
          /\ \A k \in 1 .. n + Len(new) : h[k] \in Range(table.columns)
      BY <1>10, <1>13, <2>1, <2>2 DEF n
    <3>3. a \in Seq(C) /\ b \in Seq(C) /\ g \in Seq(C) /\ Len(a) = n /\ Len(b) = Len(new)
          /\ Len(g) = n + Len(new)
      BY <1>11, <2>1, <3>2
    <3>4. ASSUME NEW k \in 1 .. n + Len(new) PROVE (a \o b)[k] = g[k]
      <4>1. CASE k \in 1 .. n
        <5>1. a[k] = g[k]
          BY <2>1, <3>4, <4>1
        <5> HIDE DEF a, b, g, C
        <5>2. QED
          BY <1>11, <2>1, <3>3, <4>1, <5>1
      <4>2. CASE k - n \in 1 .. Len(new) /\ k = n + (k - n)
        <5>1. b[k - n] = g[k]
          BY <2>1, <3>4, <4>2
        <5> HIDE DEF a, b, g, C
        <5>2. QED
          BY <1>11, <2>1, <3>3, <4>2, <5>1
      <4>3. QED
        BY <2>3, <4>1, <4>2
    <3> HIDE DEF a, b, C
    <3>5. a \o b \in Seq(C) /\ Len(a \o b) = n + Len(new)
      <4> HIDE DEF g
      <4>1. a \in Seq(C) /\ b \in Seq(C)
        BY <3>3
      <4>2. a \o b \in Seq(C) /\ Len(a \o b) = Len(a) + Len(b)
        BY <4>1, ConcatProperties
      <4>3. Len(a) = n /\ Len(b) = Len(new)
        BY <3>3
      <4>4. QED
        BY <4>2, <4>3
    <3> HIDE DEF g
    <3>6. a \o b = g
      BY <3>3, <3>4, <3>5, SeqEqual
    <3>7. QED
      BY <2>2, <3>1, <3>6 DEF g
  <2>7. handles' = h
    BY <1>1 DEF h
  <2>8. QED
    BY <1>1, <2>1, <2>5, <2>6, <2>7 DEF GInv
<1>15. columns' = WholeScan
  <2> DEFINE col(i) == Column(InMemory, schema[w[i] + 1])
             got == get_columns_that_were_already_loaded(w, opened_columns(new))
             old(i) == CHOOSE k \in DOMAIN loaded_columns : loaded_columns[k].name = schema[w[i] + 1]
  <2>1. got = [i \in DOMAIN w |-> IF w[i] \in N THEN opened_columns(new)[Len(KeptUpTo(w, N)[i])]
                                  ELSE loaded_columns[old(i)]]
    BY DEF get_columns_that_were_already_loaded
  <2>2. DOMAIN w = 1 .. Len(w) /\ \A i \in DOMAIN w : w[i] \in I
    <3> HIDE DEF w, I
    <3>1. QED
      BY <1>4
  <2>3. ASSUME NEW i \in DOMAIN w, w[i] \in N
        PROVE  opened_columns(new)[Len(KeptUpTo(w, N)[i])] = col(i)
    <3> HIDE DEF new, w, N, I
    <3> DEFINE k == Len(KeptUpTo(w, N)[i])
    <3>1. k \in 1 .. Len(Kept(w, N)) /\ Kept(w, N)[k] = w[i]
      BY <1>4, <2>2, <2>3, KeptAt
    <3> HIDE DEF k
    <3>2. k \in 1 .. Len(new) /\ new[k] = w[i]
      BY <1>6, <3>1
    <3>3. opened_columns(new)[k] = Column(InMemory, news[k])
      BY <1>12, <3>2
    <3>4. news[k] = schema[w[i] + 1]
      BY <1>13, <3>2
    <3>5. QED
      BY <3>3, <3>4 DEF k
  <2>4. ASSUME NEW i \in DOMAIN w, w[i] \notin N PROVE loaded_columns[old(i)] = col(i)
    <3>1. w[i] \in Range(w)
      BY DEF Range
    <3>2. schema[w[i] + 1] \in LoadedNames
      BY <2>4, <3>1 DEF NotLoaded
    <3>3. \E k \in DOMAIN loaded_columns : loaded_columns[k].name = schema[w[i] + 1]
      BY <3>2 DEF LoadedNames
    <3>4. old(i) \in DOMAIN loaded_columns /\ loaded_columns[old(i)].name = schema[w[i] + 1]
      BY <3>3
    <3> HIDE DEF old, w
    <3>5. DOMAIN loaded_columns = DOMAIN handles
      BY DEF GInv
    <3>6. loaded_columns[old(i)] = Column(InMemory, handles[old(i)])
      BY <3>4, <3>5 DEF GInv
    <3>7. loaded_columns[old(i)].name = handles[old(i)]
      BY <3>6 DEF Column
    <3>8. QED
      BY <3>4, <3>6, <3>7
  <2>5. got = [i \in DOMAIN w |-> col(i)]
    <3> HIDE DEF w, N, new, col, old, got
    <3>1. QED
      BY <2>1, <2>3, <2>4
  <2>6. ASSUME NEW name PROVE Whole(name) = Column(InMemory, name).cells
    <3>1. Readable = <<InMemory>>
      BY <1>1 DEF Readable
    <3>2. [k \in DOMAIN <<InMemory>> |-> Column(<<InMemory>>[k], name).cells]
            = <<Column(InMemory, name).cells>>
      OBVIOUS
    <3>3. QED
      BY <3>1, <3>2, FlattenOne DEF Whole
  <2>7. ASSUME NEW i \in DOMAIN w
        PROVE  col(i) = [name |-> schema[w[i] + 1], cells |-> Whole(schema[w[i] + 1])]
    <3>1. Whole(schema[w[i] + 1]) = Column(InMemory, schema[w[i] + 1]).cells
      BY <2>6
    <3> HIDE DEF w
    <3>2. QED
      BY <3>1 DEF Column
  <2> HIDE DEF col, got
  <2>8. columns' = [i \in DOMAIN w |-> [name |-> schema[w[i] + 1], cells |-> Whole(schema[w[i] + 1])]]
    <3>1. columns' = got
      BY <1>1 DEF got
    <3> HIDE DEF w
    <3>2. QED
      BY <2>5, <2>7, <3>1
  <2>9. QED
    BY <2>8 DEF WholeScan
<1>16. columns' = WholeScan' /\ schema' = parse_schema(table')
  <2>1. WholeScan' = WholeScan
    BY <1>1 DEF WholeScan, Asked, Wanted, Whole, Readable, file_uris
  <2>2. QED
    BY <1>1, <1>2, <1>15, <2>1
<1>17. ScansAreWhole'
  BY <1>16 DEF ScansAreWhole, WholeScan, Asked, Wanted
<1>18. QED
  BY <1>14, <1>17
-----------------------------------------------------------------------------
(* What is read of a file: all its rows, in the columns that were asked.    *)
LEMMA ReadBack ==
  ASSUME NEW w, NEW n \in Nat, w \in [1 .. n -> Int], NEW f
  PROVE  parse_csv(f, w) = [i \in 1 .. n |-> Column(f, table.columns[w[i] + 1])]
<1> DEFINE idx == argsort(w)
           read == [i \in DOMAIN w |-> Column(f, table.columns[w[idx[i]] + 1])]
           at(j) == CHOOSE i \in DOMAIN idx : idx[i] = j
<1>1. Enumerates(idx, n, 1 .. n)
  BY RankedLists DEF argsort
<1>2. DOMAIN w = 1 .. n
  OBVIOUS
<1>3. parse_csv(f, w) = [j \in DOMAIN idx |-> read[at(j)]]
  BY DEF parse_csv, put_back
<1> HIDE DEF idx
<1>4. DOMAIN idx = 1 .. n /\ \A j \in 1 .. n : at(j) \in 1 .. n /\ idx[at(j)] = j
  BY <1>1 DEF Enumerates
<1> HIDE DEF at
<1>5. \A j \in 1 .. n : read[at(j)] = Column(f, table.columns[w[j] + 1])
  BY <1>2, <1>4
<1> HIDE DEF read
<1>6. QED
  BY <1>3, <1>4, <1>5

LEMMA ParsedWhole ==
  ASSUME TInv, pc = "parsing", task > 0
  PROVE  Parsed(file, Asked) = LoadedFrom(file)
<1> DEFINE w == Asked
           n == Len(w)
           from == [i \in 1 .. n |-> Column(file, schema[w[i] + 1])]
<1>1. /\ table \in Tables /\ schema = parse_schema(table) /\ task \in 1 .. Len(table.scans)
      /\ file \in DOMAIN Rows
  <2>1. table \in Tables /\ task \in Nat /\ task <= Len(table.scans) /\ schema = parse_schema(table)
        /\ file \in DOMAIN Rows
    BY TableFacts DEF TInv, TypeOK, WithFile
  <2>2. Len(table.scans) \in Nat
    BY <2>1, TableFacts
  <2>3. QED
    BY <2>1, <2>2
<1>2. w \in Seq(0 .. Len(schema) - 1) /\ schema \in Seq(Range(table.columns))
  BY <1>1, AskedFacts
<1>3. n \in Nat /\ DOMAIN w = 1 .. n /\ w \in [1 .. n -> Int]
  <2>1. \A i \in 0 .. Len(schema) - 1 : i \in Int
    OBVIOUS
  <2> HIDE DEF w
  <2>2. n \in Nat /\ DOMAIN w = 1 .. n /\ w \in [1 .. n -> 0 .. Len(schema) - 1]
    BY <1>2
  <2>3. QED
    BY <2>1, <2>2
<1> HIDE DEF w, n
<1>4. ASSUME NEW c
      PROVE  [Column(file, c) EXCEPT !.cells = SubSeq(@, 1, Rows[file])] = Column(file, c)
  <2> DEFINE r == Rows[file]
             cells == [k \in 1 .. r |-> <<file, c, k>>]
             C == {<<file, c, k>> : k \in 1 .. r}
  <2>1. r \in Nat
    BY <1>1, SizesAreNumbers
  <2>2. cells \in Seq(C) /\ Len(cells) = r
    <3> HIDE DEF r
    <3>1. \A k \in 1 .. r : <<file, c, k>> \in C
      OBVIOUS
    <3> HIDE DEF C
    <3>2. QED
      BY <2>1, <3>1
  <2>3. SubSeq(cells, 1, r) = cells
    <3> HIDE DEF cells, C, r
    <3>1. QED
      BY <2>2, SubSeqFull
  <2>4. Column(file, c) = [name |-> c, cells |-> cells]
    BY DEF Column
  <2> HIDE DEF cells
  <2>5. [Column(file, c) EXCEPT !.cells = SubSeq(@, 1, Rows[file])]
          = [name |-> c, cells |-> SubSeq(cells, 1, r)]
    <3>1. \A x : [[name |-> c, cells |-> cells] EXCEPT !.cells = x] = [name |-> c, cells |-> x]
      OBVIOUS
    <3>2. Column(file, c).cells = cells
      BY <2>4
    <3>3. [Column(file, c) EXCEPT !.cells = SubSeq(@, 1, Rows[file])]
            = [Column(file, c) EXCEPT !.cells = SubSeq(cells, 1, r)]
      BY <3>2
    <3>4. QED
      BY <2>4, <3>1, <3>3
  <2> HIDE DEF r
  <2>6. QED
    BY <2>3, <2>4, <2>5
<1>5. InBuffer(file, from) = from
  <2>1. CASE table.parser = "csv"
    <3>1. total_read = Rows[file]
      BY <2>1 DEF TInv, Bytes
    <3>2. InBuffer(file, from) = [i \in 1 .. n |-> [from[i] EXCEPT !.cells = SubSeq(@, 1, Rows[file])]]
      BY <2>1, <3>1 DEF InBuffer
    <3>3. \A i \in 1 .. n : [from[i] EXCEPT !.cells = SubSeq(@, 1, Rows[file])] = from[i]
      BY <1>4
    <3>4. from = [i \in 1 .. n |-> from[i]]
      OBVIOUS
    <3> HIDE DEF from
    <3>5. QED
      BY <3>2, <3>3, <3>4
  <2>2. CASE table.parser # "csv"
    <3>1. InBuffer(file, from) = [i \in 1 .. n |-> [from[i] EXCEPT !.cells = @]]
      BY <2>2 DEF InBuffer
    <3>2. \A i \in 1 .. n : [from[i] EXCEPT !.cells = @] = from[i]
      BY DEF Column
    <3>3. from = [i \in 1 .. n |-> from[i]]
      OBVIOUS
    <3> HIDE DEF from
    <3>4. QED
      BY <3>1, <3>2, <3>3
  <2>3. QED
    BY <2>1, <2>2
<1>6. Parsed(file, w) = InBuffer(file, from)
  <2>1. CASE table.parser = "csv"
    <3>1. schema = table.columns
      BY <1>1, <2>1 DEF parse_schema
    <3>2. parse_csv(file, w) = from
      BY <1>3, <3>1, ReadBack
    <3> HIDE DEF from
    <3>3. QED
      BY <2>1, <3>2 DEF Parsed
  <2>2. CASE table.parser # "csv"
    <3>1. parse_parquet(file, w) = from
      BY <1>3 DEF parse_parquet
    <3> HIDE DEF from
    <3>2. QED
      BY <2>2, <3>1 DEF Parsed
  <2>3. QED
    BY <2>1, <2>2
<1>7. LoadedFrom(file) = from
  BY <1>3 DEF LoadedFrom, w
<1> HIDE DEF from
<1>8. QED
  BY <1>5, <1>6, <1>7 DEF w

-----------------------------------------------------------------------------
LEMMA TriedType ==
  ASSUME TInv
  PROVE  /\ Tried \in Seq(Uri \cap DOMAIN Rows) /\ Len(Tried) \in Nat /\ DOMAIN Tried = 1 .. Len(Tried)
         /\ file_uris \in Seq(Uri) /\ current_file \in 0 .. Len(file_uris)
<1>1. file_uris \in Seq(Uri) /\ current_file \in 0 .. Len(file_uris)
  BY UrisOfTheList DEF TInv, TypeOK
<1>2. Tried \in Seq(Uri \cap DOMAIN Rows)
  BY <1>1, KeptUpToType DEF Tried
<1>3. Len(Tried) \in Nat /\ DOMAIN Tried = 1 .. Len(Tried)
  BY <1>2
<1>4. QED
  BY <1>1, <1>2, <1>3

(* A step that leaves the list of files, the request and the place alone.   *)
LEMMA SameScan ==
  ASSUME table' = table, schema' = schema, task' = task
  PROVE  /\ Asked' = Asked /\ file_uris' = file_uris
         /\ \A f : LoadedFrom(f)' = LoadedFrom(f)
         /\ current_file' = current_file => Tried' = Tried
         /\ WholeScan' = WholeScan
BY DEF Asked, Wanted, file_uris, LoadedFrom, Tried, WholeScan, Whole, Readable

LEMMA NextFileLInv ==
  ASSUME TInv, LInv, NextFile
  PROVE  LInv'
<1> DEFINE u == next_uri
           f == IF u \in DOMAIN Rows THEN u ELSE Null
<1>1. /\ Calls /\ directory_uris = <<>> /\ Hand(u) /\ current_file' = current_file + 1
      /\ directory_uris' = directory_uris
  BY DEF NextFile
<1>2. UNCHANGED <<table, schema, task>> /\ pc = "iterating"
  BY <1>1 DEF Hand, Calls
<1>3. SUFFICES ASSUME task > 0, table.parser # "gdf"
               PROVE  /\ pc' = "iterating" =>
                           columns_per_file' = [k \in 1 .. Len(Tried') |-> LoadedFrom(Tried'[k])]
                      /\ pc' \in WithFile =>
                           /\ Len(Tried') > 0 /\ file' = Tried'[Len(Tried')]
                           /\ columns_per_file' = [k \in 1 .. Len(Tried') - 1 |-> LoadedFrom(Tried'[k])]
  BY <1>2, SameScan DEF LInv
<1>4. task # 0
  BY <1>3
<1>5. file' = f /\ columns_per_file' = columns_per_file
      /\ pc' = IF f = Null THEN "iterating" ELSE "opened"
  BY <1>1, <1>4 DEF Hand
<1>6. columns_per_file = [k \in 1 .. Len(Tried) |-> LoadedFrom(Tried[k])]
  BY <1>1, <1>2, <1>3 DEF LInv
<1>7. u = file_uris[current_file + 1] /\ current_file + 1 \in 1 .. Len(file_uris)
  <2>1. u = file_uris[current_file + 1] /\ current_file < Len(file_uris)
    BY <1>1, CallsFacts
  <2>2. current_file \in 0 .. Len(file_uris) /\ Len(file_uris) \in Nat
    BY TriedType
  <2>3. QED
    BY <2>1, <2>2
<1>8. Tried' = IF u \in DOMAIN Rows THEN Append(Tried, u) ELSE Tried
  <2>1. file_uris \in Seq(Uri) /\ (current_file + 1) - 1 = current_file
    BY TriedType
  <2>2. KeptUpTo(file_uris, DOMAIN Rows)[current_file + 1]
          = IF u \in DOMAIN Rows THEN Append(KeptUpTo(file_uris, DOMAIN Rows)[current_file], u)
            ELSE KeptUpTo(file_uris, DOMAIN Rows)[current_file]
    BY <1>7, <2>1, KeptUpToStep
  <2>3. Tried' = KeptUpTo(file_uris, DOMAIN Rows)[current_file + 1]
    BY <1>1, <1>2, SameScan DEF Tried
  <2>4. QED
    BY <2>2, <2>3 DEF Tried
<1> HIDE DEF u
<1>9. CASE u \in DOMAIN Rows
  <2>1. u \in Uri /\ u # Null
    BY <1>9, NullIsNoFile DEF Uri
  <2>2. Tried' = Append(Tried, u) /\ file' = u /\ pc' = "opened"
    BY <1>5, <1>8, <1>9, <2>1
  <2>3. /\ Len(Tried') = Len(Tried) + 1 /\ Len(Tried) \in Nat /\ Tried'[Len(Tried) + 1] = u
        /\ \A k \in 1 .. Len(Tried) : Tried'[k] = Tried[k]
    BY <1>9, <2>1, <2>2, TriedType
  <2>4. Len(Tried') > 0 /\ Len(Tried') - 1 = Len(Tried)
    BY <2>3
  <2>5. columns_per_file' = [k \in 1 .. Len(Tried') - 1 |-> LoadedFrom(Tried'[k])]
    BY <1>5, <1>6, <2>3, <2>4
  <2>6. QED
    BY <2>2, <2>3, <2>4, <2>5
<1>10. CASE u \notin DOMAIN Rows
  <2>1. Tried' = Tried /\ pc' = "iterating"
    BY <1>5, <1>8, <1>10
  <2>2. QED
    BY <1>5, <1>6, <2>1 DEF WithFile
<1>11. QED
  BY <1>9, <1>10

LEMMA ParseLInv ==
  ASSUME TInv, LInv, Parse
  PROVE  LInv'
<1>1. /\ pc = "parsing" /\ task > 0 /\ pc' = "iterating"
      /\ columns_per_file' = Append(columns_per_file, Parsed(file, Asked))
      /\ UNCHANGED <<table, schema, task, current_file, directory_uris>>
  BY DEF Parse, Asked, provider
<1>2. SUFFICES ASSUME table.parser # "gdf", directory_uris = <<>>
               PROVE  columns_per_file' = [k \in 1 .. Len(Tried) |-> LoadedFrom(Tried[k])]
  BY <1>1, SameScan DEF LInv, WithFile
<1>3. /\ Len(Tried) > 0 /\ file = Tried[Len(Tried)]
      /\ columns_per_file = [k \in 1 .. Len(Tried) - 1 |-> LoadedFrom(Tried[k])]
  BY <1>1, <1>2 DEF LInv, WithFile
<1>4. Parsed(file, Asked) = LoadedFrom(file)
  BY <1>1, ParsedWhole
<1> DEFINE n == Len(Tried)
           g == [k \in 1 .. n |-> LoadedFrom(Tried[k])]
           C == {LoadedFrom(Tried[k]) : k \in 1 .. n}
<1>5. n \in Nat
  BY TriedType
<1>6. /\ g \in Seq(C) /\ Len(g) = n /\ columns_per_file \in Seq(C) /\ Len(columns_per_file) = n - 1
      /\ LoadedFrom(file) \in C
  <2>1. \A k \in 1 .. n : LoadedFrom(Tried[k]) \in C
    OBVIOUS
  <2>2. n - 1 \in Nat /\ 1 .. n - 1 \subseteq 1 .. n /\ n \in 1 .. n
    BY <1>3, <1>5
  <2> HIDE DEF C, n
  <2>3. g \in Seq(C) /\ Len(g) = n
    BY <1>5, <2>1
  <2>4. columns_per_file = [k \in 1 .. n - 1 |-> LoadedFrom(Tried[k])]
    BY <1>3 DEF n
  <2>5. columns_per_file \in Seq(C) /\ Len(columns_per_file) = n - 1
    BY <2>1, <2>2, <2>4
  <2>6. LoadedFrom(file) \in C
    BY <1>3, <2>1, <2>2 DEF n
  <2>7. QED
    BY <2>3, <2>5, <2>6
<1>7. ASSUME NEW k \in 1 .. n
      PROVE  Append(columns_per_file, LoadedFrom(file))[k] = g[k]
  <2>1. CASE k = n
    BY <1>3, <1>5, <1>6, <2>1
  <2>2. CASE k # n
    <3>1. k \in 1 .. n - 1
      BY <1>5, <2>2
    <3>2. columns_per_file[k] = g[k]
      BY <1>3, <3>1
    <3> HIDE DEF g, C, n
    <3>3. QED
      BY <1>5, <1>6, <3>1, <3>2
  <2>3. QED
    BY <2>1, <2>2
<1>8. Append(columns_per_file, LoadedFrom(file)) = g
  <2> HIDE DEF g, C, n
  <2>1. /\ Append(columns_per_file, LoadedFrom(file)) \in Seq(C)
        /\ Len(Append(columns_per_file, LoadedFrom(file))) = n
    BY <1>5, <1>6
  <2>2. QED
    BY <1>6, <1>7, <2>1, SeqEqual
<1>9. QED
  BY <1>1, <1>4, <1>8

LEMMA LoadDataWhole ==
  ASSUME TInv, LInv, LoadData
  PROVE  ScansAreWhole'
<1>1. /\ pc = "iterating" /\ task > 0 /\ ~has_next /\ table.parser # "gdf"
      /\ columns' = IF columns_per_file = <<>> \/ columns_per_file[1] = <<>>
                    THEN create_empty_columns(Asked) ELSE Concatenated
      /\ UNCHANGED <<table, schema, task>>
  BY DEF LoadData, Asked
<1>2. schema = parse_schema(table) /\ directory_uris = <<>>
  BY <1>1 DEF TInv
<1>3. columns_per_file = [k \in 1 .. Len(Tried) |-> LoadedFrom(Tried[k])]
  BY <1>1, <1>2 DEF LInv
<1>4. Tried = Readable
  <2>1. current_file = Len(file_uris)
    BY <1>1, TriedType DEF has_next
  <2>2. QED
    BY <1>1, <2>1 DEF Tried, Readable, Kept
<1>5. Len(Tried) \in Nat /\ DOMAIN Tried = 1 .. Len(Tried)
  BY TriedType
<1>6. CASE Len(Tried) = 0
  <2>1. columns_per_file = <<>>
    BY <1>3, <1>6
  <2>2. columns' = create_empty_columns(Asked)
    BY <1>1, <2>1
  <2>3. ASSUME NEW name PROVE Whole(name) = <<>>
    <3>1. [k \in DOMAIN Readable |-> Column(Readable[k], name).cells] = <<>>
      BY <1>4, <1>5, <1>6
    <3>2. QED
      BY <3>1, FlattenEmpty DEF Whole
  <2>4. columns' = WholeScan
    BY <2>2, <2>3 DEF create_empty_columns, WholeScan
  <2>5. QED
    BY <1>1, <1>2, <2>4, SameScan DEF ScansAreWhole, WholeScan, Asked, Wanted
<1>7. CASE Len(Tried) # 0
  <2>1. /\ 1 \in 1 .. Len(Tried) /\ columns_per_file[1] = LoadedFrom(Tried[1])
        /\ DOMAIN columns_per_file = 1 .. Len(Tried) /\ columns_per_file # <<>>
    <3>1. 1 \in 1 .. Len(Tried)
      BY <1>5, <1>7
    <3>2. DOMAIN columns_per_file = 1 .. Len(Tried)
      BY <1>3
    <3>3. columns_per_file # <<>>
      BY <3>1, <3>2
    <3>4. QED
      BY <1>3, <3>1, <3>2, <3>3
  <2>2. DOMAIN LoadedFrom(Tried[1]) = DOMAIN Asked
    BY DEF LoadedFrom
  <2>3. CASE LoadedFrom(Tried[1]) = <<>>
    <3>1. DOMAIN Asked = {}
      BY <2>2, <2>3
    <3>2. columns' = create_empty_columns(Asked)
      BY <1>1, <2>1, <2>3
    <3>3. columns' = WholeScan
      BY <3>1, <3>2 DEF create_empty_columns, WholeScan
    <3>4. QED
      BY <1>1, <1>2, <3>3, SameScan DEF ScansAreWhole, WholeScan, Asked, Wanted
  <2>4. CASE LoadedFrom(Tried[1]) # <<>>
    <3>1. columns' = Concatenated
      BY <1>1, <2>1, <2>4
    <3>2. ASSUME NEW i \in DOMAIN Asked
          PROVE  /\ columns_per_file[1][i].name = schema[Asked[i] + 1]
                 /\ [k \in DOMAIN columns_per_file |-> columns_per_file[k][i].cells]
                      = [k \in DOMAIN Readable |-> Column(Readable[k], schema[Asked[i] + 1]).cells]
      <4>1. \A k \in 1 .. Len(Tried) :
              columns_per_file[k][i] = Column(Tried[k], schema[Asked[i] + 1])
        BY <1>3 DEF LoadedFrom
      <4>2. columns_per_file[1][i].name = schema[Asked[i] + 1]
        <5>1. 1 \in 1 .. Len(Tried)
          BY <2>1
        <5>2. columns_per_file[1][i] = Column(Tried[1], schema[Asked[i] + 1])
          BY <4>1, <5>1
        <5>3. QED
          BY <5>2 DEF Column
      <4>3. [k \in DOMAIN columns_per_file |-> columns_per_file[k][i].cells]
              = [k \in 1 .. Len(Tried) |-> Column(Tried[k], schema[Asked[i] + 1]).cells]
        BY <2>1, <4>1
      <4>4. QED
        BY <1>4, <1>5, <4>2, <4>3
    <3>3. Concatenated = [i \in DOMAIN Asked |->
             [name |-> columns_per_file[1][i].name,
              cells |-> FlattenSeq([k \in DOMAIN columns_per_file |-> columns_per_file[k][i].cells])]]
      BY <2>1, <2>2 DEF Concatenated
    <3>4. Concatenated = WholeScan
      BY <3>2, <3>3 DEF WholeScan, Whole
    <3>5. QED
      BY <1>1, <1>2, <3>1, <3>4, SameScan DEF ScansAreWhole, WholeScan, Asked, Wanted
  <2>5. QED
    BY <2>3, <2>4
<1>8. QED
  BY <1>6, <1>7

SInv == TInv /\ LInv /\ GInv /\ ScansAreWhole

LEMMA InitSInv == Init => SInv
<1>1. SUFFICES ASSUME Init PROVE LInv /\ GInv /\ ScansAreWhole
  BY InitTInv DEF SInv
<1>2. TInv
  BY <1>1, InitTInv
<1>3. ScansAreWhole
  BY <1>1 DEF Init, ScansAreWhole
<1>4. GInv
  BY <1>1 DEF Init, GInv, IsInjective
<1>5. LInv
  <2>1. file_uris \in Seq(Uri) /\ current_file = 0
    BY <1>1, <1>2, TriedType DEF Init
  <2>2. Tried = <<>>
    BY <2>1, KeptUpToType DEF Tried
  <2>3. [k \in 1 .. 0 |-> LoadedFrom(Tried[k])] = <<>> /\ Len(<<>>) = 0
    OBVIOUS
  <2>4. pc = "iterating" /\ columns_per_file = <<>>
    BY <1>1 DEF Init
  <2>5. QED
    BY <2>2, <2>3, <2>4 DEF LInv, WithFile
<1>6. QED
  BY <1>3, <1>4, <1>5

(* Steps that neither load a scan nor begin one keep what was loaded.       *)
LEMMA KeepsScan ==
  ASSUME SInv, UNCHANGED <<table, handles, loaded_columns>>, pc' # "loaded" \/ task' = 0
  PROVE  GInv' /\ ScansAreWhole'
BY DEF SInv, GInv, ScansAreWhole, Column

(* Before the first file of a scan nothing is loaded.                       *)
LEMMA BeginsLInv ==
  ASSUME table' \in Tables, current_file' = 0, columns_per_file' = <<>>, pc' \notin WithFile
  PROVE  LInv'
<1>1. file_uris' \in Seq(Uri)
  BY TablesAreTables DEF file_uris
<1>2. Tried' = <<>>
  BY <1>1, KeptUpToType DEF Tried
<1>3. columns_per_file' = [k \in 1 .. Len(Tried') |-> LoadedFrom(Tried[k])']
  BY <1>2
<1>4. QED
  BY <1>3 DEF LInv

LEMMA NextSInv == SInv /\ [Next]_vars => SInv'
<1>1. SUFFICES ASSUME SInv, [Next]_vars PROVE LInv' /\ GInv' /\ ScansAreWhole'
  BY NextTInv DEF SInv
<1>2. TInv /\ LInv /\ GInv /\ ScansAreWhole /\ table \in Tables
  BY <1>1 DEF SInv, TInv, TypeOK
<1>3. CASE NextFile
  <2>1. /\ UNCHANGED <<table, handles, loaded_columns>>
        /\ pc' # "loaded"
    BY <1>3 DEF NextFile, Hand, parser, Calls
  <2>2. QED
    BY <1>1, <1>2, <1>3, <2>1, NextFileLInv, KeepsScan
<1>4. CASE NextMissing \/ EnterEmptyDirectory \/ NextPastTheEnd \/ ReadFails
  <2>1. PICK how \in {"threw", "overflow", "undefined", "aborted"} : Stops(how)
    BY <1>4 DEF NextMissing, EnterEmptyDirectory, NextPastTheEnd, ReadFails
  <2>2. UNCHANGED <<table, handles, loaded_columns, directory_uris>> /\ task' = task
        /\ pc' # "loaded" /\ pc' # "iterating" /\ pc' \notin WithFile
    BY <2>1 DEF Stops, parser, WithFile, provider
  <2>3. LInv'
    BY <2>2 DEF LInv
  <2>4. QED
    BY <1>1, <2>2, <2>3, KeepsScan
<1>5. CASE EnterDirectory \/ NextOfDirectory
  <2>1. UNCHANGED <<table, handles, loaded_columns>> /\ pc' # "loaded" /\ directory_uris' # <<>>
    BY <1>5 DEF EnterDirectory, NextOfDirectory, Hand, parser, Calls
  <2>2. LInv'
    BY <2>1 DEF LInv
  <2>3. QED
    BY <1>1, <2>1, <2>2, KeepsScan
<1>6. CASE ParseFile \/ Read
  <2>1. /\ UNCHANGED <<table, schema, task, handles, loaded_columns, file, columns_per_file>>
        /\ UNCHANGED <<current_file, directory_uris>> /\ pc \in WithFile
        /\ pc' # "loaded" /\ pc' # "iterating"
    BY <1>6 DEF ParseFile, Read, parser, provider, WithFile
  <2>2. LInv'
    BY <1>2, <2>1, SameScan DEF LInv
  <2>3. QED
    BY <1>1, <2>1, <2>2, KeepsScan
<1>7. CASE Parse
  <2>1. UNCHANGED <<table, handles, loaded_columns>> /\ pc' # "loaded"
    BY <1>7 DEF Parse, parser
  <2>2. QED
    BY <1>1, <1>2, <1>7, <2>1, ParseLInv, KeepsScan
<1>8. CASE GetSchema \/ ParseSchema
  <2>1. UNCHANGED <<table, handles, loaded_columns>> /\ task' = 0
    BY <1>8 DEF GetSchema, ParseSchema, parser
  <2>2. LInv'
    BY <2>1 DEF LInv
  <2>3. QED
    BY <1>1, <2>1, <2>2, KeepsScan
<1>9. CASE LoadData
  <2>1. UNCHANGED <<table, handles, loaded_columns>> /\ pc' = "loaded"
    BY <1>9 DEF LoadData, parser
  <2>2. LInv'
    BY <2>1 DEF LInv, WithFile
  <2>3. GInv'
    BY <1>2, <2>1 DEF GInv, Column
  <2>4. QED
    BY <1>2, <1>9, <2>2, <2>3, LoadDataWhole
<1>10. CASE LoadGdf
  <2>1. table' = table /\ table.parser = "gdf"
    BY <1>10 DEF LoadGdf
  <2>2. LInv'
    BY <2>1 DEF LInv
  <2>3. QED
    BY <1>2, <1>10, <2>2, LoadGdfKeeps
<1>11. CASE Destroy
  <2>1. UNCHANGED <<table, handles, loaded_columns>>
    BY <1>11 DEF Destroy, parser
  <2>2. CASE Null \in opened_files
    <3>1. pc' = "undefined" /\ UNCHANGED <<task, directory_uris>>
      BY <1>11, <2>2 DEF Destroy, provider
    <3>2. LInv'
      BY <3>1 DEF LInv, WithFile
    <3>3. QED
      BY <1>1, <2>1, <3>1, <3>2, KeepsScan
  <2>3. CASE Null \notin opened_files
    <3>1. Fresh /\ pc' \in {"done", "iterating"}
      BY <1>11, <2>3 DEF Destroy
    <3>2. LInv'
      BY <1>2, <2>1, <3>1, BeginsLInv DEF Fresh, WithFile
    <3>3. QED
      BY <1>1, <2>1, <3>1, <3>2, KeepsScan
  <2>4. QED
    BY <2>2, <2>3
<1>12. CASE NextScan
  <2>1. /\ UNCHANGED <<table, handles, loaded_columns, current_file>> /\ pc' = "iterating"
        /\ columns_per_file' = <<>> /\ pc = "loaded" /\ ~LastTask
    BY <1>12 DEF NextScan, parser, provider
  <2>2. current_file = 0
    <3>1. task \in Nat /\ task # 0
      BY <1>2, <2>1 DEF LastTask, TInv, TypeOK
    <3>2. task > 0
      BY <3>1
    <3>3. QED
      BY <1>2, <2>1, <3>2 DEF TInv
  <2>3. LInv'
    BY <1>2, <2>1, <2>2, BeginsLInv DEF WithFile
  <2>4. QED
    BY <1>1, <2>1, <2>3, KeepsScan
<1>13. CASE UNCHANGED vars
  <2>1. /\ UNCHANGED <<table, schema, task, handles, loaded_columns, file, columns_per_file, columns>>
        /\ UNCHANGED <<current_file, directory_uris, pc>>
    BY <1>13 DEF vars, provider, reader, parser
  <2>2. LInv'
    BY <1>2, <2>1, SameScan DEF LInv
  <2>3. GInv'
    BY <1>2, <2>1 DEF GInv, Column
  <2>4. ScansAreWhole'
    BY <1>2, <2>1 DEF ScansAreWhole, Whole, Readable, file_uris
  <2>5. QED
    BY <2>2, <2>3, <2>4
<1>14. QED
  BY <1>1, <1>3, <1>4, <1>5, <1>6, <1>7, <1>8, <1>9, <1>10, <1>11, <1>12, <1>13 DEF Next

(* Every scan of a query gets exactly the columns it asked for, with all    *)
(* the rows of all the files that could be opened, for lists of any length, *)
(* files of any size, and any number of scans with the same loader.         *)
THEOREM EveryScanIsWhole == Spec => []ScansAreWhole
<1>1. SInv => ScansAreWhole
  BY DEF SInv
<1>2. QED
  BY <1>1, InitSInv, NextSInv, PTL DEF Spec

(* No memory of another process is opened twice, whatever the scans ask.    *)
THEOREM HandlesOpenedOnce == Spec => []OpenedOnce
<1>1. SInv => OpenedOnce
  BY DEF SInv, GInv, OpenedOnce
<1>2. QED
  BY <1>1, InitSInv, NextSInv, PTL DEF Spec
====
