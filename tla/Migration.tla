------------------------------ MODULE Migration ------------------------------
(***************************************************************************)
(* seekdb-dump and seekdb-restore (python/pylibseekdb/_migration.py): one  *)
(* dump into a file or a pipe while applications write to the source, and  *)
(* one restore of what arrives.  Which views are dumped, and in what order, *)
(* is ViewOrder's part.  Schemas do not change meanwhile, as the manual    *)
(* asks; rows may.                                                         *)
(*                                                                         *)
(* A dump is a sequence of items: <<"format">>, <<"incomplete", BOOLEAN>>, *)
(* <<"set">> for the session settings, <<"table", t>>, <<"rows", t, n>>    *)
(* for an INSERT of n rows, <<"count", t, n>>, <<"view", v>> and           *)
(* <<"complete">>; what is left of an item whose end was lost may be one   *)
(* that nobody can parse, Malformed.  Rows are only counted.               *)
(***************************************************************************)
EXTENDS ViewOrder

CONSTANTS
  Tables,
  Null,
  InitialRows,    \* rows of each table when the dump starts
  MaxRows,        \* bound: rows of a table
  MaxInsertRows,  \* rows of one INSERT (1000 in the code)
  MaxWrites       \* bound: transactions of applications during the dump

\* The rows of each table at one moment.
Moments == [Tables -> 0..MaxRows]

ASSUME NullAssumption == Null \notin Tables /\ Null \notin Moments
ASSUME RowsAssumption == /\ MaxRows \in Nat /\ InitialRows \in Moments
                         /\ MaxInsertRows \in Nat \ {0} /\ MaxWrites \in Nat

VARIABLES
  \* the source
  trigger,      \* it has an object of a kind that is not exported
  lacking,      \* views that use such an object of a selected database
  data,         \* rows of each table
  past,         \* history: what data has been
  writes,
  \* the dump
  dump,         \* its control state
  ignore,       \* --ignore-unsupported
  toFile,       \* --output, else a pipe
  snapshot,     \* what its transaction reads, or Null
  todo,         \* tables or views still to write
  table,        \* the table being read, or Null
  unread,       \* rows its SELECT has yet to give
  count, batch, \* its rows read, and those of them not written yet
  temporary,    \* the temporary file
  destination,  \* the output file, or Absent, or what went into the pipe
  \* the restore
  restore,      \* its control state
  input,        \* the opened file
  pos,          \* items of it consumed
  metadata,     \* what the comments said
  counted,      \* what SELECT COUNT(*) answered for each table, -1 before
  theirs,       \* kinds of the objects it found in the target
  tables, views, \* what the target holds of the dump
  meddled,      \* history: another client has changed the target
  fault         \* history: no file, or a damaged one, or a failing connection

source == <<trigger, lacking, data, past, writes>>
chosen == <<ignore, toFile>>
rows == <<table, unread, count, batch>>
reading == <<snapshot, todo, rows>>
files  == <<temporary, destination>>
dumper == <<dump, chosen, reading, files>>
target == <<theirs, tables, views, meddled>>
reader == <<restore, input, pos, metadata, counted, target>>
vars == <<viewVars, source, dumper, reader, fault>>

NoCount == [t \in Tables |-> -1]
NoMetadata == [format |-> FALSE, incomplete |-> FALSE, complete |-> FALSE, expected |-> NoCount]
Malformed == <<"malformed">>
Absent == <<<<"absent">>>>  \* no output file: not what a dump can contain
Whole(d) == Len(d) > 1 /\ d[1] = <<"format">> /\ d[Len(d)] = <<"complete">>

Init ==
  /\ ViewInit
  /\ trigger \in BOOLEAN /\ lacking \in SUBSET Views /\ (lacking # {} => trigger)
  /\ data = InitialRows /\ past = {data} /\ writes = 0
  /\ dump = "idle" /\ ignore \in BOOLEAN /\ toFile \in BOOLEAN
  /\ snapshot = Null /\ todo = {} /\ table = Null /\ unread = 0 /\ count = 0 /\ batch = 0
  /\ temporary = <<>> /\ destination = IF toFile THEN Absent ELSE <<>>
  /\ restore = "idle" /\ input = <<>> /\ pos = 0 /\ metadata = NoMetadata
  /\ counted = NoCount /\ theirs = {}
  /\ tables = NoCount /\ views = {} /\ meddled = FALSE
  /\ fault = FALSE

-----------------------------------------------------------------------------
(* The dump                                                                *)

Writing == dump \in {"header", "tables", "data", "views", "close"}

Goto(from, to) == dump = from /\ dump' = to

Emit_InPlace(items) ==
  /\ destination' = IF destination = Absent THEN items ELSE destination \o items
  /\ UNCHANGED temporary

\* dump_output: a temporary file stands in for the output file.
Emit(items) ==
  IF toFile THEN temporary' = temporary \o items /\ UNCHANGED destination
  ELSE destination' = destination \o items /\ UNCHANGED temporary

\* inspect_dump reads the schemas; the loops of ViewOrder run on what it found.
Inspect ==
  /\ Goto("idle", "inspect")
  /\ UNCHANGED <<viewVars, source, chosen, reading, files, reader, fault>>

OrderViews ==
  /\ dump = "inspect" /\ ViewStep
  /\ UNCHANGED <<source, dumper, reader, fault>>

Unsupported_Triggers == trigger

Unsupported == trigger \/ skipped # {}

\* Nothing is written before every unsupported object and every cycle is known.
Preflight ==
  /\ dump = "inspect" /\ stage \in {"ordered", "cyclic"}
  /\ dump' = IF stage = "cyclic" \/ (Unsupported /\ ~ignore) THEN "refused" ELSE "begin"
  /\ UNCHANGED <<viewVars, source, chosen, reading, files, reader, fault>>

Begin_Plain ==
  /\ Goto("begin", "header")
  /\ UNCHANGED <<viewVars, source, chosen, reading, files, reader, fault>>

\* START TRANSACTION WITH CONSISTENT SNAPSHOT.
Begin ==
  /\ Goto("begin", "header")
  /\ snapshot' = data
  /\ UNCHANGED <<viewVars, source, chosen, todo, rows, files, reader, fault>>

WriteHeader ==
  /\ Goto("header", "tables")
  /\ Emit(<<<<"format">>, <<"incomplete", Unsupported>>, <<"set">>>>)
  /\ todo' = Tables
  /\ UNCHANGED <<viewVars, source, chosen, snapshot, rows, reader, fault>>

WriteTable(t) ==
  /\ dump = "tables" /\ t \in todo
  /\ Emit(<<<<"table", t>>>>)
  /\ todo' = todo \ {t}
  /\ UNCHANGED <<viewVars, source, dump, chosen, snapshot, rows, reader, fault>>

TablesWritten ==
  /\ todo = {} /\ Goto("tables", "data")
  /\ todo' = Tables
  /\ UNCHANGED <<viewVars, source, chosen, snapshot, rows, files, reader, fault>>

\* _dump_table_data: the rows come from one SELECT.
ReadTable(t) ==
  /\ dump = "data" /\ table = Null /\ t \in todo
  /\ table' = t /\ unread' = (IF snapshot = Null THEN data ELSE snapshot)[t]
  /\ todo' = todo \ {t}
  /\ UNCHANGED <<viewVars, source, dump, chosen, snapshot, count, batch, files, reader, fault>>

ReadRow_AfterFlush ==
  /\ dump = "data" /\ unread > 0
  /\ unread' = unread - 1 /\ count' = count + 1
  /\ \E full \in BOOLEAN :
       IF batch > 0 /\ (batch >= MaxInsertRows \/ full)
       THEN Emit(<<<<"rows", table, batch>>>>) /\ batch' = 0
       ELSE batch' = batch + 1 /\ UNCHANGED files
  /\ UNCHANGED <<viewVars, source, dump, chosen, snapshot, todo, table, reader, fault>>

\* One row: a full batch is written before the row begins the next one.  A row may
\* be too long for the batch (MAX_INSERT_BYTES); lengths are not modelled.
ReadRow ==
  /\ dump = "data" /\ unread > 0
  /\ unread' = unread - 1 /\ count' = count + 1
  /\ \E full \in BOOLEAN :
       IF batch > 0 /\ (batch >= MaxInsertRows \/ full)
       THEN Emit(<<<<"rows", table, batch>>>>) /\ batch' = 1
       ELSE batch' = batch + 1 /\ UNCHANGED files
  /\ UNCHANGED <<viewVars, source, dump, chosen, snapshot, todo, table, reader, fault>>

\* After the last row the rest is written.
FlushBatch ==
  /\ dump = "data" /\ unread = 0 /\ batch > 0
  /\ Emit(<<<<"rows", table, batch>>>>)
  /\ batch' = 0
  /\ UNCHANGED <<viewVars, source, dump, chosen, snapshot, todo, table, unread, count, reader, fault>>

WriteCount ==
  /\ dump = "data" /\ table # Null /\ unread = 0 /\ batch = 0
  /\ Emit(<<<<"count", table, count>>>>)
  /\ table' = Null /\ count' = 0
  /\ UNCHANGED <<viewVars, source, dump, chosen, snapshot, todo, unread, batch, reader, fault>>

DataWritten ==
  /\ todo = {} /\ table = Null /\ Goto("data", "views")
  /\ todo' = Views \ skipped
  /\ UNCHANGED <<viewVars, source, chosen, snapshot, rows, files, reader, fault>>

WriteView(v) ==
  /\ dump = "views" /\ v \in todo
  /\ \E i \in DOMAIN ordered :
       v \in ordered[i] /\ \A j \in 1..(i - 1) : ordered[j] \cap todo = {}
  /\ Emit(<<<<"view", v>>>>)
  /\ todo' = todo \ {v}
  /\ UNCHANGED <<viewVars, source, dump, chosen, snapshot, rows, reader, fault>>

WriteFooter ==
  /\ todo = {} /\ Goto("views", "close")
  /\ Emit(<<<<"complete">>>>)
  /\ UNCHANGED <<viewVars, source, chosen, reading, reader, fault>>

\* The temporary file takes the place of the output file.
Publish ==
  /\ Goto("close", "rollback")
  /\ IF toFile THEN destination' = temporary /\ temporary' = <<>> ELSE UNCHANGED files
  /\ UNCHANGED <<viewVars, source, chosen, reading, reader, fault>>

\* The transaction ends after the output is in its place, and may fail to.
Rollback ==
  /\ Goto("rollback", "done")
  /\ snapshot' = Null
  /\ UNCHANGED <<viewVars, source, chosen, todo, rows, files, reader, fault>>

\* SQL and writes may fail at any point: the temporary file goes, the output stays.
DumpFails ==
  /\ dump \in {"idle", "inspect", "begin", "rollback"} \/ Writing
  /\ dump' = "failed"
  /\ temporary' = <<>>
  /\ snapshot' = Null
  /\ UNCHANGED <<viewVars, source, chosen, todo, rows, destination, reader, fault>>

\* What arrives of an item whose writing is cut short: the rows of an INSERT that
\* were written may still make a statement.
Torn == {Malformed} \cup {<<"rows", table, n>> : n \in 1..(batch - 1)}

\* Killed: a half written temporary file remains, as nobody's output; a pipe may end
\* within an item.
DumpCrash ==
  /\ Writing \/ dump = "rollback"
  /\ dump' = "crashed" /\ snapshot' = Null
  /\ \/ UNCHANGED files
     \/ dump \notin {"close", "rollback"} /\ \E x \in Torn : Emit(<<x>>)
  /\ UNCHANGED <<viewVars, source, chosen, todo, rows, reader, fault>>

DumpStep ==
  \/ Inspect \/ OrderViews \/ Preflight \/ Begin \/ WriteHeader \/ TablesWritten
  \/ ReadRow \/ FlushBatch \/ WriteCount \/ DataWritten \/ WriteFooter \/ Publish
  \/ Rollback
  \/ \E t \in Tables : WriteTable(t) \/ ReadTable(t)
  \/ \E v \in Views : WriteView(v)

\* A transaction of an application: any tables gain or lose a row.
Write ==
  /\ writes < MaxWrites
  /\ dump = "begin" \/ Writing
  /\ \E d \in Moments :
       /\ \A t \in Tables : d[t] \in (data[t] - 1)..(data[t] + 1)
       /\ data' = d /\ past' = past \cup {d}
  /\ writes' = writes + 1
  /\ UNCHANGED <<viewVars, trigger, lacking, dumper, reader, fault>>

-----------------------------------------------------------------------------
(* The restore                                                             *)

Input == IF toFile THEN input ELSE destination
DumpEnded == dump \in {"done", "failed", "refused", "crashed"}
AtEnd == pos = Len(Input) /\ (toFile \/ DumpEnded)

\* Without a file there is nothing to open.
Open ==
  /\ restore = "idle"
  /\ restore' = IF destination = Absent THEN "failed" ELSE "prefix"
  /\ input' = IF toFile /\ destination # Absent THEN destination ELSE <<>>
  /\ fault' = (fault \/ destination = Absent)
  /\ UNCHANGED <<viewVars, source, dumper, pos, metadata, counted, target>>

Noted(item) ==
  CASE item[1] = "format"     -> [metadata EXCEPT !.format = TRUE]
    [] item[1] = "incomplete" -> [metadata EXCEPT !.incomplete = item[2]]
    [] item[1] = "complete"   -> [metadata EXCEPT !.complete = TRUE]
    [] item[1] = "count"      -> [metadata EXCEPT !.expected[item[2]] = item[3]]
    [] OTHER                  -> metadata

\* read_metadata_prefix stops at the first statement; what it read is parsed again.
\* parse_metadata_line raises for a comment whose value makes no sense.
ReadPrefix ==
  /\ restore = "prefix"
  /\ Len(Input) >= 3 \/ toFile \/ DumpEnded
  /\ IF \E i \in {1, 2} : i <= Len(Input) /\ Input[i] = Malformed
     THEN restore' = "failed" /\ UNCHANGED metadata
     ELSE /\ restore' = "target"
          /\ metadata' = [metadata EXCEPT
               !.format = Len(Input) >= 1,
               !.incomplete = Len(Input) >= 2 /\ Input[2] = <<"incomplete", TRUE>>]
  /\ UNCHANGED <<viewVars, source, dumper, input, pos, counted, target, fault>>

\* inspect_empty_target.
InspectTarget ==
  /\ restore = "target"
  /\ theirs' \in SUBSET {"BASE TABLE", "VIEW"}
  /\ restore' = IF theirs' # {} THEN "refused" ELSE "apply"
  /\ UNCHANGED <<viewVars, source, dumper, input, pos, metadata, counted, tables, views, meddled, fault>>

\* What the server makes of a statement; it rejects what refers to a missing object.
Accepted(item) ==
  CASE item[1] = "table" -> tables[item[2]] = -1
    [] item[1] = "rows"  -> tables[item[2]] # -1
    [] item[1] = "view"  -> /\ item[2] \notin views \cup lacking
                            /\ dependencies[item[2]] \subseteq views
    [] OTHER             -> item # Malformed

Execute(item) ==
  /\ tables' = CASE item[1] = "table" -> [tables EXCEPT ![item[2]] = 0]
                 [] item[1] = "rows"  -> [tables EXCEPT ![item[2]] = @ + item[3]]
                 [] OTHER             -> tables
  /\ views' = IF item[1] = "view" THEN views \cup {item[2]} ELSE views

\* One turn of the loop over iter_sql_statements.
Apply ==
  /\ restore = "apply" /\ pos < Len(Input)
  /\ LET item == Input[pos + 1] IN
       IF Accepted(item)
       THEN /\ Execute(item) /\ metadata' = Noted(item)
            /\ pos' = pos + 1 /\ UNCHANGED restore
       ELSE restore' = "failed" /\ UNCHANGED <<tables, views, metadata, pos>>
  /\ UNCHANGED <<viewVars, source, dumper, input, counted, theirs, meddled, fault>>

\* At the end of the input the end marker must have been seen.
Finish ==
  /\ restore = "apply" /\ AtEnd
  /\ restore' = IF metadata.format /\ ~metadata.complete THEN "failed" ELSE "count"
  /\ UNCHANGED <<viewVars, source, dumper, input, pos, metadata, counted, target, fault>>

Expected == {t \in Tables : metadata.expected[t] # -1}

\* validate_row_counts asks for one table after the other, and judges them together.
CountTable(t) ==
  /\ restore = "count" /\ t \in Expected /\ counted[t] = -1
  /\ IF tables[t] = -1
     THEN restore' = "failed" /\ UNCHANGED counted
     ELSE counted' = [counted EXCEPT ![t] = tables[t]] /\ UNCHANGED restore
  /\ UNCHANGED <<viewVars, source, dumper, input, pos, metadata, target, fault>>

EndCount ==
  /\ restore = "count" /\ \A t \in Expected : counted[t] # -1
  /\ restore' = IF \A t \in Expected : counted[t] = metadata.expected[t] THEN "ok" ELSE "failed"
  /\ UNCHANGED <<viewVars, source, dumper, input, pos, metadata, counted, target, fault>>

RestoreStep ==
  \/ Open \/ ReadPrefix \/ InspectTarget \/ Apply \/ Finish \/ EndCount
  \/ \E t \in Tables : CountTable(t)

\* A statement, or the connection, fails.
RestoreFails ==
  /\ restore \in {"target", "apply", "count"}
  /\ restore' = "failed" /\ fault' = TRUE
  /\ UNCHANGED <<viewVars, source, dumper, input, pos, metadata, counted, target>>

\* Another client of the target changes or drops what was restored, at any time.
Meddle ==
  /\ restore \in {"apply", "count"} /\ ~meddled
  /\ \/ \E t \in Tables, n \in -1..MaxRows :
          /\ tables[t] # -1 /\ n # tables[t]
          /\ tables' = [tables EXCEPT ![t] = n] /\ UNCHANGED views
     \/ \E v \in views : views' = views \ {v} /\ UNCHANGED tables
  /\ meddled' = TRUE
  /\ UNCHANGED <<viewVars, source, dumper, restore, input, pos, metadata, counted, theirs, fault>>

\* The file loses its end, perhaps within an INSERT that still is a statement.
Truncate ==
  /\ toFile /\ destination # Absent /\ DumpEnded /\ restore = "idle" /\ ~fault
  /\ \E k \in 0..(Len(destination) - 1) :
       LET kept == SubSeq(destination, 1, k)
           cut  == destination[k + 1]
       IN  \/ destination' = kept
           \/ destination' = Append(kept, Malformed)
           \/ /\ cut[1] = "rows"
              /\ \E n \in 1..(cut[3] - 1) : destination' = Append(kept, <<"rows", cut[2], n>>)
  /\ fault' = TRUE
  /\ UNCHANGED <<viewVars, source, dump, chosen, reading, temporary, reader>>

-----------------------------------------------------------------------------
Next == DumpStep \/ DumpFails \/ DumpCrash \/ Write
        \/ RestoreStep \/ RestoreFails \/ Meddle \/ Truncate

Spec == Init /\ [][Next]_vars

-----------------------------------------------------------------------------
TypeOK ==
  /\ ViewTypeOK
  /\ lacking \in SUBSET Views
  /\ data \in Moments
  /\ dump \in {"idle", "inspect", "begin", "header", "tables", "data", "views", "close",
               "rollback", "done", "failed", "refused", "crashed"}
  /\ snapshot \in Moments \cup {Null}
  /\ todo \subseteq Tables \cup Views
  /\ table \in Tables \cup {Null}
  /\ unread \in 0..MaxRows /\ count \in 0..MaxRows /\ batch \in 0..count
  /\ restore \in {"idle", "prefix", "target", "apply", "count", "ok", "failed", "refused"}
  /\ pos \in 0..Len(Input)
  /\ counted \in [Tables -> Nat \cup {-1}]
  /\ tables \in [Tables -> Nat \cup {-1}]
  /\ views \in SUBSET Views

\* Whatever fails or is killed, the output file is absent or holds a whole dump:
\* readers never find a half written one.
OutputWhole == toFile /\ destination # Absent /\ ~fault => Whole(destination)

\* An object that is not exported keeps a dump from being written, or the dump says
\* so before its first statement; views are judged after pruning.
NoSilentOmission ==
  destination # Absent /\ Len(destination) > 2 /\ (trigger \/ skipped # {}) =>
    ignore /\ destination[2] = <<"incomplete", TRUE>>

\* A restore that reports success from a dump whose first line it saw has counted in
\* every table what was there at one moment of the source, the same for all, however
\* the dump was cut and whoever wrote to the source.  It is what the target holds, with
\* the exported views, unless another client wrote to the target: a table may change
\* once it is counted, and nobody looks at the views.
RestoredWhole ==
  restore = "ok" /\ metadata.format =>
    /\ counted \in past
    /\ ~meddled => tables = counted /\ views = Views \ skipped

\* The next item creates a view that uses an object which no dump contains.
AtLackingView ==
  pos < Len(Input) /\ Input[pos + 1][1] = "view" /\ Input[pos + 1][2] \in lacking

\* A restore fails only if somebody disturbed it, the dump did not end well, or a view
\* uses an object of a selected database that is not exported: all else that a
\* successful dump writes can be replayed, in its order, into an empty target.
FailuresExplained ==
  restore = "failed" =>
    fault \/ meddled \/ dump \in {"failed", "refused", "crashed"} \/ AtLackingView

\* The manual: "Restore warns with the skipped-object list and continues without those
\* objects" (python/README.md:71).  No pruning removes a view that uses one of them.
IncompleteContinues ==
  restore = "failed" => fault \/ meddled \/ dump \in {"failed", "refused", "crashed"}

\* A target with user tables or views is never touched.
TargetUntouched == [][theirs # {} => UNCHANGED <<tables, views>>]_vars
=============================================================================
