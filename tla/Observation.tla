---------------------------- MODULE Observation ----------------------------
(***************************************************************************)
(* How one file becomes a row of the catalog, and how the next run reads   *)
(* that row: scan_file and the enrichers (scan/), prepare_file and the     *)
(* decision (ingest/), the columns of a batch (lakehouse/writer.rs) and    *)
(* the schema they must fit (lakehouse/schema.rs).                         *)
(*                                                                         *)
(* The file is read up to five times, by path: stat, type, first block,    *)
(* whole, and by the external tool; anybody may write to it in between.    *)
(* One read sees one version: reads torn by a write are in CasUpload.      *)
(* The bucket (CasUpload) and the fate of commits (IngestRecovery) are     *)
(* left to their modules: here a row that fits the schema is appended.     *)
(***************************************************************************)
EXTENDS Enrichers, FiniteSets

CONSTANTS
    Contents,   \* contents the file may have; a content stands for its hash
    Size,       \* content -> length, in MiB
    MimeOf,     \* content -> the type its first bytes give away, or None
    Block,      \* content -> its first 64 KiB
    Files,      \* [path, parent, name, extension, generic, utf8, created]: how the file
                \* is named, and its birth, if the file system keeps it
    Answers,    \* tool -> what it may print
    Sources,    \* --source
    MaxEdits,   \* bound: times the file is rewritten
    MaxRuns     \* bound: ingests

ASSUME ObservationAssumption ==
    /\ Size \in [Contents -> Nat] /\ DOMAIN MimeOf = Contents /\ DOMAIN Block = Contents
    /\ DOMAIN Answers = DOMAIN Reason
    /\ MaxEdits \in Nat /\ MaxRuns \in Nat
    /\ \A t \in DOMAIN Answers : \A lines \in Answers[t] : lines \in Seq(Range(lines))
    /\ \A lines \in Answers["pdfinfo"] : \A i \in DOMAIN lines : IsTitle(lines[i])

Categories == {"image", "video", "document", "other"}

(* Where a candidate is, as the walk from the root names it.                *)
SourcePath(f) == <<"root", f.path>>

(* An absent Option is no value of its type.                                *)
ASSUME NoneAssumption ==
    /\ None \notin Nat \cup BOOLEAN \cup Contents \cup Categories \cup {"", "(none)"}
    /\ \A f \in Files :
         /\ None \notin {f.path, f.parent, f.name, f.extension, SourcePath(f)}
         /\ \A s \in Sources, c \in Contents : <<s, f.path, c, "present">> # None
         /\ None \notin [stem : Stems, extension : {f.extension, ".pdf", "(none)"}]

PARTIAL_HASH_BELOW == 100   \* MiB
FULL_HASH_BELOW    == 10

VARIABLES
    file,      \* the candidate
    disk,      \* its content
    edits,     \* how often it was rewritten, which dates its modification
    edited,    \* it was, since the stat
    catalog,   \* rows: one array of columns each
    run,       \* number of the run
    source,    \* the run's source
    known,     \* content hash of the path's last observation, or None
    pc,        \* the next step of the candidate
    info,      \* FileInfo
    tool,      \* the external tool that is running, or None
    outcome    \* what the run made of the file

vars == <<file, disk, edits, edited, catalog, run, source, known, pc, info, tool, outcome>>

-----------------------------------------------------------------------------
(* FileInfo (domain/file_info.rs).  Nothing in src/ marks a duplicate or    *)
(* gives a group: the three columns of duplicates keep their first values.  *)

(* The readings of the clock in one run, later runs later.                  *)
ScannedAt(r)  == 3 * r
ObservedAt(r) == 3 * r + 1
IngestedAt(r) == 3 * r + 2

(* The date of the file's last change: before the first run, when there are *)
(* few of them.                                                             *)
Modified == edits + 1

FromMime(mime) ==
    CASE mime = "image/jpeg"      -> "image"
      [] mime = "video/mp4"       -> "video"
      [] mime = "application/pdf" -> "document"
      [] OTHER                    -> "other"

FromExtension(extension) ==
    CASE extension = ".jpg" -> "image"
      [] extension = ".mp4" -> "video"
      [] extension = ".pdf" -> "document"
      [] OTHER              -> "other"

(* A type that was detected wins over the extension.                        *)
Classify(extension, mime) ==
    IF mime = None THEN FromExtension(extension) ELSE FromMime(mime)

(* scan_file's name for the extension of a file that has none.              *)
ShownExtension(f) == IF f.extension = "" THEN "(none)" ELSE f.extension

NewFileInfo(f, size, modified, created, now) ==
    [id |-> <<"random">>, source_path |-> SourcePath(f), filename |-> f.name,
     extension |-> ShownExtension(f), mime_type |-> None,
     category |-> Classify(ShownExtension(f), None), size_bytes |-> size,
     content_hash |-> None, partial_hash |-> None,
     created_at |-> created, modified_at |-> modified, scanned_at |-> now,
     object_uri |-> None, ingested_at |-> None,
     suggested_name |-> None, name_reason |-> None,
     is_duplicate |-> FALSE, duplicate_of |-> None, parent_dir |-> "", group_id |-> None,
     source_id |-> None, relative_path |-> None, run_id |-> None,
     observation_status |-> None, observed_at |-> None]

WithMimeType(i, mime) ==
    [i EXCEPT !.mime_type = mime, !.category = Classify(i.extension, mime)]

WithSuggestedName(i, name) ==
    [i EXCEPT !.suggested_name = [stem |-> name.stem, extension |-> name.extension],
              !.name_reason = name.reason]

(* UUIDv5 over length-prefixed fields: equal for equal fields only.         *)
ObservationId(s, path, hash, status) == <<s, path, hash, status>>

ObjectUri(hash) == <<"s3://", hash>>

WithParentDir(i, dir) == [i EXCEPT !.parent_dir = dir]

WithObservation(i, s, path, r, status, now) ==
    [i EXCEPT !.id = ObservationId(s, path, i.content_hash, status),
              !.source_id = s, !.relative_path = path, !.run_id = r,
              !.observation_status = status, !.observed_at = now]

-----------------------------------------------------------------------------
(* The columns of a row, by position, and the schema, by name *)

Field(name, type, required) == [name |-> name, type |-> type, required |-> required]
Required(name, type) == Field(name, type, TRUE)
Optional(name, type) == Field(name, type, FALSE)

Schema == <<
    Required("id", "uuid"),              Required("source_path", "string"),
    Required("filename", "string"),      Required("extension", "string"),
    Optional("mime_type", "string"),     Required("category", "string"),
    Required("size_bytes", "long"),      Optional("content_hash", "string"),
    Optional("partial_hash", "string"),  Optional("created_at", "time"),
    Optional("modified_at", "time"),     Required("scanned_at", "time"),
    Optional("object_uri", "string"),    Optional("ingested_at", "time"),
    Optional("suggested_name", "string"), Optional("name_reason", "string"),
    Required("is_duplicate", "boolean"), Optional("duplicate_of", "uuid"),
    Required("parent_dir", "string"),    Optional("group_id", "uuid"),
    Optional("source_id", "string"),     Optional("relative_path", "string"),
    Optional("run_id", "uuid"),          Optional("observation_status", "string"),
    Optional("observed_at", "time") >>

Column(type, value) == [type |-> type, value |-> value]

ObservationColumnsSwapped(i) == <<
    Column("string", i.relative_path),   Column("string", i.source_id),
    Column("uuid", i.run_id),            Column("string", i.observation_status),
    Column("time", i.observed_at) >>

ObservationColumns(i) == <<
    Column("string", i.source_id),       Column("string", i.relative_path),
    Column("uuid", i.run_id),            Column("string", i.observation_status),
    Column("time", i.observed_at) >>

Columns(i) == <<
    Column("uuid", i.id),                Column("string", i.source_path),
    Column("string", i.filename),        Column("string", i.extension),
    Column("string", i.mime_type),       Column("string", i.category),
    Column("long", i.size_bytes),        Column("string", i.content_hash),
    Column("string", i.partial_hash),    Column("time", i.created_at),
    Column("time", i.modified_at),       Column("time", i.scanned_at),
    Column("string", i.object_uri),      Column("time", i.ingested_at),
    Column("string", i.suggested_name),  Column("string", i.name_reason),
    Column("boolean", i.is_duplicate),   Column("uuid", i.duplicate_of),
    Column("string", i.parent_dir),      Column("uuid", i.group_id) >>
    \o ObservationColumns(i)

(* RecordBatch::try_new: as many columns, each of its type, none required   *)
(* and absent.                                                              *)
Fits(columns) ==
    /\ Len(columns) = Len(Schema)
    /\ \A k \in DOMAIN Schema :
         /\ columns[k].type = Schema[k].type
         /\ Schema[k].required => columns[k].value # None

(* A query names a column; the table holds it where the schema has it.      *)
ValueOf(row, name) ==
    row[CHOOSE k \in DOMAIN Schema : Schema[k].name = name].value

-----------------------------------------------------------------------------
(* The current state, as the query reads it back (ingest/state.rs) *)

AnySource(s) ==
    {k \in DOMAIN catalog : ValueOf(catalog[k], "observation_status") = "present"}

(* Rows the current-state query returns.                                    *)
RowsOfSource(s) ==
    {k \in DOMAIN catalog :
       /\ ValueOf(catalog[k], "source_id") = s
       /\ ValueOf(catalog[k], "observation_status") = "present"
       /\ \A name \in {"relative_path", "content_hash", "observed_at"} :
            ValueOf(catalog[k], name) # None}

(* reduce_latest, and the lookup of the path in what it returns.            *)
LastKnown(s, path) ==
    LET rows   == {k \in RowsOfSource(s) : ValueOf(catalog[k], "relative_path") = path}
        latest == {k \in rows : \A other \in rows :
                     ValueOf(catalog[other], "observed_at") <= ValueOf(catalog[k], "observed_at")}
    IN  IF rows = {} THEN None
        ELSE ValueOf(catalog[CHOOSE k \in latest : \A other \in latest : k <= other],
                     "content_hash")

-----------------------------------------------------------------------------
(* The file and its reader *)

Idle == pc = "idle"

Init ==
    /\ file \in Files /\ disk \in Contents /\ edits = 0 /\ edited = FALSE
    /\ catalog = <<>> /\ run = 0 /\ known = None
    /\ source = CHOOSE s \in Sources : TRUE
    /\ pc = "idle" /\ info = None /\ tool = None /\ outcome = "none"

Edit(c) ==
    /\ edits < MaxEdits /\ c # disk
    /\ disk' = c /\ edits' = edits + 1 /\ edited' = TRUE
    /\ UNCHANGED <<file, catalog, run, source, known, pc, info, tool, outcome>>

Goto(next) == pc' = next

StartRun ==
    /\ Idle /\ run < MaxRuns
    /\ run' = run + 1 /\ source' \in Sources
    /\ known' = LastKnown(source', file.path)
    /\ outcome' = "none" /\ info' = None /\ Goto("stat")
    /\ UNCHANGED <<file, disk, edits, edited, catalog, tool>>

(* `?` in scan_file or prepare_file: no row, an error of the run.  The path *)
(* must be UTF-8, and a hash that is still missing must succeed.            *)
FileFails ==
    /\ \/ pc \in {"stat", "full_hash"}
       \/ pc = "identify" /\ (~file.utf8 \/ info.content_hash = None)
    /\ outcome' = "error" /\ Goto("idle")
    /\ UNCHANGED <<file, disk, edits, edited, catalog, run, source, known, info, tool>>

-----------------------------------------------------------------------------
(* scan_file *)

Stat ==
    /\ pc = "stat" /\ edited' = FALSE
    /\ \E modified \in {Modified, None} :
         info' = NewFileInfo(file, Size[disk], modified, file.created, ScannedAt(run))
    /\ Goto("mime_type")
    /\ UNCHANGED <<file, disk, edits, catalog, run, source, known, tool, outcome>>

(* A failed read leaves the type undetected, the hash absent.               *)
DetectType ==
    /\ pc = "mime_type" /\ Goto("partial_hash")
    /\ \E mime \in {MimeOf[disk], None} :
         info' = IF mime = None THEN info ELSE WithMimeType(info, mime)
    /\ UNCHANGED <<file, disk, edits, edited, catalog, run, source, known, tool, outcome>>

QuickHash ==
    /\ pc = "partial_hash" /\ Goto("full_hash")
    /\ IF info.size_bytes > 0 /\ info.size_bytes < PARTIAL_HASH_BELOW
         THEN \E c \in {Block[disk], None} : info' = [info EXCEPT !.partial_hash = c]
         ELSE info' = info
    /\ UNCHANGED <<file, disk, edits, edited, catalog, run, source, known, tool, outcome>>

FullHash ==
    /\ pc = "full_hash" /\ Goto("suggest")
    /\ IF info.size_bytes > 0 /\ info.size_bytes < FULL_HASH_BELOW
         THEN \E c \in {disk, None} : info' = [info EXCEPT !.content_hash = c]
         ELSE info' = info
    /\ UNCHANGED <<file, disk, edits, edited, catalog, run, source, known, tool, outcome>>

(* A name from the tool; else, for a generic name, the modification date.   *)
Suggest(name) ==
    info' = IF name # None THEN WithSuggestedName(info, name)
            ELSE IF file.generic /\ info.modified_at # None
              THEN WithSuggestedName(info, [stem |-> DateTime(6), extension |-> info.extension,
                                            reason |-> "modified_date_fallback"])
            ELSE info

NoTool ==
    /\ pc = "suggest" /\ Suggest(None) /\ Goto("identify")
    /\ UNCHANGED <<file, disk, edits, edited, catalog, run, source, known, tool, outcome>>

(* run_tool: the process is spawned, if it is installed.                    *)
StartTool ==
    /\ pc = "suggest" /\ ToolFor(info.category, info.extension) # None
    /\ tool' = ToolFor(info.category, info.extension) /\ Goto("tool")
    /\ UNCHANGED <<file, disk, edits, edited, catalog, run, source, known, info, outcome>>

ToolAnswers(lines) ==
    /\ pc = "tool" /\ tool' = None
    /\ Suggest(NameFrom(tool, lines, file.extension)) /\ Goto("identify")
    /\ UNCHANGED <<file, disk, edits, edited, catalog, run, source, known, outcome>>

ToolFails ==
    /\ pc = "tool" /\ tool' = None /\ Suggest(None) /\ Goto("identify")
    /\ UNCHANGED <<file, disk, edits, edited, catalog, run, source, known, outcome>>

ToolTimesOutAndRuns ==
    /\ pc = "tool" /\ Suggest(None) /\ Goto("identify")
    /\ UNCHANGED <<file, disk, edits, edited, catalog, run, source, known, tool, outcome>>

NoTimeout == pc = "tool" /\ UNCHANGED vars

(* TOOL_TIMEOUT drops the child, which kills it.                            *)
ToolTimesOut ==
    /\ pc = "tool" /\ tool' = None /\ Suggest(None) /\ Goto("identify")
    /\ UNCHANGED <<file, disk, edits, edited, catalog, run, source, known, outcome>>

-----------------------------------------------------------------------------
(* prepare_file, the decision, and the row *)

IdentifyBeforeHashing ==
    /\ pc = "identify" /\ file.utf8
    /\ LET c == IF info.content_hash = None THEN disk ELSE info.content_hash IN
         info' = [WithObservation(WithParentDir(info, file.parent), source, file.path, run,
                                  "present", ObservedAt(run))
                    EXCEPT !.content_hash = c, !.object_uri = ObjectUri(c)]
    /\ Goto("decide")
    /\ UNCHANGED <<file, disk, edits, edited, catalog, run, source, known, tool, outcome>>

(* The hash, if the scan took none, and only then the identity.             *)
Identify ==
    /\ pc = "identify" /\ file.utf8
    /\ LET c == IF info.content_hash = None THEN disk ELSE info.content_hash
           hashed == [WithParentDir(info, file.parent)
                        EXCEPT !.content_hash = c, !.object_uri = ObjectUri(c)]
       IN  info' = WithObservation(hashed, source, file.path, run, "present", ObservedAt(run))
    /\ Goto("decide")
    /\ UNCHANGED <<file, disk, edits, edited, catalog, run, source, known, tool, outcome>>

Decide ==
    /\ pc = "decide"
    /\ IF known = info.content_hash
         THEN Goto("idle") /\ outcome' = "unchanged" /\ info' = info
         ELSE /\ Goto("commit") /\ outcome' = outcome
              /\ info' = [info EXCEPT !.ingested_at = IngestedAt(run)]
    /\ UNCHANGED <<file, disk, edits, edited, catalog, run, source, known, tool>>

(* files_to_batch, and the append; a row that does not fit fails its batch. *)
Commit ==
    /\ pc = "commit" /\ Goto("idle")
    /\ IF Fits(Columns(info))
         THEN catalog' = Append(catalog, Columns(info)) /\ outcome' = "observed"
         ELSE catalog' = catalog /\ outcome' = "refused"
    /\ UNCHANGED <<file, disk, edits, edited, run, source, known, info, tool>>

-----------------------------------------------------------------------------

ScanStep ==
    \/ Stat \/ DetectType \/ QuickHash \/ FullHash \/ NoTool \/ StartTool \/ ToolTimesOut
    \/ FileFails \/ Identify \/ Decide

(* A tool prints an answer, fails, or hangs.                                *)
ToolStep ==
    \/ pc = "tool" /\ \E lines \in Answers[tool] : ToolAnswers(lines)
    \/ ToolFails

Stopped == Idle /\ run = MaxRuns /\ edits = MaxEdits /\ UNCHANGED vars

Next ==
    \/ StartRun \/ ScanStep \/ ToolStep \/ Commit \/ (\E c \in Contents : Edit(c))
    \/ Stopped

(* The runtime polls the scan and its timer, and the file system answers    *)
(* each read, which no timeout of the code guards.  Nothing is assumed of   *)
(* the tool, of the catalog that is to take the row, or of whoever writes   *)
(* to the file.                                                             *)
Spec == Init /\ [][Next]_vars /\ WF_vars(ScanStep)
-----------------------------------------------------------------------------
(* Properties *)

(* No combination of absent metadata, failed reads and missing tools makes  *)
(* a row that the schema refuses, which would fail a whole batch of other   *)
(* files' rows with it; and a row that is stored answers to each column's   *)
(* name with the field of FileInfo of that name, although writer and schema *)
(* agree on nothing but the position.                                       *)
RowsAreWritable ==
    /\ outcome # "refused"
    /\ outcome = "observed" =>
          \A k \in DOMAIN Schema :
             ValueOf(Last(catalog), Schema[k].name) = info[Schema[k].name]

(* A row is one observation.  Its id is the identity of its own source,     *)
(* path and content, its object_uri names its own content, whichever of the *)
(* two hash attempts succeeded and whatever was written in between; and     *)
(* when nothing was written since the stat, everything that was read from   *)
(* the file is of its one version.                                          *)
RowIsOneObservation ==
    /\ \A k \in DOMAIN catalog :
          LET value(name) == ValueOf(catalog[k], name) IN
          /\ value("id") = ObservationId(value("source_id"), value("relative_path"),
                                         value("content_hash"), "present")
          /\ value("object_uri") = ObjectUri(value("content_hash"))
    /\ outcome = "observed" /\ ~edited =>
          /\ info.content_hash = disk /\ info.size_bytes = Size[disk]
          /\ info.mime_type \in {None, MimeOf[disk]}
          /\ info.category = Classify(info.extension, info.mime_type)
          /\ info.partial_hash \in {None, Block[disk]}

(* After a run the last row of the path in the run's source records what    *)
(* the run read, and no two successive rows of it record the same: sources  *)
(* do not see each other, and type, name and partial hash, which may come   *)
(* out differently every time, make no row.                                 *)
EachSourceIsCurrent ==
    LET value(k, name) == ValueOf(catalog[k], name)
        own == {k \in DOMAIN catalog : value(k, "source_id") = source}
    IN  /\ outcome \in {"observed", "unchanged"} =>
              own # {} /\ value(Max(own), "content_hash") = info.content_hash
        /\ \A i, j \in own :
              i < j /\ (\A k \in i + 1 .. j - 1 : k \notin own) =>
                  value(i, "content_hash") # value(j, "content_hash")

(* A suggested name is one path component and says by its reason where it   *)
(* comes from.  It has the extension of the file: the one the FileInfo      *)
(* shows when it is made of the date, which for a file without one is       *)
(* "(none)", and the file's own, none for none, when it comes from a tool.  *)
(* It is there for every file with a generic name and a date, whichever     *)
(* tool is missing, fails, hangs or prints nonsense; and no tool runs on    *)
(* when its scan has given it up.                                           *)
SuggestionsFallBack ==
    /\ tool # None => pc = "tool"
    /\ info # None /\ info.suggested_name # None =>
          LET name == info.suggested_name IN
          /\ name.stem \in Stems
          /\ \/ /\ info.name_reason = "modified_date_fallback" /\ file.generic
                /\ name.extension = ShownExtension(file)
             \/ /\ info.name_reason = Reason[ToolFor(info.category, info.extension)]
                /\ name.extension = file.extension
    /\ pc = "identify" /\ file.generic /\ info.modified_at # None =>
          info.suggested_name # None

(* Every scan that starts comes to its row or to an end without one, though *)
(* a tool may hang on a malformed file for ever (run_tool, TOOL_TIMEOUT).   *)
ScanEnds == pc = "stat" ~> pc \in {"commit", "idle"}
=============================================================================
