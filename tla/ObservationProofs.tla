------------------------- MODULE ObservationProofs -------------------------
(***************************************************************************)
(* Theorems about Observation: every row fits the schema and answers to    *)
(* its column names; it is one observation of one version of the file; the *)
(* rows of a source never repeat and the last one is current; a suggested  *)
(* name is well formed and says where it comes from.  For every set of     *)
(* contents, file names and sources, every answer of the tools, and any    *)
(* number of runs and edits.                                               *)
(*                                                                         *)
(* Writer and schema agree on nothing but positions, so the argument goes  *)
(* from the position of a column to its name and back (ColumnByName); the  *)
(* rest is then said of fields.                                            *)
(***************************************************************************)
EXTENDS Observation, RunJournalProofs

-----------------------------------------------------------------------------
(* Columns *)

(* Where the schema has each name.                                          *)
Position ==
    [id |-> 1, source_path |-> 2, filename |-> 3, extension |-> 4, mime_type |-> 5,
     category |-> 6, size_bytes |-> 7, content_hash |-> 8, partial_hash |-> 9,
     created_at |-> 10, modified_at |-> 11, scanned_at |-> 12, object_uri |-> 13,
     ingested_at |-> 14, suggested_name |-> 15, name_reason |-> 16, is_duplicate |-> 17,
     duplicate_of |-> 18, parent_dir |-> 19, group_id |-> 20, source_id |-> 21,
     relative_path |-> 22, run_id |-> 23, observation_status |-> 24, observed_at |-> 25]

FieldNames == DOMAIN Position

LEMMA SchemaLength == Len(Schema) = 25 /\ DOMAIN Schema = 1 .. 25
  BY DEF Schema

LEMMA NamesDiffer == \A k \in 1 .. 25 : Position[Schema[k].name] = k
  BY DEF Schema, Position, Required, Optional, Field

LEMMA ColumnsInOrder ==
    ASSUME NEW i
    PROVE  /\ Len(Columns(i)) = 25
           /\ \A k \in 1 .. 25 : /\ Columns(i)[k].value = i[Schema[k].name]
                                 /\ Columns(i)[k].type = Schema[k].type
  BY DEF Schema, Columns, ObservationColumns, Column, Required, Optional, Field

(* A row answers to a column's name with the field of that name.            *)
LEMMA ColumnByName ==
    ASSUME NEW i, NEW k \in DOMAIN Schema
    PROVE  ValueOf(Columns(i), Schema[k].name) = i[Schema[k].name]
  <1>1. \A j \in DOMAIN Schema : Schema[j].name = Schema[k].name => j = k
    BY SchemaLength, NamesDiffer
  <1>2. (CHOOSE j \in DOMAIN Schema : Schema[j].name = Schema[k].name) = k
    BY <1>1
  <1>3. ValueOf(Columns(i), Schema[k].name) = Columns(i)[k].value
    BY <1>2, Zenon DEF ValueOf
  <1>. QED
    BY <1>3, SchemaLength, ColumnsInOrder

(* The columns that queries name.                                           *)
LEMMA RowReads ==
    ASSUME NEW i
    PROVE  /\ ValueOf(Columns(i), "id") = i.id
           /\ ValueOf(Columns(i), "content_hash") = i.content_hash
           /\ ValueOf(Columns(i), "object_uri") = i.object_uri
           /\ ValueOf(Columns(i), "source_id") = i.source_id
           /\ ValueOf(Columns(i), "relative_path") = i.relative_path
           /\ ValueOf(Columns(i), "observation_status") = i.observation_status
           /\ ValueOf(Columns(i), "observed_at") = i.observed_at
  <1>1. /\ Schema[1].name = "id" /\ Schema[8].name = "content_hash"
        /\ Schema[13].name = "object_uri" /\ Schema[21].name = "source_id"
        /\ Schema[22].name = "relative_path" /\ Schema[24].name = "observation_status"
        /\ Schema[25].name = "observed_at"
    BY DEF Schema, Required, Optional, Field
  <1>2. {1, 8, 13, 21, 22, 24, 25} \subseteq DOMAIN Schema
    BY SchemaLength
  <1>. QED
    BY <1>1, <1>2, ColumnByName

(* A FileInfo whose required fields are there fits the schema.              *)
LEMMA RowFits ==
    ASSUME NEW i, i.id # None, i.source_path # None, i.filename # None, i.extension # None,
           i.category # None, i.size_bytes # None, i.scanned_at # None,
           i.is_duplicate # None, i.parent_dir # None
    PROVE  Fits(Columns(i))
  <1>1. \A k \in 1 .. 25 : Schema[k].required =>
            Schema[k].name \in {"id", "source_path", "filename", "extension", "category",
                                "size_bytes", "scanned_at", "is_duplicate", "parent_dir"}
    BY DEF Schema, Required, Optional, Field
  <1>2. \A k \in 1 .. 25 : Schema[k].required => i[Schema[k].name] # None
    BY <1>1
  <1>3. Len(Columns(i)) = Len(Schema)
    BY SchemaLength, ColumnsInOrder
  <1>4. ASSUME NEW k \in DOMAIN Schema
        PROVE  /\ Columns(i)[k].type = Schema[k].type
               /\ Schema[k].required => Columns(i)[k].value # None
    <2>1. k \in 1 .. 25
      BY <1>4, SchemaLength
    <2>2. /\ Columns(i)[k].type = Schema[k].type
          /\ Columns(i)[k].value = i[Schema[k].name]
      BY <2>1, ColumnsInOrder
    <2>. QED
      BY <1>2, <2>1, <2>2, Zenon
  <1>. QED
    BY <1>3, <1>4 DEF Fits

-----------------------------------------------------------------------------
(* What holds of the file, of its FileInfo and of the rows *)

Types ==
    /\ file \in Files /\ disk \in Contents /\ edits \in Nat /\ edited \in BOOLEAN
    /\ run \in Nat
    /\ pc \in {"idle", "stat", "mime_type", "partial_hash", "full_hash", "suggest", "tool",
               "identify", "decide", "commit"}
    /\ outcome \in {"none", "error", "observed", "unchanged", "refused"}
    /\ pc # "idle" => source \in Sources /\ outcome = "none"

Scanning == pc \notin {"idle", "stat"}

Recorded == outcome \in {"observed", "unchanged"}

Identified == pc \in {"decide", "commit"} \/ Recorded

(* The fields of a FileInfo that every row must have.                       *)
Whole(i) ==
    /\ DOMAIN i = FieldNames
    /\ i.source_path = SourcePath(file) /\ i.filename = file.name
    /\ i.extension = ShownExtension(file)
    /\ i.category = Classify(i.extension, i.mime_type)
    /\ i.size_bytes \in Nat /\ i.scanned_at \in Nat
    /\ i.is_duplicate = FALSE /\ i.parent_dir \in {"", file.parent}
    /\ i.content_hash \in Contents \cup {None}

(* The FileInfo of a file is whole as soon as there is one.                 *)
InfoIsWhole ==
    /\ info = None \/ Whole(info)
    /\ Scanning \/ Recorded => Whole(info)
    /\ pc \in {"mime_type", "partial_hash", "full_hash", "suggest", "tool"} =>
          info.suggested_name = None

(* The identity of an observation, in a FileInfo or read from a row.        *)
IsObservation(id, content, uri, s, path, status) ==
    /\ content \in Contents /\ s \in Sources /\ path = file.path /\ status = "present"
    /\ id = ObservationId(s, path, content, status) /\ uri = ObjectUri(content)

InfoIsIdentified ==
    Identified =>
        /\ IsObservation(info.id, info.content_hash, info.object_uri, info.source_id,
                         info.relative_path, info.observation_status)
        /\ info.source_id = source /\ info.observed_at = ObservedAt(run)

(* As long as nobody writes, all that was read is of the version on disk.   *)
OneVersion ==
    (Scanning \/ Recorded) /\ ~edited =>
        /\ info.size_bytes = Size[disk]
        /\ info.content_hash \in {None, disk}
        /\ info.mime_type \in {None, MimeOf[disk]}
        /\ info.partial_hash \in {None, Block[disk]}

LEMMA CategoriesOnly == \A e, mime : Classify(e, mime) \in Categories
  BY DEF Classify, FromMime, FromExtension, Categories

LEMMA FieldNamesAre ==
    FieldNames = {"id", "source_path", "filename", "extension", "mime_type", "category",
                  "size_bytes", "content_hash", "partial_hash", "created_at", "modified_at",
                  "scanned_at", "object_uri", "ingested_at", "suggested_name", "name_reason",
                  "is_duplicate", "duplicate_of", "parent_dir", "group_id", "source_id",
                  "relative_path", "run_id", "observation_status", "observed_at"}
  BY DEF FieldNames, Position

InfoInv == Types /\ InfoIsWhole /\ InfoIsIdentified /\ OneVersion

LEMMA IInit == ASSUME Init PROVE InfoInv
  BY ObservationAssumption
  DEF Init, InfoInv, Types, InfoIsWhole, InfoIsIdentified, OneVersion, Scanning, Recorded,
      Identified

LEMMA IEdit == ASSUME InfoInv, NEW c \in Contents, Edit(c) PROVE InfoInv'
  <1>1. /\ file' = file /\ run' = run /\ source' = source /\ pc' = pc /\ info' = info
        /\ outcome' = outcome /\ disk' = c /\ edits' = edits + 1 /\ edited' = TRUE
    BY DEF Edit
  <1>2. Types'
    BY <1>1 DEF InfoInv, Types
  <1>3. InfoIsWhole'
    BY <1>1 DEF InfoInv, InfoIsWhole, Whole, Scanning, Recorded
  <1>4. InfoIsIdentified'
    BY <1>1 DEF InfoInv, InfoIsIdentified, IsObservation, Identified, Recorded
  <1>5. OneVersion'
    BY <1>1 DEF OneVersion
  <1>. QED
    BY <1>2, <1>3, <1>4, <1>5 DEF InfoInv

LEMMA IStartRun == ASSUME InfoInv, StartRun PROVE InfoInv'
  BY DEF StartRun, Idle, Goto, InfoInv, Types, InfoIsWhole, InfoIsIdentified, OneVersion,
         Scanning, Recorded, Identified

LEMMA IFileFails == ASSUME InfoInv, FileFails PROVE InfoInv'
  BY DEF FileFails, Goto, InfoInv, Types, InfoIsWhole, InfoIsIdentified, OneVersion, Scanning,
         Recorded, Identified, Whole

LEMMA IStat == ASSUME InfoInv, Stat PROVE InfoInv'
  <1>1. Types' /\ pc' = "mime_type" /\ ~Recorded' /\ ~Identified' /\ Scanning'
    BY DEF Stat, Goto, InfoInv, Types, Recorded, Identified, Scanning
  <1>2. PICK modified :
            info' = NewFileInfo(file, Size[disk], modified, file.created, ScannedAt(run))
    BY DEF Stat
  <1>3. /\ DOMAIN info' = FieldNames
        /\ info'.source_path = SourcePath(file) /\ info'.filename = file.name
        /\ info'.extension = ShownExtension(file)
        /\ info'.category = Classify(info'.extension, info'.mime_type)
        /\ info'.size_bytes = Size[disk] /\ info'.scanned_at = ScannedAt(run)
        /\ info'.is_duplicate = FALSE /\ info'.parent_dir = ""
        /\ info'.content_hash = None /\ info'.mime_type = None
        /\ info'.partial_hash = None /\ info'.suggested_name = None
    BY <1>2, FieldNamesAre DEF NewFileInfo
  <1>4. Size[disk] \in Nat /\ ScannedAt(run) \in Nat /\ file' = file /\ disk' = disk
    BY ObservationAssumption DEF Stat, InfoInv, Types, ScannedAt
  <1>. QED
    BY <1>1, <1>3, <1>4 DEF InfoInv, InfoIsWhole, InfoIsIdentified, OneVersion, Whole

(* A step of the scan that fills one field in.                              *)
LEMMA IFill ==
    ASSUME InfoInv, Scanning, Scanning', ~Identified, ~Identified', Types',
           pc # "identify", pc' # "mime_type",
           UNCHANGED <<file, disk, edited>>,
           NEW f \in {"partial_hash", "content_hash"},
           NEW c \in {None, IF f = "content_hash" THEN disk ELSE Block[disk]},
           info' = [info EXCEPT ![f] = c]
    PROVE  InfoInv'
  <1>1. Whole(info) /\ info.suggested_name = None
    BY DEF InfoInv, InfoIsWhole, Scanning, Types, Identified
  <1>2. /\ DOMAIN info' = FieldNames
        /\ \A g \in FieldNames \ {f} : info'[g] = info[g]
        /\ info'[f] = c
    BY <1>1, FieldNamesAre DEF Whole
  <1>. QED
    <2>1. /\ \A g \in {"source_path", "filename", "extension", "category", "mime_type",
                       "size_bytes", "scanned_at", "is_duplicate", "parent_dir",
                       "suggested_name"} : info'[g] = info[g]
          /\ f # "content_hash" => info'.content_hash = info.content_hash
          /\ f # "partial_hash" => info'.partial_hash = info.partial_hash
      BY <1>2, FieldNamesAre
    <2>2. Whole(info)'
      BY <1>1, <1>2, <2>1 DEF Whole, InfoInv, Types
    <2>3. InfoIsWhole'
      BY <1>1, <2>1, <2>2 DEF InfoIsWhole
    <2>4. OneVersion'
      BY <1>2, <2>1 DEF InfoInv, OneVersion
    <2>. QED
      BY <2>3, <2>4 DEF InfoInv, InfoIsIdentified

LEMMA IDetectType == ASSUME InfoInv, DetectType PROVE InfoInv'
  <1>1. /\ UNCHANGED <<file, disk, edited>> /\ Types' /\ Scanning /\ Scanning'
        /\ ~Identified /\ ~Identified' /\ ~Recorded'
        /\ pc = "mime_type" /\ pc' = "partial_hash"
    BY DEF DetectType, Goto, InfoInv, Types, Scanning, Identified, Recorded
  <1>2. Whole(info) /\ info.suggested_name = None
    BY <1>1 DEF InfoInv, InfoIsWhole
  <1>3. PICK mime \in {MimeOf[disk], None} :
            info' = IF mime = None THEN info ELSE WithMimeType(info, mime)
    BY DEF DetectType
  <1>4. CASE info' = info
    BY <1>1, <1>2, <1>4
    DEF InfoInv, InfoIsWhole, InfoIsIdentified, OneVersion, Whole
  <1>5. CASE info' = WithMimeType(info, mime)
    <2>1. /\ DOMAIN info' = FieldNames
          /\ \A g \in FieldNames \ {"mime_type", "category"} : info'[g] = info[g]
          /\ info'.mime_type = mime /\ info'.category = Classify(info.extension, mime)
      BY <1>2, <1>5, FieldNamesAre DEF WithMimeType, Whole
    <2>2. \A g \in {"source_path", "filename", "extension", "size_bytes", "scanned_at",
                    "is_duplicate", "parent_dir", "content_hash", "partial_hash",
                    "suggested_name"} : info'[g] = info[g]
      BY <2>1, FieldNamesAre
    <2>3. Whole(info)'
      BY <1>1, <1>2, <2>1, <2>2 DEF Whole
    <2>4. InfoIsWhole'
      BY <1>2, <2>2, <2>3 DEF InfoIsWhole
    <2>5. OneVersion'
      BY <1>1, <1>3, <2>1, <2>2 DEF InfoInv, OneVersion
    <2>. QED
      BY <1>1, <2>4, <2>5 DEF InfoInv, InfoIsIdentified
  <1>. QED
    BY <1>3, <1>4, <1>5

LEMMA IQuickHash == ASSUME InfoInv, QuickHash PROVE InfoInv'
  <1>1. /\ UNCHANGED <<file, disk, edited>> /\ Types' /\ Scanning /\ Scanning'
        /\ ~Identified /\ ~Identified' /\ ~Recorded' /\ pc # "identify"
        /\ pc = "partial_hash" /\ pc' = "full_hash"
    BY DEF QuickHash, Goto, InfoInv, Types, Scanning, Identified, Recorded
  <1>2. CASE info' = info
    BY <1>1, <1>2
    DEF InfoInv, InfoIsWhole, InfoIsIdentified, OneVersion, Whole
  <1>3. CASE \E c \in {Block[disk], None} : info' = [info EXCEPT !.partial_hash = c]
    <2>1. PICK c \in {None, Block[disk]} : info' = [info EXCEPT !["partial_hash"] = c]
      BY <1>3
    <2>. QED
      BY <1>1, <2>1, IFill
  <1>. QED
    BY <1>2, <1>3 DEF QuickHash

LEMMA IFullHash == ASSUME InfoInv, FullHash PROVE InfoInv'
  <1>1. /\ UNCHANGED <<file, disk, edited>> /\ Types' /\ Scanning /\ Scanning'
        /\ ~Identified /\ ~Identified' /\ ~Recorded' /\ pc # "identify"
        /\ pc = "full_hash" /\ pc' = "suggest"
    BY DEF FullHash, Goto, InfoInv, Types, Scanning, Identified, Recorded
  <1>2. CASE info' = info
    BY <1>1, <1>2
    DEF InfoInv, InfoIsWhole, InfoIsIdentified, OneVersion, Whole
  <1>3. CASE \E c \in {disk, None} : info' = [info EXCEPT !.content_hash = c]
    <2>1. PICK c \in {None, disk} : info' = [info EXCEPT !["content_hash"] = c]
      BY <1>3
    <2>. QED
      BY <1>1, <2>1, IFill
  <1>. QED
    BY <1>2, <1>3 DEF FullHash

(* A suggestion touches the name and its reason only.                       *)
LEMMA ISuggest ==
    ASSUME InfoInv, Types', pc \in {"suggest", "tool"}, pc' = "identify", NEW name,
           Suggest(name), UNCHANGED <<file, disk, edited>>
    PROVE  InfoInv'
  <1>1. /\ Scanning /\ Scanning' /\ ~Identified' /\ ~Recorded'
    BY DEF InfoInv, Types, Scanning, Identified, Recorded
  <1>2. Whole(info)
    BY <1>1 DEF InfoInv, InfoIsWhole
  <1>3. info' = info \/ \E n : info' = WithSuggestedName(info, n)
    BY DEF Suggest
  <1>4. /\ DOMAIN info' = FieldNames
        /\ \A g \in FieldNames \ {"suggested_name", "name_reason"} : info'[g] = info[g]
    BY <1>2, <1>3, FieldNamesAre DEF WithSuggestedName, Whole
  <1>. QED
    BY <1>1, <1>2, <1>4, FieldNamesAre
    DEF InfoInv, InfoIsWhole, InfoIsIdentified, OneVersion, Whole

LEMMA IStartTool == ASSUME InfoInv, StartTool PROVE InfoInv'
  <1>1. /\ UNCHANGED <<file, disk, edited, info>> /\ Types' /\ Scanning /\ Scanning'
        /\ ~Identified' /\ ~Recorded' /\ pc = "suggest" /\ pc' = "tool"
    BY DEF StartTool, Goto, InfoInv, Types, Scanning, Identified, Recorded
  <1>. QED
    BY <1>1 DEF InfoInv, InfoIsWhole, InfoIsIdentified, OneVersion, Whole

LEMMA IIdentify == ASSUME InfoInv, Identify PROVE InfoInv'
  <1>1. /\ UNCHANGED <<file, disk, edited, source, run>> /\ Types' /\ Scanning /\ Scanning'
        /\ pc' = "decide" /\ ~Recorded' /\ source \in Sources /\ run \in Nat
        /\ disk \in Contents
    BY DEF Identify, Goto, InfoInv, Types, Scanning, Recorded
  <1>2. Whole(info)
    BY <1>1 DEF InfoInv, InfoIsWhole
  <1> DEFINE c == IF info.content_hash = None THEN disk ELSE info.content_hash
             hashed == [WithParentDir(info, file.parent)
                          EXCEPT !.content_hash = c, !.object_uri = ObjectUri(c)]
  <1>3. info' = WithObservation(hashed, source, file.path, run, "present", ObservedAt(run))
    BY DEF Identify
  <1>4. /\ DOMAIN hashed = FieldNames
        /\ \A g \in FieldNames \ {"parent_dir", "content_hash", "object_uri"} :
              hashed[g] = info[g]
        /\ hashed.content_hash = c /\ hashed.object_uri = ObjectUri(c)
        /\ hashed.parent_dir = file.parent
    BY <1>2, FieldNamesAre DEF Whole, WithParentDir
  <1> HIDE DEF hashed
  <1>5. /\ DOMAIN info' = FieldNames
        /\ \A g \in FieldNames \ {"id", "source_id", "relative_path", "run_id",
                                  "observation_status", "observed_at"} : info'[g] = hashed[g]
        /\ info'.id = ObservationId(source, file.path, c, "present")
        /\ info'.source_id = source /\ info'.relative_path = file.path
        /\ info'.observation_status = "present" /\ info'.observed_at = ObservedAt(run)
    BY <1>3, <1>4, FieldNamesAre DEF WithObservation
  <1>6. c \in Contents
    BY <1>1, <1>2 DEF Whole
  <1>7. /\ info'.content_hash = c /\ info'.object_uri = ObjectUri(c)
        /\ info'.parent_dir = file.parent
        /\ \A g \in {"source_path", "filename", "extension", "mime_type", "category",
                     "size_bytes", "partial_hash", "scanned_at", "is_duplicate"} :
              info'[g] = info[g]
    BY <1>4, <1>5, FieldNamesAre
  <1> HIDE DEF c
  <1>8. InfoIsWhole'
    BY <1>1, <1>2, <1>5, <1>6, <1>7 DEF InfoIsWhole, Whole
  <1>9. InfoIsIdentified'
    BY <1>1, <1>5, <1>6, <1>7 DEF InfoIsIdentified, IsObservation
  <1>10. OneVersion'
    BY <1>1, <1>7 DEF InfoInv, OneVersion, c
  <1>. QED
    BY <1>1, <1>8, <1>9, <1>10 DEF InfoInv

LEMMA IDecide == ASSUME InfoInv, Decide PROVE InfoInv'
  <1>1. /\ UNCHANGED <<file, disk, edited, source, run>> /\ Types' /\ Scanning /\ Identified
        /\ pc = "decide" /\ pc' \in {"idle", "commit"}
    BY DEF Decide, Goto, InfoInv, Types, Scanning, Identified
  <1>2. Whole(info)
    BY <1>1 DEF InfoInv, InfoIsWhole
  <1>3. /\ DOMAIN info' = FieldNames
        /\ \A g \in FieldNames \ {"ingested_at"} : info'[g] = info[g]
    BY <1>2, FieldNamesAre DEF Decide, Whole
  <1>4. /\ \A g \in {"id", "source_path", "filename", "extension", "mime_type", "category",
                     "size_bytes", "content_hash", "partial_hash", "scanned_at", "object_uri",
                     "is_duplicate", "parent_dir", "source_id", "relative_path",
                     "observation_status", "observed_at"} : info'[g] = info[g]
    BY <1>3, FieldNamesAre
  <1>5. InfoIsWhole'
    BY <1>1, <1>2, <1>3, <1>4 DEF InfoIsWhole, Whole
  <1>6. InfoIsIdentified'
    BY <1>1, <1>4 DEF InfoInv, InfoIsIdentified, IsObservation
  <1>7. OneVersion'
    BY <1>1, <1>4 DEF InfoInv, OneVersion
  <1>. QED
    BY <1>1, <1>5, <1>6, <1>7 DEF InfoInv

LEMMA ICommit == ASSUME InfoInv, Commit PROVE InfoInv'
  <1>1. /\ UNCHANGED <<file, disk, edited, source, run, info>> /\ Types' /\ Scanning
        /\ Identified /\ pc = "commit" /\ pc' = "idle"
    BY DEF Commit, Goto, InfoInv, Types, Scanning, Identified
  <1>. QED
    BY <1>1
    DEF InfoInv, InfoIsWhole, InfoIsIdentified, OneVersion, Whole, IsObservation, Scanning

LEMMA IStutter == ASSUME InfoInv, UNCHANGED vars PROVE InfoInv'
  <1>1. /\ file' = file /\ disk' = disk /\ edits' = edits /\ edited' = edited /\ run' = run
        /\ source' = source /\ pc' = pc /\ info' = info /\ outcome' = outcome
    BY DEF vars
  <1>2. Types' /\ OneVersion'
    BY <1>1 DEF InfoInv, Types, OneVersion, Scanning, Recorded
  <1>3. InfoIsWhole'
    BY <1>1 DEF InfoInv, InfoIsWhole, Whole, Scanning, Recorded
  <1>4. InfoIsIdentified'
    BY <1>1 DEF InfoInv, InfoIsIdentified, IsObservation, Identified, Recorded
  <1>. QED
    BY <1>2, <1>3, <1>4 DEF InfoInv

(* A tool's answer, its failure and its timeout all end in a suggestion.    *)
LEMMA ToolEnds ==
    ASSUME InfoInv,
           \/ NoTool \/ ToolTimesOut \/ ToolFails
           \/ pc = "tool" /\ \E lines \in Answers[tool] : ToolAnswers(lines)
    PROVE  /\ pc \in {"suggest", "tool"} /\ pc' = "identify" /\ Types'
           /\ UNCHANGED <<file, disk, edited>>
           /\ \/ Suggest(None)
              \/ pc = "tool" /\ \E lines \in Answers[tool] :
                                   Suggest(NameFrom(tool, lines, file.extension))
  BY DEF NoTool, ToolTimesOut, ToolFails, ToolAnswers, Goto, InfoInv, Types

LEMMA INext == ASSUME InfoInv, [Next]_vars PROVE InfoInv'
  <1>1. CASE \/ NoTool \/ ToolTimesOut \/ ToolFails
             \/ pc = "tool" /\ \E lines \in Answers[tool] : ToolAnswers(lines)
    BY <1>1, ToolEnds, ISuggest
  <1>2. CASE Stat \/ DetectType \/ QuickHash \/ FullHash \/ StartTool \/ FileFails
    BY <1>2, IStat, IDetectType, IQuickHash, IFullHash, IStartTool, IFileFails
  <1>3. CASE Identify \/ Decide \/ Commit \/ StartRun \/ \E c \in Contents : Edit(c)
    BY <1>3, IIdentify, IDecide, ICommit, IStartRun, IEdit
  <1>4. CASE Stopped \/ UNCHANGED vars
    BY <1>4, IStutter DEF Stopped
  <1>. QED
    BY <1>1, <1>2, <1>3, <1>4 DEF Next, ScanStep, ToolStep

-----------------------------------------------------------------------------
(* What holds of the catalog *)

Value(k, name) == ValueOf(catalog[k], name)

IsCatalog == \E S : catalog \in Seq(S)

(* Rows are observations, in the order of their times; the run that is      *)
(* going on has none yet.                                                   *)
RowsAreObservations ==
    \A k \in DOMAIN catalog :
        /\ IsObservation(Value(k, "id"), Value(k, "content_hash"), Value(k, "object_uri"),
                         Value(k, "source_id"), Value(k, "relative_path"),
                         Value(k, "observation_status"))
        /\ Value(k, "observed_at") \in Nat /\ Value(k, "observed_at") <= ObservedAt(run)
        /\ pc # "idle" => Value(k, "observed_at") < ScannedAt(run)

RowsAreInOrder ==
    \A i, j \in DOMAIN catalog : i < j => Value(i, "observed_at") < Value(j, "observed_at")

RowIsStored ==
    /\ outcome # "refused"
    /\ outcome = "observed" => Len(catalog) > 0 /\ Last(catalog) = Columns(info)

Own(s) == {k \in DOMAIN catalog : Value(k, "source_id") = s}

NoRepeats ==
    \A s : \A i, j \in Own(s) :
        i < j /\ (\A k \in i + 1 .. j - 1 : k \notin Own(s)) =>
            Value(i, "content_hash") # Value(j, "content_hash")

(* The last row of the source records c, or there is none.                  *)
LastRecords(s, c) ==
    \E m \in Own(s) : Value(m, "content_hash") = c /\ \A j \in Own(s) : j <= m

KnownIsLast ==
    /\ pc # "idle" => (Own(source) = {} /\ known = None) \/ LastRecords(source, known)
    /\ pc = "commit" => known # info.content_hash

RunIsRecorded == Recorded => LastRecords(source, info.content_hash)

RowsInv ==
    /\ IsCatalog /\ RowsAreObservations /\ RowsAreInOrder /\ RowIsStored /\ NoRepeats
    /\ KnownIsLast /\ RunIsRecorded

LEMMA CatalogShape ==
    ASSUME IsCatalog
    PROVE  Len(catalog) \in Nat /\ DOMAIN catalog = 1 .. Len(catalog)
  BY LenProperties DEF IsCatalog

LEMMA CInit == ASSUME Init PROVE RowsInv
  <1>1. catalog = <<>> /\ DOMAIN catalog = {} /\ catalog \in Seq({})
    BY DEF Init
  <1>2. pc = "idle" /\ outcome = "none"
    BY DEF Init
  <1>. QED
    BY <1>1, <1>2
    DEF RowsInv, IsCatalog, RowsAreObservations, RowsAreInOrder, RowIsStored, NoRepeats, Own,
        KnownIsLast, RunIsRecorded, Recorded

(* What the next run takes for known is the last row of its source.         *)
LEMMA KnownIsRead ==
    ASSUME InfoInv, RowsInv, NEW s \in Sources
    PROVE  LET c == LastKnown(s, file.path)
           IN  (Own(s) = {} /\ c = None) \/ LastRecords(s, c)
  <1>1. Len(catalog) \in Nat /\ DOMAIN catalog = 1 .. Len(catalog)
    BY CatalogShape DEF RowsInv
  <1>2. file.path # None /\ None \notin Contents /\ None \notin Nat
    BY NoneAssumption DEF InfoInv, Types
  <1> DEFINE rows == {k \in RowsOfSource(s) : Value(k, "relative_path") = file.path}
             latest == {k \in rows : \A other \in rows :
                          Value(other, "observed_at") <= Value(k, "observed_at")}
  <1>3. rows = Own(s)
    BY <1>2
    DEF RowsOfSource, Own, Value, RowsInv, RowsAreObservations, IsObservation
  <1>4. LastKnown(s, file.path) =
            IF rows = {} THEN None
            ELSE Value(CHOOSE k \in latest : \A other \in latest : k <= other,
                       "content_hash")
    BY DEF LastKnown, Value
  <1>5. CASE Own(s) = {}
    BY <1>3, <1>4, <1>5
  <1>6. CASE Own(s) # {}
    <2>1. PICK m \in Own(s) : \A j \in Own(s) : j <= m
      <3>1. Own(s) \in SUBSET (1 .. Len(catalog))
        BY <1>1 DEF Own
      <3>. QED
        BY <1>1, <1>6, <3>1, MaximumExists
    <2>2. \A k \in Own(s) : k \in Nat /\ k \in DOMAIN catalog /\ Value(k, "observed_at") \in Nat
      BY <1>1 DEF Own, RowsInv, RowsAreObservations
    <2>3. \A k \in Own(s) : k = m \/ Value(k, "observed_at") < Value(m, "observed_at")
      BY <2>1, <2>2 DEF RowsInv, RowsAreInOrder
    <2>4. latest = {m}
      BY <1>3, <2>1, <2>2, <2>3
    <2> HIDE DEF rows, latest
    <2>5. m <= m
      BY <2>2
    <2>6. (CHOOSE k \in latest : \A other \in latest : k <= other) = m
      BY <2>4, <2>5
    <2>. QED
      BY <1>3, <1>4, <1>6, <2>1, <2>6 DEF LastRecords
  <1>. QED
    BY <1>5, <1>6

LEMMA CStartRun == ASSUME InfoInv, RowsInv, StartRun, InfoInv' PROVE RowsInv'
  <1>1. /\ catalog' = catalog /\ file' = file /\ run' = run + 1 /\ run \in Nat
        /\ source' \in Sources /\ known' = LastKnown(source', file.path)
        /\ pc' = "stat" /\ outcome' = "none"
    BY DEF StartRun, Goto, InfoInv, Types
  <1>2. \A k, name : Value(k, name)' = Value(k, name)
    BY <1>1 DEF Value
  <1>3. \A s : Own(s)' = Own(s)
    BY <1>1, <1>2 DEF Own
  <1>4. RowsAreObservations'
    <2>1. \A n \in Nat : n <= ObservedAt(run) => n <= ObservedAt(run + 1) /\ n < ScannedAt(run + 1)
      BY <1>1 DEF ObservedAt, ScannedAt
    <2>. QED
      BY <1>1, <1>2, <2>1 DEF RowsInv, RowsAreObservations, IsObservation
  <1>5. (Own(source') = {} /\ known' = None) \/ LastRecords(source', known')
    BY <1>1, KnownIsRead
  <1>6. KnownIsLast'
    BY <1>1, <1>2, <1>3, <1>5 DEF KnownIsLast, LastRecords
  <1>7. IsCatalog' /\ RowsAreInOrder' /\ NoRepeats'
    BY <1>1, <1>2, <1>3 DEF RowsInv, IsCatalog, RowsAreInOrder, NoRepeats
  <1>8. RowIsStored' /\ RunIsRecorded'
    BY <1>1 DEF RowIsStored, RunIsRecorded, Recorded
  <1>. QED
    BY <1>4, <1>6, <1>7, <1>8 DEF RowsInv

(* A step that leaves the catalog and the run as they are.                  *)
LEMMA CQuiet ==
    ASSUME RowsInv, UNCHANGED <<catalog, file, run, source, known>>,
           pc' # "idle" => pc # "idle",
           pc = "idle" => pc' = "idle",
           pc' = "commit" => known # info'.content_hash,
           outcome' # "refused",
           outcome' = "observed" => outcome = "observed" /\ info' = info,
           Recorded' => LastRecords(source, info'.content_hash)
    PROVE  RowsInv'
  <1>1. /\ catalog' = catalog /\ file' = file /\ run' = run /\ source' = source
        /\ known' = known
    OBVIOUS
  <1>2. \A k, name : Value(k, name)' = Value(k, name)
    BY <1>1 DEF Value
  <1>3. \A s : Own(s)' = Own(s)
    BY <1>1, <1>2 DEF Own
  <1>4. RowsAreObservations'
    BY <1>1, <1>2 DEF RowsInv, RowsAreObservations, IsObservation
  <1>5. KnownIsLast' /\ RunIsRecorded'
    BY <1>1, <1>2, <1>3 DEF RowsInv, KnownIsLast, RunIsRecorded, LastRecords
  <1>6. IsCatalog' /\ RowsAreInOrder' /\ NoRepeats' /\ RowIsStored'
    BY <1>1, <1>2, <1>3 DEF RowsInv, IsCatalog, RowsAreInOrder, NoRepeats, RowIsStored
  <1>. QED
    BY <1>4, <1>5, <1>6 DEF RowsInv

LEMMA CDecide == ASSUME InfoInv, RowsInv, Decide PROVE RowsInv'
  <1>1. /\ UNCHANGED <<catalog, file, run, source, known>>
        /\ pc = "decide" /\ outcome = "none" /\ Identified /\ Scanning
    BY DEF Decide, InfoInv, Types, Identified, Scanning
  <1>2. Whole(info) /\ info.content_hash \in Contents
    BY <1>1 DEF InfoInv, InfoIsWhole, InfoIsIdentified, IsObservation
  <1>3. (Own(source) = {} /\ known = None) \/ LastRecords(source, known)
    BY <1>1 DEF RowsInv, KnownIsLast
  <1>4. CASE known = info.content_hash
    <2>1. pc' = "idle" /\ outcome' = "unchanged" /\ info' = info
      BY <1>4 DEF Decide, Goto
    <2>2. LastRecords(source, info'.content_hash)
      BY <1>2, <1>3, <1>4, <2>1, NoneAssumption
    <2>. QED
      BY <1>1, <2>1, <2>2, CQuiet
  <1>5. CASE known # info.content_hash
    <2>1. /\ pc' = "commit" /\ outcome' = "none"
          /\ info'.content_hash = info.content_hash
      BY <1>1, <1>2, <1>5, FieldNamesAre DEF Decide, Goto, Whole
    <2>. QED
      BY <1>1, <1>5, <2>1, CQuiet DEF Recorded
  <1>. QED
    BY <1>4, <1>5

LEMMA CCommit == ASSUME InfoInv, RowsInv, Commit PROVE RowsInv'
  <1>1. /\ file' = file /\ run' = run /\ source' = source /\ info' = info /\ known' = known
        /\ pc = "commit" /\ pc' = "idle" /\ Identified /\ Scanning /\ file \in Files
        /\ run \in Nat /\ source \in Sources
    BY DEF Commit, Goto, InfoInv, Types, Identified, Scanning
  <1>2. /\ Whole(info) /\ info.source_id = source /\ info.observed_at = ObservedAt(run)
        /\ IsObservation(info.id, info.content_hash, info.object_uri, info.source_id,
                         info.relative_path, info.observation_status)
    BY <1>1 DEF InfoInv, InfoIsWhole, InfoIsIdentified
  <1>3. Fits(Columns(info))
    <2>1. /\ info.id # None /\ info.source_path # None /\ info.filename # None
          /\ info.extension # None
      BY <1>1, <1>2, NoneAssumption DEF Whole, IsObservation, ObservationId, ShownExtension
    <2>2. /\ info.category \in Categories /\ info.size_bytes \in Nat /\ info.scanned_at \in Nat
          /\ info.is_duplicate = FALSE /\ info.parent_dir \in {"", file.parent}
      BY <1>2, CategoriesOnly DEF Whole
    <2>3. /\ None \notin Categories /\ None \notin Nat /\ None # "" /\ None # file.parent
      BY <1>1, NoneAssumption
    <2>4. info.is_duplicate # None
      <3>1. None \notin BOOLEAN
        BY NoneAssumption
      <3>. QED
        BY <2>2, <3>1, Zenon
    <2>5. /\ info.category # None /\ info.size_bytes # None /\ info.scanned_at # None
          /\ info.parent_dir # None
      BY <2>2, <2>3
    <2>. QED
      BY <2>1, <2>4, <2>5, RowFits
  <1> DEFINE row == Columns(info)
             last == Len(catalog) + 1
  <1>4. catalog' = Append(catalog, row) /\ outcome' = "observed"
    BY <1>3 DEF Commit
  <1>5. Len(catalog) \in Nat /\ DOMAIN catalog = 1 .. Len(catalog)
    BY CatalogShape DEF RowsInv
  <1>6. /\ IsCatalog' /\ Len(catalog') = last /\ DOMAIN catalog' = 1 .. last
        /\ catalog'[last] = row /\ \A k \in DOMAIN catalog : catalog'[k] = catalog[k]
    <2>1. PICK S : catalog \in Seq(S)
      BY DEF RowsInv, IsCatalog
    <2>2. catalog \in Seq(S \cup {row}) /\ row \in S \cup {row}
      BY <2>1
    <2> HIDE DEF row
    <2>3. catalog' \in Seq(S \cup {row})
      BY <1>4, <2>2, AppendProperties
    <2>. QED
      BY <1>4, <1>5, <2>2, <2>3, AppendProperties DEF IsCatalog
  <1> DEFINE new(name) == ValueOf(catalog'[last], name)
  <1>7. /\ new("id") = info.id /\ new("content_hash") = info.content_hash
        /\ new("object_uri") = info.object_uri /\ new("source_id") = source
        /\ new("relative_path") = info.relative_path
        /\ new("observation_status") = info.observation_status
        /\ new("observed_at") = ObservedAt(run)
    BY <1>2, <1>6, RowReads
  <1> HIDE DEF row, new
  <1>8. /\ \A k \in DOMAIN catalog : \A name : Value(k, name)' = Value(k, name)
        /\ \A k : k = last => \A name : Value(k, name)' = new(name)
    BY <1>6 DEF Value, new
  <1>9. \A k \in DOMAIN catalog' : k \in DOMAIN catalog \/ k = last
    BY <1>5, <1>6
  <1> HIDE DEF last
  <1>10. RowsAreObservations'
    <2>1. SUFFICES ASSUME NEW k \in DOMAIN catalog'
                   PROVE  /\ IsObservation(Value(k, "id"), Value(k, "content_hash"),
                                           Value(k, "object_uri"), Value(k, "source_id"),
                                           Value(k, "relative_path"),
                                           Value(k, "observation_status"))'
                          /\ Value(k, "observed_at")' \in Nat
                          /\ Value(k, "observed_at")' <= ObservedAt(run')
      BY <1>1 DEF RowsAreObservations
    <2>2. CASE k = last
      <3>1. ObservedAt(run) \in Nat /\ ObservedAt(run) <= ObservedAt(run)
        BY <1>1 DEF ObservedAt
      <3>. QED
        BY <1>1, <1>2, <1>7, <1>8, <2>2, <3>1 DEF IsObservation
    <2>3. CASE k \in DOMAIN catalog
      BY <1>1, <1>8, <2>3 DEF RowsInv, RowsAreObservations, IsObservation
    <2>. QED
      BY <1>9, <2>1, <2>2, <2>3
  <1>11. RowsAreInOrder'
    <2>1. \A k \in DOMAIN catalog : k < last /\ Value(k, "observed_at") < ObservedAt(run)
      <3>1. \A n \in Nat : n < ScannedAt(run) => n < ObservedAt(run)
        BY <1>1 DEF ScannedAt, ObservedAt
      <3>. QED
        BY <1>1, <1>5, <3>1 DEF RowsInv, RowsAreObservations, last
    <2>2. \A i, j \in DOMAIN catalog' : i < j => i \in DOMAIN catalog
      BY <1>5, <1>6, <1>9 DEF last
    <2>. QED
      BY <1>7, <1>8, <1>9, <2>1, <2>2 DEF RowsInv, RowsAreInOrder
  <1>12. RowIsStored'
    BY <1>1, <1>4, <1>5, <1>6 DEF RowIsStored, row, Last
  <1>13. \A s : Own(s)' = Own(s) \cup (IF s = source THEN {last} ELSE {})
    <2>1. DOMAIN catalog' = DOMAIN catalog \cup {last} /\ last \notin DOMAIN catalog
      BY <1>5, <1>6 DEF last
    <2>. QED
      BY <1>7, <1>8, <2>1 DEF Own
  <1>14. LastRecords(source, info.content_hash)'
    <2>1. last \in Own(source) \cup {last} /\ \A j \in Own(source) \cup {last} : j <= last
      BY <1>5 DEF Own, last
    <2>2. Own(source)' = Own(source) \cup {last}
      BY <1>1, <1>13
    <2>3. \E m \in Own(source)' : /\ ValueOf(catalog'[m], "content_hash") = info'.content_hash
                                  /\ \A j \in Own(source)' : j <= m
      BY <1>1, <1>7, <2>1, <2>2 DEF new
    <2>. QED
      BY <2>3 DEF LastRecords, Value
  <1>15. NoRepeats'
    <2>1. SUFFICES ASSUME NEW s, NEW i \in Own(s)', NEW j \in Own(s)', i < j,
                          \A k \in i + 1 .. j - 1 : k \notin Own(s)'
                   PROVE  Value(i, "content_hash")' # Value(j, "content_hash")'
      BY DEF NoRepeats
    <2>2. \A k \in Own(s) : k \in DOMAIN catalog /\ k \in Nat /\ k < last
      BY <1>5 DEF Own, last
    <2>3. i \in Own(s)
      <3>1. i = last => ~(j \in Own(s)) /\ j # last
        BY <1>5, <2>1, <2>2 DEF last
      <3>. QED
        BY <1>13, <2>1, <3>1
    <2>4. CASE j \in Own(s)
      BY <1>8, <1>13, <2>1, <2>2, <2>3, <2>4 DEF RowsInv, NoRepeats
    <2>5. CASE j = last /\ s = source
      <3>1. PICK m \in Own(source) : /\ Value(m, "content_hash") = known
                                     /\ \A k \in Own(source) : k <= m
        BY <1>1, <2>3, <2>5 DEF RowsInv, KnownIsLast, LastRecords
      <3>2. m = i
        <4>1. i <= m /\ m \in Nat /\ i \in Nat /\ m < last /\ m \in Own(s)'
          BY <1>13, <2>2, <2>3, <2>5, <3>1
        <4>2. ~(m \in i + 1 .. j - 1)
          BY <2>1, <4>1
        <4>. QED
          BY <1>5, <2>5, <4>1, <4>2
      <3>3. known # info.content_hash
        BY <1>1 DEF RowsInv, KnownIsLast
      <3>. QED
        BY <1>7, <1>8, <2>2, <2>3, <2>5, <3>1, <3>2, <3>3
    <2>. QED
      BY <1>13, <2>1, <2>4, <2>5
  <1>16. KnownIsLast' /\ RunIsRecorded'
    BY <1>1, <1>14 DEF KnownIsLast, RunIsRecorded, LastRecords
  <1>. QED
    BY <1>6, <1>10, <1>11, <1>12, <1>15, <1>16 DEF RowsInv

LEMMA CNext == ASSUME InfoInv, RowsInv, [Next]_vars, InfoInv' PROVE RowsInv'
  <1>1. CASE StartRun \/ Decide \/ Commit
    BY <1>1, CStartRun, CDecide, CCommit
  <1>2. CASE \/ Stat \/ DetectType \/ QuickHash \/ FullHash \/ StartTool \/ FileFails
             \/ Identify
    <2>1. /\ UNCHANGED <<catalog, file, run, source, known>>
          /\ pc # "idle" /\ pc' # "commit" /\ outcome' \in {"none", "error"}
      BY <1>2 DEF Stat, DetectType, QuickHash, FullHash, StartTool, FileFails, Identify, Goto,
                  InfoInv, Types
    <2>. QED
      BY <2>1, CQuiet DEF Recorded
  <1>3. CASE \/ NoTool \/ ToolTimesOut \/ ToolFails
             \/ pc = "tool" /\ \E lines \in Answers[tool] : ToolAnswers(lines)
    <2>1. /\ UNCHANGED <<catalog, file, run, source, known>>
          /\ pc # "idle" /\ pc' # "commit" /\ outcome' = "none"
      BY <1>3 DEF NoTool, ToolTimesOut, ToolFails, ToolAnswers, Goto, InfoInv, Types
    <2>. QED
      BY <2>1, CQuiet DEF Recorded
  <1>4. CASE Stopped \/ (UNCHANGED vars) \/ \E c \in Contents : Edit(c)
    <2>1. /\ UNCHANGED <<catalog, file, run, source, known>>
          /\ pc' = pc /\ outcome' = outcome /\ info' = info
      BY <1>4 DEF Stopped, vars, Edit
    <2>. QED
      BY <2>1, CQuiet DEF RowsInv, KnownIsLast, RowIsStored, RunIsRecorded, Recorded
  <1>. QED
    BY <1>1, <1>2, <1>3, <1>4 DEF Next, ScanStep, ToolStep

-----------------------------------------------------------------------------
(* Names *)

(* A field of a FileInfo says where its suggested name comes from.          *)
IsSuggestion(i) ==
    LET name == i.suggested_name IN
    /\ name.stem \in Stems
    /\ \/ /\ i.name_reason = "modified_date_fallback" /\ file.generic
          /\ name.extension = ShownExtension(file)
       \/ /\ i.name_reason = Reason[ToolFor(i.category, i.extension)]
          /\ name.extension = file.extension

NamesInv ==
    /\ tool # None => pc = "tool"
    /\ pc = "tool" =>
          /\ tool # None /\ tool \in DOMAIN Reason
          /\ tool = ToolFor(info.category, info.extension)
    /\ info # None \/ Scanning => info.suggested_name = None \/ IsSuggestion(info)
    /\ pc = "identify" /\ file.generic /\ info.modified_at # None => info.suggested_name # None

(* What the parsers yield is a stem.                                        *)
LEMMA StemsParsed ==
    ASSUME NEW line
    PROVE  /\ parse_exif_datetime(line) \in Stems \cup {None}
           /\ parse_iso_datetime(line) \in Stems \cup {None}
           /\ IsTitle(line) => usable_title(line) \in Stems \cup {None}
  <1>1. parse_exif_datetime(line) \in Stems \cup {None}
    BY DEF parse_exif_datetime, Stems
  <1>2. parse_iso_datetime(line) \in Stems \cup {None}
    <2>1. \A n \in 2 .. 3 : 3 + n \in {5, 6}
      OBVIOUS
    <2>. QED
      BY <2>1 DEF parse_iso_datetime, Stems
  <1>3. ASSUME IsTitle(line)
        PROVE  usable_title(line) \in Stems \cup {None}
    <2> DEFINE stem == sanitize_filename(line)
    <2>1. SUFFICES ASSUME line.clean > 3 PROVE stem \in Stems
      BY DEF usable_title, sanitize_filename
    <2>2. /\ Cut(line.chars) \in Nat /\ Cut(line.chars) <= TITLE_LENGTH
          /\ line.clean \in Nat
          /\ Cut(line.chars) <= line.clean /\ line.clean <= 4 * Cut(line.chars)
      BY <1>3 DEF IsTitle, Cut, TITLE_LENGTH
    <2>3. Cut(line.chars) \in 1 .. TITLE_LENGTH /\ line.clean \in 4 .. 4 * TITLE_LENGTH
      BY <2>1, <2>2 DEF TITLE_LENGTH
    <2>4. stem \in [kind : {"title"}, separators : {FALSE},
                    chars : 1 .. TITLE_LENGTH, bytes : 4 .. 4 * TITLE_LENGTH]
      BY <2>3 DEF sanitize_filename
    <2>. QED
      BY <2>2, <2>4 DEF Stems, sanitize_filename
  <1>. QED
    BY <1>1, <1>2, <1>3

(* A tool's answer, whatever it prints, is a well-formed name or nothing.   *)
LEMMA NamesParsed ==
    ASSUME NEW t \in DOMAIN Reason, NEW lines \in Answers[t], NEW extension,
           NameFrom(t, lines, extension) # None
    PROVE  /\ NameFrom(t, lines, extension).stem \in Stems
           /\ NameFrom(t, lines, extension).extension =
                 (IF t = "pdfinfo" THEN ".pdf" ELSE extension)
           /\ NameFrom(t, lines, extension).reason = Reason[t]
  <1> DEFINE Parse(line) == CASE t = "exiftool" -> parse_exif_datetime(line)
                              [] t = "ffprobe"  -> parse_iso_datetime(line)
                              [] t = "pdfinfo"  -> usable_title(line)
             stems == [i \in DOMAIN lines |-> Parse(lines[i])]
             found == {i \in DOMAIN stems : stems[i] # None}
  <1>1. t \in {"exiftool", "ffprobe", "pdfinfo"}
    BY DEF Reason
  <1>2. DOMAIN lines = 1 .. Len(lines) /\ Len(lines) \in Nat
    BY ObservationAssumption, LenProperties
  <1>3. \A i \in DOMAIN lines : Parse(lines[i]) \in Stems \cup {None}
    <2>1. TAKE i \in DOMAIN lines
    <2>2. t = "pdfinfo" => IsTitle(lines[i])
      BY <2>1, ObservationAssumption
    <2>. QED
      BY <1>1, <2>2, StemsParsed
  <1> HIDE DEF Parse
  <1>4. \A i \in found : stems[i] \in Stems
    BY <1>3
  <1>5. found \in SUBSET (1 .. Len(lines))
    BY <1>2
  <1>6. NameFrom(t, lines, extension) =
            IF FirstOf(stems) = None THEN None
            ELSE [stem |-> FirstOf(stems),
                  extension |-> IF t = "pdfinfo" THEN ".pdf" ELSE extension,
                  reason |-> Reason[t]]
    BY DEF NameFrom, Parse
  <1>7. FirstOf(stems) = IF found = {} THEN None ELSE stems[Min(found)]
    BY DEF FirstOf
  <1> HIDE DEF found, stems
  <1>8. ASSUME FirstOf(stems) # None PROVE FirstOf(stems) \in Stems
    <2>1. found # {} /\ FirstOf(stems) = stems[Min(found)]
      BY <1>7, <1>8
    <2>2. Min(found) \in found
      BY <1>2, <1>5, <2>1, MinimumExists
    <2>. QED
      BY <1>4, <2>1, <2>2
  <1>. QED
    BY <1>6, <1>8

LEMMA NInit == ASSUME Init PROVE NamesInv
  BY DEF Init, NamesInv, Scanning

(* A step that leaves name, category and extension as they are.             *)
LEMMA NKeep ==
    ASSUME NamesInv, Scanning, UNCHANGED <<file, tool>>,
           pc # "tool", pc' # "tool", pc' = "identify" => pc = "identify",
           \A g \in {"suggested_name", "name_reason", "category", "extension", "modified_at"} :
              info'[g] = info[g]
    PROVE  NamesInv'
  <1>1. /\ file' = file /\ tool' = None
        /\ info'.suggested_name = info.suggested_name /\ info'.name_reason = info.name_reason
        /\ info'.category = info.category /\ info'.extension = info.extension
        /\ info'.modified_at = info.modified_at
    BY DEF NamesInv
  <1>2. info.suggested_name = None \/ IsSuggestion(info)
    BY DEF NamesInv
  <1>. QED
    BY <1>1, <1>2 DEF NamesInv, IsSuggestion

(* The name from the tool, or the one that stands in for it.                *)
LEMMA NSuggest ==
    ASSUME InfoInv, NamesInv, pc \in {"suggest", "tool"}, pc' = "identify", tool' = None,
           file' = file, NEW name, Suggest(name),
           name # None =>
              /\ name.stem \in Stems /\ name.extension = file.extension
              /\ name.reason = Reason[ToolFor(info.category, info.extension)]
    PROVE  NamesInv'
  <1>1. Whole(info) /\ info.suggested_name = None /\ file \in Files
    BY DEF InfoInv, InfoIsWhole, Scanning, Types
  <1>2. info.extension = ShownExtension(file)
    BY <1>1 DEF Whole
  <1>3. CASE info' = info /\ ~(file.generic /\ info.modified_at # None)
    BY <1>1, <1>3 DEF NamesInv
  <1>4. ASSUME NEW n, info' = WithSuggestedName(info, n), n.stem \in Stems,
               \/ /\ n.reason = "modified_date_fallback" /\ file.generic
                  /\ n.extension = ShownExtension(file)
               \/ /\ n.reason = Reason[ToolFor(info.category, info.extension)]
                  /\ n.extension = file.extension
        PROVE  NamesInv'
    <2>1. /\ info'.suggested_name = [stem |-> n.stem, extension |-> n.extension]
          /\ info'.name_reason = n.reason /\ info'.category = info.category
          /\ info'.extension = info.extension
      BY <1>1, <1>4, FieldNamesAre DEF WithSuggestedName, Whole
    <2>2. info'.suggested_name # None
      <3>1. n.extension \in {file.extension, ".pdf", "(none)"}
        BY <1>4 DEF ShownExtension
      <3>2. [stem |-> n.stem, extension |-> n.extension] \in
                [stem : Stems, extension : {file.extension, ".pdf", "(none)"}]
        BY <1>4, <3>1
      <3>. QED
        BY <1>1, <2>1, <3>2, NoneAssumption
    <2>3. IsSuggestion(info)'
      BY <1>4, <2>1 DEF IsSuggestion
    <2>. QED
      BY <2>2, <2>3 DEF NamesInv
  <1>5. CASE name # None
    <2>1. info' = WithSuggestedName(info, name)
      BY <1>5 DEF Suggest
    <2>. QED
      BY <1>4, <1>5, <2>1
  <1>6. CASE name = None /\ file.generic /\ info.modified_at # None
    <2> DEFINE dated == [stem |-> DateTime(6), extension |-> info.extension,
                         reason |-> "modified_date_fallback"]
    <2>1. info' = WithSuggestedName(info, dated)
      BY <1>6 DEF Suggest
    <2>2. dated.stem \in Stems
      BY DEF Stems
    <2>. QED
      BY <1>2, <1>4, <1>6, <2>1, <2>2
  <1>. QED
    BY <1>3, <1>5, <1>6 DEF Suggest

LEMMA NTool ==
    ASSUME InfoInv, NamesInv,
           \/ NoTool \/ ToolTimesOut \/ ToolFails
           \/ pc = "tool" /\ \E lines \in Answers[tool] : ToolAnswers(lines)
    PROVE  NamesInv'
  <1>1. /\ pc \in {"suggest", "tool"} /\ pc' = "identify" /\ file' = file
        /\ \/ Suggest(None)
           \/ pc = "tool" /\ \E lines \in Answers[tool] :
                                Suggest(NameFrom(tool, lines, file.extension))
    BY ToolEnds
  <1>2. tool' = None
    BY DEF NoTool, ToolTimesOut, ToolFails, ToolAnswers, NamesInv
  <1>3. CASE Suggest(None)
    BY <1>1, <1>2, <1>3, NSuggest
  <1>4. CASE pc = "tool" /\ \E lines \in Answers[tool] :
                               Suggest(NameFrom(tool, lines, file.extension))
    <2>1. PICK lines \in Answers[tool] : Suggest(NameFrom(tool, lines, file.extension))
      BY <1>4
    <2> DEFINE name == NameFrom(tool, lines, file.extension)
    <2>2. /\ tool # None /\ tool \in DOMAIN Reason
          /\ tool = ToolFor(info.category, info.extension)
      BY <1>4 DEF NamesInv
    <2>3. tool = "pdfinfo" => file.extension = ".pdf"
      <3>1. info.extension = ShownExtension(file)
        BY <1>1 DEF InfoInv, InfoIsWhole, Scanning, Types, Whole
      <3>. QED
        BY <2>2, <3>1 DEF ToolFor, Reason, ShownExtension
    <2>4. name # None =>
             /\ name.stem \in Stems /\ name.extension = file.extension
             /\ name.reason = Reason[ToolFor(info.category, info.extension)]
      <3> HIDE DEF name
      <3>1. name # None =>
               /\ name.stem \in Stems
               /\ name.extension = (IF tool = "pdfinfo" THEN ".pdf" ELSE file.extension)
               /\ name.reason = Reason[tool]
        BY <2>1, <2>2, NamesParsed DEF name
      <3>. QED
        BY <2>2, <2>3, <3>1
    <2>5. Suggest(name)
      BY <2>1
    <2> HIDE DEF name
    <2>. QED
      BY <1>1, <1>2, <2>4, <2>5, NSuggest
  <1>. QED
    BY <1>1, <1>3, <1>4

LEMMA NNext == ASSUME InfoInv, NamesInv, [Next]_vars, InfoInv' PROVE NamesInv'
  <1>1. CASE \/ NoTool \/ ToolTimesOut \/ ToolFails
             \/ pc = "tool" /\ \E lines \in Answers[tool] : ToolAnswers(lines)
    BY <1>1, NTool
  <1>2. CASE Stat \/ DetectType \/ QuickHash \/ FullHash
    <2>1. /\ tool' = tool /\ pc # "tool"
          /\ pc' \in {"mime_type", "partial_hash", "full_hash", "suggest"}
      BY <1>2 DEF Stat, DetectType, QuickHash, FullHash, Goto
    <2>2. info'.suggested_name = None
      BY <2>1 DEF InfoInv, InfoIsWhole
    <2>. QED
      BY <2>1, <2>2 DEF NamesInv
  <1>3. CASE StartTool
    <2>1. /\ pc' = "tool" /\ info' = info /\ tool' = ToolFor(info.category, info.extension)
          /\ tool' # None
      BY <1>3 DEF StartTool, Goto
    <2>2. info'.suggested_name = None
      BY <2>1 DEF InfoInv, InfoIsWhole
    <2>3. tool' \in DOMAIN Reason
      BY <2>1 DEF ToolFor, Reason
    <2>. QED
      BY <2>1, <2>2, <2>3 DEF NamesInv
  <1>4. CASE Identify \/ Decide
    <2>1. /\ UNCHANGED <<file, tool>> /\ pc \in {"identify", "decide"}
          /\ pc' \in {"decide", "idle", "commit"} /\ Scanning
      BY <1>4 DEF Identify, Decide, Goto, Scanning
    <2>2. Whole(info)
      BY <2>1 DEF InfoInv, InfoIsWhole
    <2>3. \A g \in {"suggested_name", "name_reason", "category", "extension", "modified_at"} :
             info'[g] = info[g]
      <3>1. CASE Identify
        BY <2>2, <3>1, FieldNamesAre DEF Identify, WithObservation, WithParentDir, Whole
      <3>2. CASE Decide
        BY <2>2, <3>2, FieldNamesAre DEF Decide, Whole
      <3>. QED
        BY <1>4, <3>1, <3>2
    <2>. QED
      BY <2>1, <2>3, NKeep
  <1>5. CASE StartRun
    BY <1>5 DEF StartRun, Idle, Goto, NamesInv, Scanning
  <1>6. CASE FileFails \/ Commit
    <2>1. /\ file' = file /\ tool' = tool /\ info' = info /\ pc' = "idle"
          /\ pc \in {"stat", "full_hash", "identify", "commit"}
      BY <1>6 DEF FileFails, Commit, Goto
    <2>. QED
      BY <2>1 DEF NamesInv, IsSuggestion, Scanning
  <1>7. CASE Stopped \/ (UNCHANGED vars) \/ \E c \in Contents : Edit(c)
    <2>1. file' = file /\ tool' = tool /\ info' = info /\ pc' = pc
      BY <1>7 DEF Stopped, vars, Edit
    <2>. QED
      BY <2>1 DEF NamesInv, IsSuggestion, Scanning
  <1>. QED
    BY <1>1, <1>2, <1>3, <1>4, <1>5, <1>6, <1>7 DEF Next, ScanStep, ToolStep

-----------------------------------------------------------------------------
(* Theorems *)

(* The three invariants carry one another through every step.               *)
LEMMA ObservationInvariance == Spec => [](InfoInv /\ RowsInv /\ NamesInv)
  <1>1. Init => InfoInv /\ RowsInv /\ NamesInv
    BY IInit, CInit, NInit
  <1>2. InfoInv /\ RowsInv /\ NamesInv /\ [Next]_vars => (InfoInv /\ RowsInv /\ NamesInv)'
    BY INext, CNext, NNext
  <1>. QED
    BY <1>1, <1>2, PTL DEF Spec

(* No row is ever refused by the schema, and every column of a row that is  *)
(* stored holds the field of its name (files_to_batch).                     *)
THEOREM EveryRowIsWritable == Spec => []RowsAreWritable
  <1>1. RowsInv => RowsAreWritable
    BY ColumnByName DEF RowsInv, RowIsStored, RowsAreWritable
  <1>. QED
    BY <1>1, ObservationInvariance, PTL

(* A row is the identity of its own source, path and content, and all of it *)
(* is of one version unless the file was written to (prepare_file).         *)
THEOREM EveryRowIsOneObservation == Spec => []RowIsOneObservation
  <1>1. InfoInv /\ RowsInv => RowIsOneObservation
    <2>1. ASSUME RowsInv, NEW k \in DOMAIN catalog
          PROVE  /\ ValueOf(catalog[k], "id") =
                       ObservationId(ValueOf(catalog[k], "source_id"),
                                     ValueOf(catalog[k], "relative_path"),
                                     ValueOf(catalog[k], "content_hash"), "present")
                 /\ ValueOf(catalog[k], "object_uri") =
                       ObjectUri(ValueOf(catalog[k], "content_hash"))
      BY <2>1 DEF RowsInv, RowsAreObservations, IsObservation, Value
    <2>2. ASSUME InfoInv, outcome = "observed", ~edited
          PROVE  /\ info.content_hash = disk /\ info.size_bytes = Size[disk]
                 /\ info.mime_type \in {None, MimeOf[disk]}
                 /\ info.category = Classify(info.extension, info.mime_type)
                 /\ info.partial_hash \in {None, Block[disk]}
      <3>1. Recorded /\ Identified
        BY <2>2 DEF Recorded, Identified
      <3>2. info.content_hash \in Contents
        BY <2>2, <3>1 DEF InfoInv, InfoIsIdentified, IsObservation
      <3>3. None \notin Contents
        BY NoneAssumption
      <3>. QED
        BY <2>2, <3>1, <3>2, <3>3 DEF InfoInv, InfoIsWhole, OneVersion, Whole
    <2>. QED
      BY <2>1, <2>2 DEF RowIsOneObservation
  <1>. QED
    BY <1>1, ObservationInvariance, PTL

(* After a run its source's last row is what the run read, and no source    *)
(* records the same twice running (decide, reduce_latest).                  *)
THEOREM EverySourceIsCurrent == Spec => []EachSourceIsCurrent
  <1>1. RowsInv => EachSourceIsCurrent
    <2> SUFFICES ASSUME RowsInv PROVE EachSourceIsCurrent
      OBVIOUS
    <2> DEFINE own == {k \in DOMAIN catalog : ValueOf(catalog[k], "source_id") = source}
    <2>1. own = Own(source)
      BY DEF Own, Value
    <2>2. ASSUME outcome \in {"observed", "unchanged"}
          PROVE  own # {} /\ ValueOf(catalog[Max(own)], "content_hash") = info.content_hash
      <3>1. PICK m \in own : /\ ValueOf(catalog[m], "content_hash") = info.content_hash
                             /\ \A j \in own : j <= m
        BY <2>1, <2>2 DEF RowsInv, RunIsRecorded, Recorded, LastRecords, Value
      <3>2. own \in SUBSET Nat
        BY CatalogShape DEF RowsInv
      <3>3. Max(own) = m
        BY <3>1, <3>2, Greatest
      <3>. QED
        BY <3>1, <3>3
    <2>3. \A i, j \in own :
             i < j /\ (\A k \in i + 1 .. j - 1 : k \notin own) =>
                ValueOf(catalog[i], "content_hash") # ValueOf(catalog[j], "content_hash")
      BY <2>1 DEF RowsInv, NoRepeats, Value
    <2>. QED
      BY <2>2, <2>3 DEF EachSourceIsCurrent
  <1>. QED
    BY <1>1, ObservationInvariance, PTL

(* Whatever the tools do, a generic name with a date gets a suggestion, and *)
(* every suggestion is well formed (get_suggested_name).                    *)
THEOREM SuggestionsAlwaysFallBack == Spec => []SuggestionsFallBack
  <1>1. NamesInv => SuggestionsFallBack
    BY DEF NamesInv, SuggestionsFallBack, IsSuggestion
  <1>. QED
    BY <1>1, ObservationInvariance, PTL

=============================================================================
