----------------------------- MODULE Enrichers -----------------------------
(***************************************************************************)
(* What the answers of the external tools become: a suggested name, or     *)
(* nothing (scan/enrichers.rs).  An answer is a sequence of lines.  Of a   *)
(* timestamp only the fields count, and whether each is a number.  Of a    *)
(* title it is the length, which the code compares in bytes and cuts in    *)
(* characters: its bytes, its chars, and clean, the bytes of what is left  *)
(* once forbidden characters have become "_" and the rest is cut off.      *)
(***************************************************************************)
EXTENDS Naturals, Sequences, SequencesExt

CONSTANT None   \* an absent Option

TITLE_LENGTH == 100

(* A field is a flag: it parses as a number.                                *)
Numeric(fields) == \A i \in DOMAIN fields : fields[i]

DateTime(fields) == [kind |-> "datetime", fields |-> fields]

(* "2024:01:15 14:30:45"; missing seconds become 00.                        *)
parse_exif_datetime(line) ==
    IF /\ Len(line.date) = 3 /\ Len(line.time) \in 2 .. 3
       /\ Numeric(line.date) /\ Numeric(line.time)
      THEN DateTime(6) ELSE None

(* "2024-01-15T14:30:45.000+02:00".  The offset is dropped unread with a    *)
(* fraction, and must have the shape of one without.                        *)
parse_iso_datetime(line) ==
    IF /\ Len(line.date) = 3 /\ Len(line.time) \in 2 .. 3
       /\ Numeric(line.date) /\ Numeric(line.time)
       /\ line.fraction \/ line.offset # "misshapen"
      THEN DateTime(3 + Len(line.time)) ELSE None

Cut(chars) == IF chars < TITLE_LENGTH THEN chars ELSE TITLE_LENGTH

sanitize_filename(title) ==
    [kind |-> "title", separators |-> FALSE,
     chars |-> Cut(title.chars), bytes |-> title.clean]

usable_title(line) ==
    IF line.bytes > 3 /\ ~line.useless /\ sanitize_filename(line).bytes > 3
      THEN sanitize_filename(line) ELSE None

(* A title, as UTF-8 has it: one to four bytes for a character.             *)
IsTitle(line) ==
    /\ line.chars \in Nat
    /\ line.bytes \in line.chars .. 4 * line.chars
    /\ line.clean \in Cut(line.chars) .. 4 * Cut(line.chars)

(* A date and a time, with seconds or without; or a title of at least four  *)
(* bytes and at most a hundred characters that is one path component.  One  *)
(* character may be enough, and a hundred may take four hundred bytes.      *)
Stems ==
    {DateTime(5), DateTime(6)} \cup
    {stem \in [kind : {"title"}, separators : {FALSE},
               chars : 1 .. TITLE_LENGTH, bytes : 4 .. 4 * TITLE_LENGTH] :
       stem.chars <= stem.bytes /\ stem.bytes <= 4 * stem.chars}

(* The first stem that some line yields.                                    *)
FirstOf(stems) ==
    LET found == {i \in DOMAIN stems : stems[i] # None}
    IN  IF found = {} THEN None ELSE stems[Min(found)]

(* The tool each category asks, if any.                                     *)
ToolFor(category, extension) ==
    CASE category = "image"                              -> "exiftool"
      [] category \in {"video", "audio"}                 -> "ffprobe"
      [] category = "document" /\ extension = ".pdf"     -> "pdfinfo"
      [] OTHER                                           -> None

Reason == [exiftool |-> "exif_datetime_original",
           ffprobe  |-> "ffprobe_creation_time",
           pdfinfo  |-> "pdfinfo_title"]

(* exiftool_datetime, ffprobe_datetime, pdfinfo_title on a tool's output.   *)
NameFrom(tool, lines, extension) ==
    LET Parse(line) == CASE tool = "exiftool" -> parse_exif_datetime(line)
                         [] tool = "ffprobe"  -> parse_iso_datetime(line)
                         [] tool = "pdfinfo"  -> usable_title(line)
        stem == FirstOf([i \in DOMAIN lines |-> Parse(lines[i])])
    IN  IF stem = None THEN None
        ELSE [stem |-> stem, extension |-> IF tool = "pdfinfo" THEN ".pdf" ELSE extension,
              reason |-> Reason[tool]]
=============================================================================
