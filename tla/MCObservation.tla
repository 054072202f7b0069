--------------------------- MODULE MCObservation ---------------------------
(* Instance of Observation for TLC: files with and without an extension and *)
(* a generic name, one whose name is not UTF-8; contents on every side of   *)
(* the size limits; answers with every flaw the parsers look for, titles of *)
(* more bytes than characters among them: two control characters of two     *)
(* bytes, which become "__", and one character of four.                     *)
EXTENDS Observation, TLC

CONSTANTS empty, photo, paper, film

MCContents == {empty, photo, paper, film}
MCSize     == empty :> 0 @@ photo :> 1 @@ paper :> 10 @@ film :> 100
MCMimeOf   == empty :> None @@ photo :> "image/jpeg"
                @@ paper :> "application/pdf" @@ film :> "video/mp4"
MCBlock    == [c \in MCContents |-> <<"block", c>>]

Named(path, parent, name, extension, generic, utf8, created) ==
    [path |-> path, parent |-> parent, name |-> name, extension |-> extension,
     generic |-> generic, utf8 |-> utf8, created |-> created]

MCFiles == {Named("sub/IMG_1", "sub", "IMG_1", "", TRUE, TRUE, 0),
            Named("sub/report.pdf", "sub", "report.pdf", ".pdf", FALSE, TRUE, 0),
            Named("sub/download.mp4", "sub", "download.mp4", ".mp4", TRUE, TRUE, None),
            Named("caf?.jpg", "", "caf?.jpg", ".jpg", FALSE, FALSE, None)}

OK  == <<TRUE, TRUE, TRUE>>
Bad == <<TRUE, FALSE, TRUE>>

Stamp(date, time, fraction, offset) ==
    [date |-> date, time |-> time, fraction |-> fraction, offset |-> offset]

Title(chars, bytes, clean, useless) ==
    [chars |-> chars, bytes |-> bytes, clean |-> clean, useless |-> useless]

MCAnswers ==
    [exiftool |-> {<<>>, <<Stamp(OK, <<>>, FALSE, "none")>>,
                   <<Stamp(Bad, OK, FALSE, "none"), Stamp(OK, <<TRUE, TRUE>>, FALSE, "none")>>},
     ffprobe  |-> {<<Stamp(OK, <<TRUE, TRUE>>, TRUE, "misshapen")>>,
                   <<Stamp(OK, OK, FALSE, "misshapen")>>, <<Stamp(OK, OK, FALSE, "shaped")>>},
     pdfinfo  |-> {<<>>, <<Title(3, 3, 3, FALSE)>>, <<Title(2, 4, 2, FALSE), Title(1, 4, 4, FALSE)>>,
                   <<Title(8, 8, 8, TRUE), Title(200, 600, 300, FALSE)>>}]
=============================================================================
