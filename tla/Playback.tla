------------------------------ MODULE Playback ------------------------------
(***************************************************************************)
(* Playing a recording on local storage: a playlist request hands out      *)
(* signed URLs of files that are there (src/routes/playlist.rs), and a GET *)
(* of one of them serves the file or a range of it (src/routes/media.rs).  *)
(* Files come by a rename, from a PUT or from muxing, and go with the      *)
(* recording, at any time: also between looking at a file's size and       *)
(* opening it.                                                             *)
(*                                                                         *)
(* Who may ask, and for how long a URL is good, is in RecordingAccess.     *)
(***************************************************************************)
EXTENDS Integers

CONSTANTS
    Segments,   \* names of a recording's .m4s files
    Players,    \* who plays
    MaxBytes,    \* bound on the size of a file
    MaxNumber,  \* the largest number that parses: 2^64 - 1 in the code
    Missing,    \* stands for no file
    Absent,     \* stands for a number that a range leaves out
    NoRange     \* stands for no Range header, or one of another unit

ASSUME PlaybackAssumption ==
    /\ MaxBytes \in Nat /\ MaxNumber \in Nat
    /\ MaxBytes <= MaxNumber
    /\ Missing \notin Int /\ Absent \notin Int
    /\ NoRange \notin [first : Int \cup {Absent}, last : Int \cup {Absent}]

VARIABLES
    file,    \* file[f]: its size
    player   \* what a player knows and asks

playbackVars == <<file, player>>
-----------------------------------------------------------------------------
Files == {"result", "raw", "init"} \cup Segments
There == {f \in Files : file[f] # Missing}

\* Range: "bytes=first-last", with one of the two left out.  What is not of
\* this form is refused as "bytes=-" is, and stands here as that; a number of
\* more than 64 bits stands as MaxNumber + 1.
Numbers == 0..MaxNumber + 1
Ranges == [first : Numbers \cup {Absent}, last : Numbers \cup {Absent}]
Headers == Ranges \cup {NoRange}

Parses(n) == n \in 0..MaxNumber

Refused == [from |-> Absent, to |-> Absent]

\* Slip: the suffix is taken off without saturating.
SuffixUnderflows(h, size) ==
    IF size = 0 THEN Refused
    ELSE IF h.first = Absent
         THEN IF Parses(h.last) THEN [from |-> size - h.last, to |-> size - 1] ELSE Refused
    ELSE IF Parses(h.first) /\ (h.last = Absent \/ Parses(h.last))
         THEN [from |-> h.first, to |-> h.last]
    ELSE Refused

\* parse_range; "to" may be absent.
ParseRange(h, size) ==
    IF size = 0 THEN Refused
    ELSE IF h.first = Absent
         THEN IF Parses(h.last) /\ h.last # 0
              THEN [from |-> IF h.last > size THEN 0 ELSE size - h.last, to |-> size - 1]
              ELSE Refused
    ELSE IF Parses(h.first) /\ (h.last = Absent \/ Parses(h.last))
         THEN [from |-> h.first, to |-> h.last]
    ELSE Refused

\* The end of the range that serve_file_with_range will serve.
LastOf(r, size) == IF r.to = Absent /\ r.from < size THEN size - 1 ELSE r.to

\* What is answered to header h for a file of this size: the status, and the
\* first and the last position of the body.
Answer(h, size) ==
    LET r == ParseRange(h, size)
        to == LastOf(r, size)
    IN  IF h = NoRange THEN [status |-> 200, from |-> 0, to |-> size - 1]
        ELSE IF r # Refused /\ to # Absent /\ r.from <= to /\ to < size
             THEN [status |-> 206, from |-> r.from, to |-> to]
        ELSE [status |-> 416, from |-> 0, to |-> -1]
-----------------------------------------------------------------------------
NotPlaying == [pc |-> "idle"]
Kinds == {"mp4", "raw-preview", "segments"}

PlaybackInit ==
    /\ file = [f \in Files |-> Missing]
    /\ player = [p \in Players |-> NotPlaying]

\* A directory is read entry by entry: what is there all the time is in the
\* list, what comes or goes meanwhile may be.
DirectoryLists(first) ==
    {S \in SUBSET ({"init"} \cup Segments) :
        first \cap There \cap ({"init"} \cup Segments) \subseteq S /\ S \subseteq first \cup There}

\* Slip: the muxed file is taken for granted.
ListsResult(kind, first) ==
    IF kind = "segments"
    THEN {IF "init" \in S /\ S # {"init"} THEN S ELSE {} : S \in DirectoryLists(first)}
    ELSE IF kind = "mp4" THEN {{"result"}}
    ELSE {{"raw"} \cap There}

\* What get of playlist.rs may hand out, when these were the files at its first
\* look: the muxed file before the raw one, and segments only together with
\* their init file.  The segments stand for those of one kind, video or audio,
\* which have a directory and a request each.
Lists(kind, first) ==
    IF kind = "segments"
    THEN {IF "init" \in S /\ S # {"init"} THEN S ELSE {} : S \in DirectoryLists(first)}
    ELSE IF kind = "mp4" /\ "result" \in first THEN {{"result"}}
    ELSE {{"raw"} \cap There}

AskPlaylist(p, kind) ==
    /\ player[p].pc = "idle"
    /\ player' = [player EXCEPT ![p] =
           [pc |-> "looks", kind |-> kind, first |-> There, kept |-> TRUE]]
    /\ UNCHANGED file

\* The last look, and the answer; without a file it is 404.
AnswerPlaylist(p) ==
    /\ player[p].pc = "looks"
    /\ \E urls \in Lists(player[p].kind, player[p].first) :
           player' = [player EXCEPT ![p] =
               IF urls = {} THEN NotPlaying
               ELSE [pc |-> "urls", urls |-> urls, kept |-> player[p].kept]]
    /\ UNCHANGED file

\* serve_file_with_range looks at the size, and from then on answers for it.
Stat(p, f, h) ==
    LET answer == Answer(h, file[f])
    IN  /\ player[p].pc = "urls" /\ f \in player[p].urls
        /\ player' = [player EXCEPT ![p] =
               IF f \notin There
               THEN [pc |-> "answered", status |-> 404, kept |-> player[p].kept]
               ELSE IF answer.status = 416
               THEN [pc |-> "answered", status |-> 416, kept |-> TRUE,
                     header |-> h, size |-> file[f]]
               ELSE [pc |-> "open", file |-> f, header |-> h, size |-> file[f],
                     answer |-> answer, kept |-> TRUE, same |-> TRUE]]
        /\ UNCHANGED file

\* The file is opened by its name again; the body ends where this file ends,
\* and that of a range also where the range does.
OpenFile(p) ==
    LET s == player[p]
    IN  /\ s.pc = "open"
        /\ player' = [player EXCEPT ![p] =
               IF s.file \notin There
               THEN [pc |-> "answered", status |-> 500, kept |-> s.kept]
               ELSE [pc |-> "answered", status |-> s.answer.status, kept |-> s.kept,
                     header |-> s.header, size |-> s.size, same |-> s.same,
                     announced |-> s.answer.to - s.answer.from + 1,
                     sent |-> IF s.answer.status = 200 THEN 0..file[s.file] - 1
                              ELSE {i \in s.answer.from..s.answer.to : i < file[s.file]}]]
        /\ UNCHANGED file

\* The player has its answer, or goes away.
Leave(p) ==
    /\ player[p].pc # "idle"
    /\ player' = [player EXCEPT ![p] = NotPlaying]
    /\ UNCHANGED file

\* A PUT or a mux job renames a file into its place.
Publish(f, size) ==
    /\ file' = [file EXCEPT ![f] = size]
    /\ player' = [p \in Players |->
           IF player[p].pc = "open" /\ player[p].file = f
           THEN [player[p] EXCEPT !.same = FALSE] ELSE player[p]]

\* Deletion moves the directory of the recording away.
FilesGo ==
    /\ file' = [f \in Files |-> Missing]
    /\ player' = [p \in Players |->
           IF player[p].pc = "open" THEN [player[p] EXCEPT !.same = FALSE, !.kept = FALSE]
           ELSE IF player[p].pc \in {"looks", "urls"} THEN [player[p] EXCEPT !.kept = FALSE]
           ELSE player[p]]

PlaybackNext ==
    \/ \E p \in Players :
        \/ \E kind \in Kinds : AskPlaylist(p, kind)
        \/ \E f \in Files, h \in Headers : Stat(p, f, h)
        \/ AnswerPlaylist(p) \/ OpenFile(p) \/ Leave(p)
    \/ \E f \in Files, size \in 0..MaxBytes : Publish(f, size)
    \/ FilesGo

PlaybackSpec == PlaybackInit /\ [][PlaybackNext]_playbackVars
-----------------------------------------------------------------------------
(* Properties.                                                             *)

\* Every variable stays within its type.
Answers == [status : {200, 206}, from : 0..MaxBytes, to : -1..MaxBytes]
PlaybackTypeOK ==
    /\ file \in [Files -> 0..MaxBytes \cup {Missing}]
    /\ player \in [Players -> {NotPlaying} \cup
           [pc : {"looks"}, kind : Kinds, first : SUBSET Files, kept : BOOLEAN] \cup
           [pc : {"urls"}, urls : SUBSET Files, kept : BOOLEAN] \cup
           [pc : {"open"}, file : Files, header : Headers, size : 0..MaxBytes,
            answer : Answers, kept : BOOLEAN, same : BOOLEAN] \cup
           [pc : {"answered"}, status : {404, 500}, kept : BOOLEAN] \cup
           [pc : {"answered"}, status : {416}, kept : BOOLEAN, header : Headers,
            size : 0..MaxBytes] \cup
           [pc : {"answered"}, status : {200, 206}, kept : BOOLEAN, header : Headers,
            size : 0..MaxBytes, same : BOOLEAN, announced : 0..MaxBytes,
            sent : SUBSET (0..MaxBytes)]]

\* The positions that a range names in a file of this size (RFC 9110).
Asked(h, size) ==
    IF h = NoRange THEN 0..size - 1
    ELSE {i \in 0..size - 1 :
             IF h.first = Absent THEN h.last # Absent /\ i >= size - h.last
             ELSE i >= h.first /\ (h.last = Absent \/ i <= h.last)}

\* A body is what the Range header asked for, and as long as it was announced,
\* at the ends of the file and of the numbers too.  When the file is replaced
\* between looking at its size and opening it, the body of a range is still
\* nothing but the beginning of what was announced.
BodyIsTheRange ==
    \A p \in Players :
        LET s == player[p]
            asked == Asked(s.header, s.size)
        IN  s.pc = "answered" /\ s.status \in {200, 206} =>
                /\ s.same =>
                     /\ s.sent = asked
                     /\ \E from \in 0..MaxBytes : s.sent = from..from + s.announced - 1
                /\ s.status = 206 =>
                     /\ s.sent \subseteq asked
                     /\ \A i \in s.sent, j \in asked : j < i => j \in s.sent

\* A URL that a playlist request handed out leads to a file, however often it
\* is replaced, and whatever came while the request was looking, until the
\* recording is deleted.
UrlLeadsToFile ==
    \A p \in Players : player[p].pc = "answered" /\ player[p].status \in {404, 500} => ~player[p].kept

\* media.rs: "416 for malformed or unsatisfiable ranges (RFC 9110)".  So no
\* range of numbers that parse is refused if it names a position of the file.
RefusedIsUnsatisfiable ==
    \A p \in Players :
        LET s == player[p]
        IN  s.pc = "answered" /\ s.status = 416
              /\ {s.header.first, s.header.last} \subseteq {Absent} \cup 0..MaxNumber
            => Asked(s.header, s.size) = {}
=============================================================================
