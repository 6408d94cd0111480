---------------------------- MODULE PlaybackProofs ----------------------------
(***************************************************************************)
(* Theorems about Playback: what a Range header is answered with, for      *)
(* every size and every pair of numbers, that a URL leads to a file while  *)
(* the recording is there, and that a body is the range that was asked     *)
(* for.                                                                    *)
(***************************************************************************)
EXTENDS Playback, TLAPS

-----------------------------------------------------------------------------
(* The arithmetic of ranges.                                               *)

\* What is not refused is exactly what was asked for, within the file.
Fitting(h, size, a) ==
    /\ a \in Answers
    /\ a.from..a.to = Asked(h, size)
    /\ a.from <= a.to + 1 /\ a.to < size
    /\ a.status = 200 => a.from = 0 /\ a.to = size - 1

LEMMA WholeFile ==
    ASSUME NEW size \in 0..MaxBytes
    PROVE  Answer(NoRange, size).status = 200 /\ Fitting(NoRange, size, Answer(NoRange, size))
<1>1. Answer(NoRange, size) = [status |-> 200, from |-> 0, to |-> size - 1]
  BY DEF Answer
<1> QED
  BY <1>1, PlaybackAssumption DEF Fitting, Answers, Asked

LEMMA SuffixRange ==
    ASSUME NEW h \in Ranges, NEW size \in 0..MaxBytes, h.first = Absent, Answer(h, size).status # 416
    PROVE  Fitting(h, size, Answer(h, size))
<1> DEFINE from == IF h.last > size THEN 0 ELSE size - h.last
<1>0. h # NoRange /\ h.last \in Numbers \cup {Absent}
  BY PlaybackAssumption DEF Ranges, Numbers
<1>1. size # 0 /\ Parses(h.last) /\ h.last # 0
  BY <1>0 DEF Answer, ParseRange, Refused
<1>2. ParseRange(h, size) = [from |-> from, to |-> size - 1]
  BY <1>1 DEF ParseRange
<1>3. from \in 0..size - 1 /\ h.last \in Nat /\ size - 1 \in Int
  BY <1>1, PlaybackAssumption DEF Parses
<1>4. LastOf(ParseRange(h, size), size) = size - 1
  BY <1>2, <1>3, PlaybackAssumption DEF LastOf
<1>5. Answer(h, size) = [status |-> 206, from |-> from, to |-> size - 1]
  BY <1>0, <1>2, <1>3, <1>4, PlaybackAssumption DEF Answer, Refused
<1>6. from..size - 1 = Asked(h, size)
  BY <1>0, <1>1, <1>3, PlaybackAssumption DEF Asked
<1> QED
  BY <1>3, <1>5, <1>6, PlaybackAssumption DEF Fitting, Answers

LEMMA NumberedRange ==
    ASSUME NEW h \in Ranges, NEW size \in 0..MaxBytes, h.first # Absent, Answer(h, size).status # 416
    PROVE  Fitting(h, size, Answer(h, size))
<1> DEFINE to == IF h.last = Absent THEN size - 1 ELSE h.last
<1>0. h # NoRange /\ h.last \in Numbers \cup {Absent}
  BY PlaybackAssumption DEF Ranges, Numbers
<1>1. size # 0 /\ Parses(h.first) /\ (h.last = Absent \/ Parses(h.last))
  BY <1>0 DEF Answer, ParseRange, Refused
<1>2. ParseRange(h, size) = [from |-> h.first, to |-> h.last]
  BY <1>1 DEF ParseRange
<1>3. LastOf(ParseRange(h, size), size) # Absent
  BY <1>0 DEF Answer
<1>4. LastOf(ParseRange(h, size), size) = to
  BY <1>2, <1>3 DEF LastOf
<1>5. h.first \in Nat /\ to \in Int /\ h.first <= to /\ to < size
  BY <1>0, <1>1, <1>2, <1>4, PlaybackAssumption DEF Answer, Parses
<1>6. Answer(h, size) = [status |-> 206, from |-> h.first, to |-> to]
  BY <1>0, <1>2, <1>3, <1>4 DEF Answer
<1>7. h.first..to = Asked(h, size)
  BY <1>0, <1>1, <1>5, PlaybackAssumption DEF Asked, Parses
<1> QED
  BY <1>5, <1>6, <1>7, PlaybackAssumption DEF Fitting, Answers

\* A Range header is answered with what it asks for or refused, at every size
\* up to the bound and for all numbers, those that overflow too.
THEOREM RangesExact ==
    ASSUME NEW h \in Headers, NEW size \in 0..MaxBytes, Answer(h, size).status # 416
    PROVE  Fitting(h, size, Answer(h, size))
  BY WholeFile, SuffixRange, NumberedRange DEF Headers

-----------------------------------------------------------------------------
(* The players.                                                            *)

LookSlots == [pc : {"looks"}, kind : Kinds, first : SUBSET Files, kept : BOOLEAN]
UrlSlots == [pc : {"urls"}, urls : SUBSET Files, kept : BOOLEAN]
OpenSlots == [pc : {"open"}, file : Files, header : Headers, size : 0..MaxBytes,
              answer : Answers, kept : BOOLEAN, same : BOOLEAN]
GoneSlots == [pc : {"answered"}, status : {404, 500}, kept : BOOLEAN]
RefusedSlots == [pc : {"answered"}, status : {416}, kept : BOOLEAN, header : Headers,
                 size : 0..MaxBytes]
ServedSlots == [pc : {"answered"}, status : {200, 206}, kept : BOOLEAN, header : Headers,
                size : 0..MaxBytes, same : BOOLEAN, announced : 0..MaxBytes,
                sent : SUBSET (0..MaxBytes)]
Slots == {NotPlaying} \cup LookSlots \cup UrlSlots \cup OpenSlots \cup GoneSlots \cup RefusedSlots \cup ServedSlots

\* What a player in state x may rely on, with these files: of a recording that
\* is kept what a request has seen is still there, and the URLs lead to files;
\* between the look at the size and the
\* opening the answer is that for this size, which the file has unless it was
\* replaced; and the body is what was asked for.
LooksFit(x) == x \in LookSlots /\ x.kept => x.first \subseteq There
UrlsFit(x) == x \in UrlSlots /\ x.kept => x.urls \subseteq There
OpenFits(x) ==
    x \in OpenSlots =>
        /\ x.answer = Answer(x.header, x.size) /\ x.answer.status # 416
        /\ x.kept => x.file \in There
        /\ x.same => file[x.file] = x.size
GoneFits(x) == x \in GoneSlots => ~x.kept
ServedFits(x) ==
    x \in ServedSlots =>
        /\ x.same =>
             /\ x.sent = Asked(x.header, x.size)
             /\ \E from \in 0..MaxBytes : x.sent = from..from + x.announced - 1
        /\ x.status = 206 =>
             /\ x.sent \subseteq Asked(x.header, x.size)
             /\ \A i \in x.sent, j \in Asked(x.header, x.size) : j < i => j \in x.sent
SlotFits(x) == x \in Slots /\ LooksFit(x) /\ UrlsFit(x) /\ OpenFits(x) /\ GoneFits(x) /\ ServedFits(x)

PlaybackInv ==
    /\ file \in [Files -> 0..MaxBytes \cup {Missing}]
    /\ player \in [Players -> Slots]
    /\ \A p \in Players : SlotFits(player[p])

\* The states of a player are told apart by pc and status.
LEMMA SlotsDiffer ==
    ASSUME NEW x \in Slots
    PROVE  /\ x.pc = "idle" => x = NotPlaying
           /\ x.pc = "looks" => x \in LookSlots
           /\ x.pc = "urls" => x \in UrlSlots
           /\ x.pc = "open" => x \in OpenSlots
           /\ x.pc = "answered" /\ x.status \in {404, 500} => x \in GoneSlots
           /\ x.pc = "answered" /\ x.status \in {200, 206} => x \in ServedSlots
           /\ x \in LookSlots => x.pc = "looks"
           /\ x \in UrlSlots => x.pc = "urls"
           /\ x \in OpenSlots => x.pc = "open"
           /\ x \in GoneSlots => x.pc = "answered" /\ x.status \in {404, 500}
           /\ x \in ServedSlots => x.pc = "answered" /\ x.status \in {200, 206}
           /\ x = NotPlaying => x.pc = "idle"
           /\ x \in RefusedSlots => x.pc = "answered" /\ x.status = 416
<1>1. \A y \in UrlSlots : y.pc = "urls"
  BY DEF UrlSlots
<1>2. \A y \in OpenSlots : y.pc = "open"
  BY DEF OpenSlots
<1>3. \A y \in GoneSlots : y.pc = "answered" /\ y.status \in {404, 500}
  BY DEF GoneSlots
<1>4. \A y \in RefusedSlots : y.pc = "answered" /\ y.status = 416
  BY DEF RefusedSlots
<1>5. \A y \in ServedSlots : y.pc = "answered" /\ y.status \in {200, 206}
  BY DEF ServedSlots
<1>6. NotPlaying.pc = "idle"
  BY DEF NotPlaying
<1>7. \A y \in LookSlots : y.pc = "looks"
  BY DEF LookSlots
<1> QED
  BY <1>1, <1>2, <1>3, <1>4, <1>5, <1>6, <1>7 DEF Slots

LEMMA PlaybackInvInit == PlaybackInit => PlaybackInv
<1> SUFFICES ASSUME PlaybackInit PROVE PlaybackInv
  OBVIOUS
<1>1. NotPlaying \in Slots /\ NotPlaying.pc = "idle"
  BY DEF Slots, NotPlaying
<1>2. SlotFits(NotPlaying)
  BY <1>1, SlotsDiffer DEF SlotFits, LooksFit, UrlsFit, OpenFits, GoneFits, ServedFits
<1> QED
  BY <1>1, <1>2 DEF PlaybackInit, PlaybackInv

\* A player goes on, the files stay.
LEMMA PlayerGoesOn ==
    ASSUME PlaybackInv, NEW p \in Players, NEW x, SlotFits(x),
           player' = [player EXCEPT ![p] = x], UNCHANGED file
    PROVE  PlaybackInv'
<1>1. \A y : SlotFits(y) => SlotFits(y)'
  BY DEF SlotFits, LooksFit, UrlsFit, OpenFits, GoneFits, ServedFits, There
<1> QED
  BY <1>1 DEF PlaybackInv, SlotFits

LEMMA LookKeepsInv ==
    ASSUME PlaybackInv, NEW p \in Players, NEW kind \in Kinds, AskPlaylist(p, kind)
    PROVE  PlaybackInv'
<1> DEFINE x == [pc |-> "looks", kind |-> kind, first |-> There, kept |-> TRUE]
<1>1. x \in LookSlots /\ x.first = There
  BY DEF LookSlots, There
<1>2. player' = [player EXCEPT ![p] = x] /\ UNCHANGED file
  BY DEF AskPlaylist
<1> HIDE DEF x
<1>3. SlotFits(x)
  BY <1>1, SlotsDiffer DEF Slots, SlotFits, LooksFit, UrlsFit, OpenFits, GoneFits, ServedFits
<1> QED
  BY <1>2, <1>3, PlayerGoesOn

\* Whatever comes while a request looks, it lists files that were there at its
\* first look or are there now.
LEMMA ListsFiles ==
    ASSUME NEW kind \in Kinds, NEW first \in SUBSET Files, NEW urls \in Lists(kind, first)
    PROVE  urls \subseteq first \cup There /\ urls \subseteq Files
<1>1. There \subseteq Files
  BY DEF There
<1>2. CASE kind = "segments"
  <2>1. PICK S \in DirectoryLists(first) : urls = IF "init" \in S /\ S # {"init"} THEN S ELSE {}
    BY <1>2 DEF Lists
  <2> QED
    BY <1>1, <2>1 DEF DirectoryLists
<1>3. CASE kind # "segments"
  BY <1>1, <1>3 DEF Lists
<1> QED
  BY <1>2, <1>3

LEMMA PlaylistKeepsInv ==
    ASSUME PlaybackInv, NEW p \in Players, AnswerPlaylist(p)
    PROVE  PlaybackInv'
<1> DEFINE s == player[p]
<1>0. s \in LookSlots /\ LooksFit(s) /\ UNCHANGED file
  BY SlotsDiffer DEF AnswerPlaylist, PlaybackInv, SlotFits
<1>1. PICK urls \in Lists(s.kind, s.first) :
          player' = [player EXCEPT ![p] =
              IF urls = {} THEN NotPlaying ELSE [pc |-> "urls", urls |-> urls, kept |-> s.kept]]
  BY DEF AnswerPlaylist
<1>2. CASE urls = {}
  <2>1. NotPlaying \in Slots /\ SlotFits(NotPlaying)
    BY SlotsDiffer DEF Slots, SlotFits, LooksFit, UrlsFit, OpenFits, GoneFits, ServedFits, NotPlaying
  <2> QED
    BY <1>0, <1>1, <1>2, <2>1, PlayerGoesOn
<1>3. CASE urls # {}
  <2> DEFINE x == [pc |-> "urls", urls |-> urls, kept |-> s.kept]
  <2>1. urls \subseteq s.first \cup There /\ urls \subseteq Files
    BY <1>0, ListsFiles DEF LookSlots
  <2>2. x \in UrlSlots /\ (x.kept => x.urls \subseteq There)
    BY <1>0, <2>1 DEF UrlSlots, LookSlots, LooksFit
  <2>3. player' = [player EXCEPT ![p] = x]
    BY <1>1, <1>3
  <2> HIDE DEF x
  <2>4. SlotFits(x)
    BY <2>2, SlotsDiffer DEF Slots, SlotFits, LooksFit, UrlsFit, OpenFits, GoneFits, ServedFits
  <2> QED
    BY <1>0, <2>3, <2>4, PlayerGoesOn
<1> QED
  BY <1>2, <1>3

LEMMA StatKeepsInv ==
    ASSUME PlaybackInv, NEW p \in Players, NEW f \in Files, NEW h \in Headers, Stat(p, f, h)
    PROVE  PlaybackInv'
<1>0. /\ player[p] \in UrlSlots /\ f \in player[p].urls /\ UrlsFit(player[p])
      /\ UNCHANGED file
  BY SlotsDiffer DEF Stat, PlaybackInv, SlotFits
<1>1. CASE f \notin There
  <2> DEFINE x == [pc |-> "answered", status |-> 404, kept |-> player[p].kept]
  <2>1. x \in GoneSlots /\ ~x.kept
    BY <1>0, <1>1 DEF GoneSlots, UrlSlots, UrlsFit
  <2>2. SlotFits(x)
    BY <2>1, SlotsDiffer DEF Slots, SlotFits, LooksFit, UrlsFit, OpenFits, GoneFits, ServedFits
  <2>3. player' = [player EXCEPT ![p] = x]
    BY <1>1 DEF Stat
  <2> HIDE DEF x
  <2> QED
    BY <1>0, <2>2, <2>3, PlayerGoesOn
<1>2. CASE f \in There
  <2>0. file[f] \in 0..MaxBytes
    BY <1>2 DEF There, PlaybackInv
  <2>1. CASE Answer(h, file[f]).status = 416
    <3> DEFINE x == [pc |-> "answered", status |-> 416, kept |-> TRUE, header |-> h, size |-> file[f]]
    <3>1. x \in RefusedSlots
      BY <2>0 DEF RefusedSlots
    <3>2. SlotFits(x)
      BY <3>1, SlotsDiffer DEF Slots, SlotFits, LooksFit, UrlsFit, OpenFits, GoneFits, ServedFits
    <3>3. player' = [player EXCEPT ![p] = x]
      BY <1>2, <2>1 DEF Stat
    <3> HIDE DEF x
    <3> QED
      BY <1>0, <3>2, <3>3, PlayerGoesOn
  <2>2. CASE Answer(h, file[f]).status # 416
    <3> DEFINE x == [pc |-> "open", file |-> f, header |-> h, size |-> file[f],
                     answer |-> Answer(h, file[f]), kept |-> TRUE, same |-> TRUE]
    <3>1. x \in OpenSlots
      <4>1. Answer(h, file[f]) \in Answers
        BY <2>0, <2>2, RangesExact DEF Fitting
      <4> QED
        BY <2>0, <4>1 DEF OpenSlots
    <3>2. SlotFits(x)
      <4>1. OpenFits(x)
        BY <1>2, <2>2 DEF OpenFits
      <4>2. /\ x \in Slots /\ x \notin LookSlots /\ x \notin UrlSlots /\ x \notin GoneSlots
            /\ x \notin ServedSlots
        BY <3>1, SlotsDiffer DEF Slots
      <4> QED
        BY <4>1, <4>2 DEF SlotFits, LooksFit, UrlsFit, GoneFits, ServedFits
    <3>3. player' = [player EXCEPT ![p] = x]
      BY <1>2, <2>2 DEF Stat
    <3> HIDE DEF x
    <3> QED
      BY <1>0, <3>2, <3>3, PlayerGoesOn
  <2> QED
    BY <2>1, <2>2
<1> QED
  BY <1>1, <1>2

LEMMA OpenKeepsInv ==
    ASSUME PlaybackInv, NEW p \in Players, OpenFile(p)
    PROVE  PlaybackInv'
<1> DEFINE s == player[p]
<1>0. s \in OpenSlots /\ OpenFits(s) /\ UNCHANGED file
  BY SlotsDiffer DEF OpenFile, PlaybackInv, SlotFits
<1>1. CASE s.file \notin There
  <2> DEFINE x == [pc |-> "answered", status |-> 500, kept |-> s.kept]
  <2>1. x \in GoneSlots /\ ~x.kept
    BY <1>0, <1>1 DEF GoneSlots, OpenSlots, OpenFits
  <2>2. SlotFits(x)
    BY <2>1, SlotsDiffer DEF Slots, SlotFits, LooksFit, UrlsFit, OpenFits, GoneFits, ServedFits
  <2>3. player' = [player EXCEPT ![p] = x]
    BY <1>1 DEF OpenFile
  <2> HIDE DEF x
  <2> QED
    BY <1>0, <2>2, <2>3, PlayerGoesOn
<1>2. CASE s.file \in There
  <2> DEFINE a == s.answer
             body == IF a.status = 200 THEN 0..file[s.file] - 1
                     ELSE {i \in a.from..a.to : i < file[s.file]}
             x == [pc |-> "answered", status |-> a.status, kept |-> s.kept,
                   header |-> s.header, size |-> s.size, same |-> s.same,
                   announced |-> a.to - a.from + 1, sent |-> body]
  <2>0. /\ s.header \in Headers /\ s.size \in 0..MaxBytes /\ s.file \in Files
        /\ s.kept \in BOOLEAN /\ s.same \in BOOLEAN
        /\ a = Answer(s.header, s.size) /\ a.status # 416
    BY <1>0 DEF OpenSlots, OpenFits
  <2>1. Fitting(s.header, s.size, a)
    BY <2>0, RangesExact
  <2>2. a.status \in {200, 206} /\ a.from \in 0..MaxBytes /\ a.to \in -1..MaxBytes /\ a.to < s.size
    BY <2>1 DEF Fitting, Answers
  <2>3. a.to - a.from + 1 \in 0..MaxBytes
    BY <2>0, <2>1, <2>2, PlaybackAssumption DEF Fitting
  <2>4. file[s.file] \in 0..MaxBytes /\ body \subseteq 0..MaxBytes
    <3>1. file[s.file] \in 0..MaxBytes
      BY <1>2 DEF There, PlaybackInv
    <3> QED
      BY <2>2, <3>1, PlaybackAssumption
  <2>5. x \in ServedSlots
    BY <2>0, <2>2, <2>3, <2>4 DEF ServedSlots
  <2>6. ServedFits(x)
    <3>1. a.from..a.to = Asked(s.header, s.size)
      BY <2>1 DEF Fitting
    <3>2. ASSUME s.same
          PROVE  body = a.from..a.to /\ body = a.from..a.from + (a.to - a.from + 1) - 1
      <4>1. file[s.file] = s.size
        BY <1>0, <3>2 DEF OpenFits
      <4>2. body = a.from..a.to
        <5>1. CASE a.status = 200
          <6>1. a.from = 0 /\ a.to = s.size - 1
            BY <2>1, <5>1 DEF Fitting
          <6> QED
            BY <4>1, <5>1, <6>1
        <5>2. CASE a.status = 206
          BY <2>0, <2>2, <4>1, <5>2
        <5> QED
          BY <2>2, <5>1, <5>2
      <4>3. a.from + (a.to - a.from + 1) - 1 = a.to
        BY <2>2
      <4> QED
        BY <4>2, <4>3
    <3>3. ASSUME a.status = 206
          PROVE  /\ body \subseteq a.from..a.to
                 /\ \A i \in body, j \in a.from..a.to : j < i => j \in body
      BY <2>2, <2>4, <3>3
    <3>4. /\ x.same = s.same /\ x.sent = body /\ x.status = a.status
          /\ x.header = s.header /\ x.size = s.size /\ x.announced = a.to - a.from + 1
      OBVIOUS
    <3> HIDE DEF x, body
    <3>5. x.same => /\ x.sent = Asked(x.header, x.size)
                    /\ \E from \in 0..MaxBytes : x.sent = from..from + x.announced - 1
      BY <2>2, <3>1, <3>2, <3>4
    <3>6. x.status = 206 =>
             /\ x.sent \subseteq Asked(x.header, x.size)
             /\ \A i \in x.sent, j \in Asked(x.header, x.size) : j < i => j \in x.sent
      BY <3>1, <3>3, <3>4
    <3> QED
      BY <3>5, <3>6 DEF ServedFits
  <2>7. player' = [player EXCEPT ![p] = x]
    BY <1>2 DEF OpenFile
  <2> HIDE DEF x
  <2>8. /\ x \in Slots /\ x \notin LookSlots /\ x \notin UrlSlots /\ x \notin OpenSlots
        /\ x \notin GoneSlots
    BY <2>5, SlotsDiffer DEF Slots
  <2>9. SlotFits(x)
    BY <2>6, <2>8 DEF SlotFits, LooksFit, UrlsFit, OpenFits, GoneFits
  <2> QED
    BY <1>0, <2>7, <2>9, PlayerGoesOn
<1> QED
  BY <1>1, <1>2

LEMMA LeaveKeepsInv ==
    ASSUME PlaybackInv, NEW p \in Players, Leave(p)
    PROVE  PlaybackInv'
<1>1. NotPlaying \in Slots /\ SlotFits(NotPlaying)
  BY SlotsDiffer DEF Slots, SlotFits, LooksFit, UrlsFit, OpenFits, GoneFits, ServedFits, NotPlaying
<1> QED
  BY <1>1, PlayerGoesOn DEF Leave

\* What a player in state x still relies on when file f is replaced.
LEMMA Replaced ==
    ASSUME PlaybackInv, NEW f \in Files, NEW size \in 0..MaxBytes, Publish(f, size), NEW p \in Players
    PROVE  player'[p] \in Slots /\ SlotFits(player[p])' 
<1> DEFINE x == player[p]
<1>1. SlotFits(x) /\ x \in Slots
  BY DEF PlaybackInv
<1>2. There \subseteq There' /\ file' = [file EXCEPT ![f] = size]
  BY PlaybackAssumption DEF Publish, There, PlaybackInv
<1>3. \A g \in Files \ {f} : file'[g] = file[g]
  BY <1>2 DEF PlaybackInv
<1>4. CASE x.pc = "open" /\ x.file = f
  <2>0. x \in OpenSlots
    BY <1>1, <1>4, SlotsDiffer
  <2>1. x \in OpenSlots /\ player'[p] = [x EXCEPT !.same = FALSE]
    BY <2>0, <1>4 DEF Publish
  <2>2. player'[p] \in OpenSlots
    BY <2>1 DEF OpenSlots
  <2>3. /\ player'[p].answer = x.answer /\ player'[p].header = x.header /\ player'[p].size = x.size
        /\ player'[p].kept = x.kept /\ player'[p].file = x.file /\ ~player'[p].same
    BY <2>1 DEF OpenSlots
  <2>4. OpenFits(player[p])'
    BY <1>1, <1>2, <2>1, <2>3 DEF SlotFits, OpenFits
  <2>5. /\ player'[p] \in Slots /\ player'[p] \notin LookSlots /\ player'[p] \notin UrlSlots
        /\ player'[p] \notin GoneSlots /\ player'[p] \notin ServedSlots
    BY <2>2, SlotsDiffer DEF Slots
  <2> QED
    BY <2>4, <2>5 DEF SlotFits, LooksFit, UrlsFit, GoneFits, ServedFits
<1>5. CASE ~(x.pc = "open" /\ x.file = f)
  <2>1. player'[p] = x
    BY <1>5 DEF Publish
  <2>2. x \in OpenSlots => x.file \in Files \ {f}
    BY <1>1, <1>5, SlotsDiffer DEF OpenSlots
  <2>3. OpenFits(x)'
    BY <1>1, <1>2, <1>3, <2>1, <2>2 DEF SlotFits, OpenFits
  <2> QED
    BY <1>1, <1>2, <2>1, <2>3 DEF SlotFits, LooksFit, UrlsFit, OpenFits, GoneFits, ServedFits
<1> QED
  BY <1>4, <1>5

LEMMA PublishKeepsInv ==
    ASSUME PlaybackInv, NEW f \in Files, NEW size \in 0..MaxBytes, Publish(f, size)
    PROVE  PlaybackInv'
<1>1. file' \in [Files -> 0..MaxBytes \cup {Missing}]
  BY DEF Publish, PlaybackInv
<1>2. player' \in [Players -> Slots]
  <2>1. \A p \in Players : player'[p] \in Slots
    BY Replaced
  <2> QED
    BY <2>1 DEF Publish
<1> QED
  BY <1>1, <1>2, Replaced DEF PlaybackInv

LEMMA Voided ==
    ASSUME PlaybackInv, FilesGo, NEW p \in Players
    PROVE  player'[p] \in Slots /\ SlotFits(player[p])'
<1> DEFINE x == player[p]
<1>1. SlotFits(x) /\ x \in Slots
  BY DEF PlaybackInv
<1>2. CASE x.pc = "open"
  <2>0. x \in OpenSlots
    BY <1>1, <1>2, SlotsDiffer
  <2>1. x \in OpenSlots /\ player'[p] = [x EXCEPT !.same = FALSE, !.kept = FALSE]
    BY <2>0, <1>2 DEF FilesGo
  <2>2. player'[p] \in OpenSlots
    BY <2>1 DEF OpenSlots
  <2>3. /\ player'[p].answer = x.answer /\ player'[p].header = x.header /\ player'[p].size = x.size
        /\ ~player'[p].kept /\ ~player'[p].same
    BY <2>1 DEF OpenSlots
  <2>4. OpenFits(player[p])'
    BY <1>1, <2>1, <2>3 DEF SlotFits, OpenFits
  <2>5. /\ player'[p] \in Slots /\ player'[p] \notin LookSlots /\ player'[p] \notin UrlSlots
        /\ player'[p] \notin GoneSlots /\ player'[p] \notin ServedSlots
    BY <2>2, SlotsDiffer DEF Slots
  <2> QED
    BY <2>4, <2>5 DEF SlotFits, LooksFit, UrlsFit, GoneFits, ServedFits
<1>3. CASE x.pc = "urls"
  <2>0. x \in UrlSlots
    BY <1>1, <1>3, SlotsDiffer
  <2>1. x \in UrlSlots /\ player'[p] = [x EXCEPT !.kept = FALSE]
    BY <2>0, <1>3 DEF FilesGo
  <2>2. player'[p] \in UrlSlots /\ ~player'[p].kept
    BY <2>1 DEF UrlSlots
  <2>3. /\ player'[p] \in Slots /\ player'[p] \notin LookSlots /\ player'[p] \notin OpenSlots
        /\ player'[p] \notin GoneSlots /\ player'[p] \notin ServedSlots
    BY <2>2, SlotsDiffer DEF Slots
  <2> QED
    BY <2>2, <2>3 DEF SlotFits, LooksFit, UrlsFit, OpenFits, GoneFits, ServedFits
<1>4. CASE x.pc = "looks"
  <2>0. x \in LookSlots
    BY <1>1, <1>4, SlotsDiffer
  <2>1. player'[p] = [x EXCEPT !.kept = FALSE]
    BY <2>0, <1>4 DEF FilesGo
  <2>2. player'[p] \in LookSlots /\ ~player'[p].kept
    BY <2>0, <2>1 DEF LookSlots
  <2>3. /\ player'[p] \in Slots /\ player'[p] \notin UrlSlots /\ player'[p] \notin OpenSlots
        /\ player'[p] \notin GoneSlots /\ player'[p] \notin ServedSlots
    BY <2>2, SlotsDiffer DEF Slots
  <2> QED
    BY <2>2, <2>3 DEF SlotFits, LooksFit, UrlsFit, OpenFits, GoneFits, ServedFits
<1>5. CASE x.pc \notin {"open", "looks", "urls"}
  <2>1. player'[p] = x
    BY <1>5 DEF FilesGo
  <2>2. x \notin OpenSlots /\ x \notin UrlSlots /\ x \notin LookSlots
    BY <1>1, <1>5, SlotsDiffer
  <2> QED
    BY <1>1, <2>1, <2>2 DEF SlotFits, LooksFit, UrlsFit, OpenFits, GoneFits, ServedFits
<1> QED
  BY <1>2, <1>3, <1>4, <1>5

LEMMA FilesGoKeepsInv ==
    ASSUME PlaybackInv, FilesGo
    PROVE  PlaybackInv'
<1>1. file' \in [Files -> 0..MaxBytes \cup {Missing}]
  BY DEF FilesGo
<1>2. player' \in [Players -> Slots]
  <2>1. \A p \in Players : player'[p] \in Slots
    BY Voided
  <2> QED
    BY <2>1 DEF FilesGo
<1> QED
  BY <1>1, <1>2, Voided DEF PlaybackInv

LEMMA PlaybackInvStep ==
    ASSUME PlaybackInv, [PlaybackNext]_playbackVars
    PROVE  PlaybackInv'
<1>1. CASE UNCHANGED playbackVars
  BY <1>1 DEF playbackVars, PlaybackInv, SlotFits, LooksFit, UrlsFit, OpenFits, GoneFits, ServedFits, There
<1> QED
  BY <1>1, LookKeepsInv, PlaylistKeepsInv, StatKeepsInv, OpenKeepsInv, LeaveKeepsInv, PublishKeepsInv,
     FilesGoKeepsInv DEF PlaybackNext

\* The inductive invariant of playback (serve_file_with_range and the playlist)
\* holds in every reachable state.
THEOREM PlaybackCorrect == PlaybackSpec => []PlaybackInv
  BY PlaybackInvInit, PlaybackInvStep, PTL DEF PlaybackSpec

\* Every variable stays within its type.
THEOREM PlaybackTypeCorrect == PlaybackSpec => []PlaybackTypeOK
<1>1. PlaybackInv => PlaybackTypeOK
  BY DEF PlaybackInv, PlaybackTypeOK, Slots, LookSlots, UrlSlots, OpenSlots, GoneSlots, RefusedSlots, ServedSlots
<1> QED
  BY <1>1, PlaybackCorrect, PTL

\* A URL that was handed out by a request, whatever came while it looked for
\* files, leads to one until the recording is deleted,
\* however often files are replaced, for any number of players and segments.
THEOREM UrlsLead == PlaybackSpec => []UrlLeadsToFile
<1>1. PlaybackInv => UrlLeadsToFile
  <2> SUFFICES ASSUME PlaybackInv, NEW p \in Players,
                      player[p].pc = "answered", player[p].status \in {404, 500}
               PROVE  ~player[p].kept
    BY DEF UrlLeadsToFile
  <2>1. player[p] \in GoneSlots /\ GoneFits(player[p])
    BY SlotsDiffer DEF PlaybackInv, SlotFits
  <2> QED
    BY <2>1 DEF GoneFits
<1> QED
  BY <1>1, PlaybackCorrect, PTL

\* A body is what the Range header asked for and as long as announced; that of
\* a range is the beginning of it when the file was replaced.
THEOREM BodiesExact == PlaybackSpec => []BodyIsTheRange
<1>1. PlaybackInv => BodyIsTheRange
  <2> SUFFICES ASSUME PlaybackInv, NEW p \in Players,
                      player[p].pc = "answered", player[p].status \in {200, 206}
               PROVE  player[p] \in ServedSlots /\ ServedFits(player[p])
    BY DEF BodyIsTheRange, ServedFits
  <2> QED
    BY SlotsDiffer DEF PlaybackInv, SlotFits
<1> QED
  BY <1>1, PlaybackCorrect, PTL
=============================================================================
