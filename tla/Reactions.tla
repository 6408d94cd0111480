------------------------------ MODULE Reactions ------------------------------
(***************************************************************************)
(* Reactions to a recording and its views (src/routes/collaboration.rs,    *)
(* tables video_reactions and video_views).  A toggle is one statement of  *)
(* two parts that see the table as it was when the statement began; a view *)
(* is one row per visitor and day.                                         *)
(*                                                                         *)
(* PostgreSQL is external.  DELETE passes over a row that another          *)
(* statement has deleted meanwhile, INSERT meets the rows that are there   *)
(* now, and neither waits longer than the other statement takes.           *)
(***************************************************************************)
EXTENDS VideoRow, Integers

CONSTANTS
    Marks,      \* pairs of a user and an emoji
    Togglers,   \* slots for concurrent toggles
    Browsers,   \* who opens the recording's page
    Visitors,   \* bound on the visitor ids that are drawn
    NoVisitor,  \* stands for no cookie
    Watchers,   \* slots for concurrent reports of a view
    LastDay     \* bound on the days

ASSUME ReactionsAssumption == NoVisitor \notin Visitors /\ LastDay \in Nat

VARIABLES
    active,   \* the marks that have a row
    toggle,   \* the toggles that are under way
    view,     \* rows of video_views: visitor and day
    cookie,   \* cookie[b]: the visitor id that browser b keeps
    watch,    \* the reports of a view that are under way
    day,      \* CURRENT_DATE
    counted   \* history: how often a visitor's view of a day was answered
              \* with "counted", since the recording was created

reactionVars == <<active, toggle>>
viewVars == <<view, cookie, watch, day, counted>>
reactionsVars == <<videoRow, reactionVars, viewVars>>
-----------------------------------------------------------------------------
IdleToggle == [pc |-> "idle"]
IdleWatch == [pc |-> "idle"]

ReactionsInit ==
    /\ VideoRowInit
    /\ active = {}
    /\ toggle = [t \in Togglers |-> IdleToggle]
    /\ view = {}
    /\ cookie = [b \in Browsers |-> NoVisitor]
    /\ watch = [w \in Watchers |-> IdleWatch]
    /\ day = 0
    /\ counted = [k \in Visitors \X (0..LastDay) |-> 0]
-----------------------------------------------------------------------------
(* toggle_reaction.                                                        *)

\* The statement takes its snapshot; "same" until another toggle has changed
\* the row that it saw, or saw missing.
ToggleBegin(t, m) ==
    /\ toggle[t].pc = "idle"
    /\ videoRow
    /\ toggle' = [toggle EXCEPT ![t] = [pc |-> "apply", mark |-> m, seen |-> m \in active, same |-> TRUE]]
    /\ UNCHANGED <<videoRow, active, viewVars>>

\* Toggle t ends, and what the others have seen of mark m is out of date.
ToggleChanges(t, m) ==
    toggle' = [x \in Togglers |->
        IF x = t THEN IdleToggle
        ELSE IF toggle[x].pc # "idle" /\ toggle[x].mark = m THEN [toggle[x] EXCEPT !.same = FALSE]
        ELSE toggle[x]]

Removes(t) == toggle[t].seen /\ toggle[t].same

Inserts(t) == ~Removes(t) /\ toggle[t].mark \notin active /\ videoRow

\* Slip: the second part inserts whether or not the first one deleted.
ToggleKeeps(t) ==
    LET m == toggle[t].mark
    IN  /\ toggle[t].pc = "apply"
        /\ active' = IF videoRow THEN active \cup {m} ELSE active
        /\ ToggleChanges(t, m)
        /\ UNCHANGED <<videoRow, viewVars>>

\* The statement is through.  When it neither deletes nor inserts it answers
\* that the reaction is not active.
ToggleApply(t) ==
    LET m == toggle[t].mark
    IN  /\ toggle[t].pc = "apply"
        /\ IF Removes(t) \/ Inserts(t)
           THEN /\ active' = IF Removes(t) THEN active \ {m} ELSE active \cup {m}
                /\ ToggleChanges(t, m)
           ELSE UNCHANGED active /\ toggle' = [toggle EXCEPT ![t] = IdleToggle]
        /\ UNCHANGED <<videoRow, viewVars>>
-----------------------------------------------------------------------------
(* record_view.                                                            *)

\* A browser without the cookie gets a visitor id of its own.
WatchBegin(w, b, v) ==
    /\ watch[w].pc = "idle"
    /\ videoRow
    /\ IF cookie[b] # NoVisitor THEN v = cookie[b]
       ELSE /\ \A x \in Browsers : cookie[x] # v
            /\ \A x \in Watchers : watch[x].pc # "idle" => watch[x].visitor # v
            /\ \A k \in view : k[1] # v
    /\ watch' = [watch EXCEPT ![w] = [pc |-> "insert", browser |-> b, visitor |-> v,
                                      first |-> cookie[b] = NoVisitor]]
    /\ UNCHANGED <<videoRow, reactionVars, view, cookie, day, counted>>

Counted(key) == counted' = [counted EXCEPT ![key] = @ + 1]
WatchEnds(w) == watch' = [watch EXCEPT ![w] = IdleWatch]

\* Slip: ON CONFLICT DO UPDATE, which touches a row as well.
WatchUpserts(w) ==
    LET key == <<watch[w].visitor, day>>
    IN  /\ watch[w].pc = "insert"
        /\ videoRow
        /\ view' = view \cup {key}
        /\ Counted(key)
        /\ cookie' = [cookie EXCEPT ![watch[w].browser] = watch[w].visitor]
        /\ WatchEnds(w)
        /\ UNCHANGED <<videoRow, reactionVars, day>>

\* INSERT ... ON CONFLICT DO NOTHING; the foreign key refuses it when the
\* recording has gone since.  A first visit sets the cookie, unless the answer
\* is lost.
WatchInsert(w) ==
    LET key == <<watch[w].visitor, day>>
        b == watch[w].browser
    IN  /\ watch[w].pc = "insert"
        /\ IF videoRow /\ key \notin view THEN view' = view \cup {key} /\ Counted(key)
           ELSE UNCHANGED <<view, counted>>
        /\ \/ videoRow /\ watch[w].first /\ cookie' = [cookie EXCEPT ![b] = watch[w].visitor]
           \/ UNCHANGED cookie
        /\ WatchEnds(w)
        /\ UNCHANGED <<videoRow, reactionVars, day>>

\* The client goes away before the statement is sent.
WatchDropped(w) ==
    /\ watch[w].pc # "idle"
    /\ WatchEnds(w)
    /\ UNCHANGED <<videoRow, reactionVars, view, cookie, day, counted>>

Midnight ==
    /\ day < LastDay
    /\ day' = day + 1
    /\ UNCHANGED <<videoRow, reactionVars, view, cookie, watch, counted>>
-----------------------------------------------------------------------------
\* The recording is deleted, and the rows that hang on it.
ReactionsCascade ==
    /\ VideoRowGone
    /\ active' = {} /\ view' = {}
    /\ counted' = [k \in DOMAIN counted |-> 0]
    /\ toggle' = [t \in Togglers |-> IF toggle[t].pc = "idle" THEN IdleToggle
                                    ELSE [toggle[t] EXCEPT !.same = FALSE]]
    /\ UNCHANGED <<cookie, watch, day>>

ReactionsNext ==
    \/ \E t \in Togglers : (\E m \in Marks : ToggleBegin(t, m)) \/ ToggleApply(t)
    \/ \E w \in Watchers :
        \/ \E b \in Browsers, v \in Visitors : WatchBegin(w, b, v)
        \/ WatchInsert(w) \/ WatchDropped(w)
    \/ Midnight \/ ReactionsCascade
    \/ VideoRowAgain /\ UNCHANGED <<reactionVars, viewVars>>

ReactionsSpec == ReactionsInit /\ [][ReactionsNext]_reactionsVars
-----------------------------------------------------------------------------
(* Properties.                                                             *)

\* Every variable stays within its type.
ReactionsTypeOK ==
    /\ videoRow \in BOOLEAN
    /\ active \subseteq Marks
    /\ toggle \in [Togglers -> {IdleToggle} \cup
           [pc : {"apply"}, mark : Marks, seen : BOOLEAN, same : BOOLEAN]]
    /\ view \subseteq Visitors \X (0..day)
    /\ cookie \in [Browsers -> Visitors \cup {NoVisitor}]
    /\ watch \in [Watchers -> {IdleWatch} \cup
           [pc : {"insert"}, browser : Browsers, visitor : Visitors, first : BOOLEAN]]
    /\ day \in 0..LastDay
    /\ counted \in [Visitors \X (0..LastDay) -> Nat]

\* The delete and the insert of a toggle see the same snapshot: a toggle that
\* no other one overlaps turns the reaction on or off, and never leaves it.
LoneToggleFlips ==
    [][\A t \in Togglers : toggle[t].pc # "idle" /\ toggle[t].same /\ toggle'[t].pc = "idle"
          => (toggle[t].mark \in active') = ~(toggle[t].mark \in active)]_reactionsVars

\* However often and from however many tabs a visitor's view is reported, on
\* either side of midnight, it is counted once a day, and the total that the
\* owner sees is the number of those answers.
CountedOnce ==
    \A k \in Visitors \X (0..LastDay) :
        counted[k] <= 1 /\ (counted[k] = 1 <=> k \in view)

\* A toggle or a view that was under way when the recording was deleted leaves
\* no row behind.
NothingOutlivesVideo == ~videoRow => active = {} /\ view = {}

\* collaboration.rs: "Atomic toggle: delete if present, otherwise insert."  So
\* every toggle of a recording that is there turns the reaction on or off.
EveryToggleFlips ==
    [][\A t \in Togglers : toggle[t].pc # "idle" /\ videoRow /\ toggle'[t].pc = "idle"
          => (toggle[t].mark \in active') = ~(toggle[t].mark \in active)]_reactionsVars
=============================================================================
