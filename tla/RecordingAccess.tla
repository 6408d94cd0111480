---------------------------- MODULE RecordingAccess ----------------------------
(***************************************************************************)
(* Who may look at a recording: its row in videos with the trigger that    *)
(* keeps public and access_mode in step (migrations), the owner's          *)
(* PATCH .../access and PATCH .../{videoId}, the unlock of a visitor and   *)
(* the cookie it sets (src/routes/access.rs), the handlers that look at    *)
(* the row and answer with signed URLs (share, embed, playlist and         *)
(* captions), and GET /media, which looks at the signature alone.          *)
(*                                                                         *)
(* The row is read in one step and used in a later one: an unlock hashes   *)
(* in between, a handler looks for files or runs another SELECT.           *)
(***************************************************************************)
EXTENDS HashPool

CONSTANTS
    Videos, Passwords,
    NoHash,      \* SQL NULL in access_password_hash
    Setters,     \* slots for concurrent PATCH .../access
    Unlockers,   \* slots for concurrent unlocks
    Viewers,     \* slots for concurrent requests to look at a recording
    AccessTTL,   \* ACCESS_TTL_SECS, 15 minutes
    MediaTTL,    \* 86400 seconds, the life of a URL that a viewer gets
    MaxChanges   \* bound on how often access is changed

ASSUME AccessAssumption ==
    /\ AccessTTL \in Nat /\ MediaTTL \in Nat /\ MaxChanges \in Nat
    /\ NoHash \notin Passwords
    /\ NoHash \notin [password : Passwords, salt : 0..MaxChanges]

VARIABLES
    row,       \* row[v]: access_mode, public, access_password_hash, access_cookie_epoch
    changes,   \* how often access was set; the salt of the next hash
    setter, unlocker, viewer,   \* the handlers
    cookies,   \* every cookie that was ever issued: video, epoch, age and
               \* (history) the hash that the password was verified against
    urls,      \* signed GET URLs that visitors got: video and age
    private    \* history: for how long the recording has been private

ownAccess == <<row, changes, setter, unlocker, viewer, cookies, urls, private>>
accessVars == <<pool, poolFaults, ownAccess>>
-----------------------------------------------------------------------------
Modes == {"public", "private", "password"}

\* Two hashes of one password differ in their salt.
Hashes == [password : Passwords, salt : 0..MaxChanges]

IdleHandler == [pc |-> "idle"]

\* NEW.access_mode IS NULL: the row of a new recording follows its visibility.
Inserted(public) ==
    [mode |-> IF public THEN "public" ELSE "private", public |-> public,
     hash |-> NoHash, epoch |-> 0]

AccessInit ==
    /\ PoolInit
    /\ row \in [Videos -> {Inserted(public) : public \in BOOLEAN}]
    /\ changes = 0
    /\ setter = [s \in Setters |-> IdleHandler]
    /\ unlocker = [u \in Unlockers |-> IdleHandler]
    /\ viewer = [w \in Viewers |-> IdleHandler]
    /\ cookies = {}
    /\ urls = {}
    /\ private = [v \in Videos |-> 0]
-----------------------------------------------------------------------------
(* The row, and what the database makes of an UPDATE.                      *)

\* Slip: as before migration 0009, a mode that is set keeps the hash.
SyncKeepsHash(old, new) ==
    IF new.mode # old.mode
    THEN [new EXCEPT !.public = (new.mode = "public"), !.epoch = old.epoch + 1]
    ELSE IF new.public # old.public
    THEN [new EXCEPT !.mode = IF new.public THEN "public" ELSE "private",
                     !.epoch = old.epoch + 1]
    ELSE [new EXCEPT !.public = (new.mode = "public")]

\* sync_video_access_compat, BEFORE UPDATE OF public, access_mode.
Synced(old, new) ==
    IF new.mode # old.mode
    THEN [new EXCEPT !.public = (new.mode = "public"),
                     !.hash = IF new.mode = "password" THEN @ ELSE NoHash,
                     !.epoch = old.epoch + 1]
    ELSE IF new.public # old.public
    THEN [new EXCEPT !.mode = IF new.public THEN "public" ELSE "private",
                     !.hash = NoHash,
                     !.epoch = old.epoch + 1]
    ELSE [new EXCEPT !.public = (new.mode = "public")]

\* An UPDATE of v; the history of privacy begins anew unless v stays private.
Update(v, new) ==
    LET synced == Synced(row[v], new)
    IN  /\ row' = [row EXCEPT ![v] = synced]
        /\ private' = [private EXCEPT ![v] =
               IF row[v].mode = "private" /\ synced.mode = "private" THEN @ ELSE 0]

\* Slip: the epoch moves only when the mode does, which the trigger sees to.
NewAccessKeepsEpoch(old, mode, hash) == [old EXCEPT !.mode = mode, !.hash = hash]

\* The SET clause of set_access.
NewAccess(old, mode, hash) ==
    [old EXCEPT !.mode = mode, !.hash = hash, !.epoch = @ + 1]

\* The SET clause of patch.  A patch of name or metadata alone leaves public
\* out, so that the trigger does not run and nothing here changes.
PatchVisibility(v, public) ==
    /\ changes < MaxChanges
    /\ changes' = changes + 1
    /\ Update(v, [row[v] EXCEPT !.public = public])
    /\ UNCHANGED <<pool, poolFaults, setter, unlocker, viewer, cookies, urls>>
-----------------------------------------------------------------------------
(* set_access: a password is hashed before the UPDATE.                     *)

SetBegin(s, v, mode, password) ==
    /\ setter[s].pc = "idle"
    /\ setter' = [setter EXCEPT ![s] =
           [pc |-> IF mode = "password" THEN "wait" ELSE "update",
            video |-> v, mode |-> mode,
            password |-> IF mode = "password" THEN password ELSE NoHash]]
    /\ UNCHANGED <<pool, poolFaults, row, changes, unlocker, viewer, cookies, urls, private>>

SetAcquire(s) ==
    /\ setter[s].pc = "wait"
    /\ Acquire
    /\ setter' = [setter EXCEPT ![s].pc = "job"]
    /\ UNCHANGED <<poolFaults, row, changes, unlocker, viewer, cookies, urls, private>>

SetJobEnds(s) ==
    /\ setter[s].pc = "job"
    /\ JobEnds
    /\ setter' = [setter EXCEPT ![s].pc = "update"]
    /\ UNCHANGED <<poolFaults, row, changes, unlocker, viewer, cookies, urls, private>>

SetUpdate(s) ==
    LET r == setter[s]
        hash == IF r.mode = "password" THEN [password |-> r.password, salt |-> changes] ELSE NoHash
    IN  /\ r.pc = "update"
        /\ changes < MaxChanges
        /\ changes' = changes + 1
        /\ Update(r.video, NewAccess(row[r.video], r.mode, hash))
        /\ setter' = [setter EXCEPT ![s] = IdleHandler]
        /\ UNCHANGED <<pool, poolFaults, unlocker, viewer, cookies, urls>>

\* The owner goes away, or the statement fails.
SetDropped(s) ==
    /\ setter[s].pc # "idle"
    /\ PoolFault
    /\ IF setter[s].pc = "job" THEN JobOrphaned ELSE UNCHANGED pool
    /\ setter' = [setter EXCEPT ![s] = IdleHandler]
    /\ UNCHANGED <<row, changes, unlocker, viewer, cookies, urls, private>>
-----------------------------------------------------------------------------
(* unlock: the row is read, the password verified, the cookie issued.      *)

\* Slip: the mode of the row is not looked at.
UnlockAnyMode(u, v, password) ==
    /\ unlocker[u].pc = "idle"
    /\ unlocker' = [unlocker EXCEPT ![u] =
           [pc |-> "wait", video |-> v, password |-> password,
            hash |-> row[v].hash, epoch |-> row[v].epoch]]
    /\ UNCHANGED <<pool, poolFaults, row, changes, setter, viewer, cookies, urls, private>>

\* Only a recording with a password is verified at all.
UnlockRead(u, v, password) ==
    /\ unlocker[u].pc = "idle"
    /\ row[v].mode = "password" /\ row[v].hash # NoHash
    /\ unlocker' = [unlocker EXCEPT ![u] =
           [pc |-> "wait", video |-> v, password |-> password,
            hash |-> row[v].hash, epoch |-> row[v].epoch]]
    /\ UNCHANGED <<pool, poolFaults, row, changes, setter, viewer, cookies, urls, private>>

UnlockAcquire(u) ==
    /\ unlocker[u].pc = "wait"
    /\ Acquire
    /\ unlocker' = [unlocker EXCEPT ![u].pc = "job"]
    /\ UNCHANGED <<poolFaults, row, changes, setter, viewer, cookies, urls, private>>

\* Slip: the cookie carries the epoch that is stored when it is issued.
CookieOfTheRow(r) ==
    [video |-> r.video, epoch |-> row[r.video].epoch, age |-> 0, given |-> r.hash]

\* issue_access_cookie, with the epoch of the row that was read
CookieFor(r) ==
    [video |-> r.video, epoch |-> r.epoch, age |-> 0, given |-> r.hash]

UnlockJobEnds(u) ==
    LET r == unlocker[u]
    IN  /\ r.pc = "job"
        /\ JobEnds
        /\ cookies' = IF r.hash.password = r.password THEN cookies \cup {CookieFor(r)} ELSE cookies
        /\ unlocker' = [unlocker EXCEPT ![u] = IdleHandler]
        /\ UNCHANGED <<poolFaults, row, changes, setter, viewer, urls, private>>

UnlockDropped(u) ==
    /\ unlocker[u].pc # "idle"
    /\ PoolFault
    /\ IF unlocker[u].pc = "job" THEN JobOrphaned ELSE UNCHANGED pool
    /\ unlocker' = [unlocker EXCEPT ![u] = IdleHandler]
    /\ UNCHANGED <<row, changes, setter, viewer, cookies, urls, private>>

\* Signer::verify: now() > exp is too late.
Fresh(age, ttl) == age <= ttl

\* verify_cookie_value: c opens v as the row r has it.
Verified(c, v, r) == c.video = v /\ c.epoch = r.epoch /\ Fresh(c.age, AccessTTL)

HasCookie(v, r) == \E c \in cookies : Verified(c, v, r)

\* policy_allows, for a visitor who may hold a cookie.  The owner is let in
\* always; what an owner is sent is not followed here.
Allows(v, r) == r.mode = "public" \/ (r.mode = "password" /\ HasCookie(v, r))
-----------------------------------------------------------------------------
(* To look at a recording: the row is read and the policy asked, and after *)
(* another await (a directory, the captions) a URL is signed.              *)

ViewRead(w, v) ==
    /\ viewer[w].pc = "idle"
    /\ Allows(v, row[v])
    /\ viewer' = [viewer EXCEPT ![w] = [pc |-> "sign", video |-> v]]
    /\ UNCHANGED <<pool, poolFaults, row, changes, setter, unlocker, cookies, urls, private>>

ViewSign(w) ==
    LET r == viewer[w]
    IN  /\ r.pc = "sign"
        /\ urls' = urls \cup {[video |-> r.video, age |-> 0]}
        /\ viewer' = [viewer EXCEPT ![w] = IdleHandler]
        /\ UNCHANGED <<pool, poolFaults, row, changes, setter, unlocker, cookies, private>>

ViewDropped(w) ==
    /\ viewer[w].pc # "idle"
    /\ PoolFault
    /\ viewer' = [viewer EXCEPT ![w] = IdleHandler]
    /\ UNCHANGED <<pool, row, changes, setter, unlocker, cookies, urls, private>>

\* Slip: the signature is compared, the time is not.
ServesLate(url) == url.video \in Videos

\* GET /media/{key}: whoever has the URL is served until it expires.
Serves(url) == Fresh(url.age, MediaTTL)
-----------------------------------------------------------------------------
Older(age, ttl) == IF age > ttl THEN age ELSE age + 1

\* A request to look takes less than a tick; hashing and setting may take any
\* number.
AccessTick ==
    /\ \A w \in Viewers : viewer[w].pc = "idle"
    /\ cookies' = {[c EXCEPT !.age = Older(@, AccessTTL)] : c \in cookies}
    /\ urls' = {[url EXCEPT !.age = Older(@, MediaTTL)] : url \in urls}
    /\ private' = [v \in Videos |->
           IF row[v].mode = "private" THEN Older(private[v], MediaTTL) ELSE 0]
    /\ UNCHANGED <<pool, poolFaults, row, changes, setter, unlocker, viewer>>

AccessOrphanEnds ==
    /\ OrphanEnds
    /\ UNCHANGED <<poolFaults, ownAccess>>

\* Rows, cookies and URLs outlive the process; the secret is configuration.
AccessRestart ==
    /\ PoolFault
    /\ PoolRestart
    /\ setter' = [s \in Setters |-> IdleHandler]
    /\ unlocker' = [u \in Unlockers |-> IdleHandler]
    /\ viewer' = [w \in Viewers |-> IdleHandler]
    /\ UNCHANGED <<row, changes, cookies, urls, private>>

SetStep(s) ==
    \/ \E v \in Videos, mode \in Modes, password \in Passwords : SetBegin(s, v, mode, password)
    \/ SetAcquire(s) \/ SetJobEnds(s) \/ SetUpdate(s) \/ SetDropped(s)
UnlockStep(u) ==
    \/ \E v \in Videos, password \in Passwords : UnlockRead(u, v, password)
    \/ UnlockAcquire(u) \/ UnlockJobEnds(u) \/ UnlockDropped(u)
ViewStep(w) ==
    \/ \E v \in Videos : ViewRead(w, v)
    \/ ViewSign(w) \/ ViewDropped(w)

AccessNext ==
    \/ \E v \in Videos, public \in BOOLEAN : PatchVisibility(v, public)
    \/ \E s \in Setters : SetStep(s)
    \/ \E u \in Unlockers : UnlockStep(u)
    \/ \E w \in Viewers : ViewStep(w)
    \/ AccessTick \/ AccessOrphanEnds \/ AccessRestart

AccessSpec == AccessInit /\ [][AccessNext]_accessVars
-----------------------------------------------------------------------------
(* Properties.                                                             *)

\* Every variable stays within its type.
RowType == [mode : Modes, public : BOOLEAN, hash : Hashes \cup {NoHash}, epoch : 0..MaxChanges]
CookieType == [video : Videos, epoch : 0..MaxChanges, age : 0..AccessTTL + 1, given : Hashes]
UrlType == [video : Videos, age : 0..MediaTTL + 1]
AccessTypeOK ==
    /\ row \in [Videos -> RowType]
    /\ changes \in 0..MaxChanges
    /\ setter \in [Setters -> {IdleHandler} \cup
           [pc : {"wait", "job", "update"}, video : Videos, mode : Modes,
            password : Passwords \cup {NoHash}]]
    /\ unlocker \in [Unlockers -> {IdleHandler} \cup
           [pc : {"wait", "job"}, video : Videos, password : Passwords, hash : Hashes,
            epoch : 0..MaxChanges]]
    /\ viewer \in [Viewers -> {IdleHandler} \cup [pc : {"sign"}, video : Videos]]
    /\ cookies \subseteq CookieType
    /\ urls \subseteq UrlType
    /\ private \in [Videos -> 0..MediaTTL + 1]

\* Two statements set the visibility through different columns; whatever their
\* order, public says what access_mode says, and a hash is stored exactly while
\* there is a password.
CompatInStep ==
    \A v \in Videos : /\ row[v].public <=> row[v].mode = "public"
                      /\ row[v].hash # NoHash <=> row[v].mode = "password"

\* "Changing or clearing the recording password invalidates existing unlock
\* cookies" (README), also for the cookie of an unlock that was verified while
\* the password changed: what opens a recording was given for its password.
Opens(c, v) == row[v].mode = "password" /\ Verified(c, v, row[v])
CookieFitsPassword ==
    \A v \in Videos, c \in cookies : Opens(c, v) => c.given = row[v].hash

\* Cookies, epochs and the order in which rows are read keep the promises of
\* AccessLock: a change voids every key at once, nothing else gives one back,
\* and a key is given for the password that is set.
NoLock(mode) == [closedBy |-> mode]
LockOf(v) == IF row[v].mode = "password" THEN row[v].hash ELSE NoLock(row[v].mode)
KeysOf(v) == {c.given : c \in {k \in cookies : Opens(k, v)}}
Lock == INSTANCE AccessLock WITH
    Locks <- Hashes, Open <- NoLock("public"), Shut <- NoLock("private"),
    lock <- [v \in Videos |-> LockOf(v)], keyed <- [v \in Videos |-> KeysOf(v)]
ImplementsLock == Lock!LockSpec

\* "Generated media URLs remain bearer URLs until they expire" (README), and no
\* longer: a recording that has been private for a day is served to nobody who
\* is not its owner, also if it was made private while a request was under way.
UrlsRunOut ==
    \A url \in urls : Serves(url) => private[url.video] <= MediaTTL
=============================================================================
