------------------------ MODULE RecordingAccessProofs ------------------------
(***************************************************************************)
(* Theorems about RecordingAccess: the column pair in step, cookies that   *)
(* fit the password, URLs that run out, permits that are not lost, and the *)
(* lock that all of it implements, for any number of recordings, requests  *)
(* and changes.                                                            *)
(***************************************************************************)
EXTENDS RecordingAccess, FiniteSetTheorems, TLAPS

SetSlots == [pc : {"wait", "job", "update"}, video : Videos, mode : Modes,
             password : Passwords \cup {NoHash}]
UnlockSlots == [pc : {"wait", "job"}, video : Videos, password : Passwords, hash : Hashes,
                epoch : 0..MaxChanges]
ViewSlots == [pc : {"sign"}, video : Videos]

\* public and the hash follow the mode of a row.
InStep(r) == (r.public <=> r.mode = "public") /\ (r.hash # NoHash <=> r.mode = "password")

\* A password is set with a password.
SettersHavePassword ==
    \A s \in Setters :
        setter[s].pc # "idle" /\ setter[s].mode = "password" => setter[s].password \in Passwords

\* An epoch never comes again: what was read of a row at this epoch is what
\* the row still has of it.
Fits(v, epoch, hash) ==
    /\ epoch <= row[v].epoch
    /\ epoch = row[v].epoch /\ row[v].mode = "password" => hash = row[v].hash

EpochsFit ==
    /\ \A v \in Videos : row[v].epoch <= changes
    /\ \A c \in cookies : Fits(c.video, c.epoch, c.given)
    /\ \A u \in Unlockers :
           unlocker[u].pc # "idle" => Fits(unlocker[u].video, unlocker[u].epoch, unlocker[u].hash)

\* Who is about to sign has seen the recording open since the last tick.
PrivateSince ==
    /\ \A v \in Videos : row[v].mode # "private" => private[v] = 0
    /\ \A w \in Viewers : viewer[w].pc # "idle" => private[viewer[w].video] = 0
    /\ \A url \in urls : private[url.video] <= url.age

PoolCounts == permits \in Nat /\ running \in Int /\ permits + running = Permits

AccessInv ==
    /\ AccessTypeOK /\ CompatInStep
    /\ SettersHavePassword /\ EpochsFit /\ PrivateSince
    /\ PoolCounts

LEMMA AccessInvInit == AccessInit => AccessInv
<1> SUFFICES ASSUME AccessInit PROVE AccessInv
  OBVIOUS
<1>1. \A v \in Videos : /\ row[v] \in RowType /\ row[v].epoch = 0 /\ InStep(row[v])
  <2>1. \A public \in BOOLEAN : /\ Inserted(public) \in RowType /\ Inserted(public).epoch = 0
                                /\ InStep(Inserted(public))
    BY AccessAssumption DEF Inserted, RowType, Modes, InStep
  <2> QED
    BY <2>1 DEF AccessInit
<1>2. AccessTypeOK
  BY <1>1, AccessAssumption DEF AccessInit, AccessTypeOK
<1>3. SettersHavePassword
  BY DEF AccessInit, SettersHavePassword, IdleHandler
<1>4. EpochsFit
  BY <1>1 DEF AccessInit, EpochsFit, IdleHandler
<1>5. PrivateSince
  BY DEF AccessInit, PrivateSince, IdleHandler
<1> QED
  BY <1>1, <1>2, <1>3, <1>4, <1>5, PoolAssumption
     DEF AccessInv, CompatInStep, InStep, AccessInit, PoolInit, PoolCounts

-----------------------------------------------------------------------------
(* The row.                                                                *)

\* What the trigger makes of an UPDATE that changes the visibility alone, or
\* that sets mode and hash and moves the epoch: a row in step, which is as it
\* was or has a new epoch.
Succeeds(old, new) ==
    /\ new \in RowType /\ InStep(new)
    /\ \/ new.mode = old.mode /\ new.hash = old.hash /\ new.epoch = old.epoch
       \/ new.epoch = old.epoch + 1

LEMMA TriggerKeepsStep ==
    ASSUME NEW old \in RowType, NEW new \in RowType, InStep(old), old.epoch + 1 \in 0..MaxChanges,
           \/ new.mode = old.mode /\ new.hash = old.hash /\ new.epoch = old.epoch
           \/ /\ new.public = old.public /\ new.epoch = old.epoch + 1
              /\ new.hash # NoHash <=> new.mode = "password"
    PROVE  Succeeds(old, Synced(old, new))
<1>0. /\ new.mode \in Modes /\ new.public \in BOOLEAN /\ new.hash \in Hashes \cup {NoHash}
      /\ old.mode \in Modes /\ old.public \in BOOLEAN /\ old.epoch \in Nat
  BY DEF RowType
<1>1. CASE new.mode # old.mode
  <2> DEFINE h == IF new.mode = "password" THEN new.hash ELSE NoHash
             y == [new EXCEPT !.public = (new.mode = "public"), !.hash = h, !.epoch = old.epoch + 1]
  <2>1. Synced(old, new) = y
    BY <1>1 DEF Synced
  <2>2. /\ y \in RowType /\ y.mode = new.mode /\ y.hash = h
        /\ y.public = (new.mode = "public") /\ y.epoch = old.epoch + 1
    BY <1>0 DEF RowType
  <2>3. InStep(y)
    BY <1>1, <2>2 DEF InStep
  <2> QED
    BY <2>1, <2>2, <2>3 DEF Succeeds
<1>2. CASE new.mode = old.mode /\ new.public # old.public
  <2> DEFINE m == IF new.public THEN "public" ELSE "private"
             y == [new EXCEPT !.mode = m, !.hash = NoHash, !.epoch = old.epoch + 1]
  <2>1. Synced(old, new) = y
    BY <1>2 DEF Synced
  <2>2. y \in RowType /\ y.mode = m /\ y.public = new.public /\ y.hash = NoHash /\ y.epoch = old.epoch + 1
    BY <1>0 DEF RowType, Modes
  <2>3. InStep(y)
    BY <1>0, <2>2 DEF InStep
  <2> QED
    BY <2>1, <2>2, <2>3 DEF Succeeds
<1>3. CASE new.mode = old.mode /\ new.public = old.public
  <2> DEFINE y == [new EXCEPT !.public = (new.mode = "public")]
  <2>1. Synced(old, new) = y
    BY <1>3 DEF Synced
  <2>2. /\ y \in RowType /\ y.mode = new.mode /\ y.hash = new.hash /\ y.epoch = new.epoch
        /\ y.public = (new.mode = "public")
    BY <1>0 DEF RowType
  <2>3. InStep(y)
    BY <1>3, <2>2 DEF InStep
  <2> QED
    BY <1>3, <2>1, <2>2, <2>3 DEF Succeeds
<1> QED
  BY <1>1, <1>2, <1>3

\* What an UPDATE does to the recordings, to their keys and to their privacy.
LEMMA UpdateFacts ==
    ASSUME AccessInv, NEW v \in Videos, NEW new \in RowType, changes < MaxChanges, changes' = changes + 1,
           \/ new.mode = row[v].mode /\ new.hash = row[v].hash /\ new.epoch = row[v].epoch
           \/ /\ new.public = row[v].public /\ new.epoch = row[v].epoch + 1
              /\ new.hash # NoHash <=> new.mode = "password",
           Update(v, new)
    PROVE  /\ Succeeds(row[v], row'[v])
           /\ row' = [row EXCEPT ![v] = row'[v]]
           /\ private' \in [Videos -> 0..MediaTTL + 1]
           /\ \A x \in Videos \ {v} : private'[x] = private[x]
           /\ private'[v] \in {0, private[v]}
           /\ row'[v].mode # "private" => private'[v] = 0
<1> DEFINE synced == Synced(row[v], new)
<1>1. row[v] \in RowType /\ InStep(row[v]) /\ row[v].epoch + 1 \in 0..MaxChanges
  <2>1. row[v] \in RowType /\ row[v].epoch <= changes /\ row[v].epoch \in Nat /\ changes \in Nat
    BY DEF AccessInv, AccessTypeOK, EpochsFit, RowType
  <2> QED
    BY <2>1, AccessAssumption DEF AccessInv, CompatInStep, InStep
<1>2. Succeeds(row[v], synced)
  BY <1>1, TriggerKeepsStep
<1>3. /\ row' = [row EXCEPT ![v] = synced]
      /\ private' = [private EXCEPT ![v] =
             IF row[v].mode = "private" /\ synced.mode = "private" THEN private[v] ELSE 0]
  BY DEF Update
<1>4. row'[v] = synced
  BY <1>3 DEF AccessInv, AccessTypeOK
<1> QED
  BY <1>2, <1>3, <1>4, AccessAssumption DEF AccessInv, AccessTypeOK

\* Keys and epochs that are there stay older than the row, or of it.
LEMMA FitsStays ==
    ASSUME AccessInv, NEW v \in Videos, Succeeds(row[v], row'[v]), row' = [row EXCEPT ![v] = row'[v]],
           NEW x \in Videos, NEW epoch \in 0..MaxChanges, NEW hash, Fits(x, epoch, hash)
    PROVE  Fits(x, epoch, hash)'
<1>1. row[v].epoch \in Nat /\ row[x] \in RowType /\ row \in [Videos -> RowType]
  BY DEF AccessInv, AccessTypeOK, RowType
<1>2. CASE x = v
  BY <1>1, <1>2 DEF Fits, Succeeds, RowType
<1>3. CASE x # v
  BY <1>1, <1>3 DEF Fits
<1> QED
  BY <1>2, <1>3

LEMMA UpdateKeepsInv ==
    ASSUME AccessInv, NEW v \in Videos, NEW new \in RowType, changes < MaxChanges, changes' = changes + 1,
           \/ new.mode = row[v].mode /\ new.hash = row[v].hash /\ new.epoch = row[v].epoch
           \/ /\ new.public = row[v].public /\ new.epoch = row[v].epoch + 1
              /\ new.hash # NoHash <=> new.mode = "password",
           Update(v, new), UNCHANGED <<pool, unlocker, viewer, cookies, urls>>,
           \A s \in Setters : setter'[s] \in {setter[s], IdleHandler},
           setter' \in [Setters -> {IdleHandler} \cup SetSlots]
    PROVE  AccessInv'
<1>0. /\ Succeeds(row[v], row'[v])
      /\ row' = [row EXCEPT ![v] = row'[v]]
      /\ private' \in [Videos -> 0..MediaTTL + 1]
      /\ \A x \in Videos \ {v} : private'[x] = private[x]
      /\ private'[v] \in {0, private[v]}
      /\ row'[v].mode # "private" => private'[v] = 0
  BY UpdateFacts
<1>1. row \in [Videos -> RowType] /\ private \in [Videos -> 0..MediaTTL + 1] /\ changes \in 0..MaxChanges
  BY DEF AccessInv, AccessTypeOK
<1>2. AccessTypeOK'
  <2>1. row' \in [Videos -> RowType]
    BY <1>0, <1>1 DEF Succeeds
  <2>2. changes' \in 0..MaxChanges
    BY <1>1, AccessAssumption
  <2> QED
    BY <1>0, <2>1, <2>2 DEF AccessInv, AccessTypeOK, SetSlots
<1>3. CompatInStep'
  BY <1>0, <1>1 DEF Succeeds, InStep, AccessInv, CompatInStep
<1>4. SettersHavePassword'
  BY DEF AccessInv, SettersHavePassword, IdleHandler
<1>5. EpochsFit'
  <2>1. \A x \in Videos : row'[x].epoch <= changes'
    <3>1. \A x \in Videos : row[x].epoch \in Nat /\ row[x].epoch <= changes
      BY <1>1 DEF RowType, AccessInv, EpochsFit
    <3> QED
      BY <1>0, <1>1, <3>1 DEF Succeeds
  <2>2. \A c \in cookies : Fits(c.video, c.epoch, c.given)'
    BY <1>0, FitsStays DEF AccessInv, EpochsFit, AccessTypeOK, CookieType
  <2>3. \A u \in Unlockers :
           unlocker[u].pc # "idle" => Fits(unlocker[u].video, unlocker[u].epoch, unlocker[u].hash)'
    <3>1. \A u \in Unlockers : unlocker[u].pc # "idle" =>
             unlocker[u].video \in Videos /\ unlocker[u].epoch \in 0..MaxChanges
      BY DEF AccessInv, AccessTypeOK, IdleHandler
    <3> QED
      BY <1>0, <3>1, FitsStays DEF AccessInv, EpochsFit
  <2> QED
    BY <2>1, <2>2, <2>3 DEF EpochsFit, Fits
<1>6. PrivateSince'
  <2>1. \A w \in Viewers : viewer[w].pc # "idle" => viewer[w].video \in Videos
    BY DEF AccessInv, AccessTypeOK, IdleHandler
  <2>2. \A url \in urls : url.video \in Videos /\ url.age \in Nat
    BY DEF AccessInv, AccessTypeOK, UrlType
  <2>3. \A x \in Videos : private'[x] <= private[x] /\ (private[x] = 0 => private'[x] = 0)
    BY <1>0, <1>1
  <2>4. \A x \in Videos : row'[x].mode # "private" => private'[x] = 0
    BY <1>0, <1>1 DEF AccessInv, PrivateSince
  <2>5. \A url \in urls : private'[url.video] <= url.age
    BY <1>0, <1>1, <2>2, <2>3 DEF AccessInv, PrivateSince
  <2> QED
    BY <2>1, <2>3, <2>4, <2>5 DEF AccessInv, PrivateSince
<1>7. PoolCounts'
  BY DEF AccessInv, PoolCounts, pool
<1> QED
  BY <1>2, <1>3, <1>4, <1>5, <1>6, <1>7 DEF AccessInv

LEMMA RowsAre ==
    ASSUME AccessInv
    PROVE  /\ row \in [Videos -> RowType] /\ changes \in 0..MaxChanges
           /\ \A v \in Videos : row[v].epoch \in Nat /\ row[v].epoch <= changes
  BY DEF AccessInv, AccessTypeOK, EpochsFit, RowType

\* A patch of the visibility, and the UPDATE of set_access, as changes of a row.
LEMMA PatchChanges ==
    ASSUME AccessInv, NEW v \in Videos, NEW public \in BOOLEAN, PatchVisibility(v, public)
    PROVE  /\ AccessInv' /\ UNCHANGED cookies
           /\ Succeeds(row[v], row'[v]) /\ row' = [row EXCEPT ![v] = row'[v]]
<1> DEFINE new == [row[v] EXCEPT !.public = public]
<1>1. new \in RowType /\ new.mode = row[v].mode /\ new.hash = row[v].hash /\ new.epoch = row[v].epoch
  BY RowsAre DEF RowType
<1>2. /\ changes < MaxChanges /\ changes' = changes + 1 /\ Update(v, new)
      /\ UNCHANGED <<pool, setter, unlocker, viewer, cookies, urls>>
  BY DEF PatchVisibility
<1>3. setter' \in [Setters -> {IdleHandler} \cup SetSlots]
  BY <1>2 DEF AccessInv, AccessTypeOK, SetSlots
<1>4. AccessInv'
  BY <1>1, <1>2, <1>3, UpdateKeepsInv
<1>5. Succeeds(row[v], row'[v]) /\ row' = [row EXCEPT ![v] = row'[v]]
  BY <1>1, <1>2, UpdateFacts
<1> QED
  BY <1>2, <1>4, <1>5

LEMMA SetChanges ==
    ASSUME AccessInv, NEW s \in Setters, SetUpdate(s)
    PROVE  /\ AccessInv' /\ UNCHANGED cookies
           /\ LET v == setter[s].video
              IN  /\ v \in Videos /\ Succeeds(row[v], row'[v])
                  /\ row' = [row EXCEPT ![v] = row'[v]]
<1> DEFINE r == setter[s]
           hash == IF r.mode = "password" THEN [password |-> r.password, salt |-> changes] ELSE NoHash
           new == NewAccess(row[r.video], r.mode, hash)
<1>1. /\ r \in SetSlots /\ r.pc = "update"
      /\ r.mode = "password" => r.password \in Passwords
      /\ setter \in [Setters -> {IdleHandler} \cup SetSlots]
  BY DEF SetUpdate, AccessInv, AccessTypeOK, SettersHavePassword, IdleHandler, SetSlots
<1>2. r.video \in Videos /\ r.mode \in Modes
  BY <1>1 DEF SetSlots
<1>3. /\ changes < MaxChanges /\ changes' = changes + 1 /\ Update(r.video, new)
      /\ UNCHANGED <<pool, unlocker, viewer, cookies, urls>>
      /\ setter' = [setter EXCEPT ![s] = IdleHandler]
  BY DEF SetUpdate
<1>4. hash \in Hashes \cup {NoHash} /\ (hash # NoHash <=> r.mode = "password")
  <2>1. r.mode = "password" => [password |-> r.password, salt |-> changes] \in Hashes
    BY <1>1, RowsAre DEF Hashes
  <2>2. NoHash \notin Hashes
    BY AccessAssumption DEF Hashes
  <2> QED
    BY <2>1, <2>2
<1>5. /\ new \in RowType /\ new.public = row[r.video].public /\ new.mode = r.mode
      /\ new.hash = hash /\ new.epoch = row[r.video].epoch + 1
  <2>1. row[r.video] \in RowType /\ row[r.video].epoch + 1 \in 0..MaxChanges
    BY <1>2, <1>3, RowsAre, AccessAssumption
  <2> QED
    BY <1>2, <1>4, <2>1 DEF NewAccess, RowType
<1>6. /\ setter' \in [Setters -> {IdleHandler} \cup SetSlots]
      /\ \A x \in Setters : setter'[x] \in {setter[x], IdleHandler}
  BY <1>1, <1>3
<1>7. AccessInv'
  BY <1>2, <1>3, <1>4, <1>5, <1>6, UpdateKeepsInv
<1>8. Succeeds(row[r.video], row'[r.video]) /\ row' = [row EXCEPT ![r.video] = row'[r.video]]
  BY <1>2, <1>3, <1>4, <1>5, UpdateFacts
<1> QED
  BY <1>2, <1>3, <1>7, <1>8

-----------------------------------------------------------------------------
(* The steps that leave the rows alone.                                    *)

\* Permits, whatever becomes of a job.
LEMMA PoolStays ==
    ASSUME PoolCounts, Acquire \/ JobEnds \/ JobOrphaned \/ OrphanEnds \/ PoolRestart \/ UNCHANGED pool
    PROVE  PoolCounts'
  BY PoolAssumption
     DEF PoolCounts, Acquire, JobEnds, JobOrphaned, OrphanEnds, PoolRestart, pool

LEMMA SetterKeepsInv ==
    ASSUME AccessInv, NEW s \in Setters,
           \/ \E v \in Videos, mode \in Modes, password \in Passwords : SetBegin(s, v, mode, password)
           \/ SetAcquire(s) \/ SetJobEnds(s) \/ SetDropped(s)
    PROVE  AccessInv'
<1>0. UNCHANGED <<row, changes, unlocker, viewer, cookies, urls, private>>
  BY DEF SetBegin, SetAcquire, SetJobEnds, SetDropped
<1>1. PoolCounts'
  BY PoolStays DEF AccessInv, SetBegin, SetAcquire, SetJobEnds, SetDropped
<1>2. setter \in [Setters -> {IdleHandler} \cup SetSlots]
  BY DEF AccessInv, AccessTypeOK, SetSlots
<1>3. setter' \in [Setters -> {IdleHandler} \cup SetSlots] /\ SettersHavePassword'
  <2>1. ASSUME NEW v \in Videos, NEW mode \in Modes, NEW password \in Passwords,
               SetBegin(s, v, mode, password)
        PROVE  setter' \in [Setters -> {IdleHandler} \cup SetSlots] /\ SettersHavePassword'
    <3> DEFINE x == [pc |-> IF mode = "password" THEN "wait" ELSE "update", video |-> v, mode |-> mode,
                     password |-> IF mode = "password" THEN password ELSE NoHash]
    <3>1. x \in SetSlots /\ (x.mode = "password" => x.password \in Passwords)
      BY DEF SetSlots
    <3>2. setter' = [setter EXCEPT ![s] = x]
      BY <2>1 DEF SetBegin
    <3>3. setter'[s] = x /\ \A y \in Setters \ {s} : setter'[y] = setter[y]
      BY <1>2, <3>2
    <3> QED
      BY <1>2, <3>1, <3>2, <3>3 DEF AccessInv, SettersHavePassword
  <2>2. CASE SetAcquire(s) \/ SetJobEnds(s)
    <3>1. setter[s] \in SetSlots
      BY <1>2, <2>2 DEF SetAcquire, SetJobEnds, IdleHandler
    <3>2. PICK pc \in {"job", "update"} : setter' = [setter EXCEPT ![s].pc = pc]
      BY <2>2 DEF SetAcquire, SetJobEnds
    <3>3. /\ setter'[s] \in SetSlots /\ setter'[s].mode = setter[s].mode
          /\ setter'[s].password = setter[s].password
          /\ \A y \in Setters \ {s} : setter'[y] = setter[y]
      BY <1>2, <3>1, <3>2 DEF SetSlots
    <3>4. setter[s].pc # "idle"
      BY <3>1 DEF SetSlots
    <3> QED
      BY <1>2, <3>2, <3>3, <3>4 DEF AccessInv, SettersHavePassword
  <2>3. CASE SetDropped(s)
    <3>1. setter' = [setter EXCEPT ![s] = IdleHandler]
      BY <2>3 DEF SetDropped
    <3> QED
      BY <1>2, <3>1 DEF AccessInv, SettersHavePassword, IdleHandler
  <2> QED
    BY <2>1, <2>2, <2>3
<1>4. AccessTypeOK'
  BY <1>0, <1>3 DEF AccessInv, AccessTypeOK, SetSlots
<1>5. CompatInStep' /\ EpochsFit' /\ PrivateSince'
  BY <1>0 DEF AccessInv, CompatInStep, EpochsFit, Fits, PrivateSince
<1> QED
  BY <1>1, <1>3, <1>4, <1>5 DEF AccessInv

LEMMA UnlockerKeepsInv ==
    ASSUME AccessInv, NEW u \in Unlockers, UnlockStep(u)
    PROVE  AccessInv'
<1>0. UNCHANGED <<row, changes, setter, viewer, urls, private>>
  BY DEF UnlockStep, UnlockRead, UnlockAcquire, UnlockJobEnds, UnlockDropped
<1>1. PoolCounts'
  BY PoolStays DEF AccessInv, UnlockStep, UnlockRead, UnlockAcquire, UnlockJobEnds, UnlockDropped
<1>2. unlocker \in [Unlockers -> {IdleHandler} \cup UnlockSlots] /\ cookies \subseteq CookieType
  BY DEF AccessInv, AccessTypeOK, UnlockSlots
<1> DEFINE Good == /\ unlocker' \in [Unlockers -> {IdleHandler} \cup UnlockSlots]
                   /\ cookies' \subseteq CookieType
                   /\ \A c \in cookies' : Fits(c.video, c.epoch, c.given)
                   /\ \A x \in Unlockers : unlocker'[x].pc # "idle" =>
                        Fits(unlocker'[x].video, unlocker'[x].epoch, unlocker'[x].hash)
<1>3. /\ \A c \in cookies : Fits(c.video, c.epoch, c.given)
      /\ \A x \in Unlockers : unlocker[x].pc # "idle" =>
           Fits(unlocker[x].video, unlocker[x].epoch, unlocker[x].hash)
  BY DEF AccessInv, EpochsFit
<1>4. Good
  <2>1. ASSUME NEW v \in Videos, NEW password \in Passwords, UnlockRead(u, v, password)
        PROVE  Good
    <3> DEFINE x == [pc |-> "wait", video |-> v, password |-> password,
                     hash |-> row[v].hash, epoch |-> row[v].epoch]
    <3>1. x \in UnlockSlots /\ Fits(v, row[v].epoch, row[v].hash)
      BY <2>1, RowsAre DEF UnlockRead, UnlockSlots, RowType, Fits
    <3>2. unlocker' = [unlocker EXCEPT ![u] = x] /\ cookies' = cookies
      BY <2>1 DEF UnlockRead
    <3>3. unlocker'[u] = x /\ \A y \in Unlockers \ {u} : unlocker'[y] = unlocker[y]
      BY <1>2, <3>2
    <3> QED
      BY <1>2, <1>3, <3>1, <3>2, <3>3
  <2>2. CASE UnlockAcquire(u)
    <3>1. unlocker[u] \in UnlockSlots /\ unlocker[u].pc # "idle"
      BY <1>2, <2>2 DEF UnlockAcquire, IdleHandler
    <3>2. unlocker' = [unlocker EXCEPT ![u].pc = "job"] /\ cookies' = cookies
      BY <2>2 DEF UnlockAcquire
    <3>3. /\ unlocker'[u] \in UnlockSlots /\ unlocker'[u].video = unlocker[u].video
          /\ unlocker'[u].hash = unlocker[u].hash /\ unlocker'[u].epoch = unlocker[u].epoch
          /\ \A y \in Unlockers \ {u} : unlocker'[y] = unlocker[y]
      BY <1>2, <3>1, <3>2 DEF UnlockSlots
    <3> QED
      BY <1>2, <1>3, <3>1, <3>2, <3>3
  <2>3. CASE UnlockJobEnds(u)
    <3>1. unlocker[u] \in UnlockSlots /\ unlocker[u].pc # "idle"
      BY <1>2, <2>3 DEF UnlockJobEnds, IdleHandler
    <3>2. CookieFor(unlocker[u]) \in CookieType
      BY <3>1, AccessAssumption DEF CookieFor, CookieType, UnlockSlots
    <3>3. Fits(CookieFor(unlocker[u]).video, CookieFor(unlocker[u]).epoch, CookieFor(unlocker[u]).given)
      BY <1>3, <3>1 DEF CookieFor
    <3>4. /\ cookies' \subseteq cookies \cup {CookieFor(unlocker[u])}
          /\ unlocker' = [unlocker EXCEPT ![u] = IdleHandler]
      BY <2>3 DEF UnlockJobEnds
    <3> QED
      BY <1>2, <1>3, <3>2, <3>3, <3>4 DEF IdleHandler
  <2>4. CASE UnlockDropped(u)
    <3>1. unlocker' = [unlocker EXCEPT ![u] = IdleHandler] /\ cookies' = cookies
      BY <2>4 DEF UnlockDropped
    <3> QED
      BY <1>2, <1>3, <3>1 DEF IdleHandler
  <2> QED
    BY <2>1, <2>2, <2>3, <2>4 DEF UnlockStep
<1>5. AccessTypeOK'
  BY <1>0, <1>4 DEF AccessInv, AccessTypeOK, UnlockSlots
<1>6. CompatInStep' /\ SettersHavePassword' /\ PrivateSince'
  BY <1>0 DEF AccessInv, CompatInStep, SettersHavePassword, PrivateSince
<1>7. EpochsFit'
  BY <1>0, <1>4 DEF AccessInv, EpochsFit, Fits
<1> QED
  BY <1>1, <1>5, <1>6, <1>7 DEF AccessInv

LEMMA ViewerKeepsInv ==
    ASSUME AccessInv, NEW w \in Viewers, ViewStep(w)
    PROVE  AccessInv'
<1>0. UNCHANGED <<pool, row, changes, setter, unlocker, cookies, private>>
  BY DEF ViewStep, ViewRead, ViewSign, ViewDropped
<1>1. /\ viewer \in [Viewers -> {IdleHandler} \cup ViewSlots] /\ urls \subseteq UrlType
      /\ private \in [Videos -> 0..MediaTTL + 1]
  BY DEF AccessInv, AccessTypeOK, ViewSlots
<1> DEFINE Good == /\ viewer' \in [Viewers -> {IdleHandler} \cup ViewSlots] /\ urls' \subseteq UrlType
                   /\ \A x \in Viewers : viewer'[x].pc # "idle" => private[viewer'[x].video] = 0
                   /\ \A url \in urls' : private[url.video] <= url.age
<1>2. Good
  <2>1. ASSUME NEW v \in Videos, ViewRead(w, v)
        PROVE  Good
    <3> DEFINE x == [pc |-> "sign", video |-> v]
    <3>1. row[v].mode # "private"
      BY <2>1 DEF ViewRead, Allows
    <3>2. x \in ViewSlots /\ private[v] = 0
      BY <3>1 DEF ViewSlots, AccessInv, PrivateSince
    <3>3. viewer' = [viewer EXCEPT ![w] = x] /\ urls' = urls
      BY <2>1 DEF ViewRead
    <3>4. viewer'[w] = x /\ \A y \in Viewers \ {w} : viewer'[y] = viewer[y]
      BY <1>1, <3>3
    <3> QED
      BY <1>1, <3>2, <3>3, <3>4 DEF AccessInv, PrivateSince
  <2>2. CASE ViewSign(w)
    <3> DEFINE url == [video |-> viewer[w].video, age |-> 0]
    <3>1. viewer[w] \in ViewSlots /\ viewer[w].pc # "idle"
      BY <1>1, <2>2 DEF ViewSign, IdleHandler
    <3>2. url \in UrlType /\ private[url.video] <= url.age
      BY <3>1, AccessAssumption DEF UrlType, ViewSlots, AccessInv, PrivateSince
    <3>3. viewer' = [viewer EXCEPT ![w] = IdleHandler] /\ urls' = urls \cup {url}
      BY <2>2 DEF ViewSign
    <3> QED
      BY <1>1, <3>2, <3>3 DEF AccessInv, PrivateSince, IdleHandler
  <2>3. CASE ViewDropped(w)
    <3>1. viewer' = [viewer EXCEPT ![w] = IdleHandler] /\ urls' = urls
      BY <2>3 DEF ViewDropped
    <3> QED
      BY <1>1, <3>1 DEF AccessInv, PrivateSince, IdleHandler
  <2> QED
    BY <2>1, <2>2, <2>3 DEF ViewStep
<1>3. AccessTypeOK'
  BY <1>0, <1>2 DEF AccessInv, AccessTypeOK, ViewSlots
<1>4. PrivateSince'
  BY <1>0, <1>2 DEF AccessInv, PrivateSince
<1>5. CompatInStep' /\ SettersHavePassword' /\ EpochsFit' /\ PoolCounts'
  BY <1>0 DEF AccessInv, CompatInStep, SettersHavePassword, EpochsFit, Fits, PoolCounts, pool
<1> QED
  BY <1>3, <1>4, <1>5 DEF AccessInv

\* Ages grow together, up to the one that is too old.
LEMMA OlderBounds ==
    ASSUME NEW ttl \in Nat, NEW a \in 0..ttl + 1, NEW b \in 0..ttl + 1, a <= b
    PROVE  Older(a, ttl) \in 0..ttl + 1 /\ Older(a, ttl) <= Older(b, ttl) /\ 0 <= Older(b, ttl)
  BY DEF Older

LEMMA TickKeepsInv ==
    ASSUME AccessInv, AccessTick
    PROVE  AccessInv'
<1>0. UNCHANGED <<pool, row, changes, setter, unlocker, viewer>>
  BY DEF AccessTick
<1>1. /\ cookies \subseteq CookieType /\ urls \subseteq UrlType
      /\ private \in [Videos -> 0..MediaTTL + 1]
  BY DEF AccessInv, AccessTypeOK
<1>2. \A c \in CookieType :
          LET older == [c EXCEPT !.age = Older(c.age, AccessTTL)]
          IN  older \in CookieType /\ older.video = c.video /\ older.epoch = c.epoch /\ older.given = c.given
  <2> SUFFICES ASSUME NEW c \in CookieType
               PROVE  LET older == [c EXCEPT !.age = Older(c.age, AccessTTL)]
                      IN  older \in CookieType /\ older.video = c.video /\ older.epoch = c.epoch
                          /\ older.given = c.given
    OBVIOUS
  <2>1. Older(c.age, AccessTTL) \in 0..AccessTTL + 1
    BY AccessAssumption DEF Older, CookieType
  <2> QED
    BY <2>1 DEF CookieType
<1>3. \A c \in cookies' : c \in CookieType /\ Fits(c.video, c.epoch, c.given)
  <2> SUFFICES ASSUME NEW c \in cookies
               PROVE  LET older == [c EXCEPT !.age = Older(c.age, AccessTTL)]
                      IN  older \in CookieType /\ Fits(older.video, older.epoch, older.given)
    BY DEF AccessTick
  <2>1. c \in CookieType /\ Fits(c.video, c.epoch, c.given)
    BY <1>1 DEF AccessInv, EpochsFit
  <2> QED
    BY <1>2, <2>1
<1>4. \A v \in Videos : /\ private'[v] \in 0..MediaTTL + 1
                        /\ private'[v] \in {0, Older(private[v], MediaTTL)}
                        /\ row[v].mode # "private" => private'[v] = 0
  BY <1>1, AccessAssumption DEF AccessTick, Older
<1>5. private' \in [Videos -> 0..MediaTTL + 1]
  BY <1>4 DEF AccessTick
<1>6. \A url \in urls' : url \in UrlType /\ private'[url.video] <= url.age
  <2> SUFFICES ASSUME NEW url \in urls
               PROVE  LET older == [url EXCEPT !.age = Older(url.age, MediaTTL)]
                      IN  older \in UrlType /\ private'[older.video] <= older.age
    BY DEF AccessTick
  <2>1. url \in UrlType /\ private[url.video] <= url.age
    BY <1>1 DEF AccessInv, PrivateSince
  <2>2. url.video \in Videos /\ url.age \in 0..MediaTTL + 1
    BY <2>1 DEF UrlType
  <2>3. /\ Older(url.age, MediaTTL) \in 0..MediaTTL + 1
        /\ Older(private[url.video], MediaTTL) <= Older(url.age, MediaTTL)
    BY <1>1, <2>1, <2>2, OlderBounds, AccessAssumption DEF Older
  <2>4. private'[url.video] <= Older(url.age, MediaTTL)
    BY <1>4, <2>2, <2>3
  <2> QED
    BY <2>1, <2>3, <2>4 DEF UrlType
<1>7. AccessTypeOK'
  BY <1>0, <1>3, <1>5, <1>6 DEF AccessInv, AccessTypeOK
<1>8. PrivateSince'
  BY <1>0, <1>4, <1>6 DEF AccessTick, AccessInv, PrivateSince
<1>9. EpochsFit'
  BY <1>0, <1>3 DEF AccessInv, EpochsFit, Fits
<1>10. CompatInStep' /\ SettersHavePassword' /\ PoolCounts'
  BY <1>0 DEF AccessInv, CompatInStep, SettersHavePassword, PoolCounts, pool
<1> QED
  BY <1>7, <1>8, <1>9, <1>10 DEF AccessInv

LEMMA AccessInvStep ==
    ASSUME AccessInv, [AccessNext]_accessVars
    PROVE  AccessInv'
<1>1. ASSUME NEW s \in Setters, SetStep(s)
      PROVE  AccessInv'
  BY <1>1, SetterKeepsInv, SetChanges DEF SetStep
<1>2. CASE AccessOrphanEnds \/ UNCHANGED accessVars
  <2>1. UNCHANGED ownAccess /\ PoolCounts'
    BY <1>2, PoolStays DEF AccessInv, AccessOrphanEnds, accessVars
  <2> QED
    BY <2>1 DEF ownAccess, AccessInv, AccessTypeOK, CompatInStep, SettersHavePassword, EpochsFit, Fits,
                PrivateSince
<1>3. CASE AccessRestart
  <2>1. /\ UNCHANGED <<row, changes, cookies, urls, private>> /\ PoolCounts'
        /\ setter' = [s \in Setters |-> IdleHandler]
        /\ unlocker' = [u \in Unlockers |-> IdleHandler]
        /\ viewer' = [w \in Viewers |-> IdleHandler]
    BY <1>3, PoolStays DEF AccessInv, AccessRestart
  <2> QED
    BY <2>1 DEF AccessInv, AccessTypeOK, CompatInStep, SettersHavePassword, EpochsFit, Fits,
                PrivateSince, IdleHandler
<1> QED
  BY <1>1, <1>2, <1>3, PatchChanges, UnlockerKeepsInv, ViewerKeepsInv, TickKeepsInv DEF AccessNext

\* The inductive invariant of the access control (set_access, unlock and the
\* policy) holds in every reachable state.
THEOREM AccessCorrect == AccessSpec => []AccessInv
  BY AccessInvInit, AccessInvStep, PTL DEF AccessSpec

\* Every variable stays within its type, and an epoch within the changes.
THEOREM AccessTypeCorrect == AccessSpec => []AccessTypeOK
<1>1. AccessInv => AccessTypeOK
  BY DEF AccessInv
<1> QED
  BY <1>1, AccessCorrect, PTL

\* public, access_mode and the hash say the same, whichever statement set them.
THEOREM ColumnsInStep == AccessSpec => []CompatInStep
<1>1. AccessInv => CompatInStep
  BY DEF AccessInv
<1> QED
  BY <1>1, AccessCorrect, PTL

\* No job more than there are permits, and no permit lost.
THEOREM PermitsKept == AccessSpec => []HashJobsBounded
<1>1. AccessInv => HashJobsBounded
  BY PoolAssumption DEF AccessInv, PoolCounts, HashJobsBounded
<1> QED
  BY <1>1, AccessCorrect, PTL

\* What opens a recording was given for the password that it has now.
THEOREM CookiesFit == AccessSpec => []CookieFitsPassword
<1>1. AccessInv => CookieFitsPassword
  BY DEF AccessInv, EpochsFit, Fits, CookieFitsPassword, Opens, Verified
<1> QED
  BY <1>1, AccessCorrect, PTL

\* A recording that has been private for longer than a URL lives is served to
\* nobody.
THEOREM UrlsExpire == AccessSpec => []UrlsRunOut
<1>1. AccessInv => UrlsRunOut
  <2> SUFFICES ASSUME AccessInv, NEW url \in urls, Serves(url)
               PROVE  private[url.video] <= MediaTTL
    BY DEF UrlsRunOut
  <2>1. url.video \in Videos /\ url.age \in Nat /\ private[url.video] \in Nat
    BY DEF AccessInv, AccessTypeOK, UrlType
  <2> QED
    BY <2>1, AccessAssumption DEF AccessInv, PrivateSince, Serves, Fresh
<1> QED
  BY <1>1, AccessCorrect, PTL

-----------------------------------------------------------------------------
(* Every permit in use is that of a job, and every job has its handler, an *)
(* owner's or a visitor's, or is counted as an orphan.                     *)

SetJobs == {s \in Setters : setter[s].pc = "job"}
UnlockJobs == {u \in Unlockers : unlocker[u].pc = "job"}

JobsCounted ==
    /\ IsFiniteSet(SetJobs) /\ IsFiniteSet(UnlockJobs) /\ orphans \in Nat
    /\ running = Cardinality(SetJobs) + Cardinality(UnlockJobs) + orphans

LEMMA JobsCountedInit == AccessInit => JobsCounted
<1> SUFFICES ASSUME AccessInit PROVE JobsCounted
  OBVIOUS
<1>1. SetJobs = {} /\ UnlockJobs = {}
  BY DEF AccessInit, SetJobs, UnlockJobs, IdleHandler
<1> QED
  BY <1>1, FS_EmptySet DEF AccessInit, PoolInit, JobsCounted

\* What a step of one handler does to the set of jobs of its kind.
LEMMA SetJobsAfter ==
    ASSUME AccessInv, NEW s \in Setters, NEW x, setter' = [setter EXCEPT ![s] = x]
    PROVE  /\ x.pc = "job" => SetJobs' = SetJobs \cup {s}
           /\ x.pc # "job" => SetJobs' = SetJobs \ {s}
<1>1. setter'[s] = x /\ \A y \in Setters \ {s} : setter'[y] = setter[y]
  BY DEF AccessInv, AccessTypeOK
<1> QED
  BY <1>1 DEF SetJobs

LEMMA UnlockJobsAfter ==
    ASSUME AccessInv, NEW u \in Unlockers, NEW x, unlocker' = [unlocker EXCEPT ![u] = x]
    PROVE  /\ x.pc = "job" => UnlockJobs' = UnlockJobs \cup {u}
           /\ x.pc # "job" => UnlockJobs' = UnlockJobs \ {u}
<1>1. unlocker'[u] = x /\ \A y \in Unlockers \ {u} : unlocker'[y] = unlocker[y]
  BY DEF AccessInv, AccessTypeOK
<1> QED
  BY <1>1 DEF UnlockJobs

\* The jobs of one kind while those of the other stay: one begins, one ends,
\* one loses its handler, or none of this.
LEMMA PoolFollows ==
    ASSUME JobsCounted, NEW n \in Nat, NEW S, NEW T, NEW x,
           IsFiniteSet(S), running = Cardinality(S) + n + orphans,
           \/ Acquire /\ T = S \cup {x} /\ x \notin S
           \/ JobEnds /\ T = S \ {x} /\ x \in S
           \/ JobOrphaned /\ T = S \ {x} /\ x \in S
           \/ UNCHANGED pool /\ T = S
    PROVE  IsFiniteSet(T) /\ orphans' \in Nat /\ running' = Cardinality(T) + n + orphans'
<1>1. Cardinality(S) \in Nat /\ orphans \in Nat
  BY FS_CardinalityType DEF JobsCounted
<1>2. CASE Acquire /\ T = S \cup {x} /\ x \notin S
  <2>1. IsFiniteSet(T) /\ Cardinality(T) = Cardinality(S) + 1
    BY <1>2, FS_AddElement
  <2> QED
    BY <1>1, <1>2, <2>1 DEF Acquire
<1>3. CASE JobEnds /\ T = S \ {x} /\ x \in S
  <2>1. IsFiniteSet(T) /\ Cardinality(T) = Cardinality(S) - 1
    BY <1>3, FS_RemoveElement
  <2> QED
    BY <1>1, <1>3, <2>1 DEF JobEnds
<1>4. CASE JobOrphaned /\ T = S \ {x} /\ x \in S
  <2>1. IsFiniteSet(T) /\ Cardinality(T) = Cardinality(S) - 1
    BY <1>4, FS_RemoveElement
  <2> QED
    BY <1>1, <1>4, <2>1 DEF JobOrphaned
<1>5. CASE UNCHANGED pool /\ T = S
  BY <1>1, <1>5 DEF pool
<1> QED
  BY <1>2, <1>3, <1>4, <1>5

LEMMA SetJobsCounted ==
    ASSUME AccessInv, JobsCounted, NEW s \in Setters, SetStep(s)
    PROVE  JobsCounted'
<1>0. UNCHANGED unlocker /\ UnlockJobs' = UnlockJobs
  BY DEF SetStep, SetBegin, SetAcquire, SetJobEnds, SetUpdate, SetDropped, UnlockJobs
<1>1. \/ Acquire /\ SetJobs' = SetJobs \cup {s} /\ s \notin SetJobs
      \/ JobEnds /\ SetJobs' = SetJobs \ {s} /\ s \in SetJobs
      \/ JobOrphaned /\ SetJobs' = SetJobs \ {s} /\ s \in SetJobs
      \/ UNCHANGED pool /\ SetJobs' = SetJobs
  <2>0. setter \in [Setters -> {IdleHandler} \cup SetSlots] /\ IdleHandler.pc = "idle"
    BY DEF AccessInv, AccessTypeOK, SetSlots, IdleHandler
  <2>1. ASSUME NEW v \in Videos, NEW mode \in Modes, NEW password \in Passwords,
               SetBegin(s, v, mode, password)
        PROVE  UNCHANGED pool /\ SetJobs' = SetJobs
    <3> DEFINE x == [pc |-> IF mode = "password" THEN "wait" ELSE "update", video |-> v, mode |-> mode,
                     password |-> IF mode = "password" THEN password ELSE NoHash]
    <3>1. x.pc # "job" /\ setter' = [setter EXCEPT ![s] = x]
      BY <2>1 DEF SetBegin
    <3> HIDE DEF x
    <3> QED
      BY <2>1, <3>1, SetJobsAfter DEF SetBegin, SetJobs
  <2>2. ASSUME NEW pc \in {"job", "update"}, setter' = [setter EXCEPT ![s].pc = pc], setter[s].pc # "idle"
        PROVE  SetJobs' = IF pc = "job" THEN SetJobs \cup {s} ELSE SetJobs \ {s}
    <3> DEFINE x == [setter[s] EXCEPT !.pc = pc]
    <3>1. x.pc = pc
      BY <2>0, <2>2 DEF SetSlots
    <3>2. setter' = [setter EXCEPT ![s] = x]
      BY <2>2
    <3> HIDE DEF x
    <3> QED
      BY <3>1, <3>2, SetJobsAfter
  <2>3. setter' = [setter EXCEPT ![s] = IdleHandler] => SetJobs' = SetJobs \ {s}
    BY <2>0, SetJobsAfter
  <2>4. CASE SetAcquire(s)
    BY <2>2, <2>4 DEF SetAcquire, SetJobs
  <2>5. CASE SetJobEnds(s)
    BY <2>2, <2>5 DEF SetJobEnds, SetJobs
  <2>6. CASE SetUpdate(s)
    BY <2>3, <2>6 DEF SetUpdate, SetJobs
  <2>7. CASE SetDropped(s)
    BY <2>3, <2>7 DEF SetDropped, SetJobs
  <2> QED
    BY <2>1, <2>4, <2>5, <2>6, <2>7 DEF SetStep
<1>2. Cardinality(UnlockJobs) \in Nat /\ Cardinality(SetJobs) \in Nat /\ orphans \in Nat
  BY FS_CardinalityType DEF JobsCounted
<1>3. /\ IsFiniteSet(SetJobs') /\ orphans' \in Nat
      /\ running' = Cardinality(SetJobs') + Cardinality(UnlockJobs) + orphans'
  BY <1>1, <1>2, PoolFollows DEF JobsCounted
<1> QED
  BY <1>0, <1>3 DEF JobsCounted

LEMMA UnlockJobsCounted ==
    ASSUME AccessInv, JobsCounted, NEW u \in Unlockers, UnlockStep(u)
    PROVE  JobsCounted'
<1>0. UNCHANGED setter /\ SetJobs' = SetJobs
  BY DEF UnlockStep, UnlockRead, UnlockAcquire, UnlockJobEnds, UnlockDropped, SetJobs
<1>1. \/ Acquire /\ UnlockJobs' = UnlockJobs \cup {u} /\ u \notin UnlockJobs
      \/ JobEnds /\ UnlockJobs' = UnlockJobs \ {u} /\ u \in UnlockJobs
      \/ JobOrphaned /\ UnlockJobs' = UnlockJobs \ {u} /\ u \in UnlockJobs
      \/ UNCHANGED pool /\ UnlockJobs' = UnlockJobs
  <2>0. unlocker \in [Unlockers -> {IdleHandler} \cup UnlockSlots] /\ IdleHandler.pc = "idle"
    BY DEF AccessInv, AccessTypeOK, UnlockSlots, IdleHandler
  <2>1. ASSUME NEW v \in Videos, NEW password \in Passwords, UnlockRead(u, v, password)
        PROVE  UNCHANGED pool /\ UnlockJobs' = UnlockJobs
    <3> DEFINE x == [pc |-> "wait", video |-> v, password |-> password,
                     hash |-> row[v].hash, epoch |-> row[v].epoch]
    <3>1. x.pc # "job" /\ unlocker' = [unlocker EXCEPT ![u] = x]
      BY <2>1 DEF UnlockRead
    <3> HIDE DEF x
    <3> QED
      BY <2>1, <3>1, UnlockJobsAfter DEF UnlockRead, UnlockJobs
  <2>2. CASE UnlockAcquire(u)
    <3> DEFINE x == [unlocker[u] EXCEPT !.pc = "job"]
    <3>1. x.pc = "job"
      BY <2>0, <2>2 DEF UnlockSlots, UnlockAcquire
    <3>2. unlocker' = [unlocker EXCEPT ![u] = x]
      BY <2>2 DEF UnlockAcquire
    <3> HIDE DEF x
    <3> QED
      BY <2>2, <3>1, <3>2, UnlockJobsAfter DEF UnlockAcquire, UnlockJobs
  <2>3. unlocker' = [unlocker EXCEPT ![u] = IdleHandler] => UnlockJobs' = UnlockJobs \ {u}
    BY <2>0, UnlockJobsAfter
  <2>4. CASE UnlockJobEnds(u)
    BY <2>3, <2>4 DEF UnlockJobEnds, UnlockJobs
  <2>5. CASE UnlockDropped(u)
    BY <2>3, <2>5 DEF UnlockDropped, UnlockJobs
  <2> QED
    BY <2>1, <2>2, <2>4, <2>5 DEF UnlockStep
<1>2. Cardinality(UnlockJobs) \in Nat /\ Cardinality(SetJobs) \in Nat /\ orphans \in Nat
  BY FS_CardinalityType DEF JobsCounted
<1>3. /\ IsFiniteSet(UnlockJobs') /\ orphans' \in Nat
      /\ running' = Cardinality(UnlockJobs') + Cardinality(SetJobs) + orphans'
  <2>1. IsFiniteSet(UnlockJobs) /\ running = Cardinality(UnlockJobs) + Cardinality(SetJobs) + orphans
    BY <1>2 DEF JobsCounted
  <2> QED
    BY <1>1, <1>2, <2>1, PoolFollows
<1>4. Cardinality(UnlockJobs') \in Nat
  BY <1>3, FS_CardinalityType
<1> QED
  BY <1>0, <1>2, <1>3, <1>4 DEF JobsCounted

LEMMA JobsCountedStep ==
    ASSUME AccessInv, JobsCounted, [AccessNext]_accessVars
    PROVE  JobsCounted'
<1>1. ASSUME UNCHANGED <<pool, setter, unlocker>>
      PROVE  JobsCounted'
  BY <1>1 DEF JobsCounted, SetJobs, UnlockJobs, pool
<1>2. ASSUME \/ \E v \in Videos, public \in BOOLEAN : PatchVisibility(v, public)
             \/ \E w \in Viewers : ViewStep(w)
             \/ AccessTick \/ UNCHANGED accessVars
      PROVE  JobsCounted'
  BY <1>1, <1>2 DEF PatchVisibility, ViewStep, ViewRead, ViewSign, ViewDropped, AccessTick, accessVars,
                    ownAccess
<1>3. CASE AccessOrphanEnds
  <2>1. /\ UNCHANGED <<setter, unlocker>>
        /\ orphans > 0 /\ orphans' = orphans - 1 /\ running' = running - 1
    BY <1>3 DEF AccessOrphanEnds, OrphanEnds, ownAccess
  <2>2. SetJobs' = SetJobs /\ UnlockJobs' = UnlockJobs
    BY <2>1 DEF SetJobs, UnlockJobs
  <2>3. Cardinality(SetJobs) \in Nat /\ Cardinality(UnlockJobs) \in Nat
    BY FS_CardinalityType DEF JobsCounted
  <2> QED
    BY <2>1, <2>2, <2>3 DEF JobsCounted
<1>4. CASE AccessRestart
  <2>1. SetJobs' = {} /\ UnlockJobs' = {} /\ orphans' = 0 /\ running' = 0
    BY <1>4 DEF AccessRestart, PoolRestart, SetJobs, UnlockJobs, IdleHandler
  <2> QED
    BY <2>1, FS_EmptySet DEF JobsCounted
<1> QED
  BY <1>2, <1>3, <1>4, SetJobsCounted, UnlockJobsCounted DEF AccessNext

\* The permits in use are those of the jobs that hash an owner's password or
\* verify a visitor's, with their handler or without: however owners and
\* visitors wait for each other and go away, no permit is lost or given back
\* twice.
THEOREM AccessPermitsAccounted == AccessSpec => [](JobsCounted /\ PoolCounts)
<1>1. AccessInv => PoolCounts
  BY DEF AccessInv
<1> QED
  BY <1>1, JobsCountedInit, JobsCountedStep, AccessCorrect, PTL DEF AccessSpec
-----------------------------------------------------------------------------
(* Refinement: RecordingAccess implements AccessLock.                      *)

LEMMA LockInitially == AccessInit => Lock!LockInit
<1> SUFFICES ASSUME AccessInit PROVE Lock!LockInit
  OBVIOUS
<1>1. \A v \in Videos : LockOf(v) \in {NoLock("public"), NoLock("private")}
  BY DEF AccessInit, Inserted, LockOf
<1>2. \A v \in Videos : KeysOf(v) = {}
  BY DEF AccessInit, KeysOf
<1> QED
  BY <1>1, <1>2 DEF Lock!LockInit

LEMMA LockStutter ==
    ASSUME \A v \in Videos : LockOf(v)' = LockOf(v) /\ KeysOf(v)' = KeysOf(v)
    PROVE  UNCHANGED Lock!lockVars
  BY DEF Lock!lockVars

\* The keys of a recording were given for the lock that it has.
LEMMA KeysFitLock ==
    ASSUME AccessInv, NEW v \in Videos
    PROVE  /\ KeysOf(v) \subseteq {LockOf(v)}
           /\ row[v].mode = "password" => LockOf(v) = row[v].hash /\ LockOf(v) \in Hashes
<1>1. row[v].mode = "password" => row[v].hash \in Hashes
  BY RowsAre DEF RowType, AccessInv, CompatInStep
<1>2. \A c \in cookies : Opens(c, v) => c.given = row[v].hash /\ row[v].mode = "password"
  BY DEF AccessInv, EpochsFit, Fits, Opens, Verified
<1> QED
  BY <1>1, <1>2 DEF KeysOf, LockOf

LEMMA LockChanges ==
    ASSUME AccessInv, AccessInv', NEW v \in Videos, Succeeds(row[v], row'[v]),
           row' = [row EXCEPT ![v] = row'[v]], UNCHANGED cookies
    PROVE  [Lock!LockNext]_(Lock!lockVars)
<1>1. \A x \in Videos \ {v} : row'[x] = row[x]
  BY RowsAre
<1>2. \A x \in Videos \ {v} : LockOf(x)' = LockOf(x) /\ KeysOf(x)' = KeysOf(x)
  BY <1>1 DEF LockOf, KeysOf, Opens, Verified
<1>3. CASE row'[v].mode = row[v].mode /\ row'[v].hash = row[v].hash /\ row'[v].epoch = row[v].epoch
  <2>1. LockOf(v)' = LockOf(v) /\ KeysOf(v)' = KeysOf(v)
    BY <1>3 DEF LockOf, KeysOf, Opens, Verified
  <2> QED
    BY <1>2, <2>1, LockStutter
<1>4. CASE row'[v].epoch = row[v].epoch + 1
  <2>1. KeysOf(v)' = {}
    <3>1. \A c \in cookies : c.video = v => c.epoch # row'[v].epoch
      <4> SUFFICES ASSUME NEW c \in cookies, c.video = v PROVE c.epoch # row'[v].epoch
        OBVIOUS
      <4>1. c.epoch \in Nat /\ c.epoch <= row[v].epoch
        BY DEF AccessInv, AccessTypeOK, CookieType, EpochsFit, Fits
      <4> QED
        BY <1>4, <4>1, RowsAre
    <3> QED
      BY <3>1 DEF KeysOf, Opens, Verified
  <2>2. LockOf(v)' \in Hashes \cup {NoLock("public"), NoLock("private")}
    <3>1. row'[v].mode \in Modes /\ (row'[v].mode = "password" => row'[v].hash \in Hashes)
      BY DEF Succeeds, RowType, InStep
    <3> QED
      BY <3>1 DEF LockOf, Modes
  <2>3. Lock!Change(v, LockOf(v)')
    BY <1>2, <2>1 DEF Lock!Change
  <2> QED
    BY <2>2, <2>3 DEF Lock!LockNext
<1> QED
  BY <1>3, <1>4 DEF Succeeds

\* A cookie more: a key of the present lock, or none at all.
LEMMA KeyIsGiven ==
    ASSUME AccessInv, AccessInv', NEW u \in Unlockers, UnlockJobEnds(u)
    PROVE  [Lock!LockNext]_(Lock!lockVars)
<1> DEFINE c == CookieFor(unlocker[u])
<1>0. PICK v \in Videos : v = c.video
  <2>1. unlocker[u] \in UnlockSlots
    BY DEF UnlockJobEnds, IdleHandler, AccessInv, AccessTypeOK, UnlockSlots
  <2> QED
    BY <2>1 DEF CookieFor, UnlockSlots
<1>1. UNCHANGED row /\ cookies' \in {cookies, cookies \cup {c}}
  BY DEF UnlockJobEnds
<1>2. \A x \in Videos : LockOf(x)' = LockOf(x)
  BY <1>1 DEF LockOf
<1>3. CASE cookies' = cookies \/ ~Opens(c, v)
  <2>1. \A x \in Videos : KeysOf(x)' = KeysOf(x)
    <3>1. \A x \in Videos : Opens(c, x) => x = v
      BY <1>0 DEF Opens, Verified
    <3> QED
      BY <1>1, <1>3, <3>1 DEF KeysOf, Opens, Verified
  <2> QED
    BY <1>2, <2>1, LockStutter
<1>4. CASE cookies' = cookies \cup {c} /\ Opens(c, v)
  <2>2. row[v].mode = "password"
    BY <1>4 DEF Opens
  <2>3. LockOf(v) \in Hashes /\ KeysOf(v)' \subseteq {LockOf(v)}
    <3>1. c.given = row[v].hash
      BY <1>0, <1>4 DEF CookieFor, Opens, Verified, UnlockJobEnds, AccessInv, EpochsFit, Fits
    <3>2. KeysOf(v)' \subseteq KeysOf(v) \cup {c.given}
      BY <1>1, <1>4 DEF KeysOf, Opens, Verified
    <3> QED
      BY <2>2, <3>1, <3>2, KeysFitLock
  <2>4. KeysOf(v)' # {}
    BY <1>1, <1>4 DEF KeysOf, Opens, Verified
  <2>5. \A x \in Videos \ {v} : KeysOf(x)' = KeysOf(x)
    BY <1>0, <1>1, <1>4 DEF KeysOf, Opens, Verified
  <2>6. Lock!GiveKey(v)
    <3>1. KeysOf(v)' = {LockOf(v)}
      BY <2>3, <2>4
    <3> QED
      BY <1>2, <2>3, <2>5, <3>1 DEF Lock!GiveKey
  <2> QED
    BY <2>6 DEF Lock!LockNext
<1> QED
  BY <1>1, <1>3, <1>4

LEMMA KeysRunOut ==
    ASSUME AccessInv, AccessInv', AccessTick
    PROVE  Lock!RunOut
<1>1. \A x \in Videos : LockOf(x)' = LockOf(x)
  BY DEF AccessTick, LockOf
<1>2. \A x \in Videos : KeysOf(x)' \subseteq KeysOf(x)
  <2> SUFFICES ASSUME NEW x \in Videos, NEW k \in cookies', Opens(k, x)'
               PROVE  k.given \in KeysOf(x)
    BY DEF KeysOf
  <2>1. PICK c \in cookies : k = [c EXCEPT !.age = Older(c.age, AccessTTL)]
    BY DEF AccessTick
  <2>c. c \in CookieType
    BY DEF AccessInv, AccessTypeOK
  <2>2. /\ k.video = c.video /\ k.epoch = c.epoch /\ k.given = c.given
        /\ k.age = Older(c.age, AccessTTL)
    BY <2>1, <2>c DEF CookieType
  <2>3. row' = row
    BY DEF AccessTick
  <2>4. Older(c.age, AccessTTL) <= AccessTTL => c.age <= AccessTTL
    BY <2>c, AccessAssumption DEF Older, CookieType
  <2> QED
    BY <2>2, <2>3, <2>4 DEF KeysOf, Opens, Verified, Fresh
<1>3. \A x \in Videos : KeysOf(x)' = {} \/ KeysOf(x)' = KeysOf(x)
  BY <1>2, KeysFitLock
<1> DEFINE gone == {x \in Videos : KeysOf(x)' = {}}
<1>4. [x \in Videos |-> KeysOf(x)'] = [x \in Videos |-> IF x \in gone THEN {} ELSE KeysOf(x)]
  BY <1>3
<1> QED
  BY <1>1, <1>4 DEF Lock!RunOut

LEMMA LockStep ==
    ASSUME AccessInv, AccessInv', [AccessNext]_accessVars
    PROVE  [Lock!LockNext]_(Lock!lockVars)
<1>1. ASSUME UNCHANGED <<row, cookies>>
      PROVE  UNCHANGED Lock!lockVars
  BY <1>1, LockStutter DEF LockOf, KeysOf, Opens, Verified
<1>2. ASSUME NEW v \in Videos, NEW public \in BOOLEAN, PatchVisibility(v, public)
      PROVE  [Lock!LockNext]_(Lock!lockVars)
  <2>1. Succeeds(row[v], row'[v]) /\ row' = [row EXCEPT ![v] = row'[v]] /\ UNCHANGED cookies
    BY <1>2, PatchChanges
  <2> QED
    BY <2>1, LockChanges
<1>3. ASSUME NEW s \in Setters, SetUpdate(s)
      PROVE  [Lock!LockNext]_(Lock!lockVars)
  <2>1. PICK v \in Videos : /\ Succeeds(row[v], row'[v])
                            /\ row' = [row EXCEPT ![v] = row'[v]] /\ UNCHANGED cookies
    BY <1>3, SetChanges
  <2> QED
    BY <2>1, LockChanges
<1>4. CASE AccessTick
  BY <1>4, KeysRunOut DEF Lock!LockNext
<1>5. \/ \E v \in Videos, public \in BOOLEAN : PatchVisibility(v, public)
      \/ \E s \in Setters : SetUpdate(s)
      \/ \E u \in Unlockers : UnlockJobEnds(u)
      \/ AccessTick
      \/ UNCHANGED <<row, cookies>>
  BY DEF AccessNext, SetStep, UnlockStep, ViewStep, SetBegin, SetAcquire, SetJobEnds, SetDropped,
         UnlockRead, UnlockAcquire, UnlockDropped, ViewRead, ViewSign, ViewDropped,
         AccessOrphanEnds, AccessRestart, accessVars, ownAccess
<1> QED
  BY <1>1, <1>2, <1>3, <1>4, <1>5, KeyIsGiven

\* Cookies with epochs keep the promises of a lock whose keys are void once the
\* owner changes it, whatever requests interleave.
THEOREM LockImplemented == AccessSpec => ImplementsLock
<1>1. AccessInv /\ AccessInv' /\ [AccessNext]_accessVars => [Lock!LockNext]_(Lock!lockVars)
  BY LockStep
<1> QED
  BY <1>1, LockInitially, AccessCorrect, PTL DEF AccessSpec, ImplementsLock, Lock!LockSpec
=============================================================================
