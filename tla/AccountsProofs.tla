---------------------------- MODULE AccountsProofs ----------------------------
(***************************************************************************)
(* Theorems about Accounts: whoever was answered with success had the      *)
(* password of the account, and the permits under which passwords are      *)
(* hashed are neither exceeded nor lost, for any number of sign-ins.       *)
(***************************************************************************)
EXTENDS Accounts, FiniteSetTheorems, TLAPS

SignSlots == [pc : {"wait", "job", "insert", "proven", "redirect"}, request : Requests,
              row : Passwords \cup {NoPassword}, key : KeyIds \cup {NoKey}]

OwnTypes ==
    /\ users \in [Names -> Passwords \cup {NoPassword}]
    /\ keys \subseteq Keys
    /\ sign \in [Signers -> {Idle} \cup SignSlots]
    /\ welcomed \subseteq Names \X Passwords

\* An account that is there keeps its password: a row that was read is the row
\* that is there, and who has proved a password has proved that of the account.
\* The sign-in page has a key to mint.
Relies(x) ==
    /\ x.request.via = "desktop" => x.key \in KeyIds
    /\ x.row # NoPassword => users[x.request.name] = x.row
    /\ x.pc \in {"proven", "redirect"} => users[x.request.name] = x.request.password
SignersRely == \A s \in Signers : sign[s].pc # "idle" => Relies(sign[s])

PoolCounts == permits \in Nat /\ running \in Int /\ permits + running = Permits

AccountsInv == OwnTypes /\ SignersRely /\ SuccessIsProven /\ PoolCounts

LEMMA RequestParts ==
    ASSUME NEW r \in Requests
    PROVE  r.name \in Names /\ r.password \in Passwords
  BY DEF Requests

LEMMA SignerIs ==
    ASSUME OwnTypes, NEW s \in Signers, sign[s].pc # "idle"
    PROVE  /\ sign[s] \in SignSlots
           /\ sign[s].request.name \in Names /\ sign[s].request.password \in Passwords
<1>1. sign[s] \in SignSlots
  BY DEF OwnTypes, Idle
<1>2. sign[s].request \in Requests
  BY <1>1 DEF SignSlots
<1> QED
  BY <1>1, <1>2, RequestParts

LEMMA AccountsInvInit == AccountsInit => AccountsInv
  BY PoolAssumption
     DEF AccountsInit, PoolInit, AccountsInv, OwnTypes, SignersRely, SuccessIsProven, PoolCounts, Idle

\* A sign-in goes on to a state that relies on no more than what is there.
LEMMA SignGoes ==
    ASSUME AccountsInv, NEW s \in Signers, NEW x \in {Idle} \cup SignSlots,
           sign' = [sign EXCEPT ![s] = x], x.pc # "idle" => Relies(x), UNCHANGED users
    PROVE  sign' \in [Signers -> {Idle} \cup SignSlots] /\ SignersRely'
<1>1. sign \in [Signers -> {Idle} \cup SignSlots]
  BY DEF AccountsInv, OwnTypes
<1>2. sign'[s] = x /\ \A y \in Signers \ {s} : sign'[y] = sign[y]
  BY <1>1
<1>3. \A y : Relies(y) => Relies(y)'
  BY DEF Relies
<1> QED
  BY <1>1, <1>2, <1>3 DEF AccountsInv, SignersRely, Relies

LEMMA PoolStays ==
    ASSUME PoolCounts, Acquire \/ JobEnds \/ JobOrphaned \/ OrphanEnds \/ PoolRestart \/ UNCHANGED pool
    PROVE  PoolCounts'
  BY PoolAssumption
     DEF PoolCounts, Acquire, JobEnds, JobOrphaned, OrphanEnds, PoolRestart, pool

LEMMA GoesFacts ==
    ASSUME NEW s \in Signers, sign[s] \in SignSlots,
           NEW pc \in {"wait", "job", "insert", "proven", "redirect"}
    PROVE  LET x == [sign[s] EXCEPT !.pc = pc]
           IN  x \in SignSlots /\ x.pc = pc /\ x.row = sign[s].row
               /\ x.request = sign[s].request /\ x.key = sign[s].key
  BY DEF SignSlots

LEMMA SignEnds ==
    ASSUME AccountsInv, NEW s \in Signers, Ends(s), UNCHANGED users
    PROVE  sign' \in [Signers -> {Idle} \cup SignSlots] /\ SignersRely'
<1>1. Idle.pc = "idle"
  BY DEF Idle
<1> QED
  BY <1>1, SignGoes DEF Ends

\* The steps of a sign-in before it has proved anything.
LEMMA ProvingKeepsInv ==
    ASSUME AccountsInv, NEW s \in Signers,
           \/ \E r \in Requests, k \in KeyIds \cup {NoKey} : SignBegin(s, r, k)
           \/ SignAcquire(s) \/ SignJobEnds(s) \/ SignDropped(s)
    PROVE  AccountsInv'
<1>0. UNCHANGED <<users, keys, welcomed>>
  BY DEF SignBegin, SignAcquire, SignJobEnds, SignDropped
<1>1. PoolCounts'
  BY PoolStays DEF AccountsInv, SignBegin, SignAcquire, SignJobEnds, SignDropped
<1>2. sign' \in [Signers -> {Idle} \cup SignSlots] /\ SignersRely'
  <2>1. ASSUME NEW r \in Requests, NEW k \in KeyIds \cup {NoKey}, SignBegin(s, r, k)
        PROVE  sign' \in [Signers -> {Idle} \cup SignSlots] /\ SignersRely'
    <3> DEFINE x == [pc |-> "wait", request |-> r, row |-> users[r.name], key |-> k]
    <3>1. x \in SignSlots
      BY RequestParts DEF SignSlots, AccountsInv, OwnTypes
    <3>2. Relies(x)
      BY <2>1 DEF Relies, SignBegin, FreshKeys
    <3>3. sign' = [sign EXCEPT ![s] = x]
      BY <2>1 DEF SignBegin
    <3> QED
      BY <1>0, <3>1, <3>2, <3>3, SignGoes
  <2>2. CASE SignAcquire(s)
    <3>1. sign[s] \in SignSlots /\ Relies(sign[s])
      BY <2>2, SignerIs DEF SignAcquire, AccountsInv, SignersRely
    <3> DEFINE x == [sign[s] EXCEPT !.pc = "job"]
    <3>2. x \in SignSlots /\ Relies(x)
      BY <3>1, GoesFacts DEF Relies
    <3>3. sign' = [sign EXCEPT ![s] = x]
      BY <2>2 DEF SignAcquire, Goes
    <3> QED
      BY <1>0, <3>2, <3>3, SignGoes
  <2>3. CASE SignJobEnds(s) /\ ~Ends(s)
    <3>1. sign[s] \in SignSlots /\ Relies(sign[s]) /\ sign[s].request.password \in Passwords
      BY <2>3, SignerIs DEF SignJobEnds, AccountsInv, SignersRely
    <3>2. PICK pc \in {"insert", "proven"} :
             /\ Goes(s, pc)
             /\ pc = "proven" => sign[s].row = sign[s].request.password
      BY <2>3 DEF SignJobEnds
    <3> DEFINE x == [sign[s] EXCEPT !.pc = pc]
    <3>3. x \in SignSlots /\ x.pc = pc /\ x.row = sign[s].row /\ x.request = sign[s].request /\ x.key = sign[s].key
      BY <3>1 DEF SignSlots
    <3>4. sign' = [sign EXCEPT ![s] = x]
      BY <3>2 DEF Goes
    <3> HIDE DEF x
    <3>5. Relies(x)
      BY <3>1, <3>2, <3>3, AccountsAssumption DEF Relies
    <3> QED
      BY <1>0, <3>3, <3>4, <3>5, SignGoes
  <2>4. CASE Ends(s)
    BY <1>0, <2>4, SignEnds
  <2> QED
    BY <2>1, <2>2, <2>3, <2>4 DEF SignDropped
<1>3. OwnTypes' /\ SuccessIsProven'
  BY <1>0, <1>2 DEF AccountsInv, OwnTypes, SuccessIsProven
<1> QED
  BY <1>1, <1>2, <1>3 DEF AccountsInv

LEMMA RegisterKeepsInv ==
    ASSUME AccountsInv, NEW s \in Signers, Register(s)
    PROVE  AccountsInv'
<1> DEFINE r == sign[s].request
<1>0. UNCHANGED <<pool, keys, welcomed>>
  BY DEF Register
<1>1. PoolCounts'
  BY <1>0 DEF AccountsInv, PoolCounts, pool
<1>2. sign[s] \in SignSlots /\ r.name \in Names /\ r.password \in Passwords /\ Relies(sign[s])
  BY SignerIs DEF Register, AccountsInv, SignersRely
<1>3. CASE users[r.name] # NoPassword
  <2>1. Ends(s) /\ UNCHANGED users
    BY <1>3 DEF Register
  <2>2. sign' \in [Signers -> {Idle} \cup SignSlots] /\ SignersRely'
    BY <2>1, SignEnds
  <2> QED
    BY <1>0, <1>1, <2>1, <2>2 DEF AccountsInv, OwnTypes, SuccessIsProven
<1>4. CASE users[r.name] = NoPassword
  <2> DEFINE x == [sign[s] EXCEPT !.pc = "proven"]
  <2>1. users' = [users EXCEPT ![r.name] = r.password] /\ sign' = [sign EXCEPT ![s] = x]
    BY <1>4 DEF Register, Goes
  <2>2. /\ users' \in [Names -> Passwords \cup {NoPassword}]
        /\ users'[r.name] = r.password
        /\ \A n \in Names : users[n] # NoPassword => users'[n] = users[n]
    BY <1>2, <1>4, <2>1 DEF AccountsInv, OwnTypes
  <2>3. x \in SignSlots /\ x.request = r /\ x.row = sign[s].row /\ x.key = sign[s].key
    BY <1>2, GoesFacts
  <2>4. sign' \in [Signers -> {Idle} \cup SignSlots]
        /\ sign'[s] = x /\ \A y \in Signers \ {s} : sign'[y] = sign[y]
    BY <2>1, <2>3 DEF AccountsInv, OwnTypes
  <2>5. ASSUME NEW y \in Signers, sign[y].pc # "idle"
        PROVE  Relies(sign[y])'
               \/ y = s
    <3>1. sign[y] \in SignSlots /\ sign[y].request.name \in Names /\ sign[y].request.password \in Passwords
      BY <2>5, SignerIs DEF AccountsInv
    <3>2. Relies(sign[y])
      BY <2>5 DEF AccountsInv, SignersRely
    <3> QED
      BY <2>2, <2>4, <3>1, <3>2, AccountsAssumption DEF Relies, SignSlots
  <2>6. Relies(sign[s])'
    <3>1. sign[s].row = NoPassword
      BY <1>2, <1>4 DEF Relies
    <3> QED
      BY <1>2, <2>2, <2>3, <2>4, <3>1 DEF Relies
  <2>7. SignersRely'
    BY <2>4, <2>5, <2>6 DEF SignersRely
  <2>8. SuccessIsProven'
    <3>1. \A w \in welcomed : w[1] \in Names /\ w[2] \in Passwords
      BY DEF AccountsInv, OwnTypes
    <3>2. \A k \in keys : k.name \in Names /\ k.password \in Passwords
      BY DEF AccountsInv, OwnTypes, Keys
    <3> QED
      BY <1>0, <2>2, <3>1, <3>2, AccountsAssumption DEF AccountsInv, SuccessIsProven
  <2> QED
    BY <1>0, <1>1, <2>2, <2>4, <2>7, <2>8 DEF AccountsInv, OwnTypes
<1> QED
  BY <1>3, <1>4

\* The answers, and the key that is minted before one of them: the password
\* that they record has been proved.
LEMMA AnswersKeepInv ==
    ASSUME AccountsInv, NEW s \in Signers, AnswerToken(s) \/ Mint(s) \/ AnswerKey(s)
    PROVE  AccountsInv'
<1> DEFINE r == sign[s].request
<1>0. UNCHANGED <<pool, users>>
  BY DEF AnswerToken, Mint, AnswerKey
<1>1. PoolCounts'
  BY <1>0 DEF AccountsInv, PoolCounts, pool
<1>2. /\ sign[s] \in SignSlots /\ r.name \in Names /\ r.password \in Passwords
      /\ Relies(sign[s]) /\ users[r.name] = r.password
  BY SignerIs DEF AnswerToken, Mint, AnswerKey, AccountsInv, SignersRely, Relies
<1>3. sign' \in [Signers -> {Idle} \cup SignSlots] /\ SignersRely'
  <2>1. CASE Ends(s)
    BY <1>0, <2>1, SignEnds
  <2>2. CASE Mint(s)
    <3> DEFINE x == [sign[s] EXCEPT !.pc = "redirect"]
    <3>1. x \in SignSlots /\ x.row = sign[s].row /\ x.request = sign[s].request /\ x.key = sign[s].key
      BY <1>2 DEF SignSlots
    <3>2. sign' = [sign EXCEPT ![s] = x]
      BY <2>2 DEF Mint, Goes
    <3> HIDE DEF x
    <3>3. Relies(x)
      BY <1>2, <3>1 DEF Relies
    <3> QED
      BY <1>0, <3>1, <3>2, <3>3, SignGoes
  <2> QED
    BY <2>1, <2>2 DEF AnswerToken, AnswerKey
<1>4. /\ welcomed' \in SUBSET (Names \X Passwords)
      /\ \A w \in welcomed' : users[w[1]] = w[2]
  <2>1. welcomed' = welcomed \/ welcomed' = welcomed \cup {<<r.name, r.password>>}
    BY DEF AnswerToken, Mint, AnswerKey
  <2> HIDE DEF r
  <2> QED
    BY <1>2, <2>1 DEF AccountsInv, OwnTypes, SuccessIsProven
<1>5. keys' \in SUBSET Keys /\ \A k \in keys' : users[k.name] = k.password
  <2>1. CASE UNCHANGED keys
    BY <2>1 DEF AccountsInv, OwnTypes, SuccessIsProven
  <2>2. CASE Mint(s)
    <3> DEFINE new == [id |-> sign[s].key, name |-> r.name, password |-> r.password]
    <3>1. keys' = keys \cup {new}
      BY <2>2 DEF Mint
    <3>2. sign[s].key \in KeyIds
      BY <1>2, <2>2 DEF Mint, Relies
    <3>3. new \in Keys /\ users[new.name] = new.password
      BY <1>2, <3>2 DEF Keys
    <3> HIDE DEF new
    <3> QED
      BY <3>1, <3>3 DEF AccountsInv, OwnTypes, SuccessIsProven
  <2> QED
    BY <2>1, <2>2 DEF AnswerToken, AnswerKey
<1> QED
  BY <1>0, <1>1, <1>3, <1>4, <1>5 DEF AccountsInv, OwnTypes, SuccessIsProven

LEMMA AccountsInvStep == AccountsInv /\ [AccountsNext]_accountsVars => AccountsInv'
<1> SUFFICES ASSUME AccountsInv, [AccountsNext]_accountsVars
             PROVE  AccountsInv'
  OBVIOUS
<1>1. ASSUME NEW s \in Signers, NEW r \in Requests, NEW k \in KeyIds \cup {NoKey}, SignBegin(s, r, k)
      PROVE  AccountsInv'
  BY <1>1, ProvingKeepsInv
<1>2. ASSUME NEW s \in Signers, SignAcquire(s) \/ SignDropped(s)
      PROVE  AccountsInv'
  BY <1>2, ProvingKeepsInv
<1>3. ASSUME NEW s \in Signers, SignGoesOn(s)
      PROVE  AccountsInv'
  BY <1>3, ProvingKeepsInv, RegisterKeepsInv, AnswersKeepInv DEF SignGoesOn
<1>4. ASSUME NEW n \in Names, NEW k \in Keys, Revoke(n, k)
      PROVE  AccountsInv'
  BY <1>4 DEF Revoke, pool, AccountsInv, OwnTypes, SignersRely, Relies, SuccessIsProven, PoolCounts
<1>5. CASE AccountsTick \/ UNCHANGED accountsVars
  BY <1>5 DEF AccountsTick, accountsVars, ownAccounts, pool, AccountsInv, OwnTypes, SignersRely,
              Relies, SuccessIsProven, PoolCounts
<1>6. CASE AccountsOrphanEnds
  BY <1>6, PoolStays
     DEF AccountsOrphanEnds, ownAccounts, AccountsInv, OwnTypes, SignersRely, Relies, SuccessIsProven
<1>7. CASE AccountsRestart
  BY <1>7, PoolStays
     DEF AccountsRestart, AccountsInv, OwnTypes, SignersRely, Idle, SuccessIsProven
<1> QED
  BY <1>1, <1>2, <1>3, <1>4, <1>5, <1>6, <1>7 DEF AccountsNext

\* The inductive invariant holds in every reachable state.
THEOREM AccountsCorrect == AccountsSpec => []AccountsInv
  BY AccountsInvInit, AccountsInvStep, PTL DEF AccountsSpec

\* Whoever was answered with success, and every key that is stored, had the
\* password that the account really has, however registrations of one name
\* race (the unique name of register_user, login_user, mint_api_key).
THEOREM SignInsProven == AccountsSpec => []SuccessIsProven
<1>1. AccountsInv => SuccessIsProven
  BY DEF AccountsInv
<1> QED
  BY <1>1, AccountsCorrect, PTL

\* Under sign-ins alone, too, no more than Permits passwords are hashed at a
\* time and no permit is lost (ARGON2_JOBS).
THEOREM SignInPermitsKept == AccountsSpec => []HashJobsBounded
<1>1. AccountsInv => HashJobsBounded
  BY PoolAssumption DEF AccountsInv, PoolCounts, HashJobsBounded
<1> QED
  BY <1>1, AccountsCorrect, PTL
-----------------------------------------------------------------------------
(* Every permit in use is that of a job, and every job has its handler or  *)
(* is counted as an orphan: this is what keeps the numbers from falling    *)
(* below 0 when a job ends.                                                *)

Jobs == {s \in Signers : sign[s].pc = "job"}

JobsCounted ==
    /\ IsFiniteSet(Jobs) /\ orphans \in Nat
    /\ running = Cardinality(Jobs) + orphans

\* A key that a redirect is about to carry is stored.
KeysMinted ==
    /\ minted \subseteq KeyIds /\ delivered \subseteq minted
    /\ \A s \in Signers : sign[s].pc = "redirect" => sign[s].key \in minted

ClockTypes == poolFaults \in 0..PoolFaults /\ token \in [Names -> 0..JwtTTL + 1]

LEMMA JobsType ==
    ASSUME PoolCounts, JobsCounted
    PROVE  /\ Cardinality(Jobs) \in Nat
           /\ permits \in 0..Permits /\ running \in 0..Permits /\ orphans \in 0..Permits
<1>1. Cardinality(Jobs) \in Nat
  BY FS_CardinalityType DEF JobsCounted
<1> QED
  BY <1>1, PoolAssumption DEF PoolCounts, JobsCounted

\* What a handler does to the set of jobs.
LEMMA JobsAfter ==
    ASSUME OwnTypes, NEW s \in Signers, NEW x, sign' = [sign EXCEPT ![s] = x]
    PROVE  /\ x.pc = "job" => Jobs' = Jobs \cup {s}
           /\ x.pc # "job" => Jobs' = Jobs \ {s}
<1>1. sign'[s] = x /\ \A y \in Signers \ {s} : sign'[y] = sign[y]
  BY DEF OwnTypes
<1> QED
  BY <1>1 DEF Jobs

LEMMA GoesJobs ==
    ASSUME OwnTypes, NEW s \in Signers, sign[s].pc # "idle",
           NEW pc \in {"wait", "job", "insert", "proven", "redirect"}, Goes(s, pc)
    PROVE  Jobs' = IF pc = "job" THEN Jobs \cup {s} ELSE Jobs \ {s}
<1> DEFINE x == [sign[s] EXCEPT !.pc = pc]
<1>1. x.pc = pc
  BY SignerIs, GoesFacts
<1>2. sign' = [sign EXCEPT ![s] = x]
  BY DEF Goes
<1> HIDE DEF x
<1> QED
  BY <1>1, <1>2, JobsAfter

LEMMA EndsJobs ==
    ASSUME OwnTypes, NEW s \in Signers, Ends(s)
    PROVE  Jobs' = Jobs \ {s}
<1>1. Idle.pc # "job"
  BY DEF Idle
<1>2. sign' = [sign EXCEPT ![s] = Idle]
  BY DEF Ends
<1> QED
  BY <1>1, <1>2, JobsAfter

LEMMA JobsCountedStep ==
    ASSUME AccountsInv, JobsCounted, [AccountsNext]_accountsVars
    PROVE  JobsCounted'
<1>0. /\ OwnTypes /\ PoolCounts
      /\ Cardinality(Jobs) \in Nat /\ orphans \in Nat
      /\ IsFiniteSet(Jobs) /\ running = Cardinality(Jobs) + orphans
  BY JobsType DEF AccountsInv, JobsCounted
<1>1. ASSUME UNCHANGED pool, Jobs' = Jobs
      PROVE  JobsCounted'
  BY <1>1 DEF JobsCounted, pool
<1>2. ASSUME NEW s \in Signers, Jobs' = Jobs \ {s}, s \notin Jobs, UNCHANGED pool
      PROVE  JobsCounted'
  <2>1. Jobs' = Jobs
    BY <1>2
  <2> QED
    BY <1>1, <1>2, <2>1
<1>3. ASSUME NEW s \in Signers, NEW r \in Requests, NEW k \in KeyIds \cup {NoKey}, SignBegin(s, r, k)
      PROVE  JobsCounted'
  <2> DEFINE x == [pc |-> "wait", request |-> r, row |-> users[r.name], key |-> k]
  <2>1. Jobs' = Jobs \ {s}
    <3>1. x.pc # "job" /\ sign' = [sign EXCEPT ![s] = x]
      BY <1>3 DEF SignBegin
    <3> HIDE DEF x
    <3> QED
      BY <1>0, <3>1, JobsAfter
  <2> QED
    BY <1>2, <1>3, <2>1 DEF SignBegin, Jobs
<1>4. ASSUME NEW s \in Signers, SignAcquire(s)
      PROVE  JobsCounted'
  <2>1. Jobs' = Jobs \cup {s} /\ s \notin Jobs
    BY <1>0, <1>4, GoesJobs DEF SignAcquire, Jobs
  <2>2. IsFiniteSet(Jobs') /\ Cardinality(Jobs') = Cardinality(Jobs) + 1
    BY <1>0, <2>1, FS_AddElement
  <2>3. orphans' = orphans /\ running' = running + 1
    BY <1>4 DEF SignAcquire, Acquire
  <2> QED
    BY <1>0, <2>2, <2>3 DEF JobsCounted
<1>5. ASSUME NEW s \in Signers, SignJobEnds(s)
      PROVE  JobsCounted'
  <2>1. Jobs' = Jobs \ {s} /\ s \in Jobs
    BY <1>0, <1>5, GoesJobs, EndsJobs DEF SignJobEnds, Jobs
  <2>2. IsFiniteSet(Jobs') /\ Cardinality(Jobs') = Cardinality(Jobs) - 1
    BY <1>0, <2>1, FS_RemoveElement
  <2>3. orphans' = orphans /\ running' = running - 1
    BY <1>5 DEF SignJobEnds, JobEnds
  <2> QED
    BY <1>0, <2>2, <2>3 DEF JobsCounted
<1>6. ASSUME NEW s \in Signers, Register(s) \/ AnswerToken(s) \/ Mint(s) \/ AnswerKey(s)
      PROVE  JobsCounted'
  <2>1. Jobs' = Jobs \ {s}
    BY <1>0, <1>6, GoesJobs, EndsJobs DEF Register, AnswerToken, Mint, AnswerKey
  <2>2. s \notin Jobs
    BY <1>6 DEF Jobs, Register, AnswerToken, Mint, AnswerKey
  <2>3. UNCHANGED pool
    BY <1>6 DEF Register, AnswerToken, Mint, AnswerKey
  <2> QED
    BY <1>2, <2>1, <2>2, <2>3
<1>7. ASSUME NEW s \in Signers, SignDropped(s)
      PROVE  JobsCounted'
  <2>1. Jobs' = Jobs \ {s}
    BY <1>0, <1>7, EndsJobs DEF SignDropped
  <2>2. CASE sign[s].pc = "job"
    <3>1. IsFiniteSet(Jobs') /\ Cardinality(Jobs') = Cardinality(Jobs) - 1
      BY <1>0, <2>1, <2>2, FS_RemoveElement DEF Jobs
    <3>2. orphans' = orphans + 1 /\ running' = running
      BY <1>7, <2>2 DEF SignDropped, JobOrphaned
    <3> QED
      BY <1>0, <3>1, <3>2 DEF JobsCounted
  <2>3. CASE sign[s].pc # "job"
    BY <1>2, <1>7, <2>1, <2>3 DEF SignDropped, Jobs
  <2> QED
    BY <2>2, <2>3
<1>8. ASSUME \/ \E n \in Names, k \in Keys : Revoke(n, k)
             \/ AccountsTick \/ UNCHANGED accountsVars
      PROVE  JobsCounted'
  <2>1. UNCHANGED <<sign, pool>>
    BY <1>8 DEF Revoke, AccountsTick, accountsVars, ownAccounts
  <2> QED
    BY <1>1, <2>1 DEF Jobs
<1>9. CASE AccountsOrphanEnds
  <2>1. sign' = sign /\ orphans > 0 /\ orphans' = orphans - 1 /\ running' = running - 1
    BY <1>9 DEF AccountsOrphanEnds, OrphanEnds, ownAccounts
  <2>2. Jobs' = Jobs
    BY <2>1 DEF Jobs
  <2> QED
    BY <1>0, <2>1, <2>2 DEF JobsCounted
<1>10. CASE AccountsRestart
  <2>1. Jobs' = {} /\ orphans' = 0 /\ running' = 0
    BY <1>10 DEF AccountsRestart, PoolRestart, Jobs, Idle
  <2> QED
    BY <2>1, FS_EmptySet DEF JobsCounted
<1> QED
  BY <1>3, <1>4, <1>5, <1>6, <1>7, <1>8, <1>9, <1>10 DEF AccountsNext, SignGoesOn

LEMMA KeysMintedStep ==
    ASSUME AccountsInv, KeysMinted, [AccountsNext]_accountsVars
    PROVE  KeysMinted'
<1>0. OwnTypes
  BY DEF AccountsInv
<1>1. ASSUME NEW s \in Signers, NEW x, sign' = [sign EXCEPT ![s] = x],
             x.pc = "redirect" => x.key \in minted', minted \subseteq minted'
      PROVE  \A y \in Signers : sign'[y].pc = "redirect" => sign'[y].key \in minted'
  BY <1>0, <1>1 DEF KeysMinted, OwnTypes
<1>2. ASSUME NEW s \in Signers, NEW r \in Requests, NEW k \in KeyIds \cup {NoKey}, SignBegin(s, r, k)
      PROVE  KeysMinted'
  BY <1>1, <1>2 DEF SignBegin, KeysMinted
<1>3. ASSUME NEW s \in Signers, Ends(s), UNCHANGED minted, delivered' \subseteq minted
      PROVE  KeysMinted'
  BY <1>1, <1>3 DEF Ends, Idle, KeysMinted
<1>4. ASSUME NEW s \in Signers, sign[s].pc # "idle", NEW pc \in {"job", "insert", "proven"}, Goes(s, pc),
             UNCHANGED <<minted, delivered>>
      PROVE  KeysMinted'
  <2> DEFINE x == [sign[s] EXCEPT !.pc = pc]
  <2>1. x.pc = pc
    BY <1>0, <1>4, SignerIs, GoesFacts
  <2>2. sign' = [sign EXCEPT ![s] = x]
    BY <1>4 DEF Goes
  <2> HIDE DEF x
  <2> QED
    BY <1>1, <1>4, <2>1, <2>2 DEF KeysMinted
<1>5. ASSUME NEW s \in Signers, SignAcquire(s) \/ SignJobEnds(s) \/ Register(s)
      PROVE  KeysMinted'
  <2>1. UNCHANGED <<minted, delivered>> /\ sign[s].pc # "idle"
    BY <1>5 DEF SignAcquire, SignJobEnds, Register
  <2>2. Goes(s, "job") \/ Goes(s, "insert") \/ Goes(s, "proven") \/ Ends(s)
    BY <1>5 DEF SignAcquire, SignJobEnds, Register
  <2>3. delivered' \subseteq minted
    BY <2>1 DEF KeysMinted
  <2> QED
    BY <1>3, <1>4, <2>1, <2>2, <2>3
<1>6. ASSUME NEW s \in Signers, Mint(s)
      PROVE  KeysMinted'
  <2> DEFINE x == [sign[s] EXCEPT !.pc = "redirect"]
  <2>1. sign[s] \in SignSlots /\ sign[s].request.via = "desktop" /\ Relies(sign[s])
    BY <1>0, <1>6, SignerIs DEF Mint, AccountsInv, SignersRely
  <2>2. x.pc = "redirect" /\ x.key = sign[s].key
    BY <2>1, GoesFacts
  <2>3. sign' = [sign EXCEPT ![s] = x]
    BY <1>6 DEF Mint, Goes
  <2>4. sign[s].key \in KeyIds
    BY <2>1 DEF Relies
  <2>5. minted' = minted \cup {sign[s].key} /\ delivered' = delivered
    BY <1>6 DEF Mint
  <2> HIDE DEF x
  <2>6. \A y \in Signers : sign'[y].pc = "redirect" => sign'[y].key \in minted'
    BY <1>1, <2>2, <2>3, <2>5
  <2> QED
    BY <2>4, <2>5, <2>6 DEF KeysMinted
<1>7. ASSUME NEW s \in Signers, AnswerToken(s) \/ AnswerKey(s) \/ SignDropped(s)
      PROVE  KeysMinted'
  <2>1. Ends(s) /\ UNCHANGED minted
    BY <1>7 DEF AnswerToken, AnswerKey, SignDropped
  <2>2. delivered' \subseteq minted
    BY <1>7 DEF KeysMinted, AnswerToken, AnswerKey, SignDropped
  <2> QED
    BY <1>3, <2>1, <2>2
<1>8. ASSUME \/ \E n \in Names, k \in Keys : Revoke(n, k)
             \/ AccountsTick \/ AccountsOrphanEnds \/ UNCHANGED accountsVars
      PROVE  KeysMinted'
  BY <1>8 DEF Revoke, AccountsTick, AccountsOrphanEnds, accountsVars, ownAccounts, KeysMinted
<1>9. CASE AccountsRestart
  BY <1>9 DEF AccountsRestart, Idle, KeysMinted
<1> QED
  BY <1>2, <1>5, <1>6, <1>7, <1>8, <1>9 DEF AccountsNext, SignGoesOn

LEMMA ClockTypesStep ==
    ASSUME AccountsInv, ClockTypes, [AccountsNext]_accountsVars
    PROVE  ClockTypes'
<1>1. poolFaults' \in 0..PoolFaults
  <2>1. UNCHANGED poolFaults \/ PoolFault
    BY DEF AccountsNext, SignGoesOn, SignBegin, SignAcquire, SignJobEnds, Register, AnswerToken, Mint,
           AnswerKey, SignDropped, Revoke, AccountsTick, AccountsOrphanEnds, AccountsRestart, accountsVars
  <2> QED
    BY <2>1, PoolAssumption DEF PoolFault, ClockTypes
<1>2. token' \in [Names -> 0..JwtTTL + 1]
  <2>1. CASE UNCHANGED token
    BY <2>1 DEF ClockTypes
  <2>2. ASSUME NEW s \in Signers, AnswerToken(s)
        PROVE  token' \in [Names -> 0..JwtTTL + 1]
    <3> DEFINE n == sign[s].request.name
    <3>1. token' = [token EXCEPT ![n] = 0]
      BY <2>2 DEF AnswerToken
    <3>2. 0 \in 0..JwtTTL + 1 /\ token \in [Names -> 0..JwtTTL + 1]
      BY AccountsAssumption DEF ClockTypes
    <3> HIDE DEF n
    <3> QED
      BY <3>1, <3>2
  <2>3. CASE AccountsTick
    <3>1. \A n \in Names : token[n] \in 0..JwtTTL + 1
      BY DEF ClockTypes
    <3> QED
      BY <2>3, <3>1, AccountsAssumption DEF AccountsTick
  <2>4. \/ UNCHANGED token \/ AccountsTick
        \/ \E s \in Signers : AnswerToken(s)
    BY DEF AccountsNext, SignGoesOn, SignBegin, SignAcquire, SignJobEnds, Register, Mint, AnswerKey,
           SignDropped, Revoke, AccountsOrphanEnds, AccountsRestart, accountsVars, ownAccounts
  <2> QED
    BY <2>1, <2>2, <2>3, <2>4
<1> QED
  BY <1>1, <1>2 DEF ClockTypes

LEMMA CountsInit == AccountsInit => JobsCounted /\ KeysMinted /\ ClockTypes
<1> SUFFICES ASSUME AccountsInit PROVE JobsCounted /\ KeysMinted /\ ClockTypes
  OBVIOUS
<1>1. Jobs = {}
  BY DEF AccountsInit, Jobs, Idle
<1>2. JobsCounted
  BY <1>1, FS_EmptySet DEF AccountsInit, PoolInit, JobsCounted
<1>3. KeysMinted
  BY DEF AccountsInit, KeysMinted, Idle
<1>4. ClockTypes
  BY PoolAssumption, AccountsAssumption DEF AccountsInit, PoolInit, ClockTypes
<1> QED
  BY <1>2, <1>3, <1>4

\* The permits in use are those of the jobs that run, each of a handler that
\* waits for it or of one that was dropped (hash_password, verify_password and
\* the permit that their closures hold), for any number of sign-ins.
THEOREM PermitsAccounted == AccountsSpec => [](JobsCounted /\ PoolCounts)
<1>1. AccountsInv => PoolCounts
  BY DEF AccountsInv
<1> QED
  BY <1>1, CountsInit, JobsCountedStep, AccountsCorrect, PTL DEF AccountsSpec

\* Every variable stays within its type: no job ends that did not begin, and
\* what was delivered was minted.
THEOREM AccountsTypeCorrect == AccountsSpec => []AccountsTypeOK
<1>1. AccountsInv /\ JobsCounted /\ KeysMinted /\ ClockTypes => AccountsTypeOK
  BY JobsType DEF AccountsInv, OwnTypes, KeysMinted, ClockTypes, AccountsTypeOK, SignSlots
<1> QED
  BY <1>1, CountsInit, JobsCountedStep, KeysMintedStep, ClockTypesStep, AccountsCorrect, PTL DEF AccountsSpec
=============================================================================
