------------------------------- MODULE Accounts -------------------------------
(***************************************************************************)
(* User accounts and the credentials made from them: registration and      *)
(* login over the API, which answer with a JWT (src/routes/auth.rs), the   *)
(* sign-in page of Cap Desktop, which mints an API key and redirects to    *)
(* the desktop (src/routes/session.rs), and the revocation of keys         *)
(* (src/routes/videos.rs).  The work is done by src/auth.rs.               *)
(*                                                                         *)
(* A handler is between two awaits in every state.                         *)
(***************************************************************************)
EXTENDS HashPool

CONSTANTS
    Names,      \* user names
    Passwords,  \* passwords of an allowed length
    NoPassword, \* stands for no account
    Signers,    \* slots for concurrent sign-ins
    KeyIds,     \* bound on the API keys that are minted
    NoKey,      \* stands for no key
    JwtTTL,     \* jwt_ttl_secs, and the leeway with which expiry is checked
    Signups     \* cap_signups

ASSUME AccountsAssumption ==
    /\ NoPassword \notin Passwords
    /\ NoKey \notin KeyIds
    /\ JwtTTL \in Nat
    /\ Signups \in BOOLEAN

VARIABLES
    users,      \* users[n]: the password whose hash is in the row of n
    keys,       \* rows of auth_api_keys: the key, its user, and (history) the
                \* password that was given when it was minted
    minted,     \* history: keys that were ever minted
    delivered,  \* keys that a redirect has carried to the desktop
    token,      \* token[n]: age of the newest JWT of n; above JwtTTL: none
    sign,       \* the handlers
    welcomed    \* history: the names and passwords that were answered with success

ownAccounts == <<users, keys, minted, delivered, token, sign, welcomed>>
accountsVars == <<pool, poolFaults, ownAccounts>>
-----------------------------------------------------------------------------
Keys == [id : KeyIds, name : Names, password : Passwords]

\* What a sign-in carries.  The sign-in page writes the port that it was
\* opened with into a hidden field, and 0 when there was none.
FormPort(port) == IF port = "none" THEN "zero" ELSE port
Ports == {"none"} \cup {FormPort(port) : port \in {"none", "some"}}
Requests == [action : {"register", "login"}, via : {"api", "desktop"},
             name : Names, password : Passwords, port : Ports]
Idle == [pc |-> "idle"]

AccountsInit ==
    /\ PoolInit
    /\ users = [n \in Names |-> NoPassword]
    /\ keys = {}
    /\ minted = {}
    /\ delivered = {}
    /\ token = [n \in Names |-> JwtTTL + 1]
    /\ sign = [s \in Signers |-> Idle]
    /\ welcomed = {}

\* Where handler s goes next, with what it carries.
Goes(s, pc) == sign' = [sign EXCEPT ![s].pc = pc]
Ends(s) == sign' = [sign EXCEPT ![s] = Idle]
-----------------------------------------------------------------------------
FreshKeys == {k \in KeyIds : k \notin minted /\ \A s \in Signers : sign[s] # Idle => sign[s].key # k}

\* Registration may be switched off.  login_user reads the row first; without
\* one it verifies against a hash that no password fits.  The key that the
\* sign-in page would mint is drawn here, so that within the bound KeyIds every
\* sign-in that begins can end.
SignBegin(s, r, k) ==
    /\ sign[s].pc = "idle"
    /\ r.action = "register" => Signups
    /\ \/ r.via = "api" /\ r.port = "none" /\ k = NoKey
       \/ r.via = "desktop" /\ k \in FreshKeys
    /\ sign' = [sign EXCEPT ![s] = [pc |-> "wait", request |-> r,
                                    row |-> users[r.name], key |-> k]]
    /\ UNCHANGED <<pool, poolFaults, users, keys, minted, delivered, token, welcomed>>

SignAcquire(s) ==
    /\ sign[s].pc = "wait"
    /\ Acquire
    /\ Goes(s, "job")
    /\ UNCHANGED <<poolFaults, users, keys, minted, delivered, token, welcomed>>

\* hash_password or verify_password has ended; a wrong password is refused.
SignJobEnds(s) ==
    /\ sign[s].pc = "job"
    /\ JobEnds
    /\ IF sign[s].request.action = "register" THEN Goes(s, "insert")
       ELSE IF sign[s].row = sign[s].request.password THEN Goes(s, "proven")
       ELSE Ends(s)
    /\ UNCHANGED <<poolFaults, users, keys, minted, delivered, token, welcomed>>

\* Slip: ON CONFLICT (username) DO UPDATE.
RegisterUpserts(s) ==
    LET r == sign[s].request
    IN  /\ sign[s].pc = "insert"
        /\ users' = [users EXCEPT ![r.name] = r.password]
        /\ Goes(s, "proven")
        /\ UNCHANGED <<pool, poolFaults, keys, minted, delivered, token, welcomed>>

\* The INSERT of register_user; the unique user name decides who comes first.
Register(s) ==
    LET r == sign[s].request
    IN  /\ sign[s].pc = "insert"
        /\ IF users[r.name] = NoPassword
           THEN users' = [users EXCEPT ![r.name] = r.password] /\ Goes(s, "proven")
           ELSE UNCHANGED users /\ Ends(s)
        /\ UNCHANGED <<pool, poolFaults, keys, minted, delivered, token, welcomed>>

\* register and login of the API: a JWT.  Between issuing it and the answer the
\* user's names are read; a read that fails is a SignDropped here, and the age
\* of the token is counted from its answer.
AnswerToken(s) ==
    LET r == sign[s].request
    IN  /\ sign[s].pc = "proven" /\ r.via = "api"
        /\ token' = [token EXCEPT ![r.name] = 0]
        /\ welcomed' = welcomed \cup {<<r.name, r.password>>}
        /\ Ends(s)
        /\ UNCHANGED <<pool, poolFaults, users, keys, minted, delivered>>

\* mint_api_key: a fresh secret, whose hash is stored.
Mint(s) ==
    LET r == sign[s].request
        k == sign[s].key
    IN  /\ sign[s].pc = "proven" /\ r.via = "desktop"
        /\ minted' = minted \cup {k}
        /\ keys' = keys \cup {[id |-> k, name |-> r.name, password |-> r.password]}
        /\ Goes(s, "redirect")
        /\ UNCHANGED <<pool, poolFaults, users, delivered, token, welcomed>>

\* The port is looked at after the key is stored: for port 0 the answer is an
\* error, and the key goes nowhere.
AnswerKey(s) ==
    LET r == sign[s].request
    IN  /\ sign[s].pc = "redirect"
        /\ IF r.port = "zero" THEN UNCHANGED <<delivered, welcomed>>
           ELSE /\ delivered' = delivered \cup {sign[s].key}
                /\ welcomed' = welcomed \cup {<<r.name, r.password>>}
        /\ Ends(s)
        /\ UNCHANGED <<pool, poolFaults, users, keys, minted, token>>

\* The client goes away, or a statement fails.
SignDropped(s) ==
    /\ sign[s].pc # "idle"
    /\ PoolFault
    /\ Ends(s)
    /\ IF sign[s].pc = "job" THEN JobOrphaned ELSE UNCHANGED pool
    /\ UNCHANGED <<users, keys, minted, delivered, token, welcomed>>
-----------------------------------------------------------------------------
\* CurrentUser: a JWT that has not expired, or the secret of a stored key.
HasToken(n) == token[n] <= JwtTTL
HasKey(n) == \E k \in keys : k.name = n /\ k.id \in delivered
Authenticated(n) == HasToken(n) \/ HasKey(n)

\* revoke_api_key: only keys of the user who asks.
Revoke(n, k) ==
    /\ Authenticated(n)
    /\ k \in keys /\ k.name = n
    /\ keys' = keys \ {k}
    /\ UNCHANGED <<pool, poolFaults, users, minted, delivered, token, sign, welcomed>>

AccountsTick ==
    /\ token' = [n \in Names |-> IF token[n] > JwtTTL THEN token[n] ELSE token[n] + 1]
    /\ UNCHANGED <<pool, poolFaults, users, keys, minted, delivered, sign, welcomed>>

AccountsOrphanEnds ==
    /\ OrphanEnds
    /\ UNCHANGED <<poolFaults, ownAccounts>>

\* Rows and tokens outlive the process.
AccountsRestart ==
    /\ PoolFault
    /\ PoolRestart
    /\ sign' = [s \in Signers |-> Idle]
    /\ UNCHANGED <<users, keys, minted, delivered, token, welcomed>>

SignGoesOn(s) ==
    SignJobEnds(s) \/ Register(s) \/ AnswerToken(s) \/ Mint(s) \/ AnswerKey(s)

AccountsNext ==
    \/ \E s \in Signers :
        \/ \E r \in Requests, k \in KeyIds \cup {NoKey} : SignBegin(s, r, k)
        \/ SignAcquire(s) \/ SignGoesOn(s) \/ SignDropped(s)
    \/ \E n \in Names, k \in Keys : Revoke(n, k)
    \/ AccountsTick \/ AccountsOrphanEnds \/ AccountsRestart

AccountsSpec == AccountsInit /\ [][AccountsNext]_accountsVars

\* The runtime polls handlers and jobs; the semaphore serves its queue in
\* order, so a handler that keeps waiting is served.
AccountsFairness ==
    /\ \A s \in Signers : WF_accountsVars(SignGoesOn(s)) /\ SF_accountsVars(SignAcquire(s))
    /\ WF_accountsVars(AccountsOrphanEnds)
-----------------------------------------------------------------------------
(* Properties.                                                             *)

\* Every variable stays within its type.
AccountsTypeOK ==
    /\ permits \in 0..Permits /\ running \in 0..Permits /\ orphans \in 0..Permits
    /\ poolFaults \in 0..PoolFaults
    /\ users \in [Names -> Passwords \cup {NoPassword}]
    /\ keys \subseteq Keys
    /\ minted \subseteq KeyIds /\ delivered \subseteq minted
    /\ token \in [Names -> 0..JwtTTL + 1]
    /\ sign \in [Signers -> {Idle} \cup
           [pc : {"wait", "job", "insert", "proven", "redirect"}, request : Requests,
            row : Passwords \cup {NoPassword}, key : KeyIds \cup {NoKey}]]
    /\ welcomed \subseteq Names \X Passwords

\* Two registrations of one name race while their passwords are hashed, and
\* sign-ins go on meanwhile: whoever was answered with success, and every key
\* that was minted, had the password that the account really has.
SuccessIsProven ==
    /\ \A w \in welcomed : users[w[1]] = w[2]
    /\ \A k \in keys : users[k.name] = k.password

\* Four permits are shared by all: a sign-in that waits for one is served,
\* also when other handlers are dropped while their job runs.
SignInServed ==
    \A s \in Signers : sign[s].pc \in {"wait", "job"} ~> sign[s].pc \notin {"wait", "job"}
=============================================================================
