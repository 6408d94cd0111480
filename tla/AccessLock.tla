------------------------------ MODULE AccessLock ------------------------------
(***************************************************************************)
(* What the password of a recording promises to its owner: a lock, and     *)
(* keys that open it.  A key is given only for the password that is set,   *)
(* every change of the password or of the visibility takes all keys back,  *)
(* and a key may run out.  Nothing is said of epochs, cookies, hashes or   *)
(* of when a request read which row.                                       *)
(***************************************************************************)
CONSTANTS
    Videos,
    Locks,    \* what a recording may be closed with: one for each time that a
              \* password is set
    Open,     \* no lock: everyone may look
    Shut      \* nobody but the owner may look

VARIABLES
    lock,     \* lock[v]: Open, Shut or one of Locks
    keyed     \* keyed[v]: the locks that the keys which open v now were given for

lockVars == <<lock, keyed>>

LockInit ==
    /\ lock \in [Videos -> {Open, Shut}]
    /\ keyed = [v \in Videos |-> {}]

\* The owner decides again; all keys are void, also when the new password is
\* the old one.
Change(v, l) ==
    /\ lock' = [lock EXCEPT ![v] = l]
    /\ keyed' = [keyed EXCEPT ![v] = {}]

\* Somebody who knew the password of the present lock gets a key.
GiveKey(v) ==
    /\ lock[v] \in Locks
    /\ keyed' = [keyed EXCEPT ![v] = {lock[v]}]
    /\ UNCHANGED lock

\* Time passes.
RunOut ==
    /\ \E gone \in SUBSET Videos :
           keyed' = [v \in Videos |-> IF v \in gone THEN {} ELSE keyed[v]]
    /\ UNCHANGED lock

LockNext ==
    \/ \E v \in Videos, l \in Locks \cup {Open, Shut} : Change(v, l)
    \/ \E v \in Videos : GiveKey(v)
    \/ RunOut

LockSpec == LockInit /\ [][LockNext]_lockVars
===============================================================================
