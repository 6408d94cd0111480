--------------------------- MODULE UploadContract ---------------------------
(***************************************************************************)
(* What the multipart upload routes of cap-rust promise a client, without  *)
(* leases, heartbeats, staging directories or handlers:                    *)
(*                                                                         *)
(*   - an upload is opened once and ends at most once, completed or        *)
(*     aborted, and that outcome is final;                                 *)
(*   - the file at the destination changes only in one step, to the whole  *)
(*     list of parts some client asked for, and only on behalf of an       *)
(*     upload that has not ended;                                          *)
(*   - an upload is completed only after it was published.                 *)
(*                                                                         *)
(* MultipartUpload is shown to implement this specification.               *)
(***************************************************************************)
CONSTANTS
    Uploads,    \* upload identifiers, all for one destination key
    Manifests,  \* the part lists a client may ask to be assembled
    NoUpload    \* the writer of a destination nothing was published to

VARIABLES
    phase,      \* phase[u] \in {"absent", "open", "completed", "aborted"}
    published,  \* the uploads published at least once
    object      \* the file at the destination key

vars == <<phase, published, object>>

NoObject == [upload |-> NoUpload, manifest |-> <<>>, content |-> <<>>]

\* The file that holds every part of m, in order, written for upload u.
WholeObject(u, m) == [upload |-> u, manifest |-> m, content |-> m]

Init ==
    /\ phase = [u \in Uploads |-> "absent"]
    /\ published = {}
    /\ object = NoObject

Open(u) ==
    /\ phase[u] = "absent"
    /\ phase' = [phase EXCEPT ![u] = "open"]
    /\ UNCHANGED <<published, object>>

Publish(u) ==
    /\ phase[u] = "open"
    /\ \E m \in Manifests : object' = WholeObject(u, m)
    /\ published' = published \cup {u}
    /\ UNCHANGED phase

Complete(u) ==
    /\ phase[u] = "open"
    /\ u \in published
    /\ phase' = [phase EXCEPT ![u] = "completed"]
    /\ UNCHANGED <<published, object>>

Abort(u) ==
    /\ phase[u] = "open"
    /\ phase' = [phase EXCEPT ![u] = "aborted"]
    /\ UNCHANGED <<published, object>>

Next == \E u \in Uploads : Open(u) \/ Publish(u) \/ Complete(u) \/ Abort(u)

Spec == Init /\ [][Next]_vars
=============================================================================
