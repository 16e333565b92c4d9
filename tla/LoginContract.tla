---------------------------- MODULE LoginContract ----------------------------
(***************************************************************************)
(* What the relying party promises about sessions, without requests,       *)
(* transactions or failures: a session is opened at most once, for a user  *)
(* the provider authenticated, on the strength of an authentication that   *)
(* opened no session before; a session that ended never comes back.        *)
(***************************************************************************)
CONSTANTS
    SessionIds,  \* session ids
    Codes,       \* authentications by the provider, named by their codes
    Subjects,    \* end users
    None         \* no user

VARIABLES
    proof,  \* the user whom each authentication names
    spent,  \* authentications that opened a session or never will
    life,   \* life of each session: "new", "open", "closed"
    owner   \* the user of each open session

vars == <<proof, spent, life, owner>>

Init ==
    /\ proof = [c \in Codes |-> None]
    /\ spent = {}
    /\ life = [i \in SessionIds |-> "new"]
    /\ owner = [i \in SessionIds |-> None]

Authenticate(c, u) ==
    /\ proof[c] = None
    /\ proof' = [proof EXCEPT ![c] = u]
    /\ UNCHANGED <<spent, life, owner>>

Open(i, c) ==
    /\ life[i] = "new"
    /\ proof[c] # None
    /\ c \notin spent
    /\ spent' = spent \cup {c}
    /\ life' = [life EXCEPT ![i] = "open"]
    /\ owner' = [owner EXCEPT ![i] = proof[c]]
    /\ UNCHANGED proof

\* The session could not be stored; neither it nor its authentication is
\* tried again.
Abandon(i, c) ==
    /\ life[i] = "new"
    /\ c \notin spent
    /\ spent' = spent \cup {c}
    /\ life' = [life EXCEPT ![i] = "closed"]
    /\ UNCHANGED <<proof, owner>>

Close(i) ==
    /\ life[i] = "open"
    /\ life' = [life EXCEPT ![i] = "closed"]
    /\ owner' = [owner EXCEPT ![i] = None]
    /\ UNCHANGED <<proof, spent>>

Next ==
    \/ \E c \in Codes, u \in Subjects : Authenticate(c, u)
    \/ \E i \in SessionIds, c \in Codes : Open(i, c) \/ Abandon(i, c)
    \/ \E i \in SessionIds : Close(i)

Spec == Init /\ [][Next]_vars
=============================================================================
