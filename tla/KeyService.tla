------------------------------ MODULE KeyService ------------------------------
(***************************************************************************)
(* What the discovery client and the key selection of IdTokenVerifier      *)
(* promise to a callback that holds a signed ID token, without caches,     *)
(* calls or metadata: the key that signed the token is found if the        *)
(* provider publishes it or withdrew it less than MaxAge ago; the key id   *)
(* is unknown only if the key was not published throughout the request;    *)
(* the signature is bad only while another key of that key id is published *)
(* or was withdrawn less than MaxAge ago.  A request may also fail.        *)
(***************************************************************************)
EXTENDS Integers

CONSTANTS
    Callers,  \* goroutines that verify a token
    Keys,     \* signing keys of the provider
    KidOf,    \* the key id that each is published under
    MaxAge,   \* how long a withdrawn key may still be used
    None

VARIABLES
    published,   \* the provider's JWKS
    retiredFor,  \* how long ago the provider withdrew each key
    request      \* each caller's request or its answer

vars == <<published, retiredFor, request>>

Answers == {"keyFound", "unknownKid", "badSignature"}

\* gap: the key was not published at some time of the request.
Asking(k, gap) == [status |-> "asking", key |-> k, gap |-> gap]
Answered(status) == [status |-> status, key |-> None, gap |-> FALSE]

KeySets ==
    {keys \in SUBSET Keys :
        \A j, k \in keys : KidOf[j] = KidOf[k] => j = k}

Init ==
    /\ published \in KeySets
    /\ retiredFor = [k \in Keys |-> None]
    /\ request = [v \in Callers |-> Answered("idle")]

-----------------------------------------------------------------------------
Tick ==
    /\ retiredFor' = [k \in Keys |->
                        IF retiredFor[k] \in {None, MaxAge} THEN retiredFor[k]
                        ELSE retiredFor[k] + 1]
    /\ UNCHANGED <<published, request>>

Publish(k) ==
    /\ \A j \in published : KidOf[j] # KidOf[k]
    /\ retiredFor[k] = None
    /\ published' = published \cup {k}
    /\ UNCHANGED <<retiredFor, request>>

Retire(k) ==
    /\ k \in published
    /\ published' = published \ {k}
    /\ retiredFor' = [retiredFor EXCEPT ![k] = 0]
    /\ request' = [v \in Callers |->
                     IF request[v].key = k THEN Asking(k, TRUE)
                     ELSE request[v]]

-----------------------------------------------------------------------------
Ask(v, k) ==
    /\ request[v].status # "asking"
    /\ request' = [request EXCEPT ![v] = Asking(k, k \notin published)]
    /\ UNCHANGED <<published, retiredFor>>

\* The key may still be used.
Current(k) ==
    k \in published \/ (retiredFor[k] # None /\ retiredFor[k] < MaxAge)

Justified(v, answer) ==
    CASE answer = "keyFound" -> Current(request[v].key)
      [] answer = "unknownKid" -> request[v].gap
      [] answer = "badSignature" ->
            \E k \in Keys : /\ k # request[v].key
                            /\ KidOf[k] = KidOf[request[v].key]
                            /\ Current(k)

Answer(v, answer) ==
    /\ request[v].status = "asking"
    /\ Justified(v, answer)
    /\ request' = [request EXCEPT ![v] = Answered(answer)]
    /\ UNCHANGED <<published, retiredFor>>

\* The request fails, or the caller goes on to something else.
Leave(v) ==
    /\ request' = [request EXCEPT ![v] = Answered("idle")]
    /\ UNCHANGED <<published, retiredFor>>

Next ==
    \/ Tick
    \/ \E k \in Keys : Publish(k) \/ Retire(k)
    \/ \E v \in Callers :
          \/ \E k \in Keys : Ask(v, k)
          \/ \E answer \in Answers : Answer(v, answer)
          \/ Leave(v)

Spec == Init /\ [][Next]_vars
=============================================================================
