--------------------------- MODULE DiscoveryCache ---------------------------
(***************************************************************************)
(* Provider metadata and signing keys: orchestrateDiscoveryClient over the *)
(* HTTP discovery client and the Redis cache, as its callers use it: both  *)
(* usecases ask for the metadata, IdTokenVerifier.Verify for the key that  *)
(* a token's kid names.  There is one issuer, as in the registry.          *)
(*                                                                         *)
(* A caller is a goroutine; one action is one Redis command or one HTTP    *)
(* exchange with the code up to the next.  Entries live for a TTL while    *)
(* the provider rotates keys, so time passes in ticks and is kept as ages  *)
(* and remaining lifetimes; a call takes at most MaxLatency, which HTTP    *)
(* and Redis timeouts bound in the code.                                   *)
(***************************************************************************)
EXTENDS Integers

CONSTANTS
    Callers,      \* goroutines inside the discovery client
    Keys,         \* signing keys of the provider
    KidOf,        \* the key id that each is published under
    Documents,    \* metadata documents, each with a jwks_uri of its own
    Supported,    \* those that list code, public and RS256
    MetadataTtl,  \* 6 h in wire.go
    JwksTtl,      \* 1 h in wire.go
    MaxLatency,   \* the longest a call takes
    None          \* no entry, no key, no document, no age

ASSUME CacheAssumption ==
    /\ Supported \subseteq Documents
    /\ MetadataTtl \in Nat \ {0}
    /\ JwksTtl \in Nat \ {0}
    /\ MaxLatency \in Nat
    /\ DOMAIN KidOf = Keys
    /\ None \notin Documents \cup Keys \cup Int
    /\ None \notin [value : Documents, ttl : Int]
    /\ None \notin [value : SUBSET Keys, ttl : Int]

VARIABLES
    document,   \* the provider's metadata document
    published,  \* the keys in the provider's JWKS
    leftFor,    \* how long ago the provider replaced each document
    retiredFor, \* how long ago the provider withdrew each key
    metadata,   \* Redis key oidc:discovery:metadata:{issuer}
    jwks,       \* Redis key oidc:discovery:jwks:{issuer}
    caller      \* local state and outcome of each caller

provider == <<document, published, leftFor, retiredFor>>
vars == <<provider, metadata, jwks, caller>>

-----------------------------------------------------------------------------
\* Ages are not told apart from these bounds on: a key set is read for its
\* TTL after a save that took one call, a document for its TTL after such a
\* save and then through a deletion and a fetch.
KeyBound == JwksTtl + MaxLatency
UriBound == MetadataTtl + 3 * MaxLatency

Active == {"getJwks", "getMetadata", "fetchMetadata", "saveMetadata",
           "deleteJwks", "fetchJwks", "saveJwks"}
Ended ==
    {"metadataReady", "keyFound", "unknownKid", "badSignature", "failed"}

\* A JWKS has at most one key for a key id.
KeySets ==
    {keys \in SUBSET Keys :
        \A j, k \in keys : KidOf[j] = KidOf[k] => j = k}

\* task: "metadata" is GetProviderMetadata, "fill" is GetJwks and "refresh"
\* RefreshJwks.  key is the one that signed the token, of which the caller
\* sees the key id.  gap is a history variable: that key was not published
\* at some time of the call.  waited counts the ticks of a call.
Caller ==
    [pc : {"idle"} \cup Active \cup Ended,
     task : {"metadata", "fill", "refresh"},
     key : Keys \cup {None}, document : Documents \cup {None},
     keys : KeySets, waited : 0 .. MaxLatency, gap : BOOLEAN]

TypeOK ==
    /\ document \in Documents
    /\ published \in KeySets
    /\ leftFor \in [Documents -> {None} \cup 0 .. UriBound]
    /\ retiredFor \in [Keys -> {None} \cup 0 .. KeyBound]
    /\ metadata \in {None} \cup [value : Documents, ttl : 1 .. MetadataTtl]
    /\ jwks \in {None} \cup [value : KeySets, ttl : 1 .. JwksTtl]
    /\ caller \in [Callers -> Caller]

Fresh(pc) == [pc |-> pc, task |-> "metadata", key |-> None,
              document |-> None, keys |-> {}, waited |-> 0, gap |-> FALSE]

Init ==
    /\ document \in Documents
    /\ published \in KeySets
    /\ leftFor = [d \in Documents |-> None]
    /\ retiredFor = [k \in Keys |-> None]
    /\ metadata = None
    /\ jwks = None
    /\ caller = [v \in Callers |-> Fresh("idle")]

-----------------------------------------------------------------------------
(* Time and the provider.                                                  *)

Older(age, bound) == IF age = None \/ age = bound THEN age ELSE age + 1

\* Redis drops an entry whose lifetime is over.
Aged(entry) == IF entry = None \/ entry.ttl = 1 THEN None
               ELSE [entry EXCEPT !.ttl = @ - 1]

\* No call outlasts MaxLatency.
Tick ==
    /\ \A v \in Callers :
          caller[v].pc \in Active => caller[v].waited < MaxLatency
    /\ caller' = [v \in Callers |->
                    IF caller[v].pc \in Active
                    THEN [caller[v] EXCEPT !.waited = @ + 1]
                    ELSE caller[v]]
    /\ leftFor' = [d \in Documents |-> Older(leftFor[d], UriBound)]
    /\ retiredFor' = [k \in Keys |-> Older(retiredFor[k], KeyBound)]
    /\ metadata' = Aged(metadata)
    /\ jwks' = Aged(jwks)
    /\ UNCHANGED <<document, published>>

\* A new key joins the JWKS, perhaps under the key id of a withdrawn one; a
\* withdrawn key does not return.
Publish(k) ==
    /\ \A j \in published : KidOf[j] # KidOf[k]
    /\ retiredFor[k] = None
    /\ published' = published \cup {k}
    /\ UNCHANGED <<document, leftFor, retiredFor, metadata, jwks, caller>>

Retire(k) ==
    /\ k \in published
    /\ published' = published \ {k}
    /\ retiredFor' = [retiredFor EXCEPT ![k] = 0]
    /\ caller' = [v \in Callers |->
                    IF caller[v].key = k /\ caller[v].pc \in Active
                    THEN [caller[v] EXCEPT !.gap = TRUE]
                    ELSE caller[v]]
    /\ UNCHANGED <<document, leftFor, metadata, jwks>>

\* The provider publishes another metadata document; the JWKS is served at
\* the new jwks_uri and no longer at the old one.
Move(d) ==
    /\ d # document
    /\ leftFor[d] = None
    /\ leftFor' = [leftFor EXCEPT ![document] = 0]
    /\ document' = d
    /\ UNCHANGED <<published, retiredFor, metadata, jwks, caller>>

-----------------------------------------------------------------------------
(* Callers.  GoTo is the step of v that ends one call and starts another.  *)

GoTo(v, pc) == [caller[v] EXCEPT !.pc = pc, !.waited = 0]

\* A login, or a callback before its token exchange, needs the metadata; a
\* token signed with key k needs that key.
NeedMetadata(v) ==
    /\ caller[v].pc \notin Active
    /\ caller' = [caller EXCEPT ![v] = Fresh("getMetadata")]
    /\ UNCHANGED <<provider, metadata, jwks>>

NeedKey(v, k) ==
    /\ caller[v].pc \notin Active
    /\ caller' = [caller EXCEPT ![v] =
                    [Fresh("getJwks") EXCEPT !.task = "fill", !.key = k,
                                             !.gap = k \notin published]]
    /\ UNCHANGED <<provider, metadata, jwks>>

\* FindByKid and, on a hit, verifyRS256.
HasKid(v, keys) == \E k \in keys : KidOf[k] = KidOf[caller[v].key]

Checked(v, keys) ==
    Fresh(IF caller[v].key \in keys THEN "keyFound" ELSE "badSignature")

Unknown(v) == [Fresh("unknownKid") EXCEPT !.gap = caller[v].gap]

Refresh(v) ==
    [GoTo(v, "getMetadata") EXCEPT !.task = "refresh", !.document = None,
                                   !.keys = {}]

\* Fault: an unknown key id forces no refresh.
SelectOnce(v, keys) ==
    IF HasKid(v, keys) THEN Checked(v, keys) ELSE Unknown(v)

\* Fault: the refresh is repeated until the key id appears.
SelectAgain(v, keys) ==
    IF HasKid(v, keys) THEN Checked(v, keys) ELSE Refresh(v)

\* Verify with the key set it was given: a key id missing from the first set
\* forces a refresh, from a refreshed one it is unknown.
Select(v, keys) ==
    IF HasKid(v, keys) THEN Checked(v, keys)
    ELSE IF caller[v].task = "fill" THEN Refresh(v)
    ELSE Unknown(v)

\* The caller has metadata d and goes on with its task.
Resume(v, d) ==
    CASE caller[v].task = "metadata" ->
            [Fresh("metadataReady") EXCEPT !.document = d]
      [] caller[v].task = "fill" ->
            [GoTo(v, "fetchJwks") EXCEPT !.document = d]
      [] caller[v].task = "refresh" ->
            [GoTo(v, "deleteJwks") EXCEPT !.document = d]

GetJwks(v) ==
    /\ caller[v].pc = "getJwks"
    /\ caller' = [caller EXCEPT ![v] =
                    IF jwks = None THEN GoTo(v, "getMetadata")
                    ELSE Select(v, jwks.value)]
    /\ UNCHANGED <<provider, metadata, jwks>>

\* Fault: a read renews the lifetime of the entry.
GetMetadataSliding(v) ==
    /\ caller[v].pc = "getMetadata"
    /\ caller' = [caller EXCEPT ![v] =
                    IF metadata = None THEN GoTo(v, "fetchMetadata")
                    ELSE Resume(v, metadata.value)]
    /\ metadata' = IF metadata = None THEN None
                   ELSE [metadata EXCEPT !.ttl = MetadataTtl]
    /\ UNCHANGED <<provider, jwks>>

GetMetadata(v) ==
    /\ caller[v].pc = "getMetadata"
    /\ caller' = [caller EXCEPT ![v] =
                    IF metadata = None THEN GoTo(v, "fetchMetadata")
                    ELSE Resume(v, metadata.value)]
    /\ UNCHANGED <<provider, metadata, jwks>>

\* The provider answers discovery; nothing in the answer is checked.
FetchMetadata(v) ==
    /\ caller[v].pc = "fetchMetadata"
    /\ caller' = [caller EXCEPT ![v] =
                    [GoTo(v, "saveMetadata") EXCEPT !.document = document]]
    /\ UNCHANGED <<provider, metadata, jwks>>

\* Fault: a duration of 0, which SET takes for no TTL.
SetForever(value, ttl) == [value |-> value, ttl |-> 0]

\* SET with a TTL.
Set(value, ttl) == [value |-> value, ttl |-> ttl]

\* A save that fails is ignored, and so is a deletion.
SaveMetadata(v) ==
    /\ caller[v].pc = "saveMetadata"
    /\ metadata' \in {metadata, Set(caller[v].document, MetadataTtl)}
    /\ caller' = [caller EXCEPT ![v] = Resume(v, caller[v].document)]
    /\ UNCHANGED <<provider, jwks>>

DeleteJwks(v) ==
    /\ caller[v].pc = "deleteJwks"
    /\ jwks' \in {jwks, None}
    /\ caller' = [caller EXCEPT ![v] = GoTo(v, "fetchJwks")]
    /\ UNCHANGED <<provider, metadata>>

\* The provider answers at the jwks_uri of the document the caller holds.
FetchJwks(v) ==
    /\ caller[v].pc = "fetchJwks"
    /\ caller[v].document = document
    /\ caller' = [caller EXCEPT ![v] =
                    [GoTo(v, "saveJwks") EXCEPT !.document = None,
                                                !.keys = published]]
    /\ UNCHANGED <<provider, metadata, jwks>>

\* Fault: a fill reads back from the cache what it saved there, where the save
\* may have failed or another caller may have deleted it.
SaveJwksReadBack(v) ==
    /\ caller[v].pc = "saveJwks"
    /\ jwks' \in {jwks, Set(caller[v].keys, JwksTtl)}
    /\ caller' = [caller EXCEPT ![v] =
                    IF caller[v].task = "fill"
                    THEN [GoTo(v, "getJwks") EXCEPT !.keys = {}]
                    ELSE Select(v, caller[v].keys)]
    /\ UNCHANGED <<provider, metadata>>

SaveJwks(v) ==
    /\ caller[v].pc = "saveJwks"
    /\ jwks' \in {jwks, Set(caller[v].keys, JwksTtl)}
    /\ caller' = [caller EXCEPT ![v] = Select(v, caller[v].keys)]
    /\ UNCHANGED <<provider, metadata>>

\* A GET that is neither hit nor miss, and a fetch that fails, end the call.
CallFails(v) ==
    /\ caller[v].pc \in {"getJwks", "getMetadata", "fetchMetadata",
                         "fetchJwks"}
    /\ caller' = [caller EXCEPT ![v] = Fresh("failed")]
    /\ UNCHANGED <<provider, metadata, jwks>>

\* What goes on by itself once a caller has started.
CallStep(v) ==
    \/ GetJwks(v)
    \/ GetMetadata(v)
    \/ FetchMetadata(v)
    \/ SaveMetadata(v)
    \/ DeleteJwks(v)
    \/ FetchJwks(v)
    \/ SaveJwks(v)
    \/ CallFails(v)

Next ==
    \/ Tick
    \/ \E k \in Keys : Publish(k) \/ Retire(k)
    \/ \E d \in Documents : Move(d)
    \/ \E v \in Callers :
          NeedMetadata(v) \/ (\E k \in Keys : NeedKey(v, k)) \/ CallStep(v)

Spec == Init /\ [][Next]_vars

\* Every Redis and HTTP call returns, with an answer or a timeout, and the
\* goroutine goes on.  Nothing is assumed of the provider.
FairSpec == Spec /\ \A v \in Callers : WF_vars(CallStep(v))

-----------------------------------------------------------------------------
(* Safety.                                                                 *)

\* A token is turned away for an unknown key id only if the provider did not
\* publish that key throughout the call: no stale entry, and no stale save
\* of another caller that undoes a refresh, hides a published key
\* (IdTokenVerifier.Verify, RefreshJwks).
UnknownKidWasUnpublished ==
    \A v \in Callers : caller[v].pc = "unknownKid" => caller[v].gap

WithdrawnWithin(k, age) == retiredFor[k] # None /\ retiredFor[k] < age

\* A key that the provider withdrew is trusted for less than the TTL of the
\* key set and one call, whatever reads, refreshes and overlapping saves the
\* cache has seen: reading never prolongs an entry, and a save is never
\* older than one call (SaveJwks, fetchAndCacheJwks).
RetiredKeyDies ==
    [][\A v \in Callers :
          /\ caller[v].pc # "keyFound"
          /\ caller'[v].pc = "keyFound"
          /\ caller[v].key \notin published
          => WithdrawnWithin(caller[v].key, KeyBound)]_vars

\* A token signed by a key that stays published is refused for its signature
\* only while an older key of the same key id may still be cached: there is
\* no refresh when a known key id has new key material, so the TTL of the
\* key set has to end this, and does (IdTokenVerifier.Verify, FindByKid).
RekeyHeals ==
    [][\A v \in Callers :
          /\ caller[v].pc # "badSignature"
          /\ caller'[v].pc = "badSignature"
          /\ ~caller[v].gap
          => \E k \in Keys :
                /\ k # caller[v].key
                /\ KidOf[k] = KidOf[caller[v].key]
                /\ WithdrawnWithin(k, KeyBound)]_vars

\* The keys are asked for at a jwks_uri that the provider left less than the
\* TTL of the metadata and three calls ago (save, deletion, fetch): after
\* that, a moved provider is found again without a restart
\* (fetchAndCacheMetadata, RefreshJwks).
LeftUriDies ==
    [][\A v \in Callers :
          /\ caller[v].pc = "fetchJwks"
          /\ caller'[v].pc # "fetchJwks"
          /\ caller[v].document # document
          => /\ leftFor[caller[v].document] # None
             /\ leftFor[caller[v].document] < UriBound]_vars

-----------------------------------------------------------------------------
(* The inductive invariant behind the safety properties and the contract.  *)

\* keys were all published at some time in the last age ticks, and d was the
\* provider's document.
Published(keys, age) ==
    \A k \in keys \ published : WithdrawnWithin(k, age + 1)

Served(d, age) ==
    d # document => leftFor[d] # None /\ leftFor[d] <= age

\* An entry is as old as its lifetime is short, and one call older.
EntriesSound ==
    /\ jwks # None => Published(jwks.value, KeyBound - jwks.ttl)
    /\ metadata # None =>
          Served(metadata.value, MetadataTtl + MaxLatency - metadata.ttl)

CallerSound(c) ==
    /\ c.pc \in Active => (c.task = "metadata" <=> c.key = None)
    /\ c.pc = "getJwks" => c.task = "fill"
    /\ c.pc = "deleteJwks" => c.task = "refresh"
    /\ c.pc \in {"fetchJwks", "saveJwks"} => c.task # "metadata"
    /\ c.pc \in Active /\ c.key # None /\ c.key \notin published => c.gap
    /\ c.pc = "unknownKid" => c.gap
    /\ c.pc \in {"saveMetadata", "deleteJwks", "fetchJwks"}
          => c.document # None
    /\ c.pc = "saveMetadata" => Served(c.document, c.waited)
    /\ c.pc = "deleteJwks"
          => Served(c.document, MetadataTtl + MaxLatency - 1 + c.waited)
    /\ c.pc = "fetchJwks"
          => Served(c.document, MetadataTtl + 2 * MaxLatency - 1 + c.waited)
    /\ c.pc = "saveJwks" => /\ Published(c.keys, c.waited)
                           /\ (c.key \in c.keys \/ c.gap)

CacheInvariant ==
    /\ TypeOK
    /\ EntriesSound
    /\ \A v \in Callers : CallerSound(caller[v])

-----------------------------------------------------------------------------
(* The contract: a caller that verifies a token asks for its key until it  *)
(* has an answer; caches and metadata are out of sight.                    *)

RequestOf(c) ==
    IF c.pc \in Active /\ c.key # None
    THEN [status |-> "asking", key |-> c.key, gap |-> c.gap]
    ELSE [status |-> IF c.pc \in {"keyFound", "unknownKid", "badSignature"}
                     THEN c.pc ELSE "idle",
          key |-> None, gap |-> FALSE]

Service == INSTANCE KeyService WITH
    MaxAge <- KeyBound,
    request <- [v \in Callers |-> RequestOf(caller[v])]

\* However the callers' reads, fetches, saves and refreshes overlap, each
\* answer is one that KeyService allows at the moment it is given
\* (GetJwks, RefreshJwks and Verify up to the signature).
KeepsKeyService == Service!Spec

-----------------------------------------------------------------------------
(* Liveness.                                                               *)

\* Whatever other callers do to the cache and the provider to its keys, no
\* caller reads, refreshes and overwrites forever: GetProviderMetadata,
\* GetJwks and Verify with its one refresh return.
CallsEnd ==
    \A v \in Callers : caller[v].pc \in Active ~> caller[v].pc \notin Active

-----------------------------------------------------------------------------
(* How much a call can still cost, the measure behind CallsEnd.            *)

Stage == [pc \in Active |->
            CASE pc = "getJwks" -> 7 [] pc = "getMetadata" -> 6
              [] pc = "fetchMetadata" -> 5 [] pc = "saveMetadata" -> 4
              [] pc = "deleteJwks" -> 3 [] pc = "fetchJwks" -> 2
              [] pc = "saveJwks" -> 1]

\* Redis commands and HTTP exchanges that a caller has before it at most: a
\* fill may be followed by a refresh, and deletes nothing itself.
ExchangesLeft(c) ==
    CASE c.pc \notin Active -> 0
      [] c.pc \in Active /\ c.task = "metadata" -> Stage[c.pc] - 3
      [] c.pc \in Active /\ c.task = "refresh" -> Stage[c.pc]
      [] c.pc \in Active /\ c.task = "fill" ->
            Stage[c.pc] + (IF c.pc \in {"fetchJwks", "saveJwks"} THEN 6 ELSE 5)

\* Each exchange of a call leaves it fewer before it, whatever the cache
\* holds, other callers save and the provider publishes: a key selection
\* costs at most twelve exchanges and the metadata three, so a callback that
\* meets an unknown key id is held up for a bounded time (Verify with its
\* one refresh, RefreshJwks, GetJwks, GetProviderMetadata).
CallsShorten ==
    [][\A v \in Callers :
          /\ caller[v].pc \in Active
          /\ caller'[v].pc # caller[v].pc
          => /\ ExchangesLeft(caller'[v]) < ExchangesLeft(caller[v])
             /\ ExchangesLeft(caller[v]) <=
                   IF caller[v].task = "metadata" THEN 3 ELSE 12]_vars

-----------------------------------------------------------------------------
(* What the repository says and the code does not do.                      *)

\* docs/google-idp.md has the metadata checked for code, public and RS256:
\* no caller would go on with a document that lacks them.
MetadataConfirmed ==
    \A v \in Callers :
        caller[v].pc = "metadataReady" => caller[v].document \in Supported
=============================================================================
