------------------------- MODULE DiscoveryCacheProofs -------------------------
(***************************************************************************)
(* The timed bounds of the discovery cache and the contract it keeps, for  *)
(* every number of callers, keys and documents and every lifetime and      *)
(* latency: CacheInvariant is inductive, and relates the age of what an    *)
(* entry or a caller holds to its remaining lifetime or its waiting time.  *)
(***************************************************************************)
EXTENDS DiscoveryCache, TLAPS

USE CacheAssumption DEF CacheAssumption

-----------------------------------------------------------------------------
(* The records a caller may become.                                        *)

LEMMA NoKeys == {} \in KeySets
BY DEF KeySets

LEMMA Start == 0 \in 0 .. MaxLatency
OBVIOUS

LEMMA FreshFields ==
    ASSUME NEW pc \in {"idle"} \cup Active \cup Ended
    PROVE  /\ Fresh(pc) \in Caller
           /\ Fresh(pc).pc = pc /\ Fresh(pc).task = "metadata"
           /\ Fresh(pc).key = None /\ Fresh(pc).document = None
           /\ Fresh(pc).gap = FALSE
BY NoKeys, Start DEF Fresh, Caller

LEMMA GoToFields ==
    ASSUME NEW v \in Callers, NEW pc \in Active, caller[v] \in Caller
    PROVE  /\ GoTo(v, pc) \in Caller
           /\ GoTo(v, pc).pc = pc /\ GoTo(v, pc).waited = 0
           /\ GoTo(v, pc).task = caller[v].task
           /\ GoTo(v, pc).key = caller[v].key
           /\ GoTo(v, pc).document = caller[v].document
           /\ GoTo(v, pc).keys = caller[v].keys
           /\ GoTo(v, pc).gap = caller[v].gap
<1>1. GoTo(v, pc) \in Caller
  BY Start DEF GoTo, Caller
<1> QED
  BY <1>1 DEF GoTo, Caller

\* A caller that is given a document, and one that is given keys instead.
LEMMA DocumentFields ==
    ASSUME NEW c \in Caller, NEW d \in Documents
    PROVE  LET e == [c EXCEPT !.document = d]
           IN  /\ e \in Caller
               /\ e.pc = c.pc /\ e.task = c.task /\ e.key = c.key
               /\ e.document = d
               /\ e.keys = c.keys /\ e.waited = c.waited /\ e.gap = c.gap
BY DEF Caller

LEMMA KeysFields ==
    ASSUME NEW c \in Caller, NEW keys \in KeySets
    PROVE  LET e == [c EXCEPT !.document = None, !.keys = keys]
           IN  /\ e \in Caller
               /\ e.pc = c.pc /\ e.task = c.task /\ e.key = c.key
               /\ e.keys = keys /\ e.waited = c.waited /\ e.gap = c.gap
<1>1. [c EXCEPT !.document = None, !.keys = keys] \in Caller
  <2> DEFINE d == [c EXCEPT !.document = None]
  <2>1. d \in Caller
    BY DEF Caller
  <2>2. [d EXCEPT !.keys = keys] \in Caller
    <3> HIDE DEF d
    <3> QED
      BY <2>1 DEF Caller
  <2> QED
    BY <2>2
<1> QED
  BY <1>1 DEF Caller

\* What Verify goes on with.
LEMMA RefreshFields ==
    ASSUME NEW v \in Callers, caller[v] \in Caller
    PROVE  LET e == Refresh(v)
           IN  /\ e \in Caller
               /\ e.pc = "getMetadata" /\ e.task = "refresh"
               /\ e.key = caller[v].key /\ e.gap = caller[v].gap
<1> DEFINE c == GoTo(v, "getMetadata")
           d == [c EXCEPT !.task = "refresh"]
           e == [d EXCEPT !.document = None, !.keys = {}]
<1>1. /\ c \in Caller
      /\ c.pc = "getMetadata" /\ c.key = caller[v].key
      /\ c.gap = caller[v].gap
  BY GoToFields DEF Active
<1>2. /\ d \in Caller
      /\ d.pc = "getMetadata" /\ d.key = caller[v].key
      /\ d.gap = caller[v].gap /\ d.task = "refresh"
  <2> HIDE DEF c
  <2> QED
    BY <1>1 DEF Caller
<1>3. /\ e \in Caller
      /\ e.pc = "getMetadata" /\ e.key = caller[v].key
      /\ e.gap = caller[v].gap /\ e.task = "refresh"
  <2> HIDE DEF d
  <2> QED
    BY <1>2, NoKeys, KeysFields
<1>4. Refresh(v) = e
  BY DEF Refresh
<1> QED
  BY <1>3, <1>4

LEMMA UnknownFields ==
    ASSUME NEW v \in Callers, caller[v] \in Caller
    PROVE  /\ Unknown(v) \in Caller
           /\ Unknown(v).pc = "unknownKid" /\ Unknown(v).key = None
           /\ Unknown(v).gap = caller[v].gap
<1>1. Fresh("unknownKid") \in Caller /\ Fresh("unknownKid").pc = "unknownKid"
      /\ Fresh("unknownKid").key = None
  BY FreshFields DEF Ended
<1>2. caller[v].gap \in BOOLEAN
  BY DEF Caller
<1> QED
  BY <1>1, <1>2 DEF Unknown, Caller

\* A caller whose own step leaves the provider alone.
LEMMA CallerMoves ==
    ASSUME CacheInvariant, NEW v \in Callers, NEW c \in Caller,
           CallerSound(c),
           caller' = [caller EXCEPT ![v] = c],
           UNCHANGED provider,
           jwks' \in {None} \cup [value : KeySets, ttl : 1 .. JwksTtl],
           metadata' \in {None} \cup [value : Documents, ttl : 1 .. MetadataTtl],
           EntriesSound'
    PROVE  CacheInvariant'
<1>1. TypeOK'
  BY DEF CacheInvariant, TypeOK, provider
<1>2. ASSUME NEW u \in Callers PROVE CallerSound(caller[u])'
  <2>1. CallerSound(caller'[u])
    BY DEF CacheInvariant, TypeOK
  <2> QED
    BY <2>1 DEF CallerSound, Published, Served, WithdrawnWithin, provider
<1> QED
  BY <1>1, <1>2 DEF CacheInvariant

\* The same, when it leaves the cache alone too.
LEMMA CallerReads ==
    ASSUME CacheInvariant, NEW v \in Callers, NEW c \in Caller,
           CallerSound(c),
           caller' = [caller EXCEPT ![v] = c],
           UNCHANGED <<provider, metadata, jwks>>
    PROVE  CacheInvariant'
<1>1. EntriesSound'
  BY DEF CacheInvariant, EntriesSound, Published, Served, WithdrawnWithin,
         provider
<1>2. /\ jwks' \in {None} \cup [value : KeySets, ttl : 1 .. JwksTtl]
      /\ metadata' \in {None} \cup [value : Documents, ttl : 1 .. MetadataTtl]
  BY DEF CacheInvariant, TypeOK
<1> QED
  BY <1>1, <1>2, CallerMoves
-----------------------------------------------------------------------------
(* What a caller knows after each kind of answer.                          *)

LEMMA AtRest ==
    ASSUME NEW c, c.pc \notin Active, c.pc # "unknownKid"
    PROVE  CallerSound(c)
BY DEF CallerSound, Active

\* Verify: the only verdict that needs an argument is the unknown key id,
\* which a refreshed key set gives.
LEMMA SelectSound ==
    ASSUME NEW v \in Callers, NEW keys,
           caller[v] \in Caller, CallerSound(caller[v]),
           caller[v].pc \in Active, caller[v].task \in {"fill", "refresh"},
           caller[v].task = "refresh"
              => caller[v].key \in keys \/ caller[v].gap
    PROVE  Select(v, keys) \in Caller /\ CallerSound(Select(v, keys))
<1>1. CASE HasKid(v, keys)
  <2>1. PICK pc \in {"keyFound", "badSignature"} : Checked(v, keys) = Fresh(pc)
    BY DEF Checked
  <2>2. Fresh(pc) \in Caller /\ Fresh(pc).pc = pc
    BY FreshFields DEF Ended
  <2>3. CallerSound(Fresh(pc))
    BY <2>2, AtRest DEF Active
  <2> QED
    BY <1>1, <2>1, <2>2, <2>3 DEF Select
<1>2. CASE ~HasKid(v, keys) /\ caller[v].task = "fill"
  <2>1. CallerSound(Refresh(v))
    BY <1>2, RefreshFields DEF CallerSound, Active
  <2> QED
    BY <1>2, <2>1, RefreshFields DEF Select
<1>3. CASE ~HasKid(v, keys) /\ caller[v].task = "refresh"
  <2>1. caller[v].gap
    BY <1>3 DEF HasKid
  <2>2. CallerSound(Unknown(v))
    BY <2>1, UnknownFields DEF CallerSound, Active
  <2> QED
    BY <1>3, <2>2, UnknownFields DEF Select
<1> QED
  BY <1>1, <1>2, <1>3

\* A document in hand is at most as old as a cached one may get.
LEMMA ResumeSound ==
    ASSUME TypeOK, NEW v \in Callers, NEW d \in Documents,
           CallerSound(caller[v]), caller[v].pc \in Active,
           Served(d, MetadataTtl + MaxLatency - 1)
    PROVE  Resume(v, d) \in Caller /\ CallerSound(Resume(v, d))
<1>0. caller[v] \in Caller
  BY DEF TypeOK
<1>1. CASE caller[v].task = "metadata"
  <2> DEFINE c == Fresh("metadataReady")
  <2>1. c \in Caller /\ c.pc = "metadataReady"
    BY FreshFields DEF Ended
  <2>2. [c EXCEPT !.document = d] \in Caller
        /\ [c EXCEPT !.document = d].pc = "metadataReady"
    <3> HIDE DEF c
    <3> QED
      BY <2>1, DocumentFields
  <2>3. Resume(v, d) = [c EXCEPT !.document = d]
    BY <1>1 DEF Resume
  <2> QED
    BY <2>2, <2>3, AtRest DEF Active
<1>2. CASE caller[v].task = "fill"
  <2> DEFINE c == GoTo(v, "fetchJwks")
             e == [c EXCEPT !.document = d]
  <2>1. /\ c \in Caller /\ c.pc = "fetchJwks" /\ c.task = caller[v].task
        /\ c.key = caller[v].key /\ c.gap = caller[v].gap /\ c.waited = 0
    BY <1>0, GoToFields DEF Active
  <2>2. /\ e \in Caller /\ e.pc = "fetchJwks" /\ e.task = caller[v].task
        /\ e.key = caller[v].key /\ e.gap = caller[v].gap /\ e.waited = 0
        /\ e.document = d
    <3> HIDE DEF c
    <3> QED
      BY <2>1, DocumentFields
  <2>3. Served(d, MetadataTtl + 2 * MaxLatency - 1 + 0)
    BY DEF TypeOK, Served
  <2>4. Resume(v, d) = e
    BY <1>2 DEF Resume
  <2> QED
    <3> HIDE DEF e
    <3> QED
      BY <1>2, <2>2, <2>3, <2>4 DEF CallerSound, Active
<1>3. CASE caller[v].task = "refresh"
  <2> DEFINE c == GoTo(v, "deleteJwks")
             e == [c EXCEPT !.document = d]
  <2>1. /\ c \in Caller /\ c.pc = "deleteJwks" /\ c.task = caller[v].task
        /\ c.key = caller[v].key /\ c.gap = caller[v].gap /\ c.waited = 0
    BY <1>0, GoToFields DEF Active
  <2>2. /\ e \in Caller /\ e.pc = "deleteJwks" /\ e.task = caller[v].task
        /\ e.key = caller[v].key /\ e.gap = caller[v].gap /\ e.waited = 0
        /\ e.document = d
    <3> HIDE DEF c
    <3> QED
      BY <2>1, DocumentFields
  <2>3. Served(d, MetadataTtl + MaxLatency - 1 + 0)
    BY DEF TypeOK, Served
  <2>4. Resume(v, d) = e
    BY <1>3 DEF Resume
  <2> QED
    <3> HIDE DEF e
    <3> QED
      BY <1>3, <2>2, <2>3, <2>4 DEF CallerSound, Active
<1> QED
  BY <1>0, <1>1, <1>2, <1>3 DEF Caller
-----------------------------------------------------------------------------
(* Time and the provider keep the invariant.                               *)

\* Passing time ages a document or a key set by at most one tick.
LEMMA TickAgesDocument ==
    ASSUME TypeOK, Tick, NEW d \in Documents, NEW age \in Int, Served(d, age)
    PROVE  Served(d, age + 1)'
<1>1. leftFor[d] # None
         => leftFor'[d] # None /\ leftFor'[d] <= leftFor[d] + 1
  BY DEF Tick, Older, TypeOK
<1>2. leftFor[d] # None => leftFor[d] \in Int /\ leftFor'[d] \in Int
  BY DEF Tick, Older, TypeOK
<1> QED
  BY <1>1, <1>2 DEF Tick, Served

LEMMA TickAgesKeys ==
    ASSUME TypeOK, Tick, NEW keys \in KeySets, NEW age \in Int,
           Published(keys, age)
    PROVE  Published(keys, age + 1)'
<1> SUFFICES ASSUME NEW k \in keys \ published, WithdrawnWithin(k, age + 1)
             PROVE  WithdrawnWithin(k, age + 1 + 1)'
  BY DEF Published, Tick
<1>1. k \in Keys
  BY DEF KeySets
<1>2. /\ retiredFor'[k] # None /\ retiredFor'[k] <= retiredFor[k] + 1
      /\ retiredFor[k] \in Int /\ retiredFor'[k] \in Int
  BY <1>1 DEF Tick, Older, TypeOK, WithdrawnWithin
<1> QED
  BY <1>2 DEF WithdrawnWithin

LEMMA TickType == TypeOK /\ Tick => TypeOK'
<1> SUFFICES ASSUME TypeOK, Tick PROVE TypeOK'
  OBVIOUS
<1>1. leftFor' \in [Documents -> {None} \cup 0 .. UriBound]
  BY DEF TypeOK, Tick, Older, UriBound
<1>2. retiredFor' \in [Keys -> {None} \cup 0 .. KeyBound]
  BY DEF TypeOK, Tick, Older, KeyBound
<1>3. metadata' \in {None} \cup [value : Documents, ttl : 1 .. MetadataTtl]
  BY DEF TypeOK, Tick, Aged
<1>4. jwks' \in {None} \cup [value : KeySets, ttl : 1 .. JwksTtl]
  BY DEF TypeOK, Tick, Aged
<1>5. caller' \in [Callers -> Caller]
  <2> SUFFICES ASSUME NEW v \in Callers, caller[v].pc \in Active
               PROVE  [caller[v] EXCEPT !.waited = @ + 1] \in Caller
    BY DEF TypeOK, Tick
  <2>1. caller[v] \in Caller /\ caller[v].waited + 1 \in 0 .. MaxLatency
    BY DEF TypeOK, Tick, Caller
  <2> QED
    BY <2>1 DEF Caller
<1> QED
  BY <1>1, <1>2, <1>3, <1>4, <1>5 DEF TypeOK, Tick

LEMMA TickEntries == CacheInvariant /\ Tick => EntriesSound'
<1> SUFFICES ASSUME CacheInvariant, Tick PROVE EntriesSound'
  OBVIOUS
<1>0. TypeOK
  BY DEF CacheInvariant
<1>1. ASSUME jwks' # None
      PROVE  Published(jwks.value, KeyBound - jwks.ttl)'
  <2>1. /\ jwks # None /\ jwks.value \in KeySets /\ jwks.ttl \in Int
        /\ KeyBound - jwks.ttl \in Int
    BY <1>0, <1>1 DEF Tick, Aged, TypeOK, KeyBound
  <2>2. PICK keys \in KeySets, age \in Int :
           keys = jwks.value /\ age = KeyBound - jwks.ttl
    BY <2>1
  <2>3. Published(keys, age)
    BY <2>1, <2>2 DEF CacheInvariant, EntriesSound
  <2>4. Published(keys, age + 1)'
    BY <1>0, <2>3, TickAgesKeys
  <2>5. keys = jwks'.value /\ age + 1 = KeyBound - jwks'.ttl
    BY <1>0, <1>1, <2>1, <2>2 DEF Tick, Aged, TypeOK, KeyBound
  <2> QED
    BY <2>4, <2>5
<1>2. ASSUME metadata' # None
      PROVE  Served(metadata.value, MetadataTtl + MaxLatency - metadata.ttl)'
  <2>1. /\ metadata # None /\ metadata.value \in Documents
        /\ metadata.ttl \in Int /\ MetadataTtl + MaxLatency - metadata.ttl \in Int
    BY <1>0, <1>2 DEF Tick, Aged, TypeOK
  <2>2. PICK d \in Documents, age \in Int :
           d = metadata.value /\ age = MetadataTtl + MaxLatency - metadata.ttl
    BY <2>1
  <2>3. Served(d, age)
    BY <2>1, <2>2 DEF CacheInvariant, EntriesSound
  <2>4. Served(d, age + 1)'
    BY <1>0, <2>3, TickAgesDocument
  <2>5. d = metadata'.value
        /\ age + 1 = MetadataTtl + MaxLatency - metadata'.ttl
    BY <1>0, <1>2, <2>1, <2>2 DEF Tick, Aged, TypeOK
  <2> QED
    BY <2>4, <2>5
<1> QED
  BY <1>1, <1>2 DEF EntriesSound

LEMMA TickCaller ==
    ASSUME CacheInvariant, Tick, NEW v \in Callers
    PROVE  CallerSound(caller[v])'
<1>0. TypeOK /\ CallerSound(caller[v]) /\ caller[v] \in Caller
  BY DEF CacheInvariant, TypeOK
<1>1. CASE caller[v].pc \notin Active
  <2>1. PICK c \in Caller : c = caller[v] /\ c = caller'[v]
    BY <1>0, <1>1 DEF Tick
  <2>2. CallerSound(c)'
    BY <1>0, <1>1, <2>1 DEF CallerSound, Active
  <2> QED
    BY <2>1, <2>2
<1>2. CASE caller[v].pc \in Active
  <2>1. PICK c \in Caller, e \in Caller :
           /\ c = caller[v] /\ e = caller'[v]
           /\ e.pc = c.pc /\ e.task = c.task /\ e.key = c.key
           /\ e.document = c.document /\ e.keys = c.keys /\ e.gap = c.gap
           /\ e.waited = c.waited + 1
           /\ c.waited \in Int
    <3>1. caller'[v] = [caller[v] EXCEPT !.waited = @ + 1]
      BY <1>2 DEF Tick, TypeOK
    <3>2. caller'[v] \in Caller
      BY <1>0, TickType DEF TypeOK
    <3> QED
      BY <1>0, <3>1, <3>2 DEF Caller
  <2>2. CallerSound(c)
    BY <1>0, <2>1
  <2>3. ASSUME NEW age \in Int, c.document \in Documents,
               Served(c.document, age + c.waited)
        PROVE  Served(e.document, age + e.waited)'
    <3>1. Served(c.document, age + c.waited + 1)'
      BY <1>0, <2>1, <2>3, TickAgesDocument
    <3> QED
      BY <2>1, <3>1
  <2>4. Published(c.keys, c.waited) => Published(e.keys, e.waited)'
    BY <1>0, <2>1, TickAgesKeys DEF Caller
  <2>5. c.document # None => c.document \in Documents
    BY DEF Caller
  <2>6. UNCHANGED published
    BY DEF Tick
  <2>7. e.pc = "saveMetadata" => Served(e.document, e.waited)'
    <3> SUFFICES ASSUME e.pc = "saveMetadata"
                 PROVE  Served(e.document, 0 + e.waited)'
      BY <2>1
    <3>1. c.document \in Documents /\ Served(c.document, 0 + c.waited)
      BY <2>1, <2>2, <2>5 DEF CallerSound
    <3> QED
      BY <2>3, <3>1
  <2>8. e.pc = "deleteJwks"
           => Served(e.document, MetadataTtl + MaxLatency - 1 + e.waited)'
    BY <2>1, <2>2, <2>3, <2>5 DEF CallerSound
  <2>9. e.pc = "fetchJwks"
           => Served(e.document, MetadataTtl + 2 * MaxLatency - 1 + e.waited)'
    BY <2>1, <2>2, <2>3, <2>5 DEF CallerSound
  <2>10. e.pc = "saveJwks" => Published(e.keys, e.waited)'
    BY <2>1, <2>2, <2>4 DEF CallerSound
  <2>11. CallerSound(e)'
    BY <2>1, <2>2, <2>6, <2>7, <2>8, <2>9, <2>10 DEF CallerSound
  <2> QED
    BY <2>1, <2>11
<1> QED
  BY <1>1, <1>2

LEMMA TickInvariant == CacheInvariant /\ Tick => CacheInvariant'
BY TickType, TickEntries, TickCaller DEF CacheInvariant
LEMMA PublishInvariant ==
    ASSUME CacheInvariant, NEW k \in Keys, Publish(k)
    PROVE  CacheInvariant'
<1>1. TypeOK'
  BY DEF CacheInvariant, TypeOK, Publish, KeySets
<1>2. \A keys, age : Published(keys, age) => Published(keys, age)'
  BY DEF Published, WithdrawnWithin, Publish
<1>3. \A d, age : Served(d, age) => Served(d, age)'
  BY DEF Served, Publish
<1>4. EntriesSound'
  BY <1>2, <1>3 DEF CacheInvariant, EntriesSound, Publish
<1>5. \A v \in Callers : CallerSound(caller[v])'
  BY <1>2, <1>3 DEF CacheInvariant, CallerSound, Publish
<1> QED
  BY <1>1, <1>4, <1>5 DEF CacheInvariant

LEMMA RetireInvariant ==
    ASSUME CacheInvariant, NEW k \in Keys, Retire(k)
    PROVE  CacheInvariant'
<1>0. TypeOK
  BY DEF CacheInvariant
<1>1. \A v \in Callers :
         /\ caller'[v] \in Caller
         /\ \/ caller'[v] = caller[v]
                  /\ (caller[v].key # k \/ caller[v].pc \notin Active)
            \/ caller'[v] = [caller[v] EXCEPT !.gap = TRUE]
  <2> TAKE v \in Callers
  <2>1. caller[v] \in Caller
    BY <1>0 DEF TypeOK
  <2>2. [caller[v] EXCEPT !.gap = TRUE] \in Caller
    BY <2>1 DEF Caller
  <2> QED
    BY <2>1, <2>2 DEF Retire
<1>2. TypeOK'
  <2>1. caller' \in [Callers -> Caller]
    BY <1>1 DEF Retire
  <2>2. retiredFor' \in [Keys -> {None} \cup 0 .. KeyBound]
    BY <1>0 DEF Retire, TypeOK, KeyBound
  <2>3. published' \in KeySets
    BY <1>0 DEF Retire, TypeOK, KeySets
  <2> QED
    BY <1>0, <2>1, <2>2, <2>3 DEF TypeOK, Retire
<1>3. ASSUME NEW keys \in KeySets, NEW age \in Nat, Published(keys, age)
      PROVE  Published(keys, age)'
  <2> SUFFICES ASSUME NEW j \in keys \ published'
               PROVE  WithdrawnWithin(j, age + 1)'
    BY DEF Published
  <2>1. j \in Keys
    BY DEF KeySets
  <2>2. CASE j = k
    BY <1>0, <2>1, <2>2 DEF Retire, WithdrawnWithin, TypeOK
  <2>3. CASE j # k
    <3>1. WithdrawnWithin(j, age + 1)
      BY <1>3, <2>3 DEF Published, Retire
    <3> QED
      BY <1>0, <2>1, <2>3, <3>1 DEF Retire, WithdrawnWithin, TypeOK
  <2> QED
    BY <2>2, <2>3
<1>4. \A d, age : Served(d, age) => Served(d, age)'
  BY DEF Served, Retire
<1>5. EntriesSound'
  <2>1. jwks # None
           => jwks.value \in KeySets /\ KeyBound - jwks.ttl \in Nat
    BY <1>0 DEF TypeOK, KeyBound
  <2>2. ASSUME jwks # None
        PROVE  Published(jwks.value, KeyBound - jwks.ttl)'
    <3>1. PICK keys \in KeySets, age \in Nat :
             keys = jwks.value /\ age = KeyBound - jwks.ttl
      BY <2>1, <2>2
    <3>2. Published(keys, age)'
      BY <1>3, <2>2, <3>1 DEF CacheInvariant, EntriesSound
    <3> QED
      BY <3>1, <3>2 DEF Retire
  <2> QED
    BY <1>4, <2>2 DEF CacheInvariant, EntriesSound, Retire
<1>6. ASSUME NEW v \in Callers PROVE CallerSound(caller[v])'
  <2>1. PICK c \in Caller, e \in Caller :
           /\ c = caller[v] /\ e = caller'[v]
           /\ e.pc = c.pc /\ e.task = c.task /\ e.key = c.key
           /\ e.document = c.document /\ e.keys = c.keys
           /\ e.waited = c.waited
           /\ \/ e.gap = c.gap /\ (c.key # k \/ c.pc \notin Active)
              \/ e.gap
    <3>1. caller[v] \in Caller /\ caller'[v] \in Caller
      BY <1>0, <1>1 DEF TypeOK
    <3>2. CASE caller'[v] = caller[v]
                  /\ (caller[v].key # k \/ caller[v].pc \notin Active)
      BY <3>1, <3>2
    <3>3. CASE caller'[v] = [caller[v] EXCEPT !.gap = TRUE]
      BY <3>1, <3>3 DEF Caller
    <3> QED
      BY <1>1, <3>2, <3>3
  <2>2. CallerSound(c)
    BY <2>1 DEF CacheInvariant
  <2>3. c.keys \in KeySets /\ c.waited \in Nat
    BY DEF Caller
  <2>4. Published(c.keys, c.waited) => Published(e.keys, e.waited)'
    BY <1>3, <2>1, <2>3
  <2>5. c.key \notin published' => c.key \notin published \/ c.key = k
    BY DEF Retire
  <2>6. CallerSound(e)'
    BY <1>4, <2>1, <2>2, <2>4, <2>5 DEF CallerSound
  <2> QED
    BY <2>1, <2>6
<1> QED
  BY <1>2, <1>5, <1>6 DEF CacheInvariant

LEMMA MoveInvariant ==
    ASSUME CacheInvariant, NEW d \in Documents, Move(d)
    PROVE  CacheInvariant'
<1>0. TypeOK
  BY DEF CacheInvariant
<1>1. TypeOK'
  BY <1>0 DEF TypeOK, Move, UriBound
<1>2. ASSUME NEW e \in Documents, NEW age \in Nat, Served(e, age)
      PROVE  Served(e, age)'
  BY <1>0, <1>2 DEF TypeOK, Served, Move
<1>3. \A keys, age : Published(keys, age) => Published(keys, age)'
  BY DEF Published, WithdrawnWithin, Move
<1>4. EntriesSound'
  <2>1. metadata # None
           => metadata.value \in Documents
              /\ MetadataTtl + MaxLatency - metadata.ttl \in Nat
    BY <1>0 DEF TypeOK
  <2>2. ASSUME metadata # None
        PROVE  Served(metadata.value,
                      MetadataTtl + MaxLatency - metadata.ttl)'
    <3>1. PICK e \in Documents, age \in Nat :
             /\ e = metadata.value
             /\ age = MetadataTtl + MaxLatency - metadata.ttl
      BY <2>1, <2>2
    <3>2. Served(e, age)'
      BY <1>2, <2>2, <3>1 DEF CacheInvariant, EntriesSound
    <3> QED
      BY <3>1, <3>2 DEF Move
  <2> QED
    BY <1>3, <2>2 DEF CacheInvariant, EntriesSound, Move
<1>5. ASSUME NEW v \in Callers PROVE CallerSound(caller[v])'
  <2>1. PICK c \in Caller : c = caller[v] /\ c = caller'[v]
    BY <1>0 DEF TypeOK, Move
  <2>2. CallerSound(c)
    BY <2>1 DEF CacheInvariant
  <2>3. /\ c.waited \in Nat
        /\ MetadataTtl + MaxLatency - 1 + c.waited \in Nat
        /\ MetadataTtl + 2 * MaxLatency - 1 + c.waited \in Nat
        /\ c.document # None => c.document \in Documents
    BY DEF Caller
  <2>4. CallerSound(c)'
    BY <1>2, <1>3, <2>2, <2>3 DEF CallerSound, Move
  <2> QED
    BY <2>1, <2>4
<1> QED
  BY <1>1, <1>4, <1>5 DEF CacheInvariant
-----------------------------------------------------------------------------
(* The callers keep the invariant.                                         *)

LEMMA NeedMetadataInvariant ==
    ASSUME CacheInvariant, NEW v \in Callers, NeedMetadata(v)
    PROVE  CacheInvariant'
<1>1. /\ Fresh("getMetadata") \in Caller
      /\ CallerSound(Fresh("getMetadata"))
  BY FreshFields DEF CallerSound, Active
<1> QED
  BY <1>1, CallerReads DEF NeedMetadata

LEMMA NeedKeyInvariant ==
    ASSUME CacheInvariant, NEW v \in Callers, NEW k \in Keys, NeedKey(v, k)
    PROVE  CacheInvariant'
<1> DEFINE c == Fresh("getJwks")
           e == [c EXCEPT !.task = "fill", !.key = k,
                          !.gap = k \notin published]
<1>1. c \in Caller /\ c.pc = "getJwks"
  BY FreshFields DEF Active
<1>2. /\ e \in Caller /\ e.pc = "getJwks" /\ e.task = "fill" /\ e.key = k
      /\ e.gap = (k \notin published)
  <2> DEFINE f == [c EXCEPT !.task = "fill"]
             g == [f EXCEPT !.key = k]
  <2>1. f \in Caller /\ f.pc = "getJwks" /\ f.task = "fill"
    <3> HIDE DEF c
    <3> QED
      BY <1>1 DEF Caller
  <2>2. g \in Caller /\ g.pc = "getJwks" /\ g.task = "fill" /\ g.key = k
    <3> HIDE DEF f
    <3> QED
      BY <2>1 DEF Caller
  <2>3. PICK gap \in BOOLEAN : gap = (k \notin published)
    OBVIOUS
  <2>4. LET h == [g EXCEPT !.gap = gap]
        IN  /\ h \in Caller /\ h.pc = "getJwks" /\ h.task = "fill"
            /\ h.key = k /\ h.gap = gap
    <3> HIDE DEF g
    <3> QED
      BY <2>2 DEF Caller
  <2> QED
    BY <2>3, <2>4
<1>3. CallerSound(e)
  <2> HIDE DEF e
  <2> QED
    BY <1>2 DEF CallerSound, Active
<1> QED
  BY <1>2, <1>3, CallerReads DEF NeedKey

\* A caller between two calls whose task and key are as they were.
LEMMA CallerGoesOn ==
    ASSUME CacheInvariant, NEW v \in Callers, caller[v].pc \in Active,
           NEW pc \in {"getMetadata", "fetchMetadata"}
    PROVE  GoTo(v, pc) \in Caller /\ CallerSound(GoTo(v, pc))
<1>1. caller[v] \in Caller /\ CallerSound(caller[v])
  BY DEF CacheInvariant, TypeOK
<1>2. pc \in Active
  BY DEF Active
<1> QED
  BY <1>1, <1>2, GoToFields DEF CallerSound, Active

LEMMA GetJwksInvariant ==
    ASSUME CacheInvariant, NEW v \in Callers, GetJwks(v)
    PROVE  CacheInvariant'
<1>1. /\ caller[v] \in Caller /\ CallerSound(caller[v])
      /\ caller[v].pc \in Active /\ caller[v].task = "fill"
  BY DEF CacheInvariant, TypeOK, CallerSound, GetJwks, Active
<1>2. CASE jwks = None
  <2>1. caller' = [caller EXCEPT ![v] = GoTo(v, "getMetadata")]
    BY <1>2 DEF GetJwks
  <2> QED
    BY <1>1, <2>1, CallerGoesOn, CallerReads DEF GetJwks
<1>3. CASE jwks # None
  <2>1. /\ Select(v, jwks.value) \in Caller
        /\ CallerSound(Select(v, jwks.value))
    BY <1>1, SelectSound
  <2>2. caller' = [caller EXCEPT ![v] = Select(v, jwks.value)]
    BY <1>3 DEF GetJwks
  <2> QED
    BY <2>1, <2>2, CallerReads DEF GetJwks
<1> QED
  BY <1>2, <1>3

LEMMA GetMetadataInvariant ==
    ASSUME CacheInvariant, NEW v \in Callers, GetMetadata(v)
    PROVE  CacheInvariant'
<1>1. /\ TypeOK /\ CallerSound(caller[v]) /\ caller[v].pc \in Active
  BY DEF CacheInvariant, GetMetadata, Active
<1>2. CASE metadata = None
  <2>1. caller' = [caller EXCEPT ![v] = GoTo(v, "fetchMetadata")]
    BY <1>2 DEF GetMetadata
  <2> QED
    BY <1>1, <2>1, CallerGoesOn, CallerReads DEF GetMetadata
<1>3. CASE metadata # None
  <2>1. metadata.value \in Documents /\ metadata.ttl \in 1 .. MetadataTtl
    BY <1>1, <1>3 DEF TypeOK
  <2>2. Served(metadata.value, MetadataTtl + MaxLatency - metadata.ttl)
    BY <1>3 DEF CacheInvariant, EntriesSound
  <2>3. Served(metadata.value, MetadataTtl + MaxLatency - 1)
    BY <1>1, <2>1, <2>2 DEF Served, TypeOK
  <2>4. /\ Resume(v, metadata.value) \in Caller
        /\ CallerSound(Resume(v, metadata.value))
    BY <1>1, <2>1, <2>3, ResumeSound
  <2>5. caller' = [caller EXCEPT ![v] = Resume(v, metadata.value)]
    BY <1>3 DEF GetMetadata
  <2> QED
    BY <2>4, <2>5, CallerReads DEF GetMetadata
<1> QED
  BY <1>2, <1>3

LEMMA FetchMetadataInvariant ==
    ASSUME CacheInvariant, NEW v \in Callers, FetchMetadata(v)
    PROVE  CacheInvariant'
<1> DEFINE c == GoTo(v, "saveMetadata")
           e == [c EXCEPT !.document = document]
<1>1. /\ TypeOK /\ caller[v] \in Caller /\ CallerSound(caller[v])
      /\ caller[v].pc \in Active
  BY DEF CacheInvariant, TypeOK, FetchMetadata, Active
<1>2. /\ c \in Caller /\ c.pc = "saveMetadata" /\ c.task = caller[v].task
      /\ c.key = caller[v].key /\ c.gap = caller[v].gap
  BY <1>1, GoToFields DEF Active
<1>3. /\ e \in Caller /\ e.pc = "saveMetadata" /\ e.task = caller[v].task
      /\ e.key = caller[v].key /\ e.gap = caller[v].gap
      /\ e.document = document
  <2> HIDE DEF c
  <2> QED
    BY <1>1, <1>2, DocumentFields DEF TypeOK
<1>4. CallerSound(e)
  <2> HIDE DEF e
  <2> QED
    BY <1>1, <1>3 DEF CallerSound, Active, Served, TypeOK
<1>5. caller' = [caller EXCEPT ![v] = e]
  BY DEF FetchMetadata
<1> QED
  <2> HIDE DEF e
  <2> QED
    BY <1>3, <1>4, <1>5, CallerReads DEF FetchMetadata

LEMMA SaveMetadataInvariant ==
    ASSUME CacheInvariant, NEW v \in Callers, SaveMetadata(v)
    PROVE  CacheInvariant'
<1> DEFINE d == caller[v].document
<1>1. /\ TypeOK /\ caller[v] \in Caller /\ CallerSound(caller[v])
      /\ caller[v].pc = "saveMetadata"
  BY DEF CacheInvariant, TypeOK, SaveMetadata
<1>2. d \in Documents /\ Served(d, caller[v].waited)
  BY <1>1 DEF CallerSound, Caller
<1>3. Served(d, MetadataTtl + MaxLatency - MetadataTtl)
      /\ Served(d, MetadataTtl + MaxLatency - 1)
  BY <1>1, <1>2 DEF Served, TypeOK, Caller
<1>4. Resume(v, d) \in Caller /\ CallerSound(Resume(v, d))
  BY <1>1, <1>2, <1>3, ResumeSound DEF Active
<1>5. metadata' \in {None} \cup [value : Documents, ttl : 1 .. MetadataTtl]
  BY <1>1, <1>2 DEF SaveMetadata, Set, TypeOK
<1>6. jwks' \in {None} \cup [value : KeySets, ttl : 1 .. JwksTtl]
  BY <1>1 DEF SaveMetadata, TypeOK
<1>7. EntriesSound'
  <2>1. CASE metadata' = metadata
    BY <2>1 DEF CacheInvariant, EntriesSound, Published, Served,
                WithdrawnWithin, SaveMetadata, provider
  <2>2. CASE metadata' = Set(d, MetadataTtl)
    <3>1. Served(metadata'.value, MetadataTtl + MaxLatency - metadata'.ttl)
      BY <1>3, <2>2 DEF Set
    <3> QED
      BY <3>1 DEF CacheInvariant, EntriesSound, Published, Served,
                  WithdrawnWithin, SaveMetadata, provider
  <2> QED
    BY <2>1, <2>2 DEF SaveMetadata
<1>8. caller' = [caller EXCEPT ![v] = Resume(v, d)] /\ UNCHANGED provider
  BY DEF SaveMetadata
<1> QED
  <2> HIDE DEF d
  <2> QED
    BY <1>4, <1>5, <1>6, <1>7, <1>8, CallerMoves

LEMMA DeleteJwksInvariant ==
    ASSUME CacheInvariant, NEW v \in Callers, DeleteJwks(v)
    PROVE  CacheInvariant'
<1> DEFINE c == GoTo(v, "fetchJwks")
<1>1. /\ TypeOK /\ caller[v] \in Caller /\ CallerSound(caller[v])
      /\ caller[v].pc = "deleteJwks"
  BY DEF CacheInvariant, TypeOK, DeleteJwks
<1>2. /\ c \in Caller /\ c.pc = "fetchJwks" /\ c.task = caller[v].task
      /\ c.key = caller[v].key /\ c.gap = caller[v].gap
      /\ c.document = caller[v].document /\ c.waited = 0
  BY <1>1, GoToFields DEF Active
<1>3. Served(c.document, MetadataTtl + 2 * MaxLatency - 1 + 0)
  BY <1>1, <1>2 DEF CallerSound, Served, TypeOK, Caller
<1>4. CallerSound(c)
  <2> HIDE DEF c
  <2> QED
    BY <1>1, <1>2, <1>3 DEF CallerSound, Active
<1>5. /\ metadata' \in {None} \cup [value : Documents, ttl : 1 .. MetadataTtl]
      /\ jwks' \in {None} \cup [value : KeySets, ttl : 1 .. JwksTtl]
  BY <1>1 DEF DeleteJwks, TypeOK
<1>6. EntriesSound'
  BY DEF CacheInvariant, EntriesSound, Published, Served, WithdrawnWithin,
         DeleteJwks, provider
<1>7. caller' = [caller EXCEPT ![v] = c] /\ UNCHANGED provider
  BY DEF DeleteJwks
<1> QED
  <2> HIDE DEF c
  <2> QED
    BY <1>2, <1>4, <1>5, <1>6, <1>7, CallerMoves

LEMMA FetchJwksInvariant ==
    ASSUME CacheInvariant, NEW v \in Callers, FetchJwks(v)
    PROVE  CacheInvariant'
<1> DEFINE c == GoTo(v, "saveJwks")
           e == [c EXCEPT !.document = None, !.keys = published]
<1>1. /\ TypeOK /\ caller[v] \in Caller /\ CallerSound(caller[v])
      /\ caller[v].pc = "fetchJwks"
  BY DEF CacheInvariant, TypeOK, FetchJwks
<1>2. /\ c \in Caller /\ c.pc = "saveJwks" /\ c.task = caller[v].task
      /\ c.key = caller[v].key /\ c.gap = caller[v].gap
  BY <1>1, GoToFields DEF Active
<1>3. /\ e \in Caller /\ e.pc = "saveJwks" /\ e.task = caller[v].task
      /\ e.key = caller[v].key /\ e.gap = caller[v].gap
      /\ e.keys = published
  <2>1. published \in KeySets
    BY <1>1 DEF TypeOK
  <2> HIDE DEF c
  <2> QED
    BY <1>2, <2>1, KeysFields
<1>4. CallerSound(e)
  <2> HIDE DEF e
  <2> QED
    BY <1>1, <1>3 DEF CallerSound, Active, Published
<1>5. caller' = [caller EXCEPT ![v] = e]
  BY DEF FetchJwks
<1> QED
  <2> HIDE DEF e
  <2> QED
    BY <1>3, <1>4, <1>5, CallerReads DEF FetchJwks

LEMMA SaveJwksInvariant ==
    ASSUME CacheInvariant, NEW v \in Callers, SaveJwks(v)
    PROVE  CacheInvariant'
<1> DEFINE keys == caller[v].keys
<1>1. /\ TypeOK /\ caller[v] \in Caller /\ CallerSound(caller[v])
      /\ caller[v].pc = "saveJwks"
  BY DEF CacheInvariant, TypeOK, SaveJwks
<1>2. /\ keys \in KeySets /\ Published(keys, caller[v].waited)
      /\ caller[v].key \in keys \/ caller[v].gap
      /\ caller[v].task \in {"fill", "refresh"}
  BY <1>1 DEF CallerSound, Caller
<1>3. Published(keys, KeyBound - JwksTtl)
  <2>1. ASSUME NEW k \in keys \ published PROVE retiredFor[k] \in {None} \cup Int
    BY <1>1, <1>2 DEF KeySets, TypeOK
  <2>2. KeyBound - JwksTtl = MaxLatency /\ caller[v].waited \in 0 .. MaxLatency
    BY <1>1 DEF KeyBound, Caller
  <2> QED
    BY <1>2, <2>1, <2>2 DEF Published, WithdrawnWithin
<1>4. Select(v, keys) \in Caller /\ CallerSound(Select(v, keys))
  BY <1>1, <1>2, SelectSound DEF Active
<1>5. jwks' \in {None} \cup [value : KeySets, ttl : 1 .. JwksTtl]
  BY <1>1, <1>2 DEF SaveJwks, Set, TypeOK
<1>6. metadata' \in {None} \cup [value : Documents, ttl : 1 .. MetadataTtl]
  BY <1>1 DEF SaveJwks, TypeOK
<1>7. EntriesSound'
  <2>1. CASE jwks' = jwks
    BY <2>1 DEF CacheInvariant, EntriesSound, Published, Served,
                WithdrawnWithin, SaveJwks, provider
  <2>2. CASE jwks' = Set(keys, JwksTtl)
    <3>1. Published(jwks'.value, KeyBound - jwks'.ttl)
      BY <1>3, <2>2 DEF Set
    <3> QED
      BY <3>1 DEF CacheInvariant, EntriesSound, Published, Served,
                  WithdrawnWithin, SaveJwks, provider
  <2> QED
    BY <2>1, <2>2 DEF SaveJwks
<1>8. caller' = [caller EXCEPT ![v] = Select(v, keys)] /\ UNCHANGED provider
  BY DEF SaveJwks
<1> QED
  <2> HIDE DEF keys
  <2> QED
    BY <1>4, <1>5, <1>6, <1>7, <1>8, CallerMoves

LEMMA CallFailsInvariant ==
    ASSUME CacheInvariant, NEW v \in Callers, CallFails(v)
    PROVE  CacheInvariant'
<1>1. Fresh("failed") \in Caller /\ CallerSound(Fresh("failed"))
  BY FreshFields, AtRest DEF Active, Ended
<1> QED
  BY <1>1, CallerReads DEF CallFails

LEMMA InitInvariant == Init => CacheInvariant
<1> SUFFICES ASSUME Init PROVE CacheInvariant
  OBVIOUS
<1>1. TypeOK
  BY FreshFields DEF Init, TypeOK
<1>2. EntriesSound
  BY DEF Init, EntriesSound
<1>3. \A v \in Callers : CallerSound(caller[v])
  BY FreshFields, AtRest DEF Init, Active
<1> QED
  BY <1>1, <1>2, <1>3 DEF CacheInvariant

LEMMA NextInvariant == CacheInvariant /\ [Next]_vars => CacheInvariant'
<1> SUFFICES ASSUME CacheInvariant, [Next]_vars PROVE CacheInvariant'
  OBVIOUS
<1>1. ASSUME NEW v \in Callers, CallStep(v) PROVE CacheInvariant'
  BY <1>1, GetJwksInvariant, GetMetadataInvariant, FetchMetadataInvariant,
     SaveMetadataInvariant, DeleteJwksInvariant, FetchJwksInvariant,
     SaveJwksInvariant, CallFailsInvariant DEF CallStep
<1>2. CASE UNCHANGED vars
  BY <1>2 DEF vars, provider, CacheInvariant, TypeOK, EntriesSound,
              CallerSound, Published, Served, WithdrawnWithin
<1> QED
  BY <1>1, <1>2, TickInvariant, PublishInvariant, RetireInvariant,
     MoveInvariant, NeedMetadataInvariant, NeedKeyInvariant DEF Next
-----------------------------------------------------------------------------
(* The invariants.                                                         *)

\* What the entries and the callers hold is as recent as the remaining
\* lifetimes and the waiting times say: no read, refresh or save makes old
\* data look young (orchestrateDiscoveryClient, redisDiscoveryCacheClient).
THEOREM CacheStaysSound == Spec => []CacheInvariant
BY InitInvariant, NextInvariant, PTL DEF Spec

\* Entries and callers stay within their bounds: an entry always has a
\* lifetime, no call outlasts MaxLatency.
THEOREM CacheTypes == Spec => []TypeOK
<1>1. CacheInvariant => TypeOK
  BY DEF CacheInvariant
<1> QED
  BY <1>1, CacheStaysSound, PTL

\* A key id is unknown only if the key was not published throughout the call
\* (IdTokenVerifier.Verify, RefreshJwks).
THEOREM UnknownKids == Spec => []UnknownKidWasUnpublished
<1>1. CacheInvariant => UnknownKidWasUnpublished
  BY DEF CacheInvariant, CallerSound, UnknownKidWasUnpublished
<1> QED
  BY <1>1, CacheStaysSound, PTL

-----------------------------------------------------------------------------
(* The verdicts.                                                           *)

\* A key that may still be found.
Usable(k) == k \in published \/ WithdrawnWithin(k, KeyBound)

\* The verdicts and what each of them shows.
Verdicts == {"keyFound", "unknownKid", "badSignature"}

Shown(c, verdict) ==
    /\ c.pc \in Active /\ c.key \in Keys
    /\ verdict = "keyFound" => Usable(c.key)
    /\ verdict = "unknownKid" => c.gap
    /\ verdict = "badSignature" =>
          \E k \in Keys : /\ k # c.key /\ KidOf[k] = KidOf[c.key]
                          /\ Usable(k)

\* What v's own step makes of it: it goes on with its request, or fails, or
\* comes to a verdict.
Outcome(v, c) ==
    /\ c \in Caller
    /\ \/ c.pc \in Active /\ RequestOf(c) = RequestOf(caller[v])
       \/ c.pc = "metadataReady" /\ RequestOf(c) = RequestOf(caller[v])
       \/ c.pc = "failed"
       \/ c.pc \in Verdicts /\ Shown(caller[v], c.pc)

\* The keys that Verify chooses from were all published in the last KeyBound
\* ticks.
LEMMA SelectOutcome ==
    ASSUME NEW v \in Callers, NEW keys \in KeySets,
           caller[v] \in Caller, CallerSound(caller[v]),
           caller[v].pc \in Active, caller[v].key \in Keys,
           caller[v].task \in {"fill", "refresh"},
           caller[v].task = "refresh"
              => caller[v].key \in keys \/ caller[v].gap,
           Published(keys, KeyBound - 1)
    PROVE  Outcome(v, Select(v, keys))
<1>0. Select(v, keys) \in Caller
  BY SelectSound
<1>1. \A k \in keys : k \in Keys /\ Usable(k)
  BY DEF Published, Usable, WithdrawnWithin, KeySets, KeyBound
<1>2. CASE caller[v].key \in keys
  <2>1. Select(v, keys) = Fresh("keyFound")
    BY <1>2 DEF Select, HasKid, Checked
  <2>2. Fresh("keyFound").pc = "keyFound"
    BY FreshFields DEF Ended
  <2> QED
    BY <1>0, <1>1, <1>2, <2>1, <2>2 DEF Outcome, Shown, Verdicts
<1>3. CASE HasKid(v, keys) /\ caller[v].key \notin keys
  <2>1. Select(v, keys) = Fresh("badSignature")
    BY <1>3 DEF Select, Checked
  <2>2. Fresh("badSignature").pc = "badSignature"
    BY FreshFields DEF Ended
  <2>3. \E k \in Keys : /\ k # caller[v].key
                        /\ KidOf[k] = KidOf[caller[v].key] /\ Usable(k)
    BY <1>1, <1>3 DEF HasKid
  <2> QED
    BY <1>0, <2>1, <2>2, <2>3 DEF Outcome, Shown, Verdicts
<1>4. CASE ~HasKid(v, keys) /\ caller[v].task = "fill"
  <2>1. Select(v, keys) = Refresh(v)
    BY <1>4 DEF Select
  <2>2. RequestOf(Refresh(v)) = RequestOf(caller[v])
    BY RefreshFields DEF RequestOf, Active
  <2>3. Refresh(v).pc \in Active
    BY RefreshFields DEF Active
  <2> QED
    BY <1>0, <2>1, <2>2, <2>3 DEF Outcome
<1>5. CASE ~HasKid(v, keys) /\ caller[v].task = "refresh"
  <2>1. Select(v, keys) = Unknown(v) /\ caller[v].gap
    BY <1>5 DEF Select, HasKid
  <2>2. Unknown(v).pc = "unknownKid"
    BY UnknownFields
  <2> QED
    BY <1>0, <2>1, <2>2 DEF Outcome, Shown, Verdicts
<1>6. caller[v].key \in keys => HasKid(v, keys)
  BY DEF HasKid
<1> QED
  BY <1>2, <1>3, <1>4, <1>5, <1>6

LEMMA ResumeOutcome ==
    ASSUME TypeOK, NEW v \in Callers, NEW d \in Documents,
           CallerSound(caller[v]), caller[v].pc \in Active,
           Resume(v, d) \in Caller
    PROVE  Outcome(v, Resume(v, d))
<1>0. caller[v] \in Caller
  BY DEF TypeOK
<1>1. CASE caller[v].task = "metadata"
  <2> DEFINE c == Fresh("metadataReady")
  <2>1. c \in Caller /\ c.pc = "metadataReady" /\ c.key = None
    BY FreshFields DEF Ended
  <2>2. Resume(v, d) = [c EXCEPT !.document = d]
    BY <1>1 DEF Resume
  <2>3. Resume(v, d).pc = "metadataReady" /\ Resume(v, d).key = None
    <3> HIDE DEF c
    <3> QED
      BY <2>1, <2>2, DocumentFields
  <2>4. caller[v].key = None
    BY <1>1 DEF CallerSound
  <2> QED
    BY <2>3, <2>4 DEF Outcome, RequestOf, Active
<1>2. ASSUME NEW pc \in {"fetchJwks", "deleteJwks"},
             Resume(v, d) = [GoTo(v, pc) EXCEPT !.document = d]
      PROVE  Outcome(v, Resume(v, d))
  <2> DEFINE c == GoTo(v, pc)
  <2>1. /\ c \in Caller /\ c.pc = pc /\ c.key = caller[v].key
        /\ c.gap = caller[v].gap
    BY <1>0, GoToFields DEF Active
  <2>2. /\ Resume(v, d).pc = pc /\ Resume(v, d).key = caller[v].key
        /\ Resume(v, d).gap = caller[v].gap
    <3>1. Resume(v, d) = [c EXCEPT !.document = d]
      BY <1>2
    <3> HIDE DEF c
    <3> QED
      BY <2>1, <3>1, DocumentFields
  <2> QED
    BY <2>2 DEF Outcome, RequestOf, Active
<1>3. caller[v].task = "fill"
         => Resume(v, d) = [GoTo(v, "fetchJwks") EXCEPT !.document = d]
  BY DEF Resume
<1>4. caller[v].task = "refresh"
         => Resume(v, d) = [GoTo(v, "deleteJwks") EXCEPT !.document = d]
  BY DEF Resume
<1> QED
  BY <1>0, <1>1, <1>2, <1>3, <1>4 DEF Caller

LEMMA GoToOutcome ==
    ASSUME NEW v \in Callers, caller[v] \in Caller, caller[v].pc \in Active,
           NEW pc \in Active, NEW c \in Caller, c.pc = pc,
           c.key = caller[v].key, c.gap = caller[v].gap
    PROVE  Outcome(v, c)
<1>1. RequestOf(c) = RequestOf(caller[v])
  BY DEF RequestOf, Active
<1> QED
  BY <1>1 DEF Outcome

LEMMA CallOutcome ==
    ASSUME CacheInvariant, NEW v \in Callers, CallStep(v)
    PROVE  /\ UNCHANGED provider
           /\ \E c : Outcome(v, c) /\ caller' = [caller EXCEPT ![v] = c]
<1>0. /\ TypeOK /\ caller[v] \in Caller /\ CallerSound(caller[v])
      /\ caller'[v] \in Caller /\ caller[v].pc \in Active
  <2>1. CacheInvariant'
    BY NextInvariant DEF Next
  <2> QED
    BY <2>1 DEF CacheInvariant, TypeOK, CallStep, GetJwks, GetMetadata,
                FetchMetadata, SaveMetadata, DeleteJwks, FetchJwks, SaveJwks,
                CallFails, Active
<1>p. UNCHANGED provider
  BY DEF CallStep, GetJwks, GetMetadata, FetchMetadata, SaveMetadata,
         DeleteJwks, FetchJwks, SaveJwks, CallFails
<1> SUFFICES \E c : Outcome(v, c) /\ caller' = [caller EXCEPT ![v] = c]
  BY <1>p
<1>g. ASSUME NEW pc \in Active
      PROVE  /\ GoTo(v, pc) \in Caller /\ Outcome(v, GoTo(v, pc))
             /\ GoTo(v, pc).pc = pc /\ GoTo(v, pc).key = caller[v].key
             /\ GoTo(v, pc).gap = caller[v].gap
  BY <1>0, GoToFields, GoToOutcome
<1>1. CASE GetJwks(v)
  <2>1. CASE jwks = None
    BY <1>g, <1>1, <2>1 DEF GetJwks, Active
  <2>2. CASE jwks # None
    <3>1. jwks.value \in KeySets /\ jwks.ttl \in 1 .. JwksTtl
      BY <1>0, <2>2 DEF TypeOK
    <3>2. Published(jwks.value, KeyBound - jwks.ttl)
      BY <2>2 DEF CacheInvariant, EntriesSound
    <3>3. Published(jwks.value, KeyBound - 1)
      <4>1. ASSUME NEW k \in jwks.value
            PROVE  retiredFor[k] \in {None} \cup Int
        BY <1>0, <3>1 DEF TypeOK, KeySets
      <4> QED
        BY <3>1, <3>2, <4>1 DEF Published, WithdrawnWithin, KeyBound
    <3>4. caller[v].task = "fill" /\ caller[v].key \in Keys
      BY <1>0, <1>1 DEF CallerSound, GetJwks, Caller
    <3>5. Outcome(v, Select(v, jwks.value))
      BY <1>0, <3>1, <3>3, <3>4, SelectOutcome
    <3> QED
      BY <1>1, <2>2, <3>5 DEF GetJwks
  <2> QED
    BY <2>1, <2>2
<1>2. CASE GetMetadata(v)
  <2>1. CASE metadata = None
    BY <1>g, <1>2, <2>1 DEF GetMetadata, Active
  <2>2. CASE metadata # None
    <3>1. metadata.value \in Documents
      BY <1>0, <2>2 DEF TypeOK
    <3>2. caller' = [caller EXCEPT ![v] = Resume(v, metadata.value)]
      BY <1>2, <2>2 DEF GetMetadata
    <3>3. Resume(v, metadata.value) \in Caller
      BY <1>0, <3>2 DEF TypeOK
    <3> QED
      BY <1>0, <3>1, <3>2, <3>3, ResumeOutcome
  <2> QED
    BY <2>1, <2>2
<1>3. CASE FetchMetadata(v)
  <2> DEFINE c == GoTo(v, "saveMetadata")
             e == [c EXCEPT !.document = document]
  <2>1. /\ c \in Caller /\ c.pc = "saveMetadata" /\ c.key = caller[v].key
        /\ c.gap = caller[v].gap
    BY <1>g DEF Active
  <2>2. Outcome(v, e)
    <3>1. document \in Documents /\ "saveMetadata" \in Active
      BY <1>0 DEF TypeOK, Active
    <3>2. /\ e \in Caller /\ e.pc = "saveMetadata" /\ e.key = caller[v].key
          /\ e.gap = caller[v].gap
      <4> HIDE DEF c
      <4> QED
        BY <2>1, <3>1, DocumentFields
    <3> HIDE DEF e
    <3> QED
      BY <1>0, <3>1, <3>2, GoToOutcome
  <2> QED
    BY <1>3, <2>2 DEF FetchMetadata
<1>4. CASE SaveMetadata(v)
  <2>1. caller[v].document \in Documents
    BY <1>0, <1>4 DEF CallerSound, SaveMetadata, Caller
  <2>2. caller' = [caller EXCEPT ![v] = Resume(v, caller[v].document)]
    BY <1>4 DEF SaveMetadata
  <2>3. Resume(v, caller[v].document) \in Caller
    BY <1>0, <2>2 DEF TypeOK
  <2> QED
    BY <1>0, <2>1, <2>2, <2>3, ResumeOutcome
<1>5. CASE DeleteJwks(v)
  BY <1>g, <1>5 DEF DeleteJwks, Active
<1>6. CASE FetchJwks(v)
  <2> DEFINE c == GoTo(v, "saveJwks")
             e == [c EXCEPT !.document = None, !.keys = published]
  <2>1. /\ c \in Caller /\ c.pc = "saveJwks" /\ c.key = caller[v].key
        /\ c.gap = caller[v].gap
    BY <1>g DEF Active
  <2>2. Outcome(v, e)
    <3>0. "saveJwks" \in Active
      BY DEF Active
    <3>1. published \in KeySets
      BY <1>0 DEF TypeOK
    <3>2. /\ e \in Caller /\ e.pc = "saveJwks" /\ e.key = caller[v].key
          /\ e.gap = caller[v].gap
      <4>1. /\ e \in Caller /\ e.pc = c.pc /\ e.key = c.key
            /\ e.gap = c.gap
        <5> HIDE DEF c
        <5> QED
          BY <2>1, <3>1, KeysFields
      <4> HIDE DEF c, e
      <4> QED
        BY <2>1, <4>1
    <3> HIDE DEF e
    <3> QED
      BY <1>0, <3>0, <3>2, GoToOutcome
  <2> QED
    BY <1>6, <2>2 DEF FetchJwks
<1>7. CASE SaveJwks(v)
  <2> DEFINE keys == caller[v].keys
  <2>1. /\ keys \in KeySets /\ Published(keys, caller[v].waited)
        /\ caller[v].key \in keys \/ caller[v].gap
        /\ caller[v].task \in {"fill", "refresh"} /\ caller[v].key \in Keys
    BY <1>0, <1>7 DEF CallerSound, SaveJwks, Caller, Active
  <2>2. Published(keys, KeyBound - 1)
    <3>1. ASSUME NEW k \in keys PROVE retiredFor[k] \in {None} \cup Int
      BY <1>0, <2>1 DEF KeySets, TypeOK
    <3>2. KeyBound - 1 \in Int /\ caller[v].waited \in Int
          /\ caller[v].waited <= KeyBound - 1
      BY <1>0 DEF KeyBound, Caller
    <3> QED
      BY <2>1, <3>1, <3>2 DEF Published, WithdrawnWithin
  <2>3. Outcome(v, Select(v, keys))
    BY <1>0, <2>1, <2>2, SelectOutcome
  <2> QED
    BY <1>7, <2>3 DEF SaveJwks
<1>8. CASE CallFails(v)
  <2>1. Outcome(v, Fresh("failed"))
    BY FreshFields DEF Outcome, Ended
  <2> QED
    BY <1>8, <2>1 DEF CallFails
<1> QED
  BY <1>1, <1>2, <1>3, <1>4, <1>5, <1>6, <1>7, <1>8 DEF CallStep
\* A step of the provider, of the clock or of another caller, or one that
\* starts a call, gives v no verdict.
LEMMA VerdictStep ==
    ASSUME CacheInvariant, [Next]_vars, NEW v \in Callers,
           caller'[v].pc # caller[v].pc, caller'[v].pc \in Verdicts
    PROVE  Shown(caller[v], caller'[v].pc)
<1>0. caller \in [Callers -> Caller]
  BY DEF CacheInvariant, TypeOK
<1>1. CASE Tick
  <2>1. caller[v] \in Caller
    BY <1>0
  <2>2. caller'[v].pc = caller[v].pc
    BY <1>1, <2>1 DEF Tick, Caller
  <2> QED
    BY <2>2
<1>2. ASSUME NEW k \in Keys, Publish(k) \/ Retire(k) PROVE FALSE
  <2>1. caller[v] \in Caller
    BY <1>0
  <2>2. caller'[v].pc = caller[v].pc
    BY <1>2, <2>1 DEF Publish, Retire, Caller
  <2> QED
    BY <2>2
<1>3. ASSUME NEW d \in Documents, Move(d) PROVE FALSE
  BY <1>3 DEF Move
<1>4. ASSUME NEW u \in Callers, NeedMetadata(u) PROVE FALSE
  <2>1. Fresh("getMetadata").pc = "getMetadata"
    BY FreshFields DEF Active
  <2>2. caller'[v] = Fresh("getMetadata") \/ caller'[v] = caller[v]
    BY <1>0, <1>4 DEF NeedMetadata
  <2> QED
    BY <2>1, <2>2 DEF Verdicts
<1>5. ASSUME NEW u \in Callers, NEW k \in Keys, NeedKey(u, k) PROVE FALSE
  <2> DEFINE c == [Fresh("getJwks") EXCEPT !.task = "fill", !.key = k,
                                           !.gap = k \notin published]
  <2>1. c.pc = "getJwks"
    BY DEF Fresh
  <2>2. caller'[v] = c \/ caller'[v] = caller[v]
    BY <1>0, <1>5 DEF NeedKey
  <2> HIDE DEF c
  <2> QED
    BY <2>1, <2>2 DEF Verdicts
<1>6. ASSUME NEW u \in Callers, CallStep(u)
      PROVE  Shown(caller[v], caller'[v].pc)
  <2>1. PICK c : Outcome(u, c) /\ caller' = [caller EXCEPT ![u] = c]
    BY <1>6, CallOutcome
  <2>2. u = v /\ caller'[v] = c
    BY <1>0, <2>1
  <2>3. "metadataReady" \notin Verdicts /\ "failed" \notin Verdicts
        /\ c.pc \notin Active
    BY <2>2 DEF Verdicts, Active
  <2> QED
    BY <2>1, <2>2, <2>3 DEF Outcome
<1>7. CASE UNCHANGED vars
  BY <1>7 DEF vars
<1> QED
  BY <1>1, <1>2, <1>3, <1>4, <1>5, <1>6, <1>7 DEF Next

\* A withdrawn key is trusted for less than the TTL of the key set and one
\* call (SaveJwks, fetchAndCacheJwks).
THEOREM RetiredKeys == Spec => RetiredKeyDies
<1> DEFINE A == \A v \in Callers :
                   /\ caller[v].pc # "keyFound"
                   /\ caller'[v].pc = "keyFound"
                   /\ caller[v].key \notin published
                   => WithdrawnWithin(caller[v].key, KeyBound)
<1>1. CacheInvariant /\ [Next]_vars => A
  <2> SUFFICES ASSUME CacheInvariant, [Next]_vars, NEW v \in Callers,
                      caller[v].pc # "keyFound", caller'[v].pc = "keyFound",
                      caller[v].key \notin published
               PROVE  WithdrawnWithin(caller[v].key, KeyBound)
    OBVIOUS
  <2>1. Shown(caller[v], caller'[v].pc)
    BY VerdictStep DEF Verdicts
  <2> QED
    BY <2>1 DEF Shown, Usable
<1>2. CacheInvariant /\ [Next]_vars => [A]_vars
  BY <1>1
<1> QED
  BY <1>2, CacheStaysSound, PTL DEF Spec, RetiredKeyDies

\* A published key's signature is refused only while another key of its key
\* id may still be cached (IdTokenVerifier.Verify, FindByKid).
THEOREM Rekeying == Spec => RekeyHeals
<1> DEFINE A == \A v \in Callers :
                   /\ caller[v].pc # "badSignature"
                   /\ caller'[v].pc = "badSignature"
                   /\ ~caller[v].gap
                   => \E k \in Keys :
                         /\ k # caller[v].key
                         /\ KidOf[k] = KidOf[caller[v].key]
                         /\ WithdrawnWithin(k, KeyBound)
<1>1. CacheInvariant /\ [Next]_vars => A
  <2> SUFFICES ASSUME CacheInvariant, [Next]_vars, NEW v \in Callers,
                      caller[v].pc # "badSignature",
                      caller'[v].pc = "badSignature", ~caller[v].gap
               PROVE  \E k \in Keys :
                         /\ k # caller[v].key
                         /\ KidOf[k] = KidOf[caller[v].key]
                         /\ WithdrawnWithin(k, KeyBound)
    OBVIOUS
  <2>1. Shown(caller[v], caller'[v].pc)
    BY VerdictStep DEF Verdicts
  <2>2. caller[v].key \in published
    BY <2>1 DEF CacheInvariant, CallerSound, Shown
  <2>3. PICK k \in Keys : /\ k # caller[v].key
                          /\ KidOf[k] = KidOf[caller[v].key]
                          /\ Usable(k)
    BY <2>1 DEF Shown
  <2>4. k \notin published
    BY <2>2, <2>3 DEF CacheInvariant, TypeOK, KeySets
  <2> QED
    BY <2>3, <2>4 DEF Usable
<1>2. CacheInvariant /\ [Next]_vars => [A]_vars
  BY <1>1
<1> QED
  BY <1>2, CacheStaysSound, PTL DEF Spec, RekeyHeals

\* Keys are asked for at an address that the provider left less than the TTL
\* of the metadata and three calls ago (fetchAndCacheMetadata, RefreshJwks).
THEOREM LeftAddresses == Spec => LeftUriDies
<1> DEFINE A == \A v \in Callers :
                   /\ caller[v].pc = "fetchJwks"
                   /\ caller'[v].pc # "fetchJwks"
                   /\ caller[v].document # document
                   => /\ leftFor[caller[v].document] # None
                      /\ leftFor[caller[v].document] < UriBound
<1>1. CacheInvariant => A
  <2> SUFFICES ASSUME CacheInvariant, NEW v \in Callers,
                      caller[v].pc = "fetchJwks",
                      caller[v].document # document
               PROVE  /\ leftFor[caller[v].document] # None
                      /\ leftFor[caller[v].document] < UriBound
    OBVIOUS
  <2>1. /\ caller[v] \in Caller /\ caller[v].document \in Documents
        /\ Served(caller[v].document,
                  MetadataTtl + 2 * MaxLatency - 1 + caller[v].waited)
    BY DEF CacheInvariant, CallerSound, TypeOK, Caller
  <2>2. leftFor[caller[v].document] \in {None} \cup 0 .. UriBound
    BY <2>1 DEF CacheInvariant, TypeOK
  <2>3. caller[v].waited \in 0 .. MaxLatency
    BY <2>1 DEF Caller
  <2> QED
    BY <2>1, <2>2, <2>3 DEF Served, UriBound
<1>2. CacheInvariant /\ [Next]_vars => [A]_vars
  BY <1>1
<1> QED
  BY <1>2, CacheStaysSound, PTL DEF Spec, LeftUriDies

-----------------------------------------------------------------------------
(* How much a call can still cost.                                         *)

LEMMA Stages ==
    /\ Stage["getJwks"] = 7 /\ Stage["getMetadata"] = 6
    /\ Stage["fetchMetadata"] = 5 /\ Stage["saveMetadata"] = 4
    /\ Stage["deleteJwks"] = 3 /\ Stage["fetchJwks"] = 2
    /\ Stage["saveJwks"] = 1
<1>1. \A pc \in Active : Stage[pc] =
            CASE pc = "getJwks" -> 7 [] pc = "getMetadata" -> 6
              [] pc = "fetchMetadata" -> 5 [] pc = "saveMetadata" -> 4
              [] pc = "deleteJwks" -> 3 [] pc = "fetchJwks" -> 2
              [] pc = "saveJwks" -> 1
  BY DEF Stage
<1> QED
  BY <1>1 DEF Active

\* What each task has before it at each of its stages.
LEMMA StagesLeft ==
    ASSUME NEW c
    PROVE  /\ c.pc \notin Active => ExchangesLeft(c) = 0
           /\ c.pc \in Active /\ c.task = "metadata"
                 => ExchangesLeft(c) = Stage[c.pc] - 3
           /\ c.pc \in Active /\ c.task = "refresh"
                 => ExchangesLeft(c) = Stage[c.pc]
           /\ c.pc \in Active /\ c.task = "fill"
                 => ExchangesLeft(c) =
                       Stage[c.pc] + (IF c.pc \in {"fetchJwks", "saveJwks"}
                                      THEN 6 ELSE 5)
BY DEF ExchangesLeft

\* A caller inside the client has an exchange before it; one that is not
\* has none.
LEMMA SomeLeft ==
    ASSUME NEW c \in Caller, CallerSound(c), c.pc \in Active
    PROVE  /\ ExchangesLeft(c) \in Nat \ {0}
           /\ ExchangesLeft(c) <= IF c.task = "metadata" THEN 3 ELSE 12
<1>1. c.task \in {"metadata", "fill", "refresh"}
  BY DEF Caller
<1>2. CASE c.task = "metadata"
  <2>1. c.pc \in {"getMetadata", "fetchMetadata", "saveMetadata"}
    BY <1>2 DEF CallerSound, Active
  <2> QED
    BY <1>2, <2>1, Stages, StagesLeft
<1>3. CASE c.task = "fill"
  <2>1. c.pc \in {"getJwks", "getMetadata", "fetchMetadata", "saveMetadata",
                  "fetchJwks", "saveJwks"}
    BY <1>3 DEF CallerSound, Active
  <2> QED
    BY <1>3, <2>1, Stages, StagesLeft
<1>4. CASE c.task = "refresh"
  <2>1. c.pc \in {"getMetadata", "fetchMetadata", "saveMetadata",
                  "deleteJwks", "fetchJwks", "saveJwks"}
    BY <1>4 DEF CallerSound, Active
  <2> QED
    BY <1>4, <2>1, Stages, StagesLeft
<1> QED
  BY <1>1, <1>2, <1>3, <1>4

\* The step of v makes it c, with fewer exchanges before it.
Shorter(v, c) == ExchangesLeft(c) < ExchangesLeft(caller[v])

LEMMA EndShortens ==
    ASSUME NEW v \in Callers, caller[v] \in Caller, CallerSound(caller[v]),
           caller[v].pc \in Active, NEW c, c.pc \notin Active
    PROVE  Shorter(v, c)
BY SomeLeft, StagesLeft DEF Shorter

\* Verify: from a fill on to a refresh, which is the cheaper of the two, and
\* from a refresh to an answer.
LEMMA SelectShortens ==
    ASSUME NEW v \in Callers, NEW keys,
           caller[v] \in Caller, CallerSound(caller[v]),
           caller[v].pc \in Active, caller[v].task \in {"fill", "refresh"}
    PROVE  Shorter(v, Select(v, keys))
<1>1. CASE HasKid(v, keys)
  <2>1. Select(v, keys).pc \in {"keyFound", "badSignature"}
    BY <1>1, FreshFields DEF Select, Checked, Ended
  <2> QED
    BY <2>1, EndShortens DEF Active
<1>2. CASE ~HasKid(v, keys) /\ caller[v].task = "fill"
  <2>1. Select(v, keys) = Refresh(v)
    BY <1>2 DEF Select
  <2>2. Refresh(v).pc = "getMetadata" /\ Refresh(v).task = "refresh"
    BY RefreshFields
  <2>3. ExchangesLeft(Refresh(v)) = 6
    BY <2>2, StagesLeft, Stages DEF Active
  <2>4. caller[v].pc \in {"getJwks", "getMetadata", "fetchMetadata",
                          "saveMetadata", "fetchJwks", "saveJwks"}
    BY <1>2 DEF CallerSound, Active
  <2>5. ExchangesLeft(caller[v]) \in {7, 8, 9, 10, 11, 12}
    BY <1>2, <2>4, StagesLeft, Stages
  <2> QED
    BY <2>1, <2>3, <2>5 DEF Shorter
<1>3. CASE ~HasKid(v, keys) /\ caller[v].task = "refresh"
  <2>1. Select(v, keys).pc = "unknownKid"
    BY <1>3, UnknownFields DEF Select
  <2> QED
    BY <2>1, EndShortens DEF Active
<1> QED
  BY <1>1, <1>2, <1>3

\* Another stage of the same task.
LEMMA StageShortens ==
    ASSUME NEW v \in Callers, caller[v] \in Caller, CallerSound(caller[v]),
           caller[v].pc \in Active, NEW c, c.task = caller[v].task,
           \/ caller[v].pc = "getJwks" /\ c.pc = "getMetadata"
           \/ caller[v].pc = "getMetadata"
              /\ c.pc \in {"fetchMetadata", "deleteJwks", "fetchJwks"}
              /\ (c.pc # "fetchMetadata" => c.task # "metadata")
           \/ caller[v].pc = "fetchMetadata" /\ c.pc = "saveMetadata"
           \/ caller[v].pc = "saveMetadata"
              /\ c.pc \in {"deleteJwks", "fetchJwks"} /\ c.task # "metadata"
           \/ caller[v].pc = "deleteJwks" /\ c.pc = "fetchJwks"
           \/ caller[v].pc = "fetchJwks" /\ c.pc = "saveJwks"
    PROVE  Shorter(v, c)
<1>1. c.pc \in Active
  BY DEF Active
<1>2. c.task \in {"metadata", "fill", "refresh"}
  BY DEF Caller
<1>3. CASE c.task = "metadata"
  <2>1. caller[v].pc \in {"getMetadata", "fetchMetadata", "saveMetadata"}
    BY <1>3 DEF CallerSound, Active
  <2>2. /\ ExchangesLeft(c) = Stage[c.pc] - 3
        /\ ExchangesLeft(caller[v]) = Stage[caller[v].pc] - 3
    BY <1>1, <1>3, StagesLeft
  <2> QED
    BY <1>3, <2>1, <2>2, Stages DEF Shorter
<1>4. CASE c.task = "refresh"
  <2>1. /\ ExchangesLeft(c) = Stage[c.pc]
        /\ ExchangesLeft(caller[v]) = Stage[caller[v].pc]
    BY <1>1, <1>4, StagesLeft
  <2> QED
    BY <2>1, Stages DEF Shorter
<1>5. CASE c.task = "fill"
  <2>1. caller[v].pc # "deleteJwks"
    BY <1>5 DEF CallerSound
  <2>2. /\ ExchangesLeft(c) = Stage[c.pc]
              + (IF c.pc \in {"fetchJwks", "saveJwks"} THEN 6 ELSE 5)
        /\ ExchangesLeft(caller[v]) = Stage[caller[v].pc]
              + (IF caller[v].pc \in {"fetchJwks", "saveJwks"} THEN 6 ELSE 5)
    BY <1>1, <1>5, StagesLeft
  <2> QED
    BY <1>5, <2>1, <2>2, Stages DEF Shorter
<1> QED
  BY <1>2, <1>3, <1>4, <1>5

LEMMA ResumeShortens ==
    ASSUME NEW v \in Callers, NEW d \in Documents,
           caller[v] \in Caller, CallerSound(caller[v]),
           caller[v].pc \in {"getMetadata", "saveMetadata"}
    PROVE  Shorter(v, Resume(v, d))
<1>0. caller[v].pc \in Active
  BY DEF Active
<1>1. CASE caller[v].task = "metadata"
  <2> DEFINE c == Fresh("metadataReady")
  <2>1. c \in Caller /\ c.pc = "metadataReady"
    BY FreshFields DEF Ended
  <2>2. Resume(v, d) = [c EXCEPT !.document = d]
    BY <1>1 DEF Resume
  <2>3. Resume(v, d).pc = "metadataReady"
    <3> HIDE DEF c
    <3> QED
      BY <2>1, <2>2, DocumentFields
  <2> QED
    BY <1>0, <2>3, EndShortens DEF Active
<1>2. ASSUME NEW pc \in {"fetchJwks", "deleteJwks"},
             caller[v].task # "metadata",
             Resume(v, d) = [GoTo(v, pc) EXCEPT !.document = d]
      PROVE  Shorter(v, Resume(v, d))
  <2> DEFINE c == GoTo(v, pc)
  <2>1. c \in Caller /\ c.pc = pc /\ c.task = caller[v].task
    BY <1>2, GoToFields DEF Active
  <2>2. Resume(v, d).pc = pc /\ Resume(v, d).task = caller[v].task
    <3>1. Resume(v, d) = [c EXCEPT !.document = d]
      BY <1>2
    <3> HIDE DEF c
    <3> QED
      BY <2>1, <3>1, DocumentFields
  <2> QED
    BY <1>0, <1>2, <2>2, StageShortens
<1>3. CASE caller[v].task = "fill"
  BY <1>2, <1>3 DEF Resume
<1>4. CASE caller[v].task = "refresh"
  BY <1>2, <1>4 DEF Resume
<1> QED
  BY <1>1, <1>3, <1>4 DEF Caller

LEMMA CallShortens ==
    ASSUME CacheInvariant, NEW v \in Callers, CallStep(v)
    PROVE  \E c : Shorter(v, c) /\ caller' = [caller EXCEPT ![v] = c]
<1>0. /\ TypeOK /\ caller[v] \in Caller /\ CallerSound(caller[v])
      /\ caller[v].pc \in Active
  BY DEF CacheInvariant, TypeOK, CallStep, GetJwks, GetMetadata,
         FetchMetadata, SaveMetadata, DeleteJwks, FetchJwks, SaveJwks,
         CallFails, Active
<1>g. ASSUME NEW pc \in Active
      PROVE  /\ GoTo(v, pc) \in Caller /\ GoTo(v, pc).pc = pc
             /\ GoTo(v, pc).task = caller[v].task
  BY <1>0, GoToFields
<1>1. CASE GetJwks(v)
  <2>1. CASE jwks = None
    <3>1. Shorter(v, GoTo(v, "getMetadata"))
      BY <1>0, <1>1, <1>g, StageShortens DEF GetJwks, Active
    <3> QED
      BY <1>1, <2>1, <3>1 DEF GetJwks
  <2>2. CASE jwks # None
    <3>1. Shorter(v, Select(v, jwks.value))
      BY <1>0, <1>1, SelectShortens DEF GetJwks, CallerSound
    <3> QED
      BY <1>1, <2>2, <3>1 DEF GetJwks
  <2> QED
    BY <2>1, <2>2
<1>2. CASE GetMetadata(v)
  <2>1. CASE metadata = None
    <3>1. Shorter(v, GoTo(v, "fetchMetadata"))
      BY <1>0, <1>2, <1>g, StageShortens DEF GetMetadata, Active
    <3> QED
      BY <1>2, <2>1, <3>1 DEF GetMetadata
  <2>2. CASE metadata # None
    <3>1. metadata.value \in Documents
      BY <1>0, <2>2 DEF TypeOK
    <3>2. Shorter(v, Resume(v, metadata.value))
      BY <1>0, <1>2, <3>1, ResumeShortens DEF GetMetadata
    <3> QED
      BY <1>2, <2>2, <3>2 DEF GetMetadata
  <2> QED
    BY <2>1, <2>2
<1>3. CASE FetchMetadata(v)
  <2> DEFINE c == GoTo(v, "saveMetadata")
             e == [c EXCEPT !.document = document]
  <2>1. c \in Caller /\ c.pc = "saveMetadata" /\ c.task = caller[v].task
    BY <1>g DEF Active
  <2>2. e.pc = "saveMetadata" /\ e.task = caller[v].task
    <3>1. document \in Documents
      BY <1>0 DEF TypeOK
    <3> HIDE DEF c
    <3> QED
      BY <2>1, <3>1, DocumentFields
  <2>3. Shorter(v, e)
    <3>1. caller[v].pc = "fetchMetadata"
      BY <1>3 DEF FetchMetadata
    <3> HIDE DEF e
    <3> QED
      BY <1>0, <2>2, <3>1, StageShortens
  <2> QED
    BY <1>3, <2>3 DEF FetchMetadata
<1>4. CASE SaveMetadata(v)
  <2>1. caller[v].document \in Documents
    BY <1>0, <1>4 DEF CallerSound, SaveMetadata, Caller
  <2>2. Shorter(v, Resume(v, caller[v].document))
    BY <1>0, <1>4, <2>1, ResumeShortens DEF SaveMetadata
  <2> QED
    BY <1>4, <2>2 DEF SaveMetadata
<1>5. CASE DeleteJwks(v)
  <2>1. Shorter(v, GoTo(v, "fetchJwks"))
    BY <1>0, <1>5, <1>g, StageShortens DEF DeleteJwks, Active
  <2> QED
    BY <1>5, <2>1 DEF DeleteJwks
<1>6. CASE FetchJwks(v)
  <2> DEFINE c == GoTo(v, "saveJwks")
             e == [c EXCEPT !.document = None, !.keys = published]
  <2>1. c \in Caller /\ c.pc = "saveJwks" /\ c.task = caller[v].task
    BY <1>g DEF Active
  <2>2. e.pc = "saveJwks" /\ e.task = caller[v].task
    <3>1. published \in KeySets
      BY <1>0 DEF TypeOK
    <3>2. e.pc = c.pc /\ e.task = c.task
      <4> HIDE DEF c
      <4> QED
        BY <2>1, <3>1, KeysFields
    <3> HIDE DEF c, e
    <3> QED
      BY <2>1, <3>2
  <2>3. Shorter(v, e)
    <3>1. caller[v].pc = "fetchJwks"
      BY <1>6 DEF FetchJwks
    <3> HIDE DEF e
    <3> QED
      BY <1>0, <2>2, <3>1, StageShortens
  <2> QED
    BY <1>6, <2>3 DEF FetchJwks
<1>7. CASE SaveJwks(v)
  <2>1. Shorter(v, Select(v, caller[v].keys))
    BY <1>0, <1>7, SelectShortens DEF SaveJwks, CallerSound, Caller
  <2> QED
    BY <1>7, <2>1 DEF SaveJwks
<1>8. CASE CallFails(v)
  <2>1. Shorter(v, Fresh("failed"))
    BY <1>0, FreshFields, EndShortens DEF Active, Ended
  <2> QED
    BY <1>8, <2>1 DEF CallFails
<1> QED
  BY <1>1, <1>2, <1>3, <1>4, <1>5, <1>6, <1>7, <1>8 DEF CallStep

\* No call goes round in circles: each of its exchanges brings it nearer to
\* its end, of which it is never more than twelve away.
THEOREM CallsGetShorter == Spec => CallsShorten
<1> DEFINE A == \A v \in Callers :
                   /\ caller[v].pc \in Active
                   /\ caller'[v].pc # caller[v].pc
                   => /\ ExchangesLeft(caller'[v]) < ExchangesLeft(caller[v])
                      /\ ExchangesLeft(caller[v]) <=
                            IF caller[v].task = "metadata" THEN 3 ELSE 12
<1>1. CacheInvariant /\ [Next]_vars => A
  <2> SUFFICES ASSUME CacheInvariant, [Next]_vars, NEW v \in Callers,
                      caller[v].pc \in Active, caller'[v].pc # caller[v].pc
               PROVE  /\ ExchangesLeft(caller'[v]) < ExchangesLeft(caller[v])
                      /\ ExchangesLeft(caller[v]) <=
                            IF caller[v].task = "metadata" THEN 3 ELSE 12
    OBVIOUS
  <2>1. /\ caller \in [Callers -> Caller] /\ caller[v] \in Caller
        /\ CallerSound(caller[v])
    BY DEF CacheInvariant, TypeOK
  <2>2. CallStep(v)
    <3>1. ~Tick
      BY <2>1 DEF Tick, Caller
    <3>2. ASSUME NEW k \in Keys PROVE ~Publish(k) /\ ~Retire(k)
      BY <2>1 DEF Publish, Retire, Caller
    <3>3. ASSUME NEW d \in Documents PROVE ~Move(d)
      BY DEF Move
    <3>4. ASSUME NEW w \in Callers, w # v
          PROVE  ~NeedMetadata(w) /\ ~CallStep(w)
                 /\ \A k \in Keys : ~NeedKey(w, k)
      BY <2>1, <3>4 DEF NeedMetadata, NeedKey, CallStep, GetJwks,
            GetMetadata, FetchMetadata, SaveMetadata, DeleteJwks, FetchJwks,
            SaveJwks, CallFails
    <3>5. ~NeedMetadata(v) /\ \A k \in Keys : ~NeedKey(v, k)
      BY DEF NeedMetadata, NeedKey
    <3> QED
      BY <3>1, <3>2, <3>3, <3>4, <3>5 DEF Next, vars
  <2>3. PICK c : Shorter(v, c) /\ caller' = [caller EXCEPT ![v] = c]
    BY <2>2, CallShortens
  <2>4. caller'[v] = c
    BY <2>1, <2>3
  <2> QED
    BY <2>1, <2>3, <2>4, SomeLeft DEF Shorter
<1> QED
  BY <1>1, CacheStaysSound, PTL DEF Spec, CallsShorten

-----------------------------------------------------------------------------
(* The contract.                                                           *)

Request == [v \in Callers |-> RequestOf(caller[v])]

LEMMA ServiceInit == Init => Service!Init
<1> SUFFICES ASSUME Init PROVE Service!Init
  OBVIOUS
<1>1. ASSUME NEW v \in Callers
      PROVE  RequestOf(caller[v]) = Service!Answered("idle")
  <2>1. caller[v].pc = "idle"
    BY FreshFields DEF Init
  <2> QED
    BY <2>1 DEF RequestOf, Active, Service!Answered
<1> QED
  BY <1>1 DEF Init, Service!Init, Service!KeySets, KeySets

\* A step of v alone changes the request of v alone.
LEMMA OneRequest ==
    ASSUME CacheInvariant, NEW v \in Callers, NEW c,
           caller' = [caller EXCEPT ![v] = c]
    PROVE  Request' = [Request EXCEPT ![v] = RequestOf(c)]
BY DEF CacheInvariant, TypeOK, Request, RequestOf

LEMMA ServiceTick == CacheInvariant /\ Tick => Service!Tick
<1> SUFFICES ASSUME CacheInvariant, Tick PROVE Service!Tick
  OBVIOUS
<1>1. ASSUME NEW v \in Callers
      PROVE  RequestOf(caller'[v]) = RequestOf(caller[v])
  <2>1. caller[v] \in Caller
    BY DEF CacheInvariant, TypeOK
  <2>2. /\ caller'[v].pc = caller[v].pc /\ caller'[v].key = caller[v].key
        /\ caller'[v].gap = caller[v].gap
    BY <2>1 DEF Tick, Caller
  <2> QED
    BY <2>2 DEF RequestOf
<1>2. Request' = Request
  BY <1>1 DEF Request, RequestOf
<1> QED
  BY <1>2 DEF Tick, Service!Tick, Request, Older

LEMMA ServiceRetire ==
    ASSUME CacheInvariant, NEW k \in Keys, Retire(k)
    PROVE  Service!Retire(k)
<1>1. ASSUME NEW v \in Callers
      PROVE  RequestOf(caller'[v]) = IF RequestOf(caller[v]).key = k
                                     THEN Service!Asking(k, TRUE)
                                     ELSE RequestOf(caller[v])
  <2>0. caller[v] \in Caller /\ k # None
    BY DEF CacheInvariant, TypeOK
  <2>1. CASE caller[v].key = k /\ caller[v].pc \in Active
    <3>1. caller'[v] = [caller[v] EXCEPT !.gap = TRUE]
      BY <2>1 DEF Retire
    <3>2. /\ caller'[v].pc = caller[v].pc /\ caller'[v].key = k
          /\ caller'[v].gap = TRUE
      BY <2>0, <2>1, <3>1 DEF Caller
    <3>3. RequestOf(caller'[v]) = Service!Asking(k, TRUE)
      BY <2>0, <2>1, <3>2 DEF RequestOf, Service!Asking
    <3>4. RequestOf(caller[v]).key = k
      BY <2>0, <2>1 DEF RequestOf
    <3> QED
      BY <3>3, <3>4
  <2>2. CASE ~(caller[v].key = k /\ caller[v].pc \in Active)
    <3>1. caller'[v] = caller[v]
      BY <2>2 DEF Retire
    <3>2. RequestOf(caller[v]).key # k
      BY <2>0, <2>2 DEF RequestOf
    <3> QED
      BY <3>1, <3>2
  <2> QED
    BY <2>1, <2>2
<1>2. Request' = [v \in Callers |-> IF Request[v].key = k
                                    THEN Service!Asking(k, TRUE)
                                    ELSE Request[v]]
  BY <1>1 DEF Request, RequestOf
<1> QED
  BY <1>2 DEF Retire, Service!Retire, Request

LEMMA ServiceAsk ==
    ASSUME CacheInvariant, NEW v \in Callers, NEW k \in Keys, NeedKey(v, k)
    PROVE  Service!Ask(v, k)
<1> DEFINE c == [Fresh("getJwks") EXCEPT !.task = "fill", !.key = k,
                                         !.gap = k \notin published]
<1>1. c.pc = "getJwks" /\ c.key = k /\ c.gap = (k \notin published)
  BY DEF Fresh
<1>2. caller' = [caller EXCEPT ![v] = c]
  BY DEF NeedKey
<1>3. RequestOf(c) = Service!Asking(k, k \notin published)
  <2> HIDE DEF c
  <2> QED
    BY <1>1 DEF RequestOf, Active, Service!Asking
<1>4. Request' = [Request EXCEPT ![v] = RequestOf(c)]
  <2> HIDE DEF c
  <2> QED
    BY <1>2, OneRequest
<1>5. Request[v].status # "asking"
  BY DEF NeedKey, Request, RequestOf
<1> HIDE DEF c
<1> QED
  BY <1>3, <1>4, <1>5 DEF Service!Ask, Request, NeedKey, provider

LEMMA ServiceLeave ==
    ASSUME CacheInvariant, NEW v \in Callers, NEW c,
           caller' = [caller EXCEPT ![v] = c], UNCHANGED provider,
           RequestOf(c) = Service!Answered("idle")
    PROVE  Service!Leave(v)
BY OneRequest DEF Service!Leave, Request, provider

LEMMA ServiceAnswer ==
    ASSUME CacheInvariant, NEW v \in Callers, NEW c,
           caller' = [caller EXCEPT ![v] = c], UNCHANGED provider,
           c.pc \in Verdicts, Shown(caller[v], c.pc)
    PROVE  Service!Answer(v, c.pc)
<1>1. /\ Request[v].status = "asking" /\ Request[v].key = caller[v].key
      /\ Request[v].gap = caller[v].gap
  BY DEF Shown, Request, RequestOf
<1>2. Service!Justified(v, c.pc)
  <2>1. \A k \in Keys : Usable(k) => Service!Current(k)
    BY DEF Usable, WithdrawnWithin, Service!Current
  <2>2. CASE c.pc = "keyFound"
    BY <1>1, <2>1, <2>2 DEF Shown, Service!Justified, Request
  <2>3. CASE c.pc = "unknownKid"
    BY <1>1, <2>3 DEF Shown, Service!Justified, Request
  <2>4. CASE c.pc = "badSignature"
    BY <1>1, <2>1, <2>4 DEF Shown, Service!Justified, Request
  <2> QED
    BY <2>2, <2>3, <2>4 DEF Verdicts
<1>3. RequestOf(c) = Service!Answered(c.pc)
  BY DEF RequestOf, Service!Answered, Verdicts, Active
<1> QED
  BY <1>1, <1>2, <1>3, OneRequest DEF Service!Answer, Request, provider

LEMMA ServiceStep ==
    CacheInvariant /\ [Next]_vars => [Service!Next]_(Service!vars)
<1> SUFFICES ASSUME CacheInvariant, [Next]_vars
             PROVE  [Service!Next]_(Service!vars)
  OBVIOUS
<1>1. CASE Tick
  BY <1>1, ServiceTick DEF Service!Next
<1>2. ASSUME NEW k \in Keys, Publish(k) PROVE Service!Next
  BY <1>2 DEF Publish, Service!Next, Service!Publish
<1>3. ASSUME NEW k \in Keys, Retire(k) PROVE Service!Next
  BY <1>3, ServiceRetire DEF Service!Next
<1>4. ASSUME NEW d \in Documents, Move(d) PROVE UNCHANGED Service!vars
  BY <1>4 DEF Move, Service!vars
<1>5. ASSUME NEW v \in Callers, NeedMetadata(v) PROVE Service!Next
  <2>1. RequestOf(Fresh("getMetadata")) = Service!Answered("idle")
    BY FreshFields DEF RequestOf, Service!Answered, Active
  <2>2. Service!Leave(v)
    BY <1>5, <2>1, ServiceLeave DEF NeedMetadata
  <2> QED
    BY <2>2 DEF Service!Next
<1>6. ASSUME NEW v \in Callers, NEW k \in Keys, NeedKey(v, k)
      PROVE  Service!Next
  BY <1>6, ServiceAsk DEF Service!Next
<1>7. ASSUME NEW v \in Callers, CallStep(v)
      PROVE  Service!Next \/ UNCHANGED Service!vars
  <2>1. PICK c : Outcome(v, c) /\ caller' = [caller EXCEPT ![v] = c]
    BY <1>7, CallOutcome
  <2>2. UNCHANGED provider
    BY <1>7, CallOutcome
  <2>3. CASE RequestOf(c) = RequestOf(caller[v])
    <3>1. Request' = Request
      BY <2>1, <2>3, OneRequest DEF Request
    <3> QED
      BY <2>2, <3>1 DEF Service!vars, Request, provider
  <2>4. CASE c.pc = "failed"
    <3>1. RequestOf(c) = Service!Answered("idle")
      BY <2>4 DEF RequestOf, Service!Answered, Active
    <3> QED
      BY <2>1, <2>2, <3>1, ServiceLeave DEF Service!Next
  <2>5. CASE c.pc \in Verdicts /\ Shown(caller[v], c.pc)
    BY <2>1, <2>2, <2>5, ServiceAnswer
       DEF Service!Next, Service!Answers, Verdicts
  <2> QED
    BY <2>1, <2>3, <2>4, <2>5 DEF Outcome
<1>8. CASE UNCHANGED vars
  BY <1>8 DEF vars, provider, Service!vars
<1> QED
  BY <1>1, <1>2, <1>3, <1>4, <1>5, <1>6, <1>7, <1>8 DEF Next

\* Every answer the callers get, in whatever order their calls overlap, is
\* one that KeyService allows (GetJwks, RefreshJwks, Verify).
THEOREM Contract == Spec => KeepsKeyService
BY ServiceInit, ServiceStep, CacheStaysSound, PTL
   DEF Spec, KeepsKeyService, Service!Spec
=============================================================================
