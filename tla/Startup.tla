------------------------------ MODULE Startup ------------------------------
(***************************************************************************)
(* From a configuration file to a service: Load and the Validate methods   *)
(* with their defaults (internal/config/config.go), and New, which         *)
(* validates once more and builds a dialer per upstream, a relay per       *)
(* kless-server inbound and the static part of the credential store that   *)
(* these relays share (internal/node/service.go, dialer.go,                *)
(* server_relay.go, client_store.go).  Validation writes normalised values *)
(* back, so it runs three times on what it has already changed; trimming   *)
(* Kboard's public URL once more may change that URL again.                *)
(*                                                                         *)
(* A text is a string; what trimming and lower-casing make of it are       *)
(* functions.  A key is named by the bytes its text decodes to, its length *)
(* is -1 when no encoding decodes it, "" is the key that is not given, and *)
(* " " one of blanks only.                                                 *)
(* The durations of an object are a set of "absent", "positive" and "bad", *)
(* the last for those that do not parse or are not positive.               *)
(***************************************************************************)
EXTENDS Integers, Sequences, FiniteSetsExt, Functions

CONSTANTS
    Files,       \* configurations as they are written
    Trim,        \* strings.TrimSpace, on the texts of Files
    Lower,       \* strings.ToLower, on trimmed texts
    Unslash,     \* strings.TrimRight(text, "/"), on trimmed texts
    GoodURLs,    \* texts that url.Parse takes, with a scheme and a host
    RequestURIs, \* texts that url.ParseRequestURI takes
    Length,      \* each key's number of bytes
    PublicOf,    \* the public key of each private key
    PEMFiles,    \* CA files that exist when the program starts
    MaxPadding   \* kless.MaxHandshakePadding

\* Trimming and lower-casing are idempotent, lower-casing a trimmed text leaves
\* it trimmed, and the two modes are written as they are normalised.  A text
\* without its slashes at the end may have blanks there again.
ASSUME TextAssumption ==
    /\ Trim \in [DOMAIN Trim -> DOMAIN Trim] /\ Lower \in [DOMAIN Trim -> DOMAIN Trim]
    /\ Unslash \in [DOMAIN Trim -> DOMAIN Trim]
    /\ \A t \in DOMAIN Trim :
        /\ Trim[Trim[t]] = Trim[t]
        /\ Lower[Lower[t]] = Lower[t]
        /\ Trim[Lower[Trim[t]]] = Lower[Trim[t]]
    /\ \A m \in {"tcp", "kless-server"} : m \in DOMAIN Trim /\ Trim[m] = m /\ Lower[m] = m

\* The private keys have 64 bytes, the public ones 32, and one that is not given
\* has none.
ASSUME NoKeyAssumption == "" \in DOMAIN Length /\ Length[""] = 0
ASSUME KeyAssumption ==
    /\ Length \in [DOMAIN Length -> Int]
    /\ DOMAIN PublicOf = {k \in DOMAIN Length : Length[k] = 64}
    /\ \A k \in DOMAIN PublicOf : PublicOf[k] \in DOMAIN Length /\ Length[PublicOf[k]] = 32

-----------------------------------------------------------------------------
(* Configurations *)

Texts == DOMAIN Trim
Keys == DOMAIN Length
Durations == SUBSET {"absent", "positive", "bad"}

KboardConfig ==
    [publicURL : Texts, nodeID : Texts, sharedSecret : Texts,
     usersEndpoint : Texts, aliveEndpoint : Texts, durations : Durations]

KLESSConfig ==
    [clientID : Texts, secret : Keys, signingKey : Keys, signingPrivate : Keys,
     capabilities : SUBSET Texts, maxFrame : Int, paddingMin : Int, paddingMax : Int]

UpstreamConfig ==
    [name : Texts, transport : Texts, address : Texts, url : Texts, caFile : Texts,
     durations : Durations, kless : KLESSConfig]

ServerKLESSClientConfig == [id : Texts, secret : Keys]

ServerKLESSConfig ==
    [clientID : Texts, secret : Keys, signingKey : Keys, signingPrivate : Keys,
     clients : Seq(ServerKLESSClientConfig), capabilities : SUBSET Texts,
     maxFrame : Int, paddingMin : Int, paddingMax : Int, durations : Durations]

InboundConfig ==
    [name : Texts, listen : Texts, mode : Texts, upstream : Texts,
     maxConnections : Int, kless : ServerKLESSConfig]

\* Kboard is there or not, so it is a set of at most one section.
Config ==
    [nodeID : Texts, durations : Durations, kboard : SUBSET KboardConfig,
     upstreams : Seq(UpstreamConfig), inbounds : Seq(InboundConfig)]

ASSUME FileAssumption == Files \subseteq Config

VARIABLES
    cfg,      \* the configuration, as normalised so far
    stage,    \* where start-up has come to
    next,     \* the upstream or inbound whose turn it is
    caFiles,  \* CA files that exist
    dialers,  \* Service.dialers: name -> the upstream the dialer was made for
    relays,   \* Service.relays: name -> the inbound the relay was made for
    store     \* dynamicClientStore.staticSecrets: client id -> secret

vars == <<cfg, stage, next, caFiles, dialers, relays, store>>
-----------------------------------------------------------------------------
(* Defaults and normalisation *)

DurationsOK(ds) == "bad" \notin ds
WithDefaults(ds) == {IF d = "absent" THEN "positive" ELSE d : d \in ds}

Transports == {"tcp", "tls", "httpupgrade", "httpupdate", "websocket",
               "httpstream", "grpc", "xhttp", "http3"}

Mode(m) ==
    LET l == Lower[Trim[m]] IN
    CASE l \in {"", "tcp", "client", "client-forward", "forward"} -> "tcp"
      [] l \in {"kless-server", "kless_server", "server", "relay", "server-relay"}
            -> "kless-server"
      [] OTHER -> l

\* The client id and the keys of an upstream's kless section are left as they
\* are, unlike those of an inbound.
UpstreamDefaults(u) ==
    [u EXCEPT !.name = Trim[@], !.transport = Lower[Trim[@]],
              !.address = Trim[@], !.url = Trim[@], !.caFile = Trim[@],
              !.durations = WithDefaults(@)]

TrimKey(key) == IF key = " " THEN "" ELSE key

ServerKLESSDefaults(k) ==
    [k EXCEPT !.clientID = Trim[@], !.durations = WithDefaults(@),
              !.secret = TrimKey(@), !.signingKey = TrimKey(@),
              !.signingPrivate = TrimKey(@)]

InboundDefaults(i) ==
    [i EXCEPT !.name = Trim[@], !.listen = Trim[@], !.mode = Mode(@),
              !.upstream = Trim[@], !.kless = ServerKLESSDefaults(@)]

\* Trimmed first and then without its slashes, not the other way round: not a
\* fixed point yet.
PublicURL(text) == Unslash[Trim[text]]

\* An endpoint also gets a leading slash; only whether it is blank matters here.
KboardDefaults(k) ==
    [k EXCEPT !.publicURL = PublicURL(@), !.nodeID = Trim[@], !.sharedSecret = Trim[@],
              !.usersEndpoint = Trim[@], !.aliveEndpoint = Trim[@],
              !.durations = WithDefaults(@)]

\* The listed clients of an inbound are trimmed by their own Validate, which
\* only a kless-server inbound calls.
TrimClient(e) == [e EXCEPT !.id = Trim[@]]
TrimClients(k) == [k EXCEPT !.clients = [n \in DOMAIN @ |-> TrimClient(@[n])]]

InboundNormal(i) ==
    LET j == InboundDefaults(i) IN
    IF j.mode # "kless-server" THEN j ELSE [j EXCEPT !.kless = TrimClients(@)]

\* Config.Validate applies the defaults to all of the configuration, and the
\* Validate of each part does so again, which only Kboard's URL can feel.
Defaults(c) ==
    [c EXCEPT !.nodeID = Trim[@], !.durations = WithDefaults(@),
              !.kboard = {KboardDefaults(KboardDefaults(k)) : k \in @},
              !.upstreams = [n \in DOMAIN @ |-> UpstreamDefaults(@[n])],
              !.inbounds = [n \in DOMAIN @ |-> InboundNormal(@[n])]]
-----------------------------------------------------------------------------
(* Capabilities *)

\* Both spellings of the HTTP upgrade are one capability.
Capability(name) == IF name = "httpupdate" THEN "httpupgrade" ELSE name
AllCapabilities == {Capability(t) : t \in Transports}

\* capabilityMask: an empty list means the transport's own capability; the
\* empty set stands for an error, for no other result is empty.
CapabilityMask(transport, names) ==
    LET wanted == IF names = {} THEN {transport} ELSE {Lower[Trim[n]] : n \in names}
    IN IF wanted \subseteq Transports THEN {Capability(n) : n \in wanted} ELSE {}

\* capabilityMaskForNames: blank names are skipped, "all" adds every capability.
ServerCapabilityMask(names) ==
    LET wanted == {Lower[Trim[n]] : n \in names} \ {""} IN
    IF names = {} THEN AllCapabilities
    ELSE IF wanted \subseteq Transports \cup {"all"}
         THEN UNION {IF n = "all" THEN AllCapabilities ELSE {Capability(n)} : n \in wanted}
         ELSE {}
-----------------------------------------------------------------------------
(* Validation *)

\* decodeKey, in one of its four encodings.
Decodes(k) == Length[k] >= 0

\* publicMatchesPrivate, of a private key that decodes to its 64 bytes.
Matches(public, private) == private \in DOMAIN PublicOf /\ PublicOf[private] = public

SizesOK(k) ==
    /\ k.maxFrame >= 0
    /\ 0 <= k.paddingMin /\ k.paddingMin <= k.paddingMax /\ k.paddingMax <= MaxPadding

PublicURLValid(k) == k.publicURL # "" /\ k.publicURL \in RequestURIs

KboardValid(k) ==
    /\ PublicURLValid(k)
    /\ k.nodeID # "" /\ k.sharedSecret # "" /\ k.aliveEndpoint # ""
    /\ DurationsOK(k.durations)

KLESSValid(k, transport) ==
    /\ k.clientID # ""
    /\ Length[k.secret] >= 32
    /\ Length[k.signingKey] = 32
    /\ k.secret # k.signingKey
    /\ k.signingPrivate # "" => Matches(k.signingKey, k.signingPrivate)
    /\ SizesOK(k)
    /\ CapabilityMask(transport, k.capabilities) # {}

\* Mutant: the kless section of an upstream is not validated.
UpstreamValidOutside(u, files) ==
    /\ u.name # ""
    /\ u.transport \in Transports
    /\ IF u.transport \in {"tcp", "tls"} THEN u.address # "" ELSE u.url \in GoodURLs
    /\ DurationsOK(u.durations)
    /\ u.caFile # "" => u.caFile \in files

UpstreamValid(u, files) ==
    /\ u.name # ""
    /\ u.transport \in Transports
    /\ IF u.transport \in {"tcp", "tls"} THEN u.address # "" ELSE u.url \in GoodURLs
    /\ DurationsOK(u.durations)
    /\ KLESSValid(u.kless, u.transport)
    /\ u.caFile # "" => u.caFile \in files

\* ServerKLESSConfig.Validate.  The secret may come without an id when users
\* come from Kboard; the secrets of the listed clients are not compared with
\* the signing key.
ServerKLESSValid(k, dynamicUsers) ==
    /\ k.signingPrivate \in DOMAIN PublicOf
    /\ k.signingKey # "" => Matches(k.signingKey, k.signingPrivate)
    /\ k.secret # "" =>
        /\ Length[k.secret] >= 32
        /\ k.secret # k.signingKey
        /\ k.clientID = "" => dynamicUsers
    /\ \A n \in DOMAIN k.clients :
        k.clients[n].id # "" /\ Length[k.clients[n].secret] >= 32
    /\ \/ k.clientID # "" /\ k.secret # ""
       \/ k.clients # <<>>
       \/ dynamicUsers
    /\ SizesOK(k)
    /\ DurationsOK(k.durations)
    /\ ServerCapabilityMask(k.capabilities) # {}

InboundValid(i, upstreams, dynamicUsers) ==
    /\ i.name # "" /\ i.listen # ""
    /\ \/ i.mode = "tcp" /\ i.upstream # "" /\ i.upstream \in upstreams
       \/ i.mode = "kless-server" /\ ServerKLESSValid(i.kless, dynamicUsers)
    /\ i.maxConnections >= 0

NamesDiffer(s) == \A m, n \in DOMAIN s : s[m].name = s[n].name => m = n

\* Config.Validate of a configuration to which the defaults were applied.
Valid(c, files) ==
    /\ c.nodeID # ""
    /\ c.inbounds # <<>>
    /\ DurationsOK(c.durations)
    /\ \A k \in c.kboard : KboardValid(k)
    /\ \A n \in DOMAIN c.upstreams : UpstreamValid(c.upstreams[n], files)
    /\ NamesDiffer(c.upstreams)
    /\ LET upstreams    == {c.upstreams[n].name : n \in DOMAIN c.upstreams}
           dynamicUsers == \E k \in c.kboard : k.usersEndpoint # ""
       IN \A n \in DOMAIN c.inbounds : InboundValid(c.inbounds[n], upstreams, dynamicUsers)
    /\ NamesDiffer(c.inbounds)
-----------------------------------------------------------------------------
(* What New builds *)

Empty == [name \in {} |-> ""]

\* A map after the assignments that another one lists, and a list of one.
Assign(map, new) ==
    [x \in DOMAIN new \cup DOMAIN map |-> IF x \in DOMAIN new THEN new[x] ELSE map[x]]
One(key, value) == [x \in {key} |-> value]

\* staticClientCredentials: the inbound's own client, then the listed ones.
StaticCredentials(k) ==
    (IF k.clientID # "" /\ k.secret # ""
     THEN <<[id |-> k.clientID, secret |-> k.secret]>> ELSE <<>>) \o k.clients

\* credentialMaps: entries without an id or a secret are skipped, the last
\* entry for an id counts.
CredentialMap(entries) ==
    LET usable == {n \in DOMAIN entries :
                     Trim[entries[n].id] # "" /\ Length[entries[n].secret] > 0}
        for(id) == {n \in usable : Trim[entries[n].id] = id}
    IN [id \in {Trim[entries[n].id] : n \in usable} |-> entries[Max(for(id))].secret]

\* Mutant: the credentials replace those of the inbounds before (SetStatic).
AddStaticReplacing(before, entries) == CredentialMap(entries)

AddStatic(before, entries) == Assign(before, CredentialMap(entries))

\* ClientConfig, which every dial calls, returns no error.
ClientConfigBuilds(u) ==
    /\ Decodes(u.kless.secret) /\ Decodes(u.kless.signingKey)
    /\ CapabilityMask(u.transport, u.kless.capabilities) # {}
    /\ DurationsOK(u.durations)

-----------------------------------------------------------------------------
Init ==
    /\ cfg \in Files
    /\ stage = "read"
    /\ next = 1
    /\ caFiles = PEMFiles
    /\ dialers = Empty
    /\ relays = Empty
    /\ store = Empty

\* Mutant: the defaults are applied to a copy (Validate with a value receiver).
LoadNormalisingACopy ==
    /\ stage = "read"
    /\ stage' = IF Valid(Defaults(cfg), caFiles) THEN "checked" ELSE "refused"
    /\ UNCHANGED <<cfg, next, caFiles, dialers, relays, store>>

\* Load, which is all that `knode check` does.
Load ==
    /\ stage = "read"
    /\ cfg' = Defaults(cfg)
    /\ stage' = IF Valid(cfg', caFiles) THEN "checked" ELSE "refused"
    /\ UNCHANGED <<next, caFiles, dialers, relays, store>>

\* New validates the configuration that Load has normalised, and normalises it
\* once more.
New ==
    /\ stage = "checked"
    /\ cfg' = Defaults(cfg)
    /\ stage' = IF Valid(cfg', caFiles) THEN "dialers" ELSE "failed"
    /\ UNCHANGED <<next, caFiles, dialers, relays, store>>

\* NewUpstreamDialer validates, and keeps, a copy of its own.
NewUpstreamDialer ==
    /\ stage = "dialers"
    /\ next <= Len(cfg.upstreams)
    /\ LET u == UpstreamDefaults(cfg.upstreams[next]) IN
        IF UpstreamValid(u, caFiles)
        THEN /\ dialers' = Assign(dialers, One(cfg.upstreams[next].name, u))
             /\ next' = next + 1
             /\ stage' = stage
        ELSE stage' = "failed" /\ UNCHANGED <<next, dialers>>
    /\ UNCHANGED <<cfg, caFiles, relays, store>>

DialersBuilt ==
    /\ stage = "dialers"
    /\ next > Len(cfg.upstreams)
    /\ stage' = "relays"
    /\ next' = 1
    /\ UNCHANGED <<cfg, caFiles, dialers, relays, store>>

\* requireKLESSServerRelay and newServerRelay.
NewServerRelay ==
    /\ stage = "relays"
    /\ next <= Len(cfg.inbounds)
    /\ LET i == cfg.inbounds[next] IN
        /\ i.mode = "kless-server"
        /\ IF /\ Length[i.kless.signingPrivate] = 64
              /\ \A e \in Range(StaticCredentials(i.kless)) : Decodes(e.secret)
           THEN /\ store' = AddStatic(store, StaticCredentials(i.kless))
                /\ relays' = Assign(relays, One(i.name, i))
                /\ next' = next + 1
                /\ stage' = stage
           ELSE stage' = "failed" /\ UNCHANGED <<next, relays, store>>
    /\ UNCHANGED <<cfg, caFiles, dialers>>

NoRelay ==
    /\ stage = "relays"
    /\ next <= Len(cfg.inbounds)
    /\ cfg.inbounds[next].mode # "kless-server"
    /\ next' = next + 1
    /\ UNCHANGED <<cfg, stage, caFiles, dialers, relays, store>>

RelaysBuilt ==
    /\ stage = "relays"
    /\ next > Len(cfg.inbounds)
    /\ stage' = "built"
    /\ UNCHANGED <<cfg, next, caFiles, dialers, relays, store>>

\* A CA file is removed: its path is looked at by every validation.
FileGoes ==
    /\ \E f \in caFiles : caFiles' = caFiles \ {f}
    /\ UNCHANGED <<cfg, stage, next, dialers, relays, store>>

Terminated == stage \in {"refused", "failed", "built"} /\ UNCHANGED vars

Next ==
    \/ Load \/ New \/ NewUpstreamDialer \/ DialersBuilt
    \/ NewServerRelay \/ NoRelay \/ RelaysBuilt
    \/ FileGoes \/ Terminated

Spec == Init /\ [][Next]_vars
-----------------------------------------------------------------------------
Upstreams == Range(cfg.upstreams)
Servers == {i \in Range(cfg.inbounds) : i.mode = "kless-server"}

\* A configuration but for the one text that may change with every validation.
NoURL(k) == [k EXCEPT !.publicURL = "any"]
WithoutURL(c) == [c EXCEPT !.kboard = {NoURL(k) : k \in @}]

\* Everything the maps of the service hold was taken from the configuration,
\* under its own name and in its normalised form; once validated, no further
\* normalisation changes anything but Kboard's public URL (New, config.go:
\* 563-647).
TypeOK ==
    /\ stage \in {"read", "checked", "refused", "dialers", "relays", "built", "failed"}
    /\ next \in 1..(Len(cfg.upstreams) + Len(cfg.inbounds) + 1)
    /\ caFiles \subseteq PEMFiles
    /\ stage # "read" => WithoutURL(Defaults(cfg)) = WithoutURL(cfg)
    /\ \A name \in DOMAIN dialers : dialers[name] \in Upstreams /\ dialers[name].name = name
    /\ \A name \in DOMAIN relays : relays[name] \in Servers /\ relays[name].name = name
    /\ \A id \in DOMAIN store : id \in DOMAIN Trim /\ store[id] \in DOMAIN Length

\* What `knode check` accepts, `knode run` starts: New fails only when a CA file
\* has gone since, or when Kboard's public URL did not survive being trimmed
\* once more ("/ / /" is "/ " to the check and empty to New).  A service that
\* was built has a relay for each kless-server inbound and a dialer for the
\* upstream of every other one (handleConnection, service.go:250-260, does not
\* expect a nil dialer), and no dial can fail for the configuration's sake
\* (ClientConfig, dialer.go:60).
CheckedConfigRuns ==
    /\ stage = "failed" =>
        \/ \E u \in Upstreams : u.caFile # "" /\ u.caFile \notin caFiles
        \/ \E k \in cfg.kboard : ~PublicURLValid(k)
    /\ stage = "built" =>
        /\ \A i \in Range(cfg.inbounds) :
            IF i.mode = "kless-server" THEN i.name \in DOMAIN relays /\ relays[i.name] = i
            ELSE i.upstream \in DOMAIN dialers
        /\ \A name \in DOMAIN dialers : ClientConfigBuilds(dialers[name])

\* The store that all kless-server inbounds share (AddStatic, client_store.go:66)
\* knows every client any of them lists, by a secret of at least 32 bytes that
\* was listed for it, and nobody else; a client for which one secret is listed
\* is thus known by that secret, on whichever inbound it was listed.  Each
\* such inbound lists a client, unless users come from Kboard.
StaticClientsAreKnown ==
    stage = "built" =>
        LET listed(id) == {e.secret : e \in
                {f \in UNION {Range(StaticCredentials(i.kless)) : i \in Servers} :
                    Trim[f.id] = id}}
        IN /\ \A id \in DOMAIN Trim : id \in DOMAIN store <=> listed(id) # {}
           /\ \A id \in DOMAIN store :
                store[id] \in listed(id) /\ Length[store[id]] >= 32
           /\ \A i \in Servers :
                \/ StaticCredentials(i.kless) # <<>>
                \/ \E k \in cfg.kboard : k.usersEndpoint # ""
=============================================================================
