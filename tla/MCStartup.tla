----------------------------- MODULE MCStartup -----------------------------
(***************************************************************************)
(* Startup for files with up to two upstreams and up to two inbounds that  *)
(* are sound one by one (blanks around names and ids, aliases of a mode,   *)
(* names and ids that may collide), or with one that differs from a sound  *)
(* one in some respect (keys that are short, mixed up or do not decode,    *)
(* wrong sizes, durations, capabilities and so on).                        *)
(***************************************************************************)
EXTENDS Startup

MCTrim == [t \in {"", " ", "a", " a", "b", "server", "kless-server", "tcp", " TLS",
                  "TLS", "tls", "quic", "all", "http3", "httpupdate", "host:1",
                  "http://k", "bogus", "ca.pem", "http://k/a / /", "http://k/a / ",
                  "http://k/a /", "http://k/a ", "http://k/a", "http://k/", "/ / /",
                  "/ / ", "/ /", "/ ", "/"} |->
    CASE t = " " -> "" [] t = " a" -> "a" [] t = " TLS" -> "TLS"
      [] t = "http://k/a / " -> "http://k/a /" [] t = "http://k/a " -> "http://k/a"
      [] t = "/ / " -> "/ /" [] t = "/ " -> "/" [] OTHER -> t]
MCUnslash == [t \in DOMAIN MCTrim |->
    CASE t = "http://k/a / /" -> "http://k/a / " [] t = "http://k/a /" -> "http://k/a "
      [] t = "http://k/" -> "http://k"
      [] t = "/ / /" -> "/ / " [] t = "/ /" -> "/ " [] t = "/" -> "" [] OTHER -> t]
MCLower == [t \in DOMAIN MCTrim |-> IF t = "TLS" THEN "tls" ELSE t]

\* pub and pub2 are public keys, priv and priv2 the private ones.
MCLength == [k \in {"", " ", "?", "short", "s1", "s2", "pub", "pub2", "priv", "priv2"} |->
    CASE k \in {"", " "} -> 0 [] k = "?" -> -1 [] k = "short" -> 16
      [] k \in {"priv", "priv2"} -> 64 [] OTHER -> 32]
MCPublicOf == [k \in {"priv", "priv2"} |-> IF k = "priv" THEN "pub" ELSE "pub2"]

Upstream ==
    [name |-> "a", transport |-> "tcp", address |-> "host:1", url |-> "", caFile |-> "",
     durations |-> {"absent"},
     kless |-> [clientID |-> "a", secret |-> "s1", signingKey |-> "pub",
                signingPrivate |-> "", maxFrame |-> 0, paddingMin |-> 0,
                paddingMax |-> 0, capabilities |-> {}]]

SoundUpstreams ==
    { Upstream,
      [Upstream EXCEPT !.name = " a", !.transport = " TLS", !.caFile = "ca.pem"],
      [Upstream EXCEPT !.name = "b", !.transport = "http3", !.url = "http://k"],
      [Upstream EXCEPT !.name = "b", !.kless.capabilities = {"httpupdate", " TLS"}] }

UnsoundUpstreams ==
    { [Upstream EXCEPT !.transport = "quic"],
      [Upstream EXCEPT !.kless.capabilities = {"all"}],
      [Upstream EXCEPT !.kless.secret = "?"],
      [Upstream EXCEPT !.kless.secret = "pub"],
      [Upstream EXCEPT !.kless.signingPrivate = "priv2"],
      [Upstream EXCEPT !.kless.signingPrivate = " "],
      [Upstream EXCEPT !.kless.paddingMin = 1],
      [Upstream EXCEPT !.durations = {"bad", "positive"}] }

Client(id, secret) == [id |-> id, secret |-> secret]

Forward ==
    [name |-> "a", listen |-> "host:1", mode |-> "", upstream |-> "a",
     maxConnections |-> 0,
     kless |-> [clientID |-> "", secret |-> "", signingKey |-> "",
                signingPrivate |-> "", clients |-> <<>>, maxFrame |-> 0,
                paddingMin |-> 0, paddingMax |-> 0, capabilities |-> {},
                durations |-> {"absent"}]]

Server ==
    [Forward EXCEPT !.name = "b", !.mode = "server", !.upstream = "",
                    !.kless.signingPrivate = "priv"]

SoundInbounds ==
    { Forward,
      [Forward EXCEPT !.name = "b", !.upstream = " a", !.mode = "tcp"],
      [Forward EXCEPT !.upstream = "b", !.kless.clients = <<Client(" a", "s1")>>],
      Server,
      [Server EXCEPT !.kless.secret = "s1", !.kless.clientID = " a", !.name = "a"],
      [Server EXCEPT !.kless.secret = "s1", !.kless.clientID = "a",
                     !.kless.clients = <<Client(" a", "s2"), Client("b", "s1")>>],
      [Server EXCEPT !.kless.clients = <<Client("b", "s2")>>, !.name = " a",
                     !.kless.signingKey = "pub"],
      [Server EXCEPT !.kless.secret = "s1", !.kless.clientID = " ",
                     !.kless.signingKey = " "] }

UnsoundInbounds ==
    { [Forward EXCEPT !.mode = "bogus"],
      [Forward EXCEPT !.maxConnections = -1],
      [Server EXCEPT !.kless.clients = <<Client(" ", "s2")>>],
      [Server EXCEPT !.kless.clients = <<Client("a", "short")>>],
      [Server EXCEPT !.kless.secret = "pub", !.kless.clientID = "a",
                     !.kless.signingKey = "pub"],
      [Server EXCEPT !.kless.secret = "s1", !.kless.clientID = "a",
                     !.kless.capabilities = {" "}],
      [Server EXCEPT !.kless.secret = "s1", !.kless.clientID = "a",
                     !.kless.signingPrivate = "s2"] }

KboardFile ==
    [publicURL |-> "http://k", nodeID |-> "a", sharedSecret |-> "a",
     usersEndpoint |-> "", aliveEndpoint |-> "a", durations |-> {"absent"}]

KboardFiles ==
    { {}, {KboardFile}, {[KboardFile EXCEPT !.usersEndpoint = "a"]},
      {[KboardFile EXCEPT !.usersEndpoint = " ", !.publicURL = "http://k/"]},
      {[KboardFile EXCEPT !.aliveEndpoint = " "]},
      {[KboardFile EXCEPT !.publicURL = "http://k/a / /"]},
      {[KboardFile EXCEPT !.publicURL = "/ / /"]},
      {[KboardFile EXCEPT !.publicURL = "bogus"]} }

UpTo2(sound, unsound) ==
    {<<>>} \cup {<<x>> : x \in sound \cup unsound} \cup {<<x, y>> : x, y \in sound}

MCFiles ==
    [nodeID : {"a"}, durations : {{"absent"}}, kboard : KboardFiles,
     upstreams : UpTo2(SoundUpstreams, UnsoundUpstreams),
     inbounds : UpTo2(SoundInbounds, UnsoundInbounds)]
    \cup {[nodeID |-> " ", durations |-> {"absent"}, kboard |-> {},
           upstreams |-> <<Upstream>>, inbounds |-> <<Forward>>],
          [nodeID |-> "a", durations |-> {"bad"}, kboard |-> {},
           upstreams |-> <<Upstream>>, inbounds |-> <<Forward>>]}
=============================================================================
